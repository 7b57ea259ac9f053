--------------------------- MODULE MCBufferParser ---------------------------
(* Instances of BufferParser for TLC. *)
EXTENDS BufferParser

CONSTANTS nl, quote

MCChars  == {nl, quote}
MCPieces == {<<>>, <<nl>>, <<quote, nl>>}
=============================================================================
