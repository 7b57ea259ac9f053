\* Replies outside of groups, the grammar changes while nothing is parsed.
\* The system may stop: nobody has to do anything more once the bounds are used.
SPECIFICATION FairSpec
CONSTANTS
  nl = nl
  quote = quote
  g1 = g1
  NoGrammar = NoGrammar
  Chars <- MCChars
  Newline = nl
  Quote = quote
  Pieces <- MCPieces
  Grammars = {g1}
  Allow = {}
  MaxText = 3
  MaxRevision = 3
  MaxRecords = 2
  MaxSwitches = 1
INVARIANTS
  TypeOK
  PrefixIsParsed
  UsedRepliesAreCurrent
PROPERTIES
  ParsingCatchesUp
CHECK_DEADLOCK FALSE
