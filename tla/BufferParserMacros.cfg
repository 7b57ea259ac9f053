\* Replies arrive while a command of a macro runs, too.
\* The system may stop: nobody has to do anything more once the bounds are used.
SPECIFICATION FairSpec
CONSTANTS
  nl = nl
  quote = quote
  g1 = g1
  NoGrammar = NoGrammar
  Chars <- MCChars
  Newline = nl
  Quote = quote
  Pieces <- MCPieces
  Grammars = {g1}
  Allow = {"macros"}
  MaxText = 3
  MaxRevision = 3
  MaxRecords = 2
  MaxSwitches = 1
PROPERTIES
  AnnouncedIsInText
CHECK_DEADLOCK FALSE
