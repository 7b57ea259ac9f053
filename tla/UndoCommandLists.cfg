\* Several commands in one group, as a key binding with an array of selectors runs.
SPECIFICATION Spec
CONSTANTS
  a = a
  sp = sp
  Words <- MCWords
  Blanks <- MCBlanks
  Pieces <- MCPieces
  Ranges = {s1, s2}
  NoRanges = none
  CommandLists = TRUE
  MaxText = 2
  MaxRecords = 2
  MaxRevision = 3
  MaxNesting = 2
INVARIANT LoopsStayInRecords
