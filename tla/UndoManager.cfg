\* One command per group, as menu items and single-selector key bindings run.
SPECIFICATION FairSpec
CONSTANTS
  a = a
  sp = sp
  Words <- MCWords
  Blanks <- MCBlanks
  Pieces <- MCPieces
  Ranges = {s1}
  NoRanges = none
  CommandLists = FALSE
  MaxText = 2
  MaxRecords = 3
  MaxRevision = 4
  MaxNesting = 2
INVARIANTS
  TypeOK
  UndoRestoresText
  SavedRevisionMeansSavedText
  LoopsStayInRecords
  RestsAtGroupEdge
PROPERTIES
  OnlyEditsDropRecords
  LoopsEnd
  ImplementsHistory
