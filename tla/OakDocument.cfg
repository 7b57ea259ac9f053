\* One save at a time, nothing typed while it runs, no switching of
\* applications during a macro.
\* The system may stop: nobody has to do anything more once the bounds are used.
SPECIFICATION Spec
CONSTANTS
  myLine = myLine
  theirLine = theirLine
  MyLines <- MCMyLines
  TheirLines <- MCTheirLines
  FirstText <- MCFirstText
  SaveIds = {s1}
  Allow = {"errors", "macros"}
  MaxRevision = 3
  MaxExternal = 3
  MaxHolds = 2
  MaxCrashes = 1
INVARIANTS
  TypeOK
  CleanMeansOnDisk
  SnapshotIsBase
  
  ChangesAreOnTheirWay
PROPERTIES
  ImportKeepsEdits
CHECK_DEADLOCK FALSE
