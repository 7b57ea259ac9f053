\* One save at a time, and everything the environment may do: typing during a
\* save, switching applications, deletion, joined loads and every failure.
\* The system may stop: nobody has to do anything more once the bounds are used.
SPECIFICATION FairSpec
CONSTANTS
  myLine = myLine
  theirLine = theirLine
  MyLines <- MCMyLines
  TheirLines <- MCTheirLines
  FirstText <- MCFirstText
  SaveIds = {s1}
  Allow = {"typing", "macros", "leaving", "deleting", "joining", "errors", "attributes", "import errors"}
  MaxRevision = 2
  MaxExternal = 2
  MaxHolds = 3
  MaxCrashes = 1
INVARIANTS
  ClosedLeavesNoBackup
  InUseIsLoaded
PROPERTIES
  WaitsEnd
  
CHECK_DEADLOCK FALSE
