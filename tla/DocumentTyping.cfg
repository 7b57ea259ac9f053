\* The user types while the document is being saved, and no other program
\* touches the file.
\* The system may stop: nobody has to do anything more once the bounds are used.
SPECIFICATION Spec
CONSTANTS
  myLine = myLine
  theirLine = theirLine
  MyLines <- MCMyLines
  TheirLines <- MCTheirLines
  FirstText <- MCFirstText
  SaveIds = {s1}
  Allow = {"typing"}
  MaxRevision = 2
  MaxExternal = 0
  MaxHolds = 2
  MaxCrashes = 0
INVARIANTS
  NothingTypedIsLost
CHECK_DEADLOCK FALSE
