\* A command that saves first and is refreshed by changes, saves and the close
\* of its document.  The system may stop: nobody has to do anything more.
SPECIFICATION FairSpec
CONSTANTS
  c1 = c1
  c2 = c2
  r1 = r1
  r2 = r2
  NoRun = NoRun
  Commands = {c1, c2}
  Runs = {r1, r2}
  Refresh = {"changed", "saved", "closed"}
  SavesFirst = TRUE
  ExitStatuses = {"success", "failure"}
  Streams = {"out"}
  Background = FALSE
  MaxChunks = 0
  MaxEvents = 2
INVARIANTS
  TypeOK
  KillsItsOwn
PROPERTIES
  LoopsReturn
  ChangesAreRefreshed
CHECK_DEADLOCK FALSE
