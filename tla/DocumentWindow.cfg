\* Two windows, one file and two untitled documents, loads that fail, and two
\* chains of saves.  The system may stop: nobody has to do anything more.
SPECIFICATION FairSpec
CONSTANTS
  d1 = d1
  u1 = u1
  u2 = u2
  w1 = w1
  w2 = w2
  j1 = j1
  j2 = j2
  NoDoc = NoDoc
  NoWindow = NoWindow
  Docs = {d1, u1, u2}
  Untitled = {u1, u2}
  Windows = {w1, w2}
  Jobs = {j1, j2}
  MaxEdits = 2
  MaxRequests = 4
INVARIANTS
  TypeOK
  InUseIsHeld
  
PROPERTIES
  LostIsAgreed
  TerminateIsAnswered
CHECK_DEADLOCK FALSE
