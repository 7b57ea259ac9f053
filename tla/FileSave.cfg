\* Only latin1 can represent the text, and other programs leave the file in a
\* folder and unlocked.  A save that has been answered is over.
SPECIFICATION FairSpec
CONSTANTS
  t1 = t1
  t2 = t2
  b1 = b1
  latin1 = latin1
  utf8 = utf8
  NoCharset = NoCharset
  TextFilters = {t1, t2}
  BinaryFilters = {b1}
  Charsets = {utf8, latin1}
  Fits = {latin1}
  UTF8 = utf8
  FilterOutcomes = {"replaced", "error", "other output"}
  OutsideStatuses = {"writable", "writable by root"}
  MaxAnswers = 2
  MaxChanges = 2
INVARIANTS
  TypeOK
  WrittenIsPrepared
PROPERTIES
  
  ImplementsRequest
  SaveEnds
CHECK_DEADLOCK FALSE
