\* Another program removes the folder while the save is under way.
SPECIFICATION Spec
CONSTANTS
  t1 = t1
  t2 = t2
  b1 = b1
  latin1 = latin1
  utf8 = utf8
  NoCharset = NoCharset
  TextFilters = {t1, t2}
  BinaryFilters = {b1}
  Charsets = {utf8, latin1}
  Fits = {utf8}
  UTF8 = utf8
  FilterOutcomes = {"replaced", "error", "other output"}
  OutsideStatuses = {"no parent"}
  MaxAnswers = 2
  MaxChanges = 1
INVARIANTS
  SuccessMeansWritten
CHECK_DEADLOCK FALSE
