\* Filters end as they may but by a signal, and other programs change the file
\* at any time.  A load that has been answered is over.
SPECIFICATION FairSpec
CONSTANTS
  t1 = t1
  t2 = t2
  b1 = b1
  ascii = ascii
  utf8 = utf8
  latin1 = latin1
  Unknown = Unknown
  NoCharset = NoCharset
  TextFilters = {t1, t2}
  BinaryFilters = {b1}
  Runs = {t1, t2, b1}
  Replacing = {t1, b1}
  Charsets = {ascii, utf8, latin1}
  ASCII = ascii
  UTF8 = utf8
  BOMCharsets = {utf8}
  ExitStatuses = {"success", "failure", "replace document", "discard"}
  Streams = {"out", "err"}
  Background = TRUE
  MaxChunks = 1
  MaxAnswers = 2
  MaxChanges = 1
INVARIANTS
  TypeOK
  ShownIsPrepared
PROPERTIES
  ImplementsLoad
  LoadEnds
CHECK_DEADLOCK FALSE
