SPECIFICATION ReaderFairSpec
CONSTANTS
  r1 = r1
  r2 = r2
  c1 = c1
  c2 = c2
  Reader = {r1, r2}
  Client = {c1, c2}
  ReaderOf <- OwnReader
  Pread = {c2}
  Sweeper = {s1}
  Adjuster = {a1}
  FileLen = 1
  Whence = {"end"}
  NoReader = NoReader
CHECK_DEADLOCK FALSE
INVARIANTS
  ReadsWhereAsked
  ReadIsNotMoved
  ParkedRemembers
PROPERTIES
  ReadaheadRestored
