CONSTANTS
  Threads = {t1, t2}
  Configs <- StoreConfigs
  Messages <- MCNullMessages
  MaxNeedles = 2
  NULL = NULL
  Absent = Absent
  Garbage = Garbage
  NullLength = NullLength
  NoValue = NoValue

SPECIFICATION Spec

INVARIANT
  NoNullDeref
