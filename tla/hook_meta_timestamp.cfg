CONSTANTS
  Threads = {t1, t2}
  Configs <- MetaTimestampConfigs
  Messages <- MCPlainMessages
  MaxNeedles = 2
  NULL = NULL
  Absent = Absent
  Garbage = Garbage
  NullLength = NullLength
  NoValue = NoValue

SPECIFICATION Spec

INVARIANT
  NoNullDeref
