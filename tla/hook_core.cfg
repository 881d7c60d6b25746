CONSTANTS
  Threads = {t1, t2}
  Configs <- MCConfigs
  Messages <- MCMessages
  MaxNeedles = 2
  NULL = NULL
  Absent = Absent
  Garbage = Garbage
  NullLength = NullLength
  NoValue = NoValue

SPECIFICATION Spec

INVARIANTS
  TypeOK
  NoUseAfterFree
  NoDoubleFree
  SlotBuffersReleased
  PayloadOwnership

PROPERTIES
  ImplementsProjector
