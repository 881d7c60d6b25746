CONSTANTS
  Lists <- MCShapeLists
  MaxEntries = 2
  NULL = NULL
  Missing = Missing
  NonString = NonString
  NotList = NotList
  Absent = Absent
  Garbage = Garbage
  NullLength = NullLength
  NoValue = NoValue

SPECIFICATION ComposedSpec

\* validation, initialisation and teardown each happen once; after
\* teardown, or after a rejected configuration, the pipeline stops
CHECK_DEADLOCK FALSE

INVARIANTS
  AcceptedConfigCompiles
