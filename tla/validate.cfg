CONSTANTS
  Lists <- MCLists
  MaxEntries = 3
  NULL = NULL
  Missing = Missing
  NonString = NonString
  NotList = NotList

SPECIFICATION FairSpec

\* h_jsonexport_validate returns; the run ends there
CHECK_DEADLOCK FALSE

PROPERTIES
  ValidationReturns

INVARIANTS
  TypeOK
  ValidationMatchesSpec
