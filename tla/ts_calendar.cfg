CONSTANTS
  Inputs <- MCCalendarInputs

SPECIFICATION Spec

INVARIANTS
  TypeOK
  FormatMatchesReference
