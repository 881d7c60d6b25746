CONSTANTS
  Inputs <- MCDayZeroInputs

SPECIFICATION Spec

INVARIANT
  FormatMatchesReference
