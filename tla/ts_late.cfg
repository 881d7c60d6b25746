CONSTANTS
  Inputs <- MCLateInputs

SPECIFICATION Spec

INVARIANT
  FormatMatchesReference
