CONSTANTS
  Kinds = {"d", "x"}
  Objects = {o1, o2, o3, o4}
  ClearsHandle = TRUE
  NULL = NULL
  NoValue = NoValue

SPECIFICATION Spec

\* once every object has been handed out and the handle is NULL, the
\* caller can only make calls that return at once
CHECK_DEADLOCK FALSE

INVARIANTS
  TypeOK
