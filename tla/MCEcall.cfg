SPECIFICATION Spec
CONSTANTS
  TOP = 5
  Errors = {e1, e2}
  NULL = NULL
  NestedRaise = FALSE
INVARIANTS
  TypeOK
  StackIsNest
PROPERTIES
  AnswerIsOwn
  NestedCallReturns
