\* A cancel answered "canceled" and the run going on.
CONSTANTS
  c1 = c1
  c2 = c2
  m1 = m1
  m2 = m2
  Nothing = Nothing
  Cancels = {c1}
  Messages = {m1}
  RunResults = {"completed", "aborted"}
  MaxEvents = 1
SPECIFICATION Spec
INVARIANTS
  CanceledIsAborted
CHECK_DEADLOCK FALSE
