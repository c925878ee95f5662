SPECIFICATION FairSpec
CONSTANTS
  None = None
  r1 = r1
  r2 = r2
  coderA = coderA
  coderB = coderB
  planner = planner
  reviewer = reviewer
  Runs = {r1, r2}
  Roles = {coderA, coderB, planner, reviewer}
  RunOf <- MCRunOf
  MaxRetries = 1
  Strict = TRUE
INVARIANT NoChildAstray
INVARIANT FailureHasCause
PROPERTY InvocationsEnd
CHECK_DEADLOCK FALSE
