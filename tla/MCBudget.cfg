SPECIFICATION Spec
CONSTANT Settings <- MCSettings
\* A run that is over does nothing more.
CHECK_DEADLOCK FALSE
INVARIANT OvershootIsOneBatch
INVARIANT RoleBudgetHolds
