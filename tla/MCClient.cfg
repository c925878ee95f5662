SPECIFICATION TabFairSpec
CONSTANTS
  None = None
  Runs = {r1}
  Olds = {o1}
  MaxOps = 2
  MaxErrors = 1
INVARIANT BusyHasReason
INVARIANT StopNamesTheRun
PROPERTY EndIsSeen
CHECK_DEADLOCK FALSE
