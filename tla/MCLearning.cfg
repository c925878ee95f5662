SPECIFICATION FairSpec
CONSTANTS
  a = a
  b = b
  c = c
  server = server
  cli = cli
  Jobs <- MCJobs
  Processes = {server, cli}
  Policies = {"p1", "p2", "p3"}
  Failures = {"wrong", "flaky"}
  Assignments <- MCAssignments
  NoCopy = NoCopy
  MaxTraces = 2
  MaxMemory = 1
  MaxPolicies = 2
\* Jobs end.
CHECK_DEADLOCK FALSE
PROPERTY UpdatesAreAtomic
INVARIANT AcknowledgedIsStored
INVARIANT ScoresKeptWhenAlone
PROPERTY SavesEnd
