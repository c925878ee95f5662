CONSTANTS
    s1 = s1
    s2 = s2
    Scenarios <- MCScenarios
    Signatures <- MCSignatures
    MaxShellRuns = 3
    MaxRepairs = 2
SPECIFICATION Spec
INVARIANT TaskNeedsInputs
INVARIANT DivergenceExplained
INVARIANT AcceptedIsVerified
PROPERTY RunEnds
CHECK_DEADLOCK FALSE
