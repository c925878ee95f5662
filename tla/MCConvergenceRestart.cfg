\* Two attempts under one run id, with crashes and edits by somebody else.
CONSTANTS
  src = src
  secret = secret
  Files = {src, secret}
  Versions = {0, 1}
  HardGates <- MCOneGate
  SoftGates = 0
  Conditions <- MCOneCondition
  EvidenceRequired = TRUE
  JudgeFloor = 75
  DeniedFiles = {secret}
  AllowedFiles <- MCEverything
  MaxFilesChanged <- MCUnlimited
  StopHardGates = TRUE
  StopConditions = TRUE
  StopConfidence <- MCNoThreshold
  StopNoBlockers = TRUE
  AbortMaxIterations = TRUE
  AbortNoProgress = 0
  AbortRepeated = 2
  AbortBudget = TRUE
  MaxIterations = 2
  MaxAttempts = 2
  Bases = {"run_baseline", "no_baseline"}
  SnapshotIgnored = {}
  GitHidden = {secret}
  Committed <- MCCommitted
  AdapterFiles = {src}
  AdapterResults <- MCOneResult
  GateFiles = {secret}
  UserFiles = {secret}
SPECIFICATION FairSpec
INVARIANTS
  VerdictIsLogged
  EvidenceMatchesLatest
PROPERTIES
  ActsOnlyOnCurrentState
  ShowsBoundedRun
CHECK_DEADLOCK FALSE
