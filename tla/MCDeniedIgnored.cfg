\* The denied file lies in a directory the workspace snapshot leaves out.
CONSTANTS
  src = src
  secret = secret
  Files = {src, secret}
  Versions = {0, 1}
  HardGates <- MCOneGate
  SoftGates = 0
  Conditions <- MCOneCondition
  EvidenceRequired = TRUE
  JudgeFloor = 75
  DeniedFiles = {secret}
  AllowedFiles <- MCEverything
  MaxFilesChanged <- MCUnlimited
  StopHardGates = TRUE
  StopConditions = TRUE
  StopConfidence = 75
  StopNoBlockers = TRUE
  AbortMaxIterations = TRUE
  AbortNoProgress = 1
  AbortRepeated = 2
  AbortBudget = TRUE
  MaxIterations = 1
  MaxAttempts = 1
  Bases = {"run_baseline"}
  SnapshotIgnored = {secret}
  GitHidden = {}
  Committed <- MCCommitted
  AdapterFiles = {src, secret}
  AdapterResults <- MCResults
  GateFiles = {}
  UserFiles = {}
SPECIFICATION FairSpec
INVARIANTS
  DeniedNeverConverges
CHECK_DEADLOCK FALSE
