\* One attempt of three rounds under every stop and abort rule.
CONSTANTS
  src = src
  secret = secret
  Files = {src, secret}
  Versions = {0, 1}
  HardGates <- MCHardGates
  SoftGates = 1
  Conditions <- MCConditions
  EvidenceRequired = TRUE
  JudgeFloor = 75
  DeniedFiles = {secret}
  AllowedFiles <- MCEverything
  MaxFilesChanged <- MCUnlimited
  StopHardGates = TRUE
  StopConditions = TRUE
  StopConfidence = 75
  StopNoBlockers = TRUE
  AbortMaxIterations = TRUE
  AbortNoProgress = 1
  AbortRepeated = 2
  AbortBudget = TRUE
  MaxIterations = 3
  MaxAttempts = 1
  Bases = {"run_baseline"}
  SnapshotIgnored = {}
  GitHidden = {}
  Committed <- MCCommitted
  AdapterFiles = {src, secret}
  AdapterResults <- MCResults
  GateFiles = {}
  UserFiles = {}
SPECIFICATION FairSpec
INVARIANTS
  ConvergedIsAccepted
  PolicyFollowsLedger
  DeniedNeverConverges
PROPERTIES
  AttemptsEnd
CHECK_DEADLOCK FALSE
