SPECIFICATION Spec
CONSTANTS
  Candidates = {"main", "fix", "note"}
  NoCand = "none"
  FilesOf <- MCFilesOf
  Repairs = {"fix"}
  DocFiles = {"NOTES.md"}
  Messages <- MCMessages
  Sessions = {s1, s2}
  NoSession = NoSession
  Absent = Absent
  Torn = Torn
  NoState = NoState
  Requests = {r1, r2, r3}
  Origin = Origin
  NewFiles = {"NOTES.md"}
  RequestKinds = {"message", "rename", "delete", "start_workflow", "approve_patch", "reject_patch", "approve_shell", "reject_shell", "request_re_review", "undo_latest_patch", "propose", "review", "judge"}
  StartStates <- MCStartStates
  NewSession <- MCNewSession
  MaxInFlight = 2
  MaxDisturbed = 2
  MaxFaults = 1
SYMMETRY Symmetry
INVARIANT AnsweredStaysRecorded
INVARIANT SessionsListable
INVARIANT AppliedOncePerApproval
INVARIANT FailedPatchLeavesNoTrace
INVARIANT ChangedFilesHoldThePatch
INVARIANT CompletedIsVerified
PROPERTY BridgeKeepsArtifacts
CHECK_DEADLOCK FALSE
