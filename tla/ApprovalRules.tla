---------------------------- MODULE ApprovalRules ----------------------------
(***************************************************************************)
(* What the cockpit offers for approval and what an approval does to the   *)
(* recorded state of a session (src/cockpit/approvalExecutor.ts,           *)
(* viewModel.ts and verificationCommand.ts).  Every operator is pure: it   *)
(* maps a session state to the next one.  The disk, and the order in which *)
(* the requests read and write it, are in CockpitSession.                  *)
(***************************************************************************)
EXTENDS Naturals, Sequences, SequencesExt

CONSTANTS
  Candidates,   \* ids of the patch candidates a session may hold
  NoCand,       \* no candidate
  FilesOf,      \* candidate -> the files its unified diff names; {} is a candidate without a diff
  Repairs,      \* the candidates whose approach is "repair"
  DocFiles,     \* the files whose extension marks a document
  Messages      \* the requests that leave an artifact in a session

ASSUME CandidateAssumption ==
  /\ NoCand \notin Candidates
  /\ Repairs \subseteq Candidates
  /\ DOMAIN FilesOf = Candidates
  /\ DocFiles \subseteq UNION {FilesOf[c] : c \in Candidates}

Files == UNION {FilesOf[c] : c \in Candidates}
Results == {"completed", "partially_completed", "failed", "aborted"}
RunOutcomes == {"passed", "failed"}

(***************************************************************************)
(* The part of AgentGraphState the cockpit decides on.  "runner" and       *)
(* "reviewer" are the roles with an agent in waiting_for_user; reReview    *)
(* says that the last review_decision event asks for another review;       *)
(* command, that resolveCockpitShellCommand finds a safe command; refs are *)
(* the artifacts the ledger names, one per request that wrote some.        *)
(***************************************************************************)
SessionState ==
  [ cands: Seq(Candidates), repair: Candidates \union {NoCand}, judge: Candidates \union {NoCand},
    waiting: SUBSET {"runner", "reviewer"}, changed: SUBSET Files, runs: Seq(RunOutcomes),
    approved: SUBSET {"patch", "repair", "shell"}, summary: Results \union {"none"},
    reReview: BOOLEAN, plan: BOOLEAN, command: BOOLEAN, allowed: BOOLEAN, refs: SUBSET Messages ]

\* viewModel, approvalExecutor and verificationCommand each hold a copy of this function.
Selected(st) ==
  LET all == IF st.repair = NoCand THEN st.cands ELSE Append(st.cands, st.repair) IN
  IF st.repair # NoCand /\ "runner" \in st.waiting THEN st.repair
  ELSE IF Contains(all, st.judge) THEN st.judge
  ELSE IF all = <<>> THEN NoCand ELSE Head(all)

Kind(c) == IF c \in Repairs THEN "repair" ELSE "patch"

NoApproval == [id |-> NoCand, kind |-> "none"]

Closed(st) == st.summary \notin {"none", "partially_completed"} /\ st.waiting = {}

\* A patch that is listed but whose files are already changed counts as approved.
PatchWaiting(st) ==
  LET c == Selected(st) IN
  /\ c # NoCand
  /\ FilesOf[c] # {}
  /\ ~st.reReview
  /\ st.changed = {} \/ st.waiting # {}
  /\ IF c \in Repairs THEN "repair" \notin st.approved ELSE st.changed = {}

ShellWaiting(st) == st.changed # {} /\ st.runs = <<>> /\ "shell" \notin st.approved

CurrentApproval(st) ==
  IF Closed(st) THEN NoApproval
  ELSE IF PatchWaiting(st) THEN [id |-> Selected(st), kind |-> Kind(Selected(st))]
  ELSE IF ShellWaiting(st) THEN [id |-> "shell", kind |-> "shell"]
  ELSE NoApproval

PatchActions == {"approve_patch", "reject_patch"}
ShellActions == {"approve_shell", "reject_shell"}
OtherActions == {"request_re_review", "undo_latest_patch"}
ApprovalActions == PatchActions \union ShellActions \union OtherActions

\* The checks of validateApprovalIntent, in its order: TRUE when no HttpError is thrown.
Accepted(st, action, id) ==
  LET active == CurrentApproval(st) IN
  IF action \in OtherActions
  THEN id = NoCand \/ active = NoApproval \/ id = active.id
  ELSE /\ active # NoApproval
       /\ id = active.id
       /\ (action \in PatchActions) = (active.kind # "shell")

(* ----------------------- what an approval records ---------------------- *)

MayApplyPatch(st) == Selected(st) # NoCand /\ FilesOf[Selected(st)] # {} /\ st.allowed

\* (mutant) the changed files are not recorded.
PatchAppliedUnlisted(st) ==
  [st EXCEPT !.approved = @ \union {Kind(Selected(st))}, !.summary = "none", !.waiting = {}]

PatchApplied(st) ==
  [st EXCEPT !.changed = @ \union FilesOf[Selected(st)],
             !.approved = @ \union {Kind(Selected(st))},
             !.summary = "none",
             !.waiting = {}]

PatchFailed(st) ==
  [st EXCEPT !.approved = @ \ {Kind(Selected(st))}, !.summary = "failed", !.waiting = {}]

PatchRejected(st) ==
  [st EXCEPT !.approved = @ \ {IF Selected(st) = NoCand THEN "patch" ELSE Kind(Selected(st))},
             !.summary = "aborted", !.waiting = {}]

ShellRejected(st) == [st EXCEPT !.approved = @ \ {"shell"}, !.summary = "aborted", !.waiting = {}]

\* (mutant) any run counts as a passing one.
SummaryOfAnyRun(changed, runs) ==
  IF changed = {} \/ runs = <<>> THEN "partially_completed" ELSE "completed"

\* SummarizerAgent: one passing run among all the runs is enough for "completed".
SummaryOf(changed, runs) ==
  IF changed = {} \/ runs = <<>> THEN "partially_completed"
  ELSE IF Contains(runs, "passed") THEN "completed"
  ELSE IF changed \subseteq DocFiles THEN "partially_completed"
  ELSE "failed"

RefreshSummary(st) == IF st.plan THEN [st EXCEPT !.summary = SummaryOf(st.changed, st.runs)] ELSE st

\* The structural verifier stands in for a command: no run when a document is missing or blank.
StructuralRun(st, readable) ==
  LET docs == st.changed \intersect DocFiles IN
  IF docs # {} /\ docs \subseteq readable THEN <<"passed">> ELSE <<>>

ShellAcknowledged(st, readable) ==
  RefreshSummary([st EXCEPT !.runs = @ \o StructuralRun(st, readable),
                            !.approved = @ \union {"shell"}, !.waiting = {}])

ShellRan(st, outcome, r) ==
  RefreshSummary([st EXCEPT !.runs = Append(@, outcome), !.approved = @ \union {"shell"},
                            !.waiting = {}, !.refs = @ \union {r}])

ShellBlocked(st) == [st EXCEPT !.summary = "failed", !.waiting = {}]

ReReviewRequested(st, r) ==
  [st EXCEPT !.summary = "none", !.waiting = @ \union {"reviewer"}, !.reReview = TRUE,
             !.refs = @ \union {r}]

\* (mutant) the restored file stays listed as changed.
UndoneStillListed(st, f, r) == [st EXCEPT !.summary = "none", !.refs = @ \union {r}]

Undone(st, f, r) == [st EXCEPT !.changed = @ \ {f}, !.summary = "none", !.refs = @ \union {r}]

(* ------------------- what the other requests record -------------------- *)

\* A continuation message gives a session that has no result the result "completed".
Continued(st, r) ==
  [st EXCEPT !.summary = IF @ = "none" THEN "completed" ELSE @, !.refs = @ \union {r}]

\* The code appends a candidate id it already holds once more, which selects nothing new.
Proposed(st, c, r) ==
  [st EXCEPT !.cands = IF Contains(@, c) THEN @ ELSE Append(@, c), !.refs = @ \union {r}]

\* (mutant) the review is not added to the artifacts.
ReviewedUnrecorded(st, r) == [st EXCEPT !.reReview = FALSE]

Reviewed(st, r) == [st EXCEPT !.reReview = FALSE, !.refs = @ \union {r}]

Judged(st, c, r) == [st EXCEPT !.judge = c, !.refs = @ \union {r}]

==============================================================================
