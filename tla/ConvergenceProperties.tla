----------------------- MODULE ConvergenceProperties ------------------------
(***************************************************************************)
(* What must be true of the convergence engine and of the files it leaves  *)
(* under .runs/<run id>/.                                                  *)
(***************************************************************************)
EXTENDS ConvergenceEngine

Keys ==
  [satisfied : SUBSET CondIds, missing : SUBSET CondIds, failed : SUBSET HardIds,
   changed : SUBSET Names, action : {"success", "failed", "skipped"}]

Statuses ==
  [attempt : 0..MaxAttempts, iteration : 0..MaxIterations, phase : Phases,
   reason : Reasons, stage : {"none", "pre_action", "post_action", "torn", "garbled"},
   observed : SUBSET Names, action : ActionResult, eval : Evaluations,
   blockers : SUBSET BlockerKinds]

PCs == {"idle", "append", "latest", "progress", "pre_observe", "pre_accept",
        "evidence", "act", "post_observe", "post_accept", "done"}

\* Every variable stays within its type; in particular the iteration number
\* and the number of adapter calls never pass the policy's bound.
TypeOK ==
  /\ tree \in Trees /\ baseline \in Trees /\ basis \in AllBases
  /\ pc \in PCs
  /\ attempt \in 0..MaxAttempts
  /\ iteration \in 0..MaxIterations
  /\ observed \subseteq Names
  /\ action \in ActionResult
  /\ rounds \in [repeated : Nat, stale : Nat, any : BOOLEAN, key : Keys]
  /\ previous \in [any : BOOLEAN, failed : SUBSET HardIds]
  /\ status \in Statuses
  /\ queue \in Seq(EvidenceFiles)
  /\ acts \in 0..MaxIterations
  /\ trace \in Seq(Statuses)
  /\ latest \in Statuses /\ progress \in Statuses
  /\ evidence \in [Iterations ->
                     [files : [EvidenceFiles -> 0..MaxAttempts], phase : Phases]]

Final == {"converged", "aborted"}
Recorded == {n \in DOMAIN trace : trace[n].stage \notin {"torn", "garbled"}}
Shown == {trace[n] : n \in Recorded} \cup {latest, progress}

------------------------------------------------------------------------------
(* Verdicts.                                                                 *)

\* What a status must be able to say before it says "converged": the required
\* blocking checks passed and left evidence, every required condition is met,
\* no blocker is unresolved, and what was observed to change is within the
\* constraints of the goal.
Accepted(s) ==
  s.phase = "converged" =>
    /\ s.eval.failed = {} /\ s.eval.missing = {} /\ s.eval.unproved = {}
    /\ s.blockers = {}
    /\ s.observed \cap DeniedFiles = {} /\ s.observed \subseteq AllowedFiles

\* Whatever an adapter reports and however attempts interleave with crashes and
\* edits, every run state anybody can read, in the ledger or in the two files
\* that mirror it, is accepted; for the policy that stops on all blocking
\* checks, all conditions and no blockers (the default of defaultLoopSpec).
ConvergedIsAccepted == \A s \in Shown : Accepted(s)

\* The rounds of one attempt as the ledger tells them: the post-action status
\* of iteration i.
Round(a, i) ==
  {n \in Recorded : /\ trace[n].attempt = a /\ trace[n].iteration = i
                    /\ trace[n].stage = "post_action"}

\* The N rounds up to and including i all left a required check failing.
FailingFor(N, a, i) ==
  /\ N > 0 /\ N <= i
  /\ \A j \in (i - N + 1)..i : \E n \in Round(a, j) : trace[n].eval.failed # {}

\* Round i and the N before it left the same progress key.
UnchangedFor(N, a, i) ==
  /\ N > 0 /\ N < i
  /\ \A j \in (i - N)..i : \E n \in Round(a, j), m \in Round(a, i) :
       ProgressKey(trace[n]) = ProgressKey(trace[m])

\* The abort rules are about the rounds in the ledger, not about counters: a
\* recorded round that neither broke a constraint, nor converged, nor spent
\* the budget is aborted for repeated failures exactly when that many rounds
\* in a row failed, for lack of progress exactly when that many rounds in a
\* row changed nothing, and is the last one allowed or continues otherwise.
PolicyFollowsLedger ==
  \A n \in Recorded :
    LET s == trace[n] IN
      ( /\ s.stage = "post_action"
        /\ s.phase # "converged"
        /\ s.reason \notin {"violation", "budget"} ) =>
        s.reason =
          IF FailingFor(AbortRepeated, s.attempt, s.iteration)
          THEN "repeated_failure"
          ELSE IF UnchangedFor(AbortNoProgress, s.attempt, s.iteration)
          THEN "no_progress"
          ELSE IF AbortMaxIterations /\ s.iteration = MaxIterations
          THEN "max_iterations" ELSE "continue"

\* A run that has ended shows its verdict: nobody reads "running" in the
\* report of a run that is not.
FinishedRunHasVerdict == pc = "done" => progress.phase \in Final

\* A converged run did not touch a denied file, whatever was observed of it.
DeniedNeverConverges ==
  status.phase = "converged" /\ pc = "append" =>
    \A f \in DeniedFiles \ (GateFiles \cup UserFiles) : tree[f] = baseline[f]

------------------------------------------------------------------------------
(* The run directory across crashes and restarts.                            *)

\* A verdict a reader sees in status.latest.json or progress.md has a line of
\* its own in the ledger, even when an earlier attempt died in the middle of
\* appending a line.
VerdictIsLogged ==
  \A s \in {latest, progress} : s.phase \in Final =>
    \E n \in Recorded : trace[n] = s

\* status.latest.json never refers to evidence that is missing, stale or of
\* another decision: all five files of its iteration were written by the
\* attempt and for the verdict it shows.
EvidenceMatchesLatest ==
  latest.iteration > 0 =>
    /\ \A f \in EvidenceFiles : evidence[latest.iteration].files[f] = latest.attempt
    /\ evidence[latest.iteration].phase = latest.phase

\* The adapter is called only when every file of the run directory shows the
\* run as open in this attempt, and the ledger holds all rounds but this one.
ActsOnCurrentState ==
  acts' > acts =>
    /\ latest = status /\ progress = status
    /\ latest.attempt = attempt /\ latest.phase \in Open
    /\ latest.iteration = iteration - 1
    /\ \A i \in 1..(iteration - 1) : Cardinality(Round(attempt, i)) = 1

ActsOnlyOnCurrentState == [][ActsOnCurrentState]_vars

\* What the run directory shows of a run follows the abstract specification.
Shows == INSTANCE RunVerdict WITH
  verdict <- IF latest = NoStatus THEN "none"
             ELSE IF latest.phase \in Open THEN "open" ELSE latest.phase,
  rounds <- latest.iteration

ShowsBoundedRun == Shows!VSpec

------------------------------------------------------------------------------
(* Liveness.                                                                 *)

\* An attempt that starts ends, by itself or by dying.
AttemptsEnd == pc = "append" ~> pc \in {"idle", "done"}
==============================================================================
