------------------------- MODULE ConvergenceEngine --------------------------
(***************************************************************************)
(* ReconciliationController.run (the Canopus ConvergenceEngine): observe,  *)
(* accept, act, observe, accept, decide, persist.  One run id is started   *)
(* up to MaxAttempts times; each attempt is one process, which can die at  *)
(* any step and leaves behind what it had written under .runs/<run id>/.   *)
(*                                                                         *)
(* Every action ends at an await of the code, so that crashes and edits    *)
(* of the workspace by somebody else fall between any two of them.         *)
(***************************************************************************)
EXTENDS AcceptanceMatrix

CONSTANTS
  MaxAttempts,      \* how often this run id is started (bounds the model)
  Bases,            \* whether the snapshot that Start takes may, or must, fail
  SnapshotIgnored,  \* files under node_modules, dist, .git, .runs, .tomorrowedge
  GitHidden,        \* files `git status` never lists
  Committed,        \* versions at git HEAD, also the initial workspace
  AdapterFiles,     \* files the AgentBridge adapter may write
  AdapterResults,   \* what it may return: [status, budget]
  GateFiles,        \* files a gate command may write
  UserFiles         \* files somebody else may edit while a run is going on

AllBases == {"run_baseline", "no_baseline"}
ActionResult == [status : {"success", "failed", "skipped"}, budget : BOOLEAN]
Trees == [Files -> Versions]

ASSUME EngineAssumption ==
  /\ MaxAttempts \in Nat
  /\ Bases \subseteq AllBases
  /\ SnapshotIgnored \subseteq Files /\ GitHidden \subseteq Files
  /\ Committed \in Trees
  /\ AdapterFiles \subseteq Files /\ GateFiles \subseteq Files
  /\ UserFiles \subseteq Files
  /\ AdapterResults \subseteq ActionResult

VARIABLES
  \* the workspace and the process
  tree,       \* current version of every file
  baseline,   \* the snapshot taken when the attempt started
  basis,      \* whether this attempt has that snapshot to observe against
  pc,         \* where the attempt is
  attempt,    \* 0 before the first start
  iteration,
  observed,   \* files_changed of the last observation
  action,     \* result of the last adapter call
  rounds,     \* DecisionState
  previous,   \* previousEvaluation: required gates it left failing
  status,     \* lastStatus, the status to write or last written
  queue,      \* evidence files still to write
  acts,       \* adapter calls of this attempt
  \* the run directory
  trace,      \* lines of trace.jsonl
  latest,     \* status.latest.json
  progress,   \* progress.md
  evidence    \* evidence/iteration_<k>/

memory == <<baseline, basis, attempt, iteration, observed, action, rounds,
            previous, status, queue, acts>>
disk == <<trace, latest, progress, evidence>>
vars == <<tree, pc, memory, disk>>

Iterations == 1..MaxIterations
Phases == {"initialized", "evaluating", "converged", "aborted"}
Open == {"initialized", "evaluating"}
EvidenceFiles ==
  {"pre_gate_results", "post_gate_results", "changed_files", "gate_results",
   "controller_decision"}

------------------------------------------------------------------------------
(* Statuses.                                                                 *)

BlankEvaluation ==
  [failed |-> {}, unproved |-> {}, satisfied |-> {},
   missing |-> {c \in CondIds : Conditions[c].required},
   advised |-> FALSE, weak |-> FALSE, confidence |-> NoThreshold]

NoAction == [status |-> "skipped", budget |-> FALSE]

\* buildStatus; started_at tells attempts apart, and action stands for the
\* errors, commands and artifacts the adapter call left in the status.
Status(a, i, phase, reason, stage, seen, act, e, blockers) ==
  [attempt |-> a, iteration |-> i, phase |-> phase, reason |-> reason,
   stage |-> stage, observed |-> seen, action |-> act, eval |-> e,
   blockers |-> blockers]

FirstStatus(a) ==
  Status(a, 0, "initialized", "initialized", "none", {}, NoAction,
         BlankEvaluation, {})

\* Not a status: no file yet, a line of trace.jsonl cut by a crash, and the
\* unparsable line a cut one becomes when the next status is appended to it.
NoStatus == FirstStatus(0)
TornLine == [NoStatus EXCEPT !.stage = "torn"]
GarbledLine == [NoStatus EXCEPT !.stage = "garbled"]

\* The progress key of a round, as updateDecisionState builds it.
ProgressKey(s) ==
  [satisfied |-> s.eval.satisfied, missing |-> s.eval.missing,
   failed |-> s.eval.failed, changed |-> s.observed, action |-> s.action.status]

NoRounds == [repeated |-> 0, stale |-> 0, any |-> FALSE, key |-> ProgressKey(NoStatus)]

\* Mutant: a round whose required checks pass does not reset the count.
UpdateRoundsNoReset(r, s) ==
  [repeated |-> IF s.eval.failed # {} THEN r.repeated + 1 ELSE r.repeated,
   stale    |-> IF r.any /\ r.key = ProgressKey(s) THEN r.stale + 1 ELSE 0,
   any      |-> TRUE,
   key      |-> ProgressKey(s)]

UpdateRounds(r, s) ==
  [repeated |-> IF s.eval.failed # {} THEN r.repeated + 1 ELSE 0,
   stale    |-> IF r.any /\ r.key = ProgressKey(s) THEN r.stale + 1 ELSE 0,
   any      |-> TRUE,
   key      |-> ProgressKey(s)]

------------------------------------------------------------------------------
(* The workspace (diff.ts).                                                  *)

Rewrites(t, touched) ==
  {u \in Trees : \A f \in Files \ touched : u[f] = t[f]}

\* gitChangedFiles: the files that differ from HEAD, any of them staged or not.
GitStatus(t) ==
  LET changed == {f \in Files \ GitHidden : t[f] # Committed[f]}
      tracked == {f \in changed : Committed[f] # 0}
  IN {(changed \ unstaged) \cup {Unstaged(f) : f \in unstaged} :
        unstaged \in SUBSET tracked}

\* observeWorkspace: against the run's own snapshot when there is one, else
\* what git lists, else (git is not available) nothing.
Observations(t) ==
  IF basis = "run_baseline"
  THEN {{f \in Files \ SnapshotIgnored : t[f] # baseline[f]}}
  ELSE {{}} \cup GitStatus(t)

------------------------------------------------------------------------------
Init ==
  /\ tree = Committed
  /\ baseline = Committed /\ basis = "run_baseline"
  /\ pc = "idle" /\ attempt = 0 /\ iteration = 0
  /\ observed = {} /\ action = NoAction /\ rounds = NoRounds
  /\ previous = [any |-> FALSE, failed |-> {}]
  /\ status = NoStatus /\ queue = <<>> /\ acts = 0
  /\ trace = <<>> /\ latest = NoStatus /\ progress = NoStatus
  /\ evidence = [i \in Iterations |->
                   [files |-> [f \in EvidenceFiles |-> 0], phase |-> "initialized"]]

\* Mutant: no status is written before the first iteration.
StartSilently ==
  /\ pc \in {"idle", "done"} /\ attempt < MaxAttempts
  /\ attempt' = attempt + 1 /\ baseline' = tree /\ basis' \in Bases
  /\ iteration' = 1 /\ observed' = {} /\ action' = NoAction
  /\ rounds' = NoRounds /\ previous' = [any |-> FALSE, failed |-> {}]
  /\ status' = FirstStatus(attempt + 1) /\ queue' = <<>> /\ acts' = 0
  /\ pc' = "pre_observe"
  /\ UNCHANGED <<tree, disk>>

\* run() up to its first writeStatus.  An error while the baseline snapshot is
\* taken is swallowed: the attempt goes on without one.
Start ==
  /\ pc \in {"idle", "done"}
  /\ attempt < MaxAttempts
  /\ attempt' = attempt + 1
  /\ baseline' = tree
  /\ basis' \in Bases
  /\ iteration' = 0 /\ observed' = {} /\ action' = NoAction
  /\ rounds' = NoRounds /\ previous' = [any |-> FALSE, failed |-> {}]
  /\ status' = FirstStatus(attempt + 1)
  /\ queue' = <<>> /\ acts' = 0
  /\ pc' = "append"
  /\ UNCHANGED <<tree, disk>>

------------------------------------------------------------------------------
(* StatusStore.writeStatus: three files, one after the other.                *)

Torn == trace # <<>> /\ trace[Len(trace)] = TornLine

AppendTrace ==
  /\ pc = "append"
  /\ trace' = IF Torn THEN [trace EXCEPT ![Len(trace)] = GarbledLine]
              ELSE Append(trace, status)
  /\ pc' = "latest"
  /\ UNCHANGED <<tree, memory, latest, progress, evidence>>

\* Mutant: status.latest.json is written for verdicts only.
WriteLatestFinal ==
  /\ pc = "latest"
  /\ latest' = IF status.phase \in Open THEN latest ELSE status
  /\ pc' = "progress"
  /\ UNCHANGED <<tree, memory, trace, progress, evidence>>

WriteLatest ==
  /\ pc = "latest"
  /\ latest' = status
  /\ pc' = "progress"
  /\ UNCHANGED <<tree, memory, trace, progress, evidence>>

\* Mutant: a verdict does not break the loop.
IterationsAfterVerdict == iteration < MaxIterations

\* The condition of the for loop, and the breaks on a verdict.
LoopGoesOn == status.phase \in Open /\ iteration < MaxIterations

\* writeStatus returns, and the for loop goes on or ends.
WriteProgress ==
  /\ pc = "progress"
  /\ progress' = status
  /\ IF LoopGoesOn
     THEN pc' = "pre_observe" /\ iteration' = iteration + 1
     ELSE pc' = "done" /\ UNCHANGED iteration
  /\ UNCHANGED <<tree, baseline, basis, attempt, observed, action, rounds,
                 previous, status, queue, acts, trace, latest, evidence>>

------------------------------------------------------------------------------
(* One iteration.                                                            *)

ObserveWorkspace(from, to) ==
  /\ pc = from
  /\ observed' \in Observations(tree)
  /\ pc' = to
  /\ UNCHANGED <<tree, baseline, basis, attempt, iteration, action, rounds,
                 previous, status, queue, acts, disk>>

\* Mutant: the post-action pass reuses what was observed before the action.
ReuseObservation ==
  /\ pc = "post_observe"
  /\ pc' = "post_accept"
  /\ UNCHANGED <<tree, memory, disk>>

PreObserve == ObserveWorkspace("pre_observe", "pre_accept")
PostObserve == ObserveWorkspace("post_observe", "post_accept")

\* The evaluations of an acceptance pass that leaves the workspace as after.
Acceptances(after) ==
  {Evaluation(hard, soft, observed, after) :
     hard \in HardOutcomes(observed, tree, after, previous.any, previous.failed),
     soft \in SoftOutcomes}

\* The run converges before the action when the policy already holds; no abort
\* rule is consulted.
PreDecide(e) ==
  LET blockers == CollectBlockers(FALSE, observed, e) IN
  \/ /\ ShouldConverge(e, blockers)
     /\ status' = Status(attempt, iteration, "converged", "policy", "pre_action",
                         observed, NoAction, e, blockers)
     /\ queue' = <<"pre_gate_results", "changed_files", "post_gate_results",
                   "gate_results", "controller_decision">>
  \/ /\ ~ShouldConverge(e, blockers)
     /\ status' = status
     /\ queue' = <<"pre_gate_results">>

PreAccept ==
  /\ pc = "pre_accept"
  /\ \E after \in Rewrites(tree, GateFiles) :
       /\ tree' = after
       /\ \E e \in Acceptances(after) : PreDecide(e)
  /\ pc' = "evidence"
  /\ UNCHANGED <<baseline, basis, attempt, iteration, observed, action, rounds,
                 previous, acts, disk>>

\* Mutant: an adapter call that has no timeout and does not return.
ActForever == pc = "act" /\ UNCHANGED vars

\* adapter.act.
Act ==
  /\ pc = "act"
  /\ tree' \in Rewrites(tree, AdapterFiles)
  /\ action' \in AdapterResults
  /\ acts' = acts + 1
  /\ pc' = "post_observe"
  /\ UNCHANGED <<baseline, basis, attempt, iteration, observed, rounds, previous,
                 status, queue, disk>>

\* The status of a post-action round before it is decided.
RoundStatus(e, blockers) ==
  Status(attempt, iteration, "evaluating", "continue", "post_action", observed,
         action, e, blockers)

PostDecide(e) ==
  LET blockers == CollectBlockers(action.budget, observed, e)
      round    == RoundStatus(e, blockers)
      decision == DecideAfterPostEvaluation(e, blockers, rounds', action.budget,
                                            iteration)
  IN /\ rounds' = UpdateRounds(rounds, round)
     /\ previous' = [any |-> TRUE, failed |-> e.failed]
     /\ status' = [round EXCEPT !.phase = decision.phase,
                                !.reason = decision.reason]

PostAccept ==
  /\ pc = "post_accept"
  /\ \E after \in Rewrites(tree, GateFiles) :
       /\ tree' = after
       /\ \E e \in Acceptances(after) : PostDecide(e)
  /\ queue' = <<"post_gate_results", "changed_files", "gate_results",
                "controller_decision">>
  /\ pc' = "evidence"
  /\ UNCHANGED <<baseline, basis, attempt, iteration, observed, action, acts, disk>>

\* Mutant: the status is written before controller_decision.json is.
DecisionLeft == Len(queue) > 2

EvidenceLeft == Len(queue) > 1

\* The pass that was decided is followed by its status, a pre-action pass that
\* was not by the adapter.
AfterEvidence == IF status.iteration = iteration THEN "append" ELSE "act"

\* writeEvidenceJson of the next file; a file of an earlier attempt is replaced.
WriteEvidence ==
  /\ pc = "evidence"
  /\ evidence' =
       [evidence EXCEPT
          ![iteration].files[Head(queue)] = attempt,
          ![iteration].phase = IF Head(queue) = "controller_decision"
                               THEN status.phase ELSE @]
  /\ queue' = Tail(queue)
  /\ pc' = IF EvidenceLeft THEN "evidence" ELSE AfterEvidence
  /\ UNCHANGED <<tree, baseline, basis, attempt, iteration, observed, action,
                 rounds, previous, status, acts, trace, latest, progress>>

------------------------------------------------------------------------------
(* The environment.                                                          *)

\* The process dies, or an I/O error rejects run(): the attempt ends where it
\* is.  An adapter, a gate command or an append may be cut half-way.
Crash ==
  /\ pc \notin {"idle", "done"}
  /\ pc' = "idle"
  /\ tree' \in CASE pc = "act" -> Rewrites(tree, AdapterFiles)
                 [] pc \in {"pre_accept", "post_accept"} -> Rewrites(tree, GateFiles)
                 [] OTHER -> {tree}
  /\ \/ trace' = trace
     \/ pc = "append" /\ ~Torn /\ trace' = Append(trace, TornLine)
  /\ UNCHANGED <<memory, latest, progress, evidence>>

UserEdit ==
  /\ tree' \in Rewrites(tree, UserFiles) \ {tree}
  /\ UNCHANGED <<pc, memory, disk>>

Step ==
  \/ AppendTrace \/ WriteLatest \/ WriteProgress
  \/ PreObserve \/ PreAccept \/ Act \/ PostObserve \/ PostAccept
  \/ WriteEvidence

Next == Start \/ Step \/ Crash \/ UserEdit

Spec == Init /\ [][Next]_vars

\* Awaits of an attempt that is alive return: gate commands and shell adapters
\* are killed at their timeout.
FairSpec == Spec /\ WF_vars(Step)
==============================================================================
