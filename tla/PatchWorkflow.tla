---------------------------- MODULE PatchWorkflow ----------------------------
(***************************************************************************)
(* One patch run of the executor (core/agentGraph/executor.ts), from the    *)
(* planner's graphs to the final summary: the scheduler loop over the role  *)
(* and task graphs, the coders it runs in parallel, review, judgment,       *)
(* application of the selected patch, verification with its repair loop,    *)
(* the summary and the two ways a run is finalised.                         *)
(*                                                                          *)
(* An action is what the code does between two awaits it really depends on: *)
(* only two coders started together interleave.                             *)
(***************************************************************************)
EXTENDS TaskGraphRules

CONSTANTS
    Scenarios,      \* requests, policies and permissions a run may have
    Signatures,     \* failure signatures of the repair policy
    MaxShellRuns,   \* effective max_shell_runs
    MaxRepairs      \* effective max_repairs

Coders == {"coder_a", "coder_b"}
Candidate == [id : Coders, diff : BOOLEAN]
Picks == Coders \union {"unknown", "none"}

ASSUME WorkflowAssumption ==
    /\ \A k \in Scenarios :
          /\ {k.highRisk, k.debate, k.parallel, k.live, k.dryRun, k.patchOk,
              k.shellOk, k.repairOk, k.contractPatch, k.contractShell,
              k.repairOnFail} \subseteq BOOLEAN
          /\ k.commands \in Nat
    /\ MaxShellRuns \in Nat /\ MaxRepairs \in Nat

VARIABLES
    k,          \* the scenario of this run
    g,          \* both graphs, see TaskGraphRules
    pc,         \* what the executor is about to do
    fly,        \* coders whose answer is awaited
    cands,      \* state.candidates
    review,     \* state.review is set
    judge,      \* state.judge
    applied,    \* the candidate whose diff was applied, "none" before
    gateFailed, \* an artifact quality gate failed
    verify,     \* locals of runVerificationAndRepairPhase, with state.runResults
    waiting,    \* approval agents in state waiting_for_user
    limited,    \* an autonomy limit or the contract made a phase return early
    blocked,    \* state.workflowBlockedReason
    result,     \* finalSummary.result
    acceptance, \* statusBreakdown.taskAcceptance
    outcome     \* of runOfflineGraph's promise

vars == <<k, g, pc, fly, cands, review, judge, applied, gateFailed, verify,
          waiting, limited, blocked, result, acceptance, outcome>>

Init ==
    /\ k \in Scenarios
    /\ g = NewGraphs(k)
    /\ pc = "plan"
    /\ fly = {} /\ cands = {} /\ review = FALSE
    /\ judge = [decision |-> "none", pick |-> "none"]
    /\ applied = "none" /\ gateFailed = FALSE
    /\ verify = [cmd |-> 0, shellRuns |-> 0, repairs |-> 0, seen |-> {},
                 attempted |-> {}, sig |-> "none", runs |-> {}]
    /\ waiting = {} /\ limited = FALSE /\ blocked = "none"
    /\ result = "none" /\ acceptance = "none" /\ outcome = "running"

\* runAgentState around an invocation that ends with this status.
RunRole(role, status) == FinishRole(k, Begin(k, g, role), role, status)

\* An approval is missing: runAgentState records nothing, its caller a skip.
AwaitApproval(n) == FinishNode(k, Begin(k, g, "runner"), n, "skipped")

\* A plain error leaves runOfflineGraph at once.
Reject == outcome' = "rejected" /\ pc' = "done"

\* A WorkflowBlockedError, or a reason the loop finds when it comes round.
Block(reason) == blocked' = reason /\ pc' = "finalize"

(***************************************************************************)
(* Planning and exploration.                                                *)
(***************************************************************************)

Plan ==
    /\ pc = "plan"
    /\ g' = FinishRole(k, g, "planner", "success")
    /\ pc' = "explore"
    /\ UNCHANGED <<k, fly, cands, review, judge, applied, gateFailed, verify,
                   waiting, limited, blocked, result, acceptance, outcome>>

\* A cached context counts as a success of the explorer.
Explore ==
    /\ pc = "explore"
    /\ \/ /\ g' = RunRole("explorer", "success")
          /\ pc' = "schedule" /\ UNCHANGED outcome
       \/ g' = RunRole("explorer", "failed") /\ Reject
    /\ UNCHANGED <<k, fly, cands, review, judge, applied, gateFailed, verify,
                   waiting, limited, blocked, result, acceptance>>

(***************************************************************************)
(* The scheduler loop: runScheduledPatchWorkflow.                           *)
(***************************************************************************)

Stopped == g.stop \notin {"none", "complete"}

StopOnRole ==
    /\ pc = "schedule" /\ Stopped
    /\ Block("role_stop")
    /\ UNCHANGED <<k, g, fly, cands, review, judge, applied, gateFailed, verify,
                   waiting, limited, result, acceptance, outcome>>

NothingRunnable ==
    /\ pc = "schedule" /\ ~Stopped
    /\ Runnable(k, g) = {}
    /\ LET ready == ReadyRoles(k, g.role)
       IN IF ready = {}
          THEN pc' = "finalize" /\ UNCHANGED <<g, blocked>>
          ELSE /\ g' = FinishRole(k, g, RoleOf(First(ready)), "blocked")
               /\ Block("scheduler")
    /\ UNCHANGED <<k, fly, cands, review, judge, applied, gateFailed, verify,
                   waiting, limited, result, acceptance, outcome>>

\* A live run of coder_a covers both coders, two native coders start together.
Batch(run) ==
    LET coders == run \cap Coders
    IN IF k.live /\ "coder_a" \in coders THEN {"coder_a"}
       ELSE IF coders = Coders /\ k.parallel THEN coders
       ELSE {First(run)}

Dispatch ==
    /\ pc = "schedule" /\ ~Stopped
    /\ Runnable(k, g) # {}
    /\ LET batch == Batch(Runnable(k, g))
           marked == [g EXCEPT !.task = MarkTasksRunning(g.task, batch)]
           native == batch \subseteq Coders /\ ~(k.live /\ "coder_a" \in batch)
       IN IF native
          THEN /\ g' = [marked EXCEPT !.role =
                            [n \in DOMAIN g.role |-> IF n \in batch THEN "running" ELSE g.role[n]]]
               /\ fly' = fly \union batch
               /\ pc' = "coders"
          ELSE /\ g' = marked
               /\ pc' = First(batch)
               /\ UNCHANGED fly
    /\ UNCHANGED <<k, cands, review, judge, applied, gateFailed, verify, waiting,
                   limited, blocked, result, acceptance, outcome>>

(***************************************************************************)
(* Coders.  Promise.all rejects with the first failure, the other coder is  *)
(* not stopped: it goes on writing to the state of a run that has ended.    *)
(***************************************************************************)

CoderProposes(c) ==
    /\ c \in fly
    /\ g' = FinishRole(k, g, c, "success")
    /\ \E d \in BOOLEAN : cands' = cands \union {[id |-> c, diff |-> d]}
    /\ fly' = fly \ {c}
    /\ pc' = IF pc = "coders" /\ fly' = {} THEN "schedule" ELSE pc
    /\ UNCHANGED <<k, review, judge, applied, gateFailed, verify, waiting, limited,
                   blocked, result, acceptance, outcome>>

\* The artifact gate refuses the diff, an external agent fails, or a plain error.
CoderFails(c) ==
    /\ c \in fly
    /\ g' = FinishRole(k, g, c, "failed")
    /\ fly' = fly \ {c}
    /\ \/ /\ gateFailed' = TRUE
          /\ blocked' = "quality"
          /\ pc' = IF pc = "coders" THEN "finalize" ELSE pc
          /\ UNCHANGED outcome
       \/ /\ IF pc = "coders" THEN Block("external") ELSE UNCHANGED <<pc, blocked>>
          /\ UNCHANGED <<gateFailed, outcome>>
       \/ /\ IF pc = "coders" THEN Reject ELSE UNCHANGED <<pc, outcome>>
          /\ UNCHANGED <<gateFailed, blocked>>
    /\ UNCHANGED <<k, cands, review, judge, applied, verify, waiting, limited,
                   result, acceptance>>

\* coder_a of a live run asks a model for the candidates of both coders.  It is
\* never begun; the roles of the valid candidates are recorded as successes.
LiveRoles == {"coder_a"} \union IF k.parallel THEN {"coder_b"} ELSE {}

Propose(h, c, valid) == IF c \in valid THEN FinishRole(k, h, c, "success") ELSE h

LiveCandidates ==
    /\ pc = "coder_a"
    /\ \E valid \in SUBSET LiveRoles \ {{}} :
          /\ \E f \in [valid -> BOOLEAN] :
                cands' = cands \union {[id |-> c, diff |-> f[c]] : c \in valid}
          /\ \E h \in {Propose(g, "coder_a", valid)} : g' = Propose(h, "coder_b", valid)
          /\ gateFailed' \in IF valid = LiveRoles THEN {gateFailed} ELSE BOOLEAN
    /\ pc' = "schedule"
    /\ UNCHANGED <<k, fly, review, judge, applied, verify, waiting, limited,
                   blocked, result, acceptance, outcome>>

\* The budget gate refuses the call, or no candidate passes the artifact gate.
LiveWithoutCandidate ==
    /\ pc = "coder_a"
    /\ g' = FinishRole(k, g, "coder_a", "blocked")
    /\ gateFailed' \in BOOLEAN
    /\ IF HasCoderB(k)
       THEN pc' = "schedule" /\ UNCHANGED blocked
       ELSE Block("no_candidate")
    /\ UNCHANGED <<k, fly, cands, review, judge, applied, verify, waiting, limited,
                   result, acceptance, outcome>>

LiveFails ==
    /\ pc = "coder_a"
    /\ Reject
    /\ UNCHANGED <<k, g, fly, cands, review, judge, applied, gateFailed, verify,
                   waiting, limited, blocked, result, acceptance>>

(***************************************************************************)
(* Review and judgment.                                                     *)
(***************************************************************************)

\* An error of a role that is not caught ends the run; of an external agent, the workflow.
RoleFails(role) ==
    /\ pc = role
    /\ g' = RunRole(role, "failed")
    /\ \/ Reject /\ UNCHANGED blocked
       \/ Block("external") /\ UNCHANGED outcome
    /\ UNCHANGED <<k, fly, cands, review, judge, applied, gateFailed, verify,
                   waiting, limited, result, acceptance>>

\* The evidence gate: the role is blocked, and with it the workflow.
Gate(role) == g' = FinishRole(k, g, role, "blocked") /\ Block("evidence")

Reviewer ==
    /\ pc = "reviewer"
    /\ IF cands = {}
       THEN Gate("reviewer") /\ UNCHANGED review
       ELSE /\ g' = RunRole("reviewer", "success")
            /\ review' = TRUE
            /\ pc' = "schedule" /\ UNCHANGED blocked
    /\ UNCHANGED <<k, fly, cands, judge, applied, gateFailed, verify, waiting,
                   limited, result, acceptance, outcome>>

\* A judge, an external one above all, may name a candidate that does not exist.
Judgments ==
    [decision : {"select"}, pick : {c.id : c \in cands} \union {"unknown", "none"}]
    \union [decision : {"request_revision", "ask_user", "abort"}, pick : {"none"}]

Judge ==
    /\ pc = "judge"
    /\ IF cands = {} \/ ~review
       THEN Gate("judge") /\ UNCHANGED judge
       ELSE /\ judge' \in Judgments
            /\ g' = RunRole("judge", "success")
            /\ pc' = "schedule" /\ UNCHANGED blocked
    /\ UNCHANGED <<k, fly, cands, review, applied, gateFailed, verify, waiting,
                   limited, result, acceptance, outcome>>

(***************************************************************************)
(* Application of the selected candidate: runPatchApplicationPhase.         *)
(***************************************************************************)

Applying == pc = "patch_runner" /\ judge.decision = "select"

StopBeforeApply ==
    /\ pc = "patch_runner"
    /\ judge.decision # "select"
    /\ g' = FinishNode(k, g, "patch_runner", "skipped")
    /\ Block("judge")
    /\ UNCHANGED <<k, fly, cands, review, judge, applied, gateFailed, verify,
                   waiting, limited, result, acceptance, outcome>>

SelectedNothing ==
    /\ Applying /\ judge.pick = "none"
    /\ Gate("runner")
    /\ UNCHANGED <<k, fly, cands, review, judge, applied, gateFailed, verify,
                   waiting, limited, result, acceptance, outcome>>

\* Back to the loop with a task that is marked running and a role still ready.
ContractDeniesPatch ==
    /\ Applying /\ judge.pick # "none"
    /\ ~k.contractPatch
    /\ limited' = TRUE
    /\ pc' = "schedule"
    /\ UNCHANGED <<k, g, fly, cands, review, judge, applied, gateFailed, verify,
                   waiting, blocked, result, acceptance, outcome>>

Selected == {c \in cands : c.id = judge.pick}

\* A dry run counts as an application, also of a candidate that does not exist.
RecordOnly ==
    /\ Applying /\ judge.pick # "none" /\ k.contractPatch
    /\ \/ k.dryRun /\ g' = FinishNode(k, g, "patch_runner", "success")
       \/ /\ ~k.dryRun
          /\ \A c \in Selected : ~c.diff
          /\ g' = FinishNode(k, g, "patch_runner", "blocked")
    /\ pc' = "schedule"
    /\ UNCHANGED <<k, fly, cands, review, judge, applied, gateFailed, verify,
                   waiting, limited, blocked, result, acceptance, outcome>>

\* Not approved: the runner is skipped.  Approved: the diff applies or it does not.
ApplyPatch ==
    /\ Applying /\ judge.pick # "none" /\ k.contractPatch /\ ~k.dryRun
    /\ \E c \in Selected : c.diff
    /\ \/ /\ ~k.patchOk
          /\ g' = AwaitApproval("patch_runner")
          /\ waiting' = waiting \union {"approval_patch"} /\ UNCHANGED applied
       \/ /\ k.patchOk
          /\ g' = RunRole("runner", "failed")
          /\ waiting' = waiting \union {"approval_patch"} /\ UNCHANGED applied
       \/ /\ k.patchOk
          /\ g' = RunRole("runner", "success")
          /\ applied' = judge.pick /\ UNCHANGED waiting
    /\ pc' = "schedule"
    /\ UNCHANGED <<k, fly, cands, review, judge, gateFailed, verify, limited,
                   blocked, result, acceptance, outcome>>

(***************************************************************************)
(* Verification and repair: runVerificationAndRepairPhase.  It returns to   *)
(* the loop from everywhere; the first command that is run ends the role    *)
(* node test_runner, later calls of the runner and of the repairer find no  *)
(* node to record.                                                          *)
(***************************************************************************)

Unverified == <<k, fly, cands, review, judge, applied, result, acceptance, outcome>>

StartVerify ==
    /\ pc = "test_runner"
    /\ IF applied = "none" \/ k.commands = 0
       THEN /\ g' = FinishNode(k, g, "test_runner", "skipped")
            /\ pc' = "schedule" /\ UNCHANGED verify
       ELSE /\ verify' = [verify EXCEPT !.cmd = 1]
            /\ pc' = "command" /\ UNCHANGED g
    /\ UNCHANGED Unverified /\ UNCHANGED <<gateFailed, waiting, limited, blocked>>

\* Wall time or cost is used up, a counter is, or the contract forbids the shell:
\* a plain return.
LimitReached ==
    /\ pc \in {"command", "repair", "rerun"}
    /\ limited' = TRUE
    /\ pc' = "schedule"
    /\ UNCHANGED Unverified /\ UNCHANGED <<g, gateFailed, verify, waiting, blocked>>

MayRunShell == k.contractShell /\ verify.shellRuns < MaxShellRuns

Ran(r) == [verify EXCEPT !.shellRuns = @ + 1, !.runs = @ \union {r}]

\* recordRepairPolicyDecision counts the signature.
SignatureSeen(v, s) == [v EXCEPT !.seen = @ \union {s}, !.sig = s]

\* On to the next command of the list, or out of the phase.
Advance(v) ==
    /\ verify' = [v EXCEPT !.cmd = @ + 1]
    /\ pc' = IF v.cmd < k.commands THEN "command" ELSE "schedule"

CommandPasses ==
    /\ pc = "command" /\ MayRunShell /\ k.shellOk
    /\ \E r \in {"pass", "skip"} : Advance(Ran(r))
    /\ g' = RunRole("runner", "success")
    /\ UNCHANGED Unverified /\ UNCHANGED <<gateFailed, waiting, limited, blocked>>

\* The policy repairs a failure it has not seen, unless its class forbids it.
CommandFails ==
    /\ pc = "command" /\ MayRunShell /\ k.shellOk
    /\ \E s \in Signatures, repairable \in BOOLEAN :
          /\ verify' = SignatureSeen(Ran("fail"), s)
          /\ pc' = IF repairable /\ s \notin verify.seen /\ k.repairOnFail
                   THEN "repair" ELSE "schedule"
    /\ g' = RunRole("runner", "success")
    /\ UNCHANGED Unverified /\ UNCHANGED <<gateFailed, waiting, limited, blocked>>

\* The command never starts: it is not approved, or the guard refuses it.
CommandRefused ==
    /\ pc = "command" /\ MayRunShell
    /\ g' = IF k.shellOk THEN RunRole("runner", "failed") ELSE AwaitApproval("test_runner")
    /\ waiting' = waiting \union {"approval_shell"}
    /\ verify' = [verify EXCEPT !.shellRuns = @ + 1]
    /\ pc' = "schedule"
    /\ UNCHANGED Unverified /\ UNCHANGED <<gateFailed, limited, blocked>>

Repairing == pc = "repair" /\ verify.repairs < MaxRepairs

Attempt == [verify EXCEPT !.repairs = @ + 1, !.attempted = @ \union {verify.sig}]

\* Errors of the repairer are caught as if a command had been refused; a diff the
\* artifact gate refuses leaves its reason behind for the loop to find.
RepairerFails ==
    /\ Repairing
    /\ verify' = Attempt
    /\ waiting' = waiting \union {"approval_shell"}
    /\ \/ pc' = "schedule" /\ UNCHANGED <<gateFailed, blocked>>
       \/ gateFailed' = TRUE /\ Block("quality")
    /\ UNCHANGED Unverified /\ UNCHANGED <<g, limited>>

\* No diff, or a diff that is not approved or does not apply: the loop goes on.
RepairNotApplied ==
    /\ Repairing
    /\ Advance(Attempt)
    /\ waiting' \in {waiting, waiting \union {"approval_repair"}}
    /\ UNCHANGED Unverified /\ UNCHANGED <<g, gateFailed, limited, blocked>>

RepairApplied ==
    /\ Repairing /\ k.repairOk
    /\ verify' = Attempt
    /\ pc' = "rerun"
    /\ UNCHANGED Unverified /\ UNCHANGED <<g, gateFailed, waiting, limited, blocked>>

\* The same command again: a second failure is recorded and ends the phase.
Rerun ==
    /\ pc = "rerun" /\ MayRunShell
    /\ \/ \E r \in {"pass", "skip"} : Advance(Ran(r)) /\ UNCHANGED waiting
       \/ /\ \E s \in Signatures : verify' = SignatureSeen(Ran("fail"), s)
          /\ pc' = "schedule" /\ UNCHANGED waiting
       \/ /\ Advance([verify EXCEPT !.shellRuns = @ + 1])
          /\ waiting' = waiting \union {"approval_repair"}
    /\ UNCHANGED Unverified /\ UNCHANGED <<g, gateFailed, limited, blocked>>

(***************************************************************************)
(* The summary, and the end of the run.                                     *)
(***************************************************************************)

\* SummarizerAgent: changes and runs make a completed or failed task, see docs.
Summarized ==
    IF applied = "none" \/ verify.runs = {} THEN {"partially_completed"}
    ELSE IF "pass" \in verify.runs \/ verify.runs = {"skip"} THEN {"completed"}
    ELSE {"failed", "partially_completed"}

Summarize ==
    /\ pc = "summarizer"
    /\ \/ g' = RunRole("summarizer", "success") /\ result' \in Summarized
       \/ /\ g' = RunRole("summarizer", "failed")
          /\ result' = IF "fail" \in verify.runs THEN "partially_completed" ELSE "completed"
    /\ pc' = "schedule"
    /\ UNCHANGED <<k, fly, cands, review, judge, applied, gateFailed, verify,
                   waiting, limited, blocked, acceptance, outcome>>

\* The stop policy and an incomplete review may lower a result, a failed artifact
\* gate replaces it.
Lowered(r) ==
    IF r \in {"completed", "partially_completed"}
    THEN {r, "partially_completed", "failed"} ELSE {r}

Accept(r) ==
    IF gateFailed \/ "fail" \in verify.runs THEN {"rejected"}
    ELSE CASE r = "completed" -> {"accepted"}
           [] r = "partially_completed" -> {"incomplete"}
           [] OTHER -> {"rejected", "incomplete"}

\* Without a reason to block and without a summary, finalizeState throws.
Finalize ==
    /\ pc = "finalize"
    /\ pc' = "done"
    /\ IF blocked = "none" /\ result = "none"
       THEN outcome' = "rejected" /\ UNCHANGED <<result, acceptance>>
       ELSE /\ \E r \in Lowered(IF blocked = "none" THEN result ELSE "aborted") :
                  /\ result' = IF gateFailed THEN "failed" ELSE r
                  /\ acceptance' \in Accept(result')
            /\ outcome' = "returned"
    /\ UNCHANGED <<k, g, fly, cands, review, judge, applied, gateFailed, verify,
                   waiting, limited, blocked>>

CoderStep == \E c \in fly : CoderProposes(c) \/ CoderFails(c)

LiveStep == LiveCandidates \/ LiveWithoutCandidate \/ LiveFails

ApplyStep ==
    \/ StopBeforeApply \/ SelectedNothing \/ ContractDeniesPatch
    \/ RecordOnly \/ ApplyPatch

VerifyStep ==
    \/ LimitReached \/ StartVerify \/ CommandPasses \/ CommandFails \/ CommandRefused
    \/ RepairerFails \/ RepairNotApplied \/ RepairApplied \/ Rerun

Next ==
    \/ VerifyStep \/ Summarize \/ Finalize
    \/ Plan \/ Explore
    \/ StopOnRole \/ NothingRunnable \/ Dispatch
    \/ CoderStep \/ LiveStep
    \/ Reviewer \/ Judge \/ RoleFails("reviewer") \/ RoleFails("judge")
    \/ ApplyStep

\* Model calls, external agents and commands have timeouts: an await settles.
Fairness == WF_vars(Next)

Spec == Init /\ [][Next]_vars /\ Fairness

(***************************************************************************)
(* Properties.                                                              *)
(***************************************************************************)

\* Every variable keeps to the values the code gives it.
TypeOK ==
    /\ k \in Scenarios
    /\ g.role \in [RoleNodes(k) -> Nonterminal \union Ended]
    /\ g.task \in [TaskNodes(k) -> {"pending", "running", "done", "blocked", "skipped"}]
    /\ g.stop \in {"none", "complete", "premature", "required node ended"}
    /\ pc \in {"plan", "explore", "schedule", "coders", "coder_a", "reviewer", "judge",
               "patch_runner", "test_runner", "command", "repair", "rerun",
               "summarizer", "finalize", "done"}
    /\ fly \subseteq Coders
    /\ cands \subseteq Candidate
    /\ review \in BOOLEAN /\ gateFailed \in BOOLEAN /\ limited \in BOOLEAN
    /\ judge \in [decision : {"none", "select", "request_revision", "ask_user", "abort"},
                  pick : Picks]
    /\ applied \in Coders \union {"none"}
    /\ verify \in [cmd : 0 .. k.commands + 1, shellRuns : 0 .. MaxShellRuns,
                   repairs : 0 .. MaxRepairs, seen : SUBSET Signatures,
                   attempted : SUBSET Signatures, sig : Signatures \union {"none"},
                   runs : SUBSET {"pass", "fail", "skip"}]
    /\ waiting \subseteq {"approval_patch", "approval_shell", "approval_repair"}
    /\ blocked \in {"none", "role_stop", "scheduler", "no_candidate", "quality",
                    "external", "evidence", "judge"}
    /\ result \in {"none", "completed", "partially_completed", "failed", "aborted"}
    /\ acceptance \in {"none", "accepted", "incomplete", "rejected"}
    /\ outcome \in {"running", "returned", "rejected"}

Proposed(c) == \E p \in cands : p.id = c

\* No task is done before everything it depends on is done or skipped.
TaskNeedsInputs ==
    \A t \in TaskNodes(k) : g.task[t] = "done" => InputsSettled(k, g.task, t)

\* The scheduler gives up on diverging graphs only after a limit or the contract cut
\* a phase short, or when a live run left coder_a without a candidate of its own.
DivergenceExplained ==
    blocked = "scheduler" => limited \/ (k.live /\ ~Proposed("coder_a"))

\* An accepted task has an applied patch, at least one run, and nothing that failed.
AcceptedIsVerified ==
    acceptance = "accepted" =>
        /\ applied # "none"
        /\ verify.runs # {} /\ "fail" \notin verify.runs
        /\ ~gateFailed /\ blocked = "none"

\* Every run returns or rejects.
RunEnds == <>(outcome # "running")

=============================================================================
