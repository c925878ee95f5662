----------------------------- MODULE BudgetGate -----------------------------
(***************************************************************************)
(* The budget of strong-agent calls during one run of the agent graph:     *)
(* which invocations a run makes and in which order, the gate each of them *)
(* asks (evaluateRoleInvocation over allocateStrongAgentCall), the         *)
(* reservations an allowed invocation holds while its calls are under way, *)
(* and their commit or release when the answer comes (budgetGate.ts and    *)
(* the call sites of executor.ts).                                         *)
(*                                                                         *)
(* An invocation is a record: what it is `for`, the `roles` it calls, one  *)
(* call each, and those of them in the `pool`, whose call debits the       *)
(* strong-agent pool of the whole task.  The invocations of one step ask   *)
(* before any of them is answered.  Reservations are never read by the     *)
(* gate: it compares with the calls that are committed.                    *)
(***************************************************************************)
EXTENDS Integers, FiniteSets, Sequences

CONSTANT Settings   \* the configurations and options a run may have

Roles == {"core", "vision", "planner", "coder_a", "coder_b",
          "reviewer", "judge", "repairer"}

StrongRoles == {"core", "planner", "reviewer", "judge"}

(***************************************************************************)
(* A setting: the pool's `maxCalls`; the roles `capped` by a budget of     *)
(* their own, and its limit `roleMax`; the roles whose call is too         *)
(* `costly`; the roles `reserved` or escalated into the pool; the roles    *)
(* an `external` agent plays; what the options and the plan ask for; the   *)
(* governance's `advisors` of a read-only run; the repair attempts.        *)
(***************************************************************************)
SettingType ==
  [maxCalls : Nat,
   capped : SUBSET Roles, roleMax : [Roles -> Nat],
   costly : SUBSET Roles, reserved : SUBSET Roles, external : SUBSET Roles,
   liveVision : BOOLEAN, livePatch : BOOLEAN, liveAdvisory : BOOLEAN,
   readOnly : BOOLEAN, parallel : BOOLEAN, coderB : BOOLEAN,
   advisors : SUBSET {"reviewer", "judge"},
   repairs : Nat]

ASSUME SettingsAssumption == Settings \subseteq SettingType

VARIABLES
  setting,   \* what this run was started with
  run,       \* "on", or "over" once the workflow has stopped
  step,      \* the next step of the run
  open,      \* the invocations that hold reservations: allowed, not answered
  used,      \* strongAgentCallsUsed
  roleUsed   \* roleCallsUsed

vars == <<setting, run, step, open, used, roleUsed>>

Init ==
  /\ setting \in Settings
  /\ run = "on"
  /\ step = 1
  /\ open = {}
  /\ used = 0
  /\ roleUsed = [r \in Roles |-> 0]

-----------------------------------------------------------------------------
(* The invocations of a run.                                               *)

\* A role played by a live or external agent, through runAgentState.
Agent(r) == [for |-> r, roles |-> {r},
             pool |-> {r} \cap (StrongRoles \cup setting.reserved)]

\* A scope of model calls: every one is an escalation of its own.
Model(what, rs) == [for |-> what, roles |-> rs, pool |-> rs]

Externals(rs) == {Agent(r) : r \in rs \cap setting.external}

When(condition, invocation) == IF condition THEN {invocation} ELSE {}

LiveCoders == IF setting.parallel THEN {"coder_a", "coder_b"} ELSE {"coder_a"}

NativeCoders == IF setting.parallel /\ setting.coderB
                THEN {"coder_a", "coder_b"} ELSE {"coder_a"}

Planning ==
  CASE "core" \in setting.external -> {}
    [] "planner" \in setting.external -> {Agent("planner")}
    [] OTHER -> {Model("model_planner", {"planner"})}

Coding == IF setting.livePatch THEN {Model("live_patch", LiveCoders)}
          ELSE Externals(NativeCoders)

AdvisoryRoles ==
  {"planner", "coder_a"} \cup (IF setting.readOnly THEN setting.advisors
                               ELSE {"reviewer", "judge"})

Stages == <<"core", "vision", "planner", "governance", "coders", "second coder",
            "reviewer", "debate", "judge", "advisory">>

StageAt(i) == IF i <= Len(Stages) THEN Stages[i] ELSE "repair"

LastStep == IF setting.readOnly THEN Len(Stages) ELSE Len(Stages) + setting.repairs

PatchStages == {"coders", "second coder", "reviewer", "debate", "judge", "repair"}

\* What the run asks for at a stage.  The second coder is the native coder_b of a
\* run whose live call left it without a candidate.
Asks(stage) ==
  IF setting.readOnly /\ stage \in PatchStages THEN {}
  ELSE CASE stage = "core" -> Externals({"core"})
         [] stage = "vision" -> When(setting.liveVision, Agent("vision"))
         [] stage = "planner" -> Planning
         [] stage = "governance" -> {Model("task_governance", {"planner"})}
         [] stage = "coders" -> Coding
         [] stage = "second coder" ->
              IF setting.livePatch THEN Externals(NativeCoders \ {"coder_a"}) ELSE {}
         [] stage = "reviewer" -> Externals({"reviewer"})
         [] stage = "debate" -> When(setting.liveAdvisory /\ setting.parallel,
                                     Model("pre_judge_debate", {"reviewer", "judge"}))
         [] stage = "judge" -> Externals({"judge"})
         [] stage = "advisory" -> When(setting.liveAdvisory \/ setting.readOnly,
                                       Model("live_advisory", AdvisoryRoles))
         [] stage = "repair" -> Externals({"repairer"})

\* Stages that earlier results may make unnecessary.
Avoidable == {"second coder", "advisory", "repair"}

-----------------------------------------------------------------------------
(* The gate.                                                               *)

\* (mutant) a role with a budget of its own bypasses the pool.
CappedBypassesPool(r, i) ==
  /\ r \in setting.costly => r \notin i.pool /\ r \notin setting.capped
  /\ r \in i.pool \ setting.capped => used < setting.maxCalls
  /\ r \in setting.capped => roleUsed[r] < setting.roleMax[r]

\* (mutant) off by one.
CapOffByOne(r, i) ==
  /\ r \in setting.costly => r \notin i.pool /\ r \notin setting.capped
  /\ r \in i.pool => used < setting.maxCalls
  /\ r \in setting.capped => roleUsed[r] <= setting.roleMax[r]

\* A call is allowed unless it costs too much, the pool it debits is used up, or
\* its role has made the calls its own budget allows.
AllowsCall(r, i) ==
  /\ r \in setting.costly => r \notin i.pool /\ r \notin setting.capped
  /\ r \in i.pool => used < setting.maxCalls
  /\ r \in setting.capped => roleUsed[r] < setting.roleMax[r]

\* One refusal releases what the invocation has reserved before.
Allows(i) == \A r \in i.roles : AllowsCall(r, i)

\* The workflow stops, or may stop, when these are refused; the others have a
\* native fallback or are left out.
StopsRun == {"core", "model_planner", "task_governance"}
MayStopRun == {"planner", "live_patch"}

Ask ==
  /\ run = "on" /\ open = {}
  /\ step <= LastStep
  /\ LET asked == Asks(StageAt(step))
         refused == {i \in asked : ~Allows(i)}
     IN /\ open' = asked \ refused
        /\ \/ /\ \A i \in refused : i.for \notin StopsRun
              /\ run' = "on"
           \/ /\ \E i \in refused : i.for \in StopsRun \cup MayStopRun
              /\ run' = "over"
  /\ step' = step + 1
  /\ UNCHANGED <<setting, used, roleUsed>>

PassOver ==
  /\ run = "on" /\ open = {}
  /\ step <= LastStep
  /\ StageAt(step) \in Avoidable
  /\ step' = step + 1
  /\ UNCHANGED <<setting, run, open, used, roleUsed>>

\* The calls of an invocation are committed together when it is answered, those of
\* a role with a budget of its own to that budget too.
Commit ==
  /\ \E i \in open :
       /\ open' = open \ {i}
       /\ used' = used + Cardinality(i.pool)
       /\ roleUsed' = [r \in Roles |-> IF r \in i.roles \cap setting.capped
                                       THEN roleUsed[r] + 1 ELSE roleUsed[r]]
  /\ UNCHANGED <<setting, run, step>>

\* An invocation that fails gives its calls back.  The reservation of the
\* governance call is not released, but nothing reads it.  Advice and live patches
\* may fail without stopping the run; another coder's call goes on all the same.
Release ==
  /\ \E i \in open :
       /\ open' = open \ {i}
       /\ \/ run' = "over"
          \/ run' = run /\ i.for \in {"live_patch", "pre_judge_debate", "live_advisory"}
  /\ UNCHANGED <<setting, step, used, roleUsed>>

Finish ==
  /\ run = "on" /\ open = {}
  /\ step > LastStep
  /\ run' = "over"
  /\ UNCHANGED <<setting, step, open, used, roleUsed>>

Next == Ask \/ PassOver \/ Commit \/ Release \/ Finish

Spec == Init /\ [][Next]_vars
-----------------------------------------------------------------------------
(* Properties.                                                             *)

InvocationType ==
  [for : Roles \cup {"model_planner", "task_governance", "live_patch",
                     "pre_judge_debate", "live_advisory"},
   roles : SUBSET Roles, pool : SUBSET Roles]

\* Every variable keeps to the values the code gives it.
TypeOK ==
  /\ setting \in Settings
  /\ run \in {"on", "over"}
  /\ step \in 1 .. LastStep + 1
  /\ open \subseteq InvocationType
  /\ used \in Nat
  /\ roleUsed \in [Roles -> Nat]

\* The calls of one stage that debit the pool.
PoolOf(stage) == UNION {i.pool : i \in Asks(stage)}

\* The pool is overdrawn by less than the calls of one stage, and never when it
\* allows no call: the calls that ask together are each compared with the same
\* count, but no later call is allowed once the count has reached the limit.
OvershootIsOneBatch ==
  used > setting.maxCalls =>
    /\ setting.maxCalls > 0
    /\ \E s \in 1 .. LastStep : used < setting.maxCalls + Cardinality(PoolOf(StageAt(s)))

\* A role with a budget of its own makes no more calls than that allows, whichever
\* invocations it takes part in.
RoleBudgetHolds ==
  \A r \in setting.capped : roleUsed[r] <= setting.roleMax[r]

\* What the configuration calls max_calls_per_task: no task commits more calls.
CallsWithinCap == used <= setting.maxCalls
=============================================================================
