--------------------------- MODULE TaskGraphRules ---------------------------
(***************************************************************************)
(* The two graphs that gate a patch run.  The role graph says which roles   *)
(* take part and in which order (core/orchestration/roleGraph.ts), its      *)
(* execution state is kept by roleGraphScheduler.ts.  The task graph says   *)
(* what is to be done and by whom (core/planning/taskGraphBuilder.ts).  The *)
(* executor runs a role node only while a task node of it is ready too.     *)
(*                                                                          *)
(* k is the shape of a run, a record with the Booleans highRisk, debate and *)
(* parallel; g is the state of both graphs: g.role and g.task map node ids  *)
(* to statuses, g.stop is the scheduler's stop reason.                      *)
(***************************************************************************)
EXTENDS Naturals

Nonterminal == {"pending", "ready", "running"}
Ended == {"success", "failed", "blocked", "skipped"}
Settled == {"done", "skipped"}

\* The order of patchGraph's node list: the scheduler takes the first match.
Place == [planner |-> 1, explorer |-> 2, coder_a |-> 3, coder_b |-> 4, reviewer |-> 5,
          judge |-> 6, patch_runner |-> 7, test_runner |-> 8, summarizer |-> 9]

RoleOf(n) == IF n \in {"patch_runner", "test_runner"} THEN "runner" ELSE n

(***************************************************************************)
(* Role graph.                                                              *)
(***************************************************************************)

\* Only a graph with alternatives has a second coder.
HasCoderB(k) == k.parallel /\ (k.highRisk \/ k.debate)

RoleNodes(k) ==
    {"planner", "explorer", "coder_a", "reviewer", "judge", "patch_runner",
     "test_runner", "summarizer"} \union IF HasCoderB(k) THEN {"coder_b"} ELSE {}

RoleDeps(k, n) ==
    RoleNodes(k) \cap
    CASE n = "planner" -> {}
      [] n = "explorer" -> {"planner"}
      [] n \in {"coder_a", "coder_b"} -> {"explorer"}
      [] n = "reviewer" -> {"coder_a", "coder_b"}
      [] n = "judge" -> {"reviewer"}
      [] n = "patch_runner" -> {"judge"}
      [] n = "test_runner" -> {"patch_runner"}
      [] n = "summarizer" -> {"test_runner"}

\* (mutant) the summary is optional too.
RequiredButSummary(k, n) == n \notin {"coder_b", "summarizer"}

Required(k, n) ==
    /\ n # "coder_b"
    /\ n = "reviewer" => k.highRisk

CanSkip(n) == n \in {"coder_b", "patch_runner", "test_runner"}

ReadyRoles(k, r) ==
    {n \in RoleNodes(k) :
        /\ r[n] \in {"pending", "ready"}
        /\ \A d \in RoleDeps(k, n) :
              \/ r[d] = "success"
              \/ CanSkip(d) /\ r[d] = "skipped"
              \/ ~Required(k, d) /\ r[d] \in {"failed", "blocked"}}

\* The node the scheduler finds first of those in S.
First(S) == CHOOSE n \in S : \A m \in S : Place[n] <= Place[m]

\* The first node of a role that has not ended, "none" when there is none.
NodeFor(k, r, role) ==
    LET open(n) == n \in RoleNodes(k) /\ r[n] \in Nonterminal
    IN IF role # "runner" THEN (IF open(role) THEN role ELSE "none")
       ELSE IF open("patch_runner") THEN "patch_runner"
       ELSE IF open("test_runner") THEN "test_runner" ELSE "none"

Promote(k, r) ==
    LET ready == ReadyRoles(k, r)
    IN [n \in DOMAIN r |-> IF n \in ready THEN "ready" ELSE r[n]]

StopReason(k, r) ==
    IF \E n \in RoleNodes(k) : Required(k, n) /\ r[n] \in {"failed", "blocked"}
    THEN "required node ended"
    ELSE IF \A n \in RoleNodes(k) : r[n] \in Ended THEN "complete" ELSE "none"

(***************************************************************************)
(* Task graph.                                                              *)
(***************************************************************************)

PatchTasks(k) ==
    {"produce_patch"} \union IF HasCoderB(k) THEN {"produce_patch_alt"} ELSE {}

ReviewTask(k) == IF k.highRisk THEN "security_review" ELSE "review_patch"

TaskNodes(k) ==
    {"inspect_context", "design_patch", ReviewTask(k), "judge_patch",
     "apply_patch", "verify_patch", "summarize"}
    \union PatchTasks(k)
    \union IF k.highRisk THEN {"risk_map"} ELSE {}

TaskDeps(k, t) ==
    CASE t = "inspect_context" -> {}
      [] t \in {"design_patch", "risk_map"} -> {"inspect_context"}
      [] t \in PatchTasks(k) ->
            {"design_patch"} \union IF k.highRisk THEN {"risk_map"} ELSE {}
      [] t = ReviewTask(k) -> PatchTasks(k)
      [] t = "judge_patch" -> {ReviewTask(k)}
      [] t = "apply_patch" -> {"judge_patch"}
      [] t = "verify_patch" -> {"apply_patch"}
      [] t = "summarize" -> {"verify_patch"}

Kind(t) ==
    CASE t = "inspect_context" -> "inspect"
      [] t = "design_patch" -> "design"
      [] t = "risk_map" -> "analyze"
      [] t \in {"produce_patch", "produce_patch_alt"} -> "patch"
      [] t \in {"review_patch", "security_review"} -> "review"
      [] t = "judge_patch" -> "judge"
      [] t = "apply_patch" -> "apply_patch"
      [] t = "verify_patch" -> "verify"
      [] t = "summarize" -> "summarize"

\* The role node that acts for a task node.
ActionId(t) ==
    CASE Kind(t) = "apply_patch" -> "patch_runner"
      [] Kind(t) = "verify" -> "test_runner"
      [] Kind(t) = "summarize" -> "summarizer"
      [] Kind(t) = "review" -> "reviewer"
      [] Kind(t) = "judge" -> "judge"
      [] Kind(t) = "patch" ->
            IF t = "produce_patch_alt" THEN "coder_b" ELSE "coder_a"
      [] Kind(t) = "inspect" -> "explorer"
      [] Kind(t) \in {"design", "analyze"} -> "planner"

\* The runner owns the application and the verification of a patch.
OwnerRole(t) == RoleOf(ActionId(t))

InputsSettled(k, s, t) == \A d \in TaskDeps(k, t) : s[d] \in Settled

ReadyTasks(k, s) ==
    {t \in TaskNodes(k) : s[t] = "pending" /\ InputsSettled(k, s, t)}

\* The ready role nodes for which a task is ready too.
Runnable(k, g) ==
    ReadyRoles(k, g.role) \cap {ActionId(t) : t \in ReadyTasks(k, g.task)}

(***************************************************************************)
(* How a result of a role moves both graphs.                                *)
(***************************************************************************)

\* (mutant) no task is completed unattended.
NoTask(t) == FALSE

\* Tasks nobody has to dispatch.
Unattended(t) == Kind(t) \notin {"apply_patch", "verify", "summarize"}

\* They are completed once their owner has ended well: the code goes over the list
\* until nothing changes, which leaves the largest set of open tasks whose inputs
\* are settled or in the set.
Flush(k, r, s) ==
    LET open == {t \in TaskNodes(k) :
                   /\ s[t] = "pending"
                   /\ Unattended(t)
                   /\ \E n \in RoleNodes(k) :
                         RoleOf(n) = OwnerRole(t) /\ r[n] \in {"success", "skipped"}}
        closed(D) == \A t \in D : \A d \in TaskDeps(k, t) : s[d] \in Settled \/ d \in D
        completed == UNION {D \in SUBSET open : closed(D)}
    IN [t \in DOMAIN s |-> IF t \in completed THEN "done" ELSE s[t]]

TaskStatus(status) ==
    CASE status = "success" -> "done"
      [] status \in {"failed", "blocked"} -> "blocked"
      [] status = "skipped" -> "skipped"

\* (mutant) a success completes a task before its inputs.
TakesAny(k, s, t, status) == TRUE
Takes(k, s, t, status) == status = "success" => InputsSettled(k, s, t)

UpdateTasks(k, s, n, status) ==
    [t \in DOMAIN s |->
        IF ActionId(t) = n /\ Takes(k, s, t, status) THEN TaskStatus(status) ELSE s[t]]

\* (mutant) a dispatched task stays pending.
MarkNothing(s, N) == s

MarkTasksRunning(s, N) ==
    [t \in DOMAIN s |->
        IF ActionId(t) \in N /\ s[t] = "pending" THEN "running" ELSE s[t]]

Begin(k, g, role) ==
    LET n == NodeFor(k, g.role, role)
    IN IF n # "none" /\ n \in ReadyRoles(k, g.role)
       THEN [g EXCEPT !.role[n] = "running",
                      !.task = MarkTasksRunning(g.task, {n})]
       ELSE g

\* A success of a node that neither runs nor could run is refused.
FinishNode(k, g, n, status) ==
    IF n \notin RoleNodes(k) THEN g
    ELSE IF /\ status = "success"
            /\ g.role[n] # "running"
            /\ n \notin ReadyRoles(k, g.role)
    THEN [g EXCEPT !.stop = "premature"]
    ELSE LET r == Promote(k, [g.role EXCEPT ![n] = status])
         IN [role |-> r,
             task |-> Flush(k, r, UpdateTasks(k, g.task, n, status)),
             stop |-> StopReason(k, r)]

FinishRole(k, g, role, status) ==
    FinishNode(k, g, NodeFor(k, g.role, role), status)

NewGraphs(k) ==
    [role |-> Promote(k, [n \in RoleNodes(k) |-> "pending"]),
     task |-> [t \in TaskNodes(k) |-> "pending"],
     stop |-> "none"]

=============================================================================
