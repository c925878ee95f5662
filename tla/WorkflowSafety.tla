---------------------------- MODULE WorkflowSafety ----------------------------
(***************************************************************************)
(* Proofs about PatchWorkflow: for every set of scenarios and every limit,  *)
(* no task is done before its inputs, what is accepted is verified, and the *)
(* two graphs run apart only for a cause.                                   *)
(***************************************************************************)
EXTENDS PatchWorkflow, TLAPS

RoleStatuses == Nonterminal \union Ended
TaskStatuses == {"pending", "running", "done", "blocked", "skipped"}
Stops == {"none", "complete", "premature", "required node ended"}

RoleStates(kk) == [RoleNodes(kk) -> RoleStatuses]
TaskStates(kk) == [TaskNodes(kk) -> TaskStatuses]
Graphs(kk) == [role : RoleStates(kk), task : TaskStates(kk), stop : Stops]

(***************************************************************************)
(* The operators of the two graphs.                                         *)
(***************************************************************************)

\* The nodes of a scenario are connected to nodes of the same scenario.
LEMMA ActionIsRole ==
  ASSUME NEW kk, NEW t \in TaskNodes(kk)
  PROVE  ActionId(t) \in RoleNodes(kk)
BY DEF TaskNodes, PatchTasks, ReviewTask, ActionId, Kind, RoleNodes

LEMMA DepsAreTasks ==
  ASSUME NEW kk, NEW t \in TaskNodes(kk)
  PROVE  TaskDeps(kk, t) \subseteq TaskNodes(kk)
BY DEF TaskNodes, PatchTasks, ReviewTask, TaskDeps

LEMMA NoneIsNoRole ==
  ASSUME NEW kk
  PROVE  "none" \notin RoleNodes(kk)
BY DEF RoleNodes

\* The scheduler's pick is one of the nodes it picks from.
LEMMA FirstIn ==
  ASSUME NEW kk, NEW S \in SUBSET RoleNodes(kk), S # {}
  PROVE  First(S) \in S
<1> DEFINE All == {"planner", "explorer", "coder_a", "coder_b", "reviewer", "judge",
                   "patch_runner", "test_runner", "summarizer"}
           Least(n) == n \in S /\ \A m \in S : Place[n] <= Place[m]
<1>1. S \subseteq All
  BY DEF RoleNodes
<1>2. SUFFICES \E n : Least(n)
  BY DEF First
<1>3. CASE "planner" \in S
  BY <1>1, <1>3 DEF Place
<1>4. CASE "planner" \notin S /\ "explorer" \in S
  BY <1>1, <1>4 DEF Place
<1>5. CASE S \cap {"planner", "explorer"} = {} /\ "coder_a" \in S
  BY <1>1, <1>5 DEF Place
<1>6. CASE S \cap {"planner", "explorer", "coder_a"} = {} /\ "coder_b" \in S
  BY <1>1, <1>6 DEF Place
<1>7. CASE S \cap {"planner", "explorer", "coder_a", "coder_b"} = {} /\ "reviewer" \in S
  BY <1>1, <1>7 DEF Place
<1>8. CASE S \subseteq {"judge", "patch_runner", "test_runner", "summarizer"}
  <2>1. CASE "judge" \in S
    BY <1>8, <2>1 DEF Place
  <2>2. CASE "judge" \notin S /\ "patch_runner" \in S
    BY <1>8, <2>2 DEF Place
  <2>3. CASE S \subseteq {"test_runner", "summarizer"} /\ "test_runner" \in S
    BY <2>3 DEF Place
  <2>4. CASE S \subseteq {"summarizer"}
    BY <2>4 DEF Place
  <2> QED BY <1>8, <2>1, <2>2, <2>3, <2>4
<1> QED BY <1>1, <1>3, <1>4, <1>5, <1>6, <1>7, <1>8

\* The node found for a role is one that has not ended.
LEMMA NodeForOpen ==
  ASSUME NEW kk, NEW r, NEW role
  PROVE  \/ NodeFor(kk, r, role) = "none"
         \/ /\ NodeFor(kk, r, role) \in RoleNodes(kk)
            /\ r[NodeFor(kk, r, role)] \in Nonterminal
BY DEF NodeFor

LEMMA ReadyRolesType ==
  ASSUME NEW kk, NEW r
  PROVE  /\ ReadyRoles(kk, r) \subseteq RoleNodes(kk)
         /\ \A n \in ReadyRoles(kk, r) : r[n] \in {"pending", "ready"}
BY DEF ReadyRoles

\* Promotion touches only nodes that are pending or ready.
LEMMA PromoteSpec ==
  ASSUME NEW kk, NEW r \in RoleStates(kk)
  PROVE  /\ Promote(kk, r) \in RoleStates(kk)
         /\ \A n \in RoleNodes(kk) :
               \/ Promote(kk, r)[n] = r[n]
               \/ r[n] \in {"pending", "ready"} /\ Promote(kk, r)[n] = "ready"
BY ReadyRolesType DEF Promote, RoleStates, RoleStatuses, Nonterminal

LEMMA StopReasonType ==
  ASSUME NEW kk, NEW r
  PROVE  StopReason(kk, r) \in Stops
BY DEF StopReason, Stops

\* The role node of each task, and the tasks there are.
LEMMA ActionTable ==
  /\ ActionId("inspect_context") = "explorer"
  /\ ActionId("design_patch") = "planner" /\ ActionId("risk_map") = "planner"
  /\ ActionId("produce_patch") = "coder_a" /\ ActionId("produce_patch_alt") = "coder_b"
  /\ ActionId("review_patch") = "reviewer" /\ ActionId("security_review") = "reviewer"
  /\ ActionId("judge_patch") = "judge" /\ ActionId("apply_patch") = "patch_runner"
  /\ ActionId("verify_patch") = "test_runner" /\ ActionId("summarize") = "summarizer"
<1>1. /\ Kind("inspect_context") = "inspect" /\ Kind("design_patch") = "design"
      /\ Kind("risk_map") = "analyze" /\ Kind("produce_patch") = "patch"
      /\ Kind("produce_patch_alt") = "patch" /\ Kind("review_patch") = "review"
      /\ Kind("security_review") = "review" /\ Kind("judge_patch") = "judge"
      /\ Kind("apply_patch") = "apply_patch" /\ Kind("verify_patch") = "verify"
      /\ Kind("summarize") = "summarize"
  BY DEF Kind
<1> QED BY <1>1 DEF ActionId

LEMMA TaskTable ==
  ASSUME NEW kk, NEW t
  PROVE  t \in TaskNodes(kk) <=>
           \/ t \in {"inspect_context", "design_patch", "produce_patch", "judge_patch",
                     "apply_patch", "verify_patch", "summarize"}
           \/ t = "produce_patch_alt" /\ HasCoderB(kk)
           \/ t = "security_review" /\ kk.highRisk
           \/ t = "review_patch" /\ ~kk.highRisk
           \/ t = "risk_map" /\ kk.highRisk
BY DEF TaskNodes, PatchTasks, ReviewTask

\* An unattended task is owned by the one role node that acts for it.
LEMMA OwnerActs ==
  ASSUME NEW kk, NEW t \in TaskNodes(kk), Unattended(t),
         NEW n \in RoleNodes(kk), RoleOf(n) = OwnerRole(t)
  PROVE  n = ActionId(t)
<1>1. t \in {"inspect_context", "design_patch", "produce_patch", "judge_patch", "apply_patch",
              "verify_patch", "summarize", "produce_patch_alt", "security_review",
              "review_patch", "risk_map"}
  BY TaskTable
<1>2. t \notin {"apply_patch", "verify_patch"}
  BY ActionTable DEF Unattended, Kind
<1>3. ActionId(t) \in {"explorer", "planner", "coder_a", "coder_b", "reviewer", "judge",
                       "summarizer"}
  BY <1>1, <1>2, ActionTable
<1>4. RoleOf(n) = ActionId(t)
  BY <1>3 DEF OwnerRole, RoleOf
<1> QED BY <1>3, <1>4 DEF RoleOf

\* What Flush completes was pending, its role ended well and its inputs are settled.
LEMMA FlushSpec ==
  ASSUME NEW kk, NEW r \in RoleStates(kk), NEW s \in TaskStates(kk)
  PROVE  /\ Flush(kk, r, s) \in TaskStates(kk)
         /\ \A t \in TaskNodes(kk) :
               \/ Flush(kk, r, s)[t] = s[t]
               \/ /\ s[t] = "pending" /\ Flush(kk, r, s)[t] = "done"
                  /\ r[ActionId(t)] \in {"success", "skipped"}
                  /\ InputsSettled(kk, Flush(kk, r, s), t)
<1> DEFINE open == {t \in TaskNodes(kk) :
                      /\ s[t] = "pending"
                      /\ Unattended(t)
                      /\ \E n \in RoleNodes(kk) :
                            RoleOf(n) = OwnerRole(t) /\ r[n] \in {"success", "skipped"}}
           closed(D) == \A t \in D : \A d \in TaskDeps(kk, t) : s[d] \in Settled \/ d \in D
           completed == UNION {D \in SUBSET open : closed(D)}
           F == Flush(kk, r, s)
<1>1. F = [t \in TaskNodes(kk) |-> IF t \in completed THEN "done" ELSE s[t]]
  BY Zenon DEF Flush, TaskStates
<1>2. completed \subseteq open
  OBVIOUS
<1>3. \A t \in completed : \A d \in TaskDeps(kk, t) : s[d] \in Settled \/ d \in completed
  OBVIOUS
<1>4. F \in TaskStates(kk)
  <2> HIDE DEF completed
  <2> QED BY <1>1 DEF TaskStates, TaskStatuses
<1>5. ASSUME NEW t \in TaskNodes(kk), t \in completed
      PROVE  /\ s[t] = "pending" /\ F[t] = "done"
             /\ r[ActionId(t)] \in {"success", "skipped"}
             /\ InputsSettled(kk, F, t)
  <2>1. s[t] = "pending" /\ r[ActionId(t)] \in {"success", "skipped"}
    BY <1>2, <1>5, OwnerActs
  <2>2. ASSUME NEW d \in TaskDeps(kk, t)
        PROVE  F[d] \in Settled
    <3>1. d \in TaskNodes(kk)
      BY DepsAreTasks
    <3>2. s[d] \in Settled \/ d \in completed
      BY <1>3, <1>5
    <3> HIDE DEF completed, F
    <3> QED BY <1>1, <3>1, <3>2 DEF Settled
  <2> HIDE DEF completed, F
  <2> QED BY <1>1, <1>5, <2>1, <2>2 DEF InputsSettled
<1>6. ASSUME NEW t \in TaskNodes(kk), t \notin completed
      PROVE  F[t] = s[t]
  <2> HIDE DEF completed, F
  <2> QED BY <1>1, <1>6
<1> QED BY <1>4, <1>5, <1>6

(***************************************************************************)
(* Both graphs of a run: a task that is settled belongs to a role node that *)
(* has ended, and what is done had its inputs.                              *)
(***************************************************************************)

SettledEnded(kk, gg) ==
  \A t \in TaskNodes(kk) : gg.task[t] \in Settled => gg.role[ActionId(t)] \in Ended

DoneHadInputs(kk, gg) ==
  \A t \in TaskNodes(kk) : gg.task[t] = "done" => InputsSettled(kk, gg.task, t)

Sound(kk, gg) == gg \in Graphs(kk) /\ SettledEnded(kk, gg) /\ DoneHadInputs(kk, gg)

\* A step from gg to hh ends no role node but those in N, and restarts none.
EndsOnly(kk, gg, hh, N) ==
  \A m \in RoleNodes(kk) :
    /\ m \notin N /\ gg.role[m] \in Nonterminal => hh.role[m] \in Nonterminal
    /\ gg.role[m] \in Ended => hh.role[m] = gg.role[m]

LEMMA UpdateTasksSpec ==
  ASSUME NEW kk, NEW s \in TaskStates(kk), NEW n, NEW status \in Ended
  PROVE  /\ UpdateTasks(kk, s, n, status) \in TaskStates(kk)
         /\ \A t \in TaskNodes(kk) :
               \/ UpdateTasks(kk, s, n, status)[t] = s[t]
               \/ /\ ActionId(t) = n /\ Takes(kk, s, t, status)
                  /\ UpdateTasks(kk, s, n, status)[t] = TaskStatus(status)
<1>1. TaskStatus(status) \in TaskStatuses
  BY DEF TaskStatus, TaskStatuses, Ended
<1> QED BY <1>1 DEF UpdateTasks, TaskStates

\* Recording the end of a node that was open keeps both graphs sound.
LEMMA FinishSound ==
  ASSUME NEW kk, NEW gg, Sound(kk, gg), NEW n, NEW status \in Ended,
         n \in RoleNodes(kk) => gg.role[n] \in Nonterminal
  PROVE  /\ Sound(kk, FinishNode(kk, gg, n, status))
         /\ EndsOnly(kk, gg, FinishNode(kk, gg, n, status), {n})
<1> DEFINE hh == FinishNode(kk, gg, n, status)
<1>0. /\ gg \in Graphs(kk) /\ gg.role \in RoleStates(kk) /\ gg.task \in TaskStates(kk)
      /\ gg.stop \in Stops
  BY DEF Sound, Graphs
<1>1. CASE n \notin RoleNodes(kk)
  <2>1. hh = gg
    BY <1>1 DEF FinishNode
  <2> QED BY <2>1, <1>1 DEF EndsOnly
<1>2. CASE status = "success" /\ gg.role[n] # "running" /\ n \notin ReadyRoles(kk, gg.role)
           /\ n \in RoleNodes(kk)
  <2>1. hh = [gg EXCEPT !.stop = "premature"]
    BY <1>2 DEF FinishNode
  <2>2. hh \in Graphs(kk) /\ hh.role = gg.role /\ hh.task = gg.task
    BY <2>1, <1>0 DEF Graphs, Stops
  <2> HIDE DEF hh
  <2>3. Sound(kk, hh) /\ EndsOnly(kk, gg, hh, {n})
    BY <2>2 DEF Sound, SettledEnded, DoneHadInputs, EndsOnly
  <2> QED BY <2>3 DEF hh
<1>3. CASE n \in RoleNodes(kk)
           /\ ~(status = "success" /\ gg.role[n] # "running" /\ n \notin ReadyRoles(kk, gg.role))
  <2> DEFINE e == [gg.role EXCEPT ![n] = status]
             r == Promote(kk, e)
             u == UpdateTasks(kk, gg.task, n, status)
             f == Flush(kk, r, u)
  <2>1. hh = [role |-> r, task |-> f, stop |-> StopReason(kk, r)]
    BY <1>3 DEF FinishNode
  <2>2. e \in RoleStates(kk) /\ e[n] = status /\ \A m \in RoleNodes(kk) \ {n} : e[m] = gg.role[m]
    BY <1>0, <1>3 DEF RoleStates, RoleStatuses
  <2>3. /\ r \in RoleStates(kk)
        /\ \A m \in RoleNodes(kk) :
              r[m] = e[m] \/ (e[m] \in {"pending", "ready"} /\ r[m] = "ready")
    <3> HIDE DEF e
    <3> QED BY <2>2, PromoteSpec
  <2>4. /\ u \in TaskStates(kk)
        /\ \A t \in TaskNodes(kk) :
              \/ u[t] = gg.task[t]
              \/ /\ ActionId(t) = n /\ Takes(kk, gg.task, t, status)
                 /\ u[t] = TaskStatus(status)
    BY <1>0, UpdateTasksSpec
  <2>5. /\ f \in TaskStates(kk)
        /\ \A t \in TaskNodes(kk) :
              \/ f[t] = u[t]
              \/ /\ u[t] = "pending" /\ f[t] = "done"
                 /\ r[ActionId(t)] \in {"success", "skipped"}
                 /\ InputsSettled(kk, f, t)
    <3> HIDE DEF u, r
    <3> QED BY <2>3, <2>4, FlushSpec
  <2>6. hh \in Graphs(kk) /\ hh.role = r /\ hh.task = f
    <3> HIDE DEF r, f
    <3> QED BY <2>1, <2>3, <2>5, StopReasonType DEF Graphs
  <2>7. gg.role[n] \in Nonterminal /\ status \notin Nonterminal
    BY <1>3 DEF Nonterminal, Ended
  <2> HIDE DEF e, r, u, f, hh
  <2>8. EndsOnly(kk, gg, hh, {n})
    BY <2>2, <2>3, <2>6, <2>7 DEF EndsOnly, Nonterminal, Ended
  <2>9. ASSUME NEW t \in TaskNodes(kk), gg.task[t] \in Settled
        PROVE  f[t] = gg.task[t]
    <3>1. ActionId(t) # n
      BY <2>7, <2>9, ActionIsRole DEF Sound, SettledEnded, Nonterminal, Ended
    <3> QED BY <2>4, <2>5, <2>9, <3>1 DEF Settled
  <2>10. SettledEnded(kk, hh)
    <3> SUFFICES ASSUME NEW t \in TaskNodes(kk), f[t] \in Settled
                 PROVE  r[ActionId(t)] \in Ended
      BY <2>6 DEF SettledEnded
    <3>1. ActionId(t) \in RoleNodes(kk)
      BY ActionIsRole
    <3>2. CASE gg.task[t] \in Settled
      <4>1. gg.role[ActionId(t)] \in Ended
        BY <3>2 DEF Sound, SettledEnded
      <4> QED BY <4>1, <3>1, <2>8, <2>6 DEF EndsOnly
    <3>3. CASE r[ActionId(t)] \in {"success", "skipped"}
      BY <3>3 DEF Ended
    <3>4. CASE ActionId(t) = n
      BY <3>4, <2>2, <2>3, <1>3 DEF Ended
    <3> QED BY <3>2, <3>3, <3>4, <2>4, <2>5
  <2>11. DoneHadInputs(kk, hh)
    <3> SUFFICES ASSUME NEW t \in TaskNodes(kk), f[t] = "done",
                        NEW d \in TaskDeps(kk, t)
                 PROVE  f[d] \in Settled
      BY <2>6 DEF DoneHadInputs, InputsSettled
    <3>1. d \in TaskNodes(kk)
      BY DepsAreTasks
    <3>2. CASE InputsSettled(kk, f, t)
      BY <3>2 DEF InputsSettled
    <3>3. CASE InputsSettled(kk, gg.task, t)
      BY <3>1, <3>3, <2>9 DEF InputsSettled
    <3>4. CASE gg.task[t] = "done"
      BY <3>4, <3>3 DEF Sound, DoneHadInputs
    <3>5. CASE Takes(kk, gg.task, t, status) /\ TaskStatus(status) = "done"
      BY <3>5, <3>3 DEF Takes, TaskStatus, Ended
    <3> QED BY <3>2, <3>4, <3>5, <2>4, <2>5
  <2> QED BY <2>6, <2>8, <2>10, <2>11 DEF Sound, hh
<1> QED BY <1>1, <1>2, <1>3

\* Dispatching a role starts its node, if it starts one, and marks its tasks.
LEMMA MarkSpec ==
  ASSUME NEW kk, NEW s \in TaskStates(kk), NEW N
  PROVE  /\ MarkTasksRunning(s, N) \in TaskStates(kk)
         /\ \A t \in TaskNodes(kk) :
               \/ MarkTasksRunning(s, N)[t] = s[t]
               \/ s[t] = "pending" /\ MarkTasksRunning(s, N)[t] = "running"
BY DEF MarkTasksRunning, TaskStates, TaskStatuses

\* Graphs whose tasks are marked and whose open nodes are started stay sound.
LEMMA StartSound ==
  ASSUME NEW kk, NEW gg, Sound(kk, gg), NEW hh \in Graphs(kk),
         \A t \in TaskNodes(kk) :
            hh.task[t] = gg.task[t] \/ (gg.task[t] = "pending" /\ hh.task[t] = "running"),
         \A n \in RoleNodes(kk) :
            hh.role[n] = gg.role[n] \/ (gg.role[n] \in Nonterminal /\ hh.role[n] = "running")
  PROVE  Sound(kk, hh) /\ EndsOnly(kk, gg, hh, {})
<1>1. EndsOnly(kk, gg, hh, {})
  BY DEF EndsOnly, Nonterminal, Ended
<1>2. \A t \in TaskNodes(kk) : gg.task[t] \in Settled => hh.task[t] = gg.task[t]
  BY DEF Settled
<1>3. SettledEnded(kk, hh)
  BY ActionIsRole, <1>1 DEF SettledEnded, Sound, Settled, EndsOnly
<1>4. DoneHadInputs(kk, hh)
  <2> SUFFICES ASSUME NEW t \in TaskNodes(kk), hh.task[t] = "done", NEW d \in TaskDeps(kk, t)
               PROVE  hh.task[d] \in Settled
    BY DEF DoneHadInputs, InputsSettled
  <2>1. d \in TaskNodes(kk)
    BY DepsAreTasks
  <2>2. gg.task[t] = "done"
    OBVIOUS
  <2> QED BY <2>1, <2>2, <1>2 DEF Sound, DoneHadInputs, InputsSettled
<1> QED BY <1>1, <1>3, <1>4 DEF Sound

LEMMA BeginSound ==
  ASSUME NEW kk, NEW gg, Sound(kk, gg), NEW role
  PROVE  Sound(kk, Begin(kk, gg, role)) /\ EndsOnly(kk, gg, Begin(kk, gg, role), {})
<1> DEFINE n == NodeFor(kk, gg.role, role)
           hh == Begin(kk, gg, role)
<1>0. /\ gg \in Graphs(kk) /\ gg.role \in RoleStates(kk) /\ gg.task \in TaskStates(kk)
  BY DEF Sound, Graphs
<1>1. CASE n # "none" /\ n \in ReadyRoles(kk, gg.role)
  <2>1. hh = [gg EXCEPT !.role[n] = "running", !.task = MarkTasksRunning(gg.task, {n})]
    BY <1>1 DEF Begin
  <2>2. n \in RoleNodes(kk) /\ gg.role[n] \in Nonterminal
    BY <1>1, NodeForOpen
  <2> HIDE DEF n
  <2>3. MarkTasksRunning(gg.task, {n}) \in TaskStates(kk)
    BY <1>0, MarkSpec
  <2>4. [gg.role EXCEPT ![n] = "running"] \in RoleStates(kk)
    BY <1>0 DEF RoleStates, RoleStatuses, Nonterminal
  <2>5. /\ hh \in Graphs(kk)
        /\ hh.role = [gg.role EXCEPT ![n] = "running"]
        /\ hh.task = MarkTasksRunning(gg.task, {n})
    BY <2>1, <2>3, <2>4, <1>0 DEF Graphs
  <2>6. \A t \in TaskNodes(kk) :
           hh.task[t] = gg.task[t] \/ (gg.task[t] = "pending" /\ hh.task[t] = "running")
    BY <2>5, <1>0, MarkSpec
  <2>7. \A m \in RoleNodes(kk) :
           hh.role[m] = gg.role[m] \/ (gg.role[m] \in Nonterminal /\ hh.role[m] = "running")
    BY <2>2, <2>5, <1>0 DEF RoleStates
  <2> HIDE DEF hh
  <2>8. Sound(kk, hh) /\ EndsOnly(kk, gg, hh, {})
    BY <2>5, <2>6, <2>7, StartSound
  <2> QED BY <2>8 DEF hh
<1>2. CASE ~(n # "none" /\ n \in ReadyRoles(kk, gg.role))
  <2>1. hh = gg
    BY <1>2 DEF Begin
  <2> HIDE DEF hh
  <2>2. Sound(kk, hh) /\ EndsOnly(kk, gg, hh, {})
    BY <2>1 DEF EndsOnly
  <2> QED BY <2>2 DEF hh
<1> QED BY <1>1, <1>2

\* The node found for a role is one of that role.
NodesOf(role) == IF role = "runner" THEN {"patch_runner", "test_runner"} ELSE {role}

LEMMA NodeForRole ==
  ASSUME NEW kk, NEW r, NEW role, NodeFor(kk, r, role) # "none"
  PROVE  NodeFor(kk, r, role) \in NodesOf(role)
BY DEF NodeFor, NodesOf

LEMMA FinishRoleSound ==
  ASSUME NEW kk, NEW gg, Sound(kk, gg), NEW role, NEW status \in Ended
  PROVE  /\ Sound(kk, FinishRole(kk, gg, role, status))
         /\ EndsOnly(kk, gg, FinishRole(kk, gg, role, status), NodesOf(role))
<1> DEFINE n == NodeFor(kk, gg.role, role)
           hh == FinishNode(kk, gg, n, status)
<1>1. n \in RoleNodes(kk) => gg.role[n] \in Nonterminal /\ n \in NodesOf(role)
  BY NodeForOpen, NoneIsNoRole, NodeForRole
<1>2. FinishRole(kk, gg, role, status) = hh
  BY DEF FinishRole
<1>3. Sound(kk, hh) /\ EndsOnly(kk, gg, hh, {n})
  <2> HIDE DEF n
  <2> QED BY <1>1, FinishSound
<1> HIDE DEF n, hh
<1>4. EndsOnly(kk, gg, hh, NodesOf(role))
  BY <1>1, <1>3 DEF EndsOnly
<1> QED BY <1>2, <1>3, <1>4

LEMMA EndsOnlyComposes ==
  ASSUME NEW kk, NEW gg, NEW hh, NEW ii, NEW N,
         EndsOnly(kk, gg, hh, {}), EndsOnly(kk, hh, ii, N)
  PROVE  EndsOnly(kk, gg, ii, N)
BY DEF EndsOnly

LEMMA RunRoleSound ==
  ASSUME Sound(k, g), NEW role, NEW status \in Ended
  PROVE  Sound(k, RunRole(role, status)) /\ EndsOnly(k, g, RunRole(role, status), NodesOf(role))
BY BeginSound, FinishRoleSound, EndsOnlyComposes DEF RunRole

LEMMA AwaitSound ==
  ASSUME Sound(k, g), NEW n \in RoleNodes(k), g.role[n] \in Nonterminal
  PROVE  Sound(k, AwaitApproval(n)) /\ EndsOnly(k, g, AwaitApproval(n), {n})
<1> DEFINE hh == Begin(k, g, "runner")
<1>1. Sound(k, hh) /\ EndsOnly(k, g, hh, {})
  BY BeginSound
<1>2. hh.role[n] \in Nonterminal
  BY <1>1 DEF EndsOnly
<1> HIDE DEF hh
<1>3. Sound(k, FinishNode(k, hh, n, "skipped")) /\ EndsOnly(k, hh, FinishNode(k, hh, n, "skipped"), {n})
  BY <1>1, <1>2, FinishSound DEF Ended
<1>4. AwaitApproval(n) = FinishNode(k, hh, n, "skipped")
  BY DEF AwaitApproval, hh
<1> QED BY <1>1, <1>3, <1>4, EndsOnlyComposes

LEMMA NewGraphsSound ==
  ASSUME NEW kk
  PROVE  Sound(kk, NewGraphs(kk))
<1> DEFINE r == [n \in RoleNodes(kk) |-> "pending"]
           s == [t \in TaskNodes(kk) |-> "pending"]
<1>1. r \in RoleStates(kk) /\ s \in TaskStates(kk)
  BY DEF RoleStates, RoleStatuses, Nonterminal, TaskStates, TaskStatuses
<1>2. Promote(kk, r) \in RoleStates(kk)
  BY <1>1, PromoteSpec
<1>3. NewGraphs(kk) = [role |-> Promote(kk, r), task |-> s, stop |-> "none"]
  BY DEF NewGraphs
<1>4. \A t \in TaskNodes(kk) : s[t] = "pending"
  OBVIOUS
<1> HIDE DEF r, s
<1>5. NewGraphs(kk) \in Graphs(kk) /\ NewGraphs(kk).task = s
  BY <1>1, <1>2, <1>3 DEF Graphs, Stops
<1> QED BY <1>4, <1>5 DEF Sound, SettledEnded, DoneHadInputs, Settled

(***************************************************************************)
(* The graphs along a run.  A node the executor acts on directly, without   *)
(* looking for an open one, is open.                                        *)
(***************************************************************************)

BusyOpen ==
  /\ pc \in {"patch_runner", "test_runner", "summarizer"} => g.role[pc] \in Nonterminal
  /\ pc = "command" /\ ~k.shellOk => g.role["test_runner"] \in Nonterminal
  /\ pc \in {"repair", "rerun"} => k.shellOk

GraphInv == Sound(k, g) /\ BusyOpen

Quiet == {"explore", "schedule", "coders", "finalize", "done"}

LEMMA QuietMove ==
  ASSUME k' = k, Sound(k, g'), pc' \in Quiet
  PROVE  GraphInv'
BY DEF GraphInv, BusyOpen, Quiet

LEMMA SameGraphs ==
  ASSUME GraphInv, k' = k, g' = g, pc' \in Quiet
  PROVE  GraphInv'
BY QuietMove DEF GraphInv

\* A coder that is awaited ends its own node, whatever the executor does meanwhile.
LEMMA CoderMove ==
  ASSUME GraphInv, NEW c \in Coders, NEW status \in Ended,
         g' = FinishRole(k, g, c, status), k' = k, pc' = pc \/ pc' \in Quiet
  PROVE  GraphInv'
<1>1. Sound(k, g') /\ EndsOnly(k, g, g', {c})
  BY FinishRoleSound DEF GraphInv, NodesOf, Coders
<1>2. \A n \in {"patch_runner", "test_runner", "summarizer"} :
         g.role[n] \in Nonterminal => g'.role[n] \in Nonterminal
  BY <1>1 DEF EndsOnly, RoleNodes, Coders
<1>3. CASE pc' = pc
  BY <1>1, <1>2, <1>3 DEF GraphInv, BusyOpen
<1> QED BY <1>1, <1>3, QuietMove

LEMMA BatchSpec ==
  ASSUME NEW run \in SUBSET RoleNodes(k), run # {}
  PROVE  Batch(run) \subseteq run /\ First(Batch(run)) \in run
<1>1. Batch(run) \subseteq run /\ Batch(run) # {}
  BY FirstIn DEF Batch, Coders
<1>2. First(Batch(run)) \in Batch(run)
  BY <1>1, FirstIn
<1> QED BY <1>1, <1>2

LEMMA DispatchKeeps ==
  ASSUME GraphInv, Dispatch
  PROVE  GraphInv'
<1> DEFINE batch == Batch(Runnable(k, g))
           marked == [g EXCEPT !.task = MarkTasksRunning(g.task, batch)]
           native == batch \subseteq Coders /\ ~(k.live /\ "coder_a" \in batch)
           started == [n \in DOMAIN g.role |-> IF n \in batch THEN "running" ELSE g.role[n]]
<1>0. /\ g \in Graphs(k) /\ g.role \in RoleStates(k) /\ g.task \in TaskStates(k)
  BY DEF GraphInv, Sound, Graphs
<1>1. k' = k
  BY DEF Dispatch
<1>2. /\ batch \subseteq RoleNodes(k) /\ First(batch) \in RoleNodes(k)
      /\ \A n \in batch \union {First(batch)} : g.role[n] \in Nonterminal
  <2>1. Runnable(k, g) # {}
    BY DEF Dispatch
  <2>2. /\ Runnable(k, g) \subseteq RoleNodes(k)
        /\ \A n \in Runnable(k, g) : g.role[n] \in Nonterminal
    BY ReadyRolesType DEF Runnable, Nonterminal
  <2>3. batch \subseteq Runnable(k, g) /\ First(batch) \in Runnable(k, g)
    BY <2>1, <2>2, BatchSpec
  <2> QED BY <2>2, <2>3
<1>3. \/ native /\ g' = [marked EXCEPT !.role = started] /\ pc' = "coders"
      \/ ~native /\ g' = marked /\ pc' = First(batch)
  BY Zenon DEF Dispatch
<1> HIDE DEF batch, native
<1>4. MarkTasksRunning(g.task, batch) \in TaskStates(k)
  BY <1>0, MarkSpec
<1>5. marked \in Graphs(k) /\ marked.role = g.role /\ marked.task = MarkTasksRunning(g.task, batch)
  BY <1>0, <1>4 DEF Graphs
<1>6. \A t \in TaskNodes(k) :
         \/ marked.task[t] = g.task[t]
         \/ (g.task[t] = "pending" /\ marked.task[t] = "running")
  BY <1>0, <1>5, MarkSpec
<1>7. CASE native /\ g' = [marked EXCEPT !.role = started] /\ pc' = "coders"
  <2>1. started \in RoleStates(k)
    BY <1>0 DEF RoleStates, RoleStatuses, Nonterminal
  <2>2. \A n \in RoleNodes(k) :
           \/ started[n] = g.role[n]
           \/ (g.role[n] \in Nonterminal /\ started[n] = "running")
    BY <1>0, <1>2 DEF RoleStates
  <2> HIDE DEF marked, started
  <2>3. g' \in Graphs(k) /\ g'.role = started /\ g'.task = marked.task
    BY <1>5, <1>7, <2>1 DEF Graphs
  <2>4. Sound(k, g')
    BY <1>6, <2>2, <2>3, StartSound DEF GraphInv
  <2> QED BY <1>1, <1>7, <2>4, QuietMove DEF Quiet
<1>8. CASE ~native /\ g' = marked /\ pc' = First(batch)
  <2> HIDE DEF marked
  <2>1. Sound(k, g')
    BY <1>5, <1>6, <1>8, StartSound DEF GraphInv
  <2>2. g'.role = g.role
    BY <1>5, <1>8
  <2>3. pc' \notin {"command", "repair", "rerun"}
    BY <1>2, <1>8 DEF RoleNodes
  <2> QED BY <1>1, <1>2, <1>8, <2>1, <2>2, <2>3 DEF GraphInv, BusyOpen
<1> QED BY <1>3, <1>7, <1>8

\* The statuses an ended role may be given are those of the code's results.
LEMMA EndedStatuses ==
  {"success", "failed", "blocked", "skipped"} = Ended
BY DEF Ended

LEMMA ApplyKeeps ==
  ASSUME GraphInv, ApplyStep
  PROVE  GraphInv'
<1> USE EndedStatuses
<1>1. pc = "patch_runner" /\ "patch_runner" \in RoleNodes(k) /\ g.role["patch_runner"] \in Nonterminal
  BY DEF GraphInv, BusyOpen, ApplyStep, StopBeforeApply, SelectedNothing, ContractDeniesPatch,
         RecordOnly, ApplyPatch, Applying, RoleNodes
<1>2. \A status \in Ended : Sound(k, FinishNode(k, g, "patch_runner", status))
  BY <1>1, FinishSound DEF GraphInv
<1>3. CASE StopBeforeApply
  BY <1>2, <1>3, QuietMove DEF StopBeforeApply, Block, Quiet
<1>4. CASE SelectedNothing
  BY <1>4, FinishRoleSound, QuietMove DEF SelectedNothing, Gate, Block, Quiet, GraphInv
<1>5. CASE ContractDeniesPatch
  BY <1>5, SameGraphs DEF ContractDeniesPatch, Quiet
<1>6. CASE RecordOnly
  BY <1>2, <1>6, QuietMove DEF RecordOnly, Quiet
<1>7. CASE ApplyPatch
  <2>1. Sound(k, AwaitApproval("patch_runner"))
    BY <1>1, AwaitSound DEF GraphInv
  <2>2. \A status \in Ended : Sound(k, RunRole("runner", status))
    BY RunRoleSound DEF GraphInv
  <2> QED BY <1>7, <2>1, <2>2, QuietMove DEF ApplyPatch, Quiet
<1> QED BY <1>3, <1>4, <1>5, <1>6, <1>7 DEF ApplyStep

LEMMA VerifyKeeps ==
  ASSUME GraphInv, VerifyStep
  PROVE  GraphInv'
<1> USE EndedStatuses
<1>1. \A status \in Ended : Sound(k, RunRole("runner", status))
  BY RunRoleSound DEF GraphInv
<1>2. "test_runner" \in RoleNodes(k)
  BY DEF RoleNodes
<1>3. CASE LimitReached
  BY <1>3, SameGraphs DEF LimitReached, Unverified, Quiet
<1>4. CASE StartVerify
  <2>1. g.role["test_runner"] \in Nonterminal /\ k' = k
    BY <1>4 DEF StartVerify, GraphInv, BusyOpen, Unverified
  <2>2. Sound(k, FinishNode(k, g, "test_runner", "skipped"))
    BY <2>1, FinishSound DEF GraphInv
  <2>3. CASE g' = FinishNode(k, g, "test_runner", "skipped") /\ pc' = "schedule"
    BY <2>1, <2>2, <2>3, QuietMove DEF Quiet
  <2>4. CASE g' = g /\ pc' = "command"
    BY <2>1, <2>4 DEF GraphInv, BusyOpen
  <2> QED BY <1>4, <2>3, <2>4 DEF StartVerify
<1>5. CASE CommandPasses
  <2>1. k' = k /\ g' = RunRole("runner", "success") /\ k.shellOk /\ pc' \in {"command", "schedule"}
    BY <1>5 DEF CommandPasses, Unverified, Advance
  <2> QED BY <2>1, <1>1 DEF GraphInv, BusyOpen
<1>6. CASE CommandFails
  <2>1. k' = k /\ g' = RunRole("runner", "success") /\ k.shellOk /\ pc' \in {"repair", "schedule"}
    BY <1>6 DEF CommandFails, Unverified
  <2> QED BY <2>1, <1>1 DEF GraphInv, BusyOpen
<1>7. CASE CommandRefused
  <2>1. k' = k /\ pc' = "schedule"
    BY <1>7 DEF CommandRefused, Unverified
  <2>2. CASE k.shellOk
    BY <1>1, <1>7, <2>1, <2>2, QuietMove DEF CommandRefused, Quiet
  <2>3. CASE ~k.shellOk
    <3>1. g.role["test_runner"] \in Nonterminal
      BY <1>7, <2>3 DEF CommandRefused, GraphInv, BusyOpen
    <3>2. Sound(k, AwaitApproval("test_runner"))
      BY <1>2, <3>1, AwaitSound DEF GraphInv
    <3> QED BY <1>7, <2>1, <2>3, <3>2, QuietMove DEF CommandRefused, Quiet
  <2> QED BY <2>2, <2>3
<1>8. CASE RepairerFails
  BY <1>8, SameGraphs DEF RepairerFails, Unverified, Block, Quiet
<1>9. CASE RepairNotApplied
  BY <1>9 DEF RepairNotApplied, Repairing, Unverified, Advance, GraphInv, BusyOpen
<1>10. CASE RepairApplied
  BY <1>10 DEF RepairApplied, Repairing, Unverified, GraphInv, BusyOpen
<1>11. CASE Rerun
  <2>1. k' = k /\ g' = g /\ k.shellOk /\ pc' \in {"command", "schedule"}
    BY <1>11 DEF Rerun, Unverified, Advance, GraphInv, BusyOpen
  <2> QED BY <2>1 DEF GraphInv, BusyOpen
<1> QED BY <1>3, <1>4, <1>5, <1>6, <1>7, <1>8, <1>9, <1>10, <1>11 DEF VerifyStep

LEMMA LiveKeeps ==
  ASSUME GraphInv, LiveStep
  PROVE  GraphInv'
<1> USE EndedStatuses
<1>1. CASE LiveCandidates
  <2>1. PICK valid \in SUBSET LiveRoles \ {{}} :
           \E h \in {Propose(g, "coder_a", valid)} : g' = Propose(h, "coder_b", valid)
    BY <1>1 DEF LiveCandidates
  <2>2. \A h, c : Sound(k, h) => Sound(k, Propose(h, c, valid))
    BY FinishRoleSound DEF Propose
  <2>3. Sound(k, g')
    BY <2>1, <2>2 DEF GraphInv
  <2> QED BY <1>1, <2>3, QuietMove DEF LiveCandidates, Quiet
<1>2. CASE LiveWithoutCandidate
  BY <1>2, FinishRoleSound, QuietMove DEF LiveWithoutCandidate, Block, Quiet, GraphInv
<1>3. CASE LiveFails
  BY <1>3, SameGraphs DEF LiveFails, Reject, Quiet
<1> QED BY <1>1, <1>2, <1>3 DEF LiveStep

LEMMA RoleKeeps ==
  ASSUME GraphInv,
         \/ Plan \/ Explore \/ Summarize \/ Reviewer \/ Judge
         \/ RoleFails("reviewer") \/ RoleFails("judge")
  PROVE  GraphInv'
<1> USE EndedStatuses
<1>1. \A role : \A status \in Ended :
         Sound(k, RunRole(role, status)) /\ Sound(k, FinishRole(k, g, role, status))
  BY RunRoleSound, FinishRoleSound DEF GraphInv
<1>2. CASE Plan
  BY <1>1, <1>2, QuietMove DEF Plan, Quiet
<1>3. CASE Explore
  BY <1>1, <1>3, QuietMove DEF Explore, Reject, Quiet
<1>4. CASE Summarize
  BY <1>1, <1>4, QuietMove DEF Summarize, Quiet
<1>5. CASE Reviewer
  BY <1>1, <1>5, QuietMove DEF Reviewer, Gate, Block, Quiet
<1>6. CASE Judge
  BY <1>1, <1>6, QuietMove DEF Judge, Gate, Block, Quiet
<1>7. CASE RoleFails("reviewer") \/ RoleFails("judge")
  BY <1>1, <1>7, QuietMove DEF RoleFails, Reject, Block, Quiet
<1> QED BY <1>2, <1>3, <1>4, <1>5, <1>6, <1>7

LEMMA SchedulerKeeps ==
  ASSUME GraphInv, StopOnRole \/ NothingRunnable \/ Dispatch \/ Finalize
  PROVE  GraphInv'
<1>1. CASE StopOnRole
  BY <1>1, SameGraphs DEF StopOnRole, Block, Quiet
<1>2. CASE NothingRunnable
  <2>1. /\ k' = k /\ pc' = "finalize"
        /\ \/ g' = g
           \/ g' = FinishRole(k, g, RoleOf(First(ReadyRoles(k, g.role))), "blocked")
    BY <1>2 DEF NothingRunnable, Block
  <2> QED BY <2>1, FinishRoleSound, EndedStatuses, QuietMove DEF Quiet, GraphInv
<1>3. CASE Dispatch
  BY <1>3, DispatchKeeps
<1>4. CASE Finalize
  BY <1>4, SameGraphs DEF Finalize, Quiet
<1> QED BY <1>1, <1>2, <1>3, <1>4

LEMMA CoderKeeps ==
  ASSUME GraphInv, fly \subseteq Coders, CoderStep
  PROVE  GraphInv'
<1>1. PICK c \in fly : CoderProposes(c) \/ CoderFails(c)
  BY DEF CoderStep
<1>2. CASE CoderProposes(c)
  <2>1. g' = FinishRole(k, g, c, "success") /\ k' = k /\ (pc' = pc \/ pc' = "schedule")
    BY <1>2 DEF CoderProposes
  <2> QED BY <2>1, CoderMove, EndedStatuses DEF Quiet
<1>3. CASE CoderFails(c)
  <2>1. g' = FinishRole(k, g, c, "failed") /\ k' = k /\ (pc' = pc \/ pc' \in Quiet)
    BY <1>3 DEF CoderFails, Block, Reject, Quiet
  <2> QED BY <2>1, CoderMove, EndedStatuses
<1> QED BY <1>1, <1>2, <1>3

\* Only the dispatcher starts coders, and only a coder that answers is awaited no longer.
LEMMA OthersKeepFly ==
  ASSUME \/ VerifyStep \/ ApplyStep \/ LiveStep
         \/ Plan \/ Explore \/ Summarize \/ Reviewer \/ Judge
         \/ RoleFails("reviewer") \/ RoleFails("judge")
         \/ StopOnRole \/ NothingRunnable \/ Finalize
  PROVE  fly' = fly
<1>1. CASE VerifyStep
  BY <1>1 DEF VerifyStep, LimitReached, StartVerify, CommandPasses, CommandFails,
              CommandRefused, RepairerFails, RepairNotApplied, RepairApplied, Rerun, Unverified
<1>2. CASE ApplyStep
  BY <1>2 DEF ApplyStep, StopBeforeApply, SelectedNothing, ContractDeniesPatch, RecordOnly,
              ApplyPatch
<1>3. CASE LiveStep
  BY <1>3 DEF LiveStep, LiveCandidates, LiveWithoutCandidate, LiveFails
<1>4. CASE \/ Plan \/ Explore \/ Summarize \/ Reviewer \/ Judge
           \/ RoleFails("reviewer") \/ RoleFails("judge")
  BY <1>4 DEF Plan, Explore, Summarize, Reviewer, Judge, RoleFails
<1>5. CASE StopOnRole \/ NothingRunnable \/ Finalize
  BY <1>5 DEF StopOnRole, NothingRunnable, Finalize
<1> QED BY <1>1, <1>2, <1>3, <1>4, <1>5

FlyType == fly \subseteq Coders

LEMMA FlyTypeStep == FlyType /\ [Next]_vars => FlyType'
<1> SUFFICES ASSUME FlyType, [Next]_vars PROVE FlyType'
  OBVIOUS
<1>1. CASE UNCHANGED vars
  BY <1>1 DEF vars, FlyType
<1>2. CASE Dispatch
  BY <1>2 DEF Dispatch, FlyType
<1>3. CASE CoderStep
  BY <1>3 DEF CoderStep, CoderProposes, CoderFails, FlyType
<1> QED BY <1>1, <1>2, <1>3, OthersKeepFly DEF Next, FlyType

LEMMA GraphInvInit == Init => GraphInv
BY NewGraphsSound DEF Init, GraphInv, BusyOpen

LEMMA GraphInvStep == GraphInv /\ FlyType /\ [Next]_vars => GraphInv'
<1> SUFFICES ASSUME GraphInv, FlyType, [Next]_vars PROVE GraphInv'
  OBVIOUS
<1>1. CASE UNCHANGED vars
  BY <1>1 DEF vars, GraphInv, BusyOpen
<1>2. CASE Next
  BY <1>2, VerifyKeeps, ApplyKeeps, LiveKeeps, CoderKeeps, RoleKeeps, SchedulerKeeps
  DEF Next, FlyType
<1> QED BY <1>1, <1>2

LEMMA GraphInvariant == Spec => [](GraphInv /\ FlyType)
<1>1. Init => FlyType
  BY DEF Init, FlyType
<1> QED BY <1>1, GraphInvInit, GraphInvStep, FlyTypeStep, PTL DEF Spec

\* Whatever the roles answer and in whatever order, a task that is done had every
\* task it depends on done or skipped (updateTaskStatus and flushReadyTasks of
\* taskGraphBuilder.ts, as the executor calls them).
THEOREM TasksHadInputs == Spec => []TaskNeedsInputs
<1>1. GraphInv => TaskNeedsInputs
  BY DEF GraphInv, Sound, DoneHadInputs, TaskNeedsInputs
<1> QED BY <1>1, GraphInvariant, PTL

(***************************************************************************)
(* How a run ends.  A summary that says completed has a patch and a run     *)
(* behind it, or the loop is about to block the workflow; a coder nobody    *)
(* awaits any longer belongs to a run that cannot be accepted.              *)
(***************************************************************************)

VerifyStates ==
  [cmd : Nat, shellRuns : Nat, repairs : Nat, seen : SUBSET Signatures,
   attempted : SUBSET (Signatures \union {"none"}),
   sig : Signatures \union {"none"}, runs : SUBSET {"pass", "fail", "skip"}]

VerifyType == verify \in VerifyStates

Orphans ==
  fly # {} => \/ pc = "coders"
              \/ pc = "finalize" /\ blocked # "none"
              \/ pc = "done" /\ acceptance # "accepted"

Behind ==
  result = "completed" => \/ applied # "none" /\ verify.runs # {}
                          \/ blocked # "none"
                          \/ pc = "schedule" /\ Stopped

EndInv ==
  /\ VerifyType
  /\ Orphans
  /\ acceptance # "none" => pc = "done"
  /\ Behind
  /\ AcceptedIsVerified

\* What a phase between the dispatch of a role and the return to the loop may do.
InPhase ==
  /\ pc \notin {"schedule", "coders", "finalize", "done"}
  /\ UNCHANGED <<fly, result, acceptance>>
  /\ blocked' = blocked \/ blocked' # "none"
  /\ applied' = applied \/ applied' # "none"
  /\ VerifyType' /\ verify.runs \subseteq verify'.runs

LEMMA PhaseKeepsEnd ==
  ASSUME EndInv, InPhase
  PROVE  EndInv'
<1>1. fly = {} /\ acceptance = "none"
  BY DEF EndInv, InPhase, Orphans
<1>2. VerifyType' /\ Orphans' /\ (acceptance' # "none" => pc' = "done") /\ AcceptedIsVerified'
  BY <1>1 DEF InPhase, Orphans, AcceptedIsVerified
<1>3. Behind'
  BY DEF EndInv, InPhase, Behind
<1> QED BY <1>2, <1>3 DEF EndInv

\* What the phase does to its locals keeps the runs recorded so far.
LEMMA VerifyMoves ==
  ASSUME VerifyType
  PROVE  /\ \A r \in {"pass", "fail", "skip"} :
               Ran(r) \in VerifyStates /\ verify.runs \subseteq Ran(r).runs
         /\ \A v \in VerifyStates, x \in Signatures :
               SignatureSeen(v, x) \in VerifyStates /\ SignatureSeen(v, x).runs = v.runs
         /\ \A v \in VerifyStates :
               /\ [v EXCEPT !.cmd = @ + 1] \in VerifyStates
               /\ [v EXCEPT !.cmd = @ + 1].runs = v.runs
         /\ Attempt \in VerifyStates /\ Attempt.runs = verify.runs
         /\ [verify EXCEPT !.shellRuns = @ + 1] \in VerifyStates
         /\ [verify EXCEPT !.shellRuns = @ + 1].runs = verify.runs
         /\ [verify EXCEPT !.cmd = 1] \in VerifyStates
         /\ [verify EXCEPT !.cmd = 1].runs = verify.runs
<1>1. ASSUME NEW r \in {"pass", "fail", "skip"}
      PROVE  Ran(r) \in VerifyStates /\ verify.runs \subseteq Ran(r).runs
  <2>1. verify.runs \union {r} \in SUBSET {"pass", "fail", "skip"} /\ verify.shellRuns + 1 \in Nat
    BY DEF VerifyStates, VerifyType
  <2>2. Ran(r) = [verify EXCEPT !.shellRuns = verify.shellRuns + 1, !.runs = verify.runs \union {r}]
    BY DEF Ran
  <2>3. Ran(r) \in VerifyStates
    BY <2>1, <2>2 DEF VerifyStates, VerifyType
  <2>4. Ran(r).runs = verify.runs \union {r}
    BY <2>2 DEF VerifyStates, VerifyType
  <2> QED BY <2>3, <2>4
<1>2. \A v \in VerifyStates, x \in Signatures :
         SignatureSeen(v, x) \in VerifyStates /\ SignatureSeen(v, x).runs = v.runs
  BY DEF SignatureSeen, VerifyStates
<1>3. \A v \in VerifyStates :
         /\ [v EXCEPT !.cmd = @ + 1] \in VerifyStates
         /\ [v EXCEPT !.cmd = @ + 1].runs = v.runs
  BY DEF VerifyStates
<1>4. Attempt \in VerifyStates /\ Attempt.runs = verify.runs
  <2> DEFINE more == verify.attempted \union {verify.sig}
  <2>1. more \in SUBSET (Signatures \union {"none"}) /\ verify.repairs + 1 \in Nat
    BY DEF VerifyStates, VerifyType
  <2>2. Attempt = [verify EXCEPT !.repairs = verify.repairs + 1, !.attempted = more]
    BY DEF Attempt
  <2> HIDE DEF more
  <2> QED BY <2>1, <2>2 DEF VerifyStates, VerifyType
<1>5. /\ [verify EXCEPT !.shellRuns = @ + 1] \in VerifyStates
      /\ [verify EXCEPT !.shellRuns = @ + 1].runs = verify.runs
      /\ [verify EXCEPT !.cmd = 1] \in VerifyStates
      /\ [verify EXCEPT !.cmd = 1].runs = verify.runs
  BY DEF VerifyStates, VerifyType
<1> QED BY <1>1, <1>2, <1>3, <1>4, <1>5

LEMMA VerifyIsPhase ==
  ASSUME EndInv, VerifyStep
  PROVE  InPhase
<1>0. VerifyType
  BY DEF EndInv
<1>1. /\ pc \notin {"schedule", "coders", "finalize", "done"}
      /\ UNCHANGED <<fly, result, acceptance, applied>>
      /\ blocked' = blocked \/ blocked' # "none"
  BY DEF VerifyStep, LimitReached, StartVerify, CommandPasses, CommandFails, CommandRefused,
         RepairerFails, RepairNotApplied, RepairApplied, Rerun, Repairing, Unverified, Block
<1>2. verify' \in VerifyStates /\ verify.runs \subseteq verify'.runs
  <2> DEFINE Grown(v) == v \in VerifyStates /\ verify.runs \subseteq v.runs
  <2>1. /\ \A r \in {"pass", "fail", "skip"} : Grown(Ran(r))
        /\ \A v \in VerifyStates, x \in Signatures : Grown(v) => Grown(SignatureSeen(v, x))
        /\ \A v \in VerifyStates : Grown(v) => Grown([v EXCEPT !.cmd = @ + 1])
        /\ Grown(verify) /\ Grown(Attempt) /\ Grown([verify EXCEPT !.shellRuns = @ + 1])
        /\ Grown([verify EXCEPT !.cmd = 1])
    BY <1>0, VerifyMoves DEF VerifyType
  <2>2. \A v \in VerifyStates : Grown(v) /\ Advance(v) => Grown(verify')
    BY <2>1 DEF Advance
  <2>3. \A v : Grown(v) => v \in VerifyStates
    OBVIOUS
  <2>4. Grown(verify')
    <3> HIDE DEF Grown
    <3>1. CASE LimitReached \/ StartVerify
      BY <2>1, <3>1 DEF LimitReached, StartVerify
    <3>2. CASE CommandPasses
      BY <2>1, <2>2, <2>3, <3>2 DEF CommandPasses
    <3>3. CASE CommandFails
      BY <2>1, <2>3, <3>3 DEF CommandFails
    <3>4. CASE CommandRefused \/ RepairerFails \/ RepairApplied
      BY <2>1, <3>4 DEF CommandRefused, RepairerFails, RepairApplied
    <3>5. CASE RepairNotApplied
      BY <2>1, <2>2, <2>3, <3>5 DEF RepairNotApplied
    <3>6. CASE Rerun
      BY <2>1, <2>2, <2>3, <3>6 DEF Rerun
    <3> QED BY <3>1, <3>2, <3>3, <3>4, <3>5, <3>6 DEF VerifyStep
  <2> QED BY <2>4
<1> QED BY <1>1, <1>2 DEF InPhase, VerifyType

LEMMA OthersArePhases ==
  ASSUME EndInv,
         \/ ApplyStep \/ LiveStep \/ Plan \/ Explore \/ Reviewer \/ Judge
         \/ RoleFails("reviewer") \/ RoleFails("judge")
  PROVE  InPhase
<1>0. VerifyType
  BY DEF EndInv
<1>1. CASE ApplyStep
  <2>1. verify' = verify
    BY <1>1 DEF ApplyStep, StopBeforeApply, SelectedNothing, ContractDeniesPatch, RecordOnly,
                ApplyPatch
  <2> QED BY <1>0, <1>1, <2>1 DEF ApplyStep, StopBeforeApply, SelectedNothing,
             ContractDeniesPatch, RecordOnly, ApplyPatch, Applying, Gate, Block, InPhase, VerifyType
<1>2. CASE LiveStep
  BY <1>0, <1>2 DEF LiveStep, LiveCandidates, LiveWithoutCandidate, LiveFails, Block, Reject,
                    InPhase, VerifyType
<1>3. CASE \/ Plan \/ Explore \/ Reviewer \/ Judge
           \/ RoleFails("reviewer") \/ RoleFails("judge")
  BY <1>0, <1>3 DEF Plan, Explore, Reviewer, Judge, RoleFails, Gate, Block, Reject, InPhase,
                    VerifyType
<1> QED BY <1>1, <1>2, <1>3

\* A summarizer that fails stops the scheduler.
LEMMA FailedSummaryStops ==
  ASSUME Sound(k, g), g.role["summarizer"] \in Nonterminal
  PROVE  RunRole("summarizer", "failed").stop = "required node ended"
<1> DEFINE hh == Begin(k, g, "summarizer")
           e == [hh.role EXCEPT !["summarizer"] = "failed"]
<1>1. "summarizer" \in RoleNodes(k) /\ Required(k, "summarizer")
  BY DEF RoleNodes, Required
<1>2. hh.role["summarizer"] \in Nonterminal /\ hh.role \in RoleStates(k)
  BY <1>1, BeginSound DEF EndsOnly, Sound, Graphs
<1> HIDE DEF hh
<1>3. NodeFor(k, hh.role, "summarizer") = "summarizer"
  BY <1>1, <1>2 DEF NodeFor
<1>4. FinishNode(k, hh, "summarizer", "failed").stop = StopReason(k, Promote(k, e))
  BY <1>1 DEF FinishNode
<1>5. e \in RoleStates(k) /\ e["summarizer"] = "failed"
  BY <1>1, <1>2 DEF RoleStates, RoleStatuses, Ended
<1> HIDE DEF e
<1>6. Promote(k, e)["summarizer"] = "failed"
  BY <1>1, <1>5, PromoteSpec
<1>7. StopReason(k, Promote(k, e)) = "required node ended"
  BY <1>1, <1>6 DEF StopReason
<1> QED BY <1>3, <1>4, <1>7 DEF RunRole, FinishRole, hh

LEMMA SummaryKeepsEnd ==
  ASSUME EndInv, GraphInv, Summarize
  PROVE  EndInv'
<1>1. /\ pc = "summarizer" /\ pc' = "schedule" /\ UNCHANGED <<fly, verify, applied, acceptance>>
  BY DEF Summarize
<1>2. fly = {} /\ acceptance = "none" /\ VerifyType'
  BY <1>1 DEF EndInv, Orphans, VerifyType
<1>3. CASE g' = RunRole("summarizer", "failed")
  <2>1. g'.stop = "required node ended"
    BY <1>1, <1>3, FailedSummaryStops DEF GraphInv, BusyOpen
  <2> QED BY <1>1, <1>2, <2>1 DEF EndInv, Orphans, Behind, AcceptedIsVerified, Stopped
<1>4. CASE result' \in Summarized
  BY <1>1, <1>2, <1>4 DEF EndInv, Orphans, Behind, AcceptedIsVerified, Summarized
<1> QED BY <1>3, <1>4 DEF Summarize

LEMMA SchedulerKeepsEnd ==
  ASSUME EndInv, StopOnRole \/ NothingRunnable \/ Dispatch
  PROVE  EndInv'
<1>1. /\ pc = "schedule" /\ fly = {} /\ acceptance = "none"
      /\ UNCHANGED <<verify, applied, result, acceptance>>
  BY DEF EndInv, Orphans, StopOnRole, NothingRunnable, Dispatch
<1>2. VerifyType' /\ (acceptance' # "none" => pc' = "done") /\ AcceptedIsVerified'
  BY <1>1 DEF EndInv, VerifyType, AcceptedIsVerified
<1>3. Orphans'
  <2>1. fly' = {} \/ pc' = "coders"
    BY <1>1 DEF StopOnRole, NothingRunnable, Dispatch
  <2> QED BY <2>1 DEF Orphans
<1>4. Behind'
  <2>1. CASE StopOnRole
    BY <2>1 DEF StopOnRole, Block, Behind
  <2>2. CASE NothingRunnable \/ Dispatch
    <3>1. ~Stopped /\ (blocked' = blocked \/ blocked' # "none")
      BY <2>2 DEF NothingRunnable, Dispatch, Block
    <3> QED BY <1>1, <3>1 DEF EndInv, Behind
  <2> QED BY <2>1, <2>2
<1> QED BY <1>2, <1>3, <1>4 DEF EndInv

LEMMA CoderKeepsEnd ==
  ASSUME EndInv, CoderStep
  PROVE  EndInv'
<1>1. PICK c \in fly : CoderProposes(c) \/ CoderFails(c)
  BY DEF CoderStep
<1>2. /\ UNCHANGED <<verify, applied, result, acceptance>>
      /\ blocked' = blocked \/ blocked' # "none"
  BY <1>1 DEF CoderProposes, CoderFails, Block
<1>3. /\ acceptance # "accepted" /\ (pc # "done" => acceptance = "none") /\ pc # "schedule"
  BY <1>1 DEF EndInv, Orphans
<1>4. VerifyType' /\ AcceptedIsVerified' /\ Behind'
  BY <1>2, <1>3 DEF EndInv, VerifyType, AcceptedIsVerified, Behind
<1>5. Orphans' /\ (acceptance' # "none" => pc' = "done")
  <2>1. CASE CoderProposes(c)
    BY <1>2, <1>3, <2>1 DEF CoderProposes, EndInv, Orphans
  <2>2. CASE CoderFails(c)
    BY <1>1, <1>2, <1>3, <2>2 DEF CoderFails, Block, Reject, EndInv, Orphans
  <2> QED BY <1>1, <2>1, <2>2
<1> QED BY <1>4, <1>5 DEF EndInv

LEMMA FinalizeKeepsEnd ==
  ASSUME EndInv, Finalize
  PROVE  EndInv'
<1>1. /\ pc = "finalize" /\ pc' = "done" /\ acceptance = "none"
      /\ UNCHANGED <<fly, verify, applied, gateFailed, blocked>>
  BY DEF Finalize, EndInv
<1>2. VerifyType'
  BY <1>1 DEF EndInv, VerifyType
<1>3. CASE blocked = "none" /\ result = "none"
  <2>1. result' = "none" /\ acceptance' = "none"
    BY <1>1, <1>3 DEF Finalize
  <2> QED BY <1>1, <1>2, <2>1 DEF EndInv, Orphans, Behind, AcceptedIsVerified
<1>4. CASE ~(blocked = "none" /\ result = "none")
  <2>1. PICK r \in Lowered(IF blocked = "none" THEN result ELSE "aborted") :
           /\ result' = IF gateFailed THEN "failed" ELSE r
           /\ acceptance' \in Accept(result')
    BY <1>4 DEF Finalize
  <2>2. result' = "completed" => ~gateFailed /\ blocked = "none" /\ result = "completed"
    BY <2>1 DEF Lowered
  <2>3. result' = "completed" => applied # "none" /\ verify.runs # {}
    BY <1>1, <2>2 DEF EndInv, Behind
  <2>4. acceptance' = "accepted" => result' = "completed" /\ "fail" \notin verify.runs
    BY <2>1 DEF Accept
  <2>5. fly # {} => blocked # "none"
    BY <1>1 DEF EndInv, Orphans
  <2> QED BY <1>1, <1>2, <2>2, <2>3, <2>4, <2>5 DEF EndInv, Orphans, Behind, AcceptedIsVerified
<1> QED BY <1>3, <1>4

LEMMA EndInvInit == Init => EndInv
<1> SUFFICES ASSUME Init PROVE EndInv
  OBVIOUS
<1>1. VerifyType
  <2>1. {} \in SUBSET Signatures /\ {} \in SUBSET (Signatures \union {"none"})
        /\ {} \in SUBSET {"pass", "fail", "skip"} /\ "none" \in Signatures \union {"none"}
        /\ 0 \in Nat
    OBVIOUS
  <2> QED BY <2>1 DEF Init, VerifyType, VerifyStates
<1>2. /\ fly = {} /\ acceptance = "none" /\ result = "none"
  BY DEF Init
<1> QED BY <1>1, <1>2 DEF EndInv, Orphans, Behind, AcceptedIsVerified

LEMMA EndInvStep == EndInv /\ GraphInv /\ [Next]_vars => EndInv'
<1> SUFFICES ASSUME EndInv, GraphInv, [Next]_vars PROVE EndInv'
  OBVIOUS
<1>1. CASE UNCHANGED vars
  BY <1>1 DEF vars, EndInv, VerifyType, Orphans, Behind, Stopped, AcceptedIsVerified
<1>2. CASE Next
  BY <1>2, VerifyIsPhase, OthersArePhases, PhaseKeepsEnd, SummaryKeepsEnd, SchedulerKeepsEnd,
     CoderKeepsEnd, FinalizeKeepsEnd
  DEF Next
<1> QED BY <1>1, <1>2

\* What acceptance.ts accepts was applied and verified, nothing failed and nothing
\* blocked the workflow, though coders of an ended run go on writing to its state.
THEOREM AcceptanceVerified == Spec => []AcceptedIsVerified
<1>1. EndInv => AcceptedIsVerified
  BY DEF EndInv
<1> QED BY <1>1, EndInvInit, EndInvStep, GraphInvariant, PTL DEF Spec

(***************************************************************************)
(* How the two graphs keep step with each other.  A task is pending until   *)
(* its role node ends, and ends with it; only the tasks of the roles in B,  *)
(* those at work, are marked running meanwhile.                             *)
(***************************************************************************)

InStep(gg, t) ==
  LET r == gg.role[ActionId(t)]
  IN \/ r \in {"pending", "ready"} /\ gg.task[t] = "pending"
     \/ r = "success" /\ gg.task[t] = "done"
     \/ r = "skipped" /\ gg.task[t] = "skipped"

AtWork(gg, t) == gg.role[ActionId(t)] \in Nonterminal /\ gg.task[t] = "running"

Together(kk, gg, B) ==
  \A t \in TaskNodes(kk) : InStep(gg, t) \/ (ActionId(t) \in B /\ AtWork(gg, t))

\* Planning and exploration are over.
Led(gg) == gg.role["planner"] = "success" /\ gg.role["explorer"] = "success"

Inputs(kk, gg, n) == \A t \in TaskNodes(kk) : ActionId(t) = n => InputsSettled(kk, gg.task, t)

\* The task graph follows the role graph: the inputs of a task come from the planner
\* or from the roles its own role waits for.
LEMMA DepsFollowRoles ==
  ASSUME NEW kk, NEW t \in TaskNodes(kk), ActionId(t) \notin {"planner", "explorer"},
         NEW d \in TaskDeps(kk, t)
  PROVE  /\ ActionId(d) = "planner" \/ ActionId(d) \in RoleDeps(kk, ActionId(t))
         /\ ActionId(t) \in Coders => ActionId(d) = "planner"
<1>1. \/ ActionId(t) \in Coders /\ ActionId(d) = "planner"
      \/ ActionId(t) = "reviewer" /\ ActionId(d) \in {"coder_a", "coder_b"}
      \/ ActionId(t) = "judge" /\ ActionId(d) = "reviewer"
      \/ ActionId(t) = "patch_runner" /\ ActionId(d) = "judge"
      \/ ActionId(t) = "test_runner" /\ ActionId(d) = "patch_runner"
      \/ ActionId(t) = "summarizer" /\ ActionId(d) = "test_runner"
  <2>1. t \notin {"inspect_context", "design_patch", "risk_map"}
    BY ActionTable
  <2>2. CASE t \in {"produce_patch", "produce_patch_alt"}
    <3>1. t \in PatchTasks(kk)
      BY <2>2, TaskTable DEF PatchTasks
    <3>2. t # ReviewTask(kk)
      BY <2>2 DEF ReviewTask
    <3>3. TaskDeps(kk, t) = {"design_patch"} \union IF kk.highRisk THEN {"risk_map"} ELSE {}
      BY <2>2, <3>1, <3>2 DEF TaskDeps
    <3>4. d = "design_patch" \/ d = "risk_map"
      BY <3>3
    <3> QED BY <2>2, <3>4, ActionTable DEF Coders
  <2>3. CASE t \in {"security_review", "review_patch"}
    <3>1. t = ReviewTask(kk) /\ t \notin PatchTasks(kk)
      <4>1. t # "produce_patch" /\ t # "produce_patch_alt"
        BY <2>3
      <4>2. t \notin PatchTasks(kk)
        BY <4>1 DEF PatchTasks
      <4>3. \/ t = "security_review" /\ kk.highRisk
            \/ t = "review_patch" /\ ~kk.highRisk
        BY <2>3, TaskTable
      <4>4. t = ReviewTask(kk)
        BY <4>3 DEF ReviewTask
      <4> QED BY <4>2, <4>4
    <3>2. d \in PatchTasks(kk)
      BY <2>3, <3>1 DEF TaskDeps
    <3>3. d \in {"produce_patch", "produce_patch_alt"}
      BY <3>2 DEF PatchTasks
    <3> QED BY <2>3, <3>3, ActionTable
  <2>4. ASSUME t \in {"judge_patch", "apply_patch", "verify_patch", "summarize"}
        PROVE  t \notin PatchTasks(kk) /\ t # ReviewTask(kk)
    BY <2>4 DEF PatchTasks, ReviewTask
  <2>5. CASE t = "judge_patch"
    <3>1. d = ReviewTask(kk)
      BY <2>4, <2>5 DEF TaskDeps
    <3>2. d \in {"security_review", "review_patch"}
      BY <3>1 DEF ReviewTask
    <3> QED BY <2>5, <3>2, ActionTable
  <2>6. CASE t = "apply_patch"
    <3>1. d = "judge_patch"
      BY <2>4, <2>6 DEF TaskDeps
    <3> QED BY <2>6, <3>1, ActionTable
  <2>7. CASE t = "verify_patch"
    <3>1. d = "apply_patch"
      BY <2>4, <2>7 DEF TaskDeps
    <3> QED BY <2>7, <3>1, ActionTable
  <2>8. CASE t = "summarize"
    <3>1. d = "verify_patch"
      BY <2>4, <2>8 DEF TaskDeps
    <3> QED BY <2>8, <3>1, ActionTable
  <2> QED BY <2>1, <2>2, <2>3, <2>5, <2>6, <2>7, <2>8, TaskTable
<1>2. ActionId(d) \in RoleNodes(kk)
  BY DepsAreTasks, ActionIsRole
<1>3. CASE ActionId(t) \in Coders
  BY <1>1, <1>3 DEF Coders
<1>4. CASE ActionId(t) = "reviewer" /\ ActionId(d) \in {"coder_a", "coder_b"}
  BY <1>2, <1>4 DEF RoleDeps, Coders
<1>5. CASE ActionId(t) = "judge" /\ ActionId(d) = "reviewer"
  BY <1>2, <1>5 DEF RoleDeps, Coders
<1>6. CASE ActionId(t) = "patch_runner" /\ ActionId(d) = "judge"
  BY <1>2, <1>6 DEF RoleDeps, Coders
<1>7. CASE ActionId(t) = "test_runner" /\ ActionId(d) = "patch_runner"
  BY <1>2, <1>7 DEF RoleDeps, Coders
<1>8. CASE ActionId(t) = "summarizer" /\ ActionId(d) = "test_runner"
  BY <1>2, <1>8 DEF RoleDeps, Coders
<1> QED BY <1>1, <1>3, <1>4, <1>5, <1>6, <1>7, <1>8

\* Every role but the planner has one task.
LEMMA OneTask ==
  ASSUME NEW kk, NEW n \in RoleNodes(kk), n # "planner"
  PROVE  \E t \in TaskNodes(kk) :
            ActionId(t) = n /\ \A u \in TaskNodes(kk) : ActionId(u) = n => u = t
<1> DEFINE Only(t) == /\ t \in TaskNodes(kk) /\ ActionId(t) = n
                      /\ \A u \in TaskNodes(kk) : ActionId(u) = n => u = t
<1> SUFFICES \E t : Only(t)
  OBVIOUS
<1>1. \A t \in TaskNodes(kk) :
        t \in {"inspect_context", "design_patch", "produce_patch", "judge_patch", "apply_patch",
              "verify_patch", "summarize", "produce_patch_alt", "security_review",
              "review_patch", "risk_map"}
  BY TaskTable
<1>2. CASE n = "explorer"
  <2>1. "inspect_context" \in TaskNodes(kk)
    BY TaskTable
  <2>2. ActionId("inspect_context") = n /\ \A u \in TaskNodes(kk) : ActionId(u) = n => u = "inspect_context"
    BY <1>1, <1>2, ActionTable
  <2> QED BY <2>1, <2>2
<1>3. CASE n = "coder_a"
  <2>1. "produce_patch" \in TaskNodes(kk)
    BY TaskTable
  <2>2. ActionId("produce_patch") = n /\ \A u \in TaskNodes(kk) : ActionId(u) = n => u = "produce_patch"
    BY <1>1, <1>3, ActionTable
  <2> QED BY <2>1, <2>2
<1>4. CASE n = "coder_b"
  <2>1. "produce_patch_alt" \in TaskNodes(kk)
    BY <1>4, TaskTable DEF RoleNodes
  <2>2. ActionId("produce_patch_alt") = n /\ \A u \in TaskNodes(kk) : ActionId(u) = n => u = "produce_patch_alt"
    BY <1>1, <1>4, ActionTable
  <2> QED BY <2>1, <2>2
<1>5. CASE n = "reviewer"
  <2>1. \A u \in TaskNodes(kk) : u \in {"security_review", "review_patch"} => u = ReviewTask(kk)
    BY TaskTable DEF ReviewTask
  <2>2. ReviewTask(kk) \in TaskNodes(kk) /\ ActionId(ReviewTask(kk)) = "reviewer"
    BY TaskTable, ActionTable DEF ReviewTask
  <2>3. \A u \in TaskNodes(kk) : ActionId(u) = "reviewer" => u \in {"security_review", "review_patch"}
    BY <1>1, ActionTable
  <2> QED BY <1>5, <2>1, <2>2, <2>3
<1>6. CASE n = "judge"
  <2>1. "judge_patch" \in TaskNodes(kk)
    BY TaskTable
  <2>2. ActionId("judge_patch") = n /\ \A u \in TaskNodes(kk) : ActionId(u) = n => u = "judge_patch"
    BY <1>1, <1>6, ActionTable
  <2> QED BY <2>1, <2>2
<1>7. CASE n = "patch_runner"
  <2>1. "apply_patch" \in TaskNodes(kk)
    BY TaskTable
  <2>2. ActionId("apply_patch") = n /\ \A u \in TaskNodes(kk) : ActionId(u) = n => u = "apply_patch"
    BY <1>1, <1>7, ActionTable
  <2> QED BY <2>1, <2>2
<1>8. CASE n = "test_runner"
  <2>1. "verify_patch" \in TaskNodes(kk)
    BY TaskTable
  <2>2. ActionId("verify_patch") = n /\ \A u \in TaskNodes(kk) : ActionId(u) = n => u = "verify_patch"
    BY <1>1, <1>8, ActionTable
  <2> QED BY <2>1, <2>2
<1>9. CASE n = "summarizer"
  <2>1. "summarize" \in TaskNodes(kk)
    BY TaskTable
  <2>2. ActionId("summarize") = n /\ \A u \in TaskNodes(kk) : ActionId(u) = n => u = "summarize"
    BY <1>1, <1>9, ActionTable
  <2> QED BY <2>1, <2>2
<1>10. n \in {"explorer", "coder_a", "coder_b", "reviewer", "judge", "patch_runner",
               "test_runner", "summarizer"}
  BY DEF RoleNodes
<1> QED BY <1>2, <1>3, <1>4, <1>5, <1>6, <1>7, <1>8, <1>9, <1>10

\* While the graphs keep step, a role that may start finds the inputs of its task.
LEMMA ReadyInputs ==
  ASSUME NEW kk, NEW gg, NEW B, Together(kk, gg, B), Led(gg),
         NEW n \in RoleNodes(kk), gg.role[n] \in Nonterminal,
         n \in ReadyRoles(kk, gg.role) \/ n \in Coders
  PROVE  Inputs(kk, gg, n)
<1> SUFFICES ASSUME NEW t \in TaskNodes(kk), ActionId(t) = n, NEW d \in TaskDeps(kk, t)
             PROVE  gg.task[d] \in Settled
  BY DEF Inputs, InputsSettled
<1>1. d \in TaskNodes(kk)
  BY DepsAreTasks
<1>2. n \notin {"planner", "explorer"}
  BY DEF Led, Nonterminal
<1>3. \/ ActionId(d) = "planner"
      \/ ActionId(d) \in RoleDeps(kk, n) /\ n \in ReadyRoles(kk, gg.role)
  BY <1>2, DepsFollowRoles
<1>4. gg.role[ActionId(d)] \in {"success", "skipped"} => gg.task[d] \in Settled
  BY <1>1 DEF Together, InStep, AtWork, Nonterminal, Settled
<1>5. gg.role[ActionId(d)] \notin {"failed", "blocked"}
  BY <1>1 DEF Together, InStep, AtWork, Nonterminal
<1>6. CASE ActionId(d) = "planner"
  BY <1>4, <1>6 DEF Led
<1>7. CASE ActionId(d) \in RoleDeps(kk, n) /\ n \in ReadyRoles(kk, gg.role)
  BY <1>4, <1>5, <1>7 DEF ReadyRoles
<1> QED BY <1>3, <1>6, <1>7

\* A step from gg to hh ends node n with this status, and leaves the others in step.
EndsWell(kk, gg, hh, B, n, status) ==
  /\ Together(kk, hh, B \ {n}) /\ Led(hh)
  /\ hh.role[n] = status
  /\ \A m \in RoleNodes(kk) :
        /\ gg.role[m] \in Ended => hh.role[m] = gg.role[m]
        /\ m # n /\ gg.role[m] = "running" => hh.role[m] = "running"
        /\ m # n /\ gg.role[m] \in Nonterminal => hh.role[m] \in Nonterminal

\* A node that ends well takes its task with it and leaves the others in step.
LEMMA FinishTogether ==
  ASSUME NEW kk, NEW gg \in Graphs(kk), NEW B, Together(kk, gg, B), Led(gg),
         NEW n \in RoleNodes(kk), gg.role[n] = "running" \/ n \in ReadyRoles(kk, gg.role),
         Inputs(kk, gg, n), NEW status \in {"success", "skipped"}
  PROVE  EndsWell(kk, gg, FinishNode(kk, gg, n, status), B, n, status)
<1> DEFINE hh == FinishNode(kk, gg, n, status)
           e == [gg.role EXCEPT ![n] = status]
           r == Promote(kk, e)
           u == UpdateTasks(kk, gg.task, n, status)
           f == Flush(kk, r, u)
<1>0. gg.role \in RoleStates(kk) /\ gg.task \in TaskStates(kk) /\ gg.role[n] \in Nonterminal
  BY DEF Graphs, ReadyRoles, Nonterminal
<1>1. hh = [role |-> r, task |-> f, stop |-> StopReason(kk, r)]
  BY DEF FinishNode
<1>2. e \in RoleStates(kk) /\ e[n] = status /\ \A m \in RoleNodes(kk) \ {n} : e[m] = gg.role[m]
  BY <1>0 DEF RoleStates, RoleStatuses, Ended
<1> HIDE DEF e
<1>3. /\ r \in RoleStates(kk)
      /\ \A m \in RoleNodes(kk) :
            r[m] = e[m] \/ (e[m] \in {"pending", "ready"} /\ r[m] = "ready")
  BY <1>2, PromoteSpec
<1> HIDE DEF r
<1>4. u \in TaskStates(kk)
  BY <1>0, UpdateTasksSpec DEF Ended
<1>5. \A t \in TaskNodes(kk) :
         u[t] = IF ActionId(t) = n THEN TaskStatus(status) ELSE gg.task[t]
  <2>1. \A t \in TaskNodes(kk) : ActionId(t) = n => Takes(kk, gg.task, t, status)
    BY DEF Inputs, Takes
  <2> QED BY <1>0, <2>1 DEF UpdateTasks, TaskStates
<1>6. TaskStatus(status) \in Settled /\ TaskStatus(status) # "pending"
      /\ TaskStatus(status) = IF status = "success" THEN "done" ELSE "skipped"
  BY DEF TaskStatus, Settled
<1> HIDE DEF u
<1>7. \A t \in TaskNodes(kk) : f[t] = u[t]
  <2> SUFFICES ASSUME NEW t \in TaskNodes(kk), u[t] = "pending",
                      r[ActionId(t)] \in {"success", "skipped"}
               PROVE  FALSE
    BY <1>3, <1>4, FlushSpec
  <2>1. ActionId(t) # n /\ gg.task[t] = "pending" /\ ActionId(t) \in RoleNodes(kk)
    BY <1>5, <1>6, ActionIsRole
  <2>2. gg.role[ActionId(t)] \in {"pending", "ready"}
    BY <2>1 DEF Together, InStep, AtWork
  <2> QED BY <1>2, <1>3, <2>1, <2>2
<1> HIDE DEF f
<1>8. hh.role = r /\ hh.task = f
  BY <1>1
<1> HIDE DEF hh
<1>9. hh.role[n] = status
  BY <1>2, <1>3, <1>8
<1>10. \A m \in RoleNodes(kk) :
          /\ gg.role[m] \in Ended => hh.role[m] = gg.role[m]
          /\ m # n /\ gg.role[m] = "running" => hh.role[m] = "running"
          /\ m # n /\ gg.role[m] \in Nonterminal => hh.role[m] \in Nonterminal
  BY <1>0, <1>2, <1>3, <1>8 DEF Nonterminal, Ended
<1>11. Led(hh)
  BY <1>10 DEF Led, RoleNodes, Ended
<1>12. Together(kk, hh, B \ {n})
  <2> SUFFICES ASSUME NEW t \in TaskNodes(kk)
               PROVE  InStep(hh, t) \/ (ActionId(t) \in B \ {n} /\ AtWork(hh, t))
    BY DEF Together
  <2>1. CASE ActionId(t) = n
    BY <1>5, <1>6, <1>7, <1>8, <1>9, <2>1 DEF InStep
  <2>2. CASE ActionId(t) # n
    <3>1. hh.task[t] = gg.task[t] /\ ActionId(t) \in RoleNodes(kk)
      BY <1>5, <1>7, <1>8, <2>2, ActionIsRole
    <3>2. CASE InStep(gg, t)
      <4>1. gg.role[ActionId(t)] \in {"pending", "ready"} =>
               hh.role[ActionId(t)] \in {"pending", "ready"}
        BY <1>2, <1>3, <1>8, <2>2, <3>1
      <4> QED BY <1>10, <3>1, <3>2, <4>1 DEF InStep, Ended
    <3>3. CASE ActionId(t) \in B /\ AtWork(gg, t)
      BY <1>10, <2>2, <3>1, <3>3 DEF AtWork
    <3> QED BY <3>2, <3>3 DEF Together
  <2> QED BY <2>1, <2>2
<1>13. EndsWell(kk, gg, hh, B, n, status)
  BY <1>9, <1>10, <1>11, <1>12 DEF EndsWell
<1> QED BY <1>13 DEF hh

\* Starting a role that may start marks its task and leaves the others in step.
LEMMA BeginTogether ==
  ASSUME NEW kk, NEW gg \in Graphs(kk), NEW B, Together(kk, gg, B), Led(gg),
         NEW role, NEW n \in B, n = NodeFor(kk, gg.role, role), n \in ReadyRoles(kk, gg.role)
  PROVE  LET hh == Begin(kk, gg, role)
         IN /\ hh \in Graphs(kk) /\ Together(kk, hh, B) /\ Led(hh)
            /\ hh.role[n] = "running"
            /\ \A m \in RoleNodes(kk) \ {n} : hh.role[m] = gg.role[m]
            /\ \A m \in RoleNodes(kk) : Inputs(kk, gg, m) => Inputs(kk, hh, m)
            /\ NodeFor(kk, hh.role, role) = n
<1> DEFINE hh == Begin(kk, gg, role)
           marked == MarkTasksRunning(gg.task, {n})
<1>0. /\ gg.role \in RoleStates(kk) /\ gg.task \in TaskStates(kk)
      /\ n \in RoleNodes(kk) /\ gg.role[n] \in Nonterminal /\ n # "none"
  BY NoneIsNoRole DEF Graphs, ReadyRoles, Nonterminal
<1>1. hh = [gg EXCEPT !.role[n] = "running", !.task = marked]
  BY <1>0 DEF Begin
<1>2. marked \in TaskStates(kk)
  BY <1>0, MarkSpec
<1>3. \A t \in TaskNodes(kk) :
         marked[t] = IF ActionId(t) = n /\ gg.task[t] = "pending" THEN "running" ELSE gg.task[t]
  BY <1>0 DEF MarkTasksRunning, TaskStates
<1>4. [gg.role EXCEPT ![n] = "running"] \in RoleStates(kk)
  BY <1>0 DEF RoleStates, RoleStatuses, Nonterminal
<1> HIDE DEF marked
<1>5. hh \in Graphs(kk) /\ hh.role = [gg.role EXCEPT ![n] = "running"] /\ hh.task = marked
  BY <1>1, <1>2, <1>4 DEF Graphs
<1> HIDE DEF hh
<1>6. hh.role[n] = "running" /\ \A m \in RoleNodes(kk) \ {n} : hh.role[m] = gg.role[m]
  BY <1>0, <1>5 DEF RoleStates
<1>7. n \notin {"planner", "explorer"}
  BY <1>0 DEF Led, Nonterminal
<1>8. Led(hh)
  BY <1>6, <1>7 DEF Led, RoleNodes
<1>9. Together(kk, hh, B)
  <2> SUFFICES ASSUME NEW t \in TaskNodes(kk)
               PROVE  InStep(hh, t) \/ (ActionId(t) \in B /\ AtWork(hh, t))
    BY DEF Together
  <2>1. CASE ActionId(t) = n
    <3>1. gg.task[t] \in {"pending", "running"}
      BY <1>0, <2>1 DEF Together, InStep, AtWork, Nonterminal
    <3> QED BY <1>3, <1>5, <1>6, <2>1, <3>1 DEF AtWork, Nonterminal
  <2>2. CASE ActionId(t) # n
    BY <1>3, <1>5, <1>6, <2>2, ActionIsRole DEF Together, InStep, AtWork
  <2> QED BY <2>1, <2>2
<1>10. \A m \in RoleNodes(kk) : Inputs(kk, gg, m) => Inputs(kk, hh, m)
  BY <1>3, <1>5, DepsAreTasks DEF Inputs, InputsSettled, Settled
<1>11. NodeFor(kk, hh.role, role) = n
  BY <1>0, <1>6 DEF NodeFor, Nonterminal
<1> QED BY <1>5, <1>6, <1>8, <1>9, <1>10, <1>11 DEF hh

\* A whole run of a role that may start, recorded as a success or as skipped.
LEMMA RunTogether ==
  ASSUME g \in Graphs(k), NEW B, Together(k, g, B), Led(g),
         NEW role, NEW n \in B, n = NodeFor(k, g.role, role), n \in ReadyRoles(k, g.role),
         NEW status \in {"success", "skipped"}
  PROVE  EndsWell(k, g, RunRole(role, status), B, n, status)
<1> DEFINE bb == Begin(k, g, role)
           hh == FinishNode(k, bb, n, status)
<1>1. /\ bb \in Graphs(k) /\ Together(k, bb, B) /\ Led(bb)
      /\ bb.role[n] = "running"
      /\ \A m \in RoleNodes(k) \ {n} : bb.role[m] = g.role[m]
      /\ \A m \in RoleNodes(k) : Inputs(k, g, m) => Inputs(k, bb, m)
      /\ NodeFor(k, bb.role, role) = n
  BY BeginTogether
<1>2. n \in RoleNodes(k) /\ g.role[n] \in Nonterminal /\ g.role[n] \notin Ended
  BY DEF ReadyRoles, Nonterminal, Ended
<1>3. Inputs(k, bb, n)
  BY <1>1, <1>2, ReadyInputs
<1>4. RunRole(role, status) = hh
  BY <1>1 DEF RunRole, FinishRole
<1> HIDE DEF bb
<1>5. EndsWell(k, bb, hh, B, n, status)
  BY <1>1, <1>2, <1>3, FinishTogether
<1> HIDE DEF hh
<1>6. EndsWell(k, g, hh, B, n, status)
  BY <1>1, <1>2, <1>5 DEF EndsWell
<1> QED BY <1>4, <1>6

\* An approval that is missing is recorded as if the runner had been skipped.
LEMMA AwaitIsSkip ==
  ASSUME g \in Graphs(k), NEW B, Together(k, g, B), Led(g),
         NEW n \in B, n = NodeFor(k, g.role, "runner"), n \in ReadyRoles(k, g.role)
  PROVE  AwaitApproval(n) = RunRole("runner", "skipped")
<1>1. NodeFor(k, Begin(k, g, "runner").role, "runner") = n
  BY BeginTogether
<1> QED BY <1>1 DEF AwaitApproval, RunRole, FinishRole

\* A required node that fails or is blocked stops the scheduler.
LEMMA FinishStops ==
  ASSUME NEW kk, NEW gg \in Graphs(kk), NEW n \in RoleNodes(kk), Required(kk, n),
         NEW status \in {"failed", "blocked"}
  PROVE  FinishNode(kk, gg, n, status).stop = "required node ended"
<1> DEFINE e == [gg.role EXCEPT ![n] = status]
<1>1. FinishNode(kk, gg, n, status).stop = StopReason(kk, Promote(kk, e))
  BY DEF FinishNode
<1>2. e \in RoleStates(kk) /\ e[n] = status
  BY DEF RoleStates, RoleStatuses, Ended, Graphs
<1> HIDE DEF e
<1>3. Promote(kk, e)[n] = status
  BY <1>2, PromoteSpec
<1>4. StopReason(kk, Promote(kk, e)) = "required node ended"
  BY <1>3 DEF StopReason
<1> QED BY <1>1, <1>4

LEMMA RunStops ==
  ASSUME g \in Graphs(k), NEW B, Together(k, g, B), Led(g),
         NEW role, NEW n \in B, n = NodeFor(k, g.role, role), n \in ReadyRoles(k, g.role),
         Required(k, n), NEW status \in {"failed", "blocked"}
  PROVE  RunRole(role, status).stop = "required node ended"
<1>1. Begin(k, g, role) \in Graphs(k) /\ NodeFor(k, Begin(k, g, role).role, role) = n
  BY BeginTogether
<1>2. n \in RoleNodes(k)
  BY DEF ReadyRoles
<1> QED BY <1>1, <1>2, FinishStops DEF RunRole, FinishRole

(***************************************************************************)
(* Before the loop: nothing is done until the explorer has ended, its end   *)
(* completes the tasks of the planner too.                                  *)
(***************************************************************************)

Open(n, gg) == gg.role[n] \in {"pending", "ready"}

\* The roles in N have succeeded, the others are open, and no task has begun.
Fresh(kk, gg, N) ==
  /\ gg \in Graphs(kk)
  /\ \A t \in TaskNodes(kk) : gg.task[t] = "pending"
  /\ \A n \in RoleNodes(kk) : IF n \in N THEN gg.role[n] = "success" ELSE Open(n, gg)

LEMMA PlannerTasks ==
  ASSUME NEW kk, NEW t \in TaskNodes(kk)
  PROVE  /\ ActionId(t) = "planner" => t \in {"design_patch", "risk_map"}
         /\ ActionId(t) = "explorer" => t = "inspect_context"
         /\ t \in {"design_patch", "risk_map"} => TaskDeps(kk, t) = {"inspect_context"}
         /\ t \in {"design_patch", "risk_map"} => Unattended(t) /\ OwnerRole(t) = "planner"
BY DEF TaskNodes, PatchTasks, ReviewTask, TaskDeps, ActionId, Kind, Unattended, OwnerRole, RoleOf

LEMMA InspectTask ==
  ASSUME NEW kk
  PROVE  /\ "inspect_context" \in TaskNodes(kk) /\ ActionId("inspect_context") = "explorer"
         /\ TaskDeps(kk, "inspect_context") = {}
BY DEF TaskNodes, PatchTasks, ReviewTask, TaskDeps, ActionId, Kind

LEMMA FreshStart ==
  ASSUME NEW kk
  PROVE  Fresh(kk, NewGraphs(kk), {})
<1> DEFINE r == [n \in RoleNodes(kk) |-> "pending"]
<1>1. r \in RoleStates(kk) /\ \A n \in RoleNodes(kk) : r[n] = "pending"
  BY DEF RoleStates, RoleStatuses, Nonterminal
<1>2. NewGraphs(kk).role = Promote(kk, r) /\ NewGraphs(kk) \in Graphs(kk)
  BY NewGraphsSound DEF NewGraphs, Sound
<1>3. \A t \in TaskNodes(kk) : NewGraphs(kk).task[t] = "pending"
  BY DEF NewGraphs
<1> HIDE DEF r
<1>4. \A n \in RoleNodes(kk) : Promote(kk, r)[n] \in {"pending", "ready"}
  BY <1>1, PromoteSpec
<1> QED BY <1>2, <1>3, <1>4 DEF Fresh, Open

LEMMA PlanFresh ==
  ASSUME NEW kk, NEW gg, Fresh(kk, gg, {})
  PROVE  Fresh(kk, FinishRole(kk, gg, "planner", "success"), {"planner"})
<1> DEFINE e == [gg.role EXCEPT !["planner"] = "success"]
           r == Promote(kk, e)
           u == UpdateTasks(kk, gg.task, "planner", "success")
           f == Flush(kk, r, u)
           hh == FinishNode(kk, gg, "planner", "success")
<1>0. /\ gg.role \in RoleStates(kk) /\ gg.task \in TaskStates(kk)
      /\ "planner" \in RoleNodes(kk) /\ gg.role["planner"] \in {"pending", "ready"}
      /\ "explorer" \in RoleNodes(kk)
  BY DEF Fresh, Open, Graphs, RoleNodes
<1>1. NodeFor(kk, gg.role, "planner") = "planner"
  BY <1>0 DEF NodeFor, Nonterminal
<1>2. "planner" \in ReadyRoles(kk, gg.role)
  BY <1>0 DEF ReadyRoles, RoleDeps
<1>3. hh = [role |-> r, task |-> f, stop |-> StopReason(kk, r)]
  BY <1>0, <1>2 DEF FinishNode
<1>4. /\ e \in RoleStates(kk) /\ e["planner"] = "success"
      /\ \A m \in RoleNodes(kk) \ {"planner"} : e[m] \in {"pending", "ready"}
  BY <1>0 DEF RoleStates, RoleStatuses, Ended, Fresh, Open
<1> HIDE DEF e
<1>5. /\ r \in RoleStates(kk) /\ r["planner"] = "success"
      /\ \A m \in RoleNodes(kk) \ {"planner"} : r[m] \in {"pending", "ready"}
  BY <1>0, <1>4, PromoteSpec
<1> HIDE DEF r
<1>6. \A t \in TaskNodes(kk) : u[t] = "pending"
  <2>1. \A t \in TaskNodes(kk) : ActionId(t) = "planner" => ~InputsSettled(kk, gg.task, t)
    BY PlannerTasks, InspectTask DEF InputsSettled, Settled, Fresh
  <2> QED BY <1>0, <2>1 DEF UpdateTasks, Takes, TaskStates, Fresh
<1>7. u \in TaskStates(kk)
  BY <1>0, UpdateTasksSpec DEF Ended
<1> HIDE DEF u
<1>8. /\ f \in TaskStates(kk)
      /\ \A t \in TaskNodes(kk) :
            \/ f[t] = u[t]
            \/ r[ActionId(t)] \in {"success", "skipped"} /\ InputsSettled(kk, f, t)
  BY <1>5, <1>7, FlushSpec
<1> HIDE DEF f
<1>9. f["inspect_context"] = "pending"
  BY <1>0, <1>5, <1>6, <1>8, InspectTask
<1>10. \A t \in TaskNodes(kk) : f[t] = "pending"
  <2> SUFFICES ASSUME NEW t \in TaskNodes(kk), r[ActionId(t)] \in {"success", "skipped"},
                      InputsSettled(kk, f, t)
               PROVE  FALSE
    BY <1>6, <1>8
  <2>1. ActionId(t) = "planner"
    BY <1>5, ActionIsRole
  <2>2. "inspect_context" \in TaskDeps(kk, t)
    BY <2>1, PlannerTasks
  <2> QED BY <1>9, <2>2 DEF InputsSettled, Settled
<1>11. hh \in Graphs(kk) /\ hh.role = r /\ hh.task = f
  BY <1>3, <1>5, <1>8, StopReasonType DEF Graphs
<1> HIDE DEF hh
<1>12. Fresh(kk, hh, {"planner"})
  BY <1>5, <1>10, <1>11 DEF Fresh, Open
<1> QED BY <1>1, <1>12 DEF FinishRole, hh

\* An open task nobody dispatches is completed when its owner and its inputs are done.
LEMMA FlushCompletes ==
  ASSUME NEW kk, NEW r \in RoleStates(kk), NEW s \in TaskStates(kk), NEW t \in TaskNodes(kk),
         s[t] = "pending", Unattended(t), InputsSettled(kk, s, t),
         NEW n \in RoleNodes(kk), RoleOf(n) = OwnerRole(t), r[n] = "success"
  PROVE  Flush(kk, r, s)[t] = "done"
<1> DEFINE open == {x \in TaskNodes(kk) :
                      /\ s[x] = "pending"
                      /\ Unattended(x)
                      /\ \E m \in RoleNodes(kk) :
                            RoleOf(m) = OwnerRole(x) /\ r[m] \in {"success", "skipped"}}
           closed(D) == \A x \in D : \A d \in TaskDeps(kk, x) : s[d] \in Settled \/ d \in D
           completed == UNION {D \in SUBSET open : closed(D)}
<1>1. Flush(kk, r, s) = [x \in TaskNodes(kk) |-> IF x \in completed THEN "done" ELSE s[x]]
  BY Zenon DEF Flush, TaskStates
<1>2. {t} \in SUBSET open /\ closed({t})
  BY DEF InputsSettled
<1>3. t \in completed
  BY <1>2
<1> HIDE DEF completed
<1> QED BY <1>1, <1>3

LEMMA ExploreTogether ==
  ASSUME Fresh(k, g, {"planner"})
  PROVE  LET hh == RunRole("explorer", "success") IN Together(k, hh, {}) /\ Led(hh)
<1> DEFINE bb == Begin(k, g, "explorer")
           e == [bb.role EXCEPT !["explorer"] = "success"]
           r == Promote(k, e)
           u == UpdateTasks(k, bb.task, "explorer", "success")
           f == Flush(k, r, u)
           hh == FinishNode(k, bb, "explorer", "success")
<1>0. /\ g \in Graphs(k) /\ g.role \in RoleStates(k) /\ g.task \in TaskStates(k)
      /\ "planner" \in RoleNodes(k) /\ g.role["planner"] = "success"
      /\ "explorer" \in RoleNodes(k) /\ g.role["explorer"] \in {"pending", "ready"}
  BY DEF Fresh, Open, Graphs, RoleNodes
<1>1. NodeFor(k, g.role, "explorer") = "explorer" /\ "explorer" \in ReadyRoles(k, g.role)
  BY <1>0 DEF NodeFor, Nonterminal, ReadyRoles, RoleDeps
<1>2. bb = [g EXCEPT !.role["explorer"] = "running", !.task = MarkTasksRunning(g.task, {"explorer"})]
  BY <1>1 DEF Begin
<1>3. MarkTasksRunning(g.task, {"explorer"}) \in TaskStates(k)
  BY <1>0, MarkSpec
<1>4. [g.role EXCEPT !["explorer"] = "running"] \in RoleStates(k)
  BY <1>0 DEF RoleStates, RoleStatuses, Nonterminal
<1>5. /\ bb \in Graphs(k)
      /\ bb.role = [g.role EXCEPT !["explorer"] = "running"]
      /\ bb.task = MarkTasksRunning(g.task, {"explorer"})
  BY <1>0, <1>2, <1>3, <1>4 DEF Graphs
<1>6. \A t \in TaskNodes(k) : ActionId(t) # "explorer" => bb.task[t] = "pending"
  BY <1>0, <1>5 DEF MarkTasksRunning, TaskStates, Fresh
<1> HIDE DEF bb
<1>7. NodeFor(k, bb.role, "explorer") = "explorer"
  BY <1>0, <1>5 DEF NodeFor, Nonterminal, RoleStates
<1>8. bb.role["explorer"] = "running"
  BY <1>0, <1>5 DEF RoleStates
<1>9. hh = [role |-> r, task |-> f, stop |-> StopReason(k, r)]
  BY <1>0, <1>8 DEF FinishNode
<1>10. /\ e \in RoleStates(k) /\ e["explorer"] = "success" /\ e["planner"] = "success"
       /\ \A m \in RoleNodes(k) \ {"planner", "explorer"} : e[m] \in {"pending", "ready"}
  BY <1>0, <1>5 DEF RoleStates, RoleStatuses, Ended, Fresh, Open
<1> HIDE DEF e
<1>11. /\ r \in RoleStates(k) /\ r["explorer"] = "success" /\ r["planner"] = "success"
       /\ \A m \in RoleNodes(k) \ {"planner", "explorer"} : r[m] \in {"pending", "ready"}
  BY <1>0, <1>10, PromoteSpec
<1> HIDE DEF r
<1>12. u \in TaskStates(k)
  BY <1>5, UpdateTasksSpec DEF Ended, Graphs
<1>13. /\ u["inspect_context"] = "done"
       /\ \A t \in TaskNodes(k) : ActionId(t) # "explorer" => u[t] = "pending"
  <2>1. Takes(k, bb.task, "inspect_context", "success")
    BY InspectTask DEF Takes, InputsSettled
  <2>2. bb.task \in TaskStates(k)
    BY <1>5 DEF Graphs
  <2> QED BY <1>6, <2>1, <2>2, InspectTask DEF UpdateTasks, TaskStatus, TaskStates
<1> HIDE DEF u
<1>14. f \in TaskStates(k) /\ \A t \in TaskNodes(k) :
          \/ f[t] = u[t]
          \/ u[t] = "pending" /\ r[ActionId(t)] \in {"success", "skipped"}
  BY <1>11, <1>12, FlushSpec
<1>15. ASSUME NEW t \in TaskNodes(k), ActionId(t) = "planner"
       PROVE  f[t] = "done"
  <2>1. u[t] = "pending" /\ Unattended(t) /\ OwnerRole(t) = "planner"
    BY <1>13, <1>15, PlannerTasks
  <2>2. InputsSettled(k, u, t)
    BY <1>13, <1>15, PlannerTasks DEF InputsSettled, Settled
  <2>3. RoleOf("planner") = "planner"
    BY DEF RoleOf
  <2> QED BY <1>0, <1>11, <1>12, <2>1, <2>2, <2>3, FlushCompletes
<1> HIDE DEF f
<1>16. hh.role = r /\ hh.task = f
  BY <1>9
<1> HIDE DEF hh
<1>17. Led(hh)
  BY <1>11, <1>16 DEF Led
<1>18. Together(k, hh, {})
  <2> SUFFICES ASSUME NEW t \in TaskNodes(k) PROVE InStep(hh, t)
    BY DEF Together
  <2>1. CASE ActionId(t) = "planner"
    BY <1>11, <1>15, <1>16, <2>1 DEF InStep
  <2>2. CASE ActionId(t) = "explorer"
    <3>1. t = "inspect_context"
      BY <2>2, PlannerTasks
    <3> QED BY <1>11, <1>13, <1>14, <1>16, <2>2, <3>1 DEF InStep
  <2>3. CASE ActionId(t) \notin {"planner", "explorer"}
    <3>1. r[ActionId(t)] \in {"pending", "ready"}
      BY <1>11, <2>3, ActionIsRole
    <3>2. f[t] = "pending"
      BY <1>13, <1>14, <2>3, <3>1
    <3> QED BY <1>16, <3>1, <3>2 DEF InStep
  <2> QED BY <2>1, <2>2, <2>3
<1>19. RunRole("explorer", "success") = hh
  BY <1>7 DEF RunRole, FinishRole, bb, hh
<1> QED BY <1>17, <1>18, <1>19

(***************************************************************************)
(* Inside the loop.  As long as no limit cut a phase short, the graphs keep  *)
(* step, except for the roles at work and for coder_a of a live run whose    *)
(* model left it without a candidate.                                        *)
(***************************************************************************)

RolePcs == {"coder_a", "reviewer", "judge", "patch_runner", "test_runner", "summarizer"}

Loop == RolePcs \union {"schedule", "coders", "command", "repair", "rerun"}

Unanswered == k.live /\ ~Proposed("coder_a")

Engaged ==
  {n \in RoleNodes(k) : \/ pc = n
                        \/ pc = "coders" /\ n \in fly
                        \/ pc = "command" /\ n = "test_runner"
                        \/ n = "coder_a" /\ Unanswered}

Aligned ==
  /\ Together(k, g, Engaged) /\ Led(g)
  /\ pc \in RolePcs => pc \in ReadyRoles(k, g.role)
  /\ pc = "coder_a" => k.live
  /\ Proposed("coder_a") => g.role["coder_a"] \in Ended
  /\ pc = "coders" => \A c \in fly : c \in RoleNodes(k) /\ g.role[c] = "running"
  /\ pc \in {"command", "repair", "rerun"} => g.role["patch_runner"] \in Ended
  /\ pc = "command" => \/ g.role["test_runner"] \in Ended
                       \/ "test_runner" \in ReadyRoles(k, g.role)
  /\ pc \in {"repair", "rerun"} => g.role["test_runner"] \in Ended

InLoop == pc \in Loop /\ ~limited => (pc = "schedule" /\ Stopped) \/ Aligned

BeforeLoop ==
  /\ pc = "plan" => Fresh(k, g, {})
  /\ pc = "explore" => Fresh(k, g, {"planner"})
  /\ pc \in {"plan", "explore"} => cands = {}

Explained ==
  blocked = "scheduler" =>
    pc \in {"finalize", "done"} /\ fly = {} /\ (limited \/ Unanswered)

StepInv == InLoop /\ BeforeLoop /\ Explained

LEMMA TogetherMore ==
  ASSUME NEW kk, NEW gg, NEW B, NEW C, Together(kk, gg, B), B \cap RoleNodes(kk) \subseteq C
  PROVE  Together(kk, gg, C)
BY ActionIsRole DEF Together

\* A node that may start is the one found for its role.
LEMMA ReadyNode ==
  ASSUME NEW kk, NEW r, NEW n \in ReadyRoles(kk, r)
  PROVE  /\ NodeFor(kk, r, RoleOf(n)) = n
         /\ n = "test_runner" => r["patch_runner"] \in Ended
<1>1. n \in RoleNodes(kk) /\ r[n] \in Nonterminal
  BY DEF ReadyRoles, Nonterminal
<1>2. n = "test_runner" => r["patch_runner"] \in Ended
  <2> SUFFICES ASSUME n = "test_runner" PROVE r["patch_runner"] \in Ended
    OBVIOUS
  <2>1. "patch_runner" \in RoleDeps(kk, n)
    BY DEF RoleDeps, RoleNodes
  <2> QED BY <2>1 DEF ReadyRoles, Ended
<1>3. n # "runner"
  BY <1>1 DEF RoleNodes
<1> QED BY <1>1, <1>2, <1>3 DEF NodeFor, RoleOf, Nonterminal, Ended

\* Batches that are not started natively are one role, coder_a only of a live run.
LEMMA BatchShape ==
  ASSUME NEW run \in SUBSET RoleNodes(k), run # {}
  PROVE  LET b == Batch(run)
             native == b \subseteq Coders /\ ~(k.live /\ "coder_a" \in b)
         IN ~native => b = {First(b)} /\ First(b) # "coder_b" /\ (First(b) = "coder_a" => k.live)
<1> DEFINE b == Batch(run)
           native == b \subseteq Coders /\ ~(k.live /\ "coder_a" \in b)
<1> SUFFICES ASSUME ~native
             PROVE  b = {First(b)} /\ First(b) # "coder_b" /\ (First(b) = "coder_a" => k.live)
  OBVIOUS
<1>1. First(b) \in b
  <2>1. b \subseteq run /\ b # {}
    BY FirstIn DEF Batch, Coders
  <2> QED BY <2>1, FirstIn
<1>2. \E n : b = {n}
  BY DEF Batch, Coders
<1>3. b = {First(b)}
  BY <1>1, <1>2
<1>4. First(b) \in Coders => b \subseteq Coders /\ k.live /\ "coder_a" \in b
  BY <1>3
<1> HIDE DEF b
<1>5. First(b) \in Coders => First(b) = "coder_a" /\ k.live
  BY <1>3, <1>4
<1> QED BY <1>3, <1>5 DEF Coders, b

LEMMA DispatchAligned ==
  ASSUME GraphInv, FlyType, EndInv, Aligned, Dispatch
  PROVE  pc' \in Loop /\ Aligned'
<1> DEFINE run == Runnable(k, g)
           batch == Batch(run)
           marked == [g EXCEPT !.task = MarkTasksRunning(g.task, batch)]
           native == batch \subseteq Coders /\ ~(k.live /\ "coder_a" \in batch)
           started == [n \in DOMAIN g.role |-> IF n \in batch THEN "running" ELSE g.role[n]]
<1>0. /\ g \in Graphs(k) /\ g.role \in RoleStates(k) /\ g.task \in TaskStates(k)
      /\ pc = "schedule" /\ fly = {} /\ k' = k /\ cands' = cands
  BY DEF GraphInv, Sound, Graphs, EndInv, Orphans, Dispatch
<1>1. run # {} /\ run \subseteq RoleNodes(k) /\ run \subseteq ReadyRoles(k, g.role)
  BY ReadyRolesType DEF Dispatch, Runnable
<1>2. \/ native /\ g' = [marked EXCEPT !.role = started] /\ fly' = fly \union batch /\ pc' = "coders"
      \/ ~native /\ g' = marked /\ pc' = First(batch)
  BY Zenon DEF Dispatch
<1> HIDE DEF run
<1>3. batch \subseteq run /\ First(batch) \in run
  BY <1>1, BatchSpec
<1>4. ~native => /\ batch = {First(batch)} /\ First(batch) # "coder_b"
                 /\ First(batch) = "coder_a" => k.live
  BY <1>1, BatchShape
<1>5. \A n \in run : g.role[n] \in {"pending", "ready"} /\ n \notin {"planner", "explorer"}
  BY <1>1, ReadyRolesType DEF Aligned, Led
<1> HIDE DEF batch, native
<1>6. MarkTasksRunning(g.task, batch) \in TaskStates(k)
  BY <1>0, MarkSpec
<1>7. marked \in Graphs(k) /\ marked.role = g.role /\ marked.task = MarkTasksRunning(g.task, batch)
  BY <1>0, <1>6 DEF Graphs
<1>8. \A t \in TaskNodes(k) :
         marked.task[t] = IF ActionId(t) \in batch /\ g.task[t] = "pending" THEN "running" ELSE g.task[t]
  BY <1>0, <1>7 DEF MarkTasksRunning, TaskStates
<1> HIDE DEF marked
<1>9. \A t \in TaskNodes(k) : ActionId(t) \in batch => marked.task[t] = "running"
  BY <1>3, <1>5, <1>8 DEF Aligned, Together, InStep, AtWork
<1>10. \A t \in TaskNodes(k) : ActionId(t) \notin batch => marked.task[t] = g.task[t]
  BY <1>8
<1>11. CASE native /\ g' = [marked EXCEPT !.role = started] /\ fly' = fly \union batch /\ pc' = "coders"
  <2>1. g'.task = marked.task /\ g'.role = started
    BY <1>7, <1>11 DEF Graphs
  <2>2. \A n \in RoleNodes(k) : started[n] = IF n \in batch THEN "running" ELSE g.role[n]
    BY <1>0 DEF RoleStates
  <2> HIDE DEF started
  <2>3. fly' = batch
    BY <1>0, <1>11
  <2>4. batch \subseteq Engaged' /\ Engaged \subseteq Engaged'
    BY <1>0, <1>1, <1>3, <1>11, <2>3 DEF Engaged, Unanswered, Proposed, RoleNodes
  <2>5. Together(k, g', Engaged')
    <3> HIDE DEF Engaged
    <3> SUFFICES ASSUME NEW t \in TaskNodes(k)
                 PROVE  InStep(g', t) \/ (ActionId(t) \in Engaged' /\ AtWork(g', t))
      BY DEF Together
    <3>1. CASE ActionId(t) \in batch
      BY <1>9, <2>1, <2>2, <2>4, <3>1, ActionIsRole DEF AtWork, Nonterminal
    <3>2. CASE ActionId(t) \notin batch
      <4>1. InStep(g, t) \/ (ActionId(t) \in Engaged /\ AtWork(g, t))
        BY DEF Aligned, Together
      <4>2. g'.task[t] = g.task[t] /\ g'.role[ActionId(t)] = g.role[ActionId(t)]
        BY <1>10, <2>1, <2>2, <3>2, ActionIsRole
      <4> QED BY <2>4, <4>1, <4>2 DEF InStep, AtWork
    <3> QED BY <3>1, <3>2
  <2>6. Led(g')
    BY <1>3, <1>5, <2>1, <2>2 DEF Aligned, Led, RoleNodes
  <2>7. Proposed("coder_a")' => g'.role["coder_a"] \in Ended
    <3>1. Proposed("coder_a")' <=> Proposed("coder_a")
      BY <1>0 DEF Proposed
    <3> QED BY <1>3, <1>5, <2>1, <2>2, <3>1 DEF Aligned, Ended, RoleNodes
  <2>8. \A c \in fly' : c \in RoleNodes(k) /\ g'.role[c] = "running"
    BY <1>1, <1>3, <2>1, <2>2, <2>3
  <2> QED BY <1>0, <1>11, <2>5, <2>6, <2>7, <2>8 DEF Aligned, RolePcs, Loop
<1>12. CASE ~native /\ g' = marked /\ pc' = First(batch)
  <2>1. pc' \in run /\ batch = {pc'} /\ pc' # "coder_b" /\ (pc' = "coder_a" => k.live)
    BY <1>3, <1>4, <1>12
  <2>2. pc' \in RolePcs
    BY <1>1, <1>5, <2>1 DEF RoleNodes, RolePcs
  <2>3. g'.role = g.role
    BY <1>7, <1>12
  <2>4. batch \subseteq Engaged' /\ Engaged \subseteq Engaged'
    BY <1>0, <1>1, <2>1 DEF Engaged, Unanswered, Proposed, RoleNodes
  <2>5. Together(k, g', Engaged')
    <3> HIDE DEF Engaged
    <3> SUFFICES ASSUME NEW t \in TaskNodes(k)
                 PROVE  InStep(g', t) \/ (ActionId(t) \in Engaged' /\ AtWork(g', t))
      BY DEF Together
    <3>1. CASE ActionId(t) \in batch
      BY <1>3, <1>5, <1>9, <1>12, <2>3, <2>4, <3>1 DEF AtWork, Nonterminal
    <3>2. CASE ActionId(t) \notin batch
      BY <1>10, <1>12, <2>3, <2>4, <3>2 DEF Aligned, Together, InStep, AtWork
    <3> QED BY <3>1, <3>2
  <2>6. Led(g') /\ (Proposed("coder_a")' => g'.role["coder_a"] \in Ended)
    BY <1>0, <2>3 DEF Aligned, Led, Proposed
  <2>7. pc' \in ReadyRoles(k, g'.role)
    BY <1>1, <2>1, <2>3
  <2> QED BY <1>0, <2>1, <2>2, <2>5, <2>6, <2>7 DEF Aligned, RolePcs, Loop
<1> QED BY <1>2, <1>11, <1>12

\* Graphs that keep step with nobody at work never diverge.
LEMMA NoDivergence ==
  ASSUME NEW kk, NEW gg, Together(kk, gg, {}), Led(gg), NEW n \in ReadyRoles(kk, gg.role)
  PROVE  n \in Runnable(kk, gg)
<1>1. n \in RoleNodes(kk) /\ gg.role[n] \in {"pending", "ready"}
  BY ReadyRolesType
<1>2. n # "planner"
  BY <1>1 DEF Led
<1>3. PICK t \in TaskNodes(kk) : ActionId(t) = n
  BY <1>1, <1>2, OneTask
<1>4. gg.task[t] = "pending"
  BY <1>1, <1>3 DEF Together, InStep
<1>5. Inputs(kk, gg, n)
  BY <1>1, ReadyInputs DEF Nonterminal
<1>6. t \in ReadyTasks(kk, gg.task)
  BY <1>3, <1>4, <1>5 DEF Inputs, ReadyTasks
<1> QED BY <1>3, <1>6 DEF Runnable

LEMMA DivergenceHasReason ==
  ASSUME StepInv, NothingRunnable, ReadyRoles(k, g.role) # {}
  PROVE  limited \/ Unanswered
<1> SUFFICES ASSUME ~limited, ~Unanswered PROVE FALSE
  OBVIOUS
<1>1. pc = "schedule" /\ Aligned
  BY DEF StepInv, InLoop, NothingRunnable, Loop
<1>2. Engaged = {}
  BY <1>1 DEF Engaged, RoleNodes
<1>3. Together(k, g, {}) /\ Led(g)
  BY <1>1, <1>2 DEF Aligned
<1>4. Runnable(k, g) # {}
  BY <1>3, NoDivergence
<1> QED BY <1>4 DEF NothingRunnable

\* A role that ends well hands the loop back two graphs in step.
LEMMA ReturnAligned ==
  ASSUME GraphInv, Aligned, NEW n,
         (pc = n /\ pc \in RolePcs \ {"coder_a"}) \/ (pc = "command" /\ n = "test_runner"),
         NEW status, EndsWell(k, g, g', Engaged, n, status),
         k' = k, cands' = cands, pc' = "schedule"
  PROVE  Aligned'
<1>1. Engaged \ {n} \subseteq Engaged'
  BY DEF Engaged, Unanswered, Proposed, RolePcs, RoleNodes
<1>2. Together(k, g', Engaged') /\ Led(g')
  <2> HIDE DEF Engaged
  <2> QED BY <1>1, TogetherMore DEF EndsWell
<1>3. Proposed("coder_a")' => g'.role["coder_a"] \in Ended
  <2>1. Proposed("coder_a")' <=> Proposed("coder_a")
    BY DEF Proposed
  <2>2. "coder_a" \in RoleNodes(k)
    BY DEF RoleNodes
  <2> QED BY <2>1, <2>2 DEF Aligned, EndsWell
<1> QED BY <1>2, <1>3 DEF Aligned, RolePcs

\* At work on a role: the node is the one found for it, and its inputs are there.
LEMMA BusyNode ==
  ASSUME GraphInv, Aligned, NEW n, n \in ReadyRoles(k, g.role),
         (pc = n /\ pc \in RolePcs) \/ (pc = "command" /\ n = "test_runner")
  PROVE  /\ g \in Graphs(k) /\ Together(k, g, Engaged) /\ Led(g)
         /\ n \in Engaged /\ n = NodeFor(k, g.role, RoleOf(n)) /\ n \in RoleNodes(k)
         /\ Inputs(k, g, n)
<1>1. n \in RoleNodes(k) /\ g.role[n] \in Nonterminal
  BY ReadyRolesType DEF Nonterminal
<1>2. n \in Engaged
  BY <1>1 DEF Engaged
<1>3. n = NodeFor(k, g.role, RoleOf(n))
  BY ReadyNode
<1>4. g \in Graphs(k) /\ Together(k, g, Engaged) /\ Led(g)
  BY DEF GraphInv, Sound, Aligned
<1>5. Inputs(k, g, n)
  <2> HIDE DEF Engaged
  <2> QED BY <1>1, <1>4, ReadyInputs
<1> QED BY <1>1, <1>2, <1>3, <1>4, <1>5

\* The roles that are run through runAgentState and return to the loop.
LEMMA RunReturns ==
  ASSUME GraphInv, Aligned, NEW n, n \in ReadyRoles(k, g.role),
         (pc = n /\ pc \in RolePcs \ {"coder_a"}) \/ (pc = "command" /\ n = "test_runner"),
         NEW status \in {"success", "skipped"}, g' = RunRole(RoleOf(n), status),
         k' = k, cands' = cands
  PROVE  /\ EndsWell(k, g, g', Engaged, n, status)
         /\ pc' = "schedule" => Aligned'
<1>1. /\ g \in Graphs(k) /\ Together(k, g, Engaged) /\ Led(g)
      /\ n \in Engaged /\ n = NodeFor(k, g.role, RoleOf(n))
  BY BusyNode
<1> HIDE DEF Engaged
<1>2. EndsWell(k, g, g', Engaged, n, status)
  BY <1>1, RunTogether
<1> QED BY <1>2, ReturnAligned

LEMMA FinishReturns ==
  ASSUME GraphInv, Aligned, pc \in {"patch_runner", "test_runner"},
         NEW status \in {"success", "skipped"}, g' = FinishNode(k, g, pc, status),
         k' = k, cands' = cands, pc' = "schedule"
  PROVE  Aligned'
<1>1. pc \in ReadyRoles(k, g.role) /\ pc \in RolePcs
  BY DEF Aligned, RolePcs
<1>2. /\ g \in Graphs(k) /\ Together(k, g, Engaged) /\ Led(g)
      /\ pc \in RoleNodes(k) /\ Inputs(k, g, pc)
  BY <1>1, BusyNode
<1> HIDE DEF Engaged
<1>3. EndsWell(k, g, g', Engaged, pc, status)
  BY <1>1, <1>2, FinishTogether
<1> QED BY <1>1, <1>3, ReturnAligned

LEMMA RunFails ==
  ASSUME GraphInv, Aligned, NEW n, n \in ReadyRoles(k, g.role), Required(k, n),
         (pc = n /\ pc \in RolePcs) \/ (pc = "command" /\ n = "test_runner"),
         g' = RunRole(RoleOf(n), "failed")
  PROVE  Stopped'
<1>1. /\ g \in Graphs(k) /\ Together(k, g, Engaged) /\ Led(g)
      /\ n \in Engaged /\ n = NodeFor(k, g.role, RoleOf(n))
  BY BusyNode
<1> HIDE DEF Engaged
<1>2. g'.stop = "required node ended"
  BY <1>1, RunStops
<1> QED BY <1>2 DEF Stopped

LEMMA ApplyInLoop ==
  ASSUME GraphInv, Aligned, ApplyStep, ~limited'
  PROVE  InLoop'
<1>1. pc = "patch_runner" /\ k' = k /\ cands' = cands
  BY DEF ApplyStep, StopBeforeApply, SelectedNothing, ContractDeniesPatch, RecordOnly, ApplyPatch,
         Applying
<1>2. pc \in ReadyRoles(k, g.role) /\ Required(k, pc) /\ RoleOf(pc) = "runner" /\ pc \in RoleNodes(k)
  BY <1>1 DEF Aligned, RolePcs, Required, RoleOf, RoleNodes
<1>3. CASE StopBeforeApply \/ SelectedNothing \/ ContractDeniesPatch
  BY <1>3 DEF StopBeforeApply, SelectedNothing, ContractDeniesPatch, Gate, Block, InLoop, Loop, RolePcs
<1>4. CASE RecordOnly
  <2>1. pc' = "schedule"
    BY <1>4 DEF RecordOnly
  <2>2. CASE g' = FinishNode(k, g, "patch_runner", "success")
    BY <1>1, <2>1, <2>2, FinishReturns DEF InLoop
  <2>3. CASE g' = FinishNode(k, g, "patch_runner", "blocked")
    <3>1. g'.stop = "required node ended"
      BY <1>1, <1>2, <2>3, FinishStops DEF GraphInv, Sound
    <3> QED BY <2>1, <3>1 DEF InLoop, Stopped
  <2> QED BY <1>4, <2>2, <2>3 DEF RecordOnly
<1>5. CASE ApplyPatch
  <2>1. pc' = "schedule"
    BY <1>5 DEF ApplyPatch
  <2>2. CASE g' = AwaitApproval("patch_runner")
    <3>1. AwaitApproval("patch_runner") = RunRole("runner", "skipped")
      <4>1. /\ g \in Graphs(k) /\ Together(k, g, Engaged) /\ Led(g)
            /\ pc \in Engaged /\ pc = NodeFor(k, g.role, "runner")
        BY <1>1, <1>2, BusyNode DEF RolePcs
      <4> HIDE DEF Engaged
      <4> QED BY <1>1, <1>2, <4>1, AwaitIsSkip
    <3>2. Aligned'
      BY <1>1, <1>2, <2>1, <2>2, <3>1, RunReturns DEF RolePcs
    <3> QED BY <3>2 DEF InLoop
  <2>3. CASE g' = RunRole("runner", "failed")
    <3>1. Stopped'
      BY <1>1, <1>2, <2>3, RunFails DEF RolePcs
    <3> QED BY <2>1, <3>1 DEF InLoop
  <2>4. CASE g' = RunRole("runner", "success")
    <3>1. Aligned'
      BY <1>1, <1>2, <2>1, <2>4, RunReturns DEF RolePcs
    <3> QED BY <3>1 DEF InLoop
  <2> QED BY <1>5, <2>2, <2>3, <2>4 DEF ApplyPatch
<1> QED BY <1>3, <1>4, <1>5 DEF ApplyStep

LEMMA RolesInLoop ==
  ASSUME GraphInv, Aligned,
         Reviewer \/ Judge \/ Summarize \/ RoleFails("reviewer") \/ RoleFails("judge")
  PROVE  InLoop'
<1>1. /\ pc \in {"reviewer", "judge", "summarizer"} /\ k' = k /\ cands' = cands
  BY DEF Reviewer, Judge, Summarize, RoleFails
<1>2. pc \in ReadyRoles(k, g.role) /\ RoleOf(pc) = pc /\ pc \in RolePcs \ {"coder_a"}
  BY <1>1 DEF Aligned, RolePcs, RoleOf
<1>3. \/ pc' \in {"finalize", "done"}
      \/ pc' = "schedule" /\ g' = RunRole(pc, "success")
      \/ pc = "summarizer" /\ pc' = "schedule" /\ g' = RunRole(pc, "failed")
  BY DEF Reviewer, Judge, Summarize, RoleFails, Gate, Block, Reject
<1>4. CASE pc' \in {"finalize", "done"}
  BY <1>4 DEF InLoop, Loop, RolePcs
<1>5. CASE pc' = "schedule" /\ g' = RunRole(pc, "success")
  <2>1. Aligned'
    BY <1>1, <1>2, <1>5, RunReturns
  <2> QED BY <2>1 DEF InLoop
<1>6. CASE pc = "summarizer" /\ pc' = "schedule" /\ g' = RunRole(pc, "failed")
  <2>1. Required(k, pc)
    BY <1>6 DEF Required
  <2>2. Stopped'
    BY <1>2, <1>6, <2>1, RunFails
  <2> QED BY <1>6, <2>2 DEF InLoop
<1> QED BY <1>3, <1>4, <1>5, <1>6

\* Once the test runner has ended, the verification may go on or return.
LEMMA VerifyAligned ==
  ASSUME GraphInv, Aligned, pc \in {"command", "repair", "rerun"},
         k' = k, cands' = cands, pc' \in {"command", "repair", "rerun", "schedule"},
         \/ g' = g /\ g.role["test_runner"] \in Ended
         \/ EndsWell(k, g, g', Engaged, "test_runner", "success")
  PROVE  Aligned'
<1>1. Engaged \ {"test_runner"} \subseteq Engaged'
  BY DEF Engaged, Unanswered, Proposed, RoleNodes
<1>2. {"test_runner", "patch_runner", "coder_a"} \subseteq RoleNodes(k)
  BY DEF RoleNodes
<1>3. Together(k, g', Engaged \ {"test_runner"}) /\ Led(g')
  <2> HIDE DEF Engaged
  <2>1. CASE g' = g /\ g.role["test_runner"] \in Ended
    <3>1. \A t \in TaskNodes(k) : AtWork(g, t) => ActionId(t) # "test_runner"
      BY <2>1 DEF AtWork, Nonterminal, Ended
    <3> QED BY <2>1, <3>1 DEF Aligned, Together
  <2>2. CASE EndsWell(k, g, g', Engaged, "test_runner", "success")
    BY <2>2 DEF EndsWell
  <2> QED BY <2>1, <2>2
<1>4. Together(k, g', Engaged')
  <2> HIDE DEF Engaged
  <2> QED BY <1>1, <1>3, TogetherMore
<1>5. g'.role["test_runner"] \in Ended /\ g'.role["patch_runner"] \in Ended
  BY <1>2 DEF Aligned, EndsWell, Ended
<1>6. Proposed("coder_a")' => g'.role["coder_a"] \in Ended
  <2>1. Proposed("coder_a")' <=> Proposed("coder_a")
    BY DEF Proposed
  <2> QED BY <1>2, <2>1 DEF Aligned, EndsWell
<1> QED BY <1>3, <1>4, <1>5, <1>6 DEF Aligned, RolePcs

\* Without an open runner nothing is recorded.
LEMMA NoRunner ==
  ASSUME g.role["patch_runner"] \in Ended, g.role["test_runner"] \in Ended, NEW status
  PROVE  RunRole("runner", status) = g
<1>1. NodeFor(k, g.role, "runner") = "none"
  BY DEF NodeFor, Nonterminal, Ended
<1> QED BY <1>1, NoneIsNoRole DEF RunRole, Begin, FinishRole, FinishNode

LEMMA VerifyInLoop ==
  ASSUME GraphInv, Aligned, VerifyStep, ~limited'
  PROVE  InLoop'
<1>1. k' = k /\ cands' = cands
  BY DEF VerifyStep, LimitReached, StartVerify, CommandPasses, CommandFails, CommandRefused,
         RepairerFails, RepairNotApplied, RepairApplied, Rerun, Unverified
<1>2. RoleOf("test_runner") = "runner" /\ Required(k, "test_runner") /\ "test_runner" \in RoleNodes(k)
  BY DEF RoleOf, Required, RoleNodes
<1>3. CASE LimitReached
  BY <1>3 DEF LimitReached
<1>4. CASE StartVerify
  <2>1. pc = "test_runner" /\ pc \in ReadyRoles(k, g.role)
    BY <1>4 DEF StartVerify, Aligned, RolePcs
  <2>2. CASE g' = FinishNode(k, g, "test_runner", "skipped") /\ pc' = "schedule"
    BY <1>1, <2>1, <2>2, FinishReturns DEF InLoop
  <2>3. CASE g' = g /\ pc' = "command"
    <3>1. Engaged \subseteq Engaged'
      BY <1>1, <2>1, <2>3 DEF Engaged, Unanswered, Proposed
    <3>2. Together(k, g', Engaged')
      <4> HIDE DEF Engaged
      <4> QED BY <2>3, <3>1, TogetherMore DEF Aligned
    <3>3. g.role["patch_runner"] \in Ended
      BY <2>1, ReadyNode
    <3>4. Proposed("coder_a")' <=> Proposed("coder_a")
      BY <1>1 DEF Proposed
    <3>5. Aligned'
      BY <1>1, <2>1, <2>3, <3>2, <3>3, <3>4 DEF Aligned, RolePcs
    <3> QED BY <3>5 DEF InLoop
  <2> QED BY <1>4, <2>2, <2>3 DEF StartVerify
<1>5. CASE CommandPasses \/ CommandFails
  <2>1. /\ pc = "command" /\ g' = RunRole("runner", "success")
        /\ pc' \in {"command", "repair", "schedule"}
    BY <1>5 DEF CommandPasses, CommandFails, Advance
  <2>2. CASE g.role["test_runner"] \in Ended
    <3>1. g' = g
      BY <2>1, <2>2, NoRunner DEF Aligned
    <3>2. Aligned'
      BY <1>1, <2>1, <2>2, <3>1, VerifyAligned
    <3> QED BY <3>2 DEF InLoop
  <2>3. CASE "test_runner" \in ReadyRoles(k, g.role)
    <3>1. EndsWell(k, g, g', Engaged, "test_runner", "success")
      BY <1>1, <1>2, <2>1, <2>3, RunReturns
    <3>2. Aligned'
      BY <1>1, <2>1, <3>1, VerifyAligned
    <3> QED BY <3>2 DEF InLoop
  <2> QED BY <2>1, <2>2, <2>3 DEF Aligned
<1>6. CASE CommandRefused
  <2>1. /\ pc = "command" /\ pc' = "schedule"
        /\ g' = IF k.shellOk THEN RunRole("runner", "failed") ELSE AwaitApproval("test_runner")
    BY <1>6 DEF CommandRefused
  <2>2. CASE k.shellOk /\ g.role["test_runner"] \in Ended
    <3>1. g' = g
      BY <2>1, <2>2, NoRunner DEF Aligned
    <3>2. Aligned'
      BY <1>1, <2>1, <2>2, <3>1, VerifyAligned
    <3> QED BY <3>2 DEF InLoop
  <2>3. CASE k.shellOk /\ "test_runner" \in ReadyRoles(k, g.role)
    <3>1. g' = RunRole(RoleOf("test_runner"), "failed")
      BY <1>2, <2>1, <2>3
    <3>2. Stopped'
      BY <1>2, <2>1, <2>3, <3>1, RunFails
    <3> QED BY <2>1, <3>2 DEF InLoop
  <2>4. CASE ~k.shellOk
    <3>1. "test_runner" \in ReadyRoles(k, g.role)
      BY <2>1, <2>4 DEF Aligned, GraphInv, BusyOpen, Ended, Nonterminal
    <3>2. /\ g \in Graphs(k) /\ Together(k, g, Engaged) /\ Led(g)
          /\ "test_runner" \in Engaged /\ "test_runner" = NodeFor(k, g.role, "runner")
      BY <1>2, <2>1, <3>1, BusyNode
    <3>3. g' = RunRole(RoleOf("test_runner"), "skipped")
      <4> HIDE DEF Engaged
      <4> QED BY <1>2, <2>1, <2>4, <3>1, <3>2, AwaitIsSkip
    <3>4. Aligned'
      BY <1>1, <2>1, <3>1, <3>3, RunReturns
    <3> QED BY <3>4 DEF InLoop
  <2> QED BY <2>1, <2>2, <2>3, <2>4 DEF Aligned
<1>7. CASE RepairerFails \/ RepairNotApplied \/ RepairApplied \/ Rerun
  <2>1. /\ pc \in {"repair", "rerun"} /\ g' = g
        /\ pc' \in {"command", "rerun", "schedule", "finalize"}
    BY <1>7 DEF RepairerFails, RepairNotApplied, RepairApplied, Rerun, Repairing, Advance, Block
  <2>2. CASE pc' = "finalize"
    BY <2>2 DEF InLoop, Loop, RolePcs
  <2>3. CASE pc' # "finalize"
    <3>1. Aligned'
      BY <1>1, <2>1, <2>3, VerifyAligned DEF Aligned
    <3> QED BY <3>1 DEF InLoop
  <2> QED BY <2>2, <2>3
<1> QED BY <1>3, <1>4, <1>5, <1>6, <1>7 DEF VerifyStep

LEMMA ProposalAligned ==
  ASSUME GraphInv, FlyType, Aligned, pc = "coders", NEW c \in fly, CoderProposes(c)
  PROVE  Aligned'
<1>1. /\ c \in Coders /\ c \in RoleNodes(k) /\ g.role[c] = "running"
      /\ g \in Graphs(k) /\ Together(k, g, Engaged) /\ Led(g)
  BY DEF FlyType, Aligned, GraphInv, Sound
<1>2. NodeFor(k, g.role, c) = c
  BY <1>1 DEF NodeFor, Nonterminal, Coders
<1>3. g' = FinishNode(k, g, c, "success")
  BY <1>2 DEF CoderProposes, FinishRole
<1>4. EndsWell(k, g, g', Engaged, c, "success")
  <2> HIDE DEF Engaged
  <2>1. Inputs(k, g, c)
    BY <1>1, ReadyInputs DEF Nonterminal
  <2> QED BY <1>1, <1>3, <2>1, FinishTogether
<1>5. /\ fly' = fly \ {c} /\ k' = k
      /\ pc' = (IF fly' = {} THEN "schedule" ELSE "coders")
  BY DEF CoderProposes
<1>6. Proposed("coder_a")' <=> (Proposed("coder_a") \/ c = "coder_a")
  <2>1. PICK d \in BOOLEAN : cands' = cands \union {[id |-> c, diff |-> d]}
    BY DEF CoderProposes
  <2> DEFINE new == [id |-> c, diff |-> d]
  <2>2. new.id = c
    OBVIOUS
  <2>3. cands' = cands \union {new}
    BY <2>1
  <2> HIDE DEF new
  <2> QED BY <2>2, <2>3 DEF Proposed
<1>7. Engaged \ {c} \subseteq Engaged'
  BY <1>5, <1>6 DEF Engaged, Unanswered, RoleNodes
<1>8. Together(k, g', Engaged') /\ Led(g')
  <2> HIDE DEF Engaged
  <2> QED BY <1>4, <1>7, TogetherMore DEF EndsWell
<1>9. Proposed("coder_a")' => g'.role["coder_a"] \in Ended
  <2>1. "coder_a" \in RoleNodes(k)
    BY DEF RoleNodes
  <2> QED BY <1>4, <1>6, <2>1 DEF Aligned, EndsWell, Ended
<1>10. \A d \in fly' : d \in RoleNodes(k) /\ g'.role[d] = "running"
  BY <1>4, <1>5 DEF Aligned, EndsWell
<1> QED BY <1>5, <1>8, <1>9, <1>10 DEF Aligned, RolePcs

LEMMA CodersInLoop ==
  ASSUME GraphInv, FlyType, EndInv, InLoop, CoderStep, ~limited'
  PROVE  InLoop'
<1>1. PICK c \in fly : CoderProposes(c) \/ CoderFails(c)
  BY DEF CoderStep
<1>2. limited' = limited /\ pc \in {"coders", "finalize", "done"}
  BY <1>1 DEF CoderProposes, CoderFails, EndInv, Orphans
<1>3. CASE pc = "coders" /\ CoderProposes(c)
  <2>1. Aligned
    BY <1>2, <1>3 DEF InLoop, Loop
  <2>2. Aligned'
    BY <1>3, <2>1, ProposalAligned
  <2> QED BY <2>2 DEF InLoop
<1>4. CASE pc \in {"finalize", "done"} \/ CoderFails(c)
  <2>1. pc' \in {"finalize", "done"}
    BY <1>1, <1>2, <1>4 DEF CoderProposes, CoderFails, Block, Reject
  <2> QED BY <2>1 DEF InLoop, Loop, RolePcs
<1> QED BY <1>1, <1>2, <1>3, <1>4

\* The second coder may start whenever it is open: it waits for the explorer only.
LEMMA CoderBReady ==
  ASSUME NEW gg, NEW B, Together(k, gg, B), Led(gg), "coder_b" \notin B,
         "coder_b" \in RoleNodes(k), gg.role["coder_b"] \in Nonterminal
  PROVE  "coder_b" \in ReadyRoles(k, gg.role)
<1>1. PICK t \in TaskNodes(k) : ActionId(t) = "coder_b"
  BY OneTask
<1>2. gg.role["coder_b"] \in {"pending", "ready"}
  BY <1>1 DEF Together, InStep, Nonterminal
<1>3. \A d \in RoleDeps(k, "coder_b") : d = "explorer"
  BY DEF RoleDeps
<1> QED BY <1>2, <1>3 DEF ReadyRoles, Led

LEMMA LiveAligned ==
  ASSUME GraphInv, Aligned, LiveCandidates
  PROVE  Aligned'
<1> DEFINE B == {"coder_a"}
<1>1. pc = "coder_a" /\ k.live /\ pc' = "schedule" /\ k' = k
  BY DEF LiveCandidates, Aligned
<1>2. /\ "coder_a" \in ReadyRoles(k, g.role) /\ "coder_a" \in RoleNodes(k)
      /\ g.role["coder_a"] \in Nonterminal /\ Sound(k, g) /\ Led(g) /\ g \in Graphs(k)
  BY <1>1, ReadyRolesType DEF Aligned, RolePcs, GraphInv, Sound, Nonterminal
<1>3. Together(k, g, B)
  <2>1. Engaged \subseteq B
    BY <1>1 DEF Engaged, RoleNodes
  <2> HIDE DEF Engaged, B
  <2> QED BY <2>1, TogetherMore DEF Aligned
<1>4. PICK valid \in SUBSET LiveRoles \ {{}} :
         /\ \E x \in [valid -> BOOLEAN] :
               cands' = cands \union {[id |-> c, diff |-> x[c]] : c \in valid}
         /\ g' = Propose(Propose(g, "coder_a", valid), "coder_b", valid)
  BY DEF LiveCandidates
<1>5. ~Proposed("coder_a")
  BY <1>2 DEF Aligned, Nonterminal, Ended
<1>6. Proposed("coder_a")' <=> "coder_a" \in valid
  <2>1. PICK x \in [valid -> BOOLEAN] :
           cands' = cands \union {[id |-> c, diff |-> x[c]] : c \in valid}
    BY <1>4
  <2> DEFINE new == {[id |-> c, diff |-> x[c]] : c \in valid}
  <2>2. \A p \in new : p.id \in valid
    OBVIOUS
  <2>3. ASSUME "coder_a" \in valid PROVE \E p \in new : p.id = "coder_a"
    <3>1. [id |-> "coder_a", diff |-> x["coder_a"]] \in new
      BY <2>3
    <3> QED BY <3>1
  <2>4. cands' = cands \union new
    BY <2>1
  <2> HIDE DEF new
  <2> QED BY <1>5, <2>2, <2>3, <2>4 DEF Proposed
<1> DEFINE h == Propose(g, "coder_a", valid)
           C == IF "coder_a" \in valid THEN {} ELSE B
<1>7. /\ Sound(k, h) /\ Together(k, h, C) /\ Led(h)
      /\ "coder_a" \in valid => h.role["coder_a"] = "success"
  <2>1. CASE "coder_a" \in valid
    <3>1. NodeFor(k, g.role, "coder_a") = "coder_a"
      BY <1>2 DEF NodeFor
    <3>2. h = FinishNode(k, g, "coder_a", "success")
      BY <2>1, <3>1 DEF Propose, FinishRole
    <3>3. Sound(k, h)
      BY <1>2, <3>2, FinishSound DEF Ended
    <3>4. Inputs(k, g, "coder_a")
      <4> HIDE DEF B
      <4> QED BY <1>2, <1>3, ReadyInputs
    <3>5. EndsWell(k, g, h, B, "coder_a", "success")
      <4> HIDE DEF B
      <4> QED BY <1>2, <1>3, <3>2, <3>4, FinishTogether
    <3>6. B \ {"coder_a"} = C
      BY <2>1
    <3> HIDE DEF h, B, C
    <3> QED BY <3>3, <3>5, <3>6 DEF EndsWell
  <2>2. CASE "coder_a" \notin valid
    BY <1>2, <1>3, <2>2 DEF Propose
  <2> QED BY <2>1, <2>2
<1> HIDE DEF h
<1>8. /\ Together(k, g', C) /\ Led(g')
      /\ "coder_a" \in valid => g'.role["coder_a"] = "success"
  <2>1. CASE g' = h
    BY <1>7, <2>1
  <2>2. CASE g' # h
    <3>1. NodeFor(k, h.role, "coder_b") = "coder_b" /\ g' = FinishNode(k, h, "coder_b", "success")
      <4>1. g' = FinishNode(k, h, NodeFor(k, h.role, "coder_b"), "success")
        BY <1>4, <2>2 DEF Propose, FinishRole, h
      <4>2. NodeFor(k, h.role, "coder_b") \in RoleNodes(k)
        BY <2>2, <4>1 DEF FinishNode
      <4> QED BY <4>1, <4>2, NoneIsNoRole DEF NodeFor
    <3>2. "coder_b" \in RoleNodes(k) /\ h.role["coder_b"] \in Nonterminal
      BY <3>1, NodeForOpen, NoneIsNoRole
    <3>3. "coder_b" \notin C
      OBVIOUS
    <3> HIDE DEF C
    <3>4. "coder_b" \in ReadyRoles(k, h.role) /\ Inputs(k, h, "coder_b")
      BY <1>7, <3>2, <3>3, CoderBReady, ReadyInputs
    <3>5. EndsWell(k, h, g', C, "coder_b", "success")
      BY <1>7, <3>1, <3>2, <3>4, FinishTogether DEF Sound
    <3>6. C \ {"coder_b"} = C
      BY <3>3
    <3> QED BY <1>2, <1>7, <3>5, <3>6 DEF EndsWell, Ended
  <2> QED BY <2>1, <2>2
<1>9. C \subseteq Engaged'
  BY <1>1, <1>2, <1>6 DEF Engaged, Unanswered
<1>10. Together(k, g', Engaged')
  <2> HIDE DEF Engaged, C
  <2> QED BY <1>8, <1>9, TogetherMore
<1>11. Proposed("coder_a")' => g'.role["coder_a"] \in Ended
  BY <1>6, <1>8 DEF Ended
<1> QED BY <1>1, <1>8, <1>10, <1>11 DEF Aligned, RolePcs

LEMMA LiveInLoop ==
  ASSUME GraphInv, Aligned, LiveStep
  PROVE  InLoop'
<1>1. CASE LiveCandidates
  BY <1>1, LiveAligned DEF InLoop
<1>2. CASE LiveWithoutCandidate
  <2>1. "coder_a" \in RoleNodes(k) /\ Required(k, "coder_a") /\ g.role["coder_a"] \in Nonterminal
    BY <1>2, ReadyRolesType DEF LiveWithoutCandidate, Aligned, RolePcs, Required, RoleNodes, Nonterminal
  <2>2. g' = FinishNode(k, g, "coder_a", "blocked")
    BY <1>2, <2>1 DEF LiveWithoutCandidate, FinishRole, NodeFor
  <2>3. g'.stop = "required node ended"
    BY <2>1, <2>2, FinishStops DEF GraphInv, Sound
  <2>4. pc' \in {"schedule", "finalize"}
    BY <1>2 DEF LiveWithoutCandidate, Block
  <2> QED BY <2>3, <2>4 DEF InLoop, Stopped, Loop, RolePcs
<1>3. CASE LiveFails
  BY <1>3 DEF LiveFails, Reject, InLoop, Loop, RolePcs
<1> QED BY <1>1, <1>2, <1>3 DEF LiveStep

LEMMA StartInLoop ==
  ASSUME BeforeLoop, Plan \/ Explore
  PROVE  InLoop' /\ BeforeLoop'
<1>1. CASE Plan
  <2>1. Fresh(k, g', {"planner"}) /\ pc' = "explore" /\ k' = k /\ cands' = {}
    BY <1>1, PlanFresh DEF Plan, BeforeLoop
  <2> QED BY <2>1 DEF InLoop, Loop, RolePcs, BeforeLoop
<1>2. CASE Explore
  <2>1. CASE pc' = "done"
    BY <2>1 DEF InLoop, Loop, RolePcs, BeforeLoop
  <2>2. CASE pc' = "schedule" /\ g' = RunRole("explorer", "success")
    <3>1. Together(k, g', {}) /\ Led(g') /\ cands' = {} /\ k' = k
      BY <1>2, <2>2, ExploreTogether DEF Explore, BeforeLoop
    <3>2. Together(k, g', Engaged')
      <4> HIDE DEF Engaged
      <4> QED BY <3>1, TogetherMore
    <3>3. ~Proposed("coder_a")'
      BY <3>1 DEF Proposed
    <3>4. Aligned'
      BY <2>2, <3>1, <3>2, <3>3 DEF Aligned, RolePcs
    <3> QED BY <2>2, <3>4 DEF InLoop, BeforeLoop
  <2> QED BY <1>2, <2>1, <2>2 DEF Explore, Reject
<1> QED BY <1>1, <1>2

\* Limits are never lifted, and no action but the planner leads back before the loop.
LEMMA NeverBack ==
  ASSUME FlyType, EndInv, GraphInv, Next
  PROVE  /\ limited => limited'
         /\ Plan \/ pc' \notin {"plan", "explore"}
<1>1. CASE VerifyStep
  BY <1>1 DEF VerifyStep, LimitReached, StartVerify, CommandPasses, CommandFails, CommandRefused,
         RepairerFails, RepairNotApplied, RepairApplied, Rerun, Advance, Block, Unverified
<1>2. CASE ApplyStep
  BY <1>2 DEF ApplyStep, StopBeforeApply, SelectedNothing, ContractDeniesPatch, RecordOnly,
         ApplyPatch, Gate, Block
<1>3. CASE LiveStep
  BY <1>3 DEF LiveStep, LiveCandidates, LiveWithoutCandidate, LiveFails, Block, Reject
<1>4. CASE \/ Plan \/ Explore \/ Summarize \/ Reviewer \/ Judge
           \/ RoleFails("reviewer") \/ RoleFails("judge")
  BY <1>4 DEF Plan, Explore, Summarize, Reviewer, Judge, RoleFails, Gate, Block, Reject
<1>5. CASE StopOnRole \/ NothingRunnable \/ Finalize
  BY <1>5 DEF StopOnRole, NothingRunnable, Finalize, Block
<1>6. CASE CoderStep
  <2>1. pc \in {"coders", "finalize", "done"}
    BY <1>6 DEF CoderStep, EndInv, Orphans
  <2> QED BY <1>6, <2>1 DEF CoderStep, CoderProposes, CoderFails, Block, Reject
<1>7. CASE Dispatch
  <2>1. Runnable(k, g) # {} /\ Runnable(k, g) \subseteq RoleNodes(k)
    BY <1>7, ReadyRolesType DEF Dispatch, Runnable
  <2>2. First(Batch(Runnable(k, g))) \in RoleNodes(k)
    BY <2>1, BatchSpec
  <2>3. pc' = "coders" \/ pc' = First(Batch(Runnable(k, g)))
    BY <1>7 DEF Dispatch
  <2> QED BY <1>7, <2>2, <2>3 DEF Dispatch, RoleNodes
<1> QED BY <1>1, <1>2, <1>3, <1>4, <1>5, <1>6, <1>7 DEF Next

LEMMA InLoopStep ==
  ASSUME GraphInv, FlyType, EndInv, StepInv, Next
  PROVE  InLoop' /\ BeforeLoop'
<1>1. /\ limited => limited'
      /\ ~Plan => pc' \notin {"plan", "explore"}
  BY NeverBack
<1>2. BeforeLoop'
  <2>1. CASE Plan
    BY <2>1, StartInLoop DEF StepInv
  <2>2. CASE ~Plan
    BY <1>1, <2>2 DEF BeforeLoop
  <2> QED BY <2>1, <2>2
<1>3. InLoop'
  <2> SUFFICES ASSUME ~limited' PROVE InLoop'
    BY DEF InLoop
  <2>1. ~limited
    BY <1>1
  <2>2. pc \in Loop \ {"schedule"} => Aligned
    BY <2>1 DEF StepInv, InLoop
  <2>3. CASE Plan \/ Explore
    BY <2>3, StartInLoop DEF StepInv
  <2>4. CASE StopOnRole \/ NothingRunnable \/ Finalize
    BY <2>4 DEF StopOnRole, NothingRunnable, Finalize, Block, InLoop, Loop, RolePcs
  <2>5. CASE Dispatch
    <3>1. Aligned
      BY <2>1, <2>5 DEF Dispatch, StepInv, InLoop, Loop
    <3> QED BY <2>5, <3>1, DispatchAligned DEF InLoop
  <2>6. CASE CoderStep
    BY <2>6, CodersInLoop DEF StepInv
  <2>7. CASE VerifyStep
    <3>1. pc \in {"test_runner", "command", "repair", "rerun"}
      BY <2>7 DEF VerifyStep, LimitReached, StartVerify, CommandPasses, CommandFails,
                  CommandRefused, RepairerFails, RepairNotApplied, RepairApplied, Rerun, Repairing
    <3> QED BY <2>2, <2>7, <3>1, VerifyInLoop DEF Loop, RolePcs
  <2>8. CASE ApplyStep
    <3>1. pc = "patch_runner"
      BY <2>8 DEF ApplyStep, StopBeforeApply, SelectedNothing, ContractDeniesPatch, RecordOnly,
                  ApplyPatch, Applying
    <3> QED BY <2>2, <2>8, <3>1, ApplyInLoop DEF Loop, RolePcs
  <2>9. CASE LiveStep
    <3>1. pc = "coder_a"
      BY <2>9 DEF LiveStep, LiveCandidates, LiveWithoutCandidate, LiveFails
    <3> QED BY <2>2, <2>9, <3>1, LiveInLoop DEF Loop, RolePcs
  <2>10. CASE Reviewer \/ Judge \/ Summarize \/ RoleFails("reviewer") \/ RoleFails("judge")
    <3>1. pc \in {"reviewer", "judge", "summarizer"}
      BY <2>10 DEF Reviewer, Judge, Summarize, RoleFails
    <3> QED BY <2>2, <2>10, <3>1, RolesInLoop DEF Loop, RolePcs
  <2> QED BY <2>3, <2>4, <2>5, <2>6, <2>7, <2>8, <2>9, <2>10 DEF Next
<1> QED BY <1>2, <1>3

\* Only the scheduler blames itself, and nothing moves after it but the end of the run.
LEMMA ExplainedStep ==
  ASSUME EndInv, StepInv, Next
  PROVE  Explained'
<1>1. CASE NothingRunnable
  <2>1. /\ pc = "schedule" /\ pc' = "finalize"
        /\ UNCHANGED <<k, fly, cands, limited>>
    BY <1>1 DEF NothingRunnable, Block
  <2>2. fly = {} /\ blocked # "scheduler"
    BY <2>1 DEF EndInv, Orphans, StepInv, Explained
  <2>3. ReadyRoles(k, g.role) = {} => blocked' = blocked
    BY <1>1 DEF NothingRunnable
  <2>4. ReadyRoles(k, g.role) # {} => limited \/ Unanswered
    BY <1>1, DivergenceHasReason
  <2>5. Unanswered' <=> Unanswered
    BY <2>1 DEF Unanswered, Proposed
  <2> QED BY <2>1, <2>2, <2>3, <2>4, <2>5 DEF Explained
<1>2. CASE Finalize
  <2>1. pc' = "done" /\ UNCHANGED <<k, fly, cands, limited, blocked>>
    BY <1>2 DEF Finalize
  <2>2. Unanswered' <=> Unanswered
    BY <2>1 DEF Unanswered, Proposed
  <2> QED BY <2>1, <2>2 DEF StepInv, Explained
<1>3. CASE CoderStep
  <2>1. blocked # "scheduler" /\ blocked' \in {blocked, "quality", "external"}
    BY <1>3 DEF CoderStep, CoderProposes, CoderFails, Block, StepInv, Explained
  <2> QED BY <2>1 DEF Explained
<1>4. CASE \/ VerifyStep \/ ApplyStep \/ LiveStep
           \/ Plan \/ Explore \/ Summarize \/ Reviewer \/ Judge
           \/ RoleFails("reviewer") \/ RoleFails("judge")
           \/ StopOnRole \/ Dispatch
  <2>1. /\ pc \notin {"finalize", "done"}
        /\ blocked' = blocked \/ blocked' # "scheduler"
    <3>1. CASE VerifyStep
      BY <3>1 DEF VerifyStep, LimitReached, StartVerify, CommandPasses, CommandFails,
             CommandRefused, RepairerFails, RepairNotApplied, RepairApplied, Rerun, Repairing, Block
    <3>2. CASE ApplyStep
      BY <3>2 DEF ApplyStep, StopBeforeApply, SelectedNothing, ContractDeniesPatch, RecordOnly,
             ApplyPatch, Applying, Gate, Block
    <3>3. CASE LiveStep
      BY <3>3 DEF LiveStep, LiveCandidates, LiveWithoutCandidate, LiveFails, Block, Reject
    <3>4. CASE \/ Plan \/ Explore \/ Summarize \/ Reviewer \/ Judge
               \/ RoleFails("reviewer") \/ RoleFails("judge")
      BY <3>4 DEF Plan, Explore, Summarize, Reviewer, Judge, RoleFails, Gate, Block, Reject
    <3>5. CASE StopOnRole \/ Dispatch
      BY <3>5 DEF StopOnRole, Dispatch, Block
    <3> QED BY <1>4, <3>1, <3>2, <3>3, <3>4, <3>5
  <2> QED BY <2>1 DEF StepInv, Explained
<1> QED BY <1>1, <1>2, <1>3, <1>4 DEF Next

LEMMA StepInvInit == Init => StepInv
BY FreshStart DEF Init, StepInv, InLoop, Loop, RolePcs, BeforeLoop, Explained

LEMMA StepInvStep == StepInv /\ EndInv /\ GraphInv /\ FlyType /\ [Next]_vars => StepInv'
<1> SUFFICES ASSUME StepInv, EndInv, GraphInv, FlyType, [Next]_vars PROVE StepInv'
  OBVIOUS
<1>1. CASE UNCHANGED vars
  <2>1. InLoop'
    <3>1. Engaged' = Engaged
      BY <1>1 DEF vars, Engaged, Unanswered, Proposed
    <3> HIDE DEF Engaged
    <3> QED BY <1>1, <3>1 DEF vars, StepInv, InLoop, Aligned, Proposed, Stopped
  <2> QED BY <1>1, <2>1 DEF vars, StepInv, BeforeLoop, Explained, Unanswered, Proposed
<1>2. CASE Next
  BY <1>2, InLoopStep, ExplainedStep DEF StepInv
<1> QED BY <1>1, <1>2

LEMMA WorkflowInvariant == Spec => [](GraphInv /\ FlyType /\ EndInv /\ StepInv)
BY GraphInvariant, EndInvInit, EndInvStep, StepInvInit, StepInvStep, PTL DEF Spec

\* The scheduler finds a ready role without a ready task only after a limit or the
\* contract cut a phase short, or when a live model left coder_a without a candidate;
\* no order of answers, refusals and failures makes the two graphs drift apart
\* (runScheduledPatchWorkflow).
THEOREM DivergenceHasCause == Spec => []DivergenceExplained
<1>1. StepInv => DivergenceExplained
  BY DEF StepInv, Explained, Unanswered, DivergenceExplained
<1> QED BY <1>1, WorkflowInvariant, PTL

=============================================================================
