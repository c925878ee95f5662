----------------------------- MODULE CouncilRun -----------------------------
(***************************************************************************)
(* The Agent Council governance runtime: owners are assigned to the nodes  *)
(* of the consensus task graph, a scheduler executes the ready nodes in    *)
(* passes, every attempt asks the budget gate, an attempt that fails or is *)
(* refused moves to a fallback owner, one simulated failure makes the run  *)
(* mutate its strategy and assign all owners again, and the chief's native *)
(* review decides on what the nodes left (councilRuntime.ts).              *)
(*                                                                         *)
(* An action is the code between two awaits, or one decision of the loops  *)
(* around them.  delegatedResults is kept as the last result of each node, *)
(* which is what the review reads; the events of the ledger, the artifacts *)
(* and the replan graph, which is recorded and never executed, are left    *)
(* out.  A score that ranks agents is the order of a sequence.             *)
(***************************************************************************)
EXTENDS Integers, FiniteSets, Sequences

CONSTANTS Nodes,          \* the nodes of the consensus task graph
          Deps,           \* Deps[n]: what n depends on
          Agents,         \* the agents the configuration makes available
          Settings,       \* the configurations and options a run may have
          PassesPerNode,  \* the scheduler's safety limit, per node
          NoAgent, NoNode

(***************************************************************************)
(* A setting: `proposed` the owner the council proposed for a node,        *)
(* `ranked` the agents allowed to play a node's role, best first,          *)
(* `commands` the agents that run as an external command, `strong` the     *)
(* nodes whose call consumes the strong-agent pool of `maxCalls` calls,    *)
(* `costly` those of them whose estimated cost exceeds max_cost_usd,       *)
(* `simulateFailure` the node that is to fail once, `maxMutations` the     *)
(* limit on strategy mutations.                                            *)
(***************************************************************************)
SettingType ==
  [proposed : [Nodes -> Agents \cup {NoAgent}],
   ranked : [Nodes -> Seq(Agents)],
   commands : SUBSET Agents,
   strong : SUBSET Nodes,
   costly : SUBSET Nodes,
   maxCalls : Nat,
   simulateFailure : Nodes \cup {NoNode},
   maxMutations : Nat]

ASSUME CouncilAssumption ==
  /\ IsFiniteSet(Nodes)
  /\ Deps \in [Nodes -> SUBSET Nodes]
  /\ \A S \in SUBSET Nodes : S # {} => \E n \in S : Deps[n] \cap S = {}
  /\ Settings \subseteq SettingType
  /\ PassesPerNode \in Nat
  /\ NoAgent \notin Agents
  /\ NoNode \notin Nodes

VARIABLES
  setting,          \* what this run was started with
  pc,               \* where the run is
  status,           \* status[n], "pending" at first
  assigned,         \* the owner assignTaskOwners gave a node
  owner,            \* the owner the node has now
  evidence,         \* the nodes with an evidence packet
  latest,           \* the last delegated result of a node: its status, its agent
  calls,            \* strongAgentCallsUsed
  passes,           \* schedulerPasses
  round,            \* what is left of the ready nodes this pass found
  current,          \* the node being executed
  attempted,        \* attemptedOwnerIds of this execution
  shouldFail,       \* this attempt is the simulated failure
  retrying,         \* this execution is the retry after the mutation
  failureConsumed,  \* the simulated failure has happened
  review            \* the decision of the final chief review

vars == <<setting, pc, status, assigned, owner, evidence, latest, calls, passes,
          round, current, attempted, shouldFail, retrying, failureConsumed, review>>

loop == <<passes, round>>
execution == <<current, attempted, shouldFail, retrying, failureConsumed>>
work == <<status, evidence, latest, calls>>
owners == <<assigned, owner>>

NoResult == [status |-> "none", by |-> NoAgent]

Init ==
  /\ setting \in Settings
  /\ pc = "assign"
  /\ status = [n \in Nodes |-> "pending"]
  /\ assigned = [n \in Nodes |-> NoAgent]
  /\ owner = [n \in Nodes |-> NoAgent]
  /\ evidence = {}
  /\ latest = [n \in Nodes |-> NoResult]
  /\ calls = 0
  /\ passes = 0
  /\ round = {}
  /\ current = NoNode
  /\ attempted = {}
  /\ shouldFail = FALSE
  /\ retrying = FALSE
  /\ failureConsumed = FALSE
  /\ review = "none"

-----------------------------------------------------------------------------
(* Owners.                                                                 *)

Ranked(n) == {setting.ranked[n][i] : i \in DOMAIN setting.ranked[n]}

CanOwn(n) ==
  IF setting.proposed[n] # NoAgent THEN {setting.proposed[n]} ELSE Ranked(n)

\* assignTaskOwners keeps a proposal; selectOwner takes an allowed agent, which
\* one depends on scores the strategy may change.
Assignments == {o \in [Nodes -> Agents] : \A n \in Nodes : o[n] \in CanOwn(n)}

\* The scores rank a before b.
Better(n, a, b) ==
  \E i, j \in DOMAIN setting.ranked[n] :
    i < j /\ setting.ranked[n][i] = a /\ setting.ranked[n][j] = b

\* The two best allowed agents besides the one that was assigned.
FallbackAgents(n, o) ==
  {a \in Ranked(n) \ {o} : Cardinality({b \in Ranked(n) \ {o} : Better(n, b, a)}) < 2}

\* (mutant) an owner is tried again.
UntriedOrNot(n, o, tried) == FallbackAgents(n, o)

Untried(n, o, tried) == FallbackAgents(n, o) \ tried

\* The one that comes first in the list.
FirstOf(n, agents) == {a \in agents : \A b \in agents \ {a} : Better(n, a, b)}

Blocked == {n \in Nodes : status[n] = "blocked"}
Pending == {n \in Nodes : status[n] = "pending"}

AssignOwners ==
  /\ pc = "assign"
  /\ \A n \in Nodes : CanOwn(n) # {}
  /\ \E o \in Assignments : assigned' = o /\ owner' = o
  /\ pc' = "schedule"
  /\ UNCHANGED <<setting, work, loop, execution, review>>

\* No agent can own some node's role: selectOwner throws.
NoOwner ==
  /\ pc = "assign"
  /\ \E n \in Nodes : CanOwn(n) = {}
  /\ pc' = "no_owner"
  /\ UNCHANGED <<setting, owners, work, loop, execution, review>>

-----------------------------------------------------------------------------
(* The scheduler.                                                          *)

Ready == {n \in Pending : \A d \in Deps[n] : status[d] = "done"}

\* (mutant) dependants of a blocked node stay pending.
NoneDoomed == {}

\* What markNodesBlockedByDependencies reaches in one call: the nodes are listed
\* in dependency order, so a node it marks dooms the dependants listed after it.
Doomed ==
  {n \in Pending :
     \A S \in SUBSET Nodes :
       (Blocked \subseteq S /\ \A m \in Pending : Deps[m] \cap S # {} => m \in S) => n \in S}

PassLimit == PassesPerNode * Cardinality(Nodes)

StartPass ==
  /\ pc = "schedule"
  /\ Pending # {}
  /\ passes < PassLimit
  /\ Ready # {}
  /\ passes' = passes + 1
  /\ round' = Ready
  /\ pc' = "round"
  /\ UNCHANGED <<setting, owners, work, execution, review>>

BlockDependants ==
  /\ pc = "schedule"
  /\ passes < PassLimit
  /\ Ready = {}
  /\ Doomed # {}
  /\ passes' = passes + 1
  /\ status' = [n \in Nodes |-> IF n \in Doomed THEN "blocked" ELSE status[n]]
  /\ latest' = [n \in Nodes |-> IF n \in Doomed
                                THEN [status |-> "blocked", by |-> owner[n]]
                                ELSE latest[n]]
  /\ UNCHANGED <<setting, pc, owners, evidence, calls, round, execution, review>>

\* The loop's condition fails, or a pass finds nothing to execute or to block.
StopScheduling ==
  /\ pc = "schedule"
  /\ Pending = {} \/ (passes < PassLimit /\ Ready = {} /\ Doomed = {})
  /\ pc' = "review"
  /\ UNCHANGED <<setting, owners, work, loop, execution, review>>

\* The safety limit throws out of the whole run.
PassLimitExceeded ==
  /\ pc = "schedule"
  /\ Pending # {}
  /\ passes >= PassLimit
  /\ pc' = "pass_limit"
  /\ UNCHANGED <<setting, owners, work, loop, execution, review>>

TakeNode ==
  /\ pc = "round"
  /\ \E n \in round \cap Pending :
       /\ current' = n
       /\ round' = round \ {n}
       /\ attempted' = {owner[n]}
       /\ shouldFail' = (~failureConsumed /\ n = setting.simulateFailure)
  /\ retrying' = FALSE
  /\ pc' = "attempt"
  /\ UNCHANGED <<setting, owners, work, passes, failureConsumed, review>>

EndPass ==
  /\ pc = "round"
  /\ round \cap Pending = {}
  /\ round' = {}
  /\ pc' = "schedule"
  /\ UNCHANGED <<setting, owners, work, passes, execution, review>>

-----------------------------------------------------------------------------
(* One attempt of the current node.                                        *)

\* evaluateRoleInvocation without a role budget: only a strong call can be
\* refused, for its cost or because the pool is used up.
BudgetAllows(n) ==
  \/ n \notin setting.strong
  \/ n \notin setting.costly /\ calls < setting.maxCalls

Commit(n) == IF n \in setting.strong THEN calls + 1 ELSE calls

\* (mutant) the result names the first owner.
ResultOfAssigned(n, s) == [status |-> s, by |-> assigned[n]]

Result(n, s) == [status |-> s, by |-> owner[n]]

\* Where executeDelegatedNode returns to.
Caller == IF retrying THEN "schedule" ELSE "round"

\* A failed attempt: the simulated one goes to the mutation, another looks for
\* a fallback owner.
AfterFailure == IF shouldFail THEN "mutate" ELSE "fallback"

\* A refused attempt returns before it gives its node a status.
BudgetRefuses ==
  /\ pc = "attempt"
  /\ ~BudgetAllows(current)
  /\ latest' = [latest EXCEPT ![current] = Result(current, "blocked")]
  /\ pc' = AfterFailure
  /\ UNCHANGED <<setting, owners, status, evidence, calls, loop, execution, review>>

AttemptSucceeds ==
  /\ pc = "attempt"
  /\ BudgetAllows(current)
  /\ ~shouldFail
  /\ calls' = Commit(current)
  /\ status' = [status EXCEPT ![current] = "done"]
  /\ evidence' = evidence \cup {current}
  /\ latest' = [latest EXCEPT ![current] = Result(current, "success")]
  /\ pc' = Caller
  /\ UNCHANGED <<setting, owners, loop, execution, review>>

\* The simulated failure, or an external command that is not ok; a call that
\* failed is committed all the same.
AttemptFails ==
  /\ pc = "attempt"
  /\ BudgetAllows(current)
  /\ shouldFail \/ owner[current] \in setting.commands
  /\ calls' = Commit(current)
  /\ status' = [status EXCEPT ![current] = "blocked"]
  /\ latest' = [latest EXCEPT ![current] = Result(current, "failed")]
  /\ pc' = AfterFailure
  /\ UNCHANGED <<setting, owners, evidence, loop, execution, review>>

ReassignToFallback ==
  /\ pc = "fallback"
  /\ \E a \in FirstOf(current, Untried(current, assigned[current], attempted)) :
       /\ owner' = [owner EXCEPT ![current] = a]
       /\ attempted' = attempted \cup {a}
  /\ status' = [status EXCEPT ![current] = "pending"]
  /\ pc' = "attempt"
  /\ UNCHANGED <<setting, assigned, evidence, latest, calls, loop,
                 current, shouldFail, retrying, failureConsumed, review>>

NoFallbackLeft ==
  /\ pc = "fallback"
  /\ Untried(current, assigned[current], attempted) = {}
  /\ pc' = Caller
  /\ UNCHANGED <<setting, owners, work, loop, execution, review>>

-----------------------------------------------------------------------------
(* The simulated failure: every owner is assigned again, that of the failed *)
(* node is switched when the mutation limit and the fallbacks allow, and    *)
(* the node is executed again at once; the scheduler then starts over.      *)

Switched(n, o) ==
  IF setting.maxMutations = 0 \/ FallbackAgents(n, assigned[n]) = {}
  THEN {}
  ELSE Untried(n, o, {owner[n]})

OwnerToRetry(n, o) ==
  IF Switched(n, o) = {} THEN {o} ELSE FirstOf(n, Switched(n, o))

MutateAndRetry ==
  /\ pc = "mutate"
  /\ \E o \in Assignments :
       \E next \in OwnerToRetry(current, o[current]) :
         /\ assigned' = o
         /\ owner' = [o EXCEPT ![current] = next]
         /\ attempted' = {next}
  /\ status' = [status EXCEPT ![current] = "pending"]
  /\ failureConsumed' = TRUE
  /\ shouldFail' = FALSE
  /\ retrying' = TRUE
  /\ round' = {}
  /\ pc' = "attempt"
  /\ UNCHANGED <<setting, evidence, latest, calls, passes, current, review>>

-----------------------------------------------------------------------------
(* The final chief review: every node has required evidence.               *)

Approves ==
  /\ \A n \in Nodes : latest[n].status \notin {"failed", "blocked"}
  /\ \A n \in Nodes : n \in evidence

FinalChiefReview ==
  /\ pc = "review"
  /\ review' = IF Approves THEN "approve_delivery" ELSE "request_revision"
  /\ pc' = "reviewed"
  /\ UNCHANGED <<setting, owners, work, loop, execution>>

Next ==
  \/ AssignOwners \/ NoOwner
  \/ StartPass \/ BlockDependants \/ StopScheduling \/ PassLimitExceeded
  \/ TakeNode \/ EndPass
  \/ BudgetRefuses \/ AttemptSucceeds \/ AttemptFails
  \/ ReassignToFallback \/ NoFallbackLeft
  \/ MutateAndRetry
  \/ FinalChiefReview

\* Every await of the runtime is an external command with a timeout, so a step
\* that can be taken is taken.
Spec == Init /\ [][Next]_vars /\ WF_vars(Next)
-----------------------------------------------------------------------------
(* Properties.                                                             *)

ResultType == [status : {"none", "success", "failed", "blocked"},
               by : Agents \cup {NoAgent}]

\* Every variable keeps to the values the code gives it.
TypeOK ==
  /\ setting \in Settings
  /\ pc \in {"assign", "schedule", "round", "attempt", "fallback", "mutate",
             "review", "reviewed", "no_owner", "pass_limit"}
  /\ status \in [Nodes -> {"pending", "done", "blocked"}]
  /\ assigned \in [Nodes -> Agents \cup {NoAgent}]
  /\ owner \in [Nodes -> Agents \cup {NoAgent}]
  /\ evidence \subseteq Nodes
  /\ latest \in [Nodes -> ResultType]
  /\ calls \in 0 .. setting.maxCalls
  /\ passes \in 0 .. PassLimit
  /\ round \subseteq Nodes
  /\ current \in Nodes \cup {NoNode}
  /\ attempted \subseteq Agents
  /\ shouldFail \in BOOLEAN /\ retrying \in BOOLEAN /\ failureConsumed \in BOOLEAN
  /\ review \in {"none", "approve_delivery", "request_revision"}

\* The review of a run comes when no node is pending, and approves exactly the
\* runs whose nodes are all done, whatever order the results came in.
ReviewIsHonest ==
  pc = "reviewed" =>
    /\ Pending = {}
    /\ review = "approve_delivery" <=> \A n \in Nodes : status[n] = "done"

\* A node that is done was done by the agent it names as its owner, as long as no
\* mutation has assigned the owners of finished nodes again.
OwnerDidTheWork ==
  ~failureConsumed =>
    \A n \in Nodes : status[n] = "done" => latest[n] = [status |-> "success", by |-> owner[n]]

\* Every run ends: with a review, without an owner, or at the safety limit.
RunEnds == <>(pc \in {"reviewed", "no_owner", "pass_limit"})
=============================================================================
