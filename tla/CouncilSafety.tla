---------------------------- MODULE CouncilSafety ---------------------------
(***************************************************************************)
(* Proofs about the council runtime, for every finite acyclic task graph,  *)
(* any agents and rankings, and every setting.                             *)
(***************************************************************************)
EXTENDS CouncilRun, FiniteSetTheorems, TLAPS

Execution == {"attempt", "fallback", "mutate"}

\* Where the runtime is, and what it works on there.
PcInv ==
  /\ pc = "assign" => \A n \in Nodes : status[n] = "pending"
  /\ pc \notin {"assign", "no_owner"} => owner \in [Nodes -> Agents]
  /\ pc \in Execution => current \in Nodes
  /\ pc = "attempt" => status[current] = "pending"
  /\ pc \in {"review", "reviewed"} => Pending = {}

\* What the status of a node says about its last result.
ResultInv ==
  \A n \in Nodes :
    /\ status[n] = "done" => n \in evidence /\ latest[n].status = "success"
    /\ status[n] = "blocked" => latest[n].status \in {"failed", "blocked"}

ReviewInv ==
  pc = "reviewed" => (review = "approve_delivery" <=> Approves)

-----------------------------------------------------------------------------
(* Lemmas.                                                                 *)

LEMMA Constant ==
  ASSUME TypeOK, [Next]_vars
  PROVE  setting' = setting /\ setting \in SettingType /\ setting' \in SettingType
BY CouncilAssumption DEF TypeOK, Next, vars, AssignOwners, NoOwner, StartPass, BlockDependants,
   StopScheduling, PassLimitExceeded, TakeNode, EndPass, BudgetRefuses, AttemptSucceeds,
   AttemptFails, ReassignToFallback, NoFallbackLeft, MutateAndRetry, FinalChiefReview

LEMMA PassLimitType == PassLimit \in Nat
<1>1. Cardinality(Nodes) \in Nat
  BY CouncilAssumption, FS_CardinalityType
<1>2. PassesPerNode \in Nat
  BY CouncilAssumption
<1> QED
  BY <1>1, <1>2 DEF PassLimit

\* Agents that a node's ranking names are agents.
LEMMA RankedType ==
  ASSUME setting \in SettingType, NEW n \in Nodes
  PROVE  /\ Ranked(n) \subseteq Agents
         /\ \A o, tried : Untried(n, o, tried) \subseteq Agents
<1>1. setting.ranked[n] \in Seq(Agents)
  BY DEF SettingType
<1>2. Ranked(n) \subseteq Agents
  BY <1>1 DEF Ranked
<1> QED
  BY <1>2 DEF Untried, FallbackAgents

LEMMA OwnerToRetryType ==
  ASSUME setting \in SettingType, NEW n \in Nodes, NEW o \in Agents
  PROVE  OwnerToRetry(n, o) \subseteq Agents
BY RankedType DEF OwnerToRetry, FirstOf, Switched

\* A pending node depends on an unfinished one until the graph is worked off: if
\* nothing is ready and no node is doomed, nothing is pending.
LEMMA NothingStuck ==
  ASSUME TypeOK, Ready = {}, Doomed = {}
  PROVE  Pending = {}
<1> SUFFICES ASSUME Pending # {}
             PROVE  FALSE
  OBVIOUS
<1>1. Pending \in SUBSET Nodes
  BY DEF Pending
<1>2. PICK n \in Pending : Deps[n] \cap Pending = {}
  BY <1>1, CouncilAssumption
<1>3. Deps[n] \subseteq Nodes
  BY <1>1, CouncilAssumption
<1>4. PICK d \in Deps[n] : status[d] # "done"
  BY DEF Ready
<1>5. d \in Blocked
  BY <1>2, <1>3, <1>4 DEF TypeOK, Pending, Blocked
<1>6. n \in Doomed
  BY <1>2, <1>5 DEF Doomed
<1> QED
  BY <1>6

-----------------------------------------------------------------------------
(* The inductive invariant.                                                *)

IInv == TypeOK /\ PcInv /\ ResultInv /\ ReviewInv /\ OwnerDidTheWork

LEMMA InitIInv == Init => IInv
<1> SUFFICES ASSUME Init PROVE IInv
  OBVIOUS
<1>1. setting \in SettingType
  BY CouncilAssumption DEF Init
<1>2. 0 \in 0 .. setting.maxCalls /\ 0 \in 0 .. PassLimit
  BY <1>1, PassLimitType DEF SettingType
<1>3. TypeOK
  BY <1>2 DEF Init, TypeOK, NoResult, ResultType
<1> QED
  BY <1>3 DEF Init, IInv, PcInv, ResultInv, ReviewInv, OwnerDidTheWork, Execution

LEMMA NextTypeOK ==
  ASSUME IInv, [Next]_vars
  PROVE  TypeOK'
<1> USE DEF IInv
<1>1. setting' = setting /\ setting' \in SettingType
  BY Constant
<1>2. setting.maxCalls \in Nat /\ PassLimit \in Nat
  BY <1>1, PassLimitType DEF SettingType
<1>3. calls \in Nat /\ passes \in Nat
  BY <1>2 DEF TypeOK
<1>4. CASE AssignOwners
  BY <1>1, <1>4 DEF AssignOwners, Assignments, TypeOK, work, loop, execution
<1>5. CASE NoOwner
  BY <1>1, <1>5 DEF NoOwner, TypeOK, owners, work, loop, execution
<1>6. CASE StartPass
  <2>1. passes' \in 0 .. PassLimit /\ round' \subseteq Nodes
    BY <1>2, <1>3, <1>6 DEF StartPass, Ready, Pending
  <2> QED
    BY <1>1, <1>6, <2>1 DEF StartPass, TypeOK, owners, work, execution
<1>7. CASE BlockDependants
  <2>1. passes' \in 0 .. PassLimit
    BY <1>2, <1>3, <1>7 DEF BlockDependants
  <2>2. status' \in [Nodes -> {"pending", "done", "blocked"}]
    BY <1>7 DEF BlockDependants, TypeOK
  <2>3. \A n \in Nodes : [status |-> "blocked", by |-> owner[n]] \in ResultType
    BY DEF TypeOK, ResultType
  <2>4. latest' \in [Nodes -> ResultType]
    BY <1>7, <2>3 DEF BlockDependants, TypeOK
  <2> QED
    BY <1>1, <1>7, <2>1, <2>2, <2>4 DEF BlockDependants, TypeOK, owners, execution
<1>8. CASE StopScheduling
  BY <1>1, <1>8 DEF StopScheduling, TypeOK, owners, work, loop, execution
<1>9. CASE PassLimitExceeded
  BY <1>1, <1>9 DEF PassLimitExceeded, TypeOK, owners, work, loop, execution
<1>10. CASE TakeNode
  <2>1. owner \in [Nodes -> Agents]
    BY <1>10 DEF TakeNode, PcInv
  <2> QED
    BY <1>1, <1>10, <2>1 DEF TakeNode, Pending, TypeOK, owners, work
<1>11. CASE EndPass
  BY <1>1, <1>11 DEF EndPass, TypeOK, owners, work, execution
<1>12. \A s \in {"success", "failed", "blocked"} :
         [latest EXCEPT ![current] = Result(current, s)] \in [Nodes -> ResultType]
  <2> SUFFICES ASSUME NEW s \in {"success", "failed", "blocked"}, current \in Nodes
               PROVE  [latest EXCEPT ![current] = Result(current, s)] \in [Nodes -> ResultType]
    BY DEF TypeOK
  <2>1. Result(current, s) \in ResultType
    BY DEF Result, ResultType, TypeOK
  <2> QED
    BY <2>1 DEF TypeOK
<1>13. ASSUME BudgetAllows(current) PROVE Commit(current) \in 0 .. setting.maxCalls
  BY <1>2, <1>3, <1>13 DEF BudgetAllows, Commit, TypeOK
<1>14. CASE BudgetRefuses
  BY <1>1, <1>12, <1>14 DEF BudgetRefuses, AfterFailure, TypeOK, owners, loop, execution
<1>15. CASE AttemptSucceeds
  BY <1>1, <1>12, <1>13, <1>15
     DEF AttemptSucceeds, Caller, TypeOK, PcInv, Execution, owners, loop, execution
<1>16. CASE AttemptFails
  BY <1>1, <1>12, <1>13, <1>16
     DEF AttemptFails, AfterFailure, TypeOK, owners, loop, execution
<1>17. CASE ReassignToFallback
  <2>1. current \in Nodes
    BY <1>17 DEF ReassignToFallback, PcInv, Execution
  <2>2. PICK a \in FirstOf(current, Untried(current, assigned[current], attempted)) :
          /\ owner' = [owner EXCEPT ![current] = a]
          /\ attempted' = attempted \cup {a}
    BY <1>17 DEF ReassignToFallback
  <2>3. a \in Agents
    BY <1>1, <2>1, RankedType DEF FirstOf
  <2> QED
    BY <1>1, <1>17, <2>2, <2>3 DEF ReassignToFallback, TypeOK, loop
<1>18. CASE NoFallbackLeft
  BY <1>1, <1>18 DEF NoFallbackLeft, Caller, TypeOK, owners, work, loop, execution
<1>19. CASE MutateAndRetry
  <2>1. current \in Nodes
    BY <1>19 DEF MutateAndRetry, PcInv, Execution
  <2>2. PICK o \in Assignments, next \in Agents :
          /\ assigned' = o
          /\ owner' = [o EXCEPT ![current] = next]
          /\ attempted' = {next}
    <3>1. \A o \in Assignments : OwnerToRetry(current, o[current]) \subseteq Agents
      BY <1>1, <2>1, OwnerToRetryType DEF Assignments
    <3> QED
      BY <1>19, <3>1 DEF MutateAndRetry
  <2> QED
    BY <1>1, <1>19, <2>2 DEF MutateAndRetry, Assignments, TypeOK
<1>20. CASE FinalChiefReview
  BY <1>1, <1>20 DEF FinalChiefReview, TypeOK, owners, work, loop, execution
<1>21. CASE UNCHANGED vars
  BY <1>21, <1>1 DEF vars, TypeOK
<1> QED
  BY <1>4, <1>5, <1>6, <1>7, <1>8, <1>9, <1>10, <1>11, <1>14, <1>15, <1>16, <1>17, <1>18,
     <1>19, <1>20, <1>21 DEF Next

\* After the end of an execution, which no pc of PcInv distinguishes, the two loops go on.
LEMMA NextPcInv ==
  ASSUME IInv, [Next]_vars
  PROVE  PcInv'
<1> USE DEF IInv, Execution
<1>1. CASE AssignOwners
  BY <1>1 DEF AssignOwners, Assignments, PcInv
<1>2. CASE NoOwner
  BY <1>2 DEF NoOwner, PcInv
<1>3. CASE StartPass
  BY <1>3 DEF StartPass, PcInv, owners, work, execution
<1>4. CASE BlockDependants
  BY <1>4 DEF BlockDependants, PcInv, owners
<1>5. CASE StopScheduling
  <2>1. Pending = {}
    BY <1>5, NothingStuck DEF StopScheduling
  <2> QED
    BY <1>5, <2>1 DEF StopScheduling, PcInv, Pending, owners, work
<1>6. CASE PassLimitExceeded
  BY <1>6 DEF PassLimitExceeded, PcInv, owners
<1>7. CASE TakeNode
  BY <1>7 DEF TakeNode, Pending, PcInv, TypeOK, owners, work
<1>8. CASE EndPass
  BY <1>8 DEF EndPass, PcInv, owners
<1>9. CASE BudgetRefuses
  BY <1>9 DEF BudgetRefuses, AfterFailure, PcInv, owners, execution
<1>10. CASE AttemptSucceeds
  BY <1>10 DEF AttemptSucceeds, Caller, PcInv, owners, execution
<1>11. CASE AttemptFails
  BY <1>11 DEF AttemptFails, AfterFailure, PcInv, owners, execution
<1>12. CASE ReassignToFallback
  <2>1. current \in Nodes /\ owner \in [Nodes -> Agents]
    BY <1>12 DEF ReassignToFallback, PcInv
  <2>2. PICK a \in FirstOf(current, Untried(current, assigned[current], attempted)) :
          owner' = [owner EXCEPT ![current] = a]
    BY <1>12 DEF ReassignToFallback
  <2>3. a \in Agents
    BY <2>1, RankedType, CouncilAssumption DEF FirstOf, TypeOK
  <2>4. owner' \in [Nodes -> Agents]
    BY <2>1, <2>2, <2>3
  <2> QED
    BY <1>12, <2>1, <2>4 DEF ReassignToFallback, PcInv, TypeOK
<1>13. CASE NoFallbackLeft
  BY <1>13 DEF NoFallbackLeft, Caller, PcInv, owners
<1>14. CASE MutateAndRetry
  <2>1. current \in Nodes
    BY <1>14 DEF MutateAndRetry, PcInv
  <2>2. PICK o \in Assignments, next \in Agents : owner' = [o EXCEPT ![current] = next]
    <3>1. setting \in SettingType
      BY CouncilAssumption DEF TypeOK
    <3>2. \A o \in Assignments : OwnerToRetry(current, o[current]) \subseteq Agents
      BY <2>1, <3>1, OwnerToRetryType DEF Assignments
    <3> QED
      BY <1>14, <3>2 DEF MutateAndRetry
  <2>3. owner' \in [Nodes -> Agents]
    BY <2>1, <2>2 DEF Assignments
  <2> QED
    BY <1>14, <2>1, <2>3 DEF MutateAndRetry, PcInv, TypeOK
<1>15. CASE FinalChiefReview
  BY <1>15 DEF FinalChiefReview, PcInv, Pending, owners, work
<1>16. CASE UNCHANGED vars
  BY <1>16 DEF vars, PcInv, Pending
<1> QED
  BY <1>1, <1>2, <1>3, <1>4, <1>5, <1>6, <1>7, <1>8, <1>9, <1>10, <1>11, <1>12, <1>13,
     <1>14, <1>15, <1>16 DEF Next

\* Only the end of an attempt and a doomed node change results; both set the
\* status that goes with the result, or leave the node pending.
LEMMA NextResults ==
  ASSUME IInv, [Next]_vars
  PROVE  ResultInv' /\ OwnerDidTheWork'
<1> USE DEF IInv
<1>1. CASE AssignOwners
  BY <1>1 DEF AssignOwners, PcInv, ResultInv, OwnerDidTheWork, work
<1>2. CASE StartPass \/ TakeNode \/ EndPass \/ StopScheduling \/ PassLimitExceeded
           \/ NoOwner \/ NoFallbackLeft \/ FinalChiefReview \/ UNCHANGED vars
  <2>1. UNCHANGED <<owners, work, failureConsumed>>
    BY <1>2 DEF StartPass, TakeNode, EndPass, StopScheduling, PassLimitExceeded, NoOwner,
       NoFallbackLeft, FinalChiefReview, vars, owners, work, execution
  <2> QED
    BY <2>1 DEF ResultInv, OwnerDidTheWork, owners, work
<1>3. CASE BlockDependants
  <2>1. Doomed \cap {n \in Nodes : status[n] = "done"} = {}
    BY DEF Doomed, Pending
  <2> QED
    BY <1>3, <2>1 DEF BlockDependants, ResultInv, OwnerDidTheWork, TypeOK, owners, execution
<1>4. CASE BudgetRefuses
  <2>1. current \in Nodes /\ status[current] = "pending"
    BY <1>4 DEF BudgetRefuses, PcInv, Execution
  <2> QED
    BY <1>4, <2>1 DEF BudgetRefuses, ResultInv, OwnerDidTheWork, TypeOK, owners, execution
<1>5. CASE AttemptSucceeds
  <2>1. current \in Nodes
    BY <1>5 DEF AttemptSucceeds, PcInv, Execution
  <2> QED
    BY <1>5, <2>1 DEF AttemptSucceeds, Result, ResultInv, OwnerDidTheWork, TypeOK, owners, execution
<1>6. CASE AttemptFails
  <2>1. current \in Nodes
    BY <1>6 DEF AttemptFails, PcInv, Execution
  <2> QED
    BY <1>6, <2>1 DEF AttemptFails, Result, ResultInv, OwnerDidTheWork, TypeOK, owners, execution
<1>7. CASE ReassignToFallback
  <2>1. current \in Nodes
    BY <1>7 DEF ReassignToFallback, PcInv, Execution
  <2> QED
    BY <1>7, <2>1 DEF ReassignToFallback, ResultInv, OwnerDidTheWork, TypeOK
<1>8. CASE MutateAndRetry
  <2>1. current \in Nodes
    BY <1>8 DEF MutateAndRetry, PcInv, Execution
  <2> QED
    BY <1>8, <2>1 DEF MutateAndRetry, ResultInv, OwnerDidTheWork, TypeOK
<1> QED
  BY <1>1, <1>2, <1>3, <1>4, <1>5, <1>6, <1>7, <1>8 DEF Next

LEMMA NextReview ==
  ASSUME IInv, [Next]_vars
  PROVE  ReviewInv'
<1>1. CASE FinalChiefReview
  BY <1>1 DEF FinalChiefReview, ReviewInv, Approves, work
<1>2. CASE UNCHANGED vars
  BY <1>2 DEF vars, IInv, ReviewInv, Approves
<1>3. CASE ~FinalChiefReview /\ Next
  <2>1. pc' # "reviewed"
    BY <1>3 DEF Next, AssignOwners, NoOwner, StartPass, BlockDependants, StopScheduling,
       PassLimitExceeded, TakeNode, EndPass, BudgetRefuses, AttemptSucceeds, AttemptFails,
       ReassignToFallback, NoFallbackLeft, MutateAndRetry, AfterFailure, Caller
  <2> QED
    BY <2>1 DEF ReviewInv
<1> QED
  BY <1>1, <1>2, <1>3

LEMMA Invariant == Spec => []IInv
<1>1. IInv /\ [Next]_vars => IInv'
  BY NextTypeOK, NextPcInv, NextResults, NextReview DEF IInv
<1> QED
  BY InitIInv, <1>1, PTL DEF Spec

-----------------------------------------------------------------------------
(* Theorems.                                                               *)

\* Every variable keeps its type: no run commits more strong calls than the pool
\* holds, and no scheduler passes its limit (councilRuntime.ts:190-279, 467-478).
THEOREM TypeCorrect == Spec => []TypeOK
BY Invariant, PTL DEF IInv

\* As long as no mutation has assigned finished nodes again, the owner a node
\* names is the agent that did it, through any number of fallbacks
\* (councilRuntime.ts:281-374).
THEOREM OwnerKept == Spec => []OwnerDidTheWork
BY Invariant, PTL DEF IInv

\* The final review comes when nothing is pending, and approves exactly the runs
\* whose nodes are all done (councilRuntime.ts:190-279, 781-842).
THEOREM ReviewHonest == Spec => []ReviewIsHonest
<1>1. ASSUME IInv, pc = "reviewed" PROVE Approves <=> \A n \in Nodes : status[n] = "done"
  <2>1. ASSUME Approves, NEW n \in Nodes PROVE status[n] = "done"
    <3>1. status[n] \in {"pending", "done", "blocked"}
      BY <1>1 DEF IInv, TypeOK
    <3>2. status[n] # "pending"
      BY <1>1 DEF IInv, PcInv, Pending
    <3>3. status[n] # "blocked"
      BY <1>1, <2>1 DEF IInv, ResultInv, Approves
    <3> QED
      BY <3>1, <3>2, <3>3
  <2>2. ASSUME \A n \in Nodes : status[n] = "done" PROVE Approves
    BY <1>1, <2>2 DEF IInv, ResultInv, Approves
  <2> QED
    BY <2>1, <2>2
<1>2. IInv => ReviewIsHonest
  BY <1>1 DEF IInv, PcInv, ReviewInv, ReviewIsHonest
<1> QED
  BY Invariant, <1>2, PTL
=============================================================================
