------------------------- MODULE ConvergenceSafety --------------------------
(***************************************************************************)
(* Proofs about the convergence engine, for every goal, acceptance matrix, *)
(* policy and workspace that the assumptions on the constants allow: its   *)
(* types, what its verdicts are worth, the rounds of a run, and what the   *)
(* run directory says of it through any number of crashes and restarts:    *)
(* its files agree, and the ledger explains every verdict.  The policies a *)
(* theorem is about are named in its assumptions.                          *)
(***************************************************************************)
EXTENDS ConvergenceProperties, FiniteSetTheorems, SequenceTheorems, TLAPS

------------------------------------------------------------------------------
(* The values that the actions write have the types TypeOK gives them.       *)

\* computeConfidence returns a number whatever the advisory checks said.
LEMMA ConfidenceType ==
  ASSUME NEW hardOk \in BOOLEAN, NEW condOk \in BOOLEAN, NEW soft \in SoftOutcomes
  PROVE  Confidence(hardOk, condOk, soft) \in Int
<1> DEFINE P == {s \in SoftIds : soft[s].passed}
<1>1. SoftGates \in Nat
  BY GatesAssumption
<1>2. IsFiniteSet(SoftIds)
  BY <1>1, FS_Interval DEF SoftIds
<1>3. Cardinality(P) \in Nat
  BY <1>2, FS_Subset, FS_CardinalityType
<1>4. SoftGates # 0 => (20 * Cardinality(P) + SoftGates) \div (2 * SoftGates) \in Int
  BY <1>1, <1>3
<1> QED
  BY <1>4 DEF Confidence

\* An acceptance pass returns an evaluation.
LEMMA EvaluationType ==
  ASSUME NEW hard \in [HardIds -> GateResult], NEW soft \in SoftOutcomes,
         NEW seen \in SUBSET Names, NEW t \in Trees
  PROVE  Evaluation(hard, soft, seen, t) \in Evaluations
<1> DEFINE Met == {c \in CondIds : Satisfied(c, hard, soft, seen, t)}
           Missing == {c \in CondIds : Conditions[c].required} \ Met
<1>1. FailedRequired(hard) \in SUBSET HardIds
  BY DEF FailedRequired, RequiredHard
<1>2. Confidence(FailedRequired(hard) = {}, Missing = {}, soft) \in Int
  BY ConfidenceType
<1>3. Met \in SUBSET CondIds /\ Missing \in SUBSET CondIds
  OBVIOUS
<1>4. {i \in RequiredHard : ~hard[i].evidence} \in SUBSET HardIds
  BY DEF RequiredHard
<1>5. /\ (\E s \in SoftIds : soft[s].passed) \in BOOLEAN
      /\ (\/ HardIds = {}
          \/ EvidenceRequired /\ \/ \E i \in HardIds : ~hard[i].evidence
                                 \/ \E s \in SoftIds : ~soft[s].evidence) \in BOOLEAN
  OBVIOUS
<1> QED
  BY <1>1, <1>2, <1>3, <1>4, <1>5 DEF Evaluation, Evaluations
\* A decision is a phase of a status with a reason.
Decisions == [phase : {"evaluating", "converged", "aborted"}, reason : Reasons]

LEMMA DecisionType ==
  ASSUME NEW e, NEW blockers, NEW r, NEW spent, NEW i
  PROVE  DecideAfterPostEvaluation(e, blockers, r, spent, i) \in Decisions
<1>1. /\ Decision("converged", "policy") \in Decisions
      /\ Decision("evaluating", "continue") \in Decisions
      /\ \A reason \in AbortReasons : Decision("aborted", reason) \in Decisions
  BY DEF Decision, Decisions, Reasons, AbortReasons
<1> QED
  BY <1>1 DEF DecideAfterPostEvaluation, AbortReasons

\* What buildStatus puts together is a status.
LEMMA StatusType ==
  ASSUME NEW a \in 0..MaxAttempts, NEW i \in 0..MaxIterations,
         NEW phase \in Phases, NEW reason \in Reasons,
         NEW stage \in {"none", "pre_action", "post_action"},
         NEW seen \in SUBSET Names, NEW act \in ActionResult,
         NEW e \in Evaluations, NEW blockers \in SUBSET BlockerKinds
  PROVE  Status(a, i, phase, reason, stage, seen, act, e, blockers) \in Statuses
BY DEF Status, Statuses

LEMMA BlankType ==
  /\ NoAction \in ActionResult
  /\ BlankEvaluation \in Evaluations
  /\ NoStatus \in Statuses /\ TornLine \in Statuses /\ GarbledLine \in Statuses
  /\ \A a \in 0..MaxAttempts : FirstStatus(a) \in Statuses
<1>1. NoAction \in ActionResult
  BY DEF NoAction, ActionResult
<1>2. BlankEvaluation \in Evaluations
  BY DEF BlankEvaluation, Evaluations, NoThreshold
<1>3. 0 \in 0..MaxAttempts /\ 0 \in 0..MaxIterations
  BY EngineAssumption, PolicyAssumption
<1>4. ASSUME NEW a \in 0..MaxAttempts PROVE FirstStatus(a) \in Statuses
  BY <1>1, <1>2, <1>3, StatusType DEF FirstStatus, Phases, Reasons
<1>5. NoStatus \in Statuses
  BY <1>3, <1>4 DEF NoStatus
<1>6. TornLine \in Statuses /\ GarbledLine \in Statuses
  BY <1>5 DEF TornLine, GarbledLine, Statuses
<1> QED
  BY <1>1, <1>2, <1>4, <1>5, <1>6

RoundCounters == [repeated : Nat, stale : Nat, any : BOOLEAN, key : Keys]

LEMMA KeyType == \A s \in Statuses : ProgressKey(s) \in Keys
BY DEF ProgressKey, Keys, Statuses, Evaluations, ActionResult

\* updateDecisionState keeps its counters natural numbers.
LEMMA RoundsType ==
  /\ NoRounds \in RoundCounters
  /\ \A r \in RoundCounters, s \in Statuses : UpdateRounds(r, s) \in RoundCounters
BY KeyType, BlankType DEF NoRounds, UpdateRounds, RoundCounters

------------------------------------------------------------------------------
(* Type correctness is not inductive by itself: WriteEvidence takes the head *)
(* of a queue, and the bound on adapter calls comes from the loop counter,   *)
(* which is ahead of them until Act has run.                                 *)

InIteration == {"pre_observe", "pre_accept", "evidence", "act", "post_observe",
                "post_accept"}

ActDue == \/ pc \in {"pre_observe", "pre_accept", "act"}
          \/ pc = "evidence" /\ status.iteration # iteration

LoopInv ==
  /\ pc \in InIteration => iteration \in Iterations
  /\ pc = "evidence" => queue # <<>>
  /\ acts <= iteration
  /\ ActDue => acts < iteration

TypeInv == TypeOK /\ LoopInv

LEMMA TypeInit == Init => TypeInv
<1> SUFFICES ASSUME Init PROVE TypeInv
  OBVIOUS
<1>1. /\ MaxAttempts \in Nat /\ MaxIterations \in Nat \ {0}
      /\ Committed \in Trees
  BY EngineAssumption, PolicyAssumption
<1>2. rounds \in RoundCounters
  BY RoundsType DEF Init
<1>3. evidence \in [Iterations ->
                     [files : [EvidenceFiles -> 0..MaxAttempts], phase : Phases]]
  BY <1>1 DEF Init, Phases
<1> QED
  BY <1>1, <1>2, <1>3, BlankType
     DEF Init, TypeInv, TypeOK, LoopInv, ActDue, InIteration, AllBases, PCs,
         RoundCounters

\* A new attempt starts from typed values, whatever the last one left.
LEMMA TypeStart == TypeInv /\ Start => TypeInv'
<1> SUFFICES ASSUME TypeInv, Start PROVE TypeInv'
  OBVIOUS
<1>1. /\ MaxAttempts \in Nat /\ MaxIterations \in Nat \ {0}
      /\ Bases \subseteq AllBases
  BY EngineAssumption, PolicyAssumption
<1>2. attempt' \in 0..MaxAttempts
  BY <1>1 DEF TypeInv, TypeOK, Start
<1>3. rounds' \in RoundCounters /\ status' \in Statuses /\ action' \in ActionResult
  BY <1>2, RoundsType, BlankType DEF Start
<1> QED
  BY <1>1, <1>2, <1>3
     DEF Start, TypeInv, TypeOK, LoopInv, ActDue, InIteration, PCs, RoundCounters, disk

\* writeStatus writes typed statuses and the loop counter stays in range.
LEMMA TypeWriteStatus ==
  TypeInv /\ (AppendTrace \/ WriteLatest \/ WriteProgress) => TypeInv'
<1> SUFFICES ASSUME TypeInv PROVE AppendTrace \/ WriteLatest \/ WriteProgress => TypeInv'
  OBVIOUS
<1> USE DEF TypeInv, TypeOK, LoopInv, ActDue, InIteration, PCs
<1>1. ASSUME AppendTrace PROVE TypeInv'
  <2>1. trace' \in Seq(Statuses)
    BY <1>1, BlankType DEF AppendTrace, Torn
  <2> QED
    BY <1>1, <2>1 DEF AppendTrace, memory
<1>2. ASSUME WriteLatest PROVE TypeInv'
  BY <1>2 DEF WriteLatest, memory
<1>3. ASSUME WriteProgress PROVE TypeInv'
  <2>1. /\ MaxIterations \in Nat /\ iteration \in 0..MaxIterations
        /\ acts \in 0..MaxIterations /\ acts <= iteration
    BY PolicyAssumption
  <2>2. /\ iteration' \in 0..MaxIterations /\ acts <= iteration'
        /\ pc' \in {"pre_observe", "done"}
        /\ pc' = "pre_observe" => iteration' \in Iterations /\ acts < iteration'
    BY <1>3, <2>1 DEF WriteProgress, LoopGoesOn, Iterations
  <2> QED
    BY <1>3, <2>2 DEF WriteProgress
<1> QED
  BY <1>1, <1>2, <1>3

LEMMA TypeObserve == TypeInv /\ (PreObserve \/ PostObserve) => TypeInv'
<1> SUFFICES ASSUME TypeInv PROVE PreObserve \/ PostObserve => TypeInv'
  OBVIOUS
<1>1. Observations(tree) \subseteq SUBSET Names
  BY DEF Observations, GitStatus, Names
<1> QED
  BY <1>1 DEF PreObserve, PostObserve, ObserveWorkspace, disk, TypeInv, TypeOK,
              LoopInv, ActDue, InIteration, PCs

\* What a pass may return, and the workspace it may leave.
LEMMA AcceptanceType ==
  ASSUME TypeOK, NEW after \in Rewrites(tree, GateFiles)
  PROVE  after \in Trees /\ Acceptances(after) \subseteq Evaluations
<1>1. after \in Trees
  BY DEF Rewrites
<1>2. HardOutcomes(observed, tree, after, previous.any, previous.failed)
        \subseteq [HardIds -> GateResult]
  BY DEF HardOutcomes
<1>3. observed \in SUBSET Names
  BY DEF TypeOK
<1> QED
  BY <1>1, <1>2, <1>3, EvaluationType DEF Acceptances

LEMMA TypePreAccept == TypeInv /\ PreAccept => TypeInv'
<1> SUFFICES ASSUME TypeInv, PreAccept PROVE TypeInv'
  OBVIOUS
<1>1. PICK after \in Rewrites(tree, GateFiles) :
        tree' = after /\ \E e \in Acceptances(after) : PreDecide(e)
  BY DEF PreAccept
<1>2. PICK e \in Acceptances(after) : PreDecide(e)
  BY <1>1
<1>3. tree' \in Trees /\ e \in Evaluations
  BY <1>1, AcceptanceType DEF TypeInv
<1>4. CollectBlockers(FALSE, observed, e) \in SUBSET BlockerKinds
  BY DEF CollectBlockers
<1>5. Status(attempt, iteration, "converged", "policy", "pre_action", observed,
             NoAction, e, CollectBlockers(FALSE, observed, e)) \in Statuses
  <2>1. "converged" \in Phases /\ "policy" \in Reasons
    BY DEF Phases, Reasons
  <2>2. /\ attempt \in 0..MaxAttempts /\ iteration \in 0..MaxIterations
        /\ observed \in SUBSET Names
    BY DEF TypeInv, TypeOK
  <2> QED
    BY <1>3, <1>4, <2>1, <2>2, StatusType, BlankType
<1>6. status' \in Statuses
  BY <1>2, <1>5 DEF PreDecide, TypeInv, TypeOK
<1>7. queue' \in Seq(EvidenceFiles) /\ queue' # <<>>
  <2>1. \/ queue' = <<"pre_gate_results">>
        \/ queue' = <<"pre_gate_results", "changed_files", "post_gate_results",
                      "gate_results", "controller_decision">>
    BY <1>2 DEF PreDecide
  <2> DEFINE Q == <<"pre_gate_results", "changed_files", "post_gate_results",
                    "gate_results", "controller_decision">>
             P == <<"pre_gate_results">>
  <2>2. P \in Seq(EvidenceFiles) /\ Q \in Seq(EvidenceFiles)
    BY DEF EvidenceFiles
  <2>3. P # <<>> /\ Q # <<>>
    OBVIOUS
  <2> HIDE DEF P, Q
  <2> QED
    BY <2>1, <2>2, <2>3 DEF P, Q
<1>8. TypeOK'
  BY <1>3, <1>6, <1>7 DEF PreAccept, TypeInv, TypeOK, PCs, disk
<1>9. LoopInv'
  BY <1>7 DEF PreAccept, TypeInv, LoopInv, ActDue, InIteration
<1> QED
  BY <1>8, <1>9 DEF TypeInv

\* The adapter is called at most once per iteration.
LEMMA TypeAct == TypeInv /\ Act => TypeInv'
<1> SUFFICES ASSUME TypeInv, Act PROVE TypeInv'
  OBVIOUS
<1>1. tree' \in Trees /\ action' \in ActionResult
  BY EngineAssumption DEF Act, Rewrites
<1>2. acts' \in 0..MaxIterations /\ acts' <= iteration
  BY PolicyAssumption DEF Act, TypeInv, TypeOK, LoopInv, ActDue
<1> QED
  BY <1>1, <1>2
     DEF Act, TypeInv, TypeOK, LoopInv, ActDue, InIteration, PCs, disk

LEMMA TypePostAccept == TypeInv /\ PostAccept => TypeInv'
<1> SUFFICES ASSUME TypeInv, PostAccept PROVE TypeInv'
  OBVIOUS
<1>1. PICK after \in Rewrites(tree, GateFiles) :
        tree' = after /\ \E e \in Acceptances(after) : PostDecide(e)
  BY DEF PostAccept
<1>2. PICK e \in Acceptances(after) : PostDecide(e)
  BY <1>1
<1>3. tree' \in Trees /\ e \in Evaluations
  BY <1>1, AcceptanceType DEF TypeInv
<1> DEFINE B == CollectBlockers(action.budget, observed, e)
           D == DecideAfterPostEvaluation(e, B, rounds', action.budget, iteration)
<1>4. RoundStatus(e, B) \in Statuses /\ RoundStatus(e, B).iteration = iteration
  <2>1. B \in SUBSET BlockerKinds
    BY DEF CollectBlockers
  <2>2. "evaluating" \in Phases /\ "continue" \in Reasons
    BY DEF Phases, Reasons
  <2>3. /\ attempt \in 0..MaxAttempts /\ iteration \in 0..MaxIterations
        /\ observed \in SUBSET Names /\ action \in ActionResult
    BY DEF TypeInv, TypeOK
  <2>4. RoundStatus(e, B) \in Statuses
    BY <1>3, <2>1, <2>2, <2>3, StatusType DEF RoundStatus
  <2>5. RoundStatus(e, B).iteration = iteration
    BY DEF RoundStatus, Status
  <2> QED
    BY <2>4, <2>5
<1>5. rounds' = UpdateRounds(rounds, RoundStatus(e, B))
  BY <1>2 DEF PostDecide
<1>6. rounds' \in RoundCounters
  <2>1. rounds \in RoundCounters
    BY DEF TypeInv, TypeOK, RoundCounters
  <2> QED
    BY <2>1, <1>4, <1>5, RoundsType
<1>7. D \in Decisions
  BY DecisionType
<1>8. status' = [RoundStatus(e, B) EXCEPT !.phase = D.phase, !.reason = D.reason]
  BY <1>2 DEF PostDecide
<1>9. status' \in Statuses /\ status'.iteration = iteration
  <2> HIDE DEF B, D
  <2> QED
    BY <1>4, <1>7, <1>8 DEF Statuses, Decisions, Phases
<1>10. previous' \in [any : BOOLEAN, failed : SUBSET HardIds]
  BY <1>2, <1>3 DEF Evaluations, PostDecide
<1>11. queue' \in Seq(EvidenceFiles) /\ queue' # <<>>
  BY DEF PostAccept, EvidenceFiles
<1>12. TypeOK'
  BY <1>3, <1>6, <1>9, <1>10, <1>11
     DEF PostAccept, TypeInv, TypeOK, PCs, disk, RoundCounters
<1>13. LoopInv'
  BY <1>9, <1>11 DEF PostAccept, TypeInv, LoopInv, ActDue, InIteration
<1> QED
  BY <1>12, <1>13 DEF TypeInv

LEMMA TypeWriteEvidence == TypeInv /\ WriteEvidence => TypeInv'
<1> SUFFICES ASSUME TypeInv, WriteEvidence PROVE TypeInv'
  OBVIOUS
<1>1. /\ iteration \in Iterations /\ Head(queue) \in EvidenceFiles
      /\ Tail(queue) \in Seq(EvidenceFiles)
      /\ EvidenceLeft => Tail(queue) # <<>>
  <2>1. iteration \in Iterations /\ queue # <<>>
    BY DEF TypeInv, LoopInv, InIteration, WriteEvidence
  <2>2. queue \in Seq(EvidenceFiles)
    BY DEF TypeInv, TypeOK
  <2>3. Head(queue) \in EvidenceFiles /\ Tail(queue) \in Seq(EvidenceFiles)
    BY <2>1, <2>2, HeadTailProperties
  <2>4. EvidenceLeft => Tail(queue) # <<>>
    <3>1. Len(Tail(queue)) = Len(queue) - 1 /\ Len(queue) \in Nat
      BY <2>1, <2>2, HeadTailProperties, LenProperties
    <3>2. EvidenceLeft => Len(Tail(queue)) # 0
      BY <3>1, SMTT(30) DEF EvidenceLeft
    <3>3. Len(<<>>) = 0
      OBVIOUS
    <3> QED
      BY <3>2, <3>3, Zenon
  <2> QED
    BY <2>1, <2>3, <2>4
<1>2. evidence' \in [Iterations ->
                       [files : [EvidenceFiles -> 0..MaxAttempts], phase : Phases]]
  <2> DEFINE File == Head(queue)
             Old == evidence[iteration]
             Kept == [Old.files EXCEPT ![File] = attempt]
             Phase == IF File = "controller_decision" THEN status.phase ELSE Old.phase
             Entry == [Old EXCEPT !.files = Kept, !.phase = Phase]
             Entries == [files : [EvidenceFiles -> 0..MaxAttempts], phase : Phases]
  <2>1. /\ evidence \in [Iterations -> Entries] /\ Old \in Entries
        /\ attempt \in 0..MaxAttempts /\ status.phase \in Phases
    BY <1>1 DEF TypeInv, TypeOK, Statuses
  <2>2. Kept \in [EvidenceFiles -> 0..MaxAttempts] /\ Phase \in Phases
    BY <1>1, <2>1
  <2>3. Entry \in Entries
    BY <2>1, <2>2
  <2>4. evidence' = [evidence EXCEPT ![iteration] = Entry]
    BY <1>1, <2>1 DEF WriteEvidence
  <2> HIDE DEF Entry, Entries
  <2>5. evidence' \in [Iterations -> Entries]
    BY <1>1, <2>1, <2>3, <2>4
  <2> QED
    BY <2>5 DEF Entries
<1> QED
  BY <1>1, <1>2
     DEF WriteEvidence, AfterEvidence, TypeInv, TypeOK, LoopInv, ActDue, InIteration, PCs

LEMMA TypeEnvironment == TypeInv /\ (Crash \/ UserEdit) => TypeInv'
<1> SUFFICES ASSUME TypeInv PROVE Crash \/ UserEdit => TypeInv'
  OBVIOUS
<1>1. ASSUME Crash PROVE TypeInv'
  <2>1. tree' \in Trees
    BY <1>1 DEF Crash, Rewrites, TypeInv, TypeOK
  <2>2. trace' \in Seq(Statuses)
    <3>1. trace \in Seq(Statuses)
      BY DEF TypeInv, TypeOK
    <3>2. trace' = trace \/ trace' = Append(trace, TornLine)
      BY <1>1 DEF Crash
    <3> QED
      BY <3>1, <3>2, BlankType, AppendProperties
  <2> QED
    BY <1>1, <2>1, <2>2
       DEF Crash, memory, TypeInv, TypeOK, LoopInv, ActDue, InIteration, PCs
<1>2. ASSUME UserEdit PROVE TypeInv'
  BY <1>2 DEF UserEdit, Rewrites, memory, disk, TypeInv, TypeOK, LoopInv, ActDue
<1> QED
  BY <1>1, <1>2

LEMMA TypeStep == TypeInv /\ [Next]_vars => TypeInv'
<1> SUFFICES ASSUME TypeInv, [Next]_vars PROVE TypeInv'
  OBVIOUS
<1>1. CASE UNCHANGED vars
  BY <1>1 DEF vars, memory, disk, TypeInv, TypeOK, LoopInv, ActDue
<1>2. CASE Next
  BY <1>2, TypeStart, TypeWriteStatus, TypeObserve, TypePreAccept, TypeAct,
     TypePostAccept, TypeWriteEvidence, TypeEnvironment DEF Next, Step
<1> QED
  BY <1>1, <1>2

\* Every variable keeps its type in every run of the engine, and neither the
\* loop counter nor the number of adapter calls passes the policy's bound.
THEOREM TypeCorrect == Spec => []TypeOK
<1>1. TypeInv => TypeOK
  BY DEF TypeInv
<1> QED
  BY <1>1, TypeInit, TypeStep, PTL DEF Spec

------------------------------------------------------------------------------
\* The stop_when of defaultLoopSpec.
StrictStop == StopHardGates /\ StopConditions /\ StopNoBlockers

------------------------------------------------------------------------------
(* Converged means accepted.                                                 *)

\* A pass on which the policy converges has nothing left to object to.
LEMMA ConvergesAccepted ==
  ASSUME StrictStop, NEW spent, NEW seen, NEW e \in Evaluations,
         ShouldConverge(e, CollectBlockers(spent, seen, e))
  PROVE  /\ e.failed = {} /\ e.missing = {} /\ e.unproved = {}
         /\ CollectBlockers(spent, seen, e) = {}
         /\ seen \cap DeniedFiles = {} /\ seen \subseteq AllowedFiles
<1>1. /\ e.failed = {} /\ e.missing = {} /\ e.unproved = {}
      /\ CollectBlockers(spent, seen, e) = {}
  BY DEF StrictStop, ShouldConverge
<1>2. ~(seen \cap DeniedFiles # {})
  <2>1. "denied" \notin CollectBlockers(spent, seen, e)
    BY <1>1
  <2> QED
    BY <2>1 DEF CollectBlockers, BlockerKinds
<1>3. ~(seen \ AllowedFiles # {})
  <2>1. "outside_allowed" \notin CollectBlockers(spent, seen, e)
    BY <1>1
  <2> QED
    BY <2>1 DEF CollectBlockers, BlockerKinds
<1> QED
  BY <1>1, <1>2, <1>3

\* decideAfterPostEvaluation says "converged" only when the policy does, and
\* "evaluating" on the last iteration only when max_iterations_reached is off.
LEMMA DecisionMeans ==
  ASSUME NEW e, NEW blockers, NEW r, NEW spent, NEW i \in 0..MaxIterations
  PROVE  LET d == DecideAfterPostEvaluation(e, blockers, r, spent, i) IN
         /\ d.phase = "converged" => ShouldConverge(e, blockers)
         /\ d.phase = "evaluating" /\ AbortMaxIterations => i < MaxIterations
<1> DEFINE d == DecideAfterPostEvaluation(e, blockers, r, spent, i)
<1>1. CASE ShouldConverge(e, blockers)
  <2>1. d \in {Decision("aborted", "violation"), Decision("converged", "policy")}
    BY <1>1 DEF DecideAfterPostEvaluation
  <2> QED
    BY <1>1, <2>1 DEF Decision
<1>2. CASE ~ShouldConverge(e, blockers)
  <2>1. d = Decision("evaluating", "continue") \/ \E x : d = Decision("aborted", x)
    BY <1>2 DEF DecideAfterPostEvaluation
  <2>2. d = Decision("evaluating", "continue") =>
          ~(AbortMaxIterations /\ i >= MaxIterations)
    BY <1>2 DEF DecideAfterPostEvaluation, Decision
  <2> QED
    BY <2>1, <2>2, PolicyAssumption DEF Decision
<1> QED
  BY <1>1, <1>2

\* Only the status to write can become a verdict, and only by a decision; the
\* files copy it.
AcceptedInv ==
  /\ Accepted(status) /\ Accepted(latest) /\ Accepted(progress)
  /\ \A n \in DOMAIN trace : Accepted(trace[n])

LEMMA BlankAccepted ==
  /\ Accepted(NoStatus) /\ Accepted(TornLine) /\ Accepted(GarbledLine)
  /\ \A a : Accepted(FirstStatus(a))
<1>1. \A a : FirstStatus(a).phase = "initialized"
  BY DEF FirstStatus, Status
<1>2. TornLine.phase = "initialized" /\ GarbledLine.phase = "initialized"
  BY DEF TornLine, GarbledLine, NoStatus, FirstStatus, Status
<1> QED
  BY <1>1, <1>2 DEF Accepted, NoStatus

LEMMA AcceptedPreAccept ==
  ASSUME StrictStop, TypeInv, AcceptedInv, PreAccept
  PROVE  AcceptedInv'
<1>1. PICK after \in Rewrites(tree, GateFiles) :
        tree' = after /\ \E e \in Acceptances(after) : PreDecide(e)
  BY DEF PreAccept
<1>2. PICK e \in Acceptances(after) : PreDecide(e)
  BY <1>1
<1>3. e \in Evaluations
  BY <1>1, AcceptanceType DEF TypeInv
<1> DEFINE B == CollectBlockers(FALSE, observed, e)
           S == Status(attempt, iteration, "converged", "policy", "pre_action",
                       observed, NoAction, e, B)
<1>4. CASE status' = status
  BY <1>4 DEF AcceptedInv, PreAccept, disk, Accepted
<1>5. CASE ShouldConverge(e, B) /\ status' = S
  <2>1. S.eval = e /\ S.blockers = B /\ S.observed = observed
    BY DEF Status
  <2>2. Accepted(S)
    <3> HIDE DEF S
    <3> QED
      BY <1>3, <1>5, <2>1, ConvergesAccepted DEF Accepted
  <2> HIDE DEF S
  <2>3. Accepted(status)'
    BY <1>5, <2>2 DEF Accepted
  <2> QED
    BY <2>3 DEF AcceptedInv, PreAccept, disk, Accepted
<1> QED
  BY <1>2, <1>4, <1>5 DEF PreDecide

LEMMA AcceptedPostAccept ==
  ASSUME StrictStop, TypeInv, AcceptedInv, PostAccept
  PROVE  AcceptedInv'
<1>1. PICK after \in Rewrites(tree, GateFiles) :
        tree' = after /\ \E e \in Acceptances(after) : PostDecide(e)
  BY DEF PostAccept
<1>2. PICK e \in Acceptances(after) : PostDecide(e)
  BY <1>1
<1>3. e \in Evaluations
  BY <1>1, AcceptanceType DEF TypeInv
<1> DEFINE B == CollectBlockers(action.budget, observed, e)
           D == DecideAfterPostEvaluation(e, B, rounds', action.budget, iteration)
           R == RoundStatus(e, B)
<1>4. status' = [R EXCEPT !.phase = D.phase, !.reason = D.reason]
  BY <1>2 DEF PostDecide
<1>5. /\ status'.phase = D.phase /\ status'.eval = e
      /\ status'.blockers = B /\ status'.observed = observed
  BY <1>4 DEF RoundStatus, Status
<1>6. D.phase = "converged" => ShouldConverge(e, B)
  BY DecisionMeans DEF TypeInv, TypeOK
<1>7. Accepted(status)'
  <2> SUFFICES ASSUME D.phase = "converged" PROVE Accepted(status')
    BY <1>5 DEF Accepted
  <2>1. ShouldConverge(e, B)
    BY <1>6
  <2> HIDE DEF D
  <2> QED
    BY <1>3, <1>5, <2>1, ConvergesAccepted DEF Accepted
<1> QED
  BY <1>7 DEF AcceptedInv, PostAccept, disk, Accepted

LEMMA AcceptedWriteStatus ==
  ASSUME TypeInv, AcceptedInv, AppendTrace \/ WriteLatest \/ WriteProgress
  PROVE  AcceptedInv'
<1>1. CASE AppendTrace
  <2>1. trace \in Seq(Statuses) /\ status \in Statuses
    BY DEF TypeInv, TypeOK
  <2>2. ASSUME NEW n \in DOMAIN trace' PROVE Accepted(trace'[n])
    <3>1. CASE Torn
      BY <1>1, <2>1, <2>2, <3>1, BlankAccepted DEF AppendTrace, AcceptedInv, Torn
    <3>2. CASE ~Torn
      BY <1>1, <2>1, <2>2, <3>2 DEF AppendTrace, AcceptedInv
    <3> QED
      BY <3>1, <3>2
  <2>3. UNCHANGED <<status, latest, progress>>
    BY <1>1 DEF AppendTrace, memory
  <2> QED
    BY <2>2, <2>3 DEF AcceptedInv, Accepted
<1>2. CASE WriteLatest
  BY <1>2 DEF WriteLatest, AcceptedInv, Accepted, memory
<1>3. CASE WriteProgress
  BY <1>3 DEF WriteProgress, AcceptedInv, Accepted
<1> QED
  BY <1>1, <1>2, <1>3

LEMMA AcceptedCrash == TypeInv /\ AcceptedInv /\ Crash => AcceptedInv'
<1> SUFFICES ASSUME TypeInv, AcceptedInv, Crash PROVE AcceptedInv'
  OBVIOUS
<1>1. trace \in Seq(Statuses)
  BY DEF TypeInv, TypeOK
<1>2. trace' = trace \/ trace' = Append(trace, TornLine)
  BY DEF Crash
<1>3. ASSUME NEW n \in DOMAIN trace' PROVE Accepted(trace'[n])
  BY <1>1, <1>2, BlankType, BlankAccepted DEF AcceptedInv
<1> QED
  BY <1>3 DEF AcceptedInv, Accepted, Crash, memory

LEMMA AcceptedStep == StrictStop /\ TypeInv /\ AcceptedInv /\ [Next]_vars => AcceptedInv'
<1> SUFFICES ASSUME StrictStop, TypeInv, AcceptedInv, [Next]_vars PROVE AcceptedInv'
  OBVIOUS
<1>1. CASE UNCHANGED <<status, trace, latest, progress>>
  BY <1>1 DEF AcceptedInv, Accepted
<1>2. CASE Start
  <2>1. Accepted(status)'
    BY <1>2, BlankAccepted DEF Start, Accepted
  <2> QED
    BY <1>2, <2>1 DEF Start, disk, AcceptedInv, Accepted
<1>3. CASE PreObserve \/ PostObserve \/ Act \/ WriteEvidence \/ UserEdit \/ UNCHANGED vars
  BY <1>1, <1>3
     DEF PreObserve, PostObserve, ObserveWorkspace, Act, WriteEvidence, UserEdit,
         vars, disk, memory
<1> QED
  BY <1>2, <1>3, AcceptedPreAccept, AcceptedPostAccept, AcceptedWriteStatus,
     AcceptedCrash DEF Next, Step

\* Under the strict stop policy nobody ever reads a "converged" that has a
\* failed required check, missing evidence or condition, an unresolved
\* blocker, or a changed file outside the constraints of the goal.
THEOREM ConvergedMeansAccepted ==
  StrictStop => (Spec => []ConvergedIsAccepted)
<1> SUFFICES ASSUME StrictStop PROVE Spec => []ConvergedIsAccepted
  OBVIOUS
<1>1. Init => AcceptedInv
  BY BlankAccepted DEF Init, AcceptedInv
<1>2. TypeInv /\ AcceptedInv /\ [Next]_vars => AcceptedInv'
  BY AcceptedStep
<1>3. AcceptedInv => ConvergedIsAccepted
  BY DEF AcceptedInv, ConvergedIsAccepted, Shown, Recorded
<1> QED
  BY <1>1, <1>2, <1>3, TypeInit, TypeStep, PTL DEF Spec

------------------------------------------------------------------------------
(* The rounds of a run: an attempt that ends has a verdict to show, and     *)
(* what status.latest.json shows over time follows the abstract RunVerdict. *)

Writing == {"append", "latest", "progress"}

\* Where an attempt is between two statuses.  The status to write is the one
\* of the iteration that is going on once that one is decided, and of the one
\* before until then; status.latest.json lags behind by at most one write, and
\* a round only begins while it shows the run as open.
RoundInv ==
  /\ attempt = 0 => pc = "idle"
  /\ pc \in Writing \cup InIteration => status.attempt = attempt
  /\ pc \in Writing => status.iteration = iteration
  /\ pc \in Writing /\ iteration = 0 => status.phase = "initialized"
  /\ pc \in {"pre_observe", "pre_accept", "act", "post_observe", "post_accept"}
       => status.iteration = iteration - 1
  /\ pc = "evidence" => status.iteration \in {iteration - 1, iteration}
  /\ pc = "progress" => latest = status
  /\ pc \in InIteration \/ (pc \in {"append", "latest"} /\ iteration > 0) =>
       /\ latest.iteration = iteration - 1
       /\ latest.phase \in Open /\ latest.attempt # 0

\* The last round has a verdict, for the policy that aborts there.
LastRoundInv ==
  AbortMaxIterations =>
    /\ pc \in Writing \cup {"evidence"} /\ status.iteration = iteration
         /\ status.phase \in Open => iteration < MaxIterations
    /\ pc = "done" => progress.phase \in Final

------------------------------------------------------------------------------

\* What deciding does to the status.
LEMMA PreDecided ==
  ASSUME NEW e, PreDecide(e)
  PROVE  \/ status' = status
         \/ /\ status'.attempt = attempt /\ status'.iteration = iteration
            /\ status'.phase = "converged"
<1> DEFINE S == Status(attempt, iteration, "converged", "policy", "pre_action",
                       observed, NoAction, e, CollectBlockers(FALSE, observed, e))
<1>1. status' = status \/ status' = S
  BY DEF PreDecide
<1>2. S.attempt = attempt /\ S.iteration = iteration /\ S.phase = "converged"
  BY DEF Status
<1> HIDE DEF S
<1> QED
  BY <1>1, <1>2

LEMMA PostDecided ==
  ASSUME TypeInv, NEW e, PostDecide(e)
  PROVE  /\ status'.attempt = attempt /\ status'.iteration = iteration
         /\ status'.phase \in {"evaluating"} \cup Final
         /\ AbortMaxIterations /\ status'.phase = "evaluating"
              => iteration < MaxIterations
<1> DEFINE B == CollectBlockers(action.budget, observed, e)
           D == DecideAfterPostEvaluation(e, B, rounds', action.budget, iteration)
<1>1. status' = [RoundStatus(e, B) EXCEPT !.phase = D.phase, !.reason = D.reason]
  BY DEF PostDecide
<1>2. /\ status'.phase = D.phase
      /\ status'.attempt = attempt /\ status'.iteration = iteration
  BY <1>1 DEF RoundStatus, Status
<1>3. iteration \in 0..MaxIterations
  BY DEF TypeInv, TypeOK
<1>4. D \in Decisions
  BY DecisionType
<1>5. D.phase = "evaluating" /\ AbortMaxIterations => iteration < MaxIterations
  BY <1>3, DecisionMeans
<1> HIDE DEF D
<1> QED
  BY <1>2, <1>4, <1>5 DEF Decisions, Final

LEMMA RoundInit == Init => RoundInv /\ LastRoundInv
BY DEF Init, RoundInv, LastRoundInv, Writing, InIteration

LEMMA RoundStart == TypeInv /\ Start => RoundInv' /\ LastRoundInv'
<1> SUFFICES ASSUME TypeInv, Start PROVE RoundInv' /\ LastRoundInv'
  OBVIOUS
<1>1. attempt' # 0 /\ attempt' = attempt + 1
  BY DEF TypeInv, TypeOK, Start
<1>2. /\ status'.attempt = attempt' /\ status'.iteration = 0
      /\ status'.phase = "initialized"
  BY <1>1 DEF Start, FirstStatus, Status
<1> QED
  BY <1>1, <1>2, PolicyAssumption
     DEF Start, RoundInv, LastRoundInv, Writing, InIteration

LEMMA RoundWriteStatus ==
  ASSUME TypeInv, RoundInv, LastRoundInv, AppendTrace \/ WriteLatest \/ WriteProgress
  PROVE  RoundInv' /\ LastRoundInv'
<1>1. CASE AppendTrace
  BY <1>1 DEF AppendTrace, memory, RoundInv, LastRoundInv, Writing, InIteration
<1>2. CASE WriteLatest
  BY <1>2 DEF WriteLatest, memory, RoundInv, LastRoundInv, Writing, InIteration
<1>3. CASE WriteProgress
  <2>1. iteration \in 0..MaxIterations /\ status \in Statuses
    BY DEF TypeInv, TypeOK
  <2> QED
    BY <1>3, <2>1
       DEF WriteProgress, LoopGoesOn, RoundInv, LastRoundInv, Writing, InIteration,
           Open, Final, Statuses, Phases
<1> QED
  BY <1>1, <1>2, <1>3

LEMMA RoundAccept ==
  ASSUME TypeInv, RoundInv, LastRoundInv, PreAccept \/ PostAccept
  PROVE  RoundInv' /\ LastRoundInv'
<1>1. iteration \in 0..MaxIterations
  BY DEF TypeInv, TypeOK
<1>2. CASE PreAccept
  <2>1. PICK e : PreDecide(e)
    BY <1>2 DEF PreAccept
  <2>2. \/ status' = status
        \/ /\ status'.attempt = attempt /\ status'.iteration = iteration
           /\ status'.phase = "converged"
    BY <2>1, PreDecided
  <2> QED
    BY <1>1, <1>2, <2>2
       DEF PreAccept, disk, RoundInv, LastRoundInv, Writing, InIteration, Open
<1>3. CASE PostAccept
  <2>1. PICK e : PostDecide(e)
    BY <1>3 DEF PostAccept
  <2>2. /\ status'.attempt = attempt /\ status'.iteration = iteration
        /\ AbortMaxIterations /\ status'.phase = "evaluating"
             => iteration < MaxIterations
        /\ status'.phase \in {"evaluating"} \cup Final
    BY <2>1, PostDecided
  <2> QED
    BY <1>1, <1>3, <2>2
       DEF PostAccept, disk, RoundInv, LastRoundInv, Writing, InIteration, Open, Final
<1> QED
  BY <1>2, <1>3

LEMMA RoundStep == TypeInv /\ RoundInv /\ LastRoundInv /\ [Next]_vars
                     => RoundInv' /\ LastRoundInv'
<1> SUFFICES ASSUME TypeInv, RoundInv, LastRoundInv, [Next]_vars
             PROVE  RoundInv' /\ LastRoundInv'
  OBVIOUS
<1> USE DEF RoundInv, LastRoundInv, Writing, InIteration
<1>1. CASE PreObserve \/ PostObserve
  BY <1>1 DEF PreObserve, PostObserve, ObserveWorkspace, disk
<1>2. CASE Act
  BY <1>2 DEF Act, disk
<1>3. CASE WriteEvidence
  <2>1. UNCHANGED <<attempt, iteration, status, latest, progress>>
    BY <1>3 DEF WriteEvidence, AfterEvidence
  <2>2. pc = "evidence" /\ pc' \in {"evidence", "append", "act"}
    BY <1>3 DEF WriteEvidence, AfterEvidence
  <2>3. /\ pc' = "append" => status.iteration = iteration
        /\ pc' = "act" => status.iteration # iteration
    BY <1>3 DEF WriteEvidence, AfterEvidence
  <2>4. iteration \in Iterations
    BY <2>2 DEF TypeInv, LoopInv
  <2> QED
    BY <2>1, <2>2, <2>3, <2>4, PolicyAssumption DEF Iterations
<1>4. CASE Crash
  BY <1>4 DEF Crash, memory
<1>5. CASE UserEdit \/ UNCHANGED vars
  BY <1>5 DEF UserEdit, vars, memory, disk
<1> QED
  BY <1>1, <1>2, <1>3, <1>4, <1>5, RoundStart, RoundWriteStatus, RoundAccept
     DEF Next, Step

\* With abort_when.max_iterations_reached (the default), an attempt that ends by
\* itself leaves a progress.md with a final verdict.
THEOREM EndedRunHasVerdict ==
  AbortMaxIterations => (Spec => []FinishedRunHasVerdict)
<1> SUFFICES ASSUME AbortMaxIterations PROVE Spec => []FinishedRunHasVerdict
  OBVIOUS
<1>1. LastRoundInv => FinishedRunHasVerdict
  BY DEF LastRoundInv, FinishedRunHasVerdict
<1> QED
  BY <1>1, RoundInit, RoundStep, TypeInit, TypeStep, PTL DEF Spec

------------------------------------------------------------------------------
(* Refinement.                                                               *)

LEMMA ShowsInit == Init => Shows!VInit
BY DEF Init, Shows!VInit, NoStatus, FirstStatus, Status

\* Only WriteLatest changes what is shown: the first status of an attempt
\* opens the run, any other one advances it.
LEMMA ShowsWriteLatest ==
  ASSUME TypeInv, RoundInv, WriteLatest
  PROVE  Shows!VNext
<1>1. latest' = status /\ pc = "latest"
  BY DEF WriteLatest
<1>2. NoStatus.attempt = 0
  BY DEF NoStatus, FirstStatus, Status
<1>3. /\ status # NoStatus
      /\ status.iteration = iteration /\ iteration \in 0..MaxIterations
      /\ status.phase \in Phases
  BY <1>1, <1>2 DEF RoundInv, Writing, TypeInv, TypeOK, Statuses
<1>4. CASE iteration = 0
  <2>1. status.phase = "initialized"
    BY <1>1, <1>4 DEF RoundInv, Writing
  <2> QED
    BY <1>1, <1>3, <1>4, <2>1 DEF Shows!VNext, Shows!Open, Open
<1>5. CASE iteration > 0
  <2>1. /\ latest.iteration = iteration - 1 /\ latest.phase \in Open
        /\ latest # NoStatus
    BY <1>1, <1>2, <1>5 DEF RoundInv
  <2>2. status.phase \in Open \/ status.phase \in Shows!Verdicts
    BY <1>3 DEF Phases, Open, Shows!Verdicts
  <2> QED
    BY <1>1, <1>3, <1>5, <2>1, <2>2, PolicyAssumption
       DEF Shows!VNext, Shows!Advance, Shows!Verdicts, Open
<1> QED
  BY <1>3, <1>4, <1>5

LEMMA ShowsStep ==
  TypeInv /\ RoundInv /\ [Next]_vars => [Shows!VNext]_(Shows!verdictVars)
<1> SUFFICES ASSUME TypeInv, RoundInv, [Next]_vars
             PROVE  [Shows!VNext]_(Shows!verdictVars)
  OBVIOUS
<1>1. CASE UNCHANGED latest
  BY <1>1 DEF Shows!verdictVars
<1>2. CASE WriteLatest
  BY <1>2, ShowsWriteLatest
<1> QED
  BY <1>1, <1>2
     DEF Next, Step, Start, AppendTrace, WriteProgress, PreObserve, PostObserve,
         ObserveWorkspace, PreAccept, PostAccept, Act, WriteEvidence, Crash,
         UserEdit, vars, disk

\* status.latest.json implements the abstract run: one round at a time, at most
\* MaxIterations of them, and a verdict that stays until the run id is started
\* again, whatever crashes and restarts happen in between.
THEOREM ShowsRunVerdict == Spec => ShowsBoundedRun
<1> QED
  BY ShowsInit, ShowsStep, RoundInit, RoundStep, TypeInit, TypeStep, PTL
     DEF Spec, ShowsBoundedRun, Shows!VSpec

------------------------------------------------------------------------------
(* An iteration that is not decided still shows the status before it.        *)

Undecided == pc \in InIteration /\ status.iteration # iteration

UndecidedInv ==
  Undecided => latest = status /\ progress = status /\ status.phase \in Open

BaseInv == TypeInv /\ RoundInv /\ UndecidedInv

LEMMA UndecidedStep == TypeInv /\ RoundInv /\ UndecidedInv /\ [Next]_vars => UndecidedInv'
<1> SUFFICES ASSUME TypeInv, RoundInv, UndecidedInv, [Next]_vars PROVE UndecidedInv'
  OBVIOUS
<1> USE DEF UndecidedInv, Undecided, InIteration
<1>1. iteration \in Nat
  BY PolicyAssumption DEF TypeInv, TypeOK
<1>2. CASE WriteProgress
  BY <1>1, <1>2 DEF WriteProgress, LoopGoesOn, RoundInv, Writing
<1>3. CASE PreAccept
  <2>1. PICK e : PreDecide(e)
    BY <1>3 DEF PreAccept
  <2>2. status' = status \/ status'.iteration = iteration
    BY <2>1, PreDecided
  <2> QED
    BY <1>3, <2>2 DEF PreAccept, disk, RoundInv
<1>4. CASE PostAccept
  <2>1. PICK e : PostDecide(e)
    BY <1>4 DEF PostAccept
  <2>2. status'.iteration = iteration
    BY <2>1, PostDecided
  <2> QED
    BY <1>4, <2>2 DEF PostAccept
<1>5. CASE PreObserve \/ PostObserve \/ Act
  BY <1>5 DEF PreObserve, PostObserve, ObserveWorkspace, Act, disk
<1>6. CASE WriteEvidence
  BY <1>6 DEF WriteEvidence, AfterEvidence
<1>7. CASE Start \/ AppendTrace \/ WriteLatest \/ Crash
  BY <1>7 DEF Start, AppendTrace, WriteLatest, Crash
<1>8. CASE UserEdit \/ UNCHANGED vars
  BY <1>8 DEF UserEdit, vars, memory, disk
<1> QED
  BY <1>2, <1>3, <1>4, <1>5, <1>6, <1>7, <1>8 DEF Next, Step

LEMMA BaseInit == Init => BaseInv
BY TypeInit, RoundInit DEF BaseInv, UndecidedInv, Undecided, InIteration, Init

\* RoundInv needs LastRoundInv for no policy but the one that aborts at the
\* last iteration; here it is kept alone.
LEMMA BaseStep == BaseInv /\ LastRoundInv /\ [Next]_vars => BaseInv' /\ LastRoundInv'
BY TypeStep, RoundStep, UndecidedStep DEF BaseInv

------------------------------------------------------------------------------
(* The ledger only grows, by whole lines: what a crash cuts off is no line,  *)
(* and the line it garbles is the first of the next attempt.                 *)

NotLines == {"torn", "garbled"}

LinesInv ==
  /\ status.stage \notin NotLines
  /\ Torn => pc = "idle" \/ (pc = "append" /\ iteration = 0)

LedgerKept ==
  Recorded' = Recorded /\ \A n \in Recorded : trace'[n] = trace[n]

LedgerGrows ==
  /\ Recorded' = Recorded \cup {Len(trace) + 1}
  /\ Len(trace) + 1 \notin Recorded
  /\ trace'[Len(trace) + 1] = status
  /\ \A n \in Recorded : trace'[n] = trace[n]

LEMMA LineStages ==
  /\ NoStatus.stage \notin NotLines
  /\ TornLine.stage = "torn" /\ GarbledLine.stage = "garbled"
  /\ \A a : FirstStatus(a).stage \notin NotLines
BY DEF NoStatus, TornLine, GarbledLine, FirstStatus, Status, NotLines

LEMMA AppendLedger ==
  ASSUME TypeInv, LinesInv, AppendTrace
  PROVE  /\ LedgerGrows \/ (iteration = 0 /\ LedgerKept)
         /\ trace' # <<>> /\ trace'[Len(trace')] # TornLine
<1>1. trace \in Seq(Statuses) /\ status \in Statuses /\ pc = "append"
  BY DEF TypeInv, TypeOK, AppendTrace
<1>2. CASE Torn
  <2>1. /\ Len(trace) \in DOMAIN trace /\ trace[Len(trace)].stage \in NotLines
        /\ trace' = [trace EXCEPT ![Len(trace)] = GarbledLine]
    BY <1>1, <1>2, LineStages DEF AppendTrace, Torn, NotLines
  <2>2. DOMAIN trace' = DOMAIN trace /\ Len(trace') = Len(trace)
    BY <1>1, <2>1
  <2>3. trace'[Len(trace)] = GarbledLine
    BY <1>1, <2>1
  <2>4. \A n \in DOMAIN trace : n # Len(trace) => trace'[n] = trace[n]
    BY <1>1, <2>1
  <2>5. LedgerKept
    BY <2>1, <2>2, <2>3, <2>4, LineStages DEF LedgerKept, Recorded, NotLines
  <2>6. GarbledLine # TornLine
    BY LineStages
  <2>7. iteration = 0
    BY <1>1, <1>2 DEF LinesInv
  <2> QED
    BY <1>1, <2>1, <2>2, <2>3, <2>5, <2>6, <2>7
<1>3. CASE ~Torn
  <2>1. trace' = Append(trace, status)
    BY <1>3 DEF AppendTrace
  <2>2. /\ Len(trace') = Len(trace) + 1 /\ Len(trace) \in Nat
        /\ DOMAIN trace = 1..Len(trace) /\ DOMAIN trace' = 1..(Len(trace) + 1)
        /\ trace'[Len(trace) + 1] = status
        /\ \A n \in DOMAIN trace : trace'[n] = trace[n]
    BY <1>1, <2>1
  <2>3. LedgerGrows
    BY <2>2 DEF LedgerGrows, Recorded, LinesInv, NotLines
  <2>4. status # TornLine
    BY LineStages DEF LinesInv, NotLines
  <2> QED
    BY <2>2, <2>3, <2>4
<1> QED
  BY <1>2, <1>3

\* A crash in the middle of an append leaves a line that is none.
LEMMA CrashLedger ==
  ASSUME TypeInv, Crash
  PROVE  LedgerKept
<1>1. trace \in Seq(Statuses)
  BY DEF TypeInv, TypeOK
<1>2. CASE trace' = trace
  BY <1>2 DEF LedgerKept, Recorded
<1>3. CASE trace' = Append(trace, TornLine)
  <2>1. /\ Len(trace) \in Nat
        /\ DOMAIN trace = 1..Len(trace) /\ DOMAIN trace' = 1..(Len(trace) + 1)
        /\ trace'[Len(trace) + 1] = TornLine
        /\ \A n \in DOMAIN trace : trace'[n] = trace[n]
    BY <1>1, <1>3
  <2> QED
    BY <2>1, LineStages DEF LedgerKept, Recorded, NotLines
<1> QED
  BY <1>2, <1>3 DEF Crash

LEMMA LedgerStep ==
  ASSUME TypeInv, LinesInv, [Next]_vars
  PROVE  \/ AppendTrace /\ (LedgerGrows \/ (iteration = 0 /\ LedgerKept))
         \/ ~AppendTrace /\ LedgerKept
<1>1. CASE AppendTrace
  BY <1>1, AppendLedger
<1>2. CASE ~AppendTrace /\ UNCHANGED trace
  BY <1>2 DEF LedgerKept, Recorded
<1>3. CASE ~AppendTrace /\ Crash
  BY <1>3, CrashLedger
<1> QED
  BY <1>1, <1>2, <1>3
     DEF Next, Step, Start, WriteLatest, WriteProgress, PreObserve, PostObserve,
         ObserveWorkspace, PreAccept, PostAccept, Act, WriteEvidence, UserEdit,
         vars, disk

LEMMA DecidedStage ==
  ASSUME LinesInv, NEW e, PreDecide(e) \/ PostDecide(e)
  PROVE  status'.stage \notin NotLines
<1>1. CASE PreDecide(e)
  <2> DEFINE S == Status(attempt, iteration, "converged", "policy", "pre_action",
                         observed, NoAction, e, CollectBlockers(FALSE, observed, e))
  <2>1. S.stage = "pre_action"
    BY DEF Status
  <2>2. status' = status \/ status' = S
    BY <1>1 DEF PreDecide
  <2> HIDE DEF S
  <2> QED
    BY <2>1, <2>2 DEF LinesInv, NotLines
<1>2. CASE PostDecide(e)
  <2>1. PICK d, B : status' = [RoundStatus(e, B) EXCEPT !.phase = d.phase, !.reason = d.reason]
    BY <1>2 DEF PostDecide
  <2>2. status'.stage = "post_action"
    BY <2>1 DEF RoundStatus, Status
  <2> QED
    BY <2>2 DEF NotLines
<1> QED
  BY <1>1, <1>2

LEMMA LinesInit == Init => LinesInv
BY LineStages DEF Init, LinesInv, Torn

\* Only a crash tears the last line, and only the attempt that follows it
\* finds one torn.
LEMMA LinesStep == TypeInv /\ LinesInv /\ [Next]_vars => LinesInv'
<1> SUFFICES ASSUME TypeInv, LinesInv, [Next]_vars PROVE LinesInv'
  OBVIOUS
<1>1. CASE Start
  BY <1>1, LineStages DEF Start, LinesInv, Torn, disk
<1>2. CASE AppendTrace
  BY <1>2, AppendLedger DEF AppendTrace, memory, LinesInv, Torn
<1>3. CASE PreAccept \/ PostAccept
  <2>1. status'.stage \notin NotLines
    BY <1>3, DecidedStage DEF PreAccept, PostAccept
  <2> QED
    BY <1>3, <2>1 DEF PreAccept, PostAccept, disk, LinesInv, Torn
<1>4. CASE Crash
  BY <1>4 DEF Crash, memory, LinesInv
<1>5. CASE UNCHANGED <<status, trace, pc>> /\ UNCHANGED iteration
  BY <1>5 DEF LinesInv, Torn
<1>6. CASE pc \notin {"idle", "append"} /\ UNCHANGED <<status, trace>>
  BY <1>6 DEF LinesInv, Torn
<1> QED
  BY <1>1, <1>2, <1>3, <1>4, <1>5, <1>6
     DEF Next, Step, WriteLatest, WriteProgress, PreObserve, PostObserve,
         ObserveWorkspace, Act, WriteEvidence, UserEdit, vars, memory, disk

------------------------------------------------------------------------------
(* A verdict is in the ledger before it is anywhere else.                    *)

HasLine(s) == \E n \in Recorded : trace[n] = s

VerdictInv ==
  /\ pc \in {"latest", "progress"} /\ status.phase \in Final => HasLine(status)
  /\ latest.phase \in Final => HasLine(latest)
  /\ progress.phase \in Final => HasLine(progress)

\* What is in the ledger stays there.
LEMMA LinesStay ==
  ASSUME NEW s, HasLine(s), LedgerKept \/ LedgerGrows
  PROVE  HasLine(s)'
BY DEF HasLine, LedgerKept, LedgerGrows

LEMMA VerdictStep ==
  BaseInv /\ LinesInv /\ VerdictInv /\ [Next]_vars => VerdictInv'
<1> SUFFICES ASSUME BaseInv, LinesInv, VerdictInv, [Next]_vars PROVE VerdictInv'
  OBVIOUS
<1>1. LedgerKept \/ LedgerGrows
  BY LedgerStep DEF BaseInv
<1>2. CASE AppendTrace
  <2>1. UNCHANGED <<status, latest, progress, iteration>> /\ pc = "append"
    BY <1>2 DEF AppendTrace, memory
  <2>2. CASE LedgerGrows
    <3>1. HasLine(status)'
      BY <2>1, <2>2 DEF HasLine, LedgerGrows
    <3>2. /\ latest.phase \in Final => HasLine(latest)'
          /\ progress.phase \in Final => HasLine(progress)'
      BY <2>1, <1>1, LinesStay DEF VerdictInv, HasLine
    <3> QED
      BY <2>1, <3>1, <3>2 DEF VerdictInv
  <2>3. CASE iteration = 0 /\ LedgerKept
    <3>1. status.phase = "initialized"
      BY <2>1, <2>3 DEF BaseInv, RoundInv, Writing
    <3>2. /\ latest.phase \in Final => HasLine(latest)'
          /\ progress.phase \in Final => HasLine(progress)'
      BY <2>1, <1>1, LinesStay DEF VerdictInv, HasLine
    <3> QED
      BY <2>1, <3>1, <3>2 DEF VerdictInv, Final
  <2> QED
    BY <1>2, <2>2, <2>3, LedgerStep DEF BaseInv
<1>3. CASE WriteLatest
  <2>1. UNCHANGED <<status, progress, trace>> /\ latest' = status /\ pc = "latest"
    BY <1>3 DEF WriteLatest, memory
  <2> QED
    BY <2>1 DEF VerdictInv, HasLine, Recorded
<1>4. CASE WriteProgress
  <2>1. /\ UNCHANGED <<status, latest, trace>> /\ progress' = status
        /\ pc = "progress" /\ pc' \in {"pre_observe", "done"}
    BY <1>4 DEF WriteProgress
  <2> QED
    BY <2>1 DEF VerdictInv, HasLine, Recorded
<1>5. CASE UNCHANGED <<latest, progress>> /\ pc' \notin {"latest", "progress"}
  BY <1>1, <1>5, LinesStay DEF VerdictInv, HasLine
<1>6. CASE UNCHANGED <<latest, progress, status, pc, trace>>
  BY <1>6 DEF VerdictInv, HasLine, Recorded
<1> QED
  BY <1>2, <1>3, <1>4, <1>5, <1>6
     DEF Next, Step, Start, PreObserve, PostObserve, ObserveWorkspace, PreAccept,
         PostAccept, Act, WriteEvidence, AfterEvidence, Crash, UserEdit, vars,
         memory, disk

\* Whatever an attempt was doing when it died, a verdict anybody reads in
\* status.latest.json or progress.md is a whole line of the ledger.
THEOREM VerdictLogged == Spec => []VerdictIsLogged
<1>1. Init => VerdictInv
  BY DEF Init, VerdictInv, Final, NoStatus, FirstStatus, Status
<1>2. VerdictInv => VerdictIsLogged
  BY DEF VerdictInv, VerdictIsLogged, HasLine
<1>3. Init => BaseInv /\ LastRoundInv /\ LinesInv
  BY BaseInit, RoundInit, LinesInit
<1>4. BaseInv => TypeInv
  BY DEF BaseInv
<1> QED
  BY <1>1, <1>2, <1>3, <1>4, BaseStep, LinesStep, VerdictStep, PTL DEF Spec

------------------------------------------------------------------------------
(* Evidence is complete before the status that refers to it is written, and  *)
(* the next round writes somewhere else.                                     *)

WrittenNow(f) == evidence[iteration].files[f] = attempt
Queued(f) == \E k \in 1..Len(queue) : queue[k] = f

EvidenceInv ==
  /\ pc \in {"act", "post_observe", "post_accept"} => WrittenNow("pre_gate_results")
  /\ pc = "evidence" /\ status.iteration # iteration =>
       queue = <<"pre_gate_results">>
  /\ pc = "evidence" /\ status.iteration = iteration =>
       /\ \A f \in EvidenceFiles : Queued(f) \/ WrittenNow(f)
       /\ Queued("controller_decision") \/ evidence[iteration].phase = status.phase
  /\ pc \in {"append", "latest"} /\ iteration > 0 =>
       /\ \A f \in EvidenceFiles : WrittenNow(f)
       /\ evidence[iteration].phase = status.phase
  /\ EvidenceMatchesLatest

\* What an acceptance pass queues is all that the pass before the action, if it
\* was one, has not written.
LEMMA EvidenceAccept ==
  ASSUME BaseInv, EvidenceInv, PreAccept \/ PostAccept
  PROVE  EvidenceInv'
<1>1. /\ pc' = "evidence" /\ UNCHANGED <<iteration, attempt, evidence, latest>>
      /\ iteration \in Nat
  BY PolicyAssumption DEF PreAccept, PostAccept, disk, BaseInv, TypeInv, TypeOK
<1>2. EvidenceMatchesLatest'
  BY <1>1 DEF EvidenceInv, EvidenceMatchesLatest
<1>3. CASE PreAccept
  <2>1. PICK e : PreDecide(e)
    BY <1>3 DEF PreAccept
  <2>2. status.iteration = iteration - 1
    BY <1>3 DEF PreAccept, BaseInv, RoundInv
  <2>3. CASE status' = status /\ queue' = <<"pre_gate_results">>
    BY <1>1, <1>2, <2>2, <2>3 DEF EvidenceInv
  <2>4. CASE queue' = <<"pre_gate_results", "changed_files", "post_gate_results",
                        "gate_results", "controller_decision">>
             /\ status'.iteration = iteration
    <3>1. /\ Len(queue') = 5
          /\ queue'[1] = "pre_gate_results" /\ queue'[2] = "changed_files"
          /\ queue'[3] = "post_gate_results" /\ queue'[4] = "gate_results"
          /\ queue'[5] = "controller_decision"
      BY <2>4
    <3>2. \A f \in EvidenceFiles : Queued(f)'
      BY <3>1 DEF Queued, EvidenceFiles
    <3>3. Queued("controller_decision")'
      BY <3>1 DEF Queued
    <3> QED
      BY <1>1, <1>2, <2>4, <3>2, <3>3 DEF EvidenceInv
  <2> DEFINE S == Status(attempt, iteration, "converged", "policy", "pre_action",
                         observed, NoAction, e, CollectBlockers(FALSE, observed, e))
  <2>5. S.iteration = iteration
    BY DEF Status
  <2>6. \/ status' = status /\ queue' = <<"pre_gate_results">>
        \/ /\ queue' = <<"pre_gate_results", "changed_files", "post_gate_results",
                          "gate_results", "controller_decision">>
           /\ status' = S
    BY <2>1 DEF PreDecide
  <2> HIDE DEF S
  <2> QED
    BY <2>3, <2>4, <2>5, <2>6
<1>4. CASE PostAccept
  <2>1. PICK e : PostDecide(e)
    BY <1>4 DEF PostAccept
  <2>2. status'.iteration = iteration
    BY <2>1, PostDecided DEF BaseInv
  <2>3. queue' = <<"post_gate_results", "changed_files", "gate_results",
                   "controller_decision">>
    BY <1>4 DEF PostAccept
  <2>4. /\ Len(queue') = 4
        /\ queue'[1] = "post_gate_results" /\ queue'[2] = "changed_files"
        /\ queue'[3] = "gate_results" /\ queue'[4] = "controller_decision"
    BY <2>3
  <2>5. \A f \in EvidenceFiles \ {"pre_gate_results"} : Queued(f)'
    BY <2>4 DEF Queued, EvidenceFiles
  <2>6. Queued("controller_decision")'
    BY <2>4 DEF Queued
  <2>7. WrittenNow("pre_gate_results")'
    BY <1>1, <1>4 DEF PostAccept, EvidenceInv, WrittenNow
  <2> QED
    BY <1>1, <1>2, <2>2, <2>5, <2>6, <2>7 DEF EvidenceInv
<1> QED
  BY <1>3, <1>4

LEMMA EvidenceWrite ==
  ASSUME BaseInv, EvidenceInv, WriteEvidence
  PROVE  EvidenceInv'
<1> DEFINE h == Head(queue)
<1>1. /\ pc = "evidence" /\ iteration \in Iterations /\ attempt \in 0..MaxAttempts
      /\ queue \in Seq(EvidenceFiles) /\ queue # <<>>
      /\ status \in Statuses
      /\ evidence \in [Iterations ->
                          [files : [EvidenceFiles -> 0..MaxAttempts], phase : Phases]]
  BY DEF WriteEvidence, BaseInv, TypeInv, TypeOK, LoopInv, InIteration
<1>2. /\ UNCHANGED <<iteration, attempt, status, latest>>
      /\ queue' = Tail(queue) /\ pc' \in {"evidence", "append", "act"}
      /\ pc' = "evidence" <=> Len(queue) > 1
      /\ pc' = "append" => status.iteration = iteration
      /\ pc' = "act" => status.iteration # iteration
  BY DEF WriteEvidence, AfterEvidence, EvidenceLeft
<1>3. h \in EvidenceFiles /\ h = queue[1] /\ Len(queue) \in Nat /\ Len(queue) > 0
  BY <1>1
<1>4. /\ evidence'[iteration].files[h] = attempt
      /\ \A f \in EvidenceFiles : WrittenNow(f) => evidence'[iteration].files[f] = attempt
      /\ h = "controller_decision" => evidence'[iteration].phase = status.phase
      /\ h # "controller_decision" => evidence'[iteration].phase = evidence[iteration].phase
      /\ \A i \in Iterations : i # iteration => evidence'[i] = evidence[i]
  BY <1>1, <1>3 DEF WriteEvidence, WrittenNow
<1>5. EvidenceMatchesLatest'
  <2>1. latest.iteration = iteration - 1 /\ latest.iteration \in 0..MaxIterations
    BY <1>1 DEF BaseInv, RoundInv, InIteration, TypeInv, TypeOK, Statuses
  <2> QED
    BY <1>1, <1>2, <1>4, <2>1, PolicyAssumption
       DEF EvidenceInv, EvidenceMatchesLatest, Iterations
<1>6. /\ Len(queue') = Len(queue) - 1
      /\ \A k \in 2..Len(queue) : queue'[k - 1] = queue[k]
  BY <1>1, <1>2
<1>7. \A f : Queued(f) => f = h \/ Queued(f)'
  <2> SUFFICES ASSUME NEW k \in 1..Len(queue), queue[k] # h
               PROVE  \E j \in 1..Len(queue') : queue'[j] = queue[k]
    BY DEF Queued
  <2>1. k \in 2..Len(queue)
    BY <1>3
  <2> QED
    BY <1>3, <1>6, <2>1
<1>8. CASE status.iteration = iteration
  <2>1. \A f \in EvidenceFiles : Queued(f)' \/ WrittenNow(f)'
    BY <1>1, <1>2, <1>4, <1>7, <1>8 DEF EvidenceInv, WrittenNow
  <2>2. Queued("controller_decision")' \/ evidence'[iteration].phase = status.phase
    BY <1>1, <1>4, <1>7, <1>8 DEF EvidenceInv
  <2>3. pc' # "evidence" => \A f : ~Queued(f)'
    BY <1>2, <1>3, <1>6 DEF Queued
  <2> QED
    BY <1>2, <1>5, <1>8, <2>1, <2>2, <2>3 DEF EvidenceInv
<1>9. CASE status.iteration # iteration
  <2>1. Len(queue) = 1 /\ h = "pre_gate_results"
    BY <1>1, <1>9 DEF EvidenceInv
  <2> QED
    BY <1>2, <1>4, <1>5, <1>9, <2>1 DEF EvidenceInv, WrittenNow
<1> QED
  BY <1>8, <1>9

LEMMA EvidenceStep == BaseInv /\ EvidenceInv /\ [Next]_vars => EvidenceInv'
<1> SUFFICES ASSUME BaseInv, EvidenceInv, [Next]_vars PROVE EvidenceInv'
  OBVIOUS
<1> USE DEF EvidenceInv, EvidenceMatchesLatest, WrittenNow, Queued
<1>1. CASE Start
  BY <1>1 DEF Start, disk
<1>2. CASE AppendTrace
  BY <1>2 DEF AppendTrace, memory
<1>3. CASE WriteLatest
  BY <1>3 DEF WriteLatest, memory, BaseInv, RoundInv, Writing
<1>4. CASE WriteProgress
  BY <1>4 DEF WriteProgress
<1>5. CASE PreObserve \/ PostObserve
  BY <1>5 DEF PreObserve, PostObserve, ObserveWorkspace, disk
<1>6. CASE Act
  BY <1>6 DEF Act, disk
<1>7. CASE Crash
  BY <1>7 DEF Crash, memory
<1>8. CASE UserEdit \/ UNCHANGED vars
  BY <1>8 DEF UserEdit, vars, memory, disk
<1> QED
  BY <1>1, <1>2, <1>3, <1>4, <1>5, <1>6, <1>7, <1>8, EvidenceAccept, EvidenceWrite
     DEF Next, Step

\* The five evidence files that status.latest.json refers to were written by
\* the attempt, and for the verdict, that it shows.
THEOREM EvidenceCorrect == Spec => []EvidenceMatchesLatest
<1>1. Init => EvidenceInv
  BY DEF Init, EvidenceInv, EvidenceMatchesLatest, NoStatus, FirstStatus, Status
<1>2. EvidenceInv => EvidenceMatchesLatest
  BY DEF EvidenceInv
<1> QED
  BY <1>1, <1>2, BaseInit, RoundInit, BaseStep, EvidenceStep, PTL DEF Spec

------------------------------------------------------------------------------
(* Denied files, in the workspace itself.                                    *)

\* Observation sees denied files: the run has its own snapshot, and none of
\* them is in a directory the snapshot leaves out.
Watched == Bases = {"run_baseline"} /\ DeniedFiles \cap SnapshotIgnored = {}

\* Denied files that only the adapter may write.
Guarded == DeniedFiles \ (GateFiles \cup UserFiles)
Untouched == \A f \in Guarded : tree[f] = baseline[f]

\* No round begins with a guarded file changed: the round that changes one
\* observes it after the action, and is aborted before the policy is asked.
UntouchedInv ==
  /\ basis = "run_baseline"
  /\ pc \in {"pre_observe", "pre_accept", "act"} => Untouched
  /\ pc \in Writing \cup {"evidence"} /\ status.phase # "aborted" => Untouched
  /\ pc = "post_accept" => \A f \in Guarded : tree[f] # baseline[f] => f \in observed

\* A change that was observed of a denied file aborts the round.
LEMMA DeniedAborts ==
  ASSUME NEW e, PostDecide(e), observed \cap DeniedFiles # {}
  PROVE  status'.phase = "aborted"
<1> DEFINE B == CollectBlockers(action.budget, observed, e)
           D == DecideAfterPostEvaluation(e, B, rounds', action.budget, iteration)
<1>1. "denied" \in B /\ "denied" \in Violations
  BY DEF CollectBlockers, BlockerKinds, Violations
<1>2. D = Decision("aborted", "violation")
  <2> HIDE DEF B
  <2> QED
    BY <1>1 DEF DecideAfterPostEvaluation
<1>3. status' = [RoundStatus(e, B) EXCEPT !.phase = D.phase, !.reason = D.reason]
  BY DEF PostDecide
<1>4. status'.phase = D.phase
  BY <1>3 DEF RoundStatus, Status
<1> QED
  BY <1>2, <1>4 DEF Decision

LEMMA UntouchedStep ==
  ASSUME Watched, BaseInv, UntouchedInv, [Next]_vars
  PROVE  UntouchedInv'
<1> USE DEF UntouchedInv, Untouched, Guarded, Writing
<1>1. /\ tree \in Trees /\ baseline \in Trees /\ DeniedFiles \subseteq Files
      /\ iteration \in Nat
  BY GoalAssumption DEF BaseInv, TypeInv, TypeOK
<1>2. CASE Start
  BY <1>2 DEF Start, Watched
<1>3. CASE AppendTrace \/ WriteLatest
  BY <1>3 DEF AppendTrace, WriteLatest, memory
<1>4. CASE WriteProgress
  BY <1>4 DEF WriteProgress, LoopGoesOn, Open
<1>5. CASE PreObserve
  BY <1>5 DEF PreObserve, ObserveWorkspace
<1>6. CASE PostObserve
  <2>1. observed' = {f \in Files \ SnapshotIgnored : tree[f] # baseline[f]}
    BY <1>6 DEF PostObserve, ObserveWorkspace, Observations
  <2>2. UNCHANGED <<tree, baseline, basis>> /\ pc' = "post_accept"
    BY <1>6 DEF PostObserve, ObserveWorkspace
  <2> QED
    BY <1>1, <2>1, <2>2 DEF Watched
<1>7. CASE PreAccept
  <2>1. /\ \A f \in Guarded : tree'[f] = tree[f]
        /\ UNCHANGED <<baseline, basis>> /\ pc = "pre_accept" /\ pc' = "evidence"
    BY <1>1, <1>7 DEF PreAccept, Rewrites
  <2> QED
    BY <2>1
<1>8. CASE PostAccept
  <2>1. /\ \A f \in Guarded : tree'[f] = tree[f]
        /\ UNCHANGED <<baseline, basis>> /\ pc = "post_accept" /\ pc' = "evidence"
    BY <1>1, <1>8 DEF PostAccept, Rewrites
  <2>2. PICK e : PostDecide(e)
    BY <1>8 DEF PostAccept
  <2>3. status'.phase # "aborted" => observed \cap DeniedFiles = {}
    BY <2>2, DeniedAborts
  <2> QED
    BY <2>1, <2>3
<1>9. CASE Act
  BY <1>9 DEF Act
<1>10. CASE WriteEvidence
  <2>1. /\ UNCHANGED <<tree, baseline, basis, status>> /\ pc = "evidence"
        /\ pc' \in {"evidence", "append", "act"}
        /\ pc' = "act" => status.iteration # iteration
    BY <1>10 DEF WriteEvidence, AfterEvidence
  <2>2. pc' = "act" => status.phase # "aborted"
    BY <2>1 DEF BaseInv, UndecidedInv, Undecided, InIteration, Open
  <2> QED
    BY <2>1, <2>2
<1>11. CASE Crash
  BY <1>11 DEF Crash, memory
<1>12. CASE UserEdit
  <2>1. /\ \A f \in Guarded : tree'[f] = tree[f]
        /\ UNCHANGED <<baseline, basis, pc, status, observed>>
    BY <1>1, <1>12 DEF UserEdit, Rewrites, memory
  <2> QED
    BY <2>1
<1>13. CASE UNCHANGED vars
  BY <1>13 DEF vars, memory
<1> QED
  BY <1>2, <1>3, <1>4, <1>5, <1>6, <1>7, <1>8, <1>9, <1>10, <1>11, <1>12, <1>13
     DEF Next, Step

\* When every denied file is observed, no policy lets a run converge that has
\* let the adapter change one, whatever the earlier rounds did.
THEOREM DeniedFilesKept == Watched => (Spec => []DeniedNeverConverges)
<1> SUFFICES ASSUME Watched PROVE Spec => []DeniedNeverConverges
  OBVIOUS
<1>1. Init => UntouchedInv
  BY DEF Init, UntouchedInv, Writing
<1>2. UntouchedInv => DeniedNeverConverges
  BY DEF UntouchedInv, DeniedNeverConverges, Untouched, Guarded, Writing
<1>3. BaseInv /\ UntouchedInv /\ [Next]_vars => UntouchedInv'
  BY UntouchedStep
<1> QED
  BY <1>1, <1>2, <1>3, BaseInit, RoundInit, BaseStep, PTL DEF Spec

------------------------------------------------------------------------------
(* The rounds of the current attempt, as the ledger has them.                *)

Live == pc \in Writing \cup InIteration

\* The last round of the attempt that the ledger knows of.
Known == IF pc \in {"latest", "progress"} \/ iteration = 0
         THEN iteration ELSE iteration - 1

\* The status to write is that of a round, not of a pass before the action.
RoundDecided ==
  status.iteration = iteration /\ iteration > 0 /\ status.stage = "post_action"

RoundsInv ==
  /\ \A n \in Recorded : trace[n].attempt \in 1..attempt
  /\ pc \in Writing /\ iteration = 0 => status.stage = "none"
  /\ pc \in Writing \cup {"evidence"} /\ status.iteration = iteration /\ iteration > 0
       => status.phase = "converged" \/ status.stage = "post_action"
  /\ Live =>
       /\ \A n \in Recorded :
            trace[n].attempt = attempt /\ trace[n].stage = "post_action"
              => trace[n].iteration \in 1..Known
       /\ \A i \in 1..(iteration - 1) : \E n \in Recorded : Round(attempt, i) = {n}
  /\ pc \in {"latest", "progress"} /\ RoundDecided =>
       \E n \in Recorded : Round(attempt, iteration) = {n} /\ trace[n] = status

LEMMA RoundKept ==
  ASSUME LedgerKept, NEW a, NEW i
  PROVE  Round(a, i)' = Round(a, i)
BY DEF LedgerKept, Round

LEMMA RoundGrows ==
  ASSUME LedgerGrows, NEW a, NEW i
  PROVE  Round(a, i)' =
           IF status.attempt = a /\ status.iteration = i /\ status.stage = "post_action"
           THEN Round(a, i) \cup {Len(trace) + 1} ELSE Round(a, i)
<1>1. CASE status.attempt = a /\ status.iteration = i /\ status.stage = "post_action"
  BY <1>1 DEF LedgerGrows, Round
<1>2. CASE ~(status.attempt = a /\ status.iteration = i /\ status.stage = "post_action")
  BY <1>2 DEF LedgerGrows, Round
<1> QED
  BY <1>1, <1>2

\* A decision is that of a round unless the run converges before its action.
LEMMA RoundOfDecision ==
  ASSUME NEW e
  PROVE  /\ PreDecide(e) => status' = status \/ status'.phase = "converged"
         /\ PostDecide(e) => status'.stage = "post_action"
<1>1. PreDecide(e) => status' = status \/ status'.phase = "converged"
  <2> DEFINE S == Status(attempt, iteration, "converged", "policy", "pre_action",
                         observed, NoAction, e, CollectBlockers(FALSE, observed, e))
  <2>1. S.phase = "converged"
    BY DEF Status
  <2>2. PreDecide(e) => status' = status \/ status' = S
    BY DEF PreDecide
  <2> HIDE DEF S
  <2> QED
    BY <2>1, <2>2
<1>2. ASSUME PostDecide(e) PROVE status'.stage = "post_action"
  <2>1. PICK d, B : status' = [RoundStatus(e, B) EXCEPT !.phase = d.phase, !.reason = d.reason]
    BY <1>2 DEF PostDecide
  <2> QED
    BY <2>1 DEF RoundStatus, Status
<1> QED
  BY <1>1, <1>2

\* A pass before the action decides no round.
LEMMA PreStage ==
  ASSUME NEW e, PreDecide(e)
  PROVE  status' = status \/ status'.stage = "pre_action"
<1> DEFINE S == Status(attempt, iteration, "converged", "policy", "pre_action",
                       observed, NoAction, e, CollectBlockers(FALSE, observed, e))
<1>1. S.stage = "pre_action"
  BY DEF Status
<1>2. status' = status \/ status' = S
  BY DEF PreDecide
<1> HIDE DEF S
<1> QED
  BY <1>1, <1>2

LEMMA RoundsAppend ==
  ASSUME BaseInv, LinesInv, RoundsInv, AppendTrace
  PROVE  RoundsInv'
<1>1. /\ pc = "append" /\ pc' = "latest" /\ UNCHANGED <<attempt, iteration, status>>
      /\ attempt \in Nat /\ attempt > 0 /\ iteration \in Nat
      /\ status.attempt = attempt /\ status.iteration = iteration
  BY EngineAssumption, PolicyAssumption
     DEF AppendTrace, memory, BaseInv, TypeInv, TypeOK, RoundInv, Writing
<1>2. CASE LedgerKept /\ iteration = 0
  <2>1. \A a, i : Round(a, i)' = Round(a, i)
    BY <1>2, RoundKept
  <2> QED
    BY <1>1, <1>2, <2>1
       DEF RoundsInv, Live, Known, RoundDecided, Writing, InIteration, LedgerKept
<1>3. CASE LedgerGrows
  <2>1. /\ \A n \in Recorded' : trace'[n].attempt \in 1..attempt
        /\ \A n \in Recorded' : n \in Recorded \/ n = Len(trace) + 1
    BY <1>1, <1>3 DEF LedgerGrows, RoundsInv
  <2>2. \A n \in Recorded' : trace'[n].attempt = attempt /\ trace'[n].stage = "post_action"
                               => trace'[n].iteration \in 1..iteration
    <3> SUFFICES ASSUME NEW n \in Recorded', trace'[n].attempt = attempt,
                        trace'[n].stage = "post_action"
                 PROVE  trace'[n].iteration \in 1..iteration
      OBVIOUS
    <3>1. CASE n \in Recorded
      BY <1>1, <1>3, <3>1
         DEF LedgerGrows, RoundsInv, Live, Known, Writing
    <3>2. CASE n = Len(trace) + 1
      BY <1>1, <1>3, <3>2 DEF LedgerGrows, RoundsInv, Writing
    <3> QED
      BY <2>1, <3>1, <3>2
  <2>3. \A i \in 1..(iteration - 1) : Round(attempt, i)' = Round(attempt, i)
    BY <1>1, <1>3, RoundGrows
  <2>4. ASSUME RoundDecided
        PROVE  Round(attempt, iteration)' = {Len(trace) + 1}
    <3>1. Round(attempt, iteration) = {}
      BY <1>1, <2>4 DEF Round, RoundsInv, Live, Known, Writing, RoundDecided
    <3> QED
      BY <1>1, <1>3, <2>4, <3>1, RoundGrows DEF RoundDecided
  <2>5. RoundDecided' <=> RoundDecided
    BY <1>1 DEF RoundDecided
  <2>6. \A i \in 1..(iteration - 1) : \E n \in Recorded' : Round(attempt, i)' = {n}
    BY <1>1, <1>3, <2>3 DEF RoundsInv, Live, Writing, LedgerGrows
  <2>7. RoundDecided' => \E n \in Recorded' : Round(attempt, iteration)' = {n} /\ trace'[n] = status
    BY <1>3, <2>4, <2>5 DEF LedgerGrows
  <2>8. /\ iteration = 0 => status.stage = "none"
        /\ iteration > 0 => status.phase = "converged" \/ status.stage = "post_action"
    BY <1>1 DEF RoundsInv, Writing
  <2> QED
    BY <1>1, <2>1, <2>2, <2>6, <2>7, <2>8
       DEF RoundsInv, Live, Known, Writing, InIteration
<1> QED
  BY <1>2, <1>3, AppendLedger DEF BaseInv

LEMMA RoundsStep == BaseInv /\ LinesInv /\ RoundsInv /\ [Next]_vars => RoundsInv'
<1> SUFFICES ASSUME BaseInv, LinesInv, RoundsInv, [Next]_vars PROVE RoundsInv'
  OBVIOUS
<1>1. CASE AppendTrace
  BY <1>1, RoundsAppend
<1> SUFFICES ASSUME ~AppendTrace PROVE RoundsInv'
  BY <1>1
<1>2. /\ Recorded' = Recorded /\ \A n \in Recorded : trace'[n] = trace[n]
      /\ \A a, i : Round(a, i)' = Round(a, i)
  BY LedgerStep, RoundKept DEF BaseInv, LedgerKept
<1>3. attempt \in Nat /\ iteration \in Nat
  BY EngineAssumption, PolicyAssumption DEF BaseInv, TypeInv, TypeOK
<1> USE <1>2, <1>3 DEF RoundsInv, Live, Known, RoundDecided, Writing, InIteration
<1>4. CASE Start
  <2>1. /\ attempt' = attempt + 1 /\ iteration' = 0 /\ pc' = "append"
        /\ status'.stage = "none" /\ status'.iteration = 0
    BY <1>4 DEF Start, FirstStatus, Status
  <2> QED
    BY <2>1
<1>5. CASE WriteLatest
  BY <1>5 DEF WriteLatest, memory
<1>6. CASE WriteProgress
  <2>1. /\ pc = "progress" /\ UNCHANGED <<attempt, status>>
        /\ \/ /\ pc' = "pre_observe" /\ iteration' = iteration + 1
              /\ status.phase # "converged"
           \/ pc' = "done" /\ iteration' = iteration
    BY <1>6 DEF WriteProgress, LoopGoesOn, Open
  <2>2. status.iteration = iteration
    BY <2>1 DEF BaseInv, RoundInv
  <2> QED
    BY <2>1, <2>2
<1>7. CASE PreAccept \/ PostAccept
  <2>1. PICK e : (PreAccept /\ PreDecide(e)) \/ (PostAccept /\ PostDecide(e))
    BY <1>7 DEF PreAccept, PostAccept
  <2>2. \/ status' = status /\ status.iteration # iteration
        \/ status'.phase = "converged" \/ status'.stage = "post_action"
    <3>1. PreAccept => status.iteration = iteration - 1
      BY DEF PreAccept, BaseInv, RoundInv
    <3> QED
      BY <2>1, <3>1, RoundOfDecision
  <2>3. pc' = "evidence" /\ UNCHANGED <<attempt, iteration>> /\ pc \in {"pre_accept", "post_accept"}
    BY <1>7 DEF PreAccept, PostAccept
  <2> QED
    BY <2>2, <2>3
<1>8. CASE PreObserve \/ PostObserve \/ Act
  BY <1>8 DEF PreObserve, PostObserve, ObserveWorkspace, Act
<1>9. CASE WriteEvidence
  <2>1. /\ UNCHANGED <<attempt, iteration, status>> /\ pc = "evidence"
        /\ pc' \in {"evidence", "append", "act"}
        /\ iteration > 0
    BY <1>9 DEF WriteEvidence, AfterEvidence, BaseInv, TypeInv, LoopInv, Iterations
  <2> QED
    BY <2>1
<1>10. CASE Crash
  BY <1>10 DEF Crash, memory
<1>11. CASE UserEdit \/ UNCHANGED vars
  BY <1>11 DEF UserEdit, vars, memory
<1> QED
  BY <1>4, <1>5, <1>6, <1>7, <1>8, <1>9, <1>10, <1>11 DEF Next, Step

LEMMA RoundsInit == Init => RoundsInv
BY DEF Init, RoundsInv, Recorded, Live, Writing, InIteration

\* The adapter is only called in a round that every file of the run directory
\* is waiting for: each earlier round of the attempt has its one line.
THEOREM ActsCurrent == Spec => ActsOnlyOnCurrentState
<1>1. BaseInv /\ RoundsInv /\ [Next]_vars => [ActsOnCurrentState]_vars
  <2> SUFFICES ASSUME BaseInv, RoundsInv, [Next]_vars, acts' > acts
               PROVE  /\ latest = status /\ progress = status
                      /\ latest.attempt = attempt /\ latest.phase \in Open
                      /\ latest.iteration = iteration - 1
                      /\ \A i \in 1..(iteration - 1) : Cardinality(Round(attempt, i)) = 1
    BY DEF ActsOnCurrentState
  <2>1. acts \in Nat /\ iteration \in Nat
    BY PolicyAssumption DEF BaseInv, TypeInv, TypeOK
  <2>2. pc = "act"
    BY <2>1
       DEF Next, Step, Start, AppendTrace, WriteLatest, WriteProgress, PreObserve,
           PostObserve, ObserveWorkspace, PreAccept, PostAccept, Act, WriteEvidence,
           Crash, UserEdit, vars, memory
  <2>3. /\ status.iteration = iteration - 1 /\ status.attempt = attempt
        /\ latest = status /\ progress = status /\ status.phase \in Open
    BY <2>1, <2>2 DEF BaseInv, RoundInv, UndecidedInv, Undecided, InIteration
  <2>4. \A i \in 1..(iteration - 1) : \E n : Round(attempt, i) = {n}
    BY <2>2 DEF RoundsInv, Live, InIteration
  <2>5. \A i \in 1..(iteration - 1) : Cardinality(Round(attempt, i)) = 1
    BY <2>4, FS_Singleton
  <2> QED
    BY <2>3, <2>5
<1> QED
  BY <1>1, BaseInit, RoundInit, LinesInit, RoundsInit, BaseStep, LinesStep, RoundsStep, PTL
     DEF Spec, ActsOnlyOnCurrentState, BaseInv

------------------------------------------------------------------------------
(* The counters of DecisionState count the rounds the ledger has.  A round   *)
(* that is decided and not yet appended is counted already: what they then   *)
(* say is what the ledger will.                                              *)

Positive == Nat \ {0}

\* The counters are right about the rounds up to i.
CountsAre(i) ==
  /\ \A N \in Positive : rounds.repeated >= N <=> FailingFor(N, attempt, i)
  /\ \A N \in Positive : rounds.stale >= N <=> UnchangedFor(N, attempt, i)
  /\ rounds.any <=> i > 0
  /\ i > 0 => \E n \in Round(attempt, i) : ProgressKey(trace[n]) = rounds.key

\* What the status to append makes of them.
FailingNow(N) ==
  /\ status.eval.failed # {}
  /\ N = 1 \/ FailingFor(N - 1, attempt, iteration - 1)

UnchangedNow(N) ==
  /\ iteration > 1
  /\ \E n \in Round(attempt, iteration - 1) : ProgressKey(trace[n]) = ProgressKey(status)
  /\ N = 1 \/ UnchangedFor(N - 1, attempt, iteration - 1)

CountsNow ==
  /\ \A N \in Positive : rounds.repeated >= N <=> FailingNow(N)
  /\ \A N \in Positive : rounds.stale >= N <=> UnchangedNow(N)
  /\ rounds.any /\ rounds.key = ProgressKey(status)

ReasonByCounters(s, r) ==
  s.phase # "converged" /\ s.reason \notin {"violation", "budget"} =>
    s.reason = IF AbortRepeated > 0 /\ r.repeated >= AbortRepeated
               THEN "repeated_failure"
               ELSE IF AbortNoProgress > 0 /\ r.stale >= AbortNoProgress
               THEN "no_progress"
               ELSE IF AbortMaxIterations /\ s.iteration = MaxIterations
               THEN "max_iterations" ELSE "continue"

Pending == pc \in {"evidence", "append"} /\ RoundDecided

CountInv ==
  /\ Pending => CountsNow /\ ReasonByCounters(status, rounds)
  /\ Live /\ ~Pending /\ (pc \in {"latest", "progress"} => iteration = 0 \/ RoundDecided)
       => CountsAre(Known)
  /\ PolicyFollowsLedger

\* A decision counts its round, and is the first abort rule the counters meet.
LEMMA PostCounts ==
  ASSUME TypeInv, NEW e, PostDecide(e)
  PROVE  /\ status'.stage = "post_action" /\ status'.iteration = iteration
         /\ rounds'.repeated = IF status'.eval.failed # {} THEN rounds.repeated + 1 ELSE 0
         /\ rounds'.stale = IF rounds.any /\ rounds.key = ProgressKey(status')
                            THEN rounds.stale + 1 ELSE 0
         /\ rounds'.any /\ rounds'.key = ProgressKey(status')
         /\ ReasonByCounters(status', rounds')
<1> DEFINE B == CollectBlockers(action.budget, observed, e)
           D == DecideAfterPostEvaluation(e, B, rounds', action.budget, iteration)
           R == RoundStatus(e, B)
<1>1. /\ rounds' = UpdateRounds(rounds, R)
      /\ status' = [R EXCEPT !.phase = D.phase, !.reason = D.reason]
  BY DEF PostDecide
<1>2. /\ status'.stage = "post_action" /\ status'.iteration = iteration
      /\ status'.phase = D.phase /\ status'.reason = D.reason
      /\ status'.eval = R.eval
  BY <1>1 DEF RoundStatus, Status
<1>3. ProgressKey(status') = ProgressKey(R)
  BY <1>1 DEF RoundStatus, Status, ProgressKey
<1>4. \/ D.reason \in {"violation", "budget"}
      \/ D.phase = "converged"
      \/ D.reason = IF AbortRepeated > 0 /\ rounds'.repeated >= AbortRepeated
                    THEN "repeated_failure"
                    ELSE IF AbortNoProgress > 0 /\ rounds'.stale >= AbortNoProgress
                    THEN "no_progress"
                    ELSE IF AbortMaxIterations /\ iteration >= MaxIterations
                    THEN "max_iterations" ELSE "continue"
  <2> HIDE DEF B
  <2> QED
    BY DEF DecideAfterPostEvaluation, Decision
<1>5. iteration >= MaxIterations <=> iteration = MaxIterations
  BY PolicyAssumption DEF TypeInv, TypeOK
<1>6. ReasonByCounters(status', rounds')
  <2> HIDE DEF D
  <2> QED
    BY <1>2, <1>4, <1>5 DEF ReasonByCounters
<1> HIDE DEF R, D
<1> QED
  BY <1>1, <1>2, <1>3, <1>6 DEF UpdateRounds

------------------------------------------------------------------------------
(* Appending a round.                                                        *)

\* The round is the ledger's, and those before it are what they were.
LEMMA RoundAppended ==
  ASSUME BaseInv, LinesInv, RoundsInv, AppendTrace, RoundDecided
  PROVE  /\ iteration \in Positive /\ status.attempt = attempt
         /\ Round(attempt, iteration)' = {Len(trace) + 1}
         /\ trace'[Len(trace) + 1] = status
         /\ \A j \in 1..(iteration - 1) :
              /\ Round(attempt, j)' = Round(attempt, j)
              /\ \A n \in Round(attempt, j) : trace'[n] = trace[n]
              /\ \E n : Round(attempt, j) = {n}
<1>1. /\ pc = "append" /\ iteration \in Positive
      /\ status.attempt = attempt /\ status.iteration = iteration
      /\ status.stage = "post_action"
  BY PolicyAssumption
     DEF AppendTrace, RoundDecided, BaseInv, TypeInv, TypeOK, RoundInv, Writing, Positive
<1>2. LedgerGrows
  BY <1>1, LedgerStep DEF BaseInv, Next, Step, Positive
<1>3. Round(attempt, iteration) = {}
  BY <1>1 DEF Round, RoundsInv, Live, Known, Writing, Positive
<1>4. Round(attempt, iteration)' = {Len(trace) + 1}
  BY <1>1, <1>2, <1>3, RoundGrows DEF AppendTrace, memory
<1>5. \A j \in 1..(iteration - 1) : Round(attempt, j)' = Round(attempt, j)
  BY <1>1, <1>2, RoundGrows DEF AppendTrace, memory, Positive
<1>6. \A j : \A n \in Round(attempt, j) : trace'[n] = trace[n]
  BY <1>2 DEF LedgerGrows, Round
<1>7. \A j \in 1..(iteration - 1) : \E n : Round(attempt, j) = {n}
  BY <1>1 DEF RoundsInv, Live, Writing
<1> QED
  BY <1>1, <1>2, <1>4, <1>5, <1>6, <1>7 DEF LedgerGrows

LEMMA FailingAppended ==
  ASSUME BaseInv, LinesInv, RoundsInv, AppendTrace, RoundDecided, NEW N \in Positive
  PROVE  FailingFor(N, attempt, iteration)' <=> FailingNow(N)
<1> DEFINE F(j) == \E n \in Round(attempt, j) : trace[n].eval.failed # {}
<1>1. UNCHANGED <<attempt, iteration, status>> /\ iteration \in Positive
  BY RoundAppended DEF AppendTrace, memory
<1>2. F(iteration)' <=> status.eval.failed # {}
  BY <1>1, RoundAppended
<1>3. \A j \in 1..(iteration - 1) : F(j)' <=> F(j)
  BY <1>1, RoundAppended
<1>4. FailingFor(N, attempt, iteration)' <=>
        N <= iteration /\ \A j \in (iteration - N + 1)..iteration : F(j)'
  BY <1>1 DEF FailingFor, Positive
<1>5. N # 1 => ( FailingFor(N - 1, attempt, iteration - 1) <=>
        N <= iteration /\ \A j \in (iteration - N + 1)..(iteration - 1) : F(j) )
  <2>1. N # 1 => N - 1 > 0 /\ (N - 1 <= iteration - 1 <=> N <= iteration)
    BY <1>1 DEF Positive
  <2>2. (iteration - 1) - (N - 1) + 1 = iteration - N + 1
    BY <1>1 DEF Positive
  <2> QED
    BY <2>1, <2>2 DEF FailingFor
<1> HIDE DEF F
<1>6. N <= iteration =>
        ( (\A j \in (iteration - N + 1)..iteration : F(j)') <=>
          F(iteration)' /\ \A j \in (iteration - N + 1)..(iteration - 1) : F(j) )
  BY <1>1, <1>3 DEF Positive
<1>7. N = 1 => N <= iteration /\ (iteration - N + 1)..(iteration - 1) = {}
  BY <1>1 DEF Positive
<1> QED
  BY <1>2, <1>4, <1>5, <1>6, <1>7 DEF FailingNow

LEMMA UnchangedAppended ==
  ASSUME BaseInv, LinesInv, RoundsInv, AppendTrace, RoundDecided, NEW N \in Positive
  PROVE  UnchangedFor(N, attempt, iteration)' <=> UnchangedNow(N)
<1> DEFINE K(j) == \E n \in Round(attempt, j) : ProgressKey(trace[n]) = ProgressKey(status)
<1>1. /\ UNCHANGED <<attempt, iteration, status>> /\ iteration \in Positive
      /\ Round(attempt, iteration)' = {Len(trace) + 1}
      /\ trace'[Len(trace) + 1] = status
  BY RoundAppended DEF AppendTrace, memory
<1>2. UnchangedFor(N, attempt, iteration)' <=>
        N < iteration /\ \A j \in (iteration - N)..iteration : K(j)'
  BY <1>1 DEF UnchangedFor, Positive
<1>3. K(iteration)'
  BY <1>1
<1>4. \A j \in 1..(iteration - 1) : K(j)' <=> K(j)
  BY <1>1, RoundAppended
<1>5. ASSUME iteration > 1, K(iteration - 1), N # 1
      PROVE  UnchangedFor(N - 1, attempt, iteration - 1) <=>
               N < iteration /\ \A j \in (iteration - N)..(iteration - 1) : K(j)
  <2>1. iteration - 1 \in 1..(iteration - 1)
    BY <1>1, <1>5 DEF Positive
  <2>2. PICK p : Round(attempt, iteration - 1) = {p}
    BY <2>1, RoundAppended
  <2>3. ProgressKey(trace[p]) = ProgressKey(status)
    BY <1>5, <2>2
  <2>4. /\ N - 1 > 0 /\ (N - 1 < iteration - 1 <=> N < iteration)
        /\ (iteration - 1) - (N - 1) = iteration - N
    BY <1>1, <1>5 DEF Positive
  <2> QED
    BY <2>2, <2>3, <2>4 DEF UnchangedFor
<1> HIDE DEF K
<1>6. N < iteration =>
        ( (\A j \in (iteration - N)..iteration : K(j)') <=>
          \A j \in (iteration - N)..(iteration - 1) : K(j) )
  BY <1>1, <1>3, <1>4 DEF Positive
<1>7. /\ N < iteration => iteration > 1 /\ iteration - 1 \in (iteration - N)..(iteration - 1)
      /\ N = 1 /\ iteration > 1 =>
           N < iteration /\ (iteration - N)..(iteration - 1) = {iteration - 1}
  BY <1>1 DEF Positive
<1>8. UnchangedNow(N) <=>
        iteration > 1 /\ K(iteration - 1)
          /\ (N = 1 \/ UnchangedFor(N - 1, attempt, iteration - 1))
  BY DEF UnchangedNow, K
<1> QED
  BY <1>2, <1>5, <1>6, <1>7, <1>8

------------------------------------------------------------------------------
(* What the ledger said of a round, it goes on saying.                       *)

SameRounds(a, i) ==
  \A j \in 1..i : /\ Round(a, j)' = Round(a, j)
                  /\ \A n \in Round(a, j) : trace'[n] = trace[n]

LEMMA SameCounts ==
  ASSUME NEW a, NEW i \in Nat, NEW N \in Nat, SameRounds(a, i)
  PROVE  /\ FailingFor(N, a, i)' <=> FailingFor(N, a, i)
         /\ UnchangedFor(N, a, i)' <=> UnchangedFor(N, a, i)
<1>1. N > 0 /\ N <= i => \A j \in (i - N + 1)..i : j \in 1..i
  OBVIOUS
<1>2. N > 0 /\ N < i => i \in 1..i /\ \A j \in (i - N)..i : j \in 1..i
  OBVIOUS
<1>3. FailingFor(N, a, i)' <=> FailingFor(N, a, i)
  BY <1>1 DEF FailingFor, SameRounds
<1>4. UnchangedFor(N, a, i)' <=> UnchangedFor(N, a, i)
  BY <1>2 DEF UnchangedFor, SameRounds
<1> QED
  BY <1>3, <1>4

\* PolicyFollowsLedger, of one line.
Explained(s) ==
  ( s.stage = "post_action" /\ s.phase # "converged"
      /\ s.reason \notin {"violation", "budget"} ) =>
    s.reason = IF FailingFor(AbortRepeated, s.attempt, s.iteration)
               THEN "repeated_failure"
               ELSE IF UnchangedFor(AbortNoProgress, s.attempt, s.iteration)
               THEN "no_progress"
               ELSE IF AbortMaxIterations /\ s.iteration = MaxIterations
               THEN "max_iterations" ELSE "continue"

LEMMA ExplainedStays ==
  ASSUME NEW s \in Statuses, Explained(s),
         s.stage = "post_action" => SameRounds(s.attempt, s.iteration)
  PROVE  Explained(s)'
<1>1. s.iteration \in Nat /\ AbortRepeated \in Nat /\ AbortNoProgress \in Nat
  BY PolicyAssumption DEF Statuses
<1>2. s.stage = "post_action" =>
        /\ FailingFor(AbortRepeated, s.attempt, s.iteration)'
             <=> FailingFor(AbortRepeated, s.attempt, s.iteration)
        /\ UnchangedFor(AbortNoProgress, s.attempt, s.iteration)'
             <=> UnchangedFor(AbortNoProgress, s.attempt, s.iteration)
  BY <1>1, SameCounts
<1> QED
  BY <1>2 DEF Explained

\* A round is appended behind all that the ledger has of its attempt.
LEMMA RoundsBefore ==
  ASSUME BaseInv, LinesInv, RoundsInv, [Next]_vars
  PROVE  \A n \in Recorded :
           /\ trace'[n] = trace[n]
           /\ trace[n].stage = "post_action" => SameRounds(trace[n].attempt, trace[n].iteration)
<1>1. CASE LedgerKept
  BY <1>1, RoundKept DEF SameRounds, LedgerKept, Round
<1>2. CASE AppendTrace /\ LedgerGrows
  <2>1. /\ \A n \in Recorded : trace'[n] = trace[n]
        /\ \A a, j : \A n \in Round(a, j) : trace'[n] = trace[n]
    BY <1>2 DEF LedgerGrows, Round
  <2>2. /\ pc = "append" /\ status.attempt = attempt /\ status.iteration = iteration
        /\ iteration \in Nat
    BY <1>2, PolicyAssumption
       DEF AppendTrace, BaseInv, TypeInv, TypeOK, RoundInv, Writing
  <2>3. ASSUME NEW n \in Recorded, trace[n].stage = "post_action"
        PROVE  SameRounds(trace[n].attempt, trace[n].iteration)
    <3>1. trace[n].attempt # attempt \/ (iteration # 0 /\ trace[n].iteration \in 1..(iteration - 1))
      BY <2>2, <2>3 DEF RoundsInv, Live, Known, Writing
    <3>2. \A j \in 1..trace[n].iteration : trace[n].attempt # attempt \/ j # iteration
      BY <2>2, <3>1
    <3>3. PICK s : s = trace[n]
      OBVIOUS
    <3>4. \A j \in 1..s.iteration : Round(s.attempt, j)' = Round(s.attempt, j)
      BY <1>2, <2>2, <3>2, <3>3, RoundGrows
    <3> QED
      BY <2>1, <3>3, <3>4 DEF SameRounds
  <2> QED
    BY <2>1, <2>3
<1> QED
  BY <1>1, <1>2, LedgerStep DEF BaseInv

\* Whatever is in the ledger stays explained; it remains to explain what is new.
LEMMA OldExplained ==
  ASSUME BaseInv, LinesInv, RoundsInv, PolicyFollowsLedger, [Next]_vars
  PROVE  \A n \in Recorded : Explained(trace[n])'
<1> SUFFICES ASSUME NEW n \in Recorded PROVE Explained(trace[n])'
  OBVIOUS
<1>1. PICK s : s = trace[n]
  OBVIOUS
<1>2. s \in Statuses /\ trace'[n] = s /\ Explained(s)
  BY <1>1, RoundsBefore DEF BaseInv, TypeInv, TypeOK, Recorded, Explained, PolicyFollowsLedger
<1>3. s.stage = "post_action" => SameRounds(s.attempt, s.iteration)
  BY <1>1, RoundsBefore
<1>4. Explained(s)'
  BY <1>2, <1>3, ExplainedStays
<1> QED
  BY <1>2, <1>4 DEF Explained

------------------------------------------------------------------------------
(* The counters stay right, and every line is explained as it is written.    *)

LEMMA CountAppendRound ==
  ASSUME BaseInv, LinesInv, RoundsInv, CountInv, AppendTrace, RoundDecided
  PROVE  CountsAre(iteration)' /\ Explained(status)'
<1>1. /\ UNCHANGED <<attempt, iteration, status, rounds>> /\ pc = "append"
      /\ status.attempt = attempt /\ status.iteration = iteration
      /\ iteration \in Positive
      /\ Round(attempt, iteration)' = {Len(trace) + 1}
      /\ trace'[Len(trace) + 1] = status
  BY RoundAppended DEF AppendTrace, memory, RoundDecided
<1>2. CountsNow /\ ReasonByCounters(status, rounds)
  BY <1>1 DEF CountInv, Pending
<1>3. \A N \in Positive : rounds'.repeated >= N <=> FailingFor(N, attempt, iteration)'
  BY <1>1, <1>2, FailingAppended DEF CountsNow
<1>4. \A N \in Positive : rounds'.stale >= N <=> UnchangedFor(N, attempt, iteration)'
  BY <1>1, <1>2, UnchangedAppended DEF CountsNow
<1>5. CountsAre(iteration)'
  <2>1. rounds'.any /\ iteration' > 0
    BY <1>1, <1>2 DEF CountsNow, Positive
  <2>2. \E n \in Round(attempt, iteration)' : ProgressKey(trace'[n]) = rounds'.key
    BY <1>1, <1>2 DEF CountsNow
  <2>3. CountsAre(iteration)' <=>
          /\ \A N \in Positive : rounds'.repeated >= N <=> FailingFor(N, attempt, iteration)'
          /\ \A N \in Positive : rounds'.stale >= N <=> UnchangedFor(N, attempt, iteration)'
          /\ rounds'.any <=> iteration' > 0
          /\ iteration' > 0 =>
               \E n \in Round(attempt, iteration)' : ProgressKey(trace'[n]) = rounds'.key
    BY <1>1 DEF CountsAre
  <2> QED
    BY <1>3, <1>4, <2>1, <2>2, <2>3
<1>6. /\ AbortRepeated > 0 /\ rounds.repeated >= AbortRepeated
           <=> FailingFor(AbortRepeated, attempt, iteration)'
      /\ AbortNoProgress > 0 /\ rounds.stale >= AbortNoProgress
           <=> UnchangedFor(AbortNoProgress, attempt, iteration)'
  BY <1>1, <1>3, <1>4, PolicyAssumption DEF Positive, FailingFor, UnchangedFor
<1>7. Explained(status)'
  BY <1>1, <1>2, <1>6 DEF ReasonByCounters, Explained
<1> QED
  BY <1>5, <1>7

LEMMA CountAppend ==
  ASSUME BaseInv, LinesInv, RoundsInv, CountInv, AppendTrace
  PROVE  CountInv'
<1>1. /\ UNCHANGED <<attempt, iteration, status, rounds>> /\ pc = "append" /\ pc' = "latest"
      /\ status.iteration = iteration /\ iteration \in Nat
  BY PolicyAssumption
     DEF AppendTrace, memory, BaseInv, RoundInv, Writing, TypeInv, TypeOK
<1>2. PolicyFollowsLedger /\ [Next]_vars
  BY DEF CountInv, Next, Step
<1>3. PolicyFollowsLedger'
  <2>1. \A n \in Recorded : Explained(trace[n])'
    BY <1>2, OldExplained
  <2>2. \A n \in Recorded' : n \in Recorded \/ trace'[n] = status
    BY <1>2, LedgerStep DEF BaseInv, LedgerKept, LedgerGrows
  <2>3. Explained(status)'
    <3>1. ~RoundDecided => status.phase = "converged" \/ status.stage # "post_action"
      BY <1>1 DEF RoundDecided, RoundsInv, Writing
    <3>2. ~RoundDecided => Explained(status)'
      BY <1>1, <3>1 DEF Explained
    <3> QED
      BY <3>2, CountAppendRound
  <2>4. \A n : trace'[n] = status => Explained(trace[n])'
    BY <1>1, <2>3 DEF Explained
  <2>5. \A n \in Recorded' : Explained(trace[n])'
    BY <2>1, <2>2, <2>4
  <2> QED
    BY <2>5 DEF PolicyFollowsLedger, Explained
<1>4. iteration = 0 \/ RoundDecided => CountsAre(iteration)'
  <2>1. ASSUME iteration = 0 PROVE CountsAre(iteration)'
    <3>1. CountsAre(0)
      BY <1>1, <2>1 DEF CountInv, Pending, RoundDecided, Live, Known, Writing
    <3>2. \A N \in Positive : ~FailingFor(N, attempt, 0) /\ ~UnchangedFor(N, attempt, 0)
      BY DEF FailingFor, UnchangedFor, Positive
    <3>3. \A N \in Positive : ~FailingFor(N, attempt, 0)' /\ ~UnchangedFor(N, attempt, 0)'
      BY DEF FailingFor, UnchangedFor, Positive
    <3> QED
      BY <1>1, <2>1, <3>1, <3>2, <3>3 DEF CountsAre
  <2> QED
    BY <2>1, CountAppendRound
<1> QED
  BY <1>1, <1>3, <1>4 DEF CountInv, Pending, Live, Known, Writing, RoundDecided

LEMMA ForKept ==
  ASSUME LedgerKept
  PROVE  \A N, a, i : /\ FailingFor(N, a, i)' <=> FailingFor(N, a, i)
                      /\ UnchangedFor(N, a, i)' <=> UnchangedFor(N, a, i)
<1> SUFFICES ASSUME NEW N, NEW a, NEW i
             PROVE  /\ FailingFor(N, a, i)' <=> FailingFor(N, a, i)
                    /\ UnchangedFor(N, a, i)' <=> UnchangedFor(N, a, i)
  OBVIOUS
<1>1. \A j : Round(a, j)' = Round(a, j) /\ \A n \in Round(a, j) : trace'[n] = trace[n]
  BY RoundKept DEF LedgerKept, Round
<1> QED
  BY <1>1 DEF FailingFor, UnchangedFor

LEMMA CountsKept ==
  ASSUME LedgerKept, UNCHANGED <<attempt, rounds>>
  PROVE  \A i : CountsAre(i) => CountsAre(i)'
<1>1. \A a, j : Round(a, j)' = Round(a, j) /\ \A n \in Round(a, j) : trace'[n] = trace[n]
  BY RoundKept DEF LedgerKept, Round
<1> QED
  BY <1>1, ForKept DEF CountsAre

\* The counters go on being right when neither they nor the rounds the ledger
\* should have change.
LEMMA CountsCarry ==
  ASSUME LedgerKept, UNCHANGED <<attempt, rounds>>, NEW i, CountsAre(i), Known' = i
  PROVE  CountsAre(Known)'
<1>1. CountsAre(i)'
  BY CountsKept
<1> HIDE DEF Known
<1> QED
  BY <1>1 DEF CountsAre

LEMMA NowKept ==
  ASSUME LedgerKept, UNCHANGED <<attempt, iteration, status, rounds>>, CountsNow
  PROVE  CountsNow'
<1>1. \A a, j : Round(a, j)' = Round(a, j) /\ \A n \in Round(a, j) : trace'[n] = trace[n]
  BY RoundKept DEF LedgerKept, Round
<1>2. PICK i : i = iteration
  OBVIOUS
<1>3. \A N \in Positive : /\ FailingNow(N)' <=> FailingNow(N)
                          /\ UnchangedNow(N)' <=> UnchangedNow(N)
  BY <1>1, <1>2, ForKept DEF FailingNow, UnchangedNow
<1> QED
  BY <1>3 DEF CountsNow

\* Counting a round adds one to what was true of the rounds before it.
LEMMA CountPost ==
  ASSUME BaseInv, RoundsInv, CountInv, LedgerKept, PostAccept
  PROVE  CountsNow' /\ ReasonByCounters(status, rounds)'
<1>1. PICK e : PostDecide(e)
  BY DEF PostAccept
<1>2. /\ pc = "post_accept" /\ UNCHANGED <<attempt, iteration>> /\ iteration \in Positive
      /\ rounds.repeated \in Nat /\ rounds.stale \in Nat
  BY PolicyAssumption
     DEF PostAccept, BaseInv, TypeInv, TypeOK, LoopInv, InIteration, Iterations, Positive
<1>3. CountsAre(iteration - 1)
  BY <1>2 DEF CountInv, Pending, Live, Known, InIteration, Positive
<1>4. /\ rounds'.repeated = IF status'.eval.failed # {} THEN rounds.repeated + 1 ELSE 0
      /\ rounds'.stale = IF rounds.any /\ rounds.key = ProgressKey(status')
                         THEN rounds.stale + 1 ELSE 0
      /\ rounds'.any /\ rounds'.key = ProgressKey(status')
      /\ ReasonByCounters(status', rounds')
  BY <1>1, PostCounts DEF BaseInv
<1>5. ASSUME NEW N \in Positive PROVE rounds'.repeated >= N <=> FailingNow(N)'
  <2>1. N = 1 \/ N - 1 \in Positive
    BY DEF Positive
  <2>2. PICK i : i = iteration
    OBVIOUS
  <2>3. FailingNow(N)' <=> status'.eval.failed # {}
                           /\ (N = 1 \/ FailingFor(N - 1, attempt, iteration - 1))
    BY <1>2, <2>2, ForKept DEF FailingNow
  <2>4. rounds'.repeated >= N <=> status'.eval.failed # {}
                                  /\ (N = 1 \/ rounds.repeated >= N - 1)
    BY <1>2, <1>4 DEF Positive
  <2> QED
    BY <1>3, <2>1, <2>3, <2>4 DEF CountsAre
<1>6. ASSUME NEW N \in Positive PROVE rounds'.stale >= N <=> UnchangedNow(N)'
  <2>1. N = 1 \/ N - 1 \in Positive
    BY DEF Positive
  <2>2. PICK i, k : i = iteration /\ k = ProgressKey(status')
    OBVIOUS
  <2>3. UnchangedNow(N)' <=>
          /\ iteration > 1
          /\ \E n \in Round(attempt, iteration - 1) : ProgressKey(trace[n]) = ProgressKey(status')
          /\ N = 1 \/ UnchangedFor(N - 1, attempt, iteration - 1)
    BY <1>2, <2>2, ForKept, RoundKept DEF UnchangedNow, LedgerKept, Round
  <2>4. rounds'.stale >= N <=> /\ rounds.any /\ rounds.key = ProgressKey(status')
                               /\ N = 1 \/ rounds.stale >= N - 1
    BY <1>2, <1>4 DEF Positive
  <2>5. rounds.any <=> iteration > 1
    BY <1>2, <1>3 DEF CountsAre, Positive
  <2>6. iteration > 1 =>
          ( rounds.key = ProgressKey(status') <=>
            \E n \in Round(attempt, iteration - 1) : ProgressKey(trace[n]) = ProgressKey(status') )
    <3>1. iteration > 1 => iteration - 1 \in 1..(iteration - 1)
      BY <1>2 DEF Positive
    <3>2. iteration > 1 => \E p : Round(attempt, iteration - 1) = {p}
      BY <1>2, <3>1 DEF RoundsInv, Live, InIteration
    <3> QED
      BY <1>2, <1>3, <3>2 DEF CountsAre, Positive
  <2> QED
    BY <1>3, <2>1, <2>3, <2>4, <2>5, <2>6 DEF CountsAre
<1> QED
  BY <1>4, <1>5, <1>6 DEF CountsNow, ReasonByCounters

LEMMA CountStep ==
  ASSUME BaseInv, LinesInv, RoundsInv, CountInv, [Next]_vars
  PROVE  CountInv'
<1>1. CASE AppendTrace
  BY <1>1, CountAppend
<1> SUFFICES ASSUME ~AppendTrace PROVE CountInv'
  BY <1>1
<1>2. LedgerKept /\ PolicyFollowsLedger /\ iteration \in Nat
  BY LedgerStep, PolicyAssumption DEF BaseInv, TypeInv, TypeOK, CountInv
<1>3. PolicyFollowsLedger'
  <2>1. \A n \in Recorded : Explained(trace[n])'
    BY <1>2, OldExplained
  <2> QED
    BY <1>2, <2>1 DEF PolicyFollowsLedger, Explained, LedgerKept
<1> USE DEF Pending, RoundDecided, Live, Known, Writing, InIteration
<1>4. CASE Start
  <2>1. /\ pc' = "append" /\ iteration' = 0 /\ rounds' = NoRounds
    BY <1>4 DEF Start
  <2>2. \A N \in Positive : ~FailingFor(N, attempt, 0)' /\ ~UnchangedFor(N, attempt, 0)'
    BY DEF FailingFor, UnchangedFor, Positive
  <2>3. CountsAre(0)'
    BY <2>1, <2>2 DEF CountsAre, NoRounds, Positive
  <2>4. CountsAre(Known)'
    BY <2>1, <2>3 DEF CountsAre
  <2> QED
    BY <1>3, <2>1, <2>4 DEF CountInv
<1>5. PICK k : k = Known
  OBVIOUS
<1>6. CASE WriteLatest
  <2>1. /\ pc = "latest" /\ pc' = "progress"
        /\ UNCHANGED <<attempt, iteration, status, rounds>>
    BY <1>6 DEF WriteLatest, memory
  <2>2. iteration = 0 \/ RoundDecided => CountsAre(Known)'
    BY <1>2, <1>5, <2>1, CountsCarry DEF CountInv
  <2> QED
    BY <1>3, <2>1, <2>2 DEF CountInv
<1>7. CASE WriteProgress
  <2>1. /\ pc = "progress" /\ UNCHANGED <<attempt, status, rounds>>
        /\ \/ pc' = "pre_observe" /\ iteration' = iteration + 1 /\ status.phase # "converged"
           \/ pc' = "done"
    BY <1>7 DEF WriteProgress, LoopGoesOn, Open
  <2>2. status.iteration = iteration
    BY <2>1 DEF BaseInv, RoundInv
  <2>3. pc' = "pre_observe" => iteration = 0 \/ RoundDecided
    BY <2>1, <2>2, <1>2 DEF RoundsInv
  <2>4. pc' = "pre_observe" => CountsAre(Known)'
    <3>1. pc' = "pre_observe" => Known' = k
      BY <1>2, <1>5, <2>1
    <3> QED
      BY <1>2, <1>5, <2>1, <2>3, <3>1, CountsCarry DEF CountInv
  <2> QED
    BY <1>3, <2>1, <2>4 DEF CountInv
<1>8. CASE PreObserve \/ PostObserve \/ Act
  <2>1. /\ UNCHANGED <<attempt, iteration, rounds>>
        /\ pc \in InIteration \ {"evidence"} /\ pc' \in InIteration \ {"evidence"}
    BY <1>8 DEF PreObserve, PostObserve, ObserveWorkspace, Act
  <2>2. CountsAre(Known)'
    BY <1>2, <1>5, <2>1, CountsCarry DEF CountInv
  <2> QED
    BY <1>3, <2>1, <2>2 DEF CountInv
<1>9. CASE PreAccept
  <2>1. /\ UNCHANGED <<attempt, iteration, rounds>>
        /\ pc = "pre_accept" /\ pc' = "evidence" /\ iteration > 0
    BY <1>9 DEF PreAccept, BaseInv, TypeInv, LoopInv, Iterations
  <2>2. ~RoundDecided'
    <3>1. PICK e : PreDecide(e)
      BY <1>9 DEF PreAccept
    <3>2. status.iteration = iteration - 1
      BY <1>9 DEF PreAccept, BaseInv, RoundInv
    <3> QED
      BY <1>2, <2>1, <3>1, <3>2, PreStage
  <2>3. CountsAre(Known)'
    BY <1>2, <1>5, <2>1, CountsCarry DEF CountInv
  <2> QED
    BY <1>3, <2>1, <2>2, <2>3 DEF CountInv
<1>10. CASE PostAccept
  <2>1. CountsNow' /\ ReasonByCounters(status, rounds)'
    BY <1>2, <1>10, CountPost
  <2>2. pc' = "evidence" /\ RoundDecided'
    <3>1. PICK e : PostDecide(e)
      BY <1>10 DEF PostAccept
    <3>2. iteration > 0 /\ UNCHANGED iteration
      BY <1>10 DEF PostAccept, BaseInv, TypeInv, LoopInv, Iterations
    <3> QED
      BY <1>10, <3>1, <3>2, PostCounts DEF PostAccept, BaseInv
  <2> QED
    BY <1>3, <2>1, <2>2 DEF CountInv
<1>11. CASE WriteEvidence
  <2>1. /\ UNCHANGED <<attempt, iteration, status, rounds>>
        /\ pc = "evidence" /\ pc' \in {"evidence", "append", "act"}
        /\ pc' = "act" => ~RoundDecided
    BY <1>11 DEF WriteEvidence, AfterEvidence
  <2>2. CASE RoundDecided
    BY <1>2, <1>3, <2>1, <2>2, NowKept DEF CountInv, ReasonByCounters
  <2>3. CASE ~RoundDecided
    <3>1. CountsAre(Known)'
      BY <1>2, <1>5, <2>1, <2>3, CountsCarry DEF CountInv
    <3> QED
      BY <1>3, <2>1, <2>3, <3>1 DEF CountInv
  <2> QED
    BY <2>2, <2>3
<1>12. CASE Crash
  BY <1>3, <1>12 DEF Crash, CountInv
<1>13. CASE UserEdit \/ UNCHANGED vars
  <2>1. UNCHANGED <<pc, attempt, iteration, status, rounds>>
    BY <1>13 DEF UserEdit, vars, memory
  <2>2. CountsAre(Known) => CountsAre(Known)'
    BY <1>2, <1>5, <2>1, CountsCarry
  <2>3. CountsNow => CountsNow'
    BY <1>2, <2>1, NowKept
  <2> QED
    BY <1>3, <2>1, <2>2, <2>3 DEF CountInv, ReasonByCounters
<1> QED
  BY <1>4, <1>6, <1>7, <1>8, <1>9, <1>10, <1>11, <1>12, <1>13 DEF Next, Step

\* An abort is always the ledger's: the reason of every recorded round is the
\* one its attempt's own lines give, through crashes, restarts and torn lines.
THEOREM PolicyMatchesLedger == Spec => []PolicyFollowsLedger
<1>1. Init => CountInv
  BY DEF Init, CountInv, Pending, Live, Writing, InIteration, PolicyFollowsLedger,
         Recorded
<1>2. CountInv => PolicyFollowsLedger
  BY DEF CountInv
<1>3. BaseInv => TypeInv
  BY DEF BaseInv
<1> QED
  BY <1>1, <1>2, <1>3, BaseInit, RoundInit, LinesInit, RoundsInit, BaseStep,
     LinesStep, RoundsStep, CountStep, PTL DEF Spec
==============================================================================
