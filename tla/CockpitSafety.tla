---------------------------- MODULE CockpitSafety ----------------------------
(***************************************************************************)
(* Safety of the cockpit: of a run on its server, for any number of cancel *)
(* requests, messages and events, and of a browser tab, for any runs and   *)
(* saved sessions, any number of requests under way and of errors.  The    *)
(* two models share no variable; each theorem is about one of them.        *)
(***************************************************************************)
EXTENDS CockpitRun, CockpitClient, TLAPS

------------------------------------------------------------------------------
(* Inductive invariants.                                                     *)

\* A result on its way to the disk is the executor's, or says that the run
\* was aborted or failed.
Honest(state) ==
  /\ state.result # "none"
  /\ \/ state.result \in {"aborted", "failed"}
     \/ run = "resolved" /\ state.result = outcome

OutcomeSet == run \in {"summarizing", "resolved"} => outcome # "none"

HonestInv ==
  /\ OutcomeSet
  /\ record # Nothing => Honest(record)
  /\ \A p \in Procs : pc[p] \in Saving \cup {"config"} => Honest(local[p])

\* Between the write of the record and the answer there is a record.
Written ==
  \A p \in Procs :
    pc[p] \in {"rest", "shown", "canceled"} => record # Nothing

\* The continuation that has not looked at the flag, or was dropped by it, has
\* nothing in its hands; one past it holds the outcome.
Early ==
  pc[Completion] \in {"await", "dropped"} /\ local[Completion].result = "none"
Late ==
  \/ pc[Completion] \in {"save", "rest", "catch", "shown"}
  \/ pc[Completion] = "dropped" /\ local[Completion].result # "none"

Waiting ==
  /\ ~Settled => pc[Completion] = "await"
  /\ pc[Completion] = "await" => local[Completion].result = "none"

\* As long as nobody has asked to cancel, the live state is what is shown, and
\* there is no session before the continuation moves.
Unflagged ==
  ~cancelled /\ ~lapsed =>
    /\ NeverCancelled
    /\ run \in {"summarizing", "resolved"} => live.result = outcome
    /\ pc[Completion] = "await" =>
         /\ record = Nothing
         /\ \A m \in Messages : pc[m] \in {"idle", "error"}
         /\ snapshot # Nothing =>
              ~snapshot.done /\ snapshot.state.result = live.result

Holding == Saving \cup {"config"}

\* Everything there is of the session has that result.
AllSay(result) ==
  /\ record # Nothing => record.result = result
  /\ \A p \in Requests : pc[p] \in Holding => local[p].result = result

\* While the continuation has written nothing, only cancel requests have, and
\* messages that loaded what those wrote.
EarlyInv ==
  ~lapsed /\ Early =>
    /\ AllSay("aborted")
    /\ (\E c \in Cancels : pc[c] = "canceled") /\ snapshot # Nothing
         => snapshot.state.result = "aborted"

\* Once it has, every copy of the state agrees on the outcome, and only an
\* aborted one lets a cancel request go on.
LateInv ==
  ~lapsed /\ Late =>
    /\ run = "resolved"
    /\ local[Completion].result = outcome /\ live.result = outcome
    /\ AllSay(outcome)
    /\ snapshot # Nothing => snapshot.state.result = outcome
    /\ \A c \in Cancels :
         pc[c] \in Holding \cup {"canceled"} => outcome = "aborted"

Closed ==
  ~lapsed /\ (\E c \in Cancels : pc[c] = "canceled") /\ snapshot # Nothing
    => snapshot.done

RunInv ==
  /\ TypeOK /\ OutcomeSet /\ Written /\ Waiting /\ Unflagged
  /\ EarlyInv /\ LateInv /\ Closed

------------------------------------------------------------------------------
(* Types.                                                                    *)

LEMMA ProcFacts ==
  /\ Completion \in Procs
  /\ Cancels \subseteq Procs /\ Messages \subseteq Procs
  /\ Requests \subseteq Procs /\ Cancels \subseteq Requests
  /\ \A p \in Requests : p # Completion
  /\ \A p \in Procs : p = Completion \/ p \in Requests
  /\ \A p \in Requests : p \in Cancels \/ p \in Messages
  /\ \A c \in Cancels : c \notin Messages
  BY CockpitAssumption DEF Procs, Requests

LEMMA StateFacts ==
  /\ Nothing \notin States /\ Nothing \notin Snapshots
  /\ Blank \in States
  /\ \A s \in States, r \in Results : [s EXCEPT !.result = r] \in States
  /\ \A s \in States : MarkLiveRunFailed(s) \in States
  /\ \A s \in States : MarkLiveRunCanceled(s) \in States
  /\ \A s \in States, m \in Messages : AppendTurn(m, s) \in States
  /\ \A s \in States, d \in BOOLEAN, e \in BOOLEAN :
       Snapshot(s, d, e) \in Snapshots
  BY CockpitAssumption
  DEF States, Snapshots, Results, Blank, MarkLiveRunFailed,
      MarkLiveRunCanceled, AppendTurn, Snapshot

\* What the onEvent callback leaves in the server has its type.
LEMMA OnEventType ==
  ASSUME TypeOK, NEW r \in Results, OnEvent(r)
  PROVE  live' \in States /\ snapshot' \in Snapshots \cup {Nothing}
  BY StateFacts DEF TypeOK, OnEvent

LEMMA TypeInit == Init => TypeOK
<1> SUFFICES ASSUME Init PROVE TypeOK
  OBVIOUS
<1>1. Snapshot(Blank, FALSE, FALSE) \in Snapshots /\ Blank \in States
  BY StateFacts
<1>2. "none" \in Results /\ 0 \in 0..MaxEvents
  BY CockpitAssumption DEF Results
<1>3. pc \in [Procs -> Pcs]
  BY DEF Init, Pcs
<1> QED
  BY <1>1, <1>2, <1>3 DEF Init, TypeOK

LEMMA TypeStep == TypeOK /\ [Next]_vars => TypeOK'
<1> SUFFICES ASSUME TypeOK, [Next]_vars PROVE TypeOK'
  OBVIOUS
<1> USE ProcFacts
<1>1. CASE LiveEvent
  <2>1. live.result \in Results
    BY DEF TypeOK, States
  <2>2. live' \in States /\ snapshot' \in Snapshots \cup {Nothing}
    BY <1>1, <2>1, OnEventType DEF LiveEvent
  <2> QED
    BY <1>1, <2>2, CockpitAssumption DEF LiveEvent, TypeOK, procs
<1>2. CASE Summarize
  <2>1. PICK r \in RunResults : outcome' = r /\ OnEvent(r)
    BY <1>2 DEF Summarize
  <2>2. r \in Results
    BY DEF Results
  <2>3. live' \in States /\ snapshot' \in Snapshots \cup {Nothing}
    BY <2>1, <2>2, OnEventType
  <2> QED
    BY <1>2, <2>1, <2>2, <2>3 DEF Summarize, TypeOK, procs
<1>3. CASE CoderBlocks
  <2>1. "aborted" \in Results
    BY DEF Results
  <2>2. live' \in States /\ snapshot' \in Snapshots \cup {Nothing}
    BY <1>3, <2>1, OnEventType DEF CoderBlocks
  <2> QED
    BY <1>3, <2>1, <2>2 DEF CoderBlocks, TypeOK, procs
<1>4. CASE StragglerEnds
  BY <1>4 DEF StragglerEnds, TypeOK, bus, procs
<1>5. CASE Resolve
  BY <1>5 DEF Resolve, TypeOK, bus, procs
<1>6. CASE Reject
  BY <1>6 DEF Reject, TypeOK, bus, procs
<1>7. CASE Then
  <2>1. [result |-> outcome, turns |-> {}] \in States
    BY DEF TypeOK, States
  <2> QED
    BY <1>7, <2>1 DEF Then, Move, TypeOK, executor, bus, Pcs, Saving
<1>8. CASE Catch
  BY <1>8, StateFacts DEF Catch, Move, TypeOK, executor, bus, Pcs, Saving
<1>9. CASE ShowFailure
  <2>1. Snapshot(local[Completion], TRUE, TRUE) \in Snapshots
    BY StateFacts DEF TypeOK
  <2> QED
    BY <1>9, <2>1 DEF ShowFailure, Move, TypeOK, executor, Pcs
<1>10. ASSUME NEW p \in Procs, Save(p) PROVE TypeOK'
  <2>1. CASE WriteRecord(p)
    BY <2>1 DEF WriteRecord, Move, TypeOK, executor, bus, Pcs, Saving
  <2>2. CASE SaveReturns(p)
    <3>1. Snapshot(local[p], TRUE, FALSE) \in Snapshots
      BY StateFacts DEF TypeOK
    <3>2. Answer(p) \in Pcs
      BY DEF Answer, Pcs, Answers
    <3> QED
      BY <2>2, <3>1, <3>2 DEF SaveReturns, Move, TypeOK, executor
  <2>3. CASE SaveThrows(p)
    BY <2>3 DEF SaveThrows, Move, TypeOK, executor, bus, Pcs, Answers
  <2> QED
    BY <1>10, <2>1, <2>2, <2>3 DEF Save
<1>11. ASSUME NEW c \in Procs, NEW s \in States, CancelState(c, s)
       PROVE  pc' \in [Procs -> Pcs] /\ local' \in [Procs -> States]
  <2>1. MarkLiveRunCanceled(s) \in States
    BY StateFacts
  <2> QED
    BY <1>11, <2>1 DEF CancelState, Move, TypeOK, Pcs, Answers
<1>12. ASSUME NEW c \in Cancels, Cancel(c) PROVE TypeOK'
  <2>1. CASE snapshot = Nothing
    BY <1>12, <2>1 DEF Cancel, Move, TypeOK, executor, Pcs
  <2>2. CASE snapshot # Nothing
    <3>1. snapshot.state \in States
      BY <2>2 DEF TypeOK, Snapshots
    <3>2. CancelState(c, snapshot.state)
      BY <1>12, <2>2 DEF Cancel
    <3>3. pc' \in [Procs -> Pcs] /\ local' \in [Procs -> States]
      BY <1>11, <3>1, <3>2
    <3> QED
      BY <1>12, <3>3 DEF Cancel, TypeOK, executor
  <2> QED
    BY <2>1, <2>2
<1>13. ASSUME NEW m \in Messages, LoadToAppend(m) PROVE TypeOK'
  BY <1>13 DEF LoadToAppend, Move, TypeOK, executor, bus, Pcs, Answers
<1>14. ASSUME NEW c \in Requests, LoadToCancel(c) PROVE TypeOK'
  <2>1. CASE record = Nothing
    BY <1>14, <2>1
    DEF LoadToCancel, Move, TypeOK, executor, bus, Pcs, Answers
  <2>2. CASE record # Nothing
    <3>1. record \in States /\ CancelState(c, record)
      BY <1>14, <2>2 DEF LoadToCancel, TypeOK
    <3>2. pc' \in [Procs -> Pcs] /\ local' \in [Procs -> States]
      BY <1>11, <3>1
    <3> QED
      BY <1>14, <3>2 DEF LoadToCancel, TypeOK, executor, bus
  <2> QED
    BY <2>1, <2>2
<1>15. ASSUME NEW p \in Requests, ConfigRead(p) \/ ConfigThrows(p)
       PROVE  TypeOK'
  BY <1>15, StateFacts
  DEF ConfigRead, ConfigThrows, Move, TypeOK, executor, bus, Pcs, Saving,
      Answers
<1>16. CASE DropSnapshot
  BY <1>16 DEF DropSnapshot, TypeOK, executor, procs
<1>17. CASE LapseCancellation
  BY <1>17 DEF LapseCancellation, TypeOK, executor, procs
<1>18. CASE UNCHANGED vars
  BY <1>18 DEF vars, TypeOK, executor, bus, procs
<1> QED
  BY <1>1, <1>2, <1>3, <1>4, <1>5, <1>6, <1>7, <1>8, <1>9, <1>10, <1>12,
     <1>13, <1>14, <1>15, <1>16, <1>17, <1>18
  DEF Next, Execute, Complete, Serve

\* Every variable keeps its type, whatever the requests, messages and results
\* (all of CockpitRun).
THEOREM TypeCorrect == Spec => []TypeOK
  BY TypeInit, TypeStep, PTL DEF Spec

------------------------------------------------------------------------------
(* The result on disk.                                                       *)

\* What is saved or on its way to the disk stays honest while the executor
\* goes on.
LEMMA HonestStep ==
  ASSUME TypeOK, HonestInv, [Next]_vars
  PROVE  HonestInv'
<1> USE ProcFacts
<1>1. ASSUME UNCHANGED <<record, pc, local>>,
             \/ run' = run /\ outcome' = outcome
             \/ run # "resolved" /\ OutcomeSet'
      PROVE  HonestInv'
  BY <1>1 DEF HonestInv, Honest, OutcomeSet
<1>2. ASSUME NEW p \in Procs, UNCHANGED <<run, outcome, record>>,
             pc' = [pc EXCEPT ![p] = pc'[p]],
             local' = [local EXCEPT ![p] = local'[p]],
             pc'[p] \in Saving \cup {"config"} => Honest(local'[p])
      PROVE  HonestInv'
  BY <1>2 DEF HonestInv, Honest, OutcomeSet, TypeOK
<1>3. CASE LiveEvent
  BY <1>3, <1>1 DEF LiveEvent, procs
<1>4. CASE Summarize
  <2>1. OutcomeSet'
    BY <1>4, CockpitAssumption DEF Summarize, OutcomeSet
  <2> QED
    BY <1>4, <1>1, <2>1 DEF Summarize, procs
<1>5. CASE CoderBlocks
  BY <1>5, <1>1 DEF CoderBlocks, OutcomeSet, procs
<1>6. CASE StragglerEnds
  BY <1>6, <1>1 DEF StragglerEnds, procs
<1>7. CASE Resolve
  BY <1>7, <1>1 DEF Resolve, HonestInv, OutcomeSet, procs
<1>8. CASE Reject
  BY <1>8, <1>1 DEF Reject, OutcomeSet, procs
<1>9. CASE Then
  <2>1. CASE cancelled
    BY <1>9, <2>1, <1>2 DEF Then, Move, TypeOK, Saving, executor
  <2>2. CASE ~cancelled
    <3>1. local'[Completion] = [result |-> outcome, turns |-> {}]
      BY <1>9, <2>2 DEF Then, TypeOK
    <3>2. Honest(local'[Completion])
      BY <1>9, <3>1 DEF Then, Honest, HonestInv, OutcomeSet
    <3> QED
      BY <1>9, <2>2, <3>1, <3>2, <1>2 DEF Then, Move, TypeOK, executor
  <2> QED
    BY <2>1, <2>2
<1>10. CASE Catch
  <2>1. CASE cancelled
    BY <1>10, <2>1, <1>2 DEF Catch, Move, TypeOK, Saving, executor
  <2>2. CASE ~cancelled
    <3>1. local'[Completion] = MarkLiveRunFailed(live)
      BY <1>10, <2>2 DEF Catch, TypeOK
    <3>2. Honest(local'[Completion])
      BY <3>1 DEF MarkLiveRunFailed, Honest, TypeOK, States
    <3> QED
      BY <1>10, <2>2, <3>1, <3>2, <1>2 DEF Catch, Move, TypeOK, executor
  <2> QED
    BY <2>1, <2>2
<1>11. CASE ShowFailure
  BY <1>11, <1>2 DEF ShowFailure, Move, TypeOK, Saving, executor
<1>12. ASSUME NEW p \in Procs, Save(p) PROVE HonestInv'
  <2>1. CASE WriteRecord(p)
    <3>1. Honest(local[p])
      BY <2>1 DEF WriteRecord, HonestInv, Saving
    <3> QED
      BY <2>1, <3>1
      DEF WriteRecord, Move, HonestInv, Honest, OutcomeSet, TypeOK, executor,
          Saving
  <2>2. CASE SaveReturns(p)
    BY <2>2, <1>2 DEF SaveReturns, Move, Answer, TypeOK, Saving, executor
  <2>3. CASE SaveThrows(p)
    BY <2>3, <1>2 DEF SaveThrows, Move, TypeOK, Saving, executor
  <2> QED
    BY <1>12, <2>1, <2>2, <2>3 DEF Save
<1>13. ASSUME NEW c \in Procs, NEW s \in States, CancelState(c, s),
              UNCHANGED <<run, outcome, record>>
       PROVE  HonestInv'
  <2>1. CASE s.result \notin {"none", "aborted"}
    BY <1>13, <2>1, <1>2 DEF CancelState, Move, TypeOK, Saving
  <2>2. CASE s.result \in {"none", "aborted"}
    <3>1. local'[c] = MarkLiveRunCanceled(s)
      BY <1>13, <2>2 DEF CancelState, TypeOK
    <3>2. Honest(local'[c])
      BY <3>1 DEF MarkLiveRunCanceled, Honest, States
    <3> QED
      BY <1>13, <2>2, <3>1, <3>2, <1>2 DEF CancelState, Move, TypeOK
  <2> QED
    BY <2>1, <2>2
<1>14. ASSUME NEW c \in Cancels, Cancel(c) PROVE HonestInv'
  <2>1. CASE snapshot = Nothing
    BY <1>14, <2>1, <1>2 DEF Cancel, Move, TypeOK, Saving, executor
  <2>2. CASE snapshot # Nothing
    <3>1. snapshot.state \in States /\ CancelState(c, snapshot.state)
      BY <1>14, <2>2 DEF Cancel, TypeOK, Snapshots
    <3> QED
      BY <1>14, <3>1, <1>13 DEF Cancel, executor
  <2> QED
    BY <2>1, <2>2
<1>15. ASSUME NEW m \in Messages, LoadToAppend(m) PROVE HonestInv'
  <2>1. CASE record = Nothing
    BY <1>15, <2>1, <1>2 DEF LoadToAppend, Move, TypeOK, Saving, executor
  <2>2. CASE record # Nothing
    <3>1. local'[m] = record /\ Honest(local'[m])
      BY <1>15, <2>2
      DEF LoadToAppend, HonestInv, Honest, TypeOK, executor
    <3> QED
      BY <1>15, <2>2, <3>1, <1>2 DEF LoadToAppend, Move, TypeOK, executor
  <2> QED
    BY <2>1, <2>2
<1>16. ASSUME NEW c \in Requests, LoadToCancel(c) PROVE HonestInv'
  <2>1. CASE record = Nothing
    BY <1>16, <2>1, <1>2 DEF LoadToCancel, Move, TypeOK, Saving, executor
  <2>2. CASE record # Nothing
    BY <1>16, <2>2, <1>13 DEF LoadToCancel, TypeOK, executor
  <2> QED
    BY <2>1, <2>2
<1>17. ASSUME NEW p \in Requests, ConfigRead(p) PROVE HonestInv'
  <2>1. Honest(local[p])
    BY <1>17 DEF ConfigRead, HonestInv
  <2>2. local'[p] \in {local[p], AppendTurn(p, local[p])}
    BY <1>17 DEF ConfigRead, TypeOK
  <2>3. Honest(local'[p])
    BY <2>1, <2>2, <1>17 DEF Honest, AppendTurn, ConfigRead, executor
  <2> QED
    BY <1>17, <2>3, <1>2 DEF ConfigRead, Move, TypeOK, executor
<1>18. ASSUME NEW p \in Requests, ConfigThrows(p) PROVE HonestInv'
  BY <1>18, <1>2 DEF ConfigThrows, Move, TypeOK, Saving, executor
<1>19. CASE DropSnapshot
  BY <1>19, <1>1 DEF DropSnapshot, executor, procs
<1>20. CASE LapseCancellation
  BY <1>20, <1>1 DEF LapseCancellation, executor, procs
<1>21. CASE UNCHANGED vars
  BY <1>21, <1>1 DEF vars, executor, procs
<1> QED
  BY <1>3, <1>4, <1>5, <1>6, <1>7, <1>8, <1>9, <1>10, <1>11, <1>12, <1>14,
     <1>15, <1>16, <1>17, <1>18, <1>19, <1>20, <1>21
  DEF Next, Execute, Complete, Serve

\* A session on disk never claims another result than its executor came to
\* (server.ts:328-350, 424-439).
THEOREM VerdictKept == Spec => []VerdictIsTheRuns
<1>1. Init => HonestInv
  BY CockpitAssumption DEF Init, HonestInv, OutcomeSet, Saving
<1>2. TypeOK /\ HonestInv /\ [Next]_vars => HonestInv'
  BY HonestStep
<1>3. HonestInv => VerdictIsTheRuns
  BY DEF HonestInv, Honest, VerdictIsTheRuns
<1> QED
  BY <1>1, <1>2, <1>3, TypeCorrect, PTL DEF Spec

------------------------------------------------------------------------------
(* What a client that was told the run is over finds.                        *)

\* A record stays, and is there once saveSession has got to its other files.
LEMMA WrittenStep ==
  ASSUME TypeOK, Written, [Next]_vars
  PROVE  Written' /\ (record # Nothing => record' # Nothing)
<1> USE ProcFacts
<1>1. ASSUME NEW p \in Procs, record' = record,
             pc' = [pc EXCEPT ![p] = pc'[p]],
             pc'[p] \in {"rest", "shown", "canceled"} => record # Nothing
      PROVE  Written' /\ record' = record
  BY <1>1 DEF Written, TypeOK
<1>2. ASSUME UNCHANGED <<record, pc>> PROVE Written' /\ record' = record
  BY <1>2 DEF Written
<1>3. CASE Execute
  BY <1>3, <1>2
  DEF Execute, LiveEvent, Summarize, CoderBlocks, StragglerEnds, Resolve,
      Reject, procs
<1>4. CASE Then \/ Catch \/ ShowFailure
  BY <1>4, <1>1 DEF Then, Catch, ShowFailure, Move, TypeOK
<1>5. ASSUME NEW p \in Procs, Save(p)
      PROVE  Written' /\ (record # Nothing => record' # Nothing)
  <2>1. CASE WriteRecord(p)
    <3>1. record' # Nothing
      BY <2>1, StateFacts DEF WriteRecord, TypeOK
    <3> QED
      BY <3>1 DEF Written
  <2>2. CASE SaveReturns(p)
    <3>1. record # Nothing
      BY <2>2 DEF SaveReturns, Written
    <3> QED
      BY <2>2, <3>1, <1>1 DEF SaveReturns, Move, TypeOK
  <2>3. CASE SaveThrows(p)
    BY <2>3, <1>1 DEF SaveThrows, Move, TypeOK
  <2> QED
    BY <1>5, <2>1, <2>2, <2>3 DEF Save
<1>6. ASSUME NEW c \in Cancels, Cancel(c) PROVE Written' /\ record' = record
  BY <1>6, <1>1 DEF Cancel, CancelState, Move, TypeOK
<1>7. ASSUME NEW m \in Messages, LoadToAppend(m)
      PROVE  Written' /\ record' = record
  BY <1>7, <1>1 DEF LoadToAppend, Move, TypeOK
<1>8. ASSUME NEW p \in Requests,
             LoadToCancel(p) \/ ConfigRead(p) \/ ConfigThrows(p)
      PROVE  Written' /\ record' = record
  BY <1>8, <1>1
  DEF LoadToCancel, CancelState, ConfigRead, ConfigThrows, Move, TypeOK
<1>9. CASE DropSnapshot \/ LapseCancellation \/ UNCHANGED vars
  BY <1>9, <1>2 DEF DropSnapshot, LapseCancellation, vars, procs
<1> QED
  BY <1>3, <1>4, <1>5, <1>6, <1>7, <1>8, <1>9 DEF Next, Complete, Serve

\* Who shows what: a done snapshot without an error comes from a save that
\* returned.
LEMMA SnapshotStep ==
  ASSUME TypeOK, [Next]_vars,
         snapshot' # snapshot, snapshot' # Nothing,
         snapshot'.done /\ ~snapshot'.error
  PROVE  \E p \in Procs : SaveReturns(p)
<1>1. ASSUME NEW r, OnEvent(r) PROVE FALSE
  BY <1>1 DEF OnEvent, Snapshot
<1>2. ~Execute
  BY <1>1
  DEF Execute, LiveEvent, Summarize, CoderBlocks, StragglerEnds, Resolve,
      Reject, bus
<1>3. ~Then /\ ~Catch /\ ~ShowFailure
  BY DEF Then, Catch, ShowFailure, Snapshot, bus
<1>4. ASSUME NEW p, Save(p) PROVE SaveReturns(p)
  BY <1>4 DEF Save, WriteRecord, SaveThrows, bus
<1>5. ~DropSnapshot /\ ~LapseCancellation /\ ~UNCHANGED vars
  BY DEF DropSnapshot, LapseCancellation, vars, bus
<1>6. \A c \in Cancels : ~Cancel(c)
  BY DEF Cancel
<1>7. \A p \in Procs :
        /\ ~LoadToAppend(p) /\ ~LoadToCancel(p)
        /\ ~ConfigRead(p) /\ ~ConfigThrows(p)
  BY DEF LoadToAppend, LoadToCancel, ConfigRead, ConfigThrows, bus
<1> QED
  BY <1>2, <1>3, <1>4, <1>5, <1>6, <1>7, ProcFacts DEF Next, Complete, Serve

\* A client that saw the run done, without an error, finds its session with a
\* result (server.ts:331-332, 438-439; docs/LOCAL_COCKPIT_API.md:77).
THEOREM DoneFindsSession == Spec => []DoneIsSaved
<1>1. Init => Written /\ DoneIsSaved
  BY DEF Init, Written, DoneIsSaved, Snapshot
<1>2. TypeOK /\ HonestInv /\ Written /\ DoneIsSaved /\ [Next]_vars
        => Written' /\ DoneIsSaved'
  <2> SUFFICES ASSUME TypeOK, HonestInv, Written, DoneIsSaved, [Next]_vars
               PROVE  Written' /\ DoneIsSaved'
    OBVIOUS
  <2>1. Written' /\ (record # Nothing => record' # Nothing)
    BY WrittenStep
  <2>2. record' # Nothing => record'.result # "none"
    BY HonestStep DEF HonestInv, Honest
  <2>3. CASE snapshot' = snapshot
    BY <2>1, <2>2, <2>3 DEF DoneIsSaved
  <2>4. CASE snapshot' # snapshot
    <3> SUFFICES ASSUME snapshot' # Nothing, snapshot'.done, ~snapshot'.error
                 PROVE  record' # Nothing
      BY <2>1, <2>2 DEF DoneIsSaved
    <3>1. PICK p \in Procs : SaveReturns(p)
      BY <2>4, SnapshotStep
    <3> QED
      BY <3>1 DEF SaveReturns, Written
  <2> QED
    BY <2>3, <2>4
<1>3. Init => HonestInv
  BY CockpitAssumption DEF Init, HonestInv, OutcomeSet, Saving
<1>4. TypeOK /\ HonestInv /\ [Next]_vars => HonestInv'
  BY HonestStep
<1> QED
  BY <1>1, <1>2, <1>3, <1>4, TypeCorrect, PTL DEF Spec

------------------------------------------------------------------------------
(* Cancellation.                                                             *)

\* The continuation waits until the promise settles, holding nothing till then.
LEMMA WaitingStep ==
  ASSUME RunInv, [Next]_vars
  PROVE  OutcomeSet' /\ Waiting'
<1> USE ProcFacts, StateFacts, CockpitAssumption DEF RunInv
<1>1. CASE LiveEvent
  BY <1>1 DEF LiveEvent, procs, OutcomeSet, Waiting, Settled
<1>2. CASE Summarize
  BY <1>2 DEF Summarize, procs, OutcomeSet, Waiting, Settled
<1>3. CASE CoderBlocks
  BY <1>3 DEF CoderBlocks, procs, OutcomeSet, Waiting, Settled
<1>4. CASE StragglerEnds \/ Resolve \/ Reject
  BY <1>4
  DEF StragglerEnds, Resolve, Reject, procs, OutcomeSet, Waiting, Settled
<1>5. CASE Then
  BY <1>5 DEF Then, Move, executor, OutcomeSet, Waiting, Settled, TypeOK
<1>6. CASE Catch
  BY <1>6 DEF Catch, Move, executor, OutcomeSet, Waiting, Settled, TypeOK
<1>7. CASE ShowFailure
  BY <1>7 DEF ShowFailure, Move, executor, OutcomeSet, Waiting, Settled
<1>8. ASSUME NEW p \in Procs, WriteRecord(p) PROVE OutcomeSet' /\ Waiting'
  BY <1>8 DEF WriteRecord, Move, executor, OutcomeSet, Waiting, Settled
<1>9. ASSUME NEW p \in Procs, SaveReturns(p) PROVE OutcomeSet' /\ Waiting'
  BY <1>9
  DEF SaveReturns, Answer, Move, executor, OutcomeSet, Waiting, Settled
<1>10. ASSUME NEW p \in Procs, SaveThrows(p) PROVE OutcomeSet' /\ Waiting'
  BY <1>10 DEF SaveThrows, Move, executor, OutcomeSet, Waiting, Settled
<1>11. ASSUME NEW c \in Cancels, Cancel(c) PROVE OutcomeSet' /\ Waiting'
  BY <1>11
  DEF Cancel, CancelState, Move, executor, OutcomeSet, Waiting, Settled,
      TypeOK
<1>12. ASSUME NEW m \in Messages, LoadToAppend(m) PROVE OutcomeSet' /\ Waiting'
  BY <1>12
  DEF LoadToAppend, Move, executor, OutcomeSet, Waiting, Settled, TypeOK
<1>13. ASSUME NEW c \in Requests, LoadToCancel(c) PROVE OutcomeSet' /\ Waiting'
  BY <1>13
  DEF LoadToCancel, CancelState, Move, executor, OutcomeSet, Waiting,
      Settled, TypeOK
<1>14. ASSUME NEW p \in Requests, ConfigRead(p) PROVE OutcomeSet' /\ Waiting'
  BY <1>14 DEF ConfigRead, Move, executor, OutcomeSet, Waiting, Settled
<1>15. ASSUME NEW p \in Requests, ConfigThrows(p) PROVE OutcomeSet' /\ Waiting'
  BY <1>15 DEF ConfigThrows, Move, executor, OutcomeSet, Waiting, Settled
<1>16. CASE DropSnapshot
  BY <1>16 DEF DropSnapshot, executor, procs, OutcomeSet, Waiting, Settled
<1>17. CASE LapseCancellation
  BY <1>17
  DEF LapseCancellation, executor, procs, OutcomeSet, Waiting, Settled
<1>18. CASE UNCHANGED vars
  BY <1>18 DEF vars, executor, procs, OutcomeSet, Waiting, Settled
<1> QED
  BY <1>1, <1>2, <1>3, <1>4, <1>5, <1>6, <1>7, <1>8, <1>9, <1>10, <1>11,
     <1>12, <1>13, <1>14, <1>15, <1>16, <1>17, <1>18
  DEF Next, Execute, Complete, Serve, Save

\* Until a cancel request raises the flag, only events change what is shown.
LEMMA UnflaggedStep ==
  ASSUME RunInv, [Next]_vars
  PROVE  Unflagged'
<1> USE ProcFacts, StateFacts, CockpitAssumption DEF RunInv
<1>1. CASE LiveEvent
  BY <1>1
  DEF LiveEvent, OnEvent, Snapshot, procs, Unflagged, NeverCancelled,
      TypeOK, States
<1>2. CASE Summarize
  BY <1>2
  DEF Summarize, OnEvent, Snapshot, procs, Unflagged, NeverCancelled,
      TypeOK, States
<1>3. CASE CoderBlocks
  BY <1>3
  DEF CoderBlocks, OnEvent, Snapshot, procs, Unflagged, NeverCancelled,
      TypeOK, States
<1>4. CASE StragglerEnds \/ Resolve \/ Reject
  BY <1>4
  DEF StragglerEnds, Resolve, Reject, bus, procs, Unflagged, NeverCancelled
<1>5. CASE Then
  BY <1>5 DEF Then, Move, executor, bus, Unflagged, NeverCancelled, TypeOK
<1>6. CASE Catch
  BY <1>6 DEF Catch, Move, executor, bus, Unflagged, NeverCancelled, TypeOK
<1>7. CASE ShowFailure
  BY <1>7 DEF ShowFailure, Snapshot, Move, executor, Unflagged, NeverCancelled
<1>8. ASSUME NEW p \in Procs, WriteRecord(p) PROVE Unflagged'
  BY <1>8 DEF WriteRecord, Move, executor, bus, Unflagged, NeverCancelled
<1>9. ASSUME NEW p \in Procs, SaveReturns(p) PROVE Unflagged'
  BY <1>9
  DEF SaveReturns, Snapshot, Answer, Move, executor, Unflagged,
      NeverCancelled
<1>10. ASSUME NEW p \in Procs, SaveThrows(p) PROVE Unflagged'
  BY <1>10 DEF SaveThrows, Move, executor, bus, Unflagged, NeverCancelled
<1>11. ASSUME NEW c \in Cancels, Cancel(c) PROVE Unflagged'
  BY <1>11 DEF Cancel, Unflagged
<1>12. ASSUME NEW m \in Messages, LoadToAppend(m) PROVE Unflagged'
  BY <1>12
  DEF LoadToAppend, Move, executor, bus, Unflagged, NeverCancelled, TypeOK
<1>13. ASSUME NEW c \in Requests, LoadToCancel(c) PROVE Unflagged'
  BY <1>13
  DEF LoadToCancel, CancelState, Move, executor, bus, Unflagged,
      NeverCancelled, TypeOK
<1>14. ASSUME NEW p \in Requests, ConfigRead(p) PROVE Unflagged'
  BY <1>14 DEF ConfigRead, Move, executor, bus, Unflagged, NeverCancelled
<1>15. ASSUME NEW p \in Requests, ConfigThrows(p) PROVE Unflagged'
  BY <1>15 DEF ConfigThrows, Move, executor, bus, Unflagged, NeverCancelled
<1>16. CASE DropSnapshot
  BY <1>16 DEF DropSnapshot, executor, procs, Unflagged, NeverCancelled
<1>17. CASE LapseCancellation
  BY <1>17 DEF LapseCancellation, Unflagged
<1>18. CASE UNCHANGED vars
  BY <1>18 DEF vars, executor, bus, procs, Unflagged, NeverCancelled
<1> QED
  BY <1>1, <1>2, <1>3, <1>4, <1>5, <1>6, <1>7, <1>8, <1>9, <1>10, <1>11,
     <1>12, <1>13, <1>14, <1>15, <1>16, <1>17, <1>18
  DEF Next, Execute, Complete, Serve, Save

\* A continuation that took nothing leaves the session to the cancel requests.
LEMMA EarlyStep ==
  ASSUME RunInv, [Next]_vars
  PROVE  EarlyInv'
<1> USE ProcFacts, StateFacts, CockpitAssumption DEF RunInv
<1>1. CASE LiveEvent
  BY <1>1
  DEF LiveEvent, OnEvent, Snapshot, procs, EarlyInv, AllSay, Early,
      Unflagged, NeverCancelled
<1>2. CASE Summarize
  BY <1>2
  DEF Summarize, OnEvent, Snapshot, procs, EarlyInv, AllSay, Early,
      Unflagged, NeverCancelled
<1>3. CASE CoderBlocks
  BY <1>3
  DEF CoderBlocks, OnEvent, Snapshot, procs, EarlyInv, AllSay, Early,
      Unflagged, NeverCancelled
<1>4. CASE StragglerEnds \/ Resolve \/ Reject
  BY <1>4
  DEF StragglerEnds, Resolve, Reject, bus, procs, EarlyInv, AllSay, Early
<1>5. CASE Then
  BY <1>5 DEF Then, Move, bus, EarlyInv, AllSay, Early, TypeOK
<1>6. CASE Catch
  BY <1>6
  DEF Catch, Move, bus, EarlyInv, LateInv, AllSay, Early, Late, OutcomeSet,
      TypeOK
<1>7. CASE ShowFailure
  BY <1>7 DEF ShowFailure, Move, EarlyInv, Early
<1>8. ASSUME NEW p \in Procs, WriteRecord(p) PROVE EarlyInv'
  BY <1>8 DEF WriteRecord, Move, bus, EarlyInv, AllSay, Holding, Saving, Early
<1>9. ASSUME NEW p \in Procs, SaveReturns(p) PROVE EarlyInv'
  BY <1>9
  DEF SaveReturns, Snapshot, Answer, Move, EarlyInv, AllSay, Holding,
      Saving, Early
<1>10. ASSUME NEW p \in Procs, SaveThrows(p) PROVE EarlyInv'
  BY <1>10 DEF SaveThrows, Move, bus, EarlyInv, AllSay, Holding, Saving, Early
<1>11. ASSUME NEW c \in Cancels, Cancel(c) PROVE EarlyInv'
  BY <1>11
  DEF Cancel, CancelState, MarkLiveRunCanceled, Move, EarlyInv, AllSay,
      Holding, Saving, Early, TypeOK, States, Snapshots
<1>12. ASSUME NEW m \in Messages, LoadToAppend(m) PROVE EarlyInv'
  BY <1>12
  DEF LoadToAppend, Move, bus, EarlyInv, AllSay, Holding, Saving, Early,
      TypeOK, Snapshots
<1>13. ASSUME NEW c \in Requests, LoadToCancel(c) PROVE EarlyInv'
  BY <1>13, SMTT(60)
  DEF LoadToCancel, CancelState, MarkLiveRunCanceled, Move, bus, EarlyInv,
      LateInv, AllSay, Holding, Saving, Early, Late, NeverCancelled,
      OutcomeSet, TypeOK, States
<1>14. ASSUME NEW p \in Requests, ConfigRead(p) PROVE EarlyInv'
  BY <1>14 DEF ConfigRead, AppendTurn, Move, bus, EarlyInv, AllSay, Holding, Early
<1>15. ASSUME NEW p \in Requests, ConfigThrows(p) PROVE EarlyInv'
  BY <1>15 DEF ConfigThrows, Move, bus, EarlyInv, AllSay, Holding, Early
<1>16. CASE DropSnapshot
  BY <1>16 DEF DropSnapshot, procs, EarlyInv, AllSay, Early
<1>17. CASE LapseCancellation
  BY <1>17 DEF LapseCancellation, EarlyInv
<1>18. CASE UNCHANGED vars
  BY <1>18 DEF vars, bus, procs, EarlyInv, AllSay, Early
<1> QED
  BY <1>1, <1>2, <1>3, <1>4, <1>5, <1>6, <1>7, <1>8, <1>9, <1>10, <1>11,
     <1>12, <1>13, <1>14, <1>15, <1>16, <1>17, <1>18
  DEF Next, Execute, Complete, Serve, Save

\* One that took the outcome leaves every copy of the session in agreement.
LEMMA LateStep ==
  ASSUME RunInv, [Next]_vars
  PROVE  LateInv'
<1> USE ProcFacts, StateFacts, CockpitAssumption DEF RunInv
<1>1. CASE LiveEvent
  BY <1>1
  DEF LiveEvent, OnEvent, Snapshot, procs, LateInv, AllSay, Late, TypeOK,
      States
<1>2. CASE Summarize
  BY <1>2 DEF Summarize, procs, LateInv, Late
<1>3. CASE CoderBlocks
  BY <1>3 DEF CoderBlocks, procs, LateInv, Late
<1>4. CASE StragglerEnds \/ Resolve \/ Reject
  BY <1>4
  DEF StragglerEnds, Resolve, Reject, bus, procs, LateInv, AllSay, Late
<1>5. CASE Then
  <2>1. CASE cancelled
    BY <1>5, <2>1
    DEF Then, Move, LateInv, Late, Waiting, Settled, TypeOK, States
  <2>2. CASE ~cancelled
    <3> SUFFICES ASSUME ~lapsed PROVE LateInv'
      BY <1>5 DEF Then, bus, LateInv
    <3>1. /\ run = "resolved" /\ live.result = outcome /\ record = Nothing
          /\ snapshot # Nothing => snapshot.state.result = live.result
          /\ \A p \in Requests : pc[p] \in {"idle", "error"}
      BY <1>5, <2>2 DEF Then, Unflagged, NeverCancelled
    <3>2. \A p \in Requests : pc'[p] \notin Holding \cup {"canceled"}
      BY <1>5, <2>2, <3>1 DEF Then, Move, TypeOK, Holding, Saving
    <3>3. local'[Completion].result = outcome
      BY <1>5, <2>2 DEF Then, TypeOK
    <3> QED
      BY <1>5, <3>1, <3>2, <3>3 DEF Then, executor, bus, LateInv, AllSay
  <2> QED
    BY <2>1, <2>2
<1>6. CASE Catch
  BY <1>6
  DEF Catch, Move, executor, bus, LateInv, AllSay, Late, Waiting, TypeOK
<1>7. CASE ShowFailure
  BY <1>7 DEF ShowFailure, Move, LateInv, Late
<1>8. ASSUME NEW p \in Procs, WriteRecord(p) PROVE LateInv'
  BY <1>8
  DEF WriteRecord, Move, executor, bus, LateInv, AllSay, Holding, Saving,
      Late
<1>9. ASSUME NEW p \in Procs, SaveReturns(p) PROVE LateInv'
  BY <1>9
  DEF SaveReturns, Snapshot, Move, executor, LateInv, AllSay, Holding,
      Saving, Late
<1>10. ASSUME NEW p \in Procs, SaveThrows(p) PROVE LateInv'
  BY <1>10
  DEF SaveThrows, Move, executor, bus, LateInv, AllSay, Holding, Saving,
      Late
<1>11. ASSUME NEW c \in Cancels, Cancel(c) PROVE LateInv'
  BY <1>11
  DEF Cancel, CancelState, MarkLiveRunCanceled, Move, executor, LateInv,
      AllSay, Holding, Saving, Late, Waiting, Unflagged, OutcomeSet, TypeOK,
      States, Snapshots
<1>12. ASSUME NEW m \in Messages, LoadToAppend(m) PROVE LateInv'
  BY <1>12
  DEF LoadToAppend, Move, executor, bus, LateInv, AllSay, Holding, Saving,
      Late, TypeOK, Snapshots
<1>13. ASSUME NEW c \in Requests, LoadToCancel(c) PROVE LateInv'
  BY <1>13
  DEF LoadToCancel, CancelState, MarkLiveRunCanceled, Move, executor, bus,
      LateInv, AllSay, Holding, Saving, Late, Unflagged, OutcomeSet, TypeOK,
      States
<1>14. ASSUME NEW p \in Requests, ConfigRead(p) PROVE LateInv'
  BY <1>14
  DEF ConfigRead, AppendTurn, Move, executor, bus, LateInv, AllSay, Holding,
      Late, OutcomeSet
<1>15. ASSUME NEW p \in Requests, ConfigThrows(p) PROVE LateInv'
  BY <1>15
  DEF ConfigThrows, Move, executor, bus, LateInv, AllSay, Holding, Late
<1>16. CASE DropSnapshot
  BY <1>16 DEF DropSnapshot, executor, procs, LateInv, AllSay, Late
<1>17. CASE LapseCancellation
  BY <1>17 DEF LapseCancellation, LateInv
<1>18. CASE UNCHANGED vars
  BY <1>18 DEF vars, executor, bus, procs, LateInv, AllSay, Late
<1> QED
  BY <1>1, <1>2, <1>3, <1>4, <1>5, <1>6, <1>7, <1>8, <1>9, <1>10, <1>11,
     <1>12, <1>13, <1>14, <1>15, <1>16, <1>17, <1>18
  DEF Next, Execute, Complete, Serve, Save

\* Nothing opens the snapshot again once a cancellation has been answered.
LEMMA ClosedStep ==
  ASSUME RunInv, [Next]_vars
  PROVE  Closed'
<1> USE ProcFacts, StateFacts, CockpitAssumption DEF RunInv
<1>1. CASE LiveEvent
  BY <1>1 DEF LiveEvent, OnEvent, procs, Closed, Unflagged, NeverCancelled
<1>2. CASE Summarize
  BY <1>2 DEF Summarize, OnEvent, procs, Closed, Unflagged, NeverCancelled
<1>3. CASE CoderBlocks
  BY <1>3 DEF CoderBlocks, OnEvent, procs, Closed, Unflagged, NeverCancelled
<1>4. CASE StragglerEnds \/ Resolve \/ Reject
  BY <1>4 DEF StragglerEnds, Resolve, Reject, bus, procs, Closed
<1>5. CASE Then
  BY <1>5 DEF Then, Move, bus, Closed, TypeOK
<1>6. CASE Catch
  BY <1>6 DEF Catch, Move, bus, Closed, TypeOK
<1>7. CASE ShowFailure
  BY <1>7 DEF ShowFailure, Snapshot, Closed
<1>8. ASSUME NEW p \in Procs, WriteRecord(p) PROVE Closed'
  BY <1>8 DEF WriteRecord, Move, bus, Closed
<1>9. ASSUME NEW p \in Procs, SaveReturns(p) PROVE Closed'
  BY <1>9 DEF SaveReturns, Snapshot, Closed
<1>10. ASSUME NEW p \in Procs, SaveThrows(p) PROVE Closed'
  BY <1>10 DEF SaveThrows, Move, bus, Closed
<1>11. ASSUME NEW c \in Cancels, Cancel(c) PROVE Closed'
  BY <1>11 DEF Cancel, CancelState, Move, Closed, TypeOK
<1>12. ASSUME NEW m \in Messages, LoadToAppend(m) PROVE Closed'
  BY <1>12 DEF LoadToAppend, Move, bus, Closed, TypeOK
<1>13. ASSUME NEW c \in Requests, LoadToCancel(c) PROVE Closed'
  BY <1>13 DEF LoadToCancel, CancelState, Move, bus, Closed, TypeOK
<1>14. ASSUME NEW p \in Requests, ConfigRead(p) PROVE Closed'
  BY <1>14 DEF ConfigRead, Move, bus, Closed
<1>15. ASSUME NEW p \in Requests, ConfigThrows(p) PROVE Closed'
  BY <1>15 DEF ConfigThrows, Move, bus, Closed
<1>16. CASE DropSnapshot
  BY <1>16 DEF DropSnapshot, Closed
<1>17. CASE LapseCancellation
  BY <1>17 DEF LapseCancellation, Closed
<1>18. CASE UNCHANGED vars
  BY <1>18 DEF vars, bus, procs, Closed
<1> QED
  BY <1>1, <1>2, <1>3, <1>4, <1>5, <1>6, <1>7, <1>8, <1>9, <1>10, <1>11,
     <1>12, <1>13, <1>14, <1>15, <1>16, <1>17, <1>18
  DEF Next, Execute, Complete, Serve, Save

LEMMA RunInvInit == Init => RunInv
<1> SUFFICES ASSUME Init PROVE RunInv
  OBVIOUS
<1>1. TypeOK
  BY TypeInit
<1>2. /\ pc[Completion] = "await" /\ local[Completion] = Blank
      /\ \A p \in Requests : pc[p] = "idle"
  BY ProcFacts DEF Init
<1>3. OutcomeSet /\ Written /\ Waiting
  BY <1>2, ProcFacts
  DEF Init, OutcomeSet, Written, Waiting, Settled, Blank
<1>4. Unflagged
  BY <1>2, ProcFacts DEF Init, Unflagged, NeverCancelled, Blank, Snapshot,
      Requests
<1>5. EarlyInv /\ LateInv /\ Closed
  BY <1>2, ProcFacts
  DEF Init, EarlyInv, LateInv, Late, Closed, AllSay, Holding, Saving
<1> QED
  BY <1>1, <1>3, <1>4, <1>5 DEF RunInv

LEMMA RunInvStep == RunInv /\ [Next]_vars => RunInv'
<1> SUFFICES ASSUME RunInv, [Next]_vars PROVE RunInv'
  OBVIOUS
<1>1. TypeOK' /\ Written'
  BY TypeStep, WrittenStep DEF RunInv
<1> QED
  BY <1>1, WaitingStep, UnflaggedStep, EarlyStep, LateStep, ClosedStep
  DEF RunInv

\* A run that was cancelled before its continuation looked at the flag stays
\* aborted, on disk and on the screen, while the flag lives (server.ts:310,
\* 329, 335, 424-439; docs/ROADMAP.md:86).
THEOREM CancelKept == Spec => []CancelHolds
<1>1. RunInv => CancelHolds
  <2> SUFFICES ASSUME RunInv, NEW c \in Cancels, pc[c] = "canceled", ~lapsed,
                      pc[Completion] \in {"await", "dropped"}
               PROVE  /\ record # Nothing /\ record.result = "aborted"
                      /\ snapshot # Nothing =>
                           snapshot.done /\ snapshot.state.result = "aborted"
    BY DEF CancelHolds
  <2>1. record # Nothing
    BY ProcFacts DEF RunInv, Written
  <2>2. snapshot # Nothing => snapshot.done
    BY DEF RunInv, Closed
  <2>3. CASE Early
    BY <2>1, <2>2, <2>3 DEF RunInv, EarlyInv, AllSay
  <2>4. CASE Late
    BY <2>1, <2>2, <2>4 DEF RunInv, LateInv, AllSay
  <2> QED
    BY <2>3, <2>4 DEF Early, Late, RunInv, Waiting
<1> QED
  BY <1>1, RunInvInit, RunInvStep, PTL DEF Spec

\* A flag that nobody has raised has not lapsed either.
NoFlag == NeverCancelled => ~cancelled /\ ~lapsed

\* When nobody cancels, the outcome shown as done is what the disk keeps,
\* through any number of messages (server.ts:328-333, 235-259).
THEOREM OutcomeStays == Spec => []OutcomeIsKept
<1>1. Init => NoFlag
  BY DEF Init, NoFlag
<1>2. TypeOK /\ NoFlag /\ [Next]_vars => NoFlag'
  <2> SUFFICES ASSUME TypeOK, NoFlag, [Next]_vars, NeverCancelled'
               PROVE  ~cancelled' /\ ~lapsed'
    BY DEF NoFlag
  <2>1. NeverCancelled
    <3>1. ASSUME NEW c \in Cancels, pc[c] # "idle" PROVE pc'[c] # "idle"
      <4>1. CASE pc' = pc
        BY <3>1, <4>1
      <4>2. ASSUME NEW p \in Procs, pc' = [pc EXCEPT ![p] = pc'[p]],
                   pc'[p] # "idle"
            PROVE  pc'[c] # "idle"
        BY <3>1, <4>2, ProcFacts DEF TypeOK
      <4>3. CASE Execute \/ DropSnapshot \/ LapseCancellation
                 \/ UNCHANGED vars
        BY <4>1, <4>3
        DEF Execute, LiveEvent, Summarize, CoderBlocks, StragglerEnds,
            Resolve, Reject, DropSnapshot, LapseCancellation, vars, procs
      <4>4. CASE Then \/ Catch \/ ShowFailure
        BY <4>2, <4>4, ProcFacts DEF Then, Catch, ShowFailure, Move, TypeOK
      <4>5. ASSUME NEW p \in Procs, Save(p) PROVE pc'[c] # "idle"
        BY <4>2, <4>5
        DEF Save, WriteRecord, SaveReturns, SaveThrows, Answer, Move, TypeOK
      <4>6. ASSUME NEW p \in Cancels, Cancel(p) PROVE pc'[c] # "idle"
        BY <4>2, <4>6, ProcFacts DEF Cancel, CancelState, Move, TypeOK
      <4>7. ASSUME NEW p \in Messages, LoadToAppend(p) PROVE pc'[c] # "idle"
        BY <4>2, <4>7, ProcFacts DEF LoadToAppend, Move, TypeOK
      <4>8. ASSUME NEW p \in Requests,
                   LoadToCancel(p) \/ ConfigRead(p) \/ ConfigThrows(p)
            PROVE  pc'[c] # "idle"
        BY <4>2, <4>8, ProcFacts
        DEF LoadToCancel, CancelState, ConfigRead, ConfigThrows, Move, TypeOK
      <4> QED
        BY <4>3, <4>4, <4>5, <4>6, <4>7, <4>8, ProcFacts
        DEF Next, Complete, Serve
    <3> QED
      BY <3>1 DEF NeverCancelled
  <2>2. ASSUME NEW c \in Cancels, Cancel(c) PROVE FALSE
    BY <2>2, ProcFacts DEF Cancel, CancelState, Move, NeverCancelled, TypeOK
  <2>3. UNCHANGED <<cancelled, lapsed>>
    BY <2>1, <2>2
    DEF Next, Execute, Complete, Serve, Save, LiveEvent, Summarize,
        CoderBlocks, StragglerEnds, Resolve, Reject, Then, Catch, ShowFailure,
        WriteRecord, SaveReturns, SaveThrows, LoadToCancel, LoadToAppend,
        ConfigRead, ConfigThrows, DropSnapshot, LapseCancellation, NoFlag,
        vars, bus
  <2> QED
    BY <2>1, <2>3 DEF NoFlag
<1>3. RunInv /\ NoFlag => OutcomeIsKept
  BY ProcFacts
  DEF RunInv, NoFlag, OutcomeIsKept, Written, LateInv, Late, AllSay
<1>4. RunInv => TypeOK
  BY DEF RunInv
<1> QED
  BY <1>1, <1>2, <1>3, <1>4, RunInvInit, RunInvStep, PTL DEF Spec

\* Only a straggler or a lapsed cancellation shows a run as going on that was
\* shown as done (server.ts:309-314; docs/LOCAL_COCKPIT_API.md:77).
THEOREM DoneKept == Spec => DoneStaysDone
<1>1. RunInv /\ [Next]_vars =>
        (snapshot # Nothing /\ snapshot.done /\ ~straggling /\ ~lapsed
           => snapshot' = Nothing \/ snapshot'.done)
  <2> SUFFICES ASSUME RunInv, [Next]_vars, snapshot # Nothing, snapshot.done,
                      ~straggling, ~lapsed, snapshot' # snapshot,
                      snapshot' # Nothing
               PROVE  snapshot'.done
    OBVIOUS
  <2>1. ASSUME run \in {"running", "summarizing"}, NEW r, OnEvent(r)
        PROVE  FALSE
    BY <2>1 DEF RunInv, Waiting, Settled, Unflagged, OnEvent
  <2>2. ~Execute
    BY <2>1
    DEF Execute, LiveEvent, Summarize, CoderBlocks, StragglerEnds, Resolve,
        Reject, bus
  <2> QED
    BY <2>2
    DEF Next, Complete, Serve, Save, Then, Catch, ShowFailure, WriteRecord,
        SaveReturns, SaveThrows, Cancel, LoadToCancel, LoadToAppend,
        ConfigRead, ConfigThrows, DropSnapshot, LapseCancellation, Snapshot,
        vars, bus
<1> QED
  BY <1>1, RunInvInit, RunInvStep, PTL DEF Spec, DoneStaysDone

------------------------------------------------------------------------------
(***************************************************************************)
(* The browser tab.  While no Stop was pressed over a change of a session,  *)
(* there is one change, or one watched run, or cancels, and the tab is      *)
(* busy; a run whose stream was opened alone is watched alone.              *)
(***************************************************************************)

Changing == Mutations \union {"cancel"}
Others == Kinds \ Changing

\* The session of a start that is done is the run it started.
Sound(o) == o \in OpType /\ (o.kind = "start" /\ o.done => o.sid \in Runs)
OpsInv == \A o \in ops : Sound(o)

\* There is a stream, or a timer, or neither.
SourceInv == IF source.sid = None THEN source = NoSource ELSE timer = None

OneChange ==
  ~history.stopped =>
    /\ \A o, p \in ops : o.kind \in Mutations /\ p.kind \in Mutations => o = p
    /\ Doing(Mutations) => busy /\ ~Doing({"cancel"})
    /\ Streaming => busy /\ ~Doing(Changing)

WatchedAlone ==
  ~history.stopped /\ history.watch # "no" =>
    /\ ops = {} /\ Streaming
    /\ history.watch = "met" => view = Watched

TabInv == /\ TabTypeOK /\ OpsInv /\ SourceInv
          /\ BusyHasReason /\ OneChange /\ WatchedAlone

\* What the steps do to the requests, to the stream and to busy.
SameStream ==
  /\ source'.sid = source.sid /\ timer' = timer
  /\ source' = NoSource <=> source = NoSource

Begun(kinds) == \E x : Sound(x) /\ x.kind \in kinds /\ ops' = ops \union {x}

Pressed == ~busy /\ busy' /\ Begun(Mutations) /\ Note /\ SameStream
Asked == ~busy /\ ~busy' /\ Begun(Others) /\ Note /\ SameStream
StopPressed ==
  /\ CloseLiveSource
  /\ history' = [left |-> FALSE, watch |-> "no", stopped |-> history.stopped \/ Doing(Mutations)]
  /\ (~busy' /\ ops' = ops) \/ Begun({"cancel"})
TurnedAway == CloseLiveSource /\ TurnAway /\ busy' = busy /\ (ops' = ops \/ Begun(Others))
Swapped(o) ==
  /\ \E x : Sound(x) /\ x.kind = o.kind /\ ops' = (ops \ {o}) \union {x}
  /\ busy' = busy /\ history' = history /\ SameStream
Dismissed(o) ==
  /\ o.kind \in Others /\ ops' = ops \ {o} /\ busy' = busy /\ SameStream
  /\ history' = [history EXCEPT !.left = history'.left] /\ history'.left \in BOOLEAN
  /\ busy => history'.left = history.left
Released(o) ==
  /\ o.kind \in Changing /\ ops' = ops \ {o} /\ ~busy' /\ SameStream
  /\ history' = [history EXCEPT !.left = FALSE]
Completed ==
  /\ source # NoSource /\ source' = NoSource /\ timer' = timer
  /\ Begun(Others) /\ ~busy'
  /\ history' = [history EXCEPT !.left = FALSE, !.watch = "no"]
StreamMoves ==
  /\ Streaming /\ Streaming' /\ Watched' = Watched
  /\ SourceInv'
  /\ ops' = ops /\ (busy => busy')
  /\ \/ history' = history /\ (view' = view \/ view = None)
     \/ view' = Watched /\ history' = [history EXCEPT !.watch = IF @ = "waits" THEN "met" ELSE @]
Unmoved == SameStream /\ UNCHANGED <<ops, busy, history, view>>

Shape ==
  \/ Pressed \/ Asked \/ StopPressed \/ TurnedAway
  \/ \E o \in ops : Swapped(o) \/ Dismissed(o) \/ Released(o) \/ Started(o)
  \/ Completed \/ StreamMoves \/ Unmoved

TypedTab == TabTypeOK /\ OpsInv /\ SourceInv

\* A handler that looks just like another is kept beside it as its twin.
LEMMA PutSpec ==
  ASSUME NEW o \in OpType, NEW rest, o.kind = "start" /\ o.done => o.sid \in Runs
  PROVE  \E x : Sound(x) /\ x.kind = o.kind /\ Put(o, rest) = rest \union {x}
<1> DEFINE x == IF o \in rest THEN [o EXCEPT !.twin = ~@] ELSE o
<1>1. x \in OpType /\ x.kind = o.kind /\ x.done = o.done /\ x.sid = o.sid
  BY DEF OpType
<1>2. Put(o, rest) = rest \union {x}
  BY DEF Put
<1> HIDE DEF x
<1> QED BY <1>1, <1>2 DEF Sound

LEMMA BeginSpec ==
  ASSUME NEW kind \in Kinds, NEW at \in {"act", "list", "load"}, NEW sid \in Sessions \union {None},
         NEW kinds, kind \in kinds, Begin(kind, at, sid)
  PROVE  Begun(kinds)
<1>1. Op(kind, at, sid) \in OpType /\ Op(kind, at, sid).kind = kind /\ ~Op(kind, at, sid).done
  BY DEF Op, OpType
<1> QED BY <1>1, PutSpec DEF Begin, Begun

\* What a message does to a stream that is on.
LEMMA ShowsAsSpec ==
  ASSUME TabTypeOK, SourceInv, NEW s, NEW m \in {"live", "done"}, ShowsAs(s, m)
  PROVE  /\ snap' \in [Runs -> {"none", "live", "done"}]
         /\ source' \in [sid : Runs \union {None}, open : BOOLEAN, inbox : Seq({"live", "done"})]
         /\ source'.sid = source.sid /\ (source' = NoSource <=> source = NoSource)
<1>1. snap \in [Runs -> {"none", "live", "done"}]
  BY DEF TabTypeOK
<1>2. source \in [sid : Runs \union {None}, open : BOOLEAN, inbox : Seq({"live", "done"})]
  BY DEF TabTypeOK
<1>3. snap' \in [Runs -> {"none", "live", "done"}]
  BY <1>1 DEF ShowsAs
<1>4. CASE source' = source
  BY <1>2, <1>3, <1>4
<1>5. CASE s \in Runs /\ source.sid = s /\ source' = [source EXCEPT !.inbox = Append(@, m)]
  <2>1. source.inbox \in Seq({"live", "done"}) /\ Append(source.inbox, m) \in Seq({"live", "done"})
    BY <1>2
  <2>2. /\ source' \in [sid : Runs \union {None}, open : BOOLEAN, inbox : Seq({"live", "done"})]
        /\ source'.sid = source.sid
    BY <1>2, <1>5, <2>1
  <2>3. source.sid # None /\ NoSource.sid = None
    BY <1>5, ClientAssumption DEF Sessions, NoSource
  <2> QED BY <1>3, <2>2, <2>3
<1> QED BY <1>4, <1>5 DEF ShowsAs, Emit

LEMMA SameSpec == UNCHANGED stream => SameStream
BY DEF stream, SameStream

LEMMA PressShapes ==
  ASSUME TypedTab, Run \/ Continue \/ Approve
  PROVE  Pressed
<1>1. ASSUME NEW kind \in Mutations, NEW sid \in Sessions \union {None}, Begin(kind, "act", sid)
      PROVE  Begun(Mutations)
  BY <1>1, BeginSpec DEF Kinds
<1>2. {"start", "continue", "approve"} = Mutations /\ None \in Sessions \union {None}
  BY DEF Mutations
<1>3. view \in Sessions \union {None}
  BY DEF TypedTab, TabTypeOK
<1>4. CASE Run
  BY <1>1, <1>2, <1>4, SameSpec DEF Run, Pressed
<1>5. CASE Continue
  BY <1>1, <1>2, <1>3, <1>5, SameSpec DEF Continue, Pressed
<1>6. CASE Approve
  BY <1>1, <1>2, <1>3, <1>6, SameSpec DEF Approve, Pressed
<1> QED BY <1>4, <1>5, <1>6

LEMMA OtherKinds ==
  /\ \A k \in {"rename", "delete", "refresh", "select", "completed"} : k \in Others /\ k \in Kinds
  /\ "cancel" \in Kinds /\ Mutations \subseteq Kinds
BY DEF Others, Changing, Kinds, Mutations

LEMMA UserShapes ==
  ASSUME TypedTab, User
  PROVE  Shape
<1>1. /\ view \in Sessions \union {None} /\ selected \in Sessions \union {None}
      /\ saved \subseteq Sessions /\ busy \in BOOLEAN
  BY DEF TypedTab, TabTypeOK
<1>2. CASE Run \/ Continue \/ Approve
  BY <1>2, PressShapes DEF Shape
<1>3. CASE Stop
  <2>1. StopTarget \in Sessions \union {None}
    BY <1>1 DEF StopTarget
  <2>2. CASE StopTarget = None
    BY <1>3, <2>2 DEF Stop, StopPressed, Shape
  <2>3. CASE StopTarget # None
    <3>1. Begin("cancel", "act", StopTarget)
      BY <1>3, <2>3 DEF Stop
    <3>2. Begun({"cancel"})
      BY <2>1, <3>1, BeginSpec, OtherKinds
    <3> QED BY <1>3, <3>2 DEF Stop, StopPressed, Shape
  <2> QED BY <2>2, <2>3
<1>4. ASSUME NEW s \in Sessions, SelectSession(s)
      PROVE  Shape
  <2>1. Begun(Others)
    BY <1>4, BeginSpec, OtherKinds DEF SelectSession
  <2> QED BY <1>4, <2>1 DEF SelectSession, TurnedAway, Shape
<1>5. CASE NewTask
  BY <1>5 DEF NewTask, TurnedAway, Shape
<1>6. ASSUME NEW kind \in {"rename", "delete"}, RenameOrDelete(kind)
      PROVE  Shape
  <2>1. Begun(Others)
    BY <1>1, <1>6, BeginSpec, OtherKinds DEF RenameOrDelete
  <2> QED BY <1>1, <1>6, <2>1, SameSpec DEF RenameOrDelete, Asked, Shape
<1>7. CASE Refresh
  <2>1. Begun(Others)
    BY <1>7, BeginSpec, OtherKinds DEF Refresh
  <2> QED BY <1>1, <1>7, <2>1, SameSpec DEF Refresh, Asked, Shape
<1>8. CASE EffectRunsAgain
  <2>1. Begun(Others)
    BY <1>8, BeginSpec, OtherKinds DEF EffectRunsAgain
  <2> QED BY <1>8, <2>1 DEF EffectRunsAgain, TurnedAway, Shape
<1> QED BY <1>2, <1>3, <1>4, <1>5, <1>6, <1>7, <1>8 DEF User

LEMMA ServeShapes ==
  ASSUME TypedTab, NEW o \in ops, ServeOp(o)
  PROVE  Swapped(o)
<1>1. /\ Sound(o) /\ o \in OpType /\ saved \subseteq Sessions /\ TabTypeOK /\ SourceInv
      /\ o.sid \in Sessions \union {None}
  BY DEF TypedTab, TabTypeOK, OpsInv, OpType
<1>2. ASSUME NEW sid \in Sessions \union {None}, Does(o, sid), o.kind = "start" => sid \in Runs
      PROVE  \E x : Sound(x) /\ x.kind = o.kind /\ ops' = (ops \ {o}) \union {x}
  <2> DEFINE done == [o EXCEPT !.done = TRUE, !.sid = sid]
  <2>1. done \in OpType /\ done.kind = o.kind /\ done.sid = sid
    BY <1>1 DEF OpType
  <2>2. ops' = Put(done, ops \ {o})
    BY <1>2 DEF Does
  <2> HIDE DEF done
  <2>3. \E x : Sound(x) /\ x.kind = done.kind /\ Put(done, ops \ {o}) = (ops \ {o}) \union {x}
    BY <1>2, <2>1, PutSpec
  <2> QED BY <2>1, <2>2, <2>3
<1>3. ASSUME NEW s, NEW m \in {"live", "done"}, ShowsAs(s, m), timer' = timer
      PROVE  SameStream
  BY <1>1, <1>3, ShowsAsSpec DEF SameStream
<1>4. CASE StartRun(o)
  <2>1. PICK s \in Runs : ShowsAs(s, "live") /\ Does(o, s)
    BY <1>4 DEF StartRun
  <2>2. s \in Sessions
    BY DEF Sessions
  <2> QED BY <1>2, <1>3, <1>4, <2>1, <2>2 DEF StartRun, Swapped
<1>5. CASE ChangeSession(o)
  <2>1. o.kind # "start" /\ Does(o, o.sid) /\ timer' = timer /\ busy' = busy /\ history' = history
    BY <1>5 DEF ChangeSession, Asks
  <2>2. \E m \in {"live", "done"} : ShowsAs(o.sid, m)
    BY <1>5 DEF ChangeSession
  <2> QED BY <1>1, <1>2, <1>3, <2>1, <2>2 DEF Swapped
<1>6. CASE CancelSession(o)
  <2>1. o.kind # "start" /\ Does(o, o.sid) /\ timer' = timer /\ busy' = busy /\ history' = history
    BY <1>6 DEF CancelSession, Asks
  <2>2. ShowsAs(o.sid, "done") \/ source' = source
    BY <1>6 DEF CancelSession
  <2>3. SameStream
    BY <1>3, <2>1, <2>2 DEF SameStream
  <2> QED BY <1>1, <1>2, <2>1, <2>3 DEF Swapped
<1>7. CASE RenameSession(o) \/ DeleteSession(o)
  <2>1. /\ o.kind # "start" /\ Does(o, o.sid) /\ UNCHANGED stream
        /\ busy' = busy /\ history' = history
    BY <1>7 DEF RenameSession, DeleteSession, Asks
  <2> QED BY <1>1, <1>2, <2>1, SameSpec DEF Swapped
<1> QED BY <1>4, <1>5, <1>6, <1>7 DEF ServeOp

LEMMA ResumeShapes ==
  ASSUME TypedTab, NEW o \in ops, Resume(o)
  PROVE  Swapped(o) \/ Dismissed(o) \/ Released(o) \/ Started(o)
<1>1. /\ o \in OpType /\ saved \subseteq Sessions /\ busy \in BOOLEAN
      /\ o.sid \in Sessions \union {None} /\ o.kind \in Kinds
      /\ history \in [left : BOOLEAN, stopped : BOOLEAN, watch : {"no", "waits", "met"}]
  BY DEF TypedTab, TabTypeOK, OpType
<1>2. ASSUME NEW at \in {"list", "load"}, NEW sid \in Sessions \union {None}, GoesOn(o, at, sid),
             UNCHANGED <<stream, busy, history>>
      PROVE  Swapped(o)
  <2>1. /\ Op(o.kind, at, sid) \in OpType
        /\ Op(o.kind, at, sid).kind = o.kind /\ ~Op(o.kind, at, sid).done
    BY <1>1 DEF Op, OpType
  <2>2. \E x : Sound(x) /\ x.kind = o.kind /\ ops' = (ops \ {o}) \union {x}
    BY <1>2, <2>1, PutSpec DEF GoesOn
  <2> QED BY <1>2, <2>2, SameSpec DEF Swapped
<1>3. ASSUME o.kind \in {"rename", "delete", "refresh", "select", "completed"}, Ends(o),
             UNCHANGED <<stream, busy, history>>
      PROVE  Dismissed(o)
  <2>1. o.kind \in Others
    BY <1>3, OtherKinds
  <2>2. history' = [history EXCEPT !.left = history'.left] /\ history'.left = history.left
    BY <1>1, <1>3
  <2>3. history'.left \in BOOLEAN /\ busy' = busy /\ ops' = ops \ {o} /\ SameStream
    BY <1>1, <1>3, SameSpec DEF Ends
  <2> QED BY <2>1, <2>2, <2>3 DEF Dismissed
<1>4. ASSUME o.kind \in Changing, Ends(o), ~busy', Freed, UNCHANGED stream
      PROVE  Released(o)
  BY <1>4, SameSpec DEF Released, Ends, Freed
<1>5. CASE Started(o)
  BY <1>5
<1>6. CASE Recorded(o)
  BY <1>1, <1>2, <1>6 DEF Recorded
<1>7. CASE Listed(o)
  <2>1. CASE o.kind \in {"continue", "cancel"}
    <3>1. o.kind \in Changing /\ Ends(o) /\ ~busy' /\ Freed /\ UNCHANGED stream
      BY <1>7, <2>1 DEF Listed, Changing, Mutations
    <3> QED BY <1>4, <3>1
  <2>2. CASE o.kind \notin {"continue", "cancel"}
    <3>1. /\ o.kind \in {"rename", "completed"} /\ Ends(o)
          /\ UNCHANGED <<stream, busy, history>>
      BY <1>7, <2>2 DEF Listed, Answered
    <3> QED BY <1>3, <3>1
  <2> QED BY <2>1, <2>2
<1>8. CASE Approved(o)
  <2>1. o.kind \in Changing /\ Ends(o) /\ ~busy' /\ Freed /\ UNCHANGED stream
    BY <1>8 DEF Approved, Answered, Changing, Mutations
  <2> QED BY <1>4, <2>1
<1>9. CASE GoToNext(o)
  <2>1. o.kind \in {"refresh", "delete"} /\ UNCHANGED <<stream, busy, history>>
    BY <1>9 DEF GoToNext, Answered
  <2>2. Ends(o) \/ \E next \in saved : GoesOn(o, "load", next)
    BY <1>9 DEF GoToNext
  <2> QED BY <1>1, <1>2, <1>3, <2>1, <2>2
<1>10. CASE Loaded(o)
  <2>1. /\ o.kind \in {"select", "refresh", "delete", "completed"}
        /\ UNCHANGED <<stream, busy, history>>
        /\ Ends(o) \/ GoesOn(o, "list", o.sid)
    BY <1>10 DEF Loaded, Answered
  <2> QED BY <1>1, <1>2, <1>3, <2>1
<1>11. CASE Failed(o)
  <2>1. /\ busy' = (busy /\ o.kind \notin Changing) /\ Ends(o) /\ UNCHANGED stream
        /\ history' = [history EXCEPT !.left = @ /\ busy']
    BY <1>11 DEF Failed, Changing
  <2>2. CASE o.kind \in Changing
    <3>1. history' = [history EXCEPT !.left = FALSE] /\ ~busy'
      BY <2>1, <2>2
    <3> QED BY <2>1, <2>2, <3>1, SameSpec DEF Released, Ends
  <2>3. CASE o.kind \notin Changing
    <3>1. o.kind \in Others /\ busy' = busy
      BY <1>1, <2>1, <2>3 DEF Others
    <3>2. /\ history'.left = (history.left /\ busy')
          /\ history' = [history EXCEPT !.left = history'.left]
      BY <1>1, <2>1
    <3>3. busy => history'.left = history.left
      BY <1>1, <3>1, <3>2
    <3>4. history'.left \in BOOLEAN /\ ops' = ops \ {o} /\ SameStream
      BY <2>1, <3>2, SameSpec DEF Ends
    <3> QED BY <3>1, <3>2, <3>3, <3>4 DEF Dismissed
  <2> QED BY <2>2, <2>3
<1> QED BY <1>5, <1>6, <1>7, <1>8, <1>9, <1>10, <1>11 DEF Resume

LEMMA StreamShapes ==
  ASSUME TypedTab, Stream \/ Break
  PROVE  Completed \/ StreamMoves
<1>1. /\ source \in [sid : Runs \union {None}, open : BOOLEAN, inbox : Seq({"live", "done"})]
      /\ history \in [left : BOOLEAN, stopped : BOOLEAN, watch : {"no", "waits", "met"}]
      /\ timer \in Runs \union {None} /\ busy \in BOOLEAN
  BY DEF TypedTab, TabTypeOK
<1>2. /\ NoSource.sid = None /\ NoSource.open = FALSE /\ NoSource.inbox = <<>>
      /\ \A s : [NoSource EXCEPT !.sid = s].sid = s
  BY DEF NoSource
<1>3. source # NoSource => source.sid # None /\ timer = None
  BY DEF TypedTab, SourceInv
<1>4. CASE Open
  <2>1. source'.sid = source.sid /\ source.sid # None /\ timer = None /\ timer' = None
    BY <1>1, <1>3, <1>4 DEF Open
  <2>2. Streaming /\ Streaming' /\ Watched' = Watched /\ Watched = source.sid /\ SourceInv'
    BY <1>2, <2>1 DEF Streaming, Watched, SourceInv
  <2> QED BY <1>4, <2>2 DEF Open, StreamMoves
<1>5. ASSUME source.inbox # <<>>
      PROVE  source # NoSource
  BY <1>2, <1>5
<1>6. CASE DeliverLive
  <2>1. source'.sid = source.sid /\ source.sid # None /\ timer = None /\ timer' = None
    BY <1>1, <1>3, <1>5, <1>6 DEF DeliverLive
  <2>2. Streaming /\ Streaming' /\ Watched' = Watched /\ Watched = source.sid /\ SourceInv'
    BY <1>2, <2>1 DEF Streaming, Watched, SourceInv
  <2> QED BY <1>6, <2>2 DEF DeliverLive, StreamMoves
<1>7. CASE DeliverDone
  <2>1. source # NoSource /\ source.sid \in Sessions \union {None}
    BY <1>1, <1>5, <1>7 DEF DeliverDone, Sessions
  <2>2. Begun(Others)
    BY <1>7, <2>1, BeginSpec, OtherKinds DEF DeliverDone
  <2> QED BY <1>7, <2>1, <2>2 DEF DeliverDone, Completed
<1>8. CASE Break
  <2>1. /\ source'.sid = None /\ source' = NoSource
        /\ timer = None /\ timer' = source.sid /\ timer' # None
    BY <1>2, <1>3, <1>8 DEF Break
  <2>2. Streaming /\ Streaming' /\ Watched' = Watched /\ SourceInv'
    BY <1>8, <2>1 DEF Break, Streaming, Watched, SourceInv
  <2> QED BY <1>8, <2>2 DEF Break, StreamMoves, shown
<1>9. CASE Reconnect
  <2>1. source'.sid = timer /\ timer' = None /\ timer # None
    BY <1>2, <1>9 DEF Reconnect, ConnectLive
  <2>2. Streaming /\ Streaming' /\ Watched' = Watched /\ SourceInv'
    BY <1>2, <2>1 DEF Streaming, Watched, SourceInv
  <2> QED BY <1>9, <2>2 DEF Reconnect, StreamMoves, shown
<1> QED BY <1>4, <1>6, <1>7, <1>8, <1>9 DEF Stream

LEMMA ServerShapes ==
  ASSUME TypedTab, NEW s \in Sessions, RunEvent(s) \/ EndRun(s) \/ ForgetSnapshot(s)
  PROVE  Unmoved
<1>1. ASSUME NEW m \in {"live", "done"}, ShowsAs(s, m), timer' = timer
      PROVE  SameStream
  BY <1>1, ShowsAsSpec DEF SameStream, TypedTab
<1>2. CASE RunEvent(s)
  BY <1>1, <1>2 DEF RunEvent, Unmoved, shown
<1>3. CASE EndRun(s)
  BY <1>1, <1>3 DEF EndRun, Unmoved, shown
<1>4. CASE ForgetSnapshot(s)
  BY <1>4, SameSpec DEF ForgetSnapshot, Unmoved, shown
<1> QED BY <1>2, <1>3, <1>4

LEMMA RestartShapes ==
  ASSUME TypedTab, RestartServer
  PROVE  StreamMoves \/ Unmoved
<1>1. CASE source.open
  <2>1. NoSource.open = FALSE /\ NoSource.sid = None
    BY DEF NoSource
  <2>2. source.sid # None /\ timer = None
    BY <1>1, <2>1 DEF TypedTab, SourceInv
  <2>3. /\ source' = NoSource /\ timer' = source.sid
        /\ busy' = TRUE /\ ops' = ops /\ history' = history /\ view' = view
    BY <1>1 DEF RestartServer, shown
  <2>4. Streaming /\ Streaming' /\ Watched' = Watched /\ SourceInv'
    BY <2>1, <2>2, <2>3 DEF Streaming, Watched, SourceInv
  <2> QED BY <2>3, <2>4 DEF StreamMoves
<1>2. CASE ~source.open
  BY <1>2, SameSpec DEF RestartServer, Unmoved, shown
<1> QED BY <1>1, <1>2

\* Every step of the tab and of its surroundings has one of the shapes.
LEMMA TabShapes ==
  ASSUME TypedTab, [TabNext]_tabVars
  PROVE  Shape
<1>1. CASE User
  BY <1>1, UserShapes
<1>2. ASSUME NEW o \in ops, ServeOp(o) \/ Resume(o)
      PROVE  Shape
  BY <1>2, ServeShapes, ResumeShapes DEF Shape
<1>3. CASE Stream \/ Break
  BY <1>3, StreamShapes DEF Shape
<1>4. ASSUME NEW s \in Sessions, RunEvent(s) \/ EndRun(s) \/ ForgetSnapshot(s)
      PROVE  Shape
  BY <1>4, ServerShapes DEF Shape
<1>5. CASE RestartServer
  BY <1>5, RestartShapes DEF Shape
<1>6. CASE UNCHANGED tabVars
  BY <1>6, SameSpec DEF tabVars, shown, Unmoved, Shape
<1> QED BY <1>1, <1>2, <1>3, <1>4, <1>5, <1>6 DEF TabNext

LEMMA BegunDoing ==
  ASSUME NEW kinds, NEW more, Begun(more)
  PROVE  (Doing(kinds) \/ more \subseteq kinds) => Doing(kinds)'
BY DEF Begun, Doing

LEMMA SwappedDoing ==
  ASSUME NEW kinds, NEW o \in ops, Swapped(o)
  PROVE  Doing(kinds)' <=> Doing(kinds)
BY DEF Swapped, Doing

LEMMA SameStreamSpec ==
  ASSUME SameStream
  PROVE  (Streaming' <=> Streaming) /\ Watched' = Watched
BY DEF SameStream, Streaming, Watched

LEMMA ClosedSpec ==
  ASSUME CloseLiveSource
  PROVE  ~Streaming' /\ SourceInv'
BY DEF CloseLiveSource, Streaming, SourceInv, NoSource

LEMMA StartedSpec ==
  ASSUME TypedTab, NEW o \in ops, Started(o)
  PROVE  /\ Streaming' /\ SourceInv' /\ Watched' = o.sid
         /\ ops' = ops \ {o} /\ busy' = busy /\ o.kind \in Mutations
<1>1. o.kind = "start" /\ o.done
  BY DEF Started, Answered
<1>2. o.sid \in Runs /\ o.sid # None
  BY <1>1, ClientAssumption DEF TypedTab, OpsInv, Sound, Sessions
<1>3. source'.sid = o.sid /\ timer' = None /\ NoSource.sid = None
  BY DEF Started, ConnectLive, NoSource
<1>4. Streaming' /\ SourceInv' /\ Watched' = o.sid
  BY <1>2, <1>3 DEF Streaming, SourceInv, Watched
<1> QED BY <1>1, <1>4 DEF Started, Ends, Mutations

LEMMA OpsStep == TypedTab /\ [TabNext]_tabVars => OpsInv'
<1> SUFFICES ASSUME TypedTab, [TabNext]_tabVars
             PROVE  OpsInv'
  OBVIOUS
<1>1. OpsInv
  BY DEF TypedTab
<1>2. \A o : Sound(o)' <=> Sound(o)
  BY DEF Sound
<1>3. ops' \subseteq ops \/ \E x, o : Sound(x) /\ ops' \subseteq ops \union {x}
  BY TabShapes, StartedSpec
     DEF Shape, Pressed, Asked, StopPressed, TurnedAway, Swapped, Dismissed, Released, Completed,
         StreamMoves, Unmoved, Begun
<1> QED BY <1>1, <1>2, <1>3 DEF OpsInv

LEMMA SourceStep == TypedTab /\ [TabNext]_tabVars => SourceInv'
<1> SUFFICES ASSUME TypedTab, [TabNext]_tabVars
             PROVE  SourceInv'
  OBVIOUS
<1>1. SourceInv
  BY DEF TypedTab
<1>2. CASE SameStream
  BY <1>1, <1>2 DEF SameStream, SourceInv
<1>3. CASE CloseLiveSource
  BY <1>3, ClosedSpec
<1>4. ASSUME NEW o \in ops, Started(o)
      PROVE  SourceInv'
  BY <1>4, StartedSpec
<1>5. CASE Completed
  BY <1>5 DEF Completed, SourceInv, NoSource
<1>6. CASE StreamMoves
  BY <1>6 DEF StreamMoves
<1> QED BY <1>2, <1>3, <1>4, <1>5, <1>6, TabShapes
        DEF Shape, Pressed, Asked, StopPressed, TurnedAway, Swapped, Dismissed, Released, Unmoved

LEMMA BusyStep == TypedTab /\ BusyHasReason /\ [TabNext]_tabVars => BusyHasReason'
<1> SUFFICES ASSUME TypedTab, BusyHasReason, [TabNext]_tabVars, busy'
             PROVE  Streaming' \/ history'.left \/ Doing(Changing)'
  BY DEF BusyHasReason, Changing
<1> DEFINE Reason == Streaming \/ history.left \/ Doing(Changing)
<1>1. /\ history \in [left : BOOLEAN, stopped : BOOLEAN, watch : {"no", "waits", "met"}]
      /\ busy => Reason
  BY DEF TypedTab, TabTypeOK, BusyHasReason, Changing
<1>2. CASE Pressed
  BY <1>2, BegunDoing DEF Pressed, Changing
<1>3. CASE Asked
  BY <1>3 DEF Asked
<1>4. CASE StopPressed
  BY <1>4, BegunDoing DEF StopPressed, Changing
<1>5. CASE TurnedAway
  <2>1. Reason
    BY <1>1, <1>5 DEF TurnedAway
  <2>2. (Streaming \/ history.left) => history'.left
    BY <1>1, <1>5 DEF TurnedAway, TurnAway
  <2>3. Doing(Changing) => Doing(Changing)'
    BY <1>5, BegunDoing DEF TurnedAway, Doing
  <2> QED BY <2>1, <2>2, <2>3
<1>6. ASSUME NEW o \in ops, Swapped(o)
      PROVE  Streaming' \/ history'.left \/ Doing(Changing)'
  <2>1. Reason /\ history' = history /\ (Streaming' <=> Streaming)
    BY <1>1, <1>6, SameStreamSpec DEF Swapped
  <2> QED BY <1>6, <2>1, SwappedDoing
<1>7. ASSUME NEW o \in ops, Dismissed(o)
      PROVE  Streaming' \/ history'.left \/ Doing(Changing)'
  <2>1. Reason /\ history'.left = history.left /\ (Streaming' <=> Streaming)
    BY <1>1, <1>7, SameStreamSpec DEF Dismissed
  <2>2. Doing(Changing) => Doing(Changing)'
    BY <1>7 DEF Dismissed, Doing, Others
  <2> QED BY <2>1, <2>2
<1>8. ASSUME NEW o \in ops, Released(o)
      PROVE  FALSE
  BY <1>8 DEF Released
<1>9. ASSUME NEW o \in ops, Started(o)
      PROVE  Streaming'
  BY <1>9, StartedSpec
<1>10. CASE Completed
  BY <1>10 DEF Completed
<1>11. CASE StreamMoves
  BY <1>11 DEF StreamMoves
<1>12. CASE Unmoved
  <2>1. Reason /\ history' = history /\ (Streaming' <=> Streaming) /\ ops' = ops
    BY <1>1, <1>12, SameStreamSpec DEF Unmoved
  <2> QED BY <2>1 DEF Doing
<1> QED BY <1>2, <1>3, <1>4, <1>5, <1>6, <1>7, <1>8, <1>9, <1>10, <1>11, <1>12, TabShapes DEF Shape

\* stopped is never taken back.
LEMMA StoppedStays ==
  ASSUME TypedTab, [TabNext]_tabVars, ~history'.stopped
  PROVE  ~history.stopped
<1>1. history \in [left : BOOLEAN, stopped : BOOLEAN, watch : {"no", "waits", "met"}]
  BY DEF TypedTab, TabTypeOK
<1>2. CASE history' = [history EXCEPT !.stopped = @ \/ Doing({"cancel"})]
  BY <1>1, <1>2
<1>3. CASE history' = [left |-> FALSE, watch |-> "no",
                       stopped |-> history.stopped \/ Doing(Mutations)]
  BY <1>3
<1>4. CASE \E left, watch : history' = [history EXCEPT !.left = left, !.watch = watch]
  BY <1>1, <1>4
<1>5. CASE \E left : history' = [history EXCEPT !.left = left]
  BY <1>1, <1>5
<1>6. CASE \E watch : history' = [history EXCEPT !.watch = watch]
  BY <1>1, <1>6
<1>7. CASE history' = history
  BY <1>7
<1>8. \/ Note \/ StopPressed \/ TurnAway \/ Completed \/ StreamMoves \/ history' = history
      \/ \E o \in ops : Dismissed(o) \/ Released(o) \/ Started(o)
  BY TabShapes DEF Shape, Pressed, Asked, TurnedAway, Swapped, Unmoved
<1>9. CASE Note
  BY <1>2, <1>9 DEF Note
<1>10. CASE StopPressed
  BY <1>3, <1>10 DEF StopPressed
<1>11. CASE TurnAway
  BY <1>4, <1>11 DEF TurnAway
<1>12. CASE Completed
  BY <1>4, <1>12 DEF Completed
<1>13. CASE StreamMoves
  BY <1>6, <1>7, <1>13 DEF StreamMoves
<1>14. ASSUME NEW o \in ops, Dismissed(o) \/ Released(o)
       PROVE  ~history.stopped
  BY <1>5, <1>14 DEF Dismissed, Released
<1>15. ASSUME NEW o \in ops, Started(o)
       PROVE  ~history.stopped
  BY <1>4, <1>15 DEF Started
<1> QED BY <1>7, <1>8, <1>9, <1>10, <1>11, <1>12, <1>13, <1>14, <1>15

\* What OneChange says, of any requests.
AtMostOne(requests) ==
  \A o, p \in requests : o.kind \in Mutations /\ p.kind \in Mutations => o = p

LEMMA KindsApart ==
  /\ "cancel" \notin Mutations /\ Others \cap Changing = {}
  /\ Mutations \subseteq Changing /\ {"cancel"} \subseteq Changing
BY DEF Mutations, Changing, Others

\* A request that changes no session leaves the changes under way as they are.
LEMMA OtherBegun ==
  ASSUME Begun(Others)
  PROVE  /\ Doing(Mutations)' <=> Doing(Mutations)
         /\ Doing({"cancel"})' <=> Doing({"cancel"})
         /\ Doing(Changing)' <=> Doing(Changing)
         /\ AtMostOne(ops) => AtMostOne(ops')
<1>1. PICK x : x.kind \in Others /\ ops' = ops \union {x}
  BY DEF Begun
<1>2. x.kind \notin Mutations /\ x.kind # "cancel" /\ x.kind \notin Changing
  BY <1>1, KindsApart
<1>3. \A kinds : x.kind \notin kinds => (Doing(kinds)' <=> Doing(kinds))
  BY <1>1 DEF Doing
<1> QED BY <1>1, <1>2, <1>3 DEF AtMostOne

LEMMA OneStep == TypedTab /\ OneChange /\ [TabNext]_tabVars => OneChange'
<1> SUFFICES ASSUME TypedTab, OneChange, [TabNext]_tabVars, ~history'.stopped
             PROVE  /\ AtMostOne(ops')
                    /\ Doing(Mutations)' => busy' /\ ~Doing({"cancel"})'
                    /\ Streaming' => busy' /\ ~Doing(Changing)'
  BY DEF OneChange, AtMostOne
<1> DEFINE Goal == /\ AtMostOne(ops')
                   /\ Doing(Mutations)' => busy' /\ ~Doing({"cancel"})'
                   /\ Streaming' => busy' /\ ~Doing(Changing)'
<1>1. /\ AtMostOne(ops)
      /\ Doing(Mutations) => busy /\ ~Doing({"cancel"})
      /\ Streaming => busy /\ ~Doing(Changing)
  BY StoppedStays DEF OneChange, AtMostOne
<1>2. history \in [left : BOOLEAN, stopped : BOOLEAN, watch : {"no", "waits", "met"}]
  BY DEF TypedTab, TabTypeOK
<1>3. Doing(Changing) <=> Doing(Mutations) \/ Doing({"cancel"})
  BY DEF Doing, Changing
<1>4. Doing(Changing)' <=> Doing(Mutations)' \/ Doing({"cancel"})'
  BY DEF Doing, Changing
<1>5. CASE Pressed
  <2>1. ~Doing(Mutations) /\ ~Streaming' /\ busy'
    BY <1>1, <1>5, SameStreamSpec DEF Pressed
  <2>2. ~Doing({"cancel"})
    BY <1>2, <1>5 DEF Pressed, Note
  <2>3. PICK x : x.kind \in Mutations /\ ops' = ops \union {x}
    BY <1>5 DEF Pressed, Begun
  <2>4. AtMostOne(ops')
    BY <2>1, <2>3 DEF AtMostOne, Doing
  <2>5. ~Doing({"cancel"})'
    BY <2>2, <2>3, KindsApart DEF Doing
  <2> QED BY <2>1, <2>4, <2>5
<1>6. CASE Asked
  <2>1. ~Doing(Mutations) /\ ~Streaming'
    BY <1>1, <1>6, SameStreamSpec DEF Asked
  <2> QED BY <1>1, <1>6, <2>1, OtherBegun DEF Asked
<1>7. CASE StopPressed
  <2>1. ~Doing(Mutations)
    BY <1>7 DEF StopPressed
  <2>2. ops' = ops \/ \E x : x.kind = "cancel" /\ ops' = ops \union {x}
    BY <1>7 DEF StopPressed, Begun
  <2>3. ~Doing(Mutations)' /\ AtMostOne(ops')
    BY <2>1, <2>2, KindsApart DEF Doing, AtMostOne
  <2>4. ~Streaming'
    BY <1>7, ClosedSpec DEF StopPressed
  <2> QED BY <2>3, <2>4
<1>8. CASE TurnedAway
  <2>1. ~Streaming' /\ busy' = busy
    BY <1>8, ClosedSpec DEF TurnedAway
  <2>2. CASE ops' = ops
    BY <1>1, <2>1, <2>2 DEF Doing
  <2>3. CASE Begun(Others)
    BY <1>1, <2>1, <2>3, OtherBegun
  <2> QED BY <1>8, <2>2, <2>3 DEF TurnedAway
<1>9. ASSUME NEW o \in ops, Swapped(o)
      PROVE  Goal
  <2>1. busy' = busy /\ (Streaming' <=> Streaming)
    BY <1>9, SameStreamSpec DEF Swapped
  <2>2. PICK x : x.kind = o.kind /\ ops' = (ops \ {o}) \union {x}
    BY <1>9 DEF Swapped
  <2>3. AtMostOne(ops')
    BY <1>1, <2>2 DEF AtMostOne
  <2>4. \A kinds : Doing(kinds)' <=> Doing(kinds)
    BY <1>9, SwappedDoing
  <2> QED BY <1>1, <2>1, <2>3, <2>4
<1>10. ASSUME NEW o \in ops, ops' = ops \ {o}
       PROVE  AtMostOne(ops') /\ \A kinds : Doing(kinds)' => Doing(kinds)
  BY <1>1, <1>10 DEF AtMostOne, Doing
<1>11. ASSUME NEW o \in ops, Dismissed(o)
       PROVE  Goal
  <2>1. busy' = busy /\ (Streaming' <=> Streaming) /\ ops' = ops \ {o}
    BY <1>11, SameStreamSpec DEF Dismissed
  <2>2. AtMostOne(ops') /\ \A kinds : Doing(kinds)' => Doing(kinds)
    BY <1>10, <2>1
  <2> QED BY <1>1, <2>1, <2>2
<1>12. ASSUME NEW o \in ops, Released(o)
       PROVE  Goal
  <2>1. (Streaming' <=> Streaming) /\ ops' = ops \ {o} /\ o.kind \in Changing
    BY <1>12, SameStreamSpec DEF Released
  <2>2. Doing(Changing)
    BY <2>1 DEF Doing
  <2>3. AtMostOne(ops') /\ ~Streaming'
    BY <1>1, <1>10, <2>1, <2>2
  <2>4. CASE o.kind = "cancel"
    <3>1. ~Doing(Mutations)
      BY <1>1, <2>4 DEF Doing
    <3> QED BY <1>10, <2>1, <2>3, <3>1
  <2>5. CASE o.kind \in Mutations
    <3>1. ~Doing(Mutations)'
      BY <1>1, <2>1, <2>5 DEF Doing, AtMostOne
    <3> QED BY <2>3, <3>1
  <2> QED BY <2>1, <2>4, <2>5 DEF Changing
<1>13. ASSUME NEW o \in ops, Started(o)
       PROVE  Goal
  <2>1. ops' = ops \ {o} /\ busy' = busy /\ o.kind \in Mutations
    BY <1>13, StartedSpec
  <2>2. Doing(Mutations)
    BY <2>1 DEF Doing
  <2>3. busy' /\ ~Doing({"cancel"})'
    BY <1>1, <1>10, <2>1, <2>2
  <2>4. ~Doing(Mutations)'
    BY <1>1, <2>1 DEF Doing, AtMostOne
  <2> QED BY <1>4, <1>10, <2>1, <2>3, <2>4
<1>14. CASE Completed
  <2>1. Streaming /\ ~Streaming'
    <3>1. source # NoSource /\ source' = NoSource /\ timer' = timer
      BY <1>14 DEF Completed
    <3>2. timer = None
      BY <3>1 DEF TypedTab, SourceInv
    <3> QED BY <3>1, <3>2 DEF Streaming
  <2>2. ~Doing(Mutations)' /\ AtMostOne(ops')
    BY <1>1, <1>3, <1>14, <2>1, OtherBegun DEF Completed
  <2> QED BY <2>1, <2>2
<1>15. CASE StreamMoves
  <2>1. Streaming /\ ops' = ops /\ (busy => busy')
    BY <1>15, Zenon DEF StreamMoves
  <2>2. busy' /\ ~Doing(Changing)
    BY <1>1, <2>1, Zenon
  <2> QED BY <1>1, <1>3, <2>1, <2>2 DEF Doing
<1>16. CASE Unmoved
  BY <1>1, <1>16, SameStreamSpec DEF Unmoved, Doing
<1> QED BY <1>5, <1>6, <1>7, <1>8, <1>9, <1>11, <1>12, <1>13, <1>14, <1>15, <1>16, TabShapes
        DEF Shape

LEMMA WatchStep == TypedTab /\ OneChange /\ WatchedAlone /\ [TabNext]_tabVars => WatchedAlone'
<1> SUFFICES ASSUME TypedTab, OneChange, WatchedAlone, [TabNext]_tabVars,
                    ~history'.stopped, history'.watch # "no"
             PROVE  /\ ops' = {} /\ Streaming'
                    /\ history'.watch = "met" => view' = Watched'
  BY DEF WatchedAlone
<1> DEFINE Goal == /\ ops' = {} /\ Streaming'
                   /\ history'.watch = "met" => view' = Watched'
<1>1. /\ history \in [left : BOOLEAN, stopped : BOOLEAN, watch : {"no", "waits", "met"}]
      /\ view \in Sessions \union {None}
  BY DEF TypedTab, TabTypeOK
<1>2. Streaming => busy
  BY StoppedStays DEF OneChange
<1>3. ASSUME history.watch # "no"
      PROVE  ops = {} /\ Streaming /\ (history.watch = "met" => view = Watched)
  BY <1>3, StoppedStays DEF WatchedAlone
<1>4. CASE Pressed \/ Asked
  <2>1. ~busy /\ Note
    BY <1>4, Zenon DEF Pressed, Asked
  <2>2. history'.watch = history.watch
    BY <1>1, <2>1 DEF Note
  <2> QED BY <1>2, <1>3, <2>1, <2>2
<1>5. CASE StopPressed \/ TurnedAway \/ Completed
  <2>1. CASE StopPressed
    BY <2>1 DEF StopPressed
  <2>2. CASE TurnedAway
    BY <1>1, <2>2 DEF TurnedAway, TurnAway
  <2>3. CASE Completed
    <3>1. history' = [history EXCEPT !.left = FALSE, !.watch = "no"]
      BY <2>3 DEF Completed
    <3> QED BY <1>1, <3>1
  <2> QED BY <1>5, <2>1, <2>2, <2>3
<1>6. ASSUME NEW o \in ops, Swapped(o) \/ Dismissed(o) \/ Released(o)
      PROVE  FALSE
  <2>1. history'.watch = history.watch
    BY <1>1, <1>6 DEF Swapped, Dismissed, Released
  <2> QED BY <1>3, <2>1
<1>7. ASSUME NEW o \in ops, Started(o)
      PROVE  Goal
  <2>1. history'.watch = IF ops = {o} THEN "waits" ELSE "no"
    BY <1>1, <1>7 DEF Started
  <2>2. ops = {o} /\ history'.watch = "waits"
    BY <2>1
  <2>3. ops' = ops \ {o} /\ Streaming'
    BY <1>7, StartedSpec
  <2> QED BY <2>2, <2>3
<1>8. CASE StreamMoves
  <2>1. /\ ops' = ops /\ Streaming' /\ Watched' = Watched
        /\ history.watch = "no" => history'.watch = "no"
        /\ \/ history' = history /\ (view' = view \/ view = None)
           \/ view' = Watched
    BY <1>1, <1>8 DEF StreamMoves
  <2>2. ops = {} /\ Streaming /\ (history.watch = "met" => view = Watched)
    BY <1>3, <2>1
  <2>3. Watched # None
    BY <2>2 DEF Streaming, Watched, TypedTab, SourceInv
  <2> QED BY <2>1, <2>2, <2>3
<1>9. CASE Unmoved
  BY <1>3, <1>9, SameStreamSpec DEF Unmoved
<1> QED BY <1>4, <1>5, <1>6, <1>7, <1>8, <1>9, TabShapes DEF Shape

LEMMA HistoryType ==
  TypedTab /\ [TabNext]_tabVars =>
    history' \in [left : BOOLEAN, stopped : BOOLEAN, watch : {"no", "waits", "met"}]
<1> SUFFICES ASSUME TypedTab, [TabNext]_tabVars
             PROVE  history' \in [left : BOOLEAN, stopped : BOOLEAN, watch : {"no", "waits", "met"}]
  OBVIOUS
<1>1. history \in [left : BOOLEAN, stopped : BOOLEAN, watch : {"no", "waits", "met"}]
  BY DEF TypedTab, TabTypeOK
<1>2. \/ Note \/ StopPressed \/ TurnAway \/ Completed \/ StreamMoves \/ history' = history
      \/ \E o \in ops : Dismissed(o) \/ Released(o) \/ Started(o)
  BY TabShapes DEF Shape, Pressed, Asked, TurnedAway, Swapped, Unmoved
<1>3. CASE Note
  BY <1>1, <1>3 DEF Note
<1>4. CASE StopPressed
  BY <1>1, <1>4 DEF StopPressed
<1>5. CASE TurnAway
  BY <1>1, <1>5 DEF TurnAway
<1>6. CASE Completed
  <2>1. history' = [history EXCEPT !.left = FALSE, !.watch = "no"]
    BY <1>6 DEF Completed
  <2> QED BY <1>1, <2>1
<1>7. CASE StreamMoves
  <2>1. \/ history' = history
        \/ history' = [history EXCEPT !.watch = IF @ = "waits" THEN "met" ELSE @]
    BY <1>7 DEF StreamMoves
  <2> QED BY <1>1, <2>1
<1>8. ASSUME NEW o \in ops, Dismissed(o) \/ Released(o) \/ Started(o)
      PROVE  history' \in [left : BOOLEAN, stopped : BOOLEAN, watch : {"no", "waits", "met"}]
  <2>1. CASE Dismissed(o)
    BY <1>1, <2>1 DEF Dismissed
  <2>2. CASE Released(o)
    BY <1>1, <2>2 DEF Released
  <2>3. CASE Started(o)
    BY <1>1, <2>3 DEF Started
  <2> QED BY <1>8, <2>1, <2>2, <2>3
<1> QED BY <1>1, <1>2, <1>3, <1>4, <1>5, <1>6, <1>7, <1>8

SourceType == [sid : Runs \union {None}, open : BOOLEAN, inbox : Seq({"live", "done"})]

\* What the tab shows and the stream it has.
ShownType ==
  /\ view \in Sessions \union {None} /\ selected \in Sessions \union {None}
  /\ busy \in BOOLEAN
StreamType == source \in SourceType /\ timer \in Runs \union {None}
ServerType ==
  /\ runs \in [Sessions -> {"new", "running", "over"}]
  /\ snap \in [Runs -> {"none", "live", "done"}]
  /\ saved \subseteq Sessions
  /\ errors \in 0..MaxErrors
PartsType == ShownType /\ StreamType /\ ServerType

LEMMA NoSourceType ==
  /\ NoSource \in SourceType
  /\ \A s \in Runs \union {None} : [NoSource EXCEPT !.sid = s] \in SourceType
<1>1. <<>> \in Seq({"live", "done"})
  OBVIOUS
<1> QED BY <1>1 DEF NoSource, SourceType

LEMMA ErrorCounted == ASSUME ServerType, errors < MaxErrors, errors' = errors + 1
                      PROVE  errors' \in 0..MaxErrors
BY ClientAssumption DEF ServerType

LEMMA UserTypes == ASSUME PartsType, User PROVE PartsType'
<1>1. saved \subseteq Sessions
  BY DEF PartsType, ServerType
<1>2. StreamType'
  <2>1. UNCHANGED stream \/ CloseLiveSource
    BY DEF User, Run, Continue, Approve, Stop, SelectSession, NewTask, RenameOrDelete,
           Refresh, EffectRunsAgain
  <2> QED BY <2>1, NoSourceType DEF stream, CloseLiveSource, PartsType, StreamType
<1>3. ServerType'
  <2>1. UNCHANGED server /\ errors' = errors
    BY DEF User, Run, Continue, Approve, Stop, SelectSession, NewTask, RenameOrDelete,
           Refresh, EffectRunsAgain
  <2> QED BY <2>1 DEF server, PartsType, ServerType
<1>4. ShownType'
  <2>1. /\ busy' = busy \/ busy' = TRUE \/ busy' = FALSE
        /\ view' = view \/ view' = None
        /\ selected' = selected \/ selected' = None \/ selected' \in Sessions
    BY DEF User, Run, Continue, Approve, Stop, SelectSession, NewTask, RenameOrDelete,
           Refresh, EffectRunsAgain, shown
  <2> QED BY <2>1 DEF PartsType, ShownType
<1> QED BY <1>2, <1>3, <1>4 DEF PartsType

LEMMA ServeTypes ==
  ASSUME TypedTab, PartsType, NEW o \in ops, ServeOp(o)
  PROVE  PartsType'
<1>1. o.sid \in Sessions \union {None} /\ TabTypeOK /\ SourceInv /\ Runs \subseteq Sessions
  BY DEF TypedTab, TabTypeOK, OpType, Sessions
<1>2. ShownType'
  <2>1. UNCHANGED shown /\ busy' = busy
    BY DEF ServeOp, StartRun, ChangeSession, CancelSession, RenameSession, DeleteSession
  <2> QED BY <2>1 DEF shown, PartsType, ShownType
<1>3. timer' = timer /\ errors' = errors
  BY DEF ServeOp, StartRun, ChangeSession, CancelSession, RenameSession, DeleteSession, stream
<1>4. (snap' = snap /\ source' = source) \/ \E s : \E m \in {"live", "done"} : ShowsAs(s, m)
  BY DEF ServeOp, StartRun, ChangeSession, CancelSession, RenameSession, DeleteSession,
         stream, server
<1>5. snap' \in [Runs -> {"none", "live", "done"}] /\ source' \in SourceType
  BY <1>1, <1>4, ShowsAsSpec DEF PartsType, StreamType, ServerType, SourceType
<1>6. runs' \in [Sessions -> {"new", "running", "over"}] /\ saved' \subseteq Sessions
  <2>1. runs \in [Sessions -> {"new", "running", "over"}] /\ saved \subseteq Sessions
    BY DEF PartsType, ServerType
  <2>2. CASE StartRun(o)
    BY <1>1, <2>1, <2>2 DEF StartRun
  <2>3. CASE CancelSession(o)
    BY <1>1, <2>1, <2>3 DEF CancelSession
  <2>4. CASE ChangeSession(o) \/ RenameSession(o) \/ DeleteSession(o)
    BY <2>1, <2>4 DEF ChangeSession, RenameSession, DeleteSession, server
  <2> QED BY <2>2, <2>3, <2>4 DEF ServeOp
<1> QED BY <1>2, <1>3, <1>5, <1>6 DEF PartsType, ShownType, StreamType, ServerType

LEMMA ResumeTypes ==
  ASSUME TypedTab, PartsType, NEW o \in ops, Resume(o)
  PROVE  PartsType'
<1>1. o.sid \in Sessions \union {None} /\ (o.kind = "start" /\ o.done => o.sid \in Runs)
  BY DEF TypedTab, TabTypeOK, OpType, OpsInv, Sound
<1>2. ServerType'
  <2>1. UNCHANGED server /\ errors' = errors
    BY DEF Resume, Started, Recorded, Listed, Approved, GoToNext, Loaded, Failed
  <2> QED BY <2>1 DEF server, PartsType, ServerType
<1>3. StreamType'
  <2>1. UNCHANGED stream \/ (ConnectLive(o.sid) /\ o.kind = "start" /\ o.done)
    BY DEF Resume, Started, Recorded, Listed, Approved, GoToNext, Loaded, Failed, Answered
  <2> QED BY <1>1, <2>1, NoSourceType DEF stream, ConnectLive, PartsType, StreamType
<1>4. ShownType'
  <2>1. /\ view' = view \/ view' = None \/ view' = o.sid
        /\ selected' = selected \/ selected' = None \/ selected' = o.sid
    BY DEF Resume, Started, Recorded, Listed, Approved, GoToNext, Loaded, Failed, shown
  <2>2. busy' = busy \/ busy' = FALSE \/ busy' = (busy /\ o.kind \notin Mutations \union {"cancel"})
    BY DEF Resume, Started, Recorded, Listed, Approved, GoToNext, Loaded, Failed
  <2> QED BY <1>1, <2>1, <2>2 DEF PartsType, ShownType
<1> QED BY <1>2, <1>3, <1>4 DEF PartsType

LEMMA StreamTypes ==
  ASSUME SourceInv, PartsType, Stream \/ Break
  PROVE  PartsType'
<1>1. /\ source \in SourceType /\ source.sid \in Runs \union {None}
      /\ source.inbox \in Seq({"live", "done"})
      /\ timer \in Runs \union {None} /\ Runs \subseteq Sessions
  BY DEF PartsType, StreamType, SourceType, Sessions
<1>2. UNCHANGED server /\ errors' \in 0..MaxErrors
  BY ErrorCounted
  DEF Stream, Open, DeliverLive, DeliverDone, Reconnect, Break, PartsType, ServerType
<1>3. ServerType'
  BY <1>2 DEF server, PartsType, ServerType
<1>4. ShownType'
  <2>1. /\ view' = view \/ view' = source.sid
        /\ selected' = selected
        /\ busy' = busy \/ busy' = TRUE \/ busy' = FALSE
    BY DEF Stream, Open, DeliverLive, DeliverDone, Reconnect, Break, shown
  <2> QED BY <1>1, <2>1 DEF PartsType, ShownType
<1>5. source # NoSource => source.sid # None
  BY DEF SourceInv
<1>6. StreamType'
  <2>1. CASE Open
    <3>1. source.sid \in Runs
      BY <1>1, <1>5, <2>1 DEF Open
    <3>2. snap[source.sid] \in {"none", "live", "done"}
      BY <3>1 DEF PartsType, ServerType
    <3> DEFINE first == IF snap[source.sid] = "none" THEN <<>> ELSE <<snap[source.sid]>>
    <3>3. first \in Seq({"live", "done"})
      <4>1. CASE snap[source.sid] = "none"
        BY <4>1
      <4>2. CASE snap[source.sid] \in {"live", "done"}
        <5>1. \A m \in {"live", "done"} : <<m>> \in Seq({"live", "done"})
          OBVIOUS
        <5>2. first = <<snap[source.sid]>>
          BY <4>2
        <5> QED BY <4>2, <5>1, <5>2
      <4> QED BY <3>2, <4>1, <4>2
    <3>4. source' = [source EXCEPT !.open = TRUE, !.inbox = first] /\ timer' = timer
      BY <2>1 DEF Open
    <3> HIDE DEF first
    <3> QED BY <1>1, <3>3, <3>4 DEF StreamType, SourceType
  <2>2. CASE DeliverLive
    <3>1. Tail(source.inbox) \in Seq({"live", "done"})
      BY <1>1, <2>2 DEF DeliverLive
    <3> QED BY <1>1, <2>2, <3>1 DEF DeliverLive, StreamType, SourceType
  <2>3. CASE DeliverDone
    BY <1>1, <2>3, NoSourceType DEF DeliverDone, StreamType
  <2>4. CASE Reconnect
    BY <1>1, <2>4, NoSourceType DEF Reconnect, ConnectLive, StreamType
  <2>5. CASE Break
    BY <1>1, <2>5, NoSourceType DEF Break, StreamType
  <2> QED BY <2>1, <2>2, <2>3, <2>4, <2>5 DEF Stream
<1> QED BY <1>3, <1>4, <1>6 DEF PartsType

LEMMA ServerTypes ==
  ASSUME TypedTab, PartsType, NEW s \in Sessions, RunEvent(s) \/ EndRun(s) \/ ForgetSnapshot(s)
  PROVE  PartsType'
<1>1. ShownType' /\ timer' = timer /\ errors' = errors
  <2>1. UNCHANGED <<shown, timer, busy, errors>>
    BY DEF RunEvent, EndRun, ForgetSnapshot, stream
  <2> QED BY <2>1 DEF shown, PartsType, ShownType
<1>2. snap' \in [Runs -> {"none", "live", "done"}] /\ source' \in SourceType
  <2>1. CASE \E m \in {"live", "done"} : ShowsAs(s, m)
    BY <2>1, ShowsAsSpec DEF TypedTab, SourceType
  <2>2. CASE ForgetSnapshot(s)
    BY <2>2 DEF ForgetSnapshot, stream, PartsType, ServerType, StreamType
  <2> QED BY <2>1, <2>2 DEF RunEvent, EndRun
<1>3. runs' \in [Sessions -> {"new", "running", "over"}] /\ saved' \subseteq Sessions
  BY DEF RunEvent, EndRun, ForgetSnapshot, PartsType, ServerType
<1> QED BY <1>1, <1>2, <1>3 DEF PartsType, StreamType, ServerType

LEMMA RestartTypes ==
  ASSUME PartsType, RestartServer
  PROVE  PartsType'
<1>1. ShownType'
  BY DEF RestartServer, shown, PartsType, ShownType
<1>2. ServerType'
  <2>1. errors' \in 0..MaxErrors /\ saved' = saved
    BY ErrorCounted DEF RestartServer, PartsType
  <2>2. runs' \in [Sessions -> {"new", "running", "over"}]
    BY DEF RestartServer, PartsType, ServerType
  <2>3. snap' \in [Runs -> {"none", "live", "done"}]
    BY DEF RestartServer
  <2> QED BY <2>1, <2>2, <2>3 DEF PartsType, ServerType
<1>3. StreamType'
  <2>1. source.sid \in Runs \union {None}
    BY DEF PartsType, StreamType, SourceType
  <2>2. (source' = NoSource /\ timer' = source.sid) \/ UNCHANGED stream
    BY DEF RestartServer
  <2> QED BY <2>1, <2>2, NoSourceType DEF stream, PartsType, StreamType
<1> QED BY <1>1, <1>2, <1>3 DEF PartsType

LEMMA TypeParts ==
  TabTypeOK <=> /\ PartsType /\ ops \subseteq OpType
                /\ history \in [left : BOOLEAN, stopped : BOOLEAN, watch : {"no", "waits", "met"}]
BY DEF TabTypeOK, PartsType, ShownType, StreamType, ServerType, SourceType

LEMMA TabTypeStep == TypedTab /\ [TabNext]_tabVars => TabTypeOK'
<1> SUFFICES ASSUME TypedTab, [TabNext]_tabVars
             PROVE  TabTypeOK'
  OBVIOUS
<1>1. PartsType /\ SourceInv
  BY TypeParts DEF TypedTab
<1>2. PartsType'
  <2>1. CASE User
    BY <1>1, <2>1, UserTypes
  <2>2. ASSUME NEW o \in ops, ServeOp(o) \/ Resume(o)
        PROVE  PartsType'
    BY <1>1, <2>2, ServeTypes, ResumeTypes
  <2>3. CASE Stream \/ Break
    BY <1>1, <2>3, StreamTypes
  <2>4. ASSUME NEW s \in Sessions, RunEvent(s) \/ EndRun(s) \/ ForgetSnapshot(s)
        PROVE  PartsType'
    BY <1>1, <2>4, ServerTypes
  <2>5. CASE RestartServer
    BY <1>1, <2>5, RestartTypes
  <2>6. CASE UNCHANGED tabVars
    BY <1>1, <2>6 DEF tabVars, server, shown, stream, PartsType, ShownType, StreamType, ServerType
  <2> QED BY <2>1, <2>2, <2>3, <2>4, <2>5, <2>6 DEF TabNext
<1>3. ops' \subseteq OpType
  BY OpsStep DEF OpsInv, Sound
<1>4. history' \in [left : BOOLEAN, stopped : BOOLEAN, watch : {"no", "waits", "met"}]
  BY HistoryType
<1> QED BY <1>2, <1>3, <1>4
        DEF TabTypeOK, PartsType, ShownType, StreamType, ServerType, SourceType

LEMMA TabInvInit == TabInit => TabInv
<1> SUFFICES ASSUME TabInit
             PROVE  TabInv
  OBVIOUS
<1>1. /\ NoSource \in SourceType /\ NoSource.sid = None
      /\ 0 \in 0..MaxErrors
  BY NoSourceType, ClientAssumption DEF NoSource
<1>2. PartsType
  BY <1>1 DEF TabInit, PartsType, ShownType, StreamType, ServerType, Sessions
<1>3. /\ Op("refresh", "list", None) \in OpType /\ Op("refresh", "list", None).kind = "refresh"
      /\ \A o \in ops : o = Op("refresh", "list", None)
  BY DEF TabInit, Op, OpType, Kinds
<1>4. history = [left |-> FALSE, stopped |-> FALSE, watch |-> "no"]
  BY DEF TabInit
<1>5. TabTypeOK
  BY <1>2, <1>3, <1>4, TypeParts
<1>6. OpsInv /\ SourceInv
  BY <1>1, <1>3 DEF OpsInv, Sound, SourceInv, TabInit
<1>7. ~busy /\ ~Streaming /\ ~Doing(Mutations)
  BY <1>3 DEF TabInit, Streaming, Doing, Mutations
<1>8. BusyHasReason /\ OneChange
  BY <1>3, <1>7 DEF BusyHasReason, OneChange
<1>9. WatchedAlone
  BY <1>4 DEF WatchedAlone
<1> QED BY <1>5, <1>6, <1>8, <1>9 DEF TabInv

LEMMA TabInvStep == TabInv /\ [TabNext]_tabVars => TabInv'
<1> SUFFICES ASSUME TabInv, [TabNext]_tabVars
             PROVE  TabInv'
  OBVIOUS
<1>1. TypedTab /\ BusyHasReason /\ OneChange /\ WatchedAlone
  BY DEF TabInv, TypedTab
<1> QED BY <1>1, TabTypeStep, OpsStep, SourceStep, BusyStep, OneStep, WatchStep DEF TabInv

LEMMA TabInvariant == TabSpec => []TabInv
BY TabInvInit, TabInvStep, PTL DEF TabSpec

\* Every variable of the tab stays within its type: streams and timers name runs the
\* tab started, and the requests under way are those that the handlers of main.tsx send.
THEOREM TabTypes == TabSpec => []TabTypeOK
<1>1. TabInv => TabTypeOK
  BY DEF TabInv
<1> QED BY <1>1, TabInvariant, PTL

\* The tab is busy only while a stream, a timer or a request is there that will free it,
\* unless the user has turned away from a run (main.tsx:126-133, 265-289, 295-364).
THEOREM BusyExplained == TabSpec => []BusyHasReason
<1>1. TabInv => BusyHasReason
  BY DEF TabInv
<1> QED BY <1>1, TabInvariant, PTL

\* While the tab watches a run that began with nothing else awaited, Stop names that run
\* (main.tsx:343-345), whatever is pressed, fails or restarts meanwhile.
THEOREM StopHitsTheRun == TabSpec => []StopNamesTheRun
<1>1. TabInv => StopNamesTheRun
  <2> SUFFICES ASSUME TabInv, Streaming, history.watch = "met", ~history.stopped
               PROVE  StopTarget = Watched
    BY DEF StopNamesTheRun
  <2>1. view = Watched
    BY DEF TabInv, WatchedAlone
  <2>2. Watched # None
    BY DEF TabInv, SourceInv, Streaming, Watched
  <2> QED BY <2>1, <2>2 DEF StopTarget
<1> QED BY <1>1, TabInvariant, PTL
==============================================================================
