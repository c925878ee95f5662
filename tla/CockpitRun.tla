------------------------------ MODULE CockpitRun -----------------------------
(***************************************************************************)
(* One background run of the local cockpit: the executor that emits its    *)
(* events, the continuation that persists its outcome, the HTTP requests   *)
(* that cancel it or add a message to its session, and the event bus they  *)
(* share.  They all live in one Node process, so an action goes from one   *)
(* await to the next and everything else falls in between.                 *)
(*                                                                         *)
(* A state of the agent graph is reduced to what these handlers tell       *)
(* apart: the result of its final summary and the turns recorded in it.    *)
(* A session record is read and written in one step.                       *)
(***************************************************************************)
EXTENDS Naturals, FiniteSets

CONSTANTS
  Cancels,     \* requests POST /api/runs/:id/cancel
  Messages,    \* requests POST /api/sessions/:id/messages
  RunResults,  \* results an executor can end its summary with
  MaxEvents,   \* bounds the live events the executor emits
  Nothing      \* stands for an absent snapshot or record

Completion == "completion"
Requests == Cancels \cup Messages
Procs == {Completion} \cup Requests

\* "none" is a state without finalSummary.
Results == RunResults \cup {"none", "completed", "failed", "aborted"}
States == [result : Results, turns : SUBSET Messages]
Snapshots == [state : States, done : BOOLEAN, error : BOOLEAN]

ASSUME CockpitAssumption ==
  /\ Completion \notin Requests
  /\ Cancels \cap Messages = {}
  /\ "none" \notin RunResults
  /\ MaxEvents \in Nat
  /\ Nothing \notin States \cup Snapshots

VARIABLES
  run,         \* the executor: running, summarizing, resolved or rejected
  straggling,  \* a coder of a failed parallel batch is still at work
  outcome,     \* result in the state the executor resolves with
  events,      \* live events emitted so far
  live,        \* liveState, what the events have told the server
  snapshot,    \* eventBus.snapshots for this session
  cancelled,   \* whether eventBus.canceledSessions holds this session
  lapsed,      \* whether a cancellation has ever run into its time to live
  record,      \* the session on disk
  pc,          \* where each continuation or request is, then its answer
  local        \* the state each of them holds across its awaits

executor == <<run, straggling, outcome, events, live>>
bus == <<snapshot, cancelled, lapsed>>
procs == <<pc, local>>
vars == <<executor, bus, record, procs>>

Blank == [result |-> "none", turns |-> {}]
Saving == {"save", "rest", "save_failure", "rest_failure"}
Answers == {"canceled", "not_running", "recorded", "error"}
Pcs == {"await", "catch", "dropped", "shown", "shown_failure",
        "idle", "load", "config"} \cup Saving \cup Answers

Snapshot(state, done, error) ==
  [state |-> state, done |-> done, error |-> error]

\* POST /api/runs has answered 202: the live snapshot is set, the executor is
\* started and its continuation waits.
Init ==
  /\ run = "running" /\ straggling = FALSE /\ outcome = "none" /\ events = 0
  /\ live = Blank
  /\ snapshot = Snapshot(Blank, FALSE, FALSE)
  /\ cancelled = FALSE /\ lapsed = FALSE
  /\ record = Nothing
  /\ pc = [p \in Procs |-> IF p = Completion THEN "await" ELSE "idle"]
  /\ local = [p \in Procs |-> Blank]

------------------------------------------------------------------------------
(* The executor and its onEvent callback.                                    *)

\* Mutant: events of a cancelled run still arrive.
OnEventAnyway(result) ==
  /\ live' = [live EXCEPT !.result = result]
  /\ snapshot' = Snapshot(live', FALSE, FALSE)

\* Mutant: the flag is looked at around applyLiveEvent only.
OnEventShown(result) ==
  /\ live' = IF cancelled THEN live ELSE [live EXCEPT !.result = result]
  /\ snapshot' = Snapshot(live', FALSE, FALSE)

\* onEvent: dropped while the session is cancelled, otherwise applied to
\* liveState and shown as a snapshot that is not done.
OnEvent(result) ==
  IF cancelled
    THEN UNCHANGED <<live, snapshot>>
    ELSE /\ live' = [live EXCEPT !.result = result]
         /\ snapshot' = Snapshot(live', FALSE, FALSE)

LiveEvent ==
  /\ run \in {"running", "summarizing"} \/ straggling
  /\ events < MaxEvents
  /\ events' = events + 1
  /\ OnEvent(live.result)
  /\ UNCHANGED <<run, straggling, outcome, cancelled, lapsed, record, procs>>

\* The summary event comes before the promise settles: writing the objective
\* trace and stopping the external agents are still awaited.
Summarize ==
  /\ run = "running"
  /\ run' = "summarizing"
  /\ \E r \in RunResults : outcome' = r /\ OnEvent(r)
  /\ UNCHANGED <<straggling, events, cancelled, lapsed, record, procs>>

\* A coder of a parallel batch throws WorkflowBlockedError: the run is
\* summarized as aborted while the other coder goes on.
CoderBlocks ==
  /\ run = "running"
  /\ run' = "summarizing" /\ straggling' = TRUE /\ outcome' = "aborted"
  /\ OnEvent("aborted")
  /\ UNCHANGED <<events, cancelled, lapsed, record, procs>>

StragglerEnds ==
  /\ straggling
  /\ straggling' = FALSE
  /\ UNCHANGED <<run, outcome, events, live, bus, record, procs>>

Resolve ==
  /\ run = "summarizing"
  /\ run' = "resolved"
  /\ UNCHANGED <<straggling, outcome, events, live, bus, record, procs>>

\* Any other error rejects the promise, also one thrown by a coder of a
\* parallel batch or after the summary event.
Reject ==
  /\ run \in {"running", "summarizing"}
  /\ run' = "rejected"
  /\ straggling' \in IF run = "running" THEN BOOLEAN ELSE {straggling}
  /\ UNCHANGED <<outcome, events, live, bus, record, procs>>

------------------------------------------------------------------------------
(* saveSession, and what every caller does when it returns or throws.        *)

Move(p, to) == pc' = [pc EXCEPT ![p] = to]

\* The session record; events, artifacts, task memory and the pointer follow.
WriteRecord(p) ==
  /\ pc[p] \in {"save", "save_failure"}
  /\ record' = local[p]
  /\ Move(p, IF pc[p] = "save" THEN "rest" ELSE "rest_failure")
  /\ UNCHANGED <<executor, bus, local>>

Answer(p) ==
  IF p = Completion THEN "shown"
  ELSE IF p \in Cancels THEN "canceled" ELSE "recorded"

\* setSnapshot done, then the answer.
SaveReturns(p) ==
  /\ pc[p] = "rest"
  /\ snapshot' = Snapshot(local[p], TRUE, FALSE)
  /\ Move(p, Answer(p))
  /\ UNCHANGED <<executor, cancelled, lapsed, record, local>>

\* Mutant: an error while saving is logged and forgotten.
SaveThrowsIgnored(p) ==
  /\ pc[p] \in {"save", "rest"}
  /\ snapshot' = Snapshot(local[p], TRUE, FALSE)
  /\ Move(p, Answer(p))
  /\ UNCHANGED <<executor, cancelled, lapsed, record, local>>

SaveThrows(p) ==
  /\ pc[p] \in {"save", "rest"}
  /\ Move(p, IF p = Completion THEN "catch" ELSE "error")
  /\ UNCHANGED <<executor, bus, record, local>>

------------------------------------------------------------------------------
(* The continuation of the run: .then(...).catch(...).                       *)

Then ==
  /\ pc[Completion] = "await" /\ run = "resolved"
  /\ IF cancelled
       THEN Move(Completion, "dropped") /\ UNCHANGED local
       ELSE /\ local' = [local EXCEPT
                           ![Completion] = [result |-> outcome, turns |-> {}]]
            /\ Move(Completion, "save")
  /\ UNCHANGED <<executor, bus, record>>

\* Mutant: a summary that had been announced is kept.
MarkFailedUnlessSummarized(state) ==
  [state EXCEPT !.result = IF @ = "none" THEN "failed" ELSE @]

MarkLiveRunFailed(state) == [state EXCEPT !.result = "failed"]

\* The failed state is made of the live events.
Catch ==
  /\ \/ pc[Completion] = "await" /\ run = "rejected"
     \/ pc[Completion] = "catch"
  /\ IF cancelled
       THEN Move(Completion, "dropped") /\ UNCHANGED local
       ELSE /\ local' = [local EXCEPT
                           ![Completion] = MarkLiveRunFailed(live)]
            /\ Move(Completion, "save_failure")
  /\ UNCHANGED <<executor, bus, record>>

\* Mutant: the failed state is shown only once it is saved.
ShowSavedFailure ==
  /\ pc[Completion] \in {"save_failure", "rest_failure"}
  /\ snapshot' = IF pc[Completion] = "rest_failure"
                 THEN Snapshot(local[Completion], TRUE, TRUE) ELSE snapshot
  /\ Move(Completion, "shown_failure")
  /\ UNCHANGED <<executor, cancelled, lapsed, record, local>>

\* Whether or not the failed state could be saved, it is shown.
ShowFailure ==
  /\ pc[Completion] \in {"save_failure", "rest_failure"}
  /\ snapshot' = Snapshot(local[Completion], TRUE, TRUE)
  /\ Move(Completion, "shown_failure")
  /\ UNCHANGED <<executor, cancelled, lapsed, record, local>>

------------------------------------------------------------------------------
(* Requests.                                                                 *)

MarkLiveRunCanceled(state) == [state EXCEPT !.result = "aborted"]

\* A state with a result other than aborted is a finished run.
CancelState(c, state) ==
  IF state.result \notin {"none", "aborted"}
    THEN Move(c, "not_running") /\ UNCHANGED local
    ELSE /\ local' = [local EXCEPT ![c] = MarkLiveRunCanceled(state)]
         /\ Move(c, "config")

\* The flag goes up first, whatever becomes of the request.
Cancel(c) ==
  /\ pc[c] = "idle"
  /\ cancelled' = TRUE
  /\ IF snapshot = Nothing
       THEN Move(c, "load") /\ UNCHANGED local
       ELSE CancelState(c, snapshot.state)
  /\ UNCHANGED <<executor, snapshot, lapsed, record>>

LoadToCancel(c) ==
  /\ pc[c] = "load"
  /\ IF record = Nothing
       THEN Move(c, "error") /\ UNCHANGED local
       ELSE CancelState(c, record)
  /\ UNCHANGED <<executor, bus, record>>

LoadToAppend(m) ==
  /\ pc[m] = "idle"
  /\ IF record = Nothing
       THEN Move(m, "error") /\ UNCHANGED local
       ELSE /\ local' = [local EXCEPT ![m] = record]
            /\ Move(m, "config")
  /\ UNCHANGED <<executor, bus, record>>

\* Mutant: a continued session counts as completed.
AppendAsCompleted(m, state) ==
  [result |-> "completed", turns |-> state.turns \cup {m}]

\* appendSessionContinuation
AppendTurn(m, state) ==
  [result |-> IF state.result = "none" THEN "completed" ELSE state.result,
   turns |-> state.turns \cup {m}]

\* resolveRuntimeConfig returns; a message is appended to the state loaded
\* before.
ConfigRead(p) ==
  /\ pc[p] = "config"
  /\ Move(p, "save")
  /\ local' = IF p \in Messages
                THEN [local EXCEPT ![p] = AppendTurn(p, local[p])] ELSE local
  /\ UNCHANGED <<executor, bus, record>>

ConfigThrows(p) ==
  /\ pc[p] = "config"
  /\ Move(p, "error")
  /\ UNCHANGED <<executor, bus, record, local>>

------------------------------------------------------------------------------
(* The event bus forgets.                                                    *)

\* A terminal snapshot ten minutes old is pruned, and any snapshot may be the
\* stalest of more than two hundred.
DropSnapshot ==
  /\ snapshot # Nothing
  /\ snapshot' = Nothing
  /\ UNCHANGED <<executor, cancelled, lapsed, record, procs>>

\* A cancellation ten minutes old is pruned, whether or not the run is over.
LapseCancellation ==
  /\ cancelled
  /\ cancelled' = FALSE /\ lapsed' = TRUE
  /\ UNCHANGED <<executor, snapshot, record, procs>>

------------------------------------------------------------------------------

Save(p) == WriteRecord(p) \/ SaveReturns(p) \/ SaveThrows(p)

Execute ==
  LiveEvent \/ Summarize \/ CoderBlocks \/ StragglerEnds \/ Resolve \/ Reject

Complete == Then \/ Catch \/ ShowFailure \/ Save(Completion)

\* The steps of a request that has arrived.
Serve(p) ==
  \/ LoadToCancel(p)
  \/ ConfigRead(p)
  \/ ConfigThrows(p)
  \/ Save(p)

Next ==
  \/ Execute
  \/ Complete
  \/ \E c \in Cancels : Cancel(c)
  \/ \E m \in Messages : LoadToAppend(m)
  \/ \E p \in Requests : Serve(p)
  \/ DropSnapshot
  \/ LapseCancellation

Spec == Init /\ [][Next]_vars

\* Promises of the file system settle, and Node runs what waits for them;
\* an executor need not come to an end.
FairSpec ==
  /\ Spec
  /\ WF_vars(Complete)
  /\ \A p \in Requests : WF_vars(Serve(p))

------------------------------------------------------------------------------
(* Properties.                                                               *)

TypeOK ==
  /\ run \in {"running", "summarizing", "resolved", "rejected"}
  /\ straggling \in BOOLEAN
  /\ outcome \in Results
  /\ events \in 0..MaxEvents
  /\ live \in States
  /\ snapshot \in Snapshots \cup {Nothing}
  /\ cancelled \in BOOLEAN /\ lapsed \in BOOLEAN
  /\ record \in States \cup {Nothing}
  /\ pc \in [Procs -> Pcs]
  /\ local \in [Procs -> States]

Settled == run \in {"resolved", "rejected"}
NeverCancelled == \A c \in Cancels : pc[c] = "idle"

\* A run whose cancellation was answered "canceled" before its continuation
\* had looked at the flag is aborted on disk and shown as over for as long as
\* the flag lives, whatever the executor and other requests do.
CancelHolds ==
  (/\ \E c \in Cancels : pc[c] = "canceled"
   /\ cancelled /\ ~lapsed
   /\ pc[Completion] \in {"await", "dropped"})
    => /\ record # Nothing /\ record.result = "aborted"
       /\ snapshot # Nothing =>
            snapshot.done /\ snapshot.state.result = "aborted"

\* A session on disk claims a result of its own only when the executor came
\* to that result: not because a summary was announced by a run that then
\* failed, nor because a request went by while it was running.
VerdictIsTheRuns ==
  record # Nothing /\ record.result \notin {"aborted", "failed"}
    => run = "resolved" /\ record.result = outcome

\* When nobody cancels, the outcome of a run that was shown as done is on
\* disk, also after messages loaded and saved the session around it.
OutcomeIsKept ==
  NeverCancelled /\ pc[Completion] = "shown"
    => record # Nothing /\ record.result = outcome

\* A client that saw a snapshot marked done, without an error, and closed its
\* stream finds the session on disk, with a result.
DoneIsSaved ==
  snapshot # Nothing /\ snapshot.done /\ ~snapshot.error
    => record # Nothing /\ record.result # "none"

\* Of the run and the requests modelled here, nothing but a straggler of the
\* executor, or a cancelled run whose flag has lapsed, shows a run as going on
\* after it was shown as done.
DoneStaysDone ==
  [][snapshot # Nothing /\ snapshot.done /\ ~straggling /\ ~lapsed
       => snapshot' = Nothing \/ snapshot'.done]_vars

\* A run that settles is shown as done, even if its session cannot be saved,
\* unless somebody has asked to cancel it.
SettledRunIsShown ==
  Settled /\ pc[Completion] = "await"
    ~> (snapshot # Nothing /\ snapshot.done) \/ ~NeverCancelled

------------------------------------------------------------------------------
(* What the documents say and the code does not do.                          *)

Quiet ==
  /\ Settled /\ ~straggling
  /\ pc[Completion] \in {"dropped", "shown", "shown_failure"}
  /\ \A p \in Requests : pc[p] \in {"idle"} \cup Answers

\* docs/ROADMAP.md:86, "Stop/cancel controls persist canceled runs as aborted
\* sessions."
CanceledIsAborted ==
  Quiet /\ (\E c \in Cancels : pc[c] = "canceled")
    => record # Nothing /\ record.result = "aborted"
==============================================================================
