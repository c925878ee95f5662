---------------------------- MODULE CockpitClient ----------------------------
(***************************************************************************)
(* One browser tab of the cockpit (cockpit-web/src/main.tsx) in front of   *)
(* its server: the requests the tab has under way, the live stream of the  *)
(* run it watches, what the user may press meanwhile.  A handler is atomic *)
(* up to its next await; a request is served and then answered, so answers *)
(* come late and in any order.  What only reads is read when its answer    *)
(* arrives.  A view model is the session it shows.                         *)
(***************************************************************************)
EXTENDS Integers, Sequences, FiniteSets, Functions

CONSTANTS
  Runs,        \* the sessions this tab can start
  Olds,        \* sessions saved before
  None,        \* no session; as a selection "latest"
  MaxOps,      \* bound: requests of the tab under way at once
  MaxErrors    \* bound: streams that break, and restarts of the server

Sessions == Runs \union Olds

ASSUME ClientAssumption == None \notin Sessions /\ MaxErrors \in Nat

VARIABLES
  runs,        \* [Sessions -> {"new", "running", "over"}]
  snap,        \* the event bus: [Runs -> {"none", "live", "done"}]
  saved,       \* the sessions on disk
  view,        \* viewModel.sessionId
  selected,    \* selectedSessionRef
  busy,
  source,      \* liveSource, with the messages on their way to it
  timer,       \* the session liveReconnectTimer will connect to
  ops,         \* the handlers that await an answer
  errors,
  history

server == <<runs, snap, saved>>
shown == <<view, selected>>
stream == <<source, timer>>
tabVars == <<server, shown, stream, busy, ops, errors, history>>

NoSource == [sid |-> None, open |-> FALSE, inbox |-> <<>>]

\* A handler that awaits an answer.  One that is just like another is its twin.
Op(kind, at, sid) == [kind |-> kind, at |-> at, sid |-> sid, done |-> FALSE, twin |-> FALSE]
Put(o, rest) == rest \union {IF o \in rest THEN [o EXCEPT !.twin = ~@] ELSE o}

Doing(kinds) == \E o \in ops : o.kind \in kinds
Mutations == {"start", "continue", "approve"}
Streaming == source # NoSource \/ timer # None
Watched == IF timer # None THEN timer ELSE source.sid

TabInit ==
  /\ runs = [s \in Sessions |-> IF s \in Olds THEN "over" ELSE "new"]
  /\ snap = [s \in Runs |-> "none"]
  /\ saved = Olds
  /\ view = None /\ selected = None
  /\ busy = FALSE
  /\ source = NoSource /\ timer = None
  /\ ops = {Op("refresh", "list", None)}
  /\ errors = 0
  /\ history = [left |-> FALSE, stopped |-> FALSE, watch |-> "no"]

-----------------------------------------------------------------------------
(* Shared by the handlers.  History: left, the user turned away from a run *)
(* under way; stopped, a Stop and something that changes a session were    *)
(* under way together; watch, a stream that was opened while no other      *)
(* answer was awaited waits for its first message ("waits") or has had it  *)
(* ("met").                                                                *)

Begin(kind, at, sid) ==
  /\ Cardinality(ops) < MaxOps
  /\ ops' = Put(Op(kind, at, sid), ops)

CloseLiveSource == source' = NoSource /\ timer' = None

ConnectLive(s) ==
  /\ source' = [NoSource EXCEPT !.sid = s]
  /\ timer' = None

TurnAway == history' = [history EXCEPT !.left = (@ \/ Streaming) /\ busy, !.watch = "no"]
Note == history' = [history EXCEPT !.stopped = @ \/ Doing({"cancel"})]

-----------------------------------------------------------------------------
(* What the user can press.                                                *)

\* run, a new task: nothing is cleared until the server has answered.
Run ==
  /\ ~busy
  /\ busy' = TRUE
  /\ Begin("start", "act", None)
  /\ Note
  /\ UNCHANGED <<server, shown, stream, errors>>

\* run, a message to the session in view.
Continue ==
  /\ ~busy
  /\ view # None /\ selected # None
  /\ busy' = TRUE
  /\ Begin("continue", "act", view)
  /\ Note
  /\ UNCHANGED <<server, shown, stream, errors>>

Approve ==
  /\ ~busy
  /\ view # None
  /\ busy' = TRUE
  /\ Begin("approve", "act", view)
  /\ Note
  /\ UNCHANGED <<server, shown, stream, errors>>

\* cancelRun: the session in view, else the selected one.
StopTarget == IF view # None THEN view ELSE selected

Stop ==
  /\ busy
  /\ CloseLiveSource
  /\ history' = [left |-> FALSE, watch |-> "no", stopped |-> history.stopped \/ Doing(Mutations)]
  /\ IF StopTarget = None
     THEN busy' = FALSE /\ UNCHANGED ops
     ELSE Begin("cancel", "act", StopTarget) /\ UNCHANGED busy
  /\ UNCHANGED <<server, shown, errors>>

\* The list of sessions is taken to be up to date; what it may hold besides fails to load.
SelectSession(s) ==
  /\ s \in saved
  /\ CloseLiveSource
  /\ selected' = s
  /\ Begin("select", "load", s)
  /\ TurnAway
  /\ UNCHANGED <<server, view, busy, errors>>

NewTask ==
  /\ CloseLiveSource
  /\ selected' = None /\ view' = None
  /\ TurnAway
  /\ UNCHANGED <<server, busy, ops, errors>>

RenameOrDelete(kind) ==
  /\ ~busy
  /\ selected \in saved
  /\ Begin(kind, "act", selected)
  /\ Note
  /\ UNCHANGED <<server, shown, stream, busy, errors>>

\* (mutant) the button stays enabled.
RefreshAnyTime ==
  /\ Begin("refresh", "list", None)
  /\ Note
  /\ UNCHANGED <<server, shown, stream, busy, errors>>

Refresh ==
  /\ ~busy
  /\ Begin("refresh", "list", None)
  /\ Note
  /\ UNCHANGED <<server, shown, stream, busy, errors>>

\* refresh depends on the language and on whether the setup dialog shows: when one changes, the
\* effect that uses it is cleaned up, which closes the stream, and runs again.
EffectRunsAgain ==
  /\ CloseLiveSource
  /\ Begin("refresh", "list", None)
  /\ TurnAway
  /\ UNCHANGED <<server, shown, busy, errors>>

-----------------------------------------------------------------------------
(* The server does what a request asks for.  What only reads is read when  *)
(* its answer arrives.                                                     *)

Asks(o, kinds) == o.kind \in kinds /\ o.at = "act" /\ ~o.done
Does(o, sid) == ops' = Put([o EXCEPT !.done = TRUE, !.sid = sid], ops \ {o})

\* The messages of a session reach the stream that is open for it.  The model drops those that
\* repeat one on its way, or follow the "done" after which the tab closes the stream.
Emit(s, m) ==
  source' = IF source.sid = s /\ source.open /\ {m, "done"} \cap Range(source.inbox) = {}
            THEN [source EXCEPT !.inbox = Append(@, m)]
            ELSE source

\* Nothing asks for the snapshot of a session that was saved before.
ShowsAs(s, m) ==
  IF s \in Runs THEN snap' = [snap EXCEPT ![s] = m] /\ Emit(s, m)
  ELSE UNCHANGED <<snap, source>>

StartRun(o) ==
  /\ Asks(o, {"start"})
  /\ \E s \in Runs :
       /\ runs[s] = "new"
       /\ runs' = [runs EXCEPT ![s] = "running"]
       /\ ShowsAs(s, "live")
       /\ Does(o, s)
  /\ UNCHANGED <<saved, shown, timer, busy, errors, history>>

\* A message shows its session as done, an approval as going on.
ChangeSession(o) ==
  /\ Asks(o, {"continue", "approve"})
  /\ o.sid \in saved
  /\ ShowsAs(o.sid, IF o.kind = "continue" THEN "done" ELSE "live")
  /\ Does(o, o.sid)
  /\ UNCHANGED <<runs, saved, shown, timer, busy, errors, history>>

\* The session is saved as aborted and shown as done, or the answer is that it was not running; a
\* run that had its summary and had not settled is lost then.  Events are dropped from now on.
CancelSession(o) ==
  LET s == o.sid IN
  /\ Asks(o, {"cancel"})
  /\ s \in saved \union {r \in Runs : snap[r] # "none"}
  /\ runs' = [runs EXCEPT ![s] = IF @ = "running" THEN "over" ELSE @]
  /\ \/ saved' = saved \union {s} /\ ShowsAs(s, "done")
     \/ /\ s \in saved \/ runs[s] = "running"
        /\ UNCHANGED <<saved, snap, source>>
  /\ Does(o, s)
  /\ UNCHANGED <<shown, timer, busy, errors, history>>

RenameSession(o) ==
  /\ Asks(o, {"rename"})
  /\ o.sid \in saved
  /\ Does(o, o.sid)
  /\ UNCHANGED <<server, shown, stream, busy, errors, history>>

DeleteSession(o) ==
  /\ Asks(o, {"delete"})
  /\ o.sid \in saved
  /\ saved' = saved \ {o.sid}
  /\ Does(o, o.sid)
  /\ UNCHANGED <<runs, snap, shown, stream, busy, errors, history>>

ServeOp(o) ==
  \/ StartRun(o)
  \/ ChangeSession(o)
  \/ CancelSession(o)
  \/ RenameSession(o)
  \/ DeleteSession(o)

-----------------------------------------------------------------------------
(* A handler goes on when its answer is there.                             *)

Ends(o) == ops' = ops \ {o}
GoesOn(o, at, sid) == ops' = Put(Op(o.kind, at, sid), ops \ {o})
Answered(o, kinds, at) == o.kind \in kinds /\ o.at = at /\ (at = "act" => o.done)
Freed == history' = [history EXCEPT !.left = FALSE]

\* (mutant) no stream is opened.
StartedUnwatched(o) ==
  /\ Answered(o, {"start"}, "act")
  /\ selected' = o.sid
  /\ Ends(o)
  /\ UNCHANGED <<server, view, stream, busy, errors, history>>

Started(o) ==
  /\ Answered(o, {"start"}, "act")
  /\ selected' = o.sid
  /\ ConnectLive(o.sid)
  /\ history' = [history EXCEPT !.left = FALSE, !.watch = IF ops = {o} THEN "waits" ELSE "no"]
  /\ Ends(o)
  /\ UNCHANGED <<server, view, busy, errors>>

\* The view model in the answer is shown, then the sessions are listed.
Recorded(o) ==
  /\ Answered(o, {"continue", "cancel", "rename"}, "act")
  /\ view' = o.sid
  /\ GoesOn(o, "list", o.sid)
  /\ UNCHANGED <<server, selected, stream, busy, errors, history>>

Listed(o) ==
  /\ Answered(o, {"continue", "cancel", "rename", "completed"}, "list")
  /\ IF o.kind = "continue" THEN selected' = o.sid ELSE UNCHANGED selected
  /\ IF o.kind \in {"continue", "cancel"}
     THEN busy' = FALSE /\ Freed
     ELSE UNCHANGED <<busy, history>>
  /\ Ends(o)
  /\ UNCHANGED <<server, view, stream, errors>>

Approved(o) ==
  /\ Answered(o, {"approve"}, "act")
  /\ view' = o.sid
  /\ busy' = FALSE
  /\ Freed
  /\ Ends(o)
  /\ UNCHANGED <<server, selected, stream, errors>>

\* refresh and deleteSession go on to the selected session, when refresh still finds it, or to
\* another one, or show that there is none.
GoToNext(o) ==
  /\ Answered(o, {"refresh"}, "list") \/ Answered(o, {"delete"}, "act")
  /\ IF saved = {}
     THEN view' = None /\ selected' = None /\ Ends(o)
     ELSE /\ \E next \in saved :
               /\ o.kind = "refresh" /\ selected \in saved => next = selected
               /\ GoesOn(o, "load", next)
          /\ UNCHANGED shown
  /\ UNCHANGED <<server, stream, busy, errors, history>>

\* loadSession reads the files of a session, never the event bus, and moves the selection to what
\* was loaded; loadCompletedRun also lists.
Loaded(o) ==
  /\ Answered(o, {"select", "refresh", "delete", "completed"}, "load")
  /\ o.sid \in saved
  /\ view' = o.sid /\ selected' = o.sid
  /\ IF o.kind = "completed" THEN GoesOn(o, "list", o.sid) ELSE Ends(o)
  /\ UNCHANGED <<server, stream, busy, errors, history>>

\* Any request may fail, also after the server did what it asked for.  The error is shown as a
\* message, by refresh as an unavailable server.
Failed(o) ==
  /\ IF o.kind = "refresh" THEN view' = None ELSE UNCHANGED view
  /\ busy' = (busy /\ o.kind \notin Mutations \union {"cancel"})
  /\ history' = [history EXCEPT !.left = @ /\ busy']
  /\ Ends(o)
  /\ UNCHANGED <<server, selected, stream, errors>>

Resume(o) ==
  \/ Started(o)
  \/ Recorded(o)
  \/ Listed(o)
  \/ Approved(o)
  \/ GoToNext(o)
  \/ Loaded(o)
  \/ Failed(o)

-----------------------------------------------------------------------------
(* The live stream.                                                        *)

\* (mutant) only what happens from now on is sent.
OpenUnprimed ==
  /\ source # NoSource /\ ~source.open
  /\ source' = [source EXCEPT !.open = TRUE]
  /\ view' = IF view = None THEN source.sid ELSE view
  /\ UNCHANGED <<server, selected, timer, busy, ops, errors, history>>

\* sendLiveEvents begins with the snapshot there is.  onopen keeps the session in view.
Open ==
  /\ source # NoSource /\ ~source.open
  /\ source' = [source EXCEPT !.open = TRUE,
                              !.inbox = IF snap[source.sid] = "none" THEN <<>> ELSE <<snap[source.sid]>>]
  /\ view' = IF view = None THEN source.sid ELSE view
  /\ UNCHANGED <<server, selected, timer, busy, ops, errors, history>>

\* An event or a snapshot of the run brings it into view.
DeliverLive ==
  /\ source.inbox # <<>> /\ Head(source.inbox) = "live"
  /\ source' = [source EXCEPT !.inbox = Tail(@)]
  /\ view' = source.sid
  /\ history' = [history EXCEPT !.watch = IF @ = "waits" THEN "met" ELSE @]
  /\ UNCHANGED <<server, selected, timer, busy, ops, errors>>

DeliverDone ==
  /\ source.inbox # <<>> /\ Head(source.inbox) = "done"
  /\ view' = source.sid
  /\ source' = NoSource
  /\ Begin("completed", "load", source.sid)
  /\ busy' = FALSE
  /\ history' = [history EXCEPT !.left = FALSE, !.watch = "no"]
  /\ UNCHANGED <<server, selected, timer, errors>>

\* onerror.
Break ==
  /\ source # NoSource
  /\ errors < MaxErrors /\ errors' = errors + 1
  /\ source' = NoSource /\ timer' = source.sid
  /\ busy' = TRUE
  /\ UNCHANGED <<server, shown, ops, history>>

Reconnect ==
  /\ timer # None
  /\ ConnectLive(timer)
  /\ UNCHANGED <<server, shown, busy, ops, errors, history>>

-----------------------------------------------------------------------------
(* Runs and the server, as far as the tab can tell.                        *)

RunEvent(s) ==
  /\ runs[s] = "running"
  /\ ShowsAs(s, "live")
  /\ UNCHANGED <<runs, saved, shown, timer, busy, ops, errors, history>>

\* The failed state may fail to be saved, and is shown all the same.
EndRun(s) ==
  /\ runs[s] = "running"
  /\ runs' = [runs EXCEPT ![s] = "over"]
  /\ saved' \in {saved, saved \union {s}}
  /\ ShowsAs(s, "done")
  /\ UNCHANGED <<shown, timer, busy, ops, errors, history>>

\* Terminal snapshots expire; the limit may drop any.
ForgetSnapshot(s) ==
  /\ s \in Runs /\ snap[s] # "none"
  /\ snap' = [snap EXCEPT ![s] = "none"]
  /\ UNCHANGED <<runs, saved, shown, stream, busy, ops, errors, history>>

\* The runs die with the server, and the event bus with it.
RestartServer ==
  /\ errors < MaxErrors /\ errors' = errors + 1
  /\ runs' = [s \in Sessions |-> IF runs[s] = "running" THEN "over" ELSE runs[s]]
  /\ snap' = [s \in Runs |-> "none"]
  /\ IF source.open
     THEN source' = NoSource /\ timer' = source.sid /\ busy' = TRUE
     ELSE UNCHANGED <<stream, busy>>
  /\ UNCHANGED <<saved, shown, ops, history>>

-----------------------------------------------------------------------------

User ==
  \/ Run
  \/ Continue
  \/ Approve
  \/ Stop
  \/ \E s \in Sessions : SelectSession(s)
  \/ NewTask
  \/ \E kind \in {"rename", "delete"} : RenameOrDelete(kind)
  \/ Refresh
  \/ EffectRunsAgain

Stream == Open \/ DeliverLive \/ DeliverDone \/ Reconnect

TabNext ==
  \/ User
  \/ \E o \in ops : ServeOp(o) \/ Resume(o)
  \/ Stream
  \/ Break
  \/ \E s \in Sessions : RunEvent(s) \/ EndRun(s) \/ ForgetSnapshot(s)
  \/ RestartServer

TabSpec == TabInit /\ [][TabNext]_tabVars

\* Requests are answered, one way or the other, streams deliver and timers fire; runs may go on for
\* ever and nobody has to press anything.
TabFairSpec ==
  /\ TabSpec
  /\ WF_tabVars(\E o \in ops : ServeOp(o))
  /\ WF_tabVars(\E o \in ops : Resume(o))
  /\ WF_tabVars(Stream)

-----------------------------------------------------------------------------
(* Properties.                                                             *)

Kinds == Mutations \union {"cancel", "rename", "delete", "refresh", "select", "completed"}
OpType == [kind : Kinds, at : {"act", "list", "load"}, sid : Sessions \union {None},
           done : BOOLEAN, twin : BOOLEAN]

\* Every variable stays within its type.
TabTypeOK ==
  /\ runs \in [Sessions -> {"new", "running", "over"}]
  /\ snap \in [Runs -> {"none", "live", "done"}]
  /\ saved \subseteq Sessions
  /\ {view, selected} \subseteq Sessions \union {None}
  /\ busy \in BOOLEAN
  /\ source \in [sid : Runs \union {None}, open : BOOLEAN, inbox : Seq({"live", "done"})]
  /\ timer \in Runs \union {None}
  /\ ops \subseteq OpType
  /\ errors \in 0..MaxErrors
  /\ history \in [left : BOOLEAN, stopped : BOOLEAN, watch : {"no", "waits", "met"}]

\* The tab is busy only while something is on its way that will free it, or when the user has
\* turned away from a run.
BusyHasReason ==
  busy => Streaming \/ history.left \/ Doing(Mutations \union {"cancel"})

\* While a run is watched Stop names it: from its first message on, if no answer was awaited when
\* the stream was opened.  Nothing the user may press meanwhile moves another session into view.
StopNamesTheRun ==
  Streaming /\ history.watch = "met" /\ ~history.stopped => StopTarget = Watched

\* A run that ended while the tab watches it is seen to have ended, if the server still knows and
\* the tab goes on watching.
EndIsSeen ==
  \A s \in Runs :
    (runs[s] = "over" /\ snap[s] = "done" /\ Watched = s)
      ~> (~busy \/ Watched # s \/ snap[s] # "done")
==============================================================================
