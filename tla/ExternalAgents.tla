---------------------------- MODULE ExternalAgents ----------------------------
(***************************************************************************)
(* The external agents of the runs of one process: role invocations        *)
(* (core/externalAgents/externalRoleInvoker.ts) share, through a pool, the *)
(* client of an agent that runs as a child process and speaks JSON-RPC     *)
(* (externalAgentProcess.ts).  The module follows one pool key, that is    *)
(* one profile and working directory, and one invocation per role.  A      *)
(* handler is atomic up to its next await.  The agent may answer in time,  *)
(* wrongly or never, may exit, and may outlive the signal to stop.         *)
(***************************************************************************)
EXTENDS Integers

CONSTANTS
  Runs,        \* workflow runs that overlap in the process
  Roles,       \* the role invocations of all runs
  RunOf,       \* [Roles -> Runs]
  MaxRetries,  \* profile.maxRetries
  Strict,      \* the profile wants strict output
  None

ASSUME MaxRetriesAssumption == MaxRetries \in Nat
ASSUME RunOfAssumption == RunOf \in [Roles -> Runs]
ASSUME NoneAssumption == None \notin Roles

\* A client is named for the invocation that made it.  What a client asks of
\* its process on its own behalf is asked by its start.
Start(c) == <<"start", c>>
Requesters == Roles \union {Start(c) : c \in Roles}

ASSUME StartAssumption == \A c \in Roles : Start(c) \notin Roles

VARIABLES
  run,     \* [Runs -> {"working", "ended", "thrown"}]
  at,      \* where an invocation is, and the start of a client
  uses,    \* the client of an invocation
  ask,     \* the request a requester awaits: its attempt, and whether the map
           \* of pending requests has it
  pool,    \* processClientPool: the client of the key, or None
  held,    \* the client has a child
  alive,   \* the process of the child exists
  fault    \* history: the agent failed, of its own accord, once

vars == <<run, at, uses, ask, pool, held, alive, fault>>

NoAsk == [attempt |-> 0, pending |-> FALSE]

ClientOf(q) == IF q \in Roles THEN uses[q] ELSE q[2]
Active(r) == at[r] \in {"starting", "list", "first", "second"}
Pending(q) == ask[q].pending
RolesOf(s) == {r \in Roles : RunOf[r] = s}

Init ==
  /\ run = [s \in Runs |-> "working"]
  /\ at = [q \in Requesters |-> "idle"]
  /\ uses = [r \in Roles |-> None]
  /\ ask = [q \in Requesters |-> NoAsk]
  /\ pool = None
  /\ held = [c \in Roles |-> FALSE]
  /\ alive = [c \in Roles |-> FALSE]
  /\ fault = FALSE

-----------------------------------------------------------------------------
(* One request, in up to MaxRetries + 1 attempts.  Each attempt has an id   *)
(* no other request of the client has (nextId++), so the answer to one that *)
(* was given up finds nothing in the map and is dropped: a late answer      *)
(* changes no state, and has no action here.                                *)

\* Whoever holds the key loses its client: the entry goes, the child of that
\* client is told to stop and the client forgets it.
Discard ==
  /\ pool' = None
  /\ held' = [c \in Roles |-> held[c] /\ c # pool]

\* The request failed for good.  An invocation throws, and discards the
\* client that is in the pool by then; the start of a client does not look
\* at what initialize() returned.
GiveUp(q) ==
  /\ ask' = [ask EXCEPT ![q] = NoAsk]
  /\ at' = [at EXCEPT ![q] = IF q \in Roles THEN "failed" ELSE "done"]
  /\ IF q \in Roles
     THEN uses' = [uses EXCEPT ![q] = None] /\ Discard
     ELSE UNCHANGED <<uses, pool, held>>

Send(q, n, what) ==
  /\ ask' = [ask EXCEPT ![q] = [attempt |-> n, pending |-> TRUE]]
  /\ at' = [at EXCEPT ![q] = what]
  /\ UNCHANGED <<uses, pool, held>>

\* A client without a child refuses every attempt at once.
Ask(q, n, what) == IF held[ClientOf(q)] THEN Send(q, n, what) ELSE GiveUp(q)

\* (mutant) the attempts are not counted.
AskForever(q) == Ask(q, ask[q].attempt, at[q])

\* An attempt got no answer, or an error for one.
AskAgain(q) ==
  IF ask[q].attempt <= MaxRetries THEN Ask(q, ask[q].attempt + 1, at[q]) ELSE GiveUp(q)

Return(r) ==
  /\ ask' = [ask EXCEPT ![r] = NoAsk]
  /\ at' = [at EXCEPT ![r] = "done"]
  /\ uses' = [uses EXCEPT ![r] = None]
  /\ UNCHANGED <<pool, held>>

-----------------------------------------------------------------------------
(* Invocations.                                                            *)

\* Roles that are ready together reach the pool in one turn: the first finds
\* it empty and spawns the child, the others wait for the same start.
Join(B, c) ==
  /\ pool' = c
  /\ uses' = [r \in Roles |-> IF r \in B THEN c ELSE uses[r]]
  /\ UNCHANGED run

\* (mutant) an entry counts once its start is over.
SpawnUnlessStarted(B) ==
  LET c == CHOOSE r \in B : TRUE IN
  /\ pool # None => at[Start(pool)] # "done"
  /\ Join(B, c)
  /\ held' = [held EXCEPT ![c] = TRUE]
  /\ alive' = [alive EXCEPT ![c] = TRUE]
  /\ ask' = [ask EXCEPT ![Start(c)] = [attempt |-> 1, pending |-> TRUE]]
  /\ at' = [q \in Requesters |-> IF q \in B THEN "starting"
                                 ELSE IF q = Start(c) THEN "initialize" ELSE at[q]]
  /\ UNCHANGED fault

Spawn(B) ==
  LET c == CHOOSE r \in B : TRUE IN
  /\ pool = None
  /\ Join(B, c)
  /\ held' = [held EXCEPT ![c] = TRUE]
  /\ alive' = [alive EXCEPT ![c] = TRUE]
  /\ ask' = [ask EXCEPT ![Start(c)] = [attempt |-> 1, pending |-> TRUE]]
  /\ at' = [q \in Requesters |-> IF q \in B THEN "starting"
                                 ELSE IF q = Start(c) THEN "initialize" ELSE at[q]]
  /\ UNCHANGED fault

Reuse(B) ==
  /\ pool # None
  /\ Join(B, pool)
  /\ at' = [q \in Requesters |-> IF q \in B THEN "starting" ELSE at[q]]
  /\ UNCHANGED <<held, alive, ask, fault>>

\* The diagnosis of the profile finds it cannot be run: nothing is spawned,
\* and all who wait for the start fail and take its entry out again.
Refuse(B) ==
  /\ pool = None
  /\ at' = [q \in Requesters |-> IF q \in B THEN "failed" ELSE at[q]]
  /\ fault' = TRUE
  /\ UNCHANGED <<run, uses, ask, pool, held, alive>>

\* A run goes on to its next roles when those before have come back well.
Invoke(s, B) ==
  /\ run[s] = "working"
  /\ B # {}
  /\ \A r \in RolesOf(s) : at[r] \in {"idle", "done"}
  /\ \A r \in B : at[r] = "idle"
  /\ Spawn(B) \/ Reuse(B) \/ Refuse(B)

\* The start of the client is over, however it ended.
ListTools(r) ==
  /\ at[r] = "starting"
  /\ at[Start(uses[r])] = "done"
  /\ Ask(r, 1, "list")
  /\ UNCHANGED <<run, alive, fault>>

\* What the adapter says of an answer decides: good output is returned, bad
\* output is asked for once more if the adapter wants it, and is in the end
\* an error under a strict profile, the result otherwise.
Judge(r) ==
  \/ /\ Return(r)
     /\ UNCHANGED fault
  \/ /\ at[r] = "first"
     /\ Ask(r, 1, "second")
     /\ fault' = TRUE
  \/ /\ Strict
     /\ GiveUp(r)
     /\ fault' = TRUE

\* The answer to a request somebody awaits; a client that was told to stop
\* still listens.
Answer(q) ==
  /\ Pending(q)
  /\ alive[ClientOf(q)]
  /\ \/ /\ at[q] = "initialize"
        /\ at' = [at EXCEPT ![q] = "done"]
        /\ ask' = [ask EXCEPT ![q] = NoAsk]
        /\ UNCHANGED <<uses, pool, held, fault>>
     \/ at[q] = "list" /\ Ask(q, 1, "first") /\ UNCHANGED fault
     \/ at[q] \in {"first", "second"} /\ Judge(q)
     \/ AskAgain(q) /\ fault' = TRUE               \* a JSON-RPC error
  /\ UNCHANGED <<run, alive>>

\* The timer of a request takes it out of the map.  The process may be at it
\* still when it is sent again.
Timeout(q) ==
  /\ Pending(q)
  /\ AskAgain(q)
  /\ fault' = (fault \/ held[ClientOf(q)])
  /\ UNCHANGED <<run, alive>>

\* The process is gone: the client forgets it, stays in the pool, and what is
\* pending is rejected.
Exit(c) ==
  /\ alive[c]
  /\ alive' = [alive EXCEPT ![c] = FALSE]
  /\ held' = [held EXCEPT ![c] = FALSE]
  /\ ask' = [q \in Requesters |->
               IF Pending(q) /\ ClientOf(q) = c THEN [ask[q] EXCEPT !.pending = FALSE] ELSE ask[q]]
  /\ fault' = (fault \/ held[c])
  /\ UNCHANGED <<run, at, uses, pool>>

Rejected(q) ==
  /\ ask[q].attempt > 0 /\ ~Pending(q)
  /\ AskAgain(q)
  /\ UNCHANGED <<run, alive, fault>>

-----------------------------------------------------------------------------
(* The runs.                                                               *)

\* (mutant) the run does not wait for all roles of a batch.
FinalizeAtFirst(s) ==
  /\ run[s] = "working"
  /\ \E r \in RolesOf(s) : at[r] \in {"done", "failed"}
  /\ run' = [run EXCEPT ![s] = "ended"]
  /\ Discard
  /\ UNCHANGED <<at, uses, ask, alive, fault>>

\* A run that comes to its end, or that a failed role blocks, which does not
\* wait for the other role of the batch, empties the pool.
Finalize(s) ==
  /\ run[s] = "working"
  /\ \/ \A r \in RolesOf(s) : ~Active(r)
     \/ \E r \in RolesOf(s) : at[r] = "failed"
  /\ run' = [run EXCEPT ![s] = "ended"]
  /\ Discard
  /\ UNCHANGED <<at, uses, ask, alive, fault>>

\* Any other error leaves runOfflineGraph without a call to the pool.
Throw(s) ==
  /\ run[s] = "working"
  /\ run' = [run EXCEPT ![s] = "thrown"]
  /\ UNCHANGED <<at, uses, ask, pool, held, alive, fault>>

Next ==
  \/ \E s \in Runs : Finalize(s) \/ Throw(s) \/ \E B \in SUBSET RolesOf(s) : Invoke(s, B)
  \/ \E r \in Roles : ListTools(r) \/ Exit(r)
  \/ \E q \in Requesters : Answer(q) \/ Timeout(q) \/ Rejected(q)

Spec == Init /\ [][Next]_vars

\* Node runs the timers it has set and the continuations that are ready.  The
\* agent owes nothing: it may never answer and never exit.
Fairness ==
  /\ \A r \in Roles : WF_vars(ListTools(r))
  /\ \A q \in Requesters : WF_vars(Timeout(q)) /\ WF_vars(Rejected(q))

FairSpec == Spec /\ Fairness

-----------------------------------------------------------------------------
(* Properties.                                                             *)

\* A child process that nobody has told to stop is the one of the client in
\* the pool, and some run still works or has left it behind with an error that
\* is not a workflow block.  However invocations, discards and releases overlap,
\* an agent is neither started twice nor lost sight of
\* (getPooledExternalClient, discardPooledExternalClient, finalizeState).
NoChildAstray ==
  \A c \in Roles : held[c] => pool = c /\ \E s \in Runs : run[s] # "ended"

\* While the agent behaves, an invocation fails only because another run of
\* the same process has come to its end and emptied the pool they share
\* (finalizeState, releaseExternalAgentProcessPool).
FailureHasCause ==
  \A r \in Roles : at[r] = "failed" =>
    fault \/ \E s \in Runs \ {RunOf[r]} : run[s] = "ended"

\* An invocation comes back, with a result or an error, from an agent that
\* never answers and ignores the signal (maxRetries and the timers of send).
InvocationsEnd == \A r \in Roles : (at[r] = "starting") ~> (at[r] \in {"done", "failed"})
==============================================================================
