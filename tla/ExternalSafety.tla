---------------------------- MODULE ExternalSafety ----------------------------
(***************************************************************************)
(* Proofs about ExternalAgents: for every number of runs and roles, every  *)
(* number of retries, no child of the pool is started twice or lost sight  *)
(* of.                                                                     *)
(***************************************************************************)
EXTENDS ExternalAgents, TLAPS

RunStates == {"working", "ended", "thrown"}

TypeOK ==
  /\ run \in [Runs -> RunStates]
  /\ pool \in Roles \union {None}
  /\ held \in [Roles -> BOOLEAN]

\* NoChildAstray is inductive with the types: a client that is discarded is
\* the only one that can have a child, and only a run that works spawns one.
Inv == TypeOK /\ NoChildAstray

\* What a request that is sent, retried, given up or answered does to the pool.
Lets == (UNCHANGED <<pool, held>>) \/ Discard

LEMMA AskLets ==
  ASSUME NEW q, NEW n, NEW what, Ask(q, n, what)
  PROVE  Lets
BY DEF Ask, Send, GiveUp, Lets

LEMMA AskAgainLets ==
  ASSUME NEW q, AskAgain(q)
  PROVE  Lets
<1>1. CASE ask[q].attempt <= MaxRetries
  BY <1>1, AskLets DEF AskAgain
<1>2. CASE ~(ask[q].attempt <= MaxRetries)
  BY <1>2 DEF AskAgain, GiveUp, Lets
<1> QED BY <1>1, <1>2

LEMMA JudgeLets ==
  ASSUME NEW r, Judge(r)
  PROVE  Lets
BY AskLets DEF Judge, Return, GiveUp, Lets

LEMMA AnswerLets ==
  ASSUME NEW q, Answer(q)
  PROVE  Lets
BY AskLets, AskAgainLets, JudgeLets DEF Answer, Lets

\* Nothing but the runs and the spawning of a child can break the invariant:
\* a discard leaves no child held, for only that of the pool was.
LEMMA LetsKeepsInv ==
  ASSUME Inv, Lets, UNCHANGED run
  PROVE  Inv'
<1> USE DEF Inv, TypeOK, NoChildAstray
<1>1. CASE UNCHANGED <<pool, held>>
  BY <1>1
<1>2. CASE Discard
  BY <1>2 DEF Discard
<1> QED BY <1>1, <1>2 DEF Lets

LEMMA SpawnKeepsInv ==
  ASSUME Inv, NEW s \in Runs, NEW B \in SUBSET RolesOf(s), B # {},
         run[s] = "working", Spawn(B)
  PROVE  Inv'
<1> DEFINE c == CHOOSE r \in B : TRUE
<1>1. c \in Roles
  BY DEF RolesOf
<1>2. pool = None /\ pool' = c /\ run' = run /\ held' = [held EXCEPT ![c] = TRUE]
  BY DEF Spawn, Join
<1> HIDE DEF c
<1>3. \A d \in Roles : ~held[d]
  BY <1>2, NoneAssumption DEF Inv, NoChildAstray
<1>4. TypeOK'
  BY <1>1, <1>2 DEF Inv, TypeOK
<1>5. NoChildAstray'
  BY <1>1, <1>2, <1>3 DEF Inv, TypeOK, NoChildAstray
<1> QED BY <1>4, <1>5 DEF Inv

LEMMA InvokeKeepsInv ==
  ASSUME Inv, NEW s \in Runs, NEW B \in SUBSET RolesOf(s), Invoke(s, B)
  PROVE  Inv'
<1>1. CASE Spawn(B)
  BY <1>1, SpawnKeepsInv DEF Invoke
<1>2. CASE Reuse(B)
  BY <1>2, LetsKeepsInv DEF Reuse, Join, Lets
<1>3. CASE Refuse(B)
  BY <1>3, LetsKeepsInv DEF Refuse, Lets
<1> QED BY <1>1, <1>2, <1>3 DEF Invoke

LEMMA FinalizeKeepsInv ==
  ASSUME Inv, NEW s \in Runs, Finalize(s)
  PROVE  Inv'
<1>1. TypeOK'
  BY DEF Inv, TypeOK, RunStates, Finalize, Discard
<1>2. \A c \in Roles : ~held'[c]
  BY DEF Inv, TypeOK, NoChildAstray, Finalize, Discard
<1> QED BY <1>1, <1>2 DEF Inv, NoChildAstray

\* A run that throws is one that has not ended well, whoever holds a child.
LEMMA ThrowKeepsInv ==
  ASSUME Inv, NEW s \in Runs, Throw(s)
  PROVE  Inv'
<1>1. TypeOK'
  BY DEF Inv, TypeOK, RunStates, Throw
<1>2. run'[s] = "thrown" /\ UNCHANGED <<pool, held>>
  BY DEF Inv, TypeOK, Throw
<1> QED BY <1>1, <1>2 DEF Inv, NoChildAstray

LEMMA ExitKeepsInv ==
  ASSUME Inv, NEW c \in Roles, Exit(c)
  PROVE  Inv'
BY DEF Inv, TypeOK, NoChildAstray, Exit

LEMMA InitInv == Init => Inv
BY DEF Init, Inv, TypeOK, RunStates, NoChildAstray

LEMMA NextInv == Inv /\ [Next]_vars => Inv'
<1> SUFFICES ASSUME Inv, [Next]_vars PROVE Inv'
  OBVIOUS
<1>1. CASE \E s \in Runs : Finalize(s)
  BY <1>1, FinalizeKeepsInv
<1>2. CASE \E s \in Runs : Throw(s)
  BY <1>2, ThrowKeepsInv
<1>3. CASE \E s \in Runs : \E B \in SUBSET RolesOf(s) : Invoke(s, B)
  BY <1>3, InvokeKeepsInv
<1>4. CASE \E r \in Roles : ListTools(r)
  BY <1>4, AskLets, LetsKeepsInv DEF ListTools
<1>5. CASE \E r \in Roles : Exit(r)
  BY <1>5, ExitKeepsInv
<1>6. CASE \E q \in Requesters : Timeout(q)
  BY <1>6, AskAgainLets, LetsKeepsInv DEF Timeout
<1>7. CASE \E q \in Requesters : Rejected(q)
  BY <1>7, AskAgainLets, LetsKeepsInv DEF Rejected
<1>8. CASE \E q \in Requesters : Answer(q)
  <2>1. PICK q \in Requesters : Answer(q)
    BY <1>8
  <2>2. UNCHANGED run
    BY <2>1 DEF Answer
  <2> QED BY <2>1, <2>2, AnswerLets, LetsKeepsInv
<1>9. CASE UNCHANGED vars
  BY <1>9, LetsKeepsInv DEF vars, Lets
<1> QED BY <1>1, <1>2, <1>3, <1>4, <1>5, <1>6, <1>7, <1>8, <1>9 DEF Next

\* A child process nobody has told to stop is that of the pool, and some run
\* works or has left it behind, for any runs, roles and bounds.
THEOREM ChildrenAccountedFor == Spec => []NoChildAstray
<1>1. Inv => NoChildAstray
  BY DEF Inv
<1> QED BY InitInv, NextInv, <1>1, PTL DEF Spec

-----------------------------------------------------------------------------
(* Why an invocation fails.  A client loses its child when the agent does   *)
(* something wrong, when a run ends, or when another invocation has failed; *)
(* the induction follows the last case back to one of the first two.        *)

Asking == {"list", "first", "second"}
Places == {"idle", "starting", "done", "failed"} \union Asking

Asks == [attempt : Nat, pending : BOOLEAN]

\* Another run has ended.
Excuse(s) == \E t \in Runs \ {s} : run[t] = "ended"

Typed ==
  /\ run \in [Runs -> RunStates]
  /\ at \in [Requesters -> Places \union {"initialize"}]
  /\ \A r \in Roles : at[r] \in Places
  /\ uses \in [Roles -> Roles \union {None}]
  /\ ask \in [Requesters -> Asks]
  /\ pool \in Roles \union {None}
  /\ held \in [Roles -> BOOLEAN]
  /\ fault \in BOOLEAN

\* The start of a client asks for one thing.
StartInv ==
  \A q \in Requesters \ Roles :
    /\ at[q] \in {"idle", "initialize", "done"}
    /\ Pending(q) \/ ask[q].attempt > 0 => at[q] = "initialize"

RequestInv ==
  /\ pool # None => at[pool] # "idle"
  \* Only an invocation that goes on asks, of a client that was made before.
  /\ \A r \in Roles : Pending(r) \/ ask[r].attempt > 0 => at[r] \in Asking
  /\ \A r \in Roles : Active(r) => uses[r] \in Roles /\ at[uses[r]] # "idle"
  \* What was rejected was asked of a client that has no child any more.
  /\ \A r \in Roles : ask[r].attempt > 0 /\ ~Pending(r) => ~held[uses[r]]

ExcuseInv ==
  /\ pool # None => held[pool]
  /\ \A r \in Roles : Active(r) => held[uses[r]] \/ Excuse(RunOf[r])
  /\ \A r \in Roles : at[r] = "failed" => Excuse(RunOf[r])
  /\ \A r \in Roles : run[RunOf[r]] = "ended" /\ Active(r) => Excuse(RunOf[r])

CauseInv == Typed /\ StartInv /\ RequestInv /\ (~fault => ExcuseInv)

LEMMA Apart ==
  Roles \subseteq Requesters /\ \A c \in Roles : Start(c) \in Requesters \ Roles
BY StartAssumption DEF Requesters

LEMMA InitCause == Init => CauseInv
<1> SUFFICES ASSUME Init PROVE CauseInv
  OBVIOUS
<1>1. NoAsk \in Asks /\ NoAsk.attempt = 0 /\ NoAsk.pending = FALSE
  BY DEF NoAsk, Asks
<1>2. \A r \in Roles : at[r] = "idle" /\ ask[r] = NoAsk
  BY Apart DEF Init
<1>3. Typed
  BY <1>1, <1>2 DEF Init, Typed, Places, RunStates
<1>4. RequestInv
  BY <1>1, <1>2 DEF Init, RequestInv, Pending, Active
<1>5. ExcuseInv
  BY <1>2 DEF Init, ExcuseInv, Active
<1>6. StartInv
  BY <1>1 DEF Init, StartInv, Pending
<1> QED BY <1>3, <1>4, <1>5, <1>6 DEF CauseInv

\* A run that has ended stays an excuse.
LEMMA ExcuseStays ==
  ASSUME UNCHANGED run
  PROVE  \A s : Excuse(s)' <=> Excuse(s)
BY DEF Excuse

\* A request that is sent, for the first time or again.
LEMMA SendKeepsCause ==
  ASSUME CauseInv, NEW q \in Requesters, NEW n \in Nat \ {0},
         NEW what \in Asking \union {"initialize"},
         IF q \in Roles THEN what \in Asking /\ Active(q) ELSE what = "initialize",
         Send(q, n, what), UNCHANGED run, fault' \in {fault, TRUE}
  PROVE  CauseInv'
<1> DEFINE sent == [attempt |-> n, pending |-> TRUE]
<1>1. /\ UNCHANGED <<uses, pool, held, run>>
      /\ ask' = [ask EXCEPT ![q] = sent]
      /\ at' = [at EXCEPT ![q] = what]
  BY DEF Send
<1>2. sent \in Asks /\ sent.attempt > 0 /\ sent.pending
  BY DEF Asks
<1> HIDE DEF sent
<1>3. /\ \A r \in Roles : r # q => at'[r] = at[r] /\ ask'[r] = ask[r]
      /\ at'[q] = what /\ ask'[q] = sent
  BY <1>1, Apart DEF CauseInv, Typed
<1>4. Typed'
  BY <1>1, <1>2, <1>3 DEF CauseInv, Typed, Places
<1>5. \A r \in Roles : Active(r)' => Active(r)
  BY <1>3 DEF Active
<1>6. RequestInv'
  <2>1. \A r \in Roles : Pending(r)' \/ ask'[r].attempt > 0 => at'[r] \in Asking
    BY <1>3 DEF CauseInv, RequestInv, Pending
  <2>2. \A r \in Roles : Active(r)' => uses'[r] \in Roles /\ at'[uses'[r]] # "idle"
    BY <1>1, <1>3, <1>5 DEF CauseInv, RequestInv, Asking
  <2>3. \A r \in Roles : ask'[r].attempt > 0 /\ ~Pending(r)' => ~held'[uses'[r]]
    BY <1>1, <1>2, <1>3 DEF CauseInv, RequestInv, Pending
  <2>9. pool' # None => at'[pool'] # "idle"
    BY <1>1, <1>3 DEF CauseInv, Typed, RequestInv, Asking
  <2> QED BY <2>1, <2>2, <2>3, <2>9 DEF RequestInv
<1>7. ~fault' => ExcuseInv'
  BY <1>1, <1>3, <1>5, ExcuseStays DEF CauseInv, Typed, ExcuseInv, Asking
<1>8. StartInv'
  <2>1. \A p \in Requesters : p # q => at'[p] = at[p] /\ ask'[p] = ask[p]
    BY <1>1 DEF CauseInv, Typed
  <2> QED BY <1>3, <2>1 DEF CauseInv, StartInv, Pending
<1> QED BY <1>4, <1>6, <1>7, <1>8 DEF CauseInv

\* An invocation comes back with a result.
LEMMA ReturnKeepsCause ==
  ASSUME CauseInv, NEW q \in Roles, Return(q), UNCHANGED <<run, fault>>
  PROVE  CauseInv'
<1>1. NoAsk \in Asks /\ NoAsk.attempt = 0 /\ NoAsk.pending = FALSE
  BY DEF NoAsk, Asks
<1>2. /\ \A r \in Roles : r # q => at'[r] = at[r] /\ ask'[r] = ask[r] /\ uses'[r] = uses[r]
      /\ at'[q] = "done" /\ ask'[q] = NoAsk
      /\ UNCHANGED <<pool, held>>
  BY Apart DEF Return, CauseInv, Typed
<1>3. Typed'
  BY <1>1, <1>2, Apart DEF Return, CauseInv, Typed, Places
<1>4. \A r \in Roles : Active(r)' => Active(r) /\ r # q
  BY <1>2 DEF Active
<1>5. RequestInv'
  BY <1>1, <1>2, <1>4 DEF CauseInv, Typed, RequestInv, Pending
<1>6. ~fault' => ExcuseInv'
  BY <1>2, <1>4, ExcuseStays DEF CauseInv, ExcuseInv
<1>7. StartInv'
  <2>1. \A p \in Requesters \ Roles : at'[p] = at[p] /\ ask'[p] = ask[p]
    BY DEF Return, CauseInv, Typed
  <2> QED BY <2>1 DEF CauseInv, StartInv, Pending
<1> QED BY <1>3, <1>5, <1>6, <1>7 DEF CauseInv

\* A request is given up: with the client goes the child, and whoever used it
\* has the excuse of the invocation that failed, or belongs to the run that is
\* this excuse and has one itself.
LEMMA GiveUpKeepsCause ==
  ASSUME CauseInv, NEW q \in Requesters, GiveUp(q), UNCHANGED run,
         fault' \in {fault, TRUE},
         q \in Roles => Active(q) /\ (fault' \/ Excuse(RunOf[q]))
  PROVE  CauseInv'
<1>1. NoAsk \in Asks /\ NoAsk.attempt = 0 /\ NoAsk.pending = FALSE
  BY DEF NoAsk, Asks
<1>2. CASE q \in Roles
  <2>1. /\ \A r \in Roles : r # q => at'[r] = at[r] /\ ask'[r] = ask[r] /\ uses'[r] = uses[r]
        /\ at'[q] = "failed" /\ ask'[q] = NoAsk
        /\ pool' = None /\ held' = [c \in Roles |-> held[c] /\ c # pool]
    BY <1>2, Apart DEF GiveUp, Discard, CauseInv, Typed
  <2>2. Typed'
    BY <1>1, <1>2, <2>1, Apart DEF GiveUp, CauseInv, Typed, Places
  <2>3. \A r \in Roles : Active(r)' => Active(r) /\ r # q
    BY <2>1 DEF Active
  <2>4. \A c \in Roles : held'[c] => held[c]
    BY <2>1 DEF CauseInv, Typed
  <2>5. RequestInv'
    <3>1. \A r \in Roles : ask'[r].attempt > 0 \/ Pending(r)' => r # q
      BY <1>1, <2>1 DEF Pending
    <3>2. \A r \in Roles : Active(r)' => uses'[r] \in Roles /\ at'[uses'[r]] # "idle"
      BY <2>1, <2>3 DEF CauseInv, RequestInv
    <3>3. \A r \in Roles : ask'[r].attempt > 0 => Active(r)
      BY <2>1, <3>1 DEF CauseInv, RequestInv, Active, Asking
    <3> QED BY <2>1, <2>4, <3>1, <3>2, <3>3 DEF CauseInv, RequestInv, Pending
  <2>6. ASSUME ~fault' PROVE ExcuseInv'
    <3>1. ExcuseInv /\ Excuse(RunOf[q])
      BY <1>2, <2>6 DEF CauseInv, Typed
    <3>2. \A r \in Roles : Active(r) => Excuse(RunOf[r])
      BY <1>2, <3>1, RunOfAssumption DEF ExcuseInv, Excuse
    <3> QED BY <1>2, <2>1, <2>3, <3>1, <3>2, ExcuseStays DEF ExcuseInv
  <2>7. StartInv'
    <3>1. \A p \in Requesters \ Roles : at'[p] = at[p] /\ ask'[p] = ask[p]
      BY <1>2 DEF GiveUp, CauseInv, Typed
    <3> QED BY <3>1 DEF CauseInv, StartInv, Pending
  <2> QED BY <2>2, <2>5, <2>6, <2>7 DEF CauseInv
<1>3. CASE q \notin Roles
  <2>1. /\ \A r \in Roles : at'[r] = at[r] /\ ask'[r] = ask[r]
        /\ UNCHANGED <<uses, pool, held>>
    BY <1>3, Apart DEF GiveUp, CauseInv, Typed
  <2>2. Typed'
    BY <1>1, <1>3, <2>1 DEF GiveUp, CauseInv, Typed, Places
  <2>3. \A r \in Roles : Active(r)' <=> Active(r)
    BY <2>1 DEF Active
  <2>4. RequestInv'
    BY <2>1, <2>3 DEF CauseInv, Typed, RequestInv, Pending
  <2>5. ~fault' => ExcuseInv'
    BY <2>1, <2>3, ExcuseStays DEF CauseInv, Typed, ExcuseInv
  <2>6. StartInv'
    <3>1. /\ \A p \in Requesters \ Roles : p # q => at'[p] = at[p] /\ ask'[p] = ask[p]
          /\ at'[q] = "done" /\ ask'[q] = NoAsk
      BY <1>3 DEF GiveUp, CauseInv, Typed
    <3> QED BY <1>1, <3>1 DEF CauseInv, StartInv, Pending
  <2> QED BY <2>2, <2>4, <2>5, <2>6 DEF CauseInv
<1> QED BY <1>2, <1>3

\* A request that cannot be sent has an excuse, for its client lost its child.
LEMMA AskKeepsCause ==
  ASSUME CauseInv, NEW q \in Requesters, NEW n \in Nat \ {0},
         NEW what \in Asking \union {"initialize"},
         IF q \in Roles THEN what \in Asking /\ Active(q) ELSE what = "initialize",
         Ask(q, n, what), UNCHANGED run, fault' \in {fault, TRUE}
  PROVE  CauseInv'
<1>1. CASE held[ClientOf(q)]
  BY <1>1, SendKeepsCause DEF Ask
<1>2. CASE ~held[ClientOf(q)]
  <2>1. GiveUp(q)
    BY <1>2 DEF Ask
  <2>2. q \in Roles => fault' \/ Excuse(RunOf[q])
    BY <1>2 DEF CauseInv, Typed, ExcuseInv, ClientOf
  <2> QED BY <2>1, <2>2, GiveUpKeepsCause
<1> QED BY <1>1, <1>2

LEMMA AskAgainKeepsCause ==
  ASSUME CauseInv, NEW q \in Requesters, AskAgain(q),
         IF q \in Roles THEN at[q] \in Asking /\ (fault' \/ Excuse(RunOf[q]))
         ELSE at[q] = "initialize",
         UNCHANGED run, fault' \in {fault, TRUE}
  PROVE  CauseInv'
<1>1. ask[q].attempt + 1 \in Nat \ {0}
  BY DEF CauseInv, Typed, Asks
<1>2. q \in Roles => Active(q)
  BY DEF Active, Asking
<1>3. CASE ask[q].attempt <= MaxRetries
  <2> DEFINE n == ask[q].attempt + 1
             what == at[q]
  <2>1. Ask(q, n, what)
    BY <1>3 DEF AskAgain
  <2>2. /\ n \in Nat \ {0} /\ what \in Asking \union {"initialize"}
        /\ IF q \in Roles THEN what \in Asking ELSE what = "initialize"
    BY <1>1
  <2> HIDE DEF n, what
  <2> QED BY <1>2, <2>1, <2>2, AskKeepsCause
<1>4. CASE ~(ask[q].attempt <= MaxRetries)
  BY <1>2, <1>4, GiveUpKeepsCause DEF AskAgain
<1> QED BY <1>3, <1>4

LEMMA ListToolsKeepsCause ==
  ASSUME CauseInv, NEW r \in Roles, ListTools(r)
  PROVE  CauseInv'
<1>1. Active(r) /\ Ask(r, 1, "list") /\ UNCHANGED <<run, fault>>
  BY DEF ListTools, Active
<1> QED BY <1>1, AskKeepsCause, Apart DEF CauseInv, Typed, Asking

LEMMA JudgeKeepsCause ==
  ASSUME CauseInv, NEW q \in Roles, Judge(q), at[q] \in {"first", "second"}, UNCHANGED run
  PROVE  CauseInv'
<1>1. Active(q) /\ q \in Requesters
  BY Apart DEF Active
<1>2. CASE Return(q) /\ UNCHANGED fault
  BY <1>2, ReturnKeepsCause
<1>3. CASE Ask(q, 1, "second") /\ fault' = TRUE
  BY <1>1, <1>3, AskKeepsCause DEF Asking
<1>4. CASE GiveUp(q) /\ fault' = TRUE
  BY <1>1, <1>4, GiveUpKeepsCause
<1> QED BY <1>2, <1>3, <1>4 DEF Judge

LEMMA AnswerKeepsCause ==
  ASSUME CauseInv, NEW q \in Requesters, Answer(q)
  PROVE  CauseInv'
<1>1. UNCHANGED run /\ Pending(q) /\ (q \in Roles => at[q] \in Asking /\ Active(q))
  BY DEF Answer, CauseInv, RequestInv, Active, Asking
<1>2. CASE at[q] = "initialize" /\ at' = [at EXCEPT ![q] = "done"]
           /\ ask' = [ask EXCEPT ![q] = NoAsk] /\ UNCHANGED <<uses, pool, held, fault>>
  <2>1. q \notin Roles
    BY <1>1, <1>2 DEF Asking
  <2>2. GiveUp(q)
    BY <1>2, <2>1 DEF GiveUp
  <2> QED BY <1>1, <1>2, <2>1, <2>2, GiveUpKeepsCause DEF CauseInv, Typed
<1>3. CASE at[q] = "list" /\ Ask(q, 1, "first") /\ UNCHANGED fault
  BY <1>1, <1>3, AskKeepsCause DEF CauseInv, StartInv, Typed, Asking
<1>4. CASE at[q] \in {"first", "second"} /\ Judge(q)
  BY <1>1, <1>4, JudgeKeepsCause DEF CauseInv, StartInv
<1>5. CASE AskAgain(q) /\ fault' = TRUE
  BY <1>1, <1>5, AskAgainKeepsCause DEF CauseInv, StartInv
<1> QED BY <1>2, <1>3, <1>4, <1>5 DEF Answer

LEMMA TimeoutKeepsCause ==
  ASSUME CauseInv, NEW q \in Requesters, Timeout(q)
  PROVE  CauseInv'
<1>1. AskAgain(q) /\ UNCHANGED run /\ Pending(q) /\ fault' = (fault \/ held[ClientOf(q)])
  BY DEF Timeout
<1>2. IF q \in Roles THEN at[q] \in Asking /\ Active(q) ELSE at[q] = "initialize"
  BY <1>1 DEF CauseInv, RequestInv, StartInv, Active, Asking
<1>3. q \in Roles => fault' \/ Excuse(RunOf[q])
  BY <1>1, <1>2 DEF CauseInv, Typed, ExcuseInv, ClientOf
<1>4. fault' \in {fault, TRUE}
  <2>1. fault \in BOOLEAN
    BY DEF CauseInv, Typed
  <2> QED BY <1>1, <2>1
<1> QED BY <1>1, <1>2, <1>3, <1>4, AskAgainKeepsCause

\* The attempts of a rejected request may be used up: its client has no child.
LEMMA RejectedKeepsCause ==
  ASSUME CauseInv, NEW q \in Requesters, Rejected(q)
  PROVE  CauseInv'
<1>1. AskAgain(q) /\ UNCHANGED <<run, fault>> /\ ask[q].attempt > 0 /\ ~Pending(q)
  BY DEF Rejected
<1>2. IF q \in Roles THEN at[q] \in Asking /\ Active(q) ELSE at[q] = "initialize"
  BY <1>1 DEF CauseInv, RequestInv, StartInv, Active, Asking
<1>3. q \in Roles => fault' \/ Excuse(RunOf[q])
  BY <1>1, <1>2 DEF CauseInv, Typed, RequestInv, ExcuseInv
<1> QED BY <1>1, <1>2, <1>3, AskAgainKeepsCause

\* A child that exits unasked is a fault; one that was told to stop is nobody's.
LEMMA ExitKeepsCause ==
  ASSUME CauseInv, NEW c \in Roles, Exit(c)
  PROVE  CauseInv'
<1> DEFINE Cut(q) == IF Pending(q) /\ ClientOf(q) = c
                      THEN [ask[q] EXCEPT !.pending = FALSE] ELSE ask[q]
<1>1. /\ UNCHANGED <<run, at, uses, pool>>
      /\ held' = [held EXCEPT ![c] = FALSE]
      /\ fault' = (fault \/ held[c])
      /\ ask' = [q \in Requesters |-> Cut(q)]
  BY DEF Exit
<1>2. ASSUME NEW q \in Requesters
      PROVE  /\ Cut(q) \in Asks /\ Cut(q).attempt = ask[q].attempt
             /\ Cut(q).pending => ask[q].pending
             /\ ask[q].pending /\ ~Cut(q).pending => ClientOf(q) = c
  <2>1. ask[q] \in Asks
    BY DEF CauseInv, Typed
  <2> QED BY <2>1 DEF Asks, Pending
<1>3. \A q \in Requesters : ask'[q] = Cut(q)
  BY <1>1
<1> HIDE DEF Cut
<1>4. Typed'
  <2>1. ask' \in [Requesters -> Asks]
    BY <1>1, <1>2
  <2>2. fault \in BOOLEAN /\ held[c] \in BOOLEAN
    BY DEF CauseInv, Typed
  <2>3. fault' \in BOOLEAN
    BY <1>1, <2>2
  <2> QED BY <1>1, <2>1, <2>3 DEF CauseInv, Typed
<1>5. \A q \in Requesters :
        /\ Pending(q)' \/ ask'[q].attempt > 0 => Pending(q) \/ ask[q].attempt > 0
        /\ ask'[q].attempt > 0 /\ ~Pending(q)' =>
             ask[q].attempt > 0 /\ (~Pending(q) \/ ClientOf(q) = c)
  BY <1>2, <1>3 DEF Pending
<1>6. StartInv'
  BY <1>1, <1>5 DEF CauseInv, StartInv
<1>7. RequestInv'
  <2>1. \A r \in Roles : Pending(r)' \/ ask'[r].attempt > 0 => at'[r] \in Asking
    BY <1>1, <1>5, Apart DEF CauseInv, RequestInv
  <2>2. \A r \in Roles : Active(r)' => uses'[r] \in Roles /\ at'[uses'[r]] # "idle"
    BY <1>1 DEF CauseInv, RequestInv, Active
  <2>3. ASSUME NEW r \in Roles, ask'[r].attempt > 0, ~Pending(r)'
        PROVE  ~held'[uses'[r]]
    <3>1. ask[r].attempt > 0 /\ (~Pending(r) \/ uses[r] = c)
      BY <1>5, <2>3, Apart DEF ClientOf
    <3>2. uses[r] \in Roles /\ (~held[uses[r]] \/ uses[r] = c)
      BY <3>1 DEF CauseInv, RequestInv, Active, Asking
    <3> QED BY <1>1, <3>2 DEF CauseInv, Typed
  <2>4. pool' # None => at'[pool'] # "idle"
    BY <1>1 DEF CauseInv, RequestInv
  <2> QED BY <2>1, <2>2, <2>3, <2>4 DEF RequestInv
<1>8. ASSUME ~fault' PROVE ExcuseInv'
  <2>1. ~fault /\ ~held[c] /\ ExcuseInv
    BY <1>1, <1>8 DEF CauseInv, Typed
  <2>2. held' = held
    BY <1>1, <2>1 DEF CauseInv, Typed
  <2>3. \A r \in Roles : Active(r)' <=> Active(r)
    BY <1>1 DEF Active
  <2> QED BY <1>1, <2>1, <2>2, <2>3, ExcuseStays DEF ExcuseInv
<1> QED BY <1>4, <1>6, <1>7, <1>8 DEF CauseInv

\* A run that ends is the excuse of every other; its own invocations go on only
\* when one of them has failed, and have the excuse that one has.
LEMMA FinalizeKeepsCause ==
  ASSUME CauseInv, NEW s \in Runs, Finalize(s)
  PROVE  CauseInv'
<1>1. /\ UNCHANGED <<at, uses, ask, fault>>
      /\ run' = [run EXCEPT ![s] = "ended"]
      /\ pool' = None /\ held' = [c \in Roles |-> held[c] /\ c # pool]
  BY DEF Finalize, Discard
<1>2. \A r \in Roles : (Active(r)' <=> Active(r)) /\ (Pending(r)' <=> Pending(r))
  BY <1>1 DEF Active, Pending
<1>3. \A c \in Roles : held'[c] \in BOOLEAN /\ (held'[c] => held[c])
  BY <1>1 DEF CauseInv, Typed
<1>4. Typed'
  BY <1>1, <1>3 DEF CauseInv, Typed, RunStates
<1>5. StartInv'
  BY <1>1 DEF CauseInv, StartInv, Pending
<1>6. RequestInv'
  <2>1. \A r \in Roles : ask[r].attempt > 0 => uses[r] \in Roles
    BY DEF CauseInv, RequestInv, Active, Asking
  <2> QED BY <1>1, <1>2, <1>3, <2>1 DEF CauseInv, RequestInv
<1>7. ASSUME ~fault' PROVE ExcuseInv'
  <2>1. ExcuseInv
    BY <1>1, <1>7 DEF CauseInv
  <2>2. \A t \in Runs : (t # s \/ Excuse(t)) => Excuse(t)'
    BY <1>1 DEF CauseInv, Typed, Excuse
  <2>3. \A r \in Roles : Active(r) => Excuse(RunOf[r])'
    <3> SUFFICES ASSUME NEW r \in Roles, Active(r) PROVE Excuse(RunOf[r])'
      OBVIOUS
    <3>1. CASE RunOf[r] # s
      BY <2>2, <3>1, RunOfAssumption
    <3>2. CASE RunOf[r] = s
      <4>1. PICK p \in RolesOf(s) : at[p] = "failed"
        BY <3>2 DEF Finalize, RolesOf
      <4>2. Excuse(s)
        BY <2>1, <4>1 DEF ExcuseInv, RolesOf
      <4> QED BY <2>2, <3>2, <4>2
    <3> QED BY <3>1, <3>2
  <2>4. \A r \in Roles : at[r] = "failed" => Excuse(RunOf[r])'
    BY <2>1, <2>2, RunOfAssumption DEF ExcuseInv
  <2> QED BY <1>1, <1>2, <2>3, <2>4 DEF ExcuseInv
<1> QED BY <1>4, <1>5, <1>6, <1>7 DEF CauseInv

LEMMA ThrowKeepsCause ==
  ASSUME CauseInv, NEW s \in Runs, Throw(s)
  PROVE  CauseInv'
<1>1. /\ UNCHANGED <<at, uses, ask, pool, held, fault>> /\ run[s] = "working"
      /\ run' = [run EXCEPT ![s] = "thrown"]
  BY DEF Throw
<1>2. \A t \in Runs : (Excuse(t)' <=> Excuse(t)) /\ (run'[t] = "ended" <=> run[t] = "ended")
  BY <1>1 DEF CauseInv, Typed, Excuse
<1>3. Typed'
  BY <1>1 DEF CauseInv, Typed, RunStates
<1>4. StartInv' /\ RequestInv'
  BY <1>1 DEF CauseInv, StartInv, RequestInv, Pending, Active
<1>5. ~fault' => ExcuseInv'
  BY <1>1, <1>2, RunOfAssumption DEF CauseInv, ExcuseInv, Active
<1> QED BY <1>3, <1>4, <1>5 DEF CauseInv

\* What the roles of a batch were before it.
LEMMA BatchIdle ==
  ASSUME CauseInv, NEW s \in Runs, NEW B \in SUBSET RolesOf(s), Invoke(s, B)
  PROVE  /\ run[s] = "working" /\ B # {} /\ B \subseteq Roles
         /\ \A r \in B : /\ RunOf[r] = s /\ at[r] = "idle"
                         /\ ~Pending(r) /\ ~(ask[r].attempt > 0)
BY DEF Invoke, RolesOf, CauseInv, RequestInv, Asking

LEMMA SpawnKeepsCause ==
  ASSUME CauseInv, NEW s \in Runs, NEW B \in SUBSET RolesOf(s), Invoke(s, B), Spawn(B)
  PROVE  CauseInv'
<1> DEFINE c == CHOOSE r \in B : TRUE
           started == [attempt |-> 1, pending |-> TRUE]
<1>1. /\ c \in B /\ c \in Roles /\ Start(c) \in Requesters \ Roles
      /\ started \in Asks /\ started.pending
  BY BatchIdle, Apart DEF Asks
<1>2. /\ UNCHANGED <<run, fault>> /\ pool' = c
      /\ uses' = [r \in Roles |-> IF r \in B THEN c ELSE uses[r]]
      /\ held' = [held EXCEPT ![c] = TRUE]
      /\ ask' = [ask EXCEPT ![Start(c)] = started]
      /\ at' = [q \in Requesters |-> IF q \in B THEN "starting"
                                     ELSE IF q = Start(c) THEN "initialize" ELSE at[q]]
  BY DEF Spawn, Join
<1> HIDE DEF c, started
<1>3. \A r \in Roles : /\ at'[r] = IF r \in B THEN "starting" ELSE at[r]
                       /\ uses'[r] = IF r \in B THEN c ELSE uses[r]
                       /\ ask'[r] = ask[r]
                       /\ held'[r] <=> held[r] \/ r = c
  BY <1>1, <1>2, Apart DEF CauseInv, Typed
<1>4. \A q \in Requesters \ Roles :
        IF q = Start(c) THEN at'[q] = "initialize"
        ELSE at'[q] = at[q] /\ ask'[q] = ask[q]
  BY <1>1, <1>2, BatchIdle DEF CauseInv, Typed
<1>5. Typed'
  <2>1. \A q \in Requesters : at'[q] \in Places \union {"initialize"}
    BY <1>2 DEF CauseInv, Typed, Places
  <2>2. at' = [q \in Requesters |-> at'[q]]
    BY <1>2
  <2>3. \A r \in Roles : at'[r] \in Places
    BY <1>3 DEF CauseInv, Typed, Places
  <2> QED BY <1>1, <1>2, <2>1, <2>2, <2>3 DEF CauseInv, Typed
<1>6. StartInv'
  BY <1>4 DEF CauseInv, StartInv, Pending
<1>7. \A r \in Roles : Active(r)' <=> r \in B \/ Active(r)
  BY <1>3 DEF Active
<1>8. RequestInv'
  <2>1. \A r \in Roles : Pending(r)' \/ ask'[r].attempt > 0 => at'[r] \in Asking
    BY <1>3, BatchIdle DEF CauseInv, RequestInv, Pending
  <2>2. \A r \in Roles : Active(r)' => uses'[r] \in Roles /\ at'[uses'[r]] # "idle"
    BY <1>1, <1>3, <1>7 DEF CauseInv, RequestInv
  <2>3. ASSUME NEW r \in Roles, ask'[r].attempt > 0, ~Pending(r)'
        PROVE  ~held'[uses'[r]]
    <3>1. r \notin B /\ ask[r].attempt > 0 /\ ~Pending(r)
      BY <1>3, <2>3, BatchIdle DEF Pending
    <3>2. uses[r] \in Roles /\ at[uses[r]] # "idle" /\ ~held[uses[r]]
      BY <3>1 DEF CauseInv, RequestInv, Active, Asking
    <3>3. uses[r] # c
      BY <1>1, <3>2, BatchIdle
    <3> QED BY <1>3, <3>1, <3>2, <3>3
  <2>4. pool' # None => at'[pool'] # "idle"
    BY <1>1, <1>2, <1>3
  <2> QED BY <2>1, <2>2, <2>3, <2>4 DEF RequestInv
<1>9. ASSUME ~fault' PROVE ExcuseInv'
  <2>1. ExcuseInv
    BY <1>2, <1>9 DEF CauseInv
  <2>2. held'[c]
    BY <1>1, <1>3
  <2>3. \A r \in Roles : Active(r)' => held'[uses'[r]] \/ Excuse(RunOf[r])
    BY <1>3, <1>7, <2>1, <2>2 DEF ExcuseInv, CauseInv, RequestInv
  <2>4. \A r \in Roles : run[RunOf[r]] = "ended" /\ Active(r)' => Excuse(RunOf[r])
    BY <1>7, <2>1, BatchIdle DEF ExcuseInv
  <2> QED BY <1>2, <1>3, <2>1, <2>2, <2>3, <2>4, ExcuseStays DEF ExcuseInv
<1> QED BY <1>5, <1>6, <1>8, <1>9 DEF CauseInv

\* The client of the pool has a child unless the agent has failed, so that
\* whoever joins it has one as well.
LEMMA ReuseKeepsCause ==
  ASSUME CauseInv, NEW s \in Runs, NEW B \in SUBSET RolesOf(s), Invoke(s, B), Reuse(B)
  PROVE  CauseInv'
<1>1. /\ UNCHANGED <<run, fault, held, ask>> /\ pool' = pool /\ pool \in Roles
      /\ uses' = [r \in Roles |-> IF r \in B THEN pool ELSE uses[r]]
      /\ at' = [q \in Requesters |-> IF q \in B THEN "starting" ELSE at[q]]
  BY DEF Reuse, Join, CauseInv, Typed
<1>2. \A r \in Roles : /\ at'[r] = IF r \in B THEN "starting" ELSE at[r]
                       /\ uses'[r] = IF r \in B THEN pool ELSE uses[r]
  BY <1>1, Apart
<1>3. Typed'
  <2>1. \A q \in Requesters : at'[q] \in Places \union {"initialize"}
    BY <1>1 DEF CauseInv, Typed, Places
  <2>2. at' = [q \in Requesters |-> at'[q]]
    BY <1>1
  <2>3. \A r \in Roles : at'[r] \in Places
    BY <1>2 DEF CauseInv, Typed, Places
  <2> QED BY <1>1, <2>1, <2>2, <2>3 DEF CauseInv, Typed
<1>4. StartInv'
  BY <1>1, BatchIdle DEF CauseInv, StartInv, Pending
<1>5. \A r \in Roles : Active(r)' <=> r \in B \/ Active(r)
  BY <1>2 DEF Active
<1>6. RequestInv'
  <2>1. \A r \in Roles : Pending(r)' \/ ask'[r].attempt > 0 => at'[r] \in Asking
    BY <1>1, <1>2, BatchIdle DEF CauseInv, RequestInv, Pending
  <2>2. at[pool] # "idle"
    BY <1>1, NoneAssumption DEF CauseInv, RequestInv
  <2>3. \A r \in Roles : Active(r)' => uses'[r] \in Roles /\ at'[uses'[r]] # "idle"
    BY <1>1, <1>2, <1>5, <2>2 DEF CauseInv, RequestInv
  <2>4. \A r \in Roles : ask'[r].attempt > 0 /\ ~Pending(r)' => ~held'[uses'[r]]
    BY <1>1, <1>2, BatchIdle DEF CauseInv, RequestInv, Pending
  <2>5. pool' # None => at'[pool'] # "idle"
    BY <1>1, <1>2, <2>2
  <2> QED BY <2>1, <2>3, <2>4, <2>5 DEF RequestInv
<1>7. ASSUME ~fault' PROVE ExcuseInv'
  <2>1. ExcuseInv /\ held[pool]
    BY <1>1, <1>7, NoneAssumption DEF CauseInv, ExcuseInv
  <2>2. \A r \in Roles : Active(r)' => held'[uses'[r]] \/ Excuse(RunOf[r])
    BY <1>1, <1>2, <1>5, <2>1 DEF ExcuseInv
  <2>3. \A r \in Roles : run[RunOf[r]] = "ended" /\ Active(r)' => Excuse(RunOf[r])
    BY <1>5, <2>1, BatchIdle DEF ExcuseInv
  <2> QED BY <1>1, <1>2, <2>1, <2>2, <2>3, ExcuseStays DEF ExcuseInv
<1> QED BY <1>3, <1>4, <1>6, <1>7 DEF CauseInv

LEMMA RefuseKeepsCause ==
  ASSUME CauseInv, NEW s \in Runs, NEW B \in SUBSET RolesOf(s), Invoke(s, B), Refuse(B)
  PROVE  CauseInv'
<1>1. /\ UNCHANGED <<run, uses, ask, pool, held>> /\ fault' = TRUE
      /\ at' = [q \in Requesters |-> IF q \in B THEN "failed" ELSE at[q]]
  BY DEF Refuse
<1>2. \A r \in Roles : at'[r] = IF r \in B THEN "failed" ELSE at[r]
  BY <1>1, Apart
<1>3. Typed'
  <2>1. \A q \in Requesters : at'[q] \in Places \union {"initialize"}
    BY <1>1 DEF CauseInv, Typed, Places
  <2>2. at' = [q \in Requesters |-> at'[q]]
    BY <1>1
  <2>3. \A r \in Roles : at'[r] \in Places
    BY <1>2 DEF CauseInv, Typed, Places
  <2> QED BY <1>1, <2>1, <2>2, <2>3 DEF CauseInv, Typed
<1>4. StartInv'
  BY <1>1, BatchIdle DEF CauseInv, StartInv, Pending
<1>5. \A r \in Roles : Active(r)' => Active(r) /\ r \notin B
  BY <1>2 DEF Active
<1>6. RequestInv'
  <2>1. \A r \in Roles : Pending(r)' \/ ask'[r].attempt > 0 => at'[r] \in Asking
    BY <1>1, <1>2, BatchIdle DEF CauseInv, RequestInv, Pending
  <2>2. \A r \in Roles : Active(r)' => uses'[r] \in Roles /\ at'[uses'[r]] # "idle"
    BY <1>1, <1>2, <1>5 DEF CauseInv, RequestInv
  <2>3. \A r \in Roles : ask'[r].attempt > 0 /\ ~Pending(r)' => ~held'[uses'[r]]
    BY <1>1 DEF CauseInv, RequestInv, Pending
  <2>4. pool' # None => at'[pool'] # "idle"
    BY <1>1, <1>2 DEF CauseInv, Typed, RequestInv
  <2> QED BY <2>1, <2>2, <2>3, <2>4 DEF RequestInv
<1> QED BY <1>1, <1>3, <1>4, <1>6 DEF CauseInv

LEMMA NextCause == CauseInv /\ [Next]_vars => CauseInv'
<1> SUFFICES ASSUME CauseInv, [Next]_vars PROVE CauseInv'
  OBVIOUS
<1>1. CASE \E s \in Runs : Finalize(s)
  BY <1>1, FinalizeKeepsCause
<1>2. CASE \E s \in Runs : Throw(s)
  BY <1>2, ThrowKeepsCause
<1>3. CASE \E s \in Runs : \E B \in SUBSET RolesOf(s) : Invoke(s, B)
  BY <1>3, SpawnKeepsCause, ReuseKeepsCause, RefuseKeepsCause DEF Invoke
<1>4. CASE \E r \in Roles : ListTools(r)
  BY <1>4, ListToolsKeepsCause
<1>5. CASE \E r \in Roles : Exit(r)
  BY <1>5, ExitKeepsCause
<1>6. CASE \E q \in Requesters : Timeout(q)
  BY <1>6, TimeoutKeepsCause
<1>7. CASE \E q \in Requesters : Rejected(q)
  BY <1>7, RejectedKeepsCause
<1>8. CASE \E q \in Requesters : Answer(q)
  BY <1>8, AnswerKeepsCause
<1>9. CASE UNCHANGED vars
  BY <1>9 DEF vars, CauseInv, Typed, StartInv, RequestInv, ExcuseInv, Excuse,
              Pending, Active
<1> QED BY <1>1, <1>2, <1>3, <1>4, <1>5, <1>6, <1>7, <1>8, <1>9 DEF Next

\* An invocation that fails while the agent behaves was interrupted by the end
\* of another run of the process, for any runs, roles and number of retries.
THEOREM FailuresHaveCause == Spec => []FailureHasCause
<1>1. CauseInv => FailureHasCause
  BY DEF CauseInv, ExcuseInv, Excuse, FailureHasCause
<1> QED BY InitCause, NextCause, <1>1, PTL DEF Spec
==============================================================================
