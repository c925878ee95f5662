--------------------------- MODULE LearningStores ---------------------------
(***************************************************************************)
(* What a run leaves behind for later runs: three files every run of a     *)
(* project shares.  Traces and task memory are rewritten under a lock and  *)
(* replaced by a rename (traceStore.ts, taskMemory.ts); the scores of the  *)
(* orchestration policies are rewritten in place, without one              *)
(* (policyStore.ts).                                                       *)
(*                                                                         *)
(* withFileLock (fileLock.ts) is a map in one process from a file to the   *)
(* last promise of a chain.  A ticket is a place in such a chain: ticket n *)
(* waits until ticket n - 1 is given back, a `tail` of 0 is no entry.  A   *)
(* job is one request or command, with the saves it makes in their order.  *)
(* An action is the code from one await of the file system to the next.    *)
(***************************************************************************)
EXTENDS Integers, FiniteSets, Sequences

CONSTANTS
  Jobs, Processes, Policies,
  NoCopy,        \* what a job holds of a file it has not read
  Failures,      \* failure signatures
  Assignments,   \* what the jobs may be, a set of functions from Jobs to Work
  MaxTraces,     \* 1000 in traceStore.ts
  MaxMemory,     \* 10000 in taskMemory.ts
  MaxPolicies    \* 50 in policyStore.ts

Success == "success"   \* the lesson of a run that did not fail
Lessons == Failures \cup {Success}

\* A job `learns` when its failure may be remembered (failure_memory.enabled) or
\* it did not fail: otherwise its session is saved without a lesson.
Work == [kind : {"cli", "cockpit", "approval", "score", "forget", "compact"},
         home : Processes, policy : Policies, lesson : Lessons, learns : BOOLEAN]

ASSUME StoresAssumption ==
  /\ Assignments \subseteq [Jobs -> Work]
  /\ Success \notin Failures
  /\ IsFiniteSet(Jobs)
  /\ MaxTraces \in Nat \ {0} /\ MaxMemory \in Nat \ {0} /\ MaxPolicies \in Nat \ {0}

Locked == {"traces", "memory"}
Files == Locked \cup {"policies"}

VARIABLES
  work,       \* the jobs
  step, pc,   \* the save each job is at, and where in it
  copy,       \* what it has read of the file
  ticket,     \* its place in the chain of a lock, 0: none
  tail,       \* fileLockTails of each process
  contents,   \* the files
  torn,       \* the policy file is not one JSON text
  up,         \* the processes that live
  excused,    \* history: jobs whose copy is not the file, for a reason no lock can help
  lossy       \* history: files that such a copy was written to

vars == <<work, step, pc, copy, ticket, tail, contents, torn, up, excused, lossy>>

Empty == [f \in Files |-> IF f = "memory" THEN {} ELSE <<>>]

Init ==
  /\ work \in Assignments
  /\ step = [j \in Jobs |-> 1]
  /\ pc = [j \in Jobs |-> "ready"]
  /\ copy = [j \in Jobs |-> NoCopy]
  /\ ticket = [j \in Jobs |-> 0]
  /\ tail = [p \in Processes |-> [f \in Locked |-> 0]]
  /\ contents = Empty
  /\ torn = FALSE
  /\ up = Processes
  /\ excused = {}
  /\ lossy = {}

-----------------------------------------------------------------------------
(* The saves of a job.                                                     *)

Learn(w) == IF w.learns THEN <<"memory">> ELSE <<>>

\* The executor saves the trace, then the score; saveSession the lesson; the run
\* command then saves the trace and the score once more.
Saves(w) ==
  CASE w.kind = "cli" -> <<"traces", "policies">> \o Learn(w) \o <<"traces", "policies">>
    [] w.kind = "cockpit" -> <<"traces", "policies">> \o Learn(w)
    [] w.kind = "approval" -> <<"traces">> \o Learn(w)
    [] w.kind = "score" -> <<"policies">>
    [] OTHER -> <<"memory">>

\* persistRunLearning swallows the errors of its two saves.
Swallowed(j) == work[j].kind = "cli" /\ step[j] > Len(Saves(work[j])) - 2

FileOf(j) == Saves(work[j])[step[j]]
Home(j) == work[j].home
AtFile(j, f) == step[j] <= Len(Saves(work[j])) /\ FileOf(j) = f
Neighbours(j) == {i \in Jobs \ {j} : Home(i) = Home(j) /\ AtFile(i, FileOf(j))}

\* rows without the one at a place of K: no trace and no policy has more than one.
Without(rows, K) ==
  IF K = {} THEN rows
  ELSE LET k == CHOOSE i \in K : TRUE
       IN SubSeq(rows, 1, k - 1) \o SubSeq(rows, k + 1, Len(rows))

\* addTrace: a trace saved again becomes the newest.
AddTrace(rows, t) ==
  LET all == Append(Without(rows, {k \in DOMAIN rows : rows[k] = t}), t)
  IN IF Len(all) > MaxTraces THEN Tail(all) ELSE all

\* The memory file is a set of rows, each `by` the saves it counts (recurrenceCount is
\* their number).  Their order is left open: it follows times taken before the lock.
Known(rows, l) == {r \in rows : r.lesson = l}

\* (mutant) the merged row takes its count from the new record.
RememberOnce(rows, l, j) ==
  (rows \ IF l = Success THEN {} ELSE Known(rows, l)) \cup {[lesson |-> l, by |-> {j}]}

\* mergeLearnedMemory: a failure that is known is counted in its row; every success
\* has a row of its own.
Remember(rows, l, j) ==
  LET known == IF l = Success THEN {} ELSE Known(rows, l)
  IN (rows \ known) \cup {[lesson |-> l, by |-> {j} \cup UNION {r.by : r \in known}]}

Forget(rows, gone) == {r \in rows : r.lesson \notin gone}

\* readLearnedTaskMemory keeps no more rows than its limit, the last ones.
Newest(rows) ==
  IF Cardinality(rows) <= MaxMemory THEN {rows}
  ELSE {kept \in SUBSET rows : Cardinality(kept) = MaxMemory}

\* What reading a file as it is may give.
Seen(f) == IF f = "memory" THEN Newest(contents[f]) ELSE {contents[f]}

\* What a save under the lock makes of the rows it has read.  Compaction removes
\* the failures that have expired, whichever they are.
Updated(w, f, rows, j) ==
  CASE f = "traces" -> {AddTrace(rows, j)}
    [] f = "memory" /\ w.kind = "forget" -> {Forget(rows, {w.lesson})}
    [] f = "memory" /\ w.kind = "compact" -> {Forget(rows, gone) : gone \in SUBSET Failures}
    [] OTHER -> {Remember(rows, w.lesson, j)}

\* (mutant) the new score replaces the whole list.
ScoredOnly(rows, w, j) == <<[policy |-> w.policy, by |-> j]>>

\* savePolicyScore: the newest first, one score of each policy.
Scored(rows, w, j) ==
  LET all == <<[policy |-> w.policy, by |-> j]>>
             \o Without(rows, {k \in DOMAIN rows : rows[k].policy = w.policy})
  IN IF Len(all) > MaxPolicies THEN SubSeq(all, 1, MaxPolicies) ELSE all

-----------------------------------------------------------------------------
(* withFileLock.                                                           *)

\* (mutant) the entry goes whoever waits.
DropTail(j) == [tail EXCEPT ![Home(j)][FileOf(j)] = 0]

\* The entry goes only if nobody has queued up behind.
TailAfter(j) ==
  IF tail[Home(j)][FileOf(j)] = ticket[j]
  THEN [tail EXCEPT ![Home(j)][FileOf(j)] = 0] ELSE tail

\* (mutant) the lock is given back only after a save that worked: no finally.
ReleaseOnSuccess(j) ==
  IF FileOf(j) \in Locked /\ pc[j] = "written"
  THEN ticket' = [ticket EXCEPT ![j] = 0] /\ tail' = TailAfter(j)
  ELSE UNCHANGED <<ticket, tail>>

Release(j) ==
  IF FileOf(j) \in Locked
  THEN ticket' = [ticket EXCEPT ![j] = 0] /\ tail' = TailAfter(j)
  ELSE UNCHANGED <<ticket, tail>>

Begin(j) ==
  /\ pc[j] = "ready" /\ Home(j) \in up
  /\ pc' = [pc EXCEPT ![j] = "waiting"]
  /\ IF FileOf(j) \in Locked
     THEN /\ ticket' = [ticket EXCEPT ![j] = tail[Home(j)][FileOf(j)] + 1]
          /\ tail' = [tail EXCEPT ![Home(j)][FileOf(j)] = @ + 1]
     ELSE UNCHANGED <<ticket, tail>>
  /\ UNCHANGED <<work, step, copy, contents, torn, up, excused, lossy>>

MayEnter(j) ==
  FileOf(j) \in Locked /\ ticket[j] # 1
  => \A i \in Neighbours(j) : ticket[i] # ticket[j] - 1

\* The save is over, one way or the other: the next one, or the end of the job.
Go(j, how) ==
  /\ step' = [step EXCEPT ![j] = IF how = "failed" THEN @ ELSE @ + 1]
  /\ pc' = [pc EXCEPT ![j] = IF how = "failed" THEN "failed"
                             ELSE IF step[j] = Len(Saves(work[j])) THEN "done" ELSE "ready"]
  /\ copy' = [copy EXCEPT ![j] = NoCopy]

-----------------------------------------------------------------------------
(* The steps of a save.                                                    *)

Readers(f) == {i \in Jobs : AtFile(i, f) /\ pc[i] \in {"read", "open"}}
Rewriting == \E i \in Jobs : pc[i] = "open"

\* A file that cannot be read counts as empty, whatever the reason.
Read(j) ==
  /\ pc[j] = "waiting" /\ Home(j) \in up /\ MayEnter(j)
  /\ \E rows \in Seen(FileOf(j)) \cup {Empty[FileOf(j)]} :
       IF work[j].kind = "forget" /\ Known(rows, work[j].lesson) = {}
       THEN Release(j) /\ Go(j, "nothing to do") /\ UNCHANGED excused
       ELSE /\ copy' = [copy EXCEPT ![j] = rows]
            /\ pc' = [pc EXCEPT ![j] = "read"]
            /\ excused' = IF \/ rows \notin Seen(FileOf(j))
                             \/ FileOf(j) = "policies" /\ Rewriting
                          THEN excused \cup {j} ELSE excused
            /\ UNCHANGED <<step, ticket, tail>>
  /\ UNCHANGED <<work, contents, torn, up, lossy>>

\* writeFileAtomic up to its rename.
Write(j) ==
  LET f == FileOf(j) IN
  /\ pc[j] = "read" /\ f \in Locked /\ Home(j) \in up
  /\ \E rows \in Updated(work[j], f, copy[j], j) : contents' = [contents EXCEPT ![f] = rows]
  /\ pc' = [pc EXCEPT ![j] = "written"]
  /\ excused' = excused \cup {i \in Readers(f) : Home(i) # Home(j)}
  /\ lossy' = IF j \in excused THEN lossy \cup {f} ELSE lossy
  /\ UNCHANGED <<work, step, copy, ticket, tail, torn, up>>

Return(j) ==
  /\ pc[j] = "written" /\ Home(j) \in up
  /\ Release(j)
  /\ Go(j, "saved")
  /\ excused' = excused \ {j}
  /\ UNCHANGED <<work, contents, torn, up, lossy>>

\* writeFile of the scores: the file is opened, which empties it, and then filled.
Truncate(j) ==
  /\ pc[j] = "read" /\ FileOf(j) = "policies" /\ Home(j) \in up
  /\ contents' = [contents EXCEPT !["policies"] = <<>>]
  /\ torn' = FALSE
  /\ pc' = [pc EXCEPT ![j] = "open"]
  /\ excused' = excused \cup (Readers("policies") \ {j})
  /\ UNCHANGED <<work, step, copy, ticket, tail, up, lossy>>

\* Filling what another has filled since may leave the end of its longer text.
Fill(j) ==
  /\ pc[j] = "open" /\ Home(j) \in up
  /\ torn' \in IF contents["policies"] = <<>> /\ ~torn THEN {FALSE} ELSE BOOLEAN
  /\ contents' = [contents EXCEPT !["policies"] =
                    IF torn' THEN <<>> ELSE Scored(copy[j], work[j], j)]
  /\ Go(j, "saved")
  /\ excused' = (excused \cup Readers("policies")) \ {j}
  /\ lossy' = IF j \in excused THEN lossy \cup {"policies"} ELSE lossy
  /\ UNCHANGED <<work, ticket, tail, up>>

\* A directory, a temporary file, a write, a rename or a sync fails; after the rename
\* the new file is there all the same.
Fail(j) ==
  /\ pc[j] \in {"read", "open", "written"} /\ Home(j) \in up
  /\ Release(j)
  /\ Go(j, IF Swallowed(j) THEN "swallowed" ELSE "failed")
  /\ excused' = excused \ {j}
  /\ lossy' = IF pc[j] = "open" THEN lossy \cup {"policies"} ELSE lossy
  /\ UNCHANGED <<work, contents, torn, up>>

Over(j) == pc[j] \in {"done", "failed", "dead"}

Crash(p) ==
  LET dying == {j \in Jobs : Home(j) = p /\ ~Over(j)} IN
  /\ p \in up /\ dying # {}
  /\ up' = up \ {p}
  /\ pc' = [j \in Jobs |-> IF j \in dying THEN "dead" ELSE pc[j]]
  /\ copy' = [j \in Jobs |-> IF j \in dying THEN NoCopy ELSE copy[j]]
  /\ ticket' = [j \in Jobs |-> IF Home(j) = p THEN 0 ELSE ticket[j]]
  /\ tail' = [tail EXCEPT ![p] = [f \in Locked |-> 0]]
  /\ excused' = excused \ dying
  /\ lossy' = IF \E j \in dying : pc[j] = "open" THEN lossy \cup {"policies"} ELSE lossy
  /\ UNCHANGED <<work, step, contents, torn>>

Proceed(j) == Read(j) \/ Write(j) \/ Return(j) \/ Truncate(j) \/ Fill(j) \/ Fail(j)

Next == \/ \E j \in Jobs : Begin(j) \/ Proceed(j)
        \/ \E p \in Processes : Crash(p)

Spec == Init /\ [][Next]_vars

\* Every await is one of the file system; a job that has begun goes on.
FairSpec == Spec /\ \A j \in Jobs : WF_vars((step[j] > 1 /\ Begin(j)) \/ Proceed(j))

-----------------------------------------------------------------------------
(* Properties.                                                             *)

TypeOK ==
  /\ work \in [Jobs -> Work]
  /\ step \in [Jobs -> Nat \ {0}]
  /\ pc \in [Jobs -> {"ready", "waiting", "read", "open", "written", "done", "failed", "dead"}]
  /\ ticket \in [Jobs -> Nat]
  /\ tail \in [Processes -> [Locked -> Nat]]
  /\ torn \in BOOLEAN
  /\ up \subseteq Processes
  /\ excused \subseteq Jobs
  /\ lossy \subseteq Files

\* A locked file changes only by an update of what a read of it gives at that moment:
\* nothing saved in between is lost.  The exceptions are another process that wrote
\* since, and a file that could not be read.
UpdatesAreAtomic ==
  [][\A f \in Locked :
       contents'[f] # contents[f] =>
         \E j \in Jobs : /\ AtFile(j, f) /\ pc[j] = "read"
                         /\ \/ \E rows \in Seen(f) : contents'[f] \in Updated(work[j], f, rows, j)
                            \/ j \in excused]_vars

\* Saves whose failure the job would have reported.
Reported(j) == IF work[j].kind = "cli" THEN Len(Saves(work[j])) - 2 ELSE Len(Saves(work[j]))
Acknowledged(j, f) == \E k \in 1 .. Reported(j) : k < step[j] /\ Saves(work[j])[k] = f

Learner(j) == work[j].kind \notin {"forget", "compact"}

\* The save of the lesson has got to its rename, or was cut short before.
Reached(j) ==
  \E k \in 1 .. Len(Saves(work[j])) :
    /\ Saves(work[j])[k] = "memory"
    /\ k < step[j] \/ (k = step[j] /\ pc[j] \in {"written", "failed", "dead"})

\* Those whose lesson may have a row of its own beside the row of j's.
Rivals(j) ==
  {i \in Jobs \ {j} : /\ Learner(i) /\ Reached(i)
                      /\ work[i].lesson # work[j].lesson \/ work[i].lesson = Success}

Forgetting == \E j \in Jobs : /\ work[j].kind \in {"forget", "compact"}
                              /\ pc[j] = "written" \/ step[j] > 1 \/ pc[j] \in {"failed", "dead"}

\* A trace whose save returned is in the file or pushed out by newer ones.  A lesson
\* whose save returned is counted in a row of the file, unless so many others were
\* saved that the file has reached the limit its readers know.
AcknowledgedIsStored ==
  /\ "traces" \notin lossy =>
       \A j \in Jobs : Acknowledged(j, "traces") =>
         \/ \E k \in DOMAIN contents["traces"] : contents["traces"][k] = j
         \/ Len(contents["traces"]) = MaxTraces
  /\ "memory" \notin lossy /\ ~Forgetting =>
       \A j \in Jobs : Learner(j) /\ Acknowledged(j, "memory") =>
         \/ \E r \in contents["memory"] : r.lesson = work[j].lesson /\ j \in r.by
         \/ Cardinality(Rivals(j)) >= MaxMemory

\* A policy whose score was saved keeps a score, or is pushed out by newer ones: unless
\* two saves overlapped, one was cut short, or a read failed.
ScoresKeptWhenAlone ==
  "policies" \notin lossy /\ ~Rewriting =>
    \A j \in Jobs : Acknowledged(j, "policies") =>
      \/ \E k \in DOMAIN contents["policies"] : contents["policies"][k].policy = work[j].policy
      \/ Len(contents["policies"]) = MaxPolicies

\* A job that has begun comes to an end, whatever fails and whoever dies.
SavesEnd == \A j \in Jobs : (pc[j] = "waiting" \/ step[j] > 1) ~> Over(j)
=============================================================================
