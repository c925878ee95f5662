---------------------------- MODULE CockpitSession ----------------------------
(***************************************************************************)
(* The sessions on disk and the requests that read and write them: the     *)
(* cockpit server (src/localCockpit/server.ts), the MCP bridge         *)
(* (src/mcp/bridge.ts), the session store (sessionMemory.ts) and the   *)
(* patch and undo tools an approval runs (core/patch).                     *)
(*                                                                         *)
(* A request is asynchronous: between two awaits any other request may     *)
(* run.  It loads the record of a session, computes the next state from    *)
(* that copy and saves the whole of it; nothing locks a session.           *)
(***************************************************************************)
EXTENDS ApprovalRules, FiniteSets

CONSTANTS
  Sessions,      \* session ids
  NoSession,     \* no session: the pointer file is missing
  Absent,        \* no session.json
  Torn,          \* a session.json that does not parse
  NoState,       \* the copy of a request that holds none
  Requests,      \* request ids
  Origin,        \* the artifact the run that made a session left in it
  NewFiles,      \* the files a candidate creates; the others exist
  RequestKinds,  \* the requests of the instance
  StartStates,   \* the states in which a run leaves a session
  NewSession,    \* the state of a workflow the bridge starts
  MaxInFlight,   \* BOUND: requests in progress at one time
  MaxDisturbed,  \* BOUND: requests of a behaviour in which two met or a fault happened
  MaxFaults      \* BOUND: crashes of the process, and requests that throw

BridgeKinds == {"start_workflow", "propose", "review", "judge"}
AllKinds == {"message", "rename", "delete"} \union ApprovalActions \union BridgeKinds

NoFile == "no file"

ASSUME StoreAssumption ==
  /\ NoSession \notin Sessions
  /\ {Absent, Torn, NoState} \cap SessionState = {}
  /\ Absent # Torn
  /\ IsFiniteSet(Files) /\ NoFile \notin Files
  /\ Messages = Requests \union {Origin}
  /\ Origin \notin Requests
  /\ NewFiles \subseteq Files
  /\ RequestKinds \subseteq AllKinds
  /\ StartStates \union {NewSession} \subseteq SessionState
  /\ MaxInFlight \in Nat \ {0}
  /\ MaxDisturbed \in Nat
  /\ MaxFaults \in Nat

\* A run that says "completed" has verified, and a workflow of the bridge begins with no changes.
ASSUME StartAssumption ==
  /\ NewSession.changed = {}
  /\ \A st \in StartStates \union {NewSession} :
       st.summary = "completed" => "passed" \in Range(st.runs)

VARIABLES
  record,   \* session -> session.json: a state, Absent or Torn
  dir,      \* the sessions that have a directory
  store,    \* session -> artifact -> what its file holds
  pointer,  \* latest-session.json
  files,    \* the project files the candidates name
  undo,     \* .tomorrowedge/undo: the snapshots, newest last
  req,      \* request -> its progress and the copy it works on
  faults,   \* BOUND counter
  history   \* what happened, for the properties only: the requests that met another one (overlapped),
            \* the candidates applied and not undone, and the requests that applied one of them again,
            \* that changed the project files (edited), that failed before they recorded it
            \* (unrecorded), whose rollback failed (unrestored), that ended in the middle of a write
            \* or a removal in their session (cut); editors and stacked are explained at Plan

disk == <<record, dir, store, pointer>>
vars == <<record, dir, store, pointer, files, undo, req, faults, history>>

\* A file is as the patch expects it, patched, restored to nothing after it was created, missing,
\* cut short by a write that failed, or patched twice.
Contents == {"original", "patched", "empty", "missing", "partial", "doubled"}
Snapshots == [file : Files, content : Contents]

PCs == {"idle", "planning", "writing", "rolling", "verifying", "undoing", "removing", "computed",
        "torn", "filled", "events", "artifacts", "removed", "repointing", "listing",
        "done", "failed", "lost"}
Finished == {"done", "failed", "lost"}

\* A request that has not begun, or has ended, holds no copy.
Blank(kind, s, pc) ==
  [pc |-> pc, kind |-> kind, sid |-> s, st |-> NoState, todo |-> <<>>, written |-> <<>>,
   next |-> NoSession, base |-> [f \in Files |-> "original"], broken |-> NoFile]

Started == {r \in Requests : req[r].pc # "idle"}
Active(r) == req[r].pc \notin {"idle"} \union Finished
InFlight == {r \in Requests : Active(r)}
Readable(s) == record[s] \notin {Absent, Torn}
Unlistable == {s \in dir : ~Readable(s)}

Init ==
  \E s \in Sessions, st \in StartStates, other \in {Absent, NewSession} :
    /\ record = [x \in Sessions |-> IF x = s THEN st ELSE other]
    /\ dir = {x \in Sessions : record[x] # Absent}
    /\ store = [x \in Sessions |->
                  [m \in Messages |-> IF x = s /\ m \in st.refs THEN "real" ELSE "none"]]
    /\ pointer = s
    /\ files = [f \in Files |-> IF f \in st.changed THEN "patched"
                                ELSE IF f \in NewFiles THEN "missing" ELSE "original"]
    /\ undo \in {SetToSeq({[file |-> f, content |-> IF f \in NewFiles THEN "empty" ELSE "original"]
                           : f \in st.changed})}
    /\ req = [r \in Requests |-> Blank("none", NoSession, "idle")]
    /\ faults = 0
    /\ history = [overlapped |-> {}, applied |-> {}, reapplied |-> {}, edited |-> {},
                  unrecorded |-> {}, unrestored |-> {}, cut |-> {},
                  editors |-> IF st.changed = {} THEN {} ELSE {s}, stacked |-> FALSE]

\* One more fault, within the bounds.
Faulty == Cardinality(Started) <= MaxDisturbed /\ faults < MaxFaults /\ faults' = faults + 1

(* ------------------------ a request loads a session -------------------- *)

FileActions == {"approve_patch", "undo_latest_patch"}

\* The request r on session s begins; whoever works on s at that time, or on the project files as r
\* does, overlaps with it.
Begins(r, s, kind) ==
  LET others == {x \in InFlight : req[x].sid = s \/ {kind, req[x].kind} \subseteq FileActions} IN
  /\ req[r].pc = "idle"
  /\ Cardinality(InFlight) < MaxInFlight
  /\ \/ InFlight = {} /\ history.overlapped = {} /\ faults = 0
     \/ Cardinality(Started) < MaxDisturbed
  /\ history' = [history EXCEPT
                   !.overlapped = IF others = {} THEN @ ELSE @ \union others \union {r}]
  /\ UNCHANGED <<disk, files, undo, faults>>

\* loadRequiredSession answers 404 for a record that is missing or does not parse.
Unloadable(r, s) ==
  /\ s \in dir \union {pointer}
  /\ ~Readable(s)
  /\ Begins(r, s, "none")
  /\ req' = [req EXCEPT ![r] = Blank("none", s, "failed")]

Loaded(r, kind, s, pc, st) ==
  [Blank(kind, s, pc) EXCEPT !.st = st]

\* The handlers that compute the next state from the copy without touching anything else.
Records(r, kind, s, next) ==
  /\ kind \in RequestKinds
  /\ Readable(s)
  /\ Begins(r, s, kind)
  /\ req' = [req EXCEPT ![r] = Loaded(r, kind, s, "computed", next)]

Message(r, s) == Records(r, "message", s, Continued(record[s], r))
Rename(r, s) == Records(r, "rename", s, record[s])
Propose(r, s) == \E c \in Candidates \ Repairs : Records(r, "propose", s, Proposed(record[s], c, r))
Review(r, s) == Records(r, "review", s, Reviewed(record[s], r))
Judge(r, s) == \E c \in Candidates : Records(r, "judge", s, Judged(record[s], c, r))

StartWorkflow(r, s) ==
  /\ "start_workflow" \in RequestKinds
  /\ s \notin dir
  /\ ~\E x \in Requests : req[x].sid = s     \* a new id every time
  /\ Begins(r, s, "start_workflow")
  /\ req' = [req EXCEPT ![r] = [Blank("start_workflow", s, "computed") EXCEPT !.st = NewSession]]

Delete(r, s) ==
  /\ "delete" \in RequestKinds
  /\ Readable(s)
  /\ Begins(r, s, "delete")
  /\ req' = [req EXCEPT ![r] = Blank("delete", s, "removing")]

(* ------------------------------ approvals ------------------------------ *)

\* What the handler does in the turn in which it validated the intent against the loaded copy.
Decided(r, action, st) ==
  CASE action = "approve_patch" /\ MayApplyPatch(st) -> <<"planning", st>>
    [] action = "approve_shell" /\ st.allowed /\ (st.command => st.changed # {}) -> <<"verifying", st>>
    [] action = "undo_latest_patch" /\ st.allowed -> <<"undoing", st>>
    [] action = "reject_patch" -> <<"computed", PatchRejected(st)>>
    [] action = "reject_shell" -> <<"computed", ShellRejected(st)>>
    [] action = "request_re_review" -> <<"computed", ReReviewRequested(st, r)>>
    [] OTHER -> <<"computed", st>>     \* blocked: the unchanged state is saved all the same

Approve(r, action, s) ==
  \E id \in Candidates \union {NoCand, "shell"} :
    /\ action \in RequestKinds
    /\ Readable(s)
    /\ Begins(r, s, action)
    /\ LET outcome == Decided(r, action, record[s]) IN
       req' = [req EXCEPT ![r] =
                 IF Accepted(record[s], action, id)
                 THEN Loaded(r, action, s, outcome[1], outcome[2])
                 ELSE Blank("none", s, "failed")]

(* ------------------------- applying the patch -------------------------- *)

\* What a hunk makes of a file; "none" when it does not apply.  A hunk that creates a file has no
\* context to miss, so it applies again to the file it made.
Patched(f, content) ==
  IF f \in NewFiles THEN (IF content \in {"missing", "empty"} THEN "patched" ELSE "doubled")
  ELSE IF content = "original" THEN "patched" ELSE "none"

Unpatched == {"original", "missing", "empty"}

Works(r, pc) == req[r].pc = pc /\ UNCHANGED <<disk, faults>>
Computes(r, st) == req' = [req EXCEPT ![r] = [@ EXCEPT !.pc = "computed", !.st = st]]

\* The patches of a session go to its files and to nobody else's as long as it is the only one in
\* history.editors; stacked, that a hunk went on top of something that was no start of its file.
Plan(r) ==
  LET todo == SetToSeq(FilesOf[Selected(req[r].st)]) IN
  /\ Works(r, "planning")
  /\ UNCHANGED <<files, undo>>
  /\ IF \E f \in Range(todo) : Patched(f, files[f]) = "none"
     THEN Computes(r, PatchFailed(req[r].st)) /\ UNCHANGED history
     ELSE /\ req' = [req EXCEPT ![r] = [@ EXCEPT !.pc = "writing", !.todo = todo,
                                                    !.written = <<>>, !.base = files]]
          /\ history' = [history EXCEPT
                           !.editors = @ \union {req[r].sid},
                           !.stacked = @ \/ ~({files[f] : f \in Range(todo)} \subseteq Unpatched)]

\* The diff does not pass the checks of the validator, or a file that it names cannot be read.
PlanThrows(r) ==
  /\ Works(r, "planning")
  /\ Computes(r, PatchFailed(req[r].st))
  /\ UNCHANGED <<files, undo, history>>

Snapshot(f, content) == [file |-> f, content |-> IF content = "missing" THEN "empty" ELSE content]

\* Snapshots are sorted by a time in milliseconds: two of one patch may tie, in either order.
Saved(snap, first) ==
  {Append(undo, snap)} \union
    (IF first \/ undo = <<>> THEN {} ELSE {Append(Front(undo), snap) \o <<Last(undo)>>})

Applied(r) ==
  LET c == <<req[r].sid, Selected(req[r].st)>> IN
  history' = [history EXCEPT !.applied = @ \union {c},
                             !.reapplied = IF c \in history.applied THEN @ \union {r} ELSE @,
                             !.edited = @ \union {r}]

WriteFile(r) ==
  LET f == Head(req[r].todo)
      rest == Tail(req[r].todo)
      first == Len(req[r].todo) = Cardinality(FilesOf[Selected(req[r].st)]) IN
  /\ Works(r, "writing")
  /\ undo' \in Saved(Snapshot(f, req[r].base[f]), first)
  /\ files' = [files EXCEPT ![f] = Patched(f, req[r].base[f])]
  /\ IF rest = <<>>
     THEN Computes(r, PatchApplied(req[r].st)) /\ Applied(r)
     ELSE /\ req' = [req EXCEPT ![r] = [@ EXCEPT !.todo = rest, !.written = <<f>> \o req[r].written]]
          /\ UNCHANGED history

\* The directory or the snapshot cannot be written, or the write of the file fails before it opens
\* the file, or part-way through it.
WriteFails(r) ==
  LET f == Head(req[r].todo)
      first == Len(req[r].todo) = Cardinality(FilesOf[Selected(req[r].st)]) IN
  /\ Works(r, "writing")
  /\ \/ UNCHANGED <<undo, files>>
     \/ /\ undo' \in Saved(Snapshot(f, req[r].base[f]), first)
        /\ \E left \in {files[f], "partial"} : files' = [files EXCEPT ![f] = left]
  /\ req' = [req EXCEPT ![r] = [@ EXCEPT !.pc = "rolling", !.broken = f]]
  /\ UNCHANGED history

\* (mutant) nothing is restored.
RollBackNothing(r) ==
  /\ Works(r, "rolling")
  /\ Computes(r, PatchFailed(req[r].st))
  /\ UNCHANGED <<files, undo, history>>

\* The files whose write ended are restored, one after the other and the last one first.
RollBack(r) ==
  LET written == req[r].written IN
  /\ Works(r, "rolling")
  /\ UNCHANGED <<undo, history>>
  /\ IF written = <<>>
     THEN Computes(r, PatchFailed(req[r].st)) /\ UNCHANGED files
     ELSE /\ files' = [files EXCEPT ![Head(written)] = req[r].base[Head(written)]]
          /\ req' = [req EXCEPT ![r] = [@ EXCEPT !.written = Tail(written)]]

\* A write or a removal of the rollback throws: the files before it in the patch keep their hunks.
\* The request ends as it does when the rollback completes.
RollBackThrows(r) ==
  LET written == req[r].written
      f == Head(written) IN
  /\ req[r].pc = "rolling" /\ UNCHANGED disk
  /\ written # <<>>
  /\ Faulty
  /\ \E left \in {files[f]} \union (IF req[r].base[f] = "missing" THEN {} ELSE {"partial"}) :
       files' = [files EXCEPT ![f] = left]
  /\ Computes(r, PatchFailed(req[r].st))
  /\ history' = [history EXCEPT !.unrestored = @ \union {r}]
  /\ UNCHANGED undo

UndoLatest(r) ==
  /\ Works(r, "undoing")
  /\ UNCHANGED undo
  /\ IF undo = <<>>
     THEN /\ req' = [req EXCEPT ![r] = Blank("none", @.sid, "failed")]
          /\ UNCHANGED <<files, history>>
     ELSE LET latest == Last(undo) IN
          /\ files' = [files EXCEPT ![latest.file] = latest.content]
          /\ Computes(r, Undone(req[r].st, latest.file, r))
          /\ history' = [history EXCEPT
                           !.editors = @ \union {req[r].sid},
                           !.applied = {c \in @ : latest.file \notin FilesOf[c[2]]},
                           !.edited = @ \union {r}]

\* The command runs, is refused or times out; without one, the documents are read.
Verify(r) ==
  LET st == req[r].st
      readable == {f \in Files : files[f] \notin {"missing", "empty"}} IN
  /\ Works(r, "verifying")
  /\ UNCHANGED <<files, undo, history>>
  /\ \E next \in IF st.command THEN {ShellRan(st, o, r) : o \in RunOutcomes} \union {ShellBlocked(st)}
                 ELSE {ShellAcknowledged(st, readable)} :
       Computes(r, next)

(* ------------------------------ the saves ------------------------------ *)

Saves(r, pc) == req[r].pc = pc /\ UNCHANGED <<files, undo, faults>>
Goes(r, pc) ==
  req' = [req EXCEPT ![r] =
            IF pc \in Finished THEN Blank(@.kind, @.sid, pc)
            ELSE [@ EXCEPT !.pc = pc]]

\* saveSession makes the directory first; renameSessionGoal does not.
OpenRecord(r) ==
  LET s == req[r].sid IN
  /\ Saves(r, "computed")
  /\ UNCHANGED <<store, pointer, history>>
  /\ IF req[r].kind = "rename" /\ s \notin dir
     THEN Goes(r, "failed") /\ UNCHANGED <<record, dir>>
     ELSE /\ dir' = dir \union {s}
          /\ record' = [record EXCEPT ![s] = Torn]
          /\ Goes(r, "torn")

\* Two writes that overlap start at the same offset: the rest of the longer one may stay behind.
FillRecord(r) ==
  LET s == req[r].sid IN
  /\ Saves(r, "torn")
  /\ UNCHANGED <<dir, store, pointer, history>>
  /\ \/ record[s] = Torn /\ record' = [record EXCEPT ![s] = req[r].st]
     \/ record[s] = Absent /\ UNCHANGED record
     \/ Readable(s) /\ \E new \in {req[r].st, Torn} : record' = [record EXCEPT ![s] = new]
  /\ Goes(r, "filled")

WriteEvents(r) ==
  /\ Saves(r, "filled")
  /\ req[r].kind # "rename"
  /\ UNCHANGED <<disk, history>>
  /\ Goes(r, IF req[r].sid \in dir THEN "events" ELSE "failed")

\* A loaded copy holds "[stored in artifact file]" for the content of every artifact it names.
HeldContent(r, m) == IF m = r THEN "real" ELSE "placeholder"

\* (mutant) the bridge writes the placeholders too.
WrittenRefsAll(r) == req[r].st.refs

\* saveSession writes every artifact of the copy; saveBridgeSession leaves the placeholders out.
WrittenRefs(r) ==
  IF req[r].kind \in BridgeKinds
  THEN {m \in req[r].st.refs : HeldContent(r, m) # "placeholder"}
  ELSE req[r].st.refs

WriteArtifacts(r) ==
  LET s == req[r].sid IN
  /\ Saves(r, "events")
  /\ UNCHANGED <<record, pointer, history>>
  /\ store' = [store EXCEPT ![s] =
                 [m \in Messages |-> IF m \in WrittenRefs(r) THEN HeldContent(r, m) ELSE @[m]]]
  /\ dir' = IF WrittenRefs(r) = {} THEN dir ELSE dir \union {s}
  /\ Goes(r, "artifacts")

SavePointer(r) ==
  /\ Saves(r, "artifacts")
  /\ UNCHANGED <<record, dir, store, history>>
  /\ pointer' = req[r].sid
  /\ Goes(r, "done")

\* A rename writes the pointer it finds again, and reads the record back for its answer.
EndRename(r) ==
  /\ Saves(r, "filled")
  /\ req[r].kind = "rename"
  /\ UNCHANGED <<disk, history>>
  /\ Goes(r, IF Readable(req[r].sid) THEN "done" ELSE "failed")

\* (mutant) the record is removed and its directory is left behind.
RemoveRecordOnly(r) ==
  LET s == req[r].sid IN
  /\ Saves(r, "removing")
  /\ record' = [record EXCEPT ![s] = Absent]
  /\ UNCHANGED <<dir, store, pointer, history>>
  /\ Goes(r, "removed")

\* deleteSession throws when the record has gone since the request looked for it.
RemoveSession(r) ==
  LET s == req[r].sid IN
  /\ Saves(r, "removing")
  /\ UNCHANGED <<pointer, history>>
  /\ IF record[s] = Absent
     THEN Goes(r, "failed") /\ UNCHANGED <<record, dir, store>>
     ELSE /\ record' = [record EXCEPT ![s] = Absent]
          /\ dir' = dir \ {s}
          /\ store' = [store EXCEPT ![s] = [m \in Messages |-> "none"]]
          /\ Goes(r, "removed")

\* The pointer is read and the sessions are listed; listSessions throws when one directory has no
\* record that parses.
FindNext(r) ==
  /\ Saves(r, "removed")
  /\ UNCHANGED <<disk, history>>
  /\ IF pointer # req[r].sid THEN Goes(r, "listing")
     ELSE IF Unlistable # {} THEN Goes(r, "failed")
     ELSE \E next \in IF dir = {} THEN {NoSession} ELSE dir :
            req' = [req EXCEPT ![r] = [@ EXCEPT !.pc = "repointing", !.next = next]]

MovePointer(r) ==
  /\ Saves(r, "repointing")
  /\ UNCHANGED <<record, dir, store, history>>
  /\ pointer' = req[r].next
  /\ Goes(r, "listing")

\* The server answers a deletion with the sessions that are left.
AnswerDelete(r) ==
  /\ Saves(r, "listing")
  /\ UNCHANGED <<disk, history>>
  /\ Goes(r, IF Unlistable = {} THEN "done" ELSE "failed")

(* -------------------------------- faults ------------------------------- *)

\* The process stops: every request in progress is lost, the disk stays as it is.
Crash ==
  /\ Faulty
  /\ InFlight # {}
  /\ req' = [r \in Requests |-> IF Active(r) THEN Blank(req[r].kind, req[r].sid, "lost") ELSE req[r]]
  /\ UNCHANGED <<disk, files, undo, history>>

\* What a request awaits throws: the server answers 500, and what was on disk by then stays there.
Fails(r) == Faulty /\ Goes(r, "failed")

\* Before its record is written, a request that changed the project files leaves them unrecorded; in
\* the middle of a write or a removal it leaves its session half written.
Changing(r) == {r} \intersect history.edited
HalfDone(r) == history' = [history EXCEPT !.cut = @ \union {r}]

\* The configuration does not resolve, the command or its trace throws, or a write or a removal does
\* not begin.
Throws(r) ==
  /\ req[r].pc \in {"undoing", "verifying", "computed", "filled", "events", "artifacts",
                     "removing", "removed", "repointing", "listing"}
  /\ Fails(r)
  /\ IF req[r].pc = "computed"
     THEN history' = [history EXCEPT !.unrecorded = @ \union Changing(r)]
     ELSE UNCHANGED history
  /\ UNCHANGED <<disk, files, undo>>

UndoCutShort(r) ==
  /\ req[r].pc = "undoing" /\ undo # <<>>
  /\ Fails(r)
  /\ files' = [files EXCEPT ![Last(undo).file] = "partial"]
  /\ history' = [history EXCEPT !.unrecorded = @ \union {r}]
  /\ UNCHANGED <<disk, undo>>

\* The directory is made, and the record is not opened.
DirectoryOnly(r) ==
  /\ req[r].pc = "computed" /\ req[r].kind # "rename" /\ req[r].sid \notin dir
  /\ Fails(r)
  /\ dir' = dir \union {req[r].sid}
  /\ history' = [history EXCEPT !.unrecorded = @ \union Changing(r), !.cut = @ \union {r}]
  /\ UNCHANGED <<record, store, pointer, files, undo>>

RecordCutShort(r) ==
  LET s == req[r].sid IN
  /\ req[r].pc = "torn"
  /\ Fails(r)
  /\ \E left \in {record[s]} \union (IF record[s] = Absent THEN {} ELSE {Torn}) :
       record' = [record EXCEPT ![s] = left]
  /\ HalfDone(r)
  /\ UNCHANGED <<dir, store, pointer, files, undo>>

\* Some of the artifacts are written, and one of them in part.
ArtifactsCutShort(r) ==
  LET s == req[r].sid IN
  /\ req[r].pc = "events"
  /\ Fails(r)
  /\ \E m \in WrittenRefs(r), whole \in SUBSET WrittenRefs(r) :
       store' = [store EXCEPT ![s] =
                   [x \in Messages |-> IF x = m THEN "partial"
                                       ELSE IF x \in whole THEN HeldContent(r, x) ELSE @[x]]]
  /\ dir' = dir \union {s}
  /\ UNCHANGED <<record, pointer, files, undo, history>>

\* A pointer that does not parse is read as none.
PointerCutShort(r) ==
  /\ \/ req[r].pc = "artifacts"
     \/ req[r].pc = "repointing" /\ req[r].next # NoSession
     \/ req[r].pc = "filled" /\ req[r].kind = "rename" /\ pointer = req[r].sid
  /\ Fails(r)
  /\ pointer' = NoSession
  /\ UNCHANGED <<record, dir, store, files, undo, history>>

\* A directory is removed file by file, in any order.
RemovalCutShort(r) ==
  LET s == req[r].sid IN
  /\ req[r].pc = "removing" /\ record[s] # Absent
  /\ Fails(r)
  /\ \E left \in {record[s], Absent} : record' = [record EXCEPT ![s] = left]
  /\ \E gone \in SUBSET Messages :
       store' = [store EXCEPT ![s] = [m \in Messages |-> IF m \in gone THEN "none" ELSE @[m]]]
  /\ HalfDone(r)
  /\ UNCHANGED <<dir, pointer, files, undo>>

(* ---------------------------- specification ---------------------------- *)

Load(r) ==
  \E s \in Sessions :
    \/ Message(r, s)
    \/ Rename(r, s)
    \/ Propose(r, s)
    \/ Review(r, s)
    \/ Judge(r, s)
    \/ StartWorkflow(r, s)
    \/ Delete(r, s)
    \/ \E a \in ApprovalActions : Approve(r, a, s)
    \/ Unloadable(r, s)

Step(r) ==
  \/ Plan(r)
  \/ PlanThrows(r)
  \/ WriteFile(r)
  \/ WriteFails(r)
  \/ RollBack(r)
  \/ RollBackThrows(r)
  \/ UndoLatest(r)
  \/ Verify(r)
  \/ OpenRecord(r)
  \/ FillRecord(r)
  \/ WriteEvents(r)
  \/ WriteArtifacts(r)
  \/ SavePointer(r)
  \/ EndRename(r)
  \/ RemoveSession(r)
  \/ FindNext(r)
  \/ MovePointer(r)
  \/ AnswerDelete(r)

Throw(r) ==
  \/ Throws(r)
  \/ UndoCutShort(r)
  \/ DirectoryOnly(r)
  \/ RecordCutShort(r)
  \/ ArtifactsCutShort(r)
  \/ PointerCutShort(r)
  \/ RemovalCutShort(r)

Next == Crash \/ \E r \in Requests : Load(r) \/ Step(r) \/ Throw(r)

Spec == Init /\ [][Next]_vars

(* ------------------------------ properties ----------------------------- *)

TypeOK ==
  /\ record \in [Sessions -> SessionState \union {Absent, Torn}]
  /\ dir \subseteq Sessions
  /\ store \in [Sessions -> [Messages -> {"none", "real", "placeholder", "partial"}]]
  /\ pointer \in Sessions \union {NoSession}
  /\ files \in [Files -> Contents]
  /\ undo \in Seq(Snapshots)
  /\ \A r \in Requests : req[r].pc \in PCs
  /\ faults \in 0..MaxFaults
  /\ history.overlapped \subseteq Requests

Lost == {r \in Requests : req[r].pc = "lost"}
Quiet == InFlight = {}
Disturbed(s) == {r \in history.overlapped \union history.cut \union Lost : req[r].sid = s}

\* What a request recorded stays recorded: an artifact that was answered for is missing from the
\* record only when another request worked on the same session at the same time.
AnsweredStaysRecorded ==
  \A r \in Requests :
    LET s == req[r].sid IN
    ( /\ req[r].pc = "done"
      /\ req[r].kind \in {"message", "request_re_review", "propose", "review", "judge"}
      /\ Readable(s) )
    => r \in record[s].refs \/ r \in history.overlapped

\* Once the requests are over every session can be listed, unless two of them met on a session, or
\* one of them ended in the middle of a write or a removal there: no other error leaves it unreadable.
SessionsListable == \A s \in Unlistable : Quiet => Disturbed(s) # {}

\* A session applies a candidate a second time without an undo only after overlapping approvals, a
\* crash, or an approval of that session that failed between its patch and its record.
AppliedOncePerApproval ==
  \A r \in history.reapplied :
    \/ history.overlapped \union Lost # {}
    \/ \E x \in history.unrecorded : req[x].sid = req[r].sid /\ req[x].kind = "approve_patch"

\* A patch that fails leaves every file but the one whose write failed as it found it; when the
\* rollback fails as well, so may the files that it had not restored by then.
FailedPatchLeavesNoTrace ==
  \A r \in Requests \ history.overlapped :
    req[r].pc = "computed" /\ req[r].broken # NoFile
    => \A f \in Files \ {req[r].broken} :
         \/ files[f] = req[r].base[f]
         \/ r \in history.unrestored /\ f \in Range(req[r].written)

\* Between requests the records list as changed the files that hold a patch: no other file, and all
\* of them as long as the records can be read.  Excepted are requests that met, a crash, a request
\* that failed between its change to the files and its record, and a failed rollback; an undo may
\* restore the file of another session, or a file that took two hunks to the first of them: hence
\* one session, and no hunk on top of another.
ChangedFilesHoldThePatch ==
  LET patched == {f \in Files : files[f] \in {"patched", "doubled"}}
      listed == UNION {record[s].changed : s \in {x \in Sessions : Readable(x)}} IN
  ( /\ Quiet /\ history.overlapped \union Lost = {}
    /\ history.unrecorded \union history.unrestored = {}
    /\ \A s, t \in history.editors : s = t
    /\ ~history.stacked )
  => /\ listed \subseteq patched
     /\ (\A s \in history.editors : Readable(s)) => patched \subseteq listed

\* A session counts as completed after a passing run or after a continuation message.
CompletedIsVerified ==
  \A s \in Sessions :
    Readable(s) /\ record[s].summary = "completed"
    => \/ "passed" \in Range(record[s].runs)
       \/ \E r \in record[s].refs \ {Origin} : req[r].kind = "message"

\* A save of the bridge never replaces the content of an artifact with the placeholder.
BridgeKeepsArtifacts ==
  [][\A s \in Sessions, m \in Messages :
       store[s][m] = "real" /\ store'[s][m] = "placeholder"
       => \E r \in Requests : req[r].kind \notin BridgeKinds /\ req[r].pc = "events"
                              /\ req'[r].pc # "events"]_vars

==============================================================================
