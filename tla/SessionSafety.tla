---------------------------- MODULE SessionSafety ----------------------------
(***************************************************************************)
(* Proofs about the sessions on disk, for any sessions, candidates and     *)
(* number of requests: what requests record, when two of them meet, and    *)
(* what the project files hold against what the records say.               *)
(***************************************************************************)
EXTENDS CockpitSession, FiniteSetTheorems, SequenceTheorems, TLAPS

(* ------------------------------- phases -------------------------------- *)

Applying == {"planning", "writing", "rolling"}
Working == Applying \union {"verifying", "undoing"}
Saving == {"torn", "filled", "events", "artifacts"}
Deleting == {"removing", "removed", "repointing", "listing"}
Written == {"filled", "events", "artifacts"}

\* The requests with a copy of a session.
Holds(r) == req[r].pc \in Working \union {"computed"} \union Saving
Meet(r, x) == req[r].sid = req[x].sid \/ {req[r].kind, req[x].kind} \subseteq FileActions
Recording == {"message", "request_re_review", "propose", "review", "judge"}

ReqType ==
  [ pc : PCs, kind : AllKinds \union {"none"}, sid : Sessions \union {NoSession},
    st : SessionState \union {NoState}, todo : Seq(Files), written : Seq(Files),
    next : Sessions \union {NoSession}, base : [Files -> Contents], broken : Files \union {NoFile} ]

HistoryType ==
  [ overlapped : SUBSET Requests, applied : SUBSET (Sessions \X Candidates),
    reapplied : SUBSET Requests, edited : SUBSET Requests, unrecorded : SUBSET Requests,
    unrestored : SUBSET Requests, cut : SUBSET Requests,
    editors : SUBSET Sessions, stacked : BOOLEAN ]

TypeInv ==
  /\ TypeOK
  /\ req \in [Requests -> ReqType]
  /\ history \in HistoryType

PhaseInv ==
  \A r \in Requests :
    /\ req[r].pc # "idle" => req[r].sid \in Sessions
    /\ Holds(r) => req[r].st \in SessionState /\ req[r].kind \notin {"none", "delete"}
    /\ req[r].pc \in Deleting => req[r].kind = "delete"
    /\ ~Holds(r) => req[r].st = NoState
    /\ req[r].pc \in Applying => req[r].kind = "approve_patch" /\ PatchWaiting(req[r].st)
    /\ req[r].pc = "undoing" => req[r].kind = "undo_latest_patch"
    /\ req[r].pc = "verifying" => req[r].kind = "approve_shell"
    /\ req[r].pc \in {"computed"} \union Saving /\ req[r].kind \in Recording => r \in req[r].st.refs
    /\ req[r].pc = "idle" => /\ r \notin history.overlapped \union history.reapplied
                             /\ req[r].kind = "none" /\ req[r].sid = NoSession

\* A request that met no other is alone with its session and, when it changes files, with them.
AloneInv ==
  \A r \in Requests \ history.overlapped : \A x \in Requests \ {r} :
    Active(r) /\ Active(x) => ~Meet(r, x)

TodoInv ==
  \A r \in Requests :
    /\ req[r].pc \in {"writing", "rolling"} =>
         LET c == Selected(req[r].st) IN
         /\ req[r].todo # <<>> /\ IsInjective(req[r].todo)
         /\ Range(req[r].todo) \subseteq FilesOf[c]
         /\ \A f \in FilesOf[c] : Patched(f, req[r].base[f]) # "none"
         /\ IsInjective(req[r].written)
         /\ Range(req[r].written) \subseteq FilesOf[c] \ Range(req[r].todo)
         /\ req[r].pc = "writing" => FilesOf[c] \ Range(req[r].todo) \subseteq Range(req[r].written)
    /\ req[r].pc = "rolling" => req[r].broken \in Range(req[r].todo)
    /\ req[r].pc \in Working \ {"rolling"} => req[r].broken = NoFile
    /\ req[r].broken # NoFile => req[r].kind = "approve_patch"

\* What the files of a patch hold while it is written, and where it failed.
WriteInv ==
  \A r \in Requests \ history.overlapped :
    LET written == Range(req[r].written)
        base == req[r].base IN
    /\ req[r].pc \in {"writing", "rolling"} =>
         \A f \in Files \ {req[r].broken} : files[f] = IF f \in written THEN Patched(f, base[f]) ELSE base[f]
    /\ req[r].pc = "rolling" => files[req[r].broken] \in {base[req[r].broken], "partial"}
    /\ req[r].pc = "computed" /\ req[r].broken # NoFile =>
         \A f \in Files \ {req[r].broken} :
           files[f] = base[f] \/ (r \in history.unrestored /\ f \in written)

\* The record on disk and the copy of a request that is alone with it.
SavedInv ==
  \A r \in Requests \ history.overlapped :
    LET s == req[r].sid IN
    /\ req[r].pc \in Working \union Written => record[s] = req[r].st
    /\ req[r].pc = "torn" => record[s] = Torn
    /\ req[r].pc \in Saving => s \in dir

RecordedInv ==
  \A r \in Requests \ history.overlapped :
    req[r].pc = "done" /\ req[r].kind \in Recording =>
      LET s == req[r].sid IN
      /\ Readable(s) => r \in record[s].refs
      /\ \A x \in Requests : Holds(x) /\ req[x].sid = s => r \in req[x].st.refs

Met(s) == {r \in history.overlapped : req[r].sid = s}

ListInv ==
  /\ \A s \in Sessions : record[s] # Absent /\ s \notin dir => Met(s) # {}
  /\ \A s \in Unlistable :
       \/ Disturbed(s) # {}
       \/ \E r \in Requests : req[r].pc = "torn" /\ req[r].sid = s

Verified(st) ==
  st.summary = "completed" =>
    \/ "passed" \in Range(st.runs)
    \/ \E r \in st.refs \ {Origin} : req[r].kind = "message"

VerifiedInv ==
  /\ \A s \in Sessions : Readable(s) => Verified(record[s])
  /\ \A r \in Requests : Holds(r) => Verified(req[r].st)

(* --------------------- what is applied, and where ---------------------- *)

Calm == history.overlapped = {} /\ Lost = {}
Tidy == (\A s, t \in history.editors : s = t) /\ ~history.stacked

AppliedIn(s, st) ==
  \A c \in Candidates : <<s, c>> \in history.applied =>
    /\ FilesOf[c] # {} /\ FilesOf[c] \subseteq st.changed
    /\ c \in Repairs => "repair" \in st.approved

At(s) == {r \in Requests : Holds(r) /\ req[r].sid = s}

\* The approvals of a session that failed between their patch and their record, and the one that is
\* between the two.
Approves(r) == req[r].kind = "approve_patch"
Unsaved(s) == {r \in history.unrecorded : req[r].sid = s /\ Approves(r)}
Ahead(s) == {r \in At(s) : r \in history.edited /\ Approves(r)}

AppliedInv ==
  Calm =>
    /\ \A r \in history.reapplied : Unsaved(req[r].sid) # {}
    /\ \A s \in Sessions : Readable(s) /\ Ahead(s) \union Unsaved(s) = {} => AppliedIn(s, record[s])
    /\ \A r \in Requests : Holds(r) /\ Unsaved(req[r].sid) = {} => AppliedIn(req[r].sid, req[r].st)
    /\ \A p \in history.applied : \E r \in Requests : req[r].sid = p[1]

Holding(contents) == {f \in Files : contents[f] \in {"patched", "doubled"}}

\* What a session says of the files when no patch of it is under way.
Agrees(s, st) == st.changed = IF s \in history.editors THEN Holding(files) ELSE {}

\* The requests on a session whose record does not say yet what they do to the files.
Editing(s) == {r \in At(s) : req[r].pc \in {"writing", "rolling"} \/ r \in history.edited}
Restored == history.unrecorded \union history.unrestored = {}

FilesInv ==
  Calm /\ Tidy /\ Restored =>
    /\ \A i \in 1 .. Len(undo) : undo[i].content \in Unpatched
    /\ history.editors = {} => Holding(files) = {}
    /\ \A s \in history.editors : s \in dir \/ \E r \in Requests : req[r].sid = s
    /\ \A s \in Sessions : Readable(s) /\ Editing(s) = {} => Agrees(s, record[s])
    /\ \A r \in Requests :
         /\ Holds(r) /\ req[r].pc \notin {"writing", "rolling"} => Agrees(req[r].sid, req[r].st)
         /\ req[r].pc \in {"writing", "rolling"} =>
              /\ req[r].sid \in history.editors
              /\ req[r].st.changed = Holding(req[r].base)
              /\ \A f \in FilesOf[Selected(req[r].st)] : req[r].base[f] \in Unpatched

IInv ==
  /\ TypeInv /\ PhaseInv /\ AloneInv /\ TodoInv /\ WriteInv
  /\ SavedInv /\ RecordedInv /\ ListInv /\ VerifiedInv /\ AppliedInv /\ FilesInv

(* --------------------------- the rules' types -------------------------- *)

LEMMA RuleTypes ==
  ASSUME NEW st \in SessionState, NEW r \in Messages
  PROVE  /\ Continued(st, r) \in SessionState
         /\ \A c \in Candidates : {Proposed(st, c, r), Judged(st, c, r)} \subseteq SessionState
         /\ Reviewed(st, r) \in SessionState
         /\ ReReviewRequested(st, r) \in SessionState
         /\ ShellRejected(st) \in SessionState
         /\ ShellBlocked(st) \in SessionState
         /\ PatchFailed(st) \in SessionState
         /\ PatchRejected(st) \in SessionState
<1>1. Continued(st, r) \in SessionState
  BY ZenonT(60) DEF Continued, SessionState, Results
<1>2. ASSUME NEW c \in Candidates
      PROVE  Proposed(st, c, r) \in SessionState
  <2>1. st.cands \in Seq(Candidates) /\ Append(st.cands, c) \in Seq(Candidates)
    BY DEF SessionState
  <2> QED BY <2>1, ZenonT(60) DEF Proposed, SessionState
<1>3. Reviewed(st, r) \in SessionState
  BY DEF Reviewed, SessionState
<1>4. ASSUME NEW c \in Candidates
      PROVE  Judged(st, c, r) \in SessionState
  BY DEF Judged, SessionState
<1>5. ReReviewRequested(st, r) \in SessionState
  BY DEF ReReviewRequested, SessionState
<1>6. ShellRejected(st) \in SessionState
  BY DEF ShellRejected, SessionState, Results
<1>7. ShellBlocked(st) \in SessionState
  BY DEF ShellBlocked, SessionState, Results
<1>8. PatchFailed(st) \in SessionState
  BY DEF PatchFailed, SessionState, Results
<1>9. PatchRejected(st) \in SessionState
  BY DEF PatchRejected, SessionState, Results
<1> QED BY <1>1, <1>2, <1>3, <1>4, <1>5, <1>6, <1>7, <1>8, <1>9

LEMMA SelectedType ==
  ASSUME NEW st \in SessionState
  PROVE  Selected(st) \in Candidates \union {NoCand}
<1> DEFINE all == IF st.repair = NoCand THEN st.cands ELSE Append(st.cands, st.repair)
<1>1. st.cands \in Seq(Candidates) /\ {st.repair, st.judge} \subseteq Candidates \union {NoCand}
  BY DEF SessionState
<1>2. all \in Seq(Candidates)
  BY <1>1
<1>3. all # <<>> => Head(all) \in Candidates
  BY <1>2
<1> QED BY <1>1, <1>3 DEF Selected

LEMMA ChangingTypes ==
  ASSUME NEW st \in SessionState, NEW r \in Messages
  PROVE  /\ Selected(st) # NoCand => PatchApplied(st) \in SessionState
         /\ \A f \in Files : Undone(st, f, r) \in SessionState
         /\ \A o \in RunOutcomes : ShellRan(st, o, r) \in SessionState
         /\ \A readable : ShellAcknowledged(st, readable) \in SessionState
<1>1. Selected(st) # NoCand => PatchApplied(st) \in SessionState
  <2> SUFFICES ASSUME Selected(st) # NoCand
               PROVE  PatchApplied(st) \in SessionState
    OBVIOUS
  <2>1. FilesOf[Selected(st)] \subseteq Files
    BY SelectedType DEF Files
  <2>2. Kind(Selected(st)) \in {"patch", "repair", "shell"}
    BY DEF Kind
  <2> QED BY <2>1, <2>2 DEF PatchApplied, SessionState
<1>2. ASSUME NEW f \in Files
      PROVE  Undone(st, f, r) \in SessionState
  BY DEF Undone, SessionState
<1>3. ASSUME NEW t \in SessionState
      PROVE  RefreshSummary(t) \in SessionState
  <2>1. SummaryOf(t.changed, t.runs) \in Results
    BY DEF SummaryOf, Results
  <2> QED BY <2>1 DEF RefreshSummary, SessionState
<1>4. ASSUME NEW o \in RunOutcomes
      PROVE  ShellRan(st, o, r) \in SessionState
  <2> DEFINE t == [st EXCEPT !.runs = Append(@, o), !.approved = @ \union {"shell"},
                             !.waiting = {}, !.refs = @ \union {r}]
  <2>1. t \in SessionState
    <3>1. Append(st.runs, o) \in Seq(RunOutcomes) /\ st.refs \union {r} \in SUBSET Messages
      BY DEF SessionState
    <3> QED BY <3>1 DEF SessionState
  <2>2. ShellRan(st, o, r) = RefreshSummary(t)
    BY Zenon DEF ShellRan
  <2> HIDE DEF t
  <2> QED BY <1>3, <2>1, <2>2
<1>5. ASSUME NEW readable
      PROVE  ShellAcknowledged(st, readable) \in SessionState
  <2> DEFINE run == StructuralRun(st, readable)
             t == [st EXCEPT !.runs = @ \o run, !.approved = @ \union {"shell"}, !.waiting = {}]
  <2>1. run \in Seq(RunOutcomes)
    <3>1. <<>> \in Seq(RunOutcomes) /\ <<"passed">> \in Seq(RunOutcomes)
      BY DEF RunOutcomes
    <3> QED BY <3>1 DEF StructuralRun
  <2> HIDE DEF run
  <2>2. st.runs \o run \in Seq(RunOutcomes)
    <3>1. st.runs \in Seq(RunOutcomes)
      BY DEF SessionState
    <3> QED BY <2>1, <3>1, ConcatProperties
  <2>3. t \in SessionState
    BY <2>2 DEF SessionState
  <2> QED BY <1>3, <2>3 DEF ShellAcknowledged, run
<1> QED BY <1>1, <1>2, <1>4, <1>5

LEMMA SeqOfSet ==
  ASSUME NEW S, IsFiniteSet(S)
  PROVE  /\ SetToSeq(S) \in Seq(S) /\ IsInjective(SetToSeq(S))
         /\ Range(SetToSeq(S)) = S
         /\ S # {} => SetToSeq(S) # <<>>
<1> DEFINE n == Cardinality(S)
           q == SetToSeq(S)
<1>1. n \in Nat /\ \E f \in [1 .. n -> S] : IsInjective(f)
  BY FS_CardinalityType DEF ExistsBijection, Bijection, Injection
<1>2. q \in [1 .. n -> S] /\ IsInjective(q)
  BY <1>1 DEF SetToSeq
<1>3. q \in Surjection(1 .. n, S)
  <2>1. IsFiniteSet(1 .. n) /\ Cardinality(1 .. n) = n
    BY <1>1, FS_Interval
  <2>2. q \in Injection(1 .. n, S)
    BY <1>2 DEF Injection
  <2> HIDE DEF q, n
  <2> QED BY <2>1, <2>2, FS_Injection, n = Cardinality(S) DEF n
<1> HIDE DEF q
<1>4. q \in Seq(S) /\ Range(q) = S
  <2>1. q \in Seq(S) /\ DOMAIN q = 1 .. n
    BY <1>1, <1>2, SeqDef
  <2>2. \A t \in S : \E i \in 1 .. n : q[i] = t
    BY <1>3 DEF Surjection
  <2>3. \A i \in 1 .. n : q[i] \in S
    BY <1>2
  <2> HIDE DEF n
  <2> QED BY <2>1, <2>2, <2>3, Zenon DEF Range
<1>5. S # {} => q # <<>>
  BY <1>1, <1>2, <1>3 DEF Surjection
<1> QED BY <1>2, <1>4, <1>5 DEF q

(* ----------------------- what a request computes ----------------------- *)

\* What the handlers that touch no file make of a session: they lose no artifact, no run and no
\* approved repair, list the same changes, and call complete what a message ends.
Extends(st, next, r, kind) ==
  /\ next \in SessionState
  /\ next.changed = st.changed /\ next.runs = st.runs
  /\ st.refs \subseteq next.refs
  /\ "repair" \in st.approved => "repair" \in next.approved
  /\ next.summary = "completed" => st.summary = "completed" \/ (kind = "message" /\ r \in next.refs)
  /\ kind \in Recording => r \in next.refs

LEMMA MessagesExtend ==
  ASSUME NEW st \in SessionState, NEW r \in Messages
  PROVE  /\ Extends(st, Continued(st, r), r, "message")
         /\ \A c \in Candidates : /\ Extends(st, Proposed(st, c, r), r, "propose")
                                 /\ Extends(st, Judged(st, c, r), r, "judge")
         /\ Extends(st, Reviewed(st, r), r, "review")
         /\ Extends(st, ReReviewRequested(st, r), r, "request_re_review")
         /\ Extends(st, ShellRejected(st), r, "reject_shell")
<1>1. Extends(st, Continued(st, r), r, "message")
  <2> DEFINE t == Continued(st, r)
  <2>1. /\ t.changed = st.changed /\ t.runs = st.runs /\ t.approved = st.approved
        /\ t.refs = st.refs \union {r}
    BY DEF Continued, SessionState
  <2> QED BY <2>1, RuleTypes DEF Extends
<1>2. ASSUME NEW c \in Candidates
      PROVE  Extends(st, Proposed(st, c, r), r, "propose")
  <2> DEFINE cs == IF Contains(st.cands, c) THEN st.cands ELSE Append(st.cands, c)
  <2>1. Proposed(st, c, r) = [[st EXCEPT !.cands = cs] EXCEPT !.refs = @ \union {r}]
    BY DEF Proposed
  <2> HIDE DEF cs
  <2> DEFINE t == Proposed(st, c, r)
  <2>2. /\ t.changed = st.changed /\ t.runs = st.runs /\ t.approved = st.approved
        /\ t.refs = st.refs \union {r} /\ t.summary = st.summary
    BY <2>1 DEF SessionState
  <2> QED BY <2>2, RuleTypes DEF Extends
<1>3. Extends(st, Reviewed(st, r), r, "review")
  <2> DEFINE t == Reviewed(st, r)
  <2>1. /\ t.changed = st.changed /\ t.runs = st.runs /\ t.approved = st.approved
        /\ t.refs = st.refs \union {r} /\ t.summary = st.summary
    BY DEF Reviewed, SessionState
  <2>2. t \in SessionState
    BY RuleTypes
  <2> QED BY <2>1, <2>2 DEF Extends
<1>4. ASSUME NEW c \in Candidates
      PROVE  Extends(st, Judged(st, c, r), r, "judge")
  <2> DEFINE t == Judged(st, c, r)
  <2>1. /\ t.changed = st.changed /\ t.runs = st.runs /\ t.approved = st.approved
        /\ t.refs = st.refs \union {r} /\ t.summary = st.summary
    BY DEF Judged, SessionState
  <2>2. t \in SessionState
    BY RuleTypes
  <2> QED BY <2>1, <2>2 DEF Extends
<1>5. Extends(st, ReReviewRequested(st, r), r, "request_re_review")
  <2> DEFINE t == ReReviewRequested(st, r)
  <2>1. /\ t.changed = st.changed /\ t.runs = st.runs /\ t.approved = st.approved
        /\ t.refs = st.refs \union {r} /\ t.summary = "none"
    BY DEF ReReviewRequested, SessionState
  <2> QED BY <2>1, RuleTypes DEF Extends
<1>6. Extends(st, ShellRejected(st), r, "reject_shell")
  <2> DEFINE t == ShellRejected(st)
  <2>1. /\ t.changed = st.changed /\ t.runs = st.runs /\ t.approved = st.approved \ {"shell"}
        /\ t.refs = st.refs /\ t.summary = "aborted"
    BY DEF ShellRejected, SessionState
  <2>2. t \in SessionState
    BY RuleTypes
  <2> QED BY <2>1, <2>2 DEF Extends, Recording
<1> QED BY <1>1, <1>2, <1>3, <1>4, <1>5, <1>6

\* A patch that waits is no approved repair.
LEMMA WaitingIsNew ==
  ASSUME NEW st \in SessionState, PatchWaiting(st)
  PROVE  /\ Selected(st) \in Candidates /\ FilesOf[Selected(st)] # {}
         /\ Kind(Selected(st)) = "repair" => "repair" \notin st.approved
         /\ Selected(st) \in Repairs \/ st.changed = {}
BY SelectedType DEF PatchWaiting, Kind

LEMMA FailuresExtend ==
  ASSUME NEW st \in SessionState, PatchWaiting(st), NEW r \in Messages, NEW kind, kind \notin Recording
  PROVE  Extends(st, PatchFailed(st), r, kind) /\ Extends(st, PatchRejected(st), r, kind)
<1>1. Extends(st, PatchFailed(st), r, kind)
  <2> DEFINE t == PatchFailed(st)
  <2>1. /\ t.changed = st.changed /\ t.runs = st.runs /\ t.refs = st.refs /\ t.summary = "failed"
        /\ t.approved = st.approved \ {Kind(Selected(st))}
    BY DEF PatchFailed, SessionState
  <2>2. t \in SessionState /\ ("repair" \in st.approved => Kind(Selected(st)) # "repair")
    BY RuleTypes, WaitingIsNew
  <2> QED BY <2>1, <2>2 DEF Extends
<1>2. Extends(st, PatchRejected(st), r, kind)
  <2> DEFINE t == PatchRejected(st)
  <2>1. /\ t.changed = st.changed /\ t.runs = st.runs /\ t.summary = "aborted" /\ t.refs = st.refs
        /\ t.approved = st.approved \ {IF Selected(st) = NoCand THEN "patch" ELSE Kind(Selected(st))}
    BY DEF PatchRejected, SessionState
  <2>2. Selected(st) # NoCand
    BY DEF PatchWaiting
  <2> QED BY <2>1, <2>2, RuleTypes, WaitingIsNew DEF Extends
<1> QED BY <1>1, <1>2

LEMMA SameExtends ==
  ASSUME NEW st \in SessionState, NEW r, NEW kind, kind \notin Recording
  PROVE  Extends(st, st, r, kind)
<1>1. st.refs \subseteq st.refs
  OBVIOUS
<1>2. kind \in Recording => r \in st.refs
  OBVIOUS
<1>3. st.summary = "completed" => st.summary = "completed" \/ (kind = "message" /\ r \in st.refs)
  OBVIOUS
<1> QED BY <1>1, <1>2, <1>3, Zenon DEF Extends

\* An intent about a patch is accepted for the patch that waits.
LEMMA AcceptedPatch ==
  ASSUME NEW st \in SessionState, NEW action \in PatchActions, NEW id, Accepted(st, action, id)
  PROVE  PatchWaiting(st)
<1>1. action \notin OtherActions
  BY DEF PatchActions, OtherActions
<1>2. CurrentApproval(st) # NoApproval /\ CurrentApproval(st).kind # "shell"
  BY <1>1 DEF Accepted
<1>3. ShellWaiting(st) /\ ~PatchWaiting(st) /\ ~Closed(st) => CurrentApproval(st).kind = "shell"
  BY DEF CurrentApproval
<1> QED BY <1>2, <1>3, Zenon DEF CurrentApproval

(* ------------------------- a request that begins ----------------------- *)

LEMMA FaultyType ==
  ASSUME TypeInv, Faulty
  PROVE  faults' \in 0..MaxFaults
<1>1. faults \in 0..MaxFaults /\ faults < MaxFaults /\ faults' = faults + 1 /\ MaxFaults \in Nat
  BY StoreAssumption DEF Faulty, TypeInv, TypeOK
<1> QED BY <1>1

LEMMA BlankType ==
  ASSUME NEW kind \in AllKinds \union {"none"}, NEW s \in Sessions \union {NoSession}, NEW pc \in PCs
  PROVE  /\ Blank(kind, s, pc) \in ReqType
         /\ Blank(kind, s, pc).pc = pc /\ Blank(kind, s, pc).kind = kind /\ Blank(kind, s, pc).sid = s
         /\ Blank(kind, s, pc).st = NoState /\ Blank(kind, s, pc).todo = <<>>
         /\ Blank(kind, s, pc).written = <<>> /\ Blank(kind, s, pc).broken = NoFile
<1>1. [f \in Files |-> "original"] \in [Files -> Contents]
  BY DEF Contents
<1> QED BY <1>1 DEF Blank, ReqType

LEMMA RefusedType ==
  ASSUME NEW s \in Sessions \union {NoSession}
  PROVE  LET q == Blank("none", s, "failed") IN
         /\ q \in ReqType
         /\ q.pc = "failed" /\ q.kind = "none" /\ q.sid = s /\ q.st = NoState /\ q.broken = NoFile
BY BlankType DEF PCs

LEMMA LoadedType ==
  ASSUME NEW r, NEW kind \in AllKinds, NEW s \in Sessions, NEW pc \in PCs, NEW st \in SessionState
  PROVE  LET q == Loaded(r, kind, s, pc, st) IN
         /\ q \in ReqType
         /\ q.pc = pc /\ q.kind = kind /\ q.sid = s /\ q.st = st /\ q.todo = <<>> /\ q.broken = NoFile
BY BlankType DEF Loaded, ReqType

\* The ways in which a request begins: it is refused, deletes, starts a workflow, or loads a record
\* and goes to work on it or has computed the next one.
Refused(q) == q.pc = "failed" /\ q.kind = "none" /\ q.st = NoState
Deletes(kind, q) == q.pc = "removing" /\ kind = "delete" /\ q.kind = kind /\ q.st = NoState
Starts(s, kind, q) ==
  /\ q.pc = "computed" /\ kind = "start_workflow" /\ q.kind = kind /\ q.st = NewSession
  /\ s \notin dir /\ \A x \in Requests : req[x].sid # s
Loads(r, s, kind, q) ==
  /\ Readable(s) /\ q.kind = kind /\ kind \notin {"none", "delete"}
  /\ q.st \in SessionState
  /\ \/ q.pc = "computed" /\ Extends(record[s], q.st, r, kind)
     \/ q.pc = "planning" /\ kind = "approve_patch" /\ q.st = record[s] /\ PatchWaiting(q.st)
     \/ q.pc = "verifying" /\ kind = "approve_shell" /\ q.st = record[s]
     \/ q.pc = "undoing" /\ kind = "undo_latest_patch" /\ q.st = record[s]

Begun(r, s, kind, q) ==
  /\ Begins(r, s, kind) /\ req' = [req EXCEPT ![r] = q]
  /\ q \in ReqType /\ q.sid = s /\ q.todo = <<>> /\ q.broken = NoFile
  /\ Refused(q) \/ Deletes(kind, q) \/ Starts(s, kind, q) \/ Loads(r, s, kind, q)

LEMMA RecordsMoves ==
  ASSUME TypeInv, NEW r \in Requests, NEW s \in Sessions, NEW kind \in AllKinds \ {"delete"}, NEW next,
         Records(r, kind, s, next), Extends(record[s], next, r, kind)
  PROVE  \E q : Begun(r, s, kind, q)
<1> DEFINE q == Loaded(r, kind, s, "computed", next)
<1>1. next \in SessionState /\ "computed" \in PCs /\ kind # "none"
  BY DEF Extends, PCs, AllKinds, ApprovalActions, PatchActions, ShellActions, OtherActions, BridgeKinds
<1>2. /\ q \in ReqType
      /\ q.pc = "computed" /\ q.kind = kind /\ q.sid = s /\ q.st = next /\ q.todo = <<>> /\ q.broken = NoFile
  BY <1>1, LoadedType
<1>3. Readable(s) /\ Begins(r, s, kind) /\ req' = [req EXCEPT ![r] = q]
  BY DEF Records
<1> HIDE DEF q
<1>4. Begun(r, s, kind, q)
  BY <1>1, <1>2, <1>3 DEF Begun, Loads
<1> QED BY <1>4

LEMMA ApproveMoves ==
  ASSUME TypeInv, NEW r \in Requests, NEW s \in Sessions, NEW action \in ApprovalActions,
         Approve(r, action, s)
  PROVE  \E q : Begun(r, s, action, q)
<1> DEFINE st == record[s]
           outcome == Decided(r, action, st)
<1>1. PICK id \in Candidates \union {NoCand, "shell"} :
        /\ Readable(s) /\ Begins(r, s, action)
        /\ req' = [req EXCEPT ![r] = IF Accepted(st, action, id)
                                     THEN Loaded(r, action, s, outcome[1], outcome[2])
                                     ELSE Blank("none", s, "failed")]
  BY Zenon DEF Approve
<1>2. st \in SessionState /\ r \in Messages
  BY <1>1, StoreAssumption DEF TypeInv, TypeOK, Readable
<1>3. action \in AllKinds \ {"none", "delete"} /\ {"failed", "computed", "planning", "verifying", "undoing"} \subseteq PCs
  BY DEF AllKinds, ApprovalActions, PatchActions, ShellActions, OtherActions, PCs
<1>4. CASE ~Accepted(st, action, id)
  <2> DEFINE q == Blank("none", s, "failed")
  <2>1. /\ q \in ReqType
        /\ q.pc = "failed" /\ q.kind = "none" /\ q.sid = s /\ q.st = NoState /\ q.todo = <<>> /\ q.broken = NoFile
    BY <1>3, BlankType
  <2>2. req' = [req EXCEPT ![r] = q]
    BY <1>1, <1>4
  <2> HIDE DEF q
  <2>3. Begun(r, s, action, q)
    BY <1>1, <2>1, <2>2 DEF Begun, Refused
  <2> QED BY <2>3
<1>5. ASSUME Accepted(st, action, id), NEW pc \in PCs, NEW next \in SessionState,
             outcome = <<pc, next>>,
             \/ pc = "computed" /\ Extends(st, next, r, action)
             \/ pc = "planning" /\ action = "approve_patch" /\ next = st
             \/ pc = "verifying" /\ action = "approve_shell" /\ next = st
             \/ pc = "undoing" /\ action = "undo_latest_patch" /\ next = st
      PROVE  \E q : Begun(r, s, action, q)
  <2> DEFINE q == Loaded(r, action, s, pc, next)
  <2>1. /\ q \in ReqType
        /\ q.pc = pc /\ q.kind = action /\ q.sid = s /\ q.st = next /\ q.todo = <<>> /\ q.broken = NoFile
    BY <1>3, <1>5, LoadedType
  <2>2. outcome[1] = pc /\ outcome[2] = next
    BY <1>5
  <2>3. req' = [req EXCEPT ![r] = q]
    BY <1>1, <1>5, <2>2
  <2>4. pc = "planning" => PatchWaiting(next)
    BY <1>2, <1>5, AcceptedPatch DEF PatchActions
  <2> HIDE DEF q, outcome
  <2>5. Loads(r, s, action, q)
    BY <1>1, <1>3, <1>5, <2>1, <2>4 DEF Loads
  <2>6. Begun(r, s, action, q)
    BY <1>1, <2>1, <2>3, <2>5 DEF Begun
  <2> QED BY <2>6
<1>6. ASSUME Accepted(st, action, id)
      PROVE  \E q : Begun(r, s, action, q)
  <2>1. CASE action = "approve_patch" /\ MayApplyPatch(st)
    <3>1. outcome = <<"planning", st>>
      BY <2>1 DEF Decided
    <3> QED BY <1>2, <1>3, <1>5, <1>6, <2>1, <3>1
  <2>2. CASE action = "approve_shell" /\ st.allowed /\ (st.command => st.changed # {})
    <3>1. outcome = <<"verifying", st>>
      BY <2>2 DEF Decided
    <3> QED BY <1>2, <1>3, <1>5, <1>6, <2>2, <3>1
  <2>3. CASE action = "undo_latest_patch" /\ st.allowed
    <3>1. outcome = <<"undoing", st>>
      BY <2>3 DEF Decided
    <3> QED BY <1>2, <1>3, <1>5, <1>6, <2>3, <3>1
  <2>4. CASE action = "reject_patch"
    <3>1. outcome = <<"computed", PatchRejected(st)>>
      BY <2>4 DEF Decided
    <3>2. PatchWaiting(st)
      BY <1>2, <1>6, <2>4, AcceptedPatch DEF PatchActions
    <3>3. Extends(st, PatchRejected(st), r, action)
      BY <1>2, <2>4, <3>2, FailuresExtend DEF Recording
    <3> QED BY <1>3, <1>5, <1>6, <3>1, <3>3 DEF Extends
  <2>5. CASE action = "reject_shell"
    <3>1. outcome = <<"computed", ShellRejected(st)>>
      BY <2>5 DEF Decided
    <3>2. Extends(st, ShellRejected(st), r, action)
      BY <1>2, <2>5, MessagesExtend
    <3> QED BY <1>3, <1>5, <1>6, <3>1, <3>2 DEF Extends
  <2>6. CASE action = "request_re_review"
    <3>1. outcome = <<"computed", ReReviewRequested(st, r)>>
      BY <2>6 DEF Decided
    <3>2. Extends(st, ReReviewRequested(st, r), r, action)
      BY <1>2, <2>6, MessagesExtend
    <3> QED BY <1>3, <1>5, <1>6, <3>1, <3>2 DEF Extends
  <2>7. CASE /\ action \notin {"reject_patch", "reject_shell", "request_re_review"}
             /\ ~(action = "approve_patch" /\ MayApplyPatch(st))
             /\ ~(action = "approve_shell" /\ st.allowed /\ (st.command => st.changed # {}))
             /\ ~(action = "undo_latest_patch" /\ st.allowed)
    <3>1. outcome = <<"computed", st>>
      BY <2>7 DEF Decided
    <3>2. Extends(st, st, r, action)
      BY <1>2, <2>7, SameExtends DEF Recording, ApprovalActions, PatchActions, ShellActions, OtherActions
    <3> QED BY <1>2, <1>3, <1>5, <1>6, <3>1, <3>2
  <2> QED BY <2>1, <2>2, <2>3, <2>4, <2>5, <2>6, <2>7
<1> QED BY <1>4, <1>6

LEMMA LoadMoves ==
  ASSUME TypeInv, NEW r \in Requests, Load(r)
  PROVE  \E s \in Sessions, kind \in AllKinds \union {"none"} : \E q : Begun(r, s, kind, q)
<1>1. PICK s \in Sessions :
        \/ Message(r, s) \/ Rename(r, s) \/ Propose(r, s) \/ Review(r, s) \/ Judge(r, s)
        \/ StartWorkflow(r, s) \/ Delete(r, s)
        \/ (\E a \in ApprovalActions : Approve(r, a, s))
        \/ Unloadable(r, s)
  BY Zenon DEF Load
<1>2. {"message", "rename", "propose", "review", "judge", "start_workflow", "delete"} \subseteq AllKinds
  BY DEF AllKinds, BridgeKinds
<1>3. Readable(s) => record[s] \in SessionState
  BY DEF TypeInv, TypeOK, Readable
<1>4. r \in Messages
  BY StoreAssumption
<1>5. CASE Message(r, s)
  <2>1. Extends(record[s], Continued(record[s], r), r, "message")
    BY <1>3, <1>4, <1>5, MessagesExtend DEF Message, Records
  <2> QED BY <1>2, <1>5, <2>1, RecordsMoves DEF Message
<1>6. CASE Rename(r, s)
  <2>1. Extends(record[s], record[s], r, "rename")
    BY <1>3, <1>6, SameExtends DEF Rename, Records, Recording
  <2> QED BY <1>2, <1>6, <2>1, RecordsMoves DEF Rename
<1>7. CASE Propose(r, s)
  <2>1. PICK c \in Candidates \ Repairs : Records(r, "propose", s, Proposed(record[s], c, r))
    BY <1>7 DEF Propose
  <2>2. Extends(record[s], Proposed(record[s], c, r), r, "propose")
    BY <1>3, <1>4, <2>1, MessagesExtend DEF Records
  <2> QED BY <1>2, <2>1, <2>2, RecordsMoves
<1>8. CASE Review(r, s)
  <2>1. Extends(record[s], Reviewed(record[s], r), r, "review")
    BY <1>3, <1>4, <1>8, MessagesExtend DEF Review, Records
  <2> QED BY <1>2, <1>8, <2>1, RecordsMoves DEF Review
<1>9. CASE Judge(r, s)
  <2>1. PICK c \in Candidates : Records(r, "judge", s, Judged(record[s], c, r))
    BY <1>9 DEF Judge
  <2>2. Extends(record[s], Judged(record[s], c, r), r, "judge")
    BY <1>3, <1>4, <2>1, MessagesExtend DEF Records
  <2> QED BY <1>2, <2>1, <2>2, RecordsMoves
<1>10. CASE StartWorkflow(r, s)
  <2> DEFINE q == Loaded(r, "start_workflow", s, "computed", NewSession)
  <2>1. NewSession \in SessionState /\ "computed" \in PCs
    BY StoreAssumption DEF PCs
  <2>2. /\ q \in ReqType /\ q.pc = "computed" /\ q.kind = "start_workflow" /\ q.sid = s
        /\ q.st = NewSession /\ q.todo = <<>> /\ q.broken = NoFile
    BY <1>2, <2>1, LoadedType
  <2>3. /\ Begins(r, s, "start_workflow") /\ req' = [req EXCEPT ![r] = q]
        /\ s \notin dir /\ \A x \in Requests : req[x].sid # s
    BY <1>10 DEF StartWorkflow, Loaded
  <2> HIDE DEF q
  <2>4. Begun(r, s, "start_workflow", q)
    BY <2>2, <2>3 DEF Begun, Starts
  <2> QED BY <1>2, <2>4
<1>11. CASE Delete(r, s)
  <2> DEFINE q == Blank("delete", s, "removing")
  <2>1. /\ q \in ReqType /\ q.pc = "removing" /\ q.kind = "delete" /\ q.sid = s
        /\ q.st = NoState /\ q.todo = <<>> /\ q.broken = NoFile
    BY <1>2, BlankType DEF PCs
  <2>2. Begins(r, s, "delete") /\ req' = [req EXCEPT ![r] = q]
    BY <1>11 DEF Delete
  <2> HIDE DEF q
  <2>3. Begun(r, s, "delete", q)
    BY <2>1, <2>2 DEF Begun, Deletes
  <2> QED BY <1>2, <2>3
<1>12. CASE \E a \in ApprovalActions : Approve(r, a, s)
  BY <1>12, ApproveMoves DEF AllKinds
<1>13. CASE Unloadable(r, s)
  <2> DEFINE q == Blank("none", s, "failed")
  <2>1. /\ q \in ReqType /\ q.pc = "failed" /\ q.kind = "none" /\ q.sid = s
        /\ q.st = NoState /\ q.todo = <<>> /\ q.broken = NoFile
    BY BlankType DEF PCs
  <2>2. Begins(r, s, "none") /\ req' = [req EXCEPT ![r] = q]
    BY <1>13 DEF Unloadable
  <2> HIDE DEF q
  <2>3. Begun(r, s, "none", q)
    BY <2>1, <2>2 DEF Begun, Refused
  <2> QED BY <2>3
<1> QED BY <1>1, <1>5, <1>6, <1>7, <1>8, <1>9, <1>10, <1>11, <1>12, <1>13

(* --------------------------- a request at work ------------------------- *)

Moves(r, q) ==
  /\ req' = [req EXCEPT ![r] = q]
  /\ q \in ReqType /\ q.sid = req[r].sid /\ q.kind = req[r].kind

LEMMA PatchedType ==
  ASSUME NEW f, NEW content \in Contents
  PROVE  /\ Patched(f, content) # "none" => Patched(f, content) \in {"patched", "doubled"}
         /\ Snapshot(f, content).file = f
         /\ content \in Unpatched => Snapshot(f, content).content \in Unpatched
         /\ f \in Files => Snapshot(f, content) \in Snapshots
BY DEF Patched, Snapshot, Snapshots, Contents, Unpatched

LEMMA SavedType ==
  ASSUME undo \in Seq(Snapshots), NEW snap \in Snapshots, NEW first, NEW new \in Saved(snap, first)
  PROVE  /\ new \in Seq(Snapshots)
         /\ \A i \in 1 .. Len(new) : new[i] = snap \/ \E k \in 1 .. Len(undo) : new[i] = undo[k]
<1>1. CASE new = Append(undo, snap)
  BY <1>1
<1>2. CASE undo # <<>> /\ new = Append(Front(undo), snap) \o <<Last(undo)>>
  <2> DEFINE n == Len(undo)
             a == Append(Front(undo), snap)
  <2>1. n \in Nat \ {0}
    BY <1>2, EmptySeq
  <2>2. /\ Front(undo) \in Seq(Snapshots) /\ Len(Front(undo)) = n - 1
        /\ \A i \in 1 .. n - 1 : Front(undo)[i] = undo[i]
    <3>1. \A i \in 1 .. n - 1 : undo[i] \in Snapshots
      BY <2>1, LenProperties
    <3>2. /\ SubSeq(undo, 1, n - 1) \in Seq(Snapshots)
          /\ Len(SubSeq(undo, 1, n - 1)) = IF 1 <= n - 1 THEN (n - 1) - 1 + 1 ELSE 0
          /\ \A i \in 1 .. (n - 1) - 1 + 1 : SubSeq(undo, 1, n - 1)[i] = undo[1 + i - 1]
      BY <2>1, <3>1, SubSeqProperties
    <3> HIDE DEF n
    <3>3. (n - 1) - 1 + 1 = n - 1 /\ \A i \in 1 .. n - 1 : 1 + i - 1 = i
      BY <2>1
    <3>4. (IF 1 <= n - 1 THEN (n - 1) - 1 + 1 ELSE 0) = n - 1
      BY <2>1
    <3>5. Front(undo) = SubSeq(undo, 1, n - 1)
      BY DEF Front, n
    <3> QED BY <3>2, <3>3, <3>4, <3>5
  <2>3. /\ a \in Seq(Snapshots) /\ Len(a) = n
        /\ \A i \in 1 .. n : a[i] = snap \/ \E k \in 1 .. n : a[i] = undo[k]
    <3> HIDE DEF n
    <3>1. \A i \in 1 .. n : a[i] = IF i = n THEN snap ELSE Front(undo)[i]
      BY <2>1, <2>2
    <3> QED BY <2>1, <2>2, <3>1
  <2>4. Last(undo) \in Snapshots /\ Last(undo) = undo[n]
    BY <2>1, ElementOfSeq DEF Last
  <2>5. <<Last(undo)>> \in Seq(Snapshots) /\ Len(<<Last(undo)>>) = 1 /\ <<Last(undo)>>[1] = Last(undo)
    BY <2>4
  <2> HIDE DEF a, n
  <2>6. /\ new \in Seq(Snapshots) /\ Len(new) = n + 1
        /\ \A i \in 1 .. n + 1 : new[i] = IF i <= n THEN a[i] ELSE <<Last(undo)>>[i - n]
    BY <1>2, <2>3, <2>5, ConcatProperties DEF a
  <2>7. ASSUME NEW i \in 1 .. n + 1
        PROVE  (new[i] = a[i] /\ i \in 1 .. n) \/ new[i] = undo[n]
    <3>1. CASE i <= n
      BY <2>1, <2>6, <3>1
    <3>2. CASE i > n
      <4>1. i - n = 1 /\ ~(i <= n)
        BY <2>1, <3>2
      <4>2. new[i] = <<Last(undo)>>[i - n]
        BY <2>6, <4>1
      <4>3. <<Last(undo)>>[i - n] = <<Last(undo)>>[1]
        BY <4>1
      <4> QED BY <2>4, <2>5, <4>2, <4>3, Zenon
    <3> QED BY <2>1, <3>1, <3>2
  <2>8. \A i \in 1 .. n + 1 : new[i] = snap \/ \E k \in 1 .. n : new[i] = undo[k]
    BY <2>1, <2>3, <2>7
  <2>9. \A i \in 1 .. Len(new) : i \in 1 .. n + 1
    BY <2>6
  <2>10. new \in Seq(Snapshots)
    BY <2>6, Zenon
  <2>11. ASSUME NEW i \in 1 .. Len(new)
         PROVE  new[i] = snap \/ \E k \in 1 .. n : new[i] = undo[k]
    <3>1. i \in 1 .. n + 1
      BY <2>9, Zenon
    <3> QED BY <2>8, <3>1, Zenon
  <2>12. n = Len(undo)
    BY DEF n
  <2> HIDE DEF n
  <2> QED BY <2>10, <2>11, <2>12, ZenonT(60)
<1> QED BY <1>1, <1>2 DEF Saved

LEMMA TailRange ==
  ASSUME NEW s \in Seq(Files), s # <<>>, IsInjective(s)
  PROVE  /\ Head(s) \in Range(s) /\ Tail(s) \in Seq(Files) /\ IsInjective(Tail(s))
         /\ Range(Tail(s)) = Range(s) \ {Head(s)}
<1> DEFINE n == Len(s)
<1>1. n \in Nat \ {0} /\ DOMAIN s = 1 .. n
  BY EmptySeq, LenProperties
<1>2. Tail(s) \in Seq(Files) /\ DOMAIN Tail(s) = 1 .. n - 1 /\ \A i \in 1 .. n - 1 : Tail(s)[i] = s[i + 1]
  BY HeadTailProperties, LenProperties
<1>3. Head(s) = s[1]
  OBVIOUS
<1> HIDE DEF n
<1>4. IsInjective(Tail(s))
  BY <1>1, <1>2 DEF IsInjective
<1>5. \A i \in 1 .. n : i = 1 \/ i - 1 \in 1 .. n - 1
  BY <1>1
<1>6. Range(Tail(s)) \subseteq Range(s) \ {Head(s)}
  <2>1. ASSUME NEW i \in 1 .. n - 1
        PROVE  Tail(s)[i] \in Range(s) /\ Tail(s)[i] # Head(s)
    <3>1. i + 1 \in 1 .. n /\ 1 \in 1 .. n /\ i + 1 # 1
      BY <1>1
    <3> QED BY <1>1, <1>2, <1>3, <3>1 DEF Range, IsInjective
  <2> QED BY <1>2, <2>1, Zenon DEF Range
<1>7. ASSUME NEW i \in 1 .. n, s[i] # Head(s)
      PROVE  s[i] \in Range(Tail(s))
  <2>1. i - 1 \in 1 .. n - 1 /\ Tail(s)[i - 1] = s[i]
    BY <1>1, <1>2, <1>3, <1>7
  <2> QED BY <1>2, <2>1 DEF Range
<1>8. Head(s) \in Range(s)
  BY <1>1, <1>3 DEF Range
<1> QED BY <1>1, <1>2, <1>4, <1>6, <1>7, <1>8, ZenonT(60) DEF Range

LEMMA ConsRange ==
  ASSUME NEW s \in Seq(Files), IsInjective(s), NEW f \in Files, f \notin Range(s)
  PROVE  /\ <<f>> \o s \in Seq(Files) /\ IsInjective(<<f>> \o s)
         /\ Range(<<f>> \o s) = {f} \union Range(s)
<1> DEFINE n == Len(s)
           t == <<f>> \o s
<1>1. n \in Nat /\ DOMAIN s = 1 .. n /\ \A i \in 1 .. n : s[i] \in Range(s)
  BY LenProperties DEF Range
<1>2. <<f>> \in Seq(Files) /\ Len(<<f>>) = 1 /\ <<f>>[1] = f
  OBVIOUS
<1>3. /\ t \in Seq(Files) /\ Len(t) = 1 + n
      /\ \A i \in 1 .. 1 + n : t[i] = IF i <= 1 THEN <<f>>[i] ELSE s[i - 1]
  BY <1>2, ConcatProperties, Zenon
<1>4. DOMAIN t = 1 .. 1 + n
  BY <1>3, LenProperties
<1> HIDE DEF t, n
<1>5. t[1] = f /\ \A i \in 1 .. n : t[i + 1] = s[i]
  BY <1>1, <1>2, <1>3
<1>6. \A i \in 1 .. 1 + n : i = 1 \/ (i - 1 \in 1 .. n /\ t[i] = s[i - 1])
  BY <1>1, <1>3
<1>7. IsInjective(t)
  <2>1. ASSUME NEW i \in 1 .. 1 + n, NEW j \in 1 .. 1 + n, t[i] = t[j]
        PROVE  i = j
    <3>1. i = 1 => j = 1
      BY <1>1, <1>5, <1>6, <2>1
    <3>2. j = 1 => i = 1
      BY <1>1, <1>5, <1>6, <2>1
    <3>3. CASE i # 1 /\ j # 1
      <4>1. /\ i - 1 \in DOMAIN s /\ j - 1 \in DOMAIN s
            /\ s[i - 1] = s[j - 1]
        BY <1>1, <1>6, <2>1, <3>3
      <4>2. i - 1 = j - 1
        BY <4>1, Zenon DEF IsInjective
      <4> QED BY <1>1, <4>2
    <3> QED BY <3>1, <3>2, <3>3
  <2> QED BY <1>4, <2>1, Zenon DEF IsInjective
<1>8. Range(t) \subseteq {f} \union Range(s)
  BY <1>1, <1>4, <1>5, <1>6 DEF Range
<1>9. f \in Range(t)
  BY <1>1, <1>4, <1>5, SMTT(30) DEF Range
<1>10. ASSUME NEW i \in 1 .. n
       PROVE  s[i] \in Range(t)
  <2>1. i + 1 \in 1 .. 1 + n /\ t[i + 1] = s[i]
    BY <1>1, <1>5
  <2> QED BY <1>4, <2>1 DEF Range
<1>11. Range(s) \subseteq Range(t)
  BY <1>1, <1>10, Zenon DEF Range
<1>12. Range(t) = {f} \union Range(s)
  BY <1>8, <1>9, <1>11
<1> QED BY <1>3, <1>7, <1>12 DEF t

LEMMA ComputesMoves ==
  ASSUME TypeInv, NEW r \in Requests, NEW st \in SessionState, Computes(r, st)
  PROVE  \E q : /\ Moves(r, q) /\ q.pc = "computed" /\ q.st = st /\ q.todo = req[r].todo
                /\ q.written = req[r].written /\ q.base = req[r].base /\ q.broken = req[r].broken
<1> DEFINE q == [req[r] EXCEPT !.pc = "computed", !.st = st]
<1>1. req[r] \in ReqType /\ req' = [req EXCEPT ![r] = q]
  BY DEF Computes, TypeInv
<1>2. /\ q \in ReqType /\ q.sid = req[r].sid /\ q.kind = req[r].kind /\ q.pc = "computed" /\ q.st = st
      /\ q.todo = req[r].todo /\ q.written = req[r].written
      /\ q.base = req[r].base /\ q.broken = req[r].broken
  BY <1>1, ZenonT(60) DEF ReqType, PCs
<1> HIDE DEF q
<1>3. Moves(r, q)
  BY <1>1, <1>2 DEF Moves
<1> QED BY <1>2, <1>3

LEMMA PlanMoves ==
  ASSUME TypeInv, PhaseInv, NEW r \in Requests, Plan(r)
  PROVE  LET st == req[r].st
             fs == FilesOf[Selected(st)] IN
         /\ req[r].pc = "planning" /\ UNCHANGED <<disk, files, undo, faults>>
         /\ \E q : /\ Moves(r, q) /\ q.broken = req[r].broken
                   /\ \/ q.pc = "computed" /\ q.st = PatchFailed(st) /\ history' = history
                      \/ /\ q.pc = "writing" /\ q.st = st /\ q.base = files
                         /\ q.todo # <<>> /\ IsInjective(q.todo) /\ Range(q.todo) = fs
                         /\ q.written = <<>>
                         /\ \A f \in fs : Patched(f, files[f]) # "none"
                         /\ history' = [history EXCEPT
                               !.editors = @ \union {req[r].sid},
                               !.stacked = @ \/ ~({files[f] : f \in fs} \subseteq Unpatched)]
<1> DEFINE st == req[r].st
           c == Selected(st)
           todo == SetToSeq(FilesOf[c])
           failed == [req[r] EXCEPT !.pc = "computed", !.st = PatchFailed(st)]
           going == [req[r] EXCEPT !.pc = "writing", !.todo = todo, !.written = <<>>, !.base = files]
<1>1. req[r].pc = "planning" /\ UNCHANGED <<disk, files, undo, faults>>
  BY DEF Plan, Works
<1>2. st \in SessionState /\ PatchWaiting(st) /\ req[r] \in ReqType
  BY <1>1 DEF PhaseInv, Holds, Applying, Working, TypeInv
<1>3. c \in Candidates /\ FilesOf[c] # {} /\ FilesOf[c] \subseteq Files
  BY <1>2, WaitingIsNew DEF Files
<1>4. /\ todo \in Seq(FilesOf[c]) /\ IsInjective(todo) /\ Range(todo) = FilesOf[c] /\ todo # <<>>
  BY <1>3, StoreAssumption, FS_Subset, SeqOfSet
<1>5. todo \in Seq(Files) /\ files \in [Files -> Contents] /\ PatchFailed(st) \in SessionState
  <2>1. r \in Messages
    BY StoreAssumption
  <2>2. PatchFailed(st) \in SessionState
    BY <1>2, <2>1, RuleTypes
  <2>3. todo \in Seq(Files)
    BY <1>3, <1>4, SeqMonotonic, SMTT(30)
  <2> QED BY <2>2, <2>3, Zenon DEF TypeInv, TypeOK
<1> HIDE DEF todo
<1>6. CASE \E f \in Range(todo) : Patched(f, files[f]) = "none"
  <2>1. req' = [req EXCEPT ![r] = failed] /\ history' = history
    BY <1>6 DEF Plan, Computes, todo
  <2>2. /\ failed \in ReqType /\ failed.sid = req[r].sid /\ failed.kind = req[r].kind
        /\ failed.broken = req[r].broken /\ failed.pc = "computed" /\ failed.st = PatchFailed(st)
    BY <1>2, <1>5 DEF ReqType, PCs
  <2> HIDE DEF failed
  <2>3. Moves(r, failed)
    BY <2>1, <2>2 DEF Moves
  <2> QED BY <1>1, <2>1, <2>2, <2>3
<1>7. CASE \A f \in Range(todo) : Patched(f, files[f]) # "none"
  <2>1. /\ req' = [req EXCEPT ![r] = going]
        /\ history' = [history EXCEPT
                         !.editors = @ \union {req[r].sid},
                         !.stacked = @ \/ ~({files[f] : f \in FilesOf[c]} \subseteq Unpatched)]
    BY <1>4, <1>7 DEF Plan, todo
  <2>0. <<>> \in Seq(Files)
    OBVIOUS
  <2>2. /\ going \in ReqType /\ going.sid = req[r].sid /\ going.kind = req[r].kind
        /\ going.broken = req[r].broken /\ going.pc = "writing" /\ going.st = st
        /\ going.todo = todo /\ going.written = <<>> /\ going.base = files
    BY <1>2, <1>5, <2>0, ZenonT(60) DEF ReqType, PCs
  <2> HIDE DEF going
  <2>3. Moves(r, going)
    BY <2>1, <2>2 DEF Moves
  <2> QED BY <1>1, <1>4, <1>7, <2>1, <2>2, <2>3, ZenonT(60)
<1> QED BY <1>6, <1>7

LEMMA ThrownPlan ==
  ASSUME TypeInv, PhaseInv, NEW r \in Requests, PlanThrows(r)
  PROVE  /\ req[r].pc = "planning" /\ UNCHANGED <<disk, files, undo, faults, history>>
         /\ \E q : /\ Moves(r, q) /\ q.broken = req[r].broken
                   /\ q.pc = "computed" /\ q.st = PatchFailed(req[r].st)
<1>1. /\ req[r].pc = "planning" /\ UNCHANGED <<disk, files, undo, faults, history>>
      /\ Computes(r, PatchFailed(req[r].st))
  BY DEF PlanThrows, Works
<1>2. req[r].st \in SessionState /\ r \in Messages
  BY <1>1, StoreAssumption DEF PhaseInv, Holds, Applying, Working, TypeInv
<1>3. PatchFailed(req[r].st) \in SessionState
  BY <1>2, RuleTypes
<1> QED BY <1>1, <1>3, ComputesMoves

\* A patch that is being written: its candidate, and the file that comes next.
LEMMA WritingFacts ==
  ASSUME TypeInv, PhaseInv, TodoInv, NEW r \in Requests, req[r].pc \in {"writing", "rolling"}
  PROVE  LET st == req[r].st
             fs == FilesOf[Selected(st)]
             todo == req[r].todo IN
         /\ st \in SessionState /\ PatchWaiting(st) /\ req[r].kind = "approve_patch"
         /\ req[r] \in ReqType /\ req[r].base \in [Files -> Contents]
         /\ Selected(st) \in Candidates /\ fs \subseteq Files
         /\ todo \in Seq(Files) /\ Head(todo) \in Range(todo) \cap fs /\ Tail(todo) \in Seq(Files)
         /\ IsInjective(Tail(todo)) /\ Range(Tail(todo)) = Range(todo) \ {Head(todo)}
         /\ Range(todo) \subseteq fs
         /\ \A f \in fs : /\ Patched(f, req[r].base[f]) \in {"patched", "doubled"}
                         /\ Snapshot(f, req[r].base[f]) \in Snapshots
         /\ req[r].written \in Seq(Files) /\ IsInjective(req[r].written)
         /\ Range(req[r].written) \subseteq fs \ Range(todo)
<1>1. req[r].st \in SessionState /\ PatchWaiting(req[r].st) /\ req[r].kind = "approve_patch" /\ req[r] \in ReqType
  BY DEF PhaseInv, Holds, Applying, Working, TypeInv
<1>2. req[r].base \in [Files -> Contents] /\ {req[r].todo, req[r].written} \subseteq Seq(Files)
  BY <1>1 DEF ReqType
<1>3. Selected(req[r].st) \in Candidates /\ FilesOf[Selected(req[r].st)] \subseteq Files
  BY <1>1, WaitingIsNew DEF Files
<1>4. /\ req[r].todo # <<>> /\ IsInjective(req[r].todo)
      /\ Range(req[r].todo) \subseteq FilesOf[Selected(req[r].st)]
      /\ \A f \in FilesOf[Selected(req[r].st)] : Patched(f, req[r].base[f]) # "none"
      /\ IsInjective(req[r].written)
      /\ Range(req[r].written) \subseteq FilesOf[Selected(req[r].st)] \ Range(req[r].todo)
  BY DEF TodoInv
<1>5. \A f \in FilesOf[Selected(req[r].st)] : req[r].base[f] \in Contents /\ f \in Files
  BY <1>2, <1>3
<1> QED BY <1>1, <1>2, <1>3, <1>4, <1>5, TailRange, PatchedType

LEMMA WriteMoves ==
  ASSUME TypeInv, PhaseInv, TodoInv, NEW r \in Requests, WriteFile(r)
  PROVE  LET st == req[r].st
             base == req[r].base
             f == Head(req[r].todo) IN
         /\ req[r].pc = "writing" /\ UNCHANGED <<disk, faults>>
         /\ undo' \in Seq(Snapshots)
         /\ \A i \in 1 .. Len(undo') : \/ undo'[i] = Snapshot(f, base[f])
                                      \/ \E k \in 1 .. Len(undo) : undo'[i] = undo[k]
         /\ files' = [files EXCEPT ![f] = Patched(f, base[f])]
         /\ \E q : /\ Moves(r, q) /\ q.broken = req[r].broken /\ q.base = base
                   /\ \/ /\ q.pc = "computed" /\ q.st = PatchApplied(st) /\ Applied(r)
                         /\ Range(req[r].todo) = {f}
                      \/ /\ q.pc = "writing" /\ q.st = st /\ history' = history
                         /\ q.todo = Tail(req[r].todo) /\ q.todo # <<>>
                         /\ q.written = <<f>> \o req[r].written
<1> DEFINE f == Head(req[r].todo)
           rest == Tail(req[r].todo)
           first == Len(req[r].todo) = Cardinality(FilesOf[Selected(req[r].st)])
           more == <<f>> \o req[r].written
           q == [req[r] EXCEPT !.todo = rest, !.written = more]
<1>1. /\ req[r].pc = "writing" /\ UNCHANGED <<disk, faults>>
      /\ undo' \in Saved(Snapshot(f, req[r].base[f]), first)
      /\ files' = [files EXCEPT ![f] = Patched(f, req[r].base[f])]
      /\ IF rest = <<>>
         THEN Computes(r, PatchApplied(req[r].st)) /\ Applied(r)
         ELSE req' = [req EXCEPT ![r] = q] /\ UNCHANGED history
  BY Zenon DEF WriteFile, Works
<1>2. Snapshot(f, req[r].base[f]) \in Snapshots /\ undo \in Seq(Snapshots)
  BY <1>1, WritingFacts DEF TypeInv, TypeOK
<1>3. /\ undo' \in Seq(Snapshots)
      /\ \A i \in 1 .. Len(undo') : \/ undo'[i] = Snapshot(f, req[r].base[f])
                                   \/ \E k \in 1 .. Len(undo) : undo'[i] = undo[k]
  BY <1>1, <1>2, SavedType
<1>4. CASE rest = <<>>
  <2>1. PatchApplied(req[r].st) \in SessionState /\ Computes(r, PatchApplied(req[r].st)) /\ Applied(r)
    <3>1. r \in Messages /\ Selected(req[r].st) # NoCand /\ req[r].st \in SessionState
      BY <1>1, WritingFacts, StoreAssumption, CandidateAssumption
    <3> QED BY <1>1, <1>4, <3>1, ChangingTypes
  <2>2. Range(rest) = {}
    BY <1>4 DEF Range
  <2>3. Range(req[r].todo) = {f}
    BY <1>1, <2>2, WritingFacts
  <2> QED BY <1>1, <1>3, <2>1, <2>3, ComputesMoves
<1>5. CASE rest # <<>>
  <2>1. req' = [req EXCEPT ![r] = q] /\ history' = history
    BY <1>1, <1>5
  <2>2. req[r] \in ReqType /\ rest \in Seq(Files) /\ f \in Files /\ f \notin Range(req[r].written)
        /\ req[r].written \in Seq(Files) /\ IsInjective(req[r].written)
    BY <1>1, WritingFacts
  <2>5. more \in Seq(Files)
    BY <2>2, ConsRange
  <2> HIDE DEF more
  <2>3. /\ q \in ReqType /\ q.sid = req[r].sid /\ q.kind = req[r].kind /\ q.pc = "writing"
        /\ q.st = req[r].st /\ q.todo = rest /\ q.broken = req[r].broken /\ q.base = req[r].base
        /\ q.written = more
    BY <1>1, <2>2, <2>5 DEF ReqType
  <2> HIDE DEF q
  <2>4. Moves(r, q)
    BY <2>1, <2>3 DEF Moves
  <2> QED BY <1>1, <1>3, <1>5, <2>1, <2>3, <2>4 DEF more
<1> QED BY <1>4, <1>5

LEMMA FailMoves ==
  ASSUME TypeInv, PhaseInv, TodoInv, NEW r \in Requests, WriteFails(r)
  PROVE  LET base == req[r].base
             f == Head(req[r].todo) IN
         /\ req[r].pc = "writing" /\ UNCHANGED <<disk, faults>> /\ history' = history
         /\ undo' \in Seq(Snapshots)
         /\ \A i \in 1 .. Len(undo') : \/ undo'[i] = Snapshot(f, base[f])
                                      \/ \E k \in 1 .. Len(undo) : undo'[i] = undo[k]
         /\ f \in Files
         /\ \E left \in {files[f], "partial"} : files' = [files EXCEPT ![f] = left]
         /\ \E q : /\ Moves(r, q) /\ q.broken = f /\ q.base = base /\ q.pc = "rolling"
                   /\ q.st = req[r].st /\ q.todo = req[r].todo /\ q.written = req[r].written
<1> DEFINE f == Head(req[r].todo)
           first == Len(req[r].todo) = Cardinality(FilesOf[Selected(req[r].st)])
           q == [req[r] EXCEPT !.pc = "rolling", !.broken = f]
<1>1. /\ req[r].pc = "writing" /\ UNCHANGED <<disk, faults>> /\ history' = history
      /\ \/ undo' = undo /\ files' = files
         \/ /\ undo' \in Saved(Snapshot(f, req[r].base[f]), first)
            /\ \E left \in {files[f], "partial"} : files' = [files EXCEPT ![f] = left]
      /\ req' = [req EXCEPT ![r] = q]
  BY DEF WriteFails, Works
<1>2. /\ Snapshot(f, req[r].base[f]) \in Snapshots /\ undo \in Seq(Snapshots)
      /\ req[r] \in ReqType /\ f \in Files
  BY <1>1, WritingFacts DEF TypeInv, TypeOK
<1>3. /\ undo' \in Seq(Snapshots)
      /\ \A i \in 1 .. Len(undo') : \/ undo'[i] = Snapshot(f, req[r].base[f])
                                   \/ \E k \in 1 .. Len(undo) : undo'[i] = undo[k]
  <2>1. CASE undo' = undo
    BY <1>2, <2>1
  <2>2. CASE undo' \in Saved(Snapshot(f, req[r].base[f]), first)
    BY <1>2, <2>2, SavedType
  <2> QED BY <1>1, <2>1, <2>2
<1>6. \E left \in {files[f], "partial"} : files' = [files EXCEPT ![f] = left]
  <2>1. files = [files EXCEPT ![f] = files[f]]
    BY <1>2 DEF TypeInv, TypeOK
  <2> QED BY <1>1, <2>1
<1>4. /\ q \in ReqType /\ q.sid = req[r].sid /\ q.kind = req[r].kind /\ q.pc = "rolling"
      /\ q.st = req[r].st /\ q.todo = req[r].todo /\ q.written = req[r].written
      /\ q.broken = f /\ q.base = req[r].base
  BY <1>2 DEF ReqType, PCs
<1> HIDE DEF q
<1>5. Moves(r, q)
  BY <1>1, <1>4 DEF Moves
<1> QED BY <1>1, <1>2, <1>3, <1>4, <1>5, <1>6

\* A file of the rollback is restored, or the last one has been.
LEMMA RollMoves ==
  ASSUME TypeInv, PhaseInv, TodoInv, NEW r \in Requests, RollBack(r)
  PROVE  LET f == Head(req[r].written) IN
         /\ req[r].pc = "rolling" /\ UNCHANGED <<disk, undo, faults, history>>
         /\ \E q : /\ Moves(r, q) /\ q.broken = req[r].broken /\ q.base = req[r].base
                   /\ \/ /\ q.pc = "computed" /\ q.st = PatchFailed(req[r].st) /\ files' = files
                         /\ req[r].written = <<>> /\ q.written = <<>>
                      \/ /\ q.pc = "rolling" /\ q.st = req[r].st /\ q.todo = req[r].todo
                         /\ req[r].written # <<>> /\ q.written = Tail(req[r].written)
                         /\ files' = [files EXCEPT ![f] = req[r].base[f]]
<1> DEFINE f == Head(req[r].written)
           q == [req[r] EXCEPT !.written = Tail(req[r].written)]
<1>1. /\ req[r].pc = "rolling" /\ UNCHANGED <<disk, undo, faults, history>>
      /\ IF req[r].written = <<>>
         THEN Computes(r, PatchFailed(req[r].st)) /\ UNCHANGED files
         ELSE files' = [files EXCEPT ![f] = req[r].base[f]] /\ req' = [req EXCEPT ![r] = q]
  BY DEF RollBack, Works
<1>2. /\ req[r].st \in SessionState /\ r \in Messages /\ req[r] \in ReqType
      /\ req[r].written \in Seq(Files) /\ IsInjective(req[r].written)
  BY <1>1, WritingFacts, StoreAssumption
<1>3. CASE req[r].written = <<>>
  <2>1. PatchFailed(req[r].st) \in SessionState
    BY <1>2, RuleTypes
  <2> QED BY <1>1, <1>3, <2>1, ComputesMoves
<1>4. CASE req[r].written # <<>>
  <2>1. Tail(req[r].written) \in Seq(Files)
    BY <1>2, <1>4, TailRange
  <2>2. /\ q \in ReqType /\ q.sid = req[r].sid /\ q.kind = req[r].kind /\ q.pc = "rolling"
        /\ q.st = req[r].st /\ q.todo = req[r].todo /\ q.written = Tail(req[r].written)
        /\ q.broken = req[r].broken /\ q.base = req[r].base
    BY <1>1, <1>2, <2>1 DEF ReqType
  <2> HIDE DEF q
  <2>3. Moves(r, q)
    BY <1>1, <1>4, <2>2 DEF Moves
  <2> QED BY <1>1, <1>4, <2>2, <2>3
<1> QED BY <1>3, <1>4

LEMMA StopMoves ==
  ASSUME TypeInv, PhaseInv, TodoInv, NEW r \in Requests, RollBackThrows(r)
  PROVE  LET f == Head(req[r].written) IN
         /\ req[r].pc = "rolling" /\ UNCHANGED <<disk, undo>> /\ faults' \in 0..MaxFaults
         /\ f \in Range(req[r].written)
         /\ history' = [history EXCEPT !.unrestored = @ \union {r}]
         /\ \E left \in {files[f], "partial"} : files' = [files EXCEPT ![f] = left]
         /\ \E q : /\ Moves(r, q) /\ q.broken = req[r].broken /\ q.base = req[r].base
                   /\ q.pc = "computed" /\ q.st = PatchFailed(req[r].st) /\ q.written = req[r].written
<1> DEFINE f == Head(req[r].written)
<1>1. /\ req[r].pc = "rolling" /\ UNCHANGED <<disk, undo>> /\ Faulty /\ req[r].written # <<>>
      /\ \E left \in {files[f]} \union (IF req[r].base[f] = "missing" THEN {} ELSE {"partial"}) :
           files' = [files EXCEPT ![f] = left]
      /\ Computes(r, PatchFailed(req[r].st))
      /\ history' = [history EXCEPT !.unrestored = @ \union {r}]
  BY DEF RollBackThrows
<1>2. /\ req[r].st \in SessionState /\ r \in Messages
      /\ req[r].written \in Seq(Files) /\ IsInjective(req[r].written)
  BY <1>1, WritingFacts, StoreAssumption
<1>3. f \in Range(req[r].written)
  BY <1>1, <1>2, TailRange
<1>4. PatchFailed(req[r].st) \in SessionState
  BY <1>2, RuleTypes
<1>5. faults' \in 0..MaxFaults
  BY <1>1, FaultyType
<1>6. \E left \in {files[f], "partial"} : files' = [files EXCEPT ![f] = left]
  BY <1>1
<1>7. \E q : /\ Moves(r, q) /\ q.broken = req[r].broken /\ q.base = req[r].base
            /\ q.pc = "computed" /\ q.st = PatchFailed(req[r].st) /\ q.written = req[r].written
  BY <1>1, <1>4, ComputesMoves
<1> QED BY <1>1, <1>3, <1>5, <1>6, <1>7, Zenon

LEMMA UndoMoves ==
  ASSUME TypeInv, PhaseInv, NEW r \in Requests, UndoLatest(r)
  PROVE  LET st == req[r].st
             latest == Last(undo) IN
         /\ req[r].pc = "undoing" /\ UNCHANGED <<disk, undo, faults>>
         /\ \/ /\ files' = files /\ history' = history
               /\ \E q : /\ req' = [req EXCEPT ![r] = q] /\ q \in ReqType
                         /\ q.pc = "failed" /\ q.kind = "none" /\ q.sid = req[r].sid /\ q.st = NoState
                         /\ q.broken = NoFile
            \/ /\ latest \in Snapshots /\ \E k \in 1 .. Len(undo) : latest = undo[k]
               /\ files' = [files EXCEPT ![latest.file] = latest.content]
               /\ history' = [history EXCEPT
                               !.editors = @ \union {req[r].sid},
                               !.applied = {c \in @ : latest.file \notin FilesOf[c[2]]},
                               !.edited = @ \union {r}]
               /\ \E q : /\ Moves(r, q) /\ q.pc = "computed" /\ q.broken = req[r].broken
                         /\ q.st = Undone(st, latest.file, r)
<1> DEFINE latest == Last(undo)
<1>1. req[r].pc = "undoing" /\ UNCHANGED <<disk, undo, faults>>
  BY DEF UndoLatest, Works
<1>2. req[r].st \in SessionState /\ r \in Messages /\ undo \in Seq(Snapshots)
  BY <1>1, StoreAssumption DEF PhaseInv, Holds, Working, TypeInv, TypeOK
<1>3. CASE undo = <<>>
  <2> DEFINE q == Blank("none", req[r].sid, "failed")
  <2>1. req' = [req EXCEPT ![r] = q] /\ files' = files /\ history' = history
    BY <1>3 DEF UndoLatest
  <2>2. req[r].sid \in Sessions \union {NoSession} /\ "failed" \in PCs
    BY DEF TypeInv, ReqType, PCs
  <2>3. /\ q \in ReqType /\ q.pc = "failed" /\ q.kind = "none" /\ q.sid = req[r].sid
        /\ q.st = NoState /\ q.broken = NoFile
    BY <2>2, RefusedType, Zenon
  <2> HIDE DEF q
  <2>4. \E x : /\ req' = [req EXCEPT ![r] = x] /\ x \in ReqType
               /\ x.pc = "failed" /\ x.kind = "none" /\ x.sid = req[r].sid /\ x.st = NoState
               /\ x.broken = NoFile
    BY <2>1, <2>3, Zenon
  <2> QED BY <1>1, <2>1, <2>4, Zenon
<1>4. CASE undo # <<>>
  <2>1. Len(undo) \in 1 .. Len(undo)
    BY <1>2, <1>4, EmptySeq
  <2>2. latest \in Snapshots /\ latest = undo[Len(undo)]
    BY <1>2, <2>1, ElementOfSeq DEF Last
  <2>3. latest.file \in Files
    BY <2>2 DEF Snapshots
  <2>4. Undone(req[r].st, latest.file, r) \in SessionState
    BY <1>2, <2>3, ChangingTypes
  <2>5. /\ files' = [files EXCEPT ![latest.file] = latest.content]
        /\ history' = [history EXCEPT
                         !.editors = @ \union {req[r].sid},
                         !.applied = {c \in @ : latest.file \notin FilesOf[c[2]]},
                         !.edited = @ \union {r}]
        /\ Computes(r, Undone(req[r].st, latest.file, r))
    BY <1>4 DEF UndoLatest
  <2>6. \E q : /\ Moves(r, q) /\ q.pc = "computed" /\ q.broken = req[r].broken
               /\ q.st = Undone(req[r].st, latest.file, r)
    BY <2>4, <2>5, ComputesMoves
  <2> QED BY <1>1, <2>1, <2>2, <2>5, <2>6
<1> QED BY <1>3, <1>4

\* What any request may make of the runs and the summary of a session.
Honest(st, next, r, kind) ==
  /\ st.refs \subseteq next.refs /\ Range(st.runs) \subseteq Range(next.runs)
  /\ next.summary = "completed" =>
       \/ st.summary = "completed"
       \/ "passed" \in Range(next.runs)
       \/ (kind = "message" /\ r \in next.refs)

LEMMA RefreshedSummary ==
  ASSUME NEW st \in SessionState
  PROVE  LET t == RefreshSummary(st) IN
         /\ t.changed = st.changed /\ t.runs = st.runs /\ t.approved = st.approved /\ t.refs = st.refs
         /\ t.summary = "completed" => st.summary = "completed" \/ "passed" \in Range(st.runs)
<1> DEFINE t == RefreshSummary(st)
           new == SummaryOf(st.changed, st.runs)
<1>1. new = "completed" => "passed" \in Range(st.runs)
  <2>1. new = "completed" => Contains(st.runs, "passed")
    BY DEF SummaryOf
  <2>2. DOMAIN st.runs = 1 .. Len(st.runs)
    BY LenProperties DEF SessionState
  <2> QED BY <2>1, <2>2 DEF Contains, Range
<1>2. CASE st.plan
  <2>1. t = [st EXCEPT !.summary = new]
    BY <1>2 DEF RefreshSummary
  <2> HIDE DEF new, t
  <2> QED BY <1>1, <2>1 DEF SessionState, t
<1>3. CASE ~st.plan
  BY <1>3 DEF RefreshSummary
<1> QED BY <1>2, <1>3

LEMMA MoreRuns ==
  ASSUME NEW runs \in Seq(RunOutcomes), NEW more \in Seq(RunOutcomes)
  PROVE  runs \o more \in Seq(RunOutcomes) /\ Range(runs) \subseteq Range(runs \o more)
<1>1. /\ runs \o more \in Seq(RunOutcomes) /\ Len(runs \o more) = Len(runs) + Len(more)
      /\ \A i \in 1 .. Len(runs) + Len(more) : (runs \o more)[i] =
            IF i <= Len(runs) THEN runs[i] ELSE more[i - Len(runs)]
  BY ConcatProperties
<1>2. Len(runs) \in Nat /\ Len(more) \in Nat /\ DOMAIN runs = 1 .. Len(runs)
      /\ DOMAIN (runs \o more) = 1 .. Len(runs \o more)
  BY <1>1, LenProperties
<1>3. ASSUME NEW i \in 1 .. Len(runs)
      PROVE  i \in 1 .. Len(runs) + Len(more) /\ (runs \o more)[i] = runs[i]
  BY <1>1, <1>2
<1> QED BY <1>1, <1>2, <1>3 DEF Range

LEMMA VerifyRules ==
  ASSUME NEW st \in SessionState, NEW r \in Messages, NEW readable, NEW kind,
         NEW next \in {ShellRan(st, o, r) : o \in RunOutcomes}
                      \union {ShellBlocked(st), ShellAcknowledged(st, readable)}
  PROVE  /\ next \in SessionState /\ next.changed = st.changed
         /\ "repair" \in st.approved => "repair" \in next.approved
         /\ Honest(st, next, r, kind)
<1>0. st.runs \in Seq(RunOutcomes)
  BY DEF SessionState
<1>1. CASE next = ShellBlocked(st)
  <2>1. /\ next.changed = st.changed /\ next.approved = st.approved /\ next.summary = "failed"
        /\ next.runs = st.runs /\ next.refs = st.refs
    BY <1>1 DEF ShellBlocked, SessionState
  <2> QED BY <1>1, <2>1, RuleTypes DEF Honest
<1>2. ASSUME NEW t \in SessionState, next = RefreshSummary(t),
             t.changed = st.changed, t.approved = st.approved \union {"shell"}, t.summary = st.summary,
             Range(st.runs) \subseteq Range(t.runs), st.refs \subseteq t.refs, next \in SessionState
      PROVE  /\ next \in SessionState /\ next.changed = st.changed
             /\ "repair" \in st.approved => "repair" \in next.approved
             /\ Honest(st, next, r, kind)
  BY <1>2, RefreshedSummary DEF Honest
<1>3. ASSUME NEW o \in RunOutcomes, next = ShellRan(st, o, r)
      PROVE  /\ next \in SessionState /\ next.changed = st.changed
             /\ "repair" \in st.approved => "repair" \in next.approved
             /\ Honest(st, next, r, kind)
  <2> DEFINE runs == Append(st.runs, o)
             t == [st EXCEPT !.runs = runs, !.approved = @ \union {"shell"},
                             !.waiting = {}, !.refs = @ \union {r}]
  <2>1. runs \in Seq(RunOutcomes) /\ Range(st.runs) \subseteq Range(runs)
    <3>1. <<o>> \in Seq(RunOutcomes) /\ runs = st.runs \o <<o>>
      BY <1>0
    <3> QED BY <1>0, <3>1, MoreRuns
  <2>2. next = RefreshSummary(t)
    BY <1>3, Zenon DEF ShellRan
  <2> HIDE DEF runs
  <2>3. /\ t \in SessionState /\ t.runs = runs /\ t.refs = st.refs \union {r} /\ t.changed = st.changed
        /\ t.approved = st.approved \union {"shell"} /\ t.summary = st.summary
    BY <2>1 DEF SessionState
  <2>4. next \in SessionState
    BY <1>3, ChangingTypes
  <2> HIDE DEF t
  <2> QED BY <1>2, <2>1, <2>2, <2>3, <2>4
<1>4. CASE next = ShellAcknowledged(st, readable)
  <2> DEFINE run == StructuralRun(st, readable)
             runs == st.runs \o run
             t == [st EXCEPT !.runs = runs, !.approved = @ \union {"shell"}, !.waiting = {}]
  <2>1. runs \in Seq(RunOutcomes) /\ Range(st.runs) \subseteq Range(runs)
    <3>1. <<>> \in Seq(RunOutcomes) /\ <<"passed">> \in Seq(RunOutcomes)
      BY DEF RunOutcomes
    <3>2. run \in Seq(RunOutcomes)
      BY <3>1 DEF StructuralRun
    <3> HIDE DEF run
    <3> QED BY <1>0, <3>2, MoreRuns
  <2>2. next = RefreshSummary(t)
    BY <1>4, Zenon DEF ShellAcknowledged
  <2> HIDE DEF runs
  <2>3. /\ t \in SessionState /\ t.runs = runs /\ t.refs = st.refs /\ t.changed = st.changed
        /\ t.approved = st.approved \union {"shell"} /\ t.summary = st.summary
    BY <2>1 DEF SessionState
  <2>4. next \in SessionState
    BY <1>4, ChangingTypes
  <2> HIDE DEF t
  <2> QED BY <1>2, <2>1, <2>2, <2>3, <2>4
<1> QED BY <1>1, <1>3, <1>4

LEMMA VerifyMoves ==
  ASSUME TypeInv, PhaseInv, NEW r \in Requests, Verify(r)
  PROVE  LET st == req[r].st IN
         /\ req[r].pc = "verifying" /\ UNCHANGED <<disk, files, undo, faults, history>>
         /\ \E q : /\ Moves(r, q) /\ q.pc = "computed" /\ q.broken = req[r].broken
                   /\ q.st \in SessionState /\ q.st.changed = st.changed /\ Honest(st, q.st, r, q.kind)
                   /\ "repair" \in st.approved => "repair" \in q.st.approved
<1> DEFINE st == req[r].st
           readable == {f \in Files : files[f] \notin {"missing", "empty"}}
<1>1. /\ req[r].pc = "verifying" /\ UNCHANGED <<disk, files, undo, faults, history>>
      /\ \E next \in IF st.command THEN {ShellRan(st, o, r) : o \in RunOutcomes} \union {ShellBlocked(st)}
                      ELSE {ShellAcknowledged(st, readable)} : Computes(r, next)
  BY DEF Verify, Works
<1>2. st \in SessionState /\ r \in Messages
  BY <1>1, StoreAssumption DEF PhaseInv, Holds, Working, TypeInv
<1>3. PICK next \in {ShellRan(st, o, r) : o \in RunOutcomes}
                    \union {ShellBlocked(st), ShellAcknowledged(st, readable)} : Computes(r, next)
  BY <1>1
<1> HIDE DEF readable
<1>4. /\ next \in SessionState /\ next.changed = st.changed
      /\ "repair" \in st.approved => "repair" \in next.approved
      /\ Honest(st, next, r, req[r].kind)
  BY <1>2, VerifyRules
<1>5. PICK q : /\ Moves(r, q) /\ q.pc = "computed" /\ q.st = next /\ q.broken = req[r].broken
  BY <1>3, <1>4, ComputesMoves
<1>6. q.kind = req[r].kind
  BY <1>5 DEF Moves
<1> QED BY <1>1, <1>4, <1>5, <1>6

(* -------------------------- a request that saves ----------------------- *)

Keeps(r, q) ==
  /\ q.st = req[r].st /\ q.todo = req[r].todo /\ q.written = req[r].written
  /\ q.base = req[r].base /\ q.broken = req[r].broken
Drops(q) == q.st = NoState /\ q.todo = <<>> /\ q.broken = NoFile

LEMMA GoesMoves ==
  ASSUME TypeInv, NEW r \in Requests, NEW pc \in PCs, Goes(r, pc)
  PROVE  \E q : Moves(r, q) /\ q.pc = pc /\ IF pc \in Finished THEN Drops(q) ELSE Keeps(r, q)
<1>1. /\ req[r] \in ReqType /\ req[r].sid \in Sessions \union {NoSession}
      /\ req[r].kind \in AllKinds \union {"none"}
  BY DEF TypeInv, ReqType
<1>2. CASE pc \in Finished
  <2> DEFINE kind == req[r].kind
             sid == req[r].sid
             q == Blank(kind, sid, pc)
  <2>1. req' = [req EXCEPT ![r] = q]
    BY <1>2 DEF Goes
  <2>4. kind \in AllKinds \union {"none"} /\ sid \in Sessions \union {NoSession}
    BY <1>1
  <2> HIDE DEF kind, sid
  <2>2. /\ q \in ReqType /\ q.pc = pc /\ q.kind = kind /\ q.sid = sid
        /\ q.st = NoState /\ q.todo = <<>> /\ q.broken = NoFile
    BY <2>4, BlankType
  <2> HIDE DEF q
  <2>3. Moves(r, q) /\ Drops(q)
    BY <2>1, <2>2 DEF Moves, Drops, kind, sid
  <2> QED BY <1>2, <2>2, <2>3
<1>3. CASE pc \notin Finished
  <2> DEFINE q == [req[r] EXCEPT !.pc = pc]
  <2>1. req' = [req EXCEPT ![r] = q]
    BY <1>3 DEF Goes
  <2>2. q \in ReqType /\ q.pc = pc /\ q.kind = req[r].kind /\ q.sid = req[r].sid /\ Keeps(r, q)
    BY <1>1 DEF Keeps, ReqType
  <2> HIDE DEF q
  <2>3. Moves(r, q)
    BY <2>1, <2>2 DEF Moves
  <2> QED BY <1>3, <2>2, <2>3
<1> QED BY <1>2, <1>3

\* The steps of a save and of a deletion, by what they do to the record and to the directory.
Opened(r, q) ==
  /\ req[r].pc = "computed" /\ q.pc = "torn" /\ Keeps(r, q) /\ history' = history
  /\ record' = [record EXCEPT ![req[r].sid] = Torn] /\ dir' = dir \union {req[r].sid}
Filled(r, q) ==
  /\ req[r].pc = "torn" /\ q.pc = "filled" /\ Keeps(r, q) /\ history' = history /\ dir' = dir
  /\ \/ record[req[r].sid] = Torn /\ record' = [record EXCEPT ![req[r].sid] = q.st]
     \/ record[req[r].sid] = Absent /\ record' = record
     \/ /\ Readable(req[r].sid)
        /\ \E new \in {q.st, Torn} : record' = [record EXCEPT ![req[r].sid] = new]
Passed(r, q) ==
  /\ <<req[r].pc, q.pc>> \in {<<"filled", "events">>, <<"events", "artifacts">>, <<"removed", "repointing">>,
                             <<"removed", "listing">>, <<"repointing", "listing">>}
  /\ Keeps(r, q) /\ history' = history /\ record' = record
  /\ dir' = dir \/ (req[r].pc = "events" /\ dir' = dir \union {req[r].sid})
Removed(r, q) ==
  /\ req[r].pc = "removing" /\ q.pc = "removed" /\ Keeps(r, q)
  /\ history' = history
  /\ record' = [record EXCEPT ![req[r].sid] = Absent] /\ dir' = dir \ {req[r].sid}
Ended(r, q) ==
  /\ req[r].pc \in {"computed", "filled", "artifacts", "removing", "removed", "listing"}
  /\ q.pc \in {"done", "failed"} /\ Drops(q) /\ history' = history /\ record' = record /\ dir' = dir
  /\ q.pc = "done" /\ q.kind \in Recording => req[r].pc = "artifacts"
  /\ req[r].pc = "computed" => req[r].sid \notin dir

Artifacts == {"none", "real", "placeholder", "partial"}

StoreType ==
  /\ record \in [Sessions -> SessionState \union {Absent, Torn}]
  /\ dir \subseteq Sessions
  /\ store \in [Sessions -> [Messages -> Artifacts]]
  /\ pointer \in Sessions \union {NoSession}

SaveStep(r) ==
  \/ OpenRecord(r) \/ FillRecord(r) \/ WriteEvents(r) \/ WriteArtifacts(r) \/ SavePointer(r)
  \/ EndRename(r) \/ RemoveSession(r) \/ FindNext(r) \/ MovePointer(r) \/ AnswerDelete(r)

LEMMA SaveMoves ==
  ASSUME TypeInv, PhaseInv, NEW r \in Requests, SaveStep(r)
  PROVE  /\ UNCHANGED <<files, undo, faults>> /\ StoreType'
         /\ \E q : /\ Moves(r, q)
                   /\ \/ Opened(r, q) \/ Filled(r, q) \/ Passed(r, q) \/ Removed(r, q) \/ Ended(r, q)
<1> DEFINE s == req[r].sid
<1>1. {"torn", "filled", "events", "artifacts", "removed", "repointing", "listing", "done", "failed"} \subseteq PCs
  BY DEF PCs
<1>2. StoreType /\ req[r] \in ReqType
  BY DEF TypeInv, TypeOK, StoreType, Artifacts
<1>3. /\ req[r].pc \in {"computed", "torn", "filled", "events", "artifacts"} => s \in Sessions /\ req[r].st \in SessionState
      /\ req[r].pc \in {"removing", "removed", "repointing", "listing"} => s \in Sessions /\ req[r].kind = "delete"
  BY DEF PhaseInv, Active, Holds, Saving, Deleting, Finished
<1>4. "delete" \notin Recording /\ "rename" \notin Recording
  BY DEF Recording
<1>5. CASE OpenRecord(r)
  <2>1. /\ req[r].pc = "computed" /\ UNCHANGED <<files, undo, faults>> /\ history' = history
        /\ UNCHANGED <<store, pointer>>
    BY <1>5 DEF OpenRecord, Saves
  <2>2. CASE req[r].kind = "rename" /\ s \notin dir
    <3>1. Goes(r, "failed") /\ UNCHANGED <<record, dir>>
      BY <1>5, <2>2 DEF OpenRecord
    <3>2. PICK q : Moves(r, q) /\ q.pc = "failed" /\ Drops(q)
      BY <1>1, <3>1, GoesMoves DEF Finished
    <3>3. Ended(r, q)
      BY <2>1, <2>2, <3>1, <3>2 DEF Ended
    <3> QED BY <1>2, <2>1, <3>1, <3>2, <3>3 DEF StoreType
  <2>3. CASE ~(req[r].kind = "rename" /\ s \notin dir)
    <3>1. Goes(r, "torn") /\ record' = [record EXCEPT ![s] = Torn] /\ dir' = dir \union {s}
      BY <1>5, <2>3 DEF OpenRecord
    <3>2. PICK q : Moves(r, q) /\ q.pc = "torn" /\ Keeps(r, q)
      BY <1>1, <3>1, GoesMoves DEF Finished
    <3>3. Opened(r, q)
      BY <2>1, <3>1, <3>2 DEF Opened
    <3>4. StoreType'
      BY <1>2, <1>3, <2>1, <3>1 DEF StoreType
    <3> QED BY <2>1, <3>2, <3>3, <3>4
  <2> QED BY <2>2, <2>3
<1>6. CASE FillRecord(r)
  <2>1. /\ req[r].pc = "torn" /\ UNCHANGED <<files, undo, faults>> /\ history' = history
        /\ UNCHANGED <<dir, store, pointer>> /\ Goes(r, "filled")
        /\ \/ record[s] = Torn /\ record' = [record EXCEPT ![s] = req[r].st]
           \/ record[s] = Absent /\ record' = record
           \/ Readable(s) /\ \E new \in {req[r].st, Torn} : record' = [record EXCEPT ![s] = new]
    BY <1>6 DEF FillRecord, Saves
  <2>2. PICK q : Moves(r, q) /\ q.pc = "filled" /\ Keeps(r, q)
    BY <1>1, <2>1, GoesMoves DEF Finished
  <2>3. Filled(r, q)
    BY <2>1, <2>2 DEF Filled, Keeps
  <2>4. StoreType'
    BY <1>2, <1>3, <2>1 DEF StoreType
  <2> QED BY <2>1, <2>2, <2>3, <2>4
<1>7. CASE WriteEvents(r)
  <2>1. /\ req[r].pc = "filled" /\ UNCHANGED <<files, undo, faults>> /\ history' = history
        /\ UNCHANGED <<record, dir, store, pointer>> /\ (Goes(r, "events") \/ Goes(r, "failed"))
    BY <1>7 DEF WriteEvents, Saves, disk
  <2>2. StoreType'
    BY <1>2, <2>1 DEF StoreType
  <2>3. CASE Goes(r, "events")
    <3>1. PICK q : Moves(r, q) /\ q.pc = "events" /\ Keeps(r, q)
      BY <1>1, <2>3, GoesMoves DEF Finished
    <3>2. Passed(r, q)
      BY <2>1, <3>1 DEF Passed
    <3> QED BY <2>1, <2>2, <3>1, <3>2
  <2>4. CASE Goes(r, "failed")
    <3>1. PICK q : Moves(r, q) /\ q.pc = "failed" /\ Drops(q)
      BY <1>1, <2>4, GoesMoves DEF Finished
    <3>2. Ended(r, q)
      BY <2>1, <3>1 DEF Ended
    <3> QED BY <2>1, <2>2, <3>1, <3>2
  <2> QED BY <2>1, <2>3, <2>4
<1>8. CASE WriteArtifacts(r)
  <2>1. /\ req[r].pc = "events" /\ UNCHANGED <<files, undo, faults>> /\ history' = history
        /\ UNCHANGED <<record, pointer>> /\ Goes(r, "artifacts")
        /\ (dir' = dir \/ dir' = dir \union {s})
        /\ store' = [store EXCEPT ![s] =
              [m \in Messages |-> IF m \in WrittenRefs(r) THEN HeldContent(r, m) ELSE @[m]]]
    BY <1>8 DEF WriteArtifacts, Saves
  <2>2. PICK q : Moves(r, q) /\ q.pc = "artifacts" /\ Keeps(r, q)
    BY <1>1, <2>1, GoesMoves DEF Finished
  <2>3. Passed(r, q)
    BY <2>1, <2>2 DEF Passed
  <2>4. StoreType'
    <3>1. \A m : HeldContent(r, m) \in Artifacts
      BY DEF HeldContent, Artifacts
    <3>2. [m \in Messages |-> IF m \in WrittenRefs(r) THEN HeldContent(r, m) ELSE store[s][m]]
            \in [Messages -> Artifacts]
      BY <1>2, <1>3, <2>1, <3>1 DEF StoreType
    <3>3. store' \in [Sessions -> [Messages -> Artifacts]]
      BY <1>2, <2>1, <3>2 DEF StoreType
    <3> QED BY <1>2, <1>3, <2>1, <3>3 DEF StoreType
  <2> QED BY <2>1, <2>2, <2>3, <2>4
<1>9. CASE SavePointer(r)
  <2>1. /\ req[r].pc = "artifacts" /\ UNCHANGED <<files, undo, faults>> /\ history' = history
        /\ UNCHANGED <<record, dir, store>> /\ pointer' = s /\ Goes(r, "done")
    BY <1>9 DEF SavePointer, Saves
  <2>2. PICK q : Moves(r, q) /\ q.pc = "done" /\ Drops(q)
    BY <1>1, <2>1, GoesMoves DEF Finished
  <2>3. Ended(r, q)
    BY <2>1, <2>2 DEF Ended
  <2>4. StoreType'
    BY <1>2, <1>3, <2>1 DEF StoreType
  <2> QED BY <2>1, <2>2, <2>3, <2>4
<1>10. CASE EndRename(r)
  <2>1. /\ req[r].pc = "filled" /\ UNCHANGED <<files, undo, faults>> /\ history' = history
        /\ UNCHANGED <<record, dir, store, pointer>> /\ req[r].kind = "rename"
        /\ (Goes(r, "done") \/ Goes(r, "failed"))
    BY <1>10 DEF EndRename, Saves, disk
  <2>2. PICK q : Moves(r, q) /\ q.pc \in {"done", "failed"} /\ Drops(q)
    BY <1>1, <2>1, GoesMoves DEF Finished
  <2>3. Ended(r, q)
    BY <1>4, <2>1, <2>2 DEF Ended, Moves
  <2>4. StoreType'
    BY <1>2, <2>1 DEF StoreType
  <2> QED BY <2>1, <2>2, <2>3, <2>4
<1>11. CASE RemoveSession(r)
  <2>1. req[r].pc = "removing" /\ UNCHANGED <<files, undo, faults>> /\ UNCHANGED pointer
    BY <1>11 DEF RemoveSession, Saves
  <2>2. CASE record[s] = Absent
    <3>1. Goes(r, "failed") /\ UNCHANGED <<record, dir, store>> /\ history' = history
      BY <1>11, <2>2 DEF RemoveSession
    <3>2. PICK q : Moves(r, q) /\ q.pc = "failed" /\ Drops(q)
      BY <1>1, <3>1, GoesMoves DEF Finished
    <3>3. Ended(r, q)
      BY <2>1, <3>1, <3>2 DEF Ended
    <3>4. StoreType'
      BY <1>2, <2>1, <3>1 DEF StoreType
    <3> QED BY <2>1, <3>2, <3>3, <3>4
  <2>3. CASE record[s] # Absent
    <3>1. /\ Goes(r, "removed") /\ record' = [record EXCEPT ![s] = Absent] /\ dir' = dir \ {s}
          /\ store' = [store EXCEPT ![s] = [m \in Messages |-> "none"]]
          /\ history' = history
      BY <1>11, <2>3 DEF RemoveSession
    <3>2. PICK q : Moves(r, q) /\ q.pc = "removed" /\ Keeps(r, q)
      BY <1>1, <3>1, GoesMoves DEF Finished
    <3>3. Removed(r, q)
      BY <2>1, <3>1, <3>2 DEF Removed
    <3>4. StoreType'
      <4>1. [m \in Messages |-> "none"] \in [Messages -> Artifacts]
        BY DEF Artifacts
      <4> QED BY <1>2, <1>3, <2>1, <3>1, <4>1 DEF StoreType
    <3> QED BY <2>1, <3>2, <3>3, <3>4
  <2> QED BY <2>2, <2>3
<1>12. CASE FindNext(r)
  <2>1. /\ req[r].pc = "removed" /\ UNCHANGED <<files, undo, faults>> /\ history' = history
        /\ UNCHANGED <<record, dir, store, pointer>>
    BY <1>12 DEF FindNext, Saves, disk
  <2>2. StoreType'
    BY <1>2, <2>1 DEF StoreType
  <2>3. CASE Goes(r, "listing")
    <3>1. PICK q : Moves(r, q) /\ q.pc = "listing" /\ Keeps(r, q)
      BY <1>1, <2>3, GoesMoves DEF Finished
    <3>2. Passed(r, q)
      BY <2>1, <3>1 DEF Passed
    <3> QED BY <2>1, <2>2, <3>1, <3>2
  <2>4. CASE Goes(r, "failed")
    <3>1. PICK q : Moves(r, q) /\ q.pc = "failed" /\ Drops(q)
      BY <1>1, <2>4, GoesMoves DEF Finished
    <3>2. Ended(r, q)
      BY <2>1, <3>1 DEF Ended
    <3> QED BY <2>1, <2>2, <3>1, <3>2
  <2>5. CASE \E next \in IF dir = {} THEN {NoSession} ELSE dir :
               req' = [req EXCEPT ![r] = [@ EXCEPT !.pc = "repointing", !.next = next]]
    <3>1. PICK next \in IF dir = {} THEN {NoSession} ELSE dir :
            req' = [req EXCEPT ![r] = [@ EXCEPT !.pc = "repointing", !.next = next]]
      BY <2>5
    <3> DEFINE q == [req[r] EXCEPT !.pc = "repointing", !.next = next]
    <3>2. req' = [req EXCEPT ![r] = q] /\ next \in Sessions \union {NoSession}
      BY <1>2, <3>1 DEF StoreType
    <3>3. q \in ReqType /\ q.sid = s /\ q.kind = req[r].kind /\ q.pc = "repointing" /\ Keeps(r, q)
      BY <1>1, <1>2, <3>2 DEF ReqType, Keeps
    <3> HIDE DEF q
    <3>4. Moves(r, q) /\ Passed(r, q)
      BY <2>1, <3>2, <3>3 DEF Moves, Passed
    <3> QED BY <2>1, <2>2, <3>4
  <2> QED BY <1>12, <2>3, <2>4, <2>5 DEF FindNext
<1>13. CASE MovePointer(r)
  <2>1. /\ req[r].pc = "repointing" /\ UNCHANGED <<files, undo, faults>> /\ history' = history
        /\ UNCHANGED <<record, dir, store>> /\ pointer' = req[r].next /\ Goes(r, "listing")
    BY <1>13 DEF MovePointer, Saves
  <2>2. PICK q : Moves(r, q) /\ q.pc = "listing" /\ Keeps(r, q)
    BY <1>1, <2>1, GoesMoves DEF Finished
  <2>3. Passed(r, q)
    BY <2>1, <2>2 DEF Passed
  <2>4. req[r].next \in Sessions \union {NoSession}
    BY <1>2 DEF ReqType
  <2>5. StoreType'
    BY <1>2, <2>1, <2>4 DEF StoreType
  <2> QED BY <2>1, <2>2, <2>3, <2>5
<1>14. CASE AnswerDelete(r)
  <2>1. /\ req[r].pc = "listing" /\ UNCHANGED <<files, undo, faults>> /\ history' = history
        /\ UNCHANGED <<record, dir, store, pointer>> /\ (Goes(r, "done") \/ Goes(r, "failed"))
    BY <1>14 DEF AnswerDelete, Saves, disk
  <2>2. PICK q : Moves(r, q) /\ q.pc \in {"done", "failed"} /\ Drops(q)
    BY <1>1, <2>1, GoesMoves DEF Finished
  <2>3. Ended(r, q)
    BY <1>3, <1>4, <2>1, <2>2 DEF Ended, Moves
  <2>4. StoreType'
    BY <1>2, <2>1 DEF StoreType
  <2> QED BY <2>1, <2>2, <2>3, <2>4
<1> QED BY <1>5, <1>6, <1>7, <1>8, <1>9, <1>10, <1>11, <1>12, <1>13, <1>14 DEF SaveStep

(* ------------------------ the steps of a request ----------------------- *)

\* The steps of a request at work, by what they do to the copy, the files and the snapshots.
Snaps(r) ==
  LET f == Head(req[r].todo) IN
  /\ undo' \in Seq(Snapshots)
  /\ \A i \in 1 .. Len(undo') : \/ undo'[i] = Snapshot(f, req[r].base[f])
                               \/ \E k \in 1 .. Len(undo) : undo'[i] = undo[k]
PlanFails(r, q) ==
  /\ req[r].pc = "planning" /\ q.pc = "computed" /\ q.st = PatchFailed(req[r].st) /\ q.broken = req[r].broken
  /\ files' = files /\ undo' = undo /\ history' = history
Planned(r, q) ==
  LET fs == FilesOf[Selected(q.st)] IN
  /\ req[r].pc = "planning" /\ q.pc = "writing" /\ q.st = req[r].st /\ q.broken = req[r].broken
  /\ q.base = files /\ q.todo # <<>> /\ IsInjective(q.todo) /\ Range(q.todo) = fs /\ q.written = <<>>
  /\ \A f \in fs : Patched(f, files[f]) # "none"
  /\ files' = files /\ undo' = undo
  /\ history' = [history EXCEPT !.editors = @ \union {req[r].sid},
                                !.stacked = @ \/ ~({files[f] : f \in fs} \subseteq Unpatched)]
WroteOne(r, q) ==
  LET f == Head(req[r].todo) IN
  /\ req[r].pc = "writing" /\ q.pc = "writing" /\ q.st = req[r].st /\ q.broken = req[r].broken
  /\ q.base = req[r].base /\ q.todo = Tail(req[r].todo) /\ q.todo # <<>>
  /\ q.written = <<f>> \o req[r].written
  /\ files' = [files EXCEPT ![f] = Patched(f, req[r].base[f])] /\ Snaps(r) /\ history' = history
WroteLast(r, q) ==
  LET f == Head(req[r].todo) IN
  /\ req[r].pc = "writing" /\ q.pc = "computed" /\ q.st = PatchApplied(req[r].st) /\ q.broken = req[r].broken
  /\ Range(req[r].todo) = {f}
  /\ files' = [files EXCEPT ![f] = Patched(f, req[r].base[f])] /\ Snaps(r) /\ Applied(r)
Broke(r, q) ==
  LET f == Head(req[r].todo) IN
  /\ req[r].pc = "writing" /\ q.pc = "rolling" /\ q.st = req[r].st /\ q.broken = f
  /\ q.base = req[r].base /\ q.todo = req[r].todo /\ q.written = req[r].written /\ f \in Files
  /\ \E left \in {files[f], "partial"} : files' = [files EXCEPT ![f] = left]
  /\ Snaps(r) /\ history' = history
RolledOne(r, q) ==
  LET f == Head(req[r].written) IN
  /\ req[r].pc = "rolling" /\ q.pc = "rolling" /\ q.st = req[r].st /\ q.broken = req[r].broken
  /\ q.base = req[r].base /\ q.todo = req[r].todo
  /\ req[r].written # <<>> /\ q.written = Tail(req[r].written)
  /\ files' = [files EXCEPT ![f] = req[r].base[f]]
  /\ undo' = undo /\ history' = history
Rolled(r, q) ==
  /\ req[r].pc = "rolling" /\ q.pc = "computed" /\ q.st = PatchFailed(req[r].st) /\ q.broken = req[r].broken
  /\ q.base = req[r].base /\ req[r].written = <<>> /\ q.written = <<>>
  /\ files' = files /\ undo' = undo /\ history' = history
Stopped(r, q) ==
  LET f == Head(req[r].written) IN
  /\ req[r].pc = "rolling" /\ q.pc = "computed" /\ q.st = PatchFailed(req[r].st) /\ q.broken = req[r].broken
  /\ q.base = req[r].base /\ f \in Range(req[r].written) /\ q.written = req[r].written
  /\ \E left \in {files[f], "partial"} : files' = [files EXCEPT ![f] = left]
  /\ undo' = undo /\ history' = [history EXCEPT !.unrestored = @ \union {r}]
NoneUndone(r, q) ==
  /\ req[r].pc = "undoing" /\ q.pc = "failed" /\ q.kind = "none" /\ q.st = NoState /\ q.broken = NoFile
  /\ files' = files /\ undo' = undo /\ history' = history
OneUndone(r, q) ==
  LET latest == Last(undo) IN
  /\ req[r].pc = "undoing" /\ q.pc = "computed" /\ q.broken = req[r].broken
  /\ q.st = Undone(req[r].st, latest.file, r)
  /\ latest \in Snapshots /\ \E k \in 1 .. Len(undo) : latest = undo[k]
  /\ files' = [files EXCEPT ![latest.file] = latest.content] /\ undo' = undo
  /\ history' = [history EXCEPT !.editors = @ \union {req[r].sid},
                                !.applied = {c \in @ : latest.file \notin FilesOf[c[2]]},
                                !.edited = @ \union {r}]
Ran(r, q) ==
  /\ req[r].pc = "verifying" /\ q.pc = "computed" /\ q.broken = req[r].broken
  /\ q.st \in SessionState /\ q.st.changed = req[r].st.changed /\ Honest(req[r].st, q.st, r, q.kind)
  /\ "repair" \in req[r].st.approved => "repair" \in q.st.approved
  /\ files' = files /\ undo' = undo /\ history' = history

Worked(r, q) ==
  /\ UNCHANGED disk
  /\ \/ PlanFails(r, q) \/ Planned(r, q) \/ WroteOne(r, q) \/ WroteLast(r, q) \/ Broke(r, q)
     \/ RolledOne(r, q) \/ Rolled(r, q) \/ Stopped(r, q)
     \/ NoneUndone(r, q) \/ OneUndone(r, q) \/ Ran(r, q)
  /\ q.kind = req[r].kind \/ NoneUndone(r, q)

SavedOn(r, q) ==
  /\ files' = files /\ undo' = undo /\ StoreType' /\ q.kind = req[r].kind
  /\ \/ Opened(r, q) \/ Filled(r, q) \/ Passed(r, q) \/ Removed(r, q) \/ Ended(r, q)

\* The ways in which a request throws: it gives up and leaves the files and the record, forgets what
\* it computed, undoes a part of a file, or leaves its record half written or half removed.
GaveUp(r) ==
  /\ req[r].pc \in {"undoing", "verifying", "filled", "events", "artifacts",
                     "removing", "removed", "repointing", "listing"}
  /\ files' = files /\ record' = record /\ history' = history
  /\ dir' = dir \/ (req[r].pc = "events" /\ dir' = dir \union {req[r].sid})
Forgot(r) ==
  /\ req[r].pc = "computed" /\ files' = files /\ record' = record
  /\ \/ /\ dir' = dir
        /\ history' = [history EXCEPT !.unrecorded = @ \union Changing(r)]
     \/ /\ dir' = dir \union {req[r].sid}
        /\ history' = [history EXCEPT !.unrecorded = @ \union Changing(r), !.cut = @ \union {r}]
HalfUndone(r) ==
  /\ req[r].pc = "undoing" /\ record' = record /\ dir' = dir
  /\ \E f \in Files : files' = [files EXCEPT ![f] = "partial"]
  /\ history' = [history EXCEPT !.unrecorded = @ \union {r}]
HalfSaved(r) ==
  /\ req[r].pc \in {"torn", "removing"} /\ files' = files /\ dir' = dir
  /\ \/ record' = record
     \/ /\ record[req[r].sid] # Absent
        /\ record' = [record EXCEPT ![req[r].sid] = IF req[r].pc = "torn" THEN Torn ELSE Absent]
  /\ history' = [history EXCEPT !.cut = @ \union {r}]

Thrown(r, q) ==
  /\ q.pc = "failed" /\ q.kind = req[r].kind /\ Drops(q)
  /\ undo' = undo /\ StoreType'
  /\ GaveUp(r) \/ Forgot(r) \/ HalfUndone(r) \/ HalfSaved(r)

Steady(r, q) ==
  /\ req' = [req EXCEPT ![r] = q] /\ q \in ReqType /\ q.sid = req[r].sid
  /\ Active(r) /\ q.pc \notin {"idle", "lost"}
  /\ faults' \in 0..MaxFaults /\ history'.overlapped = history.overlapped
  /\ q.st \in SessionState \/ q.st = NoState

LEMMA StepCases ==
  ASSUME TypeInv, PhaseInv, TodoInv, NEW r \in Requests, Step(r)
  PROVE  \E q : Steady(r, q) /\ (Worked(r, q) \/ SavedOn(r, q))
<1>0. history \in HistoryType /\ faults \in 0..MaxFaults
  BY DEF TypeInv, TypeOK
<1>1. ASSUME NEW q, Moves(r, q), faults' \in 0..MaxFaults, Worked(r, q)
      PROVE  Steady(r, q)
  <2>1. /\ req' = [req EXCEPT ![r] = q] /\ q \in ReqType /\ q.sid = req[r].sid /\ q.st \in SessionState \union {NoState}
    BY <1>1, SMTT(30) DEF Moves, ReqType
  <2>2. Active(r) /\ q.pc \notin {"idle", "lost"}
    BY <1>1, SMTT(30) DEF Worked, PlanFails, Planned, WroteOne, WroteLast, Broke, RolledOne, Rolled, Stopped, NoneUndone, OneUndone, Ran,
               Active, Finished
  <2>3. history'.overlapped = history.overlapped
    BY <1>0, <1>1 DEF Worked, PlanFails, Planned, WroteOne, WroteLast, Broke, RolledOne, Rolled, Stopped, NoneUndone, OneUndone, Ran,
                     Applied, HistoryType
  <2> QED BY <1>1, <2>1, <2>2, <2>3 DEF Steady
<1>2. CASE Plan(r)
  <2> DEFINE fs == FilesOf[Selected(req[r].st)]
  <2>0. /\ req[r].pc = "planning" /\ UNCHANGED <<disk, files, undo, faults>>
        /\ \E q : /\ Moves(r, q) /\ q.broken = req[r].broken
                 /\ \/ q.pc = "computed" /\ q.st = PatchFailed(req[r].st) /\ history' = history
                    \/ /\ q.pc = "writing" /\ q.st = req[r].st /\ q.base = files
                       /\ q.todo # <<>> /\ IsInjective(q.todo) /\ Range(q.todo) = fs
                       /\ q.written = <<>>
                       /\ \A f \in fs : Patched(f, files[f]) # "none"
                       /\ history' = [history EXCEPT
                             !.editors = @ \union {req[r].sid},
                             !.stacked = @ \/ ~({files[f] : f \in fs} \subseteq Unpatched)]
    BY <1>2, PlanMoves, Zenon
  <2>1. PICK q : Moves(r, q) /\ (PlanFails(r, q) \/ Planned(r, q))
    BY <2>0, ZenonT(60) DEF PlanFails, Planned
  <2>2. UNCHANGED disk /\ faults' = faults /\ q.kind = req[r].kind
    BY <1>2, <2>1, PlanMoves DEF Moves
  <2>3. Worked(r, q)
    BY <2>1, <2>2 DEF Worked
  <2> QED BY <1>0, <1>1, <2>1, <2>2, <2>3
<1>3. CASE WriteFile(r)
  <2>1. Snaps(r) /\ UNCHANGED disk /\ faults' = faults
    BY <1>3, WriteMoves DEF Snaps
  <2>2. PICK q : Moves(r, q) /\ (WroteOne(r, q) \/ WroteLast(r, q))
    BY <1>3, <2>1, WriteMoves DEF WroteOne, WroteLast
  <2>3. Worked(r, q)
    BY <2>1, <2>2 DEF Worked, Moves
  <2> QED BY <1>0, <1>1, <2>1, <2>2, <2>3
<1>4. CASE WriteFails(r)
  <2>1. Snaps(r) /\ UNCHANGED disk /\ faults' = faults
    BY <1>4, FailMoves DEF Snaps
  <2>2. PICK q : Moves(r, q) /\ Broke(r, q)
    BY <1>4, <2>1, FailMoves DEF Broke
  <2>3. Worked(r, q)
    BY <2>1, <2>2 DEF Worked, Moves
  <2> QED BY <1>0, <1>1, <2>1, <2>2, <2>3
<1>9. CASE PlanThrows(r)
  <2>1. UNCHANGED disk /\ faults' = faults
    BY <1>9, ThrownPlan
  <2>2. PICK q : Moves(r, q) /\ PlanFails(r, q)
    BY <1>9, ThrownPlan DEF PlanFails
  <2>3. Worked(r, q)
    BY <2>1, <2>2 DEF Worked, Moves
  <2> QED BY <1>0, <1>1, <2>1, <2>2, <2>3
<1>10. CASE RollBackThrows(r)
  <2>1. UNCHANGED disk /\ faults' \in 0..MaxFaults
    BY <1>10, StopMoves
  <2>2. PICK q : Moves(r, q) /\ Stopped(r, q)
    BY <1>10, StopMoves DEF Stopped
  <2>3. Worked(r, q)
    BY <2>1, <2>2 DEF Worked, Moves
  <2> QED BY <1>1, <2>1, <2>2, <2>3
<1>5. CASE RollBack(r)
  <2>1. UNCHANGED disk /\ faults' = faults
    BY <1>5, RollMoves
  <2>2. PICK q : Moves(r, q) /\ (RolledOne(r, q) \/ Rolled(r, q))
    BY <1>5, RollMoves DEF RolledOne, Rolled
  <2>3. Worked(r, q)
    BY <2>1, <2>2 DEF Worked, Moves
  <2> QED BY <1>0, <1>1, <2>1, <2>2, <2>3
<1>6. CASE UndoLatest(r)
  <2>1. UNCHANGED disk /\ faults' = faults
    BY <1>6, UndoMoves
  <2>2. \/ \E q : Moves(r, q) /\ OneUndone(r, q)
        \/ \E q : /\ req' = [req EXCEPT ![r] = q] /\ q \in ReqType /\ q.sid = req[r].sid /\ NoneUndone(r, q)
    BY <1>6, UndoMoves, ZenonT(60) DEF OneUndone, NoneUndone
  <2>3. CASE \E q : Moves(r, q) /\ OneUndone(r, q)
    <3>1. PICK q : Moves(r, q) /\ OneUndone(r, q)
      BY <2>3
    <3>2. Worked(r, q)
      BY <2>1, <3>1 DEF Worked, Moves
    <3> QED BY <1>0, <1>1, <2>1, <3>1, <3>2
  <2>4. CASE \E q : /\ req' = [req EXCEPT ![r] = q] /\ q \in ReqType /\ q.sid = req[r].sid /\ NoneUndone(r, q)
    <3>1. PICK q : /\ req' = [req EXCEPT ![r] = q] /\ q \in ReqType /\ q.sid = req[r].sid /\ NoneUndone(r, q)
      BY <2>4
    <3>2. Worked(r, q)
      BY <2>1, <3>1 DEF Worked
    <3>3. Steady(r, q)
      BY <1>0, <2>1, <3>1 DEF Steady, NoneUndone, Active, Finished
    <3> QED BY <3>2, <3>3
  <2> QED BY <2>2, <2>3, <2>4, SMTT(30)
<1>7. CASE Verify(r)
  <2>1. UNCHANGED disk /\ faults' = faults
    BY <1>7, VerifyMoves
  <2>2. PICK q : Moves(r, q) /\ Ran(r, q)
    BY <1>7, VerifyMoves DEF Ran
  <2>3. Worked(r, q)
    BY <2>1, <2>2 DEF Worked, Moves
  <2> QED BY <1>0, <1>1, <2>1, <2>2, <2>3
<1>8. CASE SaveStep(r)
  <2>1. /\ UNCHANGED <<files, undo, faults>> /\ StoreType'
        /\ \E q : /\ Moves(r, q)
                  /\ \/ Opened(r, q) \/ Filled(r, q) \/ Passed(r, q) \/ Removed(r, q) \/ Ended(r, q)
    BY <1>8, SaveMoves
  <2>2. PICK q : /\ Moves(r, q)
                 /\ \/ Opened(r, q) \/ Filled(r, q) \/ Passed(r, q) \/ Removed(r, q) \/ Ended(r, q)
    BY <2>1
  <2>3. SavedOn(r, q)
    BY <2>1, <2>2 DEF SavedOn, Moves
  <2>4. /\ req' = [req EXCEPT ![r] = q] /\ q \in ReqType /\ q.sid = req[r].sid
        /\ q.st \in SessionState \union {NoState}
    BY <2>2 DEF Moves, ReqType
  <2>5. Active(r) /\ q.pc \notin {"idle", "lost"}
    BY <2>2 DEF Opened, Filled, Passed, Removed, Ended, Active, Finished
  <2>6. history'.overlapped = history.overlapped
    BY <1>0, <2>2 DEF Opened, Filled, Passed, Removed, Ended
  <2>7. Steady(r, q)
    BY <1>0, <2>1, <2>4, <2>5, <2>6 DEF Steady
  <2> QED BY <2>3, <2>7
<1> QED BY <1>2, <1>3, <1>4, <1>5, <1>6, <1>7, <1>8, <1>9, <1>10 DEF Step, SaveStep

LEMMA ThrowCases ==
  ASSUME TypeInv, PhaseInv, NEW r \in Requests, Throw(r)
  PROVE  \E q : Steady(r, q) /\ Thrown(r, q)
<1> DEFINE s == req[r].sid
<1>1. history \in HistoryType /\ StoreType /\ Fails(r) /\ Active(r) /\ undo' = undo
  BY DEF Throw, Throws, UndoCutShort, DirectoryOnly, RecordCutShort, ArtifactsCutShort, PointerCutShort,
         RemovalCutShort, TypeInv, TypeOK, StoreType, Artifacts, Active, Finished
<1>2. Goes(r, "failed") /\ Faulty /\ "failed" \in PCs
  BY <1>1 DEF Fails, PCs
<1>3. PICK q : Moves(r, q) /\ q.pc = "failed" /\ Drops(q)
  BY <1>2, GoesMoves DEF Finished
<1>4. faults' \in 0..MaxFaults
  BY <1>2, FaultyType
<1>5. s \in Sessions
  BY <1>1 DEF PhaseInv, Active
<1>6. /\ StoreType'
      /\ GaveUp(r) \/ Forgot(r) \/ HalfUndone(r) \/ HalfSaved(r)
  <2>1. CASE Throws(r)
    <3>1. UNCHANGED <<record, dir, store, pointer, files>>
      BY <2>1 DEF Throws, disk
    <3>2. StoreType'
      BY <1>1, <3>1 DEF StoreType
    <3> QED BY <2>1, <3>1, <3>2 DEF Throws, GaveUp, Forgot
  <2>2. CASE UndoCutShort(r)
    <3>1. undo \in Seq(Snapshots) /\ undo # <<>>
      BY <2>2 DEF UndoCutShort, TypeInv, TypeOK
    <3>2. Last(undo).file \in Files
      <4>1. Len(undo) \in 1 .. Len(undo)
        BY <3>1, EmptySeq
      <4>2. Last(undo) \in Snapshots
        BY <3>1, <4>1, ElementOfSeq DEF Last
      <4> QED BY <4>2 DEF Snapshots
    <3>3. /\ UNCHANGED <<record, dir, store, pointer>> /\ req[r].pc = "undoing"
          /\ files' = [files EXCEPT ![Last(undo).file] = "partial"]
          /\ history' = [history EXCEPT !.unrecorded = @ \union {r}]
      BY <2>2 DEF UndoCutShort, disk
    <3>4. StoreType'
      BY <1>1, <3>3 DEF StoreType
    <3>5. HalfUndone(r)
      BY <3>2, <3>3, Zenon DEF HalfUndone
    <3> QED BY <3>4, <3>5
  <2>3. CASE DirectoryOnly(r)
    <3>1. StoreType'
      BY <1>1, <1>5, <2>3 DEF DirectoryOnly, StoreType
    <3> QED BY <2>3, <3>1 DEF DirectoryOnly, Forgot
  <2>4. CASE RecordCutShort(r)
    <3>1. /\ \/ record' = [record EXCEPT ![s] = record[s]]
             \/ record[s] # Absent /\ record' = [record EXCEPT ![s] = Torn]
          /\ UNCHANGED <<dir, store, pointer, files>> /\ req[r].pc = "torn"
          /\ history' = [history EXCEPT !.cut = @ \union {r}]
      BY <2>4 DEF RecordCutShort, HalfDone
    <3>2. StoreType'
      BY <1>1, <1>5, <3>1 DEF StoreType
    <3>3. record = [record EXCEPT ![s] = record[s]]
      BY <1>1 DEF StoreType
    <3> QED BY <3>1, <3>2, <3>3 DEF HalfSaved
  <2>5. CASE ArtifactsCutShort(r)
    <3>1. /\ UNCHANGED <<record, pointer, files>> /\ history' = history /\ dir' = dir \union {s}
          /\ req[r].pc = "events"
      BY <2>5 DEF ArtifactsCutShort
    <3>2. PICK m \in WrittenRefs(r), whole \in SUBSET WrittenRefs(r) :
             store' = [store EXCEPT ![s] =
                         [x \in Messages |-> IF x = m THEN "partial"
                                             ELSE IF x \in whole THEN HeldContent(r, x) ELSE @[x]]]
      BY <2>5 DEF ArtifactsCutShort
    <3>3. \A x : HeldContent(r, x) \in Artifacts
      BY DEF HeldContent, Artifacts
    <3>4. [x \in Messages |-> IF x = m THEN "partial"
                              ELSE IF x \in whole THEN HeldContent(r, x) ELSE store[s][x]]
            \in [Messages -> Artifacts]
      BY <1>1, <1>5, <3>3 DEF StoreType, Artifacts
    <3>5. store' \in [Sessions -> [Messages -> Artifacts]]
      BY <1>1, <3>2, <3>4 DEF StoreType
    <3> QED BY <1>1, <1>5, <3>1, <3>5 DEF StoreType, GaveUp
  <2>6. CASE PointerCutShort(r)
    <3>1. /\ UNCHANGED <<record, dir, store, files>> /\ history' = history /\ pointer' = NoSession
          /\ req[r].pc \in {"artifacts", "repointing", "filled"}
      BY <2>6 DEF PointerCutShort
    <3> QED BY <1>1, <3>1 DEF StoreType, GaveUp
  <2>7. CASE RemovalCutShort(r)
    <3>1. /\ \/ record' = [record EXCEPT ![s] = record[s]]
             \/ record[s] # Absent /\ record' = [record EXCEPT ![s] = Absent]
          /\ UNCHANGED <<dir, pointer, files>> /\ req[r].pc = "removing"
          /\ history' = [history EXCEPT !.cut = @ \union {r}]
      BY <2>7 DEF RemovalCutShort, HalfDone
    <3>2. PICK gone \in SUBSET Messages :
             store' = [store EXCEPT ![s] = [m \in Messages |-> IF m \in gone THEN "none" ELSE @[m]]]
      BY <2>7 DEF RemovalCutShort
    <3>3. [m \in Messages |-> IF m \in gone THEN "none" ELSE store[s][m]] \in [Messages -> Artifacts]
      BY <1>1, <1>5 DEF StoreType, Artifacts
    <3>4. store' \in [Sessions -> [Messages -> Artifacts]]
      BY <1>1, <3>2, <3>3 DEF StoreType
    <3>5. StoreType'
      BY <1>1, <1>5, <3>1, <3>4 DEF StoreType
    <3>6. record = [record EXCEPT ![s] = record[s]]
      BY <1>1 DEF StoreType
    <3> QED BY <3>1, <3>5, <3>6 DEF HalfSaved
  <2> QED BY <2>1, <2>2, <2>3, <2>4, <2>5, <2>6, <2>7 DEF Throw
<1>7. history'.overlapped = history.overlapped
  BY <1>1, <1>6 DEF GaveUp, Forgot, HalfUndone, HalfSaved, HistoryType
<1>8. Thrown(r, q)
  BY <1>1, <1>3, <1>6 DEF Thrown, Moves
<1>9. Steady(r, q)
  BY <1>1, <1>3, <1>4, <1>7 DEF Steady, Moves, Drops
<1> QED BY <1>8, <1>9

\* The ways in which the system moves.
LEMMA NextCases ==
  ASSUME TypeInv, PhaseInv, TodoInv, [Next]_vars
  PROVE  \/ \E r \in Requests, s \in Sessions, kind \in AllKinds \union {"none"} : \E q : Begun(r, s, kind, q)
         \/ \E r \in Requests : \E q : Steady(r, q) /\ (Worked(r, q) \/ SavedOn(r, q) \/ Thrown(r, q))
         \/ Crash
         \/ UNCHANGED vars
<1>1. CASE UNCHANGED vars
  BY <1>1
<1>2. CASE Crash
  BY <1>2
<1>3. CASE \E r \in Requests : Load(r) \/ Step(r) \/ Throw(r)
  <2>1. PICK r \in Requests : Load(r) \/ Step(r) \/ Throw(r)
    BY <1>3
  <2>2. CASE Load(r)
    BY <2>2, LoadMoves
  <2>3. CASE Step(r)
    BY <2>3, StepCases
  <2>4. CASE Throw(r)
    BY <2>4, ThrowCases
  <2> QED BY <2>1, <2>2, <2>3, <2>4
<1> QED BY <1>1, <1>2, <1>3 DEF Next

\* What a request that begins leaves alone, and whom it meets.
LEMMA BegunFacts ==
  ASSUME TypeInv, PhaseInv, NEW r \in Requests, NEW s \in Sessions, NEW kind, NEW q, Begun(r, s, kind, q)
  PROVE  /\ UNCHANGED <<record, dir, store, pointer, files, undo, faults>>
         /\ req[r].pc = "idle" /\ q.pc \notin {"idle", "lost"} /\ q.sid = s
         /\ req'[r] = q /\ \A x \in Requests \ {r} : req'[x] = req[x]
         /\ \E met \in SUBSET Requests : history' = [history EXCEPT !.overlapped = @ \union met]
         /\ history.overlapped \subseteq history'.overlapped
         /\ \A x \in Requests \ {r} : x \in history'.overlapped => x \in history.overlapped \/ Active(x)
         /\ \A x \in Requests \ {r} :
              /\ Active(x) /\ (req[x].sid = s \/ {kind, req[x].kind} \subseteq FileActions)
              => {r, x} \subseteq history'.overlapped
<1> DEFINE others == {x \in InFlight : req[x].sid = s \/ {kind, req[x].kind} \subseteq FileActions}
           met == IF others = {} THEN {} ELSE others \union {r}
<1>1. /\ UNCHANGED <<disk, files, undo, faults>> /\ req[r].pc = "idle"
      /\ history' = [history EXCEPT !.overlapped = IF others = {} THEN @ ELSE @ \union others \union {r}]
      /\ req' = [req EXCEPT ![r] = q] /\ q.sid = s
  BY DEF Begun, Begins
<1>2. q.pc \notin {"idle", "lost"}
  BY DEF Begun, Refused, Deletes, Starts, Loads
<1>3. others \subseteq Requests /\ \A x \in Requests : x \in InFlight <=> Active(x)
  BY DEF InFlight
<1>4. req'[r] = q /\ \A x \in Requests \ {r} : req'[x] = req[x]
  BY <1>1 DEF TypeInv
<1>5. \A x \in others : x # r
  BY <1>1, <1>3 DEF Active
<1>6. history' = [history EXCEPT !.overlapped = @ \union met] /\ met \in SUBSET Requests
  BY <1>1, <1>3
<1>7. history'.overlapped = history.overlapped \union met
  BY <1>6 DEF TypeInv
<1>8. \A x \in Requests : x \in others <=> Active(x) /\ (req[x].sid = s \/ {kind, req[x].kind} \subseteq FileActions)
  BY <1>3
<1> HIDE DEF others
<1>9. ASSUME NEW x \in others
      PROVE  {r, x} \subseteq met
  BY <1>9
<1>10. \A x \in Requests \ {r} : x \in met => Active(x)
  BY <1>8
<1> HIDE DEF met
<1> QED BY <1>1, <1>2, <1>4, <1>6, <1>7, <1>8, <1>9, <1>10 DEF disk

Grows(set, next, r) == set \subseteq next /\ next \subseteq set \union {r}

\* What a step of a request adds to the history.
LEMMA HistorySteps ==
  ASSUME TypeInv, PhaseInv, TodoInv, NEW r \in Requests, NEW q, Steady(r, q),
         Worked(r, q) \/ SavedOn(r, q) \/ Thrown(r, q)
  PROVE  /\ history' \in HistoryType
         /\ Grows(history.reapplied, history'.reapplied, r) /\ Grows(history.edited, history'.edited, r)
         /\ Grows(history.unrecorded, history'.unrecorded, r)
         /\ Grows(history.unrestored, history'.unrestored, r)
         /\ Grows(history.cut, history'.cut, r)
<1>1. history \in HistoryType /\ req[r].sid \in Sessions
  BY DEF TypeInv, PhaseInv, Steady, Active
<1>2. CASE history' = history
  BY <1>1, <1>2 DEF HistoryType, Grows
<1>4. CASE Planned(r, q)
  BY <1>1, <1>4 DEF Planned, HistoryType, Grows
<1>5. CASE WroteLast(r, q)
  <2> DEFINE c == <<req[r].sid, Selected(req[r].st)>>
  <2>1. history' = [history EXCEPT !.applied = @ \union {c},
                                   !.reapplied = IF c \in history.applied THEN @ \union {r} ELSE @,
                                   !.edited = @ \union {r}]
    BY <1>5 DEF WroteLast, Applied
  <2>2. c \in Sessions \X Candidates
    <3>1. Selected(req[r].st) \in Candidates
      BY <1>5, WritingFacts DEF WroteLast
    <3> QED BY <1>1, <3>1
  <2> HIDE DEF c
  <2> QED BY <1>1, <2>1, <2>2 DEF HistoryType, Grows
<1>6. CASE OneUndone(r, q)
  <2> DEFINE kept == {c \in history.applied : Last(undo).file \notin FilesOf[c[2]]}
  <2>1. history' = [history EXCEPT !.editors = @ \union {req[r].sid}, !.applied = kept,
                                   !.edited = @ \union {r}]
    BY <1>6 DEF OneUndone
  <2>2. kept \subseteq history.applied
    OBVIOUS
  <2> HIDE DEF kept
  <2> QED BY <1>1, <2>1, <2>2 DEF HistoryType, Grows
<1>7. CASE Thrown(r, q)
  <2>1. \/ history' = history
        \/ \E a \in SUBSET {r} : history' = [history EXCEPT !.unrecorded = @ \union a]
        \/ \E a \in SUBSET {r}, b \in SUBSET {r} :
             history' = [history EXCEPT !.unrecorded = @ \union a, !.cut = @ \union b]
        \/ history' = [history EXCEPT !.cut = @ \union {r}]
    <3>1. Changing(r) \in SUBSET {r} /\ {r} \in SUBSET {r}
      BY DEF Changing
    <3>2. CASE GaveUp(r) \/ HalfSaved(r)
      BY <3>2 DEF GaveUp, HalfSaved
    <3>3. CASE HalfUndone(r)
      BY <3>1, <3>3, Zenon DEF HalfUndone
    <3>4. CASE Forgot(r)
      <4> DEFINE a == Changing(r)
                 b == {r}
      <4>1. a \in SUBSET {r} /\ b \in SUBSET {r}
        BY <3>1
      <4>2. \/ history' = [history EXCEPT !.unrecorded = @ \union a]
            \/ history' = [history EXCEPT !.unrecorded = @ \union a, !.cut = @ \union b]
        BY <3>4 DEF Forgot
      <4> HIDE DEF a, b
      <4> QED BY <4>1, <4>2, Zenon
    <3> QED BY <1>7, <3>2, <3>3, <3>4 DEF Thrown
  <2>2. CASE history' = history
    BY <1>2, <2>2
  <2>3. CASE \E a \in SUBSET {r} : history' = [history EXCEPT !.unrecorded = @ \union a]
    BY <1>1, <2>3 DEF HistoryType, Grows
  <2>4. CASE \E a \in SUBSET {r}, b \in SUBSET {r} :
               history' = [history EXCEPT !.unrecorded = @ \union a, !.cut = @ \union b]
    BY <1>1, <2>4 DEF HistoryType, Grows
  <2>5. CASE history' = [history EXCEPT !.cut = @ \union {r}]
    BY <1>1, <2>5 DEF HistoryType, Grows
  <2> QED BY <2>1, <2>2, <2>3, <2>4, <2>5
<1>8. CASE Stopped(r, q)
  BY <1>1, <1>8 DEF Stopped, HistoryType, Grows
<1>9. CASE SavedOn(r, q)
  BY <1>2, <1>9 DEF SavedOn, Opened, Filled, Passed, Removed, Ended
<1> QED BY <1>2, <1>4, <1>5, <1>6, <1>7, <1>8, <1>9
    DEF Worked, PlanFails, WroteOne, Broke, RolledOne, Rolled, NoneUndone, Ran

LEMMA TypeStep ==
  ASSUME TypeInv, PhaseInv, TodoInv, [Next]_vars
  PROVE  TypeInv'
<1>0. /\ record \in [Sessions -> SessionState \union {Absent, Torn}] /\ dir \subseteq Sessions
      /\ store \in [Sessions -> [Messages -> Artifacts]]
      /\ pointer \in Sessions \union {NoSession} /\ files \in [Files -> Contents] /\ undo \in Seq(Snapshots)
      /\ faults \in 0 .. MaxFaults /\ req \in [Requests -> ReqType]
  BY DEF TypeInv, TypeOK, Artifacts
<1>1. history \in HistoryType
  BY DEF TypeInv
<1>2. ASSUME StoreType', files' \in [Files -> Contents], undo' \in Seq(Snapshots), faults' \in 0 .. MaxFaults,
             req' \in [Requests -> ReqType], history' \in HistoryType
      PROVE  TypeInv'
  <2>1. \A r \in Requests : req'[r].pc \in PCs
    BY <1>2 DEF ReqType
  <2>2. history'.overlapped \subseteq Requests
    BY <1>2 DEF HistoryType
  <2>3. TypeOK'
    BY <1>2, <2>1, <2>2 DEF TypeOK, StoreType, Artifacts
  <2> QED BY <1>2, <2>3 DEF TypeInv
<1>3. UNCHANGED disk => StoreType'
  BY <1>0 DEF disk, StoreType
<1>4. ASSUME NEW r \in Requests, NEW s \in Sessions, NEW kind, NEW q, Begun(r, s, kind, q)
      PROVE  TypeInv'
  <2>1. /\ UNCHANGED <<disk, files, undo, faults>> /\ req' = [req EXCEPT ![r] = q] /\ q \in ReqType
    BY <1>4 DEF Begun, Begins
  <2>2. PICK met \in SUBSET Requests : history' = [history EXCEPT !.overlapped = @ \union met]
    BY <1>4, BegunFacts
  <2>3. history' \in HistoryType
    BY <1>1, <2>2 DEF HistoryType
  <2> QED BY <1>0, <1>2, <1>3, <2>1, <2>3
<1>5. ASSUME NEW r \in Requests, NEW q, Steady(r, q), SavedOn(r, q)
      PROVE  TypeInv'
  <2>1. /\ StoreType' /\ files' = files /\ undo' = undo /\ faults' \in 0..MaxFaults
        /\ req' = [req EXCEPT ![r] = q] /\ q \in ReqType
    BY <1>5 DEF Steady, SavedOn
  <2>2. history' \in HistoryType
    BY <1>5, HistorySteps
  <2> QED BY <1>0, <1>2, <2>1, <2>2
<1>6. ASSUME NEW r \in Requests, NEW q, Steady(r, q), Worked(r, q)
      PROVE  TypeInv'
  <2>1. /\ UNCHANGED disk /\ faults' \in 0..MaxFaults /\ req' = [req EXCEPT ![r] = q] /\ q \in ReqType
    BY <1>6 DEF Steady, Worked
  <2>3. history' \in HistoryType
    BY <1>6, HistorySteps, SMTT(30)
  <2>4. undo' \in Seq(Snapshots)
    BY <1>0, <1>6 DEF Worked, PlanFails, Planned, WroteOne, WroteLast, Broke, RolledOne, Rolled, Stopped, NoneUndone, OneUndone, Ran, Snaps
  <2>5. files' \in [Files -> Contents]
    <3>1. CASE WroteOne(r, q) \/ WroteLast(r, q) \/ Broke(r, q)
      <4> DEFINE f == Head(req[r].todo)
                 new == Patched(f, req[r].base[f])
      <4>1. req[r].pc = "writing"
        BY <3>1 DEF WroteOne, WroteLast, Broke
      <4>2. f \in Files /\ new \in {"patched", "doubled"}
        BY <4>1, WritingFacts
      <4>3. new \in Contents /\ files[f] \in Contents /\ "partial" \in Contents
        BY <1>0, <4>2 DEF Contents
      <4>4. files' = [files EXCEPT ![f] = new] \/ \E left \in {files[f], "partial"} : files' = [files EXCEPT ![f] = left]
        BY <3>1 DEF WroteOne, WroteLast, Broke
      <4> HIDE DEF f, new
      <4> QED BY <1>0, <4>2, <4>3, <4>4
    <3>2. CASE RolledOne(r, q) \/ Stopped(r, q)
      <4> DEFINE f == Head(req[r].written)
      <4>1. req[r].pc = "rolling"
        BY <3>2 DEF RolledOne, Stopped
      <4>2. f \in Files
        <5>1. req[r].written \in Seq(Files) /\ Range(req[r].written) \subseteq Files
          BY <4>1, WritingFacts
        <5> QED BY <3>2, <5>1 DEF RolledOne, Stopped
      <4>3. req[r].base[f] \in Contents /\ files[f] \in Contents /\ "partial" \in Contents
        BY <1>0, <4>2 DEF ReqType, Contents
      <4>4. \E new \in {req[r].base[f], files[f], "partial"} : files' = [files EXCEPT ![f] = new]
        BY <3>2 DEF RolledOne, Stopped
      <4> HIDE DEF f
      <4> QED BY <1>0, <4>2, <4>3, <4>4
    <3>3. CASE OneUndone(r, q)
      BY <1>0, <3>3 DEF OneUndone, Snapshots
    <3> QED BY <1>0, <1>6, <3>1, <3>2, <3>3 DEF Worked, PlanFails, Planned, Rolled, NoneUndone, Ran
  <2> QED BY <1>0, <1>2, <1>3, <2>1, <2>3, <2>4, <2>5
<1>9. ASSUME NEW r \in Requests, NEW q, Steady(r, q), Thrown(r, q)
      PROVE  TypeInv'
  <2>1. /\ StoreType' /\ undo' = undo /\ faults' \in 0..MaxFaults
        /\ req' = [req EXCEPT ![r] = q] /\ q \in ReqType
    BY <1>9 DEF Steady, Thrown
  <2>2. history' \in HistoryType
    BY <1>9, HistorySteps
  <2>3. files' \in [Files -> Contents]
    <3>1. "partial" \in Contents
      BY DEF Contents
    <3> QED BY <1>0, <1>9, <3>1 DEF Thrown, GaveUp, Forgot, HalfUndone, HalfSaved
  <2> QED BY <1>0, <1>2, <2>1, <2>2, <2>3
<1>7. CASE Crash
  <2>1. UNCHANGED <<disk, files, undo, history>> /\ faults' \in 0 .. MaxFaults
    BY <1>7, FaultyType DEF Crash
  <2>2. req' \in [Requests -> ReqType]
    <3>1. ASSUME NEW x \in Requests
          PROVE  Blank(req[x].kind, req[x].sid, "lost") \in ReqType /\ req[x] \in ReqType
      <4> DEFINE kind == req[x].kind
                 sid == req[x].sid
      <4>1. req[x] \in ReqType /\ kind \in AllKinds \union {"none"} /\ sid \in Sessions \union {NoSession}
        BY <1>0 DEF ReqType
      <4>2. "lost" \in PCs
        BY DEF PCs
      <4> HIDE DEF kind, sid
      <4>3. Blank(kind, sid, "lost") \in ReqType
        BY <4>1, <4>2, BlankType
      <4> QED BY <4>1, <4>3 DEF kind, sid
    <3> QED BY <1>7, <3>1 DEF Crash
  <2>3. history' \in HistoryType
    BY <1>1, <2>1
  <2> QED BY <1>0, <1>2, <1>3, <2>1, <2>2, <2>3
<1>8. CASE UNCHANGED vars
  BY <1>8 DEF vars, disk, TypeInv, TypeOK
<1> QED BY <1>4, <1>5, <1>6, <1>7, <1>8, <1>9, NextCases

LEMMA SteadyFacts ==
  ASSUME TypeInv, NEW r \in Requests, NEW q, Steady(r, q)
  PROVE  /\ req'[r] = q /\ \A x \in Requests \ {r} : req'[x] = req[x]
         /\ req[r].pc \notin {"idle"} \union Finished /\ q.pc \notin {"idle", "lost"} /\ q.sid = req[r].sid
         /\ history'.overlapped = history.overlapped
BY DEF Steady, TypeInv, Active

LEMMA CrashFacts ==
  ASSUME TypeInv, Crash
  PROVE  /\ UNCHANGED <<record, dir, store, pointer, files, undo, history>>
         /\ \A x \in Requests :
              /\ req'[x].kind = req[x].kind /\ req'[x].sid = req[x].sid
              /\ ~Active(x) => req'[x] = req[x]
              /\ Active(x) => /\ req'[x].pc = "lost" /\ req'[x].st = NoState
                              /\ req'[x].todo = <<>> /\ req'[x].broken = NoFile
         /\ \E x \in Requests : req'[x].pc = "lost"
<1>1. /\ UNCHANGED <<disk, files, undo, history>> /\ InFlight # {}
      /\ req' = [x \in Requests |-> IF Active(x) THEN Blank(req[x].kind, req[x].sid, "lost") ELSE req[x]]
  BY DEF Crash
<1>2. ASSUME NEW x \in Requests
      PROVE  /\ req'[x].kind = req[x].kind /\ req'[x].sid = req[x].sid
             /\ ~Active(x) => req'[x] = req[x]
             /\ Active(x) => /\ req'[x].pc = "lost" /\ req'[x].st = NoState
                             /\ req'[x].todo = <<>> /\ req'[x].broken = NoFile
  BY <1>1 DEF Blank
<1>3. \E x \in Requests : req'[x].pc = "lost"
  BY <1>1, <1>2 DEF InFlight
<1> QED BY <1>1, <1>2, <1>3 DEF disk

LEMMA PhaseStep ==
  ASSUME TypeInv, PhaseInv, TodoInv, [Next]_vars
  PROVE  PhaseInv'
<1> DEFINE Has(t) == t.pc \in Working \union {"computed"} \union Saving
           P(x, t) ==
             /\ t.pc # "idle" => t.sid \in Sessions
             /\ Has(t) => t.st \in SessionState /\ t.kind \notin {"none", "delete"}
             /\ t.pc \in Deleting => t.kind = "delete"
             /\ ~Has(t) => t.st = NoState
             /\ t.pc \in Applying => t.kind = "approve_patch" /\ PatchWaiting(t.st)
             /\ t.pc = "undoing" => t.kind = "undo_latest_patch"
             /\ t.pc = "verifying" => t.kind = "approve_shell"
             /\ t.pc \in {"computed"} \union Saving /\ t.kind \in Recording => x \in t.st.refs
           Known == history.overlapped \union history.reapplied
           I(x, t, over) == t.pc = "idle" => x \notin over /\ t.kind = "none" /\ t.sid = NoSession
<1>0. \A x \in Requests : P(x, req[x]) /\ I(x, req[x], Known)
  BY DEF PhaseInv, Holds
<1>1. (\A x \in Requests : P(x, req'[x]) /\ I(x, req'[x], Known')) => PhaseInv'
  BY DEF PhaseInv, Holds
<1>2. ASSUME NEW r \in Requests, NEW q, P(r, q), q.pc # "idle",
             req'[r] = q, \A x \in Requests \ {r} : req'[x] = req[x],
             \A x \in Requests \ {r} : x \in Known' => x \in Known \/ Active(x)
      PROVE  PhaseInv'
  <2>1. ASSUME NEW x \in Requests
        PROVE  P(x, req'[x]) /\ I(x, req'[x], Known')
    <3>1. CASE x = r
      <4> HIDE DEF P
      <4> QED BY <1>2, <3>1
    <3>2. CASE x # r
      <4> HIDE DEF P
      <4>1. req'[x] = req[x] /\ (x \in Known' => x \in Known \/ Active(x))
        BY <1>2, <3>2
      <4>2. Active(x) => req[x].pc # "idle"
        BY DEF Active
      <4> QED BY <1>0, <4>1, <4>2
    <3> QED BY <3>1, <3>2
  <2> HIDE DEF P, I
  <2> QED BY <1>1, <2>1
<1>3. ASSUME NEW r \in Requests, NEW s \in Sessions, NEW kind, NEW q, Begun(r, s, kind, q)
      PROVE  PhaseInv'
  <2>1. P(r, q)
    <3>1. q.sid \in Sessions
      BY <1>3 DEF Begun
    <3>2. CASE Refused(q) \/ Deletes(kind, q)
      BY <3>1, <3>2 DEF Refused, Deletes, Working, Saving, Applying, Deleting
    <3>3. CASE Starts(s, kind, q)
      BY <3>1, <3>3, StoreAssumption DEF Starts, Working, Saving, Applying, Deleting, Recording
    <3>4. CASE Loads(r, s, kind, q)
      BY <3>1, <3>4 DEF Loads, Extends, Working, Saving, Applying, Deleting
    <3> QED BY <1>3, <3>2, <3>3, <3>4 DEF Begun
  <2>2. \A x \in Requests \ {r} : x \in Known' => x \in Known \/ Active(x)
    <3>1. history'.reapplied = history.reapplied
      <4>1. PICK met \in SUBSET Requests : history' = [history EXCEPT !.overlapped = @ \union met]
        BY <1>3, BegunFacts
      <4> QED BY <4>1 DEF TypeInv, HistoryType
    <3> QED BY <1>3, <3>1, BegunFacts
  <2> HIDE DEF P, Known
  <2> QED BY <1>2, <1>3, <2>1, <2>2, BegunFacts
<1>4. ASSUME NEW r \in Requests, NEW q, Steady(r, q), P(r, q),
             Worked(r, q) \/ SavedOn(r, q) \/ Thrown(r, q)
      PROVE  PhaseInv'
  <2>1. \A x \in Requests \ {r} : x \in Known' => x \in Known
    BY <1>4, HistorySteps, SteadyFacts DEF Grows
  <2> HIDE DEF P, Known
  <2> QED BY <1>2, <1>4, <2>1, SteadyFacts
<1>5. ASSUME NEW r \in Requests, NEW q, Steady(r, q), Worked(r, q)
      PROVE  PhaseInv'
  <2>1. q.sid \in Sessions /\ (q.st \in SessionState \/ q.st = NoState) /\ req[r].sid \in Sessions
    BY <1>0, <1>5, SteadyFacts DEF Steady
  <2>2. r \in Messages
    BY StoreAssumption
  <2>3. CASE NoneUndone(r, q)
    <3>1. P(r, q)
      BY <2>1, <2>3 DEF NoneUndone, Working, Saving, Applying, Deleting
    <3> QED BY <1>4, <1>5, <3>1
  <2>4. CASE Planned(r, q) \/ WroteOne(r, q) \/ Broke(r, q) \/ RolledOne(r, q)
    <3>1. q.kind = req[r].kind /\ q.st = req[r].st /\ q.pc \in {"writing", "rolling"} /\ req[r].pc \in Applying
      BY <1>5, <2>4 DEF Worked, Planned, WroteOne, Broke, RolledOne, NoneUndone, Applying
    <3>2. P(r, q)
      BY <1>0, <2>1, <3>1, SMTT(30) DEF Working, Saving, Applying, Deleting
    <3> QED BY <1>4, <1>5, <3>2
  <2>5. CASE PlanFails(r, q) \/ WroteLast(r, q) \/ Rolled(r, q) \/ Stopped(r, q) \/ OneUndone(r, q) \/ Ran(r, q)
    <3>1. /\ q.kind = req[r].kind /\ q.pc = "computed" /\ req[r].pc \in Working
          /\ req[r].st \in SessionState /\ req[r].kind \notin {"none", "delete"}
      BY <1>0, <1>5, <2>5 DEF Worked, PlanFails, WroteLast, Rolled, Stopped, OneUndone, Ran, NoneUndone, Working, Applying
    <3>2. q.st \in SessionState /\ (q.kind \in Recording => r \in q.st.refs)
      <4>1. CASE PlanFails(r, q) \/ WroteLast(r, q) \/ Rolled(r, q) \/ Stopped(r, q)
        <5>1. req[r].kind = "approve_patch" /\ Selected(req[r].st) # NoCand
          BY <1>0, <4>1 DEF PlanFails, WroteLast, Rolled, Stopped, Applying, PatchWaiting
        <5>2. q.st \in {PatchFailed(req[r].st), PatchApplied(req[r].st)}
          BY <4>1 DEF PlanFails, WroteLast, Rolled, Stopped
        <5>3. q.st \in SessionState
          BY <2>2, <3>1, <5>1, <5>2, RuleTypes, ChangingTypes
        <5> QED BY <3>1, <5>1, <5>3 DEF Recording
      <4>2. CASE OneUndone(r, q)
        <5>1. req[r].kind = "undo_latest_patch" /\ Last(undo).file \in Files /\ q.st = Undone(req[r].st, Last(undo).file, r)
          BY <1>0, <4>2 DEF OneUndone, Snapshots
        <5>2. q.st \in SessionState
          BY <2>2, <3>1, <5>1, ChangingTypes
        <5> QED BY <3>1, <5>1, <5>2 DEF Recording
      <4>3. CASE Ran(r, q)
        <5>1. req[r].kind = "approve_shell"
          BY <1>0, <4>3 DEF Ran
        <5> QED BY <3>1, <4>3, <5>1 DEF Ran, Recording
      <4> QED BY <2>5, <4>1, <4>2, <4>3
    <3>3. P(r, q)
      BY <2>1, <3>1, <3>2 DEF Working, Saving, Applying, Deleting
    <3> QED BY <1>4, <1>5, <3>3
  <2> QED BY <1>5, <2>3, <2>4, <2>5 DEF Worked
<1>6. ASSUME NEW r \in Requests, NEW q, Steady(r, q), SavedOn(r, q)
      PROVE  PhaseInv'
  <2>1. q.sid \in Sessions /\ q.kind = req[r].kind
    BY <1>0, <1>6, SteadyFacts DEF SavedOn
  <2>2. P(r, q)
    <3>1. CASE Opened(r, q) \/ Filled(r, q)
      BY <1>0, <2>1, <3>1 DEF Opened, Filled, Keeps, Working, Saving, Applying, Deleting
    <3>2. CASE Passed(r, q) \/ Removed(r, q)
      BY <1>0, <2>1, <3>2 DEF Passed, Removed, Keeps, Working, Saving, Applying, Deleting
    <3>3. CASE Ended(r, q)
      BY <2>1, <3>3 DEF Ended, Drops, Working, Saving, Applying, Deleting
    <3> QED BY <1>6, <3>1, <3>2, <3>3 DEF SavedOn
  <2> HIDE DEF P
  <2> QED BY <1>4, <1>6, <2>2
<1>9. ASSUME NEW r \in Requests, NEW q, Steady(r, q), Thrown(r, q)
      PROVE  PhaseInv'
  <2>1. q.sid \in Sessions /\ q.pc = "failed" /\ q.st = NoState
    BY <1>0, <1>9, SteadyFacts DEF Thrown, Drops
  <2>2. P(r, q)
    BY <2>1 DEF Working, Saving, Applying, Deleting
  <2> HIDE DEF P
  <2> QED BY <1>4, <1>9, <2>2
<1>7. CASE Crash
  <2>1. ASSUME NEW x \in Requests
        PROVE  P(x, req'[x]) /\ I(x, req'[x], Known')
    <3>1. CASE Active(x)
      <4>1. /\ req'[x].pc = "lost" /\ req'[x].st = NoState /\ req'[x].sid = req[x].sid
            /\ req[x].pc # "idle"
        BY <1>7, <3>1, CrashFacts DEF Active
      <4> QED BY <1>0, <4>1 DEF Working, Saving, Applying, Deleting
    <3>2. CASE ~Active(x)
      <4>1. req'[x] = req[x] /\ history' = history
        BY <1>7, <3>2, CrashFacts
      <4> HIDE DEF P, I
      <4> QED BY <1>0, <4>1
    <3> QED BY <3>1, <3>2
  <2> HIDE DEF P, I
  <2> QED BY <1>1, <2>1
<1>8. CASE UNCHANGED vars
  <2> HIDE DEF P, I
  <2> QED BY <1>0, <1>1, <1>8 DEF vars
<1> HIDE DEF P, I
<1> QED BY <1>3, <1>5, <1>6, <1>7, <1>8, <1>9, NextCases

LEMMA AloneStep ==
  ASSUME TypeInv, PhaseInv, TodoInv, AloneInv, [Next]_vars
  PROVE  AloneInv'
<1> DEFINE On(t) == t.pc \notin {"idle"} \union Finished
           M(t, u) == t.sid = u.sid \/ {t.kind, u.kind} \subseteq FileActions
<1>0. \A y \in Requests \ history.overlapped : \A x \in Requests \ {y} : On(req[y]) /\ On(req[x]) => ~M(req[y], req[x])
  BY DEF AloneInv, Active, Meet
<1>1. (\A y \in Requests \ history'.overlapped : \A x \in Requests \ {y} : On(req'[y]) /\ On(req'[x]) => ~M(req'[y], req'[x]))
      => AloneInv'
  BY DEF AloneInv, Active, Meet
<1>2. ASSUME NEW r \in Requests, NEW s \in Sessions, NEW kind, NEW q, Begun(r, s, kind, q)
      PROVE  AloneInv'
  <2>1. ASSUME NEW y \in Requests \ history'.overlapped, NEW x \in Requests \ {y}, On(req'[y]), On(req'[x]),
               M(req'[y], req'[x])
        PROVE  FALSE
    <3>1. /\ req'[r] = q /\ q.sid = s /\ \A z \in Requests \ {r} : req'[z] = req[z]
          /\ history.overlapped \subseteq history'.overlapped
          /\ \A z \in Requests \ {r} :
               Active(z) /\ (req[z].sid = s \/ {kind, req[z].kind} \subseteq FileActions) => {r, z} \subseteq history'.overlapped
      BY <1>2, BegunFacts
    <3>2. On(q) => q.kind = kind
      BY <1>2 DEF Begun, Refused, Deletes, Starts, Loads, Finished
    <3>3. \A z \in Requests : On(req[z]) => Active(z)
      BY DEF Active
    <3>4. CASE y = r
      <4>1. On(req[x]) /\ M(q, req[x]) /\ q.kind = kind
        BY <2>1, <3>1, <3>2, <3>4
      <4> QED BY <3>1, <3>3, <3>4, <4>1
    <3>5. CASE x = r
      <4>1. On(req[y]) /\ M(req[y], q) /\ q.kind = kind /\ y # r
        BY <2>1, <3>1, <3>2, <3>5
      <4>2. req[y].sid = s \/ {kind, req[y].kind} \subseteq FileActions
        BY <3>1, <4>1
      <4> QED BY <3>1, <3>3, <4>1, <4>2
    <3>6. CASE y # r /\ x # r
      <4> HIDE DEF On, M
      <4> QED BY <1>0, <2>1, <3>1, <3>6
    <3> QED BY <3>4, <3>5, <3>6
  <2> HIDE DEF On, M
  <2> QED BY <1>1, <2>1
<1>3. ASSUME NEW r \in Requests, NEW q, Steady(r, q), Worked(r, q) \/ SavedOn(r, q) \/ Thrown(r, q)
      PROVE  AloneInv'
  <2>1. /\ req'[r] = q /\ \A x \in Requests \ {r} : req'[x] = req[x]
        /\ On(req[r]) /\ q.sid = req[r].sid /\ history'.overlapped = history.overlapped
    BY <1>3, SteadyFacts
  <2>2. On(q) => q.kind = req[r].kind
    BY <1>3 DEF Worked, SavedOn, Thrown, NoneUndone, Finished
  <2>3. \A x \in Requests : On(req'[x]) => On(req[x]) /\ req'[x].sid = req[x].sid /\ req'[x].kind = req[x].kind
    <3> HIDE DEF On
    <3> QED BY <2>1, <2>2
  <2> HIDE DEF On
  <2> QED BY <1>0, <1>1, <2>1, <2>3
<1>4. CASE Crash
  <2>1. history' = history /\ \A x \in Requests : ~On(req'[x])
    BY <1>4, CrashFacts DEF Active, Finished
  <2> HIDE DEF On
  <2> QED BY <1>1, <2>1
<1>5. CASE UNCHANGED vars
  <2> HIDE DEF On, M
  <2> QED BY <1>0, <1>1, <1>5 DEF vars
<1> HIDE DEF On, M
<1> QED BY <1>2, <1>3, <1>4, <1>5, NextCases

LEMMA TodoStep ==
  ASSUME TypeInv, PhaseInv, TodoInv, [Next]_vars
  PROVE  TodoInv'
<1> DEFINE P(t) ==
             /\ t.pc \in {"writing", "rolling"} =>
                  LET c == Selected(t.st) IN
                  /\ t.todo # <<>> /\ IsInjective(t.todo)
                  /\ Range(t.todo) \subseteq FilesOf[c]
                  /\ \A f \in FilesOf[c] : Patched(f, t.base[f]) # "none"
                  /\ IsInjective(t.written) /\ Range(t.written) \subseteq FilesOf[c] \ Range(t.todo)
                  /\ t.pc = "writing" => FilesOf[c] \ Range(t.todo) \subseteq Range(t.written)
             /\ t.pc = "rolling" => t.broken \in Range(t.todo)
             /\ t.pc \in Working \ {"rolling"} => t.broken = NoFile
             /\ t.broken # NoFile => t.kind = "approve_patch"
<1>0. \A x \in Requests : P(req[x])
  BY DEF TodoInv
<1>1. (\A x \in Requests : P(req'[x])) => TodoInv'
  BY DEF TodoInv
<1>2. ASSUME NEW r \in Requests, NEW q, req'[r] = q, \A x \in Requests \ {r} : req'[x] = req[x], P(q)
      PROVE  TodoInv'
  <2> HIDE DEF P
  <2> QED BY <1>0, <1>1, <1>2
<1>3. ASSUME NEW r \in Requests, NEW s \in Sessions, NEW kind, NEW q, Begun(r, s, kind, q)
      PROVE  TodoInv'
  <2>1. q.broken = NoFile /\ q.pc \notin {"writing", "rolling"}
    BY <1>3 DEF Begun, Refused, Deletes, Starts, Loads
  <2>2. P(q)
    BY <2>1
  <2> HIDE DEF P
  <2> QED BY <1>2, <1>3, <2>2, BegunFacts
<1>4. ASSUME NEW r \in Requests, NEW q, Steady(r, q), P(q)
      PROVE  TodoInv'
  <2> HIDE DEF P
  <2> QED BY <1>2, <1>4, SteadyFacts
<1>5. ASSUME NEW r \in Requests, NEW q, Steady(r, q), Worked(r, q)
      PROVE  P(q)
  <2>1. CASE Planned(r, q)
    <3>1. q.st = req[r].st /\ q.broken = NoFile /\ q.pc = "writing" /\ q.base = files /\ q.written = <<>>
      BY <1>0, <2>1 DEF Planned, Working, Applying
    <3>2. Range(<<>>) = {} /\ IsInjective(<<>>)
      BY DEF Range, IsInjective
    <3> QED BY <2>1, <3>1, <3>2 DEF Planned
  <2>2. CASE WroteOne(r, q)
    <3>1. /\ req[r].pc = "writing" /\ q.st = req[r].st /\ q.broken = NoFile /\ q.pc = "writing" /\ q.base = req[r].base
          /\ q.todo = Tail(req[r].todo) /\ q.todo # <<>> /\ q.written = <<Head(req[r].todo)>> \o req[r].written
      BY <1>0, <2>2 DEF WroteOne, Working, Applying
    <3> DEFINE fs == FilesOf[Selected(req[r].st)]
               f == Head(req[r].todo)
               old == req[r].written
    <3>2. /\ IsInjective(Tail(req[r].todo)) /\ Range(Tail(req[r].todo)) = Range(req[r].todo) \ {f}
          /\ Range(req[r].todo) \subseteq fs /\ f \in Range(req[r].todo) /\ f \in Files
          /\ \A g \in fs : Patched(g, req[r].base[g]) # "none"
          /\ old \in Seq(Files) /\ IsInjective(old) /\ Range(old) \subseteq fs \ Range(req[r].todo)
          /\ fs \ Range(req[r].todo) \subseteq Range(old)
      BY <1>0, <3>1, WritingFacts
    <3>3. q.st = req[r].st /\ q.written = <<f>> \o old
      BY <3>1
    <3> HIDE DEF f, old
    <3>4. IsInjective(q.written) /\ Range(q.written) = {f} \union Range(old)
      BY <3>2, <3>3, ConsRange
    <3> QED BY <3>1, <3>2, <3>3, <3>4
  <2>3. CASE Broke(r, q)
    <3>1. /\ req[r].pc = "writing" /\ q.st = req[r].st /\ q.broken = Head(req[r].todo) /\ q.pc = "rolling"
          /\ q.base = req[r].base /\ q.todo = req[r].todo /\ q.written = req[r].written /\ q.kind = req[r].kind
      BY <1>5, <2>3 DEF Worked, Broke, NoneUndone
    <3>2. Head(req[r].todo) \in Range(req[r].todo) /\ req[r].kind = "approve_patch"
      BY <3>1, WritingFacts
    <3> QED BY <1>0, <3>1, <3>2
  <2>6. CASE RolledOne(r, q)
    <3>1. /\ req[r].pc = "rolling" /\ q.st = req[r].st /\ q.broken = req[r].broken /\ q.pc = "rolling"
          /\ q.base = req[r].base /\ q.todo = req[r].todo /\ q.kind = req[r].kind
          /\ req[r].written # <<>> /\ q.written = Tail(req[r].written)
      BY <1>5, <2>6 DEF Worked, RolledOne, NoneUndone
    <3>2. /\ IsInjective(Tail(req[r].written)) /\ Range(Tail(req[r].written)) \subseteq Range(req[r].written)
          /\ req[r].kind = "approve_patch"
      BY <3>1, WritingFacts, TailRange
    <3> QED BY <1>0, <3>1, <3>2
  <2>4. CASE PlanFails(r, q) \/ WroteLast(r, q) \/ Rolled(r, q) \/ Stopped(r, q) \/ OneUndone(r, q) \/ Ran(r, q)
    <3>1. q.pc = "computed" /\ q.broken = req[r].broken /\ q.kind = req[r].kind
      BY <1>5, <2>4 DEF Worked, PlanFails, WroteLast, Rolled, Stopped, OneUndone, Ran, NoneUndone
    <3> QED BY <1>0, <3>1, SMTT(30) DEF Working, Applying
  <2>5. CASE NoneUndone(r, q)
    BY <2>5 DEF NoneUndone, Working, Applying
  <2> QED BY <1>5, <2>1, <2>2, <2>3, <2>4, <2>5, <2>6 DEF Worked
<1>6. ASSUME NEW r \in Requests, NEW q, Steady(r, q), SavedOn(r, q)
      PROVE  P(q)
  <2>1. /\ q.pc \in Saving \union Deleting \union Finished
        /\ q.broken # NoFile => q.broken = req[r].broken
        /\ q.kind = req[r].kind
    BY <1>6 DEF SavedOn, Opened, Filled, Passed, Removed, Ended, Keeps, Drops, Saving, Deleting, Finished
  <2> QED BY <1>0, <2>1 DEF Working, Applying, Saving, Deleting, Finished
<1>9. ASSUME NEW r \in Requests, NEW q, Steady(r, q), Thrown(r, q)
      PROVE  P(q)
  BY <1>9 DEF Thrown, Drops, Working, Applying
<1>7. CASE Crash
  <2>1. ASSUME NEW x \in Requests
        PROVE  P(req'[x])
    <3>1. CASE Active(x)
      BY <1>7, <3>1, CrashFacts DEF Working, Applying
    <3>2. CASE ~Active(x)
      <4> HIDE DEF P
      <4> QED BY <1>0, <1>7, <3>2, CrashFacts
    <3> QED BY <3>1, <3>2
  <2> HIDE DEF P
  <2> QED BY <1>1, <2>1
<1>8. CASE UNCHANGED vars
  <2> HIDE DEF P
  <2> QED BY <1>0, <1>1, <1>8 DEF vars
<1> HIDE DEF P
<1> QED BY <1>3, <1>4, <1>5, <1>6, <1>7, <1>8, <1>9, NextCases

\* Nobody changes the files under a patch that is alone with them.
LEMMA LoneFiles ==
  ASSUME TypeInv, PhaseInv, AloneInv, NEW r \in Requests, NEW q, Steady(r, q), Worked(r, q) \/ Thrown(r, q),
         NEW x \in Requests \ history.overlapped, x # r, Active(x), req[x].kind = "approve_patch"
  PROVE  files' = files
<1>1. CASE \/ PlanFails(r, q) \/ Planned(r, q) \/ Rolled(r, q) \/ NoneUndone(r, q) \/ Ran(r, q)
           \/ GaveUp(r) \/ Forgot(r) \/ HalfSaved(r)
  BY <1>1 DEF PlanFails, Planned, Rolled, NoneUndone, Ran, GaveUp, Forgot, HalfSaved
<1>2. CASE \/ WroteOne(r, q) \/ WroteLast(r, q) \/ Broke(r, q) \/ RolledOne(r, q) \/ Stopped(r, q)
           \/ OneUndone(r, q) \/ HalfUndone(r)
  <2>1. req[r].pc \in Applying \union {"undoing"}
    BY <1>2 DEF WroteOne, WroteLast, Broke, RolledOne, Stopped, OneUndone, HalfUndone, Applying
  <2>3. req[r].kind \in FileActions
    BY <2>1 DEF PhaseInv, FileActions
  <2>2. Active(r) /\ Meet(x, r)
    BY <2>3 DEF Steady, Meet, FileActions
  <2> QED BY <2>2 DEF AloneInv
<1> QED BY <1>1, <1>2 DEF Worked, Thrown

LEMMA WriteStep ==
  ASSUME TypeInv, PhaseInv, TodoInv, AloneInv, WriteInv, [Next]_vars
  PROVE  WriteInv'
<1> DEFINE Done(t) == Range(t.written)
           P(x, t, on, known) ==
             /\ t.pc \in {"writing", "rolling"} =>
                  \A f \in Files \ {t.broken} : on[f] = IF f \in Done(t) THEN Patched(f, t.base[f]) ELSE t.base[f]
             /\ t.pc = "rolling" => on[t.broken] \in {t.base[t.broken], "partial"}
             /\ t.pc = "computed" /\ t.broken # NoFile =>
                  \A f \in Files \ {t.broken} : on[f] = t.base[f] \/ (x \in known /\ f \in Done(t))
           Near(t) == t.pc \in {"writing", "rolling"} \/ (t.pc = "computed" /\ t.broken # NoFile)
<1>0. \A x \in Requests \ history.overlapped : P(x, req[x], files, history.unrestored)
  BY DEF WriteInv
<1>1. (\A x \in Requests \ history'.overlapped : P(x, req'[x], files', history'.unrestored)) => WriteInv'
  BY DEF WriteInv
<1>2. \A x, t, on, known : ~Near(t) => P(x, t, on, known)
  OBVIOUS
<1>3. ASSUME NEW r \in Requests, NEW s \in Sessions, NEW kind, NEW q, Begun(r, s, kind, q)
      PROVE  WriteInv'
  <2>1. ~Near(q)
    BY <1>3 DEF Begun, Refused, Deletes, Starts, Loads
  <2> HIDE DEF P, Near
  <2>2. /\ req'[r] = q /\ \A x \in Requests \ {r} : req'[x] = req[x]
        /\ files' = files /\ history.overlapped \subseteq history'.overlapped
    BY <1>3, BegunFacts
  <2>3. history'.unrestored = history.unrestored
    <3>1. PICK met \in SUBSET Requests : history' = [history EXCEPT !.overlapped = @ \union met]
      BY <1>3, BegunFacts
    <3> QED BY <3>1 DEF TypeInv, HistoryType
  <2> QED BY <1>0, <1>1, <1>2, <2>1, <2>2, <2>3
<1>4. ASSUME NEW r \in Requests, NEW q, Steady(r, q),
             Worked(r, q) \/ SavedOn(r, q) \/ Thrown(r, q),
             r \notin history.overlapped => P(r, q, files', history'.unrestored),
             \A x \in Requests \ history.overlapped : x # r /\ Near(req[x]) => files' = files
      PROVE  WriteInv'
  <2>1. /\ req'[r] = q /\ \A x \in Requests \ {r} : req'[x] = req[x]
        /\ history'.overlapped = history.overlapped
        /\ \A x \in Requests \ {r} : x \in history'.unrestored <=> x \in history.unrestored
    BY <1>4, SteadyFacts, HistorySteps DEF Grows
  <2>3. \A x, t, on, some, known : (x \in some <=> x \in known) => (P(x, t, on, known) <=> P(x, t, on, some))
    OBVIOUS
  <2>2. ASSUME NEW x \in Requests \ history'.overlapped
        PROVE  P(x, req'[x], files', history'.unrestored)
    <3> HIDE DEF P, Near
    <3>1. CASE x = r
      BY <1>4, <2>1, <2>2, <3>1
    <3>2. CASE x # r
      <4>1. P(x, req[x], files', history.unrestored)
        BY <1>0, <1>2, <1>4, <2>1, <2>2, <3>2
      <4>2. x \in history'.unrestored <=> x \in history.unrestored
        BY <2>1, <3>2
      <4> QED BY <2>1, <2>3, <3>2, <4>1, <4>2
    <3> QED BY <3>1, <3>2
  <2> HIDE DEF P, Near
  <2> QED BY <1>1, <2>2
<1>5. ASSUME NEW r \in Requests, NEW q, Steady(r, q), SavedOn(r, q)
      PROVE  WriteInv'
  <2>1. q.pc \in Saving \union Deleting \union Finished /\ files' = files
    BY <1>5 DEF SavedOn, Opened, Filled, Passed, Removed, Ended, Saving, Deleting, Finished
  <2>2. ~Near(q)
    BY <2>1 DEF Saving, Deleting, Finished
  <2> HIDE DEF P, Near
  <2> QED BY <1>2, <1>4, <1>5, <2>1, <2>2
<1>6. ASSUME NEW r \in Requests, NEW q, Steady(r, q), Worked(r, q)
      PROVE  WriteInv'
  <2>1. ASSUME NEW x \in Requests \ history.overlapped, x # r, Near(req[x])
        PROVE  files' = files
    <3>1. Active(x)
      BY <2>1 DEF Active, Finished
    <3>2. req[x].kind = "approve_patch"
      BY <2>1 DEF PhaseInv, TodoInv, Applying
    <3> QED BY <1>6, <2>1, <3>1, <3>2, LoneFiles
  <2>2. ASSUME r \notin history.overlapped
        PROVE  P(r, q, files', history'.unrestored)
    <3>0. P(r, req[r], files, history.unrestored)
      BY <1>0, <2>2
    <3>1. CASE Planned(r, q)
      <4>1. q.broken = NoFile
        BY <3>1 DEF Planned, TodoInv, Working, Applying
      <4>2. \A f \in Files : f \notin Done(q)
        BY <3>1 DEF Planned, Range
      <4>3. q.pc = "writing" /\ files' = q.base
        BY <3>1 DEF Planned
      <4> QED BY <4>2, <4>3
    <3>2. CASE WroteOne(r, q)
      <4> DEFINE f == Head(req[r].todo)
      <4>1. /\ req[r].pc = "writing" /\ q.pc = "writing" /\ q.st = req[r].st /\ q.broken = req[r].broken
            /\ q.base = req[r].base /\ q.written = <<f>> \o req[r].written
            /\ files' = [files EXCEPT ![f] = Patched(f, req[r].base[f])]
        BY <3>2 DEF WroteOne
      <4>2. /\ files \in [Files -> Contents] /\ f \in Files /\ f \notin Range(req[r].written)
            /\ req[r].written \in Seq(Files) /\ IsInjective(req[r].written)
        BY <4>1, WritingFacts DEF TypeInv, TypeOK
      <4> HIDE DEF f
      <4>3. \A g : g \in Done(q) <=> g \in Done(req[r]) \/ g = f
        <5>1. Range(<<f>> \o req[r].written) = {f} \union Range(req[r].written)
          BY <4>2, ConsRange
        <5> QED BY <4>1, <5>1
      <4> HIDE DEF Done
      <4>4. ASSUME NEW g \in Files \ {q.broken}
            PROVE  files'[g] = IF g \in Done(q) THEN Patched(g, q.base[g]) ELSE q.base[g]
        <5>1. files[g] = IF g \in Done(req[r]) THEN Patched(g, req[r].base[g]) ELSE req[r].base[g]
          BY <3>0, <4>1, <4>4
        <5> QED BY <4>1, <4>2, <4>3, <4>4, <5>1
      <4> QED BY <4>1, <4>4
    <3>3. CASE Broke(r, q)
      <4> DEFINE f == Head(req[r].todo)
      <4>1. /\ req[r].pc = "writing" /\ q.pc = "rolling" /\ q.st = req[r].st /\ q.broken = f
            /\ q.base = req[r].base /\ q.written = req[r].written /\ req[r].broken = NoFile
            /\ \E left \in {files[f], "partial"} : files' = [files EXCEPT ![f] = left]
        BY <3>3 DEF Broke, TodoInv, Working, Applying
      <4>7. f \notin Range(req[r].written) /\ f \in Files /\ files \in [Files -> Contents]
        BY <4>1, WritingFacts DEF TypeInv, TypeOK
      <4> HIDE DEF f
      <4>2. f \notin Range(req[r].written) /\ f \in Files /\ files \in [Files -> Contents] /\ f # NoFile
        BY <4>7, StoreAssumption
      <4>3. Done(q) = Done(req[r]) /\ f \notin Done(req[r])
        BY <4>1, <4>2
      <4> HIDE DEF Done
      <4>4. \A g \in Files : files[g] = IF g \in Done(req[r]) THEN Patched(g, req[r].base[g]) ELSE req[r].base[g]
        BY <3>0, <4>1, StoreAssumption
      <4>5. \A g \in Files \ {f} : files'[g] = files[g]
        BY <4>1, <4>2
      <4>6. files'[f] \in {files[f], "partial"} /\ files[f] = req[r].base[f]
        BY <4>1, <4>2, <4>3, <4>4
      <4> QED BY <4>1, <4>3, <4>4, <4>5, <4>6
    <3>4. CASE Rolled(r, q)
      <4>1. /\ req[r].pc = "rolling" /\ q.pc = "computed" /\ q.broken = req[r].broken /\ q.base = req[r].base
            /\ files' = files /\ req[r].written = <<>>
        BY <3>4 DEF Rolled
      <4>3. \A g : g \notin Done(req[r])
        BY <4>1 DEF Range
      <4> HIDE DEF Done
      <4>2. \A g \in Files \ {q.broken} : files'[g] = q.base[g]
        BY <3>0, <4>1, <4>3
      <4> QED BY <4>1, <4>2
    <3>6. CASE RolledOne(r, q)
      <4> DEFINE f == Head(req[r].written)
      <4>1. /\ req[r].pc = "rolling" /\ q.pc = "rolling" /\ q.broken = req[r].broken /\ q.base = req[r].base
            /\ q.written = Tail(req[r].written) /\ req[r].written # <<>>
            /\ files' = [files EXCEPT ![f] = req[r].base[f]]
        BY <3>6 DEF RolledOne
      <4>2. /\ f \in Range(req[r].written) /\ f \in Files /\ files \in [Files -> Contents]
            /\ Range(Tail(req[r].written)) = Range(req[r].written) \ {f}
            /\ req[r].broken \in Range(req[r].todo)
            /\ Range(req[r].written) \cap Range(req[r].todo) = {} /\ Range(req[r].todo) \subseteq Files
        BY <4>1, WritingFacts, TailRange DEF TodoInv, TypeInv, TypeOK
      <4>3. \A g : g \in Done(q) <=> g \in Done(req[r]) /\ g # f
        BY <4>1, <4>2
      <4>5. req[r].broken # f
        BY <4>2
      <4> HIDE DEF Done, f
      <4>4. ASSUME NEW g \in Files \ {q.broken}
            PROVE  files'[g] = IF g \in Done(q) THEN Patched(g, q.base[g]) ELSE q.base[g]
        <5>1. files[g] = IF g \in Done(req[r]) THEN Patched(g, req[r].base[g]) ELSE req[r].base[g]
          BY <3>0, <4>1, <4>4
        <5> QED BY <4>1, <4>2, <4>3, <4>4, <5>1
      <4>6. files'[q.broken] = files[q.broken]
        BY <4>1, <4>2, <4>5
      <4> QED BY <3>0, <4>1, <4>4, <4>6
    <3>7. CASE Stopped(r, q)
      <4> DEFINE f == Head(req[r].written)
      <4>1. /\ req[r].pc = "rolling" /\ q.pc = "computed" /\ q.broken = req[r].broken /\ q.base = req[r].base
            /\ q.written = req[r].written /\ f \in Range(req[r].written)
            /\ \E left \in {files[f], "partial"} : files' = [files EXCEPT ![f] = left]
            /\ history' = [history EXCEPT !.unrestored = @ \union {r}]
        BY <3>7 DEF Stopped
      <4>2. files \in [Files -> Contents] /\ r \in history'.unrestored
        BY <4>1 DEF TypeInv, TypeOK, HistoryType
      <4>3. Done(q) = Done(req[r]) /\ f \in Done(q)
        BY <4>1
      <4> HIDE DEF Done, f
      <4>4. \A g \in Files \ {f} : files'[g] = files[g]
        BY <4>1, <4>2
      <4>5. \A g \in Files \ {q.broken} : files'[g] = q.base[g] \/ g \in Done(q)
        BY <3>0, <4>1, <4>3, <4>4
      <4> QED BY <4>1, <4>2, <4>5
    <3>5. CASE PlanFails(r, q) \/ WroteLast(r, q) \/ NoneUndone(r, q) \/ OneUndone(r, q) \/ Ran(r, q)
      <4>1. ~Near(q)
        BY <3>5 DEF PlanFails, WroteLast, NoneUndone, OneUndone, Ran, TodoInv, Working, Applying
      <4> HIDE DEF P, Near
      <4> QED BY <1>2, <4>1
    <3> HIDE DEF P
    <3> QED BY <1>6, <3>1, <3>2, <3>3, <3>4, <3>5, <3>6, <3>7 DEF Worked
  <2> HIDE DEF P, Near
  <2> QED BY <1>4, <1>6, <2>1, <2>2
<1>9. ASSUME NEW r \in Requests, NEW q, Steady(r, q), Thrown(r, q)
      PROVE  WriteInv'
  <2>1. ASSUME NEW x \in Requests \ history.overlapped, x # r, Near(req[x])
        PROVE  files' = files
    <3>1. Active(x)
      BY <2>1 DEF Active, Finished
    <3>2. req[x].kind = "approve_patch"
      BY <2>1 DEF PhaseInv, TodoInv, Applying
    <3> QED BY <1>9, <2>1, <3>1, <3>2, LoneFiles
  <2>2. ~Near(q)
    BY <1>9 DEF Thrown
  <2> HIDE DEF P, Near
  <2> QED BY <1>2, <1>4, <1>9, <2>1, <2>2
<1>7. CASE Crash
  <2>1. /\ files' = files /\ history' = history
        /\ \A x \in Requests : (Active(x) => req'[x].pc = "lost") /\ (~Active(x) => req'[x] = req[x])
    BY <1>7, CrashFacts
  <2>2. \A x \in Requests : Active(x) => ~Near(req'[x])
    BY <2>1
  <2> HIDE DEF P, Near
  <2> QED BY <1>0, <1>1, <1>2, <2>1, <2>2
<1>8. CASE UNCHANGED vars
  <2> HIDE DEF P, Near
  <2> QED BY <1>0, <1>1, <1>8 DEF vars
<1> HIDE DEF P, Near
<1> QED BY <1>3, <1>5, <1>6, <1>7, <1>8, <1>9, NextCases

\* A save changes one session, and what it does to its record.
LEMMA SavedFacts ==
  ASSUME TypeInv, PhaseInv, NEW r \in Requests, NEW q, Steady(r, q), SavedOn(r, q)
  PROVE  /\ req[r].sid \in Sessions
         /\ \A s \in Sessions \ {req[r].sid} : record'[s] = record[s] /\ (s \in dir' <=> s \in dir)
         /\ Opened(r, q) => record'[req[r].sid] = Torn /\ req[r].sid \in dir'
         /\ Removed(r, q) => record'[req[r].sid] = Absent /\ req[r].sid \notin dir'
         /\ Passed(r, q) \/ Ended(r, q) => record' = record /\ dir \subseteq dir'
         /\ Filled(r, q) =>
              /\ dir' = dir
              /\ record[req[r].sid] = Torn => record'[req[r].sid] = req[r].st
              /\ \/ record'[req[r].sid] = record[req[r].sid]
                 \/ record'[req[r].sid] \in {req[r].st, Torn}
<1>1. record \in [Sessions -> SessionState \union {Absent, Torn}] /\ req[r].sid \in Sessions
  BY DEF TypeInv, TypeOK, PhaseInv, Steady, Active
<1>2. CASE Opened(r, q)
  BY <1>1, <1>2 DEF Opened, Removed, Passed, Ended, Filled
<1>3. CASE Filled(r, q)
  <2>1. req[r].pc = "torn" /\ q.pc = "filled" /\ q.st = req[r].st /\ dir' = dir
    BY <1>3 DEF Filled, Keeps
  <2>2. ~Opened(r, q) /\ ~Removed(r, q) /\ ~Passed(r, q) /\ ~Ended(r, q)
    BY <2>1 DEF Opened, Removed, Passed, Ended
  <2>3. \/ record[req[r].sid] = Torn /\ record' = [record EXCEPT ![req[r].sid] = q.st]
        \/ record[req[r].sid] = Absent /\ record' = record
        \/ /\ Readable(req[r].sid)
           /\ \E new \in {q.st, Torn} : record' = [record EXCEPT ![req[r].sid] = new]
    BY <1>3 DEF Filled
  <2>4. Absent # Torn
    BY StoreAssumption
  <2> QED BY <1>1, <2>1, <2>2, <2>3, <2>4 DEF Readable
<1>4. CASE Passed(r, q) \/ Ended(r, q)
  BY <1>1, <1>4 DEF Passed, Ended, Opened, Removed, Filled
<1>5. CASE Removed(r, q)
  BY <1>1, <1>5 DEF Opened, Removed, Passed, Ended, Filled
<1> QED BY <1>2, <1>3, <1>4, <1>5 DEF SavedOn

\* A request that throws changes one session, and takes no more of it than its record.
LEMMA ThrownFacts ==
  ASSUME TypeInv, PhaseInv, NEW r \in Requests, NEW q, Steady(r, q), Thrown(r, q)
  PROVE  /\ req[r].sid \in Sessions /\ q.pc = "failed" /\ q.st = NoState /\ q.kind = req[r].kind
         /\ \A s \in Sessions \ {req[r].sid} : record'[s] = record[s] /\ (s \in dir' <=> s \in dir)
         /\ dir \subseteq dir'
         /\ record'[req[r].sid] \in {record[req[r].sid], Absent, Torn}
         /\ record' = record \/ (HalfSaved(r) /\ record[req[r].sid] # Absent)
<1>1. record \in [Sessions -> SessionState \union {Absent, Torn}] /\ req[r].sid \in Sessions
  BY DEF TypeInv, TypeOK, PhaseInv, Steady, Active
<1>2. q.pc = "failed" /\ q.st = NoState /\ q.kind = req[r].kind
  BY DEF Thrown, Drops
<1>3. CASE GaveUp(r) \/ Forgot(r) \/ HalfUndone(r)
  BY <1>1, <1>2, <1>3 DEF GaveUp, Forgot, HalfUndone
<1>4. CASE HalfSaved(r)
  BY <1>1, <1>2, <1>4 DEF HalfSaved
<1> QED BY <1>3, <1>4 DEF Thrown

LEMMA SavedStep ==
  ASSUME TypeInv, PhaseInv, TodoInv, AloneInv, SavedInv, [Next]_vars
  PROVE  SavedInv'
<1> DEFINE P(t, rec, d) ==
             /\ t.pc \in Working \union Written => rec[t.sid] = t.st
             /\ t.pc = "torn" => rec[t.sid] = Torn
             /\ t.pc \in Saving => t.sid \in d
           Near(t) == t.pc \in Working \union Saving
<1>0. \A x \in Requests \ history.overlapped : P(req[x], record, dir)
  BY DEF SavedInv
<1>1. (\A x \in Requests \ history'.overlapped : P(req'[x], record', dir')) => SavedInv'
  BY DEF SavedInv
<1>2. \A t, rec, d : ~Near(t) => P(t, rec, d)
  BY DEF Saving, Written
<1>3. \A x \in Requests : Near(req[x]) => Active(x)
  BY DEF Working, Applying, Saving, Active, Finished
<1>4. ASSUME NEW r \in Requests, NEW s \in Sessions, NEW kind, NEW q, Begun(r, s, kind, q)
      PROVE  SavedInv'
  <2>1. P(q, record, dir)
    BY <1>4 DEF Begun, Refused, Deletes, Starts, Loads, Working, Applying, Written, Saving
  <2> HIDE DEF P, Near
  <2>2. /\ req'[r] = q /\ \A x \in Requests \ {r} : req'[x] = req[x]
        /\ record' = record /\ dir' = dir /\ history.overlapped \subseteq history'.overlapped
    BY <1>4, BegunFacts
  <2> QED BY <1>0, <1>1, <2>1, <2>2
<1>5. ASSUME NEW r \in Requests, NEW q, Steady(r, q), SavedOn(r, q)
      PROVE  SavedInv'
  <2>1. /\ req'[r] = q /\ \A x \in Requests \ {r} : req'[x] = req[x]
        /\ history'.overlapped = history.overlapped /\ q.sid = req[r].sid
    BY <1>5, SteadyFacts
  <2>2. /\ req[r].sid \in Sessions
        /\ \A s \in Sessions \ {req[r].sid} : record'[s] = record[s] /\ (s \in dir' <=> s \in dir)
    BY <1>5, SavedFacts
  <2>3. ASSUME NEW x \in Requests \ history.overlapped, x # r
        PROVE  P(req'[x], record', dir')
    <3>1. CASE ~Near(req[x])
      <4> HIDE DEF P, Near
      <4> QED BY <1>2, <2>1, <2>3, <3>1
    <3>2. CASE Near(req[x])
      <4>1. Active(x) /\ Active(r)
        BY <1>3, <1>5, <2>3, <3>2 DEF Steady
      <4>2. req[x].sid \in Sessions \ {req[r].sid}
        BY <2>3, <4>1 DEF AloneInv, Meet, PhaseInv, Active
      <4>3. record'[req[x].sid] = record[req[x].sid] /\ (req[x].sid \in dir' <=> req[x].sid \in dir)
        BY <2>2, <4>2
      <4>4. P(req[x], record, dir) /\ req'[x] = req[x]
        BY <1>0, <2>1, <2>3
      <4> QED BY <4>3, <4>4
    <3> QED BY <3>1, <3>2
  <2>4. ASSUME r \notin history.overlapped
        PROVE  P(q, record', dir')
    <3>0. P(req[r], record, dir)
      BY <1>0, <2>4
    <3>1. CASE Opened(r, q)
      <4>1. q.pc = "torn" /\ record'[q.sid] = Torn /\ q.sid \in dir'
        BY <1>5, <2>1, <3>1, SavedFacts DEF Opened
      <4> QED BY <4>1 DEF Working, Applying, Written
    <3>2. CASE Filled(r, q)
      <4>1. q.pc = "filled" /\ q.st = req[r].st /\ req[r].pc = "torn"
        BY <3>2 DEF Filled, Keeps
      <4>2. record[req[r].sid] = Torn /\ req[r].sid \in dir
        BY <3>0, <4>1 DEF Saving
      <4>3. dir' = dir /\ record'[req[r].sid] = req[r].st
        BY <1>5, <3>2, <4>2, SavedFacts
      <4> QED BY <2>1, <4>1, <4>2, <4>3
    <3>3. CASE Passed(r, q)
      <4>1. record' = record /\ dir \subseteq dir' /\ q.st = req[r].st
        BY <1>5, <3>3, SavedFacts DEF Passed, Keeps
      <4>2. CASE q.pc \in {"events", "artifacts"}
        <5>1. req[r].pc \in Written /\ req[r].pc \in Saving
          BY <3>3, <4>2 DEF Passed, Written, Saving
        <5> QED BY <2>1, <3>0, <4>1, <4>2, <5>1
      <4>3. CASE q.pc \notin {"events", "artifacts"}
        <5>1. ~Near(q)
          BY <3>3, <4>3 DEF Passed, Working, Applying, Saving
        <5> HIDE DEF P, Near
        <5> QED BY <1>2, <5>1
      <4> QED BY <4>2, <4>3
    <3>4. CASE Removed(r, q) \/ Ended(r, q)
      <4>1. ~Near(q)
        BY <3>4 DEF Removed, Ended, Working, Applying, Saving
      <4> HIDE DEF P, Near
      <4> QED BY <1>2, <4>1
    <3> HIDE DEF P
    <3> QED BY <1>5, <3>1, <3>2, <3>3, <3>4 DEF SavedOn
  <2> HIDE DEF P, Near
  <2> QED BY <1>1, <2>1, <2>3, <2>4
<1>6. ASSUME NEW r \in Requests, NEW q, Steady(r, q), Worked(r, q)
      PROVE  SavedInv'
  <2>1. /\ req'[r] = q /\ \A x \in Requests \ {r} : req'[x] = req[x]
        /\ history'.overlapped = history.overlapped /\ record' = record /\ dir' = dir /\ q.sid = req[r].sid
    BY <1>6, SteadyFacts, SMTT(30) DEF Worked, disk
  <2>2. Near(q) => q.st = req[r].st /\ q.pc \in Applying /\ req[r].pc \in Applying
    BY <1>6 DEF Worked, PlanFails, Planned, WroteOne, WroteLast, Broke, RolledOne, Rolled, Stopped, NoneUndone, OneUndone, Ran,
               Working, Applying, Saving
  <2>3. P(req[r], record, dir) => P(q, record, dir)
    <3>1. CASE ~Near(q)
      <4> HIDE DEF P, Near
      <4> QED BY <1>2, <3>1
    <3>2. CASE Near(q)
      BY <2>1, <2>2, <3>2 DEF Working, Applying, Saving
    <3> QED BY <3>1, <3>2
  <2> HIDE DEF P, Near
  <2> QED BY <1>0, <1>1, <2>1, <2>3
<1>9. ASSUME NEW r \in Requests, NEW q, Steady(r, q), Thrown(r, q)
      PROVE  SavedInv'
  <2>1. /\ req'[r] = q /\ \A x \in Requests \ {r} : req'[x] = req[x]
        /\ history'.overlapped = history.overlapped
    BY <1>9, SteadyFacts
  <2>2. /\ req[r].sid \in Sessions /\ q.pc = "failed"
        /\ \A s \in Sessions \ {req[r].sid} : record'[s] = record[s] /\ (s \in dir' <=> s \in dir)
    BY <1>9, ThrownFacts
  <2>3. ASSUME NEW x \in Requests \ history.overlapped, x # r
        PROVE  P(req'[x], record', dir')
    <3>1. CASE ~Near(req[x])
      <4> HIDE DEF P, Near
      <4> QED BY <1>2, <2>1, <2>3, <3>1
    <3>2. CASE Near(req[x])
      <4>1. Active(x) /\ Active(r)
        BY <1>3, <1>9, <2>3, <3>2 DEF Steady
      <4>2. req[x].sid \in Sessions \ {req[r].sid}
        BY <2>3, <4>1 DEF AloneInv, Meet, PhaseInv, Active
      <4>3. record'[req[x].sid] = record[req[x].sid] /\ (req[x].sid \in dir' <=> req[x].sid \in dir)
        BY <2>2, <4>2
      <4>4. P(req[x], record, dir) /\ req'[x] = req[x]
        BY <1>0, <2>1, <2>3
      <4> QED BY <4>3, <4>4
    <3> QED BY <3>1, <3>2
  <2>4. ~Near(q)
    BY <2>2 DEF Working, Applying, Saving
  <2> HIDE DEF P, Near
  <2> QED BY <1>1, <1>2, <2>1, <2>3, <2>4
<1>7. CASE Crash
  <2>1. /\ record' = record /\ dir' = dir /\ history' = history
        /\ \A x \in Requests : (Active(x) => req'[x].pc = "lost") /\ (~Active(x) => req'[x] = req[x])
    BY <1>7, CrashFacts
  <2>2. \A x \in Requests : Active(x) => ~Near(req'[x])
    BY <2>1 DEF Working, Applying, Saving
  <2> HIDE DEF P, Near
  <2> QED BY <1>0, <1>1, <1>2, <2>1, <2>2
<1>8. CASE UNCHANGED vars
  <2> HIDE DEF P, Near
  <2> QED BY <1>0, <1>1, <1>8 DEF vars, disk
<1> HIDE DEF P, Near
<1> QED BY <1>4, <1>5, <1>6, <1>7, <1>8, <1>9, NextCases

\* A step of work keeps the artifacts and the runs of the copy, and calls it complete for a reason.
LEMMA WorkedHonestly ==
  ASSUME TypeInv, PhaseInv, NEW r \in Requests, NEW q, Steady(r, q), Worked(r, q), ~NoneUndone(r, q)
  PROVE  req[r].st \in SessionState /\ Honest(req[r].st, q.st, r, q.kind)
<1> DEFINE st == req[r].st
<1>1. /\ st \in SessionState /\ req[r].kind = q.kind
      /\ req[r].pc \in Applying => req[r].kind = "approve_patch" /\ PatchWaiting(st)
  BY DEF Worked, PlanFails, Planned, WroteOne, WroteLast, Broke, RolledOne, Rolled, Stopped, NoneUndone, OneUndone, Ran,
         PhaseInv, Holds, Working, Applying
<1>2. CASE Planned(r, q) \/ WroteOne(r, q) \/ Broke(r, q) \/ RolledOne(r, q)
  <2>1. q.st = st
    BY <1>2 DEF Planned, WroteOne, Broke, RolledOne
  <2> HIDE DEF st
  <2> QED BY <1>1, <2>1 DEF Honest, st
<1>3. CASE PlanFails(r, q) \/ Rolled(r, q) \/ Stopped(r, q)
  <2>1. q.st = PatchFailed(st) /\ PatchWaiting(st) /\ q.kind \notin Recording
    BY <1>1, <1>3 DEF PlanFails, Rolled, Stopped, Applying, Recording
  <2>2. r \in Messages
    BY StoreAssumption
  <2>3. Extends(st, q.st, r, q.kind)
    BY <1>1, <2>1, <2>2, FailuresExtend
  <2> QED BY <1>1, <2>3 DEF Extends, Honest
<1>4. CASE WroteLast(r, q)
  <2>1. q.st = PatchApplied(st)
    BY <1>4 DEF WroteLast
  <2>2. q.st.refs = st.refs /\ q.st.runs = st.runs /\ q.st.summary = "none"
    BY <1>1, <2>1 DEF PatchApplied, SessionState
  <2> QED BY <1>1, <2>2 DEF Honest
<1>5. CASE OneUndone(r, q)
  <2>1. q.st = Undone(st, Last(undo).file, r)
    BY <1>5 DEF OneUndone
  <2>2. q.st.refs = st.refs \union {r} /\ q.st.runs = st.runs /\ q.st.summary = "none"
    BY <1>1, <2>1 DEF Undone, SessionState
  <2> QED BY <1>1, <2>2 DEF Honest
<1>6. CASE Ran(r, q)
  BY <1>1, <1>6 DEF Ran
<1>7. \/ PlanFails(r, q) \/ Planned(r, q) \/ WroteOne(r, q) \/ WroteLast(r, q) \/ Broke(r, q)
      \/ RolledOne(r, q) \/ Rolled(r, q) \/ Stopped(r, q) \/ OneUndone(r, q) \/ Ran(r, q)
  BY Zenon DEF Worked
<1> HIDE DEF st
<1> QED BY <1>2, <1>3, <1>4, <1>5, <1>6, <1>7, SMTT(30) DEF st

LEMMA RecordedStep ==
  ASSUME TypeInv, PhaseInv, TodoInv, AloneInv, SavedInv, RecordedInv, [Next]_vars
  PROVE  RecordedInv'
<1> DEFINE In(x, s) == /\ record[s] \notin {Absent, Torn} => x \in record[s].refs
                      /\ \A y \in Requests : Holds(y) /\ req[y].sid = s => x \in req[y].st.refs
           Has(t) == t.pc \in Working \union {"computed"} \union Saving
           New(x, s) == /\ record'[s] \notin {Absent, Torn} => x \in record'[s].refs
                        /\ \A y \in Requests : Has(req'[y]) /\ req'[y].sid = s => x \in req'[y].st.refs
           Over(t) == t.pc = "done" /\ t.kind \in Recording
<1>0. \A x \in Requests \ history.overlapped : Over(req[x]) => In(x, req[x].sid)
  BY DEF RecordedInv, Readable
<1>1. (\A x \in Requests \ history'.overlapped : Over(req'[x]) => New(x, req'[x].sid)) => RecordedInv'
  BY DEF RecordedInv, Readable, Holds
<1>2. \A y \in Requests : Holds(y) <=> Has(req[y])
  BY DEF Holds
<1>3. ASSUME NEW r \in Requests, NEW s \in Sessions, NEW kind, NEW q, Begun(r, s, kind, q)
      PROVE  RecordedInv'
  <2>1. /\ req'[r] = q /\ \A x \in Requests \ {r} : req'[x] = req[x]
        /\ record' = record /\ history.overlapped \subseteq history'.overlapped /\ q.sid = s
    BY <1>3, BegunFacts
  <2>2. ~Over(q)
    BY <1>3 DEF Begun, Refused, Deletes, Starts, Loads
  <2>3. ASSUME NEW x \in Requests \ history'.overlapped, x # r, Over(req[x])
        PROVE  New(x, req[x].sid)
    <3>1. In(x, req[x].sid)
      BY <1>0, <2>1, <2>3
    <3>2. Has(q) /\ s = req[x].sid => x \in q.st.refs
      <4>1. CASE Loads(r, s, kind, q)
        BY <3>1, <4>1 DEF Loads, Extends, Readable
      <4>2. CASE Starts(s, kind, q)
        BY <4>2 DEF Starts
      <4>3. CASE Refused(q) \/ Deletes(kind, q)
        BY <4>3 DEF Refused, Deletes, Working, Applying, Saving
      <4> QED BY <1>3, <4>1, <4>2, <4>3 DEF Begun
    <3> HIDE DEF Has
    <3> QED BY <1>2, <2>1, <3>1, <3>2
  <2> HIDE DEF Over, New
  <2> QED BY <1>1, <2>1, <2>2, <2>3
<1>4. ASSUME NEW r \in Requests, NEW q, Steady(r, q), Over(q), r \notin history.overlapped,
             Worked(r, q) \/ SavedOn(r, q) \/ Thrown(r, q)
      PROVE  New(r, q.sid)
  <2>0. ~Thrown(r, q)
    BY <1>4 DEF Thrown
  <2>1. ~Worked(r, q)
    BY <1>4 DEF Worked, PlanFails, Planned, WroteOne, WroteLast, Broke, RolledOne, Rolled, Stopped, NoneUndone, OneUndone, Ran
  <2>2. Ended(r, q) /\ q.kind = req[r].kind
    BY <1>4, <2>0, <2>1 DEF SavedOn, Opened, Filled, Passed, Removed
  <2>3. req[r].pc = "artifacts" /\ req[r].kind \in Recording /\ record' = record
    BY <1>4, <2>2 DEF Ended
  <2>4. /\ req'[r] = q /\ \A x \in Requests \ {r} : req'[x] = req[x]
        /\ Active(r) /\ q.sid = req[r].sid
    BY <1>4, SteadyFacts DEF Steady
  <2>5. record[req[r].sid] = req[r].st /\ r \in req[r].st.refs
    BY <1>4, <2>3 DEF SavedInv, PhaseInv, Written, Saving
  <2>6. ~Has(q)
    BY <1>4 DEF Working, Applying, Saving
  <2>7. \A y \in Requests \ {r} : Has(req[y]) => Active(y)
    BY DEF Active, Finished, Working, Applying, Saving
  <2>8. \A y \in Requests \ {r} : Active(y) => req[y].sid # req[r].sid
    BY <1>4, <2>4 DEF AloneInv, Meet
  <2> HIDE DEF Has
  <2> QED BY <2>3, <2>4, <2>5, <2>6, <2>7, <2>8
<1>5. ASSUME NEW r \in Requests, NEW q, Steady(r, q), Worked(r, q) \/ SavedOn(r, q) \/ Thrown(r, q)
      PROVE  RecordedInv'
  <2>1. /\ req'[r] = q /\ \A x \in Requests \ {r} : req'[x] = req[x]
        /\ history'.overlapped = history.overlapped /\ q.sid = req[r].sid /\ req[r].sid \in Sessions
    BY <1>5, SteadyFacts DEF PhaseInv
  <2>2. ASSUME NEW x \in Requests \ history.overlapped, x # r, Over(req[x])
        PROVE  New(x, req[x].sid)
    <3> DEFINE s == req[x].sid
    <3>1. In(x, s) /\ s \in Sessions
      BY <1>0, <2>2 DEF PhaseInv
    <3>2. Has(q) /\ q.sid = s => x \in q.st.refs
      <4>1. CASE Worked(r, q)
        <5>1. ~NoneUndone(r, q) => Holds(r)
          BY <4>1 DEF Worked, PlanFails, Planned, WroteOne, WroteLast, Broke, RolledOne, Rolled, Stopped, OneUndone, Ran,
                     Holds, Working, Applying
        <5>2. NoneUndone(r, q) => ~Has(q)
          BY DEF NoneUndone, Working, Applying, Saving
        <5>3. ~NoneUndone(r, q) => req[r].st.refs \subseteq q.st.refs
          BY <1>5, <4>1, WorkedHonestly DEF Honest
        <5> HIDE DEF Has
        <5> QED BY <2>1, <3>1, <5>1, <5>2, <5>3
      <4>2. CASE SavedOn(r, q)
        <5>1. Has(q) => Holds(r) /\ q.st = req[r].st
          BY <4>2 DEF SavedOn, Opened, Filled, Passed, Removed, Ended, Keeps, Holds, Working, Applying, Saving
        <5> HIDE DEF Has
        <5> QED BY <2>1, <3>1, <5>1
      <4>3. CASE Thrown(r, q)
        BY <4>3 DEF Thrown, Working, Applying, Saving
      <4> QED BY <1>5, <4>1, <4>2, <4>3
    <3>3. record'[s] \notin {Absent, Torn} => x \in record'[s].refs
      <4>1. CASE Worked(r, q)
        BY <3>1, <4>1 DEF Worked, disk
      <4>2. CASE SavedOn(r, q) /\ s # req[r].sid
        BY <1>5, <3>1, <4>2, SavedFacts
      <4>3. CASE SavedOn(r, q) /\ s = req[r].sid
        <5>1. record'[s] \in {record[s], Torn, Absent} \/ (Filled(r, q) /\ record'[s] = req[r].st)
          BY <1>5, <4>3, SavedFacts DEF SavedOn
        <5>2. Filled(r, q) => Holds(r)
          BY DEF Filled, Holds, Saving
        <5> QED BY <3>1, <4>3, <5>1, <5>2
      <4>4. CASE Thrown(r, q)
        <5>1. record'[s] \in {record[s], Absent, Torn}
          BY <1>5, <3>1, <4>4, ThrownFacts
        <5> QED BY <3>1, <5>1
      <4> QED BY <1>5, <4>1, <4>2, <4>3, <4>4
    <3> HIDE DEF Has
    <3> QED BY <1>2, <2>1, <3>1, <3>2, <3>3
  <2> HIDE DEF Over, New
  <2> QED BY <1>1, <1>4, <1>5, <2>1, <2>2
<1>6. CASE Crash
  <2>1. /\ record' = record /\ history' = history
        /\ \A x \in Requests : /\ req'[x].sid = req[x].sid /\ (Active(x) => req'[x].pc = "lost")
                               /\ ~Active(x) => req'[x] = req[x]
    BY <1>6, CrashFacts
  <2>2. \A x \in Requests : ~Has(req'[x])
    BY <2>1 DEF Active, Finished, Working, Applying, Saving
  <2>3. \A x \in Requests : Over(req'[x]) => Over(req[x])
    BY <2>1
  <2> HIDE DEF Has, Over
  <2> QED BY <1>0, <1>1, <2>1, <2>2, <2>3
<1>7. CASE UNCHANGED vars
  <2>1. record' = record /\ req' = req /\ history' = history
    BY <1>7 DEF vars, disk
  <2> HIDE DEF Has, Over
  <2> QED BY <1>0, <1>1, <1>2, <2>1
<1> HIDE DEF Has, Over, New, In
<1> QED BY <1>3, <1>5, <1>6, <1>7, NextCases

\* A session that two requests met on, that one left half written, or that a crash hit, stays one.
LEMMA DisturbedStays ==
  ASSUME TypeInv, PhaseInv, TodoInv, [Next]_vars, NEW s \in Sessions
  PROVE  Disturbed(s) \subseteq Disturbed(s)'
<1> SUFFICES ASSUME NEW x \in Disturbed(s)
             PROVE  x \in Disturbed(s)'
  OBVIOUS
<1>1. /\ x \in Requests /\ req[x].sid = s
      /\ x \in history.overlapped \/ x \in history.cut \/ req[x].pc = "lost"
      /\ req[x].pc # "idle"
  BY StoreAssumption DEF Disturbed, Lost, TypeInv, TypeOK, HistoryType, PhaseInv
<1>2. ASSUME req'[x].sid = s, x \in history'.overlapped \/ x \in history'.cut \/ req'[x].pc = "lost"
      PROVE  x \in Disturbed(s)'
  BY <1>1, <1>2 DEF Disturbed, Lost
<1>3. ASSUME NEW r \in Requests, NEW t \in Sessions, NEW kind, NEW q, Begun(r, t, kind, q)
      PROVE  x \in Disturbed(s)'
  <2>1. history'.cut = history.cut
    <3>1. PICK met \in SUBSET Requests : history' = [history EXCEPT !.overlapped = @ \union met]
      BY <1>3, BegunFacts
    <3> QED BY <3>1 DEF TypeInv, HistoryType
  <2> QED BY <1>1, <1>2, <1>3, <2>1, BegunFacts
<1>4. ASSUME NEW r \in Requests, NEW q, Steady(r, q), Worked(r, q) \/ SavedOn(r, q) \/ Thrown(r, q)
      PROVE  x \in Disturbed(s)'
  <2>1. history.cut \subseteq history'.cut
    BY <1>4, HistorySteps DEF Grows
  <2> QED BY <1>1, <1>2, <1>4, <2>1, SteadyFacts DEF Finished
<1>5. CASE Crash
  BY <1>1, <1>2, <1>5, CrashFacts DEF Active, Finished
<1>6. CASE UNCHANGED vars
  BY <1>1, <1>2, <1>6 DEF vars
<1> QED BY <1>3, <1>4, <1>5, <1>6, NextCases

LEMMA MetStays ==
  ASSUME TypeInv, PhaseInv, TodoInv, [Next]_vars, NEW s \in Sessions
  PROVE  Met(s) \subseteq Met(s)'
<1> SUFFICES ASSUME NEW x \in Met(s)
             PROVE  x \in Met(s)'
  OBVIOUS
<1>1. x \in Requests /\ req[x].sid = s /\ x \in history.overlapped /\ req[x].pc # "idle"
  BY DEF Met, TypeInv, HistoryType, PhaseInv
<1>2. (req'[x].sid = s /\ x \in history'.overlapped) => x \in Met(s)'
  BY DEF Met
<1>3. ASSUME NEW r \in Requests, NEW t \in Sessions, NEW kind, NEW q, Begun(r, t, kind, q)
      PROVE  x \in Met(s)'
  BY <1>1, <1>2, <1>3, BegunFacts
<1>4. ASSUME NEW r \in Requests, NEW q, Steady(r, q)
      PROVE  x \in Met(s)'
  BY <1>1, <1>2, <1>4, SteadyFacts
<1>5. CASE Crash
  BY <1>1, <1>2, <1>5, CrashFacts
<1>6. CASE UNCHANGED vars
  BY <1>1, <1>2, <1>6 DEF vars
<1> QED BY <1>3, <1>4, <1>5, <1>6, NextCases

LEMMA ListStep ==
  ASSUME TypeInv, PhaseInv, TodoInv, SavedInv, ListInv, [Next]_vars
  PROVE  ListInv'
<1> DEFINE Torn0(x, s) == req[x].pc = "torn" /\ req[x].sid = s
           Torn1(x, s) == req'[x].pc = "torn" /\ req'[x].sid = s
           Bad(s) == s \in dir /\ record[s] \in {Absent, Torn}
           Bad1(s) == s \in dir' /\ record'[s] \in {Absent, Torn}
<1>0. \A s \in Sessions : /\ record[s] # Absent /\ s \notin dir => Met(s) # {}
                          /\ Bad(s) => Disturbed(s) # {} \/ \E x \in Requests : Torn0(x, s)
  BY DEF ListInv, Unlistable, Readable
<1>1. (\A s \in Sessions : /\ record'[s] # Absent /\ s \notin dir' => Met(s)' # {}
                           /\ Bad1(s) => Disturbed(s)' # {} \/ \E x \in Requests : Torn1(x, s))
      => ListInv'
  <2>1. dir' \subseteq Sessions
    BY TypeStep DEF TypeInv, TypeOK
  <2> QED BY <2>1 DEF ListInv, Unlistable, Readable
<1>2. \A s \in Sessions : (Disturbed(s) # {} => Disturbed(s)' # {}) /\ (Met(s) # {} => Met(s)' # {})
  BY DisturbedStays, MetStays
<1>3. ASSUME record' = record, dir' = dir, \A s \in Sessions, x \in Requests : Torn0(x, s) => Torn1(x, s) \/ Disturbed(s)' # {}
      PROVE  ListInv'
  <2> HIDE DEF Torn0, Torn1
  <2> QED BY <1>0, <1>1, <1>2, <1>3
<1>4. ASSUME NEW r \in Requests, NEW s \in Sessions, NEW kind, NEW q, Begun(r, s, kind, q)
      PROVE  ListInv'
  <2>1. /\ record' = record /\ dir' = dir /\ req[r].pc = "idle"
        /\ \A x \in Requests \ {r} : req'[x] = req[x]
    BY <1>4, BegunFacts
  <2> QED BY <1>3, <2>1
<1>5. ASSUME NEW r \in Requests, NEW q, Steady(r, q), Worked(r, q)
      PROVE  ListInv'
  <2>1. record' = record /\ dir' = dir /\ \A x \in Requests \ {r} : req'[x] = req[x]
    BY <1>5, SteadyFacts, SMTT(30) DEF Worked, disk
  <2>2. req[r].pc # "torn"
    BY <1>5 DEF Worked, PlanFails, Planned, WroteOne, WroteLast, Broke, RolledOne, Rolled, Stopped, NoneUndone, OneUndone, Ran
  <2> QED BY <1>3, <2>1, <2>2
<1>6. ASSUME NEW r \in Requests, NEW q, Steady(r, q), SavedOn(r, q)
      PROVE  ListInv'
  <2>1. /\ req'[r] = q /\ \A x \in Requests \ {r} : req'[x] = req[x]
        /\ history'.overlapped = history.overlapped /\ q.sid = req[r].sid
    BY <1>6, SteadyFacts
  <2>2. ASSUME NEW s \in Sessions
        PROVE  /\ record'[s] # Absent /\ s \notin dir' => Met(s)' # {}
               /\ Bad1(s) => Disturbed(s)' # {} \/ \E x \in Requests : Torn1(x, s)
    <3>1. CASE s # req[r].sid
      <4>1. record'[s] = record[s] /\ (s \in dir' <=> s \in dir)
        BY <1>6, <3>1, SavedFacts
      <4>2. \A x \in Requests : Torn0(x, s) => Torn1(x, s)
        BY <2>1, <3>1
      <4> QED BY <1>0, <1>2, <4>1, <4>2
    <3>2. CASE s = req[r].sid /\ r \in history.overlapped
      <4>1. r \in Disturbed(s)' /\ r \in Met(s)'
        BY <2>1, <3>2 DEF Disturbed, Met
      <4> QED BY <4>1
    <3>3. CASE s = req[r].sid /\ r \notin history.overlapped
      <4>1. CASE Opened(r, q)
        <5>1. Torn1(r, s) /\ s \in dir'
          BY <1>6, <2>1, <3>3, <4>1, SavedFacts DEF Opened
        <5> QED BY <5>1
      <4>2. CASE Filled(r, q)
        <5>1. req[r].pc = "torn"
          BY <4>2 DEF Filled
        <5>2. record[s] = Torn /\ s \in dir /\ req[r].st \in SessionState
          BY <3>3, <5>1 DEF SavedInv, PhaseInv, Holds, Saving
        <5>3. record'[s] \in SessionState /\ dir' = dir
          BY <1>6, <3>3, <4>2, <5>2, SavedFacts
        <5> QED BY <5>2, <5>3, StoreAssumption
      <4>3. CASE Removed(r, q)
        BY <1>6, <3>3, <4>3, SavedFacts
      <4>4. CASE Passed(r, q) \/ Ended(r, q)
        <5>1. record' = record /\ dir \subseteq dir' /\ req[r].pc # "torn"
          BY <1>6, <4>4, SavedFacts DEF Passed, Ended
        <5>2. s \in dir' => s \in dir
          <6>1. CASE req[r].pc = "events" /\ Passed(r, q)
            BY <3>3, <6>1 DEF SavedInv, Saving
          <6>2. CASE ~(req[r].pc = "events" /\ Passed(r, q))
            BY <4>4, <6>2 DEF Passed, Ended
          <6> QED BY <6>1, <6>2
        <5>3. \A x \in Requests : Torn0(x, s) => Torn1(x, s)
          BY <2>1, <5>1
        <5> QED BY <1>0, <1>2, <5>1, <5>2, <5>3
      <4> QED BY <1>6, <4>1, <4>2, <4>3, <4>4 DEF SavedOn
    <3> QED BY <3>1, <3>2, <3>3
  <2> HIDE DEF Torn1, Bad1
  <2> QED BY <1>1, <2>2
<1>9. ASSUME NEW r \in Requests, NEW q, Steady(r, q), Thrown(r, q)
      PROVE  ListInv'
  <2>1. /\ req'[r] = q /\ \A x \in Requests \ {r} : req'[x] = req[x]
        /\ history'.overlapped = history.overlapped /\ q.sid = req[r].sid
    BY <1>9, SteadyFacts
  <2>2. ASSUME NEW s \in Sessions
        PROVE  /\ record'[s] # Absent /\ s \notin dir' => Met(s)' # {}
               /\ Bad1(s) => Disturbed(s)' # {} \/ \E x \in Requests : Torn1(x, s)
    <3>1. CASE s # req[r].sid
      <4>1. record'[s] = record[s] /\ (s \in dir' <=> s \in dir)
        BY <1>9, <3>1, ThrownFacts
      <4>2. \A x \in Requests : Torn0(x, s) => Torn1(x, s)
        BY <2>1, <3>1
      <4> QED BY <1>0, <1>2, <4>1, <4>2
    <3>2. CASE s = req[r].sid
      <4>1. record'[s] # Absent /\ s \notin dir' => Met(s)' # {}
        <5>1. dir \subseteq dir' /\ (record'[s] # Absent => record[s] # Absent)
          BY <1>9, <3>2, ThrownFacts
        <5> HIDE DEF Bad, Torn0
        <5> QED BY <1>0, <1>2, <5>1
      <4>2. CASE HalfSaved(r) \/ (Forgot(r) /\ dir' # dir)
        <5>1. r \in history'.cut
          <6>1. history \in HistoryType
            BY DEF TypeInv
          <6>2. CASE HalfSaved(r)
            BY <6>1, <6>2 DEF HalfSaved, HistoryType
          <6>3. CASE Forgot(r) /\ dir' # dir
            <7> DEFINE a == Changing(r)
            <7>1. history' = [history EXCEPT !.unrecorded = @ \union a, !.cut = @ \union {r}]
              BY <6>3 DEF Forgot
            <7> HIDE DEF a
            <7> QED BY <6>1, <7>1 DEF HistoryType
          <6> QED BY <4>2, <6>2, <6>3
        <5>2. r \in Disturbed(s)'
          BY <2>1, <3>2, <5>1 DEF Disturbed
        <5> QED BY <4>1, <5>2
      <4>3. CASE (GaveUp(r) /\ dir' = dir) \/ (Forgot(r) /\ dir' = dir) \/ HalfUndone(r)
        <5>1. record' = record /\ dir' = dir /\ req[r].pc # "torn"
          BY <4>3 DEF GaveUp, Forgot, HalfUndone
        <5>2. \A x \in Requests : Torn0(x, s) => Torn1(x, s)
          BY <2>1, <5>1
        <5> HIDE DEF Torn0, Torn1
        <5> QED BY <1>0, <1>2, <4>1, <5>1, <5>2
      <4>4. CASE GaveUp(r) /\ req[r].pc = "events" /\ dir' = dir \union {s}
        <5>1. CASE r \in history.overlapped
          <6>1. r \in Disturbed(s)'
            BY <2>1, <3>2, <5>1 DEF Disturbed
          <6> QED BY <4>1, <6>1
        <5>2. CASE r \notin history.overlapped
          <6>1. s \in dir
            BY <3>2, <4>4, <5>2 DEF SavedInv, Saving
          <6>2. record' = record /\ dir' = dir
            BY <4>4, <6>1 DEF GaveUp
          <6>3. \A x \in Requests : Torn0(x, s) => Torn1(x, s)
            BY <2>1, <4>4
          <6> HIDE DEF Torn0, Torn1
          <6> QED BY <1>0, <1>2, <4>1, <6>2, <6>3
        <5> QED BY <5>1, <5>2
      <4>5. GaveUp(r) => dir' = dir \/ (req[r].pc = "events" /\ dir' = dir \union {s})
        BY <3>2 DEF GaveUp
      <4>6. GaveUp(r) \/ Forgot(r) \/ HalfUndone(r) \/ HalfSaved(r)
        BY <1>9 DEF Thrown
      <4> HIDE DEF Bad1, Torn1
      <4> QED BY <4>2, <4>3, <4>4, <4>5, <4>6
    <3> QED BY <3>1, <3>2
  <2> HIDE DEF Torn1, Bad1
  <2> QED BY <1>1, <2>2
<1>7. CASE Crash
  <2>1. /\ record' = record /\ dir' = dir
        /\ \A x \in Requests : /\ req'[x].sid = req[x].sid /\ (Active(x) => req'[x].pc = "lost")
                               /\ ~Active(x) => req'[x] = req[x]
    BY <1>7, CrashFacts
  <2>2. ASSUME NEW s \in Sessions, NEW x \in Requests, Torn0(x, s)
        PROVE  x \in Disturbed(s)'
    <3>1. req'[x].sid = s /\ req'[x].pc = "lost"
      BY <2>1, <2>2 DEF Active, Finished
    <3> QED BY <3>1 DEF Disturbed, Lost
  <2> HIDE DEF Torn0, Torn1
  <2> QED BY <1>3, <2>1, <2>2
<1>8. CASE UNCHANGED vars
  <2>1. record' = record /\ dir' = dir /\ req' = req
    BY <1>8 DEF vars, disk
  <2> QED BY <1>3, <2>1
<1> HIDE DEF Torn0, Torn1, Bad, Bad1
<1> QED BY <1>4, <1>5, <1>6, <1>7, <1>8, <1>9, NextCases

LEMMA VerifiedStep ==
  ASSUME TypeInv, PhaseInv, TodoInv, VerifiedInv, [Next]_vars
  PROVE  VerifiedInv'
<1> DEFINE Has(t) == t.pc \in Working \union {"computed"} \union Saving
           V(st) == st.summary = "completed" =>
                      "passed" \in Range(st.runs) \/ \E x \in st.refs \ {Origin} : req[x].kind = "message"
           V1(st) == st.summary = "completed" =>
                       "passed" \in Range(st.runs) \/ \E x \in st.refs \ {Origin} : req'[x].kind = "message"
<1>0. /\ \A s \in Sessions : record[s] \notin {Absent, Torn} => V(record[s])
      /\ \A x \in Requests : Has(req[x]) => V(req[x].st)
  BY DEF VerifiedInv, Verified, Readable, Holds
<1>1. ASSUME \A s \in Sessions : record'[s] \notin {Absent, Torn} => V1(record'[s]),
             \A x \in Requests : Has(req'[x]) => V1(req'[x].st)
      PROVE  VerifiedInv'
  BY <1>1 DEF VerifiedInv, Verified, Readable, Holds
<1>2. ASSUME \A x \in Requests : req[x].kind = "message" => req'[x].kind = "message",
             NEW st \in SessionState, NEW next, NEW r \in Requests, NEW kind,
             Honest(st, next, r, kind), kind = "message" => req'[r].kind = "message", V(st)
      PROVE  V1(next)
  <2> SUFFICES ASSUME next.summary = "completed", "passed" \notin Range(next.runs)
               PROVE  \E x \in next.refs \ {Origin} : req'[x].kind = "message"
    OBVIOUS
  <2>1. CASE kind = "message" /\ r \in next.refs
    BY <1>2, <2>1, StoreAssumption
  <2>2. CASE st.summary = "completed"
    <3>1. "passed" \notin Range(st.runs) /\ st.refs \subseteq next.refs
      BY <1>2 DEF Honest
    <3>2. PICK x \in st.refs \ {Origin} : req[x].kind = "message"
      BY <1>2, <2>2, <3>1
    <3>3. st.refs \subseteq Messages
      BY DEF SessionState
    <3>4. x \in Requests
      BY <3>2, <3>3, StoreAssumption
    <3> QED BY <1>2, <3>1, <3>2, <3>4
  <2> QED BY <1>2, <2>1, <2>2 DEF Honest
<1>3. \A st \in SessionState : \A r, kind : Honest(st, st, r, kind)
  BY DEF Honest
<1>4. record \in [Sessions -> SessionState \union {Absent, Torn}]
  BY DEF TypeInv, TypeOK
<1>5. \A x \in Requests : Has(req[x]) => req[x].st \in SessionState
  BY DEF PhaseInv, Holds
<1>6. ASSUME NEW r \in Requests, NEW s \in Sessions, NEW kind, NEW q, Begun(r, s, kind, q)
      PROVE  VerifiedInv'
  <2>1. /\ req'[r] = q /\ \A x \in Requests \ {r} : req'[x] = req[x]
        /\ record' = record /\ req[r].pc = "idle"
    BY <1>6, BegunFacts
  <2>2. \A x \in Requests : req[x].kind = "message" => req'[x].kind = "message"
    BY <2>1 DEF PhaseInv
  <2>3. ASSUME NEW st \in SessionState, V(st)
        PROVE  V1(st)
    <3>1. Honest(st, st, r, "none")
      BY <1>3
    <3> HIDE DEF V, V1
    <3> QED BY <1>2, <2>2, <2>3, <3>1
  <2>4. Has(q) => V1(q.st)
    <3>1. CASE Starts(s, kind, q)
      BY <3>1, StartAssumption DEF Starts
    <3>2. CASE Loads(r, s, kind, q)
      <4>1. record[s] \in SessionState /\ record[s] \notin {Absent, Torn} /\ q.kind = kind
        BY <1>4, <3>2 DEF Loads, Readable
      <4>2. Honest(record[s], q.st, r, kind)
        <5>1. CASE Extends(record[s], q.st, r, kind)
          BY <5>1 DEF Extends, Honest
        <5>2. CASE q.st = record[s]
          BY <1>3, <4>1, <5>2
        <5> QED BY <3>2, <5>1, <5>2 DEF Loads
      <4> HIDE DEF V, V1
      <4> QED BY <1>0, <1>2, <2>1, <2>2, <4>1, <4>2
    <3>3. CASE Refused(q) \/ Deletes(kind, q)
      BY <3>3 DEF Refused, Deletes, Working, Applying, Saving
    <3> QED BY <1>6, <3>1, <3>2, <3>3 DEF Begun
  <2> HIDE DEF V, V1, Has
  <2> QED BY <1>0, <1>1, <1>4, <1>5, <2>1, <2>3, <2>4
<1>7. ASSUME NEW r \in Requests, NEW q, Steady(r, q), Worked(r, q) \/ SavedOn(r, q) \/ Thrown(r, q)
      PROVE  VerifiedInv'
  <2>1. req'[r] = q /\ \A x \in Requests \ {r} : req'[x] = req[x]
    BY <1>7, SteadyFacts
  <2>2. q.kind = req[r].kind \/ (NoneUndone(r, q) /\ req[r].kind # "message")
    BY <1>7 DEF Worked, SavedOn, Thrown, NoneUndone, PhaseInv
  <2>3. \A x \in Requests : req[x].kind = "message" => req'[x].kind = "message"
    BY <2>1, <2>2
  <2>4. ASSUME NEW st \in SessionState, V(st)
        PROVE  V1(st)
    <3>1. Honest(st, st, r, "none")
      BY <1>3
    <3> HIDE DEF V, V1
    <3> QED BY <1>2, <2>3, <2>4, <3>1
  <2>5. CASE Worked(r, q)
    <3>1. record' = record
      BY <2>5 DEF Worked, disk
    <3>2. CASE NoneUndone(r, q)
      <4>1. ~Has(q)
        BY <3>2 DEF NoneUndone, Working, Applying, Saving
      <4> HIDE DEF V, V1, Has
      <4> QED BY <1>0, <1>1, <1>4, <1>5, <2>1, <2>4, <3>1, <4>1
    <3>3. CASE ~NoneUndone(r, q)
      <4>1. Has(req[r])
        BY <2>5, <3>3 DEF Worked, PlanFails, Planned, WroteOne, WroteLast, Broke, RolledOne, Rolled, Stopped, OneUndone, Ran, Working, Applying
      <4>2. req[r].st \in SessionState /\ Honest(req[r].st, q.st, r, q.kind)
        BY <1>7, <2>5, <3>3, WorkedHonestly
      <4> HIDE DEF V, V1, Has
      <4>3. V1(q.st)
        BY <1>0, <1>2, <2>1, <2>3, <4>1, <4>2
      <4> QED BY <1>0, <1>1, <1>4, <1>5, <2>1, <2>4, <3>1, <4>3, SMTT(30)
    <3> QED BY <3>2, <3>3
  <2>6. CASE SavedOn(r, q)
    <3>1. /\ Has(q) => Has(req[r]) /\ q.st = req[r].st
          /\ Filled(r, q) => Has(req[r])
      BY <2>6 DEF SavedOn, Opened, Filled, Passed, Removed, Ended, Keeps, Working, Applying, Saving
    <3>2. ASSUME NEW s \in Sessions, record'[s] \notin {Absent, Torn}
          PROVE  V1(record'[s])
      <4>1. record'[s] = record[s] \/ (Filled(r, q) /\ record'[s] = req[r].st)
        BY <1>7, <2>6, <3>2, SavedFacts DEF SavedOn
      <4> HIDE DEF V, V1, Has
      <4> QED BY <1>0, <1>4, <1>5, <2>4, <3>1, <3>2, <4>1
    <3> HIDE DEF V, V1, Has
    <3> QED BY <1>0, <1>1, <1>5, <2>1, <2>4, <3>1, <3>2
  <2>7. CASE Thrown(r, q)
    <3>1. ~Has(q)
      BY <2>7 DEF Thrown, Working, Applying, Saving
    <3>2. ASSUME NEW s \in Sessions, record'[s] \notin {Absent, Torn}
          PROVE  V1(record'[s])
      <4>1. record'[s] = record[s]
        BY <1>7, <2>7, <3>2, ThrownFacts
      <4> HIDE DEF V, V1, Has
      <4> QED BY <1>0, <1>4, <2>4, <3>2, <4>1
    <3> HIDE DEF V, V1, Has
    <3> QED BY <1>0, <1>1, <1>5, <2>1, <2>4, <3>1, <3>2
  <2> QED BY <1>7, <2>5, <2>6, <2>7
<1>8. CASE Crash
  <2>1. /\ record' = record
        /\ \A x \in Requests : /\ req'[x].kind = req[x].kind /\ (Active(x) => req'[x].pc = "lost")
                               /\ ~Active(x) => req'[x] = req[x]
    BY <1>8, CrashFacts
  <2>2. \A x \in Requests : ~Has(req'[x])
    BY <2>1 DEF Active, Finished, Working, Applying, Saving
  <2>3. \E r : r \in Requests
    BY <1>8 DEF Crash, InFlight
  <2>4. ASSUME NEW st \in SessionState, V(st)
        PROVE  V1(st)
    <3>1. \A x \in Requests : Honest(st, st, x, "none")
      BY <1>3
    <3> HIDE DEF V, V1
    <3> QED BY <1>2, <2>1, <2>3, <2>4, <3>1
  <2> HIDE DEF V, V1, Has
  <2> QED BY <1>0, <1>1, <1>4, <2>1, <2>2, <2>4
<1>9. CASE UNCHANGED vars
  <2>1. record' = record /\ req' = req
    BY <1>9 DEF vars, disk
  <2> QED BY <1>0, <1>1, <2>1
<1> HIDE DEF Has, V, V1
<1> QED BY <1>6, <1>7, <1>8, <1>9, NextCases

\* As long as no two requests meet and the process does not stop, the one that moves has its session to itself.
MovedAlone(r, s, q) ==
  /\ req'[r] = q /\ \A x \in Requests \ {r} : req'[x] = req[x]
  /\ q.sid = s /\ req[r].sid \in {s, NoSession}
  /\ \A x \in Requests \ {r} : Active(x) => req[x].sid # s

LEMMA CalmCases ==
  ASSUME TypeInv, PhaseInv, TodoInv, AloneInv, [Next]_vars, Calm'
  PROVE  /\ Calm
         /\ \/ UNCHANGED vars
            \/ \E r \in Requests, s \in Sessions : \E q :
                 /\ MovedAlone(r, s, q)
                 /\ \/ \E kind : Begun(r, s, kind, q)
                    \/ Steady(r, q) /\ (Worked(r, q) \/ SavedOn(r, q) \/ Thrown(r, q))
<1>1. history'.overlapped = {} /\ \A x \in Requests : req'[x].pc # "lost"
  BY DEF Calm, Lost
<1>2. history.overlapped \subseteq Requests
  BY DEF TypeInv, TypeOK
<1>3. ASSUME NEW r \in Requests, NEW s \in Sessions, NEW kind, NEW q, Begun(r, s, kind, q)
      PROVE  Calm /\ MovedAlone(r, s, q)
  <2>1. /\ req[r].pc = "idle" /\ req'[r] = q /\ \A x \in Requests \ {r} : req'[x] = req[x]
        /\ q.sid = s /\ history.overlapped \subseteq history'.overlapped
        /\ \A x \in Requests \ {r} :
             /\ Active(x) /\ (req[x].sid = s \/ {kind, req[x].kind} \subseteq FileActions)
             => {r, x} \subseteq history'.overlapped
    BY <1>3, BegunFacts
  <2>2. Calm
    BY <1>1, <2>1 DEF Calm, Lost
  <2>3. \A x \in Requests \ {r} : Active(x) => req[x].sid # s
    BY <1>1, <2>1
  <2>4. req[r].sid = NoSession
    BY <2>1 DEF PhaseInv
  <2> QED BY <2>1, <2>2, <2>3, <2>4 DEF MovedAlone
<1>4. ASSUME NEW r \in Requests, NEW q, Steady(r, q)
      PROVE  Calm /\ MovedAlone(r, req[r].sid, q) /\ req[r].sid \in Sessions
  <2>1. /\ req'[r] = q /\ \A x \in Requests \ {r} : req'[x] = req[x]
        /\ req[r].pc \notin {"idle"} \union Finished /\ q.sid = req[r].sid
        /\ history'.overlapped = history.overlapped /\ Active(r)
    BY <1>4, SteadyFacts DEF Steady
  <2>2. Calm
    BY <1>1, <2>1 DEF Calm, Lost, Finished
  <2>3. \A x \in Requests \ {r} : Active(x) => req[x].sid # req[r].sid
    BY <1>1, <2>1 DEF AloneInv, Meet
  <2>4. req[r].sid \in Sessions
    BY <2>1 DEF PhaseInv
  <2> QED BY <2>1, <2>2, <2>3, <2>4 DEF MovedAlone
<1>5. ~Crash
  BY <1>1, CrashFacts
<1>6. CASE UNCHANGED vars
  BY <1>1, <1>6 DEF vars, Calm, Lost
<1> QED BY <1>3, <1>4, <1>5, <1>6, NextCases

\* A record whose last request has gone holds what that request recorded, or was not its business.
LEMMA LeftRecord ==
  ASSUME TypeInv, PhaseInv, AloneInv, SavedInv, ListInv, Calm, NEW r \in Requests, NEW q,
         Steady(r, q), SavedOn(r, q), q.pc \notin Working \union {"computed"} \union Saving, Readable(q.sid)'
  PROVE  /\ record' = record /\ Readable(q.sid)
         /\ \/ Holds(r) /\ record[q.sid] = req[r].st
            \/ \A x \in Requests : ~(Holds(x) /\ req[x].sid = q.sid)
<1>0. q.sid = req[r].sid /\ req[r].sid \in Sessions /\ Active(r) /\ r \notin history.overlapped
  BY DEF Steady, PhaseInv, Active, Calm
<1>1. ~Removed(r, q)
  BY <1>0, SavedFacts DEF Readable
<1>2. ~Opened(r, q) /\ ~Filled(r, q)
  BY DEF Opened, Filled, Saving
<1>3. Passed(r, q) \/ Ended(r, q)
  BY <1>1, <1>2 DEF SavedOn
<1>4. record' = record /\ Readable(q.sid)
  BY <1>3 DEF Passed, Ended, Readable
<1>5. CASE req[r].pc \in Written
  BY <1>0, <1>4, <1>5 DEF SavedInv, Holds, Written, Saving
<1>6. CASE req[r].pc = "computed"
  <2>1. q.sid \notin dir
    BY <1>0, <1>3, <1>6 DEF Ended, Passed
  <2>2. Met(q.sid) # {}
    BY <1>0, <1>4, <2>1 DEF ListInv, Readable
  <2> QED BY <2>2 DEF Met, Calm
<1>7. CASE req[r].pc \in Deleting
  <2>1. ~Holds(r)
    BY <1>7 DEF Holds, Deleting, Working, Applying, Saving
  <2>2. \A x \in Requests \ {r} : Active(x) => req[x].sid # q.sid
    BY <1>0 DEF AloneInv, Meet
  <2>3. \A x \in Requests : Holds(x) => Active(x)
    BY DEF Holds, Active, Finished, Working, Applying, Saving
  <2> QED BY <1>4, <2>1, <2>2, <2>3
<1> QED BY <1>3, <1>5, <1>6, <1>7 DEF Passed, Ended, Written, Deleting

LEMMA AppliedStep ==
  ASSUME TypeInv, PhaseInv, TodoInv, AloneInv, SavedInv, ListInv, AppliedInv, [Next]_vars
  PROVE  AppliedInv'
<1> DEFINE Has(t) == t.pc \in Working \union {"computed"} \union Saving
           App(s, st, ap) == \A c \in Candidates : <<s, c>> \in ap =>
                               /\ FilesOf[c] # {} /\ FilesOf[c] \subseteq st.changed
                               /\ c \in Repairs => "repair" \in st.approved
           Readable1(s) == record'[s] \notin {Absent, Torn}
           Un(s) == {x \in history.unrecorded : req[x].sid = s /\ req[x].kind = "approve_patch"}
           Un1(s) == {x \in history'.unrecorded : req'[x].sid = s /\ req'[x].kind = "approve_patch"}
           Ah(s) == {x \in Requests : /\ Has(req[x]) /\ req[x].sid = s
                                      /\ x \in history.edited /\ req[x].kind = "approve_patch"}
           Ah1(s) == {x \in Requests : /\ Has(req'[x]) /\ req'[x].sid = s
                                       /\ x \in history'.edited /\ req'[x].kind = "approve_patch"}
           Goal ==
             /\ \A x \in history'.reapplied : Un1(req'[x].sid) # {}
             /\ \A s \in Sessions : Readable1(s) /\ Ah1(s) = {} /\ Un1(s) = {} => App(s, record'[s], history'.applied)
             /\ \A x \in Requests : Has(req'[x]) /\ Un1(req'[x].sid) = {} => App(req'[x].sid, req'[x].st, history'.applied)
             /\ \A p \in history'.applied : \E x \in Requests : req'[x].sid = p[1]
<1> SUFFICES ASSUME Calm'
             PROVE  Goal
  <2>1. (\A s : Un1(s) = Unsaved(s)') /\ \A s : Ah1(s) = Ahead(s)'
    BY DEF Unsaved, Ahead, At, Holds, Approves
  <2>2. Goal => AppliedInv'
    <3>1. ASSUME Goal
          PROVE  /\ \A x \in history'.reapplied : Unsaved(req[x].sid)' # {}
                 /\ \A s \in Sessions : Readable(s)' /\ (Ahead(s) \union Unsaved(s))' = {} => AppliedIn(s, record[s])'
                 /\ \A x \in Requests : Holds(x)' /\ Unsaved(req[x].sid)' = {} => AppliedIn(req[x].sid, req[x].st)'
                 /\ \A p \in history'.applied : \E x \in Requests : req'[x].sid = p[1]
      <4>1. \A x \in history'.reapplied : Unsaved(req[x].sid)' # {}
        BY <3>1 DEF Unsaved, Approves
      <4>2. ASSUME NEW s \in Sessions, Readable(s)', (Ahead(s) \union Unsaved(s))' = {}
            PROVE  AppliedIn(s, record[s])'
        <5>1. Readable1(s) /\ Ah1(s) = {} /\ Un1(s) = {}
          BY <2>1, <4>2 DEF Readable
        <5>2. App(s, record'[s], history'.applied)
          <6> HIDE DEF Un1, Ah1, Readable1, App, Has
          <6> QED BY <3>1, <5>1
        <5> QED BY <5>2 DEF AppliedIn
      <4>3. ASSUME NEW x \in Requests, Holds(x)', Unsaved(req[x].sid)' = {}
            PROVE  AppliedIn(req[x].sid, req[x].st)'
        <5>1. Has(req'[x]) /\ Un1(req'[x].sid) = {}
          BY <4>3 DEF Holds, Unsaved, Approves
        <5>2. App(req'[x].sid, req'[x].st, history'.applied)
          <6> HIDE DEF Un1, Ah1, Readable1, App, Has
          <6> QED BY <3>1, <5>1
        <5> QED BY <5>2 DEF AppliedIn
      <4> QED BY <3>1, <4>1, <4>2, <4>3
    <3> QED BY <3>1 DEF AppliedInv
  <2> QED BY <2>2 DEF AppliedInv
<1>0. /\ Calm
      /\ \A x \in history.reapplied : Un(req[x].sid) # {}
      /\ \A s \in Sessions : Readable(s) /\ Ah(s) = {} /\ Un(s) = {} => App(s, record[s], history.applied)
      /\ \A x \in Requests : Has(req[x]) /\ Un(req[x].sid) = {} => App(req[x].sid, req[x].st, history.applied)
      /\ \A p \in history.applied : \E x \in Requests : req[x].sid = p[1]
  <2>1. Calm
    BY CalmCases
  <2>2. (\A s : Un(s) = Unsaved(s)) /\ \A s : Ah(s) = Ahead(s)
    BY DEF Unsaved, Ahead, At, Holds, Approves
  <2>3. \A x \in Requests : Has(req[x]) <=> Holds(x)
    BY DEF Holds
  <2>4. \A s, st : App(s, st, history.applied) <=> AppliedIn(s, st)
    BY DEF AppliedIn
  <2> HIDE DEF Un, Ah, App, Has
  <2> QED BY <2>1, <2>2, <2>3, <2>4 DEF AppliedInv
<1>1. \A x \in Requests : Has(req[x]) => Active(x)
  BY DEF Active, Finished, Working, Applying, Saving
<1>2. /\ history.applied \subseteq Sessions \X Candidates
      /\ history.unrecorded \subseteq Requests /\ history.reapplied \subseteq Requests
      /\ history \in HistoryType
  BY DEF TypeInv, HistoryType
\* What the other sessions are told apart from: the moved request changes its own session alone.
<1>3. ASSUME NEW r \in Requests, NEW s \in Sessions, NEW q, MovedAlone(r, s, q),
             history.unrecorded \subseteq history'.unrecorded, history.edited \subseteq history'.edited,
             history'.reapplied \subseteq history.reapplied \union {r},
             r \in history'.reapplied => r \in history.reapplied \/ Un1(s) # {},
             req[r].sid = s /\ req[r].kind = "approve_patch" => q.kind = "approve_patch",
             \A t \in Sessions \ {s} : record'[t] = record[t],
             \A t \in Sessions \ {s} : \A c \in Candidates : <<t, c>> \in history'.applied => <<t, c>> \in history.applied,
             \A p \in history'.applied : p \in history.applied \/ p[1] = s,
             Has(q) /\ Un1(s) = {} => App(s, q.st, history'.applied),
             Readable1(s) /\ Ah1(s) = {} /\ Un1(s) = {} => App(s, record'[s], history'.applied)
      PROVE  Goal
  <2>1. /\ req'[r] = q /\ \A x \in Requests \ {r} : req'[x] = req[x]
        /\ q.sid = s /\ req[r].sid \in {s, NoSession}
        /\ \A x \in Requests \ {r} : Active(x) => req[x].sid # s
    BY <1>3 DEF MovedAlone
  <2>2. ASSUME NEW t \in Sessions \ {s}, NEW st, App(t, st, history.applied)
        PROVE  App(t, st, history'.applied)
    BY <1>3, <2>2
  <2>3. ASSUME NEW t \in Sessions
        PROVE  Un(t) \subseteq Un1(t)
    <3> SUFFICES ASSUME NEW x \in Un(t)
                 PROVE  x \in Un1(t)
      OBVIOUS
    <3>1. x \in Requests /\ x \in history'.unrecorded /\ req[x].sid = t /\ req[x].kind = "approve_patch"
      BY <1>2, <1>3
    <3>2. req'[x].sid = t /\ req'[x].kind = "approve_patch"
      <4>1. CASE x = r
        BY <1>3, <2>1, <3>1, <4>1, StoreAssumption
      <4>2. CASE x # r
        BY <2>1, <3>1, <4>2
      <4> QED BY <4>1, <4>2
    <3> QED BY <3>1, <3>2
  <2>4. ASSUME NEW t \in Sessions \ {s}
        PROVE  Ah(t) \subseteq Ah1(t)
    <3> SUFFICES ASSUME NEW x \in Ah(t)
                 PROVE  x \in Ah1(t)
      OBVIOUS
    <3>1. x \in Requests /\ Has(req[x]) /\ req[x].sid = t /\ x \in history.edited /\ req[x].kind = "approve_patch"
      OBVIOUS
    <3>2. req'[x] = req[x]
      BY <2>1, <3>1, StoreAssumption
    <3> HIDE DEF Has
    <3> QED BY <1>3, <3>1, <3>2
  <2>5. ASSUME NEW x \in history'.reapplied
        PROVE  Un1(req'[x].sid) # {}
    <3>1. CASE x = r /\ x \notin history.reapplied
      <4> HIDE DEF Un1
      <4> QED BY <1>3, <2>1, <2>5, <3>1
    <3>2. CASE x \in history.reapplied
      <4>1. x \in Requests /\ Un(req[x].sid) # {}
        BY <1>0, <1>2, <3>2
      <4>2. req[x].pc # "idle"
        BY <3>2, <4>1 DEF PhaseInv
      <4>3. req[x].sid \in Sessions
        BY <4>1, <4>2 DEF PhaseInv
      <4>4. req'[x].sid = req[x].sid
        <5>1. CASE x = r
          BY <2>1, <4>3, <5>1, StoreAssumption
        <5>2. CASE x # r
          BY <2>1, <4>1, <5>2
        <5> QED BY <5>1, <5>2
      <4> HIDE DEF Un, Un1
      <4> QED BY <2>3, <4>1, <4>3, <4>4
    <3> QED BY <1>3, <2>5, <3>1, <3>2
  <2>6. ASSUME NEW t \in Sessions, Readable1(t), Ah1(t) = {}, Un1(t) = {}
        PROVE  App(t, record'[t], history'.applied)
    <3>1. CASE t = s
      <4> HIDE DEF App, Has, Readable1, Ah1, Un1
      <4> QED BY <1>3, <2>6, <3>1
    <3>2. CASE t # s
      <4>1. record'[t] = record[t] /\ Readable(t)
        BY <1>3, <2>6, <3>2 DEF Readable
      <4>2. Ah(t) = {} /\ Un(t) = {}
        <5> HIDE DEF Ah, Ah1, Un, Un1
        <5> QED BY <2>3, <2>4, <2>6, <3>2
      <4> HIDE DEF App, Has, Ah, Un
      <4> QED BY <1>0, <2>2, <3>2, <4>1, <4>2
    <3> QED BY <3>1, <3>2
  <2>7. ASSUME NEW x \in Requests, Has(req'[x]), Un1(req'[x].sid) = {}
        PROVE  App(req'[x].sid, req'[x].st, history'.applied)
    <3>1. CASE x = r
      <4> HIDE DEF App, Has, Un1
      <4> QED BY <1>3, <2>1, <2>7, <3>1
    <3>2. CASE x # r
      <4>1. req'[x] = req[x] /\ Has(req[x])
        BY <2>1, <2>7, <3>2
      <4>2. req[x].sid \in Sessions \ {s}
        BY <1>1, <2>1, <3>2, <4>1 DEF PhaseInv, Active
      <4>3. Un(req[x].sid) = {}
        <5> HIDE DEF Un, Un1
        <5> QED BY <2>3, <2>7, <4>1, <4>2
      <4> HIDE DEF App, Has, Un
      <4> QED BY <1>0, <2>2, <4>1, <4>2, <4>3
    <3> QED BY <3>1, <3>2
  <2>8. ASSUME NEW p \in history'.applied
        PROVE  \E x \in Requests : req'[x].sid = p[1]
    <3>1. CASE p[1] = s
      BY <2>1, <3>1
    <3>2. CASE p[1] # s
      <4>1. p \in history.applied /\ p[1] \in Sessions
        BY <1>2, <1>3, <2>8, <3>2
      <4>2. PICK x \in Requests : req[x].sid = p[1]
        BY <1>0, <4>1
      <4>3. x # r
        BY <2>1, <3>2, <4>1, <4>2, StoreAssumption
      <4> QED BY <2>1, <4>2, <4>3
    <3> QED BY <3>1, <3>2
  <2> HIDE DEF App, Has, Readable1, Un1, Ah1
  <2> QED BY <2>5, <2>6, <2>7, <2>8
<1>4. ASSUME NEW r \in Requests, NEW s \in Sessions, NEW kind, NEW q, Begun(r, s, kind, q), MovedAlone(r, s, q)
      PROVE  Goal
  <2>1. record' = record /\ req[r].pc = "idle" /\ req[r].sid = NoSession /\ req[r].kind = "none"
    BY <1>4, BegunFacts DEF PhaseInv
  <2>2. /\ history'.reapplied = history.reapplied /\ history'.applied = history.applied
        /\ history'.unrecorded = history.unrecorded /\ history'.edited = history.edited
    <3>1. PICK met \in SUBSET Requests : history' = [history EXCEPT !.overlapped = @ \union met]
      BY <1>4, BegunFacts
    <3> QED BY <1>2, <3>1 DEF HistoryType
  <2>3. /\ req'[r] = q /\ \A x \in Requests \ {r} : req'[x] = req[x]
        /\ \A x \in Requests \ {r} : Active(x) => req[x].sid # s
    BY <1>4 DEF MovedAlone
  <2>4. Un(s) \subseteq Un1(s)
    BY <1>2, <2>1, <2>2, <2>3
  <2>5. Ah(s) = {}
    <3>1. ~Has(req[r])
      BY <2>1 DEF Working, Applying, Saving
    <3> HIDE DEF Has
    <3> QED BY <1>1, <2>3, <3>1
  <2>6. ASSUME Readable(s), Un1(s) = {}
        PROVE  App(s, record[s], history.applied)
    <3>1. Un(s) = {}
      <4> HIDE DEF Un, Un1
      <4> QED BY <2>4, <2>6
    <3> HIDE DEF App, Un, Ah, Has
    <3> QED BY <1>0, <2>5, <2>6, <3>1
  <2>7. ASSUME Has(q), Un1(s) = {}
        PROVE  App(s, q.st, history.applied)
    <3>1. CASE Starts(s, kind, q)
      <4>1. \A c : <<s, c>> \notin history.applied
        <5> SUFFICES ASSUME NEW c, <<s, c>> \in history.applied
                     PROVE  FALSE
          OBVIOUS
        <5>1. \E x \in Requests : req[x].sid = <<s, c>>[1]
          BY <1>0
        <5> QED BY <3>1, <5>1 DEF Starts
      <4> QED BY <4>1
    <3>2. CASE Loads(r, s, kind, q)
      <4>1. q.st.changed = record[s].changed /\ ("repair" \in record[s].approved => "repair" \in q.st.approved)
        BY <3>2 DEF Loads, Extends
      <4>2. App(s, record[s], history.applied)
        BY <2>6, <2>7, <3>2 DEF Loads
      <4> QED BY <4>1, <4>2
    <3>3. CASE Refused(q) \/ Deletes(kind, q)
      BY <2>7, <3>3 DEF Refused, Deletes, Working, Applying, Saving
    <3> QED BY <1>4, <3>1, <3>2, <3>3 DEF Begun
  <2>8. Readable1(s) => Readable(s)
    BY <2>1 DEF Readable
  <2>9. /\ \A t \in Sessions \ {s} : record'[t] = record[t]
        /\ \A t \in Sessions \ {s} : \A c \in Candidates : <<t, c>> \in history'.applied => <<t, c>> \in history.applied
        /\ \A p \in history'.applied : p \in history.applied \/ p[1] = s
        /\ req[r].sid # s
    BY <2>1, <2>2, StoreAssumption
  <2> HIDE DEF App, Has, Un, Un1, Ah, Ah1, Readable1, Goal
  <2>10. Has(q) /\ Un1(s) = {} => App(s, q.st, history'.applied)
    BY <2>2, <2>7
  <2>11. Readable1(s) /\ Ah1(s) = {} /\ Un1(s) = {} => App(s, record'[s], history'.applied)
    BY <2>1, <2>2, <2>6, <2>8
  <2>12. /\ history.unrecorded \subseteq history'.unrecorded /\ history.edited \subseteq history'.edited
         /\ history'.reapplied \subseteq history.reapplied \union {r}
         /\ r \in history'.reapplied => r \in history.reapplied \/ Un1(s) # {}
    BY <2>2
  <2> QED BY <1>3, <1>4, <2>9, <2>10, <2>11, <2>12
\* The rest is about a request at work.
<1>5. ASSUME NEW r \in Requests, NEW q, Steady(r, q), Worked(r, q) \/ SavedOn(r, q) \/ Thrown(r, q)
      PROVE  /\ req'[r] = q /\ \A x \in Requests \ {r} : req'[x] = req[x]
             /\ q.sid = req[r].sid /\ req[r].sid \in Sessions /\ Active(r) /\ r \notin history.overlapped
             /\ req[r].kind = "approve_patch" => q.kind = "approve_patch"
             /\ history.unrecorded \subseteq history'.unrecorded /\ history.edited \subseteq history'.edited
             /\ history'.reapplied \subseteq history.reapplied \union {r}
             /\ Un(q.sid) \subseteq Un1(q.sid)
  <2>1. /\ req'[r] = q /\ \A x \in Requests \ {r} : req'[x] = req[x]
        /\ q.sid = req[r].sid /\ req[r].sid \in Sessions /\ Active(r) /\ r \notin history.overlapped
    BY <1>0, <1>5, SteadyFacts DEF Steady, PhaseInv, Active, Calm
  <2>2. req[r].kind = "approve_patch" => q.kind = "approve_patch"
    BY <1>5 DEF Worked, SavedOn, Thrown, NoneUndone, PhaseInv
  <2>3. /\ history.unrecorded \subseteq history'.unrecorded /\ history.edited \subseteq history'.edited
        /\ history'.reapplied \subseteq history.reapplied \union {r}
    BY <1>5, HistorySteps DEF Grows
  <2>4. Un(q.sid) \subseteq Un1(q.sid)
    BY <1>2, <2>1, <2>2, <2>3
  <2> HIDE DEF Un, Un1
  <2> QED BY <2>1, <2>2, <2>3, <2>4
<1>6. ASSUME NEW r \in Requests, NEW q, Steady(r, q), Worked(r, q) \/ SavedOn(r, q) \/ Thrown(r, q),
             MovedAlone(r, q.sid, q),
             r \in history'.reapplied => r \in history.reapplied \/ Un1(q.sid) # {},
             \A t \in Sessions \ {q.sid} : record'[t] = record[t],
             \A t \in Sessions \ {q.sid} : \A c \in Candidates : <<t, c>> \in history'.applied => <<t, c>> \in history.applied,
             \A p \in history'.applied : p \in history.applied \/ p[1] = q.sid,
             Has(q) /\ Un1(q.sid) = {} => App(q.sid, q.st, history'.applied),
             Readable1(q.sid) /\ Ah1(q.sid) = {} /\ Un1(q.sid) = {} => App(q.sid, record'[q.sid], history'.applied)
      PROVE  Goal
  <2> HIDE DEF App, Has, Un, Un1, Ah, Ah1, Readable1, Goal
  <2>1. /\ q.sid \in Sessions
        /\ req[r].kind = "approve_patch" => q.kind = "approve_patch"
        /\ history.unrecorded \subseteq history'.unrecorded /\ history.edited \subseteq history'.edited
        /\ history'.reapplied \subseteq history.reapplied \union {r}
    BY <1>5, <1>6
  <2> QED BY <1>3, <1>6, <2>1
\* The copy of a request, and the record of a session that nobody holds.
<1>7. ASSUME NEW r \in Requests, NEW q, Steady(r, q), Worked(r, q) \/ SavedOn(r, q) \/ Thrown(r, q), Un1(q.sid) = {}
      PROVE  /\ Has(req[r]) => App(q.sid, req[r].st, history.applied)
             /\ req[r].pc \in Working \union Written => record[q.sid] = req[r].st
             /\ ~Has(req[r]) /\ Readable(q.sid) => App(q.sid, record[q.sid], history.applied)
             /\ r \notin Ah(q.sid) /\ Readable(q.sid) => App(q.sid, record[q.sid], history.applied)
  <2>1. Un(q.sid) = {} /\ q.sid = req[r].sid /\ req[r].sid \in Sessions /\ Active(r) /\ r \notin history.overlapped
    <3> HIDE DEF Un, Un1
    <3> QED BY <1>5, <1>7
  <2>2. Has(req[r]) => App(q.sid, req[r].st, history.applied)
    <3> HIDE DEF App, Has, Un
    <3> QED BY <1>0, <2>1
  <2>3. req[r].pc \in Working \union Written => record[q.sid] = req[r].st
    BY <2>1 DEF SavedInv
  <2>4. \A x \in Requests \ {r} : ~(Has(req[x]) /\ req[x].sid = q.sid)
    <3> HIDE DEF Has
    <3> QED BY <1>1, <2>1 DEF AloneInv, Meet
  <2>5. r \notin Ah(q.sid) => Ah(q.sid) = {}
    <3> HIDE DEF Has
    <3> QED BY <2>4
  <2>6. ~Has(req[r]) => r \notin Ah(q.sid)
    <3> HIDE DEF Has
    <3> QED OBVIOUS
  <2>7. r \notin Ah(q.sid) /\ Readable(q.sid) => App(q.sid, record[q.sid], history.applied)
    <3> HIDE DEF App, Has, Un, Ah
    <3> QED BY <1>0, <2>1, <2>5
  <2> HIDE DEF App, Has, Un, Ah
  <2> QED BY <2>2, <2>3, <2>6, <2>7
<1>8. ASSUME NEW r \in Requests, NEW q, Steady(r, q), SavedOn(r, q), MovedAlone(r, q.sid, q)
      PROVE  Goal
  <2>1. q.sid = req[r].sid /\ req[r].sid \in Sessions /\ r \notin history.overlapped
    BY <1>5, <1>8
  <2>2. history'.reapplied = history.reapplied /\ history'.applied = history.applied
    BY <1>8 DEF SavedOn, Opened, Filled, Passed, Removed, Ended
  <2>3. \A t \in Sessions \ {q.sid} : record'[t] = record[t]
    BY <1>8, <2>1, SavedFacts
  <2>4. Has(q) => Has(req[r]) /\ q.st = req[r].st
    BY <1>8 DEF SavedOn, Opened, Filled, Passed, Removed, Ended, Keeps, Working, Applying, Saving
  <2>5. ASSUME Readable1(q.sid), Un1(q.sid) = {}
        PROVE  App(q.sid, record'[q.sid], history.applied)
    <3>1. CASE Opened(r, q) \/ Removed(r, q)
      BY <1>8, <2>1, <2>5, <3>1, SavedFacts
    <3>2. CASE Filled(r, q)
      <4>1. Has(req[r]) /\ req[r].pc = "torn"
        BY <3>2 DEF Filled, Saving
      <4>2. record'[q.sid] = req[r].st
        BY <1>8, <2>1, <3>2, <4>1, SavedFacts DEF SavedInv
      <4>3. App(q.sid, req[r].st, history.applied)
        <5> HIDE DEF App, Has, Un1
        <5> QED BY <1>7, <1>8, <2>5, <4>1
      <4> HIDE DEF App
      <4> QED BY <4>2, <4>3
    <3>3. CASE Passed(r, q) \/ Ended(r, q)
      <4>1. record' = record /\ Readable(q.sid)
        BY <2>5, <3>3 DEF Passed, Ended, Readable
      <4>2. CASE req[r].pc \in Written
        <5>1. Has(req[r])
          BY <4>2 DEF Written, Saving
        <5> HIDE DEF App, Has, Un1
        <5> QED BY <1>7, <1>8, <2>5, <4>1, <4>2, <5>1
      <4>3. CASE req[r].pc \in Deleting
        <5>1. ~Has(req[r])
          BY <4>3 DEF Deleting, Working, Applying, Saving
        <5> HIDE DEF App, Has, Un1
        <5> QED BY <1>7, <1>8, <2>5, <4>1, <5>1
      <4>4. CASE req[r].pc = "computed"
        <5>1. q.sid \notin dir
          BY <2>1, <3>3, <4>4 DEF Ended, Passed
        <5>2. Met(q.sid) # {}
          BY <2>1, <4>1, <5>1 DEF ListInv, Readable
        <5> QED BY <1>0, <5>2 DEF Met, Calm
      <4> QED BY <3>3, <4>2, <4>3, <4>4 DEF Passed, Ended, Written, Deleting
    <3> HIDE DEF App
    <3> QED BY <1>8, <3>1, <3>2, <3>3 DEF SavedOn
  <2>6. ASSUME Has(q), Un1(q.sid) = {}
        PROVE  App(q.sid, q.st, history.applied)
    <3> HIDE DEF App, Has, Un1
    <3> QED BY <1>7, <1>8, <2>4, <2>6
  <2> HIDE DEF App, Has, Un1, Ah1, Readable1, Goal
  <2> QED BY <1>6, <1>8, <2>2, <2>3, <2>5, <2>6
<1>9. ASSUME NEW r \in Requests, NEW q, Steady(r, q), Thrown(r, q), MovedAlone(r, q.sid, q)
      PROVE  Goal
  <2>1. q.sid = req[r].sid /\ req[r].sid \in Sessions /\ r \notin history.overlapped /\ req'[r] = q
    BY <1>5, <1>9
  <2>2. history'.reapplied = history.reapplied /\ history'.applied = history.applied
    <3> DEFINE a == Changing(r)
    <3>1. \/ history' = history
          \/ history' = [history EXCEPT !.unrecorded = @ \union a]
          \/ history' = [history EXCEPT !.unrecorded = @ \union a, !.cut = @ \union {r}]
          \/ history' = [history EXCEPT !.unrecorded = @ \union {r}]
          \/ history' = [history EXCEPT !.cut = @ \union {r}]
      BY <1>9 DEF Thrown, GaveUp, Forgot, HalfUndone, HalfSaved
    <3> HIDE DEF a
    <3> QED BY <1>2, <3>1 DEF HistoryType
  <2>3. \A t \in Sessions \ {q.sid} : record'[t] = record[t]
    BY <1>9, <2>1, ThrownFacts
  <2>4. ~Has(q)
    BY <1>9 DEF Thrown, Working, Applying, Saving
  <2>5. ASSUME Readable1(q.sid), Un1(q.sid) = {}
        PROVE  App(q.sid, record'[q.sid], history.applied)
    <3>1. record'[q.sid] = record[q.sid] /\ Readable(q.sid)
      BY <1>9, <2>1, <2>5, ThrownFacts DEF Readable
    <3>2. CASE req[r].pc \in Working \union Written
      <4>1. Has(req[r])
        BY <3>2 DEF Written, Saving
      <4> HIDE DEF App, Has, Un1
      <4> QED BY <1>7, <1>9, <2>5, <3>1, <3>2, <4>1
    <3>3. CASE req[r].pc \in Deleting
      <4>1. ~Has(req[r])
        BY <3>3 DEF Deleting, Working, Applying, Saving
      <4> HIDE DEF App, Has, Un1
      <4> QED BY <1>7, <1>9, <2>5, <3>1, <4>1
    <3>4. CASE req[r].pc = "torn"
      BY <2>1, <3>1, <3>4 DEF SavedInv, Readable
    <3>5. CASE req[r].pc = "computed"
      <4>1. r \notin Ah(q.sid)
        <5> SUFFICES ASSUME r \in history.edited, req[r].kind = "approve_patch"
                     PROVE  FALSE
          OBVIOUS
        <5>1. Forgot(r) /\ q.kind = "approve_patch"
          BY <1>9, <3>5 DEF Thrown, GaveUp, HalfUndone, HalfSaved
        <5>2. r \in Changing(r)
          BY DEF Changing
        <5>3. r \in history'.unrecorded
          <6> DEFINE a == Changing(r)
          <6>1. \/ history' = [history EXCEPT !.unrecorded = @ \union a]
                \/ history' = [history EXCEPT !.unrecorded = @ \union a, !.cut = @ \union {r}]
            BY <5>1 DEF Forgot
          <6>2. r \in a
            BY <5>2
          <6> HIDE DEF a
          <6> QED BY <1>2, <6>1, <6>2 DEF HistoryType
        <5>4. r \in Un1(q.sid)
          BY <2>1, <5>1, <5>3
        <5> QED BY <2>5, <5>4
      <4> HIDE DEF App, Has, Un1, Ah
      <4> QED BY <1>7, <1>9, <2>5, <3>1, <4>1
    <3>6. req[r].pc \in Working \union Written \union Deleting \union {"torn", "computed"}
      BY <1>9 DEF Thrown, GaveUp, Forgot, HalfUndone, HalfSaved, Working, Written, Deleting
    <3> HIDE DEF App
    <3> QED BY <3>2, <3>3, <3>4, <3>5, <3>6
  <2> HIDE DEF App, Has, Un1, Ah1, Readable1, Goal
  <2> QED BY <1>6, <1>9, <2>2, <2>3, <2>4, <2>5
<1>10. ASSUME NEW r \in Requests, NEW q, Steady(r, q), Worked(r, q), MovedAlone(r, q.sid, q)
      PROVE  Goal
  <2>1. q.sid = req[r].sid /\ req[r].sid \in Sessions /\ record' = record /\ req'[r] = q
    BY <1>5, <1>10, SMTT(30) DEF Worked, disk
  <2>2. req[r].pc \in Working /\ Has(req[r])
    BY <1>10 DEF Worked, PlanFails, Planned, WroteOne, WroteLast, Broke, RolledOne, Rolled, Stopped, NoneUndone,
               OneUndone, Ran, Working, Applying
  <2>3. req[r].st \in SessionState /\ (req[r].pc \in Applying => PatchWaiting(req[r].st))
    BY <2>2 DEF PhaseInv, Holds
  <2>4. Un1(q.sid) = {} => App(q.sid, req[r].st, history.applied) /\ record[q.sid] = req[r].st
    <3> HIDE DEF App, Has, Un1
    <3> QED BY <1>7, <1>10, <2>2
  <2>5. ASSUME history'.applied = history.applied, history'.reapplied = history.reapplied,
               Has(q) => /\ q.st.changed = req[r].st.changed
                         /\ "repair" \in req[r].st.approved => "repair" \in q.st.approved
        PROVE  Goal
    <3>1. ASSUME Has(q), Un1(q.sid) = {}
          PROVE  App(q.sid, q.st, history'.applied)
      <4>1. App(q.sid, req[r].st, history.applied)
        <5> HIDE DEF App, Un1
        <5> QED BY <2>4, <3>1
      <4> QED BY <2>5, <3>1, <4>1
    <3> HIDE DEF App, Has, Un1, Ah1, Readable1, Goal
    <3>2. Un1(q.sid) = {} => App(q.sid, record'[q.sid], history'.applied)
      BY <2>1, <2>4, <2>5
    <3> QED BY <1>6, <1>10, <2>1, <2>5, <3>1, <3>2
  <2>6. CASE Planned(r, q) \/ WroteOne(r, q) \/ Broke(r, q) \/ RolledOne(r, q)
    <3>1. /\ history'.applied = history.applied /\ history'.reapplied = history.reapplied /\ q.st = req[r].st
      BY <1>2, <2>6 DEF Planned, WroteOne, Broke, RolledOne, HistoryType
    <3> HIDE DEF Has, Goal
    <3> QED BY <2>5, <3>1
  <2>7. CASE PlanFails(r, q) \/ Rolled(r, q) \/ Stopped(r, q)
    <3>1. /\ history'.applied = history.applied /\ history'.reapplied = history.reapplied
          /\ q.st = PatchFailed(req[r].st) /\ PatchWaiting(req[r].st)
      BY <1>2, <2>3, <2>7 DEF PlanFails, Rolled, Stopped, Applying, HistoryType
    <3>2. q.st.changed = req[r].st.changed /\ ("repair" \in req[r].st.approved => "repair" \in q.st.approved)
      BY <2>3, <3>1, WaitingIsNew, SMTT(30) DEF PatchFailed, SessionState
    <3> HIDE DEF Has, Goal
    <3> QED BY <2>5, <3>1, <3>2
  <2>8. CASE Ran(r, q)
    <3> HIDE DEF Has, Goal
    <3> QED BY <2>5, <2>8 DEF Ran
  <2>9. CASE NoneUndone(r, q)
    <3>1. history'.applied = history.applied /\ history'.reapplied = history.reapplied /\ ~Has(q)
      BY <2>9 DEF NoneUndone, Working, Applying, Saving
    <3> HIDE DEF Has, Goal
    <3> QED BY <2>5, <3>1
  <2>10. CASE OneUndone(r, q)
    <3> DEFINE f == Last(undo).file
    <3>1. /\ q.st = Undone(req[r].st, f, r)
          /\ history' = [history EXCEPT !.editors = @ \union {req[r].sid},
                                        !.applied = {c \in @ : f \notin FilesOf[c[2]]},
                                        !.edited = @ \union {r}]
      BY <2>10 DEF OneUndone
    <3> HIDE DEF f
    <3>2. /\ history'.reapplied = history.reapplied
          /\ history'.applied = {c \in history.applied : f \notin FilesOf[c[2]]}
      BY <1>2, <3>1 DEF HistoryType
    <3>3. q.st.changed = req[r].st.changed \ {f} /\ q.st.approved = req[r].st.approved
      BY <2>3, <3>1 DEF Undone, SessionState
    <3>4. \A t : \A c \in Candidates : <<t, c>> \in history'.applied => <<t, c>> \in history.applied /\ f \notin FilesOf[c]
      BY <3>2
    <3>5. ASSUME Un1(q.sid) = {}
          PROVE  App(q.sid, q.st, history'.applied) /\ App(q.sid, record'[q.sid], history'.applied)
      <4>1. App(q.sid, req[r].st, history.applied) /\ record'[q.sid] = req[r].st
        <5> HIDE DEF App, Un1
        <5> QED BY <2>1, <2>4, <3>5
      <4> QED BY <3>3, <3>4, <4>1
    <3>6. \A p \in history'.applied : p \in history.applied \/ p[1] = q.sid
      BY <3>2
    <3> HIDE DEF App, Has, Un1, Ah1, Readable1, Goal
    <3> QED BY <1>6, <1>10, <2>1, <3>2, <3>4, <3>5, <3>6
  <2>11. CASE WroteLast(r, q)
    <3> DEFINE c0 == Selected(req[r].st)
               p0 == <<req[r].sid, c0>>
    <3>1. /\ q.pc = "computed" /\ q.st = PatchApplied(req[r].st) /\ PatchWaiting(req[r].st)
          /\ history' = [history EXCEPT !.applied = @ \union {p0},
                                        !.reapplied = IF p0 \in history.applied THEN @ \union {r} ELSE @,
                                        !.edited = @ \union {r}]
          /\ req[r].kind = "approve_patch" /\ q.kind = "approve_patch"
      BY <1>5, <1>10, <2>3, <2>11 DEF WroteLast, Applied, Applying, PhaseInv
    <3>2. /\ c0 \in Candidates /\ FilesOf[c0] # {}
          /\ c0 \in Repairs => "repair" \notin req[r].st.approved
          /\ c0 \in Repairs \/ req[r].st.changed = {}
      BY <2>3, <3>1, WaitingIsNew DEF Kind
    <3>3. Un1(q.sid) = {} => p0 \notin history.applied
      BY <2>1, <2>4, <3>2
    <3>4. /\ history'.reapplied = IF p0 \in history.applied THEN history.reapplied \union {r} ELSE history.reapplied
          /\ history'.applied = history.applied \union {p0} /\ r \in history'.edited
      <4> HIDE DEF p0
      <4> QED BY <1>2, <3>1 DEF HistoryType
    <3>5. /\ q.st.changed = req[r].st.changed \union FilesOf[c0]
          /\ q.st.approved = req[r].st.approved \union {Kind(c0)}
      BY <2>3, <3>1 DEF PatchApplied, SessionState
    <3>6. c0 \in Repairs => Kind(c0) = "repair"
      BY DEF Kind
    <3> HIDE DEF c0
    <3>7. \A t, c : <<t, c>> \in history'.applied => <<t, c>> \in history.applied \/ (t = q.sid /\ c = c0)
      BY <2>1, <3>4
    <3>8. ASSUME Un1(q.sid) = {}
          PROVE  App(q.sid, q.st, history'.applied)
      <4>0. App(q.sid, req[r].st, history.applied)
        <5> HIDE DEF App, Un1
        <5> QED BY <2>4, <3>8
      <4> SUFFICES ASSUME NEW c \in Candidates, <<q.sid, c>> \in history'.applied
                   PROVE  /\ FilesOf[c] # {} /\ FilesOf[c] \subseteq q.st.changed
                          /\ c \in Repairs => "repair" \in q.st.approved
        OBVIOUS
      <4>1. CASE c = c0
        BY <3>2, <3>5, <3>6, <4>1
      <4>2. CASE c # c0
        BY <2>1, <3>5, <3>7, <4>0, <4>2
      <4> QED BY <4>1, <4>2
    <3>9. \A p \in history'.applied : p \in history.applied \/ p[1] = q.sid
      BY <2>1, <3>4
    <3>10. r \in Ah1(q.sid)
      <4>1. Has(q)
        BY <3>1
      <4> HIDE DEF Has
      <4> QED BY <2>1, <3>1, <3>4, <4>1
    <3>11. \A t \in Sessions \ {q.sid} : \A c \in Candidates : <<t, c>> \in history'.applied => <<t, c>> \in history.applied
      BY <3>7
    <3> HIDE DEF App, Has, Un1, Ah1, Readable1, Goal, p0
    <3>12. r \in history'.reapplied => r \in history.reapplied \/ Un1(q.sid) # {}
      BY <3>3, <3>4
    <3>13. Ah1(q.sid) # {}
      BY <3>10
    <3> QED BY <1>6, <1>10, <2>1, <3>8, <3>9, <3>11, <3>12, <3>13
  <2> HIDE DEF App, Has, Goal
  <2> QED BY <1>10, <2>6, <2>7, <2>8, <2>9, <2>10, <2>11 DEF Worked
<1>11. CASE UNCHANGED vars
  <2>1. record' = record /\ req' = req /\ history' = history
    BY <1>11 DEF vars, disk
  <2>2. (\A s : Un1(s) = Un(s)) /\ \A s : Ah1(s) = Ah(s)
    BY <2>1
  <2> HIDE DEF App, Has, Un, Un1, Ah, Ah1
  <2> QED BY <1>0, <2>1, <2>2 DEF Readable
<1> HIDE DEF App, Has, Readable1, Un, Un1, Ah, Ah1, Goal
<1>12. ASSUME NEW r \in Requests, NEW s \in Sessions, NEW q, MovedAlone(r, s, q),
             \/ \E kind : Begun(r, s, kind, q)
             \/ Steady(r, q) /\ (Worked(r, q) \/ SavedOn(r, q) \/ Thrown(r, q))
      PROVE  Goal
  <2>1. q.sid = s
    BY <1>12 DEF MovedAlone
  <2> QED BY <1>4, <1>8, <1>9, <1>10, <1>12, <2>1
<1> QED BY <1>11, <1>12, CalmCases

\* What the steps of a patch, of an undo and of a rollback make of the files that hold a patch.
LEMMA HeldFiles ==
  ASSUME TypeInv, PhaseInv, TodoInv, WriteInv, NEW r \in Requests \ history.overlapped, NEW q, Steady(r, q),
         Worked(r, q)
  PROVE  LET fs == FilesOf[Selected(req[r].st)] IN
         /\ WroteLast(r, q) => Holding(files') = Holding(req[r].base) \union fs
         /\ Rolled(r, q) /\ (\A f \in fs : req[r].base[f] \in Unpatched) => Holding(files') = Holding(req[r].base)
         /\ OneUndone(r, q) /\ Last(undo).content \in Unpatched => Holding(files') = Holding(files) \ {Last(undo).file}
<1> DEFINE fs == FilesOf[Selected(req[r].st)]
           base == req[r].base
           Held(on, f) == on[f] \in {"patched", "doubled"}
<1>0. \A on, f : f \in Holding(on) <=> f \in Files /\ Held(on, f)
  BY DEF Holding
<1>1. files \in [Files -> Contents]
  BY DEF TypeInv, TypeOK
<1>2. ASSUME WroteLast(r, q)
      PROVE  Holding(files') = Holding(base) \union fs
  <2> DEFINE f == Head(req[r].todo)
             g0 == Patched(f, base[f])
  <2>1. /\ req[r].pc = "writing" /\ Range(req[r].todo) = {f} /\ files' = [files EXCEPT ![f] = g0]
    BY <1>2 DEF WroteLast
  <2>2. /\ fs \subseteq Files /\ f \in fs /\ \A g \in fs : Patched(g, base[g]) \in {"patched", "doubled"}
    BY <2>1, WritingFacts
  <2>3. req[r].broken = NoFile
    BY <2>1 DEF TodoInv, Working, Applying
  <2>7. Range(req[r].written) = fs \ {f}
    <3>1. Range(req[r].written) \subseteq fs \ Range(req[r].todo)
      BY <2>1, WritingFacts
    <3>2. fs \ Range(req[r].todo) \subseteq Range(req[r].written)
      BY <2>1 DEF TodoInv
    <3> QED BY <2>1, <3>1, <3>2
  <2>4. ASSUME NEW g \in Files
        PROVE  files[g] = IF g \in fs \ {f} THEN Patched(g, base[g]) ELSE base[g]
    <3>1. \A h \in Files \ {req[r].broken} :
             files[h] = IF h \in Range(req[r].written) THEN Patched(h, req[r].base[h]) ELSE req[r].base[h]
      BY <2>1 DEF WriteInv
    <3>2. g \in Files \ {req[r].broken}
      BY <2>3, StoreAssumption
    <3> HIDE DEF f
    <3> QED BY <2>7, <3>1, <3>2
  <2>5. Held(files', f)
    BY <1>1, <2>1, <2>2
  <2> HIDE DEF g0, f, fs, base
  <2>6. ASSUME NEW g \in Files
        PROVE  Held(files', g) <=> g \in fs \/ Held(base, g)
    <3>1. CASE g = f
      BY <2>2, <2>5, <3>1
    <3>2. CASE g # f
      <4>1. files'[g] = files[g]
        BY <1>1, <2>1, <3>2
      <4> QED BY <2>2, <2>4, <3>2, <4>1
    <3> QED BY <3>1, <3>2
  <2> HIDE DEF Held
  <2> QED BY <1>0, <2>2, <2>6
<1>3. ASSUME Rolled(r, q), \A f \in fs : base[f] \in Unpatched
      PROVE  Holding(files') = Holding(base)
  <2> DEFINE b == req[r].broken
  <2>1. req[r].pc = "rolling" /\ files' = files /\ Range(req[r].written) = {}
    <3>1. req[r].pc = "rolling" /\ files' = files /\ req[r].written = <<>>
      BY <1>3 DEF Rolled
    <3> QED BY <3>1 DEF Range
  <2>2. /\ \A f \in Files \ {b} : files[f] = base[f]
        /\ files[b] \in {base[b], "partial"}
    BY <2>1 DEF WriteInv
  <2>3. b \in fs
    BY <2>1 DEF TodoInv
  <2> HIDE DEF fs, base, b
  <2>4. ASSUME NEW g \in Files
        PROVE  Held(files', g) <=> Held(base, g)
    <3>1. CASE g = b
      <4>1. files'[g] \in {base[g], "partial"} /\ base[g] \in Unpatched
        BY <1>3, <2>1, <2>2, <2>3, <3>1
      <4> QED BY <4>1 DEF Unpatched
    <3>2. CASE g # b
      <4>1. files'[g] = base[g]
        BY <2>1, <2>2, <3>2
      <4> QED BY <4>1
    <3> QED BY <3>1, <3>2
  <2> HIDE DEF Held
  <2> QED BY <1>0, <2>4
<1>4. ASSUME OneUndone(r, q), Last(undo).content \in Unpatched
      PROVE  Holding(files') = Holding(files) \ {Last(undo).file}
  <2> DEFINE f == Last(undo).file
             new == Last(undo).content
  <2>1. files' = [files EXCEPT ![f] = new] /\ f \in Files
    BY <1>4 DEF OneUndone, Snapshots
  <2> HIDE DEF f, new
  <2>2. ASSUME NEW g \in Files
        PROVE  Held(files', g) <=> Held(files, g) /\ g # f
    <3>1. CASE g = f
      <4>1. files'[g] = new
        BY <1>1, <2>1, <3>1
      <4> QED BY <1>4, <3>1, <4>1 DEF new, Unpatched
    <3>2. CASE g # f
      <4>1. files'[g] = files[g]
        BY <1>1, <2>1, <3>2
      <4> QED BY <3>2, <4>1
    <3> QED BY <3>1, <3>2
  <2> HIDE DEF Held
  <2>3. Holding(files') = Holding(files) \ {f}
    BY <1>0, <2>2
  <2> QED BY <2>3 DEF f
<1> QED BY <1>2, <1>3, <1>4

LEMMA FilesStep ==
  ASSUME TypeInv, PhaseInv, TodoInv, AloneInv, WriteInv, SavedInv, ListInv, FilesInv, [Next]_vars
  PROVE  FilesInv'
<1> DEFINE Has(t) == t.pc \in Working \union {"computed"} \union Saving
           ed == history.editors
           ed1 == history'.editors
           held == Holding(files)
           held1 == Holding(files')
           Ag(s, st, e, h) == st.changed = IF s \in e THEN h ELSE {}
           Writing(t, e) == /\ t.sid \in e /\ t.st.changed = Holding(t.base)
                            /\ \A f \in FilesOf[Selected(t.st)] : t.base[f] \in Unpatched
           Free(s) == \A x \in Requests : ~(Has(req[x]) /\ req[x].sid = s)
           Busy(t, edited, x) == t.pc \in {"writing", "rolling"} \/ x \in edited
           Ed(s) == {x \in Requests : Has(req[x]) /\ req[x].sid = s /\ Busy(req[x], history.edited, x)}
           Ed1(s) == {x \in Requests : Has(req'[x]) /\ req'[x].sid = s /\ Busy(req'[x], history'.edited, x)}
           Readable1(s) == record'[s] \notin {Absent, Torn}
           Goal == /\ \A i \in 1 .. Len(undo') : undo'[i].content \in Unpatched
                   /\ ed1 = {} => held1 = {}
                   /\ \A s \in ed1 : s \in dir' \/ \E x \in Requests : req'[x].sid = s
                   /\ \A s \in Sessions : Readable1(s) /\ Ed1(s) = {} => Ag(s, record'[s], ed1, held1)
                   /\ \A x \in Requests :
                        /\ Has(req'[x]) /\ req'[x].pc \notin {"writing", "rolling"}
                             => Ag(req'[x].sid, req'[x].st, ed1, held1)
                        /\ req'[x].pc \in {"writing", "rolling"} => Writing(req'[x], ed1)
<1> SUFFICES ASSUME Calm', Tidy', Restored'
             PROVE  Goal
  BY DEF FilesInv, Editing, At, Holds, Readable, Agrees
<1>a. Calm /\ Restored
  <2>1. history.unrecorded \subseteq history'.unrecorded /\ history.unrestored \subseteq history'.unrestored
    <3>1. CASE UNCHANGED vars
      BY <3>1 DEF vars
    <3>2. ASSUME NEW r \in Requests, NEW s \in Sessions, NEW kind, NEW q, Begun(r, s, kind, q)
          PROVE  history.unrecorded \subseteq history'.unrecorded /\ history.unrestored \subseteq history'.unrestored
      <4>1. \E met \in SUBSET Requests : history' = [history EXCEPT !.overlapped = @ \union met]
        BY <3>2, BegunFacts
      <4> QED BY <4>1 DEF TypeInv, HistoryType
    <3>3. ASSUME NEW r \in Requests, NEW q, Steady(r, q), Worked(r, q) \/ SavedOn(r, q) \/ Thrown(r, q)
          PROVE  history.unrecorded \subseteq history'.unrecorded /\ history.unrestored \subseteq history'.unrestored
      BY <3>3, HistorySteps DEF Grows
    <3> QED BY <3>1, <3>2, <3>3, CalmCases
  <2>2. Calm
    BY CalmCases
  <2> QED BY <2>1, <2>2 DEF Restored
<1>0. Calm /\ (Tidy => /\ \A i \in 1 .. Len(undo) : undo[i].content \in Unpatched
                       /\ ed = {} => held = {}
                       /\ \A s \in ed : s \in dir \/ \E x \in Requests : req[x].sid = s
                       /\ \A s \in Sessions : Readable(s) /\ Ed(s) = {} => Ag(s, record[s], ed, held)
                       /\ \A x \in Requests :
                            /\ Has(req[x]) /\ req[x].pc \notin {"writing", "rolling"}
                                 => Ag(req[x].sid, req[x].st, ed, held)
                            /\ req[x].pc \in {"writing", "rolling"} => Writing(req[x], ed))
  BY <1>a DEF FilesInv, Editing, At, Holds, Agrees
<1>1. \A x \in Requests : Has(req[x]) => Active(x)
  BY DEF Active, Finished, Working, Applying, Saving
<1>2. ed \subseteq Sessions /\ dir \subseteq Sessions /\ history \in HistoryType
  BY DEF TypeInv, TypeOK, HistoryType
<1>3. ASSUME ed \subseteq ed1, history.stacked => history'.stacked
      PROVE  Tidy
  BY <1>3 DEF Tidy
<1>4. ASSUME NEW r \in Requests, NEW s \in Sessions, NEW q, MovedAlone(r, s, q), Tidy,
             ed \subseteq ed1, (ed1 = ed /\ held1 = held) \/ s \in ed1, history.edited \subseteq history'.edited,
             \A t \in Sessions \ {s} : record'[t] = record[t] /\ (t \in dir => t \in dir'),
             \A i \in 1 .. Len(undo') : undo'[i].content \in Unpatched,
             \A t \in ed1 : t \in ed \/ t = s,
             Has(q) /\ q.pc \notin {"writing", "rolling"} => Ag(s, q.st, ed1, held1),
             q.pc \in {"writing", "rolling"} => Writing(q, ed1),
             Readable1(s) /\ Ed1(s) = {} => Ag(s, record'[s], ed1, held1)
      PROVE  Goal
  <2>1. /\ req'[r] = q /\ \A x \in Requests \ {r} : req'[x] = req[x]
        /\ q.sid = s /\ req[r].sid \in {s, NoSession}
        /\ \A x \in Requests \ {r} : Active(x) => req[x].sid # s
    BY <1>4 DEF MovedAlone
  <2>2. \A t, u \in ed1 : t = u
    BY DEF Tidy
  <2>3. ASSUME NEW t \in Sessions \ {s}, NEW st, Ag(t, st, ed, held)
        PROVE  Ag(t, st, ed1, held1)
    <3>1. CASE ed1 = ed /\ held1 = held
      BY <2>3, <3>1
    <3>2. CASE s \in ed1
      <4>1. t \notin ed1 /\ t \notin ed
        BY <1>4, <2>2, <3>2
      <4> QED BY <2>3, <4>1
    <3> QED BY <1>4, <3>1, <3>2
  <2>4. ASSUME NEW t \in Sessions, Readable1(t), Ed1(t) = {}
        PROVE  Ag(t, record'[t], ed1, held1)
    <3>1. CASE t = s
      <4> HIDE DEF Ag, Has, Readable1, Ed1
      <4> QED BY <1>4, <2>4, <3>1
    <3>2. CASE t # s
      <4>1. record'[t] = record[t] /\ Readable(t)
        BY <1>4, <2>4, <3>2 DEF Readable
      <4>2. Ed(t) \subseteq Ed1(t)
        <5> SUFFICES ASSUME NEW x \in Ed(t)
                     PROVE  x \in Ed1(t)
          OBVIOUS
        <5>1. x \in Requests /\ Has(req[x]) /\ req[x].sid = t /\ Busy(req[x], history.edited, x)
          OBVIOUS
        <5>2. req'[x] = req[x]
          BY <2>1, <3>2, <5>1, StoreAssumption
        <5> HIDE DEF Has
        <5> QED BY <1>4, <5>1, <5>2
      <4>3. Ed(t) = {}
        <5> HIDE DEF Ed, Ed1
        <5> QED BY <2>4, <4>2
      <4> HIDE DEF Ag, Ed, Ed1, Has, Writing, Busy
      <4>4. Ag(t, record[t], ed, held)
        BY <1>0, <1>4, <4>1, <4>3
      <4> QED BY <2>3, <3>2, <4>1, <4>4
    <3> QED BY <3>1, <3>2
  <2>5. ASSUME NEW x \in Requests
        PROVE  /\ Has(req'[x]) /\ req'[x].pc \notin {"writing", "rolling"} => Ag(req'[x].sid, req'[x].st, ed1, held1)
               /\ req'[x].pc \in {"writing", "rolling"} => Writing(req'[x], ed1)
    <3>1. CASE x = r
      <4> HIDE DEF Ag, Has, Writing
      <4> QED BY <1>4, <2>1, <3>1
    <3>2. CASE x # r
      <4>1. req'[x] = req[x]
        BY <2>1, <3>2
      <4>2. Has(req[x]) => req[x].sid \in Sessions \ {s}
        BY <1>1, <2>1, <3>2 DEF PhaseInv, Active
      <4>3. req[x].pc \in {"writing", "rolling"} => Writing(req[x], ed1)
        BY <1>0, <1>4
      <4> HIDE DEF Ag, Has, Writing
      <4> QED BY <1>0, <1>4, <2>3, <4>1, <4>2, <4>3
    <3> QED BY <3>1, <3>2
  <2>6. ed1 = {} => held1 = {}
    BY <1>0, <1>4
  <2>7. ASSUME NEW t \in ed1
        PROVE  t \in dir' \/ \E x \in Requests : req'[x].sid = t
    <3>1. CASE t = s
      BY <2>1, <3>1
    <3>2. CASE t # s /\ t \in dir
      BY <1>2, <1>4, <3>2
    <3>3. CASE t # s /\ t \notin dir
      <4>1. t \in ed /\ t \in Sessions
        BY <1>2, <1>4, <2>7, <3>3
      <4>2. PICK x \in Requests : req[x].sid = t
        BY <1>0, <1>4, <3>3, <4>1
      <4>3. x # r
        BY <2>1, <3>3, <4>1, <4>2, StoreAssumption
      <4> QED BY <2>1, <4>2, <4>3
    <3> QED BY <3>1, <3>2, <3>3
  <2> HIDE DEF Ag, Has, Writing, Readable1, Ed1, ed1, held1
  <2> QED BY <1>4, <2>4, <2>5, <2>6, <2>7
<1>5. ASSUME NEW r \in Requests, NEW s \in Sessions, NEW kind, NEW q, Begun(r, s, kind, q), MovedAlone(r, s, q)
      PROVE  Goal
  <2>1. /\ record' = record /\ files' = files /\ undo' = undo /\ dir' = dir /\ req[r].pc = "idle"
        /\ \E met \in SUBSET Requests : history' = [history EXCEPT !.overlapped = @ \union met]
    BY <1>5, BegunFacts
  <2>2. ed1 = ed /\ history'.edited = history.edited /\ history'.stacked = history.stacked
    BY <1>2, <2>1 DEF HistoryType
  <2>3. Tidy
    BY <1>3, <2>2
  <2>4. Free(s)
    <3>1. ~Has(req[r])
      BY <2>1 DEF Working, Applying, Saving
    <3> HIDE DEF Has
    <3> QED BY <1>1, <1>5, <3>1 DEF MovedAlone
  <2>5. Readable(s) => Ag(s, record[s], ed, held)
    <3>1. Ed(s) = {}
      <4> HIDE DEF Has
      <4> QED BY <2>4
    <3> HIDE DEF Ag, Ed
    <3> QED BY <1>0, <2>3, <3>1
  <2>6. q.pc \notin {"writing", "rolling"}
    BY <1>5 DEF Begun, Refused, Deletes, Starts, Loads
  <2>7. Has(q) => Ag(s, q.st, ed, held)
    <3>1. CASE Starts(s, kind, q)
      <4>1. s \notin dir /\ (\A x \in Requests : req[x].sid # s) /\ q.st.changed = {}
        BY <3>1, StartAssumption DEF Starts
      <4>2. s \notin ed
        BY <1>0, <2>3, <4>1
      <4> QED BY <4>1, <4>2
    <3>2. CASE Loads(r, s, kind, q)
      <4>1. Readable(s) /\ q.st.changed = record[s].changed
        BY <3>2 DEF Loads, Extends
      <4> QED BY <2>5, <4>1
    <3>3. CASE Refused(q) \/ Deletes(kind, q)
      BY <3>3 DEF Refused, Deletes, Working, Applying, Saving
    <3> QED BY <1>5, <3>1, <3>2, <3>3 DEF Begun
  <2>8. Readable1(s) => Ag(s, record'[s], ed, held)
    BY <2>1, <2>5 DEF Readable
  <2>9. held1 = held
    BY <2>1
  <2>10. \A i \in 1 .. Len(undo') : undo'[i].content \in Unpatched
    BY <1>0, <2>1, <2>3
  <2> HIDE DEF Ag, Has, Writing, Readable1, Goal, ed, ed1, held, held1, Free, Ed, Ed1
  <2> QED BY <1>4, <1>5, <2>1, <2>2, <2>3, <2>6, <2>7, <2>8, <2>9, <2>10
<1>6. ASSUME NEW r \in Requests, NEW q, MovedAlone(r, q.sid, q), q.sid \in Sessions, Steady(r, q), SavedOn(r, q)
      PROVE  Goal
  <2>1. q.sid = req[r].sid /\ files' = files /\ undo' = undo
    BY <1>6 DEF Steady, SavedOn
  <2>2. ed1 = ed /\ history' = history
    BY <1>6 DEF SavedOn, Opened, Filled, Passed, Removed, Ended
  <2>3. Tidy
    BY <1>3, <2>2
  <2>4. \A t \in Sessions \ {q.sid} : record'[t] = record[t] /\ (t \in dir => t \in dir')
    BY <1>6, <2>1, SavedFacts
  <2>7. /\ q.pc \notin {"writing", "rolling"}
        /\ Has(q) => Has(req[r]) /\ req[r].pc \notin {"writing", "rolling"} /\ q.st = req[r].st
        /\ Holds(r) => Has(req[r]) /\ req[r].pc \notin {"writing", "rolling"}
    BY <1>6 DEF SavedOn, Opened, Filled, Passed, Removed, Ended, Keeps, Holds, Working, Applying, Saving
  <2>8. Has(q) => Ag(q.sid, q.st, ed, held)
    <3> HIDE DEF Has, Ag
    <3> QED BY <1>0, <2>1, <2>3, <2>7
  <2>12. Holds(r) => Ag(q.sid, req[r].st, ed, held)
    <3> HIDE DEF Has, Ag
    <3> QED BY <1>0, <2>1, <2>3, <2>7
  <2>9. ASSUME Readable1(q.sid)
        PROVE  Ag(q.sid, record'[q.sid], ed, held)
    <3>1. CASE ~Has(q)
      <4>1. /\ record' = record /\ Readable(q.sid)
            /\ \/ Holds(r) /\ record[q.sid] = req[r].st
               \/ Free(q.sid)
        BY <1>0, <1>6, <2>9, <3>1, LeftRecord DEF Readable, Holds
      <4>2. Free(q.sid) => Ed(q.sid) = {}
        <5> HIDE DEF Has
        <5> QED OBVIOUS
      <4> HIDE DEF Has, Ag, Free, Ed
      <4> QED BY <1>0, <1>6, <2>1, <2>3, <2>12, <4>1, <4>2
    <3>2. CASE Has(q)
      <4>1. Holds(r) /\ r \notin history.overlapped
        BY <1>0, <2>7, <3>2 DEF Holds, Calm
      <4>2. record'[q.sid] = req[r].st
        <5>1. ~Opened(r, q)
          BY <1>6, <2>1, <2>9, SavedFacts
        <5>2. CASE Filled(r, q)
          <6>1. record[q.sid] = Torn
            BY <2>1, <4>1, <5>2 DEF Filled, SavedInv
          <6> QED BY <1>6, <2>1, <5>2, <6>1, SavedFacts
        <5>3. CASE Passed(r, q)
          <6>1. req[r].pc \in Written /\ record' = record
            BY <3>2, <5>3 DEF Passed, Written, Working, Applying, Saving
          <6> QED BY <2>1, <4>1, <6>1 DEF SavedInv
        <5>4. ~Removed(r, q) /\ ~Ended(r, q)
          BY <3>2 DEF Removed, Ended, Working, Applying, Saving
        <5> QED BY <1>6, <5>1, <5>2, <5>3, <5>4 DEF SavedOn
      <4> HIDE DEF Ag
      <4> QED BY <2>12, <4>1, <4>2
    <3> QED BY <3>1, <3>2
  <2>10. held1 = held
    BY <2>1
  <2>11. \A i \in 1 .. Len(undo') : undo'[i].content \in Unpatched
    BY <1>0, <2>1, <2>3
  <2> HIDE DEF Ag, Has, Writing, Readable1, Goal, ed, ed1, held, held1, Free, Ed, Ed1
  <2> QED BY <1>4, <1>6, <2>2, <2>3, <2>4, <2>7, <2>8, <2>9, <2>10, <2>11
<1>7. ASSUME NEW r \in Requests, NEW q, MovedAlone(r, q.sid, q), q.sid \in Sessions, Steady(r, q), Worked(r, q)
      PROVE  Goal
  <2> DEFINE st == req[r].st
             fs == FilesOf[Selected(st)]
             s == q.sid
  <2>1. /\ s = req[r].sid /\ record' = record /\ dir' = dir /\ r \notin history.overlapped /\ Active(r)
    BY <1>0, <1>7 DEF Steady, Worked, disk, Calm
  <2>14. ~Stopped(r, q)
    <3> SUFFICES ASSUME Stopped(r, q)
                 PROVE  FALSE
      OBVIOUS
    <3>1. r \in history'.unrestored
      BY <1>2 DEF Stopped, HistoryType
    <3> QED BY <3>1 DEF Restored
  <2>2. Has(req[r]) /\ st \in SessionState
    <3>1. req[r].pc \in Working
      BY <1>7, <2>14 DEF Worked, PlanFails, Planned, WroteOne, WroteLast, Broke, RolledOne, Rolled, NoneUndone,
                  OneUndone, Ran, Working, Applying
    <3> QED BY <3>1 DEF PhaseInv, Holds
  <2>3. /\ ed \subseteq ed1 /\ (history.stacked => history'.stacked) /\ history.edited \subseteq history'.edited
        /\ WroteLast(r, q) \/ OneUndone(r, q) => r \in history'.edited
        /\ \A t \in ed1 : t \in ed \/ t = s
        /\ Planned(r, q) \/ OneUndone(r, q) => s \in ed1
        /\ ~(Planned(r, q) \/ OneUndone(r, q)) => ed1 = ed
    <3>1. CASE Planned(r, q)
      BY <1>2, <2>1, <3>1 DEF Planned, WroteLast, OneUndone, HistoryType
    <3>2. CASE OneUndone(r, q)
      <4>1. history' = [history EXCEPT !.editors = @ \union {req[r].sid},
                                       !.applied = {c \in @ : Last(undo).file \notin FilesOf[c[2]]},
                                       !.edited = @ \union {r}]
        BY <3>2 DEF OneUndone
      <4> QED BY <1>2, <2>1, <3>2, <4>1 DEF HistoryType
    <3>3. CASE WroteLast(r, q)
      <4>1. ~Planned(r, q) /\ ~OneUndone(r, q)
        BY <3>3 DEF WroteLast, Planned, OneUndone
      <4>2. Applied(r)
        BY <3>3 DEF WroteLast
      <4> QED BY <1>2, <4>1, <4>2 DEF Applied, HistoryType
    <3>4. CASE \/ PlanFails(r, q) \/ WroteOne(r, q) \/ Broke(r, q) \/ RolledOne(r, q) \/ Rolled(r, q)
               \/ NoneUndone(r, q) \/ Ran(r, q)
      <4>1. history' = history
        BY <3>4 DEF PlanFails, WroteOne, Broke, RolledOne, Rolled, NoneUndone, Ran
      <4>2. ~Planned(r, q) /\ ~OneUndone(r, q) /\ ~WroteLast(r, q)
        BY <3>4 DEF PlanFails, WroteOne, Broke, RolledOne, Rolled, NoneUndone, Ran, Planned, OneUndone, WroteLast
      <4> QED BY <4>1, <4>2
    <3> QED BY <1>7, <2>14, <3>1, <3>2, <3>3, <3>4 DEF Worked
  <2>4. Tidy
    BY <1>3, <2>3
  <2>5. /\ req[r].pc \in {"writing", "rolling"} => Writing(req[r], ed)
        /\ req[r].pc \notin {"writing", "rolling"} => Ag(s, st, ed, held)
        /\ record[s] = st
    <3>1. /\ req[r].pc \in {"writing", "rolling"} => Writing(req[r], ed)
          /\ req[r].pc \notin {"writing", "rolling"} => Ag(s, st, ed, held)
      <4> HIDE DEF Has, Ag, Writing
      <4> QED BY <1>0, <2>1, <2>2, <2>4
    <3>2. req[r].pc \in Working
      BY <1>7, <2>14 DEF Worked, PlanFails, Planned, WroteOne, WroteLast, Broke, RolledOne, Rolled, NoneUndone,
                 OneUndone, Ran, Working, Applying
    <3>3. record[s] = st
      BY <2>1, <3>2 DEF SavedInv
    <3> HIDE DEF Ag, Writing
    <3> QED BY <3>1, <3>3
  <2>7. \A i \in 1 .. Len(undo') : undo'[i].content \in Unpatched
    <3>1. \A i \in 1 .. Len(undo) : undo[i].content \in Unpatched
      BY <1>0, <2>4
    <3>2. CASE WroteOne(r, q) \/ WroteLast(r, q) \/ Broke(r, q)
      <4> DEFINE f == Head(req[r].todo)
                 c == req[r].base[f]
      <4>1. Snaps(r) /\ req[r].pc = "writing"
        BY <3>2 DEF WroteOne, WroteLast, Broke
      <4>2. f \in fs /\ c \in Unpatched
        BY <2>5, <4>1, WritingFacts
      <4>3. Snapshot(f, c).content \in Unpatched
        <5> HIDE DEF c, f
        <5> QED BY <4>2 DEF Snapshot, Unpatched
      <4>4. \A i \in 1 .. Len(undo') : undo'[i] = Snapshot(f, c) \/ \E k \in 1 .. Len(undo) : undo'[i] = undo[k]
        BY <4>1 DEF Snaps
      <4> HIDE DEF f, c
      <4> QED BY <3>1, <4>3, <4>4
    <3>3. CASE ~(WroteOne(r, q) \/ WroteLast(r, q) \/ Broke(r, q))
      <4>1. undo' = undo
        BY <1>7, <2>14, <3>3 DEF Worked, PlanFails, Planned, RolledOne, Rolled, NoneUndone, OneUndone, Ran
      <4> QED BY <3>1, <4>1
    <3> QED BY <3>2, <3>3
  <2>8. (ed1 = ed /\ held1 = held) \/ s \in ed1
    <3>1. CASE req[r].pc \in {"writing", "rolling"}
      BY <2>1, <2>3, <2>5, <3>1
    <3>2. CASE req[r].pc \notin {"writing", "rolling"} /\ ~(Planned(r, q) \/ OneUndone(r, q))
      <4>1. files' = files
        BY <1>7, <2>14, <3>2 DEF Worked, PlanFails, WroteOne, WroteLast, Broke, RolledOne, Rolled, NoneUndone, Ran
      <4> QED BY <2>3, <3>2, <4>1
    <3> QED BY <2>3, <3>1, <3>2
  <2>9. ASSUME Has(q), q.pc \notin {"writing", "rolling"}
        PROVE  Ag(s, q.st, ed1, held1)
    <3>1. CASE PlanFails(r, q) \/ Ran(r, q)
      <4>1. q.st.changed = st.changed /\ files' = files /\ req[r].pc \notin {"writing", "rolling"}
        BY <2>2, <3>1 DEF PlanFails, Ran, PatchFailed, SessionState
      <4>2. ed1 = ed
        BY <2>3, <3>1 DEF PlanFails, Ran, Planned, OneUndone
      <4> QED BY <2>5, <4>1, <4>2
    <3>2. CASE WroteLast(r, q)
      <4>1. /\ held1 = Holding(req[r].base) \union fs /\ q.st = PatchApplied(st) /\ req[r].pc = "writing"
        BY <1>7, <2>1, <3>2, HeldFiles DEF WroteLast
      <4>2. q.st.changed = st.changed \union fs
        BY <2>2, <4>1 DEF PatchApplied, SessionState
      <4>3. s \in ed1 /\ st.changed = Holding(req[r].base)
        BY <2>1, <2>3, <2>5, <4>1
      <4> HIDE DEF held1, ed1, s, fs
      <4> QED BY <4>1, <4>2, <4>3
    <3>3. CASE Rolled(r, q)
      <4>1. req[r].pc = "rolling" /\ q.st = PatchFailed(st)
        BY <3>3 DEF Rolled
      <4>2. Writing(req[r], ed)
        BY <2>5, <4>1
      <4>3. held1 = Holding(req[r].base)
        BY <1>7, <2>1, <3>3, <4>2, HeldFiles
      <4>4. q.st.changed = st.changed
        BY <2>2, <4>1 DEF PatchFailed, SessionState
      <4> HIDE DEF held1
      <4> QED BY <2>1, <2>3, <4>2, <4>3, <4>4
    <3>4. CASE OneUndone(r, q)
      <4> DEFINE f == Last(undo).file
      <4>1. /\ req[r].pc = "undoing" /\ q.st = Undone(st, f, r)
            /\ \E k \in 1 .. Len(undo) : Last(undo) = undo[k]
        BY <3>4 DEF OneUndone
      <4>2. Last(undo).content \in Unpatched
        BY <1>0, <2>4, <4>1
      <4>3. held1 = held \ {f}
        BY <1>7, <2>1, <3>4, <4>2, HeldFiles
      <4>4. q.st.changed = st.changed \ {f}
        <5> HIDE DEF f
        <5> QED BY <2>2, <4>1 DEF Undone, SessionState
      <4>5. st.changed = held
        <5>1. s \in ed1 /\ Ag(s, st, ed, held)
          BY <2>3, <2>5, <3>4, <4>1
        <5>2. s \notin ed => ed = {}
          BY <2>3, <5>1 DEF Tidy
        <5>3. ed = {} => held = {}
          BY <1>0, <2>4
        <5> HIDE DEF ed, held, ed1
        <5> QED BY <5>1, <5>2, <5>3
      <4>6. s \in ed1
        BY <2>3, <3>4
      <4> HIDE DEF held, held1, ed1, f
      <4> QED BY <4>3, <4>4, <4>5, <4>6
    <3>5. CASE Planned(r, q) \/ WroteOne(r, q) \/ Broke(r, q) \/ RolledOne(r, q) \/ NoneUndone(r, q)
      BY <2>9, <3>5 DEF Planned, WroteOne, Broke, RolledOne, NoneUndone, Working, Applying, Saving
    <3> HIDE DEF Ag
    <3> QED BY <1>7, <2>14, <3>1, <3>2, <3>3, <3>4, <3>5 DEF Worked
  <2>10. ASSUME q.pc \in {"writing", "rolling"}
         PROVE  Writing(q, ed1)
    <3>1. CASE Planned(r, q)
      <4>1. /\ q.st = st /\ q.base = files /\ req[r].pc = "planning"
            /\ history' = [history EXCEPT !.editors = @ \union {req[r].sid},
                                          !.stacked = @ \/ ~({files[f] : f \in fs} \subseteq Unpatched)]
        BY <3>1 DEF Planned
      <4>2. {files[f] : f \in fs} \subseteq Unpatched
        <5>1. ~history'.stacked
          BY DEF Tidy
        <5> HIDE DEF fs
        <5> QED BY <1>2, <4>1, <5>1 DEF HistoryType
      <4>3. st.changed = held
        <5>1. s \in ed1 /\ Ag(s, st, ed, held)
          BY <2>3, <2>5, <3>1, <4>1
        <5>2. s \notin ed => ed = {}
          BY <2>3, <5>1 DEF Tidy
        <5>3. ed = {} => held = {}
          BY <1>0, <2>4
        <5> HIDE DEF ed, held, ed1
        <5> QED BY <5>1, <5>2, <5>3
      <4>4. s \in ed1
        BY <2>3, <3>1
      <4> QED BY <4>1, <4>2, <4>3, <4>4
    <3>2. CASE WroteOne(r, q) \/ Broke(r, q) \/ RolledOne(r, q)
      <4>1. req[r].pc \in {"writing", "rolling"} /\ q.st = st /\ q.base = req[r].base
        BY <3>2 DEF WroteOne, Broke, RolledOne
      <4> QED BY <2>1, <2>3, <2>5, <4>1
    <3>3. CASE PlanFails(r, q) \/ WroteLast(r, q) \/ Rolled(r, q) \/ NoneUndone(r, q) \/ OneUndone(r, q) \/ Ran(r, q)
      BY <2>10, <3>3 DEF PlanFails, WroteLast, Rolled, NoneUndone, OneUndone, Ran
    <3> HIDE DEF Writing
    <3> QED BY <1>7, <2>14, <3>1, <3>2, <3>3 DEF Worked
  <2>11. ASSUME Readable1(s), Ed1(s) = {}
         PROVE  Ag(s, record'[s], ed1, held1)
    <3>0. req'[r] = q /\ q.sid = s /\ record'[s] = st
      BY <1>7, <2>1, <2>5 DEF MovedAlone
    <3>1. ~(Has(q) /\ Busy(q, history'.edited, r))
      <4> HIDE DEF Has, Busy
      <4> QED BY <2>11, <3>0
    <3>2. CASE PlanFails(r, q) \/ Ran(r, q) \/ NoneUndone(r, q)
      <4>1. files' = files /\ req[r].pc \notin {"writing", "rolling"}
        BY <3>2 DEF PlanFails, Ran, NoneUndone
      <4>2. ed1 = ed
        BY <2>3, <3>2 DEF PlanFails, Ran, NoneUndone, Planned, OneUndone
      <4> QED BY <2>5, <3>0, <4>1, <4>2
    <3>3. CASE Rolled(r, q)
      <4>1. Has(q) /\ q.pc \notin {"writing", "rolling"} /\ q.st = PatchFailed(st)
        BY <3>3 DEF Rolled
      <4>2. Ag(s, q.st, ed1, held1)
        <5> HIDE DEF Has, Ag
        <5> QED BY <2>9, <4>1
      <4>3. q.st.changed = st.changed
        BY <2>2, <4>1 DEF PatchFailed, SessionState
      <4> QED BY <3>0, <4>2, <4>3
    <3>4. ~(Planned(r, q) \/ WroteOne(r, q) \/ Broke(r, q) \/ RolledOne(r, q))
      BY <3>1 DEF Planned, WroteOne, Broke, RolledOne, Working, Applying
    <3>5. ~(WroteLast(r, q) \/ OneUndone(r, q))
      BY <2>3, <3>1 DEF WroteLast, OneUndone
    <3> HIDE DEF Ag
    <3> QED BY <1>7, <2>14, <3>2, <3>3, <3>4, <3>5 DEF Worked
  <2>12. s \in Sessions /\ MovedAlone(r, s, q)
    BY <1>7
  <2> HIDE DEF Ag, Has, Writing, Readable1, Goal, ed, ed1, held, held1, s, Ed, Ed1
  <2> QED BY <1>4, <2>1, <2>3, <2>4, <2>7, <2>8, <2>9, <2>10, <2>11, <2>12
<1>10. ASSUME NEW r \in Requests, NEW q, MovedAlone(r, q.sid, q), q.sid \in Sessions, Steady(r, q), Thrown(r, q)
       PROVE  Goal
  <2> DEFINE s == q.sid
  <2>1. /\ s = req[r].sid /\ undo' = undo /\ ~Has(q) /\ q.pc = "failed" /\ r \notin history.overlapped
        /\ Active(r)
    BY <1>0, <1>10 DEF Steady, Thrown, Calm, Working, Applying, Saving
  <2>2. \A t \in Sessions \ {s} : record'[t] = record[t] /\ (t \in dir => t \in dir')
    BY <1>10, <2>1, ThrownFacts
  <2>3. ~HalfUndone(r)
    <3> SUFFICES ASSUME HalfUndone(r)
                 PROVE  FALSE
      OBVIOUS
    <3>1. r \in history'.unrecorded
      BY <1>2 DEF HalfUndone, HistoryType
    <3> QED BY <3>1 DEF Restored
  <2>4. GaveUp(r) \/ Forgot(r) \/ HalfSaved(r)
    BY <1>10, <2>3 DEF Thrown
  <2>5. /\ files' = files /\ ed1 = ed /\ history'.edited = history.edited
        /\ history'.stacked = history.stacked
    BY <1>2, <2>4 DEF GaveUp, Forgot, HalfSaved, HistoryType
  <2>6. Tidy
    BY <1>3, <2>5
  <2>7. Ed(s) = {} \/ Holds(r)
    <3>1. \A x \in Requests \ {r} : Active(x) => req[x].sid # s
      BY <1>10 DEF MovedAlone
    <3>2. Has(req[r]) <=> Holds(r)
      BY DEF Holds
    <3> HIDE DEF Has, Busy
    <3> QED BY <1>1, <3>1, <3>2
  <2>8. Holds(r) /\ req[r].pc \notin {"writing", "rolling"} => Ag(s, req[r].st, ed, held)
    <3>1. Has(req[r]) <=> Holds(r)
      BY DEF Holds
    <3> HIDE DEF Has, Ag
    <3> QED BY <1>0, <2>1, <2>6, <3>1
  <2>9. ASSUME Readable1(s)
        PROVE  Ag(s, record'[s], ed, held)
    <3>1. CASE GaveUp(r) /\ req[r].pc \in Working \union Written
      <4>1. record'[s] = req[r].st /\ req[r].pc \notin {"writing", "rolling"}
        BY <2>1, <3>1 DEF GaveUp, SavedInv
      <4>2. Holds(r)
        BY <3>1 DEF Holds, Written, Saving
      <4> HIDE DEF Ag
      <4> QED BY <2>8, <4>1, <4>2
    <3>2. CASE record'[s] = record[s] /\ req[r].pc \in Deleting
      <4>1. Readable(s) /\ ~Holds(r)
        BY <2>9, <3>2 DEF Readable, Holds, Deleting, Working, Applying, Saving
      <4> HIDE DEF Ag, Ed, s
      <4> QED BY <1>0, <1>10, <2>6, <2>7, <3>2, <4>1 DEF s
    <3>3. CASE Forgot(r)
      <4>1. r \notin history.edited
        <5> SUFFICES ASSUME r \in history.edited
                     PROVE  FALSE
          OBVIOUS
        <5>1. r \in history'.unrecorded
          BY <1>2, <3>3 DEF Forgot, Changing, HistoryType
        <5> QED BY <5>1 DEF Restored
      <4>2. Ed(s) = {}
        <5>1. \A x \in Requests \ {r} : Active(x) => req[x].sid # s
          BY <1>10 DEF MovedAlone
        <5>2. ~Busy(req[r], history.edited, r)
          BY <3>3, <4>1 DEF Forgot
        <5> HIDE DEF Has, Busy
        <5> QED BY <1>1, <5>1, <5>2
      <4>3. record' = record /\ Readable(s)
        BY <2>9, <3>3 DEF Forgot, Readable
      <4> HIDE DEF Ag, Ed, s
      <4> QED BY <1>0, <1>10, <2>6, <4>2, <4>3 DEF s
    <3>4. CASE HalfSaved(r) /\ req[r].pc = "torn"
      <4>1. record[s] = Torn
        BY <2>1, <3>4 DEF SavedInv
      <4>2. record'[s] = Torn
        BY <1>10, <2>1, <3>4, <4>1 DEF HalfSaved, TypeInv, TypeOK
      <4> QED BY <2>9, <4>2
    <3>5. CASE HalfSaved(r) /\ req[r].pc = "removing"
      <4>1. record'[s] \in {record[s], Absent} /\ req[r].pc \in Deleting
        BY <1>10, <2>1, <3>5 DEF HalfSaved, TypeInv, TypeOK, Deleting
      <4> HIDE DEF Ag
      <4> QED BY <2>9, <3>2, <4>1
    <3>6. CASE GaveUp(r) /\ req[r].pc \notin Working \union Written
      <4>1. record'[s] = record[s] /\ req[r].pc \in Deleting
        BY <3>6 DEF GaveUp, Working, Written, Deleting
      <4> HIDE DEF Ag
      <4> QED BY <3>2, <4>1
    <3>7. HalfSaved(r) => req[r].pc \in {"torn", "removing"}
      BY DEF HalfSaved
    <3> HIDE DEF Ag
    <3> QED BY <2>4, <3>1, <3>3, <3>4, <3>5, <3>6, <3>7
  <2>10. \A i \in 1 .. Len(undo') : undo'[i].content \in Unpatched
    BY <1>0, <2>1, <2>6
  <2>11. held1 = held
    BY <2>5
  <2>12. s \in Sessions /\ MovedAlone(r, s, q) /\ q.pc \notin {"writing", "rolling"}
    BY <1>10, <2>1
  <2> HIDE DEF Ag, Has, Writing, Readable1, Goal, ed, ed1, held, held1, s, Ed, Ed1
  <2> QED BY <1>4, <2>1, <2>2, <2>5, <2>6, <2>9, <2>10, <2>11, <2>12
<1>8. CASE UNCHANGED vars
  <2>1. /\ record' = record /\ req' = req /\ history' = history /\ files' = files /\ undo' = undo /\ dir' = dir
    BY <1>8 DEF vars, disk
  <2>2. Tidy
    BY <1>3, <2>1
  <2> HIDE DEF Ag, Has, Writing
  <2> QED BY <1>0, <2>1, <2>2 DEF Readable
<1> HIDE DEF Ag, Has, Writing, Readable1, Goal, ed, ed1, held, held1, Ed, Ed1
<1>9. ASSUME NEW r \in Requests, NEW s \in Sessions, NEW q, MovedAlone(r, s, q),
             \/ \E kind : Begun(r, s, kind, q)
             \/ Steady(r, q) /\ (Worked(r, q) \/ SavedOn(r, q) \/ Thrown(r, q))
      PROVE  Goal
  <2>1. q.sid = s
    BY <1>9 DEF MovedAlone
  <2> QED BY <1>5, <1>6, <1>7, <1>9, <1>10, <2>1
<1> QED BY <1>8, <1>9, CalmCases


(* ----------------------------- the beginning --------------------------- *)

\* The oldest snapshots are those of the changes the run left.
LEMMA StartUndo ==
  ASSUME NEW changed \in SUBSET Files,
         NEW q, q = SetToSeq({[file |-> f, content |-> IF f \in NewFiles THEN "empty" ELSE "original"] : f \in changed})
  PROVE  q \in Seq(Snapshots) /\ \A i \in 1 .. Len(q) : q[i].content \in Unpatched
<1> DEFINE snap(f) == [file |-> f, content |-> IF f \in NewFiles THEN "empty" ELSE "original"]
           S == {snap(f) : f \in changed}
           g == [f \in changed |-> snap(f)]
<1>1. IsFiniteSet(changed)
  BY StoreAssumption, FS_Subset
<1>2. g \in Surjection(changed, S)
  BY DEF Surjection
<1>3. IsFiniteSet(S)
  BY <1>1, <1>2, FS_Surjection
<1>4. \A x \in S : x \in Snapshots /\ x.content \in Unpatched
  BY DEF Snapshots, Contents, Unpatched
<1> HIDE DEF S
<1>5. q \in Seq(S)
  BY <1>3, SeqOfSet DEF S
<1>6. \A i \in 1 .. Len(q) : q[i] \in S
  BY <1>5
<1>7. q \in Seq(Snapshots)
  BY <1>4, <1>5, <1>6
<1> QED BY <1>4, <1>6, <1>7

LEMMA InitInv == Init => IInv
<1> SUFFICES ASSUME Init
             PROVE  IInv
  OBVIOUS
<1>1. PICK s \in Sessions, st \in StartStates, other \in {Absent, NewSession} :
        /\ record = [x \in Sessions |-> IF x = s THEN st ELSE other]
        /\ dir = {x \in Sessions : record[x] # Absent}
        /\ store = [x \in Sessions |->
                      [m \in Messages |-> IF x = s /\ m \in st.refs THEN "real" ELSE "none"]]
        /\ pointer = s
        /\ files = [f \in Files |-> IF f \in st.changed THEN "patched"
                                    ELSE IF f \in NewFiles THEN "missing" ELSE "original"]
        /\ undo \in {SetToSeq({[file |-> f, content |-> IF f \in NewFiles THEN "empty" ELSE "original"]
                               : f \in st.changed})}
        /\ req = [r \in Requests |-> Blank("none", NoSession, "idle")]
        /\ faults = 0
        /\ history = [overlapped |-> {}, applied |-> {}, reapplied |-> {}, edited |-> {},
                      unrecorded |-> {}, unrestored |-> {}, cut |-> {},
                      editors |-> IF st.changed = {} THEN {} ELSE {s}, stacked |-> FALSE]
  BY DEF Init
<1>2. /\ st \in SessionState /\ NewSession \in SessionState
      /\ st.changed \subseteq Files /\ NewSession.changed = {}
      /\ st # Absent /\ st # Torn /\ NewSession # Absent /\ NewSession # Torn
  <2>1. st \in SessionState /\ NewSession \in SessionState
    BY StoreAssumption
  <2>2. st.changed \subseteq Files
    BY <2>1 DEF SessionState
  <2>3. Absent \notin SessionState /\ Torn \notin SessionState
    BY StoreAssumption
  <2>4. NewSession.changed = {}
    BY StartAssumption
  <2> QED BY <2>1, <2>2, <2>3, <2>4
<1>3. /\ history.overlapped = {} /\ history.applied = {} /\ history.reapplied = {}
      /\ history.edited = {} /\ history.unrecorded = {}
      /\ history.editors = (IF st.changed = {} THEN {} ELSE {s}) /\ ~history.stacked
  BY <1>1
<1>4. ASSUME NEW r \in Requests
      PROVE  /\ req[r] \in ReqType /\ req[r].pc = "idle" /\ req[r].kind = "none"
             /\ req[r].sid = NoSession /\ req[r].st = NoState /\ req[r].broken = NoFile
  BY <1>1, BlankType, SMTT(30) DEF PCs
<1>5. \A r \in Requests : ~Holds(r) /\ ~Active(r)
  BY <1>4 DEF Holds, Active, Working, Applying, Saving
<1>6. ASSUME NEW x \in Sessions
      PROVE  /\ record[x] \in {st, Absent, NewSession} /\ (x = s => record[x] = st)
             /\ x # s => record[x] \in {Absent, NewSession}
             /\ x \in dir <=> record[x] # Absent
             /\ record[x] # Torn
  <2>1. record[x] = IF x = s THEN st ELSE other
    BY <1>1
  <2>2. other # Torn
    BY <1>2, StoreAssumption
  <2>3. x \in dir <=> record[x] # Absent
    BY <1>1
  <2> QED BY <1>2, <2>1, <2>2, <2>3
<1>7. Lost = {}
  BY <1>4 DEF Lost
<1>8. TypeInv
  <2>1. record \in [Sessions -> SessionState \union {Absent, Torn}]
    BY <1>1, <1>2
  <2>2. store \in [Sessions -> [Messages -> Artifacts]]
    BY <1>1 DEF Artifacts
  <2>3. files \in [Files -> Contents]
    BY <1>1 DEF Contents
  <2>4. undo \in Seq(Snapshots)
    BY <1>1, <1>2, StartUndo
  <2>5. req \in [Requests -> ReqType] /\ \A r \in Requests : req[r].pc \in PCs
    BY <1>1, <1>4 DEF PCs
  <2>6. dir \subseteq Sessions /\ pointer \in Sessions \union {NoSession} /\ faults \in 0 .. MaxFaults
    BY <1>1, StoreAssumption
  <2>7. history \in HistoryType
    BY <1>1 DEF HistoryType
  <2> QED BY <1>3, <2>1, <2>2, <2>3, <2>4, <2>5, <2>6, <2>7 DEF TypeInv, TypeOK, Artifacts
<1>9. PhaseInv
  BY <1>3, <1>4, <1>5 DEF PhaseInv, Deleting, Applying, Saving
<1>10. AloneInv
  BY <1>5 DEF AloneInv
<1>11. TodoInv
  BY <1>4 DEF TodoInv, Working, Applying
<1>12. WriteInv
  BY <1>4 DEF WriteInv
<1>13. SavedInv /\ RecordedInv
  BY <1>4 DEF SavedInv, RecordedInv, Working, Applying, Saving, Written
<1>14. ListInv
  <2>1. dir \subseteq Sessions
    BY <1>1
  <2>2. Unlistable = {}
    BY <1>6, <2>1 DEF Unlistable, Readable
  <2> QED BY <1>6, <2>2 DEF ListInv
<1>15. VerifiedInv
  <2>1. Verified(st) /\ Verified(NewSession)
    BY <1>1, StartAssumption DEF Verified
  <2> QED BY <1>5, <1>6, <2>1 DEF VerifiedInv, Readable
<1>16. AppliedInv
  BY <1>3, <1>5 DEF AppliedInv, AppliedIn
<1>17. FilesInv
  <2>1. Holding(files) = st.changed
    BY <1>1, <1>2 DEF Holding
  <2>2. \A i \in 1 .. Len(undo) : undo[i].content \in Unpatched
    BY <1>1, <1>2, StartUndo
  <2>3. \A x \in Sessions : Readable(x) => Agrees(x, record[x])
    BY <1>2, <1>3, <1>6, <2>1 DEF Agrees, Readable
  <2>4. \A x \in history.editors : x \in dir
    BY <1>2, <1>3, <1>6
  <2>5. history.editors = {} => Holding(files) = {}
    BY <1>3, <2>1
  <2>6. \A r \in Requests : req[r].pc \notin {"writing", "rolling"}
    BY <1>4
  <2> QED BY <1>3, <1>5, <2>2, <2>3, <2>4, <2>5, <2>6 DEF FilesInv
<1> QED BY <1>8, <1>9, <1>10, <1>11, <1>12, <1>13, <1>14, <1>15, <1>16, <1>17 DEF IInv

\* Every step keeps the invariant.
LEMMA StepInv == IInv /\ [Next]_vars => IInv'
<1> SUFFICES ASSUME IInv, [Next]_vars
             PROVE  IInv'
  OBVIOUS
<1>1. /\ TypeInv /\ PhaseInv /\ AloneInv /\ TodoInv /\ WriteInv
      /\ SavedInv /\ RecordedInv /\ ListInv /\ VerifiedInv /\ AppliedInv /\ FilesInv
  BY DEF IInv
<1>2. TypeInv' /\ PhaseInv' /\ TodoInv'
  BY <1>1, TypeStep, PhaseStep, TodoStep
<1>3. AloneInv' /\ WriteInv' /\ SavedInv'
  BY <1>1, AloneStep, WriteStep, SavedStep
<1>4. RecordedInv' /\ ListInv' /\ VerifiedInv'
  BY <1>1, RecordedStep, ListStep, VerifiedStep
<1>5. AppliedInv' /\ FilesInv'
  BY <1>1, AppliedStep, FilesStep
<1> QED BY <1>2, <1>3, <1>4, <1>5 DEF IInv

LEMMA Invariance == Spec => []IInv
BY InitInv, StepInv, PTL DEF Spec

(* ------------------------------ the theorems --------------------------- *)

\* The records, the files, the snapshots and the requests keep their types in every state.
THEOREM SessionTypes == Spec => []TypeOK
<1>1. IInv => TypeOK
  BY DEF IInv, TypeInv
<1> QED BY <1>1, Invariance, PTL

\* AnsweredStaysRecorded: what a request answered for is in the record of its session, unless it met
\* another request there.
THEOREM AnsweredRecorded == Spec => []AnsweredStaysRecorded
<1>1. IInv => AnsweredStaysRecorded
  BY DEF IInv, RecordedInv, AnsweredStaysRecorded, Recording
<1> QED BY <1>1, Invariance, PTL

\* SessionsListable: with no request under way, a session that cannot be listed was worked on by two
\* requests at a time, by one that a crash cut short, or by one that failed in the middle of its write
\* or removal of the session's directory; an error anywhere else leaves every session listable.
THEOREM Listable == Spec => []SessionsListable
<1>1. IInv => SessionsListable
  <2> SUFFICES ASSUME IInv, NEW s \in Unlistable, Quiet, Disturbed(s) = {}
               PROVE  FALSE
    BY DEF SessionsListable
  <2>1. PICK r \in Requests : req[r].pc = "torn"
    BY DEF IInv, ListInv
  <2>2. Active(r)
    BY <2>1 DEF Active, Finished
  <2> QED BY <2>2 DEF Quiet, InFlight
<1> QED BY <1>1, Invariance, PTL

\* AppliedOncePerApproval: no session applies a candidate again that it has applied and not undone,
\* unless requests met, a crash cut one short, or an approval of the same session failed after its
\* patch and before its record; a failed undo, rollback, shell approval or later part of a save
\* is no such cause.
THEOREM AppliedOnce == Spec => []AppliedOncePerApproval
<1>1. IInv => AppliedOncePerApproval
  <2> SUFFICES ASSUME IInv, NEW r \in history.reapplied, history.overlapped \union Lost = {}
               PROVE  \E x \in history.unrecorded : req[x].sid = req[r].sid /\ req[x].kind = "approve_patch"
    BY DEF AppliedOncePerApproval
  <2>1. Calm
    BY DEF Calm
  <2>2. Unsaved(req[r].sid) # {}
    BY <2>1 DEF IInv, AppliedInv
  <2> QED BY <2>2 DEF Unsaved, Approves
<1> QED BY <1>1, Invariance, PTL

\* FailedPatchLeavesNoTrace: a patch whose write failed leaves the files before and after the one it
\* failed on as they were, but for those a rollback that failed as well had not come to.
THEOREM FailedPatchUndone == Spec => []FailedPatchLeavesNoTrace
<1>1. IInv => FailedPatchLeavesNoTrace
  BY DEF IInv, WriteInv, FailedPatchLeavesNoTrace
<1> QED BY <1>1, Invariance, PTL

\* ChangedFilesHoldThePatch: between requests the files a record lists as changed are the files that
\* hold a patch, as long as one session patches and never on top of a patch, and no request failed
\* between its change of the files and its record, or in its rollback.
THEOREM ChangedFilesPatched == Spec => []ChangedFilesHoldThePatch
<1>1. IInv => ChangedFilesHoldThePatch
  <2> DEFINE patched == {f \in Files : files[f] \in {"patched", "doubled"}}
             listed == UNION {record[s].changed : s \in {x \in Sessions : Readable(x)}}
  <2> SUFFICES ASSUME IInv, Quiet, history.overlapped \union Lost = {},
                      history.unrecorded \union history.unrestored = {},
                      \A s, t \in history.editors : s = t, ~history.stacked
               PROVE  /\ listed \subseteq patched
                      /\ (\A s \in history.editors : Readable(s)) => patched \subseteq listed
    BY DEF ChangedFilesHoldThePatch
  <2>1. Calm /\ Tidy /\ Restored
    BY DEF Calm, Tidy, Restored
  <2>2. \A s \in Sessions : Editing(s) = {}
    <3>1. \A r \in Requests : Holds(r) => Active(r)
      BY DEF Holds, Active, Working, Applying, Saving, Finished
    <3> QED BY <3>1 DEF Quiet, InFlight, At, Editing
  <2>3. \A s \in Sessions : Readable(s) => record[s].changed = IF s \in history.editors THEN patched ELSE {}
    BY <2>1, <2>2 DEF IInv, FilesInv, Agrees, Holding
  <2>4. listed \subseteq patched
    BY <2>3
  <2>5. ASSUME \A s \in history.editors : Readable(s), NEW f \in patched
        PROVE  f \in listed
    <3>1. PICK s \in history.editors : TRUE
      BY <2>1, <2>5 DEF IInv, FilesInv, Holding
    <3>2. s \in Sessions
      BY <3>1 DEF IInv, TypeInv, HistoryType
    <3> QED BY <2>3, <2>5, <3>1, <3>2
  <2> QED BY <2>4, <2>5
<1> QED BY <1>1, Invariance, PTL

\* CompletedIsVerified: a session that counts as completed has a passing run or a message that
\* continued it.
THEOREM CompletedVerified == Spec => []CompletedIsVerified
<1>1. IInv => CompletedIsVerified
  BY DEF IInv, VerifiedInv, Verified, CompletedIsVerified
<1> QED BY <1>1, Invariance, PTL


\* Artifact files change in a save, in a deletion, and when one of the two is cut short.
LEMMA StoreSteps ==
  ASSUME [Next]_vars
  PROVE  \/ UNCHANGED store
         \/ \E r \in Requests : \/ WriteArtifacts(r) \/ RemoveSession(r)
                              \/ ArtifactsCutShort(r) \/ RemovalCutShort(r)
<1>1. CASE UNCHANGED vars
  BY <1>1 DEF vars
<1>2. CASE Crash
  BY <1>2 DEF Crash, disk
<1>3. ASSUME NEW r \in Requests, Load(r)
      PROVE  UNCHANGED store
  BY <1>3 DEF Load, Message, Rename, Propose, Review, Judge, StartWorkflow, Delete, Approve, Unloadable,
     Records, Begins, disk
<1>4. ASSUME NEW r \in Requests, Step(r)
      PROVE  UNCHANGED store \/ WriteArtifacts(r) \/ RemoveSession(r)
  <2>1. CASE \/ Plan(r) \/ PlanThrows(r) \/ WriteFile(r) \/ WriteFails(r) \/ RollBack(r) \/ UndoLatest(r)
             \/ Verify(r)
    BY <2>1 DEF Plan, PlanThrows, WriteFile, WriteFails, RollBack, UndoLatest, Verify, Works, disk
  <2>4. CASE RollBackThrows(r)
    BY <2>4 DEF RollBackThrows, disk
  <2>2. CASE OpenRecord(r) \/ FillRecord(r) \/ WriteEvents(r) \/ SavePointer(r) \/ EndRename(r)
    BY <2>2 DEF OpenRecord, FillRecord, WriteEvents, SavePointer, EndRename, disk
  <2>3. CASE FindNext(r) \/ MovePointer(r) \/ AnswerDelete(r)
    BY <2>3 DEF FindNext, MovePointer, AnswerDelete, disk
  <2> QED BY <1>4, <2>1, <2>2, <2>3, <2>4, ZenonT(60) DEF Step
<1>5. ASSUME NEW r \in Requests, Throw(r)
      PROVE  UNCHANGED store \/ ArtifactsCutShort(r) \/ RemovalCutShort(r)
  BY <1>5 DEF Throw, Throws, UndoCutShort, DirectoryOnly, RecordCutShort, PointerCutShort, disk
<1> QED BY <1>1, <1>2, <1>3, <1>4, <1>5 DEF Next

\* BridgeKeepsArtifacts: the content of an artifact is replaced by the placeholder only by a save of
\* the cockpit, whether it comes to its end or not.
THEOREM BridgeSavesContent == Spec => BridgeKeepsArtifacts
<1> DEFINE Kept == \A s \in Sessions, m \in Messages :
                     store[s][m] = "real" /\ store'[s][m] = "placeholder"
                     => \E r \in Requests : req[r].kind \notin BridgeKinds /\ req[r].pc = "events"
                                            /\ req'[r].pc # "events"
<1>1. IInv /\ [Next]_vars => Kept
  <2> SUFFICES ASSUME IInv, [Next]_vars, NEW s \in Sessions, NEW m \in Messages,
                      store[s][m] = "real", store'[s][m] = "placeholder"
               PROVE  \E r \in Requests : req[r].kind \notin BridgeKinds /\ req[r].pc = "events"
                                          /\ req'[r].pc # "events"
    OBVIOUS
  <2>0. /\ store \in [Sessions -> [Messages -> Artifacts]]
        /\ req \in [Requests -> ReqType]
    BY DEF IInv, TypeInv, TypeOK, Artifacts
  <2>1. PICK r \in Requests : \/ WriteArtifacts(r) \/ RemoveSession(r)
                             \/ ArtifactsCutShort(r) \/ RemovalCutShort(r)
    BY StoreSteps
  <2>2. ~RemoveSession(r)
    <3> SUFFICES ASSUME RemoveSession(r)
                 PROVE  FALSE
      OBVIOUS
    <3>1. store' = store \/ store' = [store EXCEPT ![req[r].sid] = [x \in Messages |-> "none"]]
      BY DEF RemoveSession
    <3> QED BY <2>0, <3>1
  <2>3. ~RemovalCutShort(r)
    <3> SUFFICES ASSUME RemovalCutShort(r)
                 PROVE  FALSE
      OBVIOUS
    <3>1. PICK gone \in SUBSET Messages :
             store' = [store EXCEPT ![req[r].sid] = [x \in Messages |-> IF x \in gone THEN "none" ELSE @[x]]]
      BY DEF RemovalCutShort
    <3> QED BY <2>0, <3>1
  <2>4. CASE WriteArtifacts(r)
    <3>1. /\ store' = [store EXCEPT ![req[r].sid] =
                        [x \in Messages |-> IF x \in WrittenRefs(r) THEN HeldContent(r, x) ELSE @[x]]]
          /\ req[r].pc = "events"
          /\ req' = [req EXCEPT ![r] = [@ EXCEPT !.pc = "artifacts"]]
      BY <2>4 DEF WriteArtifacts, Saves, Goes, Finished
    <3>2. m \in WrittenRefs(r) /\ HeldContent(r, m) = "placeholder"
      BY <2>0, <3>1
    <3>3. req[r].kind \notin BridgeKinds
      BY <3>2 DEF WrittenRefs
    <3>4. req'[r].pc = "artifacts"
      BY <2>0, <3>1 DEF ReqType
    <3> QED BY <3>1, <3>3, <3>4
  <2>5. CASE ArtifactsCutShort(r)
    <3>1. /\ req[r].pc = "events"
          /\ req' = [req EXCEPT ![r] = Blank(@.kind, @.sid, "failed")]
      BY <2>5 DEF ArtifactsCutShort, Fails, Goes, Finished
    <3>2. PICK n \in WrittenRefs(r), whole \in SUBSET WrittenRefs(r) :
             store' = [store EXCEPT ![req[r].sid] =
                         [x \in Messages |-> IF x = n THEN "partial"
                                             ELSE IF x \in whole THEN HeldContent(r, x) ELSE @[x]]]
      BY <2>5 DEF ArtifactsCutShort
    <3>3. m \in WrittenRefs(r) /\ HeldContent(r, m) = "placeholder"
      BY <2>0, <3>2
    <3>4. req[r].kind \notin BridgeKinds
      BY <3>3 DEF WrittenRefs
    <3>5. req'[r].pc = "failed"
      BY <2>0, <3>1 DEF Blank
    <3> QED BY <3>1, <3>4, <3>5
  <2> QED BY <2>1, <2>2, <2>3, <2>4, <2>5
<1> HIDE DEF Kept
<1>2. Spec => [][Kept]_vars
  BY <1>1, Invariance, PTL DEF Spec
<1> QED BY <1>2 DEF BridgeKeepsArtifacts, Kept

=============================================================================
