# A TLA+ model of TomorrowEdge

TomorrowEdge is a local runtime that lets coding agents work on a repository
under governance: goals with acceptance checks, patches and shell commands that
wait for approval, budgets, and run state kept in files. This directory holds
TLA+ modules for its core logic, the TLC configurations that check them, and
TLAPS proofs of what matters most. Paths are relative to the repository root.

    tlc -config MCConvergencePolicy.cfg MCConvergence     # a run
    tlc -config MCSession.cfg MCSession
    tlapm ConvergenceSafety.tla                           # a proof

## 1. The system

### Components and their state

| component | source | state it keeps | operations | module |
|---|---|---|---|---|
| Canopus convergence engine | `src/core/controlPlane/` | workspace baseline, counters of a run, `.runs/<id>/` (trace.jsonl, status.latest.json, progress.md, evidence/) | `run`: observe, accept, act, observe, accept, decide, persist; `control status`, `control report` read | `ConvergenceEngine` |
| local cockpit | `src/localCockpit/server.ts`, `src/cockpit/eventBus.ts` | live snapshots, cancelled ids, both with expiry | start a background run, cancel, message, approve, rename, delete | `CockpitRun`, `CockpitSession` |
| web client | `src/cockpit-web/` | view, selection, `busy`, live stream | start, continue, approve, stop, select, reconnect | `CockpitClient` |
| sessions on disk | `src/core/memory/sessionMemory.ts` | `.tomorrowedge/sessions/<id>/` (session.json, events.jsonl, artifacts), `latest-session.json` | save, load, list, rename, delete, latest | `CockpitSession` |
| approvals | `src/cockpit/approvalExecutor.ts` | session state, workspace files | approve or reject a patch or a command, re-review, undo | `ApprovalRules`, `CockpitSession` |
| patches | `src/core/patch/` | workspace files, undo snapshots | plan, apply, roll back, undo | `CockpitSession` |
| MCP bridge | `src/mcp/bridge.ts` | sessions | load, change, save without a lock | `CockpitSession` |
| agent graph executor | `src/core/agentGraph/executor.ts`, `src/core/orchestration/`, `src/core/planning/` | a role graph and a task graph with their statuses, candidates, runs | plan, code, review, judge, patch, verify, repair, summarise | `TaskGraphRules`, `PatchWorkflow` |
| council | `src/core/council/` | task graph, node statuses, owners, mutations | schedule, delegate, fall back, retry, block, review | `CouncilRun` |
| budgets | `src/core/budget/` | calls used, in all and per role; reservations | ask, reserve, commit, release | `BudgetGate` |
| traces, task memory, policy scores | `src/core/traces/`, `src/core/memory/taskMemory.ts`, `src/core/orchestrationPolicy/`, `src/core/persistence/` | three files per project; the queue of one process for two of them | save, learn, forget, compact, score | `LearningStores` |
| external agents | `src/core/externalAgents/` | a pool of child processes, their pending requests | invoke a role, retry, discard, release | `ExternalAgents` |
| the rest | providers, prompts, routing, skills, evaluation harnesses, UI, CLI | none that outlives a call, or configuration | parsing, scoring, HTTP, display | |

`PROJECT.json` lists every component with its status, the source lines of every
definition, and for each property a mutant: an operator next to the definition it
replaces, with a plausible bug in it, under which the property fails.

### How they interact

The command line and the cockpit server start runs: of the convergence engine
(`control run`), of the agent graph or of the council. The engine calls an
*AgentBridge* adapter (`adapters.ts`), which may itself be a whole council run,
and the shell tool for its gates. A cockpit run goes on in the background of
the server process; its events reach the server through a callback, and its
result is saved as a session. Approvals, messages, renames, deletions and MCP
tools load a session, change it and save it, each as a request of its own with
awaits in between. The traces and the task memory are locked, within a process
only; nothing else is. The browser sees all this through requests whose answers
come in any order and one stream of events.

### What is hard

* **Crashes.** Run state is several files written one after the other
  (`statusStore.ts:36-38`, `sessionMemory.ts:48-56`); a process that dies between
  two writes, or is started again under the same id, leaves mixtures.
* **Stale state.** The workspace is observed, then checks run, then an adapter
  acts, then it is observed again, while gates, adapters and people write files;
  sessions are loaded, worked on for a long time, and saved whole.
* **Order of rules.** The convergence policy is a chain of rules with counters
  that summarise earlier rounds.
* **Cancellation** races the completion of a background run.
* **Two descriptions of one thing**: the role graph and the task graph of a run,
  the assigned and the actual owner of a council node, the record and the artifact
  files of a session, the live state and the saved one.
* **Loops that must end**: convergence iterations, council passes, repairs.

### What makes each component correct

* *Convergence engine*: never says "converged" of something not accepted; what it
  shows in files agrees with itself after any crash; abort rules fire exactly when
  the recorded rounds say so; ends; ends with a verdict.
* *Sessions*: a load/save round trip loses nothing; the pointer names a session
  that exists; a reader sees a session or none.
* *Cockpit*: a cancelled run stays cancelled; a finished run's result is kept; an
  approval is executed once.
* *Executor*: nothing is done before its inputs; "accepted" means applied and
  verified; the run ends whatever the roles do.
* *Council*: the review judges what was really done, by whom it says; the run ends.
* *Budgets*: nobody exceeds a role budget; the pool is passed by one batch at most.
* *Patches*: all or nothing; undo restores what was there; the record says which
  files hold a patch.
* *Learning stores*: no lost update within a process; what was acknowledged is there.
* *Web client*: never busy for nothing, Stop means the run it watches, an end is seen.
* *External agents*: one child process per agent, none lost sight of; an invocation
  always comes back, and fails only for a cause.

## 2. Plan

1. `AcceptanceMatrix`, `ConvergenceEngine`, `ConvergenceProperties`, `RunVerdict` and
   their proofs. **Done.**
2. `CockpitRun` and its proofs. **Done.**
3. `ApprovalRules`, `CockpitSession`: sessions on disk, approvals, patches, undo,
   the MCP bridge, and their proofs. **Done.**
4. `TaskGraphRules`, `PatchWorkflow` and their proofs. **Done.**
5. `CouncilRun`, `BudgetGate`, `LearningStores`, `ExternalAgents` and their proofs. **Done.**
6. `CockpitClient` and its proofs (in `CockpitSafety`). **Done.**
7. Every safety property of the runs is a theorem; liveness stays with TLC. What is left
   to model is in section 12.

Each component has an MC module and one passing run (the engine two)
in which all its actions fire; a violation run is there only for a disagreement between code
and documentation.

## 3. The convergence engine

### Modules

| module | what it is | code |
|---|---|---|
| `AcceptanceMatrix` | gates, conditions, confidence, blockers, the policy: operators only | `gates.ts`, `evaluator.ts`, `controller.ts:251-332` |
| `ConvergenceEngine` | the run as a state machine | `controller.ts:40-238`, `statusStore.ts`, `evidence.ts`, `diff.ts` |
| `ConvergenceProperties` | type invariant, invariants, action property, refinement, liveness | |
| `RunVerdict` | what the status of a run id promises | `docs/canopus_runtime.md`, `control status` |
| `MCConvergence` | instances | |
| `ConvergenceSafety` | proofs | |

A workspace is a function from a few files to versions (0: absent); two versions
are two hashes. A gate's verdict is free where it depends on a command, and a
function of the workspace, of what was observed and of earlier results where the
code computes it. Gate logs may fail to be written, which makes the gate fail
without evidence (`gates.ts:228`). Confidence is in percent and rounded as
`computeConfidence` does. `git status` names are modelled by what the parsing of
`diff.ts:116-130` does with them: an unstaged change of a tracked file keeps its
status letter and so escapes every path of the goal (`Unstaged`).

Every action of `ConvergenceEngine` is the code from one await to the next:

| action | code |
|---|---|
| `Start` | `run` to the first `writeStatus`; the baseline may fail |
| `AppendTrace`, `WriteLatest`, `WriteProgress` | the three writes of `writeStatus`; the last one also takes the loop's branch |
| `PreObserve`, `PostObserve` | `observeWorkspace` |
| `PreAccept`, `PostAccept` | an acceptance pass and what the controller does with it until the next await; gate commands may write `GateFiles` |
| `Act` | the adapter; may write `AdapterFiles` |
| `WriteEvidence` | one `writeEvidenceJson` |
| `Crash` | the process dies, or an error rejects `run`; an append, a gate or the adapter may be cut half-way |
| `UserEdit` | somebody else edits `UserFiles` |

### Properties

* `TypeOK`: types, and the bounds on iterations and adapter calls (proved; no run
  repeats it, here and below).
* `ConvergedIsAccepted`: no status anybody can read says "converged" unless checks
  passed with evidence, conditions are met, nothing blocks, and the observed
  changes are within the constraints.
* `PolicyFollowsLedger`: the abort reason in each ledger line is recomputed from the
  lines before it, without the counters of the code.
* `FinishedRunHasVerdict`: a run that ended shows a final phase (proved; no run repeats
  it).
* `DeniedNeverConverges`: at the moment a run converges the adapter's changes in the
  workspace itself, not what was observed, leave denied files alone.
* `VerdictIsLogged`: a verdict shown in one of the two status files is a whole line
  of the ledger.
* `EvidenceMatchesLatest`: the evidence of the iteration status.latest.json shows was
  all written by the same attempt for the same verdict.
* `ActsOnlyOnCurrentState`: the adapter is called only when all three files show the
  current attempt, open, one iteration back, with each earlier round logged once.
* `ShowsBoundedRun`: what status.latest.json shows implements `RunVerdict`.
* `AttemptsEnd`: an attempt that starts ends.

### Runs

* `convergence_policy` (`MCConvergencePolicy.cfg`): three iterations, a command gate
  followed by a regression gate, an advisory gate, a `gate` and a `diff_required`
  condition, all rules on (repeated failures 2, no progress 1), an adapter that
  may write an allowed and a denied file and may report an exhausted budget.
  Three rounds are the least in which a counter can rise, reset and rise again. A run
  without a baseline, the names of `git status --porcelain` and a policy without
  `no_unresolved_blockers` are not exercised here.
* `convergence_restart` (`MCConvergenceRestart.cfg`): two attempts of two iterations
  under one id, crashes at every await, the baseline there or not, a gate and a
  user that write the denied file. Two attempts are enough for one to overwrite
  or be glued to what another left.
* `denied_in_ignored_directory` (violation): see the findings in `PROJECT.json`.

`CHECK_DEADLOCK FALSE`: a run that has ended, and may not be started again within
`MaxAttempts`, stops.

Bounds: `MaxAttempts` (how often one id is started) is the only bound that is not
in the code; `MaxIterations` is the policy's own. Files, versions, gates and
conditions are small sets; the properties tell apart only whether a set of
changed files is empty, allowed, or denied, and whether a gate is required,
passed and left evidence.

### Fairness

`FairSpec` is weak fairness of `Step`, every await of a live attempt: file
operations return, gate commands and shell adapters are killed at their timeout
(`shellTool.ts:43-64`). Adapters that call models rely on their provider's timeouts;
the engine has none of its own, so `AttemptsEnd` is about adapters that return;
one that hangs hangs the attempt, and no property shows that.
`Crash`, `UserEdit` and `Start` are not fair. Safety needs no fairness, and the
theorems are about `Spec`.

### Proofs

All theorems hold for every value of the constants that satisfies the named
assumptions `GoalAssumption`, `GatesAssumption`, `PolicyAssumption` and
`EngineAssumption`, that is for any set of files, list of gates and conditions,
policy and number of attempts.

About verdicts and rounds:

* `TypeCorrect`: `Spec => []TypeOK`. `TypeOK` is not inductive: that the number of
  adapter calls stays below the bound needs to know where in an iteration the process
  is. `TypeInv` adds `LoopInv`, which ties `acts` and `iteration` to `pc` and to the
  pending status.
* `ConvergedMeansAccepted`: for a policy that stops on all blocking checks, all conditions
  and no blockers (`StrictStop`; `defaultLoopSpec` is one). The invariant says that a
  pending status is accepted too, from the moment it is decided until it is on disk.
* `ShowsRunVerdict` and `EndedRunHasVerdict`: the invariant relates status.latest.json to
  the pending status and the iteration at each `pc` (`RoundInv`), and the decision of the
  last round to the bound (`LastRoundInv`). `EndedRunHasVerdict` assumes
  `AbortMaxIterations`: with that rule off, a policy the schema allows, the loop runs out
  with "evaluating, continue" as its last word.

About the run directory, on top of them, with `UndecidedInv` (an iteration not decided yet
still shows the status before it) and two facts about every step: the ledger keeps its
whole lines, and grows by the pending status only (`LinesInv`: what a crash cuts off is
no line, and the line it garbles is the first of the next attempt):

* `VerdictLogged`: whatever is to be written to the two status files has its line before.
* `EvidenceCorrect` (`EvidenceInv`): each file of the iteration is written by this attempt
  or still queued while the evidence is being written; only then is the status persisted.
* `ActsCurrent` (`RoundsInv`): each earlier iteration of the live attempt has exactly one
  line after an action, and no line is ahead of the loop. That gives the action
  property: an adapter call is a step from a state in which the three files agree.
* `PolicyMatchesLedger` (`CountInv`): the two counters in memory are what the lines of
  the attempt give when they are counted backwards, except between a decision and its
  line, when they are one ahead. The lemmas say what one more line does to each count.
* `DeniedFilesKept` assumes `Watched`: the run has a baseline, and no denied file lies in
  a directory the snapshot ignores. Without either the property is false: the first is
  `controller.ts:47`, where an error is swallowed, the second the finding above. The
  invariant says that no round begins with such a file changed: the round that changes
  one observes it after the action and aborts before the policy is asked.

Of the engine only `AttemptsEnd` is model-checked and not proved: liveness is out of the
prover's reach.

### Left out of the engine

YAML parsing and schema checks; renames and untracked directories in `git status`;
two processes with the same run id at once; the text of reports; what an adapter
does beyond the files it writes and the result it returns.

## 4. A run of the local cockpit

`POST /api/runs` answers 202 and leaves three things behind in the server: an
executor (the agent graph or the council) that calls `onEvent`, a continuation
`.then(...).catch(...)` that saves its outcome, and a snapshot in the event bus.
Cancel requests and messages to the session come at any time. Everything runs in
one Node process, so what happens between two awaits is atomic and nothing else
is. The model has one such run; the handlers of two runs share only the limit on
snapshots, which `DropSnapshot` stands for.

### Modules

| module | what it is | code |
|---|---|---|
| `CockpitRun` | the run, its continuation, the requests and the event bus; its properties | `server.ts:235-351`, `424-444`, `551-712`, `eventBus.ts`, `sessionMemory.ts:32-58`, `sessionContinuation.ts` |
| `MCCockpit` | instances | |
| `CockpitSafety` | proofs | |

| variable | code |
|---|---|
| `run`, `straggling`, `outcome` | the executor's promise; coders of a parallel batch that outlive it; the result it resolves with |
| `live` | `liveState` |
| `snapshot`, `cancelled` | `eventBus.snapshots` and `canceledSessions`, for this session |
| `record` | `.tomorrowedge/sessions/<id>/session.json` |
| `pc`, `local` | where the continuation and each request wait, and the state they hold |
| `events`, `lapsed` | a bound, and a history variable: has a cancellation ever expired |

| action | code |
|---|---|
| `LiveEvent`, `Summarize` | `onEvent`, for an ordinary event and for the summary event |
| `CoderBlocks`, `StragglerEnds` | a `WorkflowBlockedError` out of `Promise.all` (`executor.ts:931`), and the end of the other coder |
| `Resolve`, `Reject` | the promise settles |
| `Then`, `Catch`, `ShowFailure` | the continuation: both looks at the flag, and the snapshot that is set whether or not the failed state could be saved |
| `WriteRecord`, `SaveReturns`, `SaveThrows` | `saveSession`: the record, then the rest of it and what the caller does when it returns, or an error before or after the record |
| `Cancel`, `LoadToCancel` | `cancelCockpitRun` with a snapshot, and without one |
| `LoadToAppend`, `ConfigRead`, `ConfigThrows` | a message: load, the configuration that is awaited in between, append; the configuration a cancel awaits |
| `DropSnapshot`, `LapseCancellation` | `prune` and `enforceSnapshotLimit` |

A state of the agent graph is its result and the turns recorded in it: the
handlers tell nothing else apart. Expiry is abstracted from the clock: a snapshot
may go at any time (any snapshot may be the stalest of two hundred) and a flag may
go as soon as it is up. Properties that depend on the ten minutes of the flag say
so through `cancelled` and `lapsed`.

### Properties

* `TypeOK`: types.
* `CancelHolds`: once a cancellation has been answered, and the continuation had not
  looked at the flag before, the session is aborted on disk and shown as over for
  as long as the flag lives.
* `VerdictIsTheRuns`: a session on disk claims a result other than aborted or failed
  only if the executor resolved with that result. A summary announced by an event
  does not count.
* `OutcomeIsKept`: without cancellations, the outcome of a run shown as done is on
  disk, also after messages that load and save the session.
* `DoneIsSaved`: whoever sees a done snapshot without an error finds a session.
* `DoneStaysDone`: a done snapshot is replaced by one that is not only by a straggler
  or after the flag has lapsed. (`POST /api/approvals` also shows its session as
  going on, `server.ts:365`; approvals are in section 5.)
* `SettledRunIsShown`: a run that settles is shown as done, even if nothing can be
  saved, unless somebody asks to cancel it.

A statement of the documentation does not hold and has a run and a finding in
`PROJECT.json`: `CanceledIsAborted`. `CancelHolds` is what is left of it, with the
exceptions named.

### Runs

* `cockpit_run` (`MCCockpitRun.cfg`): two cancel requests, one message, one ordinary
  event besides the summary. Two cancels are the least in which one request is
  answered while another holds an older state; one event is enough for an event to
  come before, between and after any of the other steps. `CHECK_DEADLOCK FALSE`: once
  all requests are answered and everything is forgotten nothing is left to do.
* `cancel_overwritten` (violation): one cancel is enough.

### Fairness

`FairSpec` is weak fairness of the continuation (`Complete`) and of each request that
has arrived (`Serve`): promises of the file system settle, one way or the other. The
executor is not fair, it may never end; nothing forces requests to arrive,
snapshots to be dropped or flags to lapse.

### Proofs

`CockpitSafety` proves `TypeOK`, `VerdictIsTheRuns`, `DoneIsSaved`, `CancelHolds`,
`OutcomeIsKept` and `DoneStaysDone` for any sets of requests, any results and any
number of events, from `CockpitAssumption` (requests are distinct from each other and
from the continuation; "no snapshot" is no snapshot). The argument has three parts.

* `HonestInv`: the record, and every state a continuation or a request is about to
  save, has a result, and it is aborted, failed, or what the executor resolved with.
  This is `VerdictIsTheRuns` made inductive: any state in somebody's hands may reach
  the disk.
* `Written`: whoever has got past the write of the record finds a record, and no
  record ever goes away. A done snapshot without an error is set only by a save that
  returned, so with `HonestInv` this gives `DoneIsSaved`.
* `RunInv` splits a behaviour by what the continuation holds. `EarlyInv`: it has not
  looked at the flag, or was dropped by it, so only cancel requests, and messages
  that loaded what those wrote, have saved anything, and all copies say "aborted".
  `LateInv`: it took the outcome, and then all copies agree on the outcome, and a
  cancel request can go on only if the outcome is "aborted". Neither holds once the
  flag has lapsed. `Unflagged` says that before the first cancel the live state is
  what is shown and nothing is on disk, `Closed` that an answered cancellation leaves
  the snapshot done. `CancelHolds` follows from `EarlyInv` and `Closed`, `OutcomeIsKept`
  from `LateInv`.

`SettledRunIsShown` is liveness and stays with TLC.

## 5. Sessions, approvals, patches and the MCP bridge

### Modules

| module | what it is | code |
|---|---|---|
| `ApprovalRules` | what waits for approval, whether an intent is valid, what an approval changes: operators only | `approvalExecutor.ts`, `viewModel.ts`, `sessionContinuation.ts`, the tools of `bridge.ts` |
| `CockpitSession` | requests that load, change and save sessions, in their steps; its properties | `server.ts:197-258`, `353-372`, `sessionMemory.ts`, `patchApplier.ts`, `undoManager.ts`, `bridge.ts` |
| `MCSession` | an instance | |
| `SessionSafety` | proofs | |

`record`, `dir`, `store` and `pointer` are session.json, the directory, the artifact
files and the pointer to the latest session; `files` and `undo` the workspace and its
snapshots; `req` what each request holds and the await it is at. A record may be
torn: `saveSession` opens and fills session.json in two steps, and a crash, a reader or
an error may come in between. A save writes the record, events and artifacts, then the
pointer. `resolveRuntimeConfig` (`server.ts:363`) and `appendLearnedTaskMemory` are awaits
that change nothing here and may throw. A rollback restores one file per step and stops
at the first that throws. A record holds names of artifacts; the copy a request loads has
placeholders for their content, which the next save writes over the files unless
it comes from the bridge.

| action | code |
|---|---|
| `Load` | `loadRequiredSession` and what the request computes from it up to the next await |
| `Step` | one await of a save, a patch, a rollback, an undo, a rename or a deletion |
| `Throw` | what a request awaits throws, before it does anything or part-way: the configuration, a write, a removal; the request answers 500 |
| `Crash` | the server dies; every request in progress is lost |

Writes of a patch may fail at any time (`WriteFails`), within no bound. Reads throw where
the code reads the configuration or the files to be patched, and where a record does not
parse; a file that is there is otherwise read.

### Properties

* `AnsweredStaysRecorded`: the artifact of an answered request stays in the record,
  unless another request worked on the session at the same time.
* `SessionsListable`: `listSessions`, which throws for all when one record is bad, works
  once the requests are over, unless two met on the bad session or one was cut short in
  the middle of a save or a removal there.
* `AppliedOncePerApproval`: a session applies a candidate once until an undo restores a
  file of it, unless requests met, a crash came, or an approval of that session threw
  between its patch and its record.
* `FailedPatchLeavesNoTrace`: after a failed patch every file but the one whose write
  failed is as the patch found it; when the rollback throws, every one it had restored.
* `ChangedFilesHoldThePatch`: between requests the files the records list as changed are
  those that hold a patch, as long as one session edits files and no hunk goes on top of
  another, unless requests met, a crash came, a rollback threw, or a request threw
  between its edit and its record.
* `CompletedIsVerified`: a session says "completed" after a passing run or a
  continuation message.
* `BridgeKeepsArtifacts`: only saves of the cockpit replace the content of artifacts.

The exceptions in them are what the code does:

* Of two overlapping requests on one session the one saved first loses its change;
  two approvals with one id are both executed, against
  `docs/LOCAL_COCKPIT_API.md:98-100`, and a created file takes its hunk twice. Two
  saves that overlap can leave a torn record.
* A deletion that meets an unreadable record of another session answers 500 with the
  pointer left on the deleted session.
* The write that fails half-way is not rolled back. A rollback that throws leaves the
  files before it with their hunks, and the session records only that the patch failed.
* An approval applies its patch, then resolves the configuration, then saves. When one of
  the last two throws, the patched files are in no record and the approval is still
  active: approved again, a hunk that creates a file is applied twice, any other fails.
* A save or a removal that throws in the middle of session.json leaves half a record, one
  that throws after making the directory none, and every listing throws from then on.
  Which requests these are is kept in `history` (`unrecorded`, `unrestored`, `cut`), so
  that the properties except them and no others.
* An undo restores the newest snapshot of the workspace, whichever session made it,
  and keeps the snapshot: the other session goes on listing a file that holds nothing
  of it, and a second undo restores the same file again. A snapshot taken when a hunk
  went on top of a created file restores the first hunk, which the record no longer
  lists. A created file is left empty. Requests on different sessions meet when both
  are about files (`FileActions`).
* A message closes a pending approval, against `docs/LOCAL_COCKPIT_API.md:85-86`; a
  repair approved in the cockpit can never be verified by a shell approval, since
  the session has runs already.

### Runs and bounds

`cockpit_session` (`MCSession.cfg`): three requests of every kind on two sessions.
`MaxInFlight = 2` requests at a time, `MaxDisturbed = 2` requests in a behaviour in
which requests met or a fault happened, `MaxFaults = 1`. Two requests are the least
that overlap; a third, in order, is needed for sequences such as approve, undo, undo.

The fault may be a crash or a request that throws at any await, the rollback of a failed
patch among them, and a request in order shows what it leaves for the next. That a
rollback over more than one file restores each is not seen with patches of two files;
`FailedPatchUndone` proves it for any number.

Requests and sessions are interchangeable (`SYMMETRY`; no liveness is checked).
`CHECK_DEADLOCK FALSE`: requests end.

### Proofs

`SessionSafety` proves the seven properties of the runs and `TypeOK` for any sessions,
candidates, requests and bounds. `StoreAssumption` says that the files are finitely many
and that what stands for no record is none; `StartAssumption` that a run which calls its
session completed has verified it, and that a workflow of the bridge starts without
changes. The first lemmas say what each rule of `ApprovalRules` keeps of a session
(`Extends`); the next reduce the steps to four shapes, a request that begins (`Begun`),
works on files (`Worked`) or saves (`SavedOn`), throwing or not, and a crash (`NextCases`). The invariant has
eleven parts, each proved over those shapes:

* `PhaseInv`, `TodoInv`: what a request holds at each of its awaits, and which files of
  its patch are left to write.
* `AloneInv`: a request that met no other is the only one on its session and, if it is
  about files, on the files. On it rest `SavedInv`, the record on disk is the copy of
  such a request, or torn while it writes it, and `WriteInv`, the files are what the
  request found but for those it has written.
* `RecordedInv` gives `AnsweredStaysRecorded`: the artifact is also in the copy of whoever
  works on the session later. `ListInv` gives `SessionsListable`, `VerifiedInv`
  `CompletedIsVerified`, both for the copies as well as the records.
* `AppliedInv`: the files of an applied candidate are among the changes of its session,
  and a repair among its approvals, so that neither waits for approval again.
* `FilesInv`: the changes of the one session that edits files are the files that hold a
  patch; a session whose patch is being written lists what it found; snapshots hold
  contents without a patch. It rests on `WriteInv` for the moment the patch ends or
  fails.

Four properties had to be corrected to be proved. They had held within the bounds only:
with more files, sessions or requests a candidate of another session counted as a
second application, two patches on different sessions met unnoticed, and undos
restored what the exceptions above say.

## 6. The patch workflow of the executor

### Modules

`TaskGraphRules` has the graphs: which roles and tasks a run has, what is ready, what
one result does to both (`roleGraph.ts`, `roleGraphScheduler.ts`, `taskGraphBuilder.ts`,
`taskGraphScheduler.ts`). `PatchWorkflow` is the run (`executor.ts`): plan, explore, coders
in a batch or one live call, review, judgment, gates, patch, verification with
repairs, summary, acceptance. `MCWorkflow` has the scenarios.

An action is the code between awaits that matter. Only the two coders of a parallel
batch interleave; one that outlives the failure of the other goes on writing. The
contract's tool gates, the permissions, the repair policy and the number of commands
vary with the scenario. The output of a command is its verdict and a failure signature.

### Properties

* `TaskNeedsInputs`: no task is done before its inputs are done or skipped, though two
  graphs with their own statuses are moved by one result.
* `DivergenceExplained`: the scheduler gives up on "scheduler/TaskGraph diverged" only
  after a limit or the contract cut a phase short, or when a live run left coder_a
  without a candidate.
* `AcceptedIsVerified`: an accepted task has an applied patch, a run, and nothing that
  failed.
* `RunEnds`: every run returns or rejects.

What the model shows besides: a repaired run is always rejected at acceptance, even
when the repair verifies; a live run in which only coder_a proposed still starts the
native coder_b in the next round (`executor.ts:924`, against `CHANGELOG.md:444`), one in which
only coder_b did ends as a divergence; a limit or a contract that stops the
verification before its first command ends the run as a divergence too; a fallback
summary written after a summarizer failed is overwritten by "aborted".

### Run and bounds

`patch_workflow` (`MCWorkflow.cfg`): every graph shape, live and native, with one command;
every combination of patch, shell and repair permissions with two; dry runs and
contracts without tools with none or one. Two commands are the least for one to pass
and another to fail, two repairs (`MaxRepairs`) and three shell runs the least for a
limit to cut a sequence; two signatures tell "the same failure again" from another.
`Spec` has weak fairness of `Next`: every await has a timeout. `CHECK_DEADLOCK FALSE`: runs end.

### Proofs

`WorkflowSafety` proves the three invariants for any set of scenarios, number of
commands, limit on repairs and signatures, from `WorkflowAssumption` (types). Half of it is about the operators of
`TaskGraphRules`, where one result goes through the role graph, its promotion, the tasks
that take it and the tasks completed unattended.

* `TasksHadInputs`: `GraphInv` is the types of the graphs, the property, that a task is
  settled only if its role node has ended (`Sound`), and that the node a phase works on
  has not (`BusyOpen`). What has to be shown is that
  no settled task is ever opened again: a result reaches only a node that is open
  (`NodeForOpen`), and `Flush` completes only what was pending.
* `AcceptanceVerified`: `EndInv`. A summary that says "completed" has a patch and a run
  behind it, or the loop is about to block the workflow (`Behind`); a coder that outlives
  its batch belongs to a run that cannot be accepted (`Orphans`). The reason why acceptance
  may look at `verify` and the summary at `applied` is that phases only add to both.
* `DivergenceHasCause`: `StepInv`. Unless a limit or the contract cut a phase short, the
  two graphs keep step: a task is pending until the role node that acts for it ends,
  and ends as it does (`Together`), except for the roles at work (`Engaged`) and for
  coder_a of a live run that got no candidate (`Unanswered`). When the scheduler looks
  nobody is at work, and planning and exploration are over (`Led`), so the tasks of a
  ready role have their inputs and one of them is ready too. `BeforeLoop` is the same
  for the planner and the explorer.

Of this part only `RunEnds` stays with TLC.

## 7. The council

`CouncilRun` models `councilRuntime.ts`: owners, scheduler passes, attempts under the
budget gate, fallback owners, the simulated failure with its mutation and retry,
blocked dependants, the native final review. A run is sequential; an action is the
code between two awaits or one decision of a loop. `latest` keeps of the delegated
results the last one per node, which is what the review reads.

* `ReviewIsHonest`: the review comes when nothing is pending and approves exactly the
  runs whose nodes are all done.
* `OwnerDidTheWork`: a node that is done was done by the owner it names, until a
  mutation assigns the owners of finished nodes again.
* `RunEnds`. The error of the pass limit counts as an end: the property says that the
  loop stops, not that the review was made.

A budget refusal leaves its node pending, so every pass asks again, until the pass
limit throws and the review and all evidence are lost. The default cap of three
strong calls equals the graph's three strong nodes: one failed attempt of the planner or
the reviewer is enough. The fallback owners are taken from the agents other than the
assigned owner, so passes alternate between them and never return to it.

`council_run` (`MCCouncil.cfg`): the chain of five nodes the code always builds, three
agents, 198 settings of proposals, commands, budgets, simulated failures.
`PassesPerNode = 2` (8 in the code): the longest run that ends by itself needs 7 of the
10 passes. Fairness `WF_vars(Next)`: external commands have timeouts.

`CouncilSafety` proves `TypeOK`, `OwnerDidTheWork` and `ReviewIsHonest` for every acyclic graph,
set of agents and settings (`CouncilAssumption`). The invariant ties the current node
to `pc`, and the last result of each node to its status; that the loop leaves nothing
pending follows from acyclicity (`NothingStuck`: some pending node depends on no
pending one, so it is ready or doomed). `RunEnds` is liveness and stays with
TLC.

## 8. The budget gate

`BudgetGate` models `budgetGate.ts` and the invocations of an executor run in order, by
stage: each asks for its roles, and commits or gives back its calls later. The
invocations of one stage ask in the same tick before any of them is answered, and
the gate reads committed calls only: reservations are recorded and never read.

* `OvershootIsOneBatch`: the pool is passed by less than the calls of one stage.
* `RoleBudgetHolds`: no role exceeds a budget of its own.

So `max_calls_per_task` is not a bound on the calls of a task: with the default of 3 a
live patch may end at 4 and a live advisory at 6, while `CHANGELOG.md:944-945` says that
role budgets debit the global pool "preventing reviewer/judge/planner calls from
bypassing the task budget". `SequentialKeepsCap` proves that batches are the only reason.

`budget_gate` (`MCBudget.cfg`): pools of 0 to 5, four kinds of role budgets, reserved and
costly roles, four sets of external agents, every work plan. Five is one more than
a stage can ask for. `CHECK_DEADLOCK FALSE`: runs end.

`BudgetSafety` proves `TypeOK`, `OvershootIsOneBatch`, `RoleBudgetHolds` and `SequentialKeepsCap` for
every setting that satisfies `SettingsAssumption`. `PoolInv` counts what is committed and
what is held against the pool before the stage; `Apart` says that no role is in two
open invocations, on which both rest.

## 9. The learning stores

`LearningStores` models the three files the runs of a project share: traces, task
memory, policy scores. The first two are rewritten under `withFileLock` (a chain of
promises in a map of one process) and replaced by a rename; the scores are rewritten
in place, without a lock. A job is a request or a command with the saves it makes;
an action is the code from one await of the file system to the next (`Begin`, `Read`,
`Write`, `Return`; `Truncate`, `Fill` for the scores; `Fail`; `Crash` of a process).
Tickets stand for places in the promise chain. A file that cannot be read counts as
empty in the code, and the next save makes that permanent.

A read of the memory keeps the last 10000 rows (`taskMemory.ts:808`) and the save after it
writes no others, for good. The model has the rows as a set, each with the saves it counts,
and a read of too many (`Newest`) may leave any of them out: which are the last depends on
times taken before the lock, by which a compaction sorts.

* `UpdatesAreAtomic`: a locked file changes only by an update of what a read of it gives at
  that moment, unless another process wrote since or a read failed.
* `AcknowledgedIsStored`: a trace whose save returned is there or pushed out by newer
  ones. A lesson whose save returned is counted in a row of its failure, unless as many
  saves of other rows were made as a read keeps (`Rivals`): merging known failures does
  not bring the limit nearer, however often they recur.
* `ScoresKeptWhenAlone`: a saved score is lost only when two saves overlapped, one was
  cut short or a read failed. The overlaps in which the code does lose one are excused, so
  this is a property of saves that come one after the other.
* `SavesEnd`: a job that has begun ends, whatever fails and whoever dies.

`learning_stores` (`MCLearning.cfg`): eight teams of three jobs of two processes, limits of
two traces, two scores and one lesson, so that three saves pass each. Three jobs are the least for one to wait behind another
that waits; each process may die once. Fairness: each begun job's steps. `CHECK_DEADLOCK FALSE`: jobs end.

`StoresSafety` proves the three safety properties, `TypeOK` and that the lock excludes
(`OneHolder`) for any limits, processes and finitely many jobs. The invariant describes the line at a lock: tickets are distinct and without
gaps, the tail is the last one, the holder comes first; so the copy of a holder is what
a read of the file gives (`CopyInv`), unless excused. What was answered as saved stays by three
more invariants. `RowsInv`: a trace and a policy have one row at most and no file more
rows than its limit, so that adding a row keeps the others or leaves a full file
(`AddTraceSpec`, `ScoredSpec`). `TraceInv` and `LessonInv` are about what is stored, which
may not be answered yet. The rows of the memory count saves that were made, a failure
has one row, and no save is in two; so a read that leaves a row out keeps `MaxMemory`
others, from each of which a rival can be picked, all different (`ReadFinds`). `ScoreInv` follows a score, without a lock, through the copies of the
saves nobody overtook and the moment in which the file is empty. `SavesEnd` is liveness
and stays with TLC.

## 10. The web client

`CockpitClient` is one browser tab (`cockpit-web/src/main.tsx`) in front of the server.
A handler is atomic up to its next await; its request is served, then answered;
answers come late, in any order, or fail, also after the request was served. What only
reads is read when its answer arrives. `ops` are the handlers that wait (two alike
are one with a `twin`), `source` and `timer` the live stream with the messages on their
way, and its reconnection. The server is what the tab can tell of it: a run per
session, its last snapshot, the sessions on disk.

| action | code |
|---|---|
| `Run`, `Continue`, `Approve`, `Stop`, `SelectSession`, `NewTask`, `RenameOrDelete`, `Refresh` | the handlers up to their first await, with the guards of `busy` and of the components |
| `EffectRunsAgain` | the effect that depends on `refresh`: the language or the setup dialog changed |
| `StartRun` ... `DeleteSession` | the server does what a request asks for |
| `Started`, `Recorded`, `Listed`, `Approved`, `GoToNext`, `Loaded`, `Failed` | the rest of the handlers |
| `Open`, `DeliverLive`, `DeliverDone`, `Break`, `Reconnect` | the stream: `sendLiveEvents`, its listeners, `onerror`, the timer |
| `RunEvent`, `EndRun`, `DropSnapshot`, `RestartServer` | runs, expiry, a server that dies with its runs |

* `BusyHasReason`: the tab is busy only while something is on its way that will free
  it, or after the user turned away from a run.
* `StopNamesTheRun`: if no answer was awaited when a run began to stream, Stop names it
  from its first message on, whatever else is pressed.
* `EndIsSeen`: the end of a watched run frees the tab if the server still knows of it.

The exceptions in them are what the code does. Selecting a session, pressing New task
or changing the language closes the stream of a run, nothing opens it again, and
`busy` stays until Stop (the fallback page `html.ts` resets it). Stop cancels the session in
view, so before the first message of a run, or after a late answer, it names another
one (`docs/GUI_DESIGN_SYSTEM.md:43` calls it the stop action while running). A Stop over a
pending start ends with the run streaming and `busy` off. After a restart of the server
the stream says "ready" and nothing else, which keeps the tab busy until Stop.

`cockpit_client` (`MCClient.cfg`): one run and one old session, `MaxOps = 2` requests at once,
`MaxErrors = 1` break or restart. Two requests are the least whose answers cross, and two
sessions the least that can be confused. Messages equal to one on its way are
dropped. Fairness: requests are served and answered, streams deliver and timers fire;
nobody has to press anything, runs need not end. `CHECK_DEADLOCK FALSE`: a tab nobody uses
stops.

### Proofs

`CockpitSafety` extends both models of the cockpit, the run's and the tab's, which share
no variable (hence `TabInit`, `TabNext`, `TabSpec` here), and proves `TabTypes`
(`TabTypeOK`, which no run repeats), `BusyExplained` (`BusyHasReason`) and `StopHitsTheRun`
(`StopNamesTheRun`), for any runs, saved sessions, `MaxOps` and `MaxErrors`.
`ClientAssumption` says that `None` is no session and `MaxErrors` a natural number.

None of the properties is inductive. That Stop names the run needs to know that no answer
is on its way that could move another session into view, and so why none can have been
asked for. `TabInv` adds:

* `OneChange`: unless a Stop was pressed over a change, there is at most one change
  under way, never one with a cancel, and neither while a run streams; a change and
  a stream keep the tab busy. The buttons are what makes this true: each handler of
  a change begins with a tab that is not busy.
* `WatchedAlone`: a run that began with nothing awaited is watched with nothing awaited,
  and from its first message on it is the one in view.
* `OpsInv`, `SourceInv`: the session of a served start is a run, and there is a stream
  or a timer but not both.

The steps are first cut into eleven shapes (`TabShapes`: a button that begins a change, one that
asks for something, Stop, turning away, an answer that goes on, is dismissed or releases
the tab, a start, the end of a run, a message of the stream, a step elsewhere), and each part is
proved over the shapes. `EndIsSeen` is liveness and stays with TLC.

## 11. The external agents

`ExternalAgents` models the child processes of agents that speak JSON-RPC
(`externalAgentProcess.ts`) and the role invocations that share them through a pool
(`externalRoleInvoker.ts`), for the runs of one process. It follows one key of the pool,
that is one profile in one directory. Runs invoke the roles that are ready together,
wait for them, and empty the whole pool when they end (`executor.ts:1952`), be it with a
role of a batch still waiting (`executor.ts:931`).

`pool` is the client in the map, `held` says that a client has a child, `alive` that the
child's process exists: a child that was told to stop may go on for as long as it
likes, and its answers are still read. `ask` is the attempt a request is at and whether
the map of pending requests has it. Every attempt has an id of its own, so a late
answer finds nothing, changes nothing and has no action.

| action | code |
|---|---|
| `Invoke` (`Spawn`, `Reuse`, `Refuse`) | `getPooledExternalClient`, `start`; the profile may be refused by its diagnosis |
| `ListTools`, `Answer`, `Judge` | `invokeExternalRole` from one await to the next: tools, first prompt, second prompt, result or error |
| `Timeout`, `Rejected` | an attempt of `request` that failed: the next one, or the end; an invocation that fails discards the client of its key |
| `Exit` | the `exit` handler: the client stays in the pool, what is pending is rejected |
| `Finalize`, `Throw` | the end of a run, with the release of the pool, or without it for an error that is not a workflow block |

* `NoChildAstray`: a child nobody told to stop is the one of the client in the pool, and
  is there only while some run works or has been left with such an error.
* `FailureHasCause`: while the agent does nothing wrong, an invocation fails only because
  another run has ended.
* `InvocationsEnd`: an invocation comes back from an agent that never answers and does
  not exit when it is told to.

The exceptions are what the code does. Two runs of the cockpit server share the pool, so
the first to end stops the agent of the other, whose invocation fails and blocks it. A
discard looks its key up again, so a late failure on an old client stops a newer one. A
run that throws leaves the child running, and the command line, which only sets
`process.exitCode`, waits for it. What `initialize` answers is not looked at.

`external_agents` (`MCExternal.cfg`): one run with a planner and then the two coders of a
batch, one with a single role; `MaxRetries = 1` as in the code; strict output. A batch and
two runs are the least for a start to be shared, for a client to be replaced while
another invocation waits on the old one, and for one run to end under another. The
module has no bound of its own. Fairness: timers that are set fire and continuations
that are ready run; agents and runs owe nothing. `CHECK_DEADLOCK FALSE`: nothing has to
happen once the invocations are over.

`ExternalSafety` proves both invariants for any runs, roles and retries.
`StartAssumption` says that the request that starts a client is no role.
`ChildrenAccountedFor`: `NoChildAstray` is inductive with the types of the variables it
names: whatever a request does it leaves the pool alone or discards its client, the
only one that can have a child, and only a run that works spawns one.
`FailuresHaveCause` needs to know who depends on whom (`CauseInv`): only an invocation that
goes on has requests, of a client that was made before it, and what was rejected was
asked of a client without a child; as long as the agent did nothing wrong, the client
in the pool has its child, and an invocation that goes on has a client with one or a
run that ended to blame (`ExcuseInv`). `InvocationsEnd` is liveness and stays with TLC.

## 12. Not modelled

`PROJECT.json` lists every component left out with the reason. The repository is
large, and most of it is not control: the prompts, the parsing and repair of answers,
the derivation of contracts from text, scores and rankings, HTTP clients of providers,
markup, reports, the records and labels of events, and the harnesses that evaluate the
system offline have no state that outlives a call. A model of them would restate data
transformations, so the share of lines the modules stand for stays well below a third,
and is not raised by widening what a definition claims. In particular:

* *Executor*: read-only and ask-user runs, the external core, vision, debate and live
  advisory phases (they appear in `BudgetGate` as stages), task graphs proposed by a model.
* *Cockpit*: two runs of one session, routing and headers of HTTP, the provider setup,
  the trace written after a shell approval.
* *Council*: the chief and council adapters, which change a source and a text; the
  replan graph, which is recorded and never executed.
* *Budgets*: `budgetLedger.ts` (display), the split of real and simulated calls.
* *Stores*: building, scoring and retrieval of traces and lessons.
* *External agents*: commands without `autoStart`, probes, normalisation of output, the
  framing of messages, a child that cannot be spawned or a pipe that breaks (the `error`
  events have no listener), several keys at once.
* *Engine*: see the end of section 3.
* Clocks: expiry and timeouts are steps that may come at any time.
