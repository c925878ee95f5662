-------------------------- MODULE AcceptanceMatrix --------------------------
(***************************************************************************)
(* The decision procedure of a Canopus run: what an acceptance pass over   *)
(* the workspace returns, which blockers it raises, and what the           *)
(* convergence policy does with them.  A pure module: no variables.        *)
(*                                                                         *)
(* A workspace is a function from files to versions.  Version 0 is a file  *)
(* that is not there; two versions stand for two contents with different   *)
(* hashes.  Gates and conditions are known by their position.              *)
(***************************************************************************)
EXTENDS Integers, FiniteSets, Sequences

CONSTANTS
  Files,             \* the files of the working directory
  Versions,          \* file contents the run tells apart; 0 is "absent"
  HardGates,         \* <<[kind, required, file], ...>>: the blocking checks
  SoftGates,         \* number of advisory checks
  Conditions,        \* <<[type, required, files, gate], ...>>
  EvidenceRequired,  \* evaluation.evidence_required
  JudgeFloor,        \* judge.min_confidence in percent; 0 for "hard_only"
  DeniedFiles,       \* files under goal.constraints.denied_paths
  AllowedFiles,      \* names under allowed_paths: all Names for "." or none
  MaxFilesChanged,   \* goal.constraints.max_files_changed, or Unlimited
  StopHardGates,     \* loop.stop_when.all_hard_gates_pass
  StopConditions,    \* loop.stop_when.all_required_conditions_met
  StopConfidence,    \* loop.stop_when.checker_confidence_above, in percent
  StopNoBlockers,    \* loop.stop_when.no_unresolved_blockers
  AbortMaxIterations,\* loop.abort_when.max_iterations_reached
  AbortNoProgress,   \* loop.abort_when.no_progress_rounds, 0 = never
  AbortRepeated,     \* loop.abort_when.repeated_failure_rounds, 0 = never
  AbortBudget,       \* loop.abort_when.budget_exhausted
  MaxIterations      \* min(loop.max_iterations, goal max_iterations)

Unlimited == -1
NoThreshold == -1

GateKinds ==
  {"command", "file_exists", "diff_required", "no_regression", "checker_agent"}
ConditionTypes ==
  {"gate", "file_exists", "diff_required", "no_regression",
   "no_denied_path_modified", "evidence_collected", "llm_review", "manual"}

HardIds == DOMAIN HardGates
SoftIds == 1..SoftGates
CondIds == DOMAIN Conditions
RequiredHard == {i \in HardIds : HardGates[i].required}

\* `git status --porcelain` begins the line of an unstaged change with a space;
\* gitChangedFiles trims it, so that only one letter is cut off and the file is
\* called "M path", which no path of the goal equals or is a prefix of.
Unstaged(f) == <<"M", f>>
Names == Files \cup {Unstaged(f) : f \in Files}

ASSUME GoalAssumption ==
  /\ 0 \in Versions
  /\ DeniedFiles \subseteq Files /\ AllowedFiles \subseteq Names
  /\ MaxFilesChanged \in Nat \cup {Unlimited}

ASSUME GatesAssumption ==
  /\ HardGates \in Seq([kind : GateKinds, required : BOOLEAN, file : Files])
  /\ SoftGates \in Nat
  /\ Conditions \in Seq([type : ConditionTypes, required : BOOLEAN,
                         files : SUBSET Files, gate : Nat])
  /\ EvidenceRequired \in BOOLEAN
  /\ JudgeFloor \in 0..100

ASSUME PolicyAssumption ==
  /\ {StopHardGates, StopConditions, StopNoBlockers, AbortMaxIterations,
      AbortBudget} \subseteq BOOLEAN
  /\ StopConfidence \in 0..100 \cup {NoThreshold}
  /\ AbortNoProgress \in Nat /\ AbortRepeated \in Nat
  /\ MaxIterations \in Nat \ {0}

------------------------------------------------------------------------------
(* Gates (gates.ts).  The result of a gate is whether it passed and whether  *)
(* it left an evidence file.                                                 *)

GateResult == [passed : BOOLEAN, evidence : BOOLEAN]
Present(tree, f) == tree[f] # 0

\* A gate whose command is refused or whose log cannot be written.
FailedGate == [passed |-> FALSE, evidence |-> FALSE]

FailedRequired(hard) == {i \in RequiredHard : ~hard[i].passed}

\* The verdicts gate i can reach.  before and after are the workspace as the
\* acceptance pass starts and ends: gates run one after another and a command
\* may write files a later file_exists check finds.  previous is the set of
\* required gates the last post-action pass left failing, {} or <<>> when none.
Verdicts(i, hard, observed, before, after, hasPrevious, previous) ==
  CASE HardGates[i].kind = "command" -> BOOLEAN
    [] HardGates[i].kind = "file_exists" ->
         {Present(before, HardGates[i].file), Present(after, HardGates[i].file)}
    [] HardGates[i].kind = "diff_required" -> {observed # {}}
    [] HardGates[i].kind = "no_regression" ->
         {hasPrevious =>
            Cardinality({j \in FailedRequired(hard) : j < i})
              <= Cardinality(previous)}
    [] HardGates[i].kind = "checker_agent" -> {TRUE}

\* Every outcome the blocking checks can have (evaluator.ts:19-32).
HardOutcomes(observed, before, after, hasPrevious, previous) ==
  {hard \in [HardIds -> GateResult] :
     \A i \in HardIds :
       \/ hard[i] = FailedGate
       \/ /\ hard[i].evidence
          /\ hard[i].passed \in
               Verdicts(i, hard, observed, before, after, hasPrevious, previous)}

\* An advisory check is a command or a stub that always passes; either way its
\* score is 1 or 0, and it fails when its log cannot be written.
SoftOutcomes == [SoftIds -> {r \in GateResult : r.passed => r.evidence}]

------------------------------------------------------------------------------
(* Success conditions and confidence (evaluator.ts).                         *)

Satisfied(c, hard, soft, observed, tree) ==
  CASE Conditions[c].type = "diff_required" ->
         \/ observed # {}
         \/ \E i \in HardIds : HardGates[i].kind = "diff_required" /\ hard[i].passed
    [] Conditions[c].type = "file_exists" ->
         /\ Conditions[c].files # {}
         /\ \A f \in Conditions[c].files : Present(tree, f)
    [] Conditions[c].type = "no_regression" ->
         \A i \in HardIds : HardGates[i].kind = "no_regression" => hard[i].passed
    [] Conditions[c].type = "no_denied_path_modified" ->
         observed \cap DeniedFiles = {}
    [] Conditions[c].type = "evidence_collected" ->
         IF EvidenceRequired
         THEN RequiredHard # {} /\ \A i \in RequiredHard : hard[i].evidence
         ELSE (\E i \in HardIds : hard[i].evidence) \/ (\E s \in SoftIds : soft[s].evidence)
    [] Conditions[c].type = "llm_review" -> \E s \in SoftIds : soft[s].passed
    [] Conditions[c].type = "manual" -> FALSE
    [] Conditions[c].type = "gate" ->
         IF Conditions[c].gate \in HardIds
         THEN hard[Conditions[c].gate].passed
         ELSE RequiredHard # {} /\ FailedRequired(hard) = {}

CheckerSatisfied(soft) ==
  SoftIds = {} \/ (\E s \in SoftIds : soft[s].passed) \/ JudgeFloor = 0

\* computeConfidence in percent: 60 for the blocking checks, 30 for the
\* conditions and up to 10 for the advisory average, rounded to the nearest.
Confidence(hardOk, condOk, soft) ==
  LET passed == Cardinality({s \in SoftIds : soft[s].passed})
  IN  (IF hardOk THEN 60 ELSE 0) + (IF condOk THEN 30 ELSE 0) +
      (IF ~CheckerSatisfied(soft) THEN 0
       ELSE IF SoftGates = 0 THEN 10
       ELSE (20 * passed + SoftGates) \div (2 * SoftGates))

\* EvaluationRunner.run: what the controller reads of an acceptance pass.
Evaluation(hard, soft, observed, tree) ==
  LET satisfied == {c \in CondIds : Satisfied(c, hard, soft, observed, tree)}
      missing   == {c \in CondIds : Conditions[c].required} \ satisfied
  IN [failed     |-> FailedRequired(hard),
      unproved   |-> IF EvidenceRequired
                     THEN {i \in RequiredHard : ~hard[i].evidence} ELSE {},
      satisfied  |-> satisfied,
      missing    |-> missing,
      advised    |-> \E s \in SoftIds : soft[s].passed,
      weak       |-> \/ HardIds = {}
                     \/ EvidenceRequired /\ \/ \E i \in HardIds : ~hard[i].evidence
                                            \/ \E s \in SoftIds : ~soft[s].evidence,
      confidence |-> Confidence(FailedRequired(hard) = {}, missing = {}, soft)]

\* The type of an evaluation.
Evaluations ==
  [failed : SUBSET HardIds, unproved : SUBSET HardIds,
   satisfied : SUBSET CondIds, missing : SUBSET CondIds,
   advised : BOOLEAN, weak : BOOLEAN, confidence : Int]

------------------------------------------------------------------------------
(* Blockers and the convergence policy (controller.ts).                      *)

BlockerKinds ==
  {"denied", "outside_allowed", "too_many", "hard_failed", "advisory_only",
   "budget", "weak"}

\* Mutant: denied_paths is not looked at.
CollectBlockersBlind(budgetSpent, observed, e) ==
  {b \in {"hard_failed", "budget", "weak"} :
     \/ b = "hard_failed" /\ e.failed # {}
     \/ b = "budget" /\ budgetSpent /\ AbortBudget
     \/ b = "weak" /\ e.weak}

CollectBlockers(budgetSpent, observed, e) ==
  {b \in BlockerKinds :
     \/ b = "denied" /\ observed \cap DeniedFiles # {}
     \/ b = "outside_allowed" /\ observed \ AllowedFiles # {}
     \/ b = "too_many" /\ MaxFilesChanged # Unlimited
                       /\ Cardinality(observed) > MaxFilesChanged
     \/ b = "hard_failed" /\ e.failed # {}
     \/ b = "advisory_only" /\ e.failed # {} /\ e.advised
     \/ b = "budget" /\ budgetSpent /\ AbortBudget
     \/ b = "weak" /\ e.weak}

Violations == {"denied", "outside_allowed", "too_many"}

ShouldConverge(e, blockers) ==
  /\ StopHardGates => e.failed = {}
  /\ StopConditions => e.missing = {}
  /\ e.unproved = {}
  /\ StopNoBlockers => blockers = {}
  /\ StopConfidence # NoThreshold => e.confidence >= StopConfidence

AbortReasons ==
  {"violation", "budget", "repeated_failure", "no_progress", "max_iterations"}
Reasons == {"initialized", "continue", "policy"} \cup AbortReasons

Decision(phase, reason) == [phase |-> phase, reason |-> reason]

\* decideAfterPostEvaluation: the first rule that applies decides.  rounds
\* holds the counters of updateDecisionState.
DecideAfterPostEvaluation(e, blockers, rounds, budgetSpent, iteration) ==
  IF blockers \cap Violations # {} THEN Decision("aborted", "violation")
  ELSE IF ShouldConverge(e, blockers) THEN Decision("converged", "policy")
  ELSE IF AbortBudget /\ budgetSpent THEN Decision("aborted", "budget")
  ELSE IF AbortRepeated > 0 /\ rounds.repeated >= AbortRepeated
       THEN Decision("aborted", "repeated_failure")
  ELSE IF AbortNoProgress > 0 /\ rounds.stale >= AbortNoProgress
       THEN Decision("aborted", "no_progress")
  ELSE IF AbortMaxIterations /\ iteration >= MaxIterations
       THEN Decision("aborted", "max_iterations")
  ELSE Decision("evaluating", "continue")
==============================================================================
