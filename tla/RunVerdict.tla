----------------------------- MODULE RunVerdict -----------------------------
(***************************************************************************)
(* What `tedge canopus status` promises about one run id: the run is open, *)
(* goes through at most MaxIterations rounds one at a time, and once it    *)
(* has a verdict keeps it, unless the same run id is started again.        *)
(***************************************************************************)
EXTENDS Naturals

CONSTANT MaxIterations

VARIABLES
  verdict,  \* "none" before the first status, "open", or the final phase
  rounds    \* iterations the status has recorded

verdictVars == <<verdict, rounds>>

Verdicts == {"converged", "aborted"}

VInit == verdict = "none" /\ rounds = 0

\* A run is started, or started again, under this id.
Open == verdict' = "open" /\ rounds' = 0

\* One more iteration is recorded; it may decide the run.
Advance ==
  /\ verdict = "open" /\ rounds < MaxIterations
  /\ rounds' = rounds + 1
  /\ verdict' \in Verdicts \cup {"open"}

VNext == Open \/ Advance

VSpec == VInit /\ [][VNext]_verdictVars
==============================================================================
