--------------------------- MODULE MCConvergence ----------------------------
(* Instances of the convergence engine for TLC. *)
EXTENDS ConvergenceProperties, TLC

CONSTANTS src, secret

\* A test command, a required artifact check that may be advisory, and a
\* regression check behind them.
MCHardGates ==
  <<[kind |-> "command", required |-> TRUE, file |-> src],
    [kind |-> "no_regression", required |-> TRUE, file |-> src]>>

MCConditions ==
  <<[type |-> "gate", required |-> TRUE, files |-> {}, gate |-> 1],
    [type |-> "diff_required", required |-> TRUE, files |-> {}, gate |-> 0]>>

\* One command and the condition bound to it, where what the gates say is not
\* the question.
MCOneGate == <<[kind |-> "command", required |-> TRUE, file |-> src]>>
MCOneCondition ==
  <<[type |-> "gate", required |-> TRUE, files |-> {}, gate |-> 1]>>

MCCommitted == [f \in Files |-> 1]
MCEverything == Names
MCUnlimited == Unlimited
MCNoThreshold == NoThreshold
MCResults == {[status |-> "success", budget |-> FALSE],
              [status |-> "failed", budget |-> TRUE]}
MCOneResult == {[status |-> "success", budget |-> FALSE]}
==============================================================================
