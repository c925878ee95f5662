------------------------------ MODULE MCExternal ------------------------------
(***************************************************************************)
(* Instances of ExternalAgents: two runs that overlap; the first has a     *)
(* planner and then the two coders of a batch, the second one role.        *)
(***************************************************************************)
EXTENDS ExternalAgents, TLC

CONSTANTS r1, r2, planner, coderA, coderB, reviewer

MCRunOf == planner :> r1 @@ coderA :> r1 @@ coderB :> r1 @@ reviewer :> r2
==============================================================================
