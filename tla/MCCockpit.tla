------------------------------ MODULE MCCockpit ------------------------------
(* Instances of a cockpit run for TLC. *)
EXTENDS CockpitRun, TLC

CONSTANTS c1, c2, m1, m2
==============================================================================
