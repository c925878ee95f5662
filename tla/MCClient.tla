------------------------------- MODULE MCClient -------------------------------
(***************************************************************************)
(* Instances of CockpitClient.                                             *)
(***************************************************************************)
EXTENDS CockpitClient, TLC
==============================================================================
