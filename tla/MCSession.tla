------------------------------ MODULE MCSession ------------------------------
(* An instance of CockpitSession: one patch of two files, one of them new,  *)
(* a repair of the first and a proposal that makes the second.              *)
EXTENDS CockpitSession, TLC

MCFilesOf == [main |-> {"src.ts", "NOTES.md"}, fix |-> {"src.ts"}, note |-> {"NOTES.md"}]

Fresh == [cands |-> <<"main">>, repair |-> NoCand, judge |-> "main", waiting |-> {"runner"},
          changed |-> {}, runs |-> <<>>, approved |-> {}, summary |-> "partially_completed",
          reReview |-> FALSE, plan |-> TRUE, command |-> TRUE, allowed |-> TRUE, refs |-> {Origin}]

AtShell == [Fresh EXCEPT !.changed = Files, !.approved = {"patch"}, !.command = FALSE]

AtRepair == [Fresh EXCEPT !.changed = Files, !.approved = {"patch", "shell"}, !.repair = "fix",
                          !.runs = <<"failed">>, !.summary = "failed"]

Proposal == [Fresh EXCEPT !.cands = <<"note">>, !.judge = NoCand, !.waiting = {}, !.summary = "none",
                          !.plan = FALSE, !.command = FALSE]

MCStartStates == {Fresh, AtShell, AtRepair, Proposal}

\* A workflow the bridge starts.
MCNewSession == [Proposal EXCEPT !.cands = <<>>, !.refs = {}]
MCMessages == Requests \union {Origin}
Symmetry == Permutations(Requests) \union Permutations(Sessions)
==============================================================================
