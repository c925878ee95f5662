----------------------------- MODULE MCWorkflow -----------------------------
(* Scenarios for TLC: every graph with all permissions, and the plain graph  *)
(* with every combination of permissions.                                    *)
EXTENDS PatchWorkflow

CONSTANTS s1, s2

Open ==
    [highRisk |-> FALSE, debate |-> FALSE, parallel |-> TRUE, live |-> FALSE,
     dryRun |-> FALSE, patchOk |-> TRUE, shellOk |-> TRUE, repairOk |-> TRUE,
     contractPatch |-> TRUE, contractShell |-> TRUE, repairOnFail |-> TRUE,
     commands |-> 2]

Shapes ==
    {[Open EXCEPT !.highRisk = h, !.debate = d, !.parallel = p, !.live = l,
             !.commands = 1] :
        h \in BOOLEAN, d \in BOOLEAN, p \in BOOLEAN, l \in BOOLEAN}

Permissions ==
    {[Open EXCEPT !.patchOk = a, !.shellOk = b, !.repairOk = c, !.repairOnFail = d] :
        a \in BOOLEAN, b \in BOOLEAN, c \in BOOLEAN, d \in BOOLEAN}

Contracts ==
    {[Open EXCEPT !.dryRun = a, !.contractPatch = b, !.contractShell = c, !.commands = n] :
        a \in BOOLEAN, b \in BOOLEAN, c \in BOOLEAN, n \in {0, 1}}

MCScenarios == Shapes \union Permissions \union Contracts
MCSignatures == {s1, s2}

=============================================================================
