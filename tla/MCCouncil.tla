----------------------------- MODULE MCCouncil ------------------------------
(* The task graph runAgentCouncil builds, and the settings TLC tries.       *)
EXTENDS CouncilRun

CONSTANTS chief, implementer, tester

MCNodes == {"architecture_plan", "rust_cli_structure", "test_plan", "risk_review",
            "final_review"}

MCDeps ==
  [n \in MCNodes |->
     CASE n = "architecture_plan" -> {}
       [] n = "rust_cli_structure" -> {"architecture_plan"}
       [] n = "test_plan" -> {"rust_cli_structure"}
       [] n = "risk_review" -> {"rust_cli_structure", "test_plan"}
       [] n = "final_review" -> {"risk_review"}]

MCAgents == {chief, implementer, tester}

\* The council proposes an owner for every node but the risk review.
Proposed ==
  [n \in MCNodes |->
     CASE n \in {"architecture_plan", "final_review"} -> chief
       [] n = "rust_cli_structure" -> implementer
       [] n = "test_plan" -> tester
       [] n = "risk_review" -> NoAgent]

StrongRoles == {"architecture_plan", "risk_review", "final_review"}

Default ==
  [proposed |-> Proposed,
   ranked |-> [n \in MCNodes |-> <<chief, implementer, tester>>],
   commands |-> {},
   strong |-> StrongRoles,
   costly |-> {},
   maxCalls |-> 3,
   simulateFailure |-> NoNode,
   maxMutations |-> 2]

\* Which external commands may fail, against how many strong calls there are.
Failures ==
  {[Default EXCEPT !.commands = c, !.maxCalls = m, !.simulateFailure = f] :
     c \in SUBSET MCAgents, m \in 2 .. 5, f \in {NoNode, "rust_cli_structure", "risk_review"}}

\* Few fallback owners, or none at all.
Rankings ==
  {[Default EXCEPT !.ranked = [n \in MCNodes |-> r], !.commands = c,
                   !.simulateFailure = f, !.maxMutations = m] :
     r \in {<<>>, <<tester>>, <<tester, chief>>}, c \in {{}, {implementer}, {chief, tester}},
     f \in MCNodes, m \in {0, 2}}

\* A strong call that costs too much, and a coder that needs a strong call.
Budgets ==
  {[Default EXCEPT !.costly = x, !.strong = StrongRoles \cup s, !.commands = {implementer},
                   !.simulateFailure = f] :
     x \in {{"risk_review", "final_review"}, StrongRoles}, s \in {{}, {"rust_cli_structure"}},
     f \in {NoNode, "rust_cli_structure", "final_review"}}

MCSettings == Failures \cup Rankings \cup Budgets
=============================================================================
