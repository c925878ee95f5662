------------------------------ MODULE MCBudget ------------------------------
(* Runs with every pool of up to five calls, with and without budgets for   *)
(* single roles, played by models only, by external coders or by external   *)
(* agents throughout.                                                       *)
EXTENDS BudgetGate

MCExternals == {{}, {"coder_a", "coder_b", "repairer"},
                {"core", "coder_a", "reviewer", "judge"},
                {"planner", "coder_a", "coder_b", "reviewer", "judge"}}

MCRoleBudgets ==
  {[capped |-> {}, max |-> 0],
   [capped |-> {"planner", "reviewer"}, max |-> 1],
   [capped |-> {"coder_a", "judge"}, max |-> 1],
   [capped |-> Roles, max |-> 2]}

\* The plans and options of a run: read-only with its advisors, or a patch run.
MCWork ==
  [readOnly : {TRUE}, livePatch : {FALSE}, liveAdvisory : BOOLEAN,
   parallel : {TRUE}, coderB : {FALSE}, advisors : SUBSET {"reviewer", "judge"}]
  \cup
  {w \in [readOnly : {FALSE}, livePatch : BOOLEAN, liveAdvisory : BOOLEAN,
           parallel : BOOLEAN, coderB : BOOLEAN, advisors : {{}}] :
     w.coderB => w.parallel}

\* The roles whose call costs too much, those escalated into the pool, live vision.
MCGates ==
  {[costly |-> {}, reserved |-> {}, vision |-> FALSE],
   [costly |-> {}, reserved |-> {"coder_a", "coder_b", "vision"}, vision |-> TRUE],
   [costly |-> {"reviewer", "coder_b"}, reserved |-> {"coder_b"}, vision |-> TRUE]}

MCSettings ==
  {[maxCalls |-> n, capped |-> b.capped, roleMax |-> [r \in Roles |-> b.max],
    costly |-> g.costly, reserved |-> g.reserved, external |-> e,
    liveVision |-> g.vision, livePatch |-> w.livePatch, liveAdvisory |-> w.liveAdvisory,
    readOnly |-> w.readOnly, parallel |-> w.parallel, coderB |-> w.coderB,
    advisors |-> w.advisors, repairs |-> 2] :
     n \in 0 .. 5, b \in MCRoleBudgets, g \in MCGates, e \in MCExternals, w \in MCWork}
=============================================================================
