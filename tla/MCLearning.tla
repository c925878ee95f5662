----------------------------- MODULE MCLearning -----------------------------
(* Three jobs of two processes: runs of the server and of the command line  *)
(* that fail in the same way, approvals of them, and the memory commands.   *)
EXTENDS LearningStores, TLC

CONSTANTS a, b, c, server, cli

Job(kind, home, policy, lesson, learns) ==
  [kind |-> kind, home |-> home, policy |-> policy, lesson |-> lesson, learns |-> learns]

MCJobs == {a, b, c}
Teams(x, y, zs) == {a :> x @@ b :> y @@ c :> z : z \in zs}

RunHere == Job("cockpit", server, "p1", "wrong", TRUE)
ApprovalHere == Job("approval", server, "p1", "wrong", TRUE)
ForgottenThere == Job("forget", cli, "p1", "wrong", FALSE)

\* Three saves queue up in one process; a run meets a command that forgets what it
\* learns; the scores of three jobs; a run of the command line beside another save.
MCAssignments ==
  Teams(ApprovalHere, Job("approval", server, "p1", "flaky", TRUE),
        {ApprovalHere, Job("compact", server, "p1", "wrong", FALSE)})
  \cup Teams(ApprovalHere, Job("score", server, "p2", Success, FALSE),
             {ForgottenThere, Job("compact", cli, "p1", "wrong", FALSE)})
  \cup Teams(Job("score", server, "p1", Success, FALSE),
             Job("score", server, "p2", Success, FALSE),
             {Job("score", cli, "p3", Success, FALSE),
              Job("cockpit", server, "p1", Success, FALSE)})
  \cup Teams(Job("cli", cli, "p1", Success, TRUE), Job("score", server, "p3", Success, FALSE),
             {Job("forget", server, "p1", "wrong", FALSE)})
  \cup Teams(Job("cli", cli, "p1", "wrong", TRUE), ApprovalHere, {ForgottenThere})
=============================================================================
