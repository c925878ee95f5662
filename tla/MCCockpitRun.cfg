\* Two cancel requests and a message around one run.
CONSTANTS
  c1 = c1
  c2 = c2
  m1 = m1
  m2 = m2
  Nothing = Nothing
  Cancels = {c1, c2}
  Messages = {m1}
  RunResults = {"completed", "aborted"}
  MaxEvents = 1
SPECIFICATION FairSpec
INVARIANTS
  CancelHolds
  VerdictIsTheRuns
  OutcomeIsKept
  DoneIsSaved
PROPERTIES
  DoneStaysDone
  SettledRunIsShown
CHECK_DEADLOCK FALSE
