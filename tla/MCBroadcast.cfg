SPECIFICATION FairSpec
CONSTANTS
  Outputs <- MCOutputs
  Runs <- MCRuns
  MaxRestarts = 1
  MaxStreams = 1
INVARIANTS
  RunsDoNotOverlap
  QuietEnd
  NeverBypassed
PROPERTIES
  NoticeIsOwn
  DockSettles
  StartTakes
CHECK_DEADLOCK FALSE
