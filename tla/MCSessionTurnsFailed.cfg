SPECIFICATION FairTurnsSpec
CONSTANTS
  Turn = {t1, t2}
  Cap = 2
  Size = {1}
  CutSize = 3
  DiskMayFail = TRUE
  ProcessMayDie = FALSE
  TornLine = TornLine
INVARIANT
  FailedCallsLeaveNoHistory
CHECK_DEADLOCK FALSE
