SPECIFICATION ScheduleSpec
CONSTANTS
  brief = brief
  digest = digest
  daily = daily
  interval = interval
  TaskId = {brief, digest}
  Payload = {daily, interval}
  Daily = {daily}
  RuntimeRef = {r1, r2}
  MaxFires = 1
  ScheduleCommand = {c1, c2}
  Torn = torn
  Asked <- AskedTasks
  StoreMayFail = TRUE
  EnvTasks <- TasksOfEnv
VIEW ScheduleView
SYMMETRY CommandSymmetry
INVARIANTS
  ScheduleTypeOK
  OnlyApprovedFires
  PendingPremiseHolds
  LaneMatchesStore
PROPERTY
  ActiveChangesByApproval
CHECK_DEADLOCK FALSE
