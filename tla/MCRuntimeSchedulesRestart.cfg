SPECIFICATION ScheduleSpec
CONSTANTS
  brief = brief
  digest = digest
  daily = daily
  interval = interval
  TaskId = {brief}
  Payload = {daily, interval}
  Daily = {daily}
  RuntimeRef = {r1, r2}
  MaxFires = 1
  ScheduleCommand = {c1, c2}
  Torn = torn
  Asked <- Task
  StoreMayFail = FALSE
  EnvTasks = {}
INVARIANT
  DeletedStaysDeleted
CHECK_DEADLOCK FALSE
