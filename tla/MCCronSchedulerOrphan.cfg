SPECIFICATION CronSpec
CONSTANTS
  TaskId = {brief}
  Payload = {daily, interval}
  Daily = {daily}
  RuntimeRef = {r1, r2}
  MaxFires = 1
INVARIANT
  OnlyRegisteredTimers
CHECK_DEADLOCK FALSE
