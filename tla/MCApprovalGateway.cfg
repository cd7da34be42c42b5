SPECIFICATION GatewaySpec
CONSTANTS
  write1 = write1
  write2 = write2
  reviewed = reviewed
  Request = {write1, write2}
  Command = {c1, c2}
  InvalidRequest = invalid
  Profile <- MCScheduleProfile
  MemoryCaptures = {FALSE}
  MaxAudit = 100
  MaxDangling = 2
  LLMRouteTimeout = 30000
  Requester <- MCOtherRequester
  Target <- MCTarget
  Human = "alice"
  DefaultMode = "ask_every_time"
  BootGrants <- MCBootGrants
  DiskMayFail = TRUE
SYMMETRY CommandSymmetry
INVARIANTS
  GatewayTypeOK
  UnaskedRunsAreCovered
  PendingIsLive
  AuditMatchesExecution
  RefusalsStand
CHECK_DEADLOCK FALSE
