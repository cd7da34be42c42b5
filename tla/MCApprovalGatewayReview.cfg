SPECIFICATION FairGatewaySpec
CONSTANTS
  write1 = write1
  write2 = write2
  reviewed = reviewed
  Request = {write1, reviewed}
  Command = {c1, c2}
  InvalidRequest = invalid
  Profile <- MCScheduleProfile
  MemoryCaptures = {FALSE}
  MaxAudit = 100
  MaxDangling = 0
  LLMRouteTimeout = 30000
  Requester <- MCRequester
  Target <- MCTarget
  Human = "alice"
  DefaultMode = "full_access"
  BootGrants <- MCFullAccessGrants
  DiskMayFail = FALSE
INVARIANTS
  FinalReviewNeedsConsent
PROPERTIES
  KeepsAuthorityBoundary
  HonouredVerdictSettles
  CommandsSettleOrWait
CHECK_DEADLOCK FALSE
