SPECIFICATION EdgesSpec
CONSTANTS
  Cmd = {c1}
  Send = {c1}
  Offered <- MCOffered
  RedirectLimit = 1
  Configured <- MCConfigured
  MaxRetries = 2
  BaseDelay = 2
  MaxDelay = 3
  Http = {r1, r2}
  Called <- MCCalled
  WebUser = {alice}
  Ticket = {k1, k2}
  TicketCap = 1
  Secret = {"x", "y", "z"}
  MaxUpdates = 3
  MaxBoots = 2
  Batch = 2
  Ignored = {2}
  Key = {alice}
  Capacity = 5
  Cost = 2
  Rate = 1
  IdleTicks = 2
  MaxIdle = 6
  TaskId = {brief}
  Payload = {daily, interval}
  Daily = {daily}
  RuntimeRef = {f1, f2, f3}
  MaxFires = 2
INVARIANTS
  EdgesTypeOK
  ReportsAreTrue
  ToolsStayInBounds
  TokensOpenTheirOwn
  StopLosesNothing
  TimersFollowTasks
PROPERTIES
  CommandsEnd
  UpdatesAreHandled
  KeepsTheRate
  TicketsOpenOneSocket
  RegisteredKeepFiring
CHECK_DEADLOCK FALSE
