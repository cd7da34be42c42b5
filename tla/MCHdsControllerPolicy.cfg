SPECIFICATION Spec
CONSTANTS
  chat = chat
  forged = forged
  claim = claim
  Request = {chat, forged, claim}
  Command = {c1, c2}
  InvalidRequest = invalid
  Profile <- MCProfile
  MemoryCaptures = {TRUE, FALSE}
  MaxDangling = 2
  LLMRouteTimeout = 30000
  MaxAudit = 6
INVARIANTS
  CommandsObeyExecutionPolicy
CHECK_DEADLOCK FALSE
