SPECIFICATION Spec
CONSTANTS
  chat = chat
  forged = forged
  claim = claim
  Request = {chat, forged, claim}
  Command = {c1, c2}
  InvalidRequest = invalid
  Profile <- MCProfile
  MemoryCaptures = {TRUE, FALSE}
  MaxDangling = 2
  LLMRouteTimeout = 30000
  MaxAudit = 6
SYMMETRY CommandSymmetry
INVARIANTS
  TypeOK
  SuspendLiftedByHumanOnly
  CommandsRestOnDecisions
  OneAttributedEnd
PROPERTIES
  FailSafeHolds
  SuspensionEndsByVerdict
CHECK_DEADLOCK FALSE
