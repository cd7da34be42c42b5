SPECIFICATION StoresSpec
CONSTANTS
  Record = {a, b}
  MaxEntries = 2
  MaxLength = 5
  Torn = Torn
  Turn = {t1, t2, t3}
  Cap = 2
  Size = {1}
  CutSize = 3
  DiskMayFail = TRUE
  ProcessMayDie = TRUE
  TornLine = TornLine
  Rule = {f1}
  Key = {k1}
  Event <- MCEvent
  CallerRule <- MCCallerRule
  CutWrite = CutWrite
  MaxFaults = 1
  Save = {s1, s2}
  Patch <- MCPatch
  OsEnv <- MCOsEnv
  FirstText <- MCFirstText
  World <- MCInstallation
  MaxStops = 1
INVARIANTS
  StoresTypeOK
  ChainKeepsItsWord
  HistoryIsTheAnswered
  OnlyRuledOnRulesStop
  ReturnedRulesSurvive
  EnvFileIsKept
  SavedSettingsBoot
PROPERTIES
  BreakStays
  TurnsEnd
CHECK_DEADLOCK FALSE
