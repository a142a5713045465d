SPECIFICATION Spec
CONSTANTS
  Tables <- MCTables
  SkelGroups <- MCGroups
  SkelPasswd <- MCPasswd
  MinId = 1000
  MaxId = 1002
  MaxRuns = 1
  MaxKills = 0
INVARIANT OneMainGroup
CHECK_DEADLOCK FALSE
