SPECIFICATION Spec
CONSTANTS
  app = app  mic = mic  hp = hp
  Id = {1, 2, 3, 4}
  Name = {app, mic, hp}
  Node <- ThreeNodes
  PortDirs <- Dirs
  Volume = {}
  EventCap = 2
  MaxChanges = 4
  MaxEarly = 0
  ReuseIds = TRUE
  IdWidth = 8
  RuleTables <- RouteOrDeny
  ScriptTables <- NoScripts
  MaxLoads = 0
INVARIANT DenyBlocksRouting
CHECK_DEADLOCK FALSE
