SPECIFICATION FairSpec
CONSTANTS
  app = app  mic = mic  hp = hp
  Id = {1, 2, 3, 4, 5}
  Name = {app, hp}
  Node <- TwoNodes
  PortDirs <- TwoDirs
  Volume = {}
  EventCap = 2
  MaxChanges = 4
  MaxEarly = 1
  ReuseIds = TRUE
  IdWidth = 8
  RuleTables <- RouteOrNot
  ScriptTables <- ScriptedRoute
  MaxLoads = 1
INVARIANTS TypeOK EventsFollowGraph NoStalledRoute GraphMirrorsServer OneLinkPerMatch
PROPERTY NoRouteWaitsForever
CHECK_DEADLOCK FALSE
