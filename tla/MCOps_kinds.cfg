SPECIFICATION OpsSpec
CONSTANTS
  app = app  synth = synth  c1 = c1
  Id = {1, 2, 3, 4}
  IdWidth = 8
  Name = {app, synth}
  Node <- TwoKinds
  PortDirs <- TwoDirs
  Volume = {}
  EventCap = 2
  MaxChanges = 4
  MaxEarly = 1
  ReuseIds = FALSE
  RuleTables <- NoTables
  ScriptTables <- NoScripts
  MaxLoads = 0
  Client = {c1}
  ClientId = {}
  Polls = 1
  MaxCalls = 1
INVARIANT KindsNeverMix
CHECK_DEADLOCK FALSE
