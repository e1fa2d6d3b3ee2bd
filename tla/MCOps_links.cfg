SPECIFICATION FairOpsSpec
CONSTANTS
  app = app  synth = synth  c1 = c1
  Id = {1, 2, 3, 4}
  IdWidth = 8
  Name = {app}
  Node <- OneNode
  PortDirs <- OneDirs
  Volume = {1}
  EventCap = 2
  MaxChanges = 4
  MaxEarly = 0
  ReuseIds = FALSE
  RuleTables <- NoTables
  ScriptTables <- NoScripts
  MaxLoads = 0
  Client = {c1}
  ClientId = {12}
  Polls = 2
  MaxCalls = 2
INVARIANTS OpsTypeOK AnswerNamesTheLink EventsFollowGraph GraphMirrorsServer
PROPERTIES UnlinkReachesGraph LinkAnswered
CHECK_DEADLOCK FALSE
