SPECIFICATION Spec
CONSTANTS
  speakers = speakers  mic = mic
  Device = {speakers, mic}
  Kind <- Kinds
  NodeOf <- AsNode
  Full = 2
  EventCap = 2
  MaxChanges = 3
  MaxFaults = 1
  MaxXruns = 3
  Unheard = unheard
  Unset = unset
  RuleFile <- Rules
  Asked = {1}
  RingLen = 1
INVARIANTS TypeOK GraphMirrorsDevices  XrunsCounted LatencyRecorded
CHECK_DEADLOCK FALSE
