SPECIFICATION Spec
CONSTANTS
  node = node  link = link  s1 = s1  s2 = s2  NoSub = NoSub
  Kind = {node, link}
  Sub = {s1, s2}
  RingCap = 1
  MaxEvents = 2
  Filters <- NodesOrAll
  OutboundCap = 1
INVARIANTS TypeOK NothingUnaccounted InOrderOnce
PROPERTIES Implements
CHECK_DEADLOCK FALSE
