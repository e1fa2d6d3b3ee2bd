SPECIFICATION FairSpec
CONSTANTS
  node = node  link = link  s1 = s1  NoSub = NoSub
  Kind = {node, link}
  Sub = {s1}
  RingCap = 1
  MaxEvents = 3
  Filters <- NodesOrAll
  OutboundCap = 1
  EventCap = 2
INVARIANTS LibraryOK
PROPERTIES SubscriberCatchesUp RequestsAnswered UnsubscribedTaskEnds
CHECK_DEADLOCK FALSE
