CONSTANTS
  s1 = s1
  c1 = c1
  Sockets = {s1}
  Streams = {c1}
  BusSize = 1
  StreamSize = 1
  MaxEvents = 4
SPECIFICATION FairSpec
CHECK_DEADLOCK FALSE
INVARIANTS
  TypeOK
  EachSeesAStretch
PROPERTIES
  EventArrives
  GoneIsForgotten
