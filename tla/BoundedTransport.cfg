CONSTANT limit = 1
SPECIFICATION TransportSpec
CHECK_DEADLOCK FALSE
INVARIANTS
  TransportTypeOK
  ResultIsWhole
PROPERTIES
  CallEnds
