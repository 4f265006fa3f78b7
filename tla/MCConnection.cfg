SPECIFICATION FairSpec
CONSTANTS
  SendCap = 2
  NetCap = 2
CHECK_DEADLOCK FALSE
INVARIANTS
  TypeOK
PROPERTIES
  MembershipSpec
  PumpsEndTogether
  EvictedEnds
  DeafPeerRemoved
