SPECIFICATION FairSpec
CONSTANTS
  c1 = c1
  c2 = c2
  c3 = c3
  lounge = lounge
  team = team
  Client = {c1, c2}
  Room = {lounge}
  RoomOf <- Pair
  DefaultRoom = lounge
  Slow = {c1}
  IdleTicks = 1
  AudioCap = 1
  ChatCap = 1
  MaxRoomUsers = 1
  None = None
  Stray = Stray
  Unknown = Unknown
  Quiet = Quiet
INVARIANTS
  IInv
  StatsFollowFloor
  RosterTalkerTruth
PROPERTIES
  FloorsKept
  ConnectionsServed
  RequestServed
