SPECIFICATION Spec
CONSTANTS
  c1 = c1
  c2 = c2
  c3 = c3
  lounge = lounge
  team = team
  Client = {c1, c2, c3}
  Room = {lounge}
  RoomOf <- OneRoom
  DefaultRoom = lounge
  Slow = {c1, c2}
  IdleTicks = 1
  AudioCap = 1
  ChatCap = 1
  MaxRoomUsers = 3
  None = None
  Stray = Stray
  Unknown = Unknown
  Quiet = Quiet
SYMMETRY SlowAlike
ACTION_CONSTRAINT TalkOnly
INVARIANTS
  ListsMissNobody
  HeardTruth
  AudioInTalk
PROPERTIES
  FloorSpec
  TalkAlternates
