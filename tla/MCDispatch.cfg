SPECIFICATION DispatchSpec
CONSTANTS
  c1 = c1
  c2 = c2
  c3 = c3
  lounge = lounge
  team = team
  HeaderSize = 2
  MinSamples = 2
  MaxSamples = 3
  MaxLen = 12
  Client = {c1, c2, c3}
  Sender = c1
  Room = {lounge, team}
  RoomOf <- TwoRooms
  DefaultRoom = team
  NoRoom = NoRoom
CHECK_DEADLOCK FALSE
INVARIANTS
  DispatchTypeOK
  FramesTile
  RelayedIsPlayable
  ChatDelivered
