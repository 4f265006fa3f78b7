SPECIFICATION Spec
CONSTANTS
  Client = {c1, c2}
  Hub = Hub
  Nobody = Nobody
  MaxRoomUsers = 1
  MaxChanges = 3
  MaxAsked = 4
SYMMETRY Alike
CHECK_DEADLOCK FALSE
INVARIANTS
  TypeOK
  BroadcastsExact
  LowerIsOlder
  OnlyAnswersStale
