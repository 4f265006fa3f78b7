SPECIFICATION FairSpec
CONSTANTS
  Room = {lounge, team}
  MaxMessages = 4
INVARIANTS
  TimerIffActive
  PageKnowsFloor
PROPERTY
  PendingEnds
