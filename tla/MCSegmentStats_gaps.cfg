SPECIFICATION Spec
CONSTANTS
  InvalidReasons = {"", "bad_magic"}
  SeqMod = 3
  UpdateEvery = 3
  MaxFrames = 5
INVARIANT
  NoFalseGaps
