CONSTANTS
  a = a
  b = b
  c = c
  d = d
  Chunk = {a, b, c, d}
  Nil = Nil
  SeqSpace = 64
  ISN = {0}
  ConnId = {1}
  WINDOW_SIZE = 2
  Inputs <- TwoChunks
  RivalISN = {0}
  RivalInputs <- TwoOther
  Faults = {}
  MaxMishaps = 0
  MaxRestarts = 0
SPECIFICATION SessionsSpec
INVARIANT
  OneSession
CHECK_DEADLOCK FALSE
