CONSTANTS
  a = a
  b = b
  c = c
  d = d
  Chunk = {a, b, c, d}
  Nil = Nil
  SeqSpace = 64
  ISN = {0}
  ConnId = {1, 2}
  WINDOW_SIZE = 2
  Inputs <- TwoChunks
  RivalISN = {1}
  RivalInputs <- OneOther
  Faults = {"dup"}
  MaxMishaps = 0
  MaxRestarts = 1
SPECIFICATION RestartSpec
INVARIANTS
  SessionsInv
  OneSession
  EachIsServed
CHECK_DEADLOCK FALSE
