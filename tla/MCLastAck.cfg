CONSTANTS
  a = a
  b = b
  c = c
  d = d
  Chunk = {a, b, c, d}
  Nil = Nil
  SeqSpace = 64
  ISN = {0}
  ConnId = {1}
  WINDOW_SIZE = 2
  Inputs <- TwoChunks
  Faults = {"dup", "expire"}
  MaxMishaps = 0
SPECIFICATION Spec
INVARIANT
  TimeoutIsFailure
CHECK_DEADLOCK FALSE
