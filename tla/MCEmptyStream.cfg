CONSTANTS
  a = a
  b = b
  c = c
  d = d
  Chunk = {a, b, c, d}
  Nil = Nil
  SeqSpace = 64
  ISN = {0}
  ConnId = {1}
  WINDOW_SIZE = 2
  Inputs <- NoChunk
  Faults = {"loss"}
  MaxMishaps = 1
SPECIFICATION LossySpec
PROPERTY
  ReliableDelivery
CHECK_DEADLOCK FALSE
