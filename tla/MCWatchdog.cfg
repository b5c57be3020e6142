CONSTANTS
  a = a
  b = b
  c = c
  d = d
  Chunk = {a, b, c, d}
  Nil = Nil
  SeqSpace = 64
  ISN = {0}
  ConnId = {1}
  WINDOW_SIZE = 2
  Inputs <- UpToOne
  Faults = {"expire", "loss"}
  MaxMishaps = 2
SPECIFICATION WatchdogSpec
PROPERTY
  NoHang
CHECK_DEADLOCK FALSE
