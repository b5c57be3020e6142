CONSTANTS
  a = a
  b = b
  c = c
  d = d
  Chunk = {a, b, c, d}
  Nil = Nil
  SeqSpace = 9
  ISN = {0, 4}
  ConnId = {1}
  WINDOW_SIZE = 3
  Inputs <- ToTheLimit
  Faults = {"dup"}
  MaxMishaps = 0
SPECIFICATION Spec
INVARIANTS
  TypeOK
  OneChunkPerNumber
  InOrderDelivery
  RingHoldsWindow
  AckedIsWritten
  TimerTracksWindow
PROPERTY
  WindowAdvances
CHECK_DEADLOCK FALSE
