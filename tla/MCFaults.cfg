CONSTANTS
  a = a
  b = b
  c = c
  d = d
  Chunk = {a, b, c, d}
  Nil = Nil
  SeqSpace = 64
  ISN = {0}
  ConnId = {1}
  WINDOW_SIZE = 2
  Inputs <- UpToTwo
  Faults = {"dup", "corrupt", "stray", "expire", "signal", "send", "read", "write", "close"}
  MaxMishaps = 1
  OUTPUT = "file"
SPECIFICATION OutputSpec
INVARIANTS
  HonestExit
  SessionInv
  WindowOK
  EndIsKnown
  RetriesFit
  OutputIsWritten
PROPERTY
  ImplementsStream
CHECK_DEADLOCK FALSE
