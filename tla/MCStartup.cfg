CONSTANTS
  CommandLines <- UpToFour
  NumberOf <- Value
  WORDS = {"-1", "0", "5", "6", "word"}
  MAX_PORT = 5
  IntSpace = 16
  NULL = NULL
  Sessions = {"EX_OK", "EX_PROTOCOL", "EX_SOFTWARE"}
SPECIFICATION StartSpec
INVARIANTS
  VerdictIsRight
  ConfigIsGiven
  CodeTellsWhy
  NothingLeaks
  OutputIsSpared
  SuccessIsEarned
CHECK_DEADLOCK FALSE
