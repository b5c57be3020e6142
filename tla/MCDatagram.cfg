CONSTANTS
  BYTE = 3
  MAX_PACKET_SIZE = 18
  Packets <- SomePackets
  Tails <- SomeTails
SPECIFICATION Spec
INVARIANTS
  TypeOK
  NeverMistaken
  IntactIsAccepted
  SumsAsRFC1071
CHECK_DEADLOCK FALSE
