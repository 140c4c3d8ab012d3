SPECIFICATION Spec
CONSTANTS
  Sessions <- MCSessions
  Lengths <- MCLengths
  SEQ_LOW = 2
  SEQ_MID = 2
  MaxSeq = 6
  MaxCount = 2
  MaxExtra = 5
INVARIANTS
  TypeOK
  NoFalseAlarm
  NoErrorMissed
  AgreesBetweenPackets
CHECK_DEADLOCK FALSE
