CONSTANTS
  TCP_MSS = 1
  DUPACKS = 3
  StreamLen = 6
SPECIFICATION ReassSpec
INVARIANTS StreamInOrder
PROPERTIES ReassemblyIsExact
CHECK_DEADLOCK FALSE
