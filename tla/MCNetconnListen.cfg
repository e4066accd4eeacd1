SPECIFICATION Spec
CONSTANTS
  c1 = c1
  c2 = c2
  c3 = c3
  NULL = NULL
  Conns = {c1, c2, c3}
  Pcbs = {1, 2, 3}
  Ops <- ServerOps
  Hows = {"RD", "RDWR"}
  RECVMBOX_SIZE = 1
  ACCEPTMBOX_SIZE = 1
  BACKLOG = 2
  WND = 1
  SND_BUF = 1
  SIZE = 2
INVARIANTS BacklogIsExact ConnIsReachable
SYMMETRY AcceptedAlike
