SPECIFICATION FairSpec
CONSTANTS
  c1 = c1
  c2 = c2
  c3 = c3
  NULL = NULL
  Conns = {c1}
  Pcbs = {1, 2}
  Ops <- ClientOps
  Hows = {"RD", "RDWR"}
  RECVMBOX_SIZE = 2
  ACCEPTMBOX_SIZE = 1
  BACKLOG = 1
  WND = 3
  SND_BUF = 1
  SIZE = 2
INVARIANTS NoAssertFails WaiterIsServed  WindowIsReturned WriteIsCounted
PROPERTIES CallsReturn
