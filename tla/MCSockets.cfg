CONSTANTS
  t1 = t1
  t2 = t2
  Threads = {t1, t2}
  Core = Core
  Conns = {c1}
  Listener = Listener
  NUM_SOCKETS = 2
  Interests <- MC_Interests
  MaxEvents = 3
  NULL = NULL
SPECIFICATION FairSpec
INVARIANTS WaitingIsExact NoLostWakeup 
PROPERTIES WokenForSomething SelectWakes
CHECK_DEADLOCK FALSE
