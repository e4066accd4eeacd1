CONSTANTS
  Posters = {p1, p2}
  Fetchers = {f1, f2}
  Messages = {m1, m2}
  NULL = NULL
  MAX_QUEUE_ENTRIES = 4
SPECIFICATION FairSpec
INVARIANTS TypeOK PermitsMatchMessages PermitFindsMessage
PROPERTIES RefinesMailbox PostedIsFetched
CHECK_DEADLOCK FALSE
