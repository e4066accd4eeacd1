CONSTANTS
  TCP_MSS = 1
  DUPACKS = 9
  TCP_MAXRTX = 1
  TCP_SYNMAXRTX = 1
  ISS <- MC_ISS
  Budgets <- LiveBudgets
SPECIFICATION FairSpec
PROPERTIES ClosedIsFreed WrittenIsDelivered
CHECK_DEADLOCK FALSE
