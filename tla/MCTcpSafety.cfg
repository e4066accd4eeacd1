CONSTANTS
  TCP_MSS = 1
  DUPACKS = 1
  TCP_MAXRTX = 1
  TCP_SYNMAXRTX = 1
  ISS <- MC_ISS
  Budgets <- SafetyBudgets
SPECIFICATION Spec
INVARIANTS AcksAreTrue StreamIntegrity NothingLost QueuesInOrder RetransmitTimer 
CHECK_DEADLOCK FALSE
