SPECIFICATION LiveSpec
CONSTANTS
  Callers = {k1, k2}
  MaxSessions = 2
  MaxResponses = 3
  Budgets <- MCBudgets
  MaxQueue = 1
INVARIANT HeardOnce
PROPERTY InterruptionIsSilent
PROPERTY EverythingEnds
CHECK_DEADLOCK FALSE
