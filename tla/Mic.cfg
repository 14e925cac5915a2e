SPECIFICATION Spec
CONSTANTS
  MaxRequests = 5
  Budgets <- MCBudgets
  Rooms <- MCRooms
  Faint = 3
  Loud = 7
  Margin = 1
  FloorRise = 1
  Silence = 1
INVARIANT UtterancesAreClean
INVARIANT TapIsServed
PROPERTY UtterancesEnd
CHECK_DEADLOCK FALSE
