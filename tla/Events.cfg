SPECIFICATION EventsSpec
CONSTANTS
  NumPages = 2
  MaxConns = 3
  MaxPresses = 2
  MaxNotes = 1
  MaxQueue = 2
  MaxFaults = 1
INVARIANT NoEcho
INVARIANT CalmAgreement
CHECK_DEADLOCK FALSE
