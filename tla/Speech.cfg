SPECIFICATION FairSpec
CONSTANTS
  MaxSentences = 3
  MaxStops = 2
  Faults = {"network", "raise"}
INVARIANT LateSpeechBounded
PROPERTY PlaysInOrder
PROPERTY StopEnds
CHECK_DEADLOCK FALSE
