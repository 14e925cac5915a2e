SPECIFICATION FairSpec
CONSTANTS
  MaxSessions = 2
  MoveSteps = 2
  Points = {0, 1, 2}
  NoPoint = NoPoint
  Threshold = 1
  Ops = {"move", "click", "drag", "scroll", "type", "press"}
  UserActs = {"mouse", "shell"}
  Faults = {"overlay", "register", "spawn", "audit", "crash"}
CONSTRAINT Bounded
INVARIANT LateEventsBounded
INVARIANT SessionsDoNotMix
PROPERTY DriftEndsSession
PROPERTY GlowEnds
CHECK_DEADLOCK FALSE
