SPECIFICATION FairSpec
CONSTANTS
  Requests = {r1, r2}
  Kinds = {"chat", "do", "chatStream", "taskStream"}
  MaxTokens = 2
  NoRequest = NoRequest
  Faults = {"gone", "model"}
INVARIANT OnceAndWhole
INVARIANT ReleasedOnEveryPath
PROPERTY StreamsTakeTurns
PROPERTY RequestEnds
CHECK_DEADLOCK FALSE
