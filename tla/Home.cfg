SPECIFICATION Spec
CONSTANTS
  None = None
  Garbled = Garbled
  Serves = {"s1", "s2", "s3"}
  Dos = {"d1", "d2"}
  Kills = {"k1", "k2"}
  Uses = {"u1", "u2"}
  Pulls = {"l1", "l2"}
  Removes = {"r1"}
  Probes = {"h1", "h2"}
  Processes = {"s1", "s2", "s3", "d1", "d2", "k1", "k2", "u1", "u2", "l1", "l2", "r1", "h1", "h2"}
  Loggers <- MCLoggers
  Threads = {"main", "tool"}
  Port <- MCPort
  Choice <- MCChoice
  Target <- MCTarget
  Forcing = {"l2"}
  Roles = {"chat", "embed"}
  Keys = {"m", "e"}
  Shards = {"w1", "w2"}
  SingleFile = {}
  Declared = "mlx"
  Forced = None
  AutoSelect = TRUE
  Machine = {"metal"}
  Requires <- MCRequires
  Budgets <- MCBudgets
INVARIANT TaskHandedOver
INVARIANT NoneEscapes
INVARIANT FilesKept
INVARIANT GoodLoads
INVARIANT LogHonest
CHECK_DEADLOCK FALSE
