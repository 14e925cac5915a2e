SPECIFICATION Spec
CONSTANTS
  None = None
  MaxId = 6
  Texts = {"tidy", "clean", "rust"}
  Sessions = {"s1", "s2"}
  Near <- MCNear
  Like <- MCLike
  Names <- MCNames
  Cost <- MCCost
  Nearest = 3
  Limit = 2
  PromoteAfter = 3
  PruneBelow = 10
  MaxDays = 4
  Faded <- MCFaded
  Context = 40
  Reserve = 20
  Budgets <- MCBudgets
INVARIANT IndexTruthful
INVARIANT NothingIsLost
INVARIANT RecurringIsLearnt
INVARIANT WellPrompted
INVARIANT MemoryFollowsChat
CHECK_DEADLOCK FALSE
