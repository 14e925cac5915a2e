SPECIFICATION FairJournalSpec
CONSTANTS
  None = None
  MaxTasks = 2
  MaxSteps = 2
  Signatures <- MCSignatures
  Mutating = {"write_file", "mouse_click"}
  Native = TRUE
  Replies <- MCReplies
  Budgets <- MCBudgets
INVARIANT CrashCostsOneStep
INVARIANT NothingInvented
PROPERTY FinishedStays
PROPERTY TaskEnds
CHECK_DEADLOCK FALSE
