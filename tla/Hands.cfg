SPECIFICATION HandSpec
CONSTANTS
  Hands = {"left", "right"}
  NoHand = NoHand
  Poses <- MCPoses
  ToolThreads = {c1, c2}
  AgreeFrames = 2
  SoloFrames = 3
  ConfirmFrames = 2
  MinConf = 7
  HandBudgets <- MCBudgets
INVARIANT GesturesAreSafe
PROPERTY ClicksNeedReunion
CHECK_DEADLOCK FALSE
