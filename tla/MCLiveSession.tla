--------------------------- MODULE MCLiveSession ---------------------------
(* Small budgets for TLC: each combines the events that can disturb one    *)
(* another.                                                                *)
EXTENDS LiveSession

MCBudgets == {
  \* two requests open at once, sessions fail or are closed
  [sessions |-> 2, toggles |-> 2, closes |-> 1, responses |-> 1, blocks |-> 0, failures |-> 1],
  \* one conversation with interruptions and tool calls, closed at any point
  [sessions |-> 1, toggles |-> 1, closes |-> 1, responses |-> 3, blocks |-> 0, failures |-> 1],
  \* the microphone muted while blocks are under way
  [sessions |-> 1, toggles |-> 2, closes |-> 0, responses |-> 0, blocks |-> 5, failures |-> 0]}
=============================================================================
