---------------------------- MODULE MCMicrophone ----------------------------
(* Small budgets for TLC: each combines the events that can disturb one    *)
(* another.                                                                *)
EXTENDS Microphone

MCRooms == {{0}, {4}, {0, 3}, {3, 4}, {0, 4}}

MCBudgets == {
  \* two utterances in a room that changes
  [words |-> 3, results |-> 3, starts |-> 1, stops |-> 0, gates |-> 0, noise |-> 1],
  \* the microphone is suspended and closed while utterances are being taken
  [words |-> 2, results |-> 2, starts |-> 2, stops |-> 1, gates |-> 1, noise |-> 0],
  \* closed and opened again
  [words |-> 2, results |-> 2, starts |-> 2, stops |-> 2, gates |-> 0, noise |-> 0]}
=============================================================================
