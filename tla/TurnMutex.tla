------------------------------ MODULE TurnMutex ------------------------------
(***************************************************************************)
(* What the generation lock of src/arc/interface/server.py promises: "one  *)
(* generation at a time".  Turns begin and end, and none begins while      *)
(* another is at work.                                                     *)
(***************************************************************************)
CONSTANT Turns
VARIABLE working     \* the turns that use the model now

Init == working = {}
Begin(t) == working = {} /\ working' = {t}
End(t) == working = {t} /\ working' = {}
Next == \E t \in Turns : Begin(t) \/ End(t)
Spec == Init /\ [][Next]_working

\* No two turns are at work together.
OneAtATime == \A s, t \in working : s = t
=============================================================================
