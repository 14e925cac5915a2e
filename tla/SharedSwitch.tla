---------------------------- MODULE SharedSwitch ----------------------------
(***************************************************************************)
(* What the open pages of src/arc/interface/webui/ make of the microphone  *)
(* as long as nothing goes wrong: a switch that everybody sees.  Who       *)
(* presses it sees it at once, the others follow, each of them once; and   *)
(* nobody but a press moves it.  After a failure, or a press that came     *)
(* before everybody had followed, nothing is promised any more.            *)
(***************************************************************************)
CONSTANT Pages
VARIABLES
  on,      \* the switch
  seen,    \* seen[p]: what page p shows
  sound    \* nothing has failed

Init == on = FALSE /\ seen = [p \in Pages |-> FALSE] /\ sound = TRUE

Press(p) ==
  /\ \A q \in Pages : seen[q] = on
  /\ on' = ~on /\ seen' = [seen EXCEPT ![p] = ~on]

Follow(p) ==
  /\ seen[p] # on
  /\ seen' = [seen EXCEPT ![p] = on] /\ UNCHANGED on

Next ==
  \/ sound /\ sound' /\ \E p \in Pages : Press(p) \/ Follow(p)
  \/ ~sound'

Spec == Init /\ [][Next]_<<on, seen, sound>>
=============================================================================
