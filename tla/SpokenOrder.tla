----------------------------- MODULE SpokenOrder -----------------------------
(***************************************************************************)
(* What the one worker of src/arc/voice/gemini.py is for: sentences are    *)
(* numbered as they are queued, and play one at a time in that order.      *)
(* Some may never play: they were dropped, or could not be synthesised.    *)
(***************************************************************************)
EXTENDS Naturals

CONSTANT Sentences   \* a set of naturals above 0
VARIABLES
  playing,           \* the sentences one hears now
  last               \* the sentence that began last, 0 before the first

Init == playing = {} /\ last = 0

Begin(k) ==
  /\ playing = {} /\ k > last
  /\ playing' = {k} /\ last' = k

End ==
  /\ playing # {}
  /\ playing' = {} /\ UNCHANGED last

Next == End \/ \E k \in Sentences : Begin(k)
Spec == Init /\ [][Next]_<<playing, last>>
=============================================================================
