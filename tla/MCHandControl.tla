--------------------------- MODULE MCHandControl ---------------------------
(* Poses and small scenes for TLC.                                         *)
EXTENDS HandControl

P(curled, extended, pinching, spread) ==
  [curled |-> curled, extended |-> extended, pinching |-> pinching, canned |-> "None", spread |-> spread]
Fist == P(1 .. 4, {}, TRUE, "none")
Clench == [P({1, 2, 3}, {}, FALSE, "none") EXCEPT !.canned = "Closed_Fist"]
Pinch == P({3, 4}, {1, 2}, TRUE, "apart")
Peace == P({3, 4}, {1, 2}, FALSE, "apart")
Joined == P({3, 4}, {1, 2}, FALSE, "joined")
Band == P({3, 4}, {1, 2}, FALSE, "band")
Palm == P({}, 1 .. 4, FALSE, "none")
MCPoses == {Fist, Clench, Pinch, Peace, Joined, Band, Palm}

\* frames in which both views may show one hand or the front view two
OneHand(ps) == {[v \in Views |-> [h \in Hands |-> IF h = "left" THEN p[v] ELSE NoHand]] :
                  p \in [Views -> ps \cup {NoHand}]}
Front(ps) == {f \in OneHand(ps) : f["side"]["left"] = NoHand}
TwoHands(ps) == {[v \in Views |-> IF v = "front" THEN p ELSE [h \in Hands |-> NoHand]] :
                   p \in [Hands -> ps \cup {NoHand}]}

MCBudgets == {
  \* windows are grabbed and close
  [frames |-> OneHand({Fist, Joined}), windows |-> 1, freezes |-> 1, calls |-> 0],
  \* two hands
  [frames |-> TwoHands({Fist, Pinch}), windows |-> 1, freezes |-> 0, calls |-> 0],
  \* the cursor, and a fist that only one of the two classifiers sees
  [frames |-> Front({Peace, Joined, Band, Pinch, Palm, Clench}), windows |-> 0, freezes |-> 0, calls |-> 0],
  \* the tools
  [frames |-> {}, windows |-> 0, freezes |-> 0, calls |-> 4]}
=============================================================================
