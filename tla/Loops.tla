------------------------------- MODULE Loops -------------------------------
(***************************************************************************)
(* What the proofs about loops over a list rest on.  Such a loop is a      *)
(* recursive function of the number of rounds.  That it exists and is      *)
(* typed (LoopRuns, LoopStays), and that what every round keeps holds of   *)
(* all of them (Counting), is shown by way of the least round that fails.  *)
(***************************************************************************)
EXTENDS Naturals, WellFoundedInduction, TLAPS

LEMMA LeastNatural ==
  ASSUME NEW S, S \subseteq Nat, S # {}
  PROVE  \E x \in S : \A y \in S : x <= y
  <1>1. PICK x \in S : \A y \in S : ~(<<y, x>> \in OpToRel(<, Nat))
    BY NatLessThanWellFounded, WFMin
  <1>2. \A y \in S : <<y, x>> \in Nat \X Nat /\ ~(y < x)
    BY <1>1 DEF OpToRel
  <1>3. \A y \in S : x <= y
    <2> TAKE y \in S
    <2>1. x \in Nat /\ y \in Nat /\ ~(y < x)
      BY <1>2
    <2> QED BY <2>1
  <1> QED BY <1>3

\* What holds before the first round and is kept by each holds after every round.
LEMMA Counting ==
  ASSUME NEW n \in Nat, NEW P, 0 \in P, \A i \in 0 .. n : i < n /\ i \in P => i + 1 \in P
  PROVE  0 .. n \subseteq P
  <1> SUFFICES ASSUME (0 .. n) \ P # {} PROVE FALSE
    OBVIOUS
  <1> DEFINE rest == (0 .. n) \ P
  <1>1. PICK m \in rest : \A k \in rest : m <= k
    <2>1. rest \subseteq Nat /\ rest # {}
      OBVIOUS
    <2> HIDE DEF rest
    <2> QED BY <2>1, LeastNatural
  <1>2. m - 1 \in 0 .. n /\ m - 1 \in P /\ m - 1 < n
    BY <1>1
  <1> QED BY <1>2

\* The values of a loop of n rounds, each of which is a step from S to S.
Runs(n, S, base, step) ==
  {f \in [0 .. n -> S] : f[0] = base /\ \A i \in 1 .. n : f[i] = step[i][f[i - 1]]}

LEMMA LoopRuns ==
  ASSUME NEW n \in Nat, NEW S, NEW base \in S, NEW step \in [1 .. n -> [S -> S]]
  PROVE  Runs(n, S, base, step) # {}
  <1> DEFINE P == {k \in 0 .. n : Runs(k, S, base, step) # {}}
  <1>1. 0 \in P
    <2>1. [i \in 0 .. 0 |-> base] \in Runs(0, S, base, step)
      BY DEF Runs
    <2> QED BY <2>1
  <1>2. ASSUME NEW k \in 0 .. n, k < n, k \in P PROVE k + 1 \in P
    <2>1. PICK f \in Runs(k, S, base, step) : TRUE
      BY <1>2
    <2> DEFINE g == [i \in 0 .. (k + 1) |-> IF i \in 0 .. k THEN f[i] ELSE step[k + 1][f[k]]]
    <2>2. g \in Runs(k + 1, S, base, step)
      <3>1. f \in [0 .. k -> S] /\ f[0] = base /\ \A i \in 1 .. k : f[i] = step[i][f[i - 1]]
        BY <2>1 DEF Runs
      <3>2. k + 1 \in 1 .. n /\ f[k] \in S /\ step[k + 1] \in [S -> S] /\ step[k + 1][f[k]] \in S
        BY <1>2, <3>1
      <3>3. g \in [0 .. (k + 1) -> S]
        BY <3>1, <3>2
      <3>4. g[0] = base
        BY <3>1
      <3>5. ASSUME NEW i \in 1 .. (k + 1) PROVE g[i] = step[i][g[i - 1]]
        BY <3>1, <3>2
      <3> QED BY <3>3, <3>4, <3>5 DEF Runs
    <2> HIDE DEF g
    <2>3. k + 1 \in 0 .. n /\ Runs(k + 1, S, base, step) # {}
      BY <1>2, <2>2
    <2> QED BY <2>3
  <1>3. 0 .. n \subseteq P
    <2> HIDE DEF P
    <2> QED BY <1>1, <1>2, Counting
  <1> QED BY <1>3

\* A function that takes these steps as long as it is in S stays there.
Follows(g, n, S, base, step) ==
  g[0] = base /\ \A i \in 1 .. n : g[i - 1] \in S => g[i] = step[i][g[i - 1]]

LEMMA LoopStays ==
  ASSUME NEW n \in Nat, NEW S, NEW base \in S, NEW step \in [1 .. n -> [S -> S]],
         NEW g, Follows(g, n, S, base, step)
  PROVE  \A i \in 0 .. n : g[i] \in S
  <1> USE DEF Follows
  <1> DEFINE P == {i \in 0 .. n : g[i] \in S}
  <1>1. 0 \in P
    OBVIOUS
  <1>2. ASSUME NEW i \in 0 .. n, i < n, i \in P PROVE i + 1 \in P
    <2>1. i + 1 \in 1 .. n /\ (i + 1) - 1 = i /\ g[i] \in S
      BY <1>2
    <2>2. g[i + 1] = step[i + 1][g[i]] /\ step[i + 1] \in [S -> S]
      BY <2>1
    <2> QED BY <2>1, <2>2
  <1>3. 0 .. n \subseteq P
    <2> HIDE DEF P
    <2> QED BY <1>1, <1>2, Counting
  <1> QED BY <1>3
=============================================================================
