-------------------------- MODULE MCControlSession --------------------------
(* Bounds for TLC: every tool with its faults in a first session; a second *)
(* session only after a first one of single steps to one point, each       *)
(* delivered while control was held and the glow was on.                   *)
EXTENDS ControlSession

Bounded ==
  opened = 2 =>
    /\ op = "move" /\ n = 1 /\ aim = 0 /\ alive
    /\ \A s \in Sessions : late[s] = 0 /\ ~unlit[s]
=============================================================================
