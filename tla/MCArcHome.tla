----------------------------- MODULE MCArcHome -----------------------------
(* Scenes for TLC: the commands of each, and what may happen to them.      *)
EXTENDS ArcHome

MCLoggers == Processes \X {"cli", "tools"}
MCPort == [s1 |-> 1, s2 |-> 2, s3 |-> 1]
MCChoice == [u1 |-> [role |-> "chat", key |-> "m"], u2 |-> [role |-> "embed", key |-> "e"]]
MCTarget == [l1 |-> "m", l2 |-> "m", r1 |-> "m"]
MCRequires == [mlx |-> {"metal"}, llamacpp |-> {"cpu", "metal"}]

All == {"w1", "w2"}
Here == [k \in {"m", "e"} |-> IF k = "m" THEN All ELSE {}]
Nowhere == [k \in {"m", "e"} |-> {}]
Set == [r \in {"chat", "embed"} |-> IF r = "chat" THEN "m" ELSE None]
Unset == [r \in {"chat", "embed"} |-> None]

Scene == [commands |-> {}, config |-> Set, weights |-> Here, lengths |-> {1}, crashes |-> 0,
          reuses |-> 0, late |-> 0, errors |-> 0, sessions |-> 0, records |-> 0, failures |-> 0,
          probed |-> TRUE]

MCBudgets == {
  \* two servers, a client, each way a call may end
  [Scene EXCEPT !.commands = {"s1", "s2", "d1"}, !.crashes = 1, !.late = 1],
  [Scene EXCEPT !.commands = {"s1", "s3", "d1"}, !.crashes = 1, !.errors = 1, !.reuses = 1],
  \* control sessions and kills
  [Scene EXCEPT !.commands = {"s1", "d1", "k1"}, !.sessions = 2],
  [Scene EXCEPT !.commands = {"d1", "k1", "k2"}, !.sessions = 2, !.crashes = 1, !.errors = 1],
  [Scene EXCEPT !.commands = {"d1", "d2", "k1"}, !.sessions = 2, !.crashes = 1, !.reuses = 1],
  \* the configuration
  [Scene EXCEPT !.commands = {"u1", "u2"}, !.crashes = 2],
  [Scene EXCEPT !.commands = {"u1", "d1"}, !.config = Unset, !.crashes = 1],
  \* the models
  [Scene EXCEPT !.commands = {"l1", "l2", "d1"}, !.weights = Nowhere, !.crashes = 1],
  [Scene EXCEPT !.commands = {"l1", "r1", "d1"}, !.errors = 1],
  \* the report on the machine
  [Scene EXCEPT !.commands = {"h1", "h2", "d1"}, !.crashes = 1],
  [Scene EXCEPT !.commands = {"h1", "h2", "d1"}, !.probed = FALSE, !.errors = 1],
  \* the log
  [Scene EXCEPT !.commands = {"s1", "d1"}, !.lengths = {1, 2}, !.records = 1, !.failures = 1],
  [Scene EXCEPT !.commands = {"s1"}, !.lengths = {1, 2}, !.records = 3, !.failures = 1, !.crashes = 1]}
=============================================================================
