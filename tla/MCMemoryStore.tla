--------------------------- MODULE MCMemoryStore ---------------------------
(* Small scenes for TLC: each combines the events that can disturb one     *)
(* another.                                                                *)
EXTENDS MemoryStore

W(kind, text, sess) == [kind |-> kind, text |-> text, sess |-> sess]
T(ask, answer) == [ask |-> ask, answer |-> answer]
U(text, sess) == W("turn:user", text, sess)

MCNear == {<<t, t>> : t \in Texts} \cup {<<"tidy", "clean">>, <<"clean", "tidy">>}
MCNames == [t \in Texts |-> IF t = "rust" THEN {"Rust"} ELSE {}]
\* half of it a day: at 0.99 nothing would fade within the days there are
MCFaded == [p \in (0 .. 200) \X (0 .. MaxDays) |-> p[1] \div 2 ^ p[2]]
MCCost == [t \in Texts |-> IF t = "rust" THEN 8 ELSE 3]

\* "tidy" is part of "clean"
MCLike == {<<t, t>> : t \in Texts} \cup {<<"tidy", "clean">>}

Scene == [writes |-> <<>>, turns |-> <<>>, ranks |-> {1}, runs |-> 0, forgets |-> 0, failures |-> 0,
          clears |-> 0, leaves |-> 0, crashes |-> 0, days |-> 0, prune |-> FALSE, beside |-> FALSE]

MCBudgets == {
  \* a phrase that recurs, while runs are killed and other turns are written
  [Scene EXCEPT !.writes = <<U("tidy", "s1"), U("tidy", "s2"), W("turn:assistant", "rust", "s2"),
                             U("tidy", "s2"), U("clean", "s1")>>, !.runs = 2, !.crashes = 1],
  \* memories forgotten, and their ids handed out again, while they are merged
  [Scene EXCEPT !.writes = <<U("tidy", "s1"), U("rust", "s1"), U("clean", "s1"), U("rust", "s2")>>,
                !.runs = 1, !.forgets = 2],
  \* more restatements than the nearest-neighbour query returns
  [Scene EXCEPT !.writes = <<U("tidy", "s1"), U("clean", "s1"), U("tidy", "s1"), U("clean", "s1"),
                             U("tidy", "s1")>>, !.runs = 2],
  \* decay, retrieval and pruning
  [Scene EXCEPT !.writes = <<U("tidy", "s1"), U("clean", "s1"), W("fact", "rust", "s1")>>,
                !.runs = 2, !.days = 4, !.prune = TRUE],
  \* the ranking and the prompt of a turn
  [Scene EXCEPT !.writes = <<U("rust", "s1"), W("researched", "tidy", "s1")>>,
                !.turns = <<T("rust", "clean")>>, !.ranks = {0, 1, 18}],
  [Scene EXCEPT !.writes = <<U("rust", "s1"), W("researched", "tidy", "s1"), W("fact", "clean", "s1")>>,
                !.turns = <<T("rust", "clean")>>, !.ranks = {0, 18}],
  \* a phrase that is part of a procedure, and two runs at once
  [Scene EXCEPT !.writes = <<W("pattern", "clean", "s1"), U("tidy", "s1"), U("tidy", "s2"),
                             U("tidy", "s2")>>, !.runs = 2, !.beside = TRUE],
  \* a turn beside a run and a deletion
  [Scene EXCEPT !.writes = <<U("rust", "s1")>>, !.turns = <<T("tidy", "rust")>>, !.ranks = {0, 1},
                !.runs = 1, !.days = 1, !.forgets = 1],
  \* a chat: turns that fail, memory that refuses, the process that ends
  [Scene EXCEPT !.turns = <<T("rust", "tidy"), T("tidy", "tidy"), T("rust", "clean")>>,
                !.failures = 2, !.clears = 1, !.leaves = 1]}
=============================================================================
