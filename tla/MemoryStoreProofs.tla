------------------------- MODULE MemoryStoreProofs -------------------------
(***************************************************************************)
(* Theorems about MemoryStore, for every size of the table, every set of   *)
(* texts, sessions and names, every similarity that is symmetric and every *)
(* budget: the index is truthful, what consolidation replaces is neither   *)
(* lost nor silent, what recurs is learnt, the prompt is given the best of *)
(* what is found, and memory follows the chat.                             *)
(*                                                                         *)
(* The processes hold what they once read: a turn whose entities are still *)
(* to be linked (Pending), the rows a run is to compare (Snapshot) and is  *)
(* about to replace (Chosen), the change it has still to enter in the log  *)
(* (Owed), the phrases it has counted (Learning).  The invariant says of   *)
(* each what is still true of it however the table has changed: an id that *)
(* was handed out before is excused, and every id that was, is remembered  *)
(* (Issued).                                                               *)
(***************************************************************************)
EXTENDS MemoryStore, Loops, FiniteSetTheorems, TLAPS

JobPcs == {"idle", "promote", "learn", "log", "dedupe", "compare", "supersede", "decay",
           "fade", "prune", "erase", "finish"}
SearchPcs == {"idle", "asked", "ranked", "fetched", "touched", "answering", "saying",
              "replying", "over"}
Layers == {"semantic", "procedural", "episodic"}
Snapshots == [id : Ids, text : Texts, layer : Layers]
Fades == UNION {[ids -> Saliences] : ids \in SUBSET Ids}
Jobs == [at : JobPcs, todo : SUBSET Snapshots, merged : SUBSET Ids, dups : SUBSET Ids,
         texts : SUBSET Texts, fades : Fades, due : SUBSET Texts, said : SUBSET Texts,
         entry : {None} \cup Entry, then : {"idle", "learn", "compare", "prune", "finish"}]

\* The table, and the day.
Types ==
  /\ rows \in [Ids -> {None} \cup Row] /\ vec \in [Ids -> {None} \cup Texts]
  /\ left \in Budget
  /\ day \in 0 .. MaxDays /\ day + left.days <= MaxDays
  /\ \A i \in Ids : Exists(i) => rows[i].seen <= day

\* Every id that names a row was handed out, and only such can be handed out again.
Issued == issued \subseteq Ids /\ reused \subseteq issued /\ \A i \in Ids : Exists(i) => i \in issued

\* A turn whose entities are still to be linked is the row with its id, unless
\* that was deleted.
Pending ==
  /\ linking \subseteq Ids \X Texts /\ \A l \in links : l[1] \in Ids
  /\ \A p \in linking :
       p[1] \in issued /\ (Exists(p[1]) /\ p[1] \notin reused => rows[p[1]].text = p[2])

TableInv == Types /\ Issued /\ Pending /\ IndexTruthful

\* What replaces a row is there, leads to a live row and restates it.
Replacing ==
  /\ \A i \in Ids : Exists(i) /\ rows[i].by # 0 => Exists(rows[i].by)
  /\ NothingVanishes

\* A change that is made is about to be entered, and nothing else is.
Owed ==
  /\ job.at = "log" => job.entry # None
  /\ job.at = "erase" => job.entry # None /\ job.entry.to = 0
  /\ job.entry # None => job.at \in {"log", "erase"}

\* The rows a run is to compare are as it read them, unless they were deleted,
\* and live, unless it has merged them.
Snapshot ==
  \A r \in job.todo :
    /\ r.id \in issued
    /\ Exists(r.id) /\ r.id \notin reused =>
         rows[r.id].text = r.text /\ Layer(rows[r.id].kind) = r.layer
    /\ Exists(r.id) /\ r.id \notin job.merged => Live(r.id)

\* The rows a run is about to replace are restated by the one it keeps.
Chosen ==
  job.at = "supersede" =>
    /\ job.todo # {} /\ Upcoming.id \notin job.merged
    /\ job.dups \subseteq job.merged /\ job.dups \subseteq issued
    /\ \A i \in job.dups :
         Exists(i) /\ Exists(Upcoming.id) /\ {i, Upcoming.id} \cap reused = {} =>
           Restates(i, Upcoming.id)

\* What recurred when the run began is counted, or to be learnt, or learnt.
Learning ==
  /\ job.at = "promote" => job.due \subseteq Recurring
  /\ job.at = "learn" \/ (job.at = "log" /\ job.then = "learn") =>
       \A t \in job.due : t \in job.texts \/ Learnt(t)
  /\ job.at \notin {"idle", "promote", "learn", "log"} \/ (job.at = "log" /\ job.then # "learn") =>
       \A t \in job.due : Learnt(t)

Bounded == crashed \in Nat /\ log \subseteq Entry /\ SilentBounded

JobInv == job \in Jobs /\ Owed /\ Snapshot /\ Chosen /\ Learning

\* What holds of the memories, the log and the run, given a sound table.
MemoryInv == Replacing /\ Bounded /\ JobInv

\* The turn in progress has a question and an answer.
Talking ==
  /\ search = [at |-> search.at, query |-> search.query, reply |-> search.reply,
               ranks |-> search.ranks, hits |-> search.hits, costs |-> search.costs,
               packed |-> search.packed]
  /\ search.at \in SearchPcs
  /\ search.at \notin {"idle", "over"} => {search.query, search.reply} \subseteq Texts

\* The transcript alternates; all of it but the sides of the turn in progress is the end of
\* what memory was given, and those sides are its last.
Told == Len(history) - Unsaid
Transcript ==
  /\ history \in Seq([role : {"user", "assistant"}, text : Texts])
  /\ kept \in Seq([said : [role : {"user", "assistant"}, text : Texts], stored : BOOLEAN])
  /\ \A k \in DOMAIN history : history[k].role = IF k % 2 = 1 THEN "user" ELSE "assistant"
  /\ search.at # "over" =>
       /\ Told \in 0 .. Len(kept)
       /\ \A k \in 1 .. Told : kept[Len(kept) - Told + k].said = history[k]
       /\ Told % 2 = IF search.at = "replying" THEN 1 ELSE 0
  /\ search.at = "answering" => history[Len(history)] = Said("user")
  /\ search.at = "saying" =>
       history[Len(history) - 1] = Said("user") /\ history[Len(history)] = Said("assistant")
  /\ search.at = "replying" => history[Len(history)] = Said("assistant")

\* What the search has so far is ranked, priced and packed as its step did it.
Prompting ==
  /\ search.at = "ranked" => \E ids \in SUBSET Ids : search.ranks \in [ids -> [Strategies -> Nat]]
  /\ search.at \in {"fetched", "touched", "answering"} => search.costs \in Seq(Nat)
  /\ search.at = "answering" => search.packed = PackMemories(search.costs, Allowance)
  /\ AgreementWins

\* A run holds what a run can hold, whatever another one does beside it.
Running(j) == j \in Jobs /\ (j.at = "supersede" => j.todo # {})

IInv ==
  /\ TableInv /\ Running(job) /\ Running(waiting)
  /\ ~overlapped => waiting = NoJob /\ MemoryInv
  /\ Talking /\ Transcript /\ Prompting

-----------------------------------------------------------------------------
(* Numbers.                                                                *)

LEMMA MinIsLeast ==
  ASSUME NEW S, S \subseteq Nat, S # {}
  PROVE  Min(S) \in S /\ \A y \in S : Min(S) <= y
  BY LeastNatural DEF Min

\* A set of naturals under a bound has a greatest member.
LEMMA MaxIsGreatest ==
  ASSUME NEW n \in Nat, NEW S, S \subseteq 0 .. n, S # {}
  PROVE  Max(S) \in S /\ \A y \in S : y <= Max(S)
  <1> DEFINE T == {n - x : x \in S}
  <1>0. \A x \in S : x \in Nat /\ x <= n /\ n - x \in Nat
    OBVIOUS
  <1>1. T \subseteq Nat /\ T # {}
    BY <1>0
  <1>2. PICK t \in T : \A y \in T : t <= y
    BY <1>1, LeastNatural
  <1>3. PICK x \in S : t = n - x
    BY <1>2
  <1>4. \A y \in S : y <= x
    <2> TAKE y \in S
    <2>1. n - x <= n - y
      BY <1>2, <1>3
    <2> QED BY <1>0, <2>1
  <1> QED BY <1>4 DEF Max

\* The id a new row gets names none.
LEMMA NextIdIsFree ==
  ASSUME NextId \in Ids
  PROVE  ~Exists(NextId)
  <1> DEFINE S == {0} \cup {i \in Ids : Exists(i)}
  <1>1. MaxId \in Nat /\ S \subseteq 0 .. MaxId
    BY MemoryAssumption DEF Ids
  <1>2. Max(S) \in S /\ \A y \in S : y <= Max(S)
    BY <1>1, MaxIsGreatest
  <1>3. NextId = 1 + Max(S)
    BY DEF NextId
  <1> HIDE DEF S
  <1>4. NextId \notin S
    <2> DEFINE m == Max(S)
    <2>0. m \in S /\ NextId = 1 + m /\ \A y \in S : y <= m
      BY <1>2, <1>3
    <2> HIDE DEF m
    <2>1. m \in 0 .. MaxId
      BY <1>1, <2>0
    <2>2. ~(NextId <= m)
      BY <1>1, <2>0, <2>1
    <2> QED BY <2>0, <2>2
  <1> QED BY <1>4 DEF S

-----------------------------------------------------------------------------
(* What a transaction does to the table.                                   *)

\* Nothing, or a salience and a date: the memories themselves are the same.
SameRows ==
  \A i \in Ids :
    /\ rows'[i] = None <=> rows[i] = None
    /\ rows[i] # None => /\ rows'[i].kind = rows[i].kind /\ rows'[i].text = rows[i].text
                         /\ rows'[i].sess = rows[i].sess /\ rows'[i].by = rows[i].by

\* A new memory, live and under an id that named none.
NewRow(i, kind, text, sess) ==
  /\ i \in Ids /\ rows[i] = None
  /\ rows' = [rows EXCEPT ![i] = [kind |-> kind, text |-> text, sess |-> sess, by |-> 0,
                                  salience |-> Salience(kind), seen |-> day]]
  /\ vec' = [vec EXCEPT ![i] = text]
  /\ reused' = IF i \in issued THEN reused \cup {i} ELSE reused
  /\ issued' = issued \cup {i}
  /\ UNCHANGED links

LEMMA NoneIsNoRow ==
  /\ None \notin Texts /\ None \notin Row /\ None \notin Entry
  /\ \A k \in Kinds : Salience(k) \in Saliences
  BY MemoryAssumption DEF Saliences, Salience, Kinds

\* An insert adds a row: the index is truthful, so it never fails.
LEMMA AddIsNew ==
  ASSUME IndexTruthful, NextId \in Ids, NEW kind, NEW text, NEW sess, Add(kind, text, sess)
  PROVE  NewRow(NextId, kind, text, sess) /\ vec[NextId] = None
  <1>1. rows[NextId] = None /\ vec[NextId] = None
    BY NextIdIsFree DEF Exists, IndexTruthful
  <1> QED BY <1>1 DEF Add, NewRow

\* The row it adds is live, and the others are as they were.
LEMMA NewRowFacts ==
  ASSUME Types, NEW i, NEW kind \in Kinds, NEW text \in Texts, NEW sess \in Sessions,
         NewRow(i, kind, text, sess)
  PROVE  /\ rows' \in [Ids -> {None} \cup Row] /\ vec' \in [Ids -> {None} \cup Texts]
         /\ rows'[i] # None /\ rows'[i].by = 0 /\ rows'[i].text = text /\ rows'[i].kind = kind
         /\ rows'[i].sess = sess /\ rows'[i].seen = day
         /\ \A k \in Ids \ {i} : rows'[k] = rows[k]
  <1> DEFINE r == [kind |-> kind, text |-> text, sess |-> sess, by |-> 0,
                   salience |-> Salience(kind), seen |-> day]
  <1>1. r \in Row
    BY NoneIsNoRow DEF Row, Types
  <1>2. r # None /\ r.by = 0 /\ r.text = text /\ r.kind = kind /\ r.sess = sess /\ r.seen = day
    BY <1>1, NoneIsNoRow
  <1>3. i \in Ids /\ rows' = [rows EXCEPT ![i] = r] /\ vec' = [vec EXCEPT ![i] = text]
    BY DEF NewRow
  <1> HIDE DEF r
  <1> QED BY <1>1, <1>2, <1>3 DEF Types

\* A deletion takes the row, its vector and its links, and gives back to life
\* what it had replaced.
LEMMA DeleteFacts ==
  ASSUME Types, NEW i \in Ids, Delete(i)
  PROVE  /\ rows' \in [Ids -> {None} \cup Row] /\ vec' \in [Ids -> {None} \cup Texts]
         /\ rows'[i] = None
         /\ \A k \in Ids \ {i} :
              /\ rows'[k] = None <=> rows[k] = None
              /\ rows[k] # None =>
                   /\ rows'[k].kind = rows[k].kind /\ rows'[k].text = rows[k].text
                   /\ rows'[k].sess = rows[k].sess /\ rows'[k].seen = rows[k].seen
                   /\ rows'[k].by = IF rows[k].by = i THEN 0 ELSE rows[k].by
  <1>1. \A k \in Ids : rows'[k] = CASE k = i -> None
                                    [] k # i /\ Exists(k) /\ rows[k].by = i -> [rows[k] EXCEPT !.by = 0]
                                    [] OTHER -> rows[k]
    BY DEF Delete
  <1>2. rows'[i] = None
    BY <1>1
  <1>3. ASSUME NEW k \in Ids \ {i} PROVE
          /\ rows'[k] \in {None} \cup Row
          /\ rows'[k] = None <=> rows[k] = None
          /\ rows[k] # None =>
               /\ rows'[k].kind = rows[k].kind /\ rows'[k].text = rows[k].text
               /\ rows'[k].sess = rows[k].sess /\ rows'[k].seen = rows[k].seen
               /\ rows'[k].by = IF rows[k].by = i THEN 0 ELSE rows[k].by
    <2>1. rows[k] = None \/ rows[k] \in Row
      BY DEF Types
    <2>2. CASE rows[k] # None /\ rows[k].by = i
      <3>1. rows'[k] = [rows[k] EXCEPT !.by = 0]
        BY <1>1, <2>2 DEF Exists
      <3>2. rows'[k] \in Row
        BY <2>1, <2>2, <3>1 DEF Row
      <3> QED BY <2>1, <2>2, <3>1, <3>2, NoneIsNoRow DEF Row
    <2>3. CASE ~(rows[k] # None /\ rows[k].by = i)
      <3>1. rows'[k] = rows[k]
        BY <1>1, <2>3 DEF Exists
      <3> QED BY <2>1, <2>3, <3>1
    <2> QED BY <2>2, <2>3
  <1>4. rows' = [k \in Ids |-> rows'[k]] /\ vec' = [k \in Ids |-> IF k = i THEN None ELSE vec[k]]
    BY DEF Delete, VectorDeleted
  <1>5. rows' \in [Ids -> {None} \cup Row]
    BY <1>2, <1>3, <1>4
  <1>6. vec' \in [Ids -> {None} \cup Texts]
    BY <1>4 DEF Types
  <1> QED BY <1>2, <1>3, <1>5, <1>6

-----------------------------------------------------------------------------
(* The index.                                                              *)

\* The memories stay the same: so does what points to them.
LEMMA SameTable ==
  ASSUME TableInv, SameRows, Types', UNCHANGED <<vec, links, issued, reused>>,
         entities \subseteq entities', linking' \subseteq linking
  PROVE  TableInv'
  <1>1. Issued'
    BY DEF TableInv, Issued, SameRows, Exists
  <1>2. Pending'
    BY DEF TableInv, Pending, SameRows, Exists
  <1>3. (\A i \in Ids : IF Exists(i) THEN vec[i] = rows[i].text ELSE vec[i] = None)'
    BY DEF TableInv, IndexTruthful, SameRows, Exists
  <1>4. ASSUME NEW l \in links'
        PROVE  (/\ l[2] \in entities /\ Exists(l[1])
                /\ l[1] \notin reused => l[2] \in Names[rows[l[1]].text])'
    <2>1. l \in links /\ l[1] \in Ids
      BY DEF TableInv, Pending
    <2> QED BY <2>1 DEF TableInv, IndexTruthful, SameRows, Exists
  <1>5. IndexTruthful'
    BY <1>3, <1>4 DEF IndexTruthful
  <1> QED BY <1>1, <1>2, <1>5 DEF TableInv

\* Even when what replaces them does not: nothing in the index depends on it.
LEMMA SameTexts ==
  ASSUME TableInv, rows' \in [Ids -> {None} \cup Row],
         UNCHANGED <<vec, links, issued, reused, entities, linking, day, left>>,
         \A i \in Ids : /\ rows'[i] = None <=> rows[i] = None
                        /\ rows[i] # None => rows'[i].text = rows[i].text /\ rows'[i].seen = rows[i].seen
  PROVE  TableInv'
  <1>1. Types'
    BY DEF TableInv, Types, Exists
  <1>2. Issued'
    BY DEF TableInv, Issued, Exists
  <1>3. Pending'
    BY DEF TableInv, Pending, Exists
  <1>4. (\A i \in Ids : IF Exists(i) THEN vec[i] = rows[i].text ELSE vec[i] = None)'
    BY DEF TableInv, IndexTruthful, Exists
  <1>5. ASSUME NEW l \in links'
        PROVE  (/\ l[2] \in entities /\ Exists(l[1])
                /\ l[1] \notin reused => l[2] \in Names[rows[l[1]].text])'
    <2>1. l \in links /\ l[1] \in Ids
      BY DEF TableInv, Pending
    <2> QED BY <2>1 DEF TableInv, IndexTruthful, Exists
  <1>6. IndexTruthful'
    BY <1>4, <1>5 DEF IndexTruthful
  <1> QED BY <1>1, <1>2, <1>3, <1>6 DEF TableInv

\* A new row: nothing pointed to its id, unless the id is handed out again.
LEMMA NewTable ==
  ASSUME TableInv, NEW i, NEW kind \in Kinds, NEW text \in Texts, NEW sess \in Sessions,
         NewRow(i, kind, text, sess), left' \in Budget, left'.days = left.days,
         UNCHANGED <<day, entities>>, linking' \in {linking, linking \cup {<<i, text>>}}
  PROVE  TableInv'
  <1>0. /\ rows' \in [Ids -> {None} \cup Row] /\ vec' \in [Ids -> {None} \cup Texts]
        /\ rows'[i] # None /\ rows'[i].by = 0 /\ rows'[i].text = text /\ rows'[i].kind = kind
        /\ rows'[i].sess = sess /\ rows'[i].seen = day
        /\ \A k \in Ids \ {i} : rows'[k] = rows[k]
    <2>1. Types
      BY DEF TableInv
    <2> QED BY <2>1, NewRowFacts
  <1>1. /\ i \in Ids /\ rows[i] = None /\ vec' = [vec EXCEPT ![i] = text] /\ links' = links
        /\ reused' = IF i \in issued THEN reused \cup {i} ELSE reused
        /\ issued' = issued \cup {i}
    BY DEF NewRow
  <1>2. Types'
    BY <1>0 DEF TableInv, Types, Exists
  <1>3. Issued'
    BY <1>0, <1>1 DEF TableInv, Issued, Exists
  <1>4. ASSUME NEW p \in linking'
        PROVE  /\ p \in Ids \X Texts /\ p[1] \in issued'
               /\ rows'[p[1]] # None /\ p[1] \notin reused' => rows'[p[1]].text = p[2]
    <2>1. CASE p = <<i, text>>
      BY <1>0, <1>1, <2>1
    <2>2. CASE p # <<i, text>>
      <3>1. p \in linking
        BY <2>2
      <3>2. /\ p \in Ids \X Texts /\ p[1] \in issued /\ p[1] \in Ids
            /\ rows[p[1]] # None /\ p[1] \notin reused => rows[p[1]].text = p[2]
        BY <3>1 DEF TableInv, Pending, Exists
      <3>3. p[1] = i => p[1] \in reused'
        BY <1>1, <3>2
      <3> QED BY <1>0, <1>1, <3>2, <3>3
    <2> QED BY <2>1, <2>2
  <1>5. Pending'
    BY <1>1, <1>4 DEF TableInv, Pending, Exists
  <1>6. (\A k \in Ids : IF Exists(k) THEN vec[k] = rows[k].text ELSE vec[k] = None)'
    BY <1>0, <1>1 DEF TableInv, IndexTruthful, Exists, Types
  <1>7. ASSUME NEW l \in links'
        PROVE  (/\ l[2] \in entities /\ Exists(l[1])
                /\ l[1] \notin reused => l[2] \in Names[rows[l[1]].text])'
    <2>1. l \in links /\ l[1] \in Ids /\ rows[l[1]] # None
      BY <1>1 DEF TableInv, Pending, IndexTruthful, Exists
    <2>2. l[1] # i /\ rows'[l[1]] = rows[l[1]] /\ (l[1] \notin reused' => l[1] \notin reused)
      BY <1>0, <1>1, <2>1
    <2> QED BY <2>1, <2>2 DEF TableInv, IndexTruthful, Exists
  <1>8. IndexTruthful'
    BY <1>6, <1>7 DEF IndexTruthful
  <1> QED BY <1>2, <1>3, <1>5, <1>8 DEF TableInv

\* A deletion takes what pointed to the row, or leaves it to find nothing.
LEMMA DeleteTable ==
  ASSUME TableInv, NEW i \in Ids, Delete(i), left' \in Budget, left'.days = left.days,
         UNCHANGED <<day, entities, linking>>
  PROVE  TableInv'
  <1>0. /\ rows' \in [Ids -> {None} \cup Row] /\ vec' \in [Ids -> {None} \cup Texts]
        /\ rows'[i] = None
        /\ \A k \in Ids \ {i} :
             /\ rows'[k] = None <=> rows[k] = None
             /\ rows[k] # None => rows'[k].text = rows[k].text /\ rows'[k].seen = rows[k].seen
    BY DeleteFacts DEF TableInv
  <1>1. /\ vec' = [m \in Ids |-> IF m = i THEN None ELSE vec[m]]
        /\ links' = {l \in links : l[1] # i} /\ UNCHANGED <<reused, issued>>
    BY DEF Delete, VectorDeleted
  <1>2. Types'
    BY <1>0 DEF TableInv, Types, Exists
  <1>3. Issued'
    BY <1>0, <1>1 DEF TableInv, Issued, Exists
  <1>4. ASSUME NEW p \in linking
        PROVE  /\ p \in Ids \X Texts /\ p[1] \in issued'
               /\ rows'[p[1]] # None /\ p[1] \notin reused' => rows'[p[1]].text = p[2]
    <2>1. /\ p \in Ids \X Texts /\ p[1] \in issued /\ p[1] \in Ids
          /\ rows[p[1]] # None /\ p[1] \notin reused => rows[p[1]].text = p[2]
      BY DEF TableInv, Pending, Exists
    <2> QED BY <1>0, <1>1, <2>1
  <1>5. Pending'
    BY <1>1, <1>4 DEF TableInv, Pending, Exists
  <1>6. (\A k \in Ids : IF Exists(k) THEN vec[k] = rows[k].text ELSE vec[k] = None)'
    BY <1>0, <1>1 DEF TableInv, IndexTruthful, Exists, Types
  <1>7. ASSUME NEW l \in links'
        PROVE  (/\ l[2] \in entities /\ Exists(l[1])
                /\ l[1] \notin reused => l[2] \in Names[rows[l[1]].text])'
    <2>1. l \in links /\ l[1] # i /\ l[1] \in Ids /\ rows[l[1]] # None
      BY <1>1 DEF TableInv, Pending, IndexTruthful, Exists
    <2> QED BY <1>0, <1>1, <2>1 DEF TableInv, IndexTruthful, Exists
  <1>8. IndexTruthful'
    BY <1>6, <1>7 DEF IndexTruthful
  <1> QED BY <1>2, <1>3, <1>5, <1>8 DEF TableInv

-----------------------------------------------------------------------------
(* What replaces a memory.                                                 *)

\* The row a row was replaced by, in the types.
LEMMA ByTypes == ASSUME Types, NEW i \in Ids, Exists(i) PROVE rows[i].by \in {0} \cup Ids
  BY DEF Types, Exists, Row

\* Rows with the same replacements end where they ended.
LEMMA SameReplacing ==
  ASSUME Types, Replacing, SameRows, reused' = reused
  PROVE  Replacing'
  <1>1. \A i \in Ids : /\ Exists(i)' <=> Exists(i)
                       /\ Exists(i) => rows'[i].by = rows[i].by /\ rows'[i].text = rows[i].text
                                       /\ rows'[i].kind = rows[i].kind
    BY DEF SameRows, Exists
  <1>2. LiveIds' = LiveIds
    BY <1>1 DEF LiveIds, Live
  <1>3. EndsLive'
    BY <1>1, <1>2 DEF Replacing, NothingVanishes, EndsLive
  <1>4. ASSUME NEW i \in Ids, Exists(i)' PROVE rows'[i].by \in {0} \cup Ids /\ Exists(i)
    BY <1>1, <1>4, ByTypes
  <1>5. (\A i \in Ids : Exists(i) /\ rows[i].by # 0 => Exists(rows[i].by))'
    BY <1>1, <1>4 DEF Replacing
  <1>6. ASSUME NEW i \in Ids, Exists(i)', ~Live(i)', ({i, rows[i].by} \cap reused = {})'
        PROVE  Restates(i, rows[i].by)'
    <2>1. Exists(i) /\ rows'[i].by = rows[i].by /\ rows[i].by # 0 /\ rows[i].by \in Ids
      BY <1>1, <1>4, <1>6 DEF Live
    <2>2. Restates(i, rows[i].by) /\ Exists(rows[i].by)
      BY <1>6, <2>1 DEF Replacing, NothingVanishes, Live
    <2> QED BY <1>1, <2>1, <2>2 DEF Restates
  <1> QED BY <1>3, <1>5, <1>6 DEF Replacing, NothingVanishes

\* Nothing was replaced by the row that is new.
LEMMA NewReplacing ==
  ASSUME Types, Replacing, NEW i \in Ids, ~Exists(i), rows'[i] # None, rows'[i].by = 0,
         \A k \in Ids \ {i} : rows'[k] = rows[k], reused \subseteq reused'
  PROVE  Replacing'
  <1>1. \A k \in Ids : Exists(k) => k # i /\ rows'[k] = rows[k] /\ Exists(k)'
    BY DEF Exists
  <1>2. \A k \in Ids : Exists(k)' => k = i \/ Exists(k)
    BY DEF Exists
  <1>3. (\A k \in Ids : Exists(k) /\ rows[k].by # 0 => Exists(rows[k].by))'
    <2> TAKE k \in Ids
    <2>1. CASE k = i
      BY <2>1
    <2>2. CASE k # i /\ Exists(k)
      BY <1>1, <2>2, ByTypes DEF Replacing
    <2> QED BY <1>2, <2>1, <2>2
  <1>4. EndsLive'
    <2> SUFFICES ASSUME NEW S \in SUBSET Ids, LiveIds' \subseteq S,
                        \A k \in Ids \ S : Exists(k)' => rows'[k].by \notin S
                 PROVE  \A k \in Ids : Exists(k)' => k \in S
      BY DEF EndsLive
    <2>1. LiveIds \subseteq S
      BY <1>1 DEF LiveIds, Live
    <2>2. \A k \in Ids \ S : Exists(k) => rows[k].by \notin S
      BY <1>1
    <2>3. \A k \in Ids : Exists(k) => k \in S
      BY <2>1, <2>2 DEF Replacing, NothingVanishes, EndsLive
    <2>4. i \in S
      BY DEF LiveIds, Live, Exists
    <2> QED BY <1>2, <2>3, <2>4
  <1>5. ASSUME NEW k \in Ids, Exists(k)', ~Live(k)', ({k, rows[k].by} \cap reused = {})'
        PROVE  Restates(k, rows[k].by)'
    <2>1. k # i /\ Exists(k) /\ rows'[k] = rows[k] /\ rows[k].by # 0 /\ ~Live(k)
      BY <1>2, <1>5 DEF Live, Exists
    <2>2. Exists(rows[k].by) /\ rows[k].by \in Ids
      BY <2>1, ByTypes DEF Replacing
    <2>3. Restates(k, rows[k].by)
      BY <1>5, <2>1 DEF Replacing, NothingVanishes
    <2> QED BY <1>1, <2>1, <2>2, <2>3 DEF Restates
  <1> QED BY <1>3, <1>4, <1>5 DEF Replacing, NothingVanishes

\* What was replaced by a row that is deleted is live again.
LEMMA DeleteReplacing ==
  ASSUME Types, Replacing, NEW i \in Ids, Delete(i)
  PROVE  Replacing'
  <1>0. /\ rows'[i] = None
        /\ \A k \in Ids \ {i} :
             /\ rows'[k] = None <=> rows[k] = None
             /\ rows[k] # None =>
                  /\ rows'[k].kind = rows[k].kind /\ rows'[k].text = rows[k].text
                  /\ rows'[k].by = IF rows[k].by = i THEN 0 ELSE rows[k].by
    BY DeleteFacts
  <1>1. reused' = reused
    BY DEF Delete
  <1>2. \A k \in Ids : Exists(k)' <=> k # i /\ Exists(k)
    BY <1>0 DEF Exists
  <1>3. \A k \in Ids : Exists(k)' => /\ rows'[k].kind = rows[k].kind /\ rows'[k].text = rows[k].text
                                     /\ rows'[k].by = IF rows[k].by = i THEN 0 ELSE rows[k].by
    BY <1>0 DEF Exists
  <1>4. (\A k \in Ids : Exists(k) /\ rows[k].by # 0 => Exists(rows[k].by))'
    <2> SUFFICES ASSUME NEW k \in Ids, Exists(k)', rows'[k].by # 0 PROVE Exists(rows[k].by)'
      OBVIOUS
    <2>1. rows'[k].by = rows[k].by /\ rows[k].by # i /\ Exists(k) /\ rows[k].by # 0
      BY <1>2, <1>3
    <2>2. Exists(rows[k].by) /\ rows[k].by \in Ids
      BY <2>1, ByTypes DEF Replacing
    <2>3. rows'[rows[k].by] # None
      BY <1>0, <2>1, <2>2 DEF Exists
    <2> QED BY <2>1, <2>3 DEF Exists
  <1>5. EndsLive'
    <2> SUFFICES ASSUME NEW S \in SUBSET Ids, LiveIds' \subseteq S,
                        \A k \in Ids \ S : Exists(k)' => rows'[k].by \notin S
                 PROVE  \A k \in Ids : Exists(k)' => k \in S
      BY DEF EndsLive
    <2> DEFINE T == S \cup {i}
    <2>1. \A k \in Ids : Exists(k) /\ rows[k].by \in {0, i} => k \in T
      BY <1>2, <1>3 DEF LiveIds, Live
    <2>2. LiveIds \subseteq T
      BY <2>1 DEF LiveIds, Live
    <2>3. \A k \in Ids \ T : Exists(k) => rows[k].by \notin T
      BY <1>2, <1>3, <2>1
    <2>4. T \in SUBSET Ids
      OBVIOUS
    <2> HIDE DEF T
    <2>5. \A k \in Ids : Exists(k) => k \in T
      BY <2>2, <2>3, <2>4 DEF Replacing, NothingVanishes, EndsLive
    <2> QED BY <1>2, <2>5 DEF T
  <1>6. ASSUME NEW k \in Ids, Exists(k)', ~Live(k)', ({k, rows[k].by} \cap reused = {})'
        PROVE  Restates(k, rows[k].by)'
    <2>1. rows'[k].by # 0
      BY <1>6 DEF Live
    <2>2. rows'[k].by = rows[k].by /\ rows[k].by # i /\ k # i /\ Exists(k) /\ ~Live(k)
      BY <1>2, <1>3, <1>6, <2>1 DEF Live
    <2>3. Exists(rows[k].by) /\ rows[k].by \in Ids
      BY <2>1, <2>2, ByTypes DEF Replacing
    <2>4. Restates(k, rows[k].by)
      BY <1>1, <1>6, <2>2 DEF Replacing, NothingVanishes
    <2>5. Exists(rows[k].by)'
      BY <1>2, <2>2, <2>3
    <2> QED BY <1>3, <1>6, <2>2, <2>3, <2>4, <2>5 DEF Restates
  <1> QED BY <1>4, <1>5, <1>6 DEF Replacing, NothingVanishes

\* Rows are replaced by a live one that none of them is.
LEMMA SupersedeReplacing ==
  ASSUME Types, Replacing, NEW w \in Ids, NEW dups \in SUBSET Ids, Live(w), w \notin dups,
         rows' = [i \in Ids |-> IF i \in dups /\ Exists(i) THEN [rows[i] EXCEPT !.by = w]
                                ELSE rows[i]],
         \A i \in dups : Exists(i) /\ {i, w} \cap reused = {} => Restates(i, w),
         reused' = reused
  PROVE  Replacing' /\ rows' \in [Ids -> {None} \cup Row]
  <1>0. \A i \in Ids : rows[i] = None \/ rows[i] \in Row
    BY DEF Types
  <1>1. ASSUME NEW i \in Ids
        PROVE  /\ rows'[i] \in {None} \cup Row
               /\ rows'[i] = None <=> rows[i] = None
               /\ rows[i] # None =>
                    /\ rows'[i].kind = rows[i].kind /\ rows'[i].text = rows[i].text
                    /\ rows'[i].by = IF i \in dups THEN w ELSE rows[i].by
    <2>1. CASE i \in dups /\ rows[i] # None
      <3>1. rows'[i] = [rows[i] EXCEPT !.by = w] /\ rows[i] \in Row
        BY <1>0, <2>1 DEF Exists
      <3>2. rows'[i] \in Row
        BY <3>1 DEF Row
      <3> QED BY <2>1, <3>1, <3>2, NoneIsNoRow DEF Row
    <2>2. CASE ~(i \in dups /\ rows[i] # None)
      <3>1. rows'[i] = rows[i]
        BY <2>2 DEF Exists
      <3> QED BY <1>0, <2>2, <3>1
    <2> QED BY <2>1, <2>2
  <1>2. \A i \in Ids : Exists(i)' <=> Exists(i)
    BY <1>1 DEF Exists
  <1>3. \A i \in Ids : Exists(i) =>
          /\ rows'[i].kind = rows[i].kind /\ rows'[i].text = rows[i].text
          /\ rows'[i].by = IF i \in dups THEN w ELSE rows[i].by
    BY <1>1 DEF Exists
  <1>4. Exists(w) /\ rows[w].by = 0 /\ w # 0
    BY DEF Live, Ids
  <1>5. (\A i \in Ids : Exists(i) /\ rows[i].by # 0 => Exists(rows[i].by))'
    <2> SUFFICES ASSUME NEW i \in Ids, Exists(i)', rows'[i].by # 0 PROVE Exists(rows[i].by)'
      OBVIOUS
    <2>1. Exists(i)
      BY <1>2
    <2>2. CASE i \in dups
      <3>1. rows'[i].by = w /\ Exists(w)'
        BY <1>2, <1>3, <1>4, <2>1, <2>2
      <3> QED BY <3>1 DEF Exists
    <2>3. CASE i \notin dups
      <3>1. rows'[i].by = rows[i].by /\ Exists(rows[i].by) /\ rows[i].by \in Ids
        BY <1>3, <2>1, <2>3, ByTypes DEF Replacing
      <3>2. Exists(rows[i].by) /\ rows'[rows[i].by] # None
        BY <1>1, <3>1 DEF Exists
      <3> QED BY <3>1, <3>2 DEF Exists
    <2> QED BY <2>2, <2>3
  <1>6. EndsLive'
    <2> SUFFICES ASSUME NEW S \in SUBSET Ids, LiveIds' \subseteq S,
                        \A i \in Ids \ S : Exists(i)' => rows'[i].by \notin S
                 PROVE  \A i \in Ids : Exists(i)' => i \in S
      BY DEF EndsLive
    <2>1. w \in S
      BY <1>2, <1>3, <1>4 DEF LiveIds, Live
    <2>2. \A i \in dups : Exists(i) => i \in S
      BY <1>2, <1>3, <2>1
    <2>3. LiveIds \subseteq S
      BY <1>2, <1>3, <2>2 DEF LiveIds, Live
    <2>4. \A i \in Ids \ S : Exists(i) => rows[i].by \notin S
      BY <1>2, <1>3, <2>2
    <2>5. \A i \in Ids : Exists(i) => i \in S
      BY <2>3, <2>4 DEF Replacing, NothingVanishes, EndsLive
    <2> QED BY <1>2, <2>5
  <1>7. ASSUME NEW i \in Ids, Exists(i)', ~Live(i)', ({i, rows[i].by} \cap reused = {})'
        PROVE  Restates(i, rows[i].by)'
    <2>0. Exists(i) /\ rows'[i].by # 0
      BY <1>2, <1>7 DEF Live
    <2>1. CASE i \in dups
      <3>1. rows'[i].by = w
        BY <1>3, <2>0, <2>1
      <3>2. Restates(i, w)
        BY <1>7, <2>0, <2>1, <3>1
      <3> QED BY <1>3, <1>4, <2>0, <3>1, <3>2 DEF Restates
    <2>2. CASE i \notin dups
      <3>1. rows'[i].by = rows[i].by /\ ~Live(i)
        BY <1>3, <2>0, <2>2 DEF Live
      <3>2. Exists(rows[i].by) /\ rows[i].by \in Ids
        BY <2>0, <3>1, ByTypes DEF Replacing
      <3>3. Restates(i, rows[i].by)
        BY <1>7, <2>0, <3>1 DEF Replacing, NothingVanishes
      <3> QED BY <1>3, <2>0, <3>1, <3>2, <3>3 DEF Restates
    <2> QED BY <2>1, <2>2
  <1>8. rows' \in [Ids -> {None} \cup Row]
    BY <1>1
  <1> QED BY <1>5, <1>6, <1>7, <1>8 DEF Replacing, NothingVanishes

-----------------------------------------------------------------------------
(* What is on the log.                                                     *)

Entries == log \cup (IF job.entry = None THEN {} ELSE {job.entry})
Unentered == {i \in Ids : Exists(i) /\ rows[i].by # 0 /\ ~Entered(i)}

LEMMA IdsFinite == IsFiniteSet(Ids) /\ \A S \in SUBSET Ids : IsFiniteSet(S)
  <1>1. IsFiniteSet(Ids)
    BY MemoryAssumption, FS_Interval, 1 \in Int DEF Ids
  <1> QED BY <1>1, FS_Subset

\* A row counts as entered by the entries there are.
LEMMA EnteredBy == ASSUME NEW i PROVE Entered(i) <=> \E e \in Entries : i \in e.ids /\ e.to = rows[i].by
  BY DEF Entered, Entries

\* No row becomes unentered: no more are silent than were.
LEMMA SilentStays ==
  ASSUME Types, Bounded, crashed' = crashed, log' \subseteq Entry,
         \A i \in Ids : i \in Unentered' => i \in Unentered /\ rows'[i].by = rows[i].by
  PROVE  Bounded'
  <1>1. Silent' \subseteq Silent /\ Silent \subseteq Ids
    BY ByTypes DEF Silent, Unentered
  <1>2. Cardinality(Silent') <= Cardinality(Silent) /\ Cardinality(Silent') \in Nat
        /\ Cardinality(Silent) \in Nat
    BY <1>1, IdsFinite, FS_Subset, FS_CardinalityType
  <1> QED BY <1>2 DEF Bounded, SilentBounded

\* Rows and entries that stay, or more entries.
LEMMA SilentSame ==
  ASSUME Types, Bounded, SameRows, crashed' = crashed, log' \subseteq Entry, Entries \subseteq Entries'
  PROVE  Bounded'
  <1>1. ASSUME NEW i \in Ids, i \in Unentered' PROVE i \in Unentered /\ rows'[i].by = rows[i].by
    <2>1. Exists(i) /\ rows'[i].by = rows[i].by /\ rows[i].by # 0
      BY <1>1 DEF Unentered, SameRows, Exists
    <2>2. Entered(i) => Entered(i)'
      BY <2>1, EnteredBy DEF Entered, Entries
    <2> QED BY <1>1, <2>1, <2>2 DEF Unentered
  <1> QED BY <1>1, SilentStays

\* A new row is replaced by nothing.
LEMMA SilentNew ==
  ASSUME Types, Bounded, NEW i \in Ids, rows'[i].by = 0, \A k \in Ids \ {i} : rows'[k] = rows[k],
         crashed' = crashed, log' \subseteq Entry, Entries \subseteq Entries'
  PROVE  Bounded'
  <1>1. ASSUME NEW k \in Ids, k \in Unentered' PROVE k \in Unentered /\ rows'[k].by = rows[k].by
    <2>1. Exists(k) /\ rows'[k] = rows[k] /\ rows[k].by # 0
      BY <1>1 DEF Unentered, Exists
    <2>2. Entered(k) => Entered(k)'
      BY <2>1 DEF Entered, Entries
    <2> QED BY <1>1, <2>1, <2>2 DEF Unentered
  <1> QED BY <1>1, SilentStays

\* A deletion takes its row out of the entries it replaced, whose rows are live.
LEMMA SilentDelete ==
  ASSUME Types, Bounded, NEW i \in Ids, Delete(i), crashed' = crashed, job'.entry = job.entry
  PROVE  Bounded'
  <1>0. /\ rows'[i] = None
        /\ \A k \in Ids \ {i} :
             /\ rows'[k] = None <=> rows[k] = None
             /\ rows[k] # None => rows'[k].by = IF rows[k].by = i THEN 0 ELSE rows[k].by
    BY DeleteFacts
  <1>1. log' = {IF e.to = i THEN [e EXCEPT !.to = 0] ELSE e : e \in log}
    BY DEF Delete
  <1>2. log' \subseteq Entry
    BY <1>1 DEF Bounded, Entry
  <1>3. ASSUME NEW k \in Ids, k \in Unentered' PROVE k \in Unentered /\ rows'[k].by = rows[k].by
    <2>1. Exists(k) /\ rows'[k].by = rows[k].by /\ rows[k].by # 0 /\ rows[k].by # i
      BY <1>0, <1>3 DEF Unentered, Exists
    <2>2. \A e \in log : e.to # i => e \in log'
      BY <1>1
    <2>3. Entered(k) => Entered(k)'
      BY <2>1, <2>2 DEF Entered
    <2> QED BY <1>3, <2>1, <2>3 DEF Unentered
  <1> QED BY <1>2, <1>3, SilentStays

\* The rows that are replaced are the ones the entry names.
LEMMA SilentSupersede ==
  ASSUME Types, Bounded, NEW w \in Ids, NEW dups \in SUBSET Ids,
         rows' = [i \in Ids |-> IF i \in dups /\ Exists(i) THEN [rows[i] EXCEPT !.by = w]
                                ELSE rows[i]],
         log' = log, crashed' = crashed, job.entry = None,
         job'.entry = [ids |-> dups, to |-> w]
  PROVE  Bounded'
  <1>1. ASSUME NEW i \in Ids, i \in Unentered' PROVE i \in Unentered /\ rows'[i].by = rows[i].by
    <2>1. CASE i \in dups /\ Exists(i)
      <3>1. rows'[i] = [rows[i] EXCEPT !.by = w] /\ rows[i] \in Row
        BY <2>1 DEF Types, Exists
      <3>2. rows'[i].by = w
        BY <3>1 DEF Row
      <3>3. job'.entry # None /\ i \in job'.entry.ids /\ job'.entry.to = w
        <4>1. [ids |-> dups, to |-> w] \in Entry
          BY DEF Entry
        <4> QED BY <2>1, <4>1, NoneIsNoRow
      <3>4. Entered(i)'
        BY <3>2, <3>3 DEF Entered
      <3> QED BY <1>1, <3>4 DEF Unentered
    <2>2. CASE ~(i \in dups /\ Exists(i))
      <3>1. rows'[i] = rows[i]
        BY <2>2
      <3>2. Entered(i) => Entered(i)'
        BY <3>1 DEF Entered
      <3> QED BY <1>1, <3>1, <3>2 DEF Unentered, Exists
    <2> QED BY <2>1, <2>2
  <1> QED BY <1>1, SilentStays DEF Bounded

\* A kill leaves at most one change out of the log: the one that was to be entered.
LEMMA SilentCrash ==
  ASSUME Types, Bounded, rows' = rows, log' = log, crashed' = crashed + 1, job'.entry = None
  PROVE  Bounded'
  <1>1. Silent' \subseteq Silent \cup {job.entry.to}
    <2>1. ASSUME NEW i \in Ids, i \in Unentered', i \notin Unentered PROVE rows[i].by = job.entry.to
      <3>1. Entered(i) /\ ~Entered(i)'
        BY <2>1 DEF Unentered, Exists
      <3> QED BY <3>1 DEF Entered
    <2> QED BY <2>1 DEF Silent, Unentered, Exists
  <1>2. Silent \subseteq Ids
    BY ByTypes DEF Silent
  <1>3. IsFiniteSet(Silent)
    BY <1>2, IdsFinite
  <1>4. /\ IsFiniteSet(Silent \cup {job.entry.to})
        /\ Cardinality(Silent \cup {job.entry.to}) <= Cardinality(Silent) + 1
    <2> DEFINE more == Silent \cup {job.entry.to}
    <2>0. Cardinality(Silent) \in Nat
      BY <1>3, FS_CardinalityType
    <2>1. /\ IsFiniteSet(more)
          /\ Cardinality(more) \in {Cardinality(Silent), Cardinality(Silent) + 1}
      BY <1>3, FS_AddElement
    <2> QED BY <2>0, <2>1
  <1>5. Cardinality(Silent') <= Cardinality(Silent \cup {job.entry.to})
    BY <1>1, <1>4, FS_Subset
  <1>6. {Cardinality(Silent'), Cardinality(Silent), Cardinality(Silent \cup {job.entry.to})} \subseteq Nat
    BY <1>1, <1>3, <1>4, FS_Subset, FS_CardinalityType
  <1> QED BY <1>4, <1>5, <1>6 DEF Bounded, SilentBounded

-----------------------------------------------------------------------------
(* What a run has read.                                                    *)

\* Rows that stay, and less to compare.
LEMMA SnapshotSame ==
  ASSUME Snapshot, job \in Jobs, SameRows, UNCHANGED <<issued, reused>>,
         job'.todo \subseteq job.todo, job.merged \subseteq job'.merged
  PROVE  Snapshot'
  <1> SUFFICES ASSUME NEW r \in job'.todo
               PROVE (/\ r.id \in issued
                      /\ Exists(r.id) /\ r.id \notin reused =>
                           rows[r.id].text = r.text /\ Layer(rows[r.id].kind) = r.layer
                      /\ Exists(r.id) /\ r.id \notin job.merged => Live(r.id))'
    BY DEF Snapshot
  <1>1. r \in job.todo /\ r.id \in Ids
    BY DEF Jobs, Snapshots
  <1>2. r.id \notin job'.merged => r.id \notin job.merged
    OBVIOUS
  <1> QED BY <1>1, <1>2 DEF Snapshot, SameRows, Exists, Live

\* A new row under an id the run has read is excused.
LEMMA SnapshotNew ==
  ASSUME Snapshot, job \in Jobs, NEW i, rows'[i] # None, rows'[i].by = 0,
         \A k \in Ids \ {i} : rows'[k] = rows[k],
         reused' = IF i \in issued THEN reused \cup {i} ELSE reused,
         issued' = issued \cup {i}, job'.todo = job.todo, job'.merged = job.merged
  PROVE  Snapshot'
  <1> SUFFICES ASSUME NEW r \in job.todo
               PROVE /\ r.id \in issued'
                     /\ rows'[r.id] # None /\ r.id \notin reused' =>
                          rows'[r.id].text = r.text /\ Layer(rows'[r.id].kind) = r.layer
                     /\ rows'[r.id] # None /\ r.id \notin job.merged => rows'[r.id].by = 0
    BY DEF Snapshot, Exists, Live
  <1>1. /\ r.id \in Ids /\ r.id \in issued
        /\ rows[r.id] # None /\ r.id \notin reused =>
             rows[r.id].text = r.text /\ Layer(rows[r.id].kind) = r.layer
        /\ rows[r.id] # None /\ r.id \notin job.merged => rows[r.id].by = 0
    BY DEF Jobs, Snapshots, Snapshot, Exists, Live
  <1>2. CASE r.id = i
    BY <1>1, <1>2
  <1>3. CASE r.id # i
    BY <1>1, <1>3
  <1> QED BY <1>2, <1>3

LEMMA SnapshotDelete ==
  ASSUME Snapshot, job \in Jobs, Types, NEW i \in Ids, Delete(i),
         job'.todo = job.todo, job'.merged = job.merged
  PROVE  Snapshot'
  <1> SUFFICES ASSUME NEW r \in job.todo
               PROVE /\ r.id \in issued'
                     /\ rows'[r.id] # None /\ r.id \notin reused' =>
                          rows'[r.id].text = r.text /\ Layer(rows'[r.id].kind) = r.layer
                     /\ rows'[r.id] # None /\ r.id \notin job.merged => rows'[r.id].by = 0
    BY DEF Snapshot, Exists, Live
  <1>0. /\ rows'[i] = None
        /\ \A k \in Ids \ {i} :
             /\ rows'[k] = None <=> rows[k] = None
             /\ rows[k] # None =>
                  /\ rows'[k].kind = rows[k].kind /\ rows'[k].text = rows[k].text
                  /\ rows'[k].by = IF rows[k].by = i THEN 0 ELSE rows[k].by
    BY DeleteFacts
  <1>1. /\ r.id \in Ids /\ r.id \in issued
        /\ rows[r.id] # None /\ r.id \notin reused =>
             rows[r.id].text = r.text /\ Layer(rows[r.id].kind) = r.layer
        /\ rows[r.id] # None /\ r.id \notin job.merged => rows[r.id].by = 0
    BY DEF Jobs, Snapshots, Snapshot, Exists, Live
  <1>2. issued' = issued /\ reused' = reused
    BY DEF Delete
  <1>3. 0 # i
    BY DEF Ids
  <1>4. CASE r.id = i
    BY <1>0, <1>1, <1>2, <1>4
  <1>5. CASE r.id # i
    <2>1. /\ rows'[r.id] = None <=> rows[r.id] = None
          /\ rows[r.id] # None =>
               /\ rows'[r.id].kind = rows[r.id].kind /\ rows'[r.id].text = rows[r.id].text
               /\ rows'[r.id].by = IF rows[r.id].by = i THEN 0 ELSE rows[r.id].by
      BY <1>0, <1>1, <1>5
    <2> QED BY <1>1, <1>2, <2>1
  <1> QED BY <1>4, <1>5

\* The rows still to be compared have a first one, in order of id.
LEMMA UpcomingIsThere ==
  ASSUME job \in Jobs, job.todo # {}
  PROVE  Upcoming \in job.todo /\ Upcoming.id \in Ids
  <1> DEFINE S == {r.id : r \in job.todo}
  <1>1. job.todo \subseteq Snapshots
    BY DEF Jobs
  <1>2. \A r \in job.todo : r.id \in Ids /\ r.id \in Nat
    BY <1>1 DEF Snapshots, Ids
  <1>3. S \subseteq Nat /\ S # {}
    BY <1>2
  <1>4. PICK x \in S : \A y \in S : x <= y
    BY <1>3, LeastNatural
  <1>5. \E row \in job.todo : \A other \in job.todo : row.id <= other.id
    BY <1>4
  <1>6. Upcoming \in job.todo
    BY <1>5 DEF Upcoming
  <1> QED BY <1>2, <1>6

\* A memory that is there and whose id was handed out once is the one it was.
SameMemories ==
  /\ reused \subseteq reused' /\ issued \subseteq issued'
  /\ \A i \in Ids : i \in issued /\ rows'[i] # None /\ i \notin reused' =>
       rows[i] # None /\ rows'[i].kind = rows[i].kind /\ rows'[i].text = rows[i].text

\* A run about to replace rows still is, whatever happened to the table.
LEMMA ChosenStays ==
  ASSUME Chosen, Snapshot, job \in Jobs, SameMemories,
         job'.at = job.at, job'.todo = job.todo, job'.dups = job.dups, job'.merged = job.merged
  PROVE  Chosen'
  <1> SUFFICES ASSUME job.at = "supersede"
               PROVE  (/\ job.todo # {} /\ Upcoming.id \notin job.merged
                       /\ job.dups \subseteq job.merged /\ job.dups \subseteq issued
                       /\ \A i \in job.dups :
                            Exists(i) /\ Exists(Upcoming.id) /\ {i, Upcoming.id} \cap reused = {} =>
                              Restates(i, Upcoming.id))'
    BY DEF Chosen
  <1> DEFINE w == Upcoming.id
  <1>1. Upcoming' = Upcoming
    BY DEF Upcoming
  <1>2. /\ job.todo # {} /\ w \notin job.merged
        /\ job.dups \subseteq job.merged /\ job.dups \subseteq issued
        /\ \A i \in job.dups : Exists(i) /\ Exists(w) /\ {i, w} \cap reused = {} => Restates(i, w)
    BY DEF Chosen
  <1>3. w \in Ids /\ w \in issued
    BY <1>2, UpcomingIsThere DEF Snapshot
  <1>4. w' = w
    BY <1>1
  <1> HIDE DEF w
  <1>5. ASSUME NEW i \in job.dups, rows'[i] # None, rows'[w] # None, {i, w} \cap reused' = {}
        PROVE  Restates(i, w)'
    <2>1. i \in Ids /\ i \in issued
      BY <1>2, <1>5 DEF Jobs
    <2>2. /\ rows[i] # None /\ rows'[i].kind = rows[i].kind /\ rows'[i].text = rows[i].text
          /\ rows[w] # None /\ rows'[w].kind = rows[w].kind /\ rows'[w].text = rows[w].text
      BY <1>3, <1>5, <2>1 DEF SameMemories
    <2>3. Restates(i, w)
      BY <1>2, <1>5, <2>2 DEF SameMemories, Exists
    <2> QED BY <1>4, <2>2, <2>3 DEF Restates
  <1>6. (\A i \in job.dups : Exists(i) /\ Exists(w) /\ {i, w} \cap reused = {} => Restates(i, w))'
    BY <1>4, <1>5 DEF Exists
  <1> QED BY <1>2, <1>4, <1>6 DEF w, SameMemories

\* What a run counts, learns and has learnt, as long as the memories that say
\* so are there.
LEMMA LearningStays ==
  ASSUME Learning, job'.at = job.at, job'.then = job.then, job'.texts = job.texts,
         job'.due \subseteq job.due,
         \A i \in Ids : rows[i] # None /\ (\E t \in job'.due : <<t, rows[i].text>> \in Like) =>
           /\ rows'[i] # None /\ rows'[i].text = rows[i].text /\ rows'[i].kind = rows[i].kind
           /\ rows'[i].sess = rows[i].sess /\ (rows[i].by = 0 => rows'[i].by = 0)
  PROVE  Learning'
  <1>1. ASSUME NEW t \in job'.due, Learnt(t) PROVE Learnt(t)'
    BY <1>1 DEF Learnt, Exists
  <1>0. \A t \in Texts : <<t, t>> \in Like
    BY MemoryAssumption
  <1>2. ASSUME NEW t \in job'.due, t \in Recurring PROVE t \in Recurring'
    <2> DEFINE A == Asked(t)
               B == Asked(t)'
               X == {rows[i].sess : i \in A}
               Y == {rows'[i].sess : i \in B}
    <2>0. <<t, t>> \in Like
      BY <1>0, <1>2 DEF Recurring
    <2>1. A \subseteq B /\ B \subseteq Ids
      BY <1>2, <2>0 DEF Asked, LiveIds, Live, Exists
    <2>2. X \subseteq Y
      <3> SUFFICES ASSUME NEW i \in A PROVE rows[i].sess \in Y
        OBVIOUS
      <3>1. i \in B /\ rows'[i].sess = rows[i].sess
        BY <1>2, <2>0, <2>1 DEF Asked, LiveIds, Live, Exists
      <3> QED BY <3>1
    <2> HIDE DEF A, B
    <2>3. IsFiniteSet(B) /\ IsFiniteSet(Y)
      <3>1. IsFiniteSet(B)
        BY <2>1, IdsFinite
      <3>2. [i \in B |-> rows'[i].sess] \in Surjection(B, Y)
        BY DEF Surjection
      <3> QED BY <3>1, <3>2, FS_Surjection
    <2> HIDE DEF X, Y
    <2>4. /\ Cardinality(A) <= Cardinality(B) /\ Cardinality(X) <= Cardinality(Y)
          /\ {Cardinality(A), Cardinality(B), Cardinality(X), Cardinality(Y)} \subseteq Nat
      BY <2>1, <2>2, <2>3, FS_Subset, FS_CardinalityType
    <2>5. t \in Texts /\ Cardinality(A) >= PromoteAfter /\ Cardinality(X) >= 2
      BY <1>2 DEF Recurring, A, X
    <2>6. Cardinality(B) >= PromoteAfter /\ Cardinality(Y) >= 2
      BY <2>4, <2>5, MemoryAssumption
    <2> QED BY <2>5, <2>6 DEF Recurring, B, Y
  <1>3. (job.at = "promote" => job.due \subseteq Recurring)'
    BY <1>2 DEF Learning
  <1>4. (job.at = "learn" \/ (job.at = "log" /\ job.then = "learn") =>
           \A t \in job.due : t \in job.texts \/ Learnt(t))'
    BY <1>1 DEF Learning
  <1>5. (job.at \notin {"idle", "promote", "learn", "log"} \/ (job.at = "log" /\ job.then # "learn") =>
           \A t \in job.due : Learnt(t))'
    BY <1>1 DEF Learning
  <1> QED BY <1>3, <1>4, <1>5 DEF Learning

-----------------------------------------------------------------------------
(* What the turns and the deletions do to a run, and the run's own writes. *)

LEMMA MemoriesSame == ASSUME SameRows, UNCHANGED <<issued, reused>> PROVE SameMemories
  BY DEF SameRows, SameMemories

LEMMA MemoriesNew ==
  ASSUME TableInv, NEW i, NEW kind \in Kinds, NEW text \in Texts, NEW sess \in Sessions,
         NewRow(i, kind, text, sess)
  PROVE  SameMemories
  <1>1. \A k \in Ids \ {i} : rows'[k] = rows[k]
    BY NewRowFacts DEF TableInv
  <1> QED BY <1>1 DEF NewRow, SameMemories

LEMMA MemoriesDelete ==
  ASSUME TableInv, NEW i \in Ids, Delete(i)
  PROVE  SameMemories
  <1>1. /\ rows'[i] = None
        /\ \A k \in Ids \ {i} :
             /\ rows'[k] = None <=> rows[k] = None
             /\ rows[k] # None => rows'[k].kind = rows[k].kind /\ rows'[k].text = rows[k].text
    BY DeleteFacts DEF TableInv
  <1>2. UNCHANGED <<issued, reused>>
    BY DEF Delete
  <1> QED BY <1>1, <1>2 DEF SameMemories

\* The memories stay the same: so does what the run holds of them.
LEMMA SameRun ==
  ASSUME TableInv, MemoryInv, SameRows, UNCHANGED <<issued, reused, log, job, crashed>>
  PROVE  MemoryInv'
  <1>1. Types /\ Replacing /\ Bounded /\ job \in Jobs /\ Owed /\ Snapshot /\ Chosen /\ Learning
    BY DEF TableInv, MemoryInv, JobInv
  <1>2. Replacing'
    BY <1>1, SameReplacing
  <1>3. Bounded'
    <2>1. log' \subseteq Entry /\ Entries \subseteq Entries'
      BY <1>1 DEF Bounded, Entries
    <2> QED BY <1>1, <2>1, SilentSame
  <1>4. Snapshot'
    BY <1>1, SnapshotSame
  <1>5. Chosen'
    BY <1>1, MemoriesSame, ChosenStays
  <1>6. Learning'
    BY <1>1, LearningStays DEF SameRows
  <1> QED BY <1>1, <1>2, <1>3, <1>4, <1>5, <1>6 DEF MemoryInv, JobInv, Owed

\* A new memory.
LEMMA NewRun ==
  ASSUME TableInv, MemoryInv, NEW i, NEW kind \in Kinds, NEW text \in Texts,
         NEW sess \in Sessions, NewRow(i, kind, text, sess), UNCHANGED <<log, job, crashed>>
  PROVE  MemoryInv'
  <1>0. /\ i \in Ids /\ rows[i] = None /\ rows'[i] # None /\ rows'[i].by = 0
        /\ \A k \in Ids \ {i} : rows'[k] = rows[k]
        /\ reused' = IF i \in issued THEN reused \cup {i} ELSE reused
        /\ issued' = issued \cup {i}
    BY NewRowFacts DEF TableInv, NewRow
  <1>1. Types /\ Replacing /\ Bounded /\ job \in Jobs /\ Owed /\ Snapshot /\ Chosen /\ Learning
    BY DEF TableInv, MemoryInv, JobInv
  <1>2. Replacing'
    BY <1>0, <1>1, NewReplacing DEF Exists
  <1>3. Bounded'
    <2>1. log' \subseteq Entry /\ Entries \subseteq Entries'
      BY <1>1 DEF Bounded, Entries
    <2> QED BY <1>0, <1>1, <2>1, SilentNew
  <1>4. Snapshot'
    BY <1>0, <1>1, SnapshotNew
  <1>5. Chosen'
    BY <1>1, MemoriesNew, ChosenStays
  <1>6. Learning'
    <2>1. \A k \in Ids : rows[k] # None => rows'[k] = rows[k]
      BY <1>0
    <2> QED BY <1>1, <2>1, LearningStays
  <1> QED BY <1>1, <1>2, <1>3, <1>4, <1>5, <1>6 DEF MemoryInv, JobInv, Owed

\* A deletion, by the user or by the run.
LEMMA DeleteRun ==
  ASSUME TableInv, MemoryInv, NEW i \in Ids, Delete(i), crashed' = crashed,
         job' \in Jobs, job'.at = job.at, job'.todo = job.todo, job'.merged = job.merged,
         job'.texts = job.texts, job'.entry = job.entry, job'.then = job.then,
         job'.due \subseteq Unhidden(job.due, i),
         job'.dups = job.dups \/ job.at = "erase"
  PROVE  MemoryInv'
  <1>0. /\ rows'[i] = None
        /\ \A k \in Ids \ {i} :
             /\ rows'[k] = None <=> rows[k] = None
             /\ rows[k] # None =>
                  /\ rows'[k].kind = rows[k].kind /\ rows'[k].text = rows[k].text
                  /\ rows'[k].sess = rows[k].sess
                  /\ rows'[k].by = IF rows[k].by = i THEN 0 ELSE rows[k].by
    BY DeleteFacts DEF TableInv
  <1>1. Types /\ Replacing /\ Bounded /\ job \in Jobs /\ Owed /\ Snapshot /\ Chosen /\ Learning
    BY DEF TableInv, MemoryInv, JobInv
  <1>2. Replacing'
    BY <1>1, DeleteReplacing
  <1>3. Bounded'
    BY <1>1, SilentDelete
  <1>4. Snapshot'
    BY <1>1, SnapshotDelete
  <1>5. Chosen'
    <2>1. CASE job'.dups = job.dups
      BY <1>1, <2>1, MemoriesDelete, ChosenStays
    <2>2. CASE job.at = "erase"
      BY <2>2 DEF Chosen
    <2> QED BY <2>1, <2>2
  <1>6. Learning'
    <2>1. \A k \in Ids : rows[k] # None /\ (\E t \in job'.due : <<t, rows[k].text>> \in Like) =>
            /\ rows'[k] # None /\ rows'[k].text = rows[k].text /\ rows'[k].kind = rows[k].kind
            /\ rows'[k].sess = rows[k].sess /\ (rows[k].by = 0 => rows'[k].by = 0)
      <3> TAKE k \in Ids
      <3>1. CASE k = i
        BY <3>1 DEF Unhidden
      <3>2. CASE k # i
        BY <1>0, <3>2
      <3> QED BY <3>1, <3>2
    <2>2. job'.due \subseteq job.due
      BY DEF Unhidden
    <2> QED BY <1>1, <2>1, <2>2, LearningStays
  <1> QED BY <1>1, <1>2, <1>3, <1>4, <1>5, <1>6 DEF MemoryInv, JobInv, Owed

-----------------------------------------------------------------------------
(* Turns, deletions and days.                                              *)

LEMMA Counted ==
  ASSUME left \in Budget
  PROVE  /\ left.runs \in Nat /\ left.forgets \in Nat /\ left.failures \in Nat
         /\ left.clears \in Nat /\ left.leaves \in Nat /\ left.crashes \in Nat /\ left.days \in 0 .. MaxDays
  <1> DEFINE W == Seq([kind : Kinds, text : Texts, sess : Sessions])
             T == Seq([ask : Texts, answer : Texts])
             R == SUBSET Nat
  <1>1. Budget = [writes : W, turns : T, ranks : R, runs : Nat, forgets : Nat, failures : Nat,
                  clears : Nat, leaves : Nat, crashes : Nat, days : 0 .. MaxDays, prune : BOOLEAN,
                  beside : BOOLEAN]
    BY DEF Budget
  <1> HIDE DEF W, T, R
  <1> QED BY <1>1

\* An event that happens is one fewer to come.
LEMMA Spend ==
  ASSUME left \in Budget, NEW n \in Nat
  PROVE  /\ [left EXCEPT !.runs = n] \in Budget /\ [left EXCEPT !.runs = n].days = left.days
         /\ [left EXCEPT !.forgets = n] \in Budget /\ [left EXCEPT !.forgets = n].days = left.days
         /\ [left EXCEPT !.failures = n] \in Budget /\ [left EXCEPT !.failures = n].days = left.days
         /\ [left EXCEPT !.clears = n] \in Budget /\ [left EXCEPT !.clears = n].days = left.days
         /\ [left EXCEPT !.leaves = n] \in Budget /\ [left EXCEPT !.leaves = n].days = left.days
         /\ [left EXCEPT !.crashes = n] \in Budget /\ [left EXCEPT !.crashes = n].days = left.days
         /\ n <= left.days => [left EXCEPT !.days = n] \in Budget /\ [left EXCEPT !.days = n].days = n
  <1> DEFINE W == Seq([kind : Kinds, text : Texts, sess : Sessions])
             T == Seq([ask : Texts, answer : Texts])
             R == SUBSET Nat
  <1>1. Budget = [writes : W, turns : T, ranks : R, runs : Nat, forgets : Nat, failures : Nat,
                  clears : Nat, leaves : Nat, crashes : Nat, days : 0 .. MaxDays, prune : BOOLEAN,
                  beside : BOOLEAN]
    BY DEF Budget
  <1> HIDE DEF W, T, R
  <1>2. MaxDays \in Nat
    BY MemoryAssumption
  <1>3. n <= left.days => n \in 0 .. MaxDays
    BY <1>1, <1>2
  <1> QED BY <1>1, <1>2, <1>3

\* The turns and the questions to come are what they are.
LEMMA Coming ==
  ASSUME left \in Budget
  PROVE  /\ left.writes # <<>> =>
              /\ Head(left.writes) \in [kind : Kinds, text : Texts, sess : Sessions]
              /\ [left EXCEPT !.writes = Tail(@)] \in Budget
              /\ [left EXCEPT !.writes = Tail(@)].days = left.days
         /\ left.turns # <<>> =>
              /\ Head(left.turns) \in [ask : Texts, answer : Texts]
              /\ [left EXCEPT !.turns = Tail(@)] \in Budget
              /\ [left EXCEPT !.turns = Tail(@)].days = left.days
  <1> DEFINE w == [kind : Kinds, text : Texts, sess : Sessions]
             t == [ask : Texts, answer : Texts]
             W == Seq(w)
             T == Seq(t)
             R == SUBSET Nat
  <1>1. Budget = [writes : W, turns : T, ranks : R, runs : Nat, forgets : Nat, failures : Nat,
                  clears : Nat, leaves : Nat, crashes : Nat, days : 0 .. MaxDays, prune : BOOLEAN,
                  beside : BOOLEAN]
    BY DEF Budget
  <1> HIDE DEF W, T, R, w, t
  <1>2. left.writes \in W /\ left.turns \in T
    BY <1>1
  <1>3. left.writes # <<>> => Head(left.writes) \in w /\ Tail(left.writes) \in W
    BY <1>2 DEF W
  <1>4. left.turns # <<>> => Head(left.turns) \in t /\ Tail(left.turns) \in T
    BY <1>2 DEF T
  <1>5. left.writes # <<>> => [left EXCEPT !.writes = Tail(@)] \in Budget
                              /\ [left EXCEPT !.writes = Tail(@)].days = left.days
    BY <1>1, <1>3
  <1>6. left.turns # <<>> => [left EXCEPT !.turns = Tail(@)] \in Budget
                             /\ [left EXCEPT !.turns = Tail(@)].days = left.days
    BY <1>1, <1>4
  <1> QED BY <1>3, <1>4, <1>5, <1>6 DEF w, t

\* A step that leaves the memories, the log and the run alone.
LEMMA QuietStep ==
  ASSUME TableInv, UNCHANGED <<table, log, job, crashed>>,
         entities \subseteq entities', linking' \subseteq linking,
         left' \in Budget, day \in Nat, day' \in Nat, day <= day', day' + left'.days <= MaxDays
  PROVE  TableInv' /\ (MemoryInv => MemoryInv')
  <1>1. SameRows
    BY DEF SameRows, table
  <1>2. Types'
    <2>1. MaxDays \in Nat /\ left'.days \in Nat
      BY MemoryAssumption DEF Budget
    <2>2. day' \in 0 .. MaxDays
      BY <2>1
    <2>3. \A i \in Ids : Exists(i) => rows[i].seen <= day /\ rows[i].seen \in Nat
      BY DEF TableInv, Types, Exists, Row
    <2>4. (\A i \in Ids : Exists(i) => rows[i].seen <= day)'
      BY <2>3 DEF table, Exists
    <2> QED BY <2>2, <2>4 DEF TableInv, Types, table
  <1>3. TableInv'
    BY <1>1, <1>2, SameTable DEF table
  <1>4. MemoryInv => MemoryInv'
    BY <1>1, SameRun DEF table
  <1> QED BY <1>3, <1>4

\* The same, at the expense of one event or none.
LEMMA QuietToday ==
  ASSUME TableInv, UNCHANGED <<table, log, job, clock>>,
         entities \subseteq entities', linking' \subseteq linking,
         left' \in Budget, left'.days = left.days
  PROVE  TableInv' /\ (MemoryInv => MemoryInv')
  <1>1. day \in Nat /\ day + left.days <= MaxDays /\ day <= day
    BY DEF TableInv, Types
  <1> QED BY <1>1, QuietStep DEF clock

LEMMA RememberStep ==
  ASSUME TableInv, NEW kind \in Kinds, NEW text \in Texts, NEW sess \in Sessions,
         Remember(kind, text, sess), left' \in Budget, left'.days = left.days,
         UNCHANGED <<day, entities, log, job, crashed>>
  PROVE  TableInv' /\ (MemoryInv => MemoryInv')
  <1>1. NewRow(NextId, kind, text, sess)
    BY AddIsNew DEF Remember, TableInv
  <1>2. NextId \in Ids /\ linking' \in {linking, linking \cup {<<NextId, text>>}}
    BY DEF Remember
  <1>3. TableInv'
    BY <1>1, <1>2, NewTable
  <1>4. MemoryInv => MemoryInv'
    BY <1>1, NewRun
  <1> QED BY <1>3, <1>4

LEMMA RecordStep == ASSUME TableInv, Record PROVE TableInv' /\ (MemoryInv => MemoryInv')
  <1> DEFINE w == Head(left.writes)
  <1>1. left \in Budget /\ left.writes # <<>>
    BY DEF TableInv, Types, Record
  <1>2. w \in [kind : Kinds, text : Texts, sess : Sessions]
    BY <1>1, Coming
  <1>3. left' = [left EXCEPT !.writes = Tail(@)] /\ Remember(w.kind, w.text, w.sess)
    BY DEF Record
  <1>4. w.kind \in Kinds /\ w.text \in Texts /\ w.sess \in Sessions
    BY <1>2
  <1>5. left' \in Budget /\ left'.days = left.days
    BY <1>1, <1>3, Coming
  <1> HIDE DEF w
  <1> QED BY <1>3, <1>4, <1>5, RememberStep DEF Record, clock

LEMMA UpsertStep ==
  ASSUME TableInv, NEW p \in linking, Upsert(p) PROVE TableInv' /\ (MemoryInv => MemoryInv')
  <1>1. entities \subseteq entities' /\ linking' \subseteq linking /\ left' = left /\ left' \in Budget
    BY DEF Upsert, TableInv, Types
  <1> QED BY <1>1, QuietToday DEF Upsert

\* The link that is made is to the memory the name was found in.
LEMMA LinkStep ==
  ASSUME TableInv, NEW p \in linking, Link(p) PROVE TableInv' /\ (MemoryInv => MemoryInv')
  <1>1. UNCHANGED <<rows, vec, entities, log, job, reused, issued, day, crashed, left>>
        /\ linking' \subseteq linking /\ Names[p[2]] \subseteq entities
        /\ links' = IF Exists(p[1]) THEN links \cup ({p[1]} \X Names[p[2]]) ELSE links
    BY DEF Link, clock
  <1>2. SameRows
    BY <1>1 DEF SameRows
  <1>3. MemoryInv => MemoryInv'
    BY <1>1, <1>2, SameRun
  <1>4. p[1] \in Ids /\ (Exists(p[1]) /\ p[1] \notin reused => rows[p[1]].text = p[2])
    BY DEF TableInv, Pending
  <1>5. Types' /\ Issued'
    BY <1>1 DEF TableInv, Types, Issued, Exists
  <1>6. \A l \in links' : l \in links \/ (l[1] = p[1] /\ l[2] \in Names[p[2]] /\ Exists(p[1]))
    BY <1>1
  <1>7. Pending'
    BY <1>1, <1>4, <1>6 DEF TableInv, Pending, Exists
  <1>8. IndexTruthful'
    <2>1. (\A i \in Ids : IF Exists(i) THEN vec[i] = rows[i].text ELSE vec[i] = None)'
      BY <1>1 DEF TableInv, IndexTruthful, Exists
    <2>2. ASSUME NEW l \in links'
          PROVE  (/\ l[2] \in entities /\ Exists(l[1])
                  /\ l[1] \notin reused => l[2] \in Names[rows[l[1]].text])'
      <3>1. CASE l \in links
        BY <1>1, <3>1 DEF TableInv, IndexTruthful, Exists
      <3>2. CASE l[1] = p[1] /\ l[2] \in Names[p[2]] /\ Exists(p[1])
        BY <1>1, <1>4, <3>2 DEF Exists
      <3> QED BY <1>6, <3>1, <3>2
    <2> QED BY <2>1, <2>2 DEF IndexTruthful
  <1> QED BY <1>3, <1>5, <1>7, <1>8 DEF TableInv

LEMMA ForgetStep ==
  ASSUME TableInv, Running(job), NEW i \in Ids, Forget(i)
  PROVE  TableInv' /\ Running(job') /\ (MemoryInv => MemoryInv')
  <1>1. /\ Delete(i) /\ job' = [job EXCEPT !.due = Unhidden(job.due, i)] /\ left.forgets > 0
        /\ left' = [left EXCEPT !.forgets = left.forgets - 1] /\ UNCHANGED <<chat, clock>>
    BY DEF Forget
  <1>2. left' \in Budget /\ left'.days = left.days
    <2>1. left \in Budget
      BY DEF TableInv, Types
    <2>2. left.forgets - 1 \in Nat
      BY <1>1, <2>1, Counted
    <2> QED BY <1>1, <2>1, <2>2, Spend
  <1>3. TableInv'
    BY <1>1, <1>2, DeleteTable DEF chat, clock
  <1>4. job \in Jobs
    BY DEF Running
  <1>5. /\ job' \in Jobs /\ job'.at = job.at /\ job'.todo = job.todo /\ job'.merged = job.merged
        /\ job'.texts = job.texts /\ job'.entry = job.entry /\ job'.then = job.then
        /\ job'.due = Unhidden(job.due, i) /\ job'.dups = job.dups
    BY <1>1, <1>4 DEF Jobs, Unhidden
  <1>6. MemoryInv => MemoryInv'
    BY <1>1, <1>5, DeleteRun DEF clock
  <1>7. Running(job')
    BY <1>5 DEF Running
  <1> QED BY <1>3, <1>6, <1>7

LEMMA DayStep == ASSUME TableInv, Day PROVE TableInv' /\ (MemoryInv => MemoryInv')
  <1>1. /\ left.days > 0 /\ day' = day + 1 /\ left' = [left EXCEPT !.days = left.days - 1]
        /\ UNCHANGED <<table, log, chat, job, crashed>>
    BY DEF Day
  <1>2. left \in Budget /\ day \in Nat /\ day + left.days <= MaxDays /\ left.days \in 0 .. MaxDays
        /\ MaxDays \in Nat
    BY MemoryAssumption, Counted DEF TableInv, Types
  <1>3. left' \in Budget /\ left'.days = left.days - 1
    <2>1. left.days - 1 \in Nat /\ left.days - 1 <= left.days
      BY <1>1, <1>2
    <2> QED BY <1>1, <1>2, <2>1, Spend
  <1>4. day' \in Nat /\ day <= day' /\ day' + left'.days <= MaxDays
    BY <1>1, <1>2, <1>3
  <1> QED BY <1>1, <1>2, <1>3, <1>4, QuietStep DEF chat

\* Hits are touched by id: salience and date change, the memories do not.
LEMMA TouchStep == ASSUME TableInv, Touch PROVE TableInv' /\ (MemoryInv => MemoryInv')
  <1>1. /\ rows' = [i \in Ids |-> IF Exists(i) /\ i \in Range(search.hits)
                                  THEN [rows[i] EXCEPT !.salience = Min({200, @ + 5}), !.seen = day]
                                  ELSE rows[i]]
        /\ UNCHANGED <<vec, links, entities, log, linking, job, reused, issued, day, crashed, left>>
    BY DEF Touch, clock
  <1>2. ASSUME NEW i \in Ids
        PROVE  /\ rows'[i] \in {None} \cup Row
               /\ rows'[i] = None <=> rows[i] = None
               /\ rows[i] # None =>
                    /\ rows'[i].kind = rows[i].kind /\ rows'[i].text = rows[i].text
                    /\ rows'[i].sess = rows[i].sess /\ rows'[i].by = rows[i].by
                    /\ rows'[i].seen <= day
    <2>0. /\ rows[i] = None \/ (rows[i] \in Row /\ rows[i].seen <= day)
          /\ day \in 0 .. MaxDays
      BY DEF TableInv, Types, Exists
    <2>1. CASE rows[i] # None /\ i \in Range(search.hits)
      <3> DEFINE s == Min({200, rows[i].salience + 5})
      <3>1. rows'[i] = [rows[i] EXCEPT !.salience = s, !.seen = day]
        BY <1>1, <2>1 DEF Exists
      <3>2. s \in Saliences
        <4>1. rows[i].salience \in Nat
          BY <2>0, <2>1 DEF Row, Saliences
        <4>2. {200, rows[i].salience + 5} \subseteq Nat
          BY <4>1
        <4>3. s \in {200, rows[i].salience + 5} /\ s <= 200
          BY <4>2, MinIsLeast
        <4> QED BY <4>2, <4>3 DEF Saliences
      <3> HIDE DEF s
      <3>3. rows'[i] \in Row
        BY <2>0, <2>1, <3>1, <3>2 DEF Row
      <3>4. /\ rows'[i].kind = rows[i].kind /\ rows'[i].text = rows[i].text
            /\ rows'[i].sess = rows[i].sess /\ rows'[i].by = rows[i].by
            /\ rows'[i].seen = day
        BY <2>0, <2>1, <3>1 DEF Row
      <3>5. day <= day
        BY <2>0
      <3> QED BY <2>1, <3>3, <3>4, <3>5, NoneIsNoRow
    <2>2. CASE ~(rows[i] # None /\ i \in Range(search.hits))
      <3>1. rows'[i] = rows[i]
        BY <1>1, <2>2 DEF Exists
      <3> QED BY <2>0, <3>1
    <2> QED BY <2>1, <2>2
  <1>3. SameRows
    BY <1>2 DEF SameRows
  <1>4. Types'
    <2>1. rows' \in [Ids -> {None} \cup Row]
      BY <1>1, <1>2
    <2>2. (\A i \in Ids : Exists(i) => rows[i].seen <= day)'
      BY <1>1, <1>2 DEF Exists
    <2> QED BY <1>1, <2>1, <2>2 DEF TableInv, Types
  <1>5. TableInv'
    BY <1>1, <1>3, <1>4, SameTable
  <1>6. MemoryInv => MemoryInv'
    BY <1>1, <1>3, SameRun
  <1> QED BY <1>5, <1>6

\* One side of a turn is remembered, or its failure swallowed.
LEMMA KeepStep ==
  ASSUME TableInv, NEW said, said.text \in Texts, NEW kind \in Kinds,
         NEW from, NEW to, Keep(said, kind, from, to)
  PROVE  TableInv' /\ (MemoryInv => MemoryInv')
  <1> DEFINE s == CHOOSE s \in Sessions : TRUE
  <1>0. s \in Sessions
    BY MemoryAssumption
  <1> HIDE DEF s
  <1>1. UNCHANGED <<entities, log, job, clock>> /\ left \in Budget
    BY DEF Keep, TableInv, Types
  <1>2. CASE Remember(kind, said.text, s) /\ UNCHANGED left
    BY <1>0, <1>1, <1>2, RememberStep DEF clock
  <1>3. CASE /\ left.failures > 0 /\ left' = [left EXCEPT !.failures = @ - 1]
             /\ UNCHANGED <<table, linking>>
    <2>1. left.failures - 1 \in Nat
      BY <1>1, <1>3, Counted
    <2>2. left' \in Budget /\ left'.days = left.days
      BY <1>1, <1>3, <2>1, Spend
    <2> QED BY <1>1, <1>3, <2>2, QuietToday
  <1> QED BY <1>2, <1>3 DEF Keep, s

LEMMA ChatTable == ASSUME TableInv, Talking, Chat PROVE TableInv' /\ (MemoryInv => MemoryInv')
  <1>0. left \in Budget
    BY DEF TableInv, Types
  <1>12. CASE Clear
    <2>1. left.clears - 1 \in Nat /\ left' = [left EXCEPT !.clears = left.clears - 1]
      BY <1>0, <1>12, Counted DEF Clear
    <2>2. left' \in Budget /\ left'.days = left.days
      BY <1>0, <2>1, Spend
    <2> QED BY <1>12, <2>2, QuietToday DEF Clear
  <1>1. CASE Ask
    <2>1. left' \in Budget /\ left'.days = left.days
      BY <1>0, <1>1, Coming DEF Ask
    <2> QED BY <1>1, <2>1, QuietToday DEF Ask
  <1>2. CASE Rank
    BY <1>0, <1>2, QuietToday DEF Rank
  <1>3. CASE RecallFails
    <2>1. left.failures - 1 \in Nat /\ left' = [left EXCEPT !.failures = left.failures - 1]
      BY <1>0, <1>3, Counted DEF RecallFails
    <2>2. left' \in Budget /\ left'.days = left.days
      BY <1>0, <2>1, Spend
    <2> QED BY <1>3, <2>2, QuietToday DEF RecallFails
  <1>4. CASE Fetch
    BY <1>0, <1>4, QuietToday DEF Fetch
  <1>5. CASE Touch
    BY <1>5, TouchStep
  <1>6. CASE Pack
    BY <1>0, <1>6, QuietToday DEF Pack
  <1>7. CASE Fail
    BY <1>0, <1>7, QuietToday DEF Fail
  <1>8. CASE Answer
    BY <1>0, <1>8, QuietToday DEF Answer
  <1>9. CASE KeepQuestion
    <2> DEFINE said == Said("user")
    <2>1. said.text \in Texts
      BY <1>9 DEF KeepQuestion, Keep, Said, Talking
    <2>2. Keep(said, "turn:user", "saying", "replying") /\ "turn:user" \in Kinds
      BY <1>9 DEF KeepQuestion, Kinds
    <2> HIDE DEF said
    <2> QED BY <2>1, <2>2, KeepStep
  <1>10. CASE KeepAnswer
    <2> DEFINE said == Said("assistant")
    <2>1. said.text \in Texts
      BY <1>10 DEF KeepAnswer, Keep, Said, Talking
    <2>2. Keep(said, "turn:assistant", "replying", "idle") /\ "turn:assistant" \in Kinds
      BY <1>10 DEF KeepAnswer, Kinds
    <2> HIDE DEF said
    <2> QED BY <2>1, <2>2, KeepStep
  <1>11. CASE Leave
    <2>1. left.leaves - 1 \in Nat /\ left' = [left EXCEPT !.leaves = left.leaves - 1]
      BY <1>0, <1>11, Counted DEF Leave
    <2>2. left' \in Budget /\ left'.days = left.days
      BY <1>0, <2>1, Spend
    <2> QED BY <1>11, <2>2, QuietToday DEF Leave
  <1> QED BY <1>1, <1>2, <1>3, <1>4, <1>5, <1>6, <1>7, <1>8, <1>9, <1>10, <1>11, <1>12 DEF Chat

-----------------------------------------------------------------------------
(* The chat.                                                               *)

LEMMA Parity ==
  ASSUME NEW n \in Nat
  PROVE  /\ n % 2 = 0 => (n + 1) % 2 = 1
         /\ n % 2 = 1 => (n + 1) % 2 = 0
  OBVIOUS

Side(n) == IF n % 2 = 1 THEN "user" ELSE "assistant"
Sides == [role : {"user", "assistant"}, text : Texts]
Remembereds == [said : Sides, stored : BOOLEAN]

\* What is said next goes to the end of the transcript, and the next side in turn says it.
LEMMA Spoken ==
  ASSUME Transcript, NEW h \in Sides, h.role = Side(Len(history) + 1),
         history' = Append(history, h)
  PROVE  /\ history' \in Seq(Sides)
         /\ Len(history') = Len(history) + 1
         /\ \A k \in DOMAIN history' : history'[k].role = Side(k)
         /\ \A k \in 1 .. Len(history) : history'[k] = history[k]
         /\ history'[Len(history) + 1] = h
  <1>1. history \in Seq(Sides) /\ \A k \in DOMAIN history : history[k].role = Side(k)
    BY DEF Transcript, Side, Sides
  <1>2. history' \in Seq(Sides) /\ Len(history') = Len(history) + 1
    BY <1>1
  <1>3. ASSUME NEW k \in 1 .. Len(history')
        PROVE  /\ k \in 1 .. Len(history) => history'[k] = history[k]
               /\ k = Len(history) + 1 => history'[k] = h
               /\ history'[k].role = Side(k)
    BY <1>1, <1>2
  <1>4. DOMAIN history' = 1 .. Len(history')
    BY <1>2
  <1> QED BY <1>1, <1>2, <1>3, <1>4

\* What is given to memory next is the side that was said after the last one it was given.
LEMMA Remembered ==
  ASSUME kept \in Seq(Remembereds), history \in Seq(Sides), NEW n \in 0 .. Len(kept),
         n + 1 <= Len(history),
         \A k \in 1 .. n : kept[Len(kept) - n + k].said = history[k],
         NEW stored \in BOOLEAN,
         kept' = Append(kept, [said |-> history[n + 1], stored |-> stored])
  PROVE  /\ kept' \in Seq(Remembereds)
         /\ n + 1 \in 0 .. Len(kept')
         /\ \A k \in 1 .. (n + 1) : kept'[Len(kept') - (n + 1) + k].said = history[k]
  <1> DEFINE h == [said |-> history[n + 1], stored |-> stored]
  <1>1. h \in Remembereds /\ h.said = history[n + 1]
    <2>1. n + 1 \in DOMAIN history
      OBVIOUS
    <2> QED BY <2>1 DEF Remembereds
  <1> HIDE DEF h
  <1>2. kept' = Append(kept, h)
    BY DEF h
  <1>3. kept' \in Seq(Remembereds) /\ Len(kept') = Len(kept) + 1 /\ Len(kept) \in Nat
    BY <1>1, <1>2
  <1>4. ASSUME NEW k \in 1 .. (n + 1)
        PROVE  kept'[Len(kept') - (n + 1) + k].said = history[k]
    <2> DEFINE m == Len(kept') - (n + 1) + k
    <2>0. n \in Nat /\ n <= Len(kept) /\ k \in Nat /\ 1 <= k /\ k <= n + 1
      OBVIOUS
    <2>1. m = Len(kept) - n + k /\ m \in 1 .. Len(kept) + 1
      BY <1>3, <2>0
    <2>2. CASE k = n + 1
      <3>1. m = Len(kept) + 1
        BY <1>3, <2>1, <2>2
      <3>2. kept'[m] = h
        BY <1>2, <3>1
      <3> QED BY <1>1, <2>2, <3>2
    <2>3. CASE k # n + 1
      <3>1. k \in 1 .. n /\ m \in 1 .. Len(kept)
        BY <1>3, <2>0, <2>1, <2>3
      <3>2. kept'[m] = kept[m]
        BY <1>2, <3>1
      <3> QED BY <2>1, <3>1, <3>2
    <2> QED BY <2>2, <2>3
  <1>5. n + 1 \in 0 .. Len(kept')
    BY <1>3
  <1> QED BY <1>3, <1>4, <1>5

\* A step that leaves the transcript alone, before there is anything to say.
LEMMA Listening ==
  ASSUME Transcript, UNCHANGED <<history, kept>>,
         search.at \in {"idle", "asked", "ranked", "fetched", "touched"},
         search'.at \in {"idle", "asked", "ranked", "fetched", "touched", "over"}
  PROVE  Transcript'
  <1>1. Unsaid = 0 /\ Unsaid' = 0
    BY DEF Unsaid
  <1>2. Told' = Told
    BY <1>1 DEF Told
  <1> QED BY <1>2 DEF Transcript

LEMMA ChatTurn ==
  ASSUME left \in Budget, Talking, Transcript, Chat PROVE Talking' /\ Transcript'
  <1>0. /\ history \in Seq(Sides) /\ kept \in Seq(Remembereds)
        /\ Len(kept) \in Nat /\ Len(history) \in Nat
        /\ DOMAIN kept = 1 .. Len(kept) /\ DOMAIN history = 1 .. Len(history)
        /\ \A k \in DOMAIN history : history[k].role = Side(k)
    BY DEF Transcript, Sides, Remembereds, Side
  <1> DEFINE n == Told
  <1>n. search.at # "over" =>
          /\ n \in 0 .. Len(kept) /\ \A k \in 1 .. n : kept[Len(kept) - n + k].said = history[k]
          /\ n % 2 = IF search.at = "replying" THEN 1 ELSE 0
    BY DEF Transcript
  <1>s. /\ search.at \in {"asked", "ranked", "fetched", "touched", "answering", "saying", "replying"} =>
             /\ Said("user") \in Sides /\ Said("user").role = "user"
             /\ Said("assistant") \in Sides /\ Said("assistant").role = "assistant"
    BY DEF Talking, Said, Sides
  <1>12. CASE Clear
    <2>1. search' = search /\ search.at = "idle" /\ history' = <<>> /\ kept' = kept
      BY <1>12 DEF Clear
    <2>2. Talking' /\ search'.at = "idle"
      BY <2>1 DEF Talking
    <2>3. Told' = 0 /\ Len(history') = 0
      BY <2>1 DEF Told, Unsaid
    <2> QED BY <1>0, <2>1, <2>2, <2>3 DEF Transcript, Remembereds, Sides
  <1>1. CASE Ask
    <2>1. /\ search' = [NoSearch EXCEPT !.at = "asked", !.query = Head(left.turns).ask,
                                        !.reply = Head(left.turns).answer]
          /\ Head(left.turns).ask \in Texts /\ Head(left.turns).answer \in Texts
          /\ UNCHANGED <<history, kept>> /\ search.at = "idle"
      BY <1>1, Coming DEF Ask
    <2>2. Talking' /\ search'.at = "asked"
      BY <2>1 DEF Talking, NoSearch, SearchPcs
    <2> QED BY <2>1, <2>2, Listening
  <1>2. CASE Rank
    <2>1. Talking' /\ search'.at = "ranked"
      BY <1>2 DEF Rank, Talking, SearchPcs
    <2> QED BY <1>2, <2>1, Listening DEF Rank
  <1>3. CASE RecallFails
    <2>1. Talking' /\ search'.at = "touched"
      BY <1>3 DEF RecallFails, Talking, SearchPcs
    <2> QED BY <1>3, <2>1, Listening DEF RecallFails
  <1>4. CASE Fetch
    <2>1. Talking' /\ search'.at = "fetched"
      BY <1>4 DEF Fetch, Talking, SearchPcs
    <2> QED BY <1>4, <2>1, Listening DEF Fetch
  <1>5. CASE Touch
    <2>1. Talking' /\ search'.at = "touched"
      BY <1>5 DEF Touch, Talking, SearchPcs
    <2> QED BY <1>5, <2>1, Listening DEF Touch
  <1>6. CASE Pack
    <2>1. Talking' /\ search'.at = "answering" /\ (Said("user"))' = Said("user")
      BY <1>6 DEF Pack, Talking, SearchPcs, Said
    <2>2. /\ history' = Append(history, Said("user")) /\ search.at = "touched" /\ kept' = kept
      BY <1>6 DEF Pack
    <2>3. n = Len(history) /\ n % 2 = 0 /\ "user" = Side(Len(history) + 1)
      BY <1>0, <1>n, <2>2, Parity DEF Told, Unsaid, Side
    <2>4. /\ history' \in Seq(Sides)
          /\ Len(history') = Len(history) + 1
          /\ \A k \in DOMAIN history' : history'[k].role = Side(k)
          /\ \A k \in 1 .. Len(history) : history'[k] = history[k]
          /\ history'[Len(history) + 1] = Said("user")
      BY <1>s, <2>2, <2>3, Spoken
    <2>5. Told' = n
      <3>1. Unsaid' = 1
        BY <2>1 DEF Unsaid
      <3> QED BY <1>0, <2>3, <2>4, <3>1 DEF Told
    <2> HIDE DEF n
    <2>6. /\ Told' \in 0 .. Len(kept') /\ Told' % 2 = 0
          /\ \A k \in 1 .. Told' : kept'[Len(kept') - Told' + k].said = history'[k]
      BY <1>0, <1>n, <2>2, <2>3, <2>4, <2>5
    <2> QED BY <1>0, <2>1, <2>2, <2>4, <2>6 DEF Transcript, Side, Sides, Remembereds
  <1>7. CASE Fail
    <2>1. Talking' /\ search'.at = "idle"
      BY <1>7 DEF Fail, Talking, SearchPcs
    <2>2. history' = Front(history) /\ search.at = "answering" /\ kept' = kept
      BY <1>7 DEF Fail
    <2>3. n = Len(history) - 1 /\ n % 2 = 0
      BY <1>0, <1>n, <2>2 DEF Told, Unsaid
    <2>4. Len(history) >= 1
      BY <1>0, <1>n, <2>2, <2>3
    <2>5. history' = SubSeq(history, 1, Len(history) - 1)
      BY <2>2, <2>4 DEF Front
    <2>6. /\ history' \in Seq(Sides) /\ Len(history') = Len(history) - 1
          /\ \A k \in 1 .. Len(history) - 1 : history'[k] = history[k]
      BY <1>0, <2>4, <2>5
    <2>7. DOMAIN history' = 1 .. Len(history) - 1
      BY <2>6
    <2>8. Told' = n
      <3>1. Unsaid' = 0
        BY <2>1 DEF Unsaid
      <3> QED BY <1>0, <2>3, <2>6, <3>1 DEF Told
    <2> HIDE DEF n
    <2>9. /\ Told' \in 0 .. Len(kept') /\ Told' % 2 = 0
          /\ \A k \in 1 .. Told' : kept'[Len(kept') - Told' + k].said = history'[k]
      BY <1>0, <1>n, <2>2, <2>3, <2>6, <2>8
    <2>10. \A k \in DOMAIN history' : history'[k].role = Side(k)
      BY <1>0, <2>6, <2>7
    <2> QED BY <1>0, <2>1, <2>2, <2>6, <2>9, <2>10 DEF Transcript, Side, Sides, Remembereds
  <1>8. CASE Answer
    <2>1. /\ Talking' /\ search'.at = "saying" /\ (Said("user"))' = Said("user")
          /\ (Said("assistant"))' = Said("assistant")
      BY <1>8 DEF Answer, Talking, SearchPcs, Said
    <2>2. /\ history' = Append(history, Said("assistant")) /\ search.at = "answering" /\ kept' = kept
          /\ history[Len(history)] = Said("user")
      BY <1>8 DEF Answer, Transcript
    <2>3. n = Len(history) - 1 /\ n % 2 = 0 /\ Len(history) \in 1 .. Len(history)
      BY <1>0, <1>n, <2>2 DEF Told, Unsaid
    <2>4. "assistant" = Side(Len(history) + 1)
      <3>1. Len(history) % 2 = 1
        BY <1>0, <1>n, <2>2, <2>3, Parity
      <3>2. (Len(history) + 1) % 2 = 0
        BY <1>0, <3>1, Parity
      <3> QED BY <3>2 DEF Side
    <2>5. /\ history' \in Seq(Sides)
          /\ Len(history') = Len(history) + 1
          /\ \A k \in DOMAIN history' : history'[k].role = Side(k)
          /\ \A k \in 1 .. Len(history) : history'[k] = history[k]
          /\ history'[Len(history) + 1] = Said("assistant")
      BY <1>s, <2>2, <2>4, Spoken
    <2>6. Told' = n
      <3>1. Unsaid' = 2
        BY <2>1 DEF Unsaid
      <3> QED BY <1>0, <2>3, <2>5, <3>1 DEF Told
    <2> HIDE DEF n
    <2>7. /\ Told' \in 0 .. Len(kept') /\ Told' % 2 = 0
          /\ \A k \in 1 .. Told' : kept'[Len(kept') - Told' + k].said = history'[k]
      BY <1>0, <1>n, <2>2, <2>3, <2>5, <2>6
    <2>8. history'[Len(history') - 1] = Said("user")
      <3>1. Len(history') - 1 = Len(history)
        BY <1>0, <2>5
      <3> QED BY <2>2, <2>3, <2>5, <3>1
    <2> QED BY <1>0, <2>1, <2>2, <2>5, <2>7, <2>8 DEF Transcript, Side, Sides, Remembereds
  <1>9. CASE KeepQuestion
    <2>1. /\ search' = [search EXCEPT !.at = "replying"] /\ search.at = "saying" /\ history' = history
          /\ \E stored \in BOOLEAN : kept' = Append(kept, [said |-> Said("user"), stored |-> stored])
      BY <1>9 DEF KeepQuestion, Keep
    <2>2. Talking' /\ search'.at = "replying" /\ (Said("assistant"))' = Said("assistant")
      BY <2>1 DEF Talking, SearchPcs, Said
    <2>3. /\ n = Len(history) - 2 /\ n % 2 = 0 /\ (n + 1) % 2 = 1
          /\ history[n + 1] = Said("user") /\ history[Len(history)] = Said("assistant")
      <3>1. n = Len(history) - 2 /\ n % 2 = 0 /\ n \in Nat
        BY <1>0, <1>n, <2>1 DEF Told, Unsaid
      <3>2. n + 1 = Len(history) - 1
        BY <1>0, <3>1
      <3> QED BY <2>1, <3>1, <3>2, Parity DEF Transcript
    <2>4. Told' = n + 1
      BY <1>0, <2>1, <2>2, <2>3 DEF Told, Unsaid
    <2> HIDE DEF n
    <2>5. /\ kept' \in Seq(Remembereds) /\ n + 1 \in 0 .. Len(kept')
          /\ \A k \in 1 .. (n + 1) : kept'[Len(kept') - (n + 1) + k].said = history[k]
      <3>1. PICK stored \in BOOLEAN : kept' = Append(kept, [said |-> history[n + 1], stored |-> stored])
        BY <2>1, <2>3
      <3>2. n + 1 <= Len(history)
        BY <1>0, <2>3
      <3> QED BY <1>0, <1>n, <2>1, <3>1, <3>2, Remembered
    <2> QED BY <1>0, <2>1, <2>2, <2>3, <2>4, <2>5 DEF Transcript, Side, Sides, Remembereds
  <1>10. CASE KeepAnswer
    <2>1. /\ search' = [search EXCEPT !.at = "idle"] /\ search.at = "replying" /\ history' = history
          /\ \E stored \in BOOLEAN : kept' = Append(kept, [said |-> Said("assistant"), stored |-> stored])
      BY <1>10 DEF KeepAnswer, Keep
    <2>2. Talking' /\ search'.at = "idle"
      BY <2>1 DEF Talking, SearchPcs
    <2>3. /\ n = Len(history) - 1 /\ n % 2 = 1 /\ (n + 1) % 2 = 0 /\ history[n + 1] = Said("assistant")
      <3>1. n = Len(history) - 1 /\ n % 2 = 1 /\ n \in Nat
        BY <1>0, <1>n, <2>1 DEF Told, Unsaid
      <3>2. n + 1 = Len(history)
        BY <1>0, <3>1
      <3> QED BY <2>1, <3>1, <3>2, Parity DEF Transcript
    <2>4. Told' = n + 1
      BY <1>0, <2>1, <2>2, <2>3 DEF Told, Unsaid
    <2> HIDE DEF n
    <2>5. /\ kept' \in Seq(Remembereds) /\ n + 1 \in 0 .. Len(kept')
          /\ \A k \in 1 .. (n + 1) : kept'[Len(kept') - (n + 1) + k].said = history[k]
      <3>1. PICK stored \in BOOLEAN : kept' = Append(kept, [said |-> history[n + 1], stored |-> stored])
        BY <2>1, <2>3
      <3>2. n + 1 <= Len(history)
        BY <1>0, <2>3
      <3> QED BY <1>0, <1>n, <2>1, <3>1, <3>2, Remembered
    <2> QED BY <1>0, <2>1, <2>2, <2>3, <2>4, <2>5 DEF Transcript, Side, Sides, Remembereds
  <1>11. CASE Leave
    <2>1. Talking' /\ search'.at = "over"
      BY <1>11 DEF Leave, Talking, NoSearch, SearchPcs
    <2> QED BY <1>11, <2>1 DEF Leave, Transcript
  <1> QED BY <1>1, <1>2, <1>3, <1>4, <1>5, <1>6, <1>7, <1>8, <1>9, <1>10, <1>11, <1>12 DEF Chat

-----------------------------------------------------------------------------
(* The passes of a run.                                                    *)

LEMMA PassesInOrder ==
  /\ Passes[1] = "promote" /\ After("promote") = "dedupe" /\ After("dedupe") = "decay"
  /\ After("decay") = "prune" /\ After("prune") = "finish"
  <1>1. /\ DOMAIN Passes = {1, 2, 3, 4} /\ Len(Passes) = 4
        /\ Passes[1] = "promote" /\ Passes[2] = "dedupe" /\ Passes[3] = "decay" /\ Passes[4] = "prune"
    BY DEF Passes
  <1>2. ASSUME NEW n \in {1, 2, 3, 4} PROVE (CHOOSE k \in DOMAIN Passes : Passes[k] = Passes[n]) = n
    BY <1>1
  <1>3. \A n \in {1, 2, 3} : After(Passes[n]) = Passes[n + 1]
    <2> TAKE n \in {1, 2, 3}
    <2>1. (CHOOSE k \in DOMAIN Passes : Passes[k] = Passes[n]) = n
      BY <1>2
    <2> QED BY <1>1, <2>1 DEF After
  <1>4. After(Passes[4]) = "finish"
    BY <1>1, <1>2 DEF After
  <1> QED BY <1>1, <1>3, <1>4

LEMMA IdleRun == NoJob \in Jobs
  <1>1. <<>> \in Fades
    BY DEF Fades
  <1> QED BY <1>1 DEF NoJob, Jobs, JobPcs

\* A step of the run that leaves the memories and the log alone.
LEMMA ReadStep ==
  ASSUME TableInv, MemoryInv, UNCHANGED <<table, log, chat, clock>>,
         left' \in Budget, left'.days = left.days, job.entry \in {None, job'.entry}
  PROVE  /\ SameRows /\ TableInv' /\ Replacing' /\ Bounded'
         /\ Recurring' = Recurring /\ \A t : Learnt(t)' <=> Learnt(t)
  <1>1. SameRows
    BY DEF SameRows, table
  <1>2. Types'
    <2>1. (\A i \in Ids : Exists(i) => rows[i].seen <= day)'
      BY DEF TableInv, Types, Exists, table, clock
    <2> QED BY <2>1 DEF TableInv, Types, table, clock
  <1>3. TableInv'
    BY <1>1, <1>2, SameTable DEF table, chat
  <1>4. Replacing'
    BY <1>1, SameReplacing DEF TableInv, MemoryInv, table
  <1>5. Bounded'
    <2>1. Entries \subseteq Entries' /\ log' \subseteq Entry
      BY DEF Entries, MemoryInv, Bounded
    <2> QED BY <1>1, <2>1, SilentSame DEF TableInv, MemoryInv, clock
  <1>6. rows' = rows
    BY DEF table
  <1>7. \A t : Learnt(t)' <=> Learnt(t)
    BY <1>6 DEF Learnt, Exists
  <1>8. \A t : Asked(t)' = Asked(t)
    BY <1>6 DEF Asked, LiveIds, Live, Exists
  <1>9. Recurring' = Recurring
    BY <1>6, <1>8 DEF Recurring
  <1> QED BY <1>1, <1>3, <1>4, <1>5, <1>7, <1>9

LEMMA RunStep == ASSUME TableInv, MemoryInv, Run PROVE TableInv' /\ MemoryInv'
  <1>1. /\ job.at = "idle" /\ left.runs > 0 /\ left' = [left EXCEPT !.runs = left.runs - 1]
        /\ job' = [NoJob EXCEPT !.at = "promote", !.due = Recurring, !.said = SaidOften]
        /\ UNCHANGED <<table, log, chat, clock>>
    BY PassesInOrder DEF Run, Begun
  <1>2. left' \in Budget /\ left'.days = left.days
    <2>1. left \in Budget
      BY DEF TableInv, Types
    <2>2. left.runs - 1 \in Nat
      BY <1>1, <2>1, Counted
    <2> QED BY <1>1, <2>1, <2>2, Spend
  <1>3. Recurring \subseteq Texts /\ SaidOften \subseteq Texts
    BY DEF Recurring, SaidOften
  <1>4. /\ job' \in Jobs /\ job'.at = "promote" /\ job'.todo = {} /\ job'.due = Recurring
        /\ job'.entry = None
    BY <1>1, <1>3, IdleRun DEF NoJob, Jobs, JobPcs
  <1>5. job.entry = None
    BY <1>1 DEF MemoryInv, JobInv, Owed
  <1>6. TableInv' /\ Replacing' /\ Bounded' /\ Recurring' = Recurring
    BY <1>1, <1>2, <1>5, ReadStep
  <1>7. Owed' /\ Snapshot' /\ Chosen' /\ Learning'
    BY <1>4, <1>6 DEF Owed, Snapshot, Chosen, Learning
  <1> QED BY <1>4, <1>6, <1>7 DEF MemoryInv, JobInv

LEMMA PromoteStep == ASSUME TableInv, MemoryInv, Promote PROVE TableInv' /\ MemoryInv'
  <1>0. job \in Jobs /\ Owed /\ Snapshot /\ Learning /\ left \in Budget
    BY DEF TableInv, Types, MemoryInv, JobInv
  <1>1. /\ job.at = "promote" /\ job' = [job EXCEPT !.at = "learn", !.texts = Recurring]
        /\ UNCHANGED <<table, log, chat, clock, left>>
    BY DEF Promote
  <1>2. Recurring \subseteq Texts
    BY DEF Recurring
  <1>3. /\ job' \in Jobs /\ job'.at = "learn" /\ job'.todo = job.todo /\ job'.due = job.due
        /\ job'.texts = Recurring /\ job'.entry = job.entry /\ job'.merged = job.merged
    BY <1>0, <1>1, <1>2 DEF Jobs, JobPcs
  <1>4. SameRows /\ TableInv' /\ Replacing' /\ Bounded'
    BY <1>0, <1>1, <1>3, ReadStep
  <1>5. Snapshot'
    BY <1>0, <1>1, <1>3, <1>4, SnapshotSame DEF table
  <1>6. Owed' /\ Chosen' /\ Learning'
    BY <1>0, <1>1, <1>3 DEF Owed, Chosen, Learning
  <1> QED BY <1>3, <1>4, <1>5, <1>6 DEF MemoryInv, JobInv

LEMMA DedupeStep == ASSUME TableInv, MemoryInv, Dedupe PROVE TableInv' /\ MemoryInv'
  <1>0. job \in Jobs /\ Owed /\ Learning /\ left \in Budget
    BY DEF TableInv, Types, MemoryInv, JobInv
  <1> DEFINE now == {[id |-> i, text |-> rows[i].text, layer |-> Layer(rows[i].kind)] : i \in LiveIds}
  <1>1. /\ job.at = "dedupe" /\ job' = [job EXCEPT !.at = "compare", !.todo = now]
        /\ UNCHANGED <<table, log, chat, clock, left>>
    BY DEF Dedupe
  <1>2. \A i \in LiveIds : i \in Ids /\ Live(i) /\ rows[i] \in Row /\ i \in issued
    BY DEF LiveIds, Live, Exists, TableInv, Types, Issued
  <1>3. \A r \in now : /\ r \in Snapshots /\ r.id \in issued /\ Live(r.id)
                       /\ rows[r.id].text = r.text /\ Layer(rows[r.id].kind) = r.layer
    <2> SUFFICES ASSUME NEW i \in LiveIds
                 PROVE  [id |-> i, text |-> rows[i].text, layer |-> Layer(rows[i].kind)] \in Snapshots
      BY <1>2
    <2>1. rows[i].text \in Texts /\ rows[i].kind \in Kinds
      BY <1>2 DEF Row
    <2>2. Layer(rows[i].kind) \in Layers
      BY <2>1 DEF Kinds, Layer, Layers
    <2> QED BY <1>2, <2>1, <2>2 DEF Snapshots
  <1> HIDE DEF now
  <1>4. /\ job' \in Jobs /\ job'.at = "compare" /\ job'.todo = now /\ job'.due = job.due
        /\ job'.entry = job.entry
    BY <1>0, <1>1, <1>3 DEF Jobs, JobPcs
  <1>5. TableInv' /\ Replacing' /\ Bounded' /\ \A t : Learnt(t)' <=> Learnt(t)
    BY <1>0, <1>1, <1>4, ReadStep
  <1>6. Snapshot'
    BY <1>1, <1>3, <1>4 DEF Snapshot, table, Live, Exists
  <1>7. Owed' /\ Chosen' /\ Learning'
    BY <1>0, <1>1, <1>4, <1>5 DEF Owed, Chosen, Learning
  <1> QED BY <1>4, <1>5, <1>6, <1>7 DEF MemoryInv, JobInv

\* What a row fades to is a salience.
LEMMA ReadFades ==
  ASSUME Types
  PROVE  [i \in {i \in LiveIds : /\ rows[i].salience > PruneBelow
                                 /\ Decayed(rows[i]) # rows[i].salience} |-> Decayed(rows[i])] \in Fades
  <1> DEFINE stale == {i \in LiveIds : /\ rows[i].salience > PruneBelow
                                       /\ Decayed(rows[i]) # rows[i].salience}
  <1>1. ASSUME NEW i \in stale PROVE i \in Ids /\ Decayed(rows[i]) \in Saliences
    <2>1. i \in Ids /\ rows[i] \in Row /\ rows[i].seen <= day /\ day \in 0 .. MaxDays /\ MaxDays \in Nat
      BY MemoryAssumption DEF LiveIds, Live, Exists, Types
    <2>2. rows[i].salience \in Saliences /\ rows[i].seen \in 0 .. MaxDays
      BY <2>1 DEF Row
    <2>3. day - rows[i].seen \in 0 .. MaxDays
      BY <2>1, <2>2
    <2> QED BY <2>1, <2>2, <2>3, MemoryAssumption DEF Decayed
  <1> HIDE DEF stale
  <1>2. [i \in stale |-> Decayed(rows[i])] \in Fades
    BY <1>1 DEF Fades
  <1> QED BY <1>2 DEF stale

LEMMA DecayStep == ASSUME TableInv, MemoryInv, Decay PROVE TableInv' /\ MemoryInv'
  <1>0. job \in Jobs /\ Owed /\ Snapshot /\ Learning /\ left \in Budget
    BY DEF TableInv, Types, MemoryInv, JobInv
  <1> DEFINE stale == {i \in LiveIds : /\ rows[i].salience > PruneBelow
                                       /\ Decayed(rows[i]) # rows[i].salience}
             fades == [i \in stale |-> Decayed(rows[i])]
  <1>1. /\ job.at = "decay" /\ UNCHANGED <<table, log, chat, clock, left>>
        /\ job' = [job EXCEPT !.at = "prune"] \/ job' = [job EXCEPT !.at = "fade", !.fades = fades]
    BY PassesInOrder DEF Decay
  <1>2. fades \in Fades
    BY ReadFades DEF TableInv
  <1> HIDE DEF fades
  <1>3. /\ job' \in Jobs /\ job'.at \in {"prune", "fade"} /\ job'.todo = job.todo /\ job'.due = job.due
        /\ job'.entry = job.entry /\ job'.merged = job.merged
    BY <1>0, <1>1, <1>2 DEF Jobs, JobPcs
  <1>4. SameRows /\ TableInv' /\ Replacing' /\ Bounded' /\ \A t : Learnt(t)' <=> Learnt(t)
    BY <1>0, <1>1, <1>3, ReadStep
  <1>5. Snapshot'
    BY <1>0, <1>1, <1>3, <1>4, SnapshotSame DEF table
  <1>6. Owed' /\ Chosen' /\ Learning'
    BY <1>0, <1>1, <1>3, <1>4 DEF Owed, Chosen, Learning
  <1> QED BY <1>3, <1>4, <1>5, <1>6 DEF MemoryInv, JobInv

LEMMA PruneStep == ASSUME TableInv, MemoryInv, Prune PROVE TableInv' /\ MemoryInv'
  <1>0. job \in Jobs /\ Owed /\ Snapshot /\ Learning /\ left \in Budget
    BY DEF TableInv, Types, MemoryInv, JobInv
  <1> DEFINE ids == {i \in LiveIds : rows[i].salience < PruneBelow}
             e == [ids |-> ids, to |-> 0]
  <1>1. /\ job.at = "prune" /\ UNCHANGED <<table, log, chat, clock, left>>
        /\ \/ job' = [job EXCEPT !.at = "finish"]
           \/ job' = [job EXCEPT !.at = "erase", !.dups = ids, !.entry = e]
    BY DEF Prune
  <1>2. ids \subseteq Ids /\ e \in Entry /\ e # None /\ e.to = 0
    <2>1. ids \subseteq Ids
      BY DEF LiveIds
    <2>2. e \in Entry
      BY <2>1 DEF Entry
    <2> QED BY <2>1, <2>2, NoneIsNoRow
  <1> HIDE DEF ids, e
  <1>3. job.entry = None
    BY <1>0, <1>1 DEF Owed
  <1>4. /\ job' \in Jobs /\ job'.todo = job.todo /\ job'.due = job.due /\ job'.merged = job.merged
        /\ \/ job'.at = "finish" /\ job'.entry = None
           \/ job'.at = "erase" /\ job'.entry = e
    BY <1>0, <1>1, <1>2, <1>3, ZenonT(60) DEF Jobs, JobPcs
  <1>5. SameRows /\ TableInv' /\ Replacing' /\ Bounded' /\ \A t : Learnt(t)' <=> Learnt(t)
    BY <1>0, <1>1, <1>3, ReadStep
  <1>6. Snapshot'
    BY <1>0, <1>1, <1>4, <1>5, SnapshotSame DEF table
  <1>7. Owed' /\ Chosen' /\ Learning'
    BY <1>0, <1>1, <1>2, <1>4, <1>5 DEF Owed, Chosen, Learning
  <1> QED BY <1>4, <1>5, <1>6, <1>7 DEF MemoryInv, JobInv

LEMMA FinishStep == ASSUME TableInv, MemoryInv, Finish PROVE TableInv' /\ MemoryInv'
  <1>0. job \in Jobs /\ Owed /\ left \in Budget
    BY DEF TableInv, Types, MemoryInv, JobInv
  <1>1. job.at = "finish" /\ job' = NoJob /\ UNCHANGED <<table, log, chat, clock, left>>
    BY DEF Finish
  <1>2. job.entry = None
    BY <1>0, <1>1 DEF Owed
  <1>3. TableInv' /\ Replacing' /\ Bounded'
    BY <1>0, <1>1, <1>2, ReadStep
  <1>4. job' \in Jobs /\ Owed' /\ Snapshot' /\ Chosen' /\ Learning'
    BY <1>1, IdleRun DEF NoJob, Owed, Snapshot, Chosen, Learning
  <1> QED BY <1>3, <1>4 DEF MemoryInv, JobInv

\* A phrase is learnt, or the entry of the one that was just learnt is owed.
LEMMA LearnStep == ASSUME TableInv, MemoryInv, Learn PROVE TableInv' /\ MemoryInv'
  <1>0. job \in Jobs /\ Owed /\ Snapshot /\ Chosen /\ Learning /\ left \in Budget
    BY DEF TableInv, Types, MemoryInv, JobInv
  <1>1. job.at = "learn" /\ UNCHANGED <<log, chat, clock, left>>
    BY DEF Learn
  <1>2. job.entry = None /\ \A t \in job.due : t \in job.texts \/ Learnt(t)
    BY <1>0, <1>1 DEF Owed, Learning
  <1>3. CASE job.texts = {}
    <2>1. job' = [job EXCEPT !.at = "dedupe"] /\ UNCHANGED table
      BY <1>3, PassesInOrder DEF Learn
    <2>2. /\ job' \in Jobs /\ job'.at = "dedupe" /\ job'.todo = job.todo /\ job'.due = job.due
          /\ job'.entry = job.entry /\ job'.merged = job.merged
      BY <1>0, <2>1 DEF Jobs, JobPcs
    <2>3. SameRows /\ TableInv' /\ Replacing' /\ Bounded' /\ \A t : Learnt(t)' <=> Learnt(t)
      BY <1>0, <1>1, <2>1, <2>2, ReadStep
    <2>4. Snapshot'
      BY <1>0, <2>1, <2>2, <2>3, SnapshotSame DEF table
    <2>5. Owed' /\ Chosen' /\ Learning'
      BY <1>0, <1>1, <1>2, <1>3, <2>2, <2>3 DEF Owed, Chosen, Learning
    <2> QED BY <2>2, <2>3, <2>4, <2>5 DEF MemoryInv, JobInv
  <1>4. ASSUME NEW t \in job.texts, Learnt(t), UNCHANGED table,
               job' = [job EXCEPT !.texts = job.texts \ {t}]
        PROVE  TableInv' /\ MemoryInv'
    <2>2. /\ job' \in Jobs /\ job'.at = "learn" /\ job'.todo = job.todo /\ job'.due = job.due
          /\ job'.entry = job.entry /\ job'.merged = job.merged /\ job'.texts = job.texts \ {t}
      BY <1>0, <1>1, <1>4 DEF Jobs, JobPcs
    <2>3. SameRows /\ TableInv' /\ Replacing' /\ Bounded' /\ \A s : Learnt(s)' <=> Learnt(s)
      BY <1>0, <1>1, <1>4, <2>2, ReadStep
    <2>4. Snapshot'
      BY <1>0, <1>4, <2>2, <2>3, SnapshotSame DEF table
    <2>5. Owed' /\ Chosen' /\ Learning'
      BY <1>0, <1>1, <1>2, <1>4, <2>2, <2>3 DEF Owed, Chosen, Learning
    <2> QED BY <2>2, <2>3, <2>4, <2>5 DEF MemoryInv, JobInv
  <1>5. ASSUME NEW t \in job.texts, NextId \in Ids,
               Add("pattern", t, CHOOSE s \in Sessions : TRUE),
               job' = [[job EXCEPT !.texts = job.texts \ {t}]
                         EXCEPT !.at = "log", !.then = "learn",
                                !.entry = [ids |-> {Min(Asked(t) \cup {MaxId})}, to |-> NextId]]
        PROVE  TableInv' /\ MemoryInv'
    <2> DEFINE i == NextId
               least == Min(Asked(t) \cup {MaxId})
               e == [ids |-> {least}, to |-> i]
               sess == CHOOSE s \in Sessions : TRUE
    <2>1. t \in Texts /\ sess \in Sessions /\ "pattern" \in Kinds
      BY <1>0, MemoryAssumption DEF Jobs, Kinds
    <2>2. NewRow(i, "pattern", t, sess)
      BY <1>5, AddIsNew DEF TableInv
    <2>3. e \in Entry /\ e # None
      <3>1. MaxId \in Ids /\ Ids \subseteq Nat
        BY <1>5, MemoryAssumption DEF Ids
      <3>2. Asked(t) \cup {MaxId} \subseteq Ids
        BY <3>1 DEF Asked, LiveIds
      <3>3. least \in Ids
        BY <3>1, <3>2, MinIsLeast
      <3>4. e \in Entry
        BY <1>5, <3>3 DEF Entry
      <3> QED BY <3>4, NoneIsNoRow
    <2>4. job' = [job EXCEPT !.texts = job.texts \ {t}, !.at = "log", !.then = "learn", !.entry = e]
      BY <1>5
    <2> HIDE DEF i, e, sess
    <2>5. /\ job' \in Jobs /\ job'.at = "log" /\ job'.todo = job.todo /\ job'.due = job.due
          /\ job'.entry = e /\ job'.merged = job.merged /\ job'.texts = job.texts \ {t}
          /\ job'.then = "learn"
      BY <1>0, <2>3, <2>4 DEF Jobs, JobPcs
    <2>6. TableInv'
      <3>1. left' \in Budget /\ left'.days = left.days /\ linking' = linking
            /\ UNCHANGED <<day, entities>>
        BY <1>0, <1>1 DEF chat, clock
      <3> QED BY <2>1, <2>2, <3>1, NewTable
    <2>7. /\ i \in Ids /\ rows[i] = None /\ rows'[i] # None /\ rows'[i].by = 0
          /\ rows'[i].text = t /\ rows'[i].kind = "pattern"
          /\ \A k \in Ids \ {i} : rows'[k] = rows[k]
          /\ reused' = IF i \in issued THEN reused \cup {i} ELSE reused
          /\ issued' = issued \cup {i}
      BY <2>1, <2>2, NewRowFacts DEF TableInv, NewRow
    <2>8. Replacing'
      BY <2>7, NewReplacing DEF TableInv, MemoryInv, Exists
    <2>9. Bounded'
      <3>1. log' \subseteq Entry /\ Entries \subseteq Entries' /\ crashed' = crashed
        BY <1>1, <1>2 DEF Entries, MemoryInv, Bounded, clock
      <3> QED BY <2>7, <3>1, SilentNew DEF TableInv, MemoryInv
    <2>10. Snapshot'
      BY <1>0, <2>5, <2>7, SnapshotNew
    <2>11. \A s \in job.due : s \in job'.texts \/ Learnt(s)'
      <3> TAKE s \in job.due
      <3>1. CASE s = t
        <4>1. Layer("pattern") = "procedural" /\ <<t, t>> \in Like
          BY <2>1, MemoryAssumption DEF Layer
        <4> QED BY <2>7, <3>1, <4>1 DEF Learnt, Exists
      <3>2. CASE Learnt(s)
        BY <2>7, <3>2 DEF Learnt, Exists
      <3> QED BY <1>2, <2>5, <3>1, <3>2
    <2>12. Owed' /\ Chosen' /\ Learning'
      BY <2>3, <2>5, <2>11 DEF Owed, Chosen, Learning
    <2> QED BY <2>5, <2>6, <2>8, <2>9, <2>10, <2>12 DEF MemoryInv, JobInv
  <1>6. CASE job.texts # {}
    <2>1. PICK t \in job.texts :
            IF Learnt(t)
            THEN job' = [job EXCEPT !.texts = job.texts \ {t}] /\ UNCHANGED table
            ELSE /\ NextId \in Ids
                 /\ Add("pattern", t, CHOOSE s \in Sessions : TRUE)
                 /\ job' = [[job EXCEPT !.texts = job.texts \ {t}]
                              EXCEPT !.at = "log", !.then = "learn",
                                     !.entry = [ids |-> {Min(Asked(t) \cup {MaxId})}, to |-> NextId]]
      BY <1>6 DEF Learn
    <2> QED BY <1>4, <1>5, <2>1
  <1> QED BY <1>3, <1>6

\* A run that ends early: whatever it held is given up, and every change it had
\* made is on the log but for one, when it was killed.
LEMMA LogStep == ASSUME TableInv, MemoryInv, Log PROVE TableInv' /\ MemoryInv'
  <1>0. /\ Types /\ Replacing /\ Bounded /\ job \in Jobs /\ Owed /\ Snapshot /\ Learning
        /\ left \in Budget
    BY DEF TableInv, Types, MemoryInv, JobInv
  <1>1. job.at = "log" /\ UNCHANGED <<table, chat, clock, left>> /\ job.entry \in Entry
    BY <1>0 DEF Log, Owed, Jobs
  <1>2. SameRows /\ rows' = rows /\ UNCHANGED <<vec, links, issued, reused, entities, linking, day, crashed>>
    BY <1>1 DEF SameRows, table, chat, clock
  <1>3. TableInv' /\ Replacing'
    <2>1. Types'
      BY <1>0, <1>1, <1>2 DEF Types, Exists
    <2> QED BY <1>0, <1>2, <2>1, SameTable, SameReplacing
  <1>4. \A t : Learnt(t)' <=> Learnt(t)
    BY <1>2 DEF Learnt, Exists
  <1>5. CASE log' = log \cup {job.entry} /\ job' = [job EXCEPT !.at = job.then, !.entry = None]
    <2>1. /\ job' \in Jobs /\ job'.at = job.then /\ job'.todo = job.todo /\ job'.due = job.due
          /\ job'.entry = None /\ job'.merged = job.merged /\ job'.texts = job.texts
          /\ job'.then = job.then /\ job.then \in {"idle", "learn", "compare", "prune", "finish"}
      BY <1>0, <1>5 DEF Jobs, JobPcs
    <2>2. Bounded'
      <3>1. Entries \subseteq Entries' /\ log' \subseteq Entry
        BY <1>0, <1>1, <1>5 DEF Entries, Bounded
      <3> QED BY <1>0, <1>2, <3>1, SilentSame
    <2>3. Snapshot'
      BY <1>0, <1>2, <2>1, SnapshotSame
    <2>4. Owed' /\ Chosen' /\ Learning'
      BY <1>0, <1>1, <1>4, <2>1 DEF Owed, Chosen, Learning
    <2> QED BY <1>3, <2>1, <2>2, <2>3, <2>4 DEF MemoryInv, JobInv
  <1>6. CASE job.entry.to # 0 /\ ~Exists(job.entry.to) /\ job' = NoJob /\ log' = log
    <2>1. Bounded'
      <3>1. ASSUME NEW i \in Ids, i \in Unentered' PROVE i \in Unentered /\ rows'[i].by = rows[i].by
        <4>1. Exists(i) /\ rows[i].by # 0 /\ Exists(rows[i].by)
          BY <1>0, <1>2, <3>1 DEF Unentered, Exists, Replacing
        <4>2. rows[i].by # job.entry.to
          BY <1>6, <4>1
        <4>3. Entered(i) => Entered(i)'
          BY <1>2, <1>6, <4>2 DEF Entered
        <4> QED BY <1>2, <3>1, <4>1, <4>3 DEF Unentered
      <3> QED BY <1>0, <1>2, <1>6, <3>1, SilentStays DEF Bounded
    <2>2. job' \in Jobs /\ Owed' /\ Snapshot' /\ Chosen' /\ Learning'
      BY <1>6, IdleRun DEF NoJob, Owed, Snapshot, Chosen, Learning
    <2> QED BY <1>3, <2>1, <2>2 DEF MemoryInv, JobInv
  <1> QED BY <1>5, <1>6 DEF Log

LEMMA CrashStep == ASSUME TableInv, MemoryInv, Crash PROVE TableInv' /\ MemoryInv'
  <1>0. Types /\ Replacing /\ Bounded /\ left \in Budget
    BY DEF TableInv, Types, MemoryInv
  <1>1. /\ left.crashes > 0 /\ job' = NoJob /\ crashed' = crashed + 1
        /\ left' = [left EXCEPT !.crashes = left.crashes - 1] /\ UNCHANGED <<table, log, chat, day>>
    BY DEF Crash
  <1>2. SameRows /\ rows' = rows /\ UNCHANGED <<vec, links, issued, reused, entities, linking, day>>
    BY <1>1 DEF SameRows, table, chat
  <1>3. left' \in Budget /\ left'.days = left.days
    <2>1. left.crashes - 1 \in Nat
      BY <1>0, <1>1, Counted
    <2> QED BY <1>0, <1>1, <2>1, Spend
  <1>4. TableInv' /\ Replacing'
    <2>1. Types'
      BY <1>0, <1>2, <1>3 DEF Types, Exists
    <2> QED BY <1>0, <1>2, <2>1, SameTable, SameReplacing
  <1>5. Bounded'
    BY <1>0, <1>1, <1>2, SilentCrash DEF NoJob
  <1>6. job' \in Jobs /\ Owed' /\ Snapshot' /\ Chosen' /\ Learning'
    BY <1>1, IdleRun DEF NoJob, Owed, Snapshot, Chosen, Learning
  <1> QED BY <1>4, <1>5, <1>6 DEF MemoryInv, JobInv

\* What the index finds near a row restates it.
LEMMA CompareStep == ASSUME TableInv, MemoryInv, Compare PROVE TableInv' /\ MemoryInv'
  <1>0. job \in Jobs /\ Owed /\ Snapshot /\ Learning /\ left \in Budget
    BY DEF TableInv, Types, MemoryInv, JobInv
  <1>1. job.at = "compare" /\ UNCHANGED <<table, log, chat, clock, left>>
    BY DEF Compare
  <1>2. job.entry = None /\ \A t \in job.due : Learnt(t)
    BY <1>0, <1>1 DEF Owed, Learning
  <1>3. ASSUME job' \in Jobs, job'.at \in {"decay", "compare", "supersede"},
               job'.todo \subseteq job.todo, job'.entry = job.entry, job'.due = job.due,
               job.merged \subseteq job'.merged, Chosen'
        PROVE  TableInv' /\ MemoryInv'
    <2>1. SameRows /\ TableInv' /\ Replacing' /\ Bounded' /\ \A t : Learnt(t)' <=> Learnt(t)
      BY <1>0, <1>1, <1>3, ReadStep
    <2>2. Snapshot'
      BY <1>0, <1>1, <1>3, <2>1, SnapshotSame DEF table
    <2>3. Owed' /\ Learning'
      BY <1>2, <1>3, <2>1 DEF Owed, Learning
    <2> QED BY <1>3, <2>1, <2>2, <2>3 DEF MemoryInv, JobInv
  <1>4. CASE job' = [job EXCEPT !.at = "decay"]
    <2>1. /\ job' \in Jobs /\ job'.at = "decay" /\ job'.todo = job.todo /\ job'.entry = job.entry
          /\ job'.due = job.due /\ job'.merged = job.merged
      BY <1>0, <1>4 DEF Jobs, JobPcs
    <2>2. Chosen'
      BY <2>1 DEF Chosen
    <2> QED BY <1>3, <2>1, <2>2
  <1>5. CASE job' = [job EXCEPT !.todo = job.todo \ {Upcoming}]
    <2>1. /\ job' \in Jobs /\ job'.at = "compare" /\ job'.todo \subseteq job.todo /\ job'.due = job.due
          /\ job'.entry = job.entry /\ job'.merged = job.merged
      BY <1>0, <1>1, <1>5 DEF Jobs, JobPcs
    <2>2. Chosen'
      BY <2>1 DEF Chosen
    <2> QED BY <1>3, <2>1, <2>2
  <1>6. ASSUME job.todo # {}, ~Skips(Upcoming.id), NEW near \in Candidates(Upcoming.text),
               NEW dups,
               dups = {i \in near : /\ Live(i) /\ Layer(rows[i].kind) = Upcoming.layer
                                    /\ i # Upcoming.id /\ i \notin job.merged},
               job' = [job EXCEPT !.at = "supersede", !.dups = dups, !.merged = job.merged \cup dups]
        PROVE  TableInv' /\ MemoryInv'
    <2> DEFINE row == Upcoming
    <2>1. row \in job.todo /\ row.id \in Ids /\ row.id \notin job.merged
      BY <1>0, <1>6, UpcomingIsThere DEF Skips
    <2>2. \A i \in near : i \in Ids /\ vec[i] # None /\ <<row.text, vec[i]>> \in Near
      <3>1. near \subseteq {i \in Ids : vec[i] # None /\ <<row.text, vec[i]>> \in Near}
        BY <1>6 DEF Candidates, kSubset
      <3> QED BY <3>1
    <2>3. row' = row /\ row.id \notin dups
      <3>1. job'.todo = job.todo
        BY <1>0, <1>6 DEF Jobs
      <3> QED BY <1>6, <3>1 DEF Upcoming
    <2> HIDE DEF row
    <2>4. \A i \in dups : /\ i \in Ids /\ Live(i) /\ i \in issued /\ <<row.text, vec[i]>> \in Near
                          /\ Layer(rows[i].kind) = row.layer
      BY <1>6, <2>2, SMTT(30) DEF row, TableInv, Issued, Live
    <2>5. /\ job' \in Jobs /\ job'.at = "supersede" /\ job'.todo = job.todo /\ job'.entry = job.entry
          /\ job'.due = job.due /\ job'.merged = job.merged \cup dups /\ job'.dups = dups
      <3>1. dups \in SUBSET Ids /\ job.merged \cup dups \in SUBSET Ids
        BY <1>0, <2>4 DEF Jobs
      <3> QED BY <1>0, <1>6, <3>1 DEF Jobs, JobPcs
    <2>6. ASSUME NEW i \in dups, Exists(i), Exists(row.id), {i, row.id} \cap reused = {}
          PROVE  Restates(i, row.id)
      <3>1. rows[row.id].text = row.text /\ Layer(rows[row.id].kind) = row.layer
        BY <1>0, <2>1, <2>6 DEF Snapshot
      <3>2. vec[i] = rows[i].text
        BY <2>4, <2>6 DEF TableInv, IndexTruthful
      <3>3. <<rows[i].text, row.text>> \in Near
        <4>1. <<row.text, rows[i].text>> \in Near
          BY <2>4, <3>2
        <4> QED BY <4>1, MemoryAssumption
      <3> QED BY <2>4, <3>1, <3>3 DEF Restates
    <2>7. Chosen'
      <3>1. UNCHANGED <<rows, reused, issued>>
        BY <1>1 DEF table
      <3>2. (Upcoming.id)' = row.id
        BY <2>3 DEF row
      <3>3. ASSUME NEW i \in dups, Exists(i)', Exists(row.id)', {i, row.id} \cap reused' = {}
            PROVE  Restates(i, row.id)'
        <4>1. row' = row
          BY <2>3
        <4>2. Exists(i) /\ Exists(row.id)
          BY <3>1, <3>3, <4>1 DEF Exists
        <4>3. Restates(i, row.id)
          BY <2>6, <3>1, <3>3, <4>2
        <4> QED BY <3>1, <4>1, <4>3 DEF Restates
      <3> QED BY <1>6, <2>1, <2>3, <2>4, <2>5, <3>1, <3>3 DEF Chosen, row
    <2> QED BY <1>3, <2>5, <2>7
  <1>7. CASE job.todo # {}
    <2>1. CASE Skips(Upcoming.id)
      BY <1>5, <1>7, <2>1 DEF Compare
    <2>2. CASE ~Skips(Upcoming.id)
      <3>1. PICK near \in Candidates(Upcoming.text) :
              LET dups == {i \in near : /\ Live(i) /\ Layer(rows[i].kind) = Upcoming.layer
                                        /\ i # Upcoming.id /\ i \notin job.merged}
              IN  IF dups = {} THEN job' = [job EXCEPT !.todo = job.todo \ {Upcoming}]
                  ELSE job' = [job EXCEPT !.at = "supersede", !.dups = dups,
                                          !.merged = job.merged \cup dups]
        BY <1>7, <2>2 DEF Compare
      <3> QED BY <1>5, <1>6, <1>7, <2>2, <3>1
    <2> QED BY <2>1, <2>2
  <1> QED BY <1>4, <1>7, PassesInOrder DEF Compare

\* The row that is kept is live: it is none of those that were merged.
LEMMA SupersedeStep == ASSUME TableInv, MemoryInv, Supersede PROVE TableInv' /\ MemoryInv'
  <1>0. /\ Types /\ Replacing /\ Bounded /\ job \in Jobs /\ Owed /\ Snapshot /\ Chosen /\ Learning
        /\ left \in Budget
    BY DEF TableInv, Types, MemoryInv, JobInv
  <1> DEFINE w == Upcoming.id
             dups == job.dups
             e == [ids |-> dups, to |-> w]
  <1>1. /\ job.at = "supersede" /\ UNCHANGED <<vec, links, log, chat, reused, issued, clock, left>>
        /\ job.entry = None /\ \A t \in job.due : Learnt(t)
    BY <1>0 DEF Supersede, Owed, Learning
  <1>2. /\ w \in Ids /\ dups \in SUBSET Ids /\ w \notin job.merged /\ dups \subseteq job.merged
        /\ w \notin dups /\ dups \subseteq issued
        /\ \A i \in dups : Exists(i) /\ Exists(w) /\ {i, w} \cap reused = {} => Restates(i, w)
        /\ Exists(w) => Live(w)
    BY <1>0, <1>1, UpcomingIsThere DEF Chosen, Jobs, Snapshot
  <1>3. CASE /\ Exists(w)
             /\ rows' = [i \in Ids |-> IF i \in dups /\ Exists(i) THEN [rows[i] EXCEPT !.by = w]
                                       ELSE rows[i]]
             /\ job' = [Logged(e, "compare") EXCEPT !.todo = @ \ {Upcoming}, !.dups = {}]
    <2>0. job' = [job EXCEPT !.at = "log", !.entry = e, !.then = "compare",
                             !.todo = job.todo \ {Upcoming}, !.dups = {}]
      BY <1>0, <1>3 DEF Logged, Jobs
    <2>1. e \in Entry /\ e # None
      <3>1. e \in Entry
        BY <1>2 DEF Entry
      <3> QED BY <3>1, NoneIsNoRow
    <2>2. ASSUME NEW i \in Ids
          PROVE  /\ rows'[i] = None <=> rows[i] = None
                 /\ rows[i] # None =>
                      /\ rows'[i].kind = rows[i].kind /\ rows'[i].text = rows[i].text
                      /\ rows'[i].sess = rows[i].sess /\ rows'[i].seen = rows[i].seen
                      /\ i \notin dups => rows'[i] = rows[i]
      <3>0. rows[i] = None \/ rows[i] \in Row
        BY <1>0 DEF Types
      <3>1. CASE i \in dups /\ rows[i] # None
        <4>1. rows'[i] = [rows[i] EXCEPT !.by = w]
          BY <1>3, <3>1 DEF Exists
        <4>2. rows'[i] \in Row
          BY <1>2, <3>0, <3>1, <4>1 DEF Row
        <4> QED BY <3>0, <3>1, <4>1, <4>2, NoneIsNoRow DEF Row
      <3>2. CASE ~(i \in dups /\ rows[i] # None)
        <4>1. rows'[i] = rows[i]
          BY <1>3, <3>2 DEF Exists
        <4> QED BY <3>2, <4>1
      <3> QED BY <3>1, <3>2
    <2>3. Replacing' /\ rows' \in [Ids -> {None} \cup Row]
      <3>1. \A i \in dups : Exists(i) /\ {i, w} \cap reused = {} => Restates(i, w)
        BY <1>2, <1>3
      <3>2. Live(w) /\ reused' = reused
        BY <1>1, <1>2, <1>3
      <3> HIDE DEF w, dups
      <3> QED BY <1>0, <1>2, <1>3, <3>1, <3>2, SupersedeReplacing
    <2> HIDE DEF e
    <2>4. /\ job' \in Jobs /\ job'.at = "log" /\ job'.then = "compare" /\ job'.entry = e
          /\ job'.todo \subseteq job.todo /\ job'.merged = job.merged /\ job'.due = job.due
      BY <1>0, <2>0, <2>1 DEF Jobs, JobPcs
    <2>5. Bounded'
      <3>1. job'.entry = [ids |-> dups, to |-> w] /\ log' = log /\ crashed' = crashed
        BY <1>1, <2>4 DEF e, clock
      <3> HIDE DEF w, dups
      <3> QED BY <1>0, <1>1, <1>2, <1>3, <3>1, SilentSupersede
    <2>6. \A t : Learnt(t) => Learnt(t)'
      BY <2>2 DEF Learnt, Exists
    <2>7. TableInv'
      <3>1. UNCHANGED <<vec, links, issued, reused, entities, linking, day, left>>
        BY <1>1 DEF chat, clock
      <3> QED BY <2>2, <2>3, <3>1, SameTexts
    <2>8. Snapshot'
      <3> SUFFICES ASSUME NEW r \in job'.todo
                   PROVE (/\ r.id \in issued
                          /\ Exists(r.id) /\ r.id \notin reused =>
                               rows[r.id].text = r.text /\ Layer(rows[r.id].kind) = r.layer
                          /\ Exists(r.id) /\ r.id \notin job.merged => Live(r.id))'
        BY DEF Snapshot
      <3>1. r \in job.todo /\ r.id \in Ids /\ issued' = issued /\ reused' = reused
        BY <1>0, <1>1, <2>4 DEF Jobs, Snapshots
      <3>2. r.id \notin job.merged => r.id \notin dups
        BY <1>2
      <3> HIDE DEF dups
      <3> QED BY <1>0, <2>2, <2>4, <3>1, <3>2 DEF Snapshot, Exists, Live
    <2>9. Owed' /\ Chosen' /\ Learning'
      BY <1>1, <2>1, <2>4, <2>6 DEF Owed, Chosen, Learning
    <2> QED BY <2>3, <2>4, <2>5, <2>7, <2>8, <2>9 DEF MemoryInv, JobInv
  <1>4. CASE job' = NoJob /\ UNCHANGED rows
    <2>1. UNCHANGED <<table, log, chat, clock>> /\ left' \in Budget /\ left'.days = left.days
      BY <1>0, <1>1, <1>4 DEF table
    <2>2. TableInv' /\ Replacing' /\ Bounded'
      BY <1>1, <2>1, ReadStep
    <2>3. job' \in Jobs /\ Owed' /\ Snapshot' /\ Chosen' /\ Learning'
      BY <1>4, IdleRun DEF NoJob, Owed, Snapshot, Chosen, Learning
    <2> QED BY <2>2, <2>3 DEF MemoryInv, JobInv
  <1> QED BY <1>3, <1>4 DEF Supersede

\* Salience fades to what was computed; the memories do not change.
LEMMA FadeStep == ASSUME TableInv, MemoryInv, Fade PROVE TableInv' /\ MemoryInv'
  <1>0. /\ Types /\ Replacing /\ Bounded /\ job \in Jobs /\ Owed /\ Snapshot /\ Learning
        /\ left \in Budget
    BY DEF TableInv, Types, MemoryInv, JobInv
  <1> DEFINE fades == job.fades
             e == [ids |-> DOMAIN fades, to |-> 0]
  <1>1. /\ job.at = "fade"
        /\ rows' = [i \in Ids |-> IF i \in DOMAIN fades /\ Exists(i)
                                  THEN [rows[i] EXCEPT !.salience = fades[i]] ELSE rows[i]]
        /\ job' = [job EXCEPT !.at = "log", !.entry = e, !.then = "prune", !.fades = <<>>]
        /\ UNCHANGED <<vec, links, log, reused, issued, entities, linking, day, crashed, left>>
    BY PassesInOrder DEF Fade, Logged, chat, clock
  <1>2. job.entry = None /\ \A t \in job.due : Learnt(t)
    BY <1>0, <1>1 DEF Owed, Learning
  <1>3. DOMAIN fades \subseteq Ids /\ \A i \in DOMAIN fades : fades[i] \in Saliences
    BY <1>0 DEF Jobs, Fades
  <1>4. e \in Entry /\ e # None
    <2>1. e \in Entry
      BY <1>3 DEF Entry
    <2> QED BY <2>1, NoneIsNoRow
  <1> HIDE DEF fades, e
  <1>5. ASSUME NEW i \in Ids
        PROVE  /\ rows'[i] \in {None} \cup Row
               /\ rows'[i] = None <=> rows[i] = None
               /\ rows[i] # None =>
                    /\ rows'[i].kind = rows[i].kind /\ rows'[i].text = rows[i].text
                    /\ rows'[i].sess = rows[i].sess /\ rows'[i].by = rows[i].by
                    /\ rows'[i].seen = rows[i].seen
    <2>0. rows[i] = None \/ rows[i] \in Row
      BY <1>0 DEF Types
    <2>1. CASE i \in DOMAIN fades /\ rows[i] # None
      <3>1. rows'[i] = [rows[i] EXCEPT !.salience = fades[i]] /\ fades[i] \in Saliences
        BY <1>1, <1>3, <2>1 DEF Exists
      <3>2. rows'[i] \in Row
        BY <2>0, <2>1, <3>1 DEF Row
      <3> QED BY <2>0, <2>1, <3>1, <3>2, NoneIsNoRow DEF Row
    <2>2. CASE ~(i \in DOMAIN fades /\ rows[i] # None)
      <3>1. rows'[i] = rows[i]
        BY <1>1, <2>2 DEF Exists
      <3> QED BY <2>0, <3>1
    <2> QED BY <2>1, <2>2
  <1>6. SameRows
    BY <1>5 DEF SameRows
  <1>7. TableInv' /\ Replacing'
    <2>1. rows' \in [Ids -> {None} \cup Row]
      BY <1>1, <1>5
    <2>2. Types'
      BY <1>0, <1>1, <1>5, <2>1 DEF Types, Exists
    <2> QED BY <1>0, <1>1, <1>6, <2>2, SameTable, SameReplacing
  <1>8. /\ job' \in Jobs /\ job'.at = "log" /\ job'.then = "prune" /\ job'.entry = e
        /\ job'.todo = job.todo /\ job'.merged = job.merged /\ job'.due = job.due
    BY <1>0, <1>1, <1>4, IdleRun DEF Jobs, JobPcs, NoJob
  <1>9. Bounded'
    <2>1. Entries \subseteq Entries' /\ log' \subseteq Entry
      BY <1>0, <1>1, <1>2 DEF Entries, Bounded
    <2> QED BY <1>0, <1>1, <1>6, <2>1, SilentSame
  <1>10. Snapshot'
    BY <1>0, <1>1, <1>6, <1>8, SnapshotSame
  <1>11. \A t : Learnt(t) => Learnt(t)'
    BY <1>5 DEF Learnt, Exists
  <1>12. Owed' /\ Chosen' /\ Learning'
    BY <1>2, <1>4, <1>8, <1>11 DEF Owed, Chosen, Learning
  <1> QED BY <1>7, <1>8, <1>9, <1>10, <1>12 DEF MemoryInv, JobInv

\* A row that is pruned goes the way of one that is forgotten.
LEMMA EraseStep == ASSUME TableInv, MemoryInv, Erase PROVE TableInv' /\ MemoryInv'
  <1>0. job \in Jobs /\ Owed /\ Snapshot /\ Learning /\ left \in Budget
    BY DEF TableInv, Types, MemoryInv, JobInv
  <1>1. job.at = "erase" /\ UNCHANGED <<chat, clock, left>> /\ job.entry # None /\ job.entry \in Entry
    BY <1>0 DEF Erase, Owed, Jobs
  <1>2. CASE job.dups = {} /\ job' = Logged(job.entry, "finish") /\ UNCHANGED <<table, log>>
    <2>1. /\ job' \in Jobs /\ job'.at = "log" /\ job'.then = "finish" /\ job'.entry = job.entry
          /\ job'.todo = job.todo /\ job'.merged = job.merged /\ job'.due = job.due
      BY <1>0, <1>1, <1>2 DEF Logged, Jobs, JobPcs
    <2>2. SameRows /\ TableInv' /\ Replacing' /\ Bounded' /\ \A t : Learnt(t)' <=> Learnt(t)
      BY <1>0, <1>1, <1>2, <2>1, ReadStep
    <2>3. Snapshot'
      BY <1>0, <1>2, <2>1, <2>2, SnapshotSame DEF table
    <2>4. Owed' /\ Chosen' /\ Learning'
      BY <1>0, <1>1, <2>1, <2>2 DEF Owed, Chosen, Learning
    <2> QED BY <2>1, <2>2, <2>3, <2>4 DEF MemoryInv, JobInv
  <1>3. CASE job.dups # {}
    <2> DEFINE i == Min(job.dups)
    <2>1. i \in job.dups /\ i \in Ids
      <3>1. job.dups \subseteq Ids /\ Ids \subseteq Nat
        BY <1>0 DEF Jobs, Ids
      <3>2. job.dups \subseteq Nat
        BY <3>1
      <3> QED BY <1>3, <3>1, <3>2, MinIsLeast
    <2>2. /\ Delete(i)
          /\ job' = [job EXCEPT !.dups = job.dups \ {i},
                                !.due = Unhidden(job.due, i)]
      BY <1>3 DEF Erase
    <2> HIDE DEF i
    <2>3. /\ job' \in Jobs /\ job'.at = job.at /\ job'.todo = job.todo /\ job'.merged = job.merged
          /\ job'.texts = job.texts /\ job'.entry = job.entry /\ job'.then = job.then
          /\ job'.due \subseteq Unhidden(job.due, i)
      BY <1>0, <2>2 DEF Jobs, Unhidden
    <2>4. TableInv'
      BY <1>0, <1>1, <2>1, <2>2, DeleteTable DEF chat, clock
    <2>5. MemoryInv'
      BY <1>1, <2>1, <2>2, <2>3, DeleteRun DEF clock
    <2> QED BY <2>4, <2>5
  <1> QED BY <1>2, <1>3 DEF Erase

-----------------------------------------------------------------------------
(* A run beside another one: the table stays sound, whatever either holds. *)

LEMMA QuietRun ==
  ASSUME TableInv, UNCHANGED <<table, chat, day>>, left' \in Budget, left'.days = left.days
  PROVE  TableInv'
  <1>1. SameRows
    BY DEF SameRows, table
  <1>2. Types'
    <2>1. (\A i \in Ids : Exists(i) => rows[i].seen <= day)'
      BY DEF TableInv, Types, Exists, table
    <2> QED BY <2>1 DEF TableInv, Types, table
  <1> QED BY <1>1, <1>2, SameTable DEF table, chat

\* What a run reads, it reads as it is.
LEMMA ReadingRuns ==
  ASSUME TableInv, Running(job),
         \/ Run \/ Promote \/ Log \/ Dedupe \/ Compare \/ Decay \/ Prune \/ Finish
  PROVE  TableInv' /\ Running(job')
  <1>0. job \in Jobs /\ left \in Budget
    BY DEF Running, TableInv, Types
  <1>i. NoJob \in Jobs /\ NoJob.at = "idle" /\ NoJob.todo = {}
    BY IdleRun DEF NoJob
  <1>t. Recurring \subseteq Texts /\ SaidOften \subseteq Texts
    BY DEF Recurring, SaidOften
  <1>1. CASE Run
    <2>1. left.runs - 1 \in Nat /\ left' = [left EXCEPT !.runs = left.runs - 1]
      BY <1>0, <1>1, Counted DEF Run
    <2>2. left' \in Budget /\ left'.days = left.days
      BY <1>0, <2>1, Spend
    <2>3. job' = [NoJob EXCEPT !.at = "promote", !.due = Recurring, !.said = SaidOften]
      BY <1>1, PassesInOrder DEF Run, Begun
    <2>4. job' \in Jobs /\ job'.at = "promote"
      BY <1>t, <2>3, IdleRun DEF NoJob, Jobs, JobPcs
    <2> QED BY <1>1, <2>2, <2>4, QuietRun DEF Run, Running, clock
  <1>2. CASE Promote
    <2>1. job' = [job EXCEPT !.at = "learn", !.texts = Recurring]
      BY <1>2 DEF Promote
    <2>2. job' \in Jobs /\ job'.at = "learn"
      BY <1>0, <1>t, <2>1 DEF Jobs, JobPcs
    <2> QED BY <1>0, <1>2, <2>2, QuietRun DEF Promote, Running, clock
  <1>3. CASE Log
    <2>1. job' = [job EXCEPT !.at = job.then, !.entry = None] \/ job' = NoJob
      BY <1>3 DEF Log
    <2>2. job' \in Jobs /\ job'.at # "supersede"
      BY <1>0, <1>i, <2>1 DEF Jobs, JobPcs
    <2> QED BY <1>0, <1>3, <2>2, QuietRun DEF Log, Running, clock
  <1>4. CASE Dedupe
    <2> DEFINE now == {[id |-> i, text |-> rows[i].text, layer |-> Layer(rows[i].kind)] : i \in LiveIds}
    <2>1. job' = [job EXCEPT !.at = "compare", !.todo = now]
      BY <1>4 DEF Dedupe
    <2>2. now \subseteq Snapshots
      <3> SUFFICES ASSUME NEW i \in LiveIds
                   PROVE  [id |-> i, text |-> rows[i].text, layer |-> Layer(rows[i].kind)] \in Snapshots
        OBVIOUS
      <3>1. i \in Ids /\ rows[i] \in Row
        BY DEF LiveIds, Live, Exists, TableInv, Types
      <3>2. rows[i].text \in Texts /\ Layer(rows[i].kind) \in Layers
        BY <3>1 DEF Row, Kinds, Layer, Layers
      <3> QED BY <3>1, <3>2 DEF Snapshots
    <2> HIDE DEF now
    <2>3. job' \in Jobs /\ job'.at = "compare"
      BY <1>0, <2>1, <2>2 DEF Jobs, JobPcs
    <2> QED BY <1>0, <1>4, <2>3, QuietRun DEF Dedupe, Running, clock
  <1>5. CASE Compare
    <2>1. \/ job' = [job EXCEPT !.at = "decay"]
          \/ job' = [job EXCEPT !.todo = job.todo \ {Upcoming}] /\ job.at = "compare"
          \/ \E dups \in SUBSET Ids :
               /\ job.todo # {}
               /\ job' = [job EXCEPT !.at = "supersede", !.dups = dups, !.merged = job.merged \cup dups]
      <3>1. \A text : \A near \in Candidates(text) : near \subseteq Ids
        BY DEF Candidates, kSubset
      <3>2. CASE job.todo = {}
        BY <1>5, <3>2, PassesInOrder DEF Compare
      <3>3. CASE job.todo # {} /\ Skips(Upcoming.id)
        BY <1>5, <3>3 DEF Compare
      <3>4. CASE job.todo # {} /\ ~Skips(Upcoming.id)
        <4>1. PICK near \in Candidates(Upcoming.text) :
                LET dups == {i \in near : /\ Live(i) /\ Layer(rows[i].kind) = Upcoming.layer
                                          /\ i # Upcoming.id /\ i \notin job.merged}
                IN  IF dups = {} THEN job' = [job EXCEPT !.todo = job.todo \ {Upcoming}]
                    ELSE job' = [job EXCEPT !.at = "supersede", !.dups = dups,
                                            !.merged = job.merged \cup dups]
          BY <1>5, <3>4 DEF Compare
        <4>2. near \subseteq Ids /\ job.at = "compare"
          BY <1>5, <3>1, <4>1 DEF Compare
        <4> DEFINE dups == {i \in near : /\ Live(i) /\ Layer(rows[i].kind) = Upcoming.layer
                                         /\ i # Upcoming.id /\ i \notin job.merged}
        <4>3. dups \in SUBSET Ids
          BY <4>2
        <4>4. \/ job' = [job EXCEPT !.todo = job.todo \ {Upcoming}]
              \/ job' = [job EXCEPT !.at = "supersede", !.dups = dups, !.merged = job.merged \cup dups]
          BY <4>1
        <4> HIDE DEF dups
        <4> QED BY <3>4, <4>2, <4>3, <4>4
      <3> QED BY <3>2, <3>3, <3>4
    <2>2. ASSUME job' = [job EXCEPT !.at = "decay"] PROVE Running(job')
      <3>1. job' \in Jobs /\ job'.at = "decay"
        BY <1>0, <2>2 DEF Jobs, JobPcs
      <3> QED BY <3>1 DEF Running
    <2>3. ASSUME job' = [job EXCEPT !.todo = job.todo \ {Upcoming}], job.at = "compare" PROVE Running(job')
      <3>1. job' \in Jobs /\ job'.at = "compare"
        BY <1>0, <2>3 DEF Jobs, JobPcs
      <3> QED BY <3>1 DEF Running
    <2>4. ASSUME NEW dups \in SUBSET Ids, job.todo # {},
                 job' = [job EXCEPT !.at = "supersede", !.dups = dups, !.merged = job.merged \cup dups]
          PROVE  Running(job')
      BY <1>0, <2>4 DEF Jobs, JobPcs, Running
    <2>5. Running(job')
      BY <2>1, <2>2, <2>3, <2>4 DEF Running
    <2> QED BY <1>0, <1>5, <2>5, QuietRun DEF Compare, clock
  <1>6. CASE Decay
    <2> DEFINE stale == {i \in LiveIds : /\ rows[i].salience > PruneBelow
                                         /\ Decayed(rows[i]) # rows[i].salience}
               fades == [i \in stale |-> Decayed(rows[i])]
    <2>1. job' = [job EXCEPT !.at = "prune"] \/ job' = [job EXCEPT !.at = "fade", !.fades = fades]
      BY <1>6, PassesInOrder DEF Decay
    <2>2. fades \in Fades
      BY ReadFades DEF TableInv
    <2> HIDE DEF fades
    <2>3. job' \in Jobs /\ job'.at \in {"prune", "fade"}
      BY <1>0, <2>1, <2>2 DEF Jobs, JobPcs
    <2> QED BY <1>0, <1>6, <2>3, QuietRun DEF Decay, Running, clock
  <1>7. CASE Prune
    <2> DEFINE ids == {i \in LiveIds : rows[i].salience < PruneBelow}
               e == [ids |-> ids, to |-> 0]
    <2>1. \/ job' = [job EXCEPT !.at = "finish"]
          \/ job' = [job EXCEPT !.at = "erase", !.dups = ids, !.entry = e]
      BY <1>7 DEF Prune
    <2>2. ids \in SUBSET Ids /\ e \in Entry
      <3>1. ids \in SUBSET Ids
        BY DEF LiveIds
      <3> QED BY <3>1 DEF Entry
    <2> HIDE DEF ids, e
    <2>3. ASSUME job' = [job EXCEPT !.at = "finish"] PROVE Running(job')
      <3>1. job' \in Jobs /\ job'.at = "finish"
        BY <1>0, <2>3 DEF Jobs, JobPcs
      <3> QED BY <3>1 DEF Running
    <2>4. ASSUME job' = [job EXCEPT !.at = "erase", !.dups = ids, !.entry = e] PROVE Running(job')
      <3>1. job' \in Jobs /\ job'.at = "erase"
        BY <1>0, <2>2, <2>4 DEF Jobs, JobPcs
      <3> QED BY <3>1 DEF Running
    <2> QED BY <1>0, <1>7, <2>1, <2>3, <2>4, QuietRun DEF Prune, clock
  <1>8. CASE Finish
    BY <1>0, <1>i, <1>8, QuietRun DEF Finish, Running, clock
  <1> QED BY <1>1, <1>2, <1>3, <1>4, <1>5, <1>6, <1>7, <1>8

\* What it writes, it writes to rows that are there.
LEMMA WritingRuns ==
  ASSUME TableInv, Running(job), Learn \/ Supersede \/ Fade \/ Erase
  PROVE  TableInv' /\ Running(job')
  <1>0. job \in Jobs /\ Types /\ left \in Budget
    BY DEF Running, TableInv, Types
  <1>i. NoJob \in Jobs /\ NoJob.at = "idle"
    BY IdleRun DEF NoJob
  <1>1. CASE Learn
    <2>0. UNCHANGED <<chat, clock, left>>
      BY <1>1 DEF Learn
    <2>1. CASE UNCHANGED table /\ job' = [job EXCEPT !.at = "dedupe"]
      <3>1. job' \in Jobs /\ job'.at = "dedupe"
        BY <1>0, <2>1 DEF Jobs, JobPcs
      <3> QED BY <1>0, <2>0, <2>1, <3>1, QuietRun DEF Running, clock
    <2>2. ASSUME NEW t \in job.texts, UNCHANGED table, job' = [job EXCEPT !.texts = job.texts \ {t}]
          PROVE  TableInv' /\ Running(job')
      <3>1. job' \in Jobs /\ job'.at = "learn"
        BY <1>0, <1>1, <2>2 DEF Jobs, Learn
      <3> QED BY <1>0, <2>0, <2>2, <3>1, QuietRun DEF Running, clock
    <2>3. ASSUME NEW t \in job.texts, NextId \in Ids, Add("pattern", t, CHOOSE s \in Sessions : TRUE),
                 job' = [[job EXCEPT !.texts = job.texts \ {t}]
                           EXCEPT !.at = "log", !.then = "learn",
                                  !.entry = [ids |-> {Min(Asked(t) \cup {MaxId})}, to |-> NextId]]
          PROVE  TableInv' /\ Running(job')
      <3> DEFINE least == Min(Asked(t) \cup {MaxId})
                 e == [ids |-> {least}, to |-> NextId]
                 sess == CHOOSE s \in Sessions : TRUE
      <3>1. t \in Texts /\ sess \in Sessions /\ "pattern" \in Kinds
        BY <1>0, MemoryAssumption DEF Jobs, Kinds
      <3>2. NewRow(NextId, "pattern", t, sess)
        BY <2>3, AddIsNew DEF TableInv
      <3>3. e \in Entry
        <4>1. MaxId \in Ids /\ Ids \subseteq Nat
          BY <2>3, MemoryAssumption DEF Ids
        <4>2. Asked(t) \cup {MaxId} \subseteq Ids
          BY <4>1 DEF Asked, LiveIds
        <4>3. least \in Ids
          BY <4>1, <4>2, MinIsLeast
        <4> QED BY <2>3, <4>3 DEF Entry
      <3>4. job' = [job EXCEPT !.texts = job.texts \ {t}, !.at = "log", !.then = "learn", !.entry = e]
        BY <2>3
      <3> HIDE DEF e, sess
      <3>5. job' \in Jobs /\ job'.at = "log"
        BY <1>0, <3>3, <3>4 DEF Jobs, JobPcs
      <3>6. TableInv'
        <4>1. left' \in Budget /\ left'.days = left.days /\ linking' = linking
              /\ UNCHANGED <<day, entities>>
          BY <1>0, <2>0 DEF chat, clock
        <4> QED BY <3>1, <3>2, <4>1, NewTable
      <3> QED BY <3>5, <3>6 DEF Running
    <2>4. CASE job.texts = {}
      BY <1>1, <2>1, <2>4, PassesInOrder DEF Learn
    <2>5. CASE job.texts # {}
      <3>1. PICK t \in job.texts :
              IF Learnt(t)
              THEN job' = [job EXCEPT !.texts = job.texts \ {t}] /\ UNCHANGED table
              ELSE /\ NextId \in Ids
                   /\ Add("pattern", t, CHOOSE s \in Sessions : TRUE)
                   /\ job' = [[job EXCEPT !.texts = job.texts \ {t}]
                                EXCEPT !.at = "log", !.then = "learn",
                                       !.entry = [ids |-> {Min(Asked(t) \cup {MaxId})}, to |-> NextId]]
        BY <1>1, <2>5 DEF Learn
      <3> QED BY <2>2, <2>3, <3>1
    <2> QED BY <2>4, <2>5
  <1>2. CASE Supersede
    <2> DEFINE w == Upcoming.id
               dups == job.dups
               e == [ids |-> dups, to |-> w]
    <2>0. w \in Ids /\ dups \in SUBSET Ids /\ job.at = "supersede"
      <3>1. job.at = "supersede" /\ job.todo # {}
        BY <1>2 DEF Supersede, Running
      <3> QED BY <1>0, <3>1, UpcomingIsThere DEF Jobs
    <2>1. /\ UNCHANGED <<vec, links, reused, issued, chat, clock, left>>
          /\ \/ /\ rows' = [i \in Ids |-> IF i \in dups /\ Exists(i) THEN [rows[i] EXCEPT !.by = w]
                                          ELSE rows[i]]
                /\ job' = [Logged(e, "compare") EXCEPT !.todo = @ \ {Upcoming}, !.dups = {}]
             \/ rows' = rows /\ job' = NoJob
      BY <1>2 DEF Supersede
    <2>2. Running(job')
      <3>1. CASE job' = [Logged(e, "compare") EXCEPT !.todo = @ \ {Upcoming}, !.dups = {}]
        <4>1. job' = [job EXCEPT !.at = "log", !.entry = e, !.then = "compare",
                                 !.todo = job.todo \ {Upcoming}, !.dups = {}]
          BY <1>0, <3>1 DEF Logged, Jobs
        <4>2. e \in Entry
          BY <2>0 DEF Entry
        <4> HIDE DEF e
        <4> QED BY <1>0, <4>1, <4>2 DEF Jobs, JobPcs, Running
      <3>2. CASE job' = NoJob
        BY <1>i, <3>2 DEF Running
      <3> QED BY <2>1, <3>1, <3>2
    <2> HIDE DEF w, dups
    <2>3. ASSUME NEW i \in Ids
          PROVE  /\ rows'[i] \in {None} \cup Row
                 /\ rows'[i] = None <=> rows[i] = None
                 /\ rows[i] # None => rows'[i].text = rows[i].text /\ rows'[i].seen = rows[i].seen
      <3>0. rows[i] = None \/ rows[i] \in Row
        BY <1>0 DEF Types
      <3>1. CASE rows'[i] = rows[i]
        BY <3>0, <3>1
      <3>2. CASE rows'[i] = [rows[i] EXCEPT !.by = w] /\ rows[i] # None
        <4>1. rows'[i] \in Row
          BY <2>0, <3>0, <3>2 DEF Row
        <4> QED BY <3>0, <3>2, <4>1, NoneIsNoRow DEF Row
      <3> QED BY <2>1, <3>1, <3>2 DEF Exists
    <2>4. rows' \in [Ids -> {None} \cup Row]
      BY <1>0, <2>1, <2>3 DEF Types
    <2>5. TableInv'
      BY <2>1, <2>3, <2>4, SameTexts DEF chat, clock
    <2> QED BY <2>2, <2>5
  <1>3. CASE Fade
    <2> DEFINE fades == job.fades
               e == [ids |-> DOMAIN fades, to |-> 0]
    <2>1. /\ rows' = [i \in Ids |-> IF i \in DOMAIN fades /\ Exists(i)
                                    THEN [rows[i] EXCEPT !.salience = fades[i]] ELSE rows[i]]
          /\ job' = [job EXCEPT !.at = "log", !.entry = e, !.then = "prune", !.fades = <<>>]
          /\ UNCHANGED <<vec, links, chat, clock, reused, issued, left>>
      BY <1>3, PassesInOrder DEF Fade, Logged
    <2>2. DOMAIN fades \subseteq Ids /\ \A i \in DOMAIN fades : fades[i] \in Saliences
      BY <1>0 DEF Jobs, Fades
    <2>3. e \in Entry
      BY <2>2 DEF Entry
    <2> HIDE DEF fades, e
    <2>4. Running(job')
      BY <1>0, <2>1, <2>3, IdleRun DEF Jobs, JobPcs, NoJob, Running
    <2>5. ASSUME NEW i \in Ids
          PROVE  /\ rows'[i] \in {None} \cup Row
                 /\ rows'[i] = None <=> rows[i] = None
                 /\ rows[i] # None => rows'[i].text = rows[i].text /\ rows'[i].seen = rows[i].seen
      <3>0. rows[i] = None \/ rows[i] \in Row
        BY <1>0 DEF Types
      <3>1. CASE i \in DOMAIN fades /\ rows[i] # None
        <4>1. rows'[i] = [rows[i] EXCEPT !.salience = fades[i]] /\ fades[i] \in Saliences
          BY <2>1, <2>2, <3>1 DEF Exists
        <4>2. rows'[i] \in Row
          BY <3>0, <3>1, <4>1 DEF Row
        <4> QED BY <3>0, <3>1, <4>1, <4>2, NoneIsNoRow DEF Row
      <3>2. CASE ~(i \in DOMAIN fades /\ rows[i] # None)
        <4>1. rows'[i] = rows[i]
          BY <2>1, <3>2 DEF Exists
        <4> QED BY <3>0, <4>1
      <3> QED BY <3>1, <3>2
    <2>6. rows' \in [Ids -> {None} \cup Row]
      BY <2>1, <2>5
    <2>7. TableInv'
      BY <2>1, <2>5, <2>6, SameTexts DEF chat, clock
    <2> QED BY <2>4, <2>7
  <1>4. CASE Erase
    <2>0. UNCHANGED <<chat, clock, left>> /\ job.at = "erase"
      BY <1>4 DEF Erase
    <2>1. CASE job.dups = {}
      <3>1. job' = [job EXCEPT !.at = "log", !.entry = job.entry, !.then = "finish"] /\ UNCHANGED table
        BY <1>4, <2>1 DEF Erase, Logged
      <3>2. Running(job')
        BY <1>0, <3>1 DEF Jobs, JobPcs, Running
      <3> QED BY <1>0, <2>0, <3>1, <3>2, QuietRun DEF clock
    <2>2. CASE job.dups # {}
      <3> DEFINE i == Min(job.dups)
      <3>1. i \in Ids
        <4>1. job.dups \subseteq Ids /\ Ids \subseteq Nat
          BY <1>0 DEF Jobs, Ids
        <4>2. job.dups \subseteq Nat
          BY <4>1
        <4> QED BY <2>2, <4>1, <4>2, MinIsLeast
      <3>2. /\ Delete(i)
            /\ job' = [job EXCEPT !.dups = job.dups \ {i}, !.due = Unhidden(job.due, i)]
        BY <1>4, <2>2 DEF Erase
      <3> HIDE DEF i
      <3>3. Running(job')
        BY <1>0, <2>0, <3>2 DEF Jobs, Unhidden, Running
      <3>4. TableInv'
        BY <1>0, <2>0, <3>1, <3>2, DeleteTable DEF chat, clock
      <3> QED BY <3>3, <3>4
    <2> QED BY <2>1, <2>2
  <1> QED BY <1>1, <1>2, <1>3, <1>4

-----------------------------------------------------------------------------
(* Packing a prompt.                                                       *)

\* What the first k hits of a selection cost.
LEMMA SpentLoop ==
  ASSUME NEW costs \in Seq(Nat), NEW ks
  PROVE  /\ \A k \in 0 .. Len(costs) : Spent(costs, ks)[k] \in Nat
         /\ Spent(costs, ks)[0] = 0
         /\ \A k \in 1 .. Len(costs) :
              Spent(costs, ks)[k] = IF k \in ks THEN Spent(costs, ks)[k - 1] + costs[k]
                                    ELSE Spent(costs, ks)[k - 1]
  <1> DEFINE n == Len(costs)
             next(used, k) == IF k \in ks THEN used + costs[k] ELSE used
             step == [k \in 1 .. n |-> [used \in Nat |-> next(used, k)]]
             g == Spent(costs, ks)
  <1>1. n \in Nat /\ 0 \in Nat /\ \A k \in 1 .. n : costs[k] \in Nat
    OBVIOUS
  <1>2. \A used \in Nat, k \in 1 .. n : next(used, k) \in Nat
    BY <1>1
  <1> HIDE DEF n
  <1>3. step \in [1 .. n -> [Nat -> Nat]]
    <2> HIDE DEF next
    <2> QED BY <1>2
  <1>4. PICK f \in [0 .. n -> Nat] : f[0] = 0 /\ \A k \in 1 .. n : f[k] = step[k][f[k - 1]]
    <2> HIDE DEF step
    <2>1. Runs(n, Nat, 0, step) # {}
      BY <1>1, <1>3, LoopRuns
    <2> QED BY <2>1 DEF Runs
  <1>5. f = [k \in 0 .. n |-> IF k = 0 THEN 0 ELSE next(f[k - 1], k)]
    <2>1. \A k \in 1 .. n : k - 1 \in 0 .. n
      BY <1>1
    <2>2. \A k \in 1 .. n : step[k][f[k - 1]] = next(f[k - 1], k)
      <3> HIDE DEF next
      <3> QED BY <2>1
    <2> HIDE DEF next, step
    <2> QED BY <1>1, <1>4, <2>2
  <1>6. g = [k \in 0 .. n |-> IF k = 0 THEN 0 ELSE next(g[k - 1], k)]
    BY <1>5, Zenon DEF Spent, n
  <1> HIDE DEF g
  <1>7. g[0] = 0 /\ \A k \in 1 .. n : g[k] = next(g[k - 1], k)
    <2>1. \A k \in 1 .. n : k # 0 /\ k \in 0 .. n
      BY <1>1
    <2> HIDE DEF next
    <2> QED BY <1>1, <1>6, <2>1
  <1>8. \A k \in 0 .. n : g[k] \in Nat
    <2>1. Follows(g, n, Nat, 0, step)
      <3> HIDE DEF next
      <3> QED BY <1>7 DEF Follows
    <2> HIDE DEF step
    <2> QED BY <1>1, <1>3, <2>1, LoopStays
  <1> QED BY <1>7, <1>8 DEF g, n

\* The packing after k hits.
Packs == [kept : SUBSET Nat, used : Nat]
NoPack == [kept |-> {}, used |-> 0]
PackNext(pack, costs, allowance, k) ==
  IF pack.used + costs[k] > allowance THEN pack
  ELSE [kept |-> pack.kept \cup {k}, used |-> pack.used + costs[k]]

LEMMA PackLoop ==
  ASSUME NEW costs \in Seq(Nat), NEW allowance \in Nat
  PROVE  /\ \A k \in 0 .. Len(costs) : Packing(costs, allowance)[k] \in Packs
         /\ Packing(costs, allowance)[0] = NoPack
         /\ \A k \in 1 .. Len(costs) :
              Packing(costs, allowance)[k] =
                PackNext(Packing(costs, allowance)[k - 1], costs, allowance, k)
  <1> DEFINE n == Len(costs)
             step == [k \in 1 .. n |-> [pack \in Packs |-> PackNext(pack, costs, allowance, k)]]
             g == Packing(costs, allowance)
  <1>1. n \in Nat /\ NoPack \in Packs /\ \A k \in 1 .. n : costs[k] \in Nat /\ k \in Nat
    BY DEF Packs, NoPack
  <1>2. \A pack \in Packs, k \in 1 .. n : PackNext(pack, costs, allowance, k) \in Packs
    BY <1>1 DEF Packs, PackNext
  <1> HIDE DEF n
  <1>3. step \in [1 .. n -> [Packs -> Packs]]
    BY <1>2
  <1>4. PICK f \in [0 .. n -> Packs] : f[0] = NoPack /\ \A k \in 1 .. n : f[k] = step[k][f[k - 1]]
    <2> HIDE DEF step
    <2>1. Runs(n, Packs, NoPack, step) # {}
      BY <1>1, <1>3, LoopRuns
    <2> QED BY <2>1 DEF Runs
  <1>5. f = [k \in 0 .. n |-> IF k = 0 THEN NoPack ELSE PackNext(f[k - 1], costs, allowance, k)]
    <2>1. \A k \in 1 .. n : k - 1 \in 0 .. n
      BY <1>1
    <2>2. \A k \in 1 .. n : step[k][f[k - 1]] = PackNext(f[k - 1], costs, allowance, k)
      BY <2>1
    <2> HIDE DEF step
    <2> QED BY <1>1, <1>4, <2>2
  <1>6. g = [k \in 0 .. n |-> IF k = 0 THEN NoPack ELSE PackNext(g[k - 1], costs, allowance, k)]
    BY <1>5, Zenon DEF Packing, PackNext, NoPack, n
  <1> HIDE DEF g
  <1>7. g[0] = NoPack /\ \A k \in 1 .. n : g[k] = PackNext(g[k - 1], costs, allowance, k)
    <2>1. \A k \in 1 .. n : k # 0 /\ k \in 0 .. n
      BY <1>1
    <2> QED BY <1>1, <1>6, <2>1
  <1>8. \A k \in 0 .. n : g[k] \in Packs
    <2>1. Follows(g, n, Packs, NoPack, step)
      BY <1>7 DEF Follows
    <2> HIDE DEF step
    <2> QED BY <1>1, <1>3, <2>1, LoopStays
  <1> QED BY <1>7, <1>8 DEF g, n

\* Selections that agree on the first k hits have spent the same on them.
LEMMA SpentAgree ==
  ASSUME NEW costs \in Seq(Nat), NEW k \in 0 .. Len(costs), NEW A, NEW B,
         \A i \in 1 .. k : i \in A <=> i \in B
  PROVE  Spent(costs, A)[k] = Spent(costs, B)[k]
  <1> DEFINE P == {i \in 0 .. k : Spent(costs, A)[i] = Spent(costs, B)[i]}
  <1>0. Len(costs) \in Nat /\ k \in Nat
    OBVIOUS
  <1>1. 0 \in P
    BY <1>0, SpentLoop
  <1>2. ASSUME NEW i \in 0 .. k, i < k, i \in P PROVE i + 1 \in P
    <2>1. i + 1 \in 1 .. k /\ i + 1 \in 1 .. Len(costs) /\ (i + 1) - 1 = i /\ i + 1 \in 0 .. k
      BY <1>0, <1>2
    <2>2. /\ Spent(costs, A)[i + 1] = IF i + 1 \in A THEN Spent(costs, A)[i] + costs[i + 1]
                                      ELSE Spent(costs, A)[i]
          /\ Spent(costs, B)[i + 1] = IF i + 1 \in B THEN Spent(costs, B)[i] + costs[i + 1]
                                      ELSE Spent(costs, B)[i]
      <3>1. \A j \in 1 .. Len(costs) :
              Spent(costs, A)[j] = IF j \in A THEN Spent(costs, A)[j - 1] + costs[j]
                                   ELSE Spent(costs, A)[j - 1]
        BY SpentLoop
      <3>2. \A j \in 1 .. Len(costs) :
              Spent(costs, B)[j] = IF j \in B THEN Spent(costs, B)[j - 1] + costs[j]
                                   ELSE Spent(costs, B)[j - 1]
        BY SpentLoop
      <3> QED BY <2>1, <3>1, <3>2
    <2>3. Spent(costs, A)[i] = Spent(costs, B)[i] /\ (i + 1 \in A <=> i + 1 \in B)
      BY <1>2, <2>1
    <2> QED BY <2>1, <2>2, <2>3
  <1>3. 0 .. k \subseteq P
    <2> HIDE DEF P
    <2> QED BY <1>0, <1>1, <1>2, Counting
  <1> QED BY <1>0, <1>3

\* More hits cost no less.
LEMMA SpentGrows ==
  ASSUME NEW costs \in Seq(Nat), NEW A, NEW k \in 0 .. Len(costs)
  PROVE  Spent(costs, A)[k] <= Spent(costs, A)[Len(costs)]
  <1> DEFINE n == Len(costs)
             P == {i \in 0 .. n : i >= k => Spent(costs, A)[k] <= Spent(costs, A)[i]}
  <1>0. n \in Nat /\ k \in Nat /\ \A i \in 1 .. n : costs[i] \in Nat
    OBVIOUS
  <1> HIDE DEF n
  <1>1. 0 \in P
    BY <1>0, SpentLoop DEF n
  <1>2. ASSUME NEW i \in 0 .. n, i < n, i \in P PROVE i + 1 \in P
    <2>1. i + 1 \in 1 .. n /\ (i + 1) - 1 = i /\ i + 1 \in 0 .. n
      BY <1>0, <1>2
    <2>2. Spent(costs, A)[i + 1] = IF i + 1 \in A THEN Spent(costs, A)[i] + costs[i + 1]
                                   ELSE Spent(costs, A)[i]
      BY <2>1, SpentLoop DEF n
    <2>3. Spent(costs, A)[i] \in Nat /\ Spent(costs, A)[k] \in Nat /\ costs[i + 1] \in Nat
      BY <1>0, <2>1, SpentLoop DEF n
    <2>4. Spent(costs, A)[i] <= Spent(costs, A)[i + 1]
      BY <2>2, <2>3
    <2>5. CASE i >= k
      <3>1. Spent(costs, A)[k] <= Spent(costs, A)[i]
        BY <1>2, <2>5
      <3>2. Spent(costs, A)[i + 1] \in Nat
        BY <2>1, SpentLoop DEF n
      <3>3. Spent(costs, A)[k] <= Spent(costs, A)[i + 1]
        BY <2>3, <2>4, <3>1, <3>2
      <3> QED BY <2>1, <3>3
    <2>6. CASE i < k
      <3>1. i + 1 >= k => i + 1 = k
        BY <1>0, <2>6
      <3> QED BY <2>1, <2>3, <3>1
    <2> QED BY <1>0, <2>5, <2>6
  <1>3. 0 .. n \subseteq P
    <2> HIDE DEF P
    <2> QED BY <1>0, <1>1, <1>2, Counting
  <1>4. n \in P /\ n >= k
    BY <1>0, <1>3 DEF n
  <1> QED BY <1>4 DEF n

\* After k hits the packing is a selection of them that fits, to which every round has
\* added at most its own hit, and a hit was left out only where it did not fit.
PackRound(costs, allowance, k) ==
  LET pack == Packing(costs, allowance) IN
  /\ \A i \in pack[k].kept : i <= k
  /\ \A j \in 0 .. k : \A i \in 1 .. j : i \in pack[j].kept <=> i \in pack[k].kept
  /\ \A j \in 0 .. k : pack[j].used = Spent(costs, pack[j].kept)[j]
  /\ pack[k].used <= allowance
  /\ \A j \in 1 .. k : j \notin pack[k].kept => pack[j - 1].used + costs[j] > allowance

LEMMA PackRounds ==
  ASSUME NEW costs \in Seq(Nat), NEW allowance \in Nat
  PROVE  PackRound(costs, allowance, Len(costs))
  <1> DEFINE n == Len(costs)
             pack == Packing(costs, allowance)
             P == {k \in 0 .. n : PackRound(costs, allowance, k)}
  <1>0. n \in Nat /\ \A i \in 1 .. n : costs[i] \in Nat
    OBVIOUS
  <1>1. \A k \in 0 .. n : pack[k] \in Packs
    BY PackLoop
  <1>2. 0 \in P
    <2>1. pack[0] = NoPack
      BY PackLoop
    <2>2. Spent(costs, {})[0] = 0
      BY SpentLoop
    <2>3. pack[0].kept = {} /\ pack[0].used = 0 /\ 0 .. 0 = {0} /\ 1 .. 0 = {}
      BY <2>1 DEF NoPack
    <2> HIDE DEF pack
    <2>4. \A j \in 0 .. 0 : pack[j].used = Spent(costs, pack[j].kept)[j]
      BY <2>2, <2>3
    <2>5. \A j \in 0 .. 0 : \A i \in 1 .. j : FALSE
      OBVIOUS
    <2>6. PackRound(costs, allowance, 0)
      BY <2>3, <2>4, <2>5 DEF PackRound, pack
    <2> QED BY <1>0, <2>6
  <1>3. ASSUME NEW k \in 0 .. n, k < n, k \in P PROVE k + 1 \in P
    <2> DEFINE m == k + 1
    <2>1. m \in 1 .. n /\ m - 1 = k /\ m \in 0 .. n /\ k \in Nat /\ costs[m] \in Nat
      BY <1>0, <1>3
    <2>2. pack[m] = PackNext(pack[k], costs, allowance, m)
      BY <2>1, PackLoop
    <2>3. /\ \A i \in pack[k].kept : i <= k
          /\ \A j \in 0 .. k : \A i \in 1 .. j : i \in pack[j].kept <=> i \in pack[k].kept
          /\ \A j \in 0 .. k : pack[j].used = Spent(costs, pack[j].kept)[j]
          /\ pack[k].used <= allowance
          /\ \A j \in 1 .. k : j \notin pack[k].kept => pack[j - 1].used + costs[j] > allowance
      BY <1>3 DEF PackRound
    <2>4. /\ pack[k].kept \subseteq Nat /\ pack[k].used \in Nat
          /\ pack[m].kept \subseteq Nat /\ pack[m].used \in Nat
      BY <1>1, <2>1 DEF Packs
    <2>5. \A i \in Nat : i <= k => (i \in pack[m].kept <=> i \in pack[k].kept)
      BY <2>1, <2>2 DEF PackNext
    <2>6. m \in pack[m].kept <=> ~(pack[k].used + costs[m] > allowance)
      <3>1. m \notin pack[k].kept
        BY <2>1, <2>3
      <3> QED BY <2>2, <3>1 DEF PackNext
    <2>7. /\ pack[m].used = IF m \in pack[m].kept THEN pack[k].used + costs[m] ELSE pack[k].used
          /\ \A i \in pack[m].kept : i = m \/ i \in pack[k].kept
      BY <2>2, <2>6 DEF PackNext
    <2> HIDE DEF pack, m
    <2>8. pack[m].used = Spent(costs, pack[m].kept)[m]
      <3>1. \A i \in 1 .. k : i \in pack[m].kept <=> i \in pack[k].kept
        BY <2>1, <2>5
      <3>2. Spent(costs, pack[m].kept)[k] = Spent(costs, pack[k].kept)[k]
        BY <3>1, SpentAgree
      <3>3. Spent(costs, pack[m].kept)[m] =
              IF m \in pack[m].kept THEN Spent(costs, pack[m].kept)[k] + costs[m]
              ELSE Spent(costs, pack[m].kept)[k]
        BY <2>1, SpentLoop
      <3>4. pack[k].used = Spent(costs, pack[k].kept)[k]
        BY <2>1, <2>3
      <3> QED BY <2>7, <3>2, <3>3, <3>4
    <2>9. \A i \in pack[m].kept : i <= m
      <3> TAKE i \in pack[m].kept
      <3>1. i = m \/ i <= k
        BY <2>3, <2>7
      <3>2. i \in Nat /\ m \in Nat /\ k <= m
        BY <2>1, <2>4
      <3> QED BY <2>1, <3>1, <3>2
    <2>10. pack[m].used <= allowance
      BY <2>1, <2>3, <2>4, <2>6, <2>7
    <2>11. \A j \in 0 .. m : \A i \in 1 .. j : i \in pack[j].kept <=> i \in pack[m].kept
      <3> SUFFICES ASSUME NEW j \in 0 .. m, NEW i \in 1 .. j
                   PROVE  i \in pack[j].kept <=> i \in pack[m].kept
        OBVIOUS
      <3>1. CASE j = m
        BY <3>1
      <3>2. CASE j # m
        <4>1. j \in 0 .. k /\ i \in Nat /\ i <= k
          BY <2>1, <3>2
        <4> QED BY <2>3, <2>5, <4>1
      <3> QED BY <3>1, <3>2
    <2>12. \A j \in 0 .. m : pack[j].used = Spent(costs, pack[j].kept)[j]
      <3> TAKE j \in 0 .. m
      <3>1. j = m \/ j \in 0 .. k
        BY <2>1
      <3> QED BY <2>3, <2>8, <3>1
    <2>13. \A j \in 1 .. m : j \notin pack[m].kept => pack[j - 1].used + costs[j] > allowance
      <3> TAKE j \in 1 .. m
      <3>1. CASE j = m
        BY <2>1, <2>6, <3>1
      <3>2. CASE j # m
        <4>1. j \in 1 .. k /\ j \in Nat /\ j <= k
          BY <2>1, <3>2
        <4> QED BY <2>3, <2>5, <4>1
      <3> QED BY <3>1, <3>2
    <2>14. PackRound(costs, allowance, m)
      BY <2>9, <2>10, <2>11, <2>12, <2>13 DEF PackRound, pack
    <2> QED BY <2>1, <2>14 DEF m
  <1>4. 0 .. n \subseteq P
    <2> HIDE DEF P, n
    <2> QED BY <1>0, <1>2, <1>3, Counting
  <1> QED BY <1>0, <1>4

\* The packing fits, and wins the first hit on which it differs from any other that fits.
LEMMA BestPacking ==
  ASSUME NEW costs \in Seq(Nat), NEW allowance \in Nat
  PROVE  LET packed == PackMemories(costs, allowance) IN
         /\ Total(costs, packed) <= allowance
         /\ \A other \in SUBSET (DOMAIN costs) :
              Total(costs, other) <= allowance /\ other # packed =>
                Min((other \ packed) \cup (packed \ other)) \in packed
  <1> DEFINE n == Len(costs)
             pack == Packing(costs, allowance)
             packed == PackMemories(costs, allowance)
  <1>0. n \in Nat /\ DOMAIN costs = 1 .. n /\ packed = pack[n].kept /\ n \in 0 .. n
    BY DEF PackMemories
  <1>1. /\ \A j \in 0 .. n : \A i \in 1 .. j : i \in pack[j].kept <=> i \in packed
        /\ \A j \in 0 .. n : pack[j].used = Spent(costs, pack[j].kept)[j]
        /\ pack[n].used <= allowance
        /\ \A j \in 1 .. n : j \notin packed => pack[j - 1].used + costs[j] > allowance
        /\ \A i \in packed : i <= n
    <2>1. PackRound(costs, allowance, n)
      BY PackRounds
    <2> HIDE DEF n
    <2> QED BY <1>0, <2>1 DEF PackRound
  <1>2. packed \subseteq 1 .. n
    <2>1. packed \subseteq Nat
      BY <1>0, PackLoop DEF Packs
    <2>2. 0 \notin packed
      <3> DEFINE P == {k \in 0 .. n : 0 \notin pack[k].kept}
      <3>1. 0 \in P
        BY <1>0, PackLoop DEF NoPack
      <3>2. ASSUME NEW k \in 0 .. n, k < n, k \in P PROVE k + 1 \in P
        <4>1. k + 1 \in 1 .. n /\ (k + 1) - 1 = k /\ k + 1 \in 0 .. n /\ k + 1 # 0
          BY <1>0, <3>2
        <4>2. pack[k + 1] = PackNext(pack[k], costs, allowance, k + 1)
          BY <4>1, PackLoop
        <4> QED BY <3>2, <4>1, <4>2 DEF PackNext
      <3>3. 0 .. n \subseteq P
        <4> HIDE DEF P, n
        <4> QED BY <1>0, <3>1, <3>2, Counting
      <3> QED BY <1>0, <3>3
    <2> QED BY <1>0, <1>1, <2>1, <2>2
  <1> HIDE DEF n, pack, packed
  <1>3. Total(costs, packed) <= allowance
    BY <1>0, <1>1 DEF Total, n
  <1>4. ASSUME NEW other \in SUBSET (1 .. n), Total(costs, other) <= allowance, other # packed
        PROVE  Min((other \ packed) \cup (packed \ other)) \in packed
    <2> DEFINE diff == (other \ packed) \cup (packed \ other)
               m == Min(diff)
    <2>1. diff \subseteq 1 .. n /\ diff # {} /\ diff \subseteq Nat
      <3>1. other \subseteq 1 .. n
        OBVIOUS
      <3>2. diff # {}
        <4>1. other \subseteq packed /\ packed \subseteq other => other = packed
          OBVIOUS
        <4> QED BY <1>4, <4>1
      <3>3. diff \subseteq 1 .. n
        BY <1>2, <3>1
      <3>4. 1 .. n \subseteq Nat
        BY <1>0
      <3> HIDE DEF diff
      <3> QED BY <3>2, <3>3, <3>4
    <2>2. m \in diff /\ \A i \in diff : m <= i
      <3> HIDE DEF diff
      <3> QED BY <2>1, MinIsLeast
    <2>3. m \in 1 .. n /\ m - 1 \in 0 .. n /\ \A i \in 1 .. m - 1 : i \in other <=> i \in packed
      <3> HIDE DEF m
      <3>1. m \in 1 .. n
        BY <2>1, <2>2
      <3>2. \A i \in 1 .. m - 1 : i \notin diff
        BY <1>0, <2>2, <3>1
      <3> QED BY <1>0, <3>1, <3>2
    <2> HIDE DEF m
    <2>4. SUFFICES ASSUME m \notin packed PROVE FALSE
      BY DEF m
    <2>5. m \in other
      BY <2>2, <2>4
    <2>6. Spent(costs, other)[m - 1] = pack[m - 1].used
      <3>1. \A i \in 1 .. m - 1 : i \in other <=> i \in pack[m - 1].kept
        BY <1>1, <2>3
      <3>2. m - 1 \in 0 .. Len(costs)
        BY <2>3 DEF n
      <3>3. Spent(costs, other)[m - 1] = Spent(costs, pack[m - 1].kept)[m - 1]
        BY <3>1, <3>2, SpentAgree
      <3> QED BY <1>1, <2>3, <3>3
    <2>7. pack[m - 1].used + costs[m] > allowance
      BY <1>1, <2>3, <2>4
    <2>8. Spent(costs, other)[m] = Spent(costs, other)[m - 1] + costs[m]
      BY <2>3, <2>5, SpentLoop DEF n
    <2>9. Spent(costs, other)[m] <= Total(costs, other)
      <3>1. m \in 0 .. Len(costs)
        BY <1>0, <2>3 DEF n
      <3> QED BY <3>1, SpentGrows DEF Total
    <2>10. /\ Spent(costs, other)[m] \in Nat /\ Total(costs, other) \in Nat
      <3>1. m \in 0 .. Len(costs) /\ Len(costs) \in 0 .. Len(costs)
        BY <1>0, <2>3 DEF n
      <3> QED BY <3>1, SpentLoop DEF Total
    <2> QED BY <1>4, <2>6, <2>7, <2>8, <2>9, <2>10
  <1> QED BY <1>0, <1>3, <1>4 DEF packed

-----------------------------------------------------------------------------
(* Ranking.                                                                *)

LEMMA Shares ==
  ASSUME NEW r \in [Strategies -> Nat], NEW s \in Strategies
  PROVE  /\ Share(s, r) \in Nat
         /\ r[s] = 0 => Share(s, r) = 0
         /\ Share(s, r) <= Weight[s] * 78
         /\ r[s] \in 1 .. 18 => Share(s, r) >= Weight[s] * 61
  <1>1. Weight[s] \in {10, 8, 7, 4} /\ r[s] \in Nat
    BY DEF Weight, Strategies
  <1>2. \A k \in Nat \ {0} : Common \div (60 + k) \in 0 .. 78
    BY DEF Common
  <1>3. \A k \in 1 .. 18 : Common \div (60 + k) >= 61
    BY DEF Common
  <1>4. CASE r[s] = 0
    BY <1>1, <1>4 DEF Share
  <1>5. CASE r[s] # 0
    <2>1. PICK q \in 0 .. 78 : q = Common \div (60 + r[s])
      BY <1>1, <1>2, <1>5
    <2>2. Share(s, r) = Weight[s] * q
      BY <1>5, <2>1 DEF Share
    <2>3. r[s] \in 1 .. 18 => q >= 61
      BY <1>3, <2>1
    <2> QED BY <1>1, <1>5, <2>2, <2>3
  <1> QED BY <1>4, <1>5

\* The score of agreement, and of one strategy alone.
LEMMA Agreement ==
  ASSUME NEW r \in [Strategies -> Nat]
  PROVE  /\ Fused(r) \in Nat
         /\ ByThree(r) => Fused(r) >= 1159
         /\ ByOne(r) => Fused(r) <= 780
  <1>1. \A s \in Strategies : /\ Share(s, r) \in Nat
                              /\ r[s] = 0 => Share(s, r) = 0
                              /\ Share(s, r) <= Weight[s] * 78
                              /\ r[s] \in 1 .. 18 => Share(s, r) >= Weight[s] * 61
    BY Shares
  <1>2. /\ Strategies = {"vector", "keyword", "graph", "recency"}
        /\ Weight["vector"] = 10 /\ Weight["keyword"] = 8
        /\ Weight["graph"] = 7 /\ Weight["recency"] = 4
    BY DEF Strategies, Weight
  <1>3. PICK v \in Nat, k \in Nat, g \in Nat, c \in Nat :
          /\ v = Share("vector", r) /\ k = Share("keyword", r)
          /\ g = Share("graph", r) /\ c = Share("recency", r)
    BY <1>1, <1>2
  <1>4. Fused(r) = v + k + g + c
    BY <1>3 DEF Fused
  <1>5. ByThree(r) => Fused(r) >= 1159
    <2>1. /\ r["vector"] \in 1 .. 18 => v >= 610
          /\ r["keyword"] \in 1 .. 18 => k >= 488
          /\ r["graph"] \in 1 .. 18 => g >= 427
          /\ r["recency"] \in 1 .. 18 => c >= 244
      BY <1>1, <1>2, <1>3
    <2>2. ByThree(r) => \/ v >= 610 /\ k >= 488 /\ g >= 427
                        \/ v >= 610 /\ k >= 488 /\ c >= 244
                        \/ v >= 610 /\ g >= 427 /\ c >= 244
                        \/ k >= 488 /\ g >= 427 /\ c >= 244
      BY <1>2, <2>1 DEF ByThree
    <2> QED BY <1>4, <2>2
  <1>6. ByOne(r) => Fused(r) <= 780
    <2>1. /\ v <= 780 /\ k <= 624 /\ g <= 546 /\ c <= 312
          /\ r["vector"] = 0 => v = 0
          /\ r["keyword"] = 0 => k = 0
          /\ r["graph"] = 0 => g = 0
          /\ r["recency"] = 0 => c = 0
      BY <1>1, <1>2, <1>3
    <2>2. ByOne(r) => \/ k = 0 /\ g = 0 /\ c = 0
                      \/ v = 0 /\ g = 0 /\ c = 0
                      \/ v = 0 /\ k = 0 /\ c = 0
                      \/ v = 0 /\ k = 0 /\ g = 0
      BY <1>2, <2>1 DEF ByOne
    <2> QED BY <1>4, <2>1, <2>2
  <1> QED BY <1>4, <1>5, <1>6

\* What salience and confidence may add and take away.
LEMMA Modified ==
  ASSUME NEW row \in Row, NEW score \in Nat
  PROVE  /\ FinalScore(score, row) \in Nat
         /\ score >= 1159 => FinalScore(score, row) >= 9069175
         /\ score <= 780 => FinalScore(score, row) <= 8970000
  <1>1. row.salience \in 0 .. 200 /\ Confidence(row.kind) \in {55, 60, 100}
    BY DEF Row, Saliences, Confidence
  <1> DEFINE modifier == 10000 + 15 * (row.salience - 100) + 15 * (Confidence(row.kind) - 100)
  <1>2. modifier \in 7825 .. 11500
    BY <1>1
  <1> HIDE DEF modifier
  <1>3. Max({5000, modifier}) = modifier
    <2>1. PICK m \in 7825 .. 11500 : m = modifier
      BY <1>2
    <2>2. \A x \in {5000, m} : (\A y \in {5000, m} : x >= y) <=> x = m
      OBVIOUS
    <2>3. m \in {5000, m}
      OBVIOUS
    <2>4. Max({5000, m}) = m
      BY <2>2, <2>3 DEF Max
    <2> QED BY <2>1, <2>4
  <1>4. FinalScore(score, row) = score * modifier
    BY <1>3 DEF FinalScore, modifier
  <1>5. PICK m \in 7825 .. 11500 : m = modifier
    BY <1>2
  <1>6. PICK p \in Nat, a \in Nat, b \in Nat : p = score * m /\ a = 1159 * m /\ b = 780 * m
    OBVIOUS
  <1>7. (score >= 1159 => p >= a) /\ (score <= 780 => p <= b)
    <2>1. \A x, y, n \in Nat : x >= y => x * n >= y * n
      OBVIOUS
    <2>2. /\ score >= 1159 => score * m >= 1159 * m
          /\ 780 >= score => 780 * m >= score * m
      BY <2>1
    <2> QED BY <1>6, <2>2
  <1>8. a >= 9069175 /\ b <= 8970000
    BY <1>6
  <1>9. FinalScore(score, row) = p
    BY <1>4, <1>5, <1>6
  <1> QED BY <1>7, <1>8, <1>9

-----------------------------------------------------------------------------
(* The prompt.                                                             *)

LEMMA AllowanceIsNat == Allowance \in Nat
  <1>1. PICK c \in Int : c = Context - Reserve
    BY MemoryAssumption
  <1>2. CASE c >= 0
    <2>1. \A x \in {0, c} : (\A y \in {0, c} : x >= y) <=> x = c
      BY <1>2
    <2>2. c \in {0, c}
      OBVIOUS
    <2>3. Max({0, c}) = c
      BY <2>1, <2>2 DEF Max
    <2> QED BY <1>1, <1>2, <2>3 DEF Allowance
  <1>3. CASE c < 0
    <2>1. \A x \in {0, c} : (\A y \in {0, c} : x >= y) <=> x = 0
      BY <1>3
    <2>2. 0 \in {0, c}
      OBVIOUS
    <2>3. Max({0, c}) = 0
      BY <2>1, <2>2 DEF Max
    <2> QED BY <1>1, <2>3 DEF Allowance
  <1> QED BY <1>2, <1>3

LEMMA RankPrompts == ASSUME left \in Budget, Talking, Rank PROVE Prompting'
  <1>1. PICK found \in [LiveIds -> [Strategies -> left.ranks]] :
          search' = [search EXCEPT !.at = "ranked",
                       !.ranks = [i \in LiveIds |->
                                    [found[i] EXCEPT !["graph"] = IF i \in Mentioned THEN @ ELSE 0]]]
    BY DEF Rank
  <1> DEFINE ranks == [i \in LiveIds |->
                         [found[i] EXCEPT !["graph"] = IF i \in Mentioned THEN @ ELSE 0]]
  <1>2. left.ranks \subseteq Nat /\ LiveIds \in SUBSET Ids
    BY DEF Budget, LiveIds
  <1>3. \A i \in LiveIds :
          [found[i] EXCEPT !["graph"] = IF i \in Mentioned THEN @ ELSE 0] \in [Strategies -> Nat]
    <2> TAKE i \in LiveIds
    <2>1. found[i] \in [Strategies -> left.ranks]
      OBVIOUS
    <2> QED BY <1>2, <2>1 DEF Strategies
  <1>4. ranks \in [LiveIds -> [Strategies -> Nat]]
    BY <1>3
  <1>5. search' = [search EXCEPT !.at = "ranked", !.ranks = ranks]
    BY <1>1
  <1> HIDE DEF ranks
  <1>6. search'.at = "ranked" /\ search'.ranks = ranks
    BY <1>5 DEF Talking
  <1> QED BY <1>2, <1>4, <1>6, SMTT(30) DEF Prompting, AgreementWins

\* Orders of a set list it: every member has a place.
LEMMA Listed ==
  ASSUME NEW S, IsFiniteSet(S), NEW order \in SetToSeqs(S), NEW i \in S
  PROVE  \E a \in 1 .. Cardinality(S) : order[a] = i
  <1> DEFINE D == 1 .. Cardinality(S)
  <1>1. PICK n \in Nat : n = Cardinality(S)
    BY FS_CardinalityType
  <1>2. order \in [D -> S] /\ \A a, b \in D : a # b => order[a] # order[b]
    BY DEF SetToSeqs
  <1>3. IsFiniteSet(D) /\ Cardinality(D) = n
    <2>1. D = 1 .. n /\ 1 \in Int /\ n \in Int /\ n >= 0
      BY <1>1
    <2> HIDE DEF D
    <2>2. IsFiniteSet(1 .. n) /\ Cardinality(1 .. n) = IF 1 > n THEN 0 ELSE n - 1 + 1
      BY <2>1, FS_Interval
    <2> QED BY <2>1, <2>2
  <1>4. IsFiniteSet(S \ {i}) /\ Cardinality(S \ {i}) = n - 1
    BY <1>1, FS_RemoveElement
  <1> SUFFICES ASSUME \A a \in D : order[a] # i PROVE FALSE
    OBVIOUS
  <1>5. order \in [D -> S \ {i}]
    BY <1>2
  <1> HIDE DEF D
  <1>6. Cardinality(S \ {i}) < Cardinality(D)
    BY <1>3, <1>4
  <1>7. \E a, b \in D : a # b /\ order[a] = order[b]
    BY <1>3, <1>4, <1>5, <1>6, FS_PigeonHole
  <1> QED BY <1>2, <1>7

\* The rows that were found, best first, as far as they are kept.
LEMMA FetchPrompts == ASSUME Types, Talking, Prompting, Fetch PROVE Prompting'
  <1> DEFINE ids == {i \in DOMAIN search.ranks : Live(i) /\ \E s \in Strategies : search.ranks[i][s] > 0}
             score == [i \in ids |-> FinalScore(Fused(search.ranks[i]), rows[i])]
  <1>1. PICK all \in SUBSET Ids : search.ranks \in [all -> [Strategies -> Nat]]
    <2>1. search.at = "ranked"
      BY Zenon DEF Fetch
    <2> QED BY <2>1, Zenon DEF Prompting
  <1>2. PICK order \in Orders(ids) :
          search' = [search EXCEPT !.at = "fetched", !.hits = Best(order),
                                   !.ranks = [i \in ids |-> search.ranks[i]],
                                   !.costs = [k \in DOMAIN Best(order) |-> Cost[rows[Best(order)[k]].text]]]
    BY Zenon DEF Fetch
  <1>3. \A i \in ids : /\ i \in Ids /\ rows[i] \in Row
                       /\ search.ranks[i] \in [Strategies -> Nat]
    BY <1>1 DEF Live, Exists, Types
  <1>4. IsFiniteSet(ids)
    <2>1. ids \in SUBSET Ids
      BY <1>3
    <2> QED BY <2>1, IdsFinite
  <1>n. PICK n \in Nat : n = Cardinality(ids)
    BY <1>4, FS_CardinalityType
  <1>5. /\ order \in [1 .. n -> ids] /\ order \in SetToSeqs(ids)
        /\ \A a, b \in 1 .. Len(order) : a < b => score[order[a]] >= score[order[b]]
    BY <1>n DEF Orders, SetToSeqs
  <1> DEFINE m == Min({Limit, Len(order)})
             hits == Best(order)
             costs == [k \in DOMAIN hits |-> Cost[rows[hits[k]].text]]
             ranks == [i \in ids |-> search.ranks[i]]
  <1> HIDE DEF ids
  <1>6. Len(order) = n /\ DOMAIN order = 1 .. n /\ order \in Seq(ids)
    BY <1>5
  <1>7. m \in Nat /\ m <= n
    <2>1. {Limit, Len(order)} \subseteq Nat /\ {Limit, Len(order)} # {}
      BY <1>6, MemoryAssumption
    <2> QED BY <1>6, <2>1, MinIsLeast
  <1>8. hits = SubSeq(order, 1, m)
    BY DEF Best
  <1> HIDE DEF m, hits
  <1>9. DOMAIN hits = 1 .. m /\ \A a \in 1 .. m : a \in 1 .. n /\ hits[a] = order[a]
    BY <1>6, <1>7, <1>8
  <1>10. costs \in Seq(Nat)
    <2>1. \A k \in 1 .. m : Cost[rows[hits[k]].text] \in Nat
      <3> TAKE k \in 1 .. m
      <3>1. rows[hits[k]] \in Row
        BY <1>3, <1>5, <1>9
      <3> QED BY <3>1, MemoryAssumption DEF Row
    <2>2. costs \in [1 .. m -> Nat]
      BY <1>9, <2>1
    <2> HIDE DEF costs
    <2> QED BY <1>7, <2>2
  <1>11. ASSUME NEW a \in 1 .. n, NEW b \in 1 .. n,
                ByThree(search.ranks[order[a]]), ByOne(search.ranks[order[b]])
         PROVE  a < b
    <2> DEFINE i == order[a]
               k == order[b]
    <2>1. /\ i \in ids /\ k \in ids
          /\ ByThree(search.ranks[i]) /\ ByOne(search.ranks[k])
      BY <1>5, <1>11
    <2> HIDE DEF i, k
    <2>2. score[i] >= 9069175 /\ score[i] \in Nat
      <3>1. Fused(search.ranks[i]) \in Nat /\ Fused(search.ranks[i]) >= 1159
        BY <1>3, <2>1, Agreement
      <3>2. /\ FinalScore(Fused(search.ranks[i]), rows[i]) \in Nat
            /\ FinalScore(Fused(search.ranks[i]), rows[i]) >= 9069175
        BY <1>3, <2>1, <3>1, Modified
      <3> QED BY <2>1, <3>2
    <2>3. score[k] <= 8970000 /\ score[k] \in Nat
      <3>1. Fused(search.ranks[k]) \in Nat /\ Fused(search.ranks[k]) <= 780
        BY <1>3, <2>1, Agreement
      <3>2. /\ FinalScore(Fused(search.ranks[k]), rows[k]) \in Nat
            /\ FinalScore(Fused(search.ranks[k]), rows[k]) <= 8970000
        BY <1>3, <2>1, <3>1, Modified
      <3> QED BY <2>1, <3>2
    <2> HIDE DEF score
    <2>4. ~(b < a)
      <3>1. b < a => score[k] >= score[i]
        BY <1>5, <1>6 DEF i, k
      <3> QED BY <2>2, <2>3, <3>1
    <2>5. a # b
      BY <2>2, <2>3 DEF i, k
    <2> QED BY <2>4, <2>5
  <1> HIDE DEF costs, score
  <1>12. /\ search'.at = "fetched" /\ search'.hits = hits /\ search'.costs = costs
         /\ search'.ranks = ranks
    BY <1>2 DEF Talking, costs, hits
  <1>13. ASSUME NEW i \in DOMAIN ranks, NEW b \in DOMAIN hits,
                ByThree(ranks[i]), ByOne(ranks[hits[b]])
         PROVE  \E a \in DOMAIN hits : a < b /\ hits[a] = i
    <2>1. i \in ids /\ b \in 1 .. m /\ b \in 1 .. n /\ hits[b] = order[b] /\ order[b] \in ids
      BY <1>5, <1>9, <1>13
    <2>2. ByThree(search.ranks[i]) /\ ByOne(search.ranks[order[b]])
      BY <1>13, <2>1
    <2>3. PICK a \in 1 .. n : order[a] = i
      BY <1>4, <1>n, <1>5, <2>1, Listed
    <2>4. a < b
      BY <1>11, <2>1, <2>2, <2>3
    <2>5. a \in 1 .. m
      BY <1>7, <2>1, <2>3, <2>4
    <2> QED BY <1>9, <2>3, <2>4, <2>5
  <1> HIDE DEF ranks
  <1> QED BY <1>10, <1>12, <1>13 DEF Prompting, AgreementWins

LEMMA PromptTurn ==
  ASSUME Types, Talking, Prompting, Chat PROVE Prompting'
  <1>1. CASE Rank
    BY <1>1, RankPrompts DEF Types
  <1>2. CASE Fetch
    BY <1>2, FetchPrompts
  <1>3. CASE RecallFails
    <2>1. search'.at = "touched" /\ search'.costs = <<>>
      BY <1>3 DEF RecallFails, Talking
    <2> QED BY <2>1 DEF Prompting, AgreementWins
  <1>4. CASE Touch
    <2>1. search.at = "fetched" /\ search'.at = "touched" /\ search'.costs = search.costs
      BY <1>4 DEF Touch, Talking
    <2> QED BY <2>1 DEF Prompting, AgreementWins
  <1>5. CASE Pack
    <2>1. /\ search.at = "touched" /\ search'.at = "answering" /\ search'.costs = search.costs
          /\ search'.packed = PackMemories(search.costs, Allowance)
      BY <1>5 DEF Pack, Talking
    <2> QED BY <2>1 DEF Prompting, AgreementWins
  <1>6. CASE Ask \/ Fail \/ Answer \/ KeepQuestion \/ KeepAnswer \/ Leave
    <2>1. search'.at \notin {"ranked", "fetched", "touched", "answering"}
      BY <1>6 DEF Ask, Fail, Answer, KeepQuestion, KeepAnswer, Keep, Leave, NoSearch, Talking
    <2> QED BY <2>1 DEF Prompting, AgreementWins
  <1>7. CASE Clear
    <2>1. search' = search
      BY <1>7 DEF Clear
    <2> QED BY <2>1 DEF Prompting, AgreementWins
  <1> QED BY <1>1, <1>2, <1>3, <1>4, <1>5, <1>6, <1>7 DEF Chat

\* Agreement wins, and the packing is the best that fits.
LEMMA WellPacked == ASSUME Prompting PROVE WellPrompted
  <1>1. ASSUME search.at = "answering" PROVE PackedBest
    <2> DEFINE packed == PackMemories(search.costs, Allowance)
    <2>1. search.costs \in Seq(Nat) /\ search.packed = packed
      BY <1>1 DEF Prompting
    <2>2. /\ Total(search.costs, packed) <= Allowance
          /\ \A other \in SUBSET (DOMAIN search.costs) :
               Total(search.costs, other) <= Allowance /\ other # packed =>
                 Min((other \ packed) \cup (packed \ other)) \in packed
      BY <2>1, AllowanceIsNat, BestPacking
    <2> HIDE DEF packed
    <2> QED BY <2>1, <2>2 DEF PackedBest
  <1>2. search.at # "answering" => PackedBest
    BY DEF PackedBest
  <1> QED BY <1>1, <1>2 DEF Prompting, WellPrompted

-----------------------------------------------------------------------------
(* The invariant, and what follows.                                        *)

LEMMA Starts == Init => IInv
  <1> SUFFICES ASSUME Init PROVE IInv
    OBVIOUS
  <1>1. /\ rows = [i \in Ids |-> None] /\ vec = [i \in Ids |-> None] /\ links = {} /\ entities = {}
        /\ log = {} /\ linking = {} /\ history = <<>> /\ kept = <<>> /\ reused = {} /\ issued = {}
        /\ crashed = 0 /\ search = NoSearch /\ job = NoJob /\ waiting = NoJob /\ day = 0 /\ left \in Budget
    BY MemoryAssumption DEF Init
  <1>2. \A i \in Ids : ~Exists(i)
    BY <1>1 DEF Exists
  <1>3. Types
    <2>1. MaxDays \in Nat /\ left.days \in 0 .. MaxDays
      BY <1>1, MemoryAssumption, Counted
    <2>2. day \in 0 .. MaxDays /\ day + left.days <= MaxDays
      BY <1>1, <2>1
    <2> QED BY <1>1, <1>2, <2>2 DEF Types
  <1>4. Issued /\ Pending /\ IndexTruthful
    BY <1>1, <1>2 DEF Issued, Pending, IndexTruthful, Exists
  <1>5. Replacing
    BY <1>2 DEF Replacing, NothingVanishes, EndsLive
  <1>6. Bounded
    <2>1. Silent = {}
      BY <1>2 DEF Silent
    <2> QED BY <1>1, <2>1, FS_EmptySet DEF Bounded, SilentBounded
  <1>7. JobInv
    BY <1>1, IdleRun DEF JobInv, NoJob, Owed, Snapshot, Chosen, Learning
  <1>8. Talking
    BY <1>1 DEF Talking, NoSearch, SearchPcs
  <1>9. Transcript
    <2>1. Told = 0 /\ Len(history) = 0
      BY <1>1 DEF Told, Unsaid, NoSearch
    <2> QED BY <1>1, <2>1 DEF Transcript, NoSearch
  <1>10. Prompting
    BY <1>1 DEF Prompting, AgreementWins, NoSearch
  <1>11. Running(job) /\ Running(waiting)
    BY <1>1, IdleRun DEF Running, NoJob
  <1> QED BY <1>1, <1>3, <1>4, <1>5, <1>6, <1>7, <1>8, <1>9, <1>10, <1>11 DEF IInv, TableInv, MemoryInv

\* Only the chat touches its turn and its transcript.
LEMMA ChatRests ==
  ASSUME Talking, Transcript, Prompting, UNCHANGED <<search, history, kept>>
  PROVE  Talking' /\ Transcript' /\ Prompting'
  <1>1. Told' = Told /\ \A role : Said(role)' = Said(role)
    BY DEF Told, Unsaid, Said
  <1>2. Transcript'
    BY <1>1 DEF Transcript
  <1> QED BY <1>2 DEF Talking, Prompting, AgreementWins

LEMMA Steps == IInv /\ [Next]_vars => IInv'
  <1> SUFFICES ASSUME IInv, [Next]_vars PROVE IInv'
    OBVIOUS
  <1>0. /\ TableInv /\ Running(job) /\ Running(waiting) /\ (~overlapped => waiting = NoJob /\ MemoryInv)
        /\ Talking /\ Transcript /\ Prompting /\ Types /\ left \in Budget
    BY DEF IInv, TableInv, Types
  <1>s. ASSUME TableInv', Running(job'), MemoryInv => MemoryInv', UNCHANGED <<waiting, overlapped>>,
               Talking', Transcript', Prompting'
        PROVE  IInv'
    BY <1>0, <1>s DEF IInv, Running
  <1>1. CASE Record
    <2>1. UNCHANGED <<search, history, kept, job, waiting, overlapped>>
      BY <1>1 DEF Record, clock
    <2> QED BY <1>0, <1>1, <1>s, <2>1, RecordStep, ChatRests
  <1>2. ASSUME NEW p \in linking, Upsert(p) \/ Link(p) PROVE IInv'
    <2>1. UNCHANGED <<search, history, kept, job, waiting, overlapped>>
      BY <1>2 DEF Upsert, Link, clock
    <2> QED BY <1>0, <1>2, <1>s, <2>1, UpsertStep, LinkStep, ChatRests
  <1>3. CASE Chat
    <2>1. UNCHANGED <<job, clock>>
      BY <1>3, Zenon DEF Chat, Clear, Ask, Rank, RecallFails, Fetch, Touch, Pack, Fail, Answer,
                  KeepQuestion, KeepAnswer, Keep, Leave
    <2>2. UNCHANGED <<job, waiting, overlapped>>
      BY <2>1 DEF clock
    <2> QED BY <1>0, <1>3, <1>s, <2>2, ChatTable, ChatTurn, PromptTurn
  <1>4. ASSUME NEW i \in Ids, Forget(i) PROVE IInv'
    <2>1. UNCHANGED <<search, history, kept, waiting, overlapped>>
      BY <1>4 DEF Forget, chat, clock
    <2> QED BY <1>0, <1>4, <1>s, <2>1, ForgetStep, ChatRests
  <1>5. CASE Consolidate
    <2>1. UNCHANGED <<search, history, kept>>
      <3>1. chat' = chat
        BY <1>5, Zenon DEF Consolidate, Run, RunBeside, Switch, Promote, Learn, Log, Dedupe, Compare,
                    Supersede, Decay, Fade, Prune, Erase, Finish, Crash
      <3> QED BY <3>1, SMTT(30) DEF chat
    <2>2. Talking' /\ Transcript' /\ Prompting'
      BY <1>0, <2>1, ChatRests
    <2>3. CASE RunBeside
      <3>1. left.runs - 1 \in Nat /\ left' = [left EXCEPT !.runs = left.runs - 1]
        BY <1>0, <2>3, Counted DEF RunBeside
      <3>2. left' \in Budget /\ left'.days = left.days
        BY <1>0, <3>1, Spend
      <3>3. TableInv'
        BY <1>0, <2>3, <3>2, QuietRun DEF RunBeside
      <3>4. Running(job') /\ Running(waiting')
        <4>1. job' = [NoJob EXCEPT !.at = "promote", !.due = Recurring, !.said = SaidOften] /\ waiting' = job
          BY <2>3, PassesInOrder DEF RunBeside, Begun
        <4>2. Recurring \subseteq Texts /\ SaidOften \subseteq Texts
          BY DEF Recurring, SaidOften
        <4>3. job' \in Jobs /\ job'.at = "promote"
          BY <4>1, <4>2, IdleRun DEF NoJob, Jobs, JobPcs
        <4> QED BY <1>0, <4>1, <4>3 DEF Running
      <3> QED BY <2>2, <2>3, <3>3, <3>4 DEF IInv, RunBeside, Running
    <2>4. CASE Switch
      <3>1. overlapped /\ overlapped' = overlapped /\ job' = waiting /\ waiting' = job
        BY <1>0, <2>4 DEF Switch, NoJob
      <3>2. TableInv'
        BY <1>0, <2>4, QuietRun DEF Switch
      <3> QED BY <1>0, <2>2, <3>1, <3>2 DEF IInv, Running
    <2>5. CASE Crash
      <3>1. left.crashes - 1 \in Nat /\ left' = [left EXCEPT !.crashes = left.crashes - 1]
        BY <1>0, <2>5, Counted DEF Crash
      <3>2. left' \in Budget /\ left'.days = left.days
        BY <1>0, <3>1, Spend
      <3>3. TableInv'
        BY <1>0, <2>5, <3>2, QuietRun DEF Crash
      <3>4. Running(job')
        BY <2>5, IdleRun DEF Crash, NoJob, Running
      <3>5. MemoryInv => MemoryInv'
        BY <1>0, <2>5, CrashStep
      <3> QED BY <1>s, <2>2, <2>5, <3>3, <3>4, <3>5 DEF Crash
    <2>6. CASE Run \/ Promote \/ Log \/ Dedupe \/ Compare \/ Decay \/ Prune \/ Finish
      <3>1. UNCHANGED clock
        BY <2>6, Zenon DEF Run, Promote, Log, Dedupe, Compare, Decay, Prune, Finish
      <3>2. UNCHANGED <<waiting, overlapped>>
        BY <3>1 DEF clock
      <3>3. MemoryInv => MemoryInv'
        BY <1>0, <2>6, RunStep, PromoteStep, LogStep, DedupeStep, CompareStep, DecayStep, PruneStep,
           FinishStep
      <3> QED BY <1>0, <1>s, <2>2, <2>6, <3>2, <3>3, ReadingRuns
    <2>7. CASE Learn \/ Supersede \/ Fade \/ Erase
      <3>1. UNCHANGED clock
        BY <2>7, Zenon DEF Learn, Supersede, Fade, Erase
      <3>2. UNCHANGED <<waiting, overlapped>>
        BY <3>1 DEF clock
      <3>3. MemoryInv => MemoryInv'
        BY <1>0, <2>7, LearnStep, SupersedeStep, FadeStep, EraseStep
      <3> QED BY <1>0, <1>s, <2>2, <2>7, <3>2, <3>3, WritingRuns
    <2> QED BY <1>5, <2>3, <2>4, <2>5, <2>6, <2>7 DEF Consolidate
  <1>6. CASE Day
    <2>1. UNCHANGED <<search, history, kept, job, waiting, overlapped>>
      BY <1>6 DEF Day, chat
    <2> QED BY <1>0, <1>6, <1>s, <2>1, DayStep, ChatRests
  <1>7. CASE UNCHANGED vars
    <2>1. UNCHANGED <<table, log, job, clock, entities, linking, left, search, history, kept,
                      waiting, overlapped>>
      BY <1>7 DEF vars, table, clock
    <2> QED BY <1>0, <1>s, <2>1, QuietToday, ChatRests
  <1> QED BY <1>1, <1>2, <1>3, <1>4, <1>5, <1>6, <1>7 DEF Next

THEOREM AlwaysIInv == Spec => []IInv
  BY Starts, Steps, PTL DEF Spec

\* Every vector is the embedding of the row with its id, and every link leads to
\* a memory that has the name, however turns, deletions and runs interleave.
THEOREM TruthfulIndex == Spec => []IndexTruthful
  <1>1. IInv => IndexTruthful
    BY DEF IInv, TableInv
  <1> QED BY <1>1, AlwaysIInv, PTL

\* As long as no second run was started beside the first: what consolidation replaces leads
\* to a live restatement of it, and is on the log but for one change for every run that was
\* killed (consolidation.py:142-209; what two runs at once do is NoOverlapHarms).
THEOREM ReplacedNotLost == Spec => []NothingIsLost
  <1>1. IInv => NothingIsLost
    BY DEF IInv, MemoryInv, Replacing, Bounded, NothingIsLost
  <1> QED BY <1>1, AlwaysIInv, PTL

\* A run that ends, and that none went on beside, has a procedure that holds the first 60
\* characters of every phrase that had recurred when it began, unless a memory in which
\* they are was deleted (consolidation.py:258-300).
THEOREM LearntAtTheEnd == Spec => []RecurringIsLearnt
  <1>1. IInv => RecurringIsLearnt
    BY DEF IInv, MemoryInv, JobInv, Learning, RecurringIsLearnt
  <1> QED BY <1>1, AlwaysIInv, PTL

\* The transcript is the last of the exchanges that were given to memory, word for word,
\* and the turn in progress, however often it is cleared (chat.py:139-148, 301-315).
THEOREM MemoryKeepsUp == Spec => []MemoryFollowsChat
  <1>1. IInv => MemoryFollowsChat
    <2> SUFFICES ASSUME Transcript, search.at # "over"
                 PROVE  MemoryFollowsChat
      BY DEF IInv, MemoryFollowsChat
    <2> DEFINE told == SubSeq(history, 1, Told)
    <2>1. /\ history \in Seq(Sides) /\ kept \in Seq(Remembereds) /\ Told \in 0 .. Len(kept)
          /\ \A k \in 1 .. Told : kept[Len(kept) - Told + k].said = history[k]
          /\ \A k \in DOMAIN history : history[k].role = IF k % 2 = 1 THEN "user" ELSE "assistant"
          /\ search.at # "replying" => Told % 2 = 0
      BY DEF Transcript, Sides, Remembereds
    <2>2. Told \in Nat /\ Told <= Len(history) /\ Len(kept) \in Nat
      <3>1. Unsaid \in Nat
        BY DEF Unsaid
      <3>2. Len(history) \in Nat
        BY <2>1
      <3> QED BY <2>1, <3>1, <3>2 DEF Told
    <2>3. Len(told) = Told /\ DOMAIN told = 1 .. Told /\ \A k \in 1 .. Told : told[k] = history[k]
      BY <2>1, <2>2
    <2>4. \A k \in 1 .. Told : kept[Len(kept) - Len(told) + k].said = told[k]
      BY <2>1, <2>3
    <2>5. told = SubSeq(history, 1, Len(history) - Unsaid)
      BY DEF Told
    <2> HIDE DEF told
    <2>6. /\ \A k \in DOMAIN history : history[k].role = IF k % 2 = 1 THEN "user" ELSE "assistant"
          /\ search.at # "replying" => Len(told) % 2 = 0
          /\ Len(told) <= Len(kept)
          /\ \A k \in DOMAIN told : kept[Len(kept) - Len(told) + k].said = told[k]
      BY <2>1, <2>2, <2>3, <2>4
    <2> QED BY <2>5, <2>6, Zenon DEF MemoryFollowsChat
  <1> QED BY <1>1, AlwaysIInv, PTL

\* What the prompt holds of the past is chosen well: a memory that three strategies
\* found comes before one that a single strategy found, and no other selection that
\* fits keeps an earlier hit.
THEOREM PromptsAreWell == Spec => []WellPrompted
  <1>1. IInv => WellPrompted
    BY WellPacked DEF IInv
  <1> QED BY <1>1, AlwaysIInv, PTL
==============================================================================
