---------------------------- MODULE MemoryStore ----------------------------
(***************************************************************************)
(* The memory database and the processes that share it: turns written by   *)
(* the server, a terminal chat (interface/chat.py), `arc memory forget`,   *)
(* and `arc memory consolidate` in a process of its own (memory/*.py).     *)
(*                                                                         *)
(* Every SQLite transaction is one step; between two of them any other     *)
(* process may write, and the consolidator may be killed.                  *)
(*                                                                         *)
(* Abstractions: a text is a model value, its embedding is the text, and   *)
(* Near relates the texts above the similarity threshold; salience counts  *)
(* hundredths; what decay leaves of it is a parameter; the four strategies *)
(* of a search return arbitrary rankings of live rows, the graph's of rows *)
(* linked to a name in the query (no relation is ever created).  A kind    *)
(* stands for what writes it: deep research stores facts it found with one *)
(* source at the least confidence of all.  LIMIT max_per_run, dry runs,    *)
(* procedures in the prompt and what nothing calls (summarize_session,     *)
(* pack_history) are left out.                                             *)
(***************************************************************************)
EXTENDS Integers, Sequences, FiniteSets, FiniteSetsExt, SequencesExt

CONSTANTS None,          \* no row, no vector, no entry
          MaxId,         \* rows the table may hold at once
          Texts, Sessions,
          Near,          \* pairs of texts whose similarity is over the threshold
          Like,          \* <<t, p>>: p is LIKE %t%, t cut to 60 characters
          Names,         \* Names[t]: the entities extract_entities finds in t
          Cost,          \* Cost[t]: count_tokens of t, framing included
          Nearest,       \* k of the nearest-neighbour query
          Limit,         \* retrieval_limit
          PromoteAfter, PruneBelow,
          MaxDays,       \* days a behaviour may last
          Faded,         \* Faded[<<s, d>>]: the salience s after d days (0.99 ** d in the code)
          Context, Reserve, \* the model's context and the part kept for the reply, in tokens
          Budgets        \* the events of each behaviour

Ids == 1 .. MaxId
Kinds == {"turn:user", "turn:assistant", "fact", "researched", "pattern"}
Saliences == 0 .. 200
Row == [kind : Kinds, text : Texts, sess : Sessions, by : {0} \cup Ids,
        salience : Saliences, seen : 0 .. MaxDays]
Entry == [ids : SUBSET Ids, to : {0} \cup Ids]
Budget == [writes : Seq([kind : Kinds, text : Texts, sess : Sessions]),
           turns : Seq([ask : Texts, answer : Texts]), ranks : SUBSET Nat, runs : Nat,
           forgets : Nat, failures : Nat, clears : Nat, leaves : Nat, crashes : Nat,
           days : 0 .. MaxDays, prune : BOOLEAN, beside : BOOLEAN]

ASSUME MemoryAssumption ==
  /\ {MaxId, Nearest, Limit, PromoteAfter, PruneBelow, MaxDays, Context, Reserve} \subseteq Nat
  /\ Sessions # {} /\ None \notin Texts \cup Row \cup Entry
  /\ Near \subseteq Texts \X Texts
  /\ \A p \in Near : <<p[2], p[1]>> \in Near
  /\ \A t \in Texts : <<t, t>> \in Near \cap Like /\ Cost[t] \in Nat
  /\ Faded \in [Saliences \X (0 .. MaxDays) -> Saliences]
  /\ Budgets \subseteq Budget

Layer(kind) == CASE kind \in {"fact", "researched"} -> "semantic"
                 [] kind = "pattern" -> "procedural"
                 [] OTHER -> "episodic"
Salience(kind) == CASE kind \in {"fact", "researched"} -> 100 [] kind = "pattern" -> 120
                    [] OTHER -> 60
Confidence(kind) == CASE kind = "researched" -> 55 [] kind = "pattern" -> 60 [] OTHER -> 100
Strategies == {"vector", "keyword", "graph", "recency"}
Weight == [vector |-> 10, keyword |-> 8, graph |-> 7, recency |-> 4]

VARIABLES
  rows,     \* memories: id -> row, or None
  vec,      \* memory_vectors: id -> embedding, or None
  links,    \* memory_entities: <<id, name>>
  entities, \* entities: the names that have a node
  log,      \* consolidation_log: [ids, to], to = 0 for NULL
  linking,  \* turns recorded whose entities are not linked yet: <<id, text>>
  search,   \* the turn of the chat in progress: its question, search and prompt
  history,  \* the chat's transcript: the roles and texts of its turns
  kept,     \* what was to be remembered of the chat: its turns and whether each was stored
  job,      \* the consolidation run that takes the next step
  waiting,  \* a second one that was started beside it, in another process
  overlapped, \* two were under way at once
  day,
  reused,   \* ids that were handed out again after their row was deleted
  issued,   \* ids handed out so far
  crashed,  \* runs that were killed
  left      \* writes, turns, runs, forgets, failures, crashes, days still to come

vars == <<rows, vec, links, entities, log, linking, search, history, kept, job, waiting, overlapped, day,
          reused, issued, crashed, left>>
table == <<rows, vec, links, reused, issued>>
chat == <<entities, linking, search, history, kept>>
clock == <<day, crashed, waiting, overlapped>>

Exists(i) == rows[i] # None
Live(i) == Exists(i) /\ rows[i].by = 0
LiveIds == {i \in Ids : Live(i)}
NoSearch == [at |-> "idle", query |-> None, reply |-> None, ranks |-> <<>>, hits |-> <<>>, costs |-> <<>>,
             packed |-> {}]
NoJob == [at |-> "idle", todo |-> {}, merged |-> {}, dups |-> {}, texts |-> {},
          fades |-> <<>>, due |-> {}, said |-> {}, entry |-> None, then |-> "idle"]

TypeOK ==
  /\ rows \in [Ids -> {None} \cup Row]
  /\ vec \in [Ids -> {None} \cup Texts]
  /\ links \subseteq Ids \X UNION {Names[t] : t \in Texts}
  /\ log \subseteq Entry
  /\ entities \subseteq UNION {Names[t] : t \in Texts}
  /\ linking \subseteq Ids \X Texts
  /\ {day, crashed} \subseteq Nat
  /\ reused \subseteq Ids /\ issued \subseteq Ids

Init ==
  /\ rows = [i \in Ids |-> None]
  /\ vec = [i \in Ids |-> None]
  /\ links = {} /\ entities = {} /\ log = {} /\ linking = {} /\ history = <<>> /\ kept = <<>>
  /\ reused = {} /\ issued = {} /\ crashed = 0
  /\ search = NoSearch
  /\ job = NoJob /\ waiting = NoJob /\ overlapped = FALSE
  /\ day = 0
  /\ left \in Budgets

-----------------------------------------------------------------------------
(* Transactions of MemoryStore.                                            *)

\* INTEGER PRIMARY KEY without AUTOINCREMENT: one more than the largest id in use
NextId == 1 + Max({0} \cup {i \in Ids : Exists(i)})

\* add: the row and its vector in one transaction; an id whose vector was left behind
\* fails the insert and rolls both back
Add(kind, text, sess) ==
  LET i == NextId IN
  IF vec[i] = None
  THEN /\ rows' = [rows EXCEPT ![i] = [kind |-> kind, text |-> text, sess |-> sess, by |-> 0,
                                       salience |-> Salience(kind), seen |-> day]]
       /\ vec' = [vec EXCEPT ![i] = text]
       /\ reused' = IF i \in issued THEN reused \cup {i} ELSE reused
       /\ issued' = issued \cup {i}
       /\ UNCHANGED links
  ELSE UNCHANGED table

\* Mutant: the vector table has no cascade and is forgotten.
NoVectorDeleted(i) == vec
VectorDeleted(i) == [m \in Ids |-> IF m = i THEN None ELSE vec[m]]

\* forget: the vector by hand; ON DELETE SET NULL on the rows i replaced and on the log,
\* ON DELETE CASCADE on its links
Delete(i) ==
  /\ vec' = VectorDeleted(i)
  /\ rows' = [m \in Ids |-> CASE m = i -> None
                              [] m # i /\ Exists(m) /\ rows[m].by = i -> [rows[m] EXCEPT !.by = 0]
                              [] OTHER -> rows[m]]
  /\ links' = {l \in links : l[1] # i}
  /\ log' = {IF e.to = i THEN [e EXCEPT !.to = 0] ELSE e : e \in log}
  /\ UNCHANGED <<reused, issued>>

\* the phrases that the row i is no memory of
Unhidden(phrases, i) == {t \in phrases : <<t, rows[i].text>> \notin Like}

Forget(i) ==
  /\ left.forgets > 0 /\ Exists(i)
  /\ Delete(i)
  /\ job' = [job EXCEPT !.due = Unhidden(@, i)]
  /\ left' = [left EXCEPT !.forgets = @ - 1]
  /\ UNCHANGED <<chat, clock>>

-----------------------------------------------------------------------------
(* MemoryService.remember_turn and SemanticMemory.add_fact.                *)

Remember(kind, text, sess) ==
  /\ NextId \in Ids
  /\ Add(kind, text, sess)
  /\ linking' = IF vec[NextId] = None /\ kind # "turn:assistant" /\ Names[text] # {}
                THEN linking \cup {<<NextId, text>>} ELSE linking

Record ==
  /\ left.writes # <<>>
  /\ LET w == Head(left.writes) IN Remember(w.kind, w.text, w.sess)
  /\ left' = [left EXCEPT !.writes = Tail(@)]
  /\ UNCHANGED <<entities, log, search, history, kept, job, clock>>

\* upsert_entity, a name at a time
Upsert(p) ==
  /\ p \in linking
  /\ \E n \in Names[p[2]] \ entities : entities' = entities \cup {n}
  /\ UNCHANGED <<table, log, linking, search, history, kept, job, clock, left>>

\* the foreign key refuses a link to a row that has gone; the failure is swallowed
Link(p) ==
  /\ p \in linking /\ Names[p[2]] \subseteq entities
  /\ links' = IF Exists(p[1]) THEN links \cup ({p[1]} \X Names[p[2]]) ELSE links
  /\ linking' = linking \ {p}
  /\ UNCHANGED <<rows, vec, entities, log, search, history, kept, job, reused, issued, clock, left>>

-----------------------------------------------------------------------------
(* A turn of the chat: the search (Retriever.search), the packing of its   *)
(* hits, the model's answer, and the two sides of the turn remembered.     *)

\* /clear and /system empty the transcript; what was remembered stays
Clear ==
  /\ search.at = "idle" /\ left.clears > 0
  /\ history' = <<>>
  /\ left' = [left EXCEPT !.clears = @ - 1]
  /\ UNCHANGED <<table, entities, log, linking, search, kept, job, clock>>

Ask ==
  /\ search.at = "idle" /\ left.turns # <<>>
  /\ search' = [NoSearch EXCEPT !.at = "asked", !.query = Head(left.turns).ask,
                                   !.reply = Head(left.turns).answer]
  /\ left' = [left EXCEPT !.turns = Tail(@)]
  /\ UNCHANGED <<table, entities, log, linking, history, kept, job, clock>>

\* memories_for_entities: the live rows linked to a name of the query
Mentioned == {i \in LiveIds : \E n \in Names[search.query] : <<i, n>> \in links}
Rank ==
  /\ search.at = "asked"
  /\ \E found \in [LiveIds -> [Strategies -> left.ranks]] :
        search' = [search EXCEPT !.at = "ranked",
                     !.ranks = [i \in LiveIds |->
                                  [found[i] EXCEPT !["graph"] = IF i \in Mentioned THEN @ ELSE 0]]]
  /\ UNCHANGED <<table, entities, log, linking, history, kept, job, clock, left>>

\* recall: a search that fails anywhere finds nothing
RecallFails ==
  /\ search.at \in {"asked", "ranked", "fetched"} /\ left.failures > 0
  /\ search' = [search EXCEPT !.at = "touched", !.ranks = <<>>, !.hits = <<>>, !.costs = <<>>]
  /\ left' = [left EXCEPT !.failures = @ - 1]
  /\ UNCHANGED <<table, entities, log, linking, history, kept, job, clock>>

\* Reciprocal rank fusion (rank 0: not found), times 10 * 4758, which 61 and 78 divide
Common == 4758
Share(s, r) == IF r[s] = 0 THEN 0 ELSE Weight[s] * (Common \div (60 + r[s]))
Fused(r) == Share("vector", r) + Share("keyword", r) + Share("graph", r) + Share("recency", r)

\* Mutant: salience multiplies the score.
FinalScoreProduct(score, row) == score * row.salience

\* salience and confidence move a score by 15% each
FinalScore(score, row) ==
  LET modifier == 10000 + 15 * (row.salience - 100) + 15 * (Confidence(row.kind) - 100)
  IN  score * Max({5000, modifier})

Best(order) == SubSeq(order, 1, Min({Limit, Len(order)}))

\* the live rows that some strategy found, best first
Orders(ids) ==
  LET score == [i \in ids |-> FinalScore(Fused(search.ranks[i]), rows[i])]
  IN  {s \in SetToSeqs(ids) : \A a, b \in 1 .. Len(s) : a < b => score[s[a]] >= score[s[b]]}

Fetch ==
  /\ search.at = "ranked"
  /\ LET ids == {i \in DOMAIN search.ranks : Live(i) /\ \E s \in Strategies : search.ranks[i][s] > 0}
     IN  \E order \in Orders(ids) :
           LET hits == Best(order) IN
           search' = [search EXCEPT !.at = "fetched", !.hits = hits,
                                    !.ranks = [i \in ids |-> search.ranks[i]],
                                    !.costs = [k \in DOMAIN hits |-> Cost[rows[hits[k]].text]]]
  /\ UNCHANGED <<table, entities, log, linking, history, kept, job, clock, left>>

\* Budget: the "retrieved" section is 35% of what is left of the context
Allowance == (Max({0, Context - Reserve}) * 35) \div 100
\* greedy by rank: a hit that does not fit is skipped, a later one may still fit
Packing(costs, allowance) ==
  LET pack[k \in 0 .. Len(costs)] ==
        IF k = 0 THEN [kept |-> {}, used |-> 0]
        ELSE IF pack[k - 1].used + costs[k] > allowance THEN pack[k - 1]
        ELSE [kept |-> pack[k - 1].kept \cup {k}, used |-> pack[k - 1].used + costs[k]]
  IN  pack
PackMemories(costs, allowance) == Packing(costs, allowance)[Len(costs)].kept
\* touch: by id alone, whatever the row has become since
Touch ==
  /\ search.at = "fetched"
  /\ rows' = [i \in Ids |-> IF Exists(i) /\ i \in Range(search.hits)
                            THEN [rows[i] EXCEPT !.salience = Min({200, @ + 5}), !.seen = day]
                            ELSE rows[i]]
  /\ search' = [search EXCEPT !.at = "touched", !.ranks = <<>>]
  /\ UNCHANGED <<vec, links, entities, log, linking, history, kept, job, reused, issued, clock, left>>

Said(role) == [role |-> role, text |-> IF role = "user" THEN search.query ELSE search.reply]

\* messages_with_memory: what fits goes into the system message, the question after the transcript
Pack ==
  /\ search.at = "touched"
  /\ search' = [search EXCEPT !.at = "answering", !.packed = PackMemories(search.costs, Allowance)]
  /\ history' = Append(history, Said("user"))
  /\ UNCHANGED <<table, entities, log, linking, kept, job, clock, left>>

\* Mutant: the question of a failed turn stays in the transcript.
FailKeepingQuestion ==
  /\ search.at = "answering"
  /\ search' = [search EXCEPT !.at = "idle"]
  /\ UNCHANGED <<table, entities, log, linking, history, kept, job, clock, left>>

\* the model failed, or answered nothing
Fail ==
  /\ search.at = "answering"
  /\ search' = [search EXCEPT !.at = "idle"]
  /\ history' = Front(history)
  /\ UNCHANGED <<table, entities, log, linking, kept, job, clock, left>>

\* the whole answer, or what Ctrl-C left of it
Answer ==
  /\ search.at = "answering"
  /\ search' = [search EXCEPT !.at = "saying"]
  /\ history' = Append(history, Said("assistant"))
  /\ UNCHANGED <<table, entities, log, linking, kept, job, clock, left>>

\* remember_turn, for one side and then the other; a failure is swallowed
Keep(said, kind, from, to) ==
  /\ search.at = from
  /\ search' = [search EXCEPT !.at = to]
  /\ \/ /\ Remember(kind, said.text, CHOOSE s \in Sessions : TRUE)
        /\ kept' = Append(kept, [said |-> said, stored |-> TRUE])
        /\ UNCHANGED left
     \/ /\ left.failures > 0
        /\ left' = [left EXCEPT !.failures = @ - 1]
        /\ kept' = Append(kept, [said |-> said, stored |-> FALSE])
        /\ UNCHANGED <<table, linking>>
  /\ UNCHANGED <<entities, log, history, job, clock>>

KeepQuestion == Keep(Said("user"), "turn:user", "saying", "replying")
KeepAnswer == Keep(Said("assistant"), "turn:assistant", "replying", "idle")

\* the REPL ends: at its prompt, by an exception, or killed
Leave ==
  /\ search.at # "over" /\ left.leaves > 0
  /\ search' = [NoSearch EXCEPT !.at = "over"]
  /\ left' = [left EXCEPT !.leaves = @ - 1]
  /\ UNCHANGED <<table, entities, log, linking, history, kept, job, clock>>

Chat == Clear \/ Ask \/ Rank \/ RecallFails \/ Fetch \/ Touch \/ Pack \/ Fail \/ Answer
        \/ KeepQuestion \/ KeepAnswer \/ Leave

-----------------------------------------------------------------------------
(* Consolidator.run: promote, dedupe, decay, prune, each a read followed   *)
(* by transactions of its own.                                             *)

\* Mutant: dedupe before promotion.
DedupeFirst == <<"dedupe", "promote", "decay", "prune">>
Passes == <<"promote", "dedupe", "decay", "prune">>
After(pass) ==
  LET k == CHOOSE k \in DOMAIN Passes : Passes[k] = pass
  IN  IF k = Len(Passes) THEN "finish" ELSE Passes[k + 1]

\* user turns that say t and count: live ones
Asked(t) == {i \in LiveIds : rows[i].kind = "turn:user" /\ rows[i].text = t}
Recurring == {t \in Texts : /\ Cardinality(Asked(t)) >= PromoteAfter
                            /\ Cardinality({rows[i].sess : i \in Asked(t)}) >= 2}
Ever(t) == {i \in Ids : Exists(i) /\ rows[i].kind = "turn:user" /\ rows[i].text = t}
SaidOften == {t \in Texts : Cardinality(Ever(t)) >= PromoteAfter /\
                            Cardinality({rows[i].sess : i \in Ever(t)}) >= 2}
\* "already learned": some procedure, superseded ones too, holds the first 60 characters
Learnt(t) == \E i \in Ids : /\ Exists(i) /\ Layer(rows[i].kind) = "procedural"
                            /\ <<t, rows[i].text>> \in Like

Begun == [NoJob EXCEPT !.at = Passes[1], !.due = Recurring, !.said = SaidOften]

Run ==
  /\ job.at = "idle" /\ left.runs > 0
  /\ job' = Begun
  /\ left' = [left EXCEPT !.runs = @ - 1]
  /\ UNCHANGED <<table, log, chat, clock>>

\* `arc memory consolidate` in a second process: nothing keeps it from a run under way
RunBeside ==
  /\ left.beside /\ job.at # "idle" /\ waiting.at = "idle" /\ left.runs > 0
  /\ job' = Begun /\ waiting' = job /\ overlapped' = TRUE
  /\ left' = [left EXCEPT !.runs = @ - 1]
  /\ UNCHANGED <<table, log, chat, day, crashed>>

\* the other process goes on
Switch ==
  /\ waiting.at # "idle"
  /\ job' = waiting /\ waiting' = job
  /\ UNCHANGED <<table, log, chat, day, crashed, overlapped, left>>

Promote ==
  /\ job.at = "promote"
  /\ job' = [job EXCEPT !.at = "learn", !.texts = Recurring]
  /\ UNCHANGED <<table, log, chat, clock, left>>

\* the entry goes in a transaction of its own, after the change it records
Logged(e, next) == [job EXCEPT !.at = "log", !.entry = e, !.then = next]

Learn ==
  /\ job.at = "learn"
  /\ IF job.texts = {}
     THEN job' = [job EXCEPT !.at = After("promote")] /\ UNCHANGED table
     ELSE \E t \in job.texts :
            LET rest == [job EXCEPT !.texts = @ \ {t}] IN
            IF Learnt(t)
            THEN job' = rest /\ UNCHANGED table
            ELSE /\ NextId \in Ids
                 /\ Add("pattern", t, CHOOSE s \in Sessions : TRUE)
                 /\ job' = [rest EXCEPT !.at = "log", !.then = "learn",
                                        !.entry = [ids |-> {Min(Asked(t) \cup {MaxId})}, to |-> NextId]]
  /\ UNCHANGED <<log, chat, clock, left>>

\* a result that was forgotten meanwhile: the foreign key refuses the entry and ends the run
Log ==
  /\ job.at = "log"
  /\ IF job.entry.to = 0 \/ Exists(job.entry.to)
     THEN /\ log' = log \cup {job.entry}
          /\ job' = [job EXCEPT !.at = job.then, !.entry = None]
     ELSE job' = NoJob /\ UNCHANGED log
  /\ UNCHANGED <<table, chat, clock, left>>

\* the live rows, with their layer and vector as they are now, in order of id
Dedupe ==
  /\ job.at = "dedupe"
  /\ job' = [job EXCEPT !.at = "compare",
               !.todo = {[id |-> i, text |-> rows[i].text, layer |-> Layer(rows[i].kind)]
                           : i \in LiveIds}]
  /\ UNCHANGED <<table, log, chat, clock, left>>

Upcoming == CHOOSE row \in job.todo : \A other \in job.todo : row.id <= other.id

\* Mutant: a row that was merged in this run is looked at again.
SkipsNothing(i) == FALSE
Skips(i) == i \in job.merged

\* the k nearest vectors, taken before superseded rows and other layers are left out:
\* restatements at about the same distance come in any order
Candidates(text) ==
  LET similar == {i \in Ids : vec[i] # None /\ <<text, vec[i]>> \in Near}
  IN  IF Cardinality(similar) <= Nearest THEN {similar} ELSE kSubset(Nearest, similar)

Compare ==
  /\ job.at = "compare"
  /\ IF job.todo = {}
     THEN job' = [job EXCEPT !.at = After("dedupe")]
     ELSE LET row == Upcoming IN
          IF Skips(row.id)
          THEN job' = [job EXCEPT !.todo = @ \ {row}]
          ELSE \E near \in Candidates(row.text) :
                 LET dups == {i \in near : /\ Live(i) /\ Layer(rows[i].kind) = row.layer
                                           /\ i # row.id /\ i \notin job.merged}
                 IN  IF dups = {} THEN job' = [job EXCEPT !.todo = @ \ {row}]
                     ELSE job' = [job EXCEPT !.at = "supersede", !.dups = dups,
                                             !.merged = @ \cup dups]
  /\ UNCHANGED <<table, log, chat, clock, left>>

\* the foreign key refuses a replacement that was forgotten meanwhile and ends the run
Supersede ==
  /\ job.at = "supersede"
  /\ LET winner == Upcoming.id IN
     IF Exists(winner)
     THEN /\ rows' = [i \in Ids |-> IF i \in job.dups /\ Exists(i)
                                    THEN [rows[i] EXCEPT !.by = winner] ELSE rows[i]]
          /\ job' = [Logged([ids |-> job.dups, to |-> winner], "compare")
                       EXCEPT !.todo = @ \ {Upcoming}, !.dups = {}]
     ELSE job' = NoJob /\ UNCHANGED rows
  /\ UNCHANGED <<vec, links, log, chat, reused, issued, clock, left>>

\* decayed for every day since the last access, however often that was done before
Decayed(row) == Faded[<<row.salience, day - row.seen>>]
Decay ==
  /\ job.at = "decay"
  /\ LET stale == {i \in LiveIds : /\ rows[i].salience > PruneBelow
                                   /\ Decayed(rows[i]) # rows[i].salience}
     IN  job' = IF stale = {} THEN [job EXCEPT !.at = After("decay")]
                ELSE [job EXCEPT !.at = "fade", !.fades = [i \in stale |-> Decayed(rows[i])]]
  /\ UNCHANGED <<table, log, chat, clock, left>>

\* the values computed from the snapshot, whatever touched the rows since
Fade ==
  /\ job.at = "fade"
  /\ rows' = [i \in Ids |-> IF i \in DOMAIN job.fades /\ Exists(i)
                            THEN [rows[i] EXCEPT !.salience = job.fades[i]] ELSE rows[i]]
  /\ job' = [Logged([ids |-> DOMAIN job.fades, to |-> 0], After("decay")) EXCEPT !.fades = <<>>]
  /\ UNCHANGED <<vec, links, log, chat, reused, issued, clock, left>>

\* _prune, when allow_prune is set: chosen once, deleted one by one, logged at the end
Prune ==
  /\ job.at = "prune"
  /\ LET ids == {i \in LiveIds : rows[i].salience < PruneBelow} IN
     job' = IF ids = {} \/ ~left.prune THEN [job EXCEPT !.at = "finish"]
            ELSE [job EXCEPT !.at = "erase", !.dups = ids, !.entry = [ids |-> ids, to |-> 0]]
  /\ UNCHANGED <<table, log, chat, clock, left>>

Erase ==
  /\ job.at = "erase"
  /\ IF job.dups = {}
     THEN job' = Logged(job.entry, "finish") /\ UNCHANGED <<table, log>>
     ELSE /\ Delete(Min(job.dups))
          /\ job' = [job EXCEPT !.dups = @ \ {Min(@)},
                                !.due = Unhidden(@, Min(job.dups))]
  /\ UNCHANGED <<chat, clock, left>>

Finish ==
  /\ job.at = "finish"
  /\ job' = NoJob
  /\ UNCHANGED <<table, log, chat, clock, left>>

\* the process of the consolidator is killed between two of its transactions
Crash ==
  /\ job.at # "idle" /\ left.crashes > 0
  /\ job' = NoJob
  /\ crashed' = crashed + 1
  /\ left' = [left EXCEPT !.crashes = @ - 1]
  /\ UNCHANGED <<table, log, chat, day, waiting, overlapped>>

Day ==
  /\ left.days > 0
  /\ day' = day + 1
  /\ left' = [left EXCEPT !.days = @ - 1]
  /\ UNCHANGED <<table, log, chat, job, crashed, waiting, overlapped>>

Consolidate == \/ Run \/ RunBeside \/ Switch \/ Promote \/ Learn \/ Log \/ Dedupe \/ Compare \/ Supersede
               \/ Decay \/ Fade \/ Prune \/ Erase \/ Finish \/ Crash

Next == \/ Record \/ \E p \in linking : Upsert(p) \/ Link(p)
        \/ Chat
        \/ \E i \in Ids : Forget(i)
        \/ Consolidate
        \/ Day

Spec == Init /\ [][Next]_vars

-----------------------------------------------------------------------------
(* Properties.  An id that was handed out again names another memory: what *)
(* a process that still held it then does is excused, and recorded in the  *)
(* README as a defect.                                                     *)

\* Every vector is the embedding of the row with its id, and every row has one; an entity is
\* linked to a memory only if the memory names it (store.py:285 "a memory plus its vector").
IndexTruthful ==
  /\ \A i \in Ids : IF Exists(i) THEN vec[i] = rows[i].text ELSE vec[i] = None
  /\ \A l \in links : l[2] \in entities /\ Exists(l[1]) /\ (l[1] \notin reused => l[2] \in Names[rows[l[1]].text])

\* What consolidation replaces is still remembered: the replacements of a row form a chain
\* through restatements of it, in its layer, that ends in a live row, however turns, deletions
\* and passes interleave.
Restates(i, k) == /\ <<rows[i].text, rows[k].text>> \in Near
                  /\ Layer(rows[i].kind) = Layer(rows[k].kind)
\* What has the live rows and whatever is replaced by one of its own has every row.
EndsLive ==
  \A found \in SUBSET Ids :
    LiveIds \subseteq found /\ (\A i \in Ids \ found : Exists(i) => rows[i].by \notin found) =>
      \A i \in Ids : Exists(i) => i \in found
NothingVanishes ==
  /\ EndsLive
  /\ \A i \in Ids : Exists(i) /\ ~Live(i) /\ {i, rows[i].by} \cap reused = {} =>
       Restates(i, rows[i].by)

\* No silent mutation (consolidation.py:6, section 4.2): a row that is replaced is on the log
\* with its replacement, unless the run that replaced it is about to write the entry or was
\* killed before it could.  A kill leaves at most one such entry out.
Entered(i) == \E e \in log \cup (IF job.entry = None THEN {} ELSE {job.entry}) :
                i \in e.ids /\ e.to = rows[i].by
Silent == {rows[i].by : i \in {m \in Ids : Exists(m) /\ rows[m].by # 0 /\ ~Entered(m)}}

SilentBounded == Cardinality(Silent) <= crashed

\* What consolidation replaces is both still remembered and on the log, as long as no second
\* consolidation runs beside the first: see NoOverlapHarms.
NothingIsLost == ~overlapped => NothingVanishes /\ SilentBounded

\* A phrase asked often enough, in two sessions, when a run begins is found in a procedure when
\* it ends, unless such a procedure or a question was deleted or a second run went on beside:
\* the run must count the phrases before it merges them (consolidation.py:120-125).  That it is
\* the phrase itself is not so: see PhraseIsLearnt.
RecurringIsLearnt == job.at = "finish" /\ ~overlapped => \A t \in job.due : Learnt(t)

\* A memory found by three strategies "at middling rank" outranks one that a single strategy
\* found, whatever their salience and confidence, and is not cut when that one is kept
\* (retrieval.py:201-202, 212-214, 229-235).  Middling is any place but the last two of the 20
\* a strategy returns: at the 19th the weakest three, on a memory faded to nothing that one
\* source asserts, lose to the best one.
ByThree(r) == \E s \in Strategies : \A o \in Strategies \ {s} : r[o] \in 1 .. 18
ByOne(r) == \E s \in Strategies : \A o \in Strategies \ {s} : r[o] = 0
AgreementWins ==
  search.at = "fetched" =>
    \A i \in DOMAIN search.ranks, b \in DOMAIN search.hits :
      ByThree(search.ranks[i]) /\ ByOne(search.ranks[search.hits[b]])
        => \E a \in DOMAIN search.hits : a < b /\ search.hits[a] = i

\* The packed memories are the best selection that fits: of any other one that fits, the
\* first hit on which the two differ is in the packed one (working.py:92-99).
Spent(costs, ks) ==
  LET sum[k \in 0 .. Len(costs)] == IF k = 0 THEN 0 ELSE IF k \in ks THEN sum[k - 1] + costs[k]
                                    ELSE sum[k - 1]
  IN  sum
Total(costs, ks) == Spent(costs, ks)[Len(costs)]
PackedBest ==
  search.at = "answering" =>
    LET all == DOMAIN search.costs IN
    /\ Total(search.costs, search.packed) <= Allowance
    /\ \A other \in SUBSET all :
         (Total(search.costs, other) <= Allowance /\ other # search.packed) =>
           Min((other \ search.packed) \cup (search.packed \ other)) \in search.packed

\* What the prompt holds of the past is chosen well.
WellPrompted == AgreementWins /\ PackedBest

\* The transcript the next question is put to is whole exchanges, and the last of those that
\* were given to memory, word for word and in the same order, although turns fail and the user
\* clears the transcript: a turn that failed is in neither (chat.py:139-148, 301-315).
Unsaid == CASE search.at \in {"answering", "replying"} -> 1 [] search.at = "saying" -> 2 [] OTHER -> 0
MemoryFollowsChat ==
  search.at # "over" =>
    LET told == SubSeq(history, 1, Len(history) - Unsaid) IN
    /\ \A k \in DOMAIN history : history[k].role = IF k % 2 = 1 THEN "user" ELSE "assistant"
    /\ search.at # "replying" => Len(told) % 2 = 0
    /\ Len(told) <= Len(kept)
    /\ \A k \in DOMAIN told : kept[Len(kept) - Len(told) + k].said = told[k]

\* Claims of the code that it does not keep.

\* consolidation.py:15-17: "Merged and summarised memories are superseded - still readable".
\* Two runs at once replace two restatements by each other, and no search finds either.
NoOverlapHarms == NothingVanishes

\* consolidation.py:258-259: the signal is "exact normalised text".  A phrase found inside
\* another procedure, or of which the first 60 characters are, is never learnt.
PhraseIsLearnt ==
  job.at = "finish" /\ ~overlapped =>
    \A t \in job.due : \E i \in Ids : Exists(i) /\ rows[i].kind = "pattern" /\ rows[i].text = t

\* retrieval.py:214-215: salience and confidence "must only break ties - never overturn the
\* ranking": the fused scores alone put the hits in order.
ModifiersBreakTies ==
  search.at = "fetched" =>
    \A a, b \in DOMAIN search.hits :
      Fused(search.ranks[search.hits[a]]) > Fused(search.ranks[search.hits[b]]) => a < b

\* chat.py:310-311: no question is remembered without its answer.
NoDanglingQuestion ==
  search.at \in {"idle", "over"} =>
    \A k \in DOMAIN kept : kept[k].said.role = "user" /\ kept[k].stored =>
      k + 1 \in DOMAIN kept /\ kept[k + 1].stored

\* working.py:3-5, 75: the prompt fits the context; the transcript is never cut.
PromptFits ==
  search.at = "answering" =>
    FoldLeft(+, 0, [k \in DOMAIN history |-> Cost[history[k].text]])
      + Total(search.costs, search.packed) <= Context - Reserve

\* consolidation.py:214-216: decay is per day since the last access, not per run.
DecayPerDay ==
  \A i \in Ids : Exists(i) =>
    rows[i].salience >= Faded[<<Salience(rows[i].kind), day - rows[i].seen>>]

\* procedural.py:24 and consolidation.py:53: a phrase that has recurred often enough when a run
\* begins is learnt when it ends.  Merging the copies of an earlier run takes them out of the
\* count, so a phrase that recurs more slowly than memory is consolidated is never learnt.
LearntInTheEnd == job.at = "finish" => \A t \in job.said : Learnt(t)
=============================================================================
