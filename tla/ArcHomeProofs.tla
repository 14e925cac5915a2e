---------------------------- MODULE ArcHomeProofs ----------------------------
(***************************************************************************)
(* Theorems about ArcHome, for every set of commands, of models and of     *)
(* weight files, and every budget of crashes, reused PIDs, late answers    *)
(* and errors.  A step of one command changes the files of its own kind    *)
(* only, so the inductive invariant has a part for each kind of file, and  *)
(* Bystander says what a step may do to the processes it is not about.     *)
(***************************************************************************)
EXTENDS ArcHome, FiniteSetTheorems, TLAPS

Places ==
  {"off", "bound", "loading", "warm", "up", "closing", "ending", "recording", "gone", "crashed",
   "local", "dial", "stale", "waiting", "running", "reaping", "killing", "read", "opened",
   "written", "pulling", "removing"}

Placed == at \in [Processes -> Places] /\ left \in BudgetRecords

\* The process goes on to its end or is killed.
Finishes(p) == \/ Alive(p) /\ at'[p] = "crashed"
               \/ at[p] = "ending" /\ at'[p] = "recording"
               \/ at[p] = "recording" /\ at'[p] = "gone"
Still(p) == at'[p] = at[p] \/ Finishes(p)

Over == {"ending", "recording", "gone", "crashed"}

-----------------------------------------------------------------------------
(* The parts of the invariant *)

\* The client was told to run the task itself although the server had it.
GivenUp(d) == gave[d] \in {"late", "error"}

HandingTypes ==
  /\ endpoint \in Serves \cup {None}
  /\ conn \in [Dos -> Serves \cup {None}]
  /\ job \in [Dos -> {"none", "queued", "running", "done"}]
  /\ ran \in [Dos -> SUBSET {"server", "local"}]
  /\ gave \in [Dos -> {"none", "refused", "answer", "error", "late", "lost"}]

\* server.json names a server that serves or is dead.
Found == endpoint # None => at[endpoint] \in {"up", "gone", "crashed"}

(* A request exists only once the client has dialled, a client that waits  *)
(* has not run its task, and one that goes on by itself has given up.      *)
Client(d) ==
  /\ at[d] \in {"off", "dial", "stale"} => job[d] = "none"
  /\ at[d] \in {"off", "dial", "stale", "waiting"} => "local" \notin ran[d]
  /\ "server" \in ran[d] => job[d] # "none"
  /\ job[d] # "none" => GivenUp(d) \/ at[d] \in {"waiting"} \cup Over
  /\ job[d] # "none" /\ "local" \in ran[d] => GivenUp(d)

Handing == HandingTypes /\ Found /\ \A d \in Dos : Client(d)

(* Whoever holds the mouse lives and, unless it took it while a release of *)
(* its own was under way, has its PID file, so a kill that has listed the  *)
(* files has everyone it owes still before it.                             *)
WatchTypes ==
  /\ held \subseteq Processes /\ opening \subseteq Processes /\ exposed \subseteq Processes
  /\ leaving \in [Processes -> Nat]
  /\ pidfile \in [Processes -> {"none", "empty", "full"}]
  /\ todo \in [Kills -> SUBSET Processes] /\ due \in [Kills -> SUBSET Processes]

Listed ==
  /\ \A p \in held \cup opening : Alive(p) /\ (leaving[p] = 0 \/ p \in exposed)
  /\ \A p \in held \ exposed : pidfile[p] = "full"
  /\ \A p \in opening : p \notin held /\ (pidfile[p] = "empty" \/ p \in exposed)

Owed(k) ==
  /\ due[k] \subseteq held
  /\ at[k] = "killing" => due[k] \ exposed \subseteq todo[k]
  /\ due[k] \ exposed # {} => at[k] \in {"reaping", "killing", "crashed"}

Watching == WatchTypes /\ Listed /\ \A k \in Kills : Owed(k)

ConfigTypes ==
  /\ content \in [Inodes -> Choices \cup {Garbled}]
  /\ config \in Inodes /\ tmp \in Inodes \cup {None}
  /\ want \in [Uses -> Choices] /\ hand \in [Uses -> Inodes \cup {None}]
  /\ overlapped \in BOOLEAN

\* config.yaml and config.yaml.tmp are never one inode, nor that of a `use`
\* that has yet to open one.
Apart == /\ tmp # config
         /\ \A u \in Uses : u \in {config, tmp} => at[u] \notin {"off", "read"}

\* As long as no two ran at once, the `use` that runs will write what was
\* chosen and its own choice, and has the temporary file to itself.
Alone ==
  /\ \A u, w \in Using : u = w
  /\ content[config] = chosen
  /\ \A u \in Using :
       /\ want[u] = [chosen EXCEPT ![Choice[u].role] = Choice[u].key]
       /\ at[u] = "opened" => tmp # None /\ hand[u] = tmp /\ content[tmp] = NoChoice
       /\ at[u] = "written" => tmp # None /\ content[tmp] = want[u]

Keeping == ConfigTypes /\ Apart /\ (~ overlapped => Alone)

Loadables == [key : Keys, with : {Forced, Declared, "llamacpp"}, from : {"disk", "hub"}]

ReportTypes ==
  /\ hardware \in Probes \cup {"first", None} /\ scratch \in Probes \cup {None}
  /\ fd \in [Probes -> Probes \cup {None}]
  /\ source \in [Processes -> {None} \cup Loadables]
  /\ crowded \in BOOLEAN

\* The same for hardware.json ...
Aside == /\ scratch # None => scratch # hardware
         /\ \A h \in Probes : h \in {hardware, scratch} => at[h] # "off"

\* ... and what a load made of it.
AloneAtIt ==
  /\ \A g, h \in Open : g = h
  /\ hardware \in whole \/ (hardware = None /\ ~ left.probed)
  /\ \A h \in Open : /\ scratch # None /\ fd[h] = scratch
                     /\ at[h] = "opened" <=> scratch \notin whole
  /\ left.probed => \A p \in Processes : source[p] # None => source[p].with = Backend(Machine)

Reporting == ReportTypes /\ Aside /\ (~ crowded => AloneAtIt)

(* A model on the disk was complete when a load took it from there, unless *)
(* something touched it since.                                             *)
Fetching ==
  /\ weights \in [Keys -> SUBSET Shards]
  /\ \A m \in Keys : weights[m] \in {{}, Shards} \/ m \in unsettled
  /\ \A p \in Processes :
       at[p] = "loading" =>
         /\ source[p] \in Loadables
         /\ \/ source[p].from = "hub" \/ source[p].with = "llamacpp"
            \/ weights[source[p].key] = Shards \/ source[p].key \in unsettled
  /\ GoodLoads

IInv == Placed /\ Handing /\ Watching /\ Keeping /\ Reporting /\ Fetching

-----------------------------------------------------------------------------
(* Processes *)

\* Every command is a process of one kind.
LEMMA Kinds ==
  /\ Processes = Serves \cup Dos \cup Kills \cup Uses \cup Pulls \cup Removes \cup Probes
  /\ Serves \cap (Dos \cup Kills \cup Uses \cup Pulls \cup Removes \cup Probes) = {}
  /\ Dos \cap (Kills \cup Uses \cup Pulls \cup Removes \cup Probes) = {}
  /\ Kills \cap (Uses \cup Pulls \cup Removes \cup Probes) = {}
  /\ Uses \cap (Pulls \cup Removes \cup Probes) = {}
  /\ Probes \cap (Pulls \cup Removes) = {}
  /\ None \notin Processes /\ "first" \notin Processes /\ None # "first"
  <1> DEFINE C == Commands
  <1>1. /\ C[1] = Serves /\ C[2] = Dos /\ C[3] = Kills /\ C[4] = Uses /\ C[5] = Pulls
        /\ C[6] = Removes /\ C[7] = Probes
    BY DEF Commands
  <1>2. Processes = UNION {C[i] : i \in 1 .. 7} /\ \A i, j \in 1 .. 7 : i # j => C[i] \cap C[j] = {}
    BY HomeAssumption DEF HomeAssumption
  <1> HIDE DEF C
  <1>3. \A i, j \in {1, 2, 3, 4, 5, 6, 7} : i # j => C[i] \cap C[j] = {}
    BY <1>2
  <1>4. \A i \in 1 .. 7 : i \in {1, 2, 3, 4, 5, 6, 7}
    OBVIOUS
  <1>5. Processes = UNION {C[1], C[2], C[3], C[4], C[5], C[6], C[7]}
    BY <1>2, <1>4
  <1>6. Processes = Serves \cup Dos \cup Kills \cup Uses \cup Pulls \cup Removes \cup Probes
    BY <1>1, <1>5
  <1>7. /\ Serves \cap (Dos \cup Kills \cup Uses \cup Pulls \cup Removes \cup Probes) = {}
        /\ Dos \cap (Kills \cup Uses \cup Pulls \cup Removes \cup Probes) = {}
    BY <1>1, <1>3
  <1>8. /\ Kills \cap (Uses \cup Pulls \cup Removes \cup Probes) = {}
        /\ Uses \cap (Pulls \cup Removes \cup Probes) = {}
        /\ Probes \cap (Pulls \cup Removes) = {}
    BY <1>1, <1>3
  <1> QED BY <1>6, <1>7, <1>8, HomeAssumption DEF HomeAssumption

\* What a step does to the processes it is not about: they stay where they
\* are, go on to their end or are killed.
LEMMA Bystander ==
  ASSUME Placed, Next, NEW p \in Processes
  PROVE  \/ Still(p)
         \/ Serving /\ p \in Serves \cup Dos
         \/ Doing /\ p \in Dos
         \/ Killing /\ p \in Kills
         \/ ChangingConfig /\ p \in Uses
         \/ Managing /\ p \in Pulls \cup Removes
         \/ Probing /\ p \in Probes
         \/ Loading(p)
  <1> USE DEF Placed, Still, Finishes
  <1>1. CASE Crash
    BY <1>1 DEF Crash, Dies
  <1>2. CASE PidReused
    BY <1>2 DEF PidReused
  <1>3. CASE Serving
    BY <1>3 DEF Serving, Bind, Advertise, Close, Shutdown, Handle, Answer, Go
  <1>4. CASE Doing
    <2>1. \A d \in Dos : Lost(d) => Still(p)
      BY Kinds DEF Lost, Dies, Alive, Ended
    <2> QED BY <1>4, <2>1 DEF Doing, Look, ClearStale, Dial, RunTask, Late, Go, Start
  <1>5. CASE Controlling
    BY <1>5 DEF Controlling
  <1>6. CASE Killing
    <2>1. \A k \in Kills : \A q \in todo[k] : KillOne(k, q) => Still(p)
      BY DEF KillOne, Dies
    <2> QED BY <1>6, <2>1 DEF Killing, Reap, List, KillEnds, ReapOne, Go, Start
  <1>7. CASE ChangingConfig
    BY <1>7 DEF ChangingConfig, UseReads, UseOpens, UseWrites, UseReplaces, UseFails, Dies, Go
  <1>8. CASE Managing
    BY <1>8 DEF Managing, PullStarts, PullFile, PullEnds, RemoveStarts, RemoveFile, RemoveEnds, Go, Start
  <1>9. CASE Probing
    BY <1>9 DEF Probing, ProbeOpens, ProbeWrites, ProbeReplaces, ProbeFails, Go, Start
  <1>10. CASE \E q \in Processes : Ending(q)
    BY <1>10 DEF Ending, Recorded, Exit, Go
  <1>11. CASE \E q \in Processes : Loading(q)
    <2> PICK q \in Processes : Loading(q)
      BY <1>11
    <2>1. CASE p = q
      BY <2>1
    <2>2. CASE p # q
      BY <2>2 DEF Loading, ChooseModel, LoadModel, Go
    <2> QED BY <2>1, <2>2
  <1>12. CASE \E q \in Processes, t \in Threads : ToolRecord(q, t) \/ Logging(q, t)
    BY <1>12 DEF ToolRecord, Logging
  <1> QED BY <1>1, <1>2, <1>3, <1>4, <1>5, <1>6, <1>7, <1>8, <1>9, <1>10, <1>11, <1>12 DEF Next

\* One unit of a budget.
LEMMA Spending ==
  ASSUME left \in BudgetRecords,
         NEW what \in {"crashes", "reuses", "late", "errors", "sessions", "records", "failures"},
         Spend(what)
  PROVE  left' \in BudgetRecords /\ left'.probed = left.probed
  BY DEF Spend, BudgetRecords

\* A step spends at most one unit of the budget.
LEMMA BudgetStep ==
  ASSUME left \in BudgetRecords, Next
  PROVE  left' \in BudgetRecords /\ left'.probed = left.probed
  <1> DEFINE Fine == left' \in BudgetRecords /\ left'.probed = left.probed
  <1> SUFFICES Fine
    OBVIOUS
  <1>1. UNCHANGED left => Fine
    OBVIOUS
  <1>2. ASSUME NEW what \in {"crashes", "reuses", "late", "errors", "sessions", "records", "failures"},
               Spend(what)
        PROVE  Fine
    BY <1>2, Spending
  <1> HIDE DEF Fine
  <1>3. Crash \/ PidReused \/ Serving \/ Doing => Fine
    BY <1>1, <1>2 DEF Crash, PidReused, Serving, Handle, Answer, Doing, Lost
  <1>4. Controlling \/ Killing \/ ChangingConfig => Fine
    BY <1>1, <1>2 DEF Controlling, OpenPidFile, WritePidFile, GiveBack, Unregister, Killing, KillOne, ChangingConfig
  <1>5. Managing => Fine
    BY <1>1, <1>2 DEF Managing, PullStarts, PullFile, PullEnds, RemoveStarts, RemoveFile, RemoveEnds
  <1>6. Probing => Fine
    BY <1>1, <1>2 DEF Probing, ProbeOpens, ProbeWrites, ProbeReplaces, ProbeFails
  <1>7. ASSUME NEW p \in Processes, Ending(p) \/ Loading(p) PROVE Fine
    BY <1>1, <1>2, <1>7 DEF Ending, Loading, ChooseModel, LoadModel
  <1>8. ASSUME NEW p \in Processes, NEW t \in Threads, ToolRecord(p, t) \/ Logging(p, t) PROVE Fine
    BY <1>1, <1>2, <1>8 DEF ToolRecord, Logging
  <1> QED BY <1>3, <1>4, <1>5, <1>6, <1>7, <1>8 DEF Next

\* Every process is at one of the places, and a budget is never overspent.
LEMMA PlacedStep ==
  ASSUME Placed, Next
  PROVE  Placed'
  <1> DEFINE Moved == at' \in [Processes -> Places]
  <1> USE DEF Placed
  <1>1. ASSUME NEW p, NEW x, NEW y \in Places, Go(p, x, y) PROVE Moved
    BY <1>1 DEF Go
  <1>2. ASSUME NEW p, Dies(p) PROVE Moved
    BY <1>2 DEF Dies, Places
  <1>3. UNCHANGED at => Moved
    OBVIOUS
  <1> USE DEF Places
  <1>4. Crash \/ PidReused => Moved
    BY <1>2, <1>3 DEF Crash, PidReused
  <1>5. Serving => Moved
    BY DEF Serving, Bind, Advertise, Close, Shutdown, Handle, Answer, Go
  <1>6. Doing => Moved
    <2>1. \A d \in Dos : Look(d) => Moved
      BY <1>1 DEF Look, Start
    <2> QED BY <1>1, <1>2, <2>1 DEF Doing, ClearStale, Dial, RunTask, Late, Lost
  <1>7. Controlling => Moved
    BY <1>3 DEF Controlling
  <1>8. Killing => Moved
    BY <1>1, <1>2, <1>3 DEF Killing, Reap, List, KillEnds, ReapOne, KillOne, Start
  <1>9. ChangingConfig => Moved
    BY <1>1, <1>2 DEF ChangingConfig, UseReads, UseOpens, UseWrites, UseReplaces, UseFails
  <1>10. Managing => Moved
    BY <1>1, <1>3 DEF Managing, PullStarts, PullFile, PullEnds, RemoveStarts, RemoveFile, RemoveEnds, Start
  <1>11. Probing => Moved
    BY <1>1 DEF Probing, ProbeOpens, ProbeWrites, ProbeReplaces, ProbeFails, Start
  <1>12. ASSUME NEW p \in Processes, Ending(p) \/ Loading(p) PROVE Moved
    BY <1>1, <1>12 DEF Ending, Recorded, Exit, Loading, ChooseModel, LoadModel
  <1>13. ASSUME NEW p \in Processes, NEW t \in Threads, ToolRecord(p, t) \/ Logging(p, t) PROVE Moved
    BY <1>3, <1>13 DEF ToolRecord, Logging
  <1>14. Moved
    BY <1>4, <1>5, <1>6, <1>7, <1>8, <1>9, <1>10, <1>11, <1>12, <1>13 DEF Next
  <1> QED BY <1>14, BudgetStep

-----------------------------------------------------------------------------
(* Handing a task over *)

\* Nobody but the commands of this part has moved, except to their end.
LEMMA HandingStill ==
  ASSUME Placed, Handing, UNCHANGED endpointing, \A p \in Serves \cup Dos : Still(p)
  PROVE  Handing'
  <1> USE DEF endpointing, Still, Finishes
  <1>1. HandingTypes' /\ Found'
    BY DEF Handing, HandingTypes, Found, Alive, Ended
  <1>2. ASSUME NEW d \in Dos PROVE Client(d)'
    BY DEF Handing, Client, GivenUp, Over, Alive, Ended
  <1> QED BY <1>1, <1>2 DEF Handing

\* A server's own steps.
LEMMA ServerStep ==
  ASSUME Placed, Handing, NEW s \in Serves, Bind(s) \/ Advertise(s) \/ Close(s) \/ Shutdown(s)
  PROVE  Handing'
  <1> USE Kinds DEF Handing, Bind, Advertise, Close, Shutdown, Go, Placed, endpointing
  <1>1. HandingTypes' /\ Found'
    BY DEF HandingTypes, Found
  <1>2. ASSUME NEW d \in Dos PROVE Client(d)'
    <2>1. at'[d] = at[d] /\ UNCHANGED <<job, ran, gave>>
      OBVIOUS
    <2> QED BY <2>1 DEF Client, GivenUp
  <1> QED BY <1>1, <1>2 DEF Handing

\* A step of a client, or of its request at the server, that leaves server.json alone.
LEMMA ClientStep ==
  ASSUME Placed, Handing, NEW d \in Dos, UNCHANGED endpoint,
         \A p \in Processes \ {d} : at'[p] = at[p],
         \A e \in Dos \ {d} : job'[e] = job[e] /\ ran'[e] = ran[e] /\ gave'[e] = gave[e],
         HandingTypes', Client(d)'
  PROVE  Handing'
  <1>1. Found'
    BY Kinds DEF Handing, Found, HandingTypes, Placed
  <1>2. ASSUME NEW e \in Dos \ {d} PROVE Client(e)'
    <2>1. at'[e] = at[e] /\ job'[e] = job[e] /\ ran'[e] = ran[e] /\ gave'[e] = gave[e]
      BY Kinds DEF Placed
    <2> QED BY <2>1 DEF Handing, Client, GivenUp
  <1> QED BY <1>1, <1>2 DEF Handing

LEMMA HandingStep ==
  ASSUME Placed, Handing, Next
  PROVE  Handing'
  <1> USE DEF Handing, Placed, HandingTypes, Client, GivenUp
  <1>1. CASE Serving
    <2>1. ASSUME NEW d \in Dos, Handle(d) PROVE Handing'
      BY <2>1, ClientStep DEF Handle
    <2>2. ASSUME NEW d \in Dos, Answer(d) PROVE Handing'
      <3>1. \A p \in Processes \ {d} : at'[p] = at[p]
        BY <2>2 DEF Answer, Go
      <3>2. HandingTypes'
        BY <2>2 DEF Answer
      <3>3. Client(d)'
        BY <2>2 DEF Answer, Go, Over
      <3> QED BY <2>2, <3>1, <3>2, <3>3, ClientStep DEF Answer
    <2> QED BY <1>1, <2>1, <2>2, ServerStep DEF Serving
  <1>2. CASE Doing
    <2>1. ASSUME NEW d \in Dos, Look(d) PROVE Handing'
      <3>1. UNCHANGED endpoint /\ \A p \in Processes \ {d} : at'[p] = at[p]
        BY <2>1 DEF Look, Start, Go
      <3>2. \A e \in Dos \ {d} : job'[e] = job[e] /\ ran'[e] = ran[e] /\ gave'[e] = gave[e]
        BY <2>1 DEF Look, Start, Go
      <3>3. HandingTypes'
        BY <2>1 DEF Look, Start, Go
      <3>4. Client(d)'
        BY <2>1 DEF Look, Start, Go
      <3> QED BY <3>1, <3>2, <3>3, <3>4, ClientStep
    <2>2. ASSUME NEW d \in Dos, ClearStale(d) PROVE Handing'
      BY <2>2 DEF ClearStale, Go, Found
    <2>3. ASSUME NEW d \in Dos, Dial(d) PROVE Handing'
      <3>1. UNCHANGED endpoint /\ \A p \in Processes \ {d} : at'[p] = at[p]
        BY <2>3 DEF Dial, Go, ListensOn
      <3>2. \A e \in Dos \ {d} : job'[e] = job[e] /\ ran'[e] = ran[e] /\ gave'[e] = gave[e]
        BY <2>3 DEF Dial, Go, ListensOn
      <3>3. HandingTypes'
        BY <2>3 DEF Dial, ListensOn
      <3>4. Client(d)'
        <4>1. ran'[d] = ran[d] /\ at[d] = "dial"
          BY <2>3 DEF Dial
        <4>2. CASE at'[d] = "local" /\ job'[d] = job[d]
          BY <4>1, <4>2
        <4>3. CASE at'[d] = "waiting" /\ job'[d] = "queued"
          BY <4>1, <4>3
        <4> QED BY <2>3, <4>2, <4>3, Kinds DEF Dial, Go
      <3> QED BY <3>1, <3>2, <3>3, <3>4, ClientStep
    <2>4. ASSUME NEW d \in Dos, RunTask(d) PROVE Handing'
      <3>1. UNCHANGED endpoint /\ \A p \in Processes \ {d} : at'[p] = at[p]
        BY <2>4 DEF RunTask, Go, Over
      <3>2. \A e \in Dos \ {d} : job'[e] = job[e] /\ ran'[e] = ran[e] /\ gave'[e] = gave[e]
        BY <2>4 DEF RunTask, Go, Over
      <3>3. HandingTypes'
        BY <2>4 DEF RunTask, Go, Over
      <3>4. Client(d)'
        BY <2>4 DEF RunTask, Go, Over
      <3> QED BY <3>1, <3>2, <3>3, <3>4, ClientStep
    <2>5. ASSUME NEW d \in Dos, Late(d) PROVE Handing'
      <3>1. UNCHANGED endpoint /\ \A p \in Processes \ {d} : at'[p] = at[p]
        BY <2>5 DEF Late, Go
      <3>2. \A e \in Dos \ {d} : job'[e] = job[e] /\ ran'[e] = ran[e] /\ gave'[e] = gave[e]
        BY <2>5 DEF Late, Go
      <3>3. HandingTypes'
        BY <2>5 DEF Late, Go
      <3>4. Client(d)'
        BY <2>5 DEF Late, Go
      <3> QED BY <3>1, <3>2, <3>3, <3>4, ClientStep
    <2>6. ASSUME NEW d \in Dos, Lost(d) PROVE Handing'
      <3>1. UNCHANGED endpoint /\ \A p \in Processes \ {d} : at'[p] = at[p]
        BY <2>6 DEF Lost, Dies, Over
      <3>2. \A e \in Dos \ {d} : job'[e] = job[e] /\ ran'[e] = ran[e] /\ gave'[e] = gave[e]
        BY <2>6 DEF Lost, Dies, Over
      <3>3. HandingTypes'
        BY <2>6 DEF Lost, Dies, Over
      <3>4. Client(d)'
        BY <2>6 DEF Lost, Dies, Over
      <3> QED BY <3>1, <3>2, <3>3, <3>4, ClientStep
    <2> QED BY <1>2, <2>1, <2>2, <2>3, <2>4, <2>5, <2>6 DEF Doing
  <1>3. CASE \E p \in Processes : Loading(p)
    <2>1. ASSUME NEW d \in Dos, Loading(d) PROVE Handing'
      <3>1. UNCHANGED endpoint /\ \A p \in Processes \ {d} : at'[p] = at[p]
        BY <2>1 DEF Loading, ChooseModel, LoadModel, Go, Over, endpointing
      <3>2. \A e \in Dos \ {d} : job'[e] = job[e] /\ ran'[e] = ran[e] /\ gave'[e] = gave[e]
        BY <2>1 DEF Loading, ChooseModel, LoadModel, Go, Over, endpointing
      <3>3. HandingTypes'
        BY <2>1 DEF Loading, ChooseModel, LoadModel, Go, Over, endpointing
      <3>4. Client(d)'
        BY <2>1, Kinds DEF Loading, ChooseModel, LoadModel, Go, Over, endpointing
      <3> QED BY <3>1, <3>2, <3>3, <3>4, ClientStep
    <2>2. ASSUME NEW s \in Serves, Loading(s) PROVE Handing'
      <3>1. Found'
        BY <2>2, Kinds DEF Loading, ChooseModel, LoadModel, Go, endpointing, Found
      <3>2. \A d \in Dos : Client(d)'
        BY <2>2, Kinds DEF Loading, ChooseModel, LoadModel, Go, endpointing
      <3> QED BY <2>2, <3>1, <3>2 DEF Loading, endpointing
    <2> QED BY <1>3, <2>1, <2>2, Kinds DEF Loading
  <1>4. CASE ~ Serving /\ ~ Doing /\ ~ \E p \in Processes : Loading(p)
    <2>1. UNCHANGED endpointing
      BY <1>4 DEF Next, Crash, PidReused, Controlling, Killing, ChangingConfig, Managing, Probing,
                  Ending, ToolRecord, Logging
    <2>2. \A p \in Serves \cup Dos : Still(p)
      BY <1>4, Bystander, Kinds
    <2> QED BY <2>1, <2>2, HandingStill
  <1> QED BY <1>1, <1>2, <1>3, <1>4

-----------------------------------------------------------------------------
(* Killing *)

\* Nothing happens to the files, nobody in control dies, and no kill moves
\* but from its end.
LEMMA WatchingStill ==
  ASSUME Placed, Watching, UNCHANGED <<held, opening, leaving, exposed, pidfile, todo, due>>,
         \A p \in Processes : Alive(p) => Alive(p)',
         \A k \in Kills : at'[k] = at[k] \/ at[k] = "ending"
  PROVE  Watching'
  <1> USE DEF Watching, WatchTypes
  <1>1. WatchTypes'
    OBVIOUS
  <1>2. Listed'
    BY DEF Listed
  <1>3. ASSUME NEW k \in Kills PROVE Owed(k)'
    BY DEF Owed
  <1> QED BY <1>1, <1>2, <1>3

\* A process that dies or exits gives up control.
LEMMA WatchingQuits ==
  ASSUME Placed, Watching, NEW p \in Processes, Frees(p), UNCHANGED exposed,
         at' = [at EXCEPT ![p] = "crashed"] \/ (at[p] = "recording" /\ at' = [at EXCEPT ![p] = "gone"]),
         \/ UNCHANGED <<pidfile, todo>>
         \/ /\ pidfile' = [pidfile EXCEPT ![p] = "none"]
            /\ \E j \in Kills : todo' = [todo EXCEPT ![j] = @ \ {p}]
  PROVE  Watching'
  <1> USE DEF Placed, Watching, WatchTypes
  <1>0. /\ held' = held \ {p} /\ opening' = opening \ {p} /\ leaving' = [leaving EXCEPT ![p] = 0]
        /\ due' = [k \in Kills |-> due[k] \ {p}]
    BY DEF Frees
  <1>1. WatchTypes'
    <2>1. leaving' \in [Processes -> Nat]
      BY <1>0
    <2>2. todo' \in [Kills -> SUBSET Processes] /\ pidfile' \in [Processes -> {"none", "empty", "full"}]
      OBVIOUS
    <2> QED BY <1>0, <2>1, <2>2
  <1>2. Listed'
    <2>1. \A q \in Processes : q # p => /\ pidfile'[q] = pidfile[q] /\ leaving'[q] = leaving[q]
                                       /\ at'[q] = at[q]
      BY <1>0
    <2> QED BY <1>0, <1>1, <2>1 DEF Listed, Alive
  <1>3. ASSUME NEW k \in Kills PROVE Owed(k)'
    <2>1. due'[k] = due[k] \ {p} /\ (todo'[k] = todo[k] \/ todo'[k] = todo[k] \ {p})
      BY <1>0
    <2>2. at'[k] = at[k] \/ at'[k] = "crashed" \/ (at'[k] = "gone" /\ at[k] = "recording")
      BY Kinds
    <2> QED BY <1>0, <2>1, <2>2 DEF Owed
  <1> QED BY <1>1, <1>2, <1>3

\* What a session does to its files.
LEMMA SessionStep ==
  ASSUME Placed, Watching, UNCHANGED <<at, todo>>, NEW p \in Processes,
         OpenPidFile(p) \/ WritePidFile(p) \/ GiveBack(p) \/ Unregister(p)
  PROVE  Watching'
  <1> USE DEF Placed, Watching, WatchTypes
  <1>1. CASE OpenPidFile(p)
    <2> USE <1>1 DEF OpenPidFile
    <2>1. WatchTypes'
      OBVIOUS
    <2>2. Alive(p)
      BY DEF TaskRuns, Alive, Ended
    <2>3. Listed'
      BY <2>1, <2>2 DEF Listed, Alive
    <2>4. \A k \in Kills : Owed(k)'
      BY DEF Owed
    <2> QED BY <2>1, <2>3, <2>4
  <1>2. CASE WritePidFile(p)
    <2> USE <1>2 DEF WritePidFile
    <2>1. WatchTypes'
      OBVIOUS
    <2>2. Listed'
      BY <2>1 DEF Listed, Alive
    <2>3. \A k \in Kills : Owed(k)'
      BY DEF Owed
    <2> QED BY <2>1, <2>2, <2>3
  <1>3. CASE GiveBack(p)
    <2> USE <1>3 DEF GiveBack
    <2>1. WatchTypes'
      OBVIOUS
    <2>2. Listed'
      BY <2>1 DEF Listed, Alive
    <2>3. \A k \in Kills : Owed(k)'
      BY DEF Owed
    <2> QED BY <2>1, <2>2, <2>3
  <1>4. CASE Unregister(p)
    <2> USE <1>4 DEF Unregister
    <2>1. WatchTypes'
      OBVIOUS
    <2>2. Listed'
      BY <2>1 DEF Listed, Alive
    <2>3. \A k \in Kills : Owed(k)'
      BY DEF Owed
    <2> QED BY <2>1, <2>2, <2>3
  <1> QED BY <1>1, <1>2, <1>3, <1>4

\* A step of `arc kill`.
LEMMA KillStep ==
  ASSUME Placed, Watching, Killing
  PROVE  Watching'
  <1> USE DEF Placed, Watching, WatchTypes
  <1>1. ASSUME NEW k \in Kills, Reap(k) \/ List(k) \/ KillEnds(k) PROVE Watching'
    <2>0. /\ UNCHANGED <<held, opening, leaving, exposed, pidfile>>
          /\ \A q \in Processes \ {k} : at'[q] = at[q]
          /\ Alive(k) => Alive(k)'
          /\ \A j \in Kills \ {k} : due'[j] = due[j] /\ todo'[j] = todo[j]
      BY <1>1, Kinds DEF Reap, List, KillEnds, killing, Start, Go, Alive, Ended
    <2>1. WatchTypes'
      BY <1>1, <2>0 DEF Reap, List, KillEnds, killing, Registered
    <2>2. Listed'
      <3>1. \A q \in held \cup opening : Alive(q)'
        BY <2>0 DEF Alive, Listed
      <3> QED BY <2>0, <3>1 DEF Listed
    <2>3. ASSUME NEW j \in Kills PROVE Owed(j)'
      <3>1. CASE j # k
        BY <2>0, <2>3, <3>1, Kinds DEF Owed
      <3>2. CASE j = k /\ Reap(k)
        BY <2>0, <3>2, Kinds DEF Reap, Start, Go, Owed
      <3>3. CASE j = k /\ List(k)
        BY <2>0, <3>3, Kinds DEF List, Go, Owed, Listed, Registered
      <3>4. CASE j = k /\ KillEnds(k)
        BY <2>0, <3>4, Kinds DEF KillEnds, Go, Owed, killing
      <3> QED BY <1>1, <3>1, <3>2, <3>3, <3>4
    <2> QED BY <2>1, <2>2, <2>3
  <1>2. ASSUME NEW k \in Kills, NEW p \in todo[k], ReapOne(k, p) PROVE Watching'
    <2> USE <1>2 DEF ReapOne
    <2>1. WatchTypes'
      OBVIOUS
    <2>2. Listed'
      BY <2>1 DEF Listed, PidAlive, Alive
    <2>3. ASSUME NEW j \in Kills PROVE Owed(j)'
      BY <2>3 DEF Owed
    <2> QED BY <2>1, <2>2, <2>3
  <1>3. ASSUME NEW k \in Kills, NEW p \in todo[k], KillOne(k, p) PROVE Watching'
    <2>1. CASE Dies(p) /\ pidfile' = [pidfile EXCEPT ![p] = "none"]
      <3>2. Frees(p) /\ UNCHANGED exposed /\ todo' = [todo EXCEPT ![k] = @ \ {p}]
            /\ at' = [at EXCEPT ![p] = "crashed"] /\ p \in Processes
        BY <1>3, <2>1 DEF KillOne, Dies
      <3> QED BY <2>1, <3>2, WatchingQuits
    <2>2. CASE /\ ~ Alive(p) /\ UNCHANGED <<at, held, opening, leaving, exposed, due>>
               /\ todo' = [todo EXCEPT ![k] = @ \ {p}] /\ pidfile' = [pidfile EXCEPT ![p] = "none"]
      <3>1. WatchTypes'
        BY <2>2
      <3>2. Listed'
        BY <2>2, <3>1 DEF Listed, Alive
      <3>3. ASSUME NEW j \in Kills PROVE Owed(j)'
        BY <2>2, <3>3 DEF Owed, Listed
      <3> QED BY <3>1, <3>2, <3>3
    <2>3. CASE /\ UNCHANGED <<at, held, opening, leaving, exposed, pidfile>>
               /\ todo' = [todo EXCEPT ![k] = @ \ {p}] /\ due' = [due EXCEPT ![k] = @ \ {p}]
      <3>1. WatchTypes'
        BY <2>3
      <3>2. Listed'
        BY <2>3, <3>1 DEF Listed, Alive
      <3>3. ASSUME NEW j \in Kills PROVE Owed(j)'
        BY <2>3, <3>3 DEF Owed
      <3> QED BY <3>1, <3>2, <3>3
    <2> QED BY <1>3, <2>1, <2>2, <2>3 DEF KillOne
  <1> QED BY <1>1, <1>2, <1>3 DEF Killing

LEMMA WatchingStep ==
  ASSUME Placed, Watching, Next
  PROVE  Watching'
  <1> USE DEF Placed
  <1>1. CASE Crash
    BY <1>1, WatchingQuits DEF Crash, Dies
  <1>2. CASE \E d \in Dos : Lost(d)
    <2> PICK d \in Dos : Lost(d)
      BY <1>2
    <2> QED BY WatchingQuits, Kinds DEF Lost, Dies
  <1>3. CASE \E u \in Uses : UseFails(u) /\ UNCHANGED <<pidfile, exposed, todo>>
    <2> PICK u \in Uses : UseFails(u) /\ UNCHANGED <<pidfile, exposed, todo>>
      BY <1>3
    <2> QED BY WatchingQuits, Kinds DEF UseFails, Dies
  <1>4. CASE \E p \in Processes : Exit(p)
    BY <1>4, WatchingQuits DEF Exit, Go
  <1>5. CASE Controlling
    BY <1>5, SessionStep DEF Controlling, OpenPidFile, WritePidFile, GiveBack, Unregister
  <1>6. CASE Killing
    BY <1>6, KillStep
  <1>7. CASE /\ ~ Crash /\ ~ Controlling /\ ~ Killing /\ ~ \E p \in Processes : Exit(p)
             /\ ~ (\E d \in Dos : Lost(d))
             /\ ~ \E u \in Uses : UseFails(u) /\ UNCHANGED <<pidfile, exposed, todo>>
    <2>1. UNCHANGED <<held, opening, leaving, exposed, pidfile, todo, due>>
      BY <1>7 DEF Next, PidReused, Serving, Doing, ChangingConfig, Managing, Probing, Ending, Loading,
                  ToolRecord, Logging, killing
    <2>2. ASSUME NEW p \in Processes, Alive(p) PROVE Alive(p)'
      <3> DEFINE Lives == Alive(p)'
      <3> USE <2>2 DEF Alive, Ended
      <3>1. PidReused => Lives
        BY DEF PidReused
      <3>2. Serving => Lives
        BY DEF Serving, Bind, Advertise, Close, Shutdown, Handle, Answer, Go
      <3>3. Doing => Lives
        BY <1>7 DEF Doing, Look, ClearStale, Dial, RunTask, Late, Start, Go
      <3>4. ChangingConfig => Lives
        BY <1>7 DEF ChangingConfig, UseReads, UseOpens, UseWrites, UseReplaces, Go
      <3>5. Managing => Lives
        BY DEF Managing, PullStarts, PullFile, PullEnds, RemoveStarts, RemoveFile, RemoveEnds, Start, Go
      <3>6. Probing => Lives
        BY DEF Probing, ProbeOpens, ProbeWrites, ProbeReplaces, ProbeFails, Start, Go
      <3>7. ASSUME NEW q \in Processes, Ending(q) \/ Loading(q) PROVE Lives
        BY <1>7, <3>7 DEF Ending, Recorded, Loading, ChooseModel, LoadModel, Go
      <3>8. ASSUME NEW q \in Processes, NEW t \in Threads, ToolRecord(q, t) \/ Logging(q, t) PROVE Lives
        BY <3>8 DEF ToolRecord, Logging
      <3> QED BY <1>7, <3>1, <3>2, <3>3, <3>4, <3>5, <3>6, <3>7, <3>8 DEF Next
    <2>3. ASSUME NEW k \in Kills PROVE at'[k] = at[k] \/ at[k] = "ending"
      <3>1. Still(k)
        BY <1>7, Bystander, Kinds DEF Loading
      <3> QED BY <2>2, <3>1, Kinds DEF Still, Finishes, Alive, Ended
    <2> QED BY <2>1, <2>2, <2>3, WatchingStill
  <1> QED BY <1>1, <1>2, <1>3, <1>4, <1>5, <1>6, <1>7

-----------------------------------------------------------------------------
(* config.yaml *)

\* An empty file holds no choice; the first inode is no command's.
LEMMA ConfigFacts ==
  /\ NoChoice \in Choices /\ None \notin Inodes /\ Uses \subseteq Inodes /\ "first" \in Inodes
  /\ "first" \notin Uses /\ Uses \subseteq Processes
  BY Kinds DEF NoChoice, Choices, Inodes

\* The files are as they were, and every `use` is too, or has come to its end.
LEMMA KeepingStill ==
  ASSUME Placed, Keeping, UNCHANGED configuring, \A u \in Uses : Still(u)
  PROVE  Keeping'
  <1> USE DEF Keeping, configuring, Still, Finishes, Alive, Ended
  <1>1. ConfigTypes'
    BY DEF ConfigTypes
  <1>2. Apart'
    BY DEF Apart
  <1>3. ASSUME ~ overlapped' PROVE Alone'
    <2>1. \A u \in Using' : u \in Using /\ at'[u] = at[u]
      BY DEF Using
    <2> QED BY <1>3, <2>1 DEF Alone
  <1> QED BY <1>1, <1>2, <1>3

LEMMA UseStep ==
  ASSUME Placed, Keeping, NEW u \in Uses,
         UseReads(u) \/ UseOpens(u) \/ UseWrites(u) \/ UseReplaces(u)
  PROVE  Keeping'
  <1> USE ConfigFacts DEF Placed, Keeping, ConfigTypes, Apart
  <1>1. CASE UseReads(u)
    <2> USE <1>1 DEF Go
    <2>0. at[u] = "off" /\ UNCHANGED <<content, config, tmp, hand, chosen>>
      BY DEF UseReads
    <2>1. CASE content[config] = Garbled
      <3>1. at' = [at EXCEPT ![u] = "ending"] /\ UNCHANGED <<want, overlapped>>
        BY <2>1 DEF UseReads
      <3>2. ~ overlapped' => Alone'
        BY <2>0, <3>1 DEF Alone, Using
      <3> QED BY <2>0, <3>1, <3>2
    <2>2. CASE content[config] # Garbled
      <3> DEFINE c == [content[config] EXCEPT ![Choice[u].role] = Choice[u].key]
      <3>1. /\ at' = [at EXCEPT ![u] = "read"] /\ want' = [want EXCEPT ![u] = c]
            /\ overlapped' = (overlapped \/ Using # {})
        BY <2>2 DEF UseReads
      <3>2. overlapped' \in BOOLEAN /\ (~ overlapped' => ~ overlapped /\ Using = {})
        BY <3>1, Zenon
      <3>3. c \in Choices
        BY <2>2, HomeAssumption DEF HomeAssumption, Choices
      <3>4. ConfigTypes' /\ Apart'
        BY <2>0, <3>1, <3>2, <3>3
      <3>5. ASSUME ~ overlapped' PROVE Alone'
        <4>1. content[config] = chosen /\ want'[u] = c
          BY <3>1, <3>2, <3>5 DEF Alone
        <4>2. \A w \in Using' : w = u
          BY <3>1, <3>2, <3>5 DEF Using
        <4>3. at'[u] = "read"
          BY <3>1
        <4> HIDE DEF c
        <4> QED BY <2>0, <4>1, <4>2, <4>3 DEF Alone, c
      <3> QED BY <3>4, <3>5
    <2> QED BY <2>1, <2>2
  <1>2. CASE UseOpens(u)
    <2> USE <1>2 DEF UseOpens, Go
    <2> DEFINE i == IF tmp = None THEN u ELSE tmp
    <2>0. i \in Inodes /\ i # config
      OBVIOUS
    <2>1. ConfigTypes'
      OBVIOUS
    <2>2. Apart'
      OBVIOUS
    <2>3. ASSUME ~ overlapped' PROVE Alone'
      BY <2>0, <2>3 DEF Alone, Using
    <2> QED BY <2>1, <2>2, <2>3
  <1>3. CASE UseWrites(u)
    <2> USE <1>3 DEF UseWrites, Go
    <2>1. ConfigTypes'
      <3>1. PICK c \in Choices \cup {Garbled} : content' = [content EXCEPT ![hand[u]] = c]
        OBVIOUS
      <3> QED BY <3>1
    <2>2. Apart'
      OBVIOUS
    <2>3. ASSUME ~ overlapped' PROVE Alone'
      BY <2>3 DEF Alone, Using
    <2> QED BY <2>1, <2>2, <2>3
  <1>4. CASE UseReplaces(u)
    <2> USE <1>4 DEF UseReplaces, Go
    <2>1. ConfigTypes'
      OBVIOUS
    <2>2. Apart'
      OBVIOUS
    <2>3. ASSUME ~ overlapped' PROVE Alone'
      <3>1. Using' = {} /\ content[tmp] = want[u]
        BY <2>3 DEF Alone, Using
      <3>2. content'[config'] = chosen'
        BY <2>3, <3>1 DEF Alone, Using
      <3> QED BY <3>1, <3>2 DEF Alone
    <2> QED BY <2>1, <2>2, <2>3
  <1> QED BY <1>1, <1>2, <1>3, <1>4

LEMMA KeepingStep ==
  ASSUME Placed, Keeping, Next
  PROVE  Keeping'
  <1>1. CASE ~ ChangingConfig
    <2>1. UNCHANGED configuring
      BY <1>1 DEF Next, Crash, PidReused, Serving, Doing, Controlling, Killing, Managing, Probing,
                  Ending, Loading, ToolRecord, Logging
    <2>2. \A u \in Uses : Still(u)
      BY <1>1, Bystander, Kinds DEF Loading
    <2> QED BY <2>1, <2>2, KeepingStill
  <1>2. ASSUME NEW u \in Uses, UseFails(u), UNCHANGED configuring PROVE Keeping'
    BY <1>2, KeepingStill, Kinds DEF UseFails, Dies, Still, Finishes, Alive, Ended, Placed
  <1> QED BY <1>1, <1>2, UseStep DEF ChangingConfig

-----------------------------------------------------------------------------
(* hardware.json *)

\* The files and the loads are as they were, and so is every probe, or it has
\* come to its end.
LEMMA ReportingStill ==
  ASSUME Placed, Reporting, UNCHANGED <<probing, source>>, left'.probed = left.probed,
         \A h \in Probes : Still(h)
  PROVE  Reporting'
  <1> USE DEF Reporting, probing, Still, Finishes, Alive, Ended
  <1>1. ReportTypes' /\ Aside'
    BY DEF ReportTypes, Aside
  <1>2. ASSUME ~ crowded' PROVE AloneAtIt'
    <2>1. \A h \in Open' : h \in Open /\ at'[h] = at[h]
      BY DEF Open
    <2> QED BY <1>2, <2>1 DEF AloneAtIt
  <1> QED BY <1>1, <1>2

\* What a load is about to do: to load a chosen model, by a backend that what
\* hardware.json says allows, from the disk if it has to or can.
LEMMA Choosing ==
  ASSUME Placed, Keeping, Reporting, NEW p \in Processes, NEW x, ChooseModel(p, x),
         at'[p] # "ending"
  PROVE  \E m \in Keys :
            /\ at' = [at EXCEPT ![p] = "loading"]
            /\ source' = [source EXCEPT ![p] = [key |-> m, with |-> ChooseBackend, from |-> Source(m)]]
  <1> DEFINE c == content[config]
  <1>1. c # Garbled /\ c["chat"] # None
    BY DEF ChooseModel, Go, Placed
  <1>2. c["chat"] \in Keys
    BY <1>1, HomeAssumption DEF HomeAssumption, Keeping, ConfigTypes, Choices
  <1> QED BY <1>1, <1>2 DEF ChooseModel, Go

\* A model is chosen by what hardware.json says, and the choice is remembered.
LEMMA ReportingLoad ==
  ASSUME Placed, Keeping, Reporting, NEW p \in Processes, Loading(p)
  PROVE  Reporting'
  <1>1. /\ UNCHANGED probing /\ left'.probed = left.probed
        /\ \A h \in Probes : at'[h] = at[h]
    BY Kinds, Spending DEF Loading, ChooseModel, LoadModel, Go, Placed
  <1>2. CASE UNCHANGED source
    BY <1>1, <1>2, ReportingStill DEF Still
  <1>3. ASSUME NEW m \in Keys,
               source' = [source EXCEPT ![p] = [key |-> m, with |-> ChooseBackend, from |-> Source(m)]]
        PROVE  Reporting'
    <2> USE <1>1 DEF probing, Reporting
    <2> DEFINE r == [key |-> m, with |-> ChooseBackend, from |-> Source(m)]
    <2>1. ChooseBackend \in {Forced, Declared, "llamacpp"} /\ Source(m) \in {"disk", "hub"}
      BY DEF ChooseBackend, Backend, Source
    <2>2. ReportTypes'
      BY <1>3, <2>1 DEF ReportTypes, Loadables
    <2>3. Aside'
      BY DEF Aside
    <2>4. ASSUME ~ crowded' PROVE AloneAtIt'
      <3>1. left.probed => r.with = Backend(Machine)
        BY <2>4 DEF AloneAtIt, ChooseBackend, Accelerators
      <3> HIDE DEF r
      <3>2. source' = [source EXCEPT ![p] = r]
        BY <1>3 DEF r
      <3>3. left'.probed => \A q \in Processes : source'[q] # None => source'[q].with = Backend(Machine)
        BY <2>4, <3>1, <3>2 DEF AloneAtIt, ReportTypes
      <3>4. Open' = Open /\ \A h \in Open : at'[h] = at[h]
        BY DEF Open
      <3> QED BY <2>4, <3>3, <3>4 DEF AloneAtIt
    <2> QED BY <2>2, <2>3, <2>4
  <1> QED BY <1>2, <1>3, Choosing DEF Loading, ChooseModel, LoadModel, Go, Placed

LEMMA ProbeStep ==
  ASSUME Placed, Reporting, UNCHANGED source, left'.probed = left.probed, NEW h \in Probes,
         ProbeOpens(h) \/ ProbeWrites(h) \/ ProbeReplaces(h) \/ ProbeFails(h)
  PROVE  Reporting'
  <1> USE Kinds DEF Placed, Reporting, ReportTypes, Aside
  <1>1. CASE ProbeOpens(h)
    <2>0. /\ at[h] = "off" /\ at' = [at EXCEPT ![h] = "opened"] /\ UNCHANGED hardware
          /\ scratch' = (IF scratch = None THEN h ELSE scratch)
          /\ fd' = [fd EXCEPT ![h] = scratch'] /\ whole' = whole \ {scratch'}
          /\ crowded' = (crowded \/ Open # {})
      BY <1>1 DEF ProbeOpens, Start, Go
    <2>1. crowded' \in BOOLEAN /\ (~ crowded' => ~ crowded /\ Open = {})
      BY <2>0, Zenon
    <2>2. ReportTypes' /\ Aside'
      BY <2>0, <2>1
    <2>3. ASSUME ~ crowded' PROVE AloneAtIt'
      <3>1. Open' = {h}
        BY <2>0, <2>1, <2>3 DEF Open
      <3> QED BY <2>0, <2>1, <2>3, <3>1 DEF AloneAtIt
    <2> QED BY <2>2, <2>3
  <1>2. CASE ProbeWrites(h)
    <2> USE <1>2 DEF ProbeWrites, Go
    <2>1. ReportTypes' /\ Aside'
      OBVIOUS
    <2>2. ASSUME ~ crowded' PROVE AloneAtIt'
      BY <2>2 DEF AloneAtIt, Open
    <2> QED BY <2>1, <2>2
  <1>3. CASE ProbeReplaces(h)
    <2> USE <1>3 DEF ProbeReplaces, Go
    <2>1. ReportTypes' /\ Aside'
      OBVIOUS
    <2>2. ASSUME ~ crowded' PROVE AloneAtIt'
      BY <2>2 DEF AloneAtIt, Open
    <2> QED BY <2>1, <2>2
  <1>4. CASE ProbeFails(h)
    <2> USE <1>4 DEF ProbeFails, Go
    <2>1. ReportTypes' /\ Aside'
      OBVIOUS
    <2>2. ASSUME ~ crowded' PROVE AloneAtIt'
      BY <2>2 DEF AloneAtIt, Open
    <2> QED BY <2>1, <2>2
  <1> QED BY <1>1, <1>2, <1>3, <1>4

LEMMA ReportingStep ==
  ASSUME Placed, Keeping, Reporting, Next
  PROVE  Reporting'
  <1>0. left'.probed = left.probed
    BY BudgetStep DEF Placed
  <1>1. CASE Probing
    BY <1>0, <1>1, ProbeStep DEF Probing, modelling
  <1>2. CASE \E p \in Processes : Loading(p)
    BY <1>2, ReportingLoad
  <1>3. CASE ~ Probing /\ ~ \E p \in Processes : Loading(p)
    <2>1. UNCHANGED <<probing, source>>
      BY <1>3 DEF Next, Crash, PidReused, Serving, Doing, Controlling, Killing, ChangingConfig,
                  Managing, Ending, ToolRecord, Logging, modelling
    <2>2. \A h \in Probes : Still(h)
      BY <1>3, Bystander, Kinds
    <2> QED BY <1>0, <2>1, <2>2, ReportingStill
  <1> QED BY <1>1, <1>2, <1>3

-----------------------------------------------------------------------------
(* The models' weights *)

\* No load begins, and what was touched stays marked.
LEMMA FetchingStill ==
  ASSUME Fetching, UNCHANGED modelling,
         \A p \in Processes : at'[p] = "loading" => at[p] = "loading"
  PROVE  Fetching'
  BY DEF Fetching, modelling, GoodLoads

\* A weight file comes or goes: afterwards the model is complete or marked.
LEMMA WeightsStep ==
  ASSUME Placed, Reporting, Fetching, UNCHANGED <<source, loads>>, NEW m \in Keys, NEW files \in SUBSET Shards,
         weights' = [weights EXCEPT ![m] = files],
         \/ unsettled' = unsettled \cup {m}
         \/ unsettled' = unsettled /\ files = Shards,
         \A p \in Processes : at'[p] = "loading" => at[p] = "loading"
  PROVE  Fetching'
  <1> USE DEF Fetching
  <1>1. weights' \in [Keys -> SUBSET Shards] /\ \A k \in Keys : weights'[k] \in {{}, Shards} \/ k \in unsettled'
    OBVIOUS
  <1>2. ASSUME NEW p \in Processes, at'[p] = "loading"
        PROVE  /\ source'[p] \in Loadables
               /\ \/ source'[p].from = "hub" \/ source'[p].with = "llamacpp"
                  \/ weights'[source'[p].key] = Shards \/ source'[p].key \in unsettled'
    <2>1. source[p].key \in Keys
      BY <1>2 DEF Loadables
    <2> QED BY <1>2, <2>1
  <1>3. GoodLoads'
    BY DEF GoodLoads
  <1> QED BY <1>1, <1>2, <1>3

LEMMA FetchingLoad ==
  ASSUME Placed, Keeping, Reporting, Fetching, NEW p \in Processes, Loading(p)
  PROVE  Fetching'
  <1> USE DEF Fetching
  <1>1. ASSUME NEW x, ChooseModel(p, x) PROVE Fetching'
    <2>1. CASE at'[p] = "ending"
      BY <1>1, <2>1 DEF ChooseModel, Go, Placed, GoodLoads
    <2>2. CASE at'[p] # "ending"
      <3>1. PICK m \in Keys :
              /\ at' = [at EXCEPT ![p] = "loading"]
              /\ source' = [source EXCEPT ![p] = [key |-> m, with |-> ChooseBackend, from |-> Source(m)]]
        BY <1>1, <2>2, Choosing
      <3> DEFINE r == [key |-> m, with |-> ChooseBackend, from |-> Source(m)]
      <3>2. \/ r.from = "hub" \/ r.with = "llamacpp" \/ weights[m] = Shards \/ m \in unsettled
        BY DEF Source, IsDownloaded
      <3>3. r.key = m /\ r \in Loadables
        BY DEF Loadables, ChooseBackend, Backend, Source
      <3> HIDE DEF r
      <3>4. source' = [source EXCEPT ![p] = r]
        BY <3>1 DEF r
      <3>5. UNCHANGED <<weights, loads, unsettled>>
        BY <1>1 DEF ChooseModel
      <3> QED BY <3>1, <3>2, <3>3, <3>4, <3>5 DEF Reporting, ReportTypes, Placed, GoodLoads
    <2> QED BY <2>1, <2>2
  <1>2. ASSUME NEW x \in {"running", "warm"}, LoadModel(p, x) PROVE Fetching'
    <2>1. UNCHANGED <<weights, source, unsettled>> /\ at[p] = "loading"
      BY <1>2 DEF LoadModel
    <2>2. \A q \in Processes : at'[q] = "loading" => at[q] = "loading"
      BY <1>2 DEF LoadModel, Go, Placed
    <2>3. CASE UNCHANGED loads
      BY <2>1, <2>2, <2>3, FetchingStill DEF modelling
    <2>4. CASE loads' = loads \cup {source[p]} /\ (source[p].from = "hub" \/ ~ Loads(source[p]))
      <3>1. GoodLoads'
        BY <2>1, <2>4 DEF GoodLoads, Loadables, Loads
      <3> QED BY <2>1, <2>2, <3>1
    <2> QED BY <1>2, <2>3, <2>4 DEF LoadModel
  <1> QED BY <1>1, <1>2 DEF Loading

LEMMA FetchingStep ==
  ASSUME Placed, Keeping, Reporting, Fetching, Next
  PROVE  Fetching'
  <1>1. CASE \E p \in Processes : Loading(p)
    BY <1>1, FetchingLoad
  <1>2. ASSUME ~ \E p \in Processes : Loading(p), NEW p \in Processes, at'[p] = "loading"
        PROVE  at[p] = "loading"
    <2>1. CASE Still(p)
      BY <1>2, <2>1 DEF Still, Finishes
    <2>2. CASE Serving
      BY <1>2, <2>2 DEF Serving, Bind, Advertise, Close, Shutdown, Handle, Answer, Go, Placed
    <2>3. CASE Doing
      BY <1>2, <2>3 DEF Doing, Look, ClearStale, Dial, RunTask, Late, Lost, Dies, Start, Go, Placed
    <2>4. CASE Killing
      BY <1>2, <2>4 DEF Killing, Reap, List, KillEnds, ReapOne, KillOne, Dies, Start, Go, Placed
    <2>5. CASE ChangingConfig
      BY <1>2, <2>5 DEF ChangingConfig, UseReads, UseOpens, UseWrites, UseReplaces, UseFails, Dies, Go, Placed
    <2>6. CASE Managing
      BY <1>2, <2>6 DEF Managing, PullStarts, PullFile, PullEnds, RemoveStarts, RemoveFile, RemoveEnds, Start, Go, Placed
    <2>7. CASE Probing
      BY <1>2, <2>7 DEF Probing, ProbeOpens, ProbeWrites, ProbeReplaces, ProbeFails, Start, Go, Placed
    <2> QED BY <1>2, <2>1, <2>2, <2>3, <2>4, <2>5, <2>6, <2>7, Bystander
  <1>3. CASE Managing /\ ~ \E p \in Processes : Loading(p)
    <2>0. UNCHANGED <<source, loads>> /\ \A p \in Pulls \cup Removes : Target[p] \in Keys
      BY <1>3, HomeAssumption DEF Managing, HomeAssumption
    <2>1. ASSUME NEW p \in Pulls, PullFile(p) PROVE Fetching'
      <3>1. PICK w \in Shards \ weights[Target[p]] :
              weights' = [weights EXCEPT ![Target[p]] = @ \cup {w}]
        BY <2>1 DEF PullFile
      <3> DEFINE files == weights[Target[p]] \cup {w}
      <3>2. files \in SUBSET Shards /\ weights' = [weights EXCEPT ![Target[p]] = files]
            /\ weights'[Target[p]] = files
        BY <2>0, <3>1 DEF Fetching
      <3>3. \/ unsettled' = unsettled \cup {Target[p]}
            \/ unsettled' = unsettled /\ files = Shards
        BY <2>1, <3>2 DEF PullFile
      <3> HIDE DEF files
      <3> QED BY <1>2, <1>3, <2>0, <3>2, <3>3, WeightsStep
    <2>2. ASSUME NEW p \in Removes, RemoveFile(p) PROVE Fetching'
      <3>1. PICK w \in weights[Target[p]] :
              weights' = [weights EXCEPT ![Target[p]] = @ \ {w}]
        BY <2>2 DEF RemoveFile
      <3> DEFINE files == weights[Target[p]] \ {w}
      <3>2. files \in SUBSET Shards /\ weights' = [weights EXCEPT ![Target[p]] = files]
        BY <2>0, <3>1 DEF Fetching
      <3>3. unsettled' = unsettled \cup {Target[p]}
        BY <2>2 DEF RemoveFile
      <3> HIDE DEF files
      <3> QED BY <1>2, <1>3, <2>0, <3>2, <3>3, WeightsStep
    <2>3. CASE UNCHANGED <<weights, unsettled>>
      BY <1>2, <1>3, <2>0, <2>3, FetchingStill DEF modelling
    <2> QED BY <1>3, <2>1, <2>2, <2>3 DEF Managing, PullStarts, PullEnds, RemoveStarts, RemoveEnds
  <1>4. CASE ~ Managing /\ ~ \E p \in Processes : Loading(p)
    <2>1. UNCHANGED modelling
      BY <1>4 DEF Next, Crash, PidReused, Serving, Doing, Controlling, Killing, ChangingConfig,
                  Probing, Ending, ToolRecord, Logging
    <2> QED BY <1>2, <1>4, <2>1, FetchingStill
  <1> QED BY <1>1, <1>3, <1>4

-----------------------------------------------------------------------------
(* The theorems *)

THEOREM InitInv == Init => IInv
  <1> SUFFICES ASSUME Init PROVE IInv
    OBVIOUS
  <1>1. Placed
    BY HomeAssumption DEF HomeAssumption, Init, Placed, Places
  <1>2. Handing
    BY DEF Init, Handing, HandingTypes, Found, Client
  <1>3. Watching
    BY DEF Init, Watching, WatchTypes, Listed, Owed
  <1>4. Keeping
    BY <1>1, ConfigFacts DEF Init, Placed, BudgetRecords, Keeping, ConfigTypes, Apart, Alone, Using
  <1>5. Reporting
    BY <1>1, Kinds DEF Init, Placed, BudgetRecords, Reporting, ReportTypes, Aside, AloneAtIt, Open
  <1>6. Fetching
    BY <1>1 DEF Init, Placed, BudgetRecords, Fetching, GoodLoads
  <1> QED BY <1>1, <1>2, <1>3, <1>4, <1>5, <1>6 DEF IInv

LEMMA VarsStutter == IInv /\ UNCHANGED vars => IInv'
  <1> SUFFICES ASSUME IInv, UNCHANGED vars PROVE IInv'
    OBVIOUS
  <1> USE DEF IInv, vars, endpointing, killing, configuring, modelling, probing
  <1>1. Placed' /\ Handing'
    BY DEF Placed, Handing, HandingTypes, Found, Client, GivenUp
  <1>2. Watching'
    BY DEF Watching, WatchTypes, Listed, Owed, Alive
  <1>3. Keeping'
    BY KeepingStill DEF Still
  <1>4. Reporting'
    BY ReportingStill DEF Still
  <1>5. Fetching'
    BY FetchingStill
  <1> QED BY <1>1, <1>2, <1>3, <1>4, <1>5

THEOREM Invariance == Spec => []IInv
  <1>1. IInv /\ [Next]_vars => IInv'
    BY PlacedStep, HandingStep, WatchingStep, KeepingStep, ReportingStep, FetchingStep, VarsStutter DEF IInv
  <1> QED BY InitInv, <1>1, PTL DEF Spec

(* A task that a server and its client both ran was given up by the client *)
(* or answered with an error; and a live server that server.json names     *)
(* serves.                                                                 *)
THEOREM OneTaskOneRunner == Spec => []TaskHandedOver
  <1>1. IInv => TaskHandedOver
    BY DEF IInv, Handing, HandingTypes, Found, Client, GivenUp, TaskHandedOver, Alive, Ended
  <1> QED BY <1>1, Invariance, PTL

(* When `arc kill` ends, nobody who was in control when it began and ever  *)
(* since is left, but whom it was told it could not signal and who took    *)
(* control while an earlier release of its own was under way.              *)
THEOREM KillReachesAll == Spec => []NoneEscapes
  <1>1. IInv => NoneEscapes
    BY DEF IInv, Watching, Owed, NoneEscapes
  <1> QED BY <1>1, Invariance, PTL

(* A crash anywhere leaves config.yaml and hardware.json whole, as long as *)
(* no two commands wrote one of them at once.                              *)
THEOREM CrashesKeepFiles == Spec => []FilesKept
  <1>1. IInv => FilesKept
    BY DEF IInv, Keeping, Alone, Reporting, ReportTypes, AloneAtIt, FilesKept
  <1> QED BY <1>1, Invariance, PTL

(* A load fails only from the hub, by llama.cpp, or for a model that was   *)
(* partly there, or from which something was removed, at some time.        *)
THEOREM LoadsAreSound == Spec => []GoodLoads
  <1>1. IInv => GoodLoads
    BY DEF IInv, Fetching
  <1> QED BY <1>1, Invariance, PTL

-----------------------------------------------------------------------------
(* The audit log.  For every set of loggers and threads and a line that  *)
(* reaches the file in at most two pieces.  LogHonest says nothing of a    *)
(* record half-way, so the invariant follows each record from its number   *)
(* to its last piece: LogKeeps takes it through the operations, and        *)
(* LogIsHonest counts with it what a reader may miss.                      *)

LogTypes ==
  /\ seq \in [Loggers -> Nat]
  /\ pen \in [Loggers -> [Threads -> {None} \cup Jobs]]
  /\ failed \subseteq Loggers \X Nat
  /\ file \in Seq([rec : Loggers \X Nat, part : {1, 2}, of : {1, 2}])

Rec(p, t) == <<p, pen[p][t].n>>

\* A record that is being written has a number of its own and has not failed;
\* a thread that has written the first of two pieces still has the lock.
PensTidy ==
  \A p \in Loggers, t \in Threads : ~ Idle(p, t) =>
    /\ pen[p][t].n \in 1 .. seq[p] /\ pen[p][t].done < pen[p][t].of
    /\ Rec(p, t) \notin failed
    /\ \A u \in Threads : ~ Idle(p, u) /\ u # t =>
         /\ pen[p][u].n # pen[p][t].n
         /\ pen[p][u].done = 0 \/ pen[p][t].done = 0

\* A record begins once, and before it ends; what is completed did not fail.
FileTidy ==
  /\ \A r \in failed : r[2] <= seq[r[1]]
  /\ \A i \in DOMAIN file :
       /\ file[i].rec[2] \in 1 .. seq[file[i].rec[1]] /\ file[i].part <= file[i].of
       /\ file[i].part = file[i].of => file[i].rec \notin failed
       /\ file[i].part = 2 =>
            \E k \in 1 .. i - 1 : file[k].rec = file[i].rec /\ file[k].part = 1 /\ file[k].of = 2
  /\ \A i, k \in DOMAIN file : file[i].rec = file[k].rec /\ file[i].part = file[k].part => i = k

\* The file holds of a record what its thread has written.
Matching ==
  \A p \in Loggers, t \in Threads : ~ Idle(p, t) =>
    \A i \in DOMAIN file : file[i].rec = Rec(p, t) => /\ pen[p][t].done = 1
                                                      /\ file[i].part = 1 /\ file[i].of = 2

HasBegun ==
  \A p \in Loggers, t \in Threads : ~ Idle(p, t) /\ pen[p][t].done = 1 =>
    pen[p][t].of = 2 /\ \E i \in DOMAIN file : file[i].rec = Rec(p, t) /\ file[i].part = 1

\* A first piece has its second, failed, or is being continued.
HalfWritten ==
  \A i \in DOMAIN file : file[i].part = 1 /\ file[i].of = 2 =>
    \/ file[i].rec \in failed
    \/ \E k \in DOMAIN file : file[k].rec = file[i].rec /\ file[k].part = 2
    \/ \E t \in Threads : /\ ~ Idle(file[i].rec[1], t) /\ Rec(file[i].rec[1], t) = file[i].rec
                          /\ pen[file[i].rec[1]][t].done = 1

\* Between the two pieces of a record its logger writes nothing else, unless
\* the second never comes.
Contiguous ==
  \A i \in DOMAIN file :
    (file[i].part = 1 /\ file[i].of = 2 /\ i + 1 \in DOMAIN file
       /\ file[i + 1].rec[1] = file[i].rec[1])
      => file[i + 1].rec = file[i].rec \/ file[i].rec \in failed

LogInv == LogTypes /\ PensTidy /\ FileTidy /\ Matching /\ HasBegun /\ HalfWritten /\ Contiguous

-----------------------------------------------------------------------------
\* Nothing has been numbered.
LEMMA LogStarts == LogInit => LogInv
  BY DEF LogInit, LogInv, LogTypes, PensTidy, FileTidy, Matching, HasBegun, HalfWritten, Contiguous,
         Idle, Begun

\* Pieces and jobs.
LEMMA PieceFacts ==
  ASSUME LogTypes
  PROVE  /\ Len(file) \in Nat /\ DOMAIN file = 1 .. Len(file)
         /\ \A i \in DOMAIN file :
              /\ file[i].rec[1] \in Loggers /\ file[i].rec[2] \in Nat
              /\ file[i].rec = <<file[i].rec[1], file[i].rec[2]>>
              /\ file[i].part \in {1, 2} /\ file[i].of \in {1, 2}
         /\ \A p \in Loggers, t \in Threads : ~ Idle(p, t) =>
              pen[p][t].n \in Nat /\ pen[p][t].of \in {1, 2} /\ pen[p][t].done \in {0, 1}
  <1>1. Len(file) \in Nat /\ DOMAIN file = 1 .. Len(file)
    BY DEF LogTypes
  <1>2. ASSUME NEW i \in DOMAIN file
        PROVE  /\ file[i].rec[1] \in Loggers /\ file[i].rec[2] \in Nat
               /\ file[i].rec = <<file[i].rec[1], file[i].rec[2]>>
               /\ file[i].part \in {1, 2} /\ file[i].of \in {1, 2}
    <2> DEFINE P == [rec : Loggers \X Nat, part : {1, 2}, of : {1, 2}]
    <2>0. file \in Seq(P)
      BY DEF LogTypes
    <2>1. file[i] \in P
      <3> HIDE DEF P
      <3> QED BY <2>0
    <2>2. file[i].rec \in Loggers \X Nat
      BY <2>1
    <2> QED BY <2>1, <2>2
  <1>3. ASSUME NEW p \in Loggers, NEW t \in Threads, ~ Idle(p, t)
        PROVE  pen[p][t].n \in Nat /\ pen[p][t].of \in {1, 2} /\ pen[p][t].done \in {0, 1}
    <2>1. pen[p][t] \in Jobs
      BY <1>3 DEF LogTypes, Idle
    <2> QED BY <2>1 DEF Jobs
  <1> QED BY <1>1, <1>2, <1>3

\* A record gets its number.
LEMMA NumberKeeps ==
  ASSUME LogInv, NEW p \in Loggers, NEW t \in Threads, NEW of \in {1, 2}, Number(p, t, of)
  PROVE  LogInv'
  <1> DEFINE n == seq[p] + 1
  <1> DEFINE line == [n |-> n, of |-> of, done |-> 0]
  <1> USE PieceFacts DEF LogInv, Rec
  <1>1. /\ Idle(p, t) /\ UNCHANGED <<file, failed>>
        /\ seq' = [seq EXCEPT ![p] = n] /\ pen' = [pen EXCEPT ![p][t] = line]
    BY DEF Number
  <1>2. n \in Nat /\ line \in Jobs /\ line # None /\ line.n = n /\ line.done = 0 /\ line.of = of
    BY LogAssumption DEF LogAssumption, Jobs, LogTypes
  <1> HIDE DEF line
  <1>3. /\ ~ Idle(p, t)' /\ pen'[p][t] = line
        /\ \A q \in Loggers, u \in Threads :
             q # p \/ u # t => pen'[q][u] = pen[q][u] /\ (Idle(q, u)' <=> Idle(q, u))
    BY <1>1, <1>2 DEF Idle, LogTypes
  <1>4. LogTypes'
    BY <1>1, <1>2 DEF LogTypes
  <1>5. seq'[p] = n /\ (\A q \in Loggers : q # p => seq'[q] = seq[q]) /\ seq \in [Loggers -> Nat]
    BY <1>1 DEF LogTypes
  <1> HIDE DEF n
  <1>n. n = seq[p] + 1
    BY DEF n
  <1>6. PensTidy'
    <2> SUFFICES ASSUME NEW q \in Loggers, NEW u \in Threads, ~ Idle(q, u)'
                 PROVE  /\ pen'[q][u].n \in 1 .. seq'[q] /\ pen'[q][u].done < pen'[q][u].of
                        /\ Rec(q, u)' \notin failed
                        /\ \A v \in Threads : ~ Idle(q, v)' /\ v # u =>
                             /\ pen'[q][v].n # pen'[q][u].n
                             /\ pen'[q][v].done = 0 \/ pen'[q][u].done = 0
      BY <1>1 DEF PensTidy
    <2>1. CASE q = p /\ u = t
      <3>1. \A v \in Threads : ~ Idle(q, v)' /\ v # u => pen'[q][v].n # n
        <4>1. ASSUME NEW v \in Threads, ~ Idle(p, v)', v # t PROVE pen'[p][v].n \in 1 .. seq[p]
          <5>1. ~ Idle(p, v) /\ pen'[p][v] = pen[p][v]
            BY <1>3, <4>1
          <5> QED BY <5>1 DEF PensTidy
        <4>2. seq[p] \in Nat
          BY <1>5
        <4> QED BY <1>n, <2>1, <4>1, <4>2
      <3>2. Rec(q, u)' \notin failed
        BY <1>2, <1>3, <1>5, <1>n, <2>1 DEF FileTidy
      <3> QED BY <1>2, <1>3, <1>5, <1>n, <2>1, <3>1, <3>2
    <2>2. CASE q # p \/ u # t
      <3>1. /\ ~ Idle(q, u) /\ pen'[q][u] = pen[q][u]
            /\ pen[q][u].n \in 1 .. seq[q] /\ pen[q][u].done < pen[q][u].of /\ Rec(q, u) \notin failed
        BY <1>3, <2>2 DEF PensTidy
      <3>2. pen[q][u].n \in 1 .. seq'[q]
        BY <1>5, <1>n, <3>1
      <3>3. ASSUME NEW v \in Threads, ~ Idle(q, v)', v # u
            PROVE  /\ pen'[q][v].n # pen'[q][u].n
                   /\ pen'[q][v].done = 0 \/ pen'[q][u].done = 0
        <4>1. CASE q = p /\ v = t
          <5>1. pen[p][u].n \in 1 .. seq[p] /\ seq[p] \in Nat
            BY <1>5, <3>1, <4>1
          <5> QED BY <1>2, <1>3, <1>n, <3>1, <4>1, <5>1
        <4>2. CASE q # p \/ v # t
          BY <1>3, <3>1, <3>3, <4>2 DEF PensTidy
        <4> QED BY <4>1, <4>2
      <3> QED BY <3>1, <3>2, <3>3
    <2> QED BY <2>1, <2>2
  <1>7. FileTidy'
    <2>1. \A r \in failed : r[1] \in Loggers /\ r[2] \in Nat
      BY DEF LogTypes
    <2>2. \A q \in Loggers : seq[q] <= seq'[q] /\ seq[q] \in Nat /\ seq'[q] \in Nat
      BY <1>5, <1>n
    <2> QED BY <1>1, <2>1, <2>2 DEF FileTidy
  <1>8. Matching'
    <2> SUFFICES ASSUME NEW q \in Loggers, NEW u \in Threads, ~ Idle(q, u)',
                        NEW i \in DOMAIN file, file[i].rec = Rec(q, u)'
                 PROVE  pen'[q][u].done = 1 /\ file[i].part = 1 /\ file[i].of = 2
      BY <1>1 DEF Matching
    <2>1. CASE q = p /\ u = t
      <3>1. file[i].rec[1] = p /\ file[i].rec[2] = n
        BY <1>2, <1>3, <2>1
      <3> QED BY <1>5, <1>n, <3>1 DEF FileTidy
    <2>2. CASE q # p \/ u # t
      BY <1>3, <2>2 DEF Matching
    <2> QED BY <2>1, <2>2
  <1>9. HasBegun'
    BY <1>1, <1>2, <1>3 DEF HasBegun
  <1>10. HalfWritten' /\ Contiguous'
    <2>1. ASSUME NEW q \in Loggers, NEW u \in Threads, ~ Idle(q, u)
          PROVE  ~ Idle(q, u)' /\ pen'[q][u] = pen[q][u]
      BY <1>1, <1>3, <2>1
    <2>2. HalfWritten'
      BY <1>1, <2>1 DEF HalfWritten
    <2> QED BY <1>1, <2>2 DEF Contiguous
  <1> QED BY <1>4, <1>6, <1>7, <1>8, <1>9, <1>10

\* A piece of a line is written.
LEMMA WriteKeeps ==
  ASSUME LogInv, NEW p \in Loggers, NEW t \in Threads, Write(p, t)
  PROVE  LogInv'
  <1> DEFINE line == pen[p][t]
             e == [rec |-> <<p, line.n>>, part |-> line.done + 1, of |-> line.of]
             L == Len(file) + 1
             last == line.done + 1 = line.of
             next == IF last THEN None ELSE [line EXCEPT !.done = @ + 1]
  <1> USE PieceFacts DEF LogInv, Rec
  <1>1. /\ ~ Idle(p, t) /\ (line.done = 0 => LockFree(p)) /\ UNCHANGED <<seq, failed>>
        /\ file' = Append(file, e) /\ pen' = [pen EXCEPT ![p][t] = next]
    BY DEF Write
  <1>2. /\ line \in Jobs /\ line.n \in 1 .. seq[p] /\ line.n \in Nat /\ <<p, line.n>> \notin failed
        /\ line.of \in {1, 2} /\ line.done \in {0, 1} /\ line.done < line.of
    BY <1>1 DEF PensTidy, LogTypes, Idle
  <1>3. e.rec = <<p, line.n>> /\ e.rec[1] = p /\ e.rec[2] = line.n /\ e.part = line.done + 1 /\ e.of = line.of
        /\ e \in [rec : Loggers \X Nat, part : {1, 2}, of : {1, 2}]
    BY <1>2
  <1>4. \/ last /\ next = None
        \/ /\ ~ last /\ line.done = 0 /\ line.of = 2
           /\ next \in Jobs /\ next.n = line.n /\ next.of = 2 /\ next.done = 1
    BY <1>2 DEF Jobs
  <1>5. /\ pen'[p][t] = next
        /\ \A q \in Loggers, u \in Threads :
             q # p \/ u # t => pen'[q][u] = pen[q][u] /\ (Idle(q, u)' <=> Idle(q, u))
    BY <1>1 DEF Idle, LogTypes
  <1>6. Idle(p, t)' <=> last
    BY <1>4, <1>5, LogAssumption DEF LogAssumption, Idle
  <1>7. LogTypes'
    <2> DEFINE P == [rec : Loggers \X Nat, part : {1, 2}, of : {1, 2}]
    <2>1. file \in Seq(P) /\ e \in P
      BY <1>3 DEF LogTypes
    <2>2. file' \in Seq(P)
      <3> HIDE DEF P, e
      <3> QED BY <1>1, <2>1
    <2>3. pen' \in [Loggers -> [Threads -> {None} \cup Jobs]]
      <3> HIDE DEF next
      <3> QED BY <1>1, <1>4 DEF LogTypes
    <2> QED BY <1>1, <2>2, <2>3 DEF LogTypes
  <1>8. /\ L \in Nat /\ Len(file) \in Nat /\ DOMAIN file' = 1 .. L /\ DOMAIN file = 1 .. L - 1 /\ file'[L] = e
        /\ L \in DOMAIN file' /\ \A i \in DOMAIN file : file'[i] = file[i] /\ i # L /\ i \in DOMAIN file'
        /\ \A i \in DOMAIN file' : i = L \/ i \in DOMAIN file
    <2>1. file \in Seq([rec : Loggers \X Nat, part : {1, 2}, of : {1, 2}])
      BY DEF LogTypes
    <2> HIDE DEF e
    <2> QED BY <1>1, <2>1
  <1>9. line = pen[p][t] /\ (last <=> line.done + 1 = line.of)
    OBVIOUS
  <1> HIDE DEF line, e, L, last, next
  <1>10. PensTidy'
    <2> SUFFICES ASSUME NEW q \in Loggers, NEW u \in Threads, ~ Idle(q, u)'
                 PROVE  /\ pen'[q][u].n \in 1 .. seq[q] /\ pen'[q][u].done < pen'[q][u].of
                        /\ Rec(q, u)' \notin failed
                        /\ \A v \in Threads : ~ Idle(q, v)' /\ v # u =>
                             /\ pen'[q][v].n # pen'[q][u].n
                             /\ pen'[q][v].done = 0 \/ pen'[q][u].done = 0
      BY <1>1 DEF PensTidy
    <2>1. \A v \in Threads : ~ Idle(p, v) /\ v # t =>
            pen[p][v].n # line.n /\ (line.done = 0 => pen[p][v].done = 0)
      BY <1>1, <1>9 DEF PensTidy, LockFree
    <2>2. CASE q = p /\ u = t
      <3>1. ~ last
        BY <1>6, <2>2
      <3> QED BY <1>2, <1>4, <1>5, <2>1, <2>2, <3>1
    <2>3. CASE q # p \/ u # t
      <3>1. ~ Idle(q, u) /\ pen'[q][u] = pen[q][u]
        BY <1>5, <2>3
      <3>2. ASSUME NEW v \in Threads, ~ Idle(q, v)', v # u
            PROVE  /\ pen'[q][v].n # pen'[q][u].n
                   /\ pen'[q][v].done = 0 \/ pen'[q][u].done = 0
        <4>1. CASE q = p /\ v = t
          <5>1. ~ last
            BY <1>6, <3>2, <4>1
          <5> QED BY <1>4, <1>5, <2>1, <3>1, <3>2, <4>1, <5>1
        <4>2. CASE q # p \/ v # t
          <5>1. ~ Idle(q, v) /\ pen'[q][v] = pen[q][v]
            BY <1>5, <3>2, <4>2
          <5>2. pen[q][v].n # pen[q][u].n /\ (pen[q][v].done = 0 \/ pen[q][u].done = 0)
            BY <3>1, <3>2, <5>1, ZenonT(60) DEF PensTidy
          <5> QED BY <3>1, <5>1, <5>2
        <4> QED BY <4>1, <4>2
      <3> QED BY <3>1, <3>2 DEF PensTidy
    <2> QED BY <2>2, <2>3
  <1>11. \A i \in DOMAIN file : file[i].rec = e.rec => line.done = 1 /\ file[i].part = 1 /\ file[i].of = 2
    BY <1>1, <1>3, <1>9 DEF Matching
  <1>12. FileTidy'
    <2>1. ASSUME NEW i \in DOMAIN file'
          PROVE  /\ file'[i].rec[2] \in 1 .. seq[file'[i].rec[1]] /\ file'[i].part <= file'[i].of
                 /\ file'[i].part = file'[i].of => file'[i].rec \notin failed
                 /\ file'[i].part = 2 =>
                      \E k \in 1 .. i - 1 : file'[k].rec = file'[i].rec /\ file'[k].part = 1 /\ file'[k].of = 2
      <3>1. CASE i \in DOMAIN file
        <4>1. \A k \in 1 .. i - 1 : k \in DOMAIN file
          BY <1>8, <3>1
        <4>2. file[i].part = 2 =>
                \E k \in 1 .. i - 1 : file'[k].rec = file[i].rec /\ file'[k].part = 1 /\ file'[k].of = 2
          <5> SUFFICES ASSUME file[i].part = 2
                       PROVE  \E k \in 1 .. i - 1 : file'[k].rec = file[i].rec /\ file'[k].part = 1 /\ file'[k].of = 2
            OBVIOUS
          <5>1. PICK k \in 1 .. i - 1 : file[k].rec = file[i].rec /\ file[k].part = 1 /\ file[k].of = 2
            BY <3>1 DEF FileTidy
          <5>2. file'[k] = file[k]
            BY <1>8, <4>1
          <5> QED BY <5>1, <5>2
        <4> QED BY <1>8, <3>1, <4>2 DEF FileTidy
      <3>2. CASE i = L
        <4>1. ASSUME line.done = 1
              PROVE  \E k \in DOMAIN file : file[k].rec = e.rec /\ file[k].part = 1 /\ file[k].of = 2
          BY <1>1, <1>3, <1>9, <1>11, <4>1 DEF HasBegun
        <4>2. e.part = 2 => \E k \in 1 .. L - 1 : file'[k].rec = e.rec /\ file'[k].part = 1 /\ file'[k].of = 2
          BY <1>2, <1>3, <1>8, <4>1
        <4>3. file'[i] = e
          BY <1>8, <3>2
        <4>4. e.part <= e.of /\ (e.part = e.of => e.rec \notin failed)
          BY <1>2, <1>3
        <4> QED BY <1>2, <1>3, <3>2, <4>2, <4>3, <4>4
      <3> QED BY <1>8, <3>1, <3>2
    <2>2. ASSUME NEW i \in DOMAIN file, file[i].rec = e.rec PROVE file[i].part # e.part
      BY <1>3, <1>11, <2>2
    <2>3. ASSUME NEW i \in DOMAIN file', NEW k \in DOMAIN file',
                 file'[i].rec = file'[k].rec, file'[i].part = file'[k].part
          PROVE  i = k
      BY <1>8, <2>2, <2>3 DEF FileTidy
    <2> QED BY <1>1, <2>1, <2>3 DEF FileTidy
  <1>13. Matching'
    <2> SUFFICES ASSUME NEW q \in Loggers, NEW u \in Threads, ~ Idle(q, u)',
                        NEW i \in DOMAIN file', file'[i].rec = Rec(q, u)'
                 PROVE  pen'[q][u].done = 1 /\ file'[i].part = 1 /\ file'[i].of = 2
      BY DEF Matching
    <2>1. CASE q = p /\ u = t
      <3>1. ~ last /\ Rec(q, u)' = e.rec
        BY <1>3, <1>4, <1>5, <1>6, <2>1
      <3>2. i = L
        <4>1. line.done = 0 /\ (i # L => file'[i] = file[i] /\ i \in DOMAIN file)
          BY <1>4, <1>8, <3>1
        <4>2. file'[i].rec = e.rec
          BY <3>1
        <4> QED BY <1>11, <4>1, <4>2
      <3> QED BY <1>3, <1>4, <1>5, <1>8, <2>1, <3>1, <3>2
    <2>2. CASE q # p \/ u # t
      <3>1. ~ Idle(q, u) /\ pen'[q][u] = pen[q][u]
        BY <1>5, <2>2
      <3>2. i # L
        BY <1>1, <1>3, <1>8, <1>9, <2>2, <3>1 DEF PensTidy
      <3> QED BY <1>8, <3>1, <3>2 DEF Matching
    <2> QED BY <2>1, <2>2
  <1>14. HasBegun'
    <2> SUFFICES ASSUME NEW q \in Loggers, NEW u \in Threads, ~ Idle(q, u)', pen'[q][u].done = 1
                 PROVE  pen'[q][u].of = 2 /\ \E i \in DOMAIN file' : file'[i].rec = Rec(q, u)' /\ file'[i].part = 1
      BY DEF HasBegun
    <2>1. CASE q = p /\ u = t
      <3>1. L \in DOMAIN file' /\ file'[L] = e
        BY <1>8
      <3> QED BY <1>3, <1>4, <1>5, <1>6, <2>1, <3>1
    <2>2. CASE q # p \/ u # t
      <3>1. ~ Idle(q, u) /\ pen'[q][u] = pen[q][u]
        BY <1>5, <2>2
      <3>2. PICK i \in DOMAIN file : file[i].rec = Rec(q, u) /\ file[i].part = 1
        BY <3>1 DEF HasBegun
      <3> QED BY <1>8, <3>1, <3>2 DEF HasBegun
    <2> QED BY <2>1, <2>2
  <1>15. HalfWritten'
    <2> SUFFICES ASSUME NEW i \in DOMAIN file', file'[i].part = 1, file'[i].of = 2, NEW q, q = file'[i].rec[1]
                 PROVE  \/ file'[i].rec \in failed
                        \/ \E k \in DOMAIN file' : file'[k].rec = file'[i].rec /\ file'[k].part = 2
                        \/ \E u \in Threads : ~ Idle(q, u)' /\ Rec(q, u)' = file'[i].rec /\ pen'[q][u].done = 1
      BY <1>1, SMTT(30) DEF HalfWritten, Idle
    <2>1. CASE i = L
      <3>1. q = p /\ ~ last /\ file'[i].rec = e.rec
        BY <1>2, <1>3, <1>8, <1>9, <2>1
      <3> QED BY <1>3, <1>4, <1>5, <1>6, <3>1
    <2>2. CASE i \in DOMAIN file
      <3>1. file'[i] = file[i] /\ q = file[i].rec[1] /\ q \in Loggers
        BY <1>8, <2>2
      <3>2. CASE file[i].rec \in failed \/ \E k \in DOMAIN file : file[k].rec = file[i].rec /\ file[k].part = 2
        BY <1>8, <2>2, <3>2
      <3>3. ASSUME NEW u \in Threads, ~ Idle(q, u), Rec(q, u) = file[i].rec, pen[q][u].done = 1,
                   q # p \/ u # t
            PROVE  ~ Idle(q, u)' /\ Rec(q, u)' = file[i].rec /\ pen'[q][u].done = 1
        BY <1>5, <3>1, <3>3
      <3>4. ASSUME ~ Idle(p, t), Rec(p, t) = file[i].rec, line.done = 1
            PROVE  file'[L].rec = file[i].rec /\ file'[L].part = 2 /\ L \in DOMAIN file'
        BY <1>3, <1>8, <1>9, <3>4
      <3> QED BY <1>9, <2>2, <3>1, <3>2, <3>3, <3>4 DEF HalfWritten
    <2> QED BY <1>8, <2>1, <2>2
  <1>16. Contiguous'
    <2> SUFFICES ASSUME NEW i \in DOMAIN file', file'[i].part = 1, file'[i].of = 2, i + 1 \in DOMAIN file',
                        file'[i + 1].rec[1] = file'[i].rec[1]
                 PROVE  file'[i + 1].rec = file'[i].rec \/ file'[i].rec \in failed
      BY <1>1 DEF Contiguous
    <2>0. i \in DOMAIN file /\ file'[i] = file[i] /\ i \in Nat
      BY <1>8
    <2>1. CASE i + 1 \in DOMAIN file
      BY <1>8, <2>0, <2>1 DEF Contiguous
    <2>2. CASE i + 1 = L
      <3>1. file[i].rec[1] = p
        BY <1>3, <1>8, <2>0, <2>2
      <3>2. ~ \E k \in DOMAIN file : file[k].rec = file[i].rec /\ file[k].part = 2
        <4> SUFFICES ASSUME NEW k \in DOMAIN file, file[k].rec = file[i].rec, file[k].part = 2 PROVE FALSE
          OBVIOUS
        <4>1. PICK j \in 1 .. k - 1 : file[j].rec = file[i].rec /\ file[j].part = 1
          BY DEF FileTidy
        <4>2. j \in DOMAIN file /\ j < k /\ k <= i
          BY <1>8, <2>2
        <4>3. j = i
          BY <2>0, <4>1, <4>2 DEF FileTidy
        <4> QED BY <2>0, <4>2, <4>3
      <3>3. CASE file[i].rec \in failed
        BY <2>0, <3>3
      <3>4. CASE file[i].rec \notin failed
        <4>1. PICK u \in Threads : ~ Idle(p, u) /\ Rec(p, u) = file[i].rec /\ pen[p][u].done = 1
          BY <2>0, <3>1, <3>2, <3>4 DEF HalfWritten
        <4>2. line.done = 1
          BY <1>1, <1>2, <4>1 DEF LockFree
        <4>3. u = t
          BY <1>1, <1>2, <1>9, <4>1, <4>2 DEF PensTidy
        <4> QED BY <1>3, <1>8, <1>9, <2>0, <2>2, <4>1, <4>3
      <3> QED BY <3>3, <3>4
    <2> QED BY <1>8, <2>1, <2>2
  <1> QED BY <1>7, <1>10, <1>12, <1>13, <1>14, <1>15, <1>16

\* Some threads give up what they were writing.
LEMMA DropKeeps ==
  ASSUME LogInv, NEW S \in SUBSET (Loggers \X Threads), UNCHANGED <<file, seq>>,
         pen' = [p \in Loggers |-> [u \in Threads |-> IF <<p, u>> \in S THEN None ELSE pen[p][u]]],
         \A r : r \in failed' <=> \/ r \in failed
                                \/ \E p \in Loggers, u \in Threads : <<p, u>> \in S /\ ~ Idle(p, u) /\ r = Rec(p, u)
  PROVE  LogInv'
  <1> USE PieceFacts DEF LogInv
  <1>1. ASSUME NEW q \in Loggers, NEW u \in Threads, ~ Idle(q, u)'
        PROVE  ~ Idle(q, u) /\ pen'[q][u] = pen[q][u] /\ Rec(q, u)' = Rec(q, u) /\ <<q, u>> \notin S
    BY <1>1 DEF LogTypes, Idle, Rec
  <1>2. ASSUME NEW q \in Loggers, NEW u \in Threads, ~ Idle(q, u)
        PROVE  \/ <<q, u>> \in S /\ Rec(q, u) \in failed'
               \/ ~ Idle(q, u)' /\ pen'[q][u] = pen[q][u] /\ Rec(q, u)' = Rec(q, u)
    BY <1>2 DEF LogTypes, Idle, Rec
  <1>3. \A r \in failed' : \/ r \in failed
                           \/ \E p \in Loggers, u \in Threads : <<p, u>> \in S /\ ~ Idle(p, u) /\ r = Rec(p, u)
    OBVIOUS
  <1>4. LogTypes'
    <2>1. ASSUME NEW r \in failed' PROVE r \in Loggers \X Nat
      <3>1. CASE r \in failed
        BY <3>1 DEF LogTypes
      <3>2. CASE \E p \in Loggers, u \in Threads : ~ Idle(p, u) /\ r = Rec(p, u)
        BY <3>2 DEF Rec
      <3> QED BY <1>3, <3>1, <3>2
    <2> QED BY <2>1 DEF LogTypes
  <1>5. PensTidy'
    <2> SUFFICES ASSUME NEW q \in Loggers, NEW u \in Threads, ~ Idle(q, u)'
                 PROVE  /\ pen'[q][u].n \in 1 .. seq[q] /\ pen'[q][u].done < pen'[q][u].of
                        /\ Rec(q, u)' \notin failed'
                        /\ \A v \in Threads : ~ Idle(q, v)' /\ v # u =>
                             /\ pen'[q][v].n # pen'[q][u].n
                             /\ pen'[q][v].done = 0 \/ pen'[q][u].done = 0
      BY DEF PensTidy
    <2>1. ~ Idle(q, u) /\ pen'[q][u] = pen[q][u] /\ Rec(q, u)' = Rec(q, u) /\ <<q, u>> \notin S
      BY <1>1
    <2>2. Rec(q, u) \notin failed'
      <3> SUFFICES ASSUME NEW p \in Loggers, NEW v \in Threads, <<p, v>> \in S, ~ Idle(p, v), Rec(q, u) = Rec(p, v)
                   PROVE  FALSE
        BY <1>3, <2>1 DEF PensTidy
      <3>1. q = p /\ pen[p][u].n = pen[p][v].n /\ u # v
        BY <2>1 DEF Rec
      <3> QED BY <2>1, <3>1 DEF PensTidy
    <2>3. ASSUME NEW v \in Threads, ~ Idle(q, v)', v # u
          PROVE  pen'[q][v].n # pen'[q][u].n /\ (pen'[q][v].done = 0 \/ pen'[q][u].done = 0)
      <3>1. ~ Idle(q, v) /\ pen'[q][v] = pen[q][v]
        BY <1>1, <2>3
      <3> QED BY <2>1, <2>3, <3>1 DEF PensTidy
    <2>4. pen[q][u].n \in 1 .. seq[q] /\ pen[q][u].done < pen[q][u].of
      BY <2>1 DEF PensTidy
    <2> QED BY <2>1, <2>2, <2>3, <2>4
  <1>6. FileTidy'
    <2>1. \A r \in failed' : r[2] <= seq[r[1]]
      <3> SUFFICES ASSUME NEW p \in Loggers, NEW u \in Threads, ~ Idle(p, u) PROVE Rec(p, u)[2] <= seq[Rec(p, u)[1]]
        BY <1>3 DEF FileTidy
      <3>1. pen[p][u].n \in 1 .. seq[p]
        BY DEF PensTidy
      <3> QED BY <3>1 DEF Rec, LogTypes
    <2>2. ASSUME NEW i \in DOMAIN file, file[i].part = file[i].of, file[i].rec \in failed' PROVE FALSE
      <3>1. file[i].rec \notin failed
        BY <2>2 DEF FileTidy
      <3>2. PICK p \in Loggers, u \in Threads : ~ Idle(p, u) /\ file[i].rec = Rec(p, u)
        BY <1>3, <2>2, <3>1
      <3> QED BY <2>2, <3>2 DEF Matching
    <2> QED BY <2>1, <2>2 DEF FileTidy
  <1>7. Matching' /\ HasBegun'
    BY <1>1 DEF Matching, HasBegun
  <1>8. HalfWritten'
    <2> SUFFICES ASSUME NEW i \in DOMAIN file, file[i].part = 1, file[i].of = 2
                 PROVE  \/ file[i].rec \in failed'
                        \/ \E k \in DOMAIN file : file[k].rec = file[i].rec /\ file[k].part = 2
                        \/ \E u \in Threads : /\ ~ Idle(file[i].rec[1], u)' /\ Rec(file[i].rec[1], u)' = file[i].rec
                                              /\ pen'[file[i].rec[1]][u].done = 1
      BY DEF HalfWritten
    <2>1. ASSUME NEW u \in Threads, ~ Idle(file[i].rec[1], u), Rec(file[i].rec[1], u) = file[i].rec,
                 pen[file[i].rec[1]][u].done = 1
          PROVE  \/ file[i].rec \in failed'
                 \/ /\ ~ Idle(file[i].rec[1], u)' /\ Rec(file[i].rec[1], u)' = file[i].rec
                    /\ pen'[file[i].rec[1]][u].done = 1
      BY <1>2, <2>1
    <2>2. failed \subseteq failed'
      OBVIOUS
    <2> QED BY <2>1, <2>2 DEF HalfWritten
  <1>9. Contiguous'
    BY DEF Contiguous
  <1> QED BY <1>4, <1>5, <1>6, <1>7, <1>8, <1>9

\* Nothing happens to the log.
LEMMA LogStays ==
  ASSUME LogInv, UNCHANGED log
  PROVE  LogInv'
  <1> USE DEF log, LogInv, Idle, Rec
  <1>1. LogTypes' /\ PensTidy' /\ FileTidy'
    BY DEF LogTypes, PensTidy, FileTidy
  <1>2. Matching' /\ HasBegun' /\ HalfWritten' /\ Contiguous'
    BY DEF Matching, HasBegun, HalfWritten, Contiguous
  <1> QED BY <1>1, <1>2

\* Everything that happens to the log.
LEMMA LogKeeps ==
  ASSUME LogInv,
         \/ \E L \in SUBSET Loggers : Silence(L)
         \/ \E p \in Loggers, t \in Threads : \/ \E of \in {1, 2} : Number(p, t, of)
                                              \/ Write(p, t) \/ WriteFails(p, t)
  PROVE  LogInv'
  <1>1. ASSUME NEW L \in SUBSET Loggers, Silence(L) PROVE LogInv'
    <2> DEFINE S == L \X Threads
    <2>1. pen' = [p \in Loggers |-> [u \in Threads |-> IF <<p, u>> \in S THEN None ELSE pen[p][u]]]
      BY <1>1 DEF Silence, LogInv, LogTypes
    <2>2. \A r : r \in failed' <=> \/ r \in failed
                                 \/ \E p \in Loggers, u \in Threads : <<p, u>> \in S /\ ~ Idle(p, u) /\ r = Rec(p, u)
      <3>1. \A r : r \in failed' <=> \/ r \in failed
                                   \/ \E p \in L : r \in {<<p, pen[p][t].n>> : t \in {u \in Threads : ~ Idle(p, u)}}
        BY <1>1 DEF Silence
      <3> QED BY <3>1 DEF Rec
    <2>3. S \in SUBSET (Loggers \X Threads) /\ UNCHANGED <<file, seq>>
      BY <1>1 DEF Silence
    <2> HIDE DEF S
    <2> QED BY <2>1, <2>2, <2>3, DropKeeps
  <1>2. ASSUME NEW p \in Loggers, NEW t \in Threads, WriteFails(p, t) PROVE LogInv'
    <2> DEFINE S == {<<p, t>>}
    <2>1. pen' = [q \in Loggers |-> [u \in Threads |-> IF <<q, u>> \in S THEN None ELSE pen[q][u]]]
      BY <1>2 DEF WriteFails, LogInv, LogTypes
    <2>2. \A r : r \in failed' <=> \/ r \in failed
                                 \/ \E q \in Loggers, u \in Threads : <<q, u>> \in S /\ ~ Idle(q, u) /\ r = Rec(q, u)
      BY <1>2 DEF WriteFails, Rec
    <2>3. S \in SUBSET (Loggers \X Threads) /\ UNCHANGED <<file, seq>>
      BY <1>2 DEF WriteFails
    <2> HIDE DEF S
    <2> QED BY <2>1, <2>2, <2>3, DropKeeps
  <1> QED BY <1>1, <1>2, NumberKeeps, WriteKeeps

\* The records a reader misses: each follows one that was torn or crossed, or
\* was crossed itself.
LEMMA Missed ==
  ASSUME LogInv, NEW r \in Completed \ Readable
  PROVE  \/ r \in Crossed
         \/ \E j \in Begun : file[j].rec \in Torn \cup Crossed /\ r = file[j + 1].rec
  <1> USE PieceFacts DEF LogInv
  <1>1. PICK m \in DOMAIN file : file[m].rec = r /\ file[m].part = file[m].of
    BY DEF Completed
  <1>2. PICK i \in DOMAIN file : file[i].rec = r /\ file[i].part = 1 /\ i <= m /\ (i = m \/ file[i].of = 2)
    <2>1. CASE file[m].part = 1
      BY <1>1, <2>1
    <2>2. CASE file[m].part = 2
      <3>1. PICK k \in 1 .. m - 1 : file[k].rec = r /\ file[k].part = 1 /\ file[k].of = 2
        BY <1>1, <2>2 DEF FileTidy
      <3>2. k \in DOMAIN file /\ k <= m
        OBVIOUS
      <3> QED BY <3>1, <3>2
    <2> QED BY <2>1, <2>2
  <1>3. i \in Begun /\ ~ WholeAt(i)
    BY <1>2 DEF Begun, Readable
  <1>4. CASE i # 1 /\ file[i - 1].part # file[i - 1].of
    <2> DEFINE j == i - 1
    <2>1. j \in DOMAIN file /\ j + 1 = i /\ j # i
      BY <1>4
    <2> HIDE DEF j
    <2>2. file[j].part = 1 /\ file[j].of = 2 /\ j \in Begun
      BY <1>4, <2>1 DEF FileTidy, Begun, j
    <2>3. file[i].rec # file[j].rec
      BY <1>2, <2>1, <2>2 DEF FileTidy
    <2>4. CASE file[i].rec[1] = file[j].rec[1]
      <3>1. file[j].rec \in failed
        BY <2>1, <2>2, <2>3, <2>4 DEF Contiguous
      <3> QED BY <1>2, <2>1, <2>2, <3>1 DEF Torn
    <2>5. CASE file[i].rec[1] # file[j].rec[1]
      BY <1>2, <2>1, <2>2, <2>5 DEF Crossed
    <2> QED BY <2>4, <2>5
  <1>5. CASE i = 1 \/ file[i - 1].part = file[i - 1].of
    <2>1. file[i].of = 2 /\ ~ (i + 1 \in DOMAIN file /\ file[i + 1].rec = r)
      <3>1. PICK k \in 1 .. file[i].of - 1 : ~ (i + k \in DOMAIN file /\ file[i + k].rec = file[i].rec)
        BY <1>3, <1>5 DEF WholeAt
      <3>2. file[i].of = 2 /\ k = 1
        BY <3>1
      <3> QED BY <1>2, <3>1, <3>2
    <2>2. i + 1 \in DOMAIN file
      BY <1>1, <1>2, <2>1
    <2>3. r \notin failed
      BY <1>1 DEF FileTidy
    <2>4. file[i + 1].rec[1] # file[i].rec[1]
      BY <1>2, <2>1, <2>2, <2>3 DEF Contiguous
    <2> QED BY <1>2, <1>3, <2>1, <2>2, <2>4 DEF Crossed
  <1> QED BY <1>4, <1>5

\* Each record that was torn or crossed has one successor, and a crossed one
\* is missed itself: a reader misses no more than these.
LEMMA LogIsHonest ==
  ASSUME LogInv
  PROVE  LogHonest
  <1> USE PieceFacts DEF LogInv
  <1> DEFINE Doubtful == Torn \cup Crossed
             Heads == {j \in Begun : file[j].rec \in Doubtful}
             Next1 == {file[j + 1].rec : j \in Heads}
             All == {file[j].rec : j \in DOMAIN file}
  <1>2. IsFiniteSet(DOMAIN file)
    <2>1. IsFiniteSet(1 .. Len(file))
      <3>1. 1 \in Int /\ Len(file) \in Int
        OBVIOUS
      <3> QED BY <3>1, FS_Interval, Zenon
    <2> QED BY <2>1
  <1>3. IsFiniteSet(All)
    <2>1. [j \in DOMAIN file |-> file[j].rec] \in Surjection(DOMAIN file, All)
      BY DEF Surjection
    <2> QED BY <1>2, <2>1, FS_Surjection
  <1>4. Torn \subseteq All /\ Crossed \subseteq All /\ Doubtful \subseteq All
    BY DEF Torn, Crossed, Begun
  <1>5. IsFiniteSet(Torn) /\ IsFiniteSet(Crossed) /\ IsFiniteSet(Doubtful)
    BY <1>3, <1>4, FS_Subset
  <1>6. IsFiniteSet(Heads)
    BY <1>2, FS_Subset DEF Begun
  <1>7. Cardinality(Heads) <= Cardinality(Doubtful)
    <2>0. \A j, k \in Heads : file[j].rec = file[k].rec => j = k
      BY DEF FileTidy, Begun
    <2>1. [j \in Heads |-> file[j].rec] \in Injection(Heads, Doubtful)
      <3> HIDE DEF Doubtful
      <3> QED BY <2>0 DEF Injection, IsInjective
    <2> QED BY <1>5, <2>1, FS_Injection
  <1>8. IsFiniteSet(Next1) /\ Cardinality(Next1) <= Cardinality(Heads)
    <2>1. [j \in Heads |-> file[j + 1].rec] \in Surjection(Heads, Next1)
      BY DEF Surjection
    <2> QED BY <1>6, <2>1, FS_Surjection
  <1>9. Completed \ Readable \subseteq Next1 \cup Crossed
    BY Missed
  <1> HIDE DEF Doubtful, Heads, Next1
  <1>10. Cardinality(Doubtful) <= Cardinality(Torn) + Cardinality(Crossed)
    <2>1. Cardinality(Torn \cap Crossed) \in Nat
      BY <1>5, FS_Subset, FS_CardinalityType
    <2>2. Cardinality(Doubtful) = Cardinality(Torn) + Cardinality(Crossed) - Cardinality(Torn \cap Crossed)
      BY <1>5, FS_Union DEF Doubtful
    <2> QED BY <1>5, <2>1, <2>2, FS_CardinalityType
  <1>11. IsFiniteSet(Next1 \cup Crossed)
         /\ Cardinality(Next1 \cup Crossed) <= Cardinality(Next1) + Cardinality(Crossed)
    <2>1. Cardinality(Next1 \cap Crossed) \in Nat
      BY <1>5, FS_Subset, FS_CardinalityType
    <2>2. IsFiniteSet(Next1 \cup Crossed)
          /\ Cardinality(Next1 \cup Crossed)
               = Cardinality(Next1) + Cardinality(Crossed) - Cardinality(Next1 \cap Crossed)
      BY <1>5, <1>8, FS_Union
    <2>3. Cardinality(Next1) \in Nat /\ Cardinality(Crossed) \in Nat
      BY <1>5, <1>8, FS_CardinalityType
    <2> QED BY <2>1, <2>2, <2>3
  <1>12. Cardinality(Completed \ Readable) <= Cardinality(Next1 \cup Crossed)
    BY <1>9, <1>11, FS_Subset
  <1>13. /\ Cardinality(Torn) \in Nat /\ Cardinality(Crossed) \in Nat /\ Cardinality(Doubtful) \in Nat
         /\ Cardinality(Heads) \in Nat /\ Cardinality(Next1) \in Nat
         /\ Cardinality(Next1 \cup Crossed) \in Nat /\ Cardinality(Completed \ Readable) \in Nat
    BY <1>5, <1>6, <1>8, <1>9, <1>11, FS_Subset, FS_CardinalityType
  <1>14. Cardinality(Completed \ Readable) <= Cardinality(Torn) + 2 * Cardinality(Crossed)
    BY <1>7, <1>8, <1>10, <1>11, <1>12, <1>13
  <1> QED BY <1>14 DEF LogHonest

-----------------------------------------------------------------------------
(* Every step keeps the log *)

\* The loggers of a process.
LEMMA LoggersOf ==
  ASSUME NEW p \in Processes
  PROVE  Cli(p) \in Loggers /\ Tools(p) \in Loggers
  BY HomeAssumption DEF HomeAssumption, Cli, Tools

\* A step of ArcHome does one thing to the log, or nothing.
LEMMA LogMoves ==
  ASSUME Placed, Watching, LogInv, [Next]_vars
  PROVE  LogInv'
  <1> USE DEF log
  <1>0. ASSUME NEW p \in Processes, NEW t \in Threads, NEW of \in left.lengths,
               Number(Cli(p), t, of) \/ Number(Tools(p), t, of)
        PROVE  LogInv'
    BY <1>0, LogKeeps, LoggersOf DEF Placed, BudgetRecords
  <1>1. ASSUME NEW p \in Processes, Frees(p) PROVE LogInv'
    BY <1>1, LogKeeps, LoggersOf DEF Frees
  <1>2. ASSUME UNCHANGED log PROVE LogInv'
    BY <1>2, LogStays
  <1>3. CASE Crash \/ PidReused \/ Serving \/ Doing
    BY <1>1, <1>2, <1>3, Kinds DEF Crash, Dies, PidReused, Serving, Doing, Lost
  <1>4. CASE Controlling \/ Managing \/ Probing \/ UNCHANGED vars
    BY <1>2, <1>4 DEF Controlling, Managing, Probing, vars
  <1>5. CASE Killing
    <2>1. ASSUME NEW k \in Kills, NEW p \in todo[k], KillOne(k, p) PROVE LogInv'
      BY <1>1, <1>2, <2>1 DEF KillOne, Dies, Watching, WatchTypes
    <2>2. ASSUME NEW k \in Kills, NEW p \in todo[k], ReapOne(k, p), UNCHANGED log PROVE LogInv'
      BY <1>2, <2>2
    <2> QED BY <1>2, <1>5, <2>1, <2>2 DEF Killing
  <1>6. CASE ChangingConfig
    BY <1>1, <1>2, <1>6, Kinds DEF ChangingConfig, UseFails, Dies
  <1>7. ASSUME NEW p \in Processes, Ending(p) \/ Loading(p) PROVE LogInv'
    BY <1>0, <1>1, <1>2, <1>7, HomeAssumption DEF HomeAssumption, Ending, Recorded, Exit, Loading
  <1>8. ASSUME NEW p \in Processes, NEW t \in Threads, ToolRecord(p, t) \/ Logging(p, t) PROVE LogInv'
    BY <1>0, <1>8, LogKeeps, LoggersOf DEF ToolRecord, Logging
  <1> QED BY <1>3, <1>4, <1>5, <1>6, <1>7, <1>8 DEF Next

(* A reader misses no more than the torn and the crossed records explain:  *)
(* a failed write costs one record more, a crossing two, whatever threads  *)
(* and processes write at once and wherever they are killed.               *)
THEOREM ReadersMissLittle == Spec => []LogHonest
  <1>1. Init => LogInv
    BY LogStarts DEF Init
  <1>2. IInv /\ LogInv /\ [Next]_vars => LogInv'
    BY LogMoves DEF IInv
  <1>3. LogInv => LogHonest
    BY LogIsHonest
  <1> QED BY <1>1, <1>2, <1>3, Invariance, PTL DEF Spec
==============================================================================
