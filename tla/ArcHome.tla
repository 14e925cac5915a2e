------------------------------ MODULE ArcHome ------------------------------
(***************************************************************************)
(* The ARC processes of one user and the files of ~/.arc they share: the   *)
(* endpoint file of `arc serve` and `arc ui`, which `arc do` looks up; the *)
(* PID files of the processes that hold the mouse, which `arc kill` reads; *)
(* config.yaml, which `arc model use` rewrites; the models' weights, which *)
(* `arc model pull` and `remove` change and every model load reads;        *)
(* hardware.json, which `arc probe` and `arc doctor` write and every load  *)
(* reads to choose a backend; and the audit log (AuditLog), to which every *)
(* command adds a line at its end.                                         *)
(*                                                                         *)
(* Abstractions: a process is killed with its tree in one step; a weight   *)
(* file appears whole, for the hub client moves it into place; a task is   *)
(* one effect; the configuration is the model chosen for each role.        *)
(***************************************************************************)
EXTENDS AuditLog

CONSTANTS Processes,
          Garbled,             \* file content that YAML does not parse
          Serves, Dos, Kills, Uses, Pulls, Removes, Probes,   \* the commands, a process each
          Port,              \* Port[s]: the port of server s
          Choice,            \* Choice[u]: the [role, key] `use` was given
          Target,            \* Target[p]: the model a pull or remove is about
          Forcing,           \* pulls given --force
          Roles, Keys, Shards,
          SingleFile,        \* entries that name their one weight file
          Declared, Forced, AutoSelect, Machine, Requires,  \* see ChooseBackend
          Budgets            \* per behaviour: the commands run and how often what happens

\* The commands, what config.yaml may hold and what a behaviour may be given.
Commands == <<Serves, Dos, Kills, Uses, Pulls, Removes, Probes>>
Choices == [Roles -> Keys \cup {None}]
BudgetRecords == [commands : SUBSET Processes, config : Choices \cup {Garbled},
                  weights : [Keys -> SUBSET Shards], probed : BOOLEAN, lengths : SUBSET {1, 2},
                  crashes : Nat, reuses : Nat, late : Nat, errors : Nat, sessions : Nat,
                  records : Nat, failures : Nat]

ASSUME HomeAssumption ==
  /\ Processes = UNION {Commands[i] : i \in 1 .. 7}
  /\ \A i, j \in 1 .. 7 : i # j => Commands[i] \cap Commands[j] = {}
  /\ None \notin Processes /\ "first" \notin Processes /\ None # "first"
  /\ {"main", "tool"} = Threads
  /\ Loggers = Processes \X {"cli", "tools"}
  /\ "chat" \in Roles
  /\ \A u \in Uses : Choice[u].role \in Roles /\ Choice[u].key \in Keys
  /\ \A p \in Pulls \cup Removes : Target[p] \in Keys
  /\ SingleFile \subseteq Keys
  /\ Budgets \subseteq BudgetRecords

VARIABLES
  at,        \* process -> where its command is
  endpoint,  \* server.json: the server it names, or None
  pidfile,   \* process -> its PID file: none, empty (just opened) or full
  held,      \* processes whose control session is active
  opening,   \* processes registering a control session
  leaving,   \* process -> sessions given back whose PID file is still to go
  exposed,   \* processes that took a session with an earlier one's file still to go
  strangers, \* processes that ended and whose PID another program now has
  conn,      \* client -> the server it talks to, or None
  job,       \* client -> its request at the server: none, queued, running or done
  ran,       \* client -> who began its task
  gave,      \* client -> how its call to the server ended
  todo,      \* kill -> PID files still to go through
  due,       \* kill -> processes in control when it began, and ever since, and that
             \* the system let it signal
  content,   \* inode -> configuration in it
  config, tmp, \* inodes of config.yaml and config.yaml.tmp
  want, hand,  \* use -> what it will write, and the inode it has open
  chosen, overlapped, \* what finished `use`s asked for; whether two ran at once
  weights,   \* model -> its weight files under ~/.arc/models
  source,    \* process -> model it loads, by which backend and where from
  loads,     \* failed loads: the model, the backend and where from
  unsettled, \* models partly present, or deleted, at some time
  hardware, scratch, \* inodes of hardware.json and hardware.json.tmp, or None
  whole, fd,        \* inodes that hold a complete report; probe -> the inode it has open
  crowded,           \* whether two probes wrote at once
  left       \* budget of the behaviour

endpointing == <<endpoint, conn, job, ran, gave>>
killing == <<pidfile, held, opening, leaving, exposed, strangers, todo, due>>
configuring == <<content, config, tmp, want, hand, chosen, overlapped>>
modelling == <<weights, source, loads, unsettled>>
probing == <<hardware, scratch, whole, fd, crowded>>
vars == <<at, log, endpointing, killing, configuring, modelling, probing, left>>

NoChoice == [r \in Roles |-> None]
Inodes == Uses \cup {"first"}

Init ==
  /\ LogInit
  /\ at = [p \in Processes |-> "off"]
  /\ endpoint = None
  /\ pidfile = [p \in Processes |-> "none"] /\ held = {} /\ strangers = {}
  /\ opening = {} /\ leaving = [p \in Processes |-> 0] /\ exposed = {}
  /\ conn = [d \in Dos |-> None] /\ job = [d \in Dos |-> "none"]
  /\ ran = [d \in Dos |-> {}] /\ gave = [d \in Dos |-> "none"]
  /\ todo = [k \in Kills |-> {}] /\ due = [k \in Kills |-> {}]
  /\ left \in Budgets
  /\ content = [i \in Inodes |-> IF i = "first" THEN left.config ELSE NoChoice]
  /\ config = "first" /\ tmp = None
  /\ want = [u \in Uses |-> NoChoice] /\ hand = [u \in Uses |-> None]
  /\ chosen = left.config /\ overlapped = FALSE
  /\ weights = left.weights
  /\ source = [p \in Processes |-> None] /\ loads = {}
  /\ unsettled = {m \in Keys : weights[m] \notin {{}, Shards}}
  /\ hardware = (IF left.probed THEN "first" ELSE None) /\ scratch = None
  /\ whole = {"first"} /\ fd = [h \in Probes |-> None] /\ crowded = FALSE

-----------------------------------------------------------------------------
(* Processes                                                               *)

Ended == {"off", "gone", "crashed"}
Alive(p) == at[p] \notin Ended

\* kill(pid, 0), as ProcessEntry.alive and running_endpoint ask it.
PidAlive(p) == Alive(p) \/ p \in strangers

Go(p, from, to) == at[p] = from /\ at' = [at EXCEPT ![p] = to]
Start(p, to) == p \in left.commands /\ Go(p, "off", to)

\* The loggers of a process: main()'s for the command (__main__.py:1314), and that of the
\* agent or of the voice session (__main__.py:903, server.py:131, 168).
Cli(p) == <<p, "cli">>
Tools(p) == <<p, "tools">>

Spend(what) == left[what] > 0 /\ left' = [left EXCEPT ![what] = @ - 1]

\* The process is gone between two steps: SIGKILL, a crash, an uncaught exception.
Frees(p) == /\ Silence({Cli(p), Tools(p)})
            /\ held' = held \ {p} /\ opening' = opening \ {p}
            /\ leaving' = [leaving EXCEPT ![p] = 0]
            /\ due' = [k \in Kills |-> due[k] \ {p}]
Dies(p) == at' = [at EXCEPT ![p] = "crashed"] /\ Frees(p)

Crash == /\ Spend("crashes")
         /\ \E p \in Processes : Alive(p) /\ Dies(p)
         /\ UNCHANGED <<endpointing, pidfile, exposed, strangers, todo, configuring, modelling, probing>>

PidReused == /\ Spend("reuses")
             /\ \E p \in Processes : /\ at[p] \in {"gone", "crashed"} /\ p \notin strangers
                                     /\ strangers' = strangers \cup {p}
             /\ UNCHANGED <<at, log, endpointing, pidfile, held, opening, leaving, exposed, todo, due,
                            configuring, modelling, probing>>

\* main(): the invocation is recorded when the command is over, and the process exits.
Recorded(p) == /\ Go(p, "ending", "recording")
               /\ \E of \in left.lengths : Number(Cli(p), "main", of)
Exit(p) == /\ Go(p, "recording", "gone") /\ Idle(Cli(p), "main")
           /\ Frees(p)
           /\ UNCHANGED <<pidfile, exposed, strangers, todo>>
Ending(p) == /\ \/ Recorded(p) /\ UNCHANGED killing
                \/ Exit(p)
             /\ UNCHANGED <<endpointing, configuring, modelling, probing, left>>

\* tool records: of an agent in this process and of the watcher of its control session, of
\* the voice session's threads in a server
ToolRecord(p, t) == /\ Spend("records")
                    /\ at[p] = (IF p \in Serves THEN "up" ELSE "running")
                    /\ \E of \in left.lengths : Number(Tools(p), t, of)
                    /\ UNCHANGED <<at, endpointing, killing, configuring, modelling, probing>>

Logging(p, t) == /\ \E l \in {Cli(p), Tools(p)} :
                      \/ Write(l, t) /\ UNCHANGED left
                      \/ WriteFails(l, t) /\ Spend("failures")
                 /\ UNCHANGED <<at, endpointing, killing, configuring, modelling, probing>>

-----------------------------------------------------------------------------
(* Loading the chat model (router.load_model)                              *)

\* available_accelerators: without a hardware.json that parses, the CPU alone
Accelerators == IF hardware \in whole THEN Machine ELSE {"cpu"}

\* choose_backend: forced, the entry's own if the machine has it, else llama.cpp.
Backend(accelerators) ==
  IF Forced # None THEN Forced
  ELSE IF ~ AutoSelect \/ Requires[Declared] \cap accelerators # {} THEN Declared
  ELSE "llamacpp"
ChooseBackend == Backend(Accelerators)

\* Mutant: the directory is enough.
DirectoryThere(m) == weights[m] # {} \/ \E p \in Pulls : Target[p] = m /\ at[p] # "off"

\* is_downloaded: one weight file is enough.
IsDownloaded(m) == weights[m] # {}

\* _source_for: llama.cpp has only the disk.
Source(m) == IF ChooseBackend = "llamacpp" \/ IsDownloaded(m) THEN "disk" ELSE "hub"

\* Config.load and resolve: no configuration, no model chosen, or the one to load.
ChooseModel(p, from) ==
  /\ LET c == content[config]
     IN IF c = Garbled \/ c["chat"] = None
        THEN Go(p, from, "ending") /\ UNCHANGED source
        ELSE /\ Go(p, from, "loading")
             /\ source' = [source EXCEPT ![p] =
                              [key |-> c["chat"], with |-> ChooseBackend, from |-> Source(c["chat"])]]
  /\ UNCHANGED <<weights, loads, unsettled, left>>

\* MLX loads a whole model from the disk, and whatever the hub sends it; llama.cpp wants the
\* one file an entry may name, and what the hub client puts on the disk for an entry that
\* names none is a directory (llamacpp.py:65-66).
Loads(l) == \/ l.with # "llamacpp" /\ (l.from = "hub" \/ weights[l.key] = Shards)
            \/ l.with = "llamacpp" /\ l.key \in SingleFile /\ weights[l.key] = Shards

LoadModel(p, to) ==
  /\ at[p] = "loading"
  /\ \/ Loads(source[p]) /\ Go(p, "loading", to) /\ UNCHANGED <<loads, left>>
     \/ /\ Go(p, "loading", "ending")
        /\ loads' = loads \cup {source[p]}
        /\ IF source[p].from = "hub" THEN Spend("errors") ELSE ~ Loads(source[p]) /\ UNCHANGED left
  /\ UNCHANGED <<weights, source, unsettled>>

Loading(p) ==
  /\ \/ p \in Dos /\ (ChooseModel(p, "local") \/ LoadModel(p, "running"))
     \/ p \in Serves /\ (ChooseModel(p, "bound") \/ LoadModel(p, "warm"))
  /\ UNCHANGED <<log, endpointing, killing, configuring, probing>>

-----------------------------------------------------------------------------
(* arc serve, arc ui                                                       *)

Listening == {"bound", "loading", "warm", "up", "closing", "ending", "recording"}
ListensOn(port) == {s \in Serves : Port[s] = port /\ at[s] \in Listening}

\* ThreadingHTTPServer binds first: a second server on the port dies here.
Bind(s) == /\ s \in left.commands /\ at[s] = "off"
           /\ at' = [at EXCEPT ![s] = IF ListensOn(Port[s]) = {} THEN "bound" ELSE "crashed"]
           /\ UNCHANGED endpointing

\* write_endpoint, then serve_forever on its thread
Advertise(s) == /\ Go(s, "warm", "up")
                /\ endpoint' = s
                /\ UNCHANGED <<conn, job, ran, gave>>

\* Ctrl-C: clear_endpoint, whoever wrote it, ...
Close(s) == /\ Go(s, "up", "closing")
            /\ endpoint' = None
            /\ UNCHANGED <<conn, job, ran, gave>>

\* ... then server.shutdown(): connections are no longer accepted, the socket stays.
Shutdown(s) == Go(s, "closing", "ending") /\ UNCHANGED endpointing

\* _handle_task: the request thread runs the agent, without an audit log.
Handle(d) == /\ job[d] = "queued" /\ at[conn[d]] \in {"up", "closing"}
             /\ job' = [job EXCEPT ![d] = "running"]
             /\ ran' = [ran EXCEPT ![d] = @ \cup {"server"}]
             /\ UNCHANGED <<at, endpoint, conn, gave, left>>

\* Mutant: the answer does not carry the field the client looks for.
AnswerUnnamed(d) ==
  /\ job[d] = "running" /\ Alive(conn[d])
  /\ job' = [job EXCEPT ![d] = "done"]
  /\ IF at[d] = "waiting"
     THEN Go(d, "waiting", "local") /\ gave' = [gave EXCEPT ![d] = "answer"]
     ELSE UNCHANGED <<at, gave>>
  /\ UNCHANGED <<endpoint, conn, ran, left>>

\* The answer, or what the agent raised as an error status, which urlopen raises again.
Answer(d) ==
  /\ job[d] = "running" /\ Alive(conn[d])
  /\ job' = [job EXCEPT ![d] = "done"]
  /\ \/ at[d] # "waiting" /\ UNCHANGED <<at, gave, left>>
     \/ Go(d, "waiting", "ending") /\ gave' = [gave EXCEPT ![d] = "answer"] /\ UNCHANGED left
     \/ Go(d, "waiting", "local") /\ gave' = [gave EXCEPT ![d] = "error"] /\ Spend("errors")
  /\ UNCHANGED <<endpoint, conn, ran>>

Serving == /\ \/ \E s \in Serves : /\ (Bind(s) \/ Advertise(s) \/ Close(s) \/ Shutdown(s))
                                  /\ UNCHANGED left
              \/ \E d \in Dos : Handle(d) \/ Answer(d)
           /\ UNCHANGED <<log, killing, configuring, modelling, probing>>

-----------------------------------------------------------------------------
(* arc do                                                                  *)

\* running_endpoint
Look(d) == /\ Start(d, IF endpoint = None THEN "local"
                       ELSE IF PidAlive(endpoint) THEN "dial" ELSE "stale")
           /\ conn' = [conn EXCEPT ![d] = endpoint]
           /\ UNCHANGED <<endpoint, job, ran, gave>>
ClearStale(d) == /\ Go(d, "stale", "local")
                 /\ endpoint' = None
                 /\ UNCHANGED <<conn, job, ran, gave>>

\* urlopen: refused, or queued at whichever server listens on that port
Dial(d) == LET there == ListensOn(Port[conn[d]])
           IN /\ at[d] = "dial"
              /\ \/ /\ there = {} /\ Go(d, "dial", "local")
                    /\ gave' = [gave EXCEPT ![d] = "refused"]
                    /\ UNCHANGED <<conn, job>>
                 \/ \E s \in there : /\ Go(d, "dial", "waiting")
                                     /\ conn' = [conn EXCEPT ![d] = s]
                                     /\ job' = [job EXCEPT ![d] = "queued"]
                                     /\ UNCHANGED gave
              /\ UNCHANGED <<endpoint, ran>>

\* After 600 s the client runs the task itself; the server is not told.
Late(d) == /\ Go(d, "waiting", "local")
           /\ gave' = [gave EXCEPT ![d] = "late"]
           /\ UNCHANGED <<endpoint, conn, job, ran>>

\* _run_task in this process
RunTask(d) == /\ Go(d, "running", "ending")
              /\ ran' = [ran EXCEPT ![d] = @ \cup {"local"}]
              /\ UNCHANGED <<endpoint, conn, job, gave>>

\* The server is gone: RemoteDisconnected, which is no URLError, ends the client.
Lost(d) == /\ at[d] = "waiting" /\ ~ Alive(conn[d])
           /\ Dies(d)
           /\ gave' = [gave EXCEPT ![d] = "lost"]
           /\ UNCHANGED <<endpoint, conn, job, ran, pidfile, exposed, strangers, todo, left>>

Doing == /\ \/ \E d \in Dos : /\ (Look(d) \/ ClearStale(d) \/ Dial(d) \/ RunTask(d))
                               /\ UNCHANGED <<log, killing, left>>
            \/ \E d \in Dos : Late(d) /\ Spend("late") /\ UNCHANGED <<log, killing>>
            \/ \E d \in Dos : Lost(d)
         /\ UNCHANGED <<configuring, modelling, probing>>

-----------------------------------------------------------------------------
(* Control sessions and arc kill                                           *)

TaskRuns(p) == \/ p \in Dos /\ at[p] = "running"
               \/ p \in Serves /\ Alive(p) /\ \E d \in Dos : conn[d] = p /\ job[d] = "running"

\* ControlSession.acquire and KillSwitch.register: write_text creates or empties the file,
\* then writes it; input comes after.
OpenPidFile(p) == /\ TaskRuns(p) /\ p \notin held \cup opening /\ Spend("sessions")
                  /\ opening' = opening \cup {p}
                  /\ pidfile' = [pidfile EXCEPT ![p] = "empty"]
                  /\ exposed' = IF leaving[p] = 0 THEN exposed ELSE exposed \cup {p}
                  /\ UNCHANGED <<held, leaving, strangers, todo, due>>
WritePidFile(p) == /\ p \in opening
                   /\ opening' = opening \ {p}
                   /\ \/ /\ pidfile' = [pidfile EXCEPT ![p] = IF @ = "none" THEN @ ELSE "full"]
                         /\ held' = held \cup {p} /\ UNCHANGED left
                      \/ Spend("errors") /\ UNCHANGED <<pidfile, held>>
                   /\ UNCHANGED <<leaving, exposed, strangers, todo, due>>

\* ControlSession.release: the session is inactive first, ...
GiveBack(p) == /\ p \in held
               /\ held' = held \ {p}
               /\ due' = [k \in Kills |-> due[k] \ {p}]
               /\ leaving' = [leaving EXCEPT ![p] = @ + 1]
               /\ UNCHANGED <<pidfile, opening, exposed, strangers, todo, left>>

\* ... and the file goes once the overlay has stopped: the file of that name, whosever it is.
Unregister(p) == /\ leaving[p] > 0
                 /\ leaving' = [leaving EXCEPT ![p] = @ - 1]
                 /\ pidfile' = [pidfile EXCEPT ![p] = "none"]
                 /\ UNCHANGED <<held, opening, exposed, strangers, todo, due, left>>

\* KillSwitch.registered: files that cannot be read are passed over.
Registered == {p \in Processes : pidfile[p] = "full"}

Reap(k) == /\ Start(k, "reaping")
           /\ todo' = [todo EXCEPT ![k] = Registered]
           /\ due' = [due EXCEPT ![k] = held]
           /\ UNCHANGED <<pidfile, held, opening, leaving, exposed, strangers>>

\* Mutant: the file goes without asking whether its process has gone.
ReapAnyOne(k, p) == /\ at[k] = "reaping" /\ p \in todo[k]
                    /\ todo' = [todo EXCEPT ![k] = @ \ {p}]
                    /\ pidfile' = [pidfile EXCEPT ![p] = "none"]
                    /\ UNCHANGED <<at, held, opening, leaving, exposed, strangers, due>>

\* reap_stale, an entry
ReapOne(k, p) == /\ at[k] = "reaping" /\ p \in todo[k]
                 /\ todo' = [todo EXCEPT ![k] = @ \ {p}]
                 /\ pidfile' = [pidfile EXCEPT ![p] = IF PidAlive(p) THEN @ ELSE "none"]
                 /\ UNCHANGED <<at, held, opening, leaving, exposed, strangers, due>>
List(k) == /\ Go(k, "reaping", "killing") /\ todo[k] = {}
           /\ todo' = [todo EXCEPT ![k] = Registered]
           /\ UNCHANGED <<pidfile, held, opening, leaving, exposed, strangers, due>>

\* kill_all, an entry: SIGKILL to whoever has the PID, then the file goes; or an OSError, of
\* which a warning is logged and the file stays.
KillOne(k, p) ==
  /\ at[k] = "killing" /\ p \in todo[k]
  /\ todo' = [todo EXCEPT ![k] = @ \ {p}]
  /\ \/ /\ pidfile' = [pidfile EXCEPT ![p] = "none"]
        /\ IF Alive(p) THEN Dies(p) ELSE UNCHANGED <<at, log, held, opening, leaving, due>>
        /\ strangers' = strangers \ {p}
        /\ UNCHANGED left
     \/ /\ PidAlive(p) /\ Spend("errors")
        /\ due' = [due EXCEPT ![k] = @ \ {p}]
        /\ UNCHANGED <<at, log, pidfile, held, opening, leaving, strangers>>
  /\ UNCHANGED exposed
KillEnds(k) == Go(k, "killing", "ending") /\ todo[k] = {} /\ UNCHANGED killing

Controlling == /\ \E p \in Processes : OpenPidFile(p) \/ WritePidFile(p) \/ GiveBack(p) \/ Unregister(p)
               /\ UNCHANGED <<at, log, endpointing, configuring, modelling, probing>>
Killing == /\ \E k \in Kills :
                \/ (Reap(k) \/ List(k) \/ KillEnds(k)) /\ UNCHANGED <<log, left>>
                \/ \E p \in todo[k] : \/ ReapOne(k, p) /\ UNCHANGED <<log, left>>
                                      \/ KillOne(k, p)
           /\ UNCHANGED <<endpointing, configuring, modelling, probing>>

-----------------------------------------------------------------------------
(* arc model use, pull, remove                                             *)

Using == {u \in Uses : at[u] \in {"read", "opened", "written"}}

UseReads(u) ==
  /\ u \in left.commands /\ at[u] = "off"
  /\ IF content[config] = Garbled
     THEN Go(u, "off", "ending") /\ UNCHANGED <<want, overlapped>>
     ELSE /\ Go(u, "off", "read")
          /\ want' = [want EXCEPT ![u] = [content[config] EXCEPT ![Choice[u].role] = Choice[u].key]]
          /\ overlapped' = (overlapped \/ Using # {})
  /\ UNCHANGED <<content, config, tmp, hand, chosen>>

\* Mutant: config.yaml is written in place.
UseOpensConfig(u) ==
  /\ Go(u, "read", "opened")
  /\ hand' = [hand EXCEPT ![u] = config]
  /\ content' = [content EXCEPT ![config] = NoChoice]
  /\ tmp' = config
  /\ UNCHANGED <<config, want, chosen, overlapped>>

\* tmp.write_text: open() truncates the one config.yaml.tmp there may be, ...
UseOpens(u) ==
  /\ Go(u, "read", "opened")
  /\ LET i == IF tmp = None THEN u ELSE tmp
     IN /\ hand' = [hand EXCEPT ![u] = i]
        /\ content' = [content EXCEPT ![i] = NoChoice]
        /\ tmp' = i
  /\ UNCHANGED <<config, want, chosen, overlapped>>

\* ... and writes from its start, over what another put there meanwhile ...
UseWrites(u) ==
  /\ Go(u, "opened", "written")
  /\ LET i == hand[u]
     IN \E c \in {want[u]} \cup (IF content[i] = NoChoice THEN {} ELSE {Garbled}) :
          content' = [content EXCEPT ![i] = c]
  /\ UNCHANGED <<config, tmp, want, hand, chosen, overlapped>>

\* ... then replace(): whatever config.yaml.tmp is by now becomes config.yaml.
UseReplaces(u) ==
  /\ Go(u, "written", "ending") /\ tmp # None
  /\ config' = tmp /\ tmp' = None
  /\ chosen' = [chosen EXCEPT ![Choice[u].role] = Choice[u].key]
  /\ UNCHANGED <<content, want, hand, overlapped>>

\* ... or FileNotFoundError, when another replaced it first.
UseFails(u) == at[u] = "written" /\ tmp = None /\ Dies(u)

ChangingConfig ==
  /\ \E u \in Uses :
       \/ /\ (UseReads(u) \/ UseOpens(u) \/ UseWrites(u) \/ UseReplaces(u))
          /\ UNCHANGED <<log, killing>>
       \/ UseFails(u) /\ UNCHANGED <<pidfile, exposed, strangers, todo, configuring>>
  /\ UNCHANGED <<endpointing, modelling, probing, left>>

\* pull: nothing to do when IsDownloaded, unless forced
PullStarts(p) == /\ LET done == IsDownloaded(Target[p]) /\ p \notin Forcing
                    IN Start(p, IF done THEN "ending" ELSE "pulling")
                 /\ UNCHANGED <<weights, unsettled, left>>
PullFile(p) == /\ at[p] = "pulling"
               /\ \E w \in Shards \ weights[Target[p]] :
                    /\ weights' = [weights EXCEPT ![Target[p]] = @ \cup {w}]
                    /\ unsettled' = IF weights'[Target[p]] = Shards THEN unsettled
                                    ELSE unsettled \cup {Target[p]}
               /\ UNCHANGED <<at, left>>
PullEnds(p) == /\ Go(p, "pulling", "ending")
               /\ IF weights[Target[p]] = Shards THEN UNCHANGED left ELSE Spend("errors")
               /\ UNCHANGED <<weights, unsettled>>

\* remove: rmtree, a file at a time
RemoveStarts(p) == /\ Start(p, IF weights[Target[p]] = {} THEN "ending" ELSE "removing")
                   /\ UNCHANGED <<weights, unsettled, left>>
RemoveFile(p) == /\ at[p] = "removing"
                 /\ \E w \in weights[Target[p]] :
                      weights' = [weights EXCEPT ![Target[p]] = @ \ {w}]
                 /\ unsettled' = unsettled \cup {Target[p]}
                 /\ UNCHANGED <<at, left>>
RemoveEnds(p) == /\ Go(p, "removing", "ending") /\ weights[Target[p]] = {}
                 /\ UNCHANGED <<weights, unsettled, left>>

Managing == /\ \/ \E p \in Pulls : PullStarts(p) \/ PullFile(p) \/ PullEnds(p)
               \/ \E p \in Removes : RemoveStarts(p) \/ RemoveFile(p) \/ RemoveEnds(p)
            /\ UNCHANGED <<log, endpointing, killing, configuring, source, loads, probing>>

-----------------------------------------------------------------------------
(* arc probe and arc doctor (hardware.refresh)                             *)

Open == {h \in Probes : at[h] \in {"opened", "written"}}

\* open("w") truncates the one hardware.json.tmp there may be, ...
ProbeOpens(h) ==
  /\ Start(h, "opened")
  /\ scratch' = IF scratch = None THEN h ELSE scratch
  /\ fd' = [fd EXCEPT ![h] = scratch']
  /\ whole' = whole \ {scratch'}
  /\ crowded' = (crowded \/ Open # {})
  /\ UNCHANGED <<hardware, left>>

\* ... and the report is written from its start: over a longer one, its tail stays ...
ProbeWrites(h) ==
  /\ Go(h, "opened", "written")
  /\ whole' \in {whole \cup {fd[h]}} \cup (IF fd[h] \in whole THEN {whole \ {fd[h]}} ELSE {})
  /\ UNCHANGED <<hardware, scratch, fd, crowded, left>>

\* ... then os.replace: whatever the temporary file is by now, ...
ProbeReplaces(h) ==
  /\ Go(h, "written", "ending") /\ scratch # None
  /\ hardware' = scratch /\ scratch' = None
  /\ UNCHANGED <<whole, fd, crowded, left>>

\* ... or, if another replaced it first or the disk is full, unlink and HardwareProbeError.
ProbeFails(h) ==
  /\ \/ Go(h, "written", "ending") /\ scratch = None /\ UNCHANGED left
     \/ Go(h, "opened", "ending") /\ Spend("errors")
  /\ scratch' = None
  /\ UNCHANGED <<hardware, whole, fd, crowded>>

Probing == /\ \E h \in Probes : \/ ProbeOpens(h) \/ ProbeWrites(h)
                               \/ ProbeReplaces(h) \/ ProbeFails(h)
           /\ UNCHANGED <<log, endpointing, killing, configuring, modelling>>

-----------------------------------------------------------------------------
Next == \/ Crash \/ PidReused \/ Serving \/ Doing \/ Controlling \/ Killing \/ ChangingConfig \/ Managing
        \/ Probing
        \/ \E p \in Processes : \/ Ending(p) \/ Loading(p)
                               \/ \E t \in Threads : ToolRecord(p, t) \/ Logging(p, t)

Spec == Init /\ [][Next]_vars

-----------------------------------------------------------------------------
(* Properties                                                              *)

(* `arc do` asks a running server and falls back to running the task       *)
(* itself (__main__.py:830-858): both begin a task only after the client   *)
(* gave up waiting or was answered with an error; and whoever finds a live *)
(* server in server.json finds it serving, for it is written after the     *)
(* bind and the load and removed before the shutdown (server.py:833-877).  *)
TaskHandedOver ==
  /\ \A d \in Dos : ran[d] = {"server", "local"} => gave[d] \in {"late", "error"}
  /\ (endpoint # None /\ Alive(endpoint)) => at[endpoint] = "up"

(* When `arc kill` ends, every process that was in control of the mouse    *)
(* when it began is dead or has given control back, whatever other kills,  *)
(* crashes and releases did meanwhile (killswitch.py:110-147), but for the *)
(* ones it was told it could not signal, and the ones that took control    *)
(* while a release of theirs had yet to remove the file of the same name   *)
(* (session.py:137-143).                                                   *)
NoneEscapes ==
  \A k \in Kills : at[k] \in {"ending", "recording", "gone"} => due[k] \subseteq exposed

(* Wherever a process was killed: as long as no two `arc model use` ran at *)
(* once, config.yaml is readable and holds every model chosen and every    *)
(* other key it held (manager.py:156-162); as long as no two probes wrote  *)
(* at once, hardware.json is missing or complete, and on a machine probed  *)
(* before, models run on the backend their entry asks for                  *)
(* (hardware.py:169-174, router.py:48-100).                                *)
FilesKept ==
  /\ ~ overlapped => content[config] = chosen
  /\ ~ crowded =>
       /\ hardware \in whole \cup {None}
       /\ left.probed => \A p \in Processes : source[p] # None => source[p].with = Backend(Machine)

(* Once its weights are whole on the disk, and until something removes     *)
(* one, a model loads under the backend its entry asks for, whatever       *)
(* pulls, kills and failures of the hub there are meanwhile: only a load   *)
(* from the hub, of weights partly there at some time, or by llama.cpp     *)
(* fails (manager.py:65-76, router.py:108-123, mlx_backend.py:70-77).      *)
GoodLoads ==
  \A l \in loads : l.from = "hub" \/ l.with = "llamacpp" \/ l.key \in unsettled

\* Claimed by router.py:91, and false: llama.cpp is always a valid destination.
LlamaRunsAnywhere == \A l \in loads : l.with = "llamacpp" => l.key \in unsettled

\* Claimed by __main__.py:1311-1313, and false: every invocation that ended is in the log.
InvocationsRecorded == \A p \in Processes : at[p] = "gone" => <<Cli(p), 1>> \in Completed

\* Claimed by __main__.py:833-835, and false: a client outlives its server.
ClientsSurvive == \A d \in Dos : gave[d] # "lost"

\* Claimed by server.py:68, and false: a server that runs is one the CLI can find.
StillFound == (\E s \in Serves : at[s] = "up") => endpoint # None

\* Claimed by manager.py:159-160, and false: what a `use` finished is in the file.
UseLasts == content[config] # Garbled /\ content[config] = chosen

\* Claimed by manager.py:68-71, and false: no load is sent to a cut download.
CutIsPulledAgain == \A l \in loads : l.from = "disk" => l.with = "llamacpp"

\* Claimed by hardware.py:171-173, and false: a crash never leaves a truncated file.
NeverTruncated == hardware \in whole \cup {None}
=============================================================================
