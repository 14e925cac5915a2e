# ARC: models, checks and proofs

ARC is a local-first assistant: a Python program that runs a language model on
the machine, executes tools for it, takes the mouse and keyboard, speaks,
listens, watches hands and remembers. This directory holds TLA+ modules translated from its
source under `src/arc/`, the TLC configurations that check them and theorems
about them checked by TLAPS. `PROJECT.json` maps every definition to its lines.

    tlc -workers 2 -config Speech.cfg GeminiSpeech.tla     # one run
    tlapm ProcessProofs.tla                                # one module of proofs

## Inventory of the system

| Component | State it keeps | Operations | What is hard | What makes it correct |
|---|---|---|---|---|
| Control session and input (`control/session.py`, `control/input.py`, `tools/input_control.py`) | the current session, its stop event, expected pointer, overlay process, PID file | start, stop, acquire, release, require, check, note_pointer; move, click, drag, scroll, type, press | release() runs in the owner and in the watcher at once; check and post are two steps; crashes and half-done acquisition | at most a bounded number of events after control is given back; a user who keeps the pointer away ends the session; no stuck glow, no stale PID file |
| Overlay (`control/overlay.py`, `control/events.py`) | visibility | show, end of file on stdin | a process whose parent dies | the glow lives exactly as long as control |
| Agent loop, executor, journal (`agent/*.py`) | one `.jsonl` file per task | create, step, finish, fail, load, mark_resumed, run | crash in the middle of a line, resuming a task that still runs, a full disk | what load() says happened did happen, in order, but for the last step |
| Parser and registry (`agent/parser.py`, `tools/registry.py`) | none | schema, candidates, repair, scrape, validate, coerce | replies that almost parse | what runs was written in the reply |
| Local API server (`interface/server.py`) | the lazy model, the generation lock, listeners, the endpoint file | /chat, /do, /chat/stream, /do/stream, /events, /voice/* | one thread for each request, clients that leave, a model that raises, pages that share a microphone | one stream at a time, the lock comes back, only whole replies are remembered, pages do not echo each other |
| Voice session (`voice/session.py`) | sentence buffer, input_suspended, resume timer | feed, flush, reset, interrupt, toggle, close | timers on threads of their own that replace and cancel each other through an unlocked field | listening comes back |
| Speech synthesis (`voice/gemini.py`) | pending and ready queues, two workers, the playing process | speak, stop, is_speaking | workers that leave while work arrives, stop() against both of them | sentences play in order, one at a time; stop() silences |
| Live voice (`voice/live.py`) | audio queues, connection, tool tasks, transcript accumulators | open, close, mute, capture, send, receive, play | asyncio tasks, threads and a sentinel in the audio queue | the player ends, an interruption drops what is queued, mute holds |
| Microphone (`voice/macos.py`) | recognition request, pending text, noise floor, suspension | start, stop, endpoint, restart, suspend | callbacks of the system against restarts | one live request, each utterance reported once and clean |
| Audit log (`audit/logger.py`) | sequence number, day's file | record, read_recent | two locked regions, other loggers and processes, kills | a reader misses no more than broken records explain |
| Kill switch (`audit/killswitch.py`) | PID files | register, unregister, reap, kill | PIDs that are reused, files half written | nobody in control escapes |
| Memory (`memory/*.py`, `schema.sql`) | rows, vectors, entity links, consolidation log | add, supersede, forget, touch, promote, dedupe, decay, prune, rank, pack | several processes, ids reused, a killed run | nothing replaced is lost, indexes agree with rows, recurring phrases are learnt |
| Terminal chat (`interface/chat.py`) | transcript | ask, recall, answer, remember | turns that fail half-way | transcript and memory keep step |
| Hand gestures (`vision/hands/*`, `tools/camera.py`) | gates, mode and reference, pointer, helper process | read frame, fuse, step, click, enable, disable | flicker, a frozen camera, a window that closes | gestures continue from their own grab, clicks are separate, one helper |
| Web (`web/*.py`) | rate limiter, robots cache, findings, web facts | search, fetch, claims, corroborate, remember, recall | several backends, redirects, stale facts | politeness, earned corroboration |
| Models (`model/*.py`), hardware (`hardware.py`) | weights on disk, `config.yaml`, `hardware.json` | pull, remove, use, load, probe | partial downloads, overlapping writers | only whole models are loaded, files stay whole |
| Screen reading, simple tools, configuration, windows, platform | none that matters between calls | | | |

The parts meet as follows. The command line and the page send a task to the
server, found by its endpoint file; a request thread runs the agent loop, which
parses the model's replies and calls tools; an input tool consults the control session before each event; the loop's events go to the
requesting client and to every open /events stream. Request threads feed their
replies to the one voice session, which suspends the microphone and hands
sentences to the synthesiser, or the live session replaces both. Sessions and agents write the audit log and the
memory, register with the kill switch and choose a backend by `hardware.json`.

## What is modelled

Each module says at its head what a step is and what it leaves out. Faults and
users are chosen by constants: sets of faults in the first modules, and in the
others `Budgets`, a set of records that say how many of each event a behaviour
may have. Init picks one, so a run explores several scenes without their product.
The MC modules define those scenes.

Most modules name their formulas `Init`, `Next`, `Spec`. Where one module of proofs
extends two of them, the second uses names of its own: `JournalSpec` (`TaskJournal`), `EventsSpec`
(`EventStreams`), `LiveSpec` (`LiveSession`), `HandSpec` (`HandControl`), `GateSpec` (`VoiceGate`).

* `ControlSession` is `control/session.py` with `control/input.py` and the input
  tools. Its threads are the owner, which starts sessions and runs tools, and a
  watcher for each session; `rel[t]` is where thread t is inside release(),
  which both may run at once. The overlay is a process of its own (`proc`) that
  sees its stdin close. `check()`, the post it allows and `note_pointer()` are
  separate steps. The animation of a move visits arbitrary points. What acquire() has taken when
  its registration, overlay or audit record raises is kept, as in the code (`Refuse`, `Acquired`), and a
  release() may raise at its own record (`RelFinish`).
* `ToolCalls` is how a reply becomes a call: `agent/parser.py`, the schema of
  `tools/registry.py` and the checks of `agent/executor.py`. A reply is a sequence of
  pieces (prose, fenced, in an unclosed fence, bare), each an object with its
  keys and the way it is spelled: strict, repairable, cut short, beyond repair.
  `Candidates` is the order in which the ladder looks, `ReadBlock` a rung,
  `ParseToolCall` the whole; each piece also says what its author `means`. A repair may change the text inside strings
  (`Mangled`). `IsReply` says which
  replies there are: any number of pieces, any object that nests as deep as the parser looks
  (arguments of tools are no objects themselves, `tools/registry.py:78`), where a fence that is never
  closed, or ends at a backquote inside it, is the last piece, and whoever writes a
  tool's name under a key for names means that tool.
* `TaskJournal` extends it with `agent/journal.py` written by `agent/loop.py` and
  `agent/executor.py`, as `arc do` and `arc task resume` of `__main__.py` drive
  them. A journal is its sequence of lines and whether the last has its newline;
  the next append joins a torn line and the two do not parse. `Status` and
  `Steps` are load(), which reads line by line and is a recursive function here. A process may
  be killed between steps, inside a line, or interrupted, also between the finish line and the
  return of the loop (`Return`); a write may fail with all, part or
  nothing of its line on disk.
* `ChatServer` is the four endpoints of `interface/server.py` that use the model,
  with `Runtime.model`, the generation lock and the sentence buffer of
  `voice/session.py` they share. `After` is the order of each handler. In
  /chat/stream, composing the prompt may load the model already; that load is
  folded into the one that follows the lock; a load may fail (`LoadFails`). `TurnMutex` is the abstract
  specification of the lock: turns that work one at a time.
* `EventStreams` is /events, /voice/toggle and /voice/status with the pages that
  use them (`webui/app.js`, `state.js`, `input.js`): a handler with a queue for
  each connection, the list of queues and its removal by equality, a thread for each toggle, and a
  page that flips its indicator, posts, and adopts what it hears. Init chooses the local or the
  live adapter; in live mode `Escape` mutes and unmutes, and a session may end, without an event. `SharedSwitch`
  is the abstract specification: one switch that every page follows.
* `GeminiSpeech` is `voice/gemini.py`: speak(), stop(), every synthesis and play
  thread there has been, and the afplay processes. `SpokenOrder` is the abstract
  specification of what one hears: numbered sentences, one at a time, never going
  back. The play thread's wait of 0.1 s only makes it look again and is left out.
* `VoiceGate` is the microphone gate of `voice/session.py`: the thread that feeds
  a reply, threads that call interrupt(), and timer threads with a life of
  their own (created, cancelled before their start, armed, running). Of the synthesiser
  (`voice/gemini.py`, in detail in `GeminiSpeech`) it has what is_speaking can answer: a sentence may fail,
  a worker may end although one waits (`stranded`), and between a sentence's turn and its sound
  either answer is possible.
* `LiveSession` is `voice/live.py` behind `_LiveAdapter`: request threads that may
  open a session at the same time, a loop and a player thread for each, blocks
  from the audio thread through `call_soon_threadsafe` (`out[s]`), messages of the
  service with audio, transcripts, tool calls and interruptions. Loops that are up together share
  the flag `_running`, the audio queue, the accumulators and the connection `_session` (`socket`), on
  which every answer of a tool is sent; that send may raise. The test of the mute and the scheduling
  of a block are two steps.
* `Microphone` is `AppleRecognizer` of `voice/macos.py`: the tap, the endpoint
  detector with its floor, which falls at once and rises slowly, results that come at any later time, and the
  threads that replace the request (`swap[t]`), of which there may be two. A `room` is the set of levels
  its buffers may have; it changes. The tap reads the request in one step and appends in another. A
  teardown may raise half-way.
* `AuditLog` is `audit/logger.py`: a number taken in one locked region, a line
  written in another, with one write or with two when it is long, by any number of loggers; a process
  of `ArcHome` has two, the command's and the one its tools use.
* `ArcHome` extends it with the processes of one user and the files of `~/.arc`
  they share: `server.json` between `arc serve`, `arc ui` and `arc do`
  (`_try_server`), PID files between control sessions and `arc kill`,
  `config.yaml` by `arc model use`, weights by `pull` and `remove`,
  `hardware.json` by `arc probe` and `arc doctor`, and `build`'s choice of a backend.
  Files that two processes write through one temporary name are modelled by
  inode and content. A release gives control back in one step and deletes the PID file in a later one
  (`GiveBack`, `Unregister`), whichever session has a file of that name by then. What can be loaded is said
  by `Loads`: MLX loads whole weights, llama.cpp only a single file an entry names (none in
  `models.yaml` does), and the hub may fail.
* `MemoryStore` is the database with its writers: turns of the server, a terminal
  chat from recall to answer with its /clear, `arc memory forget`, and consolidation runs, one transaction
  a step, a second beside the first if the scene has it (`RunBeside`, `Switch`). Ids are reused as SQLite does without AUTOINCREMENT. `Passes` is the order of the run.
  What decay leaves of a salience is a parameter (`Faded`), so that nothing rests on a power of
  0.99; which phrases the `LIKE` of promotion finds in which texts is another (`Like`). Scores are integers: a strategy's share of the fused score is rounded down to a
  47580th, which is exact at the first place and at the 18th. `Packing` goes through the hits as
  `pack_memories` does and is a recursive function.
* `HandControl` is `vision/hands/` from poses on and `tools/camera.py`. A hand is
  the set of its curled and extended fingers, pinch and spread; `Classify`, the
  gates and the fuser decide a gesture, `Step` moves or resizes a window, `StepPointer` the cursor.
* `WebResearch` is `arc research` with and without `--deep`: the limiter with its
  time since the last call, robots.txt with an answer for each path, the backends with their result filters,
  rounds, clustering of claims and the facts kept for another day. Pooling, parsing and
  clustering go through lists, as recursive functions of the number of rounds.

Definitions with the comment "Mutant" are plausible bugs, used to show that
each property notices one; no behaviour of the models includes them.

## What the runs show

Deadlock is not checked: in every model the system may stop, when nobody asks
anything more within the bounds. Several properties are the conjunction of parts
with names of their own, given here in parentheses.

| Run | Checks | Bounds, and why they suffice |
|---|---|---|
| `Control` | `LateEventsBounded`: at most two events follow the return of control; `SessionsDoNotMix` (`OneLitHolder`, `NoCorpse`), of sessions whose start() returned; `DriftEndsSession`: the pointer is not kept away from one position for good; `GlowEnds` | all tools and faults; loops of two steps, so that there is a first and a last one; three points and a threshold of one, so that a tolerated and an excessive drift exist. Two sessions, the second restricted by `Bounded` to follow a first that ran one step of `move`: what the sessions share is the release of the first, not its tool |
| `Journal` | `CrashCostsOneStep`, `NothingInvented`, `FinishedStays`, `TaskEnds` | one task with a reply for each shape the parser tells apart; two tasks, of which one resumes the other, with fewer; two steps, so that more than the last could be lost |
| `Server` | `OnceAndWhole` (`LoadedOnce`, `RememberedIsComplete`), `ReleasedOnEveryPath`, `StreamsTakeTurns` (implements `TurnMutex`), `RequestEnds` | two requests of any of the four kinds, replies of two tokens, so that a client may leave before, in the middle of and after a reply; each load may fail |
| `Speech` | `LateSpeechBounded`, `PlaysInOrder` (implements `SpokenOrder`), `StopEnds` | three sentences, so that workers can be replaced twice, and two stops, the second while the first is being undone |
| `Gate` | `SomebodyResumes`, `ListeningComesBack` | two sentences, so that one is suspended for while the other's timers run; two interrupting threads, three sentences and interrupts together (`MaxEvents`); a failing synthesis and a worker that ends, whenever a sentence waits; four timers at a time, never a limit: a thread that found none free would fail `ListeningComesBack` |
| `Events` | `NoEcho`: a page posts only what was pressed; `CalmAgreement` | two pages, two presses, three connections, so that one may be replaced; one fault of any kind and one other broadcast; Escape as often as it is pressed; queues of two, so that they overflow |
| `Live` | `HeardOnce` (`LateBlocksBounded`, `FinalsDisjoint`), `InterruptionIsSilent`, `EverythingEnds` (`PlayersEnd`, `CallsAnswered`) | three scenes: two requests that both open, with calls of tools on both connections and a failing send; one conversation of three messages; five blocks around a mute, with room for one scheduled and one queued |
| `Mic` | `UtterancesAreClean`, `TapIsServed` (`FedIsLive`, `LateFinalBounded`), `UtterancesEnd` | five requests are as many as any scene creates (six change nothing); two or three words, so that one utterance follows another; rooms that are silent, loud, and of two levels within the margin, about it and beyond it |
| `Memory` | `IndexTruthful`, `NothingIsLost` (`NothingVanishes`, `SilentBounded`), `RecurringIsLearnt`, `WellPrompted` (`AgreementWins`, `PackedBest`), `MemoryFollowsChat` | scenes each with the events that can disturb one another; up to five rows of two near texts and one distant one; the nearest-neighbour query returns three, so that there are more restatements than it finds; a limit of two, so that hits are cut; one phrase that is found inside another; the ranks are none, the first and the last that counts as middling |
| `Hands` | `GesturesAreSafe` (`GripMatches`, `OneThingAtATime`, `PinchNeverSteers`, `OneProcess`), `ClicksNeedReunion` | gates that commit after two or three frames; scenes with one hand in two views, two hands, cursor poses, and the tools; frames come in any order without end |
| `Web` | `PoliteHosts`, `CorroborationIsEarned`, `ReadingIsCareful` (`ReadOnce`, `FreshAnswers`, `GivesUpLast`) | three sites, one under two names, a redirect, an advert and an untitled link; three claims, two of them alike; two rounds of two queries; lifetimes of one and two days over three days |
| `Home` | `TaskHandedOver`, `NoneEscapes`, `FilesKept`, `GoodLoads`, `LogHonest` | thirteen scenes of one to three commands with the faults that matter to them; two shards, so that a download can be partial; records of one and two pieces |

Fairness is stated only where a liveness property needs it, and is weak fairness
of the steps of threads and processes that have work to do: the scheduler runs a
runnable thread, a timer that was started fires, a fetch or a file comes to its
end. No run assumes that a user, a client, a service or an owner does anything: starting,
speaking, interrupting, resuming, stopping and failing are not fair. `Handler`
of the server is one fair action for each thread; the only lock a thread waits
for is the model's, and whoever holds that one goes on. In `LiveSession` only the
players and the threads of tools are fair. In `Microphone` buffers of silence keep
coming, for an engine that runs delivers them and the words are bounded, and started
endpoint threads go on; the assumption on the synthesiser in `VoiceGate` is that a sentence whose turn has come begins or fails,
and a sound that plays comes to its end; a sentence left without a worker has no such promise. `EventStreams`, `MemoryStore`, `HandControl`, `WebResearch` and
`ArcHome` have no liveness property and state no fairness.

### Excuses in the properties

Some properties name conditions under which the code does not keep them. Each is
a defect of its own, and most are stated without the excuse in the table below:

* `SessionsDoNotMix` excuses sessions whose start() raised (`NothingHeldUnowned`); `DriftEndsSession` an owner that
  moves the pointer again (`MouseEndsSession`).
* `FinishedStays` excuses a Ctrl-C that finds the finish line written and the loop not returned (`NeverFinished`).
* `NothingInvented` excuses text that a repair rewrote (`RepairsKeepText`), and arguments
  that are half an object inside a string, which become empty without a repair (`parser.py:219`). The notes on
  repairs go to the step and the terminal; the model sees the observation alone (`loop.py:226`).
* `TaskHandedOver` excuses a client that timed out or got an error, whose task then runs twice, or half and once.
* `CalmAgreement` is about presses at rest, without faults, and an Escape or the end of a session that leaves what the
  pages show true (`IndicatorTruthful`).
* `ListeningComesBack` excuses sentences nobody will say, because their worker had ended (`ReopenedAfterPlayback`).
* `CallsAnswered` excuses an answer that cannot be sent, and two sessions at once (`EveryCallAnswered`).
* `UtterancesAreClean` excuses a late result and a failed restart (the text of
  the old request then becomes `_pending` of the new one); `UtterancesEnd` a room whose level varies by more than the
  margin (`FollowsTheRoom`).
* `NothingIsLost` and `RecurringIsLearnt` are about runs one after another (`NoOverlapHarms`). The first excuses an id
  handed out again while a run still held it (`schema.sql:21` is a plain INTEGER PRIMARY KEY), the second a
  phrase of which a memory was deleted during the run (`forget` may take the very pattern just learnt).
* `AgreementWins` leaves out the last two of the twenty places of a strategy: at the 19th, on a faded memory of a
  single source (confidence 0.55), three strategies can lose to the vectors alone.
* `OneProcess` and `FilesKept` excuse two writers at the same moment. The mouse is under the control of the gestures
  (`control_mouse`), and the spawn of their process succeeds.
* `NoneEscapes` excuses a process the kill could not signal, and one that took control while a release of its own had yet to
  delete the file of that name (`RegisteredWhileHolding`).
* `GoodLoads` excuses the hub, llama.cpp (`LlamaRunsAnywhere`) and weights that were partly there or removed at some time.
* `LogHonest` is about records written in full. A record that is lost leaves no trace when it was the last or only one of
  its logger (`InvocationsRecorded`).

### Where the code departs from what it says

The modules state these under "Claims of the documentation that the code does
not keep". TLC finds each violated when the INVARIANT and PROPERTY lines of
the module's configuration are replaced by the claim alone, with the constants as they
are or as the last column says. `PROJECT.json` quotes the statements.

| Claim | Module | What happens | Constants |
|---|---|---|---|
| `ReleaseIsGranted` | `ControlSession` | `arc control release` runs in a process without a session: the glow goes, control stays | `MaxSessions = 1` |
| `DragReleases` | | a takeover inside a drag leaves the button down | `MaxSessions = 1` |
| `RegisteredWhileHolding` | | a finishing release removes the next session's PID file | `Faults = {}` |
| `NoEventUnlit`, `RefusalIsClean` | | events before the glow; control without one | one session, `Faults = {"spawn"}` |
| `NothingHeldUnowned` | | a start() whose overlay or audit record raises leaves a session that is held, and is nobody's current one | |
| `NoSelfTakeover`, `ReleasedOnce` | | ARC's own motion ends the session; release() runs twice | one session |
| `MouseEndsSession` | | a session that only types never looks at the pointer; one that moves it looks at its own motion | one session, `Ops = {"type"}` |
| `ResumedIsClosed` | `TaskJournal` | the marker is glued to a torn line and lost | |
| `NeverFinished` | | a Ctrl-C after the finish line reopens the task | |
| `RepairsKeepText` | | a repair rewrites text inside a string | |
| `FullKnowledge` | | a task resumed twice forgets the first part | `MaxTasks = 3` and a scene that starts three with two kills |
| `InterruptedIsDead` | | a running task is offered for resumption | |
| `MutatingChanged` | | every step that did not run dry counts as a change, reads included | `Mutating = {"write_file"}` |
| `StrictFirst` | | a repaired fence wins over a later strict span | |
| `ScrapeKeepsArguments` | | the scrape swallows the first nested argument | |
| `SentAsDescribed` | | optional parameters are not coerced | |
| `NoWedge` | `ChatServer` | /do/stream writes to its client between the acquire and the try | |
| `OneGeneration`, `DroppedIsHarmless` | | /chat and /do ignore the lock; a busy request clears the other's voice buffer | |
| `OpenPageHears`, `IndicatorTruthful` | `EventStreams` | queues are removed by equality; announcements overtake, Escape and the end of a session make none | |
| `SpeakingEnds`, `SpeakingThroughout`, `EverySentenceEnds`, `StopSilences` | `GeminiSpeech` | a sentence queued while the synthesis thread returns waits for good, and more of the kind | |
| `DeafWhilePlaying` | `VoiceGate` | the microphone opens after the next sentence has begun | |
| `ReopenedAfterPlayback` | | sentences whose worker has ended count as speech for good | |
| `OnlyToggleUnmutes` | `LiveSession` | interrupt() opens a muted microphone | |
| `EveryCallAnswered` | | a second session takes the connection, or the send fails | |
| `ClosedIsQuiet` | `Microphone` | a failed start, a resume or an endpoint beside stop() leaves a task | |
| `FollowsTheRoom` | | a quiet buffer takes the floor down, and the peaks of the room count as speech | |
| `NoDanglingQuestion`, `PromptFits` | `MemoryStore` | a question may be stored alone; the transcript is never cut | |
| `DecayPerDay`, `LearntInTheEnd` | | decay compounds with each run; a phrase that recurs slowly is never learnt | |
| `NoOverlapHarms` | | two runs replace two memories by each other | |
| `PhraseIsLearnt` | | a phrase found inside another pattern, or alike in its first 60 characters, is never learnt | |
| `ModifiersBreakTies` | | salience and confidence overturn neighbouring ranks | |
| `GrabsAreShown`, `OneHandMoves`, `AssertionHolds` | `HandControl` | a returning hand grabs at once; two fists make the window jump; a closing window ends the process | |
| `SourcesServedIt`, `TwoPagesPerSite` | `WebResearch` | redirects corroborate themselves; the cap is per round | |
| `ClientsSurvive`, `StillFound` | `ArcHome` | a reset connection ends `arc do`; a second server unlists the first | |
| `LlamaRunsAnywhere` | | llama.cpp wants a single file, which no entry names | |
| `InvocationsRecorded` | | a failing record of a command is dropped, without a gap | |
| `UseLasts`, `NeverTruncated` | | two writers of one temporary name | |
| `CutIsPulledAgain` | | a cut download counts as downloaded | |
| `LinesInOrder`, `TornCostsItself` | `AuditLog`, through `ArcHome` | threads overtake each other; the record after a torn one is lost too | |

Found by reading, without a model of their own: nothing in a control session handles Escape, which
`control/session.py:6` names; `arc kill` may kill a stranger with a reused PID, and a PID
file that was left empty is never reaped; the nearest-neighbour query of dedupe takes five before it
filters the replaced ones, and keeps the lowest id where its docstring says the richest
(`consolidation.py:152`); robots.txt and redirect targets are fetched without the
limiter (`fetch.py:139`); `"now"` among the volatile words matches "know" (`research.py:86`); tasks run by the server
are not audited (`server.py:674`); audit failures are dropped (`executor.py:236`) though
`logger.py:9` wants them heard; `open()` of a live session that times out leaves it
connecting; a recogniser and a camera that freeze go on showing their last result.

## What is proved

TLAPS checks the theorems for every value of the constants that the module's named
assumption allows (`ControlAssumption`, `ServerAssumption`, ...). The assumptions say what
type the constants have and that marks like `None` are none of the values; where they say more,
the code does: `Near` is symmetric (it is a cosine), a query of the retriever costs a natural
number of tokens, decay yields a salience. TLC evaluates each in the runs.
Every safety property and every action property that a run checks is proved.
Each theorem `Spec => []P` goes by an invariant that implies P, checked
by TLC before it was proved; the modules of proofs define it in named parts and say in a
comment what each means.

`ProcessProofs`, about `ControlSession` and `TaskJournal`:

* `TypeCorrect`, and `LateBound` for `LateEventsBounded`. The bound alone is not inductive,
  because a tool that has checked may have events ahead of it. `Ahead` counts
  those, and the invariant says that an active session has no late event,
  that late events and events ahead together are at most two for the current
  session, and that a session not created yet is untouched. release() may clear
  `active` at any step of a tool: the sum does not change by that, each post
  moves one event from `Ahead` to `late`, and each check that passes finds
  `late = 0`.
* `NoMixing` for `SessionsDoNotMix`. `Orderly` says when the owner and a watcher can be inside
  release(); `OneLit`, that an active session with an overlay is the current one, or about to
  be, unless its start() was refused; `Mourned`, that a PID file has an active session behind it, a thread still
  on its way to remove it, or a failed write of the last start().
* `ACrashCostsOneStep` for `CrashCostsOneStep`, which is not inductive: a resumer's marker is
  glued to a torn last line, and the step on that line is lost with it. `Cost` says that a torn
  line that holds a step holds the last one, and where in its loop a process can be when the
  journal lacks one. It needs what load() returns of a list with one line more, or with the
  last line spoilt (`StepsAppend`, `StepsSpoilt`).
* `AFinishedTaskStays` for `FinishedStays`: only a process at its end has written that it
  finished (`Finished`), and all that a resumer adds is a marker or a line cut short. What its own process adds, when
  interrupted before it returns, the property names.
* `TasksRunDown`: the safety part of `TaskEnds`, a distance that every step of a task shortens.
* `NoGlowIsForgotten` and `NeverUnwatched`: the safety part of `GlowEnds` and `DriftEndsSession`: who is
  to put out the glow, and who watches, is there as long as it is needed.
* `NoneInvented` for `NothingInvented`, for every reply `IsReply` admits. The step is small (`Heard`: the call about
  to run is what its reply was read as); the proof is about the parser, rung by rung. `Normalize` finds
  only what is written in an object (`ReadIsWritten`), and of an object that spells one call, plain or
  wrapped, just that call (`ReadIsMeant`): of two values for a key the last counts, and the keys beside a wrapper hide
  nothing of it. A block of any rung is a piece, whole or cut (`CandidateBlocks`), so its call is
  from that piece but for what a repair rewrote (`BlockIsTold`). The scrape flattens every object, and what it finds is written in one
  or is an object it swallowed (`ScrapeIsTold`). `ToolAssumption` asks that no tool is named like the
  texts a cut or a repair leaves.

`ServerProofs`, about `ChatServer` and `EventStreams`:

* `LockReturned` for `ReleasedOnEveryPath`, and `Refinement`: `Spec => StreamsTakeTurns`, the
  streaming endpoints implement `TurnMutex`. `LockInv` says where a thread holds the generation lock: for
  /chat/stream exactly between acquire and release, for /do/stream at least
  there (it can leak it, see `NoWedge`), which is enough for exclusion.
* `ModelAndMemory` for `OnceAndWhole`: nothing was loaded while the model is not there
  (`OneLoad`), and a reply that is remembered, or past the point where only an exception would keep
  it from being remembered, has all its tokens (`Whole`).
* `RequestsRunDown`: the safety part of `RequestEnds`, a distance that every step of a handler shortens.
* `OnlyPressesPost` for `NoEcho`: a page shows what it posted or adopted last (`Marked`).
* `CalmPagesAgree` for `CalmAgreement`. While nothing fails, every page has a listed connection
  (`Connected`) whose queue has room (`Roomy`); one press is under way at a time, before its
  announcement only its own page differs, and after it whoever differs from the microphone has
  its state, and no other, waiting (`InTurn`). An Escape that keeps the calm finds the microphone open and leaves it so
  (`Told`). The theorem assumes
  `MaxNotes < MaxQueue`: with as many other broadcasts as a queue holds, the announcement is
  dropped from a full queue without any fault, and the property is false.
* `OneSwitch`, under the same assumption: the pages and the microphone implement `SharedSwitch`.

`GeminiProofs`, about `GeminiSpeech` and `LiveSession`:

* `TypeCorrect`, and `Refinement`: `Spec => PlaysInOrder`, the synthesizer implements `SpokenOrder`.
  That nothing overlaps or overtakes follows from where sentences are: pending,
  held by a synthesis thread, ready, about to be spawned, begun last. `Ordered`
  says that every stage is behind the one after it, and `Sound` that what one
  hears belongs to a player that waits for it. Both need `Alone`, that only the
  thread started last of each kind is alive, which speak() keeps because it
  replaces a worker only when is_alive() is false, and `Holds`, that a worker
  holds a sentence exactly while it has one to handle. Each action moves one
  sentence by one stage or drops some; the `Chain...` lemmas are about those
  moves on sets, `AppendQueue` and `PopQueue` about the two queues.
* `OneLateSentence` for `LateSpeechBounded`: after one sentence has begun late no player is at a
  point from which it begins another without looking at the stop flag.
* `ReportedOnce` for `HeardOnce`. Blocks sent after a mute and those still under way (scheduled,
  queued, held by a sender) are together no more than fit (`Muting`); no fragment of a
  transcript is in two texts (`ToldOnce`), fragments being numbered.
* `OldSpeechIsDropped` for `InterruptionIsSilent`: what waits in the audio queue was received
  since the last interruption (`Current`).
* `NoStrays` and `QuietWindsDown`: the safety part of `EverythingEnds` and `StopEnds`. A call is
  handled by a loop that is up (`Belongs`), and answered where it came from while one session at a time was up.

`SensesProofs`, about `HandControl`, `VoiceGate` and `Microphone`:

* `SafeGestures` and `OneClickPerSpread` for `GesturesAreSafe` and `ClicksNeedReunion`. Every part of
  them looks at one moment of the loop; the invariant says for every moment which marks the
  step before can have left (`AtRest`, `Drives`), which reference goes with the mode (`Referred`), which
  pose the cursor followed (`Followed`), what an armed pointer owes (`Rejoined`), and that a thread
  about to spawn the helper is alone (`Alone`).
* `NobodyIsForgotten` for `SomebodyResumes`. A thread about to start a timer counts as
  somebody, but start() raises when the field holds another by then. So the invariant looks at the
  timer in the field: when it can still be started, whoever is there starts it, and when not,
  somebody else brings another (`Flagged`, `Deafened`, `NewIsArmed`, `ArmsAnother`).
* `NothingIsRepeated` for `UtterancesAreClean` and `TheTapIsServed` for `TapIsServed`. Two threads may replace
  the request at once: `Unborn` says that the new request of each is fresh and its own, `Retired` that
  what it cancels is not the request any more, `News` that what is pending, and, once no swap
  is owed, what the request has heard, was never reported.

`ArcHomeProofs`, about `ArcHome` and `AuditLog`. `Still` and `Bystander` say what a step leaves alone, so each
part of the invariant is shown for the steps on its own files:

* `OneTaskOneRunner` for `TaskHandedOver` (`Handing`), `KillReachesAll` for `NoneEscapes` (`Watching`: whoever is still
  to be killed is on the list, or past the danger), `CrashesKeepFiles` for `FilesKept` (`Keeping`, `Reporting`: as long as
  no two writers overlapped, who writes has the temporary file to itself), `LoadsAreSound` for
  `GoodLoads` (`Fetching`).
* `ReadersMissLittle` for `LogHonest`. The log holds of each record what its thread has written and no more
  (`PensTidy`, `FileTidy`, `Matching`, `HasBegun`, `HalfWritten`, `Contiguous`). The bound on what a reader misses is a count (`Missed`): a
  complete record that cannot be read was crossed, or follows the first piece of one that is
  torn or crossed, which is another for each.

`MemoryStoreProofs`, about `MemoryStore`. The processes hold what they once read; the invariant says of each such thing
what is still true of it however the table has changed, an id handed out again excused:

* `TruthfulIndex` for `IndexTruthful` (`Pending`: a turn still to be linked; `Issued`: ids handed out).
* `ReplacedNotLost` for `NothingIsLost` (`Replacing`, `Snapshot`: the rows a run is to compare; `Chosen`: those it is about to
  replace; `Owed`: the entry it has still to write). That chains of replacements end in a live
  row is stated without recursion (`EndsLive`), and kept because a row is only ever replaced by a
  live one.
* `LearntAtTheEnd` for `RecurringIsLearnt` (`Learning`): what `LIKE` finds for the phrase stays found, as long as no
  other run goes on beside and no pattern is forgotten.
* `MemoryKeepsUp` for `MemoryFollowsChat` (`Talking`, `Transcript`): the transcript is the last of what memory was
  given (`Told` of it), since /clear empties the one and not the other.
* `PromptsAreWell` for `WellPrompted`. Three strategies give at least 1159 at the 18th place or better (`Shares`, `Agreement`), one at most
  780, and salience and confidence change a score by a factor between 0.7825 and 1.15 (`Modified`), which does not
  make up for the difference; nor is the better of the two cut at the limit. The
  packing is the best that fits (`BestPacking`): it agrees up to any hit with what a competitor has spent, and
  left out only what did not fit.

`WebResearchProofs`, about `WebResearch`: `HostsAreSpared` for `PoliteHosts` (`Paced`: the limiter never believes more time has
passed than has), `NothingReadTwice` for `ReadingIsCareful` (`NeverTwice`, `InOrder`), `ConfidenceIsEarned` for
`CorroborationIsEarned` (`Earned`: what is on its way into memory was said by its sources).

`Loops` has what the proofs about loops over a list share. Such a loop is a recursive function
of the number of rounds; that it exists and is typed (`LoopRuns`, `LoopStays`), and that what each
round keeps holds after all (`Counting`), follows from the least round that would fail, so that no
induction over data is needed.

Only model-checked: the liveness properties (`DriftEndsSession`, `GlowEnds`, `TaskEnds`, `RequestEnds`, `StopEnds`,
`ListeningComesBack`, `EverythingEnds`, `UtterancesEnd`), since liveness under fairness and ENABLED are out of the
prover's reach.

## What is not modelled, and the plan

The modules of the plan are written, and every safety property is proved. What remains of it:

1. Abstract specifications for what has none: the table of memories for `MemoryStore`, one
   writer of a file for `ArcHome`.
2. The safety part of the liveness of `Microphone` and `VoiceGate`, as `TasksRunDown`, `RequestsRunDown`,
   `NoGlowIsForgotten` and `QuietWindsDown` state it for the others.
3. The defects of the table above, once the code is corrected: each claim then takes the place of the
   excuse it belongs to.

Composition is by extension where components share state (`ToolCalls` in `TaskJournal`,
`AuditLog` in `ArcHome`, the chat in `MemoryStore`); the voice modules are kept apart,
each with what it needs of its neighbour, since their product is beyond TLC.

Left out for good: rendering and layout of the page and the windows, extraction
of text from pages and screens, landmark geometry and embeddings (floating
point), the system's speech, audio and capture frameworks, the generation of text in the
model backends, thin tool wrappers, the commands that only print, and set-up code that runs once.
