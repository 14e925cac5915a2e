---------------------------- MODULE LiveSession ----------------------------
(***************************************************************************)
(* The live voice session (voice/live.py) behind the adapter that gives it *)
(* the surface of the local voice session (_LiveAdapter in                 *)
(* interface/server.py).                                                   *)
(*                                                                         *)
(* Threads: request threads that toggle the microphone and may open the    *)
(* session; per opened session one thread with an asyncio loop (capture,   *)
(* send, receive and the tool calls) and one player thread; the audio      *)
(* thread that captures blocks.  They share the LiveSession object, so two *)
(* loops that are up at the same time share the flag, the audio queue, the *)
(* transcript accumulators and _session, the connection both send on.      *)
(*                                                                         *)
(* Abstractions: a block of microphone audio has no contents; a piece of   *)
(* received audio is the number of interruptions before it; a transcript   *)
(* fragment is the number of the response that carried it; reading and     *)
(* writing muted in one toggle is one step.  The service (Gemini) answers  *)
(* in any order with any kind of message.                                  *)
(***************************************************************************)
EXTENDS Integers, Sequences, FiniteSets, SequencesExt

CONSTANTS Callers,       \* request threads
          MaxSessions,   \* sessions started over the run
          MaxResponses,  \* messages received from the service
          Budgets,       \* how many of each event a behaviour may have
          MaxQueue       \* maxsize of the out queue (64)

Sessions == 1 .. MaxSessions
Calls == 1 .. MaxResponses

Budget == [sessions : 0 .. MaxSessions, toggles : Nat, closes : Nat,
           responses : 0 .. MaxResponses, blocks : Nat, failures : Nat]

ASSUME LiveAssumption ==
  /\ MaxSessions \in Nat /\ MaxResponses \in Nat /\ Budgets \subseteq Budget
  /\ MaxQueue \in Nat \ {0}

VARIABLES
  running,    \* _running
  muted,      \* _muted
  error,      \* _error is set
  speaking,   \* _speaking
  started,    \* sessions started; the last is _thread and _task
  main,       \* main[s]: the loop: "none", "connecting", "up", "ended"
  caller,     \* caller[k]: what the request thread does
  closing,    \* close(): "no", "joining"
  socket,     \* _session: the connection of the session that connected last, or 0
  doubled,    \* two sessions were up at once
  out,        \* out[s]: blocks past the check of the mute, scheduled, queued and held; those
              \* sent since the mute, and those under way when it came
  audioOut,   \* _audio_out: pieces of speech and the sentinel
  playing,    \* playing[s]: where its player is: "none", "loop", "write", "done"
  drops,      \* interruptions so far
  inText,     \* _in_text: the fragments accumulated
  outText,    \* _out_text
  finals,     \* the transcripts reported as final
  call,       \* call[i]: the tool call of response i: "none", "asked", "ran", "answered",
              \* "stray" (answered on another connection), "dropped" (not sent), "dead"
  asker,      \* asker[i]: the session whose connection it came on
  handler,    \* handler[i]: the session whose loop handles it
  left        \* the sessions, toggles, closes, responses, blocks, failures still to come

liveVars == <<running, muted, error, speaking, started, main, caller, closing, socket, doubled,
              out, audioOut, playing, drops, inText, outText, finals, call, asker, handler, left>>

thread == <<error, started, main, caller, closing, socket, doubled>>
tasks  == <<call, asker, handler>>
heard  == <<speaking, audioOut, drops, inText, outText, finals, tasks>>

\* The None of close() in the queue of the player.
Sentinel == -1

NoBlocks == [checked |-> 0, scheduled |-> 0, queued |-> 0, held |-> 0, late |-> 0, owed |-> 0]
UnderWay(b) == b.checked + b.scheduled + b.queued + b.held

LiveInit ==
  /\ running = FALSE /\ muted = TRUE /\ error = FALSE /\ speaking = FALSE
  /\ started = 0
  /\ main = [s \in Sessions |-> "none"]
  /\ caller = [k \in Callers |-> "idle"]
  /\ closing = "no"
  /\ socket = 0 /\ doubled = FALSE
  /\ out = [s \in Sessions |-> NoBlocks]
  /\ audioOut = <<>> /\ drops = 0
  /\ playing = [s \in Sessions |-> "none"]
  /\ inText = <<>> /\ outText = <<>> /\ finals = <<>>
  /\ call = [i \in Calls |-> "none"]
  /\ asker = [i \in Calls |-> 0] /\ handler = [i \in Calls |-> 0]
  /\ left \in Budgets

Goto(k, pc) == caller' = [caller EXCEPT ![k] = pc]

\* A mute starts the count of the blocks that are sent while it lasts.
SetMuted(m) ==
  /\ muted' = m
  /\ out' = [s \in Sessions |-> [out[s] EXCEPT !.late = 0, !.owed = UnderWay(out[s])]]

-----------------------------------------------------------------------------
(* Request threads. *)

\* _LiveAdapter.toggle, and open(): nothing to open when one is running.
Toggle(k) ==
  /\ caller[k] = "idle" /\ left.toggles > 0
  /\ left' = [left EXCEPT !.toggles = @ - 1]
  /\ Goto(k, IF running THEN "flip" ELSE "open")
  /\ UNCHANGED <<running, muted, error, started, main, closing, socket, doubled, out, playing, heard>>

\* The second look open() takes, and the thread it starts.
Open(k) ==
  /\ caller[k] = "open" /\ (running \/ left.sessions > 0)
  /\ IF running
       THEN Goto(k, "flip") /\ UNCHANGED <<started, main, error, left>>
       ELSE /\ started' = started + 1
            /\ left' = [left EXCEPT !.sessions = @ - 1]
            /\ main' = [main EXCEPT ![started + 1] = "connecting"]
            /\ error' = FALSE
            /\ Goto(k, "wait")
  /\ UNCHANGED <<running, muted, closing, socket, doubled, out, playing, heard>>

\* ready.wait(timeout): the session is up or over, or the time has passed.
Waited(k) ==
  /\ caller[k] = "wait"
  /\ error' = FALSE
  /\ Goto(k, IF error \/ ~running THEN "idle" ELSE "flip")
  /\ UNCHANGED <<running, muted, started, main, closing, socket, doubled, out, playing, heard, left>>

Flip(k) ==
  /\ caller[k] = "flip"
  /\ SetMuted(~muted)
  /\ Goto(k, "idle")
  /\ UNCHANGED <<running, error, started, main, closing, socket, doubled, playing, heard, left>>

\* _LiveAdapter.interrupt: muted and unmuted again, so it ends up unmuted.
Interrupt ==
  /\ left.toggles > 0
  /\ left' = [left EXCEPT !.toggles = @ - 1]
  /\ SetMuted(FALSE)
  /\ UNCHANGED <<running, thread, playing, heard>>

\* close(): the flag, the cancellation, the sentinel.
Close ==
  /\ closing = "no" /\ left.closes > 0
  /\ left' = [left EXCEPT !.closes = @ - 1]
  /\ running' = FALSE
  /\ audioOut' = Append(audioOut, Sentinel)
  /\ closing' = "joining"
  /\ UNCHANGED <<muted, error, speaking, started, main, caller, socket, doubled, out, playing, drops,
                 inText, outText, finals, tasks>>

\* join(timeout=4.0) returns whether or not the thread has ended.
Closed ==
  /\ closing = "joining"
  /\ closing' = "no"
  /\ speaking' = FALSE
  /\ UNCHANGED <<running, muted, error, started, main, caller, socket, doubled, out, audioOut, playing,
                 drops, inText, outText, finals, tasks, left>>

-----------------------------------------------------------------------------
(* The loop of a session. *)

\* Connected: _session is this connection from now on, the out queue is new, the flag is set
\* and the player starts.
Connected(s) ==
  /\ main[s] = "connecting"
  /\ main' = [main EXCEPT ![s] = "up"]
  /\ socket' = s
  /\ doubled' = (doubled \/ \E t \in Sessions \ {s} : main[t] = "up")
  /\ running' = TRUE
  /\ playing' = [playing EXCEPT ![s] = "loop"]
  /\ UNCHANGED <<muted, error, started, caller, closing, out, heard, left>>

\* The end of _run: the connection failed, or close() cancelled the last session.
\* Tool calls that are still under way are cancelled with the loop.
Ended(s) ==
  /\ main[s] \in {"connecting", "up"}
  /\ main' = [main EXCEPT ![s] = "ended"]
  /\ \/ error' = TRUE
     \/ closing = "joining" /\ s = started /\ error' = error
  /\ running' = FALSE
  /\ call' = [i \in Calls |-> IF handler[i] = s /\ call[i] \in {"asked", "ran"} THEN "dead"
                              ELSE call[i]]
  /\ UNCHANGED <<muted, started, caller, closing, socket, doubled, out, playing, speaking, audioOut,
                 drops, inText, outText, finals, asker, handler, left>>

\* Mutant: the mute is not looked at.
CapturesAlways == TRUE

\* The audio thread: a block is dropped when the microphone is muted, ...
Captures == ~muted

Capture(s) ==
  /\ main[s] = "up" /\ out[s].checked = 0 /\ Captures
  /\ left.blocks > 0
  /\ left' = [left EXCEPT !.blocks = @ - 1]
  /\ out' = [out EXCEPT ![s].checked = 1]
  /\ UNCHANGED <<running, muted, thread, playing, heard>>

\* ... or passed to the loop, unless that is closed by now.
Schedule(s) ==
  /\ out[s].checked = 1
  /\ out' = [out EXCEPT ![s].checked = 0, ![s].scheduled = IF main[s] = "up" THEN @ + 1 ELSE @]
  /\ UNCHANGED <<running, muted, thread, playing, heard, left>>

\* put_nowait in the loop; a block that finds the queue full is dropped.
Put(s) ==
  /\ main[s] = "up" /\ out[s].scheduled > 0
  /\ out' = [out EXCEPT ![s].scheduled = @ - 1,
                        ![s].queued = IF @ < MaxQueue THEN @ + 1 ELSE @]
  /\ UNCHANGED <<running, muted, thread, playing, heard, left>>

TakeBlock(s) ==
  /\ main[s] = "up" /\ running /\ out[s].held = 0 /\ out[s].queued > 0
  /\ out' = [out EXCEPT ![s].queued = @ - 1, ![s].held = 1]
  /\ UNCHANGED <<running, muted, thread, playing, heard, left>>

SendBlock(s) ==
  /\ main[s] = "up" /\ out[s].held = 1
  /\ out' = [out EXCEPT ![s].held = 0, ![s].late = IF muted THEN @ + 1 ELSE @]
  /\ UNCHANGED <<running, muted, thread, playing, heard, left>>

-----------------------------------------------------------------------------
(* Messages from the service. *)

Response(s) ==
  /\ main[s] = "up" /\ left.responses > 0
  /\ left' = [left EXCEPT !.responses = @ - 1]

\* Its number: responses are numbered from the end of the budget.
number == left.responses

Audio(s) ==
  /\ Response(s)
  /\ speaking' = TRUE
  /\ audioOut' = Append(audioOut, drops)
  /\ UNCHANGED <<running, muted, thread, out, playing, drops, inText, outText, finals, tasks>>

\* A fragment of the question.
InputFragment(s) ==
  /\ Response(s)
  /\ inText' = Append(inText, number)
  /\ UNCHANGED <<running, muted, thread, out, playing, speaking, audioOut, drops, outText, finals,
                 tasks>>

\* A fragment of the answer settles the question.
Settle == finals' = (IF inText = <<>> THEN finals ELSE Append(finals, inText)) /\ inText' = <<>>

OutputFragment(s) ==
  /\ Response(s)
  /\ Settle
  /\ outText' = Append(outText, number)
  /\ UNCHANGED <<running, muted, thread, out, playing, speaking, audioOut, drops, tasks>>

TurnComplete(s) ==
  /\ Response(s)
  /\ finals' = IF outText = <<>> THEN finals ELSE Append(finals, outText)
  /\ inText' = <<>> /\ outText' = <<>>
  /\ speaking' = FALSE
  /\ UNCHANGED <<running, muted, thread, out, playing, audioOut, drops, tasks>>

\* Mutant: an interruption drops nothing.
DrainNone == audioOut

\* You spoke over the answer: what is queued is dropped, the sentinel with it.
Drain == <<>>

Interrupted(s) ==
  /\ Response(s)
  /\ audioOut' = Drain
  /\ drops' = drops + 1
  /\ inText' = <<>> /\ outText' = <<>>
  /\ speaking' = FALSE
  /\ UNCHANGED <<running, muted, thread, out, playing, finals, tasks>>

\* A tool call becomes a task of this loop; it came on the connection this loop reads from,
\* its own or the one that took its place in _session.
ToolCall(s) ==
  /\ Response(s)
  /\ call' = [call EXCEPT ![number] = "asked"]
  /\ asker' \in {[asker EXCEPT ![number] = t] : t \in {s, socket}}
  /\ handler' = [handler EXCEPT ![number] = s]
  /\ UNCHANGED <<running, muted, thread, out, playing, speaking, audioOut, drops, inText, outText,
                 finals>>

tooling == <<running, muted, thread, out, playing, speaking, audioOut, drops, inText, outText,
             finals, asker, handler>>

\* _run_tool in a thread: an unknown or undeclared tool, bad arguments, a refusal
\* and any exception all become the text of the result.
RunTool(i) ==
  /\ call[i] = "asked"
  /\ call' = [call EXCEPT ![i] = "ran"]
  /\ UNCHANGED <<tooling, left>>

\* send_tool_response on _session, whichever connection that is by now.
Respond(i) ==
  /\ call[i] = "ran"
  /\ main[socket] = "up"
  /\ call' = [call EXCEPT ![i] = IF socket = asker[i] THEN "answered" ELSE "stray"]
  /\ UNCHANGED <<tooling, left>>

\* The send raises, in a task whose exception nobody asks for: the connection is closed, or
\* fails now.
SendFails(i) ==
  /\ call[i] = "ran"
  /\ IF main[socket] = "up" THEN left.failures > 0 /\ left' = [left EXCEPT !.failures = @ - 1]
     ELSE UNCHANGED left
  /\ call' = [call EXCEPT ![i] = "dropped"]
  /\ UNCHANGED tooling

-----------------------------------------------------------------------------
(* The player. *)

\* get(timeout=0.1): a piece to write, or the sentinel.
PlayerGet(s) ==
  /\ playing[s] = "loop" /\ running /\ audioOut # <<>>
  /\ playing' = [playing EXCEPT ![s] = IF Head(audioOut) = Sentinel THEN "done" ELSE "write"]
  /\ audioOut' = Tail(audioOut)
  /\ UNCHANGED <<running, muted, thread, out, speaking, drops, inText, outText, finals, tasks,
                 left>>

PlayerWrote(s) ==
  /\ playing[s] = "write"
  /\ playing' = [playing EXCEPT ![s] = "loop"]
  /\ UNCHANGED <<running, muted, thread, out, heard, left>>

\* Mutant: only the sentinel ends the player.
QuitsOnSentinel(s) == FALSE

\* The wait times out every 0.1 s, so a cleared flag is seen.
Quits(s) == ~running

PlayerQuits(s) ==
  /\ playing[s] = "loop" /\ Quits(s)
  /\ playing' = [playing EXCEPT ![s] = "done"]
  /\ UNCHANGED <<running, muted, thread, out, heard, left>>

-----------------------------------------------------------------------------
Call(k) == Open(k) \/ Waited(k) \/ Flip(k)

Receive(s) ==
  \/ Audio(s) \/ InputFragment(s) \/ OutputFragment(s)
  \/ TurnComplete(s) \/ Interrupted(s) \/ ToolCall(s)

Plays(s) == PlayerGet(s) \/ PlayerWrote(s) \/ PlayerQuits(s)

Tool(i) == RunTool(i) \/ Respond(i) \/ SendFails(i)

LiveNext ==
  \/ \E k \in Callers : Toggle(k) \/ Call(k)
  \/ Interrupt \/ Close \/ Closed
  \/ \E s \in Sessions :
       Connected(s) \/ Ended(s) \/ Capture(s) \/ Schedule(s) \/ Put(s) \/ TakeBlock(s) \/ SendBlock(s)
       \/ Receive(s) \/ Plays(s)
  \/ \E i \in Calls : Tool(i)

\* The player and the threads of the tools run.
LiveSpec ==
  /\ LiveInit /\ [][LiveNext]_liveVars
  /\ \A s \in Sessions : WF_liveVars(Plays(s))
  /\ \A i \in Calls : WF_liveVars(Tool(i))

-----------------------------------------------------------------------------
(* Properties. *)

\* Muting while blocks are under way: no more are sent after it than had passed the check of
\* the mute by then, whatever else happens.
LateBlocksBounded == \A s \in Sessions : out[s].late <= out[s].owed

\* No fragment is part of two final transcripts, neither as a repetition of the
\* question nor as a leftover of an interrupted or finished turn in a later one.
FinalsDisjoint ==
  \A i, j \in DOMAIN finals : i # j => Range(finals[i]) \cap Range(finals[j]) = {}

\* What is captured once the microphone is muted stays bounded, and what was heard or said is
\* reported once.
HeardOnce == LateBlocksBounded /\ FinalsDisjoint

\* The next piece the player takes after an interruption was received after it.
InterruptionIsSilent ==
  [][\A s \in Sessions :
       playing[s] = "loop" /\ playing'[s] = "write" => Head(audioOut) = drops]_liveVars

\* With the flag down for good every player ends: although close() leaves the
\* sentinel to one of them and an interruption may have swallowed it.
PlayersEnd == (<>[]~running) => <>[](\A s \in Sessions : playing[s] \in {"none", "done"})

\* As long as one session at a time was up, every call is answered on the connection it came
\* on, unless its loop ends or the answer cannot be sent; of two sessions at once a call may
\* be answered on the connection of the other, but is not kept.
Settled(i) == call[i] \in {"answered", "dropped", "dead"} \/ (call[i] = "stray" /\ doubled)
CallsAnswered == \A i \in Calls : call[i] = "asked" ~> Settled(i)

\* Whatever a conversation started comes to its end.
EverythingEnds == PlayersEnd /\ CallsAnswered

\* "the Live API keeps the turn open until it gets a response for every call" (live.py:388).
\* False: a second session takes the connection, or the send fails, and nobody is told.
EveryCallAnswered == \A i \in Calls : call[i] = "asked" ~> call[i] \in {"answered", "dead"}

\* The microphone opens only by a toggle.  False: the interrupt that stops the
\* speech unmutes.
OnlyToggleUnmutes ==
  [][muted /\ ~muted' => \E k \in Callers : caller[k] = "flip" /\ caller'[k] = "idle"]_liveVars
=============================================================================
