---------------------------- MODULE EventStreams ----------------------------
(***************************************************************************)
(* The /events streams of the local server and the microphone switch that  *)
(* several open pages share through them (interface/server.py, the voice   *)
(* part of interface/webui/app.js).                                        *)
(*                                                                         *)
(* A connection to /events is one handler thread with a queue of its own   *)
(* in Runtime.listeners.  /voice/toggle flips the microphone in a thread   *)
(* per request and appends the new state to a copy of the listeners.  A    *)
(* page flips its indicator at once, posts the toggle and adopts whatever  *)
(* the server answers or announces.  Escape posts an interrupt, which in   *)
(* live mode mutes and unmutes the microphone and is not announced.        *)
(*                                                                         *)
(* Simplifications: an event is handled by the page in the step in which   *)
(* the handler writes it (its delay is its time in the queue); everything  *)
(* broadcast that is not a microphone state is one kind of event, "note".  *)
(***************************************************************************)
EXTENDS Naturals, Sequences, FiniteSets, SequencesExt

CONSTANTS NumPages,     \* the open windows
          MaxConns,     \* connections to /events over the whole run
          MaxPresses,   \* presses of the key
          MaxNotes,     \* other broadcasts
          MaxQueue,     \* maxlen of a queue (64 in the code)
          MaxFaults     \* dropped connections, failed fetches, refusals, reloads, ended sessions

ASSUME StreamsAssumption ==
  /\ NumPages \in Nat \ {0} /\ MaxConns \in Nat /\ NumPages <= MaxConns
  /\ MaxPresses \in Nat /\ MaxNotes \in Nat
  /\ MaxQueue \in Nat \ {0} /\ MaxFaults \in Nat

Pages == 1 .. NumPages
Conns == 1 .. MaxConns
Presses == 1 .. MaxPresses

VARIABLES
  live,       \* voice.mode: the live session and not the local one
  mic,        \* recognizer.is_listening; in live mode, that the session is not muted
  open,       \* in live mode, that the session is open
  escape,     \* interrupt() is between the mute and the unmute
  listeners,  \* Runtime.listeners: the connections whose queues are listed
  queue,      \* queue[c]
  handler,    \* handler[c]: "none", "listed", "open", "over", "lost"
  conn,       \* conn[p]: the connection the page reads, 0 between two of them
  shows,      \* shows[p]: state.listening
  lastSent,   \* lastSent[p]: lastSentListening
  sync,       \* sync[p]: GET /voice/status: "asked", the value read, or "done"
  toggle,     \* toggle[r]: the request thread of the r-th press
  presses,    \* presses so far
  posts,      \* toggles posted so far
  notes,      \* other broadcasts so far
  faults,     \* faults so far
  calm        \* every press so far found the system at rest, nothing failed

eventVars == <<live, mic, open, escape, listeners, queue, handler, conn, shows, lastSent, sync, toggle,
               presses, posts, notes, faults, calm>>

page == <<shows, lastSent, toggle, posts>>
switch == <<live, mic, open, escape>>
server == <<switch, listeners, queue, handler>>

\* What /voice/status calls listening.
Listening == mic /\ open

Idle == [pc |-> "idle", page |-> 1, on |-> FALSE]

\* The pages have loaded and nothing has happened yet.
EventsInit ==
  /\ live \in BOOLEAN /\ mic = FALSE /\ open = ~live /\ escape = FALSE
  /\ listeners = [i \in Pages |-> i]
  /\ queue = [c \in Conns |-> <<>>]
  /\ handler = [c \in Conns |-> IF c \in Pages THEN "open" ELSE "none"]
  /\ conn = [p \in Pages |-> p]
  /\ shows = [p \in Pages |-> FALSE]
  /\ lastSent = [p \in Pages |-> FALSE]
  /\ sync = [p \in Pages |-> "done"]
  /\ toggle = [r \in Presses |-> Idle]
  /\ presses = 0 /\ posts = 0 /\ notes = 0 /\ faults = 0
  /\ calm = TRUE

\* One more fault.  From then on agreement is not promised.
Fault == faults < MaxFaults /\ faults' = faults + 1 /\ calm' = FALSE

-----------------------------------------------------------------------------
(* The queues. *)

\* deque(maxlen): an append to a full queue drops the oldest event.
Append64(q, e) == IF Len(q) < MaxQueue THEN Append(q, e) ELSE Append(Tail(q), e)

\* listeners.remove(queue): the first listed queue with the same contents goes.
RemoveEqual(c) ==
  LET same == {i \in DOMAIN listeners : queue[listeners[i]] = queue[c]}
  IN  IF same = {} THEN listeners
      ELSE RemoveAt(listeners, CHOOSE i \in same : \A j \in same : i <= j)

-----------------------------------------------------------------------------
(* A page. *)

\* Posting POST /voice/toggle: a fresh request thread.
Post(p) == [toggle EXCEPT ![presses + 1] = [Idle EXCEPT !.pc = "asked", !.page = p]]

\* setPermanentUnmute(v) and the change handler it fires: a page posts a toggle
\* only when the new state differs from what it last sent, which is now `sent`.
SetShown(p, v, sent) ==
  /\ shows' = [shows EXCEPT ![p] = v]
  /\ lastSent' = [lastSent EXCEPT ![p] = v]
  /\ IF v = sent \/ presses = MaxPresses
       THEN posts' = posts + (IF v = sent THEN 0 ELSE 1) /\ toggle' = toggle
       ELSE posts' = posts + 1 /\ toggle' = Post(p)

\* Mutant: adopting without marking the state as sent.
AdoptUnmarked(p, v) == SetShown(p, v, lastSent[p])

\* Adopting the server's state sets lastSentListening first.
Adopt(p, v) == SetShown(p, v, v)

\* Nothing is under way: every page has synchronised and reads a listed
\* connection with an empty queue, and neither a toggle nor an interrupt is
\* being served.
AtRest ==
  /\ ~escape
  /\ \A p \in Pages : sync[p] = "done" /\ conn[p] # 0
  /\ \A p \in Pages : handler[conn[p]] = "open" /\ queue[conn[p]] = <<>>
  /\ \A r \in Presses : toggle[r].pc = "idle"

\* The key: the indicator flips at once and the change handler posts the toggle.
Press(p) ==
  /\ presses < MaxPresses
  /\ SetShown(p, ~shows[p], lastSent[p])
  /\ presses' = presses + 1
  /\ calm' = (calm /\ AtRest)
  /\ UNCHANGED <<server, conn, sync, notes, faults>>

\* Escape, on any page: _LiveAdapter.interrupt mutes, and then unmutes, whatever it was before.
\* The local session stops to speak, which its microphone does not show.
Escape ==
  /\ live /\ ~escape
  /\ mic' = FALSE /\ escape' = TRUE
  /\ calm' = (calm /\ AtRest /\ Listening)
  /\ UNCHANGED <<live, open, listeners, queue, handler, conn, page, sync, presses, notes, faults>>

Escaped ==
  /\ escape
  /\ mic' = TRUE /\ escape' = FALSE
  /\ UNCHANGED <<live, open, listeners, queue, handler, conn, page, sync, presses, notes, faults, calm>>

\* The live session ends by itself, and stays muted or unmuted as it was.
SessionEnds ==
  /\ live /\ open /\ faults < MaxFaults
  /\ faults' = faults + 1
  /\ open' = FALSE
  /\ calm' = (calm /\ ~mic /\ ~escape)
  /\ UNCHANGED <<live, mic, escape, listeners, queue, handler, conn, page, sync, presses, notes>>

\* openEvents: a new EventSource.  The server appends a queue for it.
Connect(p) ==
  \E c \in Conns :
    /\ conn[p] = 0 /\ handler[c] = "none"
    /\ \A d \in Conns : d < c => handler[d] # "none"
    /\ conn' = [conn EXCEPT ![p] = c]
    /\ handler' = [handler EXCEPT ![c] = "listed"]
    /\ listeners' = Append(listeners, c)
    /\ UNCHANGED <<switch, queue, page, sync, presses, notes, faults, calm>>

\* The connection breaks: the page closes its EventSource and will reconnect;
\* the handler learns of it when it next writes.
Drop(p) ==
  /\ conn[p] # 0
  /\ conn' = [conn EXCEPT ![p] = 0]
  /\ Fault
  /\ UNCHANGED <<server, page, sync, presses, notes>>

\* A reload starts the page from its resting state, and asks for the status.
Reload(p) ==
  /\ sync[p] = "done" /\ conn[p] # 0
  /\ \A r \in Presses : toggle[r].page = p => toggle[r].pc = "idle"
  /\ conn' = [conn EXCEPT ![p] = 0]
  /\ shows' = [shows EXCEPT ![p] = FALSE]
  /\ lastSent' = [lastSent EXCEPT ![p] = FALSE]
  /\ sync' = [sync EXCEPT ![p] = "asked"]
  /\ Fault
  /\ UNCHANGED <<server, toggle, posts, presses, notes>>

\* syncVoice: the status is read in the server and adopted later by the page.
ReadStatus(p) ==
  /\ sync[p] = "asked"
  /\ sync' = [sync EXCEPT ![p] = IF Listening THEN "on" ELSE "off"]
  /\ UNCHANGED <<server, conn, page, presses, notes, faults, calm>>

Synced(p) ==
  /\ sync[p] \in {"on", "off"}
  /\ sync' = [sync EXCEPT ![p] = "done"]
  /\ Adopt(p, sync[p] = "on")
  /\ UNCHANGED <<server, conn, presses, notes, faults, calm>>

-----------------------------------------------------------------------------
(* The handler of a connection. *)

Reader(c) == {p \in Pages : conn[p] = c}

\* _open_stream.  A page that has gone makes it raise outside the try, and the
\* queue stays listed.
OpenStream(c) ==
  /\ handler[c] = "listed"
  /\ \/ handler' = [handler EXCEPT ![c] = "open"]
     \/ Reader(c) = {} /\ handler' = [handler EXCEPT ![c] = "lost"]
  /\ UNCHANGED <<switch, listeners, queue, conn, page, sync, presses, notes, faults, calm>>

\* The next queued event is written; the page ignores a state it already shows.
Deliver(c) ==
  /\ handler[c] = "open" /\ queue[c] # <<>>
  /\ queue' = [queue EXCEPT ![c] = Tail(@)]
  /\ \/ \E p \in Reader(c) :
          /\ Head(queue[c]) # "note"
          /\ shows[p] # (Head(queue[c]) = "on")
          /\ Adopt(p, Head(queue[c]) = "on")
     \/ /\ \A p \in Reader(c) : Head(queue[c]) \in {"note", IF shows[p] THEN "on" ELSE "off"}
        /\ UNCHANGED page
  /\ UNCHANGED <<switch, listeners, handler, conn, sync, presses, notes, faults, calm>>

\* A write to a page that has gone fails, be it an event, a level or the ping
\* every ten seconds: the finally removes a queue equal to its own.
Gone(c) ==
  /\ handler[c] = "open" /\ Reader(c) = {}
  /\ handler' = [handler EXCEPT ![c] = "over"]
  /\ listeners' = RemoveEqual(c)
  /\ UNCHANGED <<switch, queue, conn, page, sync, presses, notes, faults, calm>>

-----------------------------------------------------------------------------
(* POST /voice/toggle, one thread per request. *)

Step(r, t) == toggle' = [toggle EXCEPT ![r] = t]

\* VoiceSession.toggle: is_listening is read, then start() or stop() is called;
\* _LiveAdapter.toggle: muted is read, and inverted.
Decide(r) ==
  /\ toggle[r].pc = "asked"
  /\ Step(r, [toggle[r] EXCEPT !.pc = IF mic THEN "stop" ELSE "start"])
  /\ UNCHANGED <<server, conn, shows, lastSent, sync, presses, posts, notes, faults, calm>>

\* Both return at once when there is nothing to do; start() may be refused, and so may the
\* opening of a live session, which comes before the microphone is touched.
Act(r) ==
  /\ toggle[r].pc \in {"start", "stop"}
  /\ \/ /\ mic' = (toggle[r].pc = "start") /\ open' = TRUE
        /\ Step(r, [toggle[r] EXCEPT !.pc = "read"])
        /\ UNCHANGED <<faults, calm>>
     \/ /\ Fault
        /\ IF live THEN ~open ELSE toggle[r].pc = "start" /\ ~mic
        /\ UNCHANGED <<mic, open>>
        /\ Step(r, [toggle[r] EXCEPT !.pc = "refused"])
  /\ UNCHANGED <<live, escape, listeners, queue, handler, conn, shows, lastSent, sync, presses, posts, notes>>

\* The state toggle() returns, and then the announcement to every listed queue.
ReadBack(r) ==
  /\ toggle[r].pc = "read"
  /\ Step(r, [toggle[r] EXCEPT !.pc = "tell", !.on = Listening])
  /\ UNCHANGED <<server, conn, shows, lastSent, sync, presses, posts, notes, faults, calm>>

\* Mutant: only the oldest page is told.
BroadcastFirst(e) ==
  queue' = [c \in Conns |-> IF listeners # <<>> /\ c = listeners[1] THEN Append64(queue[c], e)
                            ELSE queue[c]]

\* for queue in list(listeners): queue.append(e)
Broadcast(e) ==
  queue' = [c \in Conns |-> IF Contains(listeners, c) THEN Append64(queue[c], e) ELSE queue[c]]

Tell(r) ==
  /\ toggle[r].pc = "tell"
  /\ Broadcast(IF toggle[r].on THEN "on" ELSE "off")
  /\ Step(r, [toggle[r] EXCEPT !.pc = "answer"])
  /\ UNCHANGED <<switch, listeners, handler, conn, shows, lastSent, sync, presses, posts, notes,
                 faults, calm>>

\* The answer reaches the page that asked.  A refusal mutes the indicator.
Answer(r) ==
  LET p == toggle[r].page IN
  /\ toggle[r].pc \in {"answer", "refused"}
  /\ LET on == toggle[r].pc = "answer" /\ toggle[r].on
     IN  /\ shows' = [shows EXCEPT ![p] = on]
         /\ lastSent' = [lastSent EXCEPT ![p] = on]
  /\ Step(r, Idle)
  /\ UNCHANGED <<server, conn, sync, presses, posts, notes, faults, calm>>

\* The fetch fails: the page only says so.
AnswerLost(r) ==
  /\ Fault
  /\ toggle[r].pc \in {"answer", "refused"}
  /\ Step(r, Idle)
  /\ UNCHANGED <<server, conn, shows, lastSent, sync, presses, posts, notes>>

\* _push_state, _push_transcript and the tool events of a task.
Notify ==
  /\ notes < MaxNotes
  /\ notes' = notes + 1
  /\ Broadcast("note")
  /\ UNCHANGED <<switch, listeners, handler, conn, page, sync, presses, faults, calm>>

-----------------------------------------------------------------------------
Serve(r) == Decide(r) \/ Act(r) \/ ReadBack(r) \/ Tell(r) \/ Answer(r) \/ AnswerLost(r)

Handle(c) == OpenStream(c) \/ Deliver(c) \/ Gone(c)

Refresh(p) == Connect(p) \/ ReadStatus(p) \/ Synced(p)

EventsNext ==
  \/ \E p \in Pages : Press(p) \/ Drop(p) \/ Reload(p) \/ Refresh(p)
  \/ \E c \in Conns : Handle(c)
  \/ \E r \in Presses : Serve(r)
  \/ Escape \/ Escaped \/ SessionEnds
  \/ Notify

EventsSpec == EventsInit /\ [][EventsNext]_eventVars

-----------------------------------------------------------------------------
(* Properties. *)

\* Each press posts one toggle and nothing else does: a state that a page
\* adopts from an event, an answer or the status is never posted back, however
\* answers, events, reloads and the presses of other pages interleave (app.js:
\* "the two flip the mic open and closed forever").
NoEcho == posts = presses

\* When the key was only ever pressed with everything at rest, nothing has failed, and neither
\* an interrupt nor the end of a live session has moved the microphone, then at rest every page
\* shows the state of the microphone.
CalmAgreement == calm /\ AtRest => \A p \in Pages : shows[p] = Listening

\* What the pages are to show: an interrupt mutes an open microphone for a moment only.
Told == mic \/ escape

\* What the last press asked for: until its thread has acted, the microphone is still
\* the opposite.
Wanted == IF \E r \in Presses : toggle[r].pc \in {"asked", "start", "stop"} THEN ~Told ELSE Told

\* As long as that is so, the pages share one switch: each press flips it once, every
\* page follows once, and none is ever taken back to a state that is over, by an event
\* that waited in its queue or an answer that was late.
Switch == INSTANCE SharedSwitch WITH on <- Wanted, seen <- shows, sound <- calm
PagesShareASwitch == Switch!Spec

\* "Tell every open page": the queue of a page whose stream is open is listed.
\* False: a handler that ends removes the first queue equal to its own.
OpenPageHears == \A c \in Conns : handler[c] = "open" => Contains(listeners, c)

\* The indicator is right at rest.  False: two toggles may announce their states
\* in the other order than they took effect, and in live mode Escape unmutes and a session
\* ends without a word to the pages.
IndicatorTruthful == AtRest => \A p \in Pages : shows[p] = Listening
=============================================================================
