----------------------------- MODULE Microphone -----------------------------
(***************************************************************************)
(* The on-device speech recogniser (voice/macos.py, AppleRecognizer).      *)
(*                                                                         *)
(* Three kinds of thread meet in it: the audio thread (tap and the         *)
(* endpoint detector), the main queue (results of recognition tasks) and   *)
(* the threads that start, stop, suspend and resume it.  start() and       *)
(* stop() hold the lock; nothing else does.                                *)
(*                                                                         *)
(* Abstractions: a request and its task are one number; what a request has *)
(* heard is the sequence of the words appended to it, and a result is a    *)
(* prefix of that, delivered at any later time.  Amplitudes are small      *)
(* integers with the code's comparisons; time is counted in buffers.       *)
(***************************************************************************)
EXTENDS Naturals, Sequences, FiniteSets, SequencesExt

CONSTANTS MaxRequests,  \* recognition requests created over the run
          Budgets,      \* how many of each event a behaviour may have
          Loud,         \* amplitude of speech
          Rooms,        \* what a room may be: the amplitudes its buffers have, in any order
          Margin,       \* speech_margin
          Faint,        \* _ABSOLUTE_FLOOR
          FloorRise,    \* _FLOOR_RISE
          Silence       \* buffers of silence that end an utterance

Requests == 1 .. MaxRequests

ASSUME MicrophoneAssumption ==
  /\ {MaxRequests, Loud, Margin, Faint, FloorRise, Silence} \subseteq Nat
  /\ Rooms \subseteq (SUBSET Nat) \ {{}} /\ {0} \in Rooms
  /\ Budgets \subseteq [words : Nat, results : Nat, starts : Nat, stops : Nat, gates : Nat,
                        noise : Nat]

VARIABLES
  listening,  \* _listening
  engine,     \* the audio engine runs and the tap is installed
  request,    \* _request and _task: 0 for None
  live,       \* the tasks that were created and not cancelled
  created,    \* requests created so far
  heard,      \* heard[r]: the words appended to request r
  handler,    \* _on_result is set
  pending,    \* _pending
  quiet,      \* buffers since _last_voice, up to Silence
  floor,      \* _floor
  room,       \* the amplitudes of the room
  suspended,  \* _suspended
  swap,       \* swap[t]: the buffer, endpoint or restart thread t is in
  stopping,   \* stop() is between the teardown and its finally
  after,      \* utterances reported since the microphone was closed
  cut,        \* words of utterances that were reported, dropped or abandoned
  dirty,      \* an utterance was taken for the handler with a word that had been cut before
  excused,    \* a result came late, or a new request could not be made
  left        \* words, results, starts, stops, suspensions still to come

vars == <<listening, engine, request, live, created, heard, handler, pending, quiet, floor,
          room, suspended, swap, stopping, after, cut, dirty, excused, left>>

tasks == <<request, live, created>>
sound == <<quiet, floor, room>>
report == <<after, cut, dirty, excused>>

\* Threads that may be replacing the request: the audio thread and the one that
\* resumes the microphone.
Threads == {"tap", "gate"}

Idle == [pc |-> "idle", old |-> 0, new |-> 0, to |-> FALSE]

Init ==
  /\ listening = FALSE /\ engine = FALSE /\ request = 0
  /\ live = {} /\ created = 0
  /\ heard = [r \in Requests |-> <<>>]
  /\ handler = FALSE /\ pending = <<>>
  /\ quiet = 0 /\ floor = Loud /\ room = {0}
  /\ suspended = FALSE
  /\ swap = [t \in Threads |-> Idle]
  /\ stopping = FALSE
  /\ after = 0 /\ cut = {} /\ dirty = FALSE /\ excused = FALSE
  /\ left \in Budgets

Spend(what) == left[what] > 0 /\ left' = [left EXCEPT ![what] = @ - 1]

\* Words heard so far, over all requests.
Spoken == UNION {Range(heard[r]) : r \in Requests}

-----------------------------------------------------------------------------
(* start() and stop(), under the lock. *)

Start ==
  /\ ~listening /\ ~stopping /\ created < MaxRequests
  /\ Spend("starts")
  /\ created' = created + 1
  /\ live' = live \cup {created'}
  /\ \/ /\ listening' = TRUE /\ engine' = TRUE /\ request' = created'
        /\ handler' = TRUE /\ pending' = <<>>
        /\ quiet' = 0 /\ floor' = Loud
        /\ after' = 0
     \/ UNCHANGED <<listening, engine, request, handler, pending, quiet, floor, after>>
  /\ UNCHANGED <<heard, room, suspended, swap, stopping, cut, dirty, excused>>

\* The engine, the tap and the task end, or one of the calls raises and what comes after it is
\* left as it is.
Teardown ==
  \/ engine' = FALSE /\ live' = live \ {request}
  \/ engine' \in {engine, FALSE} /\ UNCHANGED live

\* The handler and the pending text go first, then the engine and the task.
Stop ==
  /\ listening /\ ~stopping
  /\ Spend("stops")
  /\ handler' = FALSE /\ pending' = <<>>
  /\ Teardown
  /\ stopping' = TRUE
  /\ after' = 0
  /\ cut' = cut \cup Spoken
  /\ UNCHANGED <<listening, request, created, heard, sound, suspended, swap, dirty, excused>>

\* An engine that could not be stopped goes with the last reference to it.
StopFinally ==
  /\ stopping
  /\ stopping' = FALSE /\ listening' = FALSE /\ request' = 0 /\ engine' = FALSE
  /\ UNCHANGED <<live, created, heard, handler, pending, sound, suspended, swap,
                 report, left>>

-----------------------------------------------------------------------------
(* The audio thread. *)

Lower(a, b) == IF a < b THEN a ELSE b

\* Mutant: a floor that never rises.
FloorLowest(level) == Lower(level, floor)

\* The noise floor falls at once and rises slowly.
Floor(level) == Lower(level, floor + FloorRise)

Hears(level) == level > Floor(level) + Margin /\ level > Faint

\* The tap is done with its buffer.
Appended == swap' = [swap EXCEPT !["tap"] = Idle]

\* _maybe_endpoint for a buffer of this level, once it has been appended.
Endpoint(level) ==
  /\ floor' = Floor(level)
  /\ IF Hears(level)
       THEN quiet' = 0 /\ Appended /\ UNCHANGED <<pending, cut, dirty>>
       ELSE IF pending = <<>> \/ quiet < Silence
       THEN /\ quiet' = (IF quiet < Silence THEN quiet + 1 ELSE quiet)
            /\ Appended /\ UNCHANGED <<pending, cut, dirty>>
       ELSE /\ swap' = [swap EXCEPT !["tap"] =
                          [Idle EXCEPT !.pc = "report", !.to = handler]]
            /\ dirty' = (dirty \/ (handler /\ Range(pending) \cap cut # {}))
            /\ cut' = cut \cup Range(pending)
            /\ pending' = <<>>
            /\ quiet' = 0

\* A buffer of speech: the tap reads which request is the current one, ...
Tap ==
  /\ engine /\ swap["tap"].pc = "idle" /\ ~suspended /\ left["words"] > 0
  /\ swap' = [swap EXCEPT !["tap"] = [Idle EXCEPT !.pc = "append", !.old = request]]
  /\ UNCHANGED <<listening, engine, tasks, heard, handler, pending, sound, suspended, stopping,
                 report, left>>

\* ... and appends to it, whatever has become of it; the level counts unless the microphone
\* has been suspended by now.
Speech ==
  /\ swap["tap"].pc = "append"
  /\ Spend("words")
  /\ heard' = IF swap["tap"].old = 0 THEN heard
              ELSE [heard EXCEPT ![swap["tap"].old] = Append(@, left["words"])]
  /\ IF suspended
       THEN Appended /\ UNCHANGED <<pending, quiet, floor, cut, dirty>>
       ELSE Endpoint(Loud)
  /\ UNCHANGED <<listening, engine, tasks, handler, room, suspended, stopping, after, excused>>

\* A buffer of nothing but the room.
Quiet ==
  /\ engine /\ swap["tap"].pc = "idle" /\ ~suspended
  /\ \E level \in room : Endpoint(level)
  /\ UNCHANGED <<listening, engine, tasks, heard, handler, room, suspended, stopping, after,
                 excused, left>>

\* The room changes.
Noise ==
  /\ Spend("noise")
  /\ room' \in Rooms
  /\ UNCHANGED <<listening, engine, tasks, heard, handler, pending, quiet, floor, suspended, swap,
                 stopping, report>>

\* Mutant: the request goes on after an utterance.
KeepRequest == Idle

\* The next utterance needs a request of its own.
FreshRequest == [Idle EXCEPT !.pc = "create"]

\* The utterance is reported to the handler that was set when it was taken.
Report ==
  /\ swap["tap"].pc = "report"
  /\ after' = IF swap["tap"].to /\ (stopping \/ ~listening) THEN after + 1 ELSE after
  /\ swap' = [swap EXCEPT !["tap"] = FreshRequest]
  /\ UNCHANGED <<listening, engine, tasks, heard, handler, pending, sound, suspended, stopping,
                 cut, dirty, excused, left>>

-----------------------------------------------------------------------------
(* _restart_request, by the audio thread or by the one that resumes. *)

\* The old pair is read and a new request and task are made.
Create(t) ==
  /\ swap[t].pc = "create" /\ created < MaxRequests
  /\ created' = created + 1
  /\ live' = live \cup {created'}
  /\ swap' = [swap EXCEPT ![t] = [Idle EXCEPT !.pc = "first", !.old = request, !.new = created']]
  /\ UNCHANGED <<listening, engine, request, heard, handler, pending, sound, suspended, stopping,
                 report, left>>

\* The two halves of the swap.
Publish(t) == request' = swap[t].new /\ UNCHANGED live

Cancel(t) == live' = live \ {swap[t].old} /\ UNCHANGED request

\* Mutant: the old task is cancelled before the new request is published.
CancelFirst(t) == IF swap[t].pc = "first" THEN Cancel(t) ELSE Publish(t)

\* Publish the new pair before tearing down the old.
Order(t) == IF swap[t].pc = "first" THEN Publish(t) ELSE Cancel(t)

Replace(t) ==
  /\ swap[t].pc \in {"first", "second"}
  /\ Order(t)
  /\ swap' = [swap EXCEPT ![t] = IF swap[t].pc = "first" THEN [@ EXCEPT !.pc = "second"] ELSE Idle]
  /\ UNCHANGED <<listening, engine, created, heard, handler, pending, sound, suspended, stopping,
                 report, left>>

\* The swap fails and is logged.
ReplaceFails(t) ==
  /\ swap[t].pc = "create"
  /\ swap' = [swap EXCEPT ![t] = Idle]
  /\ excused' = TRUE
  /\ UNCHANGED <<listening, engine, tasks, heard, handler, pending, sound, suspended, stopping,
                 after, cut, dirty, left>>

-----------------------------------------------------------------------------
(* set_suspended. *)

Suspend ==
  /\ ~suspended /\ swap["gate"].pc = "idle"
  /\ Spend("gates")
  /\ suspended' = TRUE
  /\ pending' = <<>>
  /\ cut' = cut \cup Spoken
  /\ UNCHANGED <<listening, engine, tasks, heard, handler, sound, swap, stopping, after, dirty,
                 excused>>

\* Resuming starts a fresh request, listening or not.
Resume ==
  /\ suspended /\ swap["gate"].pc = "idle"
  /\ suspended' = FALSE
  /\ quiet' = 0
  /\ swap' = [swap EXCEPT !["gate"] = [Idle EXCEPT !.pc = "create"]]
  /\ UNCHANGED <<listening, engine, tasks, heard, handler, pending, floor, room, stopping,
                 report, left>>

-----------------------------------------------------------------------------
(* The main queue. *)

\* A result: some prefix of what the request has heard becomes the pending text.
\* A task that was cancelled may still have one on the way.
Result(r) ==
  \E n \in 1 .. Len(heard[r]) :
    /\ Spend("results")
    /\ pending' = SubSeq(heard[r], 1, n)
    /\ excused' = (excused \/ r # request \/ suspended \/ \E t \in Threads : swap[t].pc \notin {"idle", "append"})
    /\ UNCHANGED <<listening, engine, tasks, heard, handler, sound, suspended, swap, stopping,
                   after, cut, dirty>>

-----------------------------------------------------------------------------
Restart(t) == Create(t) \/ Replace(t) \/ ReplaceFails(t)

Next ==
  \/ Start \/ Stop \/ StopFinally \/ Suspend \/ Resume
  \/ Tap \/ Speech \/ Quiet \/ Noise \/ Report
  \/ \E t \in Threads : Restart(t)
  \/ \E r \in Requests : Result(r)

\* Buffers keep coming while the engine runs, and the user falls silent at some
\* time: the words are bounded.
Spec == Init /\ [][Next]_vars /\ WF_vars(Speech) /\ WF_vars(Quiet) /\ WF_vars(Report)
             /\ \A t \in Threads : WF_vars(Restart(t))

-----------------------------------------------------------------------------
(* Properties. *)

\* Unless a result comes late or a restart fails, no utterance is reported with
\* the words of an earlier one, or of what was said before a suspension or before
\* stop().
UtterancesAreClean == dirty => excused

\* "so the audio tap never sees a null request and drops buffers mid-sentence":
\* while the engine runs the request the tap appends to exists and its task is
\* live, whoever is replacing it, be it two threads at once.
FedIsLive == engine => request \in live

\* At most one utterance, the one being reported when stop() was called, arrives
\* after the microphone has been closed.
LateFinalBounded == after <= 1

\* The tap is served while the microphone is open and quiet soon after it is closed.
TapIsServed == FedIsLive /\ LateFinalBounded

\* A room whose buffers differ by no more than the margin, or are all faint.
Calm == (\A a, b \in room : a <= b + Margin) \/ (\A a \in room : a <= Faint)

\* An utterance that has been understood is reported once its speaker is silent, in a room that
\* is calm from then on, however loud it has become meanwhile.
UtterancesEnd ==
  (pending # <<>> /\ engine /\ ~suspended /\ Calm)
    ~> (pending = <<>> \/ ~engine \/ suspended \/ ~Calm)

\* "it settles on ambient within a second or two and follows the room": an utterance ends in any
\* room.  False: a single low buffer takes the floor down at once, and from there every high one
\* counts as speech.
FollowsTheRoom ==
  (pending # <<>> /\ engine /\ ~suspended) ~> (pending = <<>> \/ ~engine \/ suspended)

\* A closed microphone has no task left.  False: a failed start, a resume or an
\* endpoint that overlaps stop() leaves one.
ClosedIsQuiet ==
  ~listening /\ (\A t \in Threads : swap[t].pc = "idle") => live = {}
=============================================================================
