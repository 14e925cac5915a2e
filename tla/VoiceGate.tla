------------------------------ MODULE VoiceGate ------------------------------
(***************************************************************************)
(* The microphone gate of src/arc/voice/session.py.  While ARC speaks the  *)
(* recogniser is suspended; a chain of threading.Timer objects polls the   *)
(* synthesiser and opens it again.  Sentences are spoken by the thread     *)
(* that feeds a reply, interrupt() is called by others, and each timer     *)
(* runs on a thread of its own; the gate's fields are shared unlocked.     *)
(*                                                                         *)
(* The synthesiser is Gemini's (voice/gemini.py), which GeminiSpeech has   *)
(* in detail, as the gate sees it: it answers is_speaking with false in    *)
(* the moment before a sentence sounds, may fail to synthesise one, and    *)
(* may be left with sentences and no worker, so that it speaks for ever.   *)
(* A timer fires at any moment after it was started.                       *)
(***************************************************************************)
EXTENDS Naturals, FiniteSets

CONSTANTS
  MaxSentences,   \* bound: sentences spoken
  Callers,        \* the threads that may call interrupt()
  MaxInterrupts,  \* bound: calls of interrupt()
  MaxEvents,      \* bound: both together
  MaxTimers       \* bound: timers that exist at one time

ASSUME GateAssumption ==
  /\ MaxSentences \in Nat \ {0}
  /\ MaxInterrupts \in Nat /\ MaxEvents \in Nat
  /\ MaxTimers \in Nat \ {0}
  /\ \A c \in Callers : c \notin 0 .. MaxTimers

Timers == 1 .. MaxTimers
Feeder == 0
Speakers == {Feeder} \cup Callers \cup Timers

VARIABLES
  pc,         \* pc[t]: where a thread is; for a timer, its life
  resumes,    \* resumes[t]: the timer's function is _resume_input, not _watch_for_end
  timer,      \* self._resume_timer, 0 for None
  flag,       \* self._input_suspended
  deaf,       \* the recogniser is suspended
  queue,      \* sentences handed to the synthesiser and not yet over
  playing,    \* one of them is audible
  stranded,   \* sentences are queued and the worker that would take them has ended
  spoken,     \* sentences spoken so far
  calls       \* calls of interrupt() so far

gateVars == <<flag, deaf>>
timerVars == <<resumes, timer>>
speechVars == <<queue, playing, stranded, spoken>>
sessionVars == <<pc, timerVars, gateVars, speechVars, calls>>

GateTypeOK ==
  /\ pc[Feeder] \in {"idle", "check", "deafen", "cancel", "watch", "arm", "speak"}
  /\ \A c \in Callers : pc[c] \in {"idle", "stop", "cancel", "resume", "arm"}
  /\ \A t \in Timers :
       pc[t] \in {"free", "new", "void", "armed", "ask", "watch", "arm", "unflag", "open"}
  /\ DOMAIN pc = Speakers
  /\ resumes \in [Timers -> BOOLEAN]
  /\ timer \in 0 .. MaxTimers
  /\ flag \in BOOLEAN /\ deaf \in BOOLEAN
  /\ queue \in 0 .. MaxSentences /\ playing \in BOOLEAN /\ stranded \in BOOLEAN
  /\ spoken \in 0 .. MaxSentences
  /\ calls \in 0 .. MaxInterrupts

GateInit ==
  /\ pc = [t \in Speakers |-> IF t \in Timers THEN "free" ELSE "idle"]
  /\ resumes = [t \in Timers |-> FALSE] /\ timer = 0
  /\ flag = FALSE /\ deaf = FALSE
  /\ queue = 0 /\ playing = FALSE /\ stranded = FALSE /\ spoken = 0 /\ calls = 0

\* What is_speaking may answer: between a sentence's turn and its sound neither the queues nor
\* a process know of it.
IsSpeaking ==
  IF queue = 0 THEN {FALSE} ELSE IF playing \/ stranded THEN {TRUE} ELSE BOOLEAN

Goto(t, step) == pc' = [pc EXCEPT ![t] = step]

\* Where a thread goes when it has armed a timer, or when arming one raised.
AfterArm(t) == IF t = Feeder THEN "speak" ELSE IF t \in Timers THEN "free" ELSE "idle"
AfterRaise(t) == IF t \in Timers THEN "free" ELSE "idle"

-----------------------------------------------------------------------------
(* Timer objects.                                                          *)

\* A timer that has ended, and that no field refers to any more.
Unused == {x \in Timers : pc[x] = "free" /\ x # timer}

\* self._resume_timer = Timer(...): the one it replaces is forgotten, and never
\* runs unless it was started.
Assign(t, isResume) ==
  \E x \in Unused :
    /\ \A y \in Unused : x <= y
    /\ pc' = [y \in Speakers |->
                CASE y = x -> "new"
                  [] y = t -> "arm"
                  [] y = timer /\ pc[y] \in {"new", "void"} -> "free"
                  [] OTHER -> pc[y]]
    /\ resumes' = [resumes EXCEPT ![x] = isResume]
    /\ timer' = x

\* self._resume_timer.daemon = True and .start(): the field is read again, and
\* what it holds may not be this thread's timer, may be running already, or
\* may have been cancelled before its start.
Arm(t) ==
  /\ pc[t] = "arm"
  /\ pc' = IF timer # 0 /\ pc[timer] \in {"new", "void"}
           THEN [pc EXCEPT ![timer] = IF pc[timer] = "new" THEN "armed" ELSE "free",
                           ![t] = AfterArm(t)]
           ELSE [pc EXCEPT ![t] = AfterRaise(t)]
  /\ UNCHANGED <<timerVars, gateVars, speechVars, calls>>

\* self._resume_timer.cancel(), if there is one; without effect on a function
\* that has begun.
CancelTimer(t, next) ==
  /\ pc[t] = "cancel"
  /\ pc' = IF timer # 0 /\ pc[timer] \in {"new", "armed"}
           THEN [pc EXCEPT ![timer] = IF pc[timer] = "new" THEN "void" ELSE "free", ![t] = next]
           ELSE [pc EXCEPT ![t] = next]
  /\ UNCHANGED <<timerVars, gateVars, speechVars, calls>>

Fire(t) ==
  /\ t \in Timers /\ pc[t] = "armed"
  /\ Goto(t, IF resumes[t] THEN "ask" ELSE "watch")
  /\ UNCHANGED <<timerVars, gateVars, speechVars, calls>>

\* _watch_for_end()
Watch(t) ==
  /\ pc[t] = "watch"
  /\ \E speaking \in IsSpeaking : Assign(t, ~speaking)
  /\ UNCHANGED <<gateVars, speechVars, calls>>

-----------------------------------------------------------------------------
(* _resume_input(), on a timer's thread.                                   *)

Ask(t) ==
  /\ t \in Timers /\ pc[t] = "ask"
  /\ \E speaking \in IsSpeaking : Goto(t, IF speaking THEN "watch" ELSE "unflag")
  /\ UNCHANGED <<timerVars, gateVars, speechVars, calls>>

Unflag(t) ==
  /\ t \in Timers /\ pc[t] = "unflag"
  /\ flag' = FALSE /\ Goto(t, "open")
  /\ UNCHANGED <<timerVars, deaf, speechVars, calls>>

\* Mutant: the recogniser is not told.
OpenForgets(t) ==
  /\ t \in Timers /\ pc[t] = "open"
  /\ Goto(t, "free")
  /\ UNCHANGED <<timerVars, gateVars, speechVars, calls>>

Open(t) ==
  /\ t \in Timers /\ pc[t] = "open"
  /\ deaf' = FALSE /\ Goto(t, "free")
  /\ UNCHANGED <<timerVars, flag, speechVars, calls>>

TimerStep(t) == Fire(t) \/ Watch(t) \/ Arm(t) \/ Ask(t) \/ Unflag(t) \/ Open(t)

-----------------------------------------------------------------------------
(* _drain() and _suspend_input(), on the thread that feeds the reply; it   *)
(* holds the session's lock, so there is one of them at a time.            *)

\* The reply goes on with a sentence.
Sentence ==
  /\ pc[Feeder] = "idle" /\ spoken < MaxSentences /\ spoken + calls < MaxEvents
  /\ spoken' = spoken + 1
  /\ Goto(Feeder, "check")
  /\ UNCHANGED <<timerVars, gateVars, queue, playing, stranded, calls>>

\* `if self._input_suspended: return`, else the flag is set.
SuspendInput ==
  /\ pc[Feeder] = "check"
  /\ flag' = TRUE
  /\ Goto(Feeder, IF flag THEN "speak" ELSE "deafen")
  /\ UNCHANGED <<timerVars, deaf, speechVars, calls>>

Deafen ==
  /\ pc[Feeder] = "deafen"
  /\ deaf' = TRUE
  /\ Goto(Feeder, "cancel")
  /\ UNCHANGED <<timerVars, flag, speechVars, calls>>

\* speak(): a worker that is not alive is replaced.
Speak ==
  /\ pc[Feeder] = "speak"
  /\ queue' = queue + 1 /\ stranded' = FALSE
  /\ Goto(Feeder, "idle")
  /\ UNCHANGED <<timerVars, gateVars, playing, spoken, calls>>

Feed == SuspendInput \/ Deafen \/ CancelTimer(Feeder, "watch") \/ Watch(Feeder) \/ Arm(Feeder) \/ Speak

-----------------------------------------------------------------------------
(* interrupt(), called by /voice/interrupt and by barge-in.                *)

Call(c) ==
  /\ pc[c] = "idle" /\ calls < MaxInterrupts /\ spoken + calls < MaxEvents
  /\ calls' = calls + 1
  /\ Goto(c, "stop")
  /\ UNCHANGED <<timerVars, gateVars, speechVars>>

\* is_speaking and, if so, stop() in one step: a sentence queued between the two
\* is dropped as well, as if both came after it.
StopSpeech(c) ==
  /\ c \in Callers /\ pc[c] = "stop"
  /\ \/ TRUE \in IsSpeaking /\ queue' = 0 /\ playing' = FALSE /\ stranded' = FALSE
     \/ FALSE \in IsSpeaking /\ UNCHANGED <<queue, playing, stranded>>
  /\ Goto(c, "cancel")
  /\ UNCHANGED <<timerVars, gateVars, spoken, calls>>

\* Mutant: a pending timer is cancelled and not replaced.
RenewNothing(c) ==
  /\ pc[c] = "resume"
  /\ Goto(c, "idle")
  /\ UNCHANGED <<timerVars, gateVars, speechVars, calls>>

\* A new timer, "whether or not anything was playing".
Renew(c) ==
  /\ pc[c] = "resume"
  /\ Assign(c, TRUE)
  /\ UNCHANGED <<gateVars, speechVars, calls>>

Interrupt(c) == StopSpeech(c) \/ CancelTimer(c, "resume") \/ Renew(c) \/ Arm(c)

-----------------------------------------------------------------------------
(* The synthesiser.                                                        *)

SpeechBegins ==
  /\ queue > 0 /\ ~playing /\ ~stranded
  /\ playing' = TRUE
  /\ UNCHANGED <<pc, timerVars, gateVars, queue, stranded, spoken, calls>>

SpeechEnds ==
  /\ playing
  /\ playing' = FALSE /\ queue' = queue - 1
  /\ UNCHANGED <<pc, timerVars, gateVars, stranded, spoken, calls>>

\* Sentences that wait for their turn.
Waiting == IF playing THEN queue > 1 ELSE queue > 0

\* The request for a sentence's audio fails, and the sentence is given up.
SynthesisFails ==
  /\ Waiting /\ ~stranded
  /\ queue' = queue - 1
  /\ UNCHANGED <<pc, timerVars, gateVars, playing, stranded, spoken, calls>>

\* The worker ends although a sentence waits: it was on its way out when the sentence was
\* queued, or an exception it does not expect ended it.
WorkerEnds ==
  /\ Waiting /\ ~stranded
  /\ stranded' = TRUE
  /\ UNCHANGED <<pc, timerVars, gateVars, queue, playing, spoken, calls>>

GateNext ==
  \/ Sentence \/ Feed
  \/ \E c \in Callers : Call(c) \/ Interrupt(c)
  \/ \E t \in Timers : TimerStep(t)
  \/ SpeechBegins \/ SpeechEnds \/ SynthesisFails \/ WorkerEnds

GateSpec == GateInit /\ [][GateNext]_sessionVars

\* Speakers and timers run, and audio comes to its end; nobody has to speak or
\* to interrupt.
GateFairSpec ==
  /\ GateSpec
  /\ WF_sessionVars(Feed) /\ WF_sessionVars(SpeechBegins) /\ WF_sessionVars(SpeechEnds)
  /\ \A c \in Callers : WF_sessionVars(Interrupt(c))
  /\ \A t \in Timers : WF_sessionVars(TimerStep(t))

-----------------------------------------------------------------------------
(* Properties.                                                             *)

\* Listening comes back, whatever interrupts, cancelled timers and timers started twice do to
\* each other, unless the synthesiser is left with sentences nobody will say; it comes back
\* then, too, after the next sentence or interruption.
ListeningComesBack == deaf ~> (~deaf \/ stranded)

\* The state behind it: a suspended recogniser is never left without somebody
\* who is going to resume it.
SomebodyResumes ==
  (deaf \/ flag) =>
    \/ pc[Feeder] \in {"deafen", "cancel", "watch", "arm"}
    \/ \E c \in Callers : pc[c] \in {"resume", "arm"}
    \/ \E t \in Timers : pc[t] \in {"armed", "ask", "watch", "arm", "unflag", "open"}

(* Claims of the documentation that the code does not keep.                *)

\* "Deafen the microphone before any audio plays."
DeafWhilePlaying == playing => deaf

\* "Re-open the microphone once playback has finished": with every sound at its end, listening
\* comes back.  False: stranded sentences count as speech for ever.
ReopenedAfterPlayback == deaf ~> ~deaf
=============================================================================
