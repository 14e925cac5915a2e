---------------------------- MODULE GeminiSpeech ----------------------------
(***************************************************************************)
(* GeminiSynthesizer of src/arc/voice/gemini.py: speak() queues sentences, *)
(* a synthesis thread fetches their audio over the network, a play thread  *)
(* runs one afplay process for each, and stop() drops what is unspoken.    *)
(*                                                                         *)
(* speak() starts a worker when is_alive() is false of the last one, so    *)
(* there may be several of each kind over time.  A worker that has decided *)
(* to return is alive a little longer.  A step is one region under _lock,  *)
(* one access to the _stopped event, one network call, or one process      *)
(* started or ended.  The play thread's wait for _wake times out after     *)
(* 0.1 s, so the event only makes it look again sooner and is left out.    *)
(***************************************************************************)
EXTENDS Naturals, Sequences, Functions

CONSTANTS
  MaxSentences,   \* bound: calls of speak()
  MaxStops,       \* bound: calls of stop()
  Faults          \* "network": an ArcError; "raise": any other exception of a fetch

ASSUME SpeechAssumption ==
  /\ MaxSentences \in Nat \ {0}
  /\ MaxStops \in Nat
  /\ Faults \subseteq {"network", "raise"}

Sentences == 1 .. MaxSentences
Workers == 1 .. MaxSentences      \* each speak() starts at most one of a kind

VARIABLES
  spoken,       \* how many sentences speak() was given: they are numbered
  pending,      \* _pending
  ready,        \* _ready
  synthesizing, \* _synthesizing
  stopped,      \* _stopped is set
  process,      \* _process: the sentence its afplay plays, 0 for None
  synth,        \* synth[w]: where synthesis thread w is
  text,         \* text[w]: the sentence it holds, 0 for none
  synthThread,  \* _synth_thread, 0 for None
  player,       \* player[w]: where play thread w is
  wav,          \* wav[w]: the sentence it holds, 0 for none
  playThread,   \* _play_thread, 0 for None
  stopPc,       \* where a call of stop() is
  victim,       \* the process it read
  stops,        \* calls of stop() so far
  audible,      \* the sentences whose afplay runs
  last,         \* the sentence that began to play last (history)
  finished,     \* sentences that are over: played, dropped or failed (history)
  quiet,        \* stop() has returned and nothing was spoken since (history)
  late          \* sentences that began to play while quiet, up to 3 (history)

queueVars == <<spoken, pending, ready, synthesizing, stopped>>
synthVars == <<synth, text, synthThread>>
playVars == <<player, wav, playThread, process, audible, last>>
stopVars == <<stopPc, victim, stops>>
historyVars == <<finished, quiet, late>>
vars == <<queueVars, synthVars, playVars, stopVars, historyVars>>

QueueTypes ==
  /\ spoken \in 0 .. MaxSentences
  /\ Range(pending) \subseteq Sentences /\ Range(ready) \subseteq Sentences

SynthTypes ==
  /\ synth \in [Workers -> {"none", "check", "take", "fetch", "decide", "push", "leave", "dead"}]
  /\ text \in [Workers -> 0 .. MaxSentences]
  /\ synthThread \in 0 .. MaxSentences

PlayTypes ==
  /\ player \in [Workers -> {"none", "check", "take", "spawn", "register", "wait", "leave", "dead"}]
  /\ wav \in [Workers -> 0 .. MaxSentences]
  /\ playThread \in 0 .. MaxSentences
  /\ process \in 0 .. MaxSentences
  /\ audible \subseteq Sentences /\ last \in 0 .. MaxSentences

StopTypes ==
  /\ stopPc \in {"idle", "set", "kill"}
  /\ victim \in 0 .. MaxSentences
  /\ stops \in 0 .. MaxStops

HistoryTypes == finished \subseteq Sentences /\ late \in 0 .. 3

FlagTypes == synthesizing \in BOOLEAN /\ stopped \in BOOLEAN /\ quiet \in BOOLEAN

TypeOK == FlagTypes /\ QueueTypes /\ SynthTypes /\ PlayTypes /\ StopTypes /\ HistoryTypes

Init ==
  /\ spoken = 0 /\ pending = <<>> /\ ready = <<>>
  /\ synthesizing = FALSE /\ stopped = FALSE
  /\ process = 0 /\ audible = {} /\ last = 0
  /\ synth = [w \in Workers |-> "none"] /\ text = [w \in Workers |-> 0]
  /\ player = [w \in Workers |-> "none"] /\ wav = [w \in Workers |-> 0]
  /\ synthThread = 0 /\ playThread = 0
  /\ stopPc = "idle" /\ victim = 0 /\ stops = 0
  /\ finished = {} /\ quiet = FALSE /\ late = 0

Alive(thread, w) == w # 0 /\ thread[w] # "dead"

-----------------------------------------------------------------------------
(* speak() and stop(), called by other threads.                            *)

\* Mutant: a worker is started for each sentence.
SpeakAnother ==
  /\ spoken < MaxSentences
  /\ spoken' = spoken + 1
  /\ stopped' = FALSE
  /\ pending' = Append(pending, spoken + 1)
  /\ synthThread' = spoken + 1 /\ synth' = [synth EXCEPT ![spoken + 1] = "check"]
  /\ playThread' = spoken + 1 /\ player' = [player EXCEPT ![spoken + 1] = "check"]
  /\ quiet' = FALSE /\ late' = 0
  /\ UNCHANGED <<ready, synthesizing, text, wav, process, audible, last, stopVars, finished>>

\* speak() with _ensure_workers(), all under the lock.
Speak ==
  /\ spoken < MaxSentences
  /\ spoken' = spoken + 1
  /\ stopped' = FALSE
  /\ pending' = Append(pending, spoken + 1)
  /\ IF Alive(synth, synthThread) THEN UNCHANGED <<synth, synthThread>>
     ELSE synthThread' = spoken + 1 /\ synth' = [synth EXCEPT ![spoken + 1] = "check"]
  /\ IF Alive(player, playThread) THEN UNCHANGED <<player, playThread>>
     ELSE playThread' = spoken + 1 /\ player' = [player EXCEPT ![spoken + 1] = "check"]
  /\ quiet' = FALSE /\ late' = 0
  /\ UNCHANGED <<ready, synthesizing, text, wav, process, audible, last, stopVars, finished>>

\* stop(): the queues are cleared and the process is read under the lock.
StopClear ==
  /\ stopPc = "idle" /\ stops < MaxStops
  /\ stops' = stops + 1
  /\ pending' = <<>> /\ ready' = <<>> /\ synthesizing' = FALSE
  /\ finished' = finished \cup Range(pending) \cup Range(ready)
  /\ victim' = process
  /\ stopPc' = "set"
  /\ UNCHANGED <<spoken, stopped, synthVars, playVars, quiet, late>>

StopSet ==
  /\ stopPc = "set"
  /\ stopped' = TRUE
  /\ stopPc' = "kill"
  /\ UNCHANGED <<spoken, pending, ready, synthesizing, synthVars, playVars, victim, stops,
                 historyVars>>

\* A process that is still running is killed, and stop() returns.  When a
\* sentence was spoken while it ran, what it silenced is not all there is.
StopKill ==
  /\ stopPc = "kill"
  /\ audible' = audible \ {victim}
  /\ finished' = finished \cup ({victim} \ {0})
  /\ victim' = 0 /\ stopPc' = "idle"
  /\ quiet' = stopped /\ late' = 0
  /\ UNCHANGED <<queueVars, synthVars, player, wav, playThread, process, last, stops>>

-----------------------------------------------------------------------------
(* _synth_loop(), thread w.                                                *)

SynthCheck(w) ==
  /\ synth[w] = "check"
  /\ synth' = [synth EXCEPT ![w] = IF stopped THEN "leave" ELSE "take"]
  /\ UNCHANGED <<queueVars, text, synthThread, playVars, stopVars, historyVars>>

SynthTake(w) ==
  /\ synth[w] = "take"
  /\ IF pending = <<>>
     THEN /\ synthesizing' = FALSE
          /\ synth' = [synth EXCEPT ![w] = "leave"]
          /\ UNCHANGED <<pending, text>>
     ELSE /\ synthesizing' = TRUE
          /\ synth' = [synth EXCEPT ![w] = "fetch"]
          /\ text' = [text EXCEPT ![w] = Head(pending)]
          /\ pending' = Tail(pending)
  /\ UNCHANGED <<spoken, ready, stopped, synthThread, playVars, stopVars, historyVars>>

\* The network call and the finally clause.  An ArcError drops the sentence and
\* goes on; any other exception ends the thread.
Fetched(w) ==
  /\ synth[w] = "fetch"
  /\ synthesizing' = (pending # <<>>)
  /\ \/ synth' = [synth EXCEPT ![w] = "decide"] /\ UNCHANGED <<text, finished>>
     \/ /\ \/ "network" \in Faults /\ synth' = [synth EXCEPT ![w] = "check"]
           \/ "raise" \in Faults /\ synth' = [synth EXCEPT ![w] = "leave"]
        /\ text' = [text EXCEPT ![w] = 0]
        /\ finished' = finished \cup {text[w]}
  /\ UNCHANGED <<spoken, pending, ready, stopped, synthThread, playVars, stopVars, quiet, late>>

SynthDecide(w) ==
  /\ synth[w] = "decide"
  /\ IF stopped
     THEN /\ synth' = [synth EXCEPT ![w] = "leave"]
          /\ text' = [text EXCEPT ![w] = 0]
          /\ finished' = finished \cup {text[w]}
     ELSE synth' = [synth EXCEPT ![w] = "push"] /\ UNCHANGED <<text, finished>>
  /\ UNCHANGED <<queueVars, synthThread, playVars, stopVars, quiet, late>>

SynthPush(w) ==
  /\ synth[w] = "push"
  /\ ready' = Append(ready, text[w])
  /\ text' = [text EXCEPT ![w] = 0]
  /\ synth' = [synth EXCEPT ![w] = "check"]
  /\ UNCHANGED <<spoken, pending, synthesizing, stopped, synthThread, playVars, stopVars,
                 historyVars>>

SynthDies(w) ==
  /\ synth[w] = "leave"
  /\ synth' = [synth EXCEPT ![w] = "dead"]
  /\ UNCHANGED <<queueVars, text, synthThread, playVars, stopVars, historyVars>>

Synth(w) ==
  SynthCheck(w) \/ SynthTake(w) \/ Fetched(w) \/ SynthDecide(w) \/ SynthPush(w) \/ SynthDies(w)

-----------------------------------------------------------------------------
(* _play_loop() and _play(), thread w.                                     *)

\* Mutant: the loop does not look at the event.
PlayUnchecked(w) ==
  /\ player[w] = "check"
  /\ player' = [player EXCEPT ![w] = "take"]
  /\ UNCHANGED <<queueVars, synthVars, wav, playThread, process, audible, last, stopVars,
                 historyVars>>

PlayCheck(w) ==
  /\ player[w] = "check"
  /\ player' = [player EXCEPT ![w] = IF stopped THEN "leave" ELSE "take"]
  /\ UNCHANGED <<queueVars, synthVars, wav, playThread, process, audible, last, stopVars,
                 historyVars>>

\* more_coming, read in the same region as the queue.
MoreComing == pending # <<>> \/ synthesizing

PlayTake(w) ==
  /\ player[w] = "take"
  /\ IF ready # <<>>
     THEN /\ wav' = [wav EXCEPT ![w] = Head(ready)]
          /\ ready' = Tail(ready)
          /\ player' = [player EXCEPT ![w] = "spawn"]
     ELSE /\ player' = [player EXCEPT ![w] = IF MoreComing THEN "check" ELSE "leave"]
          /\ UNCHANGED <<wav, ready>>
  /\ UNCHANGED <<spoken, pending, synthesizing, stopped, synthVars, playThread, process,
                 audible, last, stopVars, historyVars>>

\* Popen of afplay.
PlaySpawn(w) ==
  /\ player[w] = "spawn"
  /\ audible' = audible \cup {wav[w]} /\ last' = wav[w]
  /\ late' = IF quiet /\ late < 3 THEN late + 1 ELSE late
  /\ player' = [player EXCEPT ![w] = "register"]
  /\ UNCHANGED <<queueVars, synthVars, wav, playThread, process, stopVars, finished, quiet>>

PlayRegister(w) ==
  /\ player[w] = "register"
  /\ process' = wav[w]
  /\ player' = [player EXCEPT ![w] = "wait"]
  /\ UNCHANGED <<queueVars, synthVars, wav, playThread, audible, last, stopVars, historyVars>>

\* process.wait() returns and the finally clause forgets it.
PlayDone(w) ==
  /\ player[w] = "wait" /\ wav[w] \notin audible
  /\ process' = 0
  /\ wav' = [wav EXCEPT ![w] = 0]
  /\ player' = [player EXCEPT ![w] = "check"]
  /\ UNCHANGED <<queueVars, synthVars, playThread, audible, last, stopVars, historyVars>>

PlayDies(w) ==
  /\ player[w] = "leave"
  /\ player' = [player EXCEPT ![w] = "dead"]
  /\ UNCHANGED <<queueVars, synthVars, wav, playThread, process, audible, last, stopVars,
                 historyVars>>

Play(w) ==
  PlayCheck(w) \/ PlayTake(w) \/ PlaySpawn(w) \/ PlayRegister(w) \/ PlayDone(w) \/ PlayDies(w)

\* An afplay process comes to the end of its file.
AfplayEnds(k) ==
  /\ k \in audible
  /\ audible' = audible \ {k}
  /\ finished' = finished \cup {k}
  /\ UNCHANGED <<queueVars, synthVars, player, wav, playThread, process, last, stopVars,
                 quiet, late>>

Stop == StopClear \/ StopSet \/ StopKill

Next ==
  \/ Speak \/ Stop
  \/ \E w \in Workers : Synth(w) \/ Play(w)
  \/ \E k \in Sentences : AfplayEnds(k)

Spec == Init /\ [][Next]_vars

\* The threads are scheduled, a fetch returns within its timeout and a file
\* comes to its end.  Nobody has to call speak() or stop().
FairSpec ==
  /\ Spec
  /\ \A w \in Workers : WF_vars(Synth(w)) /\ WF_vars(Play(w))
  /\ \A k \in Sentences : WF_vars(AfplayEnds(k))
  /\ WF_vars(StopSet) /\ WF_vars(StopKill)

-----------------------------------------------------------------------------
(* Properties.                                                             *)

\* is_speaking
IsSpeaking == pending # <<>> \/ ready # <<>> \/ synthesizing \/ process \in audible

\* "One worker so sentences play in the order they were generated": however
\* threads die and are replaced, fetches fail and speech is stopped, sentences
\* never overlap and never play out of order or twice.
Order == INSTANCE SpokenOrder WITH playing <- audible
PlaysInOrder == Order!Spec

\* Barge-in may come too late for the sentence a worker already holds, never
\* for two: at most one sentence begins after stop() has returned.
LateSpeechBounded == late <= 1

\* Once nobody speaks any more, everything a stop() left behind winds down:
\* no sound, and no thread that spins on a queue nobody empties.
StopEnds ==
  quiet ~> \/ ~quiet
           \/ /\ audible = {}
              /\ \A w \in Workers : synth[w] \in {"none", "dead"} /\ player[w] \in {"none", "dead"}

(* Claims of the documentation that the code does not keep.                *)

\* is_speaking is "True from the moment text is queued until the last audio has
\* played".
SpeakingThroughout == (\E k \in 1 .. spoken : k \notin finished) => IsSpeaking

\* The same, from the other side: it does come to an end.
SpeakingEnds == IsSpeaking ~> ~IsSpeaking

\* interrupt(): "stop talking immediately and drop anything unspoken".
StopSilences == late = 0

\* flush(): "speak whatever is left once generation has finished": a sentence
\* nobody stopped is heard.
EverySentenceEnds == \A k \in Sentences : spoken >= k ~> k \in finished
=============================================================================
