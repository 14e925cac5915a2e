---------------------------- MODULE GeminiProofs ----------------------------
(***************************************************************************)
(* Theorems about the two ways to speak with Gemini: GeminiSpeech, for     *)
(* every number of sentences and of calls of stop(), and every choice of   *)
(* faults, and LiveSession, for every number of sessions and of messages   *)
(* and every size of the queues.                                           *)
(*                                                                         *)
(* GeminiSpeech.  Sentences play one at a time, in the order they were     *)
(* queued, as SpokenOrder says.  The order one hears is that of the        *)
(* pipeline.  A sentence is pending, held by a synthesis thread, ready,    *)
(* about to be spawned, and last to have begun; Chain says that each stage *)
(* is behind the one after it.  It is kept because a worker is replaced    *)
(* only once it is dead, so that one thread of each kind moves sentences   *)
(* from stage to stage (Alone).  After stop() all threads only lead on     *)
(* (WindsDown).                                                            *)
(*                                                                         *)
(* LiveSession.  The blocks sent after a mute and those still on their way *)
(* are together no more than were under way then (Muting); whatever waits  *)
(* to be played came after the last interruption (Current); a fragment of  *)
(* a transcript is part of one text only (ToldOnce); a call that is not    *)
(* answered yet is handled by a loop that is up (Belongs).                 *)
(***************************************************************************)
EXTENDS GeminiSpeech, LiveSession, SequenceTheorems, TLAPS

\* Sentences and workers are numbered alike.
LEMMA Numbers ==
  /\ MaxSentences \in Nat /\ MaxStops \in Nat
  /\ Sentences = 1 .. MaxSentences /\ Workers = Sentences
  /\ \A k \in Sentences : k \in Nat /\ k # 0
  BY SpeechAssumption DEF SpeechAssumption, Sentences, Workers

-----------------------------------------------------------------------------
(* The stages as sets, and what moving a sentence does to them.            *)

\* The sentence l began last; those of S are about to, those of R are ready,
\* those of H are being fetched, those of P are pending; n were spoken.
Chain(l, S, R, H, P, n) ==
  /\ l \in Nat /\ n \in Nat /\ l <= n
  /\ S \subseteq Nat /\ R \subseteq Nat /\ H \subseteq Nat /\ P \subseteq Nat
  /\ \A k \in S \cup R \cup H \cup P : l < k /\ k <= n
  /\ \A j \in S, k \in R \cup H \cup P : j < k
  /\ \A j \in R, k \in H \cup P : j < k
  /\ \A j \in H, k \in P : j < k

\* Dropping sentences keeps the order.
LEMMA ChainShrinks ==
  ASSUME NEW l, NEW S, NEW R, NEW H, NEW P, NEW n, Chain(l, S, R, H, P, n),
         NEW S2 \in SUBSET S, NEW R2 \in SUBSET R, NEW H2 \in SUBSET H, NEW P2 \in SUBSET P
  PROVE  Chain(l, S2, R2, H2, P2, n)
  BY DEF Chain

\* A new sentence is behind all others.
LEMMA ChainSpeaks ==
  ASSUME NEW l, NEW S, NEW R, NEW H, NEW P, NEW n, Chain(l, S, R, H, P, n)
  PROVE  Chain(l, S, R, H, P \cup {n + 1}, n + 1)
  BY DEF Chain

\* The first pending sentence is taken for synthesis.
LEMMA ChainFetches ==
  ASSUME NEW l, NEW S, NEW R, NEW P, NEW n, Chain(l, S, R, {}, P, n),
         NEW k \in P, NEW P2 \in SUBSET P, \A j \in P2 : k < j
  PROVE  Chain(l, S, R, {k}, P2, n)
  BY DEF Chain

\* A sentence that has been fetched is the last of those that are ready.
LEMMA ChainPushes ==
  ASSUME NEW l, NEW S, NEW R, NEW P, NEW n, NEW k, Chain(l, S, R, {k}, P, n)
  PROVE  Chain(l, S, R \cup {k}, {}, P, n)
  BY DEF Chain

\* The first of the ready sentences is taken to be played.
LEMMA ChainTakes ==
  ASSUME NEW l, NEW R, NEW H, NEW P, NEW n, Chain(l, {}, R, H, P, n),
         NEW k \in R, NEW R2 \in SUBSET R, \A j \in R2 : k < j
  PROVE  Chain(l, {k}, R2, H, P, n)
  BY DEF Chain

\* It begins to play.
LEMMA ChainBegins ==
  ASSUME NEW l, NEW R, NEW H, NEW P, NEW n, NEW k, Chain(l, {k}, R, H, P, n)
  PROVE  Chain(k, {}, R, H, P, n) /\ k > l
  BY DEF Chain

-----------------------------------------------------------------------------
(* Queues.                                                                 *)

Increasing(q) == \A i, j \in DOMAIN q : i < j => q[i] < q[j]

\* The empty queue.
LEMMA EmptyQueue == /\ <<>> \in Seq(Sentences) /\ Increasing(<<>>) /\ Range(<<>>) = {}
  BY DEF Increasing, Range

\* append() of a sentence that is above all others.
LEMMA AppendQueue ==
  ASSUME NEW q \in Seq(Sentences), Increasing(q), NEW x \in Sentences,
         \A k \in Range(q) : k < x
  PROVE  /\ Append(q, x) \in Seq(Sentences)
         /\ Increasing(Append(q, x))
         /\ Range(Append(q, x)) = Range(q) \cup {x}
  <1> DEFINE a == Append(q, x)
  <1>1. /\ a \in Seq(Sentences) /\ Len(a) = Len(q) + 1 /\ Len(q) \in Nat
        /\ DOMAIN a = 1 .. Len(a) /\ DOMAIN q = 1 .. Len(q)
        /\ \A i \in 1 .. Len(q) : a[i] = q[i]
        /\ a[Len(q) + 1] = x
    OBVIOUS
  <1>2. Range(a) = Range(q) \cup {x}
    BY <1>1 DEF Range
  <1>3. Increasing(a)
    BY <1>1 DEF Increasing, Range
  <1> QED BY <1>1, <1>2, <1>3

\* pop(0)
LEMMA PopQueue ==
  ASSUME NEW q \in Seq(Sentences), Increasing(q), q # <<>>
  PROVE  /\ Head(q) \in Sentences /\ Head(q) \in Range(q)
         /\ Tail(q) \in Seq(Sentences) /\ Increasing(Tail(q))
         /\ Range(Tail(q)) \subseteq Range(q)
         /\ \A k \in Range(Tail(q)) : Head(q) < k
  <1> DEFINE t == Tail(q)
  <1>1. /\ Len(q) \in Nat \ {0} /\ Head(q) = q[1] /\ q[1] \in Sentences
        /\ DOMAIN q = 1 .. Len(q) /\ DOMAIN t = 1 .. Len(q) - 1
        /\ t \in Seq(Sentences)
        /\ \A i \in 1 .. Len(q) - 1 : t[i] = q[i + 1]
    <2>1. Len(q) \in Nat \ {0} /\ DOMAIN q = 1 .. Len(q) /\ Head(q) = q[1]
      BY EmptySeq, LenProperties
    <2>2. Head(q) \in Sentences
      BY HeadTailProperties
    <2>3. /\ t \in Seq(Sentences) /\ Len(t) = Len(q) - 1
          /\ \A i \in 1 .. Len(t) : t[i] = q[i + 1]
      BY HeadTailProperties
    <2>4. DOMAIN t = 1 .. Len(t)
      BY <2>3, LenProperties
    <2> QED BY <2>1, <2>2, <2>3, <2>4
  <1>2. Head(q) \in Range(q) /\ Range(t) \subseteq Range(q)
    BY <1>1 DEF Range
  <1>3. Increasing(t)
    BY <1>1 DEF Increasing
  <1>4. \A k \in Range(t) : Head(q) < k
    BY <1>1 DEF Increasing, Range
  <1> QED BY <1>1, <1>2, <1>3, <1>4
-----------------------------------------------------------------------------
(* The inductive invariant.                                                *)

Spawning == {wav[w] : w \in {v \in Workers : player[v] = "spawn"}}
Held == {text[w] : w \in Workers} \ {0}

\* Both queues are sequences of sentences in the order they were spoken.
Queues ==
  /\ pending \in Seq(Sentences) /\ Increasing(pending)
  /\ ready \in Seq(Sentences) /\ Increasing(ready)

\* Of each kind, only the thread started last can be alive.
Alone ==
  /\ \A w \in Workers : synth[w] \notin {"none", "dead"} => w = synthThread
  /\ \A w \in Workers : player[w] \notin {"none", "dead"} => w = playThread

\* A worker holds a sentence exactly while it has one to handle.
Holds ==
  /\ \A w \in Workers : text[w] # 0 <=> synth[w] \in {"fetch", "decide", "push"}
  /\ \A w \in Workers : wav[w] # 0 <=> player[w] \in {"spawn", "register", "wait"}

\* What one hears is the sentence of a player that waits for it.
Sound ==
  \A k \in audible : \E w \in Workers : player[w] \in {"register", "wait"} /\ wav[w] = k

Ordered == Chain(last, Spawning, Range(ready), Held, Range(pending), spoken)

IInv == TypeOK /\ Queues /\ Alone /\ Holds /\ Sound /\ Ordered

-----------------------------------------------------------------------------
(* It is an invariant.                                                     *)

\* Nothing has been spoken.
THEOREM InitInv == Init => IInv
  <1> SUFFICES ASSUME Init PROVE IInv
    OBVIOUS
  <1>1. Queues
    BY EmptyQueue DEF Init, Queues
  <1>2. TypeOK
    <2>1. QueueTypes
      BY Numbers, EmptyQueue DEF Init, QueueTypes
    <2>2. SynthTypes
      BY Numbers DEF Init, SynthTypes
    <2>3. PlayTypes
      BY Numbers DEF Init, PlayTypes
    <2>4. StopTypes
      BY Numbers DEF Init, StopTypes
    <2>5. HistoryTypes
      BY DEF Init, HistoryTypes
    <2>6. FlagTypes
      BY DEF Init, FlagTypes
    <2> QED BY <2>1, <2>2, <2>3, <2>4, <2>5, <2>6 DEF TypeOK
  <1>3. Alone /\ Holds /\ Sound
    BY DEF Init, Alone, Holds, Sound
  <1>4. Spawning = {} /\ Held = {}
    BY DEF Init, Spawning, Held
  <1>5. Ordered
    BY <1>4, EmptyQueue DEF Init, Ordered, Chain
  <1> QED BY <1>1, <1>2, <1>3, <1>5 DEF IInv

\* At most one thread synthesises, and at most one plays.
LEMMA OneHolds ==
  ASSUME TypeOK, Alone, Holds
  PROVE  /\ \A w \in Workers : text[w] # 0 => Held = {text[w]}
         /\ \A w \in Workers : player[w] = "spawn" => Spawning = {wav[w]}
         /\ (\A w \in Workers : text[w] = 0) => Held = {}
         /\ (\A w \in Workers : player[w] # "spawn") => Spawning = {}
  <1>1. \A v, w \in Workers : text[v] # 0 /\ text[w] # 0 => v = w
    BY DEF Alone, Holds
  <1>2. \A v, w \in Workers : player[v] = "spawn" /\ player[w] = "spawn" => v = w
    BY DEF Alone
  <1> QED BY <1>1, <1>2 DEF Held, Spawning

\* The members of a queue of sentences are sentences.
LEMMA QueueMembers ==
  ASSUME NEW q \in Seq(Sentences)
  PROVE  Range(q) \subseteq Sentences
  <1>1. q \in [1 .. Len(q) -> Sentences]
    BY LenProperties
  <1> QED BY <1>1 DEF Range

\* speak()
LEMMA SpeakStep == ASSUME IInv, Speak PROVE IInv'
  <1> USE Numbers
  <1>1. \A k \in Range(pending) : k < spoken + 1
    BY DEF IInv, Ordered, Chain
  <1>2. spoken + 1 \in Sentences /\ spoken \in Nat
    BY DEF Speak, IInv, TypeOK, QueueTypes
  <1>3. Queues' /\ Range(pending') = Range(pending) \cup {spoken + 1}
    BY <1>1, <1>2, AppendQueue DEF Speak, IInv, Queues
  <1>4. TypeOK'
    <2>1. QueueTypes'
      BY <1>2, <1>3, QueueMembers DEF Speak, IInv, Queues, QueueTypes
    <2>2. SynthTypes'
      <3>1. synthThread' \in 0 .. MaxSentences
        BY <1>2 DEF Speak, IInv, TypeOK, SynthTypes
      <3> QED BY <1>2, <3>1 DEF Speak, IInv, TypeOK, SynthTypes
    <2>3. PlayTypes'
      BY <1>2, SMTT(30) DEF Speak, IInv, TypeOK, PlayTypes
    <2>4. StopTypes'
      BY DEF Speak, stopVars, IInv, TypeOK, StopTypes
    <2>5. HistoryTypes'
      BY DEF Speak, IInv, TypeOK, HistoryTypes
    <2>6. FlagTypes'
      BY Zenon DEF Speak, IInv, TypeOK, FlagTypes
    <2> QED BY <2>1, <2>2, <2>3, <2>4, <2>5, <2>6 DEF TypeOK
  <1>5. Alone'
    <2>1. \A w \in Workers : synth'[w] \notin {"none", "dead"} => w = synthThread'
      BY <1>2 DEF Speak, Alive, Alone, IInv, TypeOK, SynthTypes
    <2>2. \A w \in Workers : player'[w] \notin {"none", "dead"} => w = playThread'
      BY <1>2 DEF Speak, Alive, Alone, IInv, TypeOK, PlayTypes
    <2> QED BY <2>1, <2>2 DEF Alone
  <1>6. \A w \in Workers :
          /\ synth[w] \notin {"none", "dead"} => synth'[w] = synth[w]
          /\ player[w] \notin {"none", "dead"} => player'[w] = player[w]
          /\ synth'[w] \in {synth[w], "check"} /\ player'[w] \in {player[w], "check"}
    BY <1>2, ZenonT(60) DEF Speak, Alive, Alone, IInv, TypeOK, SynthTypes, PlayTypes
  <1>7. Holds' /\ Sound'
    BY <1>6 DEF Speak, Holds, Sound, IInv
  <1>8. Spawning' = Spawning /\ Held' = Held
    BY <1>6 DEF Speak, Spawning, Held
  <1>9. Ordered'
    BY <1>3, <1>8, ChainSpeaks DEF Speak, IInv, Ordered
  <1> QED BY <1>3, <1>4, <1>5, <1>7, <1>9 DEF IInv
\* Sentences only leave the pipeline.
LEMMA Shrinks ==
  ASSUME IInv, UNCHANGED <<spoken, last>>,
         Spawning' \subseteq Spawning, Range(ready)' \subseteq Range(ready),
         Held' \subseteq Held, Range(pending)' \subseteq Range(pending)
  PROVE  Ordered'
  BY ChainShrinks DEF IInv, Ordered

USE DEF queueVars, synthVars, playVars, stopVars, historyVars

\* stop(), the queues.
LEMMA StopClearStep == ASSUME IInv, StopClear PROVE IInv'
  <1>1. Queues'
    BY EmptyQueue DEF StopClear, IInv, Queues
  <1>2. TypeOK'
    <2>1. QueueTypes' /\ StopTypes'
      BY EmptyQueue, Numbers DEF StopClear, IInv, TypeOK, QueueTypes, StopTypes, PlayTypes
    <2>2. SynthTypes' /\ PlayTypes'
      BY Numbers DEF StopClear, IInv, TypeOK, SynthTypes, PlayTypes
    <2>3. HistoryTypes'
      BY Numbers DEF StopClear, IInv, TypeOK, HistoryTypes, QueueTypes, SynthTypes, StopTypes
    <2>4. FlagTypes'
      BY Zenon DEF StopClear, IInv, TypeOK, FlagTypes
    <2> QED BY <2>1, <2>2, <2>3, <2>4 DEF TypeOK
  <1>3. Alone' /\ Holds'
    BY DEF StopClear, IInv, Alone, Holds, TypeOK, SynthTypes, PlayTypes
  <1>4. Sound'
    BY DEF StopClear, IInv, Sound, Alone, TypeOK, PlayTypes
  <1>5. Spawning' \subseteq Spawning /\ Held' \subseteq Held
    BY DEF StopClear, IInv, TypeOK, SynthTypes, PlayTypes, Spawning, Held
  <1>6. Ordered'
    BY <1>5, EmptyQueue, Shrinks DEF StopClear
  <1> QED BY <1>1, <1>2, <1>3, <1>4, <1>6 DEF IInv

\* stop(), the event.
LEMMA StopSetStep == ASSUME IInv, StopSet PROVE IInv'
  <1>1. Queues'
    BY DEF StopSet, IInv, Queues
  <1>2. TypeOK'
    <2>1. QueueTypes' /\ StopTypes'
      BY Numbers DEF StopSet, IInv, TypeOK, QueueTypes, StopTypes
    <2>2. SynthTypes' /\ PlayTypes'
      BY Numbers DEF StopSet, IInv, TypeOK, SynthTypes, PlayTypes
    <2>3. HistoryTypes'
      BY Numbers DEF StopSet, IInv, TypeOK, HistoryTypes, QueueTypes, SynthTypes, StopTypes
    <2>4. FlagTypes'
      BY Zenon DEF StopSet, IInv, TypeOK, FlagTypes
    <2> QED BY <2>1, <2>2, <2>3, <2>4 DEF TypeOK
  <1>3. Alone' /\ Holds'
    BY DEF StopSet, IInv, Alone, Holds, TypeOK, SynthTypes, PlayTypes
  <1>4. Sound'
    BY DEF StopSet, IInv, Sound, Alone, TypeOK, PlayTypes
  <1>5. Spawning' \subseteq Spawning /\ Held' \subseteq Held
    BY DEF StopSet, IInv, TypeOK, SynthTypes, PlayTypes, Spawning, Held
  <1>6. Ordered'
    BY <1>5, Shrinks DEF StopSet
  <1> QED BY <1>1, <1>2, <1>3, <1>4, <1>6 DEF IInv

\* stop(), the process.
LEMMA StopKillStep == ASSUME IInv, StopKill PROVE IInv'
  <1>1. Queues'
    BY DEF StopKill, IInv, Queues
  <1>2. TypeOK'
    <2>1. QueueTypes' /\ StopTypes'
      BY Numbers DEF StopKill, IInv, TypeOK, QueueTypes, StopTypes
    <2>2. SynthTypes' /\ PlayTypes'
      BY Numbers DEF StopKill, IInv, TypeOK, SynthTypes, PlayTypes
    <2>3. HistoryTypes'
      BY Numbers DEF StopKill, IInv, TypeOK, HistoryTypes, QueueTypes, SynthTypes, StopTypes
    <2>4. FlagTypes'
      BY Zenon DEF StopKill, IInv, TypeOK, FlagTypes
    <2> QED BY <2>1, <2>2, <2>3, <2>4 DEF TypeOK
  <1>3. Alone' /\ Holds'
    BY DEF StopKill, IInv, Alone, Holds, TypeOK, SynthTypes, PlayTypes
  <1>4. Sound'
    BY DEF StopKill, IInv, Sound, Alone, TypeOK, PlayTypes
  <1>5. Spawning' \subseteq Spawning /\ Held' \subseteq Held
    BY DEF StopKill, IInv, TypeOK, SynthTypes, PlayTypes, Spawning, Held
  <1>6. Ordered'
    BY <1>5, Shrinks DEF StopKill
  <1> QED BY <1>1, <1>2, <1>3, <1>4, <1>6 DEF IInv

\* The synthesis thread looks at the event.
LEMMA SynthCheckStep == ASSUME IInv, NEW w \in Workers, SynthCheck(w) PROVE IInv'
  <1>1. Queues'
    BY DEF SynthCheck, IInv, Queues
  <1>2. TypeOK'
    <2>1. QueueTypes' /\ StopTypes'
      BY Numbers DEF SynthCheck, IInv, TypeOK, QueueTypes, StopTypes
    <2>2. SynthTypes' /\ PlayTypes'
      BY Numbers DEF SynthCheck, IInv, TypeOK, SynthTypes, PlayTypes
    <2>3. HistoryTypes'
      BY Numbers DEF SynthCheck, IInv, TypeOK, HistoryTypes, QueueTypes, SynthTypes, StopTypes
    <2>4. FlagTypes'
      BY Zenon DEF SynthCheck, IInv, TypeOK, FlagTypes
    <2> QED BY <2>1, <2>2, <2>3, <2>4 DEF TypeOK
  <1>3. Alone' /\ Holds'
    BY DEF SynthCheck, IInv, Alone, Holds, TypeOK, SynthTypes, PlayTypes
  <1>4. Sound'
    BY DEF SynthCheck, IInv, Sound, Alone, TypeOK, PlayTypes
  <1>5. Spawning' \subseteq Spawning /\ Held' \subseteq Held
    BY DEF SynthCheck, IInv, TypeOK, SynthTypes, PlayTypes, Spawning, Held
  <1>6. Ordered'
    BY <1>5, Shrinks DEF SynthCheck
  <1> QED BY <1>1, <1>2, <1>3, <1>4, <1>6 DEF IInv

\* A fetch is over.
LEMMA FetchedStep == ASSUME IInv, NEW w \in Workers, Fetched(w) PROVE IInv'
  <1>1. Queues'
    BY DEF Fetched, IInv, Queues
  <1>2. TypeOK'
    <2>1. QueueTypes' /\ StopTypes'
      BY Numbers DEF Fetched, IInv, TypeOK, QueueTypes, StopTypes
    <2>2. SynthTypes'
      <3>1. synth' \in [Workers -> {"none", "check", "take", "fetch", "decide", "push", "leave", "dead"}]
        BY DEF Fetched, IInv, TypeOK, SynthTypes
      <3>2. text' \in [Workers -> 0 .. MaxSentences]
        BY Numbers DEF Fetched, IInv, TypeOK, SynthTypes
      <3> QED BY <3>1, <3>2 DEF Fetched, IInv, TypeOK, SynthTypes
    <2>3. PlayTypes'
      BY DEF Fetched, IInv, TypeOK, PlayTypes
    <2>4. HistoryTypes'
      <3>1. text[w] # 0 /\ text[w] \in 0 .. MaxSentences
        BY DEF Fetched, IInv, Holds, TypeOK, SynthTypes
      <3>2. text[w] \in Sentences
        BY <3>1, Numbers
      <3>3. finished' \subseteq finished \cup {text[w]} /\ late' = late
        BY DEF Fetched
      <3> QED BY <3>2, <3>3 DEF IInv, TypeOK, HistoryTypes
    <2>5. FlagTypes'
      BY Zenon DEF Fetched, IInv, TypeOK, FlagTypes
    <2> QED BY <2>1, <2>2, <2>3, <2>4, <2>5 DEF TypeOK
  <1>3. Alone' /\ Holds'
    BY ZenonT(60) DEF Fetched, IInv, Alone, Holds, TypeOK, SynthTypes, PlayTypes
  <1>4. Sound'
    BY DEF Fetched, IInv, Sound, Alone, TypeOK, PlayTypes
  <1>5. Spawning' \subseteq Spawning /\ Held' \subseteq Held
    BY DEF Fetched, IInv, TypeOK, SynthTypes, PlayTypes, Spawning, Held
  <1>6. Ordered'
    BY <1>5, Shrinks DEF Fetched
  <1> QED BY <1>1, <1>2, <1>3, <1>4, <1>6 DEF IInv

\* It looks at the event again.
LEMMA SynthDecideStep == ASSUME IInv, NEW w \in Workers, SynthDecide(w) PROVE IInv'
  <1>1. Queues'
    BY DEF SynthDecide, IInv, Queues
  <1>2. TypeOK'
    <2>1. QueueTypes' /\ StopTypes'
      BY Numbers DEF SynthDecide, IInv, TypeOK, QueueTypes, StopTypes
    <2>2. SynthTypes'
      <3>1. synth' \in [Workers -> {"none", "check", "take", "fetch", "decide", "push", "leave", "dead"}]
        BY DEF SynthDecide, IInv, TypeOK, SynthTypes
      <3>2. text' \in [Workers -> 0 .. MaxSentences]
        BY Numbers DEF SynthDecide, IInv, TypeOK, SynthTypes
      <3> QED BY <3>1, <3>2 DEF SynthDecide, IInv, TypeOK, SynthTypes
    <2>3. PlayTypes'
      BY DEF SynthDecide, IInv, TypeOK, PlayTypes
    <2>4. HistoryTypes'
      <3>1. text[w] # 0 /\ text[w] \in 0 .. MaxSentences
        BY DEF SynthDecide, IInv, Holds, TypeOK, SynthTypes
      <3>2. text[w] \in Sentences
        BY <3>1, Numbers
      <3>3. finished' \subseteq finished \cup {text[w]} /\ late' = late
        BY DEF SynthDecide
      <3> QED BY <3>2, <3>3 DEF IInv, TypeOK, HistoryTypes
    <2>5. FlagTypes'
      BY Zenon DEF SynthDecide, IInv, TypeOK, FlagTypes
    <2> QED BY <2>1, <2>2, <2>3, <2>4, <2>5 DEF TypeOK
  <1>3. Alone' /\ Holds'
    BY DEF SynthDecide, IInv, Alone, Holds, TypeOK, SynthTypes, PlayTypes
  <1>4. Sound'
    BY DEF SynthDecide, IInv, Sound, Alone, TypeOK, PlayTypes
  <1>5. Spawning' \subseteq Spawning /\ Held' \subseteq Held
    BY DEF SynthDecide, IInv, TypeOK, SynthTypes, PlayTypes, Spawning, Held
  <1>6. Ordered'
    BY <1>5, Shrinks DEF SynthDecide
  <1> QED BY <1>1, <1>2, <1>3, <1>4, <1>6 DEF IInv

\* It has returned.
LEMMA SynthDiesStep == ASSUME IInv, NEW w \in Workers, SynthDies(w) PROVE IInv'
  <1>1. Queues'
    BY DEF SynthDies, IInv, Queues
  <1>2. TypeOK'
    <2>1. QueueTypes' /\ StopTypes'
      BY Numbers DEF SynthDies, IInv, TypeOK, QueueTypes, StopTypes
    <2>2. SynthTypes' /\ PlayTypes'
      BY Numbers DEF SynthDies, IInv, TypeOK, SynthTypes, PlayTypes
    <2>3. HistoryTypes'
      BY Numbers DEF SynthDies, IInv, TypeOK, HistoryTypes, QueueTypes, SynthTypes, StopTypes
    <2>4. FlagTypes'
      BY Zenon DEF SynthDies, IInv, TypeOK, FlagTypes
    <2> QED BY <2>1, <2>2, <2>3, <2>4 DEF TypeOK
  <1>3. Alone' /\ Holds'
    BY DEF SynthDies, IInv, Alone, Holds, TypeOK, SynthTypes, PlayTypes
  <1>4. Sound'
    BY DEF SynthDies, IInv, Sound, Alone, TypeOK, PlayTypes
  <1>5. Spawning' \subseteq Spawning /\ Held' \subseteq Held
    BY DEF SynthDies, IInv, TypeOK, SynthTypes, PlayTypes, Spawning, Held
  <1>6. Ordered'
    BY <1>5, Shrinks DEF SynthDies
  <1> QED BY <1>1, <1>2, <1>3, <1>4, <1>6 DEF IInv

\* The play thread looks at the event.
LEMMA PlayCheckStep == ASSUME IInv, NEW w \in Workers, PlayCheck(w) PROVE IInv'
  <1>1. Queues'
    BY DEF PlayCheck, IInv, Queues
  <1>2. TypeOK'
    <2>1. QueueTypes' /\ StopTypes'
      BY Numbers DEF PlayCheck, IInv, TypeOK, QueueTypes, StopTypes
    <2>2. SynthTypes' /\ PlayTypes'
      BY Numbers DEF PlayCheck, IInv, TypeOK, SynthTypes, PlayTypes
    <2>3. HistoryTypes'
      BY Numbers DEF PlayCheck, IInv, TypeOK, HistoryTypes, QueueTypes, SynthTypes, StopTypes
    <2>4. FlagTypes'
      BY Zenon DEF PlayCheck, IInv, TypeOK, FlagTypes
    <2> QED BY <2>1, <2>2, <2>3, <2>4 DEF TypeOK
  <1>3. Alone' /\ Holds'
    BY DEF PlayCheck, IInv, Alone, Holds, TypeOK, SynthTypes, PlayTypes
  <1>4. Sound'
    BY DEF PlayCheck, IInv, Sound, Alone, TypeOK, PlayTypes
  <1>5. Spawning' \subseteq Spawning /\ Held' \subseteq Held
    BY DEF PlayCheck, IInv, TypeOK, SynthTypes, PlayTypes, Spawning, Held
  <1>6. Ordered'
    BY <1>5, Shrinks DEF PlayCheck
  <1> QED BY <1>1, <1>2, <1>3, <1>4, <1>6 DEF IInv

\* It registers its process.
LEMMA PlayRegisterStep == ASSUME IInv, NEW w \in Workers, PlayRegister(w) PROVE IInv'
  <1>1. Queues'
    BY DEF PlayRegister, IInv, Queues
  <1>2. TypeOK'
    <2>1. QueueTypes' /\ StopTypes'
      BY Numbers DEF PlayRegister, IInv, TypeOK, QueueTypes, StopTypes
    <2>2. SynthTypes' /\ PlayTypes'
      BY Numbers DEF PlayRegister, IInv, TypeOK, SynthTypes, PlayTypes
    <2>3. HistoryTypes'
      BY Numbers DEF PlayRegister, IInv, TypeOK, HistoryTypes, QueueTypes, SynthTypes, StopTypes
    <2>4. FlagTypes'
      BY Zenon DEF PlayRegister, IInv, TypeOK, FlagTypes
    <2> QED BY <2>1, <2>2, <2>3, <2>4 DEF TypeOK
  <1>3. Alone' /\ Holds'
    BY DEF PlayRegister, IInv, Alone, Holds, TypeOK, SynthTypes, PlayTypes
  <1>4. Sound'
    BY DEF PlayRegister, IInv, Sound, Alone, TypeOK, PlayTypes
  <1>5. Spawning' \subseteq Spawning /\ Held' \subseteq Held
    BY DEF PlayRegister, IInv, TypeOK, SynthTypes, PlayTypes, Spawning, Held
  <1>6. Ordered'
    BY <1>5, Shrinks DEF PlayRegister
  <1> QED BY <1>1, <1>2, <1>3, <1>4, <1>6 DEF IInv

\* Its process is over.
LEMMA PlayDoneStep == ASSUME IInv, NEW w \in Workers, PlayDone(w) PROVE IInv'
  <1>1. Queues'
    BY DEF PlayDone, IInv, Queues
  <1>2. TypeOK'
    <2>1. QueueTypes' /\ StopTypes'
      BY Numbers DEF PlayDone, IInv, TypeOK, QueueTypes, StopTypes
    <2>2. SynthTypes' /\ PlayTypes'
      BY Numbers DEF PlayDone, IInv, TypeOK, SynthTypes, PlayTypes
    <2>3. HistoryTypes'
      BY Numbers DEF PlayDone, IInv, TypeOK, HistoryTypes, QueueTypes, SynthTypes, StopTypes
    <2>4. FlagTypes'
      BY Zenon DEF PlayDone, IInv, TypeOK, FlagTypes
    <2> QED BY <2>1, <2>2, <2>3, <2>4 DEF TypeOK
  <1>3. Alone' /\ Holds'
    BY DEF PlayDone, IInv, Alone, Holds, TypeOK, SynthTypes, PlayTypes
  <1>4. Sound'
    BY DEF PlayDone, IInv, Sound, Alone, TypeOK, PlayTypes
  <1>5. Spawning' \subseteq Spawning /\ Held' \subseteq Held
    BY DEF PlayDone, IInv, TypeOK, SynthTypes, PlayTypes, Spawning, Held
  <1>6. Ordered'
    BY <1>5, Shrinks DEF PlayDone
  <1> QED BY <1>1, <1>2, <1>3, <1>4, <1>6 DEF IInv

\* It has returned.
LEMMA PlayDiesStep == ASSUME IInv, NEW w \in Workers, PlayDies(w) PROVE IInv'
  <1>1. Queues'
    BY DEF PlayDies, IInv, Queues
  <1>2. TypeOK'
    <2>1. QueueTypes' /\ StopTypes'
      BY Numbers DEF PlayDies, IInv, TypeOK, QueueTypes, StopTypes
    <2>2. SynthTypes' /\ PlayTypes'
      BY Numbers DEF PlayDies, IInv, TypeOK, SynthTypes, PlayTypes
    <2>3. HistoryTypes'
      BY Numbers DEF PlayDies, IInv, TypeOK, HistoryTypes, QueueTypes, SynthTypes, StopTypes
    <2>4. FlagTypes'
      BY Zenon DEF PlayDies, IInv, TypeOK, FlagTypes
    <2> QED BY <2>1, <2>2, <2>3, <2>4 DEF TypeOK
  <1>3. Alone' /\ Holds'
    BY DEF PlayDies, IInv, Alone, Holds, TypeOK, SynthTypes, PlayTypes
  <1>4. Sound'
    BY DEF PlayDies, IInv, Sound, Alone, TypeOK, PlayTypes
  <1>5. Spawning' \subseteq Spawning /\ Held' \subseteq Held
    BY DEF PlayDies, IInv, TypeOK, SynthTypes, PlayTypes, Spawning, Held
  <1>6. Ordered'
    BY <1>5, Shrinks DEF PlayDies
  <1> QED BY <1>1, <1>2, <1>3, <1>4, <1>6 DEF IInv

\* A file comes to its end.
LEMMA AfplayEndsStep == ASSUME IInv, NEW k \in Sentences, AfplayEnds(k) PROVE IInv'
  <1>1. Queues'
    BY DEF AfplayEnds, IInv, Queues
  <1>2. TypeOK'
    <2>1. QueueTypes' /\ StopTypes'
      BY Numbers DEF AfplayEnds, IInv, TypeOK, QueueTypes, StopTypes
    <2>2. SynthTypes' /\ PlayTypes'
      BY Numbers DEF AfplayEnds, IInv, TypeOK, SynthTypes, PlayTypes
    <2>3. HistoryTypes'
      BY Numbers DEF AfplayEnds, IInv, TypeOK, HistoryTypes, QueueTypes, SynthTypes, StopTypes
    <2>4. FlagTypes'
      BY Zenon DEF AfplayEnds, IInv, TypeOK, FlagTypes
    <2> QED BY <2>1, <2>2, <2>3, <2>4 DEF TypeOK
  <1>3. Alone' /\ Holds'
    BY DEF AfplayEnds, IInv, Alone, Holds, TypeOK, SynthTypes, PlayTypes
  <1>4. Sound'
    BY DEF AfplayEnds, IInv, Sound, Alone, TypeOK, PlayTypes
  <1>5. Spawning' \subseteq Spawning /\ Held' \subseteq Held
    BY DEF AfplayEnds, IInv, TypeOK, SynthTypes, PlayTypes, Spawning, Held
  <1>6. Ordered'
    BY <1>5, Shrinks DEF AfplayEnds
  <1> QED BY <1>1, <1>2, <1>3, <1>4, <1>6 DEF IInv

\* The synthesis thread takes the first pending sentence, or finds none.
LEMMA SynthTakeStep == ASSUME IInv, NEW w \in Workers, SynthTake(w) PROVE IInv'
  <1> USE Numbers
  <1>1. \A v \in Workers : text[v] = 0
    BY DEF SynthTake, IInv, Alone, Holds
  <1>2. UNCHANGED <<last, spoken, Range(ready), Spawning>>
    BY DEF SynthTake, Spawning
  <1>3. CASE pending = <<>>
    <2>1. UNCHANGED <<pending, text, Held>>
      BY <1>3 DEF SynthTake, Held
    <2>2. SynthTypes' /\ Alone' /\ Holds'
      <3>1. synth[w] = "take" /\ synth' = [synth EXCEPT ![w] = "leave"]
        BY <1>3 DEF SynthTake
      <3>2. UNCHANGED <<player, wav, synthThread, playThread>>
        BY DEF SynthTake
      <3>3. SynthTypes'
        BY <2>1, <3>1, <3>2 DEF IInv, TypeOK, SynthTypes
      <3>4. Alone'
        BY <3>1, <3>2 DEF IInv, TypeOK, SynthTypes, Alone
      <3>5. Holds'
        BY <2>1, <3>1, <3>2 DEF IInv, TypeOK, SynthTypes, Holds
      <3> QED BY <3>3, <3>4, <3>5
    <2>3. QueueTypes' /\ PlayTypes' /\ StopTypes' /\ HistoryTypes' /\ Queues' /\ Sound'
      BY <2>1 DEF SynthTake, IInv, TypeOK, QueueTypes, PlayTypes, StopTypes, HistoryTypes,
                  Queues, Sound
    <2>4. FlagTypes'
      BY <1>3, Zenon DEF SynthTake, IInv, TypeOK, FlagTypes
    <2>5. Ordered'
      BY <1>2, <2>1 DEF IInv, Ordered
    <2> QED BY <2>2, <2>3, <2>4, <2>5 DEF IInv, TypeOK
  <1>4. CASE pending # <<>>
    <2> DEFINE k == Head(pending)
    <2>1. /\ k \in Sentences /\ k \in Range(pending)
          /\ Tail(pending) \in Seq(Sentences) /\ Increasing(Tail(pending))
          /\ Range(Tail(pending)) \subseteq Range(pending)
          /\ \A j \in Range(Tail(pending)) : k < j
      BY <1>4, PopQueue DEF IInv, Queues
    <2>2. /\ pending' = Tail(pending) /\ ready' = ready /\ synthesizing' = TRUE
          /\ synth' = [synth EXCEPT ![w] = "fetch"]
          /\ text' = [text EXCEPT ![w] = k]
      BY <1>4 DEF SynthTake
    <2>3. SynthTypes'
      BY <2>1, <2>2 DEF SynthTake, IInv, TypeOK, SynthTypes
    <2>4. QueueTypes' /\ PlayTypes' /\ StopTypes' /\ HistoryTypes'
      BY <2>1, <2>2 DEF SynthTake, IInv, TypeOK, QueueTypes, PlayTypes, StopTypes, HistoryTypes
    <2>5. FlagTypes'
      BY <2>2, Zenon DEF SynthTake, IInv, TypeOK, FlagTypes
    <2>6. Queues' /\ Sound'
      BY <2>1, <2>2 DEF SynthTake, IInv, Queues, Sound
    <2>7. Alone' /\ Holds'
      BY <2>1, <2>2 DEF SynthTake, IInv, TypeOK, SynthTypes, Alone, Holds
    <2>8. Held = {} /\ Held' = {k}
      BY <1>1, <2>1, <2>2, ZenonT(60) DEF Held, IInv, TypeOK, SynthTypes
    <2>9. Ordered'
      BY <1>2, <2>1, <2>2, <2>8, ChainFetches DEF IInv, Ordered
    <2> QED BY <2>3, <2>4, <2>5, <2>6, <2>7, <2>9 DEF IInv, TypeOK
  <1> QED BY <1>3, <1>4

\* It hands its sentence on.
LEMMA SynthPushStep == ASSUME IInv, NEW w \in Workers, SynthPush(w) PROVE IInv'
  <1> USE Numbers
  <1> DEFINE k == text[w]
  <1>1. k # 0 /\ k \in Sentences
    BY DEF SynthPush, IInv, TypeOK, Holds, SynthTypes
  <1>2. Held = {k}
    BY <1>1, OneHolds DEF IInv
  <1>3. \A j \in Range(ready) : j < k
    BY <1>2 DEF IInv, Ordered, Chain
  <1>4. /\ ready' \in Seq(Sentences) /\ Increasing(ready')
        /\ Range(ready)' = Range(ready) \cup {k}
    BY <1>1, <1>3, AppendQueue DEF SynthPush, IInv, Queues
  <1>5. SynthTypes'
    BY DEF SynthPush, IInv, TypeOK, SynthTypes
  <1>6. QueueTypes' /\ PlayTypes' /\ StopTypes' /\ HistoryTypes'
    BY <1>1, <1>4 DEF SynthPush, IInv, TypeOK, QueueTypes, PlayTypes, StopTypes, HistoryTypes
  <1>7. FlagTypes'
    BY Zenon DEF SynthPush, IInv, TypeOK, FlagTypes
  <1>8. Queues' /\ Sound'
    BY <1>4 DEF SynthPush, IInv, Queues, Sound
  <1>9. Alone' /\ Holds'
    BY DEF SynthPush, IInv, TypeOK, SynthTypes, Alone, Holds
  <1>10. Held' = {}
    <2>1. \A v \in Workers : v # w => text[v] = 0
      BY <1>1 DEF IInv, Alone, Holds
    <2>2. \A v \in Workers : text'[v] = 0
      BY <2>1 DEF SynthPush, IInv, TypeOK, SynthTypes
    <2> QED BY <2>2 DEF Held
  <1>11. UNCHANGED <<last, spoken, Range(pending), Spawning>>
    BY DEF SynthPush, Spawning
  <1>12. Ordered'
    <2>1. Chain(last, Spawning, Range(ready), {k}, Range(pending), spoken)
      BY <1>2 DEF IInv, Ordered
    <2>2. Chain(last, Spawning, Range(ready) \cup {k}, {}, Range(pending), spoken)
      BY <2>1, ChainPushes
    <2> QED BY <1>4, <1>10, <1>11, <2>2 DEF Ordered
  <1> QED BY <1>5, <1>6, <1>7, <1>8, <1>9, <1>12 DEF IInv, TypeOK

\* The play thread takes the first sentence that is ready, or finds none.
LEMMA PlayTakeStep == ASSUME IInv, NEW w \in Workers, PlayTake(w) PROVE IInv'
  <1> USE Numbers
  <1>1. UNCHANGED <<last, spoken, Held, Range(pending)>>
    BY DEF PlayTake, Held
  <1>2. \A v \in Workers : player[v] # "spawn" /\ wav[v] = 0
    BY DEF PlayTake, IInv, Alone, Holds
  <1>3. audible = {}
    BY <1>2 DEF IInv, Sound, TypeOK, PlayTypes, Holds
  <1>4. SynthTypes' /\ StopTypes' /\ HistoryTypes'
    BY DEF PlayTake, IInv, TypeOK, SynthTypes, StopTypes, HistoryTypes
  <1>5. FlagTypes'
    BY Zenon DEF PlayTake, IInv, TypeOK, FlagTypes
  <1>6. CASE ready = <<>>
    <2>1. /\ UNCHANGED <<wav, ready>>
          /\ \E s \in {"check", "leave"} : player' = [player EXCEPT ![w] = s]
      BY <1>6 DEF PlayTake
    <2>2. PlayTypes' /\ QueueTypes' /\ Queues'
      BY <2>1 DEF PlayTake, IInv, TypeOK, PlayTypes, QueueTypes, Queues
    <2>3. Alone' /\ Holds' /\ Sound'
      BY <1>3, <2>1 DEF PlayTake, IInv, TypeOK, PlayTypes, Alone, Holds, Sound
    <2>4. Spawning = {} /\ Spawning' = {}
      BY <1>2, <2>1 DEF Spawning, IInv, TypeOK, PlayTypes
    <2>5. Ordered'
      BY <1>1, <2>1, <2>4 DEF IInv, Ordered
    <2> QED BY <1>4, <1>5, <2>2, <2>3, <2>5 DEF IInv, TypeOK
  <1>7. CASE ready # <<>>
    <2> DEFINE k == Head(ready)
    <2>1. /\ k \in Sentences /\ k \in Range(ready)
          /\ Tail(ready) \in Seq(Sentences) /\ Increasing(Tail(ready))
          /\ Range(Tail(ready)) \subseteq Range(ready)
          /\ \A j \in Range(Tail(ready)) : k < j
      BY <1>7, PopQueue DEF IInv, Queues
    <2>2. /\ ready' = Tail(ready) /\ pending' = pending /\ wav' = [wav EXCEPT ![w] = k]
          /\ player' = [player EXCEPT ![w] = "spawn"]
      BY <1>7 DEF PlayTake
    <2>3. QueueTypes' /\ Queues'
      BY <2>1, <2>2 DEF PlayTake, IInv, TypeOK, QueueTypes, Queues
    <2>4. PlayTypes'
      BY <2>1, <2>2, SMTT(30) DEF PlayTake, IInv, TypeOK, PlayTypes
    <2>5. Alone' /\ Holds' /\ Sound'
      BY <1>3, <2>1, <2>2, SMTT(30) DEF PlayTake, IInv, TypeOK, PlayTypes, Alone, Holds, Sound
    <2>6. Spawning = {} /\ Spawning' = {k}
      BY <1>2, <2>2 DEF Spawning, IInv, TypeOK, PlayTypes
    <2>7. Ordered'
      BY <1>1, <2>1, <2>2, <2>6, ChainTakes DEF IInv, Ordered
    <2> QED BY <1>4, <1>5, <2>3, <2>4, <2>5, <2>7 DEF IInv, TypeOK
  <1> QED BY <1>6, <1>7

\* A sentence begins in silence, and after the one before it.
LEMMA BeginsNext ==
  ASSUME IInv, NEW w \in Workers, PlaySpawn(w)
  PROVE  /\ audible = {} /\ wav[w] \in Sentences /\ wav[w] > last
         /\ Spawning = {wav[w]} /\ Spawning' = {}
         /\ Chain(wav[w], {}, Range(ready), Held, Range(pending), spoken)
  <1>1. audible = {}
    BY DEF PlaySpawn, IInv, Alone, Sound
  <1>2. wav[w] \in Sentences
    BY Numbers DEF PlaySpawn, IInv, TypeOK, Holds, PlayTypes
  <1>3. Spawning = {wav[w]}
    BY OneHolds DEF PlaySpawn, IInv
  <1>4. Spawning' = {}
    BY DEF PlaySpawn, Spawning, IInv, TypeOK, PlayTypes, Alone
  <1>5. /\ Chain(wav[w], {}, Range(ready), Held, Range(pending), spoken)
        /\ wav[w] > last
    BY <1>3, ChainBegins DEF IInv, Ordered
  <1> QED BY <1>1, <1>2, <1>3, <1>4, <1>5

\* Popen of afplay.
LEMMA PlaySpawnStep == ASSUME IInv, NEW w \in Workers, PlaySpawn(w) PROVE IInv'
  <1>1. SynthTypes' /\ QueueTypes' /\ StopTypes' /\ HistoryTypes' /\ Queues'
    BY DEF PlaySpawn, IInv, TypeOK, SynthTypes, QueueTypes, StopTypes, HistoryTypes, Queues
  <1>2. FlagTypes'
    BY Zenon DEF PlaySpawn, IInv, TypeOK, FlagTypes
  <1>3. PlayTypes'
    BY BeginsNext, Numbers DEF PlaySpawn, IInv, TypeOK, PlayTypes
  <1>4. Alone' /\ Holds' /\ Sound'
    BY BeginsNext DEF PlaySpawn, IInv, TypeOK, PlayTypes, Alone, Holds, Sound
  <1>5. UNCHANGED <<spoken, Held, Range(pending), Range(ready)>> /\ last' = wav[w]
    BY DEF PlaySpawn, Held
  <1>6. Ordered'
    BY <1>5, BeginsNext DEF Ordered
  <1> QED BY <1>1, <1>2, <1>3, <1>4, <1>6 DEF IInv, TypeOK

\* The inductive invariant holds throughout.
THEOREM Invariance == Spec => []IInv
  <1>1. ASSUME IInv, [Next]_vars PROVE IInv'
    <2>1. CASE Speak
      BY <1>1, <2>1, SpeakStep
    <2>2. CASE Stop
      BY <1>1, <2>2, StopClearStep, StopSetStep, StopKillStep DEF Stop
    <2>3. ASSUME NEW w \in Workers, Synth(w) PROVE IInv'
      BY <1>1, <2>3, SynthCheckStep, SynthTakeStep, FetchedStep, SynthDecideStep,
         SynthPushStep, SynthDiesStep DEF Synth
    <2>4. ASSUME NEW w \in Workers, Play(w) PROVE IInv'
      BY <1>1, <2>4, PlayCheckStep, PlayTakeStep, PlaySpawnStep, PlayRegisterStep,
         PlayDoneStep, PlayDiesStep DEF Play
    <2>5. ASSUME NEW k \in Sentences, AfplayEnds(k) PROVE IInv'
      BY <1>1, <2>5, AfplayEndsStep
    <2>6. CASE UNCHANGED vars
      BY <1>1, <2>6 DEF vars, IInv, TypeOK, QueueTypes, SynthTypes, PlayTypes, StopTypes,
         HistoryTypes, FlagTypes, Queues, Alone, Holds, Sound, Ordered, Spawning, Held
    <2> QED BY <1>1, <2>1, <2>2, <2>3, <2>4, <2>5, <2>6 DEF Next
  <1> QED BY InitInv, <1>1, PTL DEF Spec

\* Every variable keeps its type.
THEOREM TypeCorrect == Spec => []TypeOK
  <1>1. IInv => TypeOK
    BY DEF IInv
  <1> QED BY Invariance, <1>1, PTL

-----------------------------------------------------------------------------
(* Sentences play one at a time, in order.                                 *)

\* What stops, stops the one sentence that plays.
LEMMA OneIsHeard ==
  ASSUME IInv, NEW j \in audible, NEW k \in audible
  PROVE  j = k
  BY DEF IInv, Alone, Sound

\* Every step of the synthesizer is one of SpokenOrder, or changes nothing one
\* hears.
LEMMA StepPlaysInOrder ==
  ASSUME IInv, [Next]_vars
  PROVE  [Order!Next]_<<audible, last>>
  <1>1. ASSUME NEW k, audible' = audible \ {k}, last' = last
        PROVE  [Order!Next]_<<audible, last>>
    <2>1. CASE k \in audible
      <3>1. audible' = {}
        BY <1>1, <2>1, OneIsHeard
      <3> QED BY <1>1, <2>1, <3>1 DEF Order!Next, Order!End
    <2>2. CASE k \notin audible
      BY <1>1, <2>2
    <2> QED BY <2>1, <2>2
  <1>2. ASSUME NEW w \in Workers, PlaySpawn(w) PROVE Order!Next
    <2>1. Order!Begin(wav[w])
      BY <1>2, BeginsNext DEF PlaySpawn, Order!Begin
    <2> QED BY <1>2, <2>1, BeginsNext DEF Order!Next
  <1>3. CASE StopKill
    BY <1>1, <1>3 DEF StopKill
  <1>4. ASSUME NEW k \in Sentences, AfplayEnds(k) PROVE [Order!Next]_<<audible, last>>
    BY <1>1, <1>4 DEF AfplayEnds
  <1>5. CASE Speak \/ StopClear \/ StopSet
    BY <1>5 DEF Speak, StopClear, StopSet
  <1>6. ASSUME NEW w \in Workers, Synth(w) PROVE UNCHANGED <<audible, last>>
    BY <1>6 DEF Synth, SynthCheck, SynthTake, Fetched, SynthDecide, SynthPush, SynthDies
  <1>7. ASSUME NEW w \in Workers, Play(w), ~PlaySpawn(w) PROVE UNCHANGED <<audible, last>>
    BY <1>7 DEF Play, PlayCheck, PlayTake, PlayRegister, PlayDone, PlayDies
  <1>8. CASE UNCHANGED vars
    BY <1>8 DEF vars
  <1> QED BY <1>2, <1>3, <1>4, <1>5, <1>6, <1>7, <1>8 DEF Next, Stop

\* The synthesizer does what SpokenOrder promises: sentences never overlap, and
\* none plays twice or before one that was queued ahead of it.
THEOREM Refinement == Spec => PlaysInOrder
  <1>1. Init => Order!Init
    BY DEF Init, Order!Init
  <1> QED BY Invariance, <1>1, StepPlaysInOrder, PTL DEF Spec, PlaysInOrder, Order!Spec

-----------------------------------------------------------------------------
(* What begins after stop() has returned.                                  *)

\* While nobody has spoken since stop(), the event stays set; and once a
\* sentence has begun all the same, no thread is past its look at the event.
LateInv ==
  /\ quiet => stopped
  /\ late \in {0, 1}
  /\ quiet /\ late = 1 => \A w \in Workers : player[w] \notin {"take", "spawn"}

\* A step that begins no sentence and lets no player past its check.
LEMMA LateStays ==
  ASSUME LateInv, UNCHANGED <<quiet, late>>, stopped => stopped',
         \A w \in Workers : player'[w] \in {"take", "spawn"} => player[w] \in {"take", "spawn"}
  PROVE  LateInv'
  BY DEF LateInv

\* Every step keeps the bound.
LEMMA LateStep == IInv /\ LateInv /\ [Next]_vars => LateInv'
  <1> SUFFICES ASSUME IInv, LateInv, [Next]_vars PROVE LateInv'
    OBVIOUS
  <1>1. CASE Speak \/ StopKill
    <2>1. quiet' => stopped'
      <3>1. CASE Speak
        BY <3>1, Zenon DEF Speak
      <3>2. CASE StopKill
        <4>1. stopped' = stopped
          BY <3>2 DEF StopKill
        <4>2. quiet' = stopped
          BY <3>2, Zenon DEF StopKill
        <4> QED BY <4>1, <4>2, Zenon
      <3> QED BY <1>1, <3>1, <3>2
    <2>2. late' = 0
      BY <1>1, Zenon DEF Speak, StopKill
    <2> QED BY <2>1, <2>2 DEF LateInv
  <1>2. CASE StopClear \/ StopSet
    BY <1>2, LateStays DEF StopClear, StopSet
  <1>3. ASSUME NEW w \in Workers, Synth(w) PROVE LateInv'
    BY <1>3, LateStays
    DEF Synth, SynthCheck, SynthTake, Fetched, SynthDecide, SynthPush, SynthDies
  <1>4. ASSUME NEW w \in Workers, PlayCheck(w) PROVE LateInv'
    <2>1. /\ UNCHANGED <<quiet, late, stopped>>
          /\ player' = [player EXCEPT ![w] = IF stopped THEN "leave" ELSE "take"]
      BY <1>4 DEF PlayCheck
    <2>2. quiet => \A v \in Workers :
            player'[v] \in {"take", "spawn"} => player[v] \in {"take", "spawn"}
      BY <2>1 DEF LateInv
    <2> QED BY <2>1, <2>2 DEF LateInv
  <1>5. ASSUME NEW w \in Workers, PlayTake(w) PROVE LateInv'
    <2>1. /\ UNCHANGED <<quiet, late, stopped>> /\ player[w] = "take"
          /\ \E p \in {"spawn", "check", "leave"} : player' = [player EXCEPT ![w] = p]
      BY <1>5 DEF PlayTake
    <2> QED BY <2>1, LateStays
  <1>6. ASSUME NEW w \in Workers, PlaySpawn(w) PROVE LateInv'
    <2>1. /\ UNCHANGED <<quiet, stopped>> /\ player[w] = "spawn"
          /\ player' = [player EXCEPT ![w] = "register"]
          /\ late' = IF quiet /\ late < 3 THEN late + 1 ELSE late
      BY <1>6 DEF PlaySpawn
    <2>2. \A v \in Workers : player'[v] \notin {"take", "spawn"}
      BY <2>1 DEF IInv, Alone, TypeOK, PlayTypes
    <2>3. quiet => late = 0
      BY <2>1 DEF LateInv
    <2> QED BY <2>1, <2>2, <2>3 DEF LateInv
  <1>7. ASSUME NEW w \in Workers, PlayRegister(w) \/ PlayDone(w) \/ PlayDies(w) PROVE LateInv'
    <2>1. /\ UNCHANGED <<quiet, late, stopped>>
          /\ \E p \in {"wait", "check", "dead"} : player' = [player EXCEPT ![w] = p]
      BY <1>7 DEF PlayRegister, PlayDone, PlayDies
    <2> QED BY <2>1, LateStays DEF IInv, TypeOK, PlayTypes
  <1>8. ASSUME NEW k \in Sentences, AfplayEnds(k) PROVE LateInv'
    BY <1>8, LateStays DEF AfplayEnds
  <1>9. CASE UNCHANGED vars
    BY <1>9, LateStays DEF vars
  <1> QED BY <1>1, <1>2, <1>3, <1>4, <1>5, <1>6, <1>7, <1>8, <1>9 DEF Next, Stop, Play

\* A barge-in may come too late for one sentence, never for two: for any number
\* of sentences, of calls of stop() and of threads that died and were replaced.
THEOREM OneLateSentence == Spec => []LateSpeechBounded
  <1>1. Init => LateInv
    BY DEF Init, LateInv
  <1>2. LateInv => LateSpeechBounded
    BY DEF LateInv, LateSpeechBounded
  <1> QED BY <1>1, <1>2, LateStep, Invariance, PTL DEF Spec

-----------------------------------------------------------------------------
(* Winding down after stop().                                              *)

\* How far a thread still has to go once the event stays set: it finds it at its next look.
SynthLeft(w) ==
  CASE synth[w] = "take" -> 6
    [] synth[w] = "fetch" -> 5
    [] synth[w] = "decide" -> 4
    [] synth[w] = "push" -> 3
    [] synth[w] = "check" -> 2
    [] synth[w] = "leave" -> 1
    [] OTHER -> 0
PlayLeft(w) ==
  CASE player[w] = "take" -> 6
    [] player[w] = "spawn" -> 5
    [] player[w] = "register" -> 4
    [] player[w] = "wait" -> 3
    [] player[w] = "check" -> 2
    [] player[w] = "leave" -> 1
    [] OTHER -> 0

\* A synthesis thread goes on, a player does, or no thread does and only sound ends.
SynthNearer ==
  /\ UNCHANGED <<player, audible>>
  /\ \E w \in Workers : /\ SynthLeft(w)' < SynthLeft(w)
                        /\ \A v \in Workers \ {w} : SynthLeft(v)' = SynthLeft(v)
PlayNearer ==
  /\ UNCHANGED synth
  /\ \E w \in Workers : /\ PlayLeft(w)' < PlayLeft(w)
                        /\ \A v \in Workers \ {w} : PlayLeft(v)' = PlayLeft(v)
SoundEnds == UNCHANGED <<synth, player>> /\ audible' \subseteq audible

WindsDown == quiet /\ quiet' => SynthNearer \/ PlayNearer \/ SoundEnds

LEMMA SynthMoves ==
  ASSUME TypeOK, NEW w \in Workers, NEW p, synth' = [synth EXCEPT ![w] = p],
         UNCHANGED <<player, audible>>,
         \/ synth[w] = "check" /\ p = "leave"
         \/ synth[w] = "take" /\ p \in {"fetch", "leave"}
         \/ synth[w] = "fetch" /\ p \in {"decide", "check", "leave"}
         \/ synth[w] = "decide" /\ p = "leave"
         \/ synth[w] = "push" /\ p = "check"
         \/ synth[w] = "leave" /\ p = "dead"
  PROVE  SynthNearer
  <1>1. synth'[w] = p /\ \A v \in Workers \ {w} : synth'[v] = synth[v]
    BY DEF TypeOK, SynthTypes
  <1>2. SynthLeft(w)' < SynthLeft(w)
    BY <1>1 DEF SynthLeft
  <1>3. \A v \in Workers \ {w} : SynthLeft(v)' = SynthLeft(v)
    BY <1>1 DEF SynthLeft
  <1> QED BY <1>2, <1>3 DEF SynthNearer

LEMMA PlayMoves ==
  ASSUME TypeOK, NEW w \in Workers, NEW p, player' = [player EXCEPT ![w] = p], UNCHANGED synth,
         \/ player[w] = "check" /\ p = "leave"
         \/ player[w] = "take" /\ p \in {"spawn", "check", "leave"}
         \/ player[w] = "spawn" /\ p = "register"
         \/ player[w] = "register" /\ p = "wait"
         \/ player[w] = "wait" /\ p = "check"
         \/ player[w] = "leave" /\ p = "dead"
  PROVE  PlayNearer
  <1>1. player'[w] = p /\ \A v \in Workers \ {w} : player'[v] = player[v]
    BY DEF TypeOK, PlayTypes
  <1>2. PlayLeft(w)' < PlayLeft(w)
    BY <1>1 DEF PlayLeft
  <1>3. \A v \in Workers \ {w} : PlayLeft(v)' = PlayLeft(v)
    BY <1>1 DEF PlayLeft
  <1> QED BY <1>2, <1>3 DEF PlayNearer

\* What plays is waited for by the player that started it, so its end lets that one go on.
LEMMA WindsDownStep == IInv /\ LateInv /\ Next => WindsDown
  <1> SUFFICES ASSUME IInv, LateInv, Next, quiet, quiet' PROVE SynthNearer \/ PlayNearer \/ SoundEnds
    BY DEF WindsDown
  <1>0. TypeOK /\ stopped
    BY DEF IInv, LateInv
  <1>1. ASSUME NEW w \in Workers, Synth(w) PROVE SynthNearer
    <2>1. /\ UNCHANGED <<player, audible>>
          /\ \E p : /\ synth' = [synth EXCEPT ![w] = p]
                    /\ \/ synth[w] = "check" /\ p = "leave"
                       \/ synth[w] = "take" /\ p \in {"fetch", "leave"}
                       \/ synth[w] = "fetch" /\ p \in {"decide", "check", "leave"}
                       \/ synth[w] = "decide" /\ p = "leave"
                       \/ synth[w] = "push" /\ p = "check"
                       \/ synth[w] = "leave" /\ p = "dead"
      BY <1>0, <1>1
      DEF Synth, SynthCheck, SynthTake, Fetched, SynthDecide, SynthPush, SynthDies, playVars
    <2> QED BY <1>0, <2>1, SynthMoves
  <1>2. ASSUME NEW w \in Workers, Play(w) PROVE PlayNearer
    <2>1. /\ UNCHANGED synth
          /\ \E p : /\ player' = [player EXCEPT ![w] = p]
                    /\ \/ player[w] = "check" /\ p = "leave"
                       \/ player[w] = "take" /\ p \in {"spawn", "check", "leave"}
                       \/ player[w] = "spawn" /\ p = "register"
                       \/ player[w] = "register" /\ p = "wait"
                       \/ player[w] = "wait" /\ p = "check"
                       \/ player[w] = "leave" /\ p = "dead"
      BY <1>0, <1>2
      DEF Play, PlayCheck, PlayTake, PlaySpawn, PlayRegister, PlayDone, PlayDies, synthVars
    <2> QED BY <1>0, <2>1, PlayMoves
  <1>3. ASSUME NEW k \in Sentences, AfplayEnds(k) PROVE SoundEnds
    BY <1>3 DEF AfplayEnds, SoundEnds, synthVars
  <1>4. CASE Stop
    BY <1>4 DEF Stop, StopClear, StopSet, StopKill, SoundEnds, synthVars, playVars
  <1>5. ~Speak
    BY Zenon DEF Speak
  <1> QED BY <1>1, <1>2, <1>3, <1>4, <1>5 DEF Next

\* Once stop() has returned, and as long as nobody speaks, every step of a thread takes it
\* nearer to its end and sets no other back, a sound only begins with such a step, and what
\* still sounds belongs to a player that waits for it (Sound): nothing is left that spins, and
\* nobody waits for what has no end.
THEOREM QuietWindsDown == Spec => [](Sound /\ (quiet => stopped)) /\ [][WindsDown]_vars
  <1>1. Init => LateInv
    BY DEF Init, LateInv
  <1>2. IInv /\ LateInv => Sound /\ (quiet => stopped)
    BY DEF IInv, LateInv
  <1>3. IInv /\ LateInv /\ [Next]_vars => [WindsDown]_vars
    BY WindsDownStep
  <1> QED BY <1>1, <1>2, <1>3, LateStep, Invariance, PTL DEF Spec

-----------------------------------------------------------------------------
(* The live session. *)

Fragments == Seq(Nat)

Blocks == [checked : {0, 1}, scheduled : Nat, queued : 0 .. MaxQueue, held : {0, 1}, late : Nat, owed : Nat]

LiveTypes ==
  /\ muted \in BOOLEAN /\ drops \in Nat /\ left \in Budget
  /\ out \in [Sessions -> Blocks]
  /\ audioOut \in Seq(Int) /\ playing \in [Sessions -> {"none", "loop", "write", "done"}]
  /\ inText \in Fragments /\ outText \in Fragments /\ finals \in Seq(Fragments)

\* While the microphone is muted a block that is sent late was under way before,
\* so both together are no more than were under way then.
Muting ==
  \A s \in Sessions : IF muted THEN out[s].late + UnderWay(out[s]) <= out[s].owed
                                ELSE out[s].late = 0

\* What is queued to be played was received since the last interruption.
Current == \A i \in DOMAIN audioOut : audioOut[i] \in {Sentinel, drops}

\* Fragments are numbered downwards, so the next one is new.
NextIsNew(t) == \A w \in Range(t) : w > left.responses

\* A fragment is part of one text only: a final one, the question, or the answer.
Apart(t, u) == Range(t) \cap Range(u) = {}
ToldOnce ==
  /\ NextIsNew(inText) /\ NextIsNew(outText) /\ Apart(inText, outText)
  /\ \A i \in DOMAIN finals : /\ NextIsNew(finals[i])
                              /\ Apart(finals[i], inText) /\ Apart(finals[i], outText)
  /\ FinalsDisjoint

LiveInv == LiveTypes /\ Muting /\ Current /\ ToldOnce

-----------------------------------------------------------------------------
(* Texts *)

LEMMA LiveConstants ==
  /\ MaxSessions \in Nat /\ MaxResponses \in Nat /\ Budgets \subseteq Budget
  /\ MaxQueue \in Nat \ {0}
  BY LiveAssumption DEF LiveAssumption

LEMMA NoText == <<>> \in Fragments /\ Range(<<>>) = {} /\ Len(<<>>) = 0
  BY DEF Fragments, Range

LEMMA LongerText ==
  ASSUME NEW t \in Fragments, NEW w \in Nat
  PROVE  Append(t, w) \in Fragments /\ Range(Append(t, w)) \subseteq Range(t) \cup {w}
  <1>1. ASSUME NEW i \in DOMAIN Append(t, w) PROVE Append(t, w)[i] \in Range(t) \cup {w}
    <2>1. CASE i \in DOMAIN t
      BY <2>1 DEF Range, Fragments
    <2>2. CASE i \notin DOMAIN t
      BY <2>2 DEF Fragments
    <2> QED BY <2>1, <2>2
  <1> QED BY <1>1 DEF Range, Fragments

\* One more final text, apart from those there are.
LEMMA OneMoreFinal ==
  ASSUME NEW fs \in Seq(Fragments), NEW t \in Fragments, \A i \in DOMAIN fs : Apart(fs[i], t),
         \A i, j \in DOMAIN fs : i # j => Apart(fs[i], fs[j])
  PROVE  LET gs == Append(fs, t)
         IN  /\ gs \in Seq(Fragments)
             /\ \A i \in DOMAIN gs : gs[i] = t \/ \E j \in DOMAIN fs : gs[i] = fs[j]
             /\ \A i, j \in DOMAIN gs : i # j => Apart(gs[i], gs[j])
  <1> DEFINE gs == Append(fs, t)
  <1>1. gs \in Seq(Fragments)
    OBVIOUS
  <1>2. \A i \in DOMAIN gs : (i \in DOMAIN fs /\ gs[i] = fs[i]) \/ (i = Len(fs) + 1 /\ gs[i] = t)
    OBVIOUS
  <1> HIDE DEF gs
  <1>3. \A i, j \in DOMAIN gs : i # j => Apart(gs[i], gs[j])
    BY <1>2 DEF Apart
  <1> QED BY <1>1, <1>2, <1>3 DEF gs

-----------------------------------------------------------------------------
(* Steps *)

LEMMA Spending ==
  ASSUME NEW b \in Budget
  PROVE  /\ b.sessions > 0 => [b EXCEPT !.sessions = b.sessions - 1] \in Budget
         /\ b.toggles > 0 => [b EXCEPT !.toggles = b.toggles - 1] \in Budget
         /\ b.closes > 0 => [b EXCEPT !.closes = b.closes - 1] \in Budget
         /\ b.blocks > 0 => [b EXCEPT !.blocks = b.blocks - 1] \in Budget
         /\ b.responses > 0 => [b EXCEPT !.responses = b.responses - 1] \in Budget
         /\ b.failures > 0 => [b EXCEPT !.failures = b.failures - 1] \in Budget
  <1> USE LiveConstants DEF Budget
  <1>1. b.sessions > 0 => [b EXCEPT !.sessions = b.sessions - 1] \in Budget
    OBVIOUS
  <1>2. b.toggles > 0 => [b EXCEPT !.toggles = b.toggles - 1] \in Budget
    OBVIOUS
  <1>3. b.closes > 0 => [b EXCEPT !.closes = b.closes - 1] \in Budget
    OBVIOUS
  <1>4. b.blocks > 0 => [b EXCEPT !.blocks = b.blocks - 1] \in Budget
    OBVIOUS
  <1>5. b.responses > 0 => [b EXCEPT !.responses = b.responses - 1] \in Budget
    OBVIOUS
  <1>6. b.failures > 0 => [b EXCEPT !.failures = b.failures - 1] \in Budget
    OBVIOUS
  <1> QED BY <1>1, <1>2, <1>3, <1>4, <1>5, <1>6

\* Requests, loops and players leave the texts alone.
LEMMA TextsStay ==
  ASSUME ToldOnce, UNCHANGED <<inText, outText, finals>>, left'.responses = left.responses
  PROVE  ToldOnce'
  BY DEF ToldOnce, NextIsNew, Apart, FinalsDisjoint

LEMMA Counts ==
  ASSUME NEW b \in Blocks
  PROVE  UnderWay(b) \in Nat /\ b.late \in Nat /\ b.owed \in Nat
  <1>1. /\ b.checked \in Nat /\ b.scheduled \in Nat /\ b.queued \in Nat /\ b.held \in Nat
        /\ b.late \in Nat /\ b.owed \in Nat
    BY LiveConstants DEF Blocks
  <1> QED BY <1>1 DEF UnderWay

LEMMA MuteStarts ==
  ASSUME LiveTypes, NEW m \in BOOLEAN, SetMuted(m)
  PROVE  muted' \in BOOLEAN /\ out' \in [Sessions -> Blocks] /\ Muting'
  <1>1. ASSUME NEW b \in Blocks
        PROVE  LET x == [b EXCEPT !.late = 0, !.owed = UnderWay(b)]
               IN x \in Blocks /\ x.late = 0 /\ x.late + UnderWay(x) <= x.owed
    <2>1. b.checked \in {0, 1} /\ b.scheduled \in Nat /\ b.queued \in 0 .. MaxQueue /\ b.held \in {0, 1}
      BY DEF Blocks
    <2>2. UnderWay(b) \in Nat
      BY <2>1, LiveConstants DEF UnderWay
    <2> DEFINE x == [b EXCEPT !.late = 0, !.owed = UnderWay(b)]
    <2>3. x \in Blocks /\ x.late = 0 /\ x.owed = UnderWay(b) /\ x.checked = b.checked
          /\ x.scheduled = b.scheduled /\ x.queued = b.queued /\ x.held = b.held
      BY <2>2 DEF Blocks
    <2> QED BY <2>2, <2>3 DEF UnderWay
  <1>2. \A s \in Sessions : out'[s] = [out[s] EXCEPT !.late = 0, !.owed = UnderWay(out[s])] /\ out[s] \in Blocks
    BY DEF SetMuted, LiveTypes
  <1>3. out' \in [Sessions -> Blocks] /\ muted' = m
    BY <1>1, <1>2 DEF SetMuted
  <1> QED BY <1>1, <1>2, <1>3 DEF Muting

LEMMA RequestStep ==
  ASSUME LiveInv, NEW k \in Callers, Toggle(k) \/ Call(k)
  PROVE  LiveInv'
  <1> USE DEF LiveInv, thread, heard
  <1>1. CASE Flip(k)
    BY <1>1, MuteStarts, TextsStay DEF Flip, LiveTypes, Current
  <1>2. CASE Toggle(k) \/ Open(k) \/ Waited(k)
    <2>1. left' \in Budget /\ left'.responses = left.responses
      <3>1. CASE left' = left
        BY <3>1 DEF LiveTypes
      <3>2. CASE Toggle(k)
        <4>1. left.toggles > 0 /\ left' = [left EXCEPT !.toggles = left.toggles - 1]
          BY <3>2 DEF Toggle
        <4> QED BY <4>1, Spending DEF LiveTypes, Budget
      <3>3. CASE Open(k) /\ left' # left
        <4>1. left.sessions > 0 /\ left' = [left EXCEPT !.sessions = left.sessions - 1]
          BY <3>3 DEF Open
        <4> QED BY <4>1, Spending DEF LiveTypes, Budget
      <3> QED BY <1>2, <3>1, <3>2, <3>3 DEF Waited
    <2>2. UNCHANGED <<muted, out, audioOut, playing, drops, inText, outText, finals>>
      BY <1>2 DEF Toggle, Open, Waited
    <2> QED BY <2>1, <2>2, TextsStay DEF LiveTypes, Muting, Current
  <1> QED BY <1>1, <1>2 DEF Call

LEMMA InterruptStep ==
  ASSUME LiveInv, Interrupt
  PROVE  LiveInv'
  <1> USE DEF LiveInv, thread, heard
  <1>1. left' \in Budget /\ left'.responses = left.responses
    <2>1. left.toggles > 0 /\ left' = [left EXCEPT !.toggles = left.toggles - 1]
      BY DEF Interrupt
    <2> QED BY <2>1, Spending DEF LiveTypes, Budget
  <1> QED BY <1>1, MuteStarts, TextsStay DEF Interrupt, LiveTypes, Current

\* A piece of audio or a sentinel at the end of the queue.
LEMMA Queued ==
  ASSUME LiveTypes, Current, NEW e \in {Sentinel, drops}, audioOut' = Append(audioOut, e), drops' = drops
  PROVE  audioOut' \in Seq(Int) /\ Current'
  <1>1. e \in Int
    BY DEF LiveTypes, Sentinel
  <1> QED BY <1>1 DEF LiveTypes, Current

LEMMA CloseStep ==
  ASSUME LiveInv, Close \/ Closed
  PROVE  LiveInv'
  <1> USE DEF LiveInv
  <1>1. /\ UNCHANGED <<muted, out, playing, drops, inText, outText, finals>>
        /\ left' \in Budget /\ left'.responses = left.responses
    <2>1. CASE Close
      <3>1. left.closes > 0 /\ left' = [left EXCEPT !.closes = left.closes - 1]
        BY <2>1 DEF Close
      <3> QED BY <2>1, <3>1, Spending DEF Close, LiveTypes, Budget
    <2>2. CASE Closed
      BY <2>2 DEF Closed, LiveTypes
    <2> QED BY <2>1, <2>2
  <1>2. audioOut' \in Seq(Int) /\ Current'
    <2>1. CASE Close
      BY <1>1, <2>1, Queued DEF Close
    <2>2. CASE Closed
      BY <1>1, <2>2 DEF Closed, LiveTypes, Current
    <2> QED BY <2>1, <2>2
  <1> QED BY <1>1, <1>2, TextsStay DEF LiveTypes, Muting

\* A session's blocks go on: what is sent late was under way.
LEMMA Moved ==
  ASSUME LiveInv, NEW s \in Sessions, NEW x \in Blocks, out' = [out EXCEPT ![s] = x],
         UNCHANGED muted,
         muted => /\ x.owed = out[s].owed
                  /\ x.late + UnderWay(x) <= out[s].late + UnderWay(out[s]),
         ~ muted => x.late = out[s].late
  PROVE  out' \in [Sessions -> Blocks] /\ Muting'
  <1> USE DEF LiveInv, LiveTypes
  <1>1. out' \in [Sessions -> Blocks]
    OBVIOUS
  <1>2. \A b \in Blocks : b.late + UnderWay(b) \in Nat /\ b.owed \in Nat
    BY Counts
  <1>3. ASSUME NEW u \in Sessions
        PROVE  IF muted' THEN out'[u].late + UnderWay(out'[u]) <= out'[u].owed ELSE out'[u].late = 0
    <2>1. CASE u # s
      BY <2>1 DEF Muting
    <2>2. CASE u = s
      <3>1. out'[u] = x /\ out[s] \in Blocks
        BY <2>2
      <3>2. IF muted THEN out[s].late + UnderWay(out[s]) <= out[s].owed ELSE out[s].late = 0
        BY DEF Muting
      <3> QED BY <1>2, <3>1, <3>2
    <2> QED BY <2>1, <2>2
  <1> QED BY <1>1, <1>3 DEF Muting

\* Blocks on their way.
LEMMA BlockStep ==
  ASSUME LiveInv, NEW s \in Sessions, Capture(s) \/ Schedule(s) \/ Put(s) \/ TakeBlock(s) \/ SendBlock(s)
  PROVE  LiveInv'
  <1> USE DEF LiveInv, thread, heard
  <1>1. /\ UNCHANGED <<muted, audioOut, playing, drops, inText, outText, finals>>
    BY DEF Capture, Schedule, Put, TakeBlock, SendBlock
  <1>2. left' \in Budget /\ left'.responses = left.responses
    <2>1. CASE left' = left
      BY <2>1 DEF LiveTypes
    <2>2. CASE Capture(s)
      <3>1. left.blocks > 0 /\ left' = [left EXCEPT !.blocks = left.blocks - 1]
        BY <2>2 DEF Capture
      <3> QED BY <3>1, Spending DEF LiveTypes, Budget
    <2> QED BY <2>1, <2>2 DEF Schedule, Put, TakeBlock, SendBlock
  <1> DEFINE b == out[s]
  <1>3. /\ b \in Blocks /\ b.checked \in {0, 1} /\ b.scheduled \in Nat /\ b.queued \in 0 .. MaxQueue
        /\ b.held \in {0, 1} /\ b.late \in Nat /\ b.owed \in Nat
    BY DEF LiveTypes, Blocks
  <1>4. out' \in [Sessions -> Blocks] /\ Muting'
    <2>1. CASE Capture(s)
      <3> DEFINE x == [b EXCEPT !.checked = 1]
      <3>1. x \in Blocks /\ x.late = b.late
        BY <1>3 DEF Blocks
      <3>2. out' = [out EXCEPT ![s] = x] /\ ~ muted
        BY <2>1 DEF Capture, Captures
      <3> HIDE DEF x
      <3> QED BY <1>1, <3>1, <3>2, Moved
    <2>2. CASE Schedule(s)
      <3> DEFINE k == IF main[s] = "up" THEN b.scheduled + 1 ELSE b.scheduled
                 x == [b EXCEPT !.checked = 0, !.scheduled = k]
      <3>0. b.checked = 1 /\ k \in Nat /\ k <= b.scheduled + 1
        BY <1>3, <2>2 DEF Schedule
      <3>1. x \in Blocks /\ x.late = b.late /\ x.owed = b.owed /\ x.checked = 0 /\ x.scheduled = k
            /\ x.queued = b.queued /\ x.held = b.held
        <4> HIDE DEF k
        <4> QED BY <1>3, <3>0 DEF Blocks
      <3>2. out' = [out EXCEPT ![s] = x]
        BY <2>2 DEF Schedule, LiveTypes, Blocks
      <3> HIDE DEF x, k
      <3>3. x.late + UnderWay(x) <= b.late + UnderWay(b)
        BY <1>3, <3>0, <3>1, LiveConstants DEF UnderWay
      <3> QED BY <1>1, <3>1, <3>2, <3>3, Moved
    <2>3. CASE Put(s)
      <3> DEFINE k == IF b.queued < MaxQueue THEN b.queued + 1 ELSE b.queued
                 x == [b EXCEPT !.scheduled = b.scheduled - 1, !.queued = k]
      <3>0. b.scheduled > 0 /\ k \in 0 .. MaxQueue /\ k <= b.queued + 1
        BY <1>3, <2>3, LiveConstants DEF Put
      <3>1. x \in Blocks /\ x.late = b.late /\ x.owed = b.owed /\ x.checked = b.checked
            /\ x.scheduled = b.scheduled - 1 /\ x.queued = k /\ x.held = b.held
        <4> HIDE DEF k
        <4>1. b.scheduled - 1 \in Nat
          BY <1>3, <3>0
        <4> QED BY <1>3, <3>0, <4>1 DEF Blocks
      <3>2. out' = [out EXCEPT ![s] = x]
        BY <2>3 DEF Put, LiveTypes, Blocks
      <3> HIDE DEF x, k
      <3>3. x.late + UnderWay(x) <= b.late + UnderWay(b)
        BY <1>3, <3>0, <3>1, LiveConstants DEF UnderWay
      <3> QED BY <1>1, <3>1, <3>2, <3>3, Moved
    <2>4. CASE TakeBlock(s)
      <3> DEFINE x == [b EXCEPT !.queued = b.queued - 1, !.held = 1]
      <3>0. b.queued > 0 /\ b.held = 0 /\ b.queued - 1 \in 0 .. MaxQueue
        BY <1>3, <2>4, LiveConstants DEF TakeBlock
      <3>1. x \in Blocks /\ x.late = b.late /\ x.owed = b.owed /\ x.checked = b.checked
            /\ x.scheduled = b.scheduled /\ x.queued = b.queued - 1 /\ x.held = 1
        BY <1>3, <3>0 DEF Blocks
      <3>2. out' = [out EXCEPT ![s] = x]
        BY <2>4 DEF TakeBlock, LiveTypes, Blocks
      <3> HIDE DEF x
      <3>3. x.late + UnderWay(x) <= b.late + UnderWay(b)
        BY <1>3, <3>0, <3>1, LiveConstants DEF UnderWay
      <3> QED BY <1>1, <3>1, <3>2, <3>3, Moved
    <2>5. CASE SendBlock(s)
      <3> DEFINE k == IF muted THEN b.late + 1 ELSE b.late
                 x == [b EXCEPT !.held = 0, !.late = k]
      <3>0. b.held = 1 /\ k \in Nat /\ k <= b.late + 1 /\ (~ muted => k = b.late)
        BY <1>3, <2>5 DEF SendBlock
      <3>1. x \in Blocks /\ x.late = k /\ x.owed = b.owed /\ x.checked = b.checked
            /\ x.scheduled = b.scheduled /\ x.queued = b.queued /\ x.held = 0
        <4> HIDE DEF k
        <4> QED BY <1>3, <3>0 DEF Blocks
      <3>2. out' = [out EXCEPT ![s] = x]
        BY <2>5 DEF SendBlock, LiveTypes, Blocks
      <3> HIDE DEF x, k
      <3>3. x.late + UnderWay(x) <= b.late + UnderWay(b)
        BY <1>3, <3>0, <3>1, LiveConstants DEF UnderWay
      <3> QED BY <1>1, <3>0, <3>1, <3>2, <3>3, Moved
    <2> QED BY <2>1, <2>2, <2>3, <2>4, <2>5
  <1> QED BY <1>1, <1>2, <1>4, TextsStay DEF LiveTypes, Current

\* The loop of a session comes up and ends, and the player takes pieces and writes them.
LEMMA LoopStep ==
  ASSUME LiveInv, NEW s \in Sessions, Connected(s) \/ Ended(s) \/ Plays(s)
  PROVE  LiveInv'
  <1> USE DEF LiveInv, thread, heard
  <1>1. /\ UNCHANGED <<muted, out, drops, inText, outText, finals, left>>
        /\ playing' \in [Sessions -> {"none", "loop", "write", "done"}]
    BY DEF Connected, Ended, Plays, PlayerGet, PlayerWrote, PlayerQuits, LiveTypes
  <1>2. audioOut' \in Seq(Int) /\ Current'
    <2>1. CASE audioOut' = audioOut
      BY <1>1, <2>1 DEF LiveTypes, Current
    <2>2. CASE PlayerGet(s)
      <3>1. /\ audioOut \in Seq(Int) /\ audioOut # <<>> /\ audioOut' = Tail(audioOut)
        BY <2>2 DEF PlayerGet, LiveTypes
      <3>2. /\ audioOut' \in Seq(Int)
            /\ \A i \in DOMAIN audioOut' : i + 1 \in DOMAIN audioOut /\ audioOut'[i] = audioOut[i + 1]
        BY <3>1
      <3> QED BY <1>1, <3>2 DEF Current
    <2> QED BY <2>1, <2>2 DEF Connected, Ended, Plays, PlayerWrote, PlayerQuits
  <1> QED BY <1>1, <1>2, TextsStay DEF LiveTypes, Muting

LEMMA ToolStep ==
  ASSUME LiveInv, NEW i \in Calls, Tool(i)
  PROVE  LiveInv'
  <1>1. left' \in Budget /\ left'.responses = left.responses
    <2>1. CASE left' = left
      BY <2>1 DEF LiveInv, LiveTypes
    <2>2. CASE left' # left
      <3>1. left.failures > 0 /\ left' = [left EXCEPT !.failures = left.failures - 1]
        BY <2>2 DEF Tool, RunTool, Respond, SendFails
      <3> QED BY <3>1, Spending DEF LiveInv, LiveTypes, Budget
    <2> QED BY <2>1, <2>2
  <1> QED BY <1>1, TextsStay DEF LiveInv, Tool, RunTool, Respond, SendFails, tooling, thread, LiveTypes,
                                Muting, Current

LEMMA ResponseCounts ==
  ASSUME LiveTypes, NEW s \in Sessions, Response(s)
  PROVE  number \in Nat /\ left' \in Budget /\ left'.responses = number - 1
  <1>1. left.responses > 0 /\ left' = [left EXCEPT !.responses = left.responses - 1]
    BY DEF Response
  <1>2. left \in Budget /\ left.responses \in Nat
    BY LiveConstants DEF LiveTypes, Budget
  <1>3. left' \in Budget
    BY <1>1, <1>2, Spending
  <1>4. left'.responses = left.responses - 1
    BY <1>1, <1>2 DEF Budget
  <1> QED BY <1>2, <1>3, <1>4 DEF number

\* What a response does to the texts: the question or the answer grows by the new fragment,
\* or becomes final and starts anew.
Retold ==
  LET grows(t, u) == Range(u) \subseteq Range(t) \cup {number}
      empty(u)    == Range(u) = {}
  IN  \/ finals' = finals /\ grows(inText, inText') /\ outText' = outText
      \/ finals' = finals /\ empty(inText') /\ (grows(outText, outText') \/ empty(outText'))
      \/ finals' = Append(finals, inText) /\ empty(inText') /\ grows(outText, outText')
      \/ finals' = Append(finals, outText) /\ empty(inText') /\ empty(outText')

LEMMA RetoldOnce ==
  ASSUME LiveTypes, ToldOnce, NEW s \in Sessions, Response(s), Retold
  PROVE  finals' \in Seq(Fragments) /\ ToldOnce'
  <1>1. /\ number \in Nat /\ left'.responses = number - 1 /\ left.responses = number
    BY ResponseCounts DEF number
  <1>2. \A t \in Fragments : NextIsNew(t) => \A w \in Range(t) : w > left'.responses /\ w # number
    <2> SUFFICES ASSUME NEW t \in Fragments, NextIsNew(t), NEW w \in Range(t)
                 PROVE  w > left'.responses /\ w # number
      OBVIOUS
    <2>1. w \in Nat
      BY DEF Fragments, Range
    <2>2. w > number
      BY <1>1 DEF NextIsNew
    <2> QED BY <1>1, <2>1, <2>2
  <1>3. /\ inText \in Fragments /\ outText \in Fragments /\ finals \in Seq(Fragments)
        /\ \A i \in DOMAIN finals : finals[i] \in Fragments
    BY DEF LiveTypes
  <1>4. NextIsNew(inText)' /\ NextIsNew(outText)' /\ Apart(inText, outText)'
    BY <1>1, <1>2, <1>3 DEF ToldOnce, Retold, NextIsNew, Apart
  <1>5. \A t \in Fragments : /\ NextIsNew(t) /\ Apart(t, inText) /\ Apart(t, outText)
                             => Apart(t, inText') /\ Apart(t, outText')
    BY <1>1, <1>2 DEF Retold, Apart
  <1>6. PICK t \in Fragments :
          /\ \/ finals' = finals
             \/ finals' = Append(finals, t)
          /\ finals' # finals => NextIsNew(t) /\ Apart(t, inText') /\ Apart(t, outText')
                                 /\ \A i \in DOMAIN finals : Apart(finals[i], t)
    <2>1. CASE finals' = finals
      BY <1>3, <2>1
    <2>2. CASE /\ finals' = Append(finals, inText)
               /\ Range(inText') = {} /\ Range(outText') \subseteq Range(outText) \cup {number}
      <3>1. Apart(inText, inText') /\ Apart(inText, outText')
        BY <1>1, <1>2, <1>3, <2>2 DEF ToldOnce, Apart
      <3> QED BY <1>3, <2>2, <3>1 DEF ToldOnce
    <2>3. CASE finals' = Append(finals, outText) /\ Range(inText') = {} /\ Range(outText') = {}
      <3>1. Apart(outText, inText') /\ Apart(outText, outText')
        BY <2>3 DEF Apart
      <3> QED BY <1>3, <2>3, <3>1 DEF ToldOnce
    <2> QED BY <2>1, <2>2, <2>3 DEF Retold
  <1>7. /\ finals' \in Seq(Fragments)
        /\ \A i \in DOMAIN finals' : \/ \E j \in DOMAIN finals : finals'[i] = finals[j]
                                     \/ finals' # finals /\ finals'[i] = t
        /\ \A i, j \in DOMAIN finals' : i # j => Apart(finals'[i], finals'[j])
    <2>1. CASE finals' = finals
      BY <1>3, <2>1 DEF ToldOnce, FinalsDisjoint, Apart
    <2>2. CASE finals' # finals
      <3>1. /\ finals' = Append(finals, t) /\ \A i \in DOMAIN finals : Apart(finals[i], t)
            /\ \A i, j \in DOMAIN finals : i # j => Apart(finals[i], finals[j])
        BY <1>6, <2>2 DEF ToldOnce, FinalsDisjoint, Apart
      <3> QED BY <1>3, <2>2, <3>1, OneMoreFinal
    <2> QED BY <2>1, <2>2
  <1>8. \A i \in DOMAIN finals' : /\ finals'[i] \in Fragments /\ NextIsNew(finals'[i])
                                  /\ Apart(finals'[i], inText') /\ Apart(finals'[i], outText')
    BY <1>3, <1>5, <1>6, <1>7 DEF ToldOnce
  <1>9. \A i \in DOMAIN finals' : \A w \in Range(finals'[i]) : w > left'.responses
    BY <1>2, <1>8
  <1> QED BY <1>4, <1>7, <1>8, <1>9 DEF ToldOnce, FinalsDisjoint, NextIsNew, Apart

LEMMA ReceiveStep ==
  ASSUME LiveInv, NEW s \in Sessions, Receive(s)
  PROVE  LiveInv'
  <1> USE DEF LiveInv, thread
  <1>1. /\ Response(s)
        /\ UNCHANGED <<muted, out, playing>>
    BY DEF Receive, Audio, InputFragment, OutputFragment, TurnComplete, Interrupted, ToolCall
  <1>2. number \in Nat /\ left' \in Budget
    BY <1>1, ResponseCounts
  <1>3. drops' \in Nat /\ audioOut' \in Seq(Int) /\ Current'
    <2>1. CASE UNCHANGED <<audioOut, drops>>
      BY <2>1 DEF LiveTypes, Current
    <2>2. CASE Audio(s)
      BY <2>2, Queued DEF Audio, LiveTypes
    <2>3. CASE Interrupted(s)
      BY <2>3 DEF Interrupted, Drain, LiveTypes, Current
    <2> QED BY <2>1, <2>2, <2>3 DEF Receive, InputFragment, OutputFragment, TurnComplete, ToolCall
  <1>4. inText' \in Fragments /\ outText' \in Fragments /\ Retold
    <2> USE DEF LiveTypes
    <2>1. CASE UNCHANGED <<inText, outText, finals>>
      BY <2>1 DEF Retold
    <2>2. CASE InputFragment(s)
      BY <1>2, <2>2, LongerText DEF InputFragment, Retold
    <2>3. CASE OutputFragment(s)
      <3>1. outText' \in Fragments /\ Range(outText') \subseteq Range(outText) \cup {number}
        BY <1>2, <2>3, LongerText DEF OutputFragment
      <3> QED BY <2>3, <3>1, NoText DEF OutputFragment, Settle, Retold
    <2>4. CASE TurnComplete(s)
      BY <2>4, NoText DEF TurnComplete, Retold
    <2>5. CASE Interrupted(s)
      BY <2>5, NoText DEF Interrupted, Retold
    <2> QED BY <2>1, <2>2, <2>3, <2>4, <2>5 DEF Receive, Audio, ToolCall
  <1>5. finals' \in Seq(Fragments) /\ ToldOnce'
    BY <1>1, <1>4, RetoldOnce
  <1> QED BY <1>1, <1>2, <1>3, <1>4, <1>5 DEF LiveTypes, Muting

-----------------------------------------------------------------------------
(* Theorems *)

LEMMA LiveStep == LiveInv /\ [LiveNext]_liveVars => LiveInv'
  <1> SUFFICES ASSUME LiveInv, [LiveNext]_liveVars PROVE LiveInv'
    OBVIOUS
  <1>1. CASE UNCHANGED liveVars
    BY <1>1, TextsStay DEF liveVars, LiveInv, LiveTypes, Muting, Current
  <1>2. CASE LiveNext
    BY <1>2, RequestStep, InterruptStep, CloseStep, LoopStep, BlockStep, ReceiveStep, ToolStep
       DEF LiveNext
  <1> QED BY <1>1, <1>2

LEMMA LiveStart == LiveInit => LiveInv
  <1> SUFFICES ASSUME LiveInit PROVE LiveInv
    OBVIOUS
  <1>1. LiveTypes
    BY LiveConstants, NoText DEF LiveInit, LiveTypes, Blocks, NoBlocks
  <1>2. Muting
    BY LiveConstants DEF LiveInit, Muting, NoBlocks, UnderWay
  <1>3. Current /\ ToldOnce
    BY NoText DEF LiveInit, Current, ToldOnce, NextIsNew, Apart, FinalsDisjoint
  <1> QED BY <1>1, <1>2, <1>3 DEF LiveInv

LEMMA LiveHolds == LiveSpec => []LiveInv
  BY LiveStart, LiveStep, PTL DEF LiveSpec

\* However requests, interruptions, several sessions and the service's messages interleave,
\* no more blocks are sent after a mute than were under way, and no transcript fragment is
\* reported in two final texts.
THEOREM ReportedOnce == LiveSpec => []HeardOnce
  <1>1. LiveInv => HeardOnce
    <2> SUFFICES ASSUME LiveInv PROVE HeardOnce
      OBVIOUS
    <2>2. ASSUME NEW s \in Sessions PROVE out[s].late <= out[s].owed
      <3>1. out[s].late \in Nat /\ out[s].owed \in Nat /\ UnderWay(out[s]) \in Nat
        BY Counts DEF LiveInv, LiveTypes
      <3> QED BY <3>1 DEF LiveInv, Muting
    <2> QED BY <2>2 DEF HeardOnce, LateBlocksBounded, LiveInv, ToldOnce
  <1> QED BY <1>1, LiveHolds, PTL

\* The first piece a player takes up after an interruption was received after it.
THEOREM OldSpeechIsDropped == LiveSpec => InterruptionIsSilent
  <1>1. /\ LiveInv /\ [LiveNext]_liveVars
        => [\A s \in Sessions :
              playing[s] = "loop" /\ playing'[s] = "write" => Head(audioOut) = drops]_liveVars
    <2> SUFFICES ASSUME LiveInv, LiveNext, NEW s \in Sessions,
                        playing[s] = "loop", playing'[s] = "write"
                 PROVE  Head(audioOut) = drops
      OBVIOUS
    <2>1. PlayerGet(s)
      <3>1. playing' # playing
        OBVIOUS
      <3> QED BY <3>1 DEF LiveNext, Call, Toggle, Open, Waited, Flip, Interrupt, Close, Closed,
                 Connected, Ended, Capture, Put, TakeBlock, SendBlock, Receive, Audio,
                 InputFragment, OutputFragment, TurnComplete, Interrupted, ToolCall, RunTool,
                 Respond, SendFails, Tool, tooling, Schedule, Plays, PlayerGet, PlayerWrote, PlayerQuits, LiveInv, LiveTypes
    <2>2. audioOut # <<>> /\ audioOut \in Seq(Int) /\ Head(audioOut) # Sentinel
      BY <2>1 DEF PlayerGet, LiveInv, LiveTypes
    <2>3. 1 \in DOMAIN audioOut /\ Head(audioOut) = audioOut[1]
      BY <2>2
    <2> QED BY <2>2, <2>3 DEF LiveInv, Current
  <1> QED BY <1>1, LiveHolds, PTL DEF LiveSpec, InterruptionIsSilent

-----------------------------------------------------------------------------
(* Tool calls end with their session. *)

\* Sessions come up in the order they were started, and a call that was not answered yet is
\* handled by one that is up: the one it was asked by and the only one, if one at a time was.
Belongs ==
  /\ started \in Nat /\ main \in [Sessions -> {"none", "connecting", "up", "ended"}]
  /\ socket \in Sessions \cup {0} /\ doubled \in BOOLEAN
  /\ \A s \in Sessions : s > started => main[s] = "none"
  /\ call \in [Calls -> {"none", "asked", "ran", "answered", "stray", "dropped", "dead"}]
  /\ asker \in [Calls -> Sessions \cup {0}] /\ handler \in [Calls -> Sessions \cup {0}]
  /\ \A i \in Calls : i <= left.responses => call[i] = "none"
  /\ \A i \in Calls : call[i] \in {"asked", "ran"} =>
       handler[i] \in Sessions /\ main[handler[i]] = "up"
  /\ ~ doubled =>
       /\ \A s \in Sessions : main[s] = "up" => socket = s
       /\ \A i \in Calls : call[i] # "stray" /\ (call[i] \in {"asked", "ran"} => asker[i] = handler[i])

\* A call whose answer is still to come is handled by a loop that is up; and as long as one
\* session at a time was up, _session is the connection the call came on, and no call has
\* been answered on another.
NoStrayCall ==
  \A i \in Calls :
    /\ call[i] \in {"asked", "ran"} => \E s \in Sessions : s = handler[i] /\ main[s] = "up"
    /\ ~ doubled => call[i] # "stray" /\ (call[i] \in {"asked", "ran"} => asker[i] = socket)

\* A call that was asked is run, then answered, here or elsewhere, or its answer is dropped,
\* or it dies with its loop.
CallForward ==
  \A i \in Calls :
    \/ call'[i] = call[i]
    \/ call[i] = "asked" /\ call'[i] = "ran"
    \/ call[i] = "ran" /\ call'[i] \in {"answered", "stray", "dropped"}
    \/ call[i] \in {"asked", "ran"} /\ call'[i] = "dead"
    \/ call[i] = "none" /\ call'[i] = "asked"

\* With the flag down a player only goes on to its end.
PlayersForward ==
  ~running /\ ~running' =>
    \A s \in Sessions :
      \/ playing'[s] = playing[s]
      \/ playing[s] = "write" /\ playing'[s] = "loop"
      \/ playing[s] = "loop" /\ playing'[s] = "done"

LEMMA CallStays ==
  ASSUME Belongs, left'.responses <= left.responses, left'.responses \in Int,
         left.responses \in Int, UNCHANGED <<started, main, socket, doubled, tasks, playing>>
  PROVE  Belongs' /\ CallForward /\ PlayersForward
  <1>1. Calls \subseteq Int
    BY LiveAssumption DEF Calls, LiveAssumption
  <1> QED BY <1>1 DEF Belongs, CallForward, PlayersForward, tasks

LEMMA CallStep ==
  ASSUME LiveInv, Belongs, LiveNext
  PROVE  Belongs' /\ CallForward /\ PlayersForward
  <1>0. /\ left \in [sessions : 0 .. MaxSessions, toggles : Nat, closes : Nat,
                     responses : 0 .. MaxResponses, blocks : Nat, failures : Nat]
        /\ playing \in [Sessions -> {"none", "loop", "write", "done"}]
        /\ left.responses \in Nat /\ MaxSessions \in Nat /\ MaxResponses \in Nat
        /\ Sessions = 1 .. MaxSessions /\ Calls = 1 .. MaxResponses
    BY LiveAssumption DEF LiveInv, LiveTypes, Budget, LiveAssumption, Sessions, Calls
  \* what neither starts nor ends anything
  <1>1. ASSUME \/ \E k \in Callers : Toggle(k) \/ Waited(k) \/ Flip(k)
               \/ Interrupt \/ Close \/ Closed
               \/ \E s \in Sessions : \/ Capture(s) \/ Schedule(s) \/ Put(s) \/ TakeBlock(s) \/ SendBlock(s)
                                      \/ Audio(s) \/ InputFragment(s) \/ OutputFragment(s)
                                      \/ TurnComplete(s) \/ Interrupted(s)
        PROVE  Belongs' /\ CallForward /\ PlayersForward
    <2>1. UNCHANGED <<started, main, socket, doubled, tasks, playing>>
      BY <1>1 DEF Toggle, Waited, Flip, Interrupt, Close, Closed, Capture, Schedule, Put, TakeBlock,
                  SendBlock, Audio, InputFragment, OutputFragment, TurnComplete, Interrupted,
                  thread, heard
    <2>2. left'.responses \in {left.responses, left.responses - 1}
      BY <1>0, <1>1 DEF Toggle, Waited, Flip, Interrupt, Close, Closed, Capture, Schedule, Put, TakeBlock,
                  SendBlock, Response, Audio, InputFragment, OutputFragment, TurnComplete,
                  Interrupted
    <2> QED BY <1>0, <2>1, <2>2, CallStays
  <1>2. ASSUME NEW k \in Callers, Open(k) PROVE Belongs' /\ CallForward /\ PlayersForward
    <2>1. CASE UNCHANGED <<started, main, left>>
      BY <1>0, <1>2, <2>1, CallStays DEF Open, heard
    <2>2. CASE ~UNCHANGED <<started, main, left>>
      <3>1. /\ started' = started + 1 /\ main' = [main EXCEPT ![started + 1] = "connecting"]
            /\ left'.responses = left.responses /\ UNCHANGED <<socket, doubled, tasks, playing>>
        BY <1>0, <1>2, <2>2 DEF Open, heard
      <3>2. \A s \in Sessions : main'[s] = IF s = started + 1 THEN "connecting" ELSE main[s]
        BY <3>1 DEF Belongs
      <3>3. \A s \in Sessions : main[s] = "up" => main'[s] = "up"
        BY <1>0, <3>2 DEF Belongs
      <3>4. main' \in [Sessions -> {"none", "connecting", "up", "ended"}] /\ started' \in Nat
        <4>1. main' = [s \in Sessions |-> IF s = started + 1 THEN "connecting" ELSE main[s]]
          BY <3>1 DEF Belongs
        <4>2. started' \in Nat
          BY <3>1 DEF Belongs
        <4>3. \A s \in Sessions : main'[s] \in {"none", "connecting", "up", "ended"}
          BY <3>2 DEF Belongs
        <4> QED BY <4>1, <4>2, <4>3
      <3>5. \A s \in Sessions : s > started' => main'[s] = "none"
        BY <1>0, <3>1, <3>2 DEF Belongs
      <3>6. Belongs'
        BY <3>1, <3>2, <3>3, <3>4, <3>5 DEF Belongs, tasks
      <3> QED BY <3>1, <3>6 DEF CallForward, PlayersForward, tasks
    <2> QED BY <2>1, <2>2
  <1>3. ASSUME NEW s \in Sessions, Connected(s) PROVE Belongs' /\ CallForward /\ PlayersForward
    <2>1. /\ main[s] = "connecting" /\ main' = [main EXCEPT ![s] = "up"] /\ running' /\ socket' = s
          /\ doubled' = (doubled \/ \E t \in Sessions \ {s} : main[t] = "up")
          /\ UNCHANGED <<started, tasks, left>>
      BY <1>3 DEF Connected, heard
    <2>2. ASSUME ~ doubled', NEW t \in Sessions, main'[t] = "up" PROVE socket' = t
      BY <2>1, <2>2 DEF Belongs
    <2>3. UNCHANGED <<call, asker, handler>>
      BY <2>1 DEF tasks
    <2>4. Belongs'
      BY <1>0, <2>1, <2>2, <2>3 DEF Belongs
    <2> QED BY <2>1, <2>3, <2>4 DEF CallForward, PlayersForward
  <1>4. ASSUME NEW s \in Sessions, Ended(s) PROVE Belongs' /\ CallForward /\ PlayersForward
    <2>1. /\ main[s] \in {"connecting", "up"} /\ main' = [main EXCEPT ![s] = "ended"]
          /\ UNCHANGED <<started, socket, doubled, asker, handler, left, playing>>
          /\ call' = [i \in Calls |-> IF handler[i] = s /\ call[i] \in {"asked", "ran"} THEN "dead"
                                      ELSE call[i]]
      BY <1>4 DEF Ended
    <2> QED BY <1>0, <2>1 DEF Belongs, CallForward, PlayersForward
  <1>5. ASSUME NEW s \in Sessions, ToolCall(s) PROVE Belongs' /\ CallForward /\ PlayersForward
    <2>1. /\ main[s] = "up" /\ left.responses > 0 /\ left'.responses = left.responses - 1
          /\ UNCHANGED <<started, main, socket, doubled, playing>>
          /\ call' = [call EXCEPT ![left.responses] = "asked"]
          /\ \E t \in {s, socket} : asker' = [asker EXCEPT ![left.responses] = t]
          /\ handler' = [handler EXCEPT ![left.responses] = s]
      BY <1>0, <1>5 DEF ToolCall, Response, number, thread
    <2>2. left.responses \in Calls /\ call[left.responses] = "none"
      BY <1>0, <2>1 DEF Belongs
    <2>3. CallForward /\ PlayersForward
      BY <1>0, <2>1, <2>2 DEF Belongs, CallForward, PlayersForward
    <2>4. ~ doubled => socket = s
      BY <2>1 DEF Belongs
    <2>5. Belongs'
      BY <1>0, <2>1, <2>2, <2>4 DEF Belongs
    <2> QED BY <2>3, <2>5
  <1>6. ASSUME NEW s \in Sessions, Plays(s) PROVE Belongs' /\ CallForward /\ PlayersForward
    <2>1. /\ UNCHANGED <<started, main, socket, doubled, call, asker, handler, left>>
          /\ \E p : /\ playing' = [playing EXCEPT ![s] = p]
                    /\ \/ running
                       \/ playing[s] = "write" /\ p = "loop"
                       \/ playing[s] = "loop" /\ p = "done"
      BY <1>6 DEF Plays, PlayerGet, PlayerWrote, PlayerQuits, thread, heard, tasks
    <2> QED BY <1>0, <2>1 DEF Belongs, CallForward, PlayersForward
  <1>7. ASSUME NEW i \in Calls, Tool(i)
        PROVE  Belongs' /\ CallForward /\ PlayersForward
    <2>1. /\ UNCHANGED <<started, main, socket, doubled, asker, handler, playing>>
          /\ left'.responses = left.responses
          /\ \/ call[i] = "asked" /\ call' = [call EXCEPT ![i] = "ran"]
             \/ call[i] = "ran" /\ socket = asker[i] /\ call' = [call EXCEPT ![i] = "answered"]
             \/ call[i] = "ran" /\ socket # asker[i] /\ call' = [call EXCEPT ![i] = "stray"]
             \/ call[i] = "ran" /\ call' = [call EXCEPT ![i] = "dropped"]
      BY <1>0, <1>7 DEF Tool, RunTool, Respond, SendFails, tooling, thread
    <2>2. ~ doubled /\ call[i] = "ran" => socket = asker[i]
      BY DEF Belongs
    <2>3. CallForward /\ PlayersForward
      BY <1>0, <2>1 DEF Belongs, CallForward, PlayersForward
    <2>4. \A j \in Calls \ {i} : call'[j] = call[j]
      BY <1>0, <2>1 DEF Belongs
    <2>5. /\ call' \in [Calls -> {"none", "asked", "ran", "answered", "stray", "dropped", "dead"}]
          /\ call[i] \in {"asked", "ran"} /\ call'[i] \in {"ran", "answered", "stray", "dropped"}
          /\ ~ doubled => call'[i] # "stray"
      BY <1>0, <2>1, <2>2 DEF Belongs
    <2>6. Belongs'
      BY <1>0, <2>1, <2>4, <2>5 DEF Belongs
    <2> QED BY <2>3, <2>6
  <1> QED
    BY <1>1, <1>2, <1>3, <1>4, <1>5, <1>6, <1>7 DEF LiveNext, Call, Receive

\* Whichever sessions fail or are closed and wherever a send fails: a call that waits for its
\* answer is handled by a loop that is up; as long as one session at a time was up, its answer
\* goes to the connection it came on; it only goes on, or dies with its loop; and with the flag
\* down no player takes up another piece.
THEOREM NoStrays == LiveSpec => []NoStrayCall /\ [][CallForward /\ PlayersForward]_liveVars
  <1>1. LiveInit => Belongs
    <2> SUFFICES ASSUME LiveInit PROVE Belongs
      OBVIOUS
    <2>1. /\ started = 0 /\ main = [s \in Sessions |-> "none"] /\ socket = 0 /\ doubled = FALSE
          /\ call = [i \in Calls |-> "none"] /\ asker = [i \in Calls |-> 0]
          /\ handler = [i \in Calls |-> 0]
      BY Zenon DEF LiveInit
    <2> QED BY <2>1 DEF Belongs
  <1>2. Belongs => NoStrayCall
    BY DEF Belongs, NoStrayCall
  <1>3. LiveInv /\ Belongs /\ [LiveNext]_liveVars
        => Belongs' /\ [CallForward /\ PlayersForward]_liveVars
    <2>1. Belongs /\ UNCHANGED liveVars => Belongs'
      BY DEF Belongs, liveVars, tasks
    <2> QED BY <2>1, CallStep
  <1> QED BY <1>1, <1>2, <1>3, LiveHolds, PTL DEF LiveSpec
=============================================================================
