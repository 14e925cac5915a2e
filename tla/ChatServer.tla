----------------------------- MODULE ChatServer -----------------------------
(***************************************************************************)
(* The request threads of src/arc/interface/server.py that use the model:  *)
(* /chat, /do, /chat/stream and /do/stream, with the lazily loaded model,  *)
(* the generation lock, the buffer of the voice session they all feed      *)
(* (src/arc/voice/session.py) and clients that go away.                    *)
(*                                                                         *)
(* Each request is one thread.  A step is one locked region, one event     *)
(* written to the client, or one token of the model.  The tool calls of an *)
(* agent run count as tokens: each is one event to the client.             *)
(***************************************************************************)
EXTENDS Naturals, Sequences, FiniteSets, SequencesExt

CONSTANTS
  Requests,   \* the requests, each handled by one thread
  Kinds,      \* which endpoints they may ask for
  MaxTokens,  \* bound: the length of a reply
  NoRequest,  \* a lock is free
  Faults      \* "gone": a client may disconnect; "model": the model may raise

AllKinds == {"chat", "do", "chatStream", "taskStream"}
Streams == {"chatStream", "taskStream"}

ASSUME ServerAssumption ==
  /\ NoRequest \notin Requests
  /\ Kinds \subseteq AllKinds
  /\ MaxTokens \in Nat \ {0}
  /\ Faults \subseteq {"gone", "model"}

VARIABLES
  pc,          \* pc[r]: the next step of its thread
  kind,        \* kind[r]: its endpoint
  gone,        \* gone[r]: its client has disconnected
  failed,      \* failed[r]: an exception is on its way through the finally
  count,       \* count[r]: tokens produced so far
  generation,  \* who holds Runtime.generation
  loading,     \* who holds Runtime._lock, to load the model
  warm,        \* the model is loaded
  loads,       \* how many times it was loaded (history)
  buffer,      \* VoiceSession._buffer: for each token, the request it is of
  said,        \* said[r]: tokens of r handed to the synthesiser (history)
  remembered   \* requests whose turn was written to memory

requestVars == <<kind, gone>>
modelVars == <<loading, warm, loads>>
voiceVars == <<buffer, said>>
vars == <<pc, requestVars, failed, count, generation, modelVars, voiceVars, remembered>>

Pcs == {"new", "open", "reset", "lock", "load", "loading", "stream", "generate", "flush",
        "unlock", "feed", "remember", "done", "over"}

TypeOK ==
  /\ pc \in [Requests -> Pcs]
  /\ kind \in [Requests -> AllKinds]
  /\ gone \in [Requests -> BOOLEAN]
  /\ failed \in [Requests -> BOOLEAN]
  /\ count \in [Requests -> 0 .. MaxTokens]
  /\ generation \in Requests \cup {NoRequest}
  /\ loading \in Requests \cup {NoRequest}
  /\ warm \in BOOLEAN
  /\ loads \in Nat
  /\ \A i \in DOMAIN buffer : buffer[i] \in Requests
  /\ said \in [Requests -> 0 .. MaxTokens]
  /\ remembered \subseteq Requests

\* The order of the steps of each handler.
After ==
  [chat |-> [new |-> "load", loading |-> "generate", generate |-> "remember",
             remember |-> "done"],
   do |-> [new |-> "load", loading |-> "generate", generate |-> "done"],
   chatStream |-> [new |-> "open", open |-> "reset", reset |-> "lock", lock |-> "load",
                   loading |-> "stream", stream |-> "flush", flush |-> "unlock",
                   unlock |-> "remember", remember |-> "done"],
   taskStream |-> [new |-> "lock", lock |-> "open", open |-> "load", loading |-> "stream",
                   stream |-> "unlock", unlock |-> "reset", reset |-> "feed",
                   feed |-> "flush", flush |-> "done"]]

Goto(r, step) == pc' = [pc EXCEPT ![r] = step]
Continue(r) == Goto(r, After[kind[r]][pc[r]])

Init ==
  /\ pc = [r \in Requests |-> "new"]
  /\ kind \in [Requests -> Kinds]
  /\ gone = [r \in Requests |-> FALSE]
  /\ failed = [r \in Requests |-> FALSE]
  /\ count = [r \in Requests |-> 0]
  /\ generation = NoRequest /\ loading = NoRequest
  /\ warm = FALSE /\ loads = 0
  /\ buffer = <<>> /\ said = [r \in Requests |-> 0]
  /\ remembered = {}

-----------------------------------------------------------------------------
(* A request arrives; its client may leave at any time.                    *)

Arrive(r) ==
  /\ pc[r] = "new"
  /\ Continue(r)
  /\ UNCHANGED <<requestVars, failed, count, generation, modelVars, voiceVars, remembered>>

Leave(r) ==
  /\ "gone" \in Faults /\ ~gone[r] /\ pc[r] \notin {"new", "over"}
  /\ gone' = [gone EXCEPT ![r] = TRUE]
  /\ UNCHANGED <<pc, kind, failed, count, generation, modelVars, voiceVars, remembered>>

\* _open_stream() and the first event; a client that has gone makes the write
\* raise, and nothing in the handler catches it.
Open(r) ==
  /\ pc[r] = "open"
  /\ IF gone[r] THEN Goto(r, "over") ELSE Continue(r)
  /\ UNCHANGED <<requestVars, failed, count, generation, modelVars, voiceVars, remembered>>

-----------------------------------------------------------------------------
(* The generation lock.                                                    *)

\* Mutant: the lock is taken whoever holds it.
LockAnyway(r) ==
  /\ pc[r] = "lock"
  /\ generation' = r /\ Continue(r)
  /\ UNCHANGED <<requestVars, failed, count, modelVars, voiceVars, remembered>>

\* acquire(blocking=False): a second turn is told that ARC is busy.
Lock(r) ==
  /\ pc[r] = "lock"
  /\ IF generation = NoRequest
     THEN generation' = r /\ Continue(r)
     ELSE Goto(r, "over") /\ UNCHANGED generation
  /\ UNCHANGED <<requestVars, failed, count, modelVars, voiceVars, remembered>>

\* The finally clause; then the handler goes on, or returns.
Unlock(r) ==
  /\ pc[r] = "unlock"
  /\ generation' = NoRequest
  /\ IF failed[r] THEN Goto(r, "over") ELSE Continue(r)
  /\ UNCHANGED <<requestVars, failed, count, modelVars, voiceVars, remembered>>

-----------------------------------------------------------------------------
(* Runtime.model, loaded on first use under Runtime._lock.                 *)

\* Mutant: the request that loads the model keeps the lock.
LoadHolding(r) ==
  /\ pc[r] = "loading"
  /\ warm' = TRUE /\ loads' = IF warm THEN loads ELSE loads + 1
  /\ loading' = (IF warm THEN NoRequest ELSE r) /\ Continue(r)
  /\ UNCHANGED <<requestVars, failed, count, generation, voiceVars, remembered>>

TakeModel(r) ==
  /\ pc[r] = "load" /\ loading = NoRequest
  /\ loading' = r /\ Goto(r, "loading")
  /\ UNCHANGED <<requestVars, failed, count, generation, warm, loads, voiceVars, remembered>>

Load(r) ==
  /\ pc[r] = "loading"
  /\ warm' = TRUE /\ loads' = IF warm THEN loads ELSE loads + 1
  /\ loading' = NoRequest /\ Continue(r)
  /\ UNCHANGED <<requestVars, failed, count, generation, voiceVars, remembered>>

\* router.load_model raises, and the next request tries again.
LoadFails(r) ==
  /\ pc[r] = "loading" /\ ~warm /\ "model" \in Faults
  /\ loading' = NoRequest
  /\ IF kind[r] \in Streams
     THEN failed' = [failed EXCEPT ![r] = TRUE] /\ Goto(r, "unlock")
     ELSE Goto(r, "over") /\ UNCHANGED failed
  /\ UNCHANGED <<requestVars, count, generation, warm, loads, voiceVars, remembered>>

-----------------------------------------------------------------------------
(* Using the model.                                                        *)

\* /chat and /do: generate() to the end, without the lock.
Generate(r) ==
  /\ pc[r] = "generate"
  /\ \/ /\ count' = [count EXCEPT ![r] = MaxTokens] /\ Continue(r)
     \/ /\ "model" \in Faults /\ Goto(r, "over") /\ UNCHANGED count
  /\ UNCHANGED <<requestVars, failed, generation, modelVars, voiceVars, remembered>>

\* How often r occurs in the buffer.
Held(lines, r) == Cardinality({i \in DOMAIN lines : lines[i] = r})

\* feed(): the text is buffered, and spoken if it completes a sentence.
Feed(tokens) ==
  \/ buffer' = buffer \o tokens /\ UNCHANGED said
  \/ /\ buffer' = <<>>
     /\ said' = [q \in Requests |-> said[q] + Held(buffer \o tokens, q)]

\* One token of a streaming turn: written to the client, then fed to the voice.
Token(r) ==
  /\ pc[r] = "stream" /\ ~gone[r] /\ count[r] < MaxTokens
  /\ count' = [count EXCEPT ![r] = @ + 1]
  /\ IF kind[r] = "chatStream" THEN Feed(<<r>>) ELSE UNCHANGED voiceVars
  /\ UNCHANGED <<pc, requestVars, failed, generation, modelVars, remembered>>

\* The reply is complete.
StreamEnds(r) ==
  /\ pc[r] = "stream" /\ count[r] = MaxTokens
  /\ Continue(r)
  /\ UNCHANGED <<requestVars, failed, count, generation, modelVars, voiceVars, remembered>>

\* Mutant: a client that goes away only ends the loop.
StreamBreaksOff(r) ==
  /\ pc[r] = "stream"
  /\ gone[r] \/ "model" \in Faults
  /\ Goto(r, "unlock")
  /\ UNCHANGED <<requestVars, failed, count, generation, modelVars, voiceVars, remembered>>

\* Mutant: the lock is not released in a finally clause.
StreamFailsHolding(r) ==
  /\ pc[r] = "stream"
  /\ (gone[r] /\ count[r] < MaxTokens) \/ "model" \in Faults
  /\ failed' = [failed EXCEPT ![r] = TRUE]
  /\ Goto(r, "over")
  /\ UNCHANGED <<requestVars, count, generation, modelVars, voiceVars, remembered>>

\* Writing a token raises because the client has gone, or the model raises.
StreamFails(r) ==
  /\ pc[r] = "stream"
  /\ (gone[r] /\ count[r] < MaxTokens) \/ "model" \in Faults
  /\ failed' = [failed EXCEPT ![r] = TRUE]
  /\ Goto(r, "unlock")
  /\ UNCHANGED <<requestVars, count, generation, modelVars, voiceVars, remembered>>

-----------------------------------------------------------------------------
(* The voice session and the end of a turn.                                *)

\* VoiceSession.reset()
Reset(r) ==
  /\ pc[r] = "reset"
  /\ buffer' = <<>> /\ Continue(r)
  /\ UNCHANGED <<requestVars, failed, count, generation, modelVars, said, remembered>>

\* session.feed(result.answer) of /do/stream.
FeedAnswer(r) ==
  /\ pc[r] = "feed"
  /\ Feed([i \in 1 .. MaxTokens |-> r]) /\ Continue(r)
  /\ UNCHANGED <<requestVars, failed, count, generation, modelVars, remembered>>

\* VoiceSession.flush()
Flush(r) ==
  /\ pc[r] = "flush"
  /\ buffer' = <<>>
  /\ said' = [q \in Requests |-> said[q] + Held(buffer, q)]
  /\ Continue(r)
  /\ UNCHANGED <<requestVars, failed, count, generation, modelVars, remembered>>

Remember(r) ==
  /\ pc[r] = "remember"
  /\ remembered' = remembered \cup {r} /\ Continue(r)
  /\ UNCHANGED <<requestVars, failed, count, generation, modelVars, voiceVars>>

\* The last event, or the reply: written or not, the handler ends.
Done(r) ==
  /\ pc[r] = "done"
  /\ Goto(r, "over")
  /\ UNCHANGED <<requestVars, failed, count, generation, modelVars, voiceVars, remembered>>

Handler(r) ==
  \/ Open(r) \/ Lock(r) \/ Unlock(r) \/ TakeModel(r) \/ Load(r) \/ LoadFails(r)
  \/ Generate(r) \/ Token(r) \/ StreamEnds(r) \/ StreamFails(r)
  \/ Reset(r) \/ FeedAnswer(r) \/ Flush(r) \/ Remember(r) \/ Done(r)

Next == \E r \in Requests : Arrive(r) \/ Leave(r) \/ Handler(r)

Spec == Init /\ [][Next]_vars

\* A thread whose step is possible takes it; nobody has to ask or to leave.
FairSpec == Spec /\ \A r \in Requests : WF_vars(Handler(r))

-----------------------------------------------------------------------------
(* Properties.                                                             *)

Streaming(r) == kind[r] \in Streams /\ pc[r] = "stream"
Working == {r \in Requests : Streaming(r)}

\* The streaming turns, seen as the abstract turns that work one at a time.
Turn == INSTANCE TurnMutex WITH Turns <- Requests, working <- Working

\* The streaming endpoints implement the mutual exclusion the lock is for.
StreamsTakeTurns == Turn!Spec

\* A stream that stops short is "deliberately not written to memory", whatever
\* else went wrong at the same time.
RememberedIsComplete == \A r \in remembered : count[r] = MaxTokens

\* "Two concurrent requests must not both spend two seconds loading the same
\* model": it is loaded once, under any interleaving of first requests.
LoadedOnce == loads <= 1

\* The model is not loaded twice, and no half reply is remembered.
OnceAndWhole == LoadedOnce /\ RememberedIsComplete

\* A turn that is refused, broken off or answered ends, and no thread waits for
\* a lock for good.
RequestEnds == \A r \in Requests : pc[r] # "new" ~> pc[r] = "over"

\* "Releasing anywhere else would leak the lock": on every path of /chat/stream,
\* with a client that leaves and a model that raises, the lock is given back.
ReleasedOnEveryPath ==
  \A r \in Requests :
    kind[r] = "chatStream" /\ generation = r => pc[r] \in {"load", "loading", "stream", "flush", "unlock"}

(* Claims of the documentation that the code does not keep.                *)

\* "One generation at a time. The MLX backend is not reentrant": no other
\* thread is in the model while one is.
OneGeneration ==
  \A q, r \in Requests :
    pc[q] \in {"stream", "generate"} /\ pc[r] \in {"stream", "generate"} => q = r

\* Releasing in the finally does not "leak the lock and wedge every later turn
\* behind a generation that already ended".
NoWedge == \A r \in Requests : generation = r => pc[r] # "over"

\* "A second turn arriving mid-generation is dropped": it leaves the first one
\* alone, so what a completed stream produced has been spoken.
DroppedIsHarmless ==
  \A r \in Requests :
    (kind[r] = "chatStream" /\ pc[r] = "done" /\ ~failed[r]) => said[r] = MaxTokens
=============================================================================
