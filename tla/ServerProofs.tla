---------------------------- MODULE ServerProofs ----------------------------
(***************************************************************************)
(* Theorems about interface/server.py: ChatServer, for every set of        *)
(* requests, every length of the replies and every choice of faults, and   *)
(* EventStreams, for every number of pages, connections and presses.       *)
(*                                                                         *)
(* ChatServer.  The streaming endpoints implement the mutual exclusion of  *)
(* TurnMutex, /chat/stream gives the lock back on every path, and model    *)
(* and memory stay whole.  That at most one request is streaming says      *)
(* nothing of the lock, and is not inductive.  LockInv says where a thread *)
(* must hold it.  Each step takes a request nearer to its end (Left).      *)
(*                                                                         *)
(* EventStreams.  Pages post the microphone only for a press, because what *)
(* a page shows is what it sent last (Marked); and while nothing fails     *)
(* pages that have nothing more to read agree, because an announcement is  *)
(* under way to every page that differs (InTurn).  Pages and microphone    *)
(* then implement SharedSwitch.                                            *)
(***************************************************************************)
EXTENDS ChatServer, EventStreams, TLAPS

-----------------------------------------------------------------------------
(* The lock of the chat endpoints. *)

\* Between acquire and release the thread holds the lock, whichever handler it
\* runs; /chat/stream holds it nowhere else.
ChatHolds == {"load", "loading", "stream", "flush", "unlock"}
TaskHolds == {"open", "load", "loading", "stream", "unlock"}

LockInv ==
  \A r \in Requests :
    /\ kind[r] = "chatStream" => (generation = r <=> pc[r] \in ChatHolds)
    /\ kind[r] = "taskStream" /\ pc[r] \in TaskHolds => generation = r

\* Each handler only takes its own steps.
StepsOf(k) ==
  CASE k = "chat" -> {"new", "load", "loading", "generate", "remember", "done", "over"}
    [] k = "do" -> {"new", "load", "loading", "generate", "done", "over"}
    [] k = "chatStream" -> Pcs \ {"generate", "feed"}
    [] OTHER -> Pcs \ {"generate", "remember"}

ThreadTypes ==
  /\ pc \in [Requests -> Pcs]
  /\ kind \in [Requests -> AllKinds]
  /\ \A r \in Requests : pc[r] \in StepsOf(kind[r])

IInv == ThreadTypes /\ LockInv

-----------------------------------------------------------------------------

\* The order of the steps, as far as the lock is concerned.
LEMMA Flow ==
  /\ After["chatStream"]["new"] = "open" /\ After["chatStream"]["open"] = "reset"
  /\ After["chatStream"]["reset"] = "lock" /\ After["chatStream"]["lock"] = "load"
  /\ After["chatStream"]["loading"] = "stream" /\ After["chatStream"]["stream"] = "flush"
  /\ After["chatStream"]["flush"] = "unlock" /\ After["chatStream"]["unlock"] = "remember"
  /\ After["chatStream"]["remember"] = "done"
  /\ After["taskStream"]["new"] = "lock" /\ After["taskStream"]["lock"] = "open"
  /\ After["taskStream"]["open"] = "load" /\ After["taskStream"]["loading"] = "stream"
  /\ After["taskStream"]["stream"] = "unlock" /\ After["taskStream"]["unlock"] = "reset"
  /\ After["taskStream"]["reset"] = "feed" /\ After["taskStream"]["feed"] = "flush"
  /\ After["taskStream"]["flush"] = "done"
  /\ After["chat"]["new"] = "load" /\ After["chat"]["loading"] = "generate"
  /\ After["chat"]["generate"] = "remember" /\ After["chat"]["remember"] = "done"
  /\ After["do"]["new"] = "load" /\ After["do"]["loading"] = "generate"
  /\ After["do"]["generate"] = "done"
  BY DEF After

\* Before the first request no lock is held.
THEOREM InitInv == Init => IInv
  <1> SUFFICES ASSUME Init PROVE IInv
    OBVIOUS
  <1>1. ThreadTypes
    BY ServerAssumption
    DEF ServerAssumption, Init, ThreadTypes, StepsOf, AllKinds, Pcs
  <1>2. LockInv
    BY ServerAssumption
    DEF ServerAssumption, Init, LockInv, ChatHolds, TaskHolds
  <1> QED BY <1>1, <1>2 DEF IInv

\* A thread that goes on takes the next step of its own handler.
LEMMA Onward ==
  ASSUME ThreadTypes, NEW r \in Requests, pc[r] \notin {"load", "done", "over"}
  PROVE  After[kind[r]][pc[r]] \in StepsOf(kind[r])
  BY Flow DEF ThreadTypes, StepsOf, AllKinds, Pcs

\* What a step of thread r may do to the others: nothing, but for the lock.
LEMMA OneMoves ==
  ASSUME IInv, NEW r \in Requests, NEW p,
         pc' = [pc EXCEPT ![r] = p], UNCHANGED kind, p \in StepsOf(kind[r]),
         \/ generation' = generation
         \/ generation = NoRequest /\ generation' = r
         \/ generation = r /\ generation' = NoRequest,
         kind[r] = "chatStream" => (generation' = r <=> p \in ChatHolds),
         kind[r] = "taskStream" /\ p \in TaskHolds => generation' = r
  PROVE  IInv'
  <1>1. \A q \in Requests : StepsOf(kind[q]) \subseteq Pcs
    BY DEF StepsOf, Pcs
  <1>2. ThreadTypes'
    BY <1>1 DEF IInv, ThreadTypes
  <1>3. LockInv'
    <2> SUFFICES ASSUME NEW q \in Requests
                 PROVE  /\ kind[q] = "chatStream" => (generation' = q <=> pc'[q] \in ChatHolds)
                        /\ kind[q] = "taskStream" /\ pc'[q] \in TaskHolds => generation' = q
      BY DEF LockInv
    <2>1. CASE q = r
      BY <2>1 DEF IInv, ThreadTypes
    <2>2. CASE q # r
      BY <2>2, ServerAssumption DEF IInv, LockInv, ThreadTypes, ServerAssumption
    <2> QED BY <2>1, <2>2
  <1> QED BY <1>2, <1>3 DEF IInv

\* Every step keeps the invariant.
LEMMA StepInv == IInv /\ [Next]_vars => IInv'
  <1> SUFFICES ASSUME IInv, [Next]_vars PROVE IInv'
    OBVIOUS
  <1> USE ServerAssumption DEF ServerAssumption
  <1>0. /\ pc \in [Requests -> Pcs] /\ kind \in [Requests -> AllKinds]
        /\ LockInv /\ ThreadTypes
        /\ \A r \in Requests : pc[r] \in StepsOf(kind[r])
    BY DEF IInv, ThreadTypes
  <1>1. ASSUME NEW r \in Requests, Arrive(r) PROVE IInv'
    <2> DEFINE p == After[kind[r]][pc[r]]
    <2>1. pc' = [pc EXCEPT ![r] = p] /\ UNCHANGED kind
      BY <1>1 DEF Arrive, Goto, Continue, requestVars
    <2>2. p \in StepsOf(kind[r])
      BY <1>1, <1>0, <2>1, Onward DEF Arrive, StepsOf, AllKinds, Pcs
    <2>3. \/ generation' = generation
          \/ generation = NoRequest /\ generation' = r
          \/ generation = r /\ generation' = NoRequest
      BY <1>1, <1>0 DEF Arrive, LockInv, ChatHolds, TaskHolds, StepsOf, AllKinds
    <2>4. kind[r] = "chatStream" => (generation' = r <=> p \in ChatHolds)
      BY <1>1, <1>0, <2>1, Flow
      DEF Arrive, Goto, Continue, LockInv, ChatHolds, StepsOf, AllKinds, Pcs
    <2>5. kind[r] = "taskStream" /\ p \in TaskHolds => generation' = r
      BY <1>1, <1>0, <2>1, Flow
      DEF Arrive, Goto, Continue, LockInv, TaskHolds, StepsOf, AllKinds, Pcs
    <2> QED BY <2>1, <2>2, <2>3, <2>4, <2>5, OneMoves
  <1>2. ASSUME NEW r \in Requests, Open(r) PROVE IInv'
    <2>1. PICK p \in {"over", After[kind[r]][pc[r]]} :
            pc' = [pc EXCEPT ![r] = p] /\ UNCHANGED kind
      BY <1>2 DEF Open, Goto, Continue, requestVars
    <2>2. p \in StepsOf(kind[r])
      BY <1>2, <1>0, <2>1, Onward DEF Open, StepsOf, AllKinds, Pcs
    <2>3. \/ generation' = generation
          \/ generation = NoRequest /\ generation' = r
          \/ generation = r /\ generation' = NoRequest
      BY <1>2, <1>0 DEF Open, LockInv, ChatHolds, TaskHolds, StepsOf, AllKinds
    <2>4. kind[r] = "chatStream" => (generation' = r <=> p \in ChatHolds)
      BY <1>2, <1>0, <2>1, Flow
      DEF Open, Goto, Continue, LockInv, ChatHolds, StepsOf, AllKinds, Pcs
    <2>5. kind[r] = "taskStream" /\ p \in TaskHolds => generation' = r
      BY <1>2, <1>0, <2>1, Flow
      DEF Open, Goto, Continue, LockInv, TaskHolds, StepsOf, AllKinds, Pcs
    <2> QED BY <2>1, <2>2, <2>3, <2>4, <2>5, OneMoves
  <1>3. ASSUME NEW r \in Requests, Lock(r) PROVE IInv'
    <2>1. PICK p \in {"over", After[kind[r]][pc[r]]} :
            pc' = [pc EXCEPT ![r] = p] /\ UNCHANGED kind
      BY <1>3 DEF Lock, Goto, Continue, requestVars
    <2>2. p \in StepsOf(kind[r])
      BY <1>3, <1>0, <2>1, Onward DEF Lock, StepsOf, AllKinds, Pcs
    <2>3. \/ generation' = generation
          \/ generation = NoRequest /\ generation' = r
          \/ generation = r /\ generation' = NoRequest
      BY <1>3, <1>0 DEF Lock, LockInv, ChatHolds, TaskHolds, StepsOf, AllKinds
    <2>4. kind[r] = "chatStream" => (generation' = r <=> p \in ChatHolds)
      BY <1>3, <1>0, <2>1, Flow
      DEF Lock, Goto, Continue, LockInv, ChatHolds, StepsOf, AllKinds, Pcs
    <2>5. kind[r] = "taskStream" /\ p \in TaskHolds => generation' = r
      BY <1>3, <1>0, <2>1, Flow
      DEF Lock, Goto, Continue, LockInv, TaskHolds, StepsOf, AllKinds, Pcs
    <2> QED BY <2>1, <2>2, <2>3, <2>4, <2>5, OneMoves
  <1>4. ASSUME NEW r \in Requests, Unlock(r) PROVE IInv'
    <2>1. PICK p \in {"over", After[kind[r]][pc[r]]} :
            pc' = [pc EXCEPT ![r] = p] /\ UNCHANGED kind
      BY <1>4 DEF Unlock, Goto, Continue, requestVars
    <2>2. p \in StepsOf(kind[r])
      BY <1>4, <1>0, <2>1, Onward DEF Unlock, StepsOf, AllKinds, Pcs
    <2>3. \/ generation' = generation
          \/ generation = NoRequest /\ generation' = r
          \/ generation = r /\ generation' = NoRequest
      BY <1>4, <1>0 DEF Unlock, LockInv, ChatHolds, TaskHolds, StepsOf, AllKinds
    <2>4. kind[r] = "chatStream" => (generation' = r <=> p \in ChatHolds)
      BY <1>4, <1>0, <2>1, Flow
      DEF Unlock, Goto, Continue, LockInv, ChatHolds, StepsOf, AllKinds, Pcs
    <2>5. kind[r] = "taskStream" /\ p \in TaskHolds => generation' = r
      BY <1>4, <1>0, <2>1, Flow
      DEF Unlock, Goto, Continue, LockInv, TaskHolds, StepsOf, AllKinds, Pcs
    <2> QED BY <2>1, <2>2, <2>3, <2>4, <2>5, OneMoves
  <1>5. ASSUME NEW r \in Requests, TakeModel(r) PROVE IInv'
    <2> DEFINE p == "loading"
    <2>1. pc' = [pc EXCEPT ![r] = p] /\ UNCHANGED kind
      BY <1>5 DEF TakeModel, Goto, Continue, requestVars
    <2>2. p \in StepsOf(kind[r])
      BY <1>5, <1>0, <2>1, Onward DEF TakeModel, StepsOf, AllKinds, Pcs
    <2>3. \/ generation' = generation
          \/ generation = NoRequest /\ generation' = r
          \/ generation = r /\ generation' = NoRequest
      BY <1>5, <1>0 DEF TakeModel, LockInv, ChatHolds, TaskHolds, StepsOf, AllKinds
    <2>4. kind[r] = "chatStream" => (generation' = r <=> p \in ChatHolds)
      BY <1>5, <1>0, <2>1, Flow
      DEF TakeModel, Goto, Continue, LockInv, ChatHolds, StepsOf, AllKinds, Pcs
    <2>5. kind[r] = "taskStream" /\ p \in TaskHolds => generation' = r
      BY <1>5, <1>0, <2>1, Flow
      DEF TakeModel, Goto, Continue, LockInv, TaskHolds, StepsOf, AllKinds, Pcs
    <2> QED BY <2>1, <2>2, <2>3, <2>4, <2>5, OneMoves
  <1>6. ASSUME NEW r \in Requests, Load(r) PROVE IInv'
    <2> DEFINE p == After[kind[r]][pc[r]]
    <2>1. pc' = [pc EXCEPT ![r] = p] /\ UNCHANGED kind
      BY <1>6 DEF Load, Goto, Continue, requestVars
    <2>2. p \in StepsOf(kind[r])
      BY <1>6, <1>0, <2>1, Onward DEF Load, StepsOf, AllKinds, Pcs
    <2>3. \/ generation' = generation
          \/ generation = NoRequest /\ generation' = r
          \/ generation = r /\ generation' = NoRequest
      BY <1>6, <1>0 DEF Load, LockInv, ChatHolds, TaskHolds, StepsOf, AllKinds
    <2>4. kind[r] = "chatStream" => (generation' = r <=> p \in ChatHolds)
      BY <1>6, <1>0, <2>1, Flow
      DEF Load, Goto, Continue, LockInv, ChatHolds, StepsOf, AllKinds, Pcs
    <2>5. kind[r] = "taskStream" /\ p \in TaskHolds => generation' = r
      BY <1>6, <1>0, <2>1, Flow
      DEF Load, Goto, Continue, LockInv, TaskHolds, StepsOf, AllKinds, Pcs
    <2> QED BY <2>1, <2>2, <2>3, <2>4, <2>5, OneMoves
  <1>7. ASSUME NEW r \in Requests, Generate(r) PROVE IInv'
    <2>1. PICK p \in {"over", After[kind[r]][pc[r]]} :
            pc' = [pc EXCEPT ![r] = p] /\ UNCHANGED kind
      BY <1>7 DEF Generate, Goto, Continue, requestVars
    <2>2. p \in StepsOf(kind[r])
      BY <1>7, <1>0, <2>1, Onward DEF Generate, StepsOf, AllKinds, Pcs
    <2>3. \/ generation' = generation
          \/ generation = NoRequest /\ generation' = r
          \/ generation = r /\ generation' = NoRequest
      BY <1>7, <1>0 DEF Generate, LockInv, ChatHolds, TaskHolds, StepsOf, AllKinds
    <2>4. kind[r] = "chatStream" => (generation' = r <=> p \in ChatHolds)
      BY <1>7, <1>0, <2>1, Flow
      DEF Generate, Goto, Continue, LockInv, ChatHolds, StepsOf, AllKinds, Pcs
    <2>5. kind[r] = "taskStream" /\ p \in TaskHolds => generation' = r
      BY <1>7, <1>0, <2>1, Flow
      DEF Generate, Goto, Continue, LockInv, TaskHolds, StepsOf, AllKinds, Pcs
    <2> QED BY <2>1, <2>2, <2>3, <2>4, <2>5, OneMoves
  <1>8. ASSUME NEW r \in Requests, StreamEnds(r) PROVE IInv'
    <2> DEFINE p == After[kind[r]][pc[r]]
    <2>1. pc' = [pc EXCEPT ![r] = p] /\ UNCHANGED kind
      BY <1>8 DEF StreamEnds, Goto, Continue, requestVars
    <2>2. p \in StepsOf(kind[r])
      BY <1>8, <1>0, <2>1, Onward DEF StreamEnds, StepsOf, AllKinds, Pcs
    <2>3. \/ generation' = generation
          \/ generation = NoRequest /\ generation' = r
          \/ generation = r /\ generation' = NoRequest
      BY <1>8, <1>0 DEF StreamEnds, LockInv, ChatHolds, TaskHolds, StepsOf, AllKinds
    <2>4. kind[r] = "chatStream" => (generation' = r <=> p \in ChatHolds)
      BY <1>8, <1>0, <2>1, Flow
      DEF StreamEnds, Goto, Continue, LockInv, ChatHolds, StepsOf, AllKinds, Pcs
    <2>5. kind[r] = "taskStream" /\ p \in TaskHolds => generation' = r
      BY <1>8, <1>0, <2>1, Flow
      DEF StreamEnds, Goto, Continue, LockInv, TaskHolds, StepsOf, AllKinds, Pcs
    <2> QED BY <2>1, <2>2, <2>3, <2>4, <2>5, OneMoves
  <1>9. ASSUME NEW r \in Requests, StreamFails(r) PROVE IInv'
    <2> DEFINE p == "unlock"
    <2>1. pc' = [pc EXCEPT ![r] = p] /\ UNCHANGED kind
      BY <1>9 DEF StreamFails, Goto, Continue, requestVars
    <2>2. p \in StepsOf(kind[r])
      BY <1>9, <1>0, <2>1, Onward DEF StreamFails, StepsOf, AllKinds, Pcs
    <2>3. \/ generation' = generation
          \/ generation = NoRequest /\ generation' = r
          \/ generation = r /\ generation' = NoRequest
      BY <1>9, <1>0 DEF StreamFails, LockInv, ChatHolds, TaskHolds, StepsOf, AllKinds
    <2>4. kind[r] = "chatStream" => (generation' = r <=> p \in ChatHolds)
      BY <1>9, <1>0, <2>1, Flow
      DEF StreamFails, Goto, Continue, LockInv, ChatHolds, StepsOf, AllKinds, Pcs
    <2>5. kind[r] = "taskStream" /\ p \in TaskHolds => generation' = r
      BY <1>9, <1>0, <2>1, Flow
      DEF StreamFails, Goto, Continue, LockInv, TaskHolds, StepsOf, AllKinds, Pcs
    <2> QED BY <2>1, <2>2, <2>3, <2>4, <2>5, OneMoves
  <1>10. ASSUME NEW r \in Requests, Reset(r) PROVE IInv'
    <2> DEFINE p == After[kind[r]][pc[r]]
    <2>1. pc' = [pc EXCEPT ![r] = p] /\ UNCHANGED kind
      BY <1>10 DEF Reset, Goto, Continue, requestVars
    <2>2. p \in StepsOf(kind[r])
      BY <1>10, <1>0, <2>1, Onward DEF Reset, StepsOf, AllKinds, Pcs
    <2>3. \/ generation' = generation
          \/ generation = NoRequest /\ generation' = r
          \/ generation = r /\ generation' = NoRequest
      BY <1>10, <1>0 DEF Reset, LockInv, ChatHolds, TaskHolds, StepsOf, AllKinds
    <2>4. kind[r] = "chatStream" => (generation' = r <=> p \in ChatHolds)
      BY <1>10, <1>0, <2>1, Flow
      DEF Reset, Goto, Continue, LockInv, ChatHolds, StepsOf, AllKinds, Pcs
    <2>5. kind[r] = "taskStream" /\ p \in TaskHolds => generation' = r
      BY <1>10, <1>0, <2>1, Flow
      DEF Reset, Goto, Continue, LockInv, TaskHolds, StepsOf, AllKinds, Pcs
    <2> QED BY <2>1, <2>2, <2>3, <2>4, <2>5, OneMoves
  <1>11. ASSUME NEW r \in Requests, FeedAnswer(r) PROVE IInv'
    <2> DEFINE p == After[kind[r]][pc[r]]
    <2>1. pc' = [pc EXCEPT ![r] = p] /\ UNCHANGED kind
      BY <1>11 DEF FeedAnswer, Goto, Continue, requestVars
    <2>2. p \in StepsOf(kind[r])
      BY <1>11, <1>0, <2>1, Onward DEF FeedAnswer, StepsOf, AllKinds, Pcs
    <2>3. \/ generation' = generation
          \/ generation = NoRequest /\ generation' = r
          \/ generation = r /\ generation' = NoRequest
      BY <1>11, <1>0 DEF FeedAnswer, LockInv, ChatHolds, TaskHolds, StepsOf, AllKinds
    <2>4. kind[r] = "chatStream" => (generation' = r <=> p \in ChatHolds)
      BY <1>11, <1>0, <2>1, Flow
      DEF FeedAnswer, Goto, Continue, LockInv, ChatHolds, StepsOf, AllKinds, Pcs
    <2>5. kind[r] = "taskStream" /\ p \in TaskHolds => generation' = r
      BY <1>11, <1>0, <2>1, Flow
      DEF FeedAnswer, Goto, Continue, LockInv, TaskHolds, StepsOf, AllKinds, Pcs
    <2> QED BY <2>1, <2>2, <2>3, <2>4, <2>5, OneMoves
  <1>12. ASSUME NEW r \in Requests, Flush(r) PROVE IInv'
    <2> DEFINE p == After[kind[r]][pc[r]]
    <2>1. pc' = [pc EXCEPT ![r] = p] /\ UNCHANGED kind
      BY <1>12 DEF Flush, Goto, Continue, requestVars
    <2>2. p \in StepsOf(kind[r])
      BY <1>12, <1>0, <2>1, Onward DEF Flush, StepsOf, AllKinds, Pcs
    <2>3. \/ generation' = generation
          \/ generation = NoRequest /\ generation' = r
          \/ generation = r /\ generation' = NoRequest
      BY <1>12, <1>0 DEF Flush, LockInv, ChatHolds, TaskHolds, StepsOf, AllKinds
    <2>4. kind[r] = "chatStream" => (generation' = r <=> p \in ChatHolds)
      BY <1>12, <1>0, <2>1, Flow
      DEF Flush, Goto, Continue, LockInv, ChatHolds, StepsOf, AllKinds, Pcs
    <2>5. kind[r] = "taskStream" /\ p \in TaskHolds => generation' = r
      BY <1>12, <1>0, <2>1, Flow
      DEF Flush, Goto, Continue, LockInv, TaskHolds, StepsOf, AllKinds, Pcs
    <2> QED BY <2>1, <2>2, <2>3, <2>4, <2>5, OneMoves
  <1>13. ASSUME NEW r \in Requests, Remember(r) PROVE IInv'
    <2> DEFINE p == After[kind[r]][pc[r]]
    <2>1. pc' = [pc EXCEPT ![r] = p] /\ UNCHANGED kind
      BY <1>13 DEF Remember, Goto, Continue, requestVars
    <2>2. p \in StepsOf(kind[r])
      BY <1>13, <1>0, <2>1, Onward DEF Remember, StepsOf, AllKinds, Pcs
    <2>3. \/ generation' = generation
          \/ generation = NoRequest /\ generation' = r
          \/ generation = r /\ generation' = NoRequest
      BY <1>13, <1>0 DEF Remember, LockInv, ChatHolds, TaskHolds, StepsOf, AllKinds
    <2>4. kind[r] = "chatStream" => (generation' = r <=> p \in ChatHolds)
      BY <1>13, <1>0, <2>1, Flow
      DEF Remember, Goto, Continue, LockInv, ChatHolds, StepsOf, AllKinds, Pcs
    <2>5. kind[r] = "taskStream" /\ p \in TaskHolds => generation' = r
      BY <1>13, <1>0, <2>1, Flow
      DEF Remember, Goto, Continue, LockInv, TaskHolds, StepsOf, AllKinds, Pcs
    <2> QED BY <2>1, <2>2, <2>3, <2>4, <2>5, OneMoves
  <1>14. ASSUME NEW r \in Requests, Done(r) PROVE IInv'
    <2> DEFINE p == "over"
    <2>1. pc' = [pc EXCEPT ![r] = p] /\ UNCHANGED kind
      BY <1>14 DEF Done, Goto, Continue, requestVars
    <2>2. p \in StepsOf(kind[r])
      BY <1>14, <1>0, <2>1, Onward DEF Done, StepsOf, AllKinds, Pcs
    <2>3. \/ generation' = generation
          \/ generation = NoRequest /\ generation' = r
          \/ generation = r /\ generation' = NoRequest
      BY <1>14, <1>0 DEF Done, LockInv, ChatHolds, TaskHolds, StepsOf, AllKinds
    <2>4. kind[r] = "chatStream" => (generation' = r <=> p \in ChatHolds)
      BY <1>14, <1>0, <2>1, Flow
      DEF Done, Goto, Continue, LockInv, ChatHolds, StepsOf, AllKinds, Pcs
    <2>5. kind[r] = "taskStream" /\ p \in TaskHolds => generation' = r
      BY <1>14, <1>0, <2>1, Flow
      DEF Done, Goto, Continue, LockInv, TaskHolds, StepsOf, AllKinds, Pcs
    <2> QED BY <2>1, <2>2, <2>3, <2>4, <2>5, OneMoves
  <1>15. ASSUME NEW r \in Requests, Leave(r) PROVE IInv'
    BY <1>15, <1>0 DEF Leave, IInv, ThreadTypes, LockInv, requestVars
  <1>16. ASSUME NEW r \in Requests, Token(r) PROVE IInv'
    BY <1>16, <1>0 DEF Token, IInv, ThreadTypes, LockInv, requestVars
  <1>17. ASSUME NEW r \in Requests, LoadFails(r) PROVE IInv'
    <2> DEFINE p == IF kind[r] \in Streams THEN "unlock" ELSE "over"
    <2>1. pc' = [pc EXCEPT ![r] = p] /\ UNCHANGED <<kind, generation>> /\ pc[r] = "loading"
      BY <1>17 DEF LoadFails, Goto, requestVars
    <2>2. p \in StepsOf(kind[r])
      BY <1>0 DEF StepsOf, AllKinds, Streams, Pcs
    <2>3. kind[r] = "chatStream" => (generation' = r <=> p \in ChatHolds)
      BY <1>0, <2>1 DEF LockInv, ChatHolds, Streams
    <2>4. kind[r] = "taskStream" /\ p \in TaskHolds => generation' = r
      BY <1>0, <2>1 DEF LockInv, TaskHolds
    <2> QED BY <2>1, <2>2, <2>3, <2>4, OneMoves
  <1>18. CASE UNCHANGED vars
    BY <1>18, <1>0 DEF vars, requestVars, IInv, ThreadTypes, LockInv
  <1> QED
    BY <1>1, <1>2, <1>3, <1>4, <1>5, <1>6, <1>7, <1>8, <1>9, <1>10, <1>11, <1>12, <1>13, <1>14,
       <1>15, <1>16, <1>17, <1>18
    DEF Next, Handler

-----------------------------------------------------------------------------

\* The invariant holds in every reachable state.
THEOREM Invariance == Spec => []IInv
  BY InitInv, StepInv, PTL DEF Spec

\* /chat/stream gives the generation lock back on every path out of it: a client
\* that leaves, a model that raises, and the normal end.
THEOREM LockReturned == Spec => []ReleasedOnEveryPath
  <1>1. IInv => ReleasedOnEveryPath
    BY DEF IInv, LockInv, ReleasedOnEveryPath, ChatHolds
  <1> QED BY Invariance, <1>1, PTL

\* The lock passes from one thread to another only by being free in between.
LEMMA LockPasses ==
  ASSUME IInv, [Next]_vars
  PROVE  generation' = generation \/ generation = NoRequest \/ generation' = NoRequest
  BY DEF Next, vars, Handler, Arrive, Leave, Open, Lock, Unlock, TakeModel, Load, LoadFails,
         Generate, Token, StreamEnds, StreamFails, Reset, FeedAnswer, Flush, Remember, Done

\* A streaming turn holds the lock.
LEMMA WorkingHolds == IInv => Working \subseteq Requests \cap {generation}
  BY DEF IInv, LockInv, Working, Streaming, Streams, ChatHolds, TaskHolds

\* The streaming endpoints implement TurnMutex: streaming turns take the model
\* one at a time, for any number of concurrent requests to any endpoint.
THEOREM Refinement == Spec => StreamsTakeTurns
  <1>1. Init => Turn!Init
    BY DEF Init, Turn!Init, Working, Streaming
  <1>2. ASSUME IInv, IInv', [Next]_vars PROVE [Turn!Next]_Working
    <2>1. Working \subseteq Requests \cap {generation}
      BY <1>2, WorkingHolds
    <2>2. Working' \subseteq Requests \cap {generation'}
      BY <1>2 DEF IInv, LockInv, Working, Streaming, Streams, ChatHolds, TaskHolds
    <2>3. NoRequest \notin Requests
      BY ServerAssumption DEF ServerAssumption
    <2>4. \/ Working' = Working
          \/ \E r \in Requests : Working = {} /\ Working' = {r}
          \/ \E r \in Requests : Working = {r} /\ Working' = {}
      BY <1>2, <2>1, <2>2, <2>3, LockPasses
    <2> QED BY <2>4 DEF Turn!Next, Turn!Begin, Turn!End
  <1>3. IInv /\ IInv' /\ [Next]_vars => [Turn!Next]_Working
    BY <1>2
  <1> QED BY <1>1, <1>3, Invariance, PTL DEF Spec, StreamsTakeTurns, Turn!Spec
-----------------------------------------------------------------------------

\* What the threads have still to do tells whether their reply is complete: a
\* thread that is to remember its turn, or that unlocks with no exception on its
\* way, has all of it; and the model has been loaded only if it is there.
Whole ==
  /\ count \in [Requests -> 0 .. MaxTokens]
  /\ failed \in [Requests -> BOOLEAN]
  /\ remembered \subseteq Requests
  /\ \A r \in Requests :
       \/ r \in remembered
       \/ pc[r] = "remember"
       \/ kind[r] = "chatStream" /\ pc[r] = "flush"
       \/ kind[r] = "chatStream" /\ pc[r] = "unlock" /\ ~failed[r]
       => count[r] = MaxTokens

OneLoad == loads \in {0, 1} /\ (~warm => loads = 0)

\* A step of thread r that moves it from a step before its reply to another, or
\* along its handler, keeps Whole.
LEMMA WholeMoves ==
  ASSUME IInv, Whole, NEW r \in Requests, NEW p,
         pc' = [pc EXCEPT ![r] = p], UNCHANGED kind, UNCHANGED count,
         UNCHANGED remembered, UNCHANGED failed,
         \/ p = "remember"
         \/ kind[r] = "chatStream" /\ p = "flush"
         \/ kind[r] = "chatStream" /\ p = "unlock" /\ ~failed[r]
         => count[r] = MaxTokens
  PROVE  Whole'
  BY DEF IInv, ThreadTypes, Whole

\* Every step keeps Whole.
LEMMA WholeStep == IInv /\ Whole /\ [Next]_vars => Whole'
  <1> SUFFICES ASSUME IInv, Whole, [Next]_vars PROVE Whole'
    OBVIOUS
  <1> USE ServerAssumption DEF ServerAssumption
  <1>0. /\ pc \in [Requests -> Pcs] /\ kind \in [Requests -> AllKinds]
        /\ \A r \in Requests : pc[r] \in StepsOf(kind[r])
    BY DEF IInv, ThreadTypes
  <1>1. ASSUME NEW r \in Requests,
               Arrive(r) \/ Open(r) \/ Lock(r) \/ Load(r) \/ Reset(r) \/ FeedAnswer(r)
        PROVE  Whole'
    <2>1. /\ UNCHANGED <<kind, failed, count, remembered>>
          /\ pc[r] \in {"new", "open", "lock", "loading", "reset", "feed"}
          /\ pc' = [pc EXCEPT ![r] = "over"] \/ pc' = [pc EXCEPT ![r] = After[kind[r]][pc[r]]]
      BY <1>1 DEF Arrive, Open, Lock, Load, Reset, FeedAnswer, Goto, Continue, requestVars
    <2>2. kind[r] = "chatStream" => After[kind[r]][pc[r]] \notin {"remember", "flush", "unlock"}
      BY <2>1, <1>0, Flow DEF StepsOf, Pcs
    <2>3. After[kind[r]][pc[r]] # "remember"
      BY <2>1, <1>0, Flow DEF StepsOf, Pcs, AllKinds
    <2> QED BY <2>1, <2>2, <2>3, WholeMoves
  <1>2. ASSUME NEW r \in Requests, TakeModel(r) \/ Done(r) PROVE Whole'
    <2>1. /\ UNCHANGED <<kind, failed, count, remembered>>
          /\ pc' = [pc EXCEPT ![r] = "loading"] \/ pc' = [pc EXCEPT ![r] = "over"]
      BY <1>2 DEF TakeModel, Done, Goto, Continue, requestVars
    <2> QED BY <2>1, WholeMoves
  <1>3. ASSUME NEW r \in Requests, Unlock(r) PROVE Whole'
    <2>1. /\ UNCHANGED <<kind, failed, count, remembered>> /\ pc[r] = "unlock"
          /\ \/ pc' = [pc EXCEPT ![r] = "over"]
             \/ ~failed[r] /\ pc' = [pc EXCEPT ![r] = After[kind[r]]["unlock"]]
      BY <1>3 DEF Unlock, Goto, Continue, requestVars
    <2>2. kind[r] \in Streams
      BY <2>1, <1>0 DEF StepsOf, AllKinds, Streams
    <2>3. CASE kind[r] = "chatStream"
      <3>1. ~failed[r] => count[r] = MaxTokens
        BY <2>1, <2>3 DEF Whole
      <3> QED BY <2>1, <2>3, <3>1, Flow, WholeMoves
    <2>4. CASE kind[r] = "taskStream"
      BY <2>1, <2>4, Flow, WholeMoves
    <2> QED BY <2>2, <2>3, <2>4 DEF Streams
  <1>4. ASSUME NEW r \in Requests, Generate(r) PROVE Whole'
    <2>1. /\ UNCHANGED <<kind, failed, remembered>>
          /\ kind[r] \in {"chat", "do"}
      BY <1>4, <1>0 DEF Generate, requestVars, StepsOf, AllKinds
    <2>2. CASE count' = [count EXCEPT ![r] = MaxTokens] /\ Continue(r)
      BY <2>1, <2>2, <1>0 DEF Whole, Continue, Goto
    <2>3. CASE UNCHANGED count /\ Goto(r, "over")
      BY <2>1, <2>3, WholeMoves DEF Goto
    <2> QED BY <1>4, <2>2, <2>3 DEF Generate
  <1>5. ASSUME NEW r \in Requests, Token(r) PROVE Whole'
    <2>1. /\ UNCHANGED <<pc, kind, failed, remembered>>
          /\ pc[r] = "stream" /\ count[r] < MaxTokens
          /\ count' = [count EXCEPT ![r] = count[r] + 1]
      BY <1>5 DEF Token, requestVars
    <2>2. count[r] + 1 \in 0 .. MaxTokens
      BY <2>1 DEF Whole
    <2>3. count' \in [Requests -> 0 .. MaxTokens]
      BY <2>1, <2>2 DEF Whole
    <2>4. r \notin remembered
      BY <2>1 DEF Whole
    <2>5. \A q \in Requests : q # r => count'[q] = count[q]
      BY <2>1 DEF Whole
    <2> QED BY <2>1, <2>3, <2>4, <2>5 DEF Whole
  <1>6. ASSUME NEW r \in Requests, StreamEnds(r) PROVE Whole'
    <2>1. /\ UNCHANGED <<kind, failed, count, remembered>> /\ count[r] = MaxTokens
          /\ pc' = [pc EXCEPT ![r] = After[kind[r]][pc[r]]]
      BY <1>6 DEF StreamEnds, Goto, Continue, requestVars
    <2> QED BY <2>1, WholeMoves
  <1>7. ASSUME NEW r \in Requests, StreamFails(r) PROVE Whole'
    <2>1. /\ UNCHANGED <<kind, count, remembered>>
          /\ failed' = [failed EXCEPT ![r] = TRUE]
          /\ pc' = [pc EXCEPT ![r] = "unlock"]
      BY <1>7 DEF StreamFails, Goto, requestVars
    <2>2. failed' \in [Requests -> BOOLEAN]
      BY <2>1 DEF Whole
    <2>3. failed'[r] = TRUE /\ (\A q \in Requests : q # r => failed'[q] = failed[q])
      BY <2>1 DEF Whole
    <2>4. pc'[r] = "unlock" /\ (\A q \in Requests : q # r => pc'[q] = pc[q])
      BY <2>1, <1>0
    <2> QED BY <2>1, <2>2, <2>3, <2>4 DEF Whole
  <1>8. ASSUME NEW r \in Requests, Flush(r) PROVE Whole'
    <2>1. /\ UNCHANGED <<kind, failed, count, remembered>> /\ pc[r] = "flush"
          /\ pc' = [pc EXCEPT ![r] = After[kind[r]]["flush"]]
      BY <1>8 DEF Flush, Goto, Continue, requestVars
    <2>2. kind[r] \in Streams
      BY <2>1, <1>0 DEF StepsOf, AllKinds, Streams
    <2>3. CASE kind[r] = "chatStream"
      <3>1. count[r] = MaxTokens
        BY <2>1, <2>3 DEF Whole
      <3> QED BY <2>1, <3>1, WholeMoves
    <2>4. CASE kind[r] = "taskStream"
      BY <2>1, <2>4, Flow, WholeMoves
    <2> QED BY <2>2, <2>3, <2>4 DEF Streams
  <1>9. ASSUME NEW r \in Requests, Remember(r) PROVE Whole'
    <2>1. /\ UNCHANGED <<kind, failed, count>> /\ pc[r] = "remember"
          /\ remembered' = remembered \cup {r}
          /\ pc' = [pc EXCEPT ![r] = After[kind[r]]["remember"]]
      BY <1>9 DEF Remember, Goto, Continue, requestVars
    <2>2. count[r] = MaxTokens
      BY <2>1 DEF Whole
    <2> QED BY <2>1, <2>2, <1>0 DEF Whole
  <1>10. ASSUME NEW r \in Requests, Leave(r) PROVE Whole'
    BY <1>10 DEF Leave, Whole
  <1>11. ASSUME NEW r \in Requests, LoadFails(r) PROVE Whole'
    <2>1. /\ UNCHANGED <<kind, count, remembered>>
          /\ \/ failed' = [failed EXCEPT ![r] = TRUE] /\ pc' = [pc EXCEPT ![r] = "unlock"]
             \/ UNCHANGED failed /\ pc' = [pc EXCEPT ![r] = "over"]
      BY <1>11 DEF LoadFails, Goto, requestVars
    <2> QED BY <1>0, <2>1 DEF Whole
  <1>12. CASE UNCHANGED vars
    BY <1>12 DEF vars, requestVars, Whole
  <1> QED
    BY <1>1, <1>2, <1>3, <1>4, <1>5, <1>6, <1>7, <1>8, <1>9, <1>10, <1>11, <1>12
    DEF Next, Handler

\* The model is loaded when it is not there, in one locked region.
LEMMA OneLoadStep == OneLoad /\ [Next]_vars => OneLoad'
  <1> SUFFICES ASSUME OneLoad, [Next]_vars PROVE OneLoad'
    OBVIOUS
  <1>1. ASSUME NEW r \in Requests, Load(r) PROVE OneLoad'
    BY <1>1 DEF Load, OneLoad
  <1>2. \/ \E r \in Requests : Load(r)
        \/ UNCHANGED <<warm, loads>>
    BY DEF Next, vars, modelVars, Handler, Arrive, Leave, Open, Lock, Unlock, TakeModel,
           LoadFails, Generate, Token, StreamEnds, StreamFails, Reset, FeedAnswer, Flush, Remember, Done
  <1> QED BY <1>1, <1>2 DEF OneLoad

\* Whatever first requests meet, the model is loaded once; and a reply that was
\* broken off is never written to memory, whatever else went wrong meanwhile.
THEOREM ModelAndMemory == Spec => []OnceAndWhole
  <1>1. Init => Whole /\ OneLoad
    BY ServerAssumption DEF ServerAssumption, Init, Whole, OneLoad
  <1>2. Whole /\ OneLoad => OnceAndWhole
    BY DEF Whole, OneLoad, OnceAndWhole, LoadedOnce, RememberedIsComplete
  <1> QED BY <1>1, <1>2, WholeStep, OneLoadStep, Invariance, PTL DEF Spec

-----------------------------------------------------------------------------
(* Requests run down                                                       *)

\* The steps a thread still has before it, apart from its tokens: the handlers in the
\* order of After, with the two that Continue does not take (load, done).
Place ==
  [chat |-> [new |-> 6, load |-> 5, loading |-> 4, generate |-> 3, remember |-> 2,
             done |-> 1, over |-> 0],
   do |-> [new |-> 5, load |-> 4, loading |-> 3, generate |-> 2, done |-> 1, over |-> 0],
   chatStream |-> [new |-> 11, open |-> 10, reset |-> 9, lock |-> 8, load |-> 7,
                   loading |-> 6, stream |-> 5, flush |-> 4, unlock |-> 3, remember |-> 2,
                   done |-> 1, over |-> 0],
   taskStream |-> [new |-> 11, lock |-> 10, open |-> 9, load |-> 8, loading |-> 7,
                   stream |-> 6, unlock |-> 5, reset |-> 4, feed |-> 3, flush |-> 2,
                   done |-> 1, over |-> 0]]
Left(r) == Place[kind[r]][pc[r]] + (MaxTokens - count[r])

\* Who waits for the model waits for a thread that is loading it, and so can go on.
LoadersWork == \A r \in Requests : loading = r => pc[r] = "loading"

\* One thread comes nearer to its end, and the others stay where they are.
OneServed ==
  \E r \in Requests : /\ Left(r)' < Left(r)
                      /\ \A q \in Requests \ {r} : Left(q)' = Left(q)
\* Or only a client has left.
ClientLeaves ==
  /\ UNCHANGED <<pc, kind, failed, count, generation, modelVars, voiceVars, remembered>>
  /\ \E r \in Requests : gone' = [gone EXCEPT ![r] = TRUE]

LEMMA Places ==
  /\ \A k \in AllKinds : \A p \in StepsOf(k) : Place[k][p] \in 0 .. 11
  /\ \A k \in AllKinds : \A p \in StepsOf(k) \ {"load", "done", "over"} :
       After[k][p] \in StepsOf(k) /\ Place[k][After[k][p]] < Place[k][p]
  /\ \A k \in AllKinds : \A p \in StepsOf(k) \ {"over"} : Place[k]["over"] < Place[k][p]
  /\ \A k \in AllKinds : Place[k]["loading"] < Place[k]["load"]
  /\ \A k \in Streams : Place[k]["unlock"] < Place[k]["stream"]
  BY Flow DEF Place, StepsOf, AllKinds, Streams, Pcs

\* A thread that moves on to a later step.
LEMMA Served ==
  ASSUME ThreadTypes, Whole, NEW r \in Requests, NEW p \in StepsOf(kind[r]),
         pc' = [pc EXCEPT ![r] = p], UNCHANGED <<kind, count>>,
         Place[kind[r]][p] < Place[kind[r]][pc[r]]
  PROVE  OneServed
  <1>1. pc'[r] = p /\ \A q \in Requests \ {r} : pc'[q] = pc[q]
    BY DEF ThreadTypes
  <1>2. /\ Place[kind[r]][p] \in 0 .. 11 /\ Place[kind[r]][pc[r]] \in 0 .. 11
        /\ count[r] \in 0 .. MaxTokens
    BY Places DEF ThreadTypes, Whole
  <1>3. Left(r)' < Left(r)
    BY <1>1, <1>2, ServerAssumption DEF Left, ServerAssumption
  <1> QED BY <1>1, <1>3 DEF OneServed, Left

LEMMA ServedStep ==
  ASSUME IInv, Whole, LoadersWork, Next
  PROVE  LoadersWork' /\ (OneServed \/ ClientLeaves)
  <1>0. /\ pc \in [Requests -> Pcs] /\ kind \in [Requests -> AllKinds] /\ ThreadTypes
        /\ \A r \in Requests : pc[r] \in StepsOf(kind[r])
    BY DEF IInv, ThreadTypes
  <1> USE ServerAssumption DEF ServerAssumption, Goto, Continue, requestVars, modelVars, voiceVars
  \* along the handler, or out of it
  <1>1. ASSUME NEW r \in Requests,
               \/ Arrive(r) \/ Open(r) \/ Lock(r) \/ Unlock(r) \/ StreamEnds(r) \/ Reset(r)
               \/ FeedAnswer(r) \/ Flush(r) \/ Remember(r) \/ Done(r)
        PROVE  LoadersWork' /\ OneServed
    <2>1. /\ UNCHANGED <<kind, count, loading>> /\ pc[r] \notin {"load", "loading", "over"}
          /\ \/ pc[r] # "done" /\ pc' = [pc EXCEPT ![r] = After[kind[r]][pc[r]]]
             \/ pc' = [pc EXCEPT ![r] = "over"]
      BY <1>1 DEF Arrive, Open, Lock, Unlock, StreamEnds, Reset, FeedAnswer, Flush, Remember, Done
    <2>2. OneServed
      <3>1. "over" \in StepsOf(kind[r])
        BY <1>0 DEF StepsOf, Pcs
      <3> QED BY <1>0, <2>1, <3>1, Places, Served
    <2>3. LoadersWork'
      BY <1>0, <2>1 DEF LoadersWork
    <2> QED BY <2>2, <2>3
  <1>2. ASSUME NEW r \in Requests, TakeModel(r) PROVE LoadersWork' /\ OneServed
    <2>1. /\ UNCHANGED <<kind, count>> /\ pc[r] = "load" /\ loading' = r
          /\ pc' = [pc EXCEPT ![r] = "loading"]
      BY <1>2 DEF TakeModel
    <2>2. "loading" \in StepsOf(kind[r])
      BY <1>0 DEF StepsOf, Pcs
    <2>3. LoadersWork'
      BY <1>0, <2>1 DEF LoadersWork
    <2> QED BY <1>0, <2>1, <2>2, <2>3, Places, Served
  <1>3. ASSUME NEW r \in Requests, Load(r) PROVE LoadersWork' /\ OneServed
    <2>1. /\ UNCHANGED <<kind, count>> /\ pc[r] = "loading" /\ loading' = NoRequest
          /\ pc' = [pc EXCEPT ![r] = After[kind[r]][pc[r]]]
      BY <1>3 DEF Load
    <2>2. LoadersWork'
      BY <2>1 DEF LoadersWork
    <2> QED BY <1>0, <2>1, <2>2, Places, Served
  <1>4. ASSUME NEW r \in Requests, StreamFails(r) PROVE LoadersWork' /\ OneServed
    <2>1. /\ UNCHANGED <<kind, count, loading>> /\ pc[r] = "stream"
          /\ pc' = [pc EXCEPT ![r] = "unlock"]
      BY <1>4 DEF StreamFails
    <2>2. kind[r] \in Streams /\ "unlock" \in StepsOf(kind[r])
      BY <1>0, <2>1 DEF StepsOf, Pcs, AllKinds, Streams
    <2>3. LoadersWork'
      BY <1>0, <2>1 DEF LoadersWork
    <2> QED BY <1>0, <2>1, <2>2, <2>3, Places, Served
  <1>5. ASSUME NEW r \in Requests, Generate(r) PROVE LoadersWork' /\ OneServed
    <2>1. UNCHANGED <<kind, loading>> /\ pc[r] = "generate"
      BY <1>5 DEF Generate
    <2>2. CASE UNCHANGED count /\ pc' = [pc EXCEPT ![r] = "over"]
      <3>1. "over" \in StepsOf(kind[r])
        BY <1>0 DEF StepsOf, Pcs
      <3>2. LoadersWork'
        BY <1>0, <2>1, <2>2 DEF LoadersWork
      <3> QED BY <1>0, <2>1, <2>2, <3>1, <3>2, Places, Served
    <2>3. CASE count' = [count EXCEPT ![r] = MaxTokens] /\ pc' = [pc EXCEPT ![r] = After[kind[r]][pc[r]]]
      <3> DEFINE k == kind[r]
                 p == After[k][pc[r]]
      <3>1. /\ pc'[r] = p /\ count'[r] = MaxTokens /\ count[r] \in 0 .. MaxTokens
            /\ \A q \in Requests \ {r} : pc'[q] = pc[q] /\ count'[q] = count[q]
        BY <1>0, <2>3 DEF Whole
      <3>2. Place[k][p] \in 0 .. 11 /\ Place[k][pc[r]] \in 0 .. 11 /\ Place[k][p] < Place[k][pc[r]]
        BY <1>0, <2>1, Places
      <3>3. Left(r)' < Left(r)
        BY <2>1, <3>1, <3>2 DEF Left
      <3>4. LoadersWork'
        BY <1>0, <2>1, <2>3 DEF LoadersWork
      <3> QED BY <2>1, <3>1, <3>3, <3>4 DEF OneServed, Left
    <2> QED BY <1>5, <2>2, <2>3 DEF Generate
  <1>6. ASSUME NEW r \in Requests, Token(r) PROVE LoadersWork' /\ OneServed
    <2>1. /\ UNCHANGED <<kind, loading, pc>> /\ count[r] < MaxTokens
          /\ count' = [count EXCEPT ![r] = count[r] + 1]
      BY <1>6 DEF Token
    <2>2. /\ count'[r] = count[r] + 1 /\ count[r] \in 0 .. MaxTokens
          /\ \A q \in Requests \ {r} : count'[q] = count[q]
      BY <2>1 DEF Whole
    <2>3. Place[kind[r]][pc[r]] \in 0 .. 11
      BY <1>0, Places
    <2>4. Left(r)' < Left(r)
      BY <2>1, <2>2, <2>3 DEF Left
    <2>5. LoadersWork'
      BY <2>1 DEF LoadersWork
    <2> QED BY <2>1, <2>2, <2>4, <2>5 DEF OneServed, Left
  <1>7. ASSUME NEW r \in Requests, Leave(r) PROVE LoadersWork' /\ ClientLeaves
    BY <1>7 DEF Leave, LoadersWork, ClientLeaves
  <1>8. ASSUME NEW r \in Requests, LoadFails(r) PROVE LoadersWork' /\ OneServed
    <2> DEFINE p == IF kind[r] \in Streams THEN "unlock" ELSE "over"
    <2>1. /\ UNCHANGED <<kind, count>> /\ pc[r] = "loading" /\ loading' = NoRequest
          /\ pc' = [pc EXCEPT ![r] = p]
      BY <1>8 DEF LoadFails
    <2>2. p \in StepsOf(kind[r]) /\ Place[kind[r]][p] < Place[kind[r]]["loading"]
      BY <1>0 DEF StepsOf, AllKinds, Streams, Pcs, Place
    <2>3. LoadersWork'
      BY <2>1 DEF LoadersWork
    <2> QED BY <1>0, <2>1, <2>2, <2>3, Served
  <1> QED BY <1>1, <1>2, <1>3, <1>4, <1>5, <1>6, <1>7, <1>8 DEF Next, Handler

\* Whatever fails and whoever leaves, each step of a request takes it nearer to its end, one of
\* at most MaxTokens + 11, and sets no other back; and who waits for the model waits for a
\* thread that is loading it.  So only a scheduler that forgets a thread keeps a request from
\* its end.
THEOREM RequestsRunDown ==
  Spec => /\ [](LoadersWork /\ \A r \in Requests : Left(r) \in 0 .. MaxTokens + 11)
          /\ [][OneServed \/ ClientLeaves]_vars
  <1>1. Init => Whole /\ LoadersWork
    BY ServerAssumption DEF ServerAssumption, Init, Whole, LoadersWork
  <1>2. IInv /\ Whole => \A r \in Requests : Left(r) \in 0 .. MaxTokens + 11
    BY Places, ServerAssumption DEF IInv, ThreadTypes, Whole, Left, ServerAssumption
  <1>3. IInv /\ Whole /\ LoadersWork /\ [Next]_vars => LoadersWork'
    BY ServedStep DEF LoadersWork, vars, modelVars
  <1>4. IInv /\ Whole /\ LoadersWork /\ [Next]_vars => [OneServed \/ ClientLeaves]_vars
    BY ServedStep
  <1> QED BY <1>1, <1>2, <1>3, <1>4, WholeStep, Invariance, PTL DEF Spec

-----------------------------------------------------------------------------
(* The microphone and the events that tell the pages of it. *)

TogglePcs == {"idle", "asked", "start", "stop", "refused", "read", "tell", "answer"}
TogglesIn == [pc : TogglePcs, page : Pages, on : BOOLEAN]
Notices == Seq({"note", "on", "off"})

EventTypes ==
  /\ mic \in BOOLEAN /\ live \in BOOLEAN /\ open \in BOOLEAN /\ escape \in BOOLEAN
  /\ calm \in BOOLEAN
  /\ queue \in [Conns -> Notices]
  /\ shows \in [Pages -> BOOLEAN] /\ lastSent \in [Pages -> BOOLEAN]
  /\ toggle \in [Presses -> TogglesIn]
  /\ presses \in 0 .. MaxPresses /\ posts \in Nat /\ notes \in 0 .. MaxNotes

\* Every page has sent what it shows, so that a press always differs from it.
Marked == lastSent = shows

Said(on) == IF on THEN "on" ELSE "off"

\* No microphone state is in this queue, or only this one.
Silent(q) == \A i \in DOMAIN q : q[i] = "note"
Only(q, state) == \A i \in DOMAIN q : q[i] \in {"note", state}

\* As long as nothing fails every page reads the connection it was opened with,
\* and only an open session is unmuted.
Connected ==
  /\ conn = [p \in Pages |-> p]
  /\ listeners = [i \in Pages |-> i]
  /\ handler = [c \in Conns |-> IF c \in Pages THEN "open" ELSE "none"]
  /\ sync = [p \in Pages |-> "done"]
  /\ Told => open

Busy(r) == toggle[r].pc # "idle"

\* No queue is so full that the next event would push out a state.
Roomy == \A p \in Pages : Len(queue[p]) <= notes + (IF Silent(queue[p]) THEN 0 ELSE 1)

\* Before toggle r is announced only its page may differ from the others, and
\* nothing else is on its way.
Unannounced(r) ==
  /\ \A p \in Pages : Silent(queue[p])
  /\ LET told == IF toggle[r].pc \in {"asked", "start", "stop"} THEN ~ Told ELSE Told
     IN  \A p \in Pages : shows[p] = IF p = toggle[r].page THEN told ELSE ~ told
  /\ toggle[r].pc = "start" => ~ Told
  /\ toggle[r].pc = "stop" => Told
  /\ toggle[r].pc = "tell" => toggle[r].on = Told

\* After that whoever differs has the state on its way, and no other.
Announced ==
  \A p \in Pages : /\ Only(queue[p], Said(Told))
                   /\ Silent(queue[p]) => shows[p] = Told

InTurn ==
  /\ \A r, s \in Presses : Busy(r) /\ Busy(s) => r = s
  /\ \A r \in Presses : Busy(r) => /\ toggle[r].pc # "refused"
                                   /\ toggle[r].pc # "answer" => Unannounced(r)
                                   /\ toggle[r].pc = "answer" => Announced /\ toggle[r].on = Told
  /\ (\A r \in Presses : ~ Busy(r)) => Announced
  /\ escape => \A r \in Presses : ~ Busy(r)

Basis == EventTypes /\ Marked /\ NoEcho
CalmInv == calm => Connected /\ Roomy /\ InTurn

-----------------------------------------------------------------------------
(* Queues *)

LEMMA EventConstants ==
  /\ NumPages \in Nat \ {0} /\ MaxConns \in Nat /\ MaxPresses \in Nat /\ MaxNotes \in Nat
  /\ MaxQueue \in Nat \ {0} /\ Pages \subseteq Conns /\ 0 \notin Conns
  BY StreamsAssumption DEF StreamsAssumption, Pages, Conns

LEMMA TailFacts ==
  ASSUME NEW q \in Notices, q # <<>>
  PROVE  /\ Tail(q) \in Notices /\ Len(Tail(q)) = Len(q) - 1 /\ Len(q) \in Nat
         /\ Head(q) \in {"note", "on", "off"}
         /\ Silent(q) => Silent(Tail(q)) /\ Head(q) = "note"
         /\ Head(q) = "note" => (Silent(Tail(q)) <=> Silent(q))
         /\ \A e : Only(q, e) => Only(Tail(q), e) /\ Head(q) \in {"note", e}
  <1>1. /\ Tail(q) \in Notices /\ Len(Tail(q)) = Len(q) - 1 /\ Len(q) \in Nat /\ Len(q) > 0
        /\ Head(q) = q[1]
    BY DEF Notices
  <1>2. \A i \in DOMAIN Tail(q) : i + 1 \in DOMAIN q /\ Tail(q)[i] = q[i + 1]
    BY DEF Notices
  <1>3. \A j \in DOMAIN q : j = 1 \/ (j - 1 \in DOMAIN Tail(q) /\ Tail(q)[j - 1] = q[j])
    BY DEF Notices
  <1>4. 1 \in DOMAIN q /\ q[1] \in {"note", "on", "off"}
    BY <1>1 DEF Notices
  <1>5. Silent(q) => Silent(Tail(q)) /\ Head(q) = "note"
    BY <1>1, <1>2, <1>4 DEF Silent
  <1>6. Head(q) = "note" /\ Silent(Tail(q)) => Silent(q)
    BY <1>1, <1>3 DEF Silent
  <1>7. \A e : Only(q, e) => Only(Tail(q), e) /\ Head(q) \in {"note", e}
    BY <1>1, <1>2, <1>4 DEF Only
  <1> QED BY <1>1, <1>4, <1>5, <1>6, <1>7

LEMMA AppendFacts ==
  ASSUME NEW q \in Notices, NEW e \in {"note", "on", "off"}
  PROVE  /\ Append(q, e) \in Notices /\ Len(Append(q, e)) = Len(q) + 1
         /\ e # "note" \/ ~ Silent(q) => ~ Silent(Append(q, e))
         /\ Silent(q) /\ e = "note" => Silent(Append(q, e))
         /\ \A f : Only(q, f) /\ e \in {"note", f} => Only(Append(q, e), f)
  <1> DEFINE r == Append(q, e)
  <1>1. r \in Notices /\ Len(r) = Len(q) + 1 /\ Len(q) \in Nat
    BY DEF Notices
  <1>2. \A i \in DOMAIN q : i \in DOMAIN r /\ r[i] = q[i]
    BY DEF Notices
  <1>3. Len(q) + 1 \in DOMAIN r /\ r[Len(q) + 1] = e
    BY DEF Notices
  <1>4. \A i \in DOMAIN r : i \in DOMAIN q \/ r[i] = e
    BY DEF Notices
  <1> HIDE DEF r
  <1>5. e # "note" \/ ~ Silent(q) => ~ Silent(r)
    BY <1>2, <1>3 DEF Silent
  <1>6. Silent(q) /\ e = "note" => Silent(r)
    BY <1>2, <1>4 DEF Silent
  <1>7. \A f : Only(q, f) /\ e \in {"note", f} => Only(r, f)
    BY <1>2, <1>4 DEF Only
  <1> QED BY <1>1, <1>5, <1>6, <1>7 DEF r

\* A full queue loses its oldest event, and any other keeps its states.
LEMMA PushFacts ==
  ASSUME NEW q \in Notices, NEW e \in {"note", "on", "off"}
  PROVE  /\ Append64(q, e) \in Notices /\ Len(q) \in Nat
         /\ Len(Append64(q, e)) <= Len(q) + 1
         /\ e # "note" => ~ Silent(Append64(q, e))
         /\ Silent(q) /\ e = "note" => Silent(Append64(q, e))
         /\ Len(q) < MaxQueue /\ ~ Silent(q) => ~ Silent(Append64(q, e))
         /\ \A f : Only(q, f) /\ e \in {"note", f} => Only(Append64(q, e), f)
  <1>1. CASE Len(q) < MaxQueue
    BY <1>1, AppendFacts DEF Append64, Notices
  <1>2. CASE ~ (Len(q) < MaxQueue)
    <2>1. q # <<>> /\ Len(q) \in Nat
      BY <1>2, EventConstants DEF Notices
    <2>2. /\ Tail(q) \in Notices /\ Len(Tail(q)) = Len(q) - 1
          /\ Silent(q) => Silent(Tail(q))
          /\ \A f : Only(q, f) => Only(Tail(q), f)
      BY <2>1, TailFacts
    <2>3. Append64(q, e) = Append(Tail(q), e)
      BY <1>2 DEF Append64
    <2>4. /\ Append(Tail(q), e) \in Notices /\ Len(Append(Tail(q), e)) = Len(Tail(q)) + 1
          /\ e # "note" => ~ Silent(Append(Tail(q), e))
          /\ Silent(Tail(q)) /\ e = "note" => Silent(Append(Tail(q), e))
          /\ \A f : Only(Tail(q), f) /\ e \in {"note", f} => Only(Append(Tail(q), e), f)
      BY <2>2, AppendFacts
    <2> QED BY <1>2, <2>1, <2>2, <2>3, <2>4
  <1> QED BY <1>1, <1>2

-----------------------------------------------------------------------------
(* One toggle for each press *)

\* A broadcast puts the event into some queues.
LEMMA BroadcastTypes ==
  ASSUME EventTypes, NEW e \in {"note", "on", "off"}, Broadcast(e)
  PROVE  queue' \in [Conns -> Notices]
  <1>1. \A c \in Conns : Append64(queue[c], e) \in Notices /\ queue[c] \in Notices
    BY PushFacts DEF EventTypes
  <1> QED BY <1>1 DEF Broadcast

LEMMA BasisStep ==
  ASSUME Basis, [EventsNext]_eventVars
  PROVE  Basis'
  <1> USE DEF Basis, EventTypes, Marked, NoEcho, page, server, switch
  <1>0. presses < MaxPresses => presses + 1 \in Presses
    BY EventConstants DEF Presses
  <1>1. ASSUME NEW p \in Pages, Press(p) PROVE Basis'
    <2>1. /\ shows' = [shows EXCEPT ![p] = ~ shows[p]] /\ lastSent' = shows'
          /\ posts' = posts + 1 /\ toggle' = Post(p) /\ presses' = presses + 1
          /\ UNCHANGED <<switch, queue, notes>> /\ presses < MaxPresses
      BY <1>1 DEF Press, SetShown
    <2>2. [Idle EXCEPT !.pc = "asked", !.page = p] \in TogglesIn
      BY DEF Idle, TogglesIn, TogglePcs
    <2>3. toggle' \in [Presses -> TogglesIn]
      BY <1>0, <2>1, <2>2 DEF Post
    <2>4. shows' \in [Pages -> BOOLEAN]
      BY <2>1
    <2>5. calm' \in BOOLEAN
      BY <1>1 DEF Press, AtRest
    <2> QED BY <2>1, <2>3, <2>4, <2>5, EventConstants
  <1>2. ASSUME NEW p \in Pages, NEW v \in BOOLEAN, Adopt(p, v)
        PROVE  /\ shows' = [shows EXCEPT ![p] = v] /\ lastSent' = shows'
               /\ UNCHANGED <<posts, toggle>> /\ shows' \in [Pages -> BOOLEAN]
    BY <1>2 DEF Adopt, SetShown
  <1>3. ASSUME NEW p \in Pages, Drop(p) \/ Connect(p) \/ ReadStatus(p) PROVE Basis'
    BY <1>3 DEF Drop, Connect, ReadStatus, Fault
  <1>4. ASSUME NEW p \in Pages, Reload(p) PROVE Basis'
    BY <1>4 DEF Reload, Fault
  <1>5. ASSUME NEW p \in Pages, Synced(p) PROVE Basis'
    <2>1. Adopt(p, sync[p] = "on")
      BY <1>5 DEF Synced
    <2>2. /\ shows' = [shows EXCEPT ![p] = (sync[p] = "on")] /\ lastSent' = shows'
          /\ UNCHANGED <<posts, toggle>> /\ shows' \in [Pages -> BOOLEAN]
      BY <1>2, <2>1
    <2> QED BY <1>5, <2>2 DEF Synced
  <1>6. ASSUME NEW c \in Conns, OpenStream(c) \/ Gone(c) PROVE Basis'
    BY <1>6 DEF OpenStream, Gone
  <1>7. ASSUME NEW c \in Conns, Deliver(c) PROVE Basis'
    <2>1. queue' \in [Conns -> Notices]
      <3>1. Tail(queue[c]) \in Notices
        BY <1>7, TailFacts DEF Deliver
      <3> QED BY <1>7, <3>1 DEF Deliver
    <2>2. CASE UNCHANGED page
      BY <1>7, <2>1, <2>2 DEF Deliver
    <2>3. ASSUME NEW p \in Pages, Adopt(p, Head(queue[c]) = "on") PROVE Basis'
      <3>1. /\ shows' = [shows EXCEPT ![p] = (Head(queue[c]) = "on")] /\ lastSent' = shows'
            /\ UNCHANGED <<posts, toggle>> /\ shows' \in [Pages -> BOOLEAN]
        BY <1>2, <2>3
      <3> QED BY <1>7, <2>1, <3>1 DEF Deliver
    <2> QED BY <1>7, <2>2, <2>3 DEF Deliver, Reader
  <1>8. ASSUME NEW r \in Presses, Decide(r) \/ Act(r) \/ ReadBack(r) PROVE Basis'
    <2>1. /\ \A x \in TogglePcs : [toggle[r] EXCEPT !.pc = x] \in TogglesIn
          /\ [toggle[r] EXCEPT !.pc = "tell", !.on = Listening] \in TogglesIn
      BY DEF TogglesIn, TogglePcs, Listening
    <2>2. toggle' \in [Presses -> TogglesIn]
      BY <1>8, <2>1 DEF Decide, Act, ReadBack, Step, TogglePcs
    <2>3. mic' \in BOOLEAN /\ open' \in BOOLEAN /\ calm' \in BOOLEAN
      BY <1>8 DEF Decide, Act, ReadBack, Fault
    <2> QED BY <1>8, <2>2, <2>3 DEF Decide, Act, ReadBack
  <1>9. ASSUME NEW r \in Presses, Tell(r) PROVE Basis'
    <2>1. [toggle[r] EXCEPT !.pc = "answer"] \in TogglesIn
      BY DEF TogglesIn, TogglePcs
    <2>2. toggle' \in [Presses -> TogglesIn]
      BY <1>9, <2>1 DEF Tell, Step
    <2>3. queue' \in [Conns -> Notices]
      BY <1>9, BroadcastTypes DEF Tell
    <2> QED BY <1>9, <2>2, <2>3 DEF Tell
  <1>10. ASSUME NEW r \in Presses, Answer(r) \/ AnswerLost(r) PROVE Basis'
    <2>1. Idle \in TogglesIn /\ toggle[r].page \in Pages /\ toggle[r].on \in BOOLEAN
      BY EventConstants DEF Idle, TogglesIn, TogglePcs, Pages
    <2>2. toggle' \in [Presses -> TogglesIn]
      BY <1>10, <2>1 DEF Answer, AnswerLost, Step
    <2>3. shows' \in [Pages -> BOOLEAN] /\ lastSent' = shows'
      BY <1>10, <2>1 DEF Answer, AnswerLost
    <2>4. UNCHANGED <<switch, queue, presses, posts, notes>> /\ calm' \in BOOLEAN
      BY <1>10 DEF Answer, AnswerLost, Fault
    <2> QED BY <2>2, <2>3, <2>4
  <1>11. CASE Notify
    <2>1. queue' \in [Conns -> Notices]
      BY <1>11, BroadcastTypes DEF Notify
    <2> QED BY <1>11, <2>1, EventConstants DEF Notify
  <1>12. CASE UNCHANGED eventVars
    BY <1>12 DEF eventVars
  <1>13. CASE Escape \/ Escaped \/ SessionEnds
    <2>1. UNCHANGED <<queue, page, presses, notes>>
      BY <1>13 DEF Escape, Escaped, SessionEnds
    <2>2. mic' \in BOOLEAN /\ live' \in BOOLEAN /\ open' \in BOOLEAN /\ escape' \in BOOLEAN
      BY <1>13 DEF Escape, Escaped, SessionEnds
    <2>3. calm' \in BOOLEAN
      BY <1>13 DEF Escape, Escaped, SessionEnds, AtRest, Listening
    <2> QED BY <2>1, <2>2, <2>3
  <1> QED
    BY <1>1, <1>3, <1>4, <1>5, <1>6, <1>7, <1>8, <1>9, <1>10, <1>11, <1>12, <1>13
    DEF EventsNext, Serve, Handle, Refresh

-----------------------------------------------------------------------------
(* Agreement *)

\* An interrupt of an open microphone, or the end of a session that is muted.
Unheard == UNCHANGED <<Told, queue, page, notes>> /\ (escape' => escape \/ AtRest)

\* A step that leaves everything calm is a press at rest, a delivery to the
\* page that reads the connection, a step of a toggle, a note, or it changes nothing the
\* pages are told of.
LEMMA CalmSteps ==
  ASSUME EventTypes, calm, Connected, calm', EventsNext
  PROVE  /\ Connected'
         /\ \/ \E p \in Pages : Press(p) /\ AtRest
            \/ \E c \in Pages : Deliver(c)
            \/ \E r \in Presses : Decide(r) \/ (Act(r) /\ mic' = (toggle[r].pc = "start"))
                                  \/ ReadBack(r) \/ Tell(r) \/ Answer(r)
            \/ Notify \/ Unheard
  <1> USE DEF Connected, server, switch, page, Told
  <1>1. ~ Fault
    BY DEF Fault
  <1>2. ASSUME NEW p \in Pages, Connect(p) \/ Drop(p) \/ Reload(p) \/ ReadStatus(p) \/ Synced(p)
        PROVE  FALSE
    BY <1>1, <1>2, EventConstants DEF Connect, Drop, Reload, ReadStatus, Synced
  <1>3. ASSUME NEW c \in Conns, OpenStream(c) \/ Gone(c) PROVE FALSE
    <2>1. c \in Pages => c \in Reader(c)
      BY DEF Reader
    <2> QED BY <1>3, <2>1 DEF OpenStream, Gone
  <1>4. ASSUME NEW c \in Conns, Deliver(c) PROVE c \in Pages /\ Connected'
    BY <1>4 DEF Deliver
  <1>5. ASSUME NEW r \in Presses, AnswerLost(r) PROVE FALSE
    BY <1>1, <1>5 DEF AnswerLost
  <1>6. ASSUME NEW r \in Presses, Decide(r) \/ Act(r) \/ ReadBack(r) \/ Tell(r) \/ Answer(r)
        PROVE  Connected' /\ (Act(r) => mic' = (toggle[r].pc = "start"))
    BY <1>1, <1>6 DEF Decide, Act, ReadBack, Tell, Answer
  <1>7. ASSUME NEW p \in Pages, Press(p) PROVE AtRest /\ Connected'
    BY <1>7 DEF Press
  <1>8. Notify => Connected'
    BY DEF Notify
  <1>9. ASSUME Escape \/ Escaped \/ SessionEnds PROVE Connected' /\ Unheard
    <2>1. UNCHANGED <<conn, listeners, handler, sync, queue, page, notes>>
      BY <1>9 DEF Escape, Escaped, SessionEnds
    <2>2. escape' => escape \/ AtRest
      <3>1. CASE Escape
        BY <3>1 DEF Escape, EventTypes
      <3> QED BY <1>9, <3>1 DEF Escaped, SessionEnds
    <2>3. Told' = Told /\ (Told => open')
      BY <1>9 DEF EventTypes, Escape, Escaped, SessionEnds, Listening
    <2> QED BY <2>1, <2>2, <2>3 DEF Unheard
  <1> QED
    BY <1>2, <1>3, <1>4, <1>5, <1>6, <1>7, <1>8, <1>9 DEF EventsNext, Serve, Handle, Refresh

\* All pages are told.
LEMMA Listed ==
  ASSUME Connected, NEW p \in Pages
  PROVE  Contains(listeners, p)
  <1>1. Len(listeners) = NumPages /\ listeners[p] = p
    BY EventConstants DEF Connected, Pages
  <1> QED BY <1>1 DEF Contains, Pages

\* At rest every queue is empty and every page shows the state of the microphone.
LEMMA RestAgrees ==
  ASSUME EventTypes, Connected, InTurn, AtRest
  PROVE  /\ \A p \in Pages : queue[p] = <<>> /\ shows[p] = Told
         /\ \A r \in Presses : ~ Busy(r)
         /\ ~ escape /\ Told = Listening
  <1>1. \A p \in Pages : queue[p] = <<>>
    BY DEF AtRest, Connected
  <1>2. \A r \in Presses : ~ Busy(r)
    BY DEF AtRest, Busy
  <1>3. Silent(<<>>)
    BY DEF Silent
  <1>4. ~ escape /\ Told = Listening
    BY DEF AtRest, Told, Listening, Connected, EventTypes
  <1> QED BY <1>1, <1>2, <1>3, <1>4 DEF InTurn, Announced

\* The page that toggles differs from the others until they are told.
LEMMA PressAgrees ==
  ASSUME Basis, Connected, Roomy, InTurn, NEW p \in Pages, Press(p), AtRest
  PROVE  Roomy' /\ InTurn'
  <1> USE DEF Basis, EventTypes
  <1>1. /\ \A q \in Pages : queue[q] = <<>> /\ shows[q] = Told
        /\ \A r \in Presses : ~ Busy(r)
        /\ ~ escape /\ Told \in BOOLEAN
    BY RestAgrees DEF Told
  <1>a. PICK r \in Presses : r = presses + 1
    BY EventConstants DEF Press, Presses
  <1>2. /\ shows' = [shows EXCEPT ![p] = ~ shows[p]] /\ toggle' = Post(p)
        /\ UNCHANGED <<Told, escape, queue, notes>>
    BY EventConstants DEF Press, SetShown, Marked, server, switch, Told
  <1>3. /\ toggle'[r].pc = "asked" /\ toggle'[r].page = p
        /\ \A s \in Presses \ {r} : toggle'[s] = toggle[s]
    BY <1>a, <1>2 DEF Post, Idle
  <1>4. Silent(<<>>)
    BY DEF Silent
  <1>5. Unannounced(r)'
    <2>1. shows'[p] = ~ Told' /\ \A q \in Pages \ {p} : shows'[q] = Told'
      BY <1>1, <1>2
    <2>2. \A q \in Pages : shows'[q] = IF q = p THEN ~ Told' ELSE ~ ~ Told'
      BY <1>2, <2>1
    <2>3. \A q \in Pages : Silent(queue'[q])
      BY <1>1, <1>2, <1>4
    <2> QED BY <1>3, <2>2, <2>3 DEF Unannounced
  <1>6. Roomy'
    BY <1>1, <1>2 DEF Roomy
  <1>7. \A s \in Presses : Busy(s)' => s = r
    BY <1>1, <1>3 DEF Busy
  <1>8. InTurn'
    <2>1. Busy(r)' /\ toggle'[r].pc # "refused" /\ toggle'[r].pc # "answer"
      BY <1>3 DEF Busy
    <2> QED BY <1>1, <1>2, <1>5, <1>7, <2>1 DEF InTurn
  <1> QED BY <1>6, <1>8

LEMMA DeliverAgrees ==
  ASSUME Basis, Connected, Roomy, InTurn, NEW c \in Pages, Deliver(c)
  PROVE  Roomy' /\ InTurn'
  <1> USE DEF Basis, EventTypes
  <1>1. /\ UNCHANGED <<Told, escape, notes>> /\ queue[c] # <<>> /\ c \in Conns
        /\ queue' = [queue EXCEPT ![c] = Tail(queue[c])] /\ Reader(c) = {c}
        /\ Told \in BOOLEAN
    BY EventConstants DEF Deliver, Connected, Reader, switch, Told
  <1>2. /\ Tail(queue[c]) \in Notices /\ Len(Tail(queue[c])) = Len(queue[c]) - 1
        /\ Len(queue[c]) \in Nat /\ Head(queue[c]) \in {"note", "on", "off"}
        /\ Silent(queue[c]) => Silent(Tail(queue[c])) /\ Head(queue[c]) = "note"
        /\ Head(queue[c]) = "note" => (Silent(Tail(queue[c])) <=> Silent(queue[c]))
        /\ \A e : Only(queue[c], e) => Only(Tail(queue[c]), e) /\ Head(queue[c]) \in {"note", e}
    BY <1>1, TailFacts
  <1>3. /\ toggle' = toggle /\ \A q \in Pages \ {c} : shows'[q] = shows[q]
        /\ Head(queue[c]) = "note" => shows'[c] = shows[c]
        /\ Head(queue[c]) # "note" => Head(queue[c]) = Said(shows'[c])
    <2>1. CASE UNCHANGED page /\ Head(queue[c]) \in {"note", IF shows[c] THEN "on" ELSE "off"}
      BY <2>1 DEF page, Said
    <2>2. CASE Head(queue[c]) # "note" /\ Adopt(c, Head(queue[c]) = "on")
      BY <1>2, <2>2 DEF Adopt, SetShown, Said
    <2> QED BY <1>1, <2>1, <2>2 DEF Deliver
  <1>4. /\ queue'[c] = Tail(queue[c]) /\ \A q \in Pages \ {c} : queue'[q] = queue[q]
    BY <1>1, EventConstants
  <1>5. Roomy'
    BY <1>1, <1>2, <1>4 DEF Roomy
  <1>6. \A r \in Presses : Unannounced(r) => Unannounced(r)'
    BY <1>1, <1>2, <1>3, <1>4 DEF Unannounced
  <1>7. Announced => Announced'
    <2> SUFFICES ASSUME Announced, NEW p \in Pages
                 PROVE  /\ Only(queue'[p], Said(Told))
                        /\ Silent(queue'[p]) => shows'[p] = Told
      BY <1>1 DEF Announced
    <2>1. CASE p # c
      BY <1>3, <1>4, <2>1 DEF Announced
    <2>2. CASE p = c
      <3>1. Only(queue[c], Said(Told)) /\ (Silent(queue[c]) => shows[c] = Told)
        BY DEF Announced
      <3>2. CASE Head(queue[c]) = "note"
        BY <1>2, <1>3, <1>4, <2>2, <3>1, <3>2
      <3>3. CASE Head(queue[c]) # "note"
        <4>1. Said(shows'[c]) = Said(Told)
          BY <1>2, <1>3, <3>1, <3>3
        <4>2. shows'[c] \in BOOLEAN
          BY <1>1 DEF Deliver, page, Adopt, SetShown
        <4>3. shows'[c] = Told
          BY <1>1, <4>1, <4>2 DEF Said
        <4> QED BY <1>2, <1>4, <2>2, <3>1, <4>3
      <3> QED BY <3>2, <3>3
    <2> QED BY <2>1, <2>2
  <1> QED BY <1>1, <1>3, <1>5, <1>6, <1>7 DEF InTurn, Busy

\* Its thread reads, flips and reads back; nobody else has one.
LEMMA TurnAgrees ==
  ASSUME Basis, Connected, Roomy, InTurn, NEW r \in Presses,
         Decide(r) \/ (Act(r) /\ mic' = (toggle[r].pc = "start")) \/ ReadBack(r)
  PROVE  Roomy' /\ InTurn'
  <1> USE DEF Basis, EventTypes, server
  <1>1. Busy(r) /\ toggle[r].pc # "answer" /\ Unannounced(r) /\ ~ escape /\ Told = mic
    BY DEF Decide, Act, ReadBack, Busy, InTurn, Told
  <1>2. /\ UNCHANGED <<queue, shows, notes, escape>> /\ Told' = mic'
        /\ \A s \in Presses \ {r} : toggle'[s] = toggle[s]
    BY <1>1 DEF Decide, Act, ReadBack, Step, switch, Told
  <1>3. toggle[r] \in TogglesIn
    OBVIOUS
  <1>4. Unannounced(r)' /\ toggle'[r].pc \in {"start", "stop", "read", "tell"}
    <2>1. CASE Decide(r)
      <3>1. mic' = mic
        BY <2>1 DEF Decide, switch
      <3> QED BY <1>1, <1>2, <1>3, <2>1, <3>1 DEF Decide, Step, Unannounced, TogglesIn
    <2>2. CASE Act(r) /\ mic' = (toggle[r].pc = "start")
      <3>1. toggle' = [toggle EXCEPT ![r] = [toggle[r] EXCEPT !.pc = "read"]] /\ Told' = ~ Told
        <4>1. toggle' = [toggle EXCEPT ![r] = [toggle[r] EXCEPT !.pc = "read"]]
          BY <1>1, <1>2, <2>2 DEF Act, Step, Unannounced, Connected
        <4> QED BY <1>1, <1>2, <2>2, <4>1 DEF Act, Unannounced
      <3>2. toggle'[r].pc = "read" /\ toggle'[r].page = toggle[r].page
        BY <1>3, <3>1 DEF TogglesIn
      <3> QED BY <1>1, <1>2, <2>2, <3>1, <3>2 DEF Act, Unannounced
    <2>3. CASE ReadBack(r)
      <3>1. mic' = mic /\ Listening = Told
        BY <1>1, <2>3 DEF ReadBack, switch, Listening, Connected
      <3> QED BY <1>1, <1>2, <1>3, <2>3, <3>1 DEF ReadBack, Step, Unannounced, TogglesIn
    <2> QED BY <2>1, <2>2, <2>3
  <1>5. Roomy'
    BY <1>2 DEF Roomy
  <1>6. \A s \in Presses : Busy(s)' => s = r
    BY <1>1, <1>2 DEF InTurn, Busy
  <1> QED BY <1>1, <1>2, <1>4, <1>5, <1>6 DEF InTurn, Busy

\* Every queue is listed, so each page that does not know has the state coming.
LEMMA TellAgrees ==
  ASSUME Basis, Connected, Roomy, InTurn, NEW r \in Presses, Tell(r)
  PROVE  Roomy' /\ InTurn'
  <1> USE DEF Basis, EventTypes
  <1>1. Busy(r) /\ Unannounced(r) /\ toggle[r].on = Told /\ ~ escape
    BY DEF Tell, Busy, InTurn, Unannounced
  <1>2. /\ UNCHANGED <<Told, escape, shows, notes>> /\ \A s \in Presses \ {r} : toggle'[s] = toggle[s]
        /\ toggle'[r].pc = "answer" /\ toggle'[r].on = Told
    BY <1>1 DEF Tell, Step, TogglesIn, switch, Told
  <1>3. Broadcast(Said(Told)) /\ Said(Told) \in {"on", "off"}
    BY <1>1 DEF Tell, Said
  <1>4. \A p \in Pages : queue'[p] = Append64(queue[p], Said(Told)) /\ queue[p] \in Notices
    BY <1>3, EventConstants, Listed DEF Broadcast
  <1>5. ASSUME NEW p \in Pages
        PROVE  /\ Len(queue'[p]) <= notes + 1 /\ ~ Silent(queue'[p])
               /\ Only(queue'[p], Said(Told))
    <2>1. Silent(queue[p]) /\ Only(queue[p], Said(Told)) /\ Len(queue[p]) <= notes
      BY <1>1 DEF Unannounced, Silent, Only, Roomy
    <2>2. /\ Len(Append64(queue[p], Said(Told))) <= Len(queue[p]) + 1 /\ Len(queue[p]) \in Nat
          /\ Append64(queue[p], Said(Told)) \in Notices
          /\ ~ Silent(Append64(queue[p], Said(Told)))
          /\ Only(Append64(queue[p], Said(Told)), Said(Told))
      BY <1>3, <1>4, <2>1, PushFacts
    <2>3. Len(Append64(queue[p], Said(Told))) \in Nat
      BY <2>2 DEF Notices
    <2> QED BY <1>4, <2>1, <2>2, <2>3
  <1>6. Roomy'
    BY <1>2, <1>5 DEF Roomy
  <1>7. Announced'
    BY <1>2, <1>5 DEF Announced
  <1>8. \A s \in Presses : Busy(s)' => s = r
    BY <1>1, <1>2 DEF InTurn, Busy
  <1> QED BY <1>1, <1>2, <1>6, <1>7, <1>8 DEF InTurn, Busy

\* The answer says what was announced.
LEMMA AnswerAgrees ==
  ASSUME Basis, Roomy, InTurn, NEW r \in Presses, Answer(r)
  PROVE  Roomy' /\ InTurn'
  <1> USE DEF Basis, EventTypes, server
  <1>1. /\ Busy(r) /\ toggle[r].pc = "answer" /\ Announced /\ toggle[r].on = Told
    BY DEF Answer, Busy, InTurn
  <1>2. UNCHANGED <<Told, queue, notes>> /\ toggle' = [toggle EXCEPT ![r] = Idle]
    BY DEF Answer, Step, switch, Told
  <1>3. shows' = [shows EXCEPT ![toggle[r].page] = toggle[r].on]
    <2>1. toggle[r].on \in BOOLEAN
      BY DEF TogglesIn
    <2> QED BY <1>1, <2>1 DEF Answer
  <1>4. Announced'
    BY <1>1, <1>2, <1>3 DEF Announced
  <1>5. \A s \in Presses : ~ Busy(s)'
    BY <1>1, <1>2 DEF InTurn, Busy, Idle
  <1>6. Roomy'
    BY <1>2 DEF Roomy
  <1> QED BY <1>4, <1>5, <1>6 DEF InTurn

\* A note pushes no state out, as long as fewer notes are sent than a queue holds.
LEMMA NoteAgrees ==
  ASSUME MaxNotes < MaxQueue, Basis, Connected, Roomy, InTurn, Notify
  PROVE  Roomy' /\ InTurn'
  <1> USE DEF Basis, EventTypes
  <1>1. /\ UNCHANGED <<Told, escape, shows, toggle>> /\ notes' = notes + 1 /\ notes < MaxNotes
        /\ Broadcast("note")
    BY DEF Notify, page, switch, Told
  <1>2. \A p \in Pages : queue'[p] = Append64(queue[p], "note") /\ queue[p] \in Notices
    BY <1>1, EventConstants, Listed DEF Broadcast
  <1>3. ASSUME NEW p \in Pages
        PROVE  /\ Len(queue'[p]) <= notes' + (IF Silent(queue'[p]) THEN 0 ELSE 1)
               /\ Silent(queue'[p]) <=> Silent(queue[p])
               /\ \A e : Only(queue[p], e) => Only(queue'[p], e)
    <2>1. /\ Append64(queue[p], "note") \in Notices /\ Len(queue[p]) \in Nat
          /\ Len(Append64(queue[p], "note")) <= Len(queue[p]) + 1
          /\ Silent(queue[p]) => Silent(Append64(queue[p], "note"))
          /\ Len(queue[p]) < MaxQueue /\ ~ Silent(queue[p]) => ~ Silent(Append64(queue[p], "note"))
          /\ \A e : Only(queue[p], e) => Only(Append64(queue[p], "note"), e)
      BY <1>2, PushFacts
    <2>2. Len(Append64(queue[p], "note")) \in Nat
      BY <2>1 DEF Notices
    <2>3. Len(queue[p]) <= notes + (IF Silent(queue[p]) THEN 0 ELSE 1)
      BY DEF Roomy
    <2>4. Len(queue[p]) < MaxQueue
      BY <1>1, <2>1, <2>3, EventConstants
    <2> QED BY <1>1, <1>2, <2>1, <2>2, <2>3, <2>4, EventConstants
  <1>4. Roomy'
    BY <1>3 DEF Roomy
  <1>5. Announced => Announced'
    BY <1>1, <1>3 DEF Announced
  <1>6. \A r \in Presses : Unannounced(r) => Unannounced(r)'
    BY <1>1, <1>3 DEF Unannounced
  <1> QED BY <1>1, <1>4, <1>5, <1>6 DEF InTurn, Busy

\* What the pages are not told of leaves them as they are.
LEMMA UnheardAgrees ==
  ASSUME Basis, Roomy, InTurn, Unheard
  PROVE  Roomy' /\ InTurn'
  <1>1. UNCHANGED <<Told, queue, shows, toggle, notes>>
    BY DEF Unheard, page
  <1>2. escape' => \A r \in Presses : ~ Busy(r)
    BY DEF Unheard, AtRest, InTurn, Busy
  <1>3. Announced' = Announced /\ \A r \in Presses : Unannounced(r)' = Unannounced(r)
    BY <1>1 DEF Announced, Unannounced
  <1>4. Roomy'
    BY <1>1 DEF Roomy
  <1> QED BY <1>1, <1>2, <1>3, <1>4 DEF InTurn, Busy

LEMMA CalmStep ==
  ASSUME MaxNotes < MaxQueue, Basis, CalmInv, [EventsNext]_eventVars
  PROVE  CalmInv'
  <1> USE DEF CalmInv
  <1>1. CASE UNCHANGED eventVars
    BY <1>1 DEF eventVars, Connected, Roomy, InTurn, Unannounced, Announced, Busy, Told
  <1>2. CASE calm' /\ EventsNext
    <2>1. calm
      BY <1>2 DEF EventsNext, Press, Drop, Reload, Refresh, Connect, ReadStatus, Synced, Handle,
                  OpenStream, Deliver, Gone, Serve, Decide, Act, ReadBack, Tell, Answer,
                  AnswerLost, Notify, Fault, Escape, Escaped, SessionEnds
    <2>2. /\ Connected'
          /\ \/ \E p \in Pages : Press(p) /\ AtRest
             \/ \E c \in Pages : Deliver(c)
             \/ \E r \in Presses : Decide(r) \/ (Act(r) /\ mic' = (toggle[r].pc = "start"))
                                   \/ ReadBack(r) \/ Tell(r) \/ Answer(r)
             \/ Notify \/ Unheard
      BY <1>2, <2>1, CalmSteps DEF Basis
    <2>3. Roomy' /\ InTurn'
      BY <2>1, <2>2, PressAgrees, DeliverAgrees, TurnAgrees, TellAgrees, AnswerAgrees, NoteAgrees,
         UnheardAgrees
    <2> QED BY <2>2, <2>3, SMTT(30)
  <1> QED BY <1>1, <1>2

-----------------------------------------------------------------------------
(* Theorems *)

LEMMA EventsStart == EventsInit => Basis /\ CalmInv
  <1> SUFFICES ASSUME EventsInit PROVE Basis /\ CalmInv
    OBVIOUS
  <1> USE DEF EventsInit
  <1>1. Idle \in TogglesIn /\ <<>> \in Notices /\ Idle.pc = "idle" /\ Silent(<<>>)
        /\ \A e : Only(<<>>, e)
    BY EventConstants DEF Idle, TogglesIn, TogglePcs, Pages, Notices, Silent, Only
  <1>2. toggle \in [Presses -> TogglesIn] /\ queue \in [Conns -> Notices]
    BY <1>1
  <1>3. EventTypes
    <2>1. shows \in [Pages -> BOOLEAN] /\ lastSent \in [Pages -> BOOLEAN]
      OBVIOUS
    <2>2. presses \in 0 .. MaxPresses /\ posts \in Nat /\ notes \in 0 .. MaxNotes
      BY EventConstants
    <2> QED BY <1>2, <2>1, <2>2 DEF EventTypes
  <1>4. Basis
    BY <1>3 DEF Basis, Marked, NoEcho
  <1>5. ~ Told /\ ~ escape /\ \A p \in Pages : queue[p] = <<>> /\ shows[p] = Told
    BY EventConstants DEF Told
  <1>6. Connected
    BY <1>5 DEF Connected
  <1>7. Roomy
    <2>1. Len(<<>>) = 0
      OBVIOUS
    <2> QED BY <1>1, <1>5, <2>1, EventConstants DEF Roomy
  <1>8. InTurn
    BY <1>1, <1>5 DEF InTurn, Announced, Busy
  <1> QED BY <1>4, <1>6, <1>7, <1>8 DEF CalmInv

(* Whatever two pages press, hear, reload or miss, a toggle is posted for  *)
(* each press and for nothing else, with queues of any length and any      *)
(* number of pages and connections.                                        *)
THEOREM OnlyPressesPost == EventsSpec => []NoEcho
  <1>1. Basis /\ [EventsNext]_eventVars => Basis'
    BY BasisStep
  <1>2. Basis => NoEcho
    BY DEF Basis
  <1> QED BY <1>1, <1>2, EventsStart, PTL DEF EventsSpec

(* If every press found the system at rest and nothing failed, the pages   *)
(* agree with the microphone whenever it is at rest again.  A queue must   *)
(* hold more than the notes of the run: with as many, the state is pushed  *)
(* out before a slow handler has written it.                               *)
THEOREM CalmPagesAgree == MaxNotes < MaxQueue => (EventsSpec => []CalmAgreement)
  <1> SUFFICES ASSUME MaxNotes < MaxQueue PROVE EventsSpec => []CalmAgreement
    OBVIOUS
  <1>1. Basis /\ CalmInv /\ [EventsNext]_eventVars => (Basis /\ CalmInv)'
    BY BasisStep, CalmStep
  <1>2. Basis /\ CalmInv => CalmAgreement
    BY RestAgrees DEF Basis, CalmInv, CalmAgreement
  <1> QED BY <1>1, <1>2, EventsStart, PTL DEF EventsSpec


-----------------------------------------------------------------------------
(* One switch                                                              *)

\* The steps of a calm system, seen as steps of the switch.
LEMMA PressFlips ==
  ASSUME Basis, Connected, InTurn, NEW p \in Pages, Press(p), AtRest
  PROVE  Switch!Press(p)
  <1> USE DEF Basis, EventTypes
  <1>1. /\ \A q \in Pages : shows[q] = Told
        /\ \A r \in Presses : ~ Busy(r)
    BY RestAgrees
  <1>2. PICK r \in Presses : r = presses + 1
    BY EventConstants DEF Press, Presses
  <1>3. /\ shows' = [shows EXCEPT ![p] = ~ shows[p]] /\ toggle' = Post(p) /\ Told' = Told
    BY EventConstants DEF Press, SetShown, Marked, server, switch, Told
  <1>4. toggle'[r].pc = "asked"
    BY <1>2, <1>3 DEF Post, Idle
  <1>5. Wanted = Told
    BY <1>1 DEF Wanted, Busy
  <1>6. Wanted' = ~ Told
    BY <1>3, <1>4 DEF Wanted
  <1> QED BY <1>1, <1>3, <1>5, <1>6 DEF Switch!Press

\* A queue that is not silent belongs to a state that was announced, and so to the one that
\* is wanted.
LEMMA ToldIsWanted ==
  ASSUME InTurn, NEW c \in Pages, ~ Silent(queue[c])
  PROVE  Announced /\ Wanted = Told
  <1>1. \A r \in Presses : Busy(r) => toggle[r].pc = "answer"
    BY DEF InTurn, Unannounced
  <1>2. Announced
    BY <1>1 DEF InTurn
  <1>3. Wanted = Told
    BY <1>1 DEF Wanted, Busy
  <1> QED BY <1>2, <1>3

LEMMA DeliverFollows ==
  ASSUME Basis, Connected, InTurn, NEW c \in Pages, Deliver(c)
  PROVE  UNCHANGED <<Wanted, shows>> \/ Switch!Follow(c)
  <1> USE DEF Basis, EventTypes
  <1>1. /\ Reader(c) = {c} /\ c \in Conns /\ queue[c] # <<>> /\ queue[c] \in Notices
        /\ Told' = Told /\ Told \in BOOLEAN
    BY EventConstants DEF Connected, Reader, Deliver, switch, Told
  <1>2. CASE UNCHANGED page
    BY <1>1, <1>2 DEF page, Wanted
  <1>3. CASE /\ Head(queue[c]) # "note" /\ shows[c] # (Head(queue[c]) = "on")
             /\ Adopt(c, Head(queue[c]) = "on")
    <2>1. ~ Silent(queue[c])
      BY <1>1, <1>3, TailFacts
    <2>2. Only(queue[c], Said(Told)) /\ Wanted = Told
      BY <2>1, ToldIsWanted DEF Announced
    <2>3. Head(queue[c]) = Said(Told)
      BY <1>1, <1>3, <2>2, TailFacts
    <2>4. shows' = [shows EXCEPT ![c] = Told] /\ toggle' = toggle
      BY <1>1, <1>3, <2>3 DEF Adopt, SetShown, Said
    <2>5. Wanted' = Wanted
      BY <1>1, <2>4 DEF Wanted
    <2> QED BY <1>3, <2>2, <2>3, <2>4, <2>5 DEF Switch!Follow, Said
  <1> QED BY <1>1, <1>2, <1>3 DEF Deliver

\* The thread of a toggle carries out what was asked for.
LEMMA TurnIsWanted ==
  ASSUME Basis, Connected, InTurn, NEW r \in Presses,
         Decide(r) \/ (Act(r) /\ mic' = (toggle[r].pc = "start")) \/ ReadBack(r) \/ Tell(r)
  PROVE  UNCHANGED <<Wanted, shows>>
  <1> USE DEF Basis, EventTypes, server
  <1> DEFINE Asking == {"asked", "start", "stop"}
  <1>1. /\ Busy(r) /\ toggle[r].pc # "answer" /\ Unannounced(r) /\ toggle[r] \in TogglesIn
        /\ ~ escape /\ ~ escape' /\ Told = mic /\ Told' = mic'
    <2>1. /\ Busy(r) /\ toggle[r].pc # "answer" /\ toggle[r] \in TogglesIn
          /\ escape' = escape /\ mic' \in BOOLEAN
      BY DEF Decide, Act, ReadBack, Tell, Busy, switch
    <2>2. Unannounced(r) /\ ~ escape
      BY <2>1 DEF InTurn
    <2> QED BY <2>1, <2>2 DEF Told
  <1>2. \A s \in Presses \ {r} : toggle'[s] = toggle[s] /\ ~ Busy(s)
    BY <1>1 DEF Decide, Act, ReadBack, Tell, Step, InTurn
  <1>3. Wanted = IF toggle[r].pc \in Asking THEN ~ Told ELSE Told
    BY <1>2 DEF Wanted, Busy
  <1>4. Wanted' = IF toggle'[r].pc \in Asking THEN ~ Told' ELSE Told'
    BY <1>2 DEF Wanted, Busy
  <1>5. CASE Decide(r)
    <2>1. toggle[r].pc \in Asking /\ toggle'[r].pc \in Asking /\ Told' = Told
      BY <1>1, <1>5 DEF Decide, Step, TogglesIn, switch
    <2> QED BY <1>3, <1>4, <1>5, <2>1 DEF Decide
  <1>6. CASE Act(r) /\ mic' = (toggle[r].pc = "start")
    <2>1. toggle' = [toggle EXCEPT ![r] = [toggle[r] EXCEPT !.pc = "read"]] /\ Told' = ~ Told
          /\ toggle[r].pc \in {"start", "stop"}
      <3>1. toggle' = [toggle EXCEPT ![r] = [toggle[r] EXCEPT !.pc = "read"]]
        BY <1>1, <1>6 DEF Act, Step, Unannounced, Connected
      <3> QED BY <1>1, <1>6, <3>1 DEF Act, Unannounced
    <2>2. toggle'[r].pc = "read"
      BY <1>1, <2>1 DEF TogglesIn
    <2> QED BY <1>3, <1>4, <1>6, <2>1, <2>2 DEF Act
  <1>7. CASE ReadBack(r) \/ Tell(r)
    <2>1. toggle[r].pc \notin Asking /\ Told' = Told
      BY <1>1, <1>7 DEF ReadBack, Tell, switch
    <2>2. toggle'[r].pc \in {"tell", "answer"}
      <3>1. CASE ReadBack(r)
        BY <1>1, <3>1 DEF ReadBack, Step, TogglesIn
      <3>2. CASE Tell(r)
        BY <1>1, <3>2 DEF Tell, Step, TogglesIn
      <3> QED BY <1>7, <3>1, <3>2
    <2> QED BY <1>3, <1>4, <1>7, <2>1, <2>2 DEF ReadBack, Tell
  <1> QED BY <1>5, <1>6, <1>7

LEMMA AnswerFollows ==
  ASSUME Basis, InTurn, NEW r \in Presses, Answer(r)
  PROVE  UNCHANGED <<Wanted, shows>> \/ \E p \in Pages : Switch!Follow(p)
  <1> USE DEF Basis, EventTypes, server
  <1>1. toggle[r].pc = "answer" /\ toggle[r].on = Told /\ toggle[r].page \in Pages
    BY DEF Answer, Busy, InTurn, TogglesIn
  <1>2. \A s \in Presses \ {r} : ~ Busy(s)
    BY <1>1 DEF InTurn, Busy
  <1>3. toggle' = [toggle EXCEPT ![r] = Idle] /\ Told' = Told
        /\ shows' = [shows EXCEPT ![toggle[r].page] = Told]
    BY <1>1 DEF Answer, Step, switch, Told
  <1>4. Wanted = Told /\ Wanted' = Told
    BY <1>1, <1>2, <1>3 DEF Wanted, Busy, Idle
  <1>5. CASE shows[toggle[r].page] = Told
    BY <1>1, <1>3, <1>4, <1>5
  <1>6. CASE shows[toggle[r].page] # Told
    BY <1>1, <1>3, <1>4, <1>6 DEF Switch!Follow
  <1> QED BY <1>5, <1>6

(* While every press finds the system at rest and nothing fails, the pages *)
(* and the microphone implement one switch: a press flips it, and an       *)
(* event, an answer or a status only ever takes a page to what the last    *)
(* press asked for.                                                        *)
THEOREM OneSwitch == MaxNotes < MaxQueue => (EventsSpec => PagesShareASwitch)
  <1> SUFFICES ASSUME MaxNotes < MaxQueue PROVE EventsSpec => PagesShareASwitch
    OBVIOUS
  <1>1. EventsInit => Switch!Init
    BY DEF EventsInit, Switch!Init, Wanted, Told, Idle
  <1>2. Basis /\ CalmInv /\ [EventsNext]_eventVars => (Basis /\ CalmInv)'
    BY BasisStep, CalmStep
  <1>3. Basis /\ CalmInv /\ [EventsNext]_eventVars => [Switch!Next]_<<Wanted, shows, calm>>
    <2> SUFFICES ASSUME Basis, CalmInv, EventsNext, calm'
                 PROVE  [Switch!Next]_<<Wanted, shows, calm>>
      BY DEF eventVars, Wanted, Told, Switch!Next
    <2>1. calm
      BY DEF EventsNext, Press, Drop, Reload, Refresh, Connect, ReadStatus, Synced, Handle,
             OpenStream, Deliver, Gone, Serve, Decide, Act, ReadBack, Tell, Answer,
             AnswerLost, Notify, Fault, Escape, Escaped, SessionEnds
    <2>2. Connected /\ InTurn
      BY <2>1 DEF CalmInv
    <2>3. calm' = calm
      BY <1>2, <2>1 DEF Basis, EventTypes
    <2>4. ASSUME NEW p \in Pages, Switch!Press(p) \/ Switch!Follow(p) PROVE Switch!Next
      BY <2>1, <2>4 DEF Switch!Next
    <2>5. Notify => UNCHANGED <<Wanted, shows>>
      BY DEF Notify, page, switch, Wanted, Told
    <2>6. \/ \E p \in Pages : Press(p) /\ AtRest
          \/ \E c \in Pages : Deliver(c)
          \/ \E r \in Presses : Decide(r) \/ (Act(r) /\ mic' = (toggle[r].pc = "start"))
                                \/ ReadBack(r) \/ Tell(r) \/ Answer(r)
          \/ Notify \/ Unheard
      BY <2>1, <2>2, CalmSteps DEF Basis
    <2>7. CASE \E p \in Pages : Press(p) /\ AtRest
      BY <2>2, <2>4, <2>7, PressFlips
    <2>8. CASE \E c \in Pages : Deliver(c)
      BY <2>2, <2>3, <2>4, <2>8, DeliverFollows
    <2>9. CASE \E r \in Presses : Decide(r) \/ (Act(r) /\ mic' = (toggle[r].pc = "start"))
                                  \/ ReadBack(r) \/ Tell(r)
      BY <2>2, <2>3, <2>9, TurnIsWanted
    <2>10. CASE \E r \in Presses : Answer(r)
      BY <2>2, <2>3, <2>4, <2>10, AnswerFollows
    <2>11. CASE Notify
      BY <2>3, <2>5, <2>11
    <2>12. CASE Unheard
      BY <2>3, <2>12 DEF Unheard, page, Wanted
    <2> QED BY <2>6, <2>7, <2>8, <2>9, <2>10, <2>11, <2>12
  <1> QED BY <1>1, <1>2, <1>3, EventsStart, PTL DEF EventsSpec, PagesShareASwitch, Switch!Spec
=============================================================================
