---------------------------- MODULE SensesProofs ----------------------------
(***************************************************************************)
(* Theorems about the senses.                                              *)
(*                                                                         *)
(* HandControl, for every set of hands, poses and tool threads, every      *)
(* threshold and every budget of events: what a frame does to windows and  *)
(* cursor, and how many gesture processes there are.  None of the parts of *)
(* GesturesAreSafe is inductive, because each looks at one moment of the   *)
(* loop and the next step leaves the last one's marks behind.  The         *)
(* invariant says for every moment which marks those can be (AtRest,       *)
(* Drives), which reference goes with the mode (Referred), which pose of   *)
(* the newest frame the cursor followed (Followed), what an armed pointer  *)
(* owes to the fingers (Rejoined), and that whoever is about to start a    *)
(* process saw none and is alone (Alone).                                  *)
(*                                                                         *)
(* VoiceGate, for every number of sentences, of interrupts and of timers,  *)
(* and every set of threads that interrupt.  A microphone that is          *)
(* suspended is never left to itself.  SomebodyResumes is not inductive: a *)
(* thread at "arm" counts as somebody, but start() raises when the timer   *)
(* in the field is not its own any more.  The invariant therefore looks at *)
(* that timer.  When it can still be armed, whoever is at "arm" arms it;   *)
(* when it cannot, somebody who is not at "arm" will bring another         *)
(* (Flagged, Deafened).                                                    *)
(*                                                                         *)
(* Microphone, for every number of requests, of words and of results,      *)
(* every order in which stop(), start(), a suspension and two swaps of the *)
(* request may overlap, and every loudness.  The tap appends to whatever   *)
(* request is published, so both theorems rest on what the threads hold    *)
(* between the steps of a swap: Unborn is about the request a thread has   *)
(* made and not published yet, Retired about the one it has replaced and   *)
(* not cancelled yet.                                                      *)
(***************************************************************************)
EXTENDS HandControl, VoiceGate, Microphone, FiniteSetTheorems, TLAPS

-----------------------------------------------------------------------------
(* Hand gestures. *)

Modes == {"IDLE", "MOVING", "RESIZING"}
Steered == did \cap {"cursor", "click"} # {}

LoopTypes ==
  /\ mode \in Modes
  /\ session \in {"run", "step", "grab", "point", "dead"}
  /\ did \subseteq {"release", "MOVING", "RESIZING", "cursor", "click"}
  /\ ref = [kind |-> ref.kind, hand |-> ref.hand]
  /\ pointer = [sub |-> pointer.sub, armed |-> pointer.armed,
                streak |-> pointer.streak, cooled |-> pointer.cooled]
  /\ pointer.sub \in {"together", "spread"}
  /\ {pointer.armed, pointer.cooled, reunited} \subseteq BOOLEAN

\* What the windows' step leaves behind for the cursor's: no cursor yet, and a
\* window driven only while its gesture is in force.
AtRest ==
  /\ session \in {"grab", "point", "dead"} => ~Steered
  /\ session = "point" /\ mode = "IDLE" => did \cap {"MOVING", "RESIZING"} = {}
  /\ session = "grab" => did = {}

\* A frame that did something to the cursor did nothing to a window, and found
\* no window gesture in force.
Drives == OneThingAtATime

\* The reference of a mode in force, once its grab has succeeded.
Referred == GripMatches

\* The cursor followed a hand of the frame the loop still has, with two
\* fingers out and not pinching.
Followed ==
  session = "run" /\ Steered => \E h \in Hands : Reads(FrontOrSide, h) = "two"

\* A pointer that can click, or may become able to inside the band, has seen
\* the fingers together.
Rejoined == pointer.armed \/ pointer.sub = "together" => reunited

\* While no two calls overlapped, a thread that is about to start a process
\* is the only one, there is no process, and there is never more than one.
Alone ==
  ~overlapped =>
    /\ \A c, d \in ToolThreads : call[c].at = "spawn" /\ call[d].at = "spawn" => c = d
    /\ \A c \in ToolThreads : call[c].at = "spawn" => procs = {}
    /\ \A p, q \in procs : p = q

CallTypes == call = [c \in ToolThreads |-> call[c]] /\ overlapped \in BOOLEAN

GestureInv == LoopTypes /\ AtRest /\ Drives /\ Referred /\ Followed /\ Rejoined
ToolInv == CallTypes /\ Alone

HandInv == GestureInv /\ ToolInv

-----------------------------------------------------------------------------
(* What the operators of the model return.                                 *)

\* A pinching hand is not read as two fingers.
LEMMA TwoIsNoPinch ==
  ASSUME NEW v, NEW h, Reads(v, h) = "two"
  PROVE  Sees(v, h) /\ ~frame[v][h].pinching
  BY DEF Reads, Classify

\* The gestures ask for one of the modes.
LEMMA DesiredIsMode == ASSUME NEW gs PROVE Desired(gs) \in Modes
  BY DEF Desired, Modes

\* Inside the band the pointer keeps what it had decided.
LEMMA SubstateKinds ==
  ASSUME NEW p, pointer.sub \in {"together", "spread"}
  PROVE  /\ Substate(p) \in {"together", "spread"}
         /\ Substate(p) = "together" => p.spread = "joined" \/ pointer.sub = "together"
  BY DEF Substate

\* A set without two different members has at most one.
LEMMA NoTwo ==
  ASSUME NEW S, \A p, q \in S : p = q
  PROVE  Cardinality(S) <= 1
  <1>1. CASE S = {}
    BY <1>1, FS_EmptySet
  <1>2. CASE S # {}
    <2>1. PICK p \in S : TRUE
      BY <1>2
    <2>2. S = {p}
      BY <2>1
    <2>3. Cardinality({p}) = 1
      BY FS_Singleton
    <2> QED BY <2>2, <2>3
  <1> QED BY <1>1, <1>2

-----------------------------------------------------------------------------
(* The loop: every step but those of the tools.                            *)

\* Before the first frame nothing was done, and nothing is in force.
THEOREM InitHand == HandInit => HandInv
  <1> SUFFICES ASSUME HandInit PROVE HandInv
    OBVIOUS
  <1>1. LoopTypes /\ AtRest /\ Drives /\ Referred /\ Followed /\ Rejoined
    BY DEF HandInit, LoopTypes, AtRest, Drives, Referred, Followed, Rejoined, Steered, Modes,
           OneThingAtATime, GripMatches
  <1>2. CallTypes /\ Alone
    BY DEF HandInit, CallTypes, Alone, NoCall
  <1> QED BY <1>1, <1>2 DEF HandInv, GestureInv, ToolInv

\* A frame is read: the marks of the last one stay until the windows are stepped.
LEMMA ReadFrameStep == ASSUME GestureInv, ReadFrame PROVE GestureInv'
  <1> USE DEF GestureInv, ReadFrame
  <1>1. LoopTypes' /\ AtRest' /\ Drives' /\ Rejoined'
    BY DEF LoopTypes, AtRest, Drives, Rejoined, Steered, OneThingAtATime
  <1>2. Referred' /\ Followed'
    BY DEF Referred, GripMatches, Followed
  <1> QED BY <1>1, <1>2

\* The windows are stepped: a mode in force keeps its reference, a mode that
\* changes has none until its grab, and one that ends needs none.
LEMMA StepStep == ASSUME GestureInv, Step PROVE GestureInv'
  <1> DEFINE d == Desired(Fuse)
  <1>0. d \in Modes
    BY DesiredIsMode
  <1>1. /\ session = "step" /\ UNCHANGED <<pointer, reunited>>
        /\ Change(d) \/ Continue(d)
    BY DEF Step
  <1> HIDE DEF d
  <1>2. CASE Change(d)
    <2>1. /\ mode' \in {d, "IDLE"} /\ session' \in {"point", "grab"}
          /\ session' = "point" => mode' = "IDLE"
          /\ did' \in {{}, {"release"}} /\ (session' = "grab" => did' = {})
          /\ ref' = ref
      BY <1>2 DEF Change, BeginFails
    <2>2. ~Steered'
      BY <2>1 DEF Steered
    <2>3. LoopTypes'
      BY <1>0, <1>1, <2>1 DEF LoopTypes, GestureInv, Modes
    <2>4. AtRest' /\ Drives' /\ Followed'
      BY <2>1, <2>2 DEF AtRest, Drives, OneThingAtATime, Followed, Steered
    <2>5. Referred' /\ Rejoined'
      BY <1>1, <2>1 DEF Referred, GripMatches, Rejoined, GestureInv
    <2> QED BY <2>3, <2>4, <2>5 DEF GestureInv
  <1>3. CASE Continue(d)
    <2>1. PICK h : ref' = [ref EXCEPT !.hand = h]
      BY <1>3 DEF Continue
    <2>2. /\ mode' = mode /\ session' = "point" /\ did' \in {{}, {mode}}
          /\ did' # {} => mode # "IDLE"
      BY <1>3 DEF Continue
    <2>3. ref' = [kind |-> ref.kind, hand |-> h]
      BY <2>1 DEF LoopTypes, GestureInv
    <2>4. ref'.kind = ref.kind /\ ref'.hand = h
      BY <2>3
    <2>5. ~Steered'
      BY <2>2 DEF Steered, LoopTypes, GestureInv, Modes
    <2>6. LoopTypes'
      BY <1>1, <2>2, <2>3, <2>4 DEF LoopTypes, GestureInv, Modes
    <2>7. AtRest' /\ Drives' /\ Followed'
      BY <2>2, <2>5 DEF AtRest, Drives, OneThingAtATime, Followed, Steered
    <2>8. Referred' /\ Rejoined'
      BY <1>1, <2>2, <2>4 DEF Referred, GripMatches, Rejoined, GestureInv
    <2> QED BY <2>6, <2>7, <2>8 DEF GestureInv
  <1> QED BY <1>1, <1>2, <1>3

\* The grab writes the reference of its own mode, or the loop ends.
LEMMA GrabStep == ASSUME GestureInv, Grab PROVE GestureInv'
  <1>1. UNCHANGED <<mode, pointer, did, reunited, frame, views>> /\ session = "grab"
    BY DEF Grab
  <1>2. ~Steered /\ ~Steered'
    BY <1>1 DEF GestureInv, AtRest, Steered
  <1>3. \/ session' = "dead" /\ ref' = ref
        \/ session' = "point" /\ \E h : ref' = [kind |-> mode, hand |-> h]
    BY DEF Grab
  <1>4. LoopTypes' /\ Referred'
    BY <1>1, <1>3 DEF GestureInv, LoopTypes, Referred, GripMatches
  <1>5. did = {}
    BY <1>1 DEF GestureInv, AtRest
  <1>6. AtRest' /\ Drives' /\ Followed' /\ Rejoined'
    BY <1>1, <1>2, <1>5 DEF GestureInv, AtRest, Drives, OneThingAtATime, Followed, Rejoined, Steered
  <1> QED BY <1>4, <1>6 DEF GestureInv

\* Whatever the pointer does, it follows two fingers and clicks only when armed.
LEMMA SteerFacts ==
  ASSUME LoopTypes, Rejoined, NEW p, Steer(p)
  PROVE  /\ pointer' = [sub |-> pointer'.sub, armed |-> pointer'.armed,
                        streak |-> pointer'.streak, cooled |-> pointer'.cooled]
         /\ pointer'.sub \in {"together", "spread"}
         /\ {pointer'.armed, pointer'.cooled, reunited'} \subseteq BOOLEAN
         /\ did' \in {did, did \cup {"click"}, did \cup {"cursor"}}
         /\ "click" \in did' /\ "click" \notin did => reunited
         /\ Rejoined'
  <1> DEFINE sub == Substate(p)
             streak == Min({pointer.streak + 1, ConfirmFrames})
             click == sub = "spread" /\ pointer.armed /\ pointer.cooled
  <1>0. /\ sub \in {"together", "spread"}
        /\ sub = "together" => p.spread = "joined" \/ pointer.sub = "together"
    BY SubstateKinds DEF LoopTypes
  <1>1. CASE streak < ConfirmFrames
    <2>1. pointer' = [pointer EXCEPT !.streak = streak] /\ UNCHANGED <<did, reunited>>
      BY <1>1 DEF Steer
    <2> HIDE DEF streak
    <2>2. pointer' = [sub |-> pointer.sub, armed |-> pointer.armed,
                      streak |-> streak, cooled |-> pointer.cooled]
      BY <2>1 DEF LoopTypes
    <2> QED BY <2>1, <2>2 DEF LoopTypes, Rejoined
  <1>2. CASE ~(streak < ConfirmFrames)
    <2>1. /\ pointer' = [sub |-> sub, streak |-> streak,
                         armed |-> ~click /\ (sub = "together" \/ pointer.armed),
                         cooled |-> pointer.cooled /\ ~click]
          /\ did' = did \cup (IF click THEN {"click"}
                              ELSE IF sub = "together" THEN {"cursor"} ELSE {})
          /\ reunited' = (~click /\ (reunited \/ p.spread = "joined"))
      BY <1>2 DEF Steer
    <2> HIDE DEF streak, sub
    <2>2. /\ pointer'.sub = sub
          /\ pointer'.armed = (~click /\ (sub = "together" \/ pointer.armed))
          /\ pointer'.cooled = (pointer.cooled /\ ~click)
          /\ pointer'.streak = streak
      BY <2>1
    <2>3. Rejoined'
      BY <1>0, <2>1, <2>2 DEF Rejoined
    <2>4. did' \in {did, did \cup {"click"}, did \cup {"cursor"}}
      BY <2>1
    <2>5. "click" \in did' /\ "click" \notin did => reunited
      BY <2>1 DEF Rejoined
    <2> QED BY <1>0, <2>1, <2>2, <2>3, <2>4, <2>5
  <1> QED BY <1>1, <1>2

\* The cursor: with a window gesture in force, or no two fingers, nothing.
LEMMA StepPointerStep == ASSUME GestureInv, StepPointer PROVE GestureInv'
  <1>1. /\ session = "point" /\ session' = "run" /\ ~Steered
        /\ UNCHANGED <<views, frame, mode, ref, window, grip>>
    BY DEF StepPointer, GestureInv, AtRest
  <1>2. Referred'
    BY <1>1 DEF GestureInv, Referred, GripMatches
  <1>3. CASE GestureInForce \/ TwoPoses = {}
    <2>1. pointer' = [pointer EXCEPT !.streak = 0] /\ UNCHANGED <<did, reunited>>
      BY <1>3 DEF StepPointer, Lost
    <2>2. pointer' = [sub |-> pointer.sub, armed |-> pointer.armed,
                      streak |-> 0, cooled |-> pointer.cooled]
      BY <2>1 DEF GestureInv, LoopTypes
    <2>3. LoopTypes' /\ Rejoined'
      BY <1>1, <2>1, <2>2 DEF GestureInv, LoopTypes, Rejoined
    <2>4. ~Steered'
      BY <1>1, <2>1 DEF Steered
    <2>5. AtRest' /\ Drives' /\ Followed'
      BY <1>1, <2>4 DEF AtRest, Drives, OneThingAtATime, Followed, Steered
    <2> QED BY <1>2, <2>3, <2>5 DEF GestureInv
  <1>4. CASE ~(GestureInForce \/ TwoPoses = {})
    <2>1. PICK p \in TwoPoses : Steer(p)
      BY <1>4 DEF StepPointer
    <2>2. mode = "IDLE" /\ \E h \in Hands : Reads(FrontOrSide, h) = "two"
      BY <1>4, <2>1 DEF GestureInForce, TwoPoses
    <2>3. LoopTypes /\ Rejoined
      BY DEF GestureInv
    <2>4. LoopTypes' /\ Rejoined'
      BY <1>1, <2>1, <2>3, SteerFacts DEF LoopTypes
    <2>5. did \cap {"MOVING", "RESIZING"} = {} => did' \cap {"MOVING", "RESIZING"} = {}
      BY <2>1, <2>3, SteerFacts
    <2>6. Followed' /\ AtRest'
      BY <1>1, <2>2 DEF Followed, AtRest, Reads, Sees, FrontOrSide
    <2>7. Drives'
      BY <1>1, <2>2, <2>5 DEF Drives, OneThingAtATime, GestureInv, AtRest
    <2> QED BY <1>2, <2>4, <2>6, <2>7 DEF GestureInv
  <1> QED BY <1>3, <1>4

\* A click's cooldown ends.
LEMMA CoolStep == ASSUME GestureInv, Cool PROVE GestureInv'
  <1>1. /\ pointer' = [pointer EXCEPT !.cooled = TRUE]
        /\ UNCHANGED <<views, frame, mode, ref, session, did, reunited>>
    BY DEF Cool
  <1>2. pointer' = [sub |-> pointer.sub, armed |-> pointer.armed,
                    streak |-> pointer.streak, cooled |-> TRUE]
    BY <1>1 DEF GestureInv, LoopTypes
  <1>3. LoopTypes' /\ Rejoined'
    BY <1>1, <1>2 DEF GestureInv, LoopTypes, Rejoined
  <1>4. AtRest' /\ Drives' /\ Referred'
    BY <1>1 DEF GestureInv, AtRest, Drives, OneThingAtATime, Referred, GripMatches, Steered
  <1>5. Followed'
    BY <1>1 DEF GestureInv, Followed, Steered, Reads, Sees, FrontOrSide
  <1> QED BY <1>3, <1>4, <1>5 DEF GestureInv

\* Windows, cameras and tools: none of them touches what the loop remembers.
LEMMA GesturesKeep ==
  ASSUME GestureInv, UNCHANGED <<views, frame, mode, ref, session, pointer, did, reunited>>
  PROVE  GestureInv'
  <1>1. LoopTypes' /\ Rejoined' /\ AtRest' /\ Drives' /\ Referred'
    BY DEF GestureInv, LoopTypes, Rejoined, AtRest, Drives, OneThingAtATime, Referred,
           GripMatches, Steered
  <1>2. Followed'
    BY DEF GestureInv, Followed, Steered, Reads, Sees, FrontOrSide
  <1> QED BY <1>1, <1>2 DEF GestureInv

-----------------------------------------------------------------------------
(* The tools.                                                              *)

LEMMA ToolsKeep == ASSUME ToolInv, UNCHANGED tools PROVE ToolInv'
  BY DEF ToolInv, tools, CallTypes, Alone

\* A thread that goes on, but not to start a process.
LEMMA CallMoves ==
  ASSUME CallTypes, NEW c \in ToolThreads, NEW at, NEW pid, Set(c, at, pid)
  PROVE  /\ call' = [d \in ToolThreads |-> call'[d]]
         /\ call'[c].at = at
         /\ \A d \in ToolThreads \ {c} : call'[d] = call[d]
  BY DEF CallTypes, Set

\* The check that finds a process starts none; the one that finds none is the
\* only one between check and start, or it counts as overlapping.
LEMMA EnableStep == ASSUME ToolInv, NEW c \in ToolThreads, Enable(c) PROVE ToolInv'
  <1>1. /\ procs' = procs
        /\ overlapped' = (overlapped \/ \E d \in ToolThreads \ {c} : procs = {} /\ call[d].at = "spawn")
        /\ IF procs = {} THEN Set(c, "spawn", 0) ELSE UNCHANGED call
    BY DEF Enable, Running
  <1>2. CASE procs = {}
    <2>1. Set(c, "spawn", 0)
      BY <1>1, <1>2
    <2>2. CallTypes'
      BY <1>1, <2>1, CallMoves DEF ToolInv, CallTypes
    <2>3. ~overlapped' => ~overlapped /\ \A d \in ToolThreads \ {c} : call'[d].at # "spawn"
      BY <1>1, <1>2, <2>1, CallMoves DEF ToolInv
    <2>4. Alone'
      BY <1>1, <1>2, <2>3 DEF Alone
    <2> QED BY <2>2, <2>4 DEF ToolInv
  <1>3. CASE procs # {}
    BY <1>1, <1>3 DEF ToolInv, CallTypes, Alone
  <1> QED BY <1>2, <1>3

\* A process is started: it is the only one, and nobody is about to start another.
LEMMA SpawnStep == ASSUME ToolInv, NEW c \in ToolThreads, Spawn(c) PROVE ToolInv'
  <1>1. PICK pid : /\ procs' = procs \cup {[pid |-> pid, state |-> "starting"]}
                   /\ Set(c, "watch", pid)
                   /\ overlapped' = overlapped /\ call[c].at = "spawn"
    BY DEF Spawn
  <1>2. CallTypes' /\ call'[c].at = "watch" /\ \A d \in ToolThreads \ {c} : call'[d] = call[d]
    BY <1>1, CallMoves DEF ToolInv, CallTypes
  <1>3. CASE ~overlapped
    <2>1. procs = {} /\ \A d \in ToolThreads \ {c} : call[d].at # "spawn"
      BY <1>1, <1>3 DEF ToolInv, Alone
    <2>2. \A d \in ToolThreads : call'[d].at # "spawn"
      BY <1>2, <2>1
    <2>3. \A p, q \in procs' : p = q
      BY <1>1, <2>1
    <2> QED BY <1>2, <2>2, <2>3 DEF ToolInv, Alone
  <1> QED BY <1>1, <1>2, <1>3 DEF ToolInv, Alone

\* A call returns or starts to wait: nobody new is about to start a process,
\* and there are no more of them.
LEMMA CallEnds ==
  ASSUME ToolInv, NEW c \in ToolThreads, NEW at, NEW pid, Set(c, at, pid), at # "spawn",
         overlapped' = overlapped, procs = {} => procs' = {},
         (\A p, q \in procs : p = q) => (\A p, q \in procs' : p = q)
  PROVE  ToolInv'
  <1>1. CallTypes' /\ call'[c].at = at /\ \A d \in ToolThreads \ {c} : call'[d] = call[d]
    BY CallMoves DEF ToolInv, CallTypes
  <1>2. \A d \in ToolThreads : call'[d].at = "spawn" => call[d].at = "spawn"
    BY <1>1
  <1>3. Alone'
    BY <1>2 DEF ToolInv, Alone
  <1> QED BY <1>1, <1>3 DEF ToolInv

LEMMA DisableStep == ASSUME ToolInv, NEW c \in ToolThreads, Disable(c) PROVE ToolInv'
  <1>1. CASE procs = {}
    BY <1>1, ToolsKeep DEF Disable, Running, tools
  <1>2. CASE procs # {}
    <2>1. /\ procs' = {[p EXCEPT !.state = "ending"] : p \in procs}
          /\ Set(c, "wait", 0) /\ overlapped' = overlapped
      BY <1>2 DEF Disable, Running
    <2>2. (\A p, q \in procs : p = q) => (\A p, q \in procs' : p = q)
      BY <2>1
    <2> QED BY <1>2, <2>1, <2>2, CallEnds
  <1> QED BY <1>1, <1>2

\* A process comes up or goes: there are no more of them.
LEMMA ProcessStep == ASSUME ToolInv, NEW p \in procs, ProcessMoves(p) PROVE ToolInv'
  <1>1. /\ UNCHANGED <<call, overlapped>>
        /\ \/ procs' = procs \ {p}
           \/ \E q : procs' = (procs \ {p}) \cup {q}
    BY DEF ProcessMoves
  <1>2. procs # {} /\ ((\A q, r \in procs : q = r) => (\A q, r \in procs' : q = r))
    BY <1>1
  <1> QED BY <1>1, <1>2 DEF ToolInv, CallTypes, Alone

-----------------------------------------------------------------------------
(* The theorems.                                                           *)

\* Every step of the loop, of the desktop and of the tools keeps the invariant.
LEMMA NextStep == ASSUME HandInv, [HandNext]_handVars PROVE HandInv'
  <1>0. GestureInv /\ ToolInv
    BY DEF HandInv
  <1>1. CASE ReadFrame
    BY <1>0, <1>1, ReadFrameStep, ToolsKeep DEF ReadFrame, HandInv
  <1>2. CASE Step
    BY <1>0, <1>2, StepStep, ToolsKeep DEF Step, HandInv
  <1>3. CASE Grab
    BY <1>0, <1>3, GrabStep, ToolsKeep DEF Grab, HandInv
  <1>4. CASE StepPointer
    BY <1>0, <1>4, StepPointerStep, ToolsKeep DEF StepPointer, HandInv
  <1>5. CASE Cool
    BY <1>0, <1>5, CoolStep, ToolsKeep DEF Cool, HandInv
  <1>6. CASE WindowCloses
    BY <1>0, <1>6, GesturesKeep, ToolsKeep DEF WindowCloses, HandInv
  <1>7. CASE WindowOpens
    BY <1>0, <1>7, GesturesKeep, ToolsKeep DEF WindowOpens, HandInv
  <1>8. ASSUME NEW v \in Views, CameraFreezes(v) PROVE HandInv'
    BY <1>0, <1>8, GesturesKeep, ToolsKeep DEF CameraFreezes, windows, HandInv
  <1>9. ASSUME UNCHANGED gestures PROVE GestureInv'
    BY <1>0, <1>9, GesturesKeep DEF gestures, windows
  <1>10. ASSUME NEW c \in ToolThreads, Enable(c) \/ Spawn(c) \/ Watched(c) \/ Disable(c) \/ Waited(c)
         PROVE  HandInv'
    <2>1. UNCHANGED gestures
      BY <1>10 DEF Enable, Spawn, Watched, Disable, Waited
    <2>2. ASSUME Watched(c) \/ Waited(c) PROVE ToolInv'
      BY <1>0, <2>2, CallEnds DEF Watched, Waited
    <2>3. ToolInv'
      BY <1>0, <1>10, <2>2, EnableStep, SpawnStep, DisableStep
    <2> QED BY <1>9, <2>1, <2>3 DEF HandInv
  <1>11. ASSUME NEW p \in procs, ProcessMoves(p) PROVE HandInv'
    <2>1. UNCHANGED gestures
      BY <1>11 DEF ProcessMoves
    <2> QED BY <1>0, <1>9, <1>11, <2>1, ProcessStep DEF HandInv
  <1>12. CASE UNCHANGED handVars
    BY <1>0, <1>12, GesturesKeep, ToolsKeep DEF handVars, tools, HandInv
  <1> QED BY <1>1, <1>2, <1>3, <1>4, <1>5, <1>6, <1>7, <1>8, <1>10, <1>11, <1>12 DEF HandNext

THEOREM HandInvariance == HandSpec => []HandInv
  BY InitHand, NextStep, PTL DEF HandSpec

\* The invariant says all that GesturesAreSafe does.
LEMMA Safe == HandInv => GesturesAreSafe
  <1> SUFFICES ASSUME HandInv PROVE GesturesAreSafe
    OBVIOUS
  <1>1. GripMatches /\ OneThingAtATime
    BY DEF HandInv, GestureInv, Referred, Drives
  <1>2. PinchNeverSteers
    BY TwoIsNoPinch DEF HandInv, GestureInv, Followed, Steered, PinchNeverSteers
  <1>3. OneProcess
    BY NoTwo DEF HandInv, ToolInv, Alone, OneProcess
  <1> QED BY <1>1, <1>2, <1>3 DEF GesturesAreSafe

\* Whatever the hands, the windows, the cameras and the tools do: a gesture
\* continues from its own grab, a frame drives window or cursor and never both,
\* no cursor follows a pinch, and one gesture process runs unless two calls of
\* enable looked for one at the same time (session.py, pointer.py, camera.py).
THEOREM SafeGestures == HandSpec => []GesturesAreSafe
  BY HandInvariance, Safe, PTL

\* Only the cursor's step clicks, and only when the pointer was armed.
LEMMA ClickStep ==
  ASSUME HandInv, [HandNext]_handVars, "click" \in did', "click" \notin did
  PROVE  reunited
  <1>0. LoopTypes /\ Rejoined
    BY DEF HandInv, GestureInv
  <1>1. CASE StepPointer
    <2>1. \E p \in TwoPoses : Steer(p)
      BY <1>1 DEF StepPointer, Lost
    <2> QED BY <1>0, <2>1, SteerFacts
  <1>2. CASE Step
    <2>1. DEFINE d == Desired(Fuse)
    <2>2. Change(d) \/ Continue(d)
      BY <1>2 DEF Step
    <2> HIDE DEF d
    <2>3. did' \in {{}, {"release"}, {mode}}
      BY <2>2 DEF Change, Continue
    <2> QED BY <1>0, <2>3 DEF LoopTypes, Modes
  <1>3. CASE ~StepPointer /\ ~Step
    <2>1. did' = did
      BY <1>3 DEF HandNext, handVars, ReadFrame, Grab, Cool, WindowCloses, WindowOpens, CameraFreezes,
                  gestures, Enable, Spawn, Watched, Disable, Waited, ProcessMoves
    <2> QED BY <2>1
  <1> QED BY <1>1, <1>2, <1>3

\* Between two clicks the fingers were seen together, however many frames,
\* dropouts and other poses came in between (pointer.py:70-75, 103-109).
THEOREM OneClickPerSpread == HandSpec => ClicksNeedReunion
  <1>1. HandInv /\ [HandNext]_handVars => [("click" \in did' /\ "click" \notin did) => reunited]_handVars
    BY ClickStep
  <1> QED BY <1>1, HandInvariance, PTL DEF HandSpec, ClicksNeedReunion

-----------------------------------------------------------------------------
(* The gate. *)

FeederPcs == {"idle", "check", "deafen", "cancel", "watch", "arm", "speak"}
CallerPcs == {"idle", "stop", "cancel", "resume", "arm"}
TimerPcs == {"free", "new", "void", "armed", "ask", "watch", "arm", "unflag", "open"}
Pcs == FeederPcs \cup CallerPcs \cup TimerPcs

PcTypes ==
  /\ pc \in [Speakers -> Pcs]
  /\ pc[Feeder] \in FeederPcs
  /\ \A c \in Callers : pc[c] \in CallerPcs
  /\ \A t \in Timers : pc[t] \in TimerPcs
  /\ timer \in 0 .. MaxTimers

\* The timer in the field, if there is one, is in one of these steps.
FieldIn(steps) == timer # 0 /\ pc[timer] \in steps

\* Somebody is about to bring a new timer or runs one, and is past arming it.
Coming ==
  \/ pc[Feeder] \in {"deafen", "cancel", "watch"}
  \/ \E c \in Callers : pc[c] = "resume"
  \/ \E t \in Timers : pc[t] \in {"armed", "ask", "watch", "unflag"}

\* A flag is left set only if the timer in the field is alive and has not
\* cleared it yet, or another is coming.
Flagged == flag => FieldIn(TimerPcs \ {"free", "void", "open"}) \/ Coming

\* The recogniser is left suspended only if a timer is alive that is still to
\* open it, or another is coming.
Deafened ==
  deaf => \/ FieldIn(TimerPcs \ {"free", "void"}) \/ Coming
          \/ \E t \in Timers : pc[t] = "open"

\* A timer that was assigned and not started has a thread about to start it.
NewIsArmed == FieldIn({"new"}) => \E t \in Speakers : pc[t] = "arm"

\* A timer that is arming the next one is not the one in the field.
ArmsAnother == \A t \in Timers : pc[t] = "arm" => timer # t

GateInv == PcTypes /\ Flagged /\ Deafened /\ NewIsArmed /\ ArmsAnother

-----------------------------------------------------------------------------

\* Feeder, callers and timers are different threads.
LEMMA ThreadKinds ==
  /\ MaxTimers \in Nat /\ Timers = 1 .. MaxTimers /\ Timers \subseteq Speakers
  /\ Feeder = 0 /\ Feeder \in Speakers /\ Feeder \notin Timers /\ Feeder \notin Callers
  /\ \A c \in Callers : c \in Speakers /\ c \notin Timers /\ c # 0
  /\ \A t \in Timers : t # 0 /\ t \in 0 .. MaxTimers
  BY GateAssumption DEF GateAssumption, Timers, Speakers, Feeder

USE ThreadKinds

\* Nothing is suspended, and there is no timer.
THEOREM InitGate == GateInit => GateInv
  <1> SUFFICES ASSUME GateInit PROVE GateInv
    OBVIOUS
  <1>1. PcTypes
    <2>1. pc \in [Speakers -> {"free", "idle"}] /\ timer = 0
      BY DEF GateInit
    <2>2. pc[Feeder] = "idle" /\ \A c \in Callers : pc[c] = "idle"
      BY DEF GateInit
    <2>3. pc \in [Speakers -> Pcs]
      BY <2>1 DEF Pcs, FeederPcs, TimerPcs
    <2>4. \A t \in Timers : pc[t] \in TimerPcs
      BY DEF GateInit, TimerPcs
    <2> QED BY <2>1, <2>2, <2>3, <2>4 DEF PcTypes, FeederPcs, CallerPcs
  <1>2. Flagged /\ Deafened
    BY Zenon DEF GateInit, Flagged, Deafened
  <1>3. NewIsArmed /\ ArmsAnother
    BY DEF GateInit, NewIsArmed, ArmsAnother, FieldIn
  <1> QED BY <1>1, <1>2, <1>3 DEF GateInv

\* A thread that goes on, neither into nor out of the steps that count.
LEMMA Moves ==
  ASSUME GateInv, NEW t \in Speakers, NEW p, pc' = [pc EXCEPT ![t] = p], UNCHANGED timer,
         t = Feeder => p \in FeederPcs, t \in Callers => p \in CallerPcs,
         t \in Timers => p \in TimerPcs,
         p \notin {"arm", "new"}, pc[t] # "arm"
  PROVE  PcTypes' /\ NewIsArmed' /\ ArmsAnother'
  <1>0. p \in Pcs /\ pc \in [Speakers -> Pcs]
    BY DEF Speakers, Pcs, GateInv, PcTypes
  <1>1. PcTypes'
    BY <1>0 DEF GateInv, PcTypes
  <1>2. NewIsArmed'
    BY DEF GateInv, PcTypes, NewIsArmed, FieldIn
  <1>3. ArmsAnother'
    BY DEF GateInv, PcTypes, ArmsAnother
  <1> QED BY <1>1, <1>2, <1>3

\* Assigning a timer: it is new, and the thread is about to start it.
LEMMA AssignStep ==
  ASSUME GateInv, NEW t \in Speakers, NEW b, Assign(t, b), UNCHANGED <<flag, deaf>>,
         pc[t] \in {"watch", "resume"}
  PROVE  GateInv'
  <1>1. PICK x \in Unused :
          /\ pc' = [y \in Speakers |->
                      CASE y = x -> "new"
                        [] y = t -> "arm"
                        [] y = timer /\ pc[y] \in {"new", "void"} -> "free"
                        [] OTHER -> pc[y]]
          /\ timer' = x
    BY DEF Assign
  <1>2. x \in Timers /\ pc[x] = "free" /\ x # timer /\ x # t
    BY DEF Unused
  <1>3. pc'[x] = "new" /\ pc'[t] = "arm" /\ x # 0
    BY <1>1, <1>2
  <1>4. PcTypes'
    <2>1. \A y \in Speakers : pc'[y] \in {"new", "arm", "free", pc[y]}
      BY <1>1
    <2>2. pc' \in [Speakers -> Pcs]
      BY <1>1, <2>1 DEF GateInv, PcTypes, Pcs, TimerPcs
    <2>3. pc'[Feeder] \in FeederPcs
      BY <1>1, <1>2 DEF GateInv, PcTypes, FeederPcs
    <2>4. \A c \in Callers : pc'[c] \in CallerPcs
      BY <1>1, <1>2 DEF GateInv, PcTypes, CallerPcs
    <2>5. \A y \in Timers : pc'[y] \in TimerPcs
      BY <1>1, <1>2 DEF GateInv, PcTypes, TimerPcs
    <2> QED BY <1>1, <1>2, <2>2, <2>3, <2>4, <2>5 DEF PcTypes
  <1>5. FieldIn({"new"})'
    BY <1>1, <1>3 DEF FieldIn
  <1>6. Flagged' /\ Deafened'
    BY <1>5 DEF Flagged, Deafened, FieldIn, TimerPcs
  <1>7. NewIsArmed'
    BY <1>3 DEF NewIsArmed
  <1>8. ArmsAnother'
    BY <1>1, <1>2, <1>3 DEF ArmsAnother
  <1> QED BY <1>4, <1>6, <1>7, <1>8 DEF GateInv

\* Starting the timer in the field, or raising because it cannot be started.
LEMMA ArmStep == ASSUME GateInv, NEW t \in Speakers, Arm(t) PROVE GateInv'
  <1>0. /\ pc[t] = "arm" /\ UNCHANGED <<timer, flag, deaf>>
        /\ t \in Timers => timer # t
        /\ pc \in [Speakers -> Pcs]
    BY DEF Arm, timerVars, gateVars, GateInv, ArmsAnother, PcTypes
  <1>1. timer # 0 => timer \in Timers /\ t # timer
    BY <1>0 DEF GateInv, PcTypes
  <1>2. \E p \in {"speak", "free", "idle"} :
          /\ t = Feeder => p \in FeederPcs
          /\ t \in Callers => p \in CallerPcs
          /\ t \in Timers => p \in TimerPcs
          /\ pc'[t] = p
    BY <1>0, <1>1 DEF Arm, AfterArm, AfterRaise, FeederPcs, CallerPcs, TimerPcs, Speakers
  <1>3. /\ DOMAIN pc' = Speakers /\ pc' = [y \in Speakers |-> pc'[y]]
        /\ \A y \in Speakers : y # t /\ (timer # 0 => y # timer) => pc'[y] = pc[y]
    BY <1>0 DEF Arm
  <1>4. \/ FieldIn({"new"}) /\ pc'[timer] = "armed"
        \/ FieldIn({"void"}) /\ pc'[timer] = "free"
        \/ ~FieldIn({"new", "void"}) /\ (timer # 0 => pc'[timer] = pc[timer])
    BY <1>0, <1>1 DEF Arm, FieldIn, GateInv, PcTypes
  <1>5. PcTypes'
    <2>1. timer # 0 => timer \in Timers /\ pc[timer] \in TimerPcs
      BY DEF GateInv, PcTypes
    <2>2. timer # 0 => pc'[timer] \in TimerPcs
      BY <1>4, <2>1 DEF TimerPcs
    <2>3. /\ pc'[Feeder] \in FeederPcs
          /\ \A c \in Callers : pc'[c] \in CallerPcs
          /\ \A y \in Timers : pc'[y] \in TimerPcs
      <3>1. pc'[Feeder] \in FeederPcs
        BY <1>2, <1>3, <2>1 DEF GateInv, PcTypes
      <3>2. ASSUME NEW c \in Callers PROVE pc'[c] \in CallerPcs
        BY <1>2, <1>3, <2>1 DEF GateInv, PcTypes
      <3>3. ASSUME NEW y \in Timers PROVE pc'[y] \in TimerPcs
        BY <1>2, <1>3, <2>1, <2>2 DEF GateInv, PcTypes
      <3> QED BY <3>1, <3>2, <3>3
    <2>4. pc' \in [Speakers -> Pcs]
      BY <1>3, <2>3 DEF Pcs, Speakers
    <2> QED BY <1>0, <2>3, <2>4 DEF GateInv, PcTypes
  <1>6. Coming => Coming'
    <2>1. pc[Feeder] \in {"deafen", "cancel", "watch"} => pc'[Feeder] = pc[Feeder]
      BY <1>0, <1>1, <1>3
    <2>2. \A c \in Callers : pc[c] = "resume" => pc'[c] = pc[c]
      BY <1>0, <1>1, <1>3
    <2>3. \A y \in Timers : pc[y] \in {"armed", "ask", "watch", "unflag"} => pc'[y] = pc[y]
      BY <1>0, <1>1, <1>3, <1>4 DEF FieldIn
    <2> QED BY <2>1, <2>2, <2>3 DEF Coming
  <1>7. /\ FieldIn(TimerPcs \ {"free", "void", "open"})
             => FieldIn(TimerPcs \ {"free", "void", "open"})'
        /\ FieldIn(TimerPcs \ {"free", "void"}) => FieldIn(TimerPcs \ {"free", "void"})'
    BY <1>0, <1>4 DEF FieldIn, TimerPcs
  <1>8. \A y \in Timers : pc[y] = "open" => pc'[y] = "open"
    BY <1>0, <1>3, <1>4 DEF FieldIn
  <1>9. Flagged' /\ Deafened'
    BY <1>0, <1>6, <1>7, <1>8 DEF GateInv, Flagged, Deafened
  <1>10. NewIsArmed'
    BY <1>0, <1>4 DEF NewIsArmed, FieldIn
  <1>11. ArmsAnother'
    BY <1>0, <1>2, <1>3, <1>4 DEF GateInv, ArmsAnother, FieldIn
  <1> QED BY <1>5, <1>9, <1>10, <1>11 DEF GateInv

\* Cancelling: whatever becomes of the timer, the thread brings another.
LEMMA CancelStep ==
  ASSUME GateInv,
         NEW t \in Speakers, NEW next, CancelTimer(t, next),
         \/ t = Feeder /\ next = "watch"
         \/ t \in Callers /\ next = "resume"
  PROVE  GateInv'
  <1>0. /\ pc[t] = "cancel" /\ UNCHANGED <<timer, flag, deaf>>
        /\ pc \in [Speakers -> Pcs] /\ t \notin Timers
        /\ timer # 0 => timer \in Timers
    BY DEF CancelTimer, timerVars, gateVars, GateInv, PcTypes
  <1>1. /\ pc'[t] = next /\ pc' = [y \in Speakers |-> pc'[y]]
        /\ \A y \in Speakers : y # t /\ (timer # 0 => y # timer) => pc'[y] = pc[y]
        /\ timer # 0 => pc'[timer] \in {pc[timer], "void", "free"}
        /\ timer # 0 => pc'[timer] # "new"
    BY <1>0 DEF CancelTimer, GateInv, PcTypes, Feeder
  <1>2. Coming'
    BY <1>0, <1>1 DEF Coming
  <1>3. PcTypes'
    <2>1. timer # 0 => timer \in Timers /\ pc[timer] \in TimerPcs
      BY DEF GateInv, PcTypes
    <2>2. /\ pc'[Feeder] \in FeederPcs
          /\ \A c \in Callers : pc'[c] \in CallerPcs
          /\ \A y \in Timers : pc'[y] \in TimerPcs
      <3>1. pc'[Feeder] \in FeederPcs
        BY <1>1, <2>1 DEF GateInv, PcTypes, FeederPcs
      <3>2. ASSUME NEW c \in Callers PROVE pc'[c] \in CallerPcs
        BY <1>1, <2>1 DEF GateInv, PcTypes, CallerPcs
      <3>3. ASSUME NEW y \in Timers PROVE pc'[y] \in TimerPcs
        BY <1>0, <1>1, <2>1 DEF GateInv, PcTypes, TimerPcs
      <3> QED BY <3>1, <3>2, <3>3
    <2>3. pc' \in [Speakers -> Pcs]
      BY <1>1, <2>2 DEF Pcs, Speakers
    <2> QED BY <1>0, <2>2, <2>3 DEF GateInv, PcTypes
  <1>4. Flagged' /\ Deafened'
    BY <1>2 DEF Flagged, Deafened
  <1>5. NewIsArmed'
    BY <1>0, <1>1 DEF NewIsArmed, FieldIn
  <1>6. ArmsAnother'
    BY <1>0, <1>1 DEF GateInv, ArmsAnother, PcTypes
  <1> QED BY <1>3, <1>4, <1>5, <1>6 DEF GateInv

-----------------------------------------------------------------------------

\* The steps of a timer's function.
LEMMA TimerInv == ASSUME GateInv, NEW t \in Timers, TimerStep(t) PROVE GateInv'
  <1> USE DEF timerVars, gateVars, Goto, FeederPcs, CallerPcs, TimerPcs
  <1>0. t \in Speakers /\ t # Feeder /\ t \notin Callers /\ pc \in [Speakers -> Pcs]
        /\ timer \in 0 .. MaxTimers
    BY DEF GateInv, PcTypes
  <1>1. CASE Fire(t) \/ Ask(t)
    <2>1. /\ UNCHANGED <<timer, flag, deaf>> /\ pc[t] \in {"armed", "ask"}
          /\ \E p \in {"ask", "watch", "unflag"} : pc' = [pc EXCEPT ![t] = p]
      BY <1>1 DEF Fire, Ask
    <2>2. PICK p \in {"ask", "watch", "unflag"} : pc' = [pc EXCEPT ![t] = p]
      BY <2>1
    <2>3. PcTypes' /\ NewIsArmed' /\ ArmsAnother'
      BY <1>0, <2>1, <2>2, Moves
    <2>4. Coming'
      BY <1>0, <2>2 DEF Coming
    <2> QED BY <2>3, <2>4 DEF GateInv, Flagged, Deafened
  <1>2. CASE Watch(t)
    BY <1>0, <1>2, AssignStep DEF Watch
  <1>3. CASE Arm(t)
    BY <1>0, <1>3, ArmStep
  <1>4. CASE Unflag(t)
    <2>1. PICK p \in {"open"} :
            /\ UNCHANGED <<timer, deaf>> /\ flag' = FALSE /\ pc[t] = "unflag"
            /\ pc' = [pc EXCEPT ![t] = p]
      BY <1>4 DEF Unflag
    <2>2. PcTypes' /\ NewIsArmed' /\ ArmsAnother'
      BY <1>0, <2>1, Moves
    <2>3. Flagged' /\ Deafened'
      BY <1>0, <2>1 DEF Flagged, Deafened
    <2> QED BY <2>2, <2>3 DEF GateInv
  <1>5. CASE Open(t)
    <2>1. PICK p \in {"free"} :
            /\ UNCHANGED <<timer, flag>> /\ deaf' = FALSE /\ pc[t] = "open"
            /\ pc' = [pc EXCEPT ![t] = p]
      BY <1>5 DEF Open
    <2>2. PcTypes' /\ NewIsArmed' /\ ArmsAnother'
      BY <1>0, <2>1, Moves
    <2>3. Coming => Coming'
      BY <1>0, <2>1 DEF Coming
    <2>4. FieldIn(TimerPcs \ {"free", "void", "open"})
            => FieldIn(TimerPcs \ {"free", "void", "open"})'
      BY <1>0, <2>1 DEF FieldIn
    <2>5. Flagged'
      BY <2>1, <2>3, <2>4 DEF GateInv, Flagged
    <2>6. Deafened'
      BY <2>1 DEF Deafened
    <2> QED BY <2>2, <2>5, <2>6 DEF GateInv
  <1> QED BY <1>1, <1>2, <1>3, <1>4, <1>5 DEF TimerStep

\* A step of the feeder or of a caller before it comes to the timer.
LEMMA Approaches ==
  ASSUME GateInv, NEW t \in Speakers, t \notin Timers, NEW p, pc' = [pc EXCEPT ![t] = p],
         UNCHANGED timer,
         t = Feeder => p \in FeederPcs, t \in Callers => p \in CallerPcs,
         p \notin {"arm", "new"}, pc[t] \notin {"arm", "watch", "resume", "deafen"},
         pc[t] = "cancel" => t \in Callers,
         flag' => flag \/ (t = Feeder /\ p = "deafen"), UNCHANGED deaf
  PROVE  GateInv'
  <1>1. PcTypes' /\ NewIsArmed' /\ ArmsAnother'
    BY Moves
  <1>2. pc \in [Speakers -> Pcs] /\ timer \in 0 .. MaxTimers
    BY DEF GateInv, PcTypes
  <1>3. \A y \in Timers : pc'[y] = pc[y]
    BY <1>2
  <1>4. Coming => Coming'
    BY <1>2, <1>3 DEF Coming, Speakers
  <1>5. \A steps : FieldIn(steps) => FieldIn(steps)'
    BY <1>2, <1>3 DEF FieldIn
  <1>6. t = Feeder /\ p = "deafen" => Coming'
    BY <1>2 DEF Coming
  <1>7. Flagged'
    BY <1>4, <1>5, <1>6 DEF GateInv, Flagged
  <1>8. Deafened'
    BY <1>3, <1>4, <1>5 DEF GateInv, Deafened
  <1> QED BY <1>1, <1>7, <1>8 DEF GateInv

\* The steps of the thread that feeds a reply.
LEMMA FeedInv == ASSUME GateInv, Sentence \/ Feed PROVE GateInv'
  <1> USE DEF timerVars, gateVars, speechVars, Goto, FeederPcs
  <1>1. CASE Sentence
    <2>1. PICK p \in {"check"} : pc' = [pc EXCEPT ![Feeder] = p]
      BY <1>1 DEF Sentence
    <2> QED BY <1>1, <2>1, Approaches DEF Sentence
  <1>2. CASE SuspendInput
    <2>1. PICK p \in {"speak", "deafen"} :
            pc' = [pc EXCEPT ![Feeder] = p] /\ (~flag => p = "deafen")
      BY <1>2 DEF SuspendInput
    <2> QED BY <1>2, <2>1, Approaches DEF SuspendInput
  <1>3. CASE Deafen
    <2>1. PICK p \in {"cancel"} :
            /\ UNCHANGED <<timer, flag>> /\ pc[Feeder] = "deafen"
            /\ pc' = [pc EXCEPT ![Feeder] = p]
      BY <1>3 DEF Deafen
    <2>2. PcTypes' /\ NewIsArmed' /\ ArmsAnother'
      BY <2>1, Moves
    <2>3. Coming'
      BY <2>1 DEF Coming, GateInv, PcTypes
    <2> QED BY <2>2, <2>3 DEF GateInv, Flagged, Deafened
  <1>4. CASE CancelTimer(Feeder, "watch")
    BY <1>4, CancelStep
  <1>5. CASE Watch(Feeder)
    BY <1>5, AssignStep DEF Watch
  <1>6. CASE Arm(Feeder)
    BY <1>6, ArmStep
  <1>7. CASE Speak
    <2>1. PICK p \in {"idle"} : pc' = [pc EXCEPT ![Feeder] = p]
      BY <1>7 DEF Speak
    <2> QED BY <1>7, <2>1, Approaches DEF Speak
  <1> QED BY <1>1, <1>2, <1>3, <1>4, <1>5, <1>6, <1>7 DEF Feed

\* The steps of interrupt().
LEMMA InterruptInv == ASSUME GateInv, NEW c \in Callers, Call(c) \/ Interrupt(c) PROVE GateInv'
  <1> USE DEF timerVars, gateVars, speechVars, Goto, CallerPcs
  <1>1. CASE Call(c) \/ StopSpeech(c)
    <2>1. PICK p \in {"stop", "cancel"} :
            pc' = [pc EXCEPT ![c] = p] /\ pc[c] \in {"idle", "stop"}
      <3>1. CASE Call(c)
        BY <3>1 DEF Call
      <3>2. CASE StopSpeech(c)
        BY <3>2, Zenon DEF StopSpeech
      <3> QED BY <1>1, <3>1, <3>2
    <2>2. UNCHANGED timer /\ UNCHANGED deaf /\ (flag' => flag)
      <3>1. CASE Call(c)
        BY <3>1 DEF Call
      <3>2. CASE StopSpeech(c)
        <4>1. UNCHANGED <<timerVars, gateVars>>
          BY <3>2, Zenon DEF StopSpeech
        <4> QED BY <4>1
      <3> QED BY <1>1, <3>1, <3>2
    <2>3. c \in Speakers /\ c \notin Timers /\ c # Feeder
      OBVIOUS
    <2> QED BY <2>1, <2>2, <2>3, Approaches
  <1>2. CASE CancelTimer(c, "resume")
    BY <1>2, CancelStep
  <1>3. CASE Renew(c)
    BY <1>3, AssignStep DEF Renew
  <1>4. CASE Arm(c)
    BY <1>4, ArmStep
  <1> QED BY <1>1, <1>2, <1>3, <1>4 DEF Interrupt

\* The invariant holds in every reachable state.
THEOREM GateInvariance == GateSpec => []GateInv
  <1>1. ASSUME GateInv, [GateNext]_sessionVars PROVE GateInv'
    <2>1. CASE SpeechBegins \/ SpeechEnds \/ SynthesisFails \/ WorkerEnds \/ UNCHANGED sessionVars
      <3>1. pc' = pc /\ timer' = timer /\ flag' = flag /\ deaf' = deaf
        BY <2>1 DEF SpeechBegins, SpeechEnds, SynthesisFails, WorkerEnds, sessionVars, timerVars, gateVars
      <3> QED BY <1>1, <3>1
          DEF GateInv, PcTypes, Flagged, Deafened, NewIsArmed, ArmsAnother, FieldIn, Coming
    <2> QED BY <1>1, <2>1, FeedInv, InterruptInv, TimerInv DEF GateNext
  <1> QED BY InitGate, <1>1, PTL DEF GateSpec

\* A suspended recogniser always has somebody who is going to resume it, for any
\* number of timers that are cancelled, replaced or started by another thread.
THEOREM NobodyIsForgotten == GateSpec => []SomebodyResumes
  <1>1. ASSUME GateInv PROVE SomebodyResumes
    <2> SUFFICES ASSUME deaf \/ flag PROVE SomebodyResumes
      BY DEF SomebodyResumes
    <2>1. CASE FieldIn({"new"})
      BY <1>1, <2>1 DEF GateInv, NewIsArmed, SomebodyResumes, Speakers
    <2>2. CASE FieldIn(TimerPcs \ {"free", "void", "new"})
      BY <1>1, <2>2 DEF GateInv, PcTypes, FieldIn, TimerPcs, SomebodyResumes
    <2>3. CASE Coming \/ \E t \in Timers : pc[t] = "open"
      BY <2>3 DEF Coming, SomebodyResumes
    <2> QED BY <1>1, <2>1, <2>2, <2>3 DEF GateInv, Flagged, Deafened, FieldIn, TimerPcs
  <1> QED BY GateInvariance, <1>1, PTL

-----------------------------------------------------------------------------
(* The microphone. *)

Counters == {"words", "results", "starts", "stops", "gates", "noise"}

BudgetRecords ==
  [words : Nat, results : Nat, starts : Nat, stops : Nat, gates : Nat, noise : Nat]

Steps == {"idle", "append", "report", "create", "first", "second"}

Swaps == [pc : Steps, old : 0 .. MaxRequests, new : 0 .. MaxRequests, to : BOOLEAN]

Texts == Seq(Nat)

TypeOK ==
  /\ request \in 0 .. MaxRequests /\ created \in 0 .. MaxRequests /\ live \subseteq Requests
  /\ heard \in [Requests -> Texts] /\ pending \in Texts /\ cut \subseteq Nat
  /\ listening \in BOOLEAN /\ engine \in BOOLEAN /\ handler \in BOOLEAN
  /\ suspended \in BOOLEAN /\ stopping \in BOOLEAN /\ dirty \in BOOLEAN /\ excused \in BOOLEAN
  /\ swap \in [Threads -> Swaps]
  /\ after \in Nat /\ left \in BudgetRecords

\* A request that does not exist yet is nowhere and has heard nothing.
Numbered ==
  /\ request <= created /\ \A r \in live : r <= created
  /\ \A t \in Threads : swap[t].old <= created /\ swap[t].new <= created
  /\ \A r \in Requests : r > created => heard[r] = <<>>

\* The request a thread has made is live, is its own, and the tap has not seen it.
Unborn ==
  \A t \in Threads : swap[t].pc = "first" =>
    /\ swap[t].new \in live /\ swap[t].new # request /\ heard[swap[t].new] = <<>>
    /\ \A u \in Threads : /\ swap[u].old # swap[t].new
                          /\ swap[u].pc = "first" /\ u # t => swap[u].new # swap[t].new

\* The request a thread is about to cancel has been replaced for good.
Retired ==
  \A t \in Threads : swap[t].pc = "second" /\ request # 0 => swap[t].old # request

\* As long as there is a handler, or an utterance taken for one is still to be reported,
\* nothing has been reported since the microphone was closed.
Closed ==
  /\ engine => listening
  /\ handler => engine /\ ~ stopping
  /\ handler \/ (swap["tap"].pc = "report" /\ swap["tap"].to) => after = 0
  /\ after <= 1

\* Words are numbered downwards, so the next one is new.
NextIsNew ==
  /\ \A r \in Requests : \A w \in Range(heard[r]) : w > left["words"]
  /\ \A w \in Range(pending) \cup cut : w > left["words"]

\* No thread has begun a swap that is not visible to the tap yet.
Settled == \A t \in Threads : swap[t].pc \in {"idle", "append", "second"}

\* The words of the published request are news, once no swap is owed; what is
\* pending is news too, for a result of an older request is excused.
News ==
  ~ excused => /\ ~ dirty
               /\ handler => Range(pending) \cap cut = {}
               /\ handler /\ ~ suspended /\ Settled => Range(heard[request]) \cap cut = {}

IInv == TypeOK /\ Numbered /\ Unborn /\ Retired /\ FedIsLive /\ Closed /\ NextIsNew /\ News

-----------------------------------------------------------------------------
(* Types *)

\* The states a thread's swap is given.
LEMMA SwapStates ==
  /\ Idle \in Swaps
  /\ [Idle EXCEPT !.pc = "create"] \in Swaps
  /\ \A to \in BOOLEAN : [Idle EXCEPT !.pc = "report", !.to = to] \in Swaps
  /\ \A old \in 0 .. MaxRequests : [Idle EXCEPT !.pc = "append", !.old = old] \in Swaps
  /\ \A old, new \in 0 .. MaxRequests :
       [Idle EXCEPT !.pc = "first", !.old = old, !.new = new] \in Swaps
  <1>1. 0 \in 0 .. MaxRequests
    BY MicrophoneAssumption DEF MicrophoneAssumption
  <1>2. Idle \in Swaps
    BY <1>1 DEF Idle, Swaps, Steps
  <1> QED BY <1>2 DEF Swaps, Steps

\* The budget is never overspent, and words are numbered by what is left.
LEMMA Spending ==
  ASSUME left \in BudgetRecords, NEW what \in Counters, Spend(what)
  PROVE  /\ left' \in BudgetRecords
         /\ what # "words" => left'["words"] = left["words"]
         /\ what = "words" => left["words"] > 0 /\ left'["words"] = left["words"] - 1
  BY DEF Spend, BudgetRecords, Counters

LEMMA TypeStep ==
  ASSUME TypeOK, [Next]_vars
  PROVE  TypeOK'
  <1> USE DEF TypeOK, Requests, Threads, Counters
  <1>0. MaxRequests \in Nat /\ 0 \in 0 .. MaxRequests /\ <<>> \in Texts
    BY MicrophoneAssumption DEF MicrophoneAssumption, Texts
  <1>a. Spoken \subseteq Nat /\ Range(pending) \subseteq Nat
    BY DEF Spoken, Range, Texts
  <1>1. CASE Start
    <2>1. created' \in Requests /\ live' \subseteq Requests
      BY <1>0, <1>1 DEF Start
    <2>2. pending' \in Texts
      BY <1>0, <1>1 DEF Start
    <2>3. left' \in BudgetRecords
      BY <1>1, Spending DEF Start
    <2>4. created' \in 0 .. MaxRequests
      BY <2>1
    <2>5. CASE UNCHANGED <<listening, engine, request, handler, pending, quiet, floor, after>>
      BY <1>1, <2>1, <2>3, <2>4, <2>5 DEF Start
    <2>6. CASE listening' /\ engine' /\ request' = created' /\ handler' /\ after' = 0
      BY <1>1, <2>1, <2>2, <2>3, <2>4, <2>6 DEF Start
    <2> QED BY <1>1, <2>5, <2>6 DEF Start
  <1>2. CASE Stop
    <2>1. cut' \subseteq Nat
      BY <1>2, <1>a DEF Stop
    <2>2. left' \in BudgetRecords
      BY <1>2, Spending DEF Stop
    <2> QED BY <1>0, <1>2, <2>1, <2>2 DEF Stop, Teardown, sound
  <1>3. CASE StopFinally
    BY <1>0, <1>3 DEF StopFinally, sound, report
  <1>4. CASE Suspend
    BY <1>0, <1>4, <1>a, Spending DEF Suspend, tasks, sound
  <1>5. CASE Resume
    BY <1>0, <1>5, SwapStates DEF Resume, tasks, report
  <1>6. ASSUME NEW level, Endpoint(level)
        PROVE  /\ swap' \in [Threads -> Swaps] /\ pending' \in Texts /\ cut' \subseteq Nat
               /\ dirty' \in BOOLEAN
    <2>1. \/ swap' = [swap EXCEPT !["tap"] = Idle]
          \/ swap' = [swap EXCEPT !["tap"] = [Idle EXCEPT !.pc = "report", !.to = handler]]
      BY <1>6 DEF Endpoint, Appended
    <2>2. swap' \in [Threads -> Swaps]
      BY <2>1, SwapStates
    <2>3. pending' \in Texts
      BY <1>0, <1>6 DEF Endpoint
    <2>4. cut' \subseteq Nat /\ dirty' \in BOOLEAN
      BY <1>6, <1>a DEF Endpoint
    <2> QED BY <2>2, <2>3, <2>4
  <1>7. CASE Speech
    <2>1. left' \in BudgetRecords /\ left["words"] \in Nat
      BY <1>7, Spending DEF Speech, BudgetRecords
    <2>2. heard' \in [Requests -> Texts]
      <3>1. \A r \in Requests : Append(heard[r], left["words"]) \in Texts
        BY <2>1 DEF Texts
      <3>2. \/ heard' = heard
            \/ \E r, text : heard' = [heard EXCEPT ![r] = text]
                            /\ r \in Nat /\ (r \in Requests => text = Append(heard[r], left["words"]))
        <4>1. swap["tap"].old \in Nat
          BY <1>0 DEF Swaps
        <4> QED BY <1>7, <4>1 DEF Speech
      <3> HIDE DEF Requests
      <3> QED BY <3>1, <3>2, ZenonT(60)
    <2>3. CASE suspended
      <3>1. swap' \in [Threads -> Swaps]
        BY <1>7, <2>3, SwapStates DEF Speech, Appended
      <3> QED BY <1>0, <1>7, <2>1, <2>2, <2>3, <3>1 DEF Speech, tasks
    <2>4. CASE ~ suspended
      BY <1>0, <1>6, <1>7, <2>1, <2>2, <2>4 DEF Speech, tasks
    <2> QED BY <2>3, <2>4
  <1>16. CASE Tap
    <2>1. swap' \in [Threads -> Swaps]
      BY <1>16, SwapStates DEF Tap
    <2> QED BY <1>0, <1>16, <2>1 DEF Tap, tasks, sound, report
  <1>8. CASE Quiet
    BY <1>0, <1>6, <1>8 DEF Quiet, tasks
  <1>9. CASE Noise
    BY <1>0, <1>9, Spending DEF Noise, tasks, report
  <1>10. CASE Report
    <2>1. swap' \in [Threads -> Swaps]
      BY <1>10, SwapStates DEF Report, FreshRequest
    <2>2. after' \in Nat
      BY <1>10 DEF Report
    <2> QED BY <1>10, <2>1, <2>2 DEF Report, tasks, sound
  <1>11. ASSUME NEW t \in Threads, Create(t) PROVE TypeOK'
    <2>1. created' \in Requests /\ live' \subseteq Requests
      BY <1>0, <1>11 DEF Create
    <2>2. swap' \in [Threads -> Swaps]
      <3>1. created' \in 0 .. MaxRequests /\ request \in 0 .. MaxRequests
        BY <2>1
      <3>2. [Idle EXCEPT !.pc = "first", !.old = request, !.new = created'] \in Swaps
        BY <3>1, SwapStates
      <3> QED BY <1>11, <3>2 DEF Create
    <2> QED BY <1>0, <1>11, <2>1, <2>2 DEF Create, sound, report
  <1>12. ASSUME NEW t \in Threads, Replace(t) PROVE TypeOK'
    <2>1. swap' \in [Threads -> Swaps]
      <3>1. swap[t] \in Swaps /\ Idle \in Swaps
        BY SwapStates
      <3>2. [swap[t] EXCEPT !.pc = "second"] \in Swaps
        BY <3>1 DEF Swaps, Steps
      <3> QED BY <1>12, <3>1, <3>2 DEF Replace
    <2>2. swap[t].new \in 0 .. MaxRequests
      BY DEF Swaps
    <2> QED BY <1>0, <1>12, <2>1, <2>2 DEF Replace, Order, Publish, Cancel, sound, report
  <1>13. ASSUME NEW t \in Threads, ReplaceFails(t) PROVE TypeOK'
    BY <1>0, <1>13, SwapStates DEF ReplaceFails, tasks, sound
  <1>14. ASSUME NEW r \in Requests, Result(r) PROVE TypeOK'
    <2>1. pending' \in Texts
      <3>1. PICK n \in 1 .. Len(heard[r]) : pending' = SubSeq(heard[r], 1, n)
        BY <1>14 DEF Result
      <3>2. heard[r] \in Seq(Nat) /\ n <= Len(heard[r])
        BY DEF Texts
      <3> QED BY <3>1, <3>2 DEF Texts
    <2> QED BY <1>0, <1>14, <2>1, Spending DEF Result, tasks, sound
  <1>15. CASE UNCHANGED vars
    BY <1>15 DEF vars
  <1> QED
    BY <1>1, <1>2, <1>3, <1>4, <1>5, <1>7, <1>8, <1>9, <1>10, <1>11, <1>12, <1>13, <1>14, <1>15,
       <1>16
    DEF Next, Restart

-----------------------------------------------------------------------------
(* Requests and tasks *)

Tasks == Numbered /\ Unborn /\ Retired /\ FedIsLive

\* A thread holds nothing, it has no request of its own and none to cancel, or only the
\* published one, to append to it.
Empty(s) ==
  /\ s.pc \in {"idle", "append", "report", "create"} /\ s.new = 0
  /\ s.old = 0 \/ (s.pc = "append" /\ s.old = request)

\* Words go to a request that was published once, and a thread may let go of what it holds.
LEMMA TasksStill ==
  ASSUME TypeOK, Tasks, UNCHANGED tasks, engine' => engine,
         \A r \in Requests : heard'[r] = heard[r] \/ \E u \in Threads : r = swap[u].old,
         \A t \in Threads : swap'[t] = swap[t] \/ Empty(swap'[t])
  PROVE  Tasks'
  <1> USE DEF TypeOK, tasks
  <1>0. 0 \notin Requests /\ \A r \in Requests : r \in Nat
    BY DEF Requests
  <1>1. Numbered'
    <2>1. \A t \in Threads : swap'[t].old <= created /\ swap'[t].new <= created
      BY DEF Tasks, Numbered, Empty
    <2>2. ASSUME NEW r \in Requests, r > created PROVE heard'[r] = <<>>
      <3>1. \A u \in Threads : swap[u].old <= created /\ swap[u].old \in Int
        BY DEF Tasks, Numbered, Swaps
      <3>2. r \in Int /\ created \in Int
        BY DEF Requests
      <3>3. \A u \in Threads : r # swap[u].old
        BY <2>2, <3>1, <3>2
      <3> QED BY <2>2, <3>3 DEF Tasks, Numbered
    <2> QED BY <2>1, <2>2 DEF Tasks, Numbered
  <1>2. Unborn'
    <2> SUFFICES ASSUME NEW t \in Threads, swap'[t].pc = "first"
                 PROVE  /\ swap'[t].new \in live /\ swap'[t].new # request /\ heard'[swap'[t].new] = <<>>
                        /\ \A u \in Threads : /\ swap'[u].old # swap'[t].new
                                              /\ swap'[u].pc = "first" /\ u # t =>
                                                   swap'[u].new # swap'[t].new
      BY DEF Unborn
    <2>1. swap'[t] = swap[t] /\ swap[t].new \in Requests
      BY DEF Empty, Tasks, Unborn
    <2>2. heard'[swap[t].new] = <<>> /\ swap[t].new \in live /\ swap[t].new # request
      BY <2>1 DEF Tasks, Unborn
    <2>3. ASSUME NEW u \in Threads
          PROVE  /\ swap'[u].old # swap[t].new
                 /\ swap'[u].pc = "first" /\ u # t => swap'[u].new # swap[t].new
      <3>1. CASE swap'[u] = swap[u]
        BY <2>1, <3>1 DEF Tasks, Unborn
      <3>2. CASE Empty(swap'[u])
        BY <1>0, <2>1, <2>2, <3>2 DEF Empty
      <3> QED BY <3>1, <3>2
    <2> QED BY <2>1, <2>2, <2>3
  <1>3. Retired'
    BY DEF Tasks, Retired, Empty
  <1>4. FedIsLive'
    BY DEF Tasks, FedIsLive
  <1> QED BY <1>1, <1>2, <1>3, <1>4 DEF Tasks

\* The two steps of start() and stop() that concern the tasks.
LEMMA TasksStart ==
  ASSUME TypeOK, Tasks, Start
  PROVE  Tasks'
  <1>1. /\ created' = created + 1 /\ live' = live \cup {created'} /\ heard' = heard /\ swap' = swap
        /\ created \in Nat /\ created' \in Nat /\ created' \in Requests /\ created' > created
    BY MicrophoneAssumption DEF MicrophoneAssumption, Start, TypeOK, Requests
  <1>2. (request' = request \/ request' = created') /\ (engine' => request' \in live')
    BY <1>1 DEF Start, Tasks, FedIsLive
  <1>3. \A t \in Threads : /\ swap[t].old \in Nat /\ swap[t].new \in Nat
                           /\ swap[t].old < created' /\ swap[t].new < created'
    BY <1>1 DEF Tasks, Numbered, TypeOK, Swaps
  <1>4. Numbered'
    <2>1. request' <= created' /\ \A r \in live' : r <= created'
      BY <1>1, <1>2 DEF Tasks, Numbered, TypeOK, Requests
    <2>2. \A r \in Requests : r > created' => heard'[r] = <<>>
      BY <1>1 DEF Tasks, Numbered, Requests
    <2> QED BY <1>1, <1>3, <2>1, <2>2 DEF Numbered
  <1>5. Unborn'
    <2> SUFFICES ASSUME NEW t \in Threads, swap[t].pc = "first"
                 PROVE  /\ swap[t].new \in live' /\ swap[t].new # request' /\ heard[swap[t].new] = <<>>
                        /\ \A u \in Threads : /\ swap[u].old # swap[t].new
                                              /\ swap[u].pc = "first" /\ u # t =>
                                                   swap[u].new # swap[t].new
      BY <1>1 DEF Unborn
    <2> QED BY <1>1, <1>2, <1>3 DEF Tasks, Unborn
  <1>6. Retired'
    BY <1>1, <1>2, <1>3 DEF Tasks, Retired
  <1> QED BY <1>2, <1>4, <1>5, <1>6 DEF Tasks, FedIsLive

LEMMA TasksStop ==
  ASSUME TypeOK, Tasks, Closed, Stop \/ StopFinally
  PROVE  Tasks'
  <1>1. /\ UNCHANGED <<heard, swap, created>>
        /\ engine' = FALSE \/ (engine' = engine /\ request' = request /\ live' = live)
        /\ request' \in {request, 0} /\ live' \subseteq live /\ live \ live' \subseteq {request}
    BY DEF Stop, StopFinally, Teardown
  <1>2. Numbered'
    BY <1>1 DEF Tasks, Numbered, TypeOK
  <1>3. Unborn'
    <2>1. 0 \notin live
      BY DEF TypeOK, Requests
    <2> QED BY <1>1, <2>1 DEF Tasks, Unborn
  <1>4. Retired'
    BY <1>1 DEF Tasks, Retired
  <1> QED BY <1>1, <1>2, <1>3, <1>4 DEF Tasks, FedIsLive

\* A new request is numbered as none before, and the old one may still be anywhere.
LEMMA TasksCreate ==
  ASSUME TypeOK, Tasks, NEW t \in Threads, Create(t)
  PROVE  Tasks'
  <1> USE DEF TypeOK, Requests
  <1>0. MaxRequests \in Nat
    BY MicrophoneAssumption DEF MicrophoneAssumption
  <1>1. /\ created' = created + 1 /\ live' = live \cup {created'}
        /\ UNCHANGED <<heard, request, engine>> /\ created' \in Requests /\ created' > created
    BY <1>0 DEF Create
  <1>2. /\ swap'[t].pc = "first" /\ swap'[t].old = request /\ swap'[t].new = created'
        /\ \A u \in Threads \ {t} : swap'[u] = swap[u]
    BY DEF Create, Idle
  <1>3. request # created' /\ \A u \in Threads : swap[u].old # created' /\ swap[u].new # created'
    BY <1>1 DEF Tasks, Numbered
  <1>4. Numbered'
    <2>1. \A u \in Threads : swap'[u].old <= created' /\ swap'[u].new <= created'
      BY <1>1, <1>2 DEF Tasks, Numbered, Swaps
    <2>2. request' <= created' /\ \A r \in live' : r <= created'
      BY <1>1 DEF Tasks, Numbered
    <2>3. \A r \in Requests : r > created' => heard'[r] = <<>>
      BY <1>1 DEF Tasks, Numbered
    <2> QED BY <2>1, <2>2, <2>3 DEF Numbered
  <1>5. Unborn'
    <2> SUFFICES ASSUME NEW v \in Threads, swap'[v].pc = "first"
                 PROVE  /\ swap'[v].new \in live' /\ swap'[v].new # request /\ heard[swap'[v].new] = <<>>
                        /\ \A u \in Threads : /\ swap'[u].old # swap'[v].new
                                              /\ swap'[u].pc = "first" /\ u # v =>
                                                   swap'[u].new # swap'[v].new
      BY <1>1 DEF Unborn
    <2>1. CASE v = t
      BY <1>1, <1>2, <1>3, <2>1 DEF Tasks, Numbered
    <2>2. CASE v # t
      BY <1>1, <1>2, <1>3, <2>2 DEF Tasks, Unborn
    <2> QED BY <2>1, <2>2
  <1>6. Retired'
    BY <1>1, <1>2 DEF Tasks, Retired
  <1>7. FedIsLive'
    BY <1>1 DEF Tasks, FedIsLive
  <1> QED BY <1>4, <1>5, <1>6, <1>7 DEF Tasks

\* The swap publishes what nobody has seen and then cancels what nobody uses.
LEMMA TasksReplace ==
  ASSUME TypeOK, Tasks, NEW t \in Threads, Replace(t)
  PROVE  Tasks'
  <1> USE DEF TypeOK
  <1>0. 0 \notin Requests /\ \A r \in Requests : r \in Nat
    BY DEF Requests
  <1>1. UNCHANGED <<heard, created, engine>> /\ \A u \in Threads \ {t} : swap'[u] = swap[u]
    BY DEF Replace
  <1>2. CASE swap[t].pc = "first"
    <2>1. /\ request' = swap[t].new /\ live' = live
          /\ swap'[t].pc = "second" /\ swap'[t].old = swap[t].old /\ swap'[t].new = swap[t].new
      <3>1. swap[t] \in Swaps
        OBVIOUS
      <3> QED BY <1>2, <3>1 DEF Replace, Order, Publish, Swaps
    <2>2. Numbered'
      BY <1>1, <2>1 DEF Tasks, Numbered
    <2>3. Unborn'
      BY <1>1, <1>2, <2>1 DEF Tasks, Unborn
    <2>4. Retired'
      BY <1>1, <1>2, <2>1 DEF Tasks, Retired, Unborn
    <2> QED BY <1>1, <1>2, <2>1, <2>2, <2>3, <2>4 DEF Tasks, Unborn, FedIsLive
  <1>3. CASE swap[t].pc = "second"
    <2>1. request' = request /\ live' = live \ {swap[t].old} /\ swap'[t] = Idle
      BY <1>3 DEF Replace, Order, Cancel
    <2>2. Idle.pc = "idle" /\ Idle.old = 0 /\ Idle.new = 0
      BY DEF Idle
    <2>3. Numbered'
      BY <1>1, <2>1, <2>2 DEF Tasks, Numbered
    <2>4. Unborn'
      BY <1>0, <1>1, <2>1, <2>2 DEF Tasks, Unborn
    <2>5. Retired'
      BY <1>1, <2>1, <2>2 DEF Tasks, Retired
    <2>6. FedIsLive'
      BY <1>0, <1>1, <1>3, <2>1 DEF Tasks, Retired, FedIsLive
    <2> QED BY <2>3, <2>4, <2>5, <2>6 DEF Tasks
  <1> QED BY <1>2, <1>3 DEF Replace

LEMMA TasksStep ==
  ASSUME TypeOK, Tasks, Closed, [Next]_vars
  PROVE  Tasks'
  <1> USE DEF Threads
  <1>0. /\ Empty(Idle) /\ Empty(FreshRequest) /\ \A to : Empty([Idle EXCEPT !.pc = "report", !.to = to])
        /\ Empty([Idle EXCEPT !.pc = "append", !.old = request])
    BY DEF Empty, Idle, FreshRequest
  <1>1. CASE Start \/ Stop \/ StopFinally
    BY <1>1, TasksStart, TasksStop
  <1>2. ASSUME NEW t \in Threads, Create(t) \/ Replace(t) PROVE Tasks'
    BY <1>2, TasksCreate, TasksReplace
  <1>3. ASSUME NEW t \in Threads, ReplaceFails(t) PROVE Tasks'
    BY <1>0, <1>3, TasksStill DEF ReplaceFails, TypeOK
  <1>4. CASE Suspend \/ Noise \/ UNCHANGED vars
    BY <1>4, TasksStill DEF Suspend, Noise, vars, tasks
  <1>5. CASE Resume
    BY <1>0, <1>5, TasksStill DEF Resume, FreshRequest, TypeOK
  <1>6. CASE Report
    BY <1>0, <1>6, TasksStill DEF Report, TypeOK
  <1>7. ASSUME NEW level, Endpoint(level) PROVE \A t \in Threads : swap'[t] = swap[t] \/ Empty(swap'[t])
    BY <1>0, <1>7, ZenonT(60) DEF Endpoint, Appended, TypeOK
  <1>8. CASE Speech
    <2>1. \A r \in Requests : heard'[r] = heard[r] \/ r = swap["tap"].old
      BY <1>8 DEF Speech, TypeOK
    <2>2. \A t \in Threads : swap'[t] = swap[t] \/ Empty(swap'[t])
      <3>1. CASE suspended
        BY <1>0, <1>8, <3>1 DEF Speech, Appended, TypeOK
      <3>2. CASE ~ suspended
        BY <1>7, <1>8, <3>2 DEF Speech
      <3> QED BY <3>1, <3>2
    <2> QED BY <1>8, <2>1, <2>2, TasksStill DEF Speech
  <1>9. CASE Quiet
    BY <1>7, <1>9, TasksStill DEF Quiet
  <1>10. ASSUME NEW r \in Requests, Result(r) PROVE Tasks'
    BY <1>10, TasksStill DEF Result
  <1>11. CASE Tap
    BY <1>0, <1>11, TasksStill DEF Tap, TypeOK
  <1> QED BY <1>1, <1>2, <1>3, <1>4, <1>5, <1>6, <1>8, <1>9, <1>10, <1>11 DEF Next, Restart

-----------------------------------------------------------------------------
(* Utterances *)

\* Only the tap reports, once for each utterance, and it takes none for a handler that is gone.
LEMMA ClosedStep ==
  ASSUME TypeOK, Closed, [Next]_vars
  PROVE  Closed'
  <1> USE DEF Closed, TypeOK, Threads
  <1>0. /\ Idle.pc = "idle" /\ FreshRequest.pc = "create"
    BY DEF Idle, FreshRequest
  <1>1. CASE Start
    BY <1>1 DEF Start
  <1>2. CASE Stop \/ StopFinally
    <2>1. CASE Stop
      <3>1. /\ UNCHANGED <<listening, swap>> /\ listening /\ handler' = FALSE /\ after' = 0
        BY <2>1 DEF Stop
      <3> QED BY <3>1
    <2>2. CASE StopFinally
      <3>1. /\ UNCHANGED <<handler, swap, after>> /\ stopping /\ engine' = FALSE
        BY <2>2 DEF StopFinally, report
      <3> QED BY <3>1
    <2> QED BY <1>2, <2>1, <2>2
  <1>3. CASE Suspend \/ Noise \/ UNCHANGED vars
    BY <1>3 DEF Suspend, Noise, vars, report
  <1>4. CASE Resume
    BY <1>4 DEF Resume, report
  <1>5. CASE Speech \/ Quiet
    <2>1. UNCHANGED <<engine, listening, stopping, handler, after>>
      BY <1>5 DEF Speech, Quiet
    <2>2. swap'["tap"].pc = "report" => swap'["tap"].to = handler
      <3>1. CASE Appended
        BY <1>0, <3>1 DEF Appended
      <3>2. CASE \E level : Endpoint(level)
        <4>1. \/ swap'["tap"] = Idle
              \/ swap'["tap"] = [Idle EXCEPT !.pc = "report", !.to = handler]
          BY <3>2, ZenonT(60) DEF Endpoint, Appended
        <4> QED BY <1>0, <4>1 DEF Idle
      <3> QED BY <1>5, <3>1, <3>2 DEF Speech, Quiet
    <2> QED BY <2>1, <2>2
  <1>6. CASE Report
    BY <1>0, <1>6 DEF Report
  <1>7. ASSUME NEW t \in Threads, Create(t) PROVE Closed'
    BY <1>7 DEF Create, Idle, report
  <1>8. ASSUME NEW t \in Threads, Replace(t) PROVE Closed'
    <2>1. UNCHANGED <<engine, listening, handler, stopping, after>>
      BY <1>8 DEF Replace, report
    <2>2. swap'["tap"].pc # "report" \/ swap' ["tap"] = swap["tap"]
      BY <1>0, <1>8 DEF Replace, Swaps
    <2> QED BY <2>1, <2>2
  <1>9. ASSUME NEW t \in Threads, ReplaceFails(t) PROVE Closed'
    BY <1>0, <1>9 DEF ReplaceFails
  <1>10. ASSUME NEW r \in Requests, Result(r) PROVE Closed'
    BY <1>10 DEF Result
  <1>11. CASE Tap
    BY <1>11 DEF Tap, report
  <1> QED BY <1>1, <1>2, <1>3, <1>4, <1>5, <1>6, <1>7, <1>8, <1>9, <1>10, <1>11 DEF Next, Restart

Words == NextIsNew /\ News

\* A buffer ends an utterance and takes its words, or changes none.
LEMMA EndpointWords ==
  ASSUME TypeOK, NEW level, Endpoint(level)
  PROVE  \/ UNCHANGED <<pending, cut, dirty>> /\ Appended
         \/ /\ pending' = <<>> /\ cut' = cut \cup Range(pending) /\ ~ Settled'
            /\ dirty' = (dirty \/ (handler /\ Range(pending) \cap cut # {}))
  <1>1. CASE UNCHANGED <<pending, cut, dirty>> /\ Appended
    BY <1>1
  <1>2. CASE /\ swap' = [swap EXCEPT !["tap"] = [Idle EXCEPT !.pc = "report", !.to = handler]]
             /\ pending' = <<>> /\ cut' = cut \cup Range(pending)
             /\ dirty' = (dirty \/ (handler /\ Range(pending) \cap cut # {}))
    BY <1>2 DEF Settled, Threads, Idle, TypeOK
  <1> QED BY <1>1, <1>2 DEF Endpoint

\* What nobody hears or reports leaves the words alone.
LEMMA WordsStill ==
  ASSUME Words, UNCHANGED <<handler, request, heard, pending, cut, dirty, suspended>>,
         left'["words"] = left["words"], excused => excused', ~ excused' /\ Settled' => Settled
  PROVE  Words'
  <1>1. NextIsNew'
    BY DEF Words, NextIsNew
  <1> QED BY <1>1 DEF Words, News

LEMMA EmptyText == Range(<<>>) = {}
  BY DEF Range

LEMMA WordsStart ==
  ASSUME TypeOK, Tasks, Closed, Words, Start
  PROVE  Words'
  <1>1. left'["words"] = left["words"]
    BY Spending DEF Start, TypeOK, Counters
  <1>2. UNCHANGED <<heard, cut, dirty, excused, suspended>>
    BY DEF Start
  <1>3. CASE UNCHANGED <<handler, request, pending>>
    <2>1. UNCHANGED swap
      BY DEF Start
    <2> QED BY <1>1, <1>2, <1>3, <2>1, WordsStill DEF Settled
  <1>4. CASE request' = created' /\ pending' = <<>>
    <2>1. created' \in Requests /\ created' > created
      BY MicrophoneAssumption DEF MicrophoneAssumption, Start, TypeOK, Requests
    <2>2. heard'[request'] = <<>>
      BY <1>2, <1>4, <2>1 DEF Tasks, Numbered
    <2>3. NextIsNew'
      BY <1>1, <1>2, <1>4, EmptyText DEF Words, NextIsNew
    <2> QED BY <1>2, <1>4, <2>2, <2>3, EmptyText DEF Words, News
  <1> QED BY <1>3, <1>4 DEF Start

\* stop() and a suspension give up everything that was said.
LEMMA WordsDropped ==
  ASSUME TypeOK, Words, Stop \/ Suspend
  PROVE  Words'
  <1>1. left'["words"] = left["words"]
    BY Spending DEF Stop, Suspend, TypeOK, Counters
  <1>2. pending' = <<>> /\ cut' = cut \cup Spoken /\ UNCHANGED <<heard, dirty, excused>>
    BY DEF Stop, Suspend
  <1>3. ~ handler' \/ suspended'
    BY DEF Stop, Suspend
  <1>4. NextIsNew'
    BY <1>1, <1>2, EmptyText DEF Words, NextIsNew, Spoken
  <1> QED BY <1>2, <1>3, <1>4, EmptyText DEF Words, News

LEMMA AppendRange ==
  ASSUME NEW s \in Seq(Nat), NEW w \in Nat
  PROVE  Range(Append(s, w)) \subseteq Range(s) \cup {w}
  <1>1. ASSUME NEW i \in DOMAIN Append(s, w) PROVE Append(s, w)[i] \in Range(s) \cup {w}
    <2>1. CASE i \in DOMAIN s
      BY <2>1 DEF Range
    <2>2. CASE i \notin DOMAIN s
      BY <2>2
    <2> QED BY <2>1, <2>2
  <1> QED BY <1>1 DEF Range

\* The tap is done with a buffer whose word is new, or with one without a word.
LEMMA WordsHeard ==
  ASSUME TypeOK, Tasks, Closed, Words, Speech
  PROVE  Words'
  <1> USE DEF TypeOK
  <1>1. left["words"] \in Nat /\ left["words"] > 0 /\ left'["words"] = left["words"] - 1
    BY Spending DEF Speech, Counters, BudgetRecords
  <1>2. UNCHANGED <<engine, handler, request, excused, suspended>>
    BY DEF Speech, tasks
  <1>3. \A r \in Requests : Range(heard'[r]) \subseteq Range(heard[r]) \cup {left["words"]}
    <2>1. CASE heard' = heard
      BY <2>1
    <2>2. CASE heard' # heard
      <3>1. PICK q \in Nat : heard' = [heard EXCEPT ![q] = Append(@, left["words"])]
        <4>1. swap["tap"].old \in Nat
          BY MicrophoneAssumption DEF MicrophoneAssumption, Swaps, Threads
        <4> QED BY <2>2, <4>1 DEF Speech
      <3>2. \A r \in Requests : heard'[r] \in {heard[r], Append(heard[r], left["words"])}
        BY <3>1
      <3>3. \A r \in Requests : Range(Append(heard[r], left["words"]))
                                   \subseteq Range(heard[r]) \cup {left["words"]}
        BY <1>1, AppendRange DEF Texts
      <3> QED BY <3>2, <3>3
    <2> QED BY <2>1, <2>2
  <1>4. \/ UNCHANGED <<pending, cut, dirty>> /\ Appended
        \/ /\ pending' = <<>> /\ cut' = cut \cup Range(pending) /\ ~ Settled'
           /\ dirty' = (dirty \/ (handler /\ Range(pending) \cap cut # {}))
    <2>1. CASE suspended
      BY <2>1 DEF Speech
    <2>2. CASE ~ suspended
      BY <2>2, EndpointWords DEF Speech
    <2> QED BY <2>1, <2>2
  <1>5. /\ \A r \in Requests : Range(heard[r]) \subseteq Nat
        /\ Range(pending) \subseteq Nat /\ cut \subseteq Nat
    BY DEF Range, Texts
  <1>6. NextIsNew'
    <2>1. cut' \cup Range(pending') \subseteq cut \cup Range(pending)
      BY <1>4, EmptyText
    <2>2. \A w \in Nat : w > left["words"] \/ w = left["words"] => w > left'["words"]
      BY <1>1
    <2> QED BY <1>1, <1>3, <1>5, <2>1, <2>2 DEF Words, NextIsNew
  <1>7. CASE UNCHANGED <<pending, cut, dirty>> /\ Appended
    <2>1. left["words"] \notin cut
      BY <1>1 DEF Words, NextIsNew
    <2>2. handler => Range(heard'[request]) \cap cut \subseteq Range(heard[request]) \cap cut
      BY <1>3, <2>1 DEF Tasks, FedIsLive, Closed
    <2>3. Settled' => Settled
      BY <1>7 DEF Settled, Appended, Speech
    <2> QED BY <1>2, <1>6, <1>7, <2>2, <2>3 DEF Words, News
  <1>8. CASE /\ pending' = <<>> /\ cut' = cut \cup Range(pending) /\ ~ Settled'
             /\ dirty' = (dirty \/ (handler /\ Range(pending) \cap cut # {}))
    BY <1>2, <1>6, <1>8, EmptyText DEF Words, News
  <1> QED BY <1>4, <1>7, <1>8

LEMMA WordsQuiet ==
  ASSUME TypeOK, Words, Quiet
  PROVE  Words'
  <1>1. UNCHANGED <<handler, request, heard, excused, suspended, left>>
    BY DEF Quiet, tasks
  <1>2. CASE UNCHANGED <<pending, cut, dirty>> /\ Appended
    <2>1. Settled' => Settled
      BY <1>2 DEF Settled, Appended, Quiet, TypeOK
    <2> QED BY <1>1, <1>2, <2>1, WordsStill
  <1>3. CASE /\ pending' = <<>> /\ cut' = cut \cup Range(pending) /\ ~ Settled'
             /\ dirty' = (dirty \/ (handler /\ Range(pending) \cap cut # {}))
    <2>1. NextIsNew'
      BY <1>1, <1>3, EmptyText DEF Words, NextIsNew
    <2> QED BY <1>1, <1>3, <2>1, EmptyText DEF Words, News
  <1> QED BY <1>2, <1>3, EndpointWords DEF Quiet

\* A request is published without a word in it.
LEMMA WordsSwap ==
  ASSUME TypeOK, Tasks, Words, NEW t \in Threads, Create(t) \/ Replace(t) \/ ReplaceFails(t)
  PROVE  Words'
  <1> USE DEF TypeOK
  <1>1. /\ UNCHANGED <<handler, heard, pending, cut, dirty, suspended, left>>
        /\ \A u \in Threads \ {t} : swap'[u] = swap[u]
    BY DEF Create, Replace, ReplaceFails, sound, report
  <1>2. NextIsNew'
    BY <1>1 DEF Words, NextIsNew
  <1>3. CASE Create(t)
    <2>1. ~ Settled' /\ excused' = excused
      BY <1>3 DEF Create, Settled, Idle, report
    <2> QED BY <1>1, <1>2, <2>1 DEF Words, News
  <1>4. CASE ReplaceFails(t)
    BY <1>2, <1>4 DEF ReplaceFails, Words, News
  <1>5. CASE Replace(t) /\ swap[t].pc = "first"
    <2>1. heard'[request'] = <<>> /\ excused' = excused
      BY <1>1, <1>5 DEF Replace, Order, Publish, Tasks, Unborn, report
    <2> QED BY <1>1, <1>2, <2>1, EmptyText DEF Words, News
  <1>6. CASE Replace(t) /\ swap[t].pc = "second"
    <2>1. request' = request /\ excused' = excused
      BY <1>6 DEF Replace, Order, Cancel, report
    <2>2. Settled' => Settled
      BY <1>1, <1>6 DEF Settled
    <2> QED BY <1>1, <2>1, <2>2, WordsStill
  <1> QED BY <1>3, <1>4, <1>5, <1>6 DEF Replace

\* A result counts as the words of the published request, or is excused.
LEMMA WordsResult ==
  ASSUME TypeOK, Words, NEW r \in Requests, Result(r)
  PROVE  Words'
  <1> USE DEF TypeOK
  <1>1. /\ UNCHANGED <<handler, request, heard, cut, dirty, suspended, swap>>
        /\ left'["words"] = left["words"]
        /\ excused => excused'
    BY Spending DEF Result, Counters, tasks
  <1>2. Range(pending') \subseteq Range(heard[r])
    <2>1. PICK n \in 1 .. Len(heard[r]) : pending' = SubSeq(heard[r], 1, n)
      BY DEF Result
    <2>2. heard[r] \in Seq(Nat)
      BY DEF Texts
    <2>3. \A i \in DOMAIN pending' : i \in DOMAIN heard[r] /\ pending'[i] = heard[r][i]
      BY <2>1, <2>2
    <2> QED BY <2>3 DEF Range
  <1> HIDE DEF TypeOK
  <1>3. NextIsNew'
    <2>1. \A w \in Range(pending') \cup cut : w > left["words"]
      BY <1>2 DEF Words, NextIsNew
    <2> QED BY <1>1, <2>1 DEF Words, NextIsNew
  <1>4. ~ excused' => r = request /\ ~ suspended /\ Settled
    BY DEF Result, Settled
  <1>5. ~ excused' /\ handler => Range(pending') \cap cut = {}
    BY <1>1, <1>2, <1>4 DEF Words, News
  <1>6. Settled' = Settled
    BY <1>1 DEF Settled
  <1> QED BY <1>1, <1>3, <1>5, <1>6 DEF Words, News

LEMMA WordsStep ==
  ASSUME TypeOK, Tasks, Closed, Words, [Next]_vars
  PROVE  Words'
  <1> USE DEF TypeOK
  <1>1. CASE Start \/ Stop \/ Suspend \/ Speech \/ Quiet
    BY <1>1, WordsStart, WordsDropped, WordsHeard, WordsQuiet
  <1>2. CASE StopFinally
    <2>1. ~ handler
      BY <1>2 DEF StopFinally, Closed
    <2>2. UNCHANGED <<handler, heard, pending, cut, dirty, excused, left>>
      BY <1>2 DEF StopFinally, report
    <2> QED BY <2>1, <2>2 DEF Words, NextIsNew, News
  <1>3. CASE Resume
    <2>1. /\ UNCHANGED <<handler, heard, pending, cut, dirty, excused, left>>
          /\ ~ Settled'
      BY <1>3 DEF Resume, Settled, Threads, Idle, report
    <2> QED BY <2>1 DEF Words, NextIsNew, News
  <1>4. CASE Noise
    BY <1>4, Spending, WordsStill DEF Noise, Counters, tasks, report, Settled
  <1>5. CASE Report
    <2>1. UNCHANGED <<handler, request, heard, pending, cut, dirty, suspended, excused, left>>
      BY <1>5 DEF Report, tasks
    <2>2. ~ Settled'
      BY <1>5 DEF Report, FreshRequest, Idle, Settled, Threads
    <2> QED BY <2>1, <2>2, WordsStill
  <1>6. ASSUME NEW t \in Threads, Restart(t) PROVE Words'
    BY <1>6, WordsSwap DEF Restart
  <1>7. ASSUME NEW r \in Requests, Result(r) PROVE Words'
    BY <1>7, WordsResult
  <1>8. CASE UNCHANGED vars
    BY <1>8, WordsStill DEF vars, Settled
  <1>9. CASE Tap
    <2>1. Settled' => Settled
      BY <1>9 DEF Tap, Settled
    <2> QED BY <1>9, <2>1, WordsStill DEF Tap, tasks, report
  <1> QED BY <1>1, <1>2, <1>3, <1>4, <1>5, <1>6, <1>7, <1>8, <1>9 DEF Next

-----------------------------------------------------------------------------
(* Theorems *)

LEMMA InitInv == Init => IInv
  <1> SUFFICES ASSUME Init PROVE IInv
    OBVIOUS
  <1> USE DEF Init
  <1>1. Idle \in Swaps /\ Idle.pc = "idle" /\ Idle.old = 0 /\ Idle.new = 0
    BY SwapStates DEF Idle
  <1>2. TypeOK
    <2>1. MaxRequests \in Nat /\ left \in BudgetRecords
      BY MicrophoneAssumption DEF MicrophoneAssumption, BudgetRecords
    <2>2. <<>> \in Texts
      BY DEF Texts
    <2>3. swap \in [Threads -> Swaps] /\ heard \in [Requests -> Texts]
      BY <1>1, <2>2
    <2>4. request \in 0 .. MaxRequests /\ created \in 0 .. MaxRequests /\ live \subseteq Requests
      BY <2>1
    <2>5. pending \in Texts /\ cut \subseteq Nat /\ after \in Nat
      BY <2>2
    <2> QED BY <2>1, <2>3, <2>4, <2>5 DEF TypeOK
  <1>3. Numbered /\ Unborn /\ Retired /\ FedIsLive /\ Closed
    BY <1>1, <1>2 DEF Numbered, Unborn, Retired, FedIsLive, Closed, Threads
  <1>4. NextIsNew /\ News
    BY EmptyText DEF NextIsNew, News
  <1> QED BY <1>2, <1>3, <1>4 DEF IInv

LEMMA Invariance == Spec => []IInv
  <1>1. IInv /\ [Next]_vars => IInv'
    BY TypeStep, TasksStep, ClosedStep, WordsStep DEF IInv, Tasks, Words
  <1> QED BY <1>1, InitInv, PTL DEF Spec

(* However stop(), start(), a suspension, an endpoint and late results     *)
(* interleave, an utterance never repeats words that were reported or      *)
(* given up before, unless a result came from a request that is not the    *)
(* published one, during a swap, or a swap failed.                         *)
THEOREM NothingIsRepeated == Spec => []UtterancesAreClean
  <1>1. IInv => UtterancesAreClean
    BY DEF IInv, News, UtterancesAreClean
  <1> QED BY <1>1, Invariance, PTL

(* While the engine runs the tap has a request, and its task is live, even *)
(* with two threads replacing it at once; and at most one utterance        *)
(* reaches the caller after stop().                                        *)
THEOREM TheTapIsServed == Spec => []TapIsServed
  <1>1. IInv => TapIsServed
    BY DEF IInv, Closed, TapIsServed, LateFinalBounded
  <1> QED BY <1>1, Invariance, PTL
=============================================================================
