---------------------------- MODULE HandControl ----------------------------
(***************************************************************************)
(* Camera gestures (vision/hands/*.py) and the tool that switches them on  *)
(* and off (tools/camera.py).                                              *)
(*                                                                         *)
(* The gesture process reads a frame from each camera, classifies the      *)
(* hands in it, fuses the two views, advances the window state machine and *)
(* then the cursor.  Meanwhile windows close, cameras freeze or vanish.    *)
(*                                                                         *)
(* Abstractions: a hand is a pose, the features recognize() derives from   *)
(* its landmarks; coordinates are left out, except which hand the last     *)
(* position belongs to; the cooldown of a click is over at any time.       *)
(***************************************************************************)
EXTENDS Naturals, FiniteSets, FiniteSetsExt

CONSTANTS Hands,        \* handedness labels
          Poses,        \* [curled, extended : SUBSET 1..4, pinching : BOOLEAN, canned, spread]
          NoHand,       \* a view does not see the hand
          ToolThreads,      \* threads that run the tools
          AgreeFrames, SoloFrames, ConfirmFrames, MinConf,
          HandBudgets       \* window events, camera freezes, tool calls

ASSUME HandAssumption ==
  /\ {AgreeFrames, SoloFrames, ConfirmFrames, MinConf} \subseteq Nat \ {0}
  /\ NoHand \notin Poses

VARIABLES
  views,    \* the cameras that opened: a subset of {"front", "side"}
  frame,    \* frame[v][h]: the pose of hand h in the newest frame of view v
  frozen,   \* views whose camera delivers no new frames
  gate,     \* gate[h]: [committed, candidate, count] of the hand's Gate
  mode, ref,\* GestureSession.mode and the kind of _ref, with the hand it follows
  pointer,  \* PointerController: [sub, armed, streak, cooled]
  window,   \* the frontmost window that is not ours exists
  grip,     \* the window WindowController holds: "none", "open", "closed"
  session,  \* what the loop does next, "grab" between the two reads of a window's frame, or "dead"
  did,      \* what the last frame did to windows and cursor
  reunited, \* the fingers were together since the last click
  procs,    \* gesture processes: "starting" or "up", by number
  call,     \* call[c]: where thread c is in enable or disable
  overlapped, \* two calls of enable were between the check and the start
  allowed

handVars == <<views, frame, frozen, gate, mode, ref, pointer, window, grip, session, did, reunited,
          procs, call, overlapped, allowed>>
windows == <<mode, ref, window, grip, session>>
tools == <<procs, call, overlapped>>

Views == {"front", "side"}
Other == "other"
Gestures == {"fist", "pinch", "two", "open", "point", Other}
NoCall == [at |-> "idle", pid |-> 0]

HandInit ==
  /\ views \in SUBSET Views \ {{}}
  /\ frame = [v \in Views |-> [h \in Hands |-> NoHand]]
  /\ frozen = {}
  /\ gate = [h \in Hands |-> [committed |-> Other, candidate |-> "none", count |-> 0]]
  /\ mode = "IDLE" /\ ref = [kind |-> "none", hand |-> "none"]
  /\ pointer = [sub |-> "together", armed |-> TRUE, streak |-> 0, cooled |-> TRUE]
  /\ window = TRUE /\ grip = "none" /\ session = "run"
  /\ did = {} /\ reunited = TRUE
  /\ overlapped = FALSE
  /\ procs = {} /\ call = [c \in ToolThreads |-> NoCall]
  /\ allowed \in HandBudgets

-----------------------------------------------------------------------------
(* recognize and _classify.                                                *)

TwoFingers(p) == {1, 2} \subseteq p.extended /\ {3, 4} \cap p.extended = {}

Classify(p) ==
  IF Cardinality(p.curled) >= 4 \/ p.canned = "Closed_Fist" THEN "fist"
  ELSE IF p.pinching THEN "pinch"
  ELSE IF TwoFingers(p) THEN "two"
  ELSE IF Cardinality(p.extended) >= 4 \/ p.canned = "Open_Palm" THEN "open"
  ELSE IF p.extended = {1} THEN "point" ELSE Other

Sees(v, h) == v \in views /\ frame[v][h] # NoHand
Reads(v, h) == IF Sees(v, h) THEN Classify(frame[v][h]) ELSE "none"

-----------------------------------------------------------------------------
(* Fuser: score and Gate, a hand at a time.                                *)

Seen == {h \in Hands : \E v \in Views : Sees(v, h)}

\* in tenths: agreed 10, front 8, side alone 5
Score(h) ==
  LET f == Reads("front", h)
      s == Reads("side", h)
      agreed == views = Views /\ f = s
  IN  [gesture |-> IF Sees("front", h) THEN f ELSE s, agreed |-> agreed,
       conf |-> IF agreed THEN 10
                ELSE IF Sees("front", h) \/ views # Views THEN 8 ELSE 5]

Longest == Max({AgreeFrames, SoloFrames})
Gated(g, candidate, agreed) ==
  LET count == IF candidate # g.candidate THEN 1 ELSE Min({g.count + 1, Longest})
      needed == IF agreed THEN AgreeFrames ELSE SoloFrames
  IN  [committed |-> IF count >= needed THEN candidate ELSE g.committed,
       candidate |-> candidate, count |-> count]

\* the gate of a hand that no view sees keeps what it has
Fuse == [h \in Hands |-> IF h \in Seen THEN Gated(gate[h], Score(h).gesture, Score(h).agreed)
                         ELSE gate[h]]

-----------------------------------------------------------------------------
(* GestureSession.step: the window.                                        *)

Confident(gs, g) == {h \in Seen : gs[h].committed = g /\ Score(h).conf >= MinConf}
Desired(gs) == IF Cardinality(Confident(gs, "pinch")) >= 2 THEN "RESIZING"
               ELSE IF Confident(gs, "fist") # {} THEN "MOVING" ELSE "IDLE"

\* fists[0]: one of the most confident, in no particular order
Leaders(gs) == LET fists == Confident(gs, "fist") IN
               {h \in fists : \A k \in fists : Score(k).conf <= Score(h).conf}

\* Mutant: a grab that fails leaves the mode as it was.
BeginFailsKept(m) == m
BeginFails(m) == "IDLE"

\* a changed mode: release, or acquire the frontmost window and read its frame; a window that
\* goes meanwhile may stay in the grip
Change(desired) ==
  /\ desired # mode
  /\ \/ /\ desired = "IDLE"
        /\ mode' = "IDLE" /\ grip' = "none" /\ session' = "point" /\ did' = {"release"}
     \/ /\ desired # "IDLE" /\ window
        /\ mode' = desired /\ grip' = "open" /\ session' = "grab" /\ did' = {}
     \/ /\ desired # "IDLE" /\ ~window
        /\ mode' = BeginFails(desired) /\ grip' \in {"none", "closed"}
        /\ session' = "point" /\ did' = {}
  /\ UNCHANGED ref

\* the frame is read a second time and asserted to be there
Grab ==
  /\ session = "grab"
  /\ IF grip = "open"
     THEN /\ \E h \in IF mode = "MOVING" THEN Leaders(gate) ELSE {"both"} :
               ref' = [kind |-> mode, hand |-> h]
          /\ session' = "point"
     ELSE session' = "dead" /\ UNCHANGED ref
  /\ UNCHANGED <<views, frame, frozen, gate, mode, pointer, window, grip, did, reunited, tools,
                 allowed>>

Continue(desired) ==
  /\ desired = mode
  /\ did' = IF mode # "IDLE" /\ grip = "open" THEN {mode} ELSE {}
  /\ \E h \in IF mode = "MOVING" THEN Leaders(gate') ELSE {ref.hand} : ref' = [ref EXCEPT !.hand = h]
  /\ session' = "point"
  /\ UNCHANGED <<mode, grip>>

\* GestureSession.read and step: a camera that froze keeps giving its last frame
ReadFrame ==
  /\ session = "run"
  /\ \E f \in allowed.frames :
        /\ frame' = [v \in Views |-> IF v \in views \ frozen THEN f[v] ELSE frame[v]]
  /\ session' = "step"
  /\ UNCHANGED <<views, frozen, gate, mode, ref, pointer, window, grip, did, reunited, tools, allowed>>

Step ==
  /\ session = "step"
  /\ gate' = Fuse
  /\ Change(Desired(Fuse)) \/ Continue(Desired(Fuse))
  /\ UNCHANGED <<views, frame, frozen, pointer, window, reunited, tools, allowed>>

-----------------------------------------------------------------------------
(* GestureSession.step_pointer and PointerController.step.                 *)

FrontOrSide == IF "front" \in views THEN "front" ELSE "side"
TwoPoses == {frame[FrontOrSide][h] : h \in {k \in Hands : Reads(FrontOrSide, k) = "two"}}

\* Mutant: no band between together and spread.
SubstateSharp(p) == IF p.spread = "apart" THEN "spread" ELSE "together"
\* inside the band: hold whatever was decided
Substate(p) == CASE p.spread = "apart" -> "spread"
                 [] p.spread = "joined" -> "together"
                 [] OTHER -> pointer.sub

Lost == pointer' = [pointer EXCEPT !.streak = 0] /\ UNCHANGED <<did, reunited>>

Steer(p) ==
  LET streak == Min({pointer.streak + 1, ConfirmFrames})
      sub == Substate(p)
      click == sub = "spread" /\ pointer.armed /\ pointer.cooled
  IN  IF streak < ConfirmFrames
      THEN pointer' = [pointer EXCEPT !.streak = streak] /\ UNCHANGED <<did, reunited>>
      ELSE /\ pointer' = [sub |-> sub, streak |-> streak,
                          armed |-> ~click /\ (sub = "together" \/ pointer.armed),
                          cooled |-> pointer.cooled /\ ~click]
           /\ did' = did \cup (IF click THEN {"click"} ELSE IF sub = "together" THEN {"cursor"} ELSE {})
           /\ reunited' = (~click /\ (reunited \/ p.spread = "joined"))

GestureInForce == mode # "IDLE"

\* a window gesture wins; the raw hands of one view steer otherwise
StepPointer ==
  /\ session = "point"
  /\ session' = "run"
  /\ IF GestureInForce \/ TwoPoses = {} THEN Lost
     ELSE \E p \in TwoPoses : Steer(p)
  /\ UNCHANGED <<views, frame, frozen, gate, mode, ref, window, grip, tools, allowed>>

Cool ==
  /\ ~pointer.cooled
  /\ pointer' = [pointer EXCEPT !.cooled = TRUE]
  /\ UNCHANGED <<views, frame, frozen, gate, mode, ref, window, grip, session, did, reunited,
                 tools, allowed>>

-----------------------------------------------------------------------------
(* The desktop and the cameras.                                            *)

WindowCloses ==
  /\ allowed.windows > 0 /\ window
  /\ window' = FALSE /\ grip' = IF grip = "open" THEN "closed" ELSE grip
  /\ allowed' = [allowed EXCEPT !.windows = @ - 1]
  /\ UNCHANGED <<views, frame, frozen, gate, mode, ref, pointer, session, did, reunited, tools>>

WindowOpens ==
  /\ ~window /\ window' = TRUE
  /\ UNCHANGED <<views, frame, frozen, gate, mode, ref, pointer, grip, session, did, reunited,
                 tools, allowed>>

CameraFreezes(v) ==
  /\ allowed.freezes > 0 /\ v \in views \ frozen
  /\ frozen' = frozen \cup {v}
  /\ allowed' = [allowed EXCEPT !.freezes = @ - 1]
  /\ UNCHANGED <<views, frame, gate, windows, pointer, did, reunited, tools>>

-----------------------------------------------------------------------------
(* enable_camera_gestures and disable_camera_gestures: pgrep finds every   *)
(* process of the feature, starting, up or ending.                         *)

gestures == <<views, frame, frozen, gate, windows, pointer, did, reunited>>

Running == procs
Set(c, at, pid) == call' = [call EXCEPT ![c] = [at |-> at, pid |-> pid]]

Enable(c) ==
  /\ call[c].at = "idle" /\ allowed.calls > 0
  /\ IF Running = {} THEN Set(c, "spawn", 0) ELSE UNCHANGED call
  /\ overlapped' = (overlapped \/ \E d \in ToolThreads \ {c} : Running = {} /\ call[d].at = "spawn")
  /\ allowed' = [allowed EXCEPT !.calls = @ - 1]
  /\ UNCHANGED <<gestures, procs>>

Spawn(c) ==
  /\ call[c].at = "spawn"
  /\ LET pid == 1 + Max({0} \cup {p.pid : p \in procs}) IN
     /\ procs' = procs \cup {[pid |-> pid, state |-> "starting"]}
     /\ Set(c, "watch", pid)
  /\ UNCHANGED <<gestures, overlapped, allowed>>

\* an error if it ended while it was watched, "on" if it did not
Watched(c) ==
  /\ call[c].at = "watch"
  /\ Set(c, "idle", 0)
  /\ UNCHANGED <<gestures, procs, overlapped, allowed>>

\* a process comes up, fails to, is quit in its preview window or ends after the signal
ProcessMoves(p) ==
  /\ procs' = (procs \ {p}) \cup (IF p.state = "starting" THEN {[p EXCEPT !.state = "up"]} ELSE {})
     \/ procs' = procs \ {p}
  /\ UNCHANGED <<gestures, call, overlapped, allowed>>

Disable(c) ==
  /\ call[c].at = "idle" /\ allowed.calls > 0
  /\ IF Running = {} THEN UNCHANGED <<procs, call>>
     ELSE procs' = {[p EXCEPT !.state = "ending"] : p \in procs} /\ Set(c, "wait", 0)
  /\ allowed' = [allowed EXCEPT !.calls = @ - 1]
  /\ UNCHANGED <<gestures, overlapped>>

\* gone, or no longer waited for
Waited(c) ==
  /\ call[c].at = "wait"
  /\ Set(c, "idle", 0)
  /\ UNCHANGED <<gestures, procs, overlapped, allowed>>

HandNext ==
  \/ ReadFrame \/ Step \/ Grab \/ StepPointer \/ Cool
  \/ WindowCloses \/ WindowOpens \/ \E v \in Views : CameraFreezes(v)
  \/ \E c \in ToolThreads : Enable(c) \/ Spawn(c) \/ Watched(c) \/ Disable(c) \/ Waited(c)
  \/ \E p \in procs : ProcessMoves(p)

HandSpec == HandInit /\ [][HandNext]_handVars

-----------------------------------------------------------------------------
(* Properties.                                                             *)

\* The reference a gesture continues from is the one its grab made: a grab that fails, and a
\* change from one gesture straight to the other, never leave a mode whose reference is that of
\* another (session.py:87-139 reads keys that only the matching grab writes).
GripMatches == session \in {"run", "step", "point"} /\ mode # "IDLE" => ref.kind = mode

\* Cursor and window are never driven in the same frame, and while a window gesture is in
\* force the cursor is not driven at all (session.py:249).
OneThingAtATime ==
  did \cap {"cursor", "click"} # {} => mode = "IDLE" /\ did \cap {"MOVING", "RESIZING"} = {}

\* One click for one spread of the fingers: between two clicks the fingers were seen together,
\* whatever poses, dropouts and frames in the band of the hysteresis came in between
\* (pointer.py:70-75, 103-109).
ClicksNeedReunion == [][("click" \in did' /\ "click" \notin did) => reunited]_handVars

\* A pinch is for resizing: a frame whose hands all touch thumb to index leaves the cursor
\* alone (gestures.py:24-25, 151-155).
PinchNeverSteers ==
  did \cap {"cursor", "click"} # {} /\ session = "run" =>
    \E h \in Hands : Sees(FrontOrSide, h) /\ ~frame[FrontOrSide][h].pinching

\* Two gesture processes run only when two calls looked for one at the same time
\* (camera.py:92-94); a process that is still starting or ending counts.
OneProcess == ~overlapped => Cardinality(procs) <= 1

\* A gesture continues from its own grab, drives one thing at a time and never with a pinch,
\* in one process.
GesturesAreSafe == GripMatches /\ OneThingAtATime /\ PinchNeverSteers /\ OneProcess

\* Claims of the code that it does not keep.

\* fusion.py:54: a gesture is in force only after consecutive frames that show it.  The gate of
\* a hand that leaves the picture keeps its gesture: the hand that comes back grabs a window
\* with whatever it shows.
GrabsAreShown == "MOVING" \in did => \E h \in Hands, v \in Views : Reads(v, h) = "fist"

\* session.py:3: one hand moves the window.  Of two fists the more certain one counts, frame
\* by frame, and the window jumps by the distance between them.
OneHandMoves ==
  [][ref.kind = "MOVING" /\ ref'.kind = "MOVING" /\ "MOVING" \in did' =>
       ref'.hand = ref.hand]_handVars

\* session.py:177: the window is still there when its frame is read again.
AssertionHolds == session # "dead"
=============================================================================
