--------------------------- MODULE ProcessProofs ----------------------------
(***************************************************************************)
(* Theorems about the two components that must survive the end of a        *)
(* process, and about how a reply becomes a call.                          *)
(*                                                                         *)
(* ControlSession, for every number of sessions, every loop length, every  *)
(* set of tools, user acts and faults.  LateEventsBounded is not           *)
(* inductive: it says nothing of how many events the tool may still post   *)
(* before it checks again.  Ahead counts them, and the invariant bounds    *)
(* the sum of both.  Releases leave no glow behind (Doused), and whoever   *)
(* holds the mouse is watched (Watched).                                   *)
(*                                                                         *)
(* TaskJournal, for any number of tasks and steps, any replies and any     *)
(* budget of kills, torn lines, interrupts and failed writes: a crash      *)
(* costs one step, and a finished task stays finished.  CrashCostsOneStep  *)
(* is not inductive: the marker of a resumer is glued to a torn last line, *)
(* and takes the step with it that was on it.  Cost says that such a step  *)
(* was the last the loop took.  Its steps run down (Distance).             *)
(*                                                                         *)
(* Its calls come from ToolCalls.  For any tools and any reply that        *)
(* IsReply admits, what the parser returns is written in one of its        *)
(* objects, and tells where it was guessed.                                *)
(***************************************************************************)
EXTENDS ControlSession, TaskJournal, Loops, TLAPS

-----------------------------------------------------------------------------
(* Control sessions. *)

\* How many events the running tool can post before its next check().
Ahead ==
  CASE pc \in {"c_down", "k_down"} -> 2
    [] pc \in {"m_post", "c_up", "d_down", "d_up", "s_post", "k_up"} -> 1
    [] pc = "d_post" -> IF n < MoveSteps THEN 1 ELSE 2
    [] pc = "d_note" -> IF n < MoveSteps THEN 0 ELSE 1
    [] OTHER -> 0

AcquirePcs == {"a_register", "a_overlay", "a_watch", "a_audit"}
ToolPcs == OwnerPcs \ ({"idle", "stopping"} \cup AcquirePcs)

\* A session that start() has not created yet is untouched, and the owner's
\* own variables name sessions that exist.
Created ==
  /\ current <= opened
  /\ pc \in AcquirePcs => opened # 0
  /\ pc \in ToolPcs => current # 0
  /\ \A s \in Sessions : s > opened => late[s] = 0 /\ ~active[s]

\* An active session has had no late event; the others can still receive what
\* the running tool has ahead of it.
LateInv ==
  /\ \A s \in Sessions : active[s] => late[s] = 0
  /\ \A s \in Sessions : s # current => late[s] <= 2
  /\ current # 0 => late[current] + Ahead <= 2

IInv == TypeOK /\ Created /\ LateInv

\* What the proofs need of the constants.
LEMMA ConstantTypes ==
  /\ MaxSessions \in Nat \ {0} /\ MoveSteps \in Nat \ {0}
  /\ NoPoint \notin Points
  /\ Ops \subseteq AllOps
  BY ControlAssumption DEF ControlAssumption

USE ConstantTypes DEF Sessions, Threads

-----------------------------------------------------------------------------

\* The saturating counter stays within its bound.
LEMMA CappedType ==
  ASSUME NEW max \in Nat, NEW k \in 0 .. max
  PROVE  Capped(k, max) \in 0 .. max
  BY DEF Capped

\* An EXCEPT keeps the type of a function.
LEMMA ExceptType ==
  ASSUME NEW S, NEW T, NEW f \in [S -> T], NEW x, NEW v, x \in S => v \in T
  PROVE  [f EXCEPT ![x] = v] \in [S -> T]
  OBVIOUS

\* A delivered event leaves the history variables typed.
LEMMA DeliverType == HistoryTypeOK /\ Deliver => HistoryTypeOK'
  <1> SUFFICES ASSUME HistoryTypeOK, Deliver PROVE HistoryTypeOK'
    OBVIOUS
  <1>1. late' \in [Sessions -> 0 .. MaxLate]
    <2> DEFINE v == IF active[current] THEN late[current] ELSE Capped(late[current], MaxLate)
    <2>1. current \in Sessions => v \in 0 .. MaxLate
      BY CappedType DEF HistoryTypeOK, MaxLate
    <2>2. late' = [late EXCEPT ![current] = v]
      BY DEF Deliver
    <2> QED BY <2>1, <2>2, ExceptType DEF HistoryTypeOK
  <1>2. unlit' \in [Sessions -> BOOLEAN]
    BY DEF Deliver, HistoryTypeOK
  <1> QED BY <1>1, <1>2 DEF HistoryTypeOK, Deliver

\* A delivered event uses up one of those the tool has ahead of it.
LEMMA DeliverLate ==
  ASSUME TypeOK, Created, LateInv, current # 0, Deliver,
         UNCHANGED <<active, current>>,
         NEW i \in 0 .. 2, NEW j \in Nat, Ahead = i, Ahead' = j, j < i
  PROVE  LateInv'
  <1>1. /\ current \in Sessions
        /\ active \in [Sessions -> BOOLEAN]
        /\ late \in [Sessions -> 0 .. 3]
        /\ late[current] + i <= 2
    BY DEF TypeOK, SessionTypeOK, OwnerTypeOK, HistoryTypeOK, MaxLate, LateInv
  <1>2. late' = [late EXCEPT ![current] =
                   IF active[current] THEN late[current] ELSE late[current] + 1]
    <2>1. Capped(late[current], MaxLate) = late[current] + 1
      BY <1>1 DEF Capped, MaxLate
    <2> QED BY <2>1 DEF Deliver
  <1>3. late' \in [Sessions -> Nat]
    BY <1>1, <1>2
  <1>4. \A s \in Sessions : active'[s] => late'[s] = 0
    BY <1>1, <1>2 DEF LateInv
  <1>5. \A s \in Sessions : s # current' => late'[s] <= 2
    BY <1>1, <1>2 DEF LateInv
  <1>6. late'[current'] + j <= 2
    BY <1>1, <1>2, <1>3
  <1> QED BY <1>4, <1>5, <1>6 DEF LateInv

\* With no tool running, another session may become the current one.
LEMMA LateAtRest ==
  ASSUME TypeOK, LateInv, Ahead = 0, Ahead' = 0, UNCHANGED <<active, late>>,
         current' \in 0 .. MaxSessions
  PROVE  LateInv'
  <1>1. /\ current \in 0 .. MaxSessions
        /\ late \in [Sessions -> 0 .. 3]
    BY DEF TypeOK, OwnerTypeOK, HistoryTypeOK, MaxLate
  <1>2. \A s \in Sessions : late[s] <= 2
    BY <1>1 DEF LateInv
  <1>3. current' # 0 => late'[current'] + Ahead' <= 2
    BY <1>1, <1>2
  <1> QED BY <1>2, <1>3 DEF LateInv

\* The inductive invariant holds before start() has ever been called.
THEOREM InitInv == Init => IInv
  <1> SUFFICES ASSUME Init PROVE IInv
    OBVIOUS
  <1>1. TypeOK
    <2>1. SessionTypeOK
      BY DEF Init, SessionTypeOK
    <2>2. ThreadTypeOK
      BY DEF Init, ThreadTypeOK
    <2>3. OwnerTypeOK
      <3>1. /\ current \in 0 .. MaxSessions /\ opened \in 0 .. MaxSessions
            /\ n \in 1 .. MoveSteps
        BY DEF Init
      <3>2. pidFile \in BOOLEAN /\ alive \in BOOLEAN /\ button \in BOOLEAN
        BY Zenon DEF Init
      <3>3. pc \in OwnerPcs /\ op \in AllOps /\ aim \in Points /\ pointer \in Points
        BY DEF Init, OwnerPcs, AllOps
      <3> QED BY <3>1, <3>2, <3>3, Zenon DEF OwnerTypeOK
    <2>4. HistoryTypeOK
      BY DEF Init, HistoryTypeOK, MaxLate, MaxReleases
    <2> QED BY <2>1, <2>2, <2>3, <2>4 DEF TypeOK
  <1>2. Created
    BY DEF Init, Created, AcquirePcs, ToolPcs, OwnerPcs
  <1>3. LateInv
    BY SMTT(30) DEF Init, LateInv, Ahead
  <1> QED BY <1>1, <1>2, <1>3 DEF IInv

-----------------------------------------------------------------------------
(* One step lemma for each part of the inductive invariant.                *)

\* Every step keeps the types.
LEMMA TypeStep == TypeOK /\ Created /\ [Next]_vars => TypeOK'
  <1> SUFFICES ASSUME TypeOK, Created, [Next]_vars PROVE TypeOK'
    OBVIOUS
  <1> USE DEF TypeOK, SessionTypeOK, ThreadTypeOK, OwnerTypeOK, HistoryTypeOK,
      OwnerPcs, AllOps,
      vars, sessionVars, threadVars, moduleVars, ownerVars, screenVars, historyVars
  <1>0. pc \in AcquirePcs => opened \in Sessions
    BY DEF Created
  <1> USE DEF AcquirePcs
  <1>1. CASE Start
    BY <1>1 DEF Start, Passes
  <1>2. CASE Register
    BY <1>2, <1>0 DEF Register, Refuse
  <1>3. CASE StartOverlay
    BY <1>3, <1>0 DEF StartOverlay, Refuse
  <1>4. CASE StartWatcher
    BY <1>4 DEF StartWatcher
  <1>45. CASE Acquired
    BY <1>45, <1>0 DEF Acquired, Refuse
  <1>5. CASE Stop
    BY <1>5 DEF Stop
  <1>6. CASE Stopped
    BY <1>6 DEF Stopped
  <1>7. ASSUME NEW t \in Threads, RelCheck(t) PROVE TypeOK'
    BY <1>7 DEF RelCheck, Subject
  <1>8. ASSUME NEW t \in Threads, RelMark(t) PROVE TypeOK'
    BY <1>8, ZenonT(60) DEF RelMark, Releaser, Subject
  <1>9. ASSUME NEW t \in Threads, RelGlow(t) PROVE TypeOK'
    BY <1>9 DEF RelGlow, Subject
  <1>10. ASSUME NEW t \in Threads, RelClose(t) PROVE TypeOK'
    <2>1. closed' \in [Sessions -> BOOLEAN]
      <3>1. closed \in [Sessions -> BOOLEAN]
        OBVIOUS
      <3>2. closed' = closed \/ closed' = [closed EXCEPT ![Subject(t)] = TRUE]
        BY <1>10 DEF RelClose
      <3> QED BY <3>1, <3>2
    <2>2. SessionTypeOK'
      BY <1>10, <2>1 DEF RelClose
    <2>3. ThreadTypeOK'
      BY <1>10, ZenonT(60) DEF RelClose
    <2>4. OwnerTypeOK' /\ HistoryTypeOK'
      BY <1>10 DEF RelClose
    <2> QED BY <2>2, <2>3, <2>4
  <1>11. ASSUME NEW t \in Threads, RelWait(t) PROVE TypeOK'
    <2>1. proc' \in [Sessions -> {"none", "starting", "up", "exited"}]
      <3>1. proc \in [Sessions -> {"none", "starting", "up", "exited"}]
        OBVIOUS
      <3>2. proc' = proc \/ proc' = [proc EXCEPT ![Subject(t)] = "exited"]
        BY <1>11 DEF RelWait
      <3> QED BY <3>1, <3>2
    <2>2. SessionTypeOK'
      BY <1>11, <2>1 DEF RelWait
    <2>3. ThreadTypeOK'
      BY <1>11 DEF RelWait
    <2>4. OwnerTypeOK' /\ HistoryTypeOK'
      BY <1>11 DEF RelWait
    <2> QED BY <2>2, <2>3, <2>4
  <1>12. ASSUME NEW t \in Threads, RelClear(t) PROVE TypeOK'
    BY <1>12, ZenonT(60) DEF RelClear, Subject
  <1>13. ASSUME NEW t \in Threads, RelUnregister(t) PROVE TypeOK'
    BY <1>13, ZenonT(60) DEF RelUnregister, Subject
  <1>14. ASSUME NEW t \in Threads, RelFinish(t) PROVE TypeOK'
    <2>1. releases' \in [Sessions -> 0 .. MaxReleases]
      <3>1. releases' = releases \/ \E v : /\ releases' = [releases EXCEPT ![Subject(t)] = v]
                                           /\ Subject(t) \in Sessions => v \in 0 .. MaxReleases
        BY <1>14, CappedType DEF RelFinish, MaxReleases
      <3> QED BY <3>1, ExceptType
    <2>2. ThreadTypeOK'
      <3>1. rel' = [rel EXCEPT ![t] = "none"] \/ rel' = [rel EXCEPT ![t] = "raised"]
        BY <1>14 DEF RelFinish
      <3> QED BY <1>14, <3>1 DEF RelFinish
    <2> QED BY <1>14, <2>1, <2>2, ZenonT(60) DEF RelFinish
  <1>15. ASSUME NEW s \in Sessions, WatchStops(s) PROVE TypeOK'
    BY <1>15 DEF WatchStops
  <1>16. ASSUME NEW s \in Sessions, WatchExpected(s) PROVE TypeOK'
    BY <1>16 DEF WatchExpected
  <1>17. ASSUME NEW s \in Sessions, WatchPointer(s) PROVE TypeOK'
    <2>1. SessionTypeOK' /\ OwnerTypeOK' /\ HistoryTypeOK'
      BY <1>17 DEF WatchPointer
    <2>2. /\ watch' \in [Sessions -> {"none", "wait", "read", "release", "done"}]
          /\ seen' \in [Sessions -> Points \cup {NoPoint}]
      BY <1>17 DEF WatchPointer
    <2>3. rel' = rel \/ rel' = [rel EXCEPT ![s] = "check"]
      BY <1>17 DEF WatchPointer
    <2>4. ThreadTypeOK'
      BY <2>2, <2>3
    <2> QED BY <2>1, <2>4
  <1>18. ASSUME NEW s \in Sessions, WatchReturns(s) PROVE TypeOK'
    BY <1>18 DEF WatchReturns
  <1>19. CASE CallTool
    BY <1>19 DEF CallTool, Passes
  <1>20. CASE Require
    BY <1>20 DEF Require, Raise, FirstSteps, Passes
  <1>21. CASE MoveCheck
    BY <1>21 DEF MoveCheck, Check, Raise
  <1>22. CASE MovePost
    <2>1. HistoryTypeOK'
      BY <1>22, DeliverType DEF MovePost, PostMotion
    <2>2. SessionTypeOK' /\ ThreadTypeOK'
      BY <1>22 DEF MovePost, PostMotion
    <2>3. OwnerTypeOK'
      BY <1>22 DEF MovePost, PostMotion
    <2> QED BY <2>1, <2>2, <2>3
  <1>23. CASE MoveNote
    <2>0. HistoryTypeOK'
      BY <1>23 DEF MoveNote, Note
    <2>1. n' \in 1 .. MoveSteps
      BY <1>23 DEF MoveNote, Loop
    <2>2. pc' \in OwnerPcs
      BY <1>23 DEF MoveNote, Loop, AfterMove
    <2>3. SessionTypeOK' /\ ThreadTypeOK'
      BY <1>23 DEF MoveNote, Note
    <2>4. OwnerTypeOK'
      BY <1>23, <2>1, <2>2 DEF MoveNote, Note
    <2> QED BY <2>0, <2>3, <2>4
  <1>24. CASE ClickCheck
    BY <1>24 DEF ClickCheck, Check, Raise
  <1>25. CASE ClickDown
    <2>1. HistoryTypeOK'
      BY <1>25, DeliverType DEF ClickDown, PostPlain
    <2>2. SessionTypeOK' /\ ThreadTypeOK'
      BY <1>25 DEF ClickDown, PostPlain
    <2>3. OwnerTypeOK'
      BY <1>25 DEF ClickDown, PostPlain
    <2> QED BY <2>1, <2>2, <2>3
  <1>26. CASE ClickUp
    <2>0. HistoryTypeOK'
      BY <1>26, DeliverType DEF ClickUp, PostPlain
    <2>1. n' \in 1 .. MoveSteps
      BY <1>26 DEF ClickUp, Loop
    <2>2. pc' \in OwnerPcs
      BY <1>26 DEF ClickUp, Loop
    <2>3. SessionTypeOK' /\ ThreadTypeOK'
      BY <1>26 DEF ClickUp, PostPlain
    <2>4. OwnerTypeOK'
      BY <1>26, <2>1, <2>2 DEF ClickUp, PostPlain
    <2> QED BY <2>0, <2>3, <2>4
  <1>27. CASE DragStart
    BY <1>27 DEF DragStart, Check, Raise
  <1>28. CASE DragDown
    <2>1. HistoryTypeOK'
      BY <1>28, DeliverType DEF DragDown, PostPlain
    <2>2. SessionTypeOK' /\ ThreadTypeOK'
      BY <1>28 DEF DragDown, PostPlain
    <2>3. OwnerTypeOK'
      BY <1>28 DEF DragDown, PostPlain
    <2> QED BY <2>1, <2>2, <2>3
  <1>29. CASE DragCheck
    BY <1>29 DEF DragCheck, Check, Raise
  <1>30. CASE DragPost
    <2>1. HistoryTypeOK'
      BY <1>30, DeliverType DEF DragPost, PostMotion
    <2>2. SessionTypeOK' /\ ThreadTypeOK'
      BY <1>30 DEF DragPost, PostMotion
    <2>3. OwnerTypeOK'
      BY <1>30 DEF DragPost, PostMotion
    <2> QED BY <2>1, <2>2, <2>3
  <1>31. CASE DragNote
    <2>0. HistoryTypeOK'
      BY <1>31 DEF DragNote, Note
    <2>1. n' \in 1 .. MoveSteps
      BY <1>31 DEF DragNote, Loop
    <2>2. pc' \in OwnerPcs
      BY <1>31 DEF DragNote, Loop
    <2>3. SessionTypeOK' /\ ThreadTypeOK'
      BY <1>31 DEF DragNote, Note
    <2>4. OwnerTypeOK'
      BY <1>31, <2>1, <2>2 DEF DragNote, Note
    <2> QED BY <2>0, <2>3, <2>4
  <1>32. CASE DragUp
    <2>1. HistoryTypeOK'
      BY <1>32, DeliverType DEF DragUp, PostPlain
    <2>2. SessionTypeOK' /\ ThreadTypeOK'
      BY <1>32 DEF DragUp, PostPlain
    <2>3. OwnerTypeOK'
      BY <1>32 DEF DragUp, PostPlain
    <2> QED BY <2>1, <2>2, <2>3
  <1>33. CASE DragLast
    BY <1>33 DEF DragLast, Note
  <1>34. CASE ScrollCheck
    BY <1>34 DEF ScrollCheck, Check, Raise
  <1>35. CASE ScrollPost
    <2>1. HistoryTypeOK'
      BY <1>35, DeliverType DEF ScrollPost, PostPlain
    <2>2. SessionTypeOK' /\ ThreadTypeOK'
      BY <1>35 DEF ScrollPost, PostPlain
    <2>3. OwnerTypeOK'
      BY <1>35 DEF ScrollPost, PostPlain
    <2> QED BY <2>1, <2>2, <2>3
  <1>36. CASE KeyCheck
    BY <1>36 DEF KeyCheck, Check, Raise
  <1>37. CASE KeyDown
    <2>1. HistoryTypeOK'
      BY <1>37, DeliverType DEF KeyDown, PostPlain
    <2>2. SessionTypeOK' /\ ThreadTypeOK'
      BY <1>37 DEF KeyDown, PostPlain
    <2>3. OwnerTypeOK'
      BY <1>37 DEF KeyDown, PostPlain
    <2> QED BY <2>1, <2>2, <2>3
  <1>38. CASE KeyUp
    <2>1. HistoryTypeOK'
      BY <1>38, DeliverType DEF KeyUp, PostPlain
    <2>2. SessionTypeOK' /\ ThreadTypeOK'
      BY <1>38 DEF KeyUp, PostPlain, Loop
    <2>3. OwnerTypeOK'
      BY <1>38 DEF KeyUp, PostPlain, Loop
    <2> QED BY <2>1, <2>2, <2>3
  <1>39. ASSUME NEW s \in Sessions, OverlayShows(s) PROVE TypeOK'
    BY <1>39 DEF OverlayShows
  <1>40. ASSUME NEW s \in Sessions, OverlayExits(s) PROVE TypeOK'
    BY <1>40 DEF OverlayExits
  <1>41. ASSUME NEW s \in Sessions, OverlayFails(s) PROVE TypeOK'
    BY <1>41 DEF OverlayFails
  <1>42. CASE Crash
    BY <1>42, ZenonT(60) DEF Crash
  <1>43. CASE UserMoves
    BY <1>43 DEF UserMoves
  <1>44. CASE ShellRelease
    BY <1>44 DEF ShellRelease
  <1>46. CASE UNCHANGED vars
    BY <1>46
  <1> QED BY <1>1, <1>2, <1>3, <1>4, <1>5, <1>6, <1>7, <1>8, <1>9, <1>10, <1>11, <1>12,
      <1>13, <1>14, <1>15, <1>16, <1>17, <1>18, <1>19, <1>20, <1>21, <1>22, <1>23,
      <1>24, <1>25, <1>26, <1>27, <1>28, <1>29, <1>30, <1>31, <1>32, <1>33, <1>34,
      <1>35, <1>36, <1>37, <1>38, <1>39, <1>40, <1>41, <1>42, <1>43, <1>44, <1>45, <1>46
      DEF Next, Release, Watcher, Tool, ToolStep, Environment

\* Every step keeps what is said of sessions not yet created.
LEMMA CreatedStep == TypeOK /\ Created /\ [Next]_vars => Created'
  <1> SUFFICES ASSUME TypeOK /\ Created, [Next]_vars PROVE Created'
    OBVIOUS
  <1> USE DEF TypeOK, SessionTypeOK, ThreadTypeOK, OwnerTypeOK, HistoryTypeOK,
      OwnerPcs, Created, AcquirePcs, ToolPcs, Capped, MaxLate,
      vars, sessionVars, threadVars, moduleVars, ownerVars, screenVars, historyVars
  <1>1. CASE Start
    BY <1>1 DEF Start, Passes
  <1>2. CASE Register
    BY <1>2 DEF Register, Refuse
  <1>3. CASE StartOverlay
    BY <1>3 DEF StartOverlay, Refuse
  <1>4. CASE StartWatcher
    BY <1>4 DEF StartWatcher
  <1>45. CASE Acquired
    BY <1>45 DEF Acquired, Refuse
  <1>5. CASE Stop
    BY <1>5 DEF Stop
  <1>6. CASE Stopped
    BY <1>6 DEF Stopped
  <1>7. ASSUME NEW t \in Threads, RelCheck(t) PROVE Created'
    BY <1>7 DEF RelCheck, Subject
  <1>8. ASSUME NEW t \in Threads, RelMark(t) PROVE Created'
    BY <1>8 DEF RelMark, Releaser, Subject
  <1>9. ASSUME NEW t \in Threads, RelGlow(t) PROVE Created'
    BY <1>9 DEF RelGlow, Subject
  <1>10. ASSUME NEW t \in Threads, RelClose(t) PROVE Created'
    BY <1>10 DEF RelClose, Subject
  <1>11. ASSUME NEW t \in Threads, RelWait(t) PROVE Created'
    BY <1>11 DEF RelWait, Subject
  <1>12. ASSUME NEW t \in Threads, RelClear(t) PROVE Created'
    BY <1>12 DEF RelClear, Subject
  <1>13. ASSUME NEW t \in Threads, RelUnregister(t) PROVE Created'
    BY <1>13 DEF RelUnregister, Subject
  <1>14. ASSUME NEW t \in Threads, RelFinish(t) PROVE Created'
    BY <1>14 DEF RelFinish, Releaser, Subject
  <1>15. ASSUME NEW s \in Sessions, WatchStops(s) PROVE Created'
    BY <1>15 DEF WatchStops
  <1>16. ASSUME NEW s \in Sessions, WatchExpected(s) PROVE Created'
    BY <1>16 DEF WatchExpected
  <1>17. ASSUME NEW s \in Sessions, WatchPointer(s) PROVE Created'
    BY <1>17 DEF WatchPointer
  <1>18. ASSUME NEW s \in Sessions, WatchReturns(s) PROVE Created'
    BY <1>18 DEF WatchReturns
  <1>19. CASE CallTool
    BY <1>19 DEF CallTool, Passes
  <1>20. CASE Require
    BY <1>20 DEF Require, Raise, FirstSteps, Passes
  <1>21. CASE MoveCheck
    BY <1>21 DEF MoveCheck, Check, Raise
  <1>22. CASE MovePost
    BY <1>22 DEF MovePost, PostMotion, Deliver
  <1>23. CASE MoveNote
    BY <1>23 DEF MoveNote, Note, Loop, AfterMove
  <1>24. CASE ClickCheck
    BY <1>24 DEF ClickCheck, Check, Raise
  <1>25. CASE ClickDown
    BY <1>25 DEF ClickDown, PostPlain, Deliver
  <1>26. CASE ClickUp
    BY <1>26 DEF ClickUp, PostPlain, Deliver, Loop
  <1>27. CASE DragStart
    BY <1>27 DEF DragStart, Check, Raise
  <1>28. CASE DragDown
    BY <1>28 DEF DragDown, PostPlain, Deliver
  <1>29. CASE DragCheck
    BY <1>29 DEF DragCheck, Check, Raise
  <1>30. CASE DragPost
    BY <1>30 DEF DragPost, PostMotion, Deliver
  <1>31. CASE DragNote
    BY <1>31 DEF DragNote, Note, Loop
  <1>32. CASE DragUp
    BY <1>32 DEF DragUp, PostPlain, Deliver
  <1>33. CASE DragLast
    BY <1>33 DEF DragLast, Note
  <1>34. CASE ScrollCheck
    BY <1>34 DEF ScrollCheck, Check, Raise
  <1>35. CASE ScrollPost
    BY <1>35 DEF ScrollPost, PostPlain, Deliver
  <1>36. CASE KeyCheck
    BY <1>36 DEF KeyCheck, Check, Raise
  <1>37. CASE KeyDown
    BY <1>37 DEF KeyDown, PostPlain, Deliver
  <1>38. CASE KeyUp
    BY <1>38 DEF KeyUp, PostPlain, Deliver, Loop
  <1>39. ASSUME NEW s \in Sessions, OverlayShows(s) PROVE Created'
    BY <1>39 DEF OverlayShows
  <1>40. ASSUME NEW s \in Sessions, OverlayExits(s) PROVE Created'
    BY <1>40 DEF OverlayExits
  <1>41. ASSUME NEW s \in Sessions, OverlayFails(s) PROVE Created'
    BY <1>41 DEF OverlayFails
  <1>42. CASE Crash
    BY <1>42 DEF Crash
  <1>43. CASE UserMoves
    BY <1>43 DEF UserMoves
  <1>44. CASE ShellRelease
    BY <1>44 DEF ShellRelease
  <1>46. CASE UNCHANGED vars
    BY <1>46
  <1> QED BY <1>1, <1>2, <1>3, <1>4, <1>5, <1>6, <1>7, <1>8, <1>9, <1>10, <1>11, <1>12,
      <1>13, <1>14, <1>15, <1>16, <1>17, <1>18, <1>19, <1>20, <1>21, <1>22, <1>23,
      <1>24, <1>25, <1>26, <1>27, <1>28, <1>29, <1>30, <1>31, <1>32, <1>33, <1>34,
      <1>35, <1>36, <1>37, <1>38, <1>39, <1>40, <1>41, <1>42, <1>43, <1>44, <1>45, <1>46
      DEF Next, Release, Watcher, Tool, ToolStep, Environment

\* Every step keeps the bound on late events.
LEMMA LateStep == TypeOK /\ Created /\ LateInv /\ [Next]_vars => LateInv'
  <1> SUFFICES ASSUME TypeOK /\ Created /\ LateInv, [Next]_vars PROVE LateInv'
    OBVIOUS
  <1> USE DEF TypeOK, SessionTypeOK, ThreadTypeOK, OwnerTypeOK, HistoryTypeOK,
      Created, ToolPcs, OwnerPcs, AcquirePcs, LateInv, Ahead, Capped, MaxLate,
      vars, sessionVars, threadVars, moduleVars, ownerVars, screenVars, historyVars
  <1>1. CASE Start
    BY <1>1 DEF Start, Passes
  <1>2. CASE Register
    BY <1>2 DEF Register, Refuse
  <1>3. CASE StartOverlay
    BY <1>3 DEF StartOverlay, Refuse
  <1>4. CASE StartWatcher
    BY <1>4 DEF StartWatcher
  <1>45. CASE Acquired
    <2>1. /\ Ahead = 0 /\ Ahead' = 0 /\ UNCHANGED <<active, late>>
          /\ current' \in 0 .. MaxSessions
      BY <1>45 DEF Acquired, Refuse
    <2> QED BY <2>1, LateAtRest
  <1>5. CASE Stop
    BY <1>5 DEF Stop
  <1>6. CASE Stopped
    <2>1. /\ Ahead = 0 /\ Ahead' = 0 /\ UNCHANGED <<active, late>>
          /\ current' \in 0 .. MaxSessions
      BY <1>6 DEF Stopped
    <2> QED BY <2>1, LateAtRest
  <1>7. ASSUME NEW t \in Threads, RelCheck(t) PROVE LateInv'
    BY <1>7 DEF RelCheck, Subject
  <1>8. ASSUME NEW t \in Threads, RelMark(t) PROVE LateInv'
    BY <1>8 DEF RelMark, Releaser, Subject
  <1>9. ASSUME NEW t \in Threads, RelGlow(t) PROVE LateInv'
    BY <1>9 DEF RelGlow, Subject
  <1>10. ASSUME NEW t \in Threads, RelClose(t) PROVE LateInv'
    BY <1>10 DEF RelClose, Subject
  <1>11. ASSUME NEW t \in Threads, RelWait(t) PROVE LateInv'
    BY <1>11 DEF RelWait, Subject
  <1>12. ASSUME NEW t \in Threads, RelClear(t) PROVE LateInv'
    BY <1>12 DEF RelClear, Subject
  <1>13. ASSUME NEW t \in Threads, RelUnregister(t) PROVE LateInv'
    BY <1>13 DEF RelUnregister, Subject
  <1>14. ASSUME NEW t \in Threads, RelFinish(t) PROVE LateInv'
    BY <1>14 DEF RelFinish, Releaser, Subject
  <1>15. ASSUME NEW s \in Sessions, WatchStops(s) PROVE LateInv'
    BY <1>15 DEF WatchStops
  <1>16. ASSUME NEW s \in Sessions, WatchExpected(s) PROVE LateInv'
    BY <1>16 DEF WatchExpected
  <1>17. ASSUME NEW s \in Sessions, WatchPointer(s) PROVE LateInv'
    BY <1>17 DEF WatchPointer
  <1>18. ASSUME NEW s \in Sessions, WatchReturns(s) PROVE LateInv'
    BY <1>18 DEF WatchReturns
  <1>19. CASE CallTool
    BY <1>19 DEF CallTool, Passes
  <1>20. CASE Require
    BY <1>20 DEF Require, Raise, FirstSteps, Passes
  <1>21. CASE MoveCheck
    BY <1>21 DEF MoveCheck, Check, Raise
  <1>22. CASE MovePost
    <2>1. current # 0 /\ Deliver /\ UNCHANGED <<active, current>>
      BY <1>22 DEF MovePost, PostMotion
    <2>2. Ahead \in 0 .. 2 /\ Ahead' \in Nat /\ Ahead' < Ahead
      BY <1>22 DEF MovePost, PostMotion
    <2> QED BY <2>1, <2>2, DeliverLate
  <1>23. CASE MoveNote
    BY <1>23 DEF MoveNote, Note, Loop, AfterMove
  <1>24. CASE ClickCheck
    BY <1>24 DEF ClickCheck, Check, Raise
  <1>25. CASE ClickDown
    <2>1. current # 0 /\ Deliver /\ UNCHANGED <<active, current>>
      BY <1>25 DEF ClickDown, PostPlain
    <2>2. Ahead \in 0 .. 2 /\ Ahead' \in Nat /\ Ahead' < Ahead
      BY <1>25 DEF ClickDown, PostPlain
    <2> QED BY <2>1, <2>2, DeliverLate
  <1>26. CASE ClickUp
    <2>1. current # 0 /\ Deliver /\ UNCHANGED <<active, current>>
      BY <1>26 DEF ClickUp, PostPlain
    <2>2. Ahead \in 0 .. 2 /\ Ahead' \in Nat /\ Ahead' < Ahead
      BY <1>26 DEF ClickUp, PostPlain, Loop
    <2> QED BY <2>1, <2>2, DeliverLate
  <1>27. CASE DragStart
    BY <1>27 DEF DragStart, Check, Raise
  <1>28. CASE DragDown
    <2>1. current # 0 /\ Deliver /\ UNCHANGED <<active, current>>
      BY <1>28 DEF DragDown, PostPlain
    <2>2. Ahead \in 0 .. 2 /\ Ahead' \in Nat /\ Ahead' < Ahead
      BY <1>28 DEF DragDown, PostPlain
    <2> QED BY <2>1, <2>2, DeliverLate
  <1>29. CASE DragCheck
    BY <1>29 DEF DragCheck, Check, Raise
  <1>30. CASE DragPost
    <2>1. current # 0 /\ Deliver /\ UNCHANGED <<active, current>>
      BY <1>30 DEF DragPost, PostMotion
    <2>2. Ahead \in 0 .. 2 /\ Ahead' \in Nat /\ Ahead' < Ahead
      BY <1>30 DEF DragPost, PostMotion
    <2> QED BY <2>1, <2>2, DeliverLate
  <1>31. CASE DragNote
    BY <1>31 DEF DragNote, Note, Loop
  <1>32. CASE DragUp
    <2>1. current # 0 /\ Deliver /\ UNCHANGED <<active, current>>
      BY <1>32 DEF DragUp, PostPlain
    <2>2. Ahead \in 0 .. 2 /\ Ahead' \in Nat /\ Ahead' < Ahead
      BY <1>32 DEF DragUp, PostPlain
    <2> QED BY <2>1, <2>2, DeliverLate
  <1>33. CASE DragLast
    BY <1>33 DEF DragLast, Note
  <1>34. CASE ScrollCheck
    BY <1>34 DEF ScrollCheck, Check, Raise
  <1>35. CASE ScrollPost
    <2>1. current # 0 /\ Deliver /\ UNCHANGED <<active, current>>
      BY <1>35 DEF ScrollPost, PostPlain
    <2>2. Ahead \in 0 .. 2 /\ Ahead' \in Nat /\ Ahead' < Ahead
      BY <1>35 DEF ScrollPost, PostPlain
    <2> QED BY <2>1, <2>2, DeliverLate
  <1>36. CASE KeyCheck
    BY <1>36 DEF KeyCheck, Check, Raise
  <1>37. CASE KeyDown
    <2>1. current # 0 /\ Deliver /\ UNCHANGED <<active, current>>
      BY <1>37 DEF KeyDown, PostPlain
    <2>2. Ahead \in 0 .. 2 /\ Ahead' \in Nat /\ Ahead' < Ahead
      BY <1>37 DEF KeyDown, PostPlain
    <2> QED BY <2>1, <2>2, DeliverLate
  <1>38. CASE KeyUp
    <2>1. current # 0 /\ Deliver /\ UNCHANGED <<active, current>>
      BY <1>38 DEF KeyUp, PostPlain
    <2>2. Ahead \in 0 .. 2 /\ Ahead' \in Nat /\ Ahead' < Ahead
      BY <1>38 DEF KeyUp, PostPlain, Loop
    <2> QED BY <2>1, <2>2, DeliverLate
  <1>39. ASSUME NEW s \in Sessions, OverlayShows(s) PROVE LateInv'
    BY <1>39 DEF OverlayShows
  <1>40. ASSUME NEW s \in Sessions, OverlayExits(s) PROVE LateInv'
    BY <1>40 DEF OverlayExits
  <1>41. ASSUME NEW s \in Sessions, OverlayFails(s) PROVE LateInv'
    BY <1>41 DEF OverlayFails
  <1>42. CASE Crash
    BY <1>42 DEF Crash
  <1>43. CASE UserMoves
    BY <1>43 DEF UserMoves
  <1>44. CASE ShellRelease
    BY <1>44 DEF ShellRelease
  <1>46. CASE UNCHANGED vars
    BY <1>46
  <1> QED BY <1>1, <1>2, <1>3, <1>4, <1>5, <1>6, <1>7, <1>8, <1>9, <1>10, <1>11, <1>12,
      <1>13, <1>14, <1>15, <1>16, <1>17, <1>18, <1>19, <1>20, <1>21, <1>22, <1>23,
      <1>24, <1>25, <1>26, <1>27, <1>28, <1>29, <1>30, <1>31, <1>32, <1>33, <1>34,
      <1>35, <1>36, <1>37, <1>38, <1>39, <1>40, <1>41, <1>42, <1>43, <1>44, <1>45, <1>46
      DEF Next, Release, Watcher, Tool, ToolStep, Environment

-----------------------------------------------------------------------------

\* The inductive invariant holds in every reachable state.
THEOREM Invariance == Spec => []IInv
  <1>1. IInv /\ [Next]_vars => IInv'
    BY TypeStep, CreatedStep, LateStep DEF IInv
  <1> QED BY InitInv, <1>1, PTL DEF Spec

\* Type correctness of the session, its watchers and the input tools.
THEOREM TypeCorrect == Spec => []TypeOK
  <1>1. IInv => TypeOK
    BY DEF IInv
  <1> QED BY Invariance, <1>1, PTL

\* Once control has been given back, at most two more synthetic events of the
\* session arrive, for any length of the loops of input.py, any number of
\* sessions and any interleaving of release() with the tools.
THEOREM LateBound == Spec => []LateEventsBounded
  <1>1. IInv => LateEventsBounded
    <2> SUFFICES ASSUME IInv, NEW s \in Sessions PROVE late[s] <= 2
      BY DEF LateEventsBounded
    <2>1. CASE s # current
      BY <2>1 DEF IInv, LateInv
    <2>2. CASE s = current
      <3>1. Ahead \in {0, 1, 2}
        BY DEF Ahead
      <3>2. late[s] \in 0 .. 3
        BY DEF IInv, TypeOK, HistoryTypeOK, MaxLate
      <3>3. current # 0
        BY <2>2
      <3>4. late[current] + Ahead <= 2
        BY <3>3 DEF IInv, LateInv
      <3> QED BY <2>2, <3>1, <3>2, <3>4
    <2> QED BY <2>1, <2>2
  <1> QED BY Invariance, <1>1, PTL

-----------------------------------------------------------------------------
(* Sessions that follow one another.                                       *)

\* Which threads are inside release(): the owner only while stop() runs, and
\* then control is held until it has passed "mark"; a watcher only after its
\* last poll.  The watcher of a session being acquired ignores it, so nobody can
\* end it, and start() goes ahead only when no current session is active.
Untouched(s) ==
  expected[s] = NoPoint /\ ~StopSet(s) /\ watch[s] \in {"none", "wait"}

Orderly ==
  /\ pc # "stopping" => rel[0] = "none"
  /\ pc = "stopping" =>
       current # 0 /\ (rel[0] \in {"check", "mark"} \/ ~active[current])
  /\ pc \in AcquirePcs => active[opened] /\ ~Passes
  /\ pc = "a_audit" => watch[opened] = "wait"
  /\ \A s \in Sessions :
       /\ watch[s] \in {"none", "wait", "read"} => rel[s] = "none"
       /\ s > opened \/ (s = opened /\ pc \in AcquirePcs) => Untouched(s)
       /\ s > opened => watch[s] = "none" /\ ~handle[s]

\* A session with a handle on an overlay is active only as the current one, as
\* the one start() is about to make current, or as one that start() refused.
OneLit ==
  \A s \in Sessions :
    active[s] /\ handle[s] =>
      s = current \/ (s = opened /\ pc \in {"a_watch", "a_audit"}) \/ s \in refused

\* A thread inside release() that will come to unregister: the overlay it has
\* to close is still there, or it is past it.
Unregisters(t) ==
  \/ rel[t] \in {"glow", "clear", "unregister"}
  \/ rel[t] \in {"close", "wait"} /\ handle[Subject(t)]

\* The PID file has an active session behind it, a registration still to come
\* or one that failed last, or a thread on its way to remove the file.
Mourned ==
  pidFile => \/ pc = "a_register" \/ opened \in refused
             \/ \E s \in Sessions : active[s]
             \/ \E t \in Threads : Unregisters(t)

MixInv == Orderly /\ OneLit /\ Mourned

\* The tools, the user and the machine leave sessions and threads alone.
LEMMA QuietStep ==
  ASSUME MixInv,
         UNCHANGED <<active, releasedBy, handle, watch, rel, current, opened, pidFile, refused>>,
         \A s \in Sessions : s > opened => expected'[s] = expected[s],
         UNCHANGED <<pc, expected>> \/ {pc, pc'} \subseteq ToolPcs \cup {"idle"}
  PROVE  MixInv'
  <1>1. /\ pc' \in AcquirePcs => pc' = pc
        /\ pc' = "stopping" <=> pc = "stopping"
        /\ pc' \in {"a_watch", "a_audit"} <=> pc \in {"a_watch", "a_audit"}
        /\ pc' = "a_register" <=> pc = "a_register"
        /\ pc' = "a_audit" => pc = "a_audit"
        /\ pc' \in AcquirePcs => UNCHANGED expected
    BY DEF ToolPcs, OwnerPcs, AcquirePcs
  <1>2. Orderly'
    BY <1>1 DEF MixInv, Orderly, Passes, Untouched, StopSet
  <1>3. OneLit'
    BY <1>1 DEF MixInv, OneLit
  <1>4. Mourned'
    BY <1>1 DEF MixInv, Mourned, Unregisters, Subject
  <1> QED BY <1>2, <1>3, <1>4 DEF MixInv

\* The steps of start() and acquire().
LEMMA AcquireStep ==
  ASSUME TypeOK, Created, MixInv, Start \/ Register \/ StartOverlay \/ StartWatcher \/ Acquired
  PROVE  MixInv'
  <1> USE DEF TypeOK, SessionTypeOK, ThreadTypeOK, OwnerTypeOK, Created, AcquirePcs, MixInv,
              Untouched, StopSet
  <1>0. pc \in AcquirePcs => opened \in Sessions
    OBVIOUS
  <1>1. CASE Start
    <2>1. /\ pc = "idle" /\ pc' = "a_register" /\ opened' = opened + 1
          /\ opened' \in Sessions /\ ~Passes
          /\ active' = [active EXCEPT ![opened'] = TRUE]
          /\ UNCHANGED <<releasedBy, expected, handle, watch, rel, current, pidFile, refused>>
      BY <1>1 DEF Start, threadVars, historyVars
    <2>2. Orderly'
      BY <2>1 DEF Orderly, Passes
    <2>3. OneLit'
      BY <2>1 DEF OneLit, Orderly
    <2>4. Mourned'
      BY <2>1 DEF Mourned
    <2> QED BY <2>2, <2>3, <2>4
  <1>2. CASE Register
    <2>1. /\ pc = "a_register"
          /\ UNCHANGED <<releasedBy, expected, handle, watch, rel, current, opened>>
          /\ \/ pidFile' = TRUE /\ pc' = "a_overlay" /\ UNCHANGED <<active, refused>>
             \/ /\ active' = [active EXCEPT ![opened] = FALSE]
                /\ pc' = "idle" /\ refused' = refused \cup {opened}
      BY <1>2 DEF Register, Refuse, threadVars
    <2>2. Orderly'
      BY <1>0, <2>1 DEF Orderly, Passes
    <2>3. OneLit'
      BY <1>0, <2>1 DEF OneLit, Orderly
    <2>4. Mourned'
      BY <1>0, <2>1 DEF Mourned, Orderly
    <2> QED BY <2>2, <2>3, <2>4
  <1>3. CASE StartOverlay
    <2>1. /\ pc = "a_overlay"
          /\ UNCHANGED <<active, releasedBy, expected, watch, rel, current, opened, pidFile>>
          /\ \/ /\ handle' = [handle EXCEPT ![opened] = TRUE] /\ pc' = "a_watch"
                /\ UNCHANGED refused
             \/ UNCHANGED handle /\ pc' = "idle" /\ refused' = refused \cup {opened}
      BY <1>3 DEF StartOverlay, Refuse, threadVars, moduleVars
    <2>2. Orderly'
      BY <1>0, <2>1 DEF Orderly, Passes
    <2>3. OneLit'
      BY <1>0, <2>1 DEF OneLit, Orderly
    <2>4. Mourned'
      BY <1>0, <2>1 DEF Mourned, Orderly
    <2> QED BY <2>2, <2>3, <2>4
  <1>4. CASE StartWatcher
    <2>1. /\ pc = "a_watch" /\ pc' = "a_audit"
          /\ watch' = [watch EXCEPT ![opened] = "wait"]
          /\ UNCHANGED <<active, releasedBy, expected, handle, rel, current, opened, pidFile, refused>>
      BY <1>4 DEF StartWatcher, sessionVars, moduleVars, historyVars
    <2>2. Orderly'
      BY <1>0, <2>1 DEF Orderly, Passes
    <2>3. OneLit'
      BY <2>1 DEF OneLit
    <2>4. Mourned'
      BY <1>0, <2>1 DEF Mourned, Orderly
    <2> QED BY <2>2, <2>3, <2>4
  <1>5. CASE Acquired
    <2>1. /\ pc = "a_audit" /\ pc' = "idle"
          /\ UNCHANGED <<active, releasedBy, expected, handle, watch, rel, opened, pidFile>>
          /\ \/ current' = opened /\ UNCHANGED refused
             \/ UNCHANGED current /\ refused' = refused \cup {opened}
      BY <1>5 DEF Acquired, Refuse, sessionVars, threadVars
    <2>2. Orderly'
      BY <1>0, <2>1 DEF Orderly, Passes
    <2>3. OneLit'
      BY <1>0, <2>1 DEF OneLit, Orderly, Passes
    <2>4. Mourned'
      BY <1>0, <2>1 DEF Mourned, Orderly
    <2> QED BY <2>2, <2>3, <2>4
  <1> QED BY <1>1, <1>2, <1>3, <1>4, <1>5

\* The steps of release(), by the owner or by a watcher.
LEMMA ReleaseStep ==
  ASSUME TypeOK, Created, MixInv, NEW t \in Threads, Release(t)
  PROVE  MixInv'
  <1> USE DEF TypeOK, SessionTypeOK, ThreadTypeOK, OwnerTypeOK, Created, AcquirePcs
  <1> DEFINE s == Subject(t)
  \* Whose release() it is: its session exists and is not being acquired.
  <1>1. ASSUME rel[t] # "none"
        PROVE  /\ s \in Sessions
               /\ t = 0 => pc = "stopping" /\ s = current
               /\ t # 0 => s = t /\ watch[t] \notin {"none", "wait", "read"}
               /\ ~(s = opened /\ pc \in AcquirePcs)
    BY <1>1 DEF MixInv, Orderly, Untouched, Subject
  <1>2. ASSUME UNCHANGED <<active, releasedBy, expected, refused, handle, watch, current, opened, pc>>,
               rel[t] # "none", NEW p, rel' = [rel EXCEPT ![t] = p],
               t = 0 /\ p \notin {"check", "mark"} =>
                 rel[t] \notin {"check", "mark"} \/ ~active[s]
        PROVE  Orderly' /\ OneLit'
    <2>1. Orderly'
      BY <1>1, <1>2 DEF MixInv, Orderly, Passes, Untouched, StopSet
    <2>2. OneLit'
      BY <1>2 DEF MixInv, OneLit
    <2> QED BY <2>1, <2>2
  <1>3. CASE RelCheck(t)
    <2>1. /\ rel[t] = "check"
          /\ rel' = [rel EXCEPT ![t] = IF active[s] THEN "mark" ELSE "none"]
          /\ UNCHANGED <<active, releasedBy, expected, refused, handle, watch, current, opened, pc, pidFile>>
      BY <1>3 DEF RelCheck, sessionVars, moduleVars, ownerVars, historyVars
    <2>2. Orderly' /\ OneLit'
      BY <2>1, <1>2
    <2>3. Mourned'
      BY <2>1 DEF MixInv, Mourned, Unregisters, Subject
    <2> QED BY <2>2, <2>3 DEF MixInv
  <1>4. CASE RelMark(t)
    <2>1. /\ rel[t] = "mark" /\ rel' = [rel EXCEPT ![t] = "glow"]
          /\ active' = [active EXCEPT ![s] = FALSE]
          /\ releasedBy' = [releasedBy EXCEPT ![s] = Releaser(t)]
          /\ UNCHANGED <<expected, refused, handle, watch, current, opened, pc, pidFile>>
      BY <1>4 DEF RelMark, moduleVars, ownerVars, historyVars
    <2>0. s <= opened
      BY <1>1, <2>1 DEF MixInv, Orderly
    <2>2. Orderly'
      BY <1>1, <2>0, <2>1 DEF MixInv, Orderly, Passes, Untouched, StopSet
    <2>3. OneLit'
      BY <1>1, <2>1 DEF MixInv, OneLit
    <2>4. Mourned'
      BY <2>1 DEF Mourned, Unregisters
    <2> QED BY <2>2, <2>3, <2>4 DEF MixInv
  <1>5. CASE RelGlow(t)
    <2>1. /\ rel[t] = "glow"
          /\ rel' = [rel EXCEPT ![t] = IF handle[s] THEN "close" ELSE "unregister"]
          /\ UNCHANGED <<active, releasedBy, expected, refused, handle, watch, current, opened, pc, pidFile>>
      BY <1>5 DEF RelGlow, sessionVars, moduleVars, ownerVars, historyVars
    <2>2. Orderly' /\ OneLit'
      BY <2>1, <1>2
    <2>3. Unregisters(t)'
      BY <2>1 DEF Unregisters, Subject
    <2> QED BY <2>2, <2>3 DEF MixInv, Mourned
  <1>6. CASE RelClose(t)
    <2>1. /\ rel[t] = "close"
          /\ rel' = [rel EXCEPT ![t] = IF handle[s] THEN "wait" ELSE "raised"]
          /\ UNCHANGED <<active, releasedBy, expected, refused, handle, watch, current, opened, pc, pidFile>>
      BY <1>6 DEF RelClose, moduleVars, ownerVars, historyVars
    <2>2. Orderly' /\ OneLit'
      BY <2>1, <1>2
    <2>3. Mourned'
      BY <2>1 DEF MixInv, Mourned, Unregisters, Subject
    <2> QED BY <2>2, <2>3 DEF MixInv
  <1>7. CASE RelWait(t)
    <2>1. /\ rel[t] = "wait"
          /\ rel' = [rel EXCEPT ![t] = IF handle[s] THEN "clear" ELSE "raised"]
          /\ UNCHANGED <<active, releasedBy, expected, refused, handle, watch, current, opened, pc, pidFile>>
      BY <1>7 DEF RelWait, moduleVars, ownerVars, historyVars
    <2>2. Orderly' /\ OneLit'
      BY <2>1, <1>2
    <2>3. Mourned'
      BY <2>1 DEF MixInv, Mourned, Unregisters, Subject
    <2> QED BY <2>2, <2>3 DEF MixInv
  <1>8. CASE RelClear(t)
    <2>1. /\ rel[t] = "clear" /\ rel' = [rel EXCEPT ![t] = "unregister"]
          /\ handle' = [handle EXCEPT ![s] = FALSE]
          /\ UNCHANGED <<active, releasedBy, expected, refused, watch, current, opened, pc, pidFile>>
      BY <1>8 DEF RelClear, moduleVars, ownerVars, historyVars
    <2>2. Orderly'
      BY <1>1, <2>1 DEF MixInv, Orderly, Passes, Untouched, StopSet
    <2>3. OneLit'
      BY <2>1 DEF MixInv, OneLit
    <2>4. Mourned'
      BY <2>1 DEF Mourned, Unregisters
    <2> QED BY <2>2, <2>3, <2>4 DEF MixInv
  <1>9. CASE RelUnregister(t)
    <2>1. /\ rel[t] = "unregister" /\ rel' = [rel EXCEPT ![t] = "finish"]
          /\ ~pidFile'
          /\ UNCHANGED <<active, releasedBy, expected, refused, handle, watch, current, opened, pc>>
      BY <1>9 DEF RelUnregister, sessionVars, ownerVars, historyVars
    <2>2. Orderly' /\ OneLit'
      BY <2>1, <1>2
    <2> QED BY <2>1, <2>2 DEF MixInv, Mourned
  <1>10. CASE RelFinish(t)
    <2>1. /\ rel[t] = "finish"
          /\ \E p \in {"none", "raised"} : rel' = [rel EXCEPT ![t] = p]
          /\ UNCHANGED <<active, releasedBy, expected, refused, handle, watch, current, opened, pc, pidFile>>
      BY <1>10 DEF RelFinish, sessionVars, moduleVars, ownerVars, historyVars
    <2>2. Orderly' /\ OneLit'
      BY <2>1, <1>2
    <2>3. Mourned'
      BY <2>1 DEF MixInv, Mourned, Unregisters, Subject
    <2> QED BY <2>2, <2>3 DEF MixInv
  <1> QED BY <1>3, <1>4, <1>5, <1>6, <1>7, <1>8, <1>9, <1>10 DEF Release

\* stop() around release(), and the watcher's loop.
LEMMA CallerStep ==
  ASSUME TypeOK, Created, MixInv,
         Stop \/ Stopped \/ \E s \in Sessions : Watcher(s)
  PROVE  MixInv'
  <1> USE DEF TypeOK, SessionTypeOK, ThreadTypeOK, OwnerTypeOK, Created, AcquirePcs
  <1>1. CASE Stop
    <2>1. /\ pc = "idle" /\ pc' = "stopping" /\ current # 0
          /\ rel' = [rel EXCEPT ![0] = "check"]
          /\ UNCHANGED <<active, releasedBy, expected, refused, handle, watch, current, opened, pidFile>>
      BY <1>1 DEF Stop, sessionVars, historyVars, moduleVars
    <2>2. Orderly'
      BY <2>1 DEF MixInv, Orderly, Untouched, StopSet
    <2>3. OneLit'
      BY <2>1 DEF MixInv, OneLit
    <2>4. Mourned'
      BY <2>1 DEF MixInv, Mourned, Unregisters, Subject, Orderly
    <2> QED BY <2>2, <2>3, <2>4 DEF MixInv
  <1>2. CASE Stopped
    <2>1. /\ pc = "stopping" /\ pc' = "idle" /\ rel[0] \in {"none", "raised"}
          /\ current' = current \/ current' = 0
          /\ rel' = [rel EXCEPT ![0] = "none"]
          /\ UNCHANGED <<active, releasedBy, expected, refused, handle, watch, opened, pidFile>>
      BY <1>2 DEF Stopped, sessionVars, historyVars
    <2>2. ~active[current] /\ current # 0
      BY <2>1 DEF MixInv, Orderly, Untouched, StopSet
    <2>3. Orderly'
      BY <2>1 DEF MixInv, Orderly, Untouched, StopSet
    <2>4. OneLit'
      BY <2>1, <2>2 DEF MixInv, OneLit
    <2>5. Mourned'
      BY <2>1 DEF MixInv, Mourned, Unregisters, Subject
    <2> QED BY <2>3, <2>4, <2>5 DEF MixInv
  <1>3. ASSUME NEW s \in Sessions, Watcher(s) PROVE MixInv'
    <2>1. /\ UNCHANGED <<active, releasedBy, expected, refused, handle, current, opened, pc, pidFile>>
          /\ watch[s] \in {"wait", "read", "release"}
          /\ \/ /\ UNCHANGED rel
                /\ \/ watch' = [watch EXCEPT ![s] = "done"]
                   \/ watch[s] # "release" /\ watch' = [watch EXCEPT ![s] = "read"]
                   \/ watch[s] # "release" /\ watch' = [watch EXCEPT ![s] = "wait"]
             \/ /\ watch[s] = "read"
                /\ watch' = [watch EXCEPT ![s] = "release"]
                /\ rel' = [rel EXCEPT ![s] = "check"]
      BY <1>3 DEF Watcher, WatchStops, WatchExpected, WatchPointer, WatchReturns,
                  sessionVars, historyVars, moduleVars, ownerVars
    <2>0. ~ Untouched(s)
      BY <1>3 DEF Watcher, WatchStops, WatchExpected, WatchPointer, WatchReturns, Untouched
    <2>5. ~(s > opened) /\ ~(s = opened /\ pc \in AcquirePcs)
      BY <2>0 DEF MixInv, Orderly
    <2>6. \A r \in Sessions \ {s} : watch'[r] = watch[r] /\ rel'[r] = rel[r]
      BY <2>1
    <2>7. watch'[s] \in {"none", "wait", "read"} => rel'[s] = "none"
      BY <2>1 DEF MixInv, Orderly
    <2>8. rel'[0] = rel[0]
      BY <2>1
    <2>2. Orderly'
      BY <2>1, <2>5, <2>6, <2>7, <2>8 DEF MixInv, Orderly, Passes, Untouched, StopSet
    <2>3. OneLit'
      BY <2>1 DEF MixInv, OneLit
    <2>4. Mourned'
      BY <2>1 DEF MixInv, Mourned, Unregisters, Subject, Orderly
    <2> QED BY <2>2, <2>3, <2>4 DEF MixInv
  <1> QED BY <1>1, <1>2, <1>3

\* Every step keeps MixInv.
LEMMA MixStep == TypeOK /\ Created /\ MixInv /\ [Next]_vars => MixInv'
  <1> SUFFICES ASSUME TypeOK, Created, MixInv, [Next]_vars PROVE MixInv'
    OBVIOUS
  <1> USE DEF sessionVars, threadVars, moduleVars, ownerVars, historyVars
  <1>1. CASE CallTool \/ Require
    BY <1>1, QuietStep
    DEF CallTool, Require, Raise, FirstSteps, ToolPcs, OwnerPcs, AcquirePcs
  <1>2. CASE MoveCheck \/ ClickCheck \/ DragStart \/ DragCheck \/ ScrollCheck \/ KeyCheck
    BY <1>2, QuietStep
    DEF MoveCheck, ClickCheck, DragStart, DragCheck, ScrollCheck, KeyCheck, Check, Raise,
        ToolPcs, OwnerPcs, AcquirePcs
  <1>3. CASE MovePost \/ DragPost
    BY <1>3, QuietStep DEF MovePost, DragPost, PostMotion, Deliver, ToolPcs, OwnerPcs, AcquirePcs
  <1>6. CASE MoveNote \/ DragNote \/ DragLast
    <2>1. /\ UNCHANGED <<active, releasedBy, handle, watch, rel, current, opened, pidFile, refused>>
          /\ expected' = [expected EXCEPT ![current] = aim]
          /\ {pc, pc'} \subseteq ToolPcs \cup {"idle"}
      BY <1>6
      DEF MoveNote, DragNote, DragLast, Note, Loop, AfterMove, ToolPcs, OwnerPcs, AcquirePcs
    <2>2. \A s \in Sessions : s > opened => expected'[s] = expected[s]
      BY <2>1 DEF Created, TypeOK, SessionTypeOK, OwnerTypeOK
    <2> QED BY <2>1, <2>2, QuietStep
  <1>4. CASE ClickDown \/ ClickUp \/ DragDown \/ DragUp \/ ScrollPost \/ KeyDown \/ KeyUp
    BY <1>4, QuietStep
    DEF ClickDown, ClickUp, DragDown, DragUp, ScrollPost, KeyDown, KeyUp, PostPlain, Deliver,
        Loop, ToolPcs, OwnerPcs, AcquirePcs
  <1>5. CASE Environment \/ UNCHANGED vars
    <2>1. /\ UNCHANGED <<active, releasedBy, handle, watch, rel, current, opened, pidFile, refused>>
          /\ UNCHANGED <<expected, pc>>
      BY <1>5
      DEF Environment, OverlayShows, OverlayExits, OverlayFails, Crash, UserMoves,
          ShellRelease, vars
    <2> QED BY <2>1, QuietStep
  <1> QED BY <1>1, <1>2, <1>3, <1>4, <1>5, <1>6, AcquireStep, ReleaseStep, CallerStep
      DEF Next, Tool, ToolStep

\* However many sessions follow one another, and whatever fails while they
\* start or end, the PID file, the overlay and the audit record of both
\* included: two never both hold control with an overlay of their own unless
\* start() has refused one, and when none is held no PID file is left for
\* arc-kill to report unless the last start() failed to write it.
THEOREM NoMixing == Spec => []SessionsDoNotMix
  <1>1. Init => MixInv
    BY DEF Init, MixInv, Orderly, OneLit, Mourned, AcquirePcs, Untouched, StopSet
  <1>2. MixInv => OneLitHolder
    BY DEF MixInv, OneLit, Orderly, OneLitHolder, Passes, AcquirePcs
  <1>3. MixInv => NoCorpse
    BY DEF MixInv, Mourned, Unregisters, NoCorpse
  <1>4. IInv => TypeOK /\ Created
    BY DEF IInv
  <1> QED BY <1>1, <1>2, <1>3, <1>4, MixStep, Invariance, PTL DEF Spec, SessionsDoNotMix

-----------------------------------------------------------------------------
(* The glow. *)

Lit(s) == proc[s] \in {"starting", "up"}
\* A thread inside release() that will come to close the pipe of the overlay of s.
Closes(t, s) == rel[t] \in {"glow", "close"} /\ Subject(t) = s

\* An overlay that runs has its handle; and once its session is released its pipe is closed,
\* or somebody is about to close it.
GlowIsOwed ==
  \A s \in Sessions :
    Lit(s) => handle[s] /\ (StopSet(s) => closed[s] \/ \E t \in Threads : Closes(t, s))

\* Who drops the handle has seen the overlay exit.
Doused ==
  /\ \A t \in Threads : rel[t] = "clear" => ~Lit(Subject(t))
  /\ GlowIsOwed

GlowInv == TypeOK /\ Created /\ MixInv

\* What neither starts an overlay nor is inside release().
LEMMA DousedStays ==
  ASSUME GlowInv, Doused, UNCHANGED <<releasedBy, handle, closed>>,
         UNCHANGED <<opened, current, rel>>,
         \A s \in Sessions : Lit(s)' => Lit(s)
  PROVE  Doused'
  <1>1. \A t \in Threads : rel[t] = "clear" => Subject(t) \in Sessions
    BY DEF GlowInv, MixInv, Orderly, Subject, TypeOK, OwnerTypeOK, ThreadTypeOK
  <1> QED BY <1>1 DEF Doused, GlowIsOwed, Closes, StopSet, Subject

LEMMA DousedAcquire ==
  ASSUME GlowInv, Doused, Start \/ Register \/ StartOverlay \/ StartWatcher \/ Acquired
  PROVE  Doused'
  <1> USE DEF TypeOK, SessionTypeOK, ThreadTypeOK, OwnerTypeOK, Created, AcquirePcs, GlowInv
  <1>0. /\ \A t \in Threads : rel[t] = "clear" =>
             /\ Subject(t) \in Sessions /\ ~(Subject(t) = opened /\ pc \in AcquirePcs)
        /\ pc # "stopping" => rel[0] = "none"
    BY DEF MixInv, Orderly, Untouched, Subject
  <1>1. CASE Start
    <2>1. /\ opened' = opened + 1 /\ opened \in Nat
          /\ UNCHANGED <<releasedBy, handle, closed, proc, rel, current>>
      BY <1>1 DEF Start, threadVars
    <2> QED BY <2>1 DEF Doused, GlowIsOwed, Lit, Closes, StopSet, Subject
  <1>2. CASE Register
    <2>1. /\ pc = "a_register"
          /\ UNCHANGED <<releasedBy, handle, closed, proc, rel, current, opened>>
      BY <1>2 DEF Register, Refuse, threadVars
    <2> QED BY <2>1, DousedStays DEF Lit
  <1>3. CASE StartOverlay
    <2>1. /\ pc = "a_overlay" /\ opened \in Sessions
          /\ UNCHANGED <<releasedBy, closed, rel, current, opened>>
          /\ \/ /\ handle' = [handle EXCEPT ![opened] = TRUE]
                /\ proc' = [proc EXCEPT ![opened] = "starting"]
             \/ UNCHANGED <<handle, proc>>
      BY <1>3 DEF StartOverlay, Refuse, threadVars, moduleVars
    <2>2. CASE UNCHANGED <<handle, proc>>
      BY <2>1, <2>2, DousedStays DEF Lit
    <2>3. CASE handle' = [handle EXCEPT ![opened] = TRUE] /\ proc' = [proc EXCEPT ![opened] = "starting"]
      <3>1. \A t \in Threads : rel'[t] = "clear" => ~Lit(Subject(t))'
        BY <1>0, <2>1, <2>3 DEF Doused, Lit, Subject
      <3>3. GlowIsOwed'
        <4> SUFFICES ASSUME NEW s \in Sessions, Lit(s)'
                     PROVE  /\ handle'[s]
                            /\ StopSet(s)' => closed'[s] \/ \E t \in Threads : Closes(t, s)'
          BY DEF GlowIsOwed
        <4>1. CASE s = opened
          BY <2>1, <2>3, <4>1 DEF MixInv, Orderly, Untouched, StopSet
        <4>2. CASE s # opened
          BY <2>1, <2>3, <4>2 DEF Doused, GlowIsOwed, Lit, Closes, StopSet, Subject
        <4> QED BY <4>1, <4>2
      <3> QED BY <3>1, <3>3 DEF Doused
    <2> QED BY <2>1, <2>2, <2>3
  <1>4. CASE StartWatcher
    <2>1. /\ pc = "a_watch"
          /\ UNCHANGED <<releasedBy, handle, closed, proc, rel, current, opened>>
      BY <1>4 DEF StartWatcher, sessionVars, moduleVars
    <2> QED BY <2>1, DousedStays DEF Lit
  <1>5. CASE Acquired
    <2>1. /\ pc = "a_audit" /\ rel[0] = "none"
          /\ UNCHANGED <<releasedBy, handle, closed, proc, rel, opened>>
      BY <1>0, <1>5 DEF Acquired, sessionVars, threadVars
    <2>2. \A t \in Threads : rel[t] # "none" => Subject(t)' = Subject(t)
      BY <2>1 DEF Subject
    <2>3. /\ \A t \in Threads : rel'[t] = "clear" => ~Lit(Subject(t))'
          /\ \A t \in Threads, s \in Sessions : Closes(t, s) => Closes(t, s)'
      BY <2>1, <2>2 DEF Doused, Closes, Lit
    <2>4. GlowIsOwed'
      BY <2>1, <2>3 DEF Doused, GlowIsOwed, Lit, StopSet
    <2> QED BY <2>1, <2>3, <2>4 DEF Doused, StopSet
  <1> QED BY <1>1, <1>2, <1>3, <1>4, <1>5

LEMMA DousedRelease ==
  ASSUME GlowInv, Doused, NEW t \in Threads, Release(t)
  PROVE  Doused'
  <1> USE DEF TypeOK, SessionTypeOK, ThreadTypeOK, OwnerTypeOK, Created, AcquirePcs, GlowInv
  <1> DEFINE s == Subject(t)
  <1>1. rel[t] # "none" => s \in Sessions /\ s <= opened /\ ~(s = opened /\ pc \in AcquirePcs)
    BY DEF MixInv, Orderly, Untouched, Subject
  <1>2. \A q \in Threads : rel[q] = "clear" => Subject(q) \in Sessions
    BY DEF MixInv, Orderly, Subject
  <1>3. CASE RelMark(t)
    <2>1. /\ rel[t] = "mark" /\ rel' = [rel EXCEPT ![t] = "glow"]
          /\ releasedBy' = [releasedBy EXCEPT ![s] = Releaser(t)]
          /\ UNCHANGED <<handle, closed, proc, current, opened, pc>>
      BY <1>3 DEF RelMark, moduleVars, ownerVars
    <2>2. \A r \in Sessions : r # s => (StopSet(r)' <=> StopSet(r))
      BY <2>1 DEF StopSet
    <2>3. /\ \A r \in Sessions : r = s => Closes(t, r)'
          /\ \A q \in Threads, r \in Sessions : Closes(q, r) => Closes(q, r)'
      BY <2>1 DEF Closes, Subject
    <2>4. \A q \in Threads : rel'[q] = "clear" => rel[q] = "clear"
      BY <2>1
    <2>5. GlowIsOwed'
      <3> SUFFICES ASSUME NEW r \in Sessions, Lit(r)'
                   PROVE  /\ handle'[r]
                          /\ StopSet(r)' => closed'[r] \/ \E q \in Threads : Closes(q, r)'
        BY DEF GlowIsOwed
      <3>1. handle[r] /\ (StopSet(r) => closed[r] \/ \E q \in Threads : Closes(q, r))
        BY <2>1 DEF Doused, GlowIsOwed, Lit
      <3>2. CASE r = s
        BY <2>1, <2>3, <3>1, <3>2
      <3>3. CASE r # s
        BY <2>1, <2>2, <2>3, <3>1, <3>3
      <3> QED BY <3>2, <3>3
    <2> QED BY <1>1, <2>1, <2>2, <2>4, <2>5 DEF Doused, Lit, Subject
  \* every other step leaves releasedBy
  <1>4. ASSUME UNCHANGED <<releasedBy, current, opened, pc>>, NEW p, rel' = [rel EXCEPT ![t] = p],
               p = "clear" => ~Lit(s)', GlowIsOwed',
               \A r \in Sessions : Lit(r)' => Lit(r)
        PROVE  Doused'
    <2>1. \A q \in Threads : rel'[q] = "clear" => q = t \/ rel[q] = "clear"
      BY <1>4
    <2> QED BY <1>2, <1>4, <2>1 DEF Doused, StopSet, Subject
  <1>5. ASSUME UNCHANGED <<releasedBy, handle, closed, proc, current, opened, pc>>,
               NEW p, rel' = [rel EXCEPT ![t] = p], p # "clear",
               Closes(t, s) => p \in {"glow", "close"} \/ ~handle[s]
        PROVE  Doused'
    <2>1. GlowIsOwed'
      <3> SUFFICES ASSUME NEW r \in Sessions, Lit(r)
                   PROVE  /\ handle[r]
                          /\ StopSet(r) => closed[r] \/ \E q \in Threads : Closes(q, r)'
        BY <1>5 DEF GlowIsOwed, Lit, StopSet
      <3>1. handle[r] /\ (StopSet(r) => closed[r] \/ \E q \in Threads : Closes(q, r))
        BY DEF Doused, GlowIsOwed
      <3>2. \A q \in Threads : Closes(q, r) => Closes(q, r)'
        BY <1>5, <3>1 DEF Closes, Subject
      <3> QED BY <3>1, <3>2
    <2> QED BY <1>4, <1>5, <2>1 DEF Lit
  <1>6. CASE RelCheck(t) \/ RelUnregister(t) \/ RelFinish(t)
    <2>1. /\ UNCHANGED <<releasedBy, handle, closed, proc, current, opened, pc>>
          /\ rel[t] \in {"check", "unregister", "finish"}
          /\ \E p \in {"mark", "none", "finish", "raised"} : rel' = [rel EXCEPT ![t] = p]
      BY <1>6 DEF RelCheck, RelUnregister, RelFinish, sessionVars, moduleVars, ownerVars
    <2> QED BY <1>5, <2>1 DEF Closes
  <1>7. CASE RelGlow(t)
    BY <1>5, <1>7 DEF RelGlow, sessionVars, moduleVars, ownerVars
  <1>8. CASE RelClose(t)
    <2>1. CASE handle[s]
      <3>1. /\ rel[t] = "close" /\ rel' = [rel EXCEPT ![t] = "wait"]
            /\ closed' = [closed EXCEPT ![s] = TRUE]
            /\ UNCHANGED <<releasedBy, handle, proc, current, opened, pc>>
        BY <1>8, <2>1 DEF RelClose, moduleVars, ownerVars
      <3>2. closed'[s] /\ \A r \in Sessions : closed[r] => closed'[r]
        BY <1>1, <3>1
      <3>3. \A q \in Threads, r \in Sessions : Closes(q, r) => Closes(q, r)' \/ r = s
        BY <3>1 DEF Closes, Subject
      <3>4. GlowIsOwed'
        BY <3>1, <3>2, <3>3 DEF Doused, GlowIsOwed, Lit, StopSet
      <3> QED BY <1>4, <3>1, <3>4 DEF Lit
    <2>2. CASE ~handle[s]
      BY <1>5, <1>8, <2>2 DEF RelClose, moduleVars, ownerVars
    <2> QED BY <2>1, <2>2
  <1>9. CASE RelWait(t)
    <2>1. CASE handle[s]
      <3>1. /\ rel[t] = "wait" /\ rel' = [rel EXCEPT ![t] = "clear"]
            /\ proc' = [proc EXCEPT ![s] = "exited"]
            /\ UNCHANGED <<releasedBy, handle, closed, current, opened, pc>>
        BY <1>9, <2>1 DEF RelWait, moduleVars, ownerVars
      <3>2. ~Lit(s)' /\ \A r \in Sessions : Lit(r)' => Lit(r)
        BY <1>1, <3>1 DEF Lit, Subject
      <3>3. \A q \in Threads, r \in Sessions : Closes(q, r) => Closes(q, r)'
        BY <3>1 DEF Closes, Subject
      <3>4. GlowIsOwed'
        BY <3>1, <3>2, <3>3 DEF Doused, GlowIsOwed, StopSet
      <3> QED BY <1>4, <3>1, <3>2, <3>4
    <2>2. CASE ~handle[s]
      <3>1. /\ rel[t] = "wait" /\ rel' = [rel EXCEPT ![t] = "raised"]
            /\ UNCHANGED <<releasedBy, handle, closed, proc, current, opened, pc>>
        BY <1>9, <2>2 DEF RelWait, moduleVars, ownerVars
      <3> QED BY <1>5, <3>1 DEF Closes
    <2> QED BY <2>1, <2>2
  <1>10. CASE RelClear(t)
    <2>1. /\ rel[t] = "clear" /\ rel' = [rel EXCEPT ![t] = "unregister"]
          /\ handle' = [handle EXCEPT ![s] = FALSE]
          /\ UNCHANGED <<releasedBy, closed, proc, current, opened, pc>>
      BY <1>10 DEF RelClear, moduleVars, ownerVars
    <2>2. ~Lit(s) /\ \A r \in Sessions \ {s} : handle'[r] = handle[r]
      BY <2>1 DEF Doused
    <2>3. \A q \in Threads, r \in Sessions : Closes(q, r) => Closes(q, r)'
      BY <2>1 DEF Closes, Subject
    <2>4. GlowIsOwed'
      BY <2>1, <2>2, <2>3 DEF Doused, GlowIsOwed, Lit, StopSet
    <2> QED BY <1>4, <2>1, <2>4 DEF Lit
  <1> QED BY <1>3, <1>6, <1>7, <1>8, <1>9, <1>10 DEF Release

LEMMA DousedCallers ==
  ASSUME GlowInv, Doused, Stop \/ Stopped \/ \E s \in Sessions : Watcher(s)
  PROVE  Doused'
  <1> USE DEF TypeOK, SessionTypeOK, ThreadTypeOK, OwnerTypeOK, AcquirePcs, GlowInv
  <1>1. CASE Stop \/ \E s \in Sessions : Watcher(s)
    <2>1. /\ UNCHANGED <<releasedBy, handle, closed, proc, current, opened>>
          /\ pc' \in {pc, "stopping"}
          /\ \/ UNCHANGED rel
             \/ \E t \in Threads : rel[t] = "none" /\ rel' = [rel EXCEPT ![t] = "check"]
      BY <1>1 DEF Stop, Watcher, WatchStops, WatchExpected, WatchPointer, WatchReturns,
                  sessionVars, moduleVars, ownerVars, MixInv, Orderly
    <2>2. \A t \in Threads : rel[t] \in {"clear", "glow", "close"} <=> rel'[t] \in {"clear", "glow", "close"}
      BY <2>1
    <2>3. \A t \in Threads : rel[t] \in {"clear", "glow", "close"} => rel'[t] = rel[t]
      BY <2>1
    <2>4. /\ \A t \in Threads : rel'[t] = "clear" => ~Lit(Subject(t))'
          /\ \A t \in Threads, s \in Sessions : Closes(t, s) => Closes(t, s)'
      BY <2>1, <2>2, <2>3 DEF Doused, Closes, Lit, Subject
    <2>5. GlowIsOwed'
      BY <2>1, <2>4 DEF Doused, GlowIsOwed, Lit, StopSet
    <2> QED BY <2>1, <2>4, <2>5 DEF Doused, StopSet
  <1>2. CASE Stopped
    <2>1. /\ UNCHANGED <<releasedBy, handle, closed, proc, opened>> /\ pc' = "idle"
          /\ rel[0] \in {"none", "raised"} /\ rel' = [rel EXCEPT ![0] = "none"]
      BY <1>2 DEF Stopped, sessionVars
    <2>2. rel'[0] = "none" /\ \A t \in Threads \ {0} : rel'[t] = rel[t] /\ Subject(t)' = Subject(t)
      BY <2>1 DEF Subject
    <2>3. /\ \A t \in Threads : rel'[t] = "clear" => ~Lit(Subject(t))'
          /\ \A t \in Threads, s \in Sessions : Closes(t, s) => Closes(t, s)'
      BY <2>1, <2>2 DEF Doused, Closes, Lit
    <2>4. GlowIsOwed'
      BY <2>1, <2>3 DEF Doused, GlowIsOwed, Lit, StopSet
    <2> QED BY <2>1, <2>3, <2>4 DEF Doused, StopSet
  <1> QED BY <1>1, <1>2

LEMMA DousedStep == GlowInv /\ Doused /\ [Next]_vars => Doused'
  <1> SUFFICES ASSUME GlowInv, Doused, [Next]_vars PROVE Doused'
    OBVIOUS
  <1>1. CASE Tool
    <2>1. /\ UNCHANGED <<releasedBy, handle, closed, proc, opened, current, rel>>
      <3> USE DEF sessionVars, threadVars, moduleVars, ownerVars, AcquirePcs
      <3>1. CASE CallTool \/ Require
        BY <3>1 DEF CallTool, Require, Raise, FirstSteps
      <3>2. CASE MoveCheck \/ ClickCheck \/ DragStart \/ DragCheck \/ ScrollCheck \/ KeyCheck
        BY <3>2 DEF MoveCheck, ClickCheck, DragStart, DragCheck, ScrollCheck, KeyCheck, Check, Raise
      <3>3. CASE MovePost \/ DragPost \/ MoveNote \/ DragNote \/ DragLast
        BY <3>3 DEF MovePost, DragPost, PostMotion, MoveNote, DragNote, DragLast, Note, Loop, AfterMove
      <3>4. CASE ClickDown \/ ClickUp \/ DragDown \/ DragUp \/ ScrollPost \/ KeyDown \/ KeyUp
        BY <3>4 DEF ClickDown, ClickUp, DragDown, DragUp, ScrollPost, KeyDown, KeyUp, PostPlain, Loop
      <3> QED BY <1>1, <3>1, <3>2, <3>3, <3>4 DEF Tool, ToolStep
    <2> QED BY <2>1, DousedStays DEF Lit
  <1>2. CASE Environment \/ UNCHANGED vars
    <2>1. /\ UNCHANGED <<releasedBy, handle, closed, opened, current, rel, pc>>
          /\ \A s \in Sessions : Lit(s)' => Lit(s)
      BY <1>2
      DEF Environment, OverlayShows, OverlayExits, OverlayFails, Crash, UserMoves, ShellRelease,
          vars, sessionVars, threadVars, moduleVars, ownerVars, Lit, GlowInv, TypeOK, SessionTypeOK
    <2> QED BY <2>1, DousedStays
  <1> QED BY <1>1, <1>2, DousedAcquire, DousedRelease, DousedCallers DEF Next

\* Whoever releases a session, the owner, the watcher or both at once, and whatever fails
\* meanwhile: an overlay that still runs then has its pipe closed, so that it reads the end of
\* it and exits, or a thread inside release() is on its way to close it.
THEOREM NoGlowIsForgotten == Spec => []GlowIsOwed
  <1>1. Init => MixInv /\ Doused
    BY DEF Init, MixInv, Orderly, OneLit, Mourned, AcquirePcs, Untouched, Doused, GlowIsOwed, StopSet,
           Lit
  <1>2. IInv => TypeOK /\ Created
    BY DEF IInv
  <1>3. Doused => GlowIsOwed
    BY DEF Doused
  <1>4. GlowInv <=> TypeOK /\ Created /\ MixInv
    BY DEF GlowInv
  <1> QED BY <1>1, <1>2, <1>3, <1>4, MixStep, DousedStep, Invariance, PTL DEF Spec

-----------------------------------------------------------------------------
(* The watcher. *)

\* A session that was released is not active again; and a watcher only leaves its loop for
\* release(), where it is until the session is not active, or after somebody else's.
Watched ==
  /\ current # 0 => watch[current] # "none"
  /\ \A s \in Sessions : StopSet(s) => ~active[s]
  /\ \A s \in Sessions : watch[s] \in {"release", "done"} =>
       rel[s] \in {"check", "mark"} \/ ~active[s]

\* Whoever holds the mouse is watched: the watcher polls, or has seen a takeover.
HeldIsWatched ==
  Passes => watch[current] \in {"wait", "read"} \/ rel[current] \in {"check", "mark"}

LEMMA WatchedStep == GlowInv /\ Doused /\ Watched /\ [Next]_vars => Watched'
  <1> SUFFICES ASSUME GlowInv, Doused, Watched, [Next]_vars PROVE Watched'
    OBVIOUS
  <1> USE DEF TypeOK, SessionTypeOK, ThreadTypeOK, OwnerTypeOK, GlowInv
  <1>1. CASE Start
    <2>1. /\ active' = [active EXCEPT ![opened + 1] = TRUE] /\ opened \in Nat
          /\ UNCHANGED <<releasedBy, watch, rel, current>>
      BY <1>1 DEF Start, threadVars
    <2>2. \A s \in Sessions : s = opened + 1 => ~StopSet(s) /\ watch[s] = "none"
      BY <2>1 DEF MixInv, Orderly, Untouched
    <2> QED BY <2>1, <2>2 DEF Watched, StopSet
  <1>2. CASE Register \/ StartOverlay
    <2>1. /\ \A s \in Sessions : active'[s] => active[s]
          /\ UNCHANGED <<releasedBy, watch, rel, current>>
      BY <1>2 DEF Register, StartOverlay, Refuse, threadVars, moduleVars
    <2> QED BY <2>1 DEF Watched, StopSet
  <1>3. CASE StartWatcher
    <2>1. /\ watch' = [watch EXCEPT ![opened] = "wait"]
          /\ opened \in Sessions /\ UNCHANGED <<active, releasedBy, rel, current>>
      BY <1>3 DEF StartWatcher, sessionVars, moduleVars, Created, AcquirePcs
    <2> QED BY <2>1 DEF Watched, StopSet
  <1>8. CASE Acquired
    <2>1. /\ pc = "a_audit" /\ current' \in {opened, current} /\ opened \in Sessions
          /\ UNCHANGED <<active, releasedBy, watch, rel>>
      BY <1>8 DEF Acquired, Refuse, sessionVars, threadVars, Created, AcquirePcs
    <2> QED BY <2>1 DEF Watched, StopSet, MixInv, Orderly
  <1>4. CASE Stop \/ Stopped
    <2>1. /\ UNCHANGED <<active, releasedBy, watch>> /\ current' \in {current, 0}
          /\ \E p : rel' = [rel EXCEPT ![0] = p]
      BY <1>4 DEF Stop, Stopped, sessionVars, moduleVars
    <2> QED BY <2>1 DEF Watched, StopSet
  <1>5. ASSUME NEW t \in Threads, Release(t) PROVE Watched'
    <2> DEFINE s == Subject(t)
    <2>1. rel[t] # "none" => s \in Sessions
      BY DEF MixInv, Orderly, Subject
    <2>2. CASE RelMark(t)
      <3>1. /\ rel[t] = "mark" /\ rel' = [rel EXCEPT ![t] = "glow"]
            /\ active' = [active EXCEPT ![s] = FALSE]
            /\ releasedBy' = [releasedBy EXCEPT ![s] = Releaser(t)]
            /\ UNCHANGED <<watch, current>>
        BY <2>2 DEF RelMark, moduleVars, ownerVars
      <3>2. /\ ~active'[s] /\ \A r \in Sessions : active'[r] => active[r]
            /\ \A r \in Sessions : r # s => releasedBy'[r] = releasedBy[r]
            /\ t # 0 => s = t
        BY <2>1, <3>1 DEF Subject
      <3> QED BY <2>1, <3>1, <3>2 DEF Watched, StopSet
    <2>3. CASE ~RelMark(t)
      <3>1. /\ UNCHANGED <<active, releasedBy, watch, current>>
            /\ \E p : /\ rel' = [rel EXCEPT ![t] = p]
                      /\ rel[t] \in {"check", "mark"} => p = "mark" \/ ~active[s]
        BY <1>5, <2>3
        DEF Release, RelCheck, RelGlow, RelClose, RelWait, RelClear, RelUnregister, RelFinish,
            sessionVars, moduleVars, ownerVars
      <3>2. t # 0 => s = t
        BY DEF Subject
      <3> QED BY <3>1, <3>2 DEF Watched, StopSet
    <2> QED BY <2>2, <2>3
  <1>6. ASSUME NEW s \in Sessions, Watcher(s) PROVE Watched'
    <2>1. /\ UNCHANGED <<active, releasedBy, current>>
          /\ watch[s] \in {"wait", "read", "release"}
          /\ \/ /\ UNCHANGED rel
                /\ \/ /\ StopSet(s) \/ watch[s] = "release"
                      /\ watch' = [watch EXCEPT ![s] = "done"]
                   \/ watch' = [watch EXCEPT ![s] = "read"]
                   \/ watch' = [watch EXCEPT ![s] = "wait"]
             \/ /\ watch' = [watch EXCEPT ![s] = "release"]
                /\ rel' = [rel EXCEPT ![s] = "check"]
      BY <1>6 DEF Watcher, WatchStops, WatchExpected, WatchPointer, WatchReturns,
                  sessionVars, moduleVars, ownerVars
    <2>2. watch'[s] # "none" /\ \A r \in Sessions \ {s} : watch'[r] = watch[r] /\ rel'[r] = rel[r]
      BY <2>1
    <2>3. watch'[s] \in {"release", "done"} => rel'[s] \in {"check", "mark"} \/ ~active[s]
      BY <2>1 DEF Watched
    <2> QED BY <2>1, <2>2, <2>3 DEF Watched, StopSet
  <1>7. CASE Tool \/ Environment \/ UNCHANGED vars
    <2>1. UNCHANGED <<active, releasedBy, watch, rel, current>>
      <3> USE DEF sessionVars, threadVars, moduleVars, ownerVars
      <3>1. CASE Tool
        BY <3>1
        DEF Tool, CallTool, ToolStep, Require, Raise, MoveCheck, ClickCheck, DragStart, DragCheck,
            ScrollCheck, KeyCheck, Check, MovePost, DragPost, PostMotion, MoveNote, DragNote,
            DragLast, Note, ClickDown, ClickUp, DragDown, DragUp, ScrollPost, KeyDown, KeyUp,
            PostPlain
      <3>2. CASE Environment \/ UNCHANGED vars
        BY <3>2
        DEF Environment, OverlayShows, OverlayExits, OverlayFails, Crash, UserMoves,
            ShellRelease, vars
      <3> QED BY <1>7, <3>1, <3>2
    <2> QED BY <2>1 DEF Watched, StopSet
  <1> QED BY <1>1, <1>2, <1>3, <1>4, <1>5, <1>6, <1>7, <1>8 DEF Next

\* As long as a session holds the mouse its watcher polls, or is about to end the session:
\* nothing a release(), a failed start or another session does takes the watcher away first.
THEOREM NeverUnwatched == Spec => []HeldIsWatched
  <1>1. Init => MixInv /\ Doused /\ Watched
    BY DEF Init, MixInv, Orderly, OneLit, Mourned, AcquirePcs, Untouched, Doused, GlowIsOwed, StopSet,
           Lit, Watched
  <1>2. IInv => TypeOK /\ Created
    BY DEF IInv
  <1>3. TypeOK /\ Watched => HeldIsWatched
    BY DEF Watched, HeldIsWatched, Passes, TypeOK, ThreadTypeOK, OwnerTypeOK
  <1>4. GlowInv <=> TypeOK /\ Created /\ MixInv
    BY DEF GlowInv
  <1> QED
    BY <1>1, <1>2, <1>3, <1>4, MixStep, DousedStep, WatchedStep, Invariance, PTL DEF Spec

-----------------------------------------------------------------------------
(* The task journal. *)

\* What the parser makes of the replies, whatever that is, and what becomes of it.
Calls == {CallIn[r] : r \in Replies} \cup {NoCall}
Results == [tool : {c.name : c \in Calls}, ok : BOOLEAN, dry : BOOLEAN]
Lines == {StepLine(o) : o \in Results} \cup {Event(e) : e \in {"start", "garbled"} \cup Closing}
Journals == Seq(Lines)
Histories == Seq(Results)

TaskTypes ==
  /\ file \in [Tasks -> Journals] /\ torn \in [Tasks -> BOOLEAN] /\ errors \in [Tasks -> Nat]
  /\ stage \in [Tasks -> Pcs] /\ from \in [Tasks -> 0 .. MaxTasks]
  /\ \A t \in Tasks : /\ stage[t] = "mark" => from[t] # 0
                      /\ stage[t] = "record" => done[t] # <<>>
  /\ call \in [Tasks -> Calls] /\ outcome \in [Tasks -> {"completed", "exhausted"}]
  /\ done \in [Tasks -> Histories]
  /\ left \in Allowances

\* The loop is a step ahead of the journal.
AheadOf(lines, steps) == \E o \in Results : steps = Append(Steps(lines), o)

\* The loop and its journal agree, but for the last step; and between two steps altogether.
\* If a last line is torn that holds a step, that step is the last.
Cost(place, lines, open, steps) ==
  /\ place \in Pcs \ {"record", "fail", "ended", "dead"} => steps = Steps(lines)
  /\ place = "record" => AheadOf(lines, steps)
  /\ steps = Steps(lines) \/ AheadOf(lines, steps)
  /\ open => /\ place = "dead" /\ lines # <<>>
             /\ IsStep(Last(lines)) => steps = Steps(lines)

\* The disk failed, or a resumer of the task has died.
Excused(t) == errors[t] # 0 \/ \E r \in Tasks : from[r] = t /\ stage[r] = "dead"

Costs == \A t \in Tasks : ~ Excused(t) => Cost(stage[t], file[t], torn[t], done[t])

\* Only a process that is through has written that it finished.
Through == {"return", "retract", "ended", "dead"}
Finished ==
  \A t \in Tasks : \A i \in DOMAIN file[t] :
    file[t][i].event \in {"completed", "exhausted"} => stage[t] \in Through

JournalInv == TaskTypes /\ Costs /\ Finished

-----------------------------------------------------------------------------
(* What load() finds                                                       *)

LEMMA LineKinds ==
  /\ \A o \in Results : StepLine(o) \in Lines /\ IsStep(StepLine(o)) /\ StepLine(o).obs = o
  /\ \A e \in {"start", "garbled"} \cup Closing : Event(e) \in Lines /\ ~ IsStep(Event(e))
  /\ Garbled \in Lines /\ ~ IsStep(Garbled)
  /\ \A line \in Lines : IsStep(line) => line.obs \in Results
  BY DEF Lines, StepLine, Event, IsStep, Garbled, Closing

LEMMA StepsLoop ==
  ASSUME NEW lines \in Journals
  PROVE  /\ \A i \in 0 .. Len(lines) : StepsIn(lines)[i] \in Histories
         /\ StepsIn(lines)[0] = <<>>
         /\ \A i \in 1 .. Len(lines) :
              StepsIn(lines)[i] = IF IsStep(lines[i]) THEN Append(StepsIn(lines)[i - 1], lines[i].obs)
                                  ELSE StepsIn(lines)[i - 1]
  <1> DEFINE len == Len(lines)
             next(s, i) == IF IsStep(lines[i]) THEN Append(s, lines[i].obs) ELSE s
             step == [i \in 1 .. len |-> [s \in Histories |-> next(s, i)]]
             g == StepsIn(lines)
  <1>1. len \in Nat /\ <<>> \in Histories /\ \A i \in 1 .. len : lines[i] \in Lines
    BY DEF Journals, Histories
  <1>2. \A s \in Histories, i \in 1 .. len : next(s, i) \in Histories
    BY <1>1, LineKinds DEF Histories
  <1> HIDE DEF len
  <1>3. step \in [1 .. len -> [Histories -> Histories]]
    <2> HIDE DEF next
    <2> QED BY <1>2
  <1>4. PICK f \in [0 .. len -> Histories] : f[0] = <<>> /\ \A i \in 1 .. len : f[i] = step[i][f[i - 1]]
    <2> HIDE DEF step
    <2>1. Runs(len, Histories, <<>>, step) # {}
      BY <1>1, <1>3, LoopRuns
    <2> QED BY <2>1 DEF Runs
  <1>5. f = [i \in 0 .. len |-> IF i = 0 THEN <<>> ELSE next(f[i - 1], i)]
    <2>1. \A i \in 1 .. len : i - 1 \in 0 .. len
      BY <1>1
    <2>2. \A i \in 1 .. len : step[i][f[i - 1]] = next(f[i - 1], i)
      <3> HIDE DEF next
      <3> QED BY <2>1
    <2> HIDE DEF next, step
    <2> QED BY <1>1, <1>4, <2>2
  <1>6. g = [i \in 0 .. len |-> IF i = 0 THEN <<>> ELSE next(g[i - 1], i)]
    BY <1>5, Zenon DEF StepsIn, len
  <1> HIDE DEF g
  <1>7. g[0] = <<>> /\ \A i \in 1 .. len : g[i] = next(g[i - 1], i)
    <2>1. \A i \in 1 .. len : i # 0 /\ i \in 0 .. len
      BY <1>1
    <2> HIDE DEF next
    <2> QED BY <1>1, <1>6, <2>1
  <1>8. \A i \in 0 .. len : g[i] \in Histories
    <2>1. Follows(g, len, Histories, <<>>, step)
      <3> HIDE DEF next
      <3> QED BY <1>7 DEF Follows
    <2> HIDE DEF step
    <2> QED BY <1>1, <1>3, <2>1, LoopStays
  <1> QED BY <1>7, <1>8 DEF g, len

\* The steps in a list of lines depend on those lines only.
LEMMA StepsAgree ==
  ASSUME NEW a \in Journals, NEW b \in Journals, NEW k \in Nat, k <= Len(a), k <= Len(b),
         \A i \in 1 .. k : a[i] = b[i]
  PROVE  StepsIn(a)[k] = StepsIn(b)[k]
  <1> DEFINE P == {i \in 0 .. k : StepsIn(a)[i] = StepsIn(b)[i]}
  <1>0. Len(a) \in Nat /\ Len(b) \in Nat
    BY DEF Journals
  <1>1. 0 \in P
    BY StepsLoop
  <1>2. ASSUME NEW i \in 0 .. k, i < k, i \in P PROVE i + 1 \in P
    <2>1. /\ i + 1 \in 1 .. k /\ i + 1 \in 1 .. Len(a) /\ i + 1 \in 1 .. Len(b)
          /\ (i + 1) - 1 = i /\ i + 1 \in 0 .. k
      BY <1>0, <1>2
    <2>2. a[i + 1] = b[i + 1] /\ StepsIn(a)[i] = StepsIn(b)[i]
      BY <1>2, <2>1
    <2>3. StepsIn(a)[i + 1] = IF IsStep(a[i + 1]) THEN Append(StepsIn(a)[i], a[i + 1].obs)
                              ELSE StepsIn(a)[i]
      BY <2>1, StepsLoop
    <2>4. StepsIn(b)[i + 1] = IF IsStep(b[i + 1]) THEN Append(StepsIn(b)[i], b[i + 1].obs)
                              ELSE StepsIn(b)[i]
      BY <2>1, StepsLoop
    <2> QED BY <2>1, <2>2, <2>3, <2>4
  <1>3. 0 .. k \subseteq P
    <2> HIDE DEF P
    <2> QED BY <1>1, <1>2, Counting
  <1> QED BY <1>3

LEMMA StepsTyped ==
  /\ \A lines \in Journals : Steps(lines) \in Histories
  /\ <<>> \in Journals /\ Steps(<<>>) = <<>>
  <1>1. \A lines \in Journals : Len(lines) \in 0 .. Len(lines)
    BY DEF Journals
  <1>2. <<>> \in Journals /\ Len(<<>>) = 0
    BY DEF Journals
  <1> QED BY <1>1, <1>2, StepsLoop DEF Steps

\* A line more.
LEMMA StepsAppend ==
  ASSUME NEW lines \in Journals, NEW line \in Lines
  PROVE  /\ Append(lines, line) \in Journals /\ Append(lines, line) # <<>>
         /\ Last(Append(lines, line)) = line
         /\ Steps(Append(lines, line)) = IF IsStep(line) THEN Append(Steps(lines), line.obs)
                                         ELSE Steps(lines)
  <1> DEFINE more == Append(lines, line)
             len == Len(lines)
  <1>1. /\ more \in Journals /\ len \in Nat /\ Len(more) = len + 1 /\ more[len + 1] = line
        /\ more # <<>> /\ \A i \in 1 .. len : more[i] = lines[i]
    BY DEF Journals
  <1> HIDE DEF more, len
  <1>2. StepsIn(more)[len] = StepsIn(lines)[len]
    BY <1>1, StepsAgree DEF len
  <1>3. len + 1 \in 1 .. Len(more) /\ (len + 1) - 1 = len
    BY <1>1
  <1>4. StepsIn(more)[len + 1] = IF IsStep(line) THEN Append(StepsIn(more)[len], line.obs)
                               ELSE StepsIn(more)[len]
    BY <1>1, <1>3, StepsLoop
  <1> QED BY <1>1, <1>2, <1>4 DEF Steps, Last, more, len

\* The last line spoilt.
Spoilt(lines) == [lines EXCEPT ![Len(lines)] = Garbled]

LEMMA StepsSpoilt ==
  ASSUME NEW lines \in Journals
  PROVE  /\ Spoilt(lines) \in Journals
         /\ \A i \in DOMAIN Spoilt(lines) : i \in DOMAIN lines
                                            /\ Spoilt(lines)[i] \in {lines[i], Garbled}
         /\ lines # <<>> =>
              /\ Last(lines) \in Lines
              /\ Steps(lines) = IF IsStep(Last(lines))
                                THEN Append(Steps(Spoilt(lines)), Last(lines).obs)
                                ELSE Steps(Spoilt(lines))
  <1> DEFINE s == Spoilt(lines)
             len == Len(lines)
  <1>1. /\ s \in Journals /\ len \in Nat /\ Len(s) = len
        /\ \A i \in DOMAIN s : i \in DOMAIN lines /\ s[i] \in {lines[i], Garbled}
        /\ \A i \in 1 .. len : i < len => s[i] = lines[i]
        /\ len > 0 => s[len] = Garbled
    <2>1. /\ len \in Nat /\ lines \in [1 .. len -> Lines] /\ Garbled \in Lines
      BY LineKinds DEF Journals
    <2>2. s = [i \in 1 .. len |-> IF i = len THEN Garbled ELSE lines[i]]
      BY <2>1 DEF Spoilt
    <2> HIDE DEF s
    <2>3. s \in [1 .. len -> Lines] /\ \A i \in 1 .. len : s[i] = IF i = len THEN Garbled ELSE lines[i]
      BY <2>1, <2>2
    <2> HIDE DEF len
    <2>4. s \in Journals /\ Len(s) = len
      <3>1. \A m \in Nat : \A f \in [1 .. m -> Lines] : f \in Seq(Lines) /\ Len(f) = m
        OBVIOUS
      <3> QED BY <2>1, <2>3, <3>1 DEF Journals
    <2> QED BY <2>1, <2>3, <2>4
  <1>2. ASSUME lines # <<>>
        PROVE  /\ Last(lines) \in Lines
               /\ Steps(lines) = IF IsStep(Last(lines)) THEN Append(Steps(s), Last(lines).obs)
                                 ELSE Steps(s)
    <2>1. len > 0 /\ Last(lines) = lines[len] /\ Last(lines) \in Lines
      BY <1>2 DEF Journals, Last
    <2> HIDE DEF s
    <2>2. /\ len - 1 \in Nat /\ len - 1 <= Len(s) /\ len - 1 <= len
          /\ \A i \in 1 .. len - 1 : s[i] = lines[i]
      BY <1>1, <2>1
    <2>3. StepsIn(s)[len - 1] = StepsIn(lines)[len - 1]
      BY <1>1, <2>2, StepsAgree
    <2>4. len \in 1 .. Len(lines) /\ len \in 1 .. Len(s)
      BY <1>1, <2>1
    <2> HIDE DEF len
    <2>5. StepsIn(lines)[len] = IF IsStep(lines[len])
                                THEN Append(StepsIn(lines)[len - 1], lines[len].obs)
                              ELSE StepsIn(lines)[len - 1]
      BY <2>4, StepsLoop
    <2>6. StepsIn(s)[len] = StepsIn(s)[len - 1]
      BY <1>1, <2>1, <2>4, StepsLoop, LineKinds
    <2> QED BY <1>1, <2>1, <2>3, <2>5, <2>6 DEF Steps, len
  <1> QED BY <1>1, <1>2

-----------------------------------------------------------------------------
(* Writing                                                                 *)

\* The line reached the file of t, in whole, or broke off.
Lined(t, line, open) ==
  /\ file' = [file EXCEPT ![t] = Joined(t, line)]
  /\ torn' = [torn EXCEPT ![t] = open]

Broken(t, line) == Lined(t, line, TRUE) \/ Lined(t, Garbled, TRUE)

\* What a write of p to the journal of t may come to: it is there; the disk failed; or p died
\* over it.
LEMMA WriteKinds ==
  ASSUME TaskTypes, NEW p, NEW t \in Tasks, NEW line, NEW here, NEW next,
         WriteStep(p, t, line, here, next)
  PROVE  /\ stage[p] = here /\ left' \in Allowances
         /\ \/ /\ Lined(t, line, FALSE) /\ errors' = errors
               /\ stage' = [stage EXCEPT ![p] = next]
            \/ /\ \/ Broken(t, line)
                  \/ UNCHANGED <<file, torn>>
               /\ errors' = [errors EXCEPT ![t] = errors[t] + 1]
               /\ stage' = [stage EXCEPT ![p] = next]
            \/ /\ Broken(t, line)
               /\ errors' = errors /\ stage' = [stage EXCEPT ![p] = "dead"]
  <1>1. stage[p] = here /\ left' \in Allowances
    <2>1. stage[p] = here
      BY DEF WriteStep
    <2>2. left \in Allowances
      BY DEF TaskTypes
    <2>3. \/ left' = left
          \/ left.errors > 0 /\ left' = [left EXCEPT !.errors = left.errors - 1]
          \/ left.tears > 0 /\ left' = [left EXCEPT !.tears = left.tears - 1]
      BY DEF WriteStep, Write
    <2> QED BY <2>1, <2>2, <2>3 DEF Allowances
  <1>2. \A l : /\ Whole(t, l) => Lined(t, l, FALSE)
               /\ Cut(t, l) => Broken(t, l)
    BY DEF Whole, Cut, Put, Lined, Broken
  <1>3. \/ Whole(t, line) /\ errors' = errors /\ stage' = [stage EXCEPT ![p] = next]
        \/ /\ Cut(t, line) \/ UNCHANGED <<file, torn>>
           /\ errors' = [errors EXCEPT ![t] = errors[t] + 1] /\ stage' = [stage EXCEPT ![p] = next]
        \/ Cut(t, line) /\ errors' = errors /\ stage' = [stage EXCEPT ![p] = "dead"]
    BY DEF WriteStep, Write
  <1> QED BY <1>1, <1>2, <1>3

LEMMA WriteTypes ==
  ASSUME TaskTypes, NEW t \in Tasks, NEW line \in Lines, NEW open \in BOOLEAN,
         Lined(t, line, open)
  PROVE  /\ file' \in [Tasks -> Journals] /\ torn' \in [Tasks -> BOOLEAN]
         /\ \A u \in Tasks : u # t => file'[u] = file[u] /\ torn'[u] = torn[u]
         /\ file'[t] = Joined(t, line) /\ torn'[t] = open
         /\ \A i \in DOMAIN file'[t] :
              \/ file'[t][i] \in {line, Garbled}
              \/ i \in DOMAIN file[t] /\ file'[t][i] = file[t][i]
  <1>1. file[t] \in Journals /\ file \in [Tasks -> Journals] /\ torn \in [Tasks -> BOOLEAN]
    BY DEF TaskTypes
  <1>2. /\ Joined(t, line) \in Journals
        /\ \A i \in DOMAIN Joined(t, line) :
             \/ Joined(t, line)[i] \in {line, Garbled}
             \/ i \in DOMAIN file[t] /\ Joined(t, line)[i] = file[t][i]
    <2>1. CASE torn[t]
      <3>1. Joined(t, line) = Spoilt(file[t])
        BY <2>1 DEF Joined, Spoilt
      <3> QED BY <1>1, <3>1, StepsSpoilt
    <2>2. CASE ~ torn[t]
      <3>1. Joined(t, line) = Append(file[t], line)
        BY <2>2 DEF Joined
      <3>2. \A i \in DOMAIN Append(file[t], line) :
              \/ Append(file[t], line)[i] = line
              \/ i \in DOMAIN file[t] /\ Append(file[t], line)[i] = file[t][i]
        <4> DEFINE lines == file[t]
        <4>1. lines \in Seq(Lines)
          BY <1>1 DEF Journals
        <4> HIDE DEF lines
        <4>2. \A i \in DOMAIN Append(lines, line) :
                \/ Append(lines, line)[i] = line
                \/ i \in DOMAIN lines /\ Append(lines, line)[i] = lines[i]
          BY <4>1
        <4> QED BY <4>2 DEF lines
      <3> QED BY <1>1, <3>1, <3>2, StepsAppend
    <2> QED BY <2>1, <2>2
  <1> QED BY <1>1, <1>2 DEF Lined

\* Whatever a write comes to, the state is typed.
LEMMA WriteKeepsTypes ==
  ASSUME TaskTypes, NEW p \in Tasks, NEW t \in Tasks, NEW line \in Lines, NEW here,
         NEW next \in Pcs \ {"record"}, next = "mark" => from[p] # 0,
         WriteStep(p, t, line, here, next), UNCHANGED <<from, call, outcome, done>>
  PROVE  TaskTypes'
  <1>1. /\ file' \in [Tasks -> Journals] /\ torn' \in [Tasks -> BOOLEAN]
        /\ errors' \in [Tasks -> Nat] /\ left' \in Allowances
    <2>1. \A l \in {line, Garbled} : l \in Lines
      BY LineKinds
    <2>2. \A l \in {line, Garbled}, open \in BOOLEAN :
            Lined(t, l, open) => file' \in [Tasks -> Journals] /\ torn' \in [Tasks -> BOOLEAN]
      BY <2>1, WriteTypes
    <2>3. UNCHANGED <<file, torn>> => file' \in [Tasks -> Journals] /\ torn' \in [Tasks -> BOOLEAN]
      BY DEF TaskTypes
    <2>4. errors[t] + 1 \in Nat /\ errors \in [Tasks -> Nat]
      BY DEF TaskTypes
    <2>5. \/ Lined(t, line, FALSE)
          \/ Broken(t, line)
          \/ UNCHANGED <<file, torn>>
      BY WriteKinds
    <2>6. \/ errors' = errors
          \/ errors' = [errors EXCEPT ![t] = errors[t] + 1]
      BY WriteKinds
    <2>7. left' \in Allowances
      BY WriteKinds
    <2>8. errors' \in [Tasks -> Nat]
      BY <2>4, <2>6
    <2> QED BY <2>2, <2>3, <2>4, <2>5, <2>7, <2>8 DEF Broken
  <1>2. \E len \in {next, "dead"} : stage' = [stage EXCEPT ![p] = len]
    BY WriteKinds
  <1>3. /\ stage' \in [Tasks -> Pcs]
        /\ \A u \in Tasks : /\ stage'[u] = "mark" => stage[u] = "mark" \/ from[u] # 0
                            /\ stage'[u] = "record" => stage[u] = "record"
    BY <1>2 DEF TaskTypes, Pcs
  <1> QED BY <1>1, <1>3 DEF TaskTypes

\* Whoever is excused stays so.
LEMMA ExcusesLast ==
  ASSUME TaskTypes, JournalNext
  PROVE  \A u \in Tasks : Excused(u) => Excused(u)'
  <1>1. \A u \in Tasks : errors[u] # 0 => errors'[u] # 0
    <2>1. CASE errors' = errors
      BY <2>1
    <2>2. CASE \E t \in Tasks : errors' = [errors EXCEPT ![t] = errors[t] + 1]
      BY <2>2 DEF TaskTypes
    <2>3. errors' = errors \/ \E t \in Tasks : errors' = [errors EXCEPT ![t] = errors[t] + 1]
      <3>1. \A t \in Tasks : from[t] # 0 => from[t] \in Tasks
        BY DEF TaskTypes, Tasks
      <3>2. \A t \in Tasks : stage[t] = "mark" => from[t] # 0
        BY DEF TaskTypes
      <3>3. \A p, t \in Tasks : \A line, here, next :
              WriteStep(p, t, line, here, next) =>
                errors' = errors \/ errors' = [errors EXCEPT ![t] = errors[t] + 1]
        BY DEF WriteStep, Write
      <3>4. \A t \in Tasks : MarkResumed(t) => from[t] \in Tasks
        BY <3>1, <3>2 DEF MarkResumed, WriteStep
      <3> QED BY <3>3, <3>4 DEF JournalNext, Process, Do, Resume, Create, MarkResumed, Generate,
                               Execute, Record, Remember, Close, Return, Interrupt, Fail, Kill, diskVars
    <2> QED BY <2>1, <2>2, <2>3
  <1>2. \A r \in Tasks : stage[r] = "dead" => stage'[r] = "dead" /\ from'[r] = from[r]
    BY DEF JournalNext, Process, Do, Resume, StartTask, Fresh, Create, MarkResumed, Generate,
           Execute, Answer, Reply, Record, Remember, Close, Return, Interrupt, Fail, Kill, WriteStep,
           Running, TaskTypes, startVars
  <1> QED BY <1>1, <1>2 DEF Excused

-----------------------------------------------------------------------------
(* Types                                                                   *)

LEMMA ResultTypes ==
  ASSUME TaskTypes, NEW t \in Tasks
  PROVE  /\ Observations(t) \subseteq Results
         /\ \A o \in Results : Append(done[t], o) \in Histories
  <1>1. call[t] \in Calls
    BY DEF TaskTypes
  <1>2. \/ Observations(t) = {[tool |-> call[t].name, ok |-> FALSE, dry |-> FALSE]}
        \/ Observations(t) = {[tool |-> call[t].name, ok |-> TRUE, dry |-> TRUE]}
        \/ \E S \in SUBSET BOOLEAN : Observations(t) = [tool : {call[t].name}, dry : {FALSE}, ok : S]
    BY {FALSE} \subseteq BOOLEAN DEF Observations
  <1>3. Observations(t) \subseteq Results
    <2>1. PICK name \in {c.name : c \in Calls} : name = call[t].name
      BY <1>1
    <2>2. /\ [tool |-> name, ok |-> FALSE, dry |-> FALSE] \in Results
          /\ [tool |-> name, ok |-> TRUE, dry |-> TRUE] \in Results
      BY DEF Results
    <2>3. \A S \in SUBSET BOOLEAN : [tool : {name}, dry : {FALSE}, ok : S] \subseteq Results
      BY DEF Results
    <2> QED BY <1>2, <2>1, <2>2, <2>3
  <1>4. done[t] \in Histories
    BY DEF TaskTypes
  <1> QED BY <1>3, <1>4 DEF Histories

LEMMA TypesStay ==
  ASSUME TaskTypes, JournalNext
  PROVE  TaskTypes'
  <1> USE DEF Pcs, Running
  <1>0. left \in Allowances /\ NoCall \in Calls
    BY DEF TaskTypes, Calls
  <1>1. ASSUME NEW t \in Tasks, Do(t) PROVE TaskTypes'
    <2>1. left' \in Allowances
      BY <1>0, <1>1 DEF Do, StartTask, Allowances
    <2> QED BY <1>1, <2>1 DEF TaskTypes, Do, diskVars, loopVars
  <1>2. ASSUME NEW t \in Tasks, NEW s \in Tasks, Resume(t, s) PROVE TaskTypes'
    <2>1. left' \in Allowances
      BY <1>0, <1>2 DEF Resume, StartTask, Allowances
    <2>2. s \in 0 .. MaxTasks /\ s # 0
      BY JournalAssumption DEF JournalAssumption, Tasks
    <2> QED BY <1>2, <2>1, <2>2 DEF TaskTypes, Resume, diskVars, loopVars
  <1>3. ASSUME NEW t \in Tasks, Create(t) PROVE TaskTypes'
    <2>1. CASE from[t] = 0
      <3>1. WriteStep(t, t, Event("start"), "create", "generate")
        BY <1>3, <2>1 DEF Create
      <3>2. Event("start") \in Lines /\ "generate" \in Pcs \ {"record"}
        BY LineKinds
      <3>3. UNCHANGED <<from, call, outcome, done>>
        BY <1>3 DEF Create, startVars, loopVars
      <3> QED BY <3>1, <3>2, <3>3, WriteKeepsTypes
    <2>2. CASE from[t] # 0
      <3>1. WriteStep(t, t, Event("start"), "create", "mark")
        BY <1>3, <2>2 DEF Create
      <3>2. Event("start") \in Lines /\ "mark" \in Pcs \ {"record"}
        BY LineKinds
      <3>3. UNCHANGED <<from, call, outcome, done>>
        BY <1>3 DEF Create, startVars, loopVars
      <3> QED BY <2>2, <3>1, <3>2, <3>3, WriteKeepsTypes
    <2> QED BY <2>1, <2>2
  <1>4. ASSUME NEW t \in Tasks, MarkResumed(t) PROVE TaskTypes'
    <2>1. from[t] \in Tasks
      BY <1>4 DEF MarkResumed, WriteStep, TaskTypes, Tasks
    <2>2. Event("resumed") \in Lines /\ "generate" \in Pcs \ {"record"}
      BY LineKinds DEF Closing
    <2>3. UNCHANGED <<from, call, outcome, done>>
      BY <1>4 DEF MarkResumed, startVars, loopVars
    <2> QED BY <1>4, <2>1, <2>2, <2>3, WriteKeepsTypes DEF MarkResumed
  <1>5. ASSUME NEW t \in Tasks, Generate(t) PROVE TaskTypes'
    <2>1. UNCHANGED <<file, torn, errors, from, done, left>>
      BY <1>5 DEF Generate, diskVars, startVars
    <2>2. /\ call' \in [Tasks -> Calls] /\ outcome' \in [Tasks -> {"completed", "exhausted"}]
          /\ stage' \in [Tasks -> Pcs]
          /\ \A u \in Tasks : stage'[u] \in {"mark", "record"} => stage'[u] = stage[u]
      <3>1. \A how \in {"completed", "exhausted"} : Answer(t, how) =>
              /\ call' = call /\ outcome' = [outcome EXCEPT ![t] = how]
              /\ stage' = [stage EXCEPT ![t] = "remember"]
        BY DEF Answer
      <3>2. \A r \in Replies : Reply(t, r) =>
              \/ Answer(t, "completed")
              \/ /\ call' = [call EXCEPT ![t] = CallIn[r]] /\ outcome' = outcome
                 /\ stage' = [stage EXCEPT ![t] = "execute"]
        BY DEF Reply
      <3>3. \/ \E how \in {"completed", "exhausted"} : Answer(t, how)
            \/ \E r \in Replies : Reply(t, r)
        BY <1>0, <1>5 DEF Generate, Allowances
      <3>4. \A r \in Replies : CallIn[r] \in Calls
        BY DEF Calls
      <3>5. CASE \E how \in {"completed", "exhausted"} : Answer(t, how)
        BY <3>1, <3>5 DEF TaskTypes
      <3>6. CASE \E r \in Replies : /\ call' = [call EXCEPT ![t] = CallIn[r]] /\ outcome' = outcome
                                    /\ stage' = [stage EXCEPT ![t] = "execute"]
        BY <3>4, <3>6 DEF TaskTypes
      <3> QED BY <3>2, <3>3, <3>5, <3>6
    <2> QED BY <2>1, <2>2 DEF TaskTypes
  <1>6. ASSUME NEW t \in Tasks, Execute(t) PROVE TaskTypes'
    <2>1. done' \in [Tasks -> Histories] /\ done'[t] # <<>>
      <3>1. PICK o \in Results : done' = [done EXCEPT ![t] = Append(done[t], o)]
        BY <1>6, ResultTypes DEF Execute
      <3>2. Append(done[t], o) \in Histories /\ Append(done[t], o) # <<>>
        <4>1. \A s \in Seq(Results) : Len(Append(s, o)) = Len(s) + 1 /\ Len(s) \in Nat
          OBVIOUS
        <4>2. Len(<<>>) = 0 /\ done[t] \in Seq(Results)
          BY DEF TaskTypes, Histories
        <4>3. Append(done[t], o) # <<>>
          <5>1. Len(Append(done[t], o)) # Len(<<>>)
            BY <4>1, <4>2
          <5> QED BY <5>1, Zenon
        <4> QED BY <4>3, ResultTypes
      <3> QED BY <3>1, <3>2 DEF TaskTypes
    <2> QED BY <1>0, <1>6, <2>1 DEF Execute, TaskTypes, Drop, diskVars, startVars
  <1>7. ASSUME NEW t \in Tasks, Record(t) PROVE TaskTypes'
    <2>1. StepLine(Last(done[t])) \in Lines
      <3>1. Last(done[t]) \in Results
        BY <1>7 DEF TaskTypes, Histories, Last, Record, WriteStep
      <3> QED BY <3>1, LineKinds
    <2>2. UNCHANGED <<from, call, outcome, done>>
      BY <1>7 DEF Record, startVars
    <2> QED BY <1>7, <2>1, <2>2, WriteKeepsTypes DEF Record
  <1>8. ASSUME NEW t \in Tasks, Remember(t) \/ Return(t) \/ Kill(t) PROVE TaskTypes'
    <2>1. left' \in Allowances
      BY <1>0, <1>8 DEF Remember, Return, Kill, Allowances
    <2>2. \E place \in {"close", "ended", "dead"} : stage' = [stage EXCEPT ![t] = place]
      BY <1>8 DEF Remember, Return, Kill
    <2>3. call' = call \/ call' = [call EXCEPT ![t] = NoCall]
      BY <1>8 DEF Remember, Return, Kill, Drop, loopVars
    <2>4. call' \in [Tasks -> Calls]
      BY <1>0, <2>3 DEF TaskTypes
    <2>5. UNCHANGED <<file, torn, errors, from, outcome, done>>
      BY <1>8 DEF Remember, Return, Kill, diskVars, startVars, loopVars
    <2> QED BY <2>1, <2>2, <2>4, <2>5 DEF TaskTypes
  <1>9. ASSUME NEW t \in Tasks, Close(t) PROVE TaskTypes'
    <2>1. Event(outcome[t]) \in Lines
      BY LineKinds DEF TaskTypes, Closing
    <2>2. UNCHANGED <<from, call, outcome, done>>
      BY <1>9 DEF Close, startVars, loopVars
    <2> QED BY <1>9, <2>1, <2>2, WriteKeepsTypes DEF Close
  <1>10. ASSUME NEW t \in Tasks, Interrupt(t) PROVE TaskTypes'
    <2>1. done' \in [Tasks -> Histories] /\ \A u \in Tasks : u # t => done'[u] = done[u]
      <3>1. done' = done \/ \E o \in Results : done' = [done EXCEPT ![t] = Append(done[t], o)]
        BY <1>10, ResultTypes DEF Interrupt
      <3>2. \A o \in Results : Append(done[t], o) \in Histories
        BY ResultTypes
      <3> QED BY <3>1, <3>2 DEF TaskTypes
    <2>2. left' \in Allowances
      BY <1>0, <1>10 DEF Interrupt, Allowances
    <2> QED BY <1>0, <1>10, <2>1, <2>2 DEF Interrupt, TaskTypes, Drop, diskVars, startVars
  <1>11. ASSUME NEW t \in Tasks, Fail(t) PROVE TaskTypes'
    <2>1. Event("failed") \in Lines
      BY LineKinds DEF Closing
    <2>2. UNCHANGED <<from, call, outcome, done>>
      BY <1>11 DEF Fail, startVars, loopVars
    <2>3. PICK here \in {"fail", "retract"} : WriteStep(t, t, Event("failed"), here, "ended")
      BY <1>11 DEF Fail
    <2> QED BY <2>1, <2>2, <2>3, WriteKeepsTypes
  <1> QED BY <1>1, <1>2, <1>3, <1>4, <1>5, <1>6, <1>7, <1>8, <1>9, <1>10, <1>11 DEF JournalNext, Process

-----------------------------------------------------------------------------
(* What a crash costs                                                      *)

\* A line that is no step.
LEMMA Noted ==
  ASSUME NEW lines \in Journals, NEW line \in Lines, ~ IsStep(line), NEW steps
  PROVE  /\ steps = Steps(Append(lines, line)) <=> steps = Steps(lines)
         /\ AheadOf(Append(lines, line), steps) <=> AheadOf(lines, steps)
         /\ Append(lines, line) # <<>> /\ ~ IsStep(Last(Append(lines, line)))
  BY StepsAppend DEF AheadOf

\* The line of the step the loop is ahead by.
LEMMA Recorded ==
  ASSUME NEW lines \in Journals, NEW steps, AheadOf(lines, steps)
  PROVE  /\ StepLine(Last(steps)) \in Lines
         /\ Append(lines, StepLine(Last(steps))) # <<>>
         /\ steps = Steps(Append(lines, StepLine(Last(steps))))
  <1>1. PICK o \in Results : steps = Append(Steps(lines), o)
    BY DEF AheadOf
  <1>2. Last(steps) = o
    <2>1. \A s \in Seq(Results) : Append(s, o)[Len(Append(s, o))] = o
      OBVIOUS
    <2>2. Steps(lines) \in Seq(Results)
      BY StepsTyped DEF Histories
    <2> QED BY <1>1, <2>1, <2>2 DEF Last
  <1>3. StepLine(o) \in Lines /\ IsStep(StepLine(o)) /\ StepLine(o).obs = o
    BY LineKinds
  <1>4. Steps(Append(lines, StepLine(o))) = Append(Steps(lines), o) /\ Append(lines, StepLine(o)) # <<>>
    BY <1>3, StepsAppend
  <1> QED BY <1>1, <1>2, <1>3, <1>4

\* A marker that is glued to a torn line takes the step with it, if there was one.
LEMMA Glued ==
  ASSUME NEW lines \in Journals, lines # <<>>, NEW steps,
         steps = Steps(lines) \/ AheadOf(lines, steps), IsStep(Last(lines)) => steps = Steps(lines)
  PROVE  steps = Steps(Spoilt(lines)) \/ AheadOf(Spoilt(lines), steps)
  <1>1. CASE IsStep(Last(lines))
    <2>1. Last(lines).obs \in Results
      BY <1>1, StepsSpoilt, LineKinds
    <2>2. steps = Append(Steps(Spoilt(lines)), Last(lines).obs)
      BY <1>1, StepsSpoilt
    <2> QED BY <2>1, <2>2 DEF AheadOf
  <1>2. CASE ~ IsStep(Last(lines))
    BY <1>2, StepsSpoilt DEF AheadOf
  <1> QED BY <1>1, <1>2

\* A process that writes to its own journal finds no torn line there.
LEMMA OwnWrite ==
  ASSUME TaskTypes, Costs, NEW t \in Tasks, NEW line \in Lines, NEW here, here # "dead", NEW next,
         WriteStep(t, t, line, here, next), ~ Excused(t), ~ Excused(t)'
  PROVE  /\ file[t] \in Journals /\ stage[t] = here /\ ~ torn[t]
         /\ \/ file'[t] = Append(file[t], line) /\ torn'[t] = FALSE /\ stage'[t] = next
            \/ /\ file'[t] = Append(file[t], line) \/ file'[t] = Append(file[t], Garbled)
               /\ torn'[t] = TRUE /\ stage'[t] = "dead"
  <1>1. /\ file[t] \in Journals /\ stage[t] = here /\ torn[t] \in BOOLEAN
        /\ stage \in [Tasks -> Pcs] /\ errors \in [Tasks -> Nat]
    BY WriteKinds DEF TaskTypes
  <1>2. ~ torn[t]
    BY <1>1 DEF Costs, Cost
  <1>3. errors' # [errors EXCEPT ![t] = errors[t] + 1]
    <2>1. errors'[t] = 0 /\ errors[t] = 0
      BY DEF Excused
    <2> QED BY <1>1, <2>1
  <1>4. \A l : Joined(t, l) = Append(file[t], l)
    BY <1>2 DEF Joined
  <1>5. /\ \A l \in Lines, open \in BOOLEAN :
             Lined(t, l, open) => file'[t] = Append(file[t], l) /\ torn'[t] = open
        /\ Garbled \in Lines
    BY <1>4, WriteTypes, LineKinds
  <1>6. \/ Lined(t, line, FALSE) /\ stage' = [stage EXCEPT ![t] = next]
        \/ Broken(t, line) /\ stage' = [stage EXCEPT ![t] = "dead"]
    BY <1>3, WriteKinds
  <1> QED BY <1>1, <1>2, <1>5, <1>6 DEF Broken

\* Whatever a process writes, the other tasks and journals are as they were.
LEMMA OthersKept ==
  ASSUME TaskTypes, NEW p \in Tasks, NEW t \in Tasks, NEW line \in Lines, NEW here, NEW next,
         WriteStep(p, t, line, here, next)
  PROVE  /\ \A u \in Tasks \ {t} : file'[u] = file[u] /\ torn'[u] = torn[u]
         /\ \A u \in Tasks \ {p} : stage'[u] = stage[u]
  <1>1. /\ Garbled \in Lines
        /\ \A l \in Lines, open \in BOOLEAN : Lined(t, l, open) =>
             \A u \in Tasks : u # t => file'[u] = file[u] /\ torn'[u] = torn[u]
    BY WriteTypes, LineKinds
  <1>2. \A len : stage' = [stage EXCEPT ![p] = len] => \A u \in Tasks \ {p} : stage'[u] = stage[u]
    BY DEF TaskTypes
  <1>3. \/ Lined(t, line, FALSE)
        \/ Broken(t, line)
        \/ UNCHANGED <<file, torn>>
    BY WriteKinds
  <1>4. stage' = [stage EXCEPT ![p] = next] \/ stage' = [stage EXCEPT ![p] = "dead"]
    BY WriteKinds
  <1> QED BY <1>1, <1>2, <1>3, <1>4 DEF Broken

\* A task whose journal and process are left alone, or whose process only goes on.
CostOf(t) == ~ Excused(t) => Cost(stage[t], file[t], torn[t], done[t])

LEMMA CostKept ==
  ASSUME TaskTypes, Costs, JournalNext, NEW u \in Tasks,
         file'[u] = file[u], torn'[u] = torn[u], stage'[u] = stage[u], done'[u] = done[u]
  PROVE  CostOf(u)'
  BY ExcusesLast DEF Costs, CostOf

LEMMA CostGoesOn ==
  ASSUME TaskTypes, Costs, JournalNext, NEW u \in Tasks,
         file'[u] = file[u], torn'[u] = torn[u], done'[u] = done[u],
         stage[u] \notin {"record", "fail", "ended", "dead"}, stage'[u] \in Pcs \ {"record"}
  PROVE  CostOf(u)'
  <1>1. stage[u] \in Pcs
    BY DEF TaskTypes
  <1> QED BY <1>1, ExcusesLast DEF Costs, CostOf, Cost

LEMMA CostEnds ==
  ASSUME TaskTypes, Costs, JournalNext, NEW u \in Tasks,
         file'[u] = file[u], torn'[u] = torn[u], done'[u] = done[u],
         stage[u] # "dead", stage'[u] \in {"fail", "ended", "dead"}
  PROVE  CostOf(u)'
  BY ExcusesLast DEF Costs, CostOf, Cost

LEMMA CostActs ==
  ASSUME TaskTypes, Costs, JournalNext, NEW u \in Tasks, NEW o \in Results,
         file'[u] = file[u], torn'[u] = torn[u], done'[u] = Append(done[u], o),
         stage[u] = "execute", stage'[u] \in {"record", "fail"}
  PROVE  CostOf(u)'
  <1>1. stage[u] \in Pcs \ {"record", "fail", "ended", "dead"}
    BY DEF TaskTypes
  <1> QED BY <1>1, ExcusesLast DEF Costs, CostOf, Cost, AheadOf

\* A line that is no step, written at any place but a step's.
LEMMA CostNotes ==
  ASSUME TaskTypes, Costs, JournalNext, NEW u \in Tasks, NEW line \in Lines, ~ IsStep(line),
         NEW here \in Pcs \ {"record", "ended", "dead"}, NEW next \in Pcs \ {"record"},
         next \in {"fail", "ended", "dead"} \/ here # "fail",
         WriteStep(u, u, line, here, next), done'[u] = done[u]
  PROVE  CostOf(u)'
  <1> SUFFICES ASSUME ~ Excused(u)' PROVE Cost(stage'[u], file'[u], torn'[u], done'[u])
    BY DEF CostOf
  <1>1. ~ Excused(u)
    BY ExcusesLast
  <1>2. /\ file[u] \in Journals /\ stage[u] = here /\ ~ torn[u]
        /\ \/ file'[u] = Append(file[u], line) /\ torn'[u] = FALSE /\ stage'[u] = next
           \/ /\ file'[u] = Append(file[u], line) \/ file'[u] = Append(file[u], Garbled)
              /\ torn'[u] = TRUE /\ stage'[u] = "dead"
    BY <1>1, OwnWrite
  <1>3. Cost(here, file[u], torn[u], done[u])
    BY <1>1, <1>2 DEF Costs
  <1>4. Garbled \in Lines /\ ~ IsStep(Garbled)
    BY LineKinds
  <1>5. PICK l \in Lines : file'[u] = Append(file[u], l) /\ ~ IsStep(l)
    BY <1>2, <1>4
  <1>6. /\ done[u] = Steps(Append(file[u], l)) <=> done[u] = Steps(file[u])
        /\ AheadOf(Append(file[u], l), done[u]) <=> AheadOf(file[u], done[u])
        /\ Append(file[u], l) # <<>> /\ ~ IsStep(Last(Append(file[u], l)))
    BY <1>2, <1>5, Noted
  <1> QED BY <1>2, <1>3, <1>5, <1>6 DEF Cost

LEMMA CostRecords ==
  ASSUME TaskTypes, Costs, JournalNext, NEW u \in Tasks, Record(u)
  PROVE  CostOf(u)'
  <1> SUFFICES ASSUME ~ Excused(u)' PROVE Cost(stage'[u], file'[u], torn'[u], done'[u])
    BY DEF CostOf
  <1> DEFINE line == StepLine(Last(done[u]))
  <1>1. /\ ~ Excused(u) /\ done' = done
        /\ WriteStep(u, u, line, "record", "generate") /\ stage[u] = "record" /\ file[u] \in Journals
    BY ExcusesLast DEF Record, WriteStep, TaskTypes
  <1>2. AheadOf(file[u], done[u])
    BY <1>1 DEF Costs, Cost
  <1>3. line \in Lines /\ Append(file[u], line) # <<>> /\ done[u] = Steps(Append(file[u], line))
    BY <1>1, <1>2, Recorded
  <1> HIDE DEF line
  <1>4. \/ file'[u] = Append(file[u], line) /\ torn'[u] = FALSE /\ stage'[u] = "generate"
        \/ /\ file'[u] = Append(file[u], line) \/ file'[u] = Append(file[u], Garbled)
           /\ torn'[u] = TRUE /\ stage'[u] = "dead"
    BY <1>1, <1>3, OwnWrite
  <1>5. Garbled \in Lines /\ ~ IsStep(Garbled)
    BY LineKinds
  <1>6. CASE file'[u] = Append(file[u], line)
    BY <1>1, <1>3, <1>4, <1>6 DEF Cost
  <1>7. CASE file'[u] = Append(file[u], Garbled) /\ stage'[u] = "dead"
    BY <1>1, <1>2, <1>5, <1>7, Noted DEF Cost
  <1> QED BY <1>4, <1>6, <1>7

\* The marker of a resumer, which is excused where it is not whole.
LEMMA CostMarked ==
  ASSUME TaskTypes, Costs, JournalNext, NEW p \in Tasks, MarkResumed(p)
  PROVE  \A u \in Tasks : CostOf(u)'
  <1> DEFINE line == Event("resumed")
  <1>0. PICK t \in Tasks : t = from[p] /\ WriteStep(p, t, line, "mark", "generate")
    <2>1. WriteStep(p, from[p], line, "mark", "generate") /\ stage[p] = "mark"
      BY DEF MarkResumed, WriteStep
    <2>2. from[p] \in Tasks
      BY <2>1 DEF TaskTypes, Tasks
    <2> QED BY <2>1, <2>2
  <1>1. /\ WriteStep(p, t, line, "mark", "generate") /\ line \in Lines /\ ~ IsStep(line)
        /\ done' = done /\ from' = from /\ stage[p] = "mark"
    <2>1. done' = done /\ from' = from /\ stage[p] = "mark"
      BY DEF MarkResumed, WriteStep, startVars, loopVars
    <2> QED BY <1>0, <2>1, LineKinds DEF Closing
  <1> HIDE DEF line
  <1>2. /\ \A u \in Tasks \ {t} : file'[u] = file[u] /\ torn'[u] = torn[u]
        /\ \A u \in Tasks \ {p} : stage'[u] = stage[u]
    BY <1>1, OthersKept
  <1>3. stage'[p] \in {"generate", "dead"}
    <2>1. stage' = [stage EXCEPT ![p] = "generate"] \/ stage' = [stage EXCEPT ![p] = "dead"]
      BY <1>1, WriteKinds
    <2> QED BY <2>1 DEF TaskTypes
  <1>4. ASSUME NEW u \in Tasks, u # t PROVE CostOf(u)'
    <2>1. CASE u = p
      BY <1>1, <1>2, <1>3, <1>4, <2>1, CostGoesOn DEF Pcs, Running
    <2>2. CASE u # p
      BY <1>1, <1>2, <1>4, <2>2, CostKept
    <2> QED BY <2>1, <2>2
  <1>5. ASSUME ~ Excused(t)' PROVE Cost(stage'[t], file'[t], torn'[t], done'[t])
    <2>1. ~ Excused(t) /\ file[t] \in Journals /\ torn[t] \in BOOLEAN
      BY <1>1, <1>5, ExcusesLast DEF TaskTypes
    <2>2. Cost(stage[t], file[t], torn[t], done[t])
      BY <1>1, <2>1 DEF Costs
    <2>3. Lined(t, line, FALSE) /\ stage' = [stage EXCEPT ![p] = "generate"]
      <3>1. errors' # [errors EXCEPT ![t] = errors[t] + 1]
        <4>1. errors'[t] = 0 /\ errors[t] = 0
          BY <1>5, <2>1 DEF Excused
        <4> QED BY <1>1, <4>1 DEF TaskTypes
      <3>2. stage' # [stage EXCEPT ![p] = "dead"]
        <4>1. stage'[p] # "dead"
          BY <1>0, <1>1, <1>5 DEF Excused
        <4> QED BY <4>1 DEF TaskTypes
      <3> QED BY <1>1, <3>1, <3>2, WriteKinds
    <2>4. file'[t] = Joined(t, line) /\ torn'[t] = FALSE
      BY <1>1, <2>3, WriteTypes
    <2>5. CASE torn[t]
      <3>1. /\ stage[t] = "dead" /\ file[t] # <<>>
            /\ done[t] = Steps(file[t]) \/ AheadOf(file[t], done[t])
            /\ IsStep(Last(file[t])) => done[t] = Steps(file[t])
        BY <2>2, <2>5 DEF Cost
      <3>2. t # p /\ stage'[t] = "dead"
        BY <1>1, <1>2, <3>1
      <3>3. file'[t] = Spoilt(file[t])
        BY <2>4, <2>5 DEF Joined, Spoilt
      <3>4. done[t] = Steps(Spoilt(file[t])) \/ AheadOf(Spoilt(file[t]), done[t])
        BY <2>1, <3>1, Glued
      <3> QED BY <1>1, <2>4, <3>2, <3>3, <3>4 DEF Cost
    <2>6. CASE ~ torn[t]
      <3>1. file'[t] = Append(file[t], line)
        BY <2>4, <2>6 DEF Joined
      <3>2. /\ done[t] = Steps(file'[t]) <=> done[t] = Steps(file[t])
            /\ AheadOf(file'[t], done[t]) <=> AheadOf(file[t], done[t])
        BY <1>1, <2>1, <3>1, Noted
      <3>3. stage'[t] = stage[t] \/ (stage[t] = "mark" /\ stage'[t] = "generate")
        BY <1>1, <2>3 DEF TaskTypes
      <3> QED BY <1>1, <2>2, <2>4, <3>2, <3>3 DEF Cost, Pcs, Running
    <2> QED BY <2>1, <2>5, <2>6
  <1> QED BY <1>1, <1>4, <1>5 DEF CostOf

\* A write of a process to its own journal leaves the other tasks alone.
LEMMA OwnNote ==
  ASSUME TaskTypes, Costs, JournalNext, NEW t \in Tasks, NEW line \in Lines, ~ IsStep(line),
         NEW here \in Pcs \ {"record", "ended", "dead"}, NEW next \in Pcs \ {"record"},
         next \in {"fail", "ended", "dead"} \/ here # "fail",
         WriteStep(t, t, line, here, next), done' = done
  PROVE  Costs'
  <1>1. \A u \in Tasks : u # t => CostOf(u)'
    <2> TAKE u \in Tasks
    <2> HAVE u # t
    <2>1. file'[u] = file[u] /\ torn'[u] = torn[u] /\ stage'[u] = stage[u] /\ done'[u] = done[u]
      BY OthersKept
    <2> QED BY <2>1, CostKept
  <1>2. done'[t] = done[t]
    OBVIOUS
  <1>3. CostOf(t)'
    BY <1>2, CostNotes
  <1> QED BY <1>1, <1>3 DEF Costs, CostOf

\* A step of a process that writes nothing.
LEMMA OwnStep ==
  ASSUME TaskTypes, Costs, JournalNext, NEW t \in Tasks, NEW place \in Pcs,
         UNCHANGED diskVars, stage' = [stage EXCEPT ![t] = place], CostOf(t)',
         \A u \in Tasks : u # t => done'[u] = done[u]
  PROVE  Costs'
  <1>1. \A u \in Tasks : u # t => CostOf(u)'
    <2> TAKE u \in Tasks
    <2> HAVE u # t
    <2>1. file'[u] = file[u] /\ torn'[u] = torn[u] /\ stage'[u] = stage[u] /\ done'[u] = done[u]
      BY DEF diskVars, TaskTypes
    <2> QED BY <2>1, CostKept
  <1> QED BY <1>1 DEF Costs, CostOf

LEMMA CostsStay ==
  ASSUME TaskTypes, Costs, JournalNext
  PROVE  Costs'
  <1> USE DEF Pcs, Running
  <1>1. ASSUME NEW t \in Tasks, NEW here \in Pcs, NEW place \in Pcs, stage[t] = here,
               here \notin {"record", "fail", "ended", "dead"}, place # "record",
               stage' = [stage EXCEPT ![t] = place], UNCHANGED diskVars, done' = done
        PROVE  Costs'
    <2>1. /\ file'[t] = file[t] /\ torn'[t] = torn[t] /\ done'[t] = done[t] /\ stage'[t] = place
          /\ \A u \in Tasks : u # t => done'[u] = done[u]
      BY <1>1 DEF diskVars, TaskTypes
    <2>2. CostOf(t)'
      BY <1>1, <2>1, CostGoesOn
    <2> QED BY <1>1, <2>1, <2>2, OwnStep
  <1>2. ASSUME NEW t \in Tasks, NEW place \in {"fail", "dead"}, stage[t] # "dead",
               stage' = [stage EXCEPT ![t] = place], UNCHANGED diskVars, done' = done
        PROVE  Costs'
    <2>1. /\ file'[t] = file[t] /\ torn'[t] = torn[t] /\ done'[t] = done[t] /\ stage'[t] = place
          /\ \A u \in Tasks : u # t => done'[u] = done[u]
      BY <1>2 DEF diskVars, TaskTypes
    <2>2. CostOf(t)'
      BY <1>2, <2>1, CostEnds
    <2> QED BY <1>2, <2>1, <2>2, OwnStep
  <1>3. ASSUME NEW t \in Tasks, NEW place \in {"record", "fail"}, stage[t] = "execute",
               stage' = [stage EXCEPT ![t] = place], UNCHANGED diskVars,
               NEW o \in Observations(t), done' = [done EXCEPT ![t] = Append(done[t], o)]
        PROVE  Costs'
    <2>1. /\ file'[t] = file[t] /\ torn'[t] = torn[t] /\ stage'[t] = place
          /\ done'[t] = Append(done[t], o)
          /\ \A u \in Tasks : u # t => done'[u] = done[u]
      BY <1>3 DEF diskVars, TaskTypes
    <2>2. o \in Results
      BY <1>3, ResultTypes
    <2>3. CostOf(t)'
      BY <1>3, <2>1, <2>2, CostActs
    <2> QED BY <1>3, <2>1, <2>3, OwnStep
  <1>4. ASSUME NEW t \in Tasks, NEW s \in Tasks, Do(t) \/ Resume(t, s) PROVE Costs'
    <2>1. /\ stage[t] = "none" /\ stage' = [stage EXCEPT ![t] = "create"] /\ UNCHANGED diskVars
          /\ done' = done
      BY <1>4 DEF Do, Resume, StartTask, Fresh, loopVars
    <2> QED BY <1>1, <2>1
  <1>5. ASSUME NEW t \in Tasks, Create(t) PROVE Costs'
    <2>1. PICK next \in {"generate", "mark"} : WriteStep(t, t, Event("start"), "create", next)
      BY <1>5 DEF Create
    <2>2. done' = done /\ Event("start") \in Lines /\ ~ IsStep(Event("start"))
      BY <1>5, LineKinds DEF Create, loopVars
    <2> QED BY <2>1, <2>2, OwnNote
  <1>6. ASSUME NEW t \in Tasks, MarkResumed(t) PROVE Costs'
    BY <1>6, CostMarked DEF Costs, CostOf
  <1>7. ASSUME NEW t \in Tasks, Generate(t) PROVE Costs'
    <2>1. PICK place \in {"remember", "execute"} : stage' = [stage EXCEPT ![t] = place]
      BY <1>7 DEF Generate, Reply, Answer
    <2>2. stage[t] = "generate" /\ UNCHANGED diskVars /\ done' = done
      BY <1>7 DEF Generate
    <2> QED BY <1>1, <2>1, <2>2
  <1>8. ASSUME NEW t \in Tasks, Execute(t) PROVE Costs'
    <2>1. PICK o \in Observations(t) : done' = [done EXCEPT ![t] = Append(done[t], o)]
      BY <1>8 DEF Execute
    <2>2. stage[t] = "execute" /\ stage' = [stage EXCEPT ![t] = "record"] /\ UNCHANGED diskVars
      BY <1>8 DEF Execute
    <2> QED BY <1>3, <2>1, <2>2
  <1>9. ASSUME NEW t \in Tasks, Record(t) PROVE Costs'
    <2>1. /\ WriteStep(t, t, StepLine(Last(done[t])), "record", "generate") /\ done' = done
      BY <1>9 DEF Record
    <2>2. StepLine(Last(done[t])) \in Lines
      <3>1. Last(done[t]) \in Results
        BY <2>1 DEF TaskTypes, Histories, Last, WriteStep
      <3> QED BY <3>1, LineKinds
    <2>3. \A u \in Tasks : u # t => CostOf(u)'
      <3> TAKE u \in Tasks
      <3> HAVE u # t
      <3>1. file'[u] = file[u] /\ torn'[u] = torn[u] /\ stage'[u] = stage[u] /\ done'[u] = done[u]
        BY <2>1, <2>2, OthersKept
      <3> QED BY <3>1, CostKept
    <2> QED BY <1>9, <2>3, CostRecords DEF Costs, CostOf
  <1>10. ASSUME NEW t \in Tasks, Remember(t) PROVE Costs'
    <2>1. /\ stage[t] = "remember" /\ stage' = [stage EXCEPT ![t] = "close"] /\ UNCHANGED diskVars
          /\ done' = done
      BY <1>10 DEF Remember, loopVars
    <2> QED BY <1>1, <2>1
  <1>11. ASSUME NEW t \in Tasks, Close(t) PROVE Costs'
    <2>1. done' = done /\ Event(outcome[t]) \in Lines /\ ~ IsStep(Event(outcome[t]))
      BY <1>11, LineKinds DEF Close, loopVars, TaskTypes, Closing
    <2> QED BY <1>11, <2>1, OwnNote DEF Close
  <1>12. ASSUME NEW t \in Tasks, Fail(t) PROVE Costs'
    <2>1. done' = done /\ Event("failed") \in Lines /\ ~ IsStep(Event("failed"))
      BY <1>12, LineKinds DEF Fail, loopVars, Closing
    <2>2. PICK here \in {"fail", "retract"} : WriteStep(t, t, Event("failed"), here, "ended")
      BY <1>12 DEF Fail
    <2> QED BY <2>1, <2>2, OwnNote
  <1>13. ASSUME NEW t \in Tasks, Interrupt(t) PROVE Costs'
    <2>1. /\ stage[t] # "dead" /\ UNCHANGED diskVars
          /\ \/ stage[t] # "return" /\ stage' = [stage EXCEPT ![t] = "fail"]
             \/ stage[t] = "return" /\ stage' = [stage EXCEPT ![t] = "retract"]
      BY <1>13 DEF Interrupt
    <2>2. CASE done' = done
      BY <1>1, <1>2, <2>1, <2>2
    <2>3. CASE /\ stage[t] = "execute"
               /\ \E o \in Observations(t) : done' = [done EXCEPT ![t] = Append(done[t], o)]
      BY <1>3, <2>1, <2>3
    <2> QED BY <1>13, <2>2, <2>3 DEF Interrupt
  <1>14. ASSUME NEW t \in Tasks, Kill(t) PROVE Costs'
    <2>1. /\ stage[t] # "dead" /\ stage' = [stage EXCEPT ![t] = "dead"]
          /\ UNCHANGED diskVars /\ done' = done
      BY <1>14 DEF Kill
    <2> QED BY <1>2, <2>1
  <1>15. ASSUME NEW t \in Tasks, Return(t) PROVE Costs'
    <2>1. /\ stage[t] = "return" /\ stage' = [stage EXCEPT ![t] = "ended"] /\ UNCHANGED diskVars
          /\ done' = done
      BY <1>15 DEF Return, loopVars
    <2> QED BY <1>1, <2>1
  <1> QED BY <1>4, <1>5, <1>6, <1>7, <1>8, <1>9, <1>10, <1>11, <1>12, <1>13, <1>14, <1>15
         DEF JournalNext, Process

-----------------------------------------------------------------------------
(* A finished task                                                         *)

\* A write that closes a journal as finished takes its process through.
LEMMA FinishedWrite ==
  ASSUME TaskTypes, Finished, NEW p \in Tasks, NEW t \in Tasks, NEW line \in Lines,
         NEW here \in Running, NEW next, WriteStep(p, t, line, here, next),
         line.event \in {"completed", "exhausted"} => p = t /\ next \in Through,
         here \in Through => next \in Through
  PROVE  Finished'
  <1> SUFFICES ASSUME NEW u \in Tasks, NEW i \in DOMAIN file'[u],
                      file'[u][i].event \in {"completed", "exhausted"}
               PROVE  stage'[u] \in Through
    BY DEF Finished
  <1>1. stage[p] = here /\ stage' \in {[stage EXCEPT ![p] = next], [stage EXCEPT ![p] = "dead"]}
    BY WriteKinds
  <1>2. \/ i \in DOMAIN file[u] /\ file'[u][i] = file[u][i]
        \/ u = t /\ file'[u][i] \in {line, Garbled}
    <2>1. Garbled \in Lines
      BY LineKinds
    <2>2. \A l \in {line, Garbled}, open \in BOOLEAN : Lined(t, l, open) =>
            \/ i \in DOMAIN file[u] /\ file'[u][i] = file[u][i]
            \/ u = t /\ file'[u][i] \in {l, Garbled}
      <3> TAKE l \in {line, Garbled}, open \in BOOLEAN
      <3> HAVE Lined(t, l, open)
      <3>1. l \in Lines
        BY <2>1
      <3>2. CASE u = t
        BY <3>1, <3>2, WriteTypes
      <3>3. CASE u # t
        BY <3>1, <3>3, WriteTypes
      <3> QED BY <3>2, <3>3
    <2>3. \/ Lined(t, line, FALSE) \/ Lined(t, line, TRUE) \/ Lined(t, Garbled, TRUE)
          \/ file' = file
      BY WriteKinds DEF Broken
    <2> QED BY <2>2, <2>3
  <1>3. CASE i \in DOMAIN file[u] /\ file'[u][i] = file[u][i]
    <2>1. stage[u] \in Through
      BY <1>3 DEF Finished
    <2>2. CASE u # p
      BY <1>1, <2>1, <2>2 DEF TaskTypes
    <2>3. CASE u = p
      <3>1. stage'[u] \in {next, "dead"} /\ next \in Through
        BY <1>1, <2>1, <2>3 DEF TaskTypes
      <3> QED BY <3>1 DEF Through
    <2> QED BY <2>2, <2>3
  <1>4. CASE u = t /\ file'[u][i] \in {line, Garbled}
    <2>1. Garbled.event \notin {"completed", "exhausted"}
      BY DEF Garbled, Event
    <2>2. p = u /\ next \in Through
      BY <1>4, <2>1
    <2> QED BY <1>1, <2>2 DEF TaskTypes, Through
  <1> QED BY <1>2, <1>3, <1>4

LEMMA FinishedStep ==
  ASSUME TaskTypes, Finished, JournalNext
  PROVE  Finished'
  <1>1. ASSUME file' = file, NEW t \in Tasks, NEW place, stage' = [stage EXCEPT ![t] = place],
               stage[t] \in Through => place \in Through
        PROVE  Finished'
    BY <1>1 DEF Finished, TaskTypes
  <1>2. ASSUME NEW t \in Tasks,
               Do(t) \/ (\E s \in Tasks : Resume(t, s)) \/ Generate(t) \/ Execute(t)
                 \/ Remember(t) \/ Return(t) \/ Interrupt(t) \/ Kill(t)
        PROVE  Finished'
    <2>1. file' = file
      BY <1>2 DEF Do, Resume, Generate, Execute, Remember, Return, Interrupt, Kill, diskVars
    <2>2. \E place : /\ stage' = [stage EXCEPT ![t] = place]
                     /\ stage[t] \in Through => place \in Through
      BY <1>2 DEF Do, Resume, StartTask, Fresh, Generate, Reply, Answer, Execute, Remember, Return,
                  Interrupt, Kill, Through
    <2> QED BY <1>1, <2>1, <2>2
  <1>3. ASSUME NEW p \in Tasks, Create(p) \/ MarkResumed(p) \/ Record(p) \/ Close(p) \/ Fail(p)
        PROVE  Finished'
    <2>1. CASE Create(p)
      <3>1. \E next : WriteStep(p, p, Event("start"), "create", next)
        BY <2>1 DEF Create
      <3>2. Event("start") \in Lines /\ Event("start").event = "start"
        BY LineKinds DEF Event
      <3> QED BY <3>1, <3>2, FinishedWrite DEF Running, Through
    <2>2. CASE MarkResumed(p)
      <3>1. WriteStep(p, from[p], Event("resumed"), "mark", "generate")
        BY <2>2 DEF MarkResumed
      <3>2. from[p] \in Tasks
        BY <3>1 DEF TaskTypes, WriteStep, Tasks
      <3>3. Event("resumed") \in Lines /\ Event("resumed").event = "resumed"
        BY LineKinds DEF Event, Closing
      <3> QED BY <3>1, <3>2, <3>3, FinishedWrite DEF Running, Through
    <2>3. CASE Record(p)
      <3>1. WriteStep(p, p, StepLine(Last(done[p])), "record", "generate")
        BY <2>3 DEF Record
      <3>2. Last(done[p]) \in Results
        BY <3>1 DEF TaskTypes, Histories, Last, WriteStep
      <3>3. /\ StepLine(Last(done[p])) \in Lines
            /\ StepLine(Last(done[p])).event = "step"
        BY <3>2, LineKinds DEF StepLine
      <3> QED BY <3>1, <3>3, FinishedWrite DEF Running, Through
    <2>4. CASE Close(p)
      <3>1. WriteStep(p, p, Event(outcome[p]), "close", "return")
        BY <2>4 DEF Close
      <3>2. Event(outcome[p]) \in Lines
        BY LineKinds DEF TaskTypes, Closing
      <3> QED BY <3>1, <3>2, FinishedWrite DEF Running, Through
    <2>5. CASE Fail(p)
      <3>1. PICK here \in {"fail", "retract"} : WriteStep(p, p, Event("failed"), here, "ended")
        BY <2>5 DEF Fail
      <3>2. Event("failed") \in Lines /\ Event("failed").event = "failed"
        BY LineKinds DEF Event, Closing
      <3> QED BY <3>1, <3>2, FinishedWrite DEF Running, Through
    <2> QED BY <1>3, <2>1, <2>2, <2>3, <2>4, <2>5
  <1> QED BY <1>2, <1>3 DEF JournalNext, Process

-----------------------------------------------------------------------------
(* The invariant                                                           *)

THEOREM JournalInvariance == JournalSpec => []JournalInv
  <1>1. JournalInit => JournalInv
    <2> SUFFICES ASSUME JournalInit PROVE JournalInv
      OBVIOUS
    <2>1. NoCall \in Calls /\ <<>> \in Journals /\ <<>> \in Histories /\ left \in Allowances
      BY JournalAssumption DEF JournalAssumption, JournalInit, Calls, Journals, Histories
    <2>2. TaskTypes
      BY <2>1, JournalAssumption DEF JournalAssumption, JournalInit, TaskTypes, Pcs, Tasks
    <2>3. Costs
      BY StepsTyped DEF JournalInit, Costs, Cost
    <2>4. Finished
      BY DEF JournalInit, Finished
    <2> QED BY <2>2, <2>3, <2>4 DEF JournalInv
  <1>2. JournalInv /\ [JournalNext]_journalVars => JournalInv'
    <2>1. JournalInv /\ JournalNext => JournalInv'
      BY TypesStay, CostsStay, FinishedStep DEF JournalInv
    <2>2. JournalInv /\ UNCHANGED journalVars => JournalInv'
      BY DEF JournalInv, TaskTypes, Costs, Finished, Excused, journalVars
    <2> QED BY <2>1, <2>2
  <1> QED BY <1>1, <1>2, PTL DEF JournalSpec

\* "A partial write costs the last line rather than the file": a task whose disk worked and
\* none of whose resumers died has in its journal what its loop did, but for the last step.
THEOREM ACrashCostsOneStep == JournalSpec => []CrashCostsOneStep
  <1>1. JournalInv => CrashCostsOneStep
    <2> SUFFICES ASSUME JournalInv, NEW t \in Tasks, ~ Excused(t)
                 PROVE  /\ IsPrefix(Steps(file[t]), done[t])
                        /\ Len(done[t]) <= Len(Steps(file[t])) + 1
      BY DEF CrashCostsOneStep, Excused
    <2>1. done[t] = Steps(file[t]) \/ AheadOf(file[t], done[t])
      BY DEF JournalInv, Costs, Cost
    <2>2. Steps(file[t]) \in Seq(Results)
      BY StepsTyped DEF JournalInv, TaskTypes, Histories
    <2> DEFINE s == Steps(file[t])
    <2> HIDE DEF s
    <2>3. \A o \in Results : IsPrefix(s, Append(s, o)) /\ Len(Append(s, o)) <= Len(s) + 1
      BY <2>2 DEF s, IsPrefix
    <2>4. IsPrefix(s, s) /\ Len(s) <= Len(s) + 1
      BY <2>2 DEF s, IsPrefix
    <2> QED BY <2>1, <2>3, <2>4 DEF AheadOf, s
  <1> QED BY <1>1, JournalInvariance, PTL

LEMMA Greatest ==
  ASSUME NEW len \in Nat, NEW S, S \subseteq 1 .. len, S # {}
  PROVE  Max(S) \in S
  <1> DEFINE rest == {len - i : i \in S}
  <1>1. rest \subseteq Nat /\ rest # {} /\ \A i \in S : len - i \in rest
    <2>1. \A i \in 1 .. len : len - i \in Nat
      OBVIOUS
    <2>2. \A i \in S : len - i \in Nat
      BY <2>1
    <2> QED BY <2>2
  <1>2. PICK m \in rest : \A k \in rest : m <= k
    <2> HIDE DEF rest
    <2> QED BY <1>1, LeastNatural
  <1>3. PICK j \in S : m = len - j
    BY <1>2
  <1>4. \A i \in S : j >= i
    <2> TAKE i \in S
    <2>1. len - j <= len - i
      BY <1>1, <1>2, <1>3
    <2> QED BY <2>1
  <1> QED BY <1>3, <1>4 DEF Max

\* The status load() gives a journal with one line more.
LEMMA StatusAppend ==
  ASSUME NEW lines \in Journals, NEW line \in Lines
  PROVE  Status(Append(lines, line)) = IF line.event \in Closing THEN line.event ELSE Status(lines)
  <1> DEFINE len == Len(lines)
             more == Append(lines, line)
             old == {i \in DOMAIN lines : lines[i].event \in Closing}
             new == {i \in DOMAIN more : more[i].event \in Closing}
  <1>1. /\ len \in Nat /\ DOMAIN lines = 1 .. len /\ DOMAIN more = 1 .. (len + 1)
        /\ more[len + 1] = line /\ \A i \in 1 .. len : more[i] = lines[i]
    BY DEF Journals
  <1>2. Status(more) = IF new = {} THEN "interrupted" ELSE more[Max(new)].event
    BY DEF Status
  <1>3. Status(lines) = IF old = {} THEN "interrupted" ELSE lines[Max(old)].event
    BY DEF Status
  <1> HIDE DEF len, more
  <1>4. CASE line.event \in Closing
    <2>1. len + 1 \in new /\ \A i \in new : len + 1 >= i
      BY <1>1, <1>4
    <2>2. \A x \in new : (\A y \in new : x >= y) => x = len + 1
      BY <1>1, <2>1
    <2>3. Max(new) = len + 1
      <3> HIDE DEF new
      <3> QED BY <2>1, <2>2 DEF Max
    <2>4. new # {}
      BY <2>1
    <2> QED BY <1>1, <1>2, <1>4, <2>3, <2>4 DEF more
  <1>5. CASE line.event \notin Closing
    <2>1. new = old
      BY <1>1, <1>5
    <2>2. old # {} => Max(old) \in 1 .. len
      <3>1. old \subseteq 1 .. len
        BY <1>1
      <3> HIDE DEF old
      <3> QED BY <1>1, <3>1, Greatest
    <2> HIDE DEF old, new
    <2> QED BY <1>1, <1>2, <1>3, <1>5, <2>1, <2>2 DEF more
  <1> QED BY <1>4, <1>5

\* A task whose finish line is whole is offered for resumption again by nobody but its own
\* process, interrupted between that line and its end: all a resumer leaves in its journal
\* is "resumed" or a line cut short.
THEOREM AFinishedTaskStays == JournalSpec => FinishedStays
  <1>1. JournalInv /\ [JournalNext]_journalVars =>
          \A t \in Tasks : Status(file[t]) \in {"completed", "exhausted"} /\ ~ torn[t]
                             /\ Resumable(t)' => stage[t] = "retract"
    <2> SUFFICES ASSUME JournalInv, [JournalNext]_journalVars, NEW t \in Tasks,
                        Status(file[t]) \in {"completed", "exhausted"}, ~ torn[t],
                        stage[t] # "retract"
                 PROVE  Status(file'[t]) \notin {"interrupted", "failed"}
      BY DEF Resumable
    <2>1. TaskTypes /\ Finished /\ file[t] \in Journals
      BY DEF JournalInv, TaskTypes
    <2>2. CASE file'[t] = file[t]
      BY <2>2
    <2>3. CASE \E line \in {Garbled, Event("resumed")} : file'[t] = Append(file[t], line)
      <3>1. /\ Garbled \in Lines /\ Garbled.event = "garbled"
            /\ Event("resumed") \in Lines /\ Event("resumed").event = "resumed"
        BY LineKinds DEF Garbled, Event, Closing
      <3>2. Status(Append(file[t], Garbled)) = Status(file[t])
        BY <2>1, <3>1, StatusAppend DEF Closing
      <3>3. Status(Append(file[t], Event("resumed"))) = "resumed"
        BY <2>1, <3>1, StatusAppend DEF Closing
      <3> QED BY <2>3, <3>2, <3>3
    <2>4. ASSUME file'[t] # file[t]
          PROVE  \E line \in {Garbled, Event("resumed")} : file'[t] = Append(file[t], line)
      <3>1. stage[t] \in {"return", "ended", "dead"}
        <4> DEFINE closing == {i \in DOMAIN file[t] : file[t][i].event \in Closing}
        <4>1. Status(file[t]) = IF closing = {} THEN "interrupted" ELSE file[t][Max(closing)].event
          BY DEF Status
        <4>2. closing # {} /\ file[t][Max(closing)].event \in {"completed", "exhausted"}
          BY <4>1
        <4>3. closing \subseteq DOMAIN file[t] /\ DOMAIN file[t] = 1 .. Len(file[t])
              /\ Len(file[t]) \in Nat
          BY <2>1 DEF Journals
        <4>4. Max(closing) \in DOMAIN file[t]
          <5> HIDE DEF closing
          <5> QED BY <4>2, <4>3, Greatest
        <4> QED BY <2>1, <4>2, <4>4 DEF Finished, Through
      <3>2. PICK p \in Tasks : WriteStep(p, t, Event("resumed"), "mark", "generate")
        <4>1. JournalNext
          BY <2>4 DEF journalVars
        <4>2. \A p \in Tasks : Create(p) \/ Record(p) \/ Close(p) \/ Fail(p) => file'[t] = file[t]
          <5> SUFFICES ASSUME NEW p \in Tasks, Create(p) \/ Record(p) \/ Close(p) \/ Fail(p)
                       PROVE  file'[t] = file[t]
            OBVIOUS
          <5>1. p # t
            BY <3>1 DEF Create, Record, Close, Fail, WriteStep
          <5>2. \E line : file' = [file EXCEPT ![p] = line] \/ file' = file
            BY DEF Create, Record, Close, Fail, WriteStep, Write, Whole, Cut, Put
          <5> QED BY <2>1, <5>1, <5>2 DEF TaskTypes
        <4>3. \A p \in Tasks : MarkResumed(p) =>
                \/ WriteStep(p, t, Event("resumed"), "mark", "generate")
                \/ file'[t] = file[t]
          <5> SUFFICES ASSUME NEW p \in Tasks, MarkResumed(p), from[p] # t PROVE file'[t] = file[t]
            BY DEF MarkResumed
          <5>1. \E line : file' = [file EXCEPT ![from[p]] = line] \/ file' = file
            BY DEF MarkResumed, WriteStep, Write, Whole, Cut, Put
          <5> QED BY <2>1, <5>1 DEF TaskTypes
        <4> QED BY <2>4, <4>1, <4>2, <4>3 DEF JournalNext, Process, Do, Resume, Generate, Execute,
                                              Remember, Return, Interrupt, Kill, diskVars
      <3>3. \A line : Joined(t, line) = Append(file[t], line)
        BY DEF Joined
      <3>4. \/ Lined(t, Event("resumed"), FALSE) \/ Broken(t, Event("resumed"))
            \/ file' = file
        BY <2>1, <3>2, WriteKinds
      <3>5. \/ file' = [file EXCEPT ![t] = Append(file[t], Event("resumed"))]
            \/ file' = [file EXCEPT ![t] = Append(file[t], Garbled)]
        BY <2>4, <3>3, <3>4 DEF Lined, Broken
      <3> QED BY <2>1, <3>5 DEF TaskTypes
    <2> QED BY <2>2, <2>3, <2>4
  <1> QED BY <1>1, JournalInvariance, PTL DEF JournalSpec, FinishedStays

-----------------------------------------------------------------------------
(* From a reply to a call. *)

LEMMA Least ==
  ASSUME NEW S, S \subseteq Nat, S # {}
  PROVE  Min(S) \in S
  BY LeastNatural DEF Min

\* Sequences of S, put together, are a sequence of S.
LEMMA FlattenTyped ==
  ASSUME NEW S, NEW seqs \in Seq(Seq(S))
  PROVE  FlattenSeq(seqs) \in Seq(S)
  <1> DEFINE len == Len(seqs) - 1
             step == [i \in 1 .. len |-> [s \in Seq(S) |-> s \o seqs[i + 1]]]
  <1>1. CASE seqs = <<>>
    BY <1>1 DEF FlattenSeq
  <1>2. CASE seqs # <<>>
    <2>1. len \in Nat /\ Len(seqs) = len + 1 /\ \A i \in 1 .. len + 1 : seqs[i] \in Seq(S)
      BY <1>2
    <2> HIDE DEF len
    <2>2. step \in [1 .. len -> [Seq(S) -> Seq(S)]]
      <3>1. \A i \in 1 .. len : seqs[i + 1] \in Seq(S)
        BY <2>1
      <3>2. \A i \in 1 .. len : \A s \in Seq(S) : s \o seqs[i + 1] \in Seq(S)
        BY <3>1
      <3> QED BY <3>2
    <2>3. PICK f \in [0 .. len -> Seq(S)] :
            f[0] = seqs[1] /\ \A i \in 1 .. len : f[i] = step[i][f[i - 1]]
      <3> HIDE DEF step
      <3>1. seqs[1] \in Seq(S)
        BY <2>1
      <3>2. Runs(len, Seq(S), seqs[1], step) # {}
        BY <2>1, <2>2, <3>1, LoopRuns
      <3> QED BY <3>2 DEF Runs
    <2> DEFINE size == Len(seqs)
               g == [i \in 1 .. size |-> f[i - 1]]
               h == CHOOSE h : h = [i \in 1 .. size |-> IF i = 1 THEN seqs[i] ELSE h[i - 1] \o seqs[i]]
    <2>4. g = [i \in 1 .. size |-> IF i = 1 THEN seqs[i] ELSE g[i - 1] \o seqs[i]]
      <3>1. ASSUME NEW i \in 1 .. size, i # 1 PROVE f[i - 1] = g[i - 1] \o seqs[i]
        <4>1. i - 1 \in 1 .. len /\ (i - 1) - 1 \in 0 .. len /\ i - 1 \in 1 .. size /\ (i - 1) + 1 = i
          BY <2>1, <3>1
        <4>2. f[i - 1] = step[i - 1][f[(i - 1) - 1]] /\ f[(i - 1) - 1] \in Seq(S)
          BY <2>3, <4>1
        <4>3. g[i - 1] = f[(i - 1) - 1]
          BY <4>1
        <4> QED BY <4>1, <4>2, <4>3
      <3>2. f[1 - 1] = seqs[1]
        BY <2>3
      <3> HIDE DEF size
      <3>3. \A i \in 1 .. size : g[i] = IF i = 1 THEN seqs[i] ELSE g[i - 1] \o seqs[i]
        BY <3>1, <3>2
      <3> QED BY <3>3
    <2>5. h = [i \in 1 .. size |-> IF i = 1 THEN seqs[i] ELSE h[i - 1] \o seqs[i]]
      <3> HIDE DEF g, size
      <3> QED BY <2>4, Zenon
    <2>6. FlattenSeq(seqs) = h[size]
      <3>1. size # 0
        BY <2>1
      <3> QED BY <3>1, Zenon DEF FlattenSeq, h, size
    <2> HIDE DEF h
    <2>7. \A i \in 0 .. len : h[i + 1] \in Seq(S)
      <3> DEFINE P == {i \in 0 .. len : h[i + 1] \in Seq(S)}
      <3>1. 0 \in P
        BY <2>1, <2>5
      <3>2. ASSUME NEW i \in 0 .. len, i < len, i \in P PROVE i + 1 \in P
        <4>1. (i + 1) + 1 \in 1 .. size /\ (i + 1) + 1 # 1 /\ ((i + 1) + 1) - 1 = i + 1 /\ size = len + 1
          BY <2>1, <3>2
        <4>2. h[(i + 1) + 1] = h[i + 1] \o seqs[(i + 1) + 1]
          BY <2>5, <4>1
        <4>3. seqs[(i + 1) + 1] \in Seq(S) /\ h[i + 1] \in Seq(S)
          BY <2>1, <3>2, <4>1
        <4>4. i + 1 \in 0 .. len /\ h[i + 1] \o seqs[(i + 1) + 1] \in Seq(S)
          BY <2>1, <3>2, <4>3
        <4> QED BY <4>2, <4>4
      <3>3. 0 .. len \subseteq P
        <4> HIDE DEF P
        <4> QED BY <2>1, <3>1, <3>2, Counting
      <3> QED BY <3>3
    <2> QED BY <2>1, <2>6, <2>7
  <1> QED BY <1>1, <1>2

-----------------------------------------------------------------------------
(* From an object to a call                                                *)

\* Of two values for one key, the last is one that is there.
LEMMA LastIsThere ==
  ASSUME NEW S, NEW o \in Seq(S), NEW key, Has(o, key)
  PROVE  \E i \in DOMAIN o : o[i][1] = key /\ At(o, key) = o[i][2]
  <1> DEFINE at == {i \in DOMAIN o : o[i][1] = key}
  <1>1. at \subseteq 1 .. Len(o) /\ at # {} /\ Len(o) \in Nat
    BY DEF Has
  <1>2. Max(at) \in at
    <2> HIDE DEF at
    <2> QED BY <1>1, Greatest
  <1> QED BY <1>2 DEF At

LEMMA OnlyIsLast ==
  ASSUME NEW S, NEW o \in Seq(S), NEW i \in DOMAIN o,
         \A j \in DOMAIN o \ {i} : o[j][1] # o[i][1]
  PROVE  Has(o, o[i][1]) /\ At(o, o[i][1]) = o[i][2]
  <1>1. Has(o, o[i][1])
    BY DEF Has
  <1>2. PICK j \in DOMAIN o : o[j][1] = o[i][1] /\ At(o, o[i][1]) = o[j][2]
    BY <1>1, LastIsThere
  <1> QED BY <1>1, <1>2

LEMMA FirstIsGood ==
  ASSUME NEW keys, DOMAIN keys \subseteq Nat, NEW good, good \subseteq ToSet(keys), good # {}
  PROVE  First(keys, good) \in good
  <1> DEFINE at == {i \in DOMAIN keys : keys[i] \in good}
  <1>1. at \subseteq Nat /\ at # {}
    BY DEF ToSet
  <1>2. Min(at) \in at
    <2> HIDE DEF at
    <2> QED BY <1>1, Least
  <1> QED BY <1>2 DEF First

LEMMA KeysAreKeys ==
  /\ DOMAIN NameKeys \subseteq Nat /\ DOMAIN ArgumentKeys \subseteq Nat
  /\ ToSet(NameKeys) = {"name", "tool", "tool_name", "action", "function_name"}
  /\ ToSet(ArgumentKeys) = {"arguments", "args", "parameters", "params", "input", "action_input"}
  <1>1. DOMAIN NameKeys = {1, 2, 3, 4, 5}
    BY DEF NameKeys
  <1>2. DOMAIN ArgumentKeys = {1, 2, 3, 4, 5, 6}
    BY DEF ArgumentKeys
  <1>3. ToSet(NameKeys) = {"name", "tool", "tool_name", "action", "function_name"}
    BY <1>1 DEF NameKeys, ToSet
  <1>4. ToSet(ArgumentKeys) = {"arguments", "args", "parameters", "params", "input", "action_input"}
    BY <1>2 DEF ArgumentKeys, ToSet
  <1> QED BY <1>1, <1>2, <1>3, <1>4

\* The pairs a call is read from are those of the object, or of what it wraps.
LEMMA UnwrappedPairs ==
  ASSUME NEW o, IsObject(o)
  PROVE  \E S : /\ Unwrapped(o) \in Seq(S)
                /\ \A f \in S : \/ f \in ToSet(o)
                                \/ \E w \in ToSet(o) : IsWrapper(w) /\ f \in ToSet(w[2].in)
  <1>0. o \in Seq(ToSet(o))
    BY DEF IsObject, IsPairs
  <1>1. CASE ~(Has(o, "function") /\ At(o, "function").is = "dict")
    <2>1. Unwrapped(o) = o
      BY <1>1 DEF Unwrapped
    <2> QED BY <1>0, <2>1
  <1>2. CASE Has(o, "function") /\ At(o, "function").is = "dict"
    <2>1. PICK i \in DOMAIN o : o[i][1] = "function" /\ At(o, "function") = o[i][2]
      BY <1>0, <1>2, LastIsThere
    <2> DEFINE w == o[i]
               in == w[2].in
    <2>2. w \in ToSet(o) /\ IsWrapper(w)
      BY <1>2, <2>1 DEF ToSet, IsWrapper
    <2>3. in \in Seq(ToSet(in))
      BY <2>2 DEF IsObject, IsWrapper, IsCall, IsPairs, Reads
    <2>4. Unwrapped(o) = in \o o
      BY <1>2, <2>1 DEF Unwrapped
    <2> DEFINE S == ToSet(in) \cup ToSet(o)
    <2>5. in \in Seq(S) /\ o \in Seq(S)
      BY <1>0, <2>3
    <2>6. in \o o \in Seq(S)
      BY <2>5
    <2>7. \A f \in S : f \in ToSet(o) \/ \E u \in ToSet(o) : IsWrapper(u) /\ f \in ToSet(u[2].in)
      BY <2>2
    <2> QED BY <2>4, <2>6, <2>7
  <1> QED BY <1>1, <1>2

\* A plain value in the pairs of a call is written in the object, and so are the arguments.
LEMMA PairsAreWritten ==
  ASSUME NEW o, IsObject(o), NEW f,
         f \in ToSet(o) \/ \E w \in ToSet(o) : IsWrapper(w) /\ f \in ToSet(w[2].in)
  PROVE  /\ ~ Reads(f[2]) => f \in Written(o)
         /\ Reads(f[2]) /\ f[1] # "function" =>
              ToSet(f[2].in) \subseteq Written(o)
  <1>1. ASSUME NEW T, NEW u \in T, Reads(u[2]) PROVE ToSet(u[2].in) \subseteq Within(T)
    BY <1>1 DEF Within
  <1>2. \A T : T \subseteq Within(T)
    BY DEF Within
  <1>3. CASE f \in ToSet(o)
    <2>1. f \in Within(Within(ToSet(o)))
      BY <1>2, <1>3
    <2>2. ASSUME Reads(f[2]), f[1] # "function"
          PROVE  /\ ToSet(f[2].in) \subseteq Within(Within(ToSet(o)))
                 /\ \A g \in ToSet(f[2].in) : ~ Reads(g[2])
      <3>1. IsArguments(f[2].in)
        BY <1>3, <2>2 DEF IsObject
      <3> QED BY <1>1, <1>2, <1>3, <2>2, <3>1 DEF IsArguments
    <2> QED BY <2>1, <2>2 DEF Written
  <1>4. CASE \E w \in ToSet(o) : IsWrapper(w) /\ f \in ToSet(w[2].in)
    <2>1. PICK w \in ToSet(o) : IsWrapper(w) /\ f \in ToSet(w[2].in)
      BY <1>4
    <2>2. Reads(w[2]) /\ IsCall(w[2].in)
      BY <2>1 DEF IsWrapper, Reads, IsObject
    <2>3. f \in Within(ToSet(o))
      BY <1>1, <2>1, <2>2
    <2>4. f \in Within(Within(ToSet(o)))
      BY <1>2, <2>3
    <2>5. ASSUME Reads(f[2])
          PROVE  /\ ToSet(f[2].in) \subseteq Within(Within(ToSet(o)))
                 /\ \A g \in ToSet(f[2].in) : ~ Reads(g[2])
      <3>1. IsArguments(f[2].in)
        BY <2>1, <2>2, <2>5 DEF IsCall
      <3> QED BY <1>1, <2>3, <2>5, <3>1 DEF IsArguments
    <2> QED BY <2>4, <2>5 DEF Written
  <1> QED BY <1>3, <1>4

\* What is read of an object: a name that is written there under a key for names, and
\* arguments that are written there.
LEMMA ReadIsWritten ==
  ASSUME NEW o, IsObject(o), NEW notes, Normalize(o, notes).name # None
  PROVE  LET found == Normalize(o, notes) IN
         /\ found.repairs = notes
         /\ \E f \in Written(o) : f[1] \in ToSet(NameKeys) /\ IsName(f[2]) /\ f[2].v = found.name
         /\ ToSet(found.args) \subseteq Written(o)
  <1> DEFINE f == Unwrapped(o)
             name == First(NameKeys, Naming(f))
             args == First(ArgumentKeys, Giving(f))
             found == Normalize(o, notes)
  <1>1. PICK S : /\ f \in Seq(S)
                 /\ \A g \in S : \/ g \in ToSet(o)
                                 \/ \E w \in ToSet(o) : IsWrapper(w) /\ g \in ToSet(w[2].in)
    BY UnwrappedPairs
  <1>2. \A i \in DOMAIN f : f[i] \in S
    BY <1>1
  <1>3. name # None /\ found.repairs = notes /\ found.name = At(f, name).v
        /\ found.args = IF args = None THEN <<>> ELSE At(f, args).in
    BY DEF Normalize, NoCall
  <1> HIDE DEF f
  <1>4. \E g \in Written(o) : g[1] \in ToSet(NameKeys) /\ IsName(g[2]) /\ g[2].v = found.name
    <2>1. name \in Naming(f)
      <3>1. Naming(f) # {} /\ Naming(f) \subseteq ToSet(NameKeys)
        BY <1>3 DEF First, Naming
      <3> QED BY <3>1, FirstIsGood, KeysAreKeys
    <2> HIDE DEF name
    <2>2. PICK i \in DOMAIN f : f[i][1] = name /\ At(f, name) = f[i][2]
      BY <1>1, <2>1, LastIsThere DEF Naming
    <2>3. IsName(f[i][2]) /\ ~ Reads(f[i][2])
      BY <2>1, <2>2 DEF Naming, IsName, Reads
    <2>4. f[i] \in Written(o)
      BY <1>1, <1>2, <2>3, PairsAreWritten
    <2> QED BY <1>3, <2>1, <2>2, <2>3, <2>4 DEF Naming
  <1>5. ToSet(found.args) \subseteq Written(o)
    <2>1. CASE args = None
      BY <1>3, <2>1 DEF ToSet
    <2>2. CASE args # None
      <3>1. args \in Giving(f)
        <4>1. Giving(f) # {} /\ Giving(f) \subseteq ToSet(ArgumentKeys)
          BY <2>2 DEF First, Giving
        <4> QED BY <4>1, FirstIsGood, KeysAreKeys
      <3> HIDE DEF args
      <3>2. PICK i \in DOMAIN f : f[i][1] = args /\ At(f, args) = f[i][2]
        BY <1>1, <3>1, LastIsThere DEF Giving
      <3>3. Reads(f[i][2]) /\ f[i][1] # "function"
        BY <3>1, <3>2, KeysAreKeys DEF Giving
      <3>4. ToSet(f[i][2].in) \subseteq Written(o)
        BY <1>1, <1>2, <3>3, PairsAreWritten
      <3> QED BY <1>3, <2>2, <3>2, <3>4
    <2> QED BY <2>1, <2>2
  <1> QED BY <1>3, <1>4, <1>5

\* The one key for names, the one key for arguments of an object that spells a call.
LEMMA SpelledName ==
  ASSUME NEW S, NEW o \in Seq(S), NEW meant, Spells(o, meant)
  PROVE  \E k : Naming(o) = {k} /\ At(o, k).v = meant.name
  <1>1. PICK i \in DOMAIN o : Only(o, i, NameKeys, IsName) /\ o[i][2].v = meant.name
    BY DEF Spells
  <1>2. /\ o[i][1] \in ToSet(NameKeys) /\ IsName(o[i][2])
        /\ \A j \in DOMAIN o \ {i} :
             o[j][1] # o[i][1] /\ (o[j][1] \in ToSet(NameKeys) => ~ IsName(o[j][2]))
    BY <1>1 DEF Only
  <1>3. Has(o, o[i][1]) /\ At(o, o[i][1]) = o[i][2]
    BY <1>2, OnlyIsLast
  <1>4. ASSUME NEW k \in Naming(o) PROVE k = o[i][1]
    <2>1. PICK j \in DOMAIN o : o[j][1] = k /\ At(o, k) = o[j][2]
      BY LastIsThere DEF Naming
    <2> QED BY <1>2, <2>1 DEF Naming
  <1>5. o[i][1] \in Naming(o)
    BY <1>2, <1>3 DEF Naming
  <1> QED BY <1>1, <1>3, <1>4, <1>5

LEMMA SpelledArguments ==
  ASSUME NEW S, NEW o \in Seq(S), NEW meant, Spells(o, meant)
  PROVE  \/ Giving(o) = {} /\ meant.args = <<>>
         \/ \E k : Giving(o) = {k} /\ At(o, k).in = meant.args
  <1>1. CASE /\ meant.args = <<>>
             /\ \A f \in ToSet(o) : f[1] \in ToSet(ArgumentKeys) => ~ Reads(f[2])
    <2>1. ASSUME NEW k \in Giving(o) PROVE FALSE
      <3>1. PICK j \in DOMAIN o : o[j][1] = k /\ At(o, k) = o[j][2]
        BY LastIsThere DEF Giving
      <3> QED BY <1>1, <3>1 DEF Giving, ToSet
    <2> QED BY <1>1, <2>1
  <1>2. CASE \E i \in DOMAIN o : Only(o, i, ArgumentKeys, Reads) /\ o[i][2].in = meant.args
    <2>1. PICK i \in DOMAIN o : Only(o, i, ArgumentKeys, Reads) /\ o[i][2].in = meant.args
      BY <1>2
    <2>2. /\ o[i][1] \in ToSet(ArgumentKeys) /\ Reads(o[i][2])
          /\ \A j \in DOMAIN o \ {i} :
               o[j][1] # o[i][1] /\ (o[j][1] \in ToSet(ArgumentKeys) => ~ Reads(o[j][2]))
      BY <2>1 DEF Only
    <2>3. Has(o, o[i][1]) /\ At(o, o[i][1]) = o[i][2]
      BY <2>2, OnlyIsLast
    <2>4. ASSUME NEW k \in Giving(o) PROVE k = o[i][1]
      <3>1. PICK j \in DOMAIN o : o[j][1] = k /\ At(o, k) = o[j][2]
        BY LastIsThere DEF Giving
      <3> QED BY <2>2, <3>1 DEF Giving
    <2>5. o[i][1] \in Giving(o)
      BY <2>2, <2>3 DEF Giving
    <2> QED BY <2>1, <2>3, <2>4, <2>5
  <1> QED BY <1>1, <1>2 DEF Spells

\* Keys that stand beside a wrapper and are no keys for names or arguments hide nothing of it.
LEMMA WrapHidesNothing ==
  ASSUME NEW S, NEW T, NEW a \in Seq(S), NEW b \in Seq(T), NEW key, ~ Has(b, key)
  PROVE  (Has(a \o b, key) <=> Has(a, key)) /\ (Has(a, key) => At(a \o b, key) = At(a, key))
  <1> DEFINE c == a \o b
  <1>1. /\ DOMAIN a = 1 .. Len(a) /\ DOMAIN b = 1 .. Len(b) /\ DOMAIN c = 1 .. Len(a) + Len(b)
        /\ Len(a) \in Nat /\ Len(b) \in Nat
        /\ \A i \in 1 .. Len(a) : c[i] = a[i]
        /\ \A i \in 1 .. Len(a) + Len(b) : i > Len(a) => i - Len(a) \in 1 .. Len(b) /\ c[i] = b[i - Len(a)]
    OBVIOUS
  <1> HIDE DEF c
  <1>2. \A i \in DOMAIN c : c[i][1] = key => i \in DOMAIN a
    BY <1>1 DEF Has
  <1>3. DOMAIN a \subseteq DOMAIN c
    BY <1>1
  <1>4. {i \in DOMAIN c : c[i][1] = key} = {i \in DOMAIN a : a[i][1] = key}
    BY <1>1, <1>2, <1>3
  <1>5. Has(c, key) <=> Has(a, key)
    BY <1>4 DEF Has
  <1>6. ASSUME Has(a, key) PROVE At(c, key) = At(a, key)
    <2> DEFINE at == {i \in DOMAIN a : a[i][1] = key}
    <2>1. at # {} /\ at \subseteq 1 .. Len(a)
      BY <1>6 DEF Has
    <2>2. Max(at) \in at
      <3> HIDE DEF at
      <3> QED BY <1>1, <2>1, Greatest
    <2>3. c[Max(at)] = a[Max(at)]
      BY <1>1, <2>1, <2>2
    <2> QED BY <1>4, <2>3 DEF At
  <1> QED BY <1>5, <1>6 DEF c

\* An object that says a call is read as that call.
LEMMA ReadIsMeant ==
  ASSUME NEW o, IsObject(o), NEW meant, Says(o, meant), NEW notes
  PROVE  Normalize(o, notes).name = meant.name /\ Normalize(o, notes).args = meant.args
  <1> DEFINE f == Unwrapped(o)
             SameKeys(in) == /\ Naming(f) = Naming(in) /\ Giving(f) = Giving(in)
                             /\ \A k \in Naming(in) \cup Giving(in) : At(f, k) = At(in, k)
  <1>0. o \in Seq(ToSet(o)) /\ \A i \in DOMAIN o : o[i] \in ToSet(o)
    BY DEF IsObject, IsPairs, ToSet
  <1>1. PICK in : Spells(in, meant) /\ in \in Seq(ToSet(in)) /\ SameKeys(in)
    <2>1. CASE Spells(o, meant) /\ \A g \in ToSet(o) : g[1] # "function"
      <3>1. ~ Has(o, "function")
        BY <1>0, <2>1 DEF Has
      <3>2. f = o
        BY <3>1 DEF Unwrapped
      <3> QED BY <1>0, <2>1, <3>2
    <2>2. CASE \E i \in DOMAIN o :
                 /\ IsWrapper(o[i]) /\ Spells(o[i][2].in, meant)
                 /\ \A j \in DOMAIN o \ {i} :
                      o[j][1] \notin ToSet(NameKeys) \cup ToSet(ArgumentKeys) \cup {"function"}
      <3>1. PICK i \in DOMAIN o :
                 /\ IsWrapper(o[i]) /\ Spells(o[i][2].in, meant)
                 /\ \A j \in DOMAIN o \ {i} :
                      o[j][1] \notin ToSet(NameKeys) \cup ToSet(ArgumentKeys) \cup {"function"}
        BY <2>2
      <3> DEFINE in == o[i][2].in
      <3>2. Has(o, "function") /\ At(o, "function") = o[i][2]
        BY <1>0, <3>1, OnlyIsLast DEF IsWrapper
      <3>3. f = in \o o
        BY <3>1, <3>2 DEF Unwrapped, IsWrapper
      <3>4. in \in Seq(ToSet(in))
        BY <1>0, <3>1 DEF IsObject, IsWrapper, IsCall, IsPairs, Reads
      <3>5. \A k \in ToSet(NameKeys) \cup ToSet(ArgumentKeys) : ~ Has(o, k)
        BY <3>1, KeysAreKeys DEF Has, IsWrapper
      <3> HIDE DEF f, in
      <3>6. \A k \in ToSet(NameKeys) \cup ToSet(ArgumentKeys) :
              (Has(f, k) <=> Has(in, k)) /\ (Has(in, k) => At(f, k) = At(in, k))
        BY <1>0, <3>3, <3>4, <3>5, WrapHidesNothing
      <3>7. SameKeys(in)
        BY <3>6 DEF Naming, Giving
      <3> QED BY <3>1, <3>4, <3>7 DEF in
    <2> QED BY <2>1, <2>2 DEF Says
  <1> HIDE DEF f
  <1>2. PICK k : Naming(in) = {k} /\ At(in, k).v = meant.name
    BY <1>1, SpelledName
  <1>3. First(NameKeys, Naming(f)) = k /\ k # None
    <2>1. {k} \subseteq ToSet(NameKeys)
      BY <1>2 DEF Naming
    <2>2. First(NameKeys, {k}) \in {k}
      BY <2>1, KeysAreKeys, FirstIsGood
    <2> QED BY <1>1, <1>2, <2>1, <2>2, ToolAssumption DEF ToolAssumption
  <1>4. \/ First(ArgumentKeys, Giving(f)) = None /\ meant.args = <<>>
        \/ First(ArgumentKeys, Giving(f)) # None /\ At(f, First(ArgumentKeys, Giving(f))).in = meant.args
    <2>1. CASE Giving(in) = {} /\ meant.args = <<>>
      BY <1>1, <2>1 DEF First
    <2>2. CASE \E a : Giving(in) = {a} /\ At(in, a).in = meant.args
      <3>1. PICK a : Giving(in) = {a} /\ At(in, a).in = meant.args
        BY <2>2
      <3>2. {a} \subseteq ToSet(ArgumentKeys)
        BY <3>1 DEF Giving
      <3>3. First(ArgumentKeys, {a}) \in {a}
        BY <3>2, KeysAreKeys, FirstIsGood
      <3> QED BY <1>1, <3>1, <3>2, <3>3, ToolAssumption DEF ToolAssumption
    <2> QED BY <1>1, <2>1, <2>2, SpelledArguments
  <1>5. At(f, k).v = meant.name
    BY <1>1, <1>2
  <1> QED BY <1>3, <1>4, <1>5 DEF Normalize, f

-----------------------------------------------------------------------------
(* The scrape                                                              *)

\* What a scrape may find in an object: what is written there, and objects taken for values.
Bits(o) == {f \in Within(ToSet(o)) : ~ Reads(f[2])} \cup {<<f[1], Swallowed>> : f \in ToSet(o)}
Scraps(o) == Written(o) \cup {<<"function", Swallowed>>}
             \cup {<<f[1], Swallowed>> : f \in ToSet(o)}
             \cup UNION {{<<f[1], Swallowed>> : f \in ToSet(w[2].in)} : w \in ToSet(o)}

LEMMA FlatBits ==
  ASSUME NEW o, IsCall(o)
  PROVE  Flat(o) \in Seq(Bits(o))
  <1> DEFINE part(i) == IF o[i][2].is = "dict"
                        THEN <<<<o[i][1], Swallowed>>>> \o SubSeq(o[i][2].in, 2, Len(o[i][2].in))
                        ELSE <<<<o[i][1], IF o[i][2].is = "json" THEN Swallowed ELSE o[i][2]>>>>
             parts == [i \in DOMAIN o |-> part(i)]
  <1>1. o \in Seq(ToSet(o)) /\ Len(o) \in Nat /\ DOMAIN o = 1 .. Len(o)
    BY DEF IsCall, IsPairs
  <1>2. ASSUME NEW i \in DOMAIN o PROVE part(i) \in Seq(Bits(o))
    <2> DEFINE f == o[i]
    <2>0. f \in ToSet(o) /\ f = <<f[1], f[2]>>
      <3>1. f \in ToSet(o)
        BY DEF ToSet
      <3> QED BY <3>1 DEF IsCall, IsPairs
    <2>1. <<f[1], Swallowed>> \in Bits(o)
      BY <2>0 DEF Bits
    <2>2. CASE f[2].is = "dict"
      <3> DEFINE in == f[2].in
      <3>1. Reads(f[2]) /\ IsArguments(in)
        BY <2>0, <2>2 DEF Reads, IsCall
      <3>2. ToSet(in) \subseteq Bits(o)
        BY <2>0, <3>1 DEF IsArguments, Within, Bits
      <3>3. in \in Seq(ToSet(in)) /\ Len(in) \in Nat
        BY <3>1 DEF IsArguments, IsPairs
      <3> HIDE DEF in
      <3>4. SubSeq(in, 2, Len(in)) \in Seq(Bits(o))
        BY <3>2, <3>3
      <3>5. <<<<f[1], Swallowed>>>> \in Seq(Bits(o))
        BY <2>1
      <3>6. <<<<f[1], Swallowed>>>> \o SubSeq(in, 2, Len(in)) \in Seq(Bits(o))
        BY <3>4, <3>5
      <3> QED BY <2>2, <3>6 DEF in
    <2>3. CASE f[2].is = "json"
      BY <2>1, <2>3
    <2>4. CASE ~ Reads(f[2])
      <3>1. f \in Bits(o)
        BY <2>0, <2>4 DEF Bits, Within
      <3>2. part(i) = <<f>>
        BY <2>0, <2>4 DEF Reads
      <3>3. <<f>> \in Seq(Bits(o))
        BY <3>1
      <3> HIDE DEF part
      <3> QED BY <3>2, <3>3
    <2> QED BY <2>2, <2>3, <2>4 DEF Reads
  <1>3. Flat(o) = FlattenSeq(parts)
    BY DEF Flat
  <1> HIDE DEF part
  <1>4. parts \in Seq(Seq(Bits(o)))
    BY <1>1, <1>2
  <1> QED BY <1>3, <1>4, FlattenTyped

LEMMA FlatScraps ==
  ASSUME NEW o, IsObject(o)
  PROVE  FlatObject(o) \in Seq(Scraps(o))
  <1> DEFINE part(i) == IF o[i][1] = "function" /\ o[i][2].is = "dict"
                        THEN <<<<"function", Swallowed>>>>
                             \o SubSeq(Flat(o[i][2].in), 2, Len(Flat(o[i][2].in)))
                        ELSE Flat(<<o[i]>>)
             parts == [i \in DOMAIN o |-> part(i)]
  <1>1. o \in Seq(ToSet(o)) /\ Len(o) \in Nat /\ DOMAIN o = 1 .. Len(o)
    BY DEF IsObject, IsPairs
  <1>2. ASSUME NEW i \in DOMAIN o PROVE part(i) \in Seq(Scraps(o))
    <2> DEFINE f == o[i]
    <2>0. f \in ToSet(o) /\ f = <<f[1], f[2]>>
      <3>1. f \in ToSet(o)
        BY DEF ToSet
      <3> QED BY <3>1 DEF IsObject, IsPairs
    <2>1. CASE IsWrapper(f)
      <3> DEFINE in == f[2].in
                 inner == Flat(in)
      <3>1. Reads(f[2]) /\ IsCall(in)
        BY <2>0, <2>1 DEF Reads, IsObject, IsWrapper
      <3>2. inner \in Seq(Bits(in))
        BY <3>1, FlatBits
      <3>3. Bits(in) \subseteq Scraps(o)
        <4>1. ToSet(in) \subseteq Within(ToSet(o))
          BY <2>0, <3>1 DEF Within
        <4>2. Within(ToSet(in)) \subseteq Within(Within(ToSet(o)))
          BY <4>1 DEF Within
        <4>3. {g \in Within(ToSet(in)) : ~ Reads(g[2])} \subseteq Written(o)
          BY <4>2 DEF Written
        <4>4. {<<g[1], Swallowed>> : g \in ToSet(in)} \subseteq Scraps(o)
          BY <2>0 DEF Scraps
        <4> QED BY <4>3, <4>4 DEF Bits, Scraps
      <3> HIDE DEF inner
      <3>4. inner \in Seq(Scraps(o)) /\ Len(inner) \in Nat
        BY <3>2, <3>3
      <3>5. <<"function", Swallowed>> \in Scraps(o)
        BY DEF Scraps
      <3>6. SubSeq(inner, 2, Len(inner)) \in Seq(Scraps(o))
        BY <3>4
      <3>7. <<<<"function", Swallowed>>>> \in Seq(Scraps(o))
        BY <3>5
      <3>8. <<<<"function", Swallowed>>>> \o SubSeq(inner, 2, Len(inner)) \in Seq(Scraps(o))
        BY <3>6, <3>7
      <3> QED BY <2>1, <3>8 DEF inner, IsWrapper
    <2>2. CASE ~ IsWrapper(f)
      <3>1. ToSet(<<f>>) = {f}
        BY DEF ToSet
      <3>2. IsCall(<<f>>)
        <4>1. <<f>> \in Seq({f})
          OBVIOUS
        <4>2. IsPairs(<<f>>)
          BY <2>0, <3>1, <4>1 DEF IsPairs
        <4>3. Reads(f[2]) => IsArguments(f[2].in)
          BY <2>0, <2>2 DEF IsObject, IsWrapper
        <4> QED BY <3>1, <4>2, <4>3 DEF IsCall
      <3>3. Bits(<<f>>) \subseteq Scraps(o)
        <4>1. Within({f}) \subseteq Within(Within(ToSet(o)))
          BY <2>0 DEF Within
        <4>2. {g \in Within({f}) : ~ Reads(g[2])} \subseteq Written(o)
          BY <4>1 DEF Written
        <4>3. Bits(<<f>>) = {g \in Within({f}) : ~ Reads(g[2])} \cup {<<g[1], Swallowed>> : g \in {f}}
          BY <3>1, Zenon DEF Bits
        <4>4. <<f[1], Swallowed>> \in Scraps(o)
          <5>1. f \in ToSet(o)
            BY <2>0
          <5> HIDE DEF f
          <5> QED BY <5>1 DEF Scraps
        <4> QED BY <4>2, <4>3, <4>4 DEF Scraps
      <3>4. Flat(<<f>>) \in Seq(Bits(<<f>>))
        BY <3>2, FlatBits
      <3> QED BY <2>2, <3>3, <3>4 DEF IsWrapper
    <2> QED BY <2>1, <2>2
  <1>3. FlatObject(o) = FlattenSeq(parts)
    BY DEF FlatObject
  <1> HIDE DEF part
  <1>4. parts \in Seq(Seq(Scraps(o)))
    BY <1>1, <1>2
  <1> QED BY <1>3, <1>4, FlattenTyped

\* What is told of a text: a tool that it names, and arguments that stand in it.
IsNamed(name, text) == \E i \in DOMAIN text : text[i].means.name = name
Stands(a, text) == a[2] \in Mangled \cup {Swallowed} \/ \E i \in DOMAIN text : a \in Written(text[i].fields)

LEMMA ScrapeIsTold ==
  ASSUME NEW r, IsReply(r), Scrape(r.text).name \in Tools, Scrape(r.text).name # None
  PROVE  LET found == Scrape(r.text) IN
         /\ IsNamed(found.name, r.text) /\ "scraped" \in found.repairs
         /\ \A a \in ToSet(found.args) : Stands(a, r.text)
  <1> DEFINE text == r.text
             rest(i) == IF text[i].form = "cut" THEN text[i].got ELSE text[i].fields
             parts == [i \in DOMAIN text |-> FlatObject(rest(i))]
             pairs == FlattenSeq(parts)
             all == UNION {Scraps(rest(i)) : i \in DOMAIN text}
             name == First(NameKeys, Naming(pairs))
             Popped == {NameKeys[i] : i \in {j \in DOMAIN NameKeys :
                          \A k \in 1 .. j - 1 : NameKeys[k] # name}}
             args == FlattenSeq([i \in DOMAIN pairs |->
                       IF pairs[i][1] \in Popped \cup Noise THEN <<>> ELSE <<pairs[i]>>])
  <1>1. /\ DOMAIN text = 1 .. Len(text) /\ Len(text) \in Nat
        /\ \A i \in DOMAIN text : IsPiece(text[i]) /\ SaysItsMeaning(text[i])
    BY DEF IsReply
  <1>2. Scrape(text) = IF name = None THEN NoCall
                       ELSE [name |-> At(pairs, name).v, repairs |-> {"scraped"}, args |-> args]
    BY DEF Scrape
  <1>3. pairs \in Seq(all)
    <2>1. ASSUME NEW i \in DOMAIN text PROVE FlatObject(rest(i)) \in Seq(all)
      <3>1. IsObject(rest(i))
        BY <1>1 DEF IsPiece
      <3>2. FlatObject(rest(i)) \in Seq(Scraps(rest(i)))
        BY <3>1, FlatScraps
      <3>3. Scraps(rest(i)) \subseteq all
        OBVIOUS
      <3> HIDE DEF all, rest
      <3> QED BY <3>2, <3>3
    <2> HIDE DEF all, rest, text
    <2>2. parts \in Seq(Seq(all))
      BY <1>1, <2>1
    <2> QED BY <2>2, FlattenTyped
  <1>4. \A a \in all : a[2] = Swallowed \/ \E i \in DOMAIN text : a \in Written(rest(i))
    <2>1. ASSUME NEW i \in DOMAIN text, NEW a \in Scraps(rest(i))
          PROVE  a[2] = Swallowed \/ a \in Written(rest(i))
      <3> HIDE DEF rest, text
      <3>1. \A x : <<x, Swallowed>>[2] = Swallowed
        OBVIOUS
      <3> DEFINE o == rest(i)
      <3> HIDE DEF o
      <3>2. CASE a \in Written(o) \cup {<<"function", Swallowed>>}
        BY <3>1, <3>2 DEF o
      <3>3. CASE a \in {<<f[1], Swallowed>> : f \in ToSet(o)}
        BY <3>1, <3>3
      <3>4. CASE a \in UNION {{<<f[1], Swallowed>> : f \in ToSet(w[2].in)} : w \in ToSet(o)}
        BY <3>1, <3>4
      <3> QED BY <2>1, <3>2, <3>3, <3>4 DEF Scraps, o
    <2> HIDE DEF rest, text
    <2> QED BY <2>1
  <1>5. \A i \in DOMAIN text : \A a \in Written(rest(i)) : a \in Written(text[i].fields) \/ a[2] \in Mangled
    BY <1>1 DEF IsPiece
  <1>6. \A a \in all : Stands(a, text)
    BY <1>4, <1>5 DEF Stands
  <1> HIDE DEF all, rest, parts, pairs, args
  <1>7. name # None
    BY <1>2 DEF NoCall
  <1>8. args \in Seq(all)
    <2> DEFINE kept == [i \in DOMAIN pairs |->
                          IF pairs[i][1] \in Popped \cup Noise THEN <<>> ELSE <<pairs[i]>>]
    <2> HIDE DEF Popped
    <2>1. kept \in Seq(Seq(all))
      <3>1. DOMAIN pairs = 1 .. Len(pairs) /\ Len(pairs) \in Nat
            /\ \A i \in DOMAIN pairs : <<pairs[i]>> \in Seq(all)
        BY <1>3
      <3>2. <<>> \in Seq(all)
        OBVIOUS
      <3> QED BY <3>1, <3>2
    <2> HIDE DEF kept
    <2>2. FlattenSeq(kept) \in Seq(all)
      BY <2>1, FlattenTyped
    <2> QED BY <2>2 DEF args, kept
  <1>9. IsNamed(At(pairs, name).v, text)
    <2>1. name \in Naming(pairs)
      <3>1. Naming(pairs) # {} /\ Naming(pairs) \subseteq ToSet(NameKeys)
        BY <1>7 DEF First, Naming
      <3> QED BY <3>1, FirstIsGood, KeysAreKeys
    <2> HIDE DEF name
    <2>2. PICK i \in DOMAIN pairs : pairs[i][1] = name /\ At(pairs, name) = pairs[i][2]
      BY <1>3, <2>1, LastIsThere DEF Naming
    <2> DEFINE a == pairs[i]
    <2>3. a \in all /\ IsName(a[2]) /\ a[2].v \in Tools /\ a[1] \in ToSet(NameKeys)
      BY <1>2, <1>3, <1>7, <2>1, <2>2 DEF Naming
    <2>4. a[2] # Swallowed /\ a[2] \notin Mangled
      BY <2>3, ToolAssumption DEF ToolAssumption, Mangled, Str, Leaf
    <2>5. PICK j \in DOMAIN text : a \in Written(text[j].fields)
      BY <2>3, <2>4, <1>4, <1>5
    <2> QED BY <1>1, <2>2, <2>3, <2>5 DEF SaysItsMeaning, IsNamed
  <1>10. /\ Scrape(text).name = At(pairs, name).v /\ Scrape(text).args = args
         /\ Scrape(text).repairs = {"scraped"}
    BY <1>2, <1>7
  <1>11. \A a \in ToSet(args) : a \in all
    BY <1>8 DEF ToSet
  <1> QED BY <1>6, <1>9, <1>10, <1>11

-----------------------------------------------------------------------------
(* The ladder                                                              *)

\* The blocks a piece may be taken for, and those of a text.
Notes == {{}, {"recovered unclosed code fence"}}
Blocks(p) == {Taken(p, form, notes) : form \in {p.form, "cut"}, notes \in Notes}
AllBlocks(text) == {Nothing} \cup UNION {Blocks(text[i]) : i \in DOMAIN text}

LEMMA CandidateBlocks ==
  ASSUME NEW text, text \in Seq(ToSet(text))
  PROVE  Candidates(text) \in Seq(AllBlocks(text))
  <1> DEFINE S == AllBlocks(text)
  <1>1. DOMAIN text = 1 .. Len(text) /\ Len(text) \in Nat
    OBVIOUS
  <1>2. Nothing \in S
    BY DEF AllBlocks
  <1>3. \A i \in DOMAIN text : \A form \in {text[i].form, "cut"} : \A notes \in Notes :
          Taken(text[i], form, notes) \in S
    BY DEF AllBlocks, Blocks
  <1>4. {} \in Notes /\ {"recovered unclosed code fence"} \in Notes
    BY DEF Notes
  <1> HIDE DEF S
  <1>5. InFences(text) \in Seq(S)
    <2>1. InFences(text) \in [1 .. Len(text) -> S]
      BY <1>1, <1>2, <1>3, <1>4 DEF InFences
    <2> QED BY <1>1, <2>1
  <1>6. Unclosed(text) \in Seq(S)
    <2>1. Unclosed(text) \in [1 .. Len(text) -> S]
      BY <1>1, <1>2, <1>3, <1>4 DEF Unclosed
    <2> QED BY <1>1, <2>1
  <1>7. Spans(text) \in Seq(S)
    <2>1. Spans(text) \in [1 .. Len(text) -> S]
      BY <1>1, <1>2, <1>3, <1>4 DEF Spans
    <2> QED BY <1>1, <2>1
  <1>8. WholeText(text) \in Seq(S)
    <2>1. WholeText(text) \in [1 .. Len(text) -> S]
      BY <1>1, <1>2, <1>3, <1>4 DEF WholeText
    <2> QED BY <1>1, <2>1
  <1> QED BY <1>5, <1>6, <1>7, <1>8 DEF Candidates, S

\* A block that reads as a call of a tool is read from a piece whose author meant it.
LEMMA BlockIsTold ==
  ASSUME NEW r, IsReply(r), NEW b \in AllBlocks(r.text),
         ReadBlock(b).name # None, ReadBlock(b).name \in Tools
  PROVE  \E i \in DOMAIN r.text : IsFrom(ReadBlock(b), r.text[i])
  <1> DEFINE text == r.text
  <1>1. b # Nothing
    <2>1. Nothing.form = "broken"
      BY DEF Nothing, Block
    <2>2. b.form # "broken"
      BY DEF ReadBlock, NoCall
    <2> QED BY <2>1, <2>2
  <1>2. PICK i \in DOMAIN text : b \in Blocks(text[i])
    BY <1>1 DEF AllBlocks
  <1> DEFINE p == text[i]
  <1>3. PICK form \in {p.form, "cut"}, notes \in Notes : b = Taken(p, form, notes)
    BY <1>2 DEF Blocks
  <1>4. /\ IsObject(p.fields) /\ IsObject(p.got) /\ IsObject(p.fixed)
        /\ form \in Forms /\ SaysItsMeaning(p)
        /\ \A f \in Written(p.got) \cup Written(p.fixed) :
             f \in Written(p.fields) \/ f[2] \in Mangled
    BY DEF IsReply, IsPiece, Forms
  <1>5. /\ b.form = form /\ b.notes = notes
        /\ b.fields = CASE form = "cut" -> p.got [] form = "loose" -> p.fixed [] OTHER -> p.fields
    BY <1>3 DEF Taken, Block
  <1>7. form # "broken"
    BY <1>5 DEF ReadBlock, NoCall
  <1> DEFINE more == IF form = "cut" THEN {"closed what was open"}
                     ELSE IF form = "loose" THEN {"repaired"} ELSE {}
  <1>8. /\ ReadBlock(b) = Normalize(b.fields, notes \cup more)
        /\ more \cap {"closed what was open", "repaired"} = {} => form = "strict"
    <2>1. notes \cup {} = notes
      OBVIOUS
    <2>2. CASE form = "cut"
      BY <1>5, <2>2 DEF ReadBlock
    <2>3. CASE form = "loose"
      BY <1>5, <2>3 DEF ReadBlock
    <2>4. CASE form = "strict"
      <3>1. more = {}
        BY <2>4
      <3>2. ReadBlock(b) = Normalize(b.fields, notes)
        BY <1>5, <2>4 DEF ReadBlock
      <3> HIDE DEF more
      <3> QED BY <2>1, <2>4, <3>1, <3>2
    <2> QED BY <1>4, <1>7, <2>2, <2>3, <2>4 DEF Forms
  <1> HIDE DEF more
  <1> DEFINE found == ReadBlock(b)
             o == b.fields
  <1>9. /\ found.repairs = notes \cup more
        /\ \E f \in Written(o) : f[1] \in ToSet(NameKeys) /\ IsName(f[2]) /\ f[2].v = found.name
        /\ ToSet(found.args) \subseteq Written(o)
    <2>1. IsObject(o)
      BY <1>4, <1>5
    <2>2. found = Normalize(o, notes \cup more) /\ found.name # None
      BY <1>8
    <2> HIDE DEF o, found
    <2> QED BY <2>1, <2>2, ReadIsWritten, ZenonT(40)
  <1>10. \A f \in Written(o) : f \in Written(p.fields) \/ f[2] \in Mangled
    BY <1>4, <1>5, <1>7 DEF Forms
  <1>11. p.means.name = found.name
    <2>1. PICK f \in Written(o) : f[1] \in ToSet(NameKeys) /\ IsName(f[2]) /\ f[2].v = found.name
      BY <1>9
    <2>2. f[2] \notin Mangled
      BY <2>1, ToolAssumption DEF ToolAssumption, Mangled, Str, Leaf
    <2> QED BY <1>4, <1>10, <2>1, <2>2 DEF SaysItsMeaning
  <1>12. ASSUME found.repairs \cap {"closed what was open", "repaired"} = {}, ~ Halved(p.fields)
         PROVE  found.args = p.means.args
    <2>1. form = "strict" /\ o = p.fields
      <3>1. more \subseteq found.repairs
        BY <1>9
      <3>2. form = "strict"
        BY <1>8, <1>12, <3>1
      <3> QED BY <1>5, <3>2
    <2>2. form = p.form
      BY <2>1
    <2>3. Says(p.fields, p.means)
      BY <1>4, <1>11, <1>12, <2>1, <2>2 DEF SaysItsMeaning
    <2>4. ReadBlock(b) = Normalize(p.fields, notes \cup more)
      BY <1>8, <2>1
    <2>5. Normalize(p.fields, notes \cup more).args = p.means.args
      <3> HIDE DEF p
      <3> QED BY <1>4, <2>3, ReadIsMeant
    <2> QED BY <2>4, <2>5
  <1>13. IsFrom(found, p)
    BY <1>9, <1>10, <1>11, <1>12 DEF IsFrom
  <1> QED BY <1>13

\* Whatever rung it comes from, a call is told.
LEMMA ParseIsTold ==
  ASSUME NEW r, IsReply(r), ParseToolCall(r.text).name # None, ParseToolCall(r.text).name \in Tools
  PROVE  LET found == ParseToolCall(r.text) IN
         /\ IsNamed(found.name, r.text)
         /\ \A a \in ToSet(found.args) : Stands(a, r.text)
         /\ "scraped" \notin found.repairs => \E i \in DOMAIN r.text : IsFrom(found, r.text[i])
  <1> DEFINE text == r.text
             blocks == Candidates(text)
             read == [i \in DOMAIN blocks |-> ReadBlock(blocks[i])]
             good == {i \in DOMAIN read : read[i].name # None}
  <1>1. ParseToolCall(text) = IF good # {} THEN read[Min(good)] ELSE Scrape(text)
    BY DEF ParseToolCall
  <1>2. CASE good = {}
    <2>1. ParseToolCall(text) = Scrape(text)
      BY <1>1, <1>2
    <2> HIDE DEF text
    <2> QED BY <2>1, ScrapeIsTold, SMTT(30) DEF text
  <1>3. CASE good # {}
    <2>1. blocks \in Seq(AllBlocks(text))
      BY CandidateBlocks DEF IsReply
    <2>2. good \subseteq Nat
      BY <2>1
    <2>3. Min(good) \in good
      <3> HIDE DEF good
      <3> QED BY <1>3, <2>2, Least
    <2> DEFINE b == blocks[Min(good)]
    <2>4. b \in AllBlocks(text) /\ ParseToolCall(text) = ReadBlock(b)
      BY <1>1, <1>3, <2>1, <2>3
    <2> HIDE DEF b
    <2>5. PICK i \in DOMAIN text : IsFrom(ReadBlock(b), text[i])
      BY <2>4, BlockIsTold
    <2>6. IsNamed(ReadBlock(b).name, text)
      BY <2>5 DEF IsFrom, IsNamed
    <2>7. \A a \in ToSet(ReadBlock(b).args) : Stands(a, text)
      BY <2>5 DEF IsFrom, Stands
    <2> QED BY <2>4, <2>5, <2>6, <2>7
  <1> QED BY <1>2, <1>3

-----------------------------------------------------------------------------
(* What runs                                                               *)

\* The call a process is about to run is what its reply was read as.
Heard ==
  /\ said \in [Tasks -> Replies \cup {None}]
  /\ \A t \in Tasks : stage[t] = "execute" =>
       said[t] \in Replies /\ call[t] = Extract(said[t]) /\ call[t].name # None

LEMMA HeardStep ==
  ASSUME TaskTypes, Heard, JournalNext
  PROVE  Heard'
  <1> USE DEF Heard
  <1>0. stage \in [Tasks -> Pcs] /\ call \in [Tasks -> Calls] /\ left.replies \subseteq Replies
    BY DEF TaskTypes, Allowances
  <1>1. ASSUME NEW t \in Tasks, Do(t) \/ (\E s \in Tasks : Resume(t, s)) PROVE Heard'
    BY <1>0, <1>1 DEF Do, Resume, StartTask, loopVars
  <1>2. ASSUME NEW p, NEW t, NEW line, NEW here, NEW next, next # "execute",
               WriteStep(p, t, line, here, next), UNCHANGED <<said, call>>
        PROVE  Heard'
    BY <1>0, <1>2 DEF WriteStep
  <1>3. ASSUME NEW t \in Tasks, Create(t) \/ MarkResumed(t) \/ Record(t) \/ Close(t) \/ Fail(t)
        PROVE  Heard'
    <2>1. UNCHANGED <<said, call>>
      BY <1>3 DEF Create, MarkResumed, Record, Close, Fail, loopVars
    <2>2. \E u, line, here, next : next # "execute" /\ WriteStep(t, u, line, here, next)
      BY <1>3 DEF Create, MarkResumed, Record, Close, Fail
    <2> QED BY <1>2, <2>1, <2>2
  <1>4. ASSUME NEW t \in Tasks, Generate(t) PROVE Heard'
    <2>1. CASE \E how : Answer(t, how)
      BY <1>0, <2>1 DEF Answer
    <2>2. CASE \E reply \in Replies : Reply(t, reply) /\ CallIn[reply].name # None
      <3>1. PICK reply \in Replies : Reply(t, reply) /\ CallIn[reply].name # None
        BY <2>2
      <3>2. CallIn[reply] = Extract(reply)
        BY DEF CallIn
      <3>3. /\ said' = [said EXCEPT ![t] = reply] /\ call' = [call EXCEPT ![t] = CallIn[reply]]
            /\ stage' = [stage EXCEPT ![t] = "execute"]
        BY <3>1 DEF Reply
      <3> QED BY <1>0, <3>1, <3>2, <3>3
    <2> QED BY <1>0, <1>4, <2>1, <2>2 DEF Generate, Reply
  <1>5. ASSUME NEW t \in Tasks, Execute(t) \/ Remember(t) \/ Return(t) \/ Interrupt(t) \/ Kill(t)
        PROVE  Heard'
    BY <1>0, <1>5 DEF Execute, Remember, Return, Interrupt, Kill, Drop, loopVars
  <1> QED BY <1>1, <1>3, <1>4, <1>5 DEF JournalNext, Process

\* "Inventing calls the model never made is far worse than failing to parse one it did":
\* every call that is about to run was named in the reply, its arguments stood there but for
\* what a repair cut or rewrote, and where no repair is noted it is what its author meant.
THEOREM NoneInvented == JournalSpec => []NothingInvented
  <1>1. JournalInit => Heard
    BY DEF JournalInit, Heard
  <1>2. JournalInv /\ Heard /\ [JournalNext]_journalVars => Heard'
    <2>1. JournalInv /\ Heard /\ JournalNext => Heard'
      BY HeardStep DEF JournalInv
    <2>2. Heard /\ UNCHANGED journalVars => Heard'
      BY DEF Heard, journalVars
    <2> QED BY <2>1, <2>2
  <1>3. Heard => NothingInvented
    <2> SUFFICES ASSUME Heard, NEW t \in Tasks, stage[t] = "execute",
                        call[t] \notin ToSet(said[t].native)
                 PROVE  /\ IsNamed(call[t].name, said[t].text)
                        /\ \A a \in ToSet(call[t].args) : Stands(a, said[t].text)
                        /\ "scraped" \notin call[t].repairs =>
                             \E i \in DOMAIN said[t].text : IsFrom(call[t], said[t].text[i])
      BY DEF NothingInvented, IsNamed, Stands
    <2>1. said[t] \in Replies /\ call[t] = Extract(said[t]) /\ call[t].name # None
      BY DEF Heard
    <2> DEFINE r == said[t]
    <2>2. IsReply(r)
      BY <2>1, JournalAssumption DEF JournalAssumption
    <2>3. ~(Native /\ r.native # <<>>)
      <3>1. ASSUME Native, r.native # <<>> PROVE FALSE
        <4>1. call[t] = Head(r.native)
          BY <2>1, <3>1 DEF Extract
        <4>2. Head(r.native) \in ToSet(r.native)
          <5>1. r.native \in Seq(ToSet(r.native))
            BY <2>2 DEF IsReply
          <5> QED BY <3>1, <5>1
        <4> QED BY <4>1, <4>2
      <3> QED BY <3>1
    <2>4. call[t] = ParseToolCall(r.text) /\ call[t].name \in Tools
      BY <2>1, <2>3 DEF Extract, NoCall
    <2> HIDE DEF r
    <2> QED BY <2>1, <2>2, <2>4, ParseIsTold DEF r
  <1> QED BY <1>1, <1>2, <1>3, JournalInvariance, PTL DEF JournalSpec

-----------------------------------------------------------------------------
(* Tasks run down                                                          *)

\* How many steps the process of a task may still take: three for each step of its loop,
\* and those before and after the loop.
Rank(place, i) ==
  LET loops == 3 * (MaxSteps + 1 - i) IN
  CASE place = "none" -> loops + 8
    [] place = "create" -> loops + 7
    [] place = "mark" -> loops + 6
    [] place = "generate" -> loops + 5
    [] place = "execute" -> loops + 4
    [] place = "record" -> loops + 3
    [] place = "remember" -> 4
    [] place = "close" -> 3
    [] place = "return" -> 2
    [] place \in {"fail", "retract"} -> 1
    [] OTHER -> 0
Distance(t) == Rank(stage[t], number[t])

\* Only steps within max_steps are executed and recorded.
Numbered ==
  /\ number \in [Tasks -> 1 .. MaxSteps + 1]
  /\ \A t \in Tasks : stage[t] \in {"execute", "record"} => number[t] <= MaxSteps

OneNearer ==
  \E t \in Tasks : /\ Distance(t)' < Distance(t)
                   /\ \A s \in Tasks \ {t} : Distance(s)' = Distance(s)

LEMMA Nearer ==
  ASSUME TaskTypes, Numbered, NEW t \in Tasks, NEW place \in Pcs, NEW i \in 1 .. MaxSteps + 1,
         stage' = [stage EXCEPT ![t] = place], number' = [number EXCEPT ![t] = i],
         Rank(place, i) < Rank(stage[t], number[t]),
         place \in {"execute", "record"} => i <= MaxSteps
  PROVE  Numbered' /\ OneNearer
  <1>1. Numbered'
    BY DEF Numbered, TaskTypes
  <1>2. /\ Distance(t)' = Rank(place, i) /\ Distance(t) = Rank(stage[t], number[t])
        /\ \A s \in Tasks \ {t} : Distance(s)' = Distance(s)
    BY DEF Distance, Numbered, TaskTypes
  <1> QED BY <1>1, <1>2 DEF OneNearer

\* A step within which the loop does not advance.
LEMMA NearerHere ==
  ASSUME TaskTypes, Numbered, NEW t \in Tasks, NEW place \in Pcs,
         stage' = [stage EXCEPT ![t] = place], number' = number,
         Rank(place, number[t]) < Rank(stage[t], number[t]),
         place \in {"execute", "record"} => number[t] <= MaxSteps
  PROVE  Numbered' /\ OneNearer
  <1>1. number' = [number EXCEPT ![t] = number[t]] /\ number[t] \in 1 .. MaxSteps + 1
    BY DEF Numbered
  <1> QED BY <1>1, Nearer

LEMMA RunDownStep ==
  ASSUME TaskTypes, Numbered, JournalNext
  PROVE  Numbered' /\ OneNearer
  <1> USE DEF loopVars
  <1>0. /\ MaxSteps \in Nat /\ stage \in [Tasks -> Pcs]
        /\ \A t \in Tasks : number[t] \in 1 .. MaxSteps + 1
    BY JournalAssumption DEF JournalAssumption, TaskTypes, Numbered
  <1>1. ASSUME NEW t \in Tasks, Do(t) \/ (\E s \in Tasks : Resume(t, s)) PROVE Numbered' /\ OneNearer
    <2>1. stage[t] = "none" /\ stage' = [stage EXCEPT ![t] = "create"] /\ number' = number
      BY <1>1 DEF Do, Resume, StartTask, Fresh
    <2>2. Rank("create", number[t]) < Rank("none", number[t])
      BY <1>0 DEF Rank
    <2> QED BY <2>1, <2>2, NearerHere DEF Pcs, Running
  \* a write goes on, or ends the process
  <1>2. ASSUME NEW t \in Tasks, NEW u, NEW line, NEW here, NEW next \in Pcs \ {"execute", "record"},
               WriteStep(t, u, line, here, next), number' = number,
               Rank(next, number[t]) < Rank(here, number[t])
        PROVE  Numbered' /\ OneNearer
    <2>1. \E place \in {next, "dead"} : stage' = [stage EXCEPT ![t] = place] /\ stage[t] = here
      BY <1>2 DEF WriteStep
    <2>2. Rank("dead", number[t]) = 0 /\ Rank(next, number[t]) >= 0
      BY <1>0, <1>2 DEF Rank, Pcs, Running
    <2>3. Rank(next, number[t]) \in Nat /\ Rank(here, number[t]) \in Nat
      BY <1>0, <1>2, <2>1 DEF Rank
    <2>4. Rank("dead", number[t]) < Rank(here, number[t])
      BY <1>2, <2>2, <2>3
    <2> QED BY <1>2, <2>1, <2>4, NearerHere DEF Pcs
  <1>3. ASSUME NEW t \in Tasks, Create(t) PROVE Numbered' /\ OneNearer
    <2>1. PICK next \in {"generate", "mark"} :
            WriteStep(t, t, Event("start"), "create", next) /\ number' = number
      BY <1>3 DEF Create
    <2>2. Rank(next, number[t]) < Rank("create", number[t])
      BY <1>0 DEF Rank
    <2> QED BY <1>2, <2>1, <2>2 DEF Pcs, Running
  <1>4. ASSUME NEW t \in Tasks, MarkResumed(t) PROVE Numbered' /\ OneNearer
    <2>1. Rank("generate", number[t]) < Rank("mark", number[t])
      BY <1>0 DEF Rank
    <2> QED BY <1>2, <1>4, <2>1 DEF MarkResumed, Pcs, Running
  <1>5. ASSUME NEW t \in Tasks, Generate(t) PROVE Numbered' /\ OneNearer
    <2>1. stage[t] = "generate" /\ number' = number
      BY <1>5 DEF Generate
    <2>2. \/ stage' = [stage EXCEPT ![t] = "remember"]
          \/ stage' = [stage EXCEPT ![t] = "execute"] /\ number[t] <= MaxSteps
      BY <1>5 DEF Generate, Reply, Answer
    <2>3. /\ Rank("remember", number[t]) < Rank("generate", number[t])
          /\ Rank("execute", number[t]) < Rank("generate", number[t])
      BY <1>0 DEF Rank
    <2> QED BY <2>1, <2>2, <2>3, NearerHere DEF Pcs, Running
  <1>6. ASSUME NEW t \in Tasks, Execute(t) PROVE Numbered' /\ OneNearer
    <2>1. /\ stage[t] = "execute" /\ stage' = [stage EXCEPT ![t] = "record"] /\ number' = number
          /\ number[t] <= MaxSteps
      BY <1>6 DEF Execute, Numbered
    <2>2. Rank("record", number[t]) < Rank("execute", number[t])
      BY <1>0 DEF Rank
    <2> QED BY <2>1, <2>2, NearerHere DEF Pcs, Running
  <1>7. ASSUME NEW t \in Tasks, Record(t) PROVE Numbered' /\ OneNearer
    <2>1. /\ stage[t] = "record" /\ number' = [number EXCEPT ![t] = number[t] + 1]
          /\ \E place \in {"generate", "dead"} : stage' = [stage EXCEPT ![t] = place]
          /\ number[t] + 1 \in 1 .. MaxSteps + 1
      BY <1>0, <1>7 DEF Record, WriteStep, Numbered
    <2>2. /\ Rank("generate", number[t] + 1) < Rank("record", number[t])
          /\ Rank("dead", number[t] + 1) < Rank("record", number[t])
      BY <1>0 DEF Rank
    <2> QED BY <2>1, <2>2, Nearer DEF Pcs, Running
  <1>8. ASSUME NEW t \in Tasks, Remember(t) PROVE Numbered' /\ OneNearer
    <2>1. Rank("close", number[t]) < Rank("remember", number[t])
      BY DEF Rank
    <2> QED BY <1>8, <2>1, NearerHere DEF Remember, Pcs, Running
  <1>9. ASSUME NEW t \in Tasks, Close(t) \/ Return(t) \/ Fail(t) PROVE Numbered' /\ OneNearer
    <2>1. /\ Rank("return", number[t]) < Rank("close", number[t])
          /\ Rank("ended", number[t]) < Rank("return", number[t])
          /\ \A here \in {"fail", "retract"} : Rank("ended", number[t]) < Rank(here, number[t])
      BY DEF Rank
    <2>2. CASE Close(t)
      BY <1>2, <2>1, <2>2 DEF Close, Pcs, Running
    <2>3. CASE Return(t)
      BY <2>1, <2>3, NearerHere DEF Return, Pcs, Running
    <2>4. CASE Fail(t)
      BY <1>2, <2>1, <2>4 DEF Fail, Pcs, Running
    <2> QED BY <1>9, <2>2, <2>3, <2>4
  <1>10. ASSUME NEW t \in Tasks, Interrupt(t) PROVE Numbered' /\ OneNearer
    <2>1. /\ stage[t] \in {"generate", "execute", "record", "remember", "close", "return"}
          /\ \E place \in {"fail", "retract"} : stage' = [stage EXCEPT ![t] = place]
          /\ number' = number
      BY <1>10 DEF Interrupt
    <2>2. \A place \in {"fail", "retract"} : Rank(place, number[t]) < Rank(stage[t], number[t])
      BY <1>0, <2>1 DEF Rank
    <2> QED BY <2>1, <2>2, NearerHere DEF Pcs, Running
  <1>11. ASSUME NEW t \in Tasks, Kill(t) PROVE Numbered' /\ OneNearer
    <2>1. stage[t] \in Running /\ stage' = [stage EXCEPT ![t] = "dead"] /\ number' = number
      BY <1>11 DEF Kill
    <2>2. Rank("dead", number[t]) < Rank(stage[t], number[t])
      BY <1>0, <2>1 DEF Rank, Running
    <2> QED BY <2>1, <2>2, NearerHere DEF Pcs
  <1> QED BY <1>1, <1>3, <1>4, <1>5, <1>6, <1>7, <1>8, <1>9, <1>10, <1>11 DEF JournalNext, Process

\* Whatever the model replies, and however processes are interrupted, killed and resumed,
\* every step brings one task nearer to its end and takes none away from it: no task runs
\* for more than three steps for each of max_steps, and eight.
THEOREM TasksRunDown ==
  JournalSpec => /\ [](\A t \in Tasks : Distance(t) \in 0 .. 3 * MaxSteps + 8)
                 /\ [][OneNearer]_journalVars
  <1>1. JournalInit => Numbered
    BY JournalAssumption DEF JournalAssumption, JournalInit, Numbered
  <1>2. JournalInv /\ Numbered /\ [JournalNext]_journalVars => Numbered'
    BY RunDownStep DEF JournalInv, Numbered, journalVars
  <1>3. JournalInv /\ Numbered /\ [JournalNext]_journalVars => [OneNearer]_journalVars
    BY RunDownStep DEF JournalInv
  <1>4. JournalInv /\ Numbered => \A t \in Tasks : Distance(t) \in 0 .. 3 * MaxSteps + 8
    <2> SUFFICES ASSUME JournalInv, Numbered, NEW t \in Tasks
                 PROVE  Rank(stage[t], number[t]) \in 0 .. 3 * MaxSteps + 8
      BY DEF Distance
    <2>1. MaxSteps \in Nat /\ number[t] \in 1 .. MaxSteps + 1
      BY JournalAssumption DEF JournalAssumption, Numbered
    <2> QED BY <2>1 DEF Rank
  <1> QED BY <1>1, <1>2, <1>3, <1>4, JournalInvariance, PTL DEF JournalSpec
=============================================================================
