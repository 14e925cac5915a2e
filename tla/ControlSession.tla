--------------------------- MODULE ControlSession ---------------------------
(***************************************************************************)
(* ARC takes the mouse and keyboard: src/arc/control/session.py together   *)
(* with the input primitives of src/arc/control/input.py that consult it.  *)
(*                                                                         *)
(* One thread, the owner, starts and stops sessions and runs the input     *)
(* tools.  Every session has a watcher thread that polls the pointer, and  *)
(* a child process, the overlay, that shows the glow.  The user moves the  *)
(* mouse or runs `arc control release` in a shell; the Escape key reaches  *)
(* no handler of ARC and is left out.                                      *)
(*                                                                         *)
(* A step of a thread is one access to state another thread or process    *)
(* can see: in particular check() and the post it allows are two steps.   *)
(* Pointer positions are points of a line; one unit is half a takeover     *)
(* threshold when Threshold = 1.  An animated move visits arbitrary        *)
(* points: the easing curve is abstracted.                                 *)
(***************************************************************************)
EXTENDS Naturals, FiniteSets

CONSTANTS
  MaxSessions,  \* bound: how many times start() creates a ControlSession
  MoveSteps,    \* MOVE_STEPS of input.py, and the characters or clicks of a loop
  Points,       \* pointer positions, a set of naturals
  NoPoint,      \* expected_pointer is None
  Threshold,    \* TAKEOVER_THRESHOLD
  Ops,          \* the input tools the owner may run
  UserActs,     \* what the user may do: "mouse", "shell"
  Faults        \* what may fail, of AllFaults

AllOps == {"move", "click", "drag", "scroll", "type", "press"}
AllActs == {"mouse", "shell"}
AllFaults == {"register", "spawn", "audit", "overlay", "crash"}

ASSUME ControlAssumption ==
  /\ MaxSessions \in Nat \ {0}
  /\ MoveSteps \in Nat \ {0}
  /\ Points \subseteq Nat /\ Points # {} /\ NoPoint \notin Points
  /\ Threshold \in Nat
  /\ Ops \subseteq AllOps
  /\ UserActs \subseteq AllActs
  /\ Faults \subseteq AllFaults

Sessions == 1 .. MaxSessions
Threads == 0 .. MaxSessions       \* 0 is the owner, s the watcher of session s

VARIABLES
  active,      \* active[s]: state.active
  releasedBy,  \* releasedBy[s]: state.released_by, "none" while _stop is clear
  expected,    \* expected[s]: state.expected_pointer
  handle,      \* handle[s]: _overlay is not None
  proc,        \* proc[s]: the overlay process itself
  closed,      \* closed[s]: the write end of the overlay's stdin is closed
  watch,       \* watch[s]: where the watcher thread of s is
  seen,        \* seen[s]: the `expected` the watcher read in this poll
  rel,         \* rel[t]: where thread t is inside release()
  current,     \* the module-level _current, 0 for None
  opened,      \* how many sessions start() has created
  pidFile,     \* control-<pid>.pid exists
  pc, op, n,   \* where the owner is, in which tool, at which loop index
  aim,         \* the position the owner posted last
  pointer,     \* where the pointer really is
  button,      \* a synthetic mouse button is down
  alive,       \* the ARC process has not been killed
  userMoved,   \* userMoved[s]: the user moved the mouse while s was current and active
  late,        \* late[s]: events delivered after control was given back, saturating
  unlit,       \* unlit[s]: an event was delivered while the glow was not on screen
  refused,     \* the sessions of which start() raised
  releases     \* releases[s]: control.release records in the audit log, saturating

sessionVars == <<active, releasedBy, expected, handle, proc, closed>>
threadVars == <<watch, seen, rel>>
moduleVars == <<current, opened, pidFile, alive>>
ownerVars == <<pc, op, n, aim>>
screenVars == <<pointer, button>>
historyVars == <<userMoved, late, unlit, refused, releases>>
vars == <<sessionVars, threadVars, moduleVars, ownerVars, screenVars, historyVars>>

MaxLate == 3       \* where `late` saturates
MaxReleases == 2   \* where `releases` saturates

Abs(a, b) == IF a > b THEN a - b ELSE b - a
Capped(k, max) == IF k < max THEN k + 1 ELSE max
StopSet(s) == releasedBy[s] # "none"      \* _stop: set by release, cleared by acquire
Glow(s) == proc[s] = "up"

Passes == current # 0 /\ active[current] \* require() returns the session

OwnerPcs ==
  {"idle", "a_register", "a_overlay", "a_watch", "a_audit", "stopping", "require",
   "m_check", "m_post", "m_note", "c_check", "c_down", "c_up",
   "d_check0", "d_down", "d_check", "d_post", "d_note", "d_up", "d_last",
   "s_check", "s_post", "k_check", "k_down", "k_up"}

SessionTypeOK ==
  /\ active \in [Sessions -> BOOLEAN]
  /\ releasedBy \in [Sessions -> {"none", "arc", "user"}]
  /\ expected \in [Sessions -> Points \cup {NoPoint}]
  /\ handle \in [Sessions -> BOOLEAN]
  /\ proc \in [Sessions -> {"none", "starting", "up", "exited"}]
  /\ closed \in [Sessions -> BOOLEAN]

ThreadTypeOK ==
  /\ watch \in [Sessions -> {"none", "wait", "read", "release", "done"}]
  /\ seen \in [Sessions -> Points \cup {NoPoint}]
  /\ rel \in [Threads -> {"none", "check", "mark", "glow", "close", "wait",
                          "clear", "unregister", "finish", "raised"}]

OwnerTypeOK ==
  /\ current \in 0 .. MaxSessions
  /\ opened \in 0 .. MaxSessions
  /\ pidFile \in BOOLEAN
  /\ alive \in BOOLEAN
  /\ pc \in OwnerPcs
  /\ op \in AllOps
  /\ n \in 1 .. MoveSteps
  /\ aim \in Points
  /\ pointer \in Points
  /\ button \in BOOLEAN

HistoryTypeOK ==
  /\ userMoved \in [Sessions -> BOOLEAN]
  /\ late \in [Sessions -> 0 .. MaxLate]
  /\ unlit \in [Sessions -> BOOLEAN]
  /\ refused \subseteq Sessions
  /\ releases \in [Sessions -> 0 .. MaxReleases]

TypeOK == SessionTypeOK /\ ThreadTypeOK /\ OwnerTypeOK /\ HistoryTypeOK

Init ==
  /\ active = [s \in Sessions |-> FALSE]
  /\ releasedBy = [s \in Sessions |-> "none"]
  /\ expected = [s \in Sessions |-> NoPoint]
  /\ handle = [s \in Sessions |-> FALSE]
  /\ proc = [s \in Sessions |-> "none"]
  /\ closed = [s \in Sessions |-> FALSE]
  /\ watch = [s \in Sessions |-> "none"]
  /\ seen = [s \in Sessions |-> NoPoint]
  /\ rel = [t \in Threads |-> "none"]
  /\ current = 0 /\ opened = 0 /\ pidFile = FALSE /\ alive = TRUE
  /\ pc = "idle" /\ op = "move" /\ n = 1
  /\ pointer \in Points /\ aim = pointer /\ button = FALSE
  /\ userMoved = [s \in Sessions |-> FALSE]
  /\ late = [s \in Sessions |-> 0]
  /\ unlit = [s \in Sessions |-> FALSE]
  /\ refused = {}
  /\ releases = [s \in Sessions |-> 0]

-----------------------------------------------------------------------------
(* start() and acquire(), on the owner thread.                             *)

\* Mutant: start() does not look at the current session.
StartAnyway ==
  /\ alive /\ pc = "idle"
  /\ opened < MaxSessions
  /\ opened' = opened + 1
  /\ active' = [active EXCEPT ![opened + 1] = TRUE]
  /\ pc' = "a_register"
  /\ UNCHANGED <<releasedBy, expected, handle, proc, closed, threadVars, current,
                 pidFile, alive, op, n, aim, screenVars, historyVars>>

\* start(): an active current session is returned as it is; otherwise a new
\* ControlSession is created and acquire() sets its state.
Start ==
  /\ alive /\ pc = "idle"
  /\ opened < MaxSessions
  /\ ~Passes
  /\ opened' = opened + 1
  /\ active' = [active EXCEPT ![opened + 1] = TRUE]
  /\ pc' = "a_register"
  /\ UNCHANGED <<releasedBy, expected, handle, proc, closed, threadVars, current,
                 pidFile, alive, op, n, aim, screenVars, historyVars>>

\* An exception leaves acquire() and start(), before _current is assigned.
Refuse ==
  /\ pc' = "idle"
  /\ refused' = refused \cup {opened}

\* The kill switch registration: on OSError the session is not active again.
\* The write may have created the file before it failed, and nobody removes it.
Register ==
  /\ alive /\ pc = "a_register"
  /\ \/ /\ pidFile' = TRUE
        /\ pc' = "a_overlay"
        /\ UNCHANGED <<active, refused>>
     \/ /\ "register" \in Faults
        /\ active' = [active EXCEPT ![opened] = FALSE]
        /\ pidFile' \in {pidFile, TRUE}
        /\ Refuse
  /\ UNCHANGED <<releasedBy, expected, handle, proc, closed, threadVars, current,
                 opened, alive, op, n, aim, screenVars, userMoved, late, unlit, releases>>

\* _start_overlay(): Popen returns at once, the glow appears later.  On
\* OSError a ControlError leaves acquire(), and nothing is undone.
StartOverlay ==
  /\ alive /\ pc = "a_overlay"
  /\ \/ /\ handle' = [handle EXCEPT ![opened] = TRUE]
        /\ proc' = [proc EXCEPT ![opened] = "starting"]
        /\ pc' = "a_watch"
        /\ UNCHANGED refused
     \/ /\ "spawn" \in Faults
        /\ Refuse
        /\ UNCHANGED <<handle, proc>>
  /\ UNCHANGED <<active, releasedBy, expected, closed, threadVars, moduleVars,
                 op, n, aim, screenVars, userMoved, late, unlit, releases>>

\* _start_watcher()
StartWatcher ==
  /\ alive /\ pc = "a_watch"
  /\ watch' = [watch EXCEPT ![opened] = "wait"]
  /\ pc' = "a_audit"
  /\ UNCHANGED <<sessionVars, seen, rel, moduleVars, op, n, aim, screenVars, historyVars>>

\* The audit record, then start() assigns _current.  The watcher cannot act
\* between them: it ignores a session whose expected pointer is None.  When the
\* record raises, the session stays active, lit and registered, but is no
\* current one.
Acquired ==
  /\ alive /\ pc = "a_audit"
  /\ \/ /\ current' = opened
        /\ pc' = "idle"
        /\ UNCHANGED refused
     \/ /\ "audit" \in Faults
        /\ Refuse
        /\ UNCHANGED current
  /\ UNCHANGED <<sessionVars, threadVars, opened, pidFile, alive, op, n, aim,
                 screenVars, userMoved, late, unlit, releases>>

-----------------------------------------------------------------------------
(* release(), run by the owner on _current or by a watcher on its session. *)

Subject(t) == IF t = 0 THEN current ELSE t
Releaser(t) == IF t = 0 THEN "arc" ELSE "user"

\* `if not self.state.active: return`
RelCheck(t) ==
  /\ alive /\ rel[t] = "check"
  /\ rel' = [rel EXCEPT ![t] = IF active[Subject(t)] THEN "mark" ELSE "none"]
  /\ UNCHANGED <<sessionVars, watch, seen, moduleVars, ownerVars, screenVars, historyVars>>

\* active, released_by and the _stop event.
RelMark(t) ==
  /\ alive /\ rel[t] = "mark"
  /\ active' = [active EXCEPT ![Subject(t)] = FALSE]
  /\ releasedBy' = [releasedBy EXCEPT ![Subject(t)] = Releaser(t)]
  /\ rel' = [rel EXCEPT ![t] = "glow"]
  /\ UNCHANGED <<expected, handle, proc, closed, watch, seen, moduleVars, ownerVars,
                 screenVars, historyVars>>

\* Mutant: release() leaves the overlay alone.
RelGlowForgotten(t) ==
  /\ alive /\ rel[t] = "glow"
  /\ rel' = [rel EXCEPT ![t] = "unregister"]
  /\ UNCHANGED <<sessionVars, watch, seen, moduleVars, ownerVars, screenVars, historyVars>>

\* _stop_overlay(): `if self._overlay is None: return`.
RelGlow(t) ==
  /\ alive /\ rel[t] = "glow"
  /\ rel' = [rel EXCEPT ![t] = IF handle[Subject(t)] THEN "close" ELSE "unregister"]
  /\ UNCHANGED <<sessionVars, watch, seen, moduleVars, ownerVars, screenVars, historyVars>>

\* self._overlay.stdin.close(): an AttributeError when another thread has
\* cleared _overlay in the meantime.
RelClose(t) ==
  /\ alive /\ rel[t] = "close"
  /\ IF handle[Subject(t)]
     THEN /\ closed' = [closed EXCEPT ![Subject(t)] = TRUE]
          /\ rel' = [rel EXCEPT ![t] = "wait"]
     ELSE /\ rel' = [rel EXCEPT ![t] = "raised"]
          /\ UNCHANGED closed
  /\ UNCHANGED <<active, releasedBy, expected, handle, proc, watch, seen, moduleVars,
                 ownerVars, screenVars, historyVars>>

\* self._overlay.wait(timeout=2.0): the overlay has exited, or is killed when
\* the wait times out.
RelWait(t) ==
  /\ alive /\ rel[t] = "wait"
  /\ IF handle[Subject(t)]
     THEN /\ proc' = [proc EXCEPT ![Subject(t)] = "exited"]
          /\ rel' = [rel EXCEPT ![t] = "clear"]
     ELSE /\ rel' = [rel EXCEPT ![t] = "raised"]
          /\ UNCHANGED proc
  /\ UNCHANGED <<active, releasedBy, expected, handle, closed, watch, seen, moduleVars,
                 ownerVars, screenVars, historyVars>>

\* self._overlay = None
RelClear(t) ==
  /\ alive /\ rel[t] = "clear"
  /\ handle' = [handle EXCEPT ![Subject(t)] = FALSE]
  /\ rel' = [rel EXCEPT ![t] = "unregister"]
  /\ UNCHANGED <<active, releasedBy, expected, proc, closed, watch, seen, moduleVars,
                 ownerVars, screenVars, historyVars>>

\* KillSwitch.unregister: the file is named after the process, not the session.
RelUnregister(t) ==
  /\ alive /\ rel[t] = "unregister"
  /\ pidFile' = FALSE
  /\ rel' = [rel EXCEPT ![t] = "finish"]
  /\ UNCHANGED <<sessionVars, watch, seen, current, opened, alive, ownerVars, screenVars,
                 historyVars>>

\* The join of the watcher gives up after a second, so it never blocks the
\* owner for good; then the audit record, which may raise.
RelFinish(t) ==
  /\ alive /\ rel[t] = "finish"
  /\ \/ /\ releases' = [releases EXCEPT ![Subject(t)] = Capped(@, MaxReleases)]
        /\ rel' = [rel EXCEPT ![t] = "none"]
     \/ /\ "audit" \in Faults
        /\ rel' = [rel EXCEPT ![t] = "raised"]
        /\ UNCHANGED releases
  /\ UNCHANGED <<sessionVars, watch, seen, moduleVars, ownerVars, screenVars,
                 userMoved, late, unlit, refused>>

Release(t) ==
  \/ RelCheck(t) \/ RelMark(t) \/ RelGlow(t) \/ RelClose(t) \/ RelWait(t)
  \/ RelClear(t) \/ RelUnregister(t) \/ RelFinish(t)

\* stop(): release() of the current session.
Stop ==
  /\ alive /\ pc = "idle" /\ current # 0
  /\ rel' = [rel EXCEPT ![0] = "check"]
  /\ pc' = "stopping"
  /\ UNCHANGED <<sessionVars, watch, seen, moduleVars, op, n, aim, screenVars, historyVars>>

\* release() has returned, so _current is cleared; or it has raised, and then
\* it is not.
Stopped ==
  /\ alive /\ pc = "stopping" /\ rel[0] \in {"none", "raised"}
  /\ current' = IF rel[0] = "none" THEN 0 ELSE current
  /\ rel' = [rel EXCEPT ![0] = "none"]
  /\ pc' = "idle"
  /\ UNCHANGED <<sessionVars, watch, seen, opened, pidFile, alive, op, n, aim,
                 screenVars, historyVars>>

-----------------------------------------------------------------------------
(* The watcher thread of session s: _watch_pointer().                      *)

\* Mutant: the threshold is one point too large.
DriftTooLarge(s) == seen[s] # NoPoint /\ Abs(pointer, seen[s]) > Threshold + 1

Drift(s) == seen[s] # NoPoint /\ Abs(pointer, seen[s]) > Threshold

\* _stop.wait(POLL_INTERVAL) returns True: the loop ends.
WatchStops(s) ==
  /\ alive /\ watch[s] = "wait" /\ StopSet(s)
  /\ watch' = [watch EXCEPT ![s] = "done"]
  /\ UNCHANGED <<sessionVars, seen, rel, moduleVars, ownerVars, screenVars, historyVars>>

\* A poll reads the expected position; None ends the iteration.
WatchExpected(s) ==
  /\ alive /\ watch[s] = "wait" /\ ~StopSet(s)
  /\ expected[s] # NoPoint
  /\ seen' = [seen EXCEPT ![s] = expected[s]]
  /\ watch' = [watch EXCEPT ![s] = "read"]
  /\ UNCHANGED <<sessionVars, rel, moduleVars, ownerVars, screenVars, historyVars>>

\* Then it reads the pointer, and a drift beyond the threshold is a takeover.
WatchPointer(s) ==
  /\ alive /\ watch[s] = "read"
  /\ IF Drift(s)
     THEN /\ watch' = [watch EXCEPT ![s] = "release"]
          /\ rel' = [rel EXCEPT ![s] = "check"]
     ELSE /\ watch' = [watch EXCEPT ![s] = "wait"]
          /\ UNCHANGED rel
  /\ seen' = [seen EXCEPT ![s] = NoPoint]
  /\ UNCHANGED <<sessionVars, moduleVars, ownerVars, screenVars, historyVars>>

\* The thread returns after release(), or dies of its exception.
WatchReturns(s) ==
  /\ alive /\ watch[s] = "release" /\ rel[s] \in {"none", "raised"}
  /\ watch' = [watch EXCEPT ![s] = "done"]
  /\ UNCHANGED <<sessionVars, seen, rel, moduleVars, ownerVars, screenVars, historyVars>>

-----------------------------------------------------------------------------
(* The input tools, on the owner thread.                                   *)

\* A tool raises: its ControlError becomes an observation, nothing is undone.
Raise ==
  /\ pc' = "idle"
  /\ UNCHANGED <<op, n>>

\* One synthetic event is delivered in session `current`.
Deliver ==
  /\ late' = [late EXCEPT ![current] = IF active[current] THEN @ ELSE Capped(@, MaxLate)]
  /\ unlit' = [unlit EXCEPT ![current] = @ \/ ~Glow(current)]
  /\ UNCHANGED <<userMoved, refused, releases>>

\* Where a tool may go after require(): a click is at a position, or where the
\* pointer already is.
FirstSteps(o) ==
  CASE o \in {"move", "drag"} -> {"m_check"}
    [] o = "click" -> {"m_check", "c_check"}
    [] o = "scroll" -> {"s_check"}
    [] OTHER -> {"k_check"}

\* Where it goes after the pointer has arrived (move_to has returned).
AfterMove(o) ==
  CASE o = "move" -> "idle" [] o = "click" -> "c_check" [] OTHER -> "d_check0"

\* A tool is called: _guard, then require() of the primitive.  Each primitive
\* is called with every tool name the owner may use.
CallTool ==
  /\ alive /\ pc = "idle"
  /\ Passes
  /\ op' \in Ops
  /\ pc' = "require" /\ n' = 1
  /\ UNCHANGED <<sessionVars, threadVars, moduleVars, aim, screenVars, historyVars>>

Require ==
  /\ alive /\ pc = "require"
  /\ IF Passes THEN pc' \in FirstSteps(op) /\ UNCHANGED <<op, n>> ELSE Raise
  /\ UNCHANGED <<sessionVars, threadVars, moduleVars, aim, screenVars, historyVars>>

\* session.check() at `from`; control goes on to `to`.
Check(from, to) ==
  /\ alive /\ pc = from
  /\ IF active[current] THEN pc' = to /\ UNCHANGED <<op, n>> ELSE Raise
  /\ UNCHANGED <<sessionVars, threadVars, moduleVars, aim, screenVars, historyVars>>

\* The next iteration of a loop, or what follows the loop.
Loop(again, after) ==
  IF n < MoveSteps THEN pc' = again /\ n' = n + 1 ELSE pc' = after /\ n' = 1

\* _post of a motion event: the pointer is there before note_pointer says so.
PostMotion(from, to) ==
  /\ alive /\ pc = from
  /\ aim' \in Points /\ pointer' = aim'
  /\ Deliver
  /\ pc' = to
  /\ UNCHANGED <<sessionVars, threadVars, moduleVars, op, n, button>>

Note ==
  /\ expected' = [expected EXCEPT ![current] = aim]
  /\ UNCHANGED <<active, releasedBy, handle, proc, closed, threadVars, moduleVars,
                 op, aim, screenVars, historyVars>>

\* _post of an event that does not move the pointer.
PostPlain(from) ==
  /\ alive /\ pc = from
  /\ Deliver
  /\ UNCHANGED <<sessionVars, threadVars, moduleVars, op, aim, pointer>>

\* move_to: check, post, note_pointer, MOVE_STEPS times.
MoveCheck == Check("m_check", "m_post")
MovePost == PostMotion("m_post", "m_note")
MoveNote == alive /\ pc = "m_note" /\ Note /\ Loop("m_check", AfterMove(op))

\* click: check once for each click, then button down and up.
ClickCheck == Check("c_check", "c_down")
ClickDown == PostPlain("c_down") /\ button' = TRUE /\ pc' = "c_up" /\ UNCHANGED n
ClickUp == PostPlain("c_up") /\ button' = FALSE /\ Loop("c_check", "idle")

\* drag: down, then a checked motion for each step, then an unchecked up.
DragStart == Check("d_check0", "d_down")
DragDown == PostPlain("d_down") /\ button' = TRUE /\ pc' = "d_check" /\ UNCHANGED n
DragCheck == Check("d_check", "d_post")
DragPost == PostMotion("d_post", "d_note")
DragNote == alive /\ pc = "d_note" /\ Note /\ Loop("d_check", "d_up")
DragUp == PostPlain("d_up") /\ button' = FALSE /\ pc' = "d_last" /\ UNCHANGED n
DragLast == alive /\ pc = "d_last" /\ Note /\ pc' = "idle" /\ UNCHANGED n

\* scroll: one check, one event.
ScrollCheck == Check("s_check", "s_post")
ScrollPost == PostPlain("s_post") /\ pc' = "idle" /\ UNCHANGED <<n, button>>

\* type_text and press: a check for each character, key down and key up.
\* Mutant: the check is made once, before the loop.
KeyCheckSkipped ==
  /\ alive /\ pc = "k_check"
  /\ IF active[current] \/ n > 1 THEN pc' = "k_down" /\ UNCHANGED <<op, n>> ELSE Raise
  /\ UNCHANGED <<sessionVars, threadVars, moduleVars, aim, screenVars, historyVars>>

KeyCheck == Check("k_check", "k_down")
KeyDown == PostPlain("k_down") /\ pc' = "k_up" /\ UNCHANGED <<n, button>>
KeyUp ==
  /\ PostPlain("k_up") /\ UNCHANGED button
  /\ IF op = "type" THEN Loop("k_check", "idle") ELSE pc' = "idle" /\ UNCHANGED n

ToolStep ==
  \/ Require
  \/ MoveCheck \/ MovePost \/ MoveNote
  \/ ClickCheck \/ ClickDown \/ ClickUp
  \/ DragStart \/ DragDown \/ DragCheck \/ DragPost \/ DragNote \/ DragUp \/ DragLast
  \/ ScrollCheck \/ ScrollPost
  \/ KeyCheck \/ KeyDown \/ KeyUp

Tool == CallTool \/ ToolStep

-----------------------------------------------------------------------------
(* The overlay process, the user and the machine.                          *)

OverlayShows(s) ==
  /\ proc[s] = "starting"
  /\ proc' = [proc EXCEPT ![s] = "up"]
  /\ UNCHANGED <<active, releasedBy, expected, handle, closed, threadVars, moduleVars,
                 ownerVars, screenVars, historyVars>>

\* _exit_when_parent_goes: end of file on stdin ends the overlay.
OverlayExits(s) ==
  /\ proc[s] \in {"starting", "up"}
  /\ closed[s] \/ ~alive
  /\ proc' = [proc EXCEPT ![s] = "exited"]
  /\ UNCHANGED <<active, releasedBy, expected, handle, closed, threadVars, moduleVars,
                 ownerVars, screenVars, historyVars>>

\* run() returns 1 without AppKit or a screen, or the process dies: nobody in
\* the session looks at the overlay's exit status.
OverlayFails(s) ==
  /\ "overlay" \in Faults
  /\ proc[s] \in {"starting", "up"}
  /\ proc' = [proc EXCEPT ![s] = "exited"]
  /\ UNCHANGED <<active, releasedBy, expected, handle, closed, threadVars, moduleVars,
                 ownerVars, screenVars, historyVars>>

Crash ==
  /\ "crash" \in Faults /\ alive
  /\ alive' = FALSE
  /\ UNCHANGED <<sessionVars, threadVars, current, opened, pidFile, ownerVars,
                 screenVars, historyVars>>

UserMoves ==
  /\ "mouse" \in UserActs
  /\ pointer' \in Points \ {pointer}
  /\ userMoved' = [s \in Sessions |-> userMoved[s] \/ (active[s] /\ s = current)]
  /\ UNCHANGED <<sessionVars, threadVars, moduleVars, ownerVars, button, late,
                 unlit, refused, releases>>

\* `arc control release`: stop() in a process of its own, whose _current is
\* None, then a pkill of every overlay.
ShellRelease ==
  /\ "shell" \in UserActs
  /\ proc' = [s \in Sessions |-> IF proc[s] = "none" THEN "none" ELSE "exited"]
  /\ UNCHANGED <<active, releasedBy, expected, handle, closed, threadVars, moduleVars,
                 ownerVars, screenVars, historyVars>>

Environment ==
  \/ \E s \in Sessions : OverlayShows(s) \/ OverlayExits(s) \/ OverlayFails(s)
  \/ Crash \/ UserMoves \/ ShellRelease

Watcher(s) ==
  \/ WatchStops(s) \/ WatchExpected(s) \/ WatchPointer(s) \/ WatchReturns(s)

Next ==
  \/ Start \/ Register \/ StartOverlay \/ StartWatcher \/ Acquired
  \/ Stop \/ Stopped
  \/ \E t \in Threads : Release(t)
  \/ \E s \in Sessions : Watcher(s)
  \/ Tool
  \/ Environment

Spec == Init /\ [][Next]_vars

\* Threads are scheduled, so a call that has begun goes on, and the overlay is
\* another live process.  Nothing makes the owner start or stop a session or
\* call a tool, the overlay fail, or the user act.
Fairness ==
  /\ \A t \in Threads : WF_vars(Release(t))
  /\ \A s \in Sessions : WF_vars(Watcher(s)) /\ WF_vars(OverlayShows(s)) /\ WF_vars(OverlayExits(s))
  /\ WF_vars(Register) /\ WF_vars(StartOverlay) /\ WF_vars(StartWatcher)
  /\ WF_vars(Acquired)
  /\ WF_vars(Stopped) /\ WF_vars(ToolStep)

FairSpec == Spec /\ Fairness

-----------------------------------------------------------------------------
(* Properties.                                                             *)

\* However release() is interleaved with a running tool, at most two more
\* synthetic events of the session are delivered once control has been given
\* back: check() precedes every event or down/up pair in input.py.
LateEventsBounded == \A s \in Sessions : late[s] <= 2

\* Two sessions both hold control with an overlay of their own only after the
\* start() of one has raised: start() opens a session only after the previous
\* one has been released, but what acquire() took before it raised is kept.
OneLitHolder ==
  \A r, s \in Sessions \ refused :
    (active[r] /\ handle[r] /\ active[s] /\ handle[s]) => r = s

\* No finished session leaves a corpse for arc-kill to report
\* (test_releasing_control_deregisters): with the owner idle, no release under
\* way and nothing held, the PID file is gone, unless the last start() raised
\* in the middle of writing it.
NoCorpse ==
  (/\ pc = "idle" /\ \A s \in Sessions : ~active[s]
   /\ \A t \in Threads : rel[t] \in {"none", "raised"})
  => (~pidFile \/ opened \in refused)

\* Sessions that follow one another in a process do not get into each other's
\* way, a refused start(), a takeover and a release that raises included.
SessionsDoNotMix == OneLitHolder /\ NoCorpse

\* The watcher ends the session of a user who keeps the pointer away from where
\* ARC has put it, whatever clicks, keys and scrolling the owner goes on with.
\* (An owner that puts the pointer somewhere else again can hide the user's
\* hand from the watcher: see MouseEndsSession.)
DriftEndsSession ==
  \A s \in Sessions, p \in Points :
    ~<>[](/\ alive /\ active[s] /\ s = current
          /\ expected[s] = p /\ Abs(pointer, p) > Threshold)

\* The glow cannot get stuck on: when control has been given back, or the
\* process has been killed, the overlay of the session goes away.
GlowEnds ==
  \A s \in Sessions : (~alive \/ StopSet(s)) ~> (proc[s] \in {"none", "exited"})

(* Claims of the documentation that the code does not keep.                *)

\* "A process holding the mouse without one is a process the documented ways
\* of stopping it cannot see": while a session is current and active, the PID
\* file exists.
RegisteredWhileHolding ==
  (alive /\ current # 0 /\ active[current]) => pidFile

\* The glow "appears before the first synthetic event and disappears after the
\* last": no event is delivered while it is not on screen.
NoEventUnlit == \A s \in Sessions : ~unlit[s]

\* "Moving the mouse yourself ends the session immediately. So does Escape, so
\* does arc control release": a session whose glow the shell has killed ends.
ReleaseIsGranted ==
  \A s \in Sessions : (active[s] /\ proc[s] = "exited") ~> ~(alive /\ active[s])

\* A takeover is the user's: a session released by "user moved the mouse" is
\* one during which the user did move it.
NoSelfTakeover == \A s \in Sessions : releasedBy[s] = "user" => userMoved[s]

\* Moving the mouse yourself ends the session: a user who has moved the pointer
\* away and leaves it there gets control back.
MouseEndsSession ==
  \A s \in Sessions : userMoved[s] ~> (~alive \/ ~active[s])

\* release() is "safe to call repeatedly": one session is released once.
ReleasedOnce == \A s \in Sessions : releases[s] <= 1

\* drag(): "press at one point, move, and release at another": no button stays
\* down once the tool is over.
DragReleases == pc = "idle" => ~button

\* "the session is a context manager, so an exception, a crash, or a kill all
\* release control": no session is held that start() has not returned.
NothingHeldUnowned ==
  \A s \in Sessions : (pc = "idle" /\ active[s]) => s = current

\* "Refuse to take control you cannot signal": a session whose overlay could
\* not be launched does not hold control.
RefusalIsClean ==
  \A s \in Sessions : (pc = "idle" /\ active[s]) => handle[s]
=============================================================================
