----------------------------- MODULE Relocation -----------------------------
(***************************************************************************)
(* relocate_display of relocation.rs, step by step, and the lookup of the  *)
(* Dock that relocate_display_until_current makes after it. The main       *)
(* thread takes the cursor to the bottom edge of the target display, walks *)
(* and nudges it there until the Dock is seen on the display, and puts it  *)
(* back. Meanwhile the user moves the mouse, the Dock moves, and the       *)
(* events posted pass through the daemon's own tap when it is locked.      *)
(*                                                                         *)
(* A step that posts or warps, the sleep after it, and the check of the    *)
(* cursor are apart: the user may move the cursor between any two.         *)
(***************************************************************************)
EXTENDS DockWindow

CONSTANTS
  UserPoints,     \* where the user may move the cursor to
  WalkSteps,      \* RELOCATION_EDGE_MOVE_STEPS
  NudgeAttempts,  \* RELOCATION_NUDGE_ATTEMPTS
  ProbeInterval,  \* RELOCATION_PROBE_INTERVAL
  VerifyAttempts  \* RELOCATION_VERIFY_ATTEMPTS

ASSUME RelocationAssumption ==
  /\ UserPoints \subseteq [x : Int, y : Int] /\ UserPoints # {}
  /\ WalkSteps \in Nat \ {0}
  /\ NudgeAttempts \in Nat \ {0} /\ ProbeInterval \in Nat \ {0}
  /\ VerifyAttempts \in Nat \ {0}

VARIABLES
  target,       \* the display the Dock is to be moved to
  locked,       \* LOCK_TARGET: the target when healing, else NoDisplay
  sideways,     \* macOS: the Dock is placed at a side
  source,       \* EventSource::new() gave a source
  cursor,       \* macOS: where the mouse is
  oldPosition,  \* where it was before the relocation
  edge,         \* the point of the target's edge it is pushed at
  pc,           \* the next step of the main thread
  count,        \* steps walked, nudges made or verifications made
  outcome,      \* RelocationOutcome, or why nothing was attempted
  userMoved,    \* history: the user moved the cursor
  grabbed       \* history: it was taken away with a check still to come

jobVars == <<target, locked, sideways, source>>
cursorVars == <<cursor, oldPosition, edge>>
userVars == <<userMoved, grabbed>>
threadVars == <<pc, count, outcome>>
vars == <<windowVars, jobVars, cursorVars, userVars, threadVars>>

Checks == {"check_approach", "check_walk", "check_nudge", "check_restore"}
Steps == Checks \cup {"begin", "approach", "walk", "nudge", "probe", "verify",
                      "restore", "settle", "done"}
Outcomes == {"none", "overlay", "sideways", "relocated", "interrupted",
             "timed_out"}

\* Each answer of the lookup is used in one step.
LookupUnderWay == lookup \notin {"idle", "done"}

Init ==
  /\ WindowInit
  /\ target \in DisplaysOf(layout) /\ locked \in {NoDisplay, target}
  /\ sideways \in BOOLEAN /\ source \in BOOLEAN
  /\ cursor \in UserPoints /\ oldPosition = cursor /\ edge = cursor
  /\ pc = "begin" /\ count = 0 /\ outcome = "none"
  /\ userMoved = FALSE /\ grabbed = FALSE

\* smooth_move: the point of a step on the way from the approach to the edge.
WalkPoint(step) ==
  LET approach == ApproachPoint(edge)
  IN  [x |-> edge.x,
       y |-> approach.y + ((edge.y - approach.y) * step) \div WalkSteps]

\* Where the relocation last put the cursor.
Expected ==
  CASE pc = "check_approach" -> ApproachPoint(edge)
    [] pc = "check_walk" -> WalkPoint(count)
    [] OTHER -> edge

\* The steps after which the cursor is checked before it is moved again.
CheckIsNext == pc \in Checks \cup {"verify"}

-----------------------------------------------------------------------------
\* The user moves the mouse, as far as the lock lets the event through.
UserMoves ==
  /\ pc # "done"
  /\ Disturb
  /\ \E point \in UserPoints \ {cursor} :
       /\ ~ShouldSuppress(layout, locked, point)
       /\ cursor' = point
       /\ grabbed' = (CheckIsNext /\ CursorTakenByUser(point, Expected))
  /\ userMoved' = TRUE
  /\ UNCHANGED <<worldVars, lookupVars, shown, jobVars, oldPosition, edge, threadVars>>

\* CGWarpMouseCursorPosition moves the cursor at once; a posted event moves
\* it unless the daemon's own tap drops the event.
Warp(point) == cursor' = point
Post(point) ==
  cursor' = IF ShouldSuppress(layout, locked, point) THEN cursor ELSE point

\* move_cursor: a warp, and an event of the same point right after it.
MoveCursor(point) == Warp(point)

Goto(step) == pc' = step /\ UNCHANGED <<count, outcome>>
Finish(result, step) == pc' = step /\ outcome' = result /\ count' = 0

-----------------------------------------------------------------------------
Begin ==
  /\ pc = "begin"
  /\ \/ /\ sideways
        /\ StartLookup
        /\ Finish("sideways", "settle")
        /\ UNCHANGED <<oldPosition, edge>>
     \/ /\ ~sideways /\ DockOverlayActive(target)
        /\ Finish("overlay", "done")
        /\ UNCHANGED <<windowVars, oldPosition, edge>>
     \/ /\ ~sideways /\ ~DockOverlayActive(target)
        /\ oldPosition' = cursor
        /\ edge' = EdgePoint(layout, target)
        /\ Goto("approach")
        /\ UNCHANGED windowVars
  /\ UNCHANGED <<jobVars, cursor, userVars>>

Approach ==
  /\ pc = "approach"
  /\ MoveCursor(ApproachPoint(edge))
  /\ Goto("check_approach")
  /\ UNCHANGED <<windowVars, jobVars, oldPosition, edge, userVars>>

\* cursor_taken_by_user, and what follows when it says no.
BuggyCheck(step, next) ==
  /\ pc = step
  /\ IF cursor.x - Expected.x \notin -UserMoveTolerance .. UserMoveTolerance
     THEN Finish("interrupted", "done")
     ELSE pc' = next /\ count' = 0 /\ UNCHANGED outcome
  /\ UNCHANGED <<windowVars, jobVars, cursorVars, userVars>>

Check(step, next) ==
  /\ pc = step
  /\ IF CursorTakenByUser(cursor, Expected)
     THEN Finish("interrupted", "done")
     ELSE pc' = next /\ count' = 0 /\ UNCHANGED outcome
  /\ UNCHANGED <<windowVars, jobVars, cursorVars, userVars>>

CheckApproach == Check("check_approach", "walk")

\* One step of smooth_move: posted, or warped to when there is no source.
Walk ==
  /\ pc = "walk"
  /\ IF source THEN Post(WalkPoint(count + 1)) ELSE Warp(WalkPoint(count + 1))
  /\ pc' = "check_walk" /\ count' = count + 1
  /\ UNCHANGED <<windowVars, jobVars, oldPosition, edge, userVars, outcome>>

CheckWalk ==
  \/ count = WalkSteps /\ Check("check_walk", "nudge")
  \/ /\ pc = "check_walk" /\ count < WalkSteps
     /\ IF CursorTakenByUser(cursor, Expected) THEN Finish("interrupted", "done")
                                               ELSE Goto("walk")
     /\ UNCHANGED <<windowVars, jobVars, cursorVars, userVars>>

\* post_edge_nudge: an event at the edge that asks to go one point further.
Nudge ==
  /\ pc = "nudge"
  /\ IF source THEN Post(edge) ELSE UNCHANGED cursor
  /\ pc' = "check_nudge" /\ count' = count + 1
  /\ UNCHANGED <<windowVars, jobVars, oldPosition, edge, userVars, outcome>>

\* The check of a nudge; every ProbeInterval-th is followed by a probe, and
\* the last is followed by the verification.
BuggyAfterNudge ==
  IF count > NudgeAttempts
  THEN pc' = "verify" /\ count' = 0 /\ UNCHANGED outcome
  ELSE Goto("nudge")

AfterNudge ==
  IF count = NudgeAttempts
  THEN pc' = "verify" /\ count' = 0 /\ UNCHANGED outcome
  ELSE Goto("nudge")

CheckNudge ==
  /\ pc = "check_nudge"
  /\ IF CursorTakenByUser(cursor, Expected)
     THEN Finish("interrupted", "done") /\ UNCHANGED windowVars
     ELSE IF count % ProbeInterval = 0
     THEN Goto("probe") /\ StartLookup
     ELSE AfterNudge /\ UNCHANGED windowVars
  /\ UNCHANGED <<jobVars, cursorVars, userVars>>

LookupStep ==
  /\ pc \in {"probe", "verify", "settle"} /\ LookupUnderWay
  /\ Lookup(pc = "settle")
  /\ UNCHANGED <<jobVars, cursorVars, userVars, threadVars>>

\* dock_probe_matches has its answer.
Probed ==
  /\ pc = "probe" /\ lookup = "done"
  /\ lookup' = "idle"
  /\ IF answer = target THEN Finish("relocated", "check_restore")
                        ELSE AfterNudge
  /\ UNCHANGED <<worldVars, answer, dockWindowId, shown, disturbances, jobVars,
                 cursorVars, userVars>>

VerifyStarts ==
  /\ pc = "verify" /\ lookup = "idle" /\ count < VerifyAttempts
  /\ StartLookup
  /\ UNCHANGED <<jobVars, cursorVars, userVars, threadVars>>

BuggyVerified ==
  /\ pc = "verify" /\ lookup = "done"
  /\ lookup' = "idle"
  /\ IF answer # NoDisplay THEN Finish("relocated", "check_restore")
     ELSE count' = count + 1 /\ UNCHANGED <<pc, outcome>>
  /\ UNCHANGED <<worldVars, answer, dockWindowId, shown, disturbances, jobVars,
                 cursorVars, userVars>>

Verified ==
  /\ pc = "verify" /\ lookup = "done"
  /\ lookup' = "idle"
  /\ IF answer = target THEN Finish("relocated", "check_restore")
     ELSE count' = count + 1 /\ UNCHANGED <<pc, outcome>>
  /\ UNCHANGED <<worldVars, answer, dockWindowId, shown, disturbances, jobVars,
                 cursorVars, userVars>>

BuggyTimeOut ==
  /\ pc = "verify" /\ lookup = "idle" /\ count = VerifyAttempts
  /\ Finish("timed_out", "done")
  /\ UNCHANGED <<windowVars, jobVars, cursorVars, userVars>>

TimeOut ==
  /\ pc = "verify" /\ lookup = "idle" /\ count = VerifyAttempts
  /\ Finish("timed_out", "check_restore")
  /\ UNCHANGED <<windowVars, jobVars, cursorVars, userVars>>

\* What relocate_display_until_current does after relocate_display returns:
\* the Dock is looked up once more after a relocation that returned Ok.
Return == IF outcome = "relocated" THEN pc' = "settle" /\ StartLookup
                                   ELSE pc' = "done" /\ UNCHANGED windowVars

\* restore_cursor leaves a cursor the user has taken where it is.
CheckRestore ==
  /\ pc = "check_restore"
  /\ IF CursorTakenByUser(cursor, edge)
     THEN Return
     ELSE pc' = "restore" /\ UNCHANGED windowVars
  /\ UNCHANGED <<jobVars, cursorVars, userVars, count, outcome>>

Restore ==
  /\ pc = "restore"
  /\ MoveCursor(oldPosition)
  /\ Return
  /\ UNCHANGED <<jobVars, oldPosition, edge, userVars, count, outcome>>

Settled ==
  /\ pc = "settle" /\ lookup = "done"
  /\ Goto("done")
  /\ UNCHANGED <<windowVars, jobVars, cursorVars, userVars>>

MainThread ==
  \/ Begin
  \/ Approach
  \/ CheckApproach
  \/ Walk
  \/ CheckWalk
  \/ Nudge
  \/ CheckNudge
  \/ LookupStep
  \/ Probed
  \/ VerifyStarts
  \/ Verified
  \/ TimeOut
  \/ CheckRestore
  \/ Restore
  \/ Settled

Environment ==
  /\ pc # "done"
  /\ WindowEnvironment
  /\ UNCHANGED <<jobVars, cursorVars, userVars, threadVars>>

Next ==
  \/ MainThread
  \/ UserMoves
  \/ Environment

Spec == Init /\ [][Next]_vars
=============================================================================
