------------------------ MODULE RelocationProperties ------------------------
(***************************************************************************)
(* What the relocation and the lookup of the Dock promise.                 *)
(***************************************************************************)
EXTENDS Relocation

MaybeDisplay == DisplaysOf(layout) \cup {NoDisplay}
Points == [x : Int, y : Int]

\* Every variable has a value of its type: the enumerations of relocation.rs
\* and dock.rs, and counters no loop of wait_for_dock_relocation exceeds.
TypeOK ==
  /\ layout \in Layouts /\ strip \in BOOLEAN
  /\ dock \in [id : WindowIds \cup {NoWindow}, pid : Pids \cup {NoProcess},
               display : MaybeDisplay, hidden : BOOLEAN]
  /\ program \in [Pids -> {"Dock", "other", "none"}]
  /\ \A window \in stranger : window.id \in WindowIds /\ window.pid \in Pids
  /\ overlays \subseteq DisplaysOf(layout)
  /\ dockWindowId \in WindowIds \cup {NoWindow}
  /\ lookup \in {"idle", "cached", "onscreen", "all", "ax", "done"}
  /\ answer \in MaybeDisplay /\ shown \subseteq MaybeDisplay
  /\ disturbances \in 0 .. MaxDisturbances[layout]
  /\ target \in DisplaysOf(layout) /\ locked \in {NoDisplay, target}
  /\ sideways \in BOOLEAN /\ source \in BOOLEAN
  /\ {cursor, oldPosition, edge} \subseteq Points
  /\ pc \in Steps /\ outcome \in Outcomes
  /\ count \in 0 .. Max({WalkSteps, NudgeAttempts, VerifyAttempts})
  /\ userMoved \in BOOLEAN /\ grabbed \in BOOLEAN

\* The lookup of display.c and dock.rs answers as if it had read everything
\* at one instant: the display it names showed the Dock's bar at some moment
\* of the lookup, and it names none only if at some moment there was no bar.
\* The window id remembered in g_dock_window_id, process ids and window ids
\* that changed hands, and a Dock that moved, hid or restarted between the
\* reads do not make it name another program's window or miss the Dock.
LookupIsLinearizable ==
  lookup = "done" => answer \in shown

\* relocate_display reports Relocated only for a Dock that was on the target
\* during the very probe it relies on, and the whole attempt counts as done
\* (also when the Dock is at a side and nothing was moved) only if the Dock
\* was on the target during the query made after the settle delay.
RelocatedMeansThere ==
  /\ pc \in {"check_restore", "restore"} /\ outcome = "relocated"
       => target \in shown
  /\ pc = "done" /\ outcome \in {"relocated", "sideways"} /\ answer = target
       => target \in shown

\* Once the user has taken the cursor away from where the relocation put it,
\* with a check of the cursor still to come, no step of the relocation moves
\* it again: not the rest of the walk, not a nudge, not the restore.
UserKeepsCursor ==
  [][grabbed /\ cursor' # cursor => disturbances' < disturbances]_vars

\* When the user leaves the mouse alone, the cursor is back where it was at
\* the end, whether the Dock followed or not, whether there is an event
\* source or only warps, and with the lock dropping events meanwhile.
CursorComesBack ==
  pc = "done" /\ ~userMoved => cursor = oldPosition

\* README.md, "Compatibility notes": the screens must have an area that does
\* not overlap. The columns of the target's bottom edge that no other display
\* continues, right below it or a point further, are that area.
FreeColumn(x) ==
  LET bounds == BoundsOf(layout, target)
  IN  /\ bounds.x <= x /\ x < Right(bounds)
      /\ \A i \in DOMAIN layout, y \in Bottom(bounds) .. Bottom(bounds) + 1 :
           ~RectContains(layout[i].bounds, [x |-> x, y |-> y])
HasFreeArea(width) ==
  \E x \in {layout[i].bounds.x : i \in DOMAIN layout}
             \cup {Right(layout[i].bounds) : i \in DOMAIN layout} :
    \A column \in x .. x + (width - 1) : FreeColumn(column)

\* On a target with such an area, four pixels wide, the cursor is pushed at a
\* column of its bottom edge where it cannot leave the display, and the lock
\* on the target drops none of the events that take it there.
TriggerIsSafe ==
  pc \in {"walk", "nudge"} /\ HasFreeArea(4) =>
    /\ FreeColumn(edge.x)
    /\ edge.y = Bottom(BoundsOf(layout, target)) - 1
    /\ \A step \in 0 .. WalkSteps :
         ~ShouldSuppress(layout, locked, WalkPoint(step))

\* README.md:148 says 'the screens must have an area that does not overlap (at
\* least 2 pixels)'. With those two pixels the cursor is to be pushed at one
\* that no other display continues. (Two points of the edge that a display
\* adjoins at its end count as free in relocation.rs:143, so that a gap of two
\* or three pixels may be taken for four or five, and its middle for free.)
TwoPixelsSuffice ==
  pc \in {"walk", "nudge"} /\ HasFreeArea(2) => FreeColumn(edge.x)
=============================================================================
