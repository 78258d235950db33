----------------------------- MODULE DockWindow -----------------------------
(***************************************************************************)
(* Where is the Dock? The windows macOS lists, the processes that own      *)
(* them, and the lookup of display.c and dock.rs that finds the Dock's bar *)
(* among them: the window id remembered from the last lookup first, then   *)
(* the windows on screen, then all windows, then the Accessibility API.    *)
(* Each is a read of its own, and the Dock may be moved, hidden, ended and *)
(* started again between two of them; its process id and its window id may *)
(* by then belong to another program.                                      *)
(*                                                                         *)
(* Assumed of macOS: the Dock owns at most one bar window, it slides off a *)
(* display (by its own height) only where no other display lies or begins, *)
(* displays do not overlap, and each is large enough to show the bar.      *)
(***************************************************************************)
EXTENDS EdgeGeometry

CONSTANTS
  Layouts,          \* the arrangements of displays
  Pids,             \* process ids
  WindowIds,        \* window ids
  NoWindow,         \* kCGNullWindowID
  NoProcess,        \* no process, an invalid process id
  BarHeight,        \* of the Dock's bar
  MaxDisturbances   \* bound: changes the environment makes, by layout

ASSUME LayoutsAssumption ==
  \A layout \in Layouts :
    /\ IsArrangement(layout) /\ Len(layout) > 0
    /\ \A i \in DOMAIN layout :
         /\ layout[i].bounds.width >= 4 * BarHeight
         /\ layout[i].bounds.height >= BarHeight
ASSUME SentinelAssumption ==
  /\ NoWindow \notin WindowIds
  /\ NoProcess \notin Pids
  /\ BarHeight \in 10 .. NearestDisplayMaxDistance
  /\ MaxDisturbances \in [Layouts -> Nat]

VARIABLES
  layout,        \* macOS: the displays and their bounds
  strip,         \* macOS: the bar is a strip, as on older versions
  dock,          \* macOS: the bar window, or NoBar while there is none
  program,       \* macOS: what each process id runs
  stranger,      \* macOS: another program's windows at the Dock's level
  overlays,      \* macOS: the displays a Mission Control shield covers
  dockWindowId,  \* g_dock_window_id
  lookup,        \* the next read of the lookup under way
  answer,        \* the display it found, NoDisplay for none
  shown,         \* history: where the bar was since the lookup began
  disturbances   \* bound: changes the environment still has

worldVars == <<layout, strip, dock, program, stranger, overlays>>
lookupVars == <<lookup, answer, dockWindowId>>
windowVars == <<worldVars, lookupVars, shown, disturbances>>

NoBar == [id |-> NoWindow, pid |-> NoProcess, display |-> NoDisplay,
          hidden |-> FALSE]

-----------------------------------------------------------------------------
(***************************************************************************)
(* The window list.                                                        *)
(***************************************************************************)
NormalLevel == 0
ShieldLevel == 1
DockLevel == 2      \* kCGDockWindowLevel

StripBelow(rect) ==
  [x |-> rect.x + rect.width \div 4, y |-> Bottom(rect),
   width |-> rect.width \div 2, height |-> BarHeight]

BarBounds ==
  LET display == BoundsOf(layout, dock.display)
      below == StripBelow(display)
  IN  IF ~strip THEN display
      ELSE IF dock.hidden THEN below ELSE [below EXCEPT !.y = @ - BarHeight]

Window(id, pid, level, bounds, onscreen, wallpaper) ==
  [id |-> id, pid |-> pid, level |-> level, bounds |-> bounds,
   onscreen |-> onscreen, wallpaper |-> wallpaper]

\* The Dock's windows: the bar, and a wallpaper larger than it.
DockWindows ==
  IF dock = NoBar THEN {}
  ELSE {Window(dock.id, dock.pid, DockLevel, BarBounds, ~dock.hidden, FALSE),
        Window("wallpaper", dock.pid, DockLevel, layout[1].bounds, TRUE, TRUE)}

Windows ==
  DockWindows \cup stranger
    \cup {Window("shield", NoProcess, ShieldLevel, BoundsOf(layout, d), TRUE,
                 FALSE) : d \in overlays}
    \cup {Window("app", NoProcess, NormalLevel, layout[i].bounds, TRUE, FALSE)
            : i \in DOMAIN layout}

\* The Dock is known by the path its process runs, looked up at each read.
OwnerIsDock(window) ==
  window.pid \in Pids /\ program[window.pid] = "Dock"

IsDockBar(window) ==
  /\ window.level = DockLevel
  /\ OwnerIsDock(window)
  /\ ~window.wallpaper
  /\ Area(window.bounds) > 0
  /\ window.id # NoWindow

\* Whether a shield covers the display: 0.9 is LOCKDOCK_DISPLAY_COVERING_RATIO.
DockOverlayActive(display) ==
  \E window \in Windows :
    /\ window.onscreen
    /\ NormalLevel < window.level /\ window.level < DockLevel
    /\ 10 * IntersectionArea(window.bounds, BoundsOf(layout, display))
         >= 9 * Area(BoundsOf(layout, display))

-----------------------------------------------------------------------------
(***************************************************************************)
(* The environment.                                                        *)
(***************************************************************************)
WindowInit ==
  /\ layout \in Layouts
  /\ strip \in BOOLEAN
  /\ \E pid \in Pids, id \in WindowIds, display \in DisplaysOf(layout) :
       /\ dock = [id |-> id, pid |-> pid, display |-> display,
                  hidden |-> FALSE]
       /\ program = [p \in Pids |-> IF p = pid THEN "Dock" ELSE "none"]
       /\ dockWindowId \in {NoWindow, id}
  /\ stranger = {} /\ overlays = {}
  /\ lookup = "idle" /\ answer = NoDisplay /\ shown = {}
  /\ disturbances = MaxDisturbances[layout]

\* What a change of the Dock is remembered as.
Shows(display) ==
  shown' = IF lookup = "idle" THEN shown ELSE shown \cup {display}

Disturb == disturbances > 0 /\ disturbances' = disturbances - 1

\* The Dock moves to another display, pushed there or by itself.
DockMoves ==
  /\ Disturb
  /\ dock # NoBar
  /\ \E display \in DisplaysOf(layout) \ {dock.display} :
       /\ dock' = [dock EXCEPT !.display = display, !.hidden = FALSE]
       /\ Shows(display)
  /\ UNCHANGED <<layout, strip, program, stranger, overlays, lookupVars>>

FreeBelow(display) ==
  LET below == [StripBelow(BoundsOf(layout, display)) EXCEPT !.height = @ + 1]
  IN  \A i \in DOMAIN layout : IntersectionArea(below, layout[i].bounds) = 0

\* An auto-hiding Dock slides off its display.
DockHides ==
  /\ Disturb
  /\ dock # NoBar /\ strip /\ ~dock.hidden /\ FreeBelow(dock.display)
  /\ dock' = [dock EXCEPT !.hidden = TRUE]
  /\ UNCHANGED <<layout, strip, program, stranger, overlays, lookupVars, shown>>

\* The Dock's process ends; its windows go with it.
DockQuits ==
  /\ Disturb
  /\ dock # NoBar
  /\ program' = [program EXCEPT ![dock.pid] = "none"]
  /\ dock' = NoBar
  /\ Shows(NoDisplay)
  /\ UNCHANGED <<layout, strip, stranger, overlays, lookupVars>>

\* launchd starts the Dock again, under any free process and window id.
DockStarts ==
  /\ dock = NoBar
  /\ \E pid \in {p \in Pids : program[p] = "none"},
        id \in WindowIds \ {window.id : window \in stranger},
        display \in DisplaysOf(layout) :
       /\ dock' = [id |-> id, pid |-> pid, display |-> display,
                   hidden |-> FALSE]
       /\ program' = [program EXCEPT ![pid] = "Dock"]
       /\ Shows(display)
  /\ UNCHANGED <<layout, strip, stranger, overlays, lookupVars, disturbances>>

\* Another program opens a window at the Dock's level, on any display.
StrangerOpens ==
  /\ Disturb
  /\ stranger = {}
  /\ \E pid \in {p \in Pids : program[p] = "none"},
        id \in WindowIds \ {dock.id}, i \in DOMAIN layout :
       /\ stranger' =
            {Window(id, pid, DockLevel, layout[i].bounds, TRUE, FALSE)}
       /\ program' = [program EXCEPT ![pid] = "other"]
  /\ UNCHANGED <<layout, strip, dock, overlays, lookupVars, shown>>

OverlayChanges ==
  /\ Disturb
  /\ overlays' = DisplaysOf(layout) \ overlays
  /\ UNCHANGED <<layout, strip, dock, program, stranger, lookupVars, shown>>

WindowEnvironment ==
  \/ DockMoves
  \/ DockHides
  \/ DockQuits
  \/ DockStarts
  \/ StrangerOpens
  \/ OverlayChanges

-----------------------------------------------------------------------------
(***************************************************************************)
(* The lookup, one read of the window list at a time.                      *)
(***************************************************************************)
StartLookup ==
  /\ lookup' = "cached" /\ answer' = NoDisplay
  /\ shown' = {dock.display}
  /\ UNCHANGED <<worldVars, dockWindowId, disturbances>>

\* Bounds were found. dock_window_display() answers with them whatever
\* display_for_rect() makes of them; capture_dock_display() goes on to the
\* Accessibility API when it makes nothing of them.
Found(bounds, accessibility) ==
  /\ answer' = DisplayForRect(layout, bounds)
  /\ lookup' = IF answer' = NoDisplay /\ accessibility THEN "ax" ELSE "done"

\* The window remembered from the last lookup, if it still is the bar.
BuggyReadCached(accessibility) ==
  /\ lookup = "cached"
  /\ IF dockWindowId \in {window.id : window \in Windows}
     THEN /\ \E window \in Windows : /\ window.id = dockWindowId
                                     /\ Found(window.bounds, accessibility)
          /\ UNCHANGED dockWindowId
     ELSE /\ dockWindowId' = NoWindow
          /\ lookup' = "onscreen"
          /\ UNCHANGED answer
  /\ UNCHANGED <<worldVars, shown, disturbances>>

ReadCached(accessibility) ==
  /\ lookup = "cached"
  /\ LET remembered == {window \in Windows : /\ window.id = dockWindowId
                                             /\ IsDockBar(window)}
     IN  IF remembered # {}
         THEN /\ \E window \in remembered : Found(window.bounds, accessibility)
              /\ UNCHANGED dockWindowId
         ELSE /\ dockWindowId' = NoWindow
              /\ lookup' = "onscreen"
              /\ UNCHANGED answer
  /\ UNCHANGED <<worldVars, shown, disturbances>>

\* The largest bar among the windows on screen, then among all windows.
Discover(accessibility) ==
  /\ lookup \in {"onscreen", "all"}
  /\ LET bars == {window \in Windows : /\ IsDockBar(window)
                                       /\ window.onscreen \/ lookup = "all"}
         largest == {window \in bars : \A other \in bars :
                       Area(other.bounds) <= Area(window.bounds)}
     IN  \/ \E window \in largest : /\ dockWindowId' = window.id
                                    /\ Found(window.bounds, accessibility)
         \/ /\ largest = {}
            /\ lookup' = CASE lookup = "onscreen" -> "all"
                           [] lookup = "all" /\ accessibility -> "ax"
                           [] OTHER -> "done"
            /\ UNCHANGED <<answer, dockWindowId>>
  /\ UNCHANGED <<worldVars, shown, disturbances>>

\* The Accessibility API names the bar too, when the process is trusted, the
\* Dock has a window to be found by, and the API answers.
ReadAccessibility ==
  /\ lookup = "ax"
  /\ lookup' = "done"
  /\ \/ /\ {window \in Windows : OwnerIsDock(window)} # {}
        /\ answer' = DisplayForRect(layout, BarBounds)
     \/ answer' = NoDisplay
  /\ UNCHANGED <<worldVars, dockWindowId, shown, disturbances>>

\* dock_window_display(), and dock_display() with the Accessibility API.
Lookup(accessibility) ==
  \/ ReadCached(accessibility)
  \/ Discover(accessibility)
  \/ ReadAccessibility
=============================================================================
