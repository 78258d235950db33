-------------------------- MODULE RelocationProofs --------------------------
(***************************************************************************)
(* The relocation and the lookup of the Dock, proved for every arrangement *)
(* of displays, every place the user may move the cursor to, any numbers   *)
(* of steps and attempts, and any number of things that happen meanwhile.  *)
(***************************************************************************)
EXTENDS RelocationProperties, EdgeGeometryProofs

-----------------------------------------------------------------------------
(***************************************************************************)
(* The inductive invariant.                                                *)
(***************************************************************************)

\* At most one process is the Dock's, the one that owns the bar, and another
\* program's windows belong to a process that is not the Dock's.
OwnersInv ==
  /\ dock # NoBar => /\ dock.id \in WindowIds /\ dock.pid \in Pids
                     /\ dock.display \in DisplaysOf(layout)
  /\ \A pid \in Pids : program[pid] = "Dock" <=> (dock # NoBar /\ dock.pid = pid)
  /\ \A window \in stranger : program[window.pid] = "other"

\* The bar hides only where there is room for it.
HiddenInv == dock.hidden => strip /\ FreeBelow(dock.display)

\* What a lookup knows: every place of the bar since it began is in shown; it
\* has no answer before it ends; and it asks the Accessibility API only after
\* it saw no bar.
LookupInv ==
  /\ lookup # "idle" => dock.display \in shown
  /\ lookup \in {"cached", "onscreen", "all", "ax"} => answer = NoDisplay
  /\ lookup = "ax" => NoDisplay \in shown
  /\ lookup = "done" => answer \in shown

\* The counter at each step of the main thread.
CountInv ==
  /\ pc = "walk" => count < WalkSteps
  /\ pc = "check_walk" => 0 < count /\ count <= WalkSteps
  /\ pc = "nudge" => count < NudgeAttempts
  /\ pc \in {"check_nudge", "probe"} => count <= NudgeAttempts
  /\ pc = "verify" => count <= VerifyAttempts
  /\ pc = "verify" /\ lookup # "idle" => count < VerifyAttempts
  /\ pc \notin {"walk", "check_walk", "nudge", "check_nudge", "probe", "verify"}
       => count = 0

\* The cursor is pushed at the point that was chosen when the job began.
EdgeInv ==
  pc \notin {"begin", "settle", "done"} => edge = EdgePoint(layout, target)

\* Where the cursor is while the user leaves the mouse alone: never so far
\* from where the relocation put it that it is taken for the user's.
NearEdge == /\ cursor.x = edge.x
            /\ edge.y - (ApproachOffset - 1) <= cursor.y /\ cursor.y <= edge.y
UntouchedInv ==
  ~userMoved =>
    /\ pc \in {"begin", "settle", "done"} => cursor = oldPosition
    /\ pc \notin {"begin", "approach", "settle", "done"} => NearEdge

\* A cursor the user has taken is noticed at the next check, or the relocation
\* is over.
GrabbedInv ==
  grabbed => \/ pc \in {"settle", "done"}
             \/ CheckIsNext /\ CursorTakenByUser(cursor, Expected)

\* A relocation that ended well has seen the Dock on the target.
OutcomeInv ==
  /\ pc \in {"check_restore", "restore"} => outcome \in {"relocated", "timed_out"}
  /\ RelocatedMeansThere

\* The types of macOS's side and of the lookup, and those of the job.
WindowTypes ==
  /\ layout \in Layouts /\ strip \in BOOLEAN
  /\ dock \in [id : WindowIds \cup {NoWindow}, pid : Pids \cup {NoProcess},
               display : MaybeDisplay, hidden : BOOLEAN]
  /\ program \in [Pids -> {"Dock", "other", "none"}]
  /\ \A window \in stranger : window.id \in WindowIds /\ window.pid \in Pids
  /\ overlays \subseteq DisplaysOf(layout)
  /\ dockWindowId \in WindowIds \cup {NoWindow}
  /\ lookup \in {"idle", "cached", "onscreen", "all", "ax", "done"}
  /\ answer \in MaybeDisplay /\ shown \subseteq MaybeDisplay
  /\ disturbances \in 0 .. MaxDisturbances[layout]
JobTypes ==
  /\ target \in DisplaysOf(layout) /\ locked \in {NoDisplay, target}
  /\ sideways \in BOOLEAN /\ source \in BOOLEAN
  /\ cursor \in Points /\ oldPosition \in Points /\ edge \in Points
  /\ pc \in Steps /\ outcome \in Outcomes
  /\ count \in 0 .. Max({WalkSteps, NudgeAttempts, VerifyAttempts})
  /\ userMoved \in BOOLEAN /\ grabbed \in BOOLEAN

WindowInv == WindowTypes /\ OwnersInv /\ HiddenInv /\ LookupInv
ThreadInv == /\ JobTypes /\ CountInv /\ EdgeInv
             /\ UntouchedInv /\ GrabbedInv /\ OutcomeInv
RelocationInv == WindowInv /\ ThreadInv

\* The two parts are the whole type invariant.
LEMMA TypesInParts == TypeOK <=> WindowTypes /\ JobTypes
BY DEF TypeOK, WindowTypes, JobTypes

-----------------------------------------------------------------------------
\* What the assumptions say of an arrangement.
LEMMA LayoutFacts ==
  ASSUME NEW list \in Layouts
  PROVE  /\ IsArrangement(list) /\ IsRoomy(list)
         /\ \A i \in DOMAIN list : /\ list[i].bounds.width >= 4 * BarHeight
                                    /\ list[i].bounds.height >= BarHeight
         /\ 1 \in DOMAIN list
         /\ NoDisplay \notin DisplaysOf(list)
         /\ MaxDisturbances[list] \in Nat
<1>1. /\ IsArrangement(list) /\ Len(list) > 0
      /\ \A i \in DOMAIN list : /\ list[i].bounds.width >= 4 * BarHeight
                                 /\ list[i].bounds.height >= BarHeight
  BY LayoutsAssumption
<1>2. BarHeight \in Nat /\ BarHeight >= 10
  BY SentinelAssumption DEF NearestDisplayMaxDistance
<1>3. IsRoomy(list)
  <2>1. ASSUME NEW i \in DOMAIN list
        PROVE  list[i].bounds.width >= 40 /\ list[i].bounds.height >= 10
    <3>1. list[i].bounds.width \in Nat /\ list[i].bounds.height \in Nat
      BY <1>1, ArrangementTypes DEF Rects
    <3>2. list[i].bounds.width >= 4 * BarHeight /\ list[i].bounds.height >= BarHeight
      BY <1>1
    <3>3. QED
      BY <1>2, <3>1, <3>2
  <2>2. QED
    BY <2>1 DEF IsRoomy
<1>4. 1 \in DOMAIN list
  <2> DEFINE S == [display : Displays, bounds : Rects]
  <2>1. list \in Seq(S)
    BY <1>1 DEF IsArrangement
  <2> HIDE DEF S
  <2>2. Len(list) \in Nat /\ DOMAIN list = 1 .. Len(list)
    BY <2>1, LenProperties
  <2>3. QED
    BY <1>1, <2>2
<1>5. NoDisplay \notin DisplaysOf(list)
  <2>1. \A i \in DOMAIN list : list[i].display \in Displays
    BY <1>1, ArrangementTypes
  <2>2. QED
    BY <2>1, DisplaysAssumption DEF DisplaysOf
<1>6. QED
  BY <1>1, <1>3, <1>4, <1>5, SentinelAssumption

-----------------------------------------------------------------------------
\* Wherever the Dock's bar is, also when it has slid off, its bounds are
\* attributed to the display it is on.
LEMMA BarIsOnItsDisplay ==
  ASSUME WindowInv, dock # NoBar
  PROVE  /\ Area(BarBounds) \in Nat /\ Area(BarBounds) > 0
         /\ DisplayForRect(layout, BarBounds) = dock.display
<1>1. /\ layout \in Layouts /\ dock.display \in DisplaysOf(layout)
      /\ strip \in BOOLEAN /\ dock.hidden \in BOOLEAN
      /\ dock.hidden => strip /\ FreeBelow(dock.display)
  BY DEF WindowInv, WindowTypes, OwnersInv, HiddenInv
<1>2. IsArrangement(layout)
  BY <1>1, LayoutFacts
<1>3. PICK i \in DOMAIN layout : layout[i].display = dock.display
  BY <1>1 DEF DisplaysOf
<1> DEFINE own == layout[i].bounds
<1>4. BoundsOf(layout, dock.display) = own
  BY <1>2, <1>3, BoundsAreListed
<1>5. own \in Rects
  BY <1>2, <1>3, ArrangementTypes
<1>6. \A j \in DOMAIN layout : /\ layout[j].bounds.width >= 4 * BarHeight
                               /\ layout[j].bounds.height >= BarHeight
  BY <1>1, LayoutFacts
<1>7. own.width >= 4 * BarHeight /\ own.height >= BarHeight
  BY <1>3, <1>6
<1>8. BarHeight \in Nat /\ BarHeight >= 10 /\ BarHeight \in 10 .. NearestDisplayMaxDistance
  BY SentinelAssumption DEF NearestDisplayMaxDistance
<1> HIDE DEF own
<1>9. own.x \in Int /\ own.y \in Int /\ own.width \in Nat /\ own.height \in Nat
  BY <1>5 DEF Rects
<1>10. CASE ~strip
  <2>1. BarBounds = own
    BY <1>4, <1>10 DEF BarBounds
  <2>2. own.width > 0 /\ own.height > 0
    BY <1>7, <1>8, <1>9
  <2>3. Area(own) \in Nat /\ Area(own) > 0
    BY <1>9, <2>2, ProductPositive DEF Area
  <2>4. own.x <= own.x /\ Right(own) <= Right(own) /\ own.y <= own.y /\ Bottom(own) <= Bottom(own)
    BY <1>9 DEF Right, Bottom
  <2>5. DisplayForRect(layout, own) = layout[i].display
    BY <1>2, <1>3, <1>5, <2>2, <2>4, WindowOnDisplay DEF own
  <2>6. QED
    BY <1>3, <2>1, <2>3, <2>5
<1>11. ASSUME strip
       PROVE  /\ StripBelow(own) \in Rects
              /\ StripBelow(own).width > 0 /\ StripBelow(own).height = BarHeight
              /\ StripBelow(own).x >= own.x /\ Right(StripBelow(own)) <= Right(own)
              /\ StripBelow(own).y = Bottom(own)
  BY <1>7, <1>8, <1>9 DEF StripBelow, Rects, Right, Bottom
<1>12. CASE strip /\ ~dock.hidden
  <2> DEFINE bar == [StripBelow(own) EXCEPT !.y = @ - BarHeight]
  <2>1. BarBounds = bar
    BY <1>4, <1>12 DEF BarBounds
  <2>2. StripBelow(own) = [x |-> own.x + own.width \div 4, y |-> Bottom(own),
                           width |-> own.width \div 2, height |-> BarHeight]
    BY DEF StripBelow
  <2>3. /\ bar \in Rects /\ bar.width > 0 /\ bar.height > 0
        /\ own.x <= bar.x /\ Right(bar) <= Right(own)
        /\ own.y <= bar.y /\ Bottom(bar) <= Bottom(own)
    BY <1>7, <1>8, <1>9, <2>2 DEF Rects, Right, Bottom
  <2>4. Area(bar) \in Nat /\ Area(bar) > 0
    BY <2>3, ProductPositive DEF Area, Rects
  <2> HIDE DEF bar
  <2>5. DisplayForRect(layout, bar) = layout[i].display
    BY <1>2, <1>3, <2>3, WindowOnDisplay DEF own
  <2>6. QED
    BY <1>3, <2>1, <2>4, <2>5
<1>13. CASE strip /\ dock.hidden
  <2> DEFINE bar == StripBelow(own)
  <2>1. BarBounds = bar
    BY <1>4, <1>13 DEF BarBounds
  <2>2. bar \in Rects /\ bar.width > 0 /\ bar.height > 0
    BY <1>8, <1>11, <1>13
  <2>3. Area(bar) \in Nat /\ Area(bar) > 0
    BY <2>2, ProductPositive DEF Area, Rects
  <2>4. bar = [x |-> own.x + own.width \div 4, y |-> Bottom(own),
               width |-> own.width \div 2, height |-> BarHeight]
    BY DEF StripBelow
  <2>5. \A j \in DOMAIN layout :
          IntersectionArea([bar EXCEPT !.height = @ + 1], layout[j].bounds) = 0
    BY <1>1, <1>4, <1>13 DEF FreeBelow
  <2> HIDE DEF bar
  <2>6. DisplayForRect(layout, bar) = layout[i].display
    BY <1>2, <1>3, <1>6, <1>8, <2>2, <2>4, <2>5, StripBelowDisplay DEF own
  <2>7. QED
    BY <1>3, <2>1, <2>3, <2>6
<1>14. QED
  BY <1>10, <1>12, <1>13

\* The window list holds the Dock's bar while there is one, and nothing else
\* passes for it.
LEMMA BarInWindows ==
  ASSUME WindowInv
  PROVE  /\ dock # NoBar => /\ dock.id # NoWindow
                            /\ \E window \in Windows :
                                 IsDockBar(window) /\ window.onscreen = ~dock.hidden
         /\ \A window \in Windows : IsDockBar(window) =>
              dock # NoBar /\ window.id = dock.id /\ window.bounds = BarBounds
<1>1. /\ dock # NoBar => dock.id \in WindowIds /\ dock.pid \in Pids
      /\ \A pid \in Pids : program[pid] = "Dock" <=> (dock # NoBar /\ dock.pid = pid)
      /\ \A window \in stranger : window.pid \in Pids /\ program[window.pid] = "other"
      /\ NoWindow \notin WindowIds /\ NoProcess \notin Pids
  BY SentinelAssumption DEF WindowInv, WindowTypes, OwnersInv
<1> DEFINE bar == Window(dock.id, dock.pid, DockLevel, BarBounds, ~dock.hidden, FALSE)
<1>2. ASSUME dock # NoBar
      PROVE  /\ dock.id # NoWindow
             /\ \E window \in Windows :
                  IsDockBar(window) /\ window.onscreen = ~dock.hidden
  <2>1. bar \in Windows
    BY <1>2 DEF Windows, DockWindows
  <2>2. Area(BarBounds) > 0
    BY <1>2, BarIsOnItsDisplay
  <2>3. /\ bar.id = dock.id /\ bar.pid = dock.pid /\ bar.level = DockLevel
        /\ bar.bounds = BarBounds /\ bar.onscreen = ~dock.hidden /\ bar.wallpaper = FALSE
    BY DEF Window
  <2> HIDE DEF bar
  <2>4. IsDockBar(bar)
    BY <1>1, <1>2, <2>2, <2>3 DEF IsDockBar, OwnerIsDock
  <2>5. QED
    BY <1>1, <1>2, <2>1, <2>3, <2>4
<1>3. ASSUME NEW window \in Windows, IsDockBar(window)
      PROVE  dock # NoBar /\ window.id = dock.id /\ window.bounds = BarBounds
  <2>1. window.pid \in Pids /\ program[window.pid] = "Dock" /\ ~window.wallpaper
    BY <1>3 DEF IsDockBar, OwnerIsDock
  <2>2. CASE window \in DockWindows
    <3>1. dock # NoBar
      BY <2>2 DEF DockWindows
    <3>2. window = bar
      BY <2>1, <2>2, <3>1 DEF DockWindows, Window
    <3>3. QED
      BY <3>1, <3>2 DEF Window
  <2>3. CASE window \in stranger
    BY <1>1, <2>1, <2>3
  <2>4. CASE window \notin DockWindows \cup stranger
    <3>1. window.pid = NoProcess
      BY <2>4, <1>3 DEF Windows, Window
    <3>2. QED
      BY <1>1, <2>1, <3>1
  <2>5. QED
    BY <2>2, <2>3, <2>4
<1>4. QED
  BY <1>2, <1>3

-----------------------------------------------------------------------------
(***************************************************************************)
(* What each kind of step does to macOS's side and to the lookup.          *)
(***************************************************************************)

\* The invariant of the windows is about windowVars alone.
LEMMA WindowStutter ==
  ASSUME WindowInv, UNCHANGED windowVars
  PROVE  WindowInv'
BY DEF WindowInv, WindowTypes, OwnersInv, HiddenInv, LookupInv, windowVars, worldVars,
       lookupVars, MaybeDisplay, FreeBelow

\* The user's move is one thing that happens, and no more.
LEMMA WindowDisturbed ==
  ASSUME WindowInv, Disturb, UNCHANGED <<worldVars, lookupVars, shown>>
  PROVE  WindowInv'
<1>1. layout \in Layouts /\ disturbances \in 0 .. MaxDisturbances[layout] /\ layout' = layout
  BY DEF WindowInv, WindowTypes, worldVars
<1>2. MaxDisturbances[layout] \in Nat
  BY <1>1, LayoutFacts
<1>3. disturbances' \in 0 .. MaxDisturbances[layout]
  BY <1>1, <1>2 DEF Disturb
<1>4. WindowTypes'
  BY <1>1, <1>3 DEF WindowInv, WindowTypes, worldVars, lookupVars, MaybeDisplay
<1>5. OwnersInv' /\ HiddenInv' /\ LookupInv'
  BY DEF WindowInv, OwnersInv, HiddenInv, LookupInv, worldVars, lookupVars, FreeBelow
<1>6. QED
  BY <1>4, <1>5 DEF WindowInv

\* A lookup begins with what is shown at that moment.
LEMMA LookupStarts ==
  ASSUME WindowInv, StartLookup
  PROVE  WindowInv' /\ layout' = layout /\ disturbances' = disturbances
<1>1. /\ UNCHANGED worldVars /\ dockWindowId' = dockWindowId /\ disturbances' = disturbances
      /\ lookup' = "cached" /\ answer' = NoDisplay /\ shown' = {dock.display}
  BY DEF StartLookup
<1>2. dock.display \in MaybeDisplay
  BY DEF WindowInv, WindowTypes
<1>3. WindowTypes'
  BY <1>1, <1>2 DEF WindowInv, WindowTypes, worldVars, MaybeDisplay
<1>4. OwnersInv' /\ HiddenInv'
  BY <1>1 DEF WindowInv, OwnersInv, HiddenInv, worldVars, FreeBelow
<1>5. LookupInv'
  BY <1>1 DEF LookupInv, worldVars
<1>6. QED
  BY <1>1, <1>3, <1>4, <1>5 DEF WindowInv, worldVars

\* An answer taken leaves the lookup idle.
LEMMA LookupEnds ==
  ASSUME WindowInv, lookup' = "idle",
         UNCHANGED <<worldVars, answer, dockWindowId, shown, disturbances>>
  PROVE  WindowInv'
BY DEF WindowInv, WindowTypes, OwnersInv, HiddenInv, LookupInv, worldVars, MaybeDisplay, FreeBelow

\* Each read of the window list keeps the invariant: it finds the bar where
\* it is at that moment, or finds none when there is none.
LEMMA LookupReads ==
  ASSUME WindowInv, NEW accessibility \in BOOLEAN, Lookup(accessibility)
  PROVE  /\ WindowInv'
         /\ UNCHANGED <<worldVars, shown, disturbances>>
         /\ lookup \in {"cached", "onscreen", "all", "ax"} /\ lookup' # "idle"
<1>1. /\ UNCHANGED <<worldVars, shown, disturbances>>
      /\ lookup \in {"cached", "onscreen", "all", "ax"}
  BY DEF Lookup, ReadCached, Discover, ReadAccessibility
<1>2. dock.display \in shown /\ answer = NoDisplay /\ (lookup = "ax" => NoDisplay \in shown)
  BY <1>1 DEF WindowInv, LookupInv
<1>3. dock = NoBar => dock.display = NoDisplay
  BY DEF NoBar
<1>4. /\ layout \in Layouts /\ shown \subseteq MaybeDisplay
      /\ dock # NoBar => dock.id \in WindowIds /\ dock.display \in DisplaysOf(layout)
      /\ dockWindowId \in WindowIds \cup {NoWindow}
      /\ NoDisplay \notin DisplaysOf(layout)
  BY LayoutFacts DEF WindowInv, WindowTypes, OwnersInv
<1>5. ASSUME dock # NoBar, NEW bounds, bounds = BarBounds, Found(bounds, accessibility)
      PROVE  lookup' = "done" /\ answer' \in shown
  <2>1. answer' = dock.display
    BY <1>5, BarIsOnItsDisplay DEF Found
  <2>2. answer' # NoDisplay
    BY <1>4, <1>5, <2>1
  <2>3. QED
    BY <1>2, <1>5, <2>1, <2>2 DEF Found
<1>6. \/ /\ lookup' = "done" /\ answer' \in shown
      \/ /\ lookup' \in {"onscreen", "all"} /\ answer' = NoDisplay
      \/ /\ lookup' = "ax" /\ answer' = NoDisplay /\ NoDisplay \in shown
  <2>1. CASE ReadCached(accessibility)
    <3> DEFINE remembered == {window \in Windows : window.id = dockWindowId /\ IsDockBar(window)}
    <3>1. CASE remembered = {}
      <4>1. lookup' = "onscreen" /\ answer' = answer
        BY <2>1, <3>1 DEF ReadCached
      <4>2. QED
        BY <1>2, <4>1
    <3>2. CASE remembered # {}
      <4>1. PICK window \in remembered : Found(window.bounds, accessibility)
        BY <2>1, <3>2 DEF ReadCached
      <4>2. dock # NoBar /\ window.bounds = BarBounds
        BY <4>1, BarInWindows
      <4>3. QED
        BY <1>5, <4>1, <4>2
    <3>3. QED
      BY <3>1, <3>2
  <2>2. CASE Discover(accessibility)
    <3> DEFINE bars == {window \in Windows : /\ IsDockBar(window)
                                             /\ window.onscreen \/ lookup = "all"}
               largest == {window \in bars : \A other \in bars :
                             Area(other.bounds) <= Area(window.bounds)}
    <3>1. CASE \E window \in largest : Found(window.bounds, accessibility)
      <4>1. PICK window \in largest : Found(window.bounds, accessibility)
        BY <3>1
      <4>2. dock # NoBar /\ window.bounds = BarBounds
        BY <4>1, BarInWindows
      <4>3. QED
        BY <1>5, <4>1, <4>2
    <3>2. CASE largest = {} /\ answer' = answer
               /\ lookup' = CASE lookup = "onscreen" -> "all"
                              [] lookup = "all" /\ accessibility -> "ax"
                              [] OTHER -> "done"
      <4>1. CASE lookup = "onscreen"
        BY <1>2, <3>2, <4>1
      <4>2. CASE lookup = "all"
        <5>1. dock = NoBar
          <6>1. SUFFICES ASSUME dock # NoBar PROVE FALSE
            OBVIOUS
          <6>2. PICK window \in Windows : IsDockBar(window)
            BY <6>1, BarInWindows
          <6>3. window \in bars
            BY <4>2, <6>2
          <6>4. \A other \in bars : other.bounds = BarBounds
            BY BarInWindows
          <6>5. Area(BarBounds) <= Area(BarBounds)
            BY <6>1, BarIsOnItsDisplay
          <6>6. window \in largest
            BY <6>3, <6>4, <6>5
          <6>7. QED
            BY <3>2, <6>6
        <5>2. NoDisplay \in shown
          BY <1>2, <1>3, <5>1
        <5>3. lookup' = "ax" \/ lookup' = "done"
          BY <3>2, <4>2
        <5>4. QED
          BY <1>2, <3>2, <5>2, <5>3
      <4>3. QED
        BY <2>2, <4>1, <4>2 DEF Discover
    <3>3. QED
      BY <2>2, <3>1, <3>2 DEF Discover
  <2>3. CASE ReadAccessibility
    <3>1. lookup = "ax" /\ lookup' = "done"
      BY <2>3 DEF ReadAccessibility
    <3>2. CASE answer' = NoDisplay
      BY <1>2, <3>1, <3>2
    <3>3. CASE /\ {window \in Windows : OwnerIsDock(window)} # {}
               /\ answer' = DisplayForRect(layout, BarBounds)
      <4>1. PICK window \in Windows : window.pid \in Pids /\ program[window.pid] = "Dock"
        BY <3>3 DEF OwnerIsDock
      <4>2. dock # NoBar
        BY <4>1 DEF WindowInv, OwnersInv
      <4>3. answer' = dock.display
        BY <3>3, <4>2, BarIsOnItsDisplay
      <4>4. QED
        BY <1>2, <3>1, <4>3
    <3>4. QED
      BY <2>3, <3>2, <3>3 DEF ReadAccessibility
  <2>4. QED
    BY <2>1, <2>2, <2>3 DEF Lookup
<1>7. dockWindowId' \in WindowIds \cup {NoWindow}
  <2>1. CASE dockWindowId' = dockWindowId \/ dockWindowId' = NoWindow
    BY <1>4, <2>1
  <2>2. CASE \E window \in Windows : IsDockBar(window) /\ dockWindowId' = window.id
    BY <1>4, <2>2, BarInWindows
  <2>3. QED
    BY <2>1, <2>2 DEF Lookup, ReadCached, Discover, ReadAccessibility
<1>8. layout' = layout /\ dock' = dock /\ shown' = shown
  BY <1>1 DEF worldVars
<1>9. WindowTypes'
  <2>1. answer' \in MaybeDisplay /\ lookup' \in {"idle", "cached", "onscreen", "all", "ax", "done"}
    BY <1>4, <1>6 DEF MaybeDisplay
  <2>2. QED
    BY <1>1, <1>7, <1>8, <2>1 DEF WindowInv, WindowTypes, worldVars, MaybeDisplay
<1>10. OwnersInv' /\ HiddenInv'
  BY <1>1 DEF WindowInv, OwnersInv, HiddenInv, worldVars, FreeBelow
<1>11. LookupInv'
  BY <1>2, <1>6, <1>8 DEF LookupInv
<1>12. QED
  BY <1>1, <1>6, <1>9, <1>10, <1>11 DEF WindowInv

\* What happens to the windows meanwhile keeps the invariant: ids and process
\* ids that change hands stay apart, and no place of the bar is missed.
LEMMA EnvironmentKeeps ==
  ASSUME WindowInv, WindowEnvironment
  PROVE  /\ WindowInv'
         /\ layout' = layout /\ lookup' = lookup /\ answer' = answer
         /\ shown \subseteq shown'
<1> USE DEF WindowInv
<1>1. /\ layout' = layout /\ strip' = strip
      /\ lookup' = lookup /\ answer' = answer /\ dockWindowId' = dockWindowId
  BY DEF WindowEnvironment, DockMoves, DockHides, DockQuits, DockStarts, StrangerOpens,
         OverlayChanges, lookupVars
<1>2. disturbances' \in 0 .. MaxDisturbances[layout]
  <2>1. /\ layout \in Layouts /\ disturbances \in 0 .. MaxDisturbances[layout]
    BY DEF WindowTypes
  <2>2. MaxDisturbances[layout] \in Nat
    BY <2>1, LayoutFacts
  <2>3. Disturb \/ disturbances' = disturbances
    BY DEF WindowEnvironment, DockMoves, DockHides, DockQuits, DockStarts, StrangerOpens,
           OverlayChanges
  <2>4. QED
    BY <2>1, <2>2, <2>3 DEF Disturb
<1>3. /\ dock \in [id : WindowIds \cup {NoWindow}, pid : Pids \cup {NoProcess},
                   display : MaybeDisplay, hidden : BOOLEAN]
      /\ program \in [Pids -> {"Dock", "other", "none"}]
      /\ \A window \in stranger : window.id \in WindowIds /\ window.pid \in Pids
      /\ overlays \subseteq DisplaysOf(layout)
      /\ shown \subseteq MaybeDisplay
  BY DEF WindowTypes
<1>4. NoWindow \notin WindowIds
  BY SentinelAssumption
<1> DEFINE DockTyped == dock' \in [id : WindowIds \cup {NoWindow}, pid : Pids \cup {NoProcess},
                                  display : MaybeDisplay, hidden : BOOLEAN]
           OthersTyped == /\ program' \in [Pids -> {"Dock", "other", "none"}]
                          /\ \A window \in stranger' : window.id \in WindowIds /\ window.pid \in Pids
                          /\ overlays' \subseteq DisplaysOf(layout)
           ShownKept == /\ shown \subseteq shown' /\ shown' \subseteq MaybeDisplay
                        /\ lookup # "idle" => dock'.display \in shown'
           Kept == DockTyped /\ OthersTyped /\ ShownKept /\ OwnersInv' /\ HiddenInv'
<1>5. ASSUME NEW display \in MaybeDisplay, Shows(display), dock'.display = display
      PROVE  ShownKept
  BY <1>3, <1>5 DEF Shows
<1>6. ASSUME shown' = shown, dock'.display = dock.display
      PROVE  ShownKept
  BY <1>3, <1>6 DEF LookupInv
<1>7. ASSUME DockMoves PROVE Kept
  <2>1. PICK display \in DisplaysOf(layout) \ {dock.display} :
          /\ dock' = [dock EXCEPT !.display = display, !.hidden = FALSE]
          /\ Shows(display)
    BY <1>7 DEF DockMoves
  <2>2. /\ dock # NoBar /\ program' = program /\ stranger' = stranger /\ overlays' = overlays
    BY <1>7 DEF DockMoves
  <2>3. dock.id \in WindowIds /\ dock.pid \in Pids
    BY <2>2 DEF OwnersInv
  <2>4. /\ dock'.id = dock.id /\ dock'.pid = dock.pid /\ dock'.display = display
        /\ dock'.hidden = FALSE /\ display \in MaybeDisplay
    BY <1>3, <2>1 DEF MaybeDisplay
  <2>5. DockTyped
    BY <1>3, <2>1, <2>4
  <2>6. dock' # NoBar
    BY <1>4, <2>3, <2>4 DEF NoBar
  <2>7. OwnersInv' /\ HiddenInv'
    BY <1>1, <2>1, <2>2, <2>3, <2>4, <2>6 DEF OwnersInv, HiddenInv, NoBar
  <2>8. OthersTyped
    BY <1>3, <2>2
  <2>9. ShownKept
    BY <1>5, <2>1, <2>4
  <2>10. QED
    BY <2>5, <2>7, <2>8, <2>9
<1>8. ASSUME DockHides PROVE Kept
  <2>1. /\ dock' = [dock EXCEPT !.hidden = TRUE] /\ dock # NoBar /\ strip /\ FreeBelow(dock.display)
        /\ program' = program /\ stranger' = stranger /\ overlays' = overlays /\ shown' = shown
    BY <1>8 DEF DockHides
  <2>2. dock.id \in WindowIds /\ dock.pid \in Pids
    BY <2>1 DEF OwnersInv
  <2>3. dock'.id = dock.id /\ dock'.pid = dock.pid /\ dock'.display = dock.display
    BY <1>3, <2>1
  <2>4. DockTyped
    BY <1>3, <2>1
  <2>5. dock' # NoBar
    BY <1>4, <2>2, <2>3 DEF NoBar
  <2>6. OwnersInv'
    BY <1>1, <2>1, <2>3, <2>5 DEF OwnersInv, NoBar
  <2>7. HiddenInv'
    BY <1>1, <2>1, <2>3 DEF HiddenInv, FreeBelow
  <2>8. OthersTyped
    BY <1>3, <2>1
  <2>9. ShownKept
    BY <1>6, <2>1, <2>3
  <2>10. QED
    BY <2>4, <2>6, <2>7, <2>8, <2>9
<1>9. ASSUME DockQuits PROVE Kept
  <2>1. /\ program' = [program EXCEPT ![dock.pid] = "none"] /\ dock # NoBar /\ dock' = NoBar
        /\ Shows(NoDisplay) /\ stranger' = stranger /\ overlays' = overlays
    BY <1>9 DEF DockQuits
  <2>2. /\ dock'.id = NoWindow /\ dock'.pid = NoProcess /\ dock'.display = NoDisplay
        /\ dock'.hidden = FALSE
    BY <2>1 DEF NoBar
  <2>3. DockTyped
    BY <2>1 DEF NoBar, MaybeDisplay
  <2>4. \A window \in stranger : program[window.pid] = "other" /\ window.pid # dock.pid
    BY <2>1 DEF OwnersInv
  <2>5. \A pid \in Pids : program'[pid] # "Dock"
    BY <1>3, <2>1 DEF OwnersInv
  <2>6. \A window \in stranger' : program'[window.pid] = "other"
    BY <1>3, <2>1, <2>4
  <2>7. OwnersInv'
    BY <2>1, <2>5, <2>6 DEF OwnersInv, NoBar
  <2>8. HiddenInv'
    BY <2>2 DEF HiddenInv
  <2>9. OthersTyped
    BY <1>3, <2>1
  <2>10. ShownKept
    BY <1>5, <2>1, <2>2 DEF MaybeDisplay
  <2>11. QED
    BY <2>3, <2>7, <2>8, <2>9, <2>10
<1>10. ASSUME DockStarts PROVE Kept
  <2>1. dock = NoBar /\ stranger' = stranger /\ overlays' = overlays
    BY <1>10 DEF DockStarts
  <2>2. PICK pid \in {p \in Pids : program[p] = "none"}, id \in WindowIds, display \in DisplaysOf(layout) :
          /\ dock' = [id |-> id, pid |-> pid, display |-> display, hidden |-> FALSE]
          /\ program' = [program EXCEPT ![pid] = "Dock"]
          /\ Shows(display)
    BY <1>10 DEF DockStarts
  <2>3. /\ dock'.id = id /\ dock'.pid = pid /\ dock'.display = display /\ dock'.hidden = FALSE
        /\ display \in MaybeDisplay
    BY <2>2 DEF MaybeDisplay
  <2>4. DockTyped
    BY <2>2, <2>3
  <2>5. dock' # NoBar
    BY <1>4, <2>3 DEF NoBar
  <2>6. \A p \in Pids : program[p] # "Dock"
    BY <2>1 DEF OwnersInv
  <2>7. \A p \in Pids : program'[p] = "Dock" <=> p = pid
    BY <1>3, <2>2, <2>6
  <2>8. \A window \in stranger' : program'[window.pid] = "other"
    <3>1. \A window \in stranger : program[window.pid] = "other" /\ window.pid # pid
      BY <2>2 DEF OwnersInv
    <3>2. QED
      BY <1>3, <2>1, <2>2, <3>1
  <2>9. OwnersInv'
    BY <1>1, <2>2, <2>3, <2>5, <2>7, <2>8 DEF OwnersInv, NoBar
  <2>10. HiddenInv'
    BY <2>3 DEF HiddenInv
  <2>11. OthersTyped
    BY <1>3, <2>1, <2>2
  <2>12. ShownKept
    BY <1>5, <2>2, <2>3
  <2>13. QED
    BY <2>4, <2>9, <2>10, <2>11, <2>12
<1>11. ASSUME StrangerOpens PROVE Kept
  <2>1. stranger = {} /\ dock' = dock /\ overlays' = overlays /\ shown' = shown
    BY <1>11 DEF StrangerOpens
  <2>2. PICK pid \in {p \in Pids : program[p] = "none"}, id \in WindowIds, i \in DOMAIN layout :
          /\ stranger' = {Window(id, pid, DockLevel, layout[i].bounds, TRUE, FALSE)}
          /\ program' = [program EXCEPT ![pid] = "other"]
    BY <1>11 DEF StrangerOpens
  <2>3. \A window \in stranger' : window.id = id /\ window.pid = pid
    BY <2>2 DEF Window
  <2>4. DockTyped /\ HiddenInv' /\ ShownKept
    BY <1>1, <1>3, <1>6, <2>1 DEF HiddenInv, FreeBelow
  <2>5. \A p \in Pids : program'[p] = "Dock" <=> program[p] = "Dock"
    BY <1>3, <2>2
  <2>6. program'[pid] = "other"
    BY <1>3, <2>2
  <2>7. OwnersInv'
    BY <1>1, <2>1, <2>3, <2>5, <2>6 DEF OwnersInv, NoBar
  <2>8. OthersTyped
    BY <1>3, <2>1, <2>2, <2>3
  <2>9. QED
    BY <2>4, <2>7, <2>8
<1>12. ASSUME OverlayChanges PROVE Kept
  <2>1. /\ dock' = dock /\ program' = program /\ stranger' = stranger /\ shown' = shown
        /\ overlays' = DisplaysOf(layout) \ overlays
    BY <1>12 DEF OverlayChanges
  <2>2. OthersTyped /\ DockTyped /\ ShownKept
    BY <1>3, <1>6, <2>1
  <2>3. OwnersInv' /\ HiddenInv'
    BY <1>1, <2>1 DEF OwnersInv, HiddenInv, FreeBelow, NoBar
  <2>4. QED
    BY <2>2, <2>3
<1>13. Kept
  <2> HIDE DEF Kept
  <2>1. QED
    BY <1>7, <1>8, <1>9, <1>10, <1>11, <1>12 DEF WindowEnvironment
<1>14. WindowTypes'
  BY <1>1, <1>2, <1>13 DEF WindowTypes, MaybeDisplay
<1>15. LookupInv'
  BY <1>1, <1>13 DEF LookupInv
<1>16. QED
  BY <1>1, <1>13, <1>14, <1>15

\* A step of the main thread keeps the invariant of the windows; it changes
\* neither the job nor what is remembered of the user.
LEMMA MainThreadKeepsWindow ==
  ASSUME WindowInv, MainThread
  PROVE  /\ WindowInv' /\ layout' = layout /\ disturbances' = disturbances
         /\ UNCHANGED <<jobVars, userVars>>
<1>1. UNCHANGED <<jobVars, userVars>>
  BY DEF MainThread, Begin, Approach, CheckApproach, Walk, CheckWalk, Check, Nudge, CheckNudge,
         LookupStep, Probed, VerifyStarts, Verified, TimeOut, CheckRestore, Restore, Settled
<1>2. CASE UNCHANGED windowVars
  BY <1>1, <1>2, WindowStutter DEF windowVars, worldVars
<1>3. CASE StartLookup
  BY <1>1, <1>3, LookupStarts
<1>4. CASE LookupStep
  <2>1. Lookup(pc = "settle") /\ (pc = "settle") \in BOOLEAN
    BY <1>4 DEF LookupStep
  <2>2. WindowInv' /\ UNCHANGED <<worldVars, shown, disturbances>>
    BY <2>1, LookupReads
  <2>3. QED
    BY <1>1, <2>2 DEF worldVars
<1>5. CASE /\ lookup' = "idle"
           /\ UNCHANGED <<worldVars, answer, dockWindowId, shown, disturbances>>
  BY <1>1, <1>5, LookupEnds DEF worldVars
<1>6. \/ UNCHANGED windowVars \/ StartLookup \/ LookupStep
      \/ /\ lookup' = "idle"
         /\ UNCHANGED <<worldVars, answer, dockWindowId, shown, disturbances>>
  BY DEF MainThread, Begin, Approach, CheckApproach, Walk, CheckWalk, Check, Nudge, CheckNudge,
         Probed, VerifyStarts, Verified, TimeOut, CheckRestore, Restore, Return, Settled
<1>7. QED
  BY <1>2, <1>3, <1>4, <1>5, <1>6

-----------------------------------------------------------------------------
(***************************************************************************)
(* The points the cursor is put at.                                        *)
(***************************************************************************)

\* The counter is limited by the longest of the three loops.
LEMMA CountLimit ==
  LET limit == Max({WalkSteps, NudgeAttempts, VerifyAttempts})
  IN  /\ limit \in Nat
      /\ WalkSteps <= limit /\ NudgeAttempts <= limit /\ VerifyAttempts <= limit
<1> DEFINE T == {WalkSteps, NudgeAttempts, VerifyAttempts}
<1>1. /\ WalkSteps \in Nat /\ NudgeAttempts \in Nat /\ VerifyAttempts \in Nat
  BY RelocationAssumption
<1>2. /\ T \subseteq Int /\ T # {} /\ WalkSteps + NudgeAttempts + VerifyAttempts \in Int
      /\ \A k \in T : k <= WalkSteps + NudgeAttempts + VerifyAttempts
  BY <1>1
<1>3. Max(T) \in T /\ \A k \in T : k <= Max(T)
  <2> HIDE DEF T
  <2>1. QED
    BY <1>2, LargestInteger
<1>4. QED
  BY <1>1, <1>3

\* Part of nine points, in equal steps, is between none and nine.
LEMMA PartOfWay ==
  ASSUME NEW n \in Nat \ {0}, NEW k \in 0 .. n
  PROVE  (9 * k) \div n \in 0 .. 9
<1> DEFINE q == (9 * k) \div n
<1>1. q \in Int /\ n * q <= 9 * k /\ 9 * k < n * q + n
  OBVIOUS
<1> HIDE DEF q
<1>2. q >= 0
  <2>1. SUFFICES ASSUME q <= -1 PROVE FALSE
    BY <1>1
  <2>2. n * q <= -n
    BY <1>1, <2>1
  <2>3. n * q \in Int
    BY <1>1
  <2>4. QED
    BY <1>1, <2>2, <2>3
<1>3. q <= 9
  <2>1. SUFFICES ASSUME q >= 10 PROVE FALSE
    BY <1>1
  <2>2. n * q >= 10 * n
    BY <1>1, <2>1
  <2>3. n * q \in Int
    BY <1>1
  <2>4. QED
    BY <1>1, <2>2, <2>3
<1>4. QED
  BY <1>1, <1>2, <1>3 DEF q

\* smooth_move stays between the approach and the edge.
LEMMA WalkPointFacts ==
  ASSUME edge \in Points, NEW step \in 0 .. WalkSteps
  PROVE  /\ WalkPoint(step) \in Points
         /\ WalkPoint(step).x = edge.x
         /\ edge.y - 9 <= WalkPoint(step).y /\ WalkPoint(step).y <= edge.y
<1>1. edge.x \in Int /\ edge.y \in Int
  BY DEF Points
<1>2. ApproachPoint(edge).y = edge.y - 9 /\ edge.y - ApproachPoint(edge).y = 9
  BY <1>1 DEF ApproachPoint, ApproachOffset
<1>3. (9 * step) \div WalkSteps \in 0 .. 9
  BY RelocationAssumption, PartOfWay
<1>4. WalkPoint(step) = [x |-> edge.x, y |-> edge.y - 9 + (9 * step) \div WalkSteps]
  BY <1>2 DEF WalkPoint
<1> DEFINE q == (9 * step) \div WalkSteps
<1> HIDE DEF q
<1>5. q \in 0 .. 9 /\ WalkPoint(step) = [x |-> edge.x, y |-> edge.y - 9 + q]
  BY <1>3, <1>4 DEF q
<1>6. QED
  BY <1>1, <1>5 DEF Points

\* Points that are less than ten apart on the way to the edge are within the
\* tolerance.
LEMMA NotTaken ==
  ASSUME edge \in Points, NEW here \in Points, NEW there \in Points,
         here.x = edge.x, edge.y - 9 <= here.y, here.y <= edge.y,
         there.x = edge.x, edge.y - 9 <= there.y, there.y <= edge.y
  PROVE  ~CursorTakenByUser(here, there)
BY DEF Points, CursorTakenByUser, UserMoveTolerance

\* So is every point a step expects from every other on the way.
LEMMA ExpectedFacts ==
  ASSUME edge \in Points, CountInv, count \in Nat
  PROVE  /\ Expected \in Points /\ Expected.x = edge.x
         /\ edge.y - 9 <= Expected.y /\ Expected.y <= edge.y
<1>1. CASE pc = "check_approach"
  BY <1>1 DEF Expected, ApproachPoint, ApproachOffset, Points
<1>2. CASE pc = "check_walk"
  <2>1. count \in 0 .. WalkSteps
    BY <1>2, RelocationAssumption DEF CountInv
  <2>2. Expected = WalkPoint(count)
    BY <1>2 DEF Expected
  <2>3. QED
    BY <2>1, <2>2, WalkPointFacts
<1>3. CASE pc \notin {"check_approach", "check_walk"}
  <2>1. Expected = edge
    BY <1>3 DEF Expected
  <2>2. QED
    BY <2>1 DEF Points
<1>4. QED
  BY <1>1, <1>2, <1>3

-----------------------------------------------------------------------------
(***************************************************************************)
(* Each part of the thread's invariant.                                    *)
(***************************************************************************)

\* No loop of the main thread exceeds its number of attempts.
LEMMA CountKeeps ==
  ASSUME RelocationInv, MainThread
  PROVE  CountInv' /\ count' \in 0 .. Max({WalkSteps, NudgeAttempts, VerifyAttempts})
<1> DEFINE limit == Max({WalkSteps, NudgeAttempts, VerifyAttempts})
<1>1. /\ limit \in Nat /\ WalkSteps <= limit /\ NudgeAttempts <= limit /\ VerifyAttempts <= limit
      /\ WalkSteps \in Nat /\ NudgeAttempts \in Nat /\ VerifyAttempts \in Nat
      /\ WalkSteps > 0 /\ NudgeAttempts > 0 /\ VerifyAttempts > 0
  BY CountLimit, RelocationAssumption
<1>2. CountInv /\ count \in 0 .. limit
  BY DEF RelocationInv, ThreadInv, JobTypes
<1> DEFINE Kept == CountInv' /\ count' \in 0 .. limit
<1> HIDE DEF limit
<1>3. ASSUME Begin PROVE Kept
  BY <1>1, <1>2, <1>3 DEF Begin, Goto, Finish, CountInv
<1>4. ASSUME Approach PROVE Kept
  BY <1>1, <1>2, <1>4 DEF Approach, Goto, CountInv
<1>5. ASSUME CheckApproach PROVE Kept
  BY <1>1, <1>2, <1>5 DEF CheckApproach, Check, Finish, CountInv
<1>6. ASSUME Walk PROVE Kept
  BY <1>1, <1>2, <1>6 DEF Walk, CountInv
<1>7. ASSUME CheckWalk PROVE Kept
  BY <1>1, <1>2, <1>7 DEF CheckWalk, Check, Finish, Goto, CountInv
<1>8. ASSUME Nudge PROVE Kept
  BY <1>1, <1>2, <1>8 DEF Nudge, CountInv
<1>9. ASSUME CheckNudge PROVE Kept
  BY <1>1, <1>2, <1>9 DEF CheckNudge, AfterNudge, Goto, Finish, CountInv
<1>10. ASSUME LookupStep PROVE Kept
  <2>1. pc' = pc /\ count' = count /\ lookup # "idle"
    BY <1>10 DEF LookupStep, threadVars, LookupUnderWay
  <2>2. QED
    BY <1>2, <2>1 DEF CountInv
<1>11. ASSUME Probed PROVE Kept
  BY <1>1, <1>2, <1>11 DEF Probed, AfterNudge, Goto, Finish, CountInv
<1>12. ASSUME VerifyStarts PROVE Kept
  BY <1>1, <1>2, <1>12 DEF VerifyStarts, threadVars, CountInv
<1>13. ASSUME Verified PROVE Kept
  BY <1>1, <1>2, <1>13 DEF Verified, Finish, CountInv
<1>14. ASSUME TimeOut PROVE Kept
  BY <1>1, <1>2, <1>14 DEF TimeOut, Finish, CountInv
<1>15. ASSUME CheckRestore PROVE Kept
  BY <1>1, <1>2, <1>15 DEF CheckRestore, Return, CountInv
<1>16. ASSUME Restore PROVE Kept
  BY <1>1, <1>2, <1>16 DEF Restore, Return, CountInv
<1>17. ASSUME Settled PROVE Kept
  BY <1>1, <1>2, <1>17 DEF Settled, Goto, CountInv
<1>18. Kept
  <2> HIDE DEF Kept
  <2>1. QED
    BY <1>3, <1>4, <1>5, <1>6, <1>7, <1>8, <1>9, <1>10, <1>11, <1>12, <1>13, <1>14, <1>15, <1>16,
     <1>17 DEF MainThread
<1>19. QED
  BY <1>18 DEF limit

\* The point of the edge is chosen at the beginning and stays.
LEMMA EdgeKeeps ==
  ASSUME RelocationInv, MainThread
  PROVE  EdgeInv' /\ edge' \in Points
<1>1. /\ layout' = layout /\ target' = target
      /\ layout \in Layouts /\ target \in DisplaysOf(layout) /\ edge \in Points /\ EdgeInv
  BY MainThreadKeepsWindow DEF RelocationInv, WindowInv, WindowTypes, ThreadInv, JobTypes, jobVars
<1>2. EdgePoint(layout, target) \in Points
  <2>1. PICK t \in DOMAIN layout : layout[t].display = target
    BY <1>1 DEF DisplaysOf
  <2>2. TriggerX(layout, target) \in Int
    BY <1>1, <2>1, LayoutFacts, TriggerIsInteger
  <2>3. Bottom(BoundsOf(layout, target)) \in Int
    <3>1. BoundsOf(layout, target) \in Rects
      BY <1>1, <2>1, LayoutFacts, BoundsAreListed, ArrangementTypes
    <3>2. QED
      BY <3>1 DEF Rects, Bottom
  <2>4. QED
    BY <2>2, <2>3 DEF EdgePoint, Points
<1>3. CASE Begin
  BY <1>1, <1>2, <1>3 DEF Begin, Finish, Goto, EdgeInv
<1>4. CASE ~Begin
  <2>1. edge' = edge /\ pc # "begin"
    BY <1>4 DEF MainThread, Approach, CheckApproach, Walk, CheckWalk, Check, Nudge, CheckNudge,
         LookupStep, Probed, VerifyStarts, Verified, TimeOut, CheckRestore, Restore, Settled,
         cursorVars
  <2>2. pc \in {"settle", "done"} => pc' \in {"settle", "done"}
    BY <1>4 DEF MainThread, Approach, CheckApproach, Walk, CheckWalk, Check, Nudge, CheckNudge,
         LookupStep, Probed, VerifyStarts, Verified, TimeOut, CheckRestore, Restore, Settled,
         threadVars, Goto
  <2>3. QED
    BY <1>1, <2>1, <2>2 DEF EdgeInv
<1>5. QED
  BY <1>3, <1>4

\* The cursor is moved by four steps only, and to where they say.
LEMMA CursorSteps ==
  ASSUME RelocationInv, MainThread
  PROVE  /\ cursor' \in Points /\ oldPosition' \in Points
         /\ pc # "begin" => oldPosition' = oldPosition /\ edge' = edge
         /\ pc \notin {"approach", "walk", "nudge", "restore"} => cursor' = cursor
         /\ pc = "restore" => cursor' = oldPosition
         /\ pc = "approach" => cursor' = ApproachPoint(edge)
         /\ pc = "walk" => cursor' \in {cursor, WalkPoint(count + 1)}
         /\ pc = "nudge" => cursor' \in {cursor, edge}
<1>1. cursor \in Points /\ oldPosition \in Points /\ edge \in Points
  BY DEF RelocationInv, ThreadInv, JobTypes
<1>2. pc # "begin" => oldPosition' = oldPosition /\ edge' = edge
  BY DEF MainThread, Begin, Approach, CheckApproach, Walk, CheckWalk, Check, Nudge, CheckNudge,
         LookupStep, Probed, VerifyStarts, Verified, TimeOut, CheckRestore, Restore, Settled,
         cursorVars
<1>3. oldPosition' \in {oldPosition, cursor}
  BY <1>2 DEF MainThread, Begin, Approach, CheckApproach, Walk, CheckWalk, Check, Nudge, CheckNudge,
         LookupStep, Probed, VerifyStarts, Verified, TimeOut, CheckRestore, Restore, Settled,
         cursorVars
<1>4. /\ pc \notin {"approach", "walk", "nudge", "restore"} => cursor' = cursor
      /\ pc = "restore" => cursor' = oldPosition
      /\ pc = "approach" => cursor' = ApproachPoint(edge)
      /\ pc = "walk" => cursor' \in {cursor, WalkPoint(count + 1)}
      /\ pc = "nudge" => cursor' \in {cursor, edge}
  BY DEF MainThread, Begin, Approach, CheckApproach, Walk, CheckWalk, Check, Nudge, CheckNudge,
         LookupStep, Probed, VerifyStarts, Verified, TimeOut, CheckRestore, Restore, Settled,
         cursorVars, MoveCursor, Warp, Post
<1>5. ApproachPoint(edge) \in Points
  BY <1>1 DEF ApproachPoint, ApproachOffset, Points
<1>6. pc = "walk" => WalkPoint(count + 1) \in Points
  <2>1. count \in Nat /\ (pc = "walk" => count < WalkSteps)
    BY CountLimit DEF RelocationInv, ThreadInv, JobTypes, CountInv
  <2>2. pc = "walk" => count + 1 \in 0 .. WalkSteps
    BY <2>1, RelocationAssumption
  <2>3. QED
    BY <1>1, <2>2, WalkPointFacts
<1>7. QED
  BY <1>1, <1>2, <1>3, <1>4, <1>5, <1>6

\* Where the main thread goes from each step.
LEMMA PcSteps ==
  ASSUME MainThread
  PROVE  /\ pc = "begin" => /\ pc' \in {"approach", "settle", "done"}
                            /\ pc' # "approach" => oldPosition' = oldPosition
         /\ pc = "approach" => pc' = "check_approach"
         /\ pc = "walk" => pc' = "check_walk"
         /\ pc = "nudge" => pc' = "check_nudge"
         /\ pc \in {"check_approach", "check_walk", "check_nudge"} =>
              IF CursorTakenByUser(cursor, Expected)
              THEN pc' = "done" ELSE pc' \in {"walk", "nudge", "probe", "verify"}
         /\ pc = "check_restore" =>
              IF CursorTakenByUser(cursor, edge)
              THEN pc' \in {"settle", "done"} ELSE pc' = "restore"
         /\ pc = "probe" => pc' \in {"probe", "nudge", "verify", "check_restore"}
         /\ pc = "verify" => pc' \in {"verify", "check_restore"}
         /\ pc \in {"restore", "settle"} => pc' \in {"settle", "done"}
         /\ pc # "done"
<1> USE DEF threadVars, Goto, Finish, AfterNudge, Return, Check
<1>1. CASE Begin
  BY <1>1 DEF Begin
<1>2. CASE Approach
  BY <1>2 DEF Approach
<1>3. CASE CheckApproach
  BY <1>3 DEF CheckApproach
<1>4. CASE Walk
  BY <1>4 DEF Walk
<1>5. CASE CheckWalk
  BY <1>5 DEF CheckWalk
<1>6. CASE Nudge
  BY <1>6 DEF Nudge
<1>7. CASE CheckNudge
  BY <1>7 DEF CheckNudge
<1>8. CASE LookupStep
  BY <1>8 DEF LookupStep
<1>9. CASE Probed
  BY <1>9 DEF Probed
<1>10. CASE VerifyStarts
  BY <1>10 DEF VerifyStarts
<1>11. CASE Verified
  BY <1>11 DEF Verified
<1>12. CASE TimeOut
  BY <1>12 DEF TimeOut
<1>13. CASE CheckRestore
  BY <1>13 DEF CheckRestore
<1>14. CASE Restore
  BY <1>14 DEF Restore
<1>15. CASE Settled
  BY <1>15 DEF Settled
<1>16. QED
  BY <1>1, <1>2, <1>3, <1>4, <1>5, <1>6, <1>7, <1>8, <1>9, <1>10, <1>11, <1>12, <1>13, <1>14,
     <1>15 DEF MainThread

\* While the user leaves the mouse alone no check says it was taken, and the
\* relocation ends where it put the cursor back.
LEMMA UntouchedKeeps ==
  ASSUME RelocationInv, MainThread
  PROVE  UntouchedInv'
<1>1. userMoved' = userMoved
  BY MainThreadKeepsWindow DEF RelocationInv, userVars
<1>2. SUFFICES ASSUME ~userMoved
               PROVE  /\ pc' \in {"begin", "settle", "done"} => cursor' = oldPosition'
                      /\ pc' \notin {"begin", "approach", "settle", "done"} => NearEdge'
  BY <1>1 DEF UntouchedInv
<1>3. /\ pc \in {"begin", "settle", "done"} => cursor = oldPosition
      /\ pc \notin {"begin", "approach", "settle", "done"} => NearEdge
  BY <1>2 DEF RelocationInv, ThreadInv, UntouchedInv
<1>4. /\ cursor \in Points /\ edge \in Points /\ CountInv /\ pc \in Steps
      /\ count \in Nat
  BY CountLimit DEF RelocationInv, ThreadInv, JobTypes
<1>5. pc \notin {"begin", "approach", "settle", "done"} =>
        ~CursorTakenByUser(cursor, Expected) /\ ~CursorTakenByUser(cursor, edge)
  <2>1. Expected \in Points /\ Expected.x = edge.x /\ edge.y - 9 <= Expected.y /\ Expected.y <= edge.y
    BY <1>4, ExpectedFacts
  <2>2. edge.x = edge.x /\ edge.y - 9 <= edge.y /\ edge.y <= edge.y
    BY <1>4 DEF Points
  <2>3. NearEdge => cursor.x = edge.x /\ edge.y - 9 <= cursor.y /\ cursor.y <= edge.y
    BY <1>4 DEF NearEdge, ApproachOffset, Points
  <2>4. QED
    BY <1>3, <1>4, <2>1, <2>2, <2>3, NotTaken
<1>6. CASE pc = "begin"
  <2>1. cursor' = cursor
    BY <1>6, CursorSteps
  <2>2. QED
    BY <1>3, <1>6, <2>1, PcSteps
<1>7. CASE pc \in {"restore", "settle"}
  <2>1. cursor' = oldPosition /\ oldPosition' = oldPosition
    BY <1>3, <1>7, CursorSteps
  <2>2. QED
    BY <1>7, <2>1, PcSteps
<1>8. CASE pc \in {"approach", "walk", "nudge"}
  <2>1. pc' \in {"check_approach", "check_walk", "check_nudge"} /\ edge' = edge
    BY <1>8, PcSteps, CursorSteps
  <2>2. cursor'.x = edge.x /\ edge.y - 9 <= cursor'.y /\ cursor'.y <= edge.y
    <3>1. CASE pc = "approach"
      <4>1. cursor' = ApproachPoint(edge)
        BY <3>1, CursorSteps
      <4>2. QED
        BY <1>4, <4>1 DEF ApproachPoint, ApproachOffset, Points
    <3>2. NearEdge => cursor.x = edge.x /\ edge.y - 9 <= cursor.y /\ cursor.y <= edge.y
      BY <1>4 DEF NearEdge, ApproachOffset, Points
    <3>3. CASE pc = "walk"
      <4>1. count + 1 \in 0 .. WalkSteps
        BY <1>4, <3>3, RelocationAssumption DEF CountInv
      <4>2. cursor' \in {cursor, WalkPoint(count + 1)}
        BY <3>3, CursorSteps
      <4>3. QED
        BY <1>3, <1>4, <3>2, <3>3, <4>1, <4>2, WalkPointFacts
    <3>4. CASE pc = "nudge"
      <4>1. cursor' \in {cursor, edge}
        BY <3>4, CursorSteps
      <4>2. edge.x = edge.x /\ edge.y - 9 <= edge.y /\ edge.y <= edge.y
        BY <1>4 DEF Points
      <4>3. QED
        BY <1>3, <3>2, <3>4, <4>1, <4>2
    <3>5. QED
      BY <1>8, <3>1, <3>3, <3>4
  <2>3. NearEdge'
    BY <1>4, <2>1, <2>2 DEF NearEdge, ApproachOffset, Points
  <2>4. QED
    BY <2>1, <2>3
<1>9. CASE pc \in {"check_approach", "check_walk", "check_nudge", "check_restore", "probe", "verify"}
  <2>1. cursor' = cursor /\ edge' = edge
    BY <1>9, CursorSteps
  <2>2. pc' \notin {"begin", "settle", "done"}
    BY <1>5, <1>9, PcSteps
  <2>3. NearEdge'
    BY <1>3, <1>9, <2>1 DEF NearEdge
  <2>4. QED
    BY <2>2, <2>3
<1>10. QED
  BY <1>4, <1>6, <1>7, <1>8, <1>9, PcSteps DEF Steps, Checks

\* A cursor that was taken is where it is until the relocation is over.
LEMMA GrabbedKeeps ==
  ASSUME RelocationInv, MainThread
  PROVE  GrabbedInv'
<1>1. grabbed' = grabbed
  BY MainThreadKeepsWindow DEF RelocationInv, userVars
<1>2. SUFFICES ASSUME grabbed
               PROVE  \/ pc' \in {"settle", "done"}
                      \/ CheckIsNext' /\ CursorTakenByUser(cursor', Expected')
  BY <1>1 DEF GrabbedInv
<1>3. \/ pc \in {"settle", "done"}
      \/ CheckIsNext /\ CursorTakenByUser(cursor, Expected)
  BY <1>2 DEF RelocationInv, ThreadInv, GrabbedInv
<1>4. CASE pc \in {"settle", "done"}
  BY <1>4, PcSteps
<1>5. CASE CheckIsNext /\ CursorTakenByUser(cursor, Expected)
  <2>1. CASE pc \in {"check_approach", "check_walk", "check_nudge"}
    BY <1>5, <2>1, PcSteps
  <2>2. CASE pc = "check_restore"
    BY <1>5, <2>2, PcSteps DEF Expected
  <2>3. CASE pc = "verify"
    <3>1. pc' \in {"verify", "check_restore"} /\ cursor' = cursor /\ edge' = edge
      BY <2>3, PcSteps, CursorSteps
    <3>2. Expected = edge /\ Expected' = edge
      BY <2>3, <3>1 DEF Expected
    <3>3. QED
      BY <1>5, <3>1, <3>2 DEF CheckIsNext, Checks
  <2>4. QED
    BY <1>5, <2>1, <2>2, <2>3 DEF CheckIsNext, Checks
<1>6. QED
  BY <1>3, <1>4, <1>5

\* A relocation is called done only on the answer of a lookup that saw the
\* Dock on the target.
LEMMA OutcomeKeeps ==
  ASSUME RelocationInv, MainThread
  PROVE  OutcomeInv' /\ outcome' \in Outcomes
<1>1. target' = target
  BY MainThreadKeepsWindow DEF RelocationInv, jobVars
<1>2. /\ outcome \in Outcomes
      /\ pc \in {"check_restore", "restore"} => outcome \in {"relocated", "timed_out"}
      /\ pc \in {"check_restore", "restore"} /\ outcome = "relocated" => target \in shown
      /\ lookup = "done" => answer \in shown
  BY DEF RelocationInv, WindowInv, LookupInv, ThreadInv, JobTypes, OutcomeInv, RelocatedMeansThere
<1> DEFINE Kept == OutcomeInv' /\ outcome' \in Outcomes
<1>3. ASSUME pc' \notin {"check_restore", "restore", "done"}, outcome' \in Outcomes PROVE Kept
  BY <1>3 DEF OutcomeInv, RelocatedMeansThere
<1>4. ASSUME pc' = "done", outcome' \in {"overlay", "interrupted", "timed_out"} PROVE Kept
  BY <1>4 DEF OutcomeInv, RelocatedMeansThere, Outcomes
<1>5. ASSUME pc' = "check_restore", shown' = shown,
             outcome' = "timed_out" \/ (outcome' = "relocated" /\ target \in shown)
      PROVE  Kept
  BY <1>1, <1>5 DEF OutcomeInv, RelocatedMeansThere, Outcomes
<1>6. CASE pc \in {"begin", "approach", "check_approach", "walk", "check_walk", "nudge", "check_nudge"}
  <2>1. \/ pc' \notin {"check_restore", "restore", "done"} /\ outcome' \in Outcomes
        \/ pc' = "done" /\ outcome' \in {"overlay", "interrupted", "timed_out"}
    BY <1>2, <1>6 DEF MainThread, Begin, Approach, CheckApproach, Walk, CheckWalk, Check, Nudge,
         CheckNudge, LookupStep, Probed, VerifyStarts, Verified, TimeOut, CheckRestore, Restore,
         Settled, Goto, Finish, AfterNudge, Outcomes
  <2>2. QED
    BY <1>3, <1>4, <2>1
<1>7. CASE pc \in {"probe", "verify"}
  <2>1. \/ pc' \notin {"check_restore", "restore", "done"} /\ outcome' \in Outcomes
        \/ /\ pc' = "check_restore" /\ shown' = shown
           /\ outcome' = "timed_out" \/ (outcome' = "relocated" /\ target \in shown)
    BY <1>2, <1>7 DEF MainThread, Begin, Approach, CheckApproach, Walk, CheckWalk, Check, Nudge,
         CheckNudge, LookupStep, Probed, VerifyStarts, Verified, TimeOut, CheckRestore, Restore,
         Settled, Goto, Finish, AfterNudge, threadVars, windowVars, Outcomes
  <2>2. QED
    BY <1>3, <1>5, <2>1
<1>8. CASE pc = "check_restore" /\ ~CursorTakenByUser(cursor, edge)
  <2>1. pc' = "restore" /\ shown' = shown /\ outcome' = outcome
    BY <1>8 DEF MainThread, Begin, Approach, CheckApproach, Walk, CheckWalk, Check, Nudge,
         CheckNudge, LookupStep, Probed, VerifyStarts, Verified, TimeOut, CheckRestore, Restore,
         Settled, windowVars
  <2>2. QED
    BY <1>1, <1>2, <1>8, <2>1 DEF OutcomeInv, RelocatedMeansThere
<1>9. CASE pc = "restore" \/ (pc = "check_restore" /\ CursorTakenByUser(cursor, edge))
  <2>1. Return /\ outcome' = outcome
    BY <1>9 DEF MainThread, Begin, Approach, CheckApproach, Walk, CheckWalk, Check, Nudge,
         CheckNudge, LookupStep, Probed, VerifyStarts, Verified, TimeOut, CheckRestore, Restore,
         Settled
  <2>2. \/ pc' = "settle"
        \/ pc' = "done" /\ outcome' = "timed_out"
    BY <1>2, <1>9, <2>1 DEF Return
  <2>3. QED
    BY <1>2, <1>3, <1>4, <2>1, <2>2
<1>10. CASE pc = "settle"
  <2>1. CASE LookupStep
    <3>1. pc' = "settle" /\ outcome' = outcome
      BY <1>10, <2>1 DEF LookupStep, threadVars
    <3>2. QED
      BY <1>2, <1>3, <3>1
  <2>2. CASE Settled
    <3>1. lookup = "done" /\ pc' = "done" /\ outcome' = outcome /\ answer' = answer /\ shown' = shown
      BY <2>2 DEF Settled, Goto, windowVars, lookupVars
    <3>2. QED
      BY <1>1, <1>2, <3>1 DEF OutcomeInv, RelocatedMeansThere
  <2>3. QED
    BY <1>10, <2>1, <2>2 DEF MainThread, Begin, Approach, CheckApproach, Walk, CheckWalk, Check,
         Nudge, CheckNudge, Probed, VerifyStarts, Verified, TimeOut, CheckRestore, Restore
<1>11. pc \in Steps
  BY DEF RelocationInv, ThreadInv, JobTypes
<1>12. pc # "done"
  BY PcSteps
<1>13. CASE pc = "check_restore"
  BY <1>8, <1>9, <1>13
<1>14. CASE pc = "restore"
  BY <1>9, <1>14
<1>15. pc \in {"begin", "approach", "check_approach", "walk", "check_walk", "nudge", "check_nudge",
               "probe", "verify", "check_restore", "restore", "settle"}
  BY <1>11, <1>12 DEF Steps, Checks
<1>16. QED
  BY <1>6, <1>7, <1>10, <1>13, <1>14, <1>15

-----------------------------------------------------------------------------
(***************************************************************************)
(* The invariant.                                                          *)
(***************************************************************************)

\* A step of the main thread keeps the invariant.
LEMMA MainThreadKeeps ==
  ASSUME RelocationInv, MainThread
  PROVE  RelocationInv'
<1>1. WindowInv' /\ layout' = layout /\ UNCHANGED <<jobVars, userVars>>
  BY MainThreadKeepsWindow DEF RelocationInv
<1>2. pc' \in Steps
  BY PcSteps DEF RelocationInv, ThreadInv, JobTypes, Steps, Checks
<1>3. JobTypes'
  BY <1>1, <1>2, CountKeeps, EdgeKeeps, CursorSteps, OutcomeKeeps
  DEF RelocationInv, ThreadInv, JobTypes, jobVars, userVars, Points
<1>4. QED
  BY <1>1, <1>3, CountKeeps, EdgeKeeps, UntouchedKeeps, GrabbedKeeps, OutcomeKeeps
  DEF RelocationInv, ThreadInv

\* What is proved of the thread does not depend on what happens to the Dock,
\* but for the places it was seen at, and none of them is forgotten.
LEMMA EnvironmentStepKeeps ==
  ASSUME RelocationInv, Environment
  PROVE  RelocationInv'
<1>1. /\ WindowInv' /\ layout' = layout /\ lookup' = lookup /\ answer' = answer
      /\ shown \subseteq shown'
  BY EnvironmentKeeps DEF RelocationInv, Environment
<1>2. UNCHANGED <<jobVars, cursorVars, userVars, threadVars>>
  BY DEF Environment
<1>3. JobTypes'
  BY <1>1, <1>2 DEF RelocationInv, ThreadInv, JobTypes, jobVars, cursorVars, userVars, threadVars,
     Points
<1>4. CountInv' /\ EdgeInv' /\ UntouchedInv'
  BY <1>1, <1>2 DEF RelocationInv, ThreadInv, CountInv, EdgeInv, UntouchedInv, NearEdge, jobVars,
     cursorVars, userVars, threadVars
<1>5. GrabbedInv'
  BY <1>1, <1>2 DEF RelocationInv, ThreadInv, GrabbedInv, CheckIsNext, Expected, WalkPoint,
     cursorVars, userVars, threadVars
<1>6. OutcomeInv'
  BY <1>1, <1>2 DEF RelocationInv, ThreadInv, OutcomeInv, RelocatedMeansThere, jobVars, threadVars
<1>7. QED
  BY <1>1, <1>3, <1>4, <1>5, <1>6 DEF RelocationInv, ThreadInv

\* A move of the user's is remembered, and as a grab when a check will see it.
LEMMA UserMovesKeeps ==
  ASSUME RelocationInv, UserMoves
  PROVE  RelocationInv'
<1>1. /\ Disturb /\ userMoved' = TRUE
      /\ UNCHANGED <<worldVars, lookupVars, shown, jobVars, oldPosition, edge, threadVars>>
  BY DEF UserMoves
<1>2. WindowInv'
  BY <1>1, WindowDisturbed DEF RelocationInv
<1>3. PICK point \in UserPoints :
        /\ cursor' = point
        /\ grabbed' = (CheckIsNext /\ CursorTakenByUser(point, Expected))
  BY DEF UserMoves
<1>4. cursor' \in Points
  BY <1>3, RelocationAssumption DEF Points
<1>5. grabbed' \in BOOLEAN
  BY <1>3
<1>6. JobTypes'
  BY <1>1, <1>4, <1>5 DEF RelocationInv, ThreadInv, JobTypes, worldVars, jobVars, threadVars, Points
<1>7. CountInv' /\ EdgeInv'
  BY <1>1 DEF RelocationInv, ThreadInv, CountInv, EdgeInv, worldVars, lookupVars, jobVars, threadVars
<1>8. UntouchedInv'
  BY <1>1 DEF UntouchedInv
<1>9. GrabbedInv'
  <2>1. CheckIsNext' = CheckIsNext /\ Expected' = Expected
    BY <1>1 DEF CheckIsNext, Expected, WalkPoint, threadVars
  <2>2. QED
    BY <1>3, <2>1 DEF GrabbedInv
<1>10. OutcomeInv'
  BY <1>1 DEF RelocationInv, ThreadInv, OutcomeInv, RelocatedMeansThere, lookupVars, jobVars,
     threadVars
<1>11. QED
  BY <1>2, <1>6, <1>7, <1>8, <1>9, <1>10 DEF RelocationInv, ThreadInv

\* A job begins with the Dock somewhere, nothing looked up and the cursor
\* where the user left it.
LEMMA InitKeeps ==
  ASSUME Init
  PROVE  RelocationInv
<1>1. /\ layout \in Layouts /\ strip \in BOOLEAN
      /\ stranger = {} /\ overlays = {}
      /\ lookup = "idle" /\ answer = NoDisplay /\ shown = {}
      /\ disturbances = MaxDisturbances[layout]
  BY DEF Init, WindowInit
<1>2. PICK pid \in Pids, id \in WindowIds, display \in DisplaysOf(layout) :
        /\ dock = [id |-> id, pid |-> pid, display |-> display, hidden |-> FALSE]
        /\ program = [p \in Pids |-> IF p = pid THEN "Dock" ELSE "none"]
        /\ dockWindowId \in {NoWindow, id}
  BY DEF Init, WindowInit
<1>3. dock # NoBar
  BY <1>2, SentinelAssumption DEF NoBar
<1>4. disturbances \in 0 .. MaxDisturbances[layout]
  <2>1. MaxDisturbances[layout] \in Nat
    BY <1>1, LayoutFacts
  <2>2. QED
    BY <1>1, <2>1
<1>5. WindowTypes
  BY <1>1, <1>2, <1>4 DEF WindowTypes, MaybeDisplay
<1>6. OwnersInv /\ HiddenInv /\ LookupInv
  BY <1>1, <1>2, <1>3 DEF OwnersInv, HiddenInv, LookupInv
<1>7. JobTypes
  <2>1. cursor \in Points
    BY RelocationAssumption DEF Init, Points
  <2>2. 0 \in 0 .. Max({WalkSteps, NudgeAttempts, VerifyAttempts})
    BY CountLimit
  <2>3. QED
    BY <2>1, <2>2 DEF Init, JobTypes, Steps, Outcomes
<1>8. CountInv /\ EdgeInv /\ UntouchedInv /\ GrabbedInv /\ OutcomeInv
  BY DEF Init, CountInv, EdgeInv, UntouchedInv, GrabbedInv, OutcomeInv, RelocatedMeansThere
<1>9. QED
  BY <1>5, <1>6, <1>7, <1>8 DEF RelocationInv, WindowInv, ThreadInv

\* Every step of the specification keeps the invariant.
LEMMA NextKeeps ==
  ASSUME RelocationInv, [Next]_vars
  PROVE  RelocationInv'
<1>1. CASE MainThread
  BY <1>1, MainThreadKeeps
<1>2. CASE UserMoves
  BY <1>2, UserMovesKeeps
<1>3. CASE Environment
  BY <1>3, EnvironmentStepKeeps
<1>4. CASE UNCHANGED vars
  <2>1. /\ UNCHANGED windowVars /\ UNCHANGED <<jobVars, cursorVars, userVars, threadVars>>
        /\ layout' = layout /\ lookup' = lookup /\ answer' = answer /\ shown' = shown
    BY <1>4 DEF vars, windowVars, worldVars, lookupVars
  <2>2. WindowInv'
    BY <2>1, WindowStutter DEF RelocationInv
  <2>3. JobTypes'
    BY <2>1 DEF RelocationInv, ThreadInv, JobTypes, jobVars, cursorVars, userVars, threadVars,
       Points
  <2>4. CountInv' /\ EdgeInv' /\ UntouchedInv'
    BY <2>1 DEF RelocationInv, ThreadInv, CountInv, EdgeInv, UntouchedInv, NearEdge, jobVars,
       cursorVars, userVars, threadVars
  <2>5. GrabbedInv'
    BY <2>1 DEF RelocationInv, ThreadInv, GrabbedInv, CheckIsNext, Expected, WalkPoint,
       cursorVars, userVars, threadVars
  <2>6. OutcomeInv'
    BY <2>1 DEF RelocationInv, ThreadInv, OutcomeInv, RelocatedMeansThere, jobVars, threadVars
  <2>7. QED
    BY <2>2, <2>3, <2>4, <2>5, <2>6 DEF RelocationInv, ThreadInv
<1>5. QED
  BY <1>1, <1>2, <1>3, <1>4 DEF Next

\* The inductive invariant holds in every state.
THEOREM RelocationInvariant == Spec => []RelocationInv
<1>1. Init => RelocationInv
  BY InitKeeps
<1>2. RelocationInv /\ [Next]_vars => RelocationInv'
  BY NextKeeps
<1>3. QED
  BY <1>1, <1>2, PTL DEF Spec

-----------------------------------------------------------------------------
(***************************************************************************)
(* What follows.                                                           *)
(***************************************************************************)

\* Every variable keeps a value of its type, and no loop of the relocation
\* goes round more often than its number of attempts.
THEOREM TypeCorrect == Spec => []TypeOK
<1>1. RelocationInv => TypeOK
  BY TypesInParts DEF RelocationInv, WindowInv, ThreadInv
<1>2. QED
  BY <1>1, RelocationInvariant, PTL

\* A lookup of the Dock, made of up to four reads between which the Dock moves,
\* hides, restarts and its ids change hands, answers as if it were one.
THEOREM LookupIsAtomic == Spec => []LookupIsLinearizable
<1>1. RelocationInv => LookupIsLinearizable
  BY DEF RelocationInv, WindowInv, LookupInv, LookupIsLinearizable
<1>2. QED
  BY <1>1, RelocationInvariant, PTL

\* A relocation that is reported as done was seen to be.
THEOREM RelocatedIsSeen == Spec => []RelocatedMeansThere
<1>1. RelocationInv => RelocatedMeansThere
  BY DEF RelocationInv, ThreadInv, OutcomeInv
<1>2. QED
  BY <1>1, RelocationInvariant, PTL

\* The cursor of a user who leaves the mouse alone is where it was.
THEOREM CursorReturns == Spec => []CursorComesBack
<1>1. RelocationInv => CursorComesBack
  BY DEF RelocationInv, ThreadInv, UntouchedInv, CursorComesBack
<1>2. QED
  BY <1>1, RelocationInvariant, PTL

\* A cursor the user has taken is moved by nobody but the user.
THEOREM TakenCursorStays == Spec => UserKeepsCursor
<1>1. ASSUME RelocationInv, [Next]_vars
      PROVE  [grabbed /\ cursor' # cursor => disturbances' < disturbances]_vars
  <2>1. CASE MainThread
    <3>1. grabbed => cursor' = cursor
      <4>1. grabbed => \/ pc \in {"settle", "done"}
                       \/ CheckIsNext /\ CursorTakenByUser(cursor, Expected)
        BY <1>1 DEF RelocationInv, ThreadInv, GrabbedInv
      <4>2. grabbed => pc \notin {"approach", "walk", "nudge", "restore"}
        BY <4>1 DEF CheckIsNext, Checks
      <4>3. QED
        BY <1>1, <2>1, <4>2, CursorSteps
    <3>2. QED
      BY <3>1
  <2>2. CASE UserMoves
    <3>1. disturbances \in Nat
      <4>1. layout \in Layouts /\ disturbances \in 0 .. MaxDisturbances[layout]
        BY <1>1 DEF RelocationInv, WindowInv, WindowTypes
      <4>2. QED
        BY <4>1, LayoutFacts
    <3>2. disturbances' < disturbances
      BY <2>2, <3>1 DEF UserMoves, Disturb
    <3>3. QED
      BY <3>2
  <2>3. CASE Environment
    BY <2>3 DEF Environment, cursorVars
  <2>4. CASE UNCHANGED vars
    BY <2>4
  <2>5. QED
    BY <1>1, <2>1, <2>2, <2>3, <2>4 DEF Next
<1>2. QED
  BY <1>1, RelocationInvariant, PTL DEF Spec, UserKeepsCursor

\* The columns of the property are those of the theorem on the trigger.
LEMMA ColumnsAgree ==
  ASSUME NEW x
  PROVE  FreeColumn(x) <=> ColumnIsFree(layout, target, x)
BY DEF FreeColumn, ColumnIsFree

\* On every arrangement with four free columns the cursor is pushed where it
\* stays on the target, and the lock lets it go there.
THEOREM TriggerStaysOnTarget == Spec => []TriggerIsSafe
<1>1. RelocationInv => TriggerIsSafe
  <2>1. SUFFICES ASSUME RelocationInv, pc \in {"walk", "nudge"}, HasFreeArea(4)
                 PROVE  /\ FreeColumn(edge.x)
                        /\ edge.y = Bottom(BoundsOf(layout, target)) - 1
                        /\ \A step \in 0 .. WalkSteps :
                             ~ShouldSuppress(layout, locked, WalkPoint(step))
    BY DEF TriggerIsSafe
  <2>2. /\ layout \in Layouts /\ target \in DisplaysOf(layout)
        /\ locked \in {NoDisplay, target} /\ edge \in Points
        /\ edge = EdgePoint(layout, target)
    BY <2>1 DEF RelocationInv, WindowInv, WindowTypes, ThreadInv, JobTypes, EdgeInv
  <2>3. IsArrangement(layout) /\ IsRoomy(layout)
    BY <2>2, LayoutFacts
  <2>4. PICK t \in DOMAIN layout : layout[t].display = target
    BY <2>2 DEF DisplaysOf
  <2> DEFINE own == layout[t].bounds
  <2>5. own \in Rects /\ BoundsOf(layout, target) = own
    BY <2>3, <2>4, ArrangementTypes, BoundsAreListed
  <2>6. /\ edge.x = TriggerX(layout, target) /\ edge.y = Bottom(own) - 1
    BY <2>2, <2>5 DEF EdgePoint
  <2>7. FreeColumn(edge.x)
    <3>1. PICK x \in {layout[i].bounds.x : i \in DOMAIN layout}
                       \cup {Right(layout[i].bounds) : i \in DOMAIN layout} :
            \A column \in x .. x + (4 - 1) : FreeColumn(column)
      BY <2>1 DEF HasFreeArea
    <3>2. x \in Int
      <4>1. \A i \in DOMAIN layout : layout[i].bounds \in Rects
        BY <2>3, ArrangementTypes
      <4>2. \A i \in DOMAIN layout : layout[i].bounds.x \in Int /\ Right(layout[i].bounds) \in Int
        BY <4>1 DEF Rects, Right
      <4>3. QED
        BY <3>1, <4>2
    <3>3. \A c \in x .. x + 3 : ColumnIsFree(layout, layout[t].display, c)
      BY <2>4, <3>1, ColumnsAgree
    <3>4. ColumnIsFree(layout, target, TriggerX(layout, target))
      BY <2>3, <2>4, <3>2, <3>3, TriggerIsFree
    <3>5. QED
      BY <2>6, <3>4, ColumnsAgree
  <2>8. ASSUME NEW step \in 0 .. WalkSteps
        PROVE  ~ShouldSuppress(layout, locked, WalkPoint(step))
    <3> DEFINE point == WalkPoint(step)
               holding == {i \in DOMAIN layout : RectContains(layout[i].bounds, point)}
    <3>1. point \in Points /\ point.x = edge.x /\ edge.y - 9 <= point.y /\ point.y <= edge.y
      BY <2>2, WalkPointFacts
    <3>2. own.x <= edge.x /\ edge.x < Right(own)
      BY <2>5, <2>7 DEF FreeColumn
    <3>3. /\ own.y \in Int /\ own.height \in Nat /\ own.height >= 10
          /\ point.y \in Int /\ edge.y \in Int /\ point.x \in Int
      BY <2>2, <2>3, <2>5, <3>1 DEF Rects, Points, IsRoomy
    <3> HIDE DEF point
    <3>4. RectContains(own, point)
      <4> HIDE DEF own
      <4>1. QED
        BY <2>6, <3>1, <3>2, <3>3 DEF RectContains, Bottom
    <3>5. ASSUME NEW i \in DOMAIN layout, i # t, RectContains(layout[i].bounds, point)
          PROVE  FALSE
      <4> DEFINE other == layout[i].bounds
      <4>1. other \in Rects
        BY <2>3, ArrangementTypes
      <4>2. IntersectionArea(own, other) = 0
        BY <2>3, <3>5 DEF IsArrangement
      <4>3. ~Meet(own, other)
        BY <2>5, <4>1, <4>2, AreaOfIntersection
      <4>4. RectContains(other, point)
        BY <3>5
      <4> HIDE DEF own, other
      <4>5. QED
        BY <2>5, <3>3, <3>4, <4>1, <4>3, <4>4 DEF Meet, RectContains, Rects, Right, Bottom
    <3>6. holding = {t}
      BY <3>4, <3>5
    <3>7. Min(holding) = t
      <4>1. t \in Int
        BY <2>3, ArrangementTypes
      <4>2. QED
        BY <3>6, <4>1, MinOfOne
    <3>8. layout[Min(holding)].display = target
      BY <2>4, <3>7
    <3>9. QED
      BY <2>2, <3>8 DEF ShouldSuppress, point
  <2>9. QED
    BY <2>5, <2>6, <2>7, <2>8
<1>2. QED
  BY <1>1, RelocationInvariant, PTL
=============================================================================
