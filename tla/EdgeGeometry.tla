---------------------------- MODULE EdgeGeometry ----------------------------
(***************************************************************************)
(* The plane geometry lockdock decides with: which display a point or a    *)
(* window belongs to, whether a mouse event is to be dropped, and where on *)
(* a display's bottom edge the cursor can summon the Dock. Coordinates are *)
(* whole points of the desktop, y growing downwards. A layout is what      *)
(* active_displays() and display_bounds() give: the displays in the order  *)
(* macOS lists them, each with its rectangle.                              *)
(*                                                                         *)
(* A definition named Buggy... is a plausible mistake in the definition    *)
(* that follows it; no specification uses it (see the README).             *)
(***************************************************************************)
EXTENDS Integers, Sequences, FiniteSetsExt

CONSTANTS
  Displays,        \* display ids
  NoDisplay        \* None where a display is optional, 0 in LOCK_TARGET

ASSUME DisplaysAssumption == NoDisplay \notin Displays

LockEdgeZone == 4             \* LOCK_EDGE_ZONE
NearestDisplayMaxDistance == 512
ApproachOffset == 10          \* RELOCATION_APPROACH_OFFSET
TriggerInset == 10            \* of the preferred trigger from the right end
UserMoveTolerance == 24       \* RELOCATION_USER_MOVE_TOLERANCE

Rects == [x : Int, y : Int, width : Nat, height : Nat]
Right(rect) == rect.x + rect.width
Bottom(rect) == rect.y + rect.height
Area(rect) == rect.width * rect.height

RectContains(rect, point) ==
  /\ rect.x <= point.x /\ point.x < Right(rect)
  /\ rect.y <= point.y /\ point.y < Bottom(rect)

IntersectionArea(left, right) ==
  LET width  == Min({Right(left), Right(right)}) - Max({left.x, right.x})
      height == Min({Bottom(left), Bottom(right)}) - Max({left.y, right.y})
  IN  IF width <= 0 \/ height <= 0 THEN 0 ELSE width * height

\* What the window server arranges: displays beside each other.
IsArrangement(layout) ==
  /\ layout \in Seq([display : Displays, bounds : Rects])
  /\ \A i, j \in DOMAIN layout : i # j =>
       /\ layout[i].display # layout[j].display
       /\ IntersectionArea(layout[i].bounds, layout[j].bounds) = 0

DisplaysOf(layout) == {layout[i].display : i \in DOMAIN layout}
BoundsOf(layout, display) ==
  layout[CHOOSE i \in DOMAIN layout : layout[i].display = display].bounds

-----------------------------------------------------------------------------
(***************************************************************************)
(* The display a window is attributed to.                                  *)
(***************************************************************************)
SquaredDistance(rect, point) ==
  LET dx == Max({rect.x - point.x, point.x - Right(rect), 0})
      dy == Max({rect.y - point.y, point.y - Bottom(rect), 0})
  IN  dx * dx + dy * dy

NearestDisplay(layout, point) ==
  LET distance == [i \in DOMAIN layout |->
                     SquaredDistance(layout[i].bounds, point)]
      nearest == {i \in DOMAIN layout :
                    /\ distance[i] < NearestDisplayMaxDistance * NearestDisplayMaxDistance
                    /\ \A j \in DOMAIN layout : distance[i] <= distance[j]}
  IN  IF nearest = {} THEN NoDisplay ELSE layout[Min(nearest)].display

DisplayForRect(layout, rect) ==
  LET area == [i \in DOMAIN layout |->
                 IntersectionArea(rect, layout[i].bounds)]
      largest == {i \in DOMAIN layout :
                    /\ area[i] > 0
                    /\ \A j \in DOMAIN layout : area[j] <= area[i]}
  IN  IF Area(rect) = 0 THEN NoDisplay
      ELSE IF largest # {} THEN layout[Min(largest)].display
      ELSE NearestDisplay(layout, [x |-> rect.x + rect.width \div 2,
                                   y |-> rect.y + rect.height \div 2])

-----------------------------------------------------------------------------
(***************************************************************************)
(* The filter of the event tap: an event at the bottom edge of a display   *)
(* other than the locked one is dropped. (That the filter drops nothing    *)
(* while the Dock is at a side is part of the module Daemon.)              *)
(***************************************************************************)
ShouldSuppress(layout, locked, point) ==
  LET holding == {i \in DOMAIN layout : RectContains(layout[i].bounds, point)}
      current == layout[Min(holding)]
  IN  /\ locked # NoDisplay
      /\ holding # {}
      /\ current.display # locked
      /\ Bottom(current.bounds) - point.y \in 0 .. LockEdgeZone

CursorTakenByUser(current, expected) ==
  \/ current.x - expected.x \notin -UserMoveTolerance .. UserMoveTolerance
  \/ current.y - expected.y \notin -UserMoveTolerance .. UserMoveTolerance

-----------------------------------------------------------------------------
(***************************************************************************)
(* The point of a display's bottom edge the cursor is pushed at. The       *)
(* stretches of the edge that another display adjoins are left out, for    *)
(* the cursor would leave the display there instead of summoning the Dock. *)
(***************************************************************************)
BuggyAdjoins(other, edge) ==
  Bottom(other) >= Bottom(edge) - 1 /\ other.y <= Bottom(edge) - 1
Adjoins(other, edge) ==
  Bottom(other) >= Bottom(edge) - 1 /\ other.y <= Bottom(edge) + 1

EdgeOverlaps(layout, target) ==
  LET edge == BoundsOf(layout, target)
      adjoining == {i \in DOMAIN layout : /\ layout[i].display # target
                                          /\ Adjoins(layout[i].bounds, edge)}
      shared(other) == [start |-> Max({edge.x, other.x}),
                        end   |-> Min({Right(edge), Right(other)})]
  IN  {segment \in {shared(layout[i].bounds) : i \in adjoining} :
         segment.end - segment.start > 2}

StartsBefore(left, right) ==
  left.start < right.start \/ (left.start = right.start /\ left.end < right.end)

\* How far the overlaps reach along the edge.
Reach(edge, overlaps) == Max({edge.x} \cup {overlap.end : overlap \in overlaps})

\* The stretch before each overlap that those before it leave free, and the
\* one after the last. A stretch that ends before it starts is none.
GapBefore(edge, overlaps, overlap) ==
  [start |-> Reach(edge, {o \in overlaps : StartsBefore(o, overlap)}),
   end   |-> overlap.start]
Gaps(edge, overlaps) ==
  {gap \in {GapBefore(edge, overlaps, overlap) : overlap \in overlaps}
             \cup {[start |-> Reach(edge, overlaps), end |-> Right(edge)]} :
     gap.start < gap.end}

\* find_safe_edge_segment: the first of the widest gaps, an empty segment when
\* there is none. (The sweep that finds it is in the module EdgeSweep.)
SafeEdgeSegment(edge, overlaps) ==
  LET gaps == Gaps(edge, overlaps)
      widest == {gap \in gaps : \A other \in gaps :
                   other.end - other.start <= gap.end - gap.start}
  IN  IF gaps = {} THEN [start |-> 0, end |-> 0]
      ELSE CHOOSE gap \in widest : \A other \in widest : gap.start <= other.start

TriggerX(layout, target) ==
  LET bounds == BoundsOf(layout, target)
      overlaps == EdgeOverlaps(layout, target)
      preferred == Max({Right(bounds) - TriggerInset, bounds.x})
      safe == SafeEdgeSegment(bounds, overlaps)
  IN  IF \E overlap \in overlaps :
           overlap.start <= preferred /\ preferred <= overlap.end
      THEN safe.start + (safe.end - safe.start) \div 2
      ELSE preferred

EdgePoint(layout, target) ==
  [x |-> TriggerX(layout, target), y |-> Bottom(BoundsOf(layout, target)) - 1]
ApproachPoint(edge) == [x |-> edge.x, y |-> edge.y + 1 - ApproachOffset]
=============================================================================
