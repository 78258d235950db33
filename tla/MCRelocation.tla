---------------------------- MODULE MCRelocation ----------------------------
(***************************************************************************)
(* Instances of Relocation for TLC: a main display, a second one beside or *)
(* below it in every way their edges can meet, and a third one below.      *)
(***************************************************************************)
EXTENDS RelocationProperties, EdgeSweep, SequencesExt

CONSTANTS a, b, c, id1, id2, p1, p2

ThreeDisplays == {a, b, c}
TwoIds == {id1, id2}
TwoPids == {p1, p2}

Screen(display, x, y, width, height) ==
  [display |-> display,
   bounds |-> [x |-> x, y |-> y, width |-> width, height |-> height]]

Main == Screen(a, 0, 0, 1440, 900)

Side == {<<Main, Screen(b, 1440, y, 1920, 1080)>> : y \in {-180, 0, 890, 900}}
Below == {<<Main, Screen(b, x, 900, 1440, 900)>> :
            x \in {-1437, -720, -4, 0, 720, 1438}}
Three == {<<Main, Screen(b, x, 900, 720, 900), Screen(c, x + 760, 900, 700, 900)>>
            : x \in {-700, 2, 20, 400}}
ManyLayouts == Side \cup Below \cup Three

\* Two columns are free, between two displays of which the second adjoins the
\* last two points of the main display's edge.
Pinched == {<<Main, Screen(b, -4, 900, 1440, 900),
              Screen(c, 1438, 900, 700, 900)>>}
OnceOnEach == [list \in Pinched |-> 1]

\* Two things happen to the Dock, the user's mouse and the overlays on the
\* layout whose displays meet at half their edges, one on the others.
TwiceOnOne ==
  [list \in ManyLayouts |->
     IF Len(list) = 2 /\ list[2].bounds.x = 720 THEN 2 ELSE 1]
Renaming == Permutations(TwoIds) \cup Permutations(TwoPids)

\* A point at the right of the main display, one at its bottom edge, and one
\* near the bottom edge of the display below it.
Point(x, y) == [x |-> x, y |-> y]
FewPoints == {Point(1425, 450), Point(100, 898), Point(20, 1797)}

\* The sweep finds what SafeEdgeSegment names, for every set of up to three
\* overlaps on an edge of ten points, also when the first is there twice.
ASSUME SweepAssumption ==
  LET segments == {s \in [start : 0 .. 10, end : 0 .. 10] : s.end - s.start > 2}
      bounds == Screen(a, 0, 0, 10, 1).bounds
  IN  \A s, t, u \in segments :
        LET overlaps == {s, t, u}
            sorted == SetToSortSeq(overlaps, StartsBefore)
            twice == <<sorted[1]>> \o sorted
        IN  /\ IsInOrder(sorted, overlaps) /\ IsInOrder(twice, overlaps)
            /\ SweptSegment(bounds, sorted) = SafeEdgeSegment(bounds, overlaps)
            /\ SweptSegment(bounds, twice) = SafeEdgeSegment(bounds, overlaps)
=============================================================================
