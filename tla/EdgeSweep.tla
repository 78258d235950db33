----------------------------- MODULE EdgeSweep -----------------------------
(***************************************************************************)
(* find_safe_edge_segment as relocation.rs computes it: one sweep over the *)
(* overlaps in the order of their starts, which keeps how far it has come  *)
(* and the best gap so far. SafeEdgeSegment says what it finds without the *)
(* order, the form the other proofs use.                                   *)
(***************************************************************************)
EXTENDS EdgeGeometry

\* The vector collect_edge_overlaps returns: sorted, and an overlap that two
\* mirrored displays share is in it twice.
IsInOrder(sorted, overlaps) ==
  /\ sorted \in Seq(overlaps)
  /\ \A overlap \in overlaps : \E i \in DOMAIN sorted : sorted[i] = overlap
  /\ \A i, j \in DOMAIN sorted : i < j => ~StartsBefore(sorted[j], sorted[i])

NoSegment == [start |-> 0, end |-> 0]
Wider(best, start, end) ==
  IF end - start > best.end - best.start THEN [start |-> start, end |-> end]
                                         ELSE best

\* One round of the loop.
Advance(state, overlap) ==
  [cursor |-> Max({state.cursor, overlap.end}),
   best   |-> Wider(state.best, state.cursor, overlap.start)]

SweepStates(edge, sorted) ==
  LET states[i \in 0 .. Len(sorted)] ==
        IF i = 0 THEN [cursor |-> edge.x, best |-> NoSegment]
                 ELSE Advance(states[i - 1], sorted[i])
  IN  states

SweptSegment(edge, sorted) ==
  LET last == SweepStates(edge, sorted)[Len(sorted)]
  IN  Wider(last.best, last.cursor, Right(edge))
=============================================================================
