-------------------------- MODULE EdgeSweepProofs --------------------------
(***************************************************************************)
(* The loop of find_safe_edge_segment computes SafeEdgeSegment, for every  *)
(* edge and every list of overlaps. The induction over the list is the     *)
(* argument of the least counterexample: a set of numbers that is not      *)
(* empty has a least one (LeastNumber).                                    *)
(***************************************************************************)
EXTENDS EdgeSweep, EdgeGeometryProofs

\* What the states of the sweep are defined to be.
IsSweep(states, edge, sorted) ==
  states = [i \in 0 .. Len(sorted) |->
              IF i = 0 THEN [cursor |-> edge.x, best |-> NoSegment]
                       ELSE Advance(states[i - 1], sorted[i])]

\* The same, up to a number of rounds.
IsSweepTo(states, edge, sorted, n) ==
  /\ states[0] = [cursor |-> edge.x, best |-> NoSegment]
  /\ \A i \in 1 .. n : states[i] = Advance(states[i - 1], sorted[i])

\* After any number of rounds there is a list of states.
LEMMA SweepTo ==
  ASSUME NEW edge, NEW sorted
  PROVE  \A n \in Nat : \E f : IsSweepTo(f, edge, sorted, n)
<1> DEFINE T == {n \in Nat : ~\E f : IsSweepTo(f, edge, sorted, n)}
<1> SUFFICES ASSUME T # {} PROVE FALSE
  OBVIOUS
<1>1. PICK n \in T : \A k \in T : n <= k
  <2>1. T \subseteq Nat
    OBVIOUS
  <2> HIDE DEF T
  <2>2. QED
    BY <2>1, LeastNumber
<1>2. n # 0
  <2>1. IsSweepTo([i \in {0} |-> [cursor |-> edge.x, best |-> NoSegment]], edge, sorted, 0)
    BY DEF IsSweepTo
  <2>2. QED
    BY <2>1
<1>3. PICK f : IsSweepTo(f, edge, sorted, n - 1)
  <2>1. n - 1 \in Nat /\ ~(n <= n - 1)
    BY <1>2
  <2>2. n - 1 \notin T
    BY <1>1, <2>1
  <2>3. QED
    BY <2>1, <2>2
<1> DEFINE g == [i \in 0 .. n |-> IF i = n THEN Advance(f[n - 1], sorted[n]) ELSE f[i]]
<1>4. IsSweepTo(g, edge, sorted, n)
  <2>1. n \in Nat \ {0}
    BY <1>2
  <2>2. g[0] = f[0]
    BY <2>1
  <2>3. ASSUME NEW i \in 1 .. n PROVE g[i] = Advance(g[i - 1], sorted[i])
    <3>1. i - 1 \in 0 .. n /\ i - 1 # n /\ i \in 0 .. n
      BY <2>1
    <3>2. g[i - 1] = f[i - 1]
      BY <3>1
    <3>3. CASE i = n
      BY <2>1, <3>2, <3>3
    <3>4. CASE i # n
      <4>1. g[i] = f[i]
        BY <3>1, <3>4
      <4>2. i \in 1 .. n - 1
        BY <2>1, <3>4
      <4>3. f[i] = Advance(f[i - 1], sorted[i])
        BY <1>3, <4>2 DEF IsSweepTo
      <4>4. QED
        BY <3>2, <4>1, <4>3
    <3>5. QED
      BY <3>3, <3>4
  <2> HIDE DEF g
  <2>4. QED
    BY <1>3, <2>2, <2>3 DEF IsSweepTo
<1>5. QED
  BY <1>4

\* The recursive definition has a solution, so it says what it reads as.
LEMMA SweepIsDefined ==
  ASSUME NEW edge, NEW sorted, Len(sorted) \in Nat
  PROVE  IsSweepTo(SweepStates(edge, sorted), edge, sorted, Len(sorted))
<1> DEFINE n == Len(sorted)
<1>1. PICK f : IsSweepTo(f, edge, sorted, n)
  BY SweepTo
<1> DEFINE g == [i \in 0 .. n |-> f[i]]
<1>2. IsSweep(g, edge, sorted)
  <2> DEFINE h == [i \in 0 .. n |->
                     IF i = 0 THEN [cursor |-> edge.x, best |-> NoSegment]
                              ELSE Advance(g[i - 1], sorted[i])]
  <2>1. ASSUME NEW i \in 0 .. n PROVE g[i] = h[i]
    <3>1. CASE i = 0
      BY <1>1, <3>1 DEF IsSweepTo
    <3>2. CASE i # 0
      <4>1. i \in 1 .. n /\ i - 1 \in 0 .. n
        BY <3>2
      <4>2. g[i] = f[i] /\ g[i - 1] = f[i - 1]
        BY <4>1
      <4>3. f[i] = Advance(f[i - 1], sorted[i])
        BY <1>1, <4>1 DEF IsSweepTo
      <4>4. h[i] = Advance(g[i - 1], sorted[i])
        BY <3>2
      <4>5. QED
        BY <4>2, <4>3, <4>4
    <3>3. QED
      BY <3>1, <3>2
  <2>2. g = h
    BY <2>1
  <2>3. QED
    BY <2>2 DEF IsSweep
<1>3. SweepStates(edge, sorted) = CHOOSE states : IsSweep(states, edge, sorted)
  BY DEF SweepStates, IsSweep
<1>4. IsSweep(SweepStates(edge, sorted), edge, sorted)
  BY <1>2, <1>3, Zenon
<1> DEFINE s == SweepStates(edge, sorted)
<1>5. s = [i \in 0 .. n |-> IF i = 0 THEN [cursor |-> edge.x, best |-> NoSegment]
                                      ELSE Advance(s[i - 1], sorted[i])]
  BY <1>4 DEF IsSweep
<1> HIDE DEF s
<1>6. s[0] = [cursor |-> edge.x, best |-> NoSegment]
  BY <1>5
<1>7. ASSUME NEW i \in 1 .. n PROVE s[i] = Advance(s[i - 1], sorted[i])
  BY <1>5
<1>8. IsSweepTo(s, edge, sorted, n)
  BY <1>6, <1>7 DEF IsSweepTo
<1>9. QED
  BY <1>8 DEF s

-----------------------------------------------------------------------------
\* The overlaps of the first rounds, the stretch each round looks at, and the
\* gaps that have been seen.
Done(sorted, i) == {sorted[j] : j \in 1 .. i}
GapAt(edge, sorted, j) ==
  [start |-> Reach(edge, Done(sorted, j - 1)), end |-> sorted[j].start]
GapsUpTo(edge, sorted, i) ==
  {gap \in {GapAt(edge, sorted, j) : j \in 1 .. i} : gap.start < gap.end}

\* The best of some gaps: the first of the widest, none if there is none.
IsBest(best, gaps) ==
  IF gaps = {} THEN best = NoSegment
  ELSE /\ best \in gaps
       /\ \A gap \in gaps :
            /\ gap.end - gap.start <= best.end - best.start
            /\ gap.end - gap.start = best.end - best.start => best.start <= gap.start

\* Segments of whole points.
AreGaps(gaps) == \A gap \in gaps : gap \in [start : Int, end : Int] /\ gap.start < gap.end

\* There is one best.
LEMMA BestIsUnique ==
  ASSUME NEW gaps, AreGaps(gaps), NEW p, NEW q, IsBest(p, gaps), IsBest(q, gaps)
  PROVE  p = q
<1>1. CASE gaps = {}
  BY <1>1 DEF IsBest
<1>2. CASE gaps # {}
  <2>1. p \in gaps /\ q \in gaps
    BY <1>2 DEF IsBest
  <2>2. p \in [start : Int, end : Int] /\ q \in [start : Int, end : Int]
    BY <2>1 DEF AreGaps
  <2>3. p.end - p.start <= q.end - q.start /\ q.end - q.start <= p.end - p.start
    BY <1>2, <2>1 DEF IsBest
  <2>4. p.end - p.start = q.end - q.start
    BY <2>2, <2>3
  <2>5. p.start <= q.start /\ q.start <= p.start
    BY <1>2, <2>1, <2>4 DEF IsBest
  <2>6. p.start = q.start /\ p.end = q.end
    BY <2>2, <2>4, <2>5
  <2>7. QED
    BY <2>2, <2>6
<1>3. QED
  BY <1>1, <1>2

\* update_best_segment keeps the best when gaps are met from left to right.
LEMMA WiderKeepsBest ==
  ASSUME NEW gaps, AreGaps(gaps), NEW best, IsBest(best, gaps),
         NEW start \in Int, NEW end \in Int, \A gap \in gaps : gap.start <= start,
         NEW more, more = gaps \cup (IF start < end THEN {[start |-> start, end |-> end]} ELSE {})
  PROVE  IsBest(Wider(best, start, end), more)
<1> DEFINE new == [start |-> start, end |-> end]
<1>1. new.start = start /\ new.end = end
  OBVIOUS
<1>2. CASE gaps = {}
  <2>1. best = NoSegment
    BY <1>2 DEF IsBest
  <2>2. CASE start < end
    <3>1. Wider(best, start, end) = new
      BY <2>1, <2>2 DEF Wider, NoSegment
    <3>2. more = {new}
      BY <1>2, <2>2
    <3>3. QED
      BY <3>1, <3>2 DEF IsBest
  <2>3. CASE ~(start < end)
    <3>1. Wider(best, start, end) = best
      BY <2>1, <2>3 DEF Wider, NoSegment
    <3>2. more = {}
      BY <1>2, <2>3
    <3>3. QED
      BY <2>1, <3>1, <3>2 DEF IsBest
  <2>4. QED
    BY <2>2, <2>3
<1>3. CASE gaps # {}
  <2>1. best \in gaps
    BY <1>3 DEF IsBest
  <2>2. best.start \in Int /\ best.end \in Int /\ best.start < best.end
    BY <2>1 DEF AreGaps
  <2>3. \A gap \in gaps : gap.start \in Int /\ gap.end \in Int
    BY DEF AreGaps
  <2>4. \A gap \in gaps :
          /\ gap.end - gap.start <= best.end - best.start
          /\ gap.end - gap.start = best.end - best.start => best.start <= gap.start
    BY <1>3 DEF IsBest
  <2>5. more # {}
    BY <1>3
  <2>6. CASE end - start > best.end - best.start
    <3>1. Wider(best, start, end) = new
      BY <2>6 DEF Wider
    <3>2. start < end
      BY <2>2, <2>6
    <3>3. more = gaps \cup {new}
      BY <3>2
    <3>4. ASSUME NEW gap \in more
          PROVE  /\ gap.end - gap.start <= new.end - new.start
                 /\ gap.end - gap.start = new.end - new.start => new.start <= gap.start
      <4>1. CASE gap = new
        BY <4>1
      <4>2. CASE gap \in gaps
        BY <2>2, <2>3, <2>4, <2>6, <4>2
      <4>3. QED
        BY <3>3, <4>1, <4>2
    <3>5. QED
      BY <2>5, <3>1, <3>3, <3>4 DEF IsBest
  <2>7. CASE ~(end - start > best.end - best.start)
    <3>1. Wider(best, start, end) = best
      BY <2>7 DEF Wider
    <3>2. ASSUME NEW gap \in more
          PROVE  /\ gap.end - gap.start <= best.end - best.start
                 /\ gap.end - gap.start = best.end - best.start => best.start <= gap.start
      <4>1. CASE gap = new
        BY <2>1, <2>2, <2>7, <4>1
      <4>2. CASE gap \in gaps
        BY <2>4, <4>2
      <4>3. gap = new \/ gap \in gaps
        OBVIOUS
      <4>4. QED
        BY <4>1, <4>2, <4>3
    <3>3. best \in more
      BY <2>1
    <3>4. QED
      BY <2>5, <3>1, <3>2, <3>3 DEF IsBest
  <2>8. QED
    BY <2>6, <2>7
<1>4. QED
  BY <1>2, <1>3

-----------------------------------------------------------------------------
\* A list of overlaps has a length, and its elements are overlaps.
LEMMA SortedFacts ==
  ASSUME NEW edge \in Rects, NEW overlaps, AreOverlaps(edge, overlaps),
         NEW sorted, IsInOrder(sorted, overlaps)
  PROVE  /\ Len(sorted) \in Nat /\ DOMAIN sorted = 1 .. Len(sorted)
         /\ \A i \in 1 .. Len(sorted) :
              /\ sorted[i] \in overlaps
              /\ sorted[i].start \in Int /\ sorted[i].end \in Int
              /\ sorted[i].start < sorted[i].end
         /\ \A i, j \in 1 .. Len(sorted) : i < j => ~StartsBefore(sorted[j], sorted[i])
<1>1. sorted \in Seq(overlaps)
  BY DEF IsInOrder
<1>2. Len(sorted) \in Nat /\ DOMAIN sorted = 1 .. Len(sorted)
  BY <1>1, LenProperties
<1>3. ASSUME NEW i \in 1 .. Len(sorted) PROVE sorted[i] \in overlaps
  BY <1>1, ElementOfSeq
<1>4. \A o \in overlaps : o.start \in Int /\ o.end \in Int /\ o.start < o.end
  BY DEF AreOverlaps
<1>5. \A i, j \in 1 .. Len(sorted) : i < j => ~StartsBefore(sorted[j], sorted[i])
  BY <1>2 DEF IsInOrder
<1>6. QED
  BY <1>2, <1>3, <1>4, <1>5

\* The first overlaps are overlaps.
LEMMA DoneFacts ==
  ASSUME NEW edge \in Rects, NEW overlaps, AreOverlaps(edge, overlaps),
         NEW sorted, IsInOrder(sorted, overlaps), NEW i \in 0 .. Len(sorted)
  PROVE  /\ Done(sorted, i) \subseteq overlaps
         /\ AreOverlaps(edge, Done(sorted, i))
         /\ Reach(edge, Done(sorted, i)) \in Int
         /\ Reach(edge, Done(sorted, i)) >= edge.x
         /\ \A j \in 1 .. i : sorted[j].end <= Reach(edge, Done(sorted, i))
<1>1. Len(sorted) \in Nat /\ \A j \in 1 .. Len(sorted) : sorted[j] \in overlaps
  BY SortedFacts
<1>2. Done(sorted, i) \subseteq overlaps
  BY <1>1 DEF Done
<1>3. AreOverlaps(edge, Done(sorted, i))
  BY <1>2 DEF AreOverlaps
<1>4. \A j \in 1 .. i : sorted[j] \in Done(sorted, i)
  BY DEF Done
<1>5. QED
  BY <1>2, <1>3, <1>4, ReachFacts

\* The cursor of the sweep: how far all overlaps up to here reach.
LEMMA ReachAdvances ==
  ASSUME NEW edge \in Rects, NEW overlaps, AreOverlaps(edge, overlaps),
         NEW sorted, IsInOrder(sorted, overlaps), NEW i \in 1 .. Len(sorted)
  PROVE  /\ Reach(edge, Done(sorted, i))
              = Max({Reach(edge, Done(sorted, i - 1)), sorted[i].end})
         /\ Reach(edge, Done(sorted, i - 1)) <= Reach(edge, Done(sorted, i))
<1> DEFINE now == Reach(edge, Done(sorted, i))
           past == Reach(edge, Done(sorted, i - 1))
<1>1. Len(sorted) \in Nat /\ sorted[i].end \in Int
  BY SortedFacts
<1>2. i \in 0 .. Len(sorted) /\ i - 1 \in 0 .. Len(sorted) /\ 1 .. i = (1 .. i - 1) \cup {i}
  BY <1>1
<1>3. now \in Int /\ past \in Int /\ edge.x <= past
  BY <1>2, DoneFacts
<1>4. Done(sorted, i) = Done(sorted, i - 1) \cup {sorted[i]}
  BY <1>2 DEF Done
<1>5. /\ AreOverlaps(edge, Done(sorted, i)) /\ AreOverlaps(edge, Done(sorted, i - 1))
  BY <1>2, DoneFacts
<1>6. \A o \in Done(sorted, i) : o.end <= now
  BY <1>5, ReachFacts
<1>7. now = edge.x \/ \E o \in Done(sorted, i) : now = o.end
  BY <1>5, ReachFacts
<1>8. \A o \in Done(sorted, i - 1) : o.end <= past
  BY <1>5, ReachFacts
<1>9. past = edge.x \/ \E o \in Done(sorted, i - 1) : past = o.end
  BY <1>5, ReachFacts
<1>10. edge.x \in Int /\ edge.x <= now
  BY <1>5, ReachFacts DEF Rects
<1>11. sorted[i].end <= now
  BY <1>4, <1>6
<1>12. past <= now
  BY <1>4, <1>6, <1>9, <1>10
<1>13. now = past \/ now = sorted[i].end
  <2>1. CASE now = edge.x
    BY <1>3, <1>12, <2>1, <1>10
  <2>2. ASSUME NEW o \in Done(sorted, i - 1), now = o.end PROVE now = past
    <3>1. now <= past
      BY <1>8, <2>2
    <3>2. QED
      BY <1>3, <1>12, <3>1
  <2>3. QED
    BY <1>4, <1>7, <2>1, <2>2
<1> HIDE DEF now, past
<1>14. now = Max({past, sorted[i].end})
  BY <1>1, <1>3, <1>11, <1>12, <1>13, MaxOfTwo
<1>15. QED
  BY <1>12, <1>14 DEF now, past

\* What has been passed stays passed.
LEMMA ReachGrows ==
  ASSUME NEW edge \in Rects, NEW overlaps, AreOverlaps(edge, overlaps),
         NEW sorted, IsInOrder(sorted, overlaps),
         NEW i \in 0 .. Len(sorted), NEW j \in 0 .. i
  PROVE  Reach(edge, Done(sorted, j)) <= Reach(edge, Done(sorted, i))
<1>1. Len(sorted) \in Nat
  BY SortedFacts
<1>2. i \in 0 .. Len(sorted) /\ j \in 0 .. Len(sorted)
  BY <1>1
<1>3. Done(sorted, j) \subseteq Done(sorted, i)
  <2>1. 1 .. j \subseteq 1 .. i
    BY <1>1
  <2>2. QED
    BY <2>1 DEF Done
<1>4. AreOverlaps(edge, Done(sorted, j)) /\ AreOverlaps(edge, Done(sorted, i))
  BY <1>2, DoneFacts
<1>5. Reach(edge, Done(sorted, j)) = edge.x
        \/ \E o \in Done(sorted, j) : Reach(edge, Done(sorted, j)) = o.end
  BY <1>4, ReachFacts
<1>6. /\ Reach(edge, Done(sorted, i)) >= edge.x
      /\ \A o \in Done(sorted, i) : o.end <= Reach(edge, Done(sorted, i))
      /\ Reach(edge, Done(sorted, i)) \in Int /\ edge.x \in Int
  BY <1>4, ReachFacts DEF Rects
<1>7. QED
  BY <1>3, <1>5, <1>6

\* Every stretch the sweep counts is one, and starts where it has been.
LEMMA GapsAreBehind ==
  ASSUME NEW edge \in Rects, NEW overlaps, AreOverlaps(edge, overlaps),
         NEW sorted, IsInOrder(sorted, overlaps), NEW i \in 0 .. Len(sorted)
  PROVE  /\ AreGaps(GapsUpTo(edge, sorted, i))
         /\ \A gap \in GapsUpTo(edge, sorted, i) :
              gap.start <= Reach(edge, Done(sorted, i))
<1>1. Len(sorted) \in Nat
  BY SortedFacts
<1>2. ASSUME NEW gap \in GapsUpTo(edge, sorted, i)
      PROVE  /\ gap \in [start : Int, end : Int] /\ gap.start < gap.end
             /\ gap.start <= Reach(edge, Done(sorted, i))
  <2>1. PICK j \in 1 .. i : gap = GapAt(edge, sorted, j)
    BY DEF GapsUpTo
  <2>2. j \in 1 .. Len(sorted) /\ j - 1 \in 0 .. Len(sorted) /\ j - 1 \in 0 .. i
    BY <1>1
  <2>3. sorted[j].start \in Int
    BY <2>2, SortedFacts
  <2>4. Reach(edge, Done(sorted, j - 1)) \in Int
    BY <2>2, DoneFacts
  <2>5. Reach(edge, Done(sorted, j - 1)) <= Reach(edge, Done(sorted, i))
    BY <2>2, ReachGrows
  <2>6. gap.start < gap.end
    BY DEF GapsUpTo
  <2>7. gap.start = Reach(edge, Done(sorted, j - 1)) /\ gap \in [start : Int, end : Int]
    BY <2>1, <2>3, <2>4 DEF GapAt
  <2>8. QED
    BY <2>5, <2>6, <2>7
<1>3. QED
  BY <1>2 DEF AreGaps

\* A round of the sweep looks at one more stretch.
LEMMA GapsGrow ==
  ASSUME NEW edge, NEW sorted, NEW i \in Nat \ {0}
  PROVE  GapsUpTo(edge, sorted, i) =
           GapsUpTo(edge, sorted, i - 1)
             \cup (IF GapAt(edge, sorted, i).start < GapAt(edge, sorted, i).end
                   THEN {GapAt(edge, sorted, i)} ELSE {})
<1>1. 1 .. i = (1 .. i - 1) \cup {i}
  OBVIOUS
<1>2. ASSUME NEW gap
      PROVE  gap \in GapsUpTo(edge, sorted, i) <=>
               (gap \in GapsUpTo(edge, sorted, i - 1)
                 \/ (gap = GapAt(edge, sorted, i) /\ gap.start < gap.end))
  BY <1>1 DEF GapsUpTo
<1> DEFINE now == GapsUpTo(edge, sorted, i)
           past == GapsUpTo(edge, sorted, i - 1)
           new == GapAt(edge, sorted, i)
<1> HIDE DEF now, past, new
<1>3. ASSUME NEW gap
      PROVE  gap \in now <=> (gap \in past \/ (gap = new /\ gap.start < gap.end))
  BY <1>2 DEF now, past, new
<1>4. now = past \cup (IF new.start < new.end THEN {new} ELSE {})
  BY <1>3
<1>5. QED
  BY <1>4 DEF now, past, new

-----------------------------------------------------------------------------
\* The state of the sweep after any number of rounds: how far the overlaps so
\* far reach, and the best of the gaps between them.
SweepInv(edge, sorted, i) ==
  /\ SweepStates(edge, sorted)[i].cursor = Reach(edge, Done(sorted, i))
  /\ IsBest(SweepStates(edge, sorted)[i].best, GapsUpTo(edge, sorted, i))

\* It holds before the first round.
LEMMA SweepStarts ==
  ASSUME NEW edge \in Rects, NEW overlaps, AreOverlaps(edge, overlaps),
         NEW sorted, IsInOrder(sorted, overlaps)
  PROVE  SweepInv(edge, sorted, 0)
<1> DEFINE state == SweepStates(edge, sorted)[0]
<1>1. Len(sorted) \in Nat
  BY SortedFacts
<1>2. state = [cursor |-> edge.x, best |-> NoSegment]
  BY <1>1, SweepIsDefined DEF IsSweepTo
<1>3. Done(sorted, 0) = {} /\ GapsUpTo(edge, sorted, 0) = {}
  BY DEF Done, GapsUpTo
<1>4. AreOverlaps(edge, {})
  BY DEF AreOverlaps
<1>5. Reach(edge, {}) = edge.x
  BY <1>4, ReachFacts
<1>6. QED
  BY <1>2, <1>3, <1>5 DEF SweepInv, IsBest

\* A round of the loop keeps it.
LEMMA SweepGoesOn ==
  ASSUME NEW edge \in Rects, NEW overlaps, AreOverlaps(edge, overlaps),
         NEW sorted, IsInOrder(sorted, overlaps), NEW i \in 1 .. Len(sorted),
         SweepInv(edge, sorted, i - 1)
  PROVE  SweepInv(edge, sorted, i)
<1> DEFINE past == SweepStates(edge, sorted)[i - 1]
           now == SweepStates(edge, sorted)[i]
           gaps == GapsUpTo(edge, sorted, i - 1)
           more == GapsUpTo(edge, sorted, i)
           reach == Reach(edge, Done(sorted, i - 1))
<1>1. Len(sorted) \in Nat /\ i \in Nat \ {0} /\ i - 1 \in 0 .. Len(sorted)
  BY SortedFacts
<1>2. now = Advance(past, sorted[i])
  BY <1>1, SweepIsDefined DEF IsSweepTo
<1>3. past.cursor = reach /\ IsBest(past.best, gaps)
  BY DEF SweepInv
<1>4. now.cursor = Max({reach, sorted[i].end}) /\ now.best = Wider(past.best, reach, sorted[i].start)
  BY <1>2, <1>3 DEF Advance
<1>5. now.cursor = Reach(edge, Done(sorted, i))
  BY <1>4, ReachAdvances
<1>6. AreGaps(gaps) /\ \A gap \in gaps : gap.start <= reach
  BY <1>1, GapsAreBehind
<1>7. reach \in Int /\ sorted[i].start \in Int
  BY <1>1, DoneFacts, SortedFacts
<1>8. more = gaps \cup (IF reach < sorted[i].start
                        THEN {[start |-> reach, end |-> sorted[i].start]} ELSE {})
  BY <1>1, GapsGrow DEF GapAt
<1>9. IsBest(now.best, more)
  <2> HIDE DEF gaps, more, reach, now, past
  <2>1. QED
    BY <1>3, <1>4, <1>6, <1>7, <1>8, WiderKeepsBest
<1>10. QED
  BY <1>5, <1>9 DEF SweepInv

\* So it holds after every round: there is no first one that breaks it.
LEMMA SweepKeeps ==
  ASSUME NEW edge \in Rects, NEW overlaps, AreOverlaps(edge, overlaps),
         NEW sorted, IsInOrder(sorted, overlaps)
  PROVE  \A i \in 0 .. Len(sorted) : SweepInv(edge, sorted, i)
<1> DEFINE T == {i \in 0 .. Len(sorted) : ~SweepInv(edge, sorted, i)}
<1> SUFFICES ASSUME T # {} PROVE FALSE
  OBVIOUS
<1>1. Len(sorted) \in Nat
  BY SortedFacts
<1>2. PICK i \in T : \A k \in T : i <= k
  <2>1. T \subseteq Nat
    BY <1>1
  <2> HIDE DEF T
  <2>2. QED
    BY <2>1, LeastNumber
<1>3. i # 0
  BY SweepStarts
<1>4. i \in 1 .. Len(sorted) /\ i - 1 \in 0 .. Len(sorted) /\ ~(i <= i - 1)
  BY <1>1, <1>3
<1>5. i - 1 \notin T
  BY <1>2, <1>4
<1>6. SweepInv(edge, sorted, i - 1)
  BY <1>4, <1>5
<1>7. QED
  BY <1>4, <1>6, SweepGoesOn

-----------------------------------------------------------------------------
\* Two overlaps are in order, or begin and end together.
LEMMA OrderIsTotal ==
  ASSUME NEW edge, NEW overlaps, AreOverlaps(edge, overlaps),
         NEW o \in overlaps, NEW p \in overlaps
  PROVE  /\ StartsBefore(o, p) \/ StartsBefore(p, o) \/ (o.start = p.start /\ o.end = p.end)
         /\ StartsBefore(o, p) => ~StartsBefore(p, o)
BY DEF AreOverlaps, StartsBefore

\* Where no overlap of the same ends came before, those that came before are
\* those that come before in the order.
LEMMA DoneBefore ==
  ASSUME NEW edge \in Rects, NEW overlaps, AreOverlaps(edge, overlaps),
         NEW sorted, IsInOrder(sorted, overlaps), NEW i \in 1 .. Len(sorted),
         NEW o \in overlaps, o.start = sorted[i].start, o.end = sorted[i].end,
         \A k \in 1 .. i - 1 : ~(sorted[k].start = o.start /\ sorted[k].end = o.end)
  PROVE  Done(sorted, i - 1) = {p \in overlaps : StartsBefore(p, o)}
<1>1. Len(sorted) \in Nat
  BY SortedFacts
<1>2. \A k \in 1 .. Len(sorted) : sorted[k] \in overlaps
  BY SortedFacts
<1>3. \A p : StartsBefore(p, sorted[i]) <=> StartsBefore(p, o)
  BY DEF StartsBefore
<1>4. \A p : StartsBefore(sorted[i], p) <=> StartsBefore(o, p)
  BY DEF StartsBefore
<1>5. ASSUME NEW k \in 1 .. i - 1 PROVE StartsBefore(sorted[k], o)
  <2>1. k \in 1 .. Len(sorted) /\ k < i
    BY <1>1
  <2>2. ~StartsBefore(sorted[i], sorted[k])
    BY <2>1, SortedFacts
  <2>3. ~StartsBefore(o, sorted[k])
    BY <1>4, <2>2
  <2>4. QED
    BY <1>2, <2>1, <2>3, OrderIsTotal
<1>6. ASSUME NEW p \in overlaps, StartsBefore(p, o) PROVE p \in Done(sorted, i - 1)
  <2>1. PICK k \in 1 .. Len(sorted) : sorted[k] = p
    <3>1. DOMAIN sorted = 1 .. Len(sorted)
      BY SortedFacts
    <3>2. QED
      BY <3>1 DEF IsInOrder
  <2>2. ~(i < k)
    <3>1. i < k => ~StartsBefore(sorted[k], sorted[i])
      BY <2>1, SortedFacts
    <3>2. StartsBefore(sorted[k], sorted[i])
      BY <1>3, <1>6, <2>1
    <3>3. QED
      BY <3>1, <3>2
  <2>3. k # i
    <3>1. ~StartsBefore(o, o)
      BY OrderIsTotal
    <3>2. ASSUME k = i PROVE FALSE
      <4>1. p = sorted[i]
        BY <2>1, <3>2
      <4>2. StartsBefore(sorted[i], o)
        BY <1>6, <4>1
      <4>3. QED
        BY <1>4, <3>1, <4>2
    <3>3. QED
      BY <3>2
  <2>4. k \in 1 .. i - 1
    BY <1>1, <2>2, <2>3
  <2>5. QED
    BY <2>1, <2>4 DEF Done
<1>7. Done(sorted, i - 1) \subseteq overlaps
  <2>1. i - 1 \in 0 .. Len(sorted)
    BY <1>1
  <2>2. QED
    BY <2>1, DoneFacts
<1>8. \A p \in Done(sorted, i - 1) : StartsBefore(p, o)
  BY <1>5 DEF Done
<1>9. QED
  BY <1>6, <1>7, <1>8

\* A gap the sweep saw is one before an overlap.
LEMMA SweptGap ==
  ASSUME NEW edge \in Rects, NEW overlaps, AreOverlaps(edge, overlaps),
         NEW sorted, IsInOrder(sorted, overlaps),
         NEW gap \in GapsUpTo(edge, sorted, Len(sorted))
  PROVE  \E o \in overlaps : gap = GapBefore(edge, overlaps, o)
<1>1. Len(sorted) \in Nat
  BY SortedFacts
<1>2. PICK i \in 1 .. Len(sorted) : gap = GapAt(edge, sorted, i)
  BY DEF GapsUpTo
<1>3. gap.start < gap.end
  BY DEF GapsUpTo
<1>4. i - 1 \in 0 .. Len(sorted) /\ sorted[i] \in overlaps /\ sorted[i].start \in Int
  BY <1>1, SortedFacts
<1>5. Reach(edge, Done(sorted, i - 1)) < sorted[i].start
  BY <1>2, <1>3 DEF GapAt
<1>6. ASSUME NEW k \in 1 .. i - 1
      PROVE  ~(sorted[k].start = sorted[i].start /\ sorted[k].end = sorted[i].end)
  <2>1. k \in 1 .. Len(sorted)
    BY <1>1
  <2>2. sorted[k].start \in Int /\ sorted[k].end \in Int /\ sorted[k].start < sorted[k].end
    BY <2>1, SortedFacts
  <2>3. sorted[k].end <= Reach(edge, Done(sorted, i - 1)) /\ Reach(edge, Done(sorted, i - 1)) \in Int
    BY <1>4, DoneFacts
  <2>4. QED
    BY <1>4, <1>5, <2>2, <2>3
<1>7. Done(sorted, i - 1) = {p \in overlaps : StartsBefore(p, sorted[i])}
  BY <1>4, <1>6, DoneBefore
<1>8. gap = GapBefore(edge, overlaps, sorted[i])
  BY <1>2, <1>7 DEF GapAt, GapBefore
<1>9. QED
  BY <1>4, <1>8

\* A gap before an overlap is one the sweep saw, where the overlap came first.
LEMMA GapIsSwept ==
  ASSUME NEW edge \in Rects, NEW overlaps, AreOverlaps(edge, overlaps),
         NEW sorted, IsInOrder(sorted, overlaps), NEW o \in overlaps,
         GapBefore(edge, overlaps, o).start < GapBefore(edge, overlaps, o).end
  PROVE  GapBefore(edge, overlaps, o) \in GapsUpTo(edge, sorted, Len(sorted))
<1>1. Len(sorted) \in Nat /\ DOMAIN sorted = 1 .. Len(sorted)
  BY SortedFacts
<1> DEFINE T == {i \in 1 .. Len(sorted) : sorted[i].start = o.start /\ sorted[i].end = o.end}
<1>2. PICK i \in T : \A k \in T : i <= k
  <2>1. PICK j \in 1 .. Len(sorted) : sorted[j] = o
    BY <1>1 DEF IsInOrder
  <2>2. T \subseteq Nat /\ j \in T
    BY <1>1, <2>1
  <2> HIDE DEF T
  <2>3. QED
    BY <2>2, LeastNumber
<1>3. ASSUME NEW k \in 1 .. i - 1
      PROVE  ~(sorted[k].start = o.start /\ sorted[k].end = o.end)
  <2>1. k \in 1 .. Len(sorted) /\ ~(i <= k)
    BY <1>1
  <2>2. QED
    BY <1>2, <2>1
<1>4. Done(sorted, i - 1) = {p \in overlaps : StartsBefore(p, o)}
  BY <1>3, DoneBefore
<1>5. GapBefore(edge, overlaps, o) = GapAt(edge, sorted, i)
  BY <1>4 DEF GapAt, GapBefore
<1>6. QED
  BY <1>5 DEF GapsUpTo

\* After the last round every overlap is done.
LEMMA AllAreDone ==
  ASSUME NEW edge \in Rects, NEW overlaps, AreOverlaps(edge, overlaps),
         NEW sorted, IsInOrder(sorted, overlaps)
  PROVE  Done(sorted, Len(sorted)) = overlaps
<1>1. DOMAIN sorted = 1 .. Len(sorted) /\ \A i \in 1 .. Len(sorted) : sorted[i] \in overlaps
  BY SortedFacts
<1>2. \A o \in overlaps : \E i \in 1 .. Len(sorted) : sorted[i] = o
  BY <1>1 DEF IsInOrder
<1>3. QED
  BY <1>1, <1>2 DEF Done

\* find_safe_edge_segment (relocation.rs:96-113) finds the first of the widest
\* gaps: its loop, over any sorted vector of overlaps with or without
\* duplicates, returns what SafeEdgeSegment names.
THEOREM SweepIsCorrect ==
  ASSUME NEW edge \in Rects, NEW overlaps, AreOverlaps(edge, overlaps),
         NEW sorted, IsInOrder(sorted, overlaps)
  PROVE  SweptSegment(edge, sorted) = SafeEdgeSegment(edge, overlaps)
<1> DEFINE last == SweepStates(edge, sorted)[Len(sorted)]
           reach == Reach(edge, overlaps)
           inner == GapsUpTo(edge, sorted, Len(sorted))
           gaps == Gaps(edge, overlaps)
           swept == Wider(last.best, reach, Right(edge))
           safe == SafeEdgeSegment(edge, overlaps)
<1>1. Len(sorted) \in Nat /\ Len(sorted) \in 0 .. Len(sorted)
  BY SortedFacts
<1>2. last.cursor = reach /\ IsBest(last.best, inner)
  <2>1. SweepInv(edge, sorted, Len(sorted))
    BY <1>1, SweepKeeps
  <2>2. QED
    BY <2>1, AllAreDone DEF SweepInv
<1>3. AreGaps(inner) /\ \A gap \in inner : gap.start <= reach
  BY <1>1, GapsAreBehind, AllAreDone
<1>4. reach \in Int /\ Right(edge) \in Int
  BY ReachFacts DEF Rects, Right
<1> DEFINE outer == [start |-> reach, end |-> Right(edge)]
<1>5. gaps = inner \cup (IF reach < Right(edge) THEN {outer} ELSE {})
  <2>1. ASSUME NEW gap \in gaps PROVE gap \in inner \/ (gap = outer /\ reach < Right(edge))
    <3>1. gap.start < gap.end /\ (gap = outer \/ \E o \in overlaps : gap = GapBefore(edge, overlaps, o))
      BY DEF Gaps
    <3>2. ASSUME NEW o \in overlaps, gap = GapBefore(edge, overlaps, o) PROVE gap \in inner
      BY <3>1, <3>2, GapIsSwept
    <3>3. CASE gap = outer
      BY <3>1, <3>3
    <3>4. QED
      BY <3>1, <3>2, <3>3
  <2>2. ASSUME NEW gap \in inner PROVE gap \in gaps
    <3>1. \E o \in overlaps : gap = GapBefore(edge, overlaps, o)
      BY SweptGap
    <3>2. gap.start < gap.end
      BY <1>3 DEF AreGaps
    <3>3. QED
      BY <3>1, <3>2 DEF Gaps
  <2>3. reach < Right(edge) => outer \in gaps
    BY DEF Gaps
  <2> HIDE DEF gaps, inner, outer, reach
  <2>4. QED
    BY <2>1, <2>2, <2>3
<1>6. AreGaps(gaps)
  <2>1. outer.start = reach /\ outer.end = Right(edge) /\ outer \in [start : Int, end : Int]
    BY <1>4
  <2> HIDE DEF gaps, inner, outer, reach
  <2>2. QED
    BY <1>3, <1>5, <2>1 DEF AreGaps
<1>7. IsBest(swept, gaps)
  <2>1. gaps = inner \cup (IF reach < Right(edge) THEN {[start |-> reach, end |-> Right(edge)]} ELSE {})
    BY <1>5
  <2> HIDE DEF gaps, inner, reach, last
  <2>2. QED
    BY <1>2, <1>3, <1>4, <2>1, WiderKeepsBest
<1>8. IsBest(safe, gaps)
  <2>1. CASE gaps = {}
    BY <2>1 DEF IsBest, SafeEdgeSegment, NoSegment
  <2>2. CASE gaps # {}
    BY <2>2, SafeSegmentFacts DEF IsBest
  <2>3. QED
    BY <2>1, <2>2
<1>9. swept = safe
  <2> HIDE DEF gaps, swept, safe
  <2>1. QED
    BY <1>6, <1>7, <1>8, BestIsUnique
<1>10. SweptSegment(edge, sorted) = swept
  BY <1>2 DEF SweptSegment
<1>11. QED
  BY <1>9, <1>10
=============================================================================
