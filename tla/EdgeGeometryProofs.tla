------------------------ MODULE EdgeGeometryProofs ------------------------
(***************************************************************************)
(* The operators of EdgeGeometry, proved for every arrangement of displays *)
(* of any size and number: where a window below or on a display belongs,   *)
(* and that the trigger point of an edge with room lies where the cursor   *)
(* cannot leave the display. An extreme of a finite set is a CHOOSE; that  *)
(* there is one is the first group of lemmas.                              *)
(***************************************************************************)
EXTENDS EdgeGeometry, FiniteSetTheorems, WellFoundedInduction,
        FunctionTheorems, SequenceTheorems, TLAPS

\* The larger and the smaller of two numbers.
LEMMA MaxOfTwo ==
  ASSUME NEW a \in Int, NEW b \in Int
  PROVE  Max({a, b}) = IF a >= b THEN a ELSE b
BY DEF Max

\* The smaller of two numbers.
LEMMA MinOfTwo ==
  ASSUME NEW a \in Int, NEW b \in Int
  PROVE  Min({a, b}) = IF a <= b THEN a ELSE b
BY DEF Min

\* The largest of two numbers and zero.
LEMMA MaxWithZero ==
  ASSUME NEW a \in Int, NEW b \in Int
  PROVE  Max({a, b, 0}) = IF a >= b /\ a >= 0 THEN a ELSE IF b >= 0 THEN b ELSE 0
BY DEF Max

\* Two positive factors have a positive product.
LEMMA ProductPositive ==
  ASSUME NEW a \in Int, NEW b \in Int, a > 0, b > 0
  PROVE  a * b \in Int /\ a * b > 0
OBVIOUS

\* The square of a larger number is larger.
LEMMA SquareGrows ==
  ASSUME NEW a \in Nat, NEW b \in Nat, a < b
  PROVE  a * a < b * b
OBVIOUS

-----------------------------------------------------------------------------
\* Rectangles that have a point in common.
Meet(left, right) ==
  /\ left.x < Right(left) /\ right.x < Right(right)
  /\ left.x < Right(right) /\ right.x < Right(left)
  /\ left.y < Bottom(left) /\ right.y < Bottom(right)
  /\ left.y < Bottom(right) /\ right.y < Bottom(left)

\* Rect::intersection has an area exactly when the rectangles meet.
LEMMA AreaOfIntersection ==
  ASSUME NEW left \in Rects, NEW right \in Rects
  PROVE  /\ IntersectionArea(left, right) \in Nat
         /\ IntersectionArea(left, right) > 0 <=> Meet(left, right)
<1> DEFINE L == Max({left.x, right.x}) R == Min({Right(left), Right(right)})
           T == Max({left.y, right.y}) B == Min({Bottom(left), Bottom(right)})
<1>1. /\ left.x \in Int /\ left.y \in Int /\ left.width \in Nat /\ left.height \in Nat
      /\ right.x \in Int /\ right.y \in Int /\ right.width \in Nat /\ right.height \in Nat
  BY DEF Rects
<1>2. /\ Right(left) \in Int /\ Right(right) \in Int
      /\ Bottom(left) \in Int /\ Bottom(right) \in Int
  BY <1>1 DEF Right, Bottom
<1>3. /\ L = IF left.x >= right.x THEN left.x ELSE right.x
      /\ T = IF left.y >= right.y THEN left.y ELSE right.y
      /\ R = IF Right(left) <= Right(right) THEN Right(left) ELSE Right(right)
      /\ B = IF Bottom(left) <= Bottom(right) THEN Bottom(left) ELSE Bottom(right)
  BY <1>1, <1>2, MaxOfTwo, MinOfTwo
<1>4. IntersectionArea(left, right) =
        IF R - L <= 0 \/ B - T <= 0 THEN 0 ELSE (R - L) * (B - T)
  BY DEF IntersectionArea
<1> HIDE DEF L, R, T, B
<1>5. /\ R - L \in Int /\ B - T \in Int
      /\ (R - L > 0 /\ B - T > 0) <=> Meet(left, right)
  BY <1>1, <1>2, <1>3 DEF Meet
<1>6. CASE R - L > 0 /\ B - T > 0
  BY <1>4, <1>5, <1>6, ProductPositive
<1>7. CASE ~(R - L > 0 /\ B - T > 0)
  <2>1. IntersectionArea(left, right) = 0
    BY <1>4, <1>5, <1>7
  <2>2. QED
    BY <2>1, <1>5, <1>7
<1>8. QED
  BY <1>6, <1>7

-----------------------------------------------------------------------------
\* The parts of an arrangement have their types.
LEMMA ArrangementTypes ==
  ASSUME NEW layout, IsArrangement(layout), NEW i \in DOMAIN layout
  PROVE  /\ layout[i].display \in Displays
         /\ layout[i].bounds \in Rects
         /\ i \in 1 .. Len(layout) /\ Len(layout) \in Nat
<1> DEFINE S == [display : Displays, bounds : Rects]
<1>1. layout \in Seq(S)
  BY DEF IsArrangement
<1> HIDE DEF S
<1>2. /\ Len(layout) \in Nat /\ DOMAIN layout = 1 .. Len(layout)
      /\ \A k \in 1 .. Len(layout) : layout[k] \in S
  BY <1>1, LenProperties, ElementOfSeq
<1>3. layout[i] \in S
  BY <1>2
<1>4. layout[i].display \in Displays /\ layout[i].bounds \in Rects
  BY <1>3 DEF S
<1>5. QED
  BY <1>2, <1>4

\* The bounds a display is listed with are the bounds it is asked for.
LEMMA BoundsAreListed ==
  ASSUME NEW layout, IsArrangement(layout), NEW i \in DOMAIN layout
  PROVE  BoundsOf(layout, layout[i].display) = layout[i].bounds
BY DEF IsArrangement, BoundsOf

\* The only number of a set of one is its least.
LEMMA MinOfOne ==
  ASSUME NEW a \in Int
  PROVE  Min({a}) = a
BY DEF Min

\* A window that lies on one display is attributed to it.
LEMMA WindowOnDisplay ==
  ASSUME NEW layout, IsArrangement(layout), NEW i \in DOMAIN layout,
         NEW rect \in Rects, rect.width > 0, rect.height > 0,
         layout[i].bounds.x <= rect.x, Right(rect) <= Right(layout[i].bounds),
         layout[i].bounds.y <= rect.y, Bottom(rect) <= Bottom(layout[i].bounds)
  PROVE  DisplayForRect(layout, rect) = layout[i].display
<1> DEFINE area == [j \in DOMAIN layout |-> IntersectionArea(rect, layout[j].bounds)]
           largest == {j \in DOMAIN layout :
                         area[j] > 0 /\ \A k \in DOMAIN layout : area[k] <= area[j]}
<1>1. \A j \in DOMAIN layout : layout[j].bounds \in Rects
  BY ArrangementTypes
<1>2. area[i] > 0 /\ area[i] \in Nat
  <2>1. Meet(rect, layout[i].bounds)
    BY <1>1 DEF Meet, Rects, Right, Bottom
  <2>2. QED
    BY <1>1, <2>1, AreaOfIntersection
<1>3. ASSUME NEW j \in DOMAIN layout, j # i
      PROVE  area[j] = 0
  <2> IntersectionArea(layout[i].bounds, layout[j].bounds) = 0
    BY <1>3 DEF IsArrangement
  <2>1. ~Meet(layout[i].bounds, layout[j].bounds)
    BY <1>1, AreaOfIntersection
  <2>2. ~Meet(rect, layout[j].bounds)
    BY <1>1, <2>1 DEF Meet, Rects, Right, Bottom
  <2>3. QED
    BY <1>1, <2>2, AreaOfIntersection
<1>4. largest = {i}
  BY <1>2, <1>3
<1>5. i \in Int
  BY ArrangementTypes
<1>6. Area(rect) # 0
  <2>1. rect.width * rect.height > 0
    BY ProductPositive DEF Rects
  <2>2. QED
    BY <2>1 DEF Area
<1>7. DisplayForRect(layout, rect) = layout[Min(largest)].display
  BY <1>4, <1>6 DEF DisplayForRect
<1>8. QED
  BY <1>4, <1>5, <1>7, MinOfOne

-----------------------------------------------------------------------------
\* The distances nearest_display compares: the distance along each axis is
\* no less than how far the point lies outside on any side.
LEMMA DistanceParts ==
  ASSUME NEW rect \in Rects, NEW point \in [x : Int, y : Int]
  PROVE  \E dx, dy \in Nat :
           /\ SquaredDistance(rect, point) = dx * dx + dy * dy
           /\ dx >= rect.x - point.x /\ dx >= point.x - Right(rect)
           /\ dy >= rect.y - point.y /\ dy >= point.y - Bottom(rect)
           /\ rect.x <= point.x /\ point.x <= Right(rect) => dx = 0
           /\ rect.y <= point.y /\ point.y > Bottom(rect) => dy = point.y - Bottom(rect)
<1> DEFINE dx == Max({rect.x - point.x, point.x - Right(rect), 0})
           dy == Max({rect.y - point.y, point.y - Bottom(rect), 0})
<1>1. /\ rect.x - point.x \in Int /\ point.x - Right(rect) \in Int
      /\ rect.y - point.y \in Int /\ point.y - Bottom(rect) \in Int
      /\ Right(rect) \in Int /\ Bottom(rect) \in Int
  BY DEF Rects, Right, Bottom
<1>2. SquaredDistance(rect, point) = dx * dx + dy * dy
  BY DEF SquaredDistance
<1>3. /\ dx = IF rect.x - point.x >= point.x - Right(rect) /\ rect.x - point.x >= 0
              THEN rect.x - point.x
              ELSE IF point.x - Right(rect) >= 0 THEN point.x - Right(rect) ELSE 0
      /\ dy = IF rect.y - point.y >= point.y - Bottom(rect) /\ rect.y - point.y >= 0
              THEN rect.y - point.y
              ELSE IF point.y - Bottom(rect) >= 0 THEN point.y - Bottom(rect) ELSE 0
  BY <1>1, MaxWithZero
<1> HIDE DEF dx, dy
<1>4. /\ dx \in Nat /\ dx >= rect.x - point.x /\ dx >= point.x - Right(rect)
      /\ rect.x <= point.x /\ point.x <= Right(rect) => dx = 0
  BY <1>1, <1>3 DEF Rects
<1>5. /\ dy \in Nat /\ dy >= rect.y - point.y /\ dy >= point.y - Bottom(rect)
      /\ rect.y <= point.y /\ point.y > Bottom(rect) => dy = point.y - Bottom(rect)
  BY <1>1, <1>3 DEF Rects
<1>6. QED
  BY <1>2, <1>4, <1>5

\* A sum of two squares is at least each of them.
LEMMA SquaresAdd ==
  ASSUME NEW a \in Nat, NEW b \in Nat
  PROVE  a * a \in Nat /\ b * b \in Nat /\ a * a + b * b >= a * a /\ a * a + b * b >= b * b
OBVIOUS

\* The strip an auto-hiding Dock slides to is attributed to the display it
\* slid off, when no other display lies there or begins right below it.
LEMMA StripBelowDisplay ==
  ASSUME NEW layout, IsArrangement(layout), NEW i \in DOMAIN layout,
         NEW h \in 10 .. NearestDisplayMaxDistance, NEW rect \in Rects,
         \A j \in DOMAIN layout : layout[j].bounds.width >= 4 * h /\ layout[j].bounds.height >= h,
         rect = [x |-> layout[i].bounds.x + layout[i].bounds.width \div 4,
                 y |-> Bottom(layout[i].bounds),
                 width |-> layout[i].bounds.width \div 2, height |-> h],
         \A j \in DOMAIN layout :
           IntersectionArea([rect EXCEPT !.height = @ + 1], layout[j].bounds) = 0
  PROVE  DisplayForRect(layout, rect) = layout[i].display
<1> DEFINE own == layout[i].bounds
           point == [x |-> rect.x + rect.width \div 2, y |-> rect.y + rect.height \div 2]
           far == h \div 2
           taller == [rect EXCEPT !.height = @ + 1]
           area == [j \in DOMAIN layout |-> IntersectionArea(rect, layout[j].bounds)]
           largest == {j \in DOMAIN layout :
                         area[j] > 0 /\ \A k \in DOMAIN layout : area[k] <= area[j]}
           distance == [j \in DOMAIN layout |-> SquaredDistance(layout[j].bounds, point)]
           nearest == {j \in DOMAIN layout :
                         /\ distance[j] < NearestDisplayMaxDistance * NearestDisplayMaxDistance
                         /\ \A k \in DOMAIN layout : distance[j] <= distance[k]}
<1>1. \A j \in DOMAIN layout : /\ layout[j].bounds \in Rects
                               /\ layout[j].bounds.width > 0 /\ layout[j].bounds.height > 0
  <2>1. ASSUME NEW j \in DOMAIN layout
        PROVE  /\ layout[j].bounds \in Rects
               /\ layout[j].bounds.width > 0 /\ layout[j].bounds.height > 0
    <3>1. layout[j].bounds \in Rects
      BY ArrangementTypes
    <3>2. layout[j].bounds.width \in Nat /\ layout[j].bounds.height \in Nat
      BY <3>1 DEF Rects
    <3>3. QED
      BY <3>1, <3>2 DEF NearestDisplayMaxDistance
  <2>2. QED
    BY <2>1
<1>2. /\ own.x \in Int /\ own.y \in Int /\ own.width \in Nat /\ own.height \in Nat
      /\ h \in Nat /\ h >= 10 /\ h <= 512 /\ own.width >= 4 * h /\ own.height >= h
  BY <1>1 DEF Rects, NearestDisplayMaxDistance
<1>3. /\ taller \in Rects
      /\ taller.x = rect.x /\ taller.y = rect.y /\ taller.width = rect.width
      /\ taller.height = h + 1
  BY <1>2 DEF Rects
<1>4. /\ far \in Nat /\ far < h /\ far < 512 /\ h - far >= far /\ far > 0
      /\ rect.width >= 2 * h /\ rect.width \in Nat
      /\ rect.width \div 2 \in Nat /\ rect.width \div 2 >= h
      /\ rect.width - rect.width \div 2 >= h
      /\ own.width \div 4 \in Nat /\ own.width \div 4 >= h
      /\ own.width \div 4 + rect.width <= own.width
  BY <1>2
<1>5. /\ point \in [x : Int, y : Int]
      /\ point.x = own.x + own.width \div 4 + rect.width \div 2
      /\ point.y = Bottom(own) + far /\ Bottom(own) \in Int
  BY <1>2, <1>4 DEF Bottom
<1> HIDE DEF far, point, taller
<1>6. ASSUME NEW j \in DOMAIN layout
      PROVE  ~Meet(taller, layout[j].bounds)
  <2>1. IntersectionArea(taller, layout[j].bounds) = 0
    BY DEF taller
  <2>2. QED
    BY <1>1, <1>3, <2>1, AreaOfIntersection
<1>7. ASSUME NEW j \in DOMAIN layout
      PROVE  area[j] = 0
  <2>1. ~Meet(rect, layout[j].bounds)
    BY <1>1, <1>2, <1>3, <1>4, <1>6 DEF Meet, Right, Bottom, Rects
  <2>2. QED
    BY <1>1, <2>1, AreaOfIntersection
<1>8. largest = {}
  BY <1>7
<1>9. distance[i] \in Nat /\ distance[i] = far * far
  <2>1. PICK dx \in Nat, dy \in Nat :
          /\ SquaredDistance(own, point) = dx * dx + dy * dy
          /\ own.x <= point.x /\ point.x <= Right(own) => dx = 0
          /\ own.y <= point.y /\ point.y > Bottom(own) => dy = point.y - Bottom(own)
    BY <1>1, <1>5, DistanceParts
  <2>2. dx = 0
    BY <1>2, <1>4, <1>5, <2>1 DEF Right
  <2>3. dy = far
    BY <1>2, <1>4, <1>5, <2>1 DEF Bottom
  <2>4. QED
    BY <2>1, <2>2, <2>3, <1>4
<1>10. ASSUME NEW j \in DOMAIN layout, j # i
       PROVE  distance[j] \in Nat /\ distance[j] > far * far
  <2> DEFINE b == layout[j].bounds
  <2>1. PICK dx \in Nat, dy \in Nat :
          /\ SquaredDistance(b, point) = dx * dx + dy * dy
          /\ dx >= b.x - point.x /\ dx >= point.x - Right(b)
          /\ dy >= b.y - point.y /\ dy >= point.y - Bottom(b)
    BY <1>1, <1>5, DistanceParts
  <2>2. /\ b.x \in Int /\ b.y \in Int /\ b.width \in Nat /\ b.height \in Nat
        /\ b.width > 0 /\ b.height > 0
    BY <1>1 DEF Rects
  <2>3. ~Meet(taller, b)
    BY <1>6
  <2>4. ~Meet(own, b)
    <3>1. IntersectionArea(own, b) = 0
      BY <1>10 DEF IsArrangement
    <3>2. QED
      BY <1>1, <3>1, AreaOfIntersection
  <2> HIDE DEF own, b
  <2>5. dx > far \/ dy > far
    <3>1. CASE b.x >= Right(taller)
      BY <1>2, <1>3, <1>4, <1>5, <2>1, <2>2, <3>1 DEF Right, own
    <3>2. CASE Right(b) <= taller.x
      BY <1>2, <1>3, <1>4, <1>5, <2>1, <2>2, <3>2 DEF Right, own
    <3>3. CASE b.y >= Bottom(taller)
      BY <1>2, <1>3, <1>4, <1>5, <2>1, <2>2, <3>3 DEF Bottom, own
    <3>4. CASE Bottom(b) < Bottom(own)
      BY <1>2, <1>3, <1>4, <1>5, <2>1, <2>2, <3>4 DEF Bottom
    <3>5. CASE Bottom(b) = Bottom(own)
      <4>1. b.x >= Right(own) \/ Right(b) <= own.x
        BY <1>2, <2>2, <2>4, <3>5, <1>4 DEF Meet, Right, Bottom
      <4>2. QED
        BY <1>2, <1>3, <1>4, <1>5, <2>1, <2>2, <4>1 DEF Right, own
    <3>6. /\ taller.y = Bottom(own) /\ taller.x < Right(taller)
          /\ taller.y < Bottom(taller) /\ b.x < Right(b) /\ b.y < Bottom(b)
      BY <1>2, <1>3, <1>4, <2>2 DEF Right, Bottom, own
    <3>7. /\ taller.x \in Int /\ taller.y \in Int
          /\ Right(taller) \in Int /\ Bottom(taller) \in Int
          /\ Right(b) \in Int /\ Bottom(b) \in Int
      BY <1>3, <2>2 DEF Right, Bottom, Rects
    <3>8. \/ b.x >= Right(taller) \/ Right(b) <= taller.x
          \/ b.y >= Bottom(taller) \/ Bottom(b) <= taller.y
      BY <2>2, <2>3, <3>6, <3>7 DEF Meet
    <3>9. QED
      BY <3>1, <3>2, <3>3, <3>4, <3>5, <3>6, <3>7, <3>8
  <2>6. dx * dx + dy * dy \in Nat /\ dx * dx + dy * dy > far * far
    <3>1. far * far \in Nat
      BY <1>4
    <3>2. CASE dx > far
      <4>1. far * far < dx * dx
        BY <1>4, <3>2, SquareGrows
      <4>2. QED
        BY <3>1, <4>1, SquaresAdd
    <3>3. CASE dy > far
      <4>1. far * far < dy * dy
        BY <1>4, <3>3, SquareGrows
      <4>2. QED
        BY <3>1, <4>1, SquaresAdd
    <3>4. QED
      BY <2>5, <3>2, <3>3
  <2>7. QED
    BY <2>1, <2>6 DEF b
<1>11. far * far < NearestDisplayMaxDistance * NearestDisplayMaxDistance
  BY <1>4, SquareGrows DEF NearestDisplayMaxDistance
<1>12. nearest = {i}
  <2> HIDE DEF distance
  <2>1. far * far \in Nat
    BY <1>4
  <2>2. QED
    BY <1>9, <1>10, <1>11, <2>1
<1>13. Area(rect) # 0
  BY <1>2, <1>4, ProductPositive DEF Area
<1>14. DisplayForRect(layout, rect) = layout[Min(nearest)].display
  <2>1. DisplayForRect(layout, rect) = NearestDisplay(layout, point)
    BY <1>8, <1>13 DEF DisplayForRect, point
  <2>2. NearestDisplay(layout, point) = layout[Min(nearest)].display
    BY <1>12 DEF NearestDisplay
  <2>3. QED
    BY <2>1, <2>2
<1>15. i \in Int
  BY ArrangementTypes
<1>16. QED
  BY <1>12, <1>14, <1>15, MinOfOne

-----------------------------------------------------------------------------
\* A set of natural numbers that is not empty has a least one.
LEMMA LeastNumber ==
  ASSUME NEW T, T \subseteq Nat, T # {}
  PROVE  \E m \in T : \A k \in T : m <= k
<1>1. PICK m \in T : \A k \in T : ~(<<k, m>> \in OpToRel(<, Nat))
  BY NatLessThanWellFounded, WFMin
<1>2. \A k \in T : ~(k < m)
  <2>1. ASSUME NEW k \in T, k < m PROVE <<k, m>> \in OpToRel(<, Nat)
    BY <2>1 DEF OpToRel
  <2>2. QED
    BY <1>1, <2>1
<1>3. QED
  BY <1>2

\* A set of integers with a lower bound has a least one.
LEMMA LeastInteger ==
  ASSUME NEW T, T \subseteq Int, T # {}, NEW low \in Int, \A k \in T : low <= k
  PROVE  \E m \in T : \A k \in T : m <= k
<1> DEFINE D == {k - low : k \in T}
<1>1. D \subseteq Nat /\ D # {}
  <2>1. ASSUME NEW n \in D PROVE n \in Nat
    OBVIOUS
  <2>2. PICK k \in T : TRUE
    OBVIOUS
  <2>3. k - low \in D
    OBVIOUS
  <2> HIDE DEF D
  <2>4. QED
    BY <2>1, <2>3
<1>2. PICK d \in D : \A k \in D : d <= k
  <2> HIDE DEF D
  <2>1. QED
    BY <1>1, LeastNumber
<1>3. PICK m \in T : d = m - low
  OBVIOUS
<1>4. \A k \in T : m <= k
  <2>1. ASSUME NEW k \in T PROVE m <= k
    <3>1. k - low \in D
      OBVIOUS
    <3>2. d <= k - low
      BY <1>2, <3>1
    <3>3. QED
      BY <1>3, <3>2
  <2>2. QED
    BY <2>1
<1>5. QED
  BY <1>4

\* A set of integers with an upper bound has a largest one, which is its Max.
LEMMA LargestInteger ==
  ASSUME NEW T, T \subseteq Int, T # {}, NEW high \in Int, \A k \in T : k <= high
  PROVE  Max(T) \in T /\ \A k \in T : k <= Max(T)
<1> DEFINE D == {high - k : k \in T}
<1>1. D \subseteq Nat /\ D # {}
  <2>1. ASSUME NEW n \in D PROVE n \in Nat
    OBVIOUS
  <2>2. PICK k \in T : TRUE
    OBVIOUS
  <2>3. high - k \in D
    OBVIOUS
  <2> HIDE DEF D
  <2>4. QED
    BY <2>1, <2>3
<1>2. PICK d \in D : \A k \in D : d <= k
  <2> HIDE DEF D
  <2>1. QED
    BY <1>1, LeastNumber
<1>3. PICK m \in T : d = high - m
  OBVIOUS
<1>4. \A k \in T : m >= k
  <2>1. ASSUME NEW k \in T PROVE m >= k
    <3>1. high - k \in D
      OBVIOUS
    <3>2. d <= high - k
      BY <1>2, <3>1
    <3>3. QED
      BY <1>3, <3>2
  <2>2. QED
    BY <2>1
<1>5. Max(T) \in T /\ \A k \in T : Max(T) >= k
  BY <1>4 DEF Max
<1>6. QED
  BY <1>5

-----------------------------------------------------------------------------
\* What collect_edge_overlaps gives: stretches of the edge.
AreOverlaps(edge, overlaps) ==
  \A o \in overlaps : /\ o.start \in Int /\ o.end \in Int
                      /\ edge.x <= o.start /\ o.end <= Right(edge)
                      /\ o.end - o.start > 2

\* The overlaps reach as far as one of them does, or not at all.
LEMMA ReachFacts ==
  ASSUME NEW edge \in Rects, NEW overlaps, AreOverlaps(edge, overlaps)
  PROVE  /\ Reach(edge, overlaps) \in Int /\ Reach(edge, overlaps) >= edge.x
         /\ \A o \in overlaps : o.end <= Reach(edge, overlaps)
         /\ Reach(edge, overlaps) = edge.x \/ \E o \in overlaps : Reach(edge, overlaps) = o.end
<1> DEFINE T == {edge.x} \cup {o.end : o \in overlaps}
<1>1. edge.x \in Int /\ Right(edge) \in Int /\ edge.x <= Right(edge)
  BY DEF Rects, Right
<1>2. T \subseteq Int /\ T # {} /\ \A k \in T : k <= Right(edge)
  BY <1>1 DEF AreOverlaps
<1>3. Reach(edge, overlaps) = Max(T)
  BY DEF Reach
<1>4. Max(T) \in T /\ \A k \in T : k <= Max(T)
  <2> HIDE DEF T
  <2>1. QED
    BY <1>1, <1>2, LargestInteger
<1>5. edge.x \in T /\ \A o \in overlaps : o.end \in T
  OBVIOUS
<1>6. Reach(edge, overlaps) = edge.x \/ \E o \in overlaps : Reach(edge, overlaps) = o.end
  BY <1>3, <1>4
<1>7. QED
  <2> HIDE DEF T
  <2>1. QED
    BY <1>2, <1>3, <1>4, <1>5, <1>6

\* A gap lies on the edge and no overlap lies in it.
LEMMA GapFacts ==
  ASSUME NEW edge \in Rects, NEW overlaps, AreOverlaps(edge, overlaps),
         NEW gap \in Gaps(edge, overlaps)
  PROVE  /\ gap.start \in Int /\ gap.end \in Int /\ gap.start < gap.end
         /\ edge.x <= gap.start /\ gap.end <= Right(edge)
         /\ \A o \in overlaps : o.end <= gap.start \/ gap.end <= o.start
<1>1. edge.x \in Int /\ Right(edge) \in Int
  BY DEF Rects, Right
<1>2. gap.start < gap.end
  BY DEF Gaps
<1>3. CASE gap = [start |-> Reach(edge, overlaps), end |-> Right(edge)]
  BY <1>1, <1>2, <1>3, ReachFacts
<1>4. ASSUME NEW o \in overlaps, gap = GapBefore(edge, overlaps, o)
      PROVE  /\ gap.start \in Int /\ gap.end \in Int
             /\ edge.x <= gap.start /\ gap.end <= Right(edge)
             /\ \A p \in overlaps : p.end <= gap.start \/ gap.end <= p.start
  <2> DEFINE before == {p \in overlaps : StartsBefore(p, o)}
  <2>1. gap.start = Reach(edge, before) /\ gap.end = o.start
    BY <1>4 DEF GapBefore
  <2>2. AreOverlaps(edge, before)
    BY DEF AreOverlaps
  <2>3. /\ o.start \in Int /\ o.end \in Int
        /\ o.start <= Right(edge)
    BY <1>1 DEF AreOverlaps
  <2>4. /\ Reach(edge, before) \in Int /\ Reach(edge, before) >= edge.x
        /\ \A p \in before : p.end <= Reach(edge, before)
    <3> HIDE DEF before
    <3>1. QED
      BY <2>2, ReachFacts
  <2>5. \A p \in overlaps : p \in before \/ o.start <= p.start
    BY <2>3 DEF StartsBefore, AreOverlaps
  <2>6. QED
    BY <1>1, <2>1, <2>3, <2>4, <2>5
<1>5. gap = [start |-> Reach(edge, overlaps), end |-> Right(edge)]
        \/ \E o \in overlaps : gap = GapBefore(edge, overlaps, o)
  BY DEF Gaps
<1>6. QED
  BY <1>2, <1>3, <1>4, <1>5

\* Among overlaps there is one that comes first.
LEMMA FirstOverlap ==
  ASSUME NEW edge \in Rects, NEW some, AreOverlaps(edge, some), some # {}
  PROVE  \E o \in some : \A p \in some : ~StartsBefore(p, o)
<1>1. edge.x \in Int
  BY DEF Rects
<1> DEFINE starts == {o.start : o \in some}
<1>2. PICK start \in starts : \A k \in starts : start <= k
  <2>1. \A k \in starts : k \in Int /\ edge.x <= k
    BY DEF AreOverlaps
  <2>2. starts # {}
    <3>1. PICK o \in some : TRUE
      OBVIOUS
    <3>2. o.start \in starts
      OBVIOUS
    <3>3. QED
      BY <3>2
  <2> HIDE DEF starts
  <2>3. QED
    BY <1>1, <2>1, <2>2, LeastInteger
<1>3. PICK first \in some : first.start = start
  BY <1>2
<1>4. \A o \in some : first.start <= o.start
  BY <1>2, <1>3
<1> DEFINE ends == {o.end : o \in {p \in some : p.start = first.start}}
<1>5. PICK end \in ends : \A k \in ends : end <= k
  <2>1. \A k \in ends : k \in Int /\ edge.x <= k
    BY <1>1 DEF AreOverlaps
  <2>2. first.end \in ends
    OBVIOUS
  <2> HIDE DEF ends
  <2>3. QED
    BY <1>1, <2>1, <2>2, LeastInteger
<1>6. PICK least \in some : least.start = first.start /\ least.end = end
  BY <1>5
<1>7. ASSUME NEW p \in some, StartsBefore(p, least) PROVE FALSE
  <2>1. /\ p.start \in Int /\ p.end \in Int /\ least.start \in Int /\ least.end \in Int
    BY DEF AreOverlaps
  <2>2. least.start <= p.start
    BY <1>4, <1>6
  <2>3. p.start = least.start /\ p.end < least.end
    BY <1>7, <2>1, <2>2 DEF StartsBefore
  <2>4. p.end \in ends
    BY <1>6, <2>3
  <2>5. least.end <= p.end
    BY <1>5, <1>6, <2>4
  <2>6. QED
    BY <2>1, <2>3, <2>5
<1>8. QED
  BY <1>7

\* Neighbouring columns that no overlap covers lie in one gap.
LEMMA GapAround ==
  ASSUME NEW edge \in Rects, NEW overlaps, AreOverlaps(edge, overlaps),
         NEW x \in Int, NEW n \in Nat, edge.x <= x, x + n < Right(edge),
         \A c \in x .. x + n, o \in overlaps : ~(o.start <= c /\ c < o.end)
  PROVE  \E gap \in Gaps(edge, overlaps) : gap.start <= x /\ x + n < gap.end
<1>1. edge.x \in Int /\ Right(edge) \in Int
  BY DEF Rects, Right
<1>2. \A o \in overlaps : o.start \in Int /\ o.end \in Int /\ o.end - o.start > 2
  BY DEF AreOverlaps
<1>3. \A o \in overlaps : o.end <= x \/ x + n < o.start
  <2>1. ASSUME NEW o \in overlaps, o.end > x PROVE x + n < o.start
    <3>1. o.start > x
      BY <1>2, <2>1
    <3>2. o.start \notin x .. x + n
      BY <1>2
    <3>3. QED
      BY <1>2, <3>1, <3>2
  <2>2. QED
    BY <1>2, <2>1
<1> DEFINE after == {o \in overlaps : x + n < o.start}
<1>4. CASE after = {}
  <2> DEFINE gap == [start |-> Reach(edge, overlaps), end |-> Right(edge)]
  <2>1. \A o \in overlaps : o.end <= x
    BY <1>3, <1>4
  <2>2. Reach(edge, overlaps) \in Int /\ Reach(edge, overlaps) <= x
    BY <2>1, ReachFacts
  <2>3. gap.start <= x /\ x + n < gap.end /\ gap.start < gap.end
    BY <1>1, <2>2
  <2>4. gap \in Gaps(edge, overlaps)
    BY <2>3 DEF Gaps
  <2>5. QED
    BY <2>3, <2>4
<1>5. CASE after # {}
  <2>1. AreOverlaps(edge, after)
    BY DEF AreOverlaps
  <2>2. PICK o \in after : \A p \in after : ~StartsBefore(p, o)
    <3> HIDE DEF after
    <3>1. QED
      BY <1>5, <2>1, FirstOverlap
  <2> DEFINE before == {p \in overlaps : StartsBefore(p, o)}
             gap == GapBefore(edge, overlaps, o)
  <2>3. \A p \in before : p.end <= x
    BY <1>3, <2>2
  <2>4. AreOverlaps(edge, before)
    BY DEF AreOverlaps
  <2>5. Reach(edge, before) \in Int /\ Reach(edge, before) <= x
    <3> HIDE DEF before
    <3>1. QED
      BY <2>3, <2>4, ReachFacts
  <2>6. gap.start = Reach(edge, before) /\ gap.end = o.start
    BY DEF GapBefore
  <2>7. gap.start <= x /\ x + n < gap.end /\ gap.start < gap.end
    BY <1>2, <2>2, <2>5, <2>6
  <2>8. gap \in Gaps(edge, overlaps)
    BY <2>2, <2>7 DEF Gaps
  <2>9. QED
    BY <2>7, <2>8
<1>6. QED
  BY <1>4, <1>5

\* find_safe_edge_segment gives a gap, none is wider, and none as wide is
\* further left.
LEMMA SafeSegmentFacts ==
  ASSUME NEW edge \in Rects, NEW overlaps, AreOverlaps(edge, overlaps),
         Gaps(edge, overlaps) # {}
  PROVE  LET safe == SafeEdgeSegment(edge, overlaps)
         IN  /\ safe \in Gaps(edge, overlaps)
             /\ \A gap \in Gaps(edge, overlaps) :
                  /\ gap.end - gap.start <= safe.end - safe.start
                  /\ gap.end - gap.start = safe.end - safe.start => safe.start <= gap.start
<1> DEFINE gaps == Gaps(edge, overlaps)
           widest == {gap \in gaps : \A other \in gaps :
                        other.end - other.start <= gap.end - gap.start}
           widths == {gap.end - gap.start : gap \in gaps}
           starts == {gap.start : gap \in widest}
           safe == SafeEdgeSegment(edge, overlaps)
<1>1. edge.x \in Int /\ Right(edge) \in Int
  BY DEF Rects, Right
<1>2. \A gap \in gaps : /\ gap.start \in Int /\ gap.end \in Int
                         /\ edge.x <= gap.start /\ gap.end <= Right(edge)
  BY GapFacts
<1>3. safe = CHOOSE gap \in widest : \A other \in widest : gap.start <= other.start
  BY DEF SafeEdgeSegment
<1> HIDE DEF gaps, safe
<1>4. Max(widths) \in widths /\ \A k \in widths : k <= Max(widths)
  <2>1. ASSUME NEW k \in widths
        PROVE  k \in Int /\ k <= Right(edge) - edge.x
    BY <1>1, <1>2
  <2>2. PICK gap \in gaps : TRUE
    BY DEF gaps
  <2>3. gap.end - gap.start \in widths
    OBVIOUS
  <2> HIDE DEF widths
  <2>4. widths \subseteq Int /\ widths # {}
    BY <2>1, <2>3
  <2>5. Right(edge) - edge.x \in Int
    BY <1>1
  <2>6. QED
    BY <2>1, <2>4, <2>5, LargestInteger
<1>5. PICK wide \in gaps : Max(widths) = wide.end - wide.start
  BY <1>4
<1>6. wide \in widest
  <2>1. ASSUME NEW other \in gaps
        PROVE  other.end - other.start <= wide.end - wide.start
    <3>1. other.end - other.start \in widths
      OBVIOUS
    <3> HIDE DEF widths
    <3>2. QED
      BY <1>4, <1>5, <3>1
  <2>2. QED
    BY <2>1
<1>7. PICK start \in starts : \A k \in starts : start <= k
  <2>1. \A k \in starts : k \in Int /\ edge.x <= k
    BY <1>2
  <2>2. wide.start \in starts
    BY <1>6
  <2> HIDE DEF starts
  <2>3. QED
    BY <1>1, <2>1, <2>2, LeastInteger
<1>8. PICK left \in widest : left.start = start
  BY <1>7
<1>9. \A other \in widest : left.start <= other.start
  BY <1>7, <1>8
<1>10. safe \in widest /\ \A other \in widest : safe.start <= other.start
  <2> HIDE DEF widest
  <2>1. QED
    BY <1>3, <1>9
<1>11. safe \in gaps /\ \A gap \in gaps : gap.end - gap.start <= safe.end - safe.start
  BY <1>10
<1>12. ASSUME NEW gap \in gaps, gap.end - gap.start = safe.end - safe.start
       PROVE  safe.start <= gap.start
  <2>1. gap \in widest
    BY <1>11, <1>12
  <2>2. QED
    BY <1>10, <2>1
<1>13. QED
  BY <1>11, <1>12 DEF gaps, safe

-----------------------------------------------------------------------------
\* A column of a display's bottom edge that no other display continues, right
\* below it or a point further.
ColumnIsFree(layout, target, x) ==
  LET bounds == BoundsOf(layout, target)
  IN  /\ bounds.x <= x /\ x < Right(bounds)
      /\ \A i \in DOMAIN layout, y \in Bottom(bounds) .. Bottom(bounds) + 1 :
           ~RectContains(layout[i].bounds, [x |-> x, y |-> y])

\* No display is so small that the distances of relocation.rs exceed it.
IsRoomy(layout) ==
  \A i \in DOMAIN layout :
    layout[i].bounds.width >= 40 /\ layout[i].bounds.height >= 10

\* The stretch of the edge that a display shares.
SharedStart(edge, other) == Max({edge.x, other.x})
SharedEnd(edge, other) == Min({Right(edge), Right(other)})

\* The shared stretch runs between the nearer ends.
LEMMA SharedFacts ==
  ASSUME NEW edge \in Rects, NEW other \in Rects
  PROVE  /\ SharedStart(edge, other) = IF edge.x >= other.x THEN edge.x ELSE other.x
         /\ SharedEnd(edge, other) =
              IF Right(edge) <= Right(other) THEN Right(edge) ELSE Right(other)
BY MaxOfTwo, MinOfTwo DEF SharedStart, SharedEnd, Rects, Right

\* The overlaps are the stretches shared with displays that adjoin the edge
\* over more than two points.
LEMMA OverlapsAreShared ==
  ASSUME NEW layout, IsArrangement(layout), NEW t \in DOMAIN layout
  PROVE  LET edge == layout[t].bounds
             overlaps == EdgeOverlaps(layout, layout[t].display)
         IN  /\ \A o \in overlaps : \E i \in DOMAIN layout :
                  /\ i # t /\ Adjoins(layout[i].bounds, edge)
                  /\ o.start = SharedStart(edge, layout[i].bounds)
                  /\ o.end = SharedEnd(edge, layout[i].bounds)
                  /\ o.end - o.start > 2
             /\ \A i \in DOMAIN layout :
                  /\ i # t /\ Adjoins(layout[i].bounds, edge)
                  /\ SharedEnd(edge, layout[i].bounds)
                       - SharedStart(edge, layout[i].bounds) > 2
                  => \E o \in overlaps : /\ o.start = SharedStart(edge, layout[i].bounds)
                                         /\ o.end = SharedEnd(edge, layout[i].bounds)
<1> DEFINE edge == layout[t].bounds
           target == layout[t].display
           overlaps == EdgeOverlaps(layout, target)
           adjoining == {i \in DOMAIN layout : /\ layout[i].display # target
                                               /\ Adjoins(layout[i].bounds, edge)}
           shared(other) == [start |-> SharedStart(edge, other),
                             end   |-> SharedEnd(edge, other)]
<1>1. overlaps = {segment \in {shared(layout[i].bounds) : i \in adjoining} :
                    segment.end - segment.start > 2}
  <2>1. BoundsOf(layout, target) = edge
    BY BoundsAreListed
  <2>2. QED
    BY <2>1 DEF EdgeOverlaps, SharedStart, SharedEnd
<1>2. \A i \in DOMAIN layout : i # t <=> layout[i].display # target
  BY DEF IsArrangement
<1> HIDE DEF edge, target, overlaps
<1>3. ASSUME NEW o \in overlaps
      PROVE  \E i \in DOMAIN layout :
               /\ i # t /\ Adjoins(layout[i].bounds, edge)
               /\ o.start = SharedStart(edge, layout[i].bounds)
               /\ o.end = SharedEnd(edge, layout[i].bounds)
               /\ o.end - o.start > 2
  BY <1>1, <1>2
<1>4. ASSUME NEW i \in DOMAIN layout, i # t, Adjoins(layout[i].bounds, edge),
             SharedEnd(edge, layout[i].bounds) - SharedStart(edge, layout[i].bounds) > 2
      PROVE  \E o \in overlaps : /\ o.start = SharedStart(edge, layout[i].bounds)
                                 /\ o.end = SharedEnd(edge, layout[i].bounds)
  <2>1. i \in adjoining
    BY <1>2, <1>4
  <2>2. shared(layout[i].bounds) \in overlaps
    BY <1>1, <1>4, <2>1
  <2>3. QED
    BY <2>2
<1>5. QED
  BY <1>3, <1>4 DEF edge, target, overlaps

\* The overlaps of a display's edge are stretches of it.
LEMMA OverlapsAreStretches ==
  ASSUME NEW layout, IsArrangement(layout), NEW t \in DOMAIN layout
  PROVE  AreOverlaps(layout[t].bounds, EdgeOverlaps(layout, layout[t].display))
<1> DEFINE edge == layout[t].bounds
           overlaps == EdgeOverlaps(layout, layout[t].display)
<1>1. ASSUME NEW o \in overlaps
      PROVE  /\ o.start \in Int /\ o.end \in Int
             /\ edge.x <= o.start /\ o.end <= Right(edge)
             /\ o.end - o.start > 2
  <2>1. PICK i \in DOMAIN layout :
          /\ o.start = SharedStart(edge, layout[i].bounds)
          /\ o.end = SharedEnd(edge, layout[i].bounds)
          /\ o.end - o.start > 2
    BY OverlapsAreShared
  <2>2. edge \in Rects /\ layout[i].bounds \in Rects
    BY ArrangementTypes
  <2> DEFINE other == layout[i].bounds
  <2> HIDE DEF edge, overlaps, other
  <2>3. /\ edge.x \in Int /\ Right(edge) \in Int
        /\ other.x \in Int /\ Right(other) \in Int
    BY <2>2 DEF Rects, Right, other
  <2>4. /\ o.start = IF edge.x >= other.x THEN edge.x ELSE other.x
        /\ o.end = IF Right(edge) <= Right(other) THEN Right(edge) ELSE Right(other)
    BY <2>1, <2>2, SharedFacts DEF other
  <2>5. QED
    BY <2>1, <2>3, <2>4
<1>2. QED
  BY <1>1 DEF AreOverlaps

\* The trigger is a whole number of points, whatever adjoins the edge.
LEMMA TriggerIsInteger ==
  ASSUME NEW layout, IsArrangement(layout), NEW t \in DOMAIN layout
  PROVE  TriggerX(layout, layout[t].display) \in Int
<1> DEFINE edge == layout[t].bounds
           target == layout[t].display
           overlaps == EdgeOverlaps(layout, target)
           safe == SafeEdgeSegment(edge, overlaps)
           preferred == Max({Right(edge) - TriggerInset, edge.x})
<1>1. edge \in Rects /\ BoundsOf(layout, target) = edge
  BY ArrangementTypes, BoundsAreListed
<1>2. AreOverlaps(edge, overlaps)
  BY OverlapsAreStretches
<1>3. TriggerX(layout, target) = safe.start + (safe.end - safe.start) \div 2
        \/ TriggerX(layout, target) = preferred
  BY <1>1 DEF TriggerX
<1>4. preferred \in Int
  <2> HIDE DEF edge
  <2>1. edge.x \in Int /\ Right(edge) - TriggerInset \in Int
    BY <1>1 DEF Rects, Right, TriggerInset
  <2>2. QED
    BY <2>1, MaxOfTwo
<1> HIDE DEF edge, overlaps, preferred
<1>5. safe.start \in Int /\ safe.end \in Int
  <2>1. CASE Gaps(edge, overlaps) = {}
    <3>1. safe = [start |-> 0, end |-> 0]
      BY <2>1 DEF SafeEdgeSegment
    <3>2. QED
      BY <3>1
  <2>2. CASE Gaps(edge, overlaps) # {}
    <3>1. safe \in Gaps(edge, overlaps)
      BY <1>1, <1>2, <2>2, SafeSegmentFacts
    <3>2. QED
      BY <1>1, <1>2, <3>1, GapFacts
  <2>3. QED
    BY <2>1, <2>2
<1>6. QED
  <2> HIDE DEF safe, target
  <2>1. safe.start + (safe.end - safe.start) \div 2 \in Int
    BY <1>5
  <2>2. QED
    BY <1>3, <1>4, <2>1 DEF target

-----------------------------------------------------------------------------
\* No column of an overlap is free.
LEMMA OverlapsAreTaken ==
  ASSUME NEW layout, IsArrangement(layout), IsRoomy(layout), NEW t \in DOMAIN layout,
         NEW o \in EdgeOverlaps(layout, layout[t].display),
         NEW x \in Int, o.start <= x, x < o.end
  PROVE  ~ColumnIsFree(layout, layout[t].display, x)
<1> DEFINE edge == layout[t].bounds
<1>1. PICK i \in DOMAIN layout :
        /\ i # t /\ Adjoins(layout[i].bounds, edge)
        /\ o.start = SharedStart(edge, layout[i].bounds)
        /\ o.end = SharedEnd(edge, layout[i].bounds)
  BY OverlapsAreShared
<1> DEFINE other == layout[i].bounds
<1>2. /\ edge \in Rects /\ other \in Rects
      /\ BoundsOf(layout, layout[t].display) = edge
  BY ArrangementTypes, BoundsAreListed
<1>3. ~Meet(edge, other)
  <2>1. IntersectionArea(edge, other) = 0
    BY <1>1 DEF IsArrangement
  <2>2. QED
    BY <1>2, <2>1, AreaOfIntersection
<1>4. other.width >= 40 /\ other.height >= 10 /\ edge.width >= 40 /\ edge.height >= 10
  BY DEF IsRoomy
<1>5. /\ o.start = IF edge.x >= other.x THEN edge.x ELSE other.x
      /\ o.end = IF Right(edge) <= Right(other) THEN Right(edge) ELSE Right(other)
  BY <1>1, <1>2, SharedFacts
<1>6. Adjoins(other, edge)
  BY <1>1
<1> HIDE DEF edge, other
<1>7. /\ edge.x \in Int /\ edge.y \in Int /\ edge.width \in Nat /\ edge.height \in Nat
      /\ other.x \in Int /\ other.y \in Int /\ other.width \in Nat /\ other.height \in Nat
  BY <1>2 DEF Rects
<1>8. /\ edge.x <= x /\ x < Right(edge) /\ other.x <= x /\ x < Right(other)
  BY <1>5, <1>7 DEF Right
<1>9. other.y >= Bottom(edge) \/ Bottom(other) <= edge.y
  BY <1>3, <1>4, <1>7, <1>8 DEF Meet, Right, Bottom
<1>10. other.y \in Bottom(edge) .. Bottom(edge) + 1
  BY <1>4, <1>6, <1>7, <1>9 DEF Adjoins, Bottom
<1>11. RectContains(other, [x |-> x, y |-> Bottom(edge) + 1])
  BY <1>4, <1>7, <1>8, <1>10 DEF RectContains, Bottom
<1>12. Bottom(edge) + 1 \in Bottom(edge) .. Bottom(edge) + 1
  BY <1>7 DEF Bottom
<1>13. QED
  BY <1>2, <1>11, <1>12 DEF ColumnIsFree, other

\* A column of the edge that no overlap covers is free, but for two at each
\* end: there a display may adjoin the edge over two points unnoticed.
LEMMA ClearColumnsAreFree ==
  ASSUME NEW layout, IsArrangement(layout), IsRoomy(layout), NEW t \in DOMAIN layout,
         NEW x \in Int,
         layout[t].bounds.x + 2 <= x, x + 2 < Right(layout[t].bounds),
         \A o \in EdgeOverlaps(layout, layout[t].display) : ~(o.start <= x /\ x < o.end)
  PROVE  ColumnIsFree(layout, layout[t].display, x)
<1> DEFINE edge == layout[t].bounds
<1>1. edge \in Rects /\ BoundsOf(layout, layout[t].display) = edge
  BY ArrangementTypes, BoundsAreListed
<1>2. /\ edge.x \in Int /\ edge.y \in Int /\ edge.width \in Nat /\ edge.height \in Nat
      /\ edge.width >= 40 /\ edge.height >= 10 /\ Right(edge) \in Int /\ Bottom(edge) \in Int
  BY <1>1 DEF Rects, Right, Bottom, IsRoomy
<1>3. ASSUME NEW i \in DOMAIN layout, NEW y \in Bottom(edge) .. Bottom(edge) + 1,
             RectContains(layout[i].bounds, [x |-> x, y |-> y])
      PROVE  FALSE
  <2> DEFINE other == layout[i].bounds
  <2>1. other \in Rects
    BY ArrangementTypes
  <2>2. /\ other.x \in Int /\ other.y \in Int /\ other.width \in Nat /\ other.height \in Nat
        /\ other.width >= 40 /\ Right(other) \in Int /\ Bottom(other) \in Int
    BY <2>1 DEF Rects, Right, Bottom, IsRoomy
  <2>3. other.x <= x /\ x < Right(other) /\ other.y <= y /\ y < Bottom(other)
    BY <1>3 DEF RectContains
  <2>4. i # t
    BY <1>2, <2>3
  <2>5. Adjoins(other, edge)
    <3> HIDE DEF edge, other
    <3>1. QED
      BY <1>2, <2>2, <2>3 DEF Adjoins
  <2>6. /\ SharedStart(edge, other) = IF edge.x >= other.x THEN edge.x ELSE other.x
        /\ SharedEnd(edge, other) =
             IF Right(edge) <= Right(other) THEN Right(edge) ELSE Right(other)
    BY <1>1, <2>1, SharedFacts
  <2>7. /\ SharedEnd(edge, other) - SharedStart(edge, other) > 2
        /\ SharedStart(edge, other) <= x /\ x < SharedEnd(edge, other)
    <3> HIDE DEF edge, other
    <3>1. Right(edge) = edge.x + edge.width /\ Right(other) = other.x + other.width
      BY DEF Right
    <3>2. edge.x + 2 <= x /\ x + 2 < Right(edge)
      BY DEF edge
    <3>3. QED
      BY <1>2, <2>2, <2>3, <2>6, <3>1, <3>2
  <2>8. PICK o \in EdgeOverlaps(layout, layout[t].display) :
          o.start = SharedStart(edge, other) /\ o.end = SharedEnd(edge, other)
    BY <2>4, <2>5, <2>7, OverlapsAreShared
  <2>9. QED
    BY <2>7, <2>8
<1>4. edge.x <= x /\ x < Right(edge)
  BY <1>2
<1>5. QED
  BY <1>1, <1>3, <1>4 DEF ColumnIsFree

\* choose_trigger_coordinate finds a free column on every edge that has four
\* free columns side by side.
THEOREM TriggerIsFree ==
  ASSUME NEW layout, IsArrangement(layout), IsRoomy(layout), NEW t \in DOMAIN layout,
         NEW x \in Int,
         \A c \in x .. x + 3 : ColumnIsFree(layout, layout[t].display, c)
  PROVE  ColumnIsFree(layout, layout[t].display, TriggerX(layout, layout[t].display))
<1> DEFINE edge == layout[t].bounds
           target == layout[t].display
           overlaps == EdgeOverlaps(layout, target)
           safe == SafeEdgeSegment(edge, overlaps)
           preferred == Max({Right(edge) - TriggerInset, edge.x})
           centre == safe.start + (safe.end - safe.start) \div 2
<1>1. edge \in Rects /\ BoundsOf(layout, target) = edge
  BY ArrangementTypes, BoundsAreListed
<1>2. edge.x \in Int /\ edge.width \in Nat /\ edge.width >= 40 /\ Right(edge) = edge.x + edge.width
  BY <1>1 DEF Rects, Right, IsRoomy
<1>3. AreOverlaps(edge, overlaps)
  BY OverlapsAreStretches
<1>4. ASSUME NEW c \in Int, edge.x + 2 <= c, c + 2 < Right(edge),
             \A o \in overlaps : ~(o.start <= c /\ c < o.end)
      PROVE  ColumnIsFree(layout, target, c)
  BY <1>4, ClearColumnsAreFree
<1>5. \A c \in x .. x + 3, o \in overlaps : ~(o.start <= c /\ c < o.end)
  BY OverlapsAreTaken
<1>6. preferred = Right(edge) - 10
  <2>1. Right(edge) - TriggerInset \in Int /\ Right(edge) - TriggerInset >= edge.x
    BY <1>2 DEF TriggerInset
  <2>2. QED
    BY <1>2, <2>1, MaxOfTwo DEF TriggerInset
<1>7. TriggerX(layout, target) =
        IF \E o \in overlaps : o.start <= preferred /\ preferred <= o.end
        THEN centre ELSE preferred
  BY <1>1 DEF TriggerX
<1>8. CASE ~\E o \in overlaps : o.start <= preferred /\ preferred <= o.end
  <2>1. \A o \in overlaps : o.start \in Int /\ o.end \in Int
    BY <1>3 DEF AreOverlaps
  <2> HIDE DEF overlaps, preferred, edge
  <2>2. /\ preferred \in Int /\ edge.x + 2 <= preferred /\ preferred + 2 < Right(edge)
        /\ \A o \in overlaps : ~(o.start <= preferred /\ preferred < o.end)
    BY <1>2, <1>6, <1>8, <2>1
  <2>3. ColumnIsFree(layout, target, preferred)
    BY <1>4, <2>2
  <2>4. TriggerX(layout, target) = preferred
    BY <1>7, <1>8
  <2>5. QED
    BY <2>3, <2>4
<1>9. CASE \E o \in overlaps : o.start <= preferred /\ preferred <= o.end
  <2>1. TriggerX(layout, target) = centre
    BY <1>7, <1>9
  <2>2. edge.x <= x /\ x + 3 < Right(edge)
    <3>1. x \in x .. x + 3 /\ x + 3 \in x .. x + 3
      OBVIOUS
    <3>2. QED
      BY <1>1, <3>1 DEF ColumnIsFree
  <2>3. PICK around \in Gaps(edge, overlaps) : around.start <= x /\ x + 3 < around.end
    <3> HIDE DEF edge, overlaps
    <3>1. QED
      BY <1>1, <1>3, <1>5, <2>2, GapAround
  <2>4. /\ safe \in Gaps(edge, overlaps)
        /\ around.end - around.start <= safe.end - safe.start
        /\ around.end - around.start = safe.end - safe.start => safe.start <= around.start
    <3> HIDE DEF edge, overlaps
    <3>1. QED
      BY <1>1, <1>3, <2>3, SafeSegmentFacts
  <2> HIDE DEF safe
  <2>5. /\ around.start \in Int /\ around.end \in Int
        /\ edge.x <= around.start /\ around.end <= Right(edge)
    <3> HIDE DEF edge, overlaps
    <3>1. QED
      BY <1>1, <1>3, <2>3, GapFacts
  <2>6. /\ safe.start \in Int /\ safe.end \in Int
        /\ edge.x <= safe.start /\ safe.end <= Right(edge)
        /\ \A o \in overlaps : o.end <= safe.start \/ safe.end <= o.start
    <3> HIDE DEF edge, overlaps
    <3>1. QED
      BY <1>1, <1>3, <2>4, GapFacts
  <2>7. \A o \in overlaps : o.start \in Int /\ o.end \in Int
    BY <1>3 DEF AreOverlaps
  <2>8. /\ centre \in Int /\ safe.start + 2 <= centre /\ centre + 2 <= safe.end
        /\ safe.end - safe.start # 4 => centre + 2 < safe.end
        /\ safe.end - safe.start = 4 => centre = safe.start + 2
    BY <2>3, <2>4, <2>5, <2>6
  <2> HIDE DEF overlaps, edge, target, centre
  <2>9. \A o \in overlaps : ~(o.start <= centre /\ centre < o.end)
    BY <2>6, <2>7, <2>8
  <2>10. edge.x + 2 <= centre
    BY <1>2, <2>6, <2>8
  <2>11. CASE centre + 2 < Right(edge)
    <3>1. ColumnIsFree(layout, target, centre)
      BY <1>4, <2>8, <2>9, <2>10, <2>11
    <3>2. QED
      BY <2>1, <3>1 DEF target
  <2>12. CASE centre + 2 >= Right(edge)
    <3>1. safe.end = Right(edge) /\ safe.end - safe.start = 4 /\ centre = safe.start + 2
      BY <1>2, <2>6, <2>8, <2>12
    <3>2. around.end - around.start = 4 /\ around.start = x
      BY <2>3, <2>4, <2>5, <3>1
    <3>3. safe.start = x
      BY <1>2, <2>4, <2>5, <2>6, <2>3, <3>1, <3>2
    <3>4. centre \in x .. x + 3
      BY <3>1, <3>3
    <3>5. ColumnIsFree(layout, target, centre)
      BY <3>4 DEF target
    <3>6. QED
      BY <2>1, <3>5 DEF target
  <2>13. QED
    BY <1>2, <2>8, <2>11, <2>12
<1>10. QED
  BY <1>8, <1>9
=============================================================================
