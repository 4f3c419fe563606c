------------------------- MODULE MatrixLayoutProofs -------------------------
(***************************************************************************)
(* What Neighbor guarantees of every layout, whatever the machine names,   *)
(* which is what HostSwitch assumes of its layouts (LayoutsAssumption), and *)
(* what a crossing does with the cursor's pixel, whatever the desktops.    *)
(***************************************************************************)
EXTENDS Crossing, TLAPS

USE DEF MaxMachine, Slots, NoSlot, Directions

\* A non-empty set of steps has a least one.
LEMMA LeastStep ==
    ASSUME NEW S \in SUBSET (1..MaxMachine), S # {}
    PROVE  /\ (CHOOSE n \in S : \A k \in S : n <= k) \in S
           /\ \A k \in S : (CHOOSE n \in S : \A j \in S : n <= j) <= k
<1>1. \E n \in S : \A k \in S : n <= k
  <2>1. CASE 1 \in S
    BY <2>1
  <2>2. CASE 1 \notin S /\ 2 \in S
    BY <2>2
  <2>3. CASE 1 \notin S /\ 2 \notin S /\ 3 \in S
    BY <2>3
  <2>4. CASE 1 \notin S /\ 2 \notin S /\ 3 \notin S
    <3>1. \A k \in S : k = 4
      BY <2>4
    <3>2. PICK n \in S : TRUE
      OBVIOUS
    <3>3. \A k \in S : n <= k
      BY <3>1, <3>2
    <3> QED
      BY <3>2, <3>3
  <2> QED
    BY <2>1, <2>2, <2>3, <2>4
<1> QED
  BY <1>1

LEMMA RowSound ==
    ASSUME NEW m \in Matrices, NEW self \in Slots, NEW step \in {-1, 1}
    PROVE  RowNeighbor(m, self, step) \in {NoSlot} \cup (Occupied(m) \ {self})
<1> DEFINE hits == {n \in 1..MaxMachine : RowAt(m, self, step, n) \in Occupied(m) \ {self}}
           least == CHOOSE n \in hits : \A k \in hits : n <= k
<1>1. CASE hits = {}
  BY <1>1 DEF RowNeighbor
<1>2. CASE hits # {}
  <2>1. least \in hits
    <3> HIDE DEF hits
    <3>1. hits \in SUBSET (1..MaxMachine)
      BY DEF hits
    <3> QED
      BY <1>2, <3>1, LeastStep
  <2>2. RowNeighbor(m, self, step) = RowAt(m, self, step, least)
    BY <1>2 DEF RowNeighbor
  <2> HIDE DEF least
  <2> QED
    BY <2>1, <2>2
<1> QED
  BY <1>1, <1>2

LEMMA SquareSound ==
    ASSUME NEW m \in Matrices, NEW self \in Slots, NEW d \in Directions
    PROVE  SquareNeighbor(m, self, d) \in {NoSlot} \cup (Occupied(m) \ {self})
<1> DEFINE row == (self - 1) \div 2
           col == (self - 1) % 2
           direct == CASE d = "right"  -> SquareAt(row, col + 1)
                       [] d = "left"   -> SquareAt(row, col - 1)
                       [] d = "bottom" -> SquareAt(row + 1, col)
                       [] d = "top"    -> SquareAt(row - 1, col)
<1>1. /\ row \in 0..1 /\ col \in 0..1 /\ self = 2 * row + col + 1
  OBVIOUS
<1>2. direct # self
  <2> HIDE DEF row, col
  <2> QED
    BY <1>1 DEF SquareAt
<1>3. SquareNeighbor(m, self, d) # NoSlot /\ SquareNeighbor(m, self, d) # direct
        => SquareNeighbor(m, self, d) \in Occupied(m) \ {self}
  BY DEF SquareNeighbor
<1>4. SquareNeighbor(m, self, d) # NoSlot => SquareNeighbor(m, self, d) \in Occupied(m)
  BY DEF SquareNeighbor
<1> QED
  BY <1>2, <1>3, <1>4

\* The machine across an edge is another one and its slot is occupied: for all
\* layouts, wrapped or not, in a row or a square.
THEOREM NeighborSound ==
    ASSUME NEW m \in Matrices, NEW self, NEW d \in Directions
    PROVE  Neighbor(m, self, d) \in {NoSlot} \cup (Occupied(m) \ {self})
  BY RowSound, SquareSound DEF Neighbor

\* The matrix is a layout and the focus rests on an occupied slot.
LayoutInv == matrix \in Matrices /\ FocusOccupied

LEMMA LayoutInvariance == Spec => []LayoutInv
<1>1. Init => LayoutInv
  BY DEF Init, LayoutInv, FocusOccupied
<1>2. LayoutInv /\ [Next]_vars => LayoutInv'
  <2> SUFFICES ASSUME matrix \in Matrices, FocusOccupied, [Next]_vars
               PROVE  LayoutInv'
    BY DEF LayoutInv
  <2>1. ASSUME NEW d \in Directions, Cross(d) PROVE LayoutInv'
    <3>1. Neighbor(matrix, focus, d) \in Occupied(matrix)
      BY <2>1, NeighborSound DEF Cross
    <3> QED
      BY <2>1, <3>1 DEF Cross, LayoutInv, FocusOccupied, Occupied
  <2>2. CASE UNCHANGED vars
    BY <2>2 DEF vars, LayoutInv, FocusOccupied, Occupied
  <2> QED
    BY <2>1, <2>2 DEF Next
<1> QED
  BY <1>1, <1>2, PTL DEF Spec

\* However many edges the focus crosses, it rests on an occupied slot, which is
\* what Neighbor's skipping of vacant slots is for (matrix.go:65).
THEOREM FocusStaysOccupied == Spec => []FocusOccupied
<1>1. LayoutInv => FocusOccupied
  BY DEF LayoutInv
<1> QED
  BY <1>1, LayoutInvariance, PTL

-----------------------------------------------------------------------------
(* The 1x4 row.                                                             *)

LEMMA RowForward ==
    ASSUME NEW m \in Matrices, NEW self \in Slots, NEW n \in 1..MaxMachine
    PROVE  /\ ~m.wrap => RowAt(m, self, 1, n) = self + n
           /\ m.wrap /\ self + n <= MaxMachine => RowAt(m, self, 1, n) = self + n
           /\ m.wrap /\ self + n > MaxMachine => RowAt(m, self, 1, n) = self + n - MaxMachine
<1>1. \A x \in 1..8 : /\ x <= 4 => ((x - 1 + 32) % 4) + 1 = x
                      /\ x > 4 => ((x - 1 + 32) % 4) + 1 = x - 4
  OBVIOUS
<1>2. self + n \in 1..8 /\ self - 1 + n * 1 + 4 * 8 = self + n - 1 + 32
  OBVIOUS
<1> QED
  BY <1>1, <1>2 DEF RowAt

LEMMA RowBackward ==
    ASSUME NEW m \in Matrices, NEW self \in Slots, NEW n \in 1..MaxMachine
    PROVE  /\ ~m.wrap => RowAt(m, self, -1, n) = self - n
           /\ m.wrap /\ self - n >= 1 => RowAt(m, self, -1, n) = self - n
           /\ m.wrap /\ self - n < 1 => RowAt(m, self, -1, n) = self - n + MaxMachine
<1>1. \A x \in -3..3 : /\ x >= 1 => ((x - 1 + 32) % 4) + 1 = x
                       /\ x < 1 => ((x - 1 + 32) % 4) + 1 = x + 4
  OBVIOUS
<1>2. self - n \in -3..3 /\ self - 1 + n * (-1) + 4 * 8 = self - n - 1 + 32
  OBVIOUS
<1> QED
  BY <1>1, <1>2 DEF RowAt

\* RowNeighbor is the first slot of the walk that another machine has.
LEMMA FirstOnWalk ==
    ASSUME NEW m \in Matrices, NEW self \in Slots, NEW step \in {-1, 1}
    PROVE  LET others == Occupied(m) \ {self}
           IN  \/ /\ RowNeighbor(m, self, step) = NoSlot
                  /\ \A n \in 1..MaxMachine : RowAt(m, self, step, n) \notin others
               \/ \E n \in 1..MaxMachine :
                     /\ RowNeighbor(m, self, step) = RowAt(m, self, step, n)
                     /\ RowAt(m, self, step, n) \in others
                     /\ \A k \in 1..MaxMachine : RowAt(m, self, step, k) \in others => n <= k
<1> DEFINE hits == {n \in 1..MaxMachine : RowAt(m, self, step, n) \in Occupied(m) \ {self}}
           least == CHOOSE n \in hits : \A k \in hits : n <= k
<1>1. CASE hits = {}
  BY <1>1 DEF RowNeighbor
<1>2. CASE hits # {}
  <2>1. least \in hits /\ \A k \in hits : least <= k
    <3> HIDE DEF hits
    <3>1. hits \in SUBSET (1..MaxMachine)
      BY DEF hits
    <3> QED
      BY <1>2, <3>1, LeastStep
  <2>2. RowNeighbor(m, self, step) = RowAt(m, self, step, least)
    BY <1>2 DEF RowNeighbor
  <2> HIDE DEF least
  <2> QED
    BY <2>1, <2>2
<1> QED
  BY <1>1, <1>2

\* To the right: the nearest machine after us, or round the end the first one.
RightOf(m, self, others, t) ==
    \/ t = NoSlot /\ \A u \in others : u < self /\ ~m.wrap
    \/ t \in others /\ t > self /\ \A u \in others : u > self => t <= u
    \/ t \in others /\ t < self /\ m.wrap /\ \A u \in others : u < self /\ t <= u

LEMMA NearestRight ==
    ASSUME NEW m \in Matrices, NEW self \in Slots
    PROVE  RightOf(m, self, Occupied(m) \ {self}, RowNeighbor(m, self, 1))
<1> DEFINE others == Occupied(m) \ {self}
           t == RowNeighbor(m, self, 1)
<1>1. \A u \in others : u \in 1..4 /\ u # self
  BY DEF Occupied
<1>2. m.wrap \in BOOLEAN
  BY DEF Matrices
<1>3. \/ t = NoSlot /\ \A n \in 1..MaxMachine : RowAt(m, self, 1, n) \notin others
      \/ \E n \in 1..MaxMachine :
            /\ t = RowAt(m, self, 1, n)
            /\ RowAt(m, self, 1, n) \in others
            /\ \A k \in 1..MaxMachine : RowAt(m, self, 1, k) \in others => n <= k
  BY FirstOnWalk
<1> SUFFICES RightOf(m, self, others, t)
  OBVIOUS
<1> HIDE DEF others, t
<1>4. \A u \in others : u > self => u - self \in 1..4 /\ RowAt(m, self, 1, u - self) = u
  <2> SUFFICES ASSUME NEW u \in others, u > self
               PROVE  u - self \in 1..4 /\ RowAt(m, self, 1, u - self) = u
    OBVIOUS
  <2>1. PICK n \in 1..4 : n = u - self /\ self + n = u /\ 1 <= u /\ u <= 4
    BY <1>1
  <2> QED
    BY <2>1, <1>2, RowForward
<1>5. \A u \in others : m.wrap /\ u < self
          => u + 4 - self \in 1..4 /\ RowAt(m, self, 1, u + 4 - self) = u
  <2> SUFFICES ASSUME NEW u \in others, m.wrap, u < self
               PROVE  u + 4 - self \in 1..4 /\ RowAt(m, self, 1, u + 4 - self) = u
    OBVIOUS
  <2>1. PICK n \in 1..4 : n = u + 4 - self /\ self + n > 4 /\ self + n - 4 = u
    BY <1>1
  <2> QED
    BY <2>1, RowForward
<1>6. CASE t = NoSlot /\ \A n \in 1..MaxMachine : RowAt(m, self, 1, n) \notin others
  BY <1>1, <1>2, <1>4, <1>5, <1>6 DEF RightOf
<1>7. CASE \E n \in 1..MaxMachine :
              /\ t = RowAt(m, self, 1, n)
              /\ RowAt(m, self, 1, n) \in others
              /\ \A k \in 1..MaxMachine : RowAt(m, self, 1, k) \in others => n <= k
  <2>1. PICK n \in 1..MaxMachine :
              /\ t = RowAt(m, self, 1, n)
              /\ RowAt(m, self, 1, n) \in others
              /\ \A k \in 1..MaxMachine : RowAt(m, self, 1, k) \in others => n <= k
    BY <1>7
  <2>2. \A u \in others : u > self => n <= u - self
    BY <1>4, <2>1
  <2>3. \A u \in others : m.wrap /\ u < self => n <= u + 4 - self
    BY <1>5, <2>1
  <2>4. CASE t = self + n
    <3>1. t \in others /\ t > self
      BY <2>1, <2>4
    <3>2. ASSUME NEW u \in others, u > self PROVE u >= t
      BY <1>1, <2>2, <2>4, <3>2
    <3> QED
      BY <3>1, <3>2 DEF RightOf
  <2>5. CASE m.wrap /\ self + n > 4 /\ t = self + n - 4
    <3>1. t \in others /\ t < self
      BY <1>1, <2>1, <2>5
    <3>2. \A u \in others : u < self
      BY <1>1, <2>2, <2>5
    <3> QED
      BY <1>1, <2>3, <2>5, <3>1, <3>2 DEF RightOf
  <2> QED
    BY <1>2, <2>1, <2>4, <2>5, RowForward
<1> QED
  BY <1>3, <1>6, <1>7

\* To the left: the nearest machine before us, or round the end the last one.
LeftOf(m, self, others, t) ==
    \/ t = NoSlot /\ \A u \in others : u > self /\ ~m.wrap
    \/ t \in others /\ t < self /\ \A u \in others : u < self => u <= t
    \/ t \in others /\ t > self /\ m.wrap /\ \A u \in others : u > self /\ u <= t

LEMMA NearestLeft ==
    ASSUME NEW m \in Matrices, NEW self \in Slots
    PROVE  LeftOf(m, self, Occupied(m) \ {self}, RowNeighbor(m, self, -1))
<1> DEFINE others == Occupied(m) \ {self}
           t == RowNeighbor(m, self, -1)
<1>1. \A u \in others : u \in 1..4 /\ u # self
  BY DEF Occupied
<1>2. m.wrap \in BOOLEAN
  BY DEF Matrices
<1>3. \/ t = NoSlot /\ \A n \in 1..MaxMachine : RowAt(m, self, -1, n) \notin others
      \/ \E n \in 1..MaxMachine :
            /\ t = RowAt(m, self, -1, n)
            /\ RowAt(m, self, -1, n) \in others
            /\ \A k \in 1..MaxMachine : RowAt(m, self, -1, k) \in others => n <= k
  BY FirstOnWalk
<1> SUFFICES LeftOf(m, self, others, t)
  OBVIOUS
<1> HIDE DEF others, t
<1>4. \A u \in others : u < self => self - u \in 1..4 /\ RowAt(m, self, -1, self - u) = u
  <2> SUFFICES ASSUME NEW u \in others, u < self
               PROVE  self - u \in 1..4 /\ RowAt(m, self, -1, self - u) = u
    OBVIOUS
  <2>1. PICK n \in 1..4 : n = self - u /\ self - n = u /\ 1 <= u /\ u <= 4
    BY <1>1
  <2> QED
    BY <2>1, <1>2, RowBackward
<1>5. \A u \in others : m.wrap /\ u > self
          => self + 4 - u \in 1..4 /\ RowAt(m, self, -1, self + 4 - u) = u
  <2> SUFFICES ASSUME NEW u \in others, m.wrap, u > self
               PROVE  self + 4 - u \in 1..4 /\ RowAt(m, self, -1, self + 4 - u) = u
    OBVIOUS
  <2>1. PICK n \in 1..4 : n = self + 4 - u /\ self - n < 1 /\ self - n + 4 = u
    BY <1>1
  <2> QED
    BY <2>1, RowBackward
<1>6. CASE t = NoSlot /\ \A n \in 1..MaxMachine : RowAt(m, self, -1, n) \notin others
  BY <1>1, <1>2, <1>4, <1>5, <1>6 DEF LeftOf
<1>7. CASE \E n \in 1..MaxMachine :
              /\ t = RowAt(m, self, -1, n)
              /\ RowAt(m, self, -1, n) \in others
              /\ \A k \in 1..MaxMachine : RowAt(m, self, -1, k) \in others => n <= k
  <2>1. PICK n \in 1..MaxMachine :
              /\ t = RowAt(m, self, -1, n)
              /\ RowAt(m, self, -1, n) \in others
              /\ \A k \in 1..MaxMachine : RowAt(m, self, -1, k) \in others => n <= k
    BY <1>7
  <2>2. \A u \in others : u < self => n <= self - u
    BY <1>4, <2>1
  <2>3. \A u \in others : m.wrap /\ u > self => n <= self + 4 - u
    BY <1>5, <2>1
  <2>4. CASE t = self - n
    <3>1. t \in others /\ t < self
      BY <2>1, <2>4
    <3>2. ASSUME NEW u \in others, u < self PROVE u <= t
      BY <1>1, <2>2, <2>4, <3>2
    <3> QED
      BY <3>1, <3>2 DEF LeftOf
  <2>5. CASE m.wrap /\ self - n < 1 /\ t = self - n + 4
    <3>1. t \in others /\ t > self
      BY <1>1, <2>1, <2>5
    <3>2. \A u \in others : u > self
      BY <1>1, <2>2, <2>5
    <3> QED
      BY <1>1, <2>3, <2>5, <3>1, <3>2 DEF LeftOf
  <2> QED
    BY <1>2, <2>1, <2>4, <2>5, RowBackward
<1> QED
  BY <1>3, <1>6, <1>7

LEMMA LeastIs ==
    ASSUME NEW S \in SUBSET Int, NEW t \in S, \A u \in S : t <= u
    PROVE  Least(S) = t
<1>1. \A x \in S : (\A y \in S : x <= y) => x = t
  OBVIOUS
<1> QED
  BY <1>1 DEF Least

LEMMA GreatestIs ==
    ASSUME NEW S \in SUBSET Int, NEW t \in S, \A u \in S : u <= t
    PROVE  Greatest(S) = t
<1>1. \A x \in S : (\A y \in S : y <= x) => x = t
  OBVIOUS
<1> QED
  BY <1>1 DEF Greatest

\* In a row the walk of Neighbor finds the machine of the reference definition:
\* the nearest one on that side, or the farthest on the other when it wraps
\* (matrix.go:70-88).
THEOREM RowFindsNearest == Spec => []NearestOnRow
<1>1. LayoutInv => NearestOnRow
  <2> SUFFICES ASSUME matrix \in Matrices, focus \in Occupied(matrix), ~matrix.twoRow
               PROVE  NearestOnRow
    BY DEF LayoutInv, FocusOccupied, NearestOnRow
  <2> DEFINE others == Occupied(matrix) \ {focus}
             after  == {t \in others : t > focus}
             before == {t \in others : t < focus}
             right  == IF after # {} THEN Least(after)
                       ELSE IF matrix.wrap /\ before # {} THEN Least(before) ELSE NoSlot
             left   == IF before # {} THEN Greatest(before)
                       ELSE IF matrix.wrap /\ after # {} THEN Greatest(after) ELSE NoSlot
  <2>1. focus \in Slots /\ \A u \in others : u \in 1..4 /\ u # focus
    BY DEF Occupied
  <2>2. RowNeighbor(matrix, focus, 1) = right
    <3> DEFINE t == RowNeighbor(matrix, focus, 1)
    <3>1. RightOf(matrix, focus, others, t)
      BY <2>1, NearestRight
    <3> SUFFICES t = right
      OBVIOUS
    <3> HIDE DEF t, others
    <3>2. CASE t = NoSlot /\ \A u \in others : u < focus /\ ~matrix.wrap
      <4>1. after = {} /\ (before # {} => ~matrix.wrap)
        BY <2>1, <3>2
      <4> QED
        BY <3>2, <4>1
    <3>3. CASE t \in others /\ t > focus /\ \A u \in others : u > focus => t <= u
      <4>1. after \in SUBSET Int /\ t \in after /\ \A u \in after : t <= u
        BY <2>1, <3>3
      <4>2. Least(after) = t
        BY <4>1, LeastIs
      <4> QED
        BY <4>1, <4>2
    <3>4. CASE t \in others /\ t < focus /\ matrix.wrap /\ \A u \in others : u < focus /\ t <= u
      <4>1. after = {} /\ before \in SUBSET Int /\ t \in before /\ \A u \in before : t <= u
        BY <2>1, <3>4
      <4>2. Least(before) = t
        BY <4>1, LeastIs
      <4> QED
        BY <3>4, <4>1, <4>2
    <3> QED
      BY <3>1, <3>2, <3>3, <3>4 DEF RightOf
  <2>3. RowNeighbor(matrix, focus, -1) = left
    <3> DEFINE t == RowNeighbor(matrix, focus, -1)
    <3>1. LeftOf(matrix, focus, others, t)
      BY <2>1, NearestLeft
    <3> SUFFICES t = left
      OBVIOUS
    <3> HIDE DEF t, others
    <3>2. CASE t = NoSlot /\ \A u \in others : u > focus /\ ~matrix.wrap
      <4>1. before = {} /\ (after # {} => ~matrix.wrap)
        BY <2>1, <3>2
      <4> QED
        BY <3>2, <4>1
    <3>3. CASE t \in others /\ t < focus /\ \A u \in others : u < focus => u <= t
      <4>1. before \in SUBSET Int /\ t \in before /\ \A u \in before : u <= t
        BY <2>1, <3>3
      <4>2. Greatest(before) = t
        BY <4>1, GreatestIs
      <4> QED
        BY <4>1, <4>2
    <3>4. CASE t \in others /\ t > focus /\ matrix.wrap /\ \A u \in others : u > focus /\ u <= t
      <4>1. before = {} /\ after \in SUBSET Int /\ t \in after /\ \A u \in after : u <= t
        BY <2>1, <3>4
      <4>2. Greatest(after) = t
        BY <4>1, GreatestIs
      <4> QED
        BY <3>4, <4>1, <4>2
    <3> QED
      BY <3>1, <3>2, <3>3, <3>4 DEF LeftOf
  <2>4. /\ Neighbor(matrix, focus, "right") = RowNeighbor(matrix, focus, 1)
        /\ Neighbor(matrix, focus, "left") = RowNeighbor(matrix, focus, -1)
    BY <2>1 DEF Neighbor
  <2> QED
    BY <2>2, <2>3, <2>4 DEF NearestOnRow
<1> QED
  BY <1>1, LayoutInvariance, PTL

-----------------------------------------------------------------------------
(* The way back.                                                            *)

\* In a row, whether the way was direct or round the end.
LEMMA RowBack ==
    ASSUME NEW m \in Matrices, NEW self \in Occupied(m)
    PROVE  /\ RowNeighbor(m, self, 1) # NoSlot
                 => RowNeighbor(m, RowNeighbor(m, self, 1), -1) = self
           /\ RowNeighbor(m, self, -1) # NoSlot
                 => RowNeighbor(m, RowNeighbor(m, self, -1), 1) = self
<1>1. self \in Slots /\ \A u \in Occupied(m) : u \in 1..4
  BY DEF Occupied
<1>2. ASSUME NEW t, RightOf(m, self, Occupied(m) \ {self}, t), t # NoSlot,
             NEW b, LeftOf(m, t, Occupied(m) \ {t}, b)
      PROVE  b = self
  <2>1. t \in Occupied(m) /\ t # self /\ t \in 1..4
    BY <1>1, <1>2 DEF RightOf
  <2>2. b \in {NoSlot} \cup Occupied(m)
    BY <1>2 DEF LeftOf
  <2> QED
    BY <1>1, <1>2, <2>1, <2>2 DEF RightOf, LeftOf
<1>3. ASSUME NEW t, LeftOf(m, self, Occupied(m) \ {self}, t), t # NoSlot,
             NEW b, RightOf(m, t, Occupied(m) \ {t}, b)
      PROVE  b = self
  <2>1. t \in Occupied(m) /\ t # self /\ t \in 1..4
    BY <1>1, <1>3 DEF LeftOf
  <2>2. b \in {NoSlot} \cup Occupied(m)
    BY <1>3 DEF RightOf
  <2> QED
    BY <1>1, <1>3, <2>1, <2>2 DEF RightOf, LeftOf
<1>4. RowNeighbor(m, self, 1) \in {NoSlot} \cup Slots
      /\ RowNeighbor(m, self, -1) \in {NoSlot} \cup Slots
  BY <1>1, RowSound DEF Occupied
<1> QED
  BY <1>1, <1>2, <1>3, <1>4, NearestRight, NearestLeft

\* SquareNeighbor by column and row: only left and right go round the end.
LEMMA SquareSides ==
    ASSUME NEW m \in Matrices, NEW self \in Slots
    PROVE  /\ self \in {1, 3} =>
                /\ SquareNeighbor(m, self, "right") =
                       (IF self + 1 \in Occupied(m) THEN self + 1 ELSE NoSlot)
                /\ SquareNeighbor(m, self, "left") =
                       (IF m.wrap /\ self + 1 \in Occupied(m) THEN self + 1 ELSE NoSlot)
           /\ self \in {2, 4} =>
                /\ SquareNeighbor(m, self, "left") =
                       (IF self - 1 \in Occupied(m) THEN self - 1 ELSE NoSlot)
                /\ SquareNeighbor(m, self, "right") =
                       (IF m.wrap /\ self - 1 \in Occupied(m) THEN self - 1 ELSE NoSlot)
           /\ SquareNeighbor(m, self, "bottom") =
                  (IF self \in {1, 2} /\ self + 2 \in Occupied(m) THEN self + 2 ELSE NoSlot)
           /\ SquareNeighbor(m, self, "top") =
                  (IF self \in {3, 4} /\ self - 2 \in Occupied(m) THEN self - 2 ELSE NoSlot)
<1>1. NoSlot \notin Occupied(m)
  BY DEF Occupied
<1>2. CASE self = 1
  <2>1. (self - 1) \div 2 = 0 /\ (self - 1) % 2 = 0
    BY <1>2
  <2> QED
    BY <1>1, <1>2, <2>1 DEF SquareNeighbor, SquareAt
<1>3. CASE self = 2
  <2>1. (self - 1) \div 2 = 0 /\ (self - 1) % 2 = 1
    BY <1>3
  <2> QED
    BY <1>1, <1>3, <2>1 DEF SquareNeighbor, SquareAt
<1>4. CASE self = 3
  <2>1. (self - 1) \div 2 = 1 /\ (self - 1) % 2 = 0
    BY <1>4
  <2> QED
    BY <1>1, <1>4, <2>1 DEF SquareNeighbor, SquareAt
<1>5. CASE self = 4
  <2>1. (self - 1) \div 2 = 1 /\ (self - 1) % 2 = 1
    BY <1>5
  <2> QED
    BY <1>1, <1>5, <2>1 DEF SquareNeighbor, SquareAt
<1> QED
  BY <1>2, <1>3, <1>4, <1>5

LEMMA SquareBack ==
    ASSUME NEW m \in Matrices, NEW self \in Occupied(m), NEW d \in Directions,
           SquareNeighbor(m, self, d) # NoSlot
    PROVE  SquareNeighbor(m, SquareNeighbor(m, self, d), Opposite[d]) = self
<1>1. self \in Slots
  BY DEF Occupied
<1>2. PICK t : t = SquareNeighbor(m, self, d)
  OBVIOUS
<1>3. t \in Slots
  BY <1>1, <1>2, SquareSound DEF Occupied
<1>4. CASE d = "right"
  <2>1. \/ self \in {1, 3} /\ t = self + 1
        \/ self \in {2, 4} /\ t = self - 1 /\ m.wrap
    BY <1>1, <1>2, <1>4, SquareSides
  <2>2. SquareNeighbor(m, t, "left") = self
    BY <1>1, <1>3, <2>1, SquareSides
  <2> QED
    BY <1>2, <1>4, <2>2 DEF Opposite
<1>5. CASE d = "left"
  <2>1. \/ self \in {2, 4} /\ t = self - 1
        \/ self \in {1, 3} /\ t = self + 1 /\ m.wrap
    BY <1>1, <1>2, <1>5, SquareSides
  <2>2. SquareNeighbor(m, t, "right") = self
    BY <1>1, <1>3, <2>1, SquareSides
  <2> QED
    BY <1>2, <1>5, <2>2 DEF Opposite
<1>6. CASE d = "bottom"
  <2>1. self \in {1, 2} /\ t = self + 2
    BY <1>1, <1>2, <1>6, SquareSides
  <2>2. SquareNeighbor(m, t, "top") = self
    BY <1>1, <1>3, <2>1, SquareSides
  <2> QED
    BY <1>2, <1>6, <2>2 DEF Opposite
<1>7. CASE d = "top"
  <2>1. self \in {3, 4} /\ t = self - 2
    BY <1>1, <1>2, <1>7, SquareSides
  <2>2. SquareNeighbor(m, t, "bottom") = self
    BY <1>1, <1>3, <2>1, SquareSides
  <2> QED
    BY <1>2, <1>7, <2>2 DEF Opposite
<1> QED
  BY <1>4, <1>5, <1>6, <1>7

LEMMA NeighborBack ==
    ASSUME NEW m \in Matrices, NEW self \in Occupied(m), NEW d \in Directions,
           Neighbor(m, self, d) # NoSlot
    PROVE  Neighbor(m, Neighbor(m, self, d), Opposite[d]) = self
<1>1. self \in Slots /\ Neighbor(m, self, d) \in Slots
  BY NeighborSound DEF Occupied
<1>2. Opposite[d] \in Directions
  BY DEF Opposite
<1>3. CASE m.twoRow
  BY <1>1, <1>3, SquareBack DEF Neighbor
<1>4. CASE ~m.twoRow
  BY <1>1, <1>4, RowBack DEF Neighbor, Opposite
<1> QED
  BY <1>3, <1>4

\* The opposite edge of the machine reached leads back to the one that was left,
\* in every layout: both ends of an edge agree on each other (matrix.go:45-131).
THEOREM TheWayBack == Spec => WayBack
<1>1. LayoutInv /\ [Next]_vars => [\A d \in Directions :
          Cross(d) => Neighbor(matrix, focus', Opposite[d]) = focus]_vars
  BY NeighborBack DEF LayoutInv, FocusOccupied, Cross
<1> QED
  BY <1>1, LayoutInvariance, PTL DEF Spec, WayBack

-----------------------------------------------------------------------------
(* The pixels of a crossing.                                                *)

\* A focus with a cursor is a focus: the layout's theorems hold of Crossing.
THEOREM CrossingWalksTheLayout == CrossingSpec => Spec
<1>1. CrossingInit => Init
  BY DEF CrossingInit
<1>2. [CrossingNext]_cvars => [Next]_vars
  BY DEF CrossingNext, Move, CrossAt, Next, cvars, vars
<1> QED
  BY <1>1, <1>2, PTL DEF CrossingSpec, Spec

LEMMA Division ==
    ASSUME NEW a \in Nat, NEW b \in Nat \ {0}
    PROVE  /\ a \div b \in Nat
           /\ (a \div b) * b <= a
           /\ a < (a \div b) * b + b
  OBVIOUS

LEMMA FullIs == Full \in Nat /\ Full > 2
  BY DEF Full

LEMMA ProductsAreNat ==
    ASSUME NEW x \in Nat, NEW y \in Nat
    PROVE  x * y \in Nat
  OBVIOUS

LEMMA MultiplyBy ==
    ASSUME NEW x \in Int, NEW y \in Int, NEW c \in Nat, x <= y
    PROVE  x * c <= y * c
  OBVIOUS

LEMMA CancelFactor ==
    ASSUME NEW x \in Int, NEW y \in Int, NEW c \in Nat \ {0}, x * c < y * c
    PROVE  x < y
  OBVIOUS

LEMMA ClipStays ==
    ASSUME NEW v \in Int, NEW lo \in Int, NEW hi \in Int, lo <= hi
    PROVE  /\ Clip(v, lo, hi) \in lo..hi
           /\ v \in lo..hi => Clip(v, lo, hi) = v
  BY DEF Clip

\* Normalize rounds down, and never reaches Full.
LEMMA NormalizeIs ==
    ASSUME NEW lo \in Int, NEW hi \in Int, lo < hi, NEW p \in lo..hi - 1,
           NEW v, v = Normalize(p, lo, hi)
    PROVE  /\ v \in 0..Full - 1
           /\ v * (hi - lo) <= (p - lo) * Full
           /\ (p - lo) * Full < v * (hi - lo) + (hi - lo)
<1> DEFINE n == hi - lo
           x == p - lo
           w == v * n
<1>1. n \in Nat \ {0} /\ x \in 0..n - 1
  OBVIOUS
<1>2. v = (x * Full) \div n
  BY ClipStays DEF Normalize
<1> HIDE DEF n, x, w
<1>3. v \in Nat /\ w <= x * Full /\ x * Full < w + n
  <2>1. x * Full \in Nat
    BY <1>1, FullIs, ProductsAreNat
  <2> QED
    BY <1>1, <1>2, <2>1, Division DEF w
<1>4. v < Full
  <2>1. w \in Int
    BY <1>1, <1>3 DEF w
  <2>2. w < Full * n
    <3>1. x <= n - 1 /\ x \in Int /\ n - 1 \in Int
      BY <1>1
    <3>2. x * Full <= (n - 1) * Full
      BY <3>1, FullIs, MultiplyBy
    <3>3. (n - 1) * Full = Full * n - Full /\ Full * n \in Int /\ x * Full \in Int
      BY <3>1, FullIs, <1>1
    <3> QED
      BY <1>3, <2>1, <3>2, <3>3, FullIs
  <2>3. v * n < Full * n
    BY <2>2 DEF w
  <2>4. v \in Int /\ Full \in Int
    BY <1>3, FullIs
  <2> QED
    BY <1>1, <2>3, <2>4, CancelFactor
<1>5. v \in 0..Full - 1
  <2>1. v \in Nat /\ Full \in Nat
    BY <1>3, FullIs
  <2> QED
    BY <2>1, <1>4
<1> QED
  BY <1>3, <1>5 DEF n, x, w

\* Denormalize rounds down, and stays on the screen below Full.
LEMMA DenormalizeIs ==
    ASSUME NEW lo \in Int, NEW hi \in Int, lo < hi, NEW v \in 0..Full - 1,
           NEW q, q = Denormalize(v, lo, hi)
    PROVE  /\ q \in lo..hi - 1
           /\ (q - lo) * Full <= v * (hi - lo)
           /\ v * (hi - lo) < (q - lo) * Full + Full
<1> DEFINE n == hi - lo
           w == v * n
           x == w \div Full
<1>1. n \in Nat \ {0} /\ v \in Nat /\ v <= Full - 1
  <2> HIDE DEF w, x
  <2> QED
    BY FullIs
<1>2. Full \in Nat \ {0} /\ Clip(v, 0, Full) = v
  <2> HIDE DEF n, w, x
  <2> QED
    BY <1>1, FullIs DEF Clip
<1>3. q = lo + x
  BY <1>2 DEF Denormalize
<1> HIDE DEF n, w, x
<1>4. w \in Nat
  BY <1>1, ProductsAreNat DEF w
<1>5. x \in Nat /\ x * Full <= w /\ w < x * Full + Full
  BY <1>2, <1>4, Division DEF x
<1>6. x < n
  <2>1. Full - 1 \in Int /\ (Full - 1) * n = n * Full - n /\ n * Full \in Int
    BY <1>1, <1>2
  <2>2. w <= (Full - 1) * n
    BY <1>1, <2>1, MultiplyBy DEF w
  <2>3. x * Full < n * Full
    <3>1. PICK a : a = x * Full
      OBVIOUS
    <3>2. a \in Nat
      BY <3>1, <1>2, <1>5, ProductsAreNat
    <3>3. PICK b : b = n * Full
      OBVIOUS
    <3>4. b \in Int /\ w <= b - n
      BY <3>3, <2>1, <2>2
    <3>5. a <= w
      BY <3>1, <1>5
    <3>6. a < b
      BY <1>1, <1>4, <3>2, <3>4, <3>5
    <3> QED
      BY <3>1, <3>3, <3>6
  <2> QED
    BY <1>1, <1>2, <1>5, <2>3, CancelFactor
<1>7. q - lo = x
  BY <1>3, <1>5
<1>8. q \in lo..hi - 1
  BY <1>1, <1>3, <1>5, <1>6 DEF n
<1>9. (q - lo) * Full <= w /\ w < (q - lo) * Full + Full
  BY <1>5, <1>7
<1> QED
  BY <1>8, <1>9 DEF w, n

\* The jump is rounded down too, and shorter than the axis.
LEMMA JumpNormIs ==
    ASSUME NEW n \in Jump + 1..Full, NEW j, j = JumpNorm(n)
    PROVE  /\ j \in 2..Full - 1
           /\ 2 * Full < j * n + n
<1> DEFINE k == (Jump * Full) \div n
           w == k * n
<1>1. n \in Nat \ {0} /\ n >= 3 /\ Jump * Full \in Nat /\ Jump * Full = 2 * Full
  <2> HIDE DEF k, w
  <2> QED
    BY FullIs DEF Jump
<1>2. j = IF k <= 2 THEN 2 ELSE k
  BY <1>1 DEF JumpNorm
<1>3. k \in Nat /\ w <= 2 * Full /\ 2 * Full < w + n
  <2> HIDE DEF w
  <2>1. k \in Nat /\ w <= Jump * Full /\ Jump * Full < w + n
    BY <1>1, Division DEF w
  <2> QED
    BY <1>1, <2>1
<1> HIDE DEF k, w
<1>4. k < Full
  <2>1. 3 * k <= n * k
    BY <1>1, <1>3, MultiplyBy
  <2>2. n * k = w
    BY <1>1, <1>3 DEF w
  <2> QED
    BY <1>3, <2>1, <2>2, FullIs
<1>5. CASE k <= 2
  <2>1. w <= 2 * n
    BY <1>1, <1>3, <1>5, MultiplyBy DEF w
  <2>2. w \in Int
    BY <1>1, <1>3 DEF w
  <2>3. j = 2 /\ j * n = 2 * n
    BY <1>2, <1>5
  <2>4. 2 * Full < j * n + n
    BY <1>1, <1>3, <2>1, <2>2, <2>3
  <2>5. j \in 2..Full - 1
    BY <2>3, FullIs
  <2> QED
    BY <2>4, <2>5
<1>6. CASE k > 2
  <2>1. j = k /\ j * n = w
    BY <1>2, <1>3, <1>6 DEF w
  <2>2. 2 * Full < j * n + n
    BY <1>3, <2>1
  <2>3. j \in 2..Full - 1
    BY <1>3, <1>4, <1>6, <2>1, FullIs
  <2> QED
    BY <2>2, <2>3
<1> QED
  BY <1>3, <1>5, <1>6

\* The two truncations cost less than one pixel each.
LEMMA ShareKept ==
    ASSUME NEW lo \in Int, NEW hi \in Int, lo < hi, NEW p \in lo..hi - 1,
           NEW lo2 \in Int, NEW hi2 \in Int, lo2 < hi2, hi2 - lo2 <= Full
    PROVE  SameShare(p, lo, hi, Denormalize(Normalize(p, lo, hi), lo2, hi2), lo2, hi2)
<1> DEFINE n == hi - lo
           m == hi2 - lo2
           x == p - lo
           v == Normalize(p, lo, hi)
           q == Denormalize(v, lo2, hi2)
           y == q - lo2
<1>1. n \in Nat \ {0} /\ m \in Nat \ {0} /\ m <= Full /\ x \in 0..n - 1
  OBVIOUS
<1>2. v \in 0..Full - 1 /\ v * n <= x * Full /\ x * Full < v * n + n
  BY NormalizeIs
<1>3. q \in lo2..hi2 - 1 /\ y * Full <= v * m /\ v * m < y * Full + Full
  <2> HIDE DEF v
  <2> QED
    BY <1>2, DenormalizeIs
<1>4. y \in Nat
  <2> HIDE DEF q
  <2> QED
    BY <1>3
<1>5. v \in Nat /\ Full \in Nat \ {0}
  <2>1. v \in 0..Full - 1
    BY <1>2
  <2> HIDE DEF v
  <2> QED
    BY <2>1, FullIs
<1> HIDE DEF n, m, x, v, q, y
<1>6. PICK a : a = y * n
  OBVIOUS
<1>7. PICK b : b = x * m
  OBVIOUS
<1>8. PICK c : c = v * m * n
  OBVIOUS
<1>9. a \in Nat /\ b \in Nat /\ c \in Nat
  BY <1>1, <1>4, <1>5, <1>6, <1>7, <1>8, ProductsAreNat
<1>10. a * Full <= c
  <2>1. (y * Full) * n <= (v * m) * n
    BY <1>1, <1>3, <1>4, <1>5, ProductsAreNat, MultiplyBy
  <2>2. (y * Full) * n = (y * n) * Full
    BY <1>1, <1>4, <1>5
  <2> QED
    BY <2>1, <2>2, <1>6, <1>8
<1>11. c < a * Full + Full * n
  <2>1. (v * m + 1) * n <= (y * Full + Full) * n
    BY <1>1, <1>3, <1>4, <1>5, ProductsAreNat, MultiplyBy
  <2>2. (v * m + 1) * n = (v * m) * n + n
    BY <1>1, <1>5
  <2>3. (y * Full + Full) * n = (y * n) * Full + Full * n
    BY <1>1, <1>4, <1>5
  <2>4. Full * n \in Nat
    BY <1>1, <1>5
  <2> QED
    BY <1>1, <1>5, <1>6, <1>8, <1>9, <2>1, <2>2, <2>3, <2>4
<1>12. c <= b * Full
  <2>1. (v * n) * m <= (x * Full) * m
    BY <1>1, <1>2, <1>5, ProductsAreNat, MultiplyBy
  <2>2. (v * n) * m = v * m * n /\ (x * Full) * m = (x * m) * Full
    BY <1>1, <1>5
  <2> QED
    BY <2>1, <2>2, <1>7, <1>8
<1>13. b * Full < c + n * m
  <2>1. (x * Full + 1) * m <= (v * n + n) * m
    BY <1>1, <1>2, <1>5, ProductsAreNat, MultiplyBy
  <2>2. (x * Full + 1) * m = (x * m) * Full + m
    BY <1>1, <1>5
  <2>3. (v * n + n) * m = (v * m) * n + n * m
    BY <1>1, <1>5
  <2>4. n * m \in Nat
    BY <1>1, ProductsAreNat
  <2> QED
    BY <1>1, <1>5, <1>7, <1>8, <1>9, <2>1, <2>2, <2>3, <2>4
<1>14. n * m <= n * Full
  <2>1. m * n <= Full * n
    BY <1>1, <1>5, MultiplyBy
  <2> QED
    BY <2>1, <1>1, <1>5
<1>15. a <= b
  BY <1>9, <1>10, <1>12 DEF Full
<1>16. b < a + 2 * n
  <2>1. b * Full < a * Full + Full * n + n * Full
    <3>1. PICK g : g = n * m
      OBVIOUS
    <3>2. g \in Nat /\ g <= n * Full /\ b * Full < c + g
      BY <1>1, <1>13, <1>14, <3>1, ProductsAreNat
    <3> QED
      BY <1>1, <1>9, <1>11, <3>2 DEF Full
  <2> QED
    BY <1>1, <1>9, <2>1 DEF Full
<1>17. b - a \in 0..2 * n - 1
  BY <1>1, <1>9, <1>15, <1>16
<1> QED
  BY <1>6, <1>7, <1>17 DEF SameShare, n, m, x, v, q, y

LEMMA ScreenFacts ==
    ASSUME NEW b \in Screens
    PROVE  /\ b.left \in Int /\ b.right \in Int /\ b.left < b.right
           /\ b.top \in Int /\ b.bottom \in Int /\ b.top < b.bottom
           /\ Width(b) = b.right - b.left /\ Width(b) \in Jump + 1..Full
           /\ Height(b) = b.bottom - b.top /\ Height(b) \in Jump + 1..Full
<1>1. /\ b.left \in Int /\ b.right \in Int /\ b.top \in Int /\ b.bottom \in Int
      /\ Width(b) \in Jump + 1..Full /\ Height(b) \in Jump + 1..Full
  BY ScreensAssumption
<1>2. Width(b) > 0 /\ Height(b) > 0
  BY <1>1, FullIs DEF Jump
<1> QED
  BY <1>1, <1>2 DEF Width, Height

LEMMA PixelFacts ==
    ASSUME NEW b, NEW p
    PROVE  p \in Pixels(b) <=> /\ p = [x |-> p.x, y |-> p.y]
                               /\ p.x \in b.left..b.right - 1 /\ p.y \in b.top..b.bottom - 1
  BY DEF Pixels

\* The entry point is normalized, and its landing a pixel of the entered screen.
LEMMA LandsOnScreen ==
    ASSUME NEW a \in Screens, NEW b \in Screens, NEW p \in Pixels(a), NEW d \in Directions
    PROVE  Landing(EntryForJump(p, a, d), b) \in Pixels(b)
<1> DEFINE e == EntryForJump(p, a, d)
<1>1. p.x \in a.left..a.right - 1 /\ p.y \in a.top..a.bottom - 1
  BY PixelFacts
<1>2. /\ Normalize(p.x, a.left, a.right) \in 0..Full - 1
      /\ Normalize(p.y, a.top, a.bottom) \in 0..Full - 1
  BY <1>1, ScreenFacts, NormalizeIs
<1>3. /\ JumpNorm(Width(a)) \in 0..Full - 1 /\ Full - JumpNorm(Width(a)) \in 0..Full - 1
      /\ JumpNorm(Height(a)) \in 0..Full - 1 /\ Full - JumpNorm(Height(a)) \in 0..Full - 1
  <2>1. JumpNorm(Width(a)) \in 2..Full - 1 /\ JumpNorm(Height(a)) \in 2..Full - 1
    BY ScreenFacts, JumpNormIs
  <2>2. \A j \in 2..Full - 1 : j \in 0..Full - 1 /\ Full - j \in 0..Full - 1
    BY FullIs
  <2> QED
    BY <2>1, <2>2
<1>4. e.x \in 0..Full - 1 /\ e.y \in 0..Full - 1
  BY <1>2, <1>3 DEF EntryForJump
<1> HIDE DEF e
<1>5. /\ Denormalize(e.x, b.left, b.right) \in b.left..b.right - 1
      /\ Denormalize(e.y, b.top, b.bottom) \in b.top..b.bottom - 1
  BY <1>4, ScreenFacts, DenormalizeIs
<1>6. Landing(e, b) \in Pixels(b)
  BY <1>5 DEF Landing, Pixels
<1> QED
  BY <1>6 DEF e

\* On comparable screens the jump is worth more than a pixel of the entered one.
LEMMA JumpClearsEdge ==
    ASSUME NEW n \in Jump + 1..Full, NEW lo \in Int, NEW hi \in Int,
           hi - lo \in Jump + 1..Full, Comparable(n, hi - lo),
           NEW j, j = JumpNorm(n)
    PROVE  /\ Denormalize(j, lo, hi) >= lo + 1
           /\ Denormalize(Full - j, lo, hi) < hi - 1
<1> DEFINE m == hi - lo
           jm == j * m
<1>1. n \in Nat \ {0} /\ m \in Nat \ {0} /\ lo < hi /\ Full \in Nat
  BY FullIs DEF Jump
<1>2. j \in 2..Full - 1 /\ 2 * Full < j * n + n
  BY JumpNormIs
<1>3. j \in Nat /\ Full - j \in Nat /\ j \in 0..Full - 1 /\ Full - j \in 0..Full - 1
  <2>1. j \in 2..Full - 1
    BY <1>2
  <2> QED
    BY <2>1, FullIs
<1>4. n * (Full + m) <= 2 * Full * m
  BY DEF Comparable
<1> HIDE DEF m, jm
<1>5. jm \in Nat
  BY <1>1, <1>3, ProductsAreNat DEF jm
<1>6. Full < jm
  <2>1. (2 * Full + 1) * m <= (j * n + n) * m
    BY <1>1, <1>2, <1>3, ProductsAreNat, MultiplyBy
  <2>2. (2 * Full + 1) * m = 2 * Full * m + m
    BY <1>1
  <2>3. (j * n + n) * m = jm * n + n * m
    BY <1>1, <1>3 DEF jm
  <2>4. n * (Full + m) = Full * n + n * m
    BY <1>1
  <2>5. /\ Full * n \in Nat /\ n * m \in Nat /\ 2 * Full * m \in Nat /\ jm * n \in Nat
    BY <1>1, <1>5, ProductsAreNat
  <2>6. Full * n < jm * n
    <3> DEFINE f == Full * n
               g == n * m
               h == 2 * Full * m
               i == jm * n
    <3>1. h + m <= i + g /\ f + g <= h
      BY <1>4, <2>1, <2>2, <2>3, <2>4
    <3>2. f \in Nat /\ g \in Nat /\ h \in Nat /\ i \in Nat
      BY <2>5
    <3> HIDE DEF f, g, h, i
    <3>3. f < i
      BY <1>1, <3>1, <3>2
    <3> QED
      BY <3>3 DEF f, i
  <2> QED
    BY <1>1, <1>5, <2>6, CancelFactor
<1>7. Denormalize(j, lo, hi) >= lo + 1
  <2> DEFINE q == Denormalize(j, lo, hi)
  <2>1. q \in lo..hi - 1 /\ jm < (q - lo) * Full + Full
    BY <1>1, <1>3, DenormalizeIs DEF jm, m
  <2> HIDE DEF q
  <2> QED
    BY <1>5, <1>6, <2>1 DEF q, Full
<1>8. Denormalize(Full - j, lo, hi) < hi - 1
  <2> DEFINE q == Denormalize(Full - j, lo, hi)
             y == q - lo
  <2>1. q \in lo..hi - 1 /\ y * Full <= (Full - j) * m
    BY <1>1, <1>3, DenormalizeIs DEF m
  <2>2. (Full - j) * m = Full * m - jm
    BY <1>1, <1>3 DEF jm
  <2>3. y \in Nat
    <3> HIDE DEF q
    <3> QED
      BY <2>1
  <2>4. y < m - 1
    <3> HIDE DEF y
    <3> QED
      BY <1>1, <1>5, <1>6, <2>1, <2>2, <2>3 DEF Full
  <2> HIDE DEF q
  <2> QED
    BY <2>1, <2>4 DEF m, q
<1> QED
  BY <1>7, <1>8

\* The layout and the desktops fit together: the cursor is on the focused one.
CrossingInv == LayoutInv /\ screen \in [Names -> Screens] /\ pos \in Pixels(Desk(focus))

LEMMA DeskIsScreen ==
    ASSUME CrossingInv, NEW s \in Occupied(matrix)
    PROVE  Desk(s) \in Screens
<1>1. matrix.slots[s] \in Names
  BY DEF CrossingInv, LayoutInv, Matrices, Occupied
<1> QED
  BY <1>1 DEF Desk, CrossingInv

\* One crossing, with the two screens named.
LEMMA CrossAtFacts ==
    ASSUME CrossingInv, NEW d \in Directions, CrossAt(d)
    PROVE  /\ LayoutInv' /\ matrix' = matrix /\ screen' = screen
           /\ Desk(focus) \in Screens /\ Desk(focus') \in Screens /\ Desk(focus)' = Desk(focus')
           /\ pos \in Pixels(Desk(focus))
           /\ pos' = Landing(EntryForJump(pos, Desk(focus), d), Desk(focus'))
<1>1. Neighbor(matrix, focus, d) \in Occupied(matrix)
  BY NeighborSound DEF CrossAt, Cross, CrossingInv, LayoutInv
<1>2. focus' \in Occupied(matrix) /\ matrix' = matrix /\ screen' = screen
  BY <1>1 DEF CrossAt, Cross
<1>3. Desk(focus) \in Screens /\ Desk(focus') \in Screens
  BY <1>2, DeskIsScreen DEF CrossingInv, LayoutInv, FocusOccupied
<1>4. Desk(focus)' = Desk(focus')
  BY <1>2 DEF Desk
<1>5. LayoutInv'
  BY <1>2 DEF CrossingInv, LayoutInv, FocusOccupied, Occupied
<1> QED
  BY <1>2, <1>3, <1>4, <1>5 DEF CrossAt, CrossingInv

LEMMA CrossingInvariance == CrossingSpec => []CrossingInv
<1>1. CrossingInit => CrossingInv
  BY DEF CrossingInit, Init, CrossingInv, LayoutInv, FocusOccupied
<1>2. CrossingInv /\ [CrossingNext]_cvars => CrossingInv'
  <2> SUFFICES ASSUME CrossingInv, [CrossingNext]_cvars
               PROVE  CrossingInv'
    OBVIOUS
  <2>1. ASSUME NEW dx \in Deltas, NEW dy \in Deltas, Move(dx, dy)
        PROVE  CrossingInv'
    <3> DEFINE b == Desk(focus)
    <3>1. b \in Screens /\ pos.x \in Int /\ pos.y \in Int /\ dx \in Int /\ dy \in Int
      <4>1. b \in Screens
        BY DeskIsScreen DEF CrossingInv, LayoutInv, FocusOccupied
      <4>2. pos.x \in Int /\ pos.y \in Int
        BY <4>1, ScreenFacts, PixelFacts DEF CrossingInv
      <4> QED
        BY <4>1, <4>2, DeltasAssumption
    <3>2. /\ Clip(pos.x + dx, b.left, b.right - 1) \in b.left..b.right - 1
          /\ Clip(pos.y + dy, b.top, b.bottom - 1) \in b.top..b.bottom - 1
      <4> HIDE DEF b
      <4>1. /\ b.left \in Int /\ b.right - 1 \in Int /\ b.left <= b.right - 1
            /\ b.top \in Int /\ b.bottom - 1 \in Int /\ b.top <= b.bottom - 1
        BY <3>1, ScreenFacts
      <4>2. pos.x + dx \in Int /\ pos.y + dy \in Int
        BY <3>1
      <4> QED
        BY <4>1, <4>2 DEF Clip
    <3>3. pos' \in Pixels(b)
      BY <2>1, <3>2 DEF Move, Pixels
    <3>4. Desk(focus)' = b
      BY <2>1 DEF Move, Desk, Occupied
    <3> QED
      BY <2>1, <3>3, <3>4 DEF Move, CrossingInv, LayoutInv, FocusOccupied, Occupied
  <2>2. ASSUME NEW d \in Directions, CrossAt(d)
        PROVE  CrossingInv'
    BY <2>2, CrossAtFacts, LandsOnScreen DEF CrossingInv
  <2>3. CASE UNCHANGED cvars
    BY <2>3 DEF cvars, CrossingInv, LayoutInv, FocusOccupied, Occupied, Desk
  <2> QED
    BY <2>1, <2>2, <2>3 DEF CrossingNext
<1> QED
  BY <1>1, <1>2, PTL DEF CrossingSpec

\* Moved or handed over, the cursor is always a pixel of the focused machine's
\* desktop: the clamp of onCapture and Denormalize keep it there.
THEOREM CursorOnDesktop == CrossingSpec => []CrossingTypeOK
<1>1. CrossingInv => CrossingTypeOK
  BY DEF CrossingInv, CrossingTypeOK, LayoutInv, FocusOccupied, TypeOK, Occupied
<1> QED
  BY <1>1, CrossingInvariance, PTL

\* On comparable screens no landing is on the edge that leads straight back,
\* whatever their sizes and places (input.go:80-84).
THEOREM LandsOffTheEdge == CrossingSpec => NoBounce
<1> DEFINE Safe == \A d \in Directions :
                      LET a == Desk(focus)
                          b == Desk(focus')
                      IN  /\ CrossAt(d)
                          /\ IF d \in {"left", "right"} THEN Comparable(Width(a), Width(b))
                                                        ELSE Comparable(Height(a), Height(b))
                          => DetectEdge(pos', b) # Opposite[d]
<1>1. CrossingInv => Safe
  <2> SUFFICES ASSUME CrossingInv, NEW d \in Directions, CrossAt(d),
                      IF d \in {"left", "right"}
                      THEN Comparable(Width(Desk(focus)), Width(Desk(focus')))
                      ELSE Comparable(Height(Desk(focus)), Height(Desk(focus')))
               PROVE  DetectEdge(pos', Desk(focus')) # Opposite[d]
    OBVIOUS
  <2> DEFINE a == Desk(focus)
             b == Desk(focus')
             e == EntryForJump(pos, a, d)
  <2>1. a \in Screens /\ b \in Screens /\ pos' = Landing(e, b)
    BY CrossAtFacts
  <2>2. pos'.x = Denormalize(e.x, b.left, b.right) /\ pos'.y = Denormalize(e.y, b.top, b.bottom)
    BY <2>1 DEF Landing
  <2>3. /\ pos'.x \in Int /\ b.left \in Int /\ b.right \in Int
        /\ pos'.y \in Int /\ b.top \in Int /\ b.bottom \in Int
    <3>1. pos' \in Pixels(b)
      BY <2>1, CrossAtFacts, LandsOnScreen
    <3> HIDE DEF a, b, e
    <3> QED
      BY <2>1, <3>1, ScreenFacts, PixelFacts
  <2>4. CASE d \in {"left", "right"}
    <3>1. Comparable(Width(a), Width(b))
      BY <2>4
    <3>2. e.x = IF d = "right" THEN JumpNorm(Width(a)) ELSE Full - JumpNorm(Width(a))
      BY <2>4 DEF EntryForJump
    <3> HIDE DEF a, b, e
    <3>3. /\ Denormalize(JumpNorm(Width(a)), b.left, b.right) >= b.left + 1
          /\ Denormalize(Full - JumpNorm(Width(a)), b.left, b.right) < b.right - 1
      BY <2>1, <3>1, ScreenFacts, JumpClearsEdge
    <3>4. /\ d = "right" => pos'.x >= b.left + 1
          /\ d = "left" => pos'.x < b.right - 1
      BY <2>2, <3>2, <3>3
    <3>5. /\ d = "right" => DetectEdge(pos', b) # "left"
          /\ d = "left" => DetectEdge(pos', b) # "right"
      BY <2>3, <3>4 DEF DetectEdge, Skip
    <3> QED
      BY <2>4, <3>5 DEF Opposite, b
  <2>5. CASE d \in {"top", "bottom"}
    <3>1. Comparable(Height(a), Height(b))
      BY <2>5
    <3>2. e.y = IF d = "bottom" THEN JumpNorm(Height(a)) ELSE Full - JumpNorm(Height(a))
      BY <2>5 DEF EntryForJump
    <3> HIDE DEF a, b, e
    <3>3. /\ Denormalize(JumpNorm(Height(a)), b.top, b.bottom) >= b.top + 1
          /\ Denormalize(Full - JumpNorm(Height(a)), b.top, b.bottom) < b.bottom - 1
      BY <2>1, <3>1, ScreenFacts, JumpClearsEdge
    <3>4. /\ d = "bottom" => pos'.y >= b.top + 1
          /\ d = "top" => pos'.y < b.bottom - 1
      BY <2>2, <3>2, <3>3
    <3>5. /\ d = "bottom" => DetectEdge(pos', b) # "top"
          /\ d = "top" => DetectEdge(pos', b) # "bottom"
      BY <2>3, <3>4 DEF DetectEdge, Skip
    <3> QED
      BY <2>5, <3>5 DEF Opposite, b
  <2> QED
    BY <2>4, <2>5
<1>2. CrossingInv /\ [CrossingNext]_cvars => [Safe]_cvars
  BY <1>1
<1> QED
  BY <1>2, CrossingInvariance, PTL DEF CrossingSpec, NoBounce

\* The coordinate along the edge keeps its share of the screen, on screens of
\* any sizes and places (util.go:34-57).
THEOREM CoordinateKeepsShare == CrossingSpec => KeepsShare
<1> DEFINE Kept == \A d \in Directions :
                      CrossAt(d) =>
                         LET a == Desk(focus)
                             b == Desk(focus')
                         IN  IF d \in {"left", "right"}
                             THEN SameShare(pos.y, a.top, a.bottom, pos'.y, b.top, b.bottom)
                             ELSE SameShare(pos.x, a.left, a.right, pos'.x, b.left, b.right)
<1>1. CrossingInv => Kept
  <2> SUFFICES ASSUME CrossingInv, NEW d \in Directions, CrossAt(d)
               PROVE  LET a == Desk(focus)
                          b == Desk(focus')
                      IN  IF d \in {"left", "right"}
                          THEN SameShare(pos.y, a.top, a.bottom, pos'.y, b.top, b.bottom)
                          ELSE SameShare(pos.x, a.left, a.right, pos'.x, b.left, b.right)
    OBVIOUS
  <2> DEFINE a == Desk(focus)
             b == Desk(focus')
             e == EntryForJump(pos, a, d)
  <2>1. a \in Screens /\ b \in Screens /\ pos \in Pixels(a) /\ pos' = Landing(e, b)
    BY CrossAtFacts
  <2>2. pos'.x = Denormalize(e.x, b.left, b.right) /\ pos'.y = Denormalize(e.y, b.top, b.bottom)
    BY <2>1 DEF Landing
  <2>3. d \in {"left", "right"} => e.y = Normalize(pos.y, a.top, a.bottom)
    BY DEF EntryForJump
  <2>4. d \notin {"left", "right"} => e.x = Normalize(pos.x, a.left, a.right)
    BY DEF EntryForJump
  <2> HIDE DEF a, b, e
  <2>5. /\ pos.x \in a.left..a.right - 1 /\ pos.y \in a.top..a.bottom - 1
        /\ b.right - b.left <= Full /\ b.bottom - b.top <= Full
    BY <2>1, ScreenFacts, PixelFacts, FullIs DEF Jump
  <2>6. /\ SameShare(pos.y, a.top, a.bottom,
                     Denormalize(Normalize(pos.y, a.top, a.bottom), b.top, b.bottom), b.top, b.bottom)
        /\ SameShare(pos.x, a.left, a.right,
                     Denormalize(Normalize(pos.x, a.left, a.right), b.left, b.right), b.left, b.right)
    BY <2>1, <2>5, ScreenFacts, ShareKept
  <2> QED
    BY <2>2, <2>3, <2>4, <2>6 DEF a, b
<1>2. CrossingInv /\ [CrossingNext]_cvars => [Kept]_cvars
  BY <1>1
<1> QED
  BY <1>2, CrossingInvariance, PTL DEF CrossingSpec, KeepsShare
=============================================================================
