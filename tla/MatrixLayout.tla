---------------------------- MODULE MatrixLayout ----------------------------
(***************************************************************************)
(* The four-slot layout of internal/protocol/matrix.go: which machine lies *)
(* across each screen edge of which.  A machine is a slot number 1..4; a   *)
(* name is a model value and Vacant stands for the empty string.  Names    *)
(* are compared as already trimmed and case-folded (strings.EqualFold).    *)
(*                                                                         *)
(* The operators are the algorithm.  Spec walks the focus from machine to  *)
(* machine over every layout, so that TLC compares each crossing with a    *)
(* reference definition and with the crossing that leads back.             *)
(***************************************************************************)
EXTENDS Integers

CONSTANTS Names,      \* machine names
          Vacant      \* the empty slot

ASSUME VacantAssumption == Vacant \notin Names

MaxMachine == 4
Slots == 1..MaxMachine
NoSlot == 0           \* IDNone: nobody lies that way
Directions == {"left", "right", "top", "bottom"}

Matrices == [slots : [Slots -> Names \cup {Vacant}], wrap : BOOLEAN, twoRow : BOOLEAN]

Occupied(m) == {s \in Slots : m.slots[s] # Vacant}

\* The n-th slot met when walking a 1x4 row from self.
RowAt(m, self, step, n) ==
    IF m.wrap THEN ((self - 1 + n * step + MaxMachine * 8) % MaxMachine) + 1
              ELSE self + n * step

\* Mutant of RowNeighbor: the walk stops one slot early.
RowNeighborShort(m, self, step) ==
    LET hits == {n \in 1..MaxMachine - 2 : RowAt(m, self, step, n) \in Occupied(m) \ {self}}
    IN  IF hits = {} THEN NoSlot
        ELSE RowAt(m, self, step, CHOOSE n \in hits : \A k \in hits : n <= k)

RowNeighbor(m, self, step) ==
    LET hits == {n \in 1..MaxMachine : RowAt(m, self, step, n) \in Occupied(m) \ {self}}
    IN  IF hits = {} THEN NoSlot
        ELSE RowAt(m, self, step, CHOOSE n \in hits : \A k \in hits : n <= k)

\* The slot at row r and column c of the 2x2 square [[1,2],[3,4]].
SquareAt(r, c) == IF r \in 0..1 /\ c \in 0..1 THEN 2 * r + c + 1 ELSE NoSlot

\* Mutant of SquareNeighbor: the next slot is not asked whether it is vacant.
SquareBlind(m, self, d) ==
    LET row == (self - 1) \div 2
        col == (self - 1) % 2
    IN  CASE d = "right"  -> SquareAt(row, col + 1)
          [] d = "left"   -> SquareAt(row, col - 1)
          [] d = "bottom" -> SquareAt(row + 1, col)
          [] d = "top"    -> SquareAt(row - 1, col)

\* Mutant of SquareNeighbor: it wraps to the right only.
SquareOneWay(m, self, d) ==
    LET row    == (self - 1) \div 2
        col    == (self - 1) % 2
        direct == CASE d = "right"  -> SquareAt(row, col + 1)
                    [] d = "left"   -> SquareAt(row, col - 1)
                    [] d = "bottom" -> SquareAt(row + 1, col)
                    [] d = "top"    -> SquareAt(row - 1, col)
    IN  IF direct \in Occupied(m) THEN direct
        ELSE IF m.wrap /\ d = "right" /\ SquareAt(row, 0) \in Occupied(m) \ {self}
             THEN SquareAt(row, 0)
        ELSE NoSlot

SquareNeighbor(m, self, d) ==
    LET row    == (self - 1) \div 2
        col    == (self - 1) % 2
        direct == CASE d = "right"  -> SquareAt(row, col + 1)
                    [] d = "left"   -> SquareAt(row, col - 1)
                    [] d = "bottom" -> SquareAt(row + 1, col)
                    [] d = "top"    -> SquareAt(row - 1, col)
        around == CASE d = "right" -> SquareAt(row, 0)
                    [] d = "left"  -> SquareAt(row, 1)
                    [] OTHER       -> NoSlot
    IN  IF direct \in Occupied(m) THEN direct
        ELSE IF m.wrap /\ around \in Occupied(m) \ {self} THEN around
        ELSE NoSlot

\* Neighbor: the occupied slot across edge d of self, or NoSlot.
Neighbor(m, self, d) ==
    IF self \notin Slots THEN NoSlot
    ELSE IF m.twoRow THEN SquareNeighbor(m, self, d)
    ELSE IF d = "right" THEN RowNeighbor(m, self, 1)
    ELSE IF d = "left" THEN RowNeighbor(m, self, -1)
    ELSE NoSlot

-----------------------------------------------------------------------------
VARIABLES matrix, focus

vars == <<matrix, focus>>

Init == /\ matrix \in Matrices
        /\ focus \in Occupied(matrix)

\* The focus crosses edge d; an edge with nobody behind it keeps it.
Cross(d) == /\ Neighbor(matrix, focus, d) # NoSlot
            /\ focus' = Neighbor(matrix, focus, d)
            /\ UNCHANGED matrix

Next == \E d \in Directions : Cross(d)

Spec == Init /\ [][Next]_vars

-----------------------------------------------------------------------------
TypeOK == matrix \in Matrices /\ focus \in Slots

\* The focus never lands on a vacant slot, however many edges it crosses:
\* Neighbor skips vacant slots (matrix.go:65).
FocusOccupied == focus \in Occupied(matrix)

Opposite == [left |-> "right", right |-> "left", top |-> "bottom", bottom |-> "top"]

\* Crossing an edge and then the opposite edge of the machine reached leads
\* back to where the focus was: the two ends of an edge agree on each other,
\* with and without wrapping, in both shapes, whatever slots are vacant.
WayBack == [][\A d \in Directions :
                 Cross(d) => Neighbor(matrix, focus', Opposite[d]) = focus]_vars

Least(S) == CHOOSE x \in S : \A y \in S : x <= y
Greatest(S) == CHOOSE x \in S : \A y \in S : y <= x

\* Reference definition of the 1x4 row: the nearest machine on that side and,
\* only when the layout wraps, else the farthest on the other side.
NearestOnRow ==
    LET others == Occupied(matrix) \ {focus}
        after  == {t \in others : t > focus}
        before == {t \in others : t < focus}
        right  == IF after # {} THEN Least(after)
                  ELSE IF matrix.wrap /\ before # {} THEN Least(before) ELSE NoSlot
        left   == IF before # {} THEN Greatest(before)
                  ELSE IF matrix.wrap /\ after # {} THEN Greatest(after) ELSE NoSlot
    IN  ~matrix.twoRow => /\ Neighbor(matrix, focus, "right") = right
                          /\ Neighbor(matrix, focus, "left") = left
=============================================================================
