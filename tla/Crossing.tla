------------------------------ MODULE Crossing ------------------------------
(***************************************************************************)
(* The pixels of a crossing: where the cursor is when an edge fires        *)
(* (internal/input/input.go DetectEdge), the entry point sent with the     *)
(* NextMachine (EntryForJump, Normalize) and the pixel the next machine    *)
(* lands on (internal/host/host.go OnNextMachine, Denormalize).  The focus *)
(* and the layout are those of MatrixLayout.  A screen is the bounding box *)
(* of a machine's desktop, right and bottom exclusive.                     *)
(*                                                                         *)
(* Every approach is taken as the first one: whether an edge is armed is   *)
(* HostSwitch's subject.                                                   *)
(***************************************************************************)
EXTENDS MatrixLayout

CONSTANTS Screens,    \* boxes a machine's desktop may have
          Deltas      \* displacements of one motion event, per axis

Full == 65535         \* normalized coordinates are 0..Full
Skip == 1             \* SkipPixels
Jump == 2             \* JumpPixels

Width(b)  == b.right - b.left
Height(b) == b.bottom - b.top

\* A desktop is larger than the jump and has at most Full pixels per axis (an X
\* screen has fewer than 2^15).
ASSUME ScreensAssumption ==
    \A b \in Screens :
        /\ b.left \in Int /\ b.right \in Int /\ b.top \in Int /\ b.bottom \in Int
        /\ Width(b) \in Jump + 1..Full /\ Height(b) \in Jump + 1..Full

ASSUME DeltasAssumption == Deltas \subseteq Int

Pixels(b) == [x : b.left..b.right - 1, y : b.top..b.bottom - 1]

Clip(v, lo, hi) == IF v < lo THEN lo ELSE IF v > hi THEN hi ELSE v

\* Normalize maps a pixel of [lo, hi) to 0..Full, Denormalize maps it back.
Normalize(p, lo, hi) ==
    IF hi <= lo THEN 0 ELSE ((Clip(p, lo, hi - 1) - lo) * Full) \div (hi - lo)
Denormalize(v, lo, hi) == lo + (Clip(v, 0, Full) * (hi - lo)) \div Full

DetectEdge(p, b) ==
    IF p.x < b.left + Skip THEN "left"
    ELSE IF p.x >= b.right - Skip THEN "right"
    ELSE IF p.y < b.top + Skip THEN "top"
    ELSE IF p.y >= b.bottom - Skip THEN "bottom"
    ELSE "none"

JumpNorm(span) == IF span <= 0 \/ (Jump * Full) \div span <= 2 THEN 2
                  ELSE (Jump * Full) \div span

\* Mutant of EntryForJump: the crossed axis lands on the very edge.
EntryOnEdge(p, b, d) ==
    IF d \in {"left", "right"}
    THEN [x |-> IF d = "right" THEN 0 ELSE Full, y |-> Normalize(p.y, b.top, b.bottom)]
    ELSE [x |-> Normalize(p.x, b.left, b.right), y |-> IF d = "bottom" THEN 0 ELSE Full]

\* Mutant of EntryForJump: the entry coordinate counts from the screen's origin
\* in pixels, as if both screens had one size.
EntryInPixels(p, b, d) ==
    IF d \in {"left", "right"}
    THEN [x |-> IF d = "right" THEN JumpNorm(Width(b)) ELSE Full - JumpNorm(Width(b)), y |-> p.y]
    ELSE [x |-> p.x, y |-> IF d = "bottom" THEN JumpNorm(Height(b)) ELSE Full - JumpNorm(Height(b))]

\* The normalized entry point: Jump pixels inside the edge that is entered.
EntryForJump(p, b, d) ==
    IF d \in {"left", "right"}
    THEN [x |-> IF d = "right" THEN JumpNorm(Width(b)) ELSE Full - JumpNorm(Width(b)),
          y |-> Normalize(p.y, b.top, b.bottom)]
    ELSE [x |-> Normalize(p.x, b.left, b.right),
          y |-> IF d = "bottom" THEN JumpNorm(Height(b)) ELSE Full - JumpNorm(Height(b))]

\* Where the tracker, and on a backend with absolute positioning the cursor, is put.
Landing(e, b) == [x |-> Denormalize(e.x, b.left, b.right),
                  y |-> Denormalize(e.y, b.top, b.bottom)]

-----------------------------------------------------------------------------
VARIABLES screen,     \* machine name -> its desktop
          pos         \* the cursor's pixel on the focused machine

cvars == <<matrix, focus, screen, pos>>

\* The desktop of a slot's machine; a vacant slot has none.
NoDesk == [left |-> 0, right |-> 0, top |-> 0, bottom |-> 0]
Desk(s) == IF s \in Occupied(matrix) THEN screen[matrix.slots[s]] ELSE NoDesk

CrossingInit == /\ Init
                /\ screen \in [Names -> Screens]
                /\ pos \in Pixels(Desk(focus))

\* A motion event: the tracker advances and is clamped to the desktop.
Move(dx, dy) == LET b == Desk(focus)
                IN  /\ pos' = [x |-> Clip(pos.x + dx, b.left, b.right - 1),
                               y |-> Clip(pos.y + dy, b.top, b.bottom - 1)]
                    /\ UNCHANGED <<matrix, focus, screen>>

\* The edge under the cursor has a machine behind it, which is entered.
CrossAt(d) == /\ DetectEdge(pos, Desk(focus)) = d
              /\ Cross(d)
              /\ pos' = Landing(EntryForJump(pos, Desk(focus), d), Desk(focus'))
              /\ UNCHANGED screen

CrossingNext == \/ \E dx, dy \in Deltas : Move(dx, dy)
                \/ \E d \in Directions : CrossAt(d)

CrossingSpec == CrossingInit /\ [][CrossingNext]_cvars

-----------------------------------------------------------------------------
CrossingTypeOK == /\ TypeOK
                  /\ screen \in [Names -> Screens]
                  /\ pos \in Pixels(Desk(focus))

\* The screen that is left (n pixels along the edge's axis) is less than twice
\* the entered one (m pixels), by the rounding of the jump.
Comparable(n, m) == n * (Full + m) <= 2 * Full * m

\* The landing never lies on the edge that leads straight back, which would
\* ping-pong the switch (input.go:80-84).  The jump is measured on the screen
\* that is left, so this needs the entered one to be more than half its size.
NoBounce ==
    [][\A d \in Directions :
          LET a == Desk(focus)
              b == Desk(focus')
          IN  /\ CrossAt(d)
              /\ IF d \in {"left", "right"} THEN Comparable(Width(a), Width(b))
                                            ELSE Comparable(Height(a), Height(b))
              => DetectEdge(pos', b) # Opposite[d]]_cvars

\* Pixel p of [lo, hi) and pixel q of [lo2, hi2) are at the same share of their
\* ranges: q is the last pixel not beyond p's share, or the one before it.
SameShare(p, lo, hi, q, lo2, hi2) ==
    (p - lo) * (hi2 - lo2) - (q - lo2) * (hi - lo) \in 0..2 * (hi - lo) - 1

\* The other coordinate keeps its share of the screen: each of the truncations of
\* Normalize and Denormalize costs less than one pixel, and neither pushes the
\* cursor forward (util.go:34-57).
KeepsShare ==
    [][\A d \in Directions :
          CrossAt(d) =>
             LET a == Desk(focus)
                 b == Desk(focus')
             IN  IF d \in {"left", "right"}
                 THEN SameShare(pos.y, a.top, a.bottom, pos'.y, b.top, b.bottom)
                 ELSE SameShare(pos.x, a.left, a.right, pos'.x, b.left, b.right)]_cvars
=============================================================================
