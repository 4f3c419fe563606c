----------------------------- MODULE MCCrossing -----------------------------
(* Three small desktops: two of like size, one away from the origin, and one *)
(* more than twice as wide as the smallest.                                  *)
EXTENDS Crossing

Box(l, t, r, b) == [left |-> l, top |-> t, right |-> r, bottom |-> b]
MCScreens == {Box(0, 0, 5, 3), Box(-2, 1, 1, 4), Box(0, 0, 8, 3)}
MCDeltas == {-8, -1, 1}
=============================================================================
