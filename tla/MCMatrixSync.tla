---------------------------- MODULE MCMatrixSync ----------------------------
(* Two layouts that share no slot and no flag: a row of all machines, with   *)
(* ours not in the slot a guess gives it, and a square without one of them.  *)
EXTENDS MatrixSync, TLC

CONSTANTS me, p1, p2

Row(a, b, c, d) == 1 :> a @@ 2 :> b @@ 3 :> c @@ 4 :> d
MCLayouts ==
    { [slots |-> Row(p2, me, p1, Vacant), wrap |-> FALSE, twoRow |-> FALSE],
      [slots |-> Row(Vacant, Vacant, me, p1), wrap |-> TRUE, twoRow |-> TRUE] }
=============================================================================
