---------------------------- MODULE MCHostSwitch ----------------------------
(***************************************************************************)
(* Small instances of HostSwitch.  The layouts are computed from real      *)
(* matrices by the operators of MatrixLayout.                              *)
(***************************************************************************)
EXTENDS HostSwitch, FiniteSets

M == INSTANCE MatrixLayout WITH Names <- {"a", "b"}, Vacant <- "",
                                matrix <- <<>>, focus <- <<>>

LayoutOf(names, wrap, self) ==
    LET m == [slots |-> names, wrap |-> wrap, twoRow |-> FALSE]
    IN  [self |-> self, occ |-> M!Occupied(m),
         nb |-> [s \in Machines |-> [e \in Edges |-> M!Neighbor(m, s, e)]]]

MCMachines == 1..4

\* We are "a": the peer is on our right.
Pair == LayoutOf(<<"a", "b", "", "">>, FALSE, 1)

OnePair == {Pair}
\* The peer moves to another slot, or is removed from the layout.
Rearranged == {Pair, LayoutOf(<<"a", "", "b", "">>, FALSE, 1),
               LayoutOf(<<"a", "", "", "">>, FALSE, 1)}
=============================================================================
