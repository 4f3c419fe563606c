------------------------------ MODULE MCInbound ------------------------------
(* Contents of one block exactly; of a stride, a block and a tail; and an    *)
(* empty file.                                                               *)
EXTENDS Inbound

MCCopies == { [name |-> "text", data |-> <<1, 2>>],
              [name |-> "file", data |-> <<3, 4, 5, 6, 7, 8, 9>>],
              [name |-> "file", data |-> <<>>] }
=============================================================================
