------------------------------ MODULE MCFanOut -----------------------------
(***************************************************************************)
(* Small instances of FanOut.                                              *)
(***************************************************************************)
EXTENDS FanOut

MCIds == 0..IdSpace - 1
=============================================================================
