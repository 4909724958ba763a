------------------------------ MODULE MCXctest ------------------------------
(* Xctest for TLC. *)
EXTENDS Xctest, TLC
==========================================================================
