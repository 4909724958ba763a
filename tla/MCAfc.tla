------------------------------- MODULE MCAfc -------------------------------
(* Afc for TLC. *)
EXTENDS Afc, TLC
===========================================================================
