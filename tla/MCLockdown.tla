----------------------------- MODULE MCLockdown -----------------------------
(* Lockdown for TLC. *)
EXTENDS Lockdown, TLC
==========================================================================
