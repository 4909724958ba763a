----------------------------- MODULE MCServices -----------------------------
(* Services for TLC. *)
EXTENDS Services, TLC

AllKinds == SessionKinds \cup ServiceKinds \cup UsbmuxKinds
=============================================================================
