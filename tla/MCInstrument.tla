---------------------------- MODULE MCInstrument ----------------------------
(* Instrument for TLC. *)
EXTENDS Instrument, TLC

CONSTANTS c1, c2, deviceinfo, opengl

MCCallers == {c1, c2}
MCChannels == {deviceinfo, opengl}
Symmetry == Permutations(MCCallers) \cup Permutations(MCChannels)
==========================================================================
