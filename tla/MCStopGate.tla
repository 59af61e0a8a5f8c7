----------------------------- MODULE MCStopGate -----------------------------
(* StopGate for TLC: two interchangeable sessions. *)
EXTENDS StopGate, TLC

CONSTANTS a, b
MCSessions == {a, b}
Interchangeable == Permutations(MCSessions)
=============================================================================
