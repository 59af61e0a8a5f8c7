---------------------------- MODULE MCLoopDriver ----------------------------
(* LoopDriver for TLC: two or three findings. *)
EXTENDS LoopDriver, TLC

CONSTANTS f1, f2, f3

TwoSeverities == (f1 :> "CRITICAL") @@ (f2 :> "WARN")
TwoRegions == (f1 :> "r1") @@ (f2 :> "r2")
TwoOwners == (f1 :> "disownable") @@ (f2 :> "foreign")

ThreeSeverities == (f1 :> "CRITICAL") @@ (f2 :> "WARN") @@ (f3 :> "INFO")
ThreeRegions == (f1 :> "r1") @@ (f2 :> "r2") @@ (f3 :> "r1")
ThreeOwners == (f1 :> "own") @@ (f2 :> "check") @@ (f3 :> "own")
=============================================================================
