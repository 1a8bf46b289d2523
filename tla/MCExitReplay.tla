---------------------------- MODULE MCExitReplay ----------------------------
(***************************************************************************)
(* Instances of ExitReplay for TLC: a position of a few quantity steps     *)
(* whose entry fee does not divide evenly, and funding rates of either     *)
(* sign that do not divide evenly either.                                  *)
(***************************************************************************)
EXTENDS ExitReplay

OneBoundary == {2}
TwoBoundaries == {1, 2}
CostlyRate == [b \in OneBoundary |-> 3]
MixedRate == [b \in TwoBoundaries |-> IF b = 1 THEN -3 ELSE 1]
=============================================================================
