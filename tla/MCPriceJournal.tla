---------------------------- MODULE MCPriceJournal ----------------------------
(* A small instance of the price journal. *)
EXTENDS PriceJournal, TLC

Symmetry == Permutations(Workers)
=============================================================================
