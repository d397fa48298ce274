----------------------------- MODULE MCAnalysis -----------------------------
(* Analysis on a few days and strategies. *)
EXTENDS Analysis, TLC

CONSTANTS k1, k2

TwoStocks == {k1, k2}

Symmetry == Permutations(Stock)
=============================================================================
