-------------------------- MODULE MCMatchingEngine --------------------------
(* Small instances of MatchingEngine for TLC. *)
EXTENDS MatchingEngine

Symmetry ==
  Permutations(Symbols) \cup Permutations(OrderIds \ BinanceIds) \cup Permutations(BinanceIds)
=============================================================================
