-------------------------- MODULE MCMarketDataHub --------------------------
(* MarketDataHub for TLC, with the symmetry of its model values. *)
EXTENDS MarketDataHub, TLC

Symmetry == Permutations(Consumers) \cup Permutations(Keys)
=============================================================================
