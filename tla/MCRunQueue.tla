---------------------------- MODULE MCRunQueue ----------------------------
(* RunQueue for TLC: thieves and items are interchangeable.                *)
EXTENDS RunQueue, TLC

Symmetry == Permutations(Thieves) \cup Permutations(Items)
=============================================================================
