----------------------------- MODULE MCBreaker -----------------------------
(* Model-checking instance of Breaker: the calls are interchangeable.       *)
EXTENDS Breaker, TLC

Symmetry == Permutations(Calls)
=============================================================================
