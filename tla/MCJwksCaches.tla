---------------------------- MODULE MCJwksCaches ------------------------------
(* A small instance of the key caches, in ticks of twenty minutes.           *)
EXTENDS JwksCaches, TLC

Symmetry == Permutations(Request)
===============================================================================
