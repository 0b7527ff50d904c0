-------------------------- MODULE MCMediaAvatars ------------------------------
(* A small instance of the avatar files.                                     *)
EXTENDS MediaAvatars, TLC

CONSTANTS png, jpg

Symmetry == Permutations(Request) \union Permutations(Data)
              \union Permutations({png, jpg})
===============================================================================
