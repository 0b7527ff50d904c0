---------------------------- MODULE MCUserAccounts ----------------------------
(* A small instance of the user accounts.                                    *)
EXTENDS UserAccounts, TLC

\* Requests, ids and emails are alike.
Symmetry == Permutations(Request) \union Permutations(UserId) \union Permutations(Email)
===============================================================================
