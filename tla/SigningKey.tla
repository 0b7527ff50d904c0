----------------------------- MODULE SigningKey -------------------------------
(***************************************************************************)
(* The auth-service as its verifiers see it: each of its processes makes a *)
(* key of its own when it starts, signs every token with it, and publishes *)
(* it alone.  Keys are numbered in the order of the processes.             *)
(***************************************************************************)
EXTENDS Naturals

CONSTANT MaxKeys    \* bound: starts of the auth-service

ASSUME MaxKeysAssumption == MaxKeys \in Nat

VARIABLES
    authUp,     \* the auth-service runs
    signing     \* its key: the last one made, 0 before the first

authVars == <<authUp, signing>>

Keys == 1..MaxKeys
NoKey == 0

\* Keys of the tokens users and services may hold, and the published key set,
\* which has one element.
Circulating == 1..signing
Published == signing

AuthTypeOK == authUp \in BOOLEAN /\ signing \in 0..MaxKeys
                /\ (authUp => signing # NoKey)

AuthInit == authUp = FALSE /\ signing = NoKey

AuthStarts ==
    /\ ~authUp /\ signing < MaxKeys
    /\ authUp' = TRUE /\ signing' = signing + 1

AuthStops == authUp /\ authUp' = FALSE /\ UNCHANGED signing
===============================================================================
