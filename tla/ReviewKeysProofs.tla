-------------------------- MODULE ReviewKeysProofs ----------------------------
(***************************************************************************)
(* The review-service's key set for every number of requests, sets, keys   *)
(* and faults: its types, why a good token can be refused, and what cannot *)
(* go wrong before the first fault.                                        *)
(***************************************************************************)
EXTENDS ReviewKeys, TLAPS

\* A request that waits for a set, or looks into it again, has one.
Holding ==
    \A r \in Request : pc[r] \in {"refresh", "relook"} => held[r] \in Set

\* Who is in a channel, or fetched for, waits for that set, in one place.
Queued ==
    \A o \in Set, r \in Request :
        slot[o] = r \/ worker[o] = r =>
            pc[r] = "refresh" /\ held[r] = o /\ ~(slot[o] = r /\ worker[o] = r)

\* Tokens are no newer than the newest key.
TokensIssued == \A r \in Request : kid[r] <= signing

\* Nor are the sets; an answer belongs to a fetch, and is no older than what
\* the set has, nor than the token of the request it is for.
AnswersNew ==
    \A o \in Set :
        /\ keyOf[o] <= signing /\ answer[o] <= signing
        /\ answer[o] # NoKey =>
             /\ worker[o] # Nobody /\ keyOf[o] <= answer[o]
             /\ \A r \in Request : worker[o] = r => kid[r] <= answer[o]

\* The token of a request whose set has been fetched for it finds its key
\* there, if that is the current one.
FetchedForIt ==
    \A r \in Request : pc[r] = "relook" /\ r \notin failed => kid[r] <= keyOf[held[r]]

IInv == TypeOK /\ Holding /\ Queued /\ TokensIssued /\ AnswersNew /\ FetchedForIt

-------------------------------------------------------------------------------
LEMMA InitIInv == ASSUME Init PROVE IInv
  <1> USE ReviewAssumption, MaxKeysAssumption DEF Init, AuthInit, NoKey
  <1>1. AuthTypeOK
    <2>1. signing \in 0..MaxKeys /\ authUp = FALSE
      OBVIOUS
    <2> HIDE DEF Init, AuthInit
    <2> QED  BY <2>1 DEF AuthTypeOK
  <1>2. TypeOK
    BY <1>1 DEF TypeOK, Places, Verdicts, Askers
  <1>3. Holding /\ TokensIssued /\ FetchedForIt
    BY DEF Holding, TokensIssued, FetchedForIt
  <1>4. Queued /\ AnswersNew
    BY DEF Queued, AnswersNew
  <1> QED  BY <1>2, <1>3, <1>4 DEF IInv

\* The auth-service starts or stops.
LEMMA AuthStep == ASSUME IInv, AuthRestarts PROVE IInv'
  <1> USE ReviewAssumption, MaxKeysAssumption DEF IInv
  <1>1. signing' \in 0..MaxKeys /\ authUp' \in BOOLEAN /\ (authUp' => signing' # NoKey)
    <2>1. CASE AuthStarts
      <3>1. signing' \in 0..MaxKeys /\ signing' # NoKey /\ authUp' = TRUE
        BY <2>1 DEF AuthStarts, TypeOK, AuthTypeOK, NoKey
      <3> QED  BY <3>1
    <2>2. CASE AuthStops
      <3>1. signing' \in 0..MaxKeys /\ authUp' = FALSE
        BY <2>2 DEF AuthStops, TypeOK, AuthTypeOK
      <3> QED  BY <3>1
    <2> QED  BY <2>1, <2>2 DEF AuthRestarts
  <1>2. TypeOK'
    BY <1>1 DEF AuthRestarts, TypeOK, AuthTypeOK, library
  <1>3. signing' >= signing
    BY DEF AuthRestarts, AuthStarts, AuthStops, TypeOK, AuthTypeOK
  <1>4. Holding' /\ Queued' /\ TokensIssued'
    BY <1>1, <1>3 DEF AuthRestarts, TypeOK, AuthTypeOK, library, Holding, Queued, TokensIssued
  <1>5. AnswersNew'
    BY <1>1, <1>3 DEF AuthRestarts, TypeOK, AuthTypeOK, library, AnswersNew
  <1>6. FetchedForIt'
    BY DEF AuthRestarts, FetchedForIt
  <1> QED  BY <1>2, <1>4, <1>5, <1>6

\* Types, action by action.
LEMMA TypeStep ==
  ASSUME IInv, [Next]_vars, ~AuthRestarts PROVE TypeOK'
  <1> USE ReviewAssumption, MaxKeysAssumption DEF IInv, TypeOK, AuthTypeOK, Askers, Keys, NoKey, Places, Verdicts,
        authVars, library, Goto, Published, Holding, Queued
  <1>1. ASSUME NEW r \in Request, NEW k \in Circulating, Arrive(r, k) PROVE TypeOK'
    BY <1>1 DEF Arrive, Circulating
  <1>2. ASSUME NEW r \in Request, NEW o \in Set, Load(r, o) PROVE TypeOK'
    BY <1>2 DEF Load, New, InUse
  <1>3. ASSUME NEW r \in Request, LoadFails(r) PROVE TypeOK'
    BY <1>3 DEF LoadFails, CallFails
  <1>4. ASSUME NEW r \in Request, Retest(r) PROVE TypeOK'
    BY <1>4 DEF Retest, Ends
  <1>5. ASSUME NEW r \in Request, Verify(r) PROVE TypeOK'
    BY <1>5 DEF Verify, Ends
  <1>6. ASSUME NEW r \in Request, Relook(r) PROVE TypeOK'
    BY <1>6 DEF Relook, Ends
  <1>7. ASSUME NEW o \in Set, HourIsOver(o) PROVE TypeOK'
    BY <1>7 DEF HourIsOver
  <1>8. ASSUME NEW o \in Set, Take(o) PROVE TypeOK'
    BY <1>8 DEF Take
  <1>9. ASSUME NEW o \in Set, Fetched(o) PROVE TypeOK'
    BY <1>9 DEF Fetched
  <1>10. ASSUME NEW o \in Set, Stored(o) PROVE TypeOK'
    BY <1>10 DEF Stored, Done
  <1>11. ASSUME NEW o \in Set, FetchFails(o) PROVE TypeOK'
    BY <1>11 DEF FetchFails, CallFails, Done
  <1>12. CASE UNCHANGED vars
    BY <1>12 DEF vars
  <1> HIDE DEF IInv, TypeOK, AuthTypeOK, Askers, Keys, NoKey, Places, Verdicts,
        authVars, library, Goto, Published, Holding, Queued
  <1> QED
    BY <1>1, <1>2, <1>3, <1>4, <1>5, <1>6, <1>7, <1>8, <1>9, <1>10, <1>11, <1>12
    DEF Next, Serve, Fetches

\* Who waits where.
LEMMA QueuedStep ==
  ASSUME IInv, [Next]_vars, ~AuthRestarts PROVE (Holding /\ Queued)'
  <1> USE ReviewAssumption, MaxKeysAssumption DEF IInv, TypeOK, AuthTypeOK, Askers, Keys, NoKey, Places, Verdicts,
        authVars, library, Goto, Published, Holding, Queued, Over
  <1>1. ASSUME NEW r \in Request, NEW k \in Circulating, Arrive(r, k) PROVE (Holding /\ Queued)'
    BY <1>1 DEF Arrive, Circulating
  <1>2. ASSUME NEW r \in Request, NEW o \in Set, Load(r, o) PROVE (Holding /\ Queued)'
    BY <1>2 DEF Load, New, InUse
  <1>3. ASSUME NEW r \in Request, LoadFails(r) PROVE (Holding /\ Queued)'
    BY <1>3 DEF LoadFails, CallFails
  <1>4. ASSUME NEW r \in Request, Retest(r) PROVE (Holding /\ Queued)'
    BY <1>4 DEF Retest, Ends
  <1>5. ASSUME NEW r \in Request, Verify(r) PROVE (Holding /\ Queued)'
    BY <1>5 DEF Verify, Ends
  <1>6. ASSUME NEW r \in Request, Relook(r) PROVE (Holding /\ Queued)'
    BY <1>6 DEF Relook, Ends
  <1>7. ASSUME NEW o \in Set, HourIsOver(o) PROVE (Holding /\ Queued)'
    BY <1>7 DEF HourIsOver
  <1>8. ASSUME NEW o \in Set, Take(o) PROVE (Holding /\ Queued)'
    BY <1>8 DEF Take
  <1>9. ASSUME NEW o \in Set, Fetched(o) PROVE (Holding /\ Queued)'
    BY <1>9 DEF Fetched
  <1>10. ASSUME NEW o \in Set, Stored(o) PROVE (Holding /\ Queued)'
    BY <1>10 DEF Stored, Done
  <1>11. ASSUME NEW o \in Set, FetchFails(o) PROVE (Holding /\ Queued)'
    BY <1>11 DEF FetchFails, CallFails, Done
  <1>12. CASE UNCHANGED vars
    BY <1>12 DEF vars
  <1> HIDE DEF IInv, TypeOK, AuthTypeOK, Askers, Keys, NoKey, Places, Verdicts,
        authVars, library, Goto, Published, Holding, Queued, Over
  <1> QED
    BY <1>1, <1>2, <1>3, <1>4, <1>5, <1>6, <1>7, <1>8, <1>9, <1>10, <1>11, <1>12
    DEF Next, Serve, Fetches

\* How new tokens, sets and answers are.
LEMMA NewStep ==
  ASSUME IInv, [Next]_vars, ~AuthRestarts PROVE (TokensIssued /\ AnswersNew)'
  <1> USE ReviewAssumption, MaxKeysAssumption DEF IInv, TypeOK, AuthTypeOK, Askers, Keys, NoKey, Places, Verdicts,
        authVars, library, Goto, Published, Queued, TokensIssued, AnswersNew, Over
  <1>1. ASSUME NEW r \in Request, NEW k \in Circulating, Arrive(r, k) PROVE (TokensIssued /\ AnswersNew)'
    BY <1>1 DEF Arrive, Circulating
  <1>2. ASSUME NEW r \in Request, NEW o \in Set, Load(r, o) PROVE (TokensIssued /\ AnswersNew)'
    BY <1>2 DEF Load, New, InUse
  <1>3. ASSUME NEW r \in Request, LoadFails(r) PROVE (TokensIssued /\ AnswersNew)'
    BY <1>3 DEF LoadFails, CallFails
  <1>4. ASSUME NEW r \in Request, Retest(r) PROVE (TokensIssued /\ AnswersNew)'
    BY <1>4 DEF Retest, Ends
  <1>5. ASSUME NEW r \in Request, Verify(r) PROVE (TokensIssued /\ AnswersNew)'
    BY <1>5 DEF Verify, Ends
  <1>6. ASSUME NEW r \in Request, Relook(r) PROVE (TokensIssued /\ AnswersNew)'
    BY <1>6 DEF Relook, Ends
  <1>7. ASSUME NEW o \in Set, HourIsOver(o) PROVE (TokensIssued /\ AnswersNew)'
    BY <1>7 DEF HourIsOver
  <1>8. ASSUME NEW o \in Set, Take(o) PROVE (TokensIssued /\ AnswersNew)'
    BY <1>8 DEF Take
  <1>9. ASSUME NEW o \in Set, Fetched(o) PROVE (TokensIssued /\ AnswersNew)'
    BY <1>9 DEF Fetched
  <1>10. ASSUME NEW o \in Set, Stored(o) PROVE (TokensIssued /\ AnswersNew)'
    BY <1>10 DEF Stored, Done
  <1>11. ASSUME NEW o \in Set, FetchFails(o) PROVE (TokensIssued /\ AnswersNew)'
    BY <1>11 DEF FetchFails, CallFails, Done
  <1>12. CASE UNCHANGED vars
    BY <1>12 DEF vars
  <1> HIDE DEF IInv, TypeOK, AuthTypeOK, Askers, Keys, NoKey, Places, Verdicts,
        authVars, library, Goto, Published, Queued, TokensIssued, AnswersNew, Over
  <1> QED
    BY <1>1, <1>2, <1>3, <1>4, <1>5, <1>6, <1>7, <1>8, <1>9, <1>10, <1>11, <1>12
    DEF Next, Serve, Fetches

\* What a request finds that looks again.
LEMMA FoundStep ==
  ASSUME IInv, [Next]_vars, ~AuthRestarts PROVE FetchedForIt'
  <1> USE ReviewAssumption, MaxKeysAssumption DEF IInv, TypeOK, AuthTypeOK, Askers, Keys, NoKey, Places, Verdicts,
        authVars, library, Goto, Published, Holding, Queued, AnswersNew, FetchedForIt
  <1>1. ASSUME NEW r \in Request, NEW k \in Circulating, Arrive(r, k) PROVE FetchedForIt'
    BY <1>1 DEF Arrive, Circulating
  <1>2. ASSUME NEW r \in Request, NEW o \in Set, Load(r, o) PROVE FetchedForIt'
    BY <1>2 DEF Load, New, InUse
  <1>3. ASSUME NEW r \in Request, LoadFails(r) PROVE FetchedForIt'
    BY <1>3 DEF LoadFails, CallFails
  <1>4. ASSUME NEW r \in Request, Retest(r) PROVE FetchedForIt'
    BY <1>4 DEF Retest, Ends
  <1>5. ASSUME NEW r \in Request, Verify(r) PROVE FetchedForIt'
    BY <1>5 DEF Verify, Ends
  <1>6. ASSUME NEW r \in Request, Relook(r) PROVE FetchedForIt'
    BY <1>6 DEF Relook, Ends
  <1>7. ASSUME NEW o \in Set, HourIsOver(o) PROVE FetchedForIt'
    BY <1>7 DEF HourIsOver
  <1>8. ASSUME NEW o \in Set, Take(o) PROVE FetchedForIt'
    BY <1>8 DEF Take
  <1>9. ASSUME NEW o \in Set, Fetched(o) PROVE FetchedForIt'
    BY <1>9 DEF Fetched
  <1>10. ASSUME NEW o \in Set, Stored(o) PROVE FetchedForIt'
    BY <1>10 DEF Stored, Done
  <1>11. ASSUME NEW o \in Set, FetchFails(o) PROVE FetchedForIt'
    BY <1>11 DEF FetchFails, CallFails, Done
  <1>12. CASE UNCHANGED vars
    BY <1>12 DEF vars
  <1> HIDE DEF IInv, TypeOK, AuthTypeOK, Askers, Keys, NoKey, Places, Verdicts,
        authVars, library, Goto, Published, Holding, Queued, AnswersNew, FetchedForIt
  <1> QED
    BY <1>1, <1>2, <1>3, <1>4, <1>5, <1>6, <1>7, <1>8, <1>9, <1>10, <1>11, <1>12
    DEF Next, Serve, Fetches

LEMMA StepIInv == ASSUME IInv, [Next]_vars PROVE IInv'
  <1>1. CASE AuthRestarts
    BY <1>1, AuthStep
  <1>2. CASE ~AuthRestarts
    BY <1>2, TypeStep, QueuedStep, NewStep, FoundStep DEF IInv
  <1> QED  BY <1>1, <1>2

LEMMA Invariance == Spec => []IInv
  BY InitIInv, StepIInv, PTL DEF Spec

-------------------------------------------------------------------------------
(* The key set, the sets requests look into and the tokens keep their types. *)
THEOREM TypeCorrect == Spec => []TypeOK
  <1>1. IInv => TypeOK
    BY DEF IInv
  <1> QED  BY <1>1, Invariance, PTL

(* A token of the running auth-service is refused only if its own fetch      *)
(* failed, or the hourly refresh or another request that waits for the set   *)
(* was in its channel.                                                       *)
THEOREM RefusalsHaveCause == Spec => RefusedForCause
  <1>1. ASSUME IInv, [Next]_vars, NEW r \in Request,
               ~Over(r), pc'[r] = "refused", authUp, kid[r] = signing
        PROVE  (pc[r] = "relook" /\ r \in failed) \/ Crowded(r)
    <2> USE <1>1 DEF IInv, TypeOK, Over, Verdicts, Goto, Ends
    <2>1. pc'[r] # pc[r]
      OBVIOUS
    <2>2. Serve(r)
      BY <2>1 DEF Next, AuthRestarts, Serve, Fetches, Arrive, Load, LoadFails, Retest,
         Verify, Relook, HourIsOver, Take, Fetched, Stored, FetchFails, Done, vars
    <2>3. CASE Verify(r)
      <3>1. pc[r] = "verify" /\ jwks \in Set /\ slot[jwks] \in Askers \ {Nobody}
        BY <2>3 DEF Verify
      <3>2. ASSUME slot[jwks] \in Request PROVE Crowded(r)
        <4>1. pc[slot[jwks]] = "refresh" /\ held[slot[jwks]] = jwks
          BY <3>1, <3>2 DEF Queued
        <4> QED  BY <3>1, <3>2, <4>1, ReviewAssumption DEF Crowded
      <3> QED  BY <3>1, <3>2, ReviewAssumption DEF Askers, Crowded
    <2>4. CASE Relook(r)
      <3>1. pc[r] = "relook" /\ keyOf[held[r]] # signing /\ held[r] \in Set
        BY <2>4 DEF Relook, Holding
      <3>2. keyOf[held[r]] <= signing /\ keyOf[held[r]] \in Nat /\ signing \in Nat
        BY <3>1, MaxKeysAssumption DEF AnswersNew, AuthTypeOK
      <3> QED  BY <3>1, <3>2 DEF FetchedForIt
    <2>5. ~LoadFails(r) /\ ~Retest(r)
      BY DEF LoadFails, Retest
    <2>6. \A o \in Set : ~Load(r, o)
      BY DEF Load
    <2> QED  BY <2>2, <2>3, <2>4, <2>5, <2>6 DEF Serve
  <1>2. ASSUME IInv, [Next]_vars
        PROVE  [\A r \in Request :
                  /\ ~Over(r) /\ pc'[r] = "refused"
                  /\ authUp /\ kid[r] = signing
                  => (pc[r] = "relook" /\ r \in failed) \/ Crowded(r)]_vars
    BY <1>1, <1>2
  <1> QED  BY <1>2, Invariance, PTL DEF Spec, RefusedForCause

-------------------------------------------------------------------------------
(* Before the first fault                                                    *)

\* No token is about before the first key.
NothingAsked == signing = NoKey => jwks = NoSet /\ \A r \in Request : pc[r] = "none"

\* A request that has been to initJWKS finds the global loaded, its token has
\* the one key there is, and so no request waits for another fetch: what the
\* hour brings in is the same key.
Calm ==
    Undisturbed =>
        /\ \A r \in Request :
              /\ pc[r] \in {"init", "retest", "verify", "none", "accepted"}
              /\ pc[r] \in {"init", "retest", "verify"} => kid[r] = signing
              /\ pc[r] \in {"retest", "verify"} => jwks # NoSet
        /\ jwks # NoSet => keyOf[jwks] = signing

CalmInv == NothingAsked /\ Calm

LEMMA CalmInit == ASSUME Init PROVE CalmInv
  BY DEF Init, AuthInit, CalmInv, NothingAsked, Calm

\* What has been disturbed stays so.
LEMMA UndisturbedBefore == ASSUME IInv, [Next]_vars, Undisturbed' PROVE Undisturbed
  <1> USE ReviewAssumption, MaxKeysAssumption
        DEF Undisturbed, IInv, TypeOK, AuthTypeOK, NoKey, authVars
  <1>1. CASE AuthRestarts
    BY <1>1 DEF AuthRestarts, AuthStarts, AuthStops
  <1>2. CASE ~AuthRestarts
    <2>1. UNCHANGED authVars /\ (faults' = faults \/ faults' = faults + 1)
      BY <1>2 DEF Next, Serve, Fetches, Arrive, Load, LoadFails, Retest, Verify, Relook,
         HourIsOver, Take, Fetched, Stored, FetchFails, CallFails, vars
    <2> QED  BY <2>1
  <1> QED  BY <1>1, <1>2

\* The first key is made, or the auth-service is disturbed.
LEMMA CalmAuthStep == ASSUME IInv, CalmInv, AuthRestarts PROVE CalmInv'
  <1> USE MaxKeysAssumption DEF CalmInv, Undisturbed, IInv, TypeOK, AuthTypeOK, NoKey
  <1>1. CASE AuthStarts
    <2>1. signing' # NoKey /\ (signing' <= 1 => signing = NoKey)
      BY <1>1 DEF AuthStarts
    <2> QED  BY <2>1 DEF AuthRestarts, NothingAsked, Calm
  <1>2. CASE AuthStops
    <2>1. ~Undisturbed' /\ signing' # NoKey
      BY <1>2 DEF AuthStops
    <2> QED  BY <2>1 DEF NothingAsked, Calm
  <1> QED  BY <1>1, <1>2 DEF AuthRestarts

LEMMA CalmStep ==
  ASSUME IInv, CalmInv, [Next]_vars, ~AuthRestarts PROVE CalmInv'
  <1> USE ReviewAssumption, MaxKeysAssumption, UndisturbedBefore
        DEF CalmInv, NothingAsked, Calm, IInv, Queued, AnswersNew, TypeOK, AuthTypeOK, Askers, Keys, NoKey, Places, Verdicts,
        authVars, library, Goto, Published
  <1>1. ASSUME NEW r \in Request, NEW k \in Circulating, Arrive(r, k) PROVE CalmInv'
    BY <1>1 DEF Arrive, Circulating, Undisturbed
  <1>2. ASSUME NEW r \in Request, NEW o \in Set, Load(r, o) PROVE CalmInv'
    BY <1>2 DEF Load, New, InUse
  <1>3. ASSUME NEW r \in Request, LoadFails(r) PROVE CalmInv'
    BY <1>3 DEF LoadFails, CallFails, Undisturbed
  <1>4. ASSUME NEW r \in Request, Retest(r) PROVE CalmInv'
    BY <1>4 DEF Retest, Ends
  <1>5. ASSUME NEW r \in Request, Verify(r) PROVE CalmInv'
    BY <1>5 DEF Verify, Ends
  <1>6. ASSUME NEW r \in Request, Relook(r) PROVE CalmInv'
    BY <1>6 DEF Relook, Ends
  <1>7. ASSUME NEW o \in Set, HourIsOver(o) PROVE CalmInv'
    BY <1>7 DEF HourIsOver
  <1>8. ASSUME NEW o \in Set, Take(o) PROVE CalmInv'
    BY <1>8 DEF Take
  <1>9. ASSUME NEW o \in Set, Fetched(o) PROVE CalmInv'
    BY <1>9 DEF Fetched
  <1>10. ASSUME NEW o \in Set, Stored(o) PROVE CalmInv'
    BY <1>10 DEF Stored, Done
  <1>11. ASSUME NEW o \in Set, FetchFails(o) PROVE CalmInv'
    BY <1>11 DEF FetchFails, CallFails, Done, Undisturbed
  <1>12. CASE UNCHANGED vars
    BY <1>12 DEF vars, Undisturbed
  <1> HIDE DEF CalmInv, NothingAsked, Calm, IInv, Queued, AnswersNew, TypeOK, AuthTypeOK, Askers, Keys, NoKey, Places, Verdicts,
        authVars, library, Goto, Published
  <1> QED
    BY <1>1, <1>2, <1>3, <1>4, <1>5, <1>6, <1>7, <1>8, <1>9, <1>10, <1>11, <1>12
    DEF Next, Serve, Fetches

(* Until a call to the auth-service fails or it stops, every request that    *)
(* ends is accepted, and none finds the global nil after its second test.    *)
THEOREM UndisturbedIsSafe == Spec => []SafeUndisturbed
  <1>1. Init => CalmInv
    BY CalmInit
  <1>2. IInv /\ CalmInv /\ [Next]_vars => CalmInv'
    BY CalmAuthStep, CalmStep
  <1>3. CalmInv => SafeUndisturbed
    BY DEF CalmInv, Calm, SafeUndisturbed, Over, Verdicts
  <1> QED  BY <1>1, <1>2, <1>3, Invariance, PTL DEF Spec

===============================================================================
