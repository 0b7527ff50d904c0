------------------------- MODULE JwksCachesProofs ----------------------------
(***************************************************************************)
(* Type correctness, for how long a key can go unknown and what requests   *)
(* are answered meanwhile, for every number of requests and every choice   *)
(* of the times.                                                           *)
(***************************************************************************)
EXTENDS JwksCaches, TLAPS

-------------------------------------------------------------------------------
(* The inductive invariant                                                   *)

\* No fetch and no timer is later than Lag, and an answer holds a key.
InTime ==
    /\ \A r \in Request : fetch[r].pc \notin Over => fetch[r].age <= Lag
    /\ strategy.age <= Due(strategy, delay)
    /\ strategy.pc = "answered" => strategy.key # NoKey

\* A request holds an old key only if the auth-service has started since it
\* asked, and the cache only if such a request has stored it.
OldAnswers ==
    \A r \in Request : fetch[r].pc = "answered" /\ fetch[r].key # signing
                            => calm <= fetch[r].age
OldCache == cache.key \notin {NoKey, signing} => calm <= Lag + cache.age

\* How long the health-monitor can have been without the current key, by what
\* it is doing.
OldTable ==
    signing \notin signers =>
        IF strategy.pc = "waiting" THEN calm <= Lag + strategy.age
        ELSE IF strategy.pc = "answered" /\ strategy.key # signing
             THEN calm <= strategy.age
             ELSE calm <= Refresh + 2 * Lag + strategy.age

\* What a request has found or stored is there for it to read, unless it found
\* it and time has passed.
Found ==
    \A r \in Request :
        /\ fetch[r].pc = "answered" => fetch[r].key # NoKey
        /\ fetch[r].pc = "tested" /\ fetch[r].age = 0 => cache.key # NoKey
        /\ fetch[r].pc = "stored" => cache.key # NoKey /\ cache.age <= fetch[r].age

IInv == TypeOK /\ InTime /\ OldAnswers /\ OldCache /\ OldTable /\ Found

-------------------------------------------------------------------------------
LEMMA InitIInv == ASSUME Init PROVE IInv
  <1> USE JwksAssumption, MaxKeysAssumption DEF Init, AuthInit, Waiting, NoCache, NoKey
  <1>1. AuthTypeOK
    <2>1. signing \in 0..MaxKeys
      OBVIOUS
    <2>2. authUp = FALSE
      OBVIOUS
    <2> HIDE DEF Init, AuthInit
    <2> QED  BY <2>1, <2>2 DEF AuthTypeOK
  <1>2. cache \in [key : 0..MaxKeys, age : 0..(Ttl - 1)]
    OBVIOUS
  <1>3. fetch \in [Request -> Job] /\ strategy \in Fetch /\ call \in [Request -> Calls]
    BY DEF Fetch, Places, Job, Steps, Over, NoCall, Calls
  <1>4. signers \subseteq Keys /\ delay \in 0..Refresh /\ calm \in 0..MaxCalm
    OBVIOUS
  <1>5. InTime /\ OldAnswers /\ OldCache /\ OldTable /\ Found
    BY DEF InTime, OldAnswers, OldCache, OldTable, Due, Over, Found
  <1> QED  BY <1>1, <1>2, <1>3, <1>4, <1>5 DEF IInv, TypeOK

\* Types, action by action.
LEMMA TypeStep == ASSUME TypeOK, InTime, [Next]_vars PROVE TypeOK'
  <1> USE JwksAssumption, MaxKeysAssumption DEF InTime, TypeOK, AuthTypeOK, Keys, NoKey, Fetch, Places,
        pyVars, exVars, authVars, Waiting, Asked, Answered, NoCache, Job, Steps, Over, Reads, Calls, NoCall, Answer, Tested
  <1>1. CASE AuthRestarts
    <2>1. CASE AuthStarts
      <3>1. signing' \in 0..MaxKeys /\ signing' # 0 /\ authUp' = TRUE
        BY <2>1 DEF AuthStarts
      <3> QED  BY <3>1, <1>1 DEF AuthRestarts
    <2>2. CASE AuthStops
      <3>1. signing' \in 0..MaxKeys /\ authUp' = FALSE
        BY <2>2 DEF AuthStops
      <3>2. AuthTypeOK'
        BY <3>1
      <3> QED  BY <3>2, <1>1 DEF AuthRestarts
    <2> QED  BY <1>1, <2>1, <2>2 DEF AuthRestarts
  <1>2. CASE PyRestarts
    BY <1>2 DEF PyRestarts
  <1>3. CASE ExRestarts
    BY <1>3 DEF ExRestarts
  <1>4. ASSUME NEW r \in Request, PyArrives(r) PROVE TypeOK'
    <2>1. PICK k \in Circulating, kind \in Kinds, gate \in Gates :
              call' = [call EXCEPT ![r] = [key |-> k, claims |-> Claims(kind, gate)]]
      BY <1>4 DEF PyArrives
    <2>2. Claims(kind, gate) \in {"accepted", "refused", "raised"}
      BY DEF Claims
    <2>3. (call \in [Request -> Calls])'
      BY <2>1, <2>2 DEF Circulating
    <2>4. (fetch \in [Request -> Job])'
      BY <1>4 DEF PyArrives
    <2> QED  BY <1>4, <2>3, <2>4 DEF PyArrives
  <1>5. ASSUME NEW r \in Request, PyAnswered(r) PROVE TypeOK'
    BY <1>5 DEF PyAnswered, Published
  <1>6. ASSUME NEW r \in Request, PyStore(r) PROVE TypeOK'
    BY <1>6 DEF PyStore, Cached
  <1>7. ASSUME NEW r \in Request, PyFails(r) PROVE TypeOK'
    BY <1>7 DEF PyFails
  <1>8. CASE ExAsk
    BY <1>8 DEF ExAsk
  <1>9. CASE ExAnswered
    BY <1>9 DEF ExAnswered, Published
  <1>10. CASE ExStore
    <2>1. strategy.key \in Keys
      BY <1>10 DEF ExStore
    <2>2. (signers \subseteq Keys)'
      BY <1>10, <2>1 DEF ExStore
    <2>3. (strategy \in Fetch)' /\ (delay \in 0..Refresh)'
      BY <1>10 DEF ExStore
    <2> QED  BY <1>10, <2>2, <2>3 DEF ExStore
  <1>11. CASE ExFails
    BY <1>11 DEF ExFails
  <1>12. CASE Tick
    BY <1>12 DEF Tick, Prompt, Aged, Older
  <1>13. CASE UNCHANGED vars
    BY <1>13 DEF vars
  <1>14. ASSUME NEW r \in Request, PyRead(r) PROVE TypeOK'
    BY <1>14 DEF PyRead, Verdict
  <1> HIDE DEF InTime, TypeOK, AuthTypeOK, Keys, NoKey, Fetch, Places,
        pyVars, exVars, authVars, Waiting, Asked, Answered, NoCache, Job, Steps, Over, Reads, Calls, NoCall, Answer, Tested
  <1> QED
    BY <1>1, <1>2, <1>3, <1>4, <1>5, <1>6, <1>7, <1>8, <1>9, <1>10, <1>11, <1>12,
       <1>13, <1>14 DEF Next

\* Lateness.
LEMMA TimeStep == ASSUME IInv, [Next]_vars PROVE InTime'
  <1> USE JwksAssumption, MaxKeysAssumption DEF InTime, Due, IInv, TypeOK, AuthTypeOK, Fetch, NoKey,
        pyVars, exVars, authVars, Waiting, Asked, Answered, NoCache, Job, Steps, Over, Reads, Calls, NoCall, Answer, Tested
  <1>1. CASE AuthRestarts
    BY <1>1 DEF AuthRestarts, AuthStarts, AuthStops
  <1>2. CASE PyRestarts
    BY <1>2 DEF PyRestarts
  <1>3. CASE ExRestarts
    BY <1>3 DEF ExRestarts
  <1>4. ASSUME NEW r \in Request, PyArrives(r) PROVE InTime'
    BY <1>4 DEF PyArrives
  <1>5. ASSUME NEW r \in Request, PyAnswered(r) PROVE InTime'
    BY <1>5 DEF PyAnswered, Published
  <1>6. ASSUME NEW r \in Request, PyStore(r) PROVE InTime'
    BY <1>6 DEF PyStore, Cached
  <1>7. ASSUME NEW r \in Request, PyFails(r) PROVE InTime'
    BY <1>7 DEF PyFails
  <1>8. CASE ExAsk
    BY <1>8 DEF ExAsk
  <1>9. CASE ExAnswered
    BY <1>9 DEF ExAnswered, Published
  <1>10. CASE ExStore
    BY <1>10 DEF ExStore
  <1>11. CASE ExFails
    BY <1>11 DEF ExFails
  <1>12. CASE Tick
    BY <1>12 DEF Tick, Prompt, Aged, Older
  <1>13. CASE UNCHANGED vars
    BY <1>13 DEF vars
  <1>14. ASSUME NEW r \in Request, PyRead(r) PROVE InTime'
    BY <1>14 DEF PyRead, Verdict
  <1> HIDE DEF InTime, Due, IInv, TypeOK, AuthTypeOK, Fetch, NoKey,
        pyVars, exVars, authVars, Waiting, Asked, Answered, NoCache, Job, Steps, Over, Reads, Calls, NoCall, Answer, Tested
  <1> QED
    BY <1>1, <1>2, <1>3, <1>4, <1>5, <1>6, <1>7, <1>8, <1>9, <1>10, <1>11, <1>12,
       <1>13, <1>14 DEF Next

\* Python's answers and its cache.
LEMMA PythonStep == ASSUME IInv, [Next]_vars PROVE (OldAnswers /\ OldCache)'
  <1> USE JwksAssumption, MaxKeysAssumption DEF OldAnswers, OldCache, IInv, InTime, TypeOK, AuthTypeOK, Fetch, NoKey,
        pyVars, exVars, authVars, Waiting, Asked, Answered, NoCache, Job, Steps, Over, Reads, Calls, NoCall, Answer, Tested
  <1>1. CASE AuthRestarts
    BY <1>1 DEF AuthRestarts, AuthStarts, AuthStops
  <1>2. CASE PyRestarts
    BY <1>2 DEF PyRestarts
  <1>3. CASE ExRestarts
    BY <1>3 DEF ExRestarts
  <1>4. ASSUME NEW r \in Request, PyArrives(r) PROVE (OldAnswers /\ OldCache)'
    BY <1>4 DEF PyArrives
  <1>5. ASSUME NEW r \in Request, PyAnswered(r) PROVE (OldAnswers /\ OldCache)'
    BY <1>5 DEF PyAnswered, Published
  <1>6. ASSUME NEW r \in Request, PyStore(r) PROVE (OldAnswers /\ OldCache)'
    BY <1>6 DEF PyStore, Cached
  <1>7. ASSUME NEW r \in Request, PyFails(r) PROVE (OldAnswers /\ OldCache)'
    BY <1>7 DEF PyFails
  <1>8. CASE ExAsk
    BY <1>8 DEF ExAsk
  <1>9. CASE ExAnswered
    BY <1>9 DEF ExAnswered, Published
  <1>10. CASE ExStore
    BY <1>10 DEF ExStore
  <1>11. CASE ExFails
    BY <1>11 DEF ExFails
  <1>12. CASE Tick
    BY <1>12 DEF Tick, Prompt, Aged, Older
  <1>13. CASE UNCHANGED vars
    BY <1>13 DEF vars
  <1>14. ASSUME NEW r \in Request, PyRead(r) PROVE (OldAnswers /\ OldCache)'
    BY <1>14 DEF PyRead, Verdict
  <1> HIDE DEF OldAnswers, OldCache, IInv, InTime, TypeOK, AuthTypeOK, Fetch, NoKey,
        pyVars, exVars, authVars, Waiting, Asked, Answered, NoCache, Job, Steps, Over, Reads, Calls, NoCall, Answer, Tested
  <1> QED
    BY <1>1, <1>2, <1>3, <1>4, <1>5, <1>6, <1>7, <1>8, <1>9, <1>10, <1>11, <1>12,
       <1>13, <1>14 DEF Next

\* What a request has found or stored.
LEMMA FoundStep == ASSUME IInv, [Next]_vars PROVE Found'
  <1> USE JwksAssumption, MaxKeysAssumption DEF Found, Places, IInv, InTime, TypeOK, AuthTypeOK, Fetch, NoKey,
        pyVars, exVars, authVars, Waiting, Asked, Answered, NoCache, Job, Steps, Over, Reads, Calls, NoCall, Answer, Tested
  <1>1. CASE AuthRestarts
    BY <1>1 DEF AuthRestarts, AuthStarts, AuthStops
  <1>2. CASE PyRestarts
    BY <1>2 DEF PyRestarts
  <1>3. CASE ExRestarts
    BY <1>3 DEF ExRestarts
  <1>4. ASSUME NEW r \in Request, PyArrives(r) PROVE Found'
    BY <1>4 DEF PyArrives
  <1>5. ASSUME NEW r \in Request, PyAnswered(r) PROVE Found'
    BY <1>5 DEF PyAnswered, Published
  <1>6. ASSUME NEW r \in Request, PyStore(r) PROVE Found'
    BY <1>6 DEF PyStore, Cached
  <1>7. ASSUME NEW r \in Request, PyFails(r) PROVE Found'
    BY <1>7 DEF PyFails
  <1>8. CASE ExAsk
    BY <1>8 DEF ExAsk
  <1>9. CASE ExAnswered
    BY <1>9 DEF ExAnswered, Published
  <1>10. CASE ExStore
    BY <1>10 DEF ExStore
  <1>11. CASE ExFails
    BY <1>11 DEF ExFails
  <1>12. CASE Tick
    BY <1>12 DEF Tick, Prompt, Aged, Older
  <1>13. CASE UNCHANGED vars
    BY <1>13 DEF vars
  <1>14. ASSUME NEW r \in Request, PyRead(r) PROVE Found'
    BY <1>14 DEF PyRead, Verdict
  <1> HIDE DEF Found, Places, IInv, InTime, TypeOK, AuthTypeOK, Fetch, NoKey,
        pyVars, exVars, authVars, Waiting, Asked, Answered, NoCache, Job, Steps, Over, Reads, Calls, NoCall, Answer, Tested
  <1> QED
    BY <1>1, <1>2, <1>3, <1>4, <1>5, <1>6, <1>7, <1>8, <1>9, <1>10, <1>11, <1>12,
       <1>13, <1>14 DEF Next

\* The health-monitor's table.
LEMMA MonitorStep == ASSUME IInv, [Next]_vars PROVE OldTable'
  <1> USE JwksAssumption, MaxKeysAssumption DEF OldTable, IInv, InTime, Due, TypeOK, AuthTypeOK, Fetch, Places, NoKey,
        pyVars, exVars, authVars, Waiting, Asked, Answered, NoCache, Job, Steps, Over, Reads, Calls, NoCall, Answer, Tested
  <1>1. CASE AuthRestarts
    BY <1>1 DEF AuthRestarts, AuthStarts, AuthStops
  <1>2. CASE PyRestarts
    BY <1>2 DEF PyRestarts
  <1>3. CASE ExRestarts
    BY <1>3 DEF ExRestarts
  <1>4. ASSUME NEW r \in Request, PyArrives(r) PROVE OldTable'
    BY <1>4 DEF PyArrives
  <1>5. ASSUME NEW r \in Request, PyAnswered(r) PROVE OldTable'
    BY <1>5 DEF PyAnswered, Published
  <1>6. ASSUME NEW r \in Request, PyStore(r) PROVE OldTable'
    BY <1>6 DEF PyStore, Cached
  <1>7. ASSUME NEW r \in Request, PyFails(r) PROVE OldTable'
    BY <1>7 DEF PyFails
  <1>8. CASE ExAsk
    BY <1>8 DEF ExAsk
  <1>9. CASE ExAnswered
    BY <1>9 DEF ExAnswered, Published
  <1>10. CASE ExStore
    BY <1>10 DEF ExStore
  <1>11. CASE ExFails
    BY <1>11 DEF ExFails
  <1>12. CASE Tick
    BY <1>12 DEF Tick, Prompt, Aged, Older
  <1>13. CASE UNCHANGED vars
    BY <1>13 DEF vars
  <1>14. ASSUME NEW r \in Request, PyRead(r) PROVE OldTable'
    BY <1>14 DEF PyRead, Verdict
  <1> HIDE DEF OldTable, IInv, InTime, Due, TypeOK, AuthTypeOK, Fetch, Places, NoKey,
        pyVars, exVars, authVars, Waiting, Asked, Answered, NoCache, Job, Steps, Over, Reads, Calls, NoCall, Answer, Tested
  <1> QED
    BY <1>1, <1>2, <1>3, <1>4, <1>5, <1>6, <1>7, <1>8, <1>9, <1>10, <1>11, <1>12,
       <1>13, <1>14 DEF Next

-------------------------------------------------------------------------------
LEMMA StepIInv == ASSUME IInv, [Next]_vars PROVE IInv'
  BY TypeStep, TimeStep, PythonStep, FoundStep, MonitorStep DEF IInv

LEMMA Invariance == Spec => []IInv
  BY InitIInv, StepIInv, PTL DEF Spec

(* Keys, ages, delays and the cache keep their types: in particular no entry *)
(* of the Python cache outlives Ttl.                                         *)
THEOREM TypeCorrect == Spec => []TypeOK
  <1>1. IInv => TypeOK
    BY DEF IInv
  <1> QED  BY <1>1, Invariance, PTL

(* However many requests fetch at a time and in whatever order they store    *)
(* what they got, an old key is gone Ttl + Lag after the last disturbance.   *)
THEOREM PythonAlwaysCatchesUp == Spec => []PythonCatchesUp
  <1>1. IInv => PythonCatchesUp
    BY JwksAssumption, MaxKeysAssumption
    DEF IInv, TypeOK, AuthTypeOK, OldCache, PythonCatchesUp, NoKey
  <1> QED  BY <1>1, Invariance, PTL

(* The health-monitor has a signer for the current key when a refresh        *)
(* interval and three delays have passed since the last disturbance.         *)
THEOREM MonitorAlwaysCatchesUp == Spec => []MonitorCatchesUp
  <1>1. IInv => MonitorCatchesUp
    BY JwksAssumption, MaxKeysAssumption
    DEF IInv, TypeOK, AuthTypeOK, InTime, Due, OldTable, Fetch, Places, MonitorCatchesUp
  <1> QED  BY <1>1, Invariance, PTL

-------------------------------------------------------------------------------
(* What requests are answered                                                *)

\* A request that could read is answered by reading.
LEMMA AnswersAreRead ==
  ASSUME IInv, [Next]_vars, NEW r \in Request, fetch[r].pc \in Reads,
         fetch'[r].pc \in {"accepted", "refused", "raised"}
  PROVE  PyRead(r)
  <1> USE DEF IInv, TypeOK, Job, Reads, Waiting, Asked, Answered, Answer, Tested, pyVars, exVars, Over
  <1>1. CASE AuthRestarts
    BY <1>1 DEF AuthRestarts
  <1>2. CASE PyRestarts
    BY <1>2 DEF PyRestarts
  <1>3. CASE ExRestarts \/ ExAsk \/ ExAnswered \/ ExStore \/ ExFails
    BY <1>3 DEF ExRestarts, ExAsk, ExAnswered, ExStore, ExFails
  <1>4. CASE Tick
    BY <1>4 DEF Tick, Older
  <1>5. ASSUME NEW q \in Request, PyArrives(q) \/ PyAnswered(q) PROVE FALSE
    BY <1>5 DEF PyArrives, PyAnswered
  <1>6. ASSUME NEW q \in Request, PyStore(q) \/ PyFails(q) PROVE FALSE
    BY <1>6 DEF PyStore, PyFails
  <1>7. ASSUME NEW q \in Request, PyRead(q) PROVE q = r
    BY <1>7 DEF PyRead
  <1>8. CASE UNCHANGED vars
    BY <1>8 DEF vars
  <1> QED  BY <1>1, <1>2, <1>3, <1>4, <1>5, <1>6, <1>7, <1>8 DEF Next

\* What it is answered is the verdict of the cached key.
LEMMA ReadGivesVerdict ==
  ASSUME IInv, NEW r \in Request, PyRead(r)
  PROVE  fetch'[r].pc = Verdict(call[r], cache.key)
  BY DEF IInv, TypeOK, PyRead, Answer

(* Once nothing has happened for the life of the cache and one fetch, every  *)
(* verdict of get_signing_key and jwt.decode is the current key's.           *)
THEOREM VerdictsAlwaysCatchUp == Spec => VerdictsCatchUp
  <1>1. ASSUME IInv, [Next]_vars, NEW r \in Request,
               authUp /\ calm >= Ttl + Lag /\ fetch[r].pc \in Reads
        PROVE  /\ fetch'[r].pc = "accepted" => call[r].key = signing
               /\ fetch'[r].pc = "refused" /\ call[r].claims = "accepted"
                    => call[r].key # signing
    <2>1. cache.key \in {NoKey, signing}
      BY <1>1, JwksAssumption, MaxKeysAssumption DEF IInv, TypeOK, AuthTypeOK, OldCache, NoKey
    <2>2. CASE fetch'[r].pc \in {"accepted", "refused"}
      <3>1. fetch'[r].pc = Verdict(call[r], cache.key)
        BY <1>1, <2>2, AnswersAreRead, ReadGivesVerdict
      <3> QED  BY <2>1, <2>2, <3>1 DEF Verdict
    <2> QED  BY <2>2
  <1>2. ASSUME IInv, [Next]_vars
        PROVE  [\A r \in Request :
                  authUp /\ calm >= Ttl + Lag /\ fetch[r].pc \in Reads =>
                    /\ fetch'[r].pc = "accepted" => call[r].key = signing
                    /\ fetch'[r].pc = "refused" /\ call[r].claims = "accepted"
                         => call[r].key # signing]_vars
    BY <1>1, <1>2
  <1> QED  BY <1>2, Invariance, PTL DEF Spec, VerdictsCatchUp

(* A good token is answered 500 only by a request that found the keys in the *)
(* cache and lost them to the clock before it read them.                     *)
THEOREM RaisedOnlyForCause == Spec => RaisedForCause
  <1>1. ASSUME IInv, [Next]_vars, NEW r \in Request,
               fetch[r].pc \in Reads, fetch'[r].pc = "raised",
               call[r].claims = "accepted"
        PROVE  fetch[r].pc = "tested" /\ fetch[r].age > 0
    <2>1. fetch'[r].pc = Verdict(call[r], cache.key)
      BY <1>1, AnswersAreRead, ReadGivesVerdict
    <2>2. cache.key = NoKey
      BY <1>1, <2>1 DEF Verdict
    <2>3. fetch[r].age \in Nat
      BY <1>1 DEF IInv, TypeOK, Job
    <2> QED  BY <1>1, <2>2, <2>3 DEF IInv, Found, Reads
  <1>2. ASSUME IInv, [Next]_vars
        PROVE  [\A r \in Request :
                  /\ fetch[r].pc \in Reads /\ fetch'[r].pc = "raised"
                  /\ call[r].claims = "accepted"
                  => fetch[r].pc = "tested" /\ fetch[r].age > 0]_vars
    BY <1>1, <1>2
  <1> QED  BY <1>2, Invariance, PTL DEF Spec, RaisedForCause

===============================================================================
