----------------------------- MODULE JwksCaches -------------------------------
(***************************************************************************)
(* Two verifiers that ask for the published key by the clock, not by need: *)
(* a Python service (book, media), whose cached key set expires after an   *)
(* hour, and the health-monitor, whose table of signers is fetched every   *)
(* hour.  Neither asks again for a key it does not know, so both refuse    *)
(* good tokens for a while after the auth-service has started anew.  How   *)
(* long is what this module is about, and what it means for a request.     *)
(***************************************************************************)
EXTENDS SigningKey

CONSTANTS
    Request,    \* requests to the Python service that are served at a time
    Ttl,        \* of jwks_cache, in ticks
    Refresh,    \* of the health-monitor after a fetch, in ticks
    Retry,      \* after a fetch that failed
    Lag,        \* bound: ticks a fetch may last, and a timer be late
    MaxCalm     \* bound: where calm stops

ASSUME JwksAssumption ==
    /\ {Ttl, Refresh, Retry, Lag, MaxCalm} \subseteq Nat \ {0}
    /\ Retry <= Refresh /\ Lag < Ttl

VARIABLES
    cache,      \* jwks_cache: the key it holds or NoKey, and for how long
    call,       \* [Request -> Calls]: the token each request came with
    fetch,      \* [Request -> Job]: how far it is, and what it has been answered
    signers,    \* the health-monitor's ETS table: keys with a signer
    strategy,   \* its process: Fetch, with "waiting" for the timer
    delay,      \* what that timer was set to
    calm        \* history: ticks since the auth-service started or stopped, a
                \* call failed, or a verifier restarted

vars == <<authVars, cache, call, fetch, signers, strategy, delay, calm>>
pyVars == <<cache, call, fetch>>
exVars == <<signers, strategy, delay>>

Places == {"waiting", "asked", "answered"}
Fetch == [pc : Places, key : 0..MaxKeys, age : Nat]

\* A request is over once it has been answered: accepted, refused (401), with
\* the error of the call (503), or with an exception nobody catches (500).
Over == {"waiting", "accepted", "refused", "unavailable", "raised"}
Reads == {"tested", "stored"}
Steps == Over \union Reads \union Places
Job == [pc : Steps, key : 0..MaxKeys, age : Nat]
Answer(v) == [pc |-> v, key |-> NoKey, age |-> 0]
Tested == [pc |-> "tested", key |-> NoKey, age |-> 0]

\* A request's token: the key it names (NoKey: none), and what the checks of
\* its claims will say if it is signed with that key.
Calls == [key : 0..MaxKeys, claims : {"accepted", "refused", "raised"}]
NoCall == [key |-> NoKey, claims |-> "refused"]
Waiting == [pc |-> "waiting", key |-> NoKey, age |-> 0]
Asked == [pc |-> "asked", key |-> NoKey, age |-> 0]
Answered(f, k) == [pc |-> "answered", key |-> k, age |-> f.age]
Older(f) == [pc |-> f.pc, key |-> f.key, age |-> f.age + 1]

NoCache == [key |-> NoKey, age |-> 0]
Cached(k) == [key |-> k, age |-> 0]

Init ==
    /\ AuthInit
    /\ cache = NoCache /\ call = [r \in Request |-> NoCall] /\ fetch = [r \in Request |-> Waiting]
    /\ signers = {} /\ strategy = Waiting /\ delay = 0
    /\ calm = 0

-------------------------------------------------------------------------------
(* auth-service                                                              *)

AuthRestarts ==
    /\ AuthStarts \/ AuthStops
    /\ calm' = 0
    /\ UNCHANGED <<pyVars, exVars>>

-------------------------------------------------------------------------------
(* book-service, media-service: get_current_user, get_service_auth, get_jwks.*)
(* Between the test and the store a request awaits the answer, and others    *)
(* find the cache as empty as it did; between the store and the read it      *)
(* awaits the closing of its client.  Between a test that finds the keys and *)
(* the read nothing is awaited: no other request runs, but time passes.      *)

Runs(r) == \A q \in Request \ {r} : fetch[q].pc # "tested"

\* A token is a user's, a service's for the book-service or for another, or
\* past its life; an endpoint is for users or for services.  A service's token
\* lacks the name a JwtUser must have, which is an error of another kind.
Kinds == {"user", "service", "another", "expired"}
Gates == {"user", "service"}
Claims(kind, gate) ==
    IF kind = "expired" THEN "refused"
    ELSE IF kind = gate THEN "accepted"
    ELSE IF gate = "user" THEN "raised" ELSE "refused"

\* Mutant: a token whose key is not found is taken unsigned.
VerdictUnsigned(c, k) == IF k = NoKey THEN "raised" ELSE c.claims

Verdict(c, k) ==
    IF k = NoKey THEN "raised" ELSE IF c.key # k THEN "refused" ELSE c.claims

PyArrives(r) ==
    /\ Runs(r) /\ fetch[r].pc \in Over
    /\ \E k \in Circulating, kind \in Kinds, gate \in Gates :
         call' = [call EXCEPT ![r] = [key |-> k, claims |-> Claims(kind, gate)]]
    /\ fetch' = [fetch EXCEPT ![r] = IF cache.key = NoKey THEN Asked ELSE Tested]
    /\ UNCHANGED <<authVars, cache, exVars, calm>>

PyAnswered(r) ==
    /\ authUp /\ Runs(r) /\ fetch[r].pc = "asked"
    /\ fetch' = [fetch EXCEPT ![r] = Answered(fetch[r], Published)]
    /\ UNCHANGED <<authVars, cache, call, exVars, calm>>

\* The keys are stored for another hour, whatever has been stored meanwhile.
PyStore(r) ==
    /\ Runs(r) /\ fetch[r].pc = "answered"
    /\ cache' = Cached(fetch[r].key)
    /\ fetch' = [fetch EXCEPT ![r].pc = "stored"]
    /\ UNCHANGED <<authVars, call, exVars, calm>>

\* What is read is what the cache holds by now, not what the request found or
\* stored.
PyRead(r) ==
    /\ Runs(r) /\ fetch[r].pc \in Reads
    /\ fetch' = [fetch EXCEPT ![r] = Answer(Verdict(call[r], cache.key))]
    /\ call' = [call EXCEPT ![r] = NoCall]
    /\ UNCHANGED <<authVars, cache, exVars, calm>>

\* Mutant: a call that fails empties the cache.
PyFailsClears(r) ==
    /\ Runs(r) /\ fetch[r].pc = "asked"
    /\ cache' = NoCache
    /\ fetch' = [fetch EXCEPT ![r] = Answer("unavailable")]
    /\ call' = [call EXCEPT ![r] = NoCall]
    /\ calm' = 0
    /\ UNCHANGED <<authVars, exVars>>

\* The request is refused with an error of its own; the cache stays as it is.
PyFails(r) ==
    /\ Runs(r) /\ fetch[r].pc = "asked"
    /\ fetch' = [fetch EXCEPT ![r] = Answer("unavailable")]
    /\ call' = [call EXCEPT ![r] = NoCall]
    /\ calm' = 0
    /\ UNCHANGED <<authVars, cache, exVars>>

PyRestarts ==
    /\ cache' = NoCache
    /\ call' = [r \in Request |-> NoCall] /\ fetch' = [r \in Request |-> Waiting]
    /\ calm' = 0
    /\ UNCHANGED <<authVars, exVars>>

-------------------------------------------------------------------------------
(* health-monitor: JwksStrategy                                              *)

ExAsk ==
    /\ strategy.pc = "waiting" /\ strategy.age >= delay
    /\ strategy' = Asked
    /\ UNCHANGED <<authVars, pyVars, signers, delay, calm>>

ExAnswered ==
    /\ authUp /\ strategy.pc = "asked"
    /\ strategy' = Answered(strategy, Published)
    /\ UNCHANGED <<authVars, pyVars, signers, delay, calm>>

\* Mutant: a table that has keys is left as it is.
ExStoreFirst ==
    /\ strategy.pc = "answered"
    /\ signers' = IF signers = {} THEN {strategy.key} ELSE signers
    /\ strategy' = Waiting /\ delay' = Refresh
    /\ UNCHANGED <<authVars, pyVars, calm>>

\* A signer is inserted for the key; none is ever removed.
ExStore ==
    /\ strategy.pc = "answered"
    /\ signers' = signers \union {strategy.key}
    /\ strategy' = Waiting /\ delay' = Refresh
    /\ UNCHANGED <<authVars, pyVars, calm>>

ExFails ==
    /\ strategy.pc = "asked"
    /\ strategy' = Waiting /\ delay' = Retry
    /\ calm' = 0
    /\ UNCHANGED <<authVars, pyVars, signers>>

\* The table goes with the process that owns it.
ExRestarts ==
    /\ signers' = {} /\ strategy' = Waiting /\ delay' = 0
    /\ calm' = 0
    /\ UNCHANGED <<authVars, pyVars>>

-------------------------------------------------------------------------------
(* Time.  A request is answered, a fetch is stored or fails, and a timer     *)
(* fires, at most Lag ticks late.  An answer is gone by the next tick.       *)

Due(f, wait) == IF f.pc = "waiting" THEN wait + Lag ELSE Lag
Prompt ==
    /\ \A r \in Request : fetch[r].pc \notin Over => fetch[r].age < Lag
    /\ strategy.age < Due(strategy, delay)

\* Mutant: the entry expires a tick late.
AgedLate(c) ==
    IF c.key = NoKey \/ c.age >= Ttl THEN NoCache
                                     ELSE [key |-> c.key, age |-> c.age + 1]

Aged(c) ==
    IF c.key = NoKey \/ c.age + 1 >= Ttl THEN NoCache
                                         ELSE [key |-> c.key, age |-> c.age + 1]

Tick ==
    /\ Prompt
    /\ cache' = Aged(cache)
    /\ fetch' = [r \in Request |-> IF fetch[r].pc \in Over THEN Waiting
                                                           ELSE Older(fetch[r])]
    /\ strategy' = Older(strategy)
    /\ calm' = IF calm < MaxCalm THEN calm + 1 ELSE calm
    /\ UNCHANGED <<authVars, call, signers, delay>>

Next ==
    \/ AuthRestarts \/ PyRestarts \/ ExRestarts \/ Tick
    \/ \E r \in Request : \/ PyArrives(r) \/ PyAnswered(r) \/ PyStore(r)
                           \/ PyRead(r) \/ PyFails(r)
    \/ ExAsk \/ ExAnswered \/ ExStore \/ ExFails

Spec == Init /\ [][Next]_vars

-------------------------------------------------------------------------------
(* Properties                                                                *)

TypeOK ==
    /\ AuthTypeOK
    /\ cache \in [key : 0..MaxKeys, age : 0..(Ttl - 1)]
    /\ call \in [Request -> Calls] /\ fetch \in [Request -> Job]
    /\ signers \subseteq Keys
    /\ strategy \in Fetch /\ delay \in 0..Refresh
    /\ calm \in 0..MaxCalm

(* A Python service knows the current key, or asks for it at the next        *)
(* request, once nothing has happened for the life of the cache and one      *)
(* fetch: requests that store what they fetched before the key changed, in   *)
(* whatever order, cannot keep the old key any longer.                       *)
PythonCatchesUp == authUp /\ calm >= Ttl + Lag => cache.key \in {NoKey, signing}

(* So from then on every request that gets as far as the key is judged by    *)
(* the current one: no token of an earlier process passes, and none of the   *)
(* running one is refused that is meant for the endpoint.                    *)
VerdictsCatchUp ==
    [][\A r \in Request :
          authUp /\ calm >= Ttl + Lag /\ fetch[r].pc \in Reads =>
            /\ fetch'[r].pc = "accepted" => call[r].key = signing
            /\ fetch'[r].pc = "refused" /\ call[r].claims = "accepted"
                 => call[r].key # signing]_vars

(* The keys that get_jwks has found are gone when it reads them, and a good  *)
(* token is answered 500, only when they ran out between the two: never for  *)
(* a request that has fetched them, whatever other requests store or fail.   *)
RaisedForCause ==
    [][\A r \in Request :
          /\ fetch[r].pc \in Reads /\ fetch'[r].pc = "raised"
          /\ call[r].claims = "accepted"
          => fetch[r].pc = "tested" /\ fetch[r].age > 0]_vars

(* The health-monitor has a signer for the current key once nothing has      *)
(* happened for a refresh interval, a late timer and two fetches.            *)
MonitorCatchesUp == authUp /\ calm > Refresh + 3 * Lag => signing \in signers

===============================================================================
