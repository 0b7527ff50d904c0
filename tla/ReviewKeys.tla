----------------------------- MODULE ReviewKeys -------------------------------
(***************************************************************************)
(* The verifier of the review-service.  Its key set is a global that the   *)
(* first requests load; every request runs in a goroutine of its own, and  *)
(* nothing orders the tests, the assignments and the uses of the global.   *)
(* A loaded set is fetched again every hour and for each key it lacks, by  *)
(* a goroutine of the library (keyfunc) that takes both from one channel   *)
(* with room for one.                                                      *)
(***************************************************************************)
EXTENDS SigningKey

CONSTANTS
    Request,    \* requests served at a time
    Set,        \* key sets in memory; those nothing refers to are used again
    NoSet,      \* nil
    Hourly,     \* the refresh that no request has asked for
    Nobody,     \* no one
    MaxFaults   \* bound: failures of calls to an auth-service that is up

ASSUME ReviewAssumption ==
    /\ NoSet \notin Set /\ MaxFaults \in Nat
    /\ Hourly \notin Request /\ Nobody \notin Request \union {Hourly}

VARIABLES
    jwks,       \* the global: a set, or nil
    keyOf,      \* [Set -> 0..MaxKeys]: the key a set holds
    slot,       \* [Set -> Askers]: who is in the channel of the set
    worker,     \* [Set -> Askers]: for whom its goroutine fetches it
    answer,     \* [Set -> 0..MaxKeys]: the key it has been sent, not stored yet
    pc,         \* [Request -> Places]
    kid,        \* [Request -> 0..MaxKeys]: the key of the request's token
    held,       \* [Request -> Set \union {NoSet}]: the set it looks into
    failed,     \* history: requests whose refresh failed
    faults

library == <<slot, worker, answer>>
vars == <<authVars, jwks, keyOf, library, pc, kid, held, failed, faults>>

Askers == Request \union {Hourly, Nobody}

(* "init": in initJWKS, having found nil; "retest": back from it; "verify":  *)
(* past both tests, about to read the global for its Keyfunc; "refresh":     *)
(* waiting for its set to be fetched again; "relook": looking once more.     *)
(* A request that is over rests at its verdict until the next one.           *)
Verdicts == {"none", "accepted", "refused", "unavailable", "panicked"}
Places == {"init", "retest", "verify", "refresh", "relook"} \union Verdicts
Over(r) == pc[r] \in Verdicts

Init ==
    /\ AuthInit
    /\ jwks = NoSet /\ keyOf = [o \in Set |-> NoKey]
    /\ slot = [o \in Set |-> Nobody] /\ worker = slot
    /\ answer = [o \in Set |-> NoKey]
    /\ pc = [r \in Request |-> "none"] /\ kid = [r \in Request |-> NoKey]
    /\ held = [r \in Request |-> NoSet]
    /\ failed = {} /\ faults = 0

Goto(r, place) == pc' = [pc EXCEPT ![r] = place]

\* The request is over; what it referred to is forgotten.
Ends(r, how) ==
    /\ Goto(r, how)
    /\ kid' = [kid EXCEPT ![r] = NoKey] /\ held' = [held EXCEPT ![r] = NoSet]
    /\ failed' = failed \ {r}

CallFails ==
    /\ ~authUp \/ faults < MaxFaults
    /\ faults' = IF authUp THEN faults + 1 ELSE faults

-------------------------------------------------------------------------------
AuthRestarts ==
    /\ AuthStarts \/ AuthStops
    /\ UNCHANGED <<jwks, keyOf, library, pc, kid, held, failed, faults>>

\* A token comes in, and the global is tested for the first time.
Arrive(r, k) ==
    /\ Over(r)
    /\ kid' = [kid EXCEPT ![r] = k]
    /\ Goto(r, IF jwks = NoSet THEN "init" ELSE "verify")
    /\ UNCHANGED <<authVars, jwks, keyOf, library, held, failed, faults>>

InUse(o) == o = jwks \/ \E r \in Request : held[r] = o

\* keyfunc.Get makes a set, with a goroutine that waits.
New(o) ==
    /\ ~InUse(o)
    /\ keyOf' = [keyOf EXCEPT ![o] = Published]
    /\ slot' = [slot EXCEPT ![o] = Nobody] /\ worker' = [worker EXCEPT ![o] = Nobody]
    /\ answer' = [answer EXCEPT ![o] = NoKey]

\* Mutant: := in place of =, which makes a variable of the function's own.
LoadShadowed(r, o) ==
    /\ pc[r] = "init" /\ authUp
    /\ New(o) /\ Goto(r, "retest")
    /\ UNCHANGED <<authVars, jwks, kid, held, failed, faults>>

\* initJWKS: a new set, whatever the global has become since it was tested.
Load(r, o) ==
    /\ pc[r] = "init" /\ authUp
    /\ New(o) /\ jwks' = o /\ Goto(r, "retest")
    /\ UNCHANGED <<authVars, kid, held, failed, faults>>

\* keyfunc.Get returns nil and an error, and both are assigned.
LoadFails(r) ==
    /\ pc[r] = "init" /\ CallFails
    /\ jwks' = NoSet
    /\ Goto(r, "retest")
    /\ UNCHANGED <<authVars, keyOf, library, kid, held, failed>>

Retest(r) ==
    /\ pc[r] = "retest"
    /\ IF jwks = NoSet
         THEN Ends(r, "unavailable")
         ELSE Goto(r, "verify") /\ UNCHANGED <<kid, held, failed>>
    /\ UNCHANGED <<authVars, jwks, keyOf, library, faults>>

\* Mutant: without RefreshUnknownKID a set is looked into once.
VerifyOnce(r) ==
    /\ pc[r] = "verify"
    /\ \/ jwks = NoSet /\ Ends(r, "panicked")
       \/ jwks # NoSet /\ Ends(r, IF keyOf[jwks] = kid[r] THEN "accepted" ELSE "refused")
    /\ UNCHANGED <<authVars, jwks, keyOf, library, faults>>

(* jwks.Keyfunc: the global is read again, and nil has no keys to look into. *)
(* A request whose key is not there is put into the set's channel, or told   *)
(* so at once when someone is in it.                                         *)
Verify(r) ==
    /\ pc[r] = "verify"
    /\ \/ jwks = NoSet /\ Ends(r, "panicked") /\ UNCHANGED slot
       \/ /\ jwks # NoSet /\ keyOf[jwks] = kid[r]
          /\ Ends(r, "accepted") /\ UNCHANGED slot
       \/ /\ jwks # NoSet /\ keyOf[jwks] # kid[r] /\ slot[jwks] # Nobody
          /\ Ends(r, "refused") /\ UNCHANGED slot
       \/ /\ jwks # NoSet /\ keyOf[jwks] # kid[r] /\ slot[jwks] = Nobody
          /\ slot' = [slot EXCEPT ![jwks] = r]
          /\ held' = [held EXCEPT ![r] = jwks] /\ Goto(r, "refresh")
          /\ UNCHANGED <<kid, failed>>
    /\ UNCHANGED <<authVars, jwks, keyOf, worker, answer, faults>>

Relook(r) ==
    /\ pc[r] = "relook"
    /\ Ends(r, IF keyOf[held[r]] = kid[r] THEN "accepted" ELSE "refused")
    /\ UNCHANGED <<authVars, jwks, keyOf, library, faults>>

-------------------------------------------------------------------------------
(* The goroutine of a set, which runs on when the global leaves the set.  It *)
(* waits for its channel or its timer; the timer only puts the hourly        *)
(* refresh into the channel, and gives up when someone is in it.  Hours are  *)
(* left out for a set that nothing refers to, which nobody looks into again. *)

HourIsOver(o) ==
    /\ InUse(o) /\ worker[o] = Nobody /\ slot[o] = Nobody
    /\ slot' = [slot EXCEPT ![o] = Hourly]
    /\ UNCHANGED <<authVars, jwks, keyOf, worker, answer, pc, kid, held, failed, faults>>

Take(o) ==
    /\ worker[o] = Nobody /\ slot[o] # Nobody
    /\ worker' = [worker EXCEPT ![o] = slot[o]] /\ slot' = [slot EXCEPT ![o] = Nobody]
    /\ UNCHANGED <<authVars, jwks, keyOf, answer, pc, kid, held, failed, faults>>

Fetched(o) ==
    /\ worker[o] # Nobody /\ answer[o] = NoKey /\ authUp
    /\ answer' = [answer EXCEPT ![o] = Published]
    /\ UNCHANGED <<authVars, jwks, keyOf, slot, worker, pc, kid, held, failed, faults>>

\* The request it has fetched for, if there is one, looks again.
Done(o) ==
    /\ pc' = IF worker[o] \in Request THEN [pc EXCEPT ![worker[o]] = "relook"] ELSE pc
    /\ worker' = [worker EXCEPT ![o] = Nobody] /\ answer' = [answer EXCEPT ![o] = NoKey]

\* Mutant: what was fetched is put into the set the global has become.
StoredGlobal(o) ==
    /\ answer[o] # NoKey
    /\ keyOf' = [x \in Set |-> IF x = jwks THEN answer[o] ELSE keyOf[x]]
    /\ Done(o)
    /\ UNCHANGED <<authVars, jwks, slot, kid, held, failed, faults>>

Stored(o) ==
    /\ answer[o] # NoKey
    /\ keyOf' = [keyOf EXCEPT ![o] = answer[o]]
    /\ Done(o)
    /\ UNCHANGED <<authVars, jwks, slot, kid, held, failed, faults>>

\* RefreshErrorHandler logs; the set keeps the key it has.
FetchFails(o) ==
    /\ worker[o] # Nobody /\ answer[o] = NoKey /\ CallFails
    /\ failed' = failed \union ({worker[o]} \cap Request)
    /\ Done(o)
    /\ UNCHANGED <<authVars, jwks, keyOf, slot, kid, held>>

-------------------------------------------------------------------------------
Serve(r) ==
    \/ \E o \in Set : Load(r, o)
    \/ LoadFails(r) \/ Retest(r) \/ Verify(r) \/ Relook(r)

Fetches(o) == Take(o) \/ Fetched(o) \/ Stored(o) \/ FetchFails(o)

Next ==
    \/ AuthRestarts
    \/ \E r \in Request : Serve(r) \/ \E k \in Circulating : Arrive(r, k)
    \/ \E o \in Set : HourIsOver(o) \/ Fetches(o)

Spec == Init /\ [][Next]_vars

\* The goroutines of requests and sets run on, and their calls return.
FairSpec ==
    /\ Spec
    /\ \A r \in Request : WF_vars(Serve(r))
    /\ \A o \in Set : WF_vars(Fetches(o))

-------------------------------------------------------------------------------
(* Properties                                                                *)

TypeOK ==
    /\ AuthTypeOK
    /\ jwks \in Set \union {NoSet} /\ keyOf \in [Set -> 0..MaxKeys]
    /\ slot \in [Set -> Askers] /\ worker \in [Set -> Askers]
    /\ answer \in [Set -> 0..MaxKeys]
    /\ pc \in [Request -> Places] /\ kid \in [Request -> 0..MaxKeys]
    /\ held \in [Request -> Set \union {NoSet}]
    /\ failed \subseteq Request /\ faults \in 0..MaxFaults

(* authorization.go:52 tests the global a second time and answers "JWKS      *)
(* service unavailable.": a request past it has a set to verify with.        *)
TestedIsLoaded == \A r \in Request : pc[r] = "verify" => jwks # NoSet

\* The auth-service has stayed up since its first start and answered every call.
Undisturbed == signing <= 1 /\ (authUp \/ signing = NoKey) /\ faults = 0

(* What the unordered tests, loads and uses of the global go wrong on is a   *)
(* failed call or a restart: until then no request has its token refused,    *)
(* misses the set or panics on nil, however many load the global at once.    *)
SafeUndisturbed ==
    Undisturbed => \A r \in Request : /\ pc[r] = "verify" => jwks # NoSet
                                     /\ Over(r) => pc[r] \in {"none", "accepted"}

\* Someone else is in the channel of the set a request has just looked into.
Crowded(r) ==
    /\ pc[r] = "verify" /\ jwks # NoSet
    /\ \/ slot[jwks] = Hourly
       \/ \E q \in Request \ {r} :
             slot[jwks] = q /\ pc[q] = "refresh" /\ held[q] = jwks

(* A token of the running auth-service is refused only if the fetch made for *)
(* its request failed, or the one place in the channel of its set was taken  *)
(* when it looked, by the hourly refresh or another request that waits:      *)
(* neither restarts of the auth-service, nor loads of other sets, nor what a *)
(* set is fetched for at the same time get it refused otherwise.             *)
RefusedForCause ==
    [][\A r \in Request :
         /\ ~Over(r) /\ pc'[r] = "refused"
         /\ authUp /\ kid[r] = signing
         => (pc[r] = "relook" /\ r \in failed) \/ Crowded(r)]_vars

(* Once the auth-service stays up, its tokens are refused for some time at   *)
(* most, though no hour may pass: the requests that have to wait, and those  *)
(* turned away because others wait, bring the new key in.                    *)
RefusalsEnd ==
    <>[]authUp =>
        <>[][\A r \in Request :
               ~Over(r) /\ pc'[r] = "refused" => kid[r] # signing]_vars

(* Once the auth-service stays up, a service that goes on being asked gets   *)
(* its key set and keeps it.                                                 *)
LoadedAtLast ==
    <>[]authUp /\ []<>(\E r \in Request : ~Over(r)) => <>[](jwks # NoSet)

===============================================================================
