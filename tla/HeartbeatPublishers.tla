------------------------- MODULE HeartbeatPublishers --------------------------
(***************************************************************************)
(* The five heartbeat publishers and the broker they share.  Each connects *)
(* (a connection, then a channel and the declaration of the exchange),     *)
(* publishes in a loop, and comes back after a loss in a way of its own:   *)
(* the Python services test their connection before each heartbeat, the    *)
(* review-service leaves its publish loop, the user-service has a close    *)
(* handler, the auth-service a retry pipeline.                             *)
(*                                                                         *)
(* Sleeps between attempts and heartbeats are left out: they only delay.   *)
(***************************************************************************)
EXTENDS Naturals

CONSTANTS
    Services,           \* the publishers of the instance
    MaxRetryAttempts,   \* of the auth-service's pipeline
    MaxFaults           \* bound: faults of the broker and its operator

Python == {"book", "media"} \intersect Services

ASSUME ServicesAssumption ==
    /\ Services \subseteq {"book", "media", "review", "user", "auth"}
    /\ MaxRetryAttempts \in Nat /\ MaxFaults \in Nat

VARIABLES
    up,         \* the broker runs
    exchange,   \* the broker has the heartbeat exchange, which is not durable
    conn,       \* [Services -> Connections]: the connection a publisher refers to
    channel,    \* [Services -> BOOLEAN]: it has a channel that is not closed
    pc,         \* [Services -> Places]
    stray,      \* [Services -> Nat]: connections open at the broker to which
                \* their publisher no longer refers
    tries,      \* retries used in the current execution of the pipeline
    mishaps,    \* history: kinds of fault so far, other than a broker's stop
    faults

vars == <<up, exchange, conn, channel, pc, stray, tries, mishaps, faults>>

(* A connection is gone for the broker before it is closed for its client:   *)
(* "shut" if the broker said so as it stopped, "cut" if it just went away.   *)
Connections == {"none", "open", "shut", "cut"}
Gone(s) == conn[s] \in {"shut", "cut"}

(* "connect": about to connect; "setup": connected, waiting for the channel  *)
(* and the declaration; "publish": in the publish loop; "pause": the         *)
(* auth-service's minute after its last retry; "dead": the process is gone.  *)
Places == {"connect", "setup", "publish", "pause", "dead"}
Mishaps == {"refused", "deleted", "crashed", "missed"}

(* The Python loop tests its connection itself: it starts in the loop.       *)
First(s) == IF s \in Python THEN "publish" ELSE "connect"

Init ==
    /\ up \in BOOLEAN /\ exchange = FALSE
    /\ conn = [s \in Services |-> "none"]
    /\ channel = [s \in Services |-> FALSE]
    /\ pc = [s \in Services |-> First(s)]
    /\ stray = [s \in Services |-> 0]
    /\ tries = 0 /\ mishaps = {} /\ faults = 0

-------------------------------------------------------------------------------
(* The broker                                                                *)

Fault == faults < MaxFaults /\ faults' = faults + 1

BrokerStops(how) ==
    /\ Fault /\ up
    /\ up' = FALSE /\ exchange' = FALSE
    /\ conn' = [s \in Services |-> IF conn[s] = "open" THEN how ELSE conn[s]]
    /\ stray' = [s \in Services |-> 0]
    /\ mishaps' = mishaps \union (IF how = "cut" THEN {"crashed"} ELSE {})
    /\ UNCHANGED <<channel, pc, tries>>

BrokerStarts ==
    /\ ~up /\ up' = TRUE
    /\ UNCHANGED <<exchange, conn, channel, pc, stray, tries, mishaps, faults>>

(* An operator deletes the exchange: connections stay, and the broker closes *)
(* each channel that publishes to what is no longer there.                   *)
DeleteExchange ==
    /\ Fault /\ exchange
    /\ exchange' = FALSE /\ mishaps' = mishaps \union {"deleted"}
    /\ UNCHANGED <<up, conn, channel, pc, stray, tries>>

(* A container stops and is started again, or is started after its process   *)
(* died; with the process go its connections.                                *)
Restart(s) ==
    /\ IF pc[s] = "dead" THEN UNCHANGED faults ELSE Fault
    /\ conn' = [conn EXCEPT ![s] = "none"]
    /\ channel' = [channel EXCEPT ![s] = FALSE]
    /\ pc' = [pc EXCEPT ![s] = First(s)]
    /\ stray' = [stray EXCEPT ![s] = 0]
    /\ tries' = IF s = "auth" THEN 0 ELSE tries
    /\ UNCHANGED <<up, exchange, mishaps>>

-------------------------------------------------------------------------------
(* Steps the publishers share.  A dial that fails changes nothing, except    *)
(* for the retries of the auth-service.                                      *)

Goto(s, place) == pc' = [pc EXCEPT ![s] = place]
SetConn(s, c) == conn' = [conn EXCEPT ![s] = c]
SetChannel(s, open) == channel' = [channel EXCEPT ![s] = open]

(* The new connection takes the place of the one referred to, closed or not. *)
Dial(s) ==
    /\ up /\ SetConn(s, "open") /\ Goto(s, "setup")
    /\ stray' = [stray EXCEPT ![s] = IF conn[s] = "open" THEN @ + 1 ELSE @]
    /\ UNCHANGED <<up, exchange, channel, tries, mishaps, faults>>

(* Mutant: the exchange is taken to be there.                                *)
SetupUndeclared(s) ==
    /\ pc[s] = "setup" /\ conn[s] = "open"
    /\ SetChannel(s, TRUE) /\ Goto(s, "publish")
    /\ UNCHANGED <<up, exchange, conn, stray, tries, mishaps, faults>>

(* Channel and declaration succeed.                                          *)
Setup(s) ==
    /\ pc[s] = "setup" /\ conn[s] = "open"
    /\ exchange' = TRUE /\ SetChannel(s, TRUE) /\ Goto(s, "publish")
    /\ UNCHANGED <<up, conn, stray, tries, mishaps, faults>>

(* The broker refuses the channel or the declaration: a fault, and all that  *)
(* the publisher loses is its channel.                                       *)
Refused(s) ==
    /\ Fault /\ pc[s] = "setup" /\ conn[s] = "open"
    /\ mishaps' = mishaps \union {"refused"}
    /\ UNCHANGED <<up, exchange, channel>>

(* A heartbeat for an exchange that is not there costs the channel, which    *)
(* the client learns with its next heartbeat: taken as one step.  One for an *)
(* exchange that is there, or into a connection that is gone and not yet     *)
(* known to be, changes nothing here.                                        *)
PublishNowhere(s) ==
    /\ pc[s] = "publish" /\ conn[s] = "open" /\ channel[s] /\ ~exchange
    /\ SetChannel(s, FALSE)
    /\ UNCHANGED <<up, exchange, conn, pc, stray, tries, mishaps, faults>>

-------------------------------------------------------------------------------
(* book-service, media-service                                               *)

(* Mutant: the loop tests its channel in place of its connection.            *)
PyConnectByChannel(s) == pc[s] = "publish" /\ ~channel[s] /\ Dial(s)

PyConnect(s) == pc[s] = "publish" /\ conn[s] = "none" /\ Dial(s)

(* connect() raises with self.connection assigned: closed if it was lost,    *)
(* open if only the channel or the declaration failed.                       *)
PySetupLost(s) ==
    /\ pc[s] = "setup" /\ Gone(s)
    /\ SetConn(s, "none") /\ Goto(s, "publish")
    /\ UNCHANGED <<up, exchange, channel, stray, tries, mishaps, faults>>

PySetupRefused(s) ==
    /\ Refused(s) /\ Goto(s, "publish")
    /\ UNCHANGED <<conn, stray, tries>>

(* Mutant: the loss costs the channel, and the connection still looks open.  *)
PyNoticesLossLate(s) ==
    /\ pc[s] = "publish" /\ Gone(s) /\ channel[s]
    /\ SetChannel(s, FALSE)
    /\ UNCHANGED <<up, exchange, conn, pc, stray, tries, mishaps, faults>>

(* basic_publish raises and the connection is closed.  On a closed channel   *)
(* it raises before it touches the connection, which then stays as it is.    *)
PyNoticesLoss(s) ==
    /\ pc[s] = "publish" /\ Gone(s) /\ channel[s]
    /\ SetConn(s, "none") /\ SetChannel(s, FALSE)
    /\ UNCHANGED <<up, exchange, pc, stray, tries, mishaps, faults>>

PyStep(s) == \/ PyConnect(s) \/ Setup(s) \/ PySetupLost(s)
             \/ PublishNowhere(s) \/ PyNoticesLoss(s)

-------------------------------------------------------------------------------
(* review-service                                                            *)

GoConnect == pc["review"] = "connect" /\ Dial("review")

(* Connect returns the error of the channel or of the declaration.           *)
GoSetupLost ==
    /\ pc["review"] = "setup" /\ Gone("review") /\ Goto("review", "connect")
    /\ UNCHANGED <<up, exchange, conn, channel, stray, tries, mishaps, faults>>

GoSetupRefused ==
    /\ Refused("review") /\ Goto("review", "connect")
    /\ UNCHANGED <<conn, stray, tries>>

(* Mutant: the loop goes on after a publish that failed.                     *)
GoLoopExitsOnClose ==
    /\ pc["review"] = "publish" /\ Gone("review")
    /\ SetChannel("review", FALSE) /\ Goto("review", "connect")
    /\ UNCHANGED <<up, exchange, conn, stray, tries, mishaps, faults>>

(* RunPublishLoop returns, on notifyClose or on an error of the publish.     *)
GoLoopExits ==
    /\ pc["review"] = "publish" /\ (Gone("review") \/ ~channel["review"])
    /\ SetChannel("review", FALSE) /\ Goto("review", "connect")
    /\ UNCHANGED <<up, exchange, conn, stray, tries, mishaps, faults>>

GoStep == \/ GoConnect \/ Setup("review") \/ GoSetupLost
          \/ PublishNowhere("review") \/ GoLoopExits

-------------------------------------------------------------------------------
(* user-service                                                              *)

UserConnect == pc["user"] = "connect" /\ Dial("user")

(* An await of connectBroker rejects; its catch waits and tries again.       *)
UserSetupLost ==
    /\ pc["user"] = "setup" /\ conn["user"] = "shut"
    /\ SetConn("user", "none") /\ Goto("user", "connect")
    /\ UNCHANGED <<up, exchange, channel, stray, tries, mishaps, faults>>

(* The reply and the broker's close arrive together: the close is emitted    *)
(* before the awaiting function goes on and listens for it.                  *)
UserMissesClose ==
    /\ pc["user"] = "setup" /\ conn["user"] = "shut"
    /\ SetConn("user", "none") /\ Goto("user", "publish")
    /\ mishaps' = mishaps \union {"missed"}
    /\ UNCHANGED <<up, exchange, channel, stray, tries, faults>>

(* The close handler: no channel, and connectBroker after five seconds.      *)
UserCloses ==
    /\ pc["user"] = "publish" /\ conn["user"] = "shut"
    /\ SetConn("user", "none") /\ SetChannel("user", FALSE)
    /\ Goto("user", "connect")
    /\ UNCHANGED <<up, exchange, stray, tries, mishaps, faults>>

(* Nothing listens for the "error" of a connection that is cut or of a       *)
(* channel the broker closes: node ends the process.                         *)
UserProcessEnds ==
    SetConn("user", "none") /\ SetChannel("user", FALSE) /\ Goto("user", "dead")

UserDies ==
    /\ pc["user"] \in {"setup", "publish"}
    /\ conn["user"] = "cut" \/ (conn["user"] = "open" /\ pc["user"] = "publish"
                                                   /\ ~channel["user"])
    /\ UserProcessEnds
    /\ UNCHANGED <<up, exchange, stray, tries, mishaps, faults>>

UserSetupRefused ==
    /\ Fault /\ pc["user"] = "setup" /\ conn["user"] = "open"
    /\ mishaps' = mishaps \union {"refused"}
    /\ UserProcessEnds
    /\ UNCHANGED <<up, exchange, stray, tries>>

UserStep == \/ UserConnect \/ Setup("user") \/ UserSetupLost \/ UserMissesClose
            \/ UserCloses \/ PublishNowhere("user") \/ UserDies

-------------------------------------------------------------------------------
(* auth-service                                                              *)

AuthConnect == pc["auth"] = "connect" /\ Dial("auth")

(* An exception leaves the delegate: channel and connection are disposed of, *)
(* and the pipeline retries or, its attempts used up, rethrows.  The attempts*)
(* are those of the whole execution, which a success in between goes on with.*)
AuthThrows ==
    /\ SetConn("auth", "none") /\ SetChannel("auth", FALSE)
    /\ IF tries < MaxRetryAttempts
         THEN tries' = tries + 1 /\ Goto("auth", "connect")
         ELSE tries' = 0 /\ Goto("auth", "pause")

AuthFails ==
    /\ \/ pc["auth"] = "connect" /\ ~up
       \/ pc["auth"] = "setup" /\ Gone("auth")
       \/ pc["auth"] = "publish" /\ (Gone("auth") \/ ~channel["auth"])
    /\ AuthThrows
    /\ UNCHANGED <<up, exchange, stray, mishaps, faults>>

AuthSetupRefused ==
    /\ Fault /\ pc["auth"] = "setup" /\ conn["auth"] = "open"
    /\ mishaps' = mishaps \union {"refused"}
    /\ AuthThrows
    /\ UNCHANGED <<up, exchange, stray>>

(* The client library, whose automatic recovery is on by default, is quicker *)
(* than the next heartbeat; it declares the exchange again.                  *)
AuthRecovers ==
    /\ pc["auth"] = "publish" /\ Gone("auth") /\ up
    /\ SetConn("auth", "open") /\ exchange' = TRUE
    /\ UNCHANGED <<up, channel, pc, stray, tries, mishaps, faults>>

AuthResumes ==
    /\ pc["auth"] = "pause" /\ Goto("auth", "connect")
    /\ UNCHANGED <<up, exchange, conn, channel, stray, tries, mishaps, faults>>

AuthStep == \/ AuthConnect \/ Setup("auth") \/ AuthFails \/ AuthRecovers
            \/ PublishNowhere("auth") \/ AuthResumes

-------------------------------------------------------------------------------
Step(s) ==
    \/ s \in Python /\ PyStep(s)
    \/ s = "review" /\ GoStep
    \/ s = "user" /\ UserStep
    \/ s = "auth" /\ AuthStep

RefusedStep(s) ==
    \/ s \in Python /\ PySetupRefused(s)
    \/ s = "review" /\ GoSetupRefused
    \/ s = "user" /\ UserSetupRefused
    \/ s = "auth" /\ AuthSetupRefused

Next ==
    \/ \E how \in {"shut", "cut"} : BrokerStops(how)
    \/ BrokerStarts
    \/ DeleteExchange
    \/ \E s \in Services : Step(s) \/ RefusedStep(s) \/ Restart(s)

Spec == Init /\ [][Next]_vars

\* A publisher's thread, goroutine, event loop or task goes on.
FairSpec == Spec /\ \A s \in Services : WF_vars(Step(s))

-------------------------------------------------------------------------------
(* Properties                                                                *)

TypeOK ==
    /\ up \in BOOLEAN /\ exchange \in BOOLEAN
    /\ conn \in [Services -> Connections]
    /\ channel \in [Services -> BOOLEAN]
    /\ pc \in [Services -> Places]
    /\ stray \in [Services -> Nat]
    /\ tries \in 0..MaxRetryAttempts
    /\ mishaps \subseteq Mishaps
    /\ faults \in 0..MaxFaults

\* The next heartbeat of s reaches the exchange.
Ready(s) == pc[s] = "publish" /\ conn[s] = "open" /\ channel[s] /\ exchange

\* s sends nothing and has no step left that would change that.
Stuck(s) ==
    \/ s \in Python /\ pc[s] = "publish" /\ conn[s] # "none" /\ ~channel[s]
    \/ s = "user" /\ pc[s] = "publish" /\ conn[s] = "none"
    \/ pc[s] = "dead"

(* What ends a publisher for good is a channel refused or closed on its own  *)
(* (the Python loop tests the connection only), a broker that goes without   *)
(* a word or a close that comes before its handler (user-service), never a   *)
(* broker that stops and comes back, however often and at whatever moment.   *)
(* The review-service and the auth-service never end.                        *)
StuckHasCause ==
    \A s \in Services : Stuck(s) =>
        \/ s \in Python /\ ("refused" \in mishaps \/ "deleted" \in mishaps)
        \/ s = "user" /\ mishaps # {}

(* Every reconnection declares the exchange that a stopped broker forgot, so *)
(* no publisher meets a broker without it unless someone deleted it.         *)
DeclaredBeforePublished ==
    \A s \in Services :
        pc[s] = "publish" /\ conn[s] = "open" /\ channel[s]
            => exchange \/ "deleted" \in mishaps

(* A publisher holds the one connection it refers to.  The exception is the  *)
(* review-service, whose Connect and publish loop give up connections that   *)
(* are open: at most one for each fault.                                     *)
NoStrayConnection ==
    \A s \in Services : IF s = "review" THEN stray[s] <= faults ELSE stray[s] = 0

(* How many steps of its own a publisher is away at most from being heard,   *)
(* or stuck, if the broker stays up: connecting and setting up are the last  *)
(* two, a pause or an exception to leave with, and a recovery, come before.  *)
StepsLeft(s) ==
    IF Ready(s) \/ Stuck(s) THEN 0
    ELSE IF pc[s] = "setup" THEN (IF conn[s] = "open" THEN 1 ELSE 4)
    ELSE IF pc[s] = "publish" /\ conn[s] # "none"
         THEN (IF Gone(s) \/ channel[s] THEN 5 ELSE 4)
    ELSE IF pc[s] = "pause" THEN 3 ELSE 2

(* While the broker is up and nothing fails, every step a publisher makes    *)
(* brings it closer to being heard or stuck, and no step of another takes it *)
(* further away: publishers do not go round in circles, and one that is      *)
(* heard, or stuck, remains so.  (One that is dead can be started again.)    *)
NeverFurther ==
    [][\A s \in Services :
          up /\ faults' = faults /\ pc[s] # "dead" =>
             /\ StepsLeft(s)' <= StepsLeft(s)
             /\ Step(s) => StepsLeft(s)' < StepsLeft(s)]_vars

(* Once the broker stays up, every publisher is heard for good, or has been  *)
(* stopped for good.                                                         *)
HeardAgain ==
    \A s \in Services : <>[]up => <>[]Ready(s) \/ <>[]Stuck(s)

(* heartbeat_publisher.py:46-48 catches AMQPChannelError with the message    *)
(* "Connection lost. Retrying in 5s...": a Python publisher that has lost    *)
(* its channel gets one again if the broker stays up.                        *)
LostIsRetried ==
    \A s \in Python : <>[]up => ((conn[s] = "open" /\ ~channel[s]) ~> channel[s])

===============================================================================
