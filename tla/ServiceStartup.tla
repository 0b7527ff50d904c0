--------------------------- MODULE ServiceStartup -----------------------------
(***************************************************************************)
(* How the book-service and the user-service come to serve: each brings    *)
(* its database up to date first, in a way of its own, and the             *)
(* user-service then waits for the broker.  Nothing starts a container     *)
(* again but an operator: docker-compose.yml has no restart policy.        *)
(***************************************************************************)
EXTENDS Naturals

CONSTANTS
    MaxTimer,   \* the longest delay setTimeout takes, in ticks of a second
    MaxFaults   \* bound: calls that fail, and processes and brokers that stop

ASSUME StartupAssumption == MaxTimer \in Nat \ {0} /\ MaxFaults \in Nat

VARIABLES
    bookDb,     \* the revisions whose changes it has, and the one it is at
    book,       \* the process of the book-service
    userDb,     \* the migrations whose changes it has, and SequelizeMeta
    user,       \* the process of the user-service
    brokerUp,   \* the broker runs
    backoff,    \* expBackoff of the user-service, in ticks
    wait,       \* how much of the delay it is in is left
    trying,     \* history: ticks since it began to connect
    deaf,       \* history: ticks for which the broker has been up, and has not
                \* refused it, since then
    interrupted,\* history: it died between a migration that cannot be repeated
                \* and its record
    faults      \* of those MaxFaults bounds

bookVars == <<bookDb, book>>
retryVars == <<backoff, wait, trying, deaf>>
userVars == <<userDb, user, retryVars, interrupted>>
vars == <<bookVars, userVars, brokerUp, faults>>

Fault == faults < MaxFaults /\ faults' = faults + 1

\* The two databases' migrations, in order.
CreateBooks == 1
AddIsDeleted == 2
CreateUsers == 1
AddRole == 2
All == {1, 2}

\* A volume may come from an earlier release.
Init ==
    /\ \E n \in 0..2 : bookDb = [done |-> 1..n, stamp |-> n]
    /\ \E n \in 0..2 : userDb = [done |-> 1..n, recorded |-> 1..n]
    /\ book = "down" /\ user = "down" /\ brokerUp = FALSE
    /\ backoff = 1 /\ wait = 0 /\ trying = 0 /\ deaf = 0
    /\ interrupted = FALSE /\ faults = 0

-------------------------------------------------------------------------------
(* book-service: lifespan awaits run_migrations.  Alembic runs the revisions *)
(* above the stamp and moves the stamp in one transaction, and PostgreSQL    *)
(* takes changes of the schema back with it.  A table or a column is not     *)
(* created twice.                                                            *)

Revisions == {CreateBooks, AddIsDeleted}
Above(stamp) == {v \in Revisions : v > stamp}
CanUpgrade == Above(bookDb.stamp) \cap bookDb.done = {}

BookStarts ==
    /\ book = "down" /\ book' = "migrating"
    /\ UNCHANGED <<bookDb, userVars, brokerUp, faults>>

\* Everything above the stamp, or nothing: the exception of a revision leaves
\* lifespan, and uvicorn exits.
BookMigrates ==
    /\ book = "migrating"
    /\ bookDb' = IF CanUpgrade THEN [done |-> bookDb.done \union Above(bookDb.stamp),
                                    stamp |-> AddIsDeleted]
                               ELSE bookDb
    /\ book' = IF CanUpgrade THEN "serving" ELSE "down"
    /\ UNCHANGED <<userVars, brokerUp, faults>>

\* Mutant: each statement commits, and the stamp comes last.
BookStopsHalfway ==
    /\ book # "down" /\ Fault
    /\ bookDb' = [done |-> bookDb.done \union Above(bookDb.stamp), stamp |-> bookDb.stamp]
    /\ book' = "down"
    /\ UNCHANGED <<userVars, brokerUp>>

\* A call to the database fails, or the process dies: the transaction is rolled
\* back.
BookStops ==
    /\ book # "down" /\ Fault
    /\ book' = "down"
    /\ UNCHANGED <<bookDb, userVars, brokerUp>>

-------------------------------------------------------------------------------
(* user-service: startServer.  sequelize-cli applies the migrations that are *)
(* not recorded one by one, and records each when it is done.  The table is  *)
(* created if it does not exist; a column that exists is an error, and       *)
(* runMigrations exits.                                                      *)

Pending == {CreateUsers, AddRole} \ userDb.recorded
First(ms) == IF CreateUsers \in ms THEN CreateUsers ELSE AddRole
Applies(m) == m = CreateUsers \/ m \notin userDb.done

UserStarts ==
    /\ user = "down" /\ user' = "authenticating"
    /\ UNCHANGED <<bookVars, userDb, retryVars, interrupted, brokerUp, faults>>

UserAuthenticates ==
    /\ user = "authenticating" /\ user' = "migrating"
    /\ UNCHANGED <<bookVars, userDb, retryVars, interrupted, brokerUp, faults>>

UserApplies ==
    /\ user = "migrating" /\ Pending # {} /\ Applies(First(Pending))
    /\ userDb' = [done |-> userDb.done \union {First(Pending)}, recorded |-> userDb.recorded]
    /\ user' = "recording"
    /\ UNCHANGED <<bookVars, retryVars, interrupted, brokerUp, faults>>

UserRecords ==
    /\ user = "recording"
    /\ userDb' = [done |-> userDb.done, recorded |-> userDb.recorded \union {First(Pending)}]
    /\ user' = "migrating"
    /\ UNCHANGED <<bookVars, retryVars, interrupted, brokerUp, faults>>

\* Mutant: the error is logged and startServer goes on.
UserRefusedGoesOn ==
    /\ user = "migrating" /\ Pending # {} /\ ~Applies(First(Pending))
    /\ user' = "connecting"
    /\ UNCHANGED <<bookVars, userDb, retryVars, interrupted, brokerUp, faults>>

UserRefused ==
    /\ user = "migrating" /\ Pending # {} /\ ~Applies(First(Pending))
    /\ user' = "down"
    /\ UNCHANGED <<bookVars, userDb, retryVars, interrupted, brokerUp, faults>>

UserMigrated ==
    /\ user = "migrating" /\ Pending = {}
    /\ user' = "connecting"
    /\ backoff' = 1 /\ wait' = 0 /\ trying' = 0 /\ deaf' = 0
    /\ UNCHANGED <<bookVars, userDb, interrupted, brokerUp, faults>>

\* A call to the database fails, which exits, or the process dies.
UserStops ==
    /\ user # "down" /\ Fault
    /\ user' = "down"
    /\ interrupted' = (interrupted \/ (user = "recording" /\ First(Pending) = AddRole))
    /\ UNCHANGED <<bookVars, userDb, retryVars, brokerUp>>

-------------------------------------------------------------------------------
(* user-service: connectBroker, which startServer awaits before it listens.  *)
(* The delay doubles for every attempt; one too long for setTimeout is none. *)

Timer(d) == IF d > MaxTimer THEN 0 ELSE d
Doubled(d) == IF d > MaxTimer THEN d ELSE 2 * d

\* Mutant: the delay doubles before it is waited for.
UserRetriesDoubled ==
    /\ user = "connecting" /\ wait = 0
    /\ (~brokerUp /\ UNCHANGED faults) \/ (brokerUp /\ Fault)
    /\ wait' = Timer(2 * backoff) /\ backoff' = Doubled(backoff) /\ deaf' = 0
    /\ UNCHANGED <<bookVars, userDb, user, trying, interrupted, brokerUp>>

UserRetries ==
    /\ user = "connecting" /\ wait = 0
    /\ (~brokerUp /\ UNCHANGED faults) \/ (brokerUp /\ Fault)
    /\ wait' = Timer(backoff) /\ backoff' = Doubled(backoff) /\ deaf' = 0
    /\ UNCHANGED <<bookVars, userDb, user, trying, interrupted, brokerUp>>

\* Mutant: the loop goes on when it has connected.
UserListensLoops ==
    /\ user = "connecting" /\ wait = 0 /\ brokerUp
    /\ backoff' = 1
    /\ UNCHANGED <<bookVars, userDb, user, wait, trying, deaf, interrupted, brokerUp, faults>>

UserListens ==
    /\ user = "connecting" /\ wait = 0 /\ brokerUp
    /\ user' = "listening"
    /\ UNCHANGED <<bookVars, userDb, retryVars, interrupted, brokerUp, faults>>

-------------------------------------------------------------------------------
BrokerStarts ==
    /\ ~brokerUp /\ brokerUp' = TRUE
    /\ UNCHANGED <<bookVars, userVars, faults>>

BrokerStops ==
    /\ brokerUp /\ brokerUp' = FALSE /\ Fault /\ deaf' = 0
    /\ UNCHANGED <<bookVars, userDb, user, backoff, wait, trying, interrupted>>

\* Time passes for a client that waits.  An attempt takes less than a tick: one
\* that is due is made, except that a timer of no length is set again and again
\* while the broker is away.  trying is counted as far as it is compared.
Tick ==
    /\ user = "connecting"
    /\ wait = 0 => ~brokerUp /\ backoff > MaxTimer
    /\ wait' = IF wait = 0 THEN 0 ELSE wait - 1
    /\ trying' = IF trying < 2 * MaxTimer THEN trying + 1 ELSE trying
    /\ deaf' = IF brokerUp THEN deaf + 1 ELSE 0
    /\ UNCHANGED <<bookVars, userDb, user, backoff, interrupted, brokerUp, faults>>

BookNext == BookStarts \/ BookMigrates \/ BookStops
UserNext ==
    \/ UserStarts \/ UserAuthenticates \/ UserApplies \/ UserRecords \/ UserRefused
    \/ UserMigrated \/ UserStops \/ UserRetries \/ UserListens

Next == BookNext \/ UserNext \/ BrokerStarts \/ BrokerStops \/ Tick

\* A process that runs makes its next step; whether one is started, and whether
\* the broker is, nobody knows.
Fairness ==
    /\ WF_vars(BookMigrates)
    /\ WF_vars(UserAuthenticates \/ UserApplies \/ UserRecords \/ UserRefused \/ UserMigrated)
    /\ WF_vars(UserListens) /\ WF_vars(Tick)

Spec == Init /\ [][Next]_vars
FairSpec == Spec /\ Fairness

-------------------------------------------------------------------------------
(* Properties                                                                *)

TypeOK ==
    /\ bookDb \in [done : SUBSET All, stamp : 0..2]
    /\ userDb \in [done : SUBSET All, recorded : SUBSET All]
    /\ book \in {"down", "migrating", "serving"}
    /\ user \in {"down", "authenticating", "migrating", "recording", "connecting", "listening"}
    /\ brokerUp \in BOOLEAN /\ interrupted \in BOOLEAN /\ faults \in 0..MaxFaults
    /\ backoff \in 1..(2 * MaxTimer) /\ wait \in 0..MaxTimer
    /\ trying \in 0..(2 * MaxTimer) /\ deaf \in 0..MaxTimer

(* A start that does not get to serve has met a failure of its own.  What    *)
(* earlier starts left behind, whenever they were cut off, does not stop the *)
(* book-service, and stops the user-service only if one of them died after   *)
(* adding the role column and before recording it: then every later one.     *)
StartFailsForCause ==
    [][/\ book = "migrating" /\ book' = "down" => faults' # faults
       /\ user \notin {"down", "listening"} /\ user' = "down"
            => faults' # faults \/ (user = "migrating" /\ interrupted)]_vars

(* What serves, serves on a database that has had every migration and says   *)
(* so; the user-service does not so much as try the broker before.           *)
ServesMigrated ==
    /\ book = "serving" => bookDb = [done |-> All, stamp |-> AddIsDeleted]
    /\ user \in {"connecting", "listening"} => userDb = [done |-> All, recorded |-> All]

(* That one death is for good: no later start of the user-service gets as    *)
(* far as the broker, whatever is restarted and however often.               *)
StrandedForGood ==
    [](interrupted => [](user \notin {"connecting", "listening"}))

(* The user-service, which nobody can log in without, listens within the     *)
(* time the broker's return took it: it is never deaf to a broker that is    *)
(* back for longer than it had been trying before.  It tries without a pause *)
(* only after it has tried for as long as setTimeout can wait.               *)
PacedRetries ==
    user = "connecting" =>
        /\ 2 * deaf <= trying + 1
        /\ wait = 0 /\ backoff > MaxTimer => trying >= MaxTimer

(* A service that is running for good gets to serve, the user-service when   *)
(* the broker is there for good too; whatever the databases went through.    *)
StartsServe ==
    /\ <>[](book # "down") => <>[](book = "serving")
    /\ <>[](user # "down" /\ brokerUp) => <>[](user = "listening")

===============================================================================
