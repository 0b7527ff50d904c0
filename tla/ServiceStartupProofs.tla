----------------------- MODULE ServiceStartupProofs ---------------------------
(***************************************************************************)
(* The start-up, for every longest delay and any number of failures.       *)
(***************************************************************************)
EXTENDS ServiceStartup, TLAPS

-------------------------------------------------------------------------------
(* The inductive invariant                                                   *)

\* A database of the book-service is as the revision it is stamped with left it.
StampTells == bookDb.done = {v \in All : v <= bookDb.stamp}

HalfDone(m) == m \in userDb.done \ userDb.recorded
Recording(m) == user = "recording" /\ First(Pending) = m
MigrationsTell ==
    /\ user = "recording" => Pending # {}
    /\ HalfDone(AddRole) /\ ~Recording(AddRole) => interrupted

\* The delays up to now add up to the next one, less what is left of the last.
DelaysAddUp == user = "connecting" => backoff <= trying + wait + 1

\* The broker has come back during the delay the client is in.
BackThisDelay == user = "connecting" => 2 * (wait + deaf) <= backoff

IInv == TypeOK /\ StampTells /\ MigrationsTell /\ DelaysAddUp /\ BackThisDelay

-------------------------------------------------------------------------------
(* Operators                                                                 *)

LEMMA Delays ==
  ASSUME NEW d \in 1..(2 * MaxTimer)
  PROVE  /\ d <= MaxTimer => Timer(d) = d /\ Doubled(d) = 2 * d
         /\ d > MaxTimer => Timer(d) = 0 /\ Doubled(d) = d
  BY StartupAssumption DEF Timer, Doubled

LEMMA StillBack ==
  ASSUME NEW w \in Nat, NEW d \in Nat, NEW e \in Nat, NEW b \in Nat,
         e <= d, 2 * (w + d) <= b
  PROVE  2 * (w + e) <= b
  OBVIOUS

LEMMA FirstIsPending ==
  ASSUME Pending # {}
  PROVE  First(Pending) \in Pending /\ First(Pending) \in All
  BY DEF Pending, First, CreateUsers, AddRole, All

\* The revisions above the stamp are those whose changes are missing.
LEMMA AlwaysUpgrades == ASSUME TypeOK, StampTells PROVE CanUpgrade
  BY DEF TypeOK, StampTells, CanUpgrade, Above, Revisions, CreateBooks, AddIsDeleted, All

LEMMA UpgradeTells ==
  ASSUME TypeOK, StampTells
  PROVE  bookDb.done \union Above(bookDb.stamp) = {v \in All : v <= AddIsDeleted}
  BY DEF TypeOK, StampTells, Above, Revisions, CreateBooks, AddIsDeleted, All

-------------------------------------------------------------------------------
(* The steps                                                                 *)

LEMMA InitHolds == Init => IInv
<1> SUFFICES ASSUME Init PROVE IInv
  OBVIOUS
<1>1. TypeOK
  <2>1. bookDb \in [done : SUBSET All, stamp : 0..2]
    BY DEF Init, All
  <2>2. userDb \in [done : SUBSET All, recorded : SUBSET All]
    BY DEF Init, All
  <2>3. backoff \in 1..(2 * MaxTimer) /\ wait \in 0..MaxTimer
    BY StartupAssumption DEF Init
  <2>4. trying \in 0..(2 * MaxTimer) /\ deaf \in 0..MaxTimer /\ faults \in 0..MaxFaults
    BY StartupAssumption DEF Init
  <2> QED  BY <2>1, <2>2, <2>3, <2>4 DEF Init, TypeOK
<1>2. StampTells
  BY DEF Init, StampTells, All
<1>3. MigrationsTell
  BY DEF Init, MigrationsTell, HalfDone
<1>4. DelaysAddUp /\ BackThisDelay
  BY DEF Init, DelaysAddUp, BackThisDelay
<1> QED  BY <1>1, <1>2, <1>3, <1>4 DEF IInv

LEMMA FaultCounted == ASSUME TypeOK, Fault PROVE faults' \in 0..MaxFaults
  BY StartupAssumption DEF TypeOK, Fault

LEMMA BookNextKeeps == ASSUME IInv, BookNext PROVE IInv'
<1>1. UNCHANGED <<userVars, brokerUp>>
  BY DEF BookNext, BookStarts, BookMigrates, BookStops
<1>2. /\ book' \in {"down", "migrating", "serving"}
      /\ faults' \in 0..MaxFaults
  BY FaultCounted DEF BookNext, BookStarts, BookMigrates, BookStops, IInv, TypeOK
<1>3. /\ bookDb' \in [done : SUBSET All, stamp : 0..2]
      /\ StampTells'
  <2>1. CASE BookMigrates
    <3>1. bookDb' = [done |-> {v \in All : v <= AddIsDeleted}, stamp |-> AddIsDeleted]
      BY <2>1, UpgradeTells, AlwaysUpgrades DEF BookMigrates, IInv
    <3> QED  BY <3>1 DEF StampTells, All, AddIsDeleted
  <2>2. CASE BookStarts \/ BookStops
    BY <2>2 DEF BookStarts, BookStops, IInv, TypeOK, StampTells
  <2> QED  BY <2>1, <2>2 DEF BookNext
<1>4. TypeOK'
  BY <1>1, <1>2, <1>3 DEF userVars, retryVars, IInv, TypeOK
<1>5. MigrationsTell' /\ DelaysAddUp' /\ BackThisDelay'
  BY <1>1 DEF userVars, retryVars, IInv, MigrationsTell, HalfDone, Recording, Pending,
     DelaysAddUp, BackThisDelay
<1> QED  BY <1>3, <1>4, <1>5 DEF IInv

\* The migrations of the user-service.
Migrates == UserApplies \/ UserRecords
OtherUser ==
    \/ UserStarts \/ UserAuthenticates \/ UserRefused \/ UserMigrated \/ UserStops
    \/ UserRetries \/ UserListens

LEMMA MigratesKeeps == ASSUME IInv, Migrates PROVE IInv'
<1> USE DEF Migrates
<1>1. /\ UNCHANGED <<bookVars, retryVars, brokerUp, faults>>
      /\ user \in {"migrating", "recording"} /\ user' \in {"migrating", "recording"}
      /\ Pending # {}
  BY DEF UserApplies, UserRecords, IInv, MigrationsTell
<1>2. interrupted' = interrupted
  BY DEF UserApplies, UserRecords
<1>3. userDb' \in [done : SUBSET All, recorded : SUBSET All]
  BY <1>1, FirstIsPending DEF UserApplies, UserRecords, IInv, TypeOK
<1>4. TypeOK'
  BY <1>1, <1>2, <1>3 DEF bookVars, retryVars, IInv, TypeOK
<1>5. StampTells' /\ DelaysAddUp' /\ BackThisDelay'
  BY <1>1 DEF bookVars, retryVars, IInv, StampTells, DelaysAddUp, BackThisDelay
<1>6. MigrationsTell'
  <2>1. CASE UserApplies
    <3>1. /\ userDb' = [done |-> userDb.done \union {First(Pending)},
                        recorded |-> userDb.recorded]
          /\ user = "migrating" /\ user' = "recording"
      BY <2>1 DEF UserApplies
    <3>2. Pending' = Pending
      BY <3>1 DEF Pending, IInv, TypeOK
    <3>3. HalfDone(AddRole)' /\ ~Recording(AddRole)' => HalfDone(AddRole) /\ ~Recording(AddRole)
      BY <3>1, <3>2 DEF HalfDone, Recording
    <3> QED  BY <1>1, <1>2, <3>2, <3>3 DEF IInv, MigrationsTell
  <2>2. CASE UserRecords
    <3>1. /\ userDb' = [done |-> userDb.done,
                        recorded |-> userDb.recorded \union {First(Pending)}]
          /\ user = "recording" /\ user' = "migrating"
      BY <2>2 DEF UserRecords
    <3>2. HalfDone(AddRole)' => HalfDone(AddRole) /\ ~Recording(AddRole)
      BY <3>1 DEF HalfDone, Recording
    <3> QED  BY <1>2, <3>1, <3>2 DEF IInv, MigrationsTell
  <2> QED  BY <2>1, <2>2
<1> QED  BY <1>4, <1>5, <1>6 DEF IInv

LEMMA RetryKeeps ==
  ASSUME IInv, UserRetries
  PROVE  /\ backoff' \in 1..(2 * MaxTimer) /\ wait' \in 0..MaxTimer
         /\ trying' \in 0..(2 * MaxTimer) /\ deaf' \in 0..MaxTimer
         /\ backoff' <= trying' + wait' + 1
         /\ 2 * (wait' + deaf') <= backoff'
<1>1. /\ wait = 0 /\ wait' = Timer(backoff) /\ backoff' = Doubled(backoff)
      /\ deaf' = 0 /\ trying' = trying
  BY DEF UserRetries
<1>2. /\ backoff \in 1..(2 * MaxTimer) /\ trying \in 0..(2 * MaxTimer)
      /\ backoff <= trying + wait + 1
  BY DEF UserRetries, IInv, TypeOK, DelaysAddUp
<1>3. CASE backoff <= MaxTimer
  BY <1>1, <1>2, <1>3, Delays, StartupAssumption
<1>4. CASE backoff > MaxTimer
  BY <1>1, <1>2, <1>4, Delays, StartupAssumption
<1> QED  BY <1>2, <1>3, <1>4, StartupAssumption

LEMMA OtherUserKeeps == ASSUME IInv, OtherUser PROVE IInv'
<1> USE DEF OtherUser
<1>1. UNCHANGED <<bookVars, userDb, brokerUp>>
  BY DEF UserStarts, UserAuthenticates, UserRefused, UserMigrated, UserStops, UserRetries,
     UserListens
<1>2. user' \in {"down", "authenticating", "migrating", "connecting", "listening"}
  BY DEF UserStarts, UserAuthenticates, UserRefused, UserMigrated, UserStops, UserRetries,
     UserListens
<1>3. faults' \in 0..MaxFaults
  BY FaultCounted DEF UserStarts, UserAuthenticates, UserRefused, UserMigrated, UserStops,
     UserRetries, UserListens, IInv, TypeOK
<1>4. /\ interrupted' \in BOOLEAN
      /\ interrupted => interrupted'
      /\ Recording(AddRole) => interrupted'
  BY DEF UserStarts, UserAuthenticates, UserRefused, UserMigrated, UserStops, UserRetries,
     UserListens, IInv, TypeOK, Recording
<1>5. MigrationsTell'
  BY <1>1, <1>2, <1>4 DEF IInv, MigrationsTell, HalfDone, Recording
<1>6. /\ backoff' \in 1..(2 * MaxTimer) /\ wait' \in 0..MaxTimer
      /\ trying' \in 0..(2 * MaxTimer) /\ deaf' \in 0..MaxTimer
      /\ user' = "connecting" =>
           /\ backoff' <= trying' + wait' + 1
           /\ 2 * (wait' + deaf') <= backoff'
  <2>1. CASE UserRetries
    BY <2>1, RetryKeeps
  <2>2. CASE UserMigrated
    BY <2>2, StartupAssumption DEF UserMigrated
  <2>3. CASE UserStarts \/ UserAuthenticates \/ UserRefused \/ UserStops \/ UserListens
    <3>1. UNCHANGED retryVars /\ user' # "connecting"
      BY <2>3 DEF UserStarts, UserAuthenticates, UserRefused, UserStops, UserListens
    <3> QED  BY <3>1 DEF retryVars, IInv, TypeOK
  <2> QED  BY <2>1, <2>2, <2>3
<1>7. TypeOK'
  BY <1>1, <1>2, <1>3, <1>4, <1>6 DEF bookVars, IInv, TypeOK
<1>8. StampTells' /\ DelaysAddUp' /\ BackThisDelay'
  BY <1>1, <1>6 DEF bookVars, IInv, StampTells, DelaysAddUp, BackThisDelay
<1> QED  BY <1>5, <1>7, <1>8 DEF IInv

LEMMA BrokerKeeps == ASSUME IInv, BrokerStarts \/ BrokerStops PROVE IInv'
<1>1. /\ UNCHANGED <<bookVars, userDb, user, backoff, wait, trying, interrupted>>
      /\ brokerUp' \in BOOLEAN /\ faults' \in 0..MaxFaults
      /\ deaf' \in {0, deaf}
  BY FaultCounted DEF BrokerStarts, BrokerStops, userVars, retryVars, IInv, TypeOK
<1>2. deaf' \in 0..MaxTimer /\ deaf' <= deaf
  BY <1>1, StartupAssumption DEF IInv, TypeOK
<1>3. TypeOK'
  BY <1>1, <1>2 DEF bookVars, IInv, TypeOK
<1>4. StampTells' /\ MigrationsTell' /\ DelaysAddUp'
  BY <1>1 DEF bookVars, IInv, StampTells, MigrationsTell, HalfDone, Recording, Pending, DelaysAddUp
<1>5. ASSUME user = "connecting" PROVE 2 * (wait + deaf') <= backoff
  <2>1. 2 * (wait + deaf) <= backoff
    BY <1>5 DEF IInv, BackThisDelay
  <2>2. wait \in Nat /\ deaf \in Nat /\ backoff \in Nat /\ deaf' \in Nat
    BY <1>2, StartupAssumption DEF IInv, TypeOK
  <2> QED  BY <1>2, <2>1, <2>2, StillBack
<1>6. BackThisDelay'
  BY <1>1, <1>5 DEF BackThisDelay
<1> QED  BY <1>3, <1>4, <1>6 DEF IInv

LEMMA TickKeeps == ASSUME IInv, Tick PROVE IInv'
<1>1. /\ UNCHANGED <<bookVars, userDb, user, backoff, brokerUp, faults>>
      /\ user = "connecting"
  BY DEF Tick
<1>2. interrupted' = interrupted
  BY DEF Tick
<1>3. /\ wait = 0 => deaf' = 0
      /\ deaf' \in {0, deaf + 1}
      /\ wait' = IF wait = 0 THEN 0 ELSE wait - 1
      /\ trying' = IF trying < 2 * MaxTimer THEN trying + 1 ELSE trying
  BY DEF Tick
<1>4. /\ backoff \in 1..(2 * MaxTimer) /\ wait \in 0..MaxTimer
      /\ trying \in 0..(2 * MaxTimer) /\ deaf \in 0..MaxTimer
      /\ backoff <= trying + wait + 1 /\ 2 * (wait + deaf) <= backoff
  BY <1>1 DEF IInv, TypeOK, DelaysAddUp, BackThisDelay
<1>5. wait' \in 0..MaxTimer /\ trying' \in 0..(2 * MaxTimer)
  BY <1>3, <1>4, StartupAssumption
<1>6. 2 * (wait' + deaf') <= backoff /\ deaf' \in 0..MaxTimer
  <2>1. CASE wait = 0
    BY <1>3, <1>4, <2>1, StartupAssumption
  <2>2. CASE wait > 0
    <3>1. wait' = wait - 1 /\ (deaf' = 0 \/ deaf' = deaf + 1)
      BY <1>3, <1>4, <2>2
    <3> QED  BY <1>4, <2>2, <3>1, StartupAssumption
  <2> QED  BY <1>4, <2>1, <2>2
<1>7. backoff <= trying' + wait' + 1
  BY <1>3, <1>4, StartupAssumption
<1>8. TypeOK'
  BY <1>1, <1>2, <1>5, <1>6 DEF bookVars, IInv, TypeOK
<1>9. StampTells' /\ MigrationsTell'
  BY <1>1, <1>2 DEF bookVars, IInv, StampTells, MigrationsTell, HalfDone, Recording, Pending
<1>10. DelaysAddUp' /\ BackThisDelay'
  BY <1>1, <1>6, <1>7 DEF DelaysAddUp, BackThisDelay
<1> QED  BY <1>8, <1>9, <1>10 DEF IInv

LEMMA Stutters == ASSUME IInv, UNCHANGED vars PROVE IInv'
<1>1. UNCHANGED <<bookDb, book, userDb, user, backoff, wait, trying, deaf, interrupted,
                  brokerUp, faults>>
  BY DEF vars, bookVars, userVars, retryVars
<1> QED  BY <1>1 DEF IInv, TypeOK, StampTells, MigrationsTell, HalfDone, Recording, Pending,
            DelaysAddUp, BackThisDelay

LEMMA Invariance == Spec => []IInv
<1>1. IInv /\ [Next]_vars => IInv'
  BY BookNextKeeps, MigratesKeeps, OtherUserKeeps, BrokerKeeps, TickKeeps, Stutters
     DEF Next, UserNext, Migrates, OtherUser
<1> QED  BY InitHolds, <1>1, PTL DEF Spec

-------------------------------------------------------------------------------
(* The theorems                                                              *)

(* The start-up keeps its types.                                             *)
THEOREM TypeCorrect == Spec => []TypeOK
<1>1. IInv => TypeOK
  BY DEF IInv
<1> QED  BY <1>1, Invariance, PTL

(* The client of the broker is never deaf to it for longer than it had been  *)
(* trying before, and does not spin before setTimeout's longest delay.       *)
THEOREM AlwaysPacedRetries == Spec => []PacedRetries
<1>1. ASSUME IInv, user = "connecting"
      PROVE  2 * deaf <= trying + 1 /\ (wait = 0 /\ backoff > MaxTimer => trying >= MaxTimer)
  BY <1>1, StartupAssumption DEF IInv, TypeOK, DelaysAddUp, BackThisDelay
<1>2. IInv => PacedRetries
  BY <1>1 DEF PacedRetries
<1> QED  BY <1>2, Invariance, PTL

(* A start fails for a failure of its own, and for a start that died after   *)
(* it had added the role column and before it had recorded that.             *)
THEOREM StartsFailOnlyForCause == Spec => StartFailsForCause
<1> DEFINE Caused ==
      /\ book = "migrating" /\ book' = "down" => faults' # faults
      /\ user \notin {"down", "listening"} /\ user' = "down"
           => faults' # faults \/ (user = "migrating" /\ interrupted)
<1>1. ASSUME IInv, [Next]_vars PROVE Caused
  <2>1. ASSUME Fault PROVE faults' # faults
    BY <1>1, <2>1 DEF Fault, IInv, TypeOK
  <2>2. ASSUME book = "migrating", book' = "down" PROVE faults' # faults
    <3>1. CanUpgrade
      BY <1>1, AlwaysUpgrades DEF IInv
    <3> QED
      BY <1>1, <2>1, <2>2, <3>1 DEF Next, BookNext, BookStarts, BookMigrates,
         BookStops, UserNext, UserStarts, UserAuthenticates, UserApplies, UserRecords,
         UserRefused, UserMigrated, UserStops, UserRetries, UserListens, BrokerStarts,
         BrokerStops, Tick, vars, bookVars
  <2>3. ASSUME user \notin {"down", "listening"}, user' = "down"
        PROVE  faults' # faults \/ (user = "migrating" /\ interrupted)
    <3>1. UserStops \/ UserRefused
      BY <1>1, <2>3 DEF Next, BookNext, BookStarts, BookMigrates,
         BookStops, UserNext, UserStarts, UserAuthenticates, UserApplies, UserRecords,
         UserMigrated, UserRetries, UserListens, BrokerStarts, BrokerStops, Tick, vars,
         userVars
    <3>2. CASE UserStops
      BY <2>1, <3>2 DEF UserStops
    <3>3. CASE UserRefused
      <4>1. First(Pending) = AddRole /\ AddRole \in userDb.done /\ user = "migrating"
        BY <3>3 DEF UserRefused, Applies, First
      <4>2. AddRole \notin userDb.recorded
        BY <3>3, <4>1, FirstIsPending DEF UserRefused, Pending
      <4> QED  BY <1>1, <4>1, <4>2 DEF IInv, MigrationsTell, HalfDone, Recording
    <3> QED  BY <3>1, <3>2, <3>3
  <2> QED  BY <2>2, <2>3
<1>2. IInv /\ [Next]_vars => [Caused]_vars
  BY <1>1
<1> QED  BY <1>2, Invariance, PTL DEF Spec, StartFailsForCause

-------------------------------------------------------------------------------
(* What the databases are like when a service serves, or never will          *)

Started == user \in {"connecting", "listening"}
Stranded == /\ HalfDone(AddRole) /\ CreateUsers \in userDb.recorded
            /\ user \in {"down", "authenticating", "migrating"}
Migrated ==
    /\ userDb.recorded \subseteq userDb.done
    /\ user = "recording" => First(Pending) \in userDb.done
    /\ Started => Pending = {}
    /\ book = "serving" => bookDb.stamp = AddIsDeleted
    /\ interrupted => Stranded

LEMMA MigratedStep == ASSUME IInv, Migrated, [Next]_vars PROVE Migrated'
<1> USE DEF Migrated, Started, Stranded, HalfDone
<1>1. CASE BookNext
  BY <1>1 DEF BookNext, BookStarts, BookMigrates, BookStops, Pending, userVars
<1>2. CASE UserStarts \/ UserAuthenticates
  BY <1>2 DEF UserStarts, UserAuthenticates, Pending, bookVars
<1>3. CASE UserApplies
  <2>1. /\ First(Pending) \in Pending /\ userDb'.recorded = userDb.recorded
        /\ userDb'.done = userDb.done \union {First(Pending)}
        /\ user' = "recording" /\ UNCHANGED <<bookDb, book, interrupted>>
    BY <1>3, FirstIsPending DEF UserApplies, bookVars
  <2>2. Pending' = Pending
    BY <2>1 DEF Pending
  <2>3. First(Pending') \in userDb'.done
    BY <2>1, <2>2
  <2>4. ~interrupted
    BY <1>3, <2>1 DEF UserApplies, First, Applies, Pending, CreateUsers, AddRole
  <2> QED  BY <2>1, <2>3, <2>4
<1>4. CASE UserRecords
  <2>1. /\ userDb'.done = userDb.done /\ user = "recording" /\ user' = "migrating"
        /\ userDb'.recorded = userDb.recorded \union {First(Pending)}
        /\ UNCHANGED <<bookDb, book, interrupted>>
    BY <1>4 DEF UserRecords, bookVars
  <2> QED  BY <2>1
<1>5. CASE UserStops
  <2>1. /\ user' = "down" /\ UNCHANGED <<bookDb, book, userDb>>
        /\ interrupted' = (interrupted \/ (user = "recording" /\ First(Pending) = AddRole))
    BY <1>5 DEF UserStops, bookVars
  <2>2. ASSUME user = "recording", First(Pending) = AddRole
        PROVE  HalfDone(AddRole) /\ CreateUsers \in userDb.recorded
    <3>1. AddRole \in Pending
      BY <2>2, FirstIsPending DEF IInv, MigrationsTell
    <3>2. CreateUsers \notin Pending
      BY <2>2 DEF First, CreateUsers, AddRole
    <3> QED  BY <2>2, <3>1, <3>2 DEF Pending
  <2> QED  BY <2>1, <2>2
<1>6. CASE UserRefused \/ UserMigrated
  BY <1>6 DEF UserRefused, UserMigrated, Pending, bookVars
<1>7. CASE UserRetries \/ UserListens \/ BrokerStarts \/ BrokerStops \/ Tick \/ UNCHANGED vars
  <2>1. UNCHANGED <<bookDb, book, userDb, interrupted>>
    BY <1>7 DEF UserRetries, UserListens, BrokerStarts, BrokerStops, Tick, vars, bookVars, userVars
  <2>2. user' = user \/ (user = "connecting" /\ user' = "listening")
    BY <1>7 DEF UserRetries, UserListens, BrokerStarts, BrokerStops, Tick, vars, userVars
  <2> QED  BY <2>1, <2>2 DEF Pending
<1> QED
  BY <1>1, <1>2, <1>3, <1>4, <1>5, <1>6, <1>7 DEF Next, UserNext

LEMMA AlwaysMigrated == Spec => []Migrated
<1>1. Init => Migrated
  BY DEF Init, Migrated, Started, Stranded, Pending, CreateUsers, AddRole
<1>2. IInv /\ Migrated /\ [Next]_vars => Migrated'
  BY MigratedStep
<1> QED  BY <1>1, <1>2, Invariance, PTL DEF Spec

(* A service serves on a database that is migrated to the end, and is marked *)
(* as such.                                                                  *)
THEOREM AlwaysServesMigrated == Spec => []ServesMigrated
<1>1. ASSUME IInv, Migrated, book = "serving"
      PROVE  bookDb = [done |-> All, stamp |-> AddIsDeleted]
  BY <1>1 DEF IInv, TypeOK, StampTells, Migrated, AddIsDeleted, All
<1>2. ASSUME IInv, Migrated, Started
      PROVE  userDb = [done |-> All, recorded |-> All]
  BY <1>2 DEF IInv, TypeOK, Migrated, Pending, CreateUsers, AddRole, All
<1>3. IInv /\ Migrated => ServesMigrated
  BY <1>1, <1>2 DEF ServesMigrated, Started
<1> QED  BY <1>3, Invariance, AlwaysMigrated, PTL

(* A user-service that has died between the role column and its record never *)
(* serves again: the state it leaves is one that no step of a start mends.   *)
THEOREM InterruptedForGood == Spec => StrandedForGood
<1>1. Migrated /\ interrupted => user \notin {"connecting", "listening"}
  BY DEF Migrated, Stranded
<1>2. interrupted /\ [Next]_vars => interrupted'
  BY DEF Next, BookNext, BookStarts, BookMigrates, BookStops, UserNext, UserStarts,
     UserAuthenticates, UserApplies, UserRecords, UserRefused, UserMigrated, UserStops,
     UserRetries, UserListens, BrokerStarts, BrokerStops, Tick, vars, userVars
<1> QED  BY <1>1, <1>2, AlwaysMigrated, PTL DEF Spec, StrandedForGood
===============================================================================
