---------------------------- MODULE HealthMonitor -----------------------------
(***************************************************************************)
(* The health-monitor-service: heartbeats arrive on one queue, concurrent  *)
(* processors merge them into an ETS table with one row per service, and a *)
(* periodic pass recomputes the status of every row.  Nothing locks a row: *)
(* a processor looks it up, merges and inserts; the pass lists the table   *)
(* and then writes rows back from its list.                                *)
(*                                                                         *)
(* Time is counted in ticks.  A timestamp is kept as its age, because the  *)
(* code reads timestamps only as a difference to now; ages above Stale are *)
(* all alike to it.  All containers run on one host and share its clock.   *)
(***************************************************************************)
EXTENDS Integers, Sequences

CONSTANTS
    Service, Processor,
    HealthyTreshold, StaleTreshold,  \* @healthy_treshold, @stale_treshold, in ticks
    PassInterval,   \* @heartbeat_recalculation_interval, in ticks
    BeatInterval,   \* the interval of a heartbeat publisher, in ticks
    Lag,            \* bound: ticks by which a message, a handler, a timer or a
                    \* pass may be late
    MaxInbox,       \* bound: heartbeats queued
    MaxRestarts     \* bound: restarts of the monitor and losses of its queue

ASSUME TimesAssumption ==
    /\ {PassInterval, BeatInterval, Lag, MaxInbox} \subseteq Nat \ {0}
    /\ {HealthyTreshold, StaleTreshold, MaxRestarts} \subseteq Nat
    /\ HealthyTreshold < StaleTreshold /\ Lag <= StaleTreshold

VARIABLES
    storage,    \* the table exists
    table,      \* [Service -> Row]: the row of each service
    inbox,      \* heartbeats on the queue, oldest first
    proc,       \* what each processor is doing
    updater,    \* "waiting" for its timer, or "passing" over its list
    elapsed,    \* ticks since the updater last changed between the two
    listed,     \* rows the pass has listed and not looked at yet
    beating,    \* services whose heartbeats reach the queue: the publisher runs
                \* and is connected, and the queue is bound
    silent,     \* ticks since the last heartbeat of each service was queued
    steady,     \* history: ticks for which a service has been beating
    restarts

monitorVars == <<storage, table, proc, updater, elapsed, listed>>
vars == <<monitorVars, inbox, beating, silent, steady, restarts>>

Statuses == {"healthy", "stale", "offline"}
MaxAge == StaleTreshold + 1
Age == 0..MaxAge
Older(age) == IF age < MaxAge THEN age + 1 ELSE MaxAge

NoRow == [age |-> MaxAge, status |-> "none"]
Row == [age : Age, status : Statuses] \union {NoRow}
Present(row) == row.status # "none"
Aged(row) == [age |-> Older(row.age), status |-> row.status]

\* A listed row keeps the status computed from its age when it was listed.
NotListed == [row |-> NoRow, verdict |-> "none"]
Listing == [row : Row, verdict : Statuses] \union {NotListed}

Beat == [service : Service, age : 0..Lag]
AgedBeat(beat) == [service |-> beat.service, age |-> beat.age + 1]
IdleProc == [step |-> "idle"]
Got == [step : {"got"}, beat : Beat]
Looked == [step : {"looked"}, beat : Beat, status : Statuses]
AgedProc(state) ==
    IF state.step = "idle" THEN IdleProc
    ELSE IF state.step = "got" THEN [step |-> "got", beat |-> AgedBeat(state.beat)]
    ELSE [step |-> "looked", beat |-> AgedBeat(state.beat), status |-> state.status]

\* A silence this long has outlived every delay in the monitor.
MaxSilence == StaleTreshold + PassInterval + 3 * Lag + 1

\* After beating for this long, any heartbeat from before is past the stale
\* treshold, a pass has marked it offline, which no later pass writes again, and
\* another heartbeat has been merged since.
SettleTime == StaleTreshold + PassInterval + BeatInterval + 5 * Lag + 3

TypeOK ==
    /\ storage \in BOOLEAN
    /\ table \in [Service -> Row]
    /\ inbox \in Seq(Beat)
    /\ proc \in [Processor -> {IdleProc} \union Got \union Looked]
    /\ updater \in {"waiting", "passing"}
    /\ elapsed \in 0..(PassInterval + Lag)
    /\ listed \in [Service -> Listing]
    /\ beating \in SUBSET Service
    /\ silent \in [Service -> 0..MaxSilence]
    /\ steady \in [Service -> 0..SettleTime]
    /\ restarts \in 0..MaxRestarts

\* The children of the supervisor in their order: subscriber, storage, updater.
\* The subscriber connects on its own time and may be handling messages before
\* the table exists.
Init ==
    /\ storage = FALSE
    /\ table = [s \in Service |-> NoRow]
    /\ inbox = <<>>
    /\ proc = [p \in Processor |-> IdleProc]
    /\ updater = "waiting"
    /\ elapsed = 0
    /\ listed = [s \in Service |-> NotListed]
    /\ beating = {}
    /\ silent = [s \in Service |-> MaxSilence]
    /\ steady = [s \in Service |-> 0]
    /\ restarts = 0

-------------------------------------------------------------------------------
(* The services and the broker.                                              *)

\* A publisher has connected, or the queue is bound; the next heartbeat is due.
StartBeating(s) ==
    /\ s \notin beating
    /\ beating' = beating \union {s}
    /\ UNCHANGED <<monitorVars, inbox, silent, steady, restarts>>

\* The service stops, or its publisher loses its connection.
StopBeating(s) ==
    /\ s \in beating
    /\ beating' = beating \ {s}
    /\ steady' = [steady EXCEPT ![s] = 0]
    /\ UNCHANGED <<monitorVars, inbox, silent, restarts>>

SendBeat(s) ==
    /\ s \in beating
    /\ Len(inbox) < MaxInbox
    /\ inbox' = Append(inbox, [service |-> s, age |-> 0])
    /\ silent' = [silent EXCEPT ![s] = 0]
    /\ UNCHANGED <<monitorVars, beating, steady, restarts>>

-------------------------------------------------------------------------------
(* HealthSubscriber.handle_message, run by each processor for one message at *)
(* a time.                                                                   *)

TakeBeat(p) ==
    /\ proc[p] = IdleProc
    /\ inbox # <<>>
    /\ proc' = [proc EXCEPT ![p] = [step |-> "got", beat |-> Head(inbox)]]
    /\ inbox' = Tail(inbox)
    /\ UNCHANGED <<storage, table, updater, elapsed, listed, beating, silent, steady, restarts>>

\* Mutant: no default message.
ExistingStatusRaw(s) == table[s].status

\* The default message stands in for a missing row: it is offline.
ExistingStatus(s) == IF Present(table[s]) THEN table[s].status ELSE "offline"

LookUp(p) ==
    /\ proc[p].step = "got"
    /\ storage
    /\ proc' = [proc EXCEPT ![p] = [step |-> "looked", beat |-> proc[p].beat,
                                    status |-> ExistingStatus(proc[p].beat.service)]]
    /\ UNCHANGED <<storage, table, updater, elapsed, listed, inbox, beating, silent, steady, restarts>>

\* Without the table the lookup raises: the message fails and the broker drops
\* it or delivers it again.
LookUpRaises(p) ==
    /\ proc[p].step = "got"
    /\ ~storage
    /\ proc' = [proc EXCEPT ![p] = IdleProc]
    /\ inbox' \in {inbox, <<proc[p].beat>> \o inbox}
    /\ UNCHANGED <<storage, table, updater, elapsed, listed, beating, silent, steady, restarts>>

\* Mutant: the merge keeps the old timestamp where there is one.
MergedKeepsOld(p) ==
    [age |-> IF Present(table[proc[p].beat.service])
             THEN table[proc[p].beat.service].age ELSE proc[p].beat.age,
     status |-> proc[p].status]

\* Mutant: the row is stamped with the time of its arrival.
MergedOnArrival(p) == [age |-> 0, status |-> proc[p].status]

\* Map.merge: the new timestamp always wins, even if it is older than the one
\* in the table; the message has no status, so the looked-up one stays.
Merged(p) == [age |-> proc[p].beat.age, status |-> proc[p].status]

Insert(p) ==
    /\ proc[p].step = "looked"
    /\ table' = [table EXCEPT ![proc[p].beat.service] = Merged(p)]
    /\ proc' = [proc EXCEPT ![p] = IdleProc]
    /\ UNCHANGED <<storage, updater, elapsed, listed, inbox, beating, silent, steady, restarts>>

-------------------------------------------------------------------------------
(* StatusUpdater.                                                            *)

\* Mutant: the last case of cond is left out.
NewStatusNeverOffline(age) == IF age <= HealthyTreshold THEN "healthy" ELSE "stale"

NewStatus(age) ==
    IF age <= HealthyTreshold THEN "healthy"
    ELSE IF age <= StaleTreshold THEN "stale" ELSE "offline"

\* now and tab2list: the statuses follow from the ages at this moment.
ListRows ==
    /\ updater = "waiting"
    /\ elapsed >= PassInterval
    /\ storage
    /\ updater' = "passing"
    /\ elapsed' = 0
    /\ listed' = [s \in Service |->
                   IF Present(table[s])
                   THEN [row |-> table[s], verdict |-> NewStatus(table[s].age)]
                   ELSE NotListed]
    /\ UNCHANGED <<storage, table, proc, inbox, beating, silent, steady, restarts>>

\* The listed row is written back with its new status, whatever the table
\* holds by now.
Rewritten(s) == [age |-> listed[s].row.age, status |-> listed[s].verdict]

UpdateRow(s) ==
    /\ Present(listed[s].row)
    /\ table' = IF listed[s].verdict # listed[s].row.status
                THEN [table EXCEPT ![s] = Rewritten(s)] ELSE table
    /\ listed' = [listed EXCEPT ![s] = NotListed]
    /\ UNCHANGED <<storage, proc, updater, elapsed, inbox, beating, silent, steady, restarts>>

\* Mutant: the pass does not schedule the next one.
EndPassForever ==
    /\ updater = "passing"
    /\ \A s \in Service : listed[s] = NotListed
    /\ elapsed' = 0
    /\ UNCHANGED <<storage, table, proc, updater, listed, inbox, beating, silent, steady, restarts>>

\* The pass is over; schedule_recalculation sets the timer again.
EndPass ==
    /\ updater = "passing"
    /\ \A s \in Service : listed[s] = NotListed
    /\ updater' = "waiting"
    /\ elapsed' = 0
    /\ UNCHANGED <<storage, table, proc, listed, inbox, beating, silent, steady, restarts>>

-------------------------------------------------------------------------------
(* Start-up, failures and time.                                              *)

CreateTable ==
    /\ ~storage
    /\ storage' = TRUE
    /\ UNCHANGED <<table, proc, updater, elapsed, listed, inbox, beating, silent, steady, restarts>>

\* The monitor dies and is started again.  The table and the auto-delete queue
\* are gone, and heartbeats are lost until it is declared and bound again.
RestartMonitor ==
    /\ restarts < MaxRestarts
    /\ restarts' = restarts + 1
    /\ storage' = FALSE
    /\ table' = [s \in Service |-> NoRow]
    /\ inbox' = <<>>
    /\ proc' = [p \in Processor |-> IdleProc]
    /\ updater' = "waiting"
    /\ elapsed' = 0
    /\ listed' = [s \in Service |-> NotListed]
    /\ beating' = {}
    /\ steady' = [s \in Service |-> 0]
    /\ UNCHANGED silent

\* The broker goes down and with it every connection and the queue; messages the
\* subscriber has prefetched may still be handled.
LoseBroker ==
    /\ restarts < MaxRestarts
    /\ restarts' = restarts + 1
    /\ \E kept \in 0..Len(inbox) : inbox' = SubSeq(inbox, 1, kept)
    /\ beating' = {}
    /\ steady' = [s \in Service |-> 0]
    /\ UNCHANGED <<monitorVars, silent>>

\* Nothing is later than Lag: a tick waits for what is due.
Prompt ==
    /\ storage
    /\ \A i \in 1..Len(inbox) : inbox[i].age < Lag
    /\ \A p \in Processor : proc[p] # IdleProc => proc[p].beat.age < Lag
    /\ elapsed < IF updater = "waiting" THEN PassInterval + Lag ELSE Lag
    /\ \A s \in beating : silent[s] < BeatInterval

UpTo(bound, n) == IF n < bound THEN n + 1 ELSE bound

Tick ==
    /\ Prompt
    /\ table' = [s \in Service |-> Aged(table[s])]
    /\ inbox' = [i \in 1..Len(inbox) |-> AgedBeat(inbox[i])]
    /\ proc' = [p \in Processor |-> AgedProc(proc[p])]
    /\ elapsed' = elapsed + 1
    /\ listed' = [s \in Service |->
                   [row |-> Aged(listed[s].row), verdict |-> listed[s].verdict]]
    /\ silent' = [s \in Service |-> UpTo(MaxSilence, silent[s])]
    /\ steady' = [s \in Service |-> IF s \in beating THEN UpTo(SettleTime, steady[s]) ELSE 0]
    /\ UNCHANGED <<storage, updater, beating, restarts>>

Next ==
    \/ \E s \in Service : StartBeating(s) \/ StopBeating(s) \/ SendBeat(s) \/ UpdateRow(s)
    \/ \E p \in Processor : TakeBeat(p) \/ LookUp(p) \/ LookUpRaises(p) \/ Insert(p)
    \/ ListRows \/ EndPass \/ CreateTable
    \/ RestartMonitor \/ LoseBroker \/ Tick

Spec == Init /\ [][Next]_vars

\* Handlers and the updater run on, the table is created, time passes, and a
\* publisher that is due publishes.  Services are not obliged to beat.
Fairness ==
    /\ \A p \in Processor : WF_vars(TakeBeat(p) \/ LookUp(p) \/ LookUpRaises(p) \/ Insert(p))
    /\ \A s \in Service : /\ WF_vars(UpdateRow(s))
                          /\ WF_vars(silent[s] >= BeatInterval /\ SendBeat(s))
    /\ WF_vars(ListRows) /\ WF_vars(EndPass) /\ WF_vars(CreateTable) /\ WF_vars(Tick)

FairSpec == Spec /\ Fairness

-------------------------------------------------------------------------------
(* Properties.                                                               *)

\* No row, and nothing on its way into one, is younger than the last heartbeat
\* its service has sent: neither the concurrent merges nor the pass invent a
\* sign of life.
NoneYounger ==
    \A s \in Service :
        LET atMost(age) == age >= silent[s] \/ age = MaxAge IN
        /\ Present(table[s]) => atMost(table[s].age)
        /\ Present(listed[s].row) => atMost(listed[s].row.age)
        /\ \A i \in 1..Len(inbox) : inbox[i].service = s => atMost(inbox[i].age)
        /\ \A p \in Processor : proc[p] # IdleProc /\ proc[p].beat.service = s
                               => atMost(proc[p].beat.age)

\* Merges and the pass overwrite newer rows with older ones.  Two heartbeats and
\* four delays make up for every such loss.
SlackAssumed == HealthyTreshold >= 2 * BeatInterval + 4 * Lag

\* With that slack a service that keeps beating has a row, and its row never gets
\* old enough for a pass to call it late.
NoFalseAlarm ==
  SlackAssumed =>
    \A s \in Service :
        steady[s] = SettleTime =>
            /\ Present(table[s]) /\ table[s].age <= HealthyTreshold
            /\ Present(listed[s].row) => listed[s].verdict = "healthy"

\* Silent for longer than an age of late and every delay of the monitor.
SilentBeyond(late, s) == silent[s] >= late + PassInterval + 3 * Lag

\* A service that has been silent for longer than the healthy treshold and the
\* delays of the monitor is not shown healthy, and for longer than the stale one
\* it is shown offline; no late write brings it back.
SilenceShown ==
    \A s \in Service :
        /\ SilentBeyond(StaleTreshold + 1, s) => table[s].status \in {"none", "offline"}
        /\ Lag <= HealthyTreshold /\ SilentBeyond(HealthyTreshold + 1, s)
              => table[s].status # "healthy"

\* A service that beats for good is shown healthy again and again.
BeatingShown ==
    \A s \in Service : <>[](s \in beating) => []<>(table[s].status = "healthy")

\* The log lines of the pass, "Service #{service_id} did not check in. Marking as
\* stale." and "... as offline.": no newer heartbeat is in the table by then.
MarkedMeansSilent ==
    [][\A s \in Service :
          UpdateRow(s) /\ table'[s] # table[s] /\ listed[s].verdict # "healthy"
          => table[s].age >= listed[s].row.age]_vars
===============================================================================
