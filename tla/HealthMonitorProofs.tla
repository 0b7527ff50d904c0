-------------------------- MODULE HealthMonitorProofs --------------------------
(***************************************************************************)
(* Proofs about the health monitor, for any sets of services and           *)
(* processors and any times that satisfy TimesAssumption.                  *)
(***************************************************************************)
EXTENDS HealthMonitor, SequenceTheorems, TLAPS

-------------------------------------------------------------------------------
(* Ages and rows.                                                            *)

LEMMA Times ==
    /\ PassInterval \in Nat /\ BeatInterval \in Nat /\ Lag \in Nat
    /\ PassInterval > 0 /\ BeatInterval > 0 /\ Lag > 0
    /\ HealthyTreshold \in Nat /\ StaleTreshold \in Nat /\ MaxRestarts \in Nat
    /\ HealthyTreshold < StaleTreshold /\ Lag <= StaleTreshold
    /\ MaxInbox \in Nat
BY TimesAssumption

LEMMA OlderFacts ==
    ASSUME NEW age \in Age
    PROVE  Older(age) \in Age /\ Older(age) >= age /\ (Older(age) = age + 1 \/ Older(age) = MaxAge)
BY Times DEF Older, Age, MaxAge

LEMMA UpToFacts ==
    ASSUME NEW bound \in Nat, NEW n \in 0..bound
    PROVE  UpTo(bound, n) \in 0..bound /\ UpTo(bound, n) >= n /\ UpTo(bound, n) <= n + 1
BY DEF UpTo

LEMMA RowFacts ==
    ASSUME NEW row \in Row
    PROVE  /\ row.age \in Age
           /\ Present(row) => row.status \in Statuses
           /\ ~Present(row) => row = NoRow
BY Times DEF Row, NoRow, Age, MaxAge, Present, Statuses

LEMMA NewRow ==
    ASSUME NEW age \in Age, NEW status \in Statuses
    PROVE  [age |-> age, status |-> status] \in Row /\ Present([age |-> age, status |-> status])
BY DEF Row, Present, Statuses

\* A row grows older and keeps its status.
LEMMA AgedRow ==
    ASSUME NEW row \in Row
    PROVE  /\ Aged(row) \in Row
           /\ Aged(row).age = Older(row.age)
           /\ Aged(row).status = row.status
           /\ Present(Aged(row)) <=> Present(row)
<1>1. CASE ~Present(row)
    BY <1>1, Times, RowFacts DEF NoRow, Row, Older, MaxAge, Aged, Present
<1>2. CASE Present(row)
    <2>1. Older(row.age) \in Age
        BY OlderFacts, RowFacts
    <2>. QED BY <1>2, <2>1, NewRow, RowFacts DEF Aged, Present
<1>. QED BY <1>1, <1>2

LEMMA AgedBeatFacts ==
    ASSUME NEW beat \in Beat, beat.age < Lag
    PROVE  /\ AgedBeat(beat) \in Beat
           /\ AgedBeat(beat).service = beat.service
           /\ AgedBeat(beat).age = beat.age + 1
BY Times DEF Beat, AgedBeat

LEMMA BeatFacts ==
    ASSUME NEW beat \in Beat
    PROVE  beat.service \in Service /\ beat.age \in 0..Lag /\ beat.age \in Age
BY Times DEF Beat, Age, MaxAge

ProcState == {IdleProc} \union Got \union Looked

LEMMA ProcFacts ==
    ASSUME NEW state \in ProcState
    PROVE  /\ state # IdleProc <=> state \in Got \/ state \in Looked
           /\ state # IdleProc => state.beat \in Beat
           /\ state.step = "got" => state \in Got
           /\ state.step = "looked" => state \in Looked /\ state.status \in Statuses
           /\ state.step \in {"got", "looked"} <=> state # IdleProc
BY DEF ProcState, IdleProc, Got, Looked

\* Time leaves the step, the status and the service of a processor's message.
LEMMA AgedProcFacts ==
    ASSUME NEW state \in ProcState, state # IdleProc => state.beat.age < Lag
    PROVE  /\ AgedProc(state) \in ProcState
           /\ AgedProc(state) # IdleProc <=> state # IdleProc
           /\ state # IdleProc => AgedProc(state).beat = AgedBeat(state.beat)
<1>1. CASE state = IdleProc
    BY <1>1 DEF AgedProc, IdleProc, ProcState
<1>2. CASE state \in Got
    <2>1. AgedBeat(state.beat) \in Beat /\ state.step = "got"
        BY <1>2, ProcFacts, AgedBeatFacts DEF Got, IdleProc
    <2>2. AgedProc(state) = [step |-> "got", beat |-> AgedBeat(state.beat)]
        BY <2>1 DEF AgedProc
    <2>. QED BY <2>1, <2>2, <1>2 DEF Got, IdleProc, ProcState
<1>3. CASE state \in Looked
    <2>1. AgedBeat(state.beat) \in Beat /\ state.step = "looked" /\ state.status \in Statuses
        BY <1>3, ProcFacts, AgedBeatFacts DEF Looked, IdleProc
    <2>2. AgedProc(state) = [step |-> "looked", beat |-> AgedBeat(state.beat), status |-> state.status]
        BY <2>1 DEF AgedProc
    <2>. QED BY <2>1, <2>2, <1>3 DEF Looked, IdleProc, ProcState
<1>. QED BY <1>1, <1>2, <1>3 DEF ProcState

LEMMA ListingFacts ==
    ASSUME NEW entry \in Listing
    PROVE  /\ entry.row \in Row
           /\ Present(entry.row) => entry.verdict \in Statuses
           /\ entry = [row |-> entry.row, verdict |-> entry.verdict]
BY DEF Listing, NotListed, Row, Present, NoRow

LEMMA NewStatusFacts ==
    ASSUME NEW age \in Age
    PROVE  NewStatus(age) \in Statuses /\ (age = MaxAge => NewStatus(age) = "offline")
BY Times DEF NewStatus, Statuses, Age, MaxAge

-------------------------------------------------------------------------------
(* Type correctness.                                                         *)

LEMMA TypeFacts ==
    ASSUME TypeOK
    PROVE  /\ \A s \in Service : table[s] \in Row /\ listed[s] \in Listing /\ listed[s].row \in Row
           /\ \A p \in Processor : proc[p] \in ProcState
           /\ \A i \in 1..Len(inbox) : inbox[i] \in Beat
           /\ inbox \in Seq(Beat) /\ Len(inbox) \in Nat
BY ElementOfSeq, LenProperties, ListingFacts DEF TypeOK, ProcState

LEMMA InitType == Init => TypeOK
<1>. SUFFICES ASSUME Init PROVE TypeOK
    OBVIOUS
<1>1. table \in [Service -> Row] /\ listed \in [Service -> Listing] /\ inbox \in Seq(Beat)
    BY EmptySeq DEF Init, Row, Listing
<1>2. silent \in [Service -> 0..MaxSilence] /\ steady \in [Service -> 0..SettleTime]
    BY Times DEF Init, MaxSilence, SettleTime
<1>3. proc \in [Processor -> {IdleProc} \union Got \union Looked]
    BY DEF Init
<1>4. elapsed \in 0..(PassInterval + Lag) /\ restarts \in 0..MaxRestarts
    BY Times DEF Init
<1>5. storage \in BOOLEAN /\ updater \in {"waiting", "passing"} /\ beating \in SUBSET Service
    BY DEF Init
<1>. QED BY <1>1, <1>2, <1>3, <1>4, <1>5 DEF TypeOK

\* Queue operations keep the queue a sequence of heartbeats.
LEMMA InboxSteps ==
    ASSUME TypeOK
    PROVE  /\ \A s \in Service : Append(inbox, [service |-> s, age |-> 0]) \in Seq(Beat)
           /\ inbox # <<>> => Head(inbox) \in Beat /\ Tail(inbox) \in Seq(Beat)
           /\ \A beat \in Beat : <<beat>> \o inbox \in Seq(Beat)
           /\ \A kept \in 0..Len(inbox) : SubSeq(inbox, 1, kept) \in Seq(Beat)
<1>1. inbox \in Seq(Beat)
    BY DEF TypeOK
<1>2. \A s \in Service : [service |-> s, age |-> 0] \in Beat
    BY Times DEF Beat
<1>3. \A beat \in Beat : <<beat>> \in Seq(Beat)
    OBVIOUS
<1>4. ASSUME NEW kept \in 0..Len(inbox) PROVE SubSeq(inbox, 1, kept) \in Seq(Beat)
    <2>1. kept = 0 => SubSeq(inbox, 1, kept) = <<>>
        BY <1>1, SubSeqEmpty
    <2>2. kept # 0 => SubSeq(inbox, 1, kept) \in Seq(Beat)
        BY <1>1, SubSeqProperties, LenProperties, ElementOfSeq
    <2>. QED BY <2>1, <2>2, EmptySeq
<1>5. \A beat \in Beat : <<beat>> \o inbox \in Seq(Beat)
    BY <1>1, <1>3, ConcatProperties
<1>. QED BY <1>1, <1>2, <1>4, <1>5, AppendProperties, HeadTailProperties

LEMMA StepType ==
    ASSUME TypeOK, [Next]_vars
    PROVE  TypeOK'
<1>. USE Times
<1>1. ASSUME NEW s \in Service, StartBeating(s) PROVE TypeOK'
    BY <1>1 DEF TypeOK, StartBeating, monitorVars
<1>2. ASSUME NEW s \in Service, StopBeating(s) PROVE TypeOK'
    BY <1>2 DEF TypeOK, StopBeating, monitorVars, SettleTime
<1>3. ASSUME NEW s \in Service, SendBeat(s) PROVE TypeOK'
    <2>1. inbox' \in Seq(Beat)
        BY <1>3, InboxSteps DEF SendBeat
    <2>. QED BY <1>3, <2>1 DEF TypeOK, SendBeat, monitorVars, MaxSilence
<1>4. ASSUME NEW p \in Processor, TakeBeat(p) PROVE TypeOK'
    <2>1. inbox' \in Seq(Beat) /\ proc'[p] \in Got
        BY <1>4, InboxSteps DEF TakeBeat, TypeOK, Got
    <2>. QED BY <1>4, <2>1 DEF TypeOK, TakeBeat
<1>5. ASSUME NEW p \in Processor, LookUp(p) PROVE TypeOK'
    <2>1. proc[p].beat \in Beat /\ proc[p].beat.service \in Service
        BY <1>5, TypeFacts, ProcFacts, BeatFacts DEF LookUp
    <2>2. ExistingStatus(proc[p].beat.service) \in Statuses
        BY <2>1, TypeFacts, RowFacts DEF ExistingStatus, Statuses
    <2>3. proc'[p] \in Looked
        BY <1>5, <2>1, <2>2 DEF LookUp, TypeOK, Looked
    <2>. QED BY <1>5, <2>3 DEF TypeOK, LookUp
<1>6. ASSUME NEW p \in Processor, LookUpRaises(p) PROVE TypeOK'
    <2>1. proc[p].beat \in Beat
        BY <1>6, TypeFacts, ProcFacts DEF LookUpRaises
    <2>2. inbox' \in Seq(Beat)
        BY <1>6, <2>1, InboxSteps DEF LookUpRaises, TypeOK
    <2>. QED BY <1>6, <2>2 DEF TypeOK, LookUpRaises
<1>7. ASSUME NEW p \in Processor, Insert(p) PROVE TypeOK'
    <2>1. Merged(p) \in Row
        BY <1>7, TypeFacts, ProcFacts, BeatFacts, NewRow DEF Insert, Merged
    <2>. QED BY <1>7, <2>1 DEF TypeOK, Insert
<1>8. ASSUME ListRows PROVE TypeOK'
    <2>1. ASSUME NEW s \in Service PROVE listed'[s] \in Listing
        <3>1. NewStatus(table[s].age) \in Statuses
            BY TypeFacts, RowFacts, NewStatusFacts
        <3>. QED BY <1>8, <3>1, TypeFacts DEF ListRows, Listing
    <2>2. listed' \in [Service -> Listing]
        BY <1>8, <2>1 DEF ListRows
    <2>. QED BY <1>8, <2>2 DEF TypeOK, ListRows
<1>9. ASSUME NEW s \in Service, UpdateRow(s) PROVE TypeOK'
    <2>1. Rewritten(s) \in Row
        BY <1>9, TypeFacts, ListingFacts, RowFacts, NewRow DEF UpdateRow, Rewritten
    <2>. QED BY <1>9, <2>1 DEF TypeOK, UpdateRow, Listing
<1>10. ASSUME EndPass PROVE TypeOK'
    BY <1>10 DEF TypeOK, EndPass
<1>11. ASSUME CreateTable PROVE TypeOK'
    BY <1>11 DEF TypeOK, CreateTable
<1>12. ASSUME RestartMonitor PROVE TypeOK'
    <2>1. table' \in [Service -> Row] /\ listed' \in [Service -> Listing] /\ inbox' \in Seq(Beat)
        BY <1>12, EmptySeq DEF RestartMonitor, Row, Listing
    <2>2. steady' \in [Service -> 0..SettleTime]
        BY <1>12 DEF RestartMonitor, SettleTime
    <2>3. proc' \in [Processor -> {IdleProc} \union Got \union Looked]
        BY <1>12 DEF RestartMonitor
    <2>4. storage' \in BOOLEAN /\ updater' \in {"waiting", "passing"}
        BY <1>12 DEF RestartMonitor
    <2>5. restarts' \in 0..MaxRestarts /\ elapsed' \in 0..(PassInterval + Lag)
        BY <1>12 DEF TypeOK, RestartMonitor
    <2>6. beating' \in SUBSET Service /\ silent' \in [Service -> 0..MaxSilence]
        BY <1>12 DEF TypeOK, RestartMonitor
    <2>. QED BY <2>1, <2>2, <2>3, <2>4, <2>5, <2>6 DEF TypeOK
<1>13. ASSUME LoseBroker PROVE TypeOK'
    <2>1. inbox' \in Seq(Beat)
        BY <1>13, InboxSteps DEF LoseBroker
    <2>. QED BY <1>13, <2>1 DEF TypeOK, LoseBroker, monitorVars, SettleTime
<1>14. ASSUME Tick PROVE TypeOK'
    <2>1. table' \in [Service -> Row]
        BY <1>14, TypeFacts, AgedRow DEF Tick
    <2>2. inbox' \in Seq(Beat)
        <3>1. \A i \in 1..Len(inbox) : AgedBeat(inbox[i]) \in Beat
            BY <1>14, TypeFacts, AgedBeatFacts DEF Tick, Prompt
        <3>. QED BY <1>14, <3>1, TypeFacts DEF Tick
    <2>3. proc' \in [Processor -> {IdleProc} \union Got \union Looked]
        <3>1. ASSUME NEW p \in Processor PROVE AgedProc(proc[p]) \in ProcState
            <4>1. proc[p] # IdleProc => proc[p].beat.age < Lag
                BY <1>14 DEF Tick, Prompt
            <4>. QED BY <4>1, TypeFacts, AgedProcFacts
        <3>. QED BY <1>14, <3>1 DEF Tick, ProcState
    <2>4. elapsed' \in 0..(PassInterval + Lag)
        BY <1>14 DEF TypeOK, Tick, Prompt
    <2>5. listed' \in [Service -> Listing]
        <3>1. ASSUME NEW s \in Service PROVE listed'[s] \in Listing
            <4>1. Aged(listed[s].row) \in Row
                BY TypeFacts, AgedRow
            <4>2. CASE listed[s] = NotListed
                BY <1>14, <4>2 DEF Tick, NotListed, NoRow, Aged, Older, MaxAge, Listing
            <4>3. CASE listed[s] \in [row : Row, verdict : Statuses]
                BY <1>14, <4>1, <4>3 DEF Tick, Listing
            <4>. QED BY <4>2, <4>3, TypeFacts DEF Listing
        <3>. QED BY <1>14, <3>1 DEF Tick
    <2>6. silent' \in [Service -> 0..MaxSilence]
        <3>1. MaxSilence \in Nat
            BY DEF MaxSilence
        <3>. QED BY <1>14, <3>1, UpToFacts DEF TypeOK, Tick
    <2>7. steady' \in [Service -> 0..SettleTime]
        <3>1. SettleTime \in Nat
            BY DEF SettleTime
        <3>. QED BY <1>14, <3>1, UpToFacts DEF TypeOK, Tick
    <2>. QED BY <1>14, <2>1, <2>2, <2>3, <2>4, <2>5, <2>6, <2>7 DEF TypeOK, Tick
<1>15. ASSUME UNCHANGED vars PROVE TypeOK'
    BY <1>15 DEF TypeOK, vars, monitorVars
<1>. QED
    BY <1>1, <1>2, <1>3, <1>4, <1>5, <1>6, <1>7, <1>8, <1>9, <1>10, <1>11, <1>12,
       <1>13, <1>14, <1>15 DEF Next

\* The monitor's state always has its type.
THEOREM TypeCorrect == Spec => []TypeOK
BY InitType, StepType, PTL DEF Spec

-------------------------------------------------------------------------------
(* No row is younger than its service's last heartbeat.                      *)

AtMost(s, age) == age >= silent[s] \/ age = MaxAge

\* The invariant, one part for each place a heartbeat can be in.
RowsOld == \A s \in Service : Present(table[s]) => AtMost(s, table[s].age)
ListedOld == \A s \in Service : Present(listed[s].row) => AtMost(s, listed[s].row.age)
InboxOld == \A i \in 1..Len(inbox) : AtMost(inbox[i].service, inbox[i].age)
ProcsOld ==
    \A p \in Processor : proc[p] # IdleProc => AtMost(proc[p].beat.service, proc[p].beat.age)

AllOld == RowsOld /\ ListedOld /\ InboxOld /\ ProcsOld

LEMMA OldMeansNoneYounger == AllOld => NoneYounger
BY DEF AllOld, RowsOld, ListedOld, InboxOld, ProcsOld, NoneYounger, AtMost

LEMMA InitOld == Init => AllOld
BY DEF Init, AllOld, RowsOld, ListedOld, InboxOld, ProcsOld, Present, NoRow, NotListed

\* A step that leaves a part's variables and the silences alone keeps the part.
LEMMA OldKept ==
    /\ RowsOld /\ UNCHANGED <<table, silent>> => RowsOld'
    /\ ListedOld /\ UNCHANGED <<listed, silent>> => ListedOld'
    /\ InboxOld /\ UNCHANGED <<inbox, silent>> => InboxOld'
    /\ ProcsOld /\ UNCHANGED <<proc, silent>> => ProcsOld'
BY DEF RowsOld, ListedOld, InboxOld, ProcsOld, AtMost

LEMMA StepOld ==
    ASSUME TypeOK, AllOld, [Next]_vars
    PROVE  AllOld'
<1>. USE DEF AllOld
<1>1. ASSUME NEW s \in Service, StartBeating(s) \/ StopBeating(s) PROVE AllOld'
    BY <1>1, OldKept DEF StartBeating, StopBeating, monitorVars
<1>2. ASSUME NEW s \in Service, SendBeat(s) PROVE AllOld'
    <2>1. \A t \in Service : silent'[t] = silent[t] \/ silent'[t] = 0
        BY <1>2 DEF SendBeat, TypeOK
    <2>2. \A t \in Service, age \in Nat : AtMost(t, age) => AtMost(t, age)'
        BY <2>1 DEF AtMost
    <2>3. RowsOld' /\ ListedOld'
        BY <1>2, <2>2, TypeFacts, RowFacts DEF SendBeat, monitorVars, RowsOld, ListedOld, Age
    <2>4. InboxOld'
        <3>1. inbox \in Seq(Beat) /\ [service |-> s, age |-> 0] \in Beat
            BY Times DEF TypeOK, Beat
        <3>2. \A i \in 1..Len(inbox') :
                inbox'[i] = [service |-> s, age |-> 0] \/ (i \in 1..Len(inbox) /\ inbox'[i] = inbox[i])
            BY <1>2, <3>1, AppendProperties, LenProperties DEF SendBeat
        <3>3. AtMost(s, 0)'
            BY <1>2 DEF SendBeat, AtMost, TypeOK
        <3>. QED BY <2>2, <3>2, <3>3, TypeFacts, BeatFacts DEF InboxOld, Age
    <2>5. ProcsOld'
        BY <1>2, <2>2, TypeFacts, ProcFacts, BeatFacts DEF SendBeat, monitorVars, ProcsOld, Age
    <2>. QED BY <2>3, <2>4, <2>5
<1>3. ASSUME NEW p \in Processor, TakeBeat(p) PROVE AllOld'
    <2>1. inbox \in Seq(Beat) /\ inbox # <<>>
        BY <1>3 DEF TypeOK, TakeBeat
    <2>2. Head(inbox) = inbox[1] /\ 1 \in 1..Len(inbox)
        BY <2>1, HeadTailProperties, LenProperties, EmptySeq
    <2>3. ProcsOld'
        BY <1>3, <2>2 DEF TakeBeat, TypeOK, ProcsOld, InboxOld, AtMost, IdleProc
    <2>4. \A i \in 1..Len(inbox') : i + 1 \in 1..Len(inbox) /\ inbox'[i] = inbox[i + 1]
        BY <1>3, <2>1, HeadTailProperties, LenProperties DEF TakeBeat
    <2>5. InboxOld'
        BY <1>3, <2>4 DEF TakeBeat, InboxOld, AtMost
    <2>. QED BY <1>3, <2>3, <2>5, OldKept DEF TakeBeat
<1>4. ASSUME NEW p \in Processor, LookUp(p) PROVE AllOld'
    <2>1. ProcsOld'
        <3>1. proc'[p].beat = proc[p].beat /\ proc[p] # IdleProc
            BY <1>4 DEF LookUp, TypeOK, IdleProc
        <3>. QED BY <1>4, <3>1 DEF LookUp, TypeOK, ProcsOld, AtMost
    <2>. QED BY <1>4, <2>1, OldKept DEF LookUp
<1>5. ASSUME NEW p \in Processor, LookUpRaises(p) PROVE AllOld'
    <2>1. proc[p] # IdleProc /\ proc[p].beat \in Beat /\ inbox \in Seq(Beat)
        BY <1>5, TypeFacts, ProcFacts DEF LookUpRaises
    <2>2. CASE inbox' = inbox
        BY <1>5, <2>2 DEF LookUpRaises, TypeOK, ProcsOld, InboxOld, RowsOld, ListedOld, AtMost
    <2>3. CASE inbox' = <<proc[p].beat>> \o inbox
        <3>1. <<proc[p].beat>> \in Seq(Beat) /\ Len(<<proc[p].beat>>) = 1
            BY <2>1
        <3>2. \A i \in 1..Len(inbox') :
                inbox'[i] = proc[p].beat \/ (i - 1 \in 1..Len(inbox) /\ inbox'[i] = inbox[i - 1])
            BY <2>1, <2>3, <3>1, ConcatProperties, LenProperties
        <3>3. InboxOld'
            BY <1>5, <2>1, <3>2 DEF LookUpRaises, InboxOld, ProcsOld, AtMost
        <3>. QED BY <1>5, <3>3 DEF LookUpRaises, TypeOK, ProcsOld, RowsOld, ListedOld, AtMost
    <2>. QED BY <1>5, <2>2, <2>3 DEF LookUpRaises
<1>6. ASSUME NEW p \in Processor, Insert(p) PROVE AllOld'
    <2>1. proc[p] # IdleProc
        BY <1>6, TypeFacts, ProcFacts DEF Insert
    <2>2. RowsOld'
        BY <1>6, <2>1 DEF Insert, Merged, TypeOK, RowsOld, ProcsOld, AtMost
    <2>3. ProcsOld'
        BY <1>6 DEF Insert, TypeOK, ProcsOld, AtMost
    <2>. QED BY <1>6, <2>2, <2>3, OldKept DEF Insert
<1>7. ASSUME ListRows PROVE AllOld'
    <2>1. ListedOld'
        BY <1>7 DEF ListRows, ListedOld, RowsOld, AtMost, NotListed, NoRow, Present
    <2>. QED BY <1>7, <2>1, OldKept DEF ListRows
<1>8. ASSUME NEW s \in Service, UpdateRow(s) PROVE AllOld'
    <2>1. RowsOld'
        BY <1>8 DEF UpdateRow, Rewritten, TypeOK, RowsOld, ListedOld, AtMost
    <2>2. ListedOld'
        BY <1>8 DEF UpdateRow, TypeOK, ListedOld, AtMost, NotListed, NoRow, Present
    <2>. QED BY <1>8, <2>1, <2>2, OldKept DEF UpdateRow
<1>9. ASSUME EndPass \/ CreateTable PROVE AllOld'
    BY <1>9, OldKept DEF EndPass, CreateTable
<1>10. ASSUME RestartMonitor PROVE AllOld'
    BY <1>10, EmptySeq DEF RestartMonitor, RowsOld, ListedOld, InboxOld, ProcsOld, Present, NoRow, NotListed
<1>11. ASSUME LoseBroker PROVE AllOld'
    <2>1. PICK kept \in 0..Len(inbox) : inbox' = SubSeq(inbox, 1, kept)
        BY <1>11 DEF LoseBroker
    <2>2. \A i \in 1..Len(inbox') : i \in 1..Len(inbox) /\ inbox'[i] = inbox[i]
        BY <2>1, TypeFacts, SubSeqProperties, LenProperties
    <2>3. InboxOld'
        BY <1>11, <2>2 DEF LoseBroker, InboxOld, AtMost
    <2>. QED BY <1>11, <2>3, OldKept DEF LoseBroker, monitorVars
<1>12. ASSUME Tick PROVE AllOld'
    <2>1. ASSUME NEW s \in Service PROVE silent'[s] <= silent[s] + 1 /\ silent'[s] \in Nat /\ silent[s] \in Nat
        BY <1>12, UpToFacts, Times DEF Tick, TypeOK, MaxSilence
    <2>2. ASSUME NEW s \in Service, NEW age \in Age, AtMost(s, age) PROVE AtMost(s, Older(age))'
        BY <2>1, <2>2, OlderFacts, Times DEF AtMost, Age, MaxAge
    <2>3. RowsOld' /\ ListedOld'
        BY <1>12, <2>2, TypeFacts, RowFacts, AgedRow DEF Tick, RowsOld, ListedOld
    <2>4. ASSUME NEW beat \in Beat, beat.age < Lag, AtMost(beat.service, beat.age)
          PROVE  AtMost(AgedBeat(beat).service, AgedBeat(beat).age)'
        BY <2>1, <2>4, BeatFacts, AgedBeatFacts, Times DEF AtMost, MaxAge
    <2>5. InboxOld'
        BY <1>12, <2>4, TypeFacts DEF Tick, Prompt, InboxOld
    <2>6. ProcsOld'
        BY <1>12, <2>4, TypeFacts, ProcFacts, AgedProcFacts DEF Tick, Prompt, ProcsOld
    <2>. QED BY <2>3, <2>5, <2>6
<1>13. ASSUME UNCHANGED vars PROVE AllOld'
    BY <1>13, OldKept DEF vars, monitorVars
<1>. QED
    BY <1>1, <1>2, <1>3, <1>4, <1>5, <1>6, <1>7, <1>8, <1>9, <1>10, <1>11, <1>12, <1>13 DEF Next

LEMMA AlwaysOld == Spec => []AllOld
BY InitOld, StepOld, TypeCorrect, PTL DEF Spec

\* Concurrent merges and the pass may bring back an older heartbeat, but never
\* one that the service has not sent.
THEOREM NoneEverYounger == Spec => []NoneYounger
BY AlwaysOld, OldMeansNoneYounger, PTL

-------------------------------------------------------------------------------
(* A long silence is shown.  Each part of the invariant says how long a      *)
(* service has to be silent for the monitor to be certain about it, for each *)
(* age from which on a row is late: past the healthy or the stale treshold.  *)

LateAges == {late \in {HealthyTreshold + 1, MaxAge} : late > Lag}
Told(late) == IF late = MaxAge THEN {"none", "offline"} ELSE {"none", "stale", "offline"}
Shown(late, s) == table[s].status \in Told(late)
InPass(s) == Present(listed[s].row)

PassIsPrompt ==
    /\ updater = "passing" => elapsed <= Lag
    /\ \A s \in Service : InPass(s) => updater = "passing"

\* Between two passes the last one has seen a service that is silent for so long.
ShownWaiting ==
    \A late \in LateAges, s \in Service :
        updater = "waiting" /\ silent[s] >= late + Lag + elapsed => Shown(late, s)

\* The pass has seen it, once it is done with its row.
ShownByPass ==
    \A late \in LateAges, s \in Service :
        updater = "passing" /\ ~InPass(s) /\ silent[s] >= late + elapsed => Shown(late, s)

\* The pass knows what to write, and nothing has touched the row since.
PassKnows ==
    \A late \in LateAges, s \in Service :
        InPass(s) /\ silent[s] >= late + elapsed =>
            listed[s].verdict \in Told(late) /\ table[s].status = listed[s].row.status

\* The previous pass has seen it.
ShownBefore ==
    \A late \in LateAges, s \in Service :
        InPass(s) /\ silent[s] >= late + PassInterval + 2 * Lag + elapsed => Shown(late, s)

SilenceKnown == PassIsPrompt /\ ShownWaiting /\ ShownByPass /\ PassKnows /\ ShownBefore

LEMMA LateAgeFacts ==
    ASSUME NEW late \in LateAges
    PROVE  late \in Nat /\ late > Lag /\ late <= MaxAge /\ late > HealthyTreshold
BY Times DEF LateAges, MaxAge

LEMMA LateStatus ==
    ASSUME NEW late \in LateAges, NEW age \in Age, age >= late
    PROVE  NewStatus(age) \in Told(late)
BY Times, LateAgeFacts DEF LateAges, NewStatus, Told, Age, MaxAge

SilenceTypes ==
    /\ MaxAge \in Nat /\ MaxAge > Lag /\ elapsed \in Nat /\ elapsed <= PassInterval + Lag
    /\ \A s \in Service : silent[s] \in Nat /\ silent[s] <= MaxSilence

LEMMA SilenceTypesHold == TypeOK => SilenceTypes
BY Times DEF TypeOK, SilenceTypes, MaxAge, MaxSilence

LEMMA KnownMeansShown == TypeOK /\ SilenceKnown => SilenceShown
<1>. SUFFICES ASSUME TypeOK, SilenceKnown, NEW s \in Service
              PROVE  /\ SilentBeyond(StaleTreshold + 1, s) => table[s].status \in {"none", "offline"}
                     /\ Lag <= HealthyTreshold /\ SilentBeyond(HealthyTreshold + 1, s)
                           => table[s].status # "healthy"
    BY DEF SilenceShown
<1>1. ASSUME NEW late \in LateAges, SilentBeyond(late, s)
      PROVE  Shown(late, s)
    <2>1. /\ elapsed \in Nat /\ elapsed <= PassInterval + Lag
          /\ silent[s] \in Nat /\ silent[s] >= late + PassInterval + 3 * Lag
          /\ late \in Nat
        BY <1>1, SilenceTypesHold, LateAgeFacts DEF SilenceTypes, SilentBeyond
    <2>2. CASE updater = "waiting"
        BY <2>1, <2>2, Times DEF SilenceKnown, ShownWaiting
    <2>3. CASE updater = "passing"
        <3>1. elapsed <= Lag
            BY <2>3 DEF SilenceKnown, PassIsPrompt
        <3>2. CASE InPass(s)
            BY <2>1, <3>1, <3>2, Times DEF SilenceKnown, ShownBefore
        <3>3. CASE ~InPass(s)
            BY <2>1, <2>3, <3>1, <3>3, Times DEF SilenceKnown, ShownByPass
        <3>. QED BY <3>2, <3>3
    <2>. QED BY <2>2, <2>3 DEF TypeOK
<1>2. MaxAge \in LateAges /\ (Lag <= HealthyTreshold => HealthyTreshold + 1 \in LateAges)
    BY Times DEF LateAges, MaxAge
<1>3. "healthy" \notin Told(HealthyTreshold + 1) /\ Told(MaxAge) = {"none", "offline"}
    BY DEF Told
<1>. QED BY <1>1, <1>2, <1>3 DEF Shown, MaxAge

LEMMA InitKnown == Init => SilenceKnown
BY DEF Init, SilenceKnown, PassIsPrompt, ShownWaiting, ShownByPass, PassKnows, ShownBefore,
       Shown, Told, InPass, Present, NotListed, NoRow

\* Only a service that has just sent a heartbeat gets one merged.
LEMMA InsertMeansHeard ==
    ASSUME TypeOK, AllOld, NEW p \in Processor, Insert(p)
    PROVE  silent[proc[p].beat.service] <= Lag
<1>1. proc[p] # IdleProc /\ proc[p].beat \in Beat
    BY TypeFacts, ProcFacts DEF Insert
<1>. QED BY <1>1, BeatFacts, Times, SilenceTypesHold DEF AllOld, ProcsOld, AtMost, SilenceTypes

LEMMA StepKnown ==
    ASSUME TypeOK, AllOld, SilenceKnown, [Next]_vars
    PROVE  SilenceKnown'
<1>. USE DEF SilenceKnown
<1>. USE SilenceTypesHold, Times, LateAgeFacts
\* A step that leaves the monitor alone and shortens silences at most.
<1>1. ASSUME UNCHANGED <<table, updater, elapsed, listed>>,
             \A s \in Service : silent'[s] = silent[s] \/ silent'[s] = 0
      PROVE  SilenceKnown'
    BY <1>1 DEF SilenceTypes, PassIsPrompt, ShownWaiting, ShownByPass, PassKnows, ShownBefore, Shown, InPass
<1>2. ASSUME NEW s \in Service, StartBeating(s) \/ StopBeating(s) PROVE SilenceKnown'
    BY <1>1, <1>2 DEF StartBeating, StopBeating, monitorVars
<1>3. ASSUME NEW s \in Service, SendBeat(s) PROVE SilenceKnown'
    BY <1>1, <1>3 DEF SendBeat, monitorVars, TypeOK
<1>4. ASSUME NEW p \in Processor, TakeBeat(p) \/ LookUp(p) \/ LookUpRaises(p) PROVE SilenceKnown'
    BY <1>1, <1>4 DEF TakeBeat, LookUp, LookUpRaises
<1>5. ASSUME NEW p \in Processor, Insert(p) PROVE SilenceKnown'
    <2>1. \A s \in Service : table'[s] = table[s] \/ silent[s] <= Lag
        BY <1>5, InsertMeansHeard DEF Insert, TypeOK
    <2>. QED BY <1>5, <2>1
             DEF Insert, SilenceTypes, PassIsPrompt, ShownWaiting, ShownByPass, PassKnows, ShownBefore, Shown, InPass
<1>6. ASSUME ListRows PROVE SilenceKnown'
    <2>1. ASSUME NEW late \in LateAges, NEW s \in Service, silent[s] >= late, Present(table[s])
          PROVE  NewStatus(table[s].age) \in Told(late)
        <3>1. table[s].age \in Age /\ table[s].age >= late
            BY <2>1, TypeFacts, RowFacts DEF AllOld, RowsOld, AtMost, SilenceTypes, Age
        <3>. QED BY <3>1, LateStatus
    <2>2. ASSUME NEW s \in Service
          PROVE  /\ InPass(s)' <=> Present(table[s])
                 /\ InPass(s)' => listed'[s] = [row |-> table[s], verdict |-> NewStatus(table[s].age)]
        BY <1>6 DEF ListRows, InPass, NotListed, NoRow, Present
    <2>3. PassIsPrompt' /\ ShownWaiting'
        <3>1. updater' = "passing" /\ elapsed' = 0
            BY <1>6 DEF ListRows
        <3>. QED BY <3>1 DEF PassIsPrompt, ShownWaiting
    <2>4. ShownByPass'
        BY <1>6, <2>2, TypeFacts, RowFacts DEF ListRows, ShownByPass, Shown, Told, Present
    <2>5. PassKnows'
        <3>1. ASSUME NEW late \in LateAges, NEW s \in Service, InPass(s)', silent'[s] >= late + elapsed'
              PROVE  listed'[s].verdict \in Told(late) /\ table'[s].status = listed'[s].row.status
            <4>1. table' = table /\ silent[s] >= late
                BY <1>6, <3>1 DEF ListRows, SilenceTypes
            <4>2. listed'[s] = [row |-> table[s], verdict |-> NewStatus(table[s].age)]
                BY <2>2, <3>1
            <4>3. NewStatus(table[s].age) \in Told(late)
                BY <2>1, <2>2, <3>1, <4>1
            <4>. QED BY <4>1, <4>2, <4>3
        <3>. QED BY <3>1 DEF PassKnows
    <2>6. ShownBefore'
        <3>1. table' = table /\ silent' = silent /\ elapsed' = 0 /\ updater = "waiting"
            BY <1>6 DEF ListRows
        <3>. QED BY <3>1 DEF ShownBefore, ShownWaiting, SilenceTypes, Shown
    <2>. QED BY <2>3, <2>4, <2>5, <2>6
<1>7. ASSUME NEW s \in Service, UpdateRow(s) PROVE SilenceKnown'
    <2>1. /\ ~InPass(s)'
          /\ table'[s] = IF listed[s].verdict # listed[s].row.status THEN Rewritten(s) ELSE table[s]
          /\ \A t \in Service \ {s} : table'[t] = table[t] /\ listed'[t] = listed[t]
          /\ UNCHANGED <<updater, elapsed, silent>>
        BY <1>7 DEF UpdateRow, TypeOK, InPass, NotListed, NoRow, Present
    <2>2. PassIsPrompt'
        BY <2>1 DEF PassIsPrompt, InPass
    <2>3. InPass(s) /\ updater = "passing"
        BY <1>7 DEF UpdateRow, InPass, PassIsPrompt
    <2>4. ShownWaiting'
        BY <2>1, <2>3 DEF ShownWaiting
    <2>5. \A late \in LateAges : silent[s] >= late + elapsed => Shown(late, s)'
        BY <2>1, <2>3 DEF PassKnows, Rewritten, Shown
    <2>6. ShownByPass'
        BY <2>1, <2>5 DEF ShownByPass, Shown, InPass
    <2>7. PassKnows' /\ ShownBefore'
        BY <2>1 DEF PassKnows, ShownBefore, InPass, Shown
    <2>. QED BY <2>2, <2>4, <2>6, <2>7
<1>8. ASSUME EndPass PROVE SilenceKnown'
    <2>1. \A s \in Service : ~InPass(s)
        BY <1>8 DEF EndPass, InPass, NotListed, NoRow, Present
    <2>. QED BY <1>8, <2>1
             DEF EndPass, SilenceTypes, PassIsPrompt, ShownWaiting, ShownByPass, PassKnows, ShownBefore, Shown, InPass
<1>9. ASSUME CreateTable PROVE SilenceKnown'
    BY <1>1, <1>9 DEF CreateTable
<1>10. ASSUME RestartMonitor PROVE SilenceKnown'
    BY <1>10 DEF RestartMonitor, PassIsPrompt, ShownWaiting, ShownByPass, PassKnows, ShownBefore,
                 Shown, Told, InPass, Present, NotListed, NoRow
<1>11. ASSUME LoseBroker PROVE SilenceKnown'
    BY <1>1, <1>11 DEF LoseBroker, monitorVars
<1>12. ASSUME Tick PROVE SilenceKnown'
    <2>1. \A s \in Service : silent'[s] <= silent[s] + 1 /\ silent'[s] \in Nat
        BY <1>12, UpToFacts DEF Tick, TypeOK, MaxSilence
    <2>2. elapsed' = elapsed + 1 /\ updater' = updater /\ (updater = "passing" => elapsed < Lag)
        BY <1>12 DEF Tick, Prompt
    <2>3. ASSUME NEW s \in Service
          PROVE  /\ table'[s].status = table[s].status /\ listed'[s].row.status = listed[s].row.status
                 /\ listed'[s].verdict = listed[s].verdict /\ (InPass(s)' <=> InPass(s))
        BY <1>12, TypeFacts, AgedRow DEF Tick, InPass
    <2>4. PassIsPrompt'
        BY <2>2, <2>3 DEF PassIsPrompt, SilenceTypes
    <2>5. ShownWaiting' /\ ShownByPass'
        BY <2>1, <2>2, <2>3 DEF ShownWaiting, ShownByPass, SilenceTypes, Shown
    <2>6. PassKnows' /\ ShownBefore'
        BY <2>1, <2>2, <2>3 DEF PassKnows, ShownBefore, SilenceTypes, Shown
    <2>. QED BY <2>4, <2>5, <2>6
<1>13. ASSUME UNCHANGED vars PROVE SilenceKnown'
    BY <1>1, <1>13 DEF vars, monitorVars
<1>. QED
    BY <1>2, <1>3, <1>4, <1>5, <1>6, <1>7, <1>8, <1>9, <1>10, <1>11, <1>12, <1>13 DEF Next

LEMMA AlwaysKnown == Spec => []SilenceKnown
BY InitKnown, StepKnown, TypeCorrect, AlwaysOld, PTL DEF Spec

\* A service that has been silent for longer than the healthy, or the stale,
\* treshold and every delay is no longer shown healthy, or is shown offline,
\* whatever the pass and the processors still write.
THEOREM SilenceAlwaysShown == Spec => []SilenceShown
BY AlwaysKnown, KnownMeansShown, TypeCorrect, PTL

-------------------------------------------------------------------------------
(* A service that keeps beating raises no alarm.  A fresh row is one that    *)
(* the next merge will find in time; only the pass can replace it with one   *)
(* that is not, and only by a row listed before the service began to beat.   *)

\* A heartbeat of s will be merged within n ticks.
MergedWithin(s, n) ==
    \/ \E i \in 1..Len(inbox) : inbox[i].service = s /\ inbox[i].age + n >= Lag
    \/ \E p \in Processor :
          proc[p] # IdleProc /\ proc[p].beat.service = s /\ proc[p].beat.age + n >= Lag
    \/ silent[s] + n >= BeatInterval + Lag

\* The age a row can reach between two merges, and if the pass undoes one.
Between == BeatInterval + 2 * Lag
BetweenTwo == 2 * BeatInterval + 4 * Lag

InTime(s, slack) == table[s].age <= slack /\ MergedWithin(s, slack - table[s].age)
Fresh(s) ==
    /\ Present(table[s])
    /\ InTime(s, Between) \/ (table[s].status = "healthy" /\ InTime(s, BetweenTwo))
FreshListing(s) ==
    /\ listed[s].verdict = "healthy"
    /\ listed[s].row.status = "healthy" \/ listed[s].row.age <= Between + elapsed

\* A row that is not fresh is from before the service began to beat.
OldRow(s) == Present(table[s]) /\ ~Fresh(s)
OldListing(s) == InPass(s) /\ ~FreshListing(s)
FromBefore(s, age) == age + 1 >= steady[s] \/ age = MaxAge

Heard(s) == steady[s] > 0 => s \in beating /\ storage /\ silent[s] <= BeatInterval

OldFromBefore(s) ==
    steady[s] > 0 => /\ OldRow(s) => FromBefore(s, table[s].age)
                     /\ OldListing(s) => FromBefore(s, listed[s].row.age)

\* From Outdated on such a row is past the stale treshold: a pass marks it
\* offline, and the next pass leaves it alone.
Outdated == StaleTreshold + 2
MarkedWaiting(s) ==
    updater = "waiting" /\ steady[s] >= Outdated + Lag + elapsed /\ OldRow(s)
        => table[s].status = "offline"
MarkedByPass(s) ==
    updater = "passing" /\ ~InPass(s) /\ steady[s] >= Outdated + elapsed /\ OldRow(s)
        => table[s].status = "offline"
PassMarks(s) ==
    InPass(s) /\ steady[s] >= Outdated + elapsed =>
        /\ OldListing(s) => listed[s].verdict = "offline"
        /\ OldRow(s) => OldListing(s) /\ table[s].status = listed[s].row.status
MarkedBefore(s) ==
    OldListing(s) /\ steady[s] >= Outdated + PassInterval + 2 * Lag + elapsed
        => listed[s].row.status = "offline"

\* From Undisturbed on no pass brings an old row back, so the next merge stays.
Undisturbed == Outdated + PassInterval + 3 * Lag
Merging == Undisturbed + BeatInterval + Lag
FreshAtLast(s) ==
    steady[s] >= Undisturbed =>
        Fresh(s) \/ (steady[s] <= Merging /\ MergedWithin(s, Merging - steady[s]))
ListingAtLast(s) ==
    InPass(s) /\ steady[s] >= Merging + 1 + elapsed => FreshListing(s)

CalmAt(s) ==
    /\ Heard(s) /\ OldFromBefore(s)
    /\ MarkedWaiting(s) /\ MarkedByPass(s) /\ PassMarks(s) /\ MarkedBefore(s)
    /\ FreshAtLast(s) /\ ListingAtLast(s)

Calm == SlackAssumed => \A s \in Service : CalmAt(s)

LEMMA CalmTimes ==
    /\ Outdated \in Nat /\ Undisturbed \in Nat /\ Merging \in Nat /\ SettleTime \in Nat
    /\ Between \in Nat /\ BetweenTwo \in Nat /\ MaxAge \in Nat /\ MaxAge > Lag
    /\ Outdated > 1 /\ Undisturbed = Outdated + PassInterval + 3 * Lag
    /\ Merging = Undisturbed + BeatInterval + Lag /\ SettleTime = Merging + 1 + Lag
    /\ Between = BeatInterval + 2 * Lag /\ BetweenTwo = 2 * BeatInterval + 4 * Lag
    /\ Outdated = MaxAge + 1
BY Times DEF Outdated, Undisturbed, Merging, SettleTime, Between, BetweenTwo, MaxAge

CalmTypes ==
    /\ elapsed \in Nat /\ elapsed <= PassInterval + Lag
    /\ \A s \in Service :
          /\ silent[s] \in Nat /\ steady[s] \in Nat /\ steady[s] <= SettleTime
          /\ table[s].age \in 0..MaxAge /\ listed[s].row.age \in 0..MaxAge

LEMMA CalmTypesHold == TypeOK => CalmTypes
<1>. SUFFICES ASSUME TypeOK PROVE CalmTypes
    OBVIOUS
<1>1. \A s \in Service : table[s].age \in 0..MaxAge /\ listed[s].row.age \in 0..MaxAge
    BY TypeFacts, RowFacts DEF Age
<1>2. SettleTime \in Nat /\ MaxSilence \in Nat
    BY Times, CalmTimes DEF MaxSilence
<1>. QED BY <1>1, <1>2, Times DEF TypeOK, CalmTypes

LEMMA CalmTypesNext == TypeOK' => CalmTypes'
BY CalmTypesHold, PTL

LEMMA CalmMeansNoAlarm == TypeOK /\ SilenceKnown /\ Calm => NoFalseAlarm
<1>. SUFFICES ASSUME TypeOK, SilenceKnown, SlackAssumed, NEW s \in Service, CalmAt(s),
                     steady[s] = SettleTime
              PROVE  /\ Present(table[s]) /\ table[s].age <= HealthyTreshold
                     /\ Present(listed[s].row) => listed[s].verdict = "healthy"
    BY DEF Calm, NoFalseAlarm
<1>. USE CalmTypesHold, CalmTimes, Times
<1>1. Fresh(s)
    BY DEF CalmAt, FreshAtLast, CalmTypes
<1>2. table[s].age <= BetweenTwo
    BY <1>1 DEF Fresh, InTime, CalmTypes
<1>3. InPass(s) => elapsed <= Lag
    BY DEF SilenceKnown, PassIsPrompt
<1>4. InPass(s) => FreshListing(s)
    BY <1>3 DEF CalmAt, ListingAtLast, CalmTypes
<1>5. BetweenTwo <= HealthyTreshold
    BY DEF SlackAssumed
<1>6. table[s].age <= HealthyTreshold
    BY <1>2, <1>5 DEF CalmTypes
<1>. QED BY <1>1, <1>4, <1>6 DEF Fresh, InPass, FreshListing

\* Nothing is claimed of a service that has not been beating for a tick.
LEMMA InitCalm == Init => Calm
<1>. SUFFICES ASSUME Init, NEW s \in Service PROVE CalmAt(s)
    BY DEF Calm
<1>1. steady[s] = 0 /\ elapsed = 0 /\ CalmTypes
    BY CalmTypesHold, InitType DEF Init
<1>. QED BY <1>1, CalmTimes, Times
         DEF CalmTypes, CalmAt, Heard, OldFromBefore, MarkedWaiting, MarkedByPass, PassMarks,
             MarkedBefore, FreshAtLast, ListingAtLast

LEMMA TooEarly ==
    ASSUME NEW ticks \in 0..1, NEW since \in Nat
    PROVE  /\ ~(ticks >= Outdated + Lag + since) /\ ~(ticks >= Outdated + since)
           /\ ~(ticks >= Outdated + PassInterval + 2 * Lag + since)
           /\ ~(ticks >= Undisturbed) /\ ~(ticks >= Merging + 1 + since)
BY CalmTimes, Times

LEMMA NotSteady ==
    ASSUME CalmTypes', NEW s \in Service, steady'[s] = 0
    PROVE  CalmAt(s)'
<1>1. elapsed' \in Nat
    BY DEF CalmTypes
<1>2. /\ ~(steady'[s] >= Outdated + Lag + elapsed') /\ ~(steady'[s] >= Outdated + elapsed')
      /\ ~(steady'[s] >= Outdated + PassInterval + 2 * Lag + elapsed')
      /\ ~(steady'[s] >= Undisturbed) /\ ~(steady'[s] >= Merging + 1 + elapsed')
    BY <1>1, TooEarly
<1>3. ~(steady'[s] > 0)
    OBVIOUS
<1>. QED BY <1>2, <1>3, Zenon
         DEF CalmAt, Heard, OldFromBefore, MarkedWaiting, MarkedByPass, PassMarks, MarkedBefore, FreshAtLast,
             ListingAtLast

\* A step that keeps the service's row, or makes it fresh, and its listing.
WithinKept(s) == \A n \in Nat : MergedWithin(s, n) => MergedWithin(s, n)'

LEMMA RowKept ==
    ASSUME CalmTypes, CalmTypes', NEW s \in Service, CalmAt(s), Heard(s)',
           UNCHANGED <<updater, elapsed, listed[s], steady[s]>>,
           Fresh(s)' \/ (table'[s] = table[s] /\ WithinKept(s))
    PROVE  CalmAt(s)'
<1>. USE CalmTimes
<1>1. WithinKept(s) /\ table'[s] = table[s] => (Fresh(s) => Fresh(s)')
    BY DEF WithinKept, Fresh, InTime, CalmTypes
<1>2. OldRow(s)' => OldRow(s) /\ table'[s] = table[s]
    BY <1>1 DEF OldRow
<1>3. OldListing(s)' <=> OldListing(s)
    BY DEF OldListing, FreshListing, InPass
<1>4. OldFromBefore(s)'
    BY <1>2, <1>3 DEF CalmAt, OldFromBefore, FromBefore
<1>5. MarkedWaiting(s)' /\ MarkedByPass(s)'
    BY <1>2 DEF CalmAt, MarkedWaiting, MarkedByPass, InPass
<1>6. PassMarks(s)' /\ MarkedBefore(s)'
    BY <1>2, <1>3 DEF CalmAt, PassMarks, MarkedBefore, InPass
<1>7. FreshAtLast(s)'
    BY <1>1 DEF CalmAt, FreshAtLast, WithinKept, CalmTypes
<1>8. ListingAtLast(s)'
    BY DEF CalmAt, ListingAtLast, InPass, FreshListing
<1>. QED BY <1>4, <1>5, <1>6, <1>7, <1>8 DEF CalmAt

LEMMA WithinFrame ==
    ASSUME NEW s \in Service, UNCHANGED <<inbox, proc, silent>>
    PROVE  WithinKept(s)
BY DEF WithinKept, MergedWithin

\* What is on its way to the table stays so until it is merged.
LEMMA WithinSend ==
    ASSUME TypeOK, NEW s \in Service, Heard(s), steady[s] > 0, NEW t \in Service, SendBeat(t)
    PROVE  WithinKept(s)
<1>. SUFFICES ASSUME NEW n \in Nat, MergedWithin(s, n) PROVE MergedWithin(s, n)'
    BY DEF WithinKept
<1>1. inbox' = Append(inbox, [service |-> t, age |-> 0]) /\ proc' = proc
    BY DEF SendBeat, monitorVars
<1>2. inbox \in Seq(Beat) /\ [service |-> t, age |-> 0] \in Beat
    BY Times DEF TypeOK, Beat
<1>3. /\ \A i \in 1..Len(inbox) : i \in 1..Len(inbox') /\ inbox'[i] = inbox[i]
      /\ Len(inbox) + 1 \in 1..Len(inbox')
      /\ inbox'[Len(inbox) + 1] = [service |-> t, age |-> 0]
    BY <1>1, <1>2, AppendProperties, LenProperties
<1>4. CASE \E i \in 1..Len(inbox) : inbox[i].service = s /\ inbox[i].age + n >= Lag
    BY <1>3, <1>4 DEF MergedWithin
<1>5. CASE \E p \in Processor :
              proc[p] # IdleProc /\ proc[p].beat.service = s /\ proc[p].beat.age + n >= Lag
    BY <1>1, <1>5 DEF MergedWithin
<1>6. CASE silent[s] + n >= BeatInterval + Lag
    <2>1. CASE s = t
        <3>1. n >= Lag
            BY <1>6, Times, CalmTypesHold DEF Heard, CalmTypes
        <3>2. inbox'[Len(inbox) + 1].service = s /\ inbox'[Len(inbox) + 1].age + n >= Lag
            BY <1>3, <2>1, <3>1
        <3>. QED BY <1>3, <3>2 DEF MergedWithin
    <2>2. CASE s # t
        BY <1>6, <2>2 DEF SendBeat, TypeOK, MergedWithin
    <2>. QED BY <2>1, <2>2
<1>. QED BY <1>4, <1>5, <1>6 DEF MergedWithin

LEMMA WithinTake ==
    ASSUME TypeOK, NEW s \in Service, NEW p \in Processor, TakeBeat(p)
    PROVE  WithinKept(s)
<1>. SUFFICES ASSUME NEW n \in Nat, MergedWithin(s, n) PROVE MergedWithin(s, n)'
    BY DEF WithinKept
<1>1. inbox \in Seq(Beat) /\ inbox # <<>> /\ inbox' = Tail(inbox) /\ silent' = silent
    BY DEF TypeOK, TakeBeat
<1>2. /\ Head(inbox) = inbox[1]
      /\ \A i \in 1..Len(inbox) : i # 1 => i - 1 \in 1..Len(inbox') /\ inbox'[i - 1] = inbox[i]
    BY <1>1, HeadTailProperties, LenProperties
<1>3. proc'[p] # IdleProc /\ proc'[p].beat = inbox[1]
    BY <1>2 DEF TakeBeat, TypeOK, IdleProc
<1>4. \A q \in Processor : proc[q] # IdleProc => proc'[q] = proc[q]
    BY DEF TakeBeat, TypeOK
<1>5. CASE \E i \in 1..Len(inbox) : inbox[i].service = s /\ inbox[i].age + n >= Lag
    BY <1>2, <1>3, <1>5 DEF MergedWithin
<1>6. CASE \E q \in Processor :
              proc[q] # IdleProc /\ proc[q].beat.service = s /\ proc[q].beat.age + n >= Lag
    BY <1>4, <1>6 DEF MergedWithin
<1>. QED BY <1>1, <1>5, <1>6 DEF MergedWithin

LEMMA WithinHandle ==
    ASSUME TypeOK, NEW s \in Service, NEW p \in Processor,
           LookUp(p) \/ (Insert(p) /\ proc[p].beat.service # s)
    PROVE  WithinKept(s)
<1>1. inbox' = inbox /\ silent' = silent
    BY DEF LookUp, Insert
<1>2. \A q \in Processor : q # p => proc'[q] = proc[q]
    BY DEF LookUp, Insert, TypeOK
<1>3. LookUp(p) => proc'[p] # IdleProc /\ proc'[p].beat = proc[p].beat
    BY DEF LookUp, TypeOK, IdleProc
<1>. QED BY <1>1, <1>2, <1>3 DEF WithinKept, MergedWithin

\* A merge makes the row fresh: the heartbeat is at most Lag old and no younger
\* than the last one sent.
LEMMA InsertFresh ==
    ASSUME TypeOK, AllOld, NEW p \in Processor, Insert(p), NEW s \in Service, s = proc[p].beat.service
    PROVE  Fresh(s)'
<1>. PICK age \in 0..Lag : age = proc[p].beat.age
    BY TypeFacts, ProcFacts, BeatFacts DEF Insert
<1>. USE Times, CalmTimes
<1>1. proc[p] # IdleProc /\ proc[p].beat \in Beat /\ proc[p].status \in Statuses
    BY TypeFacts, ProcFacts DEF Insert
<1>2. age \in Age
    BY <1>1, BeatFacts
<1>3. table'[s] = [age |-> age, status |-> proc[p].status] /\ silent' = silent
    BY <1>2 DEF Insert, TypeOK, Merged
<1>4. Present(table'[s]) /\ table'[s].age = age
    BY <1>1, <1>2, <1>3, NewRow
<1>5. age >= silent[s] /\ silent[s] \in Nat
    BY <1>1, <1>2, CalmTypesHold DEF AllOld, ProcsOld, AtMost, CalmTypes
<1>6. age <= Between /\ silent[s] + (Between - age) >= BeatInterval + Lag
    BY <1>5
<1>7. InTime(s, Between)'
    BY <1>3, <1>4, <1>6 DEF InTime, MergedWithin
<1>. QED BY <1>4, <1>7 DEF Fresh

LEMMA ListCalm ==
    ASSUME TypeOK, TypeOK', SlackAssumed, ListRows, NEW s \in Service, CalmAt(s), steady[s] > 0
    PROVE  CalmAt(s)'
<1>. USE Times, CalmTimes, CalmTypesHold
<1>1. /\ table' = table /\ updater = "waiting" /\ updater' = "passing" /\ elapsed' = 0
      /\ UNCHANGED <<inbox, proc, silent, steady, beating, storage>>
    BY DEF ListRows
<1>2. /\ InPass(s)' <=> Present(table[s])
      /\ InPass(s)' => listed'[s].row = table[s] /\ listed'[s].verdict = NewStatus(table[s].age)
    BY DEF ListRows, InPass, NotListed, NoRow, Present
<1>3. (Fresh(s) => Fresh(s)') /\ (OldRow(s)' => OldRow(s))
    BY <1>1 DEF Fresh, InTime, MergedWithin, OldRow
<1>4. Fresh(s) => FreshListing(s)'
    <2>. SUFFICES ASSUME Fresh(s) PROVE FreshListing(s)'
        OBVIOUS
    <2>1. table[s].age <= BetweenTwo /\ BetweenTwo <= HealthyTreshold
        BY DEF Fresh, InTime, CalmTypes, SlackAssumed
    <2>2. NewStatus(table[s].age) = "healthy"
        BY <2>1 DEF NewStatus, CalmTypes
    <2>3. table[s].status = "healthy" \/ table[s].age <= Between + 0
        BY DEF Fresh, InTime, CalmTypes
    <2>. QED BY <1>1, <1>2, <2>2, <2>3 DEF Fresh, FreshListing
<1>5. OldListing(s)' => OldRow(s)
    BY <1>2, <1>4 DEF OldListing, OldRow
<1>6. steady[s] >= Outdated /\ OldRow(s) => NewStatus(table[s].age) = "offline"
    <2>1. steady[s] >= Outdated /\ OldRow(s) => table[s].age = MaxAge
        BY DEF CalmAt, OldFromBefore, FromBefore, CalmTypes
    <2>. QED BY <2>1, NewStatusFacts, TypeFacts, RowFacts
<1>7. Heard(s)' /\ OldFromBefore(s)'
    BY <1>1, <1>2, <1>3, <1>5 DEF CalmAt, Heard, OldFromBefore, FromBefore, OldListing
<1>8. MarkedWaiting(s)' /\ MarkedByPass(s)'
    BY <1>1, <1>2 DEF MarkedWaiting, MarkedByPass, OldRow
<1>9. PassMarks(s)'
    <2>. SUFFICES ASSUME InPass(s)', steady[s] >= Outdated
                  PROVE  /\ OldListing(s)' => listed'[s].verdict = "offline"
                         /\ OldRow(s)' => OldListing(s)' /\ table'[s].status = listed'[s].row.status
        BY <1>1 DEF PassMarks
    <2>1. OldRow(s) => listed'[s].verdict = "offline"
        BY <1>2, <1>6
    <2>2. listed'[s].verdict = "offline" => OldListing(s)'
        BY DEF OldListing, FreshListing
    <2>. QED BY <1>1, <1>2, <1>3, <1>5, <2>1, <2>2
<1>10. MarkedBefore(s)'
    <2>. SUFFICES ASSUME OldListing(s)', steady[s] >= Outdated + PassInterval + 2 * Lag
                  PROVE  listed'[s].row.status = "offline"
        BY <1>1 DEF MarkedBefore, CalmTypes
    <2>1. table[s].status = "offline"
        BY <1>1, <1>5 DEF CalmAt, MarkedWaiting, CalmTypes
    <2>. QED BY <1>2, <2>1 DEF OldListing
<1>11. FreshAtLast(s)'
    BY <1>1, <1>3 DEF CalmAt, FreshAtLast, MergedWithin
<1>12. ListingAtLast(s)'
    BY <1>1, <1>4 DEF CalmAt, ListingAtLast, FreshAtLast, CalmTypes
<1>. QED BY <1>7, <1>8, <1>9, <1>10, <1>11, <1>12 DEF CalmAt

LEMMA UpdateCalm ==
    ASSUME TypeOK, SilenceKnown, NEW s \in Service, UpdateRow(s), CalmAt(s), steady[s] > 0
    PROVE  CalmAt(s)'
<1>. USE Times, CalmTimes, CalmTypesHold
<1>1. UNCHANGED <<inbox, proc, silent, steady, beating, storage, updater, elapsed>>
    BY DEF UpdateRow
<1>2. InPass(s) /\ updater = "passing" /\ elapsed <= Lag /\ ~InPass(s)'
    BY DEF UpdateRow, InPass, SilenceKnown, PassIsPrompt, TypeOK, NotListed, NoRow, Present
<1>. DEFINE rewritten == listed[s].verdict # listed[s].row.status
<1>3. ~rewritten => table'[s] = table[s]
    BY DEF UpdateRow
<1>4. rewritten => table'[s] = [age |-> listed[s].row.age, status |-> listed[s].verdict]
    BY DEF UpdateRow, TypeOK, Rewritten
<1>5. rewritten /\ FreshListing(s) => Fresh(s)'
    <2>. SUFFICES ASSUME rewritten, FreshListing(s) PROVE Fresh(s)'
        OBVIOUS
    <2>1. table'[s].age = listed[s].row.age /\ table'[s].status = "healthy"
        BY <1>4 DEF FreshListing
    <2>2. listed[s].row.age <= Between + Lag
        BY <1>2 DEF FreshListing, CalmTypes
    <2>3. /\ listed[s].row.age <= BetweenTwo
          /\ silent[s] + (BetweenTwo - listed[s].row.age) >= BeatInterval + Lag
        BY <2>2 DEF CalmTypes
    <2>4. InTime(s, BetweenTwo)'
        BY <1>1, <2>1, <2>3 DEF InTime, MergedWithin
    <2>. QED BY <2>1, <2>4 DEF Fresh, Present
<1>6. ~rewritten /\ Fresh(s) => Fresh(s)'
    BY <1>1, <1>3 DEF Fresh, InTime, MergedWithin
<1>7. OldRow(s)' => (rewritten /\ OldListing(s)) \/ (~rewritten /\ OldRow(s))
    BY <1>2, <1>3, <1>5, <1>6 DEF OldRow, OldListing
<1>8. Heard(s)' /\ OldFromBefore(s)'
    BY <1>1, <1>2, <1>3, <1>4, <1>7 DEF CalmAt, Heard, OldFromBefore, FromBefore, OldListing
<1>9. MarkedWaiting(s)' /\ MarkedByPass(s)'
    BY <1>1, <1>2, <1>3, <1>4, <1>7 DEF CalmAt, MarkedWaiting, MarkedByPass, PassMarks
<1>10. PassMarks(s)' /\ MarkedBefore(s)' /\ ListingAtLast(s)'
    BY <1>2 DEF PassMarks, MarkedBefore, ListingAtLast, OldListing
<1>11. FreshAtLast(s)'
    <2>. SUFFICES ASSUME steady[s] >= Undisturbed
                  PROVE  Fresh(s)' \/ (steady[s] <= Merging /\ MergedWithin(s, Merging - steady[s])')
        BY <1>1 DEF FreshAtLast
    <2>1. /\ steady[s] >= Outdated + elapsed
          /\ steady[s] >= Outdated + PassInterval + 2 * Lag + elapsed
        BY <1>2 DEF CalmTypes
    <2>2. OldListing(s) => ~rewritten
        BY <1>2, <2>1 DEF CalmAt, PassMarks, MarkedBefore
    <2>3. CASE rewritten
        BY <1>2, <1>5, <2>2, <2>3 DEF OldListing
    <2>4. CASE ~rewritten
        BY <1>1, <1>6, <2>4 DEF CalmAt, FreshAtLast, MergedWithin
    <2>. QED BY <2>3, <2>4
<1>. QED BY <1>8, <1>9, <1>10, <1>11 DEF CalmAt

LEMMA EndCalm ==
    ASSUME TypeOK, SilenceKnown, EndPass, NEW s \in Service, CalmAt(s), steady[s] > 0
    PROVE  CalmAt(s)'
<1>. USE Times, CalmTimes, CalmTypesHold
<1>1. /\ UNCHANGED <<table, listed, inbox, proc, silent, steady, beating, storage>>
      /\ updater = "passing" /\ updater' = "waiting" /\ elapsed' = 0
    BY DEF EndPass
<1>2. ~InPass(s) /\ ~InPass(s)' /\ elapsed <= Lag
    BY DEF EndPass, InPass, SilenceKnown, PassIsPrompt, NotListed, NoRow, Present
<1>3. (Fresh(s) => Fresh(s)') /\ (OldRow(s)' => OldRow(s))
    BY <1>1 DEF Fresh, InTime, MergedWithin, OldRow
<1>4. Heard(s)' /\ OldFromBefore(s)'
    BY <1>1, <1>2, <1>3 DEF CalmAt, Heard, OldFromBefore, FromBefore, OldListing
<1>5. MarkedWaiting(s)' /\ MarkedByPass(s)'
    BY <1>1, <1>2, <1>3 DEF CalmAt, MarkedWaiting, MarkedByPass, CalmTypes
<1>6. PassMarks(s)' /\ MarkedBefore(s)' /\ ListingAtLast(s)'
    BY <1>2 DEF PassMarks, MarkedBefore, ListingAtLast, OldListing
<1>7. FreshAtLast(s)'
    BY <1>1, <1>3 DEF CalmAt, FreshAtLast, MergedWithin
<1>. QED BY <1>4, <1>5, <1>6, <1>7 DEF CalmAt

\* A tick brings the next merge closer by one.
LEMMA WithinTick ==
    ASSUME TypeOK, SlackAssumed, Tick, NEW s \in Service, s \in beating,
           NEW n \in Nat, MergedWithin(s, n), NEW m \in Int, m >= n - 1
    PROVE  n >= 1 /\ MergedWithin(s, m)'
<1>. USE Times
<1>1. CASE \E i \in 1..Len(inbox) : inbox[i].service = s /\ inbox[i].age + n >= Lag
    <2>1. PICK i \in 1..Len(inbox) : inbox[i].service = s /\ inbox[i].age + n >= Lag
        BY <1>1
    <2>2. inbox[i] \in Beat /\ inbox[i].age < Lag /\ inbox[i].age \in Nat
        BY TypeFacts, BeatFacts DEF Tick, Prompt
    <2>3. inbox'[i].service = s /\ inbox'[i].age = inbox[i].age + 1 /\ i \in 1..Len(inbox')
        BY <2>1, <2>2, AgedBeatFacts, TypeFacts DEF Tick
    <2>4. inbox'[i].age + m >= Lag /\ n >= 1
        BY <2>1, <2>2, <2>3
    <2>. QED BY <2>3, <2>4 DEF MergedWithin
<1>2. CASE \E p \in Processor :
              proc[p] # IdleProc /\ proc[p].beat.service = s /\ proc[p].beat.age + n >= Lag
    <2>1. PICK p \in Processor :
              proc[p] # IdleProc /\ proc[p].beat.service = s /\ proc[p].beat.age + n >= Lag
        BY <1>2
    <2>2. proc[p].beat \in Beat /\ proc[p].beat.age < Lag /\ proc[p].beat.age \in Nat
        BY <2>1, TypeFacts, ProcFacts, BeatFacts DEF Tick, Prompt
    <2>3. proc'[p] # IdleProc /\ proc'[p].beat = AgedBeat(proc[p].beat)
        BY <2>1, <2>2, TypeFacts, AgedProcFacts DEF Tick
    <2>4. proc'[p].beat.service = s /\ proc'[p].beat.age + m >= Lag /\ n >= 1
        BY <2>1, <2>2, <2>3, AgedBeatFacts
    <2>. QED BY <2>3, <2>4 DEF MergedWithin
<1>3. CASE silent[s] + n >= BeatInterval + Lag
    <2>1. silent[s] < BeatInterval /\ silent[s] \in Nat
        BY DEF Tick, Prompt, TypeOK
    <2>2. silent'[s] = silent[s] + 1
        BY <2>1 DEF Tick, UpTo, MaxSilence, TypeOK, SlackAssumed
    <2>3. silent'[s] + m >= BeatInterval + Lag /\ n >= 1
        BY <1>3, <2>1, <2>2
    <2>. QED BY <2>3 DEF MergedWithin
<1>. QED BY <1>1, <1>2, <1>3 DEF MergedWithin

LEMMA TickCalm ==
    ASSUME TypeOK, TypeOK', SlackAssumed, SilenceKnown, SilenceKnown', Tick,
           NEW s \in Service, CalmAt(s), steady'[s] > 0
    PROVE  CalmAt(s)'
<1>. USE Times, CalmTimes, CalmTypesHold, CalmTypesNext
<1>1. /\ s \in beating /\ s \in beating' /\ storage' /\ silent[s] < BeatInterval
      /\ updater' = updater /\ elapsed' = elapsed + 1
    BY DEF Tick, Prompt
<1>2. silent'[s] <= BeatInterval /\ silent'[s] \in Nat
    <2>1. silent'[s] = UpTo(MaxSilence, silent[s]) /\ silent[s] \in 0..MaxSilence /\ MaxSilence \in Nat
        <3>1. MaxSilence \in Nat
            BY DEF MaxSilence
        <3>. QED BY <3>1 DEF Tick, TypeOK
    <2>2. silent'[s] \in 0..MaxSilence /\ silent'[s] <= silent[s] + 1
        BY <2>1, UpToFacts
    <2>. QED BY <1>1, <2>1, <2>2
<1>3. steady'[s] = steady[s] + 1 \/ (steady'[s] = SettleTime /\ steady[s] = SettleTime)
    <2>1. steady'[s] = UpTo(SettleTime, steady[s]) /\ steady[s] \in 0..SettleTime
        BY <1>1 DEF Tick, TypeOK
    <2>. QED BY <2>1 DEF UpTo
<1>4. /\ table'[s] = Aged(table[s]) /\ listed'[s].row = Aged(listed[s].row)
      /\ listed'[s].verdict = listed[s].verdict
    BY DEF Tick
<1>5. /\ table'[s].status = table[s].status /\ table'[s].age = Older(table[s].age)
      /\ listed'[s].row.status = listed[s].row.status
      /\ listed'[s].row.age = Older(listed[s].row.age)
      /\ Present(table'[s]) <=> Present(table[s])
      /\ InPass(s)' <=> InPass(s)
    BY <1>4, TypeFacts, AgedRow DEF InPass
<1>6. Heard(s)'
    BY <1>1, <1>2 DEF Heard
<1>7. CASE steady[s] = 0
    <2>1. steady'[s] = 1
        BY <1>3, <1>7
    <2>2. OldFromBefore(s)'
        BY <2>1 DEF OldFromBefore, FromBefore, CalmTypes
    <2>3. /\ ~(steady'[s] >= Outdated + Lag + elapsed') /\ ~(steady'[s] >= Outdated + elapsed')
          /\ ~(steady'[s] >= Outdated + PassInterval + 2 * Lag + elapsed')
          /\ ~(steady'[s] >= Undisturbed) /\ ~(steady'[s] >= Merging + 1 + elapsed')
        <3>1. steady'[s] \in 0..1 /\ elapsed' \in Nat
            BY <1>1, <2>1 DEF CalmTypes
        <3>. QED BY <3>1, TooEarly
    <2>. QED BY <1>6, <2>2, <2>3, Zenon
             DEF CalmAt, MarkedWaiting, MarkedByPass, PassMarks, MarkedBefore, FreshAtLast, ListingAtLast
<1>8. CASE steady[s] > 0
    <2>a. /\ table[s].age \in Nat /\ table'[s].age \in Nat /\ table'[s].age <= table[s].age + 1
          /\ listed[s].row.age \in Nat /\ listed'[s].row.age \in Nat
          /\ listed'[s].row.age <= listed[s].row.age + 1
        <3>1. table[s].age \in Age /\ listed[s].row.age \in Age
            BY DEF CalmTypes, Age
        <3>2. \A age \in Age : Older(age) \in Nat /\ Older(age) <= age + 1
            BY DEF Older, Age
        <3>. QED BY <1>5, <3>1, <3>2 DEF Age
    <2>1. ASSUME NEW slack \in Nat, InTime(s, slack) PROVE InTime(s, slack)'
        <3>1. slack - table[s].age \in Nat /\ MergedWithin(s, slack - table[s].age)
            BY <2>1 DEF InTime, CalmTypes
        <3>2. table'[s].age <= table[s].age + 1 /\ table'[s].age \in Nat
            BY <2>a
        <3>3. slack - table'[s].age >= (slack - table[s].age) - 1 /\ slack - table'[s].age \in Int
            BY <3>1, <3>2 DEF CalmTypes
        <3>4. PICK n \in Nat : n = slack - table[s].age
            BY <3>1
        <3>5. n >= 1 /\ \A m \in Int : m >= n - 1 => MergedWithin(s, m)'
            BY <1>1, <3>1, <3>4, WithinTick
        <3>6. MergedWithin(s, slack - table[s].age)'
            <4>1. PICK m \in Int : m = slack - table'[s].age
                BY <3>3
            <4>2. m >= n - 1
                BY <3>3, <3>4, <4>1
            <4>3. MergedWithin(s, m)'
                BY <3>5, <4>2
            <4>. QED BY <4>1, <4>3 DEF MergedWithin
        <3>. QED BY <3>2, <3>4, <3>5, <3>6 DEF InTime, CalmTypes
    <2>2. Fresh(s) => Fresh(s)'
        BY <1>5, <2>1 DEF Fresh
    <2>3. FreshListing(s) => FreshListing(s)'
        BY <1>1, <1>4, <1>5, <2>a DEF FreshListing, CalmTypes
    <2>4. (OldRow(s)' => OldRow(s)) /\ (OldListing(s)' => OldListing(s))
        BY <1>5, <2>2, <2>3 DEF OldRow, OldListing
    <2>5. OldFromBefore(s)'
        BY <1>3, <1>5, <1>8, <2>4, OlderFacts DEF CalmAt, OldFromBefore, FromBefore, CalmTypes, Age
    <2>6. MarkedWaiting(s)' /\ MarkedByPass(s)'
        BY <1>1, <1>3, <1>5, <2>4 DEF CalmAt, MarkedWaiting, MarkedByPass, CalmTypes
    <2>7. PassMarks(s)'
        <3>. SUFFICES ASSUME InPass(s), steady[s] >= Outdated + elapsed
                      PROVE  /\ OldListing(s)' => listed'[s].verdict = "offline"
                             /\ OldRow(s)' => OldListing(s)' /\ table'[s].status = listed'[s].row.status
            BY <1>1, <1>3, <1>5 DEF PassMarks, CalmTypes
        <3>1. listed'[s].verdict = "offline" => OldListing(s)'
            BY <1>5 DEF OldListing, FreshListing
        <3>. QED BY <1>4, <1>5, <2>4, <3>1 DEF CalmAt, PassMarks
    <2>8. MarkedBefore(s)'
        BY <1>1, <1>3, <1>5, <2>4 DEF CalmAt, MarkedBefore, CalmTypes
    <2>9. FreshAtLast(s)'
        <3>. SUFFICES ASSUME steady'[s] >= Undisturbed, ~Fresh(s)'
                      PROVE  steady'[s] <= Merging /\ MergedWithin(s, Merging - steady[s])'
            BY DEF FreshAtLast, MergedWithin
        <3>1. CASE steady[s] >= Undisturbed
            <4>1. steady[s] <= Merging /\ MergedWithin(s, Merging - steady[s])
                BY <2>2, <3>1 DEF CalmAt, FreshAtLast
            <4>2. PICK n \in Nat, m \in Int : n = Merging - steady[s] /\ m = Merging - steady'[s]
                BY <1>3, <4>1 DEF CalmTypes
            <4>3. steady'[s] = steady[s] + 1 /\ m >= n - 1
                BY <1>3, <4>1, <4>2 DEF CalmTypes
            <4>4. n >= 1 /\ MergedWithin(s, m)'
                BY <1>1, <4>1, <4>2, <4>3, WithinTick
            <4>5. steady'[s] <= Merging
                BY <4>1, <4>2, <4>3, <4>4 DEF CalmTypes
            <4>. QED BY <4>2, <4>4, <4>5 DEF MergedWithin
        <3>2. CASE steady[s] < Undisturbed
            <4>1. steady'[s] = Undisturbed
                BY <1>3, <3>2 DEF CalmTypes
            <4>2. silent'[s] + (Merging - steady'[s]) >= BeatInterval + Lag /\ steady'[s] <= Merging
                BY <1>2, <4>1
            <4>. QED BY <4>2 DEF MergedWithin
        <3>. QED BY <3>1, <3>2 DEF CalmTypes
    <2>10. ListingAtLast(s)'
        BY <1>1, <1>3, <1>5, <2>3 DEF CalmAt, ListingAtLast, CalmTypes
    <2>. QED BY <1>6, <2>5, <2>6, <2>7, <2>8, <2>9, <2>10 DEF CalmAt
<1>. QED BY <1>7, <1>8 DEF CalmTypes

LEMMA StepCalm ==
    ASSUME TypeOK, TypeOK', AllOld, SilenceKnown, SilenceKnown', Calm, [Next]_vars
    PROVE  Calm'
<1>. SUFFICES ASSUME SlackAssumed, NEW s \in Service PROVE CalmAt(s)'
    BY DEF Calm, SlackAssumed
<1>. USE CalmTypesHold, CalmTypesNext
<1>0. CalmAt(s)
    BY DEF Calm
<1>1. CASE steady'[s] = 0
    BY <1>1, NotSteady
<1>. SUFFICES ASSUME steady'[s] > 0 PROVE CalmAt(s)'
    BY <1>1 DEF CalmTypes
<1>2. CASE Tick
    BY <1>0, <1>2, TickCalm
<1>3. CASE ~Tick
    <2>1. steady'[s] = steady[s] /\ steady[s] > 0
        <3>1. ASSUME RestartMonitor \/ LoseBroker PROVE FALSE
            BY <3>1 DEF RestartMonitor, LoseBroker
        <3>2. ASSUME NEW t \in Service, StopBeating(t) PROVE steady'[s] = steady[s]
            BY <3>2 DEF StopBeating, TypeOK
        <3>3. steady' = steady \/ \E t \in Service : StopBeating(t)
            BY <1>3, <3>1 DEF Next, StartBeating, SendBeat, UpdateRow, TakeBeat, LookUp, LookUpRaises,
                              Insert, ListRows, EndPass, CreateTable, vars
        <3>. QED BY <3>2, <3>3
    <2>2. s \in beating /\ storage /\ silent[s] <= BeatInterval
        BY <1>0, <2>1 DEF CalmAt, Heard
    \* A step that leaves the table and the pass alone.
    <2>3. ASSUME UNCHANGED <<table, updater, elapsed, listed>>, WithinKept(s), Heard(s)'
          PROVE  CalmAt(s)'
        BY <1>0, <2>1, <2>3, RowKept
    <2>4. ASSUME NEW t \in Service, StartBeating(t) PROVE CalmAt(s)'
        BY <2>2, <2>3, <2>4, WithinFrame DEF StartBeating, monitorVars, Heard
    <2>5. ASSUME NEW t \in Service, StopBeating(t) PROVE CalmAt(s)'
        <3>1. s # t
            BY <2>1, <2>5 DEF StopBeating, TypeOK
        <3>. QED BY <2>2, <2>3, <2>5, <3>1, WithinFrame DEF StopBeating, monitorVars, Heard
    <2>6. ASSUME NEW t \in Service, SendBeat(t) PROVE CalmAt(s)'
        <3>1. WithinKept(s)
            BY <1>0, <2>1, <2>6, WithinSend DEF CalmAt
        <3>2. silent'[s] <= BeatInterval
            BY <2>2, <2>6, Times DEF SendBeat, TypeOK
        <3>. QED BY <2>2, <2>3, <2>6, <3>1, <3>2 DEF SendBeat, monitorVars, Heard
    <2>7. ASSUME NEW p \in Processor, TakeBeat(p) PROVE CalmAt(s)'
        BY <2>2, <2>3, <2>7, WithinTake DEF TakeBeat, Heard
    <2>8. ASSUME NEW p \in Processor, LookUp(p) PROVE CalmAt(s)'
        BY <2>2, <2>3, <2>8, WithinHandle DEF LookUp, Heard
    <2>9. ASSUME NEW p \in Processor, LookUpRaises(p) PROVE CalmAt(s)'
        BY <2>2, <2>9 DEF LookUpRaises
    <2>10. ASSUME NEW p \in Processor, Insert(p) PROVE CalmAt(s)'
        <3>1. Heard(s)'
            BY <2>2, <2>10 DEF Insert, Heard
        <3>2. Fresh(s)' \/ (table'[s] = table[s] /\ WithinKept(s))
            <4>1. CASE s = proc[p].beat.service
                BY <2>10, <4>1, InsertFresh
            <4>2. CASE s # proc[p].beat.service
                BY <2>10, <4>2, WithinHandle DEF Insert, TypeOK
            <4>. QED BY <4>1, <4>2
        <3>. QED BY <1>0, <2>1, <2>10, <3>1, <3>2, RowKept DEF Insert
    <2>11. ASSUME ListRows PROVE CalmAt(s)'
        BY <1>0, <2>1, <2>11, ListCalm
    <2>12. ASSUME NEW t \in Service, UpdateRow(t) PROVE CalmAt(s)'
        <3>1. CASE t = s
            BY <1>0, <2>1, <2>12, <3>1, UpdateCalm
        <3>2. CASE t # s
            <4>1. table'[s] = table[s] /\ listed'[s] = listed[s]
                BY <2>12, <3>2 DEF UpdateRow, TypeOK
            <4>2. WithinKept(s) /\ Heard(s)'
                BY <2>2, <2>12, WithinFrame DEF UpdateRow, Heard
            <4>. QED BY <1>0, <2>1, <2>12, <4>1, <4>2, RowKept DEF UpdateRow
        <3>. QED BY <3>1, <3>2
    <2>13. ASSUME EndPass PROVE CalmAt(s)'
        BY <1>0, <2>1, <2>13, EndCalm
    <2>14. ASSUME CreateTable PROVE CalmAt(s)'
        BY <2>2, <2>3, <2>14, WithinFrame DEF CreateTable, Heard
    <2>15. ASSUME RestartMonitor \/ LoseBroker PROVE CalmAt(s)'
        BY <2>1, <2>15 DEF RestartMonitor, LoseBroker
    <2>16. ASSUME UNCHANGED vars PROVE CalmAt(s)'
        BY <2>2, <2>3, <2>16, WithinFrame DEF vars, monitorVars, Heard
    <2>. QED
        BY <1>3, <2>4, <2>5, <2>6, <2>7, <2>8, <2>9, <2>10, <2>11, <2>12, <2>13, <2>14, <2>15, <2>16 DEF Next
<1>. QED BY <1>2, <1>3

\* With a healthy treshold of two heartbeat intervals and four delays, a service
\* that keeps beating is never called late: the merges and the pass overwrite
\* each other's rows, but not for long enough to matter.
THEOREM NoFalseAlarms == Spec => []NoFalseAlarm
<1>1. Spec => []Calm
    BY InitCalm, StepCalm, TypeCorrect, AlwaysOld, AlwaysKnown, PTL DEF Spec
<1>. QED BY <1>1, CalmMeansNoAlarm, TypeCorrect, AlwaysKnown, PTL
===============================================================================
