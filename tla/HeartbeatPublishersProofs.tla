---------------------- MODULE HeartbeatPublishersProofs -----------------------
(***************************************************************************)
(* Type correctness, the causes for which a publisher ends, and the steps  *)
(* that bring one back, for every set of publishers, number of retries and *)
(* number of faults.                                                       *)
(***************************************************************************)
EXTENDS HeartbeatPublishers, TLAPS

-------------------------------------------------------------------------------
(* The inductive invariant                                                   *)

\* A channel is open only in the publish loop, on a connection.
ChannelInLoop ==
    \A s \in Services : channel[s] => pc[s] = "publish" /\ conn[s] # "none"

\* Of those that leave the loop, user- and auth-service let the connection go.
Released ==
    \A s \in Services : s \in {"user", "auth"} /\ pc[s] \in {"connect", "pause", "dead"}
                            => conn[s] = "none"

\* The review- and the auth-service publish on a connection, lost or not.
LoopOnConnection ==
    \A s \in Services : s \in {"review", "auth"} /\ pc[s] = "publish" => conn[s] # "none"

\* A connection is cut by a crash only, and only the user-service dies.
CutByCrash == \A s \in Services : conn[s] = "cut" => "crashed" \in mishaps
OnlyUserDies == \A s \in Services : pc[s] = "dead" => s = "user"

\* In the publish loop of the user-service a channel closes by itself only if
\* the exchange has been deleted.
UserChannelLost ==
    "user" \in Services /\ pc["user"] = "publish" /\ conn["user"] = "open"
            /\ ~channel["user"] => "deleted" \in mishaps

\* The review-service is about to leave its open connection behind.
Leaving ==
    /\ conn["review"] = "open"
    /\ \/ pc["review"] = "connect"
       \/ pc["review"] = "publish" /\ (~channel["review"] \/ ~exchange)

OthersHoldOne == \A s \in Services : s # "review" => stray[s] = 0

ReviewLeavesFew ==
    "review" \in Services =>
        IF Leaving THEN stray["review"] < faults ELSE stray["review"] <= faults

Causes == /\ ChannelInLoop /\ Released /\ LoopOnConnection /\ CutByCrash /\ OnlyUserDies
          /\ DeclaredBeforePublished /\ UserChannelLost /\ StuckHasCause
Counts == OthersHoldOne /\ ReviewLeavesFew
IInv == TypeOK /\ Causes /\ Counts

-------------------------------------------------------------------------------
LEMMA InitIInv == ASSUME Init PROVE IInv
  <1> USE ServicesAssumption DEF Init
  <1>1. TypeOK
    <2>1. \A s \in Services : First(s) \in Places
      BY DEF Places, First
    <2>2. pc \in [Services -> Places]
      BY <2>1
    <2>3. conn \in [Services -> Connections] /\ channel \in [Services -> BOOLEAN]
      BY DEF Connections
    <2>4. stray \in [Services -> Nat] /\ tries \in 0..MaxRetryAttempts
            /\ faults \in 0..MaxFaults
      OBVIOUS
    <2>5. up \in BOOLEAN /\ exchange \in BOOLEAN /\ mishaps \subseteq Mishaps
      OBVIOUS
    <2> QED  BY <2>2, <2>3, <2>4, <2>5 DEF TypeOK
  <1>2. ChannelInLoop /\ Released /\ LoopOnConnection /\ CutByCrash /\ OnlyUserDies
    BY DEF ChannelInLoop, Released, LoopOnConnection, CutByCrash, OnlyUserDies, First, Python
  <1>3. DeclaredBeforePublished /\ UserChannelLost /\ OthersHoldOne
    BY DEF DeclaredBeforePublished, UserChannelLost, OthersHoldOne
  <1>4. StuckHasCause
    BY DEF StuckHasCause, Stuck, Python, First
  <1>5. ReviewLeavesFew
    BY DEF ReviewLeavesFew, Leaving
  <1> QED  BY <1>1, <1>2, <1>3, <1>4, <1>5 DEF IInv, Causes, Counts


\* A fault stays within the bound and changes the counter only.
LEMMA FaultCounts == ASSUME TypeOK, Fault PROVE faults' \in 0..MaxFaults
  BY ServicesAssumption DEF TypeOK, Fault

\* Type correctness, action by action.
LEMMA TypeStep == ASSUME TypeOK, [Next]_vars PROVE TypeOK'
  <1> USE ServicesAssumption DEF TypeOK, Connections, Places, Mishaps,
        Goto, SetConn, SetChannel
  <1>1. ASSUME NEW how \in {"shut", "cut"}, BrokerStops(how) PROVE TypeOK'
    <2> USE <1>1 DEF BrokerStops
    <2>1. (conn \in [Services -> Connections])'
      OBVIOUS
    <2>2. (stray \in [Services -> Nat])' /\ (mishaps \subseteq Mishaps)'
      OBVIOUS
    <2> QED  BY FaultCounts, <2>1, <2>2
  <1>2. CASE BrokerStarts
    BY <1>2 DEF BrokerStarts
  <1>3. CASE DeleteExchange
    BY <1>3, FaultCounts DEF DeleteExchange
  <1>4. ASSUME NEW s \in Services, Restart(s) PROVE TypeOK'
    BY <1>4, FaultCounts DEF Restart, First
  <1>5. ASSUME NEW s \in Services, Dial(s) PROVE TypeOK'
    BY <1>5 DEF Dial
  <1>6. ASSUME NEW s \in Services, Setup(s) PROVE TypeOK'
    BY <1>6 DEF Setup
  <1>7. ASSUME NEW s \in Services, PublishNowhere(s) PROVE TypeOK'
    BY <1>7 DEF PublishNowhere
  <1>8. ASSUME NEW s \in Services, PySetupLost(s) PROVE TypeOK'
    BY <1>8 DEF PySetupLost
  <1>9. ASSUME NEW s \in Services, PyNoticesLoss(s) PROVE TypeOK'
    BY <1>9 DEF PyNoticesLoss
  <1>10. ASSUME NEW s \in Services, PySetupRefused(s) PROVE TypeOK'
    BY <1>10, FaultCounts DEF PySetupRefused, Refused
  <1>11. CASE GoSetupLost \/ GoLoopExits
    BY <1>11 DEF GoSetupLost, GoLoopExits
  <1>12. CASE GoSetupRefused
    BY <1>12, FaultCounts DEF GoSetupRefused, Refused
  <1>13. CASE UserSetupLost \/ UserMissesClose \/ UserCloses
    BY <1>13 DEF UserSetupLost, UserMissesClose, UserCloses
  <1>14. CASE UserDies \/ UserSetupRefused
    BY <1>14, FaultCounts DEF UserDies, UserSetupRefused, UserProcessEnds
  <1>15. CASE AuthFails \/ AuthSetupRefused
    <2>1. AuthThrows
      BY <1>15 DEF AuthFails, AuthSetupRefused
    <2>2. (tries \in 0..MaxRetryAttempts)' /\ (pc \in [Services -> Places])'
      BY <2>1 DEF AuthThrows
    <2>3. (conn \in [Services -> Connections])' /\ (channel \in [Services -> BOOLEAN])'
      BY <2>1 DEF AuthThrows
    <2>4. up' \in BOOLEAN /\ exchange' \in BOOLEAN /\ stray' \in [Services -> Nat]
            /\ mishaps' \subseteq Mishaps /\ faults' \in 0..MaxFaults
      BY <1>15, FaultCounts DEF AuthFails, AuthSetupRefused
    <2> QED  BY <2>2, <2>3, <2>4
  <1>16. CASE AuthRecovers \/ AuthResumes
    BY <1>16 DEF AuthRecovers, AuthResumes
  <1>17. CASE UNCHANGED vars
    BY <1>17 DEF vars
  <1> HIDE DEF TypeOK, Connections, Places, Mishaps, Goto, SetConn, SetChannel
  <1> QED
    BY <1>1, <1>2, <1>3, <1>4, <1>5, <1>6, <1>7, <1>8, <1>9, <1>10, <1>11, <1>12, <1>13, <1>14, <1>15, <1>16, <1>17
    DEF Next, Step, RefusedStep, PyStep, GoStep, UserStep, AuthStep, PyConnect, GoConnect,
        UserConnect, AuthConnect, Python

\* Places and causes, action by action.
LEMMA CausesStep == ASSUME IInv, [Next]_vars PROVE Causes'
  <1> USE ServicesAssumption DEF Causes, IInv, TypeOK, Connections, Places,
        ChannelInLoop, Released, LoopOnConnection, CutByCrash, OnlyUserDies, DeclaredBeforePublished,
        UserChannelLost, StuckHasCause, Stuck, Goto, SetConn, SetChannel, Gone, Python
  <1>1. ASSUME NEW how \in {"shut", "cut"}, BrokerStops(how)
       PROVE  Causes'
    BY <1>1 DEF BrokerStops
  <1>2. ASSUME BrokerStarts
       PROVE  Causes'
    BY <1>2 DEF BrokerStarts
  <1>3. ASSUME DeleteExchange
       PROVE  Causes'
    BY <1>3 DEF DeleteExchange
  <1>4. ASSUME NEW s \in Services, Restart(s)
       PROVE  Causes'
    BY <1>4 DEF Restart, First
  <1>5. ASSUME NEW s \in Services, s \in Python, PyConnect(s)
       PROVE  Causes'
    BY <1>5 DEF PyConnect, Dial
  <1>6. ASSUME NEW s \in Services, Setup(s)
       PROVE  Causes'
    BY <1>6 DEF Setup
  <1>7. ASSUME NEW s \in Services, PublishNowhere(s)
       PROVE  Causes'
    BY <1>7 DEF PublishNowhere
  <1>8. ASSUME NEW s \in Services, s \in Python, PySetupLost(s)
       PROVE  Causes'
    BY <1>8 DEF PySetupLost
  <1>9. ASSUME NEW s \in Services, s \in Python, PyNoticesLoss(s)
       PROVE  Causes'
    BY <1>9 DEF PyNoticesLoss
  <1>10. ASSUME NEW s \in Services, s \in Python, PySetupRefused(s)
       PROVE  Causes'
    BY <1>10 DEF PySetupRefused, Refused
  <1>11. ASSUME "review" \in Services, GoConnect
       PROVE  Causes'
    BY <1>11 DEF GoConnect, Dial
  <1>12. ASSUME "review" \in Services, GoSetupLost \/ GoLoopExits
       PROVE  Causes'
    BY <1>12 DEF GoSetupLost, GoLoopExits
  <1>13. ASSUME "review" \in Services, GoSetupRefused
       PROVE  Causes'
    BY <1>13 DEF GoSetupRefused, Refused
  <1>14. ASSUME "user" \in Services, UserConnect
       PROVE  Causes'
    BY <1>14 DEF UserConnect, Dial
  <1>15. ASSUME "user" \in Services, UserSetupLost \/ UserMissesClose \/ UserCloses
       PROVE  Causes'
    BY <1>15 DEF UserSetupLost, UserMissesClose, UserCloses
  <1>16. ASSUME "user" \in Services, UserDies
       PROVE  Causes'
    BY <1>16 DEF UserDies, UserProcessEnds
  <1>17. ASSUME "user" \in Services, UserSetupRefused
       PROVE  Causes'
    BY <1>17 DEF UserSetupRefused, UserProcessEnds
  <1>18. ASSUME "auth" \in Services, AuthConnect
       PROVE  Causes'
    BY <1>18 DEF AuthConnect, Dial
  <1>19. ASSUME "auth" \in Services, AuthFails
       PROVE  Causes'
    BY <1>19 DEF AuthFails, AuthThrows
  <1>20. ASSUME "auth" \in Services, AuthSetupRefused
       PROVE  Causes'
    BY <1>20 DEF AuthSetupRefused, AuthThrows
  <1>21. ASSUME "auth" \in Services, AuthRecovers \/ AuthResumes
       PROVE  Causes'
    BY <1>21 DEF AuthRecovers, AuthResumes
  <1>22. ASSUME UNCHANGED vars
       PROVE  Causes'
    BY <1>22 DEF vars
  <1> HIDE DEF Causes, IInv, TypeOK, Connections, Places,
        ChannelInLoop, Released, LoopOnConnection, CutByCrash, OnlyUserDies, DeclaredBeforePublished,
        UserChannelLost, StuckHasCause, Stuck, Goto, SetConn, SetChannel, Gone, Python
  <1> QED
    BY <1>1, <1>2, <1>3, <1>4, <1>5, <1>6, <1>7, <1>8, <1>9, <1>10, <1>11, <1>12,
       <1>13, <1>14, <1>15, <1>16, <1>17, <1>18, <1>19, <1>20, <1>21, <1>22
    DEF Next, Step, RefusedStep, PyStep, GoStep, UserStep, AuthStep

\* The connections left behind, action by action.
LEMMA CountsStep == ASSUME IInv, [Next]_vars PROVE Counts'
  <1> USE ServicesAssumption DEF Counts, IInv, TypeOK, Connections, Places,
        Causes, ChannelInLoop, Released, OthersHoldOne, ReviewLeavesFew, Leaving,
        Goto, SetConn, SetChannel, Gone, Fault, Python
  <1>1. ASSUME NEW how \in {"shut", "cut"}, BrokerStops(how)
       PROVE  Counts'
    BY <1>1 DEF BrokerStops
  <1>2. ASSUME BrokerStarts
       PROVE  Counts'
    BY <1>2 DEF BrokerStarts
  <1>3. ASSUME DeleteExchange
       PROVE  Counts'
    BY <1>3 DEF DeleteExchange
  <1>4. ASSUME NEW s \in Services, Restart(s)
       PROVE  Counts'
    BY <1>4 DEF Restart, First
  <1>5. ASSUME NEW s \in Services, s \in Python, PyConnect(s)
       PROVE  Counts'
    BY <1>5 DEF PyConnect, Dial
  <1>6. ASSUME NEW s \in Services, Setup(s)
       PROVE  Counts'
    BY <1>6 DEF Setup
  <1>7. ASSUME NEW s \in Services, PublishNowhere(s)
       PROVE  Counts'
    BY <1>7 DEF PublishNowhere
  <1>8. ASSUME NEW s \in Services, s \in Python, PySetupLost(s)
       PROVE  Counts'
    BY <1>8 DEF PySetupLost
  <1>9. ASSUME NEW s \in Services, s \in Python, PyNoticesLoss(s)
       PROVE  Counts'
    BY <1>9 DEF PyNoticesLoss
  <1>10. ASSUME NEW s \in Services, s \in Python, PySetupRefused(s)
       PROVE  Counts'
    BY <1>10 DEF PySetupRefused, Refused
  <1>11. ASSUME "review" \in Services, GoConnect
       PROVE  Counts'
    BY <1>11 DEF GoConnect, Dial
  <1>12. ASSUME "review" \in Services, GoSetupLost \/ GoLoopExits
       PROVE  Counts'
    BY <1>12 DEF GoSetupLost, GoLoopExits
  <1>13. ASSUME "review" \in Services, GoSetupRefused
       PROVE  Counts'
    BY <1>13 DEF GoSetupRefused, Refused
  <1>14. ASSUME "user" \in Services, UserConnect
       PROVE  Counts'
    BY <1>14 DEF UserConnect, Dial
  <1>15. ASSUME "user" \in Services, UserSetupLost \/ UserMissesClose \/ UserCloses
       PROVE  Counts'
    BY <1>15 DEF UserSetupLost, UserMissesClose, UserCloses
  <1>16. ASSUME "user" \in Services, UserDies
       PROVE  Counts'
    BY <1>16 DEF UserDies, UserProcessEnds
  <1>17. ASSUME "user" \in Services, UserSetupRefused
       PROVE  Counts'
    BY <1>17 DEF UserSetupRefused, UserProcessEnds
  <1>18. ASSUME "auth" \in Services, AuthConnect
       PROVE  Counts'
    BY <1>18 DEF AuthConnect, Dial
  <1>19. ASSUME "auth" \in Services, AuthFails
       PROVE  Counts'
    BY <1>19 DEF AuthFails, AuthThrows
  <1>20. ASSUME "auth" \in Services, AuthSetupRefused
       PROVE  Counts'
    BY <1>20 DEF AuthSetupRefused, AuthThrows
  <1>21. ASSUME "auth" \in Services, AuthRecovers \/ AuthResumes
       PROVE  Counts'
    BY <1>21 DEF AuthRecovers, AuthResumes
  <1>22. ASSUME UNCHANGED vars
       PROVE  Counts'
    BY <1>22 DEF vars
  <1> HIDE DEF Counts, IInv, TypeOK, Connections, Places,
        Causes, ChannelInLoop, Released, OthersHoldOne, ReviewLeavesFew, Leaving,
        Goto, SetConn, SetChannel, Gone, Fault, Python
  <1> QED
    BY <1>1, <1>2, <1>3, <1>4, <1>5, <1>6, <1>7, <1>8, <1>9, <1>10, <1>11, <1>12,
       <1>13, <1>14, <1>15, <1>16, <1>17, <1>18, <1>19, <1>20, <1>21, <1>22
    DEF Next, Step, RefusedStep, PyStep, GoStep, UserStep, AuthStep

-------------------------------------------------------------------------------
LEMMA StepIInv == ASSUME IInv, [Next]_vars PROVE IInv'
  BY TypeStep, CausesStep, CountsStep DEF IInv

LEMMA Invariance == Spec => []IInv
  BY InitIInv, StepIInv, PTL DEF Spec

(* Connections, channels, places, retries and faults keep their types.       *)
THEOREM TypeCorrect == Spec => []TypeOK
  <1>1. IInv => TypeOK
    BY DEF IInv
  <1> QED  BY <1>1, Invariance, PTL

(* Broker stops alone, whenever they come, end no publisher: the Python      *)
(* loops need a channel refused or closed on its own, the user-service a     *)
(* crash, such a channel or a close that comes before its handler, and       *)
(* nothing ends the review-service or the auth-service.                      *)
THEOREM OnlyCausesEnd == Spec => []StuckHasCause
  <1>1. IInv => StuckHasCause
    BY DEF IInv, Causes
  <1> QED  BY <1>1, Invariance, PTL

(* No reconnecting publisher finds the exchange missing, whichever of them   *)
(* comes first after the broker has forgotten it.                            *)
THEOREM ExchangeAlwaysDeclared == Spec => []DeclaredBeforePublished
  <1>1. IInv => DeclaredBeforePublished
    BY DEF IInv, Causes
  <1> QED  BY <1>1, Invariance, PTL

(* Only the review-service leaves open connections behind, and not more of   *)
(* them than there were faults.                                              *)
THEOREM StraysBounded == Spec => []NoStrayConnection
  <1>1. IInv => NoStrayConnection
    <2> SUFFICES ASSUME IInv, NEW s \in Services
                 PROVE  IF s = "review" THEN stray[s] <= faults ELSE stray[s] = 0
      BY DEF NoStrayConnection
    <2>1. CASE s = "review"
      BY <2>1, ServicesAssumption DEF IInv, TypeOK, Counts, ReviewLeavesFew
    <2>2. CASE s # "review"
      BY <2>2 DEF IInv, Counts, OthersHoldOne
    <2> QED  BY <2>1, <2>2
  <1> QED  BY <1>1, Invariance, PTL

-------------------------------------------------------------------------------
(* Every step leads towards being heard                                      *)

LEMMA StepsLeftType == ASSUME NEW s \in Services PROVE StepsLeft(s) \in 0..5
  BY DEF StepsLeft

\* A publisher is where it was, and the exchange has not gone.
LEMMA LeftAlone ==
  ASSUME TypeOK, NEW s \in Services, exchange => exchange',
         conn'[s] = conn[s], channel'[s] = channel[s], pc'[s] = pc[s]
  PROVE  StepsLeft(s)' <= StepsLeft(s)
  <1>1. (Stuck(s)' <=> Stuck(s)) /\ (Ready(s) => Ready(s)') /\ (Gone(s)' <=> Gone(s))
    BY DEF Stuck, Ready, Gone
  <1>2. CASE Ready(s)' \/ Stuck(s)'
    BY <1>2, StepsLeftType DEF StepsLeft
  <1>3. CASE ~(Ready(s)' \/ Stuck(s)')
    BY <1>1, <1>3 DEF StepsLeft
  <1> QED  BY <1>2, <1>3

LEMMA OwnStep ==
  ASSUME TypeOK, LoopOnConnection, up, NEW s \in Services, Step(s)
  PROVE  StepsLeft(s)' < StepsLeft(s)
  <1> USE ServicesAssumption DEF TypeOK, StepsLeft, Ready, Stuck, Gone, Goto, SetConn, SetChannel
  <1>1. ASSUME Dial(s), pc[s] = "connect" \/ (s \in Python /\ pc[s] = "publish" /\ conn[s] = "none")
        PROVE  StepsLeft(s)' < StepsLeft(s)
    <2>1. pc'[s] = "setup" /\ conn'[s] = "open"
      BY <1>1 DEF Dial
    <2>2. StepsLeft(s)' <= 1
      BY <2>1
    <2>3. StepsLeft(s) = 2
      BY <1>1 DEF Python
    <2> QED  BY <2>2, <2>3
  <1>2. ASSUME Setup(s) PROVE StepsLeft(s)' < StepsLeft(s)
    <2>1. pc'[s] = "publish" /\ conn'[s] = "open" /\ channel'[s] /\ exchange'
      BY <1>2 DEF Setup
    <2>2. StepsLeft(s) = 1 /\ StepsLeft(s)' = 0
      BY <1>2, <2>1 DEF Setup
    <2> QED  BY <2>2
  <1>3. ASSUME PublishNowhere(s) PROVE StepsLeft(s)' < StepsLeft(s)
    <2>1. pc'[s] = "publish" /\ conn'[s] = "open" /\ ~channel'[s]
      BY <1>3 DEF PublishNowhere
    <2>2. StepsLeft(s) = 5
      BY <1>3 DEF PublishNowhere
    <2> QED  BY <2>1, <2>2
  \* Leaving a set-up whose connection is gone, or the publish loop.
  <1>4. ASSUME \/ pc[s] = "setup" /\ Gone(s)
               \/ pc[s] = "publish" /\ s \notin Python /\ Gone(s)
               \/ pc[s] = "publish" /\ s \notin Python /\ conn[s] = "open" /\ ~channel[s]
               \/ pc[s] = "publish" /\ Gone(s) /\ channel[s],
               \/ pc'[s] \in {"connect", "pause", "dead"}
               \/ pc'[s] = "publish" /\ conn'[s] = "none"
        PROVE  StepsLeft(s)' < StepsLeft(s)
    <2>1. StepsLeft(s) >= 4
      BY <1>4 DEF Python
    <2>2. StepsLeft(s)' <= 3
      BY <1>4
    <2> QED  BY <2>1, <2>2
  <1>5. CASE s \in Python /\ PyStep(s)
    <2>1. CASE PySetupLost(s) \/ PyNoticesLoss(s)
      BY <1>4, <2>1 DEF PySetupLost, PyNoticesLoss
    <2> QED  BY <1>1, <1>2, <1>3, <1>5, <2>1 DEF PyStep, PyConnect
  <1>6. CASE s = "review" /\ GoStep
    <2>1. CASE GoSetupLost
      BY <1>4, <1>6, <2>1 DEF GoSetupLost
    <2>2. CASE GoLoopExits
      BY <1>4, <1>6, <2>2 DEF GoLoopExits, Connections, Python, LoopOnConnection
    <2> QED  BY <1>1, <1>2, <1>3, <1>6, <2>1, <2>2 DEF GoStep, GoConnect
  <1>7. CASE s = "user" /\ UserStep
    <2>1. CASE UserSetupLost
      BY <1>4, <1>7, <2>1 DEF UserSetupLost
    <2>2. CASE UserMissesClose
      BY <1>4, <1>7, <2>2 DEF UserMissesClose
    <2>3. CASE UserCloses
      BY <1>4, <1>7, <2>3 DEF UserCloses, Python
    <2>4. CASE UserDies
      BY <1>4, <1>7, <2>4 DEF UserDies, UserProcessEnds, Python
    <2> QED  BY <1>1, <1>2, <1>3, <1>7, <2>1, <2>2, <2>3, <2>4 DEF UserStep, UserConnect
  <1>8. CASE s = "auth" /\ AuthStep
    <2>1. CASE AuthFails
      <3>1. pc'[s] \in {"connect", "pause"}
        BY <1>8, <2>1 DEF AuthFails, AuthThrows
      <3> QED  BY <1>4, <1>8, <2>1, <3>1 DEF AuthFails, Connections, Python, LoopOnConnection
    <2>2. CASE AuthRecovers
      <3>1. pc'[s] = "publish" /\ conn'[s] = "open" /\ exchange'
        BY <1>8, <2>2 DEF AuthRecovers
      <3>2. StepsLeft(s) = 5 /\ StepsLeft(s)' \in {0, 4}
        BY <1>8, <2>2, <3>1 DEF AuthRecovers, Python
      <3> QED  BY <3>2
    <2>3. CASE AuthResumes
      BY <1>8, <2>3 DEF AuthResumes
    <2> QED  BY <1>1, <1>2, <1>3, <1>8, <2>1, <2>2, <2>3 DEF AuthStep, AuthConnect
  <1> QED  BY <1>5, <1>6, <1>7, <1>8 DEF Step

\* The steps of another publisher, and a restart of one that is dead.
LEMMA OthersStep ==
  ASSUME TypeOK, NEW s \in Services, NEW t \in Services, t # s, Step(t) \/ Restart(t)
  PROVE  /\ exchange => exchange'
         /\ conn'[s] = conn[s] /\ channel'[s] = channel[s] /\ pc'[s] = pc[s]
  <1> USE DEF TypeOK, Goto, SetConn, SetChannel
  <1>1. CASE Restart(t)
    BY <1>1 DEF Restart
  <1>2. CASE t \in Python /\ PyStep(t)
    BY <1>2 DEF PyStep, PyConnect, Dial, Setup, PySetupLost, PublishNowhere, PyNoticesLoss
  <1>3. CASE t = "review" /\ GoStep
    BY <1>3 DEF GoStep, GoConnect, Dial, Setup, GoSetupLost, PublishNowhere, GoLoopExits
  <1>4. CASE t = "user" /\ UserStep
    BY <1>4 DEF UserStep, UserConnect, Dial, Setup, UserSetupLost, UserMissesClose,
       UserCloses, PublishNowhere, UserDies, UserProcessEnds
  <1>5. CASE t = "auth" /\ AuthStep
    BY <1>5 DEF AuthStep, AuthConnect, Dial, Setup, AuthFails, AuthThrows, AuthRecovers,
       PublishNowhere, AuthResumes
  <1> QED  BY <1>1, <1>2, <1>3, <1>4, <1>5 DEF Step

(* While the broker is up and nothing fails, each step of a publisher takes  *)
(* it closer to being heard or stuck, and no other publisher holds it back.  *)
THEOREM AlwaysCloser == Spec => NeverFurther
  <1> DEFINE Closer(s) ==
        up /\ faults' = faults /\ pc[s] # "dead" =>
           /\ StepsLeft(s)' <= StepsLeft(s)
           /\ Step(s) => StepsLeft(s)' < StepsLeft(s)
  <1>1. ASSUME IInv, [Next]_vars, NEW s \in Services,
               up, faults' = faults, pc[s] # "dead"
        PROVE  /\ StepsLeft(s)' <= StepsLeft(s)
               /\ Step(s) => StepsLeft(s)' < StepsLeft(s)
    <2>1. TypeOK /\ LoopOnConnection
      BY <1>1 DEF IInv, Causes
    <2>2. StepsLeft(s) \in 0..5
      BY StepsLeftType
    <2>3. CASE Step(s)
      <3>1. StepsLeft(s)' < StepsLeft(s)
        BY <1>1, <2>1, <2>3, OwnStep
      <3>2. StepsLeft(s)' \in 0..5
        BY DEF StepsLeft
      <3> QED  BY <2>2, <3>1, <3>2
    <2>4. CASE UNCHANGED vars /\ ~Step(s)
      BY <2>1, <2>4, LeftAlone DEF vars
    <2>5. CASE Next /\ ~Step(s)
      <3>1. ~Fault
        BY <1>1, <2>1, ServicesAssumption DEF Fault, TypeOK
      <3>2. PICK t \in Services : Step(t) \/ Restart(t)
        BY <1>1, <2>5, <3>1 DEF Next, BrokerStops, BrokerStarts, DeleteExchange,
           RefusedStep, PySetupRefused, GoSetupRefused, UserSetupRefused,
           AuthSetupRefused, Refused
      <3>3. t # s
        BY <1>1, <2>5, <3>1, <3>2 DEF Restart
      <3> QED  BY <2>1, <2>5, <3>2, <3>3, OthersStep, LeftAlone
    <2> QED  BY <1>1, <2>3, <2>4, <2>5
  <1>2. IInv /\ [Next]_vars => [\A s \in Services : Closer(s)]_vars
    BY <1>1
  <1> QED  BY <1>2, Invariance, PTL DEF Spec, NeverFurther
===============================================================================
