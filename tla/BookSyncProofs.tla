---------------------------- MODULE BookSyncProofs ----------------------------
(* Theorems about the books pipeline, for every set of books and requests.   *)
EXTENDS BookSync, SequenceTheorems, TLAPS

-------------------------------------------------------------------------------
(* The queue.                                                                *)

\* What a tail and a prefix of the queue hold, position by position.
LEMMA TailFacts ==
    ASSUME NEW q \in Seq(Announcement), q # <<>>
    PROVE  /\ Tail(q) \in Seq(Announcement)
           /\ Len(q) \in Nat /\ Len(q) >= 1 /\ Len(Tail(q)) = Len(q) - 1
           /\ \A i \in 1..Len(Tail(q)) : Tail(q)[i] = q[i + 1]
           /\ Head(q) = q[1] /\ Head(q) \in Announcement
  <1>1. Len(q) \in Nat \ {0}
    BY EmptySeq
  <1>2. Head(q) = q[1]
    BY <1>1
  <1> QED
    BY <1>1, <1>2, HeadTailProperties

LEMMA PrefixFacts ==
    ASSUME NEW q \in Seq(Announcement), NEW n \in 0..Len(q)
    PROVE  /\ SubSeq(q, 1, n) \in Seq(Announcement)
           /\ Len(SubSeq(q, 1, n)) = n
           /\ \A i \in 1..n : SubSeq(q, 1, n)[i] = q[i]
  <1>1. Len(q) \in Nat /\ 1 \in Int /\ n \in Int
    BY LenProperties
  <1>2. \A i \in 1..n : q[i] \in Announcement
    BY <1>1, ElementOfSeq
  <1> QED
    BY <1>1, <1>2, SubSeqProperties

-------------------------------------------------------------------------------
(* Types.                                                                    *)

LEMMA NoteType ==
    ASSUME NEW key \in RoutingKeys, NEW b \in BookId
    PROVE  Note(key, b) \in Announcement
  BY DEF Note, Announcement

LEMMA ServingType ==
    ASSUME BookServiceTypeOK, NEW r \in Request, req[r] # Idle
    PROVE  /\ req[r] \in Serving
           /\ req[r].key \in RoutingKeys
           /\ req[r].book \in BookId
           /\ req[r].step \in {"deleting", "announcing"}
  BY DEF BookServiceTypeOK, Serving

LEMMA BookServiceTypes ==
    ASSUME TypeOK, BookServiceNext
    PROVE  BookServiceTypeOK' /\ BrokerTypeOK'
  <1> USE DEF TypeOK, BookServiceTypeOK, BrokerTypeOK, brokerVars
  <1>1. ASSUME NEW r \in Request, NEW b \in BookId, Create(r, b)
        PROVE  BookServiceTypeOK' /\ BrokerTypeOK'
    BY <1>1 DEF Create, CreateBook, Announcing, Serving, BookStates, RoutingKeys
  <1>2. ASSUME NEW r \in Request, NEW b \in BookId, DeleteGet(r, b)
        PROVE  BookServiceTypeOK' /\ BrokerTypeOK'
    BY <1>2 DEF DeleteGet, FindForDelete, Deleting, Serving, BookStates, RoutingKeys
  <1>3. ASSUME NEW r \in Request, DeleteCommit(r)
        PROVE  BookServiceTypeOK' /\ BrokerTypeOK'
    <2>1. req[r] # Idle
      BY <1>3 DEF DeleteCommit, CommitDelete, Idle
    <2>2. req[r].book \in BookId
      BY <2>1, ServingType
    <2> QED
      BY <1>3, <2>2 DEF DeleteCommit, CommitDelete, Announcing, Serving, BookStates, RoutingKeys
  <1>4. ASSUME NEW r \in Request, Publish(r)
        PROVE  BookServiceTypeOK' /\ BrokerTypeOK'
    <2>1. req[r] # Idle
      BY <1>4 DEF Publish, Announce, Idle
    <2>2. Note(req[r].key, req[r].book) \in Announcement
      BY <2>1, ServingType, NoteType
    <2>3. queue' \in Seq(Announcement)
      BY <1>4, <2>2, AppendProperties DEF Publish, Announce, BrokerPublish
    <2> QED
      BY <1>4, <2>3 DEF Publish, Announce, BrokerPublish
  <1>5. ASSUME NEW r \in Request, PublishRefused(r)
        PROVE  BookServiceTypeOK' /\ BrokerTypeOK'
    BY <1>5 DEF PublishRefused, AnnounceRefused
  <1>6. ASSUME NEW r \in Request, FailRequest(r)
        PROVE  BookServiceTypeOK' /\ BrokerTypeOK'
    BY <1>6 DEF FailRequest, RequestFails
  <1>7. CASE RestartBookService
    BY <1>7 DEF RestartBookService, BookServiceRestart
  <1> QED
    BY <1>1, <1>2, <1>3, <1>4, <1>5, <1>6, <1>7 DEF BookServiceNext

LEMMA QueueGoneType ==
    ASSUME BrokerTypeOK, NEW owner \in QueueOwners, NEW kept \in 0..Len(queue),
           QueueGone(owner, kept)
    PROVE  /\ queueOwner' \in QueueOwners
           /\ queue' \in Seq(Announcement)
           /\ bindings' \subseteq RoutingKeys
  BY PrefixFacts DEF BrokerTypeOK, QueueGone

LEMMA ConsumerTypes ==
    ASSUME TypeOK, ConsumerNext
    PROVE  /\ BrokerTypeOK'
           /\ BookServiceTypeOK'
           /\ ReviewTypeOK'
  <1> USE DEF TypeOK, BookServiceTypeOK, BrokerTypeOK, ReviewTypeOK, bookVars,
              brokerVars, reviewVars, syncVars, ConsumerSteps, QueueOwners
  <1> DEFINE Goal == BrokerTypeOK' /\ BookServiceTypeOK' /\ ReviewTypeOK'
  <1>0. Len(queue) \in Nat
    BY LenProperties
  <1>1. CASE Declare
    <2>1. <<>> \in Seq(Announcement)
      BY EmptySeq
    <2> QED
      BY <1>1, <2>1 DEF Declare, ConsumerDeclare, BrokerDeclareQueue
  <1>2. CASE Bind
    BY <1>2 DEF Bind, ConsumerBind, BrokerBind, RoutingKeys
  <1>3. CASE Consume
    BY <1>3 DEF Consume, ConsumerConsume
  <1>4. CASE AbandonSetup
    BY <1>0, <1>4, QueueGoneType DEF AbandonSetup, ConsumerSetupFails
  <1>5. ASSUME NEW up \in BOOLEAN, LoseBroker(up)
        PROVE  Goal
    <2>1. CASE queueOwner = "consumer"
      <3>1. PICK kept \in 0..Len(queue) : QueueGone("nobody", kept)
        BY <1>5, <2>1 DEF LoseBroker, LoseConnections
      <3> QED
        BY <1>5, <2>1, <3>1, QueueGoneType DEF LoseBroker, LoseConnections
    <2>2. CASE queueOwner # "consumer"
      <3>1. QueueGone("nobody", Len(queue)) /\ UNCHANGED consumer
        BY <1>5, <2>2 DEF LoseBroker, LoseConnections
      <3> QED
        BY <1>0, <1>5, <3>1, QueueGoneType DEF LoseBroker, LoseConnections
    <2> QED
      BY <2>1, <2>2
  <1>6. CASE RestartBroker
    BY <1>6 DEF RestartBroker, BrokerRestart
  <1>7. CASE Handle /\ HandleBookCreated
    <2>1. Head(queue) \in Announcement /\ Tail(queue) \in Seq(Announcement)
      BY <1>7, TailFacts DEF HandleBookCreated
    <2>2. coll' \in [BookId -> Stamps]
      BY <1>7 DEF HandleBookCreated, InsertBook, Stamps
    <2> QED
      BY <1>7, <2>1, <2>2 DEF Handle, HandleBookCreated
  <1>8. CASE Handle /\ HandleBookDeleted
    <2>1. Tail(queue) \in Seq(Announcement)
      BY <1>8, TailFacts DEF HandleBookDeleted
    <2>2. coll' \in [BookId -> Stamps]
      BY <1>8 DEF HandleBookDeleted, Stamps
    <2> QED
      BY <1>8, <2>1, <2>2 DEF Handle, HandleBookDeleted
  <1>9. CASE FailHandler
    BY <1>9, TailFacts DEF FailHandler, HandlerFails
  <1>10. CASE EndConsumer
    BY <1>10 DEF EndConsumer, ConsumerReturns
  <1> QED
    BY <1>1, <1>2, <1>3, <1>4, <1>5, <1>6, <1>7, <1>8, <1>9, <1>10 DEF ConsumerNext, Handle

LEMMA SyncTypes ==
    ASSUME TypeOK, SyncNext
    PROVE  /\ BrokerTypeOK'
           /\ BookServiceTypeOK'
           /\ ReviewTypeOK'
  <1> USE DEF TypeOK, BookServiceTypeOK, BrokerTypeOK, ReviewTypeOK, bookVars,
              brokerVars, SyncSteps, BookStates
  <1>1. CASE Token
    BY <1>1 DEF Token, GetServiceToken
  <1>2. CASE Snapshot
    BY <1>2 DEF Snapshot, GetBooksSnapshot
  <1>3. ASSUME NEW b \in BookId, Save(b)
        PROVE  BrokerTypeOK' /\ BookServiceTypeOK' /\ ReviewTypeOK'
    BY <1>3 DEF Save, SaveBook, WriteModel, Stamps
  <1>4. CASE FinishSync
    BY <1>4 DEF FinishSync, SyncDone
  <1>5. CASE FailSync
    BY <1>5 DEF FailSync, SyncFails, NoSnapshot
  <1>6. CASE RestartReviewService
    <2>1. Len(queue) \in Nat
      BY LenProperties
    <2> QED
      BY <1>6, <2>1, QueueGoneType
         DEF RestartReviewService, ReviewServiceRestart, NoSnapshot, QueueOwners, ConsumerSteps
  <1> QED
    BY <1>1, <1>2, <1>3, <1>4, <1>5, <1>6 DEF SyncNext

LEMMA HistoryTypes ==
    ASSUME TypeOK, Next
    PROVE  /\ faults' \in 0..MaxFaults
           /\ missed' \in SUBSET BookId
           /\ unremoved' \in SUBSET BookId
           /\ overtaken' \in SUBSET BookId
  <1> USE DEF TypeOK, historyVars
  <1> DEFINE Goal == /\ missed' \in SUBSET BookId
                     /\ unremoved' \in SUBSET BookId
                     /\ overtaken' \in SUBSET BookId
  <1>1. faults' = faults \/ Fault
    BY DEF Next, BookServiceNext, Create, DeleteGet, DeleteCommit, Publish, PublishRefused,
           FailRequest, RestartBookService, ConsumerNext, Declare, Bind, Consume,
           AbandonSetup, LoseBroker, RestartBroker, Handle, FailHandler, EndConsumer,
           SyncNext, Token, Snapshot, Save, FinishSync, FailSync, RestartReviewService
  <1>2. faults' \in 0..MaxFaults
    BY <1>1, BoundsAssumption DEF Fault
  <1> SUFFICES Goal
    BY <1>2
  <1>3. \A r \in Request, key \in RoutingKeys : ServedBy(r, key) \subseteq BookId
    BY DEF ServedBy, Serving
  <1>4. \A n : \A key \in RoutingKeys : QueuedFrom(n, key) \subseteq BookId
    BY DEF QueuedFrom
  <1>5. \A r \in Request : LoseRequest(r) => Goal
    BY <1>3 DEF LoseRequest, Lose, RoutingKeys
  <1>6. \A n : LoseQueuedFrom(n) => Goal
    BY <1>4 DEF LoseQueuedFrom, Lose, RoutingKeys
  <1>7. CASE UNCHANGED historyVars
    BY <1>7
  <1>8. CASE \E r \in Request : Publish(r)
    BY <1>3, <1>8 DEF Publish, RoutingKeys
  <1>9. CASE RestartBookService
    BY <1>9 DEF RestartBookService, Lose
  <1>10. CASE FailHandler
    BY <1>4, <1>10 DEF FailHandler, Lose, RoutingKeys
  <1>11. CASE FinishSync
    BY <1>11 DEF FinishSync
  <1>12. CASE (\E r \in Request : LoseRequest(r)) \/ (\E n : LoseQueuedFrom(n))
    BY <1>5, <1>6, <1>12
  <1>13. \/ UNCHANGED historyVars \/ \E r \in Request : Publish(r)
         \/ RestartBookService \/ FailHandler \/ FinishSync
         \/ \E r \in Request : LoseRequest(r)
         \/ \E n : LoseQueuedFrom(n)
    BY DEF Next, BookServiceNext, Create, DeleteGet, DeleteCommit, PublishRefused,
           FailRequest, ConsumerNext, Declare, Bind, Consume,
           AbandonSetup, LoseBroker, RestartBroker, Handle, EndConsumer,
           SyncNext, Token, Snapshot, Save, FailSync, RestartReviewService
  <1> QED
    BY <1>7, <1>8, <1>9, <1>10, <1>11, <1>12, <1>13

LEMMA StutterTypes ==
    ASSUME TypeOK, UNCHANGED vars
    PROVE  TypeOK'
  BY DEF TypeOK, BookServiceTypeOK, BrokerTypeOK, ReviewTypeOK, vars, bookVars,
         brokerVars, reviewVars, historyVars

\* Every variable keeps its type: the tables, the request slots, the queue of
\* announcements, both goroutines of the review-service, and the history.
THEOREM TypeCorrect == Spec => []TypeOK
  <1>1. Init => TypeOK
    <2>1. <<>> \in Seq(Announcement)
      BY EmptySeq
    <2> QED
      BY <2>1, BoundsAssumption
         DEF Init, TypeOK, BookServiceInit, BookServiceTypeOK, BookStates, BrokerInit,
             BrokerTypeOK, QueueOwners, ReviewInit, ReviewTypeOK, Stamps, ConsumerSteps,
             SyncSteps, NoSnapshot
  <1>2. TypeOK /\ [Next]_vars => TypeOK'
    <2> SUFFICES ASSUME TypeOK, [Next]_vars PROVE TypeOK'
      OBVIOUS
    <2>1. CASE BookServiceNext
      <3>1. ReviewTypeOK'
        BY <2>1 DEF BookServiceNext, Create, DeleteGet, DeleteCommit, Publish,
           PublishRefused, FailRequest, RestartBookService, reviewVars, TypeOK, ReviewTypeOK
      <3> QED
        BY <2>1, <3>1, BookServiceTypes, HistoryTypes DEF Next, TypeOK
    <2>2. CASE ConsumerNext
      BY <2>2, ConsumerTypes, HistoryTypes DEF Next, TypeOK
    <2>3. CASE SyncNext
      BY <2>3, SyncTypes, HistoryTypes DEF Next, TypeOK
    <2>4. CASE UNCHANGED vars
      BY <2>4, StutterTypes
    <2> QED
      BY <2>1, <2>2, <2>3, <2>4 DEF Next
  <1> QED
    BY <1>1, <1>2, PTL DEF Spec

-------------------------------------------------------------------------------
(* The announcements and the snapshot tell the truth.                        *)

\* A step that leaves the catalogue alone.
LEMMA CatalogueKept ==
    ASSUME ConsumerNext \/ SyncNext \/ UNCHANGED vars
    PROVE  UNCHANGED bookVars
  BY DEF ConsumerNext, Declare, Bind, Consume, AbandonSetup, LoseBroker, RestartBroker,
         Handle, FailHandler, EndConsumer, SyncNext, Token, Snapshot, Save, FinishSync,
         FailSync, RestartReviewService, vars

\* What the catalogue has committed stays committed, what it has deleted stays
\* deleted.
LEMMA CatalogueGrows ==
    ASSUME TypeOK, [Next]_vars, NEW b \in BookId
    PROVE  /\ Committed(b) => Committed(b)'
           /\ books[b] = "deleted" => books'[b] = "deleted"
  <1> USE DEF Committed
  <1>1. CASE BookServiceNext
    <2>1. ASSUME NEW r \in Request, DeleteCommit(r)
          PROVE  /\ Committed(b) => Committed(b)'
                 /\ books[b] = "deleted" => books'[b] = "deleted"
      BY <2>1 DEF DeleteCommit, CommitDelete, TypeOK, BookServiceTypeOK
    <2>2. ASSUME NEW r \in Request, NEW c \in BookId, Create(r, c)
          PROVE  /\ Committed(b) => Committed(b)'
                 /\ books[b] = "deleted" => books'[b] = "deleted"
      BY <2>2 DEF Create, CreateBook, TypeOK, BookServiceTypeOK
    <2> QED
      BY <1>1, <2>1, <2>2 DEF BookServiceNext, DeleteGet, FindForDelete, Publish, Announce,
         PublishRefused, AnnounceRefused, FailRequest, RequestFails, RestartBookService,
         BookServiceRestart
  <1>2. CASE ConsumerNext \/ SyncNext \/ UNCHANGED vars
    BY <1>2, CatalogueKept DEF bookVars
  <1> QED
    BY <1>1, <1>2 DEF Next

LEMMA NewsStaysTrue ==
    ASSUME TypeOK, [Next]_vars, NEW b \in BookId, NEW key, NewsTrue(key, b)
    PROVE  NewsTrue(key, b)'
  BY CatalogueGrows DEF NewsTrue

\* Every message in the queue was there before or has just been published.
LEMMA QueueOrigin ==
    ASSUME TypeOK, [Next]_vars, NEW i \in 1..Len(queue')
    PROVE  \/ \E j \in 1..Len(queue) : queue'[i] = queue[j]
           \/ \E r \in Request : /\ req[r].step = "announcing"
                                 /\ queue'[i] = Note(req[r].key, req[r].book)
  <1> DEFINE Old == \E j \in 1..Len(queue) : queue'[i] = queue[j]
  <1>0. queue \in Seq(Announcement) /\ Len(queue) \in Nat
    BY LenProperties DEF TypeOK, BrokerTypeOK
  <1>1. UNCHANGED queue => Old
    BY <1>0
  <1>2. (\E owner : \E kept \in 0..Len(queue) : QueueGone(owner, kept)) => Old
    BY <1>0, PrefixFacts DEF QueueGone
  <1>3. queue # <<>> /\ queue' = Tail(queue) => Old
    BY <1>0, TailFacts
  <1>4. ASSUME NEW r \in Request, Publish(r)
        PROVE  \/ Old
               \/ /\ req[r].step = "announcing"
                  /\ queue'[i] = Note(req[r].key, req[r].book)
    <2>1. req[r].step = "announcing" /\ req[r] # Idle
      BY <1>4 DEF Publish, Announce, Idle
    <2>2. Note(req[r].key, req[r].book) \in Announcement
      BY <2>1, ServingType, NoteType DEF TypeOK
    <2> QED
      BY <1>0, <1>4, <2>1, <2>2, AppendProperties DEF Publish, Announce, BrokerPublish
  <1>5. CASE Declare
    BY <1>0, <1>5 DEF Declare, ConsumerDeclare, BrokerDeclareQueue
  <1>6. CASE AbandonSetup \/ RestartReviewService
    BY <1>0, <1>2, <1>6 DEF AbandonSetup, ConsumerSetupFails, RestartReviewService, ReviewServiceRestart
  <1>7. ASSUME NEW up \in BOOLEAN, LoseBroker(up)
        PROVE  Old
    BY <1>0, <1>2, <1>7 DEF LoseBroker, LoseConnections
  <1>8. CASE Handle \/ FailHandler
    BY <1>3, <1>8 DEF Handle, HandleBookCreated, HandleBookDeleted, FailHandler, HandlerFails
  <1> QED
    BY <1>1, <1>4, <1>5, <1>6, <1>7, <1>8
       DEF Next, BookServiceNext, Create, DeleteGet, DeleteCommit, PublishRefused,
           AnnounceRefused, FailRequest, RestartBookService, ConsumerNext, Bind,
           ConsumerBind, BrokerBind, Consume, ConsumerConsume, RestartBroker, BrokerRestart,
           EndConsumer, ConsumerReturns, SyncNext, Token, Snapshot, Save, FinishSync,
           FailSync, vars, brokerVars

LEMMA RequestsStayBacked ==
    ASSUME TypeOK, [Next]_vars, RequestsBacked
    PROVE  RequestsBacked'
  <1> SUFFICES ASSUME NEW r \in Request, req'[r] # Idle
               PROVE  /\ Committed(req[r].book)'
                      /\ req'[r].step = "announcing" => NewsTrue(req[r].key, req[r].book)'
    BY DEF RequestsBacked
  <1>1. CASE req'[r] = req[r]
    <2>1. req[r].book \in BookId
      BY <1>1, ServingType DEF TypeOK
    <2> QED
      BY <1>1, <2>1, NewsStaysTrue, CatalogueGrows DEF RequestsBacked, NewsTrue, Committed
  <1>2. CASE \E b \in BookId : Create(r, b)
    BY <1>2 DEF Create, CreateBook, Announcing, NewsTrue, Committed, TypeOK, BookServiceTypeOK
  <1>3. CASE \E b \in BookId : DeleteGet(r, b)
    BY <1>3 DEF DeleteGet, FindForDelete, Deletable, Deleting, Committed, TypeOK, BookServiceTypeOK
  <1>4. CASE DeleteCommit(r)
    <2>1. req[r] # Idle
      BY <1>4 DEF DeleteCommit, CommitDelete, Idle
    <2>2. req[r].book \in BookId
      BY <2>1, ServingType DEF TypeOK
    <2> QED
      BY <1>4, <2>2
         DEF DeleteCommit, CommitDelete, Announcing, NewsTrue, Committed, TypeOK, BookServiceTypeOK
  <1>5. \/ req'[r] = req[r] \/ req'[r] = Idle \/ DeleteCommit(r)
        \/ \E b \in BookId : Create(r, b) \/ DeleteGet(r, b)
    <2>1. CASE BookServiceNext
      BY <2>1 DEF BookServiceNext, Create, CreateBook, DeleteGet, FindForDelete, DeleteCommit,
         CommitDelete, Publish, Announce, PublishRefused, AnnounceRefused, FailRequest,
         RequestFails, RestartBookService, BookServiceRestart, TypeOK, BookServiceTypeOK
    <2>2. CASE ConsumerNext \/ SyncNext \/ UNCHANGED vars
      BY <2>2, CatalogueKept DEF bookVars
    <2> QED
      BY <2>1, <2>2 DEF Next
  <1> QED
    BY <1>1, <1>2, <1>3, <1>4, <1>5

LEMMA QueueStaysBacked ==
    ASSUME TypeOK, [Next]_vars, RequestsBacked, QueueBacked
    PROVE  QueueBacked'
  <1> SUFFICES ASSUME NEW i \in 1..Len(queue')
               PROVE  NewsTrue(queue[i].key, queue[i].book)'
    BY DEF QueueBacked
  <1>1. CASE \E j \in 1..Len(queue) : queue'[i] = queue[j]
    <2>1. PICK j \in 1..Len(queue) : queue'[i] = queue[j]
      BY <1>1
    <2>2. queue[j] \in Announcement
      BY ElementOfSeq DEF TypeOK, BrokerTypeOK
    <2>3. queue[j].book \in BookId
      BY <2>2 DEF Announcement
    <2> QED
      BY <2>1, <2>3, NewsStaysTrue DEF QueueBacked, NewsTrue, Committed
  <1>2. ASSUME NEW r \in Request, req[r].step = "announcing",
               queue'[i] = Note(req[r].key, req[r].book)
        PROVE  NewsTrue(queue[i].key, queue[i].book)'
    <2>1. req[r] # Idle
      BY <1>2 DEF Idle
    <2>2. req[r].book \in BookId
      BY <2>1, ServingType DEF TypeOK
    <2>3. NewsTrue(req[r].key, req[r].book)
      BY <1>2, <2>1 DEF RequestsBacked
    <2>4. queue'[i].key = req[r].key /\ queue'[i].book = req[r].book
      BY <1>2 DEF Note
    <2> QED
      BY <2>2, <2>3, <2>4, NewsStaysTrue DEF NewsTrue, Committed
  <1> QED
    BY <1>1, <1>2, QueueOrigin

LEMMA SnapshotStaysBacked ==
    ASSUME TypeOK, [Next]_vars, SnapshotBacked
    PROVE  SnapshotBacked'
  <1> USE DEF SnapshotBacked
  <1>1. CASE Snapshot
    BY <1>1 DEF Snapshot, GetBooksSnapshot, Committed, bookVars
  <1>2. CASE FailSync \/ RestartReviewService
    BY <1>2 DEF FailSync, SyncFails, RestartReviewService, ReviewServiceRestart, NoSnapshot
  <1>3. CASE /\ UNCHANGED snap
             /\ todo' \subseteq todo
             /\ sync' = sync \/ sync # "saving" \/ todo' = {}
    BY <1>3, CatalogueGrows DEF TypeOK, ReviewTypeOK
  <1>4. \/ Snapshot \/ FailSync \/ RestartReviewService
        \/ /\ UNCHANGED snap
           /\ todo' \subseteq todo
           /\ sync' = sync \/ sync # "saving" \/ todo' = {}
    BY DEF Next, BookServiceNext, Create, DeleteGet, DeleteCommit, Publish, PublishRefused,
           FailRequest, RestartBookService, ConsumerNext, Declare, ConsumerDeclare, Bind,
           ConsumerBind, Consume, ConsumerConsume, AbandonSetup, ConsumerSetupFails,
           LoseBroker, LoseConnections, RestartBroker, Handle, HandleBookCreated,
           HandleBookDeleted, FailHandler, HandlerFails, EndConsumer, ConsumerReturns,
           SyncNext, Token, GetServiceToken, Save, SaveBook, FinishSync, SyncDone,
           vars, reviewVars, syncVars
  <1> QED
    BY <1>1, <1>2, <1>3, <1>4

\* Announcements and snapshots tell only of what the catalogue has committed.
THEOREM NewsAlwaysBacked == Spec => []NewsBacked
  <1>1. Init => NewsBacked
    BY DEF Init, NewsBacked, RequestsBacked, QueueBacked, SnapshotBacked, BookServiceInit,
           BrokerInit, ReviewInit, NoSnapshot
  <1>2. TypeOK /\ NewsBacked /\ [Next]_vars => NewsBacked'
    BY RequestsStayBacked, QueueStaysBacked, SnapshotStaysBacked DEF NewsBacked
  <1> QED
    BY <1>1, <1>2, TypeCorrect, PTL DEF Spec

-------------------------------------------------------------------------------
(* Refinement of BookMirror.                                                 *)

\* Every step of the pipeline is a step of the abstract mirror, or leaves the
\* catalogue and the mirror alone.
LEMMA MirrorStep ==
    ASSUME TypeOK, NewsBacked, [Next]_vars
    PROVE  [Mirror!Next]_(Mirror!mirrorVars)
  <1> DEFINE ids == {b \in BookId : coll[b] # "none"}
  <1> USE DEF Mirror!mirrorVars
  <1>1. ASSUME UNCHANGED books, UNCHANGED coll
        PROVE  UNCHANGED Mirror!mirrorVars
    BY <1>1
  <1>2. ASSUME NEW r \in Request, NEW b \in BookId, Create(r, b)
        PROVE  Mirror!Create(b)
    BY <1>2 DEF Create, CreateBook, reviewVars, Mirror!Create
  <1>3. ASSUME NEW r \in Request, DeleteCommit(r)
        PROVE  [Mirror!Next]_(Mirror!mirrorVars)
    <2>1. req[r] # Idle
      BY <1>3 DEF DeleteCommit, CommitDelete, Idle
    <2>2. req[r].book \in BookId /\ Committed(req[r].book)
      BY <2>1, ServingType DEF TypeOK, NewsBacked, RequestsBacked
    <2>3. books[req[r].book] \in {"live", "deleted"}
      BY <2>2 DEF Committed, TypeOK, BookServiceTypeOK, BookStates
    <2>4. CASE books[req[r].book] = "deleted"
      BY <1>3, <2>2, <2>4 DEF DeleteCommit, CommitDelete, reviewVars, TypeOK, BookServiceTypeOK
    <2>5. CASE books[req[r].book] = "live"
      BY <1>3, <2>2, <2>5
         DEF DeleteCommit, CommitDelete, reviewVars, TypeOK, BookServiceTypeOK,
             Mirror!Next, Mirror!Delete
    <2> QED
      BY <2>3, <2>4, <2>5
  <1>4. ASSUME NEW b \in BookId, Committed(b), UNCHANGED books,
               NEW stamp \in {"event", "sync"}, coll' = [coll EXCEPT ![b] = stamp]
        PROVE  Mirror!TakeIn(b)
    <2>1. {c \in BookId : coll'[c] # "none"} = ids \union {b}
      BY <1>4 DEF TypeOK, ReviewTypeOK
    <2> QED
      BY <1>4, <2>1 DEF Mirror!TakeIn, Committed
  <1>5. ASSUME NEW b \in BookId, books[b] = "deleted", UNCHANGED books,
               coll' = [coll EXCEPT ![b] = "none"]
        PROVE  Mirror!Drop(b)
    <2>1. {c \in BookId : coll'[c] # "none"} = ids \ {b}
      BY <1>5 DEF TypeOK, ReviewTypeOK
    <2> QED
      BY <1>5, <2>1 DEF Mirror!Drop
  <1>6. CASE Handle
    <2>1. queue \in Seq(Announcement) /\ queue # <<>> /\ UNCHANGED books
      BY <1>6 DEF Handle, HandleBookCreated, HandleBookDeleted, TypeOK, BrokerTypeOK, bookVars
    <2>2. 1 \in 1..Len(queue) /\ Head(queue) = queue[1] /\ Head(queue) \in Announcement
      BY <2>1, TailFacts
    <2>2_. Head(queue).book \in BookId
      BY <2>2 DEF Announcement
    <2>3. NewsTrue(Head(queue).key, Head(queue).book)
      BY <2>2 DEF NewsBacked, QueueBacked
    <2>4. CASE HandleBookCreated
      <3>1. Committed(Head(queue).book)
        BY <2>3, <2>4 DEF HandleBookCreated, NewsTrue
      <3> QED
        BY <1>1, <1>4, <2>1, <2>2_, <2>4, <3>1 DEF HandleBookCreated, InsertBook, Mirror!Next
    <2>5. CASE HandleBookDeleted
      <3>1. books[Head(queue).book] = "deleted"
        BY <2>3, <2>5 DEF HandleBookDeleted, NewsTrue
      <3>2. coll' = coll \/ coll' = [coll EXCEPT ![Head(queue).book] = "none"]
        BY <2>5 DEF HandleBookDeleted, TypeOK, ReviewTypeOK
      <3> QED
        BY <1>1, <1>5, <2>1, <2>2_, <3>1, <3>2 DEF Mirror!Next
    <2> QED
      BY <1>6, <2>4, <2>5 DEF Handle
  <1>7. ASSUME NEW b \in BookId, Save(b)
        PROVE  [Mirror!Next]_(Mirror!mirrorVars)
    <2>1. /\ snap[b] # "absent" /\ Committed(b)
          /\ snap[b] = "deleted" => books[b] = "deleted"
          /\ UNCHANGED books
      BY <1>7 DEF Save, SaveBook, NewsBacked, SnapshotBacked, bookVars
    <2>2. coll' = [coll EXCEPT ![b] = WriteModel(b)]
      BY <1>7 DEF Save, SaveBook
    <2>3. CASE WriteModel(b) = coll[b]
      BY <1>1, <2>1, <2>2, <2>3 DEF TypeOK, ReviewTypeOK
    <2>4. CASE WriteModel(b) # coll[b]
      BY <1>4, <1>5, <2>1, <2>2, <2>4 DEF WriteModel, Mirror!Next
    <2> QED
      BY <2>3, <2>4
  <1>8. \/ \E r \in Request, b \in BookId : Create(r, b)
        \/ \E r \in Request : DeleteCommit(r)
        \/ Handle
        \/ \E b \in BookId : Save(b)
        \/ UNCHANGED books /\ UNCHANGED coll
    BY DEF Next, BookServiceNext, DeleteGet, FindForDelete, Publish, Announce,
           PublishRefused, AnnounceRefused, FailRequest, RequestFails, RestartBookService,
           BookServiceRestart, ConsumerNext, Declare, ConsumerDeclare, Bind, ConsumerBind,
           Consume, ConsumerConsume, AbandonSetup, ConsumerSetupFails, LoseBroker,
           LoseConnections, RestartBroker, FailHandler, HandlerFails, EndConsumer,
           ConsumerReturns, SyncNext, Token, GetServiceToken, Snapshot, GetBooksSnapshot,
           FinishSync, SyncDone, FailSync, SyncFails, RestartReviewService,
           ReviewServiceRestart, vars, bookVars, reviewVars
  <1> QED
    BY <1>1, <1>2, <1>3, <1>6, <1>7, <1>8 DEF Mirror!Next

\* The pipeline implements BookMirror: the review-service takes in only
\* committed books, drops only deleted ones, and no book comes back.
THEOREM ImplementsMirror == Spec => MirrorSpec
  <1>1. Init => Mirror!Init
    BY DEF Init, BookServiceInit, ReviewInit, Mirror!Init
  <1>2. TypeOK /\ NewsBacked /\ [Next]_vars => [Mirror!Next]_(Mirror!mirrorVars)
    BY MirrorStep
  <1> QED
    BY <1>1, <1>2, TypeCorrect, NewsAlwaysBacked, PTL DEF Spec, MirrorSpec, Mirror!Spec

\* What every mirror of a catalogue has in it.
MirrorCommitted == \A b \in BookId : coll[b] # "none" => Committed(b)

\* The mirror never has a document of a book that does not exist: read off the
\* abstract specification, and true of the pipeline because it implements it.
THEOREM MirrorAlwaysCommitted == Spec => []MirrorCommitted
  <1> DEFINE Sound == {b \in BookId : coll[b] # "none"} \subseteq {b \in BookId : books[b] # "absent"}
  <1>1. Mirror!Init => Sound
    BY DEF Mirror!Init
  <1>2. Sound /\ [Mirror!Next]_(Mirror!mirrorVars) => Sound'
    <2> SUFFICES ASSUME Sound, [Mirror!Next]_(Mirror!mirrorVars)
                 PROVE  Sound'
      OBVIOUS
    <2>1. ASSUME NEW b \in BookId, Mirror!Create(b)
          PROVE  Sound'
      BY <2>1 DEF Mirror!Create
    <2>2. ASSUME NEW b \in BookId, Mirror!Delete(b)
          PROVE  Sound'
      BY <2>2 DEF Mirror!Delete
    <2>3. ASSUME NEW b \in BookId, Mirror!TakeIn(b) \/ Mirror!Drop(b)
          PROVE  Sound'
      BY <2>3 DEF Mirror!TakeIn, Mirror!Drop
    <2>4. CASE UNCHANGED Mirror!mirrorVars
      BY <2>4 DEF Mirror!mirrorVars
    <2> QED
      BY <2>1, <2>2, <2>3, <2>4 DEF Mirror!Next
  <1>3. MirrorSpec => []Sound
    BY <1>1, <1>2, PTL DEF MirrorSpec, Mirror!Spec
  <1>4. Sound => MirrorCommitted
    BY DEF MirrorCommitted, Committed
  <1> QED
    BY <1>3, <1>4, ImplementsMirror, PTL

-------------------------------------------------------------------------------
(* The consumer and its queue.                                               *)

LEMMA ListeningStep ==
    ASSUME TypeOK, ListeningMeansBound, [Next]_vars
    PROVE  ListeningMeansBound'
  <1> USE DEF ListeningMeansBound
  <1>1. CASE Declare
    BY <1>1 DEF Declare, ConsumerDeclare, BrokerDeclareQueue
  <1>2. CASE Bind
    BY <1>2 DEF Bind, ConsumerBind, BrokerBind, reviewVars
  <1>3. CASE Consume
    BY <1>3 DEF Consume, ConsumerConsume, brokerVars
  <1>4. CASE AbandonSetup
    BY <1>4 DEF AbandonSetup, ConsumerSetupFails, QueueGone
  <1>5. ASSUME NEW up \in BOOLEAN, LoseBroker(up)
        PROVE  ListeningMeansBound'
    <2>1. CASE queueOwner = "consumer"
      BY <1>5, <2>1 DEF LoseBroker, LoseConnections, QueueGone
    <2>2. CASE queueOwner # "consumer"
      BY <1>5, <2>2 DEF LoseBroker, LoseConnections, QueueGone
    <2> QED
      BY <2>1, <2>2
  <1>6. CASE RestartBroker \/ EndConsumer
    BY <1>6 DEF RestartBroker, BrokerRestart, EndConsumer, ConsumerReturns, brokerVars, reviewVars
  <1>7. CASE RestartReviewService
    BY <1>7 DEF RestartReviewService, ReviewServiceRestart, QueueGone
  <1>8. CASE UNCHANGED <<brokerUp, bindings, queueOwner, consumer>>
    BY <1>8
  <1>9. \/ Declare \/ Bind \/ Consume \/ AbandonSetup
        \/ \E up \in BOOLEAN : LoseBroker(up)
        \/ RestartBroker \/ EndConsumer \/ RestartReviewService
        \/ UNCHANGED <<brokerUp, bindings, queueOwner, consumer>>
    BY DEF Next, BookServiceNext, Create, DeleteGet, DeleteCommit, Publish, Announce,
           BrokerPublish, PublishRefused, AnnounceRefused, FailRequest, RestartBookService,
           ConsumerNext, Handle, HandleBookCreated, HandleBookDeleted, FailHandler,
           HandlerFails, SyncNext, Token, GetServiceToken, Snapshot, GetBooksSnapshot,
           Save, SaveBook, FinishSync, SyncDone, FailSync, SyncFails,
           vars, brokerVars, reviewVars
  <1> QED
    BY <1>1, <1>2, <1>3, <1>4, <1>5, <1>6, <1>7, <1>8, <1>9

\* A consumer that listens holds the bound queue of a broker that is up.
THEOREM ListeningAlwaysBound == Spec => []ListeningMeansBound
  <1>1. Init => ListeningMeansBound
    BY DEF Init, ListeningMeansBound, BrokerInit, ReviewInit
  <1>2. TypeOK /\ ListeningMeansBound /\ [Next]_vars => ListeningMeansBound'
    BY ListeningStep
  <1> QED
    BY <1>1, <1>2, TypeCorrect, PTL DEF Spec

LEMMA NothingLostStep ==
    ASSUME TypeOK, ListeningMeansBound, [Next]_vars,
           consumer = "consuming", faults' = faults
    PROVE  missed' \subseteq missed /\ unremoved' \subseteq unremoved
  <1>1. brokerUp /\ \A key \in RoutingKeys : Routed(key)
    BY DEF ListeningMeansBound, Routed
  <1>2. ~Fault
    <2>1. faults \in Int
      BY BoundsAssumption DEF TypeOK
    <2> QED
      BY <2>1 DEF Fault
  <1>3. CASE \E r \in Request : Publish(r)
    BY <1>1, <1>3 DEF Publish, RoutingKeys
  <1>4. CASE FinishSync
    BY <1>4 DEF FinishSync
  <1>5. CASE UNCHANGED historyVars
    BY <1>5 DEF historyVars
  <1>6. (\E r \in Request : Publish(r)) \/ FinishSync \/ UNCHANGED historyVars
    BY <1>1, <1>2
       DEF Next, BookServiceNext, Create, DeleteGet, DeleteCommit, PublishRefused,
           AnnounceRefused, FailRequest, RestartBookService, ConsumerNext, Declare, Bind,
           Consume, AbandonSetup, LoseBroker, RestartBroker, Handle, FailHandler, EndConsumer,
           SyncNext, Token, Snapshot, Save, FailSync, RestartReviewService, vars
  <1> QED
    BY <1>3, <1>4, <1>5, <1>6

\* While the consumer consumes, only a failure loses an announcement.
THEOREM NothingLost == Spec => NothingLostWhileConsuming
  <1>1. TypeOK /\ ListeningMeansBound /\ [Next]_vars
          => [consumer = "consuming" /\ faults' = faults =>
                missed' \subseteq missed /\ unremoved' \subseteq unremoved]_vars
    BY NothingLostStep
  <1> QED
    BY <1>1, TypeCorrect, ListeningAlwaysBound, PTL DEF Spec, NothingLostWhileConsuming

-------------------------------------------------------------------------------
(* The sync.                                                                 *)

\* SnapshotSaved, write by write: what the bulk has applied stays in effect.
WritesHold ==
    sync \in {"saving", "done"} =>
        \A b \in BookId \ todo :
            /\ snap[b] = "live" => coll[b] # "none" \/ books[b] = "deleted"
            /\ coll[b] = "sync" => snap[b] = "live"

\* How the document of a book can change other than by the sync's own write.
LEMMA DocumentStep ==
    ASSUME TypeOK, NewsBacked, [Next]_vars, NEW b \in BookId
    PROVE  \/ coll'[b] = coll[b]
           \/ coll'[b] = "event"
           \/ coll'[b] = "none" /\ books[b] = "deleted"
           \/ Save(b)
  <1>1. CASE Handle
    <2>1. queue \in Seq(Announcement) /\ queue # <<>>
      BY <1>1 DEF Handle, HandleBookCreated, HandleBookDeleted, TypeOK, BrokerTypeOK
    <2>2. 1 \in 1..Len(queue) /\ Head(queue) = queue[1]
      BY <2>1, TailFacts
    <2>3. NewsTrue(Head(queue).key, Head(queue).book)
      BY <2>2 DEF NewsBacked, QueueBacked
    <2>4. CASE HandleBookCreated
      BY <2>4 DEF HandleBookCreated, InsertBook, TypeOK, ReviewTypeOK
    <2>5. CASE HandleBookDeleted
      BY <2>3, <2>5 DEF HandleBookDeleted, NewsTrue
    <2> QED
      BY <1>1, <2>4, <2>5 DEF Handle
  <1>2. ASSUME NEW c \in BookId, Save(c), c # b
        PROVE  coll'[b] = coll[b]
    BY <1>2 DEF Save, SaveBook, TypeOK, ReviewTypeOK
  <1>3. Handle \/ (\E c \in BookId : Save(c)) \/ UNCHANGED coll
    BY DEF Next, BookServiceNext, Create, DeleteGet, DeleteCommit, Publish, PublishRefused,
           FailRequest, RestartBookService, ConsumerNext, Declare, ConsumerDeclare, Bind,
           ConsumerBind, Consume, ConsumerConsume, AbandonSetup, ConsumerSetupFails,
           LoseBroker, LoseConnections, RestartBroker, FailHandler, HandlerFails,
           EndConsumer, ConsumerReturns, SyncNext, Token, GetServiceToken, Snapshot,
           GetBooksSnapshot, FinishSync, SyncDone, FailSync, SyncFails,
           RestartReviewService, ReviewServiceRestart, vars, reviewVars
  <1> QED
    BY <1>1, <1>2, <1>3

LEMMA WritesStillHold ==
    ASSUME TypeOK, NewsBacked, MirrorCommitted, WritesHold, [Next]_vars
    PROVE  WritesHold'
  <1> SUFFICES ASSUME sync' \in {"saving", "done"}, NEW b \in BookId, b \notin todo'
               PROVE  /\ snap'[b] = "live" => coll'[b] # "none" \/ books'[b] = "deleted"
                      /\ coll'[b] = "sync" => snap'[b] = "live"
    BY DEF WritesHold
  <1>1. CASE Snapshot
    BY <1>1 DEF Snapshot, GetBooksSnapshot, MirrorCommitted, Committed
  <1>2. CASE Save(b)
    BY <1>2 DEF Save, SaveBook, WriteModel, NewsBacked, SnapshotBacked, TypeOK, ReviewTypeOK
  <1>3. CASE /\ sync \in {"saving", "done"} /\ UNCHANGED snap
             /\ b \notin todo /\ ~Save(b)
    BY <1>3, DocumentStep, CatalogueGrows DEF WritesHold
  <1>4. \/ Snapshot
        \/ sync \in {"saving", "done"} /\ UNCHANGED snap /\ (b \notin todo \/ Save(b))
    BY DEF Next, BookServiceNext, Create, DeleteGet, DeleteCommit, Publish, PublishRefused,
           FailRequest, RestartBookService, ConsumerNext, Declare, ConsumerDeclare, Bind,
           ConsumerBind, Consume, ConsumerConsume, AbandonSetup, ConsumerSetupFails,
           LoseBroker, LoseConnections, RestartBroker, Handle, HandleBookCreated,
           HandleBookDeleted, FailHandler, HandlerFails, EndConsumer, ConsumerReturns,
           SyncNext, Token, GetServiceToken, Save, SaveBook, FinishSync, SyncDone, FailSync,
           SyncFails, RestartReviewService, ReviewServiceRestart, vars, reviewVars, syncVars
  <1> QED
    BY <1>1, <1>2, <1>3, <1>4

LEMMA WritesAlwaysHold == Spec => []WritesHold
  <1>1. Init => WritesHold
    BY DEF Init, ReviewInit, WritesHold
  <1>2. TypeOK /\ NewsBacked /\ MirrorCommitted /\ WritesHold /\ [Next]_vars => WritesHold'
    BY WritesStillHold
  <1> QED
    BY <1>1, <1>2, TypeCorrect, NewsAlwaysBacked, MirrorAlwaysCommitted, PTL DEF Spec

\* A completed sync has put every live book of its snapshot into the mirror and
\* purged what earlier syncs had stored of the others.
THEOREM SnapshotAlwaysSaved == Spec => []SnapshotSaved
  <1>1. NewsBacked /\ WritesHold => SnapshotSaved
    BY DEF NewsBacked, SnapshotBacked, WritesHold, SnapshotSaved
  <1> QED
    BY <1>1, NewsAlwaysBacked, WritesAlwaysHold, PTL

-------------------------------------------------------------------------------
(* What becomes of one announcement.                                         *)

\* The exclusive queue exists for a consumer that binds or consumes, and a
\* consumer without connection has nothing left to handle.
QueueNeedsConsumer ==
    /\ queueOwner = "consumer" => consumer \in {"binding", "consuming"}
    /\ consumer \in {"dialing", "ended"} => queue = <<>>

LEMMA QueueNeedsConsumerStep ==
    ASSUME TypeOK, QueueNeedsConsumer, [Next]_vars
    PROVE  QueueNeedsConsumer'
  <1> USE DEF QueueNeedsConsumer
  <1>0. queue \in Seq(Announcement) /\ Len(queue) \in Nat
    BY LenProperties DEF TypeOK, BrokerTypeOK
  <1>1. SubSeq(queue, 1, 0) = <<>>
    BY <1>0, SubSeqEmpty
  <1>2. CASE Declare \/ Bind \/ Consume \/ RestartBroker \/ EndConsumer
    BY <1>2 DEF Declare, ConsumerDeclare, BrokerDeclareQueue, Bind, ConsumerBind, BrokerBind,
       Consume, ConsumerConsume, RestartBroker, BrokerRestart, EndConsumer, ConsumerReturns,
       brokerVars, reviewVars
  <1>3. CASE AbandonSetup \/ RestartReviewService
    BY <1>1, <1>3 DEF AbandonSetup, ConsumerSetupFails, RestartReviewService,
       ReviewServiceRestart, QueueGone
  <1>4. ASSUME NEW up \in BOOLEAN, LoseBroker(up)
        PROVE  QueueNeedsConsumer'
    <2>1. CASE queueOwner = "consumer"
      BY <1>1, <1>4, <2>1 DEF LoseBroker, LoseConnections, QueueGone
    <2>2. CASE queueOwner # "consumer"
      <3>1. queue = <<>> => SubSeq(queue, 1, Len(queue)) = <<>>
        BY <1>0, <1>1
      <3> QED
        BY <1>4, <2>2, <3>1 DEF LoseBroker, LoseConnections, QueueGone
    <2> QED
      BY <2>1, <2>2
  <1>5. ASSUME NEW r \in Request, Publish(r)
        PROVE  QueueNeedsConsumer'
    BY <1>5 DEF Publish, Announce, BrokerPublish, Routed, reviewVars
  <1>6. CASE Handle \/ FailHandler
    BY <1>6 DEF Handle, HandleBookCreated, HandleBookDeleted, FailHandler, HandlerFails,
       Consuming, reviewVars
  <1>7. CASE UNCHANGED <<queue, queueOwner, consumer>>
    BY <1>7
  <1>8. \/ Declare \/ Bind \/ Consume \/ RestartBroker \/ EndConsumer
        \/ AbandonSetup \/ RestartReviewService
        \/ \E up \in BOOLEAN : LoseBroker(up)
        \/ \E r \in Request : Publish(r)
        \/ Handle \/ FailHandler
        \/ UNCHANGED <<queue, queueOwner, consumer>>
    BY DEF Next, BookServiceNext, Create, DeleteGet, DeleteCommit, PublishRefused,
           AnnounceRefused, FailRequest, RestartBookService, ConsumerNext, SyncNext, Token,
           GetServiceToken, Snapshot, GetBooksSnapshot, Save, SaveBook, FinishSync,
           SyncDone, FailSync, SyncFails, vars, brokerVars, reviewVars
  <1> QED
    BY <1>2, <1>3, <1>4, <1>5, <1>6, <1>7, <1>8

LEMMA QueueAlwaysNeedsConsumer == Spec => []QueueNeedsConsumer
  <1>1. Init => QueueNeedsConsumer
    BY DEF Init, BrokerInit, ReviewInit, QueueNeedsConsumer
  <1>2. TypeOK /\ QueueNeedsConsumer /\ [Next]_vars => QueueNeedsConsumer'
    BY QueueNeedsConsumerStep
  <1> QED
    BY <1>1, <1>2, TypeCorrect, PTL DEF Spec

\* The four ways a step treats the queue.
LEMMA QueueStep ==
    ASSUME TypeOK, QueueNeedsConsumer, [Next]_vars
    PROVE  \/ queue' = queue
           \/ \E r \in Request : /\ Publish(r)
                                 /\ queue' = Append(queue, Note(req[r].key, req[r].book))
           \/ queue # <<>> /\ queue' = Tail(queue) /\ (Handle \/ FailHandler)
           \/ \E kept \in 0..Len(queue) : /\ queue' = SubSeq(queue, 1, kept)
                                          /\ LoseQueuedFrom(kept + 1)
  <1>0. queue \in Seq(Announcement) /\ Len(queue) \in Nat
    BY LenProperties DEF TypeOK, BrokerTypeOK
  <1> DEFINE Cut == \E kept \in 0..Len(queue) : /\ queue' = SubSeq(queue, 1, kept)
                                                /\ LoseQueuedFrom(kept + 1)
  <1>1. CASE Declare
    BY <1>1 DEF Declare, ConsumerDeclare, BrokerDeclareQueue, QueueNeedsConsumer
  <1>2. CASE AbandonSetup \/ RestartReviewService
    <2>1. queue' = SubSeq(queue, 1, 0) /\ LoseQueuedFrom(0 + 1)
      BY <1>2 DEF AbandonSetup, ConsumerSetupFails, RestartReviewService,
         ReviewServiceRestart, QueueGone
    <2>2. 0 \in 0..Len(queue)
      BY <1>0
    <2>3. Cut
      BY <2>1, <2>2
    <2> QED
      BY <2>3
  <1>3. ASSUME NEW up \in BOOLEAN, LoseBroker(up)
        PROVE  Cut
    <2>1. PICK kept \in 0..Len(queue) : queue' = SubSeq(queue, 1, kept)
      <3>1. CASE queueOwner = "consumer"
        BY <1>3, <3>1 DEF LoseBroker, LoseConnections, QueueGone
      <3>2. CASE queueOwner # "consumer"
        BY <1>0, <1>3, <3>2 DEF LoseBroker, LoseConnections, QueueGone
      <3> QED
        BY <3>1, <3>2
    <2>2. Len(queue') = kept
      BY <1>0, <2>1, PrefixFacts
    <2>3. LoseQueuedFrom(Len(queue') + 1)
      BY <1>3 DEF LoseBroker
    <2>4. LoseQueuedFrom(kept + 1)
      BY <2>2, <2>3
    <2> QED
      BY <2>1, <2>4
  <1>4. CASE Handle \/ FailHandler
    BY <1>4 DEF Handle, HandleBookCreated, HandleBookDeleted, FailHandler, HandlerFails
  <1>5. ASSUME NEW r \in Request, Publish(r)
        PROVE  queue' = queue \/ queue' = Append(queue, Note(req[r].key, req[r].book))
    BY <1>5 DEF Publish, Announce, BrokerPublish
  <1>6. \/ Declare \/ AbandonSetup \/ RestartReviewService
        \/ \E up \in BOOLEAN : LoseBroker(up)
        \/ Handle \/ FailHandler
        \/ \E r \in Request : Publish(r)
        \/ queue' = queue
    BY DEF Next, BookServiceNext, Create, DeleteGet, DeleteCommit, PublishRefused,
           AnnounceRefused, FailRequest, RestartBookService, ConsumerNext, Bind,
           ConsumerBind, BrokerBind, Consume, ConsumerConsume, RestartBroker, BrokerRestart,
           EndConsumer, ConsumerReturns, SyncNext, Token, Snapshot, Save, FinishSync,
           FailSync, vars, brokerVars
  <1> QED
    BY <1>1, <1>2, <1>3, <1>4, <1>5, <1>6

\* A step keeps a change that waits to be announced, queues its announcement at
\* the end, or records it as lost.
LEMMA WaitingStep ==
    ASSUME TypeOK, [Next]_vars, NEW key \in RoutingKeys, NEW b \in BookId,
           Unannounced(key, b)
    PROVE  \/ Unannounced(key, b)'
           \/ /\ queue' = Append(queue, Note(key, b))
              /\ \E r \in Request : Publish(r) /\ req[r] = Announcing(key, b)
           \/ key = "book.created" /\ b \in missed'
           \/ key = "book.deleted" /\ b \in unremoved'
  <1> DEFINE Lost == \/ key = "book.created" /\ b \in missed'
                     \/ key = "book.deleted" /\ b \in unremoved'
  <1>1. PICK r \in Request : req[r] = Announcing(key, b)
    BY DEF Unannounced
  <1>2. /\ req[r].step = "announcing" /\ req[r].key = key /\ req[r].book = b
        /\ req[r] # Idle
    BY <1>1 DEF Announcing, Idle
  <1>3. b \in ServedBy(r, key)
    BY <1>1, <1>2, ServingType DEF ServedBy, TypeOK
  <1>4. key = "book.created" \/ key = "book.deleted"
    BY DEF RoutingKeys
  <1>5. CASE req'[r] = req[r]
    BY <1>1, <1>5 DEF Unannounced
  <1>6. CASE Publish(r)
    <2>1. CASE Routed(key)
      BY <1>1, <1>2, <1>6, <2>1 DEF Publish, Announce, BrokerPublish
    <2>2. CASE ~Routed(key)
      BY <1>3, <1>4, <1>6, <2>2 DEF Publish
    <2> QED
      BY <2>1, <2>2
  <1>7. CASE PublishRefused(r) \/ FailRequest(r)
    BY <1>3, <1>4, <1>7 DEF PublishRefused, FailRequest, LoseRequest, Lose
  <1>8. CASE RestartBookService
    BY <1>1, <1>4, <1>8 DEF RestartBookService, Lose, Unannounced
  <1>9. \/ req'[r] = req[r] \/ Publish(r) \/ PublishRefused(r) \/ FailRequest(r)
        \/ RestartBookService
    <2>1. CASE BookServiceNext
      BY <1>2, <2>1
         DEF BookServiceNext, Create, CreateBook, DeleteGet, FindForDelete, DeleteCommit,
             CommitDelete, Publish, Announce, PublishRefused, AnnounceRefused, FailRequest,
             RequestFails, TypeOK, BookServiceTypeOK, Idle
    <2>2. CASE ConsumerNext \/ SyncNext \/ UNCHANGED vars
      BY <2>2, CatalogueKept DEF bookVars
    <2> QED
      BY <2>1, <2>2 DEF Next
  <1> QED
    BY <1>5, <1>6, <1>7, <1>8, <1>9

\* A step keeps a queued announcement in its place, moves it one place to the
\* front, hands it to its handler, or records it as lost.
LEMMA QueuedStep ==
    ASSUME TypeOK, QueueNeedsConsumer, [Next]_vars, NEW key \in RoutingKeys,
           NEW b \in BookId, NEW i \in 1..Len(queue), queue[i] = Note(key, b)
    PROVE  \/ i \in 1..Len(queue') /\ queue'[i] = Note(key, b)
           \/ i - 1 \in 1..Len(queue') /\ queue'[i - 1] = Note(key, b)
           \/ i = 1 /\ Handle /\ Head(queue) = Note(key, b)
           \/ key = "book.created" /\ b \in missed'
           \/ key = "book.deleted" /\ b \in unremoved'
  <1>0. /\ queue \in Seq(Announcement) /\ Len(queue) \in Nat
        /\ key = "book.created" \/ key = "book.deleted"
    BY LenProperties DEF TypeOK, BrokerTypeOK, RoutingKeys
  <1>1. CASE queue' = queue
    BY <1>1
  <1>2. ASSUME NEW r \in Request, Publish(r),
               queue' = Append(queue, Note(req[r].key, req[r].book))
        PROVE  i \in 1..Len(queue') /\ queue'[i] = Note(key, b)
    <2>1. req[r] # Idle
      BY <1>2 DEF Publish, Announce, Idle
    <2>2. Note(req[r].key, req[r].book) \in Announcement
      BY <2>1, ServingType, NoteType DEF TypeOK
    <2> QED
      BY <1>0, <1>2, <2>2, AppendProperties
  <1>3. CASE queue # <<>> /\ queue' = Tail(queue) /\ (Handle \/ FailHandler)
    <2>1. /\ Len(queue') = Len(queue) - 1 /\ Head(queue) = queue[1]
          /\ \A j \in 1..Len(queue') : queue'[j] = queue[j + 1]
      BY <1>0, <1>3, TailFacts
    <2>2. CASE i # 1
      <3>1. i - 1 \in 1..Len(queue') /\ (i - 1) + 1 = i
        BY <1>0, <2>1, <2>2
      <3> QED
        BY <2>1, <3>1
    <2>3. CASE i = 1 /\ FailHandler
      <3>1. b \in QueuedFrom(1, key) /\ Head(queue).book = b
        BY <1>0, <2>1, <2>3 DEF QueuedFrom, Note
      <3> QED
        BY <1>0, <2>3, <3>1 DEF FailHandler, Lose
    <2> QED
      BY <1>3, <2>1, <2>2, <2>3
  <1>4. ASSUME NEW kept \in 0..Len(queue), queue' = SubSeq(queue, 1, kept),
               LoseQueuedFrom(kept + 1)
        PROVE  \/ i \in 1..Len(queue') /\ queue'[i] = Note(key, b)
               \/ key = "book.created" /\ b \in missed'
               \/ key = "book.deleted" /\ b \in unremoved'
    <2>1. CASE i \in 1..kept
      BY <1>0, <1>4, <2>1, PrefixFacts
    <2>2. CASE i \in (kept + 1)..Len(queue)
      <3>1. b \in QueuedFrom(kept + 1, key)
        BY <2>2 DEF QueuedFrom
      <3> QED
        BY <1>0, <1>4, <3>1 DEF LoseQueuedFrom, Lose
    <2> QED
      BY <1>0, <2>1, <2>2
  <1> QED
    BY <1>1, <1>2, <1>3, <1>4, QueueStep

-------------------------------------------------------------------------------
(* Creations.                                                                *)

LEMMA MissedShrinks ==
    ASSUME TypeOK, [Next]_vars, NEW b \in missed, b \notin missed'
    PROVE  FinishSync /\ snap[b] # "absent"
  BY DEF Next, BookServiceNext, Create, DeleteGet, DeleteCommit, Publish, PublishRefused,
         FailRequest, RestartBookService, ConsumerNext, Declare, Bind, Consume, AbandonSetup,
         LoseBroker, RestartBroker, Handle, FailHandler, EndConsumer, SyncNext, Token,
         Snapshot, Save, FinishSync, FailSync, RestartReviewService, LoseRequest,
         LoseQueuedFrom, Lose, vars, historyVars

LEMMA LiveBookStep ==
    ASSUME TypeOK, NewsBacked, WritesHold, QueueNeedsConsumer, LiveBookMirrored, [Next]_vars
    PROVE  LiveBookMirrored'
  <1> SUFFICES ASSUME NEW b \in BookId, books'[b] = "live", b \notin missed'
               PROVE  \/ coll'[b] # "none"
                      \/ Unannounced("book.created", b)'
                      \/ Queued("book.created", b)'
    BY DEF LiveBookMirrored
  <1>0. queue \in Seq(Announcement) /\ Len(queue) \in Nat
    BY LenProperties DEF TypeOK, BrokerTypeOK
  <1>1. CASE books[b] # "live"
    <2>1. PICK r \in Request : Create(r, b)
      <3>1. CASE BookServiceNext
        BY <1>1, <3>1
           DEF BookServiceNext, Create, CreateBook, DeleteGet, FindForDelete, DeleteCommit,
               CommitDelete, Publish, Announce, PublishRefused, AnnounceRefused, FailRequest,
               RequestFails, RestartBookService, BookServiceRestart, TypeOK, BookServiceTypeOK
      <3>2. CASE ConsumerNext \/ SyncNext \/ UNCHANGED vars
        BY <1>1, <3>2, CatalogueKept DEF bookVars
      <3> QED
        BY <3>1, <3>2 DEF Next
    <2> QED
      BY <2>1 DEF Create, CreateBook, Unannounced, TypeOK, BookServiceTypeOK
  <1>2. CASE books[b] = "live" /\ coll[b] # "none"
    <2>1. CASE Save(b)
      BY <1>2, <2>1 DEF Save, SaveBook, WriteModel, NewsBacked, SnapshotBacked, TypeOK, ReviewTypeOK
    <2> QED
      BY <1>2, <2>1, DocumentStep
  <1>3. CASE books[b] = "live" /\ b \in missed
    <2>1. FinishSync /\ snap[b] # "absent"
      BY <1>3, MissedShrinks
    <2>2. snap[b] = "live" /\ sync = "saving" /\ b \notin todo
      BY <1>3, <2>1 DEF FinishSync, SyncDone, NewsBacked, SnapshotBacked, TypeOK, ReviewTypeOK
    <2> QED
      BY <1>2, <1>3, <2>2 DEF WritesHold
  <1>4. CASE Unannounced("book.created", b)
    <2>1. CASE queue' = Append(queue, Note("book.created", b))
      <3>1. Note("book.created", b) \in Announcement
        BY NoteType DEF RoutingKeys
      <3>2. Len(queue') = Len(queue) + 1 /\ queue'[Len(queue) + 1] = Note("book.created", b)
        BY <1>0, <2>1, <3>1, AppendProperties
      <3> QED
        BY <1>0, <3>2 DEF Queued, Note
    <2> QED
      BY <1>4, <2>1, WaitingStep DEF RoutingKeys
  <1>5. CASE Queued("book.created", b)
    <2>1. PICK i \in 1..Len(queue) : queue[i] = Note("book.created", b)
      BY <1>5 DEF Queued
    <2>2. CASE Handle /\ Head(queue) = Note("book.created", b)
      BY <2>2 DEF Handle, HandleBookCreated, HandleBookDeleted, InsertBook, Note, TypeOK, ReviewTypeOK
    <2>3. CASE \E j \in 1..Len(queue') : queue'[j] = Note("book.created", b)
      BY <2>3 DEF Queued, Note
    <2> QED
      BY <2>1, <2>2, <2>3, QueuedStep DEF RoutingKeys
  <1> QED
    BY <1>1, <1>2, <1>3, <1>4, <1>5 DEF LiveBookMirrored

\* A live book is mirrored, or its creation is under way, or it was lost and
\* no snapshot has made up for it.
THEOREM LiveBooksMirrored == Spec => []LiveBookMirrored
  <1>1. Init => LiveBookMirrored
    BY DEF Init, BookServiceInit, LiveBookMirrored
  <1>2. TypeOK /\ NewsBacked /\ WritesHold /\ QueueNeedsConsumer /\ LiveBookMirrored /\ [Next]_vars
          => LiveBookMirrored'
    BY LiveBookStep
  <1> QED
    BY <1>1, <1>2, TypeCorrect, NewsAlwaysBacked, WritesAlwaysHold, QueueAlwaysNeedsConsumer,
       PTL DEF Spec

-------------------------------------------------------------------------------
(* Deletions.                                                                *)

\* DeletedBookRemoved, strengthened: the deletion is still due behind every
\* creation that is under way, so no creation can put a document back for good.
DueAfter(n, b) ==
    \/ Unannounced("book.deleted", b)
    \/ \E j \in 1..Len(queue) : j > n /\ queue[j] = Note("book.deleted", b)

DeletionDue ==
    \A b \in BookId : books[b] = "deleted" /\ b \notin unremoved \union overtaken =>
        /\ coll[b] = "event" => DueAfter(0, b)
        /\ \A i \in 1..Len(queue) : queue[i] = Note("book.created", b) => DueAfter(i, b)
        /\ Unannounced("book.created", b) => Unannounced("book.deleted", b)

LEMMA HistoryGrows ==
    ASSUME TypeOK, [Next]_vars
    PROVE  unremoved \subseteq unremoved' /\ overtaken \subseteq overtaken'
  BY DEF Next, BookServiceNext, Create, DeleteGet, DeleteCommit, Publish, PublishRefused,
         FailRequest, RestartBookService, ConsumerNext, Declare, Bind, Consume, AbandonSetup,
         LoseBroker, RestartBroker, Handle, FailHandler, EndConsumer, SyncNext, Token,
         Snapshot, Save, FinishSync, FailSync, RestartReviewService, LoseRequest,
         LoseQueuedFrom, Lose, vars, historyVars

\* A due deletion stays due behind the same place while nothing leaves the
\* front of the queue.
LEMMA DueStays ==
    ASSUME TypeOK, [Next]_vars, NEW b \in BookId, b \notin unremoved',
           NEW n \in 0..Len(queue), DueAfter(n, b),
           \/ queue' = queue
           \/ \E r \in Request : /\ Publish(r)
                                 /\ queue' = Append(queue, Note(req[r].key, req[r].book))
           \/ \E kept \in 0..Len(queue) : /\ queue' = SubSeq(queue, 1, kept)
                                          /\ LoseQueuedFrom(kept + 1)
    PROVE  DueAfter(n, b)'
  <1> DEFINE note == Note("book.deleted", b)
             InQueue == \E j \in 1..Len(queue') : j > n /\ queue'[j] = note
  <1>0. /\ queue \in Seq(Announcement) /\ Len(queue) \in Nat
        /\ note \in Announcement /\ "book.deleted" \in RoutingKeys
    BY LenProperties, NoteType DEF TypeOK, BrokerTypeOK, RoutingKeys
  <1>1. InQueue \/ Unannounced("book.deleted", b)' => DueAfter(n, b)'
    BY DEF DueAfter, Note
  <1>2. CASE Unannounced("book.deleted", b)
    <2>1. CASE queue' = Append(queue, note)
      <3>1. Len(queue') = Len(queue) + 1 /\ queue'[Len(queue) + 1] = note
        BY <1>0, <2>1, AppendProperties
      <3>2. InQueue
        BY <1>0, <3>1
      <3> QED
        BY <1>1, <3>2
    <2> QED
      BY <1>0, <1>1, <1>2, <2>1, WaitingStep
  <1>3. ASSUME NEW j \in 1..Len(queue), j > n, queue[j] = note
        PROVE  DueAfter(n, b)'
    <2>1. CASE queue' = queue
      BY <1>1, <1>3, <2>1
    <2>2. ASSUME NEW r \in Request, Publish(r),
                 queue' = Append(queue, Note(req[r].key, req[r].book))
          PROVE  InQueue
      <3>1. req[r] # Idle
        BY <2>2 DEF Publish, Announce, Idle
      <3>2. Note(req[r].key, req[r].book) \in Announcement
        BY <3>1, ServingType, NoteType DEF TypeOK
      <3> QED
        BY <1>0, <1>3, <2>2, <3>2, AppendProperties
    <2>3. ASSUME NEW kept \in 0..Len(queue), queue' = SubSeq(queue, 1, kept),
                 LoseQueuedFrom(kept + 1)
          PROVE  InQueue
      <3>1. j \notin (kept + 1)..Len(queue)
        BY <1>3, <2>3 DEF LoseQueuedFrom, Lose, QueuedFrom
      <3>2. j \in 1..kept
        BY <1>0, <3>1
      <3> QED
        BY <1>0, <1>3, <2>3, <3>2, PrefixFacts
    <2> QED
      BY <1>1, <2>1, <2>2, <2>3
  <1> QED
    BY <1>2, <1>3 DEF DueAfter

\* When the head of the queue leaves, a due deletion moves one place to the
\* front, or is that head.
LEMMA DueMoves ==
    ASSUME TypeOK, [Next]_vars, NEW b \in BookId, b \notin unremoved',
           NEW n \in 0..Len(queue), DueAfter(n, b),
           queue # <<>>, queue' = Tail(queue), Handle \/ FailHandler
    PROVE  /\ n >= 1 => DueAfter(n - 1, b)'
           /\ n = 0 => DueAfter(0, b)' \/ (Handle /\ Head(queue) = Note("book.deleted", b))
  <1> DEFINE note == Note("book.deleted", b)
  <1>0. /\ queue \in Seq(Announcement) /\ Len(queue) \in Nat
        /\ "book.deleted" \in RoutingKeys
    BY LenProperties DEF TypeOK, BrokerTypeOK, RoutingKeys
  <1>1. /\ Len(queue') = Len(queue) - 1 /\ Head(queue) = queue[1]
        /\ \A j \in 1..Len(queue') : queue'[j] = queue[j + 1]
    BY <1>0, TailFacts
  <1>2. CASE Unannounced("book.deleted", b)
    <2>1. UNCHANGED bookVars
      BY DEF Handle, FailHandler
    <2>2. Unannounced("book.deleted", b)'
      BY <1>2, <2>1 DEF Unannounced, bookVars, Announcing
    <2> QED
      BY <2>2 DEF DueAfter
  <1>3. ASSUME NEW j \in 1..Len(queue), j > n, queue[j] = note
        PROVE  /\ n >= 1 => DueAfter(n - 1, b)'
               /\ n = 0 => DueAfter(0, b)' \/ (Handle /\ Head(queue) = note)
    <2>1. CASE j > 1
      <3>1. j - 1 \in 1..Len(queue') /\ queue'[j - 1] = note
        BY <1>0, <1>1, <1>3, <2>1
      <3>2. j - 1 > n - 1 /\ j - 1 > 0
        BY <1>0, <1>3, <2>1
      <3>3. DueAfter(n - 1, b)' /\ DueAfter(0, b)'
        BY <3>1, <3>2 DEF DueAfter, Note
      <3> QED
        BY <3>3
    <2>2. CASE j = 1 /\ FailHandler
      <3>1. Head(queue) = note /\ b \in QueuedFrom(1, "book.deleted") /\ Head(queue).book = b
        BY <1>0, <1>1, <1>3, <2>2 DEF QueuedFrom, Note
      <3> QED
        BY <2>2, <3>1 DEF FailHandler, Lose
    <2> QED
      BY <1>1, <1>3, <2>1, <2>2
  <1> QED
    BY <1>2, <1>3 DEF DueAfter

\* Only the handler of a creation stores a document with the consumer's stamp.
LEMMA EventStored ==
    ASSUME TypeOK, [Next]_vars, NEW b \in BookId, coll[b] # "event", coll'[b] = "event"
    PROVE  /\ Handle /\ queue # <<>> /\ queue' = Tail(queue)
           /\ queue[1] = Note("book.created", b)
  <1>1. CASE Handle
    <2>1. /\ queue \in Seq(Announcement) /\ queue # <<>> /\ queue' = Tail(queue)
          /\ HandleBookCreated /\ Head(queue).book = b
      BY <1>1 DEF Handle, HandleBookCreated, HandleBookDeleted, InsertBook, TypeOK,
         BrokerTypeOK, ReviewTypeOK
    <2>2. Head(queue) \in Announcement /\ Head(queue) = queue[1]
      BY <2>1, TailFacts
    <2> QED
      BY <1>1, <2>1, <2>2 DEF HandleBookCreated, Announcement, Note
  <1>2. ASSUME NEW c \in BookId, Save(c)
        PROVE  coll'[b] # "event"
    BY <1>2 DEF Save, SaveBook, WriteModel, TypeOK, ReviewTypeOK
  <1>3. Handle \/ (\E c \in BookId : Save(c)) \/ UNCHANGED coll
    BY DEF Next, BookServiceNext, Create, DeleteGet, DeleteCommit, Publish, PublishRefused,
           FailRequest, RestartBookService, ConsumerNext, Declare, ConsumerDeclare, Bind,
           ConsumerBind, Consume, ConsumerConsume, AbandonSetup, ConsumerSetupFails,
           LoseBroker, LoseConnections, RestartBroker, FailHandler, HandlerFails,
           EndConsumer, ConsumerReturns, SyncNext, Token, GetServiceToken, Snapshot,
           GetBooksSnapshot, FinishSync, SyncDone, FailSync, SyncFails,
           RestartReviewService, ReviewServiceRestart, vars, reviewVars
  <1> QED
    BY <1>1, <1>2, <1>3

\* A book enters the catalogue's deleted state, or a slot starts to announce a
\* creation, only by the steps made for it.
LEMMA RequestSteps ==
    ASSUME TypeOK, [Next]_vars, NEW b \in BookId
    PROVE  /\ books[b] # "deleted" /\ books'[b] = "deleted"
                => Unannounced("book.deleted", b)'
           /\ ~Unannounced("book.created", b) /\ Unannounced("book.created", b)'
                => books[b] = "absent" /\ books'[b] = "live"
  <1> DEFINE Goal == /\ books[b] # "deleted" /\ books'[b] = "deleted"
                          => Unannounced("book.deleted", b)'
                     /\ ~Unannounced("book.created", b) /\ Unannounced("book.created", b)'
                          => books[b] = "absent" /\ books'[b] = "live"
  <1> USE DEF Unannounced, Announcing, TypeOK, BookServiceTypeOK
  <1>1. ASSUME NEW r \in Request, NEW c \in BookId, Create(r, c)
        PROVE  Goal
    BY <1>1 DEF Create, CreateBook, Idle
  <1>2. ASSUME NEW r \in Request, DeleteCommit(r)
        PROVE  Goal
    BY <1>2 DEF DeleteCommit, CommitDelete
  <1>3. CASE /\ UNCHANGED books
             /\ \A r \in Request : req'[r] = req[r] \/ req'[r].step # "announcing"
    BY <1>3
  <1>4. \/ \E r \in Request, c \in BookId : Create(r, c)
        \/ \E r \in Request : DeleteCommit(r)
        \/ /\ UNCHANGED books
           /\ \A r \in Request : req'[r] = req[r] \/ req'[r].step # "announcing"
    <2>1. CASE BookServiceNext
      BY <2>1
         DEF BookServiceNext, DeleteGet, FindForDelete, Deleting, Publish, Announce,
             PublishRefused, AnnounceRefused, FailRequest, RequestFails,
             RestartBookService, BookServiceRestart, Idle
    <2>2. CASE ConsumerNext \/ SyncNext \/ UNCHANGED vars
      BY <2>2, CatalogueKept DEF bookVars
    <2> QED
      BY <2>1, <2>2 DEF Next
  <1> QED
    BY <1>1, <1>2, <1>3, <1>4

LEMMA DeletionDueStep ==
    ASSUME TypeOK, QueueNeedsConsumer, DeletionDue, [Next]_vars
    PROVE  DeletionDue'
  <1> SUFFICES ASSUME NEW b \in BookId, books'[b] = "deleted",
                      b \notin unremoved', b \notin overtaken'
               PROVE  /\ coll'[b] = "event" => DueAfter(0, b)'
                      /\ \A i \in 1..Len(queue') :
                            queue'[i] = Note("book.created", b) => DueAfter(i, b)'
                      /\ Unannounced("book.created", b)' => Unannounced("book.deleted", b)'
    BY DEF DeletionDue, Note
  <1>0. /\ queue \in Seq(Announcement) /\ Len(queue) \in Nat
        /\ b \notin unremoved \union overtaken
        /\ "book.deleted" \in RoutingKeys
    BY LenProperties, HistoryGrows DEF TypeOK, BrokerTypeOK, RoutingKeys
  <1>1. CASE books[b] # "deleted"
    BY <1>1, RequestSteps DEF DueAfter
  <1>2. CASE books[b] = "deleted"
    <2>1. /\ coll[b] = "event" => DueAfter(0, b)
          /\ \A i \in 1..Len(queue) : queue[i] = Note("book.created", b) => DueAfter(i, b)
          /\ Unannounced("book.created", b) => Unannounced("book.deleted", b)
      BY <1>0, <1>2 DEF DeletionDue
    <2> DEFINE Appends(r) == /\ Publish(r)
                             /\ queue' = Append(queue, Note(req[r].key, req[r].book))
               Cuts(kept) == /\ queue' = SubSeq(queue, 1, kept)
                             /\ LoseQueuedFrom(kept + 1)
               FrontStays == \/ queue' = queue
                             \/ \E r \in Request : Appends(r)
                             \/ \E kept \in 0..Len(queue) : Cuts(kept)
               FrontLeaves == /\ queue # <<>> /\ queue' = Tail(queue)
                              /\ Handle \/ FailHandler
    <2>2. FrontStays \/ FrontLeaves
      BY QueueStep
    <2>3. ASSUME FrontStays, NEW n \in 0..Len(queue), DueAfter(n, b)
          PROVE  DueAfter(n, b)'
      BY <2>3, DueStays
    <2>4. ASSUME FrontLeaves, NEW n \in 0..Len(queue), DueAfter(n, b)
          PROVE  /\ n >= 1 => DueAfter(n - 1, b)'
                 /\ n = 0 => DueAfter(0, b)' \/ (Handle /\ Head(queue) = Note("book.deleted", b))
      BY <2>4, DueMoves
    <2>5. ASSUME coll'[b] = "event"
          PROVE  DueAfter(0, b)'
      <3>1. CASE coll[b] = "event"
        <4>1. 0 \in 0..Len(queue) /\ DueAfter(0, b)
          BY <1>0, <2>1, <3>1
        <4>2. ~(Handle /\ Head(queue) = Note("book.deleted", b))
          BY <2>5 DEF Handle, HandleBookCreated, HandleBookDeleted, MatchesFilter, Note,
             TypeOK, ReviewTypeOK
        <4> QED
          BY <2>2, <2>3, <2>4, <4>1, <4>2
      <3>2. CASE coll[b] # "event"
        <4>1. FrontLeaves /\ queue[1] = Note("book.created", b)
          BY <2>5, <3>2, EventStored
        <4>2. 1 \in 1..Len(queue) /\ 1 \in 0..Len(queue)
          BY <1>0, <4>1, TailFacts
        <4>3. DueAfter(1, b)
          BY <2>1, <4>1, <4>2
        <4>4. DueAfter(1 - 1, b)'
          BY <2>4, <4>1, <4>2, <4>3
        <4> QED
          BY <4>4
      <3> QED
        BY <3>1, <3>2
    <2>6. ASSUME NEW i \in 1..Len(queue'), queue'[i] = Note("book.created", b)
          PROVE  DueAfter(i, b)'
      <3>1. CASE FrontLeaves
        <4>1. i + 1 \in 1..Len(queue) /\ queue[i + 1] = Note("book.created", b)
          BY <1>0, <2>6, <3>1, TailFacts
        <4>2. DueAfter(i + 1, b) /\ i + 1 \in 0..Len(queue)
          BY <2>1, <4>1
        <4>3. DueAfter((i + 1) - 1, b)'
          BY <2>4, <3>1, <4>2
        <4>4. (i + 1) - 1 = i
          OBVIOUS
        <4> QED
          BY <4>3, <4>4 DEF DueAfter
      <3>2. ASSUME FrontStays, i \in 1..Len(queue), queue[i] = Note("book.created", b)
            PROVE  DueAfter(i, b)'
        <4>1. i \in 0..Len(queue) /\ DueAfter(i, b)
          BY <1>0, <2>1, <3>2
        <4> QED
          BY <2>3, <3>2, <4>1
      <3>3. CASE queue' = queue
        BY <2>6, <3>2, <3>3
      <3>4. ASSUME NEW r \in Request, Appends(r)
            PROVE  DueAfter(i, b)'
        <4>1. req[r] # Idle /\ req[r].step = "announcing"
          BY <3>4 DEF Publish, Announce, Idle
        <4>2. Note(req[r].key, req[r].book) \in Announcement
          BY <4>1, ServingType, NoteType DEF TypeOK
        <4>3. /\ Len(queue') = Len(queue) + 1
              /\ \A j \in 1..Len(queue) : queue'[j] = queue[j]
              /\ queue'[Len(queue) + 1] = Note(req[r].key, req[r].book)
          BY <1>0, <3>4, <4>2, AppendProperties
        <4>4. CASE i \in 1..Len(queue)
          BY <2>6, <3>2, <3>4, <4>3, <4>4
        <4>5. CASE i = Len(queue) + 1
          <5>1. req[r].key = "book.created" /\ req[r].book = b
            BY <2>6, <4>3, <4>5 DEF Note
          <5>2. req[r] = Announcing("book.created", b)
            BY <4>1, <5>1, ServingType DEF TypeOK, Serving, Announcing
          <5>3. PICK s \in Request : req[s] = Announcing("book.deleted", b)
            BY <2>1, <5>2 DEF Unannounced
          <5>4. s # r
            BY <5>1, <5>3 DEF Announcing
          <5>5. req'[s] = Announcing("book.deleted", b)
            BY <3>4, <5>3, <5>4 DEF Publish, Announce, TypeOK, BookServiceTypeOK
          <5> QED
            BY <5>5 DEF DueAfter, Unannounced, Announcing
        <4> QED
          BY <1>0, <4>3, <4>4, <4>5
      <3>5. ASSUME NEW kept \in 0..Len(queue), Cuts(kept)
            PROVE  DueAfter(i, b)'
        <4>1. i \in 1..Len(queue) /\ queue[i] = queue'[i]
          BY <1>0, <3>5, PrefixFacts
        <4> QED
          BY <2>6, <3>2, <3>5, <4>1
      <3> QED
        BY <2>2, <3>1, <3>3, <3>4, <3>5
    <2>7. ASSUME Unannounced("book.created", b)'
          PROVE  Unannounced("book.deleted", b)'
      <3>1. Unannounced("book.created", b)
        BY <1>2, <2>7, RequestSteps
      <3>2. ASSUME NEW r \in Request, Publish(r), req[r] = Announcing("book.deleted", b)
            PROVE  FALSE
        <4>1. req[r] \in Serving /\ req[r].book = b
          BY <3>2, ServingType DEF TypeOK, Announcing, Idle
        <4>2. b \in ServedBy(r, "book.deleted")
          BY <3>2, <4>1 DEF ServedBy
        <4> QED
          BY <3>1, <3>2, <4>2 DEF Publish
      <3> QED
        BY <1>0, <2>1, <3>1, <3>2, WaitingStep
    <2> QED
      BY <2>5, <2>6, <2>7
  <1> QED
    BY <1>1, <1>2

\* A document stored by the consumer outlives its book only while the deletion
\* is under way, or after it was lost or announced before the creation.
THEOREM DeletedBooksRemoved == Spec => []DeletedBookRemoved
  <1>1. Init => DeletionDue
    BY DEF Init, BookServiceInit, DeletionDue
  <1>2. TypeOK /\ QueueNeedsConsumer /\ DeletionDue /\ [Next]_vars => DeletionDue'
    BY DeletionDueStep
  <1>3. DeletionDue => DeletedBookRemoved
    BY DEF DeletionDue, DueAfter, DeletedBookRemoved, Queued
  <1> QED
    BY <1>1, <1>2, <1>3, TypeCorrect, QueueAlwaysNeedsConsumer, PTL DEF Spec

-------------------------------------------------------------------------------
(* The mirror at rest.                                                       *)

\* What is wrong in the mirror when nothing is under way: the theorems about the
\* consumer and about the sync, put together.
THEOREM MirrorAlwaysAccounted == Spec => []MirrorAccounted
  <1>1. TypeOK /\ LiveBookMirrored /\ DeletedBookRemoved /\ SnapshotSaved /\ MirrorCommitted
          => MirrorAccounted
    <2> SUFFICES ASSUME TypeOK, LiveBookMirrored, DeletedBookRemoved, SnapshotSaved,
                        MirrorCommitted, AtRest, NEW b \in BookId
                 PROVE  /\ books[b] = "live" => coll[b] # "none" \/ b \in missed
                        /\ books[b] = "absent" => coll[b] = "none"
                        /\ books[b] = "deleted" =>
                              \/ coll[b] = "none"
                              \/ coll[b] = "sync" /\ snap[b] = "live"
                              \/ coll[b] = "event" /\ b \in unremoved \union overtaken
      BY DEF MirrorAccounted
    <2>1. ~Unannounced("book.created", b) /\ ~Unannounced("book.deleted", b)
      BY DEF AtRest, Unannounced, Idle, Announcing
    <2>2. Len(queue) = 0
      BY DEF AtRest
    <2>3. ~Queued("book.created", b) /\ ~Queued("book.deleted", b)
      BY <2>2 DEF Queued
    <2>4. books[b] = "live" => coll[b] # "none" \/ b \in missed
      BY <2>1, <2>3 DEF LiveBookMirrored
    <2>5. coll[b] \in {"none", "event", "sync"}
      BY DEF TypeOK, ReviewTypeOK, Stamps
    <2>6. coll[b] = "sync" => snap[b] = "live"
      BY DEF AtRest, SnapshotSaved
    <2>7. books[b] = "deleted" /\ coll[b] = "event" => b \in unremoved \union overtaken
      BY <2>1, <2>3 DEF DeletedBookRemoved
    <2> QED
      BY <2>4, <2>5, <2>6, <2>7 DEF MirrorCommitted, Committed
  <1> QED
    BY <1>1, TypeCorrect, LiveBooksMirrored, DeletedBooksRemoved, SnapshotAlwaysSaved,
       MirrorAlwaysCommitted, PTL
===============================================================================
