------------------------------- MODULE BookSync -------------------------------
(***************************************************************************)
(* The books pipeline: book-service, broker and review-service together.   *)
(* Ids are created and deleted in the book-service, announced through the  *)
(* broker, and mirrored by the review-service, whose one-shot sync runs    *)
(* beside its consumer in no particular order.                             *)
(*                                                                         *)
(* The last four variables are history; no action of the program reads     *)
(* them.  "faults" counts the failures the environment has caused.         *)
(***************************************************************************)
EXTENDS BookService, ReviewBooks, FiniteSets

CONSTANTS
    MaxBacklog,  \* bound: announcements under way and queued
    MaxFaults    \* bound: failures of the environment

ASSUME BoundsAssumption == MaxBacklog \in Nat /\ MaxFaults \in Nat

VARIABLES
    faults,
    missed,      \* books whose creation never reached the mirror and which no
                 \* completed snapshot has covered since
    unremoved,   \* books one of whose deletions never reached the mirror
    overtaken    \* books whose deletion was announced before their creation

historyVars == <<missed, unremoved, overtaken>>
vars == <<bookVars, brokerVars, reviewVars, faults, historyVars>>

TypeOK ==
    /\ BookServiceTypeOK
    /\ BrokerTypeOK
    /\ ReviewTypeOK
    /\ faults \in 0..MaxFaults
    /\ missed \in SUBSET BookId
    /\ unremoved \in SUBSET BookId
    /\ overtaken \in SUBSET BookId

Init ==
    /\ BookServiceInit
    /\ BrokerInit
    /\ ReviewInit
    /\ faults = 0
    /\ missed = {}
    /\ unremoved = {}
    /\ overtaken = {}

-------------------------------------------------------------------------------
(* History: what becomes of announcements.                                   *)

Lose(created, deleted) ==
    /\ missed' = missed \union created
    /\ unremoved' = unremoved \union deleted
    /\ UNCHANGED overtaken

ServedBy(r, key) == IF req[r] \in Serving /\ req[r] = Announcing(key, req[r].book)
                    THEN {req[r].book} ELSE {}
LoseRequest(r) == Lose(ServedBy(r, "book.created"), ServedBy(r, "book.deleted"))

\* Announcements of one kind among the queued messages from position n on.
QueuedFrom(n, key) == {b \in BookId : \E i \in n..Len(queue) : queue[i] = Note(key, b)}
LoseQueuedFrom(n) == Lose(QueuedFrom(n, "book.created"), QueuedFrom(n, "book.deleted"))

Fault == faults < MaxFaults /\ faults' = faults + 1

-------------------------------------------------------------------------------
(* The book-service.                                                         *)

\* Bound: no more requests than the backlog has room for.
HasRoom == Len(queue) + Cardinality({r \in Request : req[r] # Idle}) < MaxBacklog

Create(r, b) ==
    /\ HasRoom
    /\ CreateBook(r, b)
    /\ UNCHANGED <<brokerVars, reviewVars, faults, historyVars>>

DeleteGet(r, b) ==
    /\ HasRoom
    /\ FindForDelete(r, b)
    /\ UNCHANGED <<brokerVars, reviewVars, faults, historyVars>>

DeleteCommit(r) ==
    /\ CommitDelete(r)
    /\ UNCHANGED <<brokerVars, reviewVars, faults, historyVars>>

Publish(r) ==
    /\ Announce(r)
    /\ missed' = missed \union
          (IF Routed("book.created") THEN {} ELSE ServedBy(r, "book.created"))
    /\ unremoved' = unremoved \union
          (IF Routed("book.deleted") THEN {} ELSE ServedBy(r, "book.deleted"))
    /\ overtaken' = overtaken \union
          {b \in ServedBy(r, "book.deleted") : Unannounced("book.created", b)}
    /\ UNCHANGED <<reviewVars, faults>>

PublishRefused(r) ==
    /\ AnnounceRefused(r)
    /\ LoseRequest(r)
    /\ UNCHANGED <<reviewVars, faults>>

FailRequest(r) ==
    /\ Fault
    /\ RequestFails(r)
    /\ LoseRequest(r)
    /\ UNCHANGED <<brokerVars, reviewVars>>

RestartBookService ==
    /\ Fault
    /\ BookServiceRestart
    /\ Lose({b \in BookId : Unannounced("book.created", b)},
            {b \in BookId : Unannounced("book.deleted", b)})
    /\ UNCHANGED <<brokerVars, reviewVars>>

BookServiceNext ==
    \/ \E r \in Request, b \in BookId : Create(r, b) \/ DeleteGet(r, b)
    \/ \E r \in Request : \/ DeleteCommit(r) \/ Publish(r)
                          \/ PublishRefused(r) \/ FailRequest(r)
    \/ RestartBookService

-------------------------------------------------------------------------------
(* The consumer of the review-service, with the broker.                      *)

Declare == ConsumerDeclare /\ UNCHANGED <<bookVars, faults, historyVars>>
Bind    == ConsumerBind /\ UNCHANGED <<bookVars, faults, historyVars>>
Consume == ConsumerConsume /\ UNCHANGED <<bookVars, faults, historyVars>>

AbandonSetup ==
    /\ Fault
    /\ ConsumerSetupFails
    /\ LoseQueuedFrom(1)
    /\ UNCHANGED bookVars

LoseBroker(up) ==
    /\ Fault
    /\ LoseConnections(up)
    /\ LoseQueuedFrom(Len(queue') + 1)
    /\ UNCHANGED bookVars

RestartBroker == BrokerRestart /\ UNCHANGED <<bookVars, reviewVars, faults, historyVars>>

Handle ==
    /\ HandleBookCreated \/ HandleBookDeleted
    /\ UNCHANGED <<bookVars, faults, historyVars>>

FailHandler ==
    /\ Fault
    /\ HandlerFails
    /\ Lose({Head(queue).book} \intersect QueuedFrom(1, "book.created"),
            {Head(queue).book} \intersect QueuedFrom(1, "book.deleted"))
    /\ UNCHANGED bookVars

EndConsumer == ConsumerReturns /\ UNCHANGED <<bookVars, faults, historyVars>>

ConsumerNext ==
    \/ Declare \/ Bind \/ Consume \/ AbandonSetup
    \/ \E up \in BOOLEAN : LoseBroker(up)
    \/ RestartBroker \/ Handle \/ FailHandler \/ EndConsumer

-------------------------------------------------------------------------------
(* The sync of the review-service, with the book-service.                    *)

Token       == GetServiceToken /\ UNCHANGED <<bookVars, brokerVars, faults, historyVars>>
Snapshot    == GetBooksSnapshot(books) /\ UNCHANGED <<bookVars, brokerVars, faults, historyVars>>
Save(b)     == SaveBook(b) /\ UNCHANGED <<bookVars, brokerVars, faults, historyVars>>

FinishSync ==
    /\ SyncDone
    /\ missed' = {b \in missed : snap[b] = "absent"}
    /\ UNCHANGED <<unremoved, overtaken, bookVars, brokerVars, faults>>

FailSync == Fault /\ SyncFails /\ UNCHANGED <<bookVars, brokerVars, historyVars>>

RestartReviewService ==
    /\ Fault
    /\ ReviewServiceRestart
    /\ LoseQueuedFrom(1)
    /\ UNCHANGED bookVars

SyncNext ==
    \/ Token \/ Snapshot \/ \E b \in BookId : Save(b)
    \/ FinishSync \/ FailSync \/ RestartReviewService

Next == BookServiceNext \/ ConsumerNext \/ SyncNext

Spec == Init /\ [][Next]_vars

\* Requests being served run on, the goroutines are scheduled, and calls to a
\* peer that is up return.  Clients, failures and the restart of a stopped
\* broker (docker-compose.yml has no restart policy) are not obliged to happen.
Fairness ==
    /\ \A r \in Request : WF_vars(DeleteCommit(r)) /\ WF_vars(Publish(r) \/ PublishRefused(r))
    /\ WF_vars(Declare) /\ WF_vars(Bind) /\ WF_vars(Consume)
    /\ WF_vars(Handle) /\ WF_vars(EndConsumer)
    /\ WF_vars(Token) /\ WF_vars(Snapshot) /\ WF_vars(FinishSync)
    /\ \A b \in BookId : WF_vars(Save(b))

FairSpec == Spec /\ Fairness

-------------------------------------------------------------------------------
(* Properties.                                                               *)

Mirror == INSTANCE BookMirror WITH
            catalog <- books, mirror <- {b \in BookId : coll[b] # "none"}

\* The review-service takes in only ids the book-service has committed and
\* drops only ids it has deleted, and no book comes back from the dead
\* (route_handlers.py, book_handler.go and book_sync_worker.go together).
MirrorSpec == Mirror!Spec

\* What an announcement says has happened in the catalogue.
NewsTrue(key, b) == IF key = "book.created" THEN Committed(b) ELSE books[b] = "deleted"

RequestsBacked ==
    \A r \in Request : req[r] # Idle =>
        /\ Committed(req[r].book)
        /\ req[r].step = "announcing" => NewsTrue(req[r].key, req[r].book)

QueueBacked == \A i \in 1..Len(queue) : NewsTrue(queue[i].key, queue[i].book)

SnapshotBacked ==
    /\ \A b \in BookId :
          /\ snap[b] # "absent" => Committed(b)
          /\ snap[b] = "deleted" => books[b] = "deleted"
    /\ todo # {} => sync = "saving"
    /\ \A b \in todo : snap[b] # "absent"

\* Whatever is under way to the review-service is already committed and stays
\* true: the announcements being published or queued, and the snapshot being
\* saved (the commit precedes publish_message in create_book and delete_book).
NewsBacked == RequestsBacked /\ QueueBacked /\ SnapshotBacked

\* A live book is in the mirror, or its creation is still under way, unless the
\* announcement was lost and no snapshot taken later has completed: the
\* announcements and the sync leave no other gap between them.
LiveBookMirrored ==
    \A b \in BookId :
        books[b] = "live" /\ b \notin missed =>
            \/ coll[b] # "none"
            \/ Unannounced("book.created", b)
            \/ Queued("book.created", b)

\* A document stored by the consumer outlives its book only while the deletion
\* is under way, or when the deletion was lost or announced before the creation
\* (HandleBookDeleted finds what HandleBookCreated stored).
DeletedBookRemoved ==
    \A b \in BookId :
        /\ books[b] = "deleted"
        /\ coll[b] = "event"
        /\ b \notin unremoved \union overtaken
        => Unannounced("book.deleted", b) \/ Queued("book.deleted", b)

\* A completed sync leaves every book that was live in its snapshot in the
\* mirror, unless it has been deleted since; and the documents with the sync's
\* stamp, those of earlier syncs included, are of books live in this snapshot
\* (saveBooksSnapshot, whatever the consumer did meanwhile).
SnapshotSaved ==
    sync = "done" =>
        \A b \in BookId :
            /\ snap[b] = "live" => coll[b] # "none" \/ books[b] = "deleted"
            /\ coll[b] = "sync" => snap[b] = "live"

\* No request is being served, nothing is queued, and a snapshot is saved.
AtRest == /\ \A r \in Request : req[r] = Idle
          /\ queue = <<>> /\ sync = "done"

\* The whole account of what the mirror may get wrong.  At rest it lacks only
\* books whose announcement was lost, and keeps, of deleted books, only
\* documents of the sync whose book was deleted after the snapshot, and those
\* of the consumer whose deletion was lost or overtook the creation.
MirrorAccounted ==
    AtRest =>
        \A b \in BookId :
            /\ books[b] = "live" => coll[b] # "none" \/ b \in missed
            /\ books[b] = "absent" => coll[b] = "none"
            /\ books[b] = "deleted" =>
                  \/ coll[b] = "none"
                  \/ coll[b] = "sync" /\ snap[b] = "live"
                  \/ coll[b] = "event" /\ b \in unremoved \union overtaken

\* While it binds or consumes, the consumer is connected to a broker that is up
\* and holds the exclusive queue; it consumes only once both keys are bound; and
\* an orphaned queue leaves it dialing (the retry loop of StartBookConsumer).
ListeningMeansBound ==
    /\ consumer \in {"binding", "consuming"} => brokerUp /\ queueOwner = "consumer"
    /\ consumer = "consuming" => bindings = RoutingKeys
    /\ queueOwner = "orphan" => consumer = "dialing"

\* Once the consumer is consuming, only a failure can lose an announcement.
NothingLostWhileConsuming ==
    [][consumer = "consuming" /\ faults' = faults =>
          missed' \subseteq missed /\ unremoved' \subseteq unremoved]_vars

\* The log line of HandleBookDeleted for DeletedCount = 0: "No book with id:
\* %d, nothing was deleted."
NothingDeletedMeansNoBook ==
    [][HandleBookDeleted /\ coll' = coll => coll[Head(queue).book] = "none"]_vars

\* StartBookSync ends: with finitely many failures its retry loop gets a
\* snapshot saved.
SyncCompletes == <>[](sync = "done")

\* With a broker that stays up, StartBookConsumer ends up listening, or has
\* returned for good, or is locked out by the queue of its own abandoned
\* connection.
ConsumerSettles ==
    <>[]brokerUp => <>[](consumer \in {"consuming", "ended"} \/ queueOwner = "orphan")

\* A created book whose announcement is not lost reaches the mirror.
CreationArrives ==
    \A b \in BookId :
        books[b] = "live" ~> coll[b] # "none" \/ books[b] = "deleted" \/ b \in missed

\* A deletion reaches a document stored by the consumer unless it was lost or
\* overtook the creation.
DeletionArrives ==
    \A b \in BookId :
        books[b] = "deleted" /\ coll[b] = "event" ~>
            coll[b] # "event" \/ b \in unremoved \union overtaken
===============================================================================
