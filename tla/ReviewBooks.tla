----------------------------- MODULE ReviewBooks ------------------------------
(***************************************************************************)
(* The review-service's copy of the book ids (the MongoDB collection       *)
(* "books") and the two goroutines that write it, started together by      *)
(* main: StartBookConsumer handles announcements from the broker, and      *)
(* StartBookSync fetches one snapshot of the catalogue and saves it.       *)
(* A document keeps the stamp of its writer: the consumer stores the       *)
(* string "43", the sync the current date.                                 *)
(***************************************************************************)
EXTENDS BooksBroker

VARIABLES
    coll,      \* [BookId -> Stamps]: the document of each book, "none" without
    consumer,  \* where StartBookConsumer is
    sync,      \* where StartBookSync is
    snap,      \* the snapshot the sync works on
    todo       \* the writes of the bulk that are not applied yet

consumerVars == consumer
syncVars == <<sync, snap, todo>>
reviewVars == <<coll, consumer, sync, snap, todo>>

Stamps == {"none", "event", "sync"}
ConsumerSteps == {"dialing", "binding", "consuming", "draining", "ended"}
SyncSteps == {"token", "snapshot", "saving", "done"}

ReviewTypeOK ==
    /\ coll \in [BookId -> Stamps]
    /\ consumer \in ConsumerSteps
    /\ sync \in SyncSteps
    /\ snap \in [BookId -> {"absent", "live", "deleted"}]
    /\ todo \in SUBSET BookId

NoSnapshot == [b \in BookId |-> "absent"]

ReviewInit ==
    /\ coll = [b \in BookId |-> "none"]
    /\ consumer = "dialing"
    /\ sync = "token"
    /\ snap = NoSnapshot
    /\ todo = {}

-------------------------------------------------------------------------------
(* StartBookConsumer.  A failed attempt up to the queue declaration leaves   *)
(* nothing behind and is retried, so it is a stuttering step here.           *)

\* Dial, Channel, ExchangeDeclare and QueueDeclare all succeed.
ConsumerDeclare ==
    /\ consumer = "dialing"
    /\ BrokerDeclareQueue
    /\ consumer' = "binding"
    /\ UNCHANGED <<coll, syncVars>>

\* Mutant: every round of the loop binds the first key.
ConsumerBindFirstKey ==
    /\ consumer = "binding"
    /\ bindings # RoutingKeys
    /\ BrokerBind("book.created")
    /\ UNCHANGED reviewVars

\* One round of the loop over routingKeys: created first, then deleted.
ConsumerBind ==
    /\ consumer = "binding"
    /\ bindings # RoutingKeys
    /\ BrokerBind(IF bindings = {} THEN "book.created" ELSE "book.deleted")
    /\ UNCHANGED reviewVars

\* Mutant: consuming starts in the middle of the loop over routingKeys.
ConsumerConsumeEarly ==
    /\ consumer = "binding"
    /\ brokerUp
    /\ consumer' = "consuming"
    /\ UNCHANGED <<coll, syncVars, brokerVars>>

ConsumerConsume ==
    /\ consumer = "binding"
    /\ bindings = RoutingKeys
    /\ brokerUp
    /\ consumer' = "consuming"
    /\ UNCHANGED <<coll, syncVars, brokerVars>>

\* QueueBind or Consume fails on an open connection: the attempt is abandoned
\* by "continue" while its connection, which owns the exclusive queue, stays
\* open (its deferred Close runs only when the function returns).
ConsumerSetupFails ==
    /\ consumer = "binding"
    /\ brokerUp
    /\ consumer' = "dialing"
    /\ QueueGone("orphan", 0)
    /\ UNCHANGED <<brokerUp, coll, syncVars>>

\* The consumer loses its connection, because the broker stops (up = FALSE)
\* or alone (up = TRUE); an orphan's queue goes only with the broker.  While
\* consuming, the client library may still deliver some of what it buffered.
LoseConnections(up) ==
    /\ brokerUp
    /\ brokerUp' = up
    /\ \/ /\ queueOwner = "consumer"
          /\ \E kept \in 0..Len(queue) :
                /\ consumer = "binding" => kept = 0
                /\ QueueGone("nobody", kept)
          /\ consumer' = IF consumer = "consuming" THEN "draining" ELSE "dialing"
       \/ /\ queueOwner # "consumer"
          /\ ~up
          /\ QueueGone("nobody", Len(queue))
          /\ UNCHANGED consumer
    /\ UNCHANGED <<coll, syncVars>>

Consuming == consumer \in {"consuming", "draining"}

\* Mutant: the insert is lost without an error.
InsertDropped(b) == coll

\* InsertOne; the unique index on bookId turns a second document away.
InsertBook(b) == IF coll[b] = "none" THEN [coll EXCEPT ![b] = "event"] ELSE coll

HandleBookCreated ==
    /\ Consuming
    /\ queue # <<>>
    /\ Head(queue).key = "book.created"
    /\ coll' = InsertBook(Head(queue).book)
    /\ queue' = Tail(queue)
    /\ UNCHANGED <<brokerUp, bindings, queueOwner, consumer, syncVars>>

\* Mutant: each delivery is stamped anew, so the filter matches nothing.
MatchesNothing(b) == FALSE

\* DeleteOne with the whole unmarshalled struct as its filter, so the stamp
\* has to be the consumer's own.
MatchesFilter(b) == coll[b] = "event"

HandleBookDeleted ==
    /\ Consuming
    /\ queue # <<>>
    /\ Head(queue).key = "book.deleted"
    /\ coll' = [b \in BookId |-> IF b = Head(queue).book /\ MatchesFilter(b)
                                 THEN "none" ELSE coll[b]]
    /\ queue' = Tail(queue)
    /\ UNCHANGED <<brokerUp, bindings, queueOwner, consumer, syncVars>>

\* The handler's write fails or times out: logged, and the message, which was
\* acknowledged on delivery, is not seen again.
HandlerFails ==
    /\ Consuming
    /\ queue # <<>>
    /\ queue' = Tail(queue)
    /\ UNCHANGED <<brokerUp, bindings, queueOwner, reviewVars>>

\* The delivery channel is closed and drained: the loop ends, the function
\* returns, and nothing starts it again.
ConsumerReturns ==
    /\ consumer = "draining"
    /\ queue = <<>>
    /\ consumer' = "ended"
    /\ UNCHANGED <<coll, syncVars, brokerVars>>

-------------------------------------------------------------------------------
(* StartBookSync.                                                            *)

GetServiceToken ==
    /\ sync = "token"
    /\ sync' = "snapshot"
    /\ UNCHANGED <<coll, consumer, snap, todo>>

\* The book-service answers with every row, the soft-deleted ones included;
\* the bulk has one write per row.
GetBooksSnapshot(books) ==
    /\ sync = "snapshot"
    /\ snap' = books
    /\ todo' = {b \in BookId : books[b] # "absent"}
    /\ sync' = "saving"
    /\ UNCHANGED <<coll, consumer>>

\* Mutant: the update is not an upsert.
WriteModelNoUpsert(b) == IF snap[b] = "deleted" THEN "none" ELSE coll[b]

\* Mutant: the test of IsDeleted is inverted.
WriteModelInverted(b) == IF snap[b] = "live" THEN "none" ELSE "sync"

\* One write of the unordered bulk: a deleted row deletes by bookId alone, a
\* live row is an upsert that sets fields only when it inserts.
WriteModel(b) ==
    IF snap[b] = "deleted" THEN "none"
    ELSE IF coll[b] = "none" THEN "sync" ELSE coll[b]

SaveBook(b) ==
    /\ sync = "saving"
    /\ b \in todo
    /\ coll' = [coll EXCEPT ![b] = WriteModel(b)]
    /\ todo' = todo \ {b}
    /\ UNCHANGED <<consumer, sync, snap>>

\* Mutant: an empty snapshot is handed to BulkWrite, which refuses it.
SyncDoneUnlessEmpty ==
    /\ sync = "saving"
    /\ todo = {}
    /\ snap # NoSnapshot
    /\ sync' = "done"
    /\ UNCHANGED <<coll, consumer, snap, todo>>

\* The bulk has been acknowledged; an empty snapshot gets here with no write.
SyncDone ==
    /\ sync = "saving"
    /\ todo = {}
    /\ sync' = "done"
    /\ UNCHANGED <<coll, consumer, snap, todo>>

\* The token, the snapshot or the bulk (possibly half applied) fails: after
\* the backoff the loop starts over.
SyncFails ==
    /\ sync \in {"snapshot", "saving"}
    /\ sync' = "token"
    /\ snap' = NoSnapshot
    /\ todo' = {}
    /\ UNCHANGED <<coll, consumer>>

\* The process dies and is started again: both goroutines start over, the
\* connections and with them the queue are gone, the collection stays.
ReviewServiceRestart ==
    /\ consumer' = "dialing"
    /\ sync' = "token"
    /\ snap' = NoSnapshot
    /\ todo' = {}
    /\ QueueGone("nobody", 0)
    /\ UNCHANGED <<brokerUp, coll>>
===============================================================================
