----------------------------- MODULE BooksBroker ------------------------------
(***************************************************************************)
(* The RabbitMQ broker as the books pipeline uses it: a topic exchange and *)
(* the one queue the review-service declares, non-durable, exclusive and   *)
(* auto-delete.  The queue belongs to the connection that declared it: it  *)
(* vanishes with that connection, and while it exists no other connection  *)
(* can declare it.  "queue" also holds what the broker has already pushed  *)
(* into the buffer of the auto-acknowledging consumer.                     *)
(***************************************************************************)
EXTENDS Integers, Sequences

CONSTANT BookId

VARIABLES
    brokerUp,    \* the broker accepts connections
    queue,       \* announcements routed and not yet handled, oldest first
    bindings,    \* routing keys the queue is bound to
    queueOwner   \* "nobody", "consumer", or "orphan": a connection that the
                 \* consumer abandoned in an earlier attempt and never closed

brokerVars == <<brokerUp, queue, bindings, queueOwner>>

RoutingKeys == {"book.created", "book.deleted"}
QueueOwners == {"nobody", "consumer", "orphan"}
Announcement == [key : RoutingKeys, book : BookId]
Note(key, b) == [key |-> key, book |-> b]

BrokerTypeOK ==
    /\ brokerUp \in BOOLEAN
    /\ queue \in Seq(Announcement)
    /\ bindings \subseteq RoutingKeys
    /\ queueOwner \in QueueOwners

BrokerInit ==
    /\ brokerUp = TRUE
    /\ queue = <<>>
    /\ bindings = {}
    /\ queueOwner = "nobody"

Queued(key, b) == \E i \in 1..Len(queue) : queue[i] = Note(key, b)

\* A topic exchange hands a message to the queues bound to its routing key and
\* discards it when there is none.  What reaches an orphan's queue is read by
\* nobody and goes with it, so it is discarded at once here.
Routed(key) == queueOwner = "consumer" /\ key \in bindings

BrokerPublish(key, b) ==
    /\ brokerUp
    /\ queue' = IF Routed(key) THEN Append(queue, Note(key, b)) ELSE queue
    /\ UNCHANGED <<brokerUp, bindings, queueOwner>>

\* The exclusive queue is locked as long as another connection holds it.
BrokerDeclareQueue ==
    /\ brokerUp
    /\ queueOwner = "nobody"
    /\ queueOwner' = "consumer"
    /\ queue' = <<>>
    /\ bindings' = {}
    /\ UNCHANGED brokerUp

BrokerBind(key) ==
    /\ brokerUp
    /\ bindings' = bindings \union {key}
    /\ UNCHANGED <<brokerUp, queue, queueOwner>>

\* The owner's connection goes: the queue is deleted, and of what was pushed
\* to the client the first kept messages are still in its hands.
QueueGone(owner, kept) ==
    /\ queueOwner' = owner
    /\ bindings' = {}
    /\ queue' = SubSeq(queue, 1, kept)

BrokerRestart ==
    /\ ~brokerUp
    /\ brokerUp' = TRUE
    /\ UNCHANGED <<queue, bindings, queueOwner>>
===============================================================================
