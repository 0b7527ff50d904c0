----------------------------- MODULE BookService ------------------------------
(***************************************************************************)
(* The book-service: the books table and the admin requests that change    *)
(* it.  One uvicorn worker serves every request, so requests interleave    *)
(* at the awaits of create_book and delete_book and nowhere else.  A row   *)
(* is committed first and announced afterwards, over a connection opened   *)
(* for that one message; there is no outbox.                               *)
(***************************************************************************)
EXTENDS BooksBroker

CONSTANT Request   \* slots for requests being served at the same time

VARIABLES
    books,   \* [BookId -> {"absent", "live", "deleted"}], the books table
    req      \* what each slot is doing

bookVars == <<books, req>>

BookStates == {"absent", "live", "deleted"}
Idle == [step |-> "idle"]
Deleting(b) == [step |-> "deleting", key |-> "book.deleted", book |-> b]
Announcing(key, b) == [step |-> "announcing", key |-> key, book |-> b]
Serving == [step : {"deleting", "announcing"}, key : RoutingKeys, book : BookId]

BookServiceTypeOK ==
    /\ books \in [BookId -> BookStates]
    /\ req \in [Request -> {Idle} \union Serving]

BookServiceInit ==
    /\ books = [b \in BookId |-> "absent"]
    /\ req = [r \in Request |-> Idle]

Committed(b) == books[b] # "absent"

\* A change is committed and its announcement has not reached the broker yet.
Unannounced(key, b) == \E r \in Request : req[r] = Announcing(key, b)

\* POST /: the row is committed; the refresh that follows is one more await
\* before the announcement and changes nothing.  Ids are handed out once.
CreateBook(r, b) ==
    /\ req[r] = Idle
    /\ books[b] = "absent"
    /\ books' = [books EXCEPT ![b] = "live"]
    /\ req' = [req EXCEPT ![r] = Announcing("book.created", b)]

\* DELETE /{bookId}, up to the commit.  A row already soft-deleted is found
\* too: only an unknown id is a 404.
Deletable(b) == Committed(b)

FindForDelete(r, b) ==
    /\ req[r] = Idle
    /\ Deletable(b)
    /\ req' = [req EXCEPT ![r] = Deleting(b)]
    /\ UNCHANGED books

CommitDelete(r) ==
    /\ req[r].step = "deleting"
    /\ books' = [books EXCEPT ![req[r].book] = "deleted"]
    /\ req' = [req EXCEPT ![r] = Announcing("book.deleted", req[r].book)]

\* publish_message succeeds, whether or not a queue is bound.
Announce(r) ==
    /\ req[r].step = "announcing"
    /\ BrokerPublish(req[r].key, req[r].book)
    /\ req' = [req EXCEPT ![r] = Idle]
    /\ UNCHANGED books

\* publish_message cannot connect and raises: the client gets a 500 for a
\* change that stays committed.
AnnounceRefused(r) ==
    /\ req[r].step = "announcing"
    /\ ~brokerUp
    /\ req' = [req EXCEPT ![r] = Idle]
    /\ UNCHANGED <<books, brokerVars>>

\* The statement after an await raises (database or broker error).
RequestFails(r) ==
    /\ req[r] # Idle
    /\ req' = [req EXCEPT ![r] = Idle]
    /\ UNCHANGED books

\* The process dies and is started again; the table survives.
BookServiceRestart ==
    /\ \E r \in Request : req[r] # Idle
    /\ req' = [r \in Request |-> Idle]
    /\ UNCHANGED books
===============================================================================
