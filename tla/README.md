# BookHub: verification notes

BookHub is a set of small services behind a gateway: books, reviews, users,
authentication, avatars and a health monitor, written in Python, Go, Node, C#
and Elixir, and talking over HTTP and RabbitMQ. The directory holds TLA+
modules of its own logic, TLC configurations for small instances, and proofs
for TLAPS. Paths below are relative to `src/solution/services` unless they say
otherwise.

## 1. Inventory

| Component | State | Operations | What makes it correct |
|---|---|---|---|
| book-service catalogue (`book-service/app/route_handlers.py`, `pubsub/book_publisher.py`) | `books` table; requests suspended at an `await` | create, delete, list, internal snapshot; one announcement per change | a row is announced only after its commit; a deleted row never becomes live |
| books broker (RabbitMQ) | one exclusive, auto-delete queue, its bindings and its owner | route, bind, drop with the connection | an announcement reaches the queue or is dropped; nothing in between |
| review-service book consumer (`review-service/app/pubsub/book_consumer.go`, `book_handler.go`) | broker connection, `books` collection | declare, bind, consume, insert, delete, reconnect | the collection follows the announcements it is sent |
| review-service book sync (`review-service/app/workers/book_sync_worker.go`) | snapshot, bulk under way | token, snapshot, bulk, retry | a completed sync covers its snapshot whatever the consumer does meanwhile |
| review-service reviews (`route_handlers.go`) | `reviews` collection | add, remove, list by book | only the owner or an admin removes |
| retry delays (`common/retry.go`, `health_subscriber.ex`, `broker-connection.js`) | attempt counter | next delay | positive, growing, capped |
| health-monitor-service (`health_subscriber.ex`, `StatusUpdater.ex`, `storage.ex`) | one ETS table row per service | merge a heartbeat (4 at a time), recompute statuses | a row shows the newest heartbeat and the status it implies |
| heartbeat publishers (five services, four shapes) | connection, channel | connect, publish, reconnect | a service that runs is heard of again after the broker returns |
| user-service accounts (`user-service/app/route-handlers.js`) | `users` table | register, verify, update, change or reset password, delete | no update is applied to a row that is gone; an accepted password verifies |
| auth-service tokens (`auth-service/Program.cs`, `TokenService.cs`) | one signing key per process | login, service token, key set | tokens verify against the published key |
| JWKS caches (five verifiers) | cached key set, its age | fetch, expire, look up | a valid token is accepted once the cache can know its key |
| media-service avatars (`media-service/app/route_handlers.py`) | files in one directory | upload, get, remove | at most one avatar per user; a download is a whole picture once the last upload is over |
| api-gateway (`src/solution/api-gateway`) | none between requests | forward a request | - |
| start-up (`book-service/app/db/migrate.py`, `db/alembic`, `user-service/app/server.js`, `db/migrations`) | what a database has, and the record of it; the delay before the next attempt | migrate, connect, listen | a start does not depend on how an earlier one ended; a service that runs serves in the end |
| angular-client, `docker-compose.yml` | - | - | user interface and configuration |

How they interact:

* book-service -> broker -> review-service: `book.created` and `book.deleted`
  on a topic exchange;
* review-service -> auth-service -> book-service: a service token, then
  `GET /internal/snapshot`, once at start-up until it succeeds;
* every service -> broker -> health-monitor: a heartbeat every 5 or 10 seconds
  on a fanout exchange;
* every service -> auth-service: the JWKS document, cached by each in its way;
* auth-service -> user-service: `POST /internal/verify` at login;
* client -> api-gateway -> any service: one request, one response.

The hard behaviours are where two of these overlap: the consumer and the sync
write one collection without knowing of each other; every announcement is sent
after its commit, at most once, to a queue that exists only while one
connection does; a retry loop abandons a connection that still owns that
queue; a `DELETE` can overtake the `POST` it follows. `PROJECT.json` lists the
hazards one by one with their lines.

## 2. Plan

Done:

1. **Books pipeline**: `BookMirror` (abstract), `BooksBroker`, `BookService`,
   `ReviewBooks`, composed in `BookSync`; proofs in `BookSyncProofs`.
2. **Health monitor**: `HealthMonitor`; proofs in `HealthMonitorProofs`.
3. **Heartbeat publishers**: `HeartbeatPublishers`, four reconnect loops against
   a broker that comes and goes; proofs in `HeartbeatPublishersProofs`.
4. **Keys**: `SigningKey`, used by `JwksCaches` (two verifiers that ask by the
   clock) and `ReviewKeys` (one that asks by need, from many goroutines); proofs
   in `JwksCachesProofs` and `ReviewKeysProofs`.
5. **Accounts**: `AccountTable` (abstract), implemented by `UserAccounts`,
   handlers that read, await and write; proofs in `UserAccountsProofs`.
6. **Avatars**: `MediaAvatars`, uploads, downloads and removals over one
   directory; proofs in `MediaAvatarsProofs`.
7. **Start-up**: `ServiceStartup`, migrations that are cut off and a client that
   waits for the broker; proofs in `ServiceStartupProofs`.

To come, in this order:

8. `Backoff`: the review-service's delay at its 64 bits (see the hazards) and
   the health-monitor's, checked against a reference.
9. `Reviews`: two concurrent removals of a review.
10. Composition: the publishers with the health monitor (does a broker restart
   show as a late service?), and the accounts' tokens with the key caches; an
   abstract specification of the monitor (the status a reader sees) that
   `HealthMonitor` implements.

## 3. Modules of the books pipeline

| Module | Models | State and its counterpart |
|---|---|---|
| `BookMirror` | what the pipeline promises | `catalog`: the table; `mirror`: ids in the collection |
| `BooksBroker` | RabbitMQ as used here (external) | `queue`: messages routed and not handled, the client's delivery buffer included; `bindings`; `queueOwner`: the consumer's connection, an abandoned one (`"orphan"`), or none; `brokerUp` |
| `BookService` | `create_book`, `delete_book`, `publish_message`, restart | `books[b]`: row of `b`; `req[r]`: where request `r` is suspended |
| `ReviewBooks` | `StartBookConsumer`, its handlers, `StartBookSync`, restart | `coll[b]`: document of `b` and who stamped it; `consumer`, `sync`: program counters; `snap`, `todo`: the snapshot and the bulk's writes not applied yet |
| `BookSync` | the composition | history: `missed`, `unremoved`, `overtaken`; `faults` |

Atomic steps are the code's: one uvicorn worker runs every request, so requests
interleave at awaits only. `CreateBook` ends with the commit, and the refresh
that follows is part of the wait before `Announce`. `delete_book` has a step
up to `db.get`, one for the commit, one for the announcement. A handler of the
consumer is one step because the consumer handles one delivery at a time and
makes one write. The sync takes a step per document of its unordered bulk, so
the consumer's writes come between them. Deletion matches the whole document
(`MatchesFilter`), insertion meets the unique index (`InsertBook`), and the
upsert sets fields only when it inserts (`WriteModel`).

What is abstracted: title, author and timestamps other than "who stamped it";
requests refused before they change anything (403, 404); the contents of an
abandoned queue, which nobody reads; attempts of the consumer that fail before
the queue exists, which leave nothing behind and are stuttering steps; the
delays between attempts. A bulk that times out is taken to stop where it is.

Failures (`faults`, at most `MaxFaults`): a request's database or broker call
fails; book-service or review-service dies and starts again; the consumer's
setup fails on an open connection; its connection or the whole broker goes
down; a handler's write fails; a sync attempt fails at any point. A restart of
the broker is always possible and never obliged: `docker-compose.yml` has no
restart policy.

The history variables record causes. `missed`: a creation did not reach the
queue or was lost from it, and no snapshot taken later has completed.
`unremoved`: the same for a deletion. `overtaken`: a deletion was announced
while the creation of the same book was not. No action reads them.

## 4. The health monitor

`HealthMonitor` is one module: nothing else has a state it shares. A service is
its heartbeats; `beating` holds the services whose heartbeats reach the
monitor's queue at the moment.

| Variable | Counterpart |
|---|---|
| `storage`, `table` | the ETS table: created or not, and its rows |
| `inbox` | heartbeats queued by RabbitMQ, or prefetched by Broadway |
| `proc[p]` | processor `p`: idle, holding a heartbeat (`"got"`), or holding it with the status it has looked up (`"looked"`) |
| `updater`, `elapsed` | the GenServer waits for its timer or works through its list; ticks since |
| `listed[s]` | the copy of row `s` that `tab2list` made, with the status computed for it, until `Enum.each` has come to it |

`handle_message` is three steps (`TakeBeat`, `LookUp`, `Insert`), because two
processors, or a processor and the pass, come between its `:ets.lookup` and its
`:ets.insert`. The pass is `ListRows`, one `UpdateRow` per row, and `EndPass`,
which sets the timer. A row is inserted whole, so `UpdateRow` writes the listed
timestamp too. The supervisor starts the subscriber before the table's owner:
`LookUpRaises` is what a message that comes too early does.

Time. The code reads a timestamp only as its difference to now, so a row keeps
the age of its timestamp, cut off one above the stale treshold, where all ages
are alike. `Tick` makes everything one older. It waits for what is due
(`Prompt`): a message is handled, a timer fires and a pass ends at most `Lag`
ticks late, a publisher publishes every `BeatInterval` ticks. That is the
environment the properties are relative to; an overloaded host is outside.
All containers share the host's clock.

Left out: the JWT check, `stats` and `data`, heartbeats that do not parse (no
publisher sends one), the retry delays of the queue's declaration, and a pass
that raises: the supervisor would start the updater again, and its timer anew,
which puts the next pass off beyond what `SilenceShown` allows for.

## 5. The heartbeat publishers

`HeartbeatPublishers` models one publisher per service against one broker. All
of them connect (a connection, then a channel and the declaration of a fanout
exchange that is not durable), publish for ever, and differ in how they come
back.

| Variable | Counterpart |
|---|---|
| `up`, `exchange` | the broker runs; it has the heartbeat exchange |
| `conn[s]` | the connection the publisher refers to: `"none"`, `"open"`, or gone for the broker and not yet closed for its client, after a close frame (`"shut"`) or without one (`"cut"`) |
| `channel[s]` | it has a channel that is not closed |
| `pc[s]` | where its loop is; `"pause"` is the auth-service's minute, `"dead"` a process that is gone |
| `stray[s]` | connections it has dropped without closing |
| `tries` | attempts used of the auth-service's retry pipeline |

| Service | Loop | Comes back by |
|---|---|---|
| book, media (`heartbeat_publisher.py`) | `PyConnect`, `Setup`, `PyNoticesLoss` | testing `self.connection` before each heartbeat |
| review (`health_publisher.go`, `health_worker.go`) | `GoConnect`, `Setup`, `GoLoopExits` | leaving the publish loop on a close or an error |
| user (`broker-connection.js`) | `UserConnect`, `Setup`, `UserCloses` | its `close` handler |
| auth (`HeartbeatPublisherService.cs`, `Program.cs`) | `AuthConnect`, `Setup`, `AuthFails`, `AuthResumes` | a retry pipeline around everything, then a pause; and `AuthRecovers`, the client library's own recovery |

Faults (`MaxFaults`): the broker stops, with or without a word; it refuses a
channel or a declaration (`Refused`); an operator deletes the exchange; a
container restarts. A dead process may be started again and need not be. What
the libraries do is modelled from how the code uses them: a channel closed by
the broker is known at the next heartbeat (`PublishNowhere` takes both as one
step), an `error` event without a listener ends a node process.

Left out: the sleeps, which only delay; the payload; the orderly shutdown.

## 6. Keys and their caches

`SigningKey` is the auth-service for its verifiers: every process makes a key,
signs with it and publishes it alone. Keys are numbered by process.

`JwksCaches` has the two verifiers that ask by the clock. `cache` is
`jwks_cache` of a Python service with its age, `call[r]` the token request `r`
came with, `fetch[r]` how far it is; `signers` is the ETS table of the
health-monitor's `JwksStrategy`, `strategy` and `delay` its process and timer.
One tick stands for twenty minutes. `Tick` waits for what is due: a fetch ends,
and a timer fires, at most `Lag` late. `calm` counts the ticks since the last
disturbance: a start or stop of the auth-service, a failed call, a restart of a
verifier.

A request to a Python service goes the whole way of `get_current_user` or
`get_service_auth`: `PyArrives` tests the cache; if it is empty, `PyAnswered`
and `PyStore`, with an await between any two, since the key may change and other
requests may store meanwhile; `PyRead` reads the cache, looks the token's key up
and gives the verdict. Between a test that finds the keys and the read there is
no await, so no other request comes in (`Runs`), but the entry may expire. What
the claims say (`Claims`) depends on whose token it is and which endpoint it is
for; a service's token at a user's endpoint lacks the name that `JwtUser`
requires, which is an uncaught error of pydantic. A verdict is `accepted`,
`refused` (401), `unavailable` (the call's error) or `raised` (500). Tokens that
name no key are left out: they are refused before any key is looked for.

`ReviewKeys` has the review-service. `jwks` is its global, `keyOf` the contents
of the sets in memory, `pc[r]` how far the goroutine of request `r` is:
`initJWKS`, the second test, `Keyfunc`, and keyfunc's fetch for a key it lacks.

Each set has a goroutine and a channel with room for one (keyfunc 1.9, modelled
from its use in `initJWKS`; external). A request whose key a set lacks is put
into the channel, or refused at once when someone is in it (`slot`, `Verify`).
When an hour is over the timer puts the hourly refresh into the same channel
(`HourIsOver`), and gives up when there is no room. The goroutine takes one out
(`Take`, `worker`), fetches (`Fetched`, `answer`), and stores what it was sent
(`Stored`) or logs the error (`FetchFails`); in either case the request it did
it for, if it was one, looks into its set again. So a fetch and its storing are
two steps, and the hourly refresh takes a place, and can fail, like any other. A
set that nothing refers to is used again by the next `Load`, and no hours pass
for it. A load is one step: between its answer and its assignment the key may
change too, which leaves the same old set as a restart right after the load.

The user-service is left out: its library looks an unknown key up at once, and
nothing it keeps becomes wrong by a new key.

## 7. Accounts

`UserAccounts` has the table (`users`: a row, an id not given out, or a deleted
user), the valid tokens, and for each request being served the operation it is
at (`pc`) and its copy of the row (`job`). Every handler is two steps, because
it awaits between them: `...Finds` reads the row, checks what is checked on the
copy and prepares what to write; `SaveRole`, `SavePassword`, `Destroy` and
`LoginEnds` write and answer. Sequelize writes only the attributes that differ
from the copy, and takes an update of no row for a success. A refused request
changes nothing and is left out, as are names, which are saved like roles.
`touched` records, for the properties, the requests whose row another request
has changed since they found it. A write may be committed and its confirmation
lost: the request then reports an error for what it has done (`Writes`).

`AccountTable` is what all this promises of the table alone: an id is given out
once, emails are unique, an account changes one column at a time and never its
email, and a deletion is for good. `UserAccounts` implements it with
`accounts <- users` (`TableSpec`): the copies and the awaits leave no trace in
it. That no step writes two columns at once is what Sequelize's saving of the
changed attributes alone achieves; with the whole copy written back, an old
password would return with a new role.

## 8. Avatars

`MediaAvatars` has the files of one user: the names are the user's id and an
extension, so those of different users never meet.

| Variable | Counterpart |
|---|---|
| `file[e]` | the file with extension `e`: absent, empty, torn, or a picture |
| `job[r]` | what request `r` waits for: the body of an upload (`"reading"`), `FileResponse` taking the size (`"serving"`) and opening the file (`"sized"`); `linked` is whether the open file still has its name |
| `latest`, `wanted`, `disturbed`, `early` | history: the upload or removal that began last, what it is to leave, the downloads under way when the directory changed, and those that took the size of a file whose upload was not over or had failed |

`upload_avatar` removes what it finds and opens its file without an await in
between (`remove_avatar` is called with `await` and suspends nowhere), then
awaits the body if the framework has put it on disk (`UploadOpens`, then
`UploadWrites` or `UploadFails`); a small body is in memory, and the whole
handler is one step (`UploadAtOnce`). A file that is removed while it is open
stays writable: an upload that is overtaken writes to it and answers Success. A
file without an extension is saved and can never be found, since the glob asks
for a dot. `get_avatar` hands a path over; `FileResponse` takes the size in a
thread (`GetSizes`), sends it with the headers and only then opens the file, in
another thread (`GetSends`). It breaks off when the two differ or the file is
gone (`Outcomes`), unless the size was nothing: then the headers were the whole
answer, and the client has an empty 200 whatever the file is by then. Since other
requests run between the two steps, that answer can reach the client after the
upload has reported Success.

Left out: an `os.remove` that fails, which changes nothing, and a process that
dies inside one write.

## 9. Start-up

`ServiceStartup` has the two services that bring a SQL database up to date when
they start. `bookDb` and `userDb` are what the database has (`done`) and what it
is recorded to have (`stamp` of Alembic; `recorded`, the table of sequelize-cli);
`book` and `user` are how far the process is. The initial states are the volumes
that earlier releases left. Alembic runs its revisions and moves the stamp in
one transaction of PostgreSQL, so `BookStops` undoes both; sequelize-cli runs a
migration and records it in two statements, `UserApplies` and `UserRecords`. A
process that fails exits, and no restart policy starts it again: the next start
is an operator's, at any time or never.

The user-service then waits for the broker before it listens. `backoff` is
`expBackoff`, `wait` what is left of the delay it is in, in ticks of a second;
`MaxTimer` is the longest delay `setTimeout` takes, above which it fires at once
(`Timer`). `trying` and `deaf` count, for the properties, how long it has been
connecting and for how long it has not looked at a broker that is there. An
attempt takes less than a tick. What happens once it is connected is
`HeartbeatPublishers`.

Left out: the review-service's start. Its code does nothing but exit on an
error; what a start cut off leaves behind (a lock, a dirty flag) and what the
next one makes of it is golang-migrate's.

## 10. Runs

| Run | Instance | Question and answer |
|---|---|---|
| `books` | 1 book, 2 requests, backlog 3, 2 faults | Does the mirror hold only committed books and drop only deleted ones (`MirrorSpec`, refinement of `BookMirror`), and has every gap a named cause (`LiveBookMirrored`, `DeletedBookRemoved`, `SnapshotSaved`, `NothingLostWhileConsuming`), all of them together at rest (`MirrorAccounted`)? Does the sync complete, the consumer settle, and does news that is not lost take effect? Yes, the latter under `Fairness`. |
| `books_log` | 1 book, 1 request, no fault | Is "No book with id: %d, nothing was deleted." true when it is logged? No: see findings. |
| `health` | 1 service, 2 processors, queue 1, 1 restart; ticks of 5 s: tresholds 6 and 12, pass 2, heartbeat 1, lag 1 | Is no row younger than the last heartbeat sent (`NoneYounger`), is a service that keeps beating never called late (`NoFalseAlarm`), one that fell silent soon not shown healthy and then offline (`SilenceShown`; one tick less and the run fails), and one that beats for good shown healthy again and again (`BeatingShown`)? Yes, the last under `Fairness`. |
| `health_log` | no restart, tresholds 2 and 3, pass 1 | Has a service that is logged as "did not check in" really not checked in? No: see findings. |
| `publishers` | book, review, user, auth; 2 retries, 3 faults | Does a publisher end only for a named cause (`StuckHasCause`), is the exchange there whenever one publishes (`DeclaredBeforePublished`), are connections dropped only where the code drops them (`NoStrayConnection`), does every step with the broker up lead towards being heard (`NeverFurther`), and is every publisher heard for good once the broker stays up (`HeardAgain`)? Yes. |
| `publishers_log` | book, 1 fault | Is "Connection lost. Retrying in 5s..." followed by a retry? No: see findings. |
| `keys_clock` | 2 requests, symmetric, 2 auth processes; ticks of 20 min: cache 3, refresh 3, retry 1, lag 1 | For how long is a token judged by another key than the current one (`VerdictsCatchUp`), and the health-monitor without it (`MonitorCatchesUp`)? Four ticks, and six. One tick less and the runs fail. When is a good token answered 500 (`RaisedForCause`)? Only if the entry ran out between the test and the read of one request. |
| `keys_review` | 2 requests, 2 sets, 3 auth processes, 1 fault | Do the unordered loads of the global do harm before a call fails or the auth-service stops (`SafeUndisturbed`)? No. When is a good token refused (`RefusedForCause`)? Only when its own fetch failed, or the hourly refresh or another request was in the channel. Do such refusals end by themselves once the auth-service stays up, without an hour passing (`RefusalsEnd`), and is the set there for good (`LoadedAtLast`)? Yes, under `FairSpec`. |
| `keys_review_race` | 2 requests, 1 fault | Is a set that has been tested for nil there when it is used? No: see findings. |
| `users` | 2 requests, 2 ids, 2 emails, 2 passwords, 2 tokens, symmetric in requests, ids and emails | Does the table move as `AccountTable` says, one column or one deletion at a time, whatever copies requests hold (`TableSpec`), is a reported success true unless the request was overtaken (`SuccessIsTrue`), is a password replaced only by whom it may be (`ReplacedByOwner`)? Yes. |
| `avatars` | 3 requests, symmetric; 2 pictures, 2 extensions and none | Has the user one avatar at most (`OneAvatar`), is it what the upload or removal that began last left (`LastBegunWins`), does a download that arrives arrive whole (`SentIsWhole`), and does one break off only when the directory has changed (`BrokenForCause`)? Yes, with the exceptions the properties name. |
| `startup` | longest delay 5 ticks, 3 faults | Which start fails without a failure of its own (`StartFailsForCause`)? Only the user-service's, after one that died between adding the role column and recording it, and then every later one (`StrandedForGood`). Is it deaf to a broker that is back for longer than it had been trying, or does it spin before `setTimeout` ends (`PacedRetries`)? No. Do both serve in the end (`StartsServe`)? Yes, under `Fairness`. |

Bounds. Documents of different books never touch the same state; what they
share is the queue, the bulk and the consumer, of which the theorems of section
12 hold for any number of books. Two requests let a delete overtake a create; a
backlog of three lets a create and a delete of one book, and a second delete, be
queued together; two faults let a recovery itself fail (for example setup
abandoned, then the broker lost). The run checks deadlock too: a catalogue whose
books are all deleted can still be deleted from.

Rows of different services never meet, so one service is enough for the health
monitor; two processors for one heartbeat to overtake another: the
second is taken from the queue while the first is still being handled. `MaxSilence` and `SettleTime` are where the two
counters of the properties stop.

The media-service runs the same publisher as the book-service, so one of them
is enough. Three faults allow a recovery that is disturbed twice; two retries
let the auth-service use them up and begin again. Two requests are enough
for keyfunc's channel to be full when one comes, since it holds one, and the
hourly refresh is a third that competes for it; two sets are all that two
requests can refer to while one of them loads; three processes of the
auth-service restart it while an answer, a token or a set of an older one is
about. The proofs have any number of each.
Two ids let an account act on another and an email be used again; two tokens
let a user and an administrator act at a time. Publishers and accounts may come
to rest (no fault left; no id left), and a start-up ends when both services
serve, so their runs do not check deadlock.

Three requests of one user are an upload that overtakes another while a third
downloads; two pictures tell whose was kept, two extensions are what a removal
can miss. Two processes of the auth-service are a key that is current and one
that is not; a third adds no new kind of state to caches that hold one key. With
a longest delay of five ticks the fourth is too long; three faults cut off a
start twice and then fail a third, or take the broker away again.

Fairness. For the start-up: a process that runs makes its next step, and time
passes; nothing for the start of a container or of the broker, so `StartsServe`
is conditional on both. For the publishers: each loop goes on, being a thread, goroutine,
event loop or task of its own; nothing for faults, restarts or the start of the
broker. For the review-service's keys: a request's goroutine and a set's go on, and
their calls return; nothing for the auth-service and for the hourly timer. For the
health monitor: processors, pass, timer and table creation
run on (the BEAM schedules every process), time passes, and a connected
publisher that is due publishes. For the books: a request being served runs on, the two goroutines are scheduled,
and a call to a peer that is up returns: weak fairness of each of those steps.
There is none for clients, failures or the broker's restart, and
`ConsumerSettles` is therefore conditional on a broker that stays up. The code
has HTTP calls without a timeout, for which "a call returns" is an assumption.

## 11. Findings

`HandleBookDeleted` uses the whole document as the filter of its `DeleteOne`,
timestamp "43" included. A document written by the sync carries the current
date, never matches, and stays after its book is deleted, while the log says
there was no such book. The run `books_log` shows it with one create, one sync
and one delete. `DeletedBookRemoved` and `DeletionArrives` therefore speak of
documents the consumer stored.

`recalculate_all_statuses` computes statuses from a copy of the table and
inserts the copied rows. A heartbeat merged in between is overwritten, and the
service is logged, and shown, as late although it has just checked in. The run
`health_log` shows it with one service and no failure; the next pass after the
next heartbeat repairs it.

How much of that the monitor tolerates is what `NoFalseAlarm` and its proof
say: a healthy treshold of two heartbeat intervals and four delays. With 30 s
and heartbeats every 10 s (book, media) nothing may be later than 2.5 s; with
heartbeats every 5 s (user, review) than 5 s. And a service must have been
beating for `SettleTime` first: an old row written back by one pass can be
listed by the next and written back once more, as stale and then as offline.

`initJWKS` assigns the result of `keyfunc.Get` to the global also when it is
nil with an error. A request that has tested the global twice can find it nil
at its third reading, when the load of another request fails in between; the
loaded set is lost, and the handler panics (its connection is closed by
net/http; the next request loads again). The run `keys_review_race` shows it.

A Python publisher that loses its channel and keeps its connection never opens
another channel: the loop tests the connection only, logs that it retries every
five seconds, and fails at each heartbeat. The run `publishers_log` shows it
with one declaration that the broker refuses.

The models also show, as reachable states the properties make room for: a book
created between the snapshot and the bindings is missed with no failure at all
(`missed`); a delete can overtake a create and leave the document for good
(`overtaken`); a setup failure after the queue declaration locks the consumer
out until the broker restarts (`queueOwner = "orphan"`); of two requests that
fetch at a time the older answer can be stored last, and puts the old key back
in `jwks_cache` for an hour, which is also the life of a user's token; the
auth-service's retries are never given back while its pipeline goes on, so a
loss after hours of success soon costs a minute; the review-service drops a
connection without closing it whenever its channel or declaration fails; a
password change that has compared the old password undoes a reset that is
written while its hash is awaited; an update or a reset of an account deleted
meanwhile reports success, and so does a second delete; an upload that is
overtaken reports success and leaves nothing, as does one without an extension,
and one whose body cannot be read leaves an empty avatar in place of the old
one; a download that takes the size while an upload awaits its body is answered
with an empty success, even after that upload's own; a good token is refused
right after a restart of the auth-service because someone else is in the
channel of the key set; a token of a good user is answered 500 when the cached keys expire between
two lines; a user-service that dies between adding the role column and recording
it does not start again until someone mends the database; and it comes to listen
only when the broker is there, up to as long after it as it was away.

## 12. Proofs

`BookSyncProofs` proves, for every set of books and requests and every bound:

| Theorem | Statement |
|---|---|
| `TypeCorrect` | `Spec => []TypeOK` |
| `NewsAlwaysBacked` | `Spec => []NewsBacked` |
| `ImplementsMirror` | `Spec => MirrorSpec`: the pipeline refines `BookMirror` |
| `ListeningAlwaysBound` | `Spec => []ListeningMeansBound` |
| `NothingLost` | `Spec => NothingLostWhileConsuming` |
| `MirrorAlwaysCommitted` | `Spec => []MirrorCommitted` |
| `SnapshotAlwaysSaved` | `Spec => []SnapshotSaved` |
| `LiveBooksMirrored` | `Spec => []LiveBookMirrored` |
| `DeletedBooksRemoved` | `Spec => []DeletedBookRemoved` |
| `MirrorAlwaysAccounted` | `Spec => []MirrorAccounted` |

The only assumption is `BoundsAssumption` (both bounds are naturals). The
argument: `NewsBacked` is inductive with `TypeOK`, because what an announcement
claims is stable once committed; it makes every write of the consumer and the
sync a step or a stutter of `BookMirror`. That the collection has committed books
only (`MirrorCommitted`) is proved of `BookMirror` and holds of the pipeline
because it implements it. `SnapshotSaved` is not inductive: the
invariant `WritesHold` adds what the writes already applied have achieved while
the bulk is still running, and that a sync stamp, whichever sync set it, is of a
book that is live in the last snapshot or still has a write to come. `LiveBookMirrored` follows with
`QueueNeedsConsumer` (nothing is queued for a consumer that is not there), by
following one book's creation from request to queue to collection.
`DeletedBookRemoved` needs `DeletionDue`: a creation still queued has its
deletion behind it in the queue, or still to be announced, or recorded as lost
or overtaken. `MirrorAccounted` is where they meet: with nothing under way, what
is left of each of them is the whole difference between mirror and catalogue.

`HealthMonitorProofs` proves, for every set of services and processors and all
times that satisfy `TimesAssumption` (intervals and delays positive, the healthy
treshold below the stale one, delays at most the stale treshold):

| Theorem | Statement |
|---|---|
| `TypeCorrect` | `Spec => []TypeOK` |
| `NoneEverYounger` | `Spec => []NoneYounger` |
| `SilenceAlwaysShown` | `Spec => []SilenceShown` |
| `NoFalseAlarms` | `Spec => []NoFalseAlarm` |

`NoneYounger` is inductive with `TypeOK` once it is taken apart by where a
heartbeat can be (`AllOld`). `SilenceShown` needs `SilenceKnown`: how long a
service must have been silent for a row to be certain between two passes
(`ShownWaiting`), after the pass has done it (`ShownByPass`), and before
(`ShownBefore`), and that the pass knows what to write (`PassKnows`). The
argument is made once for an age from which a row counts as late (`LateAges`)
and used twice: past the healthy treshold a row is not healthy, past the stale
one it is offline. A heartbeat may be under way for a delay, so the age must be
more than one; for the healthy treshold that is a condition in `SilenceShown`,
which the times of the code satisfy.

`NoFalseAlarm` needs `Calm`. A row is `Fresh` if the next merge will find it in
time: its age, and the ticks until a heartbeat under way or due is merged
(`MergedWithin`), add up to at most one heartbeat interval and two delays, or
to twice that if a pass has already marked it healthy. Merging makes a row
fresh, time keeps it fresh, and the pass replaces it by a fresh one unless it
listed one that was not. So a row that is not fresh is from before the service
began to beat (`OldFromBefore`). Once such a row is past the stale treshold, a
pass marks it offline (`PassMarks`) and the next one leaves it alone
(`MarkedBefore`); from then on the next merge stays (`FreshAtLast`).

`HeartbeatPublishersProofs` proves, for every subset of the five services, every
number of retries and of faults (`ServicesAssumption`):

| Theorem | Statement |
|---|---|
| `TypeCorrect` | `Spec => []TypeOK` |
| `OnlyCausesEnd` | `Spec => []StuckHasCause` |
| `ExchangeAlwaysDeclared` | `Spec => []DeclaredBeforePublished` |
| `StraysBounded` | `Spec => []NoStrayConnection` |
| `AlwaysCloser` | `Spec => NeverFurther` |

The invariant adds where a channel can be (`ChannelInLoop`), that the user- and
the auth-service refer to no connection when they dial (`Released`), that the
review-service has a fault to show for each open connection it has left or is
about to leave (`ReviewLeavesFew`), that only a crash cuts connections
(`CutByCrash`), and what has ended the user-service (`OnlyUserDies`,
`UserChannelLost`).

`AlwaysCloser` is the provable half of `HeardAgain`. `StepsLeft` counts the steps
of its own, five at most, that a publisher is away from being heard or stuck; each
one it makes takes it closer (`OwnStep`; the review- and the auth-service publish
on a connection, `LoopOnConnection`), and the others, who can only bring the
exchange back, leave it where it is (`OthersStep`, `LeftAlone`). What is left to
TLC is that such a step is enabled until then, and that fairness makes it happen.

`JwksCachesProofs` proves, for any number of requests and processes and all
times (`JwksAssumption`: positive, the retry no longer than the refresh, a fetch
shorter than the life of the cache):

| Theorem | Statement |
|---|---|
| `TypeCorrect` | `Spec => []TypeOK` |
| `PythonAlwaysCatchesUp` | `Spec => []PythonCatchesUp` |
| `VerdictsAlwaysCatchUp` | `Spec => VerdictsCatchUp` |
| `RaisedOnlyForCause` | `Spec => RaisedForCause` |
| `MonitorAlwaysCatchesUp` | `Spec => []MonitorCatchesUp` |

A fetch ends in time (`InTime`); an answer with an old key is at least as old as
the calm (`OldAnswers`); so an old key in the cache was stored at most `Lag`
after the disturbance (`OldCache`): the cache catches up (`PythonCatchesUp`), and
the verdicts with it. An entry read by a request that stored is younger than
`Ttl`, because `Lag` is (`Found`). A table without the current key is waiting
for a fetch that began early enough (`OldTable`).

`ReviewKeysProofs` proves, for any number of requests, sets, processes and
faults (`ReviewAssumption`):

| Theorem | Statement |
|---|---|
| `TypeCorrect` | `Spec => []TypeOK` |
| `RefusalsHaveCause` | `Spec => RefusedForCause` |
| `UndisturbedIsSafe` | `Spec => []SafeUndisturbed` |

`RefusedForCause` needs that a waiting request holds a set (`Holding`), in whose
channel it is or for which the goroutine fetches, one or the other (`Queued`);
that tokens are signed with keys that have been made (`TokensIssued`); that an
answer is no older than what its set has, nor than the token of the request it
is for (`AnswersNew`); so that a set looked into again, after a fetch that did
not fail, has a key no older than the token's (`FetchedForIt`): neither the
hourly refresh nor another request can put an older one in.
`SafeUndisturbed` confines the race of the finding: before the first failed call
or stop, there is one key, a load stores nothing else, and whoever has been to
`initJWKS` finds the global loaded (`Calm`); what has been disturbed stays so
(`UndisturbedBefore`).

`UserAccountsProofs` proves, for any number of requests, accounts, emails,
passwords and tokens (`DefaultAssumption`, `NotRows`: the two marks are no
rows):

| Theorem | Statement |
|---|---|
| `TypeCorrect` | `Spec => []TypeOK` |
| `ImplementsTable` | `Spec => TableSpec`: the service implements `AccountTable` |
| `EmailsIdentify` | `Spec => []OneAccountPerEmail` |
| `DeletedForGood` | `Spec => GoneStaysGone` |
| `SuccessAlwaysTrue` | `Spec => SuccessIsTrue` |
| `PasswordsReplacedByOwner` | `Spec => ReplacedByOwner` |

The inductive invariant is that a request not overtaken holds the row as it is
(`CopyIsRow`), and that a password given has been compared with the copy's
(`GivenIsSeen`). `Written` says what each writing step writes. For the
refinement a row that was found must have been given out (`FoundGivenOut`), so
that a late deletion is one of an account or of none; `WritesColumn` turns each
write into one of the table's steps, or none. `EmailsIdentify` and
`DeletedForGood` are read off `AccountTable` (`TableWrites`) and hold of the
service because it implements it.

`MediaAvatarsProofs` proves, for any number of requests, pictures and extensions
(`AvatarsAssumption`: the marks are distinct and no pictures):

| Theorem | Statement |
|---|---|
| `TypeCorrect` | `Spec => []TypeOK` |
| `AlwaysOneAvatar` | `Spec => []OneAvatar` |
| `LastBegunAlwaysWins` | `Spec => []LastBegunWins` |
| `AlwaysSentWhole` | `Spec => SentIsWhole` |
| `AlwaysBrokenForCause` | `Spec => BrokenForCause` |

The invariant says what is shown also while uploads are under way: the picture
wanted, or the empty file of the upload that began last (`ShownOK`). It is kept
because only that upload has a file open that can still be found (`LinkedOK`):
every later one has removed it. `UndisturbedOK` says that a download's file is
as it was handed over until someone else changes the directory. A size of less
than a picture was taken while the last upload was not over or had failed
(`EarlyOK`), since until then the directory shows what is wanted; what a full
size is followed by is what is shown when the file is opened.

`ServiceStartupProofs` proves, for every longest delay and any number of
failures (`StartupAssumption`):

| Theorem | Statement |
|---|---|
| `TypeCorrect` | `Spec => []TypeOK` |
| `AlwaysPacedRetries` | `Spec => []PacedRetries` |
| `StartsFailOnlyForCause` | `Spec => StartFailsForCause` |
| `AlwaysServesMigrated` | `Spec => []ServesMigrated` |
| `InterruptedForGood` | `Spec => StrandedForGood` |

The delays up to now add up to the next one, less what is left of the last
(`DelaysAddUp`), and a broker that is back came back during the last one
(`BackThisDelay`). A database of the book-service always is as its stamp says
(`StampTells`); a role column without its record has a death to show for it
(`MigrationsTell`). `Migrated` says that a process that serves has nothing
pending, and that after the fatal interruption no process is past its migrations
(`Stranded`). No step takes an interruption back, so the second holds from then
on: `StrandedForGood`.

Type correctness is proved for all of the modules with proofs, and also checked
by TLC in the runs `health`, `keys_clock` and `users`.

Only model-checked: the nine liveness properties (fairness is out of the
prover's reach) and the absence of deadlock. The findings are counterexamples.

Not modelled: the gateway (a proxy without state), the browser client, the
deployment's configuration, the reviews' handlers (one write each, on a
collection no other part uses), the review-service's start-up and the
arithmetic of its retry delay, and the library of the user-service's token
check. Section by section, what the modelled parts leave out is said there.
