----------------------------- MODULE UserAccounts -----------------------------
(***************************************************************************)
(* The accounts of the user-service and the logins of the auth-service.    *)
(* Node runs one handler at a time, but every handler that writes a row    *)
(* has read it before and awaited in between: the row it works on is a     *)
(* copy, which other requests may have changed or removed.  A token states *)
(* the role its user had at login, and is believed until it expires.       *)
(***************************************************************************)
EXTENDS FiniteSets, Naturals

CONSTANTS
    Request,    \* requests served at a time
    UserId,     \* bound: accounts ever registered; ids are not used twice
    Email,
    Password,   \* a stored hash stands for the password it verifies
    Default,    \* the password a reset sets
    None, Gone, \* the row of an id not given out yet, or of a deleted user
    MaxTokens   \* bound: different tokens that are valid at a time

ASSUME DefaultAssumption == Default \in Password

Role == {"user", "moderator", "admin"}

Row == [email : Email, password : Password, role : Role]

\* What a request is at: the row it has found, what the client gave as the
\* current password, and the row as it is to be.
Job == [id : UserId, given : Password, seen : Row, new : Row]

ASSUME NotRows == None # Gone /\ \A x \in {None, Gone} : x \notin Row \union Job

VARIABLES
    users,      \* the table: [UserId -> Row \union {None, Gone}]
    tokens,     \* user tokens that are valid: their subject and role
    pc,         \* [Request -> Ops \union {"none", "done"}]: what is awaited
    job,        \* [Request -> Job \union {None}]
    touched     \* history: requests whose row another has changed since found

vars == <<users, tokens, pc, job, touched>>

Ops == {"login", "update", "change", "reset", "delete"}
Live(i) == users[i] \notin {None, Gone}
Busy(r) == pc[r] \in Ops
Claims == [sub : UserId, role : Role]

Init ==
    /\ users = [i \in UserId |-> None] /\ tokens = {}
    /\ pc = [r \in Request |-> "none"] /\ job = [r \in Request |-> None]
    /\ touched = {}

\* Mutant: two columns are mixed up.
WithRoleSwapped(row, role) == [email |-> row.email, password |-> role, role |-> row.password]

WithRole(row, role) == [email |-> row.email, password |-> row.password, role |-> role]
WithPassword(row, password) == [email |-> row.email, password |-> password, role |-> row.role]

\* The roles a route is open to.
OpenTo(op) ==
    CASE op = "reset" -> {"admin"}
      [] op = "update" -> {"admin", "user"}
      [] op = "delete" -> {"admin", "user"}
      [] OTHER -> Role

\* jwtAuthMiddlewareSupportedRoles: an id in the path is compared for users only.
Permitted(t, op, pathId) ==
    /\ t.role \in OpenTo(op)
    /\ t.role = "user" => pathId = t.sub

\* A request has found row i; to be answered, it awaits one more call.
Finds(r, op, i, given, new) ==
    /\ ~Busy(r) /\ Live(i)
    /\ pc' = [pc EXCEPT ![r] = op]
    /\ job' = [job EXCEPT ![r] = [id |-> i, given |-> given, seen |-> users[i], new |-> new]]
    /\ UNCHANGED <<users, tokens, touched>>

Ends(r, how) ==
    /\ pc' = [pc EXCEPT ![r] = how]
    /\ job' = [job EXCEPT ![r] = None]

\* Row i is v from now on.  Request r reports success, or an error when the
\* database's own answer is lost after its commit.
Writes(r, i, v) ==
    /\ users' = [users EXCEPT ![i] = v]
    /\ touched' = (touched \union {q \in Request : v # users[i] /\ Busy(q) /\ job[q].id = i}) \ {r}
    /\ Ends(r, "done") \/ Ends(r, "none")
    /\ UNCHANGED tokens

-------------------------------------------------------------------------------
\* registerUser: one insert; the unique index on email refuses a second one.
Register(i, email, password, role) ==
    /\ users[i] = None
    /\ \A j \in UserId : Live(j) => users[j].email # email
    /\ users' = [users EXCEPT ![i] = [email |-> email, password |-> password, role |-> role]]
    /\ UNCHANGED <<tokens, pc, job, touched>>

\* verifyCredentials, at the end of its findOne; a wrong password ends it.
LoginFinds(r, i, given) ==
    /\ Live(i) /\ given = users[i].password
    /\ Finds(r, "login", i, given, users[i])

\* The token of a login states what the row found says.
Issued(j) == [sub |-> j.id, role |-> j.seen.role]

\* The auth-service gets the row as a DTO and signs a token.
LoginEnds(r) ==
    /\ pc[r] = "login"
    /\ tokens' = tokens \union {Issued(job[r])}
    /\ Cardinality(tokens') <= MaxTokens
    /\ touched' = touched \ {r}
    /\ Ends(r, "done")
    /\ UNCHANGED users

\* An hour has passed since the token was issued.
Expires(t) ==
    /\ tokens' = tokens \ {t}
    /\ UNCHANGED <<users, pc, job, touched>>

UpdateMine(r, t, role) ==
    /\ Permitted(t, "update", t.sub)
    /\ Finds(r, "update", t.sub, Default, WithRole(users[t.sub], role))

\* PUT on the collection, for admins only; the id is in the body.
UpdateById(r, t, i, role) ==
    /\ t.role = "admin"
    /\ Finds(r, "update", i, Default, WithRole(users[i], role))

\* Mutant: the whole copy is written, not the column that has been set.
SaveRoleWithRow(r) ==
    /\ pc[r] = "update"
    /\ LET i == job[r].id IN
       Writes(r, i, IF Live(i) /\ job[r].new.role # job[r].seen.role
                      THEN job[r].new ELSE users[i])

(* Sequelize writes the attributes that differ from the copy, and none if    *)
(* none does; an update of no row is not an error.                           *)
SaveRole(r) ==
    /\ pc[r] = "update"
    /\ LET i == job[r].id IN
       Writes(r, i, IF Live(i) /\ job[r].new.role # job[r].seen.role
                      THEN WithRole(users[i], job[r].new.role) ELSE users[i])

\* Mutant: the current password is not asked for.
ChangeFindsUnasked(r, t, given, password) ==
    /\ Permitted(t, "change", t.sub)
    /\ Live(t.sub)
    /\ Finds(r, "change", t.sub, given, WithPassword(users[t.sub], password))

\* passwordChangeMine up to its hash; a wrong current password ends it.
ChangeFinds(r, t, given, password) ==
    /\ Permitted(t, "change", t.sub)
    /\ Live(t.sub) /\ given = users[t.sub].password
    /\ Finds(r, "change", t.sub, given, WithPassword(users[t.sub], password))

ResetFinds(r, t, i) ==
    /\ Permitted(t, "reset", t.sub)
    /\ Finds(r, "reset", i, Default, WithPassword(users[i], Default))

\* Mutant: the update is not awaited, and lost.
SavePasswordUnawaited(r) ==
    /\ pc[r] \in {"change", "reset"}
    /\ Writes(r, job[r].id, users[job[r].id])

\* Salted, the new hash always differs from the copy's.
SavePassword(r) ==
    /\ pc[r] \in {"change", "reset"}
    /\ LET i == job[r].id IN
       Writes(r, i, IF Live(i) THEN WithPassword(users[i], job[r].new.password) ELSE users[i])

DeleteFinds(r, t, i) ==
    /\ Permitted(t, "delete", i)
    /\ Finds(r, "delete", i, Default, users[i])

\* A delete of no row is not an error either.
Destroy(r) ==
    /\ pc[r] = "delete"
    /\ Writes(r, job[r].id, Gone)

\* A database call fails and changes nothing: the answer is 400 or 500.
Fails(r) ==
    /\ Busy(r)
    /\ Ends(r, "none")
    /\ touched' = touched \ {r}
    /\ UNCHANGED <<users, tokens>>

Asks(r, t) ==
    \/ \E role \in Role : UpdateMine(r, t, role)
    \/ \E i \in UserId, role \in Role : UpdateById(r, t, i, role)
    \/ \E given, password \in Password : ChangeFinds(r, t, given, password)
    \/ \E i \in UserId : ResetFinds(r, t, i) \/ DeleteFinds(r, t, i)

Ended(r) == LoginEnds(r) \/ SaveRole(r) \/ SavePassword(r) \/ Destroy(r) \/ Fails(r)

Next ==
    \/ \E i \in UserId, email \in Email, password \in Password, role \in Role :
          Register(i, email, password, role)
    \/ \E r \in Request :
          \/ Ended(r)
          \/ \E i \in UserId, given \in Password : LoginFinds(r, i, given)
          \/ \E t \in tokens : Asks(r, t)
    \/ \E t \in tokens : Expires(t)

Spec == Init /\ [][Next]_vars

-------------------------------------------------------------------------------
(* Properties                                                                *)

TypeOK ==
    /\ users \in [UserId -> Row \union {None, Gone}]
    /\ tokens \subseteq Claims
    /\ pc \in [Request -> Ops \union {"none", "done"}]
    /\ job \in [Request -> Job \union {None}]
    /\ touched \subseteq Request

(* However requests interleave, the table moves as if each of them wrote its *)
(* one column, or its deletion, to an account that is there: copies read     *)
(* before an await bring back neither an old column nor a deleted account.   *)
Table == INSTANCE AccountTable WITH Id <- UserId, accounts <- users
TableSpec == Table!Spec

(* A login looks an account up by its email: there is one at most.           *)
OneAccountPerEmail ==
    \A i, j \in UserId : Live(i) /\ Live(j) /\ users[i].email = users[j].email => i = j

(* No update that is still awaited brings a deleted account back, and no new *)
(* account gets its id: a token of a deleted user is nobody else's.          *)
GoneStaysGone == [][\A i \in UserId : users[i] = Gone => users'[i] = Gone]_vars

(* What success means for each request, of the row the request is about: the *)
(* login's token states the row's role, and the password given is the row's; *)
(* the role or the password is as asked for; the account is gone.            *)
SuccessMeans(op, j, row) ==
    /\ op = "login" => row = j.seen /\ j.given = row.password
    /\ op = "update" => row \in Row /\ row.role = j.new.role
    /\ op \in {"change", "reset"} => row \in Row /\ row.password = j.new.password
    /\ op = "delete" => row = Gone

(* route-handlers.js:62,98,114,126 report success without looking at what    *)
(* the call has done.  The report is true when it is made, or another        *)
(* request has changed the same row since this one found it.                 *)
SuccessIsTrue ==
    [][\A r \in Request :
         Busy(r) /\ pc'[r] = "done"
         => SuccessMeans(pc[r], job[r], users'[job[r].id]) \/ r \in touched]_vars

(* A password is replaced by a reset, or by a change whose client gave the   *)
(* one replaced; a change that gave another has been overtaken, by a reset   *)
(* it undoes or by a second change.                                          *)
ReplacedByOwner ==
    [][\A i \in UserId :
         /\ Live(i) /\ users'[i] # Gone
         /\ users'[i].password # users[i].password
         => \E r \in Request :
              /\ Busy(r) /\ pc'[r] \notin Ops /\ job[r].id = i
              /\ \/ pc[r] = "reset"
                 \/ pc[r] = "change" /\ (job[r].given = users[i].password \/ r \in touched)]_vars

===============================================================================
