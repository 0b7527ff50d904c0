-------------------------- MODULE UserAccountsProofs --------------------------
(***************************************************************************)
(* What the handlers of the user-service keep, for any number of requests, *)
(* accounts, tokens and passwords.                                         *)
(***************************************************************************)
EXTENDS UserAccounts, TLAPS

\* A request that has not been overtaken holds the row as it is.
CopyIsRow ==
    \A r \in Request : Busy(r) /\ r \notin touched => users[job[r].id] = job[r].seen

\* The password given was compared with the copy's before the hash was awaited.
GivenIsSeen ==
    \A r \in Request :
        Busy(r) => /\ job[r] \in Job
                   /\ pc[r] \in {"login", "change"} => job[r].given = job[r].seen.password

IInv == TypeOK /\ CopyIsRow /\ GivenIsSeen

LEMMA InitInv == Init => IInv
  BY DEF Init, IInv, TypeOK, CopyIsRow, GivenIsSeen, Busy, Ops

\* Finding a row makes a copy that is the row.
LEMMA FindsKeeps ==
    ASSUME IInv, NEW r \in Request, NEW op \in Ops, NEW i \in UserId,
           NEW given \in Password, NEW new \in Row, Finds(r, op, i, given, new),
           op \in {"login", "change"} => given = users[i].password
    PROVE  IInv'
<1> DEFINE j == [id |-> i, given |-> given, seen |-> users[i], new |-> new]
<1>1. users[i] \in Row
  BY DEF IInv, TypeOK, Finds, Live
<1>2. /\ j \in Job /\ j.id = i /\ j.seen = users[i] /\ j.given = given
  BY <1>1 DEF Job
<1>3. /\ pc' = [pc EXCEPT ![r] = op] /\ job' = [job EXCEPT ![r] = j]
      /\ users' = users /\ tokens' = tokens /\ touched' = touched
  BY DEF Finds
<1> HIDE DEF j
<1>4. TypeOK'
  BY <1>2, <1>3 DEF IInv, TypeOK
<1>5. CopyIsRow'
  BY <1>2, <1>3 DEF IInv, TypeOK, CopyIsRow, Busy
<1>6. GivenIsSeen'
  BY <1>2, <1>3 DEF IInv, TypeOK, GivenIsSeen, Busy
<1>7. QED
  BY <1>4, <1>5, <1>6 DEF IInv

\* A request that ends leaves the others the copies they have.
LEMMA EndsKeeps ==
    ASSUME IInv, NEW r \in Request, NEW how \in {"none", "done"}, Ends(r, how),
           users' = users, tokens' \subseteq Claims, touched' = touched \ {r}
    PROVE  IInv'
<1>1. how \notin Ops
  BY DEF Ops
<1>2. TypeOK'
  BY DEF IInv, TypeOK, Ends
<1>3. CopyIsRow'
  BY <1>1 DEF IInv, TypeOK, CopyIsRow, Busy, Ends
<1>4. GivenIsSeen'
  BY <1>1 DEF IInv, TypeOK, GivenIsSeen, Busy, Ends
<1>5. QED
  BY <1>2, <1>3, <1>4 DEF IInv

\* A write that changes a row overtakes every other request that has found it.
LEMMA WritesKeeps ==
    ASSUME IInv, NEW r \in Request, NEW i \in UserId, NEW v \in Row \union {None, Gone},
           Writes(r, i, v)
    PROVE  IInv'
<1>1. PICK how \in {"done", "none"} : Ends(r, how)
  BY DEF Writes
<1>7. how \notin Ops
  BY DEF Ops
<1>2. /\ pc' = [pc EXCEPT ![r] = how] /\ job' = [job EXCEPT ![r] = None]
      /\ users' = [users EXCEPT ![i] = v] /\ tokens' = tokens
      /\ touched' = (touched \union {q \in Request : v # users[i] /\ Busy(q) /\ job[q].id = i}) \ {r}
  BY <1>1 DEF Writes, Ends
<1>3. TypeOK'
  BY <1>2 DEF IInv, TypeOK
<1>4. CopyIsRow'
  <2> SUFFICES ASSUME NEW q \in Request, Busy(q)', q \notin touched'
               PROVE  users'[job'[q].id] = job'[q].seen
    BY DEF CopyIsRow
  <2>1. q # r /\ Busy(q) /\ job'[q] = job[q]
    BY <1>7, <1>2 DEF IInv, TypeOK, Busy
  <2>2. q \notin touched /\ (v = users[i] \/ job[q].id # i)
    BY <1>2, <2>1
  <2>3. job[q].id \in UserId /\ users[job[q].id] = job[q].seen
    BY <2>1, <2>2 DEF IInv, CopyIsRow, GivenIsSeen, Job
  <2>4. users'[job[q].id] = users[job[q].id]
    BY <1>2, <2>2, <2>3 DEF IInv, TypeOK
  <2>5. QED
    BY <2>1, <2>3, <2>4
<1>5. GivenIsSeen'
  BY <1>7, <1>2 DEF IInv, TypeOK, GivenIsSeen, Busy
<1>6. QED
  BY <1>3, <1>4, <1>5 DEF IInv

\* The columns a handler does not write stay.
LEMMA ColumnsKept ==
    ASSUME NEW row \in Row, NEW role \in Role, NEW password \in Password
    PROVE  /\ WithRole(row, role) \in Row /\ WithPassword(row, password) \in Row
           /\ WithRole(row, role).role = role
           /\ WithRole(row, role).password = row.password
           /\ WithPassword(row, password).password = password
  BY DEF Row, WithRole, WithPassword

\* What the three writing steps write.
LEMMA Written ==
    ASSUME IInv, NEW r \in Request, SaveRole(r) \/ SavePassword(r) \/ Destroy(r)
    PROVE  \E v \in Row \union {None, Gone} :
             /\ Busy(r) /\ job[r] \in Job /\ Writes(r, job[r].id, v)
             /\ users[job[r].id] = Gone => v = Gone
             /\ pc[r] = "delete" => v = Gone
             /\ pc[r] \in {"update", "change", "reset", "delete"}
             /\ Live(job[r].id) /\ pc[r] = "update"
                  => /\ v \in Row /\ v.password = users[job[r].id].password
                     /\ job[r].seen = users[job[r].id] => v.role = job[r].new.role
             /\ Live(job[r].id) /\ pc[r] \in {"change", "reset"}
                  => v \in Row /\ v.password = job[r].new.password
<1> DEFINE i == job[r].id
<1>1. Busy(r)
  BY DEF SaveRole, SavePassword, Destroy, Busy, Ops
<1>2. job[r] \in Job
  BY <1>1 DEF IInv, GivenIsSeen
<1>3. i \in UserId /\ job[r].new \in Row /\ job[r].new.role \in Role /\ job[r].new.password \in Password
  BY <1>2 DEF Job, Row
<1>4. users[i] \in Row \union {None, Gone}
  BY <1>3 DEF IInv, TypeOK
<1>5. Live(i) => users[i] \in Row
  BY <1>4 DEF Live
<1>6. users[i] = Gone => ~Live(i)
  BY DEF Live
<1>7. CASE SaveRole(r)
  <2>1. CASE Live(i) /\ job[r].new.role # job[r].seen.role
    <3> DEFINE v == WithRole(users[i], job[r].new.role)
    <3>1. v \in Row /\ v.role = job[r].new.role /\ v.password = users[i].password
      BY <1>3, <1>5, <2>1, ColumnsKept
    <3>2. Writes(r, i, v) /\ pc[r] = "update"
      BY <1>7, <2>1 DEF SaveRole
    <3>3. QED
      BY <1>1, <1>2, <1>6, <2>1, <3>1, <3>2
  <2>2. CASE ~(Live(i) /\ job[r].new.role # job[r].seen.role)
    <3>1. Writes(r, i, users[i]) /\ pc[r] = "update"
      BY <1>7, <2>2 DEF SaveRole
    <3>2. Live(i) /\ job[r].seen = users[i] => users[i].role = job[r].new.role
      BY <2>2
    <3>3. QED
      BY <1>1, <1>2, <1>4, <1>5, <3>1, <3>2
  <2>3. QED
    BY <2>1, <2>2
<1>8. CASE SavePassword(r)
  <2>1. CASE Live(i)
    <3> DEFINE v == WithPassword(users[i], job[r].new.password)
    <3>1. v \in Row /\ v.password = job[r].new.password
      BY <1>3, <1>5, <2>1, ColumnsKept
    <3>2. Writes(r, i, v) /\ pc[r] \in {"change", "reset"}
      BY <1>8, <2>1 DEF SavePassword
    <3>3. QED
      BY <1>1, <1>2, <1>6, <2>1, <3>1, <3>2
  <2>2. CASE ~Live(i)
    <3>1. Writes(r, i, users[i]) /\ pc[r] \in {"change", "reset"}
      BY <1>8, <2>2 DEF SavePassword
    <3>2. QED
      BY <1>1, <1>2, <1>4, <2>2, <3>1
  <2>3. QED
    BY <2>1, <2>2
<1>9. CASE Destroy(r)
  <2>1. Writes(r, i, Gone) /\ pc[r] = "delete"
    BY <1>9 DEF Destroy
  <2>2. QED
    BY <1>1, <1>2, <2>1
<1>10. QED
  BY <1>7, <1>8, <1>9

LEMMA NextInv == IInv /\ [Next]_vars => IInv'
<1> SUFFICES ASSUME IInv, [Next]_vars PROVE IInv'
  OBVIOUS
<1>1. CASE UNCHANGED vars
  BY <1>1 DEF IInv, TypeOK, CopyIsRow, GivenIsSeen, Busy, vars
<1>2. ASSUME NEW i \in UserId, NEW email \in Email, NEW password \in Password,
             NEW role \in Role, Register(i, email, password, role)
      PROVE  IInv'
  <2> DEFINE row == [email |-> email, password |-> password, role |-> role]
  <2>1. row \in Row
    BY DEF Row
  <2>2. users[i] = None /\ users' = [users EXCEPT ![i] = row]
        /\ pc' = pc /\ job' = job /\ tokens' = tokens /\ touched' = touched
    BY <1>2 DEF Register
  <2> HIDE DEF row
  <2>3. TypeOK'
    BY <2>1, <2>2 DEF IInv, TypeOK
  <2>4. ASSUME NEW r \in Request, Busy(r), r \notin touched
        PROVE  users'[job[r].id] = job[r].seen
    <3>1. job[r].id \in UserId /\ job[r].seen \in Row /\ users[job[r].id] = job[r].seen
      BY <2>4 DEF IInv, CopyIsRow, GivenIsSeen, Job
    <3>2. job[r].id # i
      BY <2>2, <3>1, NotRows
    <3>3. QED
      BY <2>2, <3>1, <3>2 DEF IInv, TypeOK
  <2>5. CopyIsRow' /\ GivenIsSeen'
    BY <2>2, <2>4 DEF IInv, CopyIsRow, GivenIsSeen, Busy
  <2>6. QED
    BY <2>3, <2>5 DEF IInv
<1>3. ASSUME NEW r \in Request, NEW i \in UserId, NEW given \in Password,
             LoginFinds(r, i, given)
      PROVE  IInv'
  <2>1. users[i] \in Row
    BY <1>3 DEF LoginFinds, Live, IInv, TypeOK
  <2>2. QED
    BY <1>3, <2>1, FindsKeeps DEF LoginFinds, Ops
<1>4. ASSUME NEW r \in Request, LoginEnds(r)
      PROVE  IInv'
  <2>1. job[r] \in Job
    BY <1>4 DEF LoginEnds, IInv, GivenIsSeen, Busy, Ops
  <2>2. Issued(job[r]) \in Claims
    BY <2>1 DEF Job, Row, Claims, Issued
  <2>3. tokens' \subseteq Claims
    BY <1>4, <2>2 DEF LoginEnds, IInv, TypeOK
  <2>4. QED
    BY <1>4, <2>3, EndsKeeps DEF LoginEnds
<1>5. ASSUME NEW r \in Request, SaveRole(r) \/ SavePassword(r) \/ Destroy(r)
      PROVE  IInv'
  <2>1. PICK v \in Row \union {None, Gone} : job[r] \in Job /\ Writes(r, job[r].id, v)
    BY <1>5, Written
  <2>2. job[r].id \in UserId
    BY <2>1 DEF Job
  <2>3. QED
    BY <2>1, <2>2, WritesKeeps
<1>6. ASSUME NEW r \in Request, Fails(r)
      PROVE  IInv'
  <2>1. tokens' \subseteq Claims
    BY <1>6 DEF Fails, IInv, TypeOK
  <2>2. QED
    BY <1>6, <2>1, EndsKeeps DEF Fails
<1>7. ASSUME NEW r \in Request, NEW t \in tokens, Asks(r, t)
      PROVE  IInv'
  <2>1. t.sub \in UserId
    BY DEF IInv, TypeOK, Claims
  <2>2. Default \in Password
    BY DefaultAssumption
  <2>3. ASSUME NEW i \in UserId, Live(i)
        PROVE  /\ users[i] \in Row
               /\ \A role \in Role : WithRole(users[i], role) \in Row
               /\ \A password \in Password : WithPassword(users[i], password) \in Row
    <3>1. users[i] \in Row
      BY <2>3 DEF Live, IInv, TypeOK
    <3>2. "user" \in Role
      BY DEF Role
    <3>3. QED
      BY <2>2, <3>1, <3>2, ColumnsKept
  <2>4. ASSUME NEW role \in Role, UpdateMine(r, t, role)
        PROVE  IInv'
    <3>1. Live(t.sub) /\ Finds(r, "update", t.sub, Default, WithRole(users[t.sub], role))
      BY <2>4 DEF UpdateMine, Finds
    <3>2. WithRole(users[t.sub], role) \in Row
      BY <2>1, <2>3, <3>1
    <3>3. QED
      BY <2>1, <2>2, <3>1, <3>2, FindsKeeps DEF Ops
  <2>5. ASSUME NEW i \in UserId, NEW role \in Role, UpdateById(r, t, i, role)
        PROVE  IInv'
    <3>1. Live(i) /\ Finds(r, "update", i, Default, WithRole(users[i], role))
      BY <2>5 DEF UpdateById, Finds
    <3>2. WithRole(users[i], role) \in Row
      BY <2>3, <3>1
    <3>3. QED
      BY <2>2, <3>1, <3>2, FindsKeeps DEF Ops
  <2>6. ASSUME NEW given \in Password, NEW password \in Password,
               ChangeFinds(r, t, given, password)
        PROVE  IInv'
    <3>1. /\ Live(t.sub) /\ given = users[t.sub].password
          /\ Finds(r, "change", t.sub, given, WithPassword(users[t.sub], password))
      BY <2>6 DEF ChangeFinds
    <3>2. WithPassword(users[t.sub], password) \in Row
      BY <2>1, <2>3, <3>1
    <3>3. QED
      BY <2>1, <3>1, <3>2, FindsKeeps DEF Ops
  <2>7. ASSUME NEW i \in UserId, ResetFinds(r, t, i)
        PROVE  IInv'
    <3>1. Live(i) /\ Finds(r, "reset", i, Default, WithPassword(users[i], Default))
      BY <2>7 DEF ResetFinds, Finds
    <3>2. WithPassword(users[i], Default) \in Row
      BY <2>2, <2>3, <3>1
    <3>3. QED
      BY <2>2, <3>1, <3>2, FindsKeeps DEF Ops
  <2>8. ASSUME NEW i \in UserId, DeleteFinds(r, t, i)
        PROVE  IInv'
    <3>1. Live(i) /\ Finds(r, "delete", i, Default, users[i])
      BY <2>8 DEF DeleteFinds, Finds
    <3>2. QED
      BY <2>2, <2>3, <3>1, FindsKeeps DEF Ops
  <2>9. QED
    BY <1>7, <2>4, <2>5, <2>6, <2>7, <2>8 DEF Asks
<1>8. ASSUME NEW t \in tokens, Expires(t)
      PROVE  IInv'
  BY <1>8 DEF Expires, IInv, TypeOK, CopyIsRow, GivenIsSeen, Busy
<1>9. QED
  BY <1>1, <1>2, <1>3, <1>4, <1>5, <1>6, <1>7, <1>8 DEF Next, Ended

\* The inductive invariant holds.
LEMMA Invariance == Spec => []IInv
<1>1. QED
  BY InitInv, NextInv, PTL DEF Spec

(* The table holds whole rows, and requests hold jobs of their kind.         *)
THEOREM TypeCorrect == Spec => []TypeOK
<1>1. IInv => TypeOK
  BY DEF IInv
<1>2. QED
  BY <1>1, Invariance, PTL

\* A step that changes the table registers a user or ends a request.
LEMMA RowSteps ==
    ASSUME IInv, [Next]_vars, users' # users
    PROVE  \/ \E i \in UserId, email \in Email, password \in Password, role \in Role :
                Register(i, email, password, role)
           \/ \E r \in Request : SaveRole(r) \/ SavePassword(r) \/ Destroy(r)
  BY DEF Next, Ended, vars, LoginEnds, Fails, LoginFinds, Finds, Asks, UpdateMine,
         UpdateById, ChangeFinds, ResetFinds, DeleteFinds, Expires

-------------------------------------------------------------------------------
(* The table moves one column, or one account, at a time.                    *)

\* The row a request has found was given out, whatever has become of it since.
FoundGivenOut == \A r \in Request : Busy(r) => users[job[r].id] # None

\* A job is kept while it is awaited, and begins with a row that is there.
LEMMA JobSteps ==
    ASSUME IInv, [Next]_vars, NEW r \in Request, Busy(r)'
    PROVE  \/ Busy(r) /\ job'[r] = job[r]
           \/ users' = users /\ Live(job'[r].id)
<1> USE DEF IInv, TypeOK, Busy
<1>1. ASSUME NEW q \in Request, NEW op, NEW i, NEW given, NEW new, Finds(q, op, i, given, new)
      PROVE  \/ Busy(r) /\ job'[r] = job[r]
             \/ users' = users /\ Live(job'[r].id)
  BY <1>1 DEF Finds
<1>2. ASSUME NEW q \in Request, NEW how \in {"none", "done"}, Ends(q, how)
      PROVE  Busy(r) /\ job'[r] = job[r]
  BY <1>2 DEF Ends, Ops
<1>3. ASSUME UNCHANGED <<pc, job>>
      PROVE  Busy(r) /\ job'[r] = job[r]
  BY <1>3
<1>4. ASSUME NEW q \in Request, Ended(q)
      PROVE  Busy(r) /\ job'[r] = job[r]
  BY <1>2, <1>4 DEF Ended, LoginEnds, SaveRole, SavePassword, Destroy, Fails, Writes
<1>5. ASSUME NEW q \in Request, NEW t \in tokens, Asks(q, t)
      PROVE  \/ Busy(r) /\ job'[r] = job[r]
             \/ users' = users /\ Live(job'[r].id)
  BY <1>1, <1>5 DEF Asks, UpdateMine, UpdateById, ChangeFinds, ResetFinds, DeleteFinds
<1> HIDE DEF IInv, TypeOK, Busy
<1>6. QED
  BY <1>1, <1>3, <1>4, <1>5 DEF Next, LoginFinds, Register, Expires, vars

\* What a writing step does to the row it is about.
LEMMA WritesColumn ==
    ASSUME IInv, FoundGivenOut, NEW r \in Request, SaveRole(r) \/ SavePassword(r) \/ Destroy(r)
    PROVE  \/ users' = users
           \/ \E i \in UserId : \/ \E role \in Role : Table!SetRole(i, role)
                                \/ \E password \in Password : Table!SetPassword(i, password)
                                \/ Table!Close(i)
<1> DEFINE i == job[r].id
<1>1. Busy(r) /\ job[r] \in Job
  BY DEF SaveRole, SavePassword, Destroy, Busy, Ops, IInv, GivenIsSeen
<1>2. i \in UserId /\ job[r].new.role \in Role /\ job[r].new.password \in Password
  BY <1>1 DEF Job, Row
<1>3. ASSUME NEW v, Writes(r, i, v)
      PROVE  users' = [users EXCEPT ![i] = v]
  BY <1>3 DEF Writes
<1>4. users = [users EXCEPT ![i] = users[i]]
  BY <1>2 DEF IInv, TypeOK
<1>5. CASE SaveRole(r)
  <2>1. CASE Live(i) /\ job[r].new.role # job[r].seen.role
    <3>1. users' = [users EXCEPT ![i] = WithRole(users[i], job[r].new.role)]
      BY <1>3, <1>5, <2>1 DEF SaveRole
    <3>2. Table!SetRole(i, job[r].new.role)
      BY <1>2, <2>1, <3>1 DEF Table!SetRole, Table!Held, Live, WithRole, IInv, TypeOK
    <3>3. QED
      BY <1>2, <3>2
  <2>2. CASE ~(Live(i) /\ job[r].new.role # job[r].seen.role)
    BY <1>3, <1>4, <1>5, <2>2 DEF SaveRole
  <2>3. QED
    BY <2>1, <2>2
<1>6. CASE SavePassword(r)
  <2>1. CASE Live(i)
    <3>1. users' = [users EXCEPT ![i] = WithPassword(users[i], job[r].new.password)]
      BY <1>3, <1>6, <2>1 DEF SavePassword
    <3>2. Table!SetPassword(i, job[r].new.password)
      BY <1>2, <2>1, <3>1 DEF Table!SetPassword, Table!Held, Live, WithPassword, IInv, TypeOK
    <3>3. QED
      BY <1>2, <3>2
  <2>2. CASE ~Live(i)
    BY <1>3, <1>4, <1>6, <2>2 DEF SavePassword
  <2>3. QED
    BY <2>1, <2>2
<1>7. CASE Destroy(r)
  <2>1. users' = [users EXCEPT ![i] = Gone]
    BY <1>3, <1>7 DEF Destroy
  <2>2. CASE users[i] = Gone
    BY <1>4, <2>1, <2>2
  <2>3. CASE users[i] # Gone
    <3>1. Table!Close(i)
      BY <1>1, <2>1, <2>3 DEF Table!Close, Table!Held, FoundGivenOut
    <3>2. QED
      BY <1>2, <3>1
  <2>4. QED
    BY <2>2, <2>3
<1>8. QED
  BY <1>5, <1>6, <1>7

\* Every step is one of the abstract table's, or leaves the table alone.
LEMMA TableStep ==
    ASSUME IInv, FoundGivenOut, [Next]_vars
    PROVE  [Table!Next]_users
<1>1. ASSUME NEW i \in UserId, NEW email \in Email, NEW password \in Password,
             NEW role \in Role, Register(i, email, password, role)
      PROVE  Table!Open(i, email, password, role)
  BY <1>1 DEF Register, Live, Table!Open, Table!Held
<1>2. QED
  BY <1>1, RowSteps, WritesColumn DEF Table!Next

\* What a step of the abstract table writes: to a row that is not deleted, a
\* deletion or a row with an email that is its own or nobody's.
LEMMA TableWrites ==
    ASSUME TypeOK, [Table!Next]_users, users' # users
    PROVE  \E k \in UserId, v \in Row \union {Gone} :
              /\ users[k] # Gone
              /\ users' = [users EXCEPT ![k] = v]
              /\ v \in Row => IF Live(k) THEN v.email = users[k].email
                             ELSE \A j \in UserId : Live(j) => users[j].email # v.email
<1>1. ASSUME NEW k \in UserId, Live(k)
      PROVE  users[k] \in Row /\ users[k].email \in Email
               /\ users[k].password \in Password /\ users[k].role \in Role
  BY <1>1 DEF TypeOK, Live, Row
<1>2. ASSUME NEW k \in UserId, NEW email \in Email, NEW password \in Password,
             NEW role \in Role, Table!Open(k, email, password, role)
      PROVE  \E v \in Row : /\ users' = [users EXCEPT ![k] = v] /\ users[k] = None
                             /\ \A j \in UserId : Live(j) => users[j].email # v.email
  <2> DEFINE v == [email |-> email, password |-> password, role |-> role]
  <2>1. v \in Row /\ v.email = email
    BY DEF Row
  <2>2. QED
    BY <1>2, <2>1 DEF Table!Open, Table!Held, Live
<1>3. ASSUME NEW k \in UserId, NEW role \in Role, Table!SetRole(k, role)
      PROVE  \E v \in Row : /\ users' = [users EXCEPT ![k] = v] /\ Live(k)
                             /\ v.email = users[k].email
  <2> DEFINE v == [email |-> users[k].email, password |-> users[k].password, role |-> role]
  <2>1. Live(k)
    BY <1>3 DEF Table!SetRole, Table!Held, Live
  <2>2. v \in Row /\ v.email = users[k].email
    BY <1>1, <2>1 DEF Row
  <2>3. users' = [users EXCEPT ![k] = v]
    BY <1>3 DEF Table!SetRole
  <2>4. QED
    BY <2>1, <2>2, <2>3
<1>4. ASSUME NEW k \in UserId, NEW password \in Password, Table!SetPassword(k, password)
      PROVE  \E v \in Row : /\ users' = [users EXCEPT ![k] = v] /\ Live(k)
                             /\ v.email = users[k].email
  <2> DEFINE v == [email |-> users[k].email, password |-> password, role |-> users[k].role]
  <2>1. Live(k)
    BY <1>4 DEF Table!SetPassword, Table!Held, Live
  <2>2. v \in Row /\ v.email = users[k].email
    BY <1>1, <2>1 DEF Row
  <2>3. users' = [users EXCEPT ![k] = v]
    BY <1>4 DEF Table!SetPassword
  <2>4. QED
    BY <2>1, <2>2, <2>3
<1>5. ASSUME NEW k \in UserId, Table!Close(k)
      PROVE  users' = [users EXCEPT ![k] = Gone] /\ Live(k)
  BY <1>5 DEF Table!Close, Table!Held, Live
<1>6. Gone \notin Row /\ \A k \in UserId : Live(k) => users[k] # Gone
  BY NotRows DEF Live
<1>7. ASSUME NEW k \in UserId, users[k] = None PROVE users[k] # Gone /\ ~Live(k)
  BY <1>7, NotRows DEF Live
<1>8. CASE \E k \in UserId : \E email \in Email, password \in Password, role \in Role :
              Table!Open(k, email, password, role)
  BY <1>2, <1>7, <1>8
<1>9. CASE \E k \in UserId : \/ \E role \in Role : Table!SetRole(k, role)
                            \/ \E password \in Password : Table!SetPassword(k, password)
  BY <1>3, <1>4, <1>6, <1>9
<1>10. CASE \E k \in UserId : Table!Close(k)
  BY <1>5, <1>6, <1>10
<1>11. QED
  BY <1>8, <1>9, <1>10 DEF Table!Next

\* No row of it goes back to none, and no deleted one comes back.
LEMMA TableForward ==
    ASSUME TypeOK, [Table!Next]_users, NEW i \in UserId
    PROVE  /\ users[i] # None => users'[i] # None
           /\ users[i] = Gone => users'[i] = Gone
  BY TableWrites, NotRows DEF TypeOK

LEMMA FoundInv == Spec => []FoundGivenOut
<1>1. Init => FoundGivenOut
  BY DEF Init, FoundGivenOut, Busy, Ops
<1>2. ASSUME IInv, FoundGivenOut, [Next]_vars
      PROVE  FoundGivenOut'
  <2>1. ASSUME NEW r \in Request, Busy(r)'
        PROVE  users'[job'[r].id] # None
    <3>1. job'[r].id \in UserId
      <4>1. job'[r] \in Job
        BY <1>2, <2>1, NextInv DEF IInv, GivenIsSeen
      <4>2. QED
        BY <4>1 DEF Job
    <3>2. users[job'[r].id] # None
      BY <1>2, <2>1, JobSteps DEF FoundGivenOut, Live
    <3>3. QED
      BY <1>2, <3>1, <3>2, TableStep, TableForward DEF IInv
  <2>2. QED
    BY <2>1 DEF FoundGivenOut
<1>3. QED
  BY <1>1, <1>2, Invariance, PTL DEF Spec

(* However requests interleave, the table moves as if each wrote its one     *)
(* column, or its deletion, to an account that is there.                     *)
THEOREM ImplementsTable == Spec => TableSpec
<1>1. Init => Table!Init
  BY DEF Init, Table!Init
<1>2. IInv /\ FoundGivenOut /\ [Next]_vars => [Table!Next]_users
  BY TableStep
<1>3. QED
  BY <1>1, <1>2, Invariance, FoundInv, PTL DEF Spec, TableSpec, Table!Spec

(* No two accounts have the same email: read off the abstract table.         *)
THEOREM EmailsIdentify == Spec => []OneAccountPerEmail
<1>1. Init => OneAccountPerEmail
  BY DEF Init, OneAccountPerEmail, Live
<1>2. ASSUME TypeOK, OneAccountPerEmail, [Table!Next]_users
      PROVE  OneAccountPerEmail'
  <2>1. CASE users' = users
    BY <1>2, <2>1 DEF OneAccountPerEmail, Live
  <2>2. CASE users' # users
    <3>1. PICK k \in UserId, v \in Row \union {Gone} :
            /\ users' = [users EXCEPT ![k] = v]
            /\ v \in Row => IF Live(k) THEN v.email = users[k].email
                           ELSE \A j \in UserId : Live(j) => users[j].email # v.email
      BY <1>2, <2>2, TableWrites
    <3>2. \A i \in UserId : i # k => users'[i] = users[i]
      BY <1>2, <3>1 DEF TypeOK
    <3>3. users'[k] = v
      BY <1>2, <3>1 DEF TypeOK
    <3>4. QED
      BY <1>2, <3>1, <3>2, <3>3 DEF OneAccountPerEmail, Live
  <2>3. QED
    BY <2>1, <2>2
<1>3. QED
  BY <1>1, <1>2, TypeCorrect, ImplementsTable, PTL DEF Spec, TableSpec, Table!Spec

(* No update that is still awaited brings a deleted account back: read off   *)
(* the abstract table.                                                       *)
THEOREM DeletedForGood == Spec => GoneStaysGone
<1>1. TypeOK /\ [Table!Next]_users
        => [\A i \in UserId : users[i] = Gone => users'[i] = Gone]_vars
  BY TableForward
<1>2. QED
  BY <1>1, TypeCorrect, ImplementsTable, PTL DEF TableSpec, Table!Spec, GoneStaysGone

-------------------------------------------------------------------------------
(* What answers say, and whose passwords are replaced.                       *)

\* A request is answered with success by one of the four steps that say so.
LEMMA DoneSteps ==
    ASSUME IInv, [Next]_vars, NEW r \in Request, Busy(r), pc'[r] = "done"
    PROVE  LoginEnds(r) \/ SaveRole(r) \/ SavePassword(r) \/ Destroy(r)
<1>1. pc[r] # "done" /\ pc \in [Request -> Ops \union {"none", "done"}]
  BY DEF Busy, Ops, IInv, TypeOK
<1>2. pc' # pc
  BY <1>1
<1>3. ASSUME NEW q \in Request, NEW op \in Ops, NEW i, NEW given, NEW new,
             Finds(q, op, i, given, new)
      PROVE  FALSE
  BY <1>1, <1>3 DEF Finds, Ops, Busy
<1>4. ~\E q \in Request, t \in tokens : Asks(q, t)
  <2> SUFFICES ASSUME NEW q \in Request, NEW t \in tokens, Asks(q, t) PROVE FALSE
    OBVIOUS
  <2>1. {"update", "change", "reset", "delete"} \subseteq Ops
    BY DEF Ops
  <2>2. QED
    BY <1>3, <2>1 DEF Asks, UpdateMine, UpdateById, ChangeFinds, ResetFinds, DeleteFinds
<1>5. ~\E q \in Request, i \in UserId, given \in Password : LoginFinds(q, i, given)
  <2>1. "login" \in Ops
    BY DEF Ops
  <2>2. QED
    BY <1>3, <2>1 DEF LoginFinds
<1>6. ~\E i \in UserId, email \in Email, password \in Password, role \in Role :
        Register(i, email, password, role)
  BY <1>2 DEF Register
<1>7. ~\E t \in tokens : Expires(t)
  BY <1>2 DEF Expires
<1>8. PICK q \in Request : Ended(q)
  BY <1>2, <1>4, <1>5, <1>6, <1>7 DEF Next, vars
<1>9. ~Fails(q)
  BY <1>1 DEF Fails, Ends
<1>10. \E how : Ends(q, how)
  BY <1>8 DEF Ended, LoginEnds, SaveRole, SavePassword, Destroy, Writes, Fails
<1>11. q = r
  BY <1>1, <1>10 DEF Ends
<1>12. QED
  BY <1>8, <1>9, <1>11 DEF Ended

(* A success that is reported is true, or another request changed the row    *)
(* between its being found and the report.                                   *)
THEOREM SuccessAlwaysTrue == Spec => SuccessIsTrue
<1>1. ASSUME IInv, [Next]_vars, NEW r \in Request, Busy(r), pc'[r] = "done", r \notin touched
      PROVE  SuccessMeans(pc[r], job[r], users'[job[r].id])
  <2>1. /\ job[r] \in Job /\ users[job[r].id] = job[r].seen
        /\ pc[r] \in {"login", "change"} => job[r].given = job[r].seen.password
    BY <1>1 DEF IInv, CopyIsRow, GivenIsSeen
  <2>2. job[r].id \in UserId /\ job[r].seen \in Row
    BY <2>1 DEF Job
  <2>3. Live(job[r].id)
    BY <2>1, <2>2, NotRows DEF Live
  <2>4. CASE LoginEnds(r)
    BY <2>1, <2>4 DEF LoginEnds, SuccessMeans
  <2>5. CASE SaveRole(r) \/ SavePassword(r) \/ Destroy(r)
    <3>1. PICK v \in Row \union {None, Gone} :
            /\ Writes(r, job[r].id, v)
            /\ pc[r] = "delete" => v = Gone
            /\ pc[r] \in {"update", "change", "reset", "delete"}
            /\ pc[r] = "update" => v \in Row /\ v.role = job[r].new.role
            /\ pc[r] \in {"change", "reset"} => v \in Row /\ v.password = job[r].new.password
      BY <1>1, <2>1, <2>3, <2>5, Written
    <3>2. users'[job[r].id] = v
      BY <1>1, <2>2, <3>1 DEF Writes, IInv, TypeOK
    <3>3. QED
      BY <3>1, <3>2 DEF SuccessMeans
  <2>6. QED
    BY <1>1, <2>4, <2>5, DoneSteps
<1>2. IInv /\ [Next]_vars
      => [\A r \in Request :
            Busy(r) /\ pc'[r] = "done"
            => SuccessMeans(pc[r], job[r], users'[job[r].id]) \/ r \in touched]_vars
  BY <1>1
<1>3. QED
  BY <1>2, Invariance, PTL DEF Spec, SuccessIsTrue

(* A password is replaced by a reset, by a change that gave the one it       *)
(* replaces, or by a change that has been overtaken.                         *)
THEOREM PasswordsReplacedByOwner == Spec => ReplacedByOwner
<1> DEFINE Owner(i) ==
      \E r \in Request :
        /\ Busy(r) /\ pc'[r] \notin Ops /\ job[r].id = i
        /\ \/ pc[r] = "reset"
           \/ pc[r] = "change" /\ (job[r].given = users[i].password \/ r \in touched)
<1>1. ASSUME IInv, [Next]_vars, NEW i \in UserId, Live(i), users'[i] # Gone,
             users'[i].password # users[i].password
      PROVE  Owner(i)
  <2>1. users' # users
    BY <1>1
  <2>2. ASSUME NEW k \in UserId, NEW email \in Email, NEW password \in Password,
               NEW role \in Role, Register(k, email, password, role)
        PROVE  FALSE
    <3>1. k # i
      BY <1>1, <2>2 DEF Register, Live
    <3>2. QED
      BY <1>1, <2>2, <3>1 DEF Register, IInv, TypeOK
  <2>3. ASSUME NEW r \in Request, SaveRole(r) \/ SavePassword(r) \/ Destroy(r)
        PROVE  Owner(i)
    <3>1. PICK v \in Row \union {None, Gone} :
            /\ Busy(r) /\ job[r] \in Job /\ Writes(r, job[r].id, v)
            /\ pc[r] = "delete" => v = Gone
            /\ pc[r] \in {"update", "change", "reset", "delete"}
            /\ Live(job[r].id) /\ pc[r] = "update" => v.password = users[job[r].id].password
      BY <1>1, <2>3, Written
    <3>2. /\ users' = [users EXCEPT ![job[r].id] = v]
          /\ \E how \in {"done", "none"} : pc' = [pc EXCEPT ![r] = how]
      BY <3>1 DEF Writes, Ends
    <3>3. job[r].id = i /\ users'[i] = v
      BY <1>1, <3>1, <3>2 DEF IInv, TypeOK
    <3>4. pc[r] \in {"change", "reset"}
      BY <1>1, <3>1, <3>3
    <3>5. pc[r] = "change" /\ r \notin touched => job[r].given = users[i].password
      BY <1>1, <3>1, <3>3 DEF IInv, CopyIsRow, GivenIsSeen
    <3>6. pc'[r] \notin Ops
      BY <1>1, <3>2 DEF IInv, TypeOK, Ops
    <3>7. QED
      BY <3>1, <3>3, <3>4, <3>5, <3>6
  <2>4. QED
    BY <1>1, <2>1, <2>2, <2>3, RowSteps
<1>2. IInv /\ [Next]_vars
      => [\A i \in UserId :
            /\ Live(i) /\ users'[i] # Gone
            /\ users'[i].password # users[i].password
            => Owner(i)]_vars
  BY <1>1
<1>3. QED
  BY <1>2, Invariance, PTL DEF Spec, ReplacedByOwner
===============================================================================
