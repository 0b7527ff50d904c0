----------------------------- MODULE AccountTable -----------------------------
(***************************************************************************)
(* What the user-service promises of its accounts, whatever requests read, *)
(* await and write at the same time: an id is given out once, no two       *)
(* accounts have the same email, an account changes one column at a time,  *)
(* never its email, and once deleted it stays so.                          *)
(***************************************************************************)
CONSTANTS Id, Email, Password, Role, None, Gone

VARIABLE accounts   \* [Id -> a row, None before it is given out, Gone at last]

Held(i) == accounts[i] \notin {None, Gone}

Init == accounts = [i \in Id |-> None]

Open(i, email, password, role) ==
    /\ accounts[i] = None
    /\ \A j \in Id : Held(j) => accounts[j].email # email
    /\ accounts' = [accounts EXCEPT ![i] =
                      [email |-> email, password |-> password, role |-> role]]

SetRole(i, role) ==
    /\ Held(i)
    /\ accounts' = [accounts EXCEPT ![i] =
                      [email |-> @.email, password |-> @.password, role |-> role]]

SetPassword(i, password) ==
    /\ Held(i)
    /\ accounts' = [accounts EXCEPT ![i] =
                      [email |-> @.email, password |-> password, role |-> @.role]]

Close(i) ==
    /\ Held(i)
    /\ accounts' = [accounts EXCEPT ![i] = Gone]

Next ==
    \E i \in Id :
        \/ \E email \in Email, password \in Password, role \in Role :
              Open(i, email, password, role)
        \/ \E role \in Role : SetRole(i, role)
        \/ \E password \in Password : SetPassword(i, password)
        \/ Close(i)

Spec == Init /\ [][Next]_accounts
===============================================================================
