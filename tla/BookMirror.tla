------------------------------ MODULE BookMirror ------------------------------
(***************************************************************************)
(* What the books pipeline promises.  The book-service owns a catalogue in *)
(* which a book goes from absent to live to deleted and never back.  The   *)
(* review-service keeps a mirror of the catalogue's ids: it takes in only  *)
(* books the catalogue has committed, and drops only books the catalogue   *)
(* has deleted.  Nothing here says when the mirror catches up.             *)
(***************************************************************************)
CONSTANT BookId

VARIABLES catalog,   \* the state of each book in the book-service
          mirror     \* ids present in the review-service's books collection

mirrorVars == <<catalog, mirror>>

Init ==
    /\ catalog = [b \in BookId |-> "absent"]
    /\ mirror = {}

Create(b) ==
    /\ catalog[b] = "absent"
    /\ catalog' = [catalog EXCEPT ![b] = "live"]
    /\ UNCHANGED mirror

Delete(b) ==
    /\ catalog[b] = "live"
    /\ catalog' = [catalog EXCEPT ![b] = "deleted"]
    /\ UNCHANGED mirror

\* A mirror that learns of a book late may take in one deleted meanwhile.
TakeIn(b) ==
    /\ catalog[b] # "absent"
    /\ mirror' = mirror \union {b}
    /\ UNCHANGED catalog

Drop(b) ==
    /\ catalog[b] = "deleted"
    /\ mirror' = mirror \ {b}
    /\ UNCHANGED catalog

Next == \E b \in BookId : Create(b) \/ Delete(b) \/ TakeIn(b) \/ Drop(b)

Spec == Init /\ [][Next]_mirrorVars
===============================================================================
