---------------------------- MODULE MediaAvatars ------------------------------
(***************************************************************************)
(* The avatar files of one user of the media-service.  Files of different  *)
(* users never meet.                                                       *)
(*                                                                         *)
(* There is no table: what the user's avatar is, a glob over the directory *)
(* says.  An upload removes the file it finds, opens its own and awaits    *)
(* the rest of the body before it writes; a download is handed a path and  *)
(* opens it later.  A removed file stays writable for who has it open.     *)
(***************************************************************************)
CONSTANTS
    Request,    \* requests of the user served at a time
    Data,       \* pictures
    Ext,        \* extensions of the files uploaded
    NoExt,      \* none: the file is named by the user's id alone
    Absent,     \* no such file
    Empty,      \* a file without a byte
    Torn,       \* part of a picture, or of two
    Nobody      \* no request

ASSUME AvatarsAssumption ==
    /\ NoExt \in Ext
    /\ Absent # Empty /\ Absent # Torn /\ Empty # Torn
    /\ {Absent, Empty, Torn} \cap Data = {}
    /\ Nobody \notin Request

VARIABLES
    file,       \* [Ext -> Contents]: the directory
    job,        \* [Request -> Jobs]: what each request is waiting for
    latest,     \* history: the upload or removal that began last
    wanted,     \* history: what it left, or is to leave, to be served
    disturbed,  \* history: downloads under way when another request has
                \* changed the directory
    early       \* history: downloads that took the size of a file whose
                \* upload was not over, or has failed

vars == <<file, job, latest, wanted, disturbed, early>>

Contents == Data \union {Absent, Empty, Torn}

\* Answered: "saved" and "removed" are successes, "failed" is 422, "missing"
\* 404, "sent" a download that arrived, "broken" one that did not.
Over == {"idle", "saved", "failed", "removed", "missing", "sent", "broken"}
Places == Over \union {"reading", "serving", "sized"}
Jobs == [pc : Places, ext : Ext, data : Contents, linked : BOOLEAN]

Ends(v) == [pc |-> v, ext |-> NoExt, data |-> Absent, linked |-> FALSE]
Sent(d) == [pc |-> "sent", ext |-> NoExt, data |-> d, linked |-> FALSE]
Reading(e, d) == [pc |-> "reading", ext |-> e, data |-> d, linked |-> TRUE]
Serving(e) == [pc |-> "serving", ext |-> e, data |-> Absent, linked |-> FALSE]
Sized(e, d) == [pc |-> "sized", ext |-> e, data |-> d, linked |-> FALSE]

Init ==
    /\ file = [e \in Ext |-> Absent]
    /\ job = [r \in Request |-> Ends("idle")]
    /\ latest = Nobody /\ wanted = Absent /\ disturbed = {} /\ early = {}

-------------------------------------------------------------------------------
(* The glob asks for a dot after the id, so it misses a file without an      *)
(* extension; of several matches the first is taken, in no order.            *)

Matches == {e \in Ext \ {NoExt} : file[e] # Absent}
Firsts == IF Matches = {} THEN {{}} ELSE {{e} : e \in Matches}

\* Whoever has a removed file open writes to a file that has no name.
Unlinked(j, gone) ==
    [pc |-> j.pc, ext |-> j.ext, data |-> j.data,
     linked |-> j.linked /\ j.ext \notin gone]

Downloading == {r \in Request : job[r].pc \in {"serving", "sized"}}

\* Request r is served by directory f, having removed the files gone, and is
\* then at j.
Does(r, j, gone, f) ==
    /\ file' = f
    /\ job' = [q \in Request |-> IF q = r THEN j ELSE Unlinked(job[q], gone)]
    /\ disturbed' = (IF f = file THEN disturbed ELSE disturbed \union Downloading)
                        \ {r}
    /\ UNCHANGED early

\* It began last, and is to leave d.
Begins(r, d) == latest' = r /\ wanted' = d

With(e, d, gone) ==
    [x \in Ext |-> IF x = e THEN d ELSE IF x \in gone THEN Absent ELSE file[x]]
Without(gone) == [x \in Ext |-> IF x \in gone THEN Absent ELSE file[x]]
Shown(e, d) == IF e = NoExt THEN Absent ELSE d

-------------------------------------------------------------------------------
(* upload_avatar.  A body that the framework keeps in memory is read without *)
(* a wait, one that it has put on disk is awaited.                           *)

\* Mutant: the file that is there stays.
UploadOpensBeside(r, e, d) ==
    /\ job[r].pc \in Over
    /\ Does(r, Reading(e, d), {}, With(e, Empty, {})) /\ Begins(r, Shown(e, d))

UploadOpens(r, e, d) ==
    /\ job[r].pc \in Over
    /\ \E gone \in Firsts : Does(r, Reading(e, d), gone, With(e, Empty, gone))
    /\ Begins(r, Shown(e, d))

UploadAtOnce(r, e, d) ==
    /\ job[r].pc \in Over
    /\ \E gone \in Firsts : Does(r, Ends("saved"), gone, With(e, d, gone))
    /\ Begins(r, Shown(e, d))

\* The file cannot be opened; the old one has gone.
UploadNotOpened(r) ==
    /\ job[r].pc \in Over
    /\ \E gone \in Firsts : Does(r, Ends("failed"), gone, Without(gone))
    /\ Begins(r, Absent)

\* What is written over another upload's picture may not cover it.
Overwritten(e, d) == IF file[e] = Empty THEN {d} ELSE {d, Torn}

UploadWrites(r) ==
    /\ job[r].pc = "reading"
    /\ \/ /\ job[r].linked
          /\ \E c \in Overwritten(job[r].ext, job[r].data) :
                Does(r, Ends("saved"), {}, With(job[r].ext, c, {}))
       \/ ~job[r].linked /\ Does(r, Ends("saved"), {}, file)
    /\ UNCHANGED <<latest, wanted>>

\* Mutant: the file is removed, by its name.
UploadFailsCleansUp(r) ==
    /\ job[r].pc = "reading"
    /\ Does(r, Ends("failed"), {job[r].ext}, Without({job[r].ext}))
    /\ wanted' = IF latest = r THEN Absent ELSE wanted
    /\ UNCHANGED latest

\* The body cannot be read, or not all of it can be written; what has been
\* written stays.
UploadFails(r) ==
    /\ job[r].pc = "reading"
    /\ \/ /\ job[r].linked
          /\ \E c \in {file[job[r].ext], Torn} :
                /\ Does(r, Ends("failed"), {}, With(job[r].ext, c, {}))
                /\ wanted' = IF latest = r THEN Shown(job[r].ext, c) ELSE wanted
       \/ ~job[r].linked /\ Does(r, Ends("failed"), {}, file) /\ UNCHANGED wanted
    /\ UNCHANGED latest

-------------------------------------------------------------------------------
(* remove_avatar, get_avatar.  FileResponse takes the size of the file in a  *)
(* thread, sends it with the headers, then opens the file and sends that,    *)
(* and breaks off when the two differ.                                       *)

RemoveAvatar(r) ==
    /\ job[r].pc \in Over
    /\ \E gone \in Firsts : Does(r, Ends("removed"), gone, Without(gone))
    /\ Begins(r, Absent)

\* Mutant: the path is not looked up.
GetFindsAny(r) ==
    /\ job[r].pc \in Over
    /\ \E e \in Ext \ {NoExt} : Does(r, Serving(e), {}, file)
    /\ UNCHANGED <<latest, wanted>>

GetFinds(r) ==
    /\ job[r].pc \in Over
    /\ \/ Matches = {} /\ Does(r, Ends("missing"), {}, file)
       \/ \E e \in Matches : Does(r, Serving(e), {}, file)
    /\ UNCHANGED <<latest, wanted>>

\* The upload that began last is under way, or did not come to its end.
LatestReads == latest # Nobody /\ job[latest].pc = "reading"
LatestUndone == LatestReads \/ wanted \in {Empty, Torn}

GetSizes(r) ==
    /\ job[r].pc = "serving"
    /\ LET d == file[job[r].ext]
       IN /\ job' = [job EXCEPT ![r] = IF d = Absent THEN Ends("broken")
                                                     ELSE Sized(job[r].ext, d)]
          /\ early' = IF d # Absent /\ LatestUndone THEN early \union {r} ELSE early
    /\ UNCHANGED <<file, latest, wanted, disturbed>>

\* Mutant: the size is not compared.
OutcomesUnchecked(s, d) ==
    IF s = Empty THEN {Sent(Empty)} ELSE {Sent(IF d = s THEN d ELSE Torn)}

\* What can become of a download that has announced the size of s when the
\* file is d by the time it is opened.  Nothing is the whole of an empty file,
\* whatever there is to send; and one picture may be as long as another.
Outcomes(s, d) ==
    IF s = Empty THEN {Sent(Empty)}
    ELSE (IF d \in {Absent, Empty} THEN {} ELSE {Sent(d)})
           \union (IF d = s THEN {} ELSE {Ends("broken")})

GetSends(r) ==
    /\ job[r].pc = "sized"
    /\ \E j \in Outcomes(job[r].data, file[job[r].ext]) : job' = [job EXCEPT ![r] = j]
    /\ early' = early \ {r}
    /\ UNCHANGED <<file, latest, wanted, disturbed>>

-------------------------------------------------------------------------------
\* The container starts again: the requests are gone, the volume stays.
Restarts ==
    /\ job' = [r \in Request |-> Ends("idle")]
    /\ wanted' = IF latest # Nobody /\ job[latest].pc = "reading"
                 THEN Shown(job[latest].ext, Empty) ELSE wanted
    /\ latest' = Nobody /\ disturbed' = {} /\ early' = {}
    /\ UNCHANGED file

Next ==
    \/ \E r \in Request :
         \/ \E e \in Ext, d \in Data : UploadOpens(r, e, d) \/ UploadAtOnce(r, e, d)
         \/ UploadNotOpened(r) \/ UploadWrites(r) \/ UploadFails(r)
         \/ RemoveAvatar(r)
         \/ GetFinds(r) \/ GetSizes(r) \/ GetSends(r)
    \/ Restarts

Spec == Init /\ [][Next]_vars

-------------------------------------------------------------------------------
(* Properties                                                                *)

TypeOK ==
    /\ file \in [Ext -> Contents] /\ job \in [Request -> Jobs]
    /\ latest \in Request \union {Nobody} /\ wanted \in Contents
    /\ disturbed \subseteq Request /\ early \subseteq Request

(* The user has at most one avatar a download can find, at any time: the     *)
(* removal of the one file that is found and the opening of the other are    *)
(* not separated by an await, however many uploads are under way.            *)
OneAvatar == \A e, f \in Matches : e = f

Shows(d) ==
    IF d = Absent THEN Matches = {} ELSE \E e \in Matches : Matches = {e} /\ file[e] = d

(* When no upload is under way, the avatar is what the upload or removal     *)
(* that began last left: not the one that ended last.  An upload that was    *)
(* overtaken answers Success and leaves nothing.                             *)
LastBegunWins == (\A r \in Request : job[r].pc # "reading") => Shows(wanted)

(* A download that arrives is a whole picture, unless the last upload was    *)
(* under way or had failed when the download took the size, or has failed in *)
(* the middle of the picture since.  Its answer may be later than the        *)
(* upload's Success: what counts is when the size was taken.                 *)
SentIsWhole ==
    [][\A r \in Request :
          job[r].pc = "sized" /\ job'[r].pc = "sent" =>
            job'[r].data \in Data \/ r \in early \/ wanted = Torn]_vars

(* A download that was found breaks off only when another request has        *)
(* changed the directory since.                                              *)
BrokenForCause ==
    [][\A r \in Request :
          job[r].pc \in {"serving", "sized"} /\ job'[r].pc = "broken"
            => r \in disturbed]_vars

===============================================================================
