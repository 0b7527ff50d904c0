------------------------ MODULE MediaAvatarsProofs ----------------------------
(***************************************************************************)
(* The avatar files, for every number of requests, pictures and            *)
(* extensions.                                                             *)
(***************************************************************************)
EXTENDS MediaAvatars, TLAPS

-------------------------------------------------------------------------------
(* The inductive invariant                                                   *)

Now == IF LatestReads THEN Shown(job[latest].ext, Empty) ELSE wanted

JobsOK ==
    \A r \in Request :
        /\ job[r].linked => job[r].pc = "reading"
        /\ job[r].pc = "reading" => job[r].data \in Data
        /\ job[r].pc \in {"serving", "sized"} => job[r].ext # NoExt

\* Only the upload that began last still has a file that can be found.
LinkedOK == \A r \in Request : job[r].linked /\ job[r].ext # NoExt => r = latest
OpenIsThere == \A r \in Request : job[r].linked => file[job[r].ext] # Absent
LatestOK ==
    LatestReads => /\ job[latest].linked
                   /\ wanted = Shown(job[latest].ext, job[latest].data)
                   /\ job[latest].ext # NoExt => file[job[latest].ext] = Empty

\* The directory shows one picture at most: the one wanted, or an empty file.
ShownOK == Shows(Now)

\* What a download was handed is as it was, unless it has been disturbed.
UndisturbedOK ==
    \A r \in Request \ disturbed :
        /\ job[r].pc = "serving" => file[job[r].ext] # Absent
        /\ job[r].pc = "sized" => /\ file[job[r].ext] # Absent
                                  /\ file[job[r].ext] = job[r].data

IInv == TypeOK /\ JobsOK /\ LinkedOK /\ OpenIsThere /\ LatestOK
            /\ ShownOK /\ UndisturbedOK

-------------------------------------------------------------------------------
(* Operators                                                                 *)

LEMMA ShowsOne == ASSUME IInv PROVE OneAvatar
  BY DEF IInv, ShownOK, Shows, OneAvatar

\* What is removed is all there is to find.
LEMMA FirstsAreAll == ASSUME IInv, NEW gone \in Firsts PROVE gone = Matches
  <1>1. \A e, f \in Matches : e = f
    BY ShowsOne DEF OneAvatar
  <1>2. CASE Matches = {}
    BY <1>2 DEF Firsts
  <1>3. CASE Matches # {}
    <2>1. PICK e \in Matches : gone = {e}
      BY <1>3 DEF Firsts
    <2> QED  BY <2>1, <1>1
  <1> QED  BY <1>2, <1>3

LEMMA JobTypes ==
  /\ \A v \in Over : Ends(v) \in Jobs
  /\ \A d \in Contents : Sent(d) \in Jobs
  /\ \A e \in Ext, d \in Data : Reading(e, d) \in Jobs
  /\ \A e \in Ext : Serving(e) \in Jobs
  /\ \A e \in Ext, d \in Contents : Sized(e, d) \in Jobs
  /\ \A j \in Jobs : \A gone : Unlinked(j, gone) \in Jobs
  BY AvatarsAssumption DEF Ends, Sent, Reading, Serving, Sized, Unlinked, Jobs, Places, Over, Contents

LEMMA FileTypes ==
  ASSUME TypeOK, NEW gone
  PROVE  /\ \A e \in Ext, d \in Contents : With(e, d, gone) \in [Ext -> Contents]
         /\ Without(gone) \in [Ext -> Contents]
  BY DEF TypeOK, With, Without, Contents

-------------------------------------------------------------------------------
LEMMA InitIInv == ASSUME Init PROVE IInv
  <1> USE AvatarsAssumption DEF Init
  <1>1. TypeOK
    BY JobTypes DEF TypeOK, Contents, Over
  <1>2. JobsOK /\ LinkedOK /\ OpenIsThere /\ UndisturbedOK
    BY DEF JobsOK, LinkedOK, OpenIsThere, UndisturbedOK, Ends
  <1>3. LatestOK /\ ShownOK
    BY DEF LatestOK, ShownOK, LatestReads, Now, Shows, Matches
  <1> QED  BY <1>1, <1>2, <1>3 DEF IInv

\* A step of a request keeps the types.
LEMMA DoesTypes ==
  ASSUME TypeOK, NEW r \in Request, NEW j \in Jobs, NEW gone,
         NEW f \in [Ext -> Contents], Does(r, j, gone, f)
  PROVE  /\ file' \in [Ext -> Contents] /\ job' \in [Request -> Jobs]
         /\ disturbed' \subseteq Request /\ early' \subseteq Request
  BY JobTypes DEF TypeOK, Does, Downloading

\* Nor does it touch the others' jobs but for their links.
LEMMA DoesOthers ==
  ASSUME TypeOK, NEW r \in Request, NEW j, NEW gone, NEW f, Does(r, j, gone, f)
  PROVE  /\ job'[r] = j /\ file' = f
         /\ \A q \in Request \ {r} :
              /\ job'[q].pc = job[q].pc /\ job'[q].ext = job[q].ext
              /\ job'[q].data = job[q].data
              /\ job'[q].linked = (job[q].linked /\ job[q].ext \notin gone)
  BY DEF Does, Unlinked

\* What a download relies on is kept, or the download is disturbed.
LEMMA DoesDisturbs ==
  ASSUME IInv, NEW r \in Request, NEW j \in Jobs, NEW gone, NEW f, Does(r, j, gone, f),
         j.pc = "serving" => f[j.ext] # Absent, j.pc # "sized"
  PROVE  UndisturbedOK'
  <1>1. job'[r] = j /\ file' = f /\ r \notin disturbed'
    BY DoesOthers DEF IInv, Does
  <1>2. ASSUME NEW q \in Request \ {r}, q \notin disturbed', job'[q].pc \in {"serving", "sized"}
        PROVE  file' = file /\ q \notin disturbed /\ job'[q].pc = job[q].pc
                 /\ job'[q].ext = job[q].ext /\ job'[q].data = job[q].data
    <2>1. job'[q].pc = job[q].pc /\ job'[q].ext = job[q].ext /\ job'[q].data = job[q].data
      BY DoesOthers DEF IInv
    <2>2. q \in Downloading
      BY <1>2, <2>1 DEF Downloading
    <2> QED  BY <1>2, <2>1, <2>2 DEF Does
  <1> QED  BY <1>1, <1>2 DEF IInv, UndisturbedOK

-------------------------------------------------------------------------------
(* Uploads and removals: what begins last is shown.                          *)

\* Whichever it is, it removes what there is to find, leaves nobody else with a
\* file that can be found, and shows its own.
LEMMA BeginKeeps ==
  ASSUME IInv, NEW r \in Request, NEW j \in Jobs, NEW d \in Data \union {Absent},
         NEW f \in [Ext -> Contents], Does(r, j, Matches, f), Begins(r, d),
         j.pc \notin {"serving", "sized"},
         file[NoExt] # Absent => f[NoExt] # Absent,
         \/ /\ j.pc # "reading" /\ ~j.linked
            /\ \/ d = Absent /\ \A x \in Ext \ {NoExt} : f[x] = Absent
               \/ \E e \in Ext \ {NoExt} :
                     f[e] = d /\ d # Absent /\ \A x \in Ext \ {e, NoExt} : f[x] = Absent
         \/ /\ j.pc = "reading" /\ j.linked /\ j.data \in Data
            /\ d = Shown(j.ext, j.data)
            /\ f[j.ext] = Empty
            /\ \A x \in Ext \ {j.ext, NoExt} : f[x] = Absent
  PROVE  IInv'
  <1> USE AvatarsAssumption
  <1>1. /\ job'[r] = j /\ file' = f /\ latest' = r /\ wanted' = d
        /\ \A q \in Request \ {r} :
             /\ job'[q].pc = job[q].pc /\ job'[q].ext = job[q].ext
             /\ job'[q].data = job[q].data
             /\ job'[q].linked = (job[q].linked /\ job[q].ext \notin Matches)
    BY DoesOthers DEF IInv, Begins
  <1>2. TypeOK'
    <2>1. /\ file' \in [Ext -> Contents] /\ job' \in [Request -> Jobs]
          /\ disturbed' \subseteq Request /\ early' \subseteq Request
      BY DoesTypes DEF IInv
    <2> QED  BY <1>1, <2>1 DEF TypeOK, Contents
  <1>3. JobsOK'
    BY <1>1 DEF IInv, JobsOK
  <1>4. LinkedOK'
    <2> SUFFICES ASSUME NEW q \in Request \ {r}, job'[q].linked, job'[q].ext # NoExt
                 PROVE  FALSE
      BY <1>1 DEF LinkedOK
    <2>1. job[q].linked /\ job[q].ext # NoExt /\ job[q].ext \notin Matches
      BY <1>1
    <2>2. q = latest /\ job[q].pc = "reading" /\ LatestReads
      BY <2>1 DEF IInv, LinkedOK, JobsOK, LatestReads
    <2>3. file[job[q].ext] = Empty
      BY <2>1, <2>2 DEF IInv, LatestOK
    <2>4. job[q].ext \in Ext
      BY DEF IInv, TypeOK, Jobs
    <2> QED  BY <2>1, <2>3, <2>4 DEF Matches
  <1>5. LatestOK'
    BY <1>1 DEF LatestOK, LatestReads
  <1>8. OpenIsThere'
    <2> SUFFICES ASSUME NEW q \in Request \ {r}, job'[q].linked
                 PROVE  file'[job'[q].ext] # Absent
      BY <1>1 DEF OpenIsThere
    <2>1. file[job[q].ext] # Absent /\ job[q].ext \notin Matches /\ job[q].ext \in Ext
      BY <1>1 DEF IInv, OpenIsThere, TypeOK, Jobs
    <2>2. job[q].ext = NoExt
      BY <2>1 DEF Matches
    <2> QED  BY <1>1, <2>1, <2>2
  <1>6. ShownOK'
    <2>1. CASE j.pc # "reading" /\ d = Absent
      <3>1. Now' = Absent
        BY <1>1, <2>1 DEF Now, LatestReads
      <3>2. Matches' = {}
        BY <1>1, <2>1 DEF Matches
      <3> QED  BY <3>1, <3>2 DEF ShownOK, Shows
    <2>2. CASE j.pc # "reading" /\ d # Absent
      <3>1. Now' = d
        BY <1>1, <2>2 DEF Now, LatestReads
      <3>2. PICK e \in Ext \ {NoExt} : f[e] = d /\ \A x \in Ext \ {e, NoExt} : f[x] = Absent
        BY <2>2
      <3>3. Matches' = {e} /\ file'[e] = d
        BY <1>1, <2>2, <3>2 DEF Matches
      <3> QED  BY <3>1, <3>3, <2>2 DEF ShownOK, Shows
    <2>3. CASE j.pc = "reading" /\ j.ext = NoExt
      <3>1. Now' = Absent
        BY <1>1, <2>3 DEF Now, LatestReads, Shown
      <3>2. Matches' = {}
        BY <1>1, <2>3 DEF Matches
      <3> QED  BY <3>1, <3>2 DEF ShownOK, Shows
    <2>4. CASE j.pc = "reading" /\ j.ext # NoExt
      <3>1. Now' = Empty
        BY <1>1, <2>4 DEF Now, LatestReads, Shown
      <3>2. j.ext \in Ext
        BY DEF Jobs
      <3>3. Matches' = {j.ext} /\ file'[j.ext] = Empty
        BY <1>1, <2>4, <3>2 DEF Matches
      <3> QED  BY <3>1, <3>3 DEF ShownOK, Shows
    <2> QED  BY <2>1, <2>2, <2>3, <2>4
  <1>7. UndisturbedOK'
    BY DoesDisturbs
  <1> QED  BY <1>2, <1>3, <1>4, <1>5, <1>6, <1>7, <1>8 DEF IInv

LEMMA UploadOpensStep ==
  ASSUME IInv, NEW r \in Request, NEW e \in Ext, NEW d \in Data, UploadOpens(r, e, d)
  PROVE  IInv'
  <1> USE AvatarsAssumption
  <1> DEFINE f == With(e, Empty, Matches)
  <1>1. Does(r, Reading(e, d), Matches, f) /\ Begins(r, Shown(e, d))
    BY FirstsAreAll DEF UploadOpens
  <1>2. Reading(e, d) \in Jobs /\ Shown(e, d) \in Data \union {Absent}
    BY JobTypes DEF Shown
  <1>3. f \in [Ext -> Contents]
    BY FileTypes DEF IInv, Contents
  <1>4. f[e] = Empty /\ \A x \in Ext \ {e, NoExt} : f[x] = Absent
    BY DEF With, Matches
  <1>5. /\ Reading(e, d).pc = "reading" /\ Reading(e, d).linked
        /\ Reading(e, d).ext = e /\ Reading(e, d).data = d
    BY DEF Reading
  <1>9. file[NoExt] # Absent => f[NoExt] # Absent
    BY DEF With, Matches
  <1> HIDE DEF f
  <1> QED  BY <1>1, <1>2, <1>3, <1>4, <1>5, <1>9, BeginKeeps

LEMMA UploadAtOnceStep ==
  ASSUME IInv, NEW r \in Request, NEW e \in Ext, NEW d \in Data, UploadAtOnce(r, e, d)
  PROVE  IInv'
  <1> USE AvatarsAssumption
  <1> DEFINE f == With(e, d, Matches)
  <1>1. Does(r, Ends("saved"), Matches, f) /\ Begins(r, Shown(e, d))
    BY FirstsAreAll DEF UploadAtOnce
  <1>2. Ends("saved") \in Jobs /\ Shown(e, d) \in Data \union {Absent}
    BY JobTypes DEF Shown, Over
  <1>3. f \in [Ext -> Contents]
    BY FileTypes DEF IInv, Contents
  <1>4. f[e] = d /\ \A x \in Ext \ {e, NoExt} : f[x] = Absent
    BY DEF With, Matches
  <1>5. Ends("saved").pc = "saved" /\ ~Ends("saved").linked
    BY DEF Ends
  <1>9. file[NoExt] # Absent => f[NoExt] # Absent
    BY DEF With, Matches
  <1>6. CASE e = NoExt
    <2>1. Shown(e, d) = Absent
      BY <1>6 DEF Shown
    <2> HIDE DEF f
    <2> QED  BY <1>1, <1>2, <1>3, <1>4, <1>5, <1>6, <2>1, <1>9, BeginKeeps
  <1>7. CASE e # NoExt
    <2>1. Shown(e, d) = d /\ d # Absent
      BY <1>7 DEF Shown
    <2> HIDE DEF f
    <2> QED  BY <1>1, <1>2, <1>3, <1>4, <1>5, <1>7, <2>1, <1>9, BeginKeeps
  <1> QED  BY <1>6, <1>7

LEMMA GoneStep ==
  ASSUME IInv, NEW r \in Request, UploadNotOpened(r) \/ RemoveAvatar(r)
  PROVE  IInv'
  <1> USE AvatarsAssumption
  <1> DEFINE f == Without(Matches)
  <1>1. PICK v \in {"failed", "removed"} : Does(r, Ends(v), Matches, f) /\ Begins(r, Absent)
    BY FirstsAreAll DEF UploadNotOpened, RemoveAvatar
  <1>2. Ends(v) \in Jobs
    BY JobTypes DEF Over
  <1>3. f \in [Ext -> Contents]
    BY FileTypes DEF IInv
  <1>4. \A x \in Ext \ {NoExt} : f[x] = Absent
    BY DEF Without, Matches
  <1>5. Ends(v).pc = v /\ ~Ends(v).linked
    BY DEF Ends
  <1>9. file[NoExt] # Absent => f[NoExt] # Absent
    BY DEF Without, Matches
  <1> HIDE DEF f
  <1> QED  BY <1>1, <1>2, <1>3, <1>4, <1>5, <1>9, BeginKeeps

-------------------------------------------------------------------------------
(* The end of an upload, downloads, a restart.                               *)

\* An upload that ends changes what is shown only if it began last.
LEMMA EndKeeps ==
  ASSUME IInv, NEW r \in Request, job[r].pc = "reading", NEW v \in {"saved", "failed"},
         NEW c \in Contents, c # Absent,
         NEW f, Does(r, Ends(v), {}, f), UNCHANGED latest,
         f = IF job[r].linked THEN With(job[r].ext, c, {}) ELSE file,
         wanted' = IF latest = r /\ job[r].linked THEN Shown(job[r].ext, c) ELSE wanted
  PROVE  IInv'
  <1> USE AvatarsAssumption
  <1> DEFINE e == job[r].ext
  <1>0. e \in Ext /\ job \in [Request -> Jobs] /\ file \in [Ext -> Contents]
    BY DEF IInv, TypeOK, Jobs
  <1>1. /\ job'[r] = Ends(v) /\ file' = f /\ latest' = latest
        /\ \A q \in Request \ {r} :
             /\ job'[q].pc = job[q].pc /\ job'[q].ext = job[q].ext
             /\ job'[q].data = job[q].data /\ job'[q].linked = job[q].linked
    <2>1. \A q \in Request : job[q].linked \in BOOLEAN
      BY <1>0 DEF Jobs
    <2> QED  BY <2>1, DoesOthers DEF IInv
  <1>2. job'[r].pc = v /\ job'[r].linked = FALSE
    BY <1>1 DEF Ends
  <1>3. f \in [Ext -> Contents]
    BY <1>0, FileTypes DEF IInv
  <1>4. TypeOK'
    <2>1. Ends(v) \in Jobs
      BY JobTypes DEF Over
    <2>2. /\ file' \in [Ext -> Contents] /\ job' \in [Request -> Jobs]
          /\ disturbed' \subseteq Request /\ early' \subseteq Request
      BY <1>3, <2>1, DoesTypes DEF IInv
    <2>3. wanted' \in Contents
      BY DEF IInv, TypeOK, Shown, Contents
    <2> QED  BY <1>1, <2>2, <2>3 DEF IInv, TypeOK
  <1>5. JobsOK'
    BY <1>1, <1>2 DEF IInv, JobsOK
  <1>6. LinkedOK'
    BY <1>1, <1>2 DEF IInv, LinkedOK
  <1>7. UndisturbedOK'
    <2>1. Ends(v) \in Jobs /\ Ends(v).pc = v
      BY JobTypes DEF Over, Ends
    <2> QED  BY <2>1, DoesDisturbs
  <1>10. OpenIsThere'
    <2>1. \A x \in Ext : file[x] # Absent => file'[x] # Absent
      BY <1>0, <1>1 DEF With
    <2> QED  BY <1>0, <1>1, <1>2, <2>1 DEF IInv, OpenIsThere, Jobs
  <1>8. CASE latest = r
    <2>1. LatestReads /\ job[r].linked
      BY <1>8 DEF LatestReads, IInv, LatestOK
    <2>2. f = With(e, c, {}) /\ wanted' = Shown(e, c)
      BY <1>8, <2>1
    <2>3. ~LatestReads' /\ Now' = wanted'
      BY <1>1, <1>2, <1>8 DEF LatestReads, Now
    <2>4. LatestOK'
      BY <2>3 DEF LatestOK
    <2>5. Now = Shown(e, Empty)
      BY <1>8, <2>1 DEF Now
    <2>6. CASE e = NoExt
      <3>1. Matches' = Matches /\ Matches = {} /\ Now' = Absent
        BY <1>0, <1>1, <2>2, <2>3, <2>5, <2>6 DEF IInv, ShownOK, Shows, Matches, With, Shown
      <3>2. ShownOK'
        BY <3>1 DEF ShownOK, Shows
      <3> QED  BY <1>4, <1>5, <1>6, <1>7, <1>10, <2>4, <3>2 DEF IInv
    <2>7. CASE e # NoExt
      <3>1. e \in Matches
        BY <1>0, <1>8, <2>1, <2>7 DEF IInv, LatestOK, Matches
      <3>2. Matches = {e}
        BY <3>1, ShowsOne DEF OneAvatar
      <3>3. Matches' = Matches
        BY <1>0, <1>1, <2>2, <3>1 DEF Matches, With
      <3>4. file'[e] = c /\ Now' = c
        BY <1>0, <1>1, <2>2, <2>3, <2>7 DEF With, Shown
      <3>5. ShownOK'
        BY <3>2, <3>3, <3>4 DEF ShownOK, Shows
      <3> QED  BY <1>4, <1>5, <1>6, <1>7, <1>10, <2>4, <3>5 DEF IInv
    <2> QED  BY <2>6, <2>7
  <1>9. CASE latest # r
    <2>1. wanted' = wanted
      BY <1>9
    <2>2. \A x \in Ext \ {NoExt} : file'[x] = file[x]
      BY <1>0, <1>1, <1>9 DEF IInv, LinkedOK, With
    <2>3. LatestReads' = LatestReads
      BY <1>1, <1>9 DEF LatestReads, IInv, TypeOK
    <2>4. LatestReads => job'[latest].ext = job[latest].ext /\ job[latest].ext \in Ext
                           /\ job'[latest].linked = job[latest].linked
                           /\ job'[latest].data = job[latest].data
      BY <1>0, <1>1, <1>9 DEF LatestReads, IInv, TypeOK, Jobs
    <2>5. Now' = Now
      BY <1>1, <2>1, <2>3, <2>4 DEF Now
    <2>6. Matches' = Matches
      BY <2>2 DEF Matches
    <2>7. ShownOK'
      BY <2>2, <2>5, <2>6 DEF IInv, ShownOK, Shows, Matches
    <2>8. LatestOK'
      BY <1>1, <2>1, <2>2, <2>3, <2>4 DEF IInv, LatestOK
    <2> QED  BY <1>4, <1>5, <1>6, <1>7, <1>10, <2>7, <2>8 DEF IInv
  <1> QED  BY <1>8, <1>9

LEMMA UploadWritesStep ==
  ASSUME IInv, NEW r \in Request, UploadWrites(r) PROVE IInv'
  <1> USE AvatarsAssumption
  <1>1. job[r].pc = "reading" /\ job[r].data \in Data /\ job[r].ext \in Ext
    BY DEF UploadWrites, IInv, JobsOK, TypeOK, Jobs
  <1>2. CASE job[r].linked
    <2>1. PICK c \in Overwritten(job[r].ext, job[r].data) :
              Does(r, Ends("saved"), {}, With(job[r].ext, c, {}))
      BY <1>2 DEF UploadWrites
    <2>2. c \in Contents /\ c # Absent
      BY <1>1 DEF Overwritten, Contents
    <2>3. wanted' = IF latest = r THEN Shown(job[r].ext, c) ELSE wanted
      <3>1. CASE latest = r
        <4>1. LatestReads /\ wanted = Shown(job[r].ext, job[r].data)
                /\ (job[r].ext # NoExt => file[job[r].ext] = Empty)
          BY <1>1, <3>1 DEF IInv, LatestOK, LatestReads
        <4>2. Shown(job[r].ext, c) = Shown(job[r].ext, job[r].data)
          BY <4>1 DEF Overwritten, Shown
        <4> QED  BY <3>1, <4>1, <4>2 DEF UploadWrites
      <3> QED  BY <3>1 DEF UploadWrites
    <2> QED  BY <1>1, <1>2, <2>1, <2>2, <2>3, EndKeeps DEF UploadWrites
  <1>3. CASE ~job[r].linked
    <2>1. Does(r, Ends("saved"), {}, file) /\ UNCHANGED <<latest, wanted>>
      BY <1>3 DEF UploadWrites
    <2>2. Empty \in Contents /\ Empty # Absent
      BY DEF Contents
    <2> QED  BY <1>1, <1>3, <2>1, <2>2, EndKeeps
  <1> QED  BY <1>2, <1>3

LEMMA UploadFailsStep ==
  ASSUME IInv, NEW r \in Request, UploadFails(r) PROVE IInv'
  <1> USE AvatarsAssumption
  <1>1. job[r].pc = "reading" /\ job[r].ext \in Ext
    BY DEF UploadFails, IInv, TypeOK, Jobs
  <1>2. CASE job[r].linked
    <2>1. PICK c \in {file[job[r].ext], Torn} :
              /\ Does(r, Ends("failed"), {}, With(job[r].ext, c, {}))
              /\ wanted' = IF latest = r THEN Shown(job[r].ext, c) ELSE wanted
      BY <1>2 DEF UploadFails
    <2>2. c \in Contents
      BY <1>1 DEF IInv, TypeOK, Contents
    <2>3. c # Absent
      BY <1>2 DEF IInv, OpenIsThere
    <2> QED  BY <1>1, <1>2, <2>1, <2>2, <2>3, EndKeeps DEF UploadFails
  <1>3. CASE ~job[r].linked
    <2>1. Does(r, Ends("failed"), {}, file) /\ UNCHANGED <<latest, wanted>>
      BY <1>3 DEF UploadFails
    <2>2. Empty \in Contents /\ Empty # Absent
      BY DEF Contents
    <2> QED  BY <1>1, <1>3, <2>1, <2>2, EndKeeps
  <1> QED  BY <1>2, <1>3

\* A step of a request that is not uploading, before it or after, and leaves
\* the directory alone.
LEMMA GetKeeps ==
  ASSUME IInv, NEW r \in Request, job[r].pc # "reading", NEW j \in Jobs, ~j.linked,
         j.pc # "reading", job' = [job EXCEPT ![r] = j],
         j.pc \in {"serving", "sized"} => j.ext # NoExt,
         UNCHANGED <<file, latest, wanted>>
  PROVE  (JobsOK /\ LinkedOK /\ OpenIsThere /\ LatestOK /\ ShownOK)'
  <1>1. /\ job'[r] = j /\ \A q \in Request \ {r} : job'[q] = job[q]
        /\ job' \in [Request -> Jobs] /\ \A q \in Request : job[q] \in Jobs
    BY DEF IInv, TypeOK
  <1>2. (JobsOK /\ LinkedOK /\ OpenIsThere)'
    BY <1>1 DEF IInv, JobsOK, LinkedOK, OpenIsThere, Jobs
  <1>3. LatestReads' = LatestReads /\ (LatestReads => job'[latest] = job[latest])
    BY <1>1 DEF LatestReads, IInv, TypeOK
  <1>4. LatestOK'
    BY <1>3 DEF IInv, LatestOK
  <1>5. Now' = Now /\ Matches' = Matches
    BY <1>3 DEF Now, Matches
  <1>6. ShownOK'
    BY <1>5 DEF IInv, ShownOK, Shows, Matches
  <1> QED  BY <1>2, <1>4, <1>6

LEMMA GetFindsStep ==
  ASSUME IInv, NEW r \in Request, GetFinds(r) PROVE IInv'
  <1> USE AvatarsAssumption
  <1>1. PICK j \in {Ends("missing")} \union {Serving(e) : e \in Matches} : Does(r, j, {}, file)
    BY DEF GetFinds
  <1>2. /\ j \in Jobs /\ ~j.linked /\ j.pc \in {"missing", "serving"}
        /\ j.pc = "serving" => j.ext # NoExt /\ file[j.ext] # Absent
    <2>1. CASE j = Ends("missing")
      BY <2>1, JobTypes DEF Over, Ends
    <2>2. CASE \E e \in Matches : j = Serving(e)
      BY <2>2, JobTypes DEF Serving, Matches
    <2> QED  BY <1>1, <2>1, <2>2
  <1>3. \A q \in Request : Unlinked(job[q], {}) = job[q]
    BY DEF IInv, TypeOK, Jobs, Unlinked
  <1>4. job' = [job EXCEPT ![r] = j] /\ file' = file
    BY <1>1, <1>3 DEF Does, IInv, TypeOK
  <1>5. TypeOK'
    <2>1. /\ file' \in [Ext -> Contents] /\ job' \in [Request -> Jobs]
          /\ disturbed' \subseteq Request /\ early' \subseteq Request
      BY <1>1, <1>2, DoesTypes DEF IInv, TypeOK
    <2> QED  BY <2>1 DEF IInv, TypeOK, GetFinds
  <1>6. UndisturbedOK'
    BY <1>1, <1>2, DoesDisturbs
  <1>7. job[r].pc # "reading"
    BY DEF GetFinds, Over
  <1> QED  BY <1>2, <1>4, <1>5, <1>6, <1>7, GetKeeps DEF IInv, GetFinds

LEMMA GetSizesStep ==
  ASSUME IInv, NEW r \in Request, GetSizes(r) PROVE IInv'
  <1> USE AvatarsAssumption
  <1> DEFINE e == job[r].ext
             j == IF file[e] = Absent THEN Ends("broken") ELSE Sized(e, file[e])
  <1>1. /\ job' = [job EXCEPT ![r] = j] /\ UNCHANGED <<file, latest, wanted, disturbed>>
        /\ early' \subseteq early \union {r}
    BY DEF GetSizes
  <1>2. e \in Ext /\ file[e] \in Contents /\ e # NoExt /\ job[r].pc = "serving"
    BY DEF GetSizes, IInv, TypeOK, Jobs, JobsOK
  <1>3. /\ j \in Jobs /\ ~j.linked /\ j.pc \in {"broken", "sized"}
        /\ j.pc = "sized" => j.ext = e /\ file[e] # Absent /\ j.data = file[e]
    BY <1>2, JobTypes DEF Over, Ends, Sized
  <1> HIDE DEF j
  <1>4. TypeOK'
    BY <1>1, <1>3 DEF IInv, TypeOK
  <1>5. UndisturbedOK'
    BY <1>1, <1>3 DEF IInv, TypeOK, UndisturbedOK
  <1> QED  BY <1>1, <1>2, <1>3, <1>4, <1>5, GetKeeps DEF IInv

LEMMA GetSendsStep ==
  ASSUME IInv, NEW r \in Request, GetSends(r) PROVE IInv'
  <1> USE AvatarsAssumption
  <1>1. PICK j \in {Sent(Empty), Sent(file[job[r].ext]), Ends("broken")} :
                job' = [job EXCEPT ![r] = j]
    BY DEF GetSends, Outcomes
  <1>2. /\ job[r].pc = "sized" /\ UNCHANGED <<file, latest, wanted, disturbed>>
        /\ early' \subseteq early
    BY DEF GetSends
  <1>3. file[job[r].ext] \in Contents /\ Empty \in Contents
    BY DEF IInv, TypeOK, Jobs, Contents
  <1>4. j \in Jobs /\ ~j.linked /\ j.pc \in {"broken", "sent"}
    <2>1. CASE j = Ends("broken")
      BY <2>1, JobTypes DEF Over, Ends
    <2>2. CASE j \in {Sent(Empty), Sent(file[job[r].ext])}
      <3>1. j \in Jobs
        BY <2>2, <1>3, JobTypes
      <3> QED  BY <2>2, <3>1 DEF Sent
    <2> QED  BY <1>1, <2>1, <2>2
  <1>5. TypeOK'
    BY <1>1, <1>2, <1>4 DEF IInv, TypeOK
  <1>6. UndisturbedOK'
    BY <1>1, <1>2, <1>4 DEF IInv, TypeOK, UndisturbedOK
  <1> QED  BY <1>1, <1>2, <1>4, <1>5, <1>6, GetKeeps DEF IInv

LEMMA RestartsStep == ASSUME IInv, Restarts PROVE IInv'
  <1> USE AvatarsAssumption
  <1>1. /\ job' = [r \in Request |-> Ends("idle")] /\ file' = file
        /\ latest' = Nobody /\ disturbed' = {} /\ early' = {} /\ wanted' = Now
    BY DEF Restarts, Now, LatestReads
  <1>2. TypeOK'
    <2>1. Now \in Contents
      BY DEF Now, Shown, IInv, TypeOK, Contents
    <2>2. Ends("idle") \in Jobs
      BY JobTypes DEF Over
    <2> QED  BY <1>1, <2>1, <2>2 DEF IInv, TypeOK
  <1>3. (JobsOK /\ LinkedOK /\ OpenIsThere /\ UndisturbedOK)'
    BY <1>1 DEF JobsOK, LinkedOK, OpenIsThere, UndisturbedOK, Ends
  <1>4. ~LatestReads' /\ Now' = Now /\ Matches' = Matches
    BY <1>1 DEF LatestReads, Now, Matches
  <1>5. (LatestOK /\ ShownOK)'
    BY <1>1, <1>4 DEF LatestOK, IInv, ShownOK, Shows, Matches
  <1> QED  BY <1>2, <1>3, <1>5 DEF IInv

-------------------------------------------------------------------------------
LEMMA StepIInv == ASSUME IInv, [Next]_vars PROVE IInv'
  <1>1. CASE UNCHANGED vars
    <2>1. (TypeOK /\ JobsOK /\ LinkedOK /\ OpenIsThere)'
      BY <1>1 DEF vars, IInv, TypeOK, JobsOK, LinkedOK, OpenIsThere
    <2>2. Now' = Now /\ Matches' = Matches /\ LatestReads' = LatestReads
      BY <1>1 DEF vars, Now, Matches, LatestReads
    <2>3. (LatestOK /\ ShownOK /\ UndisturbedOK)'
      BY <1>1, <2>2 DEF vars, IInv, LatestOK, ShownOK, Shows, Matches, UndisturbedOK
    <2> QED  BY <2>1, <2>3 DEF IInv
  <1>2. CASE Next
    BY <1>2, UploadOpensStep, UploadAtOnceStep, GoneStep, UploadWritesStep, UploadFailsStep,
       GetFindsStep, GetSizesStep, GetSendsStep, RestartsStep DEF Next
  <1> QED  BY <1>1, <1>2

LEMMA Invariance == Spec => []IInv
  BY InitIInv, StepIInv, PTL DEF Spec

(* The directory, the requests and what is wanted keep their types.          *)
THEOREM TypeCorrect == Spec => []TypeOK
  <1>1. IInv => TypeOK
    BY DEF IInv
  <1> QED  BY <1>1, Invariance, PTL

(* Whatever uploads, removals, failures and restarts overlap, no user ever   *)
(* has two avatars that upload_avatar, get_avatar or remove_avatar can find. *)
THEOREM AlwaysOneAvatar == Spec => []OneAvatar
  <1>1. IInv => OneAvatar
    BY ShowsOne
  <1> QED  BY <1>1, Invariance, PTL

(* With no upload under way, the avatar is what began last has left.         *)
THEOREM LastBegunAlwaysWins == Spec => []LastBegunWins
  <1>1. ASSUME IInv, \A r \in Request : job[r].pc # "reading" PROVE Shows(wanted)
    <2>1. Now = wanted
      BY <1>1 DEF Now, LatestReads, IInv, TypeOK
    <2> QED  BY <1>1, <2>1 DEF IInv, ShownOK
  <1>2. IInv => LastBegunWins
    BY <1>1 DEF LastBegunWins
  <1> QED  BY <1>2, Invariance, PTL

\* A download under way ends by a step of its own.
LEMMA SizedThen ==
  ASSUME IInv, [Next]_vars, NEW r \in Request, job[r].pc \in {"serving", "sized"},
         job'[r].pc \in {"sent", "broken"}
  PROVE  \/ GetSizes(r) /\ job[r].pc = "serving" /\ job'[r].pc = "broken"
         \/ GetSends(r) /\ job[r].pc = "sized"
  <1>1. ASSUME NEW q \in Request, NEW j, NEW gone, NEW f, Does(q, j, gone, f), q # r PROVE FALSE
    BY <1>1, DoesOthers DEF IInv
  <1>2. ASSUME NEW q \in Request, NEW e \in Ext, NEW d \in Data,
               UploadOpens(q, e, d) \/ UploadAtOnce(q, e, d)
        PROVE  FALSE
    BY <1>1, <1>2 DEF UploadOpens, UploadAtOnce, Over
  <1>3. ASSUME NEW q \in Request, UploadNotOpened(q) \/ RemoveAvatar(q) PROVE FALSE
    BY <1>1, <1>3 DEF UploadNotOpened, RemoveAvatar, Over
  <1>4. ASSUME NEW q \in Request, UploadWrites(q) \/ UploadFails(q) PROVE FALSE
    BY <1>1, <1>4 DEF UploadWrites, UploadFails
  <1>5. ASSUME NEW q \in Request, GetFinds(q) PROVE FALSE
    BY <1>1, <1>5 DEF GetFinds, Over
  <1>6. ASSUME NEW q \in Request, GetSizes(q) \/ GetSends(q) PROVE q = r
    BY <1>6 DEF GetSizes, GetSends, IInv, TypeOK
  <1>7. ASSUME GetSizes(r) PROVE job[r].pc = "serving" /\ job'[r].pc = "broken"
    BY <1>7 DEF GetSizes, Sized, Ends, IInv, TypeOK
  <1>8. CASE Restarts \/ UNCHANGED vars
    BY <1>8 DEF Restarts, Ends, vars
  <1> QED  BY <1>2, <1>3, <1>4, <1>5, <1>6, <1>7, <1>8 DEF Next, GetSends

\* A size of less than a picture has been taken early.
EarlyOK ==
    \A r \in Request : job[r].pc = "sized" /\ job[r].data \notin Data => r \in early

LEMMA EarlyStep == ASSUME IInv, EarlyOK, [Next]_vars PROVE EarlyOK'
  <1>1. ASSUME NEW q \in Request, NEW j, j.pc # "sized", NEW gone, NEW f, Does(q, j, gone, f)
        PROVE  EarlyOK'
    <2>1. /\ job'[q] = j
          /\ \A r \in Request \ {q} : job'[r].pc = job[r].pc /\ job'[r].data = job[r].data
      BY <1>1, DoesOthers DEF IInv
    <2>2. early' = early
      BY <1>1 DEF Does
    <2> QED  BY <1>1, <2>1, <2>2 DEF EarlyOK
  <1>2. ASSUME NEW q \in Request, NEW e \in Ext, NEW d \in Data,
               UploadOpens(q, e, d) \/ UploadAtOnce(q, e, d)
        PROVE  EarlyOK'
    BY <1>1, <1>2 DEF UploadOpens, UploadAtOnce, Reading, Ends
  <1>3. ASSUME NEW q \in Request, UploadNotOpened(q) \/ RemoveAvatar(q) PROVE EarlyOK'
    BY <1>1, <1>3 DEF UploadNotOpened, RemoveAvatar, Ends
  <1>4. ASSUME NEW q \in Request, UploadWrites(q) \/ UploadFails(q) PROVE EarlyOK'
    BY <1>1, <1>4 DEF UploadWrites, UploadFails, Ends
  <1>5. ASSUME NEW q \in Request, GetFinds(q) PROVE EarlyOK'
    BY <1>1, <1>5 DEF GetFinds, Serving, Ends
  <1>6. ASSUME NEW q \in Request, GetSizes(q) PROVE EarlyOK'
    <2> DEFINE d == file[job[q].ext]
    <2>1. d \in Contents /\ job[q].ext \in Ext /\ job[q].ext # NoExt
      BY <1>6 DEF GetSizes, IInv, TypeOK, Jobs, JobsOK
    <2>2. ASSUME d # Absent, d \notin Data PROVE q \in early'
      <3>1. job[q].ext \in Matches /\ d \in {Empty, Torn}
        BY <2>1, <2>2 DEF Matches, Contents
      <3>2. Now = d
        BY <3>1 DEF IInv, ShownOK, Shows
      <3>3. LatestUndone
        BY <3>1, <3>2 DEF Now, LatestUndone
      <3> QED  BY <1>6, <2>2, <3>3 DEF GetSizes
    <2>3. job'[q] = IF d = Absent THEN Ends("broken") ELSE Sized(job[q].ext, d)
      BY <1>6 DEF GetSizes, IInv, TypeOK
    <2>4. job'[q].pc = "sized" /\ job'[q].data \notin Data => q \in early'
      BY <2>2, <2>3 DEF Ends, Sized
    <2>5. \A r \in Request \ {q} : job'[r] = job[r] /\ (r \in early => r \in early')
      BY <1>6 DEF GetSizes, IInv, TypeOK
    <2> QED  BY <2>4, <2>5 DEF EarlyOK
  <1>7. ASSUME NEW q \in Request, GetSends(q) PROVE EarlyOK'
    <2>1. job'[q].pc # "sized"
      BY <1>7 DEF GetSends, Outcomes, Sent, Ends, IInv, TypeOK
    <2>2. \A r \in Request \ {q} : job'[r] = job[r] /\ (r \in early => r \in early')
      BY <1>7 DEF GetSends, IInv, TypeOK
    <2> QED  BY <2>1, <2>2 DEF EarlyOK
  <1>8. CASE Restarts
    BY <1>8 DEF Restarts, Ends, EarlyOK
  <1>9. CASE UNCHANGED vars
    BY <1>9 DEF vars, EarlyOK
  <1> QED  BY <1>2, <1>3, <1>4, <1>5, <1>6, <1>7, <1>8, <1>9 DEF Next

(* A download that arrives is a whole picture, but for the cases named: what *)
(* counts is when its size was taken, even if the upload has ended since.    *)
THEOREM AlwaysSentWhole == Spec => SentIsWhole
  <1>1. ASSUME IInv, EarlyOK, [Next]_vars, NEW r \in Request,
               job[r].pc = "sized", job'[r].pc = "sent", r \notin early, wanted # Torn
        PROVE  job'[r].data \in Data
    <2>1. GetSends(r)
      BY <1>1, SizedThen
    <2>2. job[r].data \in Data /\ job[r].data # Empty
      BY <1>1, AvatarsAssumption DEF EarlyOK
    <2>3. job'[r] \in Outcomes(job[r].data, file[job[r].ext])
      BY <1>1, <2>1 DEF GetSends, IInv, TypeOK
    <2>4. /\ file[job[r].ext] \notin {Absent, Empty}
          /\ job'[r].data = file[job[r].ext]
      BY <1>1, <2>2, <2>3 DEF Outcomes, Sent, Ends
    <2>5. job[r].ext \in Matches
      BY <1>1, <2>4 DEF Matches, IInv, JobsOK, TypeOK, Jobs
    <2>6. file[job[r].ext] = Now
      BY <1>1, <2>5 DEF IInv, ShownOK, Shows
    <2>7. file[job[r].ext] # Torn
      BY <1>1, <2>4, <2>6, AvatarsAssumption DEF Now, Shown
    <2>8. file[job[r].ext] \in Contents
      BY <1>1 DEF IInv, TypeOK, Jobs
    <2> QED  BY <2>4, <2>7, <2>8 DEF Contents
  <1>2. ASSUME IInv, EarlyOK, [Next]_vars
        PROVE  [\A r \in Request :
                  job[r].pc = "sized" /\ job'[r].pc = "sent" =>
                    job'[r].data \in Data \/ r \in early \/ wanted = Torn]_vars
    BY <1>1, <1>2
  <1>3. Init => EarlyOK
    BY DEF Init, EarlyOK, Ends
  <1> QED  BY <1>2, <1>3, EarlyStep, Invariance, PTL DEF Spec, SentIsWhole

(* A download that was found breaks off only if it has been disturbed.       *)
THEOREM AlwaysBrokenForCause == Spec => BrokenForCause
  <1>1. ASSUME IInv, [Next]_vars, NEW r \in Request, job[r].pc \in {"serving", "sized"},
               job'[r].pc = "broken", r \notin disturbed
        PROVE  FALSE
    <2>1. GetSizes(r) \/ GetSends(r)
      BY <1>1, SizedThen
    <2>2. job \in [Request -> Jobs]
      BY <1>1 DEF IInv, TypeOK
    <2>3. CASE GetSizes(r)
      BY <1>1, <2>2, <2>3 DEF GetSizes, Sized, IInv, UndisturbedOK
    <2>4. CASE GetSends(r)
      BY <1>1, <2>2, <2>4 DEF GetSends, Outcomes, Sent, Ends, IInv, UndisturbedOK
    <2> QED  BY <2>1, <2>3, <2>4
  <1>2. ASSUME IInv, [Next]_vars
        PROVE  [\A r \in Request :
                  job[r].pc \in {"serving", "sized"} /\ job'[r].pc = "broken"
                    => r \in disturbed]_vars
    BY <1>1, <1>2
  <1> QED  BY <1>2, Invariance, PTL DEF Spec, BrokenForCause

===============================================================================
