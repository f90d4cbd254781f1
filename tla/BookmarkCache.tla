--------------------------- MODULE BookmarkCache ----------------------------
(***************************************************************************)
(* src/bookmark_cache.c: one entry of the cache of bookmark files, shared  *)
(* by the workers under a reader-writer lock, while somebody edits the     *)
(* file on disk without any lock.                                          *)
(*                                                                         *)
(* A request of worker r is one call of get_cached_bookmark_json_copy.  It *)
(* is split where the file can change under it: at each stat, where the    *)
(* size is taken, and between the reads an fread is made of.  Contents of  *)
(* the file are numbered in the order in which they were written; an edit  *)
(* is a step that changes what a read returns, so a save in place, which   *)
(* truncates first and then grows, is several edits.  As many bytes are    *)
(* read as the file was long when it was opened: a file that grew          *)
(* meanwhile gives a prefix, one that changed a mixture, and both count as *)
(* read.  (A save by renaming leaves the open file as it was: that gives   *)
(* whole contents.)  Whole seconds are all that st_mtime is compared by.   *)
(***************************************************************************)
EXTENDS Naturals, FiniteSets

CONSTANTS Readers,          \* the workers
          NULL,             \* no JSON in the entry; also the answer "not found"
          SameSecondEdits,  \* may a file change twice within one second?
          Length,           \* Length[c]: the bytes of content c
          MaxContent,       \* bound of the model: number of edits
          MaxTime           \* bound of the model: last second of the clock

ASSUME CacheAssumption ==
    /\ SameSecondEdits \in BOOLEAN
    /\ MaxContent \in Nat /\ MaxTime \in Nat \ {0}
    /\ Length \in [0 .. MaxContent -> Nat]
    /\ NULL \notin Nat

VARIABLES content, mtime, present,  \* the file: what fread and stat would say
          clock,
          json, last, json_len,     \* the entry's JSON: NULL, or the content of its first
                                    \* byte; that of its last byte; the bytes it has
          stamp,                    \* the entry's mtime field
          pc,                       \* pc[r]: where request r is
          seen,                     \* seen[r]: st_mtime in ensure_loaded, or NULL if stat failed
          asked,                    \* asked[r]: content when its request began
          sized,                    \* sized[r]: content whose length r took, if r reads it
          written,                  \* written[c]: mtime of content c
          raced                     \* a first load that is torn, or whose stamp is not its
                                    \* content's

file   == <<content, mtime, present, clock, written>>
buffer == <<json, last, json_len>>
entry  == <<buffer, stamp, raced>>
vars   == <<file, entry, pc, seen, asked, sized>>

Contents == 0 .. MaxContent
Times    == 0 .. MaxTime

\* Control points, by the lock held there.
Shared    == {"stat", "copy"}
Exclusive == {"ensure", "load", "reload", "fill", "refill", "stamp", "return"}
Points    == {"idle", "upgrade"} \union Shared \union Exclusive

Holding(P) == {r \in Readers : pc[r] \in P}

Go(r, p) == pc' = [pc EXCEPT ![r] = p]

\* The request of r is over; what it knew goes with it.
Finish(r) ==
    /\ Go(r, "idle")
    /\ seen' = [seen EXCEPT ![r] = 0]
    /\ asked' = [asked EXCEPT ![r] = 0]
    /\ sized' = [sized EXCEPT ![r] = NULL]

\* The JSON is one content of the file, and all of it.
Whole == json # NULL /\ last = json /\ json_len = Length[json]

Init ==
    /\ content = 0 /\ mtime = 0 /\ present = TRUE
    /\ clock = 1
    /\ written = [c \in Contents |-> 0]
    /\ json = NULL /\ last = 0 /\ json_len = 0
    /\ stamp = 0 /\ raced = FALSE
    /\ pc = [r \in Readers |-> "idle"]
    /\ seen = [r \in Readers |-> 0]
    /\ asked = [r \in Readers |-> 0]
    /\ sized = [r \in Readers |-> NULL]

-----------------------------------------------------------------------------
(* The file's owner, who takes no lock. *)
Tick ==
    /\ clock < MaxTime
    /\ clock' = clock + 1
    /\ UNCHANGED <<content, mtime, present, written, entry, pc, seen, asked, sized>>

Edit ==
    /\ content < MaxContent
    /\ SameSecondEdits \/ mtime < clock
    /\ content' = content + 1
    /\ mtime' = clock
    /\ present' = TRUE
    /\ written' = [written EXCEPT ![content + 1] = clock]
    /\ UNCHANGED <<clock, entry, pc, seen, asked, sized>>

Remove ==
    /\ present
    /\ present' = FALSE
    /\ UNCHANGED <<content, mtime, clock, written, entry, pc, seen, asked, sized>>

-----------------------------------------------------------------------------
(* get_cached_bookmark_json_copy, phase 1: under the read lock.            *)
ReadLock(r) ==
    /\ pc[r] = "idle"
    /\ Holding(Exclusive) = {}
    /\ asked' = [asked EXCEPT ![r] = content]
    /\ Go(r, "stat")
    /\ UNCHANGED <<file, entry, seen, sized>>

\* The fast path wants a JSON that is not empty and a stat that agrees.
\* Otherwise the read lock is given up for the write lock.
StatIgnoresMtime(r) ==          \* faulty: takes whatever is cached
    /\ pc[r] = "stat"
    /\ Go(r, IF json # NULL /\ json_len > 0 THEN "copy" ELSE "upgrade")
    /\ UNCHANGED <<file, entry, seen, asked, sized>>

Stat(r) ==
    /\ pc[r] = "stat"
    /\ Go(r, IF json # NULL /\ json_len > 0 /\ present /\ mtime = stamp
             THEN "copy" ELSE "upgrade")
    /\ UNCHANGED <<file, entry, seen, asked, sized>>

\* A request returns what json is when it copies it.
Copy(r) ==
    /\ pc[r] = "copy"
    /\ Finish(r)
    /\ UNCHANGED <<file, entry>>

(* Phase 2: under the write lock.                                          *)
WriteLockShared(r) ==           \* faulty: does not wait for readers
    /\ pc[r] = "upgrade"
    /\ Holding(Exclusive) = {}
    /\ Go(r, "ensure")
    /\ UNCHANGED <<file, entry, seen, asked, sized>>

WriteLock(r) ==
    /\ pc[r] = "upgrade"
    /\ Holding(Shared \union Exclusive) = {}
    /\ Go(r, "ensure")
    /\ UNCHANGED <<file, entry, seen, asked, sized>>

\* ensure_loaded: an entry without JSON is loaded; one with JSON is reloaded
\* when the stat says so, and kept when the file cannot be stat'ed.
Ensure(r) ==
    /\ pc[r] = "ensure"
    /\ Go(r, IF json = NULL THEN "load"
             ELSE IF present /\ mtime # stamp THEN "reload" ELSE "return")
    /\ seen' = [seen EXCEPT ![r] = IF present THEN mtime ELSE NULL]
    /\ UNCHANGED <<file, entry, asked, sized>>

\* load_bookmark_json up to the fread: the file's size is taken, the old JSON
\* freed, a buffer of that size made.
Open(r) ==
    /\ pc[r] \in {"load", "reload"}
    /\ present
    /\ json' = content /\ last' = content /\ json_len' = 0
    /\ sized' = [sized EXCEPT ![r] = content]
    /\ Go(r, IF pc[r] = "load" THEN "fill" ELSE "refill")
    /\ UNCHANGED <<file, stamp, raced, seen, asked>>

\* fopen fails, because the file is gone or there is no descriptor left: the
\* entry keeps its JSON, the request gets NULL.
OpenFails(r) ==
    /\ pc[r] \in {"load", "reload"}
    /\ Finish(r)
    /\ UNCHANGED <<file, entry>>

\* fread takes the next bytes of what the file is now, as far as both the file
\* and the buffer go.
Read(r) ==
    /\ pc[r] \in {"fill", "refill"}
    /\ \E n \in json_len + 1 .. Length[sized[r]] :
          /\ n <= Length[content]
          /\ json_len' = n
    /\ json' = IF json_len = 0 THEN content ELSE json
    /\ last' = content
    /\ UNCHANGED <<file, stamp, raced, pc, seen, asked, sized>>

\* fread has as many bytes as the file was long.  A reload stores the mtime it
\* saw before it read the file.
FillStampsLate(r) ==            \* faulty: the mtime the file has after the fread
    /\ pc[r] \in {"fill", "refill"}
    /\ json_len = Length[sized[r]]
    /\ IF pc[r] = "fill"
       THEN Go(r, "stamp") /\ UNCHANGED <<stamp, raced>>
       ELSE Go(r, "return") /\ stamp' = mtime /\ raced' = FALSE
    /\ UNCHANGED <<file, buffer, seen, asked, sized>>

Fill(r) ==
    /\ pc[r] \in {"fill", "refill"}
    /\ json_len = Length[sized[r]]
    /\ IF pc[r] = "fill"
       THEN Go(r, "stamp") /\ UNCHANGED <<stamp, raced>>
       ELSE Go(r, "return") /\ stamp' = seen[r] /\ raced' = FALSE
    /\ UNCHANGED <<file, buffer, seen, asked, sized>>

\* malloc or a read fails, or the file got shorter since its size was taken.
FillFails(r) ==
    /\ pc[r] \in {"fill", "refill"}
    /\ json' = NULL /\ last' = 0 /\ json_len' = 0
    /\ Finish(r)
    /\ UNCHANGED <<file, stamp, raced>>

StampFailedStat(r) ==           \* faulty: stores what a failed stat left behind
    /\ pc[r] = "stamp"
    /\ stamp' = IF present THEN mtime ELSE NULL
    /\ raced' = (~Whole \/ stamp' # written[json])
    /\ Go(r, "return")
    /\ UNCHANGED <<file, buffer, seen, asked, sized>>

\* A first load asks for the mtime after it has read the file.
Stamp(r) ==
    /\ pc[r] = "stamp"
    /\ stamp' = IF present THEN mtime ELSE stamp
    /\ raced' = (~Whole \/ stamp' # written[json])
    /\ Go(r, "return")
    /\ UNCHANGED <<file, buffer, seen, asked, sized>>

Return(r) ==
    /\ pc[r] = "return"
    /\ Finish(r)
    /\ UNCHANGED <<file, entry>>

-----------------------------------------------------------------------------
Request(r) ==
    \/ ReadLock(r) \/ Stat(r) \/ Copy(r)
    \/ WriteLock(r) \/ Ensure(r) \/ Return(r)
    \/ Open(r) \/ OpenFails(r) \/ Read(r) \/ Fill(r) \/ FillFails(r) \/ Stamp(r)

Next == Tick \/ Edit \/ Remove \/ \E r \in Readers : Request(r)

Spec == Init /\ [][Next]_vars

-----------------------------------------------------------------------------
(* Properties *)

TypeOK ==
    /\ content \in Contents /\ mtime \in 0 .. clock /\ present \in BOOLEAN
    /\ clock \in Times
    /\ written \in [Contents -> Times]
    /\ json \in Contents \union {NULL} /\ last \in Contents /\ json_len \in Nat
    /\ stamp \in Times /\ raced \in BOOLEAN
    /\ pc \in [Readers -> Points]
    /\ seen \in [Readers -> Times \union {NULL}]
    /\ asked \in [Readers -> Contents]
    /\ sized \in [Readers -> Contents \union {NULL}]

\* Nobody frees or fills the JSON under a request that copies it; and what it
\* copies is the whole of one content of the file, unless this request read it
\* itself while the file was being saved, a first load was overtaken by the save,
\* the file could not be stat'ed, or the save's last two edits fell in one second.
\* Apart from these, torn JSON is noticed before it is given out a second time.
TornIsNotKept ==
    \A r \in Holding({"copy", "return"}) :
        /\ json # NULL /\ Holding({"fill", "refill"}) = {}
        /\ \/ Whole
           \/ sized[r] # NULL
           \/ raced
           \/ seen[r] = NULL
           \/ last > 0 /\ written[last] = written[last - 1]

\* Request r returns a copy of the JSON in this step.
Answers(r) == pc[r] \in {"copy", "return"} /\ pc'[r] = "idle"

\* What a request returns is as new as the file was when the request began,
\* unless a first load was overtaken by an edit, the file could not be stat'ed,
\* or the contents that differ were written in the same second: otherwise the
\* two stats of get_cached_bookmark_json_copy notice every edit.
StaleOnlyIfStampLies ==
    [][\A r \in Readers : Answers(r) =>
          \/ json >= asked[r]
          \/ raced
          \/ seen[r] = NULL
          \/ written[json] = written[asked[r]]]_vars

\* DEV.md:286, "edit the JSON file while server is running, next request picks
\* up changes": no request returns a content older than the one the file had
\* when the request began.
NextRequestSeesEdit ==
    [][\A r \in Readers : Answers(r) => json >= asked[r]]_vars

=============================================================================
