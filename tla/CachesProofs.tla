---------------------------- MODULE CachesProofs -----------------------------
(***************************************************************************)
(* For every number of workers, edits and seconds: the safety properties   *)
(* of the two caches, from one inductive invariant for each.               *)
(***************************************************************************)
EXTENDS Caches, TLAPS

\* The write lock keeps everybody else out.
Exclusion ==
    \A r, s \in Readers :
        pc[r] \in Exclusive /\ pc[s] \in Shared \union Exclusive => r = s

\* Who copies the JSON or reads it finds one; and what is in a buffer was read
\* since its size was taken.
Buffers ==
    \A r \in Readers :
        /\ pc[r] \in {"copy", "fill", "refill", "stamp", "return"} => json # NULL
        /\ pc[r] \in {"fill", "refill", "stamp"} => sized[r] # NULL
        /\ pc[r] \in {"fill", "refill"} => sized[r] <= json

\* Contents get newer, and so do their times.
History ==
    /\ mtime = written[content]
    /\ \A c, d \in Contents : c <= d /\ d <= content => written[c] <= written[d]
    /\ json # NULL => json <= last /\ last <= content
    /\ \A r \in Readers :
          /\ asked[r] <= content
          /\ sized[r] # NULL => sized[r] <= content

\* Nobody is between the free of the old JSON and the stamp of the new.
Settled == \A r \in Readers : pc[r] \notin {"fill", "refill", "stamp"}

\* What is cached will not be mistaken for a newer content: the stamp of an entry
\* is not newer than its JSON, and that of a torn one is older, or of the second
\* in which it was torn; unless a first load was overtaken.
Stamped ==
    /\ \A r \in Readers :
          /\ pc[r] = "reload" => seen[r] \in Times /\ seen[r] <= mtime
          /\ pc[r] = "refill" => seen[r] \in Times /\ seen[r] <= written[sized[r]]
    /\ json # NULL /\ ~raced /\ Settled =>
          /\ stamp <= written[json]
          /\ Whole \/ (last > 0 /\ stamp <= written[last - 1])

\* The JSON will do for r, although its stat may have failed.
Current(r) == json >= asked[r] \/ raced \/ written[json] = written[asked[r]]
Fresh(r)   == Current(r) \/ seen[r] = NULL

\* ... and r may copy it: it is whole, or one of the excuses holds.
Excused  == raced \/ (last > 0 /\ written[last] = written[last - 1])
Sound(r) == Whole \/ sized[r] # NULL \/ seen[r] = NULL \/ Excused

Answerable ==
    \A r \in Readers :
        /\ pc[r] \in {"copy", "return"} => Fresh(r) /\ Sound(r)
        /\ pc[r] \in {"fill", "refill"} => sized[r] >= asked[r]
        /\ pc[r] = "stamp" => json >= asked[r]

EntryInv == TypeOK /\ Exclusion /\ Buffers /\ History /\ Stamped /\ Answerable

\* The date is not behind what it was made from, nor ahead of the clock.
DateInv ==
    /\ Date!DateTypeOK
    /\ last_update <= hc_date /\ hc_date <= clock
    /\ \A w \in Readers :
          /\ now[w] <= clock
          /\ at[w] = "copy" => now[w] <= hc_date

Apart == \A r \in Readers : pc[r] = "idle" \/ at[r] = "out"

CachesInv == EntryInv /\ DateInv /\ Apart

-----------------------------------------------------------------------------
(* The entry: every step of its own keeps the invariant.                   *)

LEMMA EntryInit == Init => EntryInv
  <1> USE CacheAssumption
  <1> SUFFICES ASSUME Init PROVE EntryInv
    OBVIOUS
  <1> USE DEF Init, Contents, Times
  <1>1. TypeOK
    <2>1. raced \in BOOLEAN /\ present \in BOOLEAN
      OBVIOUS
    <2>2. QED
      BY <2>1 DEF TypeOK, Points, Shared, Exclusive
  <1>2. Exclusion /\ Buffers /\ Answerable
    BY DEF Exclusion, Buffers, Answerable, Exclusive, Shared
  <1>3. History /\ Stamped
    BY DEF History, Stamped
  <1>4. QED
    BY <1>1, <1>2, <1>3 DEF EntryInv

\* The file's owner and the clock.
LEMMA WorldEntryInv ==
    ASSUME EntryInv, Tick \/ Edit \/ Remove
    PROVE  EntryInv'
  <1> USE CacheAssumption DEF entry, buffer
  <1>1. CASE Tick
    <2> USE <1>1 DEF Tick, EntryInv
    <2>1. TypeOK'
      BY DEF TypeOK, Times, Contents
    <2>2. (Exclusion /\ Buffers /\ Answerable)'
      BY DEF Exclusion, Buffers, Answerable, Current, Fresh, Sound, Excused, Whole, buffer
    <2>3. (History /\ Stamped)'
      BY DEF History, Stamped, Settled, Whole, buffer
    <2>4. QED
      BY <2>1, <2>2, <2>3
  <1>2. CASE Remove
    <2> USE <1>2 DEF Remove, EntryInv
    <2>1. TypeOK'
      BY DEF TypeOK, Times, Contents
    <2>2. (Exclusion /\ Buffers /\ Answerable)'
      BY DEF Exclusion, Buffers, Answerable, Current, Fresh, Sound, Excused, Whole, buffer
    <2>3. (History /\ Stamped)'
      BY DEF History, Stamped, Settled, Whole, buffer
    <2>4. QED
      BY <2>1, <2>2, <2>3
  <1>3. CASE Edit
    <2> USE <1>3 DEF Edit, EntryInv
    <2>1. TypeOK'
      BY DEF TypeOK, Times, Contents
    <2>2. (Exclusion /\ Buffers)'
      BY DEF Exclusion, Buffers, buffer
    <2>3. \A c \in Contents : c <= content => written'[c] = written[c]
      BY DEF TypeOK, Contents, Times
    <2>4. mtime <= mtime' /\ content \in Contents /\ content' = content + 1
          /\ content' \in Contents /\ mtime' = written'[content'] /\ mtime \in Nat
          /\ mtime' \in Nat /\ written \in [Contents -> Nat] /\ written' \in [Contents -> Nat]
      BY DEF TypeOK, Contents, Times
    <2>a. buffer' = buffer /\ json' = json /\ last' = last /\ json_len' = json_len
      BY DEF buffer
    <2>b. json # NULL =>
            /\ json \in Contents /\ written'[json] = written[json] /\ written'[last] = written[last]
            /\ last > 0 => written'[last - 1] = written[last - 1]
      BY SMTT(30), <2>3, <2>4 DEF History, TypeOK, Contents
    <2>5. Answerable'
      <3>1. ASSUME NEW r \in Readers, json # NULL
            PROVE  (Fresh(r) => Fresh(r)') /\ (Sound(r) => Sound(r)')
        BY <2>3, <2>4, <2>a, <2>b, <3>1
           DEF Current, Fresh, Sound, Excused, Whole, History, TypeOK
      <3>2. QED
        BY <3>1, <2>a DEF Answerable, Buffers
    <2>6. Stamped'
      <3>1. \A r \in Readers : pc[r] = "refill" => written'[sized[r]] = written[sized[r]]
        BY <2>3 DEF Buffers, History, TypeOK
      <3>2. QED
        BY SMTT(30), <2>4, <2>a, <2>b, <3>1 DEF Stamped, Settled, Whole, TypeOK, Times
    <2>7. ASSUME NEW c \in Contents, NEW d \in Contents, c <= d, d <= content'
          PROVE  written'[c] <= written'[d]
      <3>1. CASE d <= content
        BY <3>1, <2>3, <2>7, <2>4 DEF History, Contents
      <3>2. CASE d = content' /\ c = content'
        BY <3>2, <2>4
      <3>3. CASE d = content' /\ c <= content
        BY <3>3, <2>3, <2>4 DEF History, Contents
      <3>4. QED
        BY <3>1, <3>2, <3>3, <2>7, <2>4 DEF Contents
    <2>8. History'
      BY SMTT(30), <2>4, <2>7, <2>a DEF History, TypeOK, Contents
    <2>9. QED
      BY <2>1, <2>2, <2>5, <2>6, <2>8
  <1>4. QED
    BY <1>1, <1>2, <1>3

\* Where the stat agrees with the stamp of a settled entry, the JSON will do for
\* everybody who asks, and is whole or excused.
LEMMA AgreedWillDo ==
    ASSUME EntryInv, json # NULL, mtime = stamp, Settled
    PROVE  (\A r \in Readers : Current(r)) /\ (Whole \/ Excused)
  <1> USE CacheAssumption DEF EntryInv
  <1>1. json \in Contents /\ last \in Contents /\ content \in Contents
        /\ json <= last /\ last <= content
        /\ mtime = written[content] /\ written \in [Contents -> Times]
    BY DEF TypeOK, History
  <1>2. ASSUME NEW r \in Readers PROVE Current(r)
    <2>1. CASE ~raced /\ ~(json >= asked[r])
      <3>1. asked[r] \in Contents /\ asked[r] <= content
        BY DEF TypeOK, History
      <3>2. written[content] <= written[json]
        BY <1>1, <2>1 DEF Stamped
      <3>3. written[json] <= written[asked[r]] /\ written[asked[r]] <= written[content]
        BY <1>1, <2>1, <3>1 DEF History, Contents
      <3>4. written[json] = written[asked[r]]
        BY <1>1, <3>1, <3>2, <3>3 DEF Times
      <3>5. QED
        BY <3>4 DEF Current
    <2>2. QED
      BY <2>1 DEF Current
  <1>3. ASSUME ~raced, ~Whole PROVE Excused
    <2>1. last > 0 /\ written[content] <= written[last - 1]
      BY <1>1, <1>3 DEF Stamped
    <2>2. last - 1 \in Contents
      BY <1>1, <2>1 DEF Contents
    <2>3. written[last - 1] <= written[last] /\ written[last] <= written[content]
      BY <1>1, <2>2 DEF History, Contents
    <2>4. written[last] = written[last - 1]
      BY <1>1, <2>1, <2>2, <2>3 DEF Times
    <2>5. QED
      BY <2>1, <2>4 DEF Excused
  <1>4. QED
    BY <1>2, <1>3 DEF Excused

\* A step of worker r that leaves the file and the entry alone, and is not in the
\* middle of a load.
LEMMA QuietStep ==
    ASSUME EntryInv, NEW r \in Readers, UNCHANGED <<file, entry>>, TypeOK', Exclusion',
           \A s \in Readers : s # r => /\ pc'[s] = pc[s] /\ seen'[s] = seen[s]
                                       /\ asked'[s] = asked[s] /\ sized'[s] = sized[s],
           asked'[r] <= content, sized'[r] \in {NULL, sized[r]},
           {pc[r], pc'[r]} \cap {"fill", "refill", "stamp"} = {},
           pc'[r] = "reload" => seen'[r] \in Times /\ seen'[r] <= mtime,
           pc'[r] \in {"copy", "return"} => json # NULL /\ Fresh(r)' /\ Sound(r)'
    PROVE  EntryInv'
  <1> USE DEF EntryInv
  <1>1. /\ json' = json /\ last' = last /\ json_len' = json_len
        /\ stamp' = stamp /\ raced' = raced
        /\ content' = content /\ mtime' = mtime /\ written' = written
    BY DEF file, entry, buffer
  <1>2. \A s \in Readers : s # r => (Fresh(s)' <=> Fresh(s)) /\ (Sound(s)' <=> Sound(s))
    BY <1>1 DEF Fresh, Current, Sound, Excused, Whole
  <1>3. Buffers'
    BY <1>1 DEF Buffers
  <1>4. History'
    BY <1>1 DEF History
  <1>5. Settled' <=> Settled
    BY DEF Settled
  <1>6. Stamped'
    BY <1>1, <1>5 DEF Stamped, Whole
  <1>7. Answerable'
    BY <1>1, <1>2 DEF Answerable
  <1>8. QED
    BY <1>3, <1>4, <1>6, <1>7

\* Each step of a request of worker r.
LEMMA RequestEntryInv ==
    ASSUME EntryInv, NEW r \in Readers, Request(r)
    PROVE  EntryInv'
  <1> USE CacheAssumption DEF entry, file, buffer, Go, Finish
  <1>a. TypeOK /\ Exclusion /\ Buffers /\ History /\ Stamped /\ Answerable
    BY DEF EntryInv
  <1>b. NULL \notin Contents /\ NULL \notin Times /\ 0 \in Times /\ 0 \in Contents
    BY DEF Contents, Times
  <1>1. CASE ReadLock(r)
    <2> USE <1>1 DEF ReadLock
    <2>1. TypeOK'
      BY <1>a DEF TypeOK, Points, Shared, Exclusive
    <2>2. Exclusion'
      BY <1>a DEF Exclusion, Holding, TypeOK, Shared, Exclusive
    <2>3. /\ pc'[r] = "stat" /\ content >= 0 /\ asked' = [asked EXCEPT ![r] = content]
          /\ \A s \in Readers : s # r => /\ pc'[s] = pc[s] /\ seen'[s] = seen[s]
                                         /\ asked'[s] = asked[s] /\ sized'[s] = sized[s]
      BY <1>a DEF TypeOK, Contents
    <2>4. asked'[r] <= content /\ sized'[r] \in {NULL, sized[r]}
      BY <1>a, <2>3 DEF TypeOK, Contents
    <2>5. QED
      BY <2>1, <2>2, <2>3, <2>4, QuietStep
  <1>2. CASE Stat(r)
    <2> USE <1>2 DEF Stat
    <2>1. TypeOK'
      BY <1>a DEF TypeOK, Points, Shared, Exclusive
    <2>2. Exclusion'
      BY <1>a DEF Exclusion, TypeOK, Shared, Exclusive
    <2>3. pc'[r] = "copy" => json # NULL /\ Fresh(r)' /\ Sound(r)'
      <3>1. SUFFICES ASSUME pc'[r] = "copy" PROVE json # NULL /\ Fresh(r) /\ Sound(r)
        BY DEF Fresh, Current, Sound, Excused, Whole
      <3>2. json # NULL /\ mtime = stamp /\ pc[r] = "stat"
        BY <1>a, <3>1 DEF TypeOK
      <3>3. Settled
        BY <1>a, <3>2 DEF Exclusion, Settled, Shared, Exclusive
      <3>4. QED
        BY <3>2, <3>3, AgreedWillDo DEF Fresh, Sound
    <2>4. QED
      BY <1>a, <2>1, <2>2, <2>3, QuietStep DEF TypeOK, History
  <1>3. CASE Copy(r)
    <2> USE <1>3 DEF Copy
    <2>1. TypeOK'
      BY <1>a, <1>b DEF TypeOK, Points, Shared, Exclusive
    <2>2. Exclusion'
      BY <1>a DEF Exclusion, TypeOK, Shared, Exclusive
    <2>3. /\ pc'[r] = "idle" /\ content >= 0 /\ asked' = [asked EXCEPT ![r] = 0]
          /\ \A s \in Readers : s # r => /\ pc'[s] = pc[s] /\ seen'[s] = seen[s]
                                         /\ asked'[s] = asked[s] /\ sized'[s] = sized[s]
      BY <1>a DEF TypeOK, Contents
    <2>4. asked'[r] <= content /\ sized'[r] \in {NULL, sized[r]}
      BY <1>a, <2>3 DEF TypeOK, Contents
    <2>5. QED
      BY <2>1, <2>2, <2>3, <2>4, QuietStep
  <1>4. CASE WriteLock(r)
    <2> USE <1>4 DEF WriteLock
    <2>1. TypeOK'
      BY <1>a DEF TypeOK, Points, Shared, Exclusive
    <2>2. Exclusion'
      BY <1>a DEF Exclusion, Holding, TypeOK, Shared, Exclusive
    <2>3. QED
      BY SMTT(30), <1>a, <2>1, <2>2, QuietStep DEF TypeOK, History
  <1>5. CASE Ensure(r)
    <2> USE <1>5 DEF Ensure
    <2>1. TypeOK'
      BY <1>a DEF TypeOK, Points, Shared, Exclusive, Times
    <2>2. Exclusion'
      BY <1>a DEF Exclusion, TypeOK, Shared, Exclusive
    <2>3. pc'[r] = "return" => json # NULL /\ Fresh(r)' /\ Sound(r)'
      <3>1. CASE present /\ pc'[r] = "return"
        <4>1. json # NULL /\ mtime = stamp /\ pc[r] = "ensure"
          BY <3>1, <1>a DEF TypeOK
        <4>2. Settled
          BY <1>a, <4>1 DEF Exclusion, Settled, Exclusive
        <4>3. Current(r) /\ (Whole \/ Excused)
          BY <4>1, <4>2, AgreedWillDo
        <4>4. QED
          BY <4>1, <4>3 DEF Fresh, Current, Sound, Excused, Whole
      <3>2. CASE ~present /\ pc'[r] = "return"
        BY <1>a, <3>2 DEF Fresh, Sound, TypeOK
      <3>3. QED
        BY <3>1, <3>2
    <2>4. pc'[r] = "reload" => seen'[r] \in Times /\ seen'[r] <= mtime
      BY <1>a, <1>b DEF TypeOK, Times
    <2>5. {pc[r], pc'[r]} \cap {"fill", "refill", "stamp"} = {} /\ pc'[r] # "copy"
      BY <1>a DEF TypeOK
    <2>6. QED
      BY <1>a, <2>1, <2>2, <2>3, <2>4, <2>5, QuietStep DEF TypeOK, History
  <1>6. CASE OpenFails(r)
    <2> USE <1>6 DEF OpenFails
    <2>1. TypeOK'
      BY <1>a, <1>b DEF TypeOK, Points, Shared, Exclusive
    <2>2. Exclusion'
      BY <1>a DEF Exclusion, TypeOK, Shared, Exclusive
    <2>3. /\ pc'[r] = "idle" /\ content >= 0 /\ asked' = [asked EXCEPT ![r] = 0]
          /\ \A s \in Readers : s # r => /\ pc'[s] = pc[s] /\ seen'[s] = seen[s]
                                         /\ asked'[s] = asked[s] /\ sized'[s] = sized[s]
      BY <1>a DEF TypeOK, Contents
    <2>4. asked'[r] <= content /\ sized'[r] \in {NULL, sized[r]}
      BY <1>a, <2>3 DEF TypeOK, Contents
    <2>5. QED
      BY <2>1, <2>2, <2>3, <2>4, QuietStep
  <1>7. CASE Return(r)
    <2> USE <1>7 DEF Return
    <2>1. TypeOK'
      BY <1>a, <1>b DEF TypeOK, Points, Shared, Exclusive
    <2>2. Exclusion'
      BY <1>a DEF Exclusion, TypeOK, Shared, Exclusive
    <2>3. /\ pc'[r] = "idle" /\ content >= 0 /\ asked' = [asked EXCEPT ![r] = 0]
          /\ \A s \in Readers : s # r => /\ pc'[s] = pc[s] /\ seen'[s] = seen[s]
                                         /\ asked'[s] = asked[s] /\ sized'[s] = sized[s]
      BY <1>a DEF TypeOK, Contents
    <2>4. asked'[r] <= content /\ sized'[r] \in {NULL, sized[r]}
      BY <1>a, <2>3 DEF TypeOK, Contents
    <2>5. QED
      BY <2>1, <2>2, <2>3, <2>4, QuietStep
  <1>8. ASSUME Open(r) \/ Read(r) \/ Fill(r) \/ FillFails(r) \/ Stamp(r)
        PROVE  /\ pc[r] \in Exclusive
               /\ content' = content /\ mtime' = mtime /\ written' = written
               /\ \A s \in Readers : s # r => /\ pc'[s] = pc[s] /\ pc[s] \notin Shared \union Exclusive
                                              /\ seen'[s] = seen[s] /\ asked'[s] = asked[s]
                                              /\ sized'[s] = sized[s]
    <2>1. pc[r] \in Exclusive
      BY <1>8 DEF Open, Read, Fill, FillFails, Stamp, Exclusive
    <2>2. content' = content /\ mtime' = mtime /\ written' = written
      BY <1>8 DEF Open, Read, Fill, FillFails, Stamp
    <2>3. \A s \in Readers : s # r => /\ pc'[s] = pc[s] /\ seen'[s] = seen[s]
                                      /\ asked'[s] = asked[s] /\ sized'[s] = sized[s]
      BY <1>8, <1>a DEF Open, Read, Fill, FillFails, Stamp, TypeOK
    <2>4. \A s \in Readers : s # r => pc[s] \notin Shared \union Exclusive
      BY <1>a, <2>1 DEF Exclusion
    <2>5. QED
      BY <2>1, <2>2, <2>3, <2>4
  <1>9. CASE Open(r)
    <2> USE <1>9 DEF Open
    <2>1. TypeOK'
      BY <1>a DEF TypeOK, Points, Shared, Exclusive
    <2>2. Exclusion'
      BY <1>a DEF Exclusion, TypeOK, Shared, Exclusive
    <2>3. /\ json' = content /\ last' = content /\ sized'[r] = content /\ content \in Contents
          /\ pc[r] \in {"load", "reload"} /\ pc'[r] = IF pc[r] = "load" THEN "fill" ELSE "refill"
          /\ seen' = seen /\ asked' = asked
      BY <1>a DEF TypeOK
    <2>4. Buffers'
      BY <1>a, <1>b, <1>8, <2>3 DEF Buffers, Shared, Exclusive, Contents
    <2>5. History'
      BY <1>a, <1>b, <1>8, <2>3 DEF History, Contents
    <2>6. Stamped'
      BY <1>a, <1>8, <2>3 DEF Stamped, History, Settled, Shared, Exclusive
    <2>7. Answerable'
      BY <1>a, <1>8, <2>3 DEF Answerable, History, Shared, Exclusive, TypeOK, Contents
    <2>8. QED
      BY <2>1, <2>2, <2>4, <2>5, <2>6, <2>7 DEF EntryInv
  <1>10. CASE Read(r)
    <2> USE <1>10 DEF Read
    <2>1. /\ sized[r] \in Contents /\ json \in Contents /\ sized[r] <= json /\ sized[r] <= content
          /\ json' \in {json, content} /\ json <= content
          /\ last' = content /\ content \in Contents /\ pc[r] \in {"fill", "refill"}
          /\ pc' = pc /\ seen' = seen /\ asked' = asked /\ sized' = sized
      BY <1>a DEF Buffers, History, TypeOK, Contents
    <2>2. json_len' \in Nat
      BY <1>a, <2>1 DEF TypeOK, Contents
    <2>3. TypeOK'
      BY <1>a, <2>1, <2>2 DEF TypeOK
    <2>4. Exclusion'
      BY <1>a DEF Exclusion
    <2>5. Buffers'
      BY <1>a, <1>b, <1>8, <2>1 DEF Buffers, Shared, Exclusive, Contents
    <2>6. History'
      BY <1>a, <1>b, <1>8, <2>1 DEF History, Contents
    <2>7. Stamped'
      BY <1>a, <1>8, <2>1 DEF Stamped, Settled
    <2>8. Answerable'
      BY <1>a, <1>8, <2>1 DEF Answerable, Shared, Exclusive
    <2>9. QED
      BY <2>3, <2>4, <2>5, <2>6, <2>7, <2>8 DEF EntryInv
  <1>11. CASE Fill(r)
    <2> USE <1>11 DEF Fill
    <2>1. /\ sized[r] \in Contents /\ json \in Contents /\ last \in Contents
          /\ sized[r] <= json /\ json <= last /\ last <= content
          /\ json' = json /\ last' = last /\ json_len' = json_len
          /\ json_len = Length[sized[r]] /\ pc[r] \in {"fill", "refill"}
          /\ pc'[r] = IF pc[r] = "fill" THEN "stamp" ELSE "return"
          /\ seen' = seen /\ asked' = asked /\ sized' = sized
      BY <1>a DEF Buffers, History, TypeOK, Contents
    <2>2. TypeOK'
      <3>1. stamp' \in Times /\ raced' \in BOOLEAN
        BY <1>a DEF TypeOK, Stamped
      <3>2. QED
        BY <1>a, <3>1 DEF TypeOK, Points, Shared, Exclusive
    <2>3. Exclusion'
      BY <1>a DEF Exclusion, TypeOK, Shared, Exclusive
    <2>4. Buffers'
      BY <1>a, <1>b, <1>8, <2>1 DEF Buffers, Shared, Exclusive
    <2>5. History'
      BY <1>a, <1>8, <2>1 DEF History
    <2>6. Stamped'
      <3>1. CASE pc[r] = "fill"
        BY <1>a, <1>8, <2>1, <3>1 DEF Stamped, Settled, Shared, Exclusive
      <3>2. CASE pc[r] = "refill"
        <4>1. stamp' = seen[r] /\ stamp' <= written[sized[r]] /\ stamp' \in Nat
              /\ written \in [Contents -> Nat] /\ content \in Contents
          BY <1>a, <3>2 DEF Stamped, TypeOK, Times
        <4>2. written[sized[r]] <= written[json]
          BY <1>a, <2>1, <4>1 DEF History, Contents
        <4>3. ~Whole => last > sized[r]
          BY <1>b, <2>1 DEF Whole, Contents
        <4>4. ~Whole => last > 0 /\ last - 1 \in Contents /\ written[sized[r]] <= written[last - 1]
          BY SMTT(30), <1>a, <2>1, <4>1, <4>3 DEF History, Contents
        <4>5. stamp' <= written[json] /\ (Whole \/ (last > 0 /\ stamp' <= written[last - 1]))
          BY <2>1, <4>1, <4>2, <4>4
        <4>6. QED
          BY <1>8, <2>1, <3>2, <4>5 DEF Stamped, Settled, Whole, Shared, Exclusive
      <3>3. QED
        BY <2>1, <3>1, <3>2
    <2>7. Answerable'
      <3>1. json >= asked[r] /\ sized[r] # NULL
        BY <1>a, <1>b, <2>1 DEF Answerable, TypeOK, Contents
      <3>2. QED
        BY <1>8, <2>1, <3>1 DEF Answerable, Fresh, Current, Sound, Shared, Exclusive
    <2>8. QED
      BY <2>2, <2>3, <2>4, <2>5, <2>6, <2>7 DEF EntryInv
  <1>12. CASE FillFails(r)
    <2> USE <1>12 DEF FillFails
    <2>1. TypeOK'
      BY <1>a, <1>b DEF TypeOK, Points, Shared, Exclusive
    <2>2. Exclusion'
      BY <1>a DEF Exclusion, TypeOK, Shared, Exclusive
    <2>3. /\ json' = NULL /\ pc'[r] = "idle" /\ asked'[r] = 0 /\ sized'[r] = NULL
          /\ content \in Nat
      BY <1>a DEF TypeOK, Contents
    <2>4. Buffers'
      BY <1>8, <2>3 DEF Buffers, Shared, Exclusive
    <2>5. History'
      BY <1>a, <1>8, <2>3 DEF History
    <2>6. Stamped'
      BY <1>8, <2>3 DEF Stamped, Shared, Exclusive
    <2>7. Answerable'
      BY <1>8, <2>3 DEF Answerable, Shared, Exclusive
    <2>8. QED
      BY <2>1, <2>2, <2>4, <2>5, <2>6, <2>7 DEF EntryInv
  <1>13. CASE Stamp(r)
    <2> USE <1>13 DEF Stamp
    <2>1. /\ json' = json /\ last' = last /\ json_len' = json_len /\ json \in Contents
          /\ pc[r] = "stamp" /\ pc'[r] = "return" /\ sized[r] # NULL
          /\ seen' = seen /\ asked' = asked /\ sized' = sized
      BY <1>a DEF Buffers, TypeOK
    <2>2. TypeOK'
      BY SMTT(30), <1>a DEF TypeOK, Points, Shared, Exclusive, Contents, Times
    <2>3. Exclusion'
      BY <1>a DEF Exclusion, TypeOK, Shared, Exclusive
    <2>4. Buffers'
      BY <1>a, <1>8, <2>1 DEF Buffers, Shared, Exclusive
    <2>5. History'
      BY <1>a, <1>8, <2>1 DEF History
    <2>6. Stamped'
      <3>1. ~raced' => stamp' = written[json] /\ Whole
        OBVIOUS
      <3>2. stamp' \in Nat
        BY <2>2 DEF TypeOK, Times
      <3>3. QED
        BY <1>8, <2>1, <3>1, <3>2 DEF Stamped, Whole, Shared, Exclusive
    <2>7. Answerable'
      <3>1. json >= asked[r]
        BY <1>a, <2>1 DEF Answerable
      <3>2. QED
        BY <1>8, <2>1, <3>1 DEF Answerable, Fresh, Current, Sound, Shared, Exclusive
    <2>8. QED
      BY <2>2, <2>3, <2>4, <2>5, <2>6, <2>7 DEF EntryInv
  <1>14. QED
    BY <1>1, <1>2, <1>3, <1>4, <1>5, <1>6, <1>7, <1>9, <1>10, <1>11, <1>12, <1>13 DEF Request

\* What a request copies will do, in any of its steps.
LEMMA AnswersWillDo ==
    ASSUME EntryInv, NEW r \in Readers, pc[r] \in {"copy", "return"}
    PROVE  Fresh(r) /\ Sound(r) /\ json # NULL
  BY DEF EntryInv, Answerable, Buffers

-----------------------------------------------------------------------------
(* The date, and the two together.                                         *)

LEMMA DateStepInv ==
    ASSUME DateInv, NEW w \in Readers, Date!DateCopy(w)
    PROVE  DateInv'
  <1> USE DEF DateInv, Date!DateTypeOK, Date!Locked, Date!Go
  <1>1. CASE Date!ReadTime(w)
    BY <1>1 DEF Date!ReadTime
  <1>2. CASE Date!Lock(w)
    BY <1>2 DEF Date!Lock
  <1>3. CASE Date!Update(w)
    BY <1>3 DEF Date!Update
  <1>4. CASE Date!Copy(w)
    BY <1>4 DEF Date!Copy
  <1>5. QED
    BY <1>1, <1>2, <1>3, <1>4 DEF Date!DateCopy

LEMMA DateStepForward ==
    ASSUME DateInv, NEW w \in Readers, Date!DateCopy(w)
    PROVE  Date!Forward
  <1> USE DEF DateInv, Date!DateTypeOK, Date!Locked, Date!Go, Date!Forward
  <1>1. CASE Date!ReadTime(w)
    BY <1>1 DEF Date!ReadTime
  <1>2. CASE Date!Lock(w)
    BY <1>2 DEF Date!Lock
  <1>3. CASE Date!Update(w)
    BY <1>3 DEF Date!Update
  <1>4. CASE Date!Copy(w)
    BY <1>4 DEF Date!Copy
  <1>5. QED
    BY <1>1, <1>2, <1>3, <1>4 DEF Date!DateCopy

\* A step of the bookmark cache leaves the clock and the date alone.
LEMMA RequestLeavesClock ==
    ASSUME NEW r \in Readers, Request(r)
    PROVE  clock' = clock
  BY DEF Request, ReadLock, Stat, Copy, WriteLock, Ensure, Return, Open, OpenFails, Read,
         Fill, FillFails, Stamp, file

\* ... and moves no other worker.
LEMMA RequestMovesOne ==
    ASSUME TypeOK, NEW r \in Readers, Request(r), NEW s \in Readers, s # r
    PROVE  pc'[s] = pc[s]
  BY DEF Request, ReadLock, Stat, Copy, WriteLock, Ensure, Return, Open, OpenFails, Read,
         Fill, FillFails, Stamp, Finish, Go, TypeOK

LEMMA CachesInvInit == CachesInit => CachesInv
  <1> SUFFICES ASSUME CachesInit PROVE CachesInv
    OBVIOUS
  <1>1. EntryInv
    BY EntryInit DEF CachesInit
  <1>2. DateInv
    BY DEF CachesInit, Date!Init, DateInv, Date!DateTypeOK
  <1>3. Apart
    BY DEF CachesInit, Init, Apart
  <1>4. QED
    BY <1>1, <1>2, <1>3 DEF CachesInv

LEMMA CachesInvNext == CachesInv /\ [CachesNext]_<<vars, date>> => CachesInv'
  <1> SUFFICES ASSUME CachesInv, [CachesNext]_<<vars, date>> PROVE CachesInv'
    OBVIOUS
  <1>0. EntryInv /\ DateInv /\ Apart /\ TypeOK
    BY DEF CachesInv, EntryInv
  <1>1. CASE World
    <2>1. EntryInv'
      BY <1>0, <1>1, WorldEntryInv DEF World
    <2>2. clock' >= clock /\ clock' \in Nat /\ UNCHANGED date /\ pc' = pc
      BY <1>0, <1>1, CacheAssumption DEF World, Tick, Edit, Remove, TypeOK, Times
    <2>3. DateInv' /\ Apart'
      BY <1>0, <2>2 DEF DateInv, Date!DateTypeOK, Apart, date
    <2>4. QED
      BY <2>1, <2>3 DEF CachesInv
  <1>2. ASSUME NEW r \in Readers, Bookmarks(r) PROVE CachesInv'
    <2>1. EntryInv'
      BY <1>0, <1>2, RequestEntryInv DEF Bookmarks
    <2>2. clock' = clock /\ UNCHANGED date /\ at[r] = "out"
      BY <1>2, RequestLeavesClock DEF Bookmarks
    <2>3. DateInv'
      BY <1>0, <2>2 DEF DateInv, Date!DateTypeOK, date
    <2>4. \A s \in Readers : s # r => pc'[s] = pc[s]
      BY <1>0, <1>2, RequestMovesOne DEF Bookmarks
    <2>5. Apart'
      BY <1>0, <2>2, <2>4 DEF Apart, date
    <2>6. QED
      BY <2>1, <2>3, <2>5 DEF CachesInv
  <1>3. ASSUME NEW r \in Readers, DateHeader(r) PROVE CachesInv'
    <2>1. EntryInv'
      BY <1>0, <1>3 DEF DateHeader, vars, file, entry, buffer, EntryInv, TypeOK, Exclusion,
         Buffers, History, Stamped, Settled, Answerable, Current, Fresh, Sound, Excused, Whole
    <2>2. DateInv'
      BY <1>0, <1>3, DateStepInv DEF DateHeader
    <2>3. pc' = pc /\ pc[r] = "idle" /\ \A s \in Readers : s # r => at'[s] = at[s]
      BY <1>0, <1>3 DEF DateHeader, vars, Date!DateCopy, Date!ReadTime, Date!Lock, Date!Update,
         Date!Copy, Date!Go, DateInv, Date!DateTypeOK
    <2>4. Apart'
      BY <1>0, <2>3 DEF Apart
    <2>5. QED
      BY <2>1, <2>2, <2>4 DEF CachesInv
  <1>4. CASE UNCHANGED <<vars, date>>
    BY <1>0, <1>4 DEF vars, file, entry, buffer, date, CachesInv, EntryInv, TypeOK, Exclusion,
       Buffers, History, Stamped, Settled, Answerable, Current, Fresh, Sound, Excused, Whole, DateInv, Date!DateTypeOK, Apart
  <1>5. QED
    BY <1>1, <1>2, <1>3, <1>4 DEF CachesNext

LEMMA CachesAlways == CachesSpec => []CachesInv
  BY CachesInvInit, CachesInvNext, PTL DEF CachesSpec

-----------------------------------------------------------------------------
(* The properties that the run checks.                                     *)

\* Both caches keep their types, and no worker is in both at once.
THEOREM CachesTypes == CachesSpec => []CachesTypeOK
  <1>1. CachesInv => CachesTypeOK
    BY DEF CachesInv, EntryInv, DateInv, Apart, CachesTypeOK
  <1>2. QED
    BY <1>1, CachesAlways, PTL

\* For every number of workers, edits and seconds, and all lengths of the file:
\* nobody frees or fills the JSON under a request that copies it, and torn JSON is
\* copied only by the request that read it, after a first load that was overtaken,
\* when stat fails, or when the file changed twice in the second it was torn in.
THEOREM TornJsonIsNotKept == CachesSpec => []TornIsNotKept
  <1>1. ASSUME CachesInv PROVE TornIsNotKept
    <2> SUFFICES ASSUME NEW r \in Readers, pc[r] \in {"copy", "return"}
                 PROVE  /\ json # NULL /\ Holding({"fill", "refill"}) = {}
                        /\ \/ Whole \/ sized[r] # NULL \/ raced \/ seen[r] = NULL
                           \/ last > 0 /\ written[last] = written[last - 1]
      BY DEF TornIsNotKept, Holding
    <2>1. EntryInv
      BY <1>1 DEF CachesInv
    <2>2. Holding({"fill", "refill"}) = {}
      BY <2>1 DEF EntryInv, Exclusion, Holding, Shared, Exclusive
    <2>3. QED
      BY <2>1, <2>2, AnswersWillDo DEF Sound, Excused
  <1>2. QED
    BY <1>1, CachesAlways, PTL

\* For every number of workers, edits and seconds: an answer older than its
\* question is one whose stamp lied, whose stat failed, or whose content was
\* written in the same second as the one it missed.
THEOREM StaleOnlyThen == CachesSpec => StaleOnlyIfStampLies
  <1> DEFINE Step == \A r \in Readers : Answers(r) =>
                        \/ json >= asked[r]
                        \/ raced
                        \/ seen[r] = NULL
                        \/ written[json] = written[asked[r]]
  <1>1. CachesInv => Step
    BY AnswersWillDo DEF Answers, CachesInv, Current, Fresh
  <1>2. CachesInv /\ [CachesNext]_<<vars, date>> => [Step]_vars
    BY <1>1
  <1>3. QED
    BY <1>2, CachesAlways, PTL DEF CachesSpec, StaleOnlyIfStampLies

\* For every number of workers and every course of the clock that does not go
\* back: the Date header never does, and is no older than its response.
THEOREM DatesForward == CachesSpec => DatesMoveForward
  <1>1. CachesInv /\ [CachesNext]_<<vars, date>> => [Date!Forward]_<<clock, date>>
    <2> SUFFICES ASSUME CachesInv, [CachesNext]_<<vars, date>>
                 PROVE  Date!Forward \/ UNCHANGED <<clock, date>>
      OBVIOUS
    <2>0. DateInv
      BY DEF CachesInv
    <2>1. ASSUME UNCHANGED date PROVE Date!Forward
      BY <2>0, <2>1 DEF date, Date!Forward, DateInv, Date!DateTypeOK
    <2>2. ASSUME NEW r \in Readers, DateHeader(r) PROVE Date!Forward
      BY <2>0, <2>2, DateStepForward DEF DateHeader
    <2>3. QED
      BY <2>1, <2>2 DEF CachesNext, World, Bookmarks
  <1>2. QED
    BY <1>1, CachesAlways, PTL DEF CachesSpec, DatesMoveForward

=============================================================================
