-------------------------------- MODULE Marks --------------------------------
(***************************************************************************)
(* The database builder, marks2json.py: create, update (with --override),  *)
(* and find-dead --healthy, on one database file.                          *)
(*                                                                         *)
(* A bookmark is its url, the variant of its title, description and tags   *)
(* that a line gives it, and whether it has an icon.  A database is the    *)
(* sequence of its bookmarks, each with its category, in the order of the  *)
(* file, and the counters kept beside them.  A command reads one line per  *)
(* step.                                                                   *)
(***************************************************************************)
EXTENDS Integers, SequencesExt

CONSTANTS Categories,   \* 1 .. n in the order of their names, which is the files'
          Urls,
          Variants,     \* 1 .. n in the order of their titles
          Channels,     \* the urls that have an icon
          Labels,       \* domains and tags
          Domain,       \* the domain of each url, "" for none
          TagsOf,       \* the tags of each variant, with repetitions
          MaxBookmarks, MaxLines    \* bounds: of a database, of the lines of a command

ASSUME MarksAssumption ==
    /\ Categories \subseteq Nat /\ Variants \subseteq Nat
    /\ Channels \subseteq Urls
    /\ "" \notin Labels
    /\ Domain \in [Urls -> Labels \union {""}]
    /\ \A v \in Variants : TagsOf[v] \in Seq(Labels)
    /\ MaxBookmarks \in Nat /\ MaxLines \in Nat

VARIABLES
    disk,           \* the database file
    cmd, override, icons,               \* the command that runs, and its options
    mem, counts, known, iconCache,      \* its copy, counters, keys and icons
    changed, at,                        \* has it updated anything; the category it reads
    read                                \* ghost: the lines it has read

run  == <<cmd, override, icons, mem, counts, known, iconCache, changed, at, read>>
vars == <<disk, run>>

Bookmark == [cat : Categories, url : Urls, v : Variants, icon : BOOLEAN]
Counters == [Labels -> Nat]
NoFile   == [exists |-> FALSE, bms |-> <<>>, counts |-> [l \in Labels |-> 0]]

TypeOK ==
    /\ disk.exists \in BOOLEAN /\ disk.counts \in Counters
    /\ disk.bms \in Seq(Bookmark) /\ mem \in Seq(Bookmark)
    /\ cmd \in {"idle", "create", "update"} /\ {override, icons, changed} \subseteq BOOLEAN
    /\ counts \in Counters
    /\ known \subseteq Urls \X Variants \X BOOLEAN
    /\ iconCache \subseteq Channels
    /\ at \in Categories \union {0}
    /\ read \in Seq(Urls \X Variants)

Idle ==
    /\ cmd' = "idle" /\ override' = FALSE /\ icons' = FALSE
    /\ mem' = <<>> /\ counts' = NoFile.counts /\ known' = {} /\ iconCache' = {}
    /\ changed' = FALSE /\ at' = 0 /\ read' = <<>>

Init ==
    /\ disk = NoFile
    /\ cmd = "idle" /\ override = FALSE /\ icons = FALSE
    /\ mem = <<>> /\ counts = NoFile.counts /\ known = {} /\ iconCache = {}
    /\ changed = FALSE /\ at = 0 /\ read = <<>>

-----------------------------------------------------------------------------
Occurrences(b, l) ==
    Cardinality({i \in DOMAIN TagsOf[b.v] : TagsOf[b.v][i] = l})
        + (IF Domain[b.url] = l THEN 1 ELSE 0)

\* adjust_counters: an entry that falls to zero is taken out.
Adjust(c, b, delta) ==
    [l \in Labels |-> Max({0, c[l] + delta * Occurrences(b, l)})]

\* recalc_counters.
Recount(bms) ==
    LET upto[k \in 0 .. Len(bms)] ==              \* of the first k
            IF k = 0 THEN NoFile.counts ELSE Adjust(upto[k - 1], bms[k], 1)
    IN  upto[Len(bms)]

Key(b) == <<b.url, b.v, b.icon>>

\* existing_by_url: the copy of a url that an update compares with and changes,
\* the last one in the file, or the one it has added.  0 if there is none.
LastCopy(bms, url) == SelectLastInSeq(bms, LAMBDA b : b.url = url)
OldOnDisk(url) == LastCopy(disk.bms, url)               \* faulty: misses what was added
Old(url)       == LastCopy(mem, url)

\* known_bookmarks at the start: the keys of those copies, no others.
KnownOfAll(bms) == {Key(bms[i]) : i \in DOMAIN bms}     \* faulty: of all copies
Known(bms) == {Key(bms[i]) : i \in {LastCopy(bms, url) : url \in Urls} \ {0}}

\* sort_database: by category, and by title within one.  Sorting is stable.
Precedes(bms, i, j) ==
    \/ bms[i].cat < bms[j].cat
    \/ bms[i].cat = bms[j].cat /\ bms[i].v < bms[j].v
    \/ bms[i].cat = bms[j].cat /\ bms[i].v = bms[j].v /\ i < j

Place(bms, i) == 1 + Cardinality({j \in 1 .. Len(bms) : Precedes(bms, j, i)})

Sorted(bms) ==
    [p \in 1 .. Len(bms) |-> bms[CHOOSE i \in 1 .. Len(bms) : Place(bms, i) = p]]

-----------------------------------------------------------------------------
\* parse_bookmark_line: the icon of a line, and the icon cache after it.
IconForAny(url, v) ==                   \* faulty: whatever the url
    {[icon |-> icon, cache |-> iconCache \union (IF icon THEN {url} ELSE {})] : icon \in BOOLEAN}

IconFor(url, v) ==
    LET old  == Known(disk.bms)
        Keep == [icon |-> TRUE, cache |-> iconCache]
    IN  CASE ~icons \/ url \notin Channels -> {[icon |-> FALSE, cache |-> iconCache]}
          [] OTHER ->
                IF cmd = "update" /\ <<url, v, TRUE>> \in old THEN {Keep}
                ELSE IF url \in iconCache THEN {Keep}
                ELSE {[icon |-> FALSE, cache |-> iconCache],
                      [icon |-> TRUE,  cache |-> iconCache \union {url}]}

\* The next line gives the bookmark b.  Files are read in the order of their names.
Take(b) ==
    /\ Len(read) < MaxLines
    /\ b.cat >= at /\ at' = b.cat
    /\ \E found \in IconFor(b.url, b.v) : b.icon = found.icon /\ iconCache' = found.cache
    /\ read' = Append(read, <<b.url, b.v>>)
    /\ UNCHANGED <<disk, cmd, override, icons>>

\* cmd_create takes every line, also one that repeats another.
CreateLine(b) ==
    /\ cmd = "create" /\ Len(mem) < MaxBookmarks
    /\ Take(b)
    /\ mem' = Append(mem, b) /\ counts' = Adjust(counts, b, 1)
    /\ UNCHANGED <<known, changed>>

\* The loop of cmd_update, one action for each way through it.
SkipExact(b) ==
    /\ cmd = "update" /\ Key(b) \in known
    /\ Take(b)
    /\ UNCHANGED <<mem, counts, known, changed>>

SkipUrl(b) ==
    /\ cmd = "update" /\ Key(b) \notin known
    /\ Old(b.url) # 0 /\ ~override
    /\ Take(b)
    /\ UNCHANGED <<mem, counts, known, changed>>

\* old.update(bm): a line without an icon leaves the one there is.
Replaced(old, b) == [b EXCEPT !.cat = old.cat]          \* faulty: old = bm
Updated(old, b)  == [b EXCEPT !.cat = old.cat, !.icon = old.icon \/ b.icon]

CountedOnce(c, old, new) == Adjust(c, new, 1)           \* faulty: old is still counted
Recounted(c, old, new)   == Adjust(Adjust(c, old, -1), new, 1)

Refresh(b) ==
    /\ cmd = "update" /\ Key(b) \notin known
    /\ Old(b.url) # 0 /\ override
    /\ Take(b)
    /\ LET old == mem[Old(b.url)]
           new == Updated(old, b)
       IN  /\ mem' = [mem EXCEPT ![Old(b.url)] = new]
           /\ counts' = Recounted(counts, old, new)
           /\ known' = known \union {Key(new)}
    /\ changed' = TRUE

AddNew(b) ==
    /\ cmd = "update" /\ Key(b) \notin known
    /\ Old(b.url) = 0 /\ Len(mem) < MaxBookmarks
    /\ Take(b)
    /\ mem' = Append(mem, b) /\ counts' = Adjust(counts, b, 1)
    /\ known' = known \union {Key(b)}
    /\ changed' = TRUE

ReadLine == \E b \in Bookmark :
    CreateLine(b) \/ SkipExact(b) \/ SkipUrl(b) \/ Refresh(b) \/ AddNew(b)

-----------------------------------------------------------------------------
StartCreate ==
    /\ cmd = "idle" /\ cmd' = "create"
    /\ icons' \in BOOLEAN
    /\ \E kept \in SUBSET Channels : iconCache' = IF icons' THEN kept ELSE {}
    /\ UNCHANGED <<disk, override, mem, counts, known, changed, at, read>>

\* Without a file the command ends with a message.
StartUpdate ==
    /\ cmd = "idle" /\ disk.exists /\ cmd' = "update"
    /\ override' \in BOOLEAN /\ icons' \in BOOLEAN
    /\ \E kept \in SUBSET Channels : iconCache' = IF icons' THEN kept ELSE {}
    /\ mem' = disk.bms /\ counts' = disk.counts /\ known' = Known(disk.bms)
    /\ UNCHANGED <<disk, changed, at, read>>

Write(bms, c) == disk' = [exists |-> TRUE, bms |-> Sorted(bms), counts |-> c]

FinishCreate  == cmd = "create" /\ Write(mem, counts) /\ Idle
FinishUpdate  == cmd = "update" /\ changed /\ Write(mem, counts) /\ Idle
FinishNothing == cmd = "update" /\ ~changed /\ UNCHANGED disk /\ Idle

\* Interrupted before it writes.
Interrupt == cmd # "idle" /\ UNCHANGED disk /\ Idle

\* The bookmarks whose urls are not dead.
Healthy(bms, dead) ==
    LET kept[k \in 0 .. Len(bms)] ==              \* of the first k
            IF k = 0 THEN <<>>
            ELSE IF bms[k].url \in dead THEN kept[k - 1]
            ELSE Append(kept[k - 1], bms[k])
    IN  kept[Len(bms)]

\* find-dead --healthy, and the healthy database is used from then on.  The urls
\* that answer with one of the statuses asked for may be any.
FindDead ==
    /\ cmd = "idle" /\ disk.bms # <<>>
    /\ \E dead \in SUBSET Urls :
          LET kept == Healthy(disk.bms, dead)
          IN  Write(kept, Recount(kept))
    /\ UNCHANGED run

Next ==
    \/ StartCreate \/ StartUpdate \/ ReadLine
    \/ FinishCreate \/ FinishUpdate \/ FinishNothing \/ Interrupt \/ FindDead

Spec == Init /\ [][Next]_vars

-----------------------------------------------------------------------------
Copies(bms, url) == Cardinality({i \in DOMAIN bms : bms[i].url = url})

\* The counters in the file, and those of a running command after every line, are
\* what a recount would give, although update and override only ever adjust them,
\* in databases where a url may stand several times.
CountersAreRecount ==
    /\ disk.counts = Recount(disk.bms)
    /\ cmd # "idle" => counts = Recount(mem)

\* "Only brand-new bookmarks are added" (marks2json.py:354): update never makes a
\* second copy of a url, within one run either; it may inherit copies from create.
UpdateAddsNoCopies ==
    cmd = "update" =>
        \A url \in Urls : Copies(mem, url) <= Max({1, Copies(disk.bms, url)})

\* An update loses nothing: no bookmark leaves the file or changes category, none
\* loses its icon, and without --override none changes at all.
UpdateKeeps ==
    cmd = "update" => \A i \in DOMAIN disk.bms :
        /\ i \in DOMAIN mem
        /\ mem[i].url = disk.bms[i].url /\ mem[i].cat = disk.bms[i].cat
        /\ disk.bms[i].icon => mem[i].icon
        /\ ~override => mem[i] = disk.bms[i]

\* With --override, a url that has been read is stored as one of its lines says.
OverrideTakesALine ==
    (cmd = "update" /\ override) => \A i \in DOMAIN read :
        \E j \in DOMAIN read : read[j] = <<read[i][1], mem[Old(read[i][1])].v>>

\* Bookmarks "get their title/description/tags/icon refreshed if the incoming line
\* differs from what's stored" (marks2json.py:355): after a line is read, it is
\* what is stored.
OverrideTakesTheLine ==
    (cmd = "update" /\ override /\ read # <<>>) => mem[Old(Last(read)[1])].v = Last(read)[2]
=============================================================================
