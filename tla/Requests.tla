------------------------------ MODULE Requests -------------------------------
(***************************************************************************)
(* What one request gets: parsing (src/http.c), credentials (src/auth.c),  *)
(* the API and its databases (src/api.c, src/databases_meta.c), embedded   *)
(* files (src/vfs_hash.c, src/file.c) and the answer (src/response.c).     *)
(* All of it is read-only once the server runs, so it is operators; who    *)
(* calls them, and when, is in Connection.tla.                             *)
(*                                                                         *)
(* A request is a record of what the code tells apart:                     *)
(*   line        "ok", "short" (a space is missing) or "dots" (the path    *)
(*               has .. in it once it is decoded)                          *)
(*   method      "GET", "HEAD" or another                                  *)
(*   path        the decoded path: <<"bookmarks", i>>, <<"bookmarks">>     *)
(*               (/bookmarks.json), <<"databases">>, <<"database", i>>, or *)
(*               <<"file", f>>; i is an integer, or Blank if it is none    *)
(*   version     "HTTP/1.1" or another                                     *)
(*   connection  which of "close" and "keep-alive" the header mentions     *)
(*   auth        <<user, password>>, or <<>> for a header that is absent   *)
(*               or cannot be decoded                                      *)
(*   match       is If-None-Match the ETag of the file?                    *)
(*   range       <<a, b>> for "bytes=a-b", <<>> for no such header; a and  *)
(*               b may be Blank, or Huge, which does not fit in 64 bits    *)
(***************************************************************************)
EXTENDS Integers, Sequences, SequencesExt

CONSTANTS Blank, Huge,
          BookmarkFiles,   \* cfg->bookmark_files
          LongNamed,       \* those whose metadata does not fit in 1024 bytes
          vfs_table,       \* the embedded files, <<path, length>>
          Slots, Hash,     \* size of the hash table; Hash[path]: fnv1a_str(path)
          User, Pass,      \* the credentials of the command line; Blank if unset
          Timeout          \* cfg->keep_alive_timeout

Paths == DOMAIN Hash

ASSUME RequestsAssumption ==
    /\ Blank \notin Int /\ Huge \notin Int /\ Blank # Huge
    /\ BookmarkFiles \in Seq(STRING) /\ LongNamed \subseteq ToSet(BookmarkFiles)
    /\ Blank \notin Paths /\ Hash \in [Paths -> Nat]
    /\ vfs_table \in Seq(Paths \X (Nat \ {0}))
    /\ \A i, j \in DOMAIN vfs_table : vfs_table[i][1] = vfs_table[j][1] => i = j
    /\ Slots \in Nat \ {0} /\ Len(vfs_table) <= Slots
    /\ Timeout \in Nat

Number == Nat \union {Blank, Huge}

Request ==
    [line : {"ok", "short", "dots"}, method : STRING, path : Paths, version : STRING,
     connection : SUBSET {"close", "keep-alive"}, auth : Seq(STRING), match : BOOLEAN,
     range : {<<>>} \union (Number \X Number)]

Least(a, b) == IF a < b THEN a ELSE b

-----------------------------------------------------------------------------
(* http.c and the start of handle_client.                                  *)

\* parse_request_line.  (A NUL byte only ends the path: the test for it
\* compares the length of a string with itself.)
Malformed(q) == q.line # "ok"

\* parse_header, Range: -1 stands for a missing number and for an overflow, and
\* strtoll reads the dash of "bytes=-b" as a sign.  Without a digit it says 0.
RangeStart(range) ==
    CASE range = <<>> -> -1
      [] range # <<>> /\ range[1] = Blank ->
            IF range[2] = Huge THEN -1 ELSE IF range[2] = Blank THEN 0 ELSE -range[2]
      [] OTHER -> IF range[1] = Huge THEN -1 ELSE range[1]

RangeEnd(range) ==
    IF range = <<>> \/ Blank \in ToSet(range) \/ range[2] = Huge THEN -1 ELSE range[2]

\* wants_keep_alive
WantsKeepAlive(q) ==
    /\ Timeout > 0
    /\ IF q.version = "HTTP/1.1" THEN "close" \notin q.connection
                                 ELSE "keep-alive" \in q.connection

\* auth_check.  Credentials that are all unset or empty ask for nothing.
AuthCheck(q) ==
    LET Text(s) == IF s = Blank THEN "" ELSE s
    IN  \/ Text(User) = "" /\ Text(Pass) = ""
        \/ q.auth = <<Text(User), Text(Pass)>>

-----------------------------------------------------------------------------
(* response.c.  An answer has a status, what its Connection header says,   *)
(* whether its Content-Length is above zero and whether a body follows;    *)
(* of what it is of, and which part.                                       *)

ResponseSend(status, keep, length, body, of) ==
    [status |-> status, keep |-> keep, length |-> length, body |-> body, of |-> of]

ResponseErrorKeeps(status) ==   \* faulty: leaves the connection open
    ResponseSend(status, TRUE, TRUE, TRUE, Blank)

\* response_error and http_send_status: a page, whatever the method was, and
\* "Connection: close", whatever handle_client is about to do.
ResponseError(status) == ResponseSend(status, FALSE, TRUE, TRUE, Blank)

Json(keep, of) == ResponseSend(200, keep, TRUE, TRUE, of)

-----------------------------------------------------------------------------
(* databases_meta.c and api.c.  `missing' are the files that stat did not  *)
(* find when the server started.                                           *)

\* populate_db_meta_all leaves them out, server_run registers all with the cache.
DbMeta(missing) ==
    LET kept[k \in 0 .. Len(BookmarkFiles)] ==     \* of the first k files
            IF k = 0 THEN <<>>
            ELSE IF BookmarkFiles[k] \in missing THEN kept[k - 1]
            ELSE Append(kept[k - 1], BookmarkFiles[k])
    IN  kept[Len(BookmarkFiles)]

DbCacheReversed == Reverse(BookmarkFiles)  \* faulty: registers the last first

DbCache == BookmarkFiles

\* An index is checked against g_db_meta_count.
InRange(i, missing) == i # Blank /\ i \in 0 .. Len(DbMeta(missing)) - 1

\* get_cached_bookmark_json_copy, and NULL if the file cannot be loaded.
CachedCopy(i, keep) == {ResponseError(500), Json(keep, DbCache[i + 1])}

\* build_databases_json, and NULL for want of memory.
DatabasesJson(keep, missing) == {ResponseError(500), Json(keep, DbMeta(missing))}

\* build_database_json: its buffer has a fixed size.
DatabaseJson(i, keep, missing) ==
    LET f == DbMeta(missing)[i + 1]
    IN  {ResponseError(500)} \union (IF f \in LongNamed THEN {} ELSE {Json(keep, f)})

\* api_handle_request: the answers it may give; none if it leaves the request
\* to file_serve.
ApiHandleRequest(q, missing) ==
    LET keep == WantsKeepAlive(q)
        i    == q.path[2]
    IN
    CASE q.method # "GET" -> {}
      [] q.method = "GET" /\ q.path[1] = "bookmarks" /\ Len(q.path) = 2 ->
            IF InRange(i, missing) THEN CachedCopy(i, keep) ELSE {ResponseError(404)}
      [] q.method = "GET" /\ q.path = <<"bookmarks">> ->
            IF BookmarkFiles = <<>> THEN {} ELSE CachedCopy(0, keep)
      [] q.method = "GET" /\ q.path = <<"databases">> -> DatabasesJson(keep, missing)
      [] q.method = "GET" /\ q.path[1] = "database" ->
            IF InRange(i, missing) THEN DatabaseJson(i, keep, missing)
                                   ELSE {ResponseError(404)}
      [] OTHER -> {}

-----------------------------------------------------------------------------
(* vfs_hash.c: a table with linear probing, filled once.                   *)

Probes == 0 .. Slots - 1

Probe(path, p) == ((Hash[path] % Slots) + p) % Slots

\* The slot of the first probe for path that finds an entry in `stops'.
FirstSlot(slots, path, stops) ==
    LET p == CHOOSE p \in Probes :
                /\ slots[Probe(path, p)] \in stops
                /\ \A p2 \in 0 .. p - 1 : slots[Probe(path, p2)] \notin stops
    IN  Probe(path, p)

Inserted(slots, path) == [slots EXCEPT ![FirstSlot(slots, path, {Blank})] = path]

\* vfs_hash_init, which would abort were there more files than slots.
VfsSlots ==
    LET after[k \in 0 .. Len(vfs_table)] ==        \* the table with the first k files
            IF k = 0 THEN [s \in Probes |-> Blank] ELSE Inserted(after[k - 1], vfs_table[k][1])
    IN  after[Len(vfs_table)]

\* vfs_lookup: the path, or Blank if an empty slot comes first, or all were probed.
VfsLookup(path) ==
    IF \A p \in Probes : VfsSlots[Probe(path, p)] \notin {Blank, path} THEN Blank
    ELSE VfsSlots[FirstSlot(VfsSlots, path, {Blank, path})]

Length(path) == LET e == CHOOSE e \in ToSet(vfs_table) : e[1] = path IN e[2]

-----------------------------------------------------------------------------
(* file.c *)

SliceUnclamped(range, len) ==   \* faulty: lets the end stand
    LET start == RangeStart(range)
        first == IF start < 0 THEN len + start ELSE start
        last  == IF start < 0 \/ RangeEnd(range) < 0 THEN len - 1 ELSE RangeEnd(range)
    IN  IF start = -1 THEN <<>> ELSE <<IF first < 0 THEN 0 ELSE first, last>>

\* What a range header selects of len bytes: <<>>, all of them, if it counts as
\* none; otherwise the first and the last byte, in that order if satisfiable.
Slice(range, len) ==
    LET start == RangeStart(range)
        first == IF start < 0 THEN len + start ELSE start
        last  == IF start < 0 \/ RangeEnd(range) < 0 THEN len - 1 ELSE RangeEnd(range)
    IN  IF start = -1 THEN <<>>
        ELSE <<IF first < 0 THEN 0 ELSE first, Least(last, len - 1)>>

\* file_serve
FileServe(q) ==
    LET keep  == WantsKeepAlive(q)
        f     == VfsLookup(q.path)
        slice == Slice(q.range, Length(f))
        whole == <<0, Length(f) - 1>>
        Part(status, part) == ResponseSend(status, keep, TRUE, q.method # "HEAD", part)
    IN
    CASE q.method \notin {"GET", "HEAD"} -> ResponseError(405)
      [] q.method \in {"GET", "HEAD"} /\ f = Blank -> ResponseError(404)
      [] OTHER ->
            IF q.match THEN ResponseSend(304, keep, FALSE, FALSE, Blank)
            ELSE IF slice = <<>> THEN Part(200, whole)
            ELSE IF slice[1] > slice[2]
                 THEN ResponseSend(416, keep, FALSE, FALSE, Blank)
                 ELSE Part(206, slice)

\* The answers that handle_client may give to a request it has let in.
Answers(q, missing) ==
    LET api == ApiHandleRequest(q, missing)
    IN  IF api = {} THEN {FileServe(q)} ELSE api

=============================================================================
