----------------------------- MODULE Connection ------------------------------
(***************************************************************************)
(* One connection: a client and the worker that serves it (handle_client   *)
(* in src/server.c, read_headers in src/http.c, the sending in             *)
(* src/response.c and src/transport.c).  What a request gets is in         *)
(* Requests.tla, and what it shares with others is in Caches.tla.          *)
(*                                                                         *)
(* The stream from the client is a sequence of units <<r, u>> of request   *)
(* r: its "line", units of further "header"s, and the halves "cr", "lf" of *)
(* the blank line that ends it.  A read takes any number of them, so every *)
(* fragmentation is covered.  What a request says is chosen when it is     *)
(* parsed.  A write that would block is a step that is not taken; a client *)
(* that has gone altogether is one whose answers nobody sees.              *)
(***************************************************************************)
EXTENDS Requests, FiniteSets

CONSTANTS Asks,            \* what a request may say
          MaxRequests,     \* bound of the model: requests the client sends
          MaxHeaders,      \* bound of the model: header units of a request
          BufferSize,      \* HTTP_RAW_BUF_SIZE, in units
          ChunkSize        \* what one read asks for at most

Reply == [last : BOOLEAN, keep : BOOLEAN, stays : BOOLEAN, vector : BOOLEAN, framed : BOOLEAN]

ASSUME ConnectionAssumption ==
    /\ Asks \subseteq Request /\ Blank \notin Reply
    /\ MaxRequests \in Nat /\ MaxHeaders \in Nat
    /\ BufferSize \in Nat \ {0} /\ ChunkSize \in Nat \ {0}

VARIABLES wire,      \* what is on its way from the client
          rest,      \* what the client has still to send of its last request
          asked,     \* the number of its last request
          ended,     \* has it closed its end?
          buf,       \* the raw buffer of the request
          pc,        \* where the worker is
          resp,      \* the answer it sends, or Blank
          timed,     \* is there a receive timeout?
          shutdown,  \* g_shutdown
          tls,       \* is it a TLS connection?
          missing,   \* the files that were missing when the server started
          answers,   \* the requests that were answered, in order; 0 is none
          said,      \* the last answer, or Blank
          cut,       \* requests of which read_headers threw something away
          hasty,     \* requests sent before the ones before were answered
          long       \* requests with more headers than the buffer holds

client  == <<rest, asked, ended, hasty, long>>
stream  == <<wire, buf, cut>>
setting == <<tls, missing>>
spoken  == <<answers, said>>
vars    == <<client, stream, setting, spoken, pc, resp, timed, shutdown>>

Init ==
    /\ wire = <<>> /\ rest = <<>> /\ asked = 0 /\ ended = FALSE
    /\ buf = <<>> /\ pc = "read" /\ resp = Blank
    /\ timed = FALSE /\ shutdown = FALSE
    /\ tls \in BOOLEAN /\ missing \in SUBSET ToSet(BookmarkFiles)
    /\ answers = <<>> /\ said = Blank
    /\ cut = {} /\ hasty = {} /\ long = {}

-----------------------------------------------------------------------------
(* The client.                                                             *)

Message(r, headers) ==
    <<<<r, "line">>>> \o [i \in 1 .. headers |-> <<r, "header">>]
        \o <<<<r, "cr">>, <<r, "lf">>>>

Ask(headers) ==
    /\ ~ended /\ pc # "closed" /\ rest = <<>> /\ asked < MaxRequests
    /\ asked' = asked + 1
    /\ rest' = Message(asked', headers)
    /\ hasty' = IF 1 .. asked \subseteq ToSet(answers) THEN hasty ELSE hasty \union {asked'}
    /\ long' = IF Len(rest') > BufferSize THEN long \union {asked'} ELSE long
    /\ UNCHANGED <<ended, stream, setting, spoken, pc, resp, timed, shutdown>>

\* A client may stop in the middle of a request.
Transmit(k) ==
    /\ ~ended /\ pc # "closed" /\ k \in 1 .. Len(rest)
    /\ wire' = wire \o SubSeq(rest, 1, k)
    /\ rest' = SubSeq(rest, k + 1, Len(rest))
    /\ UNCHANGED <<asked, ended, hasty, long, buf, cut, setting, spoken,
                   pc, resp, timed, shutdown>>

End ==
    /\ ~ended /\ pc # "closed"
    /\ ended' = TRUE
    /\ UNCHANGED <<rest, asked, hasty, long, stream, setting, spoken,
                   pc, resp, timed, shutdown>>

-----------------------------------------------------------------------------
(* The worker: reading.                                                    *)
Go(from, to) == pc = from /\ pc' = to

\* The places at which the blank line ends among the units from `from' on.
BlankLines(units, from) ==
    {i \in from .. Len(units) - 1 : units[i][2] = "cr" /\ units[i + 1][2] = "lf"}

\* read_headers looks at what was just read and at the units before that may
\* begin the blank line.
ScanNoOverlap(before) == before + 1   \* faulty: looks at what was just read only

\* What a read asks for when the buffer holds n units.
WantChunk(n) == ChunkSize             \* faulty: forgets what is there already

Want(n) == Least(ChunkSize, BufferSize - n)

Scan(before) == IF before > 0 THEN before ELSE 1

\* One turn of the loop of read_headers, which ends with a blank line or a full
\* buffer.  What came after the blank line in the same read is lost.
Read(k) ==
    /\ pc = "read" /\ k \in 1 .. Least(Len(wire), Want(Len(buf)))
    /\ LET units == buf \o SubSeq(wire, 1, k)
           ends  == BlankLines(units, Scan(Len(buf)))
           stop  == IF ends = {} THEN Len(units) ELSE 1 + CHOOSE i \in ends : \A j \in ends : i <= j
       IN  /\ buf' = SubSeq(units, 1, stop)
           /\ cut' = cut \union {units[i][1] : i \in stop + 1 .. Len(units)}
           /\ pc' = IF ends # {} \/ stop = BufferSize THEN "parse" ELSE "read"
    /\ wire' = SubSeq(wire, k + 1, Len(wire))
    /\ UNCHANGED <<client, setting, spoken, resp, timed, shutdown>>

\* What of an answer r to a request q matters from here on: is it the last word
\* on the connection, what does it announce, does handle_client go on, is it
\* written by one writev, and does its body agree with the length and the method?
Sending(r, q, last, stays) ==
    [last |-> last, keep |-> r.keep, stays |-> stays, vector |-> r.body,
     framed |-> r.body = (r.length /\ q.method # "HEAD")]

BadRequestStays ==              \* faulty: goes on after the 400
    resp' = [last |-> TRUE, keep |-> FALSE, stays |-> TRUE, vector |-> FALSE,
             framed |-> TRUE]

\* http_send_status(400), after which the connection ends.
BadRequest ==
    resp' = [last |-> TRUE, keep |-> FALSE, stays |-> FALSE, vector |-> FALSE,
             framed |-> TRUE]

\* read returns 0 or -1: the client has closed its end, the timeout has passed, or
\* with TLS there is no plaintext, for want of a whole record.
ReadFails ==
    /\ Go("read", "send")
    /\ IF wire = <<>> THEN ended \/ timed ELSE tls
    /\ BadRequest
    /\ UNCHANGED <<client, stream, setting, spoken, timed, shutdown>>

\* A signal that the worker's thread gets while it waits.
InterruptRead ==
    /\ wire = <<>>
    /\ shutdown' = TRUE
    /\ Go("read", "send")
    /\ BadRequest
    /\ UNCHANGED <<client, stream, setting, spoken, timed>>

-----------------------------------------------------------------------------
(* The worker: answering.  What it does between reading and sending depends *)
(* on the request only, so a request is chosen and answered in one step.    *)

\* What the buffer may say: it begins with a request line, with a header that may
\* pass for one, or with an empty line, which does not.
Parsed(q) ==
    /\ pc = "parse"
    /\ buf[1][2] \in {"cr", "lf"} => Malformed(q)

\* http_parse_request fails.
Reject(q) ==
    /\ Parsed(q) /\ Malformed(q)
    /\ Go("parse", "send")
    /\ BadRequest
    /\ UNCHANGED <<client, stream, setting, spoken, timed, shutdown>>

\* auth_send_challenge, after which the connection ends.
Challenge(q) ==
    /\ Parsed(q) /\ ~Malformed(q) /\ ~AuthCheck(q)
    /\ Go("parse", "send")
    /\ resp' = Sending(ResponseError(401), q, TRUE, FALSE)
    /\ UNCHANGED <<client, stream, setting, spoken, timed, shutdown>>

\* api_handle_request or file_serve, up to response_send.
Serve(q) ==
    /\ Parsed(q) /\ ~Malformed(q) /\ AuthCheck(q)
    /\ Go("parse", "send")
    /\ \E r \in Answers(q, missing) : resp' = Sending(r, q, FALSE, WantsKeepAlive(q))
    /\ UNCHANGED <<client, stream, setting, spoken, timed, shutdown>>

\* The answer is written, wholly or in part, and the request cleaned up; nobody
\* looks at what transport_writev returns.
Written(whole) ==
    /\ Go("send", IF resp.stays THEN "again" ELSE "close")
    /\ answers' = Append(answers, IF buf = <<>> THEN 0 ELSE buf[1][1])
    /\ said' = [last |-> resp.last, keep |-> resp.keep, framed |-> resp.framed,
                whole |-> whole]
    /\ resp' = Blank /\ buf' = <<>>
    /\ UNCHANGED <<client, wire, cut, setting, timed>>

Send == Written(TRUE) /\ UNCHANGED shutdown

\* A writev on a blocking socket stops half-way only for a signal, whose handler
\* has run when it returns; transport_write goes on after one.
SendInterrupted ==
    /\ ~tls /\ resp # Blank /\ resp.vector
    /\ Written(FALSE)
    /\ shutdown' = TRUE

\* tls_write takes no more.
SendFails == tls /\ Written(FALSE) /\ UNCHANGED shutdown

AgainUntimed ==                 \* faulty: a client may then be silent for ever
    /\ Go("again", IF shutdown THEN "close" ELSE "read")
    /\ timed' = (said.keep \/ timed)
    /\ UNCHANGED <<client, stream, setting, spoken, resp, shutdown>>

\* transport_set_timeout, and the test of the loop of handle_client.
Again ==
    /\ Go("again", IF shutdown THEN "close" ELSE "read")
    /\ timed' = TRUE
    /\ UNCHANGED <<client, stream, setting, spoken, resp, shutdown>>

Close ==
    /\ Go("close", "closed")
    /\ UNCHANGED <<client, stream, setting, spoken, resp, timed, shutdown>>

-----------------------------------------------------------------------------
(* Everybody else.                                                         *)

\* A signal that interrupts no call of this worker.
Signal ==
    /\ ~shutdown /\ pc # "closed"
    /\ shutdown' = TRUE
    /\ UNCHANGED <<client, stream, setting, spoken, pc, resp, timed>>

Client == End \/ (\E h \in 0 .. MaxHeaders : Ask(h)) \/ (\E k \in 1 .. Len(rest) : Transmit(k))

Reading == \E k \in 1 .. ChunkSize : Read(k)
Answering == pc = "parse" /\ \E q \in Asks : Reject(q) \/ Challenge(q) \/ Serve(q)

Worker ==
    \/ Reading \/ ReadFails \/ InterruptRead
    \/ Answering \/ Send \/ SendInterrupted \/ SendFails \/ Again \/ Close

Next == Client \/ Worker \/ Signal

\* Threads run; a read that has data, an end or a timeout returns; and the client
\* reads what it is sent.
Fairness ==
    /\ WF_vars(Reading) /\ WF_vars(ReadFails /\ wire = <<>>)
    /\ WF_pc(Go("parse", "send"))       \* Answering, of which one is always enabled
    /\ WF_vars(Send \/ Again \/ Close)

Spec == Init /\ [][Next]_vars /\ Fairness

-----------------------------------------------------------------------------
(* Properties *)

TypeOK ==
    /\ asked \in 0 .. MaxRequests /\ ended \in BOOLEAN
    /\ pc \in {"read", "parse", "send", "again", "close", "closed"}
    /\ resp \in Reply \union {Blank} /\ (resp # Blank <=> pc = "send")
    /\ Len(buf) <= BufferSize /\ (pc = "parse" => buf # <<>>)
    /\ timed \in BOOLEAN /\ shutdown \in BOOLEAN /\ tls \in BOOLEAN
    /\ cut \union hasty \union long \subseteq 1 .. asked

\* Client and worker never wait for each other: when the client has sent its
\* requests and the worker waits for more, every request has been answered, but
\* those that came in the same read as the end of the one before.  And that
\* happens only to a client that did not wait for its answers, or whose headers
\* did not fit into the buffer.
NobodyWaits ==
    /\ pc = "read" /\ wire = <<>> /\ rest = <<>> =>
          1 .. asked \subseteq ToSet(answers) \union cut
    /\ cut # {} => hasty # {} \/ long # {}

\* Answers come in the order of the requests, and one for each; what is answered a
\* second time is the rest of a request whose headers did not fit.  An answer to
\* nothing (the 400 after a timeout) comes last.
AnswersInOrder ==
    \A i, j \in DOMAIN answers :
        i < j => /\ answers[i] # 0
                 /\ answers[j] # 0 => \/ answers[i] < answers[j]
                                      \/ answers[i] = answers[j] /\ answers[i] \in long

\* A client that believes what it is told is never out of step: an answer that is
\* cut short, that refuses, or whose body is not what method and length say, is
\* the last on its connection or announces a close.  (With TLS, a write that
\* fails is not noticed.)
LastWords ==
    [][Len(answers') > 1 /\ answers' # answers =>
          /\ ~said.last
          /\ said.whole \/ tls
          /\ said.framed \/ ~said.keep]_vars

\* handle_client goes on after an error page that announced the end of the
\* connection.  A client that has been told so and waits for the end is not waited
\* for in its turn: because a timeout is set after every answer, the worker closes,
\* unless the client sends another request nevertheless.
AnnouncedCloseComes == said # Blank /\ ~said.keep ~> pc \in {"parse", "closed"}

\* What RFC 7233 makes of a range of len bytes: first and last byte, in the wrong
\* order if there are none to send, or <<>> if the header is to be ignored.
Wanted(range, len) ==
    CASE range = <<>> \/ range = <<Blank, Blank>> -> <<>>
      [] Len(range) = 2 /\ range[1] = Blank /\ range[2] # Blank ->
            IF range[2] = Huge \/ range[2] > len THEN <<0, len - 1>>
            ELSE <<len - range[2], len - 1>>
      [] OTHER ->
            IF range[1] = Huge THEN <<len, len - 1>>
            ELSE IF range[2] \in {Blank, Huge} THEN <<range[1], len - 1>>
            ELSE IF range[2] < range[1] THEN <<>>
            ELSE <<range[1], Least(range[2], len - 1)>>

\* An embedded file, and no other, is found in spite of collisions, and a range
\* request gets the bytes that RFC 7233 says, but in these cases: "bytes=-1" counts
\* as no range, so does a first number that overflows; "bytes=-0" and "bytes=-" get
\* all of the file as a part; and an end before the start is refused, not ignored.
FileAsAsked ==
    pc = "parse" => \A q \in Asks :
      q.path[1] = "file" /\ q.method \in {"GET", "HEAD"} /\ ~q.match =>
        LET r == FileServe(q)
            embedded == q.path \in {e[1] : e \in ToSet(vfs_table)}
            wanted == Wanted(q.range, Length(q.path))
            odd == \/ q.range \in {<<Blank, 0>>, <<Blank, 1>>, <<Blank, Blank>>}
                   \/ q.range # <<>> /\ (q.range[1] = Huge \/ q.range = <<Blank, Huge>>)
                   \/ q.range # <<>> /\ wanted = <<>>
        IN  /\ r.status = 404 <=> ~embedded
            /\ embedded /\ ~odd =>
                  CASE r.status = 200 -> wanted = <<>>
                    [] r.status = 206 -> wanted = r.of
                    [] r.status = 416 -> wanted[1] > wanted[2]
            /\ r.status \in {200, 206} => 0 <= r.of[1] /\ r.of[1] <= r.of[2]
                                          /\ r.of[2] < Length(q.path)

\* The bookmarks at an index are those of the database that /api/databases lists
\* at that index, and what is listed can be had by its index, unless a file was
\* missing when the server started (and memory and the file itself permitting).
SameIndexSameFile ==
    pc = "parse" /\ missing = {} => \A q \in Asks :
      q.method = "GET" /\ q.path[1] \in {"bookmarks", "database"} /\ Len(q.path) = 2 =>
        LET listed == DbMeta(missing)
            i == q.path[2]
        IN  \A r \in Answers(q, missing) :
                /\ r.status = 404 <=> i = Blank \/ i \notin 0 .. Len(listed) - 1
                /\ r.status = 200 => r.of = listed[i + 1]

=============================================================================
