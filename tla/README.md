# A TLA+ model of local_marks

local_marks is a bookmark server: a C program (`src/`) that serves a single-page
front end (`front_end/`, embedded at build time) and bookmark databases in JSON
from disk, and a script (`marks2json.py`) that builds those databases from text
files. These modules model the parts whose correctness depends on an order of
events: threads, locks, signals, files that change under a cache, clients that
come and go.

Paths below are relative to the repository (`src/thread_pool.c` is the C file).

## 1. Inventory

| Part | State | Operations | What is hard | What makes it correct |
| --- | --- | --- | --- | --- |
| Thread pool (`thread_pool.c`) | ring buffer of tasks, `head`, `tail`, `count`, `stop`, a mutex, two condition variables | create (may fail half-way), worker loop, submit, destroy | lost wakeups, the full queue, shutdown | every submitted task runs once and in order; nobody sleeps on work or on room; destroy leaves nothing behind and returns |
| Rate limiter (`ratelimit.c`) | open-addressing hash table of counts per address, `used`, time of the last sweep | accept, leave, sweep, grow | sweeps break probe sequences, growth, failing allocations | counts are the open connections; the limit holds; `used` never wraps |
| Bookmark cache (`bookmark_cache.c`) | JSON and mtime of each database, a reader-writer lock | get a copy (fast path, load, reload) | the file changes between stat and read, and while it is read; the lock is not upgraded atomically | nobody copies JSON that another request frees or fills; JSON read while the file was saved is not kept; an edit is seen by the next request |
| Server (`server.c`) | `g_shutdown`, what start-up has made (listener, pool, limiter, caches, TLS context), one job per connection | start-up, accept loop, `handle_client`, signal handler, shutdown, `fail_cleanup` | failures at every call, blocking calls, signals, order of destruction | each descriptor has one owner; accept and leave of the limiter are paired; nothing is used after it is freed; everything is released once; shutdown ends |
| Transport (`transport.c`) | descriptor, TLS context | new, handshake, read, write, writev, close | partial reads and writes, timeouts, EINTR | closed once; an answer that is cut short is the last one |
| HTTP (`http.c`) | request and its raw buffer | read headers, parse line, headers, ranges | framing, pipelining, a full buffer, boundary values | client and worker never wait for each other; answers come in order, one for each request; ranges are what the client asked for |
| Responses, header cache (`response.c`, `header_cache.c`) | date string and its second, under a mutex | build and send a response | second read before the lock; writev result ignored | the date does not go back; client and server agree on keep-alive |
| API and metadata (`api.c`, `databases_meta.c`) | list of databases, built once | four endpoints | indices shared with the cache | the same index names the same file everywhere |
| Static files (`file.c`, `vfs_hash.c`, `mime.c`) | hash table of embedded files, built once | lookup, conditional and range requests | arithmetic of ranges | 206 bodies lie in the file |
| Authentication, logging, command line, error texts (`auth.c`, `log.c`, `main.c`, `error.c`) | the log's mutex | check, log, parse | the log's mutex is not recursive and the signal handler logs | no self-deadlock |
| Front end (`front_end/javascript`) | current data, its database, the pending promise, caches in the browser | routes, loads, favourites, notes | answers out of order, caches not keyed by database, views that paint nothing | what is shown belongs to the selected database |
| Database builder (`marks2json.py`) | categories, bookmarks, domain and tag counters | create, update, override, find-dead | incremental counters, duplicates | counters are what a recount gives; update is idempotent |

How they interact: the main thread accepts a connection, asks the rate limiter,
and submits a job to the pool; a worker runs `handle_client` for the whole life
of the connection, calls HTTP, authentication, the API (which takes a copy from
the bookmark cache) or the static files, answers through the header cache and
the transport, and leaves the rate limiter. Shared state is under one mutex per
part. The signal handler sets a flag, after it has logged.

The hazards this gives rise to, each with its line and the properties that watch
it, are the list `hazards` of `PROJECT.json`.

## 2. Modules

| Module | Models | EXTENDS / INSTANCE |
| --- | --- | --- |
| `FifoExecutor` | what the pool promises: tasks start once, in order, at most `Capacity` wait, and it disappears only when drained | |
| `ThreadPool` | `thread_pool.c` at the granularity of lock, test, wait, signal, store, broadcast, join | `FifoExecutor` by refinement |
| `ThreadPoolProofs` | theorems about `ThreadPool` | `ThreadPool` |
| `Lemmas` | least elements, induction up to a number, values changed n times, probing, pieces of sequences: what the proofs below share | |
| `Limiter` | what the rate limiter promises: a count for each address, which an accept raises and a leave lowers; when it refuses is left open | |
| `RateLimit`, `MCRateLimit` | `ratelimit.c`, each call one step (it runs under one lock) | `Limiter` by refinement |
| `RateLimitProofs` | theorems about `RateLimit` | `RateLimit`, `Lemmas` |
| `BookmarkCache` | one entry of `bookmark_cache.c` and the file behind it | |
| `HeaderCache` | the Date header of `header_cache.c` | |
| `Caches`, `MCCaches` | workers that use both, by one clock; the lengths of the file's contents | `BookmarkCache` extended, `HeaderCache` by INSTANCE |
| `CachesProofs` | theorems about `Caches` | `Caches` |
| `Requests` | what one request gets: parsing, credentials, API, embedded files, answers, as operators | |
| `Connection`, `MCConnection` | one client and the worker that serves it, over a stream | `Requests` |
| `ConnectionProofs` | theorems about `Connection` and the operators of `Requests` | `Connection`, `Lemmas` |
| `FrontEnd` | the router, the data layer and the search box of one browser tab | |
| `FrontEndProofs` | theorems about `FrontEnd` | `FrontEnd` |
| `Marks`, `MCMarks` | `marks2json.py` on one database, a line per step | |
| `MarksProofs` | theorems about `Marks` | `Marks`, `Lemmas` |
| `Server`, `MCServer` | `server.c` from start-up to the last release, with the connection's path through `http.c` and `transport.c` | `FifoExecutor` as its pool, `Limiter` as its limiter |
| `ServerProofs` | theorems about `Server` | `Server` |

`Server` uses the pool through `FifoExecutor`, and `ThreadPoolProofs` proves that
`ThreadPool` implements it: the composition is of the abstract pool, its
correctness rests on the theorem. It uses the limiter in the same way through
`Limiter`, which `RateLimitProofs` proves `RateLimit` to implement, with the count of
an address mapped to what the table counts for it (`Counts`); `CallsAsPromised`
says it call by call. What `Server` does not know of the limiter is when it refuses,
so it may refuse any connection.
`Connection` is what `Server` keeps to `parse`, `auth`, `respond` and `again`: one
connection in full, where `Server` has several with what they share. `Caches` is
what both take for granted in `respond`.

### ThreadPool

`pc[w]` is where worker `w` is in `worker_loop`, `main` where the main thread is
in create, submit or destroy. The mutex is not a variable: it is free when no
thread is at a point between lock and unlock. `lock` is also the return path of
`pthread_cond_wait`. A signal moves one sleeper, any of them, to `lock`, or is
lost; spurious wakeups are steps. A task is its number in the order of
submission, so the ring's contents can be compared with the order of calls.
`stop` is read and written without the lock where the code does.

### RateLimit

`table` is a function on `0 .. size - 1`; `hash` is chosen at the start, so a run
covers every pattern of collisions. `Prepared` is the table after the sweep and
the growth with which `ratelimit_accept` begins, including the growth that could
not be allocated; one action per outcome follows. `Rehash` is the history of the new
table, one old slot after the other (`Reinserted`). `active` counts, as ghost
state, the connections that were accepted and have not left, `Counted` is what the
table counts for an address, as a set with one element for each; `bypassed` collects
the addresses whose counted entry a sweep has cut off from its hash slot (`CutOff`).

### BookmarkCache

A file content is the number of the edit that wrote it; `mtime` is in seconds, so
two edits can share one. `get_cached_bookmark_json_copy` is split at each stat,
at the fopen with the `ftell` that takes the size, at the lock changes, and between
the reads an `fread` is made of (`Read`, any number of bytes at a time). `Length[c]` is
the size of content `c`; a save in place is two edits, a truncation and a growth.
`sized[r]` is the content whose size request `r` took. As many bytes as that are read,
from whatever the file is by then: `json` is the content of the first byte, `last` of the
last one, `json_len` their number. A file that has grown gives a prefix and one that
has changed a mixture, and both are a success; only a file that got shorter is
noticed (`FillFails`). `Whole` says that the JSON is all of one content.

### HeaderCache and Caches

`at[w]` is where worker `w` is in `header_cache_date_copy`: it reads the time
(`now[w]`) before it takes the mutex, and `header_cache_update_date` asks for the
time again inside it. Dates are their seconds. `Caches` runs both caches for the
same workers and with the same clock, which only moves on; a worker is in one of
them at a time, as in `response_send`, which runs after the copy of the bookmarks
was made.

### Requests

The program's read-only part: what the worker computes between the last byte of
the headers and the first byte of the answer depends on the request alone, so it
is written as operators on records, one for each function. `Answers` is a set,
because memory may run out and files may be gone. `RangeStart` and `RangeEnd` do
what `parse_header` does with `strtoll` (glibc's, which saturates and sets
`errno`), `VfsSlots` fills the hash table as `vfs_hash_init` does, one file after the
other (`Inserted`), and `DbMeta` and
`DbCache` are the two lists of databases, which differ when a file was missing at
the start.

### Connection

The stream is a sequence of units of requests. `Read` is one turn of the loop of
`read_headers`, of any size the read may return; where it stops, what came after
the blank line is dropped (`cut`). A request is chosen when its headers end, any of
`Asks`, and answered in one step; `Written` is `transport_writev`, whose result
nobody looks at. `timed` is the receive timeout, set by `Again` after every
answer. Ghosts: `answers` numbers the answers by what they answer, `said` is the
last one, `hasty` the requests sent before the answers to those before them, `long`
those whose headers do not fit into the buffer.

### Server

`main` is start-up, accept loop and shutdown, `obj[o]` what has been made and
released of the five things `server_run` makes, `wpc[w]` is `handle_client` in worker `w`,
`conn[c]` the descriptor of the `c`-th connection. What a client sends is chosen
at the read that returns it; a read that blocks is a step that is not taken. Each
call that can fail has an action for it. A signal is delivered to any thread: it
sets the flag, or interrupts the call the thread is in, or finds it inside
`log_record`, where the handler's own `LOG_INFO` waits for the thread for ever.

### FrontEnd

A step is one task of the event loop with the promise callbacks it runs: an
answer, a hashchange event, a timer, a key or a click. `requests` are the calls of
`fetchBookmarks` under way, first at the server, then (`lookup`) in the browser's
own database; `Continue` is what `renderRoute` does with the answer. `RenderPanel` is
`renderPanel`, which leaves the list as it is when the database has no category
(`Uncategorised`, its `book_Marks` is empty). `panel`,
`index` and `pool` are the copies that the sidebar and panel, the search and the
random page keep; `box`, `searchQuery` and `timer` are three places that remember
a search. `dataPromise` is not a variable: it is only looked at when
`loadedDbIdx` is not the selected database, where the code makes a new request
anyway (`DataIsWhatItSays` gives the reason). `last` and `current` are ghosts that
number the visits. The server's list of databases is taken to stay the same.

### Marks

`mem`, `counts` and `known` are the copy of the database that a command works on
and its `known_bookmarks`; `existing_by_url` is `Old`, the last copy of a URL.
Each way through the loop of `cmd_update` is an action; the file is written by the
last step of a command, sorted. Contents are abstracted to variants, which
carry their tags, so that the counters mean what they do in the code. Sorting is
stated by rank: the place of a bookmark is one more than the number of those that
precede it (`Precedes`, `Place`), which is what any stable sort arrives at.

## 3. What the runs check

| Run | Configuration | Shows |
| --- | --- | --- |
| `pool` | 3 workers, 2 slots, 5 tasks | types, no lost wakeup on either condition variable, drained when it returns, refinement of `FifoExecutor`, every task starts, every submit returns |
| `pool_shutdown` (violation) | 2 workers, 1 slot, 1 task | `thread_pool_destroy`, called with all workers running, need not return |
| `ratelimit` | 3 addresses, hash values 0..2, table 2 growing to 4, limit 2 | counts equal open connections; `used` covers the table; the limit holds for addresses that no sweep has cut off; no unjustified rejection |
| `ratelimit_limit` (violation) | 2 colliding addresses, limit 1 | the limit itself does not hold |
| `cache` | 3 workers in both caches, 3 edits to an empty file (two bytes, truncated, saved with three), seconds 1 and 2 | nobody copies JSON that is being freed or filled; torn JSON is kept, and every stale answer is given, for named causes only; the date never goes back |
| `cache_stale` (violation) | 2 readers, 1 edit, never two edits in one second | an edit during the first load is never seen |
| `connection` | 2 requests of 75 kinds with up to 2 header units, a buffer of 4 units, reads of up to 3, with and without TLS, every set of missing files | client and worker never wait for each other; answers in order, one for each; ranges as RFC 7233 has them; indices of the two lists agree; what is cut short or refused is the last word; a connection whose end was announced ends |
| `server` | start-up with TLS and every failure, 3 connections from 2 addresses, 2 workers, 1 slot, 1 signal | one owner of each descriptor, limiter paired, no use after free, all released once, buffers accounted for, kept-alive connections end after the signal |
| `server_shutdown` (violation) | 1 connection, 1 worker, 1 signal | the accept loop need not end after the signal |
| `frontend` | 2 databases, one of them without a category, 3 visits to pages with data | data is filed under its database; the last visit to a page paints the selected one; all copies agree, and the list with them where there is a category to list; no search results without a query there |
| `marks` | 2 URLs, 2 variants, 2 categories, 3 bookmarks, 3 lines a command | counters are a recount after every line; update adds no copies and loses nothing; override stores one of the lines |
| `marks_override` (violation) | the same, 2 bookmarks | override does not store the last line that differs |

A violation run states what a document or a comment of the repository says, and
TLC's counterexample is what the code does instead; `findings` in `PROJECT.json`
quotes both. The properties of the passing runs are the strongest statement of
the same matter that does hold: `StaleOnlyIfStampLies` next to
`NextRequestSeesEdit`, `LimitUnlessBypassed` next to `PerIpLimit`,
`OverrideTakesALine` next to `OverrideTakesTheLine`.

Some properties of the passing runs hold only because they name their exceptions,
and the exceptions are what the code does:

- `BuffersAccounted`: the buffer of a request that ends in a 401 or in a bad request
  line is never freed (`server.c:106` breaks past `http_request_cleanup`).
- `ReleasedOnce`: the TLS context is destroyed twice when the certificate or the
  key cannot be loaded (`server.c:470`), before any connection was accepted.
- `NobodyWaits`: of pipelined requests those are lost that came in one read with
  the end of the one before (`http.c:82`).
- `AnswersInOrder`: a request whose headers do not fit is answered, and what is left
  of it is taken for another request.
- `LastWords`: with TLS, a write that fails is not noticed, and the connection goes
  on.
- `AnnouncedCloseComes`: an error page announces `Connection: close`, but
  `handle_client` stays for the timeout, and a client that keeps sending can keep
  its connection.
- `TornIsNotKept`: the request that reads the file while it is saved is given what it
  read, a prefix or a mixture (`bookmark_cache.c:63`). Others get it as well when it was
  a first load, which stamps the JSON with the time of the save (`bookmark_cache.c:136`),
  when the file cannot be stat'ed (`bookmark_cache.c:143`), and when the last two edits
  of the save fall in one second, as they mostly do in the in-place save of
  `marks2json.py:459`: then the stamp may be the final one, and the torn JSON stays until
  the next save.
- `StaleOnlyIfStampLies`: the same three causes.
- `CopiesAgree`, `ResultsNeedAQuery`: for a database without a category `renderPanel`
  returns before it paints (`panel.js:39-41`), so the cards of the database before it
  stay on screen, or search results under a box that was emptied, or the message that
  a database could not be loaded.
- `LatestVisitPaintsSelected`: the answer to an older visit still paints its page
  (`main.js:242`), with the wrong database if another one was selected since. The
  property says that nothing else does.
- `KeepAliveYields`: a thread that the signal finds inside `log_record` waits for itself
  for ever (`server.c:38`), and so may all others.
- `UpdateAddsNoCopies`: speaks of the copies an update makes. `create` keeps every line,
  so copies made by it stay, although `DEV.md:447` says that duplicate URLs within a
  category are removed.
- `DestroyReturns`, which is violated, is about `thread_pool_destroy`; a create that
  fails stores `stop` in the same way (`thread_pool.c:91-97`) and has the same race.
- `FileAsAsked`: `bytes=-1` counts as no range, `bytes=-0` and `bytes=-` as all of
  the file, an end before the start is refused where the RFC ignores the header.
- `SameIndexSameFile`: stated for a start with all files there; with one missing,
  `/api/databases` and `/bookmarks/N.json` number the rest differently.

### Bounds, and why they are enough

- Pool: five tasks in two slots make `tail` and `head` wrap twice; three workers
  are one more than there are slots, so that workers sleep, are signalled and
  find the queue emptied by another. The theorems remove all three bounds.
- Rate limiter: a table of two grows once, `MaxSize` makes the next growth fail as
  a malloc would, and three addresses overfill it. Two addresses with a longer
  clock, and three with two hash values and a longer clock, pass as well. The
  theorems remove all these bounds, for every hash function.
- Cache: three edits are a file that is written and then saved in place, by a truncation
  and a growth, each of which may come during a load or a reload; contents of two and
  three bytes can be read in one piece, split, or cut to a prefix. A third reader waits
  for the lock with both others in it. One tick is
  enough for a worker that waits for the mutex with the older second. The theorems
  remove all these bounds.
- Connection: a request without headers (3 units) fits into the buffer, one with a
  header fills it to the last unit, one with two does not fit; reads of 1 to 3 units
  split the blank line everywhere and take the end of one request with the start of
  the next. Two requests are a pair to pipeline; what a third does after the second
  is what the second does after the first. The requests try every branch of
  `Requests`, the ranges all combinations of blank, huge and the numbers up to
  one past a file of three bytes. The theorems remove the bounds on requests, header
  units, buffer and reads, and on what the files, their hashes and their lengths are.
- Server: three connections put one in a worker, one in the slot and one in the
  main thread's hands. Two signals, with more states, pass as well. The theorems
  remove these bounds.
- Front end: a late answer needs two requests for two databases, and a visit that
  is painted without a request a third. One database without a category and one with
  them are every pair in which the list can be left behind; three databases pass as well.
- Marks: a database of three holds a URL twice beside another one; three lines
  are a replacement, a repetition and one more. The theorems remove these bounds.

Deadlock is checked for `pool` (whose end is an explicit stuttering step), for
`cache` and for the two runs of `Marks`. It is not in `ratelimit`, where the bounded
clock and the absence of callers may end a behaviour, in `frontend`, where the
visits run out, in `connection`, which stops when the connection is closed, nor in
`server`, which stops when shutdown is over and when its main thread waits for
itself in the signal handler.

### Fairness

Weak fairness of each thread's own steps, which any scheduler with time slices
gives, and strong fairness only where `ThreadPool` says so (`Fairness` there: a
thread that waits for a mutex that is released again and again gets it in the
end). In `Server`: no fairness for clients, handshakes, failures, signals, reads
without a timeout or writes to a client that stalls; none for the end of the
pool, because `pool_shutdown` shows it is not certain; none for any thread once
one is stuck with the log's mutex. `EveryTaskStarts` and `SubmitReturns` assume that
every task returns (weak fairness of `Finish`), which the pool cannot see to and the
server does not guarantee: the first read of `handle_client` has no timeout, because it
is set only after an answer (`server.c:131`), so a client that sends nothing keeps its
worker, and as many such clients as there are workers stop the pool. In `Connection`: the worker runs, a read that has
data, an end of stream or a timeout returns, and the client reads what it is sent;
none for anything the client sends, nor for signals and failures.

## 4. What is proved

`ThreadPoolProofs` proves, for every number of threads, capacity and number of
tasks (`PoolAssumption`):

- `PoolInvariant`: `Spec => []IndInv`. `IndInv` is the conjunction of the type
  invariant, mutual exclusion (`MutexInv`), what the main thread's place implies
  (`MainInv`), what a worker's place implies (`WorkerInv`) and the ring
  (`RingInv`: the slots from `head` on hold the tasks submitted and not taken, in
  order, and `count` of them). None of these is inductive alone: `count <=
  Capacity` needs the producer to be past its test with the lock held, the ring
  needs `count <= Capacity`, and the end of a worker needs `stop`.
- `PoolTypeOK`, `PoolProducerSleeps`, `PoolDrained`: consequences of it.
- `PoolWorkConserving`: while a worker sleeps on `not_empty`, at least as many
  workers are about to look at the queue as tasks wait. Its own induction, with
  `IndInv` as a lemma: a put adds a task and a signal takes a sleeper, a taken
  task takes the worker with it.
- `PoolImplementsExecutor`: every step of `ThreadPool` is a step of `FifoExecutor`
  or leaves it unchanged (`StepRefines`), by the invariant's ring.

`FrontEndProofs` proves, for every set of databases, any of them without a category,
and any number of visits (`FrontEndAssumption`), all five properties of the run `frontend`:

- `FrontEndInvariant`: `Spec => []FrontEndInv`. Of its parts `LatestVisitPaintsSelected`
  is the one that is far from inductive. It needs to know of every request still
  under way that it is of an older visit, or for the selected database, or that its
  page is about to be visited again or was left (`LateAnswers`, with `Moved` for the
  last case); that a selection can only be made where this is so (`Routed`: when no
  event is queued the screen shows what the address says, and the selector is not
  `#browse`); and that nothing is asked for before the first selection
  (`Unselected`). That a new visit has a number no request has is
  `VisitsIsMaximum`.
- `FrontEndTypeOK`, `FrontEndDataIsWhatItSays`, `FrontEndPaintsSelected`,
  `FrontEndCopiesAgree` and `FrontEndResultsNeedAQuery` are consequences of it. The last
  two are about the list on screen as far as `renderPanel` paints it (`Rendered`: it
  shows the panel's database, or that has no category and the list is what it was).

`CachesProofs` proves all four properties of the run `cache` for every number of
workers, edits and seconds and any lengths of the contents (`CacheAssumption`), from `CachesInv`, which says of the
two caches (`EntryInv`, `DateInv`) and of their composition (`Apart`):

- `TornJsonIsNotKept` needs the exclusion that the lock gives (`Exclusion`), what the
  buffer holds at each place of a load (`Buffers`), and that JSON that is torn, without
  one of the causes, has a stamp older than its last byte (`Stamped`): then the next
  stat finds another mtime and the JSON is read again.
- `StaleOnlyThen` needs that contents and their times only get newer (`History`), and
  that a stamp is not newer than the JSON it goes with unless a first load was
  overtaken (`Stamped`): then a stat that agrees means a JSON of the same second
  (`AgreedWillDo`), for whoever asks.
- `DatesForward` needs that `last_update` is not ahead of the cached date, although
  it may go back: a worker that leaves the date as it is has read a second that is
  not later than it.

`ServerProofs` proves the six safety properties of the run `server` for every number
of workers, slots, connections, addresses and signals (`ServerAssumption`), from
`ServerInv`:

- `JobInv`: tasks are connections in the order in which they were accepted, so no
  connection is two tasks; with `TaskInv` (no task is two workers') the three owners
  of a descriptor, the main thread, the queue and the workers, are disjoint.
- `OpenInv`: the open descriptors are those these three hold. With their
  disjointness, `ServerOneOwner` follows by counting (`DisjointUnion`,
  `OwnersCounted`).
- `PhaseInv` and `ObjInv`: how far the pool's end is, and what has been made and
  released, at each place of the main thread on every path through start-up,
  shutdown and `fail_cleanup`. `ServerNoUseAfterFree` needs that a pool that is gone
  has no running worker, `ServerReleasedOnce` that only the context after a failed
  certificate is released a second time, when nobody was served.
- `CountInv`: what the limiter counts for an address is the number of its
  connections between `admit` and the worker's `leave`.
- `BufferInv`: the buffers in use are those of requests parsed, and of requests
  rejected, whose buffer nobody frees.

The steps are proved in groups with an effect in common: those that make or release
(`Makes`), that only move the main thread (`Moves`), that drop the connection in hand
(`Drops`), and that stay inside one worker's request (`Inner`).

`RateLimitProofs` proves all five properties of the run `ratelimit` for any addresses,
hash function, limit and sizes (`RateLimitAssumption`), from `RateLimitInv`, which is
the type invariant and `Right`:

- `Sound`: no count is over the limit, and a slot without an address counts nothing.
- `used` is at least the number of slots with an address (`Named`), which a growth
  can only make fewer; from it `RateLimitUsedCoversTable`.
- For each address the connections are the number of elements of `Counted`; from it
  `RateLimitCountsAreConnections`.
- `Foremost`: the entry that counts an address that was not bypassed is what a probe
  for the address finds. Without it a second entry could not be excluded, and
  `RateLimitLimitUnlessBypassed` would not follow: then all of `Counted` is in one slot.

With the table's counts equal to the connections, each call is a step of `Limiter`:
`RateLimitCallsAsPromised` says which (an accept is `Admit`, a refusal of any kind
`Refuse`, a leave `Leave`), `RateLimitImplementsLimiter` that this is all the table does.

A sweep, a change of one count up or down and the use of an empty slot each keep
`Right`. A growth keeps it by induction over the old slots: the new table counts what
the old one does in the slots reinserted so far, and every entry is put where a
probe for it ends. That a probe reaches every slot once (`ProbeIsBijection`) is
arithmetic modulo the size (`ProbesMeetAll`).

`ConnectionProofs` proves the six safety properties of the run `connection` for every
set of requests, every tree of embedded files, any bookmark files and any size of the
buffer and the reads (`ConnectionAssumption`, `RequestsAssumption`):

- `ConnectionLastWords`: `SpokenInv` says what is known of the answer before at each
  place of the loop, and `AnswersFramed` that of all answers only an error page to a
  HEAD, which announces the end of the connection, has a body its length and the method
  do not announce.
- `ConnectionStreamInv`: `Spec => []StreamInv`, from which `ConnectionTypeOK`,
  `ConnectionAnswersInOrder` and `ConnectionNobodyWaits` follow. What lies in the buffer,
  on the wire and before the client is a piece of what the client says, in the order it
  says it (`InPieces`), but for what a blank line has cut out between the buffer and the
  rest; an answer is to an earlier request than all that is still to come (`InOrder`); and
  every request is answered, among those cut, or its blank line is still ahead
  (`Accounted`). None is inductive without the others: an answer is the next in order
  only because the buffer holds one request and the stream goes on behind it, and no
  request is forgotten only because what is read is a whole piece.
- `ConnectionFileAsAsked`: the hash table holds the files and nothing else, each where
  a probe for it gets (`Holds`, by induction over the files that `vfs_hash_init`
  inserts), so a lookup finds the file of that path or none (`VfsLookupFinds`); and the
  slice that is cut lies in the file (`SliceInFile`) and is the one RFC 7233 wants
  (`SliceAsWanted`).
- `ConnectionSameIndexSameFile`: with no file missing the list of metadata is the list of
  files (`NothingMissing`), and the index is tested against the one and used on the other.

`MarksProofs` proves all five properties of the run `marks` for any categories, URLs,
variants with any tags, and any number of bookmarks and lines (`MarksAssumption`), from
`MarksInv`:

- `MarksCountersAreRecount`: a recount is, for each label, the number of places in the
  bookmarks that count for it (`RecountIsPlaces`). A set of places does not know an
  order, so sorting keeps it (`RecountSorted`, by the bijection between positions and
  ranks), an appended bookmark adds its own (`RecountAppend`), and a replaced one takes
  its own away, never below zero, before the new one adds its (`RecountReplaced`).
- `MarksUpdateAddsNoCopies` and `MarksUpdateKeeps` are inductive with the types; they need
  that `Old` is the last copy and zero only without one (`LastCopyIsLast`).
- `MarksOverrideTakesALine` is not inductive: a line that is passed over as known leaves
  in place whatever is stored. `ReadOrKnown` says what that is: every key in `known`, and
  every line read, is of a URL that is stored as this key or line says or as some line
  read for that URL says.
- `Idling`: between commands the working copy is empty and counts nothing, so that
  `create` starts from a recount.

What folds and recursions compute is proved by induction in the form of sets, because the
library's induction theorems take operators as parameters: a set of numbers that holds 0
and with k - 1 also k, holds all up to n (`UpTo`, from the least element of its
complement), and a value that is changed n times has a history (`Iteration`), which is
what the recursive functions of the models define.

Only model-checked: liveness (`EveryTaskStarts`, `SubmitReturns`,
`KeepAliveYields`, `AnnouncedCloseComes`, and the violated `DestroyReturns` and
`AcceptLoopBreaks`), which is beyond the prover; and the violations, which are
counterexamples. Every safety property of a passing run is stated by a theorem. That
`RateLimit` implements `Limiter` is stated by theorems only; the run `ratelimit` checks
the fact it rests on, `CountsAreConnections`.

## 5. What is not modelled

- The command line and the error texts (`main.c`, `error.c`); `open_browser` and
  `peer_addr` of `server.c`, which change nothing that the rest reads.
- The contents of messages, JSON, HTML and log lines; MIME types, gzip and other
  headers that only add lines; Base64 and %-escapes but for what they decode to. (A
  NUL byte in a decoded path only ends it: the test for one compares the length of
  a string with itself.)
- The kernel's buffers: a write that would block is a step that is not taken; what
  the client does not get because the server closes with unread data; a client that
  has gone, whose answers nobody sees. TLS records, but for a read that finds no
  plaintext.
- A wall clock that is set back; a C library other than glibc.
- The views of the front end, as far as they only build DOM nodes; the header,
  favourites, notes (which the browser does not file under a database), theme and
  layout; a second tab on the same browser storage; the random page before the
  first visit to `#browse`.
- A crash of `marks2json.py` while it writes (`marks2json.py:459`): its write is one step.
- The claim of `README.md:285` that the front end's stale cache is returned immediately
  and refreshed in the background: `fetchBookmarks` asks the server first and looks at
  the cache only when that fails (`data.js:139-157`). The model does what the code does,
  and no property speaks of the claim.
- The icon service and the link check of `marks2json.py`: any outcome is possible.

## 6. Plan

What the plan has left:

1. `Connection` as the refinement of one worker's part of `Server`.
2. In the front end, the caches of notes and favourites in the browser, which are
   shared by all tabs and not filed under a database.
