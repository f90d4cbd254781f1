------------------------------- MODULE Server -------------------------------
(***************************************************************************)
(* src/server.c: start-up, accept loop and shutdown in the main thread,     *)
(* the life of one connection in a worker (handle_client), and signals,    *)
(* composed with the thread pool.                                          *)
(*                                                                         *)
(* The pool is the abstract FifoExecutor, which ThreadPool.tla is shown to *)
(* implement: task k of it is the job jobs[k].  The rate limiter is the    *)
(* abstract Limiter, which RateLimit.tla is shown to implement.  A read or *)
(* a write on a socket that does not return is a step that is not taken.   *)
(***************************************************************************)
EXTENDS Naturals, Sequences, FiniteSets

CONSTANTS Workers, Capacity, None,  \* the pool
          MaxClients,  \* bound of the model: connections that are made
          IPs, IpOf,   \* IpOf[c]: the peer address of connection c
          Stalling,    \* the clients that may stop reading what they are sent
          Tls,         \* are there a certificate and a key?
          MaxSignals   \* bound of the model: number of signals

\* Connection c is the c-th that accept returns.
Clients == 1 .. MaxClients

ASSUME ServerAssumption ==
    /\ MaxClients \in Nat
    /\ IpOf \in [Clients -> IPs]
    /\ Stalling \subseteq Clients
    /\ Tls \in BOOLEAN
    /\ MaxSignals \in Nat
    /\ "main" \notin Workers /\ None \notin Clients

VARIABLES submitted, started, current, phase,  \* the pool
          jobs,      \* jobs[k]: the connection of task k
          conn,      \* conn[c]: "away" (not accepted yet), "open", "closed"
          timed,     \* the connections with a receive timeout
          main,      \* where the main thread is
          cfd,       \* the connection it is about to hand over, or None
          wpc,       \* wpc[w]: where worker w is in handle_client
          counted,   \* counted[ip]: what the rate limiter counts
          obj,       \* obj[o]: "none", "live", "gone" or released "twice"
          buffers,   \* HttpRequest.raw buffers allocated and not freed
          rejected,  \* connections ended by a 401 or by a bad request line
          shutdown,  \* g_shutdown
          stuck,     \* threads waiting in the signal handler for a lock they hold
          signals

pool    == <<submitted, started, current, phase>>
peer    == <<conn, timed>>
worker  == <<wpc, buffers, rejected>>
sig     == <<shutdown, stuck, signals>>
objects == <<counted, obj>>
vars    == <<pool, jobs, peer, main, cfd, worker, objects, sig>>

Pool == INSTANCE FifoExecutor
Lim  == INSTANCE Limiter

Job(w) == jobs[current[w]]
Waiting == {jobs[k] : k \in started + 1 .. submitted}
Running == {w \in Workers : current[w] # None}

\* What server_run makes and has to release.  The limiter is optional.
Objects == {"listener", "pool", "limiter", "caches", "tls"}
Limited == obj["limiter"] # "none"

Init ==
    /\ Pool!Init
    /\ jobs = <<>>
    /\ conn = [c \in Clients |-> "away"]
    /\ timed = {}
    /\ main = "listen" /\ cfd = None
    /\ wpc = [w \in Workers |-> "idle"]
    /\ Lim!Init
    /\ obj = [o \in Objects |-> "none"]
    /\ buffers = 0 /\ rejected = {}
    /\ shutdown = FALSE /\ stuck = {} /\ signals = 0

-----------------------------------------------------------------------------
Main(from, to) == main = from /\ main' = to /\ "main" \notin stuck

(* Start-up.  A failure of the first two steps returns at once, a later one *)
(* goes to fail_cleanup, which releases things in the order of shutdown.   *)

Make(from, to, o) ==
    /\ Main(from, to)
    /\ obj' = [obj EXCEPT ![o] = "live"]
    /\ UNCHANGED <<pool, jobs, peer, cfd, worker, counted, sig>>

\* Releasing what is released already is undefined; the case in which the
\* program goes on is this one, the other is DestroyContextCrashes.
Release(from, to, o) ==
    /\ Main(from, to)
    /\ obj' = [obj EXCEPT ![o] = CASE @ = "none" -> "none"
                                   [] @ = "live" -> "gone"
                                   [] OTHER -> "twice"]
    /\ UNCHANGED <<pool, jobs, peer, cfd, worker, counted, sig>>

\* make_listener closes the socket that it cannot bind or listen on.
ListenFails ==
    /\ Main("listen", "done")
    /\ UNCHANGED <<pool, jobs, peer, cfd, worker, objects, sig>>

Listen == Make("listen", "pool", "listener")

CreatePoolLeaks ==              \* faulty: returns without close(lfd)
    /\ Main("pool", "done")
    /\ UNCHANGED <<pool, jobs, peer, cfd, worker, objects, sig>>

CreatePoolFails == Release("pool", "done", "listener")

CreatePool == Make("pool", "limiter", "pool")

\* No limit asked for, or no memory for the limiter: the server runs without.
NoLimiter ==
    /\ Main("limiter", "register")
    /\ UNCHANGED <<pool, jobs, peer, cfd, worker, objects, sig>>

CreateLimiter == Make("limiter", "register", "limiter")

\* populate_db_meta_all, bookmark_cache_init and bookmark_cache_add_db.
Register == Make("register", IF Tls THEN "context" ELSE "loop", "caches")

CreateContext == Make("context", "certificate", "tls")

CreateContextFails ==
    /\ Main("context", "close")
    /\ UNCHANGED <<pool, jobs, peer, cfd, worker, objects, sig>>

LoadPem(from, to) ==
    /\ Main(from, to)
    /\ UNCHANGED <<pool, jobs, peer, cfd, worker, objects, sig>>

LoadPems == LoadPem("certificate", "key") \/ LoadPem("key", "loop")

\* The file cannot be read or is not what it should be: the context is
\* destroyed here, and tls_master still points to it in fail_cleanup.
LoadPemFails == Release("certificate", "close", "tls") \/ Release("key", "close", "tls")

-----------------------------------------------------------------------------
(* The accept loop.                                                        *)

LoopTest ==
    /\ Main("loop", IF shutdown THEN "close" ELSE "accept")
    /\ UNCHANGED <<pool, jobs, peer, cfd, worker, objects, sig>>

\* A client has connected; accept blocks until one does.
Accept(c) ==
    /\ Main("accept", "check")
    /\ {d \in Clients : conn[d] = "away"} = c .. MaxClients
    /\ conn' = [conn EXCEPT ![c] = "open"]
    /\ cfd' = c
    /\ UNCHANGED <<pool, jobs, timed, worker, objects, sig>>

\* accept fails with something else than EINTR.
AcceptFails ==
    /\ Main("accept", IF shutdown THEN "close" ELSE "loop")
    /\ UNCHANGED <<pool, jobs, peer, cfd, worker, objects, sig>>

\* close(cfd) or transport_destroy(&t), then continue or break.
GiveUp(from, to) ==
    /\ Main(from, to)
    /\ conn' = [conn EXCEPT ![cfd] = "closed"]
    /\ cfd' = None
    /\ UNCHANGED <<pool, jobs, timed, worker, objects, sig>>

CheckShutdownNoClose ==         \* faulty: leaves without closing cfd
    /\ shutdown
    /\ Main("check", "close")
    /\ cfd' = None
    /\ UNCHANGED <<pool, jobs, peer, worker, objects, sig>>

CheckShutdown == shutdown /\ GiveUp("check", "close")

TransportFails == ~shutdown /\ GiveUp("check", "loop")

TransportNew ==
    /\ ~shutdown
    /\ Main("check", IF Tls THEN "handshake" ELSE "admit")
    /\ UNCHANGED <<pool, jobs, peer, cfd, worker, objects, sig>>

\* The handshake reads from the client, with no timeout, in the main thread.
HandshakeDone ==
    /\ Main("handshake", "admit")
    /\ UNCHANGED <<pool, jobs, peer, cfd, worker, objects, sig>>

HandshakeFails == GiveUp("handshake", "loop")

\* malloc of the job fails.
JobFails == GiveUp("admit", "loop")

Admit ==
    /\ Main("admit", "submit")
    /\ IF Limited THEN Lim!Admit(IpOf[cfd]) ELSE UNCHANGED counted
    /\ UNCHANGED <<pool, jobs, peer, cfd, worker, obj, sig>>

\* 429: the limiter did not count it, so nothing is uncounted.
RejectUncounts ==               \* faulty: leaves what it did not enter
    /\ Limited
    /\ Main("admit", "loop")
    /\ counted' = [counted EXCEPT ![IpOf[cfd]] = @ - 1]
    /\ conn' = [conn EXCEPT ![cfd] = "closed"]
    /\ cfd' = None
    /\ UNCHANGED <<pool, jobs, timed, worker, obj, sig>>

Reject == Limited /\ Lim!Refuse(IpOf[cfd]) /\ GiveUp("admit", "loop")

\* thread_pool_submit; it blocks while the pool is full.
Submit ==
    /\ Main("submit", "loop")
    /\ Pool!Submit
    /\ jobs' = Append(jobs, cfd)
    /\ cfd' = None
    /\ UNCHANGED <<peer, worker, objects, sig>>

-----------------------------------------------------------------------------
(* Shutdown, and fail_cleanup: the same things in the same order.          *)
CloseListener == Release("close", "destroy", "listener")

DestroyPool ==
    /\ Main("destroy", "join")
    /\ Pool!Close
    /\ UNCHANGED <<jobs, peer, cfd, worker, objects, sig>>

JoinNobody ==                   \* faulty: does not wait for the workers
    /\ Main("join", "limit")
    /\ obj' = [obj EXCEPT !["pool"] = "gone"]
    /\ UNCHANGED <<pool, jobs, peer, cfd, worker, counted, sig>>

Joined ==
    /\ Main("join", "limit")
    /\ Pool!Vanish
    /\ obj' = [obj EXCEPT !["pool"] = "gone"]
    /\ UNCHANGED <<jobs, peer, cfd, worker, counted, sig>>

DestroyLimiter == Release("limit", "untls", "limiter")

DestroyContext == Release("untls", "clean", "tls")

DestroyContextCrashes == obj["tls"] = "gone" /\ Release("untls", "crashed", "tls")

CleanupCaches == Release("clean", "done", "caches")

-----------------------------------------------------------------------------
(* handle_client in worker w.                                              *)
Work(w, from, to) == wpc[w] = from /\ wpc' = [wpc EXCEPT ![w] = to] /\ w \notin stuck

Take(w) ==
    /\ Work(w, "idle", "parse")
    /\ Pool!Start(w)
    /\ UNCHANGED <<jobs, peer, main, cfd, buffers, rejected, objects, sig>>

\* http_parse_request fails and gives its buffer back: no memory for one, the
\* end of the stream, or EAGAIN after the receive timeout.  The answer is a 400.
ReadFails(w) ==
    /\ Work(w, "parse", "leave")
    /\ UNCHANGED <<pool, jobs, peer, main, cfd, buffers, rejected, objects, sig>>

ReadRequest(w) ==
    /\ Work(w, "parse", "auth")
    /\ buffers' = buffers + 1
    /\ UNCHANGED <<pool, jobs, peer, main, cfd, rejected, objects, sig>>

\* A bad request line: a 400, and the buffer stays allocated.
ReadBadLine(w) ==
    /\ Work(w, "parse", "leave")
    /\ buffers' = buffers + 1
    /\ rejected' = rejected \union {Job(w)}
    /\ UNCHANGED <<pool, jobs, peer, main, cfd, objects, sig>>

AuthFailsUnlimited(w) ==        \* faulty: returns past ratelimit_leave
    /\ Work(w, "auth", "close")
    /\ rejected' = rejected \union {Job(w)}
    /\ UNCHANGED <<pool, jobs, peer, main, cfd, buffers, objects, sig>>

\* The 401 breaks out of the loop past http_request_cleanup.
AuthFails(w) ==
    /\ Work(w, "auth", "leave")
    /\ rejected' = rejected \union {Job(w)}
    /\ UNCHANGED <<pool, jobs, peer, main, cfd, buffers, objects, sig>>

\* No credentials asked for, or the right ones.
AuthOk(w) ==
    /\ Work(w, "auth", "respond")
    /\ UNCHANGED <<pool, jobs, peer, main, cfd, buffers, rejected, objects, sig>>

\* api_handle_request or file_serve, which use the caches, then the cleanup.
\* What wants_keep_alive made of the request's headers decides what follows.
RespondLast(w) ==
    /\ Work(w, "respond", "leave")
    /\ buffers' = buffers - 1
    /\ UNCHANGED <<pool, jobs, peer, main, cfd, rejected, objects, sig>>

RespondKeepLeaks(w) ==          \* faulty: goes on without http_request_cleanup
    /\ Work(w, "respond", "again")
    /\ timed' = timed \union {Job(w)}
    /\ UNCHANGED <<pool, jobs, conn, main, cfd, buffers, rejected, objects, sig>>

RespondKeep(w) ==
    /\ Work(w, "respond", "again")
    /\ buffers' = buffers - 1
    /\ timed' = timed \union {Job(w)}
    /\ UNCHANGED <<pool, jobs, conn, main, cfd, rejected, objects, sig>>

AgainForever(w) ==              \* faulty: does not look at g_shutdown
    /\ Work(w, "again", "parse")
    /\ UNCHANGED <<pool, jobs, peer, main, cfd, buffers, rejected, objects, sig>>

Again(w) ==
    /\ Work(w, "again", IF shutdown THEN "leave" ELSE "parse")
    /\ UNCHANGED <<pool, jobs, peer, main, cfd, buffers, rejected, objects, sig>>

LeaveLimiter(w) ==
    /\ Work(w, "leave", "close")
    /\ IF Limited THEN Lim!Leave(IpOf[Job(w)]) ELSE UNCHANGED counted
    /\ UNCHANGED <<pool, jobs, peer, main, cfd, buffers, rejected, obj, sig>>

\* transport_destroy and free(job): the task is over.
CloseClient(w) ==
    /\ Work(w, "close", "idle")
    /\ conn' = [conn EXCEPT ![Job(w)] = "closed"]
    /\ Pool!Finish(w)
    /\ UNCHANGED <<jobs, timed, main, cfd, buffers, rejected, objects, sig>>

-----------------------------------------------------------------------------
(* Signals: SIGINT or SIGTERM, from the moment server_run has installed the *)
(* handler, delivered to any one thread.  The server stops for good when   *)
(* shutdown is over, or when the main thread is stuck.                     *)

Threads == Workers \union {"main"}

Delivered(t) ==
    /\ signals < MaxSignals /\ t \notin stuck /\ main \notin {"done", "crashed"}
    /\ signals' = signals + 1

\* The flag is all that changes when no call of t is interrupted: t is not in
\* one, or is just before one.
Signal(t) ==
    /\ Delivered(t)
    /\ shutdown' = TRUE
    /\ UNCHANGED <<pool, jobs, peer, main, cfd, worker, objects, stuck>>

\* accept returns EINTR and is tried again, after a look at the flag.
InterruptAccept ==
    /\ Delivered("main")
    /\ shutdown' = TRUE
    /\ Main("accept", "loop")
    /\ UNCHANGED <<pool, jobs, peer, cfd, worker, objects, stuck>>

\* A read that is interrupted has failed.
InterruptHandshake ==
    /\ Delivered("main")
    /\ shutdown' = TRUE
    /\ Main("handshake", "loop")
    /\ conn' = [conn EXCEPT ![cfd] = "closed"]
    /\ cfd' = None
    /\ UNCHANGED <<pool, jobs, timed, worker, objects, stuck>>

InterruptRead(w) ==
    /\ Delivered(w)
    /\ shutdown' = TRUE
    /\ Work(w, "parse", "leave")
    /\ UNCHANGED <<pool, jobs, peer, main, cfd, buffers, rejected, objects, stuck>>

\* handle_signal logs first: a thread that was in log_record waits for itself.
MayLog(t) ==
    IF t = "main" THEN main \notin {"accept", "handshake", "submit", "join"}
    ELSE wpc[t] \notin {"idle", "parse"}

SignalWhileLogging(t) ==
    /\ Delivered(t)
    /\ MayLog(t)
    /\ stuck' = stuck \union {t}
    /\ UNCHANGED <<pool, jobs, peer, main, cfd, worker, objects, shutdown>>

-----------------------------------------------------------------------------
Read(w)    == ReadFails(w) \/ ReadRequest(w) \/ ReadBadLine(w)
Respond(w) == RespondLast(w) \/ RespondKeep(w)
Handle(w)  == AuthOk(w) \/ Again(w) \/ LeaveLimiter(w) \/ CloseClient(w)

WorkerStep(w) == Take(w) \/ Read(w) \/ AuthFails(w) \/ Respond(w) \/ Handle(w)

StartUp ==
    \/ Listen \/ CreatePool \/ NoLimiter \/ CreateLimiter \/ Register
    \/ CreateContext \/ LoadPems

StartUpFails ==
    \/ ListenFails \/ CreatePoolFails \/ CreateContextFails \/ LoadPemFails
    \/ DestroyContextCrashes

Loop ==
    \/ LoopTest \/ (\E c \in Clients : Accept(c))
    \/ CheckShutdown \/ TransportNew \/ Admit \/ Submit
    \/ CloseListener \/ DestroyPool
    \/ DestroyLimiter \/ DestroyContext \/ CleanupCaches

MainStep ==
    \/ StartUp \/ StartUpFails
    \/ Loop \/ Joined \/ AcceptFails \/ TransportFails
    \/ HandshakeDone \/ HandshakeFails \/ JobFails \/ Reject

Next ==
    \/ MainStep
    \/ \E w \in Workers : WorkerStep(w)
    \/ \E t \in Threads : Signal(t) \/ SignalWhileLogging(t)
    \/ InterruptAccept \/ InterruptHandshake \/ \E w \in Workers : InterruptRead(w)

\* The scheduler runs every thread, unless the log is locked for good.  A read
\* returns if it has a timeout.  A response to a client that stalls, a handshake
\* and a failing call need not happen; nor need a client do anything.  Nor is the
\* end of the pool promised: thread_pool_destroy can miss a worker (DestroyReturns
\* in ThreadPool.tla).
Fairness ==
    /\ WF_vars(stuck = {} /\ (StartUp \/ Loop))
    /\ \A w \in Workers :
          /\ WF_vars(stuck = {} /\ Handle(w))
          /\ WF_vars(stuck = {} /\ Read(w) /\ Job(w) \in timed)
          /\ WF_vars(stuck = {} /\ Respond(w) /\ Job(w) \notin Stalling)

Spec == Init /\ [][Next]_vars /\ Fairness

-----------------------------------------------------------------------------
(* Properties *)

Serving == {Job(w) : w \in Running}
Handed  == IF cfd = None THEN {} ELSE {cfd}

TypeOK ==
    /\ phase \in {"open", "closing", "gone"}
    /\ jobs \in Seq(Clients) /\ Len(jobs) = submitted
    /\ conn \in [Clients -> {"away", "open", "closed"}]
    /\ timed \subseteq Clients /\ rejected \subseteq Clients
    /\ main \in {"listen", "pool", "limiter", "register", "context", "certificate",
                 "key", "loop", "accept", "check", "handshake", "admit", "submit",
                 "close", "destroy", "join", "limit", "untls",
                 "clean", "done", "crashed"}
    /\ cfd \in Clients \union {None}
    /\ wpc \in [Workers -> {"idle", "parse", "auth", "respond", "again", "leave", "close"}]
    /\ counted \in [IPs -> Nat]
    /\ obj \in [Objects -> {"none", "live", "gone", "twice"}]
    /\ buffers \in Nat
    /\ shutdown \in BOOLEAN /\ stuck \subseteq Threads /\ signals \in 0 .. MaxSignals

\* An open connection has one owner: the main thread, a waiting job or a
\* worker.  So its descriptor is closed, once, on every path through the
\* accept loop and handle_client, and by nobody else.
OneOwner ==
    /\ {c \in Clients : conn[c] = "open"} = Handed \union Waiting \union Serving
    /\ Cardinality(Handed) + (submitted - started) + Cardinality(Running)
         = Cardinality({c \in Clients : conn[c] = "open"})

\* The limiter counts the connections that were admitted and have not called
\* ratelimit_leave: every ratelimit_accept that returned 0 is paired with one
\* leave, on every way out of handle_client, and a refused one with none.
CountsAdmitted ==
    Limited =>
        \A ip \in IPs :
            counted[ip] =
                Cardinality({c \in Clients :
                    /\ IpOf[c] = ip
                    /\ \/ main = "submit" /\ c = cfd
                       \/ c \in Waiting
                       \/ \E w \in Running : Job(w) = c /\ wpc[w] # "close"})

\* What server_run frees after thread_pool_destroy is used by nobody: no job
\* is waiting or running, and no signal and no order of the threads leaves one.
NoUseAfterFree ==
    \A o \in Objects \ {"listener"} :
        obj[o] \in {"gone", "twice"} => Waiting = {} /\ Serving = {}

\* server_run releases what it has made, once, on every way out, early returns
\* and fail_cleanup included; but the TLS context twice when the certificate or
\* the key cannot be loaded, and never otherwise.
ReleasedOnce ==
    main = "done" =>
        /\ \A o \in Objects : obj[o] \in {"none", "gone"} \/ <<o, obj[o]>> = <<"tls", "twice">>
        /\ obj["tls"] = "twice" => submitted = 0

\* Request buffers alive: one for each worker between http_parse_request and
\* http_request_cleanup, plus one for each connection that was ended by a 401 or
\* a bad request line (handle_client breaks past the cleanup), and no others.
BuffersAccounted ==
    buffers = Cardinality({w \in Workers : wpc[w] \in {"auth", "respond"}})
              + Cardinality(rejected)

\* A client kept alive does not hold up shutdown: from g_shutdown on, if it reads
\* what it is sent, its connection ends, whatever else it does or fails to do.
KeepAliveYields ==
    \A c \in Clients \ Stalling :
        shutdown /\ c \in timed ~> conn[c] = "closed" \/ stuck # {}

\* DEV_IN_DEPTH.md:198-199: after "Signal handler sets g_shutdown = 1" the
\* "Accept loop breaks".
AcceptLoopBreaks ==
    shutdown ~> main \in {"close", "destroy", "join", "limit", "untls", "clean", "done"}

=============================================================================
