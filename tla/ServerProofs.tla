---------------------------- MODULE ServerProofs -----------------------------
(***************************************************************************)
(* The safety properties of the server, for every number of workers, slots *)
(* of the queue, connections, addresses and signals.                       *)
(***************************************************************************)
EXTENDS Server, FiniteSetTheorems, TLAPS

-----------------------------------------------------------------------------
(* The inductive invariant.                                                *)

\* Places of the main thread: before the accept loop, with a connection in its
\* hands, after the pool is gone, and on the way out.
Early   == {"listen", "pool", "limiter", "register", "context", "certificate", "key"}
Handing == {"check", "handshake", "admit", "submit"}
Late    == {"limit", "untls", "clean", "crashed"}
Out     == {"close", "destroy", "join", "done"} \union Late

TaskTypes ==
    /\ submitted \in Nat /\ started \in 0 .. submitted
    /\ current \in [Workers -> (1 .. started) \union {None}]

Types == TypeOK /\ TaskTypes

\* Tasks are the connections in the order in which they were accepted.
JobInv ==
    /\ cfd # None <=> main \in Handing
    /\ cfd # None => conn[cfd] # "away"
    /\ \A k \in 1 .. submitted :
          k <= jobs[k] /\ conn[jobs[k]] # "away" /\ (cfd # None => jobs[k] < cfd)
    /\ \A k, l \in 1 .. submitted : k < l => jobs[k] < jobs[l]

\* A task is one worker's.
TaskInv ==
    /\ \A w \in Workers : wpc[w] = "idle" <=> current[w] = None
    /\ \A v, w \in Running : current[v] = current[w] => v = w

OpenInv == {c \in Clients : conn[c] = "open"} = Handed \union Waiting \union Serving

PhaseInv ==
    /\ main \in Early => submitted = 0
    /\ main \notin {"join", "done"} \union Late => phase = "open"
    /\ main = "join" => phase = "closing"
    /\ main \in Late => phase = "gone"
    /\ main = "done" => phase = "gone" \/ submitted = 0
    /\ phase = "gone" => Waiting = {} /\ Running = {}

\* What has been made and released where.
ObjInv ==
    /\ main = "done" =>
          \A o \in Objects : obj[o] \in {"none", "gone"} \/ <<o, obj[o]>> = <<"tls", "twice">>
    /\ main # "done" =>
          /\ obj["listener"] = CASE main = "listen" -> "none"
                                 [] main \in {"destroy", "join"} \union Late -> "gone"
                                 [] OTHER -> "live"
          /\ obj["pool"] = CASE main \in {"listen", "pool"} -> "none"
                             [] main \in Late -> "gone"
                             [] OTHER -> "live"
          /\ obj["limiter"] \in CASE main \in {"listen", "pool", "limiter"} -> {"none"}
                                  [] main \in Late \ {"limit"} -> {"none", "gone"}
                                  [] OTHER -> {"none", "live"}
          /\ obj["caches"] = IF main \in {"listen", "pool", "limiter", "register"}
                             THEN "none" ELSE "live"
          /\ obj["tls"] \in CASE main \in {"certificate", "key"} -> {"live"}
                              [] main \in Early \ {"certificate", "key"} -> {"none"}
                              [] main \in {"clean", "crashed"} -> {"none", "gone", "twice"}
                              [] main \in Out \ {"clean", "crashed"} -> {"none", "live", "gone"}
                              [] OTHER -> {"none", "live"}
    /\ obj["tls"] = "gone" /\ main \notin {"clean", "crashed", "done"} => submitted = 0
    /\ obj["tls"] = "twice" => submitted = 0

\* The connections of ip that the limiter counts.
Admitted(ip) ==
    {c \in Clients :
        /\ IpOf[c] = ip
        /\ \/ main = "submit" /\ c = cfd
           \/ c \in Waiting
           \/ \E w \in Running : Job(w) = c /\ wpc[w] # "close"}

CountInv ==
    \A ip \in IPs : counted[ip] = IF Limited THEN Cardinality(Admitted(ip)) ELSE 0

\* The workers that hold a buffer they will free.
Parsed == {w \in Workers : wpc[w] \in {"auth", "respond"}}

BufferInv ==
    /\ rejected \subseteq {jobs[k] : k \in 1 .. started}
    /\ \A w \in Running : wpc[w] \notin {"leave", "close"} => Job(w) \notin rejected
    /\ buffers = Cardinality(Parsed) + Cardinality(rejected)

ServerInv ==
    /\ Types /\ JobInv /\ TaskInv /\ OpenInv
    /\ PhaseInv /\ ObjInv /\ CountInv /\ BufferInv

-----------------------------------------------------------------------------
(* Steps that have their effect in common.                                 *)

\* Something is made or released; nobody is in the main thread's hands.
Makes ==
    \/ StartUp \/ StartUpFails
    \/ CloseListener \/ DestroyLimiter \/ DestroyContext \/ CleanupCaches

States == {"none", "live", "gone", "twice"}

LEMMA ReleaseEffect ==
    ASSUME NEW from, NEW to, NEW o \in Objects, obj \in [Objects -> States], Release(from, to, o)
    PROVE  /\ main = from /\ main' = to
           /\ obj' \in [Objects -> States]
           /\ \A x \in Objects : x # o => obj'[x] = obj[x]
           /\ obj[o] = "none" => obj'[o] = "none"
           /\ obj[o] = "live" => obj'[o] = "gone"
           /\ obj[o] \in {"gone", "twice"} => obj'[o] = "twice"
  BY DEF Release, Main, States

LEMMA MakesFrame ==
    ASSUME Makes
    PROVE  /\ UNCHANGED <<pool, jobs, peer, cfd, worker, counted, sig>>
           /\ main \in Early \union {"close", "limit", "untls", "clean"}
           /\ main' \in Early \union Out \union {"loop"}
  <1> USE DEF Main, Make, Release, Early, Out, Late
  <1>1. CASE StartUp
    BY <1>1 DEF StartUp, Listen, CreatePool, NoLimiter, CreateLimiter, Register, CreateContext,
       LoadPems, LoadPem, objects
  <1>2. CASE StartUpFails
    BY <1>2 DEF StartUpFails, ListenFails, CreatePoolFails, CreateContextFails, LoadPemFails,
       DestroyContextCrashes, objects
  <1>3. QED
    BY <1>1, <1>2 DEF Makes, CloseListener, DestroyLimiter, DestroyContext, CleanupCaches

\* Only the main thread's place changes, and perhaps the flag.
Moves == LoopTest \/ AcceptFails \/ TransportNew \/ HandshakeDone \/ InterruptAccept

LEMMA MovesFrame ==
    ASSUME Moves, Types
    PROVE  /\ UNCHANGED <<pool, jobs, peer, cfd, worker, objects, stuck>>
           /\ shutdown' \in BOOLEAN /\ signals' \in 0 .. MaxSignals
           /\ \/ main \in {"loop", "accept"} /\ main' \in {"loop", "accept", "close"}
              \/ main \in {"check", "handshake"} /\ main' \in {"handshake", "admit"}
  <1> USE ServerAssumption
       DEF Moves, LoopTest, AcceptFails, TransportNew, HandshakeDone, InterruptAccept, Main,
           Delivered, sig, Types, TypeOK
  <1>1. CASE InterruptAccept
    BY <1>1
  <1>2. CASE LoopTest \/ AcceptFails \/ TransportNew \/ HandshakeDone
    BY <1>2
  <1>3. QED
    BY <1>1, <1>2

\* The connection in the main thread's hands is closed.
Drops ==
    CheckShutdown \/ TransportFails \/ HandshakeFails \/ JobFails \/ Reject \/ InterruptHandshake

LEMMA DropsFrame ==
    ASSUME Drops, Types
    PROVE  /\ UNCHANGED <<pool, jobs, timed, worker, objects, stuck>>
           /\ shutdown' \in BOOLEAN /\ signals' \in 0 .. MaxSignals
           /\ main \in {"check", "handshake", "admit"} /\ main' \in {"loop", "close"}
           /\ cfd' = None /\ conn' = [conn EXCEPT ![cfd] = "closed"]
  <1> USE ServerAssumption
       DEF Drops, CheckShutdown, TransportFails, HandshakeFails, JobFails, Reject,
           InterruptHandshake, GiveUp, Main, Delivered, sig, Types, TypeOK
  <1>1. CASE InterruptHandshake
    BY <1>1
  <1>2. CASE CheckShutdown \/ TransportFails \/ HandshakeFails \/ JobFails \/ Reject
    BY <1>2
  <1>3. QED
    BY <1>1, <1>2

\* handle_client between its first and its last step.
Inner(w) ==
    \/ Read(w) \/ AuthFails(w) \/ AuthOk(w) \/ Respond(w) \/ Again(w) \/ InterruptRead(w)

LEMMA InnerFrame ==
    ASSUME NEW w \in Workers, Inner(w), Types
    PROVE  /\ UNCHANGED <<pool, jobs, conn, main, cfd, objects, stuck>>
           /\ shutdown' \in BOOLEAN /\ signals' \in 0 .. MaxSignals
           /\ wpc[w] \in {"parse", "auth", "respond", "again"}
           /\ wpc'[w] \in {"parse", "auth", "respond", "again", "leave"}
           /\ wpc' = [wpc EXCEPT ![w] = wpc'[w]]
  <1> USE ServerAssumption DEF Work, Types, TypeOK, peer, sig
  <1>1. CASE Read(w)
    BY <1>1 DEF Read, ReadFails, ReadRequest, ReadBadLine
  <1>2. CASE AuthFails(w) \/ AuthOk(w)
    BY <1>2 DEF AuthFails, AuthOk
  <1>3. CASE Respond(w)
    BY <1>3 DEF Respond, RespondLast, RespondKeep
  <1>4. CASE Again(w)
    BY <1>4 DEF Again
  <1>5. CASE InterruptRead(w)
    BY <1>5 DEF InterruptRead, Delivered
  <1>6. QED
    BY <1>1, <1>2, <1>3, <1>4, <1>5 DEF Inner

-----------------------------------------------------------------------------
(* What the invariant says of tasks and of the sets that are counted.      *)

\* Nobody is the connection of two tasks.
LEMMA JobsApart ==
    ASSUME Types, JobInv
    PROVE  /\ \A k, l \in 1 .. submitted : jobs[k] = jobs[l] => k = l
           /\ \A k \in 1 .. submitted : jobs[k] \in Clients /\ k # None
  <1> USE ServerAssumption DEF Types, TaskTypes, TypeOK, Clients
  <1>1. \A k \in 1 .. submitted : jobs[k] \in Clients
    OBVIOUS
  <1>2. ASSUME NEW k \in 1 .. submitted, NEW l \in 1 .. submitted, jobs[k] = jobs[l] PROVE k = l
    <2>1. CASE k < l
      BY <2>1, <1>1, <1>2 DEF JobInv
    <2>2. CASE l < k
      BY <2>2, <1>1, <1>2 DEF JobInv
    <2>3. QED
      BY <2>1, <2>2
  <1>3. \A k \in 1 .. submitted : k \in Clients
    BY <1>1 DEF JobInv
  <1>4. QED
    BY <1>1, <1>2, <1>3

\* What a worker runs is its task and nobody else's, and not waiting.
LEMMA RunningTasks ==
    ASSUME Types, JobInv, TaskInv
    PROVE  /\ \A w \in Running : current[w] \in 1 .. started /\ Job(w) \in Clients \ Waiting
           /\ \A v, w \in Running : Job(v) = Job(w) => v = w
           /\ cfd # None => \A w \in Running : Job(w) # cfd
           /\ cfd \notin Waiting
  <1> USE ServerAssumption DEF Types, TaskTypes, TypeOK, Clients
  <1>1. \A w \in Running : current[w] \in 1 .. started /\ current[w] \in 1 .. submitted
    BY DEF Running
  <1>2. ASSUME NEW w \in Running PROVE Job(w) \in Clients \ Waiting
    <2>1. Job(w) \in Clients
      BY <1>1, JobsApart DEF Job
    <2>2. ASSUME NEW k \in started + 1 .. submitted PROVE jobs[k] # Job(w)
      <3>1. k \in 1 .. submitted /\ k # current[w]
        BY <1>1, <2>2
      <3>2. QED
        BY <1>1, <3>1, JobsApart DEF Job
    <2>3. QED
      BY <2>1, <2>2 DEF Waiting
  <1>3. \A v, w \in Running : Job(v) = Job(w) => v = w
    <2>1. \A v, w \in Running : jobs[current[v]] = jobs[current[w]] => current[v] = current[w]
      BY <1>1, JobsApart
    <2>2. QED
      BY <2>1 DEF Job, TaskInv
  <1>4. cfd # None => \A w \in Running : Job(w) # cfd
    BY <1>1, JobsApart DEF Job, JobInv
  <1>5. cfd \notin Waiting
    <2>1. CASE cfd = None
      BY <2>1, JobsApart DEF Waiting
    <2>2. CASE cfd # None
      BY <2>2, JobsApart DEF Waiting, JobInv
    <2>3. QED
      BY <2>1, <2>2
  <1>6. QED
    BY <1>1, <1>2, <1>3, <1>4, <1>5

LEMMA FiniteSets ==
    ASSUME Types, JobInv, TaskInv
    PROVE  /\ IsFiniteSet(Running) /\ IsFiniteSet(Parsed)
           /\ IsFiniteSet(Clients)
           /\ \A ip \in IPs : IsFiniteSet(Admitted(ip))
           /\ IsFiniteSet(rejected)
  <1>1. IsFiniteSet(Clients)
    BY ServerAssumption, FS_Interval DEF Clients
  <1>2. IsFiniteSet(Running)
    <2>1. started \in Nat
      BY DEF Types, TaskTypes
    <2>2. IsFiniteSet(1 .. started)
      BY <2>1, FS_Interval
    <2> DEFINE f == [w \in Running |-> current[w]]
    <2>3. f \in Injection(Running, 1 .. started)
      BY RunningTasks DEF Injection, TaskInv, IsInjective
    <2>4. QED
      BY <2>2, <2>3, FS_Injection DEF ExistsInjection
  <1>3. Parsed \subseteq Running
    BY DEF Parsed, Running, TaskInv
  <1>4. \A ip \in IPs : Admitted(ip) \subseteq Clients
    BY DEF Admitted
  <1>5. rejected \subseteq Clients
    BY DEF Types, TypeOK
  <1>6. QED
    BY <1>1, <1>2, <1>3, <1>4, <1>5, FS_Subset

-----------------------------------------------------------------------------
(* Every step keeps the invariant: first, for each group of steps, what it *)
(* does not touch.                                                         *)

\* The jobs, if only the main thread moves, with nobody in its hands.
LEMMA MakesServerInv ==
    ASSUME ServerInv, Makes
    PROVE  ServerInv'
  <1> USE ServerAssumption
  <1>1. /\ UNCHANGED <<pool, jobs, peer, cfd, worker, counted, sig>>
        /\ main \in Early \union {"close", "limit", "untls", "clean"}
        /\ main' \in Early \union Out \union {"loop"}
    BY MakesFrame
  <1> USE <1>1 DEF pool, peer, worker, sig
  <1>2. JobInv' /\ TaskInv' /\ OpenInv'
    BY DEF ServerInv, JobInv, TaskInv, OpenInv, Running, Waiting, Handed, Serving, Job, Handing,
       Early, Out, Late
  <1>3. BufferInv'
    BY DEF ServerInv, BufferInv, Running, Parsed, Job
  <1>s. Waiting' = Waiting /\ Running' = Running
    BY DEF Waiting, Running
  <1>4. ObjInv' /\ PhaseInv' /\ obj' \in [Objects -> {"none", "live", "gone", "twice"}]
    <2> USE DEF ServerInv, ObjInv, PhaseInv, Types, TypeOK, Objects, Early, Out, Late, Makes, Main, Make
    <2> USE <1>s
    <2>1. CASE StartUp
      BY <2>1 DEF StartUp, Listen, CreatePool, NoLimiter, CreateLimiter, Register, CreateContext,
         LoadPems, LoadPem, objects
    <2>2. obj \in [Objects -> States]
      BY DEF States
    <2>3. CASE ListenFails \/ CreateContextFails
      BY <2>3 DEF ListenFails, CreateContextFails, objects
    <2>4. CASE CreatePoolFails
      BY <2>2, <2>4, ReleaseEffect DEF CreatePoolFails, States
    <2>5. CASE LoadPemFails
      BY <2>2, <2>5, ReleaseEffect DEF LoadPemFails, States
    <2>6. CASE CloseListener
      BY <2>2, <2>6, ReleaseEffect DEF CloseListener, States
    <2>7. CASE DestroyLimiter
      <3>1. /\ main = "limit" /\ main' = "untls"
            /\ \A x \in Objects : x # "limiter" => obj'[x] = obj[x]
            /\ obj["limiter"] = "none" => obj'["limiter"] = "none"
            /\ obj["limiter"] = "live" => obj'["limiter"] = "gone"
            /\ obj["limiter"] \in {"gone", "twice"} => obj'["limiter"] = "twice"
            /\ obj' \in [Objects -> States]
        BY <2>2, <2>7, ReleaseEffect DEF DestroyLimiter, States
      <3>2. obj["listener"] = "gone" /\ obj["pool"] = "gone" /\ obj["caches"] = "live"
            /\ obj["limiter"] \in {"none", "live"} /\ obj["tls"] \in {"none", "live", "gone"}
        BY <3>1
      <3>3. ObjInv'
        BY <3>1, <3>2
      <3>4. PhaseInv'
        BY <3>1
      <3>5. QED
        BY <3>1, <3>3, <3>4 DEF States
    <2>8. CASE DestroyContext
      <3>1. /\ main = "untls" /\ main' = "clean"
            /\ \A x \in Objects : x # "tls" => obj'[x] = obj[x]
            /\ obj["tls"] = "none" => obj'["tls"] = "none"
            /\ obj["tls"] = "live" => obj'["tls"] = "gone"
            /\ obj["tls"] \in {"gone", "twice"} => obj'["tls"] = "twice"
            /\ obj' \in [Objects -> States]
        BY <2>2, <2>8, ReleaseEffect DEF DestroyContext, States
      <3>2. obj["listener"] = "gone" /\ obj["pool"] = "gone" /\ obj["caches"] = "live"
            /\ obj["limiter"] \in {"none", "gone"} /\ obj["tls"] \in {"none", "live", "gone"}
        BY <3>1
      <3>3. ObjInv'
        BY <3>1, <3>2
      <3>4. PhaseInv'
        BY <3>1
      <3>5. QED
        BY <3>1, <3>3, <3>4 DEF States
    <2>9. CASE DestroyContextCrashes
      <3>1. /\ main = "untls" /\ main' = "crashed"
            /\ \A x \in Objects : x # "tls" => obj'[x] = obj[x]
            /\ obj["tls"] = "none" => obj'["tls"] = "none"
            /\ obj["tls"] = "live" => obj'["tls"] = "gone"
            /\ obj["tls"] \in {"gone", "twice"} => obj'["tls"] = "twice"
            /\ obj' \in [Objects -> States]
        BY <2>2, <2>9, ReleaseEffect DEF DestroyContextCrashes, States
      <3>2. obj["listener"] = "gone" /\ obj["pool"] = "gone" /\ obj["caches"] = "live"
            /\ obj["limiter"] \in {"none", "gone"} /\ obj["tls"] \in {"none", "live", "gone"}
        BY <3>1
      <3>3. ObjInv'
        BY <3>1, <3>2
      <3>4. PhaseInv'
        BY <3>1
      <3>5. QED
        BY <3>1, <3>3, <3>4 DEF States
    <2>10. CASE CleanupCaches
      <3>1. /\ main = "clean" /\ main' = "done"
            /\ \A x \in Objects : x # "caches" => obj'[x] = obj[x]
            /\ obj["caches"] = "none" => obj'["caches"] = "none"
            /\ obj["caches"] = "live" => obj'["caches"] = "gone"
            /\ obj["caches"] \in {"gone", "twice"} => obj'["caches"] = "twice"
            /\ obj' \in [Objects -> States]
        BY <2>2, <2>10, ReleaseEffect DEF CleanupCaches, States
      <3>2. obj["listener"] = "gone" /\ obj["pool"] = "gone" /\ obj["caches"] = "live"
            /\ obj["limiter"] \in {"none", "gone"} /\ obj["tls"] \in {"none", "gone", "twice"}
        BY <3>1
      <3>3. ObjInv'
        BY <3>1, <3>2
      <3>4. PhaseInv'
        BY <3>1
      <3>5. QED
        BY <3>1, <3>3, <3>4 DEF States
    <2>11. QED
      BY <2>1, <2>3, <2>4, <2>5, <2>6, <2>7, <2>8, <2>9, <2>10 DEF StartUpFails
  <1>5. Types'
    BY <1>4 DEF ServerInv, Types, TypeOK, TaskTypes, Early, Out, Late, Threads
  <1>6. CountInv'
    <2>1. CASE Limited' = Limited
      <3>1. \A ip \in IPs : Admitted(ip)' = Admitted(ip)
        BY DEF Admitted, Running, Waiting, Job, Early, Out, Late
      <3>2. QED
        BY <2>1, <3>1 DEF ServerInv, CountInv
    <2>2. CASE submitted = 0
      <3>1. main # "submit" /\ main' # "submit" /\ Waiting = {} /\ Running = {}
        <4>1. Waiting = {}
          BY <2>2 DEF ServerInv, Types, TaskTypes, Waiting
        <4>2. Running = {}
          BY <2>2 DEF ServerInv, Types, TaskTypes, Running
        <4>3. QED
          BY <4>1, <4>2 DEF Early, Out, Late
      <3>2. \A ip \in IPs : Admitted(ip) = {} /\ Admitted(ip)' = {}
        BY <1>s, <3>1 DEF Admitted
      <3>3. QED
        BY <3>2, FS_EmptySet DEF ServerInv, CountInv
    <2>3. Limited' = Limited \/ submitted = 0
      <3>1. CASE main \in Early
        BY <3>1 DEF ServerInv, PhaseInv
      <3>2. CASE main \notin Early
        <4>1. CloseListener \/ DestroyLimiter \/ DestroyContext \/ DestroyContextCrashes \/ CleanupCaches
          BY <3>2 DEF Makes, StartUp, StartUpFails, Listen, CreatePool, NoLimiter, CreateLimiter,
             Register, CreateContext, LoadPems, LoadPem, ListenFails, CreatePoolFails,
             CreateContextFails, LoadPemFails, Make, Release, Main, Early
        <4>2. obj \in [Objects -> States]
          BY DEF ServerInv, Types, TypeOK, States
        <4>3. QED
          BY <4>1, <4>2, ReleaseEffect DEF Limited, Objects, States, CloseListener, DestroyLimiter,
             DestroyContext, DestroyContextCrashes, CleanupCaches
      <3>3. QED
        BY <3>1, <3>2
    <2>4. QED
      BY <2>1, <2>2, <2>3
  <1>7. QED
    BY <1>2, <1>3, <1>4, <1>5, <1>6 DEF ServerInv

LEMMA MovesServerInv ==
    ASSUME ServerInv, Moves
    PROVE  ServerInv'
  <1> USE ServerAssumption
  <1>1. /\ UNCHANGED <<pool, jobs, peer, cfd, worker, objects, stuck>>
        /\ shutdown' \in BOOLEAN /\ signals' \in 0 .. MaxSignals
        /\ \/ main \in {"loop", "accept"} /\ main' \in {"loop", "accept", "close"}
           \/ main \in {"check", "handshake"} /\ main' \in {"handshake", "admit"}
    BY MovesFrame DEF ServerInv
  <1>t. shutdown' \in BOOLEAN
    BY <1>1
  <1> USE <1>1 DEF pool, peer, worker, objects
  <1>2. JobInv' /\ TaskInv' /\ OpenInv'
    BY DEF ServerInv, JobInv, TaskInv, OpenInv, Running, Waiting, Handed, Serving, Job, Handing
  <1>3. BufferInv'
    BY DEF ServerInv, BufferInv, Running, Parsed, Job
  <1>s. Waiting' = Waiting /\ Running' = Running
    BY DEF Waiting, Running
  <1>4. ObjInv' /\ PhaseInv'
    BY <1>s DEF ServerInv, ObjInv, PhaseInv, Early, Out, Late
  <1>5. Types'
    BY <1>t DEF ServerInv, Types, TypeOK, TaskTypes, Threads
  <1>6. CountInv'
    <2>1. \A ip \in IPs : Admitted(ip)' = Admitted(ip)
      BY DEF Admitted, Running, Waiting, Job
    <2>2. QED
      BY <2>1 DEF ServerInv, CountInv, Limited
  <1>7. QED
    BY <1>2, <1>3, <1>4, <1>5, <1>6 DEF ServerInv

LEMMA DropsServerInv ==
    ASSUME ServerInv, Drops
    PROVE  ServerInv'
  <1> USE ServerAssumption
  <1>1. /\ UNCHANGED <<pool, jobs, timed, worker, objects, stuck>>
        /\ shutdown' \in BOOLEAN /\ signals' \in 0 .. MaxSignals
        /\ main \in {"check", "handshake", "admit"} /\ main' \in {"loop", "close"}
        /\ cfd' = None /\ conn' = [conn EXCEPT ![cfd] = "closed"]
    BY DropsFrame DEF ServerInv
  <1>t. shutdown' \in BOOLEAN
    BY <1>1
  <1>c. cfd \in Clients /\ conn \in [Clients -> {"away", "open", "closed"}] /\ cfd # None
    BY <1>1 DEF ServerInv, JobInv, Types, TypeOK, Handing
  <1>r. (\A w \in Running : Job(w) # cfd) /\ cfd \notin Waiting
    BY <1>c, RunningTasks DEF ServerInv
  <1> USE <1>1 DEF pool, worker, objects
  <1>s. Waiting' = Waiting /\ Running' = Running /\ Serving' = Serving
    BY DEF Waiting, Running, Serving, Job
  <1>2. JobInv' /\ TaskInv'
    BY <1>c DEF ServerInv, JobInv, TaskInv, Running, Handing, Types, TaskTypes, TypeOK
  <1>o. OpenInv'
    <2>1. {c \in Clients : conn'[c] = "open"} = {c \in Clients : conn[c] = "open"} \ {cfd}
      BY <1>c
    <2>2. Handed = {cfd} /\ Handed' = {}
      BY <1>c DEF Handed
    <2>3. cfd \notin Waiting \union Serving
      BY <1>r DEF Serving
    <2>4. QED
      BY <1>s, <2>1, <2>2, <2>3 DEF ServerInv, OpenInv
  <1>3. BufferInv'
    BY DEF ServerInv, BufferInv, Running, Parsed, Job
  <1>4. ObjInv' /\ PhaseInv'
    BY <1>s DEF ServerInv, ObjInv, PhaseInv, Early, Out, Late
  <1>5. Types'
    BY <1>t, <1>c DEF ServerInv, Types, TypeOK, TaskTypes, Threads
  <1>6. CountInv'
    <2>1. \A ip \in IPs : Admitted(ip)' = Admitted(ip)
      BY <1>s DEF Admitted, Running, Job
    <2>2. QED
      BY <2>1 DEF ServerInv, CountInv, Limited
  <1>7. QED
    BY <1>2, <1>o, <1>3, <1>4, <1>5, <1>6 DEF ServerInv

LEMMA AcceptServerInv ==
    ASSUME ServerInv, NEW c \in Clients, Accept(c)
    PROVE  ServerInv'
  <1> USE ServerAssumption
  <1>1. /\ UNCHANGED <<pool, jobs, timed, worker, objects, sig>>
        /\ main = "accept" /\ main' = "check"
        /\ {d \in Clients : conn[d] = "away"} = c .. MaxClients
        /\ cfd' = c /\ conn' = [conn EXCEPT ![c] = "open"]
    BY DEF Accept, Main
  <1>c. cfd = None /\ conn \in [Clients -> {"away", "open", "closed"}] /\ c # None
    BY <1>1 DEF ServerInv, JobInv, Types, TypeOK, Handing
  <1>j. \A k \in 1 .. submitted : jobs[k] \in Clients /\ jobs[k] < c
    BY <1>1, JobsApart DEF ServerInv, JobInv, Clients
  <1> USE <1>1 DEF pool, worker, objects, sig
  <1>s. Waiting' = Waiting /\ Running' = Running /\ Serving' = Serving
    BY DEF Waiting, Running, Serving, Job
  <1>2. JobInv' /\ TaskInv'
    <2>1. \A k \in 1 .. submitted : conn'[jobs[k]] = conn[jobs[k]]
      BY <1>c, <1>j DEF Clients
    <2>2. QED
      BY <2>1, <1>c, <1>j DEF ServerInv, JobInv, TaskInv, Running, Handing
  <1>o. OpenInv'
    <2>1. {d \in Clients : conn'[d] = "open"} = {d \in Clients : conn[d] = "open"} \union {c}
      BY <1>c
    <2>2. Handed = {} /\ Handed' = {c}
      BY <1>c DEF Handed
    <2>3. QED
      BY <1>s, <2>1, <2>2 DEF ServerInv, OpenInv
  <1>3. BufferInv'
    BY DEF ServerInv, BufferInv, Running, Parsed, Job
  <1>4. ObjInv' /\ PhaseInv'
    BY <1>s DEF ServerInv, ObjInv, PhaseInv, Early, Out, Late
  <1>5. Types'
    BY <1>c DEF ServerInv, Types, TypeOK, TaskTypes, Threads
  <1>6. CountInv'
    <2>1. \A ip \in IPs : Admitted(ip)' = Admitted(ip)
      BY <1>s DEF Admitted, Running, Job
    <2>2. QED
      BY <2>1 DEF ServerInv, CountInv, Limited
  <1>7. QED
    BY <1>2, <1>o, <1>3, <1>4, <1>5, <1>6 DEF ServerInv

LEMMA AdmitServerInv ==
    ASSUME ServerInv, Admit
    PROVE  ServerInv'
  <1> USE ServerAssumption
  <1>1. /\ UNCHANGED <<pool, jobs, peer, cfd, worker, obj, sig>>
        /\ main = "admit" /\ main' = "submit"
        /\ counted' = IF Limited THEN [counted EXCEPT ![IpOf[cfd]] = @ + 1] ELSE counted
    BY DEF Admit, Main, Lim!Admit
  <1>c. cfd \in Clients /\ cfd # None /\ counted \in [IPs -> Nat]
    BY <1>1 DEF ServerInv, JobInv, Types, TypeOK, Handing
  <1>r. (\A w \in Running : Job(w) # cfd) /\ cfd \notin Waiting
    BY <1>c, RunningTasks DEF ServerInv
  <1> USE <1>1 DEF pool, peer, worker, sig
  <1>s. Waiting' = Waiting /\ Running' = Running /\ Serving' = Serving /\ Handed' = Handed
    BY DEF Waiting, Running, Serving, Job, Handed
  <1>2. JobInv' /\ TaskInv' /\ OpenInv'
    BY <1>s DEF ServerInv, JobInv, TaskInv, OpenInv, Handing, Running
  <1>3. BufferInv'
    BY DEF ServerInv, BufferInv, Running, Parsed, Job
  <1>4. ObjInv' /\ PhaseInv'
    BY <1>s DEF ServerInv, ObjInv, PhaseInv, Early, Out, Late
  <1>5. Types'
    BY <1>c DEF ServerInv, Types, TypeOK, TaskTypes, Threads
  <1>6. CountInv'
    <2>1. ASSUME NEW ip \in IPs, ip # IpOf[cfd] PROVE Admitted(ip)' = Admitted(ip) /\ counted'[ip] = counted[ip]
      BY <2>1, <1>s, <1>c DEF Admitted, Running, Job
    <2>2. /\ Admitted(IpOf[cfd])' = Admitted(IpOf[cfd]) \union {cfd}
          /\ cfd \notin Admitted(IpOf[cfd])
      BY <1>s, <1>c, <1>r DEF Admitted, Running, Job
    <2>3. IsFiniteSet(Admitted(IpOf[cfd])) /\ IpOf[cfd] \in IPs
      BY <1>c, FiniteSets DEF ServerInv
    <2>4. Cardinality(Admitted(IpOf[cfd])') = Cardinality(Admitted(IpOf[cfd])) + 1
      BY <2>2, <2>3, FS_AddElement
    <2>5. Limited' = Limited /\ (~Limited => counted' = counted)
      BY DEF Limited
    <2>6. Limited => counted'[IpOf[cfd]] = counted[IpOf[cfd]] + 1
      BY <1>c, <2>3
    <2>7. ASSUME NEW ip \in IPs PROVE (counted[ip] = IF Limited THEN Cardinality(Admitted(ip)) ELSE 0)'
      <3>1. CASE ip # IpOf[cfd]
        BY <3>1, <2>1, <2>5 DEF ServerInv, CountInv
      <3>2. CASE ip = IpOf[cfd]
        BY <3>2, <2>4, <2>5, <2>6 DEF ServerInv, CountInv
      <3>3. QED
        BY <3>1, <3>2
    <2>8. QED
      BY <2>7 DEF CountInv
  <1>7. QED
    BY <1>2, <1>3, <1>4, <1>5, <1>6 DEF ServerInv

LEMMA SubmitServerInv ==
    ASSUME ServerInv, Submit
    PROVE  ServerInv'
  <1> USE ServerAssumption
  <1>1. /\ UNCHANGED <<started, current, phase, peer, worker, objects, sig>>
        /\ main = "submit" /\ main' = "loop"
        /\ submitted' = submitted + 1 /\ jobs' = Append(jobs, cfd)
        /\ cfd' = None
    BY DEF Submit, Main, Pool!Submit
  <1>c. cfd \in Clients /\ cfd # None /\ jobs \in Seq(Clients) /\ Len(jobs) = submitted
        /\ submitted \in Nat /\ started \in 0 .. submitted
        /\ current \in [Workers -> (1 .. started) \union {None}]
    BY <1>1 DEF ServerInv, JobInv, Types, TypeOK, TaskTypes, Handing
  <1>j. /\ jobs' \in Seq(Clients) /\ Len(jobs') = submitted + 1
        /\ jobs'[submitted + 1] = cfd
        /\ \A k \in 1 .. submitted : jobs'[k] = jobs[k]
    BY <1>1, <1>c
  <1> USE <1>1 DEF peer, worker, objects, sig
  <1>s. Waiting' = Waiting \union {cfd} /\ Running' = Running /\ Serving' = Serving
    <2>1. Waiting' = Waiting \union {cfd}
      <3>1. \A k : k \in (started + 1 .. submitted)' <=>
                    k \in started + 1 .. submitted \/ k = submitted + 1
        BY <1>c
      <3>2. \A k \in started + 1 .. submitted : jobs'[k] = jobs[k]
        BY <1>c, <1>j
      <3>3. QED
        BY <3>1, <3>2, <1>j DEF Waiting
    <2>2. Running' = Running
      BY DEF Running
    <2>3. \A w \in Running : Job(w)' = Job(w)
      BY <1>c, <1>j DEF Running, Job
    <2>4. QED
      BY <2>1, <2>2, <2>3 DEF Serving
  <1>k. \A w \in Running : Job(w)' = Job(w)
    BY <1>c, <1>j DEF Running, Job
  <1>2. JobInv' /\ TaskInv'
    <2>1. submitted + 1 <= cfd
      <3>1. CASE submitted = 0
        BY <1>c, <3>1 DEF Clients
      <3>2. CASE submitted # 0
        <4>1. submitted \in 1 .. submitted
          BY <1>c, <3>2
        <4>2. submitted <= jobs[submitted] /\ jobs[submitted] < cfd /\ jobs[submitted] \in Nat
          BY <4>1, <1>c DEF ServerInv, JobInv, Clients
        <4>3. QED
          BY <4>2, <1>c DEF Clients
      <3>3. QED
        BY <3>1, <3>2
    <2>2. \A k \in 1 .. submitted' : k <= jobs'[k] /\ conn'[jobs'[k]] # "away"
      BY <2>1, <1>c, <1>j DEF ServerInv, JobInv
    <2>3. ASSUME NEW k \in 1 .. submitted', NEW l \in 1 .. submitted', k < l
          PROVE  jobs'[k] < jobs'[l]
      <3>1. k \in 1 .. submitted /\ jobs'[k] = jobs[k] /\ jobs[k] < cfd
        BY <2>3, <1>c, <1>j DEF ServerInv, JobInv, Handing
      <3>2. CASE l = submitted + 1
        BY <3>1, <3>2, <1>j
      <3>3. CASE l # submitted + 1
        <4>1. l \in 1 .. submitted /\ jobs'[l] = jobs[l]
          BY <2>3, <3>3, <1>c, <1>j
        <4>2. QED
          BY <2>3, <3>1, <4>1 DEF ServerInv, JobInv
      <3>4. QED
        BY <3>2, <3>3
    <2>4. JobInv'
      BY <2>2, <2>3, <1>c DEF JobInv, Handing
    <2>5. TaskInv'
      BY <1>s DEF ServerInv, TaskInv
    <2>6. QED
      BY <2>4, <2>5
  <1>o. OpenInv'
    <2>1. Handed = {cfd} /\ Handed' = {}
      BY <1>c DEF Handed
    <2>2. QED
      BY <1>s, <2>1 DEF ServerInv, OpenInv
  <1>3. BufferInv'
    <2>1. {jobs[k] : k \in 1 .. started}' = {jobs[k] : k \in 1 .. started}
      BY <1>c, <1>j
    <2>2. Parsed' = Parsed
      BY DEF Parsed
    <2>3. QED
      BY <1>s, <1>k, <2>1, <2>2 DEF ServerInv, BufferInv
  <1>4. ObjInv' /\ PhaseInv'
    BY <1>s DEF ServerInv, ObjInv, PhaseInv, Early, Out, Late
  <1>5. Types'
    BY <1>c, <1>j DEF ServerInv, Types, TypeOK, TaskTypes, Threads
  <1>6. CountInv'
    <2>1. \A ip \in IPs : Admitted(ip)' = Admitted(ip)
      BY <1>s, <1>c, <1>k DEF Admitted
    <2>2. QED
      BY <2>1 DEF ServerInv, CountInv, Limited
  <1>7. QED
    BY <1>2, <1>o, <1>3, <1>4, <1>5, <1>6 DEF ServerInv

LEMMA DestroyPoolServerInv ==
    ASSUME ServerInv, DestroyPool \/ Joined
    PROVE  ServerInv'
  <1> USE ServerAssumption
  <1>1. /\ UNCHANGED <<submitted, started, current, jobs, peer, cfd, worker, counted, sig>>
        /\ \/ main = "destroy" /\ main' = "join" /\ phase' = "closing" /\ UNCHANGED obj
           \/ /\ main = "join" /\ main' = "limit" /\ phase' = "gone"
              /\ started = submitted /\ (\A w \in Workers : current[w] = None)
              /\ obj' = [obj EXCEPT !["pool"] = "gone"]
    BY DEF DestroyPool, Joined, Main, Pool!Close, Pool!Vanish, objects
  <1>c. obj \in [Objects -> States] /\ submitted \in Nat
    BY DEF ServerInv, Types, TypeOK, TaskTypes, States
  <1> USE <1>1 DEF peer, worker, sig
  <1>s. Waiting' = Waiting /\ Running' = Running /\ Serving' = Serving /\ Handed' = Handed
    BY DEF Waiting, Running, Serving, Job, Handed
  <1>g. phase' = "gone" => Waiting = {} /\ Running = {}
    BY <1>c DEF Waiting, Running
  <1>2. JobInv' /\ TaskInv' /\ OpenInv'
    BY <1>s DEF ServerInv, JobInv, TaskInv, OpenInv, Handing
  <1>3. BufferInv'
    BY <1>s DEF ServerInv, BufferInv, Parsed, Job
  <1>4. ObjInv'
    BY <1>c DEF ServerInv, ObjInv, PhaseInv, Early, Out, Late, Objects, States
  <1>p. PhaseInv'
    BY <1>s, <1>g DEF ServerInv, PhaseInv, Early, Out, Late
  <1>5. Types'
    BY <1>c DEF ServerInv, Types, TypeOK, TaskTypes, Threads, Objects, States
  <1>6. CountInv'
    <2>1. \A ip \in IPs : Admitted(ip)' = Admitted(ip)
      BY <1>s DEF Admitted, Job
    <2>2. Limited' = Limited
      BY <1>c DEF Limited, Objects
    <2>3. QED
      BY <2>1, <2>2 DEF ServerInv, CountInv
  <1>7. QED
    BY <1>2, <1>3, <1>4, <1>p, <1>5, <1>6 DEF ServerInv

LEMMA TakeServerInv ==
    ASSUME ServerInv, NEW w \in Workers, Take(w)
    PROVE  ServerInv'
  <1> USE ServerAssumption
  <1>1. /\ UNCHANGED <<submitted, phase, jobs, peer, main, cfd, buffers, rejected, objects, sig>>
        /\ phase # "gone" /\ current[w] = None /\ started < submitted
        /\ started' = started + 1 /\ current' = [current EXCEPT ![w] = started + 1]
        /\ wpc[w] = "idle" /\ wpc' = [wpc EXCEPT ![w] = "parse"]
    BY DEF Take, Work, Pool!Start
  <1>c. /\ submitted \in Nat /\ started \in 0 .. submitted
        /\ current \in [Workers -> (1 .. started) \union {None}]
        /\ wpc \in [Workers -> {"idle", "parse", "auth", "respond", "again", "leave", "close"}]
    BY DEF ServerInv, Types, TypeOK, TaskTypes
  <1> DEFINE job == jobs[started + 1]
  <1>n. started + 1 \in 1 .. submitted /\ started + 1 # None /\ job \in Clients
    BY <1>1, <1>c, JobsApart DEF ServerInv
  <1> USE <1>1 DEF peer, objects, sig
  <1>r. Running' = Running \union {w} /\ w \notin Running
    BY <1>c, <1>n DEF Running
  <1>k. job \in Waiting /\ Waiting' = Waiting \ {job}
    <2>1. job \in Waiting
      BY <1>c, <1>n DEF Waiting
    <2>2. \A k \in started + 2 .. submitted : jobs[k] # job
      BY <1>c, <1>n, JobsApart DEF ServerInv
    <2>3. Waiting' = Waiting \ {job}
      BY <1>c, <1>n, <2>2 DEF Waiting
    <2>4. QED
      BY <2>1, <2>3
  <1>b. Job(w)' = job /\ \A v \in Running : Job(v)' = Job(v) /\ wpc'[v] = wpc[v]
    BY <1>c, <1>r DEF Job, Running
  <1>s. Serving' = Serving \union {job}
    BY <1>r, <1>b DEF Serving
  <1>2. JobInv' /\ TaskInv'
    <2>1. JobInv'
      BY DEF ServerInv, JobInv
    <2>2. \A v \in Workers : wpc'[v] = "idle" <=> current'[v] = None
      BY <1>c, <1>n DEF ServerInv, TaskInv
    <2>3. \A u, v \in Running' : current'[u] = current'[v] => u = v
      BY <1>c, <1>n, <1>r DEF ServerInv, TaskInv, Running
    <2>4. QED
      BY <2>1, <2>2, <2>3 DEF TaskInv
  <1>o. OpenInv'
    BY <1>k, <1>s DEF ServerInv, OpenInv, Handed
  <1>3. BufferInv'
    <2>1. {jobs[k] : k \in 1 .. started} \subseteq {jobs[k] : k \in 1 .. started}'
      BY <1>c
    <2>2. job \notin {jobs[k] : k \in 1 .. started}
      BY <1>c, <1>n, JobsApart DEF ServerInv
    <2>3. Parsed' = Parsed
      BY <1>c DEF Parsed
    <2>4. rejected' \subseteq {jobs[k] : k \in 1 .. started}' /\ job \notin rejected
      BY <2>1, <2>2 DEF ServerInv, BufferInv
    <2>5. \A v \in Running' : wpc'[v] \notin {"leave", "close"} => Job(v)' \notin rejected'
      BY <2>4, <1>r, <1>b DEF ServerInv, BufferInv
    <2>6. QED
      BY <2>3, <2>4, <2>5 DEF ServerInv, BufferInv
  <1>4. ObjInv' /\ PhaseInv'
    BY <1>k, <1>c DEF ServerInv, ObjInv, PhaseInv, Early, Out, Late
  <1>5. Types'
    <2>1. current' \in [Workers -> (1 .. started') \union {None}]
      BY <1>c, <1>n
    <2>2. QED
      BY <1>c, <1>n, <2>1 DEF ServerInv, Types, TypeOK, TaskTypes, Threads
  <1>6. CountInv'
    <2>1. wpc'[w] = "parse"
      BY <1>c
    <2>2. \A ip \in IPs : Admitted(ip)' = Admitted(ip)
      BY <1>k, <1>r, <1>b, <2>1 DEF Admitted
    <2>3. QED
      BY <2>2 DEF ServerInv, CountInv, Limited
  <1>7. QED
    BY <1>2, <1>o, <1>3, <1>4, <1>5, <1>6 DEF ServerInv

\* The buffers, in a step of handle_client.
LEMMA InnerBuffers ==
    ASSUME ServerInv, NEW w \in Workers, Inner(w)
    PROVE  BufferInv' /\ buffers' \in Nat /\ timed' \subseteq Clients /\ rejected' \subseteq Clients
  <1>1. /\ UNCHANGED <<pool, jobs, conn, main, cfd, objects, stuck>>
        /\ wpc[w] \in {"parse", "auth", "respond", "again"}
        /\ wpc'[w] \in {"parse", "auth", "respond", "again", "leave"}
        /\ wpc' = [wpc EXCEPT ![w] = wpc'[w]]
    BY InnerFrame DEF ServerInv
  <1>c. /\ wpc \in [Workers -> {"idle", "parse", "auth", "respond", "again", "leave", "close"}]
        /\ buffers \in Nat /\ timed \subseteq Clients /\ rejected \subseteq Clients
    BY DEF ServerInv, Types, TypeOK
  <1>w. w \in Running /\ Job(w) \in Clients /\ Job(w) \notin rejected
        /\ Job(w) \in {jobs[k] : k \in 1 .. started}
    <2>1. w \in Running
      BY <1>1 DEF ServerInv, TaskInv, Running
    <2>2. Job(w) \in Clients /\ current[w] \in 1 .. started
      BY <2>1, RunningTasks DEF ServerInv
    <2>3. Job(w) \notin rejected
      BY <1>1, <2>1 DEF ServerInv, BufferInv
    <2>4. QED
      BY <2>1, <2>2, <2>3 DEF Job
  <1>f. IsFiniteSet(Parsed) /\ IsFiniteSet(rejected)
    BY FiniteSets DEF ServerInv
  <1>n. Cardinality(Parsed) \in Nat /\ Cardinality(rejected) \in Nat
    BY <1>f, FS_CardinalityType
  <1>s. Running' = Running /\ (\A v \in Running : Job(v)' = Job(v))
        /\ {jobs[k] : k \in 1 .. started}' = {jobs[k] : k \in 1 .. started}
    BY <1>1 DEF pool, Running, Job
  <1>p. \A v \in Running : v # w => wpc'[v] = wpc[v]
    BY <1>1, <1>c DEF Running
  <1>k. \A v \in Running : v # w => Job(v) # Job(w)
    BY <1>w, RunningTasks DEF ServerInv
  \* A buffer more, or one less.
  <1>2. ASSUME wpc'[w] \in {"auth", "respond"}, wpc[w] \notin {"auth", "respond"}
        PROVE  Cardinality(Parsed') = Cardinality(Parsed) + 1
    <2>1. Parsed' = Parsed \union {w} /\ w \notin Parsed
      BY <1>1, <1>c, <1>2 DEF Parsed
    <2>2. QED
      BY <2>1, <1>f, FS_AddElement
  <1>3. ASSUME wpc'[w] \notin {"auth", "respond"}, wpc[w] \in {"auth", "respond"}
        PROVE  Cardinality(Parsed') = Cardinality(Parsed) - 1 /\ Cardinality(Parsed) > 0
    <2>1. Parsed' = Parsed \ {w} /\ w \in Parsed
      BY <1>1, <1>c, <1>3 DEF Parsed
    <2>2. Cardinality(Parsed') = Cardinality(Parsed) - 1 /\ Cardinality(Parsed') \in Nat
      BY <2>1, <1>f, FS_RemoveElement, FS_CardinalityType
    <2>3. QED
      BY <2>2, <1>n
  <1>4. ASSUME wpc'[w] \in {"auth", "respond"} <=> wpc[w] \in {"auth", "respond"}
        PROVE  Parsed' = Parsed
    BY <1>1, <1>c, <1>4 DEF Parsed
  <1>5. ASSUME rejected' = rejected \union {Job(w)}
        PROVE  Cardinality(rejected') = Cardinality(rejected) + 1
    BY <1>5, <1>w, <1>f, FS_AddElement
  <1>6. CASE ReadFails(w) \/ AuthOk(w) \/ Again(w) \/ InterruptRead(w)
    <2>1. UNCHANGED <<buffers, rejected, timed>>
          /\ (wpc'[w] \in {"auth", "respond"} <=> wpc[w] \in {"auth", "respond"})
      BY <1>6, <1>c DEF ReadFails, AuthOk, Again, InterruptRead, Work, peer
    <2>2. QED
      BY <2>1, <1>c, <1>4, <1>s, <1>p, <1>1 DEF ServerInv, BufferInv
  <1>7. CASE ReadRequest(w)
    <2>1. UNCHANGED <<rejected, timed>> /\ buffers' = buffers + 1
          /\ wpc[w] = "parse" /\ wpc'[w] = "auth"
      BY <1>7, <1>c DEF ReadRequest, Work, peer
    <2>2. QED
      BY <2>1, <1>c, <1>n, <1>2, <1>s, <1>p, <1>w DEF ServerInv, BufferInv
  <1>8. CASE ReadBadLine(w)
    <2>1. UNCHANGED timed /\ buffers' = buffers + 1 /\ rejected' = rejected \union {Job(w)}
          /\ wpc[w] = "parse" /\ wpc'[w] = "leave"
      BY <1>8, <1>c DEF ReadBadLine, Work, peer
    <2>2. QED
      BY <2>1, <1>c, <1>n, <1>4, <1>5, <1>s, <1>p, <1>w, <1>k DEF ServerInv, BufferInv
  <1>9. CASE AuthFails(w)
    <2>1. UNCHANGED <<timed, buffers>> /\ rejected' = rejected \union {Job(w)}
          /\ wpc[w] = "auth" /\ wpc'[w] = "leave"
      BY <1>9, <1>c DEF AuthFails, Work, peer
    <2>2. QED
      BY <2>1, <1>c, <1>n, <1>3, <1>5, <1>s, <1>p, <1>w, <1>k DEF ServerInv, BufferInv
  <1>10. CASE Respond(w)
    <2>1. UNCHANGED rejected /\ buffers' = buffers - 1 /\ timed' \subseteq timed \union {Job(w)}
          /\ wpc[w] = "respond" /\ wpc'[w] \in {"leave", "again"}
      BY <1>10, <1>c DEF Respond, RespondLast, RespondKeep, Work, peer
    <2>2. Cardinality(Parsed') = Cardinality(Parsed) - 1 /\ Cardinality(Parsed) > 0
      BY <2>1, <1>3
    <2>3. buffers = Cardinality(Parsed) + Cardinality(rejected)
      BY DEF ServerInv, BufferInv
    <2>4. buffers' \in Nat /\ buffers' = Cardinality(Parsed') + Cardinality(rejected')
      BY <2>1, <2>2, <2>3, <1>n
    <2>5. \A v \in Running' : wpc'[v] \notin {"leave", "close"} => Job(v)' \notin rejected'
      BY <2>1, <1>s, <1>p, <1>w DEF ServerInv, BufferInv
    <2>6. timed' \subseteq Clients /\ rejected' \subseteq Clients
      BY <2>1, <1>c, <1>w
    <2>7. QED
      BY <2>1, <2>4, <2>5, <2>6, <1>s DEF ServerInv, BufferInv
  <1>11. QED
    BY <1>6, <1>7, <1>8, <1>9, <1>10 DEF Inner, Read

LEMMA InnerServerInv ==
    ASSUME ServerInv, NEW w \in Workers, Inner(w)
    PROVE  ServerInv'
  <1> USE ServerAssumption
  <1>1. /\ UNCHANGED <<pool, jobs, conn, main, cfd, objects, stuck>>
        /\ shutdown' \in BOOLEAN /\ signals' \in 0 .. MaxSignals
        /\ wpc[w] \in {"parse", "auth", "respond", "again"}
        /\ wpc'[w] \in {"parse", "auth", "respond", "again", "leave"}
        /\ wpc' = [wpc EXCEPT ![w] = wpc'[w]]
    BY InnerFrame DEF ServerInv
  <1>t. shutdown' \in BOOLEAN
    BY <1>1
  <1>3. BufferInv' /\ buffers' \in Nat /\ timed' \subseteq Clients /\ rejected' \subseteq Clients
    BY InnerBuffers
  <1>c. wpc \in [Workers -> {"idle", "parse", "auth", "respond", "again", "leave", "close"}]
    BY DEF ServerInv, Types, TypeOK
  <1> USE <1>1 DEF pool, objects
  <1>s. Waiting' = Waiting /\ Running' = Running /\ Serving' = Serving /\ Handed' = Handed
    BY DEF Waiting, Running, Serving, Job, Handed
  <1>2. JobInv' /\ TaskInv' /\ OpenInv'
    BY <1>s, <1>c DEF ServerInv, JobInv, TaskInv, OpenInv
  <1>4. ObjInv' /\ PhaseInv'
    BY <1>s DEF ServerInv, ObjInv, PhaseInv, Early, Out, Late
  <1>5. Types'
    <2>1. wpc' \in [Workers -> {"idle", "parse", "auth", "respond", "again", "leave", "close"}]
      BY <1>c
    <2>2. QED
      BY <1>t, <1>3, <2>1 DEF ServerInv, Types, TypeOK, TaskTypes, Threads
  <1>6. CountInv'
    <2>1. \A v \in Running : wpc'[v] # "close" <=> wpc[v] # "close"
      BY <1>c DEF Running
    <2>2. \A ip \in IPs : Admitted(ip)' = Admitted(ip)
      BY <2>1, <1>s DEF Admitted, Job
    <2>3. QED
      BY <2>2 DEF ServerInv, CountInv, Limited
  <1>7. QED
    BY <1>2, <1>3, <1>4, <1>5, <1>6 DEF ServerInv

LEMMA LeaveServerInv ==
    ASSUME ServerInv, NEW w \in Workers, LeaveLimiter(w)
    PROVE  ServerInv'
  <1> USE ServerAssumption
  <1>1. /\ UNCHANGED <<pool, jobs, peer, main, cfd, buffers, rejected, obj, sig>>
        /\ wpc[w] = "leave" /\ wpc' = [wpc EXCEPT ![w] = "close"]
        /\ counted' = IF Limited THEN [counted EXCEPT ![IpOf[Job(w)]] = IF @ > 0 THEN @ - 1 ELSE 0]
                      ELSE counted
    BY DEF LeaveLimiter, Work, Lim!Leave
  <1>c. /\ wpc \in [Workers -> {"idle", "parse", "auth", "respond", "again", "leave", "close"}]
        /\ counted \in [IPs -> Nat]
    BY DEF ServerInv, Types, TypeOK
  <1>w. w \in Running /\ Job(w) \in Clients \ Waiting /\ IpOf[Job(w)] \in IPs
        /\ (cfd # None => Job(w) # cfd)
    <2>1. w \in Running
      BY <1>1 DEF ServerInv, TaskInv, Running
    <2>2. Job(w) \in Clients \ Waiting /\ (cfd # None => Job(w) # cfd)
      BY <2>1, RunningTasks DEF ServerInv
    <2>3. QED
      BY <2>1, <2>2
  <1>k. \A v \in Running : v # w => Job(v) # Job(w)
    BY <1>w, RunningTasks DEF ServerInv
  <1> USE <1>1 DEF pool, peer, sig
  <1>s. Waiting' = Waiting /\ Running' = Running /\ Serving' = Serving /\ Handed' = Handed
        /\ \A v \in Running : Job(v)' = Job(v)
    BY DEF Waiting, Running, Serving, Job, Handed
  <1>2. JobInv' /\ TaskInv' /\ OpenInv'
    BY <1>s, <1>c DEF ServerInv, JobInv, TaskInv, OpenInv
  <1>3. BufferInv'
    <2>1. Parsed' = Parsed
      BY <1>c DEF Parsed
    <2>2. \A v \in Running : wpc'[v] \notin {"leave", "close"} => wpc[v] \notin {"leave", "close"}
      BY <1>c DEF Running
    <2>3. QED
      BY <2>1, <2>2, <1>s DEF ServerInv, BufferInv
  <1>4. ObjInv' /\ PhaseInv'
    BY <1>s DEF ServerInv, ObjInv, PhaseInv, Early, Out, Late
  <1>a. \A v \in Running : wpc'[v] # "close" <=> v # w /\ wpc[v] # "close"
    BY <1>c DEF Running
  <1>p. PICK ip0 \in IPs : ip0 = IpOf[Job(w)]
    BY <1>w
  <1>b. Admitted(ip0)' = Admitted(ip0) \ {Job(w)} /\ Job(w) \in Admitted(ip0)
    <2>1. Job(w) \in Admitted(ip0)
      BY <1>w, <1>p DEF Admitted
    <2>2. main = "submit" => cfd # None
      BY DEF ServerInv, JobInv, Handing
    <2>3. Admitted(ip0)' = Admitted(ip0) \ {Job(w)}
      BY <1>s, <1>a, <1>w, <1>k, <1>p, <2>2 DEF Admitted
    <2>4. QED
      BY <2>1, <2>3
  <1>d. \A ip \in IPs : ip # ip0 => Admitted(ip)' = Admitted(ip)
    BY <1>s, <1>a, <1>w, <1>p DEF Admitted
  <1>e. Cardinality(Admitted(ip0)') = Cardinality(Admitted(ip0)) - 1
        /\ Cardinality(Admitted(ip0)') \in Nat
    <2>1. IsFiniteSet(Admitted(ip0))
      BY <1>w, FiniteSets DEF ServerInv
    <2>2. QED
      BY <2>1, <1>b, FS_RemoveElement, FS_CardinalityType
  <1>6. CountInv' /\ counted' \in [IPs -> Nat]
    <2>1. Limited' = Limited
      BY DEF Limited
    <2>2. ASSUME NEW ip \in IPs
          PROVE  /\ (counted[ip] = IF Limited THEN Cardinality(Admitted(ip)) ELSE 0)'
                 /\ counted'[ip] \in Nat
      <3>1. CASE ~Limited
        BY <3>1, <2>1, <1>c DEF ServerInv, CountInv
      <3>2. CASE Limited /\ ip # ip0
        BY <3>2, <2>1, <1>c, <1>d, <1>p DEF ServerInv, CountInv
      <3>3. CASE Limited /\ ip = ip0
        <4>1. counted[ip0] = Cardinality(Admitted(ip0)) /\ counted[ip0] \in Nat
          BY <3>3, <1>c DEF ServerInv, CountInv
        <4>2. counted[ip0] > 0
          BY <4>1, <1>e
        <4>3. counted'[ip0] = counted[ip0] - 1
          BY <3>3, <4>2, <1>c, <1>w, <1>p
        <4>4. QED
          BY <4>1, <4>3, <3>3, <2>1, <1>e
      <3>4. QED
        BY <3>1, <3>2, <3>3
    <2>3. counted' \in [IPs -> Nat]
      <3>1. DOMAIN counted' = IPs /\ counted' = [ip \in IPs |-> counted'[ip]]
        BY <1>c
      <3>2. QED
        BY <2>2, <3>1
    <2>4. QED
      BY <2>2, <2>3 DEF CountInv
  <1>5. Types'
    <2>1. wpc' \in [Workers -> {"idle", "parse", "auth", "respond", "again", "leave", "close"}]
      BY <1>c
    <2>2. QED
      BY <1>6, <2>1 DEF ServerInv, Types, TypeOK, TaskTypes, Threads
  <1>7. QED
    BY <1>2, <1>3, <1>4, <1>5, <1>6 DEF ServerInv

LEMMA CloseServerInv ==
    ASSUME ServerInv, NEW w \in Workers, CloseClient(w)
    PROVE  ServerInv'
  <1> USE ServerAssumption
  <1>1. /\ UNCHANGED <<submitted, started, phase, jobs, timed, main, cfd, buffers, rejected,
                       objects, sig>>
        /\ wpc[w] = "close" /\ wpc' = [wpc EXCEPT ![w] = "idle"]
        /\ conn' = [conn EXCEPT ![Job(w)] = "closed"]
        /\ current[w] # None /\ current' = [current EXCEPT ![w] = None]
    BY DEF CloseClient, Work, Pool!Finish
  <1>c. /\ wpc \in [Workers -> {"idle", "parse", "auth", "respond", "again", "leave", "close"}]
        /\ conn \in [Clients -> {"away", "open", "closed"}]
        /\ current \in [Workers -> (1 .. started) \union {None}]
    BY DEF ServerInv, Types, TypeOK, TaskTypes
  <1>w. w \in Running /\ Job(w) \in Clients \ Waiting /\ (cfd # None => Job(w) # cfd)
    <2>1. w \in Running
      BY <1>1 DEF Running
    <2>2. QED
      BY <2>1, RunningTasks DEF ServerInv
  <1>k. \A v \in Running : v # w => Job(v) # Job(w)
    BY <1>w, RunningTasks DEF ServerInv
  <1> USE <1>1 DEF objects, sig
  <1>r. Running' = Running \ {w} /\ \A v \in Running' : Job(v)' = Job(v) /\ wpc'[v] = wpc[v]
                                                   /\ current'[v] = current[v]
    BY <1>c DEF Running, Job
  <1>s. Waiting' = Waiting /\ Handed' = Handed
    BY DEF Waiting, Handed
  <1>v. Serving' = Serving \ {Job(w)}
    BY <1>r, <1>k, <1>w DEF Serving
  <1>2. JobInv' /\ TaskInv'
    <2>1. \A c \in Clients : conn[c] # "away" => conn'[c] # "away"
      BY <1>c
    <2>2. JobInv'
      <3>1. \A k \in 1 .. submitted : jobs[k] \in Clients
        BY JobsApart DEF ServerInv
      <3>2. cfd # None => cfd \in Clients
        BY DEF ServerInv, Types, TypeOK
      <3>3. QED
        BY <2>1, <3>1, <3>2 DEF ServerInv, JobInv
    <2>3. \A v \in Workers : wpc'[v] = "idle" <=> current'[v] = None
      BY <1>c DEF ServerInv, TaskInv
    <2>4. QED
      BY <2>2, <2>3, <1>r DEF ServerInv, TaskInv
  <1>o. OpenInv'
    <2>1. {c \in Clients : conn'[c] = "open"} = {c \in Clients : conn[c] = "open"} \ {Job(w)}
      BY <1>c, <1>w
    <2>2. Job(w) \notin Handed \union Waiting
      BY <1>w DEF Handed
    <2>3. QED
      BY <1>s, <1>v, <2>1, <2>2 DEF ServerInv, OpenInv
  <1>3. BufferInv'
    <2>1. Parsed' = Parsed
      BY <1>c DEF Parsed
    <2>2. QED
      BY <2>1, <1>r DEF ServerInv, BufferInv
  <1>4. ObjInv' /\ PhaseInv'
    BY <1>s, <1>r DEF ServerInv, ObjInv, PhaseInv, Early, Out, Late
  <1>5. Types'
    <2>1. /\ wpc' \in [Workers -> {"idle", "parse", "auth", "respond", "again", "leave", "close"}]
          /\ conn' \in [Clients -> {"away", "open", "closed"}]
          /\ current' \in [Workers -> (1 .. started') \union {None}]
      BY <1>c
    <2>2. QED
      BY <2>1 DEF ServerInv, Types, TypeOK, TaskTypes, Threads
  <1>6. CountInv'
    <2>1. \A ip \in IPs : Admitted(ip)' = Admitted(ip)
      BY <1>r, <1>s DEF Admitted
    <2>2. QED
      BY <2>1 DEF ServerInv, CountInv, Limited
  <1>7. QED
    BY <1>2, <1>o, <1>3, <1>4, <1>5, <1>6 DEF ServerInv

\* A signal that ends no call, or nothing at all.
LEMMA SignalServerInv ==
    ASSUME ServerInv,
           \/ \E t \in Threads : Signal(t) \/ SignalWhileLogging(t)
           \/ UNCHANGED vars
    PROVE  ServerInv'
  <1>1. UNCHANGED <<pool, jobs, peer, main, cfd, worker, objects>>
    BY DEF Signal, SignalWhileLogging, vars
  <1>2. shutdown' \in BOOLEAN
    BY DEF Signal, SignalWhileLogging, vars, sig, ServerInv, Types, TypeOK
  <1>3. stuck' \subseteq Threads /\ signals' \in 0 .. MaxSignals
    BY ServerAssumption
    DEF Signal, SignalWhileLogging, Delivered, vars, sig, ServerInv, Types, TypeOK
  <1> USE <1>1 DEF pool, peer, worker, objects
  <1>s. Waiting' = Waiting /\ Running' = Running /\ Serving' = Serving /\ Handed' = Handed
        /\ Parsed' = Parsed /\ (\A v \in Running : Job(v)' = Job(v))
        /\ \A ip \in IPs : Admitted(ip)' = Admitted(ip)
    BY DEF Waiting, Running, Serving, Job, Handed, Parsed, Admitted
  <1>4. JobInv' /\ TaskInv' /\ OpenInv'
    BY <1>s DEF ServerInv, JobInv, TaskInv, OpenInv
  <1>5. ObjInv' /\ PhaseInv'
    BY <1>s DEF ServerInv, ObjInv, PhaseInv
  <1>6. CountInv' /\ BufferInv'
    BY <1>s DEF ServerInv, CountInv, BufferInv, Limited
  <1>7. Types'
    BY <1>2, <1>3 DEF ServerInv, Types, TypeOK, TaskTypes, Threads
  <1>8. QED
    BY <1>4, <1>5, <1>6, <1>7 DEF ServerInv

-----------------------------------------------------------------------------
(* The invariant, and what follows from it.                                *)

LEMMA ServerInvInit == Init => ServerInv
  <1> SUFFICES ASSUME Init PROVE ServerInv
    OBVIOUS
  <1> USE ServerAssumption DEF Init, Pool!Init, Lim!Init
  <1>s. Waiting = {} /\ Running = {} /\ Serving = {} /\ Handed = {} /\ Parsed = {}
        /\ \A ip \in IPs : Admitted(ip) = {}
    BY DEF Waiting, Running, Serving, Handed, Parsed, Admitted
  <1>1. Types
    <2>1. jobs \in Seq(Clients) /\ Len(jobs) = submitted
      OBVIOUS
    <2>2. shutdown \in BOOLEAN
      OBVIOUS
    <2>3. counted \in [IPs -> Nat] /\ obj \in [Objects -> {"none", "live", "gone", "twice"}]
      OBVIOUS
    <2>4. signals \in 0 .. MaxSignals /\ stuck \subseteq Threads
      OBVIOUS
    <2>5. QED
      BY <2>1, <2>2, <2>3, <2>4 DEF Types, TypeOK, TaskTypes
  <1>2. JobInv /\ TaskInv
    BY DEF JobInv, TaskInv, Handing, Running
  <1>3. OpenInv
    BY <1>s DEF OpenInv
  <1>4. PhaseInv
    BY DEF PhaseInv, Late
  <1>5. ObjInv
    BY DEF ObjInv, Objects, Early, Out, Late
  <1>6. CountInv
    BY <1>s, FS_EmptySet DEF CountInv
  <1>7. BufferInv
    BY <1>s, FS_EmptySet DEF BufferInv
  <1>8. QED
    BY <1>1, <1>2, <1>3, <1>4, <1>5, <1>6, <1>7 DEF ServerInv

LEMMA ServerInvNext == ServerInv /\ [Next]_vars => ServerInv'
  <1> SUFFICES ASSUME ServerInv, [Next]_vars PROVE ServerInv'
    OBVIOUS
  <1>1. CASE MainStep
    <2>1. CASE Makes
      BY <2>1, MakesServerInv
    <2>2. CASE Moves
      BY <2>2, MovesServerInv
    <2>3. CASE Drops
      BY <2>3, DropsServerInv
    <2>4. CASE \E c \in Clients : Accept(c)
      BY <2>4, AcceptServerInv
    <2>5. CASE Admit
      BY <2>5, AdmitServerInv
    <2>6. CASE Submit
      BY <2>6, SubmitServerInv
    <2>7. CASE DestroyPool \/ Joined
      BY <2>7, DestroyPoolServerInv
    <2>8. QED
      BY <1>1, <2>1, <2>2, <2>3, <2>4, <2>5, <2>6, <2>7 DEF MainStep, Loop, Makes, Moves, Drops
  <1>2. ASSUME NEW w \in Workers, WorkerStep(w) PROVE ServerInv'
    <2>1. CASE Take(w)
      BY <2>1, TakeServerInv
    <2>2. CASE Inner(w)
      BY <2>2, InnerServerInv
    <2>3. CASE LeaveLimiter(w)
      BY <2>3, LeaveServerInv
    <2>4. CASE CloseClient(w)
      BY <2>4, CloseServerInv
    <2>5. QED
      BY <1>2, <2>1, <2>2, <2>3, <2>4 DEF WorkerStep, Handle, Inner
  <1>3. CASE \E t \in Threads : Signal(t) \/ SignalWhileLogging(t)
    BY <1>3, SignalServerInv
  <1>4. CASE InterruptAccept \/ InterruptHandshake
    BY <1>4, MovesServerInv, DropsServerInv DEF Moves, Drops
  <1>5. CASE \E w \in Workers : InterruptRead(w)
    BY <1>5, InnerServerInv DEF Inner
  <1>6. CASE UNCHANGED vars
    BY <1>6, SignalServerInv
  <1>7. QED
    BY <1>1, <1>2, <1>3, <1>4, <1>5, <1>6 DEF Next

LEMMA ServerAlways == Spec => []ServerInv
  BY ServerInvInit, ServerInvNext, PTL DEF Spec

LEMMA DisjointUnion ==
    ASSUME NEW S, NEW T, IsFiniteSet(S), IsFiniteSet(T), S \intersect T = {}
    PROVE  /\ IsFiniteSet(S \union T)
           /\ Cardinality(S \union T) = Cardinality(S) + Cardinality(T)
  <1>1. Cardinality(S) \in Nat /\ Cardinality(T) \in Nat
    BY FS_CardinalityType
  <1>2. IsFiniteSet(S \union T)
        /\ Cardinality(S \union T) = Cardinality(S) + Cardinality(T) - Cardinality(S \intersect T)
    BY FS_Union
  <1>3. Cardinality(S \intersect T) = 0
    BY FS_EmptySet
  <1>4. QED
    BY <1>1, <1>2, <1>3

\* As many jobs wait as the pool has tasks waiting, and every worker that runs one
\* has a connection of its own.
LEMMA OwnersCounted ==
    ASSUME ServerInv
    PROVE  /\ IsFiniteSet(Waiting) /\ Cardinality(Waiting) = submitted - started
           /\ IsFiniteSet(Serving) /\ Cardinality(Serving) = Cardinality(Running)
  <1>1. submitted \in Nat /\ started \in 0 .. submitted
    BY DEF ServerInv, Types, TaskTypes
  <1>2. IsFiniteSet(Waiting) /\ Cardinality(Waiting) = submitted - started
    <2> DEFINE K == started + 1 .. submitted
               f == [k \in K |-> jobs[k]]
    <2>1. IsFiniteSet(K) /\ Cardinality(K) = submitted - started
      <3>1. started + 1 \in Int /\ submitted \in Int
        BY <1>1
      <3>2. IsFiniteSet(K) /\ Cardinality(K) = IF started + 1 > submitted THEN 0
                                                ELSE submitted - (started + 1) + 1
        BY <3>1, FS_Interval
      <3>3. QED
        BY <1>1, <3>2
    <2>2. \A k, l \in K : jobs[k] = jobs[l] => k = l
      BY <1>1, JobsApart DEF ServerInv
    <2>3. f \in Bijection(K, Waiting)
      BY <2>2 DEF Bijection, Injection, Surjection, IsInjective, Waiting
    <2>4. QED
      BY <2>1, <2>3, FS_Bijection DEF ExistsBijection
  <1>3. IsFiniteSet(Serving) /\ Cardinality(Serving) = Cardinality(Running)
    <2> DEFINE f == [w \in Running |-> Job(w)]
    <2>1. IsFiniteSet(Running)
      BY FiniteSets DEF ServerInv
    <2>2. \A v, w \in Running : Job(v) = Job(w) => v = w
      BY RunningTasks DEF ServerInv
    <2>3. f \in Bijection(Running, Serving)
      BY <2>2 DEF Bijection, Injection, Surjection, IsInjective, Serving
    <2>4. QED
      BY <2>1, <2>3, FS_Bijection DEF ExistsBijection
  <1>4. QED
    BY <1>2, <1>3

\* Type correctness of the server.
THEOREM ServerTypeOK == Spec => []TypeOK
  <1>1. ServerInv => TypeOK
    BY DEF ServerInv, Types
  <1>2. QED
    BY <1>1, ServerAlways, PTL

\* Every open connection is the main thread's, a waiting job's or one worker's, for
\* every number of connections and workers: server_run and handle_client close each
\* descriptor once, whatever fails and whenever a signal comes.
THEOREM ServerOneOwner == Spec => []OneOwner
  <1>1. ASSUME ServerInv PROVE OneOwner
    <2>1. {c \in Clients : conn[c] = "open"} = Handed \union Waiting \union Serving
      BY <1>1 DEF ServerInv, OpenInv
    <2>2. Handed \intersect (Waiting \union Serving) = {} /\ Waiting \intersect Serving = {}
      <3>1. \A w \in Running : Job(w) \notin Waiting /\ (cfd # None => Job(w) # cfd)
        BY <1>1, RunningTasks DEF ServerInv
      <3>2. cfd \notin Waiting
        BY <1>1, RunningTasks DEF ServerInv
      <3>3. QED
        BY <3>1, <3>2 DEF Handed, Serving
    <2>3. IsFiniteSet(Handed) /\ Cardinality(Handed) \in Nat
      BY FS_EmptySet, FS_Singleton DEF Handed
    <2>4. /\ IsFiniteSet(Waiting) /\ Cardinality(Waiting) = submitted - started
          /\ IsFiniteSet(Serving) /\ Cardinality(Serving) = Cardinality(Running)
      BY <1>1, OwnersCounted
    <2>5. /\ IsFiniteSet(Waiting \union Serving)
          /\ Cardinality(Waiting \union Serving) = Cardinality(Waiting) + Cardinality(Serving)
      BY <2>2, <2>4, DisjointUnion
    <2>6. Cardinality(Handed \union (Waiting \union Serving))
            = Cardinality(Handed) + Cardinality(Waiting \union Serving)
      BY <2>2, <2>3, <2>5, DisjointUnion
    <2>7. Handed \union Waiting \union Serving = Handed \union (Waiting \union Serving)
      OBVIOUS
    <2>8. Cardinality(Waiting) \in Nat /\ Cardinality(Serving) \in Nat
      BY <2>4, FS_CardinalityType
    <2>9. Cardinality(Handed) + (submitted - started) + Cardinality(Running)
            = Cardinality(Handed \union (Waiting \union Serving))
      BY <2>3, <2>4, <2>5, <2>6, <2>8
    <2>10. QED
      BY <2>1, <2>7, <2>9 DEF OneOwner
  <1>2. QED
    BY <1>1, ServerAlways, PTL

\* The limiter's counts are paired: one ratelimit_leave for each ratelimit_accept
\* that said yes, on every way out of handle_client, for every number of addresses.
THEOREM ServerCountsAdmitted == Spec => []CountsAdmitted
  <1>1. ServerInv => CountsAdmitted
    BY DEF ServerInv, CountInv, CountsAdmitted, Admitted
  <1>2. QED
    BY <1>1, ServerAlways, PTL

\* What server_run frees, nobody uses: no job waits or runs when the limiter, the
\* caches, the pool or the TLS context are gone.
THEOREM ServerNoUseAfterFree == Spec => []NoUseAfterFree
  <1>1. ASSUME ServerInv PROVE NoUseAfterFree
    <2>1. submitted = 0 \/ phase = "gone" => Waiting = {} /\ Running = {}
      BY <1>1 DEF ServerInv, PhaseInv, Types, TaskTypes, Waiting, Running
    <2>2. \A o \in Objects \ {"listener"} :
              obj[o] \in {"gone", "twice"} => submitted = 0 \/ phase = "gone"
      BY <1>1 DEF ServerInv, PhaseInv, ObjInv, Objects, Early, Out, Late
    <2>3. QED
      BY <2>1, <2>2 DEF NoUseAfterFree, Serving
  <1>2. QED
    BY <1>1, ServerAlways, PTL

\* Everything made is released once when server_run returns, but the TLS context,
\* which a PEM file that cannot be loaded releases twice.
THEOREM ServerReleasedOnce == Spec => []ReleasedOnce
  <1>1. ServerInv => ReleasedOnce
    BY DEF ServerInv, ObjInv, ReleasedOnce
  <1>2. QED
    BY <1>1, ServerAlways, PTL

\* No request buffer is lost but those of a 401 and of a bad request line, for every
\* number of workers and connections.
THEOREM ServerBuffersAccounted == Spec => []BuffersAccounted
  <1>1. ServerInv => BuffersAccounted
    BY DEF ServerInv, BufferInv, BuffersAccounted, Parsed
  <1>2. QED
    BY <1>1, ServerAlways, PTL

=============================================================================
