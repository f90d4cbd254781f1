----------------------------- MODULE RateLimit ------------------------------
(***************************************************************************)
(* src/ratelimit.c: how many connections each client address has open, in  *)
(* a hash table with linear probing that is swept of stale entries and     *)
(* doubled when it is loaded.                                              *)
(*                                                                         *)
(* Every operation runs from start to end under rl->lock, so each is one   *)
(* step.  ratelimit_accept is called by the main thread for a connection,  *)
(* ratelimit_leave by the worker that has finished with it.                *)
(***************************************************************************)
EXTENDS Integers, FiniteSets

CONSTANTS IPs,           \* client addresses
          NoIP,          \* the NULL of an unused entry
          HashValues,    \* the hash_ip values the model tries
          MaxPerIp,      \* max_per_ip
          InitialSize,   \* RL_INITIAL_SIZE
          StaleTimeout,  \* RL_STALE_TIMEOUT_SECS
          MaxSize,       \* bound of the model: a larger table cannot be allocated
          MaxTime        \* bound of the model: the last second of the clock

ASSUME RateLimitAssumption ==
    /\ NoIP \notin IPs
    /\ HashValues \subseteq Nat
    /\ {MaxPerIp, InitialSize, StaleTimeout} \subseteq Nat \ {0}
    /\ MaxSize \in Nat /\ MaxTime \in Nat

VARIABLES table,     \* table[s] for the slots 0 .. size - 1
          size,      \* table_size
          used,
          lastSweep,
          clock,     \* time(NULL)
          hash,      \* hash[ip] = hash_ip(ip): chosen once, never changed
          active,    \* active[ip]: connections accepted and not left yet
          bypassed   \* addresses with a freed slot between their hash and their entry

rl   == <<table, size, used, lastSweep>>
vars == <<rl, clock, hash, active, bypassed>>

Entry == [ip : IPs \union {NoIP}, count : Nat, last : Nat]
Empty == [ip |-> NoIP, count |-> 0, last |-> 0]

Slots(n) == 0 .. n - 1

-----------------------------------------------------------------------------
(* Linear probing in a table of n slots. *)
Probe(n, ip, i) == ((hash[ip] % n) + i) % n

\* The first slot on ip's probe path that lies in S, which is not empty.
FirstOf(n, ip, S) ==
    Probe(n, ip, CHOOSE i \in Slots(n) :
        /\ Probe(n, ip, i) \in S
        /\ \A j \in 0 .. i - 1 : Probe(n, ip, j) \notin S)

\* Slot s comes before slot e on ip's probe path.
Before(n, ip, s, e) == \E i, j \in Slots(n) : i < j /\ Probe(n, ip, i) = s /\ Probe(n, ip, j) = e

-----------------------------------------------------------------------------
Init ==
    /\ table = [s \in Slots(InitialSize) |-> Empty]
    /\ size = InitialSize
    /\ used = 0
    /\ lastSweep = 0
    /\ clock = 0
    /\ hash \in [IPs -> HashValues]
    /\ active = [ip \in IPs |-> 0]
    /\ bypassed = {}

Tick ==
    /\ clock < MaxTime
    /\ clock' = clock + 1
    /\ UNCHANGED <<rl, hash, active, bypassed>>

-----------------------------------------------------------------------------
(* ratelimit_sweep_stale: free the dormant entries nobody has touched for  *)
(* longer than the timeout.                                                *)
Stale == {s \in Slots(size) :
    /\ table[s].count = 0 /\ table[s].ip # NoIP
    /\ clock - table[s].last > StaleTimeout}

SweepDue == clock - lastSweep >= StaleTimeout

Freed == IF SweepDue THEN Stale ELSE {}

Swept == [table   |-> [s \in Slots(size) |-> IF s \in Freed THEN Empty ELSE table[s]],
          size    |-> size,
          used    |-> used - Cardinality(Freed)]

(* ratelimit_grow: reinsert the entries in use, in slot order, in a table  *)
(* of twice the size; dormant entries are dropped, and `used' is kept.     *)
Reinserted(t, n, e) ==
    LET free == {s \in Slots(n) : t[s].count = 0}
    IN  IF e.count = 0 THEN t ELSE [t EXCEPT ![FirstOf(n, e.ip, free)] = e]

Rehash(t, n) ==
    LET after[k \in 0 .. n] ==      \* the new table after the first k old slots
            IF k = 0 THEN [s \in Slots(2 * n) |-> Empty]
            ELSE Reinserted(after[k - 1], 2 * n, t[k - 1])
    IN after[n]

GrowResetsUsed(r) ==                \* faulty: counts the new table from zero
    [table |-> Rehash(r.table, r.size), size |-> 2 * r.size, used |-> 0]

Grow(r) == [table |-> Rehash(r.table, r.size), size |-> 2 * r.size, used |-> r.used]

Loaded(r) == r.used * 4 >= r.size * 3

\* The table ratelimit_accept searches.  Allocating the larger one may fail,
\* which is tolerated.
Prepared ==
    {Swept} \union IF Loaded(Swept) /\ 2 * size <= MaxSize THEN {Grow(Swept)} ELSE {}

(* The rest of ratelimit_accept. *)
Unused(e) == e.count = 0 /\ e.ip = NoIP

\* Where the probe for ip can end in the table r.
Ends(r, ip) == {s \in Slots(r.size) : Unused(r.table[s]) \/ r.table[s].ip = ip}

Touched(r, s, n) == [r.table EXCEPT ![s].count = n, ![s].last = clock]

\* The addresses counted in an entry that the sweep parts from their hash slot.
CutOff ==
    {ip \in IPs : \E s \in Freed, e \in Slots(size) :
        table[e].ip = ip /\ table[e].count > 0 /\ Before(size, ip, s, e)}

\* What every outcome of ratelimit_accept leaves behind: the prepared table,
\* with its entries now t, and the time of the sweep.
Settle(r, t, n) ==
    /\ table' = t
    /\ size' = r.size
    /\ used' = n
    /\ lastSweep' = IF SweepDue THEN clock ELSE lastSweep
    /\ bypassed' = bypassed \union CutOff
    /\ UNCHANGED <<clock, hash>>

AcceptNew(ip) ==
    \E r \in Prepared :
        /\ Ends(r, ip) # {}
        /\ LET s == FirstOf(r.size, ip, Ends(r, ip)) IN
             /\ Unused(r.table[s])
             /\ Settle(r, [Touched(r, s, 1) EXCEPT ![s].ip = ip], r.used + 1)
        /\ active' = [active EXCEPT ![ip] = @ + 1]

AcceptKnownUnlimited(ip) ==        \* faulty: allows one connection too many
    \E r \in Prepared :
        /\ Ends(r, ip) # {}
        /\ LET s == FirstOf(r.size, ip, Ends(r, ip)) IN
             /\ r.table[s].ip = ip
             /\ r.table[s].count <= MaxPerIp
             /\ Settle(r, Touched(r, s, r.table[s].count + 1), r.used)
        /\ active' = [active EXCEPT ![ip] = @ + 1]

AcceptKnown(ip) ==
    \E r \in Prepared :
        /\ Ends(r, ip) # {}
        /\ LET s == FirstOf(r.size, ip, Ends(r, ip)) IN
             /\ r.table[s].ip = ip
             /\ r.table[s].count < MaxPerIp
             /\ Settle(r, Touched(r, s, r.table[s].count + 1), r.used)
        /\ active' = [active EXCEPT ![ip] = @ + 1]

\* 429: the entry found is at its limit.
RejectOverLimit(ip) ==
    \E r \in Prepared :
        /\ Ends(r, ip) # {}
        /\ LET s == FirstOf(r.size, ip, Ends(r, ip)) IN
             /\ r.table[s].ip = ip
             /\ r.table[s].count >= MaxPerIp
             /\ Settle(r, Touched(r, s, r.table[s].count), r.used)
        /\ UNCHANGED active

\* 429: strdup failed for a new entry.
RejectNoMemory(ip) ==
    \E r \in Prepared :
        /\ Ends(r, ip) # {}
        /\ Unused(r.table[FirstOf(r.size, ip, Ends(r, ip))])
        /\ Settle(r, r.table, r.used)
        /\ UNCHANGED active

\* 429: every slot was probed, which takes a growth that failed.
RejectFull(ip) ==
    \E r \in Prepared :
        /\ Ends(r, ip) = {}
        /\ Settle(r, r.table, r.used)
        /\ UNCHANGED active

(* ratelimit_leave, for a connection that was accepted.                    *)
Held(ip) == {s \in Slots(size) : table[s].count > 0 /\ table[s].ip = ip}

LeaveFirstMatch(ip) ==      \* faulty: takes the first entry, dormant or not
    LET named == {s \in Slots(size) : table[s].ip = ip}
        s == FirstOf(size, ip, named)
    IN /\ active[ip] > 0
       /\ table' = IF named = {} \/ table[s].count = 0 THEN table
                   ELSE [table EXCEPT ![s].count = @ - 1, ![s].last = clock]
       /\ active' = [active EXCEPT ![ip] = @ - 1]
       /\ UNCHANGED <<size, used, lastSweep, clock, hash, bypassed>>

LeaveAtHash(ip) ==          \* faulty: looks at the hash slot only
    LET s == Probe(size, ip, 0)
    IN /\ active[ip] > 0
       /\ table' = IF s \notin Held(ip) THEN table
                   ELSE [table EXCEPT ![s].count = @ - 1, ![s].last = clock]
       /\ active' = [active EXCEPT ![ip] = @ - 1]
       /\ UNCHANGED <<size, used, lastSweep, clock, hash, bypassed>>

Leave(ip) ==
    /\ active[ip] > 0
    /\ table' = IF Held(ip) = {} THEN table
                ELSE [table EXCEPT ![FirstOf(size, ip, Held(ip))].count = @ - 1,
                                   ![FirstOf(size, ip, Held(ip))].last = clock]
    /\ active' = [active EXCEPT ![ip] = @ - 1]
    /\ UNCHANGED <<size, used, lastSweep, clock, hash, bypassed>>

-----------------------------------------------------------------------------
Next ==
    \/ Tick
    \/ \E ip \in IPs :
          \/ AcceptNew(ip) \/ AcceptKnown(ip)
          \/ RejectOverLimit(ip) \/ RejectNoMemory(ip) \/ RejectFull(ip)
          \/ Leave(ip)

Spec == Init /\ [][Next]_vars

-----------------------------------------------------------------------------
(* Properties *)

TypeOK ==
    /\ size \in Nat \ {0}
    /\ table \in [Slots(size) -> Entry]
    /\ used \in Nat
    /\ lastSweep \in 0 .. clock /\ clock \in 0 .. MaxTime
    /\ hash \in [IPs -> HashValues]
    /\ active \in [IPs -> Nat]
    /\ bypassed \subseteq IPs

Occupied == {s \in Slots(size) : table[s].ip # NoIP}

\* What the entries of ip in the table t of n slots count, one element for each.
Counted(t, n, ip) ==
    UNION {{s} \X (1 .. t[s].count) : s \in {e \in Slots(n) : t[e].ip = ip}}

\* The counts kept for an address add up to its open connections: a leave
\* always finds an entry to decrement, across sweeps, growth and duplicates,
\* so no address is ever locked out by a connection that is gone.
CountsAreConnections ==
    \A ip \in IPs : active[ip] = Cardinality(Counted(table, size, ip))

\* `used' is never less than the number of occupied slots, although a growth
\* drops entries without counting them: the size_t decrement of the sweep
\* cannot wrap around, and a table that is filling up is noticed.
UsedCoversTable == used >= Cardinality(Occupied)

\* The limit of ratelimit.h holds for every address whose entry no sweep has
\* cut off from its hash slot.
LimitUnlessBypassed == \A ip \in IPs \ bypassed : active[ip] <= MaxPerIp

\* An address is turned away for its number of connections only when it has
\* that many: a sweep or a growth never makes ratelimit_accept overcount.
RejectionsJustified ==
    [][\A ip \in IPs : RejectOverLimit(ip) => active[ip] >= MaxPerIp]_vars

\* What Server takes the limiter for: a count for each address, which an accept
\* raises, a leave lowers and a refusal leaves alone, whatever the table does.
Counts == INSTANCE Limiter WITH
    counted <- [ip \in IPs |-> Cardinality(Counted(table, size, ip))]

ImplementsLimiter == Counts!Spec

\* The same call by call: each function has the effect Server gives it.
CallsAsPromised ==
    [][\A ip \in IPs :
         /\ AcceptNew(ip) \/ AcceptKnown(ip) => Counts!Admit(ip)
         /\ RejectOverLimit(ip) \/ RejectNoMemory(ip) \/ RejectFull(ip) => Counts!Refuse(ip)
         /\ Leave(ip) => Counts!Leave(ip)]_vars

\* ratelimit.h:8, "rejects new ones when the configured limit is exceeded":
\* no address ever has more than MaxPerIp connections.
PerIpLimit == \A ip \in IPs : active[ip] <= MaxPerIp

=============================================================================
