------------------------------ MODULE Limiter ------------------------------
(***************************************************************************)
(* What src/ratelimit.c promises to src/server.c, without its hash table,  *)
(* its sweeps and its growth: how many connections it counts for each      *)
(* address.  When it refuses is its own affair.                            *)
(***************************************************************************)
EXTENDS Naturals

CONSTANT IPs

VARIABLE counted

Init == counted = [ip \in IPs |-> 0]

Admit(ip) == counted' = [counted EXCEPT ![ip] = @ + 1]

Refuse(ip) == UNCHANGED counted

\* Leaving with nothing counted changes nothing.
Leave(ip) == counted' = [counted EXCEPT ![ip] = IF @ > 0 THEN @ - 1 ELSE 0]

Next == \E ip \in IPs : Admit(ip) \/ Refuse(ip) \/ Leave(ip)

Spec == Init /\ [][Next]_counted

=============================================================================
