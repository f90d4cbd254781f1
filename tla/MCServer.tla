------------------------------ MODULE MCServer ------------------------------
(* Two connections from one address and, between them, one from another.   *)
EXTENDS Server

CONSTANTS ip1, ip2

MCIpOf == [c \in Clients |-> IF c % 2 = 1 THEN ip1 ELSE ip2]

=============================================================================
