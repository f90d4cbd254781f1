---------------------------- MODULE MCRateLimit -----------------------------
(* What TLC needs to check RateLimit: the addresses are interchangeable,   *)
(* because Init gives them every combination of hash values.               *)
EXTENDS RateLimit, TLC

Addresses == Permutations(IPs)
=============================================================================
