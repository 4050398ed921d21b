---------------------------- MODULE MCCustomerCare -----------------------------
(* Small instances of CustomerCare. *)
EXTENDS CustomerCare, TLC

CONSTANTS t1, t2, s1, r1, n1, n2, k1, k2, u1, u2

CareSymmetry == Permutations({u1, u2}) \cup Permutations({k1, k2})
================================================================================
