--------------------------- MODULE MCG3Installation ---------------------------
(* Small instances of G3Installation. *)
EXTENDS G3Installation, TLC

CONSTANTS r1, r2, w1, w2, w3, c1, c2

TwoRequests == {r1, r2}
TwoWorkers == {w1, w2}
ThreeWorkers == {w1, w2, w3}
TwoClosures == {c1, c2}

\* Requests, invocations and closure contents are interchangeable.
G3Symmetry == Permutations({r1, r2}) \cup Permutations({w1, w2, w3}) \cup Permutations({c1, c2})
===============================================================================
