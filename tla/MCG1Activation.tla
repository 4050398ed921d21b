---------------------------- MODULE MCG1Activation ----------------------------
(* Small instances of G1Activation. *)
EXTENDS G1Activation, TLC

CONSTANTS w1, w2, w3

TwoWorkers == {w1, w2}
ThreeWorkers == {w1, w2, w3}

\* Invocations are interchangeable.
G1Symmetry == Permutations({w1, w2, w3})
===============================================================================
