---------------------------- MODULE MCProspectSale ----------------------------
(* Small instances of ProspectSale. *)
EXTENDS ProspectSale, TLC

CONSTANTS u1, u2, a, b, casa, campo

\* Both plans are sold at one place; the other one has no coverage.
PlanesDe == casa :> {a, b} @@ campo :> {}
===============================================================================
