----------------------------- MODULE MCTaxDelivery -----------------------------
(* Small instances of TaxDelivery. *)
EXTENDS TaxDelivery

CONSTANTS timer, w1, w2, url1, url2
================================================================================
