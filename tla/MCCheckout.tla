----------------------------- MODULE MCCheckout -----------------------------
(***************************************************************************)
(* Small instances of Checkout for TLC.  Requests and products are         *)
(* symmetric: none is named by the specification.                          *)
(***************************************************************************)
EXTENDS Checkout, TLC

RequestsAndProducts == Permutations(Requests) \cup Permutations(Products)

=============================================================================
