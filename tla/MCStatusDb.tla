----------------------------- MODULE MCStatusDb -----------------------------
(***************************************************************************)
(* A small instance of StatusDb for TLC: two threads and three             *)
(* connections, so that the second leak leaves a thread without.           *)
(***************************************************************************)
EXTENDS StatusDb

CONSTANTS t1, t2, o1, o2

=============================================================================
