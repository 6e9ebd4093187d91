------------------------------ MODULE MCIntake ------------------------------
(***************************************************************************)
(* A small instance of Intake for TLC: three orders, which compete for the *)
(* server's two descriptors; one may be lost to a connection that broke,   *)
(* and one to an order that cannot be handled.                             *)
(***************************************************************************)
EXTENDS Intake

CONSTANTS o1, o2, o3

(* The text of o1 may be cut in half, that of the others comes or does not. *)
Lengths == [o \in Orders |-> IF o = o1 THEN 2 ELSE 1]

=============================================================================
