------------------------------ MODULE MCOutbox ------------------------------
(***************************************************************************)
(* A small instance of Outbox for TLC: a command for each peer, with their *)
(* bits in one word.                                                       *)
(***************************************************************************)
EXTENDS Outbox

CONSTANTS purchase, pickup, World, UPS

Addressee == [c \in Commands |-> IF c = pickup THEN UPS ELSE World]

=============================================================================
