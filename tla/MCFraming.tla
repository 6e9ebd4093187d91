----------------------------- MODULE MCFraming -----------------------------
(***************************************************************************)
(* A small instance of Framing for TLC: short and long messages in turn.   *)
(***************************************************************************)
EXTENDS Framing

CONSTANTS ack, arrived, purchase, ready

Pieces == [m \in Messages |-> IF m = purchase THEN 3 ELSE IF m = ack THEN 1 ELSE 2]

=============================================================================
