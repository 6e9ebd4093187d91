--------------------------- MODULE OrderLifecycle ---------------------------
(***************************************************************************)
(* What the server promises about the status column of an order: it takes  *)
(* the values below in this order, one at a time, and never goes back.     *)
(* The values are those that the server writes with Update_Order_Status;   *)
(* "ordered" is the default of the column, set when the web site saves the *)
(* order.                                                                  *)
(***************************************************************************)
EXTENDS Naturals

CONSTANT Orders      \* the primary keys of the orders, used as package ids

VARIABLE status      \* status[o] is the status column of order o

Stages == <<"ordered", "packing", "packed", "loading", "delivering", "delivered">>

Status == {Stages[i] : i \in DOMAIN Stages}

Rank(s) == CHOOSE i \in DOMAIN Stages : Stages[i] = s

Init == status = [o \in Orders |-> "ordered"]

(* The package of order o reaches the next stage of its way.               *)
Advance(o) ==
  \E s \in Status : /\ Rank(s) = Rank(status[o]) + 1
                    /\ status' = [status EXCEPT ![o] = s]

Next == \E o \in Orders : Advance(o)

Spec == Init /\ [][Next]_status

=============================================================================
