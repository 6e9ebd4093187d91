------------------------------- MODULE Basket -------------------------------
(***************************************************************************)
(* What the web shop promises a customer: one basket that every click      *)
(* changes at once, and an order that takes the whole basket with it.      *)
(***************************************************************************)
EXTENDS Naturals

CONSTANTS
  Products,       \* what the shop sells
  Requests,       \* orders, named by the requests that place them
  Quantities,     \* what can be chosen in the form
  NoOrder,        \* nothing was ordered by this request
  ServerMayFail   \* may an order be taken and not reach the server?

VARIABLES
  basket,         \* basket[p]: how many of p, 0 when it has no line
  ordered         \* ordered[r]: what the server was sent for order r

vars == <<basket, ordered>>

Empty == [p \in Products |-> 0]

Init == basket = Empty /\ ordered = [r \in Requests |-> NoOrder]

Add(p, q) == /\ basket' = [basket EXCEPT ![p] = @ + q]
             /\ UNCHANGED ordered

Set(p, q) == /\ basket' = [basket EXCEPT ![p] = q]
             /\ UNCHANGED ordered

Order(r) == /\ ordered[r] = NoOrder
            /\ ordered' = [ordered EXCEPT ![r] = basket]
            /\ basket' = Empty

LoseOrder == /\ ServerMayFail
             /\ basket' = Empty
             /\ UNCHANGED ordered

Next == \/ \E p \in Products : Set(p, 0) \/ \E q \in Quantities : Add(p, q) \/ Set(p, q)
        \/ \E r \in Requests : Order(r)
        \/ LoseOrder

Spec == Init /\ [][Next]_vars

=============================================================================
