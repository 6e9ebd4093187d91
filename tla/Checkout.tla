------------------------------ MODULE Checkout ------------------------------
(***************************************************************************)
(* The cart and the checkout of the web shop (amazonWeb/cart,              *)
(* amazonWeb/orders): the requests of one logged-in customer's session.    *)
(*                                                                         *)
(* Requests run in parallel, each in a worker of the web server.  A        *)
(* request loads the session when it makes its Cart, changes its own copy, *)
(* and the session middleware - outside src/ - saves the whole copy after  *)
(* the answer, if the session was modified and the answer is no error 500. *)
(* Rows are saved as they are written: no transaction spans a request.     *)
(*                                                                         *)
(* An order is named by the request that saves it.  A cart is a function   *)
(* from products to quantities, 0 for a product without a line; a session  *)
(* without a cart and one with an empty cart are the same.  The order in   *)
(* which the lines of a cart are gone through is left open.  Prices,       *)
(* addresses and the pages' contents are left out.                         *)
(*                                                                         *)
(* A definition marked "slip" is a wrong variant of the one below it.  It  *)
(* is not part of the specification: it shows what a property would catch. *)
(***************************************************************************)
EXTENDS Naturals, FiniteSetsExt

CONSTANTS
  Products,       \* primary keys of the products
  Requests,       \* requests of the session
  Quantities,     \* the choices of CartAddProductForm, 1..20 in the code
  MaxOpen,        \* bound: how many requests are under way at one time
  NoOrder,        \* the server was sent nothing
  ServerMayFail,  \* may the connection to the server fail?
  MayVanish       \* may a product be deleted from the catalogue?

ASSUME CheckoutAssumption ==
  /\ Quantities \subseteq Nat \ {0}
  /\ IsFiniteSet(Requests) /\ MaxOpen \in Nat
  /\ NoOrder \notin [Products -> Nat]
  /\ {ServerMayFail, MayVanish} \subseteq BOOLEAN

VARIABLES
  catalogue,      \* products in the database
  session,        \* the cart in the saved session
  pc,             \* pc[r]: progress of request r
  op,             \* op[r]: what request r asks for
  cart,           \* cart[r]: the copy of the cart that request r works on
  orders,         \* orders that have a row in the database
  stored,         \* stored[o]: the products order o has an item row for
  listed,         \* listed[o]: the products in item_id, ready to be sent
  shipped         \* shipped[o]: what the server received for order o

vars == <<catalogue, session, pc, op, cart, orders, stored, listed, shipped>>

rows == <<orders, stored, listed, shipped>>

Empty == [p \in Products |-> 0]
Carts == [Products -> Nat]
Lines(c) == {p \in Products : c[p] > 0}

Ops == [kind : {"add", "set"}, p : Products, q : Quantities]
       \cup [kind : {"remove"}, p : Products]
       \cup [kind : {"view", "order"}]

Pending(r) == pc[r] \in {"loaded", "items", "sent"}

Init ==
  /\ catalogue = Products
  /\ session = Empty
  /\ pc = [r \in Requests |-> "none"]
  /\ op = [r \in Requests |-> [kind |-> "view"]]
  /\ cart = [r \in Requests |-> Empty]
  /\ orders = {}
  /\ stored = [r \in Requests |-> {}]
  /\ listed = [r \in Requests |-> {}]
  /\ shipped = [r \in Requests |-> NoOrder]

Goto(r, l) == pc' = [pc EXCEPT ![r] = l]
At(r, l, k) == pc[r] = l /\ op[r].kind = k
-----------------------------------------------------------------------------
(* Cart.__init__: the session is loaded.                                   *)
Load(r) ==
  /\ pc[r] = "none"
  /\ Cardinality({s \in Requests : Pending(s)}) < MaxOpen
  /\ \E o \in Ops : op' = [op EXCEPT ![r] = o]
  /\ cart' = [cart EXCEPT ![r] = session]
  /\ Goto(r, "loaded")
  /\ UNCHANGED <<catalogue, session, rows>>

(* A request that changes nothing still saves the session when it found    *)
(* the cart empty: Cart.__init__ has put an empty one into it.             *)
SaveIfEmpty(r) == session' = IF cart[r] = Empty THEN Empty ELSE session

(* Slip: the product is not looked up.                                     *)
FoundAnyway(p) == TRUE

(* get_object_or_404; the answer 404 is no error 500.                      *)
Found(p) == p \in catalogue

Added(c, o) == [c EXCEPT ![o.p] = IF o.kind = "set" THEN o.q ELSE @ + o.q]

CartAdd(r) ==
  /\ At(r, "loaded", "add") \/ At(r, "loaded", "set")
  /\ IF Found(op[r].p) THEN session' = Added(cart[r], op[r]) ELSE SaveIfEmpty(r)
  /\ Goto(r, "done")
  /\ UNCHANGED <<catalogue, op, cart, rows>>

Removed(c, p) == [c EXCEPT ![p] = 0]

CartRemove(r) ==
  /\ At(r, "loaded", "remove")
  /\ IF Found(op[r].p) /\ op[r].p \in Lines(cart[r])
     THEN session' = Removed(cart[r], op[r].p)
     ELSE SaveIfEmpty(r)
  /\ Goto(r, "done")
  /\ UNCHANGED <<catalogue, op, cart, rows>>

(* Any page with the cart in its head, and a form that is not valid.       *)
ViewPage(r) ==
  /\ At(r, "loaded", "view")
  /\ SaveIfEmpty(r)
  /\ Goto(r, "done")
  /\ UNCHANGED <<catalogue, op, cart, rows>>
-----------------------------------------------------------------------------
(* order_create.                                                           *)

SaveOrder(r) ==
  /\ At(r, "loaded", "order")
  /\ orders' = orders \cup {r}
  /\ Goto(r, "items")
  /\ UNCHANGED <<catalogue, session, op, cart, stored, listed, shipped>>

ToStore(r) == Lines(cart[r]) \ listed[r]

StoreItem(r) ==
  /\ pc[r] = "items"
  /\ \E p \in ToStore(r) \cap catalogue :
       /\ stored' = [stored EXCEPT ![r] = @ \cup {p}]
       /\ listed' = [listed EXCEPT ![r] = @ \cup {p}]
  /\ UNCHANGED <<catalogue, session, pc, op, cart, orders, shipped>>

(* The product of a line is gone: an exception, error 500, and nothing of  *)
(* the session is saved.  What the database has it keeps.                  *)
StoreFails(r) ==
  /\ pc[r] = "items"
  /\ ToStore(r) \ catalogue # {}
  /\ Goto(r, "failed")
  /\ UNCHANGED <<catalogue, session, op, cart, rows>>

(* Slip: sendOrder is called in the loop.                                  *)
SomeStored(r) == listed[r] # {}

AllStored(r) == ToStore(r) = {}

(* Slip: a send that is never made.                                        *)
NeverReached == {FALSE}

Reached == IF ServerMayFail THEN BOOLEAN ELSE {TRUE}

(* sendOrder; a socket error is printed and otherwise forgotten.           *)
SendOrder(r) ==
  /\ pc[r] = "items"
  /\ AllStored(r)
  /\ \E ok \in Reached :
       shipped' = IF ok THEN [shipped EXCEPT ![r] =
                    [p \in Products |-> IF p \in listed[r] THEN cart[r][p] ELSE 0]]
                  ELSE shipped
  /\ Goto(r, "sent")
  /\ UNCHANGED <<catalogue, session, op, cart, orders, stored, listed>>

(* Slip: save without del.                                                 *)
NotCleared(c) == c

(* Slip: None is put into the session in place of the cart.                *)
ClearedToNone(c) == NoOrder

Cleared(c) == Empty

(* cart.clear(), and the page that thanks for the order.                   *)
FinishOrder(r) ==
  /\ pc[r] = "sent"
  /\ session' = Cleared(cart[r])
  /\ Goto(r, "done")
  /\ UNCHANGED <<catalogue, op, cart, rows>>

Run(r) == \/ CartAdd(r) \/ CartRemove(r) \/ ViewPage(r)
          \/ SaveOrder(r) \/ StoreItem(r) \/ StoreFails(r)
          \/ SendOrder(r) \/ FinishOrder(r)
-----------------------------------------------------------------------------
(* An administrator deletes a product; its item rows go with it (CASCADE). *)
Vanish(p) ==
  /\ MayVanish /\ p \in catalogue
  /\ catalogue' = catalogue \ {p}
  /\ stored' = [r \in Requests |-> stored[r] \ {p}]
  /\ UNCHANGED <<session, pc, op, cart, orders, listed, shipped>>

Next == \/ \E r \in Requests : Load(r) \/ Run(r)
        \/ \E p \in Products : Vanish(p)

Spec == Init /\ [][Next]_vars

(* A worker that has begun with a request goes on with it.                 *)
FairSpec == Spec /\ \A r \in Requests : WF_vars(Run(r))
-----------------------------------------------------------------------------
TypeOK ==
  /\ catalogue \subseteq Products
  /\ session \in Carts
  /\ pc \in [Requests -> {"none", "loaded", "items", "sent", "done", "failed"}]
  /\ op \in [Requests -> Ops]
  /\ cart \in [Requests -> Carts]
  /\ orders \subseteq Requests
  /\ stored \in [Requests -> SUBSET Products]
  /\ listed \in [Requests -> SUBSET Products]
  /\ shipped \in [Requests -> Carts \cup {NoOrder}]

(* What the server is sent is the whole cart that the customer saw when    *)
(* the order was placed, and the database has a row for the order and for  *)
(* each of its lines - except those whose product was deleted since, which *)
(* takes the lines of orders on their way with it.                         *)
ShippedWhole ==
  \A r \in Requests : shipped[r] # NoOrder =>
    /\ shipped[r] = cart[r]
    /\ r \in orders
    /\ stored[r] = Lines(cart[r]) \cap catalogue

(* A customer who waits for each page has the one basket of Basket,        *)
(* although sessions are copied and written back whole.                    *)
B == INSTANCE Basket WITH
       basket  <- session,
       ordered <- [r \in Requests |-> IF pc[r] = "done" THEN shipped[r] ELSE NoOrder]

AtomicBasket == B!Spec

(* No unit is sent to the server more often than it was put into the cart. *)
OrderedAtMostAdded ==
  \A p \in Products :
    LET Sent(r) == IF shipped[r] = NoOrder THEN 0 ELSE shipped[r][p]
        Put(r) == IF pc[r] = "done" /\ op[r].kind \in {"add", "set"} /\ op[r].p = p
                  THEN op[r].q ELSE 0
    IN  MapThenSumSet(Sent, Requests) <= MapThenSumSet(Put, Requests)

(* A product that is deleted while it is in the cart can never be removed  *)
(* from it: its removal is answered with 404 and every checkout with 500.  *)
VanishedLineStays ==
  \A p \in Products :
    [](/\ \A r \in Requests : ~Pending(r)
       /\ p \in Lines(session) \ catalogue
       => [](p \in Lines(session)))

Hindered(r) == \/ pc[r] = "failed" /\ Lines(cart[r]) \ catalogue # {}
               \/ ServerMayFail /\ pc[r] \in {"sent", "done"}

(* Every order that was saved is sent, unless the server cannot be reached *)
(* or a product of the order has been deleted before.                      *)
SavedIsSent ==
  \A r \in Requests : r \in orders ~> shipped[r] # NoOrder \/ Hindered(r)

=============================================================================
