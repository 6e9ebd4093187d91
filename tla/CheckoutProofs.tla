--------------------------- MODULE CheckoutProofs ---------------------------
(***************************************************************************)
(* Theorems about Checkout, for any number of requests, open at the same   *)
(* time or not, and any products.                                          *)
(***************************************************************************)
EXTENDS Checkout, FiniteSetTheorems, TLAPS

(* The inductive invariant.                                                *)

(* Nothing is stored or sent before the order is saved.                    *)
FreshIsBlank ==
  \A r \in Requests : pc[r] \in {"none", "loaded"} =>
    listed[r] = {} /\ stored[r] = {} /\ shipped[r] = NoOrder

(* Rows and the list to send are made side by side, from the copy of the   *)
(* cart; a deletion takes rows, not what is listed.                        *)
ListedFromCart ==
  \A r \in Requests : /\ listed[r] \subseteq Lines(cart[r])
                      /\ stored[r] = listed[r] \cap catalogue

(* Past the loop, everything is listed and the order has its row.          *)
PastTheLoop ==
  \A r \in Requests :
    /\ pc[r] \in {"items", "sent"} => r \in orders
    /\ shipped[r] # NoOrder => pc[r] \in {"sent", "done"}
    /\ pc[r] = "sent" => listed[r] = Lines(cart[r])

IInv == TypeOK /\ FreshIsBlank /\ ListedFromCart /\ PastTheLoop /\ ShippedWhole
-----------------------------------------------------------------------------
LEMMA OpFields ==
  ASSUME NEW o \in Ops
  PROVE  /\ o.kind \in {"add", "set"} => o.p \in Products /\ o.q \in Nat \ {0}
         /\ o.kind = "remove" => o.p \in Products
BY CheckoutAssumption DEF Ops

LEMMA TypeInit == Init => TypeOK
BY DEF Init, TypeOK, Carts, Empty, Ops

LEMMA TypeStep == TypeOK /\ [Next]_vars => TypeOK'
<1> SUFFICES ASSUME TypeOK, [Next]_vars PROVE TypeOK'
  OBVIOUS
<1> USE DEF TypeOK, Carts
<1>e. Empty \in Carts
  BY DEF Empty
<1>1. ASSUME NEW r \in Requests, Load(r) PROVE TypeOK'
  BY <1>1 DEF Load, Goto, rows
<1>2. ASSUME NEW r \in Requests, CartAdd(r) PROVE TypeOK'
  <2>1. op[r].p \in Products /\ op[r].q \in Nat
    BY <1>2, OpFields DEF CartAdd, At
  <2>2. Added(cart[r], op[r]) \in Carts
    BY <2>1 DEF Added
  <2>3. session' \in Carts
    BY <1>2, <2>2, <1>e DEF CartAdd, SaveIfEmpty
  <2> QED BY <1>2, <2>3 DEF CartAdd, Goto, rows
<1>3. ASSUME NEW r \in Requests, CartRemove(r) PROVE TypeOK'
  <2>1. session' \in Carts
    BY <1>3, <1>e DEF CartRemove, SaveIfEmpty, Removed
  <2> QED BY <1>3, <2>1 DEF CartRemove, Goto, rows
<1>4. ASSUME NEW r \in Requests, ViewPage(r) PROVE TypeOK'
  <2>1. session' \in Carts
    BY <1>4, <1>e DEF ViewPage, SaveIfEmpty
  <2> QED BY <1>4, <2>1 DEF ViewPage, Goto, rows
<1>5. ASSUME NEW r \in Requests, SaveOrder(r) PROVE TypeOK'
  BY <1>5 DEF SaveOrder, Goto
<1>6. ASSUME NEW r \in Requests, StoreItem(r) PROVE TypeOK'
  BY <1>6 DEF StoreItem
<1>7. ASSUME NEW r \in Requests, StoreFails(r) PROVE TypeOK'
  BY <1>7 DEF StoreFails, Goto, rows
<1>8. ASSUME NEW r \in Requests, SendOrder(r) PROVE TypeOK'
  <2>1. [p \in Products |-> IF p \in listed[r] THEN cart[r][p] ELSE 0] \in Carts
    OBVIOUS
  <2>2. shipped' \in [Requests -> Carts \cup {NoOrder}]
    BY <1>8, <2>1 DEF SendOrder
  <2> QED BY <1>8, <2>2 DEF SendOrder, Goto
<1>9. ASSUME NEW r \in Requests, FinishOrder(r) PROVE TypeOK'
  <2>1. session' \in Carts
    BY <1>9, <1>e DEF FinishOrder, Cleared
  <2> QED BY <1>9, <2>1 DEF FinishOrder, Goto, rows
<1>10. ASSUME NEW p \in Products, Vanish(p) PROVE TypeOK'
  BY <1>10 DEF Vanish
<1>11. CASE UNCHANGED vars
  BY <1>11 DEF vars
<1> QED BY <1>1, <1>2, <1>3, <1>4, <1>5, <1>6, <1>7, <1>8, <1>9, <1>10, <1>11
        DEF Next, Run

LEMMA InvInit == Init => IInv
<1> SUFFICES ASSUME Init PROVE IInv
  OBVIOUS
<1>1. TypeOK
  BY TypeInit
<1>2. \A r \in Requests : pc[r] = "none" /\ listed[r] = {} /\ stored[r] = {}
                          /\ shipped[r] = NoOrder
  BY DEF Init
<1> QED BY <1>1, <1>2 DEF IInv, FreshIsBlank, ListedFromCart, PastTheLoop,
                          ShippedWhole

(* A request that only changes the session and ends.                       *)
LEMMA EndStep ==
  ASSUME IInv, TypeOK', NEW r \in Requests, pc[r] = "loaded", Goto(r, "done"),
         UNCHANGED <<catalogue, op, cart, rows>>
  PROVE  IInv'
<1> USE DEF Goto, rows, IInv, TypeOK
<1>1. \A s \in Requests : pc'[s] = IF s = r THEN "done" ELSE pc[s]
  OBVIOUS
<1>2. FreshIsBlank'
  BY <1>1 DEF FreshIsBlank
<1>3. ListedFromCart'
  BY DEF ListedFromCart, Lines
<1>4. PastTheLoop'
  BY <1>1 DEF PastTheLoop, Lines
<1>5. ShippedWhole'
  BY DEF ShippedWhole, Lines
<1> QED BY <1>2, <1>3, <1>4, <1>5

LEMMA InvStep == IInv /\ [Next]_vars => IInv'
<1> SUFFICES ASSUME IInv, [Next]_vars PROVE IInv'
  OBVIOUS
<1>t. TypeOK /\ TypeOK'
  BY TypeStep DEF IInv
<1>1. ASSUME NEW r \in Requests, Load(r) PROVE IInv'
  <2> USE DEF Load, Goto, rows
  <2>1. /\ pc[r] = "none"
        /\ \A s \in Requests : /\ pc'[s] = IF s = r THEN "loaded" ELSE pc[s]
                               /\ s # r => cart'[s] = cart[s]
    BY <1>1, <1>t DEF TypeOK
  <2>2. listed[r] = {} /\ stored[r] = {} /\ shipped[r] = NoOrder
    BY <2>1 DEF IInv, FreshIsBlank
  <2>3. FreshIsBlank'
    BY <1>1, <2>1, <2>2 DEF IInv, FreshIsBlank
  <2>4. ListedFromCart'
    BY <1>1, <2>1, <2>2 DEF IInv, ListedFromCart, Lines
  <2>5. PastTheLoop'
    BY <1>1, <2>1, <2>2 DEF IInv, PastTheLoop, Lines
  <2>6. ShippedWhole'
    BY <1>1, <2>1, <2>2 DEF IInv, ShippedWhole, Lines
  <2> QED BY <1>t, <2>3, <2>4, <2>5, <2>6 DEF IInv
<1>2. ASSUME NEW r \in Requests, CartAdd(r) PROVE IInv'
  BY <1>2, <1>t, EndStep DEF CartAdd, At
<1>3. ASSUME NEW r \in Requests, CartRemove(r) PROVE IInv'
  BY <1>3, <1>t, EndStep DEF CartRemove, At
<1>4. ASSUME NEW r \in Requests, ViewPage(r) PROVE IInv'
  BY <1>4, <1>t, EndStep DEF ViewPage, At
<1>5. ASSUME NEW r \in Requests, SaveOrder(r) PROVE IInv'
  <2> USE DEF SaveOrder, At, Goto
  <2>1. \A s \in Requests : pc'[s] = IF s = r THEN "items" ELSE pc[s]
    BY <1>5, <1>t DEF TypeOK
  <2>2. listed[r] = {} /\ stored[r] = {} /\ shipped[r] = NoOrder
    BY <1>5 DEF IInv, FreshIsBlank
  <2>3. FreshIsBlank'
    BY <1>5, <2>1 DEF IInv, FreshIsBlank
  <2>4. ListedFromCart'
    BY <1>5 DEF IInv, ListedFromCart, Lines
  <2>5. PastTheLoop'
    BY <1>5, <2>1, <2>2 DEF IInv, PastTheLoop, Lines
  <2>6. ShippedWhole'
    BY <1>5 DEF IInv, ShippedWhole, Lines
  <2> QED BY <1>t, <2>3, <2>4, <2>5, <2>6 DEF IInv
<1>6. ASSUME NEW r \in Requests, StoreItem(r) PROVE IInv'
  <2> USE DEF StoreItem
  <2>1. PICK p \in ToStore(r) \cap catalogue :
          /\ stored' = [stored EXCEPT ![r] = @ \cup {p}]
          /\ listed' = [listed EXCEPT ![r] = @ \cup {p}]
    BY <1>6
  <2>2. \A s \in Requests :
          /\ stored'[s] = IF s = r THEN stored[r] \cup {p} ELSE stored[s]
          /\ listed'[s] = IF s = r THEN listed[r] \cup {p} ELSE listed[s]
    BY <2>1, <1>t DEF TypeOK
  <2>3. shipped[r] = NoOrder
    BY <1>6 DEF IInv, PastTheLoop
  <2>4. FreshIsBlank'
    BY <1>6, <2>2 DEF IInv, FreshIsBlank
  <2>5. ListedFromCart'
    BY <1>6, <2>2 DEF IInv, ListedFromCart, Lines, ToStore
  <2>6. PastTheLoop'
    BY <1>6, <2>2, <2>3 DEF IInv, PastTheLoop, Lines
  <2>7. ShippedWhole'
    BY <1>6, <2>2, <2>3 DEF IInv, ShippedWhole, Lines
  <2> QED BY <1>t, <2>4, <2>5, <2>6, <2>7 DEF IInv
<1>7. ASSUME NEW r \in Requests, StoreFails(r) PROVE IInv'
  <2> USE DEF StoreFails, Goto, rows
  <2>1. \A s \in Requests : pc'[s] = IF s = r THEN "failed" ELSE pc[s]
    BY <1>7, <1>t DEF TypeOK
  <2>2. shipped[r] = NoOrder
    BY <1>7 DEF IInv, PastTheLoop
  <2>3. FreshIsBlank'
    BY <1>7, <2>1 DEF IInv, FreshIsBlank
  <2>4. ListedFromCart'
    BY <1>7 DEF IInv, ListedFromCart, Lines
  <2>5. PastTheLoop'
    BY <1>7, <2>1, <2>2 DEF IInv, PastTheLoop, Lines
  <2>6. ShippedWhole'
    BY <1>7 DEF IInv, ShippedWhole, Lines
  <2> QED BY <1>t, <2>3, <2>4, <2>5, <2>6 DEF IInv
<1>8. ASSUME NEW r \in Requests, SendOrder(r) PROVE IInv'
  <2> USE DEF SendOrder, Goto
  <2>1. \A s \in Requests : /\ pc'[s] = IF s = r THEN "sent" ELSE pc[s]
                            /\ s # r => shipped'[s] = shipped[s]
    BY <1>8, <1>t DEF TypeOK
  <2>2. listed[r] = Lines(cart[r])
    BY <1>8 DEF IInv, ListedFromCart, AllStored, ToStore
  <2>3. [p \in Products |-> IF p \in listed[r] THEN cart[r][p] ELSE 0] = cart[r]
    BY <2>2, <1>t DEF TypeOK, Carts, Lines
  <2>4. shipped'[r] \in {cart[r], NoOrder}
    <3>1. shipped[r] = NoOrder
      BY <1>8 DEF IInv, PastTheLoop
    <3> QED BY <1>8, <1>t, <2>3, <3>1 DEF TypeOK
  <2>5. r \in orders /\ stored[r] = Lines(cart[r]) \cap catalogue
    BY <1>8, <2>2 DEF IInv, PastTheLoop, ListedFromCart
  <2>6. FreshIsBlank'
    BY <1>8, <2>1 DEF IInv, FreshIsBlank
  <2>7. ListedFromCart'
    BY <1>8 DEF IInv, ListedFromCart, Lines
  <2>8. PastTheLoop'
    BY <1>8, <2>1, <2>2, <2>5 DEF IInv, PastTheLoop, Lines
  <2>9. ShippedWhole'
    BY <1>8, <2>1, <2>4, <2>5 DEF IInv, ShippedWhole, Lines
  <2> QED BY <1>t, <2>6, <2>7, <2>8, <2>9 DEF IInv
<1>9. ASSUME NEW r \in Requests, FinishOrder(r) PROVE IInv'
  <2> USE DEF FinishOrder, Goto, rows
  <2>1. \A s \in Requests : pc'[s] = IF s = r THEN "done" ELSE pc[s]
    BY <1>9, <1>t DEF TypeOK
  <2>2. FreshIsBlank'
    BY <1>9, <2>1 DEF IInv, FreshIsBlank
  <2>3. ListedFromCart'
    BY <1>9 DEF IInv, ListedFromCart, Lines
  <2>4. PastTheLoop'
    BY <1>9, <2>1 DEF IInv, PastTheLoop, Lines
  <2>5. ShippedWhole'
    BY <1>9 DEF IInv, ShippedWhole, Lines
  <2> QED BY <1>t, <2>2, <2>3, <2>4, <2>5 DEF IInv
<1>10. ASSUME NEW p \in Products, Vanish(p) PROVE IInv'
  <2> USE DEF Vanish
  <2>1. \A r \in Requests : stored'[r] = stored[r] \ {p}
    BY <1>10
  <2>2. FreshIsBlank'
    BY <1>10, <2>1 DEF IInv, FreshIsBlank
  <2>3. ListedFromCart'
    BY <1>10, <2>1 DEF IInv, ListedFromCart, Lines
  <2>4. PastTheLoop'
    BY <1>10 DEF IInv, PastTheLoop, Lines
  <2>5. ShippedWhole'
    BY <1>10, <2>1 DEF IInv, ShippedWhole, Lines
  <2> QED BY <1>t, <2>2, <2>3, <2>4, <2>5 DEF IInv
<1>11. CASE UNCHANGED vars
  BY <1>11, <1>t DEF vars, IInv, FreshIsBlank, ListedFromCart, PastTheLoop,
                     ShippedWhole, Lines
<1> QED BY <1>1, <1>2, <1>3, <1>4, <1>5, <1>6, <1>7, <1>8, <1>9, <1>10, <1>11
        DEF Next, Run

(* The state of cart and checkout keeps its types: no session save leaves  *)
(* anything but a cart in the session.                                     *)
THEOREM TypeCorrect == Spec => []TypeOK
<1>1. IInv => TypeOK
  BY DEF IInv
<1> QED BY <1>1, InvInit, InvStep, PTL DEF Spec

(* However many requests of a session are open at once and whatever is     *)
(* deleted meanwhile, an order reaches the server whole or not at all, and *)
(* never before its rows are in the database.                              *)
THEOREM OrdersShipWhole == Spec => []ShippedWhole
<1>1. IInv => ShippedWhole
  BY DEF IInv
<1> QED BY <1>1, InvInit, InvStep, PTL DEF Spec
-----------------------------------------------------------------------------
(* A line whose product is gone, while every copy of the cart that may     *)
(* still be saved has the line, and no checkout is past it.                *)
Blocked(p) ==
  /\ p \in Lines(session) \ catalogue
  /\ \A r \in Requests :
       Pending(r) => p \in Lines(cart[r]) \ listed[r] /\ pc[r] # "sent"

LEMMA BlockedStep ==
  ASSUME IInv, NEW p \in Products, Blocked(p), [Next]_vars
  PROVE  Blocked(p)'
<1> USE DEF IInv, TypeOK, Carts
<1>1. ASSUME NEW r \in Requests, Load(r) PROVE Blocked(p)'
  <2>1. listed[r] = {}
    BY <1>1 DEF Load, FreshIsBlank
  <2> QED BY <1>1, <2>1 DEF Load, Goto, rows, Blocked, Pending, Lines
<1>2. ASSUME NEW r \in Requests, pc[r] = "loaded", Goto(r, "done"),
             UNCHANGED <<catalogue, op, cart, rows>>, p \in Lines(session')
      PROVE  Blocked(p)'
  BY <1>2 DEF Goto, rows, Blocked, Pending, Lines
<1>3. ASSUME NEW r \in Requests, pc[r] = "loaded"
      PROVE  p \in Lines(cart[r]) /\ cart[r] # Empty
  BY <1>3 DEF Blocked, Pending, Lines, Empty
<1>4. ASSUME NEW r \in Requests, pc[r] = "loaded", SaveIfEmpty(r)
      PROVE  p \in Lines(session')
  BY <1>3, <1>4 DEF SaveIfEmpty, Blocked
<1>5. ASSUME NEW r \in Requests, CartAdd(r) PROVE Blocked(p)'
  <2>1. pc[r] = "loaded" /\ op[r].p \in Products /\ op[r].q \in Nat
    BY <1>5, OpFields DEF CartAdd, At
  <2>2. CASE Found(op[r].p)
    <3>1. session' = Added(cart[r], op[r]) /\ op[r].p # p
      BY <1>5, <2>2 DEF CartAdd, Found, Blocked
    <3>2. p \in Lines(session')
      BY <2>1, <3>1, <1>3 DEF Added, Lines
    <3> QED BY <1>5, <2>1, <3>2, <1>2 DEF CartAdd
  <2>3. CASE ~Found(op[r].p)
    BY <1>5, <2>1, <2>3, <1>4, <1>2 DEF CartAdd
  <2> QED BY <2>2, <2>3
<1>6. ASSUME NEW r \in Requests, CartRemove(r) PROVE Blocked(p)'
  <2>1. pc[r] = "loaded"
    BY <1>6 DEF CartRemove, At
  <2>2. CASE Found(op[r].p) /\ op[r].p \in Lines(cart[r])
    <3>1. session' = Removed(cart[r], op[r].p) /\ op[r].p # p
      BY <1>6, <2>2 DEF CartRemove, Found, Blocked
    <3>2. p \in Lines(session')
      BY <2>1, <3>1, <1>3 DEF Removed, Lines
    <3> QED BY <1>6, <2>1, <3>2, <1>2 DEF CartRemove
  <2>3. CASE ~(Found(op[r].p) /\ op[r].p \in Lines(cart[r]))
    BY <1>6, <2>1, <2>3, <1>4, <1>2 DEF CartRemove
  <2> QED BY <2>2, <2>3
<1>7. ASSUME NEW r \in Requests, ViewPage(r) PROVE Blocked(p)'
  BY <1>7, <1>4, <1>2 DEF ViewPage, At
<1>8. ASSUME NEW r \in Requests, SaveOrder(r) PROVE Blocked(p)'
  BY <1>8 DEF SaveOrder, At, Goto, Blocked, Pending, Lines
<1>9. ASSUME NEW r \in Requests, StoreItem(r) PROVE Blocked(p)'
  BY <1>9 DEF StoreItem, Blocked, Pending, Lines
<1>10. ASSUME NEW r \in Requests, StoreFails(r) PROVE Blocked(p)'
  BY <1>10 DEF StoreFails, Goto, rows, Blocked, Pending, Lines
<1>11. ASSUME NEW r \in Requests, SendOrder(r) PROVE Blocked(p)'
  BY <1>11 DEF SendOrder, AllStored, ToStore, Blocked, Pending
<1>12. ASSUME NEW r \in Requests, FinishOrder(r) PROVE Blocked(p)'
  BY <1>12 DEF FinishOrder, Blocked, Pending
<1>13. ASSUME NEW q \in Products, Vanish(q) PROVE Blocked(p)'
  BY <1>13 DEF Vanish, Blocked, Pending, Lines
<1>14. CASE UNCHANGED vars
  BY <1>14 DEF vars, Blocked, Pending, Lines
<1> QED BY <1>1, <1>5, <1>6, <1>7, <1>8, <1>9, <1>10, <1>11, <1>12, <1>13,
           <1>14 DEF Next, Run

(* Whatever requests follow, in whatever number and order, the line of a   *)
(* vanished product cannot be removed from the cart any more.              *)
THEOREM VanishedStays == Spec => VanishedLineStays
<1> SUFFICES ASSUME NEW p \in Products
             PROVE  Spec => [](/\ \A r \in Requests : ~Pending(r)
                               /\ p \in Lines(session) \ catalogue
                               => [](p \in Lines(session)))
  BY DEF VanishedLineStays
<1>1. (\A r \in Requests : ~Pending(r)) /\ p \in Lines(session) \ catalogue
        => Blocked(p)
  BY DEF Blocked
<1>2. Blocked(p) => p \in Lines(session)
  BY DEF Blocked
<1>3. IInv /\ Blocked(p) /\ [Next]_vars => Blocked(p)'
  BY BlockedStep
<1> QED BY <1>1, <1>2, <1>3, InvInit, InvStep, PTL DEF Spec
-----------------------------------------------------------------------------
(* When requests do not overlap: the one that is under way works on a copy *)
(* of what is saved, and nothing but a failed send keeps an order from     *)
(* being shipped.                                                          *)
OneAtATime ==
  /\ \A r, s \in Requests : Pending(r) /\ Pending(s) => r = s
  /\ \A r \in Requests : Pending(r) => cart[r] = session
  /\ \A r \in Requests :
       pc[r] = "sent" => shipped[r] # NoOrder \/ ServerMayFail

LEMMA NobodyPending ==
  ASSUME MaxOpen = 1, NEW r \in Requests, Load(r)
  PROVE  \A s \in Requests : ~Pending(s)
<1> DEFINE Open == {s \in Requests : Pending(s)}
<1>1. IsFiniteSet(Open)
  BY CheckoutAssumption, FS_Subset
<1>2. Cardinality(Open) \in Nat /\ Cardinality(Open) < 1
  BY <1>1, FS_CardinalityType DEF Load
<1>3. Open = {}
  BY <1>1, <1>2, FS_EmptySet
<1> QED BY <1>3

LEMMA AloneInit == Init => OneAtATime
BY DEF Init, OneAtATime, Pending

(* A request ends: nobody is left, and nothing was sent.                   *)
LEMMA AloneEnd ==
  ASSUME IInv, OneAtATime, NEW r \in Requests, Pending(r),
         NEW l \in {"done", "failed"}, Goto(r, l), UNCHANGED <<cart, shipped>>
  PROVE  OneAtATime'
<1>1. \A s \in Requests : pc'[s] = IF s = r THEN l ELSE pc[s]
  BY DEF Goto, IInv, TypeOK
<1>2. \A s \in Requests : ~Pending(s)'
  BY <1>1 DEF Pending, OneAtATime
<1> QED BY <1>1, <1>2 DEF OneAtATime, Pending

LEMMA AloneStep ==
  ASSUME MaxOpen = 1, IInv, OneAtATime, [Next]_vars
  PROVE  OneAtATime'
<1> USE DEF IInv, TypeOK
<1>1. ASSUME NEW r \in Requests, Load(r) PROVE OneAtATime'
  BY <1>1, NobodyPending DEF Load, Goto, rows, OneAtATime, Pending
<1>2. ASSUME NEW r \in Requests, CartAdd(r) PROVE OneAtATime'
  BY <1>2, AloneEnd DEF CartAdd, At, Pending, rows
<1>3. ASSUME NEW r \in Requests, CartRemove(r) PROVE OneAtATime'
  BY <1>3, AloneEnd DEF CartRemove, At, Pending, rows
<1>4. ASSUME NEW r \in Requests, ViewPage(r) PROVE OneAtATime'
  BY <1>4, AloneEnd DEF ViewPage, At, Pending, rows
<1>5. ASSUME NEW r \in Requests, SaveOrder(r) PROVE OneAtATime'
  BY <1>5 DEF SaveOrder, At, Goto, OneAtATime, Pending
<1>6. ASSUME NEW r \in Requests, StoreItem(r) PROVE OneAtATime'
  BY <1>6 DEF StoreItem, OneAtATime, Pending
<1>7. ASSUME NEW r \in Requests, StoreFails(r) PROVE OneAtATime'
  BY <1>7, AloneEnd DEF StoreFails, Pending, rows
<1>8. ASSUME NEW r \in Requests, SendOrder(r) PROVE OneAtATime'
  <2>1. \A s \in Requests : pc'[s] = IF s = r THEN "sent" ELSE pc[s]
    BY <1>8 DEF SendOrder, Goto
  <2>2. shipped'[r] # NoOrder \/ ServerMayFail
    <3>1. [p \in Products |-> IF p \in listed[r] THEN cart[r][p] ELSE 0] \in Carts
      BY DEF Carts
    <3> QED BY <1>8, <3>1, CheckoutAssumption DEF SendOrder, Reached, Carts
  <2>3. \A s \in Requests : s # r => shipped'[s] = shipped[s]
    BY <1>8 DEF SendOrder
  <2> QED BY <1>8, <2>1, <2>2, <2>3 DEF SendOrder, OneAtATime, Pending
<1>9. ASSUME NEW r \in Requests, FinishOrder(r) PROVE OneAtATime'
  BY <1>9, AloneEnd DEF FinishOrder, Pending, rows
<1>10. ASSUME NEW p \in Products, Vanish(p) PROVE OneAtATime'
  BY <1>10 DEF Vanish, OneAtATime, Pending
<1>11. CASE UNCHANGED vars
  BY <1>11 DEF vars, OneAtATime, Pending
<1> QED BY <1>1, <1>2, <1>3, <1>4, <1>5, <1>6, <1>7, <1>8, <1>9, <1>10, <1>11
        DEF Next, Run

(* What a customer of Basket sees ordered.                                 *)
Seen == [r \in Requests |-> IF pc[r] = "done" THEN shipped[r] ELSE NoOrder]

LEMMA BasketInit == Init => B!Init
BY DEF Init, B!Init, Empty, B!Empty

(* A step to another stage than the end shows the customer nothing.        *)
LEMMA Unseen ==
  ASSUME IInv, NEW r \in Requests, pc[r] # "done", NEW l, l # "done",
         Goto(r, l), \A s \in Requests \ {r} : shipped'[s] = shipped[s],
         UNCHANGED session
  PROVE  UNCHANGED <<session, Seen>>
BY DEF Goto, IInv, TypeOK, Seen

(* The end of a request that has sent nothing.                             *)
LEMMA EndUnseen ==
  ASSUME IInv, NEW r \in Requests, pc[r] = "loaded", Goto(r, "done"),
         UNCHANGED shipped
  PROVE  Seen' = Seen
<1>1. shipped[r] = NoOrder
  BY DEF IInv, FreshIsBlank
<1> QED BY <1>1 DEF Goto, IInv, TypeOK, Seen

LEMMA BasketStep ==
  ASSUME IInv, OneAtATime, [Next]_vars
  PROVE  [B!Next]_(B!vars)
<1> DEFINE Stays == UNCHANGED <<session, Seen>>
<1>s. Stays => [B!Next]_(B!vars)
  BY DEF B!vars, Seen
<1>c. ASSUME NEW r \in Requests, pc[r] = "loaded", SaveIfEmpty(r)
      PROVE  UNCHANGED session
  BY <1>c DEF SaveIfEmpty, OneAtATime, Pending
<1>1. ASSUME NEW r \in Requests, Load(r) PROVE Stays
  BY <1>1, Unseen DEF Load, rows
<1>2. ASSUME NEW r \in Requests, CartAdd(r) PROVE [B!Next]_(B!vars)
  <2>1. /\ pc[r] = "loaded" /\ op[r].p \in Products /\ op[r].q \in Quantities
        /\ op[r].kind \in {"add", "set"} /\ Seen' = Seen
    <3>1. op[r].p \in Products /\ op[r].q \in Quantities
      BY <1>2 DEF CartAdd, At, IInv, TypeOK, Ops
    <3> QED BY <1>2, <3>1, EndUnseen DEF CartAdd, At, rows
  <2>2. cart[r] = session
    BY <2>1 DEF OneAtATime, Pending
  <2>3. CASE Found(op[r].p)
    <3>1. session' = Added(session, op[r])
      BY <1>2, <2>2, <2>3 DEF CartAdd
    <3>2. CASE op[r].kind = "set"
      <4>1. B!Set(op[r].p, op[r].q)
        BY <2>1, <3>1, <3>2 DEF Added, B!Set, Seen
      <4> QED BY <2>1, <4>1 DEF B!Next
    <3>3. CASE op[r].kind = "add"
      <4>1. B!Add(op[r].p, op[r].q)
        BY <2>1, <3>1, <3>3 DEF Added, B!Add, Seen
      <4> QED BY <2>1, <4>1 DEF B!Next
    <3> QED BY <2>1, <3>2, <3>3
  <2>4. CASE ~Found(op[r].p)
    BY <1>2, <2>1, <2>4, <1>c, <1>s DEF CartAdd
  <2> QED BY <2>3, <2>4
<1>3. ASSUME NEW r \in Requests, CartRemove(r) PROVE [B!Next]_(B!vars)
  <2>1. pc[r] = "loaded" /\ op[r].p \in Products /\ Seen' = Seen
    <3>1. op[r].p \in Products
      BY <1>3, OpFields DEF CartRemove, At, IInv, TypeOK
    <3> QED BY <1>3, <3>1, EndUnseen DEF CartRemove, At, rows
  <2>2. cart[r] = session
    BY <2>1 DEF OneAtATime, Pending
  <2>3. CASE Found(op[r].p) /\ op[r].p \in Lines(cart[r])
    <3>1. B!Set(op[r].p, 0)
      BY <1>3, <2>1, <2>2, <2>3 DEF CartRemove, Removed, B!Set, Seen
    <3> QED BY <2>1, <3>1 DEF B!Next
  <2>4. CASE ~(Found(op[r].p) /\ op[r].p \in Lines(cart[r]))
    BY <1>3, <2>1, <2>4, <1>c, <1>s DEF CartRemove
  <2> QED BY <2>3, <2>4
<1>4. ASSUME NEW r \in Requests, ViewPage(r) PROVE Stays
  BY <1>4, <1>c, EndUnseen DEF ViewPage, At, rows
<1>5. ASSUME NEW r \in Requests, SaveOrder(r) PROVE Stays
  BY <1>5, Unseen DEF SaveOrder, At
<1>6. ASSUME NEW r \in Requests, StoreItem(r) PROVE Stays
  BY <1>6 DEF StoreItem, Seen
<1>7. ASSUME NEW r \in Requests, StoreFails(r) PROVE Stays
  BY <1>7, Unseen DEF StoreFails, rows
<1>8. ASSUME NEW r \in Requests, SendOrder(r) PROVE Stays
  <2>1. \A s \in Requests \ {r} : shipped'[s] = shipped[s]
    BY <1>8 DEF SendOrder, IInv, TypeOK
  <2> QED BY <1>8, <2>1, Unseen DEF SendOrder
<1>9. ASSUME NEW r \in Requests, FinishOrder(r) PROVE [B!Next]_(B!vars)
  <2>1. /\ Seen[r] = NoOrder /\ cart[r] = session /\ session' = Empty
        /\ Seen' = [Seen EXCEPT ![r] = shipped[r]]
    BY <1>9 DEF FinishOrder, Goto, Cleared, rows, IInv, TypeOK, OneAtATime,
                Pending, Seen
  <2>2. CASE shipped[r] = NoOrder
    <3>1. Seen' = Seen /\ ServerMayFail
      BY <1>9, <2>1, <2>2 DEF FinishOrder, OneAtATime, Seen
    <3>2. B!LoseOrder
      BY <2>1, <3>1 DEF B!LoseOrder, B!Empty, Empty, Seen
    <3> QED BY <3>2 DEF B!Next
  <2>3. CASE shipped[r] # NoOrder
    <3>1. shipped[r] = session
      BY <2>1, <2>3 DEF IInv, ShippedWhole
    <3>2. B!Order(r)
      BY <2>1, <3>1 DEF B!Order, B!Empty, Empty, Seen
    <3> QED BY <3>2 DEF B!Next
  <2> QED BY <2>2, <2>3
<1>10. ASSUME NEW p \in Products, Vanish(p) PROVE Stays
  BY <1>10 DEF Vanish, Seen
<1>11. CASE UNCHANGED vars
  BY <1>11, <1>s DEF vars, Seen
<1> HIDE DEF Stays
<1> QED BY <1>s, <1>1, <1>2, <1>3, <1>4, <1>5, <1>6, <1>7, <1>8, <1>9, <1>10,
           <1>11 DEF Next, Run

(* A customer who opens one page at a time has an atomic basket, although  *)
(* products vanish and sends fail.                                         *)
THEOREM SessionIsBasket == ASSUME MaxOpen = 1 PROVE Spec => AtomicBasket
<1>1. OneAtATime /\ IInv /\ [Next]_vars => OneAtATime'
  BY AloneStep
<1>2. OneAtATime /\ IInv /\ [Next]_vars => [B!Next]_(B!vars)
  BY BasketStep
<1> QED BY <1>1, <1>2, InvInit, InvStep, AloneInit, BasketInit, PTL
        DEF Spec, AtomicBasket, B!Spec

=============================================================================
