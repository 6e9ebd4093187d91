-------------------------- MODULE FulfilmentProofs --------------------------
(***************************************************************************)
(* Theorems about Fulfilment, for every number of orders, warehouses,      *)
(* products and trucks, however often answers are repeated, and whatever   *)
(* is lost to races, to the database or to UPS.                            *)
(***************************************************************************)
EXTENDS Fulfilment, FiniteSetTheorems, TLAPS

(* The strings the server writes are the stages of the life cycle.         *)
LEMMA StatusNames ==
  /\ "ordered" \in LC!Status /\ "packing" \in LC!Status
  /\ "packed" \in LC!Status /\ "loading" \in LC!Status
  /\ "delivering" \in LC!Status /\ "delivered" \in LC!Status
BY DEF LC!Status, LC!Stages

(* A command that was sent has a name.                                     *)
LEMMA CmdType ==
  ASSUME NEW k \in Kinds, NEW o \in Orders, NEW i \in Nat
  PROVE  /\ Cmd(k, o, i) \in Msg
         /\ Cmd(k, o, i).kind = k /\ Cmd(k, o, i).ship = o
BY DEF Cmd, Msg

(* The five kinds of commands.                                             *)
LEMMA KindNames ==
  /\ "buy" \in Kinds /\ "topack" \in Kinds /\ "load" \in Kinds
  /\ "pickupreq" \in Kinds /\ "loaded" \in Kinds
BY DEF Kinds, WorldKinds

(* The command that an answer belongs to has been sent.                    *)
Asked(m) == m.n \in 1..sent[m.kind][m.ship]

(* Every step is a stutter or one action, with its parameters typed.       *)
LEMMA AskedCases ==
  ASSUME TypeOK, [Next]_vars
  PROVE  \/ \E o \in Orders : Process_order(o)
         \/ \E o \in Orders : StoreInfo(o)
         \/ \E o \in Orders : PushRequest(o)
         \/ \E m \in Msg : m.kind = "buy" /\ Asked(m) /\ ReceiveArrived(m)
         \/ ScanSkip \/ ScanMatch \/ ScanMiss
         \/ MarkPacking \/ RequestPickup \/ FinishArrived
         \/ \E m \in Msg : m.kind = "topack" /\ Asked(m) /\ ReceiveReady(m)
         \/ \E m \in Msg : m.kind = "load" /\ Asked(m) /\ ReceiveLoaded(m)
         \/ \E m \in Msg : Asked(m) /\ ReceiveError(m)
         \/ \E p \in packers : StartPacker(p)
         \/ \E p \in packers : LoadPackage(p)
         \/ \E m \in Msg : m.kind = "pickupreq" /\ Asked(m) /\ ReceiveTruckArrived(m)
         \/ \E m \in Msg : m.kind = "loaded" /\ Asked(m) /\ ReceiveDelivered(m)
         \/ UpsReceiveFails
         \/ UNCHANGED vars
<1>1. ASSUME NEW k \in Kinds, NEW o \in Orders, NEW i \in 1..sent[k][o]
      PROVE  /\ Cmd(k, o, i) \in Msg /\ Cmd(k, o, i).kind = k
             /\ Asked(Cmd(k, o, i))
  <2>1. i \in Nat
    BY DEF TypeOK
  <2> QED
    BY <2>1, CmdType DEF Asked, Cmd
<1>2. ASSUME NEW o \in Orders, ReceiveAnswer(o)
      PROVE  \/ \E m \in Msg : m.kind = "buy" /\ Asked(m) /\ ReceiveArrived(m)
             \/ \E m \in Msg : m.kind = "topack" /\ Asked(m) /\ ReceiveReady(m)
             \/ \E m \in Msg : m.kind = "load" /\ Asked(m) /\ ReceiveLoaded(m)
  BY <1>1, <1>2, KindNames DEF ReceiveAnswer
<1>3. ASSUME NEW o \in Orders, ReceiveRefusal(o)
      PROVE  \E m \in Msg : Asked(m) /\ ReceiveError(m)
  BY <1>1, <1>3 DEF ReceiveRefusal, Kinds
<1>4. ASSUME UpsThread
      PROVE  \/ \E m \in Msg :
                  m.kind = "pickupreq" /\ Asked(m) /\ ReceiveTruckArrived(m)
             \/ \E m \in Msg :
                  m.kind = "loaded" /\ Asked(m) /\ ReceiveDelivered(m)
  BY <1>1, <1>4, KindNames DEF UpsThread
<1> QED
  BY <1>2, <1>3, <1>4
  DEF Next, FrontThread, WorldThread, HandleArrived, PackerThreads

(* The same, whether or not the command was sent.                          *)
LEMMA StepCases ==
  ASSUME TypeOK, [Next]_vars
  PROVE  \/ \E o \in Orders : Process_order(o)
         \/ \E o \in Orders : StoreInfo(o)
         \/ \E o \in Orders : PushRequest(o)
         \/ \E m \in Msg : m.kind = "buy" /\ ReceiveArrived(m)
         \/ ScanSkip \/ ScanMatch \/ ScanMiss
         \/ MarkPacking \/ RequestPickup \/ FinishArrived
         \/ \E m \in Msg : m.kind = "topack" /\ ReceiveReady(m)
         \/ \E m \in Msg : m.kind = "load" /\ ReceiveLoaded(m)
         \/ \E m \in Msg : ReceiveError(m)
         \/ \E p \in packers : StartPacker(p)
         \/ \E p \in packers : LoadPackage(p)
         \/ \E m \in Msg : m.kind = "pickupreq" /\ ReceiveTruckArrived(m)
         \/ \E m \in Msg : m.kind = "loaded" /\ ReceiveDelivered(m)
         \/ UpsReceiveFails
         \/ UNCHANGED vars
BY AskedCases
-----------------------------------------------------------------------------
(* Helpers keep the types of what they change.                             *)
LEMMA SendType ==
  ASSUME NEW k \in Kinds, NEW o, sent \in [Kinds -> [Orders -> Nat]], Send(k, o)
  PROVE  sent' \in [Kinds -> [Orders -> Nat]]
<1>1. sent[k] \in [Orders -> Nat]
  OBVIOUS
<1>2. [sent[k] EXCEPT ![o] = @ + 1] \in [Orders -> Nat]
  <2>1. CASE o \in Orders
    BY <1>1, <2>1
  <2>2. CASE o \notin Orders
    BY <1>1, <2>2
  <2> QED
    BY <2>1, <2>2
<1>3. sent' = [sent EXCEPT ![k] = [sent[k] EXCEPT ![o] = @ + 1]]
  BY DEF Send
<1> QED
  BY <1>2, <1>3

LEMMA AckType ==
  ASSUME NEW m \in Msg, acked \subseteq Msg, Ack(m) \/ AckIfBitSet(m)
  PROVE  acked' \subseteq Msg
BY DEF Ack, AckIfBitSet

LEMMA UpdateType ==
  ASSUME NEW o, NEW s \in LC!Status, status \in [Orders -> LC!Status],
         Update_Order_Status(o, s)
  PROVE  status' \in [Orders -> LC!Status]
BY DEF Update_Order_Status

LEMMA DeliverType ==
  ASSUME NEW m, resends \in Nat, Deliver(m)
  PROVE  resends' \in Nat
BY DEF Deliver

(* While the World thread handles an arrival, its state is a record.       *)
Busy == [pc : {"scan", "status", "pickup"}, m : Msg, pos : Nat]
BusyOK == world \in Busy /\ world.m.kind = "buy" /\ world.pos > 0

LEMMA BusyType ==
  ASSUME TypeOK, world.pc # "idle"
  PROVE  BusyOK
BY DEF TypeOK, IdleWorld, Busy, BusyOK

(* It stays one when the position moves on or another step is due.         *)
LEMMA BusyStep ==
  ASSUME BusyOK, NEW q \in {"scan", "status", "pickup"},
         world' \in {[world EXCEPT !.pc = q], [world EXCEPT !.pos = @ + 1],
                     [world EXCEPT !.pc = q, !.pos = @ + 1]}
  PROVE  BusyOK'
<1>1. PICK c \in {"scan", "status", "pickup"}, mm \in Msg, i \in Nat :
        world = [pc |-> c, m |-> mm, pos |-> i]
  BY DEF BusyOK, Busy
<1>2. mm.kind = "buy" /\ i > 0
  BY <1>1 DEF BusyOK
<1>3. \/ world' = [pc |-> q, m |-> mm, pos |-> i]
      \/ world' = [pc |-> c, m |-> mm, pos |-> i + 1]
      \/ world' = [pc |-> q, m |-> mm, pos |-> i + 1]
  BY <1>1
<1> QED
  BY <1>2, <1>3 DEF BusyOK, Busy

LEMMA TypeInit == Init => TypeOK
BY StatusNames, ConstantsAssumption
DEF Init, TypeOK, LC!Init, IdleWorld, Msg

(* What UPS says keeps the types, to whatever command it is the answer.    *)
LEMMA TruckType ==
  ASSUME TypeOK, NEW m \in Msg, ReceiveTruckArrived(m)
  PROVE  TypeOK'
<1>1. acked' \subseteq Msg /\ resends' \in Nat
  BY AckType, DeliverType DEF TypeOK, ReceiveTruckArrived
<1>2. shipid_to_truckid' \in [Orders -> Trucks \cup {NoTruck}]
  BY DEF TypeOK, ReceiveTruckArrived
<1> QED
  BY <1>1, <1>2 DEF TypeOK, ReceiveTruckArrived, intake

LEMMA DeliveredType ==
  ASSUME TypeOK, NEW m \in Msg, ReceiveDelivered(m)
  PROVE  TypeOK'
<1>1. acked' \subseteq Msg /\ resends' \in Nat
  BY AckType, DeliverType DEF TypeOK, ReceiveDelivered
<1>2. status' \in [Orders -> LC!Status]
  BY StatusNames, UpdateType DEF TypeOK, ReceiveDelivered
<1> QED
  BY <1>1, <1>2 DEF TypeOK, ReceiveDelivered, intake

LEMMA TypeStep == TypeOK /\ [Next]_vars => TypeOK'
<1> SUFFICES ASSUME TypeOK, [Next]_vars
             PROVE  TypeOK'
  OBVIOUS
<1> USE DEF intake, inbox
<1>1. ASSUME NEW o \in Orders, Process_order(o)
      PROVE  TypeOK'
  BY <1>1 DEF TypeOK, Process_order
<1>2. ASSUME NEW o \in Orders, StoreInfo(o)
      PROVE  TypeOK'
  BY <1>2, ConstantsAssumption DEF TypeOK, StoreInfo, StoreWarehouse
<1>3. ASSUME NEW o \in Orders, PushRequest(o)
      PROVE  TypeOK'
  <2>1. sent' \in [Kinds -> [Orders -> Nat]]
    BY <1>3, KindNames, SendType DEF TypeOK, PushRequest
  <2>2. purchase_request_list' \in [Warehouses -> Seq(Orders)]
    <3>1. whOf[o] \in Warehouses
      BY ConstantsAssumption
    <3>2. purchase_request_list[whOf[o]] \in Seq(Orders)
      BY <3>1 DEF TypeOK
    <3>3. Append(purchase_request_list[whOf[o]], o) \in Seq(Orders)
      BY <3>2
    <3> QED
      BY <1>3, <3>3 DEF TypeOK, PushRequest
  <2> QED
    BY <1>3, <2>1, <2>2 DEF TypeOK, PushRequest
<1>4. ASSUME NEW m \in Msg, m.kind = "buy", ReceiveArrived(m)
      PROVE  TypeOK'
  <2>1. acked' \subseteq Msg /\ resends' \in Nat
    BY <1>4, AckType, DeliverType DEF TypeOK, ReceiveArrived
  <2>2. whOf[m.ship] \in Warehouses
    BY ConstantsAssumption DEF Msg
  <2> QED
    BY <1>4, <2>1, <2>2 DEF TypeOK, ReceiveArrived
<1>5. ASSUME ScanSkip
      PROVE  TypeOK'
  <2>1. BusyOK'
    BY <1>5, BusyType, BusyStep DEF ScanSkip, Scanning
  <2> QED
    BY <1>5, <2>1 DEF TypeOK, ScanSkip, BusyOK, Busy
<1>6. ASSUME ScanMatch
      PROVE  TypeOK'
  <2>1. sent' \in [Kinds -> [Orders -> Nat]]
    BY <1>6, KindNames, SendType DEF TypeOK, ScanMatch
  <2>2. BusyOK'
    BY <1>6, BusyType, BusyStep DEF ScanMatch, Scanning
  <2> QED
    BY <1>6, <2>1, <2>2 DEF TypeOK, ScanMatch, BusyOK, Busy
<1>7. ASSUME ScanMiss
      PROVE  TypeOK'
  BY <1>7 DEF TypeOK, ScanMiss
<1>8. ASSUME MarkPacking
      PROVE  TypeOK'
  <2>1. status' \in [Orders -> LC!Status]
    BY <1>8, StatusNames, UpdateType DEF TypeOK, MarkPacking
  <2>2. BusyOK'
    BY <1>8, BusyType, BusyStep DEF MarkPacking
  <2> QED
    BY <1>8, <2>1, <2>2 DEF TypeOK, MarkPacking, BusyOK, Busy
<1>9. ASSUME RequestPickup
      PROVE  TypeOK'
  <2>1. sent' \in [Kinds -> [Orders -> Nat]]
    BY <1>9, KindNames, SendType DEF TypeOK, RequestPickup
  <2>2. BusyOK'
    BY <1>9, BusyType, BusyStep DEF RequestPickup
  <2> QED
    BY <1>9, <2>1, <2>2 DEF TypeOK, RequestPickup, BusyOK, Busy
<1>10. ASSUME FinishArrived
       PROVE  TypeOK'
  <2>1. acked' \subseteq Msg
    BY <1>10, AckType DEF TypeOK, FinishArrived, IdleWorld
  <2> QED
    BY <1>10, <2>1 DEF TypeOK, FinishArrived
<1>11. ASSUME NEW m \in Msg, m.kind = "topack", ReceiveReady(m)
       PROVE  TypeOK'
  <2>1. resends' \in Nat
    BY <1>11, DeliverType DEF TypeOK, ReceiveReady
  <2> QED
    BY <1>11, <2>1 DEF TypeOK, ReceiveReady
<1>12. ASSUME NEW m \in Msg, m.kind = "load", ReceiveLoaded(m)
       PROVE  TypeOK'
  <2>1. acked' \subseteq Msg /\ resends' \in Nat
    BY <1>12, AckType, DeliverType DEF TypeOK, ReceiveLoaded
  <2>2. sent' \in [Kinds -> [Orders -> Nat]]
    BY <1>12, KindNames, SendType DEF TypeOK, ReceiveLoaded
  <2>3. status' \in [Orders -> LC!Status]
    BY <1>12, StatusNames, UpdateType DEF TypeOK, ReceiveLoaded
  <2> QED
    BY <1>12, <2>1, <2>2, <2>3 DEF TypeOK, ReceiveLoaded
<1>13. ASSUME NEW m \in Msg, ReceiveError(m)
       PROVE  TypeOK'
  <2>1. acked' \subseteq Msg
    BY <1>13, AckType DEF TypeOK, ReceiveError
  <2> QED
    BY <1>13, <2>1 DEF TypeOK, ReceiveError
<1>14. ASSUME NEW p \in packers, StartPacker(p)
       PROVE  TypeOK'
  <2>1. p \in [m : Msg, k : Nat, pc : {"start", "wait"}]
    BY DEF TypeOK
  <2>2. acked' \subseteq Msg
    BY <1>14, <2>1, AckType DEF TypeOK, StartPacker
  <2>3. status' \in [Orders -> LC!Status]
    BY <1>14, StatusNames, UpdateType DEF TypeOK, StartPacker
  <2> QED
    BY <1>14, <2>1, <2>2, <2>3 DEF TypeOK, StartPacker
<1>15. ASSUME NEW p \in packers, LoadPackage(p)
       PROVE  TypeOK'
  <2>1. p \in [m : Msg, k : Nat, pc : {"start", "wait"}]
    BY DEF TypeOK
  <2>2. acked' \subseteq Msg
    BY <1>15, <2>1, AckType DEF TypeOK, LoadPackage
  <2>3. status' \in [Orders -> LC!Status]
    BY <1>15, StatusNames, UpdateType DEF TypeOK, LoadPackage
  <2>4. sent' \in [Kinds -> [Orders -> Nat]]
    BY <1>15, KindNames, SendType DEF TypeOK, LoadPackage
  <2> QED
    BY <1>15, <2>2, <2>3, <2>4 DEF TypeOK, LoadPackage
<1>16. ASSUME NEW m \in Msg, m.kind = "pickupreq", ReceiveTruckArrived(m)
       PROVE  TypeOK'
  BY <1>16, TruckType
<1>17. ASSUME NEW m \in Msg, m.kind = "loaded", ReceiveDelivered(m)
       PROVE  TypeOK'
  BY <1>17, DeliveredType
<1>18. ASSUME UpsReceiveFails
       PROVE  TypeOK'
  BY <1>18 DEF TypeOK, UpsReceiveFails
<1>19. ASSUME UNCHANGED vars
       PROVE  TypeOK'
  BY <1>19 DEF TypeOK, vars
<1> QED
  BY StepCases, <1>1, <1>2, <1>3, <1>4, <1>5, <1>6, <1>7, <1>8, <1>9, <1>10,
     <1>11, <1>12, <1>13, <1>14, <1>15, <1>16, <1>17, <1>18, <1>19

(* Type correctness: the maps, lists and counters hold what the code keeps *)
(* in them, the World thread's position included, and the status column    *)
(* only ever holds a stage of the life cycle.                              *)
THEOREM TypeCorrect == Spec => []TypeOK
BY TypeInit, TypeStep, PTL DEF Spec
-----------------------------------------------------------------------------
(* The inductive invariant.  Its parts say what the threads rely on while  *)
(* they are at work on a message.                                          *)

(* The World thread scans a list under the mutex of its warehouse.         *)
MutexHeld == world.pc # "idle" => whOf[world.m.ship] \in purchase_mutex

(* A list holds the purchases of its own warehouse.                        *)
ListedAtHome ==
  \A w \in Warehouses : \A i \in 1..Len(purchase_request_list[w]) :
    whOf[purchase_request_list[w][i]] = w

(* Between two steps on an entry the position still names the entry, and   *)
(* the pickup request lags behind the pack command.                        *)
EntryInHand ==
  world.pc \in {"status", "pickup"} =>
    /\ world.pos <= Len(Requests)
    /\ sent["pickupreq"][Here] < sent["topack"][Here]

(* The bit of the arrival in hand has been set.                            *)
ArrivalSeen == world.pc # "idle" => world.m \in recv_acks

(* A packer has a ready package; once it waits the bit has been set.       *)
PackersBelong ==
  \A p \in packers : /\ p.m.kind = "topack"
                     /\ p.pc = "wait" => p.m \in recv_acks

(* A truck is known only of a pickup that UPS answered.                    *)
TrucksAnswered ==
  \A o \in Orders :
    shipid_to_truckid[o] # NoTruck => Answered("pickupreq", o)

IInv == /\ TypeOK
        /\ MutexHeld /\ ListedAtHome /\ EntryInHand /\ ArrivalSeen
        /\ PackersBelong /\ TrucksAnswered
        /\ CauseChain
-----------------------------------------------------------------------------
(* Who writes what.                                                        *)
LEMMA Writers ==
  ASSUME TypeOK, [Next]_vars
  PROVE  /\ \/ UNCHANGED purchase_request_list
            \/ \E o \in Orders : PushRequest(o)
         /\ \/ UNCHANGED <<world, purchase_mutex>>
            \/ \E m \in Msg : m.kind = "buy" /\ ReceiveArrived(m)
            \/ ScanSkip \/ ScanMatch \/ ScanMiss
            \/ MarkPacking \/ RequestPickup \/ FinishArrived
         /\ \/ UNCHANGED packers
            \/ \E m \in Msg : m.kind = "topack" /\ ReceiveReady(m)
            \/ \E p \in packers : StartPacker(p)
            \/ \E p \in packers : LoadPackage(p)
         /\ \/ UNCHANGED shipid_to_truckid
            \/ \E m \in Msg : m.kind = "pickupreq" /\ ReceiveTruckArrived(m)
         /\ \/ UNCHANGED sent
            \/ \E o \in Orders : PushRequest(o)
            \/ ScanMatch \/ RequestPickup
            \/ \E m \in Msg : m.kind = "load" /\ ReceiveLoaded(m)
            \/ \E p \in packers : LoadPackage(p)
         /\ \/ UNCHANGED status
            \/ MarkPacking
            \/ \E m \in Msg : m.kind = "load" /\ ReceiveLoaded(m)
            \/ \E p \in packers : StartPacker(p)
            \/ \E p \in packers : LoadPackage(p)
            \/ \E m \in Msg : m.kind = "loaded" /\ ReceiveDelivered(m)
<1> USE StepCases DEF vars, intake, inbox, Process_order, StoreInfo, PushRequest,
      ReceiveArrived, ScanSkip, ScanMatch, ScanMiss, MarkPacking,
      RequestPickup, FinishArrived, ReceiveReady, ReceiveLoaded,
      ReceiveError, StartPacker, LoadPackage, ReceiveTruckArrived,
      ReceiveDelivered, UpsReceiveFails
<1> QED
  OBVIOUS

(* Bits are set and never cleared.                                         *)
LEMMA BitsStay ==
  ASSUME TypeOK, [Next]_vars
  PROVE  recv_acks \subseteq recv_acks'
BY StepCases
DEF vars, intake, inbox, Process_order, StoreInfo, PushRequest,
    ReceiveArrived, ScanSkip, ScanMatch, ScanMiss, MarkPacking,
    RequestPickup, FinishArrived, ReceiveReady, ReceiveLoaded,
    ReceiveError, StartPacker, LoadPackage, ReceiveTruckArrived,
    ReceiveDelivered, UpsReceiveFails

LEMMA AnsweredStays ==
  ASSUME TypeOK, [Next]_vars, NEW k, NEW o, Answered(k, o)
  PROVE  Answered(k, o)'
BY BitsStay DEF Answered

(* What sending one command does to the counts.                            *)
LEMMA SendCount ==
  ASSUME TypeOK, NEW k \in Kinds, NEW q \in Orders, Send(k, q),
         NEW j \in Kinds, NEW o \in Orders
  PROVE  sent'[j][o] = IF j = k /\ o = q THEN sent[j][o] + 1 ELSE sent[j][o]
<1>1. sent \in [Kinds -> [Orders -> Nat]]
  BY DEF TypeOK
<1>2. sent[k] \in [Orders -> Nat] /\ sent[j] \in [Orders -> Nat]
  BY <1>1
<1>3. sent' = [sent EXCEPT ![k] = [sent[k] EXCEPT ![q] = @ + 1]]
  BY DEF Send
<1>4. CASE j = k
  BY <1>1, <1>2, <1>3, <1>4
<1>5. CASE j # k
  BY <1>1, <1>2, <1>3, <1>5
<1> QED
  BY <1>4, <1>5
-----------------------------------------------------------------------------
(* The scan: the list under the World thread's position does not move.     *)
LEMMA WarehouseOfArrival ==
  ASSUME TypeOK, world.pc # "idle"
  PROVE  /\ world.m.ship \in Orders /\ world.m.kind = "buy" /\ world.m \in Msg
         /\ whOf[world.m.ship] \in Warehouses
         /\ Requests \in Seq(Orders)
         /\ world.pos \in Nat /\ world.pos > 0
<1>1. BusyOK
  BY BusyType
<1>2. world.m \in Msg /\ world.m.kind = "buy" /\ world.pos \in Nat /\ world.pos > 0
  BY <1>1 DEF BusyOK, Busy
<1>3. world.m.ship \in Orders
  BY <1>2 DEF Msg
<1>4. whOf[world.m.ship] \in Warehouses
  BY <1>3, ConstantsAssumption
<1> QED
  BY <1>2, <1>3, <1>4 DEF TypeOK, Requests

LEMMA HereType ==
  ASSUME TypeOK, world.pc # "idle", world.pos <= Len(Requests)
  PROVE  Here \in Orders
BY WarehouseOfArrival DEF Here

LEMMA ListFrozen ==
  ASSUME TypeOK, MutexHeld, [Next]_vars, world.pc # "idle"
  PROVE  LET w == whOf[world.m.ship]
         IN  purchase_request_list'[w] = purchase_request_list[w]
<1> DEFINE w == whOf[world.m.ship]
<1>1. CASE UNCHANGED purchase_request_list
  BY <1>1
<1>2. ASSUME NEW o \in Orders, PushRequest(o)
      PROVE  purchase_request_list'[w] = purchase_request_list[w]
  <2>1. whOf[o] # w
    BY <1>2 DEF PushRequest, MutexFree, MutexHeld
  <2>2. whOf[o] \in Warehouses /\ w \in Warehouses
    BY WarehouseOfArrival, ConstantsAssumption
  <2> QED
    BY <1>2, <2>1, <2>2 DEF PushRequest, TypeOK
<1> QED
  BY <1>1, <1>2, Writers

LEMMA ScanInit == Init => MutexHeld /\ ListedAtHome
BY DEF Init, MutexHeld, ListedAtHome, IdleWorld

LEMMA MutexStep ==
  ASSUME TypeOK, MutexHeld, [Next]_vars
  PROVE  MutexHeld'
<1>1. CASE UNCHANGED <<world, purchase_mutex>>
  BY <1>1 DEF MutexHeld
<1>2. ASSUME NEW m \in Msg, m.kind = "buy", ReceiveArrived(m)
      PROVE  MutexHeld'
  BY <1>2 DEF MutexHeld, ReceiveArrived
<1>3. CASE ScanSkip \/ ScanMatch \/ MarkPacking \/ RequestPickup
  <2>1. world.pc # "idle"
    BY <1>3 DEF ScanSkip, ScanMatch, MarkPacking, RequestPickup, Scanning
  <2>2. world'.m = world.m /\ purchase_mutex' = purchase_mutex
    BY <1>3, <2>1, BusyType
    DEF ScanSkip, ScanMatch, MarkPacking, RequestPickup, BusyOK, Busy
  <2> QED
    BY <2>1, <2>2 DEF MutexHeld
<1>4. CASE ScanMiss \/ FinishArrived
  BY <1>4 DEF MutexHeld, ScanMiss, FinishArrived, IdleWorld
<1> QED
  BY <1>1, <1>2, <1>3, <1>4, Writers

LEMMA ListedStep ==
  ASSUME TypeOK, ListedAtHome, [Next]_vars
  PROVE  ListedAtHome'
<1>1. CASE UNCHANGED purchase_request_list
  BY <1>1 DEF ListedAtHome
<1>2. ASSUME NEW o \in Orders, PushRequest(o)
      PROVE  ListedAtHome'
  <2> SUFFICES ASSUME NEW w \in Warehouses,
                      NEW i \in 1..Len(purchase_request_list'[w])
               PROVE  whOf[purchase_request_list'[w][i]] = w
    BY DEF ListedAtHome
  <2> DEFINE list == purchase_request_list[w]
  <2>1. list \in Seq(Orders)
    BY DEF TypeOK
  <2>2. CASE w # whOf[o]
    <3>1. purchase_request_list'[w] = list
      BY <1>2, <2>2 DEF PushRequest, TypeOK
    <3> QED
      BY <3>1 DEF ListedAtHome
  <2>3. CASE w = whOf[o]
    <3>1. purchase_request_list'[w] = Append(list, o)
      BY <1>2, <2>3 DEF PushRequest, TypeOK
    <3>2. CASE i \in 1..Len(list)
      BY <2>1, <3>1, <3>2 DEF ListedAtHome
    <3>3. CASE i \notin 1..Len(list)
      BY <2>1, <2>3, <3>1, <3>3
    <3> QED
      BY <3>2, <3>3
  <2> QED
    BY <2>2, <2>3
<1> QED
  BY <1>1, <1>2, Writers

(* The mutex of a warehouse keeps order threads from appending to the list *)
(* while the World thread's iterator is in it.                             *)
THEOREM ListStable == Spec => ListStableDuringScan
<1>1. Init => TypeOK /\ MutexHeld
  BY TypeInit, ScanInit
<1>2. TypeOK /\ MutexHeld /\ [Next]_vars => (TypeOK /\ MutexHeld)'
  BY TypeStep, MutexStep
<1>3. TypeOK /\ MutexHeld /\ [Next]_vars =>
        [world.pc # "idle" =>
           LET w == whOf[world.m.ship]
           IN  purchase_request_list'[w] = purchase_request_list[w]]_vars
  BY ListFrozen
<1> QED
  BY <1>1, <1>2, <1>3, PTL DEF Spec, ListStableDuringScan
-----------------------------------------------------------------------------
(* What each thread has in hand.                                           *)

(* Only the World thread sends pack commands and pickup requests.          *)
LEMMA OthersSend ==
  ASSUME TypeOK, [Next]_vars, ~ScanMatch, ~RequestPickup, NEW o \in Orders
  PROVE  /\ sent'["topack"][o] = sent["topack"][o]
         /\ sent'["pickupreq"][o] = sent["pickupreq"][o]
<1>1. CASE UNCHANGED sent
  BY <1>1
<1>2. ASSUME NEW q \in Orders, NEW k \in Kinds \ {"topack", "pickupreq"},
             Send(k, q)
      PROVE  /\ sent'["topack"][o] = sent["topack"][o]
             /\ sent'["pickupreq"][o] = sent["pickupreq"][o]
  BY <1>2, SendCount, KindNames
<1>3. ASSUME NEW q \in Orders, PushRequest(q)
      PROVE  Send("buy", q)
  BY <1>3 DEF PushRequest
<1>4. ASSUME NEW m \in Msg, ReceiveLoaded(m)
      PROVE  Send("loaded", m.ship) /\ m.ship \in Orders
  BY <1>4 DEF ReceiveLoaded, Msg
<1>5. ASSUME NEW p \in packers, LoadPackage(p)
      PROVE  Send("load", p.m.ship) /\ p.m.ship \in Orders
  BY <1>5 DEF LoadPackage, Msg, TypeOK
<1> QED
  BY <1>1, <1>2, <1>3, <1>4, <1>5, Writers, KindNames

LEMMA EntryStep ==
  ASSUME IInv, [Next]_vars
  PROVE  EntryInHand'
<1> USE DEF IInv
<1>1. CASE UNCHANGED <<world, purchase_mutex>>
  <2> SUFFICES ASSUME world.pc \in {"status", "pickup"}
               PROVE  EntryInHand'
    BY <1>1 DEF EntryInHand
  <2>1. Requests' = Requests /\ Here' = Here
    BY <1>1, ListFrozen DEF Requests, Here
  <2>2. Here \in Orders
    BY HereType DEF EntryInHand
  <2>3. ~ScanMatch /\ ~RequestPickup
    BY <1>1 DEF ScanMatch, Scanning, RequestPickup, TypeOK, IdleWorld
  <2>4. /\ sent'["topack"][Here] = sent["topack"][Here]
        /\ sent'["pickupreq"][Here] = sent["pickupreq"][Here]
    BY <2>2, <2>3, OthersSend
  <2> QED
    BY <1>1, <2>1, <2>4 DEF EntryInHand
<1>2. CASE ScanMatch
  <2>1. /\ world.pc = "scan" /\ world.pos <= Len(Requests)
        /\ world' = [world EXCEPT !.pc = "status"]
        /\ UNCHANGED purchase_request_list
        /\ Send("topack", Here)
    BY <1>2 DEF ScanMatch, Scanning, intake
  <2>2. world'.m = world.m /\ world'.pos = world.pos
    BY <2>1, BusyType DEF BusyOK, Busy
  <2>3. Requests' = Requests /\ Here' = Here
    BY <2>1, <2>2 DEF Requests, Here
  <2>4. Here \in Orders
    BY <2>1, HereType
  <2>5. /\ sent'["topack"][Here] = sent["topack"][Here] + 1
        /\ sent'["pickupreq"][Here] = sent["pickupreq"][Here]
    BY <2>1, <2>4, SendCount, KindNames
  <2>6. sent["pickupreq"][Here] <= sent["topack"][Here]
    BY <2>4 DEF CauseChain
  <2>7. sent["pickupreq"][Here] \in Nat /\ sent["topack"][Here] \in Nat
    BY <2>4, KindNames DEF TypeOK
  <2> QED
    BY <2>1, <2>2, <2>3, <2>5, <2>6, <2>7 DEF EntryInHand
<1>3. CASE MarkPacking
  <2>1. /\ world.pc = "status"
        /\ world' = [world EXCEPT !.pc = "pickup"]
        /\ UNCHANGED <<purchase_request_list, sent>>
    BY <1>3 DEF MarkPacking, intake
  <2>2. world'.m = world.m /\ world'.pos = world.pos
    BY <2>1, BusyType DEF BusyOK, Busy
  <2>3. Requests' = Requests /\ Here' = Here
    BY <2>1, <2>2 DEF Requests, Here
  <2> QED
    BY <2>1, <2>2, <2>3 DEF EntryInHand
<1>4. CASE ScanSkip \/ RequestPickup
  <2>1. world'.pc = "scan"
    BY <1>4, BusyType DEF ScanSkip, Scanning, RequestPickup, BusyOK, Busy
  <2> QED
    BY <2>1 DEF EntryInHand
<1>5. CASE ScanMiss \/ FinishArrived
  BY <1>5 DEF ScanMiss, FinishArrived, IdleWorld, EntryInHand
<1>6. ASSUME NEW m \in Msg, ReceiveArrived(m)
      PROVE  EntryInHand'
  BY <1>6 DEF ReceiveArrived, EntryInHand
<1> QED
  BY <1>1, <1>2, <1>3, <1>4, <1>5, <1>6, Writers

LEMMA ArrivalStep ==
  ASSUME IInv, [Next]_vars
  PROVE  ArrivalSeen'
<1> USE DEF IInv
<1>1. CASE UNCHANGED <<world, purchase_mutex>>
  BY <1>1, BitsStay DEF ArrivalSeen
<1>2. CASE ScanSkip \/ ScanMatch \/ MarkPacking \/ RequestPickup
  <2>1. world.pc # "idle"
    BY <1>2 DEF ScanSkip, ScanMatch, MarkPacking, RequestPickup, Scanning
  <2>2. world'.m = world.m
    BY <1>2, <2>1, BusyType
    DEF ScanSkip, ScanMatch, MarkPacking, RequestPickup, BusyOK, Busy
  <2> QED
    BY <2>1, <2>2, BitsStay DEF ArrivalSeen
<1>3. CASE ScanMiss \/ FinishArrived
  BY <1>3 DEF ScanMiss, FinishArrived, IdleWorld, ArrivalSeen
<1>4. ASSUME NEW m \in Msg, ReceiveArrived(m)
      PROVE  ArrivalSeen'
  BY <1>4 DEF ReceiveArrived, ArrivalSeen
<1> QED
  BY <1>1, <1>2, <1>3, <1>4, Writers

LEMMA PackersStep ==
  ASSUME IInv, [Next]_vars
  PROVE  PackersBelong'
<1> USE DEF IInv
<1>1. CASE UNCHANGED packers
  BY <1>1, BitsStay DEF PackersBelong
<1>2. ASSUME NEW m \in Msg, m.kind = "topack", ReceiveReady(m)
      PROVE  PackersBelong'
  BY <1>2, BitsStay DEF PackersBelong, ReceiveReady
<1>3. ASSUME NEW p \in packers, StartPacker(p)
      PROVE  PackersBelong'
  <2>1. p \in [m : Msg, k : Nat, pc : {"start", "wait"}]
    BY DEF TypeOK
  <2>2. [p EXCEPT !.pc = "wait"].m = p.m
    BY <2>1
  <2> QED
    BY <1>3, <2>2, BitsStay DEF PackersBelong, StartPacker
<1>4. ASSUME NEW p \in packers, LoadPackage(p)
      PROVE  PackersBelong'
  BY <1>4, BitsStay DEF PackersBelong, LoadPackage
<1> QED
  BY <1>1, <1>2, <1>3, <1>4, Writers

LEMMA TrucksStep ==
  ASSUME IInv, [Next]_vars
  PROVE  TrucksAnswered'
<1> USE DEF IInv
<1>1. CASE UNCHANGED shipid_to_truckid
  BY <1>1, AnsweredStays DEF TrucksAnswered
<1>2. ASSUME NEW m \in Msg, m.kind = "pickupreq", ReceiveTruckArrived(m)
      PROVE  TrucksAnswered'
  <2> SUFFICES ASSUME NEW o \in Orders, shipid_to_truckid'[o] # NoTruck
               PROVE  Answered("pickupreq", o)'
    BY DEF TrucksAnswered
  <2>1. CASE o = m.ship
    BY <1>2, <2>1 DEF ReceiveTruckArrived, Answered
  <2>2. CASE o # m.ship
    <3>1. shipid_to_truckid'[o] = shipid_to_truckid[o]
      BY <1>2, <2>2 DEF ReceiveTruckArrived, TypeOK
    <3> QED
      BY <3>1, AnsweredStays DEF TrucksAnswered
  <2> QED
    BY <2>1, <2>2
<1> QED
  BY <1>1, <1>2, Writers
-----------------------------------------------------------------------------
(* The causes of what is sent and of what the status column says.          *)

(* What has to be true of the counts of one order.                         *)
Caused(o) ==
  /\ sent["topack"][o] > 0 =>
       \E q \in Orders : /\ whOf[q] = whOf[o] /\ thingsOf[q] = thingsOf[o]
                         /\ Answered("buy", q)
  /\ sent["pickupreq"][o] <= sent["topack"][o]
  /\ sent["load"][o] > 0 => Answered("topack", o) /\ Answered("pickupreq", o)
  /\ sent["loaded"][o] > 0 => Answered("load", o)

LEMMA CauseStep ==
  ASSUME IInv, [Next]_vars
  PROVE  CauseChain'
<1> USE DEF IInv
<1>0. SUFFICES ASSUME NEW o \in Orders
               PROVE  Caused(o)'
  BY DEF CauseChain, Caused
<1> DEFINE Same(k) == sent'[k][o] = sent[k][o]
<1>a. Caused(o)
  BY DEF CauseChain, Caused
<1>b. \A k : \A q : Answered(k, q) => Answered(k, q)'
  BY AnsweredStays
<1>c. /\ sent["topack"][o] \in Nat /\ sent["pickupreq"][o] \in Nat
      /\ sent["load"][o] \in Nat /\ sent["loaded"][o] \in Nat
  BY KindNames DEF TypeOK
<1>d. ASSUME Same("topack"), Same("pickupreq"), Same("load"), Same("loaded")
      PROVE  Caused(o)'
  BY <1>a, <1>b, <1>d DEF Caused
<1>1. CASE UNCHANGED sent
  BY <1>1, <1>d
<1>2. ASSUME NEW q \in Orders, PushRequest(q)
      PROVE  Caused(o)'
  <2>1. Send("buy", q)
    BY <1>2 DEF PushRequest
  <2>2. \A k \in Kinds \ {"buy"} : Same(k)
    BY <2>1, SendCount, KindNames
  <2> QED
    BY <2>2, <1>d, KindNames
<1>3. CASE ScanMatch
  <2>1. /\ world.pc = "scan" /\ world.pos <= Len(Requests)
        /\ thingsOf[Here] = thingsOf[world.m.ship]
        /\ Send("topack", Here)
    BY <1>3 DEF ScanMatch, Scanning, SameThings
  <2>2. Here \in Orders
    BY <2>1, HereType
  <2>3. \A k \in Kinds \ {"topack"} : Same(k)
    BY <2>1, <2>2, SendCount, KindNames
  <2>4. CASE o # Here
    <3>1. Same("topack")
      BY <2>1, <2>2, <2>4, SendCount, KindNames
    <3> QED
      BY <2>3, <3>1, <1>d, KindNames
  <2>5. CASE o = Here
    <3>1. sent'["topack"][o] = sent["topack"][o] + 1
      BY <2>1, <2>2, <2>5, SendCount, KindNames
    <3>2. whOf[Here] = whOf[world.m.ship]
      BY <2>1, WarehouseOfArrival DEF ListedAtHome, Here, Requests
    <3>3. Answered("buy", world.m.ship) /\ world.m.ship \in Orders
      BY <2>1, WarehouseOfArrival DEF ArrivalSeen, Answered
    <3>4. \E q \in Orders : /\ whOf[q] = whOf[o] /\ thingsOf[q] = thingsOf[o]
                            /\ Answered("buy", q)'
      BY <2>1, <2>5, <3>2, <3>3, <1>b
    <3>5. sent'["pickupreq"][o] <= sent'["topack"][o]
      BY <2>3, <3>1, <1>a, <1>c, KindNames DEF Caused
    <3> QED
      BY <2>3, <3>4, <3>5, <1>a, <1>b, KindNames DEF Caused
  <2> QED
    BY <2>4, <2>5
<1>4. CASE RequestPickup
  <2>1. world.pc = "pickup" /\ Send("pickupreq", Here)
    BY <1>4 DEF RequestPickup
  <2>2. Here \in Orders
    BY <2>1, HereType DEF EntryInHand
  <2>3. \A k \in Kinds \ {"pickupreq"} : Same(k)
    BY <2>1, <2>2, SendCount, KindNames
  <2>4. sent'["pickupreq"][o] <= sent["topack"][o]
    <3>1. CASE o = Here
      <4>1. sent["pickupreq"][o] < sent["topack"][o]
        BY <2>1, <3>1 DEF EntryInHand
      <4>2. sent'["pickupreq"][o] = sent["pickupreq"][o] + 1
        BY <2>1, <2>2, <3>1, SendCount, KindNames
      <4> QED
        BY <4>1, <4>2, <1>c
    <3>2. CASE o # Here
      BY <2>1, <2>2, <3>2, <1>a, SendCount, KindNames DEF Caused
    <3> QED
      BY <3>1, <3>2
  <2> QED
    BY <2>3, <2>4, <1>a, <1>b, KindNames DEF Caused
<1>5. ASSUME NEW m \in Msg, m.kind = "load", ReceiveLoaded(m)
      PROVE  Caused(o)'
  <2>1. Send("loaded", m.ship) /\ m.ship \in Orders /\ m \in recv_acks'
    BY <1>5 DEF ReceiveLoaded, Msg
  <2>2. \A k \in Kinds \ {"loaded"} : Same(k)
    BY <2>1, SendCount, KindNames
  <2>3. sent'["loaded"][o] > 0 => Answered("load", o)'
    <3>1. CASE o = m.ship
      BY <1>5, <2>1, <3>1 DEF Answered
    <3>2. CASE o # m.ship
      BY <2>1, <3>2, <1>a, <1>b, SendCount, KindNames DEF Caused
    <3> QED
      BY <3>1, <3>2
  <2> QED
    BY <2>2, <2>3, <1>a, <1>b, KindNames DEF Caused
<1>6. ASSUME NEW p \in packers, LoadPackage(p)
      PROVE  Caused(o)'
  <2>1. Send("load", p.m.ship) /\ p.m.ship \in Orders
    BY <1>6 DEF LoadPackage, Msg, TypeOK
  <2>2. Answered("topack", p.m.ship) /\ Answered("pickupreq", p.m.ship)
    BY <1>6, <2>1
    DEF LoadPackage, TruckKnown, PackersBelong, TrucksAnswered, Answered
  <2>3. \A k \in Kinds \ {"load"} : Same(k)
    BY <2>1, SendCount, KindNames
  <2>4. sent'["load"][o] > 0 =>
          Answered("topack", o)' /\ Answered("pickupreq", o)'
    <3>1. CASE o = p.m.ship
      BY <2>2, <3>1, <1>b
    <3>2. CASE o # p.m.ship
      BY <2>1, <3>2, <1>a, <1>b, SendCount, KindNames DEF Caused
    <3> QED
      BY <3>1, <3>2
  <2> QED
    BY <2>3, <2>4, <1>a, <1>b, KindNames DEF Caused
<1> QED
  BY <1>1, <1>2, <1>3, <1>4, <1>5, <1>6, Writers

(* What has to be true when the status column of an order says s.          *)
Earned(o, s) ==
  /\ s = "packing" => sent["topack"][o] > 0
  /\ s = "packed" => Answered("topack", o)
  /\ s = "loading" => Answered("topack", o) /\ Answered("pickupreq", o)
  /\ s = "delivering" => Answered("load", o)
  /\ s = "delivered" => Answered("loaded", o)

(* A status stays earned: nothing is ever unsent or unanswered.            *)
LEMMA PackSentStays ==
  ASSUME IInv, [Next]_vars, NEW o \in Orders, sent["topack"][o] > 0
  PROVE  sent'["topack"][o] > 0
<1> USE DEF IInv
<1>1. sent["topack"][o] \in Nat
  BY KindNames DEF TypeOK
<1>2. CASE ScanMatch
  <2>1. Send("topack", Here) /\ Here \in Orders
    BY <1>2, HereType DEF ScanMatch, Scanning
  <2> QED
    BY <1>1, <2>1, SendCount, KindNames
<1>3. CASE RequestPickup
  <2>1. Send("pickupreq", Here) /\ Here \in Orders
    BY <1>3, HereType DEF RequestPickup, EntryInHand
  <2> QED
    BY <2>1, SendCount, KindNames
<1>4. CASE ~ScanMatch /\ ~RequestPickup
  BY <1>4, OthersSend
<1> QED
  BY <1>2, <1>3, <1>4

LEMMA StatusStep ==
  ASSUME IInv, StatusIsEarned, [Next]_vars
  PROVE  StatusIsEarned'
<1> USE DEF IInv
<1>0. SUFFICES ASSUME NEW o \in Orders
               PROVE  Earned(o, status[o])'
  BY DEF StatusIsEarned, Earned
<1>a. \A k : \A q : Answered(k, q) => Answered(k, q)'
  BY AnsweredStays
<1>b. ASSUME status'[o] = status[o]
      PROVE  Earned(o, status[o])'
  BY <1>a, <1>b, PackSentStays DEF Earned, StatusIsEarned
<1>c. ASSUME NEW q \in Orders, NEW s, Update_Order_Status(q, s),
             q = o => Earned(o, s)'
      PROVE  Earned(o, status[o])'
  <2>1. status'[o] = status[o] \/ (q = o /\ status'[o] = s)
    BY <1>c DEF Update_Order_Status, TypeOK
  <2> QED
    BY <1>b, <1>c, <2>1 DEF Earned
<1>1. CASE UNCHANGED status
  BY <1>1, <1>b
<1>2. CASE MarkPacking
  <2>1. Update_Order_Status(Here, "packing") /\ UNCHANGED sent
    BY <1>2 DEF MarkPacking
  <2>2. Here \in Orders /\ sent["pickupreq"][Here] < sent["topack"][Here]
    BY <1>2, HereType DEF MarkPacking, EntryInHand
  <2>3. sent["pickupreq"][Here] \in Nat /\ sent["topack"][Here] \in Nat
    BY <2>2, KindNames DEF TypeOK
  <2>4. Here = o => Earned(o, "packing")'
    BY <2>1, <2>2, <2>3 DEF Earned
  <2> QED
    BY <2>1, <2>2, <2>4, <1>c
<1>3. ASSUME NEW m \in Msg, m.kind = "load", ReceiveLoaded(m)
      PROVE  Earned(o, status[o])'
  <2>1. Update_Order_Status(m.ship, "delivering") /\ m.ship \in Orders
    BY <1>3 DEF ReceiveLoaded, Msg
  <2>2. m.ship = o => Earned(o, "delivering")'
    BY <1>3 DEF ReceiveLoaded, Earned, Answered
  <2> QED
    BY <2>1, <2>2, <1>c
<1>4. ASSUME NEW p \in packers, StartPacker(p)
      PROVE  Earned(o, status[o])'
  <2>1. Update_Order_Status(p.m.ship, "packed") /\ p.m.ship \in Orders
    BY <1>4 DEF StartPacker, Msg, TypeOK
  <2>2. p.m.ship = o => Earned(o, "packed")'
    BY <1>4 DEF StartPacker, PackersBelong, Earned, Answered
  <2> QED
    BY <2>1, <2>2, <1>c
<1>5. ASSUME NEW p \in packers, LoadPackage(p)
      PROVE  Earned(o, status[o])'
  <2>1. Update_Order_Status(p.m.ship, "loading") /\ p.m.ship \in Orders
    BY <1>5 DEF LoadPackage, Msg, TypeOK
  <2>2. Answered("topack", p.m.ship) /\ Answered("pickupreq", p.m.ship)
    BY <1>5, <2>1
    DEF LoadPackage, TruckKnown, PackersBelong, TrucksAnswered, Answered
  <2>3. p.m.ship = o => Earned(o, "loading")'
    BY <2>2, <1>a DEF Earned
  <2> QED
    BY <2>1, <2>3, <1>c
<1>6. ASSUME NEW m \in Msg, m.kind = "loaded", ReceiveDelivered(m)
      PROVE  Earned(o, status[o])'
  <2>1. Update_Order_Status(m.ship, "delivered") /\ m.ship \in Orders
    BY <1>6 DEF ReceiveDelivered, Msg
  <2>2. m.ship = o => Earned(o, "delivered")'
    BY <1>6 DEF ReceiveDelivered, Earned, Answered
  <2> QED
    BY <2>1, <2>2, <1>c
<1> QED
  BY <1>1, <1>2, <1>3, <1>4, <1>5, <1>6, Writers

LEMMA IInvInit == Init => IInv
<1> SUFFICES ASSUME Init
             PROVE  IInv
  OBVIOUS
<1>1. MutexHeld /\ ListedAtHome /\ TypeOK
  BY TypeInit, ScanInit
<1>2. /\ EntryInHand /\ ArrivalSeen /\ PackersBelong /\ TrucksAnswered
      /\ CauseChain
  BY KindNames
  DEF Init, IdleWorld, EntryInHand, ArrivalSeen, PackersBelong,
      TrucksAnswered, CauseChain
<1> QED
  BY <1>1, <1>2 DEF IInv

LEMMA IInvStep == IInv /\ [Next]_vars => IInv'
<1> SUFFICES ASSUME IInv, [Next]_vars
             PROVE  IInv'
  OBVIOUS
<1>1. TypeOK' /\ MutexHeld' /\ ListedAtHome'
  BY TypeStep, MutexStep, ListedStep DEF IInv
<1>2. EntryInHand' /\ ArrivalSeen' /\ PackersBelong' /\ TrucksAnswered'
  BY EntryStep, ArrivalStep, PackersStep, TrucksStep
<1>3. CauseChain'
  BY CauseStep
<1> QED
  BY <1>1, <1>2, <1>3 DEF IInv

(* No command is sent for a package before the answers it builds on have   *)
(* come in, however the threads of the server interleave.                  *)
THEOREM CommandsHaveCauses == Spec => []CauseChain
<1>1. IInv => CauseChain
  BY DEF IInv
<1> QED
  BY <1>1, IInvInit, IInvStep, PTL DEF Spec

(* What the customer reads in the status column has happened, even when    *)
(* answers are repeated, updates rolled back and map entries lost.         *)
THEOREM StatusEarned == Spec => []StatusIsEarned
<1>1. Init => IInv /\ StatusIsEarned
  BY IInvInit DEF Init, LC!Init, StatusIsEarned
<1>2. IInv /\ StatusIsEarned /\ [Next]_vars => (IInv /\ StatusIsEarned)'
  BY IInvStep, StatusStep
<1> QED
  BY <1>1, <1>2, PTL DEF Spec
-----------------------------------------------------------------------------
(* What is done for an order is done after its request is over.            *)

SentDone == \A k \in Kinds, o \in Orders : sent[k][o] > 0 => front[o] = "done"

PackersDone == \A p \in packers : front[p.m.ship] = "done"

HandDone == world.pc # "idle" => front[world.m.ship] = "done"

ListedDone ==
  \A w \in Warehouses : \A i \in 1..Len(purchase_request_list[w]) :
    front[purchase_request_list[w][i]] = "done"

DInv == /\ IInv /\ SentDone /\ PackersDone /\ HandDone /\ ListedDone

(* Once over, a request stays over.                                        *)
LEMMA DoneStays ==
  ASSUME TypeOK, [Next]_vars, NEW o \in Orders, front[o] = "done"
  PROVE  front'[o] = "done"
<1>1. ASSUME NEW q \in Orders, Process_order(q) \/ StoreInfo(q) \/ PushRequest(q)
      PROVE  front'[o] = "done"
  BY <1>1 DEF Process_order, StoreInfo, PushRequest, TypeOK
<1> QED
  BY <1>1, StepCases
  DEF vars, intake, ReceiveArrived, ScanSkip, ScanMatch, ScanMiss,
      MarkPacking, RequestPickup, FinishArrived, ReceiveReady, ReceiveLoaded,
      ReceiveError, StartPacker, LoadPackage, ReceiveTruckArrived,
      ReceiveDelivered, UpsReceiveFails

(* A request that comes to its end does so by being listed and sent.       *)
LEMMA DoneByPush ==
  ASSUME TypeOK, [Next]_vars, NEW o \in Orders, front'[o] = "done"
  PROVE  front[o] = "done" \/ PushRequest(o)
<1>1. ASSUME NEW q \in Orders, Process_order(q) \/ StoreInfo(q)
      PROVE  front[o] = "done"
  BY <1>1 DEF Process_order, StoreInfo, TypeOK
<1>2. ASSUME NEW q \in Orders, PushRequest(q)
      PROVE  front[o] = "done" \/ PushRequest(o)
  BY <1>2 DEF PushRequest, TypeOK
<1> QED
  BY <1>1, <1>2, StepCases
  DEF vars, intake, ReceiveArrived, ScanSkip, ScanMatch, ScanMiss,
      MarkPacking, RequestPickup, FinishArrived, ReceiveReady, ReceiveLoaded,
      ReceiveError, StartPacker, LoadPackage, ReceiveTruckArrived,
      ReceiveDelivered, UpsReceiveFails

(* The order of an entry, or of an answer, has been listed.                *)
LEMMA HereListed ==
  ASSUME TypeOK, world.pc # "idle", world.pos <= Len(Requests)
  PROVE  /\ Here \in Orders /\ world.pos \in 1..Len(Requests)
         /\ Requests = purchase_request_list[whOf[world.m.ship]]
         /\ Here = purchase_request_list[whOf[world.m.ship]][world.pos]
         /\ whOf[world.m.ship] \in Warehouses
BY HereType, WarehouseOfArrival DEF Requests, Here

LEMMA HereDone ==
  ASSUME DInv, world.pc # "idle", world.pos <= Len(Requests)
  PROVE  Here \in Orders /\ front[Here] = "done"
BY HereListed DEF DInv, IInv, ListedDone

LEMMA AskedDone ==
  ASSUME DInv, NEW m \in Msg, Asked(m)
  PROVE  m.ship \in Orders /\ m.kind \in Kinds /\ front[m.ship] = "done"
<1>1. m.ship \in Orders /\ m.kind \in Kinds
  BY DEF Msg
<1>2. sent[m.kind][m.ship] \in Nat
  BY <1>1 DEF DInv, IInv, TypeOK
<1>3. sent[m.kind][m.ship] > 0
  BY <1>2 DEF Asked
<1> QED
  BY <1>1, <1>3 DEF DInv, SentDone

LEMMA SentDoneStep ==
  ASSUME DInv, [Next]_vars
  PROVE  SentDone'
<1>0. TypeOK /\ SentDone /\ PackersDone /\ EntryInHand
  BY DEF DInv, IInv
<1> SUFFICES ASSUME NEW k \in Kinds, NEW o \in Orders, sent'[k][o] > 0
             PROVE  front'[o] = "done"
  BY DEF SentDone
<1>1. CASE sent'[k][o] = sent[k][o]
  BY <1>0, <1>1, DoneStays DEF SentDone
<1>2. ASSUME NEW j \in Kinds, NEW q \in Orders, Send(j, q), front'[q] = "done"
      PROVE  front'[o] = "done"
  BY <1>0, <1>1, <1>2, SendCount
<1>3. ASSUME NEW q \in Orders, PushRequest(q)
      PROVE  front'[o] = "done"
  <2>1. front'[q] = "done"
    BY <1>0, <1>3 DEF PushRequest, TypeOK
  <2> QED
    BY <1>2, <1>3, <2>1, KindNames DEF PushRequest
<1>4. CASE ScanMatch \/ RequestPickup
  <2>1. world.pc # "idle" /\ world.pos <= Len(Requests)
    BY <1>0, <1>4 DEF ScanMatch, RequestPickup, Scanning, EntryInHand
  <2>2. Here \in Orders /\ front'[Here] = "done"
    BY <1>0, <2>1, HereDone, DoneStays
  <2> QED
    BY <1>2, <1>4, <2>2, KindNames DEF ScanMatch, RequestPickup
<1>5. ASSUME NEW m \in Msg, Asked(m), ReceiveLoaded(m)
      PROVE  front'[o] = "done"
  BY <1>0, <1>2, <1>5, AskedDone, DoneStays, KindNames DEF ReceiveLoaded
<1>6. ASSUME NEW p \in packers, LoadPackage(p)
      PROVE  front'[o] = "done"
  <2>1. p.m.ship \in Orders
    BY <1>0 DEF TypeOK, Msg
  <2>2. front'[p.m.ship] = "done"
    BY <1>0, <2>1, DoneStays DEF PackersDone
  <2> QED
    BY <1>2, <1>6, <2>1, <2>2, KindNames DEF LoadPackage
<1>7. \/ UNCHANGED sent
      \/ \E q \in Orders : PushRequest(q)
      \/ ScanMatch \/ RequestPickup
      \/ \E m \in Msg : Asked(m) /\ ReceiveLoaded(m)
      \/ \E p \in packers : LoadPackage(p)
  BY <1>0, AskedCases
  DEF vars, inbox, Process_order, StoreInfo, ReceiveArrived, ScanSkip, ScanMiss,
      MarkPacking, FinishArrived, ReceiveReady, ReceiveError, StartPacker,
      ReceiveTruckArrived, ReceiveDelivered, UpsReceiveFails
<1> QED
  BY <1>1, <1>3, <1>4, <1>5, <1>6, <1>7

LEMMA PackersDoneStep ==
  ASSUME DInv, [Next]_vars
  PROVE  PackersDone'
<1>0. TypeOK /\ PackersDone
  BY DEF DInv, IInv
<1>1. ASSUME NEW p \in packers
      PROVE  p.m.ship \in Orders /\ front'[p.m.ship] = "done"
  <2>1. p.m.ship \in Orders
    BY <1>0 DEF TypeOK, Msg
  <2> QED
    BY <1>0, <2>1, DoneStays DEF PackersDone
<1>2. CASE UNCHANGED packers
  BY <1>1, <1>2 DEF PackersDone
<1>3. ASSUME NEW m \in Msg, Asked(m), ReceiveReady(m)
      PROVE  PackersDone'
  <2>1. front'[m.ship] = "done"
    BY <1>0, <1>3, AskedDone, DoneStays
  <2> QED
    BY <1>1, <1>3, <2>1 DEF ReceiveReady, PackersDone
<1>4. ASSUME NEW p \in packers, StartPacker(p)
      PROVE  PackersDone'
  <2>1. p \in [m : Msg, k : Nat, pc : {"start", "wait"}]
    BY <1>0 DEF TypeOK
  <2>2. [p EXCEPT !.pc = "wait"].m = p.m
    BY <2>1
  <2> QED
    BY <1>1, <1>4, <2>2 DEF StartPacker, PackersDone
<1>5. ASSUME NEW p \in packers, LoadPackage(p)
      PROVE  PackersDone'
  BY <1>1, <1>5 DEF LoadPackage, PackersDone
<1>6. \/ UNCHANGED packers
      \/ \E m \in Msg : Asked(m) /\ ReceiveReady(m)
      \/ \E p \in packers : StartPacker(p)
      \/ \E p \in packers : LoadPackage(p)
  BY <1>0, AskedCases
  DEF vars, Process_order, StoreInfo, PushRequest, ReceiveArrived, ScanSkip,
      ScanMatch, ScanMiss, MarkPacking, RequestPickup, FinishArrived,
      ReceiveLoaded, ReceiveError, ReceiveTruckArrived, ReceiveDelivered,
      UpsReceiveFails
<1> QED
  BY <1>2, <1>3, <1>4, <1>5, <1>6

LEMMA HandDoneStep ==
  ASSUME DInv, [Next]_vars
  PROVE  HandDone'
<1>0. TypeOK /\ HandDone
  BY DEF DInv, IInv
<1>1. world.pc # "idle" => world.m.ship \in Orders /\ front'[world.m.ship] = "done"
  BY <1>0, WarehouseOfArrival, DoneStays DEF HandDone
<1>2. CASE UNCHANGED world
  BY <1>1, <1>2 DEF HandDone
<1>3. CASE ScanSkip \/ ScanMatch \/ MarkPacking \/ RequestPickup
  <2>1. world.pc # "idle"
    BY <1>3 DEF ScanSkip, ScanMatch, MarkPacking, RequestPickup, Scanning
  <2>2. world'.m = world.m
    BY <1>0, <1>3, <2>1, BusyType
    DEF ScanSkip, ScanMatch, MarkPacking, RequestPickup, BusyOK, Busy
  <2> QED
    BY <1>1, <2>1, <2>2 DEF HandDone
<1>4. CASE ScanMiss \/ FinishArrived
  BY <1>4 DEF ScanMiss, FinishArrived, IdleWorld, HandDone
<1>5. ASSUME NEW m \in Msg, Asked(m), ReceiveArrived(m)
      PROVE  HandDone'
  <2>1. front'[m.ship] = "done"
    BY <1>0, <1>5, AskedDone, DoneStays
  <2> QED
    BY <1>5, <2>1 DEF ReceiveArrived, HandDone
<1>6. \/ UNCHANGED world
      \/ ScanSkip \/ ScanMatch \/ ScanMiss
      \/ MarkPacking \/ RequestPickup \/ FinishArrived
      \/ \E m \in Msg : Asked(m) /\ ReceiveArrived(m)
  BY <1>0, AskedCases
  DEF vars, Process_order, StoreInfo, PushRequest, ReceiveReady,
      ReceiveLoaded, ReceiveError, StartPacker, LoadPackage,
      ReceiveTruckArrived, ReceiveDelivered, UpsReceiveFails
<1> QED
  BY <1>2, <1>3, <1>4, <1>5, <1>6

(* An order is listed when its request ends, and stays where it is.        *)
LEMMA PushedList ==
  ASSUME TypeOK, NEW q \in Orders, PushRequest(q), NEW w \in Warehouses
  PROVE  /\ purchase_request_list[w] \in Seq(Orders)
         /\ purchase_request_list'[w] = IF w = whOf[q]
                                        THEN Append(purchase_request_list[w], q)
                                        ELSE purchase_request_list[w]
         /\ front'[q] = "done" /\ front[q] = "stored"
BY DEF PushRequest, TypeOK

LEMMA ListedDoneStep ==
  ASSUME DInv, [Next]_vars
  PROVE  ListedDone'
<1>0. TypeOK /\ ListedDone
  BY DEF DInv, IInv
<1> DEFINE list(w) == purchase_request_list[w]
<1>1. \A w \in Warehouses : list(w) \in Seq(Orders)
  BY <1>0 DEF TypeOK
<1>2. \A w \in Warehouses : \A i \in 1..Len(list(w)) : front'[list(w)[i]] = "done"
  BY <1>0, <1>1, DoneStays DEF ListedDone
<1>3. CASE UNCHANGED purchase_request_list
  BY <1>2, <1>3 DEF ListedDone
<1>4. ASSUME NEW q \in Orders, PushRequest(q)
      PROVE  ListedDone'
  <2> SUFFICES ASSUME NEW w \in Warehouses, NEW i \in 1..Len(list(w)')
               PROVE  front'[list(w)'[i]] = "done"
    BY DEF ListedDone
  <2>1. /\ list(w) \in Seq(Orders)
        /\ list(w)' = Append(list(w), q) \/ list(w)' = list(w)
    BY <1>0, <1>1, <1>4, PushedList
  <2>2. CASE i \in 1..Len(list(w))
    <3>1. list(w)'[i] = list(w)[i]
      BY <2>1, <2>2
    <3> QED
      BY <1>2, <2>2, <3>1
  <2>3. CASE i \notin 1..Len(list(w))
    <3>1. list(w)'[i] = q
      BY <2>1, <2>3
    <3> QED
      BY <1>0, <1>4, <3>1, PushedList
  <2> QED
    BY <2>2, <2>3
<1> QED
  BY <1>0, <1>3, <1>4, Writers

LEMMA DInvInit == Init => DInv
<1> SUFFICES ASSUME Init
             PROVE  DInv
  OBVIOUS
<1>1. IInv
  BY IInvInit
<1> QED
  BY <1>1 DEF Init, DInv, SentDone, PackersDone, HandDone, ListedDone,
              IdleWorld

LEMMA DInvStep == DInv /\ [Next]_vars => DInv'
<1> SUFFICES ASSUME DInv, [Next]_vars
             PROVE  DInv'
  OBVIOUS
<1>1. IInv'
  BY IInvStep DEF DInv
<1> QED
  BY <1>1, SentDoneStep, PackersDoneStep, HandDoneStep, ListedDoneStep
  DEF DInv
-----------------------------------------------------------------------------
(* Without races the maps hold what was written to them.                   *)

Stored ==
  \A o \in Orders : front[o] \in {"stored", "done"} =>
    shipid_to_whid[o] = whOf[o] /\ o \in seqnum_to_orderinfo

LEMMA StoredInit == Init => Stored
BY DEF Init, Stored

LEMMA StoredStep ==
  ASSUME Racy = FALSE, TypeOK, Stored, [Next]_vars
  PROVE  Stored'
<1>1. ASSUME NEW q \in Orders, Process_order(q)
      PROVE  Stored'
  BY <1>1 DEF Process_order, Stored, TypeOK
<1>2. ASSUME NEW q \in Orders, StoreInfo(q)
      PROVE  Stored'
  BY <1>2 DEF StoreInfo, StoreWarehouse, InsertInProgress, Stored, TypeOK
<1>3. ASSUME NEW q \in Orders, PushRequest(q)
      PROVE  Stored'
  BY <1>3 DEF PushRequest, Stored, TypeOK
<1>4. CASE UNCHANGED <<front, shipid_to_whid, seqnum_to_orderinfo>>
  BY <1>4 DEF Stored
<1> QED
  BY <1>1, <1>2, <1>3, <1>4, StepCases
  DEF vars, intake, ReceiveArrived, ScanSkip, ScanMatch, ScanMiss,
      MarkPacking, RequestPickup, FinishArrived, ReceiveReady, ReceiveLoaded,
      ReceiveError, StartPacker, LoadPackage, ReceiveTruckArrived,
      ReceiveDelivered, UpsReceiveFails

(* Unless unlocked insertions disturb each other, no package is loaded at  *)
(* a warehouse that operator[] of shipid_to_whid made up.                  *)
THEOREM WarehouseKnown ==
  ASSUME Racy = FALSE
  PROVE  Spec => []LoadKnowsWarehouse
<1>1. Init => DInv /\ Stored
  BY DInvInit, StoredInit
<1>2. DInv /\ Stored /\ [Next]_vars => (DInv /\ Stored)'
  BY DInvStep, StoredStep DEF DInv, IInv
<1>3. DInv /\ Stored => LoadKnowsWarehouse
  BY KindNames DEF DInv, SentDone, Stored, LoadKnowsWarehouse
<1> QED
  BY <1>1, <1>2, <1>3, PTL DEF Spec
-----------------------------------------------------------------------------
(* An acknowledged arrival has been acted on.                              *)

(* An order whose request is over is listed at its warehouse.              *)
DoneListed ==
  \A o \in Orders : front[o] = "done" =>
    \E i \in 1..Len(purchase_request_list[whOf[o]]) :
      purchase_request_list[whOf[o]][i] = o

(* The World thread is past the matching of an entry.                      *)
Passed(i) == \/ i < world.pos
             \/ i = world.pos /\ world.pc \in {"status", "pickup"}

ScannedPacked ==
  world.pc # "idle" =>
    \A i \in 1..Len(Requests) :
      Passed(i) /\ thingsOf[Requests[i]] = thingsOf[world.m.ship]
        => sent["topack"][Requests[i]] > 0

AckedPacked ==
  \A m \in acked \ refused :
    m.kind = "buy" => \/ sent["topack"][m.ship] > 0
                      \/ world.pc # "idle" /\ world.m = m

AInv == DInv /\ DoneListed /\ Stored /\ ScannedPacked /\ AckedPacked

LEMMA AInvInit == Init => AInv
<1> SUFFICES ASSUME Init
             PROVE  AInv
  OBVIOUS
<1>1. DInv /\ Stored
  BY DInvInit, StoredInit
<1> QED
  BY <1>1 DEF Init, AInv, DoneListed, ScannedPacked, AckedPacked, IdleWorld

LEMMA DoneListedStep ==
  ASSUME TypeOK, DoneListed, [Next]_vars
  PROVE  DoneListed'
<1> DEFINE list(w) == purchase_request_list[w]
<1>1. \A o \in Orders : whOf[o] \in Warehouses /\ list(whOf[o]) \in Seq(Orders)
  BY ConstantsAssumption DEF TypeOK
<1>2. CASE UNCHANGED purchase_request_list
  <2>1. \A o \in Orders : ~PushRequest(o)
    <3> SUFFICES ASSUME NEW o \in Orders, PushRequest(o)
                 PROVE  FALSE
      OBVIOUS
    <3>1. list(whOf[o]) = Append(list(whOf[o]), o)
      BY <1>1, <1>2, PushedList
    <3> QED
      BY <1>1, <3>1
  <2> QED
    BY <1>2, <2>1, DoneByPush DEF DoneListed
<1>3. ASSUME NEW q \in Orders, PushRequest(q)
      PROVE  DoneListed'
  <2> SUFFICES ASSUME NEW o \in Orders, front'[o] = "done"
               PROVE  \E i \in 1..Len(list(whOf[o])') : list(whOf[o])'[i] = o
    BY DEF DoneListed
  <2>1. CASE o = q
    <3>1. list(whOf[o])' = Append(list(whOf[o]), o)
      BY <1>1, <1>3, <2>1, PushedList
    <3>2. /\ Len(list(whOf[o])) + 1 \in 1..Len(list(whOf[o])')
          /\ list(whOf[o])'[Len(list(whOf[o])) + 1] = o
      BY <1>1, <3>1
    <3> QED
      BY <3>2
  <2>2. CASE o # q
    <3>1. front[o] = "done"
      BY <1>3, <2>2 DEF PushRequest, TypeOK
    <3>2. PICK i \in 1..Len(list(whOf[o])) : list(whOf[o])[i] = o
      BY <3>1 DEF DoneListed
    <3>3. /\ list(whOf[o]) \in Seq(Orders)
          /\ \/ list(whOf[o])' = Append(list(whOf[o]), q)
             \/ list(whOf[o])' = list(whOf[o])
      BY <1>1, <1>3, PushedList
    <3>4. i \in 1..Len(list(whOf[o])') /\ list(whOf[o])'[i] = o
      BY <3>2, <3>3
    <3> QED
      BY <3>4
  <2> QED
    BY <2>1, <2>2
<1> QED
  BY <1>2, <1>3, Writers

(* A turn of the loop leaves list and message as they are.                 *)
LEMMA ScanKeeps ==
  ASSUME TypeOK, ScanSkip \/ ScanMatch \/ MarkPacking \/ RequestPickup
  PROVE  /\ world.pc # "idle" /\ world'.pc # "idle" /\ world'.m = world.m
         /\ Requests' = Requests /\ Requests \in Seq(Orders)
         /\ world.pos \in Nat
         /\ ScanSkip => world'.pc = "scan" /\ world'.pos = world.pos + 1
         /\ ScanMatch => world'.pc = "status" /\ world'.pos = world.pos
         /\ MarkPacking => world'.pc = "pickup" /\ world'.pos = world.pos
         /\ RequestPickup => world'.pc = "scan" /\ world'.pos = world.pos + 1
<1>1. world.pc # "idle"
  BY DEF ScanSkip, ScanMatch, MarkPacking, RequestPickup, Scanning
<1>2. PICK c \in {"scan", "status", "pickup"}, mm \in Msg, i \in Nat :
        world = [pc |-> c, m |-> mm, pos |-> i]
  BY <1>1, BusyType DEF BusyOK, Busy
<1>3. UNCHANGED purchase_request_list
  BY DEF ScanSkip, ScanMatch, MarkPacking, RequestPickup, intake
<1>4. /\ ScanSkip => world' = [pc |-> c, m |-> mm, pos |-> i + 1] /\ c = "scan"
      /\ ScanMatch => world' = [pc |-> "status", m |-> mm, pos |-> i]
      /\ MarkPacking => world' = [pc |-> "pickup", m |-> mm, pos |-> i]
      /\ RequestPickup => world' = [pc |-> "scan", m |-> mm, pos |-> i + 1]
  BY <1>2 DEF ScanSkip, ScanMatch, MarkPacking, RequestPickup, Scanning
<1>5. world'.m = world.m
  BY <1>2, <1>4
<1>6. Requests' = Requests
  BY <1>3, <1>5 DEF Requests
<1> QED
  BY <1>1, <1>2, <1>4, <1>5, <1>6, WarehouseOfArrival

LEMMA ScannedStep ==
  ASSUME AInv, [Next]_vars
  PROVE  ScannedPacked'
<1>0. IInv /\ TypeOK /\ MutexHeld /\ ScannedPacked
  BY DEF AInv, DInv, IInv
<1>1. ASSUME world.pc # "idle", NEW i \in 1..Len(Requests),
             sent["topack"][Requests[i]] > 0
      PROVE  sent'["topack"][Requests[i]] > 0
  <2>1. Requests[i] \in Orders
    BY <1>0, <1>1, WarehouseOfArrival
  <2> QED
    BY <1>0, <1>1, <2>1, PackSentStays
<1>2. CASE UNCHANGED <<world, purchase_mutex>>
  <2> SUFFICES ASSUME world.pc # "idle"
               PROVE  ScannedPacked'
    BY <1>2 DEF ScannedPacked
  <2>1. Requests' = Requests
    BY <1>0, <1>2, ListFrozen DEF Requests
  <2> QED
    BY <1>0, <1>1, <1>2, <2>1 DEF ScannedPacked, Passed
<1>3. CASE ScanSkip
  <2>1. thingsOf[Requests[world.pos]] # thingsOf[world.m.ship]
    BY <1>3 DEF ScanSkip, SameThings, Here
  <2> QED
    BY <1>0, <1>1, <1>3, <2>1, ScanKeeps DEF ScannedPacked, Passed
<1>4. CASE ScanMatch
  <2>1. Here \in Orders /\ Here = Requests[world.pos]
    BY <1>0, <1>4, HereType DEF ScanMatch, Scanning, Here
  <2>2. sent["topack"][Here] \in Nat
    BY <1>0, <2>1, KindNames DEF TypeOK
  <2>3. sent'["topack"][Here] > 0
    BY <1>0, <1>4, <2>1, <2>2, SendCount, KindNames DEF ScanMatch
  <2>4. /\ world'.pc = "status" /\ world'.pos = world.pos /\ world.pc # "idle"
        /\ Requests' = Requests /\ world'.m = world.m
    BY <1>0, <1>4, ScanKeeps
  <2>5. \A i \in 1..Len(Requests) : Passed(i)' => Passed(i) \/ i = world.pos
    BY <2>4 DEF Passed
  <2> SUFFICES ASSUME NEW i \in 1..Len(Requests), Passed(i)',
                      thingsOf[Requests[i]] = thingsOf[world.m.ship]
               PROVE  sent'["topack"][Requests[i]] > 0
    BY <2>4 DEF ScannedPacked
  <2>6. CASE i = world.pos
    BY <2>1, <2>3, <2>6
  <2>7. CASE Passed(i)
    BY <1>0, <1>1, <2>4, <2>7 DEF ScannedPacked
  <2> QED
    BY <2>5, <2>6, <2>7
<1>5. CASE MarkPacking
  <2>1. world.pc = "status"
    BY <1>5 DEF MarkPacking
  <2> QED
    BY <1>0, <1>1, <1>5, <2>1, ScanKeeps DEF ScannedPacked, Passed
<1>6. CASE RequestPickup
  <2>1. world.pc = "pickup"
    BY <1>6 DEF RequestPickup
  <2> QED
    BY <1>0, <1>1, <1>6, <2>1, ScanKeeps DEF ScannedPacked, Passed
<1>7. CASE ScanMiss \/ FinishArrived
  BY <1>7 DEF ScanMiss, FinishArrived, IdleWorld, ScannedPacked
<1>8. ASSUME NEW m \in Msg, ReceiveArrived(m)
      PROVE  ScannedPacked'
  BY <1>8 DEF ReceiveArrived, ScannedPacked, Passed
<1> QED
  BY <1>0, <1>2, <1>3, <1>4, <1>5, <1>6, <1>7, <1>8, Writers

(* When the loop is over, the order that the arrival names is packed.      *)
LEMMA FinishedIsPacked ==
  ASSUME AInv, FinishArrived
  PROVE  sent["topack"][world.m.ship] > 0
<1>1. world.pc = "scan" /\ ~(world.pos <= Len(Requests))
  BY DEF FinishArrived, Scanning
<1>2. /\ world.m.ship \in Orders /\ Requests \in Seq(Orders)
      /\ world.pos \in Nat
  BY <1>1, WarehouseOfArrival DEF AInv, DInv, IInv
<1>3. PICK i \in 1..Len(Requests) : Requests[i] = world.m.ship
  <2>1. front[world.m.ship] = "done"
    BY <1>1 DEF AInv, DInv, HandDone
  <2>2. DoneListed
    BY DEF AInv
  <2>3. \E i \in 1..Len(purchase_request_list[whOf[world.m.ship]]) :
          purchase_request_list[whOf[world.m.ship]][i] = world.m.ship
    BY <1>2, <2>1, <2>2 DEF DoneListed
  <2> QED
    BY <2>3 DEF Requests
<1>4. Passed(i)
  BY <1>1, <1>2 DEF Passed
<1> QED
  BY <1>1, <1>3, <1>4 DEF AInv, ScannedPacked

LEMMA NeverMissed ==
  ASSUME Racy = FALSE, AInv
  PROVE  ~ScanMiss
<1> SUFFICES ASSUME ScanMiss
             PROVE  FALSE
  OBVIOUS
<1>1. Here \in Orders /\ front[Here] = "done"
  BY HereDone DEF AInv, ScanMiss, Scanning
<1> QED
  BY <1>1 DEF AInv, Stored, ScanMiss, InsertInProgress

LEMMA AckedStep ==
  ASSUME Racy = FALSE, AInv, [Next]_vars
  PROVE  AckedPacked'
<1>0. IInv /\ TypeOK /\ AckedPacked /\ PackersBelong
  BY DEF AInv, DInv, IInv
<1> SUFFICES ASSUME NEW m \in acked' \ refused', m.kind = "buy"
             PROVE  \/ sent'["topack"][m.ship] > 0
                    \/ world'.pc # "idle" /\ world'.m = m
  BY DEF AckedPacked
<1>1. ASSUME m \in acked \ refused, sent["topack"][m.ship] > 0
      PROVE  sent'["topack"][m.ship] > 0
  <2>1. m.ship \in Orders
    BY <1>0, <1>1 DEF TypeOK, Msg
  <2> QED
    BY <1>0, <1>1, <2>1, PackSentStays
<1>2. CASE m \in acked \ refused /\ UNCHANGED world
  BY <1>0, <1>1, <1>2 DEF AckedPacked
<1>3. ASSUME NEW x \in Msg, ReceiveArrived(x)
      PROVE  \/ sent'["topack"][m.ship] > 0
             \/ world'.pc # "idle" /\ world'.m = m
  BY <1>0, <1>1, <1>3 DEF ReceiveArrived, AckIfBitSet, AckedPacked
<1>4. CASE ScanSkip \/ ScanMatch \/ MarkPacking \/ RequestPickup
  <2>1. m \in acked \ refused
    BY <1>4 DEF ScanSkip, ScanMatch, MarkPacking, RequestPickup, inbox
  <2> QED
    BY <1>0, <1>1, <1>4, <2>1, ScanKeeps DEF AckedPacked
<1>5. CASE FinishArrived
  <2>1. sent' = sent /\ refused' = refused /\ acked' = acked \cup {world.m}
    BY <1>5 DEF FinishArrived, Ack
  <2>2. CASE m = world.m
    BY <1>5, <2>1, <2>2, FinishedIsPacked
  <2>3. CASE m # world.m
    BY <1>0, <2>1, <2>3 DEF AckedPacked
  <2> QED
    BY <2>2, <2>3
<1>6. ASSUME NEW x, x.kind # "buy", Ack(x) \/ AckIfBitSet(x),
             UNCHANGED <<refused, world>>
      PROVE  m \in acked \ refused /\ UNCHANGED world
  BY <1>6 DEF Ack, AckIfBitSet
<1>7. ASSUME NEW x \in Msg, ReceiveError(x)
      PROVE  m \in acked \ refused /\ UNCHANGED world
  BY <1>7 DEF ReceiveError, Ack
<1>8. ASSUME NEW p \in packers, StartPacker(p) \/ LoadPackage(p)
      PROVE  m \in acked \ refused /\ UNCHANGED world
  BY <1>0, <1>6, <1>8 DEF StartPacker, LoadPackage, PackersBelong
<1>9. ASSUME NEW x \in Msg,
             \/ x.kind = "load" /\ ReceiveLoaded(x)
             \/ x.kind = "pickupreq" /\ ReceiveTruckArrived(x)
             \/ x.kind = "loaded" /\ ReceiveDelivered(x)
      PROVE  m \in acked \ refused /\ UNCHANGED world
  BY <1>6, <1>9 DEF ReceiveLoaded, ReceiveTruckArrived, ReceiveDelivered
<1>10. ASSUME \/ UNCHANGED vars \/ UpsReceiveFails
              \/ \E o \in Orders : Process_order(o) \/ StoreInfo(o) \/ PushRequest(o)
              \/ \E x \in Msg : ReceiveReady(x)
       PROVE  m \in acked \ refused /\ UNCHANGED world
  BY <1>10 DEF vars, inbox, UpsReceiveFails, Process_order, StoreInfo,
               PushRequest, ReceiveReady
<1> QED
  BY <1>0, <1>2, <1>3, <1>4, <1>5, <1>7, <1>8, <1>9, <1>10, NeverMissed,
     StepCases

(* Unless unlocked insertions disturb each other, the World is not told to *)
(* stop repeating an arrival before the order it names has been sent for   *)
(* packing: the order thread is always early enough.                       *)
THEOREM AckedIsPacked ==
  ASSUME Racy = FALSE
  PROVE  Spec => []AckedArrivalIsPacked
<1>1. AInv /\ [Next]_vars => AInv'
  BY DInvStep, DoneListedStep, StoredStep, ScannedStep, AckedStep
  DEF AInv, DInv, IInv
<1>2. AInv => AckedArrivalIsPacked
  <2> SUFFICES ASSUME AInv, NEW o \in Orders,
                      Cmd("buy", o, 1) \in acked \ refused,
                      world.m # Cmd("buy", o, 1)
               PROVE  sent["topack"][o] > 0
    BY DEF AckedArrivalIsPacked
  <2>1. Cmd("buy", o, 1).kind = "buy" /\ Cmd("buy", o, 1).ship = o
    BY DEF Cmd
  <2> QED
    BY <2>1 DEF AInv, AckedPacked
<1> QED
  BY <1>1, <1>2, AInvInit, PTL DEF Spec
-----------------------------------------------------------------------------
(* Where no answer comes twice and no two orders are alike, each command   *)
(* is sent once.                                                           *)

Different ==
  \A o, q \in Orders : whOf[o] = whOf[q] /\ thingsOf[o] = thingsOf[q] => o = q

BuyOnce == \A o \in Orders : sent["buy"][o] <= 1

ListedOnce ==
  \A w \in Warehouses : \A i, j \in 1..Len(purchase_request_list[w]) :
    purchase_request_list[w][i] = purchase_request_list[w][j] => i = j

(* What the World thread handles is the answer to an order's one purchase, *)
(* whose package is not sent for packing before its entry is reached.      *)
HandOnce ==
  world.pc # "idle" =>
    /\ world.m = Cmd("buy", world.m.ship, 1)
    /\ \A i \in 1..Len(Requests) :
         Requests[i] = world.m.ship /\ ~Passed(i)
           => sent["topack"][world.m.ship] = 0

PackOnce ==
  \A o \in Orders :
    /\ sent["topack"][o] <= 1
    /\ sent["topack"][o] > 0 => Cmd("buy", o, 1) \in recv_acks

(* A package has one packer at most, and none once it is being loaded.     *)
PackersOnce ==
  \A p \in packers : /\ p.m = Cmd("topack", p.m.ship, 1)
                     /\ sent["load"][p.m.ship] = 0
                     /\ \A r \in packers : r.m = p.m => r = p

LoadOnce ==
  \A o \in Orders :
    /\ sent["load"][o] <= 1
    /\ sent["load"][o] > 0 => Cmd("topack", o, 1) \in recv_acks

LoadedOnce ==
  \A o \in Orders :
    /\ sent["loaded"][o] <= 1
    /\ sent["loaded"][o] > 0 => Cmd("load", o, 1) \in recv_acks

OInv == /\ DInv
        /\ BuyOnce /\ ListedOnce /\ HandOnce /\ PackOnce
        /\ PackersOnce /\ LoadOnce /\ LoadedOnce

LEMMA OInvInit == Init => OInv
<1> SUFFICES ASSUME Init
             PROVE  OInv
  OBVIOUS
<1>1. DInv
  BY DInvInit
<1> QED
  BY <1>1, KindNames
  DEF Init, OInv, BuyOnce, ListedOnce, HandOnce, PackOnce, PackersOnce,
      LoadOnce, LoadedOnce, IdleWorld

(* An answer that is delivered is new, and is the answer to a first        *)
(* command.                                                                *)
LEMMA DeliveredOnce ==
  ASSUME MaxResends = 0, TypeOK, NEW m, Deliver(m)
  PROVE  m \notin recv_acks /\ \A p \in packers : p.m # m
BY DEF Deliver, SeenBefore, TypeOK

LEMMA FirstOnly ==
  ASSUME TypeOK, NEW m \in Msg, Asked(m), sent[m.kind][m.ship] <= 1
  PROVE  m = Cmd(m.kind, m.ship, 1)
<1>1. m.kind \in Kinds /\ m.ship \in Orders /\ m.n \in Nat
  BY DEF Msg
<1>2. sent[m.kind][m.ship] \in Nat
  BY <1>1 DEF TypeOK
<1>3. m.n = 1
  BY <1>1, <1>2 DEF Asked
<1> QED
  BY <1>3 DEF Cmd, Msg

LEMMA CmdInjective ==
  ASSUME NEW k, NEW o, NEW q, NEW i, Cmd(k, o, i) = Cmd(k, q, i)
  PROVE  o = q
<1>1. Cmd(k, o, i).ship = o /\ Cmd(k, q, i).ship = q
  BY DEF Cmd
<1> QED
  BY <1>1

(* Which step raises which count, and by how much.                         *)
LEMMA Counts ==
  ASSUME IInv, [Next]_vars, NEW o \in Orders
  PROVE  /\ \/ sent'["buy"][o] = sent["buy"][o]
            \/ PushRequest(o) /\ sent'["buy"][o] = sent["buy"][o] + 1
         /\ \/ sent'["topack"][o] = sent["topack"][o]
            \/ ScanMatch /\ Here = o /\ sent'["topack"][o] = sent["topack"][o] + 1
         /\ \/ sent'["pickupreq"][o] = sent["pickupreq"][o]
            \/ /\ RequestPickup /\ Here = o
               /\ sent'["pickupreq"][o] = sent["pickupreq"][o] + 1
         /\ \/ sent'["load"][o] = sent["load"][o]
            \/ /\ sent'["load"][o] = sent["load"][o] + 1
               /\ \E p \in packers : p.m.ship = o /\ LoadPackage(p)
         /\ \/ sent'["loaded"][o] = sent["loaded"][o]
            \/ /\ sent'["loaded"][o] = sent["loaded"][o] + 1
               /\ \E m \in Msg : /\ m.kind = "load" /\ m.ship = o
                                 /\ Asked(m) /\ ReceiveLoaded(m)
<1>0. TypeOK
  BY DEF IInv
<1>1. ASSUME NEW k \in Kinds, NEW q \in Orders, Send(k, q)
      PROVE  \A j \in Kinds :
               sent'[j][o] = IF j = k /\ o = q THEN sent[j][o] + 1 ELSE sent[j][o]
  BY <1>0, <1>1, SendCount
<1>2. CASE UNCHANGED sent
  BY <1>2
<1>3. ASSUME NEW q \in Orders, PushRequest(q)
      PROVE  \A j \in Kinds : \/ sent'[j][o] = sent[j][o]
                              \/ /\ j = "buy" /\ PushRequest(o)
                                 /\ sent'[j][o] = sent[j][o] + 1
  <2>1. Send("buy", q)
    BY <1>3 DEF PushRequest
  <2> QED
    BY <1>1, <1>3, <2>1, KindNames
<1>4. CASE ScanMatch
  <2>1. Send("topack", Here) /\ Here \in Orders
    BY <1>0, <1>4, HereType DEF ScanMatch, Scanning
  <2> QED
    BY <1>1, <1>4, <2>1, KindNames
<1>5. CASE RequestPickup
  <2>1. Send("pickupreq", Here) /\ Here \in Orders
    BY <1>0, <1>5, HereType DEF RequestPickup, IInv, EntryInHand
  <2> QED
    BY <1>1, <1>5, <2>1, KindNames
<1>6. ASSUME NEW m \in Msg, m.kind = "load", Asked(m), ReceiveLoaded(m)
      PROVE  \A j \in Kinds : \/ sent'[j][o] = sent[j][o]
                              \/ /\ j = "loaded" /\ m.ship = o
                                 /\ sent'[j][o] = sent[j][o] + 1
  <2>1. Send("loaded", m.ship) /\ m.ship \in Orders
    BY <1>6 DEF ReceiveLoaded, Msg
  <2> QED
    BY <1>1, <2>1, KindNames
<1>7. ASSUME NEW p \in packers, LoadPackage(p)
      PROVE  \A j \in Kinds : \/ sent'[j][o] = sent[j][o]
                              \/ /\ j = "load" /\ p.m.ship = o
                                 /\ sent'[j][o] = sent[j][o] + 1
  <2>1. Send("load", p.m.ship) /\ p.m.ship \in Orders
    BY <1>0, <1>7 DEF LoadPackage, TypeOK, Msg
  <2> QED
    BY <1>1, <2>1, KindNames
<1>8. \/ UNCHANGED sent
      \/ \E q \in Orders : PushRequest(q)
      \/ ScanMatch \/ RequestPickup
      \/ \E m \in Msg : m.kind = "load" /\ Asked(m) /\ ReceiveLoaded(m)
      \/ \E p \in packers : LoadPackage(p)
  BY <1>0, AskedCases
  DEF vars, Process_order, StoreInfo, ReceiveArrived, ScanSkip, ScanMiss,
      MarkPacking, FinishArrived, ReceiveReady, ReceiveError, StartPacker,
      ReceiveTruckArrived, ReceiveDelivered, UpsReceiveFails
<1> QED
  BY <1>2, <1>3, <1>4, <1>5, <1>6, <1>7, <1>8, KindNames

LEMMA BuyStep ==
  ASSUME DInv, BuyOnce, ListedOnce, [Next]_vars
  PROVE  BuyOnce' /\ ListedOnce'
<1>0. IInv /\ TypeOK /\ SentDone /\ ListedDone /\ BuyOnce /\ ListedOnce
  BY DEF DInv, IInv
<1>1. BuyOnce'
  <2> SUFFICES ASSUME NEW o \in Orders
               PROVE  sent'["buy"][o] <= 1
    BY DEF BuyOnce
  <2>1. sent["buy"][o] \in Nat
    BY <1>0, KindNames DEF TypeOK
  <2>2. PushRequest(o) => sent["buy"][o] = 0
    BY <1>0, <2>1, KindNames DEF PushRequest, SentDone
  <2> QED
    BY <1>0, <2>1, <2>2, Counts DEF BuyOnce
<1>2. CASE UNCHANGED purchase_request_list
  BY <1>0, <1>1, <1>2 DEF ListedOnce
<1>3. ASSUME NEW q \in Orders, PushRequest(q)
      PROVE  ListedOnce'
  <2> SUFFICES ASSUME NEW w \in Warehouses
               PROVE  \A i, j \in 1..Len(purchase_request_list'[w]) :
                        purchase_request_list'[w][i] = purchase_request_list'[w][j]
                          => i = j
    BY DEF ListedOnce
  <2> DEFINE list == purchase_request_list[w]
  <2>1. /\ list \in Seq(Orders)
        /\ list' = Append(list, q) \/ list' = list
    BY <1>0, <1>3, PushedList
  <2>2. \A i \in 1..Len(list) : list[i] # q
    BY <1>0, <1>3 DEF ListedDone, PushRequest
  <2>3. \A i, j \in 1..Len(list) : list[i] = list[j] => i = j
    BY <1>0 DEF ListedOnce
  <2> HIDE DEF list
  <2>4. \A i, j \in 1..Len(list') : list'[i] = list'[j] => i = j
    BY <2>1, <2>2, <2>3
  <2> QED
    BY <2>4 DEF list
<1> QED
  BY <1>0, <1>1, <1>2, <1>3, Writers

(* The one entry that is matched is that of the order in hand.             *)
LEMMA MatchesItself ==
  ASSUME Different, TypeOK, ListedAtHome, ScanMatch
  PROVE  /\ Here = world.m.ship /\ Here \in Orders
         /\ world.pos \in 1..Len(Requests) /\ Here = Requests[world.pos]
         /\ world.pc = "scan" /\ ~Passed(world.pos)
<1>1. world.pc = "scan" /\ world.pos <= Len(Requests) /\ SameThings
  BY DEF ScanMatch, Scanning
<1>2. /\ world.m.ship \in Orders /\ Here \in Orders
      /\ world.pos \in 1..Len(Requests) /\ Here = Requests[world.pos]
      /\ whOf[Here] = whOf[world.m.ship]
  <2>1. world.m.ship \in Orders
    BY <1>1, WarehouseOfArrival
  <2> QED
    BY <1>1, <2>1, HereListed DEF ListedAtHome
<1>3. Here = world.m.ship
  BY <1>1, <1>2 DEF Different, SameThings
<1>4. ~Passed(world.pos)
  BY <1>1, <1>2 DEF Passed
<1> QED
  BY <1>1, <1>2, <1>3, <1>4

LEMMA MatchIsOwn ==
  ASSUME Different, OInv, ScanMatch
  PROVE  /\ Here = world.m.ship /\ Here \in Orders
         /\ sent["topack"][Here] = 0
         /\ Cmd("buy", Here, 1) \in recv_acks
<1>0. TypeOK /\ ListedAtHome /\ ArrivalSeen /\ HandOnce
  BY DEF OInv, DInv, IInv
<1>1. /\ Here = world.m.ship /\ Here \in Orders
      /\ world.pos \in 1..Len(Requests) /\ Here = Requests[world.pos]
      /\ world.pc = "scan" /\ ~Passed(world.pos)
  BY <1>0, MatchesItself
<1>2. world.m = Cmd("buy", Here, 1) /\ world.m \in recv_acks
  BY <1>0, <1>1 DEF HandOnce, ArrivalSeen
<1>3. sent["topack"][Here] = 0
  BY <1>0, <1>1 DEF HandOnce
<1> QED
  BY <1>1, <1>2, <1>3

LEMMA PackOnceStep ==
  ASSUME Different, OInv, [Next]_vars
  PROVE  PackOnce'
<1>0. IInv /\ TypeOK /\ PackOnce
  BY DEF OInv, DInv, IInv
<1> SUFFICES ASSUME NEW o \in Orders
             PROVE  /\ sent'["topack"][o] <= 1
                    /\ sent'["topack"][o] > 0 => Cmd("buy", o, 1) \in recv_acks'
  BY DEF PackOnce
<1>1. recv_acks \subseteq recv_acks'
  BY <1>0, BitsStay
<1>2. CASE sent'["topack"][o] = sent["topack"][o]
  BY <1>0, <1>1, <1>2 DEF PackOnce
<1>3. CASE ScanMatch /\ Here = o /\ sent'["topack"][o] = sent["topack"][o] + 1
  BY <1>1, <1>3, MatchIsOwn
<1> QED
  BY <1>0, <1>2, <1>3, Counts

LEMMA HandOnceStep ==
  ASSUME MaxResends = 0, Different, OInv, [Next]_vars
  PROVE  HandOnce'
<1>0. IInv /\ TypeOK /\ MutexHeld /\ HandOnce /\ ListedOnce /\ BuyOnce /\ PackOnce
  BY DEF OInv, DInv, IInv
<1>1. CASE UNCHANGED <<world, purchase_mutex>>
  <2> SUFFICES ASSUME world.pc # "idle"
               PROVE  HandOnce'
    BY <1>1 DEF HandOnce
  <2>1. Requests' = Requests
    BY <1>0, <1>1, ListFrozen DEF Requests
  <2>2. world.m.ship \in Orders
    BY <1>0, WarehouseOfArrival
  <2>3. ~ScanMatch
    BY <1>0, <1>1, ScanKeeps DEF ScanMatch, Scanning
  <2>4. sent'["topack"][world.m.ship] = sent["topack"][world.m.ship]
    BY <1>0, <2>2, <2>3, Counts
  <2> QED
    BY <1>0, <1>1, <2>1, <2>4 DEF HandOnce, Passed
<1>2. CASE ScanSkip \/ ScanMatch \/ MarkPacking \/ RequestPickup
  <2>1. /\ world.pc # "idle" /\ world'.pc # "idle" /\ world'.m = world.m
        /\ Requests' = Requests /\ world.m.ship \in Orders
    BY <1>0, <1>2, ScanKeeps, WarehouseOfArrival
  <2> SUFFICES ASSUME NEW i \in 1..Len(Requests),
                      Requests[i] = world.m.ship, ~Passed(i)'
               PROVE  sent'["topack"][world.m.ship] = 0
    BY <1>0, <2>1 DEF HandOnce
  <2>2. /\ ScanSkip => world.pc = "scan"
        /\ ScanMatch => world.pc = "scan"
        /\ MarkPacking => world.pc = "status"
        /\ RequestPickup => world.pc = "pickup"
    BY DEF ScanSkip, ScanMatch, Scanning, MarkPacking, RequestPickup
  <2>3. ~Passed(i) /\ (ScanMatch => i # world.pos)
    BY <1>0, <1>2, <2>2, ScanKeeps DEF Passed
  <2>4. sent["topack"][world.m.ship] = 0
    BY <1>0, <2>1, <2>3 DEF HandOnce
  <2>5. CASE ScanMatch
    <3>1. /\ Here = world.m.ship /\ Here = Requests[world.pos]
          /\ world.pos \in 1..Len(Requests)
      BY <1>0, <2>1, <2>5, MatchIsOwn, HereListed DEF ScanMatch, Scanning, Here
    <3>2. i = world.pos
      BY <1>0, <2>1, <3>1, WarehouseOfArrival DEF ListedOnce, Requests
    <3> QED
      BY <2>3, <2>5, <3>2
  <2>6. CASE ~ScanMatch
    BY <1>0, <2>1, <2>4, <2>6, Counts
  <2> QED
    BY <2>5, <2>6
<1>3. CASE ScanMiss \/ FinishArrived
  BY <1>3 DEF ScanMiss, FinishArrived, IdleWorld, HandOnce
<1>4. ASSUME NEW m \in Msg, m.kind = "buy", Asked(m), ReceiveArrived(m)
      PROVE  HandOnce'
  <2>1. m.ship \in Orders
    BY DEF Msg
  <2>2. m = Cmd("buy", m.ship, 1)
    BY <1>0, <1>4, <2>1, FirstOnly DEF BuyOnce
  <2>3. m \notin recv_acks
    BY <1>0, <1>4, DeliveredOnce DEF ReceiveArrived
  <2>4. sent["topack"][m.ship] = 0
    <3>1. sent["topack"][m.ship] \in Nat
      BY <1>0, <2>1, KindNames DEF TypeOK
    <3> QED
      BY <1>0, <2>1, <2>2, <2>3, <3>1 DEF PackOnce
  <2> QED
    BY <1>4, <2>2, <2>4 DEF ReceiveArrived, HandOnce
<1>5. \/ UNCHANGED <<world, purchase_mutex>>
      \/ ScanSkip \/ ScanMatch \/ ScanMiss
      \/ MarkPacking \/ RequestPickup \/ FinishArrived
      \/ \E m \in Msg : m.kind = "buy" /\ Asked(m) /\ ReceiveArrived(m)
  BY <1>0, AskedCases
  DEF vars, Process_order, StoreInfo, PushRequest, ReceiveReady,
      ReceiveLoaded, ReceiveError, StartPacker, LoadPackage,
      ReceiveTruckArrived, ReceiveDelivered, UpsReceiveFails
<1> QED
  BY <1>1, <1>2, <1>3, <1>4, <1>5

LEMMA LoadStep ==
  ASSUME OInv, [Next]_vars
  PROVE  LoadOnce'
<1>0. IInv /\ TypeOK /\ LoadOnce /\ PackersOnce /\ PackersBelong
  BY DEF OInv, DInv, IInv
<1> SUFFICES ASSUME NEW o \in Orders
             PROVE  /\ sent'["load"][o] <= 1
                    /\ sent'["load"][o] > 0 => Cmd("topack", o, 1) \in recv_acks'
  BY DEF LoadOnce
<1>1. recv_acks \subseteq recv_acks'
  BY <1>0, BitsStay
<1>2. CASE sent'["load"][o] = sent["load"][o]
  BY <1>0, <1>1, <1>2 DEF LoadOnce
<1>3. ASSUME sent'["load"][o] = sent["load"][o] + 1,
             NEW p \in packers, p.m.ship = o, LoadPackage(p)
      PROVE  /\ sent'["load"][o] <= 1
             /\ sent'["load"][o] > 0 => Cmd("topack", o, 1) \in recv_acks'
  BY <1>0, <1>1, <1>3 DEF PackersOnce, PackersBelong, LoadPackage
<1> QED
  BY <1>0, <1>2, <1>3, Counts

LEMMA PackersOnceStep ==
  ASSUME MaxResends = 0, OInv, [Next]_vars
  PROVE  PackersOnce'
<1>0. /\ IInv /\ TypeOK /\ PackersOnce /\ LoadOnce /\ PackOnce
  BY DEF OInv, DInv, IInv
<1>1. \A p \in packers : p.m.ship \in Orders
  BY <1>0 DEF TypeOK, Msg
<1>2. ASSUME \A p \in packers : ~LoadPackage(p)
      PROVE  \A o \in Orders : sent'["load"][o] = sent["load"][o]
  BY <1>0, <1>2, Counts
<1>3. CASE UNCHANGED packers
  <2>1. \A p \in packers : ~LoadPackage(p)
    BY <1>3 DEF LoadPackage
  <2> QED
    BY <1>0, <1>1, <1>2, <1>3, <2>1 DEF PackersOnce
<1>4. ASSUME NEW m \in Msg, m.kind = "topack", Asked(m), ReceiveReady(m)
      PROVE  PackersOnce'
  <2>1. m.ship \in Orders
    BY DEF Msg
  <2>2. m = Cmd("topack", m.ship, 1)
    BY <1>0, <1>4, <2>1, FirstOnly DEF PackOnce
  <2>3. m \notin recv_acks /\ \A p \in packers : p.m # m
    BY <1>0, <1>4, DeliveredOnce DEF ReceiveReady
  <2>4. sent["load"][m.ship] = 0
    <3>1. sent["load"][m.ship] \in Nat
      BY <1>0, <2>1, KindNames DEF TypeOK
    <3> QED
      BY <1>0, <2>1, <2>2, <2>3, <3>1 DEF LoadOnce
  <2>5. sent' = sent /\ \E r : r.m = m /\ packers' = packers \cup {r}
    <3>1. [m |-> m, k |-> resends', pc |-> "start"].m = m
      OBVIOUS
    <3> QED
      BY <1>4, <3>1 DEF ReceiveReady
  <2> QED
    BY <1>0, <2>2, <2>3, <2>4, <2>5 DEF PackersOnce
<1>5. ASSUME NEW p \in packers, StartPacker(p)
      PROVE  PackersOnce'
  <2>1. p \in [m : Msg, k : Nat, pc : {"start", "wait"}]
    BY <1>0 DEF TypeOK
  <2>2. [p EXCEPT !.pc = "wait"].m = p.m
    BY <2>1
  <2>3. sent' = sent /\ \E r : r.m = p.m /\ packers' = (packers \ {p}) \cup {r}
    BY <1>5, <2>2 DEF StartPacker
  <2> QED
    BY <1>0, <2>3 DEF PackersOnce
<1>6. ASSUME NEW p \in packers, LoadPackage(p)
      PROVE  PackersOnce'
  <2>1. packers' = packers \ {p} /\ Send("load", p.m.ship)
    BY <1>6 DEF LoadPackage
  <2>2. \A r \in packers' : r.m.ship # p.m.ship
    BY <1>0, <2>1 DEF PackersOnce
  <2>3. \A r \in packers' : sent'["load"][r.m.ship] = sent["load"][r.m.ship]
    BY <1>0, <1>1, <2>1, <2>2, SendCount, KindNames
  <2> QED
    BY <1>0, <2>1, <2>3 DEF PackersOnce
<1>7. \/ UNCHANGED packers
      \/ \E m \in Msg : m.kind = "topack" /\ Asked(m) /\ ReceiveReady(m)
      \/ \E p \in packers : StartPacker(p)
      \/ \E p \in packers : LoadPackage(p)
  BY <1>0, AskedCases
  DEF vars, Process_order, StoreInfo, PushRequest, ReceiveArrived, ScanSkip,
      ScanMatch, ScanMiss, MarkPacking, RequestPickup, FinishArrived,
      ReceiveLoaded, ReceiveError, ReceiveTruckArrived, ReceiveDelivered,
      UpsReceiveFails
<1> QED
  BY <1>3, <1>4, <1>5, <1>6, <1>7

LEMMA LoadedStep ==
  ASSUME MaxResends = 0, OInv, [Next]_vars
  PROVE  LoadedOnce'
<1>0. IInv /\ TypeOK /\ LoadOnce /\ LoadedOnce
  BY DEF OInv, DInv, IInv
<1> SUFFICES ASSUME NEW o \in Orders
             PROVE  /\ sent'["loaded"][o] <= 1
                    /\ sent'["loaded"][o] > 0 => Cmd("load", o, 1) \in recv_acks'
  BY DEF LoadedOnce
<1>1. recv_acks \subseteq recv_acks'
  BY <1>0, BitsStay
<1>2. CASE sent'["loaded"][o] = sent["loaded"][o]
  BY <1>0, <1>1, <1>2 DEF LoadedOnce
<1>3. ASSUME sent'["loaded"][o] = sent["loaded"][o] + 1,
             NEW m \in Msg, m.kind = "load", m.ship = o, Asked(m), ReceiveLoaded(m)
      PROVE  /\ sent'["loaded"][o] <= 1
             /\ sent'["loaded"][o] > 0 => Cmd("load", o, 1) \in recv_acks'
  <2>1. m = Cmd("load", o, 1)
    BY <1>0, <1>3, FirstOnly DEF LoadOnce
  <2>2. m \notin recv_acks /\ m \in recv_acks'
    BY <1>0, <1>3, DeliveredOnce DEF ReceiveLoaded
  <2>3. sent["loaded"][o] \in Nat
    BY <1>0, KindNames DEF TypeOK
  <2>4. sent["loaded"][o] = 0
    BY <1>0, <2>1, <2>2, <2>3 DEF LoadedOnce
  <2> QED
    BY <1>3, <2>1, <2>2, <2>4
<1> QED
  BY <1>0, <1>2, <1>3, Counts

LEMMA OInvStep ==
  ASSUME MaxResends = 0, Different, OInv, [Next]_vars
  PROVE  OInv'
<1>1. DInv' /\ BuyOnce' /\ ListedOnce'
  BY DInvStep, BuyStep DEF OInv
<1> QED
  BY <1>1, HandOnceStep, PackOnceStep, LoadStep, PackersOnceStep, LoadedStep
  DEF OInv

LEMMA OInvShips == OInv => OneShipment
<1> SUFFICES ASSUME OInv, NEW k \in Kinds, NEW o \in Orders
             PROVE  sent[k][o] <= 1
  BY DEF OneShipment
<1>1. /\ sent["buy"][o] <= 1 /\ sent["topack"][o] <= 1
      /\ sent["load"][o] <= 1 /\ sent["loaded"][o] <= 1
  BY DEF OInv, BuyOnce, PackOnce, LoadOnce, LoadedOnce
<1>2. /\ sent["pickupreq"][o] <= sent["topack"][o]
      /\ sent["pickupreq"][o] \in Nat /\ sent["topack"][o] \in Nat
  BY KindNames DEF OInv, DInv, IInv, CauseChain, TypeOK
<1> QED
  BY <1>1, <1>2 DEF Kinds, WorldKinds

(* Where no answer comes twice and no two orders are alike, nothing is     *)
(* bought, packed, loaded or announced twice for an order, under all races *)
(* and failures.                                                           *)
THEOREM ShippedOnce ==
  ASSUME MaxResends = 0, Different
  PROVE  Spec => []OneShipment
<1>1. OInv /\ [Next]_vars => OInv'
  BY OInvStep
<1> QED
  BY <1>1, OInvInit, OInvShips, PTL DEF Spec
-----------------------------------------------------------------------------
(* The status column follows the life cycle; where updates may fail it     *)
(* lags behind.  The invariant is about a set S of orders: all of them     *)
(* here, and those that came in since the server was started last in       *)
(* Restart.                                                                *)

(* The stages are all different, and so have one rank each.                *)
LEMMA Ranks ==
  /\ LC!Rank("ordered") = 1 /\ LC!Rank("packing") = 2 /\ LC!Rank("packed") = 3
  /\ LC!Rank("loading") = 4 /\ LC!Rank("delivering") = 5
  /\ LC!Rank("delivered") = 6
<1>1. DOMAIN LC!Stages = 1..6
  BY DEF LC!Stages
<1>2. /\ LC!Stages[1] = "ordered" /\ LC!Stages[2] = "packing"
      /\ LC!Stages[3] = "packed" /\ LC!Stages[4] = "loading"
      /\ LC!Stages[5] = "delivering" /\ LC!Stages[6] = "delivered"
  BY DEF LC!Stages
<1>3. \A i \in 1..6 : i = 1 \/ i = 2 \/ i = 3 \/ i = 4 \/ i = 5 \/ i = 6
  OBVIOUS
<1>4. \A i, j \in 1..6 : LC!Stages[i] = LC!Stages[j] => i = j
  BY <1>2, <1>3
<1>5. ASSUME NEW i \in 1..6
      PROVE  LC!Rank(LC!Stages[i]) = i
  BY <1>1, <1>4, <1>5 DEF LC!Rank
<1> QED
  BY <1>2, <1>5

LEMMA RankType ==
  ASSUME NEW s \in LC!Status
  PROVE  LC!Rank(s) \in 1..6
BY Ranks DEF LC!Status, LC!Stages

UpTo(s) == {t \in LC!Status : LC!Rank(t) <= LC!Rank(s)}

(* The column has come to s, or to what it was before some updates failed. *)
Says(o, s) == IF DbMayFail THEN status[o] \in UpTo(s) ELSE status[o] = s

(* The order is taken from stage a, which the column says, to the next.    *)
Onward(o, a, b) ==
  /\ {a, b} \subseteq LC!Status /\ LC!Rank(b) = LC!Rank(a) + 1
  /\ Says(o, a) /\ Update_Order_Status(o, b)

LEMMA OnwardSays ==
  ASSUME TypeOK, NEW o \in Orders, NEW a, NEW b, Onward(o, a, b)
  PROVE  /\ Says(o, b)'
         /\ LC!Rank(status[o]) <= LC!Rank(status'[o])
         /\ DbMayFail = FALSE => LC!Advance(o)
         /\ \A q \in Orders \ {o} : status'[q] = status[q]
<1>0. /\ a \in LC!Status /\ b \in LC!Status /\ LC!Rank(b) = LC!Rank(a) + 1
      /\ Says(o, a) /\ Update_Order_Status(o, b)
      /\ status \in [Orders -> LC!Status]
  BY DEF Onward, TypeOK
<1>1. /\ LC!Rank(a) \in 1..6 /\ LC!Rank(b) \in 1..6
      /\ status[o] \in LC!Status /\ LC!Rank(status[o]) \in 1..6
  BY <1>0, RankType
<1>2. LC!Rank(status[o]) <= LC!Rank(a)
  BY <1>0, <1>1 DEF Says, UpTo
<1>3. CASE status' = [status EXCEPT ![o] = b]
  <2>1. status'[o] = b /\ \A q \in Orders \ {o} : status'[q] = status[q]
    BY <1>0, <1>3
  <2>2. b \in UpTo(b)
    BY <1>0, <1>1 DEF UpTo
  <2>3. Says(o, b)'
    BY <2>1, <2>2 DEF Says
  <2>4. DbMayFail = FALSE => LC!Advance(o)
    BY <1>0, <1>3 DEF Says, LC!Advance
  <2> QED
    BY <1>0, <1>1, <1>2, <2>1, <2>3, <2>4
<1>4. CASE DbMayFail /\ status' = status
  <2>1. status[o] \in UpTo(b)
    BY <1>0, <1>1, <1>2 DEF UpTo
  <2>2. Says(o, b)'
    BY <1>4, <2>1 DEF Says
  <2> QED
    BY <1>1, <1>4, <2>2
<1> QED
  BY <1>0, <1>3, <1>4 DEF Update_Order_Status

(* The order has been sent for packing, and the column does not say so yet.*)
Marking(o) == world.pc = "status" /\ Here = o

(* What the column says at each point of an order's way.                   *)
Stage(o) ==
  /\ sent["topack"][o] = 0 \/ Marking(o) => Says(o, "ordered")
  /\ sent["topack"][o] > 0 /\ ~Marking(o) /\ Cmd("topack", o, 1) \notin recv_acks
       => Says(o, "packing")
  /\ Cmd("topack", o, 1) \in recv_acks /\ sent["load"][o] = 0
       => Says(o, "packed")
  /\ sent["load"][o] > 0 /\ Cmd("load", o, 1) \notin recv_acks
       => Says(o, "loading")
  /\ Cmd("load", o, 1) \in recv_acks /\ Cmd("loaded", o, 1) \notin recv_acks
       => Says(o, "delivering")
  /\ Cmd("loaded", o, 1) \in recv_acks => Says(o, "delivered")

StagesFollow(S) == \A o \in S : Stage(o)

(* Bits are set for answers to commands that were sent.                    *)
BitsAsked(S) == \A m \in recv_acks : m.ship \in S => Asked(m)

PackersNew ==
  \A p \in packers : Asked(p.m) /\ (p.pc = "start" => p.m \notin recv_acks)

MarkingFirst(S) ==
  \A o \in S : Marking(o) => /\ Cmd("topack", o, 1) \notin recv_acks
                            /\ \A p \in packers : p.m.ship # o

LInv(S) == /\ OInv /\ BitsAsked(S) /\ PackersNew
           /\ MarkingFirst(S) /\ StagesFollow(S)

LEMMA SaysFirst ==
  ASSUME NEW o, status[o] = "ordered"
  PROVE  Says(o, "ordered")
BY Ranks, StatusNames DEF Says, UpTo

LEMMA LInvInit ==
  ASSUME NEW S \in SUBSET Orders, Init
  PROVE  LInv(S)
<1>1. OInv
  BY OInvInit
<1>2. \A k \in Kinds, o \in Orders : sent[k][o] = 0
  BY DEF Init
<1>3. /\ recv_acks = {} /\ packers = {} /\ world.pc = "idle"
      /\ \A o \in Orders : status[o] = "ordered"
  BY DEF Init, IdleWorld, LC!Init
<1>4. \A o \in Orders : Says(o, "ordered")
  BY <1>3, SaysFirst
<1> QED
  BY <1>1, <1>2, <1>3, <1>4, KindNames
  DEF LInv, BitsAsked, PackersNew, MarkingFirst, StagesFollow, Stage, Marking

LEMMA SentGrows ==
  ASSUME IInv, [Next]_vars, NEW k \in Kinds, NEW o \in Orders
  PROVE  sent[k][o] \in Nat /\ sent'[k][o] \in Nat /\ sent[k][o] <= sent'[k][o]
<1>0. TypeOK /\ TypeOK'
  BY TypeStep DEF IInv
<1>1. sent[k][o] \in Nat /\ sent'[k][o] \in Nat
  BY <1>0 DEF TypeOK
<1>2. ASSUME NEW j \in Kinds, NEW q \in Orders, Send(j, q)
      PROVE  sent[k][o] <= sent'[k][o]
  BY <1>0, <1>1, <1>2, SendCount
<1>3. ASSUME NEW q \in Orders, PushRequest(q)
      PROVE  Send("buy", q)
  BY <1>3 DEF PushRequest
<1>4. CASE ScanMatch \/ RequestPickup
  <2>1. Here \in Orders
    BY <1>0, <1>4, HereType
    DEF ScanMatch, Scanning, RequestPickup, IInv, EntryInHand
  <2>2. PICK j \in Kinds : Send(j, Here)
    BY <1>4, KindNames DEF ScanMatch, RequestPickup
  <2> QED
    BY <1>1, <1>2, <2>1, <2>2
<1>5. ASSUME NEW m \in Msg, ReceiveLoaded(m)
      PROVE  Send("loaded", m.ship) /\ m.ship \in Orders
  BY <1>5 DEF ReceiveLoaded, Msg
<1>6. ASSUME NEW p \in packers, LoadPackage(p)
      PROVE  Send("load", p.m.ship) /\ p.m.ship \in Orders
  BY <1>0, <1>6 DEF LoadPackage, TypeOK, Msg
<1> QED
  BY <1>0, <1>1, <1>2, <1>3, <1>4, <1>5, <1>6, Writers, KindNames

LEMMA AskedSent ==
  ASSUME NEW k, NEW o, sent[k][o] \in Nat, Asked(Cmd(k, o, 1))
  PROVE  sent[k][o] > 0
<1>1. Cmd(k, o, 1).kind = k /\ Cmd(k, o, 1).ship = o /\ Cmd(k, o, 1).n = 1
  BY DEF Cmd
<1>2. 1 \in 1..sent[k][o]
  BY <1>1 DEF Asked
<1> QED
  BY <1>2

LEMMA AskedStays ==
  ASSUME IInv, [Next]_vars, NEW m \in Msg, Asked(m)
  PROVE  Asked(m)'
<1>1. m.kind \in Kinds /\ m.ship \in Orders /\ m.n \in Nat
  BY DEF Msg
<1>2. /\ sent[m.kind][m.ship] \in Nat /\ sent'[m.kind][m.ship] \in Nat
      /\ sent[m.kind][m.ship] <= sent'[m.kind][m.ship]
  BY <1>1, SentGrows
<1> QED
  BY <1>1, <1>2 DEF Asked

(* Who sets a bit.                                                         *)
LEMMA BitSetters ==
  ASSUME TypeOK, [Next]_vars
  PROVE  \/ recv_acks' = recv_acks
         \/ \E m \in Msg : /\ recv_acks' = recv_acks \cup {m} /\ Asked(m)
                           /\ \/ m.kind = "buy" /\ ReceiveArrived(m)
                              \/ m.kind = "load" /\ ReceiveLoaded(m)
                              \/ m.kind = "pickupreq" /\ ReceiveTruckArrived(m)
                              \/ m.kind = "loaded" /\ ReceiveDelivered(m)
         \/ \E p \in packers : recv_acks' = recv_acks \cup {p.m} /\ StartPacker(p)
<1>1. /\ \A m \in Msg : \/ ReceiveArrived(m) \/ ReceiveLoaded(m)
                         \/ ReceiveTruckArrived(m) \/ ReceiveDelivered(m)
                         => recv_acks' = recv_acks \cup {m}
      /\ \A p \in packers : StartPacker(p) => recv_acks' = recv_acks \cup {p.m}
  BY DEF ReceiveArrived, ReceiveLoaded, ReceiveTruckArrived, ReceiveDelivered,
         StartPacker
<1> QED
  BY <1>1, AskedCases
  DEF vars, inbox, Process_order, StoreInfo, PushRequest, ScanSkip, ScanMatch,
      ScanMiss, MarkPacking, RequestPickup, FinishArrived, ReceiveReady,
      ReceiveError, LoadPackage, UpsReceiveFails

LEMMA BitsAskedStep ==
  ASSUME NEW S \in SUBSET Orders, LInv(S), [Next]_vars
  PROVE  BitsAsked(S)'
<1>0. IInv /\ TypeOK /\ BitsAsked(S) /\ PackersNew
  BY DEF LInv, OInv, DInv, IInv
<1>1. recv_acks \subseteq Msg /\ \A p \in packers : p.m \in Msg
  BY <1>0 DEF TypeOK
<1>2. \A m \in recv_acks' : m \in Msg /\ (m.ship \in S => Asked(m))
  BY <1>0, <1>1, BitSetters DEF BitsAsked, PackersNew
<1> QED
  BY <1>0, <1>2, AskedStays DEF BitsAsked

(* The step that carries an order on its way.                              *)
Turn(o) ==
  \/ MarkPacking /\ Here = o
  \/ \E p \in packers : p.m.ship = o /\ (StartPacker(p) \/ LoadPackage(p))
  \/ \E m \in Msg : /\ m.ship = o /\ Asked(m)
                    /\ \/ m.kind = "load" /\ ReceiveLoaded(m)
                       \/ m.kind = "loaded" /\ ReceiveDelivered(m)

LEMMA NoTurn ==
  ASSUME IInv, [Next]_vars, NEW o \in Orders, ~Turn(o)
  PROVE  /\ status'[o] = status[o]
         /\ sent'["load"][o] = sent["load"][o]
         /\ \A k \in {"topack", "load", "loaded"} :
              Cmd(k, o, 1) \in recv_acks' <=> Cmd(k, o, 1) \in recv_acks
<1>0. TypeOK /\ PackersBelong
  BY DEF IInv
<1>1. sent'["load"][o] = sent["load"][o]
  BY Counts DEF Turn
<1>2. \A k \in {"topack", "load", "loaded"} :
        Cmd(k, o, 1) \in recv_acks' <=> Cmd(k, o, 1) \in recv_acks
  <2>1. ASSUME NEW k \in {"topack", "load", "loaded"}, NEW m,
               recv_acks' = recv_acks \cup {m}, m.ship # o \/ m.kind # k
        PROVE  Cmd(k, o, 1) \in recv_acks' <=> Cmd(k, o, 1) \in recv_acks
    <3>1. Cmd(k, o, 1).ship = o /\ Cmd(k, o, 1).kind = k
      BY DEF Cmd
    <3> QED
      BY <2>1, <3>1
  <2>2. ASSUME NEW p \in packers, StartPacker(p)
        PROVE  p.m.ship # o
    BY <2>2 DEF Turn
  <2>3. ASSUME NEW m \in Msg, Asked(m),
               \/ m.kind = "buy" /\ ReceiveArrived(m)
               \/ m.kind = "load" /\ ReceiveLoaded(m)
               \/ m.kind = "pickupreq" /\ ReceiveTruckArrived(m)
               \/ m.kind = "loaded" /\ ReceiveDelivered(m)
        PROVE  m.ship # o \/ m.kind \in {"buy", "pickupreq"}
    BY <2>3 DEF Turn
  <2> QED
    BY <1>0, <2>1, <2>2, <2>3, BitSetters
<1>3. status'[o] = status[o]
  <2>1. ASSUME NEW q, NEW s, Update_Order_Status(q, s), q # o
        PROVE  status'[o] = status[o]
    BY <1>0, <2>1 DEF Update_Order_Status, TypeOK
  <2>2. CASE MarkPacking
    BY <2>1, <2>2 DEF MarkPacking, Turn
  <2>3. ASSUME NEW p \in packers, StartPacker(p) \/ LoadPackage(p)
        PROVE  status'[o] = status[o]
    BY <2>1, <2>3 DEF StartPacker, LoadPackage, Turn
  <2>4. ASSUME NEW m \in Msg, Asked(m),
               \/ m.kind = "load" /\ ReceiveLoaded(m)
               \/ m.kind = "loaded" /\ ReceiveDelivered(m)
        PROVE  status'[o] = status[o]
    BY <2>1, <2>4 DEF ReceiveLoaded, ReceiveDelivered, Turn
  <2>5. \/ UNCHANGED status \/ MarkPacking
        \/ \E p \in packers : StartPacker(p) \/ LoadPackage(p)
        \/ \E m \in Msg : /\ Asked(m)
                          /\ \/ m.kind = "load" /\ ReceiveLoaded(m)
                             \/ m.kind = "loaded" /\ ReceiveDelivered(m)
    BY <1>0, AskedCases
    DEF vars, Process_order, StoreInfo, PushRequest, ReceiveArrived, ScanSkip,
        ScanMatch, ScanMiss, RequestPickup, FinishArrived, ReceiveReady,
        ReceiveError, ReceiveTruckArrived, UpsReceiveFails
  <2> QED
    BY <2>2, <2>3, <2>4, <2>5
<1> QED
  BY <1>1, <1>2, <1>3

(* The World thread begins to mark an order when it has sent it for        *)
(* packing, and ends with the update.                                      *)
LEMMA MarkingChange ==
  ASSUME IInv, [Next]_vars, NEW o \in Orders
  PROVE  \/ Marking(o)' <=> Marking(o)
         \/ ScanMatch /\ Here = o /\ Marking(o)'
         \/ MarkPacking /\ Here = o /\ ~Marking(o)'
<1>0. TypeOK /\ MutexHeld
  BY DEF IInv
<1>1. CASE UNCHANGED <<world, purchase_mutex>>
  <2>1. CASE world.pc # "status"
    BY <1>1, <2>1 DEF Marking
  <2>2. CASE world.pc = "status"
    <3>1. Requests' = Requests
      BY <1>0, <1>1, <2>2, ListFrozen DEF Requests
    <3> QED
      BY <1>1, <3>1 DEF Marking, Here
  <2> QED
    BY <2>1, <2>2
<1>2. CASE ScanSkip \/ RequestPickup
  <2>1. world.pc # "status" /\ world'.pc # "status"
    BY <1>0, <1>2, ScanKeeps DEF ScanSkip, Scanning, RequestPickup
  <2> QED
    BY <2>1 DEF Marking
<1>3. CASE ScanMatch
  <2>1. world.pc = "scan" /\ world'.pc = "status" /\ Here' = Here
    BY <1>0, <1>3, ScanKeeps DEF ScanMatch, Scanning, Here
  <2> QED
    BY <1>3, <2>1 DEF Marking
<1>4. CASE MarkPacking
  <2>1. world.pc = "status" /\ world'.pc = "pickup"
    BY <1>0, <1>4, ScanKeeps DEF MarkPacking
  <2> QED
    BY <1>4, <2>1 DEF Marking
<1>5. CASE ScanMiss \/ FinishArrived
  <2>1. world.pc # "status" /\ world'.pc # "status"
    BY <1>5 DEF ScanMiss, FinishArrived, Scanning, IdleWorld
  <2> QED
    BY <2>1 DEF Marking
<1>6. ASSUME NEW m \in Msg, ReceiveArrived(m)
      PROVE  Marking(o)' <=> Marking(o)
  <2>1. world.pc # "status" /\ world'.pc # "status"
    BY <1>6 DEF ReceiveArrived
  <2> QED
    BY <2>1 DEF Marking
<1> QED
  BY <1>0, <1>1, <1>2, <1>3, <1>4, <1>5, <1>6, Writers

LEMMA PackersNewStep ==
  ASSUME MaxResends = 0, OInv, PackersNew, [Next]_vars
  PROVE  PackersNew'
<1>0. /\ IInv /\ TypeOK /\ PackersBelong /\ PackersNew /\ PackersOnce
  BY DEF OInv, DInv, IInv
<1>1. \A p \in packers : p.m \in Msg /\ p.m.kind = "topack" /\ Asked(p.m) /\ Asked(p.m)'
  BY <1>0, AskedStays DEF TypeOK, PackersBelong, PackersNew
<1>2. ASSUME \A p \in packers : ~StartPacker(p), NEW x \in Msg, x.kind = "topack",
             x \in recv_acks'
      PROVE  x \in recv_acks
  BY <1>0, <1>2, BitSetters
<1>3. CASE UNCHANGED packers
  <2>1. CASE \A p \in packers : ~StartPacker(p)
    BY <1>0, <1>1, <1>2, <1>3, <2>1 DEF PackersNew
  <2>2. ASSUME NEW p \in packers, StartPacker(p)
        PROVE  FALSE
    <3>1. p \in [m : Msg, k : Nat, pc : {"start", "wait"}]
      BY <1>0 DEF TypeOK
    <3>2. p.pc = "start" /\ packers = (packers \ {p}) \cup {[p EXCEPT !.pc = "wait"]}
      BY <1>3, <2>2 DEF StartPacker
    <3>3. [p EXCEPT !.pc = "wait"].pc = "wait"
      BY <3>1
    <3> QED
      BY <3>2, <3>3
  <2> QED
    BY <2>1, <2>2
<1>4. ASSUME NEW m \in Msg, m.kind = "topack", Asked(m), ReceiveReady(m)
      PROVE  PackersNew'
  <2>1. m \notin recv_acks /\ recv_acks' = recv_acks
    BY <1>0, <1>4, DeliveredOnce DEF ReceiveReady
  <2>2. Asked(m)'
    BY <1>0, <1>4, AskedStays
  <2>3. \E r : r.m = m /\ packers' = packers \cup {r}
    <3>1. [m |-> m, k |-> resends', pc |-> "start"].m = m
      OBVIOUS
    <3> QED
      BY <1>4, <3>1 DEF ReceiveReady
  <2> QED
    BY <1>0, <1>1, <2>1, <2>2, <2>3 DEF PackersNew
<1>5. ASSUME NEW p \in packers, StartPacker(p)
      PROVE  PackersNew'
  <2>1. p \in [m : Msg, k : Nat, pc : {"start", "wait"}]
    BY <1>0 DEF TypeOK
  <2>2. [p EXCEPT !.pc = "wait"].m = p.m /\ [p EXCEPT !.pc = "wait"].pc = "wait"
    BY <2>1
  <2>3. recv_acks' = recv_acks \cup {p.m}
    BY <1>5 DEF StartPacker
  <2>4. \E r : r.m = p.m /\ r.pc = "wait" /\ packers' = (packers \ {p}) \cup {r}
    BY <1>5, <2>2 DEF StartPacker
  <2>5. \A r \in packers \ {p} : r.m # p.m
    BY <1>0 DEF PackersOnce
  <2> QED
    BY <1>0, <1>1, <2>3, <2>4, <2>5 DEF PackersNew
<1>6. ASSUME NEW p \in packers, LoadPackage(p)
      PROVE  PackersNew'
  <2>1. recv_acks' = recv_acks /\ packers' = packers \ {p}
    BY <1>6 DEF LoadPackage
  <2> QED
    BY <1>0, <1>1, <2>1 DEF PackersNew
<1>7. \/ UNCHANGED packers
      \/ \E m \in Msg : m.kind = "topack" /\ Asked(m) /\ ReceiveReady(m)
      \/ \E p \in packers : StartPacker(p)
      \/ \E p \in packers : LoadPackage(p)
  BY <1>0, AskedCases
  DEF vars, Process_order, StoreInfo, PushRequest, ReceiveArrived, ScanSkip,
      ScanMatch, ScanMiss, MarkPacking, RequestPickup, FinishArrived,
      ReceiveLoaded, ReceiveError, ReceiveTruckArrived, ReceiveDelivered,
      UpsReceiveFails
<1> QED
  BY <1>3, <1>4, <1>5, <1>6, <1>7

LEMMA MarkingFirstStep ==
  ASSUME MaxResends = 0, Different,
         NEW S \in SUBSET Orders, LInv(S), [Next]_vars
  PROVE  MarkingFirst(S)'
<1>0. /\ IInv /\ TypeOK /\ PackersBelong /\ PackersNew /\ PackersOnce
      /\ BitsAsked(S) /\ MarkingFirst(S)
  BY DEF LInv, OInv, DInv, IInv
<1>1. ASSUME NEW o \in S, sent["topack"][o] = 0
      PROVE  Cmd("topack", o, 1) \notin recv_acks /\ \A p \in packers : p.m.ship # o
  <2>1. \A m : m.kind = "topack" /\ m.ship = o => ~Asked(m)
    BY <1>1 DEF Asked
  <2>2. Cmd("topack", o, 1).kind = "topack" /\ Cmd("topack", o, 1).ship = o
    BY DEF Cmd
  <2> QED
    BY <1>0, <2>1, <2>2 DEF BitsAsked, PackersNew, PackersBelong
<1> SUFFICES ASSUME NEW o \in S, Marking(o)'
             PROVE  /\ Cmd("topack", o, 1) \notin recv_acks'
                    /\ \A p \in packers' : p.m.ship # o
  BY DEF MarkingFirst
<1>2. CASE ScanMatch /\ Here = o
  <2>1. recv_acks' = recv_acks /\ packers' = packers
    BY <1>2 DEF ScanMatch, inbox
  <2>2. sent["topack"][o] = 0
    BY <1>0, <1>2, MatchIsOwn DEF LInv
  <2> QED
    BY <1>1, <2>1, <2>2
<1>3. CASE Marking(o)
  <2>1. /\ Cmd("topack", o, 1) \notin recv_acks
        /\ \A p \in packers : p.m.ship # o
    BY <1>0, <1>3 DEF MarkingFirst
  <2>2. world.pc = "status"
    BY <1>3 DEF Marking
  <2>3. ASSUME NEW m, ReceiveReady(m)
        PROVE  FALSE
    BY <2>2, <2>3 DEF ReceiveReady
  <2>4. ASSUME NEW p \in packers, StartPacker(p)
        PROVE  \A r \in packers' : r.m.ship # o
    <3>1. p \in [m : Msg, k : Nat, pc : {"start", "wait"}]
      BY <1>0 DEF TypeOK
    <3>2. [p EXCEPT !.pc = "wait"].m = p.m
      BY <3>1
    <3> QED
      BY <2>1, <2>4, <3>2 DEF StartPacker
  <2>5. ASSUME NEW p \in packers, LoadPackage(p)
        PROVE  \A r \in packers' : r.m.ship # o
    BY <2>1, <2>5 DEF LoadPackage
  <2>6. \A r \in packers' : r.m.ship # o
    BY <1>0, <2>1, <2>3, <2>4, <2>5, Writers
  <2>7. Cmd("topack", o, 1) \notin recv_acks'
    <3>1. Cmd("topack", o, 1).kind = "topack" /\ Cmd("topack", o, 1).ship = o
      BY DEF Cmd
    <3> QED
      BY <1>0, <2>1, <3>1, BitSetters
  <2> QED
    BY <2>6, <2>7
<1> QED
  BY <1>0, <1>2, <1>3, MarkingChange

LEMMA WorldStill ==
  ASSUME TypeOK, UNCHANGED world
  PROVE  ~ScanMatch /\ ~MarkPacking
BY ScanKeeps DEF ScanMatch, Scanning, MarkPacking

(* What the bits of a stage say about the stages before it.                *)
LEMMA StageOrder ==
  ASSUME NEW S \in SUBSET Orders, LInv(S), NEW o \in S
  PROVE  /\ \A k \in Kinds : sent[k][o] \in Nat
         /\ Cmd("loaded", o, 1) \in recv_acks => sent["loaded"][o] > 0
         /\ sent["loaded"][o] > 0 => Cmd("load", o, 1) \in recv_acks
         /\ Cmd("load", o, 1) \in recv_acks => sent["load"][o] > 0
         /\ sent["load"][o] > 0 => Cmd("topack", o, 1) \in recv_acks
         /\ Cmd("topack", o, 1) \in recv_acks => sent["topack"][o] > 0 /\ ~Marking(o)
<1>1. \A k \in Kinds : sent[k][o] \in Nat
  BY DEF LInv, OInv, DInv, IInv, TypeOK
<1>2. \A k \in Kinds : Cmd(k, o, 1) \in recv_acks => sent[k][o] > 0
  <2> SUFFICES ASSUME NEW k \in Kinds, Cmd(k, o, 1) \in recv_acks
               PROVE  sent[k][o] > 0
    OBVIOUS
  <2>1. Asked(Cmd(k, o, 1))
    BY CmdType DEF LInv, BitsAsked
  <2> QED
    BY <1>1, <2>1, AskedSent
<1> QED
  BY <1>1, <1>2, KindNames DEF LInv, OInv, LoadOnce, LoadedOnce, MarkingFirst

(* Each turn of an order finds the column as the turn before left it, and  *)
(* leaves it one stage further.                                            *)
LEMMA TurnStage ==
  ASSUME MaxResends = 0,
         NEW S \in SUBSET Orders, LInv(S), [Next]_vars, NEW o \in S, Turn(o)
  PROVE  Stage(o)' /\ \E a, b : Onward(o, a, b)
<1>0. /\ IInv /\ TypeOK /\ Stage(o) /\ PackersBelong /\ PackersNew /\ PackersOnce
      /\ MarkingFirst(S) /\ LoadOnce /\ LoadedOnce /\ EntryInHand
  BY DEF LInv, OInv, DInv, IInv, StagesFollow
<1>1. \A a, b : Onward(o, a, b) => Says(o, b)'
  BY <1>0, OnwardSays
<1>2. \A k, j \in Kinds : Cmd(k, o, 1) = Cmd(j, o, 1) => k = j
  BY DEF Cmd
<1>3. CASE MarkPacking /\ Here = o
  <2>1. Marking(o) /\ ~Marking(o)'
    <3>1. world.pc = "status" /\ world'.pc = "pickup"
      BY <1>0, <1>3, ScanKeeps DEF MarkPacking
    <3> QED
      BY <1>3, <3>1 DEF Marking
  <2>2. sent' = sent /\ recv_acks' = recv_acks
    BY <1>3 DEF MarkPacking, inbox
  <2>3. sent["topack"][o] > 0
    BY <1>0, <1>3, StageOrder, KindNames DEF EntryInHand, MarkPacking
  <2>4. Says(o, "ordered")
    BY <1>0, <2>1 DEF Stage
  <2>5. Onward(o, "ordered", "packing") /\ Says(o, "packing")'
    <3>1. Onward(o, "ordered", "packing")
      BY <2>4, <1>3, Ranks, StatusNames DEF Onward, MarkPacking
    <3> QED
      BY <1>1, <3>1
  <2> QED
    BY <2>1, <2>2, <2>3, <2>4, <2>5, StageOrder DEF Stage
<1>4. ASSUME NEW p \in packers, p.m.ship = o, StartPacker(p)
      PROVE  Stage(o)' /\ Onward(o, "packing", "packed")
  <2>1. /\ p.m = Cmd("topack", o, 1) /\ p.m \notin recv_acks
        /\ sent["load"][o] = 0 /\ sent["topack"][o] > 0 /\ ~Marking(o)
    <3>1. p.m = Cmd("topack", o, 1) /\ Asked(p.m) /\ sent["load"][o] = 0
      BY <1>0, <1>4 DEF PackersOnce, PackersNew
    <3>2. sent["topack"][o] > 0
      BY <3>1, StageOrder, KindNames, AskedSent
    <3> QED
      BY <1>0, <1>4, <3>1, <3>2 DEF PackersNew, StartPacker, MarkingFirst
  <2>2. sent' = sent /\ recv_acks' = recv_acks \cup {p.m} /\ UNCHANGED world
    BY <1>4 DEF StartPacker
  <2>3. Says(o, "packing")
    BY <1>0, <2>1 DEF Stage
  <2>4. Onward(o, "packing", "packed") /\ Says(o, "packed")'
    <3>1. Onward(o, "packing", "packed")
      BY <2>3, <1>4, Ranks, StatusNames DEF Onward, StartPacker
    <3> QED
      BY <1>1, <3>1
  <2>5. ~Marking(o)'
    <3>1. ~MarkPacking /\ ~ScanMatch
      BY <1>0, <2>2, WorldStill
    <3> QED
      BY <1>0, <2>1, <3>1, MarkingChange
  <2>6. /\ Cmd("topack", o, 1) \in recv_acks'
        /\ Cmd("load", o, 1) \notin recv_acks'
        /\ Cmd("loaded", o, 1) \notin recv_acks'
    BY <1>2, <2>1, <2>2, StageOrder, KindNames
  <2>7. Stage(o)'
    BY <2>1, <2>2, <2>4, <2>5, <2>6 DEF Stage
  <2> QED
    BY <2>3, <2>4, <2>7
<1>5. ASSUME NEW p \in packers, p.m.ship = o, LoadPackage(p)
      PROVE  Stage(o)' /\ Onward(o, "packed", "loading")
  <2>1. p.m = Cmd("topack", o, 1) /\ p.m \in recv_acks /\ sent["load"][o] = 0
    BY <1>0, <1>5 DEF PackersOnce, PackersBelong, LoadPackage
  <2>2. /\ recv_acks' = recv_acks
        /\ sent'["load"][o] = 1 /\ sent'["topack"][o] = sent["topack"][o]
    <3>1. Send("load", o) /\ recv_acks' = recv_acks
      BY <1>5 DEF LoadPackage
    <3> QED
      BY <1>0, <2>1, <3>1, SendCount, KindNames
  <2>3. Says(o, "packed")
    BY <1>0, <2>1 DEF Stage
  <2>4. Onward(o, "packed", "loading") /\ Says(o, "loading")'
    <3>1. Onward(o, "packed", "loading")
      BY <2>3, <1>5, Ranks, StatusNames DEF Onward, LoadPackage
    <3> QED
      BY <1>1, <3>1
  <2>5. ~Marking(o)'
    <3>1. ~ScanMatch
      BY <1>0, <1>5, WorldStill DEF LoadPackage
    <3> QED
      BY <1>0, <2>1, <3>1, MarkingChange, StageOrder
  <2>6. /\ sent["topack"][o] > 0 /\ Cmd("load", o, 1) \notin recv_acks
        /\ Cmd("loaded", o, 1) \notin recv_acks
    BY <2>1, StageOrder, KindNames
  <2>7. Stage(o)'
    BY <2>1, <2>2, <2>4, <2>5, <2>6 DEF Stage
  <2> QED
    BY <2>3, <2>4, <2>7
<1>6. ASSUME NEW m \in Msg, m.ship = o, m.kind = "load", Asked(m), ReceiveLoaded(m)
      PROVE  Stage(o)' /\ Onward(o, "loading", "delivering")
  <2>1. m = Cmd("load", o, 1) /\ m \notin recv_acks /\ sent["load"][o] > 0
    <3>1. m = Cmd("load", o, 1)
      BY <1>0, <1>6, FirstOnly DEF LoadOnce
    <3>2. m \notin recv_acks
      BY <1>0, <1>6, DeliveredOnce DEF ReceiveLoaded
    <3> QED
      BY <1>6, <3>1, <3>2, StageOrder, KindNames, AskedSent
  <2>2. /\ recv_acks' = recv_acks \cup {m} /\ UNCHANGED world
        /\ sent'["load"][o] = sent["load"][o]
        /\ sent'["topack"][o] = sent["topack"][o]
    <3>1. Send("loaded", o) /\ recv_acks' = recv_acks \cup {m} /\ UNCHANGED world
      BY <1>6 DEF ReceiveLoaded
    <3> QED
      BY <1>0, <3>1, SendCount, KindNames
  <2>3. Says(o, "loading")
    BY <1>0, <2>1 DEF Stage
  <2>4. Onward(o, "loading", "delivering") /\ Says(o, "delivering")'
    <3>1. Onward(o, "loading", "delivering")
      BY <2>3, <1>6, Ranks, StatusNames DEF Onward, ReceiveLoaded
    <3> QED
      BY <1>1, <3>1
  <2>5. /\ Cmd("topack", o, 1) \in recv_acks /\ sent["topack"][o] > 0 /\ ~Marking(o)
        /\ Cmd("loaded", o, 1) \notin recv_acks'
    BY <1>2, <2>1, <2>2, StageOrder, KindNames
  <2>6. ~Marking(o)'
    <3>1. ~ScanMatch
      BY <1>0, <2>2, WorldStill
    <3> QED
      BY <1>0, <2>5, <3>1, MarkingChange
  <2>7. Stage(o)'
    BY <2>1, <2>2, <2>4, <2>5, <2>6 DEF Stage
  <2> QED
    BY <2>3, <2>4, <2>7
<1>7. ASSUME NEW m \in Msg, m.ship = o, m.kind = "loaded", Asked(m), ReceiveDelivered(m)
      PROVE  Stage(o)' /\ Onward(o, "delivering", "delivered")
  <2>1. m = Cmd("loaded", o, 1) /\ m \notin recv_acks /\ sent["loaded"][o] > 0
    <3>1. m = Cmd("loaded", o, 1)
      BY <1>0, <1>7, FirstOnly DEF LoadedOnce
    <3>2. m \notin recv_acks
      BY <1>0, <1>7, DeliveredOnce DEF ReceiveDelivered
    <3> QED
      BY <1>7, <3>1, <3>2, StageOrder, KindNames, AskedSent
  <2>2. recv_acks' = recv_acks \cup {m} /\ sent' = sent
    BY <1>7 DEF ReceiveDelivered
  <2>3. /\ Cmd("load", o, 1) \in recv_acks /\ sent["load"][o] > 0
        /\ Cmd("topack", o, 1) \in recv_acks /\ sent["topack"][o] > 0 /\ ~Marking(o)
    BY <2>1, StageOrder
  <2>4. Says(o, "delivering")
    BY <1>0, <2>1, <2>3 DEF Stage
  <2>5. Onward(o, "delivering", "delivered") /\ Says(o, "delivered")'
    <3>1. Onward(o, "delivering", "delivered")
      BY <2>4, <1>7, Ranks, StatusNames DEF Onward, ReceiveDelivered
    <3> QED
      BY <1>1, <3>1
  <2>6. ~Marking(o)'
    <3>1. ~ScanMatch
      BY <1>0, <1>7, WorldStill DEF ReceiveDelivered
    <3> QED
      BY <1>0, <2>3, <3>1, MarkingChange
  <2>7. Stage(o)'
    BY <2>1, <2>2, <2>3, <2>5, <2>6 DEF Stage
  <2> QED
    BY <2>4, <2>5, <2>7
<1> QED
  BY <1>3, <1>4, <1>5, <1>6, <1>7 DEF Turn, MarkPacking

LEMMA StagesStep ==
  ASSUME MaxResends = 0, Different,
         NEW S \in SUBSET Orders, LInv(S), [Next]_vars
  PROVE  StagesFollow(S)'
<1>0. IInv /\ StagesFollow(S)
  BY DEF LInv, OInv, DInv
<1> SUFFICES ASSUME NEW o \in S
             PROVE  Stage(o)'
  BY DEF StagesFollow
<1>1. CASE Turn(o)
  BY <1>1, TurnStage
<1>2. CASE ~Turn(o)
  <2>1. Stage(o)
    BY <1>0 DEF StagesFollow
  <2>2. /\ status'[o] = status[o] /\ sent'["load"][o] = sent["load"][o]
        /\ Cmd("topack", o, 1) \in recv_acks' <=> Cmd("topack", o, 1) \in recv_acks
        /\ Cmd("load", o, 1) \in recv_acks' <=> Cmd("load", o, 1) \in recv_acks
        /\ Cmd("loaded", o, 1) \in recv_acks' <=> Cmd("loaded", o, 1) \in recv_acks
    BY <1>0, <1>2, NoTurn
  <2>0. \A x : Says(o, x)' <=> Says(o, x)
    BY <2>2 DEF Says, UpTo
  <2>3. ~(MarkPacking /\ Here = o)
    BY <1>2 DEF Turn
  <2>4. CASE ScanMatch /\ Here = o
    <3>1. sent["topack"][o] = 0
      BY <2>4, MatchIsOwn DEF LInv
    <3>2. Says(o, "ordered") /\ Marking(o)'
      <4>1. world'.pc = "status" /\ Here' = Here
        BY <1>0, <2>4, ScanKeeps DEF ScanMatch, Scanning, Here, IInv
      <4> QED
        BY <2>1, <2>4, <3>1, <4>1 DEF Stage, Marking
    <3>3. /\ Cmd("topack", o, 1) \notin recv_acks
          /\ sent["load"][o] = 0 /\ Cmd("load", o, 1) \notin recv_acks
          /\ Cmd("loaded", o, 1) \notin recv_acks
      BY <3>1, StageOrder, KindNames
    <3> QED
      BY <2>0, <2>2, <3>2, <3>3 DEF Stage
  <2>5. CASE ~(ScanMatch /\ Here = o)
    <3>1. sent'["topack"][o] = sent["topack"][o]
      BY <1>0, <2>5, Counts
    <3>2. Marking(o)' <=> Marking(o)
      BY <1>0, <2>3, <2>5, MarkingChange
    <3> QED
      BY <2>0, <2>1, <2>2, <3>1, <3>2 DEF Stage
  <2> QED
    BY <2>4, <2>5
<1> QED
  BY <1>1, <1>2

LEMMA LInvStep ==
  ASSUME MaxResends = 0, Different,
         NEW S \in SUBSET Orders, LInv(S), [Next]_vars
  PROVE  LInv(S)'
<1>1. OInv /\ PackersNew
  BY DEF LInv
<1>2. OInv' /\ PackersNew'
  BY <1>1, OInvStep, PackersNewStep
<1>3. BitsAsked(S)' /\ MarkingFirst(S)' /\ StagesFollow(S)'
  BY BitsAskedStep, MarkingFirstStep, StagesStep
<1> QED
  BY <1>2, <1>3 DEF LInv

(* No update takes the column back: it is a turn of the order, and every   *)
(* turn finds the column at the stage before its own, or earlier.          *)
NoneGoesBack ==
  \A o \in Orders : LC!Rank(status[o]) <= LC!Rank(status'[o])

LEMMA StandsStill ==
  ASSUME status \in [Orders -> LC!Status], UNCHANGED status
  PROVE  NoneGoesBack
BY RankType DEF NoneGoesBack

LEMMA AdvanceStep ==
  ASSUME MaxResends = 0, NEW S \in SUBSET Orders, LInv(S), [Next]_vars,
         \A o \in Orders : Turn(o) => o \in S
  PROVE  NoneGoesBack /\ (DbMayFail = FALSE => [LC!Next]_status)
<1>0. IInv /\ TypeOK /\ TypeOK'
  BY TypeStep DEF LInv, OInv, DInv, IInv
<1>1. status \in [Orders -> LC!Status] /\ status' \in [Orders -> LC!Status]
  BY <1>0 DEF TypeOK
<1>2. CASE \A o \in Orders : ~Turn(o)
  <2>1. \A o \in Orders : status'[o] = status[o]
    BY <1>0, <1>2, NoTurn
  <2>2. status' = status
    BY <1>1, <2>1
  <2> QED
    BY <1>1, <2>2, StandsStill
<1>3. ASSUME NEW o \in Orders, Turn(o)
      PROVE  NoneGoesBack /\ (DbMayFail = FALSE => LC!Next)
  <2>1. PICK a, b : Onward(o, a, b)
    BY <1>3, TurnStage
  <2>2. /\ LC!Rank(status[o]) <= LC!Rank(status'[o])
        /\ DbMayFail = FALSE => LC!Advance(o)
        /\ \A q \in Orders \ {o} : status'[q] = status[q]
    BY <1>0, <2>1, OnwardSays
  <2>3. ASSUME NEW q \in Orders
        PROVE  LC!Rank(status[q]) <= LC!Rank(status'[q])
    <3>1. LC!Rank(status[q]) \in 1..6
      BY <1>1, RankType
    <3> QED
      BY <2>2, <3>1
  <2> QED
    BY <2>2, <2>3 DEF NoneGoesBack, LC!Next
<1> QED
  BY <1>2, <1>3

(* The pipeline implements the life cycle: the column takes its stages one *)
(* after the other, none twice and none left out, where no answer comes    *)
(* twice, no two orders are alike and no update fails.                     *)
THEOREM FollowsLifecycle ==
  ASSUME MaxResends = 0, Different, DbMayFail = FALSE
  PROVE  Spec => Lifecycle
<1>1. Init => LC!Init
  BY DEF Init
<1>2. Init => LInv(Orders)
  BY LInvInit
<1>3. LInv(Orders) /\ [Next]_vars => LInv(Orders)'
  BY LInvStep
<1>4. LInv(Orders) /\ [Next]_vars => [LC!Next]_status
  BY AdvanceStep
<1> QED
  BY <1>1, <1>2, <1>3, <1>4, PTL DEF Spec, Lifecycle, LC!Spec

(* Where updates may fail, the column leaves stages out and never goes     *)
(* back: no handler writes a status that a later one has already passed.   *)
THEOREM StatusNeverGoesBack ==
  ASSUME MaxResends = 0, Different
  PROVE  Spec => [][NoneGoesBack]_vars
<1>1. Init => LInv(Orders)
  BY LInvInit
<1>2. LInv(Orders) /\ [Next]_vars => LInv(Orders)'
  BY LInvStep
<1>3. LInv(Orders) /\ [Next]_vars => [NoneGoesBack]_vars
  BY AdvanceStep
<1> QED
  BY <1>1, <1>2, <1>3, PTL DEF Spec

-----------------------------------------------------------------------------
(* Sequence numbers.  What an order may still take of them, unless answers *)
(* are repeated, is bounded by what is under way for it: its purchase, the *)
(* arrival in hand, packages that are packed or loaded.                    *)

Spent(o) == sent["buy"][o] + sent["topack"][o] + sent["pickupreq"][o]
              + sent["load"][o] + sent["loaded"][o]

(* A purchase is good for all five, its arrival for the four after it.     *)
IntakeWorth(o) ==
  IF front[o] # "done" THEN 5
  ELSE IF Cmd("buy", o, 1) \notin recv_acks THEN 4 ELSE 0

ToMatch(o) ==
  /\ world.pc # "idle" /\ world.m.ship = o
  /\ \E i \in 1..Len(Requests) : Requests[i] = o /\ ~Passed(i)

InHand(o) == world.pc \in {"status", "pickup"} /\ Here = o

HandWorth(o) == (IF ToMatch(o) THEN 4 ELSE 0) + (IF InHand(o) THEN 1 ELSE 0)

(* A package that is packed is still to be loaded and announced.           *)
NewPacks(o) == {i \in 1..sent["topack"][o] : ~SeenBefore(Cmd("topack", o, i))}
PackersOf(o) == {p \in packers : p.m.ship = o}
NewLoads(o) == {i \in 1..sent["load"][o] : Cmd("load", o, i) \notin recv_acks}

PackWorth(o) == 2 * Cardinality(NewPacks(o)) + 2 * Cardinality(PackersOf(o))
                  + Cardinality(NewLoads(o))

WithinBudget ==
  \A o \in Orders :
    Spent(o) + IntakeWorth(o) + HandWorth(o) + PackWorth(o) <= 5 + 4 * resends

BInv == DInv /\ BuyOnce /\ ListedOnce /\ IsFiniteSet(packers) /\ WithinBudget

(* What an answer names.                                                   *)
LEMMA CmdOf ==
  ASSUME NEW m \in Msg
  PROVE  m = Cmd(m.kind, m.ship, m.n) /\ m.ship \in Orders /\ m.n \in Nat
BY DEF Cmd, Msg

LEMMA WorthType ==
  ASSUME TypeOK, IsFiniteSet(packers), NEW o \in Orders
  PROVE  /\ \A k \in Kinds : sent[k][o] \in Nat
         /\ resends \in Nat
         /\ IntakeWorth(o) \in Nat /\ HandWorth(o) \in Nat
         /\ IsFiniteSet(NewPacks(o)) /\ Cardinality(NewPacks(o)) \in Nat
         /\ IsFiniteSet(PackersOf(o)) /\ Cardinality(PackersOf(o)) \in Nat
         /\ IsFiniteSet(NewLoads(o)) /\ Cardinality(NewLoads(o)) \in Nat
<1>1. resends \in Nat /\ \A k \in Kinds : sent[k][o] \in Nat
  BY DEF TypeOK
<1>2. IntakeWorth(o) \in Nat /\ HandWorth(o) \in Nat
  BY DEF IntakeWorth, HandWorth
<1>3. /\ IsFiniteSet(1..sent["topack"][o]) /\ IsFiniteSet(1..sent["load"][o])
  BY <1>1, KindNames, FS_Interval
<1>4. /\ NewPacks(o) \in SUBSET (1..sent["topack"][o])
      /\ PackersOf(o) \in SUBSET packers
      /\ NewLoads(o) \in SUBSET (1..sent["load"][o])
  BY DEF NewPacks, PackersOf, NewLoads
<1>5. IsFiniteSet(NewPacks(o)) /\ IsFiniteSet(PackersOf(o)) /\ IsFiniteSet(NewLoads(o))
  BY <1>3, <1>4, FS_Subset
<1> QED
  BY <1>1, <1>2, <1>5, FS_CardinalityType

(* The same of the state a step leads to.                                  *)
LEMMA WorthTypeNext ==
  ASSUME TypeOK', IsFiniteSet(packers'), NEW o \in Orders
  PROVE  /\ \A k \in Kinds : sent'[k][o] \in Nat
         /\ IntakeWorth(o)' \in Nat /\ HandWorth(o)' \in Nat
         /\ Cardinality(NewPacks(o))' \in Nat
         /\ Cardinality(PackersOf(o))' \in Nat
         /\ Cardinality(NewLoads(o))' \in Nat
<1>1. \A k \in Kinds : sent'[k][o] \in Nat
  BY DEF TypeOK
<1>2. IntakeWorth(o)' \in Nat /\ HandWorth(o)' \in Nat
  BY DEF IntakeWorth, HandWorth
<1>3. IsFiniteSet(1..sent'["topack"][o]) /\ IsFiniteSet(1..sent'["load"][o])
  BY <1>1, KindNames, FS_Interval
<1>4. /\ NewPacks(o)' \in SUBSET (1..sent'["topack"][o])
      /\ PackersOf(o)' \in SUBSET packers'
      /\ NewLoads(o)' \in SUBSET (1..sent'["load"][o])
  BY DEF NewPacks, PackersOf, NewLoads
<1>5. /\ IsFiniteSet(NewPacks(o)') /\ IsFiniteSet(PackersOf(o)')
      /\ IsFiniteSet(NewLoads(o)')
  BY <1>3, <1>4, FS_Subset
<1> QED
  BY <1>1, <1>2, <1>5, FS_CardinalityType

(* What a purchase or its arrival is still good for never grows.           *)
LEMMA IntakeKeeps ==
  ASSUME TypeOK, [Next]_vars, NEW o \in Orders
  PROVE  IntakeWorth(o)' <= IntakeWorth(o)
<1>1. /\ front[o] = "done" => front'[o] = "done"
      /\ Cmd("buy", o, 1) \in recv_acks => Cmd("buy", o, 1) \in recv_acks'
  BY DoneStays, BitsStay
<1> QED
  BY <1>1 DEF IntakeWorth

(* An answer stays seen.                                                   *)
LEMMA SeenStays ==
  ASSUME IInv, [Next]_vars, NEW m, SeenBefore(m)
  PROVE  SeenBefore(m)'
<1>0. TypeOK /\ PackersBelong
  BY DEF IInv
<1>1. CASE m \in recv_acks
  BY <1>0, <1>1, BitsStay DEF SeenBefore
<1>2. ASSUME NEW p \in packers, p.m = m
      PROVE  SeenBefore(m)'
  <2>1. CASE UNCHANGED packers
    BY <1>2, <2>1 DEF SeenBefore
  <2>2. ASSUME NEW x \in Msg, ReceiveReady(x)
        PROVE  SeenBefore(m)'
    BY <1>2, <2>2 DEF SeenBefore, ReceiveReady
  <2>3. ASSUME NEW r \in packers, StartPacker(r)
        PROVE  SeenBefore(m)'
    BY <1>2, <2>3 DEF SeenBefore, StartPacker
  <2>4. ASSUME NEW r \in packers, LoadPackage(r)
        PROVE  SeenBefore(m)'
    <3>1. r.m \in recv_acks /\ recv_acks' = recv_acks /\ packers' = packers \ {r}
      BY <1>0, <2>4 DEF PackersBelong, LoadPackage
    <3> QED
      BY <1>2, <3>1 DEF SeenBefore
  <2> QED
    BY <1>0, <2>1, <2>2, <2>3, <2>4, Writers
<1> QED
  BY <1>1, <1>2 DEF SeenBefore

(* A package that is packed, or loaded, counts until its answer is seen.   *)
LEMMA PacksKeep ==
  ASSUME IInv, [Next]_vars, NEW o \in Orders,
         sent'["topack"][o] = sent["topack"][o]
  PROVE  NewPacks(o)' \subseteq NewPacks(o)
<1>1. \A i : SeenBefore(Cmd("topack", o, i)) => SeenBefore(Cmd("topack", o, i))'
  BY SeenStays
<1> QED
  BY <1>1 DEF NewPacks

LEMMA LoadsKeep ==
  ASSUME TypeOK, [Next]_vars, NEW o \in Orders,
         sent'["load"][o] = sent["load"][o]
  PROVE  NewLoads(o)' \subseteq NewLoads(o)
<1>1. recv_acks \subseteq recv_acks'
  BY BitsStay
<1> QED
  BY <1>1 DEF NewLoads

(* A smaller set has no more elements, and one element more is one more.   *)
LEMMA AtMost ==
  ASSUME NEW S, IsFiniteSet(S), NEW T, T \subseteq S
  PROVE  Cardinality(T) <= Cardinality(S)
BY FS_Subset

LEMMA AtMostOneMore ==
  ASSUME NEW S, IsFiniteSet(S), NEW x, NEW T, T \subseteq S \cup {x}
  PROVE  Cardinality(T) <= Cardinality(S) + 1
<1>1. /\ IsFiniteSet(S \cup {x}) /\ Cardinality(S) \in Nat
      /\ Cardinality(S \cup {x}) \in {Cardinality(S), Cardinality(S) + 1}
  BY FS_AddElement, FS_CardinalityType
<1>2. Cardinality(T) <= Cardinality(S \cup {x})
  BY <1>1, AtMost
<1>3. IsFiniteSet(T)
  BY <1>1, FS_Subset
<1>4. Cardinality(T) \in Nat
  BY <1>3, FS_CardinalityType
<1> QED
  BY <1>1, <1>2, <1>4

LEMMA OneLess ==
  ASSUME NEW S, IsFiniteSet(S), NEW x \in S, NEW T, T \subseteq S \ {x}
  PROVE  Cardinality(T) + 1 <= Cardinality(S)
<1>1. /\ IsFiniteSet(S \ {x}) /\ Cardinality(S) \in Nat
      /\ Cardinality(S \ {x}) = Cardinality(S) - 1
  BY FS_RemoveElement, FS_CardinalityType
<1>2. Cardinality(T) <= Cardinality(S \ {x})
  BY <1>1, AtMost
<1>3. IsFiniteSet(T)
  BY <1>1, FS_Subset
<1>4. Cardinality(T) \in Nat
  BY <1>3, FS_CardinalityType
<1> QED
  BY <1>1, <1>2, <1>4

(* The threads at work on a package: one that starts goes on as one.       *)
LEMMA PackersKeep ==
  ASSUME TypeOK, IsFiniteSet(packers), NEW o \in Orders,
         UNCHANGED packers \/ \E p \in packers : StartPacker(p)
  PROVE  /\ IsFiniteSet(packers')
         /\ Cardinality(PackersOf(o)') <= Cardinality(PackersOf(o))
<1>0. IsFiniteSet(PackersOf(o)) /\ Cardinality(PackersOf(o)) \in Nat
  BY WorthType
<1>1. CASE UNCHANGED packers
  <2>1. PackersOf(o)' = PackersOf(o)
    BY <1>1 DEF PackersOf
  <2> QED
    BY <1>0, <1>1, <2>1
<1>2. ASSUME NEW p \in packers, StartPacker(p)
      PROVE  /\ IsFiniteSet(packers')
             /\ Cardinality(PackersOf(o)') <= Cardinality(PackersOf(o))
  <2>1. p \in [m : Msg, k : Nat, pc : {"start", "wait"}]
    BY DEF TypeOK
  <2>2. PICK r : r.m = p.m /\ packers' = (packers \ {p}) \cup {r}
    <3>1. [p EXCEPT !.pc = "wait"].m = p.m
      BY <2>1
    <3> QED
      BY <1>2, <3>1 DEF StartPacker
  <2>3. IsFiniteSet(packers')
    BY <2>2, FS_RemoveElement, FS_AddElement
  <2>4. CASE p.m.ship = o
    <3>1. p \in PackersOf(o) /\ PackersOf(o)' \subseteq (PackersOf(o) \ {p}) \cup {r}
      BY <2>2, <2>4 DEF PackersOf
    <3>2. /\ IsFiniteSet(PackersOf(o) \ {p})
          /\ Cardinality(PackersOf(o) \ {p}) = Cardinality(PackersOf(o)) - 1
      BY <1>0, <3>1, FS_RemoveElement
    <3>3. Cardinality(PackersOf(o)') <= Cardinality(PackersOf(o) \ {p}) + 1
      BY <3>1, <3>2, AtMostOneMore
    <3> QED
      BY <1>0, <2>3, <3>2, <3>3
  <2>5. CASE p.m.ship # o
    <3>1. PackersOf(o)' \subseteq PackersOf(o)
      BY <2>2, <2>5 DEF PackersOf
    <3> QED
      BY <1>0, <2>3, <3>1, AtMost
  <2> QED
    BY <2>4, <2>5
<1> QED
  BY <1>1, <1>2
-----------------------------------------------------------------------------
(* The arrival in hand.                                                    *)

LEMMA HandStill ==
  ASSUME TypeOK, MutexHeld, [Next]_vars, UNCHANGED world, NEW o \in Orders
  PROVE  HandWorth(o)' = HandWorth(o)
<1>1. CASE world.pc = "idle"
  BY <1>1 DEF HandWorth, ToMatch, InHand
<1>2. CASE world.pc # "idle"
  <2>1. Requests' = Requests
    BY <1>2, ListFrozen DEF Requests
  <2>2. Here' = Here
    BY <2>1 DEF Here
  <2>3. (ToMatch(o)' <=> ToMatch(o)) /\ (InHand(o)' <=> InHand(o))
    BY <2>1, <2>2 DEF ToMatch, InHand, Passed
  <2> QED
    BY <2>3 DEF HandWorth
<1> QED
  BY <1>1, <1>2

(* A turn of the loop spends on an entry what the entry is good for.       *)
LEMMA HandTurn ==
  ASSUME Different, TypeOK, ListedAtHome, ListedOnce, NEW o \in Orders,
         ScanSkip \/ ScanMatch \/ MarkPacking \/ RequestPickup
  PROVE  /\ HandWorth(o)' <= HandWorth(o)
         /\ ScanMatch /\ Here = o => HandWorth(o)' + 3 <= HandWorth(o)
         /\ RequestPickup /\ Here = o => HandWorth(o)' + 1 <= HandWorth(o)
<1>1. /\ world.pc # "idle" /\ world'.pc # "idle" /\ world'.m = world.m
      /\ Requests' = Requests /\ Requests \in Seq(Orders) /\ world.pos \in Nat
  BY ScanKeeps
<1>2. ScanSkip \/ ScanMatch => world.pc = "scan"
  BY DEF ScanSkip, ScanMatch, Scanning
<1>3. /\ MarkPacking => world.pc = "status"
      /\ RequestPickup => world.pc = "pickup"
  BY DEF MarkPacking, RequestPickup
<1>4. \A i \in 1..Len(Requests) : Passed(i) => Passed(i)'
  BY <1>1, <1>2, <1>3, ScanKeeps DEF Passed
<1>5. ToMatch(o)' => ToMatch(o)
  BY <1>1, <1>4 DEF ToMatch
<1>6. CASE ScanSkip
  <2>1. ~InHand(o)'
    BY <1>6, ScanKeeps DEF InHand
  <2>2. ~ScanMatch /\ ~RequestPickup
    BY <1>2, <1>3, <1>6 DEF ScanSkip, ScanMatch
  <2> QED
    BY <1>5, <2>1, <2>2 DEF HandWorth
<1>7. CASE ScanMatch
  <2>1. world'.pc = "status" /\ Here' = Here /\ ~InHand(o)
    BY <1>1, <1>2, <1>7, ScanKeeps DEF Here, InHand
  <2>2. CASE Here # o
    BY <1>2, <1>3, <1>5, <1>7, <2>1, <2>2 DEF HandWorth, InHand
  <2>3. CASE Here = o
    <3>1. /\ o = world.m.ship /\ world.pos \in 1..Len(Requests)
          /\ o = Requests[world.pos] /\ ~Passed(world.pos)
      BY <1>7, <2>3, MatchesItself
    <3>2. ToMatch(o)
      BY <1>1, <3>1 DEF ToMatch
    <3>3. whOf[world.m.ship] \in Warehouses
      BY <1>1, WarehouseOfArrival
    <3>4. \A i \in 1..Len(Requests) : Requests[i] = o => i = world.pos
      BY <3>1, <3>3 DEF ListedOnce, Requests
    <3>5. \A i : i = world.pos => Passed(i)'
      BY <1>7, ScanKeeps DEF Passed
    <3>6. ~ToMatch(o)'
      BY <1>1, <3>4, <3>5 DEF ToMatch
    <3> QED
      BY <1>2, <1>3, <1>7, <2>1, <3>2, <3>6 DEF HandWorth
  <2> QED
    BY <2>2, <2>3
<1>8. CASE MarkPacking
  <2>1. InHand(o)' <=> InHand(o)
    BY <1>1, <1>3, <1>8, ScanKeeps DEF InHand, Here
  <2> QED
    BY <1>2, <1>3, <1>5, <1>8, <2>1 DEF HandWorth
<1>9. CASE RequestPickup
  <2>1. ~InHand(o)'
    BY <1>9, ScanKeeps DEF InHand
  <2>2. Here = o => InHand(o)
    BY <1>3, <1>9 DEF InHand
  <2> QED
    BY <1>2, <1>3, <1>5, <1>9, <2>1, <2>2 DEF HandWorth
<1> QED
  BY <1>6, <1>7, <1>8, <1>9

(* An arrival that is taken in hand is good for four of its order.         *)
LEMMA HandFilled ==
  ASSUME NEW o \in Orders, NEW m \in Msg, ReceiveArrived(m)
  PROVE  HandWorth(o) = 0 /\ HandWorth(o)' <= IF m.ship = o THEN 4 ELSE 0
<1>1. world.pc = "idle" /\ world'.pc = "scan" /\ world'.m = m
  BY DEF ReceiveArrived
<1> QED
  BY <1>1 DEF HandWorth, ToMatch, InHand

LEMMA HandEmptied ==
  ASSUME TypeOK, NEW o \in Orders, ScanMiss \/ FinishArrived
  PROVE  HandWorth(o)' <= HandWorth(o)
<1>1. world'.pc = "idle"
  BY DEF ScanMiss, FinishArrived, IdleWorld
<1> QED
  BY <1>1 DEF HandWorth, ToMatch, InHand
-----------------------------------------------------------------------------
(* What a step takes, and from what.                                       *)

LEMMA SpentBySend ==
  ASSUME TypeOK, NEW k \in Kinds, NEW q \in Orders, Send(k, q),
         NEW o \in Orders
  PROVE  Spent(o)' = IF o = q THEN Spent(o) + 1 ELSE Spent(o)
<1>1. \A j \in Kinds : /\ sent[j][o] \in Nat
                       /\ sent'[j][o] = IF j = k /\ o = q THEN sent[j][o] + 1
                                                          ELSE sent[j][o]
  BY SendCount DEF TypeOK
<1>2. \/ k = "buy" \/ k = "topack" \/ k = "pickupreq" \/ k = "load"
      \/ k = "loaded"
  BY DEF Kinds, WorldKinds
<1>3. CASE o # q
  BY <1>1, <1>3, KindNames DEF Spent
<1>4. CASE o = q
  BY <1>1, <1>2, <1>4, KindNames DEF Spent
<1> QED
  BY <1>3, <1>4

(* A repeated answer raises the number of repetitions.                     *)
LEMMA ResendsGrow ==
  ASSUME TypeOK, [Next]_vars
  PROVE  resends' \in Nat /\ resends <= resends'
<1>1. ASSUME NEW m, Deliver(m)
      PROVE  resends' \in Nat /\ resends <= resends'
  BY <1>1 DEF Deliver, TypeOK
<1>2. ASSUME UNCHANGED resends
      PROVE  resends' \in Nat /\ resends <= resends'
  BY <1>2 DEF TypeOK
<1> QED
  BY <1>1, <1>2, StepCases
  DEF vars, inbox, Process_order, StoreInfo, PushRequest, ReceiveArrived,
      ScanSkip, ScanMatch, ScanMiss, MarkPacking, RequestPickup,
      FinishArrived, ReceiveReady, ReceiveLoaded, ReceiveError, StartPacker,
      LoadPackage, ReceiveTruckArrived, ReceiveDelivered, UpsReceiveFails

LEMMA DeliverCounts ==
  ASSUME TypeOK, NEW m, Deliver(m)
  PROVE  /\ resends' \in {resends, resends + 1}
         /\ SeenBefore(m) => resends' = resends + 1
BY DEF Deliver

LEMMA PackersFinite ==
  ASSUME TypeOK, IsFiniteSet(packers), [Next]_vars
  PROVE  IsFiniteSet(packers')
<1>1. ASSUME NEW m, ReceiveReady(m)
      PROVE  IsFiniteSet(packers')
  BY <1>1, FS_AddElement DEF ReceiveReady
<1>2. ASSUME NEW p, StartPacker(p)
      PROVE  IsFiniteSet(packers')
  <2>1. IsFiniteSet(packers \ {p})
    BY FS_RemoveElement
  <2> QED
    BY <1>2, <2>1, FS_AddElement DEF StartPacker
<1>3. ASSUME NEW p, LoadPackage(p)
      PROVE  IsFiniteSet(packers')
  BY <1>3, FS_RemoveElement DEF LoadPackage
<1> QED
  BY <1>1, <1>2, <1>3, Writers

(* No step takes more sequence numbers for an order than it gives up of    *)
(* what was under way, but for four with an answer that comes again.       *)
LEMMA BudgetStep ==
  ASSUME Different, BInv, [Next]_vars
  PROVE  WithinBudget'
<1>0. /\ DInv /\ IInv /\ TypeOK /\ MutexHeld /\ ListedAtHome /\ PackersBelong
      /\ BuyOnce /\ ListedOnce /\ IsFiniteSet(packers) /\ WithinBudget
  BY DEF BInv, DInv, IInv
<1>1. TypeOK' /\ IsFiniteSet(packers')
  BY <1>0, TypeStep, PackersFinite
<1> DEFINE Within(o) ==
      Spent(o) + IntakeWorth(o) + HandWorth(o) + PackWorth(o) <= 5 + 4 * resends
           N(o) == Cardinality(NewPacks(o))
           P(o) == Cardinality(PackersOf(o))
           L(o) == Cardinality(NewLoads(o))
<1> SUFFICES ASSUME NEW o \in Orders
             PROVE  Within(o)'
  BY DEF WithinBudget
<1>2. /\ Spent(o) \in Nat /\ IntakeWorth(o) \in Nat /\ HandWorth(o) \in Nat
      /\ N(o) \in Nat /\ P(o) \in Nat /\ L(o) \in Nat
      /\ PackWorth(o) = 2 * N(o) + 2 * P(o) + L(o)
      /\ IsFiniteSet(NewPacks(o)) /\ IsFiniteSet(PackersOf(o))
      /\ IsFiniteSet(NewLoads(o)) /\ resends \in Nat
  BY <1>0, WorthType, KindNames DEF Spent, PackWorth
<1>3. /\ Spent(o)' \in Nat /\ IntakeWorth(o)' \in Nat /\ HandWorth(o)' \in Nat
      /\ N(o)' \in Nat /\ P(o)' \in Nat /\ L(o)' \in Nat
      /\ PackWorth(o)' = 2 * N(o)' + 2 * P(o)' + L(o)'
  <2>1. /\ \A k \in Kinds : sent'[k][o] \in Nat
        /\ IntakeWorth(o)' \in Nat /\ HandWorth(o)' \in Nat
        /\ N(o)' \in Nat /\ P(o)' \in Nat /\ L(o)' \in Nat
    BY <1>1, WorthTypeNext
  <2> QED
    BY <2>1, KindNames DEF Spent, PackWorth
<1>4. Within(o)
  BY <1>0 DEF WithinBudget
<1>5. IntakeWorth(o)' <= IntakeWorth(o)
  BY <1>0, IntakeKeeps
<1>6. resends' \in Nat /\ resends <= resends'
  BY <1>0, ResendsGrow
<1>7. /\ sent' = sent => Spent(o)' = Spent(o)
      /\ sent'["topack"][o] = sent["topack"][o] => N(o)' <= N(o)
      /\ sent'["load"][o] = sent["load"][o] => L(o)' <= L(o)
      /\ UNCHANGED packers => P(o)' <= P(o)
      /\ UNCHANGED world => HandWorth(o)' = HandWorth(o)
  BY <1>0, <1>2, PacksKeep, LoadsKeep, AtMost, PackersKeep, HandStill DEF Spent
<1>8. ASSUME NEW k \in Kinds, NEW q \in Orders, Send(k, q)
      PROVE  /\ Spent(o)' = IF o = q THEN Spent(o) + 1 ELSE Spent(o)
             /\ k # "topack" => N(o)' <= N(o)
             /\ k # "load" => L(o)' <= L(o)
             /\ o # q => N(o)' <= N(o) /\ L(o)' <= L(o)
             /\ sent'[k][q] = sent[k][q] + 1
  BY <1>0, <1>7, <1>8, SpentBySend, SendCount, KindNames
<1> HIDE DEF N, P, L
<1>9. ASSUME Spent(o)' <= Spent(o), HandWorth(o)' <= HandWorth(o),
             N(o)' <= N(o), P(o)' <= P(o), L(o)' <= L(o)
      PROVE  Within(o)'
  BY <1>2, <1>3, <1>4, <1>5, <1>6, <1>9
<1>10. ASSUME sent' = sent, UNCHANGED world,
              UNCHANGED packers \/ \E p \in packers : StartPacker(p)
       PROVE  Within(o)'
  <2>1. P(o)' <= P(o)
    BY <1>0, <1>10, PackersKeep DEF P
  <2> QED
    BY <1>2, <1>7, <1>9, <1>10, <2>1
<1>11. CASE ScanSkip \/ ScanMiss \/ MarkPacking \/ FinishArrived
  <2>1. sent' = sent /\ UNCHANGED packers
    BY <1>11 DEF ScanSkip, ScanMiss, MarkPacking, FinishArrived
  <2>2. HandWorth(o)' <= HandWorth(o)
    BY <1>0, <1>11, HandTurn, HandEmptied
  <2> QED
    BY <1>2, <1>7, <1>9, <2>1, <2>2
<1>12. ASSUME NEW q \in Orders, PushRequest(q)
       PROVE  Within(o)'
  <2>1. Send("buy", q) /\ UNCHANGED world /\ UNCHANGED packers
    BY <1>12 DEF PushRequest
  <2>2. /\ HandWorth(o)' = HandWorth(o) /\ N(o)' <= N(o) /\ L(o)' <= L(o)
        /\ P(o)' <= P(o)
        /\ Spent(o)' = IF o = q THEN Spent(o) + 1 ELSE Spent(o)
    BY <1>7, <1>8, <2>1, KindNames
  <2>3. CASE o # q
    BY <1>2, <1>9, <2>2, <2>3
  <2>4. CASE o = q
    <3>1. IntakeWorth(o)' + 1 <= IntakeWorth(o)
      BY <1>0, <1>12, <2>4 DEF PushRequest, IntakeWorth, TypeOK
    <3> QED
      BY <1>2, <1>3, <1>4, <1>6, <2>2, <2>4, <3>1
  <2> QED
    BY <2>3, <2>4
<1>13. CASE ScanMatch
  <2>1. Send("topack", Here) /\ UNCHANGED packers /\ Here \in Orders
    BY <1>0, <1>13, HereType DEF ScanMatch, Scanning
  <2>2. /\ L(o)' <= L(o) /\ P(o)' <= P(o)
        /\ o # Here => N(o)' <= N(o)
        /\ Spent(o)' = IF o = Here THEN Spent(o) + 1 ELSE Spent(o)
    BY <1>7, <1>8, <2>1, KindNames
  <2>3. /\ HandWorth(o)' <= HandWorth(o)
        /\ Here = o => HandWorth(o)' + 3 <= HandWorth(o)
    BY <1>0, <1>13, HandTurn
  <2>4. CASE o # Here
    BY <1>2, <1>9, <2>2, <2>3, <2>4
  <2>5. CASE o = Here
    <3>1. sent'["topack"][o] = sent["topack"][o] + 1 /\ sent["topack"][o] \in Nat
      BY <1>0, <1>8, <2>1, <2>5, WorthType, KindNames
    <3>2. NewPacks(o)' \subseteq NewPacks(o) \cup {sent'["topack"][o]}
      <4>1. \A i : SeenBefore(Cmd("topack", o, i)) => SeenBefore(Cmd("topack", o, i))'
        BY <1>0, SeenStays
      <4> QED
        BY <3>1, <4>1 DEF NewPacks
    <3>3. N(o)' <= N(o) + 1
      BY <1>2, <3>2, AtMostOneMore DEF N
    <3> QED
      BY <1>2, <1>3, <1>4, <1>5, <1>6, <2>2, <2>3, <2>5, <3>3
  <2> QED
    BY <2>4, <2>5
<1>14. CASE RequestPickup
  <2>1. Send("pickupreq", Here) /\ UNCHANGED packers /\ Here \in Orders
    BY <1>0, <1>14, HereType DEF RequestPickup, IInv, EntryInHand
  <2>2. /\ N(o)' <= N(o) /\ L(o)' <= L(o) /\ P(o)' <= P(o)
        /\ Spent(o)' = IF o = Here THEN Spent(o) + 1 ELSE Spent(o)
    BY <1>7, <1>8, <2>1, KindNames
  <2>3. /\ HandWorth(o)' <= HandWorth(o)
        /\ Here = o => HandWorth(o)' + 1 <= HandWorth(o)
    BY <1>0, <1>14, HandTurn
  <2> QED
    BY <1>2, <1>3, <1>4, <1>5, <1>6, <2>2, <2>3
<1>15. ASSUME NEW m \in Msg, m.kind = "buy", Asked(m), ReceiveArrived(m)
       PROVE  Within(o)'
  <2>1. sent' = sent /\ UNCHANGED packers
    BY <1>15 DEF ReceiveArrived
  <2>2. Spent(o)' = Spent(o) /\ N(o)' <= N(o) /\ L(o)' <= L(o) /\ P(o)' <= P(o)
    BY <1>7, <2>1
  <2>3. HandWorth(o) = 0 /\ HandWorth(o)' <= IF m.ship = o THEN 4 ELSE 0
    BY <1>15, HandFilled
  <2>4. CASE m.ship # o
    BY <1>2, <1>9, <2>2, <2>3, <2>4
  <2>5. CASE SeenBefore(m)
    <3>1. resends' = resends + 1
      BY <1>0, <1>15, <2>5, DeliverCounts DEF ReceiveArrived
    <3> QED
      BY <1>2, <1>3, <1>4, <1>5, <2>2, <2>3, <3>1
  <2>6. CASE m.ship = o /\ ~SeenBefore(m)
    <3>1. m = Cmd("buy", o, 1)
      BY <1>0, <1>15, <2>6, FirstOnly DEF BuyOnce
    <3>2. front[o] = "done" /\ front'[o] = "done"
      BY <1>0, <1>15, <2>6, AskedDone, DoneStays
    <3>3. m \notin recv_acks /\ m \in recv_acks'
      BY <1>15, <2>6 DEF SeenBefore, ReceiveArrived
    <3>4. IntakeWorth(o) = 4 /\ IntakeWorth(o)' = 0
      BY <3>1, <3>2, <3>3 DEF IntakeWorth
    <3> QED
      BY <1>2, <1>3, <1>4, <1>6, <2>2, <2>3, <3>4
  <2> QED
    BY <2>4, <2>5, <2>6
<1>16. ASSUME NEW m \in Msg, m.kind = "topack", Asked(m), ReceiveReady(m)
       PROVE  Within(o)'
  <2>1. sent' = sent /\ UNCHANGED world
    BY <1>16 DEF ReceiveReady
  <2>2. /\ Spent(o)' = Spent(o) /\ HandWorth(o)' = HandWorth(o)
        /\ N(o)' <= N(o) /\ L(o)' <= L(o)
    BY <1>7, <2>1
  <2>3. PICK r : r.m = m /\ packers' = packers \cup {r}
    <3>1. [m |-> m, k |-> resends', pc |-> "start"].m = m
      OBVIOUS
    <3> QED
      BY <1>16, <3>1 DEF ReceiveReady
  <2>4. CASE m.ship # o
    <3>1. PackersOf(o)' \subseteq PackersOf(o)
      BY <2>3, <2>4 DEF PackersOf
    <3>2. P(o)' <= P(o)
      BY <1>2, <3>1, AtMost DEF P
    <3> QED
      BY <1>2, <1>9, <2>2, <3>2
  <2>5. CASE m.ship = o
    <3>1. PackersOf(o)' \subseteq PackersOf(o) \cup {r}
      BY <2>3 DEF PackersOf
    <3>2. P(o)' <= P(o) + 1
      BY <1>2, <3>1, AtMostOneMore DEF P
    <3>3. CASE SeenBefore(m)
      <4>1. resends' = resends + 1
        BY <1>0, <1>16, <3>3, DeliverCounts DEF ReceiveReady
      <4> QED
        BY <1>2, <1>3, <1>4, <1>5, <2>2, <3>2, <4>1
    <3>4. CASE ~SeenBefore(m)
      <4>1. m = Cmd("topack", o, m.n) /\ m.n \in 1..sent["topack"][o]
        BY <1>16, <2>5, CmdOf DEF Asked
      <4>2. m.n \in NewPacks(o)
        BY <3>4, <4>1 DEF NewPacks
      <4>3. \A i : i = m.n => SeenBefore(Cmd("topack", o, i))'
        BY <2>3, <4>1 DEF SeenBefore
      <4>4. NewPacks(o)' \subseteq NewPacks(o)
        BY <1>0, <2>1, PacksKeep
      <4>5. NewPacks(o)' \subseteq NewPacks(o) \ {m.n}
        BY <4>3, <4>4 DEF NewPacks
      <4>6. N(o)' + 1 <= N(o)
        BY <1>2, <4>2, <4>5, OneLess DEF N
      <4> QED
        BY <1>2, <1>3, <1>4, <1>5, <1>6, <2>2, <3>2, <4>6
    <3> QED
      BY <3>3, <3>4
  <2> QED
    BY <2>4, <2>5
<1>17. ASSUME NEW m \in Msg, m.kind = "load", Asked(m), ReceiveLoaded(m)
       PROVE  Within(o)'
  <2>1. Send("loaded", m.ship) /\ UNCHANGED <<world, packers>> /\ m.ship \in Orders
    BY <1>17, CmdOf DEF ReceiveLoaded
  <2>2. /\ HandWorth(o)' = HandWorth(o)
        /\ N(o)' <= N(o) /\ L(o)' <= L(o) /\ P(o)' <= P(o)
        /\ Spent(o)' = IF o = m.ship THEN Spent(o) + 1 ELSE Spent(o)
    BY <1>7, <1>8, <2>1, KindNames
  <2>3. CASE m.ship # o
    BY <1>2, <1>9, <2>2, <2>3
  <2>4. CASE SeenBefore(m)
    <3>1. resends' = resends + 1
      BY <1>0, <1>17, <2>4, DeliverCounts DEF ReceiveLoaded
    <3> QED
      BY <1>2, <1>3, <1>4, <1>5, <2>2, <3>1
  <2>5. CASE m.ship = o /\ ~SeenBefore(m)
    <3>1. m = Cmd("load", o, m.n) /\ m.n \in 1..sent["load"][o]
      BY <1>17, <2>5, CmdOf DEF Asked
    <3>2. m \notin recv_acks /\ m \in recv_acks'
      BY <1>17, <2>5 DEF SeenBefore, ReceiveLoaded
    <3>3. m.n \in NewLoads(o)
      BY <3>1, <3>2 DEF NewLoads
    <3>4. NewLoads(o)' \subseteq NewLoads(o)
      <4>1. sent'["load"][o] = sent["load"][o]
        BY <1>0, <2>1, SendCount, KindNames
      <4> QED
        BY <1>0, <4>1, LoadsKeep
    <3>5. NewLoads(o)' \subseteq NewLoads(o) \ {m.n}
      <4>1. \A i : i = m.n => Cmd("load", o, i) \in recv_acks'
        BY <3>1, <3>2
      <4> QED
        BY <3>4, <4>1 DEF NewLoads
    <3>6. L(o)' + 1 <= L(o)
      BY <1>2, <3>3, <3>5, OneLess DEF L
    <3> QED
      BY <1>2, <1>3, <1>4, <1>5, <1>6, <2>2, <3>6
  <2> QED
    BY <2>3, <2>4, <2>5
<1>18. ASSUME NEW p \in packers, LoadPackage(p)
       PROVE  Within(o)'
  <2>1. /\ Send("load", p.m.ship) /\ UNCHANGED world /\ packers' = packers \ {p}
        /\ p.m.ship \in Orders
    BY <1>0, <1>18, CmdOf DEF LoadPackage, TypeOK
  <2>2. /\ HandWorth(o)' = HandWorth(o) /\ N(o)' <= N(o)
        /\ o # p.m.ship => L(o)' <= L(o)
        /\ Spent(o)' = IF o = p.m.ship THEN Spent(o) + 1 ELSE Spent(o)
    BY <1>7, <1>8, <2>1, KindNames
  <2>3. CASE p.m.ship # o
    <3>1. PackersOf(o)' \subseteq PackersOf(o)
      BY <2>1 DEF PackersOf
    <3>2. P(o)' <= P(o)
      BY <1>2, <3>1, AtMost DEF P
    <3> QED
      BY <1>2, <1>9, <2>2, <2>3, <3>2
  <2>4. CASE p.m.ship = o
    <3>1. p \in PackersOf(o) /\ PackersOf(o)' \subseteq PackersOf(o) \ {p}
      BY <1>18, <2>1, <2>4 DEF PackersOf
    <3>2. P(o)' + 1 <= P(o)
      BY <1>2, <3>1, OneLess DEF P
    <3>3. sent'["load"][o] = sent["load"][o] + 1 /\ sent["load"][o] \in Nat
      BY <1>0, <1>8, <2>1, <2>4, WorthType, KindNames
    <3>4. NewLoads(o)' \subseteq NewLoads(o) \cup {sent'["load"][o]}
      <4>1. recv_acks \subseteq recv_acks'
        BY <1>0, BitsStay
      <4> QED
        BY <3>3, <4>1 DEF NewLoads
    <3>5. L(o)' <= L(o) + 1
      BY <1>2, <3>4, AtMostOneMore DEF L
    <3> QED
      BY <1>2, <1>3, <1>4, <1>5, <1>6, <2>2, <2>4, <3>2, <3>5
  <2> QED
    BY <2>3, <2>4
<1>19. CASE \/ \E q \in Orders : Process_order(q) \/ StoreInfo(q)
            \/ \E m \in Msg : ReceiveError(m)
            \/ \E p \in packers : StartPacker(p)
            \/ \E m \in Msg : ReceiveTruckArrived(m) \/ ReceiveDelivered(m)
            \/ UpsReceiveFails \/ UNCHANGED vars
  BY <1>10, <1>19
  DEF vars, Process_order, StoreInfo, ReceiveError, StartPacker,
      ReceiveTruckArrived, ReceiveDelivered, UpsReceiveFails
<1> QED
  BY <1>0, <1>11, <1>12, <1>13, <1>14, <1>15, <1>16, <1>17, <1>18, <1>19,
     AskedCases

LEMMA BInvInit == Init => BInv
<1> SUFFICES ASSUME Init
             PROVE  BInv
  OBVIOUS
<1>1. DInv /\ packers = {} /\ IsFiniteSet(packers)
  BY DInvInit, FS_EmptySet DEF Init
<1>2. BuyOnce /\ ListedOnce
  BY KindNames DEF Init, BuyOnce, ListedOnce
<1>3. ASSUME NEW o \in Orders
      PROVE  Spent(o) + IntakeWorth(o) + HandWorth(o) + PackWorth(o)
               <= 5 + 4 * resends
  <2>1. Spent(o) = 0 /\ HandWorth(o) = 0 /\ IntakeWorth(o) = 5 /\ resends = 0
    BY KindNames
    DEF Init, IdleWorld, Spent, HandWorth, ToMatch, InHand, IntakeWorth
  <2>2. NewPacks(o) = {} /\ PackersOf(o) = {} /\ NewLoads(o) = {}
    BY <1>1, KindNames DEF Init, NewPacks, PackersOf, NewLoads
  <2>3. PackWorth(o) = 0
    BY <2>2, FS_EmptySet DEF PackWorth
  <2> QED
    BY <2>1, <2>3
<1> QED
  BY <1>1, <1>2, <1>3 DEF BInv, WithinBudget

LEMMA BInvStep ==
  ASSUME Different, BInv, [Next]_vars
  PROVE  BInv'
<1>1. DInv' /\ BuyOnce' /\ ListedOnce'
  BY DInvStep, BuyStep DEF BInv
<1>2. IsFiniteSet(packers')
  BY PackersFinite DEF BInv, DInv, IInv
<1> QED
  BY <1>1, <1>2, BudgetStep DEF BInv

(* Sequence numbers are not wasted: however the threads interleave and     *)
(* whatever fails, an order unlike the others takes five of them, and an   *)
(* answer that comes again takes at most four more.                        *)
THEOREM NumbersLast == Spec => []NumbersBudget
<1>1. Init => (Different => BInv)
  BY BInvInit
<1>2. (Different => BInv) /\ [Next]_vars => (Different => BInv)'
  BY BInvStep DEF Different
<1>3. (Different => BInv) => NumbersBudget
  <2> SUFFICES ASSUME Different, BInv, NEW o \in Orders
               PROVE  Spent(o) <= 5 + 4 * resends
    BY DEF NumbersBudget, Different, Spent
  <2>1. TypeOK /\ IsFiniteSet(packers) /\ WithinBudget
    BY DEF BInv, DInv, IInv
  <2>2. /\ Spent(o) \in Nat /\ IntakeWorth(o) \in Nat /\ HandWorth(o) \in Nat
        /\ PackWorth(o) \in Nat /\ resends \in Nat
    BY <2>1, WorthType, KindNames DEF Spent, PackWorth
  <2> QED
    BY <2>1, <2>2 DEF WithinBudget
<1> QED
  BY <1>1, <1>2, <1>3, PTL DEF Spec
=============================================================================
