----------------------------- MODULE Fulfilment -----------------------------
(***************************************************************************)
(* The order pipeline of the server (server/): the threads that take       *)
(* orders from the web site, the thread that reads the World, the threads  *)
(* it starts for packed packages, the thread that reads UPS, and the       *)
(* status column they all write.                                           *)
(*                                                                         *)
(* The World and UPS are outside src/.  They answer every command they are *)
(* given, at any later moment and in any order, and repeat an answer until *)
(* the acknowledgement they are owed reaches them.  Commands are handed to *)
(* sending threads that repeat them until acknowledged: module Outbox.     *)
(*                                                                         *)
(* Sequence numbers are abstracted to names.  A command is named by its    *)
(* kind, its package and its position among the commands of that kind for  *)
(* that package; the answer to a command is named by the command.          *)
(*                                                                         *)
(* A definition marked "slip" is a wrong variant of the one below it.  It  *)
(* is not part of the specification: it shows what a property would catch. *)
(***************************************************************************)
EXTENDS Naturals, Sequences, FiniteSets

CONSTANTS
  Orders,        \* order ids, which are also the package (ship) ids
  Warehouses,    \* warehouse numbers
  Things,        \* contents of an order: ids, descriptions and counts
  Trucks,        \* truck ids of UPS
  whOf,          \* whOf[o]: the warehouse select_warehouse chose for o
  thingsOf,      \* thingsOf[o]: the products of o
  NoWarehouse,   \* 0, what operator[] of shipid_to_whid makes up
  NoTruck,       \* no entry in shipid_to_truckid
  NoMsg,         \* the World thread is handling no message
  MaxResends,    \* bound: how many answers arrive once more than needed
  MaxErrors,     \* bound: how many commands the World refuses
  SharedNumbers, \* may the World and UPS give two answers one number?
  Racy,          \* do unlocked accesses to shared data disturb each other?
  DbMayFail,     \* may an UPDATE of the status column be rolled back?
  UpsMayFail     \* may a read from the UPS socket fail?

ASSUME ConstantsAssumption ==
  /\ whOf \in [Orders -> Warehouses]
  /\ thingsOf \in [Orders -> Things]
  /\ NoWarehouse \notin Warehouses /\ NoTruck \notin Trucks
  /\ MaxResends \in Nat /\ MaxErrors \in Nat
  /\ {SharedNumbers, Racy, DbMayFail, UpsMayFail} \subseteq BOOLEAN

VARIABLES
  front,                  \* front[o]: the thread of receive_data_from_frontend
  seqnum_to_orderinfo,    \* orders whose purchase's seqnum has an entry
  shipid_to_whid,         \* shipid_to_whid[o], NoWarehouse when absent
  shipid_to_truckid,      \* shipid_to_truckid[o], NoTruck when absent
  purchase_request_list,  \* the purchases sent so far, for each warehouse
  purchase_mutex,         \* warehouses whose mutex the World thread holds
  sent,                   \* sent[k][o]: commands of kind k handed over for o
  recv_acks,              \* answers for which the bit has been set in recv_acks
  acked,                  \* answers an acknowledgement has been sent for
  refused,                \* commands the World answered with an AErr
  resends,                \* number of repeated deliveries so far
  world,                  \* the World thread: pc, message, list position
  packers,                \* live Process_APacked threads
  ups_running,            \* is the UPS thread still in its receive loop?
  status                  \* the status column of the orders table

vars == <<front, seqnum_to_orderinfo, shipid_to_whid, shipid_to_truckid,
          purchase_request_list, purchase_mutex, sent, recv_acks, acked,
          refused, resends, world, packers, ups_running, status>>

intake == <<front, seqnum_to_orderinfo, shipid_to_whid, purchase_request_list>>
inbox  == <<recv_acks, acked, refused, resends>>
-----------------------------------------------------------------------------
LC == INSTANCE OrderLifecycle

(* The commands to the World (buy, topack, load) and to UPS (pickupreq,    *)
(* loaded), by the fields of ACommands and AUCommands.                     *)
WorldKinds == {"buy", "topack", "load"}
Kinds == WorldKinds \cup {"pickupreq", "loaded"}

Msg == [kind : Kinds, ship : Orders, n : Nat]
Cmd(k, o, i) == [kind |-> k, ship |-> o, n |-> i]

IdleWorld == [pc |-> "idle", m |-> NoMsg, pos |-> 0]

Requests == purchase_request_list[whOf[world.m.ship]]  \* the list being scanned
Here == Requests[world.pos]                            \* the entry looked at

Init ==
  /\ front = [o \in Orders |-> "absent"]
  /\ seqnum_to_orderinfo = {}
  /\ shipid_to_whid = [o \in Orders |-> NoWarehouse]
  /\ shipid_to_truckid = [o \in Orders |-> NoTruck]
  /\ purchase_request_list = [w \in Warehouses |-> <<>>]
  /\ purchase_mutex = {}
  /\ sent = [k \in Kinds |-> [o \in Orders |-> 0]]
  /\ recv_acks = {}
  /\ acked = {}
  /\ refused = {}
  /\ resends = 0
  /\ world = IdleWorld
  /\ packers = {}
  /\ ups_running = TRUE
  /\ LC!Init
-----------------------------------------------------------------------------
(* Send_...: a sequence number is drawn and the command is given to a      *)
(* sending thread of its own.                                              *)
Send(k, o) == sent' = [sent EXCEPT ![k][o] = @ + 1]

(* An answer reaches the server: for the first time, or once more because  *)
(* the peer had not seen its acknowledgement yet.                          *)
SeenBefore(m) == m \in recv_acks \/ \E p \in packers : p.m = m

Deliver(m) ==
  /\ m \notin refused
  /\ IF SeenBefore(m) THEN resends < MaxResends /\ resends' = resends + 1
                      ELSE resends' = resends

OtherPeer(m, x) == (m.kind \in WorldKinds) # (x.kind \in WorldKinds)

(* The test of recv_acks that opens every handler: an answer whose bit is  *)
(* already set is acknowledged at once; the handler goes on either way.    *)
(* World and UPS number their answers each on its own but share the bits,  *)
(* and a stale store of a neighbouring bit may have undone this one.       *)
AckIfBitSet(m) ==
  \/ /\ \/ m \in recv_acks
        \/ SharedNumbers /\ \E x \in recv_acks : OtherPeer(m, x)
     /\ acked' = acked \cup {m}
  \/ /\ m \notin recv_acks \/ Racy
     /\ acked' = acked

(* Slip: only answers that come again are acknowledged.                    *)
AckOnlyRepeats(m) == acked' = IF m \in recv_acks THEN acked \cup {m} ELSE acked

(* send_acks_to_world, Send_ack_to_UPS: sent once, by a thread of its own. *)
Ack(m) == acked' = acked \cup {m}

(* Slip: the WHERE clause asks for orders that are still "ordered".        *)
UpdateNewOrders(o, s) ==
  status' = [status EXCEPT ![o] = IF @ = "ordered" THEN s ELSE @]

(* Slip: a status of the table's choices that is no stage of the server's. *)
UpdateToLoaded(o, s) ==
  status' = [status EXCEPT ![o] = IF s = "loading" THEN "loaded" ELSE s]

(* A transaction of its own; when it fails it is rolled back, and the      *)
(* caller never learns of it.                                              *)
Update_Order_Status(o, s) ==
  \/ status' = [status EXCEPT ![o] = s]
  \/ DbMayFail /\ UNCHANGED status

(* An insertion by another order thread is under way in the same map.      *)
InsertInProgress(o) ==
  Racy /\ \E q \in Orders \ {o} : front[q] = "inserting"
-----------------------------------------------------------------------------
(* Threads of receive_data_from_frontend: one per order.                   *)

(* The order is parsed, its warehouse chosen, a sequence number drawn.     *)
Process_order(o) ==
  /\ front[o] = "absent"
  /\ front' = [front EXCEPT ![o] = "inserting"]
  /\ UNCHANGED <<seqnum_to_orderinfo, shipid_to_whid, purchase_request_list,
                 shipid_to_truckid, purchase_mutex, sent, inbox, world,
                 packers, ups_running, status>>

(* Slip: the warehouse is not noted.                                       *)
StoreNoWarehouse(o) == UNCHANGED shipid_to_whid

StoreWarehouse(o) ==
  \/ shipid_to_whid' = [shipid_to_whid EXCEPT ![o] = whOf[o]]
  \/ InsertInProgress(o) /\ UNCHANGED shipid_to_whid

(* The two maps are written, without a lock; an insertion that another     *)
(* thread makes at the same time may lose this one.                        *)
StoreInfo(o) ==
  /\ front[o] = "inserting"
  /\ front' = [front EXCEPT ![o] = "stored"]
  /\ \/ seqnum_to_orderinfo' = seqnum_to_orderinfo \cup {o}
     \/ InsertInProgress(o) /\ UNCHANGED seqnum_to_orderinfo
  /\ StoreWarehouse(o)
  /\ UNCHANGED <<purchase_request_list, shipid_to_truckid, purchase_mutex,
                 sent, inbox, world, packers, ups_running, status>>

(* Slip: no lock_guard.                                                    *)
WithoutMutex(w) == TRUE

MutexFree(w) == w \notin purchase_mutex

(* Under the mutex of the warehouse the purchase is listed and sent.       *)
PushRequest(o) ==
  /\ front[o] = "stored"
  /\ MutexFree(whOf[o])
  /\ purchase_request_list' =
       [purchase_request_list EXCEPT ![whOf[o]] = Append(@, o)]
  /\ Send("buy", o)
  /\ front' = [front EXCEPT ![o] = "done"]
  /\ UNCHANGED <<seqnum_to_orderinfo, shipid_to_whid, shipid_to_truckid,
                 purchase_mutex, inbox, world, packers, ups_running, status>>

FrontThread(o) == StoreInfo(o) \/ PushRequest(o)
-----------------------------------------------------------------------------
(* The World thread.  An AResponses is handled item by item; a batch is    *)
(* its items delivered one after the other.                                *)

(* Process_Arrived up to its loop, which runs under the warehouse's mutex. *)
ReceiveArrived(m) ==
  /\ world.pc = "idle"
  /\ Deliver(m)
  /\ AckIfBitSet(m)
  /\ recv_acks' = recv_acks \cup {m}
  /\ purchase_mutex' = purchase_mutex \cup {whOf[m.ship]}
  /\ world' = [pc |-> "scan", m |-> m, pos |-> 1]
  /\ UNCHANGED <<intake, shipid_to_truckid, sent, refused, packers,
                 ups_running, status>>

(* Slip: the products are not compared.                                    *)
AnyThings == TRUE

SameThings == thingsOf[Here] = thingsOf[world.m.ship]

(* Slip: the loop ends before the last entry.                              *)
ScanningOneShort == world.pc = "scan" /\ world.pos < Len(Requests)

Scanning == world.pc = "scan" /\ world.pos <= Len(Requests)

ScanSkip ==
  /\ Scanning /\ ~SameThings
  /\ world' = [world EXCEPT !.pos = @ + 1]
  /\ UNCHANGED <<intake, shipid_to_truckid, purchase_mutex, sent, inbox,
                 packers, ups_running, status>>

(* A purchase of the same things: its order is packed.                     *)
ScanMatch ==
  /\ Scanning /\ SameThings
  /\ Here \in seqnum_to_orderinfo
  /\ Send("topack", Here)
  /\ world' = [world EXCEPT !.pc = "status"]
  /\ UNCHANGED <<intake, shipid_to_truckid, purchase_mutex, inbox, packers,
                 ups_running, status>>

(* "seqnum_to_orderinfo not found": the handler returns, releasing the     *)
(* mutex, without an acknowledgement.  The entry was lost, or an insertion *)
(* under way hides it from find.                                           *)
ScanMiss ==
  /\ Scanning /\ SameThings
  /\ Here \notin seqnum_to_orderinfo \/ InsertInProgress(Here)
  /\ purchase_mutex' = purchase_mutex \ {whOf[world.m.ship]}
  /\ world' = IdleWorld
  /\ UNCHANGED <<intake, shipid_to_truckid, sent, inbox, packers,
                 ups_running, status>>

MarkPacking ==
  /\ world.pc = "status"
  /\ Update_Order_Status(Here, "packing")
  /\ world' = [world EXCEPT !.pc = "pickup"]
  /\ UNCHANGED <<intake, shipid_to_truckid, purchase_mutex, sent, inbox,
                 packers, ups_running>>

(* A truck is asked for, and the loop goes on: nothing is erased.          *)
RequestPickup ==
  /\ world.pc = "pickup"
  /\ Send("pickupreq", Here)
  /\ world' = [world EXCEPT !.pc = "scan", !.pos = @ + 1]
  /\ UNCHANGED <<intake, shipid_to_truckid, purchase_mutex, inbox, packers,
                 ups_running, status>>

FinishArrived ==
  /\ world.pc = "scan" /\ ~Scanning
  /\ Ack(world.m)
  /\ purchase_mutex' = purchase_mutex \ {whOf[world.m.ship]}
  /\ world' = IdleWorld
  /\ UNCHANGED <<intake, shipid_to_truckid, sent, recv_acks, refused, resends,
                 packers, ups_running, status>>

(* A ready item: a detached thread is started for it.  Threads for one     *)
(* message are told apart by the number of repetitions before them.        *)
ReceiveReady(m) ==
  /\ world.pc = "idle"
  /\ Deliver(m)
  /\ packers' = packers \cup {[m |-> m, k |-> resends', pc |-> "start"]}
  /\ UNCHANGED <<intake, shipid_to_truckid, purchase_mutex, sent, recv_acks,
                 acked, refused, world, ups_running, status>>

(* A loaded item: the package is on its way, and UPS is told.              *)
ReceiveLoaded(m) ==
  /\ world.pc = "idle"
  /\ Deliver(m)
  /\ recv_acks' = recv_acks \cup {m}
  /\ Update_Order_Status(m.ship, "delivering")
  /\ Send("loaded", m.ship)
  /\ Ack(m)
  /\ UNCHANGED <<intake, shipid_to_truckid, purchase_mutex, refused, world,
                 packers, ups_running>>

(* An error item: printed and acknowledged, nothing else.                  *)
ReceiveError(m) ==
  /\ world.pc = "idle"
  /\ Cardinality(refused) < MaxErrors
  /\ m \notin refused /\ ~SeenBefore(m)
  /\ refused' = refused \cup {m}
  /\ Ack(m)
  /\ UNCHANGED <<intake, shipid_to_truckid, purchase_mutex, sent, recv_acks,
                 resends, world, packers, ups_running, status>>

HandleArrived == ScanSkip \/ ScanMatch \/ ScanMiss \/ MarkPacking
                 \/ RequestPickup \/ FinishArrived

ReceiveAnswer(o) ==
  \/ \E i \in 1..sent["buy"][o] : ReceiveArrived(Cmd("buy", o, i))
  \/ \E i \in 1..sent["topack"][o] : ReceiveReady(Cmd("topack", o, i))
  \/ \E i \in 1..sent["load"][o] : ReceiveLoaded(Cmd("load", o, i))

ReceiveRefusal(o) ==
  \E k \in WorldKinds : \E i \in 1..sent[k][o] : ReceiveError(Cmd(k, o, i))

WorldThread == HandleArrived \/ \E o \in Orders : ReceiveAnswer(o)
-----------------------------------------------------------------------------
(* Threads of Process_APacked.                                             *)

StartPacker(p) ==
  /\ p.pc = "start"
  /\ AckIfBitSet(p.m)
  /\ recv_acks' = recv_acks \cup {p.m}
  /\ Update_Order_Status(p.m.ship, "packed")
  /\ packers' = (packers \ {p}) \cup {[p EXCEPT !.pc = "wait"]}
  /\ UNCHANGED <<intake, shipid_to_truckid, purchase_mutex, sent, refused,
                 resends, world, ups_running>>

(* Slip: no polling loop.                                                  *)
WithoutTruck(o) == TRUE

TruckKnown(o) == shipid_to_truckid[o] # NoTruck

(* The polling loop ends once UPS has sent a truck.                        *)
LoadPackage(p) ==
  /\ p.pc = "wait"
  /\ TruckKnown(p.m.ship)
  /\ Update_Order_Status(p.m.ship, "loading")
  /\ Send("load", p.m.ship)
  /\ Ack(p.m)
  /\ packers' = packers \ {p}
  /\ UNCHANGED <<intake, shipid_to_truckid, purchase_mutex, recv_acks, refused,
                 resends, world, ups_running>>

PackerThreads == \E p \in packers : StartPacker(p) \/ LoadPackage(p)
-----------------------------------------------------------------------------
(* The UPS thread.                                                         *)

ReceiveTruckArrived(m) ==
  /\ ups_running
  /\ Deliver(m)
  /\ \E t \in Trucks :
       shipid_to_truckid' = [shipid_to_truckid EXCEPT ![m.ship] = t]
  /\ Ack(m)
  /\ recv_acks' = recv_acks \cup {m}
  /\ UNCHANGED <<intake, purchase_mutex, sent, refused, world, packers,
                 ups_running, status>>

ReceiveDelivered(m) ==
  /\ ups_running
  /\ Deliver(m)
  /\ Update_Order_Status(m.ship, "delivered")
  /\ Ack(m)
  /\ recv_acks' = recv_acks \cup {m}
  /\ UNCHANGED <<intake, shipid_to_truckid, purchase_mutex, sent, refused,
                 world, packers, ups_running>>

UpsThread ==
  \E o \in Orders :
    \/ \E i \in 1..sent["pickupreq"][o] :
         ReceiveTruckArrived(Cmd("pickupreq", o, i))
    \/ \E i \in 1..sent["loaded"][o] : ReceiveDelivered(Cmd("loaded", o, i))

(* A read that fails ends the loop, and the thread, for good; the World    *)
(* thread, whose loop is in WorldHandler, would try again.                 *)
UpsReceiveFails ==
  /\ UpsMayFail /\ ups_running
  /\ ups_running' = FALSE
  /\ UNCHANGED <<intake, shipid_to_truckid, purchase_mutex, sent, inbox,
                 world, packers, status>>
-----------------------------------------------------------------------------
Next ==
  \/ \E o \in Orders : Process_order(o) \/ FrontThread(o) \/ ReceiveRefusal(o)
  \/ WorldThread
  \/ PackerThreads
  \/ UpsThread
  \/ UpsReceiveFails

Spec == Init /\ [][Next]_vars

(* Every thread keeps running, and the World and UPS answer what they are  *)
(* asked.  Nobody has to place an order, refuse a command or fail.         *)
Fairness ==
  /\ \A o \in Orders : WF_vars(FrontThread(o))
  /\ WF_vars(WorldThread)
  /\ WF_vars(PackerThreads)
  /\ WF_vars(UpsThread)

FairSpec == Spec /\ Fairness
-----------------------------------------------------------------------------
TypeOK ==
  /\ front \in [Orders -> {"absent", "inserting", "stored", "done"}]
  /\ seqnum_to_orderinfo \subseteq Orders
  /\ shipid_to_whid \in [Orders -> Warehouses \cup {NoWarehouse}]
  /\ shipid_to_truckid \in [Orders -> Trucks \cup {NoTruck}]
  /\ purchase_request_list \in [Warehouses -> Seq(Orders)]
  /\ purchase_mutex \subseteq Warehouses
  /\ sent \in [Kinds -> [Orders -> Nat]]
  /\ recv_acks \subseteq Msg /\ acked \subseteq Msg /\ refused \subseteq Msg
  /\ resends \in Nat
  /\ \/ world = IdleWorld
     \/ /\ world \in [pc : {"scan", "status", "pickup"}, m : Msg, pos : Nat]
        /\ world.m.kind = "buy" /\ world.pos > 0
  /\ packers \subseteq [m : Msg, k : Nat, pc : {"start", "wait"}]
  /\ ups_running \in BOOLEAN
  /\ status \in [Orders -> LC!Status]

Answered(k, o) == \E m \in recv_acks : m.kind = k /\ m.ship = o

(* What the customer reads is true: every value of the status column was   *)
(* earned by the event it names - packing was asked for, the World packed  *)
(* the package, a truck came for it, the World loaded it, UPS delivered    *)
(* it - whatever was repeated, refused, rolled back or raced before.       *)
StatusIsEarned ==
  \A o \in Orders :
    /\ status[o] = "packing" => sent["topack"][o] > 0
    /\ status[o] = "packed" => Answered("topack", o)
    /\ status[o] = "loading" =>
         Answered("topack", o) /\ Answered("pickupreq", o)
    /\ status[o] = "delivering" => Answered("load", o)
    /\ status[o] = "delivered" => Answered("loaded", o)

(* No step of the physical way is skipped: the threads, which share only   *)
(* the maps and the status column, never send a command for a package      *)
(* before the answers it builds on have come in.                           *)
CauseChain ==
  \A o \in Orders :
    /\ sent["topack"][o] > 0 =>
         \E q \in Orders : /\ whOf[q] = whOf[o] /\ thingsOf[q] = thingsOf[o]
                           /\ Answered("buy", q)
    /\ sent["pickupreq"][o] <= sent["topack"][o]
    /\ sent["load"][o] > 0 => Answered("topack", o) /\ Answered("pickupreq", o)
    /\ sent["loaded"][o] > 0 => Answered("load", o)

(* An arrival that was acknowledged, and that the World will not repeat,   *)
(* has had its order packed by the time the World thread turns to another  *)
(* answer: the unlocked writes of the order thread come early enough for   *)
(* the World thread to find the order.                                     *)
AckedArrivalIsPacked ==
  \A o \in Orders :
    LET m == Cmd("buy", o, 1)
    IN  m \in acked \ refused /\ world.m # m => sent["topack"][o] > 0

(* shipid_to_whid is read with operator[], which would make up warehouse 0 *)
(* for a package it does not know: a package is never loaded there.        *)
LoadKnowsWarehouse ==
  \A o \in Orders : sent["load"][o] > 0 => shipid_to_whid[o] = whOf[o]

(* The vector the World thread iterates over is not appended to under its  *)
(* iterator, although order threads run all the time.                      *)
ListStableDuringScan ==
  [][world.pc # "idle" =>
       LET w == whOf[world.m.ship]
       IN  purchase_request_list'[w] = purchase_request_list[w]]_vars

(* Nothing is bought, packed, loaded or announced twice for one order.     *)
OneShipment == \A k \in Kinds, o \in Orders : sent[k][o] <= 1

(* Each order's package is packed at most once.                            *)
PackedOnce == \A o \in Orders : sent["topack"][o] <= 1

(* The status column follows the life cycle, stage by stage.               *)
Lifecycle == LC!Spec

(* Sequence numbers are not wasted: of orders that differ, each takes the  *)
(* five it needs and an answer that comes again takes at most four more,   *)
(* so that the bits of recv_acks and send_acks, one for each number and    *)
(* indexed without a check, last for as many orders as one can foresee.    *)
NumbersBudget ==
  (\A o, q \in Orders : whOf[o] = whOf[q] /\ thingsOf[o] = thingsOf[q] => o = q)
  => \A o \in Orders :
       sent["buy"][o] + sent["topack"][o] + sent["pickupreq"][o]
         + sent["load"][o] + sent["loaded"][o] <= 5 + 4 * resends

(* Every order that was sent to the World is delivered in the end, and its *)
(* status stays "delivered", whatever answers were repeated on the way.    *)
StaysDelivered ==
  \A o \in Orders : front[o] = "done" ~> [](status[o] = "delivered")

(* Every answer that was read is acknowledged in the end, so that its      *)
(* sender can stop repeating it.                                           *)
AnswersAcked == <>[](recv_acks \subseteq acked)

=============================================================================
