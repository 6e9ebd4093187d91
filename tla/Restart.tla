------------------------------- MODULE Restart -------------------------------
(***************************************************************************)
(* The order pipeline when the server is killed and started again.         *)
(*                                                                         *)
(* Everything the server knows of its orders is in memory: maps, lists,    *)
(* bits and threads are gone, and the handshake gives it a new world, so   *)
(* that no answer of the old one reaches it.  Only the status column       *)
(* stays.  Nothing in the code takes up the orders it stands for.  UPS,    *)
(* which is outside src/, may still send what it was asked for before.     *)
(*                                                                         *)
(* A definition marked "slip" is a wrong variant of the one below it.  It  *)
(* is not part of the specification: it shows what a property would catch. *)
(***************************************************************************)
EXTENDS Fulfilment

CONSTANT MaxCrashes  \* bound: how often the server is killed

ASSUME RestartAssumption == MaxCrashes \in Nat

VARIABLES
  crashes,   \* how often it has been killed
  stranded,  \* orders that came in before it was killed last
  leftover   \* answers UPS owes to commands of earlier runs of the server

past == <<crashes, stranded, leftover>>

RestartInit == Init /\ crashes = 0 /\ stranded = {} /\ leftover = {}
-----------------------------------------------------------------------------
(* Slip: requests that had not been sent on are taken up again.            *)
RequestSurvives(o) == front[o]

(* An order's request is read once; killed with its thread, it is over.    *)
RequestIsOver(o) == IF front[o] = "absent" THEN "absent" ELSE "done"

AskedOfUps == UNION {{Cmd(k, o, i) : i \in 1..sent[k][o]} :
                       k \in Kinds \ WorldKinds, o \in Orders}

Crash ==
  /\ crashes < MaxCrashes
  /\ crashes' = crashes + 1
  /\ stranded' = {o \in Orders : front[o] # "absent"}
  /\ leftover' = leftover \cup AskedOfUps
  /\ front' = [o \in Orders |-> RequestIsOver(o)]
  /\ seqnum_to_orderinfo' = {}
  /\ shipid_to_whid' = [o \in Orders |-> NoWarehouse]
  /\ shipid_to_truckid' = [o \in Orders |-> NoTruck]
  /\ purchase_request_list' = [w \in Warehouses |-> <<>>]
  /\ purchase_mutex' = {}
  /\ sent' = [k \in Kinds |-> [o \in Orders |-> 0]]
  /\ recv_acks' = {} /\ acked' = {} /\ refused' = {}
  /\ world' = IdleWorld
  /\ packers' = {}
  /\ ups_running' = TRUE
  /\ UNCHANGED <<resends, status>>

(* Late, UPS answers as if the server had never been away.                 *)
OldAnswer ==
  /\ \E m \in leftover : \/ m.kind = "pickupreq" /\ ReceiveTruckArrived(m)
                         \/ m.kind = "loaded" /\ ReceiveDelivered(m)
  /\ UNCHANGED past

RestartNext == (Next /\ UNCHANGED past) \/ Crash \/ OldAnswer

RestartSpec == RestartInit /\ [][RestartNext]_<<vars, past>>

FairRestartSpec == RestartSpec /\ Fairness
-----------------------------------------------------------------------------
(* The server forgets: whatever the World and UPS say about an order that  *)
(* came in before it was killed, no command is sent for it any more, and   *)
(* no thread waits for it.                                                 *)
NothingForStranded ==
  /\ \A o \in stranded, k \in Kinds : sent[k][o] = 0
  /\ \A p \in packers : p.m.ship \notin stranded

(* The status of such an order stands still, at whatever stage it was; the *)
(* one thing that may still be said of it is that UPS delivered it.        *)
StrandedStandStill ==
  [][\A o \in stranded : status'[o] \in {status[o], "delivered"}]_<<vars, past>>

(* An order of this run of the server is delivered in the end, whatever    *)
(* was lost with earlier runs and whatever UPS still says about those -    *)
(* unless the World refuses a command for it, UPS is lost, or the server   *)
(* is killed again.                                                        *)
Hindered(o) == o \in stranded \/ ~ups_running \/ \E m \in refused : m.ship = o

FreshDelivered ==
  \A o \in Orders : front[o] = "done" ~> status[o] = "delivered" \/ Hindered(o)

=============================================================================
