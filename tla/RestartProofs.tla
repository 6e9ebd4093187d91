---------------------------- MODULE RestartProofs ----------------------------
(***************************************************************************)
(* Theorems about Restart, for every number of orders and of crashes, and  *)
(* under every fault of Fulfilment: what a server that forgets can do to   *)
(* the orders it has forgotten.                                            *)
(***************************************************************************)
EXTENDS Restart, FulfilmentProofs

(* A list holds requests of this run only.                                 *)
ListedFresh ==
  \A w \in Warehouses : \A i \in 1..Len(purchase_request_list[w]) :
    purchase_request_list[w][i] \notin stranded

(* The request of a stranded order is not read again.                      *)
StrandedIsOver == \A o \in stranded : front[o] = "done"

(* Between two steps on an entry the position still names an entry.        *)
EntryThere ==
  world.pc \in {"status", "pickup"} => world.pos <= Len(Requests)

RTypeOK == TypeOK /\ stranded \subseteq Orders /\ leftover \subseteq Msg

RInv == /\ RTypeOK /\ MutexHeld
        /\ ListedFresh /\ StrandedIsOver /\ EntryThere
        /\ NothingForStranded

LEMMA RInvInit == RestartInit => RInv
<1> SUFFICES ASSUME RestartInit
             PROVE  RInv
  OBVIOUS
<1>1. TypeOK /\ MutexHeld /\ stranded = {} /\ leftover = {}
  BY TypeInit, ScanInit DEF RestartInit
<1>2. world.pc = "idle" /\ packers = {}
  BY DEF RestartInit, Init, IdleWorld
<1> QED
  BY <1>1, <1>2 DEF RInv, RTypeOK, ListedFresh, StrandedIsOver, EntryThere,
                    NothingForStranded
-----------------------------------------------------------------------------
(* A crash leaves nothing behind that a thread could act on.               *)
LEMMA AskedType ==
  ASSUME TypeOK
  PROVE  AskedOfUps \subseteq Msg
<1>1. \A k \in Kinds, o \in Orders : sent[k][o] \in Nat
  BY DEF TypeOK
<1>2. \A k \in Kinds, o \in Orders : \A i \in 1..sent[k][o] : Cmd(k, o, i) \in Msg
  BY <1>1, CmdType
<1> QED
  BY <1>2 DEF AskedOfUps

LEMMA CrashType ==
  ASSUME RTypeOK, Crash
  PROVE  RTypeOK'
<1>1. front' \in [Orders -> {"absent", "inserting", "stored", "done"}]
  BY DEF Crash, RequestIsOver
<1>2. sent' \in [Kinds -> [Orders -> Nat]]
  BY DEF Crash
<1>3. purchase_request_list' \in [Warehouses -> Seq(Orders)]
  BY DEF Crash
<1>4. /\ shipid_to_whid' \in [Orders -> Warehouses \cup {NoWarehouse}]
      /\ shipid_to_truckid' \in [Orders -> Trucks \cup {NoTruck}]
  BY DEF Crash
<1>5. stranded' \subseteq Orders /\ leftover' \subseteq Msg
  BY AskedType DEF Crash, RTypeOK
<1> QED
  BY <1>1, <1>2, <1>3, <1>4, <1>5 DEF Crash, RTypeOK, TypeOK, IdleWorld

LEMMA CrashStep ==
  ASSUME RInv, Crash
  PROVE  RInv'
<1>1. RTypeOK'
  BY CrashType DEF RInv
<1>2. world'.pc = "idle" /\ packers' = {}
  BY DEF Crash, IdleWorld
<1>3. MutexHeld' /\ EntryThere'
  BY <1>2 DEF MutexHeld, EntryThere
<1>4. ListedFresh'
  BY DEF Crash, ListedFresh
<1>5. StrandedIsOver'
  BY DEF Crash, StrandedIsOver, RequestIsOver
<1>6. NothingForStranded'
  BY <1>1, <1>2 DEF Crash, NothingForStranded, RTypeOK
<1> QED
  BY <1>1, <1>3, <1>4, <1>5, <1>6 DEF RInv
-----------------------------------------------------------------------------
(* A late answer of UPS writes the truck, the status and bits: nothing     *)
(* that leads to a command.                                                *)
LEMMA OldAnswerStep ==
  ASSUME RInv, OldAnswer
  PROVE  RInv'
<1>1. PICK m \in Msg : ReceiveTruckArrived(m) \/ ReceiveDelivered(m)
  BY DEF OldAnswer, RInv, RTypeOK
<1>2. TypeOK'
  BY <1>1, TruckType, DeliveredType DEF RInv, RTypeOK
<1>3. UNCHANGED <<front, purchase_request_list, purchase_mutex, sent, world,
                  packers, stranded, leftover>>
  BY <1>1 DEF OldAnswer, past, ReceiveTruckArrived, ReceiveDelivered, intake
<1> QED
  BY <1>2, <1>3 DEF RInv, RTypeOK, MutexHeld, ListedFresh, StrandedIsOver,
                    EntryThere, Requests, NothingForStranded
-----------------------------------------------------------------------------
(* The World only answers what it was asked by this run of the server.     *)
LEMMA AnswersAreFresh ==
  ASSUME RInv, [Next]_vars
  PROVE  /\ \A o \in Orders : PushRequest(o) => o \notin stranded
         /\ \/ UNCHANGED packers
            \/ \E m \in Msg : m.ship \notin stranded /\ ReceiveReady(m)
            \/ \E p \in packers : StartPacker(p)
            \/ \E p \in packers : LoadPackage(p)
         /\ \/ UNCHANGED sent
            \/ \E o \in Orders : PushRequest(o)
            \/ ScanMatch \/ RequestPickup
            \/ \E m \in Msg : m.ship \notin stranded /\ ReceiveLoaded(m)
            \/ \E p \in packers : LoadPackage(p)
         /\ \/ UNCHANGED status
            \/ MarkPacking
            \/ \E m \in Msg : m.ship \notin stranded /\ ReceiveLoaded(m)
            \/ \E p \in packers : StartPacker(p)
            \/ \E p \in packers : LoadPackage(p)
            \/ \E m \in Msg : ReceiveDelivered(m)
<1>0. TypeOK
  BY DEF RInv, RTypeOK
<1>1. ASSUME NEW m \in Msg, Asked(m)
      PROVE  m.ship \notin stranded
  <2>1. m.kind \in Kinds /\ m.ship \in Orders
    BY DEF Msg
  <2>2. sent[m.kind][m.ship] # 0
    BY <1>1 DEF Asked
  <2> QED
    BY <2>1, <2>2 DEF RInv, NothingForStranded
<1>2. \A o \in Orders : PushRequest(o) => o \notin stranded
  BY DEF RInv, StrandedIsOver, PushRequest
<1>3. \/ UNCHANGED <<packers, sent, status>>
      \/ \E o \in Orders : PushRequest(o)
      \/ ScanMatch \/ RequestPickup \/ MarkPacking
      \/ \E m \in Msg : m.ship \notin stranded /\ ReceiveReady(m)
      \/ \E m \in Msg : m.ship \notin stranded /\ ReceiveLoaded(m)
      \/ \E p \in packers : StartPacker(p)
      \/ \E p \in packers : LoadPackage(p)
      \/ \E m \in Msg : ReceiveDelivered(m)
  BY <1>0, <1>1, AskedCases
  DEF vars, Process_order, StoreInfo, ReceiveArrived, ScanSkip, ScanMiss,
      FinishArrived, ReceiveError, ReceiveTruckArrived, UpsReceiveFails
<1>4. /\ ScanMatch => UNCHANGED <<packers, status>>
      /\ RequestPickup => UNCHANGED <<packers, status>>
      /\ MarkPacking => UNCHANGED <<packers, sent>>
      /\ \A o \in Orders : PushRequest(o) => UNCHANGED <<packers, status>>
      /\ \A m \in Msg : ReceiveReady(m) => UNCHANGED <<sent, status>>
      /\ \A m \in Msg : ReceiveLoaded(m) => UNCHANGED packers
      /\ \A m \in Msg : ReceiveDelivered(m) => UNCHANGED <<packers, sent>>
      /\ \A p \in packers : StartPacker(p) => UNCHANGED sent
  BY DEF ScanMatch, RequestPickup, MarkPacking, PushRequest, ReceiveReady,
         ReceiveLoaded, ReceiveDelivered, StartPacker
<1> QED
  BY <1>2, <1>3, <1>4

(* The entry the World thread has in hand is of this run.                  *)
LEMMA HereIsFresh ==
  ASSUME RInv, world.pc # "idle", world.pos <= Len(Requests)
  PROVE  Here \in Orders /\ Here \notin stranded
<1>1. Here \in Orders
  BY HereType DEF RInv, RTypeOK
<1>2. /\ whOf[world.m.ship] \in Warehouses
      /\ Requests \in Seq(Orders)
      /\ world.pos \in Nat /\ world.pos > 0
  BY WarehouseOfArrival DEF RInv, RTypeOK
<1>3. world.pos \in 1..Len(Requests)
  BY <1>2
<1> QED
  BY <1>1, <1>2, <1>3 DEF RInv, ListedFresh, Requests, Here

LEMMA ListedFreshStep ==
  ASSUME RInv, [Next]_vars, UNCHANGED past
  PROVE  ListedFresh'
<1>0. TypeOK /\ ListedFresh /\ stranded' = stranded
  BY DEF RInv, RTypeOK, past
<1>1. CASE UNCHANGED purchase_request_list
  BY <1>0, <1>1 DEF ListedFresh
<1>2. ASSUME NEW o \in Orders, PushRequest(o)
      PROVE  ListedFresh'
  <2> SUFFICES ASSUME NEW w \in Warehouses,
                      NEW i \in 1..Len(purchase_request_list'[w])
               PROVE  purchase_request_list'[w][i] \notin stranded
    BY <1>0 DEF ListedFresh
  <2> DEFINE list == purchase_request_list[w]
  <2>1. list \in Seq(Orders)
    BY <1>0 DEF TypeOK
  <2>2. o \notin stranded
    BY <1>2, AnswersAreFresh
  <2>3. CASE w # whOf[o]
    <3>1. purchase_request_list'[w] = list
      BY <1>0, <1>2, <2>3 DEF PushRequest, TypeOK
    <3> QED
      BY <1>0, <3>1 DEF ListedFresh
  <2>4. CASE w = whOf[o]
    <3>1. purchase_request_list'[w] = Append(list, o)
      BY <1>0, <1>2, <2>4 DEF PushRequest, TypeOK
    <3>2. CASE i \in 1..Len(list)
      BY <1>0, <2>1, <3>1, <3>2 DEF ListedFresh
    <3>3. CASE i \notin 1..Len(list)
      BY <2>1, <2>2, <3>1, <3>3
    <3> QED
      BY <3>2, <3>3
  <2> QED
    BY <2>3, <2>4
<1> QED
  BY <1>0, <1>1, <1>2, Writers

LEMMA EntryThereStep ==
  ASSUME RInv, [Next]_vars
  PROVE  EntryThere'
<1>0. TypeOK /\ MutexHeld /\ EntryThere
  BY DEF RInv, RTypeOK
<1>1. CASE UNCHANGED <<world, purchase_mutex>>
  <2> SUFFICES ASSUME world.pc \in {"status", "pickup"}
               PROVE  EntryThere'
    BY <1>1 DEF EntryThere
  <2>1. Requests' = Requests
    BY <1>0, <1>1, ListFrozen DEF Requests
  <2> QED
    BY <1>0, <1>1, <2>1 DEF EntryThere
<1>2. CASE ScanMatch \/ MarkPacking
  <2>1. /\ world.pc # "idle" /\ world.pos <= Len(Requests)
        /\ UNCHANGED purchase_request_list
    BY <1>0, <1>2
    DEF ScanMatch, Scanning, MarkPacking, EntryThere, intake
  <2>2. world'.m = world.m /\ world'.pos = world.pos
    BY <1>0, <1>2, <2>1, BusyType DEF ScanMatch, MarkPacking, BusyOK, Busy
  <2> QED
    BY <2>1, <2>2 DEF EntryThere, Requests
<1>3. CASE ScanSkip \/ RequestPickup
  <2>1. world'.pc = "scan"
    BY <1>0, <1>3, BusyType DEF ScanSkip, Scanning, RequestPickup, BusyOK, Busy
  <2> QED
    BY <2>1 DEF EntryThere
<1>4. CASE ScanMiss \/ FinishArrived
  BY <1>4 DEF ScanMiss, FinishArrived, IdleWorld, EntryThere
<1>5. ASSUME NEW m \in Msg, ReceiveArrived(m)
      PROVE  EntryThere'
  BY <1>5 DEF ReceiveArrived, EntryThere
<1> QED
  BY <1>0, <1>1, <1>2, <1>3, <1>4, <1>5, Writers

(* Commands are sent for fresh orders only.                                *)
LEMMA NothingStep ==
  ASSUME RInv, [Next]_vars, UNCHANGED past
  PROVE  NothingForStranded'
<1>0. /\ TypeOK /\ NothingForStranded /\ EntryThere
      /\ stranded \subseteq Orders /\ stranded' = stranded
  BY DEF RInv, RTypeOK, past
<1>1. ASSUME NEW o \in stranded, NEW k \in Kinds
      PROVE  sent'[k][o] = 0
  <2>1. sent[k][o] = 0 /\ o \in Orders
    BY <1>0 DEF NothingForStranded
  <2>2. ASSUME NEW j \in Kinds, NEW q \in Orders, q \notin stranded, Send(j, q)
        PROVE  sent'[k][o] = 0
    BY <1>0, <2>1, <2>2, SendCount
  <2>3. ASSUME NEW q \in Orders, PushRequest(q)
        PROVE  sent'[k][o] = 0
    BY <2>2, <2>3, AnswersAreFresh, KindNames DEF PushRequest
  <2>4. CASE ScanMatch
    BY <2>2, <2>4, HereIsFresh, KindNames DEF ScanMatch, Scanning
  <2>5. CASE RequestPickup
    BY <1>0, <2>2, <2>5, HereIsFresh, KindNames DEF RequestPickup, EntryThere
  <2>6. ASSUME NEW m \in Msg, m.ship \notin stranded, ReceiveLoaded(m)
        PROVE  sent'[k][o] = 0
    BY <2>2, <2>6, KindNames DEF ReceiveLoaded, Msg
  <2>7. ASSUME NEW p \in packers, LoadPackage(p)
        PROVE  sent'[k][o] = 0
    <3>1. p.m.ship \in Orders /\ p.m.ship \notin stranded
      BY <1>0 DEF TypeOK, NothingForStranded, Msg
    <3> QED
      BY <2>2, <2>7, <3>1, KindNames DEF LoadPackage
  <2> QED
    BY <2>1, <2>3, <2>4, <2>5, <2>6, <2>7, AnswersAreFresh
<1>2. ASSUME NEW p \in packers'
      PROVE  p.m.ship \notin stranded
  <2>1. CASE UNCHANGED packers
    BY <1>0, <2>1 DEF NothingForStranded
  <2>2. ASSUME NEW m \in Msg, m.ship \notin stranded, ReceiveReady(m)
        PROVE  p.m.ship \notin stranded
    BY <1>0, <2>2 DEF ReceiveReady, NothingForStranded
  <2>3. ASSUME NEW r \in packers, StartPacker(r)
        PROVE  p.m.ship \notin stranded
    <3>1. r \in [m : Msg, k : Nat, pc : {"start", "wait"}]
      BY <1>0 DEF TypeOK
    <3>2. [r EXCEPT !.pc = "wait"].m = r.m
      BY <3>1
    <3> QED
      BY <1>0, <2>3, <3>2 DEF StartPacker, NothingForStranded
  <2>4. ASSUME NEW r \in packers, LoadPackage(r)
        PROVE  p.m.ship \notin stranded
    BY <1>0, <2>4 DEF LoadPackage, NothingForStranded
  <2> QED
    BY <2>1, <2>2, <2>3, <2>4, AnswersAreFresh
<1> QED
  BY <1>0, <1>1, <1>2 DEF NothingForStranded

LEMMA RInvStep == RInv /\ [RestartNext]_<<vars, past>> => RInv'
<1> SUFFICES ASSUME RInv, [RestartNext]_<<vars, past>>
             PROVE  RInv'
  OBVIOUS
<1>1. CASE [Next]_vars /\ UNCHANGED past
  <2>1. RTypeOK'
    BY <1>1, TypeStep DEF RInv, RTypeOK, past
  <2>2. MutexHeld'
    BY <1>1, MutexStep DEF RInv, RTypeOK
  <2>3. StrandedIsOver'
    BY <1>1, DoneStays DEF RInv, RTypeOK, StrandedIsOver, past
  <2> QED
    BY <1>1, <2>1, <2>2, <2>3, ListedFreshStep, EntryThereStep, NothingStep
    DEF RInv
<1>2. CASE Crash
  BY <1>2, CrashStep
<1>3. CASE OldAnswer
  BY <1>3, OldAnswerStep
<1> QED
  BY <1>1, <1>2, <1>3 DEF RestartNext

(* A server that was killed sends nothing for the orders it has forgotten, *)
(* whatever World and UPS still say about them.                            *)
THEOREM NothingIsSent == RestartSpec => []NothingForStranded
<1>1. RInv => NothingForStranded
  BY DEF RInv
<1> QED
  BY <1>1, RInvInit, RInvStep, PTL DEF RestartSpec
-----------------------------------------------------------------------------
(* One step of the threads on the status of a stranded order.              *)
LEMMA StandStillStep ==
  ASSUME RInv, [RestartNext]_<<vars, past>>, NEW o \in Orders, o \in stranded
  PROVE  status'[o] \in {status[o], "delivered"}
<1>0. TypeOK /\ EntryThere /\ NothingForStranded
  BY DEF RInv, RTypeOK
<1>1. ASSUME NEW q \in Orders, NEW s, Update_Order_Status(q, s),
             q # o \/ s = "delivered"
      PROVE  status'[o] \in {status[o], "delivered"}
  BY <1>0, <1>1 DEF Update_Order_Status, TypeOK
<1>2. ASSUME NEW m \in Msg, ReceiveDelivered(m)
      PROVE  status'[o] \in {status[o], "delivered"}
  BY <1>1, <1>2 DEF ReceiveDelivered, Msg
<1>3. CASE [Next]_vars
  <2>1. CASE MarkPacking
    BY <1>0, <1>1, <2>1, HereIsFresh DEF MarkPacking, EntryThere
  <2>2. ASSUME NEW m \in Msg, m.ship \notin stranded, ReceiveLoaded(m)
        PROVE  status'[o] \in {status[o], "delivered"}
    BY <1>1, <2>2 DEF ReceiveLoaded, Msg
  <2>3. ASSUME NEW p \in packers, StartPacker(p) \/ LoadPackage(p)
        PROVE  status'[o] \in {status[o], "delivered"}
    <3>1. p.m.ship \in Orders /\ p.m.ship # o
      BY <1>0 DEF TypeOK, NothingForStranded, Msg
    <3> QED
      BY <1>1, <2>3, <3>1 DEF StartPacker, LoadPackage
  <2> QED
    BY <1>2, <1>3, <2>1, <2>2, <2>3, AnswersAreFresh
<1>4. CASE Crash
  BY <1>4 DEF Crash
<1>5. CASE OldAnswer
  <2>1. PICK m \in Msg : ReceiveTruckArrived(m) \/ ReceiveDelivered(m)
    BY <1>5 DEF OldAnswer, RInv, RTypeOK
  <2> QED
    BY <1>2, <2>1 DEF ReceiveTruckArrived
<1> QED
  BY <1>3, <1>4, <1>5 DEF RestartNext

(* The status of an order the server has forgotten stands still, unless    *)
(* UPS says that it was delivered.                                         *)
THEOREM StrandedStay == RestartSpec => StrandedStandStill
<1>1. RInv /\ [RestartNext]_<<vars, past>> =>
        [\A o \in stranded : status'[o] \in {status[o], "delivered"}]_<<vars, past>>
  BY StandStillStep DEF RInv, RTypeOK
<1> QED
  BY <1>1, RInvInit, RInvStep, PTL DEF RestartSpec, StrandedStandStill

-----------------------------------------------------------------------------
(* The order pipeline over restarts.  What it relies on within one run     *)
(* holds of every run: a crash leaves nothing that could break it, and a   *)
(* late answer of UPS sets a bit and is at most the truck that it says.    *)

LEMMA OldAnswerEffect ==
  ASSUME RTypeOK, OldAnswer
  PROVE  \E m \in leftover :
           /\ m \in Msg /\ m.kind \in {"pickupreq", "loaded"}
           /\ recv_acks' = recv_acks \cup {m}
           /\ UNCHANGED <<front, purchase_request_list, purchase_mutex, sent,
                          world, packers, past>>
           /\ \/ /\ m.kind = "pickupreq" /\ UNCHANGED status
                 /\ \A o \in Orders \ {m.ship} :
                      shipid_to_truckid'[o] = shipid_to_truckid[o]
              \/ /\ m.kind = "loaded" /\ UNCHANGED shipid_to_truckid
                 /\ Update_Order_Status(m.ship, "delivered")
BY DEF OldAnswer, RTypeOK, TypeOK, past, intake, ReceiveTruckArrived,
       ReceiveDelivered

LEMMA OInvCrash ==
  ASSUME RTypeOK, Crash
  PROVE  OInv'
<1>1. TypeOK'
  BY CrashType DEF RTypeOK
<1>2. /\ world'.pc = "idle" /\ packers' = {} /\ recv_acks' = {}
      /\ \A k \in Kinds, o \in Orders : sent'[k][o] = 0
      /\ \A w \in Warehouses : purchase_request_list'[w] = <<>>
      /\ \A o \in Orders : shipid_to_truckid'[o] = NoTruck
  BY DEF Crash, IdleWorld
<1>3. IInv'
  BY <1>1, <1>2, KindNames
  DEF IInv, MutexHeld, ListedAtHome, EntryInHand, ArrivalSeen, PackersBelong,
      TrucksAnswered, CauseChain
<1>4. SentDone' /\ PackersDone' /\ HandDone' /\ ListedDone'
  BY <1>2 DEF SentDone, PackersDone, HandDone, ListedDone
<1>5. /\ BuyOnce' /\ ListedOnce' /\ HandOnce' /\ PackOnce'
      /\ PackersOnce' /\ LoadOnce' /\ LoadedOnce'
  BY <1>2, KindNames
  DEF BuyOnce, ListedOnce, HandOnce, PackOnce, PackersOnce, LoadOnce, LoadedOnce
<1> QED
  BY <1>3, <1>4, <1>5 DEF OInv, DInv

LEMMA OInvOldAnswer ==
  ASSUME RTypeOK, OInv, OldAnswer
  PROVE  OInv'
<1>1. PICK m \in Msg :
        /\ m.kind \in {"pickupreq", "loaded"}
        /\ recv_acks' = recv_acks \cup {m}
        /\ UNCHANGED <<front, purchase_request_list, purchase_mutex, sent,
                       world, packers>>
        /\ \/ /\ m.kind = "pickupreq"
              /\ \A o \in Orders \ {m.ship} :
                   shipid_to_truckid'[o] = shipid_to_truckid[o]
           \/ UNCHANGED shipid_to_truckid
  BY OldAnswerEffect
<1>2. TypeOK'
  <2>1. PICK x \in Msg : ReceiveTruckArrived(x) \/ ReceiveDelivered(x)
    BY DEF OldAnswer, RTypeOK
  <2> QED
    BY <2>1, TruckType, DeliveredType DEF RTypeOK
<1>3. \A k, o : Answered(k, o) => Answered(k, o)'
  BY <1>1 DEF Answered
<1>4. Requests' = Requests /\ Here' = Here /\ \A i : Passed(i)' <=> Passed(i)
  BY <1>1 DEF Requests, Here, Passed
<1>5. IInv'
  <2>1. /\ MutexHeld /\ ListedAtHome /\ EntryInHand /\ ArrivalSeen
        /\ PackersBelong /\ TrucksAnswered /\ CauseChain
    BY DEF OInv, DInv, IInv
  <2>2. MutexHeld' /\ ListedAtHome' /\ EntryInHand'
    BY <1>1, <1>4, <2>1 DEF MutexHeld, ListedAtHome, EntryInHand
  <2>3. ArrivalSeen' /\ PackersBelong'
    BY <1>1, <2>1 DEF ArrivalSeen, PackersBelong
  <2>4. TrucksAnswered'
    <3>1. m.kind = "pickupreq" => Answered("pickupreq", m.ship)'
      BY <1>1 DEF Answered
    <3> QED
      BY <1>1, <1>3, <2>1, <3>1 DEF TrucksAnswered
  <2>5. CauseChain'
    BY <1>1, <1>3, <2>1 DEF CauseChain
  <2> QED
    BY <1>2, <2>2, <2>3, <2>4, <2>5 DEF IInv
<1>6. SentDone' /\ PackersDone' /\ HandDone' /\ ListedDone'
  BY <1>1 DEF OInv, DInv, SentDone, PackersDone, HandDone, ListedDone
<1>7. BuyOnce' /\ ListedOnce' /\ PackOnce' /\ PackersOnce' /\ LoadOnce' /\ LoadedOnce'
  BY <1>1
  DEF OInv, BuyOnce, ListedOnce, PackOnce, PackersOnce, LoadOnce, LoadedOnce
<1>8. HandOnce'
  BY <1>1, <1>4 DEF OInv, HandOnce
<1> QED
  BY <1>5, <1>6, <1>7, <1>8 DEF OInv, DInv

(* However often the server is killed, no run of it buys, packs, loads or  *)
(* announces anything twice for an order, unless answers come twice or     *)
(* orders are alike.                                                       *)
THEOREM ShippedOncePerRun ==
  ASSUME MaxResends = 0, Different
  PROVE  RestartSpec => []OneShipment
<1>1. RestartInit => RInv /\ OInv
  BY RInvInit, OInvInit DEF RestartInit
<1>2. RInv /\ OInv /\ [RestartNext]_<<vars, past>> => (RInv /\ OInv)'
  <2> SUFFICES ASSUME RInv, OInv, [RestartNext]_<<vars, past>>
               PROVE  OInv'
    BY RInvStep
  <2>1. CASE [Next]_vars
    BY <2>1, OInvStep
  <2>2. CASE Crash \/ OldAnswer
    BY <2>2, OInvCrash, OInvOldAnswer DEF RInv
  <2> QED
    BY <2>1, <2>2 DEF RestartNext
<1> QED
  BY <1>1, <1>2, OInvShips, PTL DEF RestartSpec
-----------------------------------------------------------------------------
(* The status column over restarts.  The stages of a run are those of the  *)
(* orders that came in since the server was started.                       *)
Fresh == Orders \ stranded

(* UPS owes answers for stranded orders only, and a delivery only where    *)
(* the column says that the package is on its way, if no update fails.     *)
OldOnTheWay ==
  \A m \in leftover :
    /\ m.ship \in stranded
    /\ DbMayFail = FALSE /\ m.kind = "loaded" =>
         status[m.ship] \in {"delivering", "delivered"}

RLInv == RInv /\ LInv(Fresh) /\ OldOnTheWay

LEMMA RLInvInit == RestartInit => RLInv
<1> SUFFICES ASSUME RestartInit
             PROVE  RLInv
  OBVIOUS
<1>1. RInv /\ Init /\ leftover = {}
  BY RInvInit DEF RestartInit
<1>2. LInv(Fresh)
  <2>1. PICK S \in SUBSET Orders : S = Fresh
    BY DEF Fresh
  <2>2. LInv(S)
    BY <1>1, LInvInit
  <2> QED
    BY <2>1, <2>2
<1> QED
  BY <1>1, <1>2 DEF RLInv, OldOnTheWay

(* The invariant of a run, as long as the set of its orders is the same.   *)
LEMMA SameRun ==
  ASSUME NEW S, LInv(S)', S = Fresh'
  PROVE  LInv(Fresh)'
BY DEF LInv, BitsAsked, MarkingFirst, StagesFollow

(* A turn is a turn of an order of this run.                               *)
LEMMA TurnIsFresh ==
  ASSUME RInv, NEW o \in Orders, Turn(o)
  PROVE  o \in Fresh
<1>0. TypeOK /\ EntryThere /\ NothingForStranded
  BY DEF RInv, RTypeOK
<1>1. CASE MarkPacking /\ Here = o
  BY <1>0, <1>1, HereIsFresh DEF MarkPacking, EntryThere, Fresh
<1>2. ASSUME NEW p \in packers, p.m.ship = o
      PROVE  o \in Fresh
  BY <1>0, <1>2 DEF NothingForStranded, Fresh
<1>3. ASSUME NEW m \in Msg, m.ship = o, Asked(m)
      PROVE  o \in Fresh
  <2>1. m.kind \in Kinds
    BY DEF Msg
  <2>2. sent[m.kind][o] # 0
    BY <1>3 DEF Asked
  <2> QED
    BY <1>0, <2>1, <2>2 DEF NothingForStranded, Fresh
<1> QED
  BY <1>1, <1>2, <1>3 DEF Turn

(* A step takes one order to its next stage, if any, or fails to say so.   *)
LEMMA RunAdvances ==
  ASSUME MaxResends = 0, Different, RLInv, [Next]_vars, UNCHANGED past
  PROVE  /\ LInv(Fresh)' /\ OldOnTheWay'
         /\ NoneGoesBack /\ (DbMayFail = FALSE => [LC!Next]_status)
<1>0. RInv /\ LInv(Fresh) /\ OldOnTheWay
  BY DEF RLInv
<1>1. PICK S \in SUBSET Orders : S = Fresh
  BY DEF Fresh
<1>2. LInv(S) /\ S = Fresh'
  BY <1>0, <1>1 DEF Fresh, past
<1>3. LInv(Fresh)'
  BY <1>2, LInvStep, SameRun
<1>4. OldOnTheWay'
  <2>1. stranded' = stranded /\ leftover' = leftover /\ stranded \subseteq Orders
    BY <1>0 DEF past, RInv, RTypeOK
  <2>2. \A o \in stranded : status'[o] \in {status[o], "delivered"}
    BY <1>0, <2>1, StandStillStep DEF RestartNext
  <2> QED
    BY <1>0, <2>1, <2>2 DEF OldOnTheWay
<1>5. NoneGoesBack /\ (DbMayFail = FALSE => [LC!Next]_status)
  BY <1>0, <1>1, <1>2, TurnIsFresh, AdvanceStep
<1> QED
  BY <1>3, <1>4, <1>5

LEMMA CrashAdvances ==
  ASSUME RLInv, Crash
  PROVE  LInv(Fresh)' /\ OldOnTheWay' /\ UNCHANGED status
<1>0. /\ RInv /\ LInv(Fresh) /\ OldOnTheWay /\ RTypeOK /\ TypeOK
      /\ StrandedIsOver /\ NothingForStranded /\ SentDone
      /\ StagesFollow(Fresh) /\ BitsAsked(Fresh)
  BY DEF RLInv, RInv, RTypeOK, LInv, OInv, DInv
<1>1. /\ world'.pc = "idle" /\ packers' = {} /\ recv_acks' = {}
      /\ \A k \in Kinds, o \in Orders : sent'[k][o] = 0
      /\ status' = status
      /\ stranded' = {o \in Orders : front[o] # "absent"}
      /\ leftover' = leftover \cup AskedOfUps
  BY DEF Crash, IdleWorld
<1>2. PICK S \in SUBSET Orders : S = Fresh
  BY DEF Fresh
<1>3. LInv(S) /\ \A o \in S : Stage(o)
  BY <1>0, <1>2 DEF StagesFollow
<1>4. ASSUME NEW o \in Orders, o \notin S
      PROVE  front[o] = "done" /\ \A k \in Kinds : sent[k][o] = 0
  BY <1>0, <1>2, <1>4 DEF Fresh, StrandedIsOver, NothingForStranded
<1>5. LInv(Fresh)'
  <2>1. ASSUME NEW o \in Fresh'
        PROVE  o \in Orders /\ Says(o, "ordered")
    <3>1. o \in Orders /\ front[o] = "absent"
      BY <1>1, <2>1 DEF Fresh
    <3>2. o \in S
      BY <1>4, <3>1
    <3>3. sent["topack"][o] \in Nat /\ ~(sent["topack"][o] > 0)
      BY <1>0, <3>1, KindNames DEF SentDone, TypeOK
    <3>4. sent["topack"][o] = 0
      BY <3>3
    <3> QED
      BY <1>3, <3>1, <3>2, <3>4 DEF Stage
  <2>2. \A o \in Fresh' : Stage(o)'
    <3> SUFFICES ASSUME NEW o \in Fresh'
                 PROVE  Stage(o)'
      OBVIOUS
    <3>1. Says(o, "ordered")' /\ o \in Orders
      BY <1>1, <2>1 DEF Says, UpTo
    <3> QED
      BY <1>1, <3>1, KindNames DEF Stage, Marking
  <2>3. OInv'
    BY <1>0, OInvCrash
  <2> QED
    BY <1>1, <2>2, <2>3
    DEF LInv, BitsAsked, PackersNew, MarkingFirst, StagesFollow, Marking
<1>6. OldOnTheWay'
  <2> SUFFICES ASSUME NEW m \in leftover'
               PROVE  /\ m.ship \in stranded'
                      /\ DbMayFail = FALSE /\ m.kind = "loaded" =>
                           status[m.ship] \in {"delivering", "delivered"}
    BY <1>1 DEF OldOnTheWay
  <2>1. CASE m \in leftover
    <3>1. m.ship \in stranded /\ m.ship \in Orders
      BY <1>0, <2>1 DEF OldOnTheWay, RTypeOK
    <3>2. front[m.ship] # "absent"
      BY <1>0, <3>1 DEF StrandedIsOver
    <3> QED
      BY <1>0, <1>1, <2>1, <3>1, <3>2 DEF OldOnTheWay
  <2>2. CASE m \in AskedOfUps
    <3>0. PICK k \in Kinds \ WorldKinds, o \in Orders :
            \E i \in 1..sent[k][o] : m = Cmd(k, o, i)
      BY <2>2 DEF AskedOfUps
    <3>1. PICK i \in 1..sent[k][o] : m = Cmd(k, o, i)
      BY <3>0
    <3>2. m.kind = k /\ m.ship = o
      BY <3>1 DEF Cmd
    <3>3. sent[k][o] \in Nat
      BY <1>0 DEF TypeOK
    <3>4. sent[k][o] > 0
      BY <3>1, <3>3
    <3>5. o \in stranded'
      BY <1>0, <1>1, <3>4 DEF SentDone
    <3>6. o \in S
      BY <1>4, <3>4
    <3>7. DbMayFail = FALSE /\ k = "loaded" =>
            status[o] \in {"delivering", "delivered"}
      BY <1>3, <3>4, <3>6, StageOrder DEF Stage, Says
    <3> QED
      BY <3>2, <3>5, <3>7
  <2> QED
    BY <1>1, <2>1, <2>2
<1> QED
  BY <1>1, <1>5, <1>6

LEMMA OldAnswerAdvances ==
  ASSUME RLInv, OldAnswer
  PROVE  /\ LInv(Fresh)' /\ OldOnTheWay'
         /\ NoneGoesBack /\ (DbMayFail = FALSE => [LC!Next]_status)
<1>0. /\ RInv /\ LInv(Fresh) /\ OldOnTheWay /\ RTypeOK /\ TypeOK
      /\ OInv /\ PackersBelong /\ PackersNew
  BY DEF RLInv, RInv, RTypeOK, LInv, OInv, DInv, IInv
<1>1. PICK m \in leftover :
        /\ m \in Msg /\ m.kind \in {"pickupreq", "loaded"}
        /\ recv_acks' = recv_acks \cup {m}
        /\ UNCHANGED <<front, purchase_request_list, purchase_mutex, sent,
                       world, packers, past>>
        /\ \/ UNCHANGED status
           \/ m.kind = "loaded" /\ Update_Order_Status(m.ship, "delivered")
  BY <1>0, OldAnswerEffect
<1>2. m.ship \in stranded /\ m.ship \in Orders
  BY <1>0, <1>1 DEF OldOnTheWay, RTypeOK
<1>3. \/ UNCHANGED status
      \/ /\ status' = [status EXCEPT ![m.ship] = "delivered"]
         /\ DbMayFail = FALSE => status[m.ship] \in {"delivering", "delivered"}
  BY <1>0, <1>1 DEF Update_Order_Status, OldOnTheWay
<1>4. /\ stranded' = stranded /\ leftover' = leftover /\ Fresh' = Fresh
  BY <1>1 DEF past, Fresh
<1>5. ASSUME NEW o \in Fresh
      PROVE  /\ (\A x : Says(o, x)' <=> Says(o, x)) /\ (Marking(o)' <=> Marking(o))
             /\ \A k, i : Cmd(k, o, i) \in recv_acks' <=> Cmd(k, o, i) \in recv_acks
  <2>1. o # m.ship
    BY <1>2 DEF Fresh
  <2>2. \A k, i : Cmd(k, o, i).ship = o
    BY DEF Cmd
  <2>3. Marking(o)' <=> Marking(o)
    BY <1>1 DEF Marking, Here, Requests
  <2>4. status'[o] = status[o]
    BY <1>0, <1>3, <2>1 DEF TypeOK, Fresh
  <2>5. \A x : Says(o, x)' <=> Says(o, x)
    BY <2>4 DEF Says, UpTo
  <2> QED
    BY <1>1, <2>1, <2>2, <2>3, <2>5
<1>6. StagesFollow(Fresh)'
  <2>1. ASSUME NEW o \in Fresh
        PROVE  Stage(o)'
    <3>1. Stage(o)
      BY <1>0 DEF LInv, StagesFollow
    <3> QED
      BY <1>1, <1>5, <3>1 DEF Stage
  <2> QED
    BY <1>4, <2>1 DEF StagesFollow
<1>7. BitsAsked(Fresh)'
  <2>1. m.ship \notin Fresh
    BY <1>2 DEF Fresh
  <2>2. \A x : Asked(x)' <=> Asked(x)
    BY <1>1 DEF Asked
  <2> QED
    BY <1>0, <1>1, <1>4, <2>1, <2>2 DEF LInv, BitsAsked
<1>8. MarkingFirst(Fresh)'
  BY <1>0, <1>1, <1>4, <1>5 DEF LInv, MarkingFirst
<1>9. PackersNew'
  <2>1. \A p \in packers : p.m # m
    BY <1>0, <1>1 DEF PackersBelong
  <2> QED
    BY <1>0, <1>1, <2>1 DEF PackersNew, Asked
<1>10. LInv(Fresh)'
  BY <1>0, <1>6, <1>7, <1>8, <1>9, OInvOldAnswer DEF LInv
<1>11. OldOnTheWay'
  BY <1>0, <1>3, <1>4 DEF OldOnTheWay, RTypeOK, TypeOK
<1>12. NoneGoesBack /\ (DbMayFail = FALSE => [LC!Next]_status)
  <2>0. status \in [Orders -> LC!Status] /\ \A o \in Orders : LC!Rank(status[o]) \in 1..6
    BY <1>0, RankType DEF TypeOK
  <2>1. CASE UNCHANGED status
    BY <2>0, <2>1, StandsStill
  <2>2. CASE status' = [status EXCEPT ![m.ship] = "delivered"]
    <3>1. NoneGoesBack
      BY <2>0, <2>2, Ranks DEF NoneGoesBack
    <3>2. ASSUME DbMayFail = FALSE
          PROVE  [LC!Next]_status
      <4>1. CASE status[m.ship] = "delivered"
        BY <2>0, <2>2, <4>1
      <4>2. CASE status[m.ship] = "delivering"
        <5>1. /\ "delivered" \in LC!Status
              /\ LC!Rank("delivered") = LC!Rank(status[m.ship]) + 1
          BY <4>2, Ranks, StatusNames
        <5>2. LC!Advance(m.ship)
          BY <2>2, <5>1 DEF LC!Advance
        <5> QED
          BY <1>2, <5>2 DEF LC!Next
      <4> QED
        BY <1>3, <2>2, <3>2, <4>1, <4>2
    <3> QED
      BY <3>1, <3>2
  <2> QED
    BY <1>3, <2>1, <2>2
<1> QED
  BY <1>10, <1>11, <1>12

LEMMA RLInvStep ==
  ASSUME MaxResends = 0, Different, RLInv, [RestartNext]_<<vars, past>>
  PROVE  /\ RLInv'
         /\ NoneGoesBack /\ (DbMayFail = FALSE => [LC!Next]_status)
<1>1. RInv'
  BY RInvStep DEF RLInv
<1>2. CASE [Next]_vars /\ UNCHANGED past
  BY <1>1, <1>2, RunAdvances DEF RLInv
<1>3. CASE Crash
  <2>1. status \in [Orders -> LC!Status]
    BY DEF RLInv, RInv, RTypeOK, TypeOK
  <2> QED
    BY <1>1, <1>3, <2>1, CrashAdvances, StandsStill DEF RLInv
<1>4. CASE OldAnswer
  BY <1>1, <1>4, OldAnswerAdvances DEF RLInv
<1> QED
  BY <1>2, <1>3, <1>4 DEF RestartNext

(* The pipeline implements the life cycle over restarts too: what a run    *)
(* left unfinished stands still, and a late delivery finds the package on  *)
(* its way - where no answer comes twice within a run, no two orders are   *)
(* alike and no update fails.                                              *)
THEOREM FollowsLifecycleOverRestarts ==
  ASSUME MaxResends = 0, Different, DbMayFail = FALSE
  PROVE  RestartSpec => Lifecycle
<1>1. RestartInit => LC!Init
  BY DEF RestartInit, Init
<1>2. RLInv /\ [RestartNext]_<<vars, past>> => RLInv' /\ [LC!Next]_status
  BY RLInvStep
<1> QED
  BY <1>1, <1>2, RLInvInit, PTL DEF RestartSpec, Lifecycle, LC!Spec

(* The column goes back in no restart either, and not where updates fail:  *)
(* a new run knows nothing of the orders that are further on their way     *)
(* than it could say.                                                      *)
THEOREM StatusNeverGoesBackOverRestarts ==
  ASSUME MaxResends = 0, Different
  PROVE  RestartSpec => [][NoneGoesBack]_<<vars, past>>
<1>1. RLInv /\ [RestartNext]_<<vars, past>> =>
        RLInv' /\ [NoneGoesBack]_<<vars, past>>
  BY RLInvStep
<1> QED
  BY <1>1, RLInvInit, PTL DEF RestartSpec

=============================================================================
