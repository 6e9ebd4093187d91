---------------------------- MODULE IntakeProofs ----------------------------
(***************************************************************************)
(* Theorems about Startup, for any number of lost worlds and restarts, and *)
(* about Intake, for any number of orders, parts and descriptors.          *)
(***************************************************************************)
EXTENDS Intake, TLAPS


(* Past the World, main has the id of the newest world; past accept, UPS   *)
(* has been told the same id.                                              *)
NewestKnown ==
  /\ pc # "world" => world_id = worlds
  /\ pc \in {"confirm", "running"} => ups_world = world_id
  /\ pc = "running" => ups = "joined"

(* Of all sockets of this run, only the first ever has the port, and it is *)
(* served by accept once.                                                  *)
PortSpent ==
  /\ failed => /\ port \in {"listening", "orphaned"}
               /\ pc \notin {"confirm", "running"}
               /\ pc = "accept" => port = "orphaned"
  /\ pc \in {"confirm", "running"} => port = "listening"

IInv == TypeOK /\ NewestKnown /\ PortSpent
-----------------------------------------------------------------------------
LEMMA InvInit == Init => IInv
<1> SUFFICES ASSUME Init PROVE IInv
  OBVIOUS
<1>1. TypeOK
  <2>1. 0 \in 0..MaxLost /\ 0 \in 0..MaxRestarts
    BY StartupAssumption
  <2> QED BY <2>1 DEF Init, TypeOK, NoWorld
<1>n. NewestKnown
  BY DEF Init, NewestKnown, NoWorld
<1>2. ~failed /\ pc = "world"
  BY DEF Init
<1>3. PortSpent
  BY <1>2 DEF PortSpent
<1> QED BY <1>1, <1>n, <1>3 DEF IInv

LEMMA InvStep == IInv /\ [Next]_vars => IInv'
<1> SUFFICES ASSUME IInv, [Next]_vars PROVE IInv'
  OBVIOUS
<1> USE StartupAssumption DEF IInv, TypeOK, NewestKnown, PortSpent, NoWorld
<1>1. CASE ConnectWorld
  BY <1>1 DEF ConnectWorld, NewWorld
<1>2. CASE LoseWorld
  BY <1>2 DEF LoseWorld
<1>3. CASE Listen
  BY <1>3 DEF Listen, PortAfterBind
<1>4. CASE Accept
  BY <1>4 DEF Accept
<1>5. CASE Confirmed
  BY <1>5 DEF Confirmed
<1>6. CASE HandshakeFails
  BY <1>6 DEF HandshakeFails, PortAfterFailure
<1>7. CASE UpsCalls
  BY <1>7 DEF UpsCalls
<1>8. CASE UpsJoins
  BY <1>8 DEF UpsJoins
<1>9. CASE Restart
  <2>1. ~failed' /\ pc' = "world"
    BY <1>9 DEF Restart
  <2>2. PortSpent'
    BY <2>1
  <2>3. restarts' \in 0..MaxRestarts
    <3>1. restarts \in 0..MaxRestarts /\ MaxRestarts \in Nat
      OBVIOUS
    <3>2. restarts < MaxRestarts /\ restarts' = restarts + 1
      BY <1>9 DEF Restart
    <3> QED BY <3>1, <3>2
  <2>4. TypeOK'
    BY <1>9, <2>3 DEF Restart, PortAfterKill
  <2>5. NewestKnown'
    BY <1>9 DEF Restart
  <2> QED BY <2>2, <2>4, <2>5
<1>10. CASE PortExpires
  BY <1>10 DEF PortExpires
<1>11. CASE UNCHANGED vars
  BY <1>11 DEF vars
<1> QED BY <1>1, <1>2, <1>3, <1>4, <1>5, <1>6, <1>7, <1>8, <1>9, <1>10, <1>11
        DEF Next, Main

(* The threads never start with the World and UPS in different worlds.     *)
THEOREM StartsInSameWorld == Spec => []SameWorld
<1>1. IInv => SameWorld
  BY DEF IInv, NewestKnown, SameWorld
<1> QED BY <1>1, InvInit, InvStep, PTL DEF Spec

(* After a failed handshake this run of the server never starts its        *)
(* threads: what the retry loop of main is for cannot succeed.             *)
THEOREM RetryIsFutile == Spec => []NoSecondChance
<1>1. IInv => NoSecondChance
  BY DEF IInv, PortSpent, NoSecondChance
<1> QED BY <1>1, InvInit, InvStep, PTL DEF Spec
-----------------------------------------------------------------------------

(* The types of Intake's own variables.                                    *)
ITypes ==
  /\ door \in {"free", "held", "open", "missed"}
  /\ shop \in [Orders -> {"none", "saved", "sending", "sent", "failed", "died"}]
  /\ {text, got} \subseteq [Orders -> Nat]
  /\ \A o \in Orders : {text[o], got[o]} \subseteq 0..parts[o]
  /\ stream \in [Orders -> {"open", "ended", "reset"}]
  /\ thread \in [Orders -> {"none", "queued", "first", "more", "left",
                            "processed", "killed"}]

(* Before the shop connects there is nothing on the server's side, and     *)
(* before the first recv nothing has been read.                            *)
NotBegun(o) ==
  /\ shop[o] \in {"none", "saved"} => thread[o] = "none" /\ stream[o] = "open"
  /\ thread[o] \in {"none", "queued", "first"} => got[o] = 0
  /\ thread[o] = "none" => shop[o] \in {"none", "saved", "failed"}

(* A stream ends with a whole text, or because its writer died; it is      *)
(* reset because its writer died, or the server.                           *)
EndExplained(o) ==
  /\ stream[o] = "ended" =>
       shop[o] = "died" \/ (shop[o] = "sent" /\ text[o] = parts[o])
  /\ stream[o] = "reset" => shop[o] = "died" \/ thread[o] = "killed"

Explained(o) ==
  /\ NotBegun(o) /\ EndExplained(o)
  /\ thread[o] = "processed" => got[o] = parts[o] /\ shop[o] \in {"sent", "died"}
  /\ thread[o] = "left" => shop[o] = "died" \/ (o \in Unfit /\ got[o] = parts[o])

IntakeInv == IInv /\ ITypes /\ \A o \in Orders : Explained(o)
-----------------------------------------------------------------------------
LEMMA IntakeInvInit == IntakeInit => IntakeInv
<1> SUFFICES ASSUME IntakeInit
             PROVE  IntakeInv
  OBVIOUS
<1>1. IInv
  BY InvInit DEF IntakeInit
<1>2. ITypes
  BY IntakeAssumption DEF IntakeInit, ITypes
<1>3. ASSUME NEW o \in Orders
      PROVE  Explained(o)
  BY DEF IntakeInit, Explained, NotBegun, EndExplained
<1> QED
  BY <1>1, <1>2, <1>3 DEF IntakeInv

(* What happens in Startup's part of the state is a step of Startup.       *)
LEMMA StartupStep == [IntakeNext]_<<vars, ivars>> => [Next]_vars
BY DEF IntakeNext, Next, Kill, Crash, vars

(* A step of the shop or of a thread changes one order.                    *)
LEMMA ExplainedStep ==
  ASSUME ITypes, NEW o \in Orders, Explained(o), NEW q \in Orders,
         \/ Save(q) \/ Shop(q) \/ Die(q) \/ AcceptOrder(q) \/ Thread(q)
  PROVE  ITypes' /\ Explained(o)'
<1> USE IntakeAssumption
        DEF ITypes, Explained, NotBegun, EndExplained, ShopGoes, ThreadGoes
<1>1. CASE Save(q)
  BY <1>1 DEF Save
<1>2. CASE Connect(q)
  BY <1>2 DEF Connect
<1>3. CASE Write(q)
  <2>1. text[q] + 1 \in 0..parts[q]
    BY <1>3 DEF Write
  <2> QED
    BY <1>3, <2>1 DEF Write
<1>4. CASE Close(q)
  BY <1>4 DEF Close
<1>5. CASE WriteFails(q)
  BY <1>5 DEF WriteFails
<1>6. CASE Die(q)
  BY <1>6 DEF Die
<1>7. CASE AcceptOrder(q)
  BY <1>7 DEF AcceptOrder
<1>8. CASE Recv(q)
  BY <1>8 DEF Recv, AppendNew
<1>9. CASE LeaveOpen(q)
  BY <1>9 DEF LeaveOpen, NothingLeft
<1>10. CASE Process(q)
  BY <1>10 DEF Process, AtEnd, TextIsWhole
<1>11. CASE ProcessThrows(q)
  BY <1>11 DEF ProcessThrows, AtEnd, TextIsWhole
<1> QED
  BY <1>1, <1>2, <1>3, <1>4, <1>5, <1>6, <1>7, <1>8, <1>9, <1>10, <1>11
  DEF Shop, Thread

LEMMA ExplainedKill ==
  ASSUME ITypes, \A o \in Orders : Explained(o), Kill
  PROVE  ITypes' /\ \A o \in Orders : Explained(o)'
<1>1. ITypes'
  <2>1. \A o \in Orders : 0 \in 0..parts[o]
    BY IntakeAssumption
  <2>2. \A o \in Orders : {text'[o], got'[o]} \subseteq 0..parts[o]
    BY <2>1 DEF Kill, ITypes
  <2>3. {text', got'} \subseteq [Orders -> Nat]
    BY DEF Kill, ITypes
  <2> QED
    BY <2>2, <2>3 DEF Kill, DoorAfterKill, ITypes
<1>2. ASSUME NEW o \in Orders
      PROVE  Explained(o)'
  BY DEF Kill, Connected, ITypes, Explained, NotBegun, EndExplained
<1> QED
  BY <1>1, <1>2

LEMMA IntakeInvStep == IntakeInv /\ [IntakeNext]_<<vars, ivars>> => IntakeInv'
<1> SUFFICES ASSUME IntakeInv, [IntakeNext]_<<vars, ivars>>
             PROVE  IntakeInv'
  OBVIOUS
<1>1. IInv'
  BY StartupStep, InvStep DEF IntakeInv
<1>2. CASE UNCHANGED ivars
  BY <1>1, <1>2
  DEF IntakeInv, ITypes, Explained, NotBegun, EndExplained, ivars
<1>3. CASE Kill
  BY <1>1, <1>3, ExplainedKill DEF IntakeInv
<1>4. CASE OpenDoor \/ DoorExpires
  BY <1>1, <1>4
  DEF IntakeInv, ITypes, Explained, NotBegun, EndExplained, OpenDoor, DoorExpires
<1>5. ASSUME NEW q \in Orders,
             Save(q) \/ Shop(q) \/ Die(q) \/ AcceptOrder(q) \/ Thread(q)
      PROVE  IntakeInv'
  BY <1>1, <1>5, ExplainedStep DEF IntakeInv
<1> QED
  BY <1>2, <1>3, <1>4, <1>5 DEF IntakeNext, Crash
-----------------------------------------------------------------------------
(* Shop, connections and threads keep their types.                         *)
THEOREM IntakeTypeCorrect == IntakeSpec => []IntakeTypeOK
<1>1. IntakeInv => IntakeTypeOK
  BY DEF IntakeInv, IInv, ITypes, IntakeTypeOK
<1> QED
  BY <1>1, IntakeInvInit, IntakeInvStep, PTL DEF IntakeSpec

(* An order is processed whole or not at all, whoever is killed while it   *)
(* is on its way.                                                          *)
THEOREM OrdersComeInWhole == IntakeSpec => []ProcessedIsWhole
<1>1. IntakeInv => ProcessedIsWhole
  BY DEF IntakeInv, Explained, ProcessedIsWhole
<1> QED
  BY <1>1, IntakeInvInit, IntakeInvStep, PTL DEF IntakeSpec

(* The server loses a descriptor only to a request that died or to a whole *)
(* text that cannot be handled, and meets a text that ends its process     *)
(* only from a request that died.                                          *)
THEOREM LeaksExplained == IntakeSpec => []OnlyBrokenHarm
<1>1. IntakeInv => OnlyBrokenHarm
  <2> SUFFICES ASSUME IntakeInv, NEW o \in Orders
               PROVE  /\ thread[o] = "left" =>
                           shop[o] = "died" \/ (o \in Unfit /\ got[o] = parts[o])
                      /\ AtEnd(o) /\ ~TextIsWhole(o) => shop[o] = "died"
    BY DEF OnlyBrokenHarm
  <2> QED
    BY DEF IntakeInv, Explained, EndExplained, AtEnd, TextIsWhole
<1> QED
  BY <1>1, IntakeInvInit, IntakeInvStep, PTL DEF IntakeSpec

(* With its front end the server comes up as Startup says, so that what is *)
(* proved of Startup holds of it.                                          *)
THEOREM IntakeIsStartup == IntakeSpec => Spec
<1>1. IntakeInit => Init
  BY DEF IntakeInit
<1> QED
  BY <1>1, StartupStep, PTL DEF IntakeSpec, Spec

=============================================================================
