---------------------------- MODULE OutboxProofs ----------------------------
(***************************************************************************)
(* Theorems about Outbox, for any number of commands, peers and bits.      *)
(***************************************************************************)
EXTENDS Outbox, TLAPS

(* The inductive invariant.                                                *)

(* A handler draws its number first and starts its sender last.            *)
InOrder ==
  \A c \in Commands :
    /\ handler[c] = "idle" <=> seq[c] = None
    /\ handler[c] = "done" <=> sender[c] # "none"

(* Numbers are drawn in ascending order, so that none is drawn twice.      *)
DrawnBelow ==
  \A c \in Commands : seq[c] # None => seq[c] < server_seq_num

(* A number on the wire is that of a command handed over.                  *)
WireIsHanded ==
  \A n \in wire : \E c \in Commands : seq[c] = n /\ sender[c] # "none"

(* A peer has carried out only what was handed over.                       *)
CarriedIsHanded == \A c \in carried_out : sender[c] # "none"

(* The numbers of the commands that were carried out.                      *)
Earned == {seq[c] : c \in carried_out}

(* Whatever looks like an acknowledgement - a bit, a bit in a word that    *)
(* some thread has loaded and may store back, a message on its way, the    *)
(* number a receiver is about to mark - is of a command carried out.       *)
AcksEarned ==
  /\ send_acks \subseteq Earned
  /\ acks \subseteq Earned
  /\ \A p \in Peers : receiver[p] # None => receiver[p] \in Earned
  /\ \A t \in Commands \cup Peers : word[t] \subseteq Earned

IInv == /\ TypeOK /\ InOrder
        /\ DrawnBelow /\ UniqueNumbers
        /\ WireIsHanded /\ CarriedIsHanded /\ AcksEarned
        /\ StoppedMeansCarriedOut
-----------------------------------------------------------------------------
LEMMA NoneIsNoBit == None \notin Bits
BY OutboxAssumption DEF Bits

LEMMA WordInBits ==
  ASSUME NEW s
  PROVE  Word(s) \subseteq Bits
BY DEF Word

LEMMA TypeInit == Init => TypeOK
BY OutboxAssumption DEF Init, TypeOK

LEMMA TypeStep == TypeOK /\ InOrder /\ [Next]_vars => TypeOK'
<1> SUFFICES ASSUME TypeOK, InOrder, [Next]_vars
             PROVE  TypeOK'
  OBVIOUS
<1>a. /\ seq \in [Commands -> Bits \cup {None}]
      /\ word \in [Commands \cup Peers -> SUBSET Bits]
      /\ send_acks \subseteq Bits /\ wire \subseteq Bits /\ acks \subseteq Bits
  BY DEF TypeOK
<1>1. ASSUME NEW c \in Commands, GetSeqNum(c)
      PROVE  TypeOK'
  <2>1. server_seq_num \in Bits /\ server_seq_num + 1 \in 0..AckBits
    BY <1>1, OutboxAssumption DEF TypeOK, GetSeqNum, Bits
  <2> QED
    BY <1>1, <2>1 DEF TypeOK, GetSeqNum, Increment
<1>2. ASSUME NEW c \in Commands, LoadToClear(c)
      PROVE  TypeOK'
  BY <1>2 DEF TypeOK, LoadToClear, Load
<1>3. ASSUME NEW c \in Commands, ClearAndStart(c)
      PROVE  TypeOK'
  <2>1. send_acks' \subseteq Bits
    BY <1>3, <1>a DEF ClearAndStart, StoreCleared, Store
  <2> QED
    BY <1>3, <2>1 DEF TypeOK, ClearAndStart
<1>4. ASSUME NEW c \in Commands, SendCopy(c)
      PROVE  TypeOK'
  <2>1. seq[c] \in Bits
    BY <1>4, <1>a DEF SendCopy, InOrder
  <2>2. wire' \subseteq Bits
    BY <1>4, <1>a, <2>1 DEF SendCopy
  <2> QED
    BY <1>4, <2>2 DEF TypeOK, SendCopy
<1>5. ASSUME NEW c \in Commands, StopSending(c) \/ SendFails(c)
      PROVE  TypeOK'
  BY <1>5 DEF TypeOK, StopSending, SendFails
<1>6. ASSUME NEW c \in Commands, PeerReceives(c)
      PROVE  TypeOK'
  BY <1>6 DEF TypeOK, PeerReceives
<1>7. ASSUME NEW c \in Commands, LoseCopy(c) \/ LoseAck(c)
      PROVE  TypeOK'
  BY <1>7 DEF TypeOK, LoseCopy, LoseAck
<1>8. ASSUME NEW c \in Commands, LoadToSet(c)
      PROVE  TypeOK'
  <2>1. to[c] \in Peers /\ seq[c] \in Bits
    BY <1>8, OutboxAssumption DEF LoadToSet, TypeOK
  <2>2. receiver' \in [Peers -> Bits \cup {None}]
    BY <1>8, <2>1 DEF LoadToSet, TypeOK
  <2> QED
    BY <1>8, <2>2 DEF TypeOK, LoadToSet, Load
<1>9. ASSUME NEW p \in Peers, SetBit(p)
      PROVE  TypeOK'
  <2>1. receiver[p] \in Bits
    BY <1>9 DEF SetBit, TypeOK
  <2>2. send_acks' \subseteq Bits
    BY <1>9, <1>a, <2>1 DEF SetBit, StoreSet, Store
  <2> QED
    BY <1>9, <2>2 DEF TypeOK, SetBit
<1>10. ASSUME NEW p \in Peers, ReceiverEnds(p)
       PROVE  TypeOK'
  BY <1>10 DEF TypeOK, ReceiverEnds
<1>11. CASE UNCHANGED vars
  BY <1>11 DEF TypeOK, vars
<1> QED
  BY <1>1, <1>2, <1>3, <1>4, <1>5, <1>6, <1>7, <1>8, <1>9, <1>10, <1>11
  DEF Next, Handler, Sender

LEMMA InOrderStep ==
  ASSUME TypeOK, InOrder, [Next]_vars
  PROVE  InOrder'
<1>1. ASSUME NEW c \in Commands, GetSeqNum(c)
      PROVE  InOrder'
  <2>1. server_seq_num # None
    BY OutboxAssumption DEF TypeOK
  <2> QED
    BY <1>1, <2>1 DEF TypeOK, InOrder, GetSeqNum
<1>2. ASSUME NEW c \in Commands, LoadToClear(c) \/ ClearAndStart(c)
      PROVE  InOrder'
  BY <1>2 DEF TypeOK, InOrder, LoadToClear, ClearAndStart
<1>3. ASSUME NEW c \in Commands, StopSending(c) \/ SendFails(c)
      PROVE  InOrder'
  BY <1>3 DEF TypeOK, InOrder, StopSending, SendFails
<1>4. CASE UNCHANGED <<seq, handler, sender>>
  BY <1>4 DEF InOrder
<1> QED
  BY <1>1, <1>2, <1>3, <1>4
  DEF Next, Handler, Sender, SendCopy, PeerReceives, LoseCopy, LoseAck,
      LoadToSet, SetBit, ReceiverEnds,
      vars

LEMMA NumbersStep ==
  ASSUME TypeOK, InOrder, DrawnBelow, UniqueNumbers, [Next]_vars
  PROVE  DrawnBelow' /\ UniqueNumbers'
<1>1. ASSUME NEW c \in Commands, GetSeqNum(c)
      PROVE  DrawnBelow' /\ UniqueNumbers'
  <2>1. /\ seq' = [seq EXCEPT ![c] = server_seq_num]
        /\ server_seq_num' = server_seq_num + 1
    BY <1>1 DEF GetSeqNum, Increment
  <2>2. server_seq_num \in Nat /\ server_seq_num # None
    BY OutboxAssumption DEF TypeOK
  <2>3. \A d \in Commands : seq[d] # None => seq[d] \in Nat
    BY DEF TypeOK, Bits
  <2>4. \A d \in Commands \ {c} : seq'[d] = seq[d]
    BY <2>1 DEF TypeOK
  <2>5. seq'[c] = server_seq_num
    BY <2>1 DEF TypeOK
  <2>6. DrawnBelow'
    BY <2>1, <2>2, <2>3, <2>4, <2>5 DEF DrawnBelow
  <2>7. UniqueNumbers'
    BY <2>2, <2>3, <2>4, <2>5 DEF DrawnBelow, UniqueNumbers
  <2> QED
    BY <2>6, <2>7
<1>2. CASE UNCHANGED <<seq, server_seq_num>>
  BY <1>2 DEF DrawnBelow, UniqueNumbers
<1> QED
  BY <1>1, <1>2
  DEF Next, Handler, Sender, LoadToClear, ClearAndStart, SendCopy,
      StopSending, SendFails, PeerReceives, LoseCopy, LoseAck, LoadToSet,
      SetBit, ReceiverEnds, vars

(* A command that was carried out keeps its number.                        *)
LEMMA EarnedStays ==
  ASSUME IInv, [Next]_vars
  PROVE  Earned \subseteq Earned'
<1> USE DEF IInv
<1>1. ASSUME NEW c \in Commands, GetSeqNum(c)
      PROVE  Earned \subseteq Earned'
  <2>1. c \notin carried_out
    BY <1>1 DEF GetSeqNum, CarriedIsHanded, InOrder
  <2>2. \A d \in carried_out : seq'[d] = seq[d]
    BY <1>1, <2>1 DEF GetSeqNum, TypeOK
  <2> QED
    BY <1>1, <2>2 DEF GetSeqNum, Earned
<1>2. CASE UNCHANGED seq /\ carried_out \subseteq carried_out'
  BY <1>2 DEF Earned
<1> QED
  BY <1>1, <1>2
  DEF Next, Handler, Sender, LoadToClear, ClearAndStart, SendCopy,
      StopSending, SendFails, PeerReceives, LoseCopy, LoseAck, LoadToSet,
      SetBit, ReceiverEnds, vars

LEMMA HandedStep ==
  ASSUME IInv, [Next]_vars
  PROVE  WireIsHanded' /\ CarriedIsHanded'
<1> USE DEF IInv
<1>1. ASSUME NEW c \in Commands, GetSeqNum(c)
      PROVE  WireIsHanded' /\ CarriedIsHanded'
  <2>1. \A d \in Commands : sender[d] # "none" => d # c
    BY <1>1 DEF GetSeqNum, InOrder
  <2>2. \A d \in Commands : sender[d] # "none" => seq'[d] = seq[d]
    BY <1>1, <2>1 DEF GetSeqNum, TypeOK
  <2> QED
    BY <1>1, <2>2 DEF GetSeqNum, WireIsHanded, CarriedIsHanded
<1>2. ASSUME NEW c \in Commands,
             ClearAndStart(c) \/ StopSending(c) \/ SendFails(c)
      PROVE  WireIsHanded' /\ CarriedIsHanded'
  <2>1. \A d \in Commands : sender[d] # "none" => sender'[d] # "none"
    BY <1>2 DEF ClearAndStart, StopSending, SendFails, TypeOK
  <2>2. UNCHANGED <<seq, wire, carried_out>>
    BY <1>2 DEF ClearAndStart, StopSending, SendFails
  <2> QED
    BY <2>1, <2>2 DEF WireIsHanded, CarriedIsHanded, TypeOK
<1>3. ASSUME NEW c \in Commands, SendCopy(c)
      PROVE  WireIsHanded' /\ CarriedIsHanded'
  BY <1>3 DEF SendCopy, WireIsHanded, CarriedIsHanded
<1>4. ASSUME NEW c \in Commands, PeerReceives(c)
      PROVE  WireIsHanded' /\ CarriedIsHanded'
  <2>1. PICK d \in Commands : seq[d] = seq[c] /\ sender[d] # "none"
    BY <1>4 DEF PeerReceives, WireIsHanded
  <2>2. seq[c] # None
    BY <1>4, NoneIsNoBit DEF PeerReceives, TypeOK
  <2>3. d = c
    BY <2>1, <2>2 DEF UniqueNumbers
  <2> QED
    BY <1>4, <2>1, <2>3 DEF PeerReceives, WireIsHanded, CarriedIsHanded
<1>5. CASE UNCHANGED <<seq, sender, carried_out>> /\ wire' \subseteq wire
  BY <1>5 DEF WireIsHanded, CarriedIsHanded
<1> QED
  BY <1>1, <1>2, <1>3, <1>4, <1>5
  DEF Next, Handler, Sender, LoadToClear, LoseCopy, LoseAck, LoadToSet,
      SetBit, ReceiverEnds, vars

LEMMA AcksStep ==
  ASSUME IInv, [Next]_vars
  PROVE  AcksEarned'
<1> USE DEF IInv
<1>a. /\ send_acks \subseteq Earned' /\ acks \subseteq Earned'
      /\ \A p \in Peers : receiver[p] # None => receiver[p] \in Earned'
      /\ \A t \in Commands \cup Peers : word[t] \subseteq Earned'
  BY EarnedStays DEF AcksEarned
<1>b. word \in [Commands \cup Peers -> SUBSET Bits]
  BY DEF TypeOK
<1>1. ASSUME NEW c \in Commands, LoadToClear(c)
      PROVE  AcksEarned'
  BY <1>1, <1>a, <1>b DEF LoadToClear, Load, AcksEarned
<1>2. ASSUME NEW c \in Commands, ClearAndStart(c)
      PROVE  AcksEarned'
  <2>1. send_acks' \subseteq Earned'
    BY <1>2, <1>a DEF ClearAndStart, StoreCleared, Store
  <2> QED
    BY <1>2, <1>a, <1>b, <2>1 DEF ClearAndStart, AcksEarned
<1>3. ASSUME NEW c \in Commands, PeerReceives(c)
      PROVE  AcksEarned'
  <2>1. seq[c] \in Earned'
    BY <1>3 DEF PeerReceives, Earned
  <2> QED
    BY <1>3, <1>a, <2>1 DEF PeerReceives, AcksEarned
<1>4. ASSUME NEW c \in Commands, LoadToSet(c)
      PROVE  AcksEarned'
  <2>1. seq[c] \in Earned'
    BY <1>4, <1>a DEF LoadToSet
  <2>2. \A p \in Peers : receiver'[p] # None => receiver'[p] \in Earned'
    BY <1>4, <1>a, <2>1 DEF LoadToSet, TypeOK
  <2>3. \A t \in Commands \cup Peers : word'[t] \subseteq Earned'
    BY <1>4, <1>a, <1>b DEF LoadToSet, Load
  <2> QED
    BY <1>4, <1>a, <2>2, <2>3 DEF LoadToSet, AcksEarned
<1>5. ASSUME NEW p \in Peers, SetBit(p)
      PROVE  AcksEarned'
  <2>1. send_acks' \subseteq Earned'
    BY <1>5, <1>a DEF SetBit, StoreSet, Store
  <2>2. \A q \in Peers : receiver'[q] # None => receiver'[q] \in Earned'
    BY <1>5, <1>a DEF SetBit, TypeOK
  <2>3. \A t \in Commands \cup Peers : word'[t] \subseteq Earned'
    BY <1>5, <1>a, <1>b DEF SetBit
  <2> QED
    BY <1>5, <1>a, <2>1, <2>2, <2>3 DEF SetBit, AcksEarned
<1>6. CASE UNCHANGED <<send_acks, receiver, word>> /\ acks' \subseteq acks
  BY <1>6, <1>a DEF AcksEarned
<1> QED
  BY <1>1, <1>2, <1>3, <1>4, <1>5, <1>6
  DEF Next, Handler, Sender, GetSeqNum, SendCopy, StopSending, SendFails,
      LoseCopy, LoseAck, ReceiverEnds, vars

LEMMA StoppedStep ==
  ASSUME IInv, [Next]_vars
  PROVE  StoppedMeansCarriedOut'
<1> USE DEF IInv
<1>1. ASSUME NEW c \in Commands, StopSending(c)
      PROVE  StoppedMeansCarriedOut'
  <2>1. PICK d \in carried_out : seq[d] = seq[c]
    BY <1>1 DEF StopSending, AcksEarned, Earned
  <2>2. seq[c] # None
    BY <1>1, NoneIsNoBit DEF StopSending, TypeOK
  <2>3. d = c
    BY <2>1, <2>2 DEF UniqueNumbers, TypeOK
  <2> QED
    BY <1>1, <2>1, <2>3 DEF StopSending, StoppedMeansCarriedOut, TypeOK
<1>2. ASSUME NEW c \in Commands, ClearAndStart(c) \/ SendFails(c)
      PROVE  StoppedMeansCarriedOut'
  BY <1>2 DEF ClearAndStart, SendFails, StoppedMeansCarriedOut, TypeOK
<1>3. CASE UNCHANGED sender /\ carried_out \subseteq carried_out'
  BY <1>3 DEF StoppedMeansCarriedOut
<1> QED
  BY <1>1, <1>2, <1>3
  DEF Next, Handler, Sender, GetSeqNum, LoadToClear, SendCopy, PeerReceives,
      LoseCopy, LoseAck, LoadToSet, SetBit, ReceiverEnds,
      vars

LEMMA IInvInit == Init => IInv
BY TypeInit
DEF Init, IInv, InOrder, DrawnBelow, UniqueNumbers, WireIsHanded,
    CarriedIsHanded, AcksEarned, StoppedMeansCarriedOut

LEMMA IInvStep == IInv /\ [Next]_vars => IInv'
<1> SUFFICES ASSUME IInv, [Next]_vars
             PROVE  IInv'
  OBVIOUS
<1>1. TypeOK' /\ InOrder' /\ DrawnBelow' /\ UniqueNumbers'
  BY TypeStep, InOrderStep, NumbersStep DEF IInv
<1>2. WireIsHanded' /\ CarriedIsHanded' /\ AcksEarned'
      /\ StoppedMeansCarriedOut'
  BY HandedStep, AcksStep, StoppedStep
<1> QED
  BY <1>1, <1>2 DEF IInv

(* Type correctness: every number in flight fits the bit set.              *)
THEOREM TypeCorrect == Spec => []TypeOK
<1>1. IInv => TypeOK
  BY DEF IInv
<1> QED
  BY <1>1, IInvInit, IInvStep, PTL DEF Spec

(* get_server_seq_num gives no two commands one number.                    *)
THEOREM NumbersUnique == Spec => []UniqueNumbers
<1>1. IInv => UniqueNumbers
  BY DEF IInv
<1> QED
  BY <1>1, IInvInit, IInvStep, PTL DEF Spec

(* A sending thread that stops has had its command carried out: races on   *)
(* the words of the bit set can lose an acknowledgement, never invent one. *)
THEOREM NoFalseAck == Spec => []StoppedMeansCarriedOut
<1>1. IInv => StoppedMeansCarriedOut
  BY DEF IInv
<1> QED
  BY <1>1, IInvInit, IInvStep, PTL DEF Spec
-----------------------------------------------------------------------------
(* The refinement.                                                         *)

LEMMA HandoverInit == Init => H!Init
BY DEF Init, H!Init

LEMMA HandoverStep ==
  ASSUME IInv, [Next]_vars
  PROVE  [H!Next]_(H!vars)
<1> USE DEF IInv
<1>1. ASSUME NEW c \in Commands, ClearAndStart(c)
      PROVE  H!HandOver(c)
  BY <1>1 DEF ClearAndStart, H!HandOver, InOrder, TypeOK
<1>2. ASSUME NEW c \in Commands, StopSending(c)
      PROVE  H!Release(c)
  <2>1. c \in carried_out
    <3>1. PICK d \in carried_out : seq[d] = seq[c]
      BY <1>2 DEF StopSending, AcksEarned, Earned
    <3>2. seq[c] # None
      BY <1>2, NoneIsNoBit DEF StopSending, TypeOK
    <3> QED
      BY <3>1, <3>2 DEF UniqueNumbers, TypeOK
  <2> QED
    BY <1>2, <2>1 DEF StopSending, H!Release, TypeOK
<1>3. ASSUME NEW c \in Commands, SendFails(c)
      PROVE  H!GiveUp(c)
  BY <1>3 DEF SendFails, H!GiveUp, TypeOK
<1>4. ASSUME NEW c \in Commands, PeerReceives(c)
      PROVE  H!CarryOut(c) \/ UNCHANGED H!vars
  <2>1. sender[c] # "none"
    <3>1. PICK d \in Commands : seq[d] = seq[c] /\ sender[d] # "none"
      BY <1>4 DEF PeerReceives, WireIsHanded
    <3>2. seq[c] # None
      BY <1>4, NoneIsNoBit DEF PeerReceives, TypeOK
    <3> QED
      BY <3>1, <3>2 DEF UniqueNumbers
  <2>2. CASE c \in carried_out
    BY <1>4, <2>2 DEF PeerReceives, H!vars
  <2>3. CASE c \notin carried_out
    BY <1>4, <2>1, <2>3 DEF PeerReceives, H!CarryOut
  <2> QED
    BY <2>2, <2>3
<1>5. CASE UNCHANGED <<sender, carried_out>>
  BY <1>5 DEF H!vars
<1> QED
  BY <1>1, <1>2, <1>3, <1>4, <1>5
  DEF Next, Handler, Sender, GetSeqNum, LoadToClear, SendCopy, LoseCopy,
      LoseAck, LoadToSet, SetBit, ReceiverEnds,
      vars, H!Next

(* The sending threads implement Handover: a command is carried out only   *)
(* after it was handed over, and its thread lets go of it only after that. *)
THEOREM OutboxImplementsHandover == Spec => ImplementsHandover
BY HandoverInit, HandoverStep, IInvInit, IInvStep, PTL
DEF Spec, ImplementsHandover, H!Spec

=============================================================================
