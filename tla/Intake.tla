------------------------------- MODULE Intake -------------------------------
(***************************************************************************)
(* How an order gets from the web shop to the server: sendOrder            *)
(* (orders/views.py) on one side, FrontendHandler and                      *)
(* receive_data_from_frontend (frontend_handle.hpp) on the other, in a     *)
(* server that comes up, and may be killed, as in module Startup.          *)
(*                                                                         *)
(* Each order has a connection of its own.  The shop writes the order's    *)
(* text, of parts[o] parts, and closes; the server reads until the end of  *)
(* the stream and handles what it has read.  A thread that meets an error, *)
(* be it while it reads or when it handles a whole text, leaves its        *)
(* descriptor open.                                                        *)
(*                                                                         *)
(* A definition marked "slip" is a wrong variant of the one below it.  It  *)
(* is not part of the specification: it shows what a property would catch. *)
(***************************************************************************)
EXTENDS Startup, FiniteSets

CONSTANTS
  Orders,    \* orders the shop takes
  parts,     \* parts[o]: parts of the text of o
  MaxFds,    \* descriptors the server has for connections of the shop
  Unfit,     \* orders whose handling may throw: a number out of range, an
             \* item without a description, no thread left to start
  MaxBroken  \* bound: how many processes of the shop die while sending

ASSUME IntakeAssumption ==
  /\ IsFiniteSet(Orders) /\ Unfit \subseteq Orders
  /\ parts \in [Orders -> Nat \ {0}]
  /\ MaxFds \in Nat \ {0} /\ MaxBroken \in Nat

VARIABLES
  door,    \* port 8873: "free", "held" by connections of a server that was
           \* killed, "open", or "missed": listened on is another one
  shop,    \* shop[o]: the request that places o
  text,    \* text[o]: parts written to the connection so far
  stream,  \* stream[o]: "open", or how the connection has ended
  thread,  \* thread[o]: the server's side of the connection
  got      \* got[o]: parts its thread has read

ivars == <<door, shop, text, stream, thread, got>>

IntakeInit ==
  /\ Init
  /\ door = "free"
  /\ shop = [o \in Orders |-> "none"]
  /\ text = [o \in Orders |-> 0]
  /\ stream = [o \in Orders |-> "open"]
  /\ thread = [o \in Orders |-> "none"]
  /\ got = [o \in Orders |-> 0]

ShopGoes(o, l) == shop' = [shop EXCEPT ![o] = l]
ThreadGoes(o, l) == thread' = [thread EXCEPT ![o] = l]
-----------------------------------------------------------------------------
(* The shop.  order_create stores order and items, then calls sendOrder.   *)
Save(o) ==
  /\ shop[o] = "none"
  /\ ShopGoes(o, "saved")
  /\ UNCHANGED <<door, text, stream, thread, got>>

(* The listener queues the connection; without one the error is swallowed. *)
Connect(o) ==
  /\ shop[o] = "saved"
  /\ IF door = "open" THEN ShopGoes(o, "sending") /\ ThreadGoes(o, "queued")
                      ELSE ShopGoes(o, "failed") /\ UNCHANGED thread
  /\ UNCHANGED <<door, text, stream, got>>

Write(o) ==
  /\ shop[o] = "sending" /\ stream[o] = "open" /\ text[o] < parts[o]
  /\ text' = [text EXCEPT ![o] = @ + 1]
  /\ UNCHANGED <<door, shop, stream, thread, got>>

(* sendall returned, and the socket is closed.                             *)
Close(o) ==
  /\ shop[o] = "sending" /\ stream[o] = "open" /\ text[o] = parts[o]
  /\ ShopGoes(o, "sent")
  /\ stream' = [stream EXCEPT ![o] = "ended"]
  /\ UNCHANGED <<door, text, thread, got>>

(* sendall cannot go on: the error is swallowed here, too.                 *)
WriteFails(o) ==
  /\ shop[o] = "sending" /\ stream[o] = "reset"
  /\ ShopGoes(o, "failed")
  /\ UNCHANGED <<door, text, stream, thread, got>>

Broken == {o \in Orders : shop[o] = "died"}

(* The process that sends dies: the system ends or resets its connection.  *)
Die(o) ==
  /\ shop[o] = "sending" /\ stream[o] = "open"
  /\ Cardinality(Broken) < MaxBroken
  /\ ShopGoes(o, "died")
  /\ \E e \in {"ended", "reset"} : stream' = [stream EXCEPT ![o] = e]
  /\ UNCHANGED <<door, text, thread, got>>
-----------------------------------------------------------------------------
(* The server.  Its thread for the front end binds and listens; where bind *)
(* fails, listen takes any other port, and nobody will call.               *)
OpenDoor ==
  /\ pc = "running" /\ door \in {"free", "held"}
  /\ door' = IF door = "free" THEN "open" ELSE "missed"
  /\ UNCHANGED <<shop, text, stream, thread, got>>

(* The last connection of the server that was killed is gone.              *)
DoorExpires ==
  /\ door = "held"
  /\ door' = "free"
  /\ UNCHANGED <<shop, text, stream, thread, got>>

Fds == {o \in Orders : thread[o] \in {"first", "more", "left"}}

(* Without a free descriptor accept fails; FrontendHandler does not look,  *)
(* starts a thread that returns at once, and tries again.                  *)
AcceptOrder(o) ==
  /\ door = "open" /\ thread[o] = "queued"
  /\ Cardinality(Fds) < MaxFds
  /\ ThreadGoes(o, "first")
  /\ UNCHANGED <<door, shop, text, stream, got>>

(* Slip: what was read before is appended once more.                       *)
AppendBuffer(o) == got[o] + text[o]

AppendNew(o) == text[o]

(* recv returns what has come since; on a reset it may be gone.            *)
Recv(o) ==
  /\ thread[o] \in {"first", "more"} /\ got[o] < text[o]
  /\ got' = [got EXCEPT ![o] = AppendNew(o)]
  /\ ThreadGoes(o, "more")
  /\ UNCHANGED <<door, shop, text, stream>>

(* Slip: recv does not wait.                                               *)
NothingYet(o) == stream[o] = "reset" \/ got[o] = text[o]

NothingLeft(o) == stream[o] = "reset" \/ (stream[o] = "ended" /\ got[o] = text[o])

(* The first recv returns 0 or -1: return, without close.  A later one     *)
(* returns -1: appending -1 bytes throws, and the handler returns, without *)
(* close, too.                                                             *)
LeaveOpen(o) ==
  /\ NothingLeft(o)
  /\ \/ thread[o] = "first"
     \/ thread[o] = "more" /\ stream[o] = "reset"
  /\ ThreadGoes(o, "left")
  /\ UNCHANGED <<door, shop, text, stream, got>>

(* Slip: the loop goes on when recv returns 0.                             *)
AtError(o) == thread[o] = "more" /\ stream[o] = "reset"

AtEnd(o) == thread[o] = "more" /\ stream[o] = "ended" /\ got[o] = text[o]

(* Slip: what there is of a text is taken for the whole.                   *)
TextBegins(o) == got[o] > 0

(* The whole text parses.                                                  *)
TextIsWhole(o) == got[o] = parts[o]

Process(o) ==
  /\ AtEnd(o) /\ TextIsWhole(o)
  /\ ThreadGoes(o, "processed")
  /\ UNCHANGED <<door, shop, text, stream, got>>

(* Handling the text throws: the order is dropped, and the handler returns *)
(* without close.                                                          *)
ProcessThrows(o) ==
  /\ o \in Unfit
  /\ AtEnd(o) /\ TextIsWhole(o)
  /\ ThreadGoes(o, "left")
  /\ UNCHANGED <<door, shop, text, stream, got>>

(* What was processed is on its way (modules Fulfilment and Restart).      *)
Connected(o) == thread[o] \notin {"none", "processed"}

(* A connection that was accepted may outlive its server here, too.        *)
DoorAfterKill ==
  {"free"} \cup (IF Fds # {} \/ door \in {"held", "missed"} THEN {"held"} ELSE {})

(* Killed, the server loses its connections and what it has read of them;  *)
(* the peers' ends are reset.                                              *)
Kill ==
  /\ Restart
  /\ door' \in DoorAfterKill
  /\ stream' = [o \in Orders |-> IF Connected(o) THEN "reset" ELSE stream[o]]
  /\ thread' = [o \in Orders |-> IF Connected(o) THEN "killed" ELSE thread[o]]
  /\ got' = [o \in Orders |-> IF Connected(o) THEN 0 ELSE got[o]]
  /\ UNCHANGED <<shop, text>>

(* The text of a broken connection does not parse; its missing root        *)
(* element is dereferenced, and the server is gone.                        *)
Crash(o) == AtEnd(o) /\ ~TextIsWhole(o) /\ Kill
-----------------------------------------------------------------------------
Shop(o) == Connect(o) \/ Write(o) \/ Close(o) \/ WriteFails(o)
Thread(o) == Recv(o) \/ LeaveOpen(o) \/ Process(o) \/ ProcessThrows(o)

IntakeNext ==
  \/ /\ \/ Main \/ LoseWorld \/ HandshakeFails
        \/ UpsCalls \/ UpsJoins \/ PortExpires
     /\ UNCHANGED ivars
  \/ Kill
  \/ (OpenDoor \/ DoorExpires) /\ UNCHANGED vars
  \/ /\ \E o \in Orders : \/ Save(o) \/ Shop(o) \/ Die(o)
                          \/ AcceptOrder(o) \/ Thread(o)
     /\ UNCHANGED vars
  \/ \E o \in Orders : Crash(o)

IntakeSpec == IntakeInit /\ [][IntakeNext]_<<vars, ivars>>

(* As in Startup; requests and threads go on, the one of the front end     *)
(* too.  Nobody has to save an order or to die, and nothing has to throw.  *)
FairIntakeSpec ==
  /\ IntakeSpec
  /\ WF_vars(Main) /\ WF_vars(UpsCalls) /\ WF_vars(UpsJoins)
  /\ WF_vars(ups = "refused" /\ HandshakeFails)
  /\ WF_ivars(OpenDoor)
  /\ \A o \in Orders : /\ WF_ivars(Shop(o)) /\ WF_ivars(Thread(o))
                       /\ SF_ivars(AcceptOrder(o))
-----------------------------------------------------------------------------
IntakeTypeOK ==
  /\ TypeOK
  /\ door \in {"free", "held", "open", "missed"}
  /\ shop \in [Orders -> {"none", "saved", "sending", "sent", "failed", "died"}]
  /\ {text, got} \subseteq [Orders -> Nat]
  /\ \A o \in Orders : {text[o], got[o]} \subseteq 0..parts[o]
  /\ stream \in [Orders -> {"open", "ended", "reset"}]
  /\ thread \in [Orders -> {"none", "queued", "first", "more", "left",
                            "processed", "killed"}]

(* An order starts on its way only whole, once its rows are stored, and    *)
(* never after the shop was told of an error.                              *)
ProcessedIsWhole ==
  \A o \in Orders : thread[o] = "processed" =>
    got[o] = parts[o] /\ shop[o] \in {"sent", "died"}

(* Only a request that died while sending, or a whole text that cannot be  *)
(* handled, costs the server a descriptor; only the first of them can cost *)
(* it its process.                                                         *)
OnlyBrokenHarm ==
  \A o \in Orders :
    /\ thread[o] = "left" => shop[o] = "died" \/ (o \in Unfit /\ got[o] = parts[o])
    /\ AtEnd(o) /\ ~TextIsWhole(o) => shop[o] = "died"

Lost == {o \in Orders : thread[o] = "left" \/ (AtEnd(o) /\ ~TextIsWhole(o))}

Settled(o) ==
  \/ thread[o] \in {"processed", "killed"}
  \/ o \in Unfit /\ thread[o] = "left"
  \/ Cardinality(Lost) >= MaxFds

(* Every order that was sent is processed, unless handling it threw, the   *)
(* server is killed, or all its descriptors are lost.                      *)
SentIsProcessed == \A o \in Orders : shop[o] = "sent" ~> Settled(o)

=============================================================================
