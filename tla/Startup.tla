------------------------------ MODULE Startup ------------------------------
(***************************************************************************)
(* How the server comes up (server/server.cpp, server/server.hpp): it has  *)
(* the World make a new world, listens for UPS on a fixed port, tells UPS  *)
(* the world's id and, when UPS confirms, starts its threads.  Whatever    *)
(* fails on the way is tried again from the start, with another world and  *)
(* another listening socket.  No socket is ever closed, and the result of  *)
(* bind is not looked at.  A server that was killed may leave connections  *)
(* behind that keep its port for some time: bind does not ask to reuse it. *)
(*                                                                         *)
(* The World and UPS are outside src/.  UPS calls the port whenever it has *)
(* no connection; a listener on any other port is called by nobody.        *)
(*                                                                         *)
(* A definition marked "slip" is a wrong variant of the one below it.  It  *)
(* is not part of the specification: it shows what a property would catch. *)
(***************************************************************************)
EXTENDS Naturals

CONSTANTS
  MaxLost,      \* bound: worlds made whose id does not reach the server
  MaxRestarts   \* bound: how often the server is killed and started again

ASSUME StartupAssumption == MaxLost \in Nat /\ MaxRestarts \in Nat

NoWorld == 0

VARIABLES
  pc,           \* main's progress
  world_id,     \* the id main has read, NoWorld at first
  worlds,       \* number of worlds the World has made; the newest one's id
  lost,         \* how many of them main has not learnt of
  port,         \* port 5688: "free", "listening" on main's newest socket,
                \* "orphaned", listening on an older one, or "held" by
                \* connections of a server that was killed
  failed,       \* has a handshake with UPS failed since main began?
  ups,          \* UPS: "away", "queued", "told", "joined", "refused"
  ups_world,    \* the world UPS has been told of
  restarts      \* number of restarts so far

vars == <<pc, world_id, worlds, lost, port, failed, ups, ups_world, restarts>>

Init ==
  /\ pc = "world" /\ world_id = NoWorld
  /\ worlds = 0 /\ lost = 0
  /\ port = "free" /\ failed = FALSE
  /\ ups = "away" /\ ups_world = NoWorld
  /\ restarts = 0
-----------------------------------------------------------------------------
(* Amazon_connect_to_world.                                                *)

(* Slip: the answer is that to an earlier AConnect.                        *)
PreviousWorld == worlds

NewWorld == worlds + 1

ConnectWorld ==
  /\ pc = "world"
  /\ worlds' = worlds + 1
  /\ world_id' = NewWorld
  /\ pc' = "listen"
  /\ UNCHANGED <<lost, port, failed, ups, ups_world, restarts>>

(* The World made a world, but its answer was lost, or no "connected!".    *)
LoseWorld ==
  /\ pc = "world"
  /\ lost < MaxLost
  /\ lost' = lost + 1
  /\ worlds' = worlds + 1
  /\ UNCHANGED <<pc, world_id, port, failed, ups, ups_world, restarts>>
-----------------------------------------------------------------------------
(* Amazon_wait_for_UPS.                                                    *)

(* Slip: the port is taken by another program.                             *)
PortOfAnother == "orphaned"

(* Where bind failed, listen takes any other port.                         *)
PortAfterBind ==
  CASE port = "free" -> "listening"
    [] port = "held" -> "held"
    [] OTHER         -> "orphaned"

Listen ==
  /\ pc = "listen"
  /\ port' = PortAfterBind
  /\ pc' = "accept"
  /\ UNCHANGED <<world_id, worlds, lost, failed, ups, ups_world, restarts>>

(* accept on the newest socket, and the id is sent.                        *)
Accept ==
  /\ pc = "accept"
  /\ port = "listening" /\ ups = "queued"
  /\ ups' = "told" /\ ups_world' = world_id
  /\ pc' = "confirm"
  /\ UNCHANGED <<world_id, worlds, lost, port, failed, restarts>>

(* UPS confirms: main starts its threads.                                  *)
Confirmed ==
  /\ pc = "confirm" /\ ups = "joined"
  /\ pc' = "running"
  /\ UNCHANGED <<world_id, worlds, lost, port, failed, ups, ups_world, restarts>>

(* Slip: the listening socket is closed on the way out.                    *)
PortClosed == "free"

PortAfterFailure == port

(* The id could not be sent, UPS did not join, or its answer did not come: *)
(* main begins again.  It leaves the connection open; UPS may stay on it,  *)
(* or have left.                                                           *)
HandshakeFails ==
  /\ pc = "confirm"
  /\ pc' = "world"
  /\ failed' = TRUE
  /\ port' = PortAfterFailure
  /\ ups' \in {ups, "away"}
  /\ UNCHANGED <<world_id, worlds, lost, ups_world, restarts>>

Main == ConnectWorld \/ Listen \/ Accept \/ Confirmed
-----------------------------------------------------------------------------
(* UPS reaches whichever socket holds the port, and waits in its backlog.  *)
UpsCalls ==
  /\ ups = "away" /\ port \in {"listening", "orphaned"}
  /\ ups' = "queued"
  /\ UNCHANGED <<pc, world_id, worlds, lost, port, failed, ups_world, restarts>>

UpsJoins ==
  /\ ups = "told"
  /\ ups' \in {"joined", "refused"}
  /\ UNCHANGED <<pc, world_id, worlds, lost, port, failed, ups_world, restarts>>

(* A connection that was accepted may outlive the server that is killed.   *)
PortAfterKill ==
  {"free"} \cup (IF ups \in {"told", "joined", "refused"} \/ failed \/ port = "held"
                THEN {"held"} ELSE {})

(* The server is killed and started again: its memory and its sockets are  *)
(* gone, the worlds are not.                                               *)
Restart ==
  /\ restarts < MaxRestarts
  /\ restarts' = restarts + 1
  /\ pc' = "world" /\ world_id' = NoWorld
  /\ port' \in PortAfterKill /\ failed' = FALSE
  /\ ups' = "away"
  /\ UNCHANGED <<worlds, lost, ups_world>>

(* The last of those connections is gone.                                  *)
PortExpires ==
  /\ port = "held"
  /\ port' = "free"
  /\ UNCHANGED <<pc, world_id, worlds, lost, failed, ups, ups_world, restarts>>

Next ==
  \/ Main \/ LoseWorld \/ HandshakeFails
  \/ UpsCalls \/ UpsJoins
  \/ Restart \/ PortExpires

Spec == Init /\ [][Next]_vars

(* The World answers at last, UPS calls and answers, main goes on.  No     *)
(* world has to be lost, and nothing has to fail but a handshake that UPS  *)
(* refuses.                                                                *)
FairSpec ==
  /\ Spec
  /\ WF_vars(Main) /\ WF_vars(UpsCalls) /\ WF_vars(UpsJoins)
  /\ WF_vars(ups = "refused" /\ HandshakeFails)
-----------------------------------------------------------------------------
TypeOK ==
  /\ pc \in {"world", "listen", "accept", "confirm", "running"}
  /\ world_id \in Nat /\ worlds \in Nat /\ ups_world \in Nat
  /\ lost \in 0..MaxLost /\ restarts \in 0..MaxRestarts
  /\ port \in {"free", "listening", "orphaned", "held"}
  /\ failed \in BOOLEAN
  /\ ups \in {"away", "queued", "told", "joined", "refused"}

(* The threads start with both connections in one and the same world, the  *)
(* newest, however many attempts and restarts there were before.           *)
SameWorld ==
  pc = "running" => ups = "joined" /\ ups_world = world_id /\ world_id = worlds

(* A failed handshake with UPS is final for this run of the server: it     *)
(* goes on trying, with a listening socket that nobody can reach, and its  *)
(* threads are never started.                                              *)
NoSecondChance == failed => pc # "running"

(* main waits in accept on a socket that does not have the port.           *)
Deaf == pc = "accept" /\ port # "listening"

(* The server does not stay behind at the start, unless a handshake failed *)
(* or, the server being killed before, its port was still held: then main  *)
(* waits in accept for a call that nobody can make.                        *)
StartsOrFails == []<>(pc = "running" \/ failed \/ (Deaf /\ restarts > 0))

=============================================================================
