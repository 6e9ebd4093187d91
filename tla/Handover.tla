------------------------------ MODULE Handover ------------------------------
(***************************************************************************)
(* What the server's sending threads promise to the handlers that start    *)
(* them: a command handed over is carried out by its peer at most once,    *)
(* and its thread lets go of it only after that - unless the thread gave   *)
(* it up because of a socket error.                                        *)
(***************************************************************************)
CONSTANT Commands

VARIABLES handed,    \* commands given to a sending thread
          done,      \* commands their peer has carried out
          released,  \* commands whose thread has ended after an ack
          given_up   \* commands whose thread has ended after an error

vars == <<handed, done, released, given_up>>

Init == handed = {} /\ done = {} /\ released = {} /\ given_up = {}

HandOver(c) == /\ c \notin handed
               /\ handed' = handed \cup {c}
               /\ UNCHANGED <<done, released, given_up>>

CarryOut(c) == /\ c \in handed \ done
               /\ done' = done \cup {c}
               /\ UNCHANGED <<handed, released, given_up>>

Release(c) == /\ c \in done
              /\ released' = released \cup {c}
              /\ UNCHANGED <<handed, done, given_up>>

GiveUp(c) == /\ c \in handed \ released
             /\ given_up' = given_up \cup {c}
             /\ UNCHANGED <<handed, done, released>>

Next == \E c \in Commands : HandOver(c) \/ CarryOut(c) \/ Release(c) \/ GiveUp(c)

Spec == Init /\ [][Next]_vars

=============================================================================
