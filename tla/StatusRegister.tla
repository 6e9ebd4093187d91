--------------------------- MODULE StatusRegister ---------------------------
(***************************************************************************)
(* What Update_Order_Status promises to the threads that call it, and what *)
(* module Fulfilment takes for granted: while a call runs, its value is    *)
(* written at most once and in one step; a call that reports success has   *)
(* written it; between calls nobody writes.                                *)
(***************************************************************************)
CONSTANTS Threads, Orders, Values, Initial

VARIABLES status,  \* status[o]: what everybody reads of order o
          phase,   \* phase[t]: how far the call of thread t is
          args     \* args[t]: order and value of that call

vars == <<status, phase, args>>

Args == [order : Orders, value : Values]
Write(t) == status' = [status EXCEPT ![args[t].order] = args[t].value]

Init == /\ status = [o \in Orders |-> Initial]
        /\ phase = [t \in Threads |-> "idle"]
        /\ args \in [Threads -> Args]

Call(t) == /\ phase[t] \in {"idle", "returned", "failed"}
           /\ phase' = [phase EXCEPT ![t] = "called"]
           /\ \E a \in Args : args' = [args EXCEPT ![t] = a]
           /\ UNCHANGED status

Apply(t) == /\ phase[t] = "called"
            /\ phase' = [phase EXCEPT ![t] = "applied"]
            /\ Write(t)
            /\ UNCHANGED args

Return(t) == /\ phase[t] = "applied"
             /\ phase' = [phase EXCEPT ![t] = "returned"]
             /\ UNCHANGED <<status, args>>

(* The caller is told of an error whether or not the value was written.    *)
Fail(t) == /\ phase[t] = "called"
           /\ phase' = [phase EXCEPT ![t] = "failed"]
           /\ Write(t) \/ UNCHANGED status
           /\ UNCHANGED args

Next == \E t \in Threads : Call(t) \/ Apply(t) \/ Return(t) \/ Fail(t)

Spec == Init /\ [][Next]_vars

=============================================================================
