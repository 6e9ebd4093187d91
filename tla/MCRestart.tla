------------------------------ MODULE MCRestart ------------------------------
(***************************************************************************)
(* A small instance of Restart for TLC.  What an order contains is named   *)
(* by an order that contains it.                                           *)
(***************************************************************************)
EXTENDS Restart

CONSTANTS o1, w1

OneWarehouse == [o \in Orders |-> w1]
Different    == [o \in Orders |-> o]

=============================================================================
