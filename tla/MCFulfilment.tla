---------------------------- MODULE MCFulfilment ----------------------------
(***************************************************************************)
(* Small instances of Fulfilment for TLC.  What an order contains is named *)
(* by an order that contains it.                                           *)
(***************************************************************************)
EXTENDS Fulfilment

CONSTANTS o1, w1

OneWarehouse == [o \in Orders |-> w1]
Different    == [o \in Orders |-> o]
Alike        == [o \in Orders |-> o1]

=============================================================================
