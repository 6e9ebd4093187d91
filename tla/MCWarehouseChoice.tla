------------------------- MODULE MCWarehouseChoice -------------------------
(***************************************************************************)
(* A small instance of WarehouseChoice for TLC: four warehouses on the     *)
(* diagonal, as Init_warehouse places them, and ints of seven bits.        *)
(***************************************************************************)
EXTENDS WarehouseChoice

Diagonal == [k \in 1..4 |-> [id |-> k, x |-> k, y |-> k]]
SevenBitMin == -64
Near == -6..9

=============================================================================
