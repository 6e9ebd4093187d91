--------------------------- MODULE WarehouseChoice ---------------------------
(***************************************************************************)
(* select_warehouse (server/frontend_handle.hpp): the loop that looks for  *)
(* the warehouse nearest to an address.                                    *)
(*                                                                         *)
(* The squared distance is computed in int and only then widened to long   *)
(* long.  When one of the intermediate results is no int the behaviour is  *)
(* undefined: any int may be the outcome.                                  *)
(*                                                                         *)
(* A definition marked "slip" is a wrong variant of the one below it.  It  *)
(* is not part of the specification: it shows what a property would catch. *)
(***************************************************************************)
EXTENDS Integers, Sequences

CONSTANTS
  w_list,           \* the warehouses: records with id, x and y
  Coords,           \* coordinates that an address may have
  IntMin, IntMax,   \* the range of int, 32 bits in the build
  FarAway           \* where min_distance starts, 10^17 in the code

Ints == IntMin..IntMax

ASSUME ChoiceAssumption ==
  /\ IntMin \in Int /\ IntMax \in Int /\ FarAway \in Int
  /\ IntMin <= -1 /\ 0 <= IntMax /\ IntMax < FarAway
  /\ w_list \in Seq([id : Ints \ {-1}, x : Ints, y : Ints])
  /\ Coords \subseteq Ints

VARIABLES
  x, y,             \* the address
  i,                \* the warehouse that is looked at next
  min_distance, min_id

vars == <<x, y, i, min_distance, min_id>>

Square(a) == a * a
Distance(w) == Square(w.x - x) + Square(w.y - y)

(* No intermediate result overflows.                                       *)
Fits(w) == /\ {w.x - x, w.y - y} \subseteq Ints
           /\ {Square(w.x - x), Square(w.y - y), Distance(w)} \subseteq Ints

Computed(w) == IF Fits(w) THEN {Distance(w)} ELSE Ints

(* Slip: the minimum starts at the greatest int.                           *)
StartAtIntMax == IntMax

Start == FarAway

Init ==
  /\ x \in Coords /\ y \in Coords
  /\ i = 1
  /\ min_distance = Start
  /\ min_id = -1

(* Slip: the last of the nearest.                                          *)
AtMost(d) == d <= min_distance

Nearer(d) == d < min_distance

Compare ==
  /\ i <= Len(w_list)
  /\ \E d \in Computed(w_list[i]) :
       IF Nearer(d)
       THEN min_distance' = d /\ min_id' = w_list[i].id
       ELSE UNCHANGED <<min_distance, min_id>>
  /\ i' = i + 1
  /\ UNCHANGED <<x, y>>

Spec == Init /\ [][Compare]_vars
-----------------------------------------------------------------------------
TypeOK ==
  /\ x \in Coords /\ y \in Coords
  /\ i \in 1..(Len(w_list) + 1)
  /\ min_distance \in Ints \cup {Start}
  /\ min_id \in {w_list[k].id : k \in 1..Len(w_list)} \cup {-1}

Done == i > Len(w_list)

(* Overflow or not, an order gets a warehouse that there is: the mutexes   *)
(* and lists of the order pipeline are indexed by it.                      *)
SomeChosen ==
  Done /\ Len(w_list) > 0 => \E k \in 1..Len(w_list) : min_id = w_list[k].id

(* As long as no distance overflows, it is the nearest warehouse, and of   *)
(* several nearest ones the first of the list, however near or far the     *)
(* minimum was on the way.                                                 *)
NearestChosen ==
  Done /\ Len(w_list) > 0 /\ (\A k \in 1..Len(w_list) : Fits(w_list[k])) =>
    \E k \in 1..Len(w_list) :
      /\ min_id = w_list[k].id
      /\ \A j \in 1..Len(w_list) :
           /\ Distance(w_list[k]) <= Distance(w_list[j])
           /\ j < k => Distance(w_list[k]) < Distance(w_list[j])

=============================================================================
