----------------------- MODULE WarehouseChoiceProofs -----------------------
(***************************************************************************)
(* Theorems about WarehouseChoice, for any list of warehouses, any         *)
(* addresses and ints of any width.                                        *)
(***************************************************************************)
EXTENDS WarehouseChoice, TLAPS

All == 1..Len(w_list)
NoOverflow == \A k \in All : Fits(w_list[k])

(* The loop's invariant: warehouse k is the choice among those before i.   *)
FirstNearest(k) ==
  \A j \in All : j < i =>
    /\ Distance(w_list[k]) <= Distance(w_list[j])
    /\ j < k => Distance(w_list[k]) < Distance(w_list[j])

ChosenSoFar ==
  IF i = 1 THEN min_distance = Start /\ min_id = -1
  ELSE \E k \in All :
         /\ k < i /\ min_id = w_list[k].id /\ min_distance \in Ints
         /\ NoOverflow => min_distance = Distance(w_list[k]) /\ FirstNearest(k)

IInv == TypeOK /\ ChosenSoFar
-----------------------------------------------------------------------------
LEMMA SeqFacts ==
  ASSUME NEW S, NEW s \in Seq(S)
  PROVE  Len(s) \in Nat /\ \A k \in 1..Len(s) : s[k] \in S
OBVIOUS

LEMMA ListFacts ==
  /\ Len(w_list) \in Nat
  /\ \A k \in All : w_list[k] \in [id : Ints \ {-1}, x : Ints, y : Ints]
BY ChoiceAssumption, SeqFacts DEF All

LEMMA ComputedIsInt ==
  ASSUME NEW w, NEW d \in Computed(w)
  PROVE  d \in Ints /\ (Fits(w) => d = Distance(w))
BY DEF Computed, Fits

LEMMA IntsBelowStart == \A d \in Ints : d \in Int /\ d < Start
BY ChoiceAssumption DEF Ints, Start

LEMMA InvInit == Init => IInv
<1> SUFFICES ASSUME Init PROVE IInv
  OBVIOUS
<1>1. TypeOK
  BY ListFacts DEF Init, TypeOK
<1>2. ChosenSoFar
  BY DEF Init, ChosenSoFar
<1> QED BY <1>1, <1>2 DEF IInv

LEMMA InvStep == IInv /\ [Compare]_vars => IInv'
<1> SUFFICES ASSUME IInv, [Compare]_vars PROVE IInv'
  OBVIOUS
<1>1. CASE UNCHANGED vars
  BY <1>1 DEF vars, IInv, TypeOK, ChosenSoFar, FirstNearest, NoOverflow, Fits,
              Distance
<1>2. CASE Compare
  <2>1. i \in All /\ i' = i + 1 /\ x' = x /\ y' = y /\ i \in Nat
    BY <1>2, ListFacts DEF Compare, IInv, TypeOK, All
  <2>2. PICK d \in Computed(w_list[i]) :
          IF Nearer(d)
          THEN min_distance' = d /\ min_id' = w_list[i].id
          ELSE UNCHANGED <<min_distance, min_id>>
    BY <1>2 DEF Compare
  <2>3. /\ d \in Ints /\ d \in Int /\ d < Start
        /\ NoOverflow => d = Distance(w_list[i])
    BY <2>1, ComputedIsInt, IntsBelowStart DEF NoOverflow
  <2>4. /\ NoOverflow' = NoOverflow
        /\ \A k \in All : Distance(w_list[k])' = Distance(w_list[k])
    BY <2>1 DEF NoOverflow, Fits, Distance
  <2>5. NoOverflow => \A k \in All : Distance(w_list[k]) \in Int
    BY IntsBelowStart DEF NoOverflow, Fits
  <2>6. TypeOK'
    BY <2>1, <2>2, <2>3, ListFacts DEF IInv, TypeOK, All
  <2>7. ChosenSoFar'
    <3>1. i' # 1 /\ i < i'
      BY <2>1 DEF All
    <3>2. CASE Nearer(d)
      <4>1. min_distance' = d /\ min_id' = w_list[i].id
        BY <2>2, <3>2
      <4>2. ASSUME NoOverflow, NEW j \in All, j < i, i # 1
            PROVE  Distance(w_list[i]) < Distance(w_list[j])
        <5>1. PICK k \in All : /\ min_distance = Distance(w_list[k])
                               /\ FirstNearest(k)
          BY <4>2 DEF IInv, ChosenSoFar
        <5>2. Distance(w_list[k]) <= Distance(w_list[j])
          BY <4>2, <5>1 DEF FirstNearest
        <5>3. Distance(w_list[i]) < Distance(w_list[k])
          BY <2>3, <3>2, <4>2, <5>1 DEF Nearer
        <5> QED BY <2>1, <2>5, <4>2, <5>2, <5>3
      <4>n. PICK n \in All : n = i
        BY <2>1
      <4>3. NoOverflow' => FirstNearest(n)'
        <5> SUFFICES ASSUME NoOverflow, NEW j \in All, j < i'
                     PROVE  /\ Distance(w_list[n]) <= Distance(w_list[j])
                            /\ j < n => Distance(w_list[n]) < Distance(w_list[j])
          BY <2>1, <2>4 DEF FirstNearest
        <5>1. CASE j = i
          BY <2>1, <2>5, <4>n, <5>1
        <5>2. CASE j # i
          <6>1. j < i /\ i # 1
            BY <2>1, <5>2 DEF All
          <6> QED BY <2>1, <2>5, <4>n, <4>2, <6>1
        <5> QED BY <5>1, <5>2
      <4>4. n < i' /\ min_id' = w_list[n].id /\ min_distance' \in Ints
            /\ (NoOverflow' => min_distance' = Distance(w_list[n])')
        BY <2>1, <2>3, <2>4, <3>1, <4>1, <4>n
      <4> QED BY <3>1, <4>3, <4>4 DEF ChosenSoFar
    <3>3. CASE ~Nearer(d)
      <4>1. min_distance' = min_distance /\ min_id' = min_id
        BY <2>2, <3>3
      <4>2. i # 1
        BY <2>3, <3>3 DEF IInv, ChosenSoFar, Nearer
      <4>3. PICK k \in All :
              /\ k < i /\ min_id = w_list[k].id /\ min_distance \in Ints
              /\ NoOverflow => min_distance = Distance(w_list[k]) /\ FirstNearest(k)
        BY <4>2 DEF IInv, ChosenSoFar
      <4>4. NoOverflow' => FirstNearest(k)'
        <5> SUFFICES ASSUME NoOverflow, NEW j \in All, j < i'
                     PROVE  /\ Distance(w_list[k]) <= Distance(w_list[j])
                            /\ j < k => Distance(w_list[k]) < Distance(w_list[j])
          BY <2>1, <2>4 DEF FirstNearest
        <5>1. CASE j = i
          <6>1. Distance(w_list[k]) <= Distance(w_list[i])
            BY <2>1, <2>3, <2>5, <3>3, <4>3 DEF Nearer
          <6> QED BY <2>1, <4>3, <5>1, <6>1 DEF All
        <5>2. CASE j # i
          <6>1. j < i
            BY <2>1, <5>2 DEF All
          <6> QED BY <4>3, <6>1 DEF FirstNearest
        <5> QED BY <5>1, <5>2
      <4>5. k < i'
        BY <2>1, <4>3 DEF All
      <4> QED BY <2>4, <3>1, <4>1, <4>3, <4>4, <4>5 DEF ChosenSoFar
    <3> QED BY <3>2, <3>3
  <2> QED BY <2>6, <2>7 DEF IInv
<1> QED BY <1>1, <1>2

(* Every address gets a warehouse, even if the arithmetic overflows.       *)
THEOREM AlwaysChooses == Spec => []SomeChosen
<1>1. IInv => SomeChosen
  BY ListFacts DEF IInv, TypeOK, ChosenSoFar, SomeChosen, Done, All
<1> QED BY <1>1, InvInit, InvStep, PTL DEF Spec

(* Without overflow the first of the nearest warehouses is chosen.         *)
THEOREM ChoosesNearest == Spec => []NearestChosen
<1>1. IInv => NearestChosen
  <2> SUFFICES ASSUME IInv, Done, Len(w_list) > 0, NoOverflow
               PROVE  \E k \in All :
                        /\ min_id = w_list[k].id
                        /\ \A j \in All :
                             /\ Distance(w_list[k]) <= Distance(w_list[j])
                             /\ j < k => Distance(w_list[k]) < Distance(w_list[j])
    BY DEF NearestChosen, NoOverflow, All
  <2>1. i # 1 /\ \A j \in All : j < i
    BY ListFacts DEF Done, IInv, TypeOK, All
  <2>2. PICK k \in All : min_id = w_list[k].id /\ FirstNearest(k)
    BY <2>1 DEF IInv, ChosenSoFar
  <2> QED BY <2>1, <2>2 DEF FirstNearest
<1> QED BY <1>1, InvInit, InvStep, PTL DEF Spec

=============================================================================
