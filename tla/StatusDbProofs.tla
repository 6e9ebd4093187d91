--------------------------- MODULE StatusDbProofs ---------------------------
(***************************************************************************)
(* Theorems about StatusDb, for any number of threads and connections.     *)
(***************************************************************************)
EXTENDS StatusDb, FiniteSetTheorems, TLAPS

(* The connections that PostgreSQL holds are those of the calls that are   *)
(* connected and those that were leaked.                                   *)
OpenIsAccounted == open = leaked + Cardinality(Connected)

IInv == TypeOK /\ OpenIsAccounted /\ ExitNeedsLeaks
-----------------------------------------------------------------------------
LEMMA ConnectedIsFinite ==
  IsFiniteSet(Connected) /\ Cardinality(Connected) \in Nat
  /\ Cardinality(Threads) \in Nat
BY StatusDbAssumption, FS_Subset, FS_CardinalityType DEF Connected

(* A thread that connects, and one that lets go of its connection.         *)
LEMMA OneMore ==
  ASSUME NEW t \in Threads, t \notin Connected, Connected' = Connected \cup {t}
  PROVE  Cardinality(Connected') = Cardinality(Connected) + 1
BY ConnectedIsFinite, FS_AddElement

LEMMA OneLess ==
  ASSUME NEW t \in Threads, t \in Connected, Connected' = Connected \ {t}
  PROVE  Cardinality(Connected') = Cardinality(Connected) - 1
BY ConnectedIsFinite, FS_RemoveElement

LEMMA SomeArgs == (CHOOSE a \in Args : TRUE) \in Args
<1>1. PICK o \in Orders, v \in Values : TRUE
  BY StatusDbAssumption
<1>2. [order |-> o, value |-> v] \in Args
  BY DEF Args
<1> QED
  BY <1>2

LEMMA IInvInit == Init => IInv
<1> SUFFICES ASSUME Init
             PROVE  IInv
  OBVIOUS
<1>1. (CHOOSE a \in Args : TRUE) \in Args
  BY SomeArgs
<1>2. TypeOK
  BY <1>1, StatusDbAssumption DEF Init, TypeOK
<1>3. Connected = {}
  BY DEF Init, Connected
<1> QED
  BY <1>2, <1>3, FS_EmptySet DEF Init, IInv, OpenIsAccounted, ExitNeedsLeaks

LEMMA IInvStep == IInv /\ [Next]_vars => IInv'
<1> SUFFICES ASSUME IInv, [Next]_vars
             PROVE  IInv'
  OBVIOUS
<1> USE StatusDbAssumption DEF IInv
<1>c. /\ Cardinality(Connected) \in Nat /\ Cardinality(Threads) \in Nat
      /\ Cardinality(Connected) <= Cardinality(Threads)
  BY ConnectedIsFinite, FS_Subset DEF Connected
<1>1. ASSUME NEW t \in Threads, Call(t)
      PROVE  IInv'
  <2>1. Connected' = Connected
    BY <1>1 DEF Call, Outside, Goto, Connected, TypeOK
  <2> QED
    BY <1>1, <2>1 DEF Call, Outside, Goto, TypeOK, OpenIsAccounted, ExitNeedsLeaks
<1>2. ASSUME NEW t \in Threads, Connect(t)
      PROVE  IInv'
  <2>1. t \notin Connected /\ Connected' = Connected \cup {t}
    BY <1>2 DEF Connect, Goto, Connected, TypeOK
  <2>2. Cardinality(Connected') = Cardinality(Connected) + 1
    BY <2>1, OneMore
  <2> QED
    BY <1>2, <1>c, <2>2
    DEF Connect, Goto, TypeOK, OpenIsAccounted, ExitNeedsLeaks
<1>3. ASSUME NEW t \in Threads, ConnectFails(t)
      PROVE  IInv'
  <2>1. t \notin Connected /\ Connected' = Connected
    BY <1>3 DEF ConnectFails, Connected, TypeOK
  <2>a. Cardinality(Connected) < Cardinality(Threads)
    BY <2>1, <1>c, ConnectedIsFinite, FS_Subset DEF Connected
  <2>2. ExitNeedsLeaks'
    BY <1>3, <1>c, <2>a DEF ConnectFails, TypeOK, OpenIsAccounted, ExitNeedsLeaks
  <2> QED
    BY <1>3, <2>1, <2>2 DEF ConnectFails, TypeOK, OpenIsAccounted
<1>4. ASSUME NEW t \in Threads, SelectForUpdate(t)
      PROVE  IInv'
  <2>1. Connected' = Connected
    BY <1>4 DEF SelectForUpdate, Goto, Connected, TypeOK
  <2> QED
    BY <1>4, <2>1
    DEF SelectForUpdate, TakeRowLock, Row, Args, Goto, TypeOK,
        OpenIsAccounted, ExitNeedsLeaks
<1>5. ASSUME NEW t \in Threads, Update(t)
      PROVE  IInv'
  <2>1. Connected' = Connected
    BY <1>5 DEF Update, Goto, Connected, TypeOK
  <2> QED
    BY <1>5, <2>1 DEF Update, Goto, TypeOK, OpenIsAccounted, ExitNeedsLeaks
<1>e. ASSUME NEW t \in Threads, EndTransaction(t)
      PROVE  row_lock' \in [Orders -> Threads \cup {NoThread}]
  BY <1>e DEF EndTransaction, TypeOK
<1>w. ASSUME NEW t \in Threads, Write(t) \/ UNCHANGED status
      PROVE  status' \in [Orders -> Values \cup {Initial}]
  BY <1>w DEF Write, Row, Args, TypeOK
<1>6. ASSUME NEW t \in Threads, Commit(t)
      PROVE  IInv'
  <2>1. Connected' = Connected
    BY <1>6 DEF Commit, Goto, Connected, TypeOK
  <2> QED
    BY <1>6, <1>e, <1>w, <2>1
    DEF Commit, Goto, TypeOK, OpenIsAccounted, ExitNeedsLeaks
<1>7. ASSUME NEW t \in Threads, Disconnect(t)
      PROVE  IInv'
  <2>1. t \in Connected /\ Connected' = Connected \ {t}
    BY <1>7 DEF Disconnect, Goto, Connected, TypeOK
  <2>2. Cardinality(Connected') = Cardinality(Connected) - 1
    BY <2>1, OneLess
  <2>3. Cardinality(Connected) >= 1
    BY <2>1, ConnectedIsFinite, FS_EmptySet
  <2> QED
    BY <1>7, <1>c, <2>2, <2>3
    DEF Disconnect, CloseConnection, Goto, TypeOK, OpenIsAccounted,
        ExitNeedsLeaks
<1>8. ASSUME NEW t \in Threads, StatementFails(t)
      PROVE  IInv'
  <2>1. t \in Connected /\ Connected' = Connected \ {t}
    BY <1>8 DEF StatementFails, ReturnAfterError, Goto, Connected, TypeOK
  <2>2. Cardinality(Connected') = Cardinality(Connected) - 1
    BY <2>1, OneLess
  <2>3. Cardinality(Connected) >= 1
    BY <2>1, ConnectedIsFinite, FS_EmptySet
  <2>4. \/ leaked' = leaked + 1 /\ open' = open
        \/ leaked' = leaked /\ open' = open - 1
    BY <1>8 DEF StatementFails
  <2>5. OpenIsAccounted' /\ ExitNeedsLeaks'
    BY <1>8, <1>c, <2>2, <2>4
    DEF StatementFails, TypeOK, OpenIsAccounted, ExitNeedsLeaks
  <2>6. open' \in 0..MaxConnections /\ leaked' \in Nat /\ failures' \in Nat
    BY <1>8, <1>c, <2>3, <2>4 DEF StatementFails, TypeOK, OpenIsAccounted
  <2>7. Write(t) \/ UNCHANGED status
    BY <1>8 DEF StatementFails
  <2>8. pc' \in [Threads -> {"idle", "connect", "select", "update", "commit",
                             "disconnect", "returned", "failed"}]
    BY <1>8 DEF StatementFails, ReturnAfterError, Goto, TypeOK
  <2> QED
    BY <1>8, <1>e, <1>w, <2>5, <2>6, <2>7, <2>8 DEF StatementFails, TypeOK
<1>9. CASE UNCHANGED vars
  BY <1>9 DEF vars, TypeOK, OpenIsAccounted, ExitNeedsLeaks, Connected
<1> QED
  BY <1>1, <1>2, <1>3, <1>4, <1>5, <1>6, <1>7, <1>8, <1>9 DEF Next, Step

(* Calls, locks and connections keep their types, however calls overlap    *)
(* and fail; in particular no connection is closed twice.                  *)
THEOREM TypeCorrect == Spec => []TypeOK
<1>1. IInv => TypeOK
  BY DEF IInv
<1> QED
  BY <1>1, IInvInit, IInvStep, PTL DEF Spec

(* The server exits for want of a connection only after failed updates     *)
(* have leaked all those that its threads can spare.                       *)
THEOREM ExitAfterLeaks == Spec => []ExitNeedsLeaks
<1>1. IInv => ExitNeedsLeaks
  BY DEF IInv
<1> QED
  BY <1>1, IInvInit, IInvStep, PTL DEF Spec
-----------------------------------------------------------------------------
(* The refinement.                                                         *)

LEMMA RegisterInit == Init => R!Init
<1> SUFFICES ASSUME Init
             PROVE  R!Init
  OBVIOUS
<1>1. (CHOOSE a \in Args : TRUE) \in Args
  BY SomeArgs
<1> QED
  BY <1>1 DEF Init, Outside, Args, R!Init, R!Args

LEMMA RegisterStep ==
  ASSUME TypeOK, [Next]_vars
  PROVE  [R!Next]_(R!vars)
<1> DEFINE phase == [t \in Threads |->
                       IF Outside(t) THEN pc[t]
                       ELSE IF pc[t] = "disconnect" THEN "applied" ELSE "called"]
<1>1. ASSUME NEW t \in Threads, Call(t)
      PROVE  R!Call(t)
  BY <1>1 DEF Call, Outside, Goto, Args, TypeOK, R!Call, R!Args
<1>2. ASSUME NEW t \in Threads, Commit(t)
      PROVE  R!Apply(t)
  BY <1>2 DEF Commit, Outside, Goto, Write, Row, TypeOK, R!Apply, R!Write
<1>3. ASSUME NEW t \in Threads, Disconnect(t)
      PROVE  R!Return(t)
  BY <1>3 DEF Disconnect, Outside, Goto, TypeOK, R!Return
<1>4. ASSUME NEW t \in Threads, StatementFails(t)
      PROVE  R!Fail(t)
  <2>1. Write(t) \/ UNCHANGED status
    BY <1>4 DEF StatementFails
  <2> QED
    BY <1>4, <2>1
    DEF StatementFails, ReturnAfterError, Outside, Goto, Write, Row, TypeOK,
        R!Fail, R!Write
<1>5. ASSUME NEW t \in Threads,
             Connect(t) \/ ConnectFails(t) \/ SelectForUpdate(t) \/ Update(t)
      PROVE  UNCHANGED R!vars
  BY <1>5
  DEF Connect, ConnectFails, SelectForUpdate, Update, Outside, Goto, TypeOK,
      R!vars
<1>6. CASE UNCHANGED vars
  BY <1>6 DEF vars, Outside, R!vars
<1> QED
  BY <1>1, <1>2, <1>3, <1>4, <1>5, <1>6 DEF Next, Step, R!Next

(* A call writes its value at most once and in one step, and has done so   *)
(* when it reports success, however many calls overlap and whatever fails: *)
(* what Fulfilment assumes of Update_Order_Status.                         *)
THEOREM UpdatesAreAtomic == Spec => ImplementsRegister
<1>1. IInv => TypeOK
  BY DEF IInv
<1> QED
  BY <1>1, RegisterInit, RegisterStep, IInvInit, IInvStep, PTL
  DEF Spec, ImplementsRegister, R!Spec

=============================================================================
