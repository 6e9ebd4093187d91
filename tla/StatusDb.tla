------------------------------ MODULE StatusDb ------------------------------
(***************************************************************************)
(* Update_Order_Status (db_func.hpp), as called at the same time by the    *)
(* World thread, the packers and the UPS thread.  Each call opens a        *)
(* connection of its own, locks the order's row, updates it, commits and   *)
(* disconnects.  A statement that fails is rolled back, and the call       *)
(* returns without disconnecting; a connection that cannot be made ends    *)
(* the whole server.                                                       *)
(*                                                                         *)
(* PostgreSQL is outside src/: a limited number of connections, a lock on  *)
(* each row, and transactions whose effect is seen when they commit.       *)
(*                                                                         *)
(* A definition marked "slip" is a wrong variant of the one below it.  It  *)
(* is not part of the specification: it shows what a property would catch. *)
(***************************************************************************)
EXTENDS Naturals, FiniteSets

CONSTANTS
  Threads,         \* threads that may be inside Update_Order_Status at once
  Orders,          \* rows of orders_order
  Values,          \* values written to the status column
  Initial,         \* the column's default
  NoThread,        \* nobody holds the lock of a row
  MaxConnections,  \* max_connections of PostgreSQL
  MaxFailures,     \* bound: how many statements or commits fail
  DbMayVanish      \* may PostgreSQL be unreachable?

ASSUME StatusDbAssumption ==
  /\ IsFiniteSet(Threads) /\ NoThread \notin Threads
  /\ Orders # {} /\ Values # {}
  /\ MaxConnections \in Nat /\ MaxFailures \in Nat
  /\ DbMayVanish \in BOOLEAN

VARIABLES
  server,    \* "running", or why connectDB has called exit
  pc,        \* pc[t]: the statement at which the call of t is
  args,      \* args[t]: order and value of that call
  row_lock,  \* row_lock[o]: the thread whose transaction locked the row
  status,    \* committed content of the status column
  open,      \* connections that PostgreSQL holds for the server
  leaked,    \* of these, the ones whose call is over
  failures   \* failed statements so far

vars == <<server, pc, args, row_lock, status, open, leaked, failures>>

Args == [order : Orders, value : Values]
Row(t) == args[t].order
Goto(t, l) == pc' = [pc EXCEPT ![t] = l]

Init ==
  /\ server = "running"
  /\ pc = [t \in Threads |-> "idle"]
  /\ args = [t \in Threads |-> CHOOSE a \in Args : TRUE]
  /\ row_lock = [o \in Orders |-> NoThread]
  /\ status = [o \in Orders |-> Initial]
  /\ open = 0 /\ leaked = 0 /\ failures = 0
-----------------------------------------------------------------------------
Outside(t) == pc[t] \in {"idle", "returned", "failed"}
Inside(t) == server = "running" /\ ~Outside(t)

(* A thread calls Update_Order_Status: connectDB comes first.              *)
Call(t) ==
  /\ server = "running" /\ Outside(t)
  /\ \E a \in Args : args' = [args EXCEPT ![t] = a]
  /\ Goto(t, "connect")
  /\ UNCHANGED <<server, row_lock, status, open, leaked, failures>>

(* connectDB and the transaction's begin.                                  *)
Connect(t) ==
  /\ server = "running" /\ pc[t] = "connect"
  /\ open < MaxConnections
  /\ open' = open + 1
  /\ Goto(t, "select")
  /\ UNCHANGED <<server, args, row_lock, status, leaked, failures>>

(* exit(EXIT_FAILURE): one call without a connection ends all threads.     *)
ConnectFails(t) ==
  /\ server = "running" /\ pc[t] = "connect"
  /\ \/ open >= MaxConnections /\ server' = "full"
     \/ DbMayVanish /\ server' = "unreachable"
  /\ UNCHANGED <<pc, args, row_lock, status, open, leaked, failures>>

TakeRowLock(t) == /\ row_lock[Row(t)] = NoThread
                  /\ row_lock' = [row_lock EXCEPT ![Row(t)] = t]

(* SELECT ... FOR UPDATE waits for the row's lock.                         *)
SelectForUpdate(t) ==
  /\ server = "running" /\ pc[t] = "select"
  /\ TakeRowLock(t)
  /\ Goto(t, "update")
  /\ UNCHANGED <<server, args, status, open, leaked, failures>>

(* UPDATE: seen by this transaction only.                                  *)
Update(t) ==
  /\ server = "running" /\ pc[t] = "update"
  /\ Goto(t, "commit")
  /\ UNCHANGED <<server, args, row_lock, status, open, leaked, failures>>

(* Slip: the transaction stays open, with its lock.                        *)
KeepLock(t) == UNCHANGED row_lock

(* The end of a transaction releases its lock, if it has one yet.          *)
EndTransaction(t) ==
  row_lock' = [o \in Orders |-> IF row_lock[o] = t THEN NoThread
                                                   ELSE row_lock[o]]

Write(t) == status' = [status EXCEPT ![Row(t)] = args[t].value]

Commit(t) ==
  /\ server = "running" /\ pc[t] = "commit"
  /\ Write(t)
  /\ EndTransaction(t)
  /\ Goto(t, "disconnect")
  /\ UNCHANGED <<server, args, open, leaked, failures>>

(* Slip: the success path does not disconnect either.                      *)
LeaveOpen == open' = open

CloseConnection == open' = open - 1

Disconnect(t) ==
  /\ server = "running" /\ pc[t] = "disconnect"
  /\ CloseConnection
  /\ Goto(t, "returned")
  /\ UNCHANGED <<server, args, row_lock, status, leaked, failures>>

(* Slip: no return after the abort.                                        *)
ErrorIgnored(t) == Goto(t, "disconnect")

ReturnAfterError(t) == Goto(t, "failed")

(* An exception of a statement or of the commit: abort and return.  A      *)
(* connection that still stands is never closed.  A commit whose answer is *)
(* lost (the connection is, too) may have been carried out.                *)
StatementFails(t) ==
  /\ server = "running" /\ pc[t] \in {"select", "update", "commit"}
  /\ failures < MaxFailures
  /\ failures' = failures + 1
  /\ \/ leaked' = leaked + 1 /\ UNCHANGED <<open, status>>
     \/ /\ open' = open - 1
        /\ UNCHANGED leaked
        /\ UNCHANGED status \/ (pc[t] = "commit" /\ Write(t))
  /\ EndTransaction(t)
  /\ ReturnAfterError(t)
  /\ UNCHANGED <<server, args>>
-----------------------------------------------------------------------------
Step(t) == Connect(t) \/ ConnectFails(t) \/ Update(t) \/ Commit(t)
           \/ Disconnect(t)

Next == \E t \in Threads : Call(t) \/ Step(t) \/ SelectForUpdate(t)
                           \/ StatementFails(t)

Spec == Init /\ [][Next]_vars

(* Threads keep running, and PostgreSQL hands a row's lock to those that   *)
(* wait for it one after the other.                                        *)
Fairness == \A t \in Threads : WF_vars(Step(t)) /\ SF_vars(SelectForUpdate(t))

FairSpec == Spec /\ Fairness
-----------------------------------------------------------------------------
Connected == {t \in Threads :
                pc[t] \in {"select", "update", "commit", "disconnect"}}

TypeOK ==
  /\ server \in {"running", "full", "unreachable"}
  /\ pc \in [Threads -> {"idle", "connect", "select", "update", "commit",
                         "disconnect", "returned", "failed"}]
  /\ args \in [Threads -> Args]
  /\ row_lock \in [Orders -> Threads \cup {NoThread}]
  /\ status \in [Orders -> Values \cup {Initial}]
  /\ open \in 0..MaxConnections
  /\ leaked \in Nat /\ failures \in Nat

(* The server does not exit for want of connections before failed updates  *)
(* have leaked all those that its threads do not need at once; every       *)
(* failure leaks at most one, and nothing but a failure does.              *)
ExitNeedsLeaks ==
  /\ server = "full" => leaked + Cardinality(Threads) > MaxConnections
  /\ leaked <= failures

(* What the calls do to the status column is what StatusRegister allows,   *)
(* seen from the callers.                                                  *)
R == INSTANCE StatusRegister WITH
       phase <- [t \in Threads |->
                   IF Outside(t) THEN pc[t]
                   ELSE IF pc[t] = "disconnect" THEN "applied" ELSE "called"]

ImplementsRegister == R!Spec

(* Every call comes back, however many wait for the same row and whatever  *)
(* fails, or the server has exited.                                        *)
CallsReturn == \A t \in Threads : Inside(t) ~> ~Inside(t)

=============================================================================
