# mini_Amazon: models and proofs

TLA+ models of the mini_Amazon order system: what its server, its web shop and
their peers do to each other, which properties hold of that, checked with TLC on
small instances and, for the ones that matter most, proved with TLAPS for every
value of the constants. Paths below are relative to `src/`.

## 1. The system

mini_Amazon is a web shop (`amazonWeb/`, Django) and a C++ server (`server/`).
A customer fills a cart and checks out; the shop saves an `Order` with its items
and sends it as XML over a socket to the server. The server buys the products
from the **World** (a simulator of warehouses and trucks), has them packed, asks
**UPS** (another team's program) for a truck, has the package loaded, tells UPS
to deliver it, and writes each stage into the `status` column of the order, which
the shop shows. World and UPS speak length-prefixed protobuf messages; every
message has a sequence number and is repeated until its receiver acknowledges it.

```
  browser --- Django views ---- orders, items, sessions (Postgres)
                  |                     ^ UPDATE status
                  | XML, port 8873      |
                  v                     |
              order threads ---+    +---+----------- packer threads
                               v    |                    ^ one per ready package
              shared maps, lists, bit sets, numbers      |
                               ^    ^                    |
              UPS thread ------+    +------ World thread-+
                  |                             |
  sending threads, one per command: send, sleep, look at the bit, send again
                  v                             v
                 UPS                          World
```

### Components, their state and their operations

| component | code | state | operations |
|---|---|---|---|
| cart and checkout | `cart/cart.py`, `cart/views.py`, `orders/views.py`, `orders/models.py` | the session's cart; `Order` and `OrderItem` rows | add, set, remove, view, `order_create`, `sendOrder`; deletion of a product |
| order threads | `frontend_handle.hpp`, `send_ApurchaseMore_to_world` | `seqnum_to_orderinfo`, `shipid_to_whid`, `purchase_request_list` | parse, choose a warehouse, store the order, list and send the purchase |
| choice of the warehouse | `select_warehouse`, `Init_warehouse` | `w_list` | nearest warehouse to an address |
| World thread | `Process_Aresponse`, `Process_Arrived`, `WorldHandler` | `recv_acks`, the lists | arrived, ready, loaded, error, acknowledgement |
| packer threads | `Process_APacked` | their message | mark packed, wait for a truck, load |
| UPS thread | `UPS_handle.hpp` | `shipid_to_truckid` | truck arrived, delivered, acknowledgement |
| sending threads | `Send_command_to_World`, `Send_command_to_UPS` | `server_seq_num`, `send_acks` | draw a number, clear its bit, send until the bit is set |
| intake of orders | `sendOrder`, `FrontendHandler`, `receive_data_from_frontend` | connections and their descriptors | connect, write, close; accept, read to the end, hand over |
| status updates | `db_func.hpp` | the `status` column, row locks, connections | connect, `SELECT ... FOR UPDATE`, `UPDATE`, commit, disconnect |
| startup | `server.cpp`, `server.hpp` | `world_id`, sockets | handshake with World, handshake with UPS, retry |
| message framing | `GPB_message.hpp` | the socket, stream buffers | write and read one message |
| catalogue, accounts | `amazon/`, `users/` | rows | pages |
| World, UPS | outside the repository | - | carry out commands, answer |

Vendored and generated: `tinyxml2`, `taskflow`, `ThreadPool.h` (a pool is made,
every use of it is commented out), `protobuf/*.pb.*`, `practice_example/`.

### What is hard here

* **Threads over shared data.** Maps, vectors and bit sets are global; only the
  purchase lists (a mutex for each warehouse) and the counter of numbers are locked.
* **At-least-once delivery.** Commands and answers are repeated until acknowledged;
  copies and acknowledgements get lost, partly because each read makes a new
  `FileInputStream`, whose read-ahead is thrown away.
* **Acknowledging and finishing are not the same moment.** The bit that marks an
  answer as received is set when its handler starts.
* **Swallowed failures.** A rolled-back `UPDATE`, a socket error in `sendOrder` or in
  a sending thread, a failed `bind`: the caller goes on in each case.
* **Sessions are copied and written back whole**, by every request that modifies
  them - and a page view that finds an empty cart counts as one.
* **Nothing survives a restart** of the server but the rows in the database; no code
  takes up the orders they stand for.
* **Error paths leak.** A failed `UPDATE` returns without closing its connection, a
  receiving thread that meets an error leaves its descriptor open; PostgreSQL refuses
  the connection after the last one, and one refusal ends the whole server. An exception
  in the handling of an order does the same to the descriptor, and drops the order.
* **A killed server may leave its ports held.** `bind` asks for no reuse and nobody looks
  at its result: a server that is started again too soon listens where nobody calls.
* **A read takes more than its message.** What a stream has read ahead is gone with
  it; the rest of a message that was torn so is next taken for a length.

### What makes each component correct

* order pipeline: nothing is sent to World or UPS before what it builds on has
  happened; the status column tells the truth; every order is delivered in the
  end; an acknowledged arrival is packed; the list the World thread iterates over
  stands still; without repetitions, nothing is shipped twice.
* restarts: the server does nothing more for an order it has forgotten, and what came
  in after the restart is delivered all the same.
* status updates: as seen by the callers a call writes atomically or not at all, it
  comes back, and only failures use connections up.
* message framing: what the handlers get is a part of what was sent, in its order;
  noise reaches them only after writes mixed or a message was torn, and whatever else goes
  wrong has one of three causes.
* intake: an order is processed whole or not at all; an order that was sent is
  processed, unless its handling throws, or server or descriptors are lost.
* sending threads: numbers are unique; a thread ends only when its command was
  carried out; it does end while its peer's answers are read.
* cart and checkout: for a customer who waits for each page, one atomic basket;
  in any case an order reaches the server whole or not at all; a saved order is sent.
* warehouse choice: always some warehouse, and the nearest one.
* startup: World and UPS are in the same world when the threads start.

`PROJECT.json` lists every hazard with its line and the properties that watch it.

## 2. The modules

| module | models | kind |
|---|---|---|
| `OrderLifecycle` | what the status column promises | abstract specification |
| `Fulfilment` | order, World, packer and UPS threads, status updates | detailed |
| `Restart` | `Fulfilment` in a server that is killed and started again | extends `Fulfilment` |
| `StatusRegister` | what `Update_Order_Status` promises | abstract specification |
| `StatusDb` | connections, row locks, transactions of `Update_Order_Status` | detailed |
| `Handover` | what a sending thread promises | abstract specification |
| `Outbox` | numbers, `send_acks`, sending threads, receivers of acknowledgements | detailed |
| `LossyLine` | what the handlers rely on when messages come in | abstract specification |
| `Framing` | `sendMesgTo`, `recvMesgFrom`, their streams | detailed |
| `Basket` | what the shop promises a customer | abstract specification |
| `Checkout` | sessions, cart views, `order_create`, `sendOrder` | detailed |
| `WarehouseChoice` | `select_warehouse` with int overflow | algorithm |
| `Startup` | `main` and the two handshakes, restarts | detailed |
| `Intake` | an order on its way from `sendOrder` to `Process_order` | extends `Startup` |
| `MC...` | small instances of each for TLC | |
| `...Proofs` | theorems about each | |

`Fulfilment` and `Outbox` split the server along the line where a handler hands a
command to a sending thread: `Fulfilment` has `sent[k][o]` grow there and lets the
answer come at any later moment; `Outbox` shows that this is what the sending
threads provide (`Handover`). What may happen to a message between the two ends of a
socket is `Framing`: its `LossyLine` is the cause of `LoseCopy` and `LoseAck` in `Outbox`.
A status update is one step in `Fulfilment`; that its callers can tell no more is
what `StatusDb` shows (`StatusRegister`). `Checkout` ends, and `Fulfilment` begins
(`Process_order`), at the socket between shop and server; `Intake` is that socket, in
composition with `Startup`, from whose end it takes its first connection. `whOf` of
`Fulfilment` is what `WarehouseChoice` computes. `Restart` composes `Fulfilment` with the
death of its process.

Some definitions are marked *slip*: wrong variants of the definition under them
(a dropped guard, a missing reset, a test that is off by one). They are no part of
any specification; each shows what a property would catch, and `PROJECT.json`
(`mutants`) says which.

### Fulfilment

| action | code |
|---|---|
| `Process_order`, `StoreInfo`, `PushRequest` | `Process_order`; `send_ApurchaseMore_to_world` up to its `lock_guard`; the rest of it |
| `ReceiveArrived`, `ScanSkip`, `ScanMatch`, `ScanMiss`, `MarkPacking`, `RequestPickup`, `FinishArrived` | `Process_Arrived`: before the loop, one turn of the loop in its steps, after it |
| `ReceiveReady`, `StartPacker`, `LoadPackage` | the thread started for a ready package; `Process_APacked` before and after its polling loop |
| `ReceiveLoaded`, `ReceiveError` | the other items of `Process_Aresponse` |
| `ReceiveTruckArrived`, `ReceiveDelivered`, `UpsReceiveFails` | `Process_UACommands`; the end of `UPSHandle`'s loop |

Abstractions, and why they are sound here:

* A command is named by kind, package and position, an answer by its command;
  numbers themselves are the business of `Outbox`. World and UPS number their answers
  independently but share `recv_acks`: `SharedNumbers` lets a fresh answer look like
  one seen before.
* A batch (`AResponses`, `UACommands`) is its items, one after the other. Only the
  thread that reads a peer handles its items, in order, so nothing is lost by this.
* A status update and the sends after it are one step where no other thread can
  tell: the update is written first, and an answer can only follow the send. In
  `Process_Arrived`, where the list and the mutex are shared, the steps are separate.
* `Racy` adds what unlocked accesses may do: a map insertion lost or hidden by
  another one under way, a bit of `recv_acks` undone by a neighbour's. A crash of the
  process by such a race is not modelled.
* World and UPS answer every command (also the second of two for one package),
  repeat an answer until its acknowledgement arrives, and carry out a command once for
  each number. `MaxResends` bounds the repetitions, `MaxErrors` the refusals (`AErr`).

### Restart

`Crash` is the end of the process between any two steps and its start with
everything that Fulfilment's `Init` gives memory, threads and the new world; the
status column stays (`stranded` names the orders that came in before). The handshake
makes a new World, so no answer of the old one arrives; UPS, one program for all
worlds, may still answer what it was asked before (`OldAnswer`). That UPS could take the
numbers of the new run, which start at 0 again, for repetitions of old ones depends on
UPS and is not modelled.

### StatusDb

| action | code |
|---|---|
| `Call`, `Connect`, `ConnectFails` | the call; `connectDB` and the transaction's begin; its `exit` |
| `SelectForUpdate`, `Update`, `Commit`, `Disconnect` | the statements in their order |
| `StatementFails` | the `catch`: abort and return, the connection left open unless it is what broke |

A commit whose answer is lost may have taken effect. Threads are those that may be
inside `Update_Order_Status` at once: World thread, UPS thread, packers.

### Outbox

`GetSeqNum`, `LoadToClear`, `ClearAndStart` are the common part of the five
`send_.../Send_...` handlers; `SendCopy`, `StopSending`, `SendFails` one turn of
`Send_command_to_...`; `LoadToSet`, `SetBit` the acknowledgement loops of
`Process_Aresponse` and `Process_UACommands`. `std::bitset` keeps bits in words, and an
assignment to a bit reads and writes its word; the two halves are two steps. The
model stops where numbers would leave the bit set (`AckBits`, 100000 in the code).
`ReceiverEnds` is the end of `receive_UACommands_from_UPS` at its first failed read: of the
receiving threads (`reading`) those of the `Fragile` peers, which is UPS, may end at any moment
between two messages; afterwards no acknowledgement of that peer is ever taken. The
World thread tries again and is not fragile. A socket error reaches a sending thread only while
it writes a message larger than its stream's buffer, for `sendMesgTo` ignores the result
of `Flush` (`SendFails`); a smaller one counts as a lost copy.

### Framing

A *piece* is a part of a message that no write and no read divides, so that lengths
and bytes need no counting: the first piece carries the length. `Write` is one `write` of
`sendMesgTo`'s stream (a message in `Long` takes one for each piece, others one in all);
`Read(k)` is one `read` of `recvMesgFrom`'s stream, whatever has come up to then, followed
by what the reader makes of it: `Receive` (the stream with its read-ahead is
destroyed), `NeedMore`, or `Misread`, when what is in the buffer does not start with
the beginning of a message; garbage may keep it waiting, fail, or happen to parse, and then
a handler is given it (`received` grows by `Noise`). `EndOfStream` is a closed peer. `retries` tells the World thread, which goes
on after a failure, from the UPS thread, which ends.

To compare it with `LossyLine`, `Marks` lets the first piece of a message stand for the message
and every other piece be noise: one write puts a message, or noise, on the line and noise
behind it, a read takes the message in front or loses what is there. Noise is given to a
handler (`Garble`) only on a line that was `harmed`: one on which writes have mixed or the
read-ahead of a receive has torn a message.

### Checkout

A request is `Load` (the session is read when `Cart(request)` is made), the body of its
view, and the saving of the session by Django's middleware, which for the cart views
is the last step of the body. `order_create` is `SaveOrder`, `StoreItem` for each line
(`StoreFails` when the product is gone), `SendOrder`, `FinishOrder`; settings have neither
`ATOMIC_REQUESTS` nor another session engine, so each row is committed as it is
written. `ViewPage` is every page: all of them make a `Cart` through the context
processor, and one that finds the cart empty saves the session. `Vanish` is the
deletion of a product with its `CASCADE`. Not modelled: prices, logging in and out in
the middle of a session, the checkout of somebody not logged in (an error before
anything is saved).

### WarehouseChoice

One step for each turn of the loop. The squared distance is an `int` expression: where
an intermediate result leaves the range, any `int` may be its outcome (`Computed`).

### Startup

`ConnectWorld`/`LoseWorld` are `Amazon_connect_to_world`; `Listen`, `Accept`, `Confirmed`,
`HandshakeFails` are `Amazon_wait_for_UPS` and the branches of `main`. No socket is closed
and `bind`'s result is ignored, so a second listening socket never gets the port
(`PortAfterBind`) and nobody calls it. Nor does `bind` ask for reuse of an address: a server that
was killed with a connection of UPS may leave the port `held` (`PortAfterKill`) until that is gone
(`PortExpires`); a new server that comes to `Listen` before has its socket on another port and
stays in `accept` (`Deaf`), without a failed handshake and even after the port is free again.

### Intake

| action | code |
|---|---|
| `Save`, `Connect`, `Write`, `Close`, `WriteFails` | `order_create` up to its call of `sendOrder`; `sendOrder` |
| `Die` | a process of the shop ends while it sends |
| `AcceptOrder` | one turn of `FrontendHandler`'s loop; without a free descriptor it fails and tries again |
| `OpenDoor`, `DoorExpires` | `FrontendHandler` up to its loop: `bind` and `listen`, on port 8873 unless a killed server left it held; the operating system lets go of it |
| `Recv`, `LeaveOpen` | `receive_data_from_frontend`: one `recv`; a first `recv` of 0 or -1, or the `append` of -1 bytes that throws: its returns without `close` |
| `Process`, `ProcessThrows` | `Process_order` and `close`; an exception in it, which the `catch` answers with a return without `close` |
| `Kill`, `Crash` | the process is killed: connections are reset, what was read of them is gone, the ports may be held; a text that does not parse dereferences a null root |

`parts[o]` divides an order's text into what one `recv` may return; an order's text is
complete, or it does not parse. `Unfit` names the orders whose handling may throw: `stoi` and
`stoll` out of range, a null `GetText()` of an empty description, a `std::thread` that cannot be
started.

## 3. What the runs check

| run | instance | shows |
|---|---|---|
| `repeats` | 2 different orders, 1 warehouse, 1 repeated answer, colliding numbers | `CauseChain`, `AckedArrivalIsPacked`, `LoadKnowsWarehouse`, `NumbersBudget`, `ListStableDuringScan`, and under fairness `StaysDelivered`, `AnswersAcked` |
| `once` | `Restart`: 3 different orders, a refusal, the UPS thread may end, the server is killed once, no repetition | `OneShipment`, `NothingForStranded`, `StrandedStandStill`, the pipeline implements `OrderLifecycle` over the restart, and under fairness `FreshDelivered` |
| `faults` | 2 orders, every fault of `Fulfilment` at once | `TypeOK`, `StatusIsEarned` |
| `outbox` | a command for each peer, bits of one word, every copy and acknowledgement losable, failing sends, a UPS thread that may end | `TypeOK`, `UniqueNumbers`, `StoppedMeansCarriedOut`, `Outbox` implements `Handover`, and under fairness `EverySenderStops` |
| `status_db` | 2 threads, 2 orders, 3 connections, 3 failures, PostgreSQL may vanish | `TypeOK`, `ExitNeedsLeaks`, `StatusDb` implements `StatusRegister`, and under fairness `CallsReturn` |
| `framing` | 4 messages of 1 to 3 pieces, 2 of them written piece by piece, a peer that may close | `NothingWrongWithoutCause`, `TakingTurnsIsSafe`, `Framing` implements `LossyLine` |
| `cart_alone` | 4 requests, one at a time, vanishing products, failing sends | `Checkout` implements `Basket` |
| `cart_overlap` | 3 requests, 2 open at once, vanishing products | `TypeOK`, `ShippedWhole`, `VanishedLineStays`, and under fairness `SavedIsSent` |
| `warehouse` | 4 warehouses, addresses -6..9, ints of 7 bits | `SomeChosen`, `NearestChosen` |
| `startup` | `Intake`: 1 lost world, 1 restart with ports that may be held, 3 orders, one of 2 parts and one whose handling may throw, 2 descriptors, 1 broken request | `SameWorld`, `NoSecondChance`, `IntakeTypeOK`, `ProcessedIsWhole`, `OnlyBrokenHarm`, and under fairness `StartsOrFails`, `SentIsProcessed` |

Two runs end in a counterexample, each to a sentence the repository says about itself:

| run | sentence | what happens |
|---|---|---|
| `packed_twice` | "remove stored order info" (`world_handle.hpp:219`) | the erase is commented out and the loop goes on: of two orders of the same products each arrival packs both |
| `ordered_twice` | "clear the cart" (`orders/views.py:39`) | a checkout that loaded the session before another one saved it orders the same units again |

Other surprising behaviours show up as properties that hold. A repeated answer is
processed twice, so `OneShipment` is checked only where answers come once. An
acknowledgement's bit can be lost to a neighbour's stale word, and all that
follows is more copies (`EverySenderStops`, `StoppedMeansCarriedOut`) - but once the UPS thread
has ended, commands to UPS are sent without end. A vanished
product locks the cart (`VanishedLineStays`), and the retry of a failed UPS handshake
cannot succeed (`NoSecondChance`). A server started again while the port of its predecessor is
held waits for a call that nobody can make; `StartsOrFails` has to except it (`Deaf`). Throwing the read-ahead away is harmless between peers
that take turns (`TakingTurnsIsSafe`), and World and UPS do not. After a restart an order
stays at the stage it had reached, for good (`StrandedStandStill`). A request of the shop
that dies while it sends either costs the server a descriptor or, when part of its text has
been read, the whole process (`Crash`); an order that is sent in full but whose handling throws
is dropped and costs a descriptor, too (`OnlyBrokenHarm`). And what is left of a torn message may
parse, so that a handler acts on what nobody sent (`ImplementsLossyLine`, by `Garble`).

### Bounds, and why they are enough

* *Two orders.* The threads of one order meet those of another in pairs: at a list and
  its mutex, in a map insertion, at the matching of an arrival. A third order adds
  no new kind of meeting; `once` has three, so that one may be forgotten by a restart
  while another was on its way and a third comes later; the theorems below do not
  depend on the number.
* *One repetition* (`MaxResends` = 1) of any answer at any time shows every handler run
  twice for one message, and two packers for one package. `once` and `packed_twice` do
  without it, so that what comes from repetitions is kept apart from what does not.
* *Two warehouses* exist in every instance; both orders use one, the case in which
  they share list and mutex.
* *Outbox*: two commands for two peers put two handlers and two receivers to work on one
  word, all the kinds of thread that share it; the receiver of UPS may end. The theorems cover any number of them.
* *Checkout*: two open requests are enough for each read-save conflict, three requests for
  an add, a conflict and its consequence. Products and requests are symmetric in `cart_alone`,
  which checks no liveness; its quantities 1 and 2 tell setting from adding.
* *WarehouseChoice*: distances up to 2 * 10^2 overflow 7 bits, those near the diagonal
  do not; addresses lie before, on, between and beyond the warehouses, and off the diagonal.
* *Restart*: one crash, at every moment. The state after a crash depends on what came
  before only through the status column, `stranded` and `leftover`, so a second one
  meets nothing new; the theorems allow any number.
* *StatusDb*: two threads for one row meet at its lock, two rows let them pass each other.
  Three connections are one more than the threads need at once: the first failure takes
  the spare one, the second leaves a thread without.
* *Framing*: two long messages mix; short ones before, between and behind them are
  received, torn or read ahead with them; the buffer has no bound, so that a read can take
  all there is. Three pieces have a middle, which is neither length nor end.
* *Startup and Intake*: one lost world and one restart, at every moment: a restart begins
  with everything new but the worlds, the shop and the held ports, so a second one
  meets nothing new. Three orders compete for two descriptors: one may be lost to a request that
  broke and one to an order that throws, and only both together keep the third order out.
  Two parts make an order that is read in one piece, in two, and in half.

`CHECK_DEADLOCK FALSE` is set everywhere because every instance runs out of orders,
commands, requests or warehouses and then stops.

### Fairness

* `Fulfilment`: weak fairness of each order thread, the World thread, the packers and the
  UPS thread: a started thread is scheduled, and the peer it reads from answers at last.
  No fairness for placing orders, refusals, failures.
* `Outbox`: weak fairness of handlers, of sending another copy (the loop sleeps and goes
  on) and of storing a bit; strong fairness of reception on a lossy line that carries
  copies again and again (`PeerReceives`, `LoadToSet`, the latter while the peer's receiving thread is
  there; nothing makes it end), and of `StopSending`, because a bit may be
  set and cleared again before the thread looks: a thread that looks again and again
  sees it at last. That is an assumption on scheduling; the code bounds no such delay.
* `Checkout`: a worker goes on with a request it has begun.
* `Restart`: `Fulfilment`'s fairness. Nobody has to kill the server, and UPS owes nothing
  for an earlier run.
* `StatusDb`: weak fairness of a call's steps; strong fairness of `SelectForUpdate`, because
  PostgreSQL serves those that wait for a row's lock in a queue. No fairness for calls and failures.
* `Framing`: none; what it says is safety.
* `Startup`: main, the calls and answers of UPS, and the reading of a refusal. The World
  answers at last because lost worlds are bounded. Nothing makes a held port expire.
* `Intake`: moreover the front end's thread opens its port, a request and a receiving thread go on; strong fairness of
  `AcceptOrder`, because the accept loop never stops and a free descriptor goes to the
  oldest of the waiting connections. Nobody has to place an order or to die, and nothing has to throw.

## 4. What is proved

The `...Proofs` modules hold for every value of the constants that satisfies the
assumption named in the component's module (types of the constants; finiteness of
some sets; `IntMax < FarAway`; nothing about numbers or sizes). Where a theorem holds
without a fault only, it says so in its `ASSUME`. Each proof has an inductive invariant,
shown to hold initially and to be kept by each action.

| module | theorem | says | if |
|---|---|---|---|
| `FulfilmentProofs` | `TypeCorrect` | `[]TypeOK` | |
| | `ListStable` | `ListStableDuringScan` | |
| | `CommandsHaveCauses` | `[]CauseChain` | |
| | `StatusEarned` | `[]StatusIsEarned` | |
| | `WarehouseKnown` | `[]LoadKnowsWarehouse` | no races |
| | `AckedIsPacked` | `[]AckedArrivalIsPacked` | no races |
| | `ShippedOnce` | `[]OneShipment` | no repetitions, orders differ |
| | `NumbersLast` | `[]NumbersBudget` | |
| | `FollowsLifecycle` | refinement of `OrderLifecycle` | no repetitions, orders differ, no update fails |
| | `StatusNeverGoesBack` | `[][NoneGoesBack]`: no step takes the column back to an earlier stage | no repetitions, orders differ |
| `RestartProofs` | `NothingIsSent` | `[]NothingForStranded` | |
| | `StrandedStay` | `StrandedStandStill` | |
| | `ShippedOncePerRun` | `[]OneShipment`, `sent` being that of one run | no repetitions, orders differ |
| | `FollowsLifecycleOverRestarts` | refinement of `OrderLifecycle` | no repetitions, orders differ, no update fails |
| | `StatusNeverGoesBackOverRestarts` | `[][NoneGoesBack]` | no repetitions, orders differ |
| `FramingProofs` | `HandlersSeeALossyLine` | refinement of `LossyLine` | |
| | `FailuresHaveCauses`, `TurnsLoseNothing` | `[]NothingWrongWithoutCause`, `[]TakingTurnsIsSafe` | |
| `StatusDbProofs` | `TypeCorrect`, `ExitAfterLeaks` | `[]TypeOK`, `[]ExitNeedsLeaks` | |
| | `UpdatesAreAtomic` | refinement of `StatusRegister` | |
| `OutboxProofs` | `TypeCorrect`, `NumbersUnique`, `NoFalseAck` | `[]TypeOK`, `[]UniqueNumbers`, `[]StoppedMeansCarriedOut` | |
| | `OutboxImplementsHandover` | refinement of `Handover` | |
| `CheckoutProofs` | `TypeCorrect`, `OrdersShipWhole` | `[]TypeOK`, `[]ShippedWhole` | |
| | `VanishedStays` | `VanishedLineStays` | |
| | `SessionIsBasket` | refinement of `Basket` | `MaxOpen = 1` |
| `WarehouseChoiceProofs` | `AlwaysChooses`, `ChoosesNearest` | `[]SomeChosen`, `[]NearestChosen` | |
| `IntakeProofs` | `StartsInSameWorld`, `RetryIsFutile` | `[]SameWorld`, `[]NoSecondChance` (of `Startup`) | |
| | `IntakeTypeCorrect`, `OrdersComeInWhole`, `LeaksExplained` | `[]IntakeTypeOK`, `[]ProcessedIsWhole`, `[]OnlyBrokenHarm` | |
| | `IntakeIsStartup` | every behaviour of `Intake` is one of `Startup`, whose theorems it inherits | |

The invariants, and why the properties are not inductive by themselves:

* *Fulfilment, under all faults* (`IInv`). A step of the World thread uses what earlier steps
  of it have found out, so the invariant ties its position to the rest: while it scans it
  holds the mutex (`MutexHeld`), listed purchases belong to their warehouse
  (`ListedAtHome`), the entry in hand is of the message's contents and, past `ScanMatch`, has
  been sent for packing (`EntryInHand`), the arrival has been marked (`ArrivalSeen`); packers
  exist for packages that the World was asked to pack, and have marked their message once
  they wait (`PackersBelong`); a known truck means an answered pickup (`TrucksAnswered`).
  `CauseChain` is kept with them, and `StatusIsEarned` follows step by step: what a race or a
  failed update takes away is never what a later step relies on.
* *Fulfilment, without races* (`AInv`). Whatever is done for an order is done after its
  request is over (`DInv`), and then the order is listed (`DoneListed`); the maps hold what was
  written to them (`Stored`). So the scan finds every order, what it has passed is packed
  (`ScannedPacked`), and an acknowledged arrival has been sent for packing or is still in
  the World thread's hands (`AckedPacked`).
* *Fulfilment, without repetitions* (`OInv`, `LInv`). That a command is sent once rests on
  the one before it having been answered once: one conjunct for each stage (`BuyOnce` ...
  `LoadedOnce`) says that the count is one at most and that, once it is one, the bit
  of the answer it follows from is set. `HandOnce` holds because orders differ: no
  other order's arrival matches. The life cycle adds which status goes with which bits
  (`StagesFollow`); where updates fail, the column says that stage or an earlier one (`Says`),
  which is why it can leave stages out and cannot go back. `LInv(S)` says it of the orders
  in `S`, all of them here.
* *Fulfilment, with any repetitions* (`BInv`). Sums of counters are not kept by each step:
  what is spent now was due before. So what is under way gets a worth, in the numbers it
  may still take: 5 for a purchase not yet sent, 4 for one whose arrival is to come, 4 for an
  arrival that has still to meet its order in the list, 1 between the two sends for it, 2 for
  a package to be packed and 2 for one in the hands of a packer, 1 for one to be loaded.
  Spent and worth together never exceed `5 + 4 * resends` (`WithinBudget`): each step spends
  what its cause was worth, and a repetition pays for the four it can bring about.
* *Restart, once and in stages* (`RLInv`). After a crash `OInv` holds because nothing of the
  old run is left in memory, and a late answer of UPS sets a bit, a truck number or the
  status, and sends nothing. The column does remember, so the stages are those of the orders that came in since
  the start (`LInv(Fresh)`); `OldOnTheWay` says of the others that UPS owes a delivery only
  where the column has come to "delivering", unless updates fail, so that a late "delivered" is
  the next step. That
  the threads take turns for fresh orders only is `TurnIsFresh`.
* *Restart.* Lists hold requests of this run only (`ListedFresh`) and a forgotten request is
  never read again (`StrandedIsOver`); what UPS still says reaches no list and no
  packer of a forgotten order.
* *Framing.* What is on its way - the buffer and the line together - is described piece by
  piece. `InOrder`: the pieces of one message keep their order, so that one without its beginning
  is never taken for a whole one. `InFrames`: while nothing mixed or was torn, even when the peer
  has closed, the reader is not lost and every piece has those
  before it of its message in front of it, and those behind it as far as anything has been
  written; so nothing can be misread, and `Garble` is not needed. `Turns`: peers that take turns have one message at most between them, and all of
  it is there.
* *StatusDb.* A connection that is open belongs to a call that is between `Connect` and
  `Disconnect`, or has leaked (`OpenIsAccounted`).
* *Outbox.* Everything that could set a bit - a bit, a bit in a loaded word, an
  acknowledgement on its way, the number a receiver is about to mark - belongs to a
  command carried out (`AcksEarned`). A stale word may therefore resurrect or lose an
  acknowledgement, never invent one: this is why the unlocked bit set is harmless to
  safety. Unique numbers need `DrawnBelow`.
* *Checkout.* `OrdersShipWhole` needs that rows and the list to be sent grow side by side
  (`ListedFromCart`) and nothing is sent before the loop is over (`PastTheLoop`).
  `VanishedStays` is a trap: `Blocked(p)` - the session and every copy that may still be
  saved have the line, and no checkout is past it - is kept by every step.
  `SessionIsBasket` adds that the one open request works on a copy of what is saved.
* *WarehouseChoice.* The usual loop invariant, split by whether something overflows.
* *Startup.* The port is listened on from the first handshake on, never free or held
  again, and after a failure main waits on the wrong socket (`PortSpent`).
* *Intake.* A stream that has ended holds a whole text, or its writer died; one that is
  reset lost its writer or its reader (`EndExplained`).

### Model-checked only

* Liveness (`StaysDelivered`, `AnswersAcked`, `FreshDelivered`, `EverySenderStops`, `CallsReturn`,
  `SavedIsSent`, `StartsOrFails`, `SentIsProcessed`): fairness and ENABLED are out of the
  prover's reach.

`NoneGoesBack` is the one action property that is proved and in no run: with `DbMayFail` false,
as in `once`, it follows from the refinement of `OrderLifecycle`.

Every invariant, action property and refinement of a passing run is stated by a theorem,
under the conditions of the table.

## 5. What is not modelled

* The thread pool (`ThreadPool.h`, `taskflow/`): a pool is made and every use of it is
  commented out, so no order ever meets it.
* Vendored and generated code: `tinyxml2`, `taskflow`, `protobuf/*.pb.*` and
  `practice_example/` are about 56,000 of the 58,000 lines of the repository. The models use
  what the server uses of them: a message or a text comes out as it went in, or does not
  parse. The share of the repository's lines that the models stand for is therefore
  small, and cannot grow much; of the project's own server and shop logic little is left out.
* Undefined behaviour that kills the process (a map insertion torn by another thread, a
  write past the bit set); `Crash` of `Restart` at any moment is what it would look
  like. Where a race has a survivable outcome, it is modelled.
* Prices. A price is copied into the cart when a product is added and never compared
  with the product's again; nothing in the code promises more.
* The catalogue and account pages, which display rows and store forms.
* UPS taking the numbers of a restarted server for repetitions: that is up to UPS.
* What a handler makes of noise that parsed. `Framing` says when it is given some; `Fulfilment` and
  `Outbox` take it that such a message changes nothing, though its numbers could
  set any bit of `send_acks` and `recv_acks`. So their theorems hold as long as no write
  has mixed and no message was torn and then read as another one.
* The steps inside the handling of one order text: `Process` of `Intake` is one step, and those
  steps are `Process_order` ... `PushRequest` of `Fulfilment`. A purchase that is listed but never
  sent, because `std::thread` throws at `world_handle.hpp:111`, is in neither: `ProcessThrows`
  says what that means for the descriptor, `Fulfilment` lets every listed purchase be sent.
* `products[0]` of an empty vector, which an order without items comes to (`frontend_handle.hpp:49`):
  only a static member is named through it, and nothing is read.

## 6. Plan

Done: the order pipeline and its restarts, the sending threads, message framing, status
updates, the shop's checkout, the way of an order into the server, the choice of the
warehouse, startup; their abstract specifications; theorems about each. Next:

1. `Shop`: `Checkout` composed with `Intake` and `Fulfilment`, to state end to end that what
   was put in the cart is delivered once.
2. The condition "no repetitions" of `ShippedOnce`, weakened to "no repetition of an answer that
   buys, packs or loads", since repeated errors and deliveries are harmless.
