------------------------------ MODULE Warehouse ------------------------------
(***************************************************************************)
(* The warehouse service (src/gware_manage): the consumer of               *)
(* ORDER_RESULT_QUEUE, which records a paid order as a task and locks its  *)
(* stock, and the delivery endpoint, over the tables ware_sku and          *)
(* ware_order_task.                                                        *)
(*                                                                         *)
(*  - The queue is read by several listener threads in CLIENT_ACKNOWLEDGE  *)
(*    mode: a message that is not acknowledged is redelivered, up to the   *)
(*    client's limit, and then ends on the dead letter queue.  (A bean     *)
(*    with another limit is declared and not applied.)  receiveOrder       *)
(*    acknowledges after saving the task and before locking stock.         *)
(*  - lockStock is one database transaction.  SELECT ... FOR UPDATE goes   *)
(*    through the index on sku_id and so locks all the rows of a sku until *)
(*    the end of the transaction; its UPDATEs become visible at the        *)
(*    commit.  MySQL picks a victim when transactions wait in a circle.    *)
(*  - saveWareOrderTask is called outside any transaction, so each of its  *)
(*    statements commits on its own.                                       *)
(*                                                                         *)
(* The order service's answer to a request to split an order is always an  *)
(* error (the endpoint wants wareSkuMapJson and is sent wareSkuMap), so    *)
(* checkOrderSplit's sub-orders never come to be and are not modelled.     *)
(* Messages are well formed and name each sku once, as checkout builds     *)
(* them from a cart keyed by sku.                                          *)
(***************************************************************************)
EXTENDS Integers, Sequences, FiniteSets, Functions

CONSTANTS
    Orders,     \* orders that may be paid
    Skus,       \* goods
    Wares,      \* warehouses
    Consumers,  \* listener threads of ORDER_RESULT_QUEUE
    Clerks,     \* request threads of /delivery
    RowIds,     \* ids that rows of ware_sku may have
    Demand,     \* Demand[o][s]: how many of sku s order o buys
    Shelved,    \* Shelved[r]: the <<sku, warehouse>> of a row present at the start
    InitStock,  \* InitStock[r]: its stock
    Restocks,   \* <<sku, warehouse, stock>> that an operator may add as a new row
    MaxRedeliveries, \* times a message is redelivered at most (the client's default is 6)
    MaxSends,   \* messages the order service sends in all (a bound)
    MaxCrashes, \* crashes of a thread or connection (a bound)
    MaxDeliveries, \* calls of /delivery (a bound)
    MaxSessions, \* sessions the pooled connections to the broker give out
    NoRow, NoWare, NoTx, NoOrder

Tx == Consumers \cup Clerks
Lines(o) == DOMAIN Demand[o]

ASSUME WarehouseAssumption ==
    /\ Consumers \cap Clerks = {} /\ NoTx \notin Tx
    /\ NoWare \notin Wares /\ NoOrder \notin Orders
    /\ NoRow \notin Skus \X (Wares \cup {NoWare})
    /\ \A o \in Orders : /\ Lines(o) \subseteq Skus
                         /\ \A s \in Lines(o) : Demand[o][s] \in Nat \ {0}
    /\ IsFiniteSet(Orders) /\ IsFiniteSet(Consumers) /\ IsFiniteSet(RowIds)
    /\ Shelved \in [RowIds -> (Skus \X Wares) \cup {NoRow}]
    /\ InitStock \in [RowIds -> Nat] /\ Restocks \subseteq Skus \X Wares \X Nat
    /\ MaxSends \in Nat /\ MaxCrashes \in Nat /\ MaxDeliveries \in Nat
    /\ MaxSessions \in Nat /\ MaxRedeliveries \in Nat

VARIABLES
    row,        \* ware_sku: the <<sku, warehouse>> of each row, or NoRow
    stock,      \* ware_sku.stock
    stockLocked,\* ware_sku.stock_locked, NULL read as 0
    rowLock,    \* the transaction holding the index entries of a sku
    tasks,      \* ware_order_task, in order of insertion
    queue,      \* ORDER_RESULT_QUEUE: messages of an order that wait after so many redeliveries
    dead,       \* orders with a message on the dead letter queue
    sent,       \* messages of an order ever sent
    unheard,    \* acknowledgements of an order's message that got lost
    outbox,     \* what was put on SKU_DEDUCT_QUEUE and SKU_DELIVER_QUEUE
    crashes,    \* crashes so far
    deliveries, \* calls of /delivery so far
    sessions,   \* sessions opened to send on; none is ever closed
    pc,         \* where a thread stands
    order,      \* the order a consumer works on
    redelivered,\* how often its message has been redelivered
    task,       \* the row of ware_order_task a thread works on, 0 if none
    ware,       \* wareOrderTask.wareId, in memory
    todo,       \* order lines not yet inserted (pc "details") or checked ("select")
    short       \* lockStock's comment is not empty: some line lacks stock

wareSkuVars == <<row, stock, stockLocked>>
boundVars   == <<crashes, deliveries, sessions>>
queueVars   == <<queue, dead, sent, unheard>>
threadVars  == <<pc, order, redelivered, task, ware, todo, short>>
vars == <<wareSkuVars, rowLock, tasks, queueVars, outbox, boundVars, threadVars>>

TaskStatus == {"PAID", "DEDUCTED", "OUT_OF_STOCK", "DELEVERED"}

\* Rows of ware_sku for a sku in a warehouse; of ware_order_task for an order.
RowsOf(s, w)  == {r \in RowIds : row[r] = <<s, w>>}
TasksOf(o)    == {i \in DOMAIN tasks : tasks[i].orderId = o}
Available(r)  == stock[r] - stockLocked[r]

\* getWareSkuMap: the warehouses that hold any of an order's goods.
WaresHolding(o) == {row[r][2] : r \in {q \in RowIds : /\ row[q] # NoRow
                                                      /\ row[q][1] \in Lines(o)}}

\* Where a consumer still owes the broker an acknowledgement.
Unacknowledged_AckFirst == {}
Unacknowledged == {"save", "insert", "details", "ack"}

-----------------------------------------------------------------------------
\* Messages and how often they have come.
QueuesOK ==
    /\ queue \in [Orders -> [0 .. MaxRedeliveries -> Nat]] /\ dead \subseteq Orders
    /\ sent \in [Orders -> Nat] /\ unheard \in [Orders -> Nat]
    /\ redelivered \in [Tx -> 0 .. MaxRedeliveries]

TypeOK ==
    /\ QueuesOK
    /\ row \in [RowIds -> (Skus \X Wares) \cup {NoRow}]
    /\ stock \in [RowIds -> Nat] /\ stockLocked \in [RowIds -> Nat]
    /\ rowLock \in [Skus -> Tx \cup {NoTx}]
    /\ tasks \in Seq([orderId : Orders, wareId : Wares \cup {NoWare},
                      taskStatus : TaskStatus, details : SUBSET Skus])
    /\ outbox \subseteq [orderId : Orders, status : TaskStatus]
    /\ crashes \in Nat /\ deliveries \in Nat /\ sessions \in Nat
    /\ pc \in [Tx -> {"idle", "save", "insert", "details", "ack",
                   "split", "select", "send", "commit"}]
    /\ order \in [Tx -> Orders \cup {NoOrder}]
    /\ task \in [Tx -> Nat]
    /\ ware \in [Tx -> Wares \cup {NoWare}]
    /\ todo \in [Tx -> SUBSET Skus]
    /\ short \in [Tx -> BOOLEAN]

Init ==
    /\ row = Shelved /\ stock = InitStock
    /\ stockLocked = [r \in RowIds |-> 0]
    /\ rowLock = [s \in Skus |-> NoTx]
    /\ tasks = <<>> /\ outbox = {} /\ crashes = 0 /\ deliveries = 0 /\ sessions = 0
    /\ queue = [o \in Orders |-> [n \in 0 .. MaxRedeliveries |-> 0]] /\ dead = {}
    /\ sent = [o \in Orders |-> 0] /\ unheard = [o \in Orders |-> 0]
    /\ pc = [t \in Tx |-> "idle"]
    /\ order = [t \in Tx |-> NoOrder]
    /\ redelivered = [t \in Tx |-> 0]
    /\ task = [t \in Tx |-> 0]
    /\ ware = [t \in Tx |-> NoWare]
    /\ todo = [t \in Tx |-> {}]
    /\ short = [t \in Tx |-> FALSE]

-----------------------------------------------------------------------------
\* The environment.

\* sendOrderToWare: the order service announces a paid order; again whenever
\* the payment's success is announced to it again.
NotifyWare(o) ==
    /\ SumFunctionOnSet(sent, Orders) < MaxSends
    /\ sent' = [sent EXCEPT ![o] = @ + 1]
    /\ queue' = [queue EXCEPT ![o][0] = @ + 1]
    /\ UNCHANGED <<wareSkuVars, rowLock, tasks, dead, unheard, outbox, boundVars, threadVars>>

\* addWareSku inserts a row whatever rows there are.  The insert waits while a
\* transaction holds the sku's index entries and the gaps between them.
AddWareSku(r, s, w, n) ==
    /\ row[r] = NoRow /\ rowLock[s] = NoTx
    /\ row' = [row EXCEPT ![r] = <<s, w>>]
    /\ stock' = [stock EXCEPT ![r] = n]
    /\ UNCHANGED <<stockLocked, rowLock, tasks, queueVars, outbox, boundVars, threadVars>>

-----------------------------------------------------------------------------
\* WareConsumer.receiveOrder.

\* The thread drops its work; the end of its transaction, by commit or by
\* rollback, frees its row locks.
Leave_KeepLocks(t) ==
    /\ pc' = [pc EXCEPT ![t] = "idle"]
    /\ order' = [order EXCEPT ![t] = NoOrder]
    /\ redelivered' = [redelivered EXCEPT ![t] = 0]
    /\ task' = [task EXCEPT ![t] = 0]
    /\ ware' = [ware EXCEPT ![t] = NoWare]
    /\ todo' = [todo EXCEPT ![t] = {}]
    /\ short' = [short EXCEPT ![t] = FALSE]
    /\ UNCHANGED rowLock
Leave(t) ==
    /\ pc' = [pc EXCEPT ![t] = "idle"]
    /\ order' = [order EXCEPT ![t] = NoOrder]
    /\ redelivered' = [redelivered EXCEPT ![t] = 0]
    /\ task' = [task EXCEPT ![t] = 0]
    /\ ware' = [ware EXCEPT ![t] = NoWare]
    /\ todo' = [todo EXCEPT ![t] = {}]
    /\ short' = [short EXCEPT ![t] = FALSE]
    /\ rowLock' = [s \in Skus |-> IF rowLock[s] = t THEN NoTx ELSE rowLock[s]]

Receive(c, o, n) ==
    /\ pc[c] = "idle" /\ queue[o][n] > 0
    /\ queue' = [queue EXCEPT ![o][n] = @ - 1]
    /\ order' = [order EXCEPT ![c] = o]
    /\ redelivered' = [redelivered EXCEPT ![c] = n]
    /\ pc' = [pc EXCEPT ![c] = "save"]
    /\ UNCHANGED <<wareSkuVars, rowLock, tasks, dead, sent, unheard, outbox, boundVars,
                   task, ware, todo, short>>

\* The broker has not heard of an acknowledgement: it delivers the message once
\* more, or gives up and leaves it on the dead letter queue.
Redeliver(c) ==
    IF redelivered[c] < MaxRedeliveries
    THEN /\ queue' = [queue EXCEPT ![order[c]][redelivered[c] + 1] = @ + 1]
         /\ UNCHANGED dead
    ELSE /\ dead' = dead \cup {order[c]}
         /\ UNCHANGED queue

\* saveWareOrderTask looks for a task of the order.  When it finds one it
\* returns it, and receiveOrder carries on as if it had saved a new one.
\* Two of them make selectOne throw, here and at every redelivery.
FindTask(c) ==
    /\ pc[c] = "save"
    /\ \/ /\ TasksOf(order[c]) = {}
          /\ pc' = [pc EXCEPT ![c] = "insert"]
          /\ UNCHANGED <<order, redelivered, task, ware, todo, short, rowLock, queue, dead>>
       \/ /\ Cardinality(TasksOf(order[c])) = 1
          /\ pc' = [pc EXCEPT ![c] = "ack"]
          /\ UNCHANGED <<order, redelivered, task, ware, todo, short, rowLock, queue, dead>>
       \/ /\ Cardinality(TasksOf(order[c])) > 1
          /\ Redeliver(c) /\ Leave(c)
    /\ UNCHANGED <<wareSkuVars, tasks, sent, unheard, outbox, boundVars>>

\* The new row holds the message's wareId, and the order service sends none.
InsertTask(c) ==
    /\ pc[c] = "insert"
    /\ tasks' = Append(tasks, [orderId |-> order[c], wareId |-> ware[c],
                               taskStatus |-> "PAID", details |-> {}])
    /\ task' = [task EXCEPT ![c] = Len(tasks) + 1]
    /\ todo' = [todo EXCEPT ![c] = Lines(order[c])]
    /\ pc' = [pc EXCEPT ![c] = "details"]
    /\ UNCHANGED <<wareSkuVars, rowLock, queueVars, outbox, boundVars, order, redelivered, ware, short>>

InsertDetail(c, s) ==
    /\ pc[c] = "details" /\ s \in todo[c]
    /\ tasks' = [tasks EXCEPT ![task[c]].details = @ \cup {s}]
    /\ todo' = [todo EXCEPT ![c] = @ \ {s}]
    /\ pc' = [pc EXCEPT ![c] = IF todo[c] = {s} THEN "ack" ELSE "details"]
    /\ UNCHANGED <<wareSkuVars, rowLock, queueVars, outbox, boundVars, order, redelivered, task, ware, short>>

\* The client sends the acknowledgement and does not wait: it may be lost with
\* the connection, and the listener goes on all the same.
Acknowledge(c) ==
    /\ pc[c] = "ack"
    /\ pc' = [pc EXCEPT ![c] = "split"]
    /\ \/ UNCHANGED <<queue, dead, unheard, crashes>>
       \/ /\ crashes < MaxCrashes
          /\ crashes' = crashes + 1
          /\ unheard' = [unheard EXCEPT ![order[c]] = @ + 1]
          /\ Redeliver(c)
    /\ UNCHANGED <<wareSkuVars, rowLock, tasks, sent, outbox, deliveries, sessions,
                   order, redelivered, task, ware, todo, short>>

\* checkOrderSplit: one warehouse that holds any of the goods is taken for the
\* whole order; several, or none, end in an exception, and the message is
\* acknowledged already.
CheckOrderSplit(c) ==
    /\ pc[c] = "split"
    /\ \/ \E w \in Wares :
             /\ WaresHolding(order[c]) = {w}
             /\ ware' = [ware EXCEPT ![c] = w]
             /\ todo' = [todo EXCEPT ![c] = Lines(order[c])]
             /\ pc' = [pc EXCEPT ![c] = "select"]
             /\ UNCHANGED <<order, redelivered, task, short, rowLock>>
       \/ /\ Cardinality(WaresHolding(order[c])) # 1
          /\ Leave(c)
    /\ UNCHANGED <<wareSkuVars, tasks, queueVars, outbox, boundVars>>

-----------------------------------------------------------------------------
\* GwareServiceImpl.lockStock.

\* selectStockBySkuidForUpdate waits for the sku's index entries and takes them.
LockSku_PlainSelect(c, s) == UNCHANGED rowLock
LockSku(c, s) ==
    /\ rowLock[s] = NoTx
    /\ rowLock' = [rowLock EXCEPT ![s] = c]

\* The line asks for more than the row it found has available.
Lacks_IgnoringLocked(c, s) ==
    \E r \in RowsOf(s, ware[c]) : stock[r] - Demand[order[c]][s] < 0
Lacks(c, s) ==
    \E r \in RowsOf(s, ware[c]) : Available(r) - Demand[order[c]][s] < 0

\* No row gives null, which lockStock unboxes; two rows make the mapper throw.
\* Either way the transaction is rolled back.
SelectForUpdate(c, s) ==
    /\ pc[c] = "select" /\ s \in todo[c]
    /\ \/ /\ Cardinality(RowsOf(s, ware[c])) = 1
          /\ LockSku(c, s)
          /\ short' = [short EXCEPT ![c] = @ \/ Lacks(c, s)]
          /\ todo' = [todo EXCEPT ![c] = @ \ {s}]
          /\ pc' = [pc EXCEPT ![c] = IF todo[c] = {s} THEN "send" ELSE "select"]
          /\ UNCHANGED <<order, redelivered, task, ware>>
       \/ /\ Cardinality(RowsOf(s, ware[c])) # 1
          /\ rowLock[s] = NoTx
          /\ Leave(c)
    /\ UNCHANGED <<wareSkuVars, tasks, queueVars, outbox, boundVars>>

Verdict(c) == IF short[c] THEN "OUT_OF_STOCK" ELSE "DEDUCTED"

\* A message is sent in a session of its own, before the database transaction
\* commits; a JMSException, with the session open or not, is printed and
\* forgotten.  When no session is left createSession waits for one, for ever.
Send(m) ==
    /\ sessions < MaxSessions
    /\ \/ outbox' = outbox \cup {m} /\ sessions' = sessions + 1
       \/ UNCHANGED outbox /\ sessions' \in {sessions, sessions + 1}

SendSkuDeductMQ(c) ==
    /\ pc[c] = "send"
    /\ Send([orderId |-> order[c], status |-> Verdict(c)])
    /\ pc' = [pc EXCEPT ![c] = "commit"]
    /\ UNCHANGED <<wareSkuVars, rowLock, tasks, queueVars, crashes, deliveries,
                   order, redelivered, task, ware, todo, short>>

\* incrStockLocked for every line, unless some line lacked stock.
IncrStockLocked_Overwrite(c) ==
    stockLocked' = [r \in RowIds |->
        IF ~short[c] /\ \E s \in Lines(order[c]) : r \in RowsOf(s, ware[c])
        THEN Demand[order[c]][row[r][1]]
        ELSE stockLocked[r]]
IncrStockLocked_AnyWarehouse(c) ==
    stockLocked' = [r \in RowIds |->
        IF ~short[c] /\ row[r] # NoRow /\ row[r][1] \in Lines(order[c])
        THEN stockLocked[r] + Demand[order[c]][row[r][1]]
        ELSE stockLocked[r]]
IncrStockLocked(c) ==
    stockLocked' = [r \in RowIds |->
        IF ~short[c] /\ \E s \in Lines(order[c]) : r \in RowsOf(s, ware[c])
        THEN stockLocked[r] + Demand[order[c]][row[r][1]]
        ELSE stockLocked[r]]

\* The status of every task of the order is set, whatever it was.
CommitLock(c) ==
    /\ pc[c] = "commit" /\ c \in Consumers
    /\ IncrStockLocked(c)
    /\ tasks' = [i \in DOMAIN tasks |->
                    IF tasks[i].orderId = order[c]
                    THEN [tasks[i] EXCEPT !.taskStatus = Verdict(c)]
                    ELSE tasks[i]]
    /\ Leave(c)
    /\ UNCHANGED <<row, stock, queueVars, outbox, boundVars>>

-----------------------------------------------------------------------------
\* GwareServiceImpl.deliveryStock, for a task picked from the list.

\* The task and its lines are read; nothing asks whether the task is DEDUCTED.
\* The message is committed before the database transaction.
SendToOrder(k, i) ==
    /\ pc[k] = "idle" /\ i \in DOMAIN tasks /\ deliveries < MaxDeliveries
    /\ deliveries' = deliveries + 1
    /\ task' = [task EXCEPT ![k] = i]
    /\ ware' = [ware EXCEPT ![k] = tasks[i].wareId]
    /\ todo' = [todo EXCEPT ![k] = tasks[i].details]
    /\ Send([orderId |-> tasks[i].orderId, status |-> "DELEVERED"])
    /\ pc' = [pc EXCEPT ![k] = "commit"]
    /\ UNCHANGED <<wareSkuVars, rowLock, tasks, queueVars, crashes, order, redelivered, short>>

\* What the UPDATE of one line of the task takes off the row r.
Shipped_AnyWarehouse(k, r) ==
    LET o == tasks[task[k]].orderId
    IN  IF row[r] # NoRow /\ row[r][1] \in todo[k] THEN Demand[o][row[r][1]] ELSE 0
Shipped(k, r) ==
    LET o == tasks[task[k]].orderId
    IN  IF \E s \in todo[k] : r \in RowsOf(s, ware[k]) THEN Demand[o][row[r][1]] ELSE 0

CommitDelivery(k) ==
    /\ pc[k] = "commit" /\ k \in Clerks
    /\ stock' = [r \in RowIds |-> stock[r] - Shipped(k, r)]
    /\ stockLocked' = [r \in RowIds |-> stockLocked[r] - Shipped(k, r)]
    /\ tasks' = [tasks EXCEPT ![task[k]].taskStatus = "DELEVERED"]
    /\ Leave(k)
    /\ UNCHANGED <<row, queueVars, outbox, boundVars>>

-----------------------------------------------------------------------------
\* Failures.

\* t waits for a row lock that u holds.
WaitsFor(t, u) == pc[t] = "select" /\ \E s \in todo[t] : rowLock[s] = u

\* MySQL rolls back one of the transactions that wait for each other in a
\* circle; the exception leaves receiveOrder, whose message is gone.
DeadlockVictim(c) ==
    /\ \E S \in SUBSET Consumers :
          /\ c \in S
          /\ \A t \in S : /\ \E u \in S \ {t} : WaitsFor(t, u)
                         /\ \E u \in S \ {t} : WaitsFor(u, t)
    /\ Leave(c)
    /\ UNCHANGED <<wareSkuVars, tasks, queueVars, outbox, boundVars>>

\* A thread dies, or an exception (a lost connection, a lock wait timeout) ends
\* its work.
Crash(t) ==
    /\ pc[t] # "idle" /\ crashes < MaxCrashes
    /\ crashes' = crashes + 1
    /\ IF pc[t] \in Unacknowledged THEN Redeliver(t) ELSE UNCHANGED <<queue, dead>>
    /\ Leave(t)
    /\ UNCHANGED <<wareSkuVars, tasks, sent, unheard, outbox, deliveries, sessions>>

-----------------------------------------------------------------------------
\* The steps a listener thread takes by itself.
Work(c) ==
    \/ \E o \in Orders, n \in 0 .. MaxRedeliveries : Receive(c, o, n)
    \/ FindTask(c) \/ InsertTask(c) \/ Acknowledge(c)
    \/ \E s \in Skus : InsertDetail(c, s)
    \/ CheckOrderSplit(c)
    \/ \E s \in Skus : SelectForUpdate(c, s)
    \/ SendSkuDeductMQ(c) \/ CommitLock(c)
    \/ DeadlockVictim(c)

Deliver(k) ==
    \/ \E i \in DOMAIN tasks : SendToOrder(k, i)
    \/ CommitDelivery(k)

Next ==
    \/ \E o \in Orders : NotifyWare(o)
    \/ \E r \in RowIds, x \in Restocks : AddWareSku(r, x[1], x[2], x[3])
    \/ \E c \in Consumers : Work(c)
    \/ \E k \in Clerks : Deliver(k)
    \/ \E t \in Tx : Crash(t)

\* A listener thread keeps running: the container reads the queue in a loop.
Spec == Init /\ [][Next]_vars /\ \A c \in Consumers : WF_vars(Work(c))

-----------------------------------------------------------------------------
\* Properties.

\* Reading, checking, locking, telling the order service and committing, by
\* several listeners with crashes and redeliveries in between, look from the
\* table ware_sku like single steps that promise a whole order out of available
\* goods, or do nothing; deliveries of whatever task, and repeated ones, never
\* take goods that were not promised.
Goods == INSTANCE Shelf WITH row <- row, stock <- stock, stockLocked <- stockLocked
ImplementsShelf == Goods!Spec

\* No row promises more goods than it has: the check of the available stock
\* and the update it allows are one step to every other listener, because the
\* sku's index entries stay locked in between (lockStock).
NoOversell == \A r \in RowIds : stockLocked[r] <= stock[r]

\* When a listener has decided that an order can be served, and tells the order
\* service so before it commits, the goods are still there: in its warehouse
\* each line has exactly one row, with enough available stock.
VerdictStillHolds ==
    \A c \in Consumers :
        pc[c] \in {"send", "commit"} /\ ~short[c] =>
            \A s \in Lines(order[c]) :
                \E r \in RowIds : /\ RowsOf(s, ware[c]) = {r}
                                  /\ Available(r) >= Demand[order[c]][s]

\* What the rows of a sku promise in all, and what some orders buy of it.
LockedOf(s) == SumFunctionOnSet(stockLocked, {r \in RowIds : row[r] # NoRow /\ row[r][1] = s})
Pieces(o, s) == IF s \in Lines(o) THEN Demand[o][s] ELSE 0
BoughtBy(os, s) == SumFunctionOnSet([o \in Orders |-> Pieces(o, s)], os)

DeductedOrders == {o \in Orders : \E i \in TasksOf(o) : tasks[i].taskStatus = "DEDUCTED"}

\* Tasks shown as DEDUCTED have their goods locked: whatever crashes, repeats
\* and reorders, ware_sku holds at least what these orders buy.
DeductedIsBacked ==
    \A s \in Skus : BoughtBy(DeductedOrders, s) <= LockedOf(s)

\* One message locks an order's goods at most once, and once more for every
\* acknowledgement that got lost, though listeners die and messages are
\* redelivered at any point: what was not acknowledged has locked nothing.
LockedOncePerMessage ==
    \A s \in Skus :
        LockedOf(s) <= SumFunctionOnSet([o \in Orders |-> (sent[o] + unheard[o]) * Pieces(o, s)], Orders)

\* A message leaves the broker's queue only when its order has a task to be
\* found by, or lies on the dead letter queue after more failures than the
\* client redelivers messages: a restart or two of a listener lose no order.
NoOrderForgotten ==
    \A o \in Orders : sent[o] > 0 =>
        \/ \E n \in 0 .. MaxRedeliveries : queue[o][n] > 0
        \/ \E c \in Consumers : order[c] = o
        \/ TasksOf(o) # {}
        \/ o \in dead /\ crashes > MaxRedeliveries

\* As long as there are sessions to send on, a listener that starts locking
\* stock gets through, or is rolled back: no two of them wait for each other's
\* rows for ever.  (The sessions are never given back, and whoever waits for one
\* keeps his row locks.)
LockingEnds ==
    \A c \in Consumers : pc[c] = "select" ~> (pc[c] = "idle" \/ sessions = MaxSessions)

\* A delivered order's goods have left the shelf: what deliveryStock's comment
\* says it does (reduce stock and locked stock).
DeliveredLeavesStock ==
    [][\A i \in DOMAIN tasks :
          (tasks[i].taskStatus = "DEDUCTED" /\ tasks'[i].taskStatus = "DELEVERED")
          => \A s \in tasks[i].details :
                \E r \in RowIds : row[r] # NoRow /\ row[r][1] = s /\ stock'[r] < stock[r]]_vars
=============================================================================
