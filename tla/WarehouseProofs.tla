--------------------------- MODULE WarehouseProofs ---------------------------
(***************************************************************************)
(* The warehouse for any orders, goods, listeners, clerks and rows of      *)
(* ware_sku: it is type correct, never oversells, forgets no order, and    *)
(* implements the abstract Shelf.                                          *)
(***************************************************************************)
EXTENDS Warehouse, FiniteSetTheorems, TLAPS

\* The thread is inside lockStock's transaction.
Locking == {"select", "send", "commit"}

\* A listener's own variables fit its place in receiveOrder.
ListenerInv ==
    \A c \in Consumers :
        /\ pc[c] # "idle" => order[c] \in Orders
        /\ pc[c] \in {"idle"} \cup Unacknowledged => ware[c] = NoWare
        /\ pc[c] = "details" => task[c] \in DOMAIN tasks /\ todo[c] \subseteq Lines(order[c])
        /\ pc[c] \in Locking => ware[c] \in Wares /\ todo[c] \subseteq Lines(order[c])
        /\ pc[c] \in {"send", "commit"} => todo[c] = {}

\* A clerk delivers a task of the table, and no task names a warehouse.
ClerkInv ==
    /\ \A i \in DOMAIN tasks : tasks[i].wareId = NoWare
    /\ \A k \in Clerks : /\ pc[k] \in {"idle", "commit"}
                         /\ pc[k] = "commit" => task[k] \in DOMAIN tasks
                         /\ ware[k] = NoWare

\* A line that a listener has checked: it holds the sku, and unless it has
\* found a shortage the row it saw can still serve the line.
Checked(c, s) ==
    /\ rowLock[s] = c
    /\ ~short[c] => \E r \in RowIds : /\ RowsOf(s, ware[c]) = {r}
                                      /\ Available(r) >= Demand[order[c]][s]

LockInv ==
    \A c \in Consumers : pc[c] \in Locking =>
        \A s \in Lines(order[c]) \ todo[c] : Checked(c, s)

\* Rows not yet inserted have nothing locked.
RowInv == \A r \in RowIds : row[r] = NoRow => stockLocked[r] = 0

IInv == TypeOK /\ ListenerInv /\ ClerkInv /\ LockInv /\ RowInv /\ NoOversell

-----------------------------------------------------------------------------
LEMMA InitIInv == Init => IInv
<1> SUFFICES ASSUME Init PROVE IInv
    OBVIOUS
<1>1. TypeOK
    BY WarehouseAssumption DEF Init, TypeOK, QueuesOK, Tx
<1>2. ListenerInv /\ ClerkInv /\ LockInv
    BY DEF Init, ListenerInv, ClerkInv, LockInv, Locking, Unacknowledged, Tx
<1>3. RowInv /\ NoOversell
    BY WarehouseAssumption DEF Init, RowInv, NoOversell
<1> QED BY <1>1, <1>2, <1>3 DEF IInv

\* Unchanged tables of goods keep every matching row as it is.
LEMMA SameRows ==
    ASSUME UNCHANGED wareSkuVars
    PROVE  /\ \A s, w : RowsOf(s, w)' = RowsOf(s, w)
           /\ \A r : Available(r)' = Available(r)
           /\ RowInv => RowInv'
           /\ NoOversell => NoOversell'
BY DEF wareSkuVars, RowsOf, Available, RowInv, NoOversell

\* One message of p more, or less, that waits after m redeliveries.
LEMMA QueueChanges ==
    ASSUME IInv, NEW p \in Orders, NEW m \in 0 .. MaxRedeliveries, NEW k \in Nat,
           queue' = [queue EXCEPT ![p][m] = k]
    PROVE  /\ queue' \in [Orders -> [0 .. MaxRedeliveries -> Nat]]
           /\ queue'[p] = [queue[p] EXCEPT ![m] = k]
           /\ \A o \in Orders \ {p} : queue'[o] = queue[o]
           /\ \A o \in Orders, n \in 0 .. MaxRedeliveries :
                 queue'[o][n] = IF o = p /\ n = m THEN k ELSE queue[o][n]
<1>1. queue \in [Orders -> [0 .. MaxRedeliveries -> Nat]]
    BY DEF IInv, TypeOK, QueuesOK
<1>2. queue[p] \in [0 .. MaxRedeliveries -> Nat]
    BY <1>1
<1>3. queue'[p] = [queue[p] EXCEPT ![m] = k] /\ \A o \in Orders \ {p} : queue'[o] = queue[o]
    BY <1>1
<1>4. queue'[p] \in [0 .. MaxRedeliveries -> Nat]
    BY <1>2, <1>3
<1>5. queue' = [queue EXCEPT ![p] = queue'[p]]
    BY <1>1, <1>3
<1>6. queue' \in [Orders -> [0 .. MaxRedeliveries -> Nat]]
    BY <1>1, <1>4, <1>5
<1> QED BY <1>2, <1>3, <1>6

\* The counts are numbers.
LEMMA Counts ==
    ASSUME IInv
    PROVE  /\ \A o \in Orders, n \in 0 .. MaxRedeliveries : queue[o][n] \in Nat
           /\ \A o \in Orders : sent[o] \in Nat /\ unheard[o] \in Nat
           /\ \A t \in Tx : redelivered[t] \in 0 .. MaxRedeliveries
           /\ crashes \in Nat /\ MaxRedeliveries \in Nat /\ 0 \in 0 .. MaxRedeliveries
<1>1. QueuesOK /\ crashes \in Nat /\ MaxRedeliveries \in Nat
    BY WarehouseAssumption DEF IInv, TypeOK
<1>2. /\ \A o \in Orders, n \in 0 .. MaxRedeliveries : queue[o][n] \in Nat
      /\ \A o \in Orders : sent[o] \in Nat /\ unheard[o] \in Nat
      /\ \A t \in Tx : redelivered[t] \in 0 .. MaxRedeliveries
    BY <1>1 DEF QueuesOK
<1>3. 0 \in 0 .. MaxRedeliveries
    BY <1>1
<1> QED BY <1>1, <1>2, <1>3

\* No message sent, taken or redelivered.
LEMMA QueuesKept ==
    ASSUME IInv, UNCHANGED queueVars,
           redelivered' = redelivered \/ \E t \in Tx : Leave(t)
    PROVE  QueuesOK'
<1>1. QueuesOK /\ MaxRedeliveries \in Nat
    BY WarehouseAssumption DEF IInv, TypeOK
<1>2. redelivered' \in [Tx -> 0 .. MaxRedeliveries]
    <2>1. redelivered \in [Tx -> 0 .. MaxRedeliveries] /\ 0 \in 0 .. MaxRedeliveries
        BY <1>1 DEF QueuesOK
    <2>2. \A t \in Tx : Leave(t) => redelivered' = [redelivered EXCEPT ![t] = 0]
        BY DEF Leave
    <2> QED BY <2>1, <2>2
<1> QED BY <1>1, <1>2 DEF QueuesOK, queueVars

\* A thread that leaves its work frees its own row locks and touches nothing
\* that another thread relies on.
LEMMA LeaveStep ==
    ASSUME IInv, NEW t \in Tx, Leave(t),
           UNCHANGED <<wareSkuVars, tasks, sent, unheard, outbox>>,
           queue' \in [Orders -> [0 .. MaxRedeliveries -> Nat]], dead' \subseteq Orders,
           crashes' \in Nat, deliveries' \in Nat, sessions' \in Nat
    PROVE  IInv'
<1> USE DEF IInv
<1>1. TypeOK'
    <2>1. QueuesOK'
        <3>1. QueuesOK /\ MaxRedeliveries \in Nat
            BY WarehouseAssumption DEF TypeOK
        <3>2. redelivered' \in [Tx -> 0 .. MaxRedeliveries]
            <4>1. redelivered \in [Tx -> 0 .. MaxRedeliveries] /\ 0 \in 0 .. MaxRedeliveries
                BY <3>1 DEF QueuesOK
            <4>2. redelivered' = [redelivered EXCEPT ![t] = 0]
                BY DEF Leave
            <4> QED BY <4>1, <4>2
        <3> QED BY <3>1, <3>2 DEF QueuesOK
    <2> QED BY <2>1 DEF TypeOK, Leave, wareSkuVars
<1>2. ListenerInv'
    BY DEF TypeOK, ListenerInv, Leave, Locking, Unacknowledged, Tx
<1>3. ClerkInv'
    BY DEF TypeOK, ClerkInv, Leave, Tx
<1>4. LockInv'
    <2> SUFFICES ASSUME NEW c \in Consumers, pc'[c] \in Locking,
                        NEW s \in Lines(order'[c]) \ todo'[c]
                 PROVE  Checked(c, s)'
        BY DEF LockInv
    <2>1. c # t
        BY DEF TypeOK, Leave, Locking, Tx
    <2>2. /\ pc[c] \in Locking /\ order'[c] = order[c] /\ todo'[c] = todo[c]
          /\ ware'[c] = ware[c] /\ short'[c] = short[c]
        BY <2>1 DEF TypeOK, Leave, Tx
    <2>3. Checked(c, s) /\ order[c] \in Orders
        BY <2>2 DEF LockInv, ListenerInv, Locking
    <2>4. s \in Skus
        BY <2>2, <2>3, WarehouseAssumption
    <2>5. rowLock'[s] = c
        BY <2>1, <2>3, <2>4 DEF Checked, Leave, TypeOK
    <2> QED BY <2>2, <2>3, <2>5, SameRows DEF Checked
<1>5. RowInv' /\ NoOversell'
    BY SameRows
<1> QED BY <1>1, <1>2, <1>3, <1>4, <1>5

\* A redelivery adds one message to the queue, or leaves the order on the dead
\* letter queue; it takes none away.
LEMMA RedeliverStep ==
    ASSUME IInv, NEW t \in Tx, order[t] \in Orders, Redeliver(t)
    PROVE  /\ queue' \in [Orders -> [0 .. MaxRedeliveries -> Nat]]
           /\ dead \subseteq dead' /\ dead' \subseteq Orders
           /\ \A o \in Orders, n \in 0 .. MaxRedeliveries :
                 queue'[o][n] = IF o = order[t] /\ n = redelivered[t] + 1
                                THEN queue[o][n] + 1 ELSE queue[o][n]
           /\ redelivered[t] = MaxRedeliveries => order[t] \in dead'
<1>1. /\ redelivered[t] \in 0 .. MaxRedeliveries /\ MaxRedeliveries \in Nat
      /\ queue \in [Orders -> [0 .. MaxRedeliveries -> Nat]] /\ dead \subseteq Orders
    <2>1. QueuesOK /\ MaxRedeliveries \in Nat
        BY WarehouseAssumption DEF IInv, TypeOK
    <2> QED BY <2>1 DEF QueuesOK
<1>2. CASE redelivered[t] < MaxRedeliveries
    <2> DEFINE m == redelivered[t] + 1
               k == queue[order[t]][m] + 1
    <2>1. m \in 0 .. MaxRedeliveries
        BY <1>1, <1>2
    <2>2. queue' = [queue EXCEPT ![order[t]][m] = k] /\ dead' = dead /\ k \in Nat
        BY <1>2, <2>1, Counts DEF Redeliver
    <2> HIDE DEF m, k
    <2>3. /\ queue' \in [Orders -> [0 .. MaxRedeliveries -> Nat]]
          /\ \A o \in Orders, n \in 0 .. MaxRedeliveries :
                queue'[o][n] = IF o = order[t] /\ n = m THEN k ELSE queue[o][n]
        BY <2>1, <2>2, QueueChanges, ZenonT(60)
    <2>4. dead \subseteq dead' /\ dead' \subseteq Orders
        BY <1>1, <2>2
    <2>5. redelivered[t] # MaxRedeliveries
        BY <1>1, <1>2
    <2>6. \A o \in Orders, n \in 0 .. MaxRedeliveries :
             queue'[o][n] = IF o = order[t] /\ n = redelivered[t] + 1
                            THEN queue[o][n] + 1 ELSE queue[o][n]
        BY <2>3 DEF m, k
    <2> QED BY <2>3, <2>4, <2>5, <2>6
<1>3. CASE redelivered[t] = MaxRedeliveries
    <2>1. queue' = queue /\ dead' = dead \cup {order[t]}
        BY <1>1, <1>3 DEF Redeliver
    <2>2. \A n \in 0 .. MaxRedeliveries : n # redelivered[t] + 1
        BY <1>1, <1>3
    <2> QED BY <1>1, <2>1, <2>2
<1> QED BY <1>1, <1>2, <1>3

\* A step that changes neither the rows of ware_sku, nor their locks, nor what
\* a thread inside lockStock knows, keeps what that thread has checked.
LEMMA OutsideLockStock ==
    ASSUME IInv, UNCHANGED <<wareSkuVars, rowLock>>,
           \A c \in Consumers : pc'[c] \in Locking =>
               /\ pc[c] \in Locking
               /\ order'[c] = order[c] /\ todo'[c] = todo[c]
               /\ ware'[c] = ware[c] /\ short'[c] = short[c]
    PROVE  LockInv' /\ RowInv' /\ NoOversell'
<1>1. LockInv'
    BY SameRows DEF IInv, LockInv, Checked
<1> QED BY <1>1, SameRows DEF IInv

-----------------------------------------------------------------------------
\* One lemma per action.

LEMMA NotifyWareStep ==
    ASSUME IInv, NEW o \in Orders, NotifyWare(o)
    PROVE  IInv'
<1>1. TypeOK'
    <2>1. QueuesOK'
        <3>1. queue[o][0] + 1 \in Nat /\ 0 \in 0 .. MaxRedeliveries
            BY Counts
        <3>2. queue' \in [Orders -> [0 .. MaxRedeliveries -> Nat]]
            BY <3>1, QueueChanges DEF NotifyWare
        <3> QED BY <3>2 DEF IInv, TypeOK, QueuesOK, NotifyWare, threadVars
    <2> QED BY <2>1 DEF IInv, TypeOK, NotifyWare, wareSkuVars, threadVars, boundVars
<1>2. ListenerInv' /\ ClerkInv'
    BY DEF IInv, ListenerInv, ClerkInv, NotifyWare, threadVars
<1>3. LockInv' /\ RowInv' /\ NoOversell'
    BY OutsideLockStock DEF NotifyWare, threadVars
<1> QED BY <1>1, <1>2, <1>3 DEF IInv

LEMMA AddWareSkuStep ==
    ASSUME IInv, NEW r \in RowIds, NEW x \in Restocks, AddWareSku(r, x[1], x[2], x[3])
    PROVE  IInv'
<1> DEFINE s == x[1]
           w == x[2]
           n == x[3]
<1>1. s \in Skus /\ w \in Wares /\ n \in Nat
    BY WarehouseAssumption
<1>2. TypeOK'
    BY <1>1, QueuesKept DEF IInv, TypeOK, AddWareSku, boundVars, threadVars
<1>3. ListenerInv' /\ ClerkInv'
    BY DEF IInv, ListenerInv, ClerkInv, AddWareSku, threadVars
<1>4. RowInv' /\ NoOversell'
    BY <1>1, WarehouseAssumption DEF IInv, TypeOK, RowInv, NoOversell, AddWareSku
<1>5. LockInv'
    <2> SUFFICES ASSUME NEW c \in Consumers, pc[c] \in Locking,
                        NEW t \in Lines(order[c]) \ todo[c]
                 PROVE  Checked(c, t)'
        BY DEF LockInv, AddWareSku, threadVars
    <2>1. Checked(c, t) /\ order[c] \in Orders /\ ware[c] \in Wares
        BY DEF IInv, LockInv, ListenerInv, Locking
    <2>2. t # s
        BY <2>1, WarehouseAssumption DEF Checked, AddWareSku, Tx
    <2>3. RowsOf(t, ware[c])' = RowsOf(t, ware[c])
        <3>1. row[r] # <<t, ware[c]>> /\ <<s, w>> # <<t, ware[c]>>
            BY <2>1, <2>2, WarehouseAssumption DEF AddWareSku
        <3>2. \A q \in RowIds : row'[q] = <<t, ware[c]>> <=> row[q] = <<t, ware[c]>>
            BY <3>1 DEF AddWareSku, IInv, TypeOK
        <3> QED BY <3>2 DEF RowsOf, AddWareSku, threadVars
    <2>4. ASSUME NEW q \in RowIds, RowsOf(t, ware[c]) = {q}
          PROVE  Available(q)' = Available(q)
        <3>1. row[q] = <<t, ware[c]>>
            BY <2>4 DEF RowsOf
        <3>2. row[q] # NoRow
            BY <2>1, <3>1, WarehouseAssumption
        <3> QED BY <3>2 DEF Available, AddWareSku, IInv, TypeOK
    <2> QED BY <2>1, <2>3, <2>4 DEF Checked, AddWareSku, threadVars
<1> QED BY <1>2, <1>3, <1>4, <1>5 DEF IInv

LEMMA ReceiveStep ==
    ASSUME IInv, NEW c \in Consumers, NEW o \in Orders, NEW n \in 0 .. MaxRedeliveries,
           Receive(c, o, n)
    PROVE  IInv'
<1>1. TypeOK'
    <2>1. QueuesOK'
        <3>1. queue[o][n] - 1 \in Nat
            BY Counts DEF Receive
        <3>2. queue' \in [Orders -> [0 .. MaxRedeliveries -> Nat]]
            BY <3>1, QueueChanges DEF Receive
        <3> QED BY <3>2 DEF IInv, TypeOK, QueuesOK, Receive, Tx
    <2> QED BY <2>1 DEF IInv, TypeOK, Receive, wareSkuVars, boundVars, Tx
<1>2. ListenerInv' /\ ClerkInv'
    BY WarehouseAssumption
    DEF IInv, TypeOK, ListenerInv, ClerkInv, Receive, Unacknowledged, Locking, Tx
<1>3. LockInv' /\ RowInv' /\ NoOversell'
    BY OutsideLockStock DEF IInv, TypeOK, Receive, Locking, Tx
<1> QED BY <1>1, <1>2, <1>3 DEF IInv

LEMMA FindTaskStep ==
    ASSUME IInv, NEW c \in Consumers, FindTask(c)
    PROVE  IInv'
<1>1. CASE Leave(c)
    <2>1. order[c] \in Orders /\ c \in Tx
        BY DEF FindTask, IInv, ListenerInv, Tx
    <2>2. queue' \in [Orders -> [0 .. MaxRedeliveries -> Nat]] /\ dead' \subseteq Orders
        BY <2>1, RedeliverStep DEF FindTask, IInv, TypeOK, QueuesOK
    <2> QED BY <1>1, <2>1, <2>2, LeaveStep DEF FindTask, IInv, TypeOK, boundVars
<1>2. CASE ~Leave(c)
    <2>1. /\ pc[c] = "save" /\ pc' \in [Tx -> {"insert", "ack"} \cup {pc[t] : t \in Tx}]
          /\ pc'[c] \in {"insert", "ack"} /\ \A t \in Tx \ {c} : pc'[t] = pc[t]
          /\ UNCHANGED <<wareSkuVars, rowLock, tasks, queueVars, outbox, boundVars,
                         order, redelivered, task, ware, todo, short>>
        BY <1>2 DEF FindTask, IInv, TypeOK, queueVars, Tx
    <2>2. TypeOK'
        BY <2>1, QueuesKept DEF IInv, TypeOK, wareSkuVars, boundVars, Tx
    <2>3. ListenerInv' /\ ClerkInv'
        BY <2>1, WarehouseAssumption
        DEF IInv, TypeOK, ListenerInv, ClerkInv, Unacknowledged, Locking, Tx
    <2>4. LockInv' /\ RowInv' /\ NoOversell'
        BY <2>1, OutsideLockStock DEF Locking, Tx
    <2> QED BY <2>2, <2>3, <2>4 DEF IInv
<1> QED BY <1>1, <1>2

LEMMA InsertTaskStep ==
    ASSUME IInv, NEW c \in Consumers, InsertTask(c)
    PROVE  IInv'
<1> DEFINE new == [orderId |-> order[c], wareId |-> ware[c],
                   taskStatus |-> "PAID", details |-> {}]
<1>1. order[c] \in Orders /\ ware[c] = NoWare
    BY DEF IInv, ListenerInv, InsertTask, Unacknowledged
<1>2. /\ tasks' = Append(tasks, new) /\ Len(tasks) \in Nat
      /\ tasks' \in Seq([orderId : Orders, wareId : Wares \cup {NoWare},
                         taskStatus : TaskStatus, details : SUBSET Skus])
      /\ DOMAIN tasks' = 1 .. Len(tasks) + 1 /\ DOMAIN tasks = 1 .. Len(tasks)
      /\ tasks'[Len(tasks) + 1] = new /\ \A i \in DOMAIN tasks : tasks'[i] = tasks[i]
    BY <1>1 DEF InsertTask, IInv, TypeOK, TaskStatus
<1>3. TypeOK'
    BY <1>1, <1>2, QueuesKept, WarehouseAssumption
    DEF IInv, TypeOK, InsertTask, wareSkuVars, boundVars, Tx
<1>4. ListenerInv'
    BY <1>1, <1>2 DEF IInv, TypeOK, ListenerInv, InsertTask, Unacknowledged, Locking, Tx
<1>5. ClerkInv'
    BY <1>1, <1>2, WarehouseAssumption DEF IInv, TypeOK, ClerkInv, InsertTask, Tx
<1>6. LockInv' /\ RowInv' /\ NoOversell'
    BY OutsideLockStock DEF IInv, TypeOK, InsertTask, Locking, Tx
<1> QED BY <1>3, <1>4, <1>5, <1>6 DEF IInv

\* Updates of existing tasks, one by one, keep the table a table of tasks.
TaskRow == [orderId : Orders, wareId : Wares \cup {NoWare},
            taskStatus : TaskStatus, details : SUBSET Skus]

LEMMA TaskTable ==
    ASSUME NEW old \in Seq(TaskRow), NEW new,
           new = [i \in DOMAIN old |-> new[i]],
           \A i \in DOMAIN old : new[i] \in TaskRow
    PROVE  new \in Seq(TaskRow) /\ DOMAIN new = DOMAIN old
<1>1. DOMAIN old = 1 .. Len(old) /\ Len(old) \in Nat
    OBVIOUS
<1>2. new \in [1 .. Len(old) -> TaskRow]
    BY <1>1
<1> QED BY <1>1, <1>2

\* Updates of existing tasks that leave their order, warehouse and number alone.
LEMMA TasksUpdated ==
    ASSUME IInv, DOMAIN tasks' = DOMAIN tasks,
           \A i \in DOMAIN tasks : tasks'[i].wareId = tasks[i].wareId
    PROVE  \A i \in DOMAIN tasks' : tasks'[i].wareId = NoWare
BY DEF IInv, ClerkInv

LEMMA InsertDetailStep ==
    ASSUME IInv, NEW c \in Consumers, NEW s \in Skus, InsertDetail(c, s)
    PROVE  IInv'
<1>1. task[c] \in DOMAIN tasks
    BY DEF InsertDetail, IInv, ListenerInv
<1>2. /\ tasks' \in Seq([orderId : Orders, wareId : Wares \cup {NoWare},
                         taskStatus : TaskStatus, details : SUBSET Skus])
      /\ DOMAIN tasks' = DOMAIN tasks
      /\ \A i \in DOMAIN tasks : tasks'[i].wareId = tasks[i].wareId
    <2>1. tasks \in Seq(TaskRow)
        BY DEF IInv, TypeOK, TaskRow
    <2>2. \A i \in DOMAIN tasks : tasks[i] \in TaskRow
        BY <2>1
    <2>3. tasks' = [tasks EXCEPT ![task[c]].details = @ \cup {s}]
        BY DEF InsertDetail
    <2>4. tasks' = [i \in DOMAIN tasks |-> tasks'[i]]
        BY <2>1, <2>3
    <2>5. \A i \in DOMAIN tasks : tasks'[i] \in TaskRow /\ tasks'[i].wareId = tasks[i].wareId
        BY <1>1, <2>2, <2>3 DEF TaskRow
    <2> QED BY <2>1, <2>4, <2>5, TaskTable DEF TaskRow
<1>3. TypeOK'
    BY <1>2, QueuesKept DEF IInv, TypeOK, InsertDetail, wareSkuVars, boundVars, Tx
<1>4. ListenerInv'
    BY <1>1, <1>2 DEF IInv, TypeOK, ListenerInv, InsertDetail, Unacknowledged, Locking, Tx
<1>5. ClerkInv'
    BY <1>2, TasksUpdated, WarehouseAssumption
    DEF IInv, TypeOK, ClerkInv, InsertDetail, Tx
<1>6. LockInv' /\ RowInv' /\ NoOversell'
    BY OutsideLockStock DEF IInv, TypeOK, InsertDetail, Locking, Tx
<1> QED BY <1>3, <1>4, <1>5, <1>6 DEF IInv

LEMMA AcknowledgeStep ==
    ASSUME IInv, NEW c \in Consumers, Acknowledge(c)
    PROVE  IInv'
<1>1. TypeOK'
    <2>1. order[c] \in Orders /\ c \in Tx
        BY DEF Acknowledge, IInv, ListenerInv, Tx
    <2>2. /\ queue' \in [Orders -> [0 .. MaxRedeliveries -> Nat]] /\ dead' \subseteq Orders
          /\ unheard' \in [Orders -> Nat] /\ crashes' \in Nat
        <3>1. CASE UNCHANGED <<queue, dead, unheard, crashes>>
            BY <3>1 DEF IInv, TypeOK, QueuesOK
        <3>2. CASE Redeliver(c) /\ crashes' = crashes + 1
                    /\ unheard' = [unheard EXCEPT ![order[c]] = @ + 1]
            <4>1. unheard' \in [Orders -> Nat] /\ crashes' \in Nat
                <5>1. unheard \in [Orders -> Nat] /\ crashes \in Nat
                    BY DEF IInv, TypeOK, QueuesOK
                <5> QED BY <2>1, <3>2, <5>1
            <4> QED BY <2>1, <3>2, <4>1, RedeliverStep
        <3> QED BY <3>1, <3>2 DEF Acknowledge
    <2>3. QueuesOK'
        BY <2>2 DEF Acknowledge, IInv, TypeOK, QueuesOK
    <2> QED BY <2>1, <2>2, <2>3 DEF IInv, TypeOK, Acknowledge, wareSkuVars
<1>2. ListenerInv' /\ ClerkInv'
    BY WarehouseAssumption
    DEF IInv, TypeOK, ListenerInv, ClerkInv, Acknowledge, Unacknowledged, Locking, Tx
<1>3. LockInv' /\ RowInv' /\ NoOversell'
    BY OutsideLockStock DEF IInv, TypeOK, Acknowledge, Locking, Tx
<1> QED BY <1>1, <1>2, <1>3 DEF IInv

LEMMA CheckOrderSplitStep ==
    ASSUME IInv, NEW c \in Consumers, CheckOrderSplit(c)
    PROVE  IInv'
<1>1. CASE Leave(c)
    BY <1>1, LeaveStep DEF CheckOrderSplit, IInv, TypeOK, QueuesOK, queueVars, boundVars, Tx
<1>2. CASE ~Leave(c)
    <2>1. PICK w \in Wares :
             /\ pc[c] = "split" /\ pc' = [pc EXCEPT ![c] = "select"]
             /\ ware' = [ware EXCEPT ![c] = w]
             /\ todo' = [todo EXCEPT ![c] = Lines(order[c])]
             /\ UNCHANGED <<wareSkuVars, rowLock, tasks, queueVars, outbox, boundVars,
                            order, redelivered, task, short>>
        BY <1>2 DEF CheckOrderSplit
    <2>2. order[c] \in Orders /\ Lines(order[c]) \subseteq Skus
        BY <2>1, WarehouseAssumption DEF IInv, ListenerInv
    <2>3. TypeOK'
        BY <2>1, <2>2, QueuesKept DEF IInv, TypeOK, wareSkuVars, boundVars, Tx
    <2>4. ListenerInv'
        BY <2>1, <2>2 DEF IInv, TypeOK, ListenerInv, Unacknowledged, Locking, Tx
    <2>5. ClerkInv'
        BY <2>1, WarehouseAssumption DEF IInv, TypeOK, ClerkInv, Tx
    <2>6. LockInv'
        <3>1. ASSUME NEW d \in Consumers, pc'[d] \in Locking,
                     NEW s \in Lines(order'[d]) \ todo'[d]
              PROVE  Checked(d, s)'
            <4>1. d # c
                BY <2>1, <3>1 DEF IInv, TypeOK, Tx
            <4>2. Checked(d, s)
                BY <2>1, <3>1, <4>1 DEF IInv, TypeOK, LockInv, Tx
            <4>3. /\ ware'[d] = ware[d] /\ short'[d] = short[d]
                  /\ order'[d] = order[d] /\ rowLock' = rowLock
                BY <2>1, <4>1 DEF IInv, TypeOK, Tx
            <4> QED BY <2>1, <4>2, <4>3, SameRows DEF Checked
        <3> QED BY <3>1 DEF LockInv
    <2> QED BY <2>1, <2>3, <2>4, <2>5, <2>6, SameRows DEF IInv
<1> QED BY <1>1, <1>2

-----------------------------------------------------------------------------
\* lockStock: what a listener has checked stays true until it commits, because
\* every step that changes a sku's rows needs its row lock.

LEMMA SelectForUpdateStep ==
    ASSUME IInv, NEW c \in Consumers, NEW s \in Skus, SelectForUpdate(c, s)
    PROVE  IInv'
<1>1. CASE Leave(c)
    BY <1>1, LeaveStep DEF SelectForUpdate, IInv, TypeOK, QueuesOK, queueVars, boundVars, Tx
<1>2. CASE ~Leave(c)
    <2>1. /\ pc[c] = "select" /\ s \in todo[c]
          /\ Cardinality(RowsOf(s, ware[c])) = 1
          /\ rowLock[s] = NoTx /\ rowLock' = [rowLock EXCEPT ![s] = c]
          /\ short' = [short EXCEPT ![c] = @ \/ Lacks(c, s)]
          /\ todo' = [todo EXCEPT ![c] = @ \ {s}]
          /\ pc' = [pc EXCEPT ![c] = IF todo[c] = {s} THEN "send" ELSE "select"]
          /\ UNCHANGED <<wareSkuVars, tasks, queueVars, outbox, boundVars, order, redelivered, task, ware>>
        BY <1>2 DEF SelectForUpdate, LockSku
    <2>2. order[c] \in Orders /\ ware[c] \in Wares /\ todo[c] \subseteq Lines(order[c])
        BY <2>1 DEF IInv, ListenerInv, Locking
    <2>3. TypeOK'
        BY <2>1, QueuesKept DEF IInv, TypeOK, Lacks, wareSkuVars, boundVars, Tx
    <2>4. ListenerInv'
        BY <2>1, <2>2 DEF IInv, TypeOK, ListenerInv, Unacknowledged, Locking, Tx
    <2>5. ClerkInv'
        BY <2>1, WarehouseAssumption DEF IInv, TypeOK, ClerkInv, Tx
    <2>6. LockInv'
        <3> SUFFICES ASSUME NEW d \in Consumers, pc'[d] \in Locking,
                            NEW t \in Lines(order'[d]) \ todo'[d]
                     PROVE  Checked(d, t)'
            BY DEF LockInv
        <3>1. pc[d] \in Locking /\ order'[d] = order[d] /\ ware'[d] = ware[d]
            BY <2>1 DEF IInv, TypeOK, Locking, Tx
        <3>2. CASE d = c /\ t = s
            <4>1. PICK r \in RowIds : RowsOf(s, ware[c]) = {r}
                <5>1. RowsOf(s, ware[c]) \subseteq RowIds
                    BY DEF RowsOf
                <5>2. IsFiniteSet(RowsOf(s, ware[c]))
                    BY <5>1, FS_Subset, WarehouseAssumption
                <5> QED BY <2>1, <5>1, <5>2, FS_Singleton
            <4>2. rowLock'[s] = c /\ short'[c] = (short[c] \/ Lacks(c, s))
                BY <2>1 DEF IInv, TypeOK, Tx
            <4>3. Available(r) \in Int /\ Demand[order[c]][s] \in Int
                BY <2>1, <2>2, WarehouseAssumption DEF IInv, TypeOK, Available
            <4>4. ~Lacks(c, s) => Available(r) >= Demand[order[c]][s]
                BY <4>1, <4>3 DEF Lacks
            <4> QED BY <2>1, <3>1, <3>2, <4>1, <4>2, <4>4, SameRows DEF Checked
        <3>3. CASE ~(d = c /\ t = s)
            <4>1. t \notin todo[d] /\ (short[d] => short'[d])
                BY <2>1, <3>3 DEF IInv, TypeOK, Tx
            <4>2. Checked(d, t)
                BY <3>1, <4>1 DEF IInv, LockInv
            <4>3. order[d] \in Orders /\ t \in Skus
                BY <3>1, WarehouseAssumption DEF IInv, ListenerInv, Locking
            <4>4. t # s
                BY <2>1, <4>2, WarehouseAssumption DEF Checked, Tx
            <4>5. rowLock'[t] = d
                BY <2>1, <4>2, <4>3, <4>4 DEF Checked, IInv, TypeOK
            <4> QED BY <2>1, <3>1, <4>1, <4>2, <4>5, SameRows DEF Checked
        <3> QED BY <3>2, <3>3
    <2> QED BY <2>1, <2>3, <2>4, <2>5, <2>6, SameRows DEF IInv
<1> QED BY <1>1, <1>2

LEMMA SendSkuDeductMQStep ==
    ASSUME IInv, NEW c \in Consumers, SendSkuDeductMQ(c)
    PROVE  IInv'
<1>1. order[c] \in Orders
    BY DEF IInv, ListenerInv, SendSkuDeductMQ
<1>2. TypeOK'
    BY <1>1, QueuesKept DEF IInv, TypeOK, SendSkuDeductMQ, Send, Verdict, TaskStatus, wareSkuVars, Tx
<1>3. ListenerInv' /\ ClerkInv'
    BY WarehouseAssumption
    DEF IInv, TypeOK, ListenerInv, ClerkInv, SendSkuDeductMQ, Unacknowledged, Locking, Tx
<1>4. LockInv' /\ RowInv' /\ NoOversell'
    BY OutsideLockStock DEF IInv, TypeOK, SendSkuDeductMQ, Locking, Tx
<1> QED BY <1>2, <1>3, <1>4 DEF IInv

LEMMA CommitLockStep ==
    ASSUME IInv, NEW c \in Consumers, CommitLock(c)
    PROVE  IInv'
<1>1. /\ order[c] \in Orders /\ ware[c] \in Wares /\ todo[c] = {} /\ c \in Tx
      /\ Lines(order[c]) \subseteq Skus
      /\ \A s \in Lines(order[c]) : Checked(c, s) /\ Demand[order[c]][s] \in Nat
    BY WarehouseAssumption DEF IInv, ListenerInv, LockInv, CommitLock, Locking, Tx
<1>2. \A r \in RowIds : \/ stockLocked'[r] = stockLocked[r]
                        \/ /\ ~short[c]
                           /\ \E s \in Lines(order[c]) :
                                 /\ row[r] = <<s, ware[c]>>
                                 /\ stockLocked'[r] = stockLocked[r] + Demand[order[c]][s]
    BY DEF CommitLock, IncrStockLocked, RowsOf
<1>3. \A r \in RowIds : /\ stockLocked'[r] \in Nat /\ stockLocked'[r] <= stock[r]
                        /\ row[r] = NoRow => stockLocked'[r] = stockLocked[r]
    <2> SUFFICES ASSUME NEW r \in RowIds, ~short[c], NEW s \in Lines(order[c]),
                        row[r] = <<s, ware[c]>>,
                        stockLocked'[r] = stockLocked[r] + Demand[order[c]][s]
                 PROVE  /\ stockLocked'[r] \in Nat /\ stockLocked'[r] <= stock[r]
                        /\ row[r] # NoRow
        BY <1>2 DEF IInv, TypeOK, NoOversell
    <2>1. r \in RowsOf(s, ware[c])
        BY DEF RowsOf
    <2>2. Available(r) >= Demand[order[c]][s]
        BY <1>1, <2>1 DEF Checked
    <2>3. row[r] # NoRow
        BY <1>1, WarehouseAssumption
    <2> QED BY <1>1, <2>2, <2>3 DEF Available, IInv, TypeOK
<1>4. stockLocked' = [r \in RowIds |-> stockLocked'[r]]
    BY DEF CommitLock, IncrStockLocked
<1>5. tasks' \in Seq(TaskRow) /\ DOMAIN tasks' = DOMAIN tasks
      /\ \A i \in DOMAIN tasks : tasks'[i].wareId = tasks[i].wareId
    <2>1. tasks \in Seq(TaskRow)
        BY DEF IInv, TypeOK, TaskRow
    <2>2. \A i \in DOMAIN tasks : tasks[i] \in TaskRow
        BY <2>1
    <2>3. Verdict(c) \in TaskStatus
        BY DEF Verdict, TaskStatus
    <2>4. tasks' = [i \in DOMAIN tasks |-> tasks'[i]]
        BY DEF CommitLock
    <2>5. \A i \in DOMAIN tasks : tasks'[i] \in TaskRow /\ tasks'[i].wareId = tasks[i].wareId
        BY <2>2, <2>3 DEF CommitLock, TaskRow
    <2> QED BY <2>1, <2>4, <2>5, TaskTable
<1>6. TypeOK'
    BY <1>3, <1>4, <1>5, QueuesKept DEF IInv, TypeOK, TaskRow, CommitLock, Leave, boundVars, Tx
<1>7. ListenerInv'
    BY <1>1, <1>5 DEF IInv, TypeOK, ListenerInv, CommitLock, Leave, Unacknowledged, Locking, Tx
<1>8. ClerkInv'
    BY <1>1, <1>5, TasksUpdated DEF IInv, TypeOK, ClerkInv, CommitLock, Leave, Tx
<1>9. LockInv'
    <2> SUFFICES ASSUME NEW d \in Consumers, pc'[d] \in Locking,
                        NEW t \in Lines(order'[d]) \ todo'[d]
                 PROVE  Checked(d, t)'
        BY DEF LockInv
    <2>1. /\ d # c /\ pc[d] \in Locking /\ order'[d] = order[d] /\ todo'[d] = todo[d]
          /\ ware'[d] = ware[d] /\ short'[d] = short[d]
        BY DEF CommitLock, Leave, IInv, TypeOK, Locking, Tx
    <2>2. Checked(d, t) /\ order[d] \in Orders /\ ware[d] \in Wares /\ t \in Skus
        BY <2>1, WarehouseAssumption DEF IInv, LockInv, ListenerInv, Locking
    <2>3. rowLock'[t] = d
        BY <2>1, <2>2 DEF CommitLock, Leave, Checked, IInv, TypeOK
    <2>4. t \notin Lines(order[c])
        BY <1>1, <2>1, <2>2 DEF Checked
    <2>5. RowsOf(t, ware[d])' = RowsOf(t, ware[d])
        BY <2>1 DEF RowsOf, CommitLock
    <2>6. ASSUME NEW r \in RowIds, RowsOf(t, ware[d]) = {r}
          PROVE  Available(r)' = Available(r)
        <3>1. row[r] = <<t, ware[d]>>
            BY <2>6 DEF RowsOf
        <3>2. stockLocked'[r] = stockLocked[r]
            BY <1>2, <2>4, <3>1
        <3> QED BY <3>2 DEF Available, CommitLock
    <2> QED BY <2>1, <2>2, <2>3, <2>5, <2>6 DEF Checked
<1>10. RowInv' /\ NoOversell'
    BY <1>3 DEF IInv, RowInv, NoOversell, CommitLock
<1> QED BY <1>6, <1>7, <1>8, <1>9, <1>10 DEF IInv

-----------------------------------------------------------------------------
\* Delivery: the task's wareId is null, so its UPDATEs find no row.

LEMMA SendToOrderStep ==
    ASSUME IInv, NEW k \in Clerks, NEW i \in DOMAIN tasks, SendToOrder(k, i)
    PROVE  IInv'
<1>1. /\ tasks[i] \in TaskRow /\ tasks[i].wareId = NoWare /\ i \in Nat
      /\ tasks[i].orderId \in Orders /\ tasks[i].details \in SUBSET Skus
    <2>1. tasks \in Seq(TaskRow)
        BY DEF IInv, TypeOK, TaskRow
    <2>2. tasks[i] \in TaskRow /\ i \in Nat
        BY <2>1
    <2> QED BY <2>2 DEF IInv, ClerkInv, TaskRow
<1>2. TypeOK'
    <2>1. outbox' \subseteq [orderId : Orders, status : TaskStatus]
        BY <1>1 DEF IInv, TypeOK, SendToOrder, Send, TaskStatus
    <2>2. /\ pc' = [pc EXCEPT ![k] = "commit"] /\ task' = [task EXCEPT ![k] = i]
          /\ ware' = [ware EXCEPT ![k] = NoWare]
          /\ todo' = [todo EXCEPT ![k] = tasks[i].details]
          /\ deliveries' = deliveries + 1 /\ k \in Tx /\ sessions' \in {sessions, sessions + 1}
          /\ UNCHANGED <<wareSkuVars, rowLock, tasks, queueVars, crashes, order, redelivered, short>>
        BY <1>1 DEF SendToOrder, Send, Tx
    <2> QED BY <1>1, <2>1, <2>2, QueuesKept DEF IInv, TypeOK, wareSkuVars
<1>3. ListenerInv' /\ ClerkInv'
    BY <1>1, WarehouseAssumption
    DEF IInv, TypeOK, ListenerInv, ClerkInv, SendToOrder, Unacknowledged, Locking, Tx
<1>4. LockInv' /\ RowInv' /\ NoOversell'
    BY OutsideLockStock, WarehouseAssumption DEF IInv, TypeOK, SendToOrder, Locking, Tx
<1> QED BY <1>2, <1>3, <1>4 DEF IInv

LEMMA DeliveryTakesNothing ==
    ASSUME IInv, NEW k \in Clerks, CommitDelivery(k)
    PROVE  UNCHANGED wareSkuVars
<1>1. ware[k] = NoWare /\ k \in Tx
    BY DEF IInv, ClerkInv, CommitDelivery, Tx
<1>2. \A r \in RowIds : Shipped(k, r) = 0
    <2> SUFFICES ASSUME NEW r \in RowIds, NEW s \in todo[k], r \in RowsOf(s, NoWare)
                 PROVE  FALSE
        BY <1>1 DEF Shipped
    <2>1. row[r] = <<s, NoWare>> /\ row[r] \in (Skus \X Wares) \cup {NoRow} /\ s \in Skus
        BY <1>1 DEF RowsOf, IInv, TypeOK
    <2> QED BY <2>1, WarehouseAssumption
<1>3. \A r \in RowIds : stock'[r] = stock[r] /\ stockLocked'[r] = stockLocked[r]
    BY <1>2 DEF CommitDelivery, IInv, TypeOK
<1>4. stock' = stock /\ stockLocked' = stockLocked
    BY <1>3 DEF CommitDelivery, IInv, TypeOK
<1> QED BY <1>4 DEF CommitDelivery, wareSkuVars

LEMMA CommitDeliveryStep ==
    ASSUME IInv, NEW k \in Clerks, CommitDelivery(k)
    PROVE  IInv'
<1>1. task[k] \in DOMAIN tasks /\ ware[k] = NoWare /\ k \in Tx
    BY DEF IInv, ClerkInv, CommitDelivery, Tx
<1>3. UNCHANGED wareSkuVars
    BY DeliveryTakesNothing
<1>4. tasks' \in Seq(TaskRow) /\ DOMAIN tasks' = DOMAIN tasks
      /\ \A i \in DOMAIN tasks : tasks'[i].wareId = tasks[i].wareId
    <2>1. tasks \in Seq(TaskRow)
        BY DEF IInv, TypeOK, TaskRow
    <2>2. \A i \in DOMAIN tasks : tasks[i] \in TaskRow
        BY <2>1
    <2>3. tasks' = [tasks EXCEPT ![task[k]].taskStatus = "DELEVERED"]
        BY DEF CommitDelivery
    <2>4. tasks' = [i \in DOMAIN tasks |-> tasks'[i]]
        BY <2>1, <2>3
    <2>5. \A i \in DOMAIN tasks : tasks'[i] \in TaskRow /\ tasks'[i].wareId = tasks[i].wareId
        BY <1>1, <2>2, <2>3 DEF TaskRow, TaskStatus
    <2> QED BY <2>1, <2>4, <2>5, TaskTable
<1>5. TypeOK'
    <2>1. k \in Tx /\ QueuesOK'
        BY <1>1, QueuesKept DEF CommitDelivery
    <2> QED BY <1>3, <1>4, <2>1
            DEF IInv, TypeOK, TaskRow, CommitDelivery, Leave, wareSkuVars, boundVars, Tx
<1>6. ListenerInv'
    BY <1>1, <1>4, WarehouseAssumption
    DEF IInv, TypeOK, ListenerInv, CommitDelivery, Leave, Unacknowledged, Locking, Tx
<1>7. ClerkInv'
    BY <1>1, <1>4, TasksUpdated DEF IInv, TypeOK, ClerkInv, CommitDelivery, Leave, Tx
<1>8. LockInv'
    <2> SUFFICES ASSUME NEW c \in Consumers, pc'[c] \in Locking,
                        NEW s \in Lines(order'[c]) \ todo'[c]
                 PROVE  Checked(c, s)'
        BY DEF LockInv
    <2>1. c # k
        BY WarehouseAssumption
    <2>2. /\ pc[c] \in Locking /\ order'[c] = order[c] /\ todo'[c] = todo[c]
          /\ ware'[c] = ware[c] /\ short'[c] = short[c]
        BY <2>1 DEF IInv, TypeOK, CommitDelivery, Leave, Tx
    <2>3. Checked(c, s) /\ s \in Skus
        BY <2>2, WarehouseAssumption DEF IInv, LockInv, ListenerInv, Locking
    <2>4. rowLock'[s] = c
        BY <2>1, <2>3 DEF Checked, CommitDelivery, Leave, IInv, TypeOK
    <2> QED BY <1>3, <2>2, <2>3, <2>4, SameRows DEF Checked
<1> QED BY <1>3, <1>5, <1>6, <1>7, <1>8, SameRows DEF IInv

LEMMA CrashStep ==
    ASSUME IInv, NEW t \in Tx, Crash(t)
    PROVE  IInv'
<1>1. pc[t] \in Unacknowledged => order[t] \in Orders
    BY DEF IInv, ListenerInv, ClerkInv, Unacknowledged, Tx
<1>2. /\ queue' \in [Orders -> [0 .. MaxRedeliveries -> Nat]] /\ dead' \subseteq Orders
      /\ crashes' \in Nat
    <2>1. crashes' \in Nat
        BY DEF Crash, IInv, TypeOK
    <2>2. CASE pc[t] \in Unacknowledged
        BY <1>1, <2>1, <2>2, RedeliverStep DEF Crash
    <2>3. CASE pc[t] \notin Unacknowledged
        BY <2>1, <2>3 DEF Crash, IInv, TypeOK, QueuesOK
    <2> QED BY <2>2, <2>3
<1> QED BY <1>2, LeaveStep DEF Crash, IInv, TypeOK

LEMMA DeadlockVictimStep ==
    ASSUME IInv, NEW c \in Consumers, DeadlockVictim(c)
    PROVE  IInv'
BY LeaveStep DEF DeadlockVictim, IInv, TypeOK, QueuesOK, queueVars, boundVars, Tx

-----------------------------------------------------------------------------
LEMMA NextIInv == IInv /\ [Next]_vars => IInv'
<1> SUFFICES ASSUME IInv, [Next]_vars PROVE IInv'
    OBVIOUS
<1>1. ASSUME NEW o \in Orders, NotifyWare(o) PROVE IInv'
    BY <1>1, NotifyWareStep
<1>2. ASSUME NEW r \in RowIds, NEW x \in Restocks, AddWareSku(r, x[1], x[2], x[3])
      PROVE  IInv'
    BY <1>2, AddWareSkuStep
<1>3. ASSUME NEW c \in Consumers, Work(c) PROVE IInv'
    BY <1>3, ReceiveStep, FindTaskStep, InsertTaskStep, InsertDetailStep, AcknowledgeStep,
       CheckOrderSplitStep, SelectForUpdateStep, SendSkuDeductMQStep, CommitLockStep,
       DeadlockVictimStep DEF Work
<1>4. ASSUME NEW k \in Clerks, Deliver(k) PROVE IInv'
    BY <1>4, SendToOrderStep, CommitDeliveryStep DEF Deliver
<1>5. ASSUME NEW t \in Tx, Crash(t) PROVE IInv'
    BY <1>5, CrashStep
<1>6. CASE UNCHANGED vars
    <2>1. TypeOK'
        BY <1>6, QueuesKept DEF IInv, TypeOK, vars, wareSkuVars, threadVars, boundVars
    <2>2. ListenerInv' /\ ClerkInv'
        BY <1>6 DEF IInv, ListenerInv, ClerkInv, vars, threadVars
    <2>3. LockInv' /\ RowInv' /\ NoOversell'
        BY <1>6, OutsideLockStock DEF vars, threadVars
    <2> QED BY <2>1, <2>2, <2>3 DEF IInv
<1> QED BY <1>1, <1>2, <1>3, <1>4, <1>5, <1>6 DEF Next

LEMMA SpecIInv == Spec => []IInv
BY InitIInv, NextIInv, PTL DEF Spec

\* Every variable keeps its type; in particular stock and stock_locked never
\* become negative, since deliveries find no row to take goods from.
THEOREM TypeCorrect == Spec => []TypeOK
<1>1. IInv => TypeOK
    BY DEF IInv
<1> QED BY <1>1, SpecIInv, PTL

\* No row of ware_sku ever promises more goods than it has.
THEOREM NeverOversells == Spec => []NoOversell
<1>1. IInv => NoOversell
    BY DEF IInv
<1> QED BY <1>1, SpecIInv, PTL

\* The verdict lockStock sends before it commits is still true when it commits.
THEOREM VerdictsHold == Spec => []VerdictStillHolds
<1>1. IInv => VerdictStillHolds
    BY DEF IInv, ListenerInv, LockInv, Checked, VerdictStillHolds, Locking
<1> QED BY <1>1, SpecIInv, PTL

-----------------------------------------------------------------------------
\* No order is forgotten.  A listener past saveWareOrderTask has a task of its
\* order to show, and an idle one has no order.
TaskInv ==
    \A c \in Consumers :
        /\ pc[c] = "idle" => order[c] = NoOrder
        /\ pc[c] \in {"details", "ack", "split"} \cup Locking => TasksOf(order[c]) # {}

\* A message of o waits in the queue q.
Waiting(q, o) == \E n \in 0 .. MaxRedeliveries : q[o][n] > 0

HeldInv ==
    \A o \in Orders : sent[o] > 0 =>
        \/ Waiting(queue, o)
        \/ \E c \in Consumers : order[c] = o
        \/ TasksOf(o) # {}
        \/ o \in dead

KInv == TaskInv /\ HeldInv

\* Rows of ware_order_task stay, and stay with their order.
TasksStay == \A i \in DOMAIN tasks : /\ i \in DOMAIN tasks'
                                     /\ tasks'[i].orderId = tasks[i].orderId

\* Orders on their way are not lost sight of by a step: a new message waits,
\* a waiting one goes on waiting, a dead one stays on the dead letter queue.
MessagesStay ==
    /\ \A o \in Orders : sent'[o] > 0 => sent[o] > 0 \/ Waiting(queue', o)
    /\ \A o \in Orders : Waiting(queue, o) => Waiting(queue', o)
    /\ dead \subseteq dead'

LEMMA StayingTasks ==
    ASSUME TasksStay, NEW o, TasksOf(o) # {}
    PROVE  TasksOf(o)' # {}
<1>1. PICK i \in DOMAIN tasks : tasks[i].orderId = o
    BY DEF TasksOf
<1>2. i \in DOMAIN tasks' /\ tasks'[i].orderId = o
    BY <1>1 DEF TasksStay
<1> QED BY <1>2 DEF TasksOf

\* A redelivery, or none, leaves every message where it waits.
LEMMA RedeliverKeeps ==
    ASSUME IInv, NEW t \in Tx, order[t] \in Orders, UNCHANGED sent,
           Redeliver(t) \/ UNCHANGED <<queue, dead>>
    PROVE  /\ MessagesStay
           /\ Redeliver(t) => Waiting(queue', order[t]) \/ order[t] \in dead'
<1>1. CASE UNCHANGED <<queue, dead>> /\ ~Redeliver(t)
    BY <1>1 DEF MessagesStay
<1>2. CASE Redeliver(t)
    <2> DEFINE m == redelivered[t] + 1
    <2>1. \A o \in Orders, n \in 0 .. MaxRedeliveries :
             /\ queue[o][n] \in Nat
             /\ queue'[o][n] = IF o = order[t] /\ n = m THEN queue[o][n] + 1 ELSE queue[o][n]
        <3>1. \A o \in Orders, n \in 0 .. MaxRedeliveries : queue[o][n] \in Nat
            BY DEF IInv, TypeOK, QueuesOK
        <3> QED BY <1>2, <3>1, RedeliverStep
    <2>2. \A o \in Orders, n \in 0 .. MaxRedeliveries : queue[o][n] > 0 => queue'[o][n] > 0
        BY <2>1
    <2>3. MessagesStay
        BY <1>2, <2>2, RedeliverStep DEF MessagesStay, Waiting
    <2>4. CASE redelivered[t] = MaxRedeliveries
        BY <1>2, <2>3, <2>4, RedeliverStep
    <2>5. CASE redelivered[t] # MaxRedeliveries
        <3>1. m \in 0 .. MaxRedeliveries
            BY <2>5, WarehouseAssumption DEF IInv, TypeOK, QueuesOK
        <3>2. queue'[order[t]][m] > 0
            BY <2>1, <3>1
        <3> HIDE DEF m
        <3>3. Waiting(queue', order[t])
            BY <3>1, <3>2 DEF Waiting
        <3> QED BY <2>3, <3>3
    <2> QED BY <2>4, <2>5
<1> QED BY <1>1, <1>2

\* A step in which no listener takes up or drops an order.
LEMMA OrdersInHand ==
    ASSUME IInv, KInv, TasksStay, UNCHANGED order, MessagesStay,
           \A c \in Consumers : \/ pc'[c] = pc[c]
                                \/ /\ pc[c] # "idle" /\ pc'[c] # "idle"
                                   /\ pc'[c] \in {"details", "ack", "split"} \cup Locking
                                         => TasksOf(order[c])' # {}
    PROVE  KInv'
<1>1. TaskInv'
    <2> SUFFICES ASSUME NEW c \in Consumers
                 PROVE  /\ pc'[c] = "idle" => order'[c] = NoOrder
                        /\ pc'[c] \in {"details", "ack", "split"} \cup Locking
                              => TasksOf(order[c])' # {}
        BY DEF TaskInv, TasksOf
    <2> QED BY StayingTasks DEF KInv, TaskInv
<1>2. HeldInv'
    <2> SUFFICES ASSUME NEW o \in Orders, sent'[o] > 0, ~Waiting(queue', o), o \notin dead',
                        ~\E c \in Consumers : order'[c] = o
                 PROVE  TasksOf(o)' # {}
        BY DEF HeldInv, TasksOf, Waiting
    <2> QED BY StayingTasks DEF KInv, HeldInv, MessagesStay
<1> QED BY <1>1, <1>2 DEF KInv

\* A thread drops its work: its order has a task, its message is back, or dead.
LEMMA OrderDropped ==
    ASSUME IInv, KInv, TasksStay, NEW t \in Tx, Leave(t), UNCHANGED sent, MessagesStay,
           t \in Consumers => \/ TasksOf(order[t]) # {}
                              \/ Waiting(queue', order[t]) \/ order[t] \in dead'
    PROVE  KInv'
<1>1. \A c \in Consumers : IF c = t THEN pc'[c] = "idle" /\ order'[c] = NoOrder
                           ELSE pc'[c] = pc[c] /\ order'[c] = order[c]
    BY DEF IInv, TypeOK, Leave, Tx
<1>2. TaskInv'
    <2> SUFFICES ASSUME NEW c \in Consumers
                 PROVE  /\ pc'[c] = "idle" => order'[c] = NoOrder
                        /\ pc'[c] \in {"details", "ack", "split"} \cup Locking
                              => {i \in DOMAIN tasks' : tasks'[i].orderId = order'[c]} # {}
        BY DEF TaskInv, TasksOf
    <2>1. CASE c = t
        BY <1>1, <2>1 DEF Locking
    <2>2. CASE c # t
        BY <1>1, <2>2, StayingTasks DEF KInv, TaskInv, TasksOf
    <2> QED BY <2>1, <2>2
<1>3. HeldInv'
    <2> SUFFICES ASSUME NEW o \in Orders, sent[o] > 0, ~Waiting(queue', o), o \notin dead',
                        ~\E c \in Consumers : order'[c] = o
                 PROVE  TasksOf(o)' # {}
        BY DEF HeldInv, TasksOf, Waiting
    <2>1. CASE TasksOf(o) # {}
        BY <2>1, StayingTasks
    <2>2. ASSUME NEW c \in Consumers, order[c] = o PROVE TasksOf(o) # {}
        <3>1. c = t
            BY <1>1, <2>2
        <3> QED BY <2>2, <3>1
    <2>3. TasksOf(o) # {} \/ \E c \in Consumers : order[c] = o
        BY DEF KInv, HeldInv, MessagesStay
    <2> QED BY <2>1, <2>2, <2>3
<1> QED BY <1>2, <1>3 DEF KInv

\* Every step keeps the tasks that are there.
LEMMA NextTasksStay == IInv /\ [Next]_vars => TasksStay
<1> SUFFICES ASSUME IInv, [Next]_vars PROVE TasksStay
    OBVIOUS
<1>1. tasks \in Seq(TaskRow)
    BY DEF IInv, TypeOK, TaskRow
<1>2. CASE UNCHANGED tasks
    BY <1>2 DEF TasksStay
<1>3. ASSUME NEW c \in Consumers, InsertTask(c) PROVE TasksStay
    BY <1>1, <1>3 DEF InsertTask, TasksStay
<1>4. ASSUME NEW c \in Consumers, NEW s \in Skus, InsertDetail(c, s) PROVE TasksStay
    <2>1. task[c] \in DOMAIN tasks /\ \A i \in DOMAIN tasks : tasks[i] \in TaskRow
        BY <1>1, <1>4 DEF InsertDetail, IInv, ListenerInv
    <2> QED BY <1>1, <1>4, <2>1 DEF InsertDetail, TasksStay, TaskRow
<1>5. ASSUME NEW c \in Consumers, CommitLock(c) PROVE TasksStay
    <2>1. \A i \in DOMAIN tasks : tasks[i] \in TaskRow
        BY <1>1
    <2> QED BY <1>5, <2>1 DEF CommitLock, TasksStay, TaskRow
<1>6. ASSUME NEW k \in Clerks, CommitDelivery(k) PROVE TasksStay
    <2>1. \A i \in DOMAIN tasks : tasks[i] \in TaskRow
        BY <1>1
    <2> QED BY <1>1, <1>6, <2>1 DEF CommitDelivery, TasksStay, TaskRow
<1>7. CASE Next
    BY <1>2, <1>3, <1>4, <1>5, <1>6, <1>7
    DEF Next, Work, Deliver, NotifyWare, AddWareSku, Receive, FindTask, Acknowledge,
        CheckOrderSplit, SelectForUpdate, SendSkuDeductMQ, SendToOrder, Crash, DeadlockVictim
<1> QED BY <1>2, <1>7 DEF vars

\* The message that a listener takes off the queue is the order in its hands.
LEMMA ReceiveKeeps ==
    ASSUME IInv, KInv, TasksStay, NEW c \in Consumers, NEW o \in Orders,
           NEW n \in 0 .. MaxRedeliveries, Receive(c, o, n)
    PROVE  KInv'
<1>1. /\ pc[c] = "idle" /\ order[c] = NoOrder /\ order'[c] = o /\ pc'[c] = "save"
      /\ \A d \in Consumers \ {c} : pc'[d] = pc[d] /\ order'[d] = order[d]
      /\ \A p \in Orders \ {o} : queue'[p] = queue[p]
      /\ sent' = sent /\ tasks' = tasks /\ dead' = dead
    BY DEF Receive, IInv, TypeOK, QueuesOK, KInv, TaskInv, Tx
<1>2. TaskInv'
    BY <1>1, WarehouseAssumption DEF KInv, TaskInv, TasksOf, Locking
<1>3. HeldInv'
    <2> SUFFICES ASSUME NEW p \in Orders, p # o, sent[p] > 0, ~Waiting(queue, p), p \notin dead,
                        ~\E d \in Consumers : order'[d] = p
                 PROVE  TasksOf(p) # {}
        BY <1>1 DEF HeldInv, TasksOf, Waiting
    <2> QED BY <1>1, WarehouseAssumption DEF KInv, HeldInv
<1> QED BY <1>2, <1>3 DEF KInv

\* saveWareOrderTask gives up only on an order that has two tasks.
LEMMA FindTaskKeeps ==
    ASSUME IInv, KInv, TasksStay, NEW c \in Consumers, FindTask(c)
    PROVE  KInv'
<1>1. \/ TasksOf(order[c]) = {} /\ pc' = [pc EXCEPT ![c] = "insert"] /\ order' = order
      \/ Cardinality(TasksOf(order[c])) = 1 /\ pc' = [pc EXCEPT ![c] = "ack"] /\ order' = order
      \/ Cardinality(TasksOf(order[c])) > 1 /\ Leave(c)
    BY DEF FindTask
<1>2. Cardinality({}) = 0
    BY FS_EmptySet
<1>6. MessagesStay /\ sent' = sent /\ tasks' = tasks /\ c \in Tx
    <2>1. order[c] \in Orders /\ c \in Tx
        BY DEF FindTask, IInv, ListenerInv, Tx
    <2> QED BY <2>1, RedeliverKeeps DEF FindTask
<1>3. CASE Cardinality(TasksOf(order[c])) > 1 /\ Leave(c)
    <2>1. TasksOf(order[c]) # {}
        BY <1>2, <1>3
    <2> QED BY <1>3, <1>6, <2>1, OrderDropped
<1>4. CASE TasksOf(order[c]) = {} /\ pc' = [pc EXCEPT ![c] = "insert"] /\ order' = order
    <2>1. pc[c] = "save" /\ pc'[c] = "insert" /\ \A d \in Consumers \ {c} : pc'[d] = pc[d]
        BY <1>4 DEF FindTask, IInv, TypeOK, Tx
    <2> QED BY <1>4, <1>6, <2>1, OrdersInHand DEF Locking
<1>5. CASE Cardinality(TasksOf(order[c])) = 1 /\ pc' = [pc EXCEPT ![c] = "ack"] /\ order' = order
    <2>1. TasksOf(order[c]) # {}
        BY <1>2, <1>5
    <2>2. pc[c] = "save" /\ pc'[c] = "ack" /\ \A d \in Consumers \ {c} : pc'[d] = pc[d]
        BY <1>5 DEF FindTask, IInv, TypeOK, Tx
    <2>3. TasksOf(order[c])' = TasksOf(order[c])
        BY <1>5, <1>6 DEF TasksOf
    <2> QED BY <1>5, <1>6, <2>1, <2>2, <2>3, OrdersInHand
<1> QED BY <1>1, <1>3, <1>4, <1>5

LEMMA InsertTaskKeeps ==
    ASSUME IInv, KInv, TasksStay, NEW c \in Consumers, InsertTask(c)
    PROVE  KInv'
<1>1. /\ pc[c] = "insert" /\ pc'[c] = "details" /\ order' = order
      /\ \A d \in Consumers \ {c} : pc'[d] = pc[d]
    BY DEF InsertTask, IInv, TypeOK, Tx
<1>2. Len(tasks) + 1 \in DOMAIN tasks' /\ tasks'[Len(tasks) + 1].orderId = order[c]
    BY DEF InsertTask, IInv, TypeOK
<1>3. Len(tasks) + 1 \in {i \in DOMAIN tasks' : tasks'[i].orderId = order[c]}
    BY <1>2
<1>4. TaskInv'
    <2> SUFFICES ASSUME NEW d \in Consumers
                 PROVE  /\ pc'[d] = "idle" => order[d] = NoOrder
                        /\ pc'[d] \in {"details", "ack", "split"} \cup Locking
                              => {i \in DOMAIN tasks' : tasks'[i].orderId = order[d]} # {}
        BY <1>1 DEF TaskInv, TasksOf
    <2>1. CASE d = c
        BY <1>1, <1>3, <2>1
    <2>2. CASE d # c
        BY <1>1, <2>2, StayingTasks DEF KInv, TaskInv, TasksOf
    <2> QED BY <2>1, <2>2
<1>5. HeldInv'
    <2> SUFFICES ASSUME NEW o \in Orders, sent[o] > 0, ~Waiting(queue, o), o \notin dead,
                        ~\E d \in Consumers : order[d] = o
                 PROVE  TasksOf(o)' # {}
        BY <1>1 DEF HeldInv, InsertTask, TasksOf, Waiting, queueVars
    <2> QED BY StayingTasks DEF KInv, HeldInv
<1> QED BY <1>4, <1>5 DEF KInv

\* A listener that goes on to a place where its order must have a task had one
\* before.
LEMMA WorkingOn ==
    ASSUME IInv, KInv, TasksStay, UNCHANGED <<order, sent>>, MessagesStay,
           NEW c \in Consumers,
           pc[c] \in {"details", "ack", "split"} \cup Locking, pc'[c] # "idle",
           \A d \in Consumers \ {c} : pc'[d] = pc[d]
    PROVE  KInv'
<1>1. TasksOf(order[c]) # {}
    BY DEF KInv, TaskInv
<1>2. TaskInv'
    <2> SUFFICES ASSUME NEW d \in Consumers
                 PROVE  /\ pc'[d] = "idle" => order[d] = NoOrder
                        /\ pc'[d] \in {"details", "ack", "split"} \cup Locking
                              => {i \in DOMAIN tasks' : tasks'[i].orderId = order[d]} # {}
        BY DEF TaskInv, TasksOf
    <2>1. TasksOf(order[d]) # {} => {i \in DOMAIN tasks' : tasks'[i].orderId = order[d]} # {}
        BY StayingTasks DEF TasksOf
    <2> QED BY <1>1, <2>1 DEF KInv, TaskInv
<1>3. HeldInv'
    <2> SUFFICES ASSUME NEW o \in Orders, sent[o] > 0, ~Waiting(queue', o), o \notin dead',
                        ~\E d \in Consumers : order[d] = o
                 PROVE  TasksOf(o)' # {}
        BY DEF HeldInv, TasksOf, Waiting
    <2> QED BY StayingTasks DEF KInv, HeldInv, MessagesStay
<1> QED BY <1>2, <1>3 DEF KInv

\* A step that sends, redelivers and acknowledges nothing.
LEMMA QueueIdle ==
    ASSUME UNCHANGED queueVars
    PROVE  MessagesStay /\ sent' = sent
BY DEF queueVars, MessagesStay

LEMMA WorkKeeps ==
    ASSUME IInv, KInv, TasksStay, NEW c \in Consumers, Work(c)
    PROVE  KInv'
<1>1. ASSUME NEW o \in Orders, NEW n \in 0 .. MaxRedeliveries, Receive(c, o, n) PROVE KInv'
    BY <1>1, ReceiveKeeps
<1>2. CASE FindTask(c)
    BY <1>2, FindTaskKeeps
<1>3. CASE InsertTask(c)
    BY <1>3, InsertTaskKeeps
<1>4. ASSUME NEW s \in Skus, InsertDetail(c, s) PROVE KInv'
    BY <1>4, WorkingOn, QueueIdle DEF InsertDetail, IInv, TypeOK, Tx
<1>5. CASE Acknowledge(c)
    <2>1. order[c] \in Orders /\ c \in Tx
        BY <1>5 DEF Acknowledge, IInv, ListenerInv, Tx
    <2>2. MessagesStay
        BY <1>5, <2>1, RedeliverKeeps DEF Acknowledge
    <2> QED BY <1>5, <2>2, WorkingOn DEF Acknowledge, IInv, TypeOK, Tx
<1>6. CASE CheckOrderSplit(c)
    <2>1. CASE Leave(c)
        BY <1>6, <2>1, OrderDropped, QueueIdle DEF CheckOrderSplit, KInv, TaskInv, Tx
    <2>2. CASE ~Leave(c)
        BY <1>6, <2>2, WorkingOn, QueueIdle DEF CheckOrderSplit, IInv, TypeOK, Tx
    <2> QED BY <2>1, <2>2
<1>7. ASSUME NEW s \in Skus, SelectForUpdate(c, s) PROVE KInv'
    <2>1. CASE Leave(c)
        BY <1>7, <2>1, OrderDropped, QueueIdle DEF SelectForUpdate, KInv, TaskInv, Locking, Tx
    <2>2. CASE ~Leave(c)
        BY <1>7, <2>2, WorkingOn, QueueIdle DEF SelectForUpdate, IInv, TypeOK, Locking, Tx
    <2> QED BY <2>1, <2>2
<1>8. CASE SendSkuDeductMQ(c)
    BY <1>8, WorkingOn, QueueIdle DEF SendSkuDeductMQ, IInv, TypeOK, Locking, Tx
<1>9. CASE CommitLock(c)
    BY <1>9, OrderDropped, QueueIdle DEF CommitLock, KInv, TaskInv, Locking, Tx
<1>10. CASE DeadlockVictim(c)
    <2>1. pc[c] = "select"
        BY <1>10 DEF DeadlockVictim, WaitsFor
    <2> QED BY <1>10, <2>1, OrderDropped, QueueIdle
            DEF DeadlockVictim, KInv, TaskInv, Locking, Tx
<1> QED BY <1>1, <1>2, <1>3, <1>4, <1>5, <1>6, <1>7, <1>8, <1>9, <1>10 DEF Work

LEMMA DeliverKeeps ==
    ASSUME IInv, KInv, TasksStay, NEW k \in Clerks, Deliver(k)
    PROVE  KInv'
<1>1. k \in Tx \ Consumers
    BY WarehouseAssumption DEF Tx
<1>2. ASSUME NEW i \in DOMAIN tasks, SendToOrder(k, i) PROVE KInv'
    <2>1. \A c \in Consumers : pc'[c] = pc[c]
        BY <1>1, <1>2 DEF SendToOrder, IInv, TypeOK, Tx
    <2> QED BY <1>2, <2>1, OrdersInHand, QueueIdle DEF SendToOrder
<1>3. CASE CommitDelivery(k)
    BY <1>1, <1>3, OrderDropped, QueueIdle DEF CommitDelivery
<1> QED BY <1>2, <1>3 DEF Deliver

\* A thread that dies gives its message back, unless it was acknowledged; then
\* the order has a task.
LEMMA CrashKeeps ==
    ASSUME IInv, KInv, TasksStay, NEW t \in Tx, Crash(t)
    PROVE  KInv'
<1>1. t \in Consumers => order[t] \in Orders
    BY DEF Crash, IInv, ListenerInv
<1>2. t \in Consumers => pc[t] \in Unacknowledged \cup {"split"} \cup Locking
    BY DEF Crash, IInv, TypeOK, Unacknowledged, Locking, Tx
<1>3. pc[t] \in Unacknowledged => t \in Consumers
    BY DEF IInv, ClerkInv, Unacknowledged, Tx
<1>4. CASE pc[t] \in Unacknowledged
    <2>1. Redeliver(t) /\ sent' = sent /\ order[t] \in Orders
        BY <1>1, <1>3, <1>4 DEF Crash
    <2> QED BY <2>1, RedeliverKeeps, OrderDropped DEF Crash
<1>5. CASE pc[t] \notin Unacknowledged
    <2>1. MessagesStay /\ sent' = sent
        BY <1>5 DEF Crash, MessagesStay
    <2>2. t \in Consumers => TasksOf(order[t]) # {}
        BY <1>2, <1>5 DEF KInv, TaskInv
    <2> QED BY <2>1, <2>2, OrderDropped DEF Crash
<1> QED BY <1>4, <1>5

LEMMA NextKInv == IInv /\ KInv /\ [Next]_vars => KInv'
<1> SUFFICES ASSUME IInv, KInv, [Next]_vars PROVE KInv'
    OBVIOUS
<1>1. TasksStay
    BY NextTasksStay
<1>2. ASSUME NEW o \in Orders, NotifyWare(o) PROVE KInv'
    <2>1. /\ 0 \in 0 .. MaxRedeliveries /\ queue[o][0] + 1 \in Nat \ {0}
          /\ \A p \in Orders \ {o} : sent'[p] = sent[p]
        <3>1. sent \in [Orders -> Nat] /\ sent' = [sent EXCEPT ![o] = @ + 1]
            BY <1>2 DEF NotifyWare, IInv, TypeOK, QueuesOK
        <3> QED BY <3>1, Counts
    <2>2. Waiting(queue', o) /\ \A p \in Orders \ {o} : queue'[p] = queue[p]
        <3>1. queue'[o][0] = queue[o][0] + 1 /\ \A p \in Orders \ {o} : queue'[p] = queue[p]
            BY <1>2, <2>1, QueueChanges DEF NotifyWare
        <3> QED BY <2>1, <3>1 DEF Waiting
    <2>3. MessagesStay
        BY <1>2, <2>1, <2>2 DEF NotifyWare, MessagesStay, Waiting
    <2> QED BY <1>1, <1>2, <2>3, OrdersInHand DEF NotifyWare, threadVars
<1>3. ASSUME NEW r \in RowIds, NEW x \in Restocks, AddWareSku(r, x[1], x[2], x[3])
      PROVE  KInv'
    BY <1>1, <1>3, OrdersInHand, QueueIdle DEF AddWareSku, threadVars
<1>4. ASSUME NEW c \in Consumers, Work(c) PROVE KInv'
    BY <1>1, <1>4, WorkKeeps
<1>5. ASSUME NEW k \in Clerks, Deliver(k) PROVE KInv'
    BY <1>1, <1>5, DeliverKeeps
<1>6. ASSUME NEW t \in Tx, Crash(t) PROVE KInv'
    BY <1>1, <1>6, CrashKeeps
<1>7. CASE UNCHANGED vars
    BY <1>1, <1>7, OrdersInHand, QueueIdle DEF vars, threadVars
<1> QED BY <1>2, <1>3, <1>4, <1>5, <1>6, <1>7 DEF Next

LEMMA InitKInv == Init => KInv
BY WarehouseAssumption DEF Init, KInv, TaskInv, HeldInv, Locking, Tx

\* Messages of orders without a task are redelivered once per failure at most.
Tasked(o) == \E i \in DOMAIN tasks : tasks[i].orderId = o

RetryInv ==
    /\ \A o \in Orders, n \in 0 .. MaxRedeliveries :
          queue[o][n] > 0 => n <= crashes \/ Tasked(o)
    /\ \A c \in Consumers : redelivered[c] <= crashes \/ Tasked(order[c])
    /\ \A o \in dead : crashes > MaxRedeliveries \/ Tasked(o)

\* What a step must show for that: where it adds a message, and whose count of
\* redeliveries it sets.
LEMMA RetryKept ==
    ASSUME IInv, RetryInv, TasksStay, crashes' \in Nat, crashes <= crashes',
           \A o \in Orders, n \in 0 .. MaxRedeliveries :
              queue'[o][n] > 0 => queue[o][n] > 0 \/ n <= crashes' \/ Tasked(o),
           \A c \in Consumers : \/ redelivered'[c] = redelivered[c] /\ order'[c] = order[c]
                                \/ redelivered'[c] <= crashes'
                                \/ order'[c] \in Orders /\ Tasked(order'[c]),
           \A o \in dead' : o \in dead \/ crashes' > MaxRedeliveries \/ Tasked(o)
    PROVE  RetryInv'
<1>1. \A o : Tasked(o) => \E i \in DOMAIN tasks' : tasks'[i].orderId = o
    BY DEF Tasked, TasksStay
<1>2. /\ \A o \in Orders, n \in 0 .. MaxRedeliveries :
            queue'[o][n] > 0 => n <= crashes' \/ Tasked(o)
      /\ \A c \in Consumers : redelivered'[c] <= crashes' \/ Tasked(order'[c])
      /\ \A o \in dead' : crashes' > MaxRedeliveries \/ Tasked(o)
    <2>1. \A n \in 0 .. MaxRedeliveries : n <= crashes => n <= crashes'
        BY Counts
    <2>2. crashes > MaxRedeliveries => crashes' > MaxRedeliveries
        BY Counts
    <2>3. \A c \in Consumers : redelivered[c] \in 0 .. MaxRedeliveries
        BY Counts DEF Tx
    <2>4. \A c \in Consumers : redelivered[c] <= crashes => redelivered[c] <= crashes'
        BY <2>1, <2>3
    <2> QED BY <2>1, <2>2, <2>4 DEF RetryInv
<1> QED BY <1>1, <1>2 DEF RetryInv, Tasked

\* Nothing sent, taken or redelivered; a listener may drop its order.
LEMMA RetryIdle ==
    ASSUME IInv, RetryInv, TasksStay, UNCHANGED <<queue, dead, crashes>>,
           \/ UNCHANGED <<order, redelivered>>
           \/ \E t \in Tx : Leave(t)
    PROVE  RetryInv'
<1>1. \A c \in Consumers : \/ redelivered'[c] = redelivered[c] /\ order'[c] = order[c]
                           \/ redelivered'[c] <= crashes'
    <2>1. CASE UNCHANGED <<order, redelivered>>
        BY <2>1
    <2>2. ASSUME NEW t \in Tx, Leave(t), NEW c \in Consumers
          PROVE  \/ redelivered'[c] = redelivered[c] /\ order'[c] = order[c]
                 \/ redelivered'[c] <= crashes'
        <3>1. crashes' \in Nat /\ order \in [Tx -> Orders \cup {NoOrder}]
              /\ redelivered \in [Tx -> 0 .. MaxRedeliveries] /\ c \in Tx
            BY DEF IInv, TypeOK, QueuesOK, Tx
        <3> QED BY <2>2, <3>1 DEF Leave
    <2> QED BY <2>1, <2>2
<1> QED BY <1>1, RetryKept, Counts

\* A failure, or an order with a task, pays for a redelivery.
LEMMA RetryRedelivers ==
    ASSUME IInv, RetryInv, TasksStay, NEW t \in Consumers, order[t] \in Orders, Redeliver(t),
           \/ crashes' = crashes + 1
           \/ crashes' = crashes /\ Tasked(order[t]),
           UNCHANGED <<order, redelivered>> \/ Leave(t)
    PROVE  RetryInv'
<1>1. t \in Tx /\ crashes' \in Nat /\ crashes <= crashes'
    BY Counts DEF Tx
<1>2. redelivered[t] + 1 <= crashes' \/ Tasked(order[t])
    <2>1. redelivered[t] <= crashes \/ Tasked(order[t])
        BY DEF RetryInv
    <2>2. redelivered[t] \in Nat /\ crashes \in Nat
        BY <1>1, Counts
    <2> QED BY <2>1, <2>2
<1>3. \A o \in Orders, n \in 0 .. MaxRedeliveries :
         queue'[o][n] > 0 => queue[o][n] > 0 \/ n <= crashes' \/ Tasked(o)
    BY <1>1, <1>2, RedeliverStep
<1>4. \A o \in dead' : o \in dead \/ crashes' > MaxRedeliveries \/ Tasked(o)
    <2>1. CASE redelivered[t] < MaxRedeliveries
        BY <2>1 DEF Redeliver
    <2>2. CASE ~(redelivered[t] < MaxRedeliveries)
        <3>1. redelivered[t] + 1 <= crashes' => crashes' > MaxRedeliveries
            BY <1>1, <2>2, Counts
        <3> QED BY <1>2, <2>2, <3>1 DEF Redeliver
    <2> QED BY <2>1, <2>2
<1>5. \A c \in Consumers : \/ redelivered'[c] = redelivered[c] /\ order'[c] = order[c]
                           \/ redelivered'[c] <= crashes'
    <2>1. CASE Leave(t)
        <3>1. /\ order \in [Tx -> Orders \cup {NoOrder}] /\ Consumers \subseteq Tx
              /\ redelivered \in [Tx -> 0 .. MaxRedeliveries]
            BY DEF IInv, TypeOK, QueuesOK, Tx
        <3> QED BY <1>1, <2>1, <3>1 DEF Leave
    <2> QED BY <2>1
<1> QED BY <1>1, <1>3, <1>4, <1>5, RetryKept

\* A listener's step: only saveWareOrderTask's exception and a lost
\* acknowledgement redeliver, and both find a task.
LEMMA WorkRetries ==
    ASSUME IInv, RetryInv, TasksStay, NEW c \in Consumers, Work(c)
    PROVE  RetryInv'
<1>1. ASSUME NEW o \in Orders, NEW n \in 0 .. MaxRedeliveries, Receive(c, o, n) PROVE RetryInv'
    <2>1. queue[o][n] \in Nat /\ queue[o][n] - 1 \in Nat
        BY <1>1, Counts DEF Receive
    <2>2. \A p \in Orders, m \in 0 .. MaxRedeliveries : queue'[p][m] > 0 => queue[p][m] > 0
        BY <1>1, <2>1, QueueChanges DEF Receive
    <2>3. n <= crashes \/ Tasked(o)
        BY <1>1 DEF Receive, RetryInv
    <2>4. /\ redelivered'[c] = n /\ order'[c] = o /\ crashes' = crashes /\ dead' = dead
          /\ \A d \in Consumers \ {c} : redelivered'[d] = redelivered[d] /\ order'[d] = order[d]
        BY <1>1 DEF Receive, boundVars, IInv, TypeOK, QueuesOK, Tx
    <2> QED BY <2>2, <2>3, <2>4, RetryKept, Counts
<1>2. CASE FindTask(c)
    <2>1. CASE Cardinality(TasksOf(order[c])) > 1 /\ Redeliver(c) /\ Leave(c)
        <3>1. Tasked(order[c]) /\ order[c] \in Orders
            <4>1. TasksOf(order[c]) # {}
                BY <2>1, FS_EmptySet
            <4> QED BY <1>2, <4>1 DEF Tasked, TasksOf, FindTask, IInv, ListenerInv
        <3> QED BY <1>2, <2>1, <3>1, RetryRedelivers DEF FindTask, boundVars
    <2>2. CASE UNCHANGED <<order, redelivered, queue, dead>>
        BY <1>2, <2>2, RetryIdle DEF FindTask, boundVars
    <2> QED BY <1>2, <2>1, <2>2 DEF FindTask
<1>3. CASE Acknowledge(c)
    <2>1. order[c] \in Orders
        BY <1>3 DEF Acknowledge, IInv, ListenerInv
    <2>2. CASE UNCHANGED <<queue, dead, unheard, crashes>>
        BY <1>3, <2>2, RetryIdle DEF Acknowledge
    <2>3. CASE crashes' = crashes + 1 /\ Redeliver(c)
        BY <1>3, <2>1, <2>3, RetryRedelivers DEF Acknowledge
    <2> QED BY <1>3, <2>2, <2>3 DEF Acknowledge
<1>4. CASE InsertTask(c) \/ SendSkuDeductMQ(c) \/ \E s \in Skus : InsertDetail(c, s)
    BY <1>4, RetryIdle DEF InsertTask, SendSkuDeductMQ, InsertDetail, queueVars, boundVars
<1>5. CASE CheckOrderSplit(c) \/ CommitLock(c) \/ DeadlockVictim(c)
           \/ \E s \in Skus : SelectForUpdate(c, s)
    BY <1>5, RetryIdle
    DEF CheckOrderSplit, CommitLock, DeadlockVictim, SelectForUpdate, queueVars, boundVars, Tx
<1> QED BY <1>1, <1>2, <1>3, <1>4, <1>5 DEF Work

LEMMA NextRetryInv == IInv /\ RetryInv /\ [Next]_vars => RetryInv'
<1> SUFFICES ASSUME IInv, RetryInv, [Next]_vars PROVE RetryInv'
    OBVIOUS
<1>1. TasksStay
    BY NextTasksStay
<1>2. ASSUME NEW o \in Orders, NotifyWare(o) PROVE RetryInv'
    <2>1. queue[o][0] + 1 \in Nat /\ 0 \in 0 .. MaxRedeliveries
        BY Counts
    <2>2. \A p \in Orders, n \in 0 .. MaxRedeliveries :
             queue'[p][n] > 0 => queue[p][n] > 0 \/ n <= crashes
        BY <1>2, <2>1, QueueChanges, Counts DEF NotifyWare
    <2> QED BY <1>1, <1>2, <2>2, RetryKept, Counts DEF NotifyWare, boundVars, threadVars
<1>3. ASSUME NEW r \in RowIds, NEW x \in Restocks, AddWareSku(r, x[1], x[2], x[3])
      PROVE  RetryInv'
    BY <1>1, <1>3, RetryIdle DEF AddWareSku, queueVars, boundVars, threadVars
<1>4. ASSUME NEW c \in Consumers, Work(c) PROVE RetryInv'
    BY <1>1, <1>4, WorkRetries
<1>5. ASSUME NEW k \in Clerks, Deliver(k) PROVE RetryInv'
    BY <1>1, <1>5, RetryIdle DEF Deliver, SendToOrder, CommitDelivery, queueVars, boundVars, Tx
<1>6. ASSUME NEW t \in Tx, Crash(t) PROVE RetryInv'
    <2>1. CASE pc[t] \in Unacknowledged
        <3>1. t \in Consumers /\ order[t] \in Orders
            BY <1>6, <2>1 DEF IInv, ListenerInv, ClerkInv, Unacknowledged, Tx
        <3> QED BY <1>1, <1>6, <2>1, <3>1, RetryRedelivers DEF Crash
    <2>2. CASE pc[t] \notin Unacknowledged
        <3>1. \A c \in Consumers : \/ redelivered'[c] = redelivered[c] /\ order'[c] = order[c]
                                   \/ redelivered'[c] <= crashes'
            <4>1. /\ order \in [Tx -> Orders \cup {NoOrder}] /\ Consumers \subseteq Tx
                  /\ redelivered \in [Tx -> 0 .. MaxRedeliveries] /\ crashes \in Nat
                BY DEF IInv, TypeOK, QueuesOK, Tx
            <4> QED BY <1>6, <4>1 DEF Crash, Leave
        <3> QED BY <1>1, <1>6, <2>2, <3>1, RetryKept, Counts DEF Crash
    <2> QED BY <2>1, <2>2
<1>7. CASE UNCHANGED vars
    BY <1>1, <1>7, RetryIdle DEF vars, queueVars, boundVars, threadVars
<1> QED BY <1>2, <1>3, <1>4, <1>5, <1>6, <1>7 DEF Next

LEMMA InitRetryInv == Init => RetryInv
BY WarehouseAssumption DEF Init, RetryInv, Tx

\* An announced order waits in the queue, is in the hands of a listener, or has
\* a task to be found by: it ends on the dead letter queue without one only if
\* more failures happened than the client redelivers a message.
THEOREM NoneForgotten == Spec => []NoOrderForgotten
<1>1. IInv /\ KInv /\ RetryInv => NoOrderForgotten
    BY DEF KInv, HeldInv, Waiting, RetryInv, Tasked, TasksOf, NoOrderForgotten
<1> QED BY <1>1, InitIInv, NextIInv, InitKInv, NextKInv, InitRetryInv, NextRetryInv, PTL DEF Spec

-----------------------------------------------------------------------------
\* The shelf.  Between its SELECT and its commit a listener does what Shelf's
\* Promise does in one step: LockInv says that the rows it saw are still the
\* only ones of their sku in its warehouse, and still have the goods.

LEMMA PromiseStep ==
    ASSUME IInv, NEW c \in Consumers, CommitLock(c), ~short[c]
    PROVE  Goods!Promise(order[c], ware[c])
<1> DEFINE o == order[c]
           w == ware[c]
<1>1. /\ o \in Orders /\ w \in Wares
      /\ \A s \in Lines(o) : Checked(c, s) /\ Demand[o][s] \in Nat \ {0}
    BY WarehouseAssumption DEF IInv, ListenerInv, LockInv, CommitLock, Locking
<1>2. ASSUME NEW s \in Lines(o)
      PROVE  \E r \in RowIds : /\ \A q \in RowIds : row[q] = <<s, w>> <=> q = r
                               /\ Demand[o][s] <= stock[r] - stockLocked[r]
    <2>1. PICK r \in RowIds : RowsOf(s, w) = {r} /\ Available(r) >= Demand[o][s]
        BY <1>1 DEF Checked
    <2>2. \A q \in RowIds : row[q] = <<s, w>> <=> q = r
        BY <2>1 DEF RowsOf
    <2>3. Demand[o][s] <= stock[r] - stockLocked[r]
        BY <1>1, <2>1 DEF Available, IInv, TypeOK
    <2> QED BY <2>2, <2>3
<1>3. Goods!Stocks(w, o)
    BY <1>2 DEF Goods!Stocks, Lines
<1>4. \A r \in RowIds : Goods!Taken(o, w, r) > 0
                           => Goods!Taken(o, w, r) <= stock[r] - stockLocked[r]
    <2> SUFFICES ASSUME NEW r \in RowIds, Goods!Taken(o, w, r) > 0
                 PROVE  Goods!Taken(o, w, r) <= stock[r] - stockLocked[r]
        OBVIOUS
    <2>1. PICK s \in Lines(o) : row[r] = <<s, w>>
        BY DEF Goods!Taken, Lines
    <2>2. Goods!Taken(o, w, r) = Demand[o][s]
        BY <2>1 DEF Goods!Taken, Lines
    <2> QED BY <1>2, <2>1, <2>2
<1>5. stockLocked' = [r \in RowIds |-> stockLocked[r] + Goods!Taken(o, w, r)]
    <2>1. \A r \in RowIds :
             (\E s \in Lines(o) : r \in RowsOf(s, w)) <=> \E s \in DOMAIN Demand[o] : row[r] = <<s, w>>
        BY DEF RowsOf, Lines
    <2>2. \A r \in RowIds : stockLocked[r] \in Nat
        BY DEF IInv, TypeOK
    <2> QED BY <2>1, <2>2 DEF CommitLock, IncrStockLocked, Goods!Taken
<1> QED BY <1>3, <1>4, <1>5 DEF CommitLock, Goods!Promise

\* A listener that found a shortage, and every other step but an operator's,
\* leaves the shelf alone.
LEMMA RefusalStep ==
    ASSUME IInv, NEW c \in Consumers, CommitLock(c), short[c]
    PROVE  UNCHANGED wareSkuVars
<1>1. stockLocked' = [r \in RowIds |-> stockLocked[r]]
    BY DEF CommitLock, IncrStockLocked
<1>2. stockLocked' = stockLocked
    BY <1>1 DEF IInv, TypeOK
<1> QED BY <1>2 DEF CommitLock, wareSkuVars

LEMMA ShelfStep ==
    IInv /\ [Next]_vars => [Goods!Next]_(Goods!shelfVars)
<1> SUFFICES ASSUME IInv, [Next]_vars PROVE Goods!Next \/ UNCHANGED wareSkuVars
    BY DEF wareSkuVars, Goods!shelfVars
<1>1. ASSUME NEW r \in RowIds, NEW x \in Restocks, AddWareSku(r, x[1], x[2], x[3])
      PROVE  Goods!Next
    <2>1. Goods!Shelve(r, x)
        BY <1>1 DEF AddWareSku, Goods!Shelve
    <2> QED BY <2>1 DEF Goods!Next
<1>2. ASSUME NEW c \in Consumers, CommitLock(c)
      PROVE  Goods!Next \/ UNCHANGED wareSkuVars
    <2>1. order[c] \in Orders /\ ware[c] \in Wares
        BY <1>2 DEF IInv, ListenerInv, CommitLock, Locking
    <2>2. CASE short[c]
        BY <1>2, <2>2, RefusalStep
    <2>3. CASE ~short[c]
        BY <1>2, <2>1, <2>3, PromiseStep DEF Goods!Next
    <2> QED BY <2>2, <2>3
<1>3. ASSUME NEW k \in Clerks, CommitDelivery(k) PROVE UNCHANGED wareSkuVars
    BY <1>3, DeliveryTakesNothing
<1>4. ASSUME NEW c \in Consumers, Work(c), ~CommitLock(c) PROVE UNCHANGED wareSkuVars
    BY <1>4 DEF Work, Receive, FindTask, InsertTask, Acknowledge, InsertDetail,
       CheckOrderSplit, SelectForUpdate, SendSkuDeductMQ, DeadlockVictim
<1>5. CASE Next
    BY <1>1, <1>2, <1>3, <1>4, <1>5 DEF Next, NotifyWare, Deliver, SendToOrder, Crash
<1> QED BY <1>5 DEF vars

LEMMA ShelfInit == Init => Goods!Init
BY DEF Init, Goods!Init

\* The warehouse service implements Shelf: whatever its listeners, clerks,
\* crashes and redeliveries do, the goods change hands one whole order at a time.
THEOREM ServiceImplementsShelf == Spec => ImplementsShelf
BY ShelfInit, ShelfStep, InitIInv, NextIInv, PTL DEF Spec, ImplementsShelf, Goods!Spec
=============================================================================
