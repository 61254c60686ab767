------------------------- MODULE WarehouseStockProofs -------------------------
(***************************************************************************)
(* How much of each sku the warehouse has promised, for any orders, goods, *)
(* listeners, clerks and rows of ware_sku: at least what the orders shown  *)
(* as DEDUCTED buy, and at most what the messages sent ask for.            *)
(***************************************************************************)
EXTENDS WarehouseProofs, Sums

SkuRows(s) == {r \in RowIds : row[r] # NoRow /\ row[r][1] = s}

\* What is locked of a sku is the sum over its rows, of which there are finitely many.
LEMMA FiniteRows ==
    ASSUME NEW s
    PROVE  IsFiniteSet(SkuRows(s)) /\ LockedOf(s) = SumFunctionOnSet(stockLocked, SkuRows(s))
<1>1. SkuRows(s) \subseteq RowIds
    BY DEF SkuRows
<1>2. IsFiniteSet(SkuRows(s))
    BY <1>1, FS_Subset, WarehouseAssumption
<1> QED BY <1>2 DEF LockedOf, SkuRows

\* And it is a number.
LEMMA LockedNat ==
    ASSUME IInv, NEW s
    PROVE  LockedOf(s) \in Nat
<1>1. \A r \in SkuRows(s) : stockLocked[r] \in Nat
    BY DEF IInv, TypeOK, SkuRows
<1> QED BY <1>1, FiniteRows, SumNat

\* So is what an order buys of a sku.
LEMMA PiecesNat ==
    ASSUME NEW o \in Orders, NEW s
    PROVE  Pieces(o, s) \in Nat
BY WarehouseAssumption DEF Pieces

\* A new row has nothing locked, though an id may have been prepared for it.
LEMMA AddLocksNothing ==
    ASSUME IInv, NEW r \in RowIds, NEW x \in Restocks, AddWareSku(r, x[1], x[2], x[3]), NEW s
    PROVE  LockedOf(s)' = LockedOf(s)
<1>1. /\ row[r] = NoRow /\ stockLocked[r] = 0 /\ stockLocked' = stockLocked
      /\ row' = [row EXCEPT ![r] = <<x[1], x[2]>>]
    BY DEF AddWareSku, IInv, RowInv
<1>2. SkuRows(s)' = SkuRows(s) \/ SkuRows(s)' = SkuRows(s) \cup {r}
    BY <1>1 DEF SkuRows, IInv, TypeOK
<1>3. r \notin SkuRows(s) /\ \A q \in SkuRows(s) \cup {r} : stockLocked[q] \in Int
    BY <1>1 DEF SkuRows, IInv, TypeOK
<1>4. LockedOf(s)' = SumFunctionOnSet(stockLocked, SkuRows(s)')
    BY <1>1 DEF LockedOf, SkuRows
<1>5. CASE SkuRows(s)' = SkuRows(s)
    BY <1>4, <1>5, FiniteRows
<1>6. CASE SkuRows(s)' = SkuRows(s) \cup {r}
    <2>1. SumFunctionOnSet(stockLocked, SkuRows(s) \cup {r})
             = stockLocked[r] + SumFunctionOnSet(stockLocked, SkuRows(s))
        BY <1>3, FiniteRows, SumAdd
    <2>2. LockedOf(s)' = 0 + LockedOf(s)
        BY <1>1, <1>4, <1>6, <2>1, FiniteRows
    <2> QED BY <2>2, LockedNat
<1> QED BY <1>2, <1>5, <1>6

\* The commit of lockStock locks each line once: its sku has one row in the
\* warehouse of the order.
LEMMA CommitLocksOnce ==
    ASSUME IInv, NEW c \in Consumers, CommitLock(c), ~short[c], NEW s
    PROVE  LockedOf(s)' = LockedOf(s) + Pieces(order[c], s)
<1> DEFINE o == order[c]
           w == ware[c]
<1>1. /\ o \in Orders /\ \A t \in Lines(o) : Checked(c, t) /\ Demand[o][t] \in Nat
      /\ row' = row
    BY WarehouseAssumption DEF IInv, ListenerInv, LockInv, CommitLock, Locking
<1>2. LockedOf(s)' = SumFunctionOnSet(stockLocked', SkuRows(s))
    BY <1>1 DEF LockedOf, SkuRows
<1>3. \A q \in SkuRows(s) : stockLocked[q] \in Int
    BY DEF SkuRows, IInv, TypeOK
<1>4. \A q \in SkuRows(s) : row[q] # <<s, w>> \/ s \notin Lines(o) => stockLocked'[q] = stockLocked[q]
    BY DEF CommitLock, IncrStockLocked, RowsOf, SkuRows
<1>5. CASE s \notin Lines(o)
    <2>1. \A q \in SkuRows(s) : stockLocked'[q] = stockLocked[q]
        BY <1>4, <1>5
    <2>2. SumFunctionOnSet(stockLocked, SkuRows(s)) = SumFunctionOnSet(stockLocked', SkuRows(s))
        BY <1>3, <2>1, FiniteRows, SumSame
    <2>3. LockedOf(s)' = LockedOf(s) /\ Pieces(o, s) = 0
        BY <1>2, <1>5, <2>2, FiniteRows DEF Pieces
    <2> QED BY <2>3, LockedNat
<1>6. CASE s \in Lines(o)
    <2>1. PICK r \in RowIds : RowsOf(s, w) = {r}
        BY <1>1, <1>6 DEF Checked
    <2>2. row[r] = <<s, w>> /\ \A q \in RowIds : row[q] = <<s, w>> => q = r
        BY <2>1 DEF RowsOf
    <2>3. r \in SkuRows(s)
        <3>1. s \in Skus /\ w \in Wares
            BY <1>1, <1>6, WarehouseAssumption DEF CommitLock, IInv, ListenerInv, Locking
        <3>2. <<s, w>> \in Skus \X (Wares \cup {NoWare})
            BY <3>1
        <3>3. row[r] # NoRow
            BY <2>2, <3>2, WarehouseAssumption
        <3>4. row[r][1] = s
            BY <2>2
        <3> QED BY <3>3, <3>4 DEF SkuRows
    <2>4. stockLocked'[r] = stockLocked[r] + Demand[o][s]
        <3>1. row[r][1] = s /\ \E t \in Lines(o) : r \in RowsOf(t, w)
            BY <1>6, <2>1, <2>2
        <3>2. stockLocked'[r] = stockLocked[r] + Demand[o][row[r][1]]
            BY <3>1 DEF CommitLock, IncrStockLocked
        <3> QED BY <3>1, <3>2
    <2>5. \A q \in SkuRows(s) \ {r} : stockLocked'[q] = stockLocked[q]
        BY <1>4, <2>2 DEF SkuRows
    <2>6. \A q \in SkuRows(s) : stockLocked'[q] \in Int
        BY <1>1, <1>3, <1>6, <2>4, <2>5
    <2>7. SumFunctionOnSet(stockLocked', SkuRows(s))
             = SumFunctionOnSet(stockLocked, SkuRows(s)) - stockLocked[r] + stockLocked'[r]
        BY <1>3, <2>3, <2>5, <2>6, FiniteRows, SumChange
    <2>8. LockedOf(s)' = LockedOf(s) - stockLocked[r] + (stockLocked[r] + Demand[o][s])
        BY <1>2, <2>4, <2>7, FiniteRows
    <2>9. Pieces(o, s) = Demand[o][s] /\ Demand[o][s] \in Nat /\ stockLocked[r] \in Int
        BY <1>1, <1>3, <1>6, <2>3 DEF Pieces
    <2> QED BY <2>8, <2>9, LockedNat
<1> QED BY <1>5, <1>6

\* No other step locks or frees any goods.
LEMMA LocksElsewhere ==
    ASSUME IInv, [Next]_vars, \A c \in Consumers : CommitLock(c) => short[c], NEW s
    PROVE  LockedOf(s)' = LockedOf(s)
<1>1. CASE UNCHANGED wareSkuVars
    BY <1>1 DEF LockedOf, wareSkuVars
<1>2. ASSUME NEW r \in RowIds, NEW x \in Restocks, AddWareSku(r, x[1], x[2], x[3])
      PROVE  LockedOf(s)' = LockedOf(s)
    BY <1>2, AddLocksNothing
<1>3. CASE Next /\ ~UNCHANGED wareSkuVars
    <2>1. \A c \in Consumers : ~Work(c)
        BY <1>3, RefusalStep DEF Work, Receive, FindTask, InsertTask, Acknowledge,
           InsertDetail, CheckOrderSplit, SelectForUpdate, SendSkuDeductMQ, DeadlockVictim
    <2>2. \A k \in Clerks : ~Deliver(k)
        BY <1>3, DeliveryTakesNothing DEF Deliver, SendToOrder
    <2> QED BY <1>2, <1>3, <2>1, <2>2 DEF Next, NotifyWare, Crash
<1> QED BY <1>1, <1>3 DEF vars

-----------------------------------------------------------------------------
\* What orders buy.

\* What orders buy of a sku in all is a number too.
LEMMA OrdersBuy ==
    ASSUME NEW os \in SUBSET Orders, NEW s
    PROVE  /\ IsFiniteSet(os)
           /\ \A o \in Orders : [p \in Orders |-> Pieces(p, s)][o] \in Nat
           /\ BoughtBy(os, s) \in Nat
<1>1. IsFiniteSet(os)
    BY FS_Subset, WarehouseAssumption
<1> DEFINE buy == [p \in Orders |-> Pieces(p, s)]
<1>2. \A o \in Orders : buy[o] \in Nat
    BY PiecesNat
<1>3. BoughtBy(os, s) = SumFunctionOnSet(buy, os)
    BY DEF BoughtBy
<1> HIDE DEF buy
<1>4. SumFunctionOnSet(buy, os) \in Nat
    BY <1>1, <1>2, SumNat
<1> QED BY <1>1, <1>2, <1>3, <1>4 DEF buy

\* Fewer orders buy less.
LEMMA FewerBuyLess ==
    ASSUME NEW os \in SUBSET Orders, NEW ps \in SUBSET os, NEW s
    PROVE  BoughtBy(ps, s) <= BoughtBy(os, s)
<1> DEFINE buy == [p \in Orders |-> Pieces(p, s)]
<1>1. IsFiniteSet(os) /\ \A o \in Orders : buy[o] \in Nat
    BY OrdersBuy
<1>2. BoughtBy(ps, s) = SumFunctionOnSet(buy, ps) /\ BoughtBy(os, s) = SumFunctionOnSet(buy, os)
    BY DEF BoughtBy
<1> HIDE DEF buy
<1> QED BY <1>1, <1>2, SumPart

\* One more order buys at most its own pieces more.
LEMMA OneMoreBuys ==
    ASSUME NEW os \in SUBSET Orders, NEW o \in Orders, NEW s
    PROVE  BoughtBy(os \cup {o}, s) <= BoughtBy(os, s) + Pieces(o, s)
<1>1. Pieces(o, s) \in Nat /\ BoughtBy(os, s) \in Nat
    BY PiecesNat, OrdersBuy
<1>2. CASE o \in os
    <2>1. os \cup {o} = os
        BY <1>2
    <2>2. BoughtBy(os \cup {o}, s) = BoughtBy(os, s)
        BY <2>1
    <2> QED BY <1>1, <2>2
<1>3. CASE o \notin os
    <2> DEFINE buy == [p \in Orders |-> Pieces(p, s)]
    <2>1. IsFiniteSet(os) /\ \A p \in os \cup {o} : buy[p] \in Int
        <3>1. \A p \in os \cup {o} : buy[p] = Pieces(p, s)
            OBVIOUS
        <3> QED BY <3>1, OrdersBuy, PiecesNat
    <2>2. BoughtBy(os \cup {o}, s) = SumFunctionOnSet(buy, os \cup {o})
          /\ BoughtBy(os, s) = SumFunctionOnSet(buy, os) /\ buy[o] = Pieces(o, s)
        BY DEF BoughtBy
    <2> HIDE DEF buy
    <2>3. SumFunctionOnSet(buy, os \cup {o}) = buy[o] + SumFunctionOnSet(buy, os)
        BY <1>3, <2>1, SumAdd
    <2> QED BY <1>1, <2>2, <2>3
<1> QED BY <1>2, <1>3

-----------------------------------------------------------------------------
\* Orders shown as DEDUCTED.

\* Only a commit that locks an order's goods shows the order as DEDUCTED.
LEMMA CommitDeducts ==
    ASSUME IInv, NEW c \in Consumers, CommitLock(c)
    PROVE  DeductedOrders' \subseteq DeductedOrders \cup (IF short[c] THEN {} ELSE {order[c]})
<1> SUFFICES ASSUME NEW o \in DeductedOrders', o # order[c] \/ short[c]
             PROVE  o \in DeductedOrders
    OBVIOUS
<1>1. PICK i \in DOMAIN tasks' : tasks'[i].orderId = o /\ tasks'[i].taskStatus = "DEDUCTED"
    BY DEF DeductedOrders, TasksOf
<1>2. i \in DOMAIN tasks /\ tasks[i] \in TaskRow /\ o \in Orders
    <2>1. tasks \in Seq(TaskRow)
        BY DEF IInv, TypeOK, TaskRow
    <2> QED BY <1>1, <2>1 DEF CommitLock, DeductedOrders
<1>3. tasks'[i] = IF tasks[i].orderId = order[c]
                  THEN [tasks[i] EXCEPT !.taskStatus = Verdict(c)] ELSE tasks[i]
    BY <1>2 DEF CommitLock
<1>4. tasks[i].orderId # order[c]
    <2> SUFFICES ASSUME tasks[i].orderId = order[c] PROVE FALSE
        OBVIOUS
    <2>1. tasks'[i].orderId = order[c] /\ tasks'[i].taskStatus = Verdict(c)
        BY <1>2, <1>3 DEF TaskRow
    <2> QED BY <1>1, <2>1 DEF Verdict
<1> QED BY <1>1, <1>2, <1>3, <1>4 DEF DeductedOrders, TasksOf

\* No other step shows an order as DEDUCTED that was not.
LEMMA DeductsElsewhere ==
    ASSUME IInv, [Next]_vars, \A c \in Consumers : ~CommitLock(c)
    PROVE  DeductedOrders' \subseteq DeductedOrders
<1>1. tasks \in Seq(TaskRow) /\ \A i \in DOMAIN tasks : tasks[i] \in TaskRow
    <2>1. tasks \in Seq(TaskRow)
        BY DEF IInv, TypeOK, TaskRow
    <2> QED BY <2>1
<1>2. CASE UNCHANGED tasks
    BY <1>2 DEF DeductedOrders, TasksOf
<1>3. ASSUME \A i \in DOMAIN tasks' : tasks'[i].taskStatus = "DEDUCTED" =>
                i \in DOMAIN tasks /\ tasks[i].taskStatus = "DEDUCTED"
                /\ tasks[i].orderId = tasks'[i].orderId
      PROVE  DeductedOrders' \subseteq DeductedOrders
    BY <1>3 DEF DeductedOrders, TasksOf
<1>4. ASSUME NEW c \in Consumers, InsertTask(c) PROVE DeductedOrders' \subseteq DeductedOrders
    BY <1>1, <1>3, <1>4 DEF InsertTask
<1>5. ASSUME NEW c \in Consumers, NEW s \in Skus, InsertDetail(c, s)
      PROVE  DeductedOrders' \subseteq DeductedOrders
    <2>1. task[c] \in DOMAIN tasks
        BY <1>5 DEF InsertDetail, IInv, ListenerInv
    <2> QED BY <1>1, <1>3, <1>5, <2>1 DEF InsertDetail, TaskRow
<1>6. ASSUME NEW k \in Clerks, CommitDelivery(k) PROVE DeductedOrders' \subseteq DeductedOrders
    BY <1>1, <1>3, <1>6 DEF CommitDelivery, TaskRow
<1>7. CASE Next
    BY <1>2, <1>4, <1>5, <1>6, <1>7
    DEF Next, Work, Deliver, NotifyWare, AddWareSku, Receive, FindTask, Acknowledge,
        CheckOrderSplit, SelectForUpdate, SendSkuDeductMQ, SendToOrder, Crash, DeadlockVictim
<1> QED BY <1>2, <1>7 DEF vars

\* A commit that adds an order to the deducted ones locks its pieces in the same
\* step; no other step adds one, and none frees what is locked.
LEMMA NextBacked == IInv /\ DeductedIsBacked /\ [Next]_vars => DeductedIsBacked'
<1> SUFFICES ASSUME IInv, DeductedIsBacked, [Next]_vars, NEW s \in Skus
             PROVE  BoughtBy(DeductedOrders', s) <= LockedOf(s)'
    BY DEF DeductedIsBacked, BoughtBy
<1>1. /\ BoughtBy(DeductedOrders, s) <= LockedOf(s) /\ LockedOf(s) \in Nat
      /\ DeductedOrders \subseteq Orders /\ DeductedOrders' \subseteq Orders
    BY LockedNat DEF DeductedIsBacked, DeductedOrders
<1>2. BoughtBy(DeductedOrders, s) \in Nat /\ BoughtBy(DeductedOrders', s) \in Nat
    BY <1>1, OrdersBuy
<1>3. ASSUME DeductedOrders' \subseteq DeductedOrders, LockedOf(s)' = LockedOf(s)
      PROVE  BoughtBy(DeductedOrders', s) <= LockedOf(s)'
    BY <1>1, <1>2, <1>3, FewerBuyLess
<1>4. ASSUME NEW c \in Consumers, CommitLock(c), ~short[c]
      PROVE  BoughtBy(DeductedOrders', s) <= LockedOf(s)'
    <2> DEFINE os == DeductedOrders \cup {order[c]}
    <2>1. order[c] \in Orders /\ os \in SUBSET Orders
        BY <1>1, <1>4 DEF IInv, ListenerInv, CommitLock
    <2>2. BoughtBy(DeductedOrders', s) <= BoughtBy(os, s)
        BY <1>4, <2>1, CommitDeducts, FewerBuyLess
    <2>3. BoughtBy(os, s) <= BoughtBy(DeductedOrders, s) + Pieces(order[c], s)
        BY <1>1, <2>1, OneMoreBuys
    <2>4. LockedOf(s)' = LockedOf(s) + Pieces(order[c], s)
        BY <1>4, CommitLocksOnce
    <2>5. BoughtBy(os, s) \in Nat /\ Pieces(order[c], s) \in Nat
        BY <2>1, OrdersBuy, PiecesNat
    <2> HIDE DEF os
    <2> QED BY <1>1, <1>2, <2>2, <2>3, <2>4, <2>5
<1>5. ASSUME NEW c \in Consumers, CommitLock(c), short[c]
      PROVE  BoughtBy(DeductedOrders', s) <= LockedOf(s)'
    <2>1. LockedOf(s)' = LockedOf(s)
        BY <1>5, RefusalStep DEF LockedOf, wareSkuVars
    <2> QED BY <1>3, <1>5, <2>1, CommitDeducts
<1>6. CASE \A c \in Consumers : ~CommitLock(c)
    BY <1>3, <1>6, LocksElsewhere, DeductsElsewhere
<1> QED BY <1>4, <1>5, <1>6

LEMMA InitBacked == Init => DeductedIsBacked
<1> SUFFICES ASSUME Init, NEW s \in Skus PROVE BoughtBy(DeductedOrders, s) <= LockedOf(s)
    BY DEF DeductedIsBacked
<1>1. DeductedOrders = {} /\ LockedOf(s) \in Nat
    BY InitIInv, LockedNat DEF Init, DeductedOrders, TasksOf
<1>2. BoughtBy({}, s) = 0
    BY SumEmpty DEF BoughtBy
<1> QED BY <1>1, <1>2

\* Whatever crashes, repeats, refusals and deliveries there are, ware_sku has
\* locked at least what the orders shown as DEDUCTED buy.
THEOREM DeductedGoodsAreLocked == Spec => []DeductedIsBacked
BY InitIInv, NextIInv, InitBacked, NextBacked, PTL DEF Spec

-----------------------------------------------------------------------------
\* Messages and locks.  A copy of an order's message waits, is in the hands of
\* a listener, or is spent.  A lost acknowledgement makes a copy more; a
\* redelivery moves the copy in hand back to the queue, or spends it when it
\* goes to the dead letter queue.  Every lock is paid for by a spent copy.
InHand(o) == {c \in Consumers : order[c] = o}
Copies(o) == SumFunctionOnSet(queue[o], 0 .. MaxRedeliveries)
Spent(o)  == sent[o] + unheard[o] - Copies(o) - Cardinality(InHand(o))

AskedFor(s) == SumFunctionOnSet([o \in Orders |-> Spent(o) * Pieces(o, s)], Orders)

SpentInv ==
    /\ \A o \in Orders : Spent(o) \in Nat
    /\ \A s \in Skus : LockedOf(s) <= AskedFor(s)

\* Arithmetic on products of numbers that are not negative.
LEMMA MoreTimes ==
    ASSUME NEW m \in Nat, NEW n \in Nat, NEW k \in Nat
    PROVE  /\ m * k \in Nat /\ (m + 1) * k = m * k + k
           /\ m <= n => m * k <= n * k
<1>1. m * k \in Nat /\ (m + 1) * k = m * k + k
    OBVIOUS
<1>2. m <= n => m * k <= n * k
    OBVIOUS
<1> QED BY <1>1, <1>2

\* Finitely many listeners have an order in hand.
LEMMA InHandFinite ==
    ASSUME NEW o
    PROVE  IsFiniteSet(InHand(o)) /\ Cardinality(InHand(o)) \in Nat
<1>1. InHand(o) \subseteq Consumers
    BY DEF InHand
<1>2. IsFiniteSet(InHand(o))
    BY <1>1, FS_Subset, WarehouseAssumption
<1> QED BY <1>2, FS_CardinalityType

\* Finitely many copies wait.
LEMMA CopiesNat ==
    ASSUME IInv, NEW o \in Orders
    PROVE  Copies(o) \in Nat /\ IsFiniteSet(0 .. MaxRedeliveries)
<1>1. IsFiniteSet(0 .. MaxRedeliveries)
    BY FS_Interval, WarehouseAssumption
<1>2. \A n \in 0 .. MaxRedeliveries : queue[o][n] \in Nat
    BY Counts
<1> QED BY <1>1, <1>2, SumNat DEF Copies

\* One message of p more, or less, that waits.
LEMMA CopiesChange ==
    ASSUME IInv, NEW p \in Orders, NEW m \in 0 .. MaxRedeliveries, NEW k \in Nat,
           queue' = [queue EXCEPT ![p][m] = k]
    PROVE  /\ Copies(p)' = Copies(p) - queue[p][m] + k
           /\ \A o \in Orders \ {p} : Copies(o)' = Copies(o)
<1> DEFINE f == queue[p]
           g == queue'[p]
           S == 0 .. MaxRedeliveries
<1>1. IsFiniteSet(S)
    BY CopiesNat
<1>2. \A n \in S : f[n] \in Int /\ g[n] \in Int /\ (n # m => g[n] = f[n])
    BY Counts, QueueChanges
<1>3. m \in S /\ g[m] = k
    BY QueueChanges
<1>4. Copies(p) = SumFunctionOnSet(f, S) /\ Copies(p)' = SumFunctionOnSet(g, S)
    BY DEF Copies
<1>5. \A o \in Orders \ {p} : Copies(o)' = Copies(o)
    BY QueueChanges DEF Copies
<1> HIDE DEF f, g, S
<1>6. SumFunctionOnSet(g, S) = SumFunctionOnSet(f, S) - f[m] + g[m]
    BY <1>1, <1>2, <1>3, SumChange
<1> QED BY <1>3, <1>4, <1>5, <1>6 DEF f

\* A redelivery makes at most the copy in hand wait again.
LEMMA RedeliverCopies ==
    ASSUME IInv, NEW t \in Tx, order[t] \in Orders, Redeliver(t)
    PROVE  \A o \in Orders : \/ Copies(o)' = Copies(o)
                             \/ o = order[t] /\ Copies(o)' = Copies(o) + 1
<1>1. CASE UNCHANGED queue
    BY <1>1 DEF Copies
<1>2. CASE redelivered[t] < MaxRedeliveries
    <2> DEFINE m == redelivered[t] + 1
               k == queue[order[t]][m] + 1
    <2>1. m \in 0 .. MaxRedeliveries
        BY <1>2, Counts
    <2>2. queue' = [queue EXCEPT ![order[t]][m] = k] /\ k \in Nat /\ k - 1 = queue[order[t]][m]
        BY <1>2, <2>1, Counts DEF Redeliver
    <2> HIDE DEF m, k
    <2>3. Copies(order[t]) \in Nat
        BY CopiesNat
    <2>4. /\ SumFunctionOnSet(queue'[order[t]], 0 .. MaxRedeliveries)
                = Copies(order[t]) - queue[order[t]][m] + k
          /\ \A o \in Orders \ {order[t]} : Copies(o)' = Copies(o)
        <3> DEFINE p == order[t]
        <3>1. p \in Orders
            OBVIOUS
        <3> HIDE DEF p
        <3>2. ASSUME NEW q \in Orders, q = p
              PROVE  /\ SumFunctionOnSet(queue'[q], 0 .. MaxRedeliveries)
                           = Copies(q) - queue[q][m] + k
                     /\ \A o \in Orders \ {q} : Copies(o)' = Copies(o)
            <4>1. queue' = [queue EXCEPT ![q][m] = k]
                BY <2>2, <3>2 DEF p
            <4>2. Copies(q)' = Copies(q) - queue[q][m] + k
                  /\ \A o \in Orders \ {q} : Copies(o)' = Copies(o)
                BY <2>1, <2>2, <4>1, CopiesChange
            <4> QED BY <4>2 DEF Copies
        <3> QED BY <3>1, <3>2 DEF p
    <2>5. Copies(order[t]) - queue[order[t]][m] + k = Copies(order[t]) + 1
        BY <2>2, <2>3
    <2>6. SUFFICES ASSUME NEW o \in Orders
                   PROVE  \/ Copies(o)' = Copies(o)
                          \/ o = order[t] /\ Copies(o)' = Copies(o) + 1
        OBVIOUS
    <2>7. CASE o = order[t]
        <3>1. Copies(o)' = SumFunctionOnSet(queue'[order[t]], 0 .. MaxRedeliveries)
            BY <2>7 DEF Copies
        <3>2. Copies(o) = Copies(order[t])
            BY <2>7
        <3> QED BY <2>4, <2>5, <2>7, <3>1, <3>2
    <2>8. CASE o # order[t]
        <3>1. \A q \in Orders \ {order[t]} : Copies(q)' = Copies(q)
            BY <2>4
        <3>2. o \in Orders \ {order[t]}
            BY <2>8
        <3>3. Copies(o)' = Copies(o)
            BY <3>1, <3>2
        <3> QED BY <3>3
    <2> QED BY <2>7, <2>8
<1> QED BY <1>1, <1>2 DEF Redeliver

\* A step after which no order has less spent than before.
LEMMA SpentGrows ==
    ASSUME IInv, SpentInv, \A s \in Skus : LockedOf(s)' = LockedOf(s),
           \A o \in Orders : Spent(o)' \in Nat /\ Spent(o) <= Spent(o)'
    PROVE  SpentInv'
<1> SUFFICES ASSUME NEW s \in Skus PROVE LockedOf(s) <= AskedFor(s)'
    BY DEF SpentInv
<1> DEFINE f == [o \in Orders |-> Spent(o) * Pieces(o, s)]
           g == [o \in Orders |-> Spent(o)' * Pieces(o, s)]
<1>1. \A o \in Orders : f[o] \in Int /\ g[o] \in Int /\ f[o] <= g[o]
    <2> SUFFICES ASSUME NEW o \in Orders
                 PROVE  f[o] \in Int /\ g[o] \in Int /\ f[o] <= g[o]
        OBVIOUS
    <2>1. Spent(o) \in Nat /\ Spent(o)' \in Nat /\ Spent(o) <= Spent(o)' /\ Pieces(o, s) \in Nat
        BY PiecesNat DEF SpentInv
    <2> QED BY <2>1, MoreTimes
<1>2. AskedFor(s) = SumFunctionOnSet(f, Orders) /\ AskedFor(s)' = SumFunctionOnSet(g, Orders)
    BY DEF AskedFor
<1> HIDE DEF f, g
<1>3. SumFunctionOnSet(f, Orders) <= SumFunctionOnSet(g, Orders)
    BY <1>1, SumAtMost, WarehouseAssumption
<1>4. SumFunctionOnSet(f, Orders) \in Int /\ SumFunctionOnSet(g, Orders) \in Int
    BY <1>1, SumInt, WarehouseAssumption
<1> QED BY <1>2, <1>3, <1>4, LockedNat DEF SpentInv

\* The commit of a lock spends one copy of its order's message, for one more
\* lock of its goods.
LEMMA LockSpends ==
    ASSUME IInv, SpentInv, NEW p \in Orders,
           \A s \in Skus : LockedOf(s)' = LockedOf(s) + Pieces(p, s),
           \A o \in Orders : Spent(o)' = IF o = p THEN Spent(o) + 1 ELSE Spent(o)
    PROVE  SpentInv'
<1>1. \A o \in Orders : Spent(o) \in Nat /\ Spent(o)' \in Nat
    BY DEF SpentInv
<1> SUFFICES ASSUME NEW s \in Skus PROVE LockedOf(s)' <= AskedFor(s)'
    BY <1>1 DEF SpentInv
<1> DEFINE f == [o \in Orders |-> Spent(o) * Pieces(o, s)]
           g == [o \in Orders |-> Spent(o)' * Pieces(o, s)]
<1>2. \A o \in Orders : f[o] \in Int /\ g[o] \in Int
    <2>1. \A o \in Orders : Pieces(o, s) \in Nat
        BY PiecesNat
    <2> QED BY <1>1, <2>1, MoreTimes
<1>3. \A o \in Orders \ {p} : g[o] = f[o]
    OBVIOUS
<1>4. g[p] = f[p] + Pieces(p, s)
    <2>1. Pieces(p, s) \in Nat /\ Spent(p) \in Nat
        BY <1>1, PiecesNat
    <2> QED BY <2>1, MoreTimes
<1>5. AskedFor(s) = SumFunctionOnSet(f, Orders) /\ AskedFor(s)' = SumFunctionOnSet(g, Orders)
    BY DEF AskedFor
<1> HIDE DEF f, g
<1>6. SumFunctionOnSet(g, Orders) = SumFunctionOnSet(f, Orders) - f[p] + g[p]
    BY <1>2, <1>3, SumChange, WarehouseAssumption
<1>7. SumFunctionOnSet(f, Orders) \in Int
    BY <1>2, SumInt, WarehouseAssumption
<1>8. LockedOf(s) <= AskedFor(s) /\ LockedOf(s) \in Nat /\ Pieces(p, s) \in Nat
    BY LockedNat, PiecesNat DEF SpentInv
<1> QED BY <1>2, <1>4, <1>5, <1>6, <1>7, <1>8

\* A thread that drops its work gives up the copy in its hands, or puts it back.
LEMMA LeaveSpends ==
    ASSUME IInv, NEW t \in Tx, Leave(t), UNCHANGED <<sent, unheard>>, NEW o \in Orders,
           \/ Copies(o)' = Copies(o)
           \/ t \in Consumers /\ order[t] = o /\ Copies(o)' = Copies(o) + 1
    PROVE  /\ Spent(o)' \in {Spent(o), Spent(o) + 1}
           /\ Copies(o)' = Copies(o) =>
                 Spent(o)' = IF t \in Consumers /\ order[t] = o THEN Spent(o) + 1 ELSE Spent(o)
<1>1. order' = [order EXCEPT ![t] = NoOrder] /\ order \in [Tx -> Orders \cup {NoOrder}]
    BY DEF Leave, IInv, TypeOK
<1>2. /\ sent[o] \in Nat /\ unheard[o] \in Nat /\ Copies(o) \in Nat
      /\ sent'[o] = sent[o] /\ unheard'[o] = unheard[o]
    BY Counts, CopiesNat
<1>3. CASE t \in Consumers /\ order[t] = o
    <2>1. InHand(o)' = InHand(o) \ {t} /\ t \in InHand(o)
        BY <1>1, <1>3, WarehouseAssumption DEF InHand, Tx
    <2>2. Cardinality(InHand(o)') = Cardinality(InHand(o)) - 1
        BY <2>1, InHandFinite, FS_RemoveElement
    <2>3. Copies(o)' \in {Copies(o), Copies(o) + 1} /\ Cardinality(InHand(o)) \in Nat
        BY InHandFinite
    <2> QED BY <1>2, <1>3, <2>2, <2>3 DEF Spent
<1>4. CASE ~(t \in Consumers /\ order[t] = o)
    <2>1. InHand(o)' = InHand(o) /\ Copies(o)' = Copies(o)
        BY <1>1, <1>4, WarehouseAssumption DEF InHand, Tx
    <2> QED BY <1>2, <1>4, <2>1 DEF Spent
<1> QED BY <1>3, <1>4

\* Sending and receiving a message spend nothing.
LEMMA NotifySpends ==
    ASSUME IInv, NEW p \in Orders, NotifyWare(p), NEW o \in Orders
    PROVE  Spent(o)' = Spent(o)
<1>1. queue[p][0] + 1 \in Nat /\ 0 \in 0 .. MaxRedeliveries
    BY Counts
<1>2. Copies(p)' = Copies(p) - queue[p][0] + (queue[p][0] + 1)
      /\ \A q \in Orders \ {p} : Copies(q)' = Copies(q)
    BY <1>1, CopiesChange DEF NotifyWare
<1>3. /\ sent'[o] = IF o = p THEN sent[o] + 1 ELSE sent[o]
      /\ unheard' = unheard /\ InHand(o)' = InHand(o)
    BY DEF NotifyWare, threadVars, InHand, IInv, TypeOK, QueuesOK
<1>4. /\ sent[o] \in Nat /\ unheard[o] \in Nat /\ Copies(o) \in Nat /\ queue[p][0] \in Nat
      /\ Cardinality(InHand(o)) \in Nat
    BY <1>1, Counts, CopiesNat, InHandFinite
<1>5. Copies(o)' = IF o = p THEN Copies(o) + 1 ELSE Copies(o)
    BY <1>2, <1>4
<1> QED BY <1>3, <1>4, <1>5 DEF Spent

LEMMA ReceiveSpends ==
    ASSUME IInv, KInv, NEW c \in Consumers, NEW p \in Orders, NEW n \in 0 .. MaxRedeliveries,
           Receive(c, p, n), NEW o \in Orders
    PROVE  Spent(o)' = Spent(o)
<1>1. queue[p][n] \in Nat /\ queue[p][n] - 1 \in Nat
    BY Counts DEF Receive
<1>2. Copies(p)' = Copies(p) - queue[p][n] + (queue[p][n] - 1)
      /\ \A q \in Orders \ {p} : Copies(q)' = Copies(q)
    BY <1>1, CopiesChange DEF Receive
<1>3. /\ order[c] = NoOrder /\ order' = [order EXCEPT ![c] = p]
      /\ order \in [Tx -> Orders \cup {NoOrder}] /\ sent' = sent /\ unheard' = unheard
    BY DEF Receive, KInv, TaskInv, IInv, TypeOK
<1>4. /\ sent[o] \in Nat /\ unheard[o] \in Nat /\ Copies(o) \in Nat
      /\ Cardinality(InHand(o)) \in Nat
    BY Counts, CopiesNat, InHandFinite
<1>5. CASE o = p
    <2>1. InHand(o)' = InHand(o) \cup {c} /\ c \notin InHand(o)
        BY <1>3, <1>5, WarehouseAssumption DEF InHand, Tx
    <2>2. Cardinality(InHand(o)') = Cardinality(InHand(o)) + 1
        BY <2>1, InHandFinite, FS_AddElement
    <2>3. Copies(o)' = Copies(o) - 1
        BY <1>1, <1>2, <1>4, <1>5
    <2> QED BY <1>3, <1>4, <2>2, <2>3 DEF Spent
<1>6. CASE o # p
    <2>1. InHand(o)' = InHand(o)
        BY <1>3, <1>6, WarehouseAssumption DEF InHand, Tx
    <2> QED BY <1>2, <1>3, <1>6, <2>1 DEF Spent
<1> QED BY <1>5, <1>6

\* A lost acknowledgement makes a copy more, which waits again or is spent.
LEMMA AcknowledgeSpends ==
    ASSUME IInv, NEW c \in Consumers, Acknowledge(c), NEW o \in Orders
    PROVE  Spent(o)' \in {Spent(o), Spent(o) + 1}
<1>1. /\ sent[o] \in Nat /\ unheard[o] \in Nat /\ Copies(o) \in Nat
      /\ Cardinality(InHand(o)) \in Nat
    BY Counts, CopiesNat, InHandFinite
<1>2. sent'[o] = sent[o] /\ InHand(o)' = InHand(o) /\ c \in Tx /\ order[c] \in Orders
    BY DEF Acknowledge, InHand, Tx, IInv, ListenerInv
<1>3. CASE UNCHANGED <<queue, unheard>>
    BY <1>1, <1>2, <1>3 DEF Spent, Copies
<1>4. CASE Redeliver(c) /\ unheard' = [unheard EXCEPT ![order[c]] = @ + 1]
    <2>1. \/ Copies(o)' = Copies(o)
          \/ o = order[c] /\ Copies(o)' = Copies(o) + 1
        BY <1>2, <1>4, RedeliverCopies
    <2>2. unheard'[o] = IF o = order[c] THEN unheard[o] + 1 ELSE unheard[o]
        BY <1>2, <1>4 DEF IInv, TypeOK, QueuesOK
    <2> QED BY <1>1, <1>2, <2>1, <2>2 DEF Spent
<1> QED BY <1>3, <1>4 DEF Acknowledge

\* What a listener's step may spend: one copy of the order in its hands.
LEMMA WorkSpends ==
    ASSUME IInv, KInv, NEW c \in Consumers, Work(c), NEW o \in Orders
    PROVE  /\ Spent(o)' \in {Spent(o), Spent(o) + 1}
           /\ CommitLock(c) => Spent(o)' = IF o = order[c] THEN Spent(o) + 1 ELSE Spent(o)
<1>1. ASSUME Leave(c), UNCHANGED queueVars
      PROVE  Spent(o)' = IF o = order[c] THEN Spent(o) + 1 ELSE Spent(o)
    <2>1. Copies(o)' = Copies(o) /\ UNCHANGED <<sent, unheard>> /\ c \in Tx
        BY <1>1 DEF queueVars, Copies, Tx
    <2> QED BY <1>1, <2>1, LeaveSpends
<1>2. ASSUME UNCHANGED <<order, queueVars>> PROVE Spent(o)' = Spent(o)
    BY <1>2 DEF Spent, InHand, Copies, queueVars
<1>3. CASE CommitLock(c)
    BY <1>1, <1>3 DEF CommitLock
<1>4. ASSUME ~CommitLock(c) PROVE Spent(o)' \in {Spent(o), Spent(o) + 1}
    <2>1. ASSUME NEW p \in Orders, NEW n \in 0 .. MaxRedeliveries, Receive(c, p, n)
          PROVE  Spent(o)' = Spent(o)
        BY <2>1, ReceiveSpends
    <2>2. CASE FindTask(c)
        <3>1. order[c] \in Orders /\ c \in Tx /\ UNCHANGED <<sent, unheard>>
            BY <2>2 DEF FindTask, IInv, ListenerInv, Tx
        <3>2. CASE Redeliver(c) /\ Leave(c)
            <4>1. \/ Copies(o)' = Copies(o)
                  \/ o = order[c] /\ Copies(o)' = Copies(o) + 1
                BY <3>1, <3>2, RedeliverCopies
            <4> QED BY <3>1, <3>2, <4>1, LeaveSpends
        <3> QED BY <1>2, <2>2, <3>1, <3>2 DEF FindTask, queueVars
    <2>3. CASE CheckOrderSplit(c) \/ DeadlockVictim(c) \/ \E s \in Skus : SelectForUpdate(c, s)
        BY <1>1, <1>2, <2>3 DEF CheckOrderSplit, DeadlockVictim, SelectForUpdate
    <2>4. CASE InsertTask(c) \/ SendSkuDeductMQ(c) \/ \E s \in Skus : InsertDetail(c, s)
        BY <1>2, <2>4 DEF InsertTask, SendSkuDeductMQ, InsertDetail
    <2>5. CASE Acknowledge(c)
        BY <2>5, AcknowledgeSpends
    <2> QED BY <1>4, <2>1, <2>2, <2>3, <2>4, <2>5 DEF Work
<1> QED BY <1>3, <1>4

\* Every lock comes with a spent copy, and no spent copy comes back.
LEMMA NextSpentInv == IInv /\ KInv /\ SpentInv /\ [Next]_vars => SpentInv'
<1> SUFFICES ASSUME IInv, KInv, SpentInv, [Next]_vars PROVE SpentInv'
    OBVIOUS
<1>1. \A o \in Orders : Spent(o) \in Nat
    BY DEF SpentInv
<1>2. ASSUME \A o \in Orders : Spent(o)' \in {Spent(o), Spent(o) + 1},
             \A c \in Consumers : CommitLock(c) => short[c]
      PROVE  SpentInv'
    <2>1. \A o \in Orders : Spent(o)' \in Nat /\ Spent(o) <= Spent(o)'
        BY <1>1, <1>2
    <2>2. \A s \in Skus : LockedOf(s)' = LockedOf(s)
        BY <1>2, LocksElsewhere
    <2> QED BY <2>1, <2>2, SpentGrows
<1>3. ASSUME NEW c \in Consumers, CommitLock(c), ~short[c] PROVE SpentInv'
    <2>1. order[c] \in Orders /\ Work(c)
        BY <1>3 DEF IInv, ListenerInv, CommitLock, Work
    <2>2. \A o \in Orders : Spent(o)' = IF o = order[c] THEN Spent(o) + 1 ELSE Spent(o)
        BY <1>3, <2>1, WorkSpends
    <2>3. \A s \in Skus : LockedOf(s)' = LockedOf(s) + Pieces(order[c], s)
        BY <1>3, CommitLocksOnce
    <2> QED BY <2>1, <2>2, <2>3, LockSpends
<1>4. CASE \A c \in Consumers : CommitLock(c) => short[c]
    <2> SUFFICES ASSUME NEW o \in Orders PROVE Spent(o)' \in {Spent(o), Spent(o) + 1}
        BY <1>2, <1>4
    <2>1. ASSUME UNCHANGED <<order, queueVars>> PROVE Spent(o)' = Spent(o)
        BY <2>1 DEF Spent, InHand, Copies, queueVars
    <2>2. ASSUME NEW p \in Orders, NotifyWare(p) PROVE Spent(o)' = Spent(o)
        BY <2>2, NotifySpends
    <2>3. ASSUME NEW c \in Consumers, Work(c) PROVE Spent(o)' \in {Spent(o), Spent(o) + 1}
        BY <2>3, WorkSpends
    <2>4. ASSUME NEW k \in Clerks, CommitDelivery(k) PROVE Spent(o)' = Spent(o)
        <3>1. k \in Tx \ Consumers /\ Copies(o)' = Copies(o) /\ UNCHANGED <<sent, unheard>>
            BY <2>4, WarehouseAssumption DEF CommitDelivery, Tx, queueVars, Copies
        <3> QED BY <2>4, <3>1, LeaveSpends DEF CommitDelivery
    <2>5. ASSUME NEW t \in Tx, Crash(t) PROVE Spent(o)' \in {Spent(o), Spent(o) + 1}
        <3>1. Leave(t) /\ UNCHANGED <<sent, unheard>>
            BY <2>5 DEF Crash
        <3>2. CASE pc[t] \in Unacknowledged
            <4>1. t \in Consumers /\ order[t] \in Orders /\ Redeliver(t)
                BY <2>5, <3>2 DEF Crash, IInv, ListenerInv, ClerkInv, Unacknowledged, Tx
            <4>2. \/ Copies(o)' = Copies(o)
                  \/ o = order[t] /\ Copies(o)' = Copies(o) + 1
                BY <4>1, RedeliverCopies
            <4> QED BY <3>1, <4>1, <4>2, LeaveSpends
        <3>3. CASE pc[t] \notin Unacknowledged
            <4>1. Copies(o)' = Copies(o)
                BY <2>5, <3>3 DEF Crash, Copies
            <4> QED BY <3>1, <4>1, LeaveSpends
        <3> QED BY <3>2, <3>3
    <2> QED BY <2>1, <2>2, <2>3, <2>4, <2>5
            DEF Next, vars, threadVars, AddWareSku, Deliver, SendToOrder
<1> QED BY <1>3, <1>4

LEMMA InitSpentInv == Init => SpentInv
<1> SUFFICES ASSUME Init PROVE SpentInv
    OBVIOUS
<1>1. ASSUME NEW o \in Orders PROVE Spent(o) = 0
    <2>1. InHand(o) = {} /\ sent[o] = 0 /\ unheard[o] = 0
        BY <1>1, WarehouseAssumption DEF Init, InHand, Tx
    <2>2. Copies(o) = 0
        <3>1. \A n \in 0 .. MaxRedeliveries : queue[o][n] = 0
            BY <1>1 DEF Init
        <3>2. IsFiniteSet(0 .. MaxRedeliveries)
            BY InitIInv, <1>1, CopiesNat
        <3> QED BY <3>1, <3>2, SumZero DEF Copies
    <2> QED BY <2>1, <2>2, FS_EmptySet DEF Spent
<1>2. ASSUME NEW s \in Skus PROVE LockedOf(s) <= AskedFor(s)
    <2> DEFINE f == [o \in Orders |-> Spent(o) * Pieces(o, s)]
    <2>1. \A o \in Orders : f[o] \in Nat
        BY <1>1, PiecesNat, MoreTimes
    <2>2. AskedFor(s) = SumFunctionOnSet(f, Orders)
        BY DEF AskedFor
    <2>3. AskedFor(s) \in Nat
        <3> HIDE DEF f
        <3> QED BY <2>1, <2>2, SumNat, WarehouseAssumption
    <2>4. LockedOf(s) = 0
        <3>1. \A r \in SkuRows(s) : stockLocked[r] = 0
            BY DEF Init, SkuRows
        <3> QED BY <3>1, FiniteRows, SumZero
    <2> QED BY <2>3, <2>4
<1> QED BY <1>1, <1>2 DEF SpentInv

\* A sku's rows never promise more than the messages sent ask for: one message
\* locks its order's goods at most once, however often it is delivered, and once
\* more for every acknowledgement that got lost.
THEOREM LockedOnce == Spec => []LockedOncePerMessage
<1>1. IInv /\ SpentInv => LockedOncePerMessage
    <2> SUFFICES ASSUME IInv, SpentInv, NEW s \in Skus
                 PROVE  LockedOf(s) <= SumFunctionOnSet([o \in Orders |-> (sent[o] + unheard[o]) * Pieces(o, s)], Orders)
        BY DEF LockedOncePerMessage
    <2> DEFINE f == [o \in Orders |-> Spent(o) * Pieces(o, s)]
               g == [o \in Orders |-> (sent[o] + unheard[o]) * Pieces(o, s)]
    <2>1. ASSUME NEW o \in Orders PROVE f[o] \in Int /\ g[o] \in Int /\ f[o] <= g[o]
        <3>1. /\ Spent(o) \in Nat /\ sent[o] \in Nat /\ unheard[o] \in Nat
              /\ Copies(o) \in Nat /\ Pieces(o, s) \in Nat
            BY <2>1, PiecesNat, Counts, CopiesNat DEF SpentInv
        <3>2. sent[o] + unheard[o] \in Nat /\ Spent(o) <= sent[o] + unheard[o]
            BY <3>1, InHandFinite DEF Spent
        <3> QED BY <3>1, <3>2, MoreTimes
    <2>2. LockedOf(s) <= SumFunctionOnSet(f, Orders) /\ LockedOf(s) \in Nat
        BY LockedNat DEF SpentInv, AskedFor
    <2> HIDE DEF f, g
    <2>3. SumFunctionOnSet(f, Orders) <= SumFunctionOnSet(g, Orders)
        BY <2>1, SumAtMost, WarehouseAssumption
    <2>4. SumFunctionOnSet(f, Orders) \in Int /\ SumFunctionOnSet(g, Orders) \in Int
        BY <2>1, SumInt, WarehouseAssumption
    <2>5. LockedOf(s) <= SumFunctionOnSet(g, Orders)
        BY <2>2, <2>3, <2>4
    <2> QED BY <2>5 DEF g
<1> QED BY <1>1, InitIInv, NextIInv, InitKInv, NextKInv, InitSpentInv, NextSpentInv, PTL DEF Spec

=============================================================================
