--------------------------- MODULE OrderFlowProofs ---------------------------
(***************************************************************************)
(* What the status of an order tells, for any number of orders, listener   *)
(* threads, announcements, retries and failures.                           *)
(***************************************************************************)
EXTENDS OrderFlow, TLAPS, FiniteSetTheorems

Answers == {"WAITING_DELEVER", "STOCK_EXCEPTION", "DELEVERED"}

\* Threads at work for the payment of o.
Busy(o) == {t \in PayThreads : pc[t] # "idle" /\ order[t] = o}

\* What has become of the announcements of o's payment, as far as they are
\* not lost: in the queue, in a thread's hands, or passed on.
Pending(o) ==
    Cardinality(Busy(o)) + queue["PAYMENT_TO_ORDER"][Msg(o, "success")] + passedOn[o]

Late(o, s) == late[[orderId |-> o, status |-> s]]

\* A thread's call goes with its place.
ThreadInv ==
    \A t \in Threads :
        /\ pc[t] # "idle" => order[t] \in Orders
        /\ pc[t] = "paid" => status[t] = "PAID"
        /\ pc[t] = "notified" => status[t] = "NOTIFIED_WARE"
        /\ pc[t] = "answer" => status[t] \in Answers /\ t \notin PayThreads
        /\ pc[t] \in {"paid", "notified", "send"} => t \in PayThreads

\* Each announcement is at one place, and so are the writes of dead handlers
\* as long as no call was repeated.
CountInv ==
    \A o \in Orders :
        /\ Pending(o) <= announced[o]
        /\ ~delayed[o] => Pending(o) + Late(o, "PAID") + Late(o, "NOTIFIED_WARE") <= announced[o]

\* The warehouse speaks only of orders it was told of.
WareInv ==
    /\ \A m \in Messages :
          queue["SKU_DEDECT_QUEUE"][m] > 0 \/ queue["SKU_DELIVER_QUEUE"][m] > 0 => m \in outbox
    /\ \A o \in Orders : passedOn[o] = 0 =>
          /\ o \notin tasks /\ queue["ORDER_RESULT_QUEUE"][Msg(o, "order")] = 0
          /\ \A m \in outbox : m.orderId # o
          /\ \A t \in Threads : pc[t] = "answer" => order[t] # o
          /\ \A s \in Answers : Late(o, s) = 0
          /\ process[o] \notin Answers

\* PAID is written before the thread goes on.
PaidInv ==
    \A o \in Orders : process[o] = "UNPAID" =>
        /\ passedOn[o] = 0
        /\ \A t \in Threads : order[t] = o =>
              pc[t] \notin {"notified", "send"} /\ (pc[t] = "paid" => ~done[t])

Regular(o) == announced[o] <= 1 /\ ~delayed[o]

\* How far an order may have come while its only announcement is on its way.
OnItsWay(o) ==
    /\ queue["PAYMENT_TO_ORDER"][Msg(o, "success")] > 0 => process[o] = "UNPAID"
    /\ Late(o, "PAID") > 0 => process[o] = "UNPAID"
    /\ Late(o, "NOTIFIED_WARE") > 0 => process[o] \in {"UNPAID", "PAID"}
    /\ \A t \in Busy(o) :
          /\ pc[t] = "paid" => process[o] \in {"UNPAID", "PAID"}
          /\ pc[t] = "paid" /\ ~done[t] => process[o] = "UNPAID"
          /\ pc[t] = "notified" /\ ~done[t] => process[o] \in {"UNPAID", "PAID"}

StageInv ==
    \A o \in Orders :
        /\ announced[o] = 0 => ~delayed[o] /\ process[o] = "UNPAID"
        /\ Regular(o) => OnItsWay(o)

\* Whoever writes an answer of the warehouse does so because a word that means
\* it was sent, for each of the queues holds words of its own occasion.
Said(o, s) == s \in Answers => \E x \in Words[s] : Msg(o, x) \in outbox

SaidInv ==
    /\ \A o \in Orders : Said(o, process[o])
    /\ \A t \in Threads : pc[t] \in Calling => Said(order[t], status[t])
    /\ \A w \in Writes : late[w] > 0 => Said(w.orderId, w.status)
    /\ \A m \in Messages :
          /\ queue["SKU_DEDECT_QUEUE"][m] > 0 => m.text \in {DeductedText, "OUT_OF_STOCK"}
          /\ queue["SKU_DELIVER_QUEUE"][m] > 0 => m.text = DeliveredText

FInv == TypeOK /\ ThreadInv /\ CountInv /\ WareInv /\ PaidInv /\ StageInv

-----------------------------------------------------------------------------
USE OrderFlowAssumption

\* A message about an order, and a write of its status.
LEMMA Mess == ASSUME NEW o \in Orders, NEW x \in Texts
              PROVE  Msg(o, x) \in Messages /\ Msg(o, x).orderId = o /\ Msg(o, x).text = x
  BY DEF Msg, Messages

LEMMA Write == ASSUME NEW o \in Orders, NEW s \in Written
               PROVE  [orderId |-> o, status |-> s] \in Writes
  BY DEF Writes

\* Where a handler goes from a place: onward, and only there.
LEMMA Onward ==
    /\ After["paid"] = "notified" /\ After["notified"] = "send"
    /\ After["send"] = "idle" /\ After["answer"] = "idle"
  BY DEF After

\* The types, at the start and through the parts of a step.
LEMMA InitType == Init => TypeOK
  BY DEF Init, TypeOK, Threads, ProcessStatus, Written, Calling

\* The queues keep their type when a message is put in or taken out.
LEMMA PutType ==
    ASSUME TypeOK, NEW q \in QueueNames, NEW m \in Messages
    PROVE  [queue EXCEPT ![q][m] = @ + 1] \in [QueueNames -> [Messages -> Nat]]
  BY DEF TypeOK

LEMMA TakeType ==
    ASSUME TypeOK, NEW q \in QueueNames, NEW m \in Messages, queue[q][m] > 0
    PROVE  [queue EXCEPT ![q][m] = @ - 1] \in [QueueNames -> [Messages -> Nat]]
  BY DEF TypeOK

\* A call, or leaving a handler, keeps the type of a thread's variables.
LEMMA InvokeType ==
    ASSUME TypeOK, NEW t \in Threads, NEW o \in Orders \cup {NoOrder},
           NEW p \in {"idle", "send"} \cup Calling, NEW s \in Written \cup {NoStatus},
           Invoke(t, o, p, s)
    PROVE  /\ pc' \in [Threads -> {"idle", "send"} \cup Calling]
           /\ order' \in [Threads -> Orders \cup {NoOrder}]
           /\ status' \in [Threads -> Written \cup {NoStatus}]
           /\ done' \in [Threads -> BOOLEAN]
           /\ attempt' \in [Threads -> 0 .. Retries]
  BY DEF TypeOK, Invoke

\* So does giving up on a call with the writes that outlive it.
LEMMA AbandonType ==
    ASSUME TypeOK, ThreadInv, NEW t \in Threads, pc[t] \in Calling, Abandon(t)
    PROVE  late' \in [Writes -> Nat]
<1>1. order[t] \in Orders /\ status[t] \in Written
  BY DEF ThreadInv, Calling, Answers, Written
<1> QED  BY <1>1, Write DEF Abandon, TypeOK

\* Where the queues, threads and texts belong.
LEMMA Places ==
    /\ "PAYMENT_TO_ORDER" \in QueueNames /\ "ORDER_RESULT_QUEUE" \in QueueNames
    /\ "SKU_DEDECT_QUEUE" \in QueueNames /\ "SKU_DELIVER_QUEUE" \in QueueNames
    /\ DeductQueue \in QueueNames
    /\ PayThreads \subseteq Threads /\ DeductThreads \subseteq Threads
    /\ DeliverThreads \subseteq Threads
    /\ {"success", "order", DeductedText, "OUT_OF_STOCK", DeliveredText} \subseteq Texts
  BY DEF QueueNames, Threads, Texts

-----------------------------------------------------------------------------
\* Types.
LEMMA TypeStep == FInv /\ Next => TypeOK'
<1> SUFFICES ASSUME FInv, Next PROVE TypeOK'
    OBVIOUS
<1> USE Places DEF FInv
<1> TypeOK /\ ThreadInv
    OBVIOUS
<1>1. ASSUME NEW o \in Orders, SendPayment(o) PROVE TypeOK'
  BY <1>1, PutType, Mess DEF SendPayment, TypeOK, threadVars, wareVars
<1>2. ASSUME NEW o \in Orders, WareServes(o) PROVE TypeOK'
  <2> DEFINE taken == [queue EXCEPT !["ORDER_RESULT_QUEUE"][Msg(o, "order")] = @ - 1]
  <2>1. taken \in [QueueNames -> [Messages -> Nat]]
    BY <1>2, TakeType, Mess DEF WareServes
  <2>2. queue' \in [QueueNames -> [Messages -> Nat]]
    <3>1. ASSUME NEW x \in Texts
          PROVE [taken EXCEPT ![DeductQueue][Msg(o, x)] = @ + 1] \in [QueueNames -> [Messages -> Nat]]
      <4> HIDE DEF taken
      <4> QED BY <2>1, Mess
    <3> QED  BY <1>2, <2>1, <3>1 DEF WareServes
  <2>3. tasks' \subseteq Orders /\ outbox' \subseteq Messages /\ failures' \in Nat
    BY <1>2, Mess DEF WareServes, TypeOK
  <2> QED  BY <1>2, <2>2, <2>3 DEF WareServes, TypeOK, threadVars, historyVars
<1>3. ASSUME NEW o \in Orders, SendToOrder(o) PROVE TypeOK'
  BY <1>3, PutType, Mess DEF SendToOrder, TypeOK, threadVars, historyVars
<1>4. ASSUME NEW t \in Threads, NEW m \in Messages, ConsumerPayment(t, m) PROVE TypeOK'
  <2>1. m.orderId \in Orders /\ "PAID" \in Written  BY DEF Messages, Written
  <2>2. Invoke(t, m.orderId, "paid", "PAID")  BY <1>4 DEF ConsumerPayment, Begin
  <2>3. queue' \in [QueueNames -> [Messages -> Nat]]
    BY <1>4, TakeType DEF ConsumerPayment, Dequeue
  <2> QED  BY <1>4, <2>1, <2>2, <2>3, InvokeType
           DEF ConsumerPayment, TypeOK, wareVars, historyVars, Calling
<1>5. ASSUME NEW t \in Threads, NEW m \in Messages, ConsumeWareDeduct(t, m) PROVE TypeOK'
  <2>1. m.orderId \in Orders /\ Understood(m) \in Written
    BY DEF Messages, Written, Understood
  <2>2. Invoke(t, m.orderId, "answer", Understood(m))  BY <1>5 DEF ConsumeWareDeduct
  <2>3. queue' \in [QueueNames -> [Messages -> Nat]]
    BY <1>5, TakeType DEF ConsumeWareDeduct, Dequeue
  <2> QED  BY <1>5, <2>1, <2>2, <2>3, InvokeType
           DEF ConsumeWareDeduct, TypeOK, wareVars, historyVars, Calling
<1>6. ASSUME NEW t \in Threads, NEW m \in Messages, ConsumeDeliver(t, m) PROVE TypeOK'
  <2>1. m.orderId \in Orders /\ "DELEVERED" \in Written  BY DEF Messages, Written
  <2>2. Invoke(t, m.orderId, "answer", "DELEVERED") \/ UNCHANGED threadVars
    BY <1>6 DEF ConsumeDeliver
  <2>3. queue' \in [QueueNames -> [Messages -> Nat]]
    BY <1>6, TakeType DEF ConsumeDeliver, Dequeue
  <2> QED  BY <1>6, <2>1, <2>2, <2>3, InvokeType
           DEF ConsumeDeliver, TypeOK, threadVars, wareVars, historyVars, Calling
<1>7. ASSUME NEW t \in Threads, UpdateStatus(t) PROVE TypeOK'
  <2>1. order[t] \in Orders /\ status[t] \in Written
    BY <1>7 DEF UpdateStatus, ThreadInv, Calling, Answers, Written
  <2> QED  BY <1>7, <2>1 DEF UpdateStatus, Updated, TypeOK, ProcessStatus, wareVars, historyVars
<1>8. ASSUME NEW t \in Threads, Return(t) PROVE TypeOK'
  <2>1. \E o \in Orders \cup {NoOrder}, q \in {"idle", "send"} \cup Calling,
           s \in Written \cup {NoStatus} : Invoke(t, o, q, s)
    BY <1>8, Onward DEF Return, Advance, ThreadInv, Calling, Written
  <2> QED  BY <1>8, <2>1, InvokeType DEF Return, TypeOK, wareVars, historyVars
<1>9. ASSUME NEW t \in Threads, Timeout(t) PROVE TypeOK'
  <2>1. late' \in [Writes -> Nat]  BY <1>9, AbandonType DEF Timeout
  <2>2. delayed' \in [Orders -> BOOLEAN]  BY <1>9 DEF Timeout, TypeOK
  <2>3. CASE MayRetry(t) /\ attempt' = [attempt EXCEPT ![t] = @ + 1]
             /\ done' = [done EXCEPT ![t] = FALSE] /\ UNCHANGED <<pc, order, status, failures>>
    <3>1. attempt' \in [Threads -> 0 .. Retries]  BY <2>3 DEF MayRetry, TypeOK
    <3>2. done' \in [Threads -> BOOLEAN]  BY <2>3 DEF TypeOK
    <3>3. UNCHANGED <<process, queue, tasks, outbox, deliveries, announced, passedOn>>
      BY <1>9 DEF Timeout, wareVars
    <3> QED  BY <2>1, <2>2, <2>3, <3>1, <3>2, <3>3 DEF TypeOK
  <2>4. CASE Leave(t) /\ failures' = failures + 1
    <3>1. UNCHANGED <<process, queue, tasks, outbox, deliveries, announced, passedOn>>
      BY <1>9 DEF Timeout, wareVars
    <3> QED  BY <2>1, <2>2, <2>4, <3>1, InvokeType DEF Leave, TypeOK
  <2> QED  BY <1>9, <2>3, <2>4 DEF Timeout
<1>10. ASSUME NEW t \in Threads, PassOn(t) PROVE TypeOK'
  <2>1. order[t] \in Orders  BY <1>10 DEF PassOn, ThreadInv
  <2>2. Invoke(t, NoOrder, "idle", NoStatus)  BY <1>10, Onward DEF PassOn, Advance
  <2>3. queue' \in [QueueNames -> [Messages -> Nat]]
    <3>1. /\ "ORDER_RESULT_QUEUE" \in QueueNames /\ Msg(order[t], "order") \in Messages
          /\ queue \in [QueueNames -> [Messages -> Nat]]
      BY <2>1, Mess DEF TypeOK
    <3>2. CASE NamesOrder
      BY <1>10, <3>1, <3>2, PutType DEF PassOn
    <3>3. CASE ~NamesOrder
      BY <1>10, <3>1, <3>3 DEF PassOn
    <3> QED  BY <3>2, <3>3
  <2> QED  BY <1>10, <2>1, <2>2, <2>3, InvokeType DEF PassOn, TypeOK, wareVars
<1>11. ASSUME NEW t \in Threads, Fail(t) PROVE TypeOK'
  <2>1. late' \in [Writes -> Nat]  BY <1>11, AbandonType DEF Fail, TypeOK
  <2> QED  BY <1>11, <2>1, InvokeType DEF Fail, Leave, TypeOK, wareVars, historyVars
<1>12. ASSUME NEW w \in Writes, UpdateLate(w) PROVE TypeOK'
  <2>1. w.orderId \in Orders /\ w.status \in Written  BY DEF Writes
  <2> QED  BY <1>12, <2>1
           DEF UpdateLate, Updated, TypeOK, ProcessStatus, threadVars, wareVars, historyVars
<1> QED
  BY <1>1, <1>2, <1>3, <1>4, <1>5, <1>6, <1>7, <1>8, <1>9, <1>10, <1>11, <1>12 DEF Next, Handle

-----------------------------------------------------------------------------
\* Threads, and those at work for a payment.
LEMMA ThreadStep == FInv /\ Next => ThreadInv'
<1> SUFFICES ASSUME FInv, Next PROVE ThreadInv'
    OBVIOUS
<1> USE Places DEF FInv
<1> TypeOK /\ ThreadInv
    OBVIOUS
<1>1. ASSUME NEW o \in Orders, SendPayment(o) \/ WareServes(o) \/ SendToOrder(o)
      PROVE  ThreadInv'
  BY <1>1 DEF SendPayment, WareServes, SendToOrder, threadVars, ThreadInv
<1>2. ASSUME NEW t \in Threads, NEW m \in Messages, ConsumerPayment(t, m) PROVE ThreadInv'
  BY <1>2 DEF ConsumerPayment, Begin, Invoke, ThreadInv, TypeOK, Messages
<1>3. ASSUME NEW t \in Threads, NEW m \in Messages, ConsumeWareDeduct(t, m) PROVE ThreadInv'
  BY <1>3 DEF ConsumeWareDeduct, Understood, Invoke, ThreadInv, TypeOK, Messages, Answers
<1>4. ASSUME NEW t \in Threads, NEW m \in Messages, ConsumeDeliver(t, m) PROVE ThreadInv'
  BY <1>4 DEF ConsumeDeliver, Invoke, ThreadInv, TypeOK, Messages, Answers, threadVars
<1>5. ASSUME NEW t \in Threads, UpdateStatus(t) PROVE ThreadInv'
  BY <1>5 DEF UpdateStatus, ThreadInv
<1>6. ASSUME NEW t \in Threads, Return(t) PROVE ThreadInv'
  BY <1>6, Onward DEF Return, Advance, Invoke, ThreadInv, TypeOK, Calling
<1>7. ASSUME NEW t \in Threads, Timeout(t) PROVE ThreadInv'
  BY <1>7 DEF Timeout, Leave, Invoke, ThreadInv, TypeOK
<1>8. ASSUME NEW t \in Threads, PassOn(t) PROVE ThreadInv'
  BY <1>8, Onward DEF PassOn, Advance, Invoke, ThreadInv, TypeOK
<1>9. ASSUME NEW t \in Threads, Fail(t) PROVE ThreadInv'
  BY <1>9 DEF Fail, Leave, Invoke, ThreadInv, TypeOK
<1>10. ASSUME NEW w \in Writes, UpdateLate(w) PROVE ThreadInv'
  BY <1>10 DEF UpdateLate, ThreadInv, threadVars
<1> QED
  BY <1>1, <1>2, <1>3, <1>4, <1>5, <1>6, <1>7, <1>8, <1>9, <1>10 DEF Next, Handle

\* Only finitely many threads work for a payment.
LEMMA BusyFinite ==
    ASSUME NEW o \in Orders
    PROVE  IsFiniteSet(Busy(o)) /\ Cardinality(Busy(o)) \in Nat
<1>1. Busy(o) \subseteq PayThreads  BY DEF Busy
<1> QED  BY <1>1, FS_Subset, FS_CardinalityType

\* Two announcements of one payment are handled by two threads.
LEMMA BusyOne ==
    ASSUME NEW o \in Orders, NEW t \in Busy(o)
    PROVE  /\ Cardinality(Busy(o)) >= 1
           /\ \A u \in Busy(o) : Cardinality(Busy(o)) = 1 => u = t
<1>1. Cardinality(Busy(o) \ {t}) = Cardinality(Busy(o)) - 1
      /\ IsFiniteSet(Busy(o) \ {t})
  BY BusyFinite, FS_RemoveElement
<1>2. Cardinality(Busy(o) \ {t}) \in Nat  BY <1>1, FS_CardinalityType
<1>3. ASSUME NEW u \in Busy(o), Cardinality(Busy(o)) = 1 PROVE u = t
  <2>1. Busy(o) \ {t} = {}  BY <1>1, <1>3, FS_EmptySet
  <2> QED  BY <2>1
<1> QED  BY <1>1, <1>2, <1>3, BusyFinite

\* Steps that let no thread begin or end work for a payment.
LEMMA BusySame ==
    ASSUME NEW o \in Orders,
           \/ UNCHANGED <<pc, order>>
           \/ \E t \in Threads \ PayThreads : \E oo, p, s : TypeOK /\ Invoke(t, oo, p, s)
           \/ \E t \in Threads, p \in Calling \cup {"send"} : \E s :
                 TypeOK /\ pc[t] # "idle" /\ Invoke(t, order[t], p, s)
    PROVE  Busy(o)' = Busy(o)
<1>1. CASE UNCHANGED <<pc, order>>
  BY <1>1 DEF Busy
<1>2. ASSUME NEW t \in Threads \ PayThreads, NEW oo, NEW p, NEW s, TypeOK, Invoke(t, oo, p, s)
      PROVE  Busy(o)' = Busy(o)
  BY <1>2, Places DEF Busy, Invoke, TypeOK
<1>3. ASSUME NEW t \in Threads, NEW p \in Calling \cup {"send"}, NEW s,
             TypeOK, pc[t] # "idle", Invoke(t, order[t], p, s)
      PROVE  Busy(o)' = Busy(o)
  <2>1. p # "idle"  BY DEF Calling
  <2>2. \A u \in PayThreads : u \in Threads  BY Places
  <2>3. \A u \in PayThreads : order'[u] = order[u] /\ (pc'[u] # "idle" <=> pc[u] # "idle")
    BY <1>3, <2>1, <2>2 DEF Invoke, TypeOK
  <2> QED  BY <2>3 DEF Busy
<1> QED  BY <1>1, <1>2, <1>3

\* A thread that takes an announcement is one more at work.
LEMMA BusyJoins ==
    ASSUME TypeOK, NEW t \in PayThreads, NEW o \in Orders, NEW oo \in Orders,
           NEW p \in Calling, NEW s, pc[t] = "idle", Invoke(t, oo, p, s)
    PROVE  /\ o # oo => Cardinality(Busy(o))' = Cardinality(Busy(o))
           /\ o = oo => Cardinality(Busy(o))' = Cardinality(Busy(o)) + 1
<1>1. t \in Threads  BY Places
<1>2. o # oo => Busy(o)' = Busy(o)  BY <1>1 DEF Busy, Invoke, TypeOK
<1>3. o = oo => Busy(o)' = Busy(o) \cup {t}  BY <1>1 DEF Busy, Invoke, TypeOK, Calling
<1>4. t \notin Busy(o)  BY DEF Busy
<1>5. Cardinality(Busy(o) \cup {t}) = Cardinality(Busy(o)) + 1
  BY <1>4, BusyFinite, FS_AddElement
<1> QED  BY <1>2, <1>3, <1>5

\* A thread that leaves its handler is one less.
LEMMA BusyLeaves ==
    ASSUME TypeOK, ThreadInv, NEW t \in Threads, NEW o \in Orders, pc[t] # "idle", Leave(t)
    PROVE  /\ t \in PayThreads /\ order[t] = o
                => Cardinality(Busy(o))' = Cardinality(Busy(o)) - 1
           /\ t \notin PayThreads \/ order[t] # o
                => Cardinality(Busy(o))' = Cardinality(Busy(o))
<1>1. Busy(o)' = Busy(o) \ {t}
  <2>1. \A u \in PayThreads :
           /\ u # t => pc'[u] = pc[u] /\ order'[u] = order[u]
           /\ u = t => pc'[u] = "idle"
    BY Places DEF Leave, Invoke, TypeOK
  <2> QED  BY <2>1 DEF Busy
<1>2. CASE t \in PayThreads /\ order[t] = o
  <2>1. t \in Busy(o)  BY <1>2 DEF Busy
  <2>2. Cardinality(Busy(o) \ {t}) = Cardinality(Busy(o)) - 1
    BY <2>1, BusyFinite, FS_RemoveElement
  <2> QED  BY <1>1, <1>2, <2>2
<1>3. CASE t \notin PayThreads \/ order[t] # o
  <2>1. Busy(o) \ {t} = Busy(o)  BY <1>3 DEF Busy
  <2> QED  BY <1>1, <1>3, <2>1
<1> QED  BY <1>2, <1>3

-----------------------------------------------------------------------------
\* Announcements are neither doubled nor, but for failures, lost.
LEMMA CountStep == FInv /\ Next => CountInv'
<1> SUFFICES ASSUME FInv, Next, NEW o \in Orders
             PROVE  /\ Pending(o)' <= announced'[o]
                    /\ ~delayed'[o] => Pending(o)' + Late(o, "PAID")' + Late(o, "NOTIFIED_WARE")'
                                         <= announced'[o]
    BY DEF CountInv
<1> USE Places DEF FInv
<1> DEFINE waiting == queue["PAYMENT_TO_ORDER"][Msg(o, "success")]
           Goal == /\ Pending(o)' <= announced'[o]
                   /\ ~delayed'[o] => Pending(o)' + Late(o, "PAID")' + Late(o, "NOTIFIED_WARE")'
                                        <= announced'[o]
<1> TypeOK /\ ThreadInv
    OBVIOUS
<1>a. /\ Pending(o) <= announced[o]
      /\ ~delayed[o] => Pending(o) + Late(o, "PAID") + Late(o, "NOTIFIED_WARE") <= announced[o]
  BY DEF CountInv
<1>b. /\ waiting \in Nat /\ passedOn[o] \in Nat /\ announced[o] \in Nat
      /\ Late(o, "PAID") \in Nat /\ Late(o, "NOTIFIED_WARE") \in Nat
      /\ Cardinality(Busy(o)) \in Nat
  <2>1. Msg(o, "success") \in Messages  BY Mess
  <2>2. /\ [orderId |-> o, status |-> "PAID"] \in Writes
        /\ [orderId |-> o, status |-> "NOTIFIED_WARE"] \in Writes
    BY DEF Writes, Written
  <2> QED  BY <2>1, <2>2, BusyFinite DEF TypeOK, Late
<1>1. ASSUME NEW p \in Orders, SendPayment(p) PROVE Goal
  <2>1. Busy(o)' = Busy(o)  BY <1>1, BusySame DEF SendPayment, threadVars
  <2>2. waiting' = IF p = o THEN waiting + 1 ELSE waiting
    <3>1. Msg(o, "success") = Msg(p, "success") <=> o = p  BY DEF Msg
    <3>2. Msg(o, "success") \in Messages /\ Msg(p, "success") \in Messages  BY Mess
    <3> QED  BY <1>1, <3>1, <3>2 DEF SendPayment, TypeOK
  <2>3. announced'[o] = IF p = o THEN announced[o] + 1 ELSE announced[o]
    BY <1>1 DEF SendPayment, TypeOK
  <2> QED  BY <1>1, <1>a, <1>b, <2>1, <2>2, <2>3 DEF SendPayment, Pending, Late
<1>2. ASSUME NEW p \in Orders, WareServes(p) \/ SendToOrder(p) PROVE Goal
  <2>1. Busy(o)' = Busy(o)  BY <1>2, BusySame DEF WareServes, SendToOrder, threadVars
  <2>2. waiting' = waiting  BY <1>2 DEF WareServes, SendToOrder, TypeOK
  <2> QED  BY <1>2, <1>a, <2>1, <2>2
           DEF WareServes, SendToOrder, Pending, Late, historyVars
<1>3. ASSUME NEW t \in Threads, NEW m \in Messages, ConsumerPayment(t, m) PROVE Goal
  <2>1. m = Msg(m.orderId, "success") /\ m.orderId \in Orders
    BY <1>3 DEF ConsumerPayment, Msg, Messages
  <2>2. Invoke(t, m.orderId, "paid", "PAID") /\ "paid" \in Calling /\ t \in PayThreads
        /\ pc[t] = "idle"
    BY <1>3 DEF ConsumerPayment, Begin, Calling
  <2>3. waiting' = IF m.orderId = o THEN waiting - 1 ELSE waiting
    BY <1>3, <2>1, Mess DEF ConsumerPayment, Dequeue, TypeOK
  <2>4. UNCHANGED <<late, announced, passedOn, delayed>>
    BY <1>3 DEF ConsumerPayment, historyVars
  <2>5. Pending(o)' = Pending(o)
    BY <1>b, <2>1, <2>2, <2>3, <2>4, BusyJoins DEF Pending
  <2> QED  BY <1>a, <2>4, <2>5 DEF Late
<1>4. ASSUME NEW t \in Threads, NEW m \in Messages,
             ConsumeWareDeduct(t, m) \/ ConsumeDeliver(t, m)
      PROVE  Goal
  <2>1. t \notin PayThreads  BY <1>4 DEF ConsumeWareDeduct, ConsumeDeliver
  <2>2. UNCHANGED <<pc, order>> \/ \E oo, p, s : Invoke(t, oo, p, s)
    BY <1>4 DEF ConsumeWareDeduct, ConsumeDeliver, threadVars
  <2>3. Busy(o)' = Busy(o)  BY <2>1, <2>2, BusySame
  <2>4. waiting' = waiting
    BY <1>4 DEF ConsumeWareDeduct, ConsumeDeliver, Dequeue, TypeOK
  <2> QED  BY <1>4, <1>a, <2>3, <2>4
           DEF ConsumeWareDeduct, ConsumeDeliver, Pending, Late, historyVars
<1>5. ASSUME NEW t \in Threads, UpdateStatus(t) PROVE Goal
  <2>1. Busy(o)' = Busy(o)  BY <1>5, BusySame DEF UpdateStatus
  <2> QED  BY <1>5, <1>a, <2>1 DEF UpdateStatus, Pending, Late, historyVars
<1>6. ASSUME NEW t \in Threads, Return(t) PROVE Goal
  <2>1. Busy(o)' = Busy(o)
    <3>1. CASE pc[t] = "answer"
      <4>1. Leave(t) /\ t \notin PayThreads
        BY <1>6, <3>1, Onward DEF Return, Advance, Leave, ThreadInv
      <4> QED  BY <4>1, BusySame DEF Leave
    <3>2. CASE pc[t] \in {"paid", "notified"}
      <4>1. \E p \in Calling \cup {"send"} : \E s : Invoke(t, order[t], p, s)
        BY <1>6, <3>2, Onward DEF Return, Advance, Calling
      <4> QED  BY <3>2, <4>1, BusySame
    <3> QED  BY <1>6, <3>1, <3>2 DEF Return, Calling
  <2> QED  BY <1>6, <1>a, <2>1 DEF Return, Pending, Late, historyVars
<1>7. ASSUME NEW t \in Threads, Timeout(t) PROVE Goal
  <2>1. order[t] \in Orders /\ pc[t] # "idle"
    BY <1>7 DEF Timeout, ThreadInv, Calling
  <2>2. Cardinality(Busy(o))' <= Cardinality(Busy(o))
        /\ Cardinality(Busy(o))' \in Nat
    <3>1. CASE UNCHANGED <<pc, order>>
      BY <1>b, <3>1, BusySame
    <3>2. CASE Leave(t)
      <4>1. t \in PayThreads /\ order[t] = o => Cardinality(Busy(o)) >= 1
        BY <2>1, BusyOne DEF Busy
      <4> QED  BY <1>b, <2>1, <3>2, <4>1, BusyLeaves
    <3> QED  BY <1>7, <3>1, <3>2 DEF Timeout
  <2>3. Pending(o)' <= Pending(o)
    BY <1>7, <1>b, <2>2 DEF Timeout, Pending
  <2>4. Pending(o)' \in Nat /\ Pending(o) \in Nat
    BY <1>7, <1>b, <2>2 DEF Timeout, Pending
  <2>5. ~delayed'[o] => order[t] # o /\ ~delayed[o]
    BY <1>7, <2>1 DEF Timeout, TypeOK
  <2>6. order[t] # o => UNCHANGED <<Late(o, "PAID"), Late(o, "NOTIFIED_WARE")>>
    BY <1>7, Write DEF Timeout, Abandon, Late, TypeOK, Written, Writes
  <2> QED  BY <1>7, <1>a, <1>b, <2>3, <2>4, <2>5, <2>6 DEF Timeout
<1>8. ASSUME NEW t \in Threads, PassOn(t) PROVE Goal
  <2>1. Leave(t)  BY <1>8, Onward DEF PassOn, Advance, Leave
  <2>2. t \in PayThreads /\ order[t] \in Orders /\ pc[t] # "idle"
    BY <1>8 DEF PassOn, ThreadInv
  <2>3. waiting' = waiting  BY <1>8 DEF PassOn, TypeOK
  <2>4. passedOn'[o] = IF order[t] = o THEN passedOn[o] + 1 ELSE passedOn[o]
    BY <1>8, <2>2 DEF PassOn, TypeOK
  <2>5. Pending(o)' = Pending(o)
    BY <1>b, <2>1, <2>2, <2>3, <2>4, BusyLeaves DEF Pending
  <2> QED  BY <1>8, <1>a, <2>5 DEF PassOn, Late
<1>9. ASSUME NEW t \in Threads, Fail(t) PROVE Goal
  <2>1. Leave(t) /\ pc[t] # "idle" /\ order[t] \in Orders
    BY <1>9 DEF Fail, ThreadInv
  <2>2. UNCHANGED <<queue, passedOn, announced, delayed>>
    BY <1>9 DEF Fail, historyVars
  <2>3. CASE t \in PayThreads /\ order[t] = o
    <3>1. Pending(o)' = Pending(o) - 1 /\ Pending(o) \in Nat
      BY <1>b, <2>1, <2>2, <2>3, BusyLeaves DEF Pending
    <3>2. /\ Late(o, "PAID")' + Late(o, "NOTIFIED_WARE")'
                <= Late(o, "PAID") + Late(o, "NOTIFIED_WARE") + 1
          /\ Late(o, "PAID")' \in Nat /\ Late(o, "NOTIFIED_WARE")' \in Nat
      <4>1. CASE UNCHANGED late
        BY <1>b, <4>1 DEF Late
      <4>2. CASE pc[t] \in Calling /\ Abandon(t)
        <5>1. status[t] \in {"PAID", "NOTIFIED_WARE"}
          BY <2>3, <4>2 DEF ThreadInv, Calling
        <5>2. [orderId |-> o, status |-> status[t]] \in Writes
          BY <5>1 DEF Writes, Written
        <5> QED  BY <1>b, <2>3, <4>2, <5>1, <5>2 DEF Abandon, Late, TypeOK
      <4> QED  BY <1>9, <4>1, <4>2 DEF Fail
    <3> QED  BY <1>a, <1>b, <2>2, <3>1, <3>2
  <2>4. CASE t \notin PayThreads \/ order[t] # o
    <3>1. Pending(o)' = Pending(o)
      BY <1>b, <2>1, <2>2, <2>4, BusyLeaves DEF Pending
    <3>2. UNCHANGED <<Late(o, "PAID"), Late(o, "NOTIFIED_WARE")>>
      BY <1>9, <2>4, Write
         DEF Fail, Abandon, Late, TypeOK, ThreadInv, Calling, Written, Writes, Answers
    <3> QED  BY <1>a, <2>2, <3>1, <3>2
  <2> QED  BY <2>3, <2>4
<1>10. ASSUME NEW w \in Writes, UpdateLate(w) PROVE Goal
  <2>1. Pending(o)' = Pending(o)
    BY <1>10, BusySame DEF UpdateLate, Pending, threadVars, historyVars
  <2>2. /\ Late(o, "PAID")' <= Late(o, "PAID") /\ Late(o, "PAID")' \in Nat
        /\ Late(o, "NOTIFIED_WARE")' <= Late(o, "NOTIFIED_WARE")
        /\ Late(o, "NOTIFIED_WARE")' \in Nat
    BY <1>10, <1>b DEF UpdateLate, Late, TypeOK
  <2>3. Pending(o) \in Nat  BY <1>b DEF Pending
  <2> QED  BY <1>10, <1>a, <1>b, <2>1, <2>2, <2>3 DEF UpdateLate, historyVars
<1> QED
  BY <1>1, <1>2, <1>3, <1>4, <1>5, <1>6, <1>7, <1>8, <1>9, <1>10 DEF Next, Handle

-----------------------------------------------------------------------------
\* What the warehouse knows, and says.

\* A write that outlives its handler is the one the handler was waiting for.
LEMMA AbandonLate ==
    ASSUME TypeOK, ThreadInv, NEW t \in Threads, pc[t] \in Calling, Abandon(t),
           NEW w \in Writes, late'[w] # late[w]
    PROVE  w.orderId = order[t] /\ w.status = status[t] /\ ~done[t]
  BY DEF Abandon, TypeOK, Writes

\* What waits for the order service has been sent by the warehouse.
LEMMA SkuQueuesStep ==
    ASSUME FInv, Next, NEW m \in Messages
    PROVE  \/ queue'["SKU_DEDECT_QUEUE"][m] > 0
           \/ queue'["SKU_DELIVER_QUEUE"][m] > 0
           => m \in outbox'
<1> DEFINE Goal == \/ queue'["SKU_DEDECT_QUEUE"][m] > 0
                   \/ queue'["SKU_DELIVER_QUEUE"][m] > 0
                   => m \in outbox'
<1> USE Places DEF FInv
<1>a. TypeOK /\ (\/ queue["SKU_DEDECT_QUEUE"][m] > 0
                 \/ queue["SKU_DELIVER_QUEUE"][m] > 0
                 => m \in outbox)
  BY DEF WareInv
<1>1. ASSUME NEW o \in Orders, SendPayment(o) PROVE Goal
  BY <1>1, <1>a DEF SendPayment, TypeOK, wareVars
<1>2. ASSUME NEW o \in Orders, WareServes(o) PROVE Goal
  <2> DEFINE r == Msg(o, "order")
             taken == [queue EXCEPT !["ORDER_RESULT_QUEUE"][r] = @ - 1]
  <2>1. /\ taken \in [QueueNames -> [Messages -> Nat]]
        /\ taken["SKU_DEDECT_QUEUE"] = queue["SKU_DEDECT_QUEUE"]
        /\ taken["SKU_DELIVER_QUEUE"] = queue["SKU_DELIVER_QUEUE"]
    BY <1>2, TakeType, Mess DEF WareServes, TypeOK
  <2>2. CASE queue' = taken /\ UNCHANGED outbox
    BY <1>a, <2>1, <2>2
  <2>3. ASSUME NEW x \in {DeductedText, "OUT_OF_STOCK"}, outbox' = outbox \cup {Msg(o, x)},
               queue' = [taken EXCEPT ![DeductQueue][Msg(o, x)] = @ + 1]
        PROVE  Goal
    <3> HIDE DEF taken
    <3>1. Msg(o, x) \in Messages  BY Mess
    <3>2. m # Msg(o, x) => /\ queue'["SKU_DEDECT_QUEUE"][m] = taken["SKU_DEDECT_QUEUE"][m]
                           /\ queue'["SKU_DELIVER_QUEUE"][m] = taken["SKU_DELIVER_QUEUE"][m]
      BY <2>1, <2>3, <3>1
    <3> QED  BY <1>a, <2>1, <2>3, <3>2
  <2> QED  BY <1>2, <2>2, <2>3 DEF WareServes
<1>3. ASSUME NEW o \in Orders, SendToOrder(o) PROVE Goal
  <2>1. Msg(o, DeliveredText) \in Messages  BY Mess
  <2>2. m # Msg(o, DeliveredText) => /\ queue'["SKU_DEDECT_QUEUE"][m] = queue["SKU_DEDECT_QUEUE"][m]
                                     /\ queue'["SKU_DELIVER_QUEUE"][m] = queue["SKU_DELIVER_QUEUE"][m]
    BY <1>3, <1>a, <2>1 DEF SendToOrder, TypeOK
  <2> QED  BY <1>3, <1>a, <2>2 DEF SendToOrder
<1>4. ASSUME NEW t \in Threads, NEW n \in Messages,
             \/ ConsumerPayment(t, n) \/ ConsumeWareDeduct(t, n) \/ ConsumeDeliver(t, n)
      PROVE  Goal
  <2>1. \E q \in QueueNames : Dequeue(q, n)
    BY <1>4 DEF ConsumerPayment, ConsumeWareDeduct, ConsumeDeliver
  <2>2. \A q \in QueueNames : queue'[q][m] > 0 => queue[q][m] > 0
    BY <1>a, <2>1 DEF Dequeue, TypeOK
  <2>3. UNCHANGED outbox
    BY <1>4 DEF ConsumerPayment, ConsumeWareDeduct, ConsumeDeliver, wareVars
  <2> QED  BY <1>a, <2>2, <2>3
<1>5. ASSUME NEW t \in Threads, UpdateStatus(t) \/ Return(t) \/ Timeout(t) \/ Fail(t) PROVE Goal
  BY <1>5, <1>a DEF UpdateStatus, Return, Timeout, Fail, wareVars
<1>6. ASSUME NEW t \in Threads, PassOn(t) PROVE Goal
  BY <1>6, <1>a DEF PassOn, TypeOK, wareVars
<1>7. ASSUME NEW w \in Writes, UpdateLate(w) PROVE Goal
  BY <1>7, <1>a DEF UpdateLate, wareVars
<1> QED
  BY <1>1, <1>2, <1>3, <1>4, <1>5, <1>6, <1>7 DEF Next, Handle

\* An order the warehouse was not told of leaves no trace there.
LEMMA WareStep == FInv /\ Next => WareInv'
<1> SUFFICES ASSUME FInv, Next, NEW o \in Orders, passedOn'[o] = 0
             PROVE  /\ o \notin tasks' /\ queue'["ORDER_RESULT_QUEUE"][Msg(o, "order")] = 0
                    /\ \A m \in outbox' : m.orderId # o
                    /\ \A t \in Threads : pc'[t] = "answer" => order'[t] # o
                    /\ \A s \in Answers : Late(o, s)' = 0
                    /\ process'[o] \notin Answers
    BY SkuQueuesStep DEF WareInv
<1> USE Places DEF FInv
<1> TypeOK /\ ThreadInv
    OBVIOUS
<1> DEFINE asked == queue["ORDER_RESULT_QUEUE"][Msg(o, "order")]
           Quiet == \A m \in outbox : m.orderId # o
           NoAnswer == \A t \in Threads : pc[t] = "answer" => order[t] # o
           NoLate == \A s \in Answers : Late(o, s) = 0
           Goal == /\ o \notin tasks' /\ asked' = 0 /\ Quiet' /\ NoAnswer'
                   /\ NoLate' /\ process'[o] \notin Answers
<1>a. passedOn[o] = 0
  <2>1. \A p \in Orders : passedOn'[p] = passedOn[p] \/ passedOn'[p] = passedOn[p] + 1
    <3>1. UNCHANGED passedOn \/ \E t \in Threads : PassOn(t)
      BY DEF Next, Handle, SendPayment, WareServes, SendToOrder, ConsumerPayment, ConsumeWareDeduct,
             ConsumeDeliver, UpdateStatus, Return, Timeout, Fail, UpdateLate, historyVars
    <3> QED  BY <3>1 DEF PassOn, TypeOK
  <2> QED  BY <2>1 DEF TypeOK
<1>b. o \notin tasks /\ asked = 0 /\ Quiet /\ NoAnswer /\ NoLate /\ process[o] \notin Answers
  BY <1>a DEF WareInv
<1>1. ASSUME NEW p \in Orders, SendPayment(p) PROVE Goal
  <2>1. asked' = asked  BY <1>1 DEF SendPayment, TypeOK
  <2> QED  BY <1>1, <1>b, <2>1 DEF SendPayment, threadVars, wareVars, Late
<1>2. ASSUME NEW p \in Orders, WareServes(p) PROVE Goal
  <2>1. p # o  BY <1>2, <1>b DEF WareServes
  <2>2. asked' = asked
    <3>1. Msg(p, "order") # Msg(o, "order") /\ Msg(o, "order") \in Messages
      BY <2>1, Mess DEF Msg
    <3> QED  BY <1>2, <3>1 DEF WareServes, TypeOK
  <2>3. Quiet'
    BY <1>2, <1>b, <2>1, Mess DEF WareServes
  <2> QED  BY <1>2, <1>b, <2>1, <2>2, <2>3 DEF WareServes, threadVars, Late
<1>3. ASSUME NEW p \in Orders, SendToOrder(p) PROVE Goal
  <2>1. p # o  BY <1>3, <1>b DEF SendToOrder
  <2>2. asked' = asked  BY <1>3 DEF SendToOrder, TypeOK
  <2>3. Quiet'  BY <1>3, <1>b, <2>1, Mess DEF SendToOrder
  <2> QED  BY <1>3, <1>b, <2>2, <2>3 DEF SendToOrder, threadVars, Late
<1>4. ASSUME NEW t \in Threads, NEW n \in Messages,
             \/ ConsumerPayment(t, n) \/ ConsumeWareDeduct(t, n) \/ ConsumeDeliver(t, n)
      PROVE  Goal
  <2>1. asked' = asked
    BY <1>4 DEF ConsumerPayment, ConsumeWareDeduct, ConsumeDeliver, Dequeue, TypeOK
  <2>2. NoAnswer'
    <3>1. CASE ConsumerPayment(t, n)
      BY <1>b, <3>1 DEF ConsumerPayment, Begin, Invoke, TypeOK
    <3>2. CASE ConsumeWareDeduct(t, n) \/ ConsumeDeliver(t, n)
      <4>1. n.orderId # o
        BY <1>b, <3>2 DEF ConsumeWareDeduct, ConsumeDeliver, Dequeue, WareInv
      <4> QED  BY <1>b, <3>2, <4>1
               DEF ConsumeWareDeduct, ConsumeDeliver, Invoke, TypeOK, threadVars
    <3> QED  BY <1>4, <3>1, <3>2
  <2> QED  BY <1>4, <1>b, <2>1, <2>2
           DEF ConsumerPayment, ConsumeWareDeduct, ConsumeDeliver, wareVars, Late
<1>5. ASSUME NEW t \in Threads, UpdateStatus(t) PROVE Goal
  <2>1. process'[o] \notin Answers
    BY <1>5, <1>b DEF UpdateStatus, Updated, Calling, ThreadInv, Answers, TypeOK
  <2> QED  BY <1>5, <1>b, <2>1 DEF UpdateStatus, wareVars, Late
<1>6. ASSUME NEW t \in Threads, Return(t) PROVE Goal
  <2>1. NoAnswer'
    BY <1>6, <1>b, Onward DEF Return, Advance, Invoke, Calling, TypeOK
  <2> QED  BY <1>6, <1>b, <2>1 DEF Return, wareVars, Late
<1>7. ASSUME NEW t \in Threads, Timeout(t) \/ Fail(t) PROVE Goal
  <2>1. NoAnswer'
    BY <1>7, <1>b DEF Timeout, Fail, Leave, Invoke, TypeOK
  <2>2. NoLate'
    <3>1. SUFFICES ASSUME NEW s \in Answers PROVE Late(o, s)' = Late(o, s)
      BY <1>b
    <3>2. [orderId |-> o, status |-> s] \in Writes
      BY Write DEF Answers, Written
    <3>3. UNCHANGED late \/ (pc[t] \in Calling /\ Abandon(t))
      BY <1>7 DEF Timeout, Fail
    <3>4. pc[t] \in Calling => order[t] # o \/ status[t] # s
      BY <1>b DEF Calling, ThreadInv, Answers
    <3> QED  BY <3>2, <3>3, <3>4, AbandonLate DEF Late
  <2> QED  BY <1>7, <1>b, <2>1, <2>2 DEF Timeout, Fail, wareVars
<1>8. ASSUME NEW t \in Threads, PassOn(t) PROVE Goal
  <2>1. order[t] \in Orders /\ order[t] # o
    BY <1>8, <1>a DEF PassOn, ThreadInv, TypeOK
  <2>2. asked' = asked
    <3>1. Msg(order[t], "order") # Msg(o, "order") /\ Msg(o, "order") \in Messages
      BY <2>1, Mess DEF Msg
    <3> QED  BY <1>8, <3>1 DEF PassOn, TypeOK
  <2>3. NoAnswer'
    BY <1>8, <1>b, Onward DEF PassOn, Advance, Invoke, TypeOK
  <2> QED  BY <1>8, <1>b, <2>2, <2>3 DEF PassOn, wareVars, Late
<1>9. ASSUME NEW w \in Writes, UpdateLate(w) PROVE Goal
  <2>1. w.orderId = o => w.status \notin Answers
    <3>1. w = [orderId |-> w.orderId, status |-> w.status]  BY DEF Writes
    <3> QED  BY <1>9, <1>b, <3>1 DEF UpdateLate, Late
  <2>2. process'[o] \notin Answers
    BY <1>9, <1>b, <2>1 DEF UpdateLate, Updated, TypeOK
  <2>3. NoLate'
    <3>1. ASSUME NEW s \in Answers PROVE Late(o, s)' = 0
      <4>1. [orderId |-> o, status |-> s] \in Writes  BY Write DEF Answers, Written
      <4>2. [orderId |-> o, status |-> s] # w  BY <2>1
      <4> QED  BY <1>9, <1>b, <4>1, <4>2 DEF UpdateLate, Late, TypeOK
    <3> QED  BY <3>1
  <2> QED  BY <1>9, <1>b, <2>2, <2>3 DEF UpdateLate, threadVars, wareVars
<1> QED
  BY <1>1, <1>2, <1>3, <1>4, <1>5, <1>6, <1>7, <1>8, <1>9 DEF Next, Handle

-----------------------------------------------------------------------------
\* How the status moves.

\* No handler goes on before PAID is written.
LEMMA PaidStep == FInv /\ Next => PaidInv'
<1> SUFFICES ASSUME FInv, Next, NEW o \in Orders, process'[o] = "UNPAID"
             PROVE  /\ passedOn'[o] = 0
                    /\ \A t \in Threads : order'[t] = o =>
                          pc'[t] \notin {"notified", "send"} /\ (pc'[t] = "paid" => ~done'[t])
    BY DEF PaidInv
<1> USE Places DEF FInv
<1> DEFINE Before == \A t \in Threads : order[t] = o =>
                        pc[t] \notin {"notified", "send"} /\ (pc[t] = "paid" => ~done[t])
           Goal == passedOn'[o] = 0 /\ Before'
<1> TypeOK /\ ThreadInv
    OBVIOUS
<1>a. process[o] = "UNPAID" => passedOn[o] = 0 /\ Before
  BY DEF PaidInv
<1>1. ASSUME NEW p \in Orders, SendPayment(p) \/ WareServes(p) \/ SendToOrder(p) PROVE Goal
  BY <1>1, <1>a DEF SendPayment, WareServes, SendToOrder, threadVars, historyVars
<1>2. ASSUME NEW t \in Threads, NEW m \in Messages,
             \/ ConsumerPayment(t, m) \/ ConsumeWareDeduct(t, m) \/ ConsumeDeliver(t, m)
      PROVE  Goal
  <2>1. UNCHANGED <<process, passedOn>>
    BY <1>2 DEF ConsumerPayment, ConsumeWareDeduct, ConsumeDeliver, historyVars
  <2>2. Before'
    BY <1>2, <1>a, <2>1
       DEF ConsumerPayment, ConsumeWareDeduct, ConsumeDeliver, Begin, Invoke, TypeOK, threadVars
  <2> QED  BY <1>a, <2>1, <2>2
<1>3. ASSUME NEW t \in Threads, UpdateStatus(t) PROVE Goal
  <2>1. order[t] # o /\ process[o] = "UNPAID"
    BY <1>3 DEF UpdateStatus, Updated, ThreadInv, Calling, Answers, TypeOK
  <2> QED  BY <1>3, <1>a, <2>1 DEF UpdateStatus, TypeOK, historyVars
<1>4. ASSUME NEW t \in Threads, Return(t) PROVE Goal
  <2>1. order[t] = o => pc[t] = "answer"
    BY <1>4, <1>a DEF Return, Calling
  <2>2. Before'
    BY <1>4, <1>a, <2>1, Onward DEF Return, Advance, Invoke, TypeOK, Calling
  <2> QED  BY <1>4, <1>a, <2>2 DEF Return, historyVars
<1>5. ASSUME NEW t \in Threads, Timeout(t) \/ Fail(t) PROVE Goal
  <2>1. UNCHANGED <<process, passedOn>>  BY <1>5 DEF Timeout, Fail, historyVars
  <2>2. Before'
    BY <1>5, <1>a, <2>1 DEF Timeout, Fail, Leave, Invoke, TypeOK
  <2> QED  BY <1>a, <2>1, <2>2
<1>6. ASSUME NEW t \in Threads, PassOn(t) PROVE Goal
  <2>1. order[t] # o  BY <1>6, <1>a DEF PassOn
  <2>2. Before'
    BY <1>6, <1>a, Onward DEF PassOn, Advance, Invoke, TypeOK
  <2> QED  BY <1>6, <1>a, <2>1, <2>2 DEF PassOn, ThreadInv, TypeOK
<1>7. ASSUME NEW w \in Writes, UpdateLate(w) PROVE Goal
  <2>1. process[o] = "UNPAID"
    BY <1>7 DEF UpdateLate, Updated, TypeOK, Writes, Written
  <2> QED  BY <1>7, <1>a, <2>1 DEF UpdateLate, threadVars, historyVars
<1> QED
  BY <1>1, <1>2, <1>3, <1>4, <1>5, <1>6, <1>7 DEF Next, Handle

\* The only announcement of a payment is at one place at a time.
LEMMA Alone ==
    ASSUME TypeOK, CountInv, NEW o \in Orders, Regular(o)
    PROVE  /\ queue["PAYMENT_TO_ORDER"][Msg(o, "success")] > 0
                => Busy(o) = {} /\ Late(o, "PAID") = 0 /\ Late(o, "NOTIFIED_WARE") = 0
           /\ \/ Late(o, "PAID") > 0
              \/ Late(o, "NOTIFIED_WARE") > 0
              => /\ Busy(o) = {} /\ queue["PAYMENT_TO_ORDER"][Msg(o, "success")] = 0
                 /\ Late(o, "PAID") + Late(o, "NOTIFIED_WARE") = 1
           /\ \A t \in Busy(o) :
                 /\ Busy(o) = {t} /\ queue["PAYMENT_TO_ORDER"][Msg(o, "success")] = 0
                 /\ Late(o, "PAID") = 0 /\ Late(o, "NOTIFIED_WARE") = 0
                 /\ announced[o] = 1
           /\ passedOn[o] > 0
                => /\ Busy(o) = {} /\ queue["PAYMENT_TO_ORDER"][Msg(o, "success")] = 0
                   /\ Late(o, "PAID") = 0 /\ Late(o, "NOTIFIED_WARE") = 0
                   /\ announced[o] = 1
<1> DEFINE waiting == queue["PAYMENT_TO_ORDER"][Msg(o, "success")]
           card == Cardinality(Busy(o))
           paid == Late(o, "PAID")
           notified == Late(o, "NOTIFIED_WARE")
<1>1. /\ waiting \in Nat /\ passedOn[o] \in Nat /\ announced[o] \in Nat /\ card \in Nat
      /\ paid \in Nat /\ notified \in Nat
  <2>1. Msg(o, "success") \in Messages /\ "PAYMENT_TO_ORDER" \in QueueNames  BY Mess, Places
  <2>2. /\ [orderId |-> o, status |-> "PAID"] \in Writes
        /\ [orderId |-> o, status |-> "NOTIFIED_WARE"] \in Writes
    BY DEF Writes, Written
  <2> QED  BY <2>1, <2>2, BusyFinite DEF TypeOK, Late
<1>2. card + waiting + passedOn[o] + paid + notified <= announced[o]
      /\ announced[o] <= 1
  BY DEF CountInv, Pending, Regular
<1>3. card = 0 => Busy(o) = {}  BY BusyFinite, FS_EmptySet
<1>4. \A t \in Busy(o) : card >= 1 /\ (card = 1 => Busy(o) = {t})  BY BusyOne
<1> HIDE DEF card, waiting, paid, notified
<1>5. waiting > 0 => Busy(o) = {} /\ paid = 0 /\ notified = 0
  BY <1>1, <1>2, <1>3
<1>6. paid > 0 \/ notified > 0 => Busy(o) = {} /\ waiting = 0 /\ paid + notified = 1
  BY <1>1, <1>2, <1>3
<1>7. passedOn[o] > 0
        => Busy(o) = {} /\ waiting = 0 /\ paid = 0 /\ notified = 0 /\ announced[o] = 1
  BY <1>1, <1>2, <1>3
<1>8. card >= 1
        => card = 1 /\ waiting = 0 /\ paid = 0 /\ notified = 0 /\ announced[o] = 1
  BY <1>1, <1>2
<1> USE DEF waiting, paid, notified
<1> QED  BY <1>4, <1>5, <1>6, <1>7, <1>8

\* Nothing is under way for an order whose payment was never announced.
LEMMA Untouched ==
    ASSUME FInv, NEW o \in Orders, announced[o] = 0
    PROVE  /\ Regular(o) /\ process[o] = "UNPAID"
           /\ \A t \in Threads : pc[t] # "idle" => order[t] # o
           /\ \A w \in Writes : late[w] > 0 => w.orderId # o
<1> USE Places DEF FInv
<1>1. Regular(o) /\ process[o] = "UNPAID"  BY DEF StageInv, Regular
<1>2. Busy(o) = {} /\ passedOn[o] = 0 /\ Late(o, "PAID") = 0 /\ Late(o, "NOTIFIED_WARE") = 0
  <2>1. passedOn[o] \in Nat /\ Late(o, "PAID") \in Nat /\ Late(o, "NOTIFIED_WARE") \in Nat
    <3>1. /\ [orderId |-> o, status |-> "PAID"] \in Writes
          /\ [orderId |-> o, status |-> "NOTIFIED_WARE"] \in Writes
      BY DEF Writes, Written
    <3> QED  BY <3>1 DEF TypeOK, Late
  <2>2. ~(passedOn[o] > 0) /\ Busy(o) = {}  BY <1>1, Alone
  <2>3. /\ queue["PAYMENT_TO_ORDER"][Msg(o, "success")] \in Nat /\ Cardinality(Busy(o)) \in Nat
        /\ Pending(o) + Late(o, "PAID") + Late(o, "NOTIFIED_WARE") <= 0
    BY <1>1, Mess, BusyFinite DEF CountInv, Regular, TypeOK
  <2> QED  BY <2>1, <2>2, <2>3 DEF Pending
<1>3. \A t \in Threads : pc[t] # "idle" => order[t] # o
  BY <1>2 DEF Busy, WareInv, ThreadInv, TypeOK, Calling
<1>4. ASSUME NEW w \in Writes, late[w] > 0 PROVE w.orderId # o
  <2>1. w = [orderId |-> w.orderId, status |-> w.status] /\ w.status \in Written  BY DEF Writes
  <2>2. \A s \in Written : Late(o, s) = 0  BY <1>2 DEF WareInv, Written, Answers
  <2> QED  BY <1>4, <2>1, <2>2 DEF Late
<1> QED  BY <1>1, <1>3, <1>4

\* The writes that a step makes, and the order they are for.
LEMMA Writers ==
    ASSUME FInv, Next, NEW o \in Orders, process'[o] # process[o]
    PROVE  \/ \E t \in Threads : UpdateStatus(t) /\ order[t] = o /\ process'[o] = status[t]
           \/ \E w \in Writes : UpdateLate(w) /\ w.orderId = o /\ process'[o] = w.status
<1> TypeOK /\ ThreadInv  BY DEF FInv
<1>1. \/ \E t \in Threads : UpdateStatus(t)
      \/ \E w \in Writes : UpdateLate(w)
  BY DEF Next, Handle, SendPayment, WareServes, SendToOrder, ConsumerPayment, ConsumeWareDeduct,
         ConsumeDeliver, Return, Timeout, PassOn, Fail
<1>2. \A t \in Threads : UpdateStatus(t) => order[t] = o /\ process'[o] = status[t]
  BY DEF UpdateStatus, Updated, TypeOK
<1>3. \A w \in Writes : UpdateLate(w) => w.orderId = o /\ process'[o] = w.status
  BY DEF UpdateLate, Updated, TypeOK
<1> QED  BY <1>1, <1>2, <1>3

\* What has been announced, or delayed, stays so.
LEMMA RegularBefore ==
    ASSUME FInv, Next, NEW o \in Orders
    PROVE  /\ Regular(o)' => Regular(o)
           /\ announced'[o] = 0 => announced[o] = 0
           /\ delayed[o] => delayed'[o]
           /\ delayed'[o] /\ ~delayed[o] => \E t \in Threads : Timeout(t) /\ order[t] = o
<1> USE Places DEF FInv
<1> TypeOK /\ ThreadInv
    OBVIOUS
<1>1. announced'[o] = announced[o] \/ announced'[o] = announced[o] + 1
  <2>1. UNCHANGED announced \/ \E p \in Orders : SendPayment(p)
    BY DEF Next, Handle, WareServes, SendToOrder, ConsumerPayment, ConsumeWareDeduct, ConsumeDeliver,
           UpdateStatus, Return, Timeout, PassOn, Fail, UpdateLate, historyVars
  <2> QED  BY <2>1 DEF SendPayment, TypeOK
<1>2. announced[o] \in Nat  BY DEF TypeOK
<1>3. UNCHANGED delayed \/ \E t \in Threads : Timeout(t)
  BY DEF Next, Handle, SendPayment, WareServes, SendToOrder, ConsumerPayment, ConsumeWareDeduct,
         ConsumeDeliver, UpdateStatus, Return, PassOn, Fail, UpdateLate, historyVars
<1>4. \A t \in Threads : Timeout(t) =>
         /\ delayed[o] => delayed'[o]
         /\ delayed'[o] /\ ~delayed[o] => order[t] = o
  BY DEF Timeout, TypeOK
<1> QED  BY <1>1, <1>2, <1>3, <1>4 DEF Regular

\* A step that adds nothing on the way of o and does not write its status.
LEMMA WayKept ==
    ASSUME NEW o \in Orders, OnItsWay(o), process'[o] = process[o],
           queue'["PAYMENT_TO_ORDER"][Msg(o, "success")] > 0
             => queue["PAYMENT_TO_ORDER"][Msg(o, "success")] > 0,
           Late(o, "PAID")' > 0 => Late(o, "PAID") > 0,
           Late(o, "NOTIFIED_WARE")' > 0 => Late(o, "NOTIFIED_WARE") > 0,
           \A t \in Busy(o)' : t \in Busy(o) /\ pc'[t] = pc[t] /\ (done'[t] <=> done[t])
    PROVE  OnItsWay(o)'
  BY DEF OnItsWay

\* The way of the only announcement of a payment.
LEMMA StageStep == FInv /\ Next => StageInv'
<1> SUFFICES ASSUME FInv, Next, NEW o \in Orders
             PROVE  /\ announced'[o] = 0 => ~delayed'[o] /\ process'[o] = "UNPAID"
                    /\ Regular(o)' => OnItsWay(o)'
    BY DEF StageInv
<1>1. ASSUME announced'[o] = 0 PROVE ~delayed'[o] /\ process'[o] = "UNPAID"
  <2>1. announced[o] = 0  BY <1>1, RegularBefore
  <2>2. ~delayed[o] /\ process[o] = "UNPAID"  BY <2>1 DEF FInv, StageInv
  <2>3. process'[o] = process[o]
    <3>1. \A t \in Threads : UpdateStatus(t) => order[t] # o
      BY <2>1, Untouched DEF UpdateStatus, Calling
    <3>2. \A w \in Writes : UpdateLate(w) => w.orderId # o
      BY <2>1, Untouched DEF UpdateLate
    <3> QED  BY <3>1, <3>2, Writers
  <2>4. \A t \in Threads : Timeout(t) => order[t] # o
    BY <2>1, Untouched DEF Timeout, Calling
  <2> QED  BY <2>2, <2>3, <2>4, RegularBefore DEF FInv, TypeOK
<1>2. ASSUME Regular(o)' PROVE OnItsWay(o)'
  <2> DEFINE waiting == queue["PAYMENT_TO_ORDER"][Msg(o, "success")]
  <2> USE Places
  <2>a. Regular(o) /\ OnItsWay(o) /\ TypeOK /\ ThreadInv /\ CountInv
    BY <1>2, RegularBefore DEF FInv, StageInv
  <2>b. process'[o] = "UNPAID" => OnItsWay(o)'
    BY DEF OnItsWay
  <2>1. ASSUME NEW p \in Orders, SendPayment(p) PROVE OnItsWay(o)'
    <3>1. CASE p = o
      <4>1. announced[o] = 0
        BY <1>2, <2>1, <3>1, <2>a DEF SendPayment, Regular, TypeOK
      <4>2. process[o] = "UNPAID"  BY <4>1, Untouched
      <4> QED  BY <2>1, <2>b, <4>2 DEF SendPayment
    <3>2. CASE p # o
      <4>1. waiting' = waiting
        <5>1. Msg(p, "success") # Msg(o, "success") /\ Msg(o, "success") \in Messages
          BY <3>2, Mess DEF Msg
        <5> QED  BY <2>1, <2>a, <5>1 DEF SendPayment, TypeOK
      <4> QED  BY <2>1, <2>a, <4>1, WayKept DEF SendPayment, Late, Busy, threadVars
    <3> QED  BY <3>1, <3>2
  <2>2. ASSUME NEW p \in Orders, WareServes(p) \/ SendToOrder(p) PROVE OnItsWay(o)'
    <3>1. waiting' = waiting  BY <2>2, <2>a DEF WareServes, SendToOrder, TypeOK
    <3> QED  BY <2>2, <2>a, <3>1, WayKept DEF WareServes, SendToOrder, Late, Busy, threadVars
  <2>3. ASSUME NEW t \in Threads, NEW m \in Messages, ConsumerPayment(t, m) PROVE OnItsWay(o)'
    <3>1. CASE m.orderId = o
      <4>1. m = Msg(o, "success")  BY <2>3, <3>1 DEF ConsumerPayment, Msg, Messages
      <4>2. process[o] = "UNPAID"
        BY <2>3, <2>a, <4>1 DEF ConsumerPayment, Dequeue, OnItsWay
      <4> QED  BY <2>3, <2>b, <4>2 DEF ConsumerPayment
    <3>2. CASE m.orderId # o
      <4>1. waiting' = waiting
        <5>1. m # Msg(o, "success") /\ Msg(o, "success") \in Messages  BY <3>2, Mess
        <5> QED  BY <2>3, <2>a, <5>1 DEF ConsumerPayment, Dequeue, TypeOK
      <4>2. \A u \in Busy(o)' : u \in Busy(o) /\ pc'[u] = pc[u] /\ done'[u] = done[u]
        BY <2>3, <2>a, <3>2 DEF ConsumerPayment, Begin, Invoke, Busy, TypeOK
      <4> QED  BY <2>3, <2>a, <4>1, <4>2, WayKept DEF ConsumerPayment, Late
    <3> QED  BY <3>1, <3>2
  <2>4. ASSUME NEW t \in Threads, NEW m \in Messages,
               ConsumeWareDeduct(t, m) \/ ConsumeDeliver(t, m)
        PROVE  OnItsWay(o)'
    <3>1. waiting' = waiting
      BY <2>4, <2>a DEF ConsumeWareDeduct, ConsumeDeliver, Dequeue, TypeOK
    <3>2. t \notin PayThreads  BY <2>4 DEF ConsumeWareDeduct, ConsumeDeliver
    <3>3. \A u \in PayThreads : pc'[u] = pc[u] /\ order'[u] = order[u] /\ done'[u] = done[u]
      BY <2>4, <2>a, <3>2 DEF ConsumeWareDeduct, ConsumeDeliver, Invoke, TypeOK, threadVars
    <3> QED  BY <2>4, <2>a, <3>1, <3>3, WayKept DEF ConsumeWareDeduct, ConsumeDeliver, Late, Busy
  <2>5. ASSUME NEW t \in Threads, UpdateStatus(t) PROVE OnItsWay(o)'
    <3>1. Busy(o)' = Busy(o)  BY <2>5, BusySame DEF UpdateStatus
    <3>2. CASE order[t] # o
      <4>1. process'[o] = process[o]  BY <2>5, <2>a, <3>2 DEF UpdateStatus, Updated, TypeOK
      <4>2. \A u \in Busy(o) : pc'[u] = pc[u] /\ done'[u] = done[u]
        BY <2>5, <2>a, <3>2 DEF UpdateStatus, Busy, TypeOK
      <4> QED  BY <2>5, <2>a, <3>1, <4>1, <4>2, WayKept DEF UpdateStatus, Late
    <3>3. CASE order[t] = o /\ pc[t] = "answer"
      <4>1. passedOn[o] > 0
        BY <2>a, <3>3 DEF FInv, WareInv, TypeOK
      <4> QED  BY <2>5, <2>a, <3>1, <4>1, Alone DEF UpdateStatus, OnItsWay, Late
    <3>4. CASE order[t] = o /\ pc[t] \in {"paid", "notified"}
      <4>1. t \in Busy(o)  BY <2>a, <3>4 DEF Busy, ThreadInv
      <4>2. Busy(o) = {t} /\ waiting = 0 /\ Late(o, "PAID") = 0 /\ Late(o, "NOTIFIED_WARE") = 0
        BY <2>a, <4>1, Alone
      <4>3. done'[t] /\ process'[o] = status[t] /\ UNCHANGED <<queue, late, pc>>
        BY <2>5, <2>a, <3>4 DEF UpdateStatus, Updated, TypeOK
      <4>4. pc[t] = "paid" => process'[o] = "PAID"
        BY <2>a, <4>3 DEF ThreadInv
      <4> QED  BY <3>1, <4>2, <4>3, <4>4 DEF OnItsWay, Late
    <3> QED  BY <2>5, <3>2, <3>3, <3>4 DEF UpdateStatus, Calling
  <2>6. ASSUME NEW t \in Threads, Return(t) PROVE OnItsWay(o)'
    <3>1. UNCHANGED <<process, queue, late>>  BY <2>6 DEF Return
    <3>2. \A u \in PayThreads : u # t => UNCHANGED <<pc[u], order[u], done[u]>>
      BY <2>6, <2>a DEF Return, Advance, Invoke, TypeOK
    <3>3. CASE t \in PayThreads /\ order[t] = o /\ pc[t] = "paid"
      <4>1. t \in Busy(o) /\ done[t]  BY <2>6, <3>3 DEF Busy, Return
      <4>2. Busy(o) = {t} /\ waiting = 0 /\ Late(o, "PAID") = 0 /\ Late(o, "NOTIFIED_WARE") = 0
        BY <2>a, <4>1, Alone
      <4>3. process[o] \in {"UNPAID", "PAID"}  BY <2>a, <3>3, <4>1 DEF OnItsWay
      <4>4. pc'[t] = "notified"
        BY <2>6, <2>a, <3>3, Onward DEF Return, Advance, Invoke, TypeOK
      <4>5. Busy(o)' \subseteq {t}  BY <3>2, <4>2 DEF Busy
      <4> QED  BY <3>1, <4>2, <4>3, <4>4, <4>5 DEF OnItsWay, Late
    <3>4. CASE ~(t \in PayThreads /\ order[t] = o /\ pc[t] = "paid")
      <4>1. t \in Busy(o)' => pc[t] = "notified" /\ pc'[t] = "send" /\ order[t] = o
        <5>1. t \in PayThreads => pc[t] \in {"paid", "notified"}
          BY <2>6, <2>a DEF Return, Calling, ThreadInv
        <5>2. t \in PayThreads /\ pc'[t] # "idle" => order'[t] = order[t]
          BY <2>6, <2>a, Onward DEF Return, Advance, Invoke, TypeOK
        <5>3. pc[t] = "notified" => pc'[t] = "send"
          BY <2>6, <2>a, Onward DEF Return, Advance, Invoke, TypeOK
        <5> QED  BY <3>4, <5>1, <5>2, <5>3 DEF Busy
      <4>2. \A u \in Busy(o)' : u # t => u \in Busy(o) /\ UNCHANGED <<pc[u], done[u]>>
        BY <3>2 DEF Busy
      <4> QED  BY <2>a, <3>1, <4>1, <4>2 DEF OnItsWay, Late
    <3> QED  BY <3>3, <3>4
  <2>7. ASSUME NEW t \in Threads, Timeout(t) PROVE OnItsWay(o)'
    <3>1. order[t] # o
      BY <1>2, <2>7, <2>a DEF Timeout, Regular, TypeOK
    <3>2. UNCHANGED <<Late(o, "PAID"), Late(o, "NOTIFIED_WARE")>>
      BY <2>7, <2>a, <3>1, AbandonLate, Write DEF Timeout, Late, Written
    <3>3. \A u \in Busy(o)' : u \in Busy(o) /\ pc'[u] = pc[u] /\ done'[u] = done[u]
      BY <2>7, <2>a, <3>1 DEF Timeout, Leave, Invoke, Busy, TypeOK
    <3> QED  BY <2>7, <2>a, <3>2, <3>3, WayKept DEF Timeout
  <2>8. ASSUME NEW t \in Threads, PassOn(t) PROVE OnItsWay(o)'
    <3>1. waiting' = waiting  BY <2>8, <2>a DEF PassOn, TypeOK
    <3>2. \A u \in Busy(o)' : u \in Busy(o) /\ pc'[u] = pc[u] /\ done'[u] = done[u]
      BY <2>8, <2>a, Onward DEF PassOn, Advance, Invoke, Busy, TypeOK
    <3> QED  BY <2>8, <2>a, <3>1, <3>2, WayKept DEF PassOn, Late
  <2>9. ASSUME NEW t \in Threads, Fail(t) PROVE OnItsWay(o)'
    <3>1. UNCHANGED <<process, queue>>  BY <2>9 DEF Fail
    <3>2. \A u \in Busy(o)' : u \in Busy(o) /\ pc'[u] = pc[u] /\ done'[u] = done[u]
      BY <2>9, <2>a DEF Fail, Leave, Invoke, Busy, TypeOK
    <3>3. CASE UNCHANGED late
      BY <2>a, <3>1, <3>2, <3>3, WayKept DEF Late
    <3>4. CASE pc[t] \in Calling /\ Abandon(t)
      <4>1. ASSUME NEW s \in {"PAID", "NOTIFIED_WARE"}, Late(o, s)' > 0, ~(Late(o, s) > 0)
            PROVE  order[t] = o /\ status[t] = s /\ ~done[t] /\ t \in Busy(o)
        <5>1. [orderId |-> o, status |-> s] \in Writes  BY DEF Writes, Written
        <5>2. order[t] = o /\ status[t] = s /\ ~done[t]
          BY <2>a, <3>4, <4>1, <5>1, AbandonLate DEF Late
        <5> QED  BY <2>a, <3>4, <5>2 DEF Busy, ThreadInv, Calling, Answers
      <4>a. t \in Busy(o) => /\ status[t] = "PAID" => pc[t] = "paid"
                             /\ status[t] = "NOTIFIED_WARE" => pc[t] = "notified"
        BY <2>a, <3>4 DEF ThreadInv, Busy, Calling
      <4>2. Late(o, "PAID")' > 0 => process[o] = "UNPAID"
        <5>1. Late(o, "PAID") > 0 => process[o] = "UNPAID"  BY <2>a DEF OnItsWay
        <5>2. ASSUME Late(o, "PAID")' > 0, ~(Late(o, "PAID") > 0) PROVE process[o] = "UNPAID"
          BY <2>a, <4>1, <4>a, <5>2 DEF OnItsWay
        <5> QED  BY <5>1, <5>2
      <4>3. Late(o, "NOTIFIED_WARE")' > 0 => process[o] \in {"UNPAID", "PAID"}
        <5>1. Late(o, "NOTIFIED_WARE") > 0 => process[o] \in {"UNPAID", "PAID"}
          BY <2>a DEF OnItsWay
        <5>2. ASSUME Late(o, "NOTIFIED_WARE")' > 0, ~(Late(o, "NOTIFIED_WARE") > 0)
              PROVE  process[o] \in {"UNPAID", "PAID"}
          BY <2>a, <4>1, <4>a, <5>2 DEF OnItsWay
        <5> QED  BY <5>1, <5>2
      <4> QED  BY <2>a, <3>1, <3>2, <4>2, <4>3 DEF OnItsWay
    <3> QED  BY <2>9, <3>3, <3>4 DEF Fail
  <2>10. ASSUME NEW w \in Writes, UpdateLate(w) PROVE OnItsWay(o)'
    <3>1. UNCHANGED <<queue, pc, order, done>>  BY <2>10 DEF UpdateLate, threadVars
    <3>2. Busy(o)' = Busy(o)  BY <3>1 DEF Busy
    <3>3. w = [orderId |-> w.orderId, status |-> w.status] /\ w.status \in Written
      BY DEF Writes
    <3>4. CASE w.orderId # o
      <4>1. process'[o] = process[o]  BY <2>10, <2>a, <3>4 DEF UpdateLate, Updated, TypeOK
      <4>2. UNCHANGED <<Late(o, "PAID"), Late(o, "NOTIFIED_WARE")>>
        BY <2>10, <2>a, <3>4 DEF UpdateLate, Late, TypeOK
      <4> QED  BY <2>a, <3>1, <3>2, <4>1, <4>2, WayKept
    <3>5. CASE w.orderId = o
      <4>1. Busy(o) = {} /\ waiting = 0
        <5>1. CASE w.status \in Answers
          <6>1. passedOn[o] > 0
            BY <2>10, <2>a, <3>3, <3>5, <5>1 DEF FInv, WareInv, UpdateLate, Late, TypeOK
          <6> QED  BY <2>a, <6>1, Alone
        <5>2. CASE w.status \notin Answers
          <6>1. Late(o, "PAID") > 0 \/ Late(o, "NOTIFIED_WARE") > 0
            BY <2>10, <3>3, <3>5, <5>2 DEF UpdateLate, Late, Written, Answers
          <6> QED  BY <2>a, <6>1, Alone
        <5> QED  BY <5>1, <5>2
      <4>2. Late(o, "PAID")' = 0 /\ Late(o, "NOTIFIED_WARE")' = 0
        <5> DEFINE wp == [orderId |-> o, status |-> "PAID"]
                   wn == [orderId |-> o, status |-> "NOTIFIED_WARE"]
        <5>1. wp \in Writes /\ wn \in Writes /\ wp # wn  BY DEF Writes, Written
        <5>2. CASE w.status \in Answers
          <6>1. passedOn[o] > 0
            BY <2>10, <2>a, <3>3, <3>5, <5>2 DEF FInv, WareInv, UpdateLate, Late, TypeOK
          <6>2. late[wp] = 0 /\ late[wn] = 0  BY <2>a, <6>1, Alone DEF Late
          <6>3. w # wp /\ w # wn  BY <5>2 DEF Answers
          <6> QED  BY <2>10, <2>a, <5>1, <6>2, <6>3 DEF UpdateLate, Late, TypeOK
        <5>3. CASE w.status \notin Answers
          <6>1. w = wp \/ w = wn  BY <3>3, <3>5, <5>3 DEF Written, Answers
          <6>2. late[w] > 0  BY <2>10 DEF UpdateLate
          <6>3. late[wp] + late[wn] = 1  BY <2>a, <6>1, <6>2, Alone DEF Late
          <6>4. late[wp] \in Nat /\ late[wn] \in Nat  BY <2>a, <5>1 DEF TypeOK
          <6>5. late' = [late EXCEPT ![w] = @ - 1]  BY <2>10 DEF UpdateLate
          <6> HIDE DEF wp, wn
          <6>6. late'[wp] = 0 /\ late'[wn] = 0
            <7>1. /\ late'[wp] = IF w = wp THEN late[wp] - 1 ELSE late[wp]
                  /\ late'[wn] = IF w = wn THEN late[wn] - 1 ELSE late[wn]
              BY <2>a, <5>1, <6>5 DEF TypeOK
            <7> QED  BY <5>1, <6>1, <6>2, <6>3, <6>4, <7>1
          <6> USE DEF wp, wn
          <6> QED  BY <6>6 DEF Late
        <5> QED  BY <5>2, <5>3
      <4> QED  BY <3>1, <3>2, <4>1, <4>2 DEF OnItsWay
    <3> QED  BY <3>4, <3>5
  <2> QED
    BY <2>1, <2>2, <2>3, <2>4, <2>5, <2>6, <2>7, <2>8, <2>9, <2>10 DEF Next, Handle
<1> QED  BY <1>1, <1>2

-----------------------------------------------------------------------------
\* The strengthening holds at the start, and every step keeps it.
LEMMA FInvInit == Init => FInv
<1> SUFFICES ASSUME Init PROVE FInv
    OBVIOUS
<1>1. TypeOK  BY InitType
<1>2. ThreadInv  BY DEF Init, ThreadInv
<1>3. \A o \in Orders : Busy(o) = {}  BY Places DEF Init, Busy
<1>4. \A w \in Writes : late[w] = 0  BY DEF Init
<1>5. \A o \in Orders, s \in Written : Late(o, s) = 0  BY <1>4, Write DEF Late
<1>6. \A q \in QueueNames, m \in Messages : queue[q][m] = 0  BY DEF Init
<1>7. CountInv
  <2>1. SUFFICES ASSUME NEW o \in Orders PROVE Pending(o) = 0 /\ announced[o] = 0
    BY <1>5 DEF CountInv, Written
  <2>2. Cardinality(Busy(o)) = 0  BY <1>3, FS_EmptySet
  <2>3. queue["PAYMENT_TO_ORDER"][Msg(o, "success")] = 0  BY <1>6, Places, Mess
  <2> QED  BY <2>2, <2>3 DEF Pending, Init
<1>8. WareInv
  BY <1>5, <1>6, Places, Mess DEF WareInv, Init, Written, Answers
<1>9. PaidInv  BY DEF PaidInv, Init
<1>10. StageInv  BY DEF StageInv, OnItsWay, Init
<1> QED  BY <1>1, <1>2, <1>7, <1>8, <1>9, <1>10 DEF FInv

LEMMA FInvStep == FInv /\ [Next]_vars => FInv'
<1>1. FInv /\ Next => FInv'
  BY TypeStep, ThreadStep, CountStep, WareStep, PaidStep, StageStep DEF FInv
<1>2. FInv /\ UNCHANGED vars => FInv'
  <2> SUFFICES ASSUME FInv, UNCHANGED vars PROVE FInv'
      OBVIOUS
  <2>1. TypeOK' /\ ThreadInv'
    BY DEF FInv, TypeOK, ThreadInv, vars, threadVars, wareVars, historyVars
  <2>2. \A o \in Orders : Busy(o)' = Busy(o)  BY DEF Busy, vars, threadVars
  <2>3. CountInv'
    BY <2>2 DEF FInv, CountInv, Pending, Late, vars, historyVars
  <2>4. WareInv' /\ PaidInv'
    BY DEF FInv, WareInv, PaidInv, Late, vars, threadVars, wareVars, historyVars
  <2>5. StageInv'
    BY <2>2 DEF FInv, StageInv, OnItsWay, Regular, Late, vars, threadVars, historyVars
  <2> QED  BY <2>1, <2>3, <2>4, <2>5 DEF FInv
<1> QED  BY <1>1, <1>2

\* So it always holds.
LEMMA FInvAlways == Spec => []FInv
  BY FInvInit, FInvStep, PTL DEF Spec

-----------------------------------------------------------------------------
\* The state of the order flow keeps its types; no call of updateStatus is
\* repeated beyond Dubbo's retries.
THEOREM TypeCorrect == Spec => []TypeOK
<1>1. FInv => TypeOK  BY DEF FInv
<1> QED  BY <1>1, FInvAlways, PTL

\* The warehouse is told only of orders whose payment is on record, whatever
\* times out, fails, or is announced again.
THEOREM NothingUnpaidShips == Spec => []NothingShipsUnpaid
<1>1. FInv => NothingShipsUnpaid
  BY DEF FInv, PaidInv, WareInv, NothingShipsUnpaid
<1> QED  BY <1>1, FInvAlways, PTL

\* No announcement of a payment is passed on twice.
THEOREM PassedOnOnce == Spec => []PassedOnOncePerPayment
<1>1. FInv => PassedOnOncePerPayment
  <2> SUFFICES ASSUME FInv, NEW o \in Orders PROVE passedOn[o] <= announced[o]
      BY DEF PassedOnOncePerPayment
  <2>1. /\ queue["PAYMENT_TO_ORDER"][Msg(o, "success")] \in Nat /\ Cardinality(Busy(o)) \in Nat
        /\ passedOn[o] \in Nat /\ announced[o] \in Nat
    BY Places, Mess, BusyFinite DEF FInv, TypeOK
  <2>2. Pending(o) <= announced[o]  BY DEF FInv, CountInv
  <2> QED  BY <2>1, <2>2 DEF Pending
<1> QED  BY <1>1, FInvAlways, PTL

\* While a payment is announced once and no call about the order is delayed,
\* its status does not step back.
THEOREM NoStepBack == Spec => NeverStepsBack
<1>1. FInv /\ [Next]_vars =>
        [\A o \in Orders :
            announced'[o] <= 1 /\ ~delayed'[o] => Stage(process[o]) <= Stage(process'[o])]_vars
  <2> SUFFICES ASSUME FInv, Next, NEW o \in Orders, Regular(o)'
               PROVE  Stage(process[o]) <= Stage(process'[o])
      BY DEF Regular
  <2>a. Regular(o) /\ OnItsWay(o) /\ TypeOK /\ ThreadInv
    BY RegularBefore DEF FInv, StageInv
  <2>1. \/ process'[o] = process[o]
        \/ process'[o] = "PAID" /\ process[o] = "UNPAID"
        \/ process'[o] = "NOTIFIED_WARE" /\ process[o] \in {"UNPAID", "PAID"}
        \/ process'[o] \in Answers
    <3>1. ASSUME NEW t \in Threads, UpdateStatus(t), order[t] = o, process'[o] = status[t],
                 status[t] \notin Answers
          PROVE  \/ process'[o] = "PAID" /\ process[o] = "UNPAID"
                 \/ process'[o] = "NOTIFIED_WARE" /\ process[o] \in {"UNPAID", "PAID"}
      <4>1. pc[t] \in {"paid", "notified"} /\ ~done[t] /\ t \in Busy(o)
        BY <2>a, <3>1 DEF UpdateStatus, Calling, ThreadInv, Busy
      <4> QED  BY <2>a, <3>1, <4>1 DEF OnItsWay, ThreadInv
    <3>2. ASSUME NEW w \in Writes, UpdateLate(w), w.orderId = o, process'[o] = w.status,
                 w.status \notin Answers
          PROVE  \/ process'[o] = "PAID" /\ process[o] = "UNPAID"
                 \/ process'[o] = "NOTIFIED_WARE" /\ process[o] \in {"UNPAID", "PAID"}
      <4>1. w = [orderId |-> o, status |-> w.status] /\ w.status \in {"PAID", "NOTIFIED_WARE"}
        BY <3>2 DEF Writes, Written, Answers
      <4>2. Late(o, w.status) > 0  BY <3>2, <4>1 DEF UpdateLate, Late
      <4> QED  BY <2>a, <3>2, <4>1, <4>2 DEF OnItsWay
    <3> QED  BY <3>1, <3>2, Writers
  <2>2. process[o] \in ProcessStatus  BY <2>a DEF TypeOK
  <2> QED  BY <2>1, <2>2 DEF Stage, Answers, ProcessStatus, Written
<1> QED  BY <1>1, FInvAlways, PTL DEF Spec, NeverStepsBack

-----------------------------------------------------------------------------
\* What a status says of the warehouse's answers, whatever words it uses.

\* What the warehouse has said stays said.
LEMMA SaidForGood ==
    ASSUME FInv, Next, NEW o, NEW s, Said(o, s)
    PROVE  Said(o, s)'
<1>1. outbox \subseteq outbox'
  BY DEF Next, Handle, SendPayment, WareServes, SendToOrder, ConsumerPayment, ConsumeWareDeduct,
         ConsumeDeliver, UpdateStatus, Return, Timeout, PassOn, Fail, UpdateLate, wareVars
<1> QED  BY <1>1 DEF Said

\* Verdicts and deliveries come on queues of their own.
LEMMA OccasionsStep ==
    ASSUME FInv, SaidInv, Next, NEW m \in Messages
    PROVE  /\ queue'["SKU_DEDECT_QUEUE"][m] > 0 => m.text \in {DeductedText, "OUT_OF_STOCK"}
           /\ queue'["SKU_DELIVER_QUEUE"][m] > 0 => m.text = DeliveredText
<1> USE Places DEF FInv
<1> DEFINE Own(q) == /\ q["SKU_DEDECT_QUEUE"][m] > 0 => m.text \in {DeductedText, "OUT_OF_STOCK"}
                     /\ q["SKU_DELIVER_QUEUE"][m] > 0 => m.text = DeliveredText
<1> TypeOK
    OBVIOUS
<1>1. Own(queue)
  BY DEF SaidInv
<1>2. ASSUME NEW o \in Orders, SendPayment(o) PROVE Own(queue')
  BY <1>1, <1>2 DEF SendPayment, TypeOK
<1>3. ASSUME NEW o \in Orders, WareServes(o) PROVE Own(queue')
  <2> DEFINE taken == [queue EXCEPT !["ORDER_RESULT_QUEUE"][Msg(o, "order")] = @ - 1]
  <2>1. /\ taken \in [QueueNames -> [Messages -> Nat]]
        /\ taken["SKU_DEDECT_QUEUE"] = queue["SKU_DEDECT_QUEUE"]
        /\ taken["SKU_DELIVER_QUEUE"] = queue["SKU_DELIVER_QUEUE"]
    BY <1>3, TakeType, Mess DEF WareServes, TypeOK
  <2>2. CASE queue' = taken
    BY <1>1, <2>1, <2>2
  <2>3. ASSUME NEW x \in {DeductedText, "OUT_OF_STOCK"},
               queue' = [taken EXCEPT ![DeductQueue][Msg(o, x)] = @ + 1]
        PROVE  Own(queue')
    <3> HIDE DEF taken
    <3>1. Msg(o, x) \in Messages /\ Msg(o, x).text = x  BY Mess
    <3>2. /\ m # Msg(o, x) => queue'["SKU_DEDECT_QUEUE"][m] = taken["SKU_DEDECT_QUEUE"][m]
          /\ queue'["SKU_DELIVER_QUEUE"] = taken["SKU_DELIVER_QUEUE"]
      BY <2>1, <2>3, <3>1
    <3> QED  BY <1>1, <2>1, <3>1, <3>2
  <2> QED  BY <1>3, <2>2, <2>3 DEF WareServes
<1>4. ASSUME NEW o \in Orders, SendToOrder(o) PROVE Own(queue')
  <2>1. Msg(o, DeliveredText) \in Messages /\ Msg(o, DeliveredText).text = DeliveredText  BY Mess
  <2>2. /\ m # Msg(o, DeliveredText)
              => queue'["SKU_DELIVER_QUEUE"][m] = queue["SKU_DELIVER_QUEUE"][m]
        /\ queue'["SKU_DEDECT_QUEUE"] = queue["SKU_DEDECT_QUEUE"]
    BY <1>4, <2>1 DEF SendToOrder, TypeOK
  <2> QED  BY <1>1, <2>1, <2>2
<1>5. ASSUME NEW q \in QueueNames, NEW n \in Messages, Dequeue(q, n) PROVE Own(queue')
  BY <1>1, <1>5 DEF Dequeue, TypeOK
<1>6. ASSUME NEW t \in Threads, PassOn(t) PROVE Own(queue')
  BY <1>1, <1>6 DEF PassOn, TypeOK
<1>7. CASE UNCHANGED queue
  BY <1>1, <1>7
<1>8. \/ UNCHANGED queue
      \/ \E o \in Orders : SendPayment(o) \/ WareServes(o) \/ SendToOrder(o)
      \/ \E q \in QueueNames, n \in Messages : Dequeue(q, n)
      \/ \E t \in Threads : PassOn(t)
  BY DEF Next, Handle, ConsumerPayment, ConsumeWareDeduct, ConsumeDeliver, UpdateStatus, Return,
         Timeout, Fail, UpdateLate
<1> QED  BY <1>2, <1>3, <1>4, <1>5, <1>6, <1>7, <1>8

\* A thread writes what it was told to.
LEMMA CallsStep ==
    ASSUME FInv, SaidInv, Next, NEW t \in Threads, pc'[t] \in Calling
    PROVE  Said(order[t], status[t])'
<1> USE Places DEF FInv
<1> TypeOK /\ ThreadInv
    OBVIOUS
<1>1. CASE pc[t] \in Calling /\ order'[t] = order[t] /\ status'[t] = status[t]
  BY <1>1, SaidForGood DEF SaidInv
<1>2. CASE status'[t] \in {"PAID", "NOTIFIED_WARE"}
  BY <1>2 DEF Said, Answers
<1>3. ASSUME NEW m \in Messages, ConsumeWareDeduct(t, m) PROVE Said(order[t], status[t])'
  <2>1. m \in outbox /\ m.text \in {DeductedText, "OUT_OF_STOCK"} /\ UNCHANGED outbox
    BY <1>3 DEF ConsumeWareDeduct, Dequeue, WareInv, SaidInv, wareVars
  <2>2. order'[t] = m.orderId /\ status'[t] = Understood(m)
    BY <1>3 DEF ConsumeWareDeduct, Invoke, TypeOK
  <2>3. m = Msg(m.orderId, m.text)  BY DEF Messages, Msg
  <2>4. m.text \in Words[Understood(m)]  BY <2>1 DEF Words, Understood
  <2> QED  BY <2>1, <2>2, <2>3, <2>4 DEF Said
<1>4. ASSUME NEW m \in Messages, ConsumeDeliver(t, m), pc[t] \notin Calling
      PROVE  Said(order[t], status[t])'
  <2>1. m \in outbox /\ m.text = DeliveredText /\ m.text = "DELIEVERED" /\ UNCHANGED outbox
    BY <1>4 DEF ConsumeDeliver, Dequeue, WareInv, SaidInv, wareVars, threadVars, Calling
  <2>2. order'[t] = m.orderId /\ status'[t] = "DELEVERED"
    BY <1>4 DEF ConsumeDeliver, Invoke, TypeOK, threadVars, Calling
  <2>3. m = Msg(m.orderId, m.text)  BY DEF Messages, Msg
  <2>4. m.text \in Words["DELEVERED"]  BY <2>1 DEF Words
  <2> QED  BY <2>1, <2>2, <2>3, <2>4 DEF Said
<1>5. \/ pc[t] \in Calling /\ order'[t] = order[t] /\ status'[t] = status[t]
      \/ status'[t] \in {"PAID", "NOTIFIED_WARE"}
      \/ \E m \in Messages : ConsumeWareDeduct(t, m)
      \/ \E m \in Messages : ConsumeDeliver(t, m) /\ pc[t] \notin Calling
  <2>1. CASE UNCHANGED <<pc, order, status>>
    BY <2>1
  <2>2. ASSUME NEW u \in Threads, NEW m \in Messages,
               \/ ConsumerPayment(u, m) \/ ConsumeWareDeduct(u, m) \/ ConsumeDeliver(u, m)
        PROVE  \/ u = t
               \/ UNCHANGED <<pc[t], order[t], status[t]>>
    BY <2>2 DEF ConsumerPayment, ConsumeWareDeduct, ConsumeDeliver, Begin, Invoke, TypeOK, threadVars
  <2>3. ASSUME NEW m \in Messages, ConsumerPayment(t, m) PROVE status'[t] = "PAID"
    BY <2>3 DEF ConsumerPayment, Begin, Invoke, TypeOK
  <2>4. ASSUME NEW m \in Messages, ConsumeDeliver(t, m) PROVE pc[t] \notin Calling
    BY <2>4 DEF ConsumeDeliver, Calling
  <2>5. ASSUME NEW u \in Threads, Return(u) \/ PassOn(u)
        PROVE  \/ UNCHANGED <<pc[t], order[t], status[t]>>
               \/ status'[t] = "NOTIFIED_WARE"
    BY <2>5, Onward DEF Return, PassOn, Advance, Invoke, TypeOK, Calling
  <2>6. ASSUME NEW u \in Threads, Timeout(u) \/ Fail(u)
        PROVE  UNCHANGED <<pc[t], order[t], status[t]>>
    BY <2>6 DEF Timeout, Fail, Leave, Invoke, TypeOK, Calling
  <2>7. \/ UNCHANGED <<pc, order, status>>
        \/ \E u \in Threads, m \in Messages :
              ConsumerPayment(u, m) \/ ConsumeWareDeduct(u, m) \/ ConsumeDeliver(u, m)
        \/ \E u \in Threads : Return(u) \/ PassOn(u) \/ Timeout(u) \/ Fail(u)
    BY DEF Next, Handle, SendPayment, WareServes, SendToOrder, UpdateStatus, UpdateLate, threadVars
  <2> QED  BY <2>1, <2>2, <2>3, <2>4, <2>5, <2>6, <2>7
<1> QED  BY <1>1, <1>2, <1>3, <1>4, <1>5

\* A write becomes late when its caller gives up on it.
LEMMA LateFrom ==
    ASSUME FInv, Next, NEW w \in Writes, late'[w] > 0, ~(late[w] > 0)
    PROVE  \E t \in Threads : /\ pc[t] \in Calling /\ ~done[t]
                             /\ w.orderId = order[t] /\ w.status = status[t]
<1> TypeOK /\ ThreadInv  BY DEF FInv
<1>1. \/ UNCHANGED late
      \/ \E t \in Threads : pc[t] \in Calling /\ Abandon(t)
      \/ \E v \in Writes : UpdateLate(v)
  BY DEF Next, Handle, SendPayment, WareServes, SendToOrder, ConsumerPayment,
         ConsumeWareDeduct, ConsumeDeliver, UpdateStatus, Return, PassOn, Timeout, Fail
<1>2. \A v \in Writes : UpdateLate(v) => late'[w] <= late[w]
  BY DEF UpdateLate, TypeOK
<1>3. late[w] \in Nat /\ late'[w] \in Nat  BY TypeStep DEF TypeOK
<1>4. PICK t \in Threads : pc[t] \in Calling /\ Abandon(t)  BY <1>1, <1>2, <1>3
<1> QED  BY <1>4, AbandonLate

\* All writes, past and under way, repeat what the warehouse said.
LEMMA SaidStep == FInv /\ SaidInv /\ [Next]_vars => SaidInv'
<1> SUFFICES ASSUME FInv, SaidInv, Next PROVE SaidInv'
  <2>1. SaidInv /\ UNCHANGED vars => SaidInv'
    BY DEF SaidInv, Said, vars, threadVars, wareVars
  <2> QED  BY <2>1
<1> TypeOK /\ ThreadInv  BY DEF FInv
<1>1. ASSUME NEW o \in Orders PROVE Said(o, process[o])'
  <2>1. CASE process'[o] = process[o]
    BY <2>1, SaidForGood DEF SaidInv
  <2>2. ASSUME NEW t \in Threads, UpdateStatus(t), order[t] = o, process'[o] = status[t]
        PROVE  Said(o, process[o])'
    BY <2>2, SaidForGood DEF SaidInv, UpdateStatus
  <2>3. ASSUME NEW w \in Writes, UpdateLate(w), w.orderId = o, process'[o] = w.status
        PROVE  Said(o, process[o])'
    BY <2>3, SaidForGood DEF SaidInv, UpdateLate
  <2> QED  BY <2>1, <2>2, <2>3, Writers
<1>2. ASSUME NEW w \in Writes, late'[w] > 0 PROVE Said(w.orderId, w.status)'
  <2>1. CASE late[w] > 0
    BY <2>1, SaidForGood DEF SaidInv
  <2>2. CASE ~(late[w] > 0)
    <3>1. PICK t \in Threads : pc[t] \in Calling /\ w.orderId = order[t] /\ w.status = status[t]
      BY <1>2, <2>2, LateFrom
    <3> QED  BY <3>1, SaidForGood DEF SaidInv
  <2> QED  BY <2>1, <2>2
<1>3. \A t \in Threads : pc'[t] \in Calling => Said(order[t], status[t])'
  BY CallsStep
<1> QED  BY <1>1, <1>2, <1>3, OccasionsStep DEF SaidInv

-----------------------------------------------------------------------------
\* The order flow implements the life of an order.

\* NOTIFIED_WARE is not written, even late, before PAID has been.
NoteInv == \A o \in Orders : process[o] = "UNPAID" => Late(o, "NOTIFIED_WARE") = 0

LEMMA NoteStep == FInv /\ NoteInv /\ [Next]_vars => NoteInv'
<1>1. CASE UNCHANGED vars
  BY <1>1 DEF NoteInv, Late, vars
<1> SUFFICES ASSUME FInv, NoteInv, Next, NEW o \in Orders, process'[o] = "UNPAID"
             PROVE  Late(o, "NOTIFIED_WARE")' = 0
  BY <1>1 DEF NoteInv
<1> TypeOK /\ ThreadInv  BY DEF FInv
<1> DEFINE w == [orderId |-> o, status |-> "NOTIFIED_WARE"]
<1>2. w \in Writes /\ w.orderId = o /\ w.status = "NOTIFIED_WARE"  BY Write DEF Written
<1>3. process[o] = "UNPAID"
  <2>1. \A t \in Threads : UpdateStatus(t) => status[t] # "UNPAID"
    BY DEF UpdateStatus, ThreadInv, Calling, Answers
  <2>2. \A v \in Writes : v.status # "UNPAID"  BY DEF Writes, Written
  <2> QED  BY <2>1, <2>2, Writers
<1>4. late[w] = 0  BY <1>3 DEF NoteInv, Late
<1>5. ~(late'[w] > 0)
  <2>1. ASSUME NEW t \in Threads, pc[t] \in Calling, order[t] = o, status[t] = "NOTIFIED_WARE"
        PROVE  FALSE
    <3>1. pc[t] = "notified"  BY <2>1 DEF ThreadInv, Calling, Answers
    <3> QED  BY <1>3, <2>1, <3>1 DEF FInv, PaidInv
  <2> QED  BY <1>2, <1>4, <2>1, LateFrom
<1>6. late'[w] \in Nat  BY <1>2, TypeStep DEF TypeOK
<1> QED  BY <1>5, <1>6 DEF Late

\* A status under way, in a call or late, may be noted now.
LEMMA MayNote ==
    ASSUME FInv, SaidInv, NoteInv, NEW o \in Orders, NEW s \in Written,
           \/ \E t \in Threads : pc[t] \in Calling /\ order[t] = o /\ status[t] = s
           \/ late[[orderId |-> o, status |-> s]] > 0
    PROVE  /\ announced[o] > 0
           /\ s # "PAID" => process[o] # "UNPAID"
           /\ s \in Answers => [orderId |-> o, status |-> s] \in Heard
<1> TypeOK /\ ThreadInv  BY DEF FInv
<1> DEFINE w == [orderId |-> o, status |-> s]
<1>1. w \in Writes /\ w.orderId = o /\ w.status = s  BY Write
<1>2. announced[o] > 0
  <2>1. announced[o] # 0  BY <1>1, Untouched DEF Calling
  <2> QED  BY <2>1 DEF TypeOK
<1>3. ASSUME NEW t \in Threads, pc[t] \in Calling, order[t] = o, status[t] = s, s # "PAID"
      PROVE  process[o] # "UNPAID"
  <2>1. pc[t] \in {"notified", "answer"}  BY <1>3 DEF ThreadInv, Calling
  <2> QED  BY <1>3, <2>1 DEF FInv, PaidInv, WareInv
<1>4. ASSUME late[w] > 0, s # "PAID" PROVE process[o] # "UNPAID"
  <2>1. s = "NOTIFIED_WARE" \/ s \in Answers  BY <1>4 DEF Written, Answers
  <2> QED  BY <1>4, <2>1 DEF FInv, PaidInv, WareInv, NoteInv, Late
<1>5. Said(o, s)  BY <1>1 DEF SaidInv
<1>6. s \in Answers => w \in Heard
  BY <1>1, <1>5 DEF Said, Words, Answers, Heard
<1> QED  BY <1>2, <1>3, <1>4, <1>6

\* A thread that passes an order on holds an announcement that was not yet.
LEMMA MayPassOn ==
    ASSUME FInv, NEW t \in Threads, PassOn(t)
    PROVE  /\ order[t] \in Orders /\ process[order[t]] # "UNPAID"
           /\ passedOn[order[t]] < announced[order[t]]
<1> DEFINE o == order[t]
<1> TypeOK /\ ThreadInv  BY DEF FInv
<1>1. o \in Orders /\ t \in Busy(o)  BY DEF PassOn, ThreadInv, Busy
<1>2. process[o] # "UNPAID"  BY <1>1 DEF PassOn, FInv, PaidInv
<1>3. Cardinality(Busy(o)) \in Nat /\ Cardinality(Busy(o)) >= 1
  BY <1>1, BusyOne, BusyFinite
<1>4. queue["PAYMENT_TO_ORDER"][Msg(o, "success")] \in Nat /\ passedOn[o] \in Nat /\ announced[o] \in Nat
  BY <1>1, Places, Mess DEF TypeOK
<1>5. Pending(o) <= announced[o]  BY <1>1 DEF FInv, CountInv
<1> QED  BY <1>1, <1>2, <1>3, <1>4, <1>5 DEF Pending

\* What a new answer of the warehouse means to the order service.
LEMMA HeardMore ==
    ASSUME NEW o \in Orders, NEW x \in {DeductedText, "OUT_OF_STOCK", DeliveredText},
           outbox' = outbox \cup {Msg(o, x)}
    PROVE  /\ x = DeliveredText => Life!Hear(o, "DELEVERED") \/ UNCHANGED Heard
           /\ x # DeliveredText => \E s \in Life!Verdicts : Life!Hear(o, s)
<1> DEFINE Means(s) == [orderId |-> o, status |-> s]
<1>1. \A p, y : Msg(p, y) = Msg(o, x) <=> p = o /\ y = x  BY DEF Msg
<1>2. ASSUME NEW w \in Writes, w.status \in DOMAIN Words
      PROVE  w \in Heard' <=> w \in Heard \/ (w.orderId = o /\ x \in Words[w.status])
  BY <1>1, <1>2 DEF Heard, Words
<1>3. \A w \in Writes : w.orderId = o => w = Means(w.status)  BY DEF Writes
<1>4. DOMAIN Words = Answers /\ \A s \in Answers : Means(s) \in Writes
  BY Write DEF Words, Answers, Written
<1>5. \A w \in Heard \cup Heard' : w \in Writes /\ w.status \in Answers
  BY <1>4 DEF Heard
<1>6. ASSUME NEW s \in Answers, \A r \in Answers : x \in Words[r] <=> r = s
      PROVE  Life!Hear(o, s)
  <2>1. ASSUME NEW w \in Writes, w.status \in Answers
        PROVE  w \in Heard' <=> w \in Heard \/ w = Means(s)
    <3>1. w \in Heard' <=> w \in Heard \/ (w.orderId = o /\ x \in Words[w.status])
      BY <1>2, <1>4, <2>1
    <3>2. x \in Words[w.status] <=> w.status = s  BY <1>6, <2>1
    <3>3. w.orderId = o /\ w.status = s <=> w = Means(s)  BY <1>3
    <3> QED  BY <3>1, <3>2, <3>3
  <2>2. Means(s) \in Writes /\ Means(s).status \in Answers  BY <1>4
  <2> HIDE DEF Means
  <2>3. Heard' = Heard \cup {Means(s)}
    BY <1>5, <2>1, <2>2
  <2> USE DEF Means
  <2> QED  BY <2>3 DEF Life!Hear
<1>7. ASSUME \A r \in Answers : x \notin Words[r] PROVE UNCHANGED Heard
  <2>1. ASSUME NEW w \in Writes, w.status \in Answers PROVE w \in Heard' <=> w \in Heard
    BY <1>2, <1>4, <1>7, <2>1
  <2> QED  BY <1>5, <2>1
<1>a. /\ x \in Words["WAITING_DELEVER"] <=> x \in {DeductedText, "OUT_OF_STOCK"} /\ x = "DEDECT"
      /\ x \in Words["STOCK_EXCEPTION"] <=> x \in {DeductedText, "OUT_OF_STOCK"} /\ x # "DEDECT"
      /\ x \in Words["DELEVERED"] <=> x = DeliveredText /\ x = "DELIEVERED"
  BY DEF Words
<1>8. CASE x = DeliveredText
  <2>1. \A r \in Answers : x \in Words[r] <=> r = "DELEVERED" /\ x = "DELIEVERED"
    BY <1>8, <1>a DEF Answers
  <2> QED  BY <1>6, <1>7, <1>8, <2>1 DEF Answers
<1>9. CASE x # DeliveredText
  <2> DEFINE s == IF x = "DEDECT" THEN "WAITING_DELEVER" ELSE "STOCK_EXCEPTION"
  <2>1. \A r \in Answers : x \in Words[r] <=> r = s
    BY <1>9, <1>a DEF Answers
  <2>2. s \in Life!Verdicts /\ s \in Answers  BY DEF Life!Verdicts, Answers
  <2> QED  BY <1>6, <1>9, <2>1, <2>2
<1> QED  BY <1>8, <1>9

\* Every step is one of the life of an order, or none.
LEMMA LifeStep ==
    ASSUME FInv, SaidInv, NoteInv, [Next]_vars
    PROVE  [Life!Next]_(Life!lifeVars)
<1> TypeOK /\ ThreadInv  BY DEF FInv
<1>1. ASSUME NEW o \in Orders, SendPayment(o) PROVE Life!Announce(o)
  BY <1>1 DEF SendPayment, Life!Announce, wareVars, Heard
<1>2. ASSUME NEW o \in Orders, WareServes(o) PROVE Life!Serve(o)
  <2>1. passedOn[o] > 0
    BY <1>2 DEF WareServes, FInv, WareInv, TypeOK
  <2>2. (\E s \in Life!Verdicts : Life!Hear(o, s)) \/ UNCHANGED Heard
    BY <1>2, HeardMore DEF WareServes, Heard
  <2> QED  BY <1>2, <2>1, <2>2 DEF WareServes, Life!Serve, historyVars
<1>3. ASSUME NEW o \in Orders, SendToOrder(o) PROVE Life!Deliver(o)
  <2>1. Life!Hear(o, "DELEVERED") \/ UNCHANGED Heard
    BY <1>3, HeardMore DEF SendToOrder
  <2> QED  BY <1>3, <2>1 DEF SendToOrder, Life!Deliver, historyVars
<1>4. ASSUME NEW t \in Threads, UpdateStatus(t)
      PROVE  \E o \in Orders, s \in Written : Life!Note(o, s)
  <2>1. order[t] \in Orders /\ status[t] \in Written /\ pc[t] \in Calling
    BY <1>4 DEF UpdateStatus, ThreadInv, Calling, Answers, Written
  <2>2. Life!Note(order[t], status[t])
    BY <1>4, <2>1, MayNote
       DEF UpdateStatus, Updated, Life!Note, Life!Answers, Life!Verdicts, Answers, Heard,
           wareVars, historyVars
  <2> QED  BY <2>1, <2>2
<1>5. ASSUME NEW w \in Writes, UpdateLate(w)
      PROVE  \E o \in Orders, s \in Written : Life!Note(o, s)
  <2>1. w.orderId \in Orders /\ w.status \in Written
        /\ w = [orderId |-> w.orderId, status |-> w.status]
    BY DEF Writes
  <2>2. late[[orderId |-> w.orderId, status |-> w.status]] > 0  BY <1>5, <2>1 DEF UpdateLate
  <2>3. Life!Note(w.orderId, w.status)
    BY <1>5, <2>1, <2>2, MayNote
       DEF UpdateLate, Updated, Life!Note, Life!Answers, Life!Verdicts, Answers, Heard,
           wareVars, historyVars
  <2> QED  BY <2>1, <2>3
<1>6. ASSUME NEW t \in Threads, PassOn(t) PROVE \E o \in Orders : Life!PassOn(o)
  <2>1. Life!PassOn(order[t])
    BY <1>6, MayPassOn DEF PassOn, Life!PassOn, Heard, wareVars
  <2> QED  BY <1>6, <2>1, MayPassOn
<1>7. \/ UNCHANGED Life!lifeVars
      \/ \E o \in Orders : SendPayment(o) \/ WareServes(o) \/ SendToOrder(o)
      \/ \E t \in Threads : UpdateStatus(t) \/ PassOn(t)
      \/ \E w \in Writes : UpdateLate(w)
  BY DEF Next, Handle, ConsumerPayment, ConsumeWareDeduct, ConsumeDeliver, Return, Timeout, Fail,
         vars, wareVars, historyVars, Life!lifeVars, Heard
<1>8. Written = {"PAID", "NOTIFIED_WARE"} \cup Life!Answers
  BY DEF Written, Life!Answers, Life!Verdicts
<1> QED  BY <1>1, <1>2, <1>3, <1>4, <1>5, <1>6, <1>7, <1>8 DEF Life!Next

\* Whatever the warehouse calls its queue and its answers, and whether or not
\* it is told the order: queues, threads, repeated calls, late writes and
\* failures do to an order only what its life between payment and delivery
\* allows; what is noted as the warehouse's answer, it has sent.
THEOREM OrdersFollowLife == Spec => FollowsLife
<1>1. Init => SaidInv /\ NoteInv /\ Life!Init
  <2>1. Init => SaidInv
    BY Places DEF Init, SaidInv, Said, Calling, Answers
  <2>2. Init => NoteInv
    BY Write DEF Init, NoteInv, Late, Written
  <2>3. Init => Life!Init
    BY DEF Init, Life!Init, Heard
  <2> QED  BY <2>1, <2>2, <2>3
<1>2. FInv /\ SaidInv /\ [Next]_vars => SaidInv'
  BY SaidStep
<1>3. FInv /\ NoteInv /\ [Next]_vars => NoteInv'
  BY NoteStep
<1>4. FInv /\ SaidInv /\ NoteInv /\ [Next]_vars => [Life!Next]_(Life!lifeVars)
  BY LifeStep
<1> QED  BY <1>1, <1>2, <1>3, <1>4, FInvAlways, PTL DEF Spec, FollowsLife, Life!Spec
=============================================================================
