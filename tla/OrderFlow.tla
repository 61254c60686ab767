------------------------------ MODULE OrderFlow ------------------------------
(***************************************************************************)
(* The way of a paid order through the queues: the payment's success is    *)
(* announced on PAYMENT_TO_ORDER, the order service (OrderConsumer) notes  *)
(* it and passes the order on to the warehouse, and the warehouse answers  *)
(* on two queues of its own, which the order service reads as well.        *)
(*                                                                         *)
(*  - The listeners acknowledge automatically, on receipt: a message is    *)
(*    handled at most once, and lost when its handler fails.               *)
(*  - Every queue has several listener threads, so that two messages of    *)
(*    one queue may be handled in any order.                               *)
(*  - updateStatus is a Dubbo call that writes the status whatever status  *)
(*    there is.  A call that is not answered in time is made again, and    *)
(*    its first execution may write later, even after other calls.         *)
(*                                                                         *)
(* Queues and texts are the strings the order service uses.  What strings  *)
(* the warehouse uses for its answers is given by constants, and so is     *)
(* whether the message to the warehouse names the order.  It does not in   *)
(* the code as it stands, which sends an empty map: then the warehouse can *)
(* answer nothing about the order, and the message is not kept here.       *)
(***************************************************************************)
EXTENDS Naturals, FiniteSets, FiniteSetsExt

CONSTANTS
    Orders,         \* orders on record, unpaid at the start
    PayThreads,     \* listener threads of PAYMENT_TO_ORDER
    DeductThreads,  \* listener threads of SKU_DEDECT_QUEUE
    DeliverThreads, \* listener threads of SKU_DELIVER_QUEUE
    DeductQueue,    \* where the warehouse sends its verdict
    DeductedText,   \* the warehouse's word for "goods locked"
    DeliveredText,  \* and for "delivered"
    NamesOrder,     \* the message to the warehouse holds the order
    Retries,        \* times Dubbo repeats a call (a bound)
    MaxPays,        \* announcements of payments in all (a bound)
    MaxDeliveries,  \* deliveries in all (a bound)
    MaxFailures,    \* handlers that fail (a bound)
    NoOrder, NoStatus

Threads    == PayThreads \cup DeductThreads \cup DeliverThreads
Texts      == {"success", "order", DeductedText, "OUT_OF_STOCK", DeliveredText}
Messages   == [orderId : Orders, text : Texts]
Msg(o, x)  == [orderId |-> o, text |-> x]
QueueNames == {"PAYMENT_TO_ORDER", "ORDER_RESULT_QUEUE", "SKU_DEDECT_QUEUE",
               "SKU_DELIVER_QUEUE", DeductQueue}

\* The ProcessStatus values that this part of the system writes.
Written       == {"PAID", "NOTIFIED_WARE", "WAITING_DELEVER", "STOCK_EXCEPTION", "DELEVERED"}
ProcessStatus == Written \cup {"UNPAID"}
Writes        == [orderId : Orders, status : Written]

ASSUME OrderFlowAssumption ==
    /\ IsFiniteSet(PayThreads)
    /\ PayThreads \cap (DeductThreads \cup DeliverThreads) = {}
    /\ DeductThreads \cap DeliverThreads = {}
    /\ NoOrder \notin Orders /\ NoStatus \notin Written
    /\ DeductQueue \notin {"PAYMENT_TO_ORDER", "ORDER_RESULT_QUEUE", "SKU_DELIVER_QUEUE"}
    /\ DeliveredText \notin {DeductedText, "OUT_OF_STOCK"} /\ NamesOrder \in BOOLEAN
    /\ Retries \in Nat /\ MaxPays \in Nat /\ MaxDeliveries \in Nat /\ MaxFailures \in Nat

VARIABLES
    process,    \* processStatus of an order; its orderStatus goes with it
    queue,      \* messages waiting, by queue
    late,       \* executions of updateStatus whose callers have given up
    pc,         \* where a listener thread stands
    order,      \* the order of its message
    status,     \* the status its call of updateStatus writes
    done,       \* the call has been executed
    attempt,    \* times the call has been repeated
    tasks,      \* orders the warehouse has a task for
    outbox,     \* what the warehouse has ever sent
    announced,  \* announcements of an order's payment
    passedOn,   \* messages to the warehouse about an order
    delayed,    \* some call about the order was not answered in time
    deliveries, failures

threadVars  == <<pc, order, status, done, attempt>>
wareVars    == <<tasks, outbox, deliveries>>
historyVars == <<announced, passedOn, delayed>>
vars == <<process, queue, late, threadVars, wareVars, historyVars, failures>>

\* Waiting for updateStatus: PAID, NOTIFIED_WARE or what the warehouse said.
Calling == {"paid", "notified", "answer"}
-----------------------------------------------------------------------------
TypeOK ==
    /\ process \in [Orders -> ProcessStatus]
    /\ queue \in [QueueNames -> [Messages -> Nat]]
    /\ late \in [Writes -> Nat]
    /\ pc \in [Threads -> {"idle", "send"} \cup Calling]
    /\ order \in [Threads -> Orders \cup {NoOrder}]
    /\ status \in [Threads -> Written \cup {NoStatus}]
    /\ done \in [Threads -> BOOLEAN] /\ attempt \in [Threads -> 0 .. Retries]
    /\ tasks \subseteq Orders /\ outbox \subseteq Messages
    /\ announced \in [Orders -> Nat] /\ passedOn \in [Orders -> Nat]
    /\ delayed \in [Orders -> BOOLEAN]
    /\ deliveries \in Nat /\ failures \in Nat

Init ==
    /\ process = [o \in Orders |-> "UNPAID"]
    /\ queue = [q \in QueueNames |-> [m \in Messages |-> 0]]
    /\ late = [w \in Writes |-> 0]
    /\ pc = [t \in Threads |-> "idle"]
    /\ order = [t \in Threads |-> NoOrder]
    /\ status = [t \in Threads |-> NoStatus]
    /\ done = [t \in Threads |-> FALSE]
    /\ attempt = [t \in Threads |-> 0]
    /\ tasks = {} /\ outbox = {}
    /\ announced = [o \in Orders |-> 0] /\ passedOn = [o \in Orders |-> 0]
    /\ delayed = [o \in Orders |-> FALSE]
    /\ deliveries = 0 /\ failures = 0

-----------------------------------------------------------------------------
\* The payment module: /sendPayment?orderId= may be asked for any order, and
\* again; it always says "success".
SendPayment(o) ==
    /\ MapThenSumSet(LAMBDA p : announced[p], Orders) < MaxPays
    /\ announced' = [announced EXCEPT ![o] = @ + 1]
    /\ queue' = [queue EXCEPT !["PAYMENT_TO_ORDER"][Msg(o, "success")] = @ + 1]
    /\ UNCHANGED <<process, late, threadVars, wareVars, passedOn, delayed, failures>>

-----------------------------------------------------------------------------
\* The warehouse, as it looks from here.

\* It takes the message and answers, or fails to.
WareServes(o) ==
    LET m == Msg(o, "order")
        taken == [queue EXCEPT !["ORDER_RESULT_QUEUE"][m] = @ - 1]
    IN  /\ queue["ORDER_RESULT_QUEUE"][m] > 0
        /\ tasks' = tasks \cup {o}
        /\ \/ \E x \in {DeductedText, "OUT_OF_STOCK"} :
                 /\ queue' = [taken EXCEPT ![DeductQueue][Msg(o, x)] = @ + 1]
                 /\ outbox' = outbox \cup {Msg(o, x)}
                 /\ UNCHANGED failures
           \/ /\ failures < MaxFailures
              /\ failures' = failures + 1
              /\ queue' = taken
              /\ UNCHANGED outbox
        /\ UNCHANGED <<process, late, threadVars, historyVars, deliveries>>

\* A clerk delivers a task, whatever became of it, and as often as he likes.
SendToOrder(o) ==
    /\ o \in tasks /\ deliveries < MaxDeliveries
    /\ deliveries' = deliveries + 1
    /\ queue' = [queue EXCEPT !["SKU_DELIVER_QUEUE"][Msg(o, DeliveredText)] = @ + 1]
    /\ outbox' = outbox \cup {Msg(o, DeliveredText)}
    /\ UNCHANGED <<process, late, threadVars, tasks, historyVars, failures>>

-----------------------------------------------------------------------------
\* OrderConsumer: a thread takes a message, and calls updateStatus.

\* The message is gone from the queue before it is handled.
Dequeue_AfterHandling(q, m) == UNCHANGED queue
Dequeue(q, m) ==
    /\ queue[q][m] > 0
    /\ queue' = [queue EXCEPT ![q][m] = @ - 1]

\* The thread waits at next for the call that writes s.
Invoke(t, o, next, s) ==
    /\ pc' = [pc EXCEPT ![t] = next]
    /\ order' = [order EXCEPT ![t] = o]
    /\ status' = [status EXCEPT ![t] = s]
    /\ done' = [done EXCEPT ![t] = FALSE]
    /\ attempt' = [attempt EXCEPT ![t] = 0]

Leave(t) == Invoke(t, NoOrder, "idle", NoStatus)

\* consumerPayment waits until PAID is written before it goes on.
Begin_AtOnce(t, o) == Invoke(t, o, "send", NoStatus)
Begin(t, o) == Invoke(t, o, "paid", "PAID")
ConsumerPayment(t, m) ==
    /\ t \in PayThreads /\ pc[t] = "idle" /\ m.text = "success"
    /\ Dequeue("PAYMENT_TO_ORDER", m)
    /\ Begin(t, m.orderId)
    /\ UNCHANGED <<process, late, wareVars, historyVars, failures>>

\* Every word but DEDECT counts as a lack of goods.
Understood_AnyWord(m) == "WAITING_DELEVER"
Understood(m) == IF m.text = "DEDECT" THEN "WAITING_DELEVER" ELSE "STOCK_EXCEPTION"
ConsumeWareDeduct(t, m) ==
    /\ t \in DeductThreads /\ pc[t] = "idle"
    /\ Dequeue("SKU_DEDECT_QUEUE", m)
    /\ Invoke(t, m.orderId, "answer", Understood(m))
    /\ UNCHANGED <<process, late, wareVars, historyVars, failures>>

\* Every word but DELIEVERED is passed over.
ConsumeDeliver(t, m) ==
    /\ t \in DeliverThreads /\ pc[t] = "idle"
    /\ Dequeue("SKU_DELIVER_QUEUE", m)
    /\ IF m.text = "DELIEVERED"
       THEN Invoke(t, m.orderId, "answer", "DELEVERED")
       ELSE UNCHANGED threadVars
    /\ UNCHANGED <<process, late, wareVars, historyVars, failures>>

\* What a handler does next: sendOrderToWare notes NOTIFIED_WARE, then sends.
After_SendFirst ==
    [paid |-> "send", send |-> "notified", notified |-> "idle", answer |-> "idle"]
After_PaidOnly ==
    [paid |-> "idle", notified |-> "send", send |-> "idle", answer |-> "idle"]
After ==
    [paid |-> "notified", notified |-> "send", send |-> "idle", answer |-> "idle"]
Advance(t) ==
    LET next == After[pc[t]]
    IN  Invoke(t, IF next = "idle" THEN NoOrder ELSE order[t], next,
               IF next = "notified" THEN "NOTIFIED_WARE" ELSE NoStatus)

\* The call has come back.
Return(t) ==
    /\ pc[t] \in Calling /\ done[t]
    /\ Advance(t)
    /\ UNCHANGED <<process, queue, late, wareVars, historyVars, failures>>

PassOn(t) ==
    /\ pc[t] = "send"
    /\ IF NamesOrder
       THEN queue' = [queue EXCEPT !["ORDER_RESULT_QUEUE"][Msg(order[t], "order")] = @ + 1]
       ELSE UNCHANGED queue
    /\ passedOn' = [passedOn EXCEPT ![order[t]] = @ + 1]
    /\ Advance(t)
    /\ UNCHANGED <<process, late, wareVars, announced, delayed, failures>>

-----------------------------------------------------------------------------
\* OrderServiceImpl.updateStatus, behind Dubbo.

\* The row is written whatever it holds.
Updated(o, s) == [process EXCEPT ![o] = s]

UpdateStatus(t) ==
    /\ pc[t] \in Calling /\ ~done[t]
    /\ process' = Updated(order[t], status[t])
    /\ done' = [done EXCEPT ![t] = TRUE]
    /\ UNCHANGED <<queue, late, pc, order, status, attempt, wareVars, historyVars, failures>>

\* An execution nobody waits for: of a call under way when its caller gave up.
Abandon(t) ==
    late' = IF done[t] THEN late
            ELSE [late EXCEPT ![[orderId |-> order[t], status |-> status[t]]] = @ + 1]
UpdateLate(w) ==
    /\ late[w] > 0
    /\ late' = [late EXCEPT ![w] = @ - 1]
    /\ process' = Updated(w.orderId, w.status)
    /\ UNCHANGED <<queue, threadVars, wareVars, historyVars, failures>>

MayRetry_OneMore(t) == attempt[t] <= Retries
MayRetry(t) == attempt[t] < Retries
Timeout(t) ==
    /\ pc[t] \in Calling
    /\ Abandon(t)
    /\ delayed' = [delayed EXCEPT ![order[t]] = TRUE]
    /\ \/ /\ MayRetry(t)
          /\ attempt' = [attempt EXCEPT ![t] = @ + 1]
          /\ done' = [done EXCEPT ![t] = FALSE]
          /\ UNCHANGED <<pc, order, status, failures>>
       \/ /\ ~MayRetry(t) /\ failures < MaxFailures
          /\ failures' = failures + 1
          /\ Leave(t)
    /\ UNCHANGED <<process, queue, wareVars, announced, passedOn>>

\* A thread dies, or an exception ends its work; a JMSException in
\* sendOrderToWare is printed and has the same effect.
Fail(t) ==
    /\ pc[t] # "idle" /\ failures < MaxFailures
    /\ failures' = failures + 1
    /\ UNCHANGED late \/ (pc[t] \in Calling /\ Abandon(t))
    /\ Leave(t)
    /\ UNCHANGED <<process, queue, wareVars, historyVars>>

-----------------------------------------------------------------------------
Handle(t) ==
    \/ \E m \in Messages : \/ ConsumerPayment(t, m)
                           \/ ConsumeWareDeduct(t, m)
                           \/ ConsumeDeliver(t, m)
    \/ UpdateStatus(t) \/ Return(t) \/ Timeout(t) \/ PassOn(t)

Next ==
    \/ \E o \in Orders : SendPayment(o) \/ WareServes(o) \/ SendToOrder(o)
    \/ \E t \in Threads : Handle(t) \/ Fail(t)
    \/ \E w \in Writes : UpdateLate(w)

\* The listener containers read their queues in a loop, and Dubbo's timer rings.
Spec == Init /\ [][Next]_vars /\ \A t \in Threads : WF_vars(Handle(t))

-----------------------------------------------------------------------------
\* Properties.

\* The warehouse hears only of orders that are no longer recorded as unpaid,
\* and they never are again, though calls are repeated and land late.
NothingShipsUnpaid ==
    \A o \in Orders : process[o] = "UNPAID" => passedOn[o] = 0 /\ o \notin tasks

\* One announcement of a payment sends at most one message to the warehouse:
\* whatever fails or is repeated in between, goods are not locked again.
PassedOnOncePerPayment == \A o \in Orders : passedOn[o] <= announced[o]

\* How far an order has come.
Stage(s) == CASE s = "UNPAID" -> 0 [] s = "PAID" -> 1 [] s = "NOTIFIED_WARE" -> 2
              [] OTHER -> 3

\* As long as its payment is announced once and no call about it times out, an
\* order's status never steps back: the warehouse's answer cannot be overtaken
\* by the notes made before it was asked, for sendOrderToWare sends last.
NeverStepsBack ==
    [][\A o \in Orders :
          announced'[o] <= 1 /\ ~delayed'[o] => Stage(process[o]) <= Stage(process'[o])]_vars

\* However calls time out and are repeated, the handling of a payment comes to
\* its end unless a handler fails: every announcement leads to a message to the
\* warehouse of its own, also two that two threads handle at once.  This says
\* nothing of what the message holds (NamesOrder).
NoticesAreSent ==
    \A o \in Orders, n \in 1 .. MaxPays :
        announced[o] >= n ~> (passedOn[o] >= n \/ failures > 0)

\* The order service takes note of what the warehouse answers.
AnswerIsRecorded ==
    \A o \in Orders :
        (\E m \in outbox : m.orderId = o) ~> Stage(process[o]) = 3

\* What of the warehouse's answers makes the order service note a status.
Words == [WAITING_DELEVER |-> {DeductedText, "OUT_OF_STOCK"} \cap {"DEDECT"},
          STOCK_EXCEPTION |-> {DeductedText, "OUT_OF_STOCK"} \ {"DEDECT"},
          DELEVERED       |-> {DeliveredText} \cap {"DELIEVERED"}]
Heard == {w \in Writes : w.status \in DOMAIN Words
                         /\ \E x \in Words[w.status] : Msg(w.orderId, x) \in outbox}

\* Queues, threads, repeated calls and late writes together do to an order
\* only what its life allows: PAID is its first status, nothing unpaid is
\* passed on and no announcement twice, and a status that stands for an answer
\* of the warehouse is noted only if the warehouse has sent, about this very
\* order and on the right occasion, a word that means it.
Life == INSTANCE OrderLife WITH heard <- Heard
FollowsLife == Life!Spec
=============================================================================
