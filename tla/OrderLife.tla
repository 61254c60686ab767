------------------------------ MODULE OrderLife ------------------------------
(***************************************************************************)
(* The life of an order between payment and delivery, as payment, order    *)
(* service and warehouse promise it to each other: nothing is noted of an  *)
(* order whose payment was not announced, only a payment on record is      *)
(* passed on, one announcement once, the warehouse acts and speaks only of *)
(* orders passed on to it, and the order service notes as its answer only  *)
(* what it has understood of this very order.  There are no queues,        *)
(* threads, calls or failures here: every step is one change of one order. *)
(* OrderFlow is checked and proved to implement this, whatever words the   *)
(* warehouse uses.                                                         *)
(***************************************************************************)
EXTENDS Naturals

CONSTANT Orders \* orders on record

VARIABLES
    process,   \* the status of an order
    announced, \* announcements of its payment
    passedOn,  \* of which so many were passed on to the warehouse
    tasks,     \* orders the warehouse has a task for
    heard      \* the statuses that the warehouse's answers mean, by order

lifeVars == <<process, announced, passedOn, tasks, heard>>

Verdicts == {"WAITING_DELEVER", "STOCK_EXCEPTION"}
Answers  == Verdicts \cup {"DELEVERED"}
Hear(o, s) == heard' = heard \cup {[orderId |-> o, status |-> s]}
-----------------------------------------------------------------------------
Init ==
    /\ process = [o \in Orders |-> "UNPAID"]
    /\ announced = [o \in Orders |-> 0] /\ passedOn = [o \in Orders |-> 0]
    /\ tasks = {} /\ heard = {}

Announce(o) ==
    /\ announced' = [announced EXCEPT ![o] = @ + 1]
    /\ UNCHANGED <<process, passedOn, tasks, heard>>

\* PAID is the first status an order gets, and an answer of the warehouse is
\* noted when it has been given; else notes come in any order, and again.
Note(o, s) ==
    /\ announced[o] > 0
    /\ s # "PAID" => process[o] # "UNPAID"
    /\ s \in Answers => [orderId |-> o, status |-> s] \in heard
    /\ process' = [process EXCEPT ![o] = s]
    /\ UNCHANGED <<announced, passedOn, tasks, heard>>

PassOn(o) ==
    /\ process[o] # "UNPAID" /\ passedOn[o] < announced[o]
    /\ passedOn' = [passedOn EXCEPT ![o] = @ + 1]
    /\ UNCHANGED <<process, announced, tasks, heard>>

\* The warehouse has a task, and gives its verdict or breaks off.
Serve(o) ==
    /\ passedOn[o] > 0
    /\ tasks' = tasks \cup {o}
    /\ (\E s \in Verdicts : Hear(o, s)) \/ UNCHANGED heard
    /\ UNCHANGED <<process, announced, passedOn>>

\* It delivers; the order service may not know the word it uses for that.
Deliver(o) ==
    /\ o \in tasks
    /\ Hear(o, "DELEVERED") \/ UNCHANGED heard
    /\ UNCHANGED <<process, announced, passedOn, tasks>>

Next ==
    \E o \in Orders :
        \/ Announce(o) \/ PassOn(o) \/ Serve(o) \/ Deliver(o)
        \/ \E s \in {"PAID", "NOTIFIED_WARE"} \cup Answers : Note(o, s)

Spec == Init /\ [][Next]_lifeVars
=============================================================================
