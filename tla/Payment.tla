------------------------------- MODULE Payment -------------------------------
(***************************************************************************)
(* The payment module (src/gmall_payment) and Alipay: submit records a     *)
(* payment and sends the customer to Alipay, the customer pays, Alipay     *)
(* calls notify until it is answered "success".                            *)
(*                                                                         *)
(*  - submit saves a row without the number under which Alipay knows the   *)
(*    trade; notify looks the row up by that number.                       *)
(*  - notify writes back the row it has read; the update it has built is   *)
(*    not used.                                                            *)
(*  - notify has no @ResponseBody: "success" and "fail" are names of views *)
(*    that do not exist, so Alipay is never answered "success".            *)
(*                                                                         *)
(* The amounts of a trade and of its row both come from the order and      *)
(* agree, so the branches of notify for other amounts are left out.  What  *)
(* /sendPayment tells the order service is in the module OrderFlow.        *)
(***************************************************************************)
EXTENDS Integers, Sequences, FiniteSets

CONSTANTS
    Orders,
    Trades,     \* out_trade_no: the order's id and the time of the submission
    None,       \* a column that is NULL
    MaxNotify   \* times Alipay calls notify for a trade (a bound)

VARIABLES
    payments,   \* payment_info in the order of its ids
    saved,      \* trades whose row is in, and whose page has not been returned
    checks,     \* PAYMENT_RESULT_CHECK_QUEUE: the number of its messages
    trades,     \* trade -> "none", "offered" to the customer, or "paid"
    told        \* trade -> how often notify has run for it

vars == <<payments, saved, checks, trades, told>>

Init ==
    /\ payments = <<>> /\ saved = {} /\ checks = 0
    /\ trades = [n \in Trades |-> "none"] /\ told = [n \in Trades |-> 0]

\* submit, to the insert of the row.
Submit(n, o) ==
    /\ trades[n] = "none" /\ n \notin saved
    /\ payments' = Append(payments, [orderId |-> o, outTradeNo |-> None,
                                     paymentStatus |-> "UNPAID"])
    /\ saved' = saved \cup {n}
    /\ UNCHANGED <<checks, trades, told>>

\* The rest of submit: the message for the delayed check, which has no
\* content, and the page with the trade.
SendDelayPaymentResult(n) ==
    /\ n \in saved
    /\ saved' = saved \ {n} /\ checks' = checks + 1
    /\ trades' = [trades EXCEPT ![n] = "offered"]
    /\ UNCHANGED <<payments, told>>

\* The consumer of the check queue does nothing with a message.
ConsumeDelayCheck ==
    /\ checks > 0 /\ checks' = checks - 1
    /\ UNCHANGED <<payments, saved, trades, told>>

\* Alipay: the customer pays the trade.
Pay(n) ==
    /\ trades[n] = "offered"
    /\ trades' = [trades EXCEPT ![n] = "paid"]
    /\ UNCHANGED <<payments, saved, checks, told>>

\* Alipay calls notify with TRADE_SUCCESS.  No row or several: an exception.
Notify(n) ==
    LET found == {i \in DOMAIN payments : payments[i].outTradeNo = n}
    IN  /\ trades[n] = "paid" /\ told[n] < MaxNotify
        /\ told' = [told EXCEPT ![n] = @ + 1]
        /\ \/ Cardinality(found) # 1 /\ UNCHANGED payments
           \/ \E i \in DOMAIN payments : /\ found = {i}
                                         /\ payments' = [payments EXCEPT ![i] = payments[i]]
        /\ UNCHANGED <<saved, checks, trades>>

Next ==
    \/ \E n \in Trades : \/ \E o \in Orders : Submit(n, o)
                         \/ SendDelayPaymentResult(n) \/ Pay(n) \/ Notify(n)
    \/ ConsumeDelayCheck

Spec == Init /\ [][Next]_vars

\* "The new payment status is written to the table of payments": once notify has
\* run for a trade that is paid, there is a row of the trade that says so.
NotifiedIsRecorded ==
    \A n \in Trades : told[n] > 0 =>
        \E i \in DOMAIN payments : /\ payments[i].outTradeNo = n
                                   /\ payments[i].paymentStatus = "PAID"
=============================================================================
