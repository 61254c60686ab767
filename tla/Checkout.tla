------------------------------ MODULE Checkout -------------------------------
(***************************************************************************)
(* Checkout: the web tier's /trades and /submitOrder (OrderController) and *)
(* the order service they call over Dubbo (genToken, verifyToken and       *)
(* saveOrder of OrderServiceImpl).                                         *)
(*                                                                         *)
(*  - A page carries a token that Redis keeps for ten minutes.  The key    *)
(*    has the user's id in it, but no request attribute "userId" is ever   *)
(*    set, so every user shares the key of the user "null".                *)
(*  - verifyToken is three round trips to Redis: GET, WATCH, and EXEC of a *)
(*    transaction that is empty or holds one DEL.                          *)
(*  - A Dubbo call that is not answered in time is made again, while its   *)
(*    first execution goes on: each call is a bounded number of attempts,  *)
(*    and only the last one's answer is heard.                             *)
(*  - hasStock is asked for every line of the order in parallel.           *)
(*                                                                         *)
(* What the catalogue and the warehouse answer about a line is left open.  *)
(***************************************************************************)
EXTENDS Naturals, FiniteSets, FiniteSetsExt

CONSTANTS
    Users,      \* customers
    Requests,   \* submissions of an order, each handled once
    OrderLines, \* the lines of an order
    MaxTokens,  \* pages shown in all (a bound)
    Retries,    \* Retries[r]: times Dubbo repeats a call of submission r (a bound)
    NoUser, NoToken

Tokens   == 1 .. MaxTokens
Ops      == {"verifyToken", "saveOrder"}
Call(r, op, n) == [request |-> r, op |-> op, attempt |-> n]
Calls    == UNION {{Call(r, op, n) : op \in Ops, n \in 0 .. Retries[r]} : r \in Requests}

ASSUME CheckoutAssumption ==
    /\ NoUser \notin Users /\ NoToken \notin Nat
    /\ MaxTokens \in Nat /\ Retries \in [Requests -> Nat]
    /\ IsFiniteSet(Requests) /\ IsFiniteSet(OrderLines) /\ OrderLines # {}

VARIABLES
    code,       \* Redis: user:<key>:trade_code
    pages,      \* the tokens of the pages a user has been shown
    pc,         \* where the handler of a submission stands
    user, tradeNo, \* who submitted it and the token of its page
    attempt,    \* the attempt whose answer the handler waits for
    hasStock,   \* the warehouse's answer about each line, "?" while there is none
    cpc,        \* where the order service stands in a call, and its answer
    match,      \* verifyToken: the token read is the one submitted
    touched,    \* the watched key has been changed since WATCH
    saved       \* orders saved for a submission

webVars  == <<pc, user, tradeNo, attempt, hasStock>>
callVars == <<cpc, match, touched>>
vars == <<code, pages, webVars, callVars, saved>>

\* The user id in the key of the token: what getAttribute("userId") yields.
TokenKey(u) == NoUser
Keys == {TokenKey(u) : u \in Users}
KeyOf(c) == TokenKey(user[c.request])

Issued    == UNION {pages[u] : u \in Users}
Final     == {"ordered", "refused", "failed"}
NoAnswers == [l \in OrderLines |-> "?"]
-----------------------------------------------------------------------------
TypeOK ==
    /\ code \in [Keys -> Tokens \cup {NoToken}]
    /\ pages \in [Users -> SUBSET Tokens]
    /\ pc \in [Requests -> {"new", "verify", "prices", "stock", "save"} \cup Final]
    /\ user \in [Requests -> Users \cup {NoUser}]
    /\ tradeNo \in [Requests -> Tokens \cup {NoToken}]
    /\ attempt \in [Requests -> Nat]
    /\ \A r \in Requests : attempt[r] <= Retries[r]
    /\ hasStock \in [Requests -> [OrderLines -> {"?", "0", "1", "null"}]]
    /\ cpc \in [Calls -> {"none", "get", "watch", "exec", "insert", "yes", "no"}]
    /\ match \in [Calls -> BOOLEAN] /\ touched \in [Calls -> BOOLEAN]
    /\ saved \in [Requests -> Nat]

Init ==
    /\ code = [k \in Keys |-> NoToken] /\ pages = [u \in Users |-> {}]
    /\ pc = [r \in Requests |-> "new"]
    /\ user = [r \in Requests |-> NoUser]
    /\ tradeNo = [r \in Requests |-> NoToken]
    /\ attempt = [r \in Requests |-> 0]
    /\ hasStock = [r \in Requests |-> NoAnswers]
    /\ cpc = [c \in Calls |-> "none"]
    /\ match = [c \in Calls |-> FALSE] /\ touched = [c \in Calls |-> FALSE]
    /\ saved = [r \in Requests |-> 0]

-----------------------------------------------------------------------------
\* Redis.

\* The key changes: every connection that watches it will find out at EXEC.
Touch(k) == touched' = [c \in Calls |-> \/ touched[c]
                                        \/ cpc[c] = "exec" /\ KeyOf(c) = k]

\* Ten minutes are over.  Whether this aborts the transaction of a connection
\* that watches the key depends on the version of Redis.
ExpireToken(k) ==
    /\ code[k] # NoToken
    /\ code' = [code EXCEPT ![k] = NoToken]
    /\ \/ Touch(k)
       \/ UNCHANGED touched
    /\ UNCHANGED <<pages, webVars, cpc, match, saved>>

-----------------------------------------------------------------------------
\* The web tier.

\* genToken, called by /trades: a random token replaces the one under the key.
NewToken_Reused == 1
NewToken == Cardinality(Issued) + 1

GenToken(u) ==
    /\ NewToken \in Tokens
    /\ code' = [code EXCEPT ![TokenKey(u)] = NewToken]
    /\ pages' = [pages EXCEPT ![u] = @ \cup {NewToken}]
    /\ Touch(TokenKey(u))
    /\ UNCHANGED <<webVars, cpc, match, saved>>

\* /submitOrder, from any page the user has seen, as often as he likes.
Submit(r, u, t) ==
    /\ pc[r] = "new" /\ t \in pages[u]
    /\ user' = [user EXCEPT ![r] = u]
    /\ tradeNo' = [tradeNo EXCEPT ![r] = t]
    /\ cpc' = [cpc EXCEPT ![Call(r, "verifyToken", 0)] = "get"]
    /\ pc' = [pc EXCEPT ![r] = "verify"]
    /\ UNCHANGED <<code, pages, attempt, hasStock, match, touched, saved>>

OpOf(r)    == IF pc[r] = "verify" THEN "verifyToken" ELSE "saveOrder"
Awaited(r) == Call(r, OpOf(r), attempt[r])

MayRetry_OneMore(r) == attempt[r] <= Retries[r]
MayRetry(r) == attempt[r] < Retries[r]

\* Dubbo gives up waiting, drops the answer if there is one on its way, and
\* makes the call again or throws.
Timeout(r) ==
    /\ pc[r] \in {"verify", "save"}
    /\ LET dropped == [cpc EXCEPT ![Awaited(r)] = IF @ \in {"yes", "no"} THEN "none" ELSE @]
       IN  \/ /\ MayRetry(r)
              /\ attempt' = [attempt EXCEPT ![r] = @ + 1]
              /\ cpc' = [dropped EXCEPT ![Call(r, OpOf(r), attempt[r] + 1)] =
                            IF pc[r] = "verify" THEN "get" ELSE "insert"]
              /\ UNCHANGED pc
           \/ /\ ~MayRetry(r)
              /\ attempt' = [attempt EXCEPT ![r] = 0]
              /\ cpc' = dropped
              /\ pc' = [pc EXCEPT ![r] = "failed"]
    /\ UNCHANGED <<code, pages, user, tradeNo, hasStock, match, touched, saved>>

\* The handler takes the answer it waits for, and goes on or gives up.
Take(r, onYes, onNo) ==
    /\ cpc[Awaited(r)] \in {"yes", "no"}
    /\ pc' = [pc EXCEPT ![r] = IF cpc[Awaited(r)] = "yes" THEN onYes ELSE onNo]
    /\ cpc' = [cpc EXCEPT ![Awaited(r)] = "none"]
    /\ attempt' = [attempt EXCEPT ![r] = 0]
    /\ UNCHANGED <<code, pages, user, tradeNo, hasStock, match, touched, saved>>

Verified(r) == pc[r] = "verify" /\ Take(r, "prices", "refused")
Saved(r)    == pc[r] = "save"   /\ Take(r, "ordered", "failed")

\* Every line's price is compared with getSkuInfo's: they agree, one differs,
\* or getSkuInfo answers null and the handler throws.
CheckPrices(r) ==
    /\ pc[r] = "prices"
    /\ \E next \in {"stock", "refused", "failed"} : pc' = [pc EXCEPT ![r] = next]
    /\ UNCHANGED <<code, pages, user, tradeNo, attempt, hasStock, callVars, saved>>

\* checkSkuNum, one task per line: "1" or "0", or null when the call failed.
CheckSkuNum(r, l) ==
    /\ pc[r] = "stock" /\ hasStock[r][l] = "?"
    /\ \E x \in {"0", "1", "null"} : hasStock' = [hasStock EXCEPT ![r][l] = x]
    /\ UNCHANGED <<code, pages, pc, user, tradeNo, attempt, callVars, saved>>

\* allOf(...).join() waits for all the tasks, and throws when one threw, as
\* one does on a null; else errList is empty or not.
Threw(r)   == \E l \in OrderLines : hasStock[r][l] = "null"
LowStock_Several(r) == Cardinality({l \in OrderLines : hasStock[r][l] = "0"}) > 1
LowStock(r) == \E l \in OrderLines : hasStock[r][l] = "0"
Join(r) ==
    /\ pc[r] = "stock" /\ \A l \in OrderLines : hasStock[r][l] # "?"
    /\ \/ /\ Threw(r)
          /\ pc' = [pc EXCEPT ![r] = "failed"]
          /\ UNCHANGED cpc
       \/ /\ ~Threw(r) /\ LowStock(r)
          /\ pc' = [pc EXCEPT ![r] = "refused"]
          /\ UNCHANGED cpc
       \/ /\ ~Threw(r) /\ ~LowStock(r)
          /\ pc' = [pc EXCEPT ![r] = "save"]
          /\ cpc' = [cpc EXCEPT ![Call(r, "saveOrder", 0)] = "insert"]
    /\ hasStock' = [hasStock EXCEPT ![r] = NoAnswers]
    /\ UNCHANGED <<code, pages, user, tradeNo, attempt, match, touched, saved>>

-----------------------------------------------------------------------------
\* The order service.

\* The answer of a call, dropped if nobody waits for it any more.
Answer(c, ok) ==
    LET awaited == pc[c.request] \in {"verify", "save"} /\ Awaited(c.request) = c
    IN  cpc' = [cpc EXCEPT ![c] = IF ~awaited THEN "none" ELSE IF ok THEN "yes" ELSE "no"]

\* verifyToken reads the key before it watches it.
ReadToken(c) ==
    /\ cpc[c] = "get"
    /\ match' = [match EXCEPT ![c] = code[KeyOf(c)] = tradeNo[c.request]]
    /\ cpc' = [cpc EXCEPT ![c] = "watch"]
    /\ UNCHANGED <<code, pages, webVars, touched, saved>>

WatchKey(c) ==
    /\ cpc[c] = "watch"
    /\ cpc' = [cpc EXCEPT ![c] = "exec"]
    /\ UNCHANGED <<code, pages, webVars, match, touched, saved>>

\* The DEL of the transaction deletes whatever token is there by now.
Deleted_Nothing(k) == code
Deleted(k) == [code EXCEPT ![k] = NoToken]

\* EXEC answers nothing when the transaction was aborted or is empty, and one
\* reply when it ran the DEL, even if that found no key to delete.
Valid_AnyToken(c) == ~touched[c]
Valid(c) == match[c] /\ ~touched[c]
ExecToken(c) ==
    LET k == KeyOf(c)
    IN  /\ cpc[c] = "exec"
        /\ Answer(c, Valid(c))
        /\ code' = IF Valid(c) THEN Deleted(k) ELSE code
        /\ touched' = [d \in Calls |->
               /\ d # c
               /\ \/ touched[d]
                  \/ cpc[d] = "exec" /\ KeyOf(d) = k /\ code'[k] # code[k]]
        /\ match' = [match EXCEPT ![c] = FALSE]
        /\ UNCHANGED <<pages, webVars, saved>>

\* saveOrder inserts the order and its lines in one transaction, or throws.
SaveOrder(c) ==
    /\ cpc[c] = "insert"
    /\ \/ /\ saved' = [saved EXCEPT ![c.request] = @ + 1]
          /\ Answer(c, TRUE)
       \/ /\ Answer(c, FALSE)
          /\ UNCHANGED saved
    /\ UNCHANGED <<code, pages, webVars, match, touched>>

-----------------------------------------------------------------------------
\* The steps of a submission's handler that do not depend on the warehouse.
Proceed_NoTimeout(r) ==
    Verified(r) \/ CheckPrices(r) \/ Join(r) \/ Saved(r)
Proceed(r) ==
    Verified(r) \/ CheckPrices(r) \/ Join(r) \/ Saved(r) \/ Timeout(r)

Handle(r) == Proceed(r) \/ \E l \in OrderLines : CheckSkuNum(r, l)

Serve(c) == ReadToken(c) \/ WatchKey(c) \/ ExecToken(c) \/ SaveOrder(c)

Next ==
    \/ \E u \in Users : GenToken(u)
    \/ \E k \in Keys : ExpireToken(k)
    \/ \E r \in Requests, u \in Users, t \in Tokens : Submit(r, u, t)
    \/ \E r \in Requests : Handle(r)
    \/ \E c \in Calls : Serve(c)

\* The web tier goes on with a submission, and Dubbo's timer always rings.
\* Nothing is assumed of the order service, nor of the warehouse: the HTTP
\* client has no timeout, and a request to the warehouse may hang for ever.
Spec == Init /\ [][Next]_vars /\ \A r \in Requests : WF_vars(Proceed(r))

-----------------------------------------------------------------------------
\* Properties.

\* An order is on record only when the token of its page can no longer be
\* submitted: whatever pages are opened, keys expire and calls repeat, no
\* later submission of that page is let through (verifyToken, genToken).
OrderSpendsToken ==
    \A r \in Requests, k \in Keys : saved[r] > 0 => code[k] # tradeNo[r]

\* No submission is turned down while its page's token is the one in Redis:
\* "page is not valid" is said only of a token that was overwritten, expired
\* or used, though EXEC may be aborted and the call repeated, and a submission
\* let through and refused for its goods has used its token up.
RefusedOnlyIfSpent ==
    \A r \in Requests : pc[r] = "refused" => code[TokenKey(user[r])] # tradeNo[r]

\* When some line is short there is no order, in whatever order the parallel
\* answers come: the submission can only be refused, or fail.
ShortNeverOrders ==
    \A r \in Requests :
        []((\E l \in OrderLines : hasStock[r][l] = "0")
           => [](pc[r] \in {"stock", "refused", "failed"}))

\* A submission whose token is no longer the stored one when verifyToken
\* starts never orders: no retry and no race with other pages lets it through.
Stale(r) == /\ pc[r] = "verify" /\ attempt[r] = 0 /\ cpc[Awaited(r)] = "get"
            /\ code[TokenKey(user[r])] # tradeNo[r]
StaleNeverOrders ==
    \A r \in Requests : [](Stale(r) => [](pc[r] \in {"verify", "refused", "failed"}))

\* Every submission is answered though the order service hangs, unless the
\* warehouse never answers about one of its lines: join waits without limit,
\* and that is the only wait without one.
HangsOnWarehouse(r) ==
    pc[r] = "stock" /\ \E l \in OrderLines : hasStock[r][l] = "?"
SubmissionAnswered ==
    \A r \in Requests : pc[r] = "verify" ~> (pc[r] \in Final \/ []HangsOnWarehouse(r))

\* One page makes at most one order, however often it is submitted.
OneOrderPerToken ==
    \A t \in Tokens :
        MapThenSumSet(LAMBDA r : saved[r], {r \in Requests : tradeNo[r] = t}) <= 1

\* What became of a submission, as TokenGate tells it.  While verifyToken runs
\* it is lost when its token is gone and no call has read it and can use it;
\* once it is over, an order may still be saved by a call of saveOrder.
Barred(r)   == \A k \in Keys : code[k] # tradeNo[r]
Harmless(c) == \/ cpc[c] \in {"none", "get", "no"}
               \/ cpc[c] \in {"watch", "exec"} /\ ~match[c]
Lost(r)     == Barred(r) /\ \A c \in Calls : c.request = r => Harmless(c)
Saving(r)   == \E c \in Calls : c.request = r /\ cpc[c] = "insert"
Fate(r) ==
    CASE pc[r] = "new" -> "new"
      [] pc[r] = "verify" -> IF Lost(r) THEN "doomed" ELSE "asking"
      [] pc[r] \in {"refused", "failed"} /\ ~Saving(r) -> "out"
      [] OTHER -> "in"

\* Three trips to Redis, repeated calls, expiry and other pages together keep
\* the promise of the token: an order is saved only for a submission whose
\* token was valid when it was made and was gone when it was let in.
Gate == INSTANCE TokenGate WITH
            given <- Issued, valid <- {code[k] : k \in Keys} \ {NoToken},
            token <- tradeNo, fate <- [r \in Requests |-> Fate(r)]
KeepsGate == Gate!Spec
=============================================================================
