--------------------------- MODULE CheckoutProofs ----------------------------
(***************************************************************************)
(* What the token of a checkout page guarantees, for any number of users,  *)
(* submissions, pages and retries: the page of an order, and the page of a *)
(* refused submission, cannot be submitted any more.                       *)
(***************************************************************************)
EXTENDS Checkout, TLAPS, FiniteSetTheorems

\* genToken never gives out a token twice: the tokens given out are the first
\* ones, and only they are stored or submitted.
FreshInv ==
    /\ \E n \in Nat : Issued = 1 .. n
    /\ \A k \in Keys : code[k] \in Issued \cup {NoToken}
    /\ \A r \in Requests : pc[r] # "new" => tradeNo[r] \in Issued

\* Nothing has been done for a submission that has not been made.
NewInv ==
    \A r \in Requests : pc[r] = "new" =>
        /\ saved[r] = 0
        /\ \A c \in Calls : c.request = r => cpc[c] = "none" /\ ~touched[c]

\* Past verifyToken, the token is gone.
PastInv ==
    \A r \in Requests :
        (pc[r] \in {"prices", "stock", "save", "ordered", "refused"} \/ saved[r] > 0)
        => Barred(r)

\* So it is when a call of verifyToken has found another token, has seen the
\* key change or is done, and when a call of saveOrder has begun.
CallInv ==
    \A c \in Calls :
        \/ touched[c]
        \/ cpc[c] \in {"yes", "no", "insert"}
        \/ cpc[c] \in {"watch", "exec"} /\ ~match[c]
        => Barred(c.request)

CInv == TypeOK /\ FreshInv /\ NewInv /\ PastInv /\ CallInv

-----------------------------------------------------------------------------
\* A call belongs to a submission.
LEMMA CallRequest == ASSUME NEW c \in Calls PROVE c.request \in Requests
  BY DEF Calls, Call

LEMMA CallIn ==
    ASSUME NEW r \in Requests, NEW op \in Ops, NEW n \in 0 .. Retries[r]
    PROVE  Call(r, op, n) \in Calls /\ Call(r, op, n).request = r
  BY DEF Calls, Call

\* A new token is none of those given out.
LEMMA NewTokenIsNew ==
    ASSUME FreshInv
    PROVE  /\ NewToken \in Nat /\ NewToken \notin Issued
           /\ \E n \in Nat : Issued \cup {NewToken} = 1 .. n
<1>1. PICK n \in Nat : Issued = 1 .. n  BY DEF FreshInv
<1>2. Cardinality(Issued) = n  BY <1>1, FS_Interval
<1>3. NewToken = n + 1  BY <1>2 DEF NewToken
<1>4. Issued \cup {NewToken} = 1 .. (n + 1)  BY <1>1, <1>3
<1> QED  BY <1>1, <1>3, <1>4

LEMMA InitCInv == ASSUME CheckoutAssumption, Init PROVE CInv
<1>1. TypeOK  BY DEF Init, TypeOK, CheckoutAssumption, NoAnswers, Final
<1>2. FreshInv
  <2>1. Issued = 1 .. 0  BY DEF Init, Issued
  <2> QED  BY <2>1 DEF Init, FreshInv
<1>3. NewInv /\ PastInv /\ CallInv  BY DEF Init, NewInv, PastInv, CallInv
<1> QED  BY <1>1, <1>2, <1>3 DEF CInv

\* The key of the submissions that are under way.
LEMMA OneKey == /\ \A c \in Calls : KeyOf(c) = NoUser
                /\ Keys \subseteq {NoUser}
  BY DEF KeyOf, TokenKey, Keys

\* Only a user who was shown a page submits, so that the key exists.
LEMMA KeyExists ==
    ASSUME FreshInv, NEW r \in Requests, pc[r] # "new"
    PROVE  NoUser \in Keys
<1>1. PICK u \in Users : tradeNo[r] \in pages[u]  BY DEF FreshInv, Issued
<1> QED  BY <1>1 DEF Keys, TokenKey

LEMMA GenTokenCInv ==
    ASSUME CheckoutAssumption, CInv, NEW u \in Users, GenToken(u)
    PROVE  CInv'
<1> USE DEF CInv
<1>1. TypeOK'  BY OneKey DEF GenToken, Touch, TypeOK, webVars
<1>2. /\ Issued' = Issued \cup {NewToken}
      /\ \A k \in Keys : code'[k] \in {code[k], NewToken}
      /\ \A k \in Keys : code'[k] = NewToken
  <2>1. Issued' = Issued \cup {NewToken}  BY DEF GenToken, Issued, TypeOK
  <2>2. \A k \in Keys : code'[k] = NewToken
    BY DEF GenToken, Keys, TokenKey, TypeOK
  <2> QED  BY <2>1, <2>2
<1>3. FreshInv'
  BY <1>2, NewTokenIsNew DEF FreshInv, GenToken, webVars
<1>4. NewInv'
  BY DEF NewInv, GenToken, Touch, webVars, TypeOK
<1>5. \A r \in Requests : pc[r] # "new" => Barred(r)'
  BY <1>2, NewTokenIsNew DEF FreshInv, Barred, GenToken, webVars
<1>6. PastInv'
  BY <1>5 DEF PastInv, NewInv, GenToken, webVars
<1>7. CallInv'
  BY <1>5, CallRequest DEF CallInv, NewInv, GenToken, Touch, webVars
<1> QED  BY <1>1, <1>3, <1>4, <1>6, <1>7

LEMMA ExpireTokenCInv ==
    ASSUME CheckoutAssumption, CInv, NEW k \in Keys, ExpireToken(k)
    PROVE  CInv'
<1> USE DEF CInv
<1>1. TypeOK'  BY DEF ExpireToken, Touch, TypeOK, webVars
<1>2. FreshInv'  BY DEF FreshInv, ExpireToken, TypeOK, webVars, Issued
<1>3. NewInv'  BY DEF NewInv, ExpireToken, Touch, webVars, TypeOK
<1>4. \A r \in Requests : pc[r] # "new" => Barred(r)'
  BY OneKey DEF FreshInv, Barred, ExpireToken, webVars, TypeOK, CheckoutAssumption
<1>5. PastInv'  BY <1>4 DEF PastInv, NewInv, ExpireToken, webVars
<1>6. CallInv'
  BY <1>4, CallRequest DEF CallInv, NewInv, ExpireToken, Touch, webVars
<1> QED  BY <1>1, <1>2, <1>3, <1>5, <1>6

LEMMA SubmitCInv ==
    ASSUME CheckoutAssumption, CInv,
           NEW r \in Requests, NEW u \in Users, NEW t \in Tokens, Submit(r, u, t)
    PROVE  CInv'
<1> USE DEF CInv
<1> DEFINE first == Call(r, "verifyToken", 0)
<1>0. first \in Calls /\ first.request = r
  BY CallIn DEF Ops, CheckoutAssumption
<1>1. TypeOK'  BY <1>0 DEF Submit, TypeOK
<1>2. FreshInv'  BY DEF FreshInv, Submit, TypeOK, Issued
<1>3. NewInv'  BY <1>0 DEF NewInv, Submit, TypeOK
<1>4. PastInv'
  BY DEF PastInv, NewInv, Submit, TypeOK, Barred
<1>5. CallInv'
  <2> SUFFICES ASSUME NEW c \in Calls,
                      \/ touched[c]' \/ cpc'[c] \in {"yes", "no", "insert"}
                      \/ cpc'[c] \in {"watch", "exec"} /\ ~match'[c]
               PROVE  Barred(c.request)'
    BY DEF CallInv
  <2>1. c.request # r
    BY <1>0 DEF NewInv, Submit, TypeOK
  <2> QED  BY <2>1, CallRequest DEF CallInv, Submit, TypeOK, Barred
<1> QED  BY <1>1, <1>2, <1>3, <1>4, <1>5

\* The call a handler waits for is one of its own.
LEMMA AwaitedIn ==
    ASSUME TypeOK, NEW r \in Requests
    PROVE  Awaited(r) \in Calls /\ Awaited(r).request = r
<1>1. OpOf(r) \in Ops  BY DEF OpOf, Ops
<1>2. attempt[r] \in 0 .. Retries[r]  BY DEF TypeOK
<1> QED  BY <1>1, <1>2, CallIn DEF Awaited

LEMMA TimeoutCInv ==
    ASSUME CheckoutAssumption, CInv, NEW r \in Requests, Timeout(r)
    PROVE  CInv'
<1> USE DEF CInv
<1> DEFINE a == Awaited(r)
           dropped == [cpc EXCEPT ![a] = IF @ \in {"yes", "no"} THEN "none" ELSE @]
           next == Call(r, OpOf(r), attempt[r] + 1)
<1>1. a \in Calls /\ a.request = r  BY AwaitedIn
<1>2. dropped \in [Calls -> {"none", "get", "watch", "exec", "insert", "yes", "no"}]
  BY <1>1 DEF TypeOK
<1>3. CASE /\ MayRetry(r)
           /\ attempt' = [attempt EXCEPT ![r] = @ + 1]
           /\ cpc' = [dropped EXCEPT ![next] = IF pc[r] = "verify" THEN "get" ELSE "insert"]
           /\ UNCHANGED pc
  <2>1. attempt[r] + 1 \in 0 .. Retries[r]
    BY <1>3 DEF MayRetry, TypeOK, CheckoutAssumption
  <2>2. next \in Calls /\ next.request = r
    BY <2>1, CallIn DEF OpOf, Ops
  <2>3. TypeOK'
    <3>1. cpc' \in [Calls -> {"none", "get", "watch", "exec", "insert", "yes", "no"}]
      BY <1>2, <1>3, <2>2
    <3>2. /\ attempt' \in [Requests -> Nat]
          /\ \A q \in Requests : attempt'[q] <= Retries[q]
      BY <1>3, <2>1 DEF TypeOK, CheckoutAssumption
    <3> QED  BY <1>3, <3>1, <3>2 DEF TypeOK, Timeout
  <2>4. FreshInv'  BY <1>3 DEF FreshInv, Timeout, Issued
  <2>5. NewInv'
    <3>1. pc[r] # "new"  BY DEF Timeout
    <3>2. \A c \in Calls : c.request # r => cpc'[c] = cpc[c]
      BY <1>1, <1>2, <1>3, <2>2 DEF TypeOK
    <3> QED  BY <1>3, <3>1, <3>2 DEF NewInv, Timeout
  <2>6. PastInv'  BY <1>3 DEF PastInv, Timeout, Barred
  <2>7. CallInv'
    <3>1. pc[r] = "save" => Barred(r)  BY DEF PastInv
    <3>2. \A c \in Calls : \/ cpc'[c] = cpc[c] \/ cpc'[c] \in {"none", "get"}
                           \/ c = next /\ pc[r] = "save"
      BY <1>1, <1>2, <1>3, <2>2 DEF TypeOK, Timeout
    <3> QED  BY <1>3, <2>2, <3>1, <3>2 DEF CallInv, Timeout, Barred
  <2> QED  BY <2>3, <2>4, <2>5, <2>6, <2>7
<1>4. CASE /\ ~MayRetry(r)
           /\ attempt' = [attempt EXCEPT ![r] = 0]
           /\ cpc' = dropped
           /\ pc' = [pc EXCEPT ![r] = "failed"]
  <2>1. TypeOK'  BY <1>2, <1>4 DEF TypeOK, Timeout, Final, CheckoutAssumption
  <2>2. FreshInv'  BY <1>4 DEF FreshInv, Timeout, Issued, TypeOK
  <2>3. NewInv'
    <3>1. \A c \in Calls : c.request # r => cpc'[c] = cpc[c]
      BY <1>1, <1>4 DEF TypeOK
    <3> QED  BY <1>4, <3>1 DEF NewInv, Timeout, TypeOK
  <2>4. PastInv'  BY <1>4 DEF PastInv, Timeout, Barred, TypeOK
  <2>5. CallInv'
    <3>1. \A c \in Calls : cpc'[c] = cpc[c] \/ cpc'[c] = "none"
      BY <1>1, <1>4 DEF TypeOK
    <3> QED  BY <3>1 DEF CallInv, Timeout, Barred
  <2> QED  BY <2>1, <2>2, <2>3, <2>4, <2>5
<1> QED  BY <1>3, <1>4 DEF Timeout

LEMMA TakeCInv ==
    ASSUME CheckoutAssumption, CInv, NEW r \in Requests,
           NEW onYes \in {"prices", "ordered"}, NEW onNo \in {"refused", "failed"},
           pc[r] # "new", Take(r, onYes, onNo)
    PROVE  CInv'
<1> USE DEF CInv
<1>1. Awaited(r) \in Calls /\ Awaited(r).request = r  BY AwaitedIn
<1>2. Barred(r)  BY <1>1 DEF Take, CallInv
<1>3. TypeOK'  BY <1>1 DEF Take, TypeOK, Final, CheckoutAssumption
<1>4. FreshInv'  BY DEF FreshInv, Take, Issued, TypeOK
<1>5. NewInv'
  <2>1. \A c \in Calls : c.request # r => cpc'[c] = cpc[c]
    BY <1>1 DEF Take, TypeOK
  <2> QED  BY <2>1 DEF NewInv, Take, TypeOK
<1>6. PastInv'  BY <1>2 DEF PastInv, Take, Barred, TypeOK
<1>7. CallInv'  BY <1>1 DEF CallInv, Take, Barred, TypeOK
<1> QED  BY <1>3, <1>4, <1>5, <1>6, <1>7

LEMMA CheckPricesCInv ==
    ASSUME CInv, NEW r \in Requests, CheckPrices(r)
    PROVE  CInv'
<1> USE DEF CInv
<1>1. TypeOK'  BY DEF CheckPrices, TypeOK, callVars, Final
<1>2. FreshInv'  BY DEF FreshInv, CheckPrices, callVars, Issued, TypeOK
<1>3. NewInv'  BY DEF NewInv, CheckPrices, callVars, TypeOK
<1>4. PastInv'  BY DEF PastInv, CheckPrices, callVars, Barred, TypeOK
<1>5. CallInv'  BY DEF CallInv, CheckPrices, callVars, Barred
<1> QED  BY <1>1, <1>2, <1>3, <1>4, <1>5

LEMMA CheckSkuNumCInv ==
    ASSUME CInv, NEW r \in Requests, NEW l \in OrderLines, CheckSkuNum(r, l)
    PROVE  CInv'
<1> USE DEF CInv
<1>1. TypeOK'  BY DEF CheckSkuNum, TypeOK, callVars, Final
<1> QED  BY <1>1 DEF FreshInv, NewInv, PastInv, CallInv, CheckSkuNum, callVars, Issued, Barred

LEMMA JoinCInv ==
    ASSUME CheckoutAssumption, CInv, NEW r \in Requests, Join(r)
    PROVE  CInv'
<1> USE DEF CInv
<1> DEFINE first == Call(r, "saveOrder", 0)
<1>1. first \in Calls /\ first.request = r
  BY CallIn DEF Ops, CheckoutAssumption
<1>2. Barred(r)  BY DEF Join, PastInv
<1>3. TypeOK'  BY <1>1 DEF Join, TypeOK, Final, NoAnswers
<1>4. FreshInv'
  <2>1. /\ \A q \in Requests : pc'[q] # "new" => pc[q] # "new"
        /\ UNCHANGED <<code, pages, tradeNo>>
    BY DEF Join, TypeOK
  <2>2. Issued' = Issued  BY <2>1 DEF Issued
  <2> QED  BY <2>1, <2>2 DEF FreshInv
<1>5. NewInv'  BY <1>1 DEF NewInv, Join, TypeOK
<1>6. PastInv'  BY <1>2 DEF PastInv, Join, Barred, TypeOK
<1>7. CallInv'  BY <1>1, <1>2 DEF CallInv, Join, Barred, TypeOK
<1> QED  BY <1>3, <1>4, <1>5, <1>6, <1>7

-----------------------------------------------------------------------------
LEMMA ReadTokenCInv ==
    ASSUME CInv, NEW c \in Calls, ReadToken(c)
    PROVE  CInv'
<1> USE DEF CInv
<1>1. TypeOK'  BY DEF ReadToken, TypeOK, webVars
<1>2. FreshInv'  BY DEF FreshInv, ReadToken, Issued, webVars
<1>3. NewInv'  BY DEF NewInv, ReadToken, TypeOK, webVars
<1>4. PastInv'  BY DEF PastInv, ReadToken, Barred, webVars
<1>5. CallInv'
  <2>1. code[KeyOf(c)] # tradeNo[c.request] => Barred(c.request)
    BY OneKey DEF Barred
  <2> QED  BY <2>1 DEF CallInv, ReadToken, Barred, TypeOK, webVars
<1> QED  BY <1>1, <1>2, <1>3, <1>4, <1>5

LEMMA WatchKeyCInv ==
    ASSUME CInv, NEW c \in Calls, WatchKey(c)
    PROVE  CInv'
<1> USE DEF CInv
<1>1. TypeOK'  BY DEF WatchKey, TypeOK, webVars
<1>2. FreshInv'  BY DEF FreshInv, WatchKey, Issued, webVars
<1>3. NewInv'  BY DEF NewInv, WatchKey, TypeOK, webVars
<1>4. PastInv'  BY DEF PastInv, WatchKey, Barred, webVars
<1>5. CallInv'  BY DEF CallInv, WatchKey, Barred, TypeOK, webVars
<1> QED  BY <1>1, <1>2, <1>3, <1>4, <1>5

\* The answer of a call of a submission that has been made.
LEMMA AnswerSteps ==
    ASSUME TypeOK, NEW c \in Calls, NEW ok \in BOOLEAN, Answer(c, ok)
    PROVE  /\ cpc' \in [Calls -> {"none", "get", "watch", "exec", "insert", "yes", "no"}]
           /\ cpc'[c] \in {"none", "yes", "no"}
           /\ \A d \in Calls \ {c} : cpc'[d] = cpc[d]
  BY DEF Answer, TypeOK

LEMMA ExecTokenCInv ==
    ASSUME CheckoutAssumption, CInv, NEW c \in Calls, ExecToken(c)
    PROVE  CInv'
<1> USE DEF CInv
<1> DEFINE r == c.request
<1>1. r \in Requests /\ Valid(c) \in BOOLEAN
  BY CallRequest DEF Valid, TypeOK
<1>2. /\ cpc' \in [Calls -> {"none", "get", "watch", "exec", "insert", "yes", "no"}]
      /\ cpc'[c] \in {"none", "yes", "no"}
      /\ \A d \in Calls \ {c} : cpc'[d] = cpc[d]
  <2>1. Answer(c, Valid(c))  BY DEF ExecToken
  <2> QED  BY <1>1, <2>1, AnswerSteps
<1>3. \A k \in Keys : code'[k] \in {code[k], NoToken}
  BY DEF ExecToken, Deleted, TypeOK
<1>4. Valid(c) => \A k \in Keys : code'[k] = NoToken
  BY OneKey DEF ExecToken, Deleted, TypeOK
<1>5. pc[r] # "new"  BY <1>1 DEF NewInv, ExecToken
<1>6. \A q \in Requests : pc[q] # "new" => tradeNo[q] # NoToken
  BY DEF FreshInv, CheckoutAssumption
<1>7. \A q \in Requests : pc[q] # "new" /\ Barred(q) => Barred(q)'
  BY <1>3, <1>6 DEF Barred, ExecToken, webVars
<1>8. Barred(r)'
  <2>1. CASE Valid(c)  BY <2>1, <1>1, <1>4, <1>5, <1>6 DEF Barred, ExecToken, webVars
  <2>2. CASE ~Valid(c)
    <3>1. Barred(r)  BY <2>2 DEF CallInv, Valid, ExecToken
    <3> QED  BY <3>1, <1>1, <1>5, <1>7
  <2> QED  BY <2>1, <2>2
<1>9. TypeOK'
  <2>1. code' \in [Keys -> Tokens \cup {NoToken}]  BY DEF ExecToken, Deleted, TypeOK
  <2>2. match' \in [Calls -> BOOLEAN] /\ touched' \in [Calls -> BOOLEAN]
    BY DEF ExecToken, TypeOK
  <2> QED  BY <1>2, <2>1, <2>2 DEF TypeOK, ExecToken, webVars
<1>10. FreshInv'  BY <1>3 DEF FreshInv, ExecToken, Issued, webVars
<1>11. \A d \in Calls : touched'[d] =>
          d # c /\ (touched[d] \/ (cpc[d] = "exec" /\ \E k \in Keys : code'[k] # code[k]))
  <2>1. \A d \in Calls : touched'[d] =>
          d # c /\ (touched[d] \/ (cpc[d] = "exec" /\ code'[NoUser] # code[NoUser]))
    BY OneKey DEF ExecToken, TypeOK
  <2>2. NoUser \in Keys  BY <1>1, <1>5, KeyExists
  <2> QED  BY <2>1, <2>2
<1>12. NewInv'  BY <1>2, <1>5, <1>11 DEF NewInv, ExecToken, webVars, TypeOK
<1>13. PastInv'
  BY <1>7 DEF PastInv, NewInv, ExecToken, webVars
<1>14. CallInv'
  <2> SUFFICES ASSUME NEW d \in Calls,
                      \/ touched[d]' \/ cpc'[d] \in {"yes", "no", "insert"}
                      \/ cpc'[d] \in {"watch", "exec"} /\ ~match'[d]
               PROVE  Barred(d.request)'
    BY DEF CallInv
  <2>1. CASE d = c  BY <2>1, <1>8
  <2>2. CASE d # c
    <3>1. d.request \in Requests  BY CallRequest
    <3>2. cpc'[d] = cpc[d] /\ match'[d] = match[d]
      BY <2>2, <1>2 DEF ExecToken, TypeOK
    <3>3. pc[d.request] # "new"  BY <3>1, <3>2, <1>11 DEF NewInv
    <3>4. CASE touched[d]
      <4>1. Barred(d.request)  BY <3>4 DEF CallInv
      <4> QED  BY <4>1, <3>1, <3>3, <1>7
    <3>6. CASE \/ cpc'[d] \in {"yes", "no", "insert"}
               \/ cpc'[d] \in {"watch", "exec"} /\ ~match'[d]
      <4>1. Barred(d.request)  BY <3>2, <3>6 DEF CallInv
      <4> QED  BY <4>1, <3>1, <3>3, <1>7
    <3>5. CASE \E k \in Keys : code'[k] # code[k]
      <4>1. \A k \in Keys : code'[k] = NoToken
        BY <3>5, <1>3, OneKey
      <4> QED  BY <4>1, <3>1, <3>3, <1>6 DEF Barred, ExecToken, webVars
    <3>7. CASE touched[d]'
      <4>1. touched[d] \/ \E k \in Keys : code'[k] # code[k]  BY <3>7, <1>11
      <4> QED  BY <4>1, <3>4, <3>5, <3>7
    <3> QED  BY <3>6, <3>7
  <2> QED  BY <2>1, <2>2
<1> QED  BY <1>9, <1>10, <1>12, <1>13, <1>14

LEMMA SaveOrderCInv ==
    ASSUME CInv, NEW c \in Calls, SaveOrder(c)
    PROVE  CInv'
<1> USE DEF CInv
<1> DEFINE r == c.request
<1>1. r \in Requests  BY CallRequest
<1>2. /\ cpc' \in [Calls -> {"none", "get", "watch", "exec", "insert", "yes", "no"}]
      /\ cpc'[c] \in {"none", "yes", "no"}
      /\ \A d \in Calls \ {c} : cpc'[d] = cpc[d]
  BY AnswerSteps DEF SaveOrder
<1>3. Barred(r)  BY DEF CallInv, SaveOrder
<1>4. pc[r] # "new"  BY <1>1 DEF NewInv, SaveOrder
<1>5. TypeOK'
  <2>1. saved' = saved \/ saved' = [saved EXCEPT ![r] = @ + 1]  BY DEF SaveOrder
  <2>2. saved' \in [Requests -> Nat]  BY <1>1, <2>1 DEF TypeOK
  <2> QED  BY <1>2, <2>2 DEF TypeOK, SaveOrder, webVars
<1>6. FreshInv'  BY DEF FreshInv, SaveOrder, Issued, webVars
<1>7. NewInv'  BY <1>1, <1>2, <1>4 DEF NewInv, SaveOrder, webVars, TypeOK
<1>8. PastInv'  BY <1>1, <1>3 DEF PastInv, SaveOrder, Barred, webVars, TypeOK
<1>9. CallInv'  BY <1>2, <1>3 DEF CallInv, SaveOrder, Barred, webVars
<1> QED  BY <1>5, <1>6, <1>7, <1>8, <1>9

-----------------------------------------------------------------------------
LEMMA NextCInv == ASSUME CheckoutAssumption, CInv, [Next]_vars PROVE CInv'
<1>1. ASSUME NEW u \in Users, GenToken(u) PROVE CInv'
  BY <1>1, GenTokenCInv
<1>2. ASSUME NEW k \in Keys, ExpireToken(k) PROVE CInv'
  BY <1>2, ExpireTokenCInv
<1>3. ASSUME NEW r \in Requests, NEW u \in Users, NEW t \in Tokens, Submit(r, u, t)
      PROVE  CInv'
  BY <1>3, SubmitCInv
<1>4. ASSUME NEW r \in Requests, Handle(r) PROVE CInv'
  <2>1. CASE Verified(r)  BY <2>1, TakeCInv DEF Verified
  <2>2. CASE Saved(r)  BY <2>2, TakeCInv DEF Saved
  <2>3. CASE CheckPrices(r)  BY <2>3, CheckPricesCInv
  <2>4. CASE Join(r)  BY <2>4, JoinCInv
  <2>5. CASE Timeout(r)  BY <2>5, TimeoutCInv
  <2>6. ASSUME NEW l \in OrderLines, CheckSkuNum(r, l) PROVE CInv'
    BY <2>6, CheckSkuNumCInv
  <2> QED  BY <1>4, <2>1, <2>2, <2>3, <2>4, <2>5, <2>6 DEF Handle, Proceed
<1>5. ASSUME NEW c \in Calls, Serve(c) PROVE CInv'
  BY <1>5, ReadTokenCInv, WatchKeyCInv, ExecTokenCInv, SaveOrderCInv DEF Serve
<1>6. CASE UNCHANGED vars
  BY <1>6 DEF CInv, TypeOK, FreshInv, NewInv, PastInv, CallInv, Barred, Issued,
              vars, webVars, callVars
<1> QED  BY <1>1, <1>2, <1>3, <1>4, <1>5, <1>6 DEF Next

LEMMA CInvAlways == Spec => []CInv
<1>1. Init => CInv  BY InitCInv, CheckoutAssumption
<1>2. CInv /\ [Next]_vars => CInv'  BY NextCInv, CheckoutAssumption
<1> QED  BY <1>1, <1>2, PTL DEF Spec

\* Every variable keeps its type; in particular no call is repeated more often
\* than Dubbo's retries allow (the handler in submitOrder).
THEOREM TypeCorrect == Spec => []TypeOK
<1>1. CInv => TypeOK  BY DEF CInv
<1> QED  BY <1>1, CInvAlways, PTL

\* Once there is an order for a page (verifyToken, then saveOrder), the page's
\* token is not in Redis and never will be, whatever is repeated or races.
THEOREM OrdersSpendTokens == Spec => []OrderSpendsToken
<1>1. CInv => OrderSpendsToken
  BY DEF CInv, TypeOK, PastInv, OrderSpendsToken, Barred
<1> QED  BY <1>1, CInvAlways, PTL

\* No submission is turned down whose token is the stored one: a refusal, by
\* verifyToken or after it, means that the token is no longer good.
THEOREM RefusalsAreFinal == Spec => []RefusedOnlyIfSpent
<1>1. CInv => RefusedOnlyIfSpent
  <2> SUFFICES ASSUME CInv, NEW r \in Requests, pc[r] = "refused"
               PROVE  code[TokenKey(user[r])] # tradeNo[r]
    BY DEF RefusedOnlyIfSpent
  <2>1. Barred(r)  BY DEF CInv, PastInv
  <2>2. NoUser \in Keys  BY KeyExists DEF CInv
  <2> QED  BY <2>1, <2>2 DEF Barred, TokenKey
<1> QED  BY <1>1, CInvAlways, PTL

-----------------------------------------------------------------------------
\* Stale and short submissions.  What is temporal in these properties is only
\* that a submission that is out stays out.

\* A handler has no calls but its attempts so far, of verifyToken before it is
\* let through; it has answers about goods only while it waits for them.
AttemptInv ==
    \A r \in Requests :
        /\ pc[r] = "verify" => \A c \in Calls :
               c.request = r /\ cpc[c] # "none" => c.op = "verifyToken" /\ c.attempt <= attempt[r]
        /\ pc[r] # "stock" => hasStock[r] = NoAnswers

\* Submissions that are out, for their token is gone or a line is short.
StaleOut(r) ==
    \/ pc[r] \in {"refused", "failed"}
    \/ pc[r] = "verify" /\ Lost(r)

ShortOut(r) ==
    \/ pc[r] \in {"refused", "failed"}
    \/ pc[r] = "stock" /\ \E l \in OrderLines : hasStock[r][l] = "0"

\* Who submits which token does not change once it is submitted, and whoever
\* is refused or has failed stays so.
LEMMA Fixed ==
    ASSUME CInv, [Next]_vars, NEW r \in Requests, pc[r] # "new"
    PROVE  /\ tradeNo'[r] = tradeNo[r] /\ pc'[r] # "new"
           /\ pc[r] \in {"refused", "failed"} => pc'[r] = pc[r]
<1>1. CASE UNCHANGED <<pc, tradeNo>>
    BY <1>1
<1>2. ASSUME NEW q \in Requests, NEW u \in Users, NEW t \in Tokens, Submit(q, u, t)
      PROVE  tradeNo'[r] = tradeNo[r] /\ pc'[r] = pc[r]
    BY <1>2 DEF Submit, CInv, TypeOK
<1>3. ASSUME NEW q \in Requests, Handle(q), ~UNCHANGED pc
      PROVE  /\ tradeNo' = tradeNo /\ pc[q] \notin {"refused", "failed"}
             /\ \A p \in Requests : pc'[p] = IF p = q THEN pc'[q] ELSE pc[p]
             /\ pc'[q] # "new"
    BY <1>3 DEF Handle, Proceed, Verified, Saved, Take, CheckPrices, CheckSkuNum, Join, Timeout,
                CInv, TypeOK
<1>4. ASSUME NEW q \in Requests, Handle(q) PROVE tradeNo' = tradeNo
    BY <1>4 DEF Handle, Proceed, Verified, Saved, Take, CheckPrices, CheckSkuNum, Join, Timeout
<1>5. CASE Next
    BY <1>1, <1>2, <1>3, <1>4, <1>5
    DEF Next, GenToken, ExpireToken, Serve, ReadToken, WatchKey, ExecToken, SaveOrder, webVars
<1> QED BY <1>1, <1>5 DEF vars, webVars

\* A token that is gone does not come back.
LEMMA BarredStays ==
    ASSUME CheckoutAssumption, CInv, [Next]_vars, NEW r \in Requests, pc[r] # "new", Barred(r)
    PROVE  Barred(r)'
<1>1. tradeNo'[r] = tradeNo[r] /\ tradeNo[r] \in Issued /\ tradeNo[r] # NoToken
    BY Fixed DEF CInv, FreshInv, CheckoutAssumption
<1>2. CASE UNCHANGED code
    BY <1>1, <1>2 DEF Barred
<1>3. ASSUME NEW u \in Users, GenToken(u) PROVE Barred(r)'
    <2>1. \A k \in Keys : code'[k] \in {code[k], NewToken}
        BY <1>3 DEF GenToken, CInv, TypeOK
    <2> QED BY <1>1, <2>1, NewTokenIsNew DEF Barred, CInv
<1>4. ASSUME NEW k \in Keys, ExpireToken(k) PROVE Barred(r)'
    BY <1>1, <1>4 DEF ExpireToken, Barred, CInv, TypeOK
<1>5. ASSUME NEW c \in Calls, ExecToken(c) PROVE Barred(r)'
    BY <1>1, <1>5 DEF ExecToken, Deleted, Barred, CInv, TypeOK
<1>6. ASSUME NEW q \in Requests, Handle(q) PROVE UNCHANGED code
    BY <1>6 DEF Handle, Proceed, Verified, Saved, Take, CheckPrices, CheckSkuNum, Join, Timeout
<1>7. CASE Next
    BY <1>2, <1>3, <1>4, <1>5, <1>6, <1>7
    DEF Next, Submit, Serve, ReadToken, WatchKey, SaveOrder
<1> QED BY <1>2, <1>7 DEF vars

\* What a step of a handler does to a call, and what a step of the service does.
CallStep(c) ==
    LET r == c.request
    IN  \/ cpc'[c] = cpc[c] /\ match'[c] = match[c]
        \/ cpc'[c] = "none"
        \/ /\ cpc[c] = "get" /\ cpc'[c] = "watch"
           /\ match'[c] = (code[KeyOf(c)] = tradeNo[r])
        \/ cpc[c] = "watch" /\ cpc'[c] = "exec" /\ match'[c] = match[c]
        \/ cpc[c] = "exec" /\ cpc'[c] \in {"yes", "no"} /\ (~match[c] => cpc'[c] = "no")
        \/ cpc[c] = "insert" /\ cpc'[c] \in {"yes", "no"}
        \/ /\ pc[r] = "new" /\ cpc'[c] = "get"
           /\ c.op = "verifyToken" /\ c.attempt = 0
        \/ /\ pc[r] = "verify" /\ cpc'[c] = "get"
           /\ c.op = "verifyToken" /\ c.attempt = attempt[r] + 1 /\ attempt'[r] = attempt[r] + 1
        \/ pc[r] \in {"stock", "save"} /\ cpc'[c] = "insert" /\ c.op = "saveOrder"

LEMMA TakeCall ==
    ASSUME TypeOK, NEW q \in Requests, NEW yes, NEW no, Take(q, yes, no), NEW c \in Calls
    PROVE  CallStep(c)
<1>1. cpc'[c] = cpc[c] \/ cpc'[c] = "none"
    BY AwaitedIn DEF Take, TypeOK
<1> QED BY <1>1 DEF Take, CallStep

LEMMA TimeoutCall ==
    ASSUME CheckoutAssumption, TypeOK, NEW q \in Requests, Timeout(q), NEW c \in Calls
    PROVE  CallStep(c)
<1> DEFINE a == Awaited(q)
           dropped == [cpc EXCEPT ![a] = IF @ \in {"yes", "no"} THEN "none" ELSE @]
           next == Call(q, OpOf(q), attempt[q] + 1)
<1>1. a \in Calls
    BY AwaitedIn
<1>2. dropped \in [Calls -> {"none", "get", "watch", "exec", "insert", "yes", "no"}]
    BY <1>1 DEF TypeOK
<1>3. dropped[c] \in {cpc[c], "none"}
    BY <1>1 DEF TypeOK
<1>4. match' = match /\ pc[q] \in {"verify", "save"}
    BY DEF Timeout
<1>5. CASE cpc' = dropped
    BY <1>3, <1>4, <1>5 DEF CallStep
<1>6. CASE /\ attempt' = [attempt EXCEPT ![q] = @ + 1]
           /\ cpc' = [dropped EXCEPT ![next] = IF pc[q] = "verify" THEN "get" ELSE "insert"]
    <2>1. CASE c # next
        <3>1. cpc'[c] = dropped[c]
            BY <1>2, <1>6, <2>1
        <3> QED BY <1>3, <1>4, <3>1 DEF CallStep
    <2>2. CASE c = next
        <3>1. cpc'[c] = IF pc[q] = "verify" THEN "get" ELSE "insert"
            BY <1>2, <1>6, <2>2
        <3>2. c.request = q /\ c.attempt = attempt[q] + 1 /\ c.op = OpOf(q)
            BY <2>2 DEF Call
        <3>3. attempt'[q] = attempt[q] + 1
            BY <1>6 DEF TypeOK
        <3> QED BY <1>4, <3>1, <3>2, <3>3 DEF CallStep, OpOf
    <2> QED BY <2>1, <2>2
<1> QED BY <1>5, <1>6 DEF Timeout

LEMMA ExecCall ==
    ASSUME TypeOK, NEW d \in Calls, ExecToken(d), NEW c \in Calls
    PROVE  CallStep(c)
<1>1. /\ match' = [match EXCEPT ![d] = FALSE] /\ cpc[d] = "exec"
      /\ Answer(d, Valid(d)) /\ Valid(d) \in BOOLEAN /\ (~match[d] => ~Valid(d))
    BY DEF ExecToken, Valid, TypeOK
<1>2. \A e \in Calls \ {d} : cpc'[e] = cpc[e]
    BY <1>1, AnswerSteps
<1>3. cpc'[d] = "none" \/ cpc'[d] = IF Valid(d) THEN "yes" ELSE "no"
    BY <1>1 DEF Answer, TypeOK
<1>4. CASE c = d
    BY <1>1, <1>3, <1>4 DEF CallStep
<1>5. CASE c # d
    BY <1>1, <1>2, <1>5 DEF CallStep, TypeOK
<1> QED BY <1>4, <1>5

LEMMA CallSteps ==
    ASSUME CheckoutAssumption, CInv, [Next]_vars, NEW c \in Calls
    PROVE  CallStep(c)
<1>1. CASE UNCHANGED <<cpc, match>>
    BY <1>1 DEF CallStep
<1>2. ASSUME NEW q \in Requests, NEW u \in Users, NEW t \in Tokens, Submit(q, u, t)
      PROVE  CallStep(c)
    <2> DEFINE first == Call(q, "verifyToken", 0)
    <2>1. first.request = q /\ first.op = "verifyToken" /\ first.attempt = 0
        BY DEF Call
    <2>2. cpc'[c] = (IF c = first THEN "get" ELSE cpc[c]) /\ pc[q] = "new" /\ match' = match
        BY <1>2 DEF Submit, CInv, TypeOK
    <2> HIDE DEF first
    <2> QED BY <2>1, <2>2 DEF CallStep
<1>3. ASSUME NEW q \in Requests, Join(q) PROVE CallStep(c)
    <2>1. Call(q, "saveOrder", 0).request = q /\ Call(q, "saveOrder", 0).op = "saveOrder"
        BY DEF Call
    <2>2. /\ cpc'[c] = cpc[c] \/ (cpc'[c] = "insert" /\ c = Call(q, "saveOrder", 0))
          /\ pc[q] = "stock" /\ match' = match
        BY <1>3 DEF Join, CInv, TypeOK
    <2> QED BY <2>1, <2>2 DEF CallStep
<1>4. ASSUME NEW q \in Requests, Handle(q) PROVE CallStep(c)
    BY <1>1, <1>3, <1>4, TakeCall, TimeoutCall
    DEF Handle, Proceed, Verified, Saved, CheckPrices, CheckSkuNum, CInv, callVars
<1>5. ASSUME NEW d \in Calls, ReadToken(d) \/ WatchKey(d) PROVE CallStep(c)
    BY <1>5 DEF ReadToken, WatchKey, CallStep, CInv, TypeOK
<1>6. ASSUME NEW d \in Calls, SaveOrder(d) PROVE CallStep(c)
    <2>1. /\ cpc'[d] \in {"none", "yes", "no"} /\ cpc[d] = "insert" /\ match' = match
          /\ \A e \in Calls \ {d} : cpc'[e] = cpc[e]
        BY <1>6, AnswerSteps DEF SaveOrder, CInv
    <2> QED BY <2>1 DEF CallStep
<1>7. CASE Next
    <2>1. ASSUME NEW d \in Calls, Serve(d) PROVE CallStep(c)
        BY <1>5, <1>6, <2>1, ExecCall DEF Serve, CInv
    <2> QED BY <1>1, <1>2, <1>4, <1>7, <2>1 DEF Next, GenToken, ExpireToken
<1> QED BY <1>1, <1>7 DEF vars, callVars

\* What a step does to a submission.
HandlerStep(r) ==
    \/ /\ pc'[r] = pc[r] /\ hasStock'[r] = hasStock[r]
       /\ attempt'[r] \in {attempt[r], attempt[r] + 1}
    \/ /\ pc[r] = "stock" /\ pc'[r] = "stock"
       /\ \A l \in OrderLines : hasStock[r][l] # "?" => hasStock'[r][l] = hasStock[r][l]
    \/ /\ pc[r] = "stock" /\ hasStock'[r] = NoAnswers
       /\ pc'[r] \in {"refused", "failed"} \/ (pc'[r] = "save" /\ ~LowStock(r))
    \/ /\ pc[r] # "stock" /\ hasStock'[r] = hasStock[r]
       /\ \/ pc[r] = "new" /\ pc'[r] = "verify"
          \/ pc[r] = "verify" /\ pc'[r] \in {"refused", "failed"}
          \/ pc[r] = "verify" /\ pc'[r] = "prices" /\ cpc[Awaited(r)] = "yes"
          \/ pc[r] \in {"prices", "save"} /\ pc'[r] \notin {"new", "verify"}

LEMMA HandlerSteps ==
    ASSUME CInv, [Next]_vars, NEW r \in Requests
    PROVE  HandlerStep(r)
<1> USE DEF CInv, TypeOK
<1>1. CASE UNCHANGED webVars
    BY <1>1 DEF HandlerStep, webVars
<1>2. ASSUME NEW q \in Requests, NEW u \in Users, NEW t \in Tokens, Submit(q, u, t)
      PROVE  HandlerStep(r)
    BY <1>2 DEF Submit, HandlerStep
<1>3. ASSUME NEW q \in Requests, Verified(q) \/ Saved(q) PROVE HandlerStep(r)
    <2>1. CASE q = r
        BY <1>3, <2>1 DEF Verified, Saved, Take, HandlerStep
    <2>2. CASE q # r
        BY <1>3, <2>2 DEF Verified, Saved, Take, HandlerStep
    <2> QED BY <2>1, <2>2
<1>4. ASSUME NEW q \in Requests, CheckPrices(q) PROVE HandlerStep(r)
    BY <1>4 DEF CheckPrices, HandlerStep
<1>5. ASSUME NEW q \in Requests, NEW l \in OrderLines, CheckSkuNum(q, l) PROVE HandlerStep(r)
    BY <1>5 DEF CheckSkuNum, HandlerStep
<1>6. ASSUME NEW q \in Requests, Join(q) PROVE HandlerStep(r)
    BY <1>6 DEF Join, HandlerStep
<1>7. ASSUME NEW q \in Requests, Timeout(q) PROVE HandlerStep(r)
    <2>1. \/ pc' = pc /\ attempt' = [attempt EXCEPT ![q] = @ + 1]
          \/ pc' = [pc EXCEPT ![q] = "failed"] /\ attempt' = [attempt EXCEPT ![q] = 0]
        BY <1>7 DEF Timeout
    <2>2. hasStock' = hasStock /\ pc[q] \in {"verify", "save"}
        BY <1>7 DEF Timeout
    <2> QED BY <2>1, <2>2 DEF HandlerStep
<1>8. CASE Next
    BY <1>1, <1>2, <1>3, <1>4, <1>5, <1>6, <1>7, <1>8
    DEF Next, Handle, Proceed, Serve, GenToken, ExpireToken, ReadToken, WatchKey, ExecToken, SaveOrder
<1> QED BY <1>1, <1>8 DEF vars

LEMMA InitAttempt == ASSUME Init PROVE AttemptInv
  BY DEF Init, AttemptInv

LEMMA NextAttempt ==
    ASSUME CheckoutAssumption, CInv, AttemptInv, [Next]_vars
    PROVE  AttemptInv'
<1> SUFFICES ASSUME NEW r \in Requests
             PROVE  /\ pc'[r] = "verify" => \A c \in Calls :
                          c.request = r /\ cpc'[c] # "none"
                             => c.op = "verifyToken" /\ c.attempt <= attempt'[r]
                    /\ pc'[r] # "stock" => hasStock'[r] = NoAnswers
    BY DEF AttemptInv
<1>1. HandlerStep(r) /\ attempt[r] \in Nat
    BY HandlerSteps DEF CInv, TypeOK
<1>2. pc'[r] # "stock" => hasStock'[r] = NoAnswers
    BY <1>1 DEF HandlerStep, AttemptInv
<1>3. ASSUME pc'[r] = "verify", NEW c \in Calls, c.request = r, cpc'[c] # "none"
      PROVE  c.op = "verifyToken" /\ c.attempt <= attempt'[r]
    <2>1. CallStep(c)
        BY CallSteps
    <2>2. CASE pc[r] = "new"
        <3>1. cpc[c] = "none"
            BY <1>3, <2>2 DEF CInv, NewInv
        <3>2. c.op = "verifyToken" /\ c.attempt = 0
            BY <1>3, <2>1, <2>2, <3>1 DEF CallStep
        <3>3. attempt'[r] \in Nat
            BY NextCInv DEF CInv, TypeOK
        <3> QED BY <3>2, <3>3
    <2>3. CASE pc[r] = "verify"
        <3>1. attempt'[r] \in {attempt[r], attempt[r] + 1} /\ c.attempt \in Nat
            BY <1>1, <1>3, <2>3 DEF HandlerStep, Calls, Call
        <3>2. CASE cpc[c] # "none"
            BY <1>1, <1>3, <2>3, <3>1, <3>2 DEF AttemptInv
        <3>3. CASE cpc[c] = "none"
            BY <1>1, <1>3, <2>1, <2>3, <3>1, <3>3 DEF CallStep
        <3> QED BY <3>2, <3>3
    <2> QED BY <1>1, <1>3, <2>2, <2>3 DEF HandlerStep
<1> QED BY <1>2, <1>3

\* A submission of a token that is gone is not let through by any call.
LEMMA StaleStays ==
    ASSUME CheckoutAssumption, CInv, [Next]_vars, NEW r \in Requests, StaleOut(r)
    PROVE  StaleOut(r)'
<1>1. CASE pc[r] \in {"refused", "failed"}
    BY <1>1, Fixed DEF StaleOut
<1>2. CASE pc[r] = "verify" /\ Lost(r)
    <2> USE DEF Lost
    <2>1. Barred(r)'
        BY <1>2, BarredStays
    <2>2. ASSUME NEW c \in Calls, c.request = r PROVE Harmless(c)'
        <3>1. CallStep(c) /\ Harmless(c) /\ pc[r] = "verify"
            BY <1>2, <2>2, CallSteps
        <3>2. code[KeyOf(c)] # tradeNo[r]
            BY <1>2, OneKey, KeyExists DEF Barred, CInv
        <3>3. match[c] \in BOOLEAN /\ (cpc'[c] = "watch" => cpc[c] \in {"get", "watch"})
            BY <3>1 DEF CallStep, CInv, TypeOK
        <3> QED BY <2>2, <3>1, <3>2, <3>3 DEF CallStep, Harmless
    <2>3. Awaited(r) \in Calls /\ Awaited(r).request = r
        BY AwaitedIn DEF CInv
    <2>4. cpc[Awaited(r)] # "yes"
        BY <1>2, <2>3 DEF Harmless
    <2>5. pc'[r] \in {"verify", "refused", "failed"}
        BY <1>2, <2>4, HandlerSteps DEF HandlerStep
    <2> QED BY <2>1, <2>2, <2>5 DEF StaleOut
<1> QED BY <1>1, <1>2 DEF StaleOut

LEMMA StaleStarts ==
    ASSUME CheckoutAssumption, CInv, AttemptInv, NEW r \in Requests, Stale(r)
    PROVE  StaleOut(r)
<1>1. pc[r] = "verify" /\ attempt[r] = 0 /\ Awaited(r) = Call(r, "verifyToken", 0)
    BY DEF Stale, Awaited, OpOf
<1>2. Barred(r)
    BY OneKey DEF Stale, Barred, TokenKey
<1>3. ASSUME NEW c \in Calls, c.request = r PROVE Harmless(c)
    <2>1. CASE cpc[c] = "none"
        BY <2>1 DEF Harmless
    <2>2. CASE cpc[c] # "none"
        <3>1. c.op = "verifyToken" /\ c.attempt <= 0 /\ c.attempt \in Nat
            BY <1>1, <1>3, <2>2 DEF AttemptInv, Calls, Call
        <3>2. c = Call(r, "verifyToken", 0)
            BY <1>3, <3>1 DEF Calls, Call
        <3> QED BY <1>1, <3>2 DEF Stale, Harmless
    <2> QED BY <2>1, <2>2
<1> QED BY <1>1, <1>2, <1>3 DEF StaleOut, Lost

LEMMA ShortStays ==
    ASSUME CInv, [Next]_vars, NEW r \in Requests, ShortOut(r)
    PROVE  ShortOut(r)'
<1>1. CASE pc[r] \in {"refused", "failed"}
    BY <1>1, Fixed DEF ShortOut
<1>2. CASE pc[r] = "stock" /\ \E l \in OrderLines : hasStock[r][l] = "0"
    BY <1>2, HandlerSteps DEF HandlerStep, ShortOut, LowStock
<1> QED BY <1>1, <1>2 DEF ShortOut

LEMMA ShortStarts ==
    ASSUME AttemptInv, NEW r \in Requests, \E l \in OrderLines : hasStock[r][l] = "0"
    PROVE  ShortOut(r)
  BY DEF AttemptInv, NoAnswers, ShortOut

LEMMA AttemptAlways == Spec => [](CInv /\ AttemptInv)
<1>1. Init => CInv /\ AttemptInv
    BY InitCInv, InitAttempt, CheckoutAssumption
<1>2. CInv /\ AttemptInv /\ [Next]_vars => (CInv /\ AttemptInv)'
    BY NextCInv, NextAttempt, CheckoutAssumption
<1> QED BY <1>1, <1>2, PTL DEF Spec

\* A submission whose token has been overwritten, used or has expired when
\* verifyToken starts is refused or fails, however its calls are repeated and
\* whatever pages are opened meanwhile (verifyToken, genToken).
THEOREM StaleStaysOut == Spec => StaleNeverOrders
<1> SUFFICES ASSUME NEW r \in Requests
             PROVE  Spec => [](Stale(r) => [](pc[r] \in {"verify", "refused", "failed"}))
    BY DEF StaleNeverOrders
<1>1. CInv /\ AttemptInv /\ Stale(r) => StaleOut(r)
    BY StaleStarts, CheckoutAssumption
<1>2. CInv /\ StaleOut(r) /\ [Next]_vars => StaleOut(r)'
    BY StaleStays, CheckoutAssumption
<1>3. StaleOut(r) => pc[r] \in {"verify", "refused", "failed"}
    BY DEF StaleOut
<1>4. Spec => [][Next]_vars
    BY PTL DEF Spec
<1> QED BY <1>1, <1>2, <1>3, <1>4, AttemptAlways, PTL

\* Once the warehouse has said of one line that it is short, the submission
\* is refused or fails, in whatever order the other answers come (allOf).
THEOREM ShortStaysOut == Spec => ShortNeverOrders
<1> SUFFICES ASSUME NEW r \in Requests
             PROVE  Spec => []((\E l \in OrderLines : hasStock[r][l] = "0")
                               => [](pc[r] \in {"stock", "refused", "failed"}))
    BY DEF ShortNeverOrders
<1> DEFINE Short == \E l \in OrderLines : hasStock[r][l] = "0"
<1>1. CInv /\ AttemptInv /\ Short => ShortOut(r)
    BY ShortStarts
<1>2. CInv /\ ShortOut(r) /\ [Next]_vars => ShortOut(r)'
    BY ShortStays
<1>3. ShortOut(r) => pc[r] \in {"stock", "refused", "failed"}
    BY DEF ShortOut
<1>4. Spec => [][Next]_vars
    BY PTL DEF Spec
<1> QED BY <1>1, <1>2, <1>3, <1>4, AttemptAlways, PTL
=============================================================================
