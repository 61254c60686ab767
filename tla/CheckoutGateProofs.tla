------------------------- MODULE CheckoutGateProofs --------------------------
(***************************************************************************)
(* The checkout keeps the promise of the token (TokenGate), for any number *)
(* of users, submissions, pages and retries.                               *)
(***************************************************************************)
EXTENDS CheckoutProofs

\* Only calls of saveOrder insert.
OpInv == \A c \in Calls : cpc[c] = "insert" => c.op = "saveOrder"

GInv == CInv /\ AttemptInv /\ OpInv

Stored == {code[k] : k \in Keys} \ {NoToken}

-----------------------------------------------------------------------------
\* The strengthening holds at the start, is kept by every step, and so always holds.
LEMMA InitGInv == ASSUME CheckoutAssumption, Init PROVE GInv
<1>1. OpInv
    BY DEF Init, OpInv
<1> QED BY <1>1, InitCInv, InitAttempt DEF GInv

LEMMA NextGInv == ASSUME CheckoutAssumption, GInv, [Next]_vars PROVE GInv'
<1>1. CInv' /\ AttemptInv'
    BY NextCInv, NextAttempt DEF GInv
<1>2. ASSUME NEW c \in Calls, cpc'[c] = "insert" PROVE c.op = "saveOrder"
    <2>1. CallStep(c)
        BY CallSteps DEF GInv
    <2> QED BY <1>2, <2>1 DEF CallStep, GInv, OpInv
<1> QED BY <1>1, <1>2 DEF GInv, OpInv

LEMMA GInvAlways == Spec => []GInv
<1>1. Init => GInv
    BY InitGInv, CheckoutAssumption
<1>2. GInv /\ [Next]_vars => GInv'
    BY NextGInv, CheckoutAssumption
<1> QED BY <1>1, <1>2, PTL DEF Spec

-----------------------------------------------------------------------------
\* The token of a submission is gone when it is not the stored one.
LEMMA BarredIs ==
    ASSUME CheckoutAssumption, CInv, NEW r \in Requests, pc[r] # "new"
    PROVE  Barred(r) <=> tradeNo[r] \notin Stored
<1>1. tradeNo[r] # NoToken
    BY DEF CInv, FreshInv, CheckoutAssumption
<1> QED BY <1>1 DEF Barred, Stored

\* Nothing is being saved for a submission that is not past verifyToken.
LEMMA NotSaving ==
    ASSUME GInv, NEW r \in Requests, pc[r] \in {"new", "verify"}
    PROVE  ~Saving(r)
<1> SUFFICES ASSUME NEW c \in Calls, c.request = r, cpc[c] = "insert" PROVE FALSE
    BY DEF Saving
<1>1. CASE pc[r] = "new"
    BY <1>1 DEF GInv, CInv, NewInv
<1>2. CASE pc[r] = "verify"
    BY <1>2 DEF GInv, AttemptInv, OpInv
<1> QED BY <1>1, <1>2

\* Calls of saveOrder begin only after "stock".
LEMMA SavingBefore ==
    ASSUME CheckoutAssumption, CInv, [Next]_vars, NEW r \in Requests,
           pc[r] \notin {"stock", "save"}, Saving(r)'
    PROVE  Saving(r)
<1>1. PICK c \in Calls : c.request = r /\ cpc'[c] = "insert"
    BY DEF Saving
<1>2. CallStep(c)
    BY CallSteps
<1> QED BY <1>1, <1>2 DEF CallStep, Saving

\* The fate of a submission is told by its own state, its calls and the code.
LEMMA SameFate ==
    ASSUME NEW r \in Requests, pc'[r] = pc[r], tradeNo'[r] = tradeNo[r], code' = code,
           \A c \in Calls : c.request = r => cpc'[c] = cpc[c] /\ match'[c] = match[c]
    PROVE  Fate(r)' = Fate(r)
<1>1. Barred(r)' <=> Barred(r)
    BY DEF Barred
<1>2. \A c \in Calls : c.request = r => (Harmless(c)' <=> Harmless(c))
    BY DEF Harmless
<1>3. (Lost(r)' <=> Lost(r)) /\ (Saving(r)' <=> Saving(r))
    BY <1>1, <1>2 DEF Lost, Saving
<1> QED BY <1>3 DEF Fate

\* How the fate of a submission moves that neither begins nor ends its part.
Fades(r) == Fate(r) = "asking" /\ Fate(r)' = "doomed" /\ Barred(r)'

LEMMA FateStays ==
    ASSUME CheckoutAssumption, CInv, [Next]_vars, NEW r \in Requests,
           pc'[r] = pc[r], Saving(r)' <=> Saving(r)
    PROVE  Fate(r)' = Fate(r) \/ Fades(r)
<1>1. CASE pc[r] = "verify"
    <2>1. Lost(r) => Lost(r)'
        BY <1>1, StaleStays DEF StaleOut
    <2>2. Lost(r)' => Barred(r)'
        BY DEF Lost
    <2>3. /\ Fate(r) = (IF Lost(r) THEN "doomed" ELSE "asking")
          /\ Fate(r)' = (IF Lost(r)' THEN "doomed" ELSE "asking")
        BY <1>1 DEF Fate
    <2> QED BY <2>1, <2>2, <2>3 DEF Fades
<1>2. CASE pc[r] # "verify"
    BY <1>2 DEF Fate
<1> QED BY <1>1, <1>2

\* Steps that touch a token or one call: some submissions may lose their chance.
LEMMA LostAre ==
    ASSUME CheckoutAssumption, CInv, [Next]_vars, UNCHANGED <<pc, tradeNo>>,
           \A r \in Requests : Saving(r)' <=> Saving(r),
           NEW lost \in SUBSET Requests, \A r \in Requests : r \in lost <=> Fades(r)
    PROVE  Gate!Spoil(lost)
<1>1. \A r \in Requests : Fate(r)' = Fate(r) \/ Fades(r)
    BY FateStays
<1>2. ASSUME NEW r \in lost PROVE Fate(r) = "asking" /\ Fate(r)' = "doomed" /\ tradeNo[r] \notin Stored'
    <2>1. Fades(r) /\ r \in Requests
        OBVIOUS
    <2>2. pc'[r] # "new"
        BY <2>1 DEF Fades, Fate
    <2>3. CInv'
        BY NextCInv
    <2>4. tradeNo'[r] # NoToken
        BY <2>1, <2>2, <2>3 DEF CInv, FreshInv, CheckoutAssumption
    <2> QED BY <2>1, <2>4 DEF Fades, Barred, Stored
<1>3. ASSUME NEW r \in Requests PROVE Fate(r)' = IF r \in lost THEN "doomed" ELSE Fate(r)
    BY <1>1, <1>2, <1>3
<1> QED BY <1>2, <1>3 DEF Gate!Spoil, Stored

\* So there is a set of those that do.
LEMMA FadeStep ==
    ASSUME CheckoutAssumption, CInv, [Next]_vars, UNCHANGED <<pc, tradeNo>>,
           \A r \in Requests : Saving(r)' <=> Saving(r)
    PROVE  \E lost \in SUBSET Requests : Gate!Spoil(lost)
<1>1. \E lost \in SUBSET Requests : \A r \in Requests : r \in lost <=> Fades(r)
    <2> WITNESS {r \in Requests : Fades(r)} \in SUBSET Requests
    <2> QED OBVIOUS
<1> QED BY <1>1, LostAre

\* A step of the service that saves nothing.
LEMMA CloseStep ==
    ASSUME CheckoutAssumption, CInv, [Next]_vars, UNCHANGED <<pages, pc, tradeNo, saved>>,
           Stored' \in {Stored, {}}, \A r \in Requests : Saving(r)' <=> Saving(r)
    PROVE  Gate!Next
<1>1. PICK lost \in SUBSET Requests : Gate!Spoil(lost)
    BY FadeStep
<1>2. Issued' = Issued
    BY DEF Issued
<1>3. Gate!Close(lost)
    BY <1>1, <1>2 DEF Gate!Close, Stored
<1> QED BY <1>3 DEF Gate!Next

\* The steps one by one: pages are shown, tokens expire, submissions are made.
LEMMA GenTokenGate ==
    ASSUME CheckoutAssumption, CInv, Next, NEW u \in Users, GenToken(u)
    PROVE  Gate!Next
<1>1. UNCHANGED <<pc, tradeNo, cpc, saved>>
    BY DEF GenToken, webVars
<1>2. PICK lost \in SUBSET Requests : Gate!Spoil(lost)
    <2>1. \A r \in Requests : Saving(r)' <=> Saving(r)
        BY <1>1 DEF Saving
    <2> QED BY <1>1, <2>1, FadeStep
<1>3. NewToken \in Tokens /\ NewToken \in Nat /\ NewToken \notin Issued
    BY NewTokenIsNew DEF GenToken, CInv
<1>4. Issued' = Issued \cup {NewToken}
    BY DEF GenToken, Issued, CInv, TypeOK
<1>5. Stored' = {NewToken}
    <2>1. TokenKey(u) \in Keys /\ \A k \in Keys : code'[k] = NewToken
        BY DEF GenToken, Keys, TokenKey, CInv, TypeOK
    <2>2. NewToken # NoToken
        BY <1>3 DEF CheckoutAssumption
    <2> QED BY <2>1, <2>2 DEF Stored
<1>6. Gate!Open(NewToken, lost)
    BY <1>1, <1>2, <1>3, <1>4, <1>5 DEF Gate!Open, Stored
<1> QED BY <1>3, <1>6 DEF Gate!Next

LEMMA ExpireTokenGate ==
    ASSUME CheckoutAssumption, CInv, Next, NEW k \in Keys, ExpireToken(k)
    PROVE  Gate!Next
<1>1. UNCHANGED <<pages, pc, tradeNo, saved, cpc>>
    BY DEF ExpireToken, webVars
<1>2. Stored' = {}
    <2>1. \A j \in Keys : code'[j] = NoToken
        BY OneKey DEF ExpireToken, CInv, TypeOK
    <2> QED BY <2>1 DEF Stored
<1>3. \A r \in Requests : Saving(r)' <=> Saving(r)
    BY <1>1 DEF Saving
<1> QED BY <1>1, <1>2, <1>3, CloseStep

LEMMA SubmitGate ==
    ASSUME CheckoutAssumption, CInv, Next,
           NEW r \in Requests, NEW u \in Users, NEW t \in Tokens, Submit(r, u, t)
    PROVE  Gate!Next
<1> DEFINE first == Call(r, "verifyToken", 0)
<1>1. first \in Calls /\ first.request = r
    BY CallIn DEF Ops, CheckoutAssumption
<1>2. /\ pc[r] = "new" /\ pc'[r] = "verify" /\ tradeNo'[r] = t /\ t \in Issued /\ t # NoToken
      /\ UNCHANGED <<code, pages, saved, match>>
      /\ tradeNo' = [tradeNo EXCEPT ![r] = t] /\ cpc' = [cpc EXCEPT ![first] = "get"]
      /\ pc' = [pc EXCEPT ![r] = "verify"]
    BY DEF Submit, CInv, TypeOK, Issued, Tokens, CheckoutAssumption
<1>3. ASSUME NEW q \in Requests, q # r PROVE Fate(q)' = Fate(q)
    <2>1. \A c \in Calls : c.request = q => cpc'[c] = cpc[c]
        BY <1>1, <1>2, <1>3 DEF CInv, TypeOK
    <2>2. pc'[q] = pc[q] /\ tradeNo'[q] = tradeNo[q]
        BY <1>2, <1>3 DEF CInv, TypeOK
    <2> QED BY <1>2, <2>1, <2>2, SameFate
<1>4. \A c \in Calls : c.request = r => Harmless(c)'
    <2>1. \A c \in Calls : c.request = r => cpc'[c] \in {"none", "get"}
        BY <1>1, <1>2 DEF CInv, TypeOK, NewInv
    <2> QED BY <2>1 DEF Harmless
<1>5. Barred(r)' <=> t \notin Stored
    BY <1>2 DEF Barred, Stored
<1>6. Fate(r) = "new" /\ Fate(r)' = IF t \in Stored THEN "asking" ELSE "doomed"
    BY <1>2, <1>4, <1>5 DEF Fate, Lost
<1>7. [q \in Requests |-> Fate(q)'] =
        [[q \in Requests |-> Fate(q)] EXCEPT ![r] = IF t \in Stored THEN "asking" ELSE "doomed"]
    BY <1>3, <1>6
<1>8. Issued' = Issued /\ Stored' = Stored
    BY <1>2 DEF Issued, Stored
<1>9. Gate!Ask(r, t)
    BY <1>2, <1>6, <1>7, <1>8 DEF Gate!Ask, Stored
<1> QED BY <1>9 DEF Gate!Next

-----------------------------------------------------------------------------
\* A step that concerns one submission.
OneFate(r) ==
    \/ Fate(r)' = Fate(r)
    \/ Fades(r)
    \/ Fate(r) = "asking" /\ Fate(r)' = "in" /\ Barred(r)
    \/ Fate(r) \in {"asking", "doomed", "in"} /\ Fate(r)' = "out"

LEMMA OneStep ==
    ASSUME CheckoutAssumption, CInv, Next, NEW r \in Requests,
           UNCHANGED <<code, pages, tradeNo, saved>>,
           \A q \in Requests \ {r} : Fate(q)' = Fate(q), OneFate(r)
    PROVE  [Gate!Next]_(Gate!gateVars)
<1> DEFINE now == [q \in Requests |-> Fate(q)]
           then == [q \in Requests |-> Fate(q)']
<1>1. Issued' = Issued /\ Stored' = Stored
    BY DEF Issued, Stored
<1>2. then = [now EXCEPT ![r] = Fate(r)']
    OBVIOUS
<1>3. CASE Fate(r)' = Fate(r)
    <2>1. then = now
        BY <1>3
    <2> QED BY <1>1, <2>1 DEF Gate!gateVars, Stored
<1>4. CASE Fades(r)
    <2>1. pc'[r] # "new" /\ CInv'
        BY <1>4, NextCInv DEF Fades, Fate
    <2>2. tradeNo'[r] # NoToken
        BY <2>1 DEF CInv, FreshInv, CheckoutAssumption
    <2>3. tradeNo[r] \notin Stored'
        BY <1>4, <2>2 DEF Fades, Barred, Stored
    <2>4. then = [q \in Requests |-> IF q \in {r} THEN "doomed" ELSE now[q]]
        BY <1>4 DEF Fades
    <2>5. Gate!Close({r})
        BY <1>1, <1>4, <2>3, <2>4 DEF Gate!Close, Gate!Spoil, Stored, Fades
    <2> QED BY <2>5 DEF Gate!Next
<1>5. CASE Fate(r) = "asking" /\ Fate(r)' = "in" /\ Barred(r)
    <2>1. pc[r] # "new"
        BY <1>5 DEF Fate
    <2>2. tradeNo[r] \notin Stored
        BY <1>5, <2>1, BarredIs
    <2>3. Gate!Admit(r)
        BY <1>1, <1>2, <1>5, <2>2 DEF Gate!Admit, Stored
    <2> QED BY <2>3 DEF Gate!Next
<1>6. CASE Fate(r) \in {"asking", "doomed", "in"} /\ Fate(r)' = "out"
    <2>1. Gate!Leave(r)
        BY <1>1, <1>2, <1>6 DEF Gate!Leave, Stored
    <2> QED BY <2>1 DEF Gate!Next
<1> QED BY <1>3, <1>4, <1>5, <1>6 DEF OneFate

\* What a handler's step leaves alone.
LEMMA HandleOthers ==
    ASSUME CheckoutAssumption, CInv, NEW q \in Requests, Handle(q)
    PROVE  /\ UNCHANGED <<code, pages, tradeNo, saved, match>>
           /\ \A r \in Requests \ {q} : pc'[r] = pc[r]
           /\ \A c \in Calls : c.request # q => cpc'[c] = cpc[c]
<1> USE DEF CInv, TypeOK
<1>1. UNCHANGED <<code, pages, tradeNo, saved, match>>
    BY DEF Handle, Proceed, Verified, Saved, Take, CheckPrices, CheckSkuNum, Join, Timeout, callVars
<1>2. \A r \in Requests \ {q} : pc'[r] = pc[r]
    BY DEF Handle, Proceed, Verified, Saved, Take, CheckPrices, CheckSkuNum, Join, Timeout
<1>3. ASSUME NEW c \in Calls, c.request # q PROVE cpc'[c] = cpc[c]
    <2>1. c # Awaited(q) /\ \A op, n : c # Call(q, op, n)
        BY <1>3, AwaitedIn DEF Call
    <2>2. CASE Verified(q) \/ Saved(q)
        BY <2>1, <2>2 DEF Verified, Saved, Take
    <2>3. CASE Join(q)
        BY <2>1, <2>3 DEF Join
    <2>4. CASE Timeout(q)
        <3> DEFINE dropped == [cpc EXCEPT ![Awaited(q)] =
                                  IF @ \in {"yes", "no"} THEN "none" ELSE @]
        <3>1. Awaited(q) \in Calls
            BY AwaitedIn
        <3>2. dropped \in [Calls -> {"none", "get", "watch", "exec", "insert", "yes", "no"}]
            BY <3>1
        <3>3. dropped[c] = cpc[c]
            BY <2>1
        <3>4. \/ cpc' = dropped
              \/ \E x : cpc' = [dropped EXCEPT ![Call(q, OpOf(q), attempt[q] + 1)] = x]
            BY <2>4 DEF Timeout
        <3> HIDE DEF dropped
        <3> QED BY <2>1, <3>2, <3>3, <3>4
    <2>5. CASE UNCHANGED cpc
        BY <2>5
    <2> QED BY <2>2, <2>3, <2>4, <2>5 DEF Handle, Proceed, CheckPrices, CheckSkuNum, callVars
<1> QED BY <1>1, <1>2, <1>3

\* A handler's step lets a submission in, turns it down, or leaves its fate alone.
LEMMA HandleGate ==
    ASSUME CheckoutAssumption, GInv, Next, NEW q \in Requests, Handle(q)
    PROVE  [Gate!Next]_(Gate!gateVars)
<1> CInv /\ AttemptInv
    BY DEF GInv
<1>1. /\ UNCHANGED <<code, pages, tradeNo, saved, match>>
      /\ \A r \in Requests \ {q} : pc'[r] = pc[r]
      /\ \A c \in Calls : c.request # q => cpc'[c] = cpc[c]
    BY HandleOthers
<1>2. \A r \in Requests \ {q} : Fate(r)' = Fate(r)
    BY <1>1, SameFate
<1>3. HandlerStep(q) /\ pc[q] # "new"
    BY HandlerSteps DEF Handle, Proceed, Verified, Saved, CheckPrices, CheckSkuNum, Join, Timeout
<1>4. CASE pc[q] = "verify"
    <2> SUFFICES OneFate(q)
        BY <1>1, <1>2, OneStep
    <2>1. ~Saving(q) /\ ~Saving(q)'
        BY <1>4, NotSaving, SavingBefore
    <2>2. CASE pc'[q] = "verify"
        BY <1>4, <2>1, <2>2, FateStays DEF OneFate
    <2>3. CASE pc'[q] \in {"refused", "failed"}
        BY <1>4, <2>1, <2>3 DEF OneFate, Fate
    <2>4. CASE pc'[q] = "prices" /\ cpc[Awaited(q)] = "yes"
        <3>1. Awaited(q) \in Calls /\ Awaited(q).request = q
            BY AwaitedIn DEF CInv
        <3>2. Barred(q)
            BY <2>4, <3>1 DEF CInv, CallInv
        <3>3. ~Lost(q)
            BY <2>4, <3>1 DEF Lost, Harmless
        <3>4. Fate(q) = "asking" /\ Fate(q)' = "in"
            BY <1>4, <2>4, <3>3 DEF Fate
        <3> QED BY <3>2, <3>4 DEF OneFate
    <2> QED BY <1>3, <1>4, <2>2, <2>3, <2>4 DEF HandlerStep
<1>5. CASE pc[q] \notin {"new", "verify"}
    <2>1. pc'[q] \notin {"new", "verify"}
        BY <1>3, <1>5 DEF HandlerStep
    <2>2. Fate(q) \in {"in", "out"} /\ Fate(q)' \in {"in", "out"}
        BY <1>5, <2>1 DEF Fate
    <2>3. Fate(q) = "out" => Fate(q)' = "out"
        <3>1. Fate(q) = "out" => pc[q] \in {"refused", "failed"} /\ ~Saving(q)
            BY <1>5 DEF Fate
        <3>2. pc[q] \in {"refused", "failed"} => pc'[q] = pc[q]
            BY <1>3, Fixed
        <3> QED BY <3>1, <3>2, SavingBefore DEF Fate
    <2>4. OneFate(q)
        BY <2>2, <2>3 DEF OneFate
    <2> QED BY <1>1, <1>2, <2>4, OneStep
<1> QED BY <1>3, <1>4, <1>5

-----------------------------------------------------------------------------
\* A step of the service uses the token up, saves an order, or neither.
LEMMA ServeGate ==
    ASSUME CheckoutAssumption, GInv, Next, NEW c \in Calls, Serve(c)
    PROVE  [Gate!Next]_(Gate!gateVars)
<1> CInv /\ AttemptInv
    BY DEF GInv
<1> DEFINE r == c.request
<1>1. r \in Requests
    BY CallRequest
<1>2. CASE ReadToken(c) \/ WatchKey(c)
    <2>1. UNCHANGED <<code, pages, pc, tradeNo, saved>>
        BY <1>2 DEF ReadToken, WatchKey, webVars
    <2>2. \A d \in Calls : cpc'[d] = "insert" <=> cpc[d] = "insert"
        BY <1>2 DEF ReadToken, WatchKey, CInv, TypeOK
    <2>3. Stored' = Stored /\ \A q \in Requests : Saving(q)' <=> Saving(q)
        BY <2>1, <2>2 DEF Stored, Saving
    <2> QED BY <2>1, <2>3, CloseStep
<1>3. CASE ExecToken(c)
    <2>1. UNCHANGED <<pages, pc, tradeNo, saved>>
        BY <1>3 DEF ExecToken, webVars
    <2>2. cpc[c] = "exec" /\ Answer(c, Valid(c)) /\ Valid(c) \in BOOLEAN
        BY <1>3 DEF ExecToken, Valid, CInv, TypeOK
    <2>3. /\ cpc'[c] \in {"none", "yes", "no"}
          /\ \A d \in Calls \ {c} : cpc'[d] = cpc[d]
        BY <2>2, AnswerSteps DEF CInv
    <2>4. \A q \in Requests : Saving(q)' <=> Saving(q)
        BY <2>2, <2>3 DEF Saving
    <2>5. Stored' \in {Stored, {}}
        <3>1. code' = code \/ \A k \in Keys : code'[k] = NoToken
            BY <1>3, OneKey DEF ExecToken, Deleted, CInv, TypeOK
        <3> QED BY <3>1 DEF Stored
    <2> QED BY <2>1, <2>4, <2>5, CloseStep
<1>4. CASE SaveOrder(c)
    <2>1. /\ UNCHANGED <<code, pages, pc, tradeNo, match>> /\ cpc[c] = "insert"
          /\ cpc'[c] \in {"none", "yes", "no"}
          /\ \A d \in Calls \ {c} : cpc'[d] = cpc[d]
        BY <1>4, AnswerSteps DEF SaveOrder, CInv, webVars
    <2>2. ASSUME NEW q \in Requests \ {r} PROVE Fate(q)' = Fate(q)
        BY <2>1, SameFate
    <2>3. Saving(r) /\ pc[r] \notin {"new", "verify"}
        <3>1. Saving(r)
            BY <2>1 DEF Saving
        <3> QED BY <1>1, <3>1, NotSaving
    <2>4. Fate(r) = "in" /\ Fate(r)' \in {"in", "out"}
        BY <2>1, <2>3 DEF Fate
    <2>5. CASE UNCHANGED saved
        BY <1>1, <2>1, <2>2, <2>4, <2>5, OneStep DEF OneFate
    <2>6. CASE saved' = [saved EXCEPT ![r] = @ + 1]
        <3>1. [q \in Requests |-> Fate(q)'] = [[q \in Requests |-> Fate(q)] EXCEPT ![r] = Fate(r)']
            BY <1>1, <2>2
        <3>2. Issued' = Issued /\ Stored' = Stored
            BY <2>1 DEF Issued, Stored
        <3>3. Gate!Save(r)
            BY <1>1, <2>1, <2>4, <2>6, <3>1, <3>2 DEF Gate!Save, Stored
        <3> QED BY <1>1, <3>3 DEF Gate!Next
    <2> QED BY <1>4, <2>5, <2>6 DEF SaveOrder
<1> QED BY <1>2, <1>3, <1>4 DEF Serve

\* Every step is one of the token's promise, or none.
LEMMA GateStep ==
    ASSUME CheckoutAssumption, GInv, [Next]_vars
    PROVE  [Gate!Next]_(Gate!gateVars)
<1>1. CASE UNCHANGED vars
    <2>1. UNCHANGED <<code, pages, pc, tradeNo, cpc, match, saved>>
        BY <1>1 DEF vars, webVars, callVars
    <2>2. \A r \in Requests : Fate(r)' = Fate(r)
        BY <2>1, SameFate
    <2> QED BY <2>1, <2>2 DEF Gate!gateVars, Issued
<1>2. CASE Next
    BY <1>2, GenTokenGate, ExpireTokenGate, SubmitGate, HandleGate, ServeGate DEF Next, GInv
<1> QED BY <1>1, <1>2

LEMMA GateInit == ASSUME Init PROVE Gate!Init
<1>1. Issued = {} /\ Stored = {}
    BY DEF Init, Issued, Stored
<1>2. \A r \in Requests : Fate(r) = "new"
    BY DEF Init, Fate
<1> QED BY <1>1, <1>2 DEF Init, Gate!Init, Stored

\* Whatever is repeated, expires or races in genToken, verifyToken and
\* saveOrder, an order is saved only for a submission whose token was the valid
\* one when it was made, and that was let in when that token was gone.
THEOREM CheckoutKeepsGate == Spec => KeepsGate
<1>1. Init => Gate!Init
    BY GateInit
<1>2. GInv /\ [Next]_vars => [Gate!Next]_(Gate!gateVars)
    BY GateStep, CheckoutAssumption
<1> QED BY <1>1, <1>2, GInvAlways, PTL DEF Spec, KeepsGate, Gate!Spec
=============================================================================
