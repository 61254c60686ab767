-------------------------------- MODULE Cart --------------------------------
(***************************************************************************)
(* The cart service (src/gmall_cart_service): addCard, cartList,           *)
(* mergeCartList and checkCart, called over Dubbo by several threads at    *)
(* once, over the table cart_info, two Redis keys per user and the pool of *)
(* Redis connections.                                                      *)
(*                                                                         *)
(*  - Nothing here is a transaction: every statement commits on its own,   *)
(*    every Redis command is a step of its own.                            *)
(*  - cart:<user>:info is meant to be a hash from sku to cart line.        *)
(*    loadCartCache decrements it first, which makes a number of an absent *)
(*    key and fails on a hash; hash commands in turn fail on a number.     *)
(*  - An exception between getJedis and close leaves the connection out of *)
(*    the pool, and cartList never closes its own.  getJedis fails after   *)
(*    two seconds without one.                                             *)
(*  - The table has no key but its id, so the ON DUPLICATE KEY of the      *)
(*    merge never applies: a merge always inserts.                         *)
(*                                                                         *)
(* A cart line is its quantity; prices, names and the isChecked flag are   *)
(* left out.  addCard cannot insert: for a sku that is not in the cart it  *)
(* reads the quantity of the line it has not found, and fails.  So the     *)
(* lines there are come from outside the service (InitLines).              *)
(***************************************************************************)
EXTENDS Integers, Sequences, FiniteSets

CONSTANTS
    Members,    \* ids of users with an account
    Guests,     \* temporary ids of visitors, whose carts are merged on login
    Skus,
    Threads,    \* threads of the Dubbo provider
    InitLines,  \* cart_info at the start: a sequence of <<user, sku, quantity>>
    MaxTotal,   \* connections of the Redis pool
    MaxCalls,   \* calls (a bound)
    MaxAdded,   \* the most addCard adds in one call (a bound)
    MaxRestarts \* restarts of the service (a bound)

Users == Members \cup Guests

ASSUME CartAssumption ==
    /\ Members \cap Guests = {} /\ IsFiniteSet(Threads)
    /\ InitLines \in Seq(Users \X Skus \X Nat)
    /\ MaxTotal \in Nat /\ MaxCalls \in Nat /\ MaxAdded \in Nat /\ MaxRestarts \in Nat

VARIABLES
    lines,      \* cart_info in the order of its ids
    info,       \* cart:<user>:info as a hash, from sku to quantity
    counters,   \* the users whose cart:<user>:info is a number instead
    expires,    \* the users whose cart:<user>:info has a time to live
    checked,    \* cart:<user>:checked, from sku to quantity
    free,       \* connections in the pool
    pc, job,    \* where a thread stands; the arguments and locals of its call
    calls, restarts,
    past        \* the quantities a user's lines of a sku have ever had (history)

redisVars == <<info, counters, expires, checked>>
boundVars == <<calls, restarts>>
vars == <<lines, redisVars, free, pc, job, boundVars, past>>

\* A hash gives every sku a quantity or NoField; Redis has no empty hashes.
NoField == -1
NoHash  == [s \in Skus |-> NoField]
Hashes  == [Skus -> Nat \cup {NoField}]
NoJob   == [user |-> "", guest |-> "", sku |-> "", num |-> 0, more |-> 0, line |-> 0,
            found |-> NoHash, check |-> ""]

KeyExists(u) == u \in counters \/ info[u] # NoHash

\* hset, and hmset, which leaves other fields alone.
HSet_Increment(h, s, n) == [h EXCEPT ![s] = IF @ = NoField THEN n ELSE @ + n]
HSet(h, s, n) == [h EXCEPT ![s] = n]
HMSet(h, f)   == [s \in Skus |-> IF f[s] # NoField THEN f[s] ELSE h[s]]

LinesOf(u)      == {i \in DOMAIN lines : lines[i].user = u /\ lines[i].kept}
LinesFor(u, s)  == {i \in LinesOf(u) : lines[i].sku = s}
Quantities(u, s) == {lines[i].num : i \in LinesFor(u, s)}

Places == {"idle", "update", "put", "delete", "select", "decr", "fill", "expire",
           "exists", "get", "hset", "mark"}

-----------------------------------------------------------------------------
Line   == [user : Users, sku : Skus, num : Nat, due : Nat, kept : BOOLEAN]
Job    == [user : Users \cup {""}, guest : Guests \cup {""}, sku : Skus \cup {""}, num : Nat,
           more : Nat, line : Nat, found : Hashes, check : {"", "0", "1"}]

TypeOK ==
    /\ lines \in Seq(Line)
    /\ info \in [Users -> Hashes]
    /\ counters \subseteq {u \in Users : info[u] = NoHash}
    /\ expires \subseteq {u \in Users : KeyExists(u)}
    /\ checked \in [Users -> Hashes]
    /\ free \in 0 .. MaxTotal
    /\ pc \in [Threads -> Places] /\ job \in [Threads -> Job]
    /\ calls \in 0 .. MaxCalls /\ restarts \in 0 .. MaxRestarts
    /\ past \in [Users -> [Skus -> SUBSET Nat]]

Init ==
    /\ lines = [i \in DOMAIN InitLines |->
                   [user |-> InitLines[i][1], sku |-> InitLines[i][2],
                    num |-> InitLines[i][3], due |-> InitLines[i][3], kept |-> TRUE]]
    /\ info = [u \in Users |-> NoHash] /\ counters = {} /\ expires = {}
    /\ checked = [u \in Users |-> NoHash]
    /\ free = MaxTotal /\ calls = 0 /\ restarts = 0
    /\ pc = [t \in Threads |-> "idle"] /\ job = [t \in Threads |-> NoJob]
    /\ past = [u \in Users |-> [s \in Skus |->
                  {InitLines[i][3] : i \in {j \in DOMAIN InitLines :
                      InitLines[j][1] = u /\ InitLines[j][2] = s}}]]

-----------------------------------------------------------------------------
\* Threads and connections.

Goto(t, place) == pc' = [pc EXCEPT ![t] = place]

\* The call returns, or throws.
End(t) == Goto(t, "idle") /\ job' = [job EXCEPT ![t] = NoJob]

\* A call arrives at a thread that has none.  (One that then waits for its first
\* connection in vain changes nothing and is left out.)
Call(t) == pc[t] = "idle" /\ calls < MaxCalls /\ calls' = calls + 1 /\ UNCHANGED restarts

GetJedis == free > 0 /\ free' = free - 1
Close    == free' = free + 1
\* A command on a connection that is taken from the pool and given back.
InJedis_CloseTwice == free > 0 /\ free' = free + 1
InJedis  == free > 0 /\ UNCHANGED free

\* Where a call under way is about to take a connection.
Borrowing_Forever == {}
Borrowing == {"put", "decr", "get"}

\* getJedis has waited two seconds for a connection.
GetJedisFails(t) ==
    /\ pc[t] \in Borrowing /\ free = 0
    /\ End(t)
    /\ UNCHANGED <<lines, redisVars, free, boundVars, past>>

\* A Redis command answers with an error: the connection is never closed.
JedisFails(t) == End(t) /\ UNCHANGED redisVars

-----------------------------------------------------------------------------
\* addCard.

\* selectOne.  Without a line of the sku the sum fails, with several selectOne.
AddCard(t, u, s, n) ==
    /\ Call(t)
    /\ \/ \E i \in DOMAIN lines :
             /\ LinesFor(u, s) = {i}
             /\ job' = [job EXCEPT ![t] = [NoJob EXCEPT !.user = u, !.sku = s, !.more = n,
                                                        !.line = i, !.num = lines[i].num + n]]
             /\ Goto(t, "update")
       \/ Cardinality(LinesFor(u, s)) # 1 /\ UNCHANGED <<pc, job>>
    /\ UNCHANGED <<lines, redisVars, free, past>>

\* The catalogue service does not answer: getSkuInfo throws.
GetSkuInfoFails(t) ==
    /\ pc[t] = "update"
    /\ End(t)
    /\ UNCHANGED <<lines, redisVars, free, boundVars, past>>

\* updateByPrimaryKeySelective sets the sum; a deleted line stays deleted.
Summed(l, n, more) ==
    [user |-> l.user, sku |-> l.sku, num |-> n, due |-> l.due + more, kept |-> l.kept]
Update(t) ==
    LET i == job[t].line
    IN  /\ pc[t] = "update"
        /\ lines' = [lines EXCEPT ![i] =
                       IF @.kept THEN Summed(@, job[t].num, job[t].more) ELSE @]
        /\ past' = [past EXCEPT ![job[t].user][job[t].sku] =
                       @ \cup (IF lines[i].kept THEN {job[t].num} ELSE {})]
        /\ Goto(t, "put")
        /\ UNCHANGED <<redisVars, free, job, boundVars>>

\* hset of what was written.
Put(t) ==
    LET u == job[t].user
    IN  /\ pc[t] = "put"
        /\ \/ /\ u \notin counters /\ InJedis
              /\ info' = [info EXCEPT ![u] = HSet(@, job[t].sku, job[t].num)]
              /\ End(t) /\ UNCHANGED <<counters, expires, checked>>
           \/ u \in counters /\ GetJedis /\ JedisFails(t)
        /\ UNCHANGED <<lines, boundVars, past>>

-----------------------------------------------------------------------------
\* cartList and loadCartCache.

\* hvals; the connection is never closed.
CartList(t, u) ==
    /\ Call(t) /\ GetJedis
    /\ \/ /\ ~KeyExists(u)
          /\ job' = [job EXCEPT ![t] = [NoJob EXCEPT !.user = u]]
          /\ Goto(t, "select")
       \/ KeyExists(u) /\ UNCHANGED <<pc, job>>
    /\ UNCHANGED <<lines, redisVars, past>>

\* What follows loadCartCache: checkCart goes on, the others return.
Loaded(t) == IF job[t].check # "" THEN Goto(t, "get") /\ UNCHANGED job ELSE End(t)

\* Of several lines of a sku the map keeps the one the query returned last.
Select(t) ==
    LET u == job[t].user
    IN  /\ pc[t] = "select"
        /\ \/ LinesOf(u) = {} /\ Loaded(t)
           \/ \E f \in [Skus -> {lines[i].num : i \in LinesOf(u)} \cup {NoField}] :
                 /\ LinesOf(u) # {}
                 /\ \A s \in Skus : IF LinesFor(u, s) = {} THEN f[s] = NoField
                                    ELSE f[s] \in Quantities(u, s)
                 /\ job' = [job EXCEPT ![t].found = f]
                 /\ Goto(t, "decr")
        /\ UNCHANGED <<lines, redisVars, free, boundVars, past>>

Decr(t) ==
    LET u == job[t].user
    IN  /\ pc[t] = "decr" /\ GetJedis
        /\ \/ /\ info[u] = NoHash
              /\ counters' = counters \cup {u}
              /\ Goto(t, "fill") /\ UNCHANGED <<info, expires, checked, job>>
           \/ info[u] # NoHash /\ JedisFails(t)
        /\ UNCHANGED <<lines, boundVars, past>>

\* hmset.
Fill(t) ==
    LET u == job[t].user
    IN  /\ pc[t] = "fill"
        /\ \/ /\ u \notin counters
              /\ info' = [info EXCEPT ![u] = HMSet(@, job[t].found)]
              /\ Goto(t, "expire") /\ UNCHANGED <<counters, expires, checked, job>>
           \/ u \in counters /\ JedisFails(t)
        /\ UNCHANGED <<lines, free, boundVars, past>>

SetExpire(t) ==
    /\ pc[t] = "expire" /\ Close
    /\ expires' = expires \cup {u \in {job[t].user} : KeyExists(u)}
    /\ Loaded(t)
    /\ UNCHANGED <<lines, info, counters, checked, boundVars, past>>

-----------------------------------------------------------------------------
\* mergeCartList, and then loadCartCache of the member.

\* The lines of a set in the order of their ids.
Listings(S) ==
    {f \in [1 .. Cardinality(S) -> S] : /\ \A i \in S : \E k \in DOMAIN f : f[k] = i
                                        /\ \A j, k \in DOMAIN f : j < k => f[j] < f[k]}
Copied(i, m) == [user |-> m, sku |-> lines[i].sku, num |-> lines[i].num,
                 due |-> lines[i].num, kept |-> TRUE]
Copies_NewOnly(m, g) ==
    {[k \in DOMAIN f |-> Copied(f[k], m)] :
        f \in Listings({i \in LinesOf(g) : LinesFor(m, lines[i].sku) = {}})}
Copies(m, g) == {[k \in DOMAIN f |-> Copied(f[k], m)] : f \in Listings(LinesOf(g))}

\* INSERT ... SELECT.
MergeCartList(t, m, g) ==
    /\ Call(t)
    /\ \E c \in Copies(m, g) : lines' = lines \o c
    /\ past' = [past EXCEPT ![m] = [s \in Skus |-> past[m][s] \cup Quantities(g, s)]]
    /\ job' = [job EXCEPT ![t] = [NoJob EXCEPT !.user = m, !.guest = g]]
    /\ Goto(t, "delete")
    /\ UNCHANGED <<redisVars, free>>

\* All the guest has by now, copied or not.
Delete(t) ==
    /\ pc[t] = "delete"
    /\ lines' = [i \in DOMAIN lines |->
                    [lines[i] EXCEPT !.kept = @ /\ lines[i].user # job[t].guest]]
    /\ Goto(t, "select")
    /\ UNCHANGED <<redisVars, free, job, boundVars, past>>

-----------------------------------------------------------------------------
\* checkCart: loadCartCacheIfNotExits, then the line in both hashes.

\* ttl and expire: the key gets ten seconds more, or eight or nine if it had no
\* time to live.
Touch(t, u, s, mark) ==
    /\ Call(t) /\ GetJedis
    /\ job' = [job EXCEPT ![t] = [NoJob EXCEPT !.user = u, !.sku = s, !.check = mark]]
    /\ expires' = expires \cup {v \in {u} : KeyExists(v)}
    /\ Goto(t, "exists")
    /\ UNCHANGED <<lines, info, counters, checked, past>>

Exists(t) ==
    /\ pc[t] = "exists" /\ Close
    /\ Goto(t, IF KeyExists(job[t].user) THEN "get" ELSE "select")
    /\ UNCHANGED <<lines, redisVars, job, boundVars, past>>

\* hget.  A line that is not there is null, and setIsChecked fails on it.
Get(t) ==
    LET n == info[job[t].user][job[t].sku]
    IN  /\ pc[t] = "get" /\ GetJedis
        /\ \/ /\ n # NoField
              /\ job' = [job EXCEPT ![t].num = n]
              /\ Goto(t, "hset")
           \/ n = NoField /\ End(t)
        /\ UNCHANGED <<lines, redisVars, boundVars, past>>

SetLine(t) ==
    LET u == job[t].user
    IN  /\ pc[t] = "hset"
        /\ \/ /\ u \notin counters
              /\ info' = [info EXCEPT ![u] = HSet(@, job[t].sku, job[t].num)]
              /\ Goto(t, "mark") /\ UNCHANGED <<counters, expires, checked, job>>
           \/ u \in counters /\ JedisFails(t)
        /\ UNCHANGED <<lines, free, boundVars, past>>

\* hset or hdel in the hash of checked lines.
Mark(t) ==
    /\ pc[t] = "mark" /\ Close
    /\ checked' = [checked EXCEPT ![job[t].user][job[t].sku] =
                      IF job[t].check = "1" THEN job[t].num ELSE NoField]
    /\ End(t)
    /\ UNCHANGED <<lines, info, counters, expires, boundVars, past>>

-----------------------------------------------------------------------------
\* The environment.

Expire(u) ==
    /\ u \in expires
    /\ info' = [info EXCEPT ![u] = NoHash]
    /\ counters' = counters \ {u} /\ expires' = expires \ {u}
    /\ UNCHANGED <<lines, checked, free, pc, job, boundVars, past>>

ExpireChecked(u) ==
    /\ checked[u] # NoHash
    /\ checked' = [checked EXCEPT ![u] = NoHash]
    /\ UNCHANGED <<lines, info, counters, expires, free, pc, job, boundVars, past>>

\* The service is restarted: its calls are gone, its pool is new.
Restart ==
    /\ restarts < MaxRestarts /\ restarts' = restarts + 1
    /\ free' = MaxTotal
    /\ pc' = [t \in Threads |-> "idle"] /\ job' = [t \in Threads |-> NoJob]
    /\ UNCHANGED <<lines, redisVars, calls, past>>

Start(t) ==
    \/ \E u \in Users, s \in Skus, n \in 1 .. MaxAdded : AddCard(t, u, s, n)
    \/ \E u \in Users : CartList(t, u)
    \/ \E m \in Members, g \in Guests : MergeCartList(t, m, g)
    \/ \E u \in Users, s \in Skus, mark \in {"0", "1"} : Touch(t, u, s, mark)

\* The steps of a call under way.
Step(t) ==
    \/ GetSkuInfoFails(t) \/ Update(t) \/ Put(t)
    \/ Select(t) \/ Decr(t) \/ Fill(t) \/ SetExpire(t)
    \/ Delete(t)
    \/ Exists(t) \/ Get(t) \/ SetLine(t) \/ Mark(t)
    \/ GetJedisFails(t)

Next ==
    \/ \E t \in Threads : Start(t) \/ Step(t)
    \/ \E u \in Users : Expire(u) \/ ExpireChecked(u)
    \/ Restart

\* Each thread of the provider goes on with its call.
Spec == Init /\ [][Next]_vars /\ \A t \in Threads : WF_vars(Step(t))

-----------------------------------------------------------------------------
\* Properties.

\* What a member is shown, and what he takes to the checkout, were once the
\* quantities of his cart: whatever additions, listings, checks, merges,
\* expiries and restarts do to the two hashes in between, neither holds a
\* quantity that no line of his in the table has ever had.
MembersSeeRealQuantities ==
    \A m \in Members :
        \A s \in Skus : /\ info[m][s] \in past[m][s] \cup {NoField}
                        /\ checked[m][s] \in past[m][s] \cup {NoField}

\* A guest's line does not vanish in a merge, though copying and deleting are
\* two statements and the service may stop in between: a line that has been
\* deleted was copied to a member, and is still there.
Saved(i) == \E j \in DOMAIN lines : /\ j > i /\ lines[j].kept
                                    /\ lines[j].user \in Members
                                    /\ lines[j].sku = lines[i].sku
NoLineVanishes == \A i \in DOMAIN lines : lines[i].kept \/ Saved(i)

\* However many connections have leaked, every call ends: at the latest when
\* getJedis has waited for two seconds.
CallsEnd == \A t \in Threads : []<>(pc[t] = "idle")

\* A line's quantity is what was put in, all additions together: "if the
\* product is there, only its quantity has to be increased".
NoAdditionLost == \A i \in DOMAIN lines : lines[i].kept => lines[i].num = lines[i].due
=============================================================================
