----------------------------- MODULE CartProofs -----------------------------
(***************************************************************************)
(* Type correctness of the cart service, that members are only ever shown  *)
(* quantities their carts have had, and that no line vanishes in a merge,  *)
(* for any users, skus, threads, lines and number of connections.          *)
(***************************************************************************)
EXTENDS Cart, FiniteSetTheorems, TLAPS

\* Members' lines are never deleted, and past knows every line's quantity.
LinesInv ==
    \A i \in DOMAIN lines :
        /\ lines[i].user \in Members => lines[i].kept
        /\ lines[i].num \in past[lines[i].user][lines[i].sku]

Had(u, s, n) == n \in past[u][s]

\* What a thread knows in the middle of a call is still true, or was once.
JobOK(t) ==
    /\ pc[t] # "idle" => job[t].user \in Users
    /\ pc[t] \in {"update", "put", "exists", "get", "hset", "mark"} \/ job[t].check # ""
          => job[t].sku \in Skus
    /\ pc[t] = "update" => /\ job[t].line \in DOMAIN lines
                           /\ lines[job[t].line].user = job[t].user
                           /\ lines[job[t].line].sku = job[t].sku
    /\ pc[t] \in {"put", "hset", "mark"} /\ job[t].user \in Members
          => Had(job[t].user, job[t].sku, job[t].num)
    /\ pc[t] \in {"decr", "fill"}
          => \A s \in Skus : job[t].found[s] = NoField \/ Had(job[t].user, s, job[t].found[s])
    /\ pc[t] = "delete" => /\ job[t].guest \in Guests
                           /\ \A i \in LinesOf(job[t].guest) : Saved(i)

JobInv == \A t \in Threads : JobOK(t)

\* A thread between getJedis and close holds a connection, and the pool has no
\* more than are left.
Holding  == {"fill", "expire", "exists", "hset", "mark"}
Holds(p) == IF p \in Holding THEN 1 ELSE 0
PoolInv  == free + Cardinality({t \in Threads : pc[t] \in Holding}) <= MaxTotal

RedisOK ==
    /\ info \in [Users -> Hashes]
    /\ counters \subseteq {u \in Users : info[u] = NoHash}
    /\ expires \subseteq {u \in Users : KeyExists(u)}
    /\ checked \in [Users -> Hashes]

IInv == /\ TypeOK /\ LinesInv /\ JobInv /\ PoolInv
        /\ MembersSeeRealQuantities /\ NoLineVanishes

-----------------------------------------------------------------------------
\* The table and its history only grow: lines keep their owner and sku,
\* members' lines stay, and new lines are members'.
Grows ==
    /\ \A u \in Users, s \in Skus : past[u][s] \subseteq past'[u][s]
    /\ \A i \in DOMAIN lines :
          /\ i \in DOMAIN lines'
          /\ lines'[i].user = lines[i].user /\ lines'[i].sku = lines[i].sku
          /\ lines'[i].kept => lines[i].kept
          /\ lines[i].user \in Members => lines'[i].kept = lines[i].kept
    /\ \A i \in DOMAIN lines' \ DOMAIN lines : lines'[i].user \in Members

LEMMA SavedStays ==
    ASSUME Grows, NEW i \in DOMAIN lines, Saved(i)
    PROVE  Saved(i)'
<1>1. PICK j \in DOMAIN lines : /\ j > i /\ lines[j].kept
                                /\ lines[j].user \in Members
                                /\ lines[j].sku = lines[i].sku
    BY DEF Saved
<1>2. /\ j \in DOMAIN lines' /\ lines'[j].kept /\ lines'[j].user \in Members
      /\ lines'[j].sku = lines'[i].sku
    BY <1>1 DEF Grows
<1> QED BY <1>1, <1>2 DEF Saved

\* A thread that does not move keeps what it knows while the table grows.
LEMMA OthersKnow ==
    ASSUME IInv, Grows, NEW t \in Threads, JobOK(t), pc'[t] = pc[t], job'[t] = job[t]
    PROVE  JobOK(t)'
<1>1. pc[t] # "idle" => job[t].user \in Users
    BY DEF JobOK
<1>2. job[t].user \in Users /\ job[t].sku \in Skus
         => past[job[t].user][job[t].sku] \subseteq past'[job[t].user][job[t].sku]
    BY DEF Grows
<1>3. job[t].user \in Users
         => \A s \in Skus : past[job[t].user][s] \subseteq past'[job[t].user][s]
    BY DEF Grows
<1>4. ASSUME pc[t] = "delete"
      PROVE  \A i \in LinesOf(job[t].guest)' : Saved(i)'
    <2> SUFFICES ASSUME NEW i \in LinesOf(job[t].guest)' PROVE Saved(i)'
        OBVIOUS
    <2>1. i \in DOMAIN lines' /\ lines'[i].user = job[t].guest /\ lines'[i].kept
        BY DEF LinesOf
    <2>2. job[t].guest \notin Members
        BY <1>4, CartAssumption DEF JobOK
    <2>3. i \in DOMAIN lines /\ lines[i].user = job[t].guest /\ lines[i].kept
        BY <2>1, <2>2 DEF Grows
    <2>4. Saved(i)
        BY <1>4, <2>3 DEF JobOK, LinesOf
    <2> QED BY <2>3, <2>4, SavedStays
<1>5. pc[t] = "update" => /\ job[t].line \in DOMAIN lines'
                          /\ lines'[job[t].line].user = job[t].user
                          /\ lines'[job[t].line].sku = job[t].sku
    BY DEF JobOK, Grows
<1> QED BY <1>1, <1>2, <1>3, <1>4, <1>5 DEF JobOK, Had

LEMMA SameTable ==
    ASSUME UNCHANGED <<lines, past>>
    PROVE  Grows
BY DEF Grows

\* The pool's account when one thread moves.
LEMMA PoolStep ==
    ASSUME IInv, NEW t \in Threads, NEW place, Goto(t, place), free' \in Nat,
           free' + Holds(place) <= free + Holds(pc[t])
    PROVE  PoolInv' /\ free' \in 0 .. MaxTotal
<1> DEFINE H == {u \in Threads : pc[u] \in Holding}
           G == {u \in Threads : pc'[u] \in Holding}
<1>1. IsFiniteSet(H) /\ IsFiniteSet(G) /\ Cardinality(H) \in Nat /\ Cardinality(G) \in Nat
    <2>1. H \subseteq Threads /\ G \subseteq Threads
        OBVIOUS
    <2>2. IsFiniteSet(H) /\ IsFiniteSet(G)
        BY <2>1, FS_Subset, CartAssumption
    <2> QED BY <2>2, FS_CardinalityType
<1>2. pc'[t] = place /\ \A u \in Threads \ {t} : pc'[u] = pc[u]
    BY DEF IInv, TypeOK, Goto
<1>3. Cardinality(G) - Holds(place) = Cardinality(H) - Holds(pc[t])
    <2>1. CASE place \in Holding /\ pc[t] \notin Holding
        <3>1. G = H \cup {t} /\ t \notin H
            BY <1>2, <2>1
        <3> QED BY <1>1, <2>1, <3>1, FS_AddElement DEF Holds
    <2>2. CASE place \notin Holding /\ pc[t] \in Holding
        <3>1. H = G \cup {t} /\ t \notin G
            BY <1>2, <2>2
        <3> QED BY <1>1, <2>2, <3>1, FS_AddElement DEF Holds
    <2>3. CASE place \in Holding <=> pc[t] \in Holding
        <3>1. G = H
            BY <1>2, <2>3
        <3> QED BY <1>1, <2>3, <3>1 DEF Holds
    <2> QED BY <2>1, <2>2, <2>3
<1>4. free + Cardinality(H) <= MaxTotal /\ free \in Nat /\ MaxTotal \in Nat
    BY CartAssumption DEF IInv, TypeOK, PoolInv
<1>5. free' + Cardinality(G) <= MaxTotal
    BY <1>1, <1>3, <1>4 DEF Holds
<1> QED BY <1>1, <1>4, <1>5 DEF PoolInv

\* A step of one thread that leaves the table and its history alone.
LEMMA OwnStep ==
    ASSUME IInv, UNCHANGED <<lines, past>>,
           NEW t \in Threads, NEW place \in Places, Goto(t, place),
           NEW new \in Job, job' = [job EXCEPT ![t] = new], JobOK(t)',
           RedisOK', MembersSeeRealQuantities', free' \in Nat,
           free' + Holds(place) <= free + Holds(pc[t]),
           calls' \in 0 .. MaxCalls, restarts' = restarts
    PROVE  IInv'
<1>1. /\ job' \in [Threads -> Job] /\ pc' \in [Threads -> Places]
      /\ \A u \in Threads \ {t} : pc'[u] = pc[u] /\ job'[u] = job[u]
    BY DEF IInv, TypeOK, Goto
<1>2. PoolInv' /\ free' \in 0 .. MaxTotal
    BY PoolStep
<1>3. TypeOK'
    BY <1>1, <1>2 DEF IInv, TypeOK, RedisOK
<1>4. JobInv'
    BY <1>1, SameTable, OthersKnow DEF JobInv, IInv
<1>5. LinesInv' /\ NoLineVanishes'
    BY DEF IInv, LinesInv, NoLineVanishes, Saved
<1> QED BY <1>2, <1>3, <1>4, <1>5 DEF IInv

\* The end of a call.
LEMMA EndStep ==
    ASSUME IInv, UNCHANGED <<lines, past, boundVars>>, NEW t \in Threads, End(t),
           RedisOK', MembersSeeRealQuantities', free' \in Nat,
           free' + Holds("idle") <= free + Holds(pc[t])
    PROVE  IInv'
<1>1. NoJob \in Job /\ NoJob.check = "" /\ "idle" \in Places
    BY DEF NoJob, Job, NoHash, Hashes, Places
<1>2. pc'[t] = "idle" /\ job'[t] = NoJob
    BY DEF IInv, TypeOK, End, Goto
<1>3. JobOK(t)'
    BY <1>1, <1>2 DEF JobOK
<1>4. Goto(t, "idle") /\ job' = [job EXCEPT ![t] = NoJob]
    BY DEF End
<1>5. calls' \in 0 .. MaxCalls /\ restarts' = restarts
    BY DEF IInv, TypeOK, boundVars
<1> QED BY <1>1, <1>3, <1>4, <1>5, OwnStep

\* A call that fails and changes nothing but the pool.
LEMMA FailStep ==
    ASSUME IInv, UNCHANGED <<lines, redisVars, past, boundVars>>, NEW t \in Threads, End(t),
           free' \in Nat, free' + Holds("idle") <= free + Holds(pc[t])
    PROVE  IInv'
<1>1. MembersSeeRealQuantities' /\ RedisOK'
    BY DEF IInv, TypeOK, MembersSeeRealQuantities, RedisOK, redisVars, KeyExists
<1> QED BY <1>1, EndStep

-----------------------------------------------------------------------------
\* One lemma per action.

LEMMA SameRedis ==
    ASSUME IInv, UNCHANGED <<redisVars, past>>
    PROVE  RedisOK' /\ MembersSeeRealQuantities'
BY DEF IInv, TypeOK, MembersSeeRealQuantities, RedisOK, redisVars, KeyExists

\* A call that is over as soon as it has come.
LEMMA NoCallStep ==
    ASSUME IInv, NEW t \in Threads, Call(t), UNCHANGED <<pc, job, lines, redisVars, past>>,
           free' \in Nat, free' <= free
    PROVE  IInv'
<1>1. calls' \in 0 .. MaxCalls /\ restarts' = restarts
    BY CartAssumption DEF Call, IInv, TypeOK
<1>2. pc[t] \in Places /\ Goto(t, pc[t]) /\ job[t] \in Job /\ job' = [job EXCEPT ![t] = job[t]]
    BY DEF IInv, TypeOK, Goto
<1>3. JobOK(t)'
    BY SameTable, OthersKnow DEF IInv, JobInv
<1>4. free' + Holds(pc[t]) <= free + Holds(pc[t])
    <2>1. free \in Nat /\ Holds(pc[t]) \in Nat
        BY DEF IInv, TypeOK, Holds
    <2> QED BY <2>1
<1>5. RedisOK' /\ MembersSeeRealQuantities'
    BY SameRedis
<1>6. UNCHANGED <<lines, past>> /\ free' \in Nat
    OBVIOUS
<1> QED BY <1>1, <1>2, <1>3, <1>4, <1>5, <1>6, OwnStep

LEMMA AddCardStep ==
    ASSUME IInv, NEW t \in Threads, NEW u \in Users, NEW s \in Skus, NEW n \in 1 .. MaxAdded,
           AddCard(t, u, s, n)
    PROVE  IInv'
<1>1. Call(t) /\ UNCHANGED <<lines, redisVars, free, past>>
    BY DEF AddCard
<1>2. CASE UNCHANGED <<pc, job>>
    BY <1>1, <1>2, NoCallStep DEF IInv, TypeOK
<1>3. CASE ~UNCHANGED <<pc, job>>
    <2>1. PICK i \in DOMAIN lines :
             /\ LinesFor(u, s) = {i}
             /\ job' = [job EXCEPT ![t] = [NoJob EXCEPT !.user = u, !.sku = s, !.more = n,
                                                        !.line = i, !.num = lines[i].num + n]]
             /\ Goto(t, "update")
        BY <1>3 DEF AddCard
    <2> DEFINE new == [NoJob EXCEPT !.user = u, !.sku = s, !.more = n,
                                    !.line = i, !.num = lines[i].num + n]
    <2>2. lines[i] \in Line /\ i \in Nat /\ lines[i].user = u /\ lines[i].sku = s
        BY <2>1 DEF IInv, TypeOK, LinesFor, LinesOf
    <2>3. n \in Nat /\ lines[i].num + n \in Nat
        BY <2>2, CartAssumption DEF Line
    <2>4. new \in Job /\ new.user = u /\ new.sku = s /\ new.line = i
        BY <2>2, <2>3 DEF NoJob, Job, NoHash, Hashes
    <2>5. pc'[t] = "update" /\ job'[t] = new
        BY <2>1 DEF IInv, TypeOK, Goto
    <2>6. JobOK(t)'
        BY <1>1, <2>2, <2>4, <2>5 DEF JobOK
    <2>7. calls' \in 0 .. MaxCalls /\ restarts' = restarts /\ pc[t] = "idle"
        BY <1>1, CartAssumption DEF Call, IInv, TypeOK
    <2>8. "update" \in Places /\ Holds("update") = 0 /\ Holds(pc[t]) = 0 /\ free' \in Nat
          /\ free' <= free
        BY <1>1, <2>7 DEF Places, Holds, Holding, IInv, TypeOK
    <2>9. free' + Holds("update") <= free + Holds(pc[t])
        BY <1>1, <2>8 DEF IInv, TypeOK
    <2> HIDE DEF new
    <2>10. job' = [job EXCEPT ![t] = new]
        BY <2>1 DEF new
    <2> QED BY <1>1, <2>1, <2>4, <2>6, <2>7, <2>8, <2>9, <2>10, SameRedis, OwnStep
<1> QED BY <1>2, <1>3

\* The sum is written to a line that is there, and becomes part of its history.
LEMMA UpdateStep ==
    ASSUME IInv, NEW t \in Threads, Update(t)
    PROVE  IInv'
<1> DEFINE i == job[t].line
           u == job[t].user
           s == job[t].sku
<1>0. pc[t] = "update"
    BY DEF Update
<1>1. /\ i \in DOMAIN lines /\ lines[i] \in Line /\ u \in Users /\ s \in Skus
      /\ lines[i].user = u /\ lines[i].sku = s /\ job[t] \in Job
    <2>1. JobOK(t)
        BY DEF IInv, JobInv
    <2>2. i \in DOMAIN lines /\ lines[i].user = u /\ lines[i].sku = s /\ u \in Users /\ s \in Skus
        BY <1>0, <2>1 DEF JobOK
    <2>3. lines[i] \in Line /\ job[t] \in Job
        BY <2>2 DEF IInv, TypeOK
    <2> QED BY <2>2, <2>3
<1>2. PICK new \in Line :
         /\ lines' = [lines EXCEPT ![i] = new]
         /\ new.user = u /\ new.sku = s /\ new.kept = lines[i].kept
         /\ new.num = IF lines[i].kept THEN job[t].num ELSE lines[i].num
    <2> DEFINE new == IF lines[i].kept THEN Summed(lines[i], job[t].num, job[t].more)
                                       ELSE lines[i]
    <2>1. new \in Line
        <3>1. /\ lines[i].user \in Users /\ lines[i].sku \in Skus /\ lines[i].due \in Nat
              /\ lines[i].kept \in BOOLEAN /\ job[t].num \in Nat /\ job[t].more \in Nat
            BY <1>1 DEF Line, Job
        <3>2. Summed(lines[i], job[t].num, job[t].more) \in Line
            BY <3>1 DEF Line, Summed
        <3> QED BY <1>1, <3>2
    <2>2. lines' = [lines EXCEPT ![i] = new]
        BY DEF Update
    <2>3. /\ new.user = u /\ new.sku = s /\ new.kept = lines[i].kept
          /\ new.num = IF lines[i].kept THEN job[t].num ELSE lines[i].num
        BY <1>1 DEF Line, Summed
    <2> QED BY <2>1, <2>2, <2>3
<1>3. /\ lines' \in Seq(Line) /\ DOMAIN lines' = DOMAIN lines
      /\ lines'[i] = new /\ \A j \in DOMAIN lines \ {i} : lines'[j] = lines[j]
    BY <1>1, <1>2 DEF IInv, TypeOK
<1>4. /\ past' \in [Users -> [Skus -> SUBSET Nat]]
      /\ past'[u][s] = past[u][s] \cup (IF lines[i].kept THEN {job[t].num} ELSE {})
      /\ \A v \in Users, x \in Skus : past[v][x] \subseteq past'[v][x]
    <2>1. past' = [past EXCEPT ![u][s] = @ \cup (IF lines[i].kept THEN {job[t].num} ELSE {})]
        BY DEF Update
    <2>2. job[t].num \in Nat
        BY <1>1 DEF Job
    <2> QED BY <1>1, <2>1, <2>2 DEF IInv, TypeOK
<1>5. Grows
    BY <1>1, <1>2, <1>3, <1>4 DEF Grows
<1>6. /\ pc' \in [Threads -> Places] /\ pc'[t] = "put"
      /\ \A v \in Threads \ {t} : pc'[v] = pc[v]
    BY DEF Update, Goto, Places, IInv, TypeOK
<1>7. TypeOK'
    BY <1>3, <1>4, <1>6 DEF IInv, TypeOK, Update, redisVars, boundVars, KeyExists
<1>8. LinesInv'
    <2> SUFFICES ASSUME NEW j \in DOMAIN lines
                 PROVE  /\ lines'[j].user \in Members => lines'[j].kept
                        /\ lines'[j].num \in past'[lines'[j].user][lines'[j].sku]
        BY <1>3 DEF LinesInv
    <2>1. lines[j] \in Line
        BY DEF IInv, TypeOK
    <2>2. CASE j # i
        BY <1>3, <1>4, <2>1, <2>2 DEF IInv, LinesInv, Line
    <2>3. CASE j = i
        BY <1>1, <1>2, <1>3, <1>4, <2>3 DEF IInv, LinesInv
    <2> QED BY <2>2, <2>3
<1>9. JobOK(t)'
    <2>1. u \in Members => job[t].num \in past'[u][s]
        BY <1>1, <1>4 DEF IInv, LinesInv
    <2>2. job' = job
        BY DEF Update
    <2> QED BY <1>1, <1>6, <2>1, <2>2 DEF JobOK, Had
<1>10. JobInv'
    BY <1>5, <1>6, <1>9, OthersKnow DEF JobInv, IInv, Update
<1>11. MembersSeeRealQuantities'
    BY <1>4, CartAssumption DEF IInv, MembersSeeRealQuantities, Update, redisVars, Users
<1>12. NoLineVanishes'
    BY <1>2, <1>3, <1>5, SavedStays DEF IInv, NoLineVanishes
<1>13. PoolInv'
    <2>1. Goto(t, "put") /\ free' = free /\ Holds("put") = 0 /\ Holds(pc[t]) = 0
        BY <1>0 DEF Update, Holds, Holding
    <2> QED BY <2>1, PoolStep DEF IInv, TypeOK
<1> QED BY <1>7, <1>8, <1>10, <1>11, <1>12, <1>13 DEF IInv

LEMMA GetSkuInfoFailsStep ==
    ASSUME IInv, NEW t \in Threads, GetSkuInfoFails(t)
    PROVE  IInv'
<1>1. free' \in Nat /\ free' + Holds("idle") <= free + Holds(pc[t])
    BY DEF GetSkuInfoFails, Holds, Holding, IInv, TypeOK
<1> QED BY <1>1, FailStep DEF GetSkuInfoFails

LEMMA GetJedisFailsStep ==
    ASSUME IInv, NEW t \in Threads, GetJedisFails(t)
    PROVE  IInv'
<1>1. free' \in Nat /\ free' + Holds("idle") <= free + Holds(pc[t])
    BY DEF GetJedisFails, Holds, Holding, IInv, TypeOK
<1> QED BY <1>1, FailStep DEF GetJedisFails

\* hset of a quantity that the line has had, if the cart is a member's.
LEMMA HSetStep ==
    ASSUME IInv, NEW u \in Users, NEW s \in Skus, NEW n \in Nat,
           u \in Members => Had(u, s, n), u \notin counters,
           info' = [info EXCEPT ![u] = HSet(@, s, n)],
           UNCHANGED <<counters, expires, checked, past>>
    PROVE  RedisOK' /\ MembersSeeRealQuantities'
<1>1. /\ info \in [Users -> Hashes] /\ info[u] \in Hashes
      /\ HSet(info[u], s, n) \in Hashes /\ HSet(info[u], s, n)[s] = n
      /\ \A x \in Skus \ {s} : HSet(info[u], s, n)[x] = info[u][x]
    BY DEF IInv, TypeOK, Hashes, HSet
<1>2. /\ info' \in [Users -> Hashes] /\ info'[u] = HSet(info[u], s, n)
      /\ \A v \in Users \ {u} : info'[v] = info[v]
    BY <1>1
<1>3. info'[u] # NoHash
    BY <1>1, <1>2 DEF NoHash, NoField
<1>4. RedisOK'
    BY <1>2, <1>3 DEF IInv, TypeOK, RedisOK, KeyExists
<1>5. MembersSeeRealQuantities'
    BY <1>1, <1>2 DEF IInv, MembersSeeRealQuantities, Had, Users
<1> QED BY <1>4, <1>5

\* What a thread about to write a line to a hash writes.
LEMMA Writing ==
    ASSUME IInv, NEW t \in Threads, pc[t] \in {"put", "hset", "mark"}
    PROVE  /\ job[t].user \in Users /\ job[t].sku \in Skus /\ job[t].num \in Nat
           /\ job[t].user \in Members => Had(job[t].user, job[t].sku, job[t].num)
<1>1. JobOK(t)
    BY DEF IInv, JobInv
<1>2. job[t] \in Job
    BY DEF IInv, TypeOK
<1>3. job[t].num \in Nat
    BY <1>2 DEF Job
<1> QED BY <1>1, <1>3 DEF JobOK

LEMMA PutStep ==
    ASSUME IInv, NEW t \in Threads, Put(t)
    PROVE  IInv'
<1>1. pc[t] = "put" /\ UNCHANGED <<lines, boundVars, past>> /\ End(t)
    BY DEF Put, JedisFails
<1>2. free' \in Nat /\ free' + Holds("idle") <= free + Holds(pc[t])
    BY <1>1 DEF Put, InJedis, GetJedis, Holds, Holding, IInv, TypeOK
<1>3. CASE UNCHANGED redisVars
    BY <1>1, <1>2, <1>3, FailStep
<1>4. CASE ~UNCHANGED redisVars
    <2>1. /\ job[t].user \notin counters
          /\ info' = [info EXCEPT ![job[t].user] = HSet(@, job[t].sku, job[t].num)]
          /\ UNCHANGED <<counters, expires, checked>>
        BY <1>4 DEF Put, JedisFails
    <2>2. RedisOK' /\ MembersSeeRealQuantities'
        BY <1>1, <2>1, Writing, HSetStep
    <2> QED BY <1>1, <1>2, <2>2, EndStep
<1> QED BY <1>3, <1>4

LEMMA CartListStep ==
    ASSUME IInv, NEW t \in Threads, NEW u \in Users, CartList(t, u)
    PROVE  IInv'
<1>1. Call(t) /\ GetJedis /\ UNCHANGED <<lines, redisVars, past>>
    BY DEF CartList
<1>2. free' \in Nat /\ free' <= free
    BY <1>1 DEF GetJedis, IInv, TypeOK
<1>3. CASE UNCHANGED <<pc, job>>
    BY <1>1, <1>2, <1>3, NoCallStep
<1>4. CASE ~UNCHANGED <<pc, job>>
    <2> DEFINE new == [NoJob EXCEPT !.user = u]
    <2>1. job' = [job EXCEPT ![t] = new] /\ Goto(t, "select")
        BY <1>4 DEF CartList
    <2>2. new \in Job /\ new.user = u /\ new.check = ""
        BY DEF NoJob, Job, NoHash, Hashes
    <2>3. pc'[t] = "select" /\ job'[t] = new
        BY <2>1 DEF IInv, TypeOK, Goto
    <2>4. JobOK(t)'
        BY <2>2, <2>3 DEF JobOK
    <2> HIDE DEF new
    <2>5. calls' \in 0 .. MaxCalls /\ restarts' = restarts /\ pc[t] = "idle"
        BY <1>1, CartAssumption DEF Call, IInv, TypeOK
    <2>6. "select" \in Places /\ free' + Holds("select") <= free + Holds(pc[t])
        BY <1>1, <2>5 DEF GetJedis, Places, Holds, Holding, IInv, TypeOK
    <2> QED BY <1>1, <1>2, <2>1, <2>2, <2>4, <2>5, <2>6, SameRedis, OwnStep
<1> QED BY <1>3, <1>4

\* The end of loadCartCache.
LEMMA LoadedStep ==
    ASSUME IInv, UNCHANGED <<lines, past, boundVars>>, NEW t \in Threads, Loaded(t),
           pc[t] # "idle", RedisOK', MembersSeeRealQuantities', free' \in Nat,
           free' + Holds("idle") <= free + Holds(pc[t])
    PROVE  IInv'
<1>1. CASE End(t)
    BY <1>1, EndStep
<1>2. CASE ~End(t)
    <2>1. job[t].check # "" /\ Goto(t, "get") /\ UNCHANGED job
        BY <1>2 DEF Loaded
    <2>2. job[t] \in Job /\ job' = [job EXCEPT ![t] = job[t]] /\ pc'[t] = "get"
        BY <2>1 DEF IInv, TypeOK, Goto
    <2>3. JobOK(t)
        BY DEF IInv, JobInv
    <2>4. JobOK(t)'
        BY <2>1, <2>2, <2>3 DEF JobOK
    <2>5. "get" \in Places /\ Holds("get") = Holds("idle")
        BY DEF Places, Holds, Holding
    <2>6. calls' \in 0 .. MaxCalls /\ restarts' = restarts
        BY DEF IInv, TypeOK, boundVars
    <2> QED BY <2>1, <2>2, <2>4, <2>5, <2>6, OwnStep
<1> QED BY <1>1, <1>2

\* Every quantity read from the table is one that its line has.
LEMMA SelectStep ==
    ASSUME IInv, NEW t \in Threads, Select(t)
    PROVE  IInv'
<1>1. pc[t] = "select" /\ UNCHANGED <<lines, redisVars, free, boundVars, past>>
    BY DEF Select
<1>2. free' \in Nat /\ free' + Holds("idle") <= free + Holds(pc[t])
    BY <1>1 DEF Holds, Holding, IInv, TypeOK
<1>3. RedisOK' /\ MembersSeeRealQuantities'
    BY <1>1, SameRedis
<1>4. CASE Loaded(t)
    BY <1>1, <1>2, <1>3, <1>4, LoadedStep
<1>5. CASE ~Loaded(t)
    <2> DEFINE u == job[t].user
    <2>1. PICK f \in [Skus -> {lines[i].num : i \in LinesOf(u)} \cup {NoField}] :
             /\ \A s \in Skus : IF LinesFor(u, s) = {} THEN f[s] = NoField
                                ELSE f[s] \in Quantities(u, s)
             /\ job' = [job EXCEPT ![t].found = f]
             /\ Goto(t, "decr")
        BY <1>5 DEF Select
    <2>2. job[t] \in Job /\ u \in Users
        BY <1>1 DEF IInv, TypeOK, JobInv, JobOK
    <2>3. \A i \in LinesOf(u) : lines[i] \in Line
        BY DEF IInv, TypeOK, LinesOf
    <2>4. \A s \in Skus : f[s] = NoField \/ (f[s] \in Nat /\ Had(u, s, f[s]))
        <3> SUFFICES ASSUME NEW s \in Skus, f[s] # NoField
                     PROVE  f[s] \in Nat /\ Had(u, s, f[s])
            OBVIOUS
        <3>1. PICK i \in LinesFor(u, s) : f[s] = lines[i].num
            BY <2>1 DEF Quantities
        <3>2. i \in DOMAIN lines /\ lines[i].user = u /\ lines[i].sku = s /\ i \in LinesOf(u)
            BY <3>1 DEF LinesFor, LinesOf
        <3>3. lines[i].num \in Nat
            BY <2>3, <3>2 DEF Line
        <3> QED BY <3>1, <3>2, <3>3 DEF IInv, LinesInv, Had
    <2>5. f \in Hashes
        <3>1. f = [s \in Skus |-> f[s]]
            OBVIOUS
        <3> QED BY <2>4, <3>1 DEF Hashes
    <2> DEFINE new == [job[t] EXCEPT !.found = f]
    <2>6. new \in Job /\ new.found = f /\ new.user = u /\ new.sku = job[t].sku
          /\ new.check = job[t].check
        BY <2>2, <2>5 DEF Job
    <2>7. job' = [job EXCEPT ![t] = new]
        BY <2>1, <2>2 DEF Job
    <2> HIDE DEF new
    <2>8. pc'[t] = "decr" /\ job'[t] = new
        BY <2>1, <2>7 DEF IInv, TypeOK, Goto
    <2>9. JobOK(t)'
        <3>1. JobOK(t)
            BY DEF IInv, JobInv
        <3> QED BY <1>1, <2>2, <2>4, <2>6, <2>8, <3>1 DEF JobOK, Had
    <2>10. "decr" \in Places /\ Holds("decr") = Holds("idle")
        BY DEF Places, Holds, Holding
    <2>11. calls' \in 0 .. MaxCalls /\ restarts' = restarts
        BY <1>1 DEF IInv, TypeOK, boundVars
    <2> QED BY <1>1, <1>2, <1>3, <2>1, <2>6, <2>7, <2>9, <2>10, <2>11, OwnStep
<1> QED BY <1>4, <1>5

\* A thread that goes on with what it knows.
LEMMA GoOnStep ==
    ASSUME IInv, UNCHANGED <<lines, past, boundVars, job>>,
           NEW t \in Threads, NEW place \in Places, Goto(t, place),
           place \in {"fill", "expire", "mark", "select", "get"}, pc[t] # "idle",
           place = "fill" => pc[t] = "decr",
           place = "mark" => pc[t] = "hset",
           place = "get" => pc[t] = "exists",
           RedisOK', MembersSeeRealQuantities', free' \in Nat,
           free' + Holds(place) <= free + Holds(pc[t])
    PROVE  IInv'
<1>1. job[t] \in Job /\ job' = [job EXCEPT ![t] = job[t]] /\ pc'[t] = place
    BY DEF IInv, TypeOK, Goto
<1>2. JobOK(t)
    BY DEF IInv, JobInv
<1>3. JobOK(t)'
    BY <1>1, <1>2 DEF JobOK, Had
<1>4. calls' \in 0 .. MaxCalls /\ restarts' = restarts
    BY DEF IInv, TypeOK, boundVars
<1> QED BY <1>1, <1>3, <1>4, OwnStep

LEMMA DecrStep ==
    ASSUME IInv, NEW t \in Threads, Decr(t)
    PROVE  IInv'
<1> DEFINE u == job[t].user
<1>1. pc[t] = "decr" /\ GetJedis /\ UNCHANGED <<lines, boundVars, past>>
    BY DEF Decr
<1>2. free' \in Nat /\ free' + Holds("idle") <= free + Holds(pc[t])
      /\ free' + Holds("fill") <= free + Holds(pc[t]) /\ "fill" \in Places
    BY <1>1 DEF GetJedis, Holds, Holding, IInv, TypeOK, Places
<1>3. CASE JedisFails(t)
    BY <1>1, <1>2, <1>3, FailStep DEF JedisFails
<1>4. CASE ~JedisFails(t)
    <2>1. /\ info[u] = NoHash /\ counters' = counters \cup {u}
          /\ Goto(t, "fill") /\ UNCHANGED <<info, expires, checked, job>>
        BY <1>4 DEF Decr
    <2>2. u \in Users
        BY <1>1 DEF IInv, JobInv, JobOK
    <2>3. RedisOK'
        BY <2>1, <2>2 DEF IInv, TypeOK, RedisOK, KeyExists
    <2>4. MembersSeeRealQuantities'
        BY <1>1, <2>1 DEF IInv, MembersSeeRealQuantities
    <2> QED BY <1>1, <1>2, <2>1, <2>3, <2>4, GoOnStep
<1> QED BY <1>3, <1>4

LEMMA FillStep ==
    ASSUME IInv, NEW t \in Threads, Fill(t)
    PROVE  IInv'
<1> DEFINE u == job[t].user
           f == job[t].found
<1>1. pc[t] = "fill" /\ UNCHANGED <<lines, free, boundVars, past>>
    BY DEF Fill
<1>2. free' \in Nat /\ free' + Holds("idle") <= free + Holds(pc[t])
      /\ free' + Holds("expire") <= free + Holds(pc[t]) /\ "expire" \in Places
    BY <1>1 DEF Holds, Holding, IInv, TypeOK, Places
<1>3. CASE JedisFails(t)
    BY <1>1, <1>2, <1>3, FailStep DEF JedisFails
<1>4. CASE ~JedisFails(t)
    <2>1. /\ u \notin counters /\ info' = [info EXCEPT ![u] = HMSet(@, f)]
          /\ Goto(t, "expire") /\ UNCHANGED <<counters, expires, checked, job>>
        BY <1>4 DEF Fill
    <2>2. JobOK(t) /\ job[t] \in Job
        BY DEF IInv, JobInv, TypeOK
    <2>3. u \in Users /\ \A s \in Skus : f[s] = NoField \/ Had(u, s, f[s])
        BY <1>1, <2>2 DEF JobOK
    <2>4. f \in Hashes
        BY <2>2 DEF Job
    <2>5. /\ info[u] \in Hashes /\ HMSet(info[u], f) \in Hashes
          /\ \A s \in Skus : HMSet(info[u], f)[s] = IF f[s] # NoField THEN f[s] ELSE info[u][s]
        BY <2>3, <2>4 DEF IInv, TypeOK, Hashes, HMSet
    <2>6. /\ info' \in [Users -> Hashes] /\ info'[u] = HMSet(info[u], f)
          /\ \A v \in Users \ {u} : info'[v] = info[v]
        BY <2>1, <2>3, <2>5 DEF IInv, TypeOK
    <2>7. info[u] # NoHash => info'[u] # NoHash
        <3> SUFFICES ASSUME info[u] # NoHash PROVE info'[u] # NoHash
            OBVIOUS
        <3>1. PICK s \in Skus : info[u][s] # NoField
            BY <2>5 DEF NoHash, Hashes
        <3>2. info'[u][s] # NoField
            BY <2>5, <2>6, <3>1
        <3> QED BY <3>2 DEF NoHash
    <2>8. RedisOK'
        BY <2>1, <2>6, <2>7 DEF IInv, TypeOK, RedisOK, KeyExists
    <2>9. MembersSeeRealQuantities'
        BY <1>1, <2>1, <2>3, <2>5, <2>6 DEF IInv, MembersSeeRealQuantities, Had, Users
    <2> QED BY <1>1, <1>2, <2>1, <2>8, <2>9, GoOnStep
<1> QED BY <1>3, <1>4

LEMMA SetExpireStep ==
    ASSUME IInv, NEW t \in Threads, SetExpire(t)
    PROVE  IInv'
<1>1. pc[t] = "expire" /\ Loaded(t)
      /\ UNCHANGED <<lines, info, counters, checked, boundVars, past>>
    BY DEF SetExpire
<1>2. free' \in Nat /\ free' + Holds("idle") <= free + Holds(pc[t])
    BY <1>1 DEF SetExpire, Close, Holds, Holding, IInv, TypeOK
<1>3. job[t].user \in Users
    BY <1>1 DEF IInv, JobInv, JobOK
<1>4. RedisOK'
    BY <1>1, <1>3 DEF SetExpire, IInv, TypeOK, RedisOK, KeyExists
<1>5. MembersSeeRealQuantities'
    BY <1>1 DEF IInv, MembersSeeRealQuantities
<1> QED BY <1>1, <1>2, <1>4, <1>5, LoadedStep

LEMMA TouchStep ==
    ASSUME IInv, NEW t \in Threads, NEW u \in Users, NEW s \in Skus, NEW mark \in {"0", "1"},
           Touch(t, u, s, mark)
    PROVE  IInv'
<1> DEFINE new == [NoJob EXCEPT !.user = u, !.sku = s, !.check = mark]
<1>1. /\ Call(t) /\ GetJedis /\ job' = [job EXCEPT ![t] = new] /\ Goto(t, "exists")
      /\ UNCHANGED <<lines, info, counters, checked, past>>
    BY DEF Touch
<1>2. new \in Job /\ new.user = u /\ new.sku = s
    BY DEF NoJob, Job, NoHash, Hashes
<1>3. pc'[t] = "exists" /\ job'[t] = new
    BY <1>1 DEF IInv, TypeOK, Goto
<1>4. JobOK(t)'
    BY <1>2, <1>3 DEF JobOK
<1> HIDE DEF new
<1>5. calls' \in 0 .. MaxCalls /\ restarts' = restarts /\ pc[t] = "idle"
    BY <1>1, CartAssumption DEF Call, IInv, TypeOK
<1>6. "exists" \in Places /\ free' \in Nat /\ free' + Holds("exists") <= free + Holds(pc[t])
    BY <1>1, <1>5 DEF GetJedis, Places, Holds, Holding, IInv, TypeOK
<1>7. RedisOK'
    BY <1>1 DEF Touch, IInv, TypeOK, RedisOK, KeyExists
<1>8. MembersSeeRealQuantities'
    BY <1>1 DEF IInv, MembersSeeRealQuantities
<1> QED BY <1>1, <1>2, <1>4, <1>5, <1>6, <1>7, <1>8, OwnStep

LEMMA ExistsStep ==
    ASSUME IInv, NEW t \in Threads, Exists(t)
    PROVE  IInv'
<1>1. pc[t] = "exists" /\ UNCHANGED <<lines, redisVars, job, boundVars, past>> /\ Close
    BY DEF Exists
<1>2. \E place \in {"get", "select"} : Goto(t, place)
    BY DEF Exists
<1>3. /\ {"get", "select"} \subseteq Places /\ free' \in Nat
      /\ \A place \in {"get", "select"} : free' + Holds(place) <= free + Holds(pc[t])
    BY <1>1 DEF Close, Places, Holds, Holding, IInv, TypeOK
<1> QED BY <1>1, <1>2, <1>3, SameRedis, GoOnStep
LEMMA GetStep ==
    ASSUME IInv, NEW t \in Threads, Get(t)
    PROVE  IInv'
<1> DEFINE u == job[t].user
           s == job[t].sku
           n == info[u][s]
<1>1. pc[t] = "get" /\ GetJedis /\ UNCHANGED <<lines, redisVars, boundVars, past>>
    BY DEF Get
<1>2. free' \in Nat /\ free' + Holds("idle") <= free + Holds(pc[t])
      /\ free' + Holds("hset") <= free + Holds(pc[t]) /\ "hset" \in Places
    BY <1>1 DEF GetJedis, Holds, Holding, IInv, TypeOK, Places
<1>3. CASE End(t)
    BY <1>1, <1>2, <1>3, FailStep
<1>4. CASE ~End(t)
    <2>1. n # NoField /\ job' = [job EXCEPT ![t].num = n] /\ Goto(t, "hset")
        BY <1>4 DEF Get
    <2>2. JobOK(t) /\ job[t] \in Job
        BY DEF IInv, JobInv, TypeOK
    <2>3. u \in Users /\ s \in Skus
        BY <1>1, <2>2 DEF JobOK
    <2>4. n \in Nat
        <3>1. info[u] \in Hashes
            BY <2>3 DEF IInv, TypeOK
        <3>2. n \in Nat \cup {NoField}
            BY <2>3, <3>1 DEF Hashes
        <3> QED BY <2>1, <3>2
    <2>5. u \in Members => Had(u, s, n)
        BY <2>1, <2>3 DEF IInv, MembersSeeRealQuantities, Had
    <2> DEFINE new == [job[t] EXCEPT !.num = n]
    <2>6. new \in Job /\ new.num = n /\ new.user = u /\ new.sku = s
        BY <2>2, <2>4 DEF Job
    <2>7. job' = [job EXCEPT ![t] = new]
        BY <2>1, <2>2 DEF Job
    <2> HIDE DEF new
    <2>8. pc'[t] = "hset" /\ job'[t] = new
        BY <2>1, <2>7 DEF IInv, TypeOK, Goto
    <2>9. JobOK(t)'
        BY <1>1, <2>3, <2>5, <2>6, <2>8 DEF JobOK, Had
    <2>10. calls' \in 0 .. MaxCalls /\ restarts' = restarts
        BY <1>1 DEF IInv, TypeOK, boundVars
    <2> QED BY <1>1, <1>2, <2>1, <2>6, <2>7, <2>9, <2>10, SameRedis, OwnStep
<1> QED BY <1>3, <1>4

LEMMA SetLineStep ==
    ASSUME IInv, NEW t \in Threads, SetLine(t)
    PROVE  IInv'
<1>1. pc[t] = "hset" /\ UNCHANGED <<lines, free, boundVars, past>>
    BY DEF SetLine
<1>2. free' \in Nat /\ free' + Holds("idle") <= free + Holds(pc[t])
      /\ free' + Holds("mark") <= free + Holds(pc[t]) /\ "mark" \in Places
    BY <1>1 DEF Holds, Holding, IInv, TypeOK, Places
<1>3. CASE JedisFails(t)
    BY <1>1, <1>2, <1>3, FailStep DEF JedisFails
<1>4. CASE ~JedisFails(t)
    <2>1. /\ job[t].user \notin counters
          /\ info' = [info EXCEPT ![job[t].user] = HSet(@, job[t].sku, job[t].num)]
          /\ Goto(t, "mark") /\ UNCHANGED <<counters, expires, checked, job>>
        BY <1>4 DEF SetLine
    <2>2. RedisOK' /\ MembersSeeRealQuantities'
        BY <1>1, <2>1, Writing, HSetStep
    <2> QED BY <1>1, <1>2, <2>1, <2>2, GoOnStep
<1> QED BY <1>3, <1>4

LEMMA MarkStep ==
    ASSUME IInv, NEW t \in Threads, Mark(t)
    PROVE  IInv'
<1> DEFINE u == job[t].user
           s == job[t].sku
           n == IF job[t].check = "1" THEN job[t].num ELSE NoField
<1>1. /\ pc[t] = "mark" /\ End(t) /\ UNCHANGED <<lines, info, counters, expires, boundVars, past>>
      /\ checked' = [checked EXCEPT ![u][s] = n]
    BY DEF Mark
<1>2. free' \in Nat /\ free' + Holds("idle") <= free + Holds(pc[t])
    BY <1>1 DEF Mark, Close, Holds, Holding, IInv, TypeOK
<1>3. /\ u \in Users /\ s \in Skus /\ n \in Nat \cup {NoField}
      /\ u \in Members => n = NoField \/ Had(u, s, n)
    BY <1>1, Writing
<1> HIDE DEF n
<1>4. /\ checked' \in [Users -> Hashes] /\ checked'[u][s] = n
      /\ \A v \in Users, x \in Skus :
            v # u \/ x # s => checked'[v][x] = checked[v][x]
    BY <1>1, <1>3 DEF IInv, TypeOK, Hashes
<1>5. RedisOK'
    BY <1>1, <1>4 DEF IInv, TypeOK, RedisOK, KeyExists
<1>6. MembersSeeRealQuantities'
    BY <1>1, <1>3, <1>4 DEF IInv, MembersSeeRealQuantities, Had, Users
<1> QED BY <1>1, <1>2, <1>5, <1>6, EndStep

-----------------------------------------------------------------------------
\* A merge, in its two statements.

\* What INSERT ... SELECT adds: a copy of every line of the guest.
LEMMA CopiesOf ==
    ASSUME IInv, NEW m \in Members, NEW g \in Guests, NEW c \in Copies(m, g)
    PROVE  /\ c \in Seq(Line)
           /\ \A k \in DOMAIN c : \E i \in LinesOf(g) : c[k] = Copied(i, m)
           /\ \A i \in LinesOf(g) : \E k \in DOMAIN c : c[k] = Copied(i, m)
<1>1. PICK f \in Listings(LinesOf(g)) : c = [k \in DOMAIN f |-> Copied(f[k], m)]
    BY DEF Copies
<1>2. Cardinality(LinesOf(g)) \in Nat
    <2>1. LinesOf(g) \subseteq 1 .. Len(lines) /\ Len(lines) \in Nat
        BY DEF LinesOf, IInv, TypeOK
    <2>2. IsFiniteSet(1 .. Len(lines))
        BY <2>1, FS_Interval
    <2>3. IsFiniteSet(LinesOf(g))
        BY <2>1, <2>2, FS_Subset
    <2> QED BY <2>3, FS_CardinalityType
<1>3. /\ f \in [1 .. Cardinality(LinesOf(g)) -> LinesOf(g)]
      /\ \A i \in LinesOf(g) : \E k \in DOMAIN f : f[k] = i
    BY DEF Listings
<1>4. \A i \in LinesOf(g) : Copied(i, m) \in Line
    <2> SUFFICES ASSUME NEW i \in LinesOf(g) PROVE Copied(i, m) \in Line
        OBVIOUS
    <2>1. lines[i] \in Line
        BY DEF IInv, TypeOK, LinesOf
    <2> QED BY <2>1 DEF Copied, Line, Users
<1>5. c \in Seq(Line)
    <2>1. c \in [1 .. Cardinality(LinesOf(g)) -> Line]
        BY <1>1, <1>3, <1>4
    <2> QED BY <1>2, <2>1
<1> QED BY <1>1, <1>3, <1>5

LEMMA MergeCartListStep ==
    ASSUME IInv, NEW t \in Threads, NEW m \in Members, NEW g \in Guests, MergeCartList(t, m, g)
    PROVE  IInv'
<1> DEFINE new == [NoJob EXCEPT !.user = m, !.guest = g]
<1>1. /\ Call(t) /\ job' = [job EXCEPT ![t] = new] /\ Goto(t, "delete")
      /\ past' = [past EXCEPT ![m] = [s \in Skus |-> past[m][s] \cup Quantities(g, s)]]
      /\ UNCHANGED <<redisVars, free>>
    BY DEF MergeCartList
<1>2. PICK c \in Copies(m, g) : lines' = lines \o c
    BY DEF MergeCartList
<1>3. m \in Users /\ g \in Users /\ m # g
    BY CartAssumption DEF Users
<1>4. c \in Seq(Line) /\ lines \in Seq(Line)
    BY CopiesOf DEF IInv, TypeOK
<1>5. /\ lines' \in Seq(Line)
      /\ Len(lines') = Len(lines) + Len(c)
      /\ \A i \in DOMAIN lines : i \in DOMAIN lines' /\ lines'[i] = lines[i]
      /\ \A k \in DOMAIN c : /\ Len(lines) + k \in DOMAIN lines' /\ Len(lines) + k > Len(lines)
                             /\ lines'[Len(lines) + k] = c[k]
      /\ \A j \in DOMAIN lines' \ DOMAIN lines :
            /\ j - Len(lines) \in DOMAIN c /\ lines'[j] = c[j - Len(lines)]
    BY <1>2, <1>4
<1>6. \A j \in DOMAIN lines' \ DOMAIN lines :
         \E i \in LinesOf(g) : lines'[j] = Copied(i, m)
    BY <1>5, CopiesOf
<1>7. \A i \in LinesOf(g) : \E j \in DOMAIN lines' : j > i /\ lines'[j] = Copied(i, m)
    <2> SUFFICES ASSUME NEW i \in LinesOf(g)
                 PROVE  \E j \in DOMAIN lines' : j > i /\ lines'[j] = Copied(i, m)
        OBVIOUS
    <2>1. PICK k \in DOMAIN c : c[k] = Copied(i, m)
        BY CopiesOf
    <2>2. i \in 1 .. Len(lines) /\ Len(lines) \in Nat
        BY <1>4 DEF LinesOf
    <2>3. k \in Nat
        BY <1>4
    <2>4. Len(lines) + k \in DOMAIN lines' /\ Len(lines) + k > i
        BY <1>5, <2>2, <2>3
    <2> QED BY <1>5, <2>1, <2>4
<1>8. /\ past' \in [Users -> [Skus -> SUBSET Nat]]
      /\ \A s \in Skus : past'[m][s] = past[m][s] \cup Quantities(g, s)
      /\ \A u \in Users \ {m} : past'[u] = past[u]
    <2>1. \A s \in Skus : Quantities(g, s) \subseteq Nat
        <3> SUFFICES ASSUME NEW s \in Skus, NEW i \in LinesFor(g, s) PROVE lines[i].num \in Nat
            BY DEF Quantities
        <3>1. lines[i] \in Line
            BY DEF IInv, TypeOK, LinesFor, LinesOf
        <3> QED BY <3>1 DEF Line
    <2>2. past[m] \in [Skus -> SUBSET Nat]
        BY <1>3 DEF IInv, TypeOK
    <2>3. [s \in Skus |-> past[m][s] \cup Quantities(g, s)] \in [Skus -> SUBSET Nat]
        BY <2>1, <2>2
    <2> HIDE DEF new
    <2> QED BY <1>1, <1>3, <2>3 DEF IInv, TypeOK
<1>9. Grows
    <2>1. \A u \in Users, s \in Skus : past[u][s] \subseteq past'[u][s]
        BY <1>3, <1>8
    <2>2. \A i \in DOMAIN lines' \ DOMAIN lines : lines'[i].user \in Members
        BY <1>6 DEF Copied
    <2> QED BY <1>5, <2>1, <2>2 DEF Grows
<1>10. /\ new \in Job /\ new.user = m /\ new.guest = g /\ new.check = ""
    BY <1>3 DEF NoJob, Job, NoHash, Hashes
<1> HIDE DEF new
<1>11. /\ pc' \in [Threads -> Places] /\ pc'[t] = "delete"
       /\ job' \in [Threads -> Job] /\ job'[t] = new
       /\ \A v \in Threads \ {t} : pc'[v] = pc[v] /\ job'[v] = job[v]
    BY <1>1, <1>10 DEF Goto, Places, IInv, TypeOK
<1>12. calls' \in 0 .. MaxCalls /\ restarts' = restarts /\ pc[t] = "idle"
    BY <1>1, CartAssumption DEF Call, IInv, TypeOK
<1>13. PoolInv' /\ free' \in 0 .. MaxTotal
    <2>1. Holds("delete") = Holds(pc[t]) /\ Holds("delete") \in Nat
        BY <1>12 DEF Holds, Holding
    <2>2. free' \in Nat /\ free' + Holds("delete") <= free + Holds(pc[t])
        BY <1>1, <2>1 DEF IInv, TypeOK
    <2> QED BY <1>1, <2>2, PoolStep
<1>14. TypeOK'
    BY <1>1, <1>5, <1>8, <1>11, <1>12, <1>13 DEF IInv, TypeOK, redisVars, KeyExists
<1>15. LinesInv'
    <2> SUFFICES ASSUME NEW j \in DOMAIN lines'
                 PROVE  /\ lines'[j].user \in Members => lines'[j].kept
                        /\ lines'[j].num \in past'[lines'[j].user][lines'[j].sku]
        BY DEF LinesInv
    <2>1. CASE j \in DOMAIN lines
        <3>1. lines[j] \in Line
            BY <2>1 DEF IInv, TypeOK
        <3>2. lines'[j] = lines[j] /\ lines[j].user \in Users /\ lines[j].sku \in Skus
            BY <1>5, <2>1, <3>1 DEF Line
        <3> QED BY <2>1, <3>2, <1>9 DEF Grows, IInv, LinesInv
    <2>2. CASE j \notin DOMAIN lines
        <3>1. PICK i \in LinesOf(g) : lines'[j] = Copied(i, m)
            BY <1>6, <2>2
        <3>2. lines[i] \in Line /\ i \in LinesFor(g, lines[i].sku)
            BY DEF IInv, TypeOK, LinesOf, LinesFor
        <3>3. lines[i].sku \in Skus /\ lines[i].num \in Quantities(g, lines[i].sku)
            BY <3>2 DEF Line, Quantities
        <3> QED BY <1>8, <3>1, <3>3 DEF Copied
    <2> QED BY <2>1, <2>2
<1>16. JobOK(t)'
    <2>1. ASSUME NEW i \in LinesOf(g)' PROVE Saved(i)'
        <3>1. i \in DOMAIN lines' /\ lines'[i].user = g /\ lines'[i].kept
            BY DEF LinesOf
        <3>2. g \notin Members
            BY CartAssumption
        <3>3. i \in LinesOf(g)
            BY <1>5, <1>9, <3>1, <3>2 DEF LinesOf, Grows
        <3>4. PICK j \in DOMAIN lines' : j > i /\ lines'[j] = Copied(i, m)
            BY <1>7, <3>3
        <3>5. lines'[i] = lines[i]
            BY <1>5, <3>3 DEF LinesOf
        <3> QED BY <3>4, <3>5 DEF Saved, Copied
    <2> QED BY <1>3, <1>10, <1>11, <2>1 DEF JobOK
<1>17. JobInv'
    BY <1>9, <1>11, <1>16, OthersKnow DEF JobInv, IInv
<1>18. MembersSeeRealQuantities'
    <2>1. \A u \in Members, s \in Skus : past[u][s] \subseteq past'[u][s]
        BY <1>9 DEF Grows, Users
    <2> QED BY <1>1, <2>1 DEF IInv, MembersSeeRealQuantities, redisVars
<1>19. NoLineVanishes'
    <2> SUFFICES ASSUME NEW i \in DOMAIN lines' PROVE lines'[i].kept \/ Saved(i)'
        BY DEF NoLineVanishes
    <2>1. CASE i \in DOMAIN lines
        BY <1>5, <1>9, <2>1, SavedStays DEF IInv, NoLineVanishes
    <2>2. CASE i \notin DOMAIN lines
        BY <1>6, <2>2 DEF Copied
    <2> QED BY <2>1, <2>2
<1> QED BY <1>13, <1>14, <1>15, <1>17, <1>18, <1>19 DEF IInv

LEMMA DeleteStep ==
    ASSUME IInv, NEW t \in Threads, Delete(t)
    PROVE  IInv'
<1> DEFINE g == job[t].guest
<1>1. /\ pc[t] = "delete" /\ Goto(t, "select")
      /\ UNCHANGED <<redisVars, free, job, boundVars, past>>
    BY DEF Delete
<1>2. JobOK(t)
    BY DEF IInv, JobInv
<1>3. /\ job[t].user \in Users /\ g \in Guests /\ g \notin Members
      /\ \A i \in LinesOf(g) : Saved(i)
    BY <1>1, <1>2, CartAssumption DEF JobOK
<1>4. /\ lines' \in Seq(Line) /\ DOMAIN lines' = DOMAIN lines
      /\ \A i \in DOMAIN lines :
            /\ lines'[i].user = lines[i].user /\ lines'[i].sku = lines[i].sku
            /\ lines'[i].num = lines[i].num /\ lines[i].kept \in BOOLEAN
            /\ lines'[i].kept = (lines[i].kept /\ lines[i].user # g)
    <2>1. lines' = [i \in DOMAIN lines |-> [lines[i] EXCEPT !.kept = @ /\ lines[i].user # g]]
        BY DEF Delete
    <2>2. \A i \in DOMAIN lines : lines[i] \in Line
        BY DEF IInv, TypeOK
    <2>3. \A i \in DOMAIN lines :
             /\ [lines[i] EXCEPT !.kept = @ /\ lines[i].user # g] \in Line
        BY <2>2 DEF Line
    <2>4. DOMAIN lines = 1 .. Len(lines) /\ Len(lines) \in Nat
        BY DEF IInv, TypeOK
    <2>5. lines' \in Seq(Line) /\ DOMAIN lines' = DOMAIN lines
        BY <2>1, <2>3, <2>4
    <2>6. \A i \in DOMAIN lines : lines[i].kept \in BOOLEAN
        BY <2>2 DEF Line
    <2> QED BY <2>1, <2>2, <2>5, <2>6 DEF Line
<1>5. Grows
    <2>1. /\ DOMAIN lines' = DOMAIN lines
          /\ \A i \in DOMAIN lines :
                lines[i].user \in Members => lines'[i].kept = lines[i].kept
        BY <1>3, <1>4
    <2>2. past' = past
        BY <1>1
    <2> QED BY <1>4, <2>1, <2>2 DEF Grows
<1>6. /\ pc' \in [Threads -> Places] /\ pc'[t] = "select"
      /\ \A v \in Threads \ {t} : pc'[v] = pc[v]
    BY <1>1 DEF Goto, Places, IInv, TypeOK
<1>7. TypeOK'
    BY <1>1, <1>4, <1>6 DEF IInv, TypeOK, redisVars, boundVars, KeyExists
<1>8. LinesInv'
    BY <1>1, <1>3, <1>4 DEF IInv, LinesInv
<1>9. JobOK(t)'
    BY <1>1, <1>2, <1>3, <1>6 DEF JobOK
<1>10. JobInv'
    BY <1>1, <1>5, <1>6, <1>9, OthersKnow DEF JobInv, IInv
<1>11. MembersSeeRealQuantities'
    BY <1>1 DEF IInv, MembersSeeRealQuantities, redisVars
<1>12. NoLineVanishes'
    <2> SUFFICES ASSUME NEW i \in DOMAIN lines PROVE lines'[i].kept \/ Saved(i)'
        BY <1>4 DEF NoLineVanishes
    <2>1. CASE Saved(i)
        BY <1>5, <2>1, SavedStays
    <2>2. CASE ~Saved(i)
        <3>1. lines[i].kept
            BY <2>2 DEF IInv, NoLineVanishes
        <3>2. lines[i].user # g
            BY <1>3, <2>2, <3>1 DEF LinesOf
        <3> QED BY <1>4, <3>1, <3>2
    <2> QED BY <2>1, <2>2
<1>13. PoolInv'
    <2>1. Holds("select") = 0 /\ Holds(pc[t]) = 0 /\ free' = free /\ free \in Nat
        BY <1>1 DEF Holds, Holding, IInv, TypeOK
    <2>2. free' \in Nat /\ free' + Holds("select") <= free + Holds(pc[t])
        BY <2>1
    <2> QED BY <1>1, <2>2, PoolStep
<1> QED BY <1>7, <1>8, <1>10, <1>11, <1>12, <1>13 DEF IInv

-----------------------------------------------------------------------------
\* The environment.

\* Threads that do not move while the table does not.
LEMMA NoThreadMoves ==
    ASSUME IInv, UNCHANGED <<lines, free, pc, job, boundVars, past>>,
           RedisOK', MembersSeeRealQuantities'
    PROVE  IInv'
<1>1. TypeOK' /\ LinesInv' /\ NoLineVanishes' /\ PoolInv'
    BY DEF IInv, TypeOK, RedisOK, boundVars, LinesInv, NoLineVanishes, Saved, PoolInv
<1>2. JobInv'
    BY SameTable, OthersKnow DEF IInv, JobInv
<1> QED BY <1>1, <1>2 DEF IInv

LEMMA ExpireStep ==
    ASSUME IInv, NEW u \in Users, Expire(u)
    PROVE  IInv'
<1>1. NoHash \in Hashes
    BY DEF NoHash, Hashes
<1>2. RedisOK'
    BY <1>1 DEF Expire, IInv, TypeOK, RedisOK, KeyExists
<1>3. MembersSeeRealQuantities'
    BY DEF Expire, IInv, TypeOK, MembersSeeRealQuantities, NoHash, Users
<1> QED BY <1>2, <1>3, NoThreadMoves DEF Expire

LEMMA ExpireCheckedStep ==
    ASSUME IInv, NEW u \in Users, ExpireChecked(u)
    PROVE  IInv'
<1>1. NoHash \in Hashes
    BY DEF NoHash, Hashes
<1>2. RedisOK'
    BY <1>1 DEF ExpireChecked, IInv, TypeOK, RedisOK, KeyExists
<1>3. MembersSeeRealQuantities'
    BY DEF ExpireChecked, IInv, TypeOK, MembersSeeRealQuantities, NoHash, Users
<1> QED BY <1>2, <1>3, NoThreadMoves DEF ExpireChecked

\* No thread is in a call and the pool is full.
LEMMA Quiet ==
    ASSUME pc = [t \in Threads |-> "idle"], job = [t \in Threads |-> NoJob], free = MaxTotal
    PROVE  JobInv /\ PoolInv
<1>1. JobInv
    BY DEF JobInv, JobOK, NoJob
<1>2. {t \in Threads : pc[t] \in Holding} = {}
    BY DEF Holding
<1>3. PoolInv
    <2>1. Cardinality({t \in Threads : pc[t] \in Holding}) = 0
        BY <1>2, FS_EmptySet
    <2> QED BY <2>1, CartAssumption DEF PoolInv
<1> QED BY <1>1, <1>3

LEMMA RestartStep ==
    ASSUME IInv, Restart
    PROVE  IInv'
<1>1. NoJob \in Job
    BY DEF NoJob, Job, NoHash, Hashes
<1>2. TypeOK'
    BY <1>1, CartAssumption DEF Restart, IInv, TypeOK, redisVars, KeyExists, Places
<1>3. LinesInv' /\ NoLineVanishes' /\ MembersSeeRealQuantities'
    BY DEF Restart, IInv, LinesInv, NoLineVanishes, Saved, MembersSeeRealQuantities, redisVars
<1>4. JobInv' /\ PoolInv'
    <2>1. /\ pc' = [t \in Threads |-> "idle"] /\ job' = [t \in Threads |-> NoJob]
          /\ free' = MaxTotal
        BY DEF Restart
    <2>2. JobInv'
        BY <2>1 DEF JobInv, JobOK, NoJob
    <2>3. {t \in Threads : pc'[t] \in Holding} = {}
        BY <2>1 DEF Holding
    <2>4. PoolInv'
        <3>1. Cardinality({t \in Threads : pc'[t] \in Holding}) = 0
            BY <2>3, FS_EmptySet
        <3> QED BY <2>1, <3>1, CartAssumption DEF PoolInv
    <2> QED BY <2>2, <2>4
<1> QED BY <1>2, <1>3, <1>4 DEF IInv

-----------------------------------------------------------------------------
LEMMA InitIInv ==
    ASSUME Init
    PROVE  IInv
<1> DEFINE line(i) == [user |-> InitLines[i][1], sku |-> InitLines[i][2],
                       num |-> InitLines[i][3], due |-> InitLines[i][3], kept |-> TRUE]
<1>1. /\ DOMAIN InitLines = 1 .. Len(InitLines) /\ Len(InitLines) \in Nat
      /\ \A i \in DOMAIN InitLines : /\ InitLines[i][1] \in Users
                                     /\ InitLines[i][2] \in Skus
                                     /\ InitLines[i][3] \in Nat
    BY CartAssumption
<1>2. lines = [i \in DOMAIN InitLines |-> line(i)]
    BY DEF Init
<1>3. \A i \in DOMAIN InitLines : line(i) \in Line
    BY <1>1 DEF Line
<1>4. lines \in Seq(Line) /\ DOMAIN lines = DOMAIN InitLines
    <2>1. lines \in [1 .. Len(InitLines) -> Line]
        BY <1>1, <1>2, <1>3
    <2> QED BY <1>1, <2>1
<1>5. past = [u \in Users |-> [s \in Skus |->
                {InitLines[i][3] : i \in {j \in DOMAIN InitLines :
                      InitLines[j][1] = u /\ InitLines[j][2] = s}}]]
    BY DEF Init
<1>6. past \in [Users -> [Skus -> SUBSET Nat]]
    <2>1. \A u \in Users, s \in Skus :
             {InitLines[i][3] : i \in {j \in DOMAIN InitLines :
                 InitLines[j][1] = u /\ InitLines[j][2] = s}} \subseteq Nat
        BY <1>1
    <2> QED BY <1>5, <2>1
<1>7. NoHash \in Hashes /\ NoJob \in Job /\ "idle" \in Places
    BY DEF NoHash, Hashes, NoJob, Job, Places
<1>8. TypeOK
    BY <1>4, <1>6, <1>7, CartAssumption DEF Init, TypeOK
<1>9. LinesInv
    <2> SUFFICES ASSUME NEW i \in DOMAIN lines
                 PROVE  lines[i].kept /\ lines[i].num \in past[lines[i].user][lines[i].sku]
        BY DEF LinesInv
    <2>1. /\ i \in DOMAIN InitLines /\ lines[i] = line(i)
        BY <1>2, <1>4
    <2>2. InitLines[i][3] \in past[InitLines[i][1]][InitLines[i][2]]
        BY <1>1, <1>5, <2>1
    <2> QED BY <2>1, <2>2
<1>10. JobInv /\ PoolInv
    BY Quiet DEF Init
<1>11. MembersSeeRealQuantities
    BY DEF Init, MembersSeeRealQuantities, NoHash, Users
<1>12. NoLineVanishes
    BY <1>2, <1>4 DEF NoLineVanishes
<1> QED BY <1>8, <1>9, <1>10, <1>11, <1>12 DEF IInv

LEMMA NextIInv ==
    ASSUME IInv, [Next]_vars
    PROVE  IInv'
<1>1. CASE UNCHANGED vars
    <2>1. UNCHANGED <<lines, free, pc, job, boundVars, past, redisVars>>
        BY <1>1 DEF vars
    <2> QED BY <2>1, SameRedis, NoThreadMoves
<1>2. CASE \E t \in Threads : Start(t)
    BY <1>2, AddCardStep, CartListStep, MergeCartListStep, TouchStep DEF Start
<1>3. CASE \E t \in Threads : Step(t)
    BY <1>3, GetSkuInfoFailsStep, UpdateStep, PutStep, SelectStep, DecrStep, FillStep,
       SetExpireStep, DeleteStep, ExistsStep, GetStep, SetLineStep, MarkStep,
       GetJedisFailsStep DEF Step
<1>4. CASE \E u \in Users : Expire(u) \/ ExpireChecked(u)
    BY <1>4, ExpireStep, ExpireCheckedStep
<1>5. CASE Restart
    BY <1>5, RestartStep
<1> QED BY <1>1, <1>2, <1>3, <1>4, <1>5 DEF Next

LEMMA SpecIInv == Spec => []IInv
BY InitIInv, NextIInv, PTL DEF Spec

\* The cart service keeps its types: no connection comes back to the pool
\* twice, a key is a hash or a number and never both, and only a key that is
\* there has a time to live.
THEOREM TypeCorrect == Spec => []TypeOK
<1>1. IInv => TypeOK
    BY DEF IInv
<1> QED BY <1>1, SpecIInv, PTL

\* Whatever addCard, cartList, mergeCartList and checkCart do at once, and
\* whenever keys expire and the service restarts, a member's two hashes hold
\* only quantities that lines of his have had.
THEOREM RealQuantities == Spec => []MembersSeeRealQuantities
<1>1. IInv => MembersSeeRealQuantities
    BY DEF IInv
<1> QED BY <1>1, SpecIInv, PTL

\* mergeCartList copies before it deletes, so a line that it deletes is in some
\* member's cart, even if the service stops between the two statements and
\* several merges run at once.
THEOREM NothingVanishes == Spec => []NoLineVanishes
<1>1. IInv => NoLineVanishes
    BY DEF IInv
<1> QED BY <1>1, SpecIInv, PTL
=============================================================================
