--------------------------- MODULE SkuCacheProofs ----------------------------
(***************************************************************************)
(* What the lock of the sku cache guarantees, for any number of getters,   *)
(* savers, saves, connections and tables: one getter at a time reads and   *)
(* fills, and the cache never goes back, as long as no lock is lost; and   *)
(* the connections of the pool add up, however deep the calls nest.        *)
(***************************************************************************)
EXTENDS SkuCache, Sums

Places == {"idle", "get", "lock", "sleep", "close"} \cup Holding

\* TypeOK without the connections, which PoolInv counts.
Types ==
    /\ db \in Skus /\ cache \in Skus \cup {Absent, Null}
    /\ lock \in Getters \cup {NoOne} /\ overrun \in BOOLEAN
    /\ saves \in 0 .. MaxSaves
    /\ at \in [Savers -> 0 .. SaveSteps] /\ version \in [Savers -> Versions]
    /\ pc \in [Getters -> Places]
    /\ read \in [Getters -> 0 .. Len(Tables)]
    /\ copy \in [Getters -> Skus \cup {Null, Blank}]

\* Who believes he holds the lock does, unless a lock has been lost.
HolderInv == ~overrun => \A p \in Getters : pc[p] \in Holding => lock = p

\* Who has read some parts is still reading; who is to fill has an answer.
ReadInv ==
    \A p \in Getters : /\ read[p] # 0 => pc[p] = "db" /\ copy[p] \in Skus
                       /\ pc[p] = "fill" => copy[p] # Blank

\* The row of sku_info in x is no newer than the one in y.
NoNewer(x, y) == \A v \in x["info"], w \in y["info"] : v <= w

\* The row of sku_info is one and the newest, also of those read and cached.
Old(x) == NoNewer(x, db) /\ NoNewer(x, x) /\ \A v \in x["info"] : v <= saves
RowInv ==
    /\ Old(db)
    /\ cache \in Skus => Old(cache)
    /\ \A p \in Getters : copy[p] \in Skus => Old(copy[p])

\* What the lock's holder has read is no older than what is cached.
FreshInv ==
    ~overrun => \A p \in Getters :
        /\ pc[p] = "fill" \/ read[p] # 0
        /\ copy[p] \in Skus /\ cache \in Skus
        => NoNewer(cache, copy[p])

IInv == Types /\ HolderInv /\ ReadInv /\ RowInv /\ FreshInv

-----------------------------------------------------------------------------
LEMMA Constants ==
    /\ Len(Tables) \in Nat /\ DOMAIN Tables = 1 .. Len(Tables) /\ Len(Tables) > 0
    /\ \A i \in DOMAIN Tables : Tables[i] \in Parts /\ Tables[i] # "info"
    /\ SaveSteps \in Nat /\ SaveSteps > 0 /\ "info" \in Parts
    /\ Absent \notin Skus /\ Null \notin Skus /\ Blank \notin Skus
    /\ NoRows \in Skus
<1>1. Len(Tables) \in Nat /\ DOMAIN Tables = 1 .. Len(Tables) /\ Len(Tables) > 0
    BY SkuCacheAssumption
<1>2. \A i \in DOMAIN Tables : Tables[i] \in Parts /\ Tables[i] # "info"
    BY SkuCacheAssumption DEF Parts
<1>3. Absent \notin Skus /\ Null \notin Skus /\ Blank \notin Skus
    BY SkuCacheAssumption
<1>4. SaveSteps \in Nat /\ SaveSteps > 0
    BY <1>1 DEF SaveSteps
<1>5. "info" \in Parts /\ NoRows \in Skus
    BY DEF Parts, Skus, NoRows
<1> QED BY <1>1, <1>2, <1>3, <1>4, <1>5

\* A sku with another value in one part.
LEMMA SkuWith ==
    ASSUME NEW x \in Skus, NEW part, NEW S \in SUBSET Versions
    PROVE  /\ [x EXCEPT ![part] = S] \in Skus
           /\ part # "info" => [x EXCEPT ![part] = S]["info"] = x["info"]
           /\ part = "info" => [x EXCEPT ![part] = S]["info"] = S
BY Constants DEF Skus

LEMMA Rows ==
    ASSUME NEW x \in Skus
    PROVE  x["info"] \in SUBSET Nat
BY Constants, SkuCacheAssumption DEF Skus, Versions

\* A getter that goes on while tables, cache, and what others have read stay.
LEMMA GetterStep ==
    ASSUME IInv, NEW p \in Getters, NEW place \in Places, Goto(p, place),
           UNCHANGED <<db, cache, saverVars>>,
           lock' \in Getters \cup {NoOne}, overrun' \in BOOLEAN,
           ~overrun' => ~overrun,
           ~overrun' => \A q \in Getters \ {p} : pc[q] \in Holding => lock' = q,
           ~overrun' /\ place \in Holding => lock' = p,
           NEW k \in 0 .. Len(Tables), read' = [read EXCEPT ![p] = k],
           NEW c \in Skus \cup {Null, Blank}, copy' = [copy EXCEPT ![p] = c],
           k # 0 => place = "db" /\ c \in Skus, place = "fill" => c # Blank,
           c \in Skus => Old(c),
           ~overrun /\ (place = "fill" \/ k # 0) /\ c \in Skus /\ cache \in Skus
              => NoNewer(cache, c)
    PROVE  IInv'
<1>1. /\ pc'[p] = place /\ read'[p] = k /\ copy'[p] = c
      /\ \A q \in Getters \ {p} : pc'[q] = pc[q] /\ read'[q] = read[q] /\ copy'[q] = copy[q]
    BY DEF IInv, Types, Goto
<1>2. Types'
    BY DEF IInv, Types, Goto, saverVars
<1>3. HolderInv'
    BY <1>1 DEF HolderInv
<1>4. ReadInv'
    BY <1>1 DEF IInv, ReadInv
<1>5. RowInv'
    BY <1>1 DEF IInv, RowInv, Old, NoNewer, saverVars
<1>6. FreshInv'
    BY <1>1 DEF IInv, FreshInv, NoNewer
<1> QED BY <1>2, <1>3, <1>4, <1>5, <1>6 DEF IInv

\* A getter that moves without reading, and neither takes nor frees the lock.
LEMMA MoveStep ==
    ASSUME IInv, NEW p \in Getters, NEW place \in Places, Goto(p, place),
           UNCHANGED <<db, cache, lock, overrun, saverVars, read, copy>>,
           pc[p] # "db", place # "fill",
           place \in Holding => pc[p] \in Holding
    PROVE  IInv'
<1>1. read[p] = 0 /\ read' = [read EXCEPT ![p] = 0] /\ read[p] \in 0 .. Len(Tables)
    BY DEF IInv, Types, ReadInv
<1>2. copy[p] \in Skus \cup {Null, Blank} /\ copy' = [copy EXCEPT ![p] = copy[p]]
      /\ (copy[p] \in Skus => Old(copy[p]))
    BY DEF IInv, Types, RowInv
<1>3. ~overrun' /\ place \in Holding => lock' = p
    BY DEF IInv, HolderInv
<1>4. ~overrun' => \A q \in Getters \ {p} : pc[q] \in Holding => lock' = q
    BY DEF IInv, HolderInv
<1>5. /\ lock' \in Getters \cup {NoOne} /\ overrun' \in BOOLEAN
      /\ ~overrun' => ~overrun
    BY DEF IInv, Types
<1>6. UNCHANGED <<db, cache, saverVars>>
    OBVIOUS
<1> QED BY <1>1, <1>2, <1>3, <1>4, <1>5, <1>6, GetterStep

\* A getter that ends its call, with an answer or an exception.
LEMMA EndStep ==
    ASSUME IInv, NEW p \in Getters, Goto(p, "idle"),
           UNCHANGED <<db, cache, lock, overrun, saverVars>>,
           read' = [read EXCEPT ![p] = 0], copy' = [copy EXCEPT ![p] = Blank]
    PROVE  IInv'
<1>1. /\ lock' \in Getters \cup {NoOne} /\ overrun' \in BOOLEAN /\ "idle" \in Places
      /\ "idle" \notin Holding /\ Blank \notin Skus /\ 0 \in 0 .. Len(Tables)
    BY Constants DEF IInv, Types, Places, Holding
<1>2. ~overrun' => \A q \in Getters \ {p} : pc[q] \in Holding => lock' = q
    BY DEF IInv, HolderInv
<1>3. UNCHANGED <<db, cache, saverVars>> /\ (~overrun' => ~overrun)
    OBVIOUS
<1> QED BY <1>1, <1>2, <1>3, GetterStep

LEMMA ThrowStep ==
    ASSUME IInv, NEW p \in Getters, Throw(p), UNCHANGED <<db, cache, lock, overrun, saverVars>>
    PROVE  IInv'
BY EndStep DEF Throw

-----------------------------------------------------------------------------
\* One lemma per action.

LEMMA BeginSaveStep ==
    ASSUME IInv, NEW a \in Savers, BeginSave(a)
    PROVE  IInv'
<1> DEFINE n == saves + 1
<1>1. /\ saves' = n /\ n \in 1 .. MaxSaves /\ saves \in Nat
      /\ db' = [db EXCEPT !["info"] = {n}] /\ db \in Skus
      /\ UNCHANGED <<cache, lock, overrun, pc, read, copy>>
    BY SkuCacheAssumption DEF BeginSave, getterVars, IInv, Types
<1>2. db' \in Skus /\ db'["info"] = {n}
    <2>1. {n} \in SUBSET Versions
        BY <1>1, SkuCacheAssumption DEF Versions
    <2> QED BY <1>1, <2>1, SkuWith
<1>3. Types'
    BY <1>1, <1>2, Constants DEF BeginSave, IInv, Types, Versions
<1>4. HolderInv' /\ ReadInv'
    BY <1>1 DEF IInv, HolderInv, ReadInv
<1>5. ASSUME NEW x \in Skus, Old(x)
      PROVE  /\ \A v \in x["info"], w \in db'["info"] : v <= w
             /\ NoNewer(x, x) /\ \A v \in x["info"] : v <= saves'
    BY <1>1, <1>2, <1>5, Rows DEF Old
<1>6. RowInv'
    <2>1. NoNewer(db', db') /\ \A v \in db'["info"] : v <= saves'
        BY <1>1, <1>2 DEF NoNewer
    <2> QED BY <1>1, <1>5, <2>1 DEF IInv, RowInv, Old, NoNewer
<1>7. FreshInv'
    BY <1>1 DEF IInv, FreshInv, NoNewer
<1> QED BY <1>3, <1>4, <1>6, <1>7 DEF IInv

\* A saver's step that leaves the row of sku_info alone.
LEMMA SaverStep ==
    ASSUME IInv, db' \in Skus, db'["info"] = db["info"],
           at' \in [Savers -> 0 .. SaveSteps], version' \in [Savers -> Versions],
           UNCHANGED <<cache, lock, overrun, saves, pc, read, copy>>
    PROVE  IInv'
<1>1. Types' /\ HolderInv' /\ ReadInv' /\ FreshInv'
    BY DEF IInv, Types, HolderInv, ReadInv, FreshInv, NoNewer
<1>2. RowInv'
    BY DEF IInv, RowInv, Old, NoNewer
<1> QED BY <1>1, <1>2 DEF IInv

LEMMA SaveStepStep ==
    ASSUME IInv, NEW a \in Savers, SaveStep(a)
    PROVE  IInv'
<1> DEFINE table == Tables[(at[a] + 1) \div 2]
           rows  == IF at[a] % 2 = 1 THEN {} ELSE db[table] \cup {version[a]}
<1>1. at[a] \in 1 .. SaveSteps /\ db \in Skus /\ version[a] \in Versions
    BY Constants DEF SaveStep, IInv, Types
<1>2. (at[a] + 1) \div 2 \in DOMAIN Tables
    BY <1>1, Constants DEF SaveSteps
<1>3. table \in Parts /\ table # "info"
    BY <1>2, Constants
<1>4. rows \in SUBSET Versions
    BY <1>1, <1>3 DEF Skus
<1>5. db' = [db EXCEPT ![table] = rows]
    BY <1>1 DEF SaveStep
<1> HIDE DEF table, rows
<1>6. db' \in Skus /\ db'["info"] = db["info"]
    BY <1>1, <1>3, <1>4, <1>5, SkuWith
<1>7. at' \in [Savers -> 0 .. SaveSteps] /\ version' \in [Savers -> Versions]
    BY <1>1, Constants, SkuCacheAssumption DEF SaveStep, IInv, Types, Versions
<1>8. UNCHANGED <<cache, lock, overrun, saves, pc, read, copy>>
    BY DEF SaveStep, getterVars
<1> QED BY <1>6, <1>7, <1>8, SaverStep

LEMMA SaveFailsStep ==
    ASSUME IInv, NEW a \in Savers, SaveFails(a)
    PROVE  IInv'
<1>1. at' \in [Savers -> 0 .. SaveSteps] /\ version' \in [Savers -> Versions]
    BY Constants, SkuCacheAssumption DEF SaveFails, IInv, Types, Versions
<1>2. UNCHANGED <<db, cache, lock, overrun, saves, pc, read, copy>> /\ db' \in Skus
    BY DEF SaveFails, getterVars, IInv, Types
<1> QED BY <1>1, <1>2, SaverStep

LEMMA ExpireCacheStep ==
    ASSUME IInv, ExpireCache
    PROVE  IInv'
BY Constants DEF ExpireCache, saverVars, getterVars, IInv, Types, HolderInv, ReadInv, FreshInv,
   RowInv, Old, NoNewer

\* A holder that loses the lock is an overrun, and nobody else held it.
LEMMA ExpireLockStep ==
    ASSUME IInv, ExpireLock
    PROVE  IInv'
<1>1. UNCHANGED <<db, cache, saves, at, version, pc, read, copy>> /\ lock' = NoOne
      /\ lock \in Getters /\ overrun' = (overrun \/ pc[lock] \in Holding)
    BY DEF ExpireLock, saverVars, getterVars, IInv, Types
<1>2. Types'
    BY <1>1 DEF IInv, Types
<1>3. HolderInv'
    BY <1>1 DEF IInv, Types, HolderInv
<1>4. ReadInv' /\ RowInv' /\ FreshInv'
    BY <1>1 DEF IInv, Types, ReadInv, RowInv, FreshInv, Old, NoNewer
<1> QED BY <1>2, <1>3, <1>4 DEF IInv

LEMMA GetJedisStep ==
    ASSUME IInv, NEW p \in Getters, GetJedis(p)
    PROVE  IInv'
<1>1. CASE Throw(p)
    BY <1>1, ThrowStep DEF GetJedis
<1>2. CASE ~Throw(p)
    BY <1>2, MoveStep DEF GetJedis, Places, Holding
<1> QED BY <1>1, <1>2

LEMMA GetStep ==
    ASSUME IInv, NEW p \in Getters, Get(p)
    PROVE  IInv'
<1>1. pc[p] = "get" /\ UNCHANGED <<db, cache, lock, overrun, saverVars, read>>
    BY DEF Get
<1>2. CASE cache = Absent
    BY <1>1, <1>2, MoveStep DEF Get, Places, Holding
<1>3. CASE cache # Absent
    <2>1. /\ cache \in Skus \cup {Null, Blank} /\ (cache \in Skus => Old(cache))
          /\ Goto(p, "close") /\ copy' = [copy EXCEPT ![p] = cache]
        BY <1>3 DEF Get, IInv, Types, RowInv
    <2>2. read' = [read EXCEPT ![p] = 0] /\ 0 \in 0 .. Len(Tables)
        BY <1>1, Constants DEF IInv, Types, ReadInv
    <2>3. /\ lock' \in Getters \cup {NoOne} /\ overrun' \in BOOLEAN /\ "close" \in Places
          /\ "close" \notin Holding
          /\ ~overrun' => \A q \in Getters \ {p} : pc[q] \in Holding => lock' = q
        BY <1>1 DEF IInv, Types, HolderInv, Places, Holding
    <2>4. UNCHANGED <<db, cache, saverVars>> /\ (~overrun' => ~overrun)
        BY <1>1
    <2> QED BY <2>1, <2>2, <2>3, <2>4, GetterStep
<1> QED BY <1>2, <1>3

\* The lock is free: nobody held it, or some lock has been lost.
LEMMA TryLockStep ==
    ASSUME IInv, NEW p \in Getters, TryLock(p)
    PROVE  IInv'
<1>1. pc[p] = "lock" /\ UNCHANGED <<db, cache, overrun, saverVars, read, copy>>
    BY DEF TryLock
<1>2. CASE lock # NoOne
    BY <1>1, <1>2, MoveStep DEF TryLock, LockFree, Places, Holding
<1>3. CASE lock = NoOne
    <2>1. lock' = p /\ Goto(p, "db")
        BY <1>3 DEF TryLock, LockFree
    <2>2. ~overrun => \A q \in Getters \ {p} : pc[q] \notin Holding
        BY <1>3, SkuCacheAssumption DEF IInv, HolderInv
    <2>3. read' = [read EXCEPT ![p] = 0] /\ 0 \in 0 .. Len(Tables)
        BY <1>1, Constants DEF IInv, Types, ReadInv
    <2>4. copy[p] \in Skus \cup {Null, Blank} /\ copy' = [copy EXCEPT ![p] = copy[p]]
          /\ (copy[p] \in Skus => Old(copy[p]))
        BY <1>1 DEF IInv, Types, RowInv
    <2>5. overrun' \in BOOLEAN /\ "db" \in Places
        BY <1>1 DEF IInv, Types, Places, Holding
    <2> QED BY <1>1, <2>1, <2>2, <2>3, <2>4, <2>5, GetterStep
<1> QED BY <1>2, <1>3

\* The holder reads a part; what is cached is no newer than the tables.
LEMMA ReadDbStep ==
    ASSUME IInv, NEW p \in Getters, ReadDb(p)
    PROVE  IInv'
<1>1. pc[p] = "db" /\ UNCHANGED <<db, cache, lock, overrun, saverVars>>
    BY DEF ReadDb
<1>2. /\ lock' \in Getters \cup {NoOne} /\ overrun' \in BOOLEAN
      /\ "db" \in Places /\ "fill" \in Places
      /\ ~overrun' => \A q \in Getters \ {p} : pc[q] \in Holding => lock' = q
      /\ ~overrun' => lock' = p
      /\ (~overrun' => ~overrun) /\ UNCHANGED <<db, cache, saverVars>>
    BY <1>1 DEF IInv, Types, HolderInv, Places, Holding
<1>3. /\ read[p] \in 0 .. Len(Tables) /\ Len(Tables) \in Nat /\ Len(Tables) > 0
      /\ db \in Skus
      /\ read[p] # 0 => copy[p] \in Skus /\ Old(copy[p])
    BY Constants DEF IInv, Types, ReadInv, RowInv
<1>4. CASE read[p] = 0 /\ db["info"] = {}
    <2>1. /\ Goto(p, "fill") /\ copy' = [copy EXCEPT ![p] = Null] /\ Null \notin Skus
          /\ Null # Blank /\ 0 \in 0 .. Len(Tables) /\ read' = [read EXCEPT ![p] = 0]
        BY <1>3, <1>4, Constants, SkuCacheAssumption DEF ReadDb, IInv, Types
    <2> QED BY <1>2, <1>3, <2>1, GetterStep
<1>5. CASE read[p] = 0 /\ db["info"] # {}
    <2> DEFINE c == [NoRows EXCEPT !["info"] = db["info"]]
    <2>1. copy' = [copy EXCEPT ![p] = c] /\ read' = [read EXCEPT ![p] = 1] /\ Goto(p, "db")
          /\ 1 \in 0 .. Len(Tables)
        BY <1>1, <1>3, <1>5 DEF ReadDb, Goto, IInv, Types
    <2>2. c \in Skus /\ c["info"] = db["info"]
        <3>1. db["info"] \in SUBSET Versions
            BY <1>3, Constants DEF Skus
        <3> QED BY <3>1, Constants DEF Skus
    <2> HIDE DEF c
    <2>3. Old(c) /\ (cache \in Skus => NoNewer(cache, c))
        BY <2>2 DEF IInv, RowInv, Old, NoNewer
    <2> QED BY <1>2, <1>3, <2>1, <2>2, <2>3, GetterStep
<1>6. CASE read[p] # 0
    <2> DEFINE table == Tables[Len(Tables) + 1 - read[p]]
               c     == [copy[p] EXCEPT ![table] = db[table]]
    <2>1. table \in Parts /\ table # "info"
        BY <1>3, <1>6, Constants
    <2>2. db[table] \in SUBSET Versions
        BY <1>3, <2>1 DEF Skus
    <2>3. copy' = [copy EXCEPT ![p] = c]
        BY <1>6 DEF ReadDb, IInv, Types
    <2> HIDE DEF table
    <2>4. c \in Skus /\ c["info"] = copy[p]["info"]
        BY <1>3, <1>6, <2>1, <2>2, SkuWith
    <2> HIDE DEF c
    <2>5. Old(c)
        BY <1>3, <1>6, <2>4 DEF Old, NoNewer
    <2>6. ~overrun /\ cache \in Skus => NoNewer(cache, c)
        BY <1>3, <1>6, <2>4 DEF IInv, FreshInv, NoNewer
    <2>7. c # Blank
        BY <2>4, Constants
    <2>8. CASE read[p] = Len(Tables)
        <3>1. Goto(p, "fill") /\ read' = [read EXCEPT ![p] = 0] /\ 0 \in 0 .. Len(Tables)
            BY <1>3, <1>6, <2>8 DEF ReadDb
        <3> QED BY <1>2, <2>3, <2>4, <2>5, <2>6, <2>7, <3>1, GetterStep
    <2>9. CASE read[p] # Len(Tables)
        <3>1. /\ Goto(p, "db") /\ read' = [read EXCEPT ![p] = read[p] + 1]
              /\ read[p] + 1 \in 0 .. Len(Tables)
            BY <1>1, <1>3, <1>6, <2>9 DEF ReadDb, Goto, IInv, Types
        <3> QED BY <1>2, <2>3, <2>4, <2>5, <2>6, <3>1, GetterStep
    <2> QED BY <2>8, <2>9
<1> QED BY <1>4, <1>5, <1>6

LEMMA DbFailsStep ==
    ASSUME IInv, NEW p \in Getters, DbFails(p)
    PROVE  IInv'
BY ThrowStep DEF DbFails

\* Nobody else is about to fill, or some lock has been lost.
LEMMA FillStep ==
    ASSUME IInv, NEW p \in Getters, Fill(p)
    PROVE  IInv'
<1>1. /\ pc[p] = "fill" /\ cache' = copy[p] /\ Goto(p, "exists")
      /\ UNCHANGED <<db, lock, overrun, saves, at, version, read, copy>>
    BY DEF Fill, saverVars
<1>2. /\ pc'[p] = "exists" /\ \A q \in Getters \ {p} : pc'[q] = pc[q]
      /\ pc' \in [Getters -> Places] /\ read[p] = 0
    BY <1>1 DEF Goto, IInv, Types, ReadInv, Places, Holding
<1>3. copy[p] \in Skus \cup {Null} /\ (copy[p] \in Skus => Old(copy[p]))
    BY <1>1 DEF IInv, Types, ReadInv, RowInv
<1>4. Types'
    BY <1>1, <1>2, <1>3 DEF IInv, Types
<1>5. HolderInv' /\ ReadInv'
    BY <1>1, <1>2 DEF IInv, HolderInv, ReadInv, Holding
<1>6. RowInv'
    BY <1>1, <1>3 DEF IInv, RowInv, Old, NoNewer
<1>7. ~overrun => \A q \in Getters : q # p => pc[q] # "fill" /\ read[q] = 0
    BY <1>1 DEF IInv, HolderInv, ReadInv, Holding
<1>8. FreshInv'
    BY <1>1, <1>2, <1>7 DEF FreshInv
<1> QED BY <1>4, <1>5, <1>6, <1>8 DEF IInv

LEMMA LockExistsStep ==
    ASSUME IInv, NEW p \in Getters, LockExists(p)
    PROVE  IInv'
<1>1. /\ pc[p] = "exists" /\ UNCHANGED <<db, cache, lock, overrun, saverVars, read, copy>>
      /\ \E place \in {"close", "compare"} : Goto(p, place)
    BY DEF LockExists
<1> QED BY <1>1, MoveStep DEF Places, Holding

LEMMA CompareLockStep ==
    ASSUME IInv, NEW p \in Getters, CompareLock(p)
    PROVE  IInv'
<1>1. pc[p] = "compare" /\ UNCHANGED <<db, cache, lock, overrun, saverVars>>
    BY DEF CompareLock
<1>2. CASE Throw(p)
    BY <1>1, <1>2, ThrowStep
<1>3. CASE ~Throw(p)
    <2>1. UNCHANGED <<read, copy>> /\ \E place \in {"del", "close"} : Goto(p, place)
        BY <1>3 DEF CompareLock
    <2> QED BY <1>1, <2>1, MoveStep DEF Places, Holding
<1> QED BY <1>2, <1>3

\* Another's lock deleted is a lock lost.
LEMMA DelLockStep ==
    ASSUME IInv, NEW p \in Getters, DelLock(p)
    PROVE  IInv'
<1>1. /\ pc[p] = "del" /\ lock' = NoOne /\ overrun' = (overrun \/ lock # p)
      /\ Goto(p, "close") /\ UNCHANGED <<db, cache, saverVars, read, copy>>
    BY DEF DelLock
<1>2. ~overrun' => \A q \in Getters \ {p} : pc[q] \notin Holding
    BY <1>1 DEF IInv, HolderInv
<1>3. read' = [read EXCEPT ![p] = 0] /\ 0 \in 0 .. Len(Tables)
    BY <1>1, Constants DEF IInv, Types, ReadInv
<1>4. copy[p] \in Skus \cup {Null, Blank} /\ copy' = [copy EXCEPT ![p] = copy[p]]
      /\ (copy[p] \in Skus => Old(copy[p]))
    BY <1>1 DEF IInv, Types, RowInv
<1>5. /\ lock' \in Getters \cup {NoOne} /\ overrun' \in BOOLEAN /\ (~overrun' => ~overrun)
      /\ "close" \in Places /\ "close" \notin Holding
    BY <1>1 DEF IInv, Types, Places, Holding
<1> QED BY <1>1, <1>2, <1>3, <1>4, <1>5, GetterStep

LEMMA CloseStep ==
    ASSUME IInv, NEW p \in Getters, Close(p)
    PROVE  IInv'
<1>1. read' = [read EXCEPT ![p] = 0]
    BY DEF Close, IInv, Types, ReadInv
<1> QED BY <1>1, EndStep DEF Close

-----------------------------------------------------------------------------
LEMMA InitIInv ==
    ASSUME Init
    PROVE  IInv
<1>1. Types
    <2>1. [x \in Parts |-> {0}] \in Skus /\ 0 \in Versions /\ 0 \in 0 .. MaxSaves
        BY SkuCacheAssumption DEF Skus, Versions
    <2>2. db \in Skus
        BY <2>1, Constants DEF Init
    <2>3. 0 \in 0 .. SaveSteps /\ 0 \in 0 .. Len(Tables) /\ "idle" \in Places
        BY Constants DEF Places
    <2> QED BY <2>1, <2>2, <2>3 DEF Init, Types
<1>2. HolderInv /\ ReadInv /\ FreshInv
    BY Constants DEF Init, HolderInv, ReadInv, FreshInv, Holding
<1>3. RowInv
    BY Constants DEF Init, RowInv, Old, NoNewer, NoRows
<1> QED BY <1>1, <1>2, <1>3 DEF IInv

LEMMA NextIInv ==
    ASSUME IInv, [Next]_vars
    PROVE  IInv'
<1>1. CASE UNCHANGED vars
    BY <1>1 DEF vars, saverVars, getterVars, IInv, Types, HolderInv, ReadInv, FreshInv, RowInv,
       Old, NoNewer
<1>2. CASE \E p \in Getters : GetJedis(p) \/ Call(p) \/ DbFails(p)
    BY <1>2, GetJedisStep, GetStep, TryLockStep, ReadDbStep, DbFailsStep, FillStep,
       LockExistsStep, CompareLockStep, DelLockStep, CloseStep DEF Call
<1>3. CASE \E a \in Savers : BeginSave(a) \/ SaveStep(a) \/ SaveFails(a)
    BY <1>3, BeginSaveStep, SaveStepStep, SaveFailsStep
<1>4. CASE ExpireCache \/ ExpireLock
    BY <1>4, ExpireCacheStep, ExpireLockStep
<1> QED BY <1>1, <1>2, <1>3, <1>4 DEF Next

LEMMA SpecIInv == Spec => []IInv
BY InitIInv, NextIInv, PTL DEF Spec

\* While no lock is lost, the lock with its random value and its ten seconds
\* lets one getter at a time through getSkuInfoDb and setex, whoever waits,
\* fails, throws or comes late.
THEOREM OneAtATime == Spec => []OneFiller
<1>1. IInv => OneFiller
    <2> SUFFICES ASSUME IInv, ~overrun
                 PROVE  Cardinality({p \in Getters : pc[p] \in {"db", "fill"}}) <= 1
        BY DEF OneFiller
    <2> DEFINE S == {p \in Getters : pc[p] \in {"db", "fill"}}
    <2>1. S \subseteq {lock}
        BY DEF IInv, HolderInv, Holding
    <2>2. IsFiniteSet({lock}) /\ Cardinality({lock}) = 1
        BY FS_Singleton
    <2>3. Cardinality(S) <= Cardinality({lock})
        BY <2>1, <2>2, FS_Subset
    <2> QED BY <2>2, <2>3
<1> QED BY <1>1, SpecIInv, PTL

\* While no lock is lost, a sku in the cache gives way only to one that was
\* written at the same save or later: getSkuInfo never puts an old price back.
THEOREM NeverAnOlderRow == Spec => NeverBackwards
<1>1. IInv /\ [Next]_vars
         => [(~overrun' /\ {cache, cache'} \subseteq Skus) =>
                \A v \in cache["info"], w \in cache'["info"] : v <= w]_vars
    <2> SUFFICES ASSUME IInv, Next, ~overrun', cache \in Skus, cache' \in Skus
                 PROVE  NoNewer(cache, cache')
        BY DEF NoNewer
    <2>1. CASE cache' = cache
        BY <2>1 DEF IInv, RowInv, Old, NoNewer
    <2>2. CASE cache' # cache
        <3>1. PICK p \in Getters : Fill(p)
            BY <2>2, Constants DEF Next, GetJedis, Call, DbFails, BeginSave, SaveStep,
               SaveFails, ExpireCache, ExpireLock, Get, TryLock, ReadDb, LockExists,
               CompareLock, DelLock, Close
        <3>2. pc[p] = "fill" /\ cache' = copy[p] /\ overrun' = overrun
            BY <3>1 DEF Fill
        <3> QED BY <3>2 DEF IInv, FreshInv, NoNewer
    <2> QED BY <2>1, <2>2
<1> QED BY <1>1, SpecIInv, PTL DEF Spec, NeverBackwards

-----------------------------------------------------------------------------
\* The connections.  A call holds one for each getSkuInfo on its stack; what
\* calls hold, what exceptions have leaked and what is free make up the pool.
PoolInv ==
    /\ leaked \in Nat /\ depth \in [Getters -> Nat]
    /\ Free \in Nat

\* Counting: connections that change hands at one getter.
LEMMA FreeChange ==
    ASSUME PoolInv, NEW p \in Getters, NEW n \in Nat, depth' = [depth EXCEPT ![p] = n]
    PROVE  /\ depth' \in [Getters -> Nat]
           /\ leaked' \in Nat => Free' = Free - (leaked' - leaked) - (n - depth[p])
<1>1. \A q \in Getters : depth[q] \in Int /\ depth'[q] \in Int
    BY DEF PoolInv
<1>2. depth'[p] = n /\ depth[p] \in Nat /\ \A q \in Getters \ {p} : depth'[q] = depth[q]
    BY DEF PoolInv
<1>3. SumFunctionOnSet(depth', Getters) = SumFunctionOnSet(depth, Getters) - depth[p] + n
    <2>1. IsFiniteSet(Getters)
        BY SkuCacheAssumption
    <2>2. SumFunctionOnSet(depth', Getters)
             = SumFunctionOnSet(depth, Getters) - depth[p] + depth'[p]
        <3> DEFINE g == depth'
        <3>1. /\ \A q \in Getters : depth[q] \in Int /\ g[q] \in Int
              /\ \A q \in Getters \ {p} : g[q] = depth[q]
            BY <1>1, <1>2
        <3> HIDE DEF g
        <3>2. SumFunctionOnSet(g, Getters) = SumFunctionOnSet(depth, Getters) - depth[p] + g[p]
            BY <2>1, <3>1, SumChange
        <3> QED BY <3>2 DEF g
    <2> QED BY <1>2, <2>2
<1>4. SumFunctionOnSet(depth, Getters) \in Int
    BY <1>1, SumInt, SkuCacheAssumption
<1>5. depth' \in [Getters -> Nat]
    BY DEF PoolInv
<1>6. leaked' \in Nat => Free' = Free - (leaked' - leaked) - (n - depth[p])
    <2> DEFINE held == SumFunctionOnSet(depth, Getters)
               now  == SumFunctionOnSet(depth', Getters)
    <2>1. Free = MaxTotal - leaked - held /\ Free' = MaxTotal - leaked' - now
        BY DEF Free
    <2>2. now = held - depth[p] + n
        BY <1>3
    <2>3. held \in Int /\ leaked \in Nat /\ MaxTotal \in Nat /\ depth[p] \in Nat
        BY <1>2, <1>4, SkuCacheAssumption DEF PoolInv
    <2> HIDE DEF held, now
    <2> QED BY <2>1, <2>2, <2>3
<1> QED BY <1>5, <1>6

\* An exception leaks what its call held: nothing becomes free.
LEMMA ThrowLeaks ==
    ASSUME PoolInv, NEW p \in Getters, Throw(p)
    PROVE  PoolInv'
<1>1. depth[p] \in Nat /\ leaked' = leaked + depth[p] /\ leaked' \in Nat
    BY DEF PoolInv, Throw
<1>2. depth' \in [Getters -> Nat] /\ Free' = Free - (leaked' - leaked) - (0 - depth[p])
    BY <1>1, FreeChange DEF Throw
<1> QED BY <1>1, <1>2 DEF PoolInv

LEMMA NextPoolInv == PoolInv /\ [Next]_vars => PoolInv'
<1> SUFFICES ASSUME PoolInv, [Next]_vars PROVE PoolInv'
    OBVIOUS
<1>1. CASE UNCHANGED <<leaked, depth>>
    BY <1>1 DEF PoolInv, Free
<1>2. ASSUME NEW p \in Getters, GetJedis(p), ~Throw(p) PROVE PoolInv'
    <2>1. HasFree /\ leaked' = leaked /\ depth' = [depth EXCEPT ![p] = depth[p] + 1]
        BY <1>2 DEF GetJedis
    <2>2. depth[p] \in Nat /\ depth[p] + 1 \in Nat /\ leaked' \in Nat
        BY <2>1 DEF PoolInv
    <2>3. depth' \in [Getters -> Nat]
          /\ Free' = Free - (leaked' - leaked) - ((depth[p] + 1) - depth[p])
        BY <2>1, <2>2, FreeChange
    <2> QED BY <2>1, <2>2, <2>3 DEF PoolInv, HasFree
<1>3. ASSUME NEW p \in Getters, Close(p) PROVE PoolInv'
    <2>1. leaked' = leaked /\ depth' = [depth EXCEPT ![p] = 0] /\ depth[p] \in Nat /\ leaked' \in Nat
        BY <1>3 DEF Close, PoolInv
    <2>2. depth' \in [Getters -> Nat] /\ Free' = Free - (leaked' - leaked) - (0 - depth[p])
        BY <2>1, FreeChange
    <2> QED BY <2>1, <2>2 DEF PoolInv
<1>4. ASSUME NEW p \in Getters, Throw(p) PROVE PoolInv'
    BY <1>4, ThrowLeaks
<1>5. CASE Next
    BY <1>1, <1>2, <1>3, <1>4, <1>5
    DEF Next, Call, DbFails, CompareLock, Get, TryLock, ReadDb, Fill, LockExists, DelLock,
        BeginSave, SaveStep, SaveFails, ExpireCache, ExpireLock, getterVars
<1> QED BY <1>1, <1>5 DEF vars, getterVars

LEMMA InitPoolInv == Init => PoolInv
<1> SUFFICES ASSUME Init PROVE PoolInv
    OBVIOUS
<1>1. leaked = 0 /\ depth = [p \in Getters |-> 0] /\ \A p \in Getters : depth[p] = 0
    BY DEF Init
<1>2. SumFunctionOnSet(depth, Getters) = 0
    BY <1>1, SumZero, SkuCacheAssumption
<1> QED BY <1>1, <1>2, SkuCacheAssumption DEF PoolInv, Free

\* Every variable keeps its type; in particular the pool is never overdrawn, and
\* exceptions never leak more connections than it has.
THEOREM TypeCorrect == Spec => []TypeOK
<1>1. IInv /\ PoolInv => TypeOK
    <2> SUFFICES ASSUME IInv, PoolInv PROVE TypeOK
        OBVIOUS
    <2>1. SumFunctionOnSet(depth, Getters) \in Nat
        <3>1. \A p \in Getters : depth[p] \in Nat
            BY DEF PoolInv
        <3> QED BY <3>1, SumNat, SkuCacheAssumption
    <2>2. leaked \in 0 .. MaxTotal
        BY <2>1, SkuCacheAssumption DEF PoolInv, Free
    <2> QED BY <2>2, SkuCacheAssumption DEF IInv, Types, PoolInv, TypeOK, Places
<1> QED BY <1>1, SpecIInv, InitPoolInv, NextPoolInv, PTL DEF Spec
=============================================================================
