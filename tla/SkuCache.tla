------------------------------ MODULE SkuCache -------------------------------
(***************************************************************************)
(* The cache of a sku (ManagerServiceImpl.getSkuInfo) over its tables and  *)
(* saveSkuInfo, for one sku: keys and rows of different skus never meet.   *)
(*                                                                         *)
(*  - Redis holds the sku for ten seconds, and a lock, held by whoever     *)
(*    fills the cache, for ten seconds too.  Every step on Redis is a      *)
(*    round trip of its own.                                               *)
(*  - Who misses the cache and the lock sleeps and calls getSkuInfo again, *)
(*    keeping the Jedis connection it has; the pool is bounded, and an     *)
(*    exception closes no connection.                                      *)
(*  - The sku is one row and the rows of three other tables.  They are     *)
(*    written and read by separate statements, outside any transaction.    *)
(***************************************************************************)
EXTENDS Integers, Sequences, FiniteSets, Functions

CONSTANTS
    Getters,    \* threads that call getSkuInfo
    Savers,     \* threads that call saveSkuInfo
    MaxSaves,   \* calls of saveSkuInfo (a bound)
    MaxTotal,   \* connections of the Jedis pool
    Tables,     \* tables besides sku_info, in the order in which saveSkuInfo writes
                \* them and getSkuInfoDb reads them backwards (a bound: they are
                \* treated alike)
    NoOne, Absent, Null, Blank

\* The row of sku_info, and its rows in sku_attr_value ("attr"), in
\* sku_sale_attr_value ("sale") and in sku_image ("image"), each named by the
\* save that wrote it.  Save 0 is the state at the start.
Parts    == {"info"} \cup {Tables[i] : i \in DOMAIN Tables}
Versions == 0 .. MaxSaves
Skus     == [Parts -> SUBSET Versions]

\* saveSkuInfo's statements on the other tables: each is cleared, then filled.
SaveSteps == 2 * Len(Tables)

ASSUME SkuCacheAssumption ==
    /\ Tables \in Seq({"attr", "sale", "image"}) /\ Tables # <<>>
    /\ IsFiniteSet(Getters) /\ NoOne \notin Getters
    /\ MaxSaves \in Nat /\ MaxTotal \in Nat \ {0}
    /\ {Absent, Null, Blank} \cap Skus = {} /\ Absent # Null /\ Null # Blank /\ Absent # Blank

VARIABLES
    db,         \* the rows of the sku's parts
    cache,      \* sku:<id>:info, Absent, or Null: the text "null"
    lock,       \* sku:<id>:lock: whose random value it holds
    overrun,    \* some lock has been lost before its holder let go of it
    leaked,     \* connections no exception gave back
    saves,      \* calls of saveSkuInfo so far
    at, version,\* the statement a saver comes to next, 0 if idle; its save
    pc,         \* where a getter stands
    depth,      \* its connections: one for each getSkuInfo on its stack
    read,       \* getSkuInfoDb: parts read so far
    copy        \* its local skuInfo

saverVars  == <<saves, at, version>>
getterVars == <<pc, depth, read, copy>>
vars == <<db, cache, lock, overrun, leaked, saverVars, getterVars>>

Free == MaxTotal - leaked - SumFunctionOnSet(depth, Getters)

\* Between getting the lock and being done with it.
Holding == {"db", "fill", "exists", "compare", "del"}
NoRows  == [x \in Parts |-> {}]
-----------------------------------------------------------------------------
TypeOK ==
    /\ db \in Skus /\ cache \in Skus \cup {Absent, Null}
    /\ lock \in Getters \cup {NoOne} /\ overrun \in BOOLEAN
    /\ leaked \in 0 .. MaxTotal /\ saves \in Nat
    /\ at \in [Savers -> 0 .. SaveSteps] /\ version \in [Savers -> Versions]
    /\ pc \in [Getters -> {"idle", "get", "lock", "sleep", "close"} \cup Holding]
    /\ depth \in [Getters -> Nat] /\ Free \in Nat
    /\ read \in [Getters -> 0 .. Len(Tables)]
    /\ copy \in [Getters -> Skus \cup {Null, Blank}]

Init ==
    /\ db \in {NoRows, [x \in Parts |-> {0}]}
    /\ cache = Absent /\ lock = NoOne /\ overrun = FALSE /\ leaked = 0
    /\ saves = 0 /\ at = [a \in Savers |-> 0] /\ version = [a \in Savers |-> 0]
    /\ pc = [p \in Getters |-> "idle"]
    /\ depth = [p \in Getters |-> 0]
    /\ read = [p \in Getters |-> 0]
    /\ copy = [p \in Getters |-> Blank]

-----------------------------------------------------------------------------
\* saveSkuInfo: update or insert the row, then replace the rows of each of
\* the other tables.

BeginSave(a) ==
    /\ at[a] = 0 /\ saves < MaxSaves
    /\ saves' = saves + 1
    /\ version' = [version EXCEPT ![a] = saves + 1]
    /\ at' = [at EXCEPT ![a] = 1]
    /\ db' = [db EXCEPT !["info"] = {saves + 1}]
    /\ UNCHANGED <<cache, lock, overrun, leaked, getterVars>>

SaveStep(a) ==
    /\ at[a] > 0
    /\ LET table == Tables[(at[a] + 1) \div 2]
       IN  db' = [db EXCEPT ![table] = IF at[a] % 2 = 1 THEN {} ELSE @ \cup {version[a]}]
    /\ at' = [at EXCEPT ![a] = IF @ = SaveSteps THEN 0 ELSE @ + 1]
    /\ version' = [version EXCEPT ![a] = IF at[a] = SaveSteps THEN 0 ELSE @]
    /\ UNCHANGED <<cache, lock, overrun, leaked, saves, getterVars>>

\* A statement fails: what was written before it stays.
SaveFails(a) ==
    /\ at[a] > 0
    /\ at' = [at EXCEPT ![a] = 0] /\ version' = [version EXCEPT ![a] = 0]
    /\ UNCHANGED <<db, cache, lock, overrun, leaked, saves, getterVars>>

-----------------------------------------------------------------------------
\* Time.

ExpireCache_Never == FALSE /\ UNCHANGED vars
ExpireCache ==
    /\ cache # Absent
    /\ cache' = Absent
    /\ UNCHANGED <<db, lock, overrun, leaked, saverVars, getterVars>>

\* The lock's ten seconds are over, whether its holder is done or not.
ExpireLock ==
    /\ lock # NoOne
    /\ lock' = NoOne
    /\ overrun' = (overrun \/ pc[lock] \in Holding)
    /\ UNCHANGED <<db, cache, leaked, saverVars, getterVars>>

-----------------------------------------------------------------------------
\* getSkuInfo.

Goto(p, next) == pc' = [pc EXCEPT ![p] = next]

\* An exception passes through every getSkuInfo on the stack.
Throw(p) ==
    /\ leaked' = leaked + depth[p]
    /\ depth' = [depth EXCEPT ![p] = 0]
    /\ read' = [read EXCEPT ![p] = 0]
    /\ copy' = [copy EXCEPT ![p] = Blank]
    /\ Goto(p, "idle")

\* getJedis waits two seconds for a connection, then throws.  (A call that
\* gets none at its start leaves nothing behind.)
HasFree_OneMore == Free >= 0
HasFree == Free > 0
GivesUp_Never(p) == FALSE
GivesUp(p) == Free = 0 /\ pc[p] = "sleep"
GetJedis(p) ==
    /\ pc[p] \in {"idle", "sleep"}
    /\ \/ /\ HasFree
          /\ depth' = [depth EXCEPT ![p] = @ + 1]
          /\ Goto(p, "get")
          /\ UNCHANGED <<leaked, read, copy>>
       \/ /\ GivesUp(p)
          /\ Throw(p)
    /\ UNCHANGED <<db, cache, lock, overrun, saverVars>>

Get(p) ==
    /\ pc[p] = "get"
    /\ IF cache = Absent
       THEN Goto(p, "lock") /\ UNCHANGED copy
       ELSE Goto(p, "close") /\ copy' = [copy EXCEPT ![p] = cache]
    /\ UNCHANGED <<db, cache, lock, overrun, leaked, saverVars, depth, read>>

\* SET NX EX 10.
LockFree_NoNX == TRUE
LockFree == lock = NoOne
TryLock(p) ==
    /\ pc[p] = "lock"
    /\ IF LockFree
       THEN lock' = p /\ Goto(p, "db")
       ELSE Goto(p, "sleep") /\ UNCHANGED lock
    /\ UNCHANGED <<db, cache, overrun, leaked, saverVars, depth, read, copy>>

\* getSkuInfoDb: a select for each part; no row of sku_info, no sku.
ReadDb(p) ==
    /\ pc[p] = "db"
    /\ \/ /\ read[p] = 0 /\ db["info"] = {}
          /\ copy' = [copy EXCEPT ![p] = Null]
          /\ Goto(p, "fill") /\ UNCHANGED read
       \/ /\ read[p] = 0 /\ db["info"] # {}
          /\ copy' = [copy EXCEPT ![p] = [NoRows EXCEPT !["info"] = db["info"]]]
          /\ read' = [read EXCEPT ![p] = 1] /\ UNCHANGED pc
       \/ /\ read[p] > 0
          /\ LET table == Tables[Len(Tables) + 1 - read[p]]
             IN  copy' = [copy EXCEPT ![p] = [@ EXCEPT ![table] = db[table]]]
          /\ IF read[p] = Len(Tables)
             THEN Goto(p, "fill") /\ read' = [read EXCEPT ![p] = 0]
             ELSE read' = [read EXCEPT ![p] = @ + 1] /\ UNCHANGED pc
    /\ UNCHANGED <<db, cache, lock, overrun, leaked, saverVars, depth>>

\* The database fails: the lock stays until it expires.
DbFails(p) ==
    /\ pc[p] = "db"
    /\ Throw(p)
    /\ UNCHANGED <<db, cache, lock, overrun, saverVars>>

Fill(p) ==
    /\ pc[p] = "fill"
    /\ cache' = copy[p]
    /\ Goto(p, "exists")
    /\ UNCHANGED <<db, lock, overrun, leaked, saverVars, depth, read, copy>>

LockExists(p) ==
    /\ pc[p] = "exists"
    /\ Goto(p, IF lock = NoOne THEN "close" ELSE "compare")
    /\ UNCHANGED <<db, cache, lock, overrun, leaked, saverVars, depth, read, copy>>

\* The lock may be gone since: get answers null, and equals throws.
CompareLock(p) ==
    /\ pc[p] = "compare"
    /\ \/ /\ lock = NoOne
          /\ Throw(p)
       \/ /\ lock # NoOne
          /\ Goto(p, IF lock = p THEN "del" ELSE "close")
          /\ UNCHANGED <<leaked, depth, read, copy>>
    /\ UNCHANGED <<db, cache, lock, overrun, saverVars>>

\* The lock deleted may be another's by now.
DelLock(p) ==
    /\ pc[p] = "del"
    /\ lock' = NoOne
    /\ overrun' = (overrun \/ lock # p)
    /\ Goto(p, "close")
    /\ UNCHANGED <<db, cache, leaked, saverVars, depth, read, copy>>

\* Every getSkuInfo on the stack closes its connection and returns its own
\* skuInfo: what the call it made has returned is dropped.
Result(p) == IF depth[p] = 1 THEN copy[p] ELSE Blank
Close(p) ==
    /\ pc[p] = "close"
    /\ depth' = [depth EXCEPT ![p] = 0]
    /\ copy' = [copy EXCEPT ![p] = Blank]
    /\ Goto(p, "idle")
    /\ UNCHANGED <<db, cache, lock, overrun, leaked, saverVars, read>>

-----------------------------------------------------------------------------
\* The steps of a call that is under way.
Call(p) ==
    \/ pc[p] = "sleep" /\ GetJedis(p)
    \/ Get(p) \/ TryLock(p) \/ ReadDb(p) \/ Fill(p)
    \/ LockExists(p) \/ CompareLock(p) \/ DelLock(p) \/ Close(p)

Next ==
    \/ \E p \in Getters : GetJedis(p) \/ Call(p) \/ DbFails(p)
    \/ \E a \in Savers : BeginSave(a) \/ SaveStep(a) \/ SaveFails(a)
    \/ ExpireCache \/ ExpireLock

\* Calls under way go on, saves included, and time passes.
Spec ==
    /\ Init /\ [][Next]_vars
    /\ \A p \in Getters : WF_vars(Call(p))
    /\ \A a \in Savers : WF_vars(SaveStep(a))
    /\ WF_vars(ExpireCache) /\ WF_vars(ExpireLock)
-----------------------------------------------------------------------------
\* Properties.

\* While no lock is lost before its holder lets go, one getter at a time reads
\* the database and fills the cache, however the getters meet (getSkuInfo).
OneFiller == ~overrun => Cardinality({p \in Getters : pc[p] \in {"db", "fill"}}) <= 1

\* While no lock is lost, a sku in the cache is replaced only by one whose row,
\* and so whose price, is as new: nobody puts back what he read earlier, though
\* nobody looks at the cache again once he has the lock.
NeverBackwards ==
    [][(~overrun' /\ {cache, cache'} \subseteq Skus) =>
          \A v \in cache["info"], w \in cache'["info"] : v <= w]_vars

\* What the tables say of the sku.
Sku == IF db["info"] = {} THEN Null ELSE db

\* When the saves are over, the cache comes to agree with the tables for good,
\* whatever half-written sku was cached and whatever locks were lost.
SavedIsSeen == <>[](cache \in {Absent, Sku})

\* Every call of getSkuInfo ends, by an answer or by an exception: waiting for
\* a lock nobody will free, or for connections held by others who wait, does
\* not last.
CallsEnd == \A p \in Getters : pc[p] # "idle" ~> pc[p] = "idle"

\* Who has to wait for another's lock gets the sku, or learns that there is
\* none: never an object without any field set.
WaiterGetsSku == \A p \in Getters : pc[p] = "close" => Result(p) # Blank
=============================================================================
