-------------------------------- MODULE Shelf --------------------------------
(***************************************************************************)
(* What the warehouse promises about the goods of ware_sku: an order's     *)
(* goods are promised all together or not at all, out of rows of one       *)
(* warehouse that have them to spare at that very moment; and goods leave  *)
(* the shelf only out of what is promised.  There are no threads, messages *)
(* or row locks here: every step is one look at the table and one change   *)
(* of it.  Warehouse is checked and proved to implement this.              *)
(***************************************************************************)
EXTENDS Integers

CONSTANTS Orders, Skus, Wares, RowIds, Demand, Shelved, InitStock, Restocks, NoRow

VARIABLES
    row,        \* the <<sku, warehouse>> of each row, or NoRow
    stock,      \* goods in the warehouse
    stockLocked \* of which are promised to orders

shelfVars == <<row, stock, stockLocked>>
-----------------------------------------------------------------------------
Init ==
    /\ row = Shelved /\ stock = InitStock
    /\ stockLocked = [r \in RowIds |-> 0]

\* An operator adds a row.
Shelve(r, x) ==
    /\ row[r] = NoRow
    /\ row' = [row EXCEPT ![r] = <<x[1], x[2]>>]
    /\ stock' = [stock EXCEPT ![r] = x[3]]
    /\ UNCHANGED stockLocked

\* What order o takes from row r when it is served by warehouse w.
Taken(o, w, r) ==
    IF \E s \in DOMAIN Demand[o] : row[r] = <<s, w>> THEN Demand[o][row[r][1]] ELSE 0

\* Every line of the order has one row in w, neither none nor a choice of two.
Stocks(w, o) ==
    \A s \in DOMAIN Demand[o] : \E r \in RowIds : \A q \in RowIds :
        row[q] = <<s, w>> <=> q = r

\* Lock the whole order, in one warehouse, out of what is available.
Promise(o, w) ==
    /\ Stocks(w, o)
    /\ \A r \in RowIds : Taken(o, w, r) > 0 => Taken(o, w, r) <= stock[r] - stockLocked[r]
    /\ stockLocked' = [r \in RowIds |-> stockLocked[r] + Taken(o, w, r)]
    /\ UNCHANGED <<row, stock>>

\* Hand over goods that were promised.
Ship(o, w) ==
    /\ \A r \in RowIds : Taken(o, w, r) <= stockLocked[r]
    /\ stock' = [r \in RowIds |-> stock[r] - Taken(o, w, r)]
    /\ stockLocked' = [r \in RowIds |-> stockLocked[r] - Taken(o, w, r)]
    /\ UNCHANGED row

Next ==
    \/ \E r \in RowIds, x \in Restocks : Shelve(r, x)
    \/ \E o \in Orders, w \in Wares : Promise(o, w) \/ Ship(o, w)

Spec == Init /\ [][Next]_shelfVars
=============================================================================
