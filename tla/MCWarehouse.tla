----------------------------- MODULE MCWarehouse -----------------------------
(***************************************************************************)
(* Two orders of sku s1, of which the one stocked warehouse has enough for *)
(* both but not for one of them twice, and a free row that may turn up as  *)
(* a second row of the same sku and warehouse, or in a second warehouse.   *)
(***************************************************************************)
EXTENDS Warehouse, TLC

CONSTANTS o1, o2, s1, s2, w1, w2, c1, c2

\* The listener threads are alike.
Alike == Permutations({c1, c2})

MCDemand    == o1 :> (s1 :> 1 @@ s2 :> 1) @@ o2 :> (s1 :> 2)
MCShelved   == 1 :> <<s1, w1>> @@ 2 :> <<s2, w1>> @@ 3 :> NoRow
MCInitStock == 1 :> 3 @@ 2 :> 3 @@ 3 :> 0
MCRestocks  == {<<s2, w1, 2>>, <<s2, w2, 2>>}
=============================================================================
