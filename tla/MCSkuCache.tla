----------------------------- MODULE MCSkuCache ------------------------------
(***************************************************************************)
(* Two getters, one save that may be torn, and a pool that the getters'    *)
(* recursion exhausts.                                                     *)
(***************************************************************************)
EXTENDS SkuCache, TLC

OneTable == <<"attr">>
=============================================================================
