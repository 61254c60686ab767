----------------------------- MODULE MCCheckout ------------------------------
(***************************************************************************)
(* Two submissions and two pages: the same page twice, an old page after a *)
(* new one, and calls that Dubbo repeats.  A page of another user has the  *)
(* effect of another page, for all users share the key.                    *)
(***************************************************************************)
EXTENDS Checkout, TLC

CONSTANTS u1, r1, r2, l1, l2

MCRetries == r1 :> 1 @@ r2 :> 0
MCNoRetries == r1 :> 0 @@ r2 :> 0
=============================================================================
