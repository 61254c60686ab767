------------------------------ MODULE TokenGate ------------------------------
(***************************************************************************)
(* What the token of a checkout page promises.  A submission whose token   *)
(* is not the valid one when it is made never becomes an order; one whose  *)
(* token is valid may still lose its chance once the token is gone, and is *)
(* let in only when the token is gone, so that no later submission of the  *)
(* page has a chance.  Two submissions of one page that are made while its *)
(* token is valid may both be let in: this the code does not exclude.      *)
(* There are no calls, retries or Redis commands here.  Checkout is        *)
(* checked and proved to implement this.                                   *)
(***************************************************************************)
EXTENDS Naturals

CONSTANTS Requests, Tokens, NoToken

VARIABLES
    given,  \* the tokens given out
    valid,  \* the token that is stored, if any
    token,  \* the token of a submission
    fate,   \* whether it has a chance, has lost it, was let in, or is over
    saved   \* orders saved for it

gateVars == <<given, valid, token, fate, saved>>
-----------------------------------------------------------------------------
Init ==
    /\ given = {} /\ valid = {}
    /\ token = [r \in Requests |-> NoToken]
    /\ fate = [r \in Requests |-> "new"]
    /\ saved = [r \in Requests |-> 0]

\* Some submissions lose their chance, for their tokens are gone.
Spoil(lost) ==
    /\ \A r \in lost : fate[r] = "asking" /\ token[r] \notin valid'
    /\ fate' = [r \in Requests |-> IF r \in lost THEN "doomed" ELSE fate[r]]

\* A page is shown: its token is new, and replaces any other.
Open(t, lost) ==
    /\ t \notin given
    /\ given' = given \cup {t} /\ valid' = {t}
    /\ Spoil(lost)
    /\ UNCHANGED <<token, saved>>

\* The token is used or expires, or stays.
Close(lost) ==
    /\ valid' \in {valid, {}}
    /\ Spoil(lost)
    /\ UNCHANGED <<given, token, saved>>

Ask(r, t) ==
    /\ fate[r] = "new" /\ t \in given
    /\ token' = [token EXCEPT ![r] = t]
    /\ fate' = [fate EXCEPT ![r] = IF t \in valid THEN "asking" ELSE "doomed"]
    /\ UNCHANGED <<given, valid, saved>>

Admit(r) ==
    /\ fate[r] = "asking" /\ token[r] \notin valid
    /\ fate' = [fate EXCEPT ![r] = "in"]
    /\ UNCHANGED <<given, valid, token, saved>>

\* It is refused or fails, and nothing is saved for it any more.
Leave(r) ==
    /\ fate[r] \in {"asking", "doomed", "in"}
    /\ fate' = [fate EXCEPT ![r] = "out"]
    /\ UNCHANGED <<given, valid, token, saved>>

\* An order is saved, perhaps after the submission has failed.
Save(r) ==
    /\ fate[r] = "in"
    /\ saved' = [saved EXCEPT ![r] = @ + 1]
    /\ \E f \in {"in", "out"} : fate' = [fate EXCEPT ![r] = f]
    /\ UNCHANGED <<given, valid, token>>

Next ==
    \/ \E lost \in SUBSET Requests : Close(lost) \/ \E t \in Tokens : Open(t, lost)
    \/ \E r \in Requests : \/ \E t \in Tokens : Ask(r, t)
                           \/ Admit(r) \/ Leave(r) \/ Save(r)

Spec == Init /\ [][Next]_gateVars
=============================================================================
