---------------------------- MODULE MCOrderFlow ------------------------------
(***************************************************************************)
(* An order paid once or twice, two threads that handle payments and one   *)
(* for each of the warehouse's queues.                                     *)
(***************************************************************************)
EXTENDS OrderFlow, TLC
=============================================================================
