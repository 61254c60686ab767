------------------------------ MODULE MCPayment ------------------------------
\* An order, submitted once or twice.
EXTENDS Payment

CONSTANTS o1, n1, n2
=============================================================================
