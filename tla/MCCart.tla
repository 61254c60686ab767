------------------------------- MODULE MCCart -------------------------------
\* A member and a guest with a line of the same sku each, and one of another.
EXTENDS Cart

CONSTANTS m1, g1, s1, s2, t1, t2

Carts == <<<<m1, s1, 1>>, <<g1, s1, 2>>, <<g1, s2, 1>>>>
=============================================================================
