---------------------------- MODULE MCDelivery ----------------------------
EXTENDS Delivery, TLC

CONSTANTS c1, c2, p1, p2

\* Descriptors and packet ids differ in nothing but their names.
Interchangeable == Permutations(Socks) \cup Permutations(Ids)
===========================================================================
