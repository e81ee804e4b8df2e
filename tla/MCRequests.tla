----------------------------- MODULE MCRequests -----------------------------
EXTENDS Requests, TLC
CONSTANTS r1, r2, p1, p2, h1
OneBook == [r \in Requests |-> 1]
=============================================================================
