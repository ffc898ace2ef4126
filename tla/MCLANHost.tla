------------------------------ MODULE MCLANHost ------------------------------
\* A shared Room for TLC: two guests, who choose among two request IDs.
EXTENDS LANHost, TLC

CONSTANTS r1, r2, k1, k2
Guests == Permutations(Requests) \cup Permutations(Keys)
=============================================================================
