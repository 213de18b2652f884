---------------------------- MODULE MCRequestAuth ----------------------------
EXTENDS RequestAuth, TLC

MCClockErrors == {-1, 0, 1}

Symmetric == Permutations(Nonces) \cup Permutations(Workers)
=============================================================================
