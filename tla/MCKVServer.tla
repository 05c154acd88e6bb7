----------------------------- MODULE MCKVServer -----------------------------
EXTENDS KVServer, TLC

\* Clerks, keys and servers are interchangeable: no constant names one of them.
Symmetry == Permutations(Clerk) \cup Permutations(Server) \cup Permutations(Key)
=============================================================================
