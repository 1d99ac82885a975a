----------------------------- MODULE MCSession -----------------------------
EXTENDS Session, TLC
CONSTANTS t1, t2, a1, a2
Symmetry == Permutations(Thread) \cup Permutations(Addr)
=============================================================================
