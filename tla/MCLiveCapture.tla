--------------------------- MODULE MCLiveCapture ---------------------------
EXTENDS LiveCapture, TLC

Symmetry == Permutations(Windows) \union Permutations(Conns)
=============================================================================
