---------------------------- MODULE MCAppSession ----------------------------
EXTENDS AppSession, TLC
\* Nothing tells two servers apart, nor two jobs; for safety only.
Symmetry == Permutations(Servers) \cup Permutations(Jobs)
=============================================================================
