---------------------------- MODULE MCMediaStore ----------------------------
\* Instances of MediaStore for TLC: the configurations give the constants.
EXTENDS MediaStore, TLC

Symmetry ==
  Permutations(Uploads) \cup Permutations(Jobs) \cup Permutations(MediaIds)
=============================================================================
