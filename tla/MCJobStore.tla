---------------------------- MODULE MCJobStore -----------------------------
\* Instances of JobStore for TLC: the configurations give the constants.
EXTENDS JobStore
=============================================================================
