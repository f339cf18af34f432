---------------------------- MODULE MCAppStatus ----------------------------
\* Values for the constants of AppStatus (see the .cfg files).
EXTENDS AppStatus, TLC

CONSTANTS k1, k2

Symmetry == Permutations({k1, k2})
=============================================================================
