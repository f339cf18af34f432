---------------------------- MODULE MCEnrolment ----------------------------
\* Values for the constants of Enrolment (see the .cfg file).
EXTENDS Enrolment, TLC

CONSTANTS k1, k2

Symmetry == Permutations({k1, k2})
=============================================================================
