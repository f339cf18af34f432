---------------------------- MODULE MCWorkerDrain ----------------------------
\* Instances of WorkerDrain for TLC.
EXTENDS WorkerDrain, TLC

CONSTANTS d1, d2, a1, a2
OneDoc      == {d1}
TwoDocs     == {d1, d2}
TwoAccounts == {a1, a2}
Symmetry    == Permutations({d1, d2}) \cup Permutations({a1, a2})
=============================================================================
