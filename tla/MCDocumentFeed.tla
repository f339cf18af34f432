---------------------------- MODULE MCDocumentFeed ----------------------------
\* Instances of DocumentFeed for TLC.
EXTENDS DocumentFeed, TLC

CONSTANTS d1, d2, p1, p2
TwoParts == {d1, d2}
OneCall  == 1..1
TwoPolls == {p1, p2}
Symmetry == Permutations(TwoParts) \cup Permutations(TwoPolls)
=============================================================================
