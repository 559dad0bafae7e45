-------------------------- MODULE MCAuctionEngine --------------------------
\* A small instance of AuctionEngine for TLC.
EXTENDS AuctionEngine, TLC

CONSTANTS g1, i1, e1, p1, p2, t1, t2

MCGroups    == {g1}
MCItems     == {i1}
MCEvents    == {e1}
MCNoEvents  == {}
MCAmounts   == 1 .. 2
MCInitials  == {1}
MCSteps     == {0}
MCDurations == {1}
MCNobody    == {}
MCSame      == Permutations({t1, t2})
=============================================================================
