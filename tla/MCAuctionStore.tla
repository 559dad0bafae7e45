--------------------------- MODULE MCAuctionStore ---------------------------
\* A small instance of AuctionStore for TLC.
EXTENDS AuctionStore, TLC
CONSTANTS g1, i1, e1, p1, p2
MCGroups    == {g1}
MCItems     == {i1}
MCEvents    == {e1}
MCAmounts   == 1 .. 3
MCInitials  == {1}
MCSteps     == {0}
MCTwoSteps  == {0, 2}
MCDurations == {0, 1}
MCSame      == Permutations(Procs)
=============================================================================
