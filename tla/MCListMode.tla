----------------------------- MODULE MCListMode -----------------------------
\* A small instance of ListMode for TLC.
EXTENDS ListMode, TLC
CONSTANTS g1, e1, i1, p1, p2
MCGroups   == {g1}
MCEvents   == {e1}
MCOneItem  == {i1}
MCEventOf  == [i \in Items |-> e1]
MCNone     == {}
MCSame     == Permutations(Procs)
=============================================================================
