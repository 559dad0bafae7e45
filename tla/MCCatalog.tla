------------------------------- MODULE MCCatalog -------------------------------
\* A small instance of Catalog for TLC.
EXTENDS Catalog, TLC
CONSTANTS p1, p2
MCScripts == {"old", "mixed", "names"}
\* Lists from before items had numbers, one in an order that is not that of their creation.
MCLegacy  == [old |-> <<1, 0, 0>>, mixed |-> <<1, 1>>, names |-> <<>>]
Few       == [k \in Kinds |-> 0]
MCBudgets == [old   |-> [Few EXCEPT !["create"] = 2, !["open"] = 1],
              mixed |-> [Few EXCEPT !["create"] = 1, !["renumber"] = 1, !["reorder"] = 1, !["remove"] = 1,
                                    !["open"] = 1],
              names |-> [Few EXCEPT !["create"] = 2, !["alias"] = 1, !["fail"] = 2, !["open"] = 1, !["event"] = 1]]
MCSame    == Permutations(Panels)
=============================================================================
