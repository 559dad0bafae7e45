-------------------------- MODULE AscendingAuction --------------------------
(***************************************************************************)
(* What a bidder is promised of each auction, with no rows, locks or       *)
(* clocks: while it is open the best bid only rises (the organiser may     *)
(* withdraw bids), closing freezes the best bid as the winning one, and    *)
(* nothing happens to an auction that is over.  An auction whose history   *)
(* was cleared, or rewritten by an edit that overlapped another writer, is *)
(* void: nothing is promised of it any more.                               *)
(***************************************************************************)
EXTENDS Naturals

CONSTANTS Ids, Values

VARIABLES
    phase,   \* of each auction
    best     \* its best bid, 0 for none

Phase == {"none", "OPEN", "CLOSED", "CANCELLED", "void"}

TypeOK ==
    /\ phase \in [Ids -> Phase]
    /\ best \in [Ids -> Nat]

Init ==
    /\ phase = [a \in Ids |-> "none"]
    /\ best = [a \in Ids |-> 0]

OpenAuction(a) ==
    /\ phase[a] = "none"
    /\ phase' = [phase EXCEPT ![a] = "OPEN"]
    /\ UNCHANGED best

Raise(a) ==
    /\ phase[a] = "OPEN"
    /\ \E v \in Values : v > best[a] /\ best' = [best EXCEPT ![a] = v]
    /\ UNCHANGED phase

Withdraw(a) ==
    /\ phase[a] = "OPEN"
    /\ \E v \in Values \cup {0} : v < best[a] /\ best' = [best EXCEPT ![a] = v]
    /\ UNCHANGED phase

\* The best bid is the winning one: best does not change.
CloseAuction(a) ==
    /\ phase[a] = "OPEN"
    /\ phase' = [phase EXCEPT ![a] = "CLOSED"]
    /\ UNCHANGED best

CancelAuction(a) ==
    /\ phase[a] = "OPEN"
    /\ phase' = [phase EXCEPT ![a] = "CANCELLED"]
    /\ best' = [best EXCEPT ![a] = 0]

\* Clearing the history takes several auctions at once.
Forget(S) ==
    /\ S # {} /\ \A a \in S : phase[a] # "none"
    /\ phase' = [a \in Ids |-> IF a \in S THEN "void" ELSE phase[a]]
    /\ best' = [a \in Ids |-> IF a \in S THEN 0 ELSE best[a]]

Next ==
    \/ \E a \in Ids : \/ OpenAuction(a) \/ Raise(a) \/ Withdraw(a)
                      \/ CloseAuction(a) \/ CancelAuction(a)
    \/ \E S \in SUBSET Ids : Forget(S)

Spec == Init /\ [][Next]_<<phase, best>>
=============================================================================
