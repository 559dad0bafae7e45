---------------------------- MODULE AuctionStore ----------------------------
(***************************************************************************)
(* The rows AuctionsService keeps in Postgres for one tenant (Auction,     *)
(* Bid, the status of Item) and every way the program writes them.         *)
(*                                                                         *)
(* placeBid, closeAuction and cancelAuction hold the auction's row with    *)
(* SELECT ... FOR UPDATE from their first read to their commit, so each is *)
(* one action.  Everything else is a chain of separate statements: a call  *)
(* that is between two of them is a record in `call`, and any other call   *)
(* may run in between.                                                     *)
(*                                                                         *)
(* `unsynced` is a history variable: the auctions whose bids were changed  *)
(* by a panel edit that another writer could overlap (see Disturbed).      *)
(***************************************************************************)
EXTENDS Integers, FiniteSets

CONSTANTS
    MaxAuctions,     \* bound: auction rows ever created
    MaxBids,         \* bound: bid rows ever created
    MaxTime,         \* bound: the clock stops there
    MaxCrashes,      \* bound: restarts of the server
    Groups, Items, Events, Procs,
    NoGroup, NoItem, NoEvent,
    Amounts,         \* bid values used as inputs
    InitialValues,   \* initial values used as inputs
    Steps,           \* minBidStep values; 0 stands for null and for 0
    Durations        \* durationSeconds values; 0 is "no own deadline"

ASSUME StoreAssumption ==
    /\ MaxAuctions \in Nat /\ MaxBids \in Nat /\ MaxTime \in Nat
    /\ MaxCrashes \in Nat
    /\ Amounts \subseteq Nat \ {0} /\ InitialValues \subseteq Nat \ {0}
    /\ Steps \subseteq Nat
    /\ Durations \subseteq Nat
    /\ NoGroup \notin Groups /\ NoItem \notin Items /\ NoEvent \notin Events

VARIABLES
    auction,      \* the Auction table, by id
    auctionSeq,   \* ids handed out
    bid,          \* the Bid table, by id; ids grow with createdAt
    bidSeq,
    item,         \* Item.status
    call,         \* panel and chat calls between two statements
    sweep,        \* auctions processExpiredAuctions has read and not yet closed
    now,
    crashes,      \* restarts so far
    unsynced      \* history, see Disturbed

rows == <<auction, auctionSeq, bid, bidSeq, item, unsynced>>
vars == <<auction, auctionSeq, bid, bidSeq, item, call, sweep, now, crashes, unsynced>>

AuctionIds == 1 .. MaxAuctions
BidIds     == 1 .. MaxBids
NoBid      == 0
NoAuction  == 0
NoTime     == -1

AuctionStatus == {"ABSENT", "OPEN", "CLOSED", "CANCELLED"}
ItemStatus    == {"AVAILABLE", "ON_AUCTION", "SOLD"}

AuctionRow ==
    [status : AuctionStatus, group : Groups \cup {NoGroup},
     item : Items \cup {NoItem}, event : Events \cup {NoEvent},
     initial : Nat, duration : Nat, step : Nat,
     startedAt : Nat, endsAt : Nat \cup {NoTime},
     scheduledEndAt : Nat \cup {NoTime}, winner : BidIds \cup {NoBid}]

AbsentAuction ==
    [status |-> "ABSENT", group |-> NoGroup, item |-> NoItem, event |-> NoEvent,
     initial |-> 0, duration |-> 0, step |-> 0, startedAt |-> 0,
     endsAt |-> NoTime, scheduledEndAt |-> NoTime, winner |-> NoBid]

BidRow == [auction : AuctionIds \cup {NoAuction}, amount : Nat, leader : BOOLEAN]

AbsentBid == [auction |-> NoAuction, amount |-> 0, leader |-> FALSE]

CallStep == {"idle", "create", "mark", "update", "schedule", "updateBid",
             "delete", "reset", "find", "lead", "settle", "clearItems"}

Call == [step : CallStep, auction : AuctionIds \cup {NoAuction},
         bid : BidIds \cup {NoBid}, group : Groups \cup {NoGroup},
         item : Items \cup {NoItem}, event : Events \cup {NoEvent}, at : Nat]

Idle == [step |-> "idle", auction |-> NoAuction, bid |-> NoBid,
         group |-> NoGroup, item |-> NoItem, event |-> NoEvent, at |-> 0]

(***************************************************************************)
(* Reading the tables.                                                     *)
(***************************************************************************)
BidsOf(a)    == {b \in BidIds : bid[b].auction = a}
LeadersOf(a) == {b \in BidsOf(a) : bid[b].leader}
Open(a)      == auction[a].status = "OPEN"

\* b carries the largest amount among the auction's bids.
IsHighest(b, a) ==
    /\ b \in BidsOf(a)
    /\ \A c \in BidsOf(a) : bid[c].amount <= bid[b].amount

Expired(a) ==
    /\ Open(a)
    /\ auction[a].endsAt # NoTime
    /\ auction[a].endsAt <= now

\* removeBid has deleted a bid of `a` and not yet written the new leader and winner.
Removing(a) ==
    \E p \in Procs : /\ call[p].auction = a
                     /\ call[p].step \in {"reset", "find", "lead", "settle"}

(***************************************************************************)
(* History: a write to the bids (or the closing) of an auction that meets  *)
(* a removal half done, leaves `a` unsynchronised from then on.            *)
(***************************************************************************)
Disturbed(a) == IF Removing(a) THEN unsynced \cup {a} ELSE unsynced

-----------------------------------------------------------------------------
(***************************************************************************)
(* The transactions that hold the row lock.                                *)
(***************************************************************************)

\* Mutant: a later bid compared with the initial value, not with the maximum.
AcceptsBidMutant(a, amount) == amount >= auction[a].initial

\* What placeBid accepts: the first bid reaches the initial value, a later one
\* passes the maximum by minBidStep, or by anything when there is no step.
AcceptsBid(a, amount) ==
    IF BidsOf(a) = {}
    THEN amount >= auction[a].initial
    ELSE \A b \in BidsOf(a) :
            IF auction[a].step > 0
            THEN amount >= bid[b].amount + auction[a].step
            ELSE amount > bid[b].amount

\* Mutant: the deadline counted from startedAt, as updateAuction does.
DeadlineAfterBidMutant(a) ==
    IF auction[a].scheduledEndAt # NoTime THEN auction[a].scheduledEndAt
    ELSE IF auction[a].duration > 0 THEN auction[a].startedAt + auction[a].duration
    ELSE auction[a].endsAt

\* A deadline fixed by the panel stands; otherwise the clock restarts.
DeadlineAfterBid(a) ==
    IF auction[a].scheduledEndAt # NoTime THEN auction[a].scheduledEndAt
    ELSE IF auction[a].duration > 0 THEN now + auction[a].duration
    ELSE auction[a].endsAt

PlaceBid(a, amount) ==
    /\ bidSeq < MaxBids
    /\ Open(a)
    /\ AcceptsBid(a, amount)
    /\ bidSeq' = bidSeq + 1
    /\ bid' = [b \in BidIds |->
                 IF b = bidSeq + 1
                 THEN [auction |-> a, amount |-> amount, leader |-> TRUE]
                 ELSE IF bid[b].auction = a THEN [bid[b] EXCEPT !.leader = FALSE]
                 ELSE bid[b]]
    /\ auction' = [auction EXCEPT ![a].endsAt = DeadlineAfterBid(a)]
    /\ unsynced' = Disturbed(a)
    /\ UNCHANGED <<auctionSeq, item>>

\* Mutant: bids[0] without the isCurrentLeader filter.
WinnerChoicesMutant(a) == IF BidsOf(a) = {} THEN {NoBid} ELSE BidsOf(a)

\* bids[0] of the leaders, null when there is none.
WinnerChoices(a) == IF LeadersOf(a) = {} THEN {NoBid} ELSE LeadersOf(a)

\* Closing what is not open any more returns the row untouched.
CloseAuction(a) ==
    /\ Open(a)
    /\ \E w \in WinnerChoices(a) :
         /\ auction' = [auction EXCEPT ![a].status = "CLOSED", ![a].winner = w]
         /\ item' = [i \in Items |->
                       IF i # auction[a].item THEN item[i]
                       ELSE IF w = NoBid THEN "AVAILABLE" ELSE "SOLD"]
    /\ unsynced' = Disturbed(a)
    /\ UNCHANGED <<auctionSeq, bid, bidSeq>>

CancelAuction(a) ==
    /\ Open(a)
    /\ auction' = [auction EXCEPT ![a].status = "CANCELLED"]
    /\ item' = [i \in Items |-> IF i = auction[a].item THEN "AVAILABLE" ELSE item[i]]
    /\ UNCHANGED <<auctionSeq, bid, bidSeq, unsynced>>

-----------------------------------------------------------------------------
(***************************************************************************)
(* startAuction: the "one open auction per group" check, the insert, and   *)
(* the caller's separate write of the item's status.  The auction of an    *)
(* item that belongs to a list (an event) skips the check.                 *)
(***************************************************************************)
GroupIsFree(g) == \A a \in AuctionIds : ~(Open(a) /\ auction[a].group = g)

InsertAuction(g, i, e, initial, dur, step, at) ==
    /\ auctionSeq < MaxAuctions
    /\ auctionSeq' = auctionSeq + 1
    /\ auction' = [auction EXCEPT ![auctionSeq + 1] =
                     [status |-> "OPEN", group |-> g, item |-> i, event |-> e,
                      initial |-> initial, duration |-> dur, step |-> step,
                      startedAt |-> at,
                      endsAt |-> IF dur > 0 THEN at + dur ELSE NoTime,
                      scheduledEndAt |-> NoTime, winner |-> NoBid]]
    /\ UNCHANGED <<bid, bidSeq, item, unsynced>>

\* From the panel an item not already on auction, or no item (REST, chat).  The
\* clock is read before the check.
StartCheck(p, g, i, e) ==
    /\ call[p] = Idle
    /\ i = NoItem => e = NoEvent
    /\ i # NoItem => item[i] # "ON_AUCTION"
    /\ e = NoEvent => GroupIsFree(g)
    /\ call' = [call EXCEPT ![p] =
         [Idle EXCEPT !.step = "create", !.group = g, !.item = i, !.event = e, !.at = now]]
    /\ UNCHANGED <<rows, sweep, now, crashes>>

\* durationSeconds is at least 10 here, so never 0.
StartCreate(p) ==
    LET i == call[p].item IN
    /\ call[p].step = "create"
    /\ \E initial \in InitialValues, step \in Steps, dur \in Durations \ {0} :
         InsertAuction(call[p].group, i, call[p].event, initial, dur, step, call[p].at)
    /\ call' = [call EXCEPT ![p] =
         IF i = NoItem THEN Idle
         ELSE [Idle EXCEPT !.step = "mark", !.item = i, !.auction = auctionSeq + 1]]
    /\ UNCHANGED <<sweep, now, crashes>>

\* The list flows of AuctionEngine insert straight away.
StartListed(p) ==
    /\ call[p] = Idle
    /\ \E g \in Groups, i \in Items, e \in Events, initial \in InitialValues,
          step \in Steps, dur \in Durations :
         /\ InsertAuction(g, i, e, initial, dur, step, now)
         /\ call' = [call EXCEPT ![p] =
              [Idle EXCEPT !.step = "mark", !.item = i, !.auction = auctionSeq + 1]]
    /\ UNCHANGED <<sweep, now, crashes>>

MarkItemOnAuction(p) ==
    /\ call[p].step = "mark"
    /\ item' = [item EXCEPT ![call[p].item] = "ON_AUCTION"]
    /\ call' = [call EXCEPT ![p] = Idle]
    /\ UNCHANGED <<auction, auctionSeq, bid, bidSeq, unsynced, sweep, now, crashes>>

-----------------------------------------------------------------------------
(***************************************************************************)
(* Panel edits: each reads the row, checks that the auction is OPEN, and   *)
(* writes by id in a later statement.  A write to a row deleted meanwhile  *)
(* throws and ends the call.                                               *)
(***************************************************************************)
Begin(p, step, a, b) ==
    /\ call[p] = Idle
    /\ Open(a)
    /\ call' = [call EXCEPT ![p] =
                  [Idle EXCEPT !.step = step, !.auction = a, !.bid = b,
                               !.at = IF step = "schedule" THEN now ELSE 0]]
    /\ UNCHANGED <<rows, sweep, now, crashes>>

Return(p) == call' = [call EXCEPT ![p] = Idle]

Goto(p, step) == call' = [call EXCEPT ![p].step = step]

Exists(a) == auction[a].status # "ABSENT"
Live(b)   == b \in BidIds /\ bid[b].auction # NoAuction

UpdateAuctionRead(p, a) == Begin(p, "update", a, NoBid)

\* A duration, even an unchanged one, restarts the clock at startedAt, scheduled
\* deadline or not.
UpdateAuctionWrite(p) ==
    LET a == call[p].auction IN
    /\ call[p].step = "update"
    /\ Return(p)
    /\ IF Exists(a)
       THEN \E initial \in InitialValues \cup {auction[a].initial},
               step \in Steps \cup {auction[a].step} :
              \/ auction' = [auction EXCEPT ![a].initial = initial, ![a].step = step]
              \/ \E dur \in Durations \ {0} :
                   auction' = [auction EXCEPT
                     ![a].initial = initial, ![a].step = step, ![a].duration = dur,
                     ![a].endsAt = auction[a].startedAt + dur]
       ELSE auction' = auction
    /\ UNCHANGED <<auctionSeq, bid, bidSeq, item, unsynced, sweep, now, crashes>>

\* Only an auction of a list item can be given a fixed deadline.
ScheduleEndRead(p, a) ==
    /\ auction[a].event # NoEvent /\ auction[a].item # NoItem
    /\ Begin(p, "schedule", a, NoBid)

\* Fixes a future deadline, or removes it and restores the item's own duration.
ScheduleEndWrite(p) ==
    LET a == call[p].auction IN
    /\ call[p].step = "schedule"
    /\ Return(p)
    /\ IF Exists(a)
       THEN \/ \E date \in call[p].at + 1 .. MaxTime :
                 auction' = [auction EXCEPT
                   ![a].scheduledEndAt = date, ![a].endsAt = date,
                   ![a].duration = date - call[p].at]
            \/ \E dur \in Durations :
                 auction' = [auction EXCEPT
                   ![a].scheduledEndAt = NoTime, ![a].duration = dur,
                   ![a].endsAt = IF dur > 0 THEN call[p].at + dur ELSE NoTime]
       ELSE auction' = auction
    /\ UNCHANGED <<auctionSeq, bid, bidSeq, item, unsynced, sweep, now, crashes>>

UpdateBidRead(p, b) == Live(b) /\ Begin(p, "updateBid", bid[b].auction, b)

\* Only the amount changes: the leader flags stay where they are.
UpdateBidWrite(p) ==
    /\ call[p].step = "updateBid"
    /\ Return(p)
    /\ IF Live(call[p].bid)
       THEN /\ \E amount \in Amounts : bid' = [bid EXCEPT ![call[p].bid].amount = amount]
            /\ unsynced' = unsynced \cup {call[p].auction}
       ELSE UNCHANGED <<bid, unsynced>>
    /\ UNCHANGED <<auction, auctionSeq, bidSeq, item, sweep, now, crashes>>

(***************************************************************************)
(* removeBid: five statements after the check, none of them locked.        *)
(***************************************************************************)
RemoveBidRead(p, b) == Live(b) /\ Begin(p, "delete", bid[b].auction, b)

\* Mutant: no ON DELETE SET NULL.
DeleteBidMutant(p) ==
    LET a == call[p].auction
        b == call[p].bid IN
    /\ call[p].step = "delete"
    /\ IF Live(b)
       THEN /\ bid' = [bid EXCEPT ![b] = AbsentBid]
            /\ unsynced' = IF Open(a) THEN Disturbed(a) ELSE unsynced \cup {a}
            /\ call' = [call EXCEPT ![p].step = "reset", ![p].bid = NoBid]
       ELSE Return(p) /\ UNCHANGED <<bid, unsynced>>
    /\ UNCHANGED <<auction, auctionSeq, bidSeq, item, sweep, now, crashes>>

\* The foreign key sets winnerBidId to null when it pointed at the bid.
DeleteBid(p) ==
    LET a == call[p].auction
        b == call[p].bid IN
    /\ call[p].step = "delete"
    /\ IF Live(b)
       THEN /\ bid' = [bid EXCEPT ![b] = AbsentBid]
            /\ auction' = [auction EXCEPT
                 ![a].winner = IF auction[a].winner = b THEN NoBid ELSE auction[a].winner]
            /\ unsynced' = IF Open(a) THEN Disturbed(a) ELSE unsynced \cup {a}
            /\ call' = [call EXCEPT ![p].step = "reset", ![p].bid = NoBid]
       ELSE Return(p) /\ UNCHANGED <<bid, auction, unsynced>>
    /\ UNCHANGED <<auctionSeq, bidSeq, item, sweep, now, crashes>>

ResetLeaders(p) ==
    /\ call[p].step = "reset"
    /\ bid' = [b \in BidIds |-> IF bid[b].auction = call[p].auction
                                THEN [bid[b] EXCEPT !.leader = FALSE] ELSE bid[b]]
    /\ Goto(p, "find")
    /\ UNCHANGED <<auction, auctionSeq, bidSeq, item, unsynced, sweep, now, crashes>>

\* Mutant: orderBy amount asc.
FindNextLeaderMutant(p) ==
    LET a == call[p].auction IN
    /\ call[p].step = "find"
    /\ \/ /\ BidsOf(a) = {}
          /\ Goto(p, "settle")
       \/ \E b \in BidsOf(a) :
            /\ \A c \in BidsOf(a) : bid[b].amount <= bid[c].amount
            /\ call' = [call EXCEPT ![p].step = "lead", ![p].bid = b]
    /\ UNCHANGED <<rows, sweep, now, crashes>>

FindNextLeader(p) ==
    LET a == call[p].auction IN
    /\ call[p].step = "find"
    /\ \/ /\ BidsOf(a) = {}
          /\ Goto(p, "settle")
       \/ \E b \in BidsOf(a) :
            /\ IsHighest(b, a)
            /\ call' = [call EXCEPT ![p].step = "lead", ![p].bid = b]
    /\ UNCHANGED <<rows, sweep, now, crashes>>

MarkLeader(p) ==
    /\ call[p].step = "lead"
    /\ IF Live(call[p].bid)
       THEN bid' = [bid EXCEPT ![call[p].bid].leader = TRUE] /\ Goto(p, "settle")
       ELSE bid' = bid /\ Return(p)
    /\ UNCHANGED <<auction, auctionSeq, bidSeq, item, unsynced, sweep, now, crashes>>

\* winnerBidId is written even while the auction is open.
SettleWinner(p) ==
    LET a == call[p].auction
        b == call[p].bid IN
    /\ call[p].step = "settle"
    /\ Return(p)
    /\ auction' = IF Exists(a) /\ (b = NoBid \/ Live(b))
                  THEN [auction EXCEPT ![a].winner = b] ELSE auction
    /\ UNCHANGED <<auctionSeq, bid, bidSeq, item, unsynced, sweep, now, crashes>>

(***************************************************************************)
(* clearHistory: all auctions and, by cascade, their bids; then the items. *)
(***************************************************************************)
ClearHistory(p) ==
    /\ call[p] = Idle
    /\ \E a \in AuctionIds : Exists(a)
    /\ auction' = [a \in AuctionIds |-> AbsentAuction]
    /\ bid' = [b \in BidIds |-> AbsentBid]
    /\ Goto(p, "clearItems")
    /\ UNCHANGED <<auctionSeq, bidSeq, item, unsynced, sweep, now, crashes>>

ClearItems(p) ==
    /\ call[p].step = "clearItems"
    /\ item' = [i \in Items |-> IF item[i] = "ON_AUCTION" THEN "AVAILABLE" ELSE item[i]]
    /\ Return(p)
    /\ UNCHANGED <<auction, auctionSeq, bid, bidSeq, unsynced, sweep, now, crashes>>

-----------------------------------------------------------------------------
(***************************************************************************)
(* processExpiredAuctions: one read of the expired auctions, then one      *)
(* closeAuction after the other without looking at endsAt again.  A row    *)
(* that is gone throws and abandons the rest until the next sweep.         *)
(***************************************************************************)
\* Mutant: the old filter that left the auctions of a list out.
ReadExpiredMutant ==
    /\ sweep = {}
    /\ \E a \in AuctionIds : Expired(a) /\ auction[a].event = NoEvent
    /\ sweep' = {a \in AuctionIds : Expired(a) /\ auction[a].event = NoEvent}
    /\ UNCHANGED <<rows, call, now, crashes>>

ReadExpired ==
    /\ sweep = {}
    /\ \E a \in AuctionIds : Expired(a)
    /\ sweep' = {a \in AuctionIds : Expired(a)}
    /\ UNCHANGED <<rows, call, now, crashes>>

SweepClose(a) ==
    /\ a \in sweep
    /\ \/ CloseAuction(a) /\ sweep' = sweep \ {a}
       \/ /\ Exists(a) /\ ~Open(a)
          /\ sweep' = sweep \ {a} /\ UNCHANGED rows
       \/ ~Exists(a) /\ sweep' = {} /\ UNCHANGED rows
    /\ UNCHANGED <<call, now, crashes>>

Tick ==
    /\ now < MaxTime
    /\ now' = now + 1
    /\ UNCHANGED <<rows, call, sweep, crashes>>

(***************************************************************************)
(* The server dies and comes back: the tables keep what was committed, the *)
(* calls in flight are lost with the statements they still had to run.     *)
(***************************************************************************)
Crash ==
    /\ crashes < MaxCrashes
    /\ crashes' = crashes + 1
    /\ call' = [p \in Procs |-> Idle]
    /\ sweep' = {}
    /\ unsynced' = unsynced \cup {a \in AuctionIds : Removing(a)}
    /\ UNCHANGED <<auction, auctionSeq, bid, bidSeq, item, now>>

Bid(a, amount) == PlaceBid(a, amount) /\ UNCHANGED <<call, sweep, now, crashes>>
Close(a)       == CloseAuction(a) /\ UNCHANGED <<call, sweep, now, crashes>>
Cancel(a)      == CancelAuction(a) /\ UNCHANGED <<call, sweep, now, crashes>>

Init ==
    /\ auction = [a \in AuctionIds |-> AbsentAuction]
    /\ auctionSeq = 0
    /\ bid = [b \in BidIds |-> AbsentBid]
    /\ bidSeq = 0
    /\ item = [i \in Items |-> "AVAILABLE"]
    /\ call = [p \in Procs |-> Idle]
    /\ sweep = {}
    /\ now = 0
    /\ crashes = 0
    /\ unsynced = {}

StartStep(p)  == \/ \E g \in Groups, i \in Items \cup {NoItem}, e \in Events \cup {NoEvent} :
                      StartCheck(p, g, i, e)
                 \/ StartCreate(p) \/ StartListed(p) \/ MarkItemOnAuction(p)
EditStep(p)   == \/ \E a \in AuctionIds : UpdateAuctionRead(p, a) \/ ScheduleEndRead(p, a)
                 \/ UpdateAuctionWrite(p) \/ ScheduleEndWrite(p)
                 \/ \E b \in BidIds : UpdateBidRead(p, b)
                 \/ UpdateBidWrite(p)
RemoveStep(p) == \/ \E b \in BidIds : RemoveBidRead(p, b)
                 \/ DeleteBid(p) \/ ResetLeaders(p) \/ FindNextLeader(p)
                 \/ MarkLeader(p) \/ SettleWinner(p)
ClearStep(p)  == ClearHistory(p) \/ ClearItems(p)

Next ==
    \/ \E p \in Procs : StartStep(p) \/ EditStep(p) \/ RemoveStep(p) \/ ClearStep(p)
    \/ \E a \in AuctionIds : \/ \E amount \in Amounts : Bid(a, amount)
                             \/ Close(a) \/ Cancel(a) \/ SweepClose(a)
    \/ ReadExpired
    \/ Tick
    \/ Crash

Spec == Init /\ [][Next]_vars

\* The sweep runs on a timer for as long as the server is up.
Fairness == WF_vars(ReadExpired) /\ \A a \in AuctionIds : WF_vars(SweepClose(a))

FairSpec == Spec /\ Fairness

-----------------------------------------------------------------------------
(***************************************************************************)
(* Properties.                                                             *)
(***************************************************************************)

\* Rows, calls and counters have their types, and the foreign keys hold: a live
\* bid belongs to an existing auction, a winner is a live bid of that auction.
TypeOK ==
    /\ auction \in [AuctionIds -> AuctionRow]
    /\ auctionSeq \in 0 .. MaxAuctions
    /\ bid \in [BidIds -> BidRow]
    /\ bidSeq \in 0 .. MaxBids
    /\ item \in [Items -> ItemStatus]
    /\ call \in [Procs -> Call]
    /\ sweep \subseteq AuctionIds
    /\ now \in 0 .. MaxTime
    /\ crashes \in 0 .. MaxCrashes
    /\ unsynced \subseteq AuctionIds
    /\ \A b \in BidIds : Live(b) => Exists(bid[b].auction) /\ b <= bidSeq
    /\ \A a \in AuctionIds : auction[a].winner # NoBid => auction[a].winner \in BidsOf(a)

Leads(b, a) == IsHighest(b, a) /\ LeadersOf(a) = {b}

\* placeBid and removeBid keep exactly one bid of an open auction flagged as its
\* leader, and it carries the highest amount, outside the window in which
\* removeBid is still moving the flag.
LeaderIsHighest ==
    \A a \in AuctionIds \ unsynced :
        Open(a) /\ ~Removing(a) /\ BidsOf(a) # {} => \E b \in BidsOf(a) : Leads(b, a)

\* The winner closeAuction fixed is the highest bid, and stays so: there is no
\* winner exactly when there is no bid.
WinnerIsHighest ==
    \A a \in AuctionIds \ unsynced :
        auction[a].status = "CLOSED" =>
            IF BidsOf(a) = {} THEN auction[a].winner = NoBid
            ELSE IsHighest(auction[a].winner, a)

\* The promise of the AuctionsService header, "Vencedor = maior lance no momento
\* do encerramento", with updateBid's "Recalcula o lance líder se necessário":
\* a winner is a highest bid whatever the panel edited before.
WinnerIsHighestDespiteEdits ==
    \A a \in AuctionIds :
        auction[a].status = "CLOSED" /\ BidsOf(a) # {}
            => IsHighest(auction[a].winner, a)

\* An accepted bid never brings a running deadline forward, unless the panel
\* fixed one: whatever mix of edits set endsAt, it is at most one duration away.
BidNeverShortens ==
    [][\A a \in AuctionIds :
          /\ bidSeq' # bidSeq /\ auction[a].status = "OPEN"
          /\ auction[a].scheduledEndAt = NoTime /\ auction[a].endsAt # NoTime
          => auction[a]'.endsAt >= auction[a].endsAt]_vars

\* An auction whose deadline has passed does not stay so for ever: the sweep
\* closes it, unless a bid or the panel moves the deadline.
ExpiredIsResolved == \A a \in AuctionIds : Expired(a) ~> ~Expired(a)

\* The sweep closes an auction only when its deadline has passed ("Cada lance
\* reinicia o cronômetro": a bid accepted after the sweep's read counts).
SweepClosesOnlyExpired ==
    [][\A a \in sweep \ sweep' :
          Open(a) /\ auction[a]'.status = "CLOSED" => Expired(a)]_vars

\* At most one auction outside a list is open per group.
OneOpenPerGroup ==
    \A a, b \in AuctionIds :
        /\ Open(a) /\ Open(b) /\ auction[a].group = auction[b].group
        /\ auction[a].event = NoEvent /\ auction[b].event = NoEvent
        => a = b

(***************************************************************************)
(* What bidders are promised, as the state of AscendingAuction: the        *)
(* highest bid while open, the winning bid once closed; an auction whose   *)
(* history was cleared or rewritten without synchronisation is void.       *)
(***************************************************************************)
Amount(b) == IF b = NoBid THEN 0 ELSE bid[b].amount

absPhase == [a \in AuctionIds |->
    IF a > auctionSeq THEN "none"
    ELSE IF a \in unsynced \/ ~Exists(a) THEN "void"
    ELSE auction[a].status]

absBest == [a \in AuctionIds |->
    CASE absPhase[a] = "OPEN" /\ BidsOf(a) # {} ->
            Amount(CHOOSE b \in BidsOf(a) : IsHighest(b, a))
      [] absPhase[a] = "CLOSED" -> Amount(auction[a].winner)
      [] OTHER -> 0]

Abstract == INSTANCE AscendingAuction WITH
                Ids <- AuctionIds, Values <- Amounts, phase <- absPhase, best <- absBest

\* The tables implement the ascending auction, whatever the panel does meanwhile.
RefinesAscendingAuction == Abstract!Spec

=============================================================================
