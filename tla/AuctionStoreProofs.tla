------------------------- MODULE AuctionStoreProofs -------------------------
(***************************************************************************)
(* What holds of AuctionStore for every number of auctions, bids, calls,   *)
(* restarts and instants.  The theorems at the end are                     *)
(*   TypeCorrect      the type invariant, foreign keys included;           *)
(*   LeaderSafety     LeaderIsHighest and WinnerIsHighest;                 *)
(*   WinnerSafety     its half about closed auctions;                      *)
(*   DeadlineSafety   BidNeverShortens;                                    *)
(*   Refinement       RefinesAscendingAuction.                             *)
(* Each rests on an inductive invariant (Typed, RemovalSafe, Deadlines,    *)
(* History) and one lemma per action that can disturb it.                  *)
(***************************************************************************)
EXTENDS AuctionStore, FiniteSetTheorems, TLAPS

\* A call knows only auctions and bids that were created, and the bid it holds
\* still belongs to the auction it holds for as long as the bid exists: ids are
\* never handed out twice.
Editing == {"update", "schedule", "updateBid", "delete", "reset", "find", "lead", "settle"}

CallOK ==
    \A p \in Procs :
        /\ call[p].step \in Editing => call[p].auction # NoAuction
        /\ call[p].auction <= auctionSeq
        /\ call[p].bid <= bidSeq
        /\ Live(call[p].bid) => bid[call[p].bid].auction = call[p].auction

\* Rows exist only up to the last id handed out.
SeqOK == \A a \in AuctionIds : Exists(a) => a <= auctionSeq

Typed == TypeOK /\ CallOK /\ SeqOK

USE StoreAssumption DEF AuctionIds, BidIds, NoBid, NoAuction, NoTime

-----------------------------------------------------------------------------
(***************************************************************************)
(* Writing one row, one call.                                              *)
(***************************************************************************)

\* Replacing one row of the auction table leaves the others alone.
LEMMA RowWrite ==
  ASSUME auction \in [AuctionIds -> AuctionRow], NEW a \in AuctionIds, NEW r \in AuctionRow,
         auction' = [auction EXCEPT ![a] = r]
  PROVE  /\ auction' \in [AuctionIds -> AuctionRow]
         /\ auction'[a] = r
         /\ \A x \in AuctionIds : x # a => auction'[x] = auction[x]
  OBVIOUS

\* The row of an existing auction may be replaced by any row whose winner is one
\* of its bids.
LEMMA TypedRow ==
  ASSUME Typed, NEW a \in AuctionIds, Exists(a), NEW r \in AuctionRow,
         auction' = [auction EXCEPT ![a] = r], r.status # "ABSENT",
         r.winner # NoBid => r.winner \in BidsOf(a),
         UNCHANGED <<auctionSeq, bid, bidSeq, now, crashes>>,
         item' \in [Items -> ItemStatus], sweep' \subseteq AuctionIds,
         unsynced' \subseteq AuctionIds, call' \in [Procs -> Call], CallOK'
  PROVE  Typed'
  <1>1. /\ auction' \in [AuctionIds -> AuctionRow]
        /\ auction'[a] = r
        /\ \A x \in AuctionIds : x # a => auction'[x] = auction[x]
    BY RowWrite DEF Typed, TypeOK
  <1>2. \A b \in BidIds : Live(b)' => Exists(bid[b].auction)' /\ b <= bidSeq'
    BY <1>1 DEF Typed, TypeOK, Live, Exists, BidRow
  <1>3. \A x \in AuctionIds : auction'[x].winner # NoBid => auction'[x].winner \in BidsOf(x)'
    BY <1>1 DEF Typed, TypeOK, BidsOf
  <1>4. SeqOK'
    BY <1>1 DEF Typed, SeqOK, Exists
  <1>. QED  BY <1>1, <1>2, <1>3, <1>4 DEF Typed, TypeOK

\* Steps that leave both tables alone.
LEMMA TypedCall ==
  ASSUME Typed, UNCHANGED <<auction, auctionSeq, bid, bidSeq>>,
         item' \in [Items -> ItemStatus], sweep' \subseteq AuctionIds,
         unsynced' \subseteq AuctionIds, now' \in 0 .. MaxTime,
         crashes' \in 0 .. MaxCrashes, call' \in [Procs -> Call], CallOK'
  PROVE  Typed'
  BY DEF Typed, TypeOK, SeqOK, Live, Exists, BidsOf

\* A call moves on, holding ids that were handed out.
LEMMA CallWrite ==
  ASSUME Typed, NEW p \in Procs, NEW c \in Call, call' = [call EXCEPT ![p] = c],
         auctionSeq' \in Nat, auctionSeq <= auctionSeq', UNCHANGED <<bid, bidSeq>>,
         c.auction <= auctionSeq', c.bid <= bidSeq,
         Live(c.bid) => bid[c.bid].auction = c.auction,
         c.step \in Editing => c.auction # NoAuction
  PROVE  call' \in [Procs -> Call] /\ CallOK'
  <1>1. /\ call' \in [Procs -> Call]
        /\ call'[p] = c
        /\ \A q \in Procs : q # p => call'[q] = call[q]
    BY DEF Typed, TypeOK
  <1>2. ASSUME NEW q \in Procs
        PROVE  (/\ call[q].step \in Editing => call[q].auction # NoAuction
                /\ call[q].auction <= auctionSeq
                /\ call[q].bid <= bidSeq
                /\ Live(call[q].bid) => bid[call[q].bid].auction = call[q].auction)'
    <2>1. CASE q = p
      BY <1>1, <2>1 DEF Live
    <2>2. CASE q # p
      <3>1. call'[q] = call[q]  BY <1>1, <2>2
      <3>2. call[q].auction \in Nat /\ auctionSeq \in Nat
        BY DEF Typed, TypeOK, Call
      <3>3. /\ call[q].step \in Editing => call[q].auction # NoAuction
            /\ call[q].auction <= auctionSeq
            /\ call[q].bid <= bidSeq
            /\ Live(call[q].bid) => bid[call[q].bid].auction = call[q].auction
        BY DEF Typed, CallOK
      <3>. QED  BY <3>1, <3>2, <3>3 DEF Live
    <2>. QED  BY <2>1, <2>2
  <1>. QED  BY <1>1, <1>2 DEF CallOK

\* A call that returns holds no id.
LEMMA CallReturn ==
  ASSUME Typed, NEW p \in Procs, Return(p), UNCHANGED <<auctionSeq, bid, bidSeq>>
  PROVE  call' \in [Procs -> Call] /\ CallOK'
  <1>1. Idle \in Call /\ Idle.auction = 0 /\ Idle.bid = 0 /\ Idle.step \notin Editing
    BY DEF Idle, Call, CallStep, Editing
  <1>2. auctionSeq' \in Nat /\ auctionSeq <= auctionSeq' /\ 0 <= auctionSeq' /\ 0 <= bidSeq
    BY DEF Typed, TypeOK
  <1>3. call' = [call EXCEPT ![p] = Idle] /\ ~Live(0)
    BY DEF Return, Live
  <1>. QED  BY <1>1, <1>2, <1>3, CallWrite

\* A call that goes to its next statement with the ids it has.
LEMMA CallGotoWrites ==
  ASSUME Typed, NEW p \in Procs, NEW s \in CallStep, Goto(p, s)
  PROVE  /\ call' \in [Procs -> Call]
         /\ call'[p].step = s /\ call'[p].auction = call[p].auction
         /\ call'[p].bid = call[p].bid /\ call'[p].at = call[p].at
         /\ \A q \in Procs : q # p => call'[q] = call[q]
  <1> DEFINE c == [call[p] EXCEPT !.step = s]
  <1>1. call[p] \in Call  BY DEF Typed, TypeOK
  <1>2. /\ c \in Call /\ c.auction = call[p].auction /\ c.bid = call[p].bid
        /\ c.step = s /\ c.at = call[p].at
    BY <1>1 DEF Call
  <1>3. call' = [call EXCEPT ![p] = c]
    BY DEF Goto, Typed, TypeOK
  <1> HIDE DEF c
  <1>. QED  BY <1>2, <1>3 DEF Typed, TypeOK

\* A call that goes on keeps ids that are good.
LEMMA CallGoto ==
  ASSUME Typed, NEW p \in Procs, NEW s \in CallStep, Goto(p, s),
         s \in Editing => call[p].auction # NoAuction,
         UNCHANGED <<auctionSeq, bid, bidSeq>>
  PROVE  call' \in [Procs -> Call] /\ CallOK'
  <1>1. /\ call' \in [Procs -> Call]
        /\ call'[p].step = s /\ call'[p].auction = call[p].auction
        /\ call'[p].bid = call[p].bid
        /\ \A q \in Procs : q # p => call'[q] = call[q]
    BY CallGotoWrites
  <1>2. CallOK'
    <2> SUFFICES ASSUME NEW q \in Procs
        PROVE  /\ call'[q].step \in Editing => call'[q].auction # NoAuction
               /\ call'[q].auction <= auctionSeq'
               /\ call'[q].bid <= bidSeq'
               /\ Live(call'[q].bid) => (bid')[call'[q].bid].auction = call'[q].auction
      BY <1>1 DEF CallOK, Live
    <2>1. /\ call[q].step \in Editing => call[q].auction # NoAuction
          /\ call[q].auction <= auctionSeq
          /\ call[q].bid <= bidSeq
          /\ Live(call[q].bid) => bid[call[q].bid].auction = call[q].auction
      BY DEF Typed, CallOK
    <2>2. CASE q = p
      BY <1>1, <2>1, <2>2 DEF Live
    <2>3. CASE q # p
      BY <1>1, <2>1, <2>3 DEF Live
    <2>. QED  BY <2>2, <2>3
  <1>. QED  BY <1>1, <1>2

-----------------------------------------------------------------------------
(***************************************************************************)
(* What each transaction writes to the two tables.                         *)
(***************************************************************************)

\* placeBid adds one bid and touches nothing but flags of the others.
LEMMA BidWrites ==
  ASSUME Typed, NEW a \in AuctionIds, NEW amount \in Amounts, PlaceBid(a, amount)
  PROVE  /\ bid' \in [BidIds -> BidRow]
         /\ bidSeq' = bidSeq + 1 /\ bidSeq' \in BidIds
         /\ bid'[bidSeq'].auction = a /\ bid'[bidSeq'].amount = amount /\ bid'[bidSeq'].leader
         /\ \A b \in BidIds : b # bidSeq' =>
               bid'[b].auction = bid[b].auction /\ bid'[b].amount = bid[b].amount
  <1>1. bidSeq' = bidSeq + 1 /\ bidSeq' \in BidIds
    BY DEF PlaceBid, Typed, TypeOK
  <1>2. bid' = [b \in BidIds |->
                 IF b = bidSeq + 1
                 THEN [auction |-> a, amount |-> amount, leader |-> TRUE]
                 ELSE IF bid[b].auction = a THEN [bid[b] EXCEPT !.leader = FALSE]
                 ELSE bid[b]]
    BY DEF PlaceBid
  <1>3. ASSUME NEW b \in BidIds
        PROVE  /\ bid[b] \in BidRow
               /\ [bid[b] EXCEPT !.leader = FALSE] \in BidRow
               /\ [auction |-> a, amount |-> amount, leader |-> TRUE] \in BidRow
    <2>1. bid[b] \in BidRow  BY DEF Typed, TypeOK
    <2>. QED  BY <2>1 DEF BidRow
  <1>4. bid' \in [BidIds -> BidRow]
    BY <1>2, <1>3
  <1>5. bid'[bidSeq'] = [auction |-> a, amount |-> amount, leader |-> TRUE]
    BY <1>1, <1>2
  <1>6. ASSUME NEW b \in BidIds, b # bidSeq'
        PROVE  bid'[b].auction = bid[b].auction /\ bid'[b].amount = bid[b].amount
    <2>1. bid[b] \in BidRow  BY DEF Typed, TypeOK
    <2>2. bid'[b] = bid[b] \/ bid'[b] = [bid[b] EXCEPT !.leader = FALSE]
      BY <1>1, <1>2, <1>6
    <2>. QED  BY <2>1, <2>2 DEF BidRow
  <1>. QED  BY <1>1, <1>4, <1>5, <1>6

\* placeBid writes nothing but the deadline of the auction's row.
LEMMA BidAuction ==
  ASSUME Typed, NEW a \in AuctionIds, NEW amount \in Amounts, PlaceBid(a, amount)
  PROVE  \E r \in AuctionRow : 
           /\ auction' = [auction EXCEPT ![a] = r]
           /\ r.status = auction[a].status /\ r.winner = auction[a].winner
           /\ r.scheduledEndAt = auction[a].scheduledEndAt
           /\ r.duration = auction[a].duration /\ r.startedAt = auction[a].startedAt
           /\ r.event = auction[a].event
           /\ r.endsAt = DeadlineAfterBid(a)
  <1>1. auction[a] \in AuctionRow  BY DEF Typed, TypeOK
  <1>2. now + auction[a].duration \in Nat
     BY <1>1 DEF AuctionRow, Typed, TypeOK
  <1>3. DeadlineAfterBid(a) \in Nat \cup {NoTime}
     BY <1>1, <1>2 DEF AuctionRow, DeadlineAfterBid
  <1> DEFINE r == [auction[a] EXCEPT !.endsAt = DeadlineAfterBid(a)]
  <1>4. auction' = [auction EXCEPT ![a] = r]
    BY DEF PlaceBid, Typed, TypeOK
  <1>5. /\ r \in AuctionRow
           /\ r.status = auction[a].status /\ r.winner = auction[a].winner
           /\ r.scheduledEndAt = auction[a].scheduledEndAt
           /\ r.duration = auction[a].duration /\ r.startedAt = auction[a].startedAt
           /\ r.event = auction[a].event
           /\ r.endsAt = DeadlineAfterBid(a)
    BY <1>1, <1>3 DEF AuctionRow
  <1>. QED  BY <1>4, <1>5

\* closeAuction writes the status and the winner.
LEMMA CloseWrites ==
  ASSUME Typed, NEW a \in AuctionIds, CloseAuction(a)
  PROVE  \E r \in AuctionRow :
           /\ auction' = [auction EXCEPT ![a] = r]
           /\ r.status = "CLOSED" /\ r.winner \in WinnerChoices(a)
           /\ r.scheduledEndAt = auction[a].scheduledEndAt
           /\ r.duration = auction[a].duration /\ r.startedAt = auction[a].startedAt
           /\ r.event = auction[a].event
           /\ r.endsAt = auction[a].endsAt
  <1>1. PICK w \in WinnerChoices(a) :
          auction' = [auction EXCEPT ![a].status = "CLOSED", ![a].winner = w]
    BY DEF CloseAuction
  <1>2. w \in BidIds \cup {NoBid}
    BY <1>1 DEF WinnerChoices, LeadersOf, BidsOf
  <1>3. auction[a] \in AuctionRow
    BY DEF Typed, TypeOK
  <1> DEFINE r == [auction[a] EXCEPT !.status = "CLOSED", !.winner = w]
  <1>4. auction' = [auction EXCEPT ![a] = r]
    BY <1>1 DEF Typed, TypeOK
  <1>5. /\ r \in AuctionRow /\ r.status = "CLOSED" /\ r.winner = w
        /\ r.scheduledEndAt = auction[a].scheduledEndAt
        /\ r.duration = auction[a].duration /\ r.startedAt = auction[a].startedAt
        /\ r.event = auction[a].event
        /\ r.endsAt = auction[a].endsAt
    BY <1>2, <1>3 DEF AuctionRow, AuctionStatus
  <1>. QED  BY <1>1, <1>4, <1>5

\* cancelAuction writes the status.
LEMMA CancelWrites ==
  ASSUME Typed, NEW a \in AuctionIds, CancelAuction(a)
  PROVE  \E r \in AuctionRow :
           /\ auction' = [auction EXCEPT ![a] = r]
           /\ r.status = "CANCELLED" /\ r.winner = auction[a].winner
           /\ r.scheduledEndAt = auction[a].scheduledEndAt
           /\ r.duration = auction[a].duration /\ r.startedAt = auction[a].startedAt
           /\ r.event = auction[a].event
           /\ r.endsAt = auction[a].endsAt
  <1>1. auction[a] \in AuctionRow
    BY DEF Typed, TypeOK
  <1> DEFINE r == [auction[a] EXCEPT !.status = "CANCELLED"]
  <1>2. auction' = [auction EXCEPT ![a] = r]
    BY DEF CancelAuction, Typed, TypeOK
  <1>3. /\ r \in AuctionRow /\ r.status = "CANCELLED" /\ r.winner = auction[a].winner
        /\ r.scheduledEndAt = auction[a].scheduledEndAt
        /\ r.duration = auction[a].duration /\ r.startedAt = auction[a].startedAt
        /\ r.event = auction[a].event
        /\ r.endsAt = auction[a].endsAt
    BY <1>1 DEF AuctionRow, AuctionStatus
  <1>. QED  BY <1>2, <1>3

\* The inserts fill the next row.
LEMMA InsertWrites ==
  ASSUME Typed, NEW g \in Groups \cup {NoGroup}, NEW i \in Items \cup {NoItem},
         NEW e \in Events \cup {NoEvent}, NEW initial \in InitialValues,
         NEW dur \in Durations, NEW step \in Steps, NEW at \in Nat,
         InsertAuction(g, i, e, initial, dur, step, at)
  PROVE  /\ auctionSeq' = auctionSeq + 1 /\ auctionSeq' \in AuctionIds
         /\ \E r \in AuctionRow :
              /\ auction' = [auction EXCEPT ![auctionSeq'] = r]
              /\ r.status = "OPEN" /\ r.winner = NoBid /\ r.scheduledEndAt = NoTime
              /\ r.duration = dur /\ r.startedAt = at
              /\ r.endsAt \in {at + dur, NoTime}
  <1> DEFINE r == [status |-> "OPEN", group |-> g, item |-> i, event |-> e,
                   initial |-> initial, duration |-> dur, step |-> step,
                   startedAt |-> at,
                   endsAt |-> IF dur > 0 THEN at + dur ELSE NoTime,
                   scheduledEndAt |-> NoTime, winner |-> NoBid]
  <1>1. auctionSeq' = auctionSeq + 1 /\ auctionSeq' \in AuctionIds
    BY DEF InsertAuction, Typed, TypeOK
  <1>2. auction' = [auction EXCEPT ![auctionSeq'] = r]
    BY <1>1 DEF InsertAuction
  <1>3. at \in Nat /\ dur \in Nat /\ initial \in Nat /\ step \in Nat /\ at + dur \in Nat
    BY DEF Typed, TypeOK
  <1>4. r \in AuctionRow
    BY <1>3 DEF AuctionRow, AuctionStatus
  <1>5. r.endsAt \in {at + dur, NoTime}
    OBVIOUS
  <1>. QED  BY <1>1, <1>2, <1>4, <1>5

-----------------------------------------------------------------------------
(***************************************************************************)
(* Typed is inductive.                                                     *)
(***************************************************************************)
\* Every type holds at the start.
LEMMA TypedInit == Init => Typed
  BY DEF Init, Typed, TypeOK, CallOK, SeqOK, AuctionRow, AbsentAuction, BidRow, AbsentBid, Call,
         CallStep, Idle, ItemStatus, AuctionStatus, Live, Exists, BidsOf, Editing

\* placeBid keeps the types: the new bid belongs to an existing auction.
LEMMA TypedBid ==
  ASSUME Typed, NEW a \in AuctionIds, NEW amount \in Amounts, PlaceBid(a, amount),
         UNCHANGED <<call, sweep, now, crashes>>
  PROVE  Typed'
<1>1. PICK r \in AuctionRow :
           /\ auction' = [auction EXCEPT ![a] = r]
           /\ r.status = auction[a].status /\ r.winner = auction[a].winner
  BY BidAuction
<1>2. /\ auction' \in [AuctionIds -> AuctionRow]
      /\ \A x \in AuctionIds : auction'[x].status = auction[x].status /\ auction'[x].winner = auction[x].winner
  BY <1>1, RowWrite DEF Typed, TypeOK
<1>3. /\ bid' \in [BidIds -> BidRow]
      /\ bidSeq' = bidSeq + 1 /\ bidSeq' \in BidIds
      /\ bid'[bidSeq'].auction = a
      /\ \A b \in BidIds : b # bidSeq' => bid'[b].auction = bid[b].auction
  BY BidWrites
<1>4. UNCHANGED <<auctionSeq, item, call, sweep, now, crashes>> /\ unsynced' \subseteq AuctionIds
  BY DEF PlaceBid, Typed, TypeOK, Disturbed
<1>5. \A b \in BidIds : Live(b)' => Exists(bid[b].auction)' /\ b <= bidSeq'
  BY <1>2, <1>3 DEF Typed, TypeOK, Live, Exists, BidRow, PlaceBid, Open
<1>6. \A x \in AuctionIds : auction'[x].winner # NoBid => auction'[x].winner \in BidsOf(x)'
  <2> SUFFICES ASSUME NEW x \in AuctionIds, auction[x].winner # NoBid
               PROVE  auction[x].winner \in BidsOf(x)'
    BY <1>2
  <2>1. auction[x].winner \in BidsOf(x)
    BY DEF Typed, TypeOK
  <2>2. auction[x].winner \in BidIds /\ auction[x].winner <= bidSeq
    BY <2>1 DEF Typed, TypeOK, BidsOf, Live
  <2>. QED  BY <1>3, <2>1, <2>2 DEF BidsOf, Typed, TypeOK
<1>7. CallOK'
  <2> SUFFICES ASSUME NEW p \in Procs
               PROVE  /\ call[p].step \in Editing => call[p].auction # NoAuction
                      /\ call[p].auction <= auctionSeq
                      /\ call[p].bid <= bidSeq'
                      /\ Live(call[p].bid)' => bid'[call[p].bid].auction = call[p].auction
    BY <1>4 DEF CallOK
  <2>1. call[p] \in Call /\ call[p].bid <= bidSeq /\ bidSeq \in Nat
    BY DEF Typed, TypeOK, CallOK
  <2>. QED  BY <1>3, <1>4, <2>1 DEF Typed, CallOK, Live, Call
<1>8. SeqOK'
  BY <1>2, <1>4 DEF Typed, SeqOK, Exists
<1>. QED  BY <1>2, <1>3, <1>4, <1>5, <1>6, <1>7, <1>8 DEF Typed, TypeOK
\* closeAuction keeps the types: the winner is a bid of the auction.
LEMMA TypedClose ==
  ASSUME Typed, NEW a \in AuctionIds, CloseAuction(a), UNCHANGED <<call, now, crashes>>,
         sweep' \subseteq AuctionIds
  PROVE  Typed'
  <1>1. PICK r \in AuctionRow : /\ auction' = [auction EXCEPT ![a] = r]
                                /\ r.status = "CLOSED" /\ r.winner \in WinnerChoices(a)
    BY CloseWrites
  <1>2. r.winner # NoBid => r.winner \in BidsOf(a)
    BY <1>1 DEF WinnerChoices, LeadersOf, BidsOf
  <1>3. item' \in [Items -> ItemStatus]
    BY DEF CloseAuction, Typed, TypeOK, ItemStatus
  <1>4. /\ unsynced' \subseteq AuctionIds /\ Exists(a)
        /\ UNCHANGED <<bid, bidSeq, auctionSeq>>
    BY DEF CloseAuction, Typed, TypeOK, Disturbed, Open, Exists
  <1>5. call' \in [Procs -> Call] /\ CallOK'
    BY <1>4 DEF Typed, TypeOK, CallOK, Live
  <1>. QED  BY <1>1, <1>2, <1>3, <1>4, <1>5, TypedRow

\* cancelAuction keeps the types.
LEMMA TypedCancel ==
  ASSUME Typed, NEW a \in AuctionIds, Cancel(a)
  PROVE  Typed'
  <1>1. PICK r \in AuctionRow : /\ auction' = [auction EXCEPT ![a] = r]
                                /\ r.status = "CANCELLED" /\ r.winner = auction[a].winner
    BY CancelWrites DEF Cancel
  <1>2. r.winner # NoBid => r.winner \in BidsOf(a)
    BY <1>1 DEF Typed, TypeOK
  <1>3. item' \in [Items -> ItemStatus]
    BY DEF Cancel, CancelAuction, Typed, TypeOK, ItemStatus
  <1>4. /\ unsynced' \subseteq AuctionIds /\ Exists(a) /\ sweep' \subseteq AuctionIds
        /\ UNCHANGED <<bid, bidSeq, auctionSeq, call, now, crashes>>
    BY DEF Cancel, CancelAuction, Typed, TypeOK, Open, Exists
  <1>5. call' \in [Procs -> Call] /\ CallOK'
    BY <1>4 DEF Typed, TypeOK, CallOK, Live
  <1>. QED  BY <1>1, <1>2, <1>3, <1>4, <1>5, TypedRow

\* An insert keeps the types and may hand its id to the call.
LEMMA TypedInsert ==
  ASSUME Typed, NEW g \in Groups \cup {NoGroup}, NEW i \in Items \cup {NoItem},
         NEW e \in Events \cup {NoEvent}, NEW initial \in InitialValues,
         NEW dur \in Durations, NEW step \in Steps, NEW at \in Nat,
         InsertAuction(g, i, e, initial, dur, step, at),
         NEW p \in Procs, NEW c \in Call, call' = [call EXCEPT ![p] = c],
         c.auction \in {NoAuction, auctionSeq'}, c.bid = NoBid, c.step \notin Editing,
         UNCHANGED <<sweep, now, crashes>>
  PROVE  Typed'
  <1>1. /\ auctionSeq' = auctionSeq + 1 /\ auctionSeq' \in AuctionIds
        /\ UNCHANGED <<bid, bidSeq, item, unsynced>>
    BY InsertWrites DEF InsertAuction
  <1>2. PICK r \in AuctionRow : /\ auction' = [auction EXCEPT ![auctionSeq'] = r]
                                /\ r.status = "OPEN" /\ r.winner = NoBid
    BY InsertWrites
  <1>3. /\ auction' \in [AuctionIds -> AuctionRow]
        /\ auction'[auctionSeq'] = r
        /\ \A x \in AuctionIds : x # auctionSeq' => auction'[x] = auction[x]
    BY <1>1, <1>2, RowWrite DEF Typed, TypeOK
  <1>4. call' \in [Procs -> Call] /\ CallOK'
    <2>1. /\ auctionSeq' \in Nat /\ auctionSeq <= auctionSeq' /\ ~Live(c.bid)
          /\ c.auction <= auctionSeq' /\ c.bid <= bidSeq
      BY <1>1 DEF Typed, TypeOK, Live
    <2>. QED  BY <1>1, <2>1, CallWrite
  <1>5. \A b \in BidIds : Live(b)' => Exists(bid[b].auction)' /\ b <= bidSeq'
    BY <1>1, <1>2, <1>3 DEF Typed, TypeOK, Live, Exists, BidRow
  <1>6. \A x \in AuctionIds : auction'[x].winner # NoBid => auction'[x].winner \in BidsOf(x)'
    BY <1>1, <1>2, <1>3 DEF Typed, TypeOK, BidsOf
  <1>7. SeqOK'
    BY <1>1, <1>3 DEF Typed, TypeOK, SeqOK, Exists
  <1>. QED  BY <1>1, <1>3, <1>4, <1>5, <1>6, <1>7 DEF Typed, TypeOK

\* Starting an auction keeps the types.
LEMMA TypedStart ==
  ASSUME Typed, NEW p \in Procs, StartStep(p)
  PROVE  Typed'
  <1>1. CASE \E g \in Groups, i \in Items \cup {NoItem}, e \in Events \cup {NoEvent} :
              StartCheck(p, g, i, e)
    <2>1. PICK g \in Groups, i \in Items \cup {NoItem}, e \in Events \cup {NoEvent} :
            StartCheck(p, g, i, e)
      BY <1>1
    <2> DEFINE c == [Idle EXCEPT !.step = "create", !.group = g, !.item = i,
                                 !.event = e, !.at = now]
    <2>0. now \in Nat
      BY DEF Typed, TypeOK
    <2>2. c \in Call /\ c.auction = 0 /\ c.bid = 0 /\ c.step \notin Editing
      BY <2>0, <2>1 DEF Idle, Call, CallStep, Editing
    <2>3. call' = [call EXCEPT ![p] = c] /\ UNCHANGED <<rows, sweep, now, crashes>>
      BY <2>1 DEF StartCheck
    <2>4. /\ auctionSeq' \in Nat /\ auctionSeq <= auctionSeq' /\ 0 <= auctionSeq' /\ 0 <= bidSeq
          /\ ~Live(0) /\ UNCHANGED <<bid, bidSeq>>
      BY <2>3 DEF Typed, TypeOK, rows, Live
    <2>5. call' \in [Procs -> Call] /\ CallOK'
      <3> HIDE DEF c
      <3>. QED  BY <2>2, <2>3, <2>4, CallWrite
    <2>. QED  BY <2>3, <2>5, TypedCall DEF rows, Typed, TypeOK
  <1>2. CASE StartCreate(p)
    <2> DEFINE i == call[p].item
               c == IF i = NoItem THEN Idle
                    ELSE [Idle EXCEPT !.step = "mark", !.item = i, !.auction = auctionSeq + 1]
    <2>1. call[p] \in Call
      BY DEF Typed, TypeOK
    <2>2. /\ i \in Items \cup {NoItem} /\ call[p].group \in Groups \cup {NoGroup}
          /\ call[p].event \in Events \cup {NoEvent} /\ call[p].at \in Nat
      BY <2>1 DEF Call
    <2>3. PICK initial \in InitialValues, step \in Steps, dur \in Durations :
            InsertAuction(call[p].group, i, call[p].event, initial, dur, step, call[p].at)
      BY <1>2 DEF StartCreate
    <2>4. auctionSeq' = auctionSeq + 1 /\ auctionSeq' \in AuctionIds
      BY <2>2, <2>3, InsertWrites
    <2>5. /\ c \in Call /\ c.auction \in {NoAuction, auctionSeq'} /\ c.bid = NoBid
          /\ c.step \notin Editing
      BY <2>2, <2>4 DEF Idle, Call, CallStep, Editing
    <2>6. call' = [call EXCEPT ![p] = c] /\ UNCHANGED <<sweep, now, crashes>>
      BY <1>2 DEF StartCreate
    <2>. QED  BY <2>2, <2>3, <2>5, <2>6, TypedInsert
  <1>3. CASE StartListed(p)
    <2>1. PICK g \in Groups, i \in Items, e \in Events, initial \in InitialValues,
               step \in Steps, dur \in Durations :
            /\ InsertAuction(g, i, e, initial, dur, step, now)
            /\ call' = [call EXCEPT ![p] =
                 [Idle EXCEPT !.step = "mark", !.item = i, !.auction = auctionSeq + 1]]
      BY <1>3 DEF StartListed
    <2> DEFINE c == [Idle EXCEPT !.step = "mark", !.item = i, !.auction = auctionSeq + 1]
    <2>2. auctionSeq' = auctionSeq + 1 /\ auctionSeq' \in AuctionIds
      BY <2>1, InsertWrites DEF Typed, TypeOK
    <2>3. /\ c \in Call /\ c.auction \in {NoAuction, auctionSeq'} /\ c.bid = NoBid
          /\ c.step \notin Editing
      BY <2>2 DEF Idle, Call, CallStep, Editing
    <2>4. UNCHANGED <<sweep, now, crashes>> /\ now \in Nat
      BY <1>3 DEF StartListed, Typed, TypeOK
    <2>. QED  BY <2>1, <2>3, <2>4, TypedInsert
  <1>4. CASE MarkItemOnAuction(p)
    <2>1. Return(p) /\ UNCHANGED <<auction, auctionSeq, bid, bidSeq, unsynced, sweep, now, crashes>>
      BY <1>4 DEF MarkItemOnAuction, Return
    <2>2. item' \in [Items -> ItemStatus]
      BY <1>4 DEF MarkItemOnAuction, Typed, TypeOK, ItemStatus
    <2>. QED  BY <2>1, <2>2, CallReturn, TypedCall DEF Typed, TypeOK
  <1>. QED  BY <1>1, <1>2, <1>3, <1>4 DEF StartStep

\* A panel call that begins holds an existing auction and a bid of it.
LEMMA TypedBegin ==
  ASSUME Typed, NEW p \in Procs, NEW step \in CallStep, NEW a \in AuctionIds,
         NEW b \in BidIds \cup {NoBid}, Begin(p, step, a, b),
         b # NoBid => Live(b) /\ bid[b].auction = a
  PROVE  Typed'
  <1> DEFINE at == IF step = "schedule" THEN now ELSE 0
             c  == [Idle EXCEPT !.step = step, !.auction = a, !.bid = b, !.at = at]
  <1>1. c \in Call /\ c.auction = a /\ c.bid = b /\ c.step = step
    <2>1. at \in Nat
      BY DEF Typed, TypeOK
    <2> HIDE DEF at
    <2>. QED  BY <2>1 DEF Idle, Call
  <1>2. call' = [call EXCEPT ![p] = c] /\ UNCHANGED <<rows, sweep, now, crashes>>
    BY DEF Begin
  <1>3. /\ auctionSeq' \in Nat /\ auctionSeq <= auctionSeq' /\ a <= auctionSeq'
        /\ b <= bidSeq /\ (Live(b) => bid[b].auction = a) /\ UNCHANGED <<bid, bidSeq>>
        /\ a # NoAuction
    BY <1>2 DEF Begin, Typed, TypeOK, SeqOK, Open, Exists, rows, Live
  <1>4. call' \in [Procs -> Call] /\ CallOK'
    <2> HIDE DEF c
    <2>. QED  BY <1>1, <1>2, <1>3, CallWrite
  <1>. QED  BY <1>2, <1>4, TypedCall DEF rows, Typed, TypeOK

\* updateAuction leaves the winner and the schedule, and a new duration counts
\* from startedAt.
LEMMA UpdateWrites ==
  ASSUME Typed, NEW p \in Procs, UpdateAuctionWrite(p), Exists(call[p].auction)
  PROVE  LET a == call[p].auction IN
         /\ a \in AuctionIds
         /\ \E r \in AuctionRow :
              /\ auction' = [auction EXCEPT ![a] = r]
              /\ r.status = auction[a].status /\ r.winner = auction[a].winner
              /\ r.scheduledEndAt = auction[a].scheduledEndAt
              /\ r.startedAt = auction[a].startedAt /\ r.event = auction[a].event
              /\ \/ r.duration = auction[a].duration /\ r.endsAt = auction[a].endsAt
                 \/ r.endsAt = auction[a].startedAt + r.duration /\ r.duration > 0
  <1> DEFINE a == call[p].auction
  <1>1. a \in AuctionIds /\ auction[a] \in AuctionRow
    BY DEF UpdateAuctionWrite, Typed, TypeOK, CallOK, Editing, Call
  <1>2. PICK initial \in InitialValues \cup {auction[a].initial}, step \in Steps \cup {auction[a].step} :
          \/ auction' = [auction EXCEPT ![a].initial = initial, ![a].step = step]
          \/ \E dur \in Durations \ {0} :
               auction' = [auction EXCEPT
                 ![a].initial = initial, ![a].step = step, ![a].duration = dur,
                 ![a].endsAt = auction[a].startedAt + dur]
    BY DEF UpdateAuctionWrite
  <1>3. initial \in Nat /\ step \in Nat
    BY <1>1, <1>2 DEF AuctionRow
  <1>4. CASE auction' = [auction EXCEPT ![a].initial = initial, ![a].step = step]
    <2> DEFINE r == [auction[a] EXCEPT !.initial = initial, !.step = step]
    <2>1. auction' = [auction EXCEPT ![a] = r]
      BY <1>1, <1>4 DEF Typed, TypeOK
    <2>2. /\ r \in AuctionRow
          /\ r.status = auction[a].status /\ r.winner = auction[a].winner
          /\ r.scheduledEndAt = auction[a].scheduledEndAt
          /\ r.startedAt = auction[a].startedAt /\ r.event = auction[a].event
          /\ r.duration = auction[a].duration /\ r.endsAt = auction[a].endsAt
      BY <1>1, <1>3 DEF AuctionRow
    <2>. QED  BY <1>1, <2>1, <2>2
  <1>5. CASE \E dur \in Durations \ {0} :
               auction' = [auction EXCEPT
                 ![a].initial = initial, ![a].step = step, ![a].duration = dur,
                 ![a].endsAt = auction[a].startedAt + dur]
    <2>1. PICK dur \in Durations \ {0} :
               auction' = [auction EXCEPT
                 ![a].initial = initial, ![a].step = step, ![a].duration = dur,
                 ![a].endsAt = auction[a].startedAt + dur]
      BY <1>5
    <2> DEFINE end == auction[a].startedAt + dur
               r == [auction[a] EXCEPT !.initial = initial, !.step = step,
                                       !.duration = dur, !.endsAt = end]
    <2>2. dur \in Nat /\ dur > 0 /\ end \in Nat
      <3>1. dur \in Nat /\ dur > 0
        BY StoreAssumption
      <3>2. auction[a].startedAt \in Nat
        BY <1>1 DEF AuctionRow
      <3>. QED  BY <3>1, <3>2
    <2>3. auction' = [auction EXCEPT ![a] = r]
      BY <1>1, <2>1 DEF Typed, TypeOK
    <2>4. /\ r \in AuctionRow
          /\ r.status = auction[a].status /\ r.winner = auction[a].winner
          /\ r.scheduledEndAt = auction[a].scheduledEndAt
          /\ r.startedAt = auction[a].startedAt /\ r.event = auction[a].event
          /\ r.duration = dur /\ r.endsAt = end /\ dur > 0
      <3> HIDE DEF end
      <3>. QED  BY <1>1, <1>3, <2>2 DEF AuctionRow
    <2>. QED  BY <1>1, <2>3, <2>4
  <1>. QED  BY <1>2, <1>4, <1>5

\* The schedule leaves the winner; without a fixed deadline the clock restarts
\* from the moment the call began.
LEMMA ScheduleWrites ==
  ASSUME Typed, NEW p \in Procs, ScheduleEndWrite(p), Exists(call[p].auction)
  PROVE  LET a == call[p].auction IN
         /\ a \in AuctionIds
         /\ \E r \in AuctionRow :
              /\ auction' = [auction EXCEPT ![a] = r]
              /\ r.status = auction[a].status /\ r.winner = auction[a].winner
              /\ r.startedAt = auction[a].startedAt /\ r.event = auction[a].event
              /\ \/ r.scheduledEndAt # NoTime
                 \/ r.endsAt \in {NoTime, call[p].at + r.duration}
  <1> DEFINE a == call[p].auction
             at == call[p].at
  <1>1. a \in AuctionIds /\ auction[a] \in AuctionRow /\ at \in Nat
    BY DEF ScheduleEndWrite, Typed, TypeOK, CallOK, Editing, Call
  <1>2. CASE \E date \in at + 1 .. MaxTime :
               auction' = [auction EXCEPT
                 ![a].scheduledEndAt = date, ![a].endsAt = date, ![a].duration = date - at]
    <2>1. PICK date \in at + 1 .. MaxTime :
               auction' = [auction EXCEPT
                 ![a].scheduledEndAt = date, ![a].endsAt = date, ![a].duration = date - at]
      BY <1>2
    <2> DEFINE left == date - at
               r == [auction[a] EXCEPT !.scheduledEndAt = date, !.endsAt = date, !.duration = left]
    <2>2. date \in Nat /\ left \in Nat /\ date # NoTime
      BY <1>1
    <2>3. auction' = [auction EXCEPT ![a] = r]
      BY <1>1, <2>1 DEF Typed, TypeOK
    <2>4. /\ r \in AuctionRow
          /\ r.status = auction[a].status /\ r.winner = auction[a].winner
          /\ r.startedAt = auction[a].startedAt /\ r.scheduledEndAt = date
          /\ r.event = auction[a].event
      <3> HIDE DEF left
      <3>. QED  BY <1>1, <2>2 DEF AuctionRow
    <2>. QED  BY <1>1, <2>2, <2>3, <2>4
  <1>3. CASE \E dur \in Durations :
               auction' = [auction EXCEPT
                 ![a].scheduledEndAt = NoTime, ![a].duration = dur,
                 ![a].endsAt = IF dur > 0 THEN at + dur ELSE NoTime]
    <2>1. PICK dur \in Durations :
               auction' = [auction EXCEPT
                 ![a].scheduledEndAt = NoTime, ![a].duration = dur,
                 ![a].endsAt = IF dur > 0 THEN at + dur ELSE NoTime]
      BY <1>3
    <2> DEFINE end == IF dur > 0 THEN at + dur ELSE NoTime
               r == [auction[a] EXCEPT !.scheduledEndAt = NoTime, !.duration = dur, !.endsAt = end]
    <2>2. dur \in Nat /\ end \in Nat \cup {NoTime} /\ end \in {NoTime, at + dur}
      BY <1>1
    <2>3. auction' = [auction EXCEPT ![a] = r]
      BY <1>1, <2>1 DEF Typed, TypeOK
    <2>4. /\ r \in AuctionRow
          /\ r.status = auction[a].status /\ r.winner = auction[a].winner
          /\ r.startedAt = auction[a].startedAt /\ r.duration = dur /\ r.endsAt = end
          /\ r.event = auction[a].event
      <3> HIDE DEF end
      <3>. QED  BY <1>1, <2>2 DEF AuctionRow
    <2>. QED  BY <1>1, <2>2, <2>3, <2>4
  <1>. QED  BY <1>2, <1>3 DEF ScheduleEndWrite

\* Panel edits keep the types, also when the row is gone.
LEMMA TypedEdit ==
  ASSUME Typed, NEW p \in Procs, EditStep(p)
  PROVE  Typed'
  <1>1. CASE \E a \in AuctionIds : UpdateAuctionRead(p, a) \/ ScheduleEndRead(p, a)
    BY <1>1, TypedBegin DEF UpdateAuctionRead, ScheduleEndRead, CallStep
  <1>2. CASE \E b \in BidIds : UpdateBidRead(p, b)
    <2>1. PICK b \in BidIds : UpdateBidRead(p, b)
      BY <1>2
    <2>2. bid[b].auction \in AuctionIds /\ Live(b)
      BY <2>1 DEF UpdateBidRead, Live, Typed, TypeOK, BidRow
    <2>. QED  BY <2>1, <2>2, TypedBegin DEF UpdateBidRead, CallStep
  <1>3. CASE UpdateAuctionWrite(p)
    <2>1. /\ Return(p) /\ UNCHANGED <<auctionSeq, bid, bidSeq, item, unsynced, sweep, now, crashes>>
          /\ (Exists(call[p].auction) \/ UNCHANGED auction)
      BY <1>3 DEF UpdateAuctionWrite
    <2>2. CASE Exists(call[p].auction)
      <3>1. PICK r \in AuctionRow :
              /\ auction' = [auction EXCEPT ![call[p].auction] = r]
              /\ r.status = auction[call[p].auction].status
              /\ r.winner = auction[call[p].auction].winner
        BY <1>3, <2>2, UpdateWrites
      <3>2. call[p].auction \in AuctionIds
        BY <1>3, <2>2, UpdateWrites
      <3>3. /\ r.status # "ABSENT" 
            /\ r.winner # NoBid => r.winner \in BidsOf(call[p].auction)
        BY <2>2, <3>1, <3>2 DEF Exists, Typed, TypeOK
      <3>. QED  BY <2>1, <2>2, <3>1, <3>2, <3>3, CallReturn, TypedRow DEF Typed, TypeOK
    <2>3. CASE UNCHANGED auction
      BY <2>1, <2>3, CallReturn, TypedCall DEF Typed, TypeOK
    <2>. QED  BY <2>1, <2>2, <2>3
  <1>4. CASE ScheduleEndWrite(p)
    <2>1. /\ Return(p) /\ UNCHANGED <<auctionSeq, bid, bidSeq, item, unsynced, sweep, now, crashes>>
          /\ (Exists(call[p].auction) \/ UNCHANGED auction)
      BY <1>4 DEF ScheduleEndWrite
    <2>2. CASE Exists(call[p].auction)
      <3>1. PICK r \in AuctionRow :
              /\ auction' = [auction EXCEPT ![call[p].auction] = r]
              /\ r.status = auction[call[p].auction].status
              /\ r.winner = auction[call[p].auction].winner
        BY <1>4, <2>2, ScheduleWrites
      <3>2. call[p].auction \in AuctionIds
        BY <1>4, <2>2, ScheduleWrites
      <3>3. /\ r.status # "ABSENT" 
            /\ r.winner # NoBid => r.winner \in BidsOf(call[p].auction)
        BY <2>2, <3>1, <3>2 DEF Exists, Typed, TypeOK
      <3>. QED  BY <2>1, <2>2, <3>1, <3>2, <3>3, CallReturn, TypedRow DEF Typed, TypeOK
    <2>3. CASE UNCHANGED auction
      BY <2>1, <2>3, CallReturn, TypedCall DEF Typed, TypeOK
    <2>. QED  BY <2>1, <2>2, <2>3
  <1>5. CASE UpdateBidWrite(p)
    <2>1. /\ Return(p) /\ UNCHANGED <<auction, auctionSeq, bidSeq, item, sweep, now, crashes>>
          /\ unsynced' \subseteq AuctionIds
      BY <1>5 DEF UpdateBidWrite, Typed, TypeOK, Call, CallOK, Editing
    <2>2. /\ bid' \in [BidIds -> BidRow]
          /\ \A b \in BidIds : bid'[b].auction = bid[b].auction
      <3>1. CASE Live(call[p].bid)
        <4>1. PICK amount \in Amounts : bid' = [bid EXCEPT ![call[p].bid].amount = amount]
          BY <1>5, <3>1 DEF UpdateBidWrite
        <4>2. bid \in [BidIds -> BidRow] /\ call[p].bid \in BidIds /\ amount \in Nat
          BY <3>1 DEF Live, Typed, TypeOK
        <4>. QED  BY <4>1, <4>2 DEF BidRow
      <3>2. CASE ~Live(call[p].bid)
        BY <1>5, <3>2 DEF UpdateBidWrite, Typed, TypeOK
      <3>. QED  BY <3>1, <3>2
    <2>3. call' \in [Procs -> Call] /\ CallOK'
      <3>1. /\ call' \in [Procs -> Call]
            /\ call'[p] = Idle
            /\ \A q \in Procs : q # p => call'[q] = call[q]
        BY <2>1 DEF Return, Typed, TypeOK, Idle, Call, CallStep
      <3>2. Idle.auction = 0 /\ Idle.bid = 0 /\ Idle.step \notin Editing /\ 0 <= auctionSeq /\ 0 <= bidSeq
        BY DEF Idle, Editing, Typed, TypeOK
      <3>. QED  BY <2>1, <2>2, <3>1, <3>2 DEF CallOK, Live, Typed
    <2>. QED  BY <2>1, <2>2, <2>3 DEF Typed, TypeOK, SeqOK, Live, Exists, BidsOf
  <1>. QED  BY <1>1, <1>2, <1>3, <1>4, <1>5 DEF EditStep

\* Deleting a bid clears the winner that pointed at it.
LEMMA DeleteWrites ==
  ASSUME Typed, NEW p \in Procs, DeleteBid(p), Live(call[p].bid)
  PROVE  LET a == call[p].auction
             b == call[p].bid IN
         /\ a \in AuctionIds /\ Exists(a) /\ b \in BidIds /\ bid[b].auction = a
         /\ bid' = [bid EXCEPT ![b] = AbsentBid] /\ bid' \in [BidIds -> BidRow]
         /\ \E r \in AuctionRow :
              /\ auction' = [auction EXCEPT ![a] = r]
              /\ r.status = auction[a].status
              /\ r.winner = IF auction[a].winner = b THEN NoBid ELSE auction[a].winner
              /\ r.scheduledEndAt = auction[a].scheduledEndAt
              /\ r.duration = auction[a].duration /\ r.startedAt = auction[a].startedAt
              /\ r.event = auction[a].event
              /\ r.endsAt = auction[a].endsAt
  <1> DEFINE a == call[p].auction
             b == call[p].bid
             w == IF auction[a].winner = b THEN NoBid ELSE auction[a].winner
             r == [auction[a] EXCEPT !.winner = w]
  <1>1. /\ a \in AuctionIds /\ Exists(a) /\ b \in BidIds /\ bid[b].auction = a
        /\ auction[a] \in AuctionRow
    BY DEF DeleteBid, Live, Typed, TypeOK, CallOK, Editing, Call
  <1>2. w \in BidIds \cup {NoBid}
    BY <1>1 DEF AuctionRow
  <1>3. bid' = [bid EXCEPT ![b] = AbsentBid]
    BY DEF DeleteBid
  <1>4. bid' \in [BidIds -> BidRow]
    BY <1>1, <1>3 DEF Typed, TypeOK, BidRow, AbsentBid
  <1>5. auction' = [auction EXCEPT ![a] = r]
    BY <1>1 DEF DeleteBid, Typed, TypeOK
  <1>6. /\ r \in AuctionRow /\ r.status = auction[a].status /\ r.winner = w
        /\ r.scheduledEndAt = auction[a].scheduledEndAt
        /\ r.duration = auction[a].duration /\ r.startedAt = auction[a].startedAt
        /\ r.event = auction[a].event
        /\ r.endsAt = auction[a].endsAt
    <2> HIDE DEF w
    <2>. QED  BY <1>1, <1>2 DEF AuctionRow
  <1>. QED  BY <1>1, <1>3, <1>4, <1>5, <1>6

\* Where the call goes after the deletion.
LEMMA DeleteCall ==
  ASSUME Typed, NEW p \in Procs, DeleteBid(p), Live(call[p].bid)
  PROVE  /\ call' \in [Procs -> Call]
         /\ call'[p].step = "reset" /\ call'[p].auction = call[p].auction
         /\ call'[p].bid = NoBid /\ call'[p].at = call[p].at
         /\ \A q \in Procs : q # p => call'[q] = call[q]
  <1> DEFINE c == [call[p] EXCEPT !.step = "reset", !.bid = NoBid]
  <1>1. call[p] \in Call  BY DEF Typed, TypeOK
  <1>2. /\ c \in Call /\ c.step = "reset" /\ c.auction = call[p].auction /\ c.bid = NoBid
        /\ c.at = call[p].at
    BY <1>1 DEF Call, CallStep
  <1>3. call' = [call EXCEPT ![p] = c]
    BY DEF DeleteBid, Typed, TypeOK
  <1> HIDE DEF c
  <1>. QED  BY <1>2, <1>3 DEF Typed, TypeOK

\* Deleting a bid keeps the foreign keys.
LEMMA TypedDelete ==
  ASSUME Typed, NEW p \in Procs, DeleteBid(p)
  PROVE  Typed'
  <1> DEFINE a == call[p].auction
             b == call[p].bid
  <1>1. UNCHANGED <<auctionSeq, bidSeq, item, sweep, now, crashes>>
    BY DEF DeleteBid
  <1>2. CASE Live(b)
    <2>1. /\ a \in AuctionIds /\ Exists(a) /\ b \in BidIds /\ bid[b].auction = a
          /\ bid' = [bid EXCEPT ![b] = AbsentBid] /\ bid' \in [BidIds -> BidRow]
      BY <1>2, DeleteWrites
    <2>2. PICK r \in AuctionRow :
             /\ auction' = [auction EXCEPT ![a] = r]
             /\ r.status = auction[a].status
             /\ r.winner = IF auction[a].winner = b THEN NoBid ELSE auction[a].winner
      BY <1>2, DeleteWrites
    <2>3. /\ auction' \in [AuctionIds -> AuctionRow]
          /\ auction'[a] = r
          /\ \A x \in AuctionIds : x # a => auction'[x] = auction[x]
      BY <2>1, <2>2, RowWrite DEF Typed, TypeOK
    <2>4. \A c \in BidIds : bid'[c].auction = IF c = b THEN NoAuction ELSE bid[c].auction
      BY <2>1 DEF Typed, TypeOK, AbsentBid
    <2>5. unsynced' \subseteq AuctionIds
      BY <1>2, <2>1 DEF DeleteBid, Disturbed, Typed, TypeOK
    <2>6. \A c \in BidIds : Live(c)' => Exists(bid[c].auction)' /\ c <= bidSeq'
      BY <1>1, <2>2, <2>3, <2>4 DEF Typed, TypeOK, Live, Exists, BidRow
    <2>7. \A x \in AuctionIds : auction'[x].winner # NoBid => auction'[x].winner \in BidsOf(x)'
      <3> SUFFICES ASSUME NEW x \in AuctionIds, auction'[x].winner # NoBid
                   PROVE  auction'[x].winner \in BidsOf(x)'
        OBVIOUS
      <3>1. auction'[x].winner = auction[x].winner /\ auction[x].winner \in BidsOf(x)
        BY <2>2, <2>3 DEF Typed, TypeOK
      <3>2. auction[x].winner # b
        BY <2>1, <2>2, <2>3, <3>1 DEF BidsOf
      <3>. QED  BY <2>4, <3>1, <3>2 DEF BidsOf
    <2>8. CallOK'
      BY <1>1, <1>2, <2>1, <2>4, DeleteCall DEF Typed, TypeOK, CallOK, Live, Editing
    <2>9. call' \in [Procs -> Call]
      BY <1>2, DeleteCall
    <2>10. SeqOK'
      BY <1>1, <2>2, <2>3 DEF Typed, SeqOK, Exists
    <2>. QED  BY <1>1, <2>1, <2>3, <2>5, <2>6, <2>7, <2>8, <2>9, <2>10 DEF Typed, TypeOK
  <1>3. CASE ~Live(b)
    <2>1. Return(p) /\ UNCHANGED <<bid, auction, unsynced>>
      BY <1>3 DEF DeleteBid
    <2>. QED  BY <1>1, <2>1, CallReturn, TypedCall DEF Typed, TypeOK
  <1>. QED  BY <1>2, <1>3

\* Moving leader flags about keeps the types.
LEMMA TypedFlags ==
  ASSUME Typed, bid' \in [BidIds -> BidRow],
         \A b \in BidIds : bid'[b].auction = bid[b].auction,
         UNCHANGED <<auction, auctionSeq, bidSeq, item, unsynced, sweep, now, crashes>>,
         call' \in [Procs -> Call],
         \A p \in Procs : /\ call'[p].auction \in {NoAuction, call[p].auction}
                          /\ call'[p].bid \in {NoBid, call[p].bid}
                          /\ call'[p].auction = call[p].auction \/ call'[p].bid = NoBid
                          /\ call'[p].step \in Editing
                               => call[p].step \in Editing /\ call'[p].auction = call[p].auction
  PROVE  Typed'
  <1>1. CallOK'
    BY DEF Typed, TypeOK, CallOK, Live
  <1>. QED  BY <1>1 DEF Typed, TypeOK, SeqOK, Live, Exists, BidsOf

\* The reset clears every flag of the auction.
LEMMA ResetWrites ==
  ASSUME Typed, NEW p \in Procs, ResetLeaders(p)
  PROVE  /\ bid' \in [BidIds -> BidRow]
         /\ \A b \in BidIds :
              /\ bid'[b].auction = bid[b].auction /\ bid'[b].amount = bid[b].amount
              /\ IF bid[b].auction = call[p].auction THEN ~bid'[b].leader
                 ELSE bid'[b] = bid[b]
  <1>1. bid' = [b \in BidIds |-> IF bid[b].auction = call[p].auction
                                 THEN [bid[b] EXCEPT !.leader = FALSE] ELSE bid[b]]
    BY DEF ResetLeaders
  <1>2. ASSUME NEW b \in BidIds
        PROVE  LET c == [bid[b] EXCEPT !.leader = FALSE] IN
               bid[b] \in BidRow /\ c \in BidRow /\ c.auction = bid[b].auction
               /\ c.amount = bid[b].amount /\ ~c.leader
    <2>1. bid[b] \in BidRow  BY DEF Typed, TypeOK
    <2>. QED  BY <2>1 DEF BidRow
  <1>. QED  BY <1>1, <1>2

\* Marking the next leader writes one flag.
LEMMA MarkWrites ==
  ASSUME Typed, NEW p \in Procs, MarkLeader(p), Live(call[p].bid)
  PROVE  /\ bid' \in [BidIds -> BidRow]
         /\ bid'[call[p].bid].leader
         /\ \A b \in BidIds :
              /\ bid'[b].auction = bid[b].auction /\ bid'[b].amount = bid[b].amount
              /\ b # call[p].bid => bid'[b] = bid[b]
  <1> DEFINE b == call[p].bid
             c == [bid[b] EXCEPT !.leader = TRUE]
  <1>1. b \in BidIds /\ bid[b] \in BidRow
    BY DEF Live, Typed, TypeOK
  <1>2. c \in BidRow /\ c.auction = bid[b].auction /\ c.amount = bid[b].amount /\ c.leader
    BY <1>1 DEF BidRow
  <1>3. bid' = [bid EXCEPT ![b] = c]
    BY <1>1 DEF MarkLeader, Typed, TypeOK
  <1> HIDE DEF c
  <1>. QED  BY <1>1, <1>2, <1>3 DEF Typed, TypeOK

\* removeBid's last statement writes the winner and nothing else.
LEMMA SettleWrites ==
  ASSUME Typed, NEW p \in Procs, SettleWinner(p), auction' # auction
  PROVE  LET a == call[p].auction
             b == call[p].bid IN
         /\ a \in AuctionIds /\ Exists(a) /\ (b = NoBid \/ b \in BidsOf(a))
         /\ \E r \in AuctionRow :
              /\ auction' = [auction EXCEPT ![a] = r]
              /\ r.status = auction[a].status /\ r.winner = b
              /\ r.scheduledEndAt = auction[a].scheduledEndAt
              /\ r.duration = auction[a].duration /\ r.startedAt = auction[a].startedAt
              /\ r.event = auction[a].event
              /\ r.endsAt = auction[a].endsAt
  <1> DEFINE a == call[p].auction
             b == call[p].bid
             r == [auction[a] EXCEPT !.winner = b]
  <1>1. /\ a \in AuctionIds /\ Exists(a) /\ (b = NoBid \/ b \in BidsOf(a))
        /\ auction[a] \in AuctionRow /\ b \in BidIds \cup {NoBid}
    BY DEF SettleWinner, Live, BidsOf, Typed, TypeOK, CallOK, Editing, Call
  <1>2. auction' = [auction EXCEPT ![a] = r]
    BY <1>1 DEF SettleWinner, Typed, TypeOK
  <1>3. /\ r \in AuctionRow /\ r.status = auction[a].status /\ r.winner = b
        /\ r.scheduledEndAt = auction[a].scheduledEndAt
        /\ r.duration = auction[a].duration /\ r.startedAt = auction[a].startedAt
        /\ r.event = auction[a].event
        /\ r.endsAt = auction[a].endsAt
    BY <1>1 DEF AuctionRow
  <1>. QED  BY <1>1, <1>2, <1>3

\* Every statement of removeBid keeps the types.
LEMMA TypedRemove ==
  ASSUME Typed, NEW p \in Procs, RemoveStep(p)
  PROVE  Typed'
  <1>1. CASE \E b \in BidIds : RemoveBidRead(p, b)
    <2>1. PICK b \in BidIds : RemoveBidRead(p, b)
      BY <1>1
    <2>2. bid[b].auction \in AuctionIds /\ Live(b)
      BY <2>1 DEF RemoveBidRead, Live, Typed, TypeOK, BidRow
    <2>. QED  BY <2>1, <2>2, TypedBegin DEF RemoveBidRead, CallStep
  <1>2. CASE DeleteBid(p)
    BY <1>2, TypedDelete
  <1>3. CASE ResetLeaders(p)
    <2>1. /\ Goto(p, "find") /\ "find" \in CallStep /\ call[p].auction # NoAuction
          /\ call[p].step \in Editing
          /\ UNCHANGED <<auction, auctionSeq, bidSeq, item, unsynced, sweep, now, crashes>>
      BY <1>3 DEF ResetLeaders, CallStep, Typed, CallOK, Editing
    <2>2. /\ call' \in [Procs -> Call]
          /\ call'[p].auction = call[p].auction /\ call'[p].bid = call[p].bid
          /\ \A q \in Procs : q # p => call'[q] = call[q]
      BY <2>1, CallGotoWrites
    <2>. QED  BY <1>3, <2>1, <2>2, ResetWrites, TypedFlags
  <1>4. CASE FindNextLeader(p)
    <2>1. /\ UNCHANGED <<rows, sweep, now, crashes>> /\ call[p] \in Call
          /\ call[p].auction # NoAuction /\ call[p].auction <= auctionSeq
          /\ call[p].step \in Editing
      BY <1>4 DEF FindNextLeader, Typed, TypeOK, CallOK, Editing
    <2>2. CASE Goto(p, "settle")
      BY <2>1, <2>2, CallGoto, TypedCall DEF rows, Typed, TypeOK, CallStep
    <2>3. CASE \E b \in BidsOf(call[p].auction) :
                 call' = [call EXCEPT ![p].step = "lead", ![p].bid = b]
      <3>1. PICK b \in BidsOf(call[p].auction) :
                 call' = [call EXCEPT ![p].step = "lead", ![p].bid = b]
        BY <2>3
      <3> DEFINE c == [call[p] EXCEPT !.step = "lead", !.bid = b]
      <3>2. b \in BidIds /\ bid[b].auction = call[p].auction /\ b <= bidSeq
        BY <2>1, <3>1 DEF BidsOf, Typed, TypeOK, Live
      <3>3. c \in Call /\ c.auction = call[p].auction /\ c.bid = b
        BY <2>1, <3>2 DEF Call, CallStep
      <3>4. call' = [call EXCEPT ![p] = c]
        BY <3>1 DEF Typed, TypeOK
      <3>5. call' \in [Procs -> Call] /\ CallOK'
        <4>1. auctionSeq' \in Nat /\ auctionSeq <= auctionSeq' /\ UNCHANGED <<bid, bidSeq>>
              /\ call[p].auction <= auctionSeq'
          BY <2>1 DEF rows, Typed, TypeOK
        <4> HIDE DEF c
        <4>. QED  BY <2>1, <3>2, <3>3, <3>4, <4>1, CallWrite
      <3>. QED  BY <2>1, <3>5, TypedCall DEF rows, Typed, TypeOK
    <2>. QED  BY <1>4, <2>2, <2>3 DEF FindNextLeader
  <1>5. CASE MarkLeader(p)
    <2>1. /\ UNCHANGED <<auction, auctionSeq, bidSeq, item, unsynced, sweep, now, crashes>>
          /\ call[p].auction # NoAuction /\ call[p].step \in Editing
      BY <1>5 DEF MarkLeader, Typed, CallOK, Editing
    <2>2. CASE Live(call[p].bid)
      <3>1. Goto(p, "settle") /\ "settle" \in CallStep
        BY <1>5, <2>2 DEF MarkLeader, CallStep
      <3>2. /\ call' \in [Procs -> Call]
            /\ call'[p].auction = call[p].auction /\ call'[p].bid = call[p].bid
            /\ \A q \in Procs : q # p => call'[q] = call[q]
        BY <2>1, <3>1, CallGotoWrites
      <3>. QED  BY <1>5, <2>1, <2>2, <3>2, MarkWrites, TypedFlags
    <2>3. CASE ~Live(call[p].bid)
      <3>1. Return(p) /\ UNCHANGED bid
        BY <1>5, <2>3 DEF MarkLeader
      <3>. QED  BY <2>1, <3>1, CallReturn, TypedCall DEF Typed, TypeOK
    <2>. QED  BY <2>2, <2>3
  <1>6. CASE SettleWinner(p)
    <2>1. /\ Return(p) /\ UNCHANGED <<auctionSeq, bid, bidSeq, item, unsynced, sweep, now, crashes>>
      BY <1>6 DEF SettleWinner
    <2>2. CASE UNCHANGED auction
      BY <2>1, <2>2, CallReturn, TypedCall DEF Typed, TypeOK
    <2>3. CASE ~UNCHANGED auction
      <3>1. PICK r \in AuctionRow :
              /\ auction' = [auction EXCEPT ![call[p].auction] = r]
              /\ r.status = auction[call[p].auction].status /\ r.winner = call[p].bid
        BY <1>6, <2>3, SettleWrites
      <3>2. /\ call[p].auction \in AuctionIds /\ Exists(call[p].auction)
            /\ (call[p].bid = NoBid \/ call[p].bid \in BidsOf(call[p].auction))
        BY <1>6, <2>3, SettleWrites
      <3>. QED  BY <2>1, <3>1, <3>2, CallReturn, TypedRow DEF Exists, Typed, TypeOK
    <2>. QED  BY <2>2, <2>3
  <1>. QED  BY <1>1, <1>2, <1>3, <1>4, <1>5, <1>6 DEF RemoveStep

\* Clearing the history keeps the types of the calls in flight.
LEMMA TypedClear ==
  ASSUME Typed, NEW p \in Procs, ClearStep(p)
  PROVE  Typed'
  <1>1. CASE ClearHistory(p)
    <2>1. /\ auction' = [a \in AuctionIds |-> AbsentAuction]
          /\ bid' = [b \in BidIds |-> AbsentBid]
          /\ call[p] = Idle /\ Goto(p, "clearItems") /\ "clearItems" \in CallStep
          /\ "clearItems" \notin Editing
          /\ UNCHANGED <<auctionSeq, bidSeq, item, unsynced, sweep, now, crashes>>
      BY <1>1 DEF ClearHistory, CallStep, Editing
    <2>2. AbsentAuction \in AuctionRow /\ AbsentAuction.status = "ABSENT" /\ AbsentAuction.winner = NoBid
      BY DEF AbsentAuction, AuctionRow, AuctionStatus
    <2>3. AbsentBid \in BidRow /\ AbsentBid.auction = NoAuction
      BY DEF AbsentBid, BidRow
    <2>4. /\ call' \in [Procs -> Call]
          /\ call'[p].step = "clearItems" /\ call'[p].auction = call[p].auction
          /\ call'[p].bid = call[p].bid
          /\ \A q \in Procs : q # p => call'[q] = call[q]
      BY <2>1, CallGotoWrites
    <2>5. CallOK'
      BY <2>1, <2>3, <2>4 DEF Typed, CallOK, Live
    <2>. QED  BY <2>1, <2>2, <2>3, <2>4, <2>5 DEF Typed, TypeOK, SeqOK, Live, Exists, BidsOf
  <1>2. CASE ClearItems(p)
    <2>1. Return(p) /\ UNCHANGED <<auction, auctionSeq, bid, bidSeq, unsynced, sweep, now, crashes>>
      BY <1>2 DEF ClearItems
    <2>2. item' \in [Items -> ItemStatus]
      BY <1>2 DEF ClearItems, Typed, TypeOK, ItemStatus
    <2>. QED  BY <2>1, <2>2, CallReturn, TypedCall DEF Typed, TypeOK
  <1>. QED  BY <1>1, <1>2 DEF ClearStep

\* The sweep, the clock and a restart keep the types.
LEMMA TypedSystem ==
  ASSUME Typed, ReadExpired \/ Tick \/ Crash \/ \E a \in AuctionIds : SweepClose(a)
  PROVE  Typed'
  <1>1. CASE ReadExpired
    <2>1. UNCHANGED <<rows, call, now, crashes>> /\ sweep' \subseteq AuctionIds
      BY <1>1 DEF ReadExpired
    <2>2. CallOK'
      BY <2>1 DEF rows, Typed, CallOK, Live
    <2>. QED  BY <2>1, <2>2, TypedCall DEF rows, Typed, TypeOK
  <1>2. CASE Tick
    <2>1. UNCHANGED <<rows, call, sweep, crashes>> /\ now' \in 0 .. MaxTime
      BY <1>2 DEF Tick, Typed, TypeOK
    <2>2. CallOK'
      BY <2>1 DEF rows, Typed, CallOK, Live
    <2>. QED  BY <2>1, <2>2, TypedCall DEF rows, Typed, TypeOK
  <1>3. CASE Crash
    <2>1. /\ UNCHANGED <<auction, auctionSeq, bid, bidSeq, item, now>> /\ sweep' = {}
          /\ call' = [p \in Procs |-> Idle]
      BY <1>3 DEF Crash
    <2>3. unsynced' \subseteq AuctionIds
      <3>1. unsynced \subseteq AuctionIds  BY DEF Typed, TypeOK
      <3>. QED  BY <1>3, <3>1 DEF Crash
    <2>4. crashes' \in 0 .. MaxCrashes
      <3>1. crashes \in 0 .. MaxCrashes  BY DEF Typed, TypeOK
      <3>. QED  BY <1>3, <3>1 DEF Crash
    <2>2. call' \in [Procs -> Call] /\ CallOK'
      <3>1. Idle \in Call /\ Idle.auction = 0 /\ Idle.bid = 0 /\ Idle.step \notin Editing
            /\ 0 <= auctionSeq /\ 0 <= bidSeq
        BY DEF Idle, Call, CallStep, Editing, Typed, TypeOK
      <3>. QED  BY <2>1, <3>1 DEF CallOK, Live
    <2>. QED  BY <2>1, <2>2, <2>3, <2>4, TypedCall DEF Typed, TypeOK
  <1>4. CASE \E a \in AuctionIds : SweepClose(a)
    <2>1. PICK a \in AuctionIds : SweepClose(a)
      BY <1>4
    <2>2. UNCHANGED <<call, now, crashes>> /\ sweep' \subseteq AuctionIds
      BY <2>1 DEF SweepClose, Typed, TypeOK
    <2>3. CASE CloseAuction(a)
      BY <2>2, <2>3, TypedClose
    <2>4. CASE UNCHANGED rows
      <3>1. CallOK'
        BY <2>2, <2>4 DEF rows, Typed, CallOK, Live
      <3>. QED  BY <2>2, <2>4, <3>1, TypedCall DEF rows, Typed, TypeOK
    <2>. QED  BY <2>1, <2>3, <2>4 DEF SweepClose
  <1>. QED  BY <1>1, <1>2, <1>3, <1>4

\* Every step keeps the types.
LEMMA TypedNext ==
  ASSUME Typed, [Next]_vars
  PROVE  Typed'
  <1>1. CASE UNCHANGED vars
    BY <1>1 DEF vars, Typed, TypeOK, CallOK, SeqOK, Live, Exists, BidsOf
  <1>2. CASE \E p \in Procs : StartStep(p) \/ EditStep(p) \/ RemoveStep(p) \/ ClearStep(p)
    BY <1>2, TypedStart, TypedEdit, TypedRemove, TypedClear
  <1>3. CASE \E a \in AuctionIds : (\E amount \in Amounts : Bid(a, amount)) \/ Close(a) \/ Cancel(a)
    <2>1. PICK a \in AuctionIds :
            (\E amount \in Amounts : Bid(a, amount)) \/ Close(a) \/ Cancel(a)
      BY <1>3
    <2>2. CASE \E amount \in Amounts : Bid(a, amount)
      BY <2>2, TypedBid DEF Bid
    <2>3. CASE Close(a)
      BY <2>3, TypedClose DEF Close, Typed, TypeOK
    <2>. QED  BY <2>1, <2>2, <2>3, TypedCancel
  <1>. QED  BY <1>1, <1>2, <1>3, TypedSystem DEF Next

\* The rows, the calls and the foreign keys keep their types in every run, with
\* any number of calls interleaved statement by statement and any restarts.
THEOREM TypeCorrect == Spec => []TypeOK
  <1>1. Init => Typed
    BY TypedInit
  <1>2. Typed /\ [Next]_vars => Typed'
    BY TypedNext
  <1>3. Typed => TypeOK
    BY DEF Typed
  <1>. QED  BY <1>1, <1>2, <1>3, PTL DEF Spec

-----------------------------------------------------------------------------
(***************************************************************************)
(* The deadline: endsAt is at most one duration away while no fixed        *)
(* deadline is set, whatever edits wrote it.                               *)
(***************************************************************************)
Near(r) ==
    /\ r.startedAt <= now
    /\ r.scheduledEndAt = NoTime /\ r.endsAt # NoTime => r.endsAt <= now + r.duration

Deadlines ==
    /\ \A a \in AuctionIds : Near(auction[a])
    /\ \A p \in Procs : call[p].at <= now

\* Replacing one row by a near one keeps the deadlines near.
LEMMA NearRow ==
  ASSUME Typed, Deadlines, NEW a \in AuctionIds, NEW r \in AuctionRow,
         auction' = [auction EXCEPT ![a] = r], Near(r), UNCHANGED now,
         \A p \in Procs : call'[p].at <= now
  PROVE  Deadlines'
  <1>1. /\ auction'[a] = r
        /\ \A x \in AuctionIds : x # a => auction'[x] = auction[x]
    BY RowWrite DEF Typed, TypeOK
  <1>. QED  BY <1>1 DEF Deadlines, Near

\* Steps that leave the auction table alone.
LEMMA NearCall ==
  ASSUME Typed, Deadlines, UNCHANGED auction, now' \in Nat, now <= now',
         \A p \in Procs : call'[p].at <= now'
  PROVE  Deadlines'
  <1>1. ASSUME NEW a \in AuctionIds
        PROVE  Near(auction[a])'
    <2>1. /\ auction[a].startedAt \in Nat /\ auction[a].duration \in Nat
          /\ auction[a].endsAt \in Nat \cup {NoTime} /\ now \in Nat
      BY DEF Typed, TypeOK, AuctionRow
    <2>2. Near(auction[a]) /\ auction'[a] = auction[a]
      BY DEF Deadlines
    <2>. QED  BY <2>1, <2>2 DEF Near
  <1>. QED  BY <1>1 DEF Deadlines

\* A call that returns holds no instant.
LEMMA AtReturn ==
  ASSUME Typed, Deadlines, NEW p \in Procs, Return(p)
  PROVE  \A q \in Procs : call'[q].at <= now
  <1>1. now \in Nat /\ Idle.at = 0  BY DEF Typed, TypeOK, Idle
  <1>2. \A q \in Procs : call'[q] = IF q = p THEN Idle ELSE call[q]
    BY DEF Return, Typed, TypeOK
  <1>. QED  BY <1>1, <1>2 DEF Deadlines

\* A call that goes on keeps its instant.
LEMMA AtWrite ==
  ASSUME Typed, Deadlines, NEW p \in Procs, NEW c \in Call, c.at <= now,
         call' = [call EXCEPT ![p] = c]
  PROVE  \A q \in Procs : call'[q].at <= now
  <1>1. \A q \in Procs : call'[q] = IF q = p THEN c ELSE call[q]
    BY DEF Typed, TypeOK
  <1>. QED  BY <1>1 DEF Deadlines

\* A call begun now keeps the instant at which it began.
LEMMA NearBegin ==
  ASSUME Typed, Deadlines, NEW p \in Procs, NEW step \in CallStep, NEW a \in AuctionIds,
         NEW b \in BidIds \cup {NoBid}, Begin(p, step, a, b)
  PROVE  Deadlines'
  <1> DEFINE t == IF step = "schedule" THEN now ELSE 0
             c == [Idle EXCEPT !.step = step, !.auction = a, !.bid = b, !.at = t]
  <1>1. now \in Nat /\ t \in Nat /\ t <= now
    BY DEF Typed, TypeOK
  <1>3. call' = [call EXCEPT ![p] = c] /\ UNCHANGED <<auction, now>>
    BY DEF Begin, rows
  <1> HIDE DEF t
  <1>2. c \in Call /\ c.at <= now
    BY <1>1 DEF Idle, Call
  <1> HIDE DEF c
  <1>4. \A q \in Procs : call'[q].at <= now
    BY <1>2, <1>3, AtWrite
  <1>. QED  BY <1>1, <1>3, <1>4, NearCall

\* Nothing has a deadline yet.
LEMMA NearInit == Init => Deadlines
  BY DEF Init, Deadlines, Near, AbsentAuction, Idle

\* An insert sets the deadline one duration away.
LEMMA NearInsert ==
  ASSUME Typed, Deadlines, NEW g \in Groups \cup {NoGroup}, NEW i \in Items \cup {NoItem},
         NEW e \in Events \cup {NoEvent}, NEW initial \in InitialValues,
         NEW dur \in Durations, NEW step \in Steps, NEW at \in Nat, at <= now,
         InsertAuction(g, i, e, initial, dur, step, at),
         NEW p \in Procs, NEW c \in Call, call' = [call EXCEPT ![p] = c], c.at = 0,
         UNCHANGED now
  PROVE  Deadlines'
  <1>1. PICK r \in AuctionRow :
          /\ auction' = [auction EXCEPT ![auctionSeq'] = r]
          /\ r.duration = dur /\ r.startedAt = at /\ r.endsAt \in {at + dur, NoTime}
    BY InsertWrites
  <1>2. auctionSeq' \in AuctionIds  BY InsertWrites
  <1>3. now \in Nat /\ at \in Nat /\ at <= now /\ dur \in Nat  BY DEF Typed, TypeOK
  <1>4. Near(r)  BY <1>1, <1>3 DEF Near
  <1>5. \A q \in Procs : call'[q].at <= now
    <2>1. c.at <= now  BY <1>3
    <2>. QED  BY <2>1, AtWrite
  <1>. QED  BY <1>1, <1>2, <1>4, <1>5, NearRow

\* Starting an auction: its deadline is one duration away.
LEMMA NearStart ==
  ASSUME Typed, Deadlines, NEW p \in Procs, StartStep(p)
  PROVE  Deadlines'
  <1>1. CASE \E g \in Groups, i \in Items \cup {NoItem}, e \in Events \cup {NoEvent} :
              StartCheck(p, g, i, e)
    <2>1. PICK g \in Groups, i \in Items \cup {NoItem}, e \in Events \cup {NoEvent} :
            StartCheck(p, g, i, e)
      BY <1>1
    <2> DEFINE c == [Idle EXCEPT !.step = "create", !.group = g, !.item = i,
                                 !.event = e, !.at = now]
    <2>1a. now \in Nat
      BY DEF Typed, TypeOK
    <2>2. c \in Call /\ c.at = now
      BY <2>1a DEF Idle, Call, CallStep
    <2>3. call' = [call EXCEPT ![p] = c] /\ UNCHANGED <<auction, now>>
      BY <2>1 DEF StartCheck, rows
    <2> HIDE DEF c
    <2>4. now \in Nat /\ c.at <= now
      BY <2>2 DEF Typed, TypeOK
    <2>5. \A q \in Procs : call'[q].at <= now
      BY <2>2, <2>3, <2>4, AtWrite
    <2>. QED  BY <2>3, <2>4, <2>5, NearCall
  <1>2. CASE StartCreate(p)
    <2>1. PICK initial \in InitialValues, step \in Steps, dur \in Durations \ {0} :
            InsertAuction(call[p].group, call[p].item, call[p].event, initial, dur, step,
                          call[p].at)
      BY <1>2 DEF StartCreate
    <2> DEFINE c == IF call[p].item = NoItem THEN Idle
                    ELSE [Idle EXCEPT !.step = "mark", !.item = call[p].item,
                                      !.auction = auctionSeq + 1]
    <2>2. /\ call[p].item \in Items \cup {NoItem} /\ call[p].group \in Groups \cup {NoGroup}
          /\ call[p].event \in Events \cup {NoEvent}
          /\ call[p].at \in Nat /\ call[p].at <= now
      BY DEF Typed, TypeOK, Call, Deadlines
    <2>3. auctionSeq + 1 \in AuctionIds
      BY <2>1, <2>2, InsertWrites
    <2>4. c \in Call /\ c.at = 0
      BY <2>2, <2>3 DEF Idle, Call, CallStep
    <2>5. call' = [call EXCEPT ![p] = c] /\ UNCHANGED now
      BY <1>2 DEF StartCreate
    <2> HIDE DEF c
    <2>. QED  BY <2>1, <2>2, <2>4, <2>5, NearInsert
  <1>3. CASE StartListed(p)
    <2>1. PICK g \in Groups, i \in Items, e \in Events, initial \in InitialValues,
               step \in Steps, dur \in Durations :
            /\ InsertAuction(g, i, e, initial, dur, step, now)
            /\ call' = [call EXCEPT ![p] =
                 [Idle EXCEPT !.step = "mark", !.item = i, !.auction = auctionSeq + 1]]
      BY <1>3 DEF StartListed
    <2> DEFINE c == [Idle EXCEPT !.step = "mark", !.item = i, !.auction = auctionSeq + 1]
    <2>2. auctionSeq + 1 \in AuctionIds /\ now \in Nat /\ now <= now
      BY <2>1, InsertWrites DEF Typed, TypeOK
    <2>3. c \in Call /\ c.at = 0
      BY <2>2 DEF Idle, Call, CallStep
    <2>4. call' = [call EXCEPT ![p] = c] /\ UNCHANGED now
      BY <1>3, <2>1 DEF StartListed
    <2> HIDE DEF c
    <2>. QED  BY <2>1, <2>2, <2>3, <2>4, NearInsert
  <1>4. CASE MarkItemOnAuction(p)
    <2>1. Return(p) /\ UNCHANGED <<auction, now>>
      BY <1>4 DEF MarkItemOnAuction, Return
    <2>2. now' \in Nat /\ now <= now' /\ UNCHANGED auction
      BY <2>1 DEF Typed, TypeOK
    <2>3. \A q \in Procs : call'[q].at <= now'
      BY <2>1, AtReturn
    <2>. QED  BY <2>2, <2>3, NearCall
  <1>. QED  BY <1>1, <1>2, <1>3, <1>4 DEF StartStep

\* A panel edit: updateAuction counts from startedAt, which is past, and the
\* schedule from the moment the call began.
LEMMA NearEdit ==
  ASSUME Typed, Deadlines, NEW p \in Procs, EditStep(p)
  PROVE  Deadlines'
  <1>0. now \in Nat  BY DEF Typed, TypeOK
  <1>1. CASE \E a \in AuctionIds : UpdateAuctionRead(p, a)
    BY <1>1, NearBegin DEF UpdateAuctionRead, CallStep
  <1>2. CASE \E a \in AuctionIds : ScheduleEndRead(p, a)
    BY <1>2, NearBegin DEF ScheduleEndRead, CallStep
  <1>3. CASE UpdateAuctionWrite(p)
    <2>1. Return(p) /\ UNCHANGED now
      BY <1>3 DEF UpdateAuctionWrite
    <2>2. CASE ~Exists(call[p].auction)
      <3>1. UNCHANGED auction  BY <1>3, <2>2 DEF UpdateAuctionWrite
      <3>. QED  BY <1>0, <2>1, <3>1, AtReturn, NearCall
    <2>3. CASE Exists(call[p].auction)
      <3>1. call[p].auction \in AuctionIds
        BY <1>3, <2>3, UpdateWrites
      <3>2. PICK r \in AuctionRow :
              /\ auction' = [auction EXCEPT ![call[p].auction] = r]
              /\ r.scheduledEndAt = auction[call[p].auction].scheduledEndAt
              /\ r.startedAt = auction[call[p].auction].startedAt
              /\ \/ /\ r.duration = auction[call[p].auction].duration
                    /\ r.endsAt = auction[call[p].auction].endsAt
                 \/ r.endsAt = auction[call[p].auction].startedAt + r.duration
        BY <1>3, <2>3, UpdateWrites
      <3>3. Near(auction[call[p].auction]) /\ r.duration \in Nat /\ r.startedAt \in Nat
        BY <3>1 DEF Deadlines, AuctionRow
      <3>4. Near(r)
        BY <1>0, <3>2, <3>3 DEF Near
      <3>. QED  BY <2>1, <3>1, <3>2, <3>4, AtReturn, NearRow
    <2>. QED  BY <2>2, <2>3
  <1>4. CASE ScheduleEndWrite(p)
    <2>1. Return(p) /\ UNCHANGED now
      BY <1>4 DEF ScheduleEndWrite
    <2>2. CASE ~Exists(call[p].auction)
      <3>1. UNCHANGED auction  BY <1>4, <2>2 DEF ScheduleEndWrite
      <3>. QED  BY <1>0, <2>1, <3>1, AtReturn, NearCall
    <2>3. CASE Exists(call[p].auction)
      <3>1. call[p].auction \in AuctionIds
        BY <1>4, <2>3, ScheduleWrites
      <3>2. PICK r \in AuctionRow :
              /\ auction' = [auction EXCEPT ![call[p].auction] = r]
              /\ r.startedAt = auction[call[p].auction].startedAt
              /\ \/ r.scheduledEndAt # NoTime
                 \/ r.endsAt \in {NoTime, call[p].at + r.duration}
        BY <1>4, <2>3, ScheduleWrites
      <3>3. Near(auction[call[p].auction]) /\ r.duration \in Nat
          /\ call[p].at \in Nat /\ call[p].at <= now
        BY <3>1 DEF Deadlines, AuctionRow, Typed, TypeOK, Call
      <3>4. Near(r)
        BY <1>0, <3>2, <3>3 DEF Near
      <3>. QED  BY <2>1, <3>1, <3>2, <3>4, AtReturn, NearRow
    <2>. QED  BY <2>2, <2>3
  <1>5. CASE \E b \in BidIds : UpdateBidRead(p, b)
    <2>1. PICK b \in BidIds : UpdateBidRead(p, b)
      BY <1>5
    <2>2. bid[b].auction \in AuctionIds
      BY <2>1 DEF UpdateBidRead, Live, Typed, TypeOK, BidRow
    <2>. QED  BY <2>1, <2>2, NearBegin DEF UpdateBidRead, CallStep
  <1>6. CASE UpdateBidWrite(p)
    <2>1. Return(p) /\ UNCHANGED <<auction, now>>
      BY <1>6 DEF UpdateBidWrite
    <2>. QED  BY <1>0, <2>1, AtReturn, NearCall
  <1>. QED  BY <1>1, <1>2, <1>3, <1>4, <1>5, <1>6 DEF EditStep

\* A row with the deadline of a near row is near.
LEMMA NearSame ==
  ASSUME Typed, Deadlines, NEW a \in AuctionIds, NEW r \in AuctionRow,
         r.scheduledEndAt = auction[a].scheduledEndAt, r.duration = auction[a].duration,
         r.startedAt = auction[a].startedAt, r.endsAt = auction[a].endsAt
  PROVE  Near(r)
  BY DEF Deadlines, Near

\* A statement that keeps the call's instant.
LEMMA AtGoto ==
  ASSUME Typed, Deadlines, NEW p \in Procs, NEW s \in CallStep, Goto(p, s)
  PROVE  \A q \in Procs : call'[q].at <= now
  <1>1. call'[p].at = call[p].at /\ \A q \in Procs : q # p => call'[q] = call[q]
    BY CallGotoWrites
  <1>. QED  BY <1>1 DEF Deadlines

\* removeBid never touches a deadline.
LEMMA NearRemove ==
  ASSUME Typed, Deadlines, NEW p \in Procs, RemoveStep(p)
  PROVE  Deadlines'
  <1>0. now \in Nat  BY DEF Typed, TypeOK
  <1>1. CASE \E b \in BidIds : RemoveBidRead(p, b)
    <2>1. PICK b \in BidIds : RemoveBidRead(p, b)
      BY <1>1
    <2>2. bid[b].auction \in AuctionIds
      BY <2>1 DEF RemoveBidRead, Live, Typed, TypeOK, BidRow
    <2>. QED  BY <2>1, <2>2, NearBegin DEF RemoveBidRead, CallStep
  <1>2. CASE DeleteBid(p)
    <2>1. UNCHANGED now  BY <1>2 DEF DeleteBid
    <2>2. CASE Live(call[p].bid)
      <3>1. call[p].auction \in AuctionIds
        BY <1>2, <2>2, DeleteWrites
      <3>2. PICK r \in AuctionRow :
              /\ auction' = [auction EXCEPT ![call[p].auction] = r]
              /\ r.scheduledEndAt = auction[call[p].auction].scheduledEndAt
              /\ r.duration = auction[call[p].auction].duration
              /\ r.startedAt = auction[call[p].auction].startedAt
              /\ r.endsAt = auction[call[p].auction].endsAt
        BY <1>2, <2>2, DeleteWrites
      <3>3. \A q \in Procs : call'[q].at <= now
        BY <1>2, <2>2, DeleteCall DEF Deadlines
      <3>. QED  BY <2>1, <3>1, <3>2, <3>3, NearSame, NearRow
    <2>3. CASE ~Live(call[p].bid)
      <3>1. Return(p) /\ UNCHANGED auction  BY <1>2, <2>3 DEF DeleteBid
      <3>. QED  BY <1>0, <2>1, <3>1, AtReturn, NearCall
    <2>. QED  BY <2>2, <2>3
  <1>3. CASE ResetLeaders(p)
    <2>1. Goto(p, "find") /\ "find" \in CallStep /\ UNCHANGED <<auction, now>>
      BY <1>3 DEF ResetLeaders, CallStep
    <2>. QED  BY <1>0, <2>1, AtGoto, NearCall
  <1>4. CASE FindNextLeader(p)
    <2>1. UNCHANGED <<auction, now>>
      BY <1>4 DEF FindNextLeader, rows
    <2>2. CASE Goto(p, "settle")
      BY <1>0, <2>1, <2>2, AtGoto, NearCall DEF CallStep
    <2>3. CASE \E b \in BidsOf(call[p].auction) :
                 call' = [call EXCEPT ![p].step = "lead", ![p].bid = b]
      <3>1. PICK b \in BidsOf(call[p].auction) :
                 call' = [call EXCEPT ![p].step = "lead", ![p].bid = b]
        BY <2>3
      <3> DEFINE c == [call[p] EXCEPT !.step = "lead", !.bid = b]
      <3>4. b \in BidIds /\ call[p] \in Call /\ call[p].at <= now
        BY <3>1 DEF BidsOf, Typed, TypeOK, Deadlines
      <3>2. c \in Call /\ c.at <= now
        BY <3>4 DEF Call, CallStep
      <3>3. call' = [call EXCEPT ![p] = c]
        BY <3>1 DEF Typed, TypeOK
      <3> HIDE DEF c
      <3>5. \A q \in Procs : call'[q].at <= now
        BY <3>2, <3>3, AtWrite
      <3>. QED  BY <1>0, <2>1, <3>5, NearCall
    <2>. QED  BY <1>4, <2>2, <2>3 DEF FindNextLeader
  <1>5. CASE MarkLeader(p)
    <2>1. UNCHANGED <<auction, now>> /\ (Goto(p, "settle") \/ Return(p)) /\ "settle" \in CallStep
      BY <1>5 DEF MarkLeader, CallStep
    <2>. QED  BY <1>0, <2>1, AtGoto, AtReturn, NearCall
  <1>6. CASE SettleWinner(p)
    <2>1. Return(p) /\ UNCHANGED now
      BY <1>6 DEF SettleWinner
    <2>2. CASE UNCHANGED auction
      BY <1>0, <2>1, <2>2, AtReturn, NearCall
    <2>3. CASE ~UNCHANGED auction
      <3>1. call[p].auction \in AuctionIds
        BY <1>6, <2>3, SettleWrites
      <3>2. PICK r \in AuctionRow :
              /\ auction' = [auction EXCEPT ![call[p].auction] = r]
              /\ r.scheduledEndAt = auction[call[p].auction].scheduledEndAt
              /\ r.duration = auction[call[p].auction].duration
              /\ r.startedAt = auction[call[p].auction].startedAt
              /\ r.endsAt = auction[call[p].auction].endsAt
        BY <1>6, <2>3, SettleWrites
      <3>. QED  BY <2>1, <3>1, <3>2, AtReturn, NearSame, NearRow
    <2>. QED  BY <2>2, <2>3
  <1>. QED  BY <1>1, <1>2, <1>3, <1>4, <1>5, <1>6 DEF RemoveStep

\* Bids, closings, cancellations, cleared history, the sweep, the clock and a
\* restart keep the deadlines near.
LEMMA NearClose ==
  ASSUME Typed, Deadlines, NEW a \in AuctionIds, CloseAuction(a), UNCHANGED <<call, now>>
  PROVE  Deadlines'
  <1>1. PICK r \in AuctionRow :
          /\ auction' = [auction EXCEPT ![a] = r]
          /\ r.scheduledEndAt = auction[a].scheduledEndAt
          /\ r.duration = auction[a].duration /\ r.startedAt = auction[a].startedAt
          /\ r.endsAt = auction[a].endsAt
    BY CloseWrites
  <1>2. \A p \in Procs : call'[p].at <= now  BY DEF Deadlines
  <1>. QED  BY <1>1, <1>2, NearSame, NearRow

\* A cancelled auction keeps its deadline.
LEMMA NearCancel ==
  ASSUME Typed, Deadlines, NEW a \in AuctionIds, Cancel(a)
  PROVE  Deadlines'
  <1>1. PICK r \in AuctionRow :
          /\ auction' = [auction EXCEPT ![a] = r]
          /\ r.scheduledEndAt = auction[a].scheduledEndAt
          /\ r.duration = auction[a].duration /\ r.startedAt = auction[a].startedAt
          /\ r.endsAt = auction[a].endsAt
    BY CancelWrites DEF Cancel
  <1>2. UNCHANGED now /\ \A p \in Procs : call'[p].at <= now
    BY DEF Cancel, Deadlines
  <1>. QED  BY <1>1, <1>2, NearSame, NearRow

\* A bid restarts the clock from now.
LEMMA NearBid ==
  ASSUME Typed, Deadlines, NEW a \in AuctionIds, NEW amount \in Amounts, Bid(a, amount)
  PROVE  Deadlines'
  <1>1. PlaceBid(a, amount) /\ UNCHANGED <<call, now>>
    BY DEF Bid
  <1>2. PICK r \in AuctionRow :
          /\ auction' = [auction EXCEPT ![a] = r]
          /\ r.scheduledEndAt = auction[a].scheduledEndAt
          /\ r.duration = auction[a].duration /\ r.startedAt = auction[a].startedAt
          /\ r.endsAt = DeadlineAfterBid(a)
    BY <1>1, BidAuction
  <1>3. \A p \in Procs : call'[p].at <= now  BY <1>1 DEF Deadlines
  <1>4. Near(auction[a]) /\ now \in Nat /\ auction[a].duration \in Nat
    BY DEF Deadlines, Typed, TypeOK, AuctionRow
  <1>5. Near(r)
    BY <1>2, <1>4 DEF Near, DeadlineAfterBid
  <1>. QED  BY <1>1, <1>2, <1>3, <1>5, NearRow

\* Clearing the history leaves only absent rows.
LEMMA NearClear ==
  ASSUME Typed, Deadlines, NEW p \in Procs, ClearStep(p)
  PROVE  Deadlines'
  <1>0. now \in Nat  BY DEF Typed, TypeOK
  <1>1. CASE ClearHistory(p)
    <2>1. /\ auction' = [a \in AuctionIds |-> AbsentAuction] /\ UNCHANGED now
          /\ Goto(p, "clearItems") /\ "clearItems" \in CallStep
      BY <1>1 DEF ClearHistory, CallStep
    <2>2. Near(AbsentAuction)
      BY <1>0 DEF Near, AbsentAuction
    <2>3. \A q \in Procs : call'[q].at <= now
      BY <2>1, AtGoto
    <2>. QED  BY <2>1, <2>2, <2>3 DEF Deadlines, Near
  <1>2. CASE ClearItems(p)
    <2>1. Return(p) /\ UNCHANGED <<auction, now>>  BY <1>2 DEF ClearItems
    <2>. QED  BY <1>0, <2>1, AtReturn, NearCall
  <1>. QED  BY <1>1, <1>2 DEF ClearStep

\* The deadlines stay near in every step.
LEMMA NearNext ==
  ASSUME Typed, Deadlines, [Next]_vars
  PROVE  Deadlines'
  <1>0. now \in Nat  BY DEF Typed, TypeOK
  <1>1. CASE UNCHANGED vars
    BY <1>1 DEF vars, Deadlines, Near
  <1>2. CASE \E p \in Procs : StartStep(p) \/ EditStep(p) \/ RemoveStep(p) \/ ClearStep(p)
    BY <1>2, NearStart, NearEdit, NearRemove, NearClear
  <1>3. CASE \E a \in AuctionIds : (\E amount \in Amounts : Bid(a, amount)) \/ Close(a) \/ Cancel(a)
    BY <1>3, NearBid, NearClose, NearCancel DEF Close
  <1>4. CASE \E a \in AuctionIds : SweepClose(a)
    <2>1. PICK a \in AuctionIds : SweepClose(a)
      BY <1>4
    <2>2. UNCHANGED <<call, now>>  BY <2>1 DEF SweepClose
    <2>3. CASE CloseAuction(a)
      BY <2>2, <2>3, NearClose
    <2>4. CASE UNCHANGED rows
      BY <2>2, <2>4 DEF rows, Deadlines, Near
    <2>. QED  BY <2>1, <2>3, <2>4 DEF SweepClose
  <1>5. CASE ReadExpired
    BY <1>5 DEF ReadExpired, rows, Deadlines, Near
  <1>6. CASE Tick
    <2>1. UNCHANGED <<auction, call>> /\ now' \in Nat /\ now <= now'
      BY <1>0, <1>6 DEF Tick, rows
    <2>2. \A p \in Procs : call[p].at \in Nat /\ call[p].at <= now
      BY DEF Typed, TypeOK, Call, Deadlines
    <2>. QED  BY <1>0, <2>1, <2>2, NearCall
  <1>7. CASE Crash
    <2>1. UNCHANGED <<auction, now>> /\ \A p \in Procs : call'[p].at <= now
      BY <1>0, <1>7 DEF Crash, Idle
    <2>. QED  BY <1>0, <2>1, NearCall
  <1>. QED  BY <1>1, <1>2, <1>3, <1>4, <1>5, <1>6, <1>7 DEF Next

\* Only placeBid hands out bid ids.
LEMMA BidSteps ==
  ASSUME [Next]_vars, bidSeq' # bidSeq
  PROVE  \E a \in AuctionIds, amount \in Amounts : Bid(a, amount)
  <1>1. ASSUME NEW p \in Procs, StartStep(p)  PROVE UNCHANGED bidSeq
    BY <1>1 DEF StartStep, StartCheck, StartCreate, StartListed, InsertAuction,
                MarkItemOnAuction, rows
  <1>2. ASSUME NEW p \in Procs, EditStep(p)  PROVE UNCHANGED bidSeq
    BY <1>2 DEF EditStep, UpdateAuctionRead, UpdateAuctionWrite, ScheduleEndRead,
                ScheduleEndWrite, UpdateBidRead, UpdateBidWrite, Begin, rows
  <1>3. ASSUME NEW p \in Procs, RemoveStep(p)  PROVE UNCHANGED bidSeq
    BY <1>3 DEF RemoveStep, RemoveBidRead, DeleteBid, ResetLeaders, FindNextLeader,
                MarkLeader, SettleWinner, Begin, rows
  <1>4. ASSUME NEW p \in Procs, ClearStep(p)  PROVE UNCHANGED bidSeq
    BY <1>4 DEF ClearStep, ClearHistory, ClearItems
  <1>5. ASSUME NEW a \in AuctionIds, Close(a) \/ Cancel(a) \/ SweepClose(a)
        PROVE  UNCHANGED bidSeq
    BY <1>5 DEF Close, Cancel, SweepClose, CloseAuction, CancelAuction, rows
  <1>6. ASSUME ReadExpired \/ Tick \/ Crash  PROVE UNCHANGED bidSeq
    BY <1>6 DEF ReadExpired, Tick, Crash, rows
  <1>. QED  BY <1>1, <1>2, <1>3, <1>4, <1>5, <1>6 DEF Next, vars

\* A bid moves a running deadline forward or leaves it.
LEMMA BidMovesOn ==
  ASSUME Typed, Deadlines, [Next]_vars
  PROVE  [\A a \in AuctionIds :
            /\ bidSeq' # bidSeq /\ auction[a].status = "OPEN"
            /\ auction[a].scheduledEndAt = NoTime /\ auction[a].endsAt # NoTime
            => auction[a]'.endsAt >= auction[a].endsAt]_vars
  <1> SUFFICES ASSUME bidSeq' # bidSeq, NEW a \in AuctionIds,
                      auction[a].scheduledEndAt = NoTime, auction[a].endsAt # NoTime
               PROVE  auction'[a].endsAt >= auction[a].endsAt
    OBVIOUS
  <1>1. PICK x \in AuctionIds, amount \in Amounts : Bid(x, amount)
    BY BidSteps
  <1>2. PICK r \in AuctionRow :
          /\ auction' = [auction EXCEPT ![x] = r] /\ r.endsAt = DeadlineAfterBid(x)
    BY <1>1, BidAuction DEF Bid
  <1>3. /\ auction'[x] = r
        /\ \A y \in AuctionIds : y # x => auction'[y] = auction[y]
    BY <1>2, RowWrite DEF Typed, TypeOK
  <1>4. auction[a].endsAt \in Nat
    BY DEF Typed, TypeOK, AuctionRow
  <1>5. CASE a # x
    BY <1>3, <1>4, <1>5
  <1>6. CASE a = x
    <2>1. Near(auction[a])  BY DEF Deadlines
    <2>2. auction[a] \in AuctionRow /\ now \in Nat  BY DEF Typed, TypeOK
    <2>3. auction[a].duration \in Nat  BY <2>2 DEF AuctionRow
    <2>. QED  BY <1>2, <1>3, <1>4, <1>6, <2>1, <2>2, <2>3 DEF Near, DeadlineAfterBid
  <1>. QED  BY <1>5, <1>6

\* An accepted bid never brings a running deadline forward: with any mix of
\* panel edits, clock steps and restarts, endsAt is at most one duration away.
THEOREM DeadlineSafety == Spec => BidNeverShortens
  <1>1. Init => Typed /\ Deadlines
    BY TypedInit, NearInit
  <1>2. Typed /\ Deadlines /\ [Next]_vars => Typed' /\ Deadlines'
    BY TypedNext, NearNext
  <1>3. Typed /\ Deadlines /\ [Next]_vars =>
          [\A a \in AuctionIds :
            /\ bidSeq' # bidSeq /\ auction[a].status = "OPEN"
            /\ auction[a].scheduledEndAt = NoTime /\ auction[a].endsAt # NoTime
            => auction[a]'.endsAt >= auction[a].endsAt]_vars
    BY BidMovesOn
  <1>. QED  BY <1>1, <1>2, <1>3, PTL DEF Spec, BidNeverShortens
-----------------------------------------------------------------------------
(***************************************************************************)
(* Leaders and winners.  While removeBid is between its statements the     *)
(* auction may have no leader, so the invariant follows the removal: at    *)
(* most one at a time, never on a closed auction, and at each statement    *)
(* what the next one needs.                                                *)
(***************************************************************************)
Window == {"reset", "find", "lead", "settle"}

InWindow(p, a) == call[p].auction = a /\ call[p].step \in Window

Led(a) == BidsOf(a) = {} \/ \E b \in BidsOf(a) : Leads(b, a)

Won(a) == IF BidsOf(a) = {} THEN auction[a].winner = NoBid
          ELSE IsHighest(auction[a].winner, a)

WindowOK(p, a) ==
    /\ call[p].step = "find" => LeadersOf(a) = {}
    /\ call[p].step = "lead" => LeadersOf(a) = {} /\ IsHighest(call[p].bid, a)
    /\ call[p].step = "settle" => Led(a)

AuctionSafe(a) ==
    /\ \A p, q \in Procs : InWindow(p, a) /\ InWindow(q, a) => p = q
    /\ \A p \in Procs : InWindow(p, a) => /\ auction[a].status # "CLOSED"
                                          /\ Open(a) => WindowOK(p, a)
    /\ Open(a) /\ ~Removing(a) => Led(a)
    /\ auction[a].status = "CLOSED" => Won(a)

RemovalSafe == \A a \in AuctionIds \ unsynced : AuctionSafe(a)

\* Removing is "some call is in the window".
LEMMA RemovingWindow ==
  ASSUME NEW a \in AuctionIds
  PROVE  Removing(a) <=> \E p \in Procs : InWindow(p, a)
  BY DEF Removing, InWindow, Window

\* What a step leaves alone of one auction: its bids, and the calls that are
\* removing one of them.
SameBids(a) ==
    \A b \in BidIds : bid[b].auction = a \/ bid'[b].auction = a => bid'[b] = bid[b]

SameCalls(a) ==
    \A p \in Procs : InWindow(p, a) \/ InWindow(p, a)' => call'[p] = call[p]

SameRow(a) ==
    auction'[a].status = auction[a].status /\ auction'[a].winner = auction[a].winner

\* The same bids have the same leader and the same maximum.
LEMMA SameLeaders ==
  ASSUME NEW a \in AuctionIds, SameBids(a)
  PROVE  /\ BidsOf(a)' = BidsOf(a) /\ LeadersOf(a)' = LeadersOf(a)
         /\ \A b \in BidIds \cup {NoBid} : IsHighest(b, a)' <=> IsHighest(b, a)
         /\ Led(a)' <=> Led(a)
  <1>1. BidsOf(a)' = BidsOf(a) /\ \A b \in BidsOf(a) : bid'[b] = bid[b]
    BY DEF SameBids, BidsOf
  <1>2. LeadersOf(a)' = LeadersOf(a)
    BY <1>1 DEF LeadersOf
  <1>3. \A b : IsHighest(b, a)' <=> IsHighest(b, a)
    BY <1>1 DEF IsHighest
  <1>4. \A b : Leads(b, a)' <=> Leads(b, a)
    BY <1>2, <1>3 DEF Leads
  <1>. QED  BY <1>1, <1>2, <1>3, <1>4 DEF Led

\* A step that leaves an auction alone keeps it safe.
LEMMA SafeFrame ==
  ASSUME Typed, NEW a \in AuctionIds, AuctionSafe(a), SameRow(a), SameBids(a), SameCalls(a)
  PROVE  AuctionSafe(a)'
  <1>1. \A p \in Procs : /\ InWindow(p, a)' <=> InWindow(p, a)
                         /\ InWindow(p, a) => call'[p] = call[p]
    BY DEF SameCalls, InWindow
  <1>2. Removing(a)' <=> Removing(a)
    BY <1>1 DEF Removing, InWindow, Window
  <1>3. \A p \in Procs : call[p].bid \in BidIds \cup {NoBid}
    BY DEF Typed, TypeOK, Call
  <1>4. auction[a].winner \in BidIds \cup {NoBid}
    BY DEF Typed, TypeOK, AuctionRow
  <1>5. \A p \in Procs : InWindow(p, a) /\ WindowOK(p, a) => WindowOK(p, a)'
    BY <1>1, <1>3, SameLeaders DEF WindowOK
  <1>6. Won(a)' <=> Won(a)
    BY <1>4, SameLeaders DEF Won, SameRow
  <1>. QED  BY <1>1, <1>2, <1>5, <1>6, SameLeaders DEF AuctionSafe, SameRow, Open

\* A step that leaves every auction alone.
LEMMA SafeQuiet ==
  ASSUME Typed, RemovalSafe, unsynced \subseteq unsynced',
         \A a \in AuctionIds : SameRow(a) /\ SameBids(a) /\ SameCalls(a)
  PROVE  RemovalSafe'
  BY SafeFrame DEF RemovalSafe

\* A call outside the window that stays outside is seen by no auction.
LEMMA SameCall ==
  ASSUME Typed, NEW p \in Procs, NEW c \in Call, call' = [call EXCEPT ![p] = c],
         call[p].step \notin Window, c.step \notin Window, NEW a \in AuctionIds
  PROVE  SameCalls(a)
  <1>1. \A q \in Procs : call'[q] = IF q = p THEN c ELSE call[q]
    BY DEF Typed, TypeOK
  <1>. QED  BY <1>1 DEF SameCalls, InWindow

\* A call outside the window that returns.
LEMMA SameReturn ==
  ASSUME Typed, NEW p \in Procs, Return(p), call[p].step \notin Window, NEW a \in AuctionIds
  PROVE  SameCalls(a)
  BY SameCall DEF Return, Idle, Call, CallStep, Window

\* A call that begins is outside the window.
LEMMA SafeBegin ==
  ASSUME Typed, RemovalSafe, NEW p \in Procs, NEW step \in CallStep \ Window,
         NEW a \in AuctionIds, NEW b \in BidIds \cup {NoBid}, Begin(p, step, a, b)
  PROVE  RemovalSafe'
  <1> DEFINE t == IF step = "schedule" THEN now ELSE 0
             c == [Idle EXCEPT !.step = step, !.auction = a, !.bid = b, !.at = t]
  <1>1. t \in Nat  BY DEF Typed, TypeOK
  <1>2. call' = [call EXCEPT ![p] = c] /\ UNCHANGED rows /\ call[p].step \notin Window
    BY DEF Begin, Idle, Window
  <1> HIDE DEF t
  <1>3. c \in Call /\ c.step \notin Window
    BY <1>1 DEF Idle, Call
  <1> HIDE DEF c
  <1>4. \A x \in AuctionIds : SameCalls(x)
    BY <1>2, <1>3, SameCall
  <1>. QED  BY <1>2, <1>4, SafeQuiet DEF rows, SameRow, SameBids

\* A row written with the same status and winner.
LEMMA SafeRow ==
  ASSUME Typed, RemovalSafe, NEW a \in AuctionIds, NEW r \in AuctionRow,
         auction' = [auction EXCEPT ![a] = r],
         r.status = auction[a].status, r.winner = auction[a].winner,
         UNCHANGED <<bid, unsynced>>, \A x \in AuctionIds : SameCalls(x)
  PROVE  RemovalSafe'
  <1>1. /\ auction'[a] = r
        /\ \A x \in AuctionIds : x # a => auction'[x] = auction[x]
    BY RowWrite DEF Typed, TypeOK
  <1>2. \A x \in AuctionIds : SameRow(x) /\ SameBids(x)
    BY <1>1 DEF SameRow, SameBids
  <1>. QED  BY <1>2, SafeQuiet

\* At the start there is nothing to lead and nothing won.
LEMMA SafeInit == Init => RemovalSafe
  <1> SUFFICES ASSUME Init, NEW a \in AuctionIds  PROVE AuctionSafe(a)
    BY DEF RemovalSafe
  <1>1. auction[a].status = "ABSENT"  BY DEF Init, AbsentAuction
  <1>2. \A p \in Procs : ~InWindow(p, a)  BY DEF Init, InWindow, Window, Idle
  <1>. QED  BY <1>1, <1>2 DEF AuctionSafe, Open

\* A new auction has no bids, and no call knows it yet.
LEMMA SafeInsert ==
  ASSUME Typed, RemovalSafe, NEW g \in Groups \cup {NoGroup}, NEW i \in Items \cup {NoItem},
         NEW e \in Events \cup {NoEvent}, NEW initial \in InitialValues,
         NEW dur \in Durations, NEW step \in Steps, NEW at \in Nat,
         InsertAuction(g, i, e, initial, dur, step, at), \A x \in AuctionIds : SameCalls(x)
  PROVE  RemovalSafe'
  <1>1. PICK r \in AuctionRow :
          auction' = [auction EXCEPT ![auctionSeq'] = r] /\ r.status = "OPEN"
    BY InsertWrites
  <1>2. auctionSeq' = auctionSeq + 1 /\ auctionSeq' \in AuctionIds
    BY InsertWrites
  <1>3. PICK n \in AuctionIds : n = auctionSeq + 1 /\ n = auctionSeq'
    BY <1>2
  <1>4. /\ auction'[n] = r
        /\ \A x \in AuctionIds : x # n => auction'[x] = auction[x]
    BY <1>1, <1>3, RowWrite DEF Typed, TypeOK
  <1>5. UNCHANGED <<bid, unsynced>>
    BY DEF InsertAuction
  <1>6. auctionSeq \in Nat /\ \A p \in Procs : call[p].auction \in Nat
    BY DEF Typed, TypeOK, Call
  <1>7. ASSUME NEW a \in AuctionIds \ unsynced, a # n
        PROVE  AuctionSafe(a)'
    <2>1. SameRow(a) /\ SameBids(a)
      BY <1>4, <1>5, <1>7 DEF SameRow, SameBids
    <2>2. AuctionSafe(a)  BY <1>7 DEF RemovalSafe
    <2>. QED  BY <2>1, <2>2, SafeFrame
  <1>8. AuctionSafe(n)'
    <2>1. \A p \in Procs : ~InWindow(p, n)
      BY <1>3, <1>6 DEF InWindow, Typed, CallOK
    <2>2. \A p \in Procs : ~InWindow(p, n)'
      BY <2>1 DEF SameCalls, InWindow
    <2>3. \A b \in BidIds : bid[b].auction # n
      <3>1. ~Exists(n)  BY <1>3, <1>6 DEF Typed, SeqOK
      <3>. QED  BY <3>1 DEF Typed, TypeOK, Live
    <2>4. BidsOf(n)' = {}
      BY <1>5, <2>3 DEF BidsOf
    <2>5. auction'[n].status = "OPEN"
      BY <1>1, <1>4
    <2>. QED  BY <2>2, <2>4, <2>5 DEF AuctionSafe, Led
  <1>. QED  BY <1>5, <1>7, <1>8 DEF RemovalSafe

\* Starting an auction touches no other.
LEMMA SafeStart ==
  ASSUME Typed, RemovalSafe, NEW p \in Procs, StartStep(p)
  PROVE  RemovalSafe'
  <1>1. CASE \E g \in Groups, i \in Items \cup {NoItem}, e \in Events \cup {NoEvent} :
              StartCheck(p, g, i, e)
    <2>1. PICK g \in Groups, i \in Items \cup {NoItem}, e \in Events \cup {NoEvent} :
            StartCheck(p, g, i, e)
      BY <1>1
    <2> DEFINE c == [Idle EXCEPT !.step = "create", !.group = g, !.item = i,
                                 !.event = e, !.at = now]
    <2>1a. now \in Nat
      BY DEF Typed, TypeOK
    <2>2. c \in Call /\ c.step \notin Window
      BY <2>1a DEF Idle, Call, CallStep, Window
    <2>3. call' = [call EXCEPT ![p] = c] /\ UNCHANGED rows /\ call[p].step \notin Window
      BY <2>1 DEF StartCheck, Idle, Window
    <2> HIDE DEF c
    <2>4. \A x \in AuctionIds : SameCalls(x)  BY <2>2, <2>3, SameCall
    <2>. QED  BY <2>3, <2>4, SafeQuiet DEF rows, SameRow, SameBids
  <1>2. CASE StartCreate(p)
    <2>1. PICK initial \in InitialValues, step \in Steps, dur \in Durations \ {0} :
            InsertAuction(call[p].group, call[p].item, call[p].event, initial, dur, step,
                          call[p].at)
      BY <1>2 DEF StartCreate
    <2> DEFINE c == IF call[p].item = NoItem THEN Idle
                    ELSE [Idle EXCEPT !.step = "mark", !.item = call[p].item,
                                      !.auction = auctionSeq + 1]
    <2>2. /\ call[p].item \in Items \cup {NoItem} /\ call[p].group \in Groups \cup {NoGroup}
          /\ call[p].event \in Events \cup {NoEvent} /\ call[p].at \in Nat
      BY DEF Typed, TypeOK, Call
    <2>3. auctionSeq + 1 \in AuctionIds
      BY <2>1, <2>2, InsertWrites
    <2>4. c \in Call /\ c.step \notin Window
      BY <2>2, <2>3 DEF Idle, Call, CallStep, Window
    <2>5. call' = [call EXCEPT ![p] = c] /\ call[p].step \notin Window
      BY <1>2 DEF StartCreate, Window
    <2> HIDE DEF c
    <2>6. \A x \in AuctionIds : SameCalls(x)  BY <2>4, <2>5, SameCall
    <2>. QED  BY <2>1, <2>2, <2>6, SafeInsert
  <1>3. CASE StartListed(p)
    <2>1. PICK g \in Groups, i \in Items, e \in Events, initial \in InitialValues,
               step \in Steps, dur \in Durations :
            /\ InsertAuction(g, i, e, initial, dur, step, now)
            /\ call' = [call EXCEPT ![p] =
                 [Idle EXCEPT !.step = "mark", !.item = i, !.auction = auctionSeq + 1]]
      BY <1>3 DEF StartListed
    <2> DEFINE c == [Idle EXCEPT !.step = "mark", !.item = i, !.auction = auctionSeq + 1]
    <2>2. auctionSeq + 1 \in AuctionIds /\ now \in Nat
      BY <2>1, InsertWrites DEF Typed, TypeOK
    <2>3. c \in Call /\ c.step \notin Window
      BY <2>2 DEF Idle, Call, CallStep, Window
    <2>6. call[p].step \notin Window
      BY <1>3 DEF StartListed, Idle, Window
    <2>4. call' = [call EXCEPT ![p] = c]
      BY <2>1
    <2> HIDE DEF c
    <2>5. \A x \in AuctionIds : SameCalls(x)  BY <2>3, <2>4, <2>6, SameCall
    <2>. QED  BY <2>1, <2>2, <2>5, SafeInsert
  <1>4. CASE MarkItemOnAuction(p)
    <2>1. /\ Return(p) /\ UNCHANGED <<auction, bid, unsynced>>
          /\ call[p].step \notin Window
      BY <1>4 DEF MarkItemOnAuction, Return, Window
    <2>2. \A x \in AuctionIds : SameCalls(x)  BY <2>1, SameReturn
    <2>. QED  BY <2>1, <2>2, SafeQuiet DEF SameRow, SameBids
  <1>. QED  BY <1>1, <1>2, <1>3, <1>4 DEF StartStep

\* Panel edits of the auction keep status and winner; an edited bid makes its
\* auction unsynchronised.
LEMMA SafeEdit ==
  ASSUME Typed, RemovalSafe, NEW p \in Procs, EditStep(p)
  PROVE  RemovalSafe'
  <1>1. CASE \E a \in AuctionIds : UpdateAuctionRead(p, a)
    BY <1>1, SafeBegin DEF UpdateAuctionRead, CallStep, Window
  <1>2. CASE \E a \in AuctionIds : ScheduleEndRead(p, a)
    BY <1>2, SafeBegin DEF ScheduleEndRead, CallStep, Window
  <1>3. CASE UpdateAuctionWrite(p)
    <2>1. Return(p) /\ UNCHANGED <<bid, unsynced>> /\ call[p].step \notin Window
      BY <1>3 DEF UpdateAuctionWrite, Window
    <2>2. \A x \in AuctionIds : SameCalls(x)  BY <2>1, SameReturn
    <2>3. CASE ~Exists(call[p].auction)
      BY <1>3, <2>1, <2>2, <2>3, SafeQuiet DEF UpdateAuctionWrite, SameRow, SameBids
    <2>4. CASE Exists(call[p].auction)
      BY <1>3, <2>1, <2>2, <2>4, UpdateWrites, SafeRow
    <2>. QED  BY <2>3, <2>4
  <1>4. CASE ScheduleEndWrite(p)
    <2>1. Return(p) /\ UNCHANGED <<bid, unsynced>> /\ call[p].step \notin Window
      BY <1>4 DEF ScheduleEndWrite, Window
    <2>2. \A x \in AuctionIds : SameCalls(x)  BY <2>1, SameReturn
    <2>3. CASE ~Exists(call[p].auction)
      BY <1>4, <2>1, <2>2, <2>3, SafeQuiet DEF ScheduleEndWrite, SameRow, SameBids
    <2>4. CASE Exists(call[p].auction)
      BY <1>4, <2>1, <2>2, <2>4, ScheduleWrites, SafeRow
    <2>. QED  BY <2>3, <2>4
  <1>5. CASE \E b \in BidIds : UpdateBidRead(p, b)
    <2>1. PICK b \in BidIds : UpdateBidRead(p, b)
      BY <1>5
    <2>2. bid[b].auction \in AuctionIds
      BY <2>1 DEF UpdateBidRead, Live, Typed, TypeOK, BidRow
    <2>. QED  BY <2>1, <2>2, SafeBegin DEF UpdateBidRead, CallStep, Window
  <1>6. CASE UpdateBidWrite(p)
    <2>1. Return(p) /\ UNCHANGED auction /\ call[p].step \notin Window
      BY <1>6 DEF UpdateBidWrite, Window
    <2>2. \A x \in AuctionIds : SameCalls(x)  BY <2>1, SameReturn
    <2>3. CASE ~Live(call[p].bid)
      BY <1>6, <2>1, <2>2, <2>3, SafeQuiet DEF UpdateBidWrite, SameRow, SameBids
    <2>4. CASE Live(call[p].bid)
      <3>1. unsynced' = unsynced \cup {call[p].auction}
        BY <1>6, <2>4 DEF UpdateBidWrite
      <3>2. \A b \in BidIds : b # call[p].bid => bid'[b] = bid[b]
        BY <1>6, <2>4 DEF UpdateBidWrite, Typed, TypeOK
      <3>3. /\ bid[call[p].bid].auction = call[p].auction
            /\ bid'[call[p].bid].auction = call[p].auction
        BY <1>6, <2>4 DEF UpdateBidWrite, Typed, TypeOK, CallOK, Live, BidRow
      <3>4. ASSUME NEW a \in AuctionIds \ unsynced'
            PROVE  AuctionSafe(a)'
        <4>1. SameRow(a) /\ SameBids(a)
          BY <2>1, <3>1, <3>2, <3>3 DEF SameRow, SameBids
        <4>2. AuctionSafe(a)  BY <3>1 DEF RemovalSafe
        <4>. QED  BY <2>2, <4>1, <4>2, SafeFrame
      <3>. QED  BY <3>4 DEF RemovalSafe
    <2>. QED  BY <2>3, <2>4
  <1>. QED  BY <1>1, <1>2, <1>3, <1>4, <1>5, <1>6 DEF EditStep

\* placeBid moves the flag to the new bid and leaves other auctions' bids alone.
LEMMA BidFlags ==
  ASSUME Typed, NEW a \in AuctionIds, NEW amount \in Amounts, PlaceBid(a, amount)
  PROVE  \A b \in BidIds : b # bidSeq + 1 =>
            IF bid[b].auction = a THEN ~bid'[b].leader ELSE bid'[b] = bid[b]
  <1>1. \A b \in BidIds : b # bidSeq + 1 =>
          bid'[b] = IF bid[b].auction = a THEN [bid[b] EXCEPT !.leader = FALSE] ELSE bid[b]
    BY DEF PlaceBid
  <1>2. \A b \in BidIds : bid[b] \in BidRow  BY DEF Typed, TypeOK
  <1>3. \A r \in BidRow : [r EXCEPT !.leader = FALSE].leader = FALSE  BY DEF BidRow
  <1>. QED  BY <1>1, <1>2, <1>3

\* The accepted bid is the highest and the only leader, unless a removal was in
\* between: then the auction is unsynchronised.
LEMMA SafeBid ==
  ASSUME Typed, RemovalSafe, NEW x \in AuctionIds, NEW amount \in Amounts, Bid(x, amount)
  PROVE  RemovalSafe'
  <1>1. PlaceBid(x, amount) /\ UNCHANGED call /\ unsynced' = Disturbed(x) /\ AcceptsBid(x, amount)
    BY DEF Bid, PlaceBid
  <1>2. PICK n \in BidIds : n = bidSeq + 1 /\ n = bidSeq'
    BY <1>1, BidWrites
  <1>3. /\ bid'[n].auction = x /\ bid'[n].amount = amount /\ bid'[n].leader
        /\ \A b \in BidIds : b # n => bid'[b].auction = bid[b].auction /\ bid'[b].amount = bid[b].amount
    BY <1>1, <1>2, BidWrites
  <1>4. \A b \in BidIds : b # n =>
            IF bid[b].auction = x THEN ~bid'[b].leader ELSE bid'[b] = bid[b]
    BY <1>1, <1>2, BidFlags
  <1>5. bid[n].auction = NoAuction
    <2>1. bidSeq \in Nat  BY DEF Typed, TypeOK
    <2>. QED  BY <1>2, <2>1 DEF Typed, TypeOK, Live
  <1>6. PICK r \in AuctionRow :
          /\ auction' = [auction EXCEPT ![x] = r]
          /\ r.status = auction[x].status /\ r.winner = auction[x].winner
    BY <1>1, BidAuction
  <1>7. \A a \in AuctionIds : SameRow(a)
    BY <1>6, RowWrite DEF SameRow, Typed, TypeOK
  <1>8. \A a \in AuctionIds : SameCalls(a)
    BY <1>1 DEF SameCalls
  <1>9. unsynced \subseteq unsynced'
    BY <1>1 DEF Disturbed
  <1>10. ASSUME NEW a \in AuctionIds \ unsynced', a # x
         PROVE  AuctionSafe(a)'
    <2>1. SameBids(a)
      BY <1>3, <1>4, <1>5, <1>10 DEF SameBids
    <2>2. AuctionSafe(a)  BY <1>9 DEF RemovalSafe
    <2>. QED  BY <1>7, <1>8, <2>1, <2>2, SafeFrame
  <1>11. ASSUME x \notin unsynced'
         PROVE  AuctionSafe(x)'
    <2>1. ~Removing(x)
      BY <1>1, <1>11 DEF Disturbed
    <2>2. \A p \in Procs : ~InWindow(p, x)'
      BY <1>1, <2>1, RemovingWindow DEF InWindow
    <2>3. BidsOf(x)' = BidsOf(x) \cup {n}
      BY <1>3, <1>5 DEF BidsOf
    <2>4. LeadersOf(x)' = {n}
      BY <1>3, <1>4, <2>3 DEF LeadersOf, BidsOf
    <2>5. \A b \in BidsOf(x) : bid[b].amount <= amount
      <3>1. /\ \A b \in BidsOf(x) : bid[b].amount \in Nat
            /\ amount \in Nat /\ auction[x].step \in Nat
        BY DEF BidsOf, Typed, TypeOK, BidRow, AuctionRow
      <3>. QED  BY <1>1, <3>1 DEF AcceptsBid
    <2>6. \A c \in BidsOf(x)' : bid'[c].amount <= bid'[n].amount
      <3>1. amount \in Nat  OBVIOUS
      <3>. QED  BY <1>3, <1>5, <2>3, <2>5, <3>1 DEF BidsOf
    <2>7. Leads(n, x)'
      BY <2>3, <2>4, <2>6 DEF Leads, IsHighest
    <2>8. auction'[x].status = "OPEN"
      BY <1>1, <1>7 DEF SameRow, PlaceBid, Open
    <2>. QED  BY <2>2, <2>3, <2>7, <2>8 DEF AuctionSafe, Led
  <1>. QED  BY <1>10, <1>11 DEF RemovalSafe

\* closeAuction outside a removal finds the leader, which is the highest bid.
LEMMA SafeClose ==
  ASSUME Typed, RemovalSafe, NEW x \in AuctionIds, CloseAuction(x), UNCHANGED call
  PROVE  RemovalSafe'
  <1>1. PICK r \in AuctionRow :
          /\ auction' = [auction EXCEPT ![x] = r]
          /\ r.status = "CLOSED" /\ r.winner \in WinnerChoices(x)
    BY CloseWrites
  <1>2. /\ auction'[x] = r
        /\ \A a \in AuctionIds : a # x => auction'[a] = auction[a]
    BY <1>1, RowWrite DEF Typed, TypeOK
  <1>3. UNCHANGED bid /\ unsynced' = Disturbed(x) /\ Open(x)
    BY DEF CloseAuction
  <1>4. \A a \in AuctionIds : SameCalls(a) /\ SameBids(a)
    BY <1>3 DEF SameCalls, SameBids
  <1>5. unsynced \subseteq unsynced'
    BY <1>3 DEF Disturbed
  <1>6. ASSUME NEW a \in AuctionIds \ unsynced', a # x
        PROVE  AuctionSafe(a)'
    <2>1. AuctionSafe(a)  BY <1>5 DEF RemovalSafe
    <2>2. SameRow(a)  BY <1>2, <1>6 DEF SameRow
    <2>. QED  BY <1>4, <2>1, <2>2, SafeFrame
  <1>7. ASSUME x \notin unsynced'
        PROVE  AuctionSafe(x)'
    <2>1. ~Removing(x)
      BY <1>3, <1>7 DEF Disturbed
    <2>2. \A p \in Procs : ~InWindow(p, x)'
      BY <2>1, RemovingWindow DEF InWindow
    <2>3. Led(x)
      BY <1>3, <1>5, <1>7, <2>1 DEF RemovalSafe, AuctionSafe
    <2>4. Won(x)'
      <3>1. CASE BidsOf(x) = {}
        <4>1. r.winner = NoBid
          BY <1>1, <3>1 DEF WinnerChoices, LeadersOf
        <4>. QED  BY <1>2, <1>3, <3>1, <4>1 DEF Won, BidsOf
      <3>2. CASE \E b \in BidsOf(x) : Leads(b, x)
        <4>1. PICK b \in BidsOf(x) : Leads(b, x)
          BY <3>2
        <4>2. r.winner = b
          BY <1>1, <4>1 DEF WinnerChoices, Leads
        <4>3. IsHighest(b, x)'
          BY <1>3, <4>1 DEF Leads, IsHighest, BidsOf
        <4>4. auction'[x].winner = b  BY <1>2, <4>2
        <4>5. IsHighest(auction[x].winner, x)'
          BY <4>3, <4>4 DEF IsHighest
        <4>6. BidsOf(x)' # {}
          BY <4>3 DEF IsHighest
        <4>. QED  BY <4>5, <4>6 DEF Won
      <3>. QED  BY <2>3, <3>1, <3>2 DEF Led
    <2>5. auction'[x].status = "CLOSED"
      BY <1>1, <1>2
    <2>. QED  BY <2>2, <2>4, <2>5 DEF AuctionSafe, Open
  <1>. QED  BY <1>6, <1>7 DEF RemovalSafe

\* A cancelled auction has nothing left to keep.
LEMMA SafeCancel ==
  ASSUME Typed, RemovalSafe, NEW x \in AuctionIds, Cancel(x)
  PROVE  RemovalSafe'
  <1>0. CancelAuction(x) /\ UNCHANGED call
    BY DEF Cancel
  <1>1. PICK r \in AuctionRow :
          auction' = [auction EXCEPT ![x] = r] /\ r.status = "CANCELLED"
    BY <1>0, CancelWrites
  <1>2. /\ auction'[x] = r
        /\ \A a \in AuctionIds : a # x => auction'[a] = auction[a]
    BY <1>1, RowWrite DEF Typed, TypeOK
  <1>3. UNCHANGED <<bid, unsynced>>
    BY <1>0 DEF CancelAuction
  <1>4. \A a \in AuctionIds : SameCalls(a) /\ SameBids(a)
    BY <1>0, <1>3 DEF SameCalls, SameBids
  <1>5. ASSUME NEW a \in AuctionIds \ unsynced', a # x
        PROVE  AuctionSafe(a)'
    <2>1. AuctionSafe(a)  BY <1>3 DEF RemovalSafe
    <2>2. SameRow(a)  BY <1>2, <1>5 DEF SameRow
    <2>. QED  BY <1>4, <2>1, <2>2, SafeFrame
  <1>6. ASSUME x \notin unsynced'
        PROVE  AuctionSafe(x)'
    <2>1. AuctionSafe(x)  BY <1>3, <1>6 DEF RemovalSafe
    <2>2. \A p \in Procs : InWindow(p, x)' <=> InWindow(p, x)
      BY <1>0 DEF InWindow
    <2>3. auction'[x].status = "CANCELLED"
      BY <1>1, <1>2
    <2>. QED  BY <2>1, <2>2, <2>3 DEF AuctionSafe, Open
  <1>. QED  BY <1>5, <1>6 DEF RemovalSafe

\* removeBid's deletion opens the window, alone; or the auction was closed, or a
\* removal was under way, and it becomes unsynchronised.
LEMMA SafeDelete ==
  ASSUME Typed, RemovalSafe, NEW p \in Procs, DeleteBid(p)
  PROVE  RemovalSafe'
  <1>0. call[p].step = "delete"  BY DEF DeleteBid
  <1>1. CASE ~Live(call[p].bid)
    <2>1. Return(p) /\ UNCHANGED <<bid, auction, unsynced>> /\ call[p].step \notin Window
      BY <1>0, <1>1 DEF DeleteBid, Window
    <2>2. \A x \in AuctionIds : SameCalls(x)  BY <2>1, SameReturn
    <2>. QED  BY <2>1, <2>2, SafeQuiet DEF SameRow, SameBids
  <1>2. CASE Live(call[p].bid)
    <2>1. PICK x \in AuctionIds : x = call[p].auction
      BY <1>2, DeleteWrites
    <2>2. PICK b \in BidIds : b = call[p].bid /\ bid[b].auction = x
      BY <1>2, <2>1, DeleteWrites
    <2>3. bid' = [bid EXCEPT ![b] = AbsentBid]
      BY <1>2, <2>2, DeleteWrites
    <2>4. \A c \in BidIds : bid'[c] = IF c = b THEN AbsentBid ELSE bid[c]
      BY <2>3 DEF Typed, TypeOK
    <2>5. PICK r \in AuctionRow :
            auction' = [auction EXCEPT ![x] = r] /\ r.status = auction[x].status
      BY <1>2, <2>1, DeleteWrites
    <2>6. /\ auction'[x] = r
          /\ \A a \in AuctionIds : a # x => auction'[a] = auction[a]
      BY <2>5, RowWrite DEF Typed, TypeOK
    <2>7. /\ call'[p].step = "reset" /\ call'[p].auction = x
          /\ \A q \in Procs : q # p => call'[q] = call[q]
      BY <1>2, <2>1, DeleteCall
    <2>8. unsynced' = IF Open(x) THEN Disturbed(x) ELSE unsynced \cup {x}
      BY <1>2, <2>1 DEF DeleteBid
    <2>9. ASSUME NEW a \in AuctionIds \ unsynced', a # x
          PROVE  AuctionSafe(a)'
      <3>1. AuctionSafe(a)  BY <2>8 DEF RemovalSafe, Disturbed
      <3>2. SameRow(a)  BY <2>6, <2>9 DEF SameRow
      <3>3. SameBids(a)
        BY <2>2, <2>4, <2>9 DEF SameBids, AbsentBid
      <3>4. SameCalls(a)
        BY <2>1, <2>7, <2>9 DEF SameCalls, InWindow
      <3>. QED  BY <3>1, <3>2, <3>3, <3>4, SafeFrame
    <2>10. ASSUME x \notin unsynced'
           PROVE  AuctionSafe(x)'
      <3>1. Open(x) /\ ~Removing(x)
        BY <2>8, <2>10 DEF Disturbed
      <3>2. \A q \in Procs : InWindow(q, x)' => q = p
        BY <2>7, <3>1, RemovingWindow DEF InWindow
      <3>3. auction'[x].status = "OPEN"
        BY <2>5, <2>6, <3>1 DEF Open
      <3>4. InWindow(p, x)' /\ Removing(x)'
        BY <2>7 DEF InWindow, Window, Removing
      <3>5. WindowOK(p, x)'
        BY <2>7 DEF WindowOK
      <3>. QED  BY <3>2, <3>3, <3>4, <3>5 DEF AuctionSafe
    <2>. QED  BY <2>9, <2>10 DEF RemovalSafe
  <1>. QED  BY <1>1, <1>2

\* A statement of the removal that keeps the call in the window of x, writes only
\* flags of x's bids, and establishes what the next statement needs.
LEMMA SafeMove ==
  ASSUME Typed, RemovalSafe, NEW p \in Procs, NEW x \in AuctionIds,
         InWindow(p, x), InWindow(p, x)',
         \A q \in Procs : q # p => call'[q] = call[q],
         UNCHANGED <<auction, unsynced>>,
         \A b \in BidIds : /\ bid'[b].auction = bid[b].auction
                           /\ bid'[b].amount = bid[b].amount
                           /\ bid[b].auction # x => bid'[b] = bid[b],
         (Open(x) /\ x \notin unsynced) => WindowOK(p, x)'
  PROVE  RemovalSafe'
  <1>1. ASSUME NEW a \in AuctionIds \ unsynced, a # x
        PROVE  AuctionSafe(a)'
    <2>1. SameRow(a) /\ SameBids(a)
      BY <1>1 DEF SameRow, SameBids
    <2>2. SameCalls(a)
      BY <1>1 DEF SameCalls, InWindow
    <2>. QED  BY <2>1, <2>2, SafeFrame DEF RemovalSafe
  <1>2. ASSUME x \notin unsynced
        PROVE  AuctionSafe(x)'
    <2>1. AuctionSafe(x)  BY <1>2 DEF RemovalSafe
    <2>2. \A q \in Procs : InWindow(q, x)' => q = p
      BY <2>1 DEF AuctionSafe, InWindow
    <2>3. auction'[x].status # "CLOSED"
      BY <2>1 DEF AuctionSafe
    <2>4. Removing(x)'
      BY DEF InWindow, Window, Removing
    <2>5. Open(x)' => WindowOK(p, x)'
      BY <1>2 DEF Open
    <2>. QED  BY <2>2, <2>3, <2>4, <2>5 DEF AuctionSafe
  <1>. QED  BY <1>1, <1>2 DEF RemovalSafe

\* A removal that ends leaves its auction led, if it is open.
LEMMA SafeEnd ==
  ASSUME Typed, RemovalSafe, NEW p \in Procs, NEW x \in AuctionIds,
         InWindow(p, x), Return(p), UNCHANGED <<bid, unsynced>>,
         \A a \in AuctionIds : /\ auction'[a].status = auction[a].status
                               /\ a # x => auction'[a] = auction[a],
         (Open(x) /\ x \notin unsynced) => Led(x)
  PROVE  RemovalSafe'
  <1>0. \A q \in Procs : call'[q] = IF q = p THEN Idle ELSE call[q]
    BY DEF Return, Typed, TypeOK
  <1>1. ASSUME NEW a \in AuctionIds \ unsynced, a # x
        PROVE  AuctionSafe(a)'
    <2>1. SameRow(a) /\ SameBids(a)
      BY <1>1 DEF SameRow, SameBids
    <2>2. SameCalls(a)
      BY <1>0, <1>1 DEF SameCalls, InWindow, Window, Idle
    <2>. QED  BY <2>1, <2>2, SafeFrame DEF RemovalSafe
  <1>2. ASSUME x \notin unsynced
        PROVE  AuctionSafe(x)'
    <2>1. AuctionSafe(x)  BY <1>2 DEF RemovalSafe
    <2>2. \A q \in Procs : ~InWindow(q, x)'
      <3>1. ~InWindow(p, x)'  BY <1>0 DEF InWindow, Window, Idle
      <3>2. ASSUME NEW q \in Procs, q # p  PROVE ~InWindow(q, x)'
        BY <1>0, <2>1, <3>2 DEF AuctionSafe, InWindow
      <3>. QED  BY <3>1, <3>2
    <2>3. auction'[x].status # "CLOSED"
      BY <2>1 DEF AuctionSafe
    <2>4. SameBids(x)  BY DEF SameBids
    <2>5. Open(x)' => Led(x)'
      BY <1>2, <2>4, SameLeaders DEF Open
    <2>. QED  BY <2>2, <2>3, <2>5 DEF AuctionSafe
  <1>. QED  BY <1>1, <1>2 DEF RemovalSafe

\* removeBid, statement by statement.
LEMMA SafeRemove ==
  ASSUME Typed, RemovalSafe, NEW p \in Procs, RemoveStep(p)
  PROVE  RemovalSafe'
  <1>1. CASE \E b \in BidIds : RemoveBidRead(p, b)
    <2>1. PICK b \in BidIds : RemoveBidRead(p, b)
      BY <1>1
    <2>2. bid[b].auction \in AuctionIds
      BY <2>1 DEF RemoveBidRead, Live, Typed, TypeOK, BidRow
    <2>. QED  BY <2>1, <2>2, SafeBegin DEF RemoveBidRead, CallStep, Window
  <1>2. CASE DeleteBid(p)
    BY <1>2, SafeDelete
  <1>3. CASE ResetLeaders(p)
    <2>1. /\ call[p].step = "reset" /\ Goto(p, "find") /\ "find" \in CallStep
          /\ UNCHANGED <<auction, unsynced>>
      BY <1>3 DEF ResetLeaders, CallStep
    <2>2. PICK x \in AuctionIds : x = call[p].auction
      BY <2>1 DEF Typed, TypeOK, CallOK, Editing, Call
    <2>3. /\ call'[p].step = "find" /\ call'[p].auction = x
          /\ \A q \in Procs : q # p => call'[q] = call[q]
      BY <2>1, <2>2, CallGotoWrites
    <2>4. \A b \in BidIds :
              /\ bid'[b].auction = bid[b].auction /\ bid'[b].amount = bid[b].amount
              /\ IF bid[b].auction = x THEN ~bid'[b].leader ELSE bid'[b] = bid[b]
      BY <1>3, <2>2, ResetWrites
    <2>5. LeadersOf(x)' = {}
      BY <2>4 DEF LeadersOf, BidsOf
    <2>6. WindowOK(p, x)'
      BY <2>3, <2>5 DEF WindowOK
    <2>7. InWindow(p, x) /\ InWindow(p, x)'
      BY <2>1, <2>2, <2>3 DEF InWindow, Window
    <2>. QED  BY <2>1, <2>3, <2>4, <2>6, <2>7, SafeMove
  <1>4. CASE FindNextLeader(p)
    <2>1. call[p].step = "find" /\ UNCHANGED <<auction, bid, unsynced>>
      BY <1>4 DEF FindNextLeader, rows
    <2>2. PICK x \in AuctionIds : x = call[p].auction
      BY <2>1 DEF Typed, TypeOK, CallOK, Editing, Call
    <2>3. InWindow(p, x)
      BY <2>1, <2>2 DEF InWindow, Window
    <2>4. CASE BidsOf(x) = {} /\ Goto(p, "settle")
      <3>1. /\ call'[p].step = "settle" /\ call'[p].auction = x
            /\ \A q \in Procs : q # p => call'[q] = call[q]
        BY <2>2, <2>4, CallGotoWrites DEF CallStep
      <3>2. InWindow(p, x)'  BY <3>1 DEF InWindow, Window
      <3>3. WindowOK(p, x)'
        BY <2>1, <2>4, <3>1 DEF WindowOK, Led, BidsOf
      <3>. QED  BY <2>1, <2>3, <3>1, <3>2, <3>3, SafeMove
    <2>5. CASE \E b \in BidsOf(x) :
                 /\ IsHighest(b, x)
                 /\ call' = [call EXCEPT ![p].step = "lead", ![p].bid = b]
      <3>1. PICK b \in BidsOf(x) :
                 /\ IsHighest(b, x)
                 /\ call' = [call EXCEPT ![p].step = "lead", ![p].bid = b]
        BY <2>5
      <3>2. /\ call'[p].step = "lead" /\ call'[p].auction = x /\ call'[p].bid = b
            /\ \A q \in Procs : q # p => call'[q] = call[q]
        <4> DEFINE c == [call[p] EXCEPT !.step = "lead", !.bid = b]
        <4>1. b \in BidIds /\ call[p] \in Call
          BY <3>1 DEF BidsOf, Typed, TypeOK
        <4>2. c \in Call /\ c.step = "lead" /\ c.bid = b /\ c.auction = x
          BY <2>2, <4>1 DEF Call, CallStep
        <4>3. call' = [call EXCEPT ![p] = c]
          BY <3>1 DEF Typed, TypeOK
        <4> HIDE DEF c
        <4>. QED  BY <4>2, <4>3 DEF Typed, TypeOK
      <3>3. InWindow(p, x)'  BY <3>2 DEF InWindow, Window
      <3>4. SameBids(x)  BY <2>1 DEF SameBids
      <3>5. b \in BidIds  BY <3>1 DEF BidsOf
      <3>6. IsHighest(b, x)'  BY <3>1, <3>4, <3>5, SameLeaders
      <3>7. (Open(x) /\ x \notin unsynced) => LeadersOf(x) = {}
        BY <2>1, <2>3 DEF RemovalSafe, AuctionSafe, WindowOK
      <3>8. (Open(x) /\ x \notin unsynced) => WindowOK(p, x)'
        <4>1. IsHighest(call[p].bid, x)'
          BY <3>2, <3>6 DEF IsHighest
        <4>2. LeadersOf(x)' = LeadersOf(x)
          BY <3>4, SameLeaders
        <4>. QED  BY <3>2, <3>7, <4>1, <4>2 DEF WindowOK
      <3>. QED  BY <2>1, <2>3, <3>2, <3>3, <3>8, SafeMove
    <2>. QED  BY <1>4, <2>2, <2>4, <2>5 DEF FindNextLeader
  <1>5. CASE MarkLeader(p)
    <2>1. call[p].step = "lead" /\ UNCHANGED <<auction, unsynced>>
      BY <1>5 DEF MarkLeader
    <2>2. PICK x \in AuctionIds : x = call[p].auction
      BY <2>1 DEF Typed, TypeOK, CallOK, Editing, Call
    <2>3. InWindow(p, x)
      BY <2>1, <2>2 DEF InWindow, Window
    <2>4. (Open(x) /\ x \notin unsynced) => LeadersOf(x) = {} /\ IsHighest(call[p].bid, x)
      BY <2>1, <2>3 DEF RemovalSafe, AuctionSafe, WindowOK
    <2>5. CASE ~Live(call[p].bid)
      <3>1. Return(p) /\ UNCHANGED bid  BY <1>5, <2>5 DEF MarkLeader
      <3>2. ~IsHighest(call[p].bid, x)
        BY <2>5 DEF IsHighest, BidsOf, Live
      <3>. QED  BY <2>1, <2>3, <2>4, <3>1, <3>2, SafeEnd
    <2>6. CASE Live(call[p].bid)
      <3>1. Goto(p, "settle") /\ "settle" \in CallStep
        BY <1>5, <2>6 DEF MarkLeader, CallStep
      <3>2. /\ call'[p].step = "settle" /\ call'[p].auction = x
            /\ \A q \in Procs : q # p => call'[q] = call[q]
        BY <2>2, <3>1, CallGotoWrites
      <3>3. PICK b \in BidIds : b = call[p].bid /\ bid[b].auction = x
        BY <2>2, <2>6 DEF Live, Typed, CallOK
      <3>4. /\ bid'[b].leader
            /\ \A c \in BidIds : /\ bid'[c].auction = bid[c].auction
                                 /\ bid'[c].amount = bid[c].amount
                                 /\ c # b => bid'[c] = bid[c]
        BY <1>5, <2>6, <3>3, MarkWrites
      <3>5. ASSUME Open(x), x \notin unsynced  PROVE Led(x)'
        <4>1. BidsOf(x)' = BidsOf(x)  BY <3>4 DEF BidsOf
        <4>2. LeadersOf(x)' = {b}
          BY <2>4, <3>3, <3>4, <3>5, <4>1 DEF LeadersOf, BidsOf
        <4>3. IsHighest(b, x)'
          BY <2>4, <3>3, <3>4, <3>5, <4>1 DEF IsHighest, BidsOf
        <4>4. b \in BidsOf(x)'  BY <3>3, <4>1 DEF BidsOf
        <4>5. Leads(b, x)'  BY <4>2, <4>3 DEF Leads
        <4>. QED  BY <4>4, <4>5 DEF Led
      <3>6. InWindow(p, x)'  BY <3>2 DEF InWindow, Window
      <3>7. (Open(x) /\ x \notin unsynced) => WindowOK(p, x)'
        BY <3>2, <3>5 DEF WindowOK
      <3>. QED  BY <2>1, <2>3, <3>2, <3>3, <3>4, <3>6, <3>7, SafeMove
    <2>. QED  BY <2>5, <2>6
  <1>6. CASE SettleWinner(p)
    <2>1. call[p].step = "settle" /\ Return(p) /\ UNCHANGED <<bid, unsynced>>
      BY <1>6 DEF SettleWinner
    <2>2. PICK x \in AuctionIds : x = call[p].auction
      BY <2>1 DEF Typed, TypeOK, CallOK, Editing, Call
    <2>3. InWindow(p, x)
      BY <2>1, <2>2 DEF InWindow, Window
    <2>4. (Open(x) /\ x \notin unsynced) => Led(x)
      BY <2>1, <2>3 DEF RemovalSafe, AuctionSafe, WindowOK
    <2>5. \A a \in AuctionIds : /\ auction'[a].status = auction[a].status
                                /\ a # x => auction'[a] = auction[a]
      <3>1. CASE UNCHANGED auction
        BY <3>1
      <3>2. CASE ~UNCHANGED auction
        <4>1. PICK r \in AuctionRow :
                auction' = [auction EXCEPT ![x] = r] /\ r.status = auction[x].status
          BY <1>6, <2>2, <3>2, SettleWrites
        <4>. QED  BY <4>1, RowWrite DEF Typed, TypeOK
      <3>. QED  BY <3>1, <3>2
    <2>. QED  BY <2>1, <2>3, <2>4, <2>5, SafeEnd
  <1>. QED  BY <1>1, <1>2, <1>3, <1>4, <1>5, <1>6 DEF RemoveStep

\* A cleared history has neither open nor closed auctions.
LEMMA SafeClear ==
  ASSUME Typed, RemovalSafe, NEW p \in Procs, ClearStep(p)
  PROVE  RemovalSafe'
  <1>1. CASE ClearHistory(p)
    <2>1. /\ call[p] = Idle /\ Goto(p, "clearItems") /\ "clearItems" \in CallStep
          /\ UNCHANGED unsynced /\ auction' = [a \in AuctionIds |-> AbsentAuction]
      BY <1>1 DEF ClearHistory, CallStep
    <2>2. \A a \in AuctionIds : auction'[a].status = "ABSENT"
      BY <2>1 DEF AbsentAuction
    <2>3. call'[p].step = "clearItems" /\ \A q \in Procs : q # p => call'[q] = call[q]
      BY <2>1, CallGotoWrites
    <2>4. \A q \in Procs, a \in AuctionIds : InWindow(q, a)' => InWindow(q, a)
      BY <2>3 DEF InWindow, Window
    <2>. QED  BY <2>1, <2>2, <2>4 DEF RemovalSafe, AuctionSafe, Open
  <1>2. CASE ClearItems(p)
    <2>1. Return(p) /\ UNCHANGED <<auction, bid, unsynced>> /\ call[p].step \notin Window
      BY <1>2 DEF ClearItems, Window
    <2>2. \A x \in AuctionIds : SameCalls(x)  BY <2>1, SameReturn
    <2>. QED  BY <2>1, <2>2, SafeQuiet DEF SameRow, SameBids
  <1>. QED  BY <1>1, <1>2 DEF ClearStep

\* A restart loses the removals under way, whose auctions become unsynchronised.
LEMMA SafeCrash ==
  ASSUME Typed, RemovalSafe, Crash
  PROVE  RemovalSafe'
  <1>1. /\ UNCHANGED <<auction, bid>> /\ call' = [p \in Procs |-> Idle]
        /\ unsynced' = unsynced \cup {a \in AuctionIds : Removing(a)}
    BY DEF Crash
  <1>2. ASSUME NEW a \in AuctionIds \ unsynced'
        PROVE  AuctionSafe(a)'
    <2>1. AuctionSafe(a) /\ ~Removing(a)
      BY <1>1, <1>2 DEF RemovalSafe
    <2>2. SameRow(a) /\ SameBids(a)
      BY <1>1 DEF SameRow, SameBids
    <2>3. \A p \in Procs : ~InWindow(p, a) /\ ~InWindow(p, a)'
      BY <1>1, <2>1, RemovingWindow DEF InWindow, Window, Idle
    <2>4. SameCalls(a)  BY <2>3 DEF SameCalls
    <2>. QED  BY <2>1, <2>2, <2>4, SafeFrame
  <1>. QED  BY <1>2 DEF RemovalSafe

\* Every step keeps the leaders and winners safe.
LEMMA SafeNext ==
  ASSUME Typed, RemovalSafe, [Next]_vars
  PROVE  RemovalSafe'
  <1>1. CASE UNCHANGED vars
    BY <1>1, SafeQuiet DEF vars, SameRow, SameBids, SameCalls
  <1>2. CASE \E p \in Procs : StartStep(p) \/ EditStep(p) \/ RemoveStep(p) \/ ClearStep(p)
    BY <1>2, SafeStart, SafeEdit, SafeRemove, SafeClear
  <1>3. CASE \E a \in AuctionIds : (\E amount \in Amounts : Bid(a, amount)) \/ Close(a) \/ Cancel(a)
    BY <1>3, SafeBid, SafeClose, SafeCancel DEF Close
  <1>4. CASE \E a \in AuctionIds : SweepClose(a)
    <2>1. PICK a \in AuctionIds : SweepClose(a)
      BY <1>4
    <2>2. UNCHANGED call  BY <2>1 DEF SweepClose
    <2>3. CASE CloseAuction(a)
      BY <2>2, <2>3, SafeClose
    <2>4. CASE UNCHANGED rows
      BY <2>2, <2>4, SafeQuiet DEF rows, SameRow, SameBids, SameCalls
    <2>. QED  BY <2>1, <2>3, <2>4 DEF SweepClose
  <1>5. CASE ReadExpired \/ Tick
    <2>1. UNCHANGED <<rows, call>>  BY <1>5 DEF ReadExpired, Tick
    <2>. QED  BY <2>1, SafeQuiet DEF rows, SameRow, SameBids, SameCalls
  <1>6. CASE Crash
    BY <1>6, SafeCrash
  <1>. QED  BY <1>1, <1>2, <1>3, <1>4, <1>5, <1>6 DEF Next

\* An open auction outside a removal has one leader, its highest bid; a closed one
\* has its highest bid as winner: for any interleaving of bids, closings, panel
\* calls statement by statement, sweeps and restarts, except where an unlocked
\* removal or edit was overlapped (`unsynced`).
THEOREM LeaderSafety == Spec => [](LeaderIsHighest /\ WinnerIsHighest)
  <1>1. Init => Typed /\ RemovalSafe
    BY TypedInit, SafeInit
  <1>2. Typed /\ RemovalSafe /\ [Next]_vars => Typed' /\ RemovalSafe'
    BY TypedNext, SafeNext
  <1>3. Typed /\ RemovalSafe => LeaderIsHighest /\ WinnerIsHighest
    BY DEF RemovalSafe, AuctionSafe, Led, Won, LeaderIsHighest, WinnerIsHighest
  <1>. QED  BY <1>1, <1>2, <1>3, PTL DEF Spec

\* What the bidders are promised of it: the winner closeAuction fixed is the highest
\* bid, and stays so.
THEOREM WinnerSafety == Spec => []WinnerIsHighest
  BY LeaderSafety, PTL
-----------------------------------------------------------------------------
(***************************************************************************)
(* The tables implement AscendingAuction: whatever bids, closings, panel   *)
(* edits statement by statement, sweeps and restarts interleave, an        *)
(* auction's best bid only rises unless a bid is withdrawn, and its        *)
(* winning bid is its best bid at the closing, for as long as its history  *)
(* is not rewritten.                                                       *)
(*                                                                         *)
(* The argument: a step changes one auction (AbstractStep), the others     *)
(* keep their abstract state (KeptSame); the best bid CHOOSE picks exists  *)
(* because bids are finite (SomeHighest), and its amount does not depend   *)
(* on the pick (PriceIs).                                                  *)
(***************************************************************************)

-----------------------------------------------------------------------------
(***************************************************************************)
(* The highest bid, of any table of bids.                                  *)
(***************************************************************************)
HIDE StoreAssumption DEF AuctionIds, BidIds, NoBid, NoAuction, NoTime

HighestIn(table, a, b) ==
    /\ b \in BidIds /\ table[b].auction = a
    /\ \A c \in BidIds : table[c].auction = a => table[c].amount <= table[b].amount

\* The best price as absBest computes it, of any table of bids.
Price(table, a) ==
    LET bids == {b \in BidIds : table[b].auction = a}
        top  == CHOOSE b \in bids :
                    /\ b \in bids
                    /\ \A c \in bids : table[c].amount <= table[b].amount
    IN IF bids = {} THEN 0 ELSE IF top = NoBid THEN 0 ELSE table[top].amount

\* An auction with bids has a highest one.
LEMMA SomeHighest ==
  ASSUME NEW table \in [BidIds -> BidRow], NEW a,
         \E b \in BidIds : table[b].auction = a
  PROVE  \E b \in BidIds : HighestIn(table, a, b)
  <1> DEFINE bids     == {b \in BidIds : table[b].auction = a}
             Above(b) == {c \in bids : table[c].amount > table[b].amount}
             Uppers   == {Above(b) : b \in bids}
             R        == StrictSubsetOrdering(BidIds)
  <1>1. IsFiniteSet(BidIds)
    BY FS_Interval, StoreAssumption DEF BidIds
  <1>2. IsWellFoundedOn(R, FiniteSubsetsOf(BidIds))
    BY FS_StrictSubsetOrderingWellFounded
  <1>3. Uppers \subseteq FiniteSubsetsOf(BidIds)
    BY <1>1, FS_FiniteSubsetsOfFinite
  <1>4. Uppers # {}
    <2>1. PICK b \in BidIds : table[b].auction = a
      OBVIOUS
    <2>2. Above(b) \in Uppers
      BY <2>1
    <2>. QED  BY <2>2
  <1>5. PICK x \in Uppers : \A y \in Uppers : <<y, x>> \notin R
    <2> HIDE DEF Uppers, R
    <2>. QED  BY <1>2, <1>3, <1>4, WFMin
  <1>6. PICK b \in bids : x = Above(b)
    OBVIOUS
  <1>7. \A c \in bids : table[c].amount \in Nat
    BY DEF BidRow
  <1>8. ASSUME NEW c \in Above(b)
        PROVE  FALSE
    <2>1. Above(c) \in Uppers
      OBVIOUS
    <2>2. Above(c) \subseteq Above(b)
      BY <1>7, <1>8
    <2>3. c \in Above(b) /\ c \notin Above(c)
      BY <1>7, <1>8
    <2>4. <<Above(c), Above(b)>> \in R
      BY <2>2, <2>3 DEF StrictSubsetOrdering
    <2>. QED  BY <1>5, <1>6, <2>1, <2>4
  <1>9. HighestIn(table, a, b)
    BY <1>7, <1>8 DEF HighestIn
  <1>. QED  BY <1>9

\* The price is the amount of any highest bid.
LEMMA PriceIs ==
  ASSUME NEW table \in [BidIds -> BidRow], NEW a, NEW b \in BidIds, HighestIn(table, a, b)
  PROVE  Price(table, a) = table[b].amount
  <1> DEFINE bids   == {x \in BidIds : table[x].auction = a}
             Top(x) == x \in bids /\ \A c \in bids : table[c].amount <= table[x].amount
             top    == CHOOSE x \in bids : Top(x)
  <1>1. b \in bids /\ Top(b)
    BY DEF HighestIn
  <1>2. top \in bids /\ Top(top)
    <2> HIDE DEF bids, Top
    <2>. QED  BY <1>1
  <1>3. table[top].amount \in Nat /\ table[b].amount \in Nat
    BY <1>1, <1>2 DEF BidRow
  <1>4. table[top].amount = table[b].amount
    BY <1>1, <1>2, <1>3
  <1>5. top # NoBid
    BY <1>2 DEF BidIds, NoBid
  <1>6. Price(table, a) = IF bids = {} THEN 0 ELSE IF top = NoBid THEN 0 ELSE table[top].amount
    BY Zenon DEF Price
  <1>. QED  BY <1>1, <1>4, <1>5, <1>6

\* Without bids the price is 0.
LEMMA PriceNone ==
  ASSUME NEW table, NEW a, ~\E b \in BidIds : table[b].auction = a
  PROVE  Price(table, a) = 0
  BY DEF Price

\* The price is 0 or the amount of a highest bid.
LEMMA PriceCases ==
  ASSUME NEW table \in [BidIds -> BidRow], NEW a
  PROVE  \/ Price(table, a) = 0 /\ ~\E b \in BidIds : table[b].auction = a
         \/ \E b \in BidIds : HighestIn(table, a, b) /\ Price(table, a) = table[b].amount
  BY SomeHighest, PriceIs, PriceNone

\* Tables with the same bids of a, flags aside, have the same price.
LEMMA PriceSame ==
  ASSUME NEW table \in [BidIds -> BidRow], NEW other \in [BidIds -> BidRow], NEW a,
         \A b \in BidIds : table[b].auction = a \/ other[b].auction = a =>
            other[b].auction = table[b].auction /\ other[b].amount = table[b].amount
  PROVE  Price(other, a) = Price(table, a)
  <1>1. CASE \E b \in BidIds : HighestIn(table, a, b)
    <2>1. PICK b \in BidIds : HighestIn(table, a, b)
      BY <1>1
    <2>2. HighestIn(other, a, b)
      BY <2>1 DEF HighestIn
    <2>. QED  BY <2>1, <2>2, PriceIs DEF HighestIn
  <1>2. CASE ~\E b \in BidIds : table[b].auction = a
    BY <1>2, PriceNone
  <1>. QED  BY <1>1, <1>2, SomeHighest

-----------------------------------------------------------------------------
(***************************************************************************)
(* The abstract state of one auction, now and after the step.              *)
(***************************************************************************)
\* absPhase and absBest, by their definitions.
LEMMA AbstractNow ==
  ASSUME NEW a \in AuctionIds
  PROVE  /\ absPhase[a] = IF a > auctionSeq THEN "none"
                          ELSE IF a \in unsynced \/ ~Exists(a) THEN "void"
                          ELSE auction[a].status
         /\ absPhase[a] = "OPEN" => absBest[a] = Price(bid, a)
         /\ absPhase[a] = "CLOSED" => absBest[a] = Amount(auction[a].winner)
         /\ absPhase[a] \notin {"OPEN", "CLOSED"} => absBest[a] = 0
  <1>1. absPhase[a] = IF a > auctionSeq THEN "none"
                      ELSE IF a \in unsynced \/ ~Exists(a) THEN "void"
                      ELSE auction[a].status
    BY DEF absPhase
  <1>2. absBest[a] = CASE absPhase[a] = "OPEN" /\ BidsOf(a) # {} ->
                             Amount(CHOOSE b \in BidsOf(a) : IsHighest(b, a))
                       [] absPhase[a] = "CLOSED" -> Amount(auction[a].winner)
                       [] OTHER -> 0
    BY DEF absBest
  <1>3. Price(bid, a) = IF BidsOf(a) = {} THEN 0
                        ELSE Amount(CHOOSE b \in BidsOf(a) : IsHighest(b, a))
    BY Zenon DEF Price, BidsOf, IsHighest, Amount
  <1> HIDE DEF absPhase, absBest
  <1>. QED  BY <1>1, <1>2, <1>3

\* The same after a step.
LEMMA AbstractThen ==
  ASSUME NEW a \in AuctionIds
  PROVE  /\ absPhase'[a] = IF a > auctionSeq' THEN "none"
                           ELSE IF a \in unsynced' \/ ~Exists(a)' THEN "void"
                           ELSE auction'[a].status
         /\ absPhase'[a] = "OPEN" => absBest'[a] = Price(bid', a)
         /\ absPhase'[a] = "CLOSED" => absBest'[a] = Amount(auction[a].winner)'
         /\ absPhase'[a] \notin {"OPEN", "CLOSED"} => absBest'[a] = 0
  <1>1. absPhase'[a] = IF a > auctionSeq' THEN "none"
                       ELSE IF a \in unsynced' \/ ~Exists(a)' THEN "void"
                       ELSE auction'[a].status
    BY DEF absPhase
  <1>2. absBest'[a] = CASE absPhase'[a] = "OPEN" /\ BidsOf(a)' # {} ->
                              Amount(CHOOSE b \in BidsOf(a) : IsHighest(b, a))'
                        [] absPhase'[a] = "CLOSED" -> Amount(auction[a].winner)'
                        [] OTHER -> 0
    BY DEF absBest
  <1>3. Price(bid', a) = IF BidsOf(a)' = {} THEN 0
                         ELSE Amount(CHOOSE b \in BidsOf(a) : IsHighest(b, a))'
    BY Zenon DEF Price, BidsOf, IsHighest, Amount
  <1>. QED  BY <1>1, <1>2, <1>3

-----------------------------------------------------------------------------
(***************************************************************************)
(* A step leaves most auctions alone and moves one of them.                *)
(***************************************************************************)
\* The step leaves the status, the winner and the bids of a, flags aside.
Kept(a) ==
    /\ auction'[a].status = auction[a].status /\ auction'[a].winner = auction[a].winner
    /\ \A b \in BidIds : bid[b].auction = a \/ bid'[b].auction = a =>
          bid'[b].auction = bid[b].auction /\ bid'[b].amount = bid[b].amount
    /\ a \in unsynced' <=> a \in unsynced
    /\ a > auctionSeq' <=> a > auctionSeq

\* An auction the step leaves alone keeps its abstract state.
LEMMA KeptSame ==
  ASSUME Typed, Typed', NEW a \in AuctionIds, Kept(a)
  PROVE  absPhase'[a] = absPhase[a] /\ absBest'[a] = absBest[a]
  <1>1. absPhase'[a] = absPhase[a]
    BY AbstractNow, AbstractThen DEF Kept, Exists
  <1>2. Price(bid', a) = Price(bid, a)
    BY PriceSame DEF Kept, Typed, TypeOK
  <1>3. Amount(auction[a].winner)' = Amount(auction[a].winner)
    <2>1. CASE auction[a].winner = NoBid
      BY <2>1 DEF Kept, Amount
    <2>2. CASE auction[a].winner # NoBid
      <3>1. auction[a].winner \in BidsOf(a)
        BY <2>2 DEF Typed, TypeOK
      <3>. QED  BY <2>2, <3>1 DEF Kept, Amount, BidsOf
    <2>. QED  BY <2>1, <2>2
  <1>. QED  BY <1>1, <1>2, <1>3, AbstractNow, AbstractThen

\* What AscendingAuction lets happen to one auction.
Moves(a) ==
    \/ absPhase[a] = "none" /\ absPhase'[a] = "OPEN" /\ absBest'[a] = absBest[a]
    \/ /\ absPhase[a] = "OPEN" /\ absPhase'[a] = "OPEN"
       /\ absBest'[a] \in Amounts /\ absBest'[a] > absBest[a]
    \/ /\ absPhase[a] = "OPEN" /\ absPhase'[a] = "OPEN"
       /\ absBest'[a] \in Amounts \cup {0} /\ absBest'[a] < absBest[a]
    \/ absPhase[a] = "OPEN" /\ absPhase'[a] = "CLOSED" /\ absBest'[a] = absBest[a]
    \/ absPhase[a] = "OPEN" /\ absPhase'[a] = "CANCELLED" /\ absBest'[a] = 0
    \/ absPhase[a] # "none" /\ absPhase'[a] = "void" /\ absBest'[a] = 0
    \/ absPhase'[a] = absPhase[a] /\ absBest'[a] = absBest[a]

AbstractVars == <<absPhase, absBest>>

\* The abstract variables are functions, now and after a step.
LEMMA AbstractFunctions ==
  /\ absPhase = [a \in AuctionIds |-> absPhase[a]] /\ absPhase' = [a \in AuctionIds |-> absPhase'[a]]
  /\ absBest = [a \in AuctionIds |-> absBest[a]] /\ absBest' = [a \in AuctionIds |-> absBest'[a]]
  BY DEF absPhase, absBest

\* A step that moves one auction and keeps the others is a step of AscendingAuction.
LEMMA AbstractStep ==
  ASSUME Typed, Typed', NEW a \in AuctionIds, Moves(a),
         \A c \in AuctionIds : c # a => Kept(c)
  PROVE  [Abstract!Next]_AbstractVars
  <1>1. \A c \in AuctionIds : c # a => absPhase'[c] = absPhase[c] /\ absBest'[c] = absBest[c]
    BY KeptSame
  <1>2. CASE absPhase[a] = "none" /\ absPhase'[a] = "OPEN" /\ absBest'[a] = absBest[a]
    <2>1. absPhase' = [absPhase EXCEPT ![a] = "OPEN"] /\ absBest' = absBest
      BY <1>1, <1>2, AbstractFunctions
    <2>. QED  BY <1>2, <2>1 DEF Abstract!Next, Abstract!OpenAuction
  <1>3. CASE /\ absPhase[a] = "OPEN" /\ absPhase'[a] = "OPEN"
             /\ absBest'[a] \in Amounts /\ absBest'[a] > absBest[a]
    <2>1. absPhase' = absPhase /\ absBest' = [absBest EXCEPT ![a] = absBest'[a]]
      BY <1>1, <1>3, AbstractFunctions
    <2>. QED  BY <1>3, <2>1 DEF Abstract!Next, Abstract!Raise
  <1>4. CASE /\ absPhase[a] = "OPEN" /\ absPhase'[a] = "OPEN"
             /\ absBest'[a] \in Amounts \cup {0} /\ absBest'[a] < absBest[a]
    <2>1. absPhase' = absPhase /\ absBest' = [absBest EXCEPT ![a] = absBest'[a]]
      BY <1>1, <1>4, AbstractFunctions
    <2>. QED  BY <1>4, <2>1 DEF Abstract!Next, Abstract!Withdraw
  <1>5. CASE absPhase[a] = "OPEN" /\ absPhase'[a] = "CLOSED" /\ absBest'[a] = absBest[a]
    <2>1. absPhase' = [absPhase EXCEPT ![a] = "CLOSED"] /\ absBest' = absBest
      BY <1>1, <1>5, AbstractFunctions
    <2>. QED  BY <1>5, <2>1 DEF Abstract!Next, Abstract!CloseAuction
  <1>6. CASE absPhase[a] = "OPEN" /\ absPhase'[a] = "CANCELLED" /\ absBest'[a] = 0
    <2>1. /\ absPhase' = [absPhase EXCEPT ![a] = "CANCELLED"]
          /\ absBest' = [absBest EXCEPT ![a] = 0]
      BY <1>1, <1>6, AbstractFunctions
    <2>. QED  BY <1>6, <2>1 DEF Abstract!Next, Abstract!CancelAuction
  <1>7. CASE absPhase[a] # "none" /\ absPhase'[a] = "void" /\ absBest'[a] = 0
    <2>1. absPhase' = [c \in AuctionIds |-> IF c \in {a} THEN "void" ELSE absPhase[c]]
      BY <1>1, <1>7, AbstractFunctions
    <2>2. absBest' = [c \in AuctionIds |-> IF c \in {a} THEN 0 ELSE absBest[c]]
      BY <1>1, <1>7, AbstractFunctions
    <2>3. Abstract!Forget({a})
      BY <1>7, <2>1, <2>2 DEF Abstract!Forget
    <2>. QED  BY <2>3 DEF Abstract!Next
  <1>8. CASE absPhase'[a] = absPhase[a] /\ absBest'[a] = absBest[a]
    BY <1>1, <1>8, AbstractFunctions DEF AbstractVars
  <1>. QED  BY <1>2, <1>3, <1>4, <1>5, <1>6, <1>7, <1>8 DEF Moves

\* A step that keeps every auction is a stutter of AscendingAuction.
LEMMA AbstractStutter ==
  ASSUME Typed, Typed', \A c \in AuctionIds : Kept(c)
  PROVE  [Abstract!Next]_AbstractVars
  BY KeptSame, AbstractFunctions DEF AbstractVars

-----------------------------------------------------------------------------
(***************************************************************************)
(* What the refinement needs of the tables beyond Typed and RemovalSafe.   *)
(***************************************************************************)
\* Bids carry amounts that were offered, and only auctions that exist or existed
\* lose their history.
History ==
    /\ \A b \in BidIds : Live(b) => bid[b].amount \in Amounts
    /\ \A a \in unsynced : a <= auctionSeq

LEMMA HistoryInit == Init => History
  BY StoreAssumption DEF Init, History, Live, AbsentBid, NoAuction

\* Statements that leave auctions and amounts alone keep History.
LEMMA HistorySame ==
  ASSUME Typed, History, auctionSeq' \in Nat, auctionSeq <= auctionSeq',
         \A b \in BidIds : bid'[b].auction = bid[b].auction /\ bid'[b].amount = bid[b].amount,
         \A a \in unsynced' \ unsynced : a \in AuctionIds /\ Exists(a)
  PROVE  History'
  <1>1. \A b \in BidIds : Live(b)' <=> Live(b)
    BY DEF Live
  <1>2. \A a \in unsynced' : a <= auctionSeq /\ a \in AuctionIds
    BY DEF Typed, TypeOK, SeqOK, History
  <1>3. \A a \in unsynced' : a <= auctionSeq'
    BY <1>2 DEF AuctionIds, Typed, TypeOK
  <1>. QED  BY <1>1, <1>3 DEF History

\* The steps of one auction keep History.
LEMMA HistoryAuction ==
  ASSUME Typed, Typed', History, NEW a \in AuctionIds,
         (\E amount \in Amounts : PlaceBid(a, amount)) \/ CloseAuction(a) \/ CancelAuction(a)
  PROVE  History'
  <1>1. Exists(a) /\ auctionSeq' = auctionSeq /\ auctionSeq \in Nat
    BY DEF PlaceBid, CloseAuction, CancelAuction, Open, Exists, Typed, TypeOK
  <1>2. unsynced' \subseteq unsynced \cup {a}
    BY DEF PlaceBid, CloseAuction, CancelAuction, Disturbed
  <1>3. CASE CloseAuction(a) \/ CancelAuction(a)
    <2>1. UNCHANGED bid
      BY <1>3 DEF CloseAuction, CancelAuction
    <2>. QED  BY <1>1, <1>2, <2>1, HistorySame
  <1>4. CASE \E amount \in Amounts : PlaceBid(a, amount)
    <2>1. PICK amount \in Amounts : PlaceBid(a, amount)
      BY <1>4
    <2>2. \A b \in BidIds : Live(b)' => bid'[b].amount \in Amounts
      BY <2>1, BidWrites DEF Live, History
    <2>3. \A x \in unsynced' : x <= auctionSeq'
      BY <1>1, <1>2 DEF History, Typed, SeqOK
    <2>. QED  BY <2>2, <2>3 DEF History
  <1>. QED  BY <1>3, <1>4

\* The statements of the panel keep History.
LEMMA HistoryCalls ==
  ASSUME Typed, Typed', History, NEW p \in Procs,
         StartStep(p) \/ EditStep(p) \/ RemoveStep(p) \/ ClearStep(p)
  PROVE  History'
  <1>0. auctionSeq \in Nat  BY DEF Typed, TypeOK
  <1>1. CASE StartStep(p)
    <2>1. UNCHANGED <<bid, unsynced>> /\ auctionSeq' \in {auctionSeq, auctionSeq + 1}
      BY <1>1 DEF StartStep, StartCheck, StartCreate, StartListed, MarkItemOnAuction,
                  InsertAuction, rows
    <2>. QED  BY <1>0, <2>1, HistorySame
  <1>2. CASE EditStep(p) /\ ~UpdateBidWrite(p)
    <2>1. UNCHANGED <<bid, unsynced, auctionSeq>>
      BY <1>2 DEF EditStep, UpdateAuctionRead, ScheduleEndRead, UpdateAuctionWrite,
                  ScheduleEndWrite, UpdateBidRead, Begin, rows
    <2>. QED  BY <1>0, <2>1, HistorySame
  <1>3. CASE UpdateBidWrite(p)
    <2>1. CASE ~Live(call[p].bid)
      <3>1. UNCHANGED <<bid, unsynced, auctionSeq>>
        BY <1>3, <2>1 DEF UpdateBidWrite
      <3>. QED  BY <1>0, <3>1, HistorySame
    <2>2. CASE Live(call[p].bid)
      <3>1. PICK amount \in Amounts : bid' = [bid EXCEPT ![call[p].bid].amount = amount]
        BY <1>3, <2>2 DEF UpdateBidWrite
      <3>2. unsynced' = unsynced \cup {call[p].auction} /\ auctionSeq' = auctionSeq
        BY <1>3, <2>2 DEF UpdateBidWrite
      <3>3. \A b \in BidIds : /\ bid'[b].auction = bid[b].auction
                              /\ b # call[p].bid => bid'[b] = bid[b]
        BY <3>1 DEF Typed, TypeOK, BidRow
      <3>4. bid'[call[p].bid].amount = amount
        BY <2>2, <3>1 DEF Typed, TypeOK, BidRow, Live
      <3>5. \A b \in BidIds : Live(b)' => bid'[b].amount \in Amounts
        BY <3>3, <3>4 DEF History, Live
      <3>6. \A a \in unsynced' : a <= auctionSeq'
        BY <3>2 DEF History, Typed, CallOK
      <3>. QED  BY <3>5, <3>6 DEF History
    <2>. QED  BY <2>1, <2>2
  <1>4. CASE DeleteBid(p)
    <2>1. CASE ~Live(call[p].bid)
      <3>1. UNCHANGED <<bid, unsynced, auctionSeq>>
        BY <1>4, <2>1 DEF DeleteBid
      <3>. QED  BY <1>0, <3>1, HistorySame
    <2>2. CASE Live(call[p].bid)
      <3>1. bid' = [bid EXCEPT ![call[p].bid] = AbsentBid]
        BY <1>4, <2>2, DeleteWrites
      <3>2. unsynced' \subseteq unsynced \cup {call[p].auction} /\ auctionSeq' = auctionSeq
        BY <1>4, <2>2 DEF DeleteBid, Disturbed
      <3>3. \A b \in BidIds : bid'[b] \in {bid[b], AbsentBid}
        BY <3>1 DEF Typed, TypeOK
      <3>4. \A b \in BidIds : Live(b)' => bid'[b].amount \in Amounts
        BY <3>3 DEF History, Live, AbsentBid
      <3>5. \A a \in unsynced' : a <= auctionSeq'
        BY <3>2 DEF History, Typed, CallOK
      <3>. QED  BY <3>4, <3>5 DEF History
    <2>. QED  BY <2>1, <2>2
  <1>5. CASE ResetLeaders(p)
    <2>1. \A b \in BidIds : bid'[b].auction = bid[b].auction /\ bid'[b].amount = bid[b].amount
      BY <1>5, ResetWrites
    <2>2. UNCHANGED <<auctionSeq, unsynced>>  BY <1>5 DEF ResetLeaders
    <2>. QED  BY <1>0, <2>1, <2>2, HistorySame
  <1>6. CASE FindNextLeader(p) \/ SettleWinner(p) \/ \E b \in BidIds : RemoveBidRead(p, b)
    <2>1. UNCHANGED <<bid, unsynced, auctionSeq>>
      BY <1>6 DEF FindNextLeader, SettleWinner, RemoveBidRead, Begin, rows
    <2>. QED  BY <1>0, <2>1, HistorySame
  <1>7. CASE MarkLeader(p)
    <2>1. \A b \in BidIds : bid'[b].auction = bid[b].auction /\ bid'[b].amount = bid[b].amount
      BY <1>7, MarkWrites DEF MarkLeader
    <2>2. UNCHANGED <<auctionSeq, unsynced>>  BY <1>7 DEF MarkLeader
    <2>. QED  BY <1>0, <2>1, <2>2, HistorySame
  <1>8. CASE ClearHistory(p)
    <2>1. \A b \in BidIds : bid'[b] = AbsentBid
      BY <1>8 DEF ClearHistory
    <2>2. UNCHANGED <<auctionSeq, unsynced>>  BY <1>8 DEF ClearHistory
    <2>. QED  BY <2>1, <2>2 DEF History, Live, AbsentBid
  <1>9. CASE ClearItems(p)
    <2>1. UNCHANGED <<bid, unsynced, auctionSeq>>  BY <1>9 DEF ClearItems
    <2>. QED  BY <1>0, <2>1, HistorySame
  <1>. QED  BY <1>1, <1>2, <1>3, <1>4, <1>5, <1>6, <1>7, <1>8, <1>9
            DEF EditStep, RemoveStep, ClearStep

\* Every step keeps History.
LEMMA HistoryNext ==
  ASSUME Typed, Typed', History, [Next]_vars
  PROVE  History'
  <1>0. auctionSeq \in Nat  BY DEF Typed, TypeOK
  <1>1. CASE UNCHANGED vars
    BY <1>0, <1>1, HistorySame DEF vars
  <1>2. CASE \E p \in Procs : StartStep(p) \/ EditStep(p) \/ RemoveStep(p) \/ ClearStep(p)
    BY <1>2, HistoryCalls
  <1>3. CASE \E a \in AuctionIds : (\E amount \in Amounts : Bid(a, amount)) \/ Close(a) \/ Cancel(a)
    BY <1>3, HistoryAuction DEF Bid, Close, Cancel
  <1>4. CASE \E a \in AuctionIds : SweepClose(a)
    <2>1. PICK a \in AuctionIds : SweepClose(a)  BY <1>4
    <2>2. CASE CloseAuction(a)
      BY <2>2, HistoryAuction
    <2>3. CASE UNCHANGED rows
      BY <1>0, <2>3, HistorySame DEF rows
    <2>. QED  BY <2>1, <2>2, <2>3 DEF SweepClose
  <1>5. CASE ReadExpired \/ Tick
    BY <1>0, <1>5, HistorySame DEF ReadExpired, Tick, rows
  <1>6. CASE Crash
    <2>1. UNCHANGED <<bid, auctionSeq>> /\ unsynced' = unsynced \cup {a \in AuctionIds : Removing(a)}
      BY <1>6 DEF Crash
    <2>2. \A a \in AuctionIds : Removing(a) => a <= auctionSeq
      BY DEF Removing, Typed, CallOK
    <2>. QED  BY <2>1, <2>2 DEF History, Live
  <1>. QED  BY <1>1, <1>2, <1>3, <1>4, <1>5, <1>6 DEF Next

-----------------------------------------------------------------------------
(***************************************************************************)
(* Every step of the tables is a step of AscendingAuction or a stutter.    *)
(***************************************************************************)
\* A step after which a's history is void forgets it, or finds it forgotten.
LEMMA MovesVoid ==
  ASSUME Typed, NEW a \in AuctionIds, a <= auctionSeq, auctionSeq' = auctionSeq,
         a \in unsynced'
  PROVE  Moves(a)
  <1>1. ~(a > auctionSeq)  BY DEF Typed, TypeOK, AuctionIds
  <1>2. absPhase[a] # "none"
    BY <1>1, AbstractNow DEF Typed, TypeOK, AuctionRow, AuctionStatus
  <1>3. absPhase'[a] = "void" /\ absBest'[a] = 0
    BY <1>1, AbstractThen
  <1>. QED  BY <1>2, <1>3 DEF Moves

\* An open auction with its history intact is open for AscendingAuction.
LEMMA OpenNow ==
  ASSUME Typed, NEW a \in AuctionIds, Open(a), a \notin unsynced
  PROVE  absPhase[a] = "OPEN" /\ absBest[a] = Price(bid, a)
  <1>1. Exists(a) /\ a <= auctionSeq  BY DEF Open, Exists, Typed, SeqOK
  <1>2. ~(a > auctionSeq)  BY <1>1 DEF Typed, TypeOK, AuctionIds
  <1>. QED  BY <1>1, <1>2, AbstractNow DEF Open

\* A write to one row that keeps its status and its winner is a stutter.
LEMMA KeptRow ==
  ASSUME Typed, NEW a \in AuctionIds, NEW r \in AuctionRow,
         auction' = [auction EXCEPT ![a] = r],
         r.status = auction[a].status, r.winner = auction[a].winner,
         UNCHANGED <<auctionSeq, bid, unsynced>>
  PROVE  \A c \in AuctionIds : Kept(c)
  BY RowWrite DEF Kept, Typed, TypeOK

\* A write to the row of a keeps the other auctions.
LEMMA KeptOthers ==
  ASSUME Typed, NEW a \in AuctionIds, NEW r \in AuctionRow,
         auction' = [auction EXCEPT ![a] = r],
         \A b \in BidIds : bid[b].auction # a \/ bid'[b].auction # a => bid'[b] = bid[b],
         auctionSeq' = auctionSeq, unsynced' \in {unsynced, unsynced \cup {a}}
  PROVE  \A c \in AuctionIds : c # a => Kept(c)
  BY RowWrite DEF Kept, Typed, TypeOK

\* A start opens the auction of the next id.
LEMMA AbstractInsert ==
  ASSUME Typed, Typed', History, NEW g \in Groups \cup {NoGroup}, NEW i \in Items \cup {NoItem},
         NEW e \in Events \cup {NoEvent}, NEW initial \in InitialValues,
         NEW dur \in Durations, NEW step \in Steps, NEW at \in Nat,
         InsertAuction(g, i, e, initial, dur, step, at)
  PROVE  [Abstract!Next]_AbstractVars
  <1>1. PICK a \in AuctionIds : a = auctionSeq' /\ auctionSeq' = auctionSeq + 1
    BY InsertWrites
  <1>2. PICK r \in AuctionRow : auction' = [auction EXCEPT ![a] = r] /\ r.status = "OPEN"
    BY <1>1, InsertWrites
  <1>3. UNCHANGED <<bid, unsynced>>  BY DEF InsertAuction
  <1>4. /\ auction'[a] = r
        /\ \A x \in AuctionIds : x # a => auction'[x] = auction[x]
    BY <1>2, RowWrite DEF Typed, TypeOK
  <1>5. auctionSeq \in Nat /\ a \in Nat /\ AuctionIds \subseteq Nat
    BY <1>1 DEF Typed, TypeOK, AuctionIds
  <1>6. absPhase[a] = "none" /\ absBest[a] = 0
    BY <1>1, <1>5, AbstractNow
  <1>7. a \notin unsynced'
    BY <1>1, <1>3, <1>5 DEF History, Typed, TypeOK
  <1>8. absPhase'[a] = "OPEN" /\ absBest'[a] = Price(bid', a)
    <2>1. ~(a > auctionSeq')  BY <1>1, <1>5
    <2>. QED  BY <1>2, <1>4, <1>7, <2>1, AbstractThen DEF Exists
  <1>9. ~\E b \in BidIds : bid'[b].auction = a
    <2>1. ~Exists(a)  BY <1>1, <1>5 DEF Typed, SeqOK
    <2>2. a # NoAuction  BY DEF AuctionIds, NoAuction
    <2>. QED  BY <1>3, <2>1, <2>2 DEF Typed, TypeOK, Live
  <1>10. Moves(a)
    BY <1>6, <1>8, <1>9, PriceNone DEF Moves
  <1>11. \A c \in AuctionIds : c # a => Kept(c)
    BY <1>1, <1>3, <1>4, <1>5 DEF Kept
  <1>. QED  BY <1>10, <1>11, AbstractStep

\* placeBid raises the best bid, or voids an auction whose removal it overlaps.
LEMMA AbstractBid ==
  ASSUME Typed, Typed', NEW a \in AuctionIds, NEW amount \in Amounts, PlaceBid(a, amount)
  PROVE  [Abstract!Next]_AbstractVars
  <1>1. PICK r \in AuctionRow :
          auction' = [auction EXCEPT ![a] = r] /\ r.status = auction[a].status
    BY BidAuction
  <1>2. auction'[a].status = "OPEN"
    BY <1>1, RowWrite DEF PlaceBid, Open, Typed, TypeOK
  <1>3. auctionSeq' = auctionSeq /\ unsynced' \in {unsynced, unsynced \cup {a}} /\ Open(a)
    BY DEF PlaceBid, Disturbed
  <1>4. bidSeq' \in BidIds /\ bid'[bidSeq'].auction = a /\ bid'[bidSeq'].amount = amount
    BY BidWrites
  <1>5. ~Live(bidSeq')
    BY BidWrites DEF Typed, TypeOK
  <1>6. bid[bidSeq'].auction = NoAuction
    BY <1>4, <1>5 DEF Live
  <1>7. a \in Nat /\ a # NoAuction /\ a <= auctionSeq
    BY <1>3 DEF AuctionIds, NoAuction, Open, Exists, Typed, SeqOK
  <1>8. \A c \in AuctionIds : c # a => Kept(c)
    <2>1. \A b \in BidIds : b # bidSeq' =>
            bid'[b].auction = bid[b].auction /\ bid'[b].amount = bid[b].amount
      BY BidWrites
    <2>2. \A c \in AuctionIds : c # NoAuction  BY DEF AuctionIds, NoAuction
    <2>3. \A x \in AuctionIds : x # a => auction'[x] = auction[x]
      BY <1>1, RowWrite DEF Typed, TypeOK
    <2>. QED  BY <1>3, <1>4, <1>6, <2>1, <2>2, <2>3 DEF Kept
  <1>9. Moves(a)
    <2>1. CASE a \in unsynced'
      BY <1>3, <1>7, <2>1, MovesVoid
    <2>2. CASE a \notin unsynced'
      <3>1. absPhase[a] = "OPEN" /\ absBest[a] = Price(bid, a)
        BY <1>3, <2>2, OpenNow
      <3>2. ~(a > auctionSeq')
        BY <1>3, <1>7 DEF Typed, TypeOK
      <3>3. absPhase'[a] = "OPEN" /\ absBest'[a] = Price(bid', a)
        BY <1>2, <2>2, <3>2, AbstractThen DEF Exists
      <3>4. amount \in Nat /\ amount > 0  BY StoreAssumption
      <3>5. \A b \in BidIds : bid[b].auction = a => bid[b].amount < amount
        <4>1. \A b \in BidsOf(a) : IF auction[a].step > 0
                                   THEN amount >= bid[b].amount + auction[a].step
                                   ELSE amount > bid[b].amount
          BY DEF PlaceBid, AcceptsBid
        <4>2. auction[a].step \in Nat  BY DEF Typed, TypeOK, AuctionRow
        <4>3. \A b \in BidIds : bid[b].amount \in Nat  BY DEF Typed, TypeOK, BidRow
        <4>. QED  BY <3>4, <4>1, <4>2, <4>3 DEF BidsOf
      <3>6. HighestIn(bid', a, bidSeq')
        <4>1. \A b \in BidIds : b # bidSeq' =>
                bid'[b].auction = bid[b].auction /\ bid'[b].amount = bid[b].amount
          BY BidWrites
        <4>2. \A b \in BidIds : bid[b].amount \in Nat  BY DEF Typed, TypeOK, BidRow
        <4>. QED  BY <1>4, <3>4, <3>5, <4>1, <4>2 DEF HighestIn
      <3>7. Price(bid', a) = amount
        BY <1>4, <3>6, PriceIs DEF Typed, TypeOK
      <3>8. Price(bid, a) < amount
        <4>1. bid \in [BidIds -> BidRow]  BY DEF Typed, TypeOK
        <4>2. CASE Price(bid, a) = 0
          BY <3>4, <4>2
        <4>3. CASE \E b \in BidIds : HighestIn(bid, a, b) /\ Price(bid, a) = bid[b].amount
          BY <3>5, <4>3 DEF HighestIn
        <4>. QED  BY <4>1, <4>2, <4>3, PriceCases
      <3>. QED  BY <3>1, <3>3, <3>4, <3>7, <3>8 DEF Moves
    <2>. QED  BY <2>1, <2>2
  <1>. QED  BY <1>8, <1>9, AbstractStep

\* closeAuction closes with the best bid as the winning one, or voids an auction
\* whose removal it overlaps.
LEMMA AbstractClose ==
  ASSUME Typed, Typed', RemovalSafe, NEW a \in AuctionIds, CloseAuction(a)
  PROVE  [Abstract!Next]_AbstractVars
  <1>1. PICK r \in AuctionRow : /\ auction' = [auction EXCEPT ![a] = r]
                                /\ r.status = "CLOSED" /\ r.winner \in WinnerChoices(a)
    BY CloseWrites
  <1>2. auction'[a] = r
    BY <1>1, RowWrite DEF Typed, TypeOK
  <1>3. /\ UNCHANGED <<bid, auctionSeq>> /\ Open(a)
        /\ unsynced' = IF Removing(a) THEN unsynced \cup {a} ELSE unsynced
    BY DEF CloseAuction, Disturbed
  <1>4. \A c \in AuctionIds : c # a => Kept(c)
    BY <1>1, <1>3, KeptOthers
  <1>5. a \in Nat /\ a <= auctionSeq
    BY <1>3 DEF AuctionIds, Open, Exists, Typed, SeqOK
  <1>6. Moves(a)
    <2>1. CASE a \in unsynced'
      BY <1>3, <1>5, <2>1, MovesVoid
    <2>2. CASE a \notin unsynced'
      <3>1. absPhase[a] = "OPEN" /\ absBest[a] = Price(bid, a)
        BY <1>3, <2>2, OpenNow
      <3>2. ~(a > auctionSeq')
        BY <1>3, <1>5 DEF Typed, TypeOK
      <3>3. absPhase'[a] = "CLOSED" /\ absBest'[a] = Amount(auction[a].winner)'
        BY <1>1, <1>2, <2>2, <3>2, AbstractThen DEF Exists
      <3>4. Led(a)
        BY <1>3, <2>2 DEF RemovalSafe, AuctionSafe
      <3>5. CASE BidsOf(a) = {}
        <4>1. r.winner = NoBid
          BY <1>1, <3>5 DEF WinnerChoices, LeadersOf
        <4>2. Price(bid, a) = 0
          BY <3>5, PriceNone DEF BidsOf
        <4>. QED  BY <1>2, <3>1, <3>3, <4>1, <4>2 DEF Moves, Amount
      <3>6. CASE BidsOf(a) # {}
        <4>1. PICK b \in BidsOf(a) : Leads(b, a)
          BY <3>4, <3>6 DEF Led
        <4>2. r.winner = b
          BY <1>1, <4>1 DEF WinnerChoices, Leads
        <4>3. b \in BidIds /\ HighestIn(bid, a, b)
          BY <4>1 DEF Leads, IsHighest, BidsOf, HighestIn
        <4>4. Price(bid, a) = bid[b].amount
          BY <4>3, PriceIs DEF Typed, TypeOK
        <4>5. b # NoBid
          BY <4>3 DEF BidIds, NoBid
        <4>. QED  BY <1>2, <1>3, <3>1, <3>3, <4>2, <4>4, <4>5 DEF Moves, Amount
      <3>. QED  BY <3>5, <3>6
    <2>. QED  BY <2>1, <2>2
  <1>. QED  BY <1>4, <1>6, AbstractStep

\* cancelAuction cancels.
LEMMA AbstractCancel ==
  ASSUME Typed, Typed', NEW a \in AuctionIds, CancelAuction(a)
  PROVE  [Abstract!Next]_AbstractVars
  <1>1. PICK r \in AuctionRow :
          auction' = [auction EXCEPT ![a] = r] /\ r.status = "CANCELLED"
    BY CancelWrites
  <1>2. auction'[a] = r
    BY <1>1, RowWrite DEF Typed, TypeOK
  <1>3. UNCHANGED <<bid, auctionSeq, unsynced>> /\ Open(a)
    BY DEF CancelAuction
  <1>4. \A c \in AuctionIds : c # a => Kept(c)
    BY <1>1, <1>3, KeptOthers
  <1>5. a \in Nat /\ a <= auctionSeq
    BY <1>3 DEF AuctionIds, Open, Exists, Typed, SeqOK
  <1>6. CASE a \in unsynced'
    BY <1>3, <1>4, <1>5, <1>6, MovesVoid, AbstractStep
  <1>7. CASE a \notin unsynced'
    <2>1. absPhase[a] = "OPEN"
      BY <1>3, <1>7, OpenNow
    <2>2. ~(a > auctionSeq')
      BY <1>3, <1>5 DEF Typed, TypeOK
    <2>3. absPhase'[a] = "CANCELLED" /\ absBest'[a] = 0
      BY <1>1, <1>2, <1>7, <2>2, AbstractThen DEF Exists
    <2>. QED  BY <1>4, <2>1, <2>3, AbstractStep DEF Moves
  <1>. QED  BY <1>6, <1>7

\* The statements of the panel's starts.
LEMMA AbstractStart ==
  ASSUME Typed, Typed', History, NEW p \in Procs, StartStep(p)
  PROVE  [Abstract!Next]_AbstractVars
  <1>1. CASE \E g \in Groups, i \in Items \cup {NoItem}, e \in Events \cup {NoEvent} :
              StartCheck(p, g, i, e)
    BY <1>1, AbstractStutter DEF StartCheck, rows, Kept
  <1>2. CASE StartCreate(p)
    <2>1. PICK initial \in InitialValues, step \in Steps, dur \in Durations \ {0} :
            InsertAuction(call[p].group, call[p].item, call[p].event, initial, dur, step,
                          call[p].at)
      BY <1>2 DEF StartCreate
    <2>2. /\ call[p].item \in Items \cup {NoItem} /\ call[p].group \in Groups \cup {NoGroup}
          /\ call[p].event \in Events \cup {NoEvent} /\ call[p].at \in Nat
      BY DEF Typed, TypeOK, Call
    <2>. QED  BY <2>1, <2>2, AbstractInsert
  <1>3. CASE StartListed(p)
    <2>1. PICK g \in Groups, i \in Items, e \in Events, initial \in InitialValues,
               step \in Steps, dur \in Durations :
            InsertAuction(g, i, e, initial, dur, step, now)
      BY <1>3 DEF StartListed
    <2>2. now \in Nat  BY DEF Typed, TypeOK
    <2>. QED  BY <2>1, <2>2, AbstractInsert
  <1>4. CASE MarkItemOnAuction(p)
    BY <1>4, AbstractStutter DEF MarkItemOnAuction, Kept
  <1>. QED  BY <1>1, <1>2, <1>3, <1>4 DEF StartStep

\* The statements of the panel's edits: only an amount rewritten in place shows, and
\* it voids the auction.
LEMMA AbstractEdit ==
  ASSUME Typed, Typed', NEW p \in Procs, EditStep(p)
  PROVE  [Abstract!Next]_AbstractVars
  <1>1. CASE \/ \E a \in AuctionIds : UpdateAuctionRead(p, a) \/ ScheduleEndRead(p, a)
             \/ \E b \in BidIds : UpdateBidRead(p, b)
    <2>1. UNCHANGED rows
      BY <1>1 DEF UpdateAuctionRead, ScheduleEndRead, UpdateBidRead, Begin
    <2>. QED  BY <2>1, AbstractStutter DEF rows, Kept
  <1>2. CASE UpdateAuctionWrite(p)
    <2>1. UNCHANGED <<auctionSeq, bid, unsynced>>
      BY <1>2 DEF UpdateAuctionWrite
    <2>2. CASE ~Exists(call[p].auction)
      BY <1>2, <2>1, <2>2, AbstractStutter DEF UpdateAuctionWrite, Kept
    <2>3. CASE Exists(call[p].auction)
      BY <1>2, <2>1, <2>3, UpdateWrites, KeptRow, AbstractStutter
    <2>. QED  BY <2>2, <2>3
  <1>3. CASE ScheduleEndWrite(p)
    <2>1. UNCHANGED <<auctionSeq, bid, unsynced>>
      BY <1>3 DEF ScheduleEndWrite
    <2>2. CASE ~Exists(call[p].auction)
      BY <1>3, <2>1, <2>2, AbstractStutter DEF ScheduleEndWrite, Kept
    <2>3. CASE Exists(call[p].auction)
      BY <1>3, <2>1, <2>3, ScheduleWrites, KeptRow, AbstractStutter
    <2>. QED  BY <2>2, <2>3
  <1>4. CASE UpdateBidWrite(p)
    <2>1. UNCHANGED <<auction, auctionSeq>>
      BY <1>4 DEF UpdateBidWrite
    <2>2. CASE ~Live(call[p].bid)
      BY <1>4, <2>1, <2>2, AbstractStutter DEF UpdateBidWrite, Kept
    <2>3. CASE Live(call[p].bid)
      <3>1. unsynced' = unsynced \cup {call[p].auction}
        BY <1>4, <2>3 DEF UpdateBidWrite
      <3>2. /\ bid[call[p].bid].auction = call[p].auction
            /\ call[p].auction \in AuctionIds /\ call[p].auction <= auctionSeq
        BY <2>3 DEF Typed, TypeOK, CallOK, Live, BidRow
      <3>3. \A b \in BidIds : /\ bid'[b].auction = bid[b].auction
                              /\ b # call[p].bid => bid'[b] = bid[b]
        <4>1. PICK amount \in Amounts : bid' = [bid EXCEPT ![call[p].bid].amount = amount]
          BY <1>4, <2>3 DEF UpdateBidWrite
        <4>. QED  BY <4>1 DEF Typed, TypeOK, BidRow
      <3>4. \A c \in AuctionIds : c # call[p].auction => Kept(c)
        BY <2>1, <3>1, <3>2, <3>3 DEF Kept
      <3>5. Moves(call[p].auction)
        BY <2>1, <3>1, <3>2, MovesVoid
      <3>. QED  BY <3>2, <3>4, <3>5, AbstractStep
    <2>. QED  BY <2>2, <2>3
  <1>. QED  BY <1>1, <1>2, <1>3, <1>4 DEF EditStep

\* Deleting the best bid withdraws it; deleting another one shows nothing.
LEMMA AbstractDelete ==
  ASSUME Typed, Typed', History, NEW p \in Procs, DeleteBid(p), Live(call[p].bid)
  PROVE  [Abstract!Next]_AbstractVars
  <1>1. PICK a \in AuctionIds : a = call[p].auction
    BY DeleteWrites
  <1>2. PICK b \in BidIds : b = call[p].bid /\ bid[b].auction = a
    BY <1>1, DeleteWrites
  <1>3. \A c \in BidIds : bid'[c] = IF c = b THEN AbsentBid ELSE bid[c]
    BY <1>2, DeleteWrites DEF Typed, TypeOK
  <1>4. PICK r \in AuctionRow :
          auction' = [auction EXCEPT ![a] = r] /\ r.status = auction[a].status
    BY <1>1, DeleteWrites
  <1>5. /\ auction'[a] = r
        /\ \A x \in AuctionIds : x # a => auction'[x] = auction[x]
    BY <1>4, RowWrite DEF Typed, TypeOK
  <1>6. /\ unsynced' = IF Open(a) THEN Disturbed(a) ELSE unsynced \cup {a}
        /\ auctionSeq' = auctionSeq
    BY <1>1 DEF DeleteBid
  <1>7. unsynced' \in {unsynced, unsynced \cup {a}}
    BY <1>6 DEF Disturbed
  <1>8. a \in Nat /\ a <= auctionSeq
    BY <1>1 DEF AuctionIds, Typed, CallOK
  <1>9. AbsentBid.auction = NoAuction /\ \A c \in AuctionIds : c # NoAuction
    BY DEF AbsentBid, AuctionIds, NoAuction
  <1>10. \A c \in AuctionIds : c # a => Kept(c)
    BY <1>2, <1>3, <1>5, <1>6, <1>7, <1>9 DEF Kept
  <1>11. CASE a \in unsynced'
    BY <1>6, <1>8, <1>10, <1>11, MovesVoid, AbstractStep
  <1>12. CASE a \notin unsynced'
    <2>1. Open(a) /\ a \notin unsynced
      BY <1>6, <1>7, <1>12
    <2>2. absPhase[a] = "OPEN" /\ absBest[a] = Price(bid, a)
      BY <2>1, OpenNow
    <2>3. ~(a > auctionSeq')
      BY <1>6, <1>8 DEF Typed, TypeOK
    <2>4. absPhase'[a] = "OPEN" /\ absBest'[a] = Price(bid', a)
      BY <1>4, <1>5, <1>12, <2>1, <2>3, AbstractThen DEF Exists, Open
    <2>5. bid \in [BidIds -> BidRow] /\ bid' \in [BidIds -> BidRow]
      BY DEF Typed, TypeOK
    <2>6. \A c \in BidIds : bid[c].auction = a => bid[c].amount \in Amounts
      BY <1>9 DEF History, Live
    <2>7. PICK h \in BidIds : HighestIn(bid, a, h) /\ Price(bid, a) = bid[h].amount
      BY <1>2, <2>5, PriceCases
    <2>8. \A c \in BidIds : bid'[c].auction = a =>
             bid'[c].amount \in Amounts /\ bid'[c].amount <= Price(bid, a)
      BY <1>3, <1>9, <2>6, <2>7 DEF HighestIn
    <2>9. Price(bid, a) \in Nat /\ Price(bid, a) > 0
      BY <2>6, <2>7, StoreAssumption DEF HighestIn
    <2>10. Price(bid', a) \in Amounts \cup {0} /\ Price(bid', a) <= Price(bid, a)
      <3>1. CASE Price(bid', a) = 0
        BY <2>9, <3>1
      <3>2. CASE \E c \in BidIds : HighestIn(bid', a, c) /\ Price(bid', a) = bid'[c].amount
        BY <2>8, <3>2 DEF HighestIn
      <3>. QED  BY <2>5, <3>1, <3>2, PriceCases
    <2>11. Price(bid', a) \in Nat
      <3>1. \A v \in Amounts : v \in Nat  BY StoreAssumption
      <3>. QED  BY <2>10, <3>1
    <2>12. Price(bid', a) = Price(bid, a) \/ Price(bid', a) < Price(bid, a)
      BY <2>9, <2>10, <2>11
    <2>13. Moves(a)
      BY <2>2, <2>4, <2>10, <2>12 DEF Moves
    <2>. QED  BY <1>10, <2>13, AbstractStep
  <1>. QED  BY <1>11, <1>12

\* The winner removeBid writes is not of an auction closed with its history intact.
LEMMA AbstractSettle ==
  ASSUME Typed, Typed', RemovalSafe, NEW p \in Procs, SettleWinner(p)
  PROVE  [Abstract!Next]_AbstractVars
  <1>1. UNCHANGED <<auctionSeq, bid, unsynced>>
    BY DEF SettleWinner
  <1>2. CASE auction' = auction
    BY <1>1, <1>2, AbstractStutter DEF Kept
  <1>3. CASE auction' # auction
    <2>1. PICK a \in AuctionIds : a = call[p].auction /\ Exists(a)
      BY <1>3, SettleWrites
    <2>2. PICK r \in AuctionRow :
            auction' = [auction EXCEPT ![a] = r] /\ r.status = auction[a].status
      BY <1>3, <2>1, SettleWrites
    <2>3. auction'[a] = r
      BY <2>2, RowWrite DEF Typed, TypeOK
    <2>4. \A c \in AuctionIds : c # a => Kept(c)
      BY <1>1, <2>2, KeptOthers
    <2>5. a \in Nat /\ a <= auctionSeq
      BY <2>1 DEF AuctionIds, Typed, SeqOK
    <2>6. CASE a \in unsynced'
      BY <1>1, <2>4, <2>5, <2>6, MovesVoid, AbstractStep
    <2>7. CASE a \notin unsynced'
      <3>1. InWindow(p, a)
        BY <2>1 DEF SettleWinner, InWindow, Window
      <3>2. auction[a].status # "CLOSED"
        BY <1>1, <2>7, <3>1 DEF RemovalSafe, AuctionSafe
      <3>3. ~(a > auctionSeq)  BY <2>5 DEF Typed, TypeOK
      <3>4. absPhase[a] = auction[a].status
        BY <1>1, <2>1, <2>7, <3>3, AbstractNow
      <3>5. absPhase'[a] = auction[a].status
        BY <1>1, <2>1, <2>2, <2>3, <2>7, <3>3, AbstractThen DEF Exists
      <3>6. absBest'[a] = absBest[a]
        BY <1>1, <3>2, <3>4, <3>5, AbstractNow, AbstractThen
      <3>. QED  BY <2>4, <3>4, <3>5, <3>6, AbstractStep DEF Moves
    <2>. QED  BY <2>6, <2>7
  <1>. QED  BY <1>2, <1>3

\* The statements of removeBid.
LEMMA AbstractRemove ==
  ASSUME Typed, Typed', RemovalSafe, History, NEW p \in Procs, RemoveStep(p)
  PROVE  [Abstract!Next]_AbstractVars
  <1>1. CASE \E b \in BidIds : RemoveBidRead(p, b)
    BY <1>1, AbstractStutter DEF RemoveBidRead, Begin, rows, Kept
  <1>2. CASE DeleteBid(p)
    <2>1. CASE ~Live(call[p].bid)
      BY <1>2, <2>1, AbstractStutter DEF DeleteBid, Kept
    <2>. QED  BY <1>2, <2>1, AbstractDelete
  <1>3. CASE ResetLeaders(p)
    <2>1. UNCHANGED <<auction, auctionSeq, unsynced>>
      BY <1>3 DEF ResetLeaders
    <2>. QED  BY <1>3, <2>1, ResetWrites, AbstractStutter DEF Kept
  <1>4. CASE FindNextLeader(p)
    BY <1>4, AbstractStutter DEF FindNextLeader, rows, Kept
  <1>5. CASE MarkLeader(p)
    <2>1. UNCHANGED <<auction, auctionSeq, unsynced>>
      BY <1>5 DEF MarkLeader
    <2>2. CASE Live(call[p].bid)
      BY <1>5, <2>1, <2>2, MarkWrites, AbstractStutter DEF Kept
    <2>3. CASE ~Live(call[p].bid)
      BY <1>5, <2>1, <2>3, AbstractStutter DEF MarkLeader, Kept
    <2>. QED  BY <2>2, <2>3
  <1>6. CASE SettleWinner(p)
    BY <1>6, AbstractSettle
  <1>. QED  BY <1>1, <1>2, <1>3, <1>4, <1>5, <1>6 DEF RemoveStep

\* A step that voids every auction of V and keeps the others forgets V.
LEMMA AbstractForget ==
  ASSUME Typed, Typed', NEW V \in SUBSET AuctionIds,
         \A a \in V : /\ absPhase[a] # "none" /\ absPhase'[a] = "void" /\ absBest'[a] = 0,
         \A c \in AuctionIds \ V : absPhase'[c] = absPhase[c] /\ absBest'[c] = absBest[c]
  PROVE  [Abstract!Next]_AbstractVars
  <1>1. CASE V = {}
    BY <1>1, AbstractFunctions DEF AbstractVars
  <1>2. CASE V # {}
    <2>1. absPhase' = [c \in AuctionIds |-> IF c \in V THEN "void" ELSE absPhase[c]]
      BY AbstractFunctions
    <2>2. absBest' = [c \in AuctionIds |-> IF c \in V THEN 0 ELSE absBest[c]]
      BY AbstractFunctions
    <2>3. Abstract!Forget(V)
      BY <1>2, <2>1, <2>2 DEF Abstract!Forget
    <2>. QED  BY <2>3 DEF Abstract!Next
  <1>. QED  BY <1>1, <1>2

\* clearHistory forgets every auction.
LEMMA AbstractClear ==
  ASSUME Typed, Typed', NEW p \in Procs, ClearStep(p)
  PROVE  [Abstract!Next]_AbstractVars
  <1>1. CASE ClearItems(p)
    BY <1>1, AbstractStutter DEF ClearItems, Kept
  <1>2. CASE ClearHistory(p)
    <2> DEFINE V == {a \in AuctionIds : ~(a > auctionSeq)}
    <2>1. /\ \A a \in AuctionIds : auction'[a].status = "ABSENT"
          /\ UNCHANGED <<auctionSeq, unsynced>>
      BY <1>2 DEF ClearHistory, AbsentAuction
    <2>2. ASSUME NEW a \in V
          PROVE  absPhase[a] # "none" /\ absPhase'[a] = "void" /\ absBest'[a] = 0
      <3>1. absPhase[a] # "none"
        BY AbstractNow DEF Typed, TypeOK, AuctionRow, AuctionStatus
      <3>2. absPhase'[a] = "void"
        BY <2>1, AbstractThen DEF Exists
      <3>. QED  BY <3>1, <3>2, AbstractThen
    <2>3. ASSUME NEW c \in AuctionIds \ V
          PROVE  absPhase'[c] = absPhase[c] /\ absBest'[c] = absBest[c]
      BY <2>1, AbstractNow, AbstractThen
    <2>. QED  BY <2>2, <2>3, AbstractForget
  <1>. QED  BY <1>1, <1>2 DEF ClearStep

\* A restart forgets the auctions with a removal half done.
LEMMA AbstractCrash ==
  ASSUME Typed, Typed', Crash
  PROVE  [Abstract!Next]_AbstractVars
  <1> DEFINE V == {a \in AuctionIds : Removing(a)}
  <1>1. UNCHANGED <<auction, auctionSeq, bid>> /\ unsynced' = unsynced \cup V
    BY DEF Crash
  <1>2. ASSUME NEW a \in V
        PROVE  absPhase[a] # "none" /\ absPhase'[a] = "void" /\ absBest'[a] = 0
    <2>1. a <= auctionSeq
      BY DEF Removing, Typed, CallOK
    <2>2. ~(a > auctionSeq)
      BY <2>1 DEF Typed, TypeOK, AuctionIds
    <2>3. absPhase[a] # "none"
      BY <2>2, AbstractNow DEF Typed, TypeOK, AuctionRow, AuctionStatus
    <2>4. absPhase'[a] = "void"
      BY <1>1, <2>2, AbstractThen
    <2>. QED  BY <2>3, <2>4, AbstractThen
  <1>3. \A c \in AuctionIds \ V : Kept(c)
    BY <1>1 DEF Kept
  <1> HIDE DEF V
  <1>4. V \in SUBSET AuctionIds
    BY DEF V
  <1>. QED  BY <1>2, <1>3, <1>4, KeptSame, AbstractForget

\* Every step.
LEMMA AbstractNext ==
  ASSUME Typed, Typed', RemovalSafe, History, [Next]_vars
  PROVE  [Abstract!Next]_AbstractVars
  <1>1. CASE UNCHANGED vars
    BY <1>1, AbstractStutter DEF vars, Kept
  <1>2. CASE \E p \in Procs : StartStep(p) \/ EditStep(p) \/ RemoveStep(p) \/ ClearStep(p)
    BY <1>2, AbstractStart, AbstractEdit, AbstractRemove, AbstractClear
  <1>3. CASE \E a \in AuctionIds : (\E amount \in Amounts : Bid(a, amount)) \/ Close(a) \/ Cancel(a)
    BY <1>3, AbstractBid, AbstractClose, AbstractCancel DEF Bid, Close, Cancel
  <1>4. CASE \E a \in AuctionIds : SweepClose(a)
    <2>1. PICK a \in AuctionIds : SweepClose(a)
      BY <1>4
    <2>2. CASE UNCHANGED rows
      BY <2>2, AbstractStutter DEF rows, Kept
    <2>. QED  BY <2>1, <2>2, AbstractClose DEF SweepClose
  <1>5. CASE ReadExpired \/ Tick
    BY <1>5, AbstractStutter DEF ReadExpired, Tick, rows, Kept
  <1>6. CASE Crash
    BY <1>6, AbstractCrash
  <1>. QED  BY <1>1, <1>2, <1>3, <1>4, <1>5, <1>6 DEF Next

\* The tables start as AscendingAuction does.
LEMMA AbstractInit == Init => Abstract!Init
  <1> SUFFICES ASSUME Init
               PROVE  Abstract!Init
    OBVIOUS
  <1>1. auctionSeq = 0  BY DEF Init
  <1>2. \A a \in AuctionIds : a > auctionSeq
    BY <1>1 DEF AuctionIds
  <1>3. \A a \in AuctionIds : absPhase[a] = "none" /\ absBest[a] = 0
    BY <1>2, AbstractNow
  <1>. QED  BY <1>3, AbstractFunctions DEF Abstract!Init

\* The tables implement the ascending auction: whatever bids, closings, sweeps,
\* restarts and panel statements interleave, each step of the tables is a step of
\* AscendingAuction or shows nothing of it.
THEOREM Refinement == Spec => RefinesAscendingAuction
  <1>1. Init => Typed /\ RemovalSafe /\ History
    BY TypedInit, SafeInit, HistoryInit
  <1>2. Typed /\ RemovalSafe /\ History /\ [Next]_vars => Typed' /\ RemovalSafe' /\ History'
    BY TypedNext, SafeNext, HistoryNext
  <1>3. Typed /\ Typed' /\ RemovalSafe /\ History /\ [Next]_vars => [Abstract!Next]_AbstractVars
    BY AbstractNext
  <1>4. Init /\ [][Next]_vars => Abstract!Init /\ [][Abstract!Next]_AbstractVars
    BY <1>1, <1>2, <1>3, AbstractInit, PTL
  <1>. QED  BY <1>4 DEF Spec, RefinesAscendingAuction, Abstract!Spec, AbstractVars
=============================================================================
