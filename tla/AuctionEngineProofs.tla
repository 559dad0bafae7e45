------------------------ MODULE AuctionEngineProofs ------------------------
(***************************************************************************)
(* What holds of AuctionEngine for every number of groups, auctions, bids, *)
(* chat and panel processes, overlapping runs of tick() and restarts.  The *)
(* theorems are                                                            *)
(*   EngineUsesStore        every behaviour is one of AuctionStore, whose  *)
(*                          theorems therefore hold here;                  *)
(*   EngineRefinement       and so one of the abstract ascending auction;  *)
(*   EngineTypeCorrect      the type invariant, entries included;          *)
(*   AnnouncedOnceSafety    one closing announcement per auction;          *)
(*   DeadlineNotLateSafety  the deadline in memory is not after the row's; *)
(*   AnnouncedWinnerSafety  the winner announced is the winner stored.     *)
(* They rest on EngineSafe (types, and what is held across an await), and  *)
(* on Told, OnTime and NamedRight, each about one auction.                 *)
(***************************************************************************)
EXTENDS AuctionEngine, AuctionStoreProofs

-----------------------------------------------------------------------------
(***************************************************************************)
(* What a step of the tables does to one row.                              *)
(***************************************************************************)
\* Outside a list an auction always has a deadline, its own.
Clocked(r) == r.event = NoEvent => /\ r.scheduledEndAt = NoTime
                                   /\ r.endsAt # NoTime /\ r.duration > 0

Edits == {"update", "schedule"}

RowNew(a) == /\ a = auctionSeq + 1 /\ auctionSeq' = a
             /\ Clocked(auction'[a]) /\ auction'[a].status = "OPEN"

RowMoved(a) ==
    LET r == auction[a]  s == auction'[a] IN
    /\ r.status # "ABSENT" /\ s.status # "ABSENT" /\ s.event = r.event
    /\ s.scheduledEndAt = r.scheduledEndAt /\ s.duration = r.duration
    /\ s.endsAt \in {r.endsAt, DeadlineAfterBid(a)}
    /\ r.status # "OPEN" =>
          /\ s.status = r.status
          /\ s.winner = r.winner \/ a \in unsynced' \/ \E p \in Procs : InWindow(p, a)

RowEdited(a, p) ==
    LET r == auction[a]  s == auction'[a] IN
    /\ call[p].step \in Edits /\ call[p].auction = a /\ call'[p] = Idle
    /\ r.status # "ABSENT"
    /\ s.status = r.status /\ s.winner = r.winner /\ s.event = r.event
    /\ call[p].step = "update" => s.scheduledEndAt = r.scheduledEndAt
    /\ call[p].step = "update" => \/ s.duration = r.duration /\ s.endsAt = r.endsAt
                                  \/ s.duration > 0 /\ s.endsAt # NoTime

RowStep(a) ==
    \/ auction'[a] = auction[a]
    \/ auction'[a].status = "ABSENT"
    \/ RowNew(a) \/ RowMoved(a)
    \/ \E p \in Procs : RowEdited(a, p)

\* An insert makes a new row that has a deadline, unless it is of a list.
LEMMA RowInsert ==
  ASSUME Typed, NEW g, NEW i, NEW e, NEW initial, NEW dur \in Durations, NEW step,
         NEW at \in Nat, InsertAuction(g, i, e, initial, dur, step, at),
         dur # 0 \/ e # NoEvent, NEW x \in AuctionIds
  PROVE  RowStep(x)
  <1>1. CASE x # auctionSeq + 1
    BY <1>1 DEF InsertAuction, RowStep, Typed, TypeOK
  <1>2. CASE x = auctionSeq + 1
    <2>1. dur \in Nat /\ at + dur \in Nat
      BY StoreAssumption
    <2>2. auction'[x] = [status |-> "OPEN", group |-> g, item |-> i, event |-> e,
                         initial |-> initial, duration |-> dur, step |-> step,
                         startedAt |-> at,
                         endsAt |-> IF dur > 0 THEN at + dur ELSE NoTime,
                         scheduledEndAt |-> NoTime, winner |-> NoBid]
      BY <1>2 DEF InsertAuction, Typed, TypeOK
    <2>3. /\ auction'[x].status = "OPEN" /\ auction'[x].event = e
          /\ auction'[x].duration = dur /\ auction'[x].scheduledEndAt = NoTime
          /\ auction'[x].endsAt = IF dur > 0 THEN at + dur ELSE NoTime
      BY <2>2
    <2>4. auctionSeq' = x
      BY <1>2 DEF InsertAuction
    <2>5. Clocked(auction'[x])
      BY <2>1, <2>3 DEF Clocked, NoTime
    <2>. QED  BY <1>2, <2>3, <2>4, <2>5 DEF RowStep, RowNew
  <1>. QED  BY <1>1, <1>2

\* A transaction that writes one row of an auction that exists.
LEMMA RowOne ==
  ASSUME Typed, NEW a \in AuctionIds, NEW r \in AuctionRow,
         auction' = [auction EXCEPT ![a] = r],
         auction'[a] = r => RowStep(a), NEW x \in AuctionIds
  PROVE  RowStep(x)
  <1>1. auction'[a] = r /\ (x # a => auction'[x] = auction[x])
    BY RowWrite DEF Typed, TypeOK
  <1>. QED  BY <1>1 DEF RowStep

LEMMA RowStart ==
  ASSUME Typed, NEW p \in Procs, StartStep(p), NEW x \in AuctionIds
  PROVE  RowStep(x)
  <1>1. CASE \E g \in Groups, i \in Items \cup {NoItem}, e \in Events \cup {NoEvent} :
                StartCheck(p, g, i, e)
    BY <1>1 DEF StartCheck, rows, RowStep
  <1>2. CASE StartCreate(p)
    <2>1. PICK initial \in InitialValues, step \in Steps, dur \in Durations \ {0} :
            InsertAuction(call[p].group, call[p].item, call[p].event, initial, dur, step,
                          call[p].at)
      BY <1>2 DEF StartCreate
    <2>2. call[p].at \in Nat
      BY DEF Typed, TypeOK, Call
    <2>. QED  BY <2>1, <2>2, RowInsert
  <1>3. CASE StartListed(p)
    <2>1. PICK g \in Groups, i \in Items, e \in Events, initial \in InitialValues,
               step \in Steps, dur \in Durations :
            InsertAuction(g, i, e, initial, dur, step, now)
      BY <1>3 DEF StartListed
    <2>2. now \in Nat /\ e # NoEvent
      BY StoreAssumption DEF Typed, TypeOK
    <2>. QED  BY <2>1, <2>2, RowInsert
  <1>4. CASE MarkItemOnAuction(p)
    BY <1>4 DEF MarkItemOnAuction, RowStep
  <1>. QED  BY <1>1, <1>2, <1>3, <1>4 DEF StartStep

LEMMA RowEdit ==
  ASSUME Typed, NEW p \in Procs, EditStep(p), NEW x \in AuctionIds
  PROVE  \/ auction'[x] = auction[x]
         \/ RowEdited(x, p)
  <1>1. CASE UpdateAuctionWrite(p)
    <2>0. call'[p] = Idle /\ call[p].step = "update"
      BY <1>1 DEF UpdateAuctionWrite, Return, Typed, TypeOK
    <2>1. CASE ~Exists(call[p].auction)
      BY <1>1, <2>1 DEF UpdateAuctionWrite
    <2>2. CASE Exists(call[p].auction)
      <3>1. PICK a \in AuctionIds : a = call[p].auction
        BY <1>1, <2>2, UpdateWrites
      <3>2. PICK r \in AuctionRow :
              /\ auction' = [auction EXCEPT ![a] = r]
              /\ r.status = auction[a].status /\ r.winner = auction[a].winner
              /\ r.scheduledEndAt = auction[a].scheduledEndAt /\ r.event = auction[a].event
              /\ \/ r.duration = auction[a].duration /\ r.endsAt = auction[a].endsAt
                 \/ r.endsAt = auction[a].startedAt + r.duration /\ r.duration > 0
        BY <1>1, <2>2, <3>1, UpdateWrites
      <3>3. auction'[a] = r /\ \A c \in AuctionIds : c # a => auction'[c] = auction[c]
        BY <3>2, RowWrite DEF Typed, TypeOK
      <3>4. r.duration \in Nat /\ auction[a].startedAt \in Nat
        BY DEF Typed, TypeOK, AuctionRow
      <3>5. \/ r.duration = auction[a].duration /\ r.endsAt = auction[a].endsAt
            \/ r.duration > 0 /\ r.endsAt # NoTime
        BY <3>2, <3>4 DEF NoTime
      <3>6. RowEdited(a, p)
        BY <2>0, <2>2, <3>1, <3>2, <3>3, <3>5 DEF RowEdited, Edits, Exists
      <3>. QED  BY <3>3, <3>6
    <2>. QED  BY <2>1, <2>2
  <1>2. CASE ScheduleEndWrite(p)
    <2>0. call'[p] = Idle /\ call[p].step = "schedule"
      BY <1>2 DEF ScheduleEndWrite, Return, Typed, TypeOK
    <2>1. CASE ~Exists(call[p].auction)
      BY <1>2, <2>1 DEF ScheduleEndWrite
    <2>2. CASE Exists(call[p].auction)
      <3>1. PICK a \in AuctionIds : a = call[p].auction
        BY <1>2, <2>2, ScheduleWrites
      <3>2. PICK r \in AuctionRow :
              /\ auction' = [auction EXCEPT ![a] = r]
              /\ r.status = auction[a].status /\ r.winner = auction[a].winner
              /\ r.event = auction[a].event
        BY <1>2, <2>2, <3>1, ScheduleWrites
      <3>3. auction'[a] = r /\ \A c \in AuctionIds : c # a => auction'[c] = auction[c]
        BY <3>2, RowWrite DEF Typed, TypeOK
      <3>4. RowEdited(a, p)
        BY <2>0, <2>2, <3>1, <3>2, <3>3 DEF RowEdited, Edits, Exists
      <3>. QED  BY <3>3, <3>4
    <2>. QED  BY <2>1, <2>2
  <1>3. CASE \/ \E a \in AuctionIds : UpdateAuctionRead(p, a) \/ ScheduleEndRead(p, a)
             \/ \E b \in BidIds : UpdateBidRead(p, b)
             \/ UpdateBidWrite(p)
    BY <1>3 DEF UpdateAuctionRead, ScheduleEndRead, UpdateBidRead, UpdateBidWrite, Begin, rows
  <1>. QED  BY <1>1, <1>2, <1>3 DEF EditStep

LEMMA RowRemove ==
  ASSUME Typed, NEW p \in Procs, RemoveStep(p), NEW x \in AuctionIds
  PROVE  auction'[x] = auction[x] \/ RowMoved(x)
  <1>1. CASE DeleteBid(p)
    <2>1. CASE ~Live(call[p].bid)
      BY <1>1, <2>1 DEF DeleteBid
    <2>2. CASE Live(call[p].bid)
      <3>1. PICK a \in AuctionIds : a = call[p].auction
        BY <1>1, <2>2, DeleteWrites
      <3>2. PICK r \in AuctionRow :
              /\ auction' = [auction EXCEPT ![a] = r] /\ r.status = auction[a].status
              /\ r.scheduledEndAt = auction[a].scheduledEndAt
              /\ r.duration = auction[a].duration /\ r.event = auction[a].event
              /\ r.endsAt = auction[a].endsAt
        BY <1>1, <2>2, <3>1, DeleteWrites
      <3>3. auction'[a] = r /\ \A c \in AuctionIds : c # a => auction'[c] = auction[c]
        BY <3>2, RowWrite DEF Typed, TypeOK
      <3>4. Exists(a)  BY <1>1, <2>2, <3>1, DeleteWrites
      <3>5. ~Open(a) => a \in unsynced'
        BY <1>1, <2>2, <3>1 DEF DeleteBid
      <3>6. RowMoved(a)
        BY <3>2, <3>3, <3>4, <3>5 DEF RowMoved, Exists, Open
      <3>. QED  BY <3>3, <3>6
    <2>. QED  BY <2>1, <2>2
  <1>2. CASE SettleWinner(p)
    <2>1. CASE auction' = auction
      BY <2>1
    <2>2. CASE auction' # auction
      <3>1. PICK a \in AuctionIds : a = call[p].auction
        BY <1>2, <2>2, SettleWrites
      <3>2. PICK r \in AuctionRow :
              /\ auction' = [auction EXCEPT ![a] = r] /\ r.status = auction[a].status
              /\ r.scheduledEndAt = auction[a].scheduledEndAt
              /\ r.duration = auction[a].duration /\ r.event = auction[a].event
              /\ r.endsAt = auction[a].endsAt
        BY <1>2, <2>2, <3>1, SettleWrites
      <3>3. auction'[a] = r /\ \A c \in AuctionIds : c # a => auction'[c] = auction[c]
        BY <3>2, RowWrite DEF Typed, TypeOK
      <3>4. Exists(a)  BY <1>2, <2>2, <3>1, SettleWrites
      <3>5. InWindow(p, a)
        BY <1>2, <3>1 DEF SettleWinner, InWindow, Window
      <3>6. RowMoved(a)
        BY <3>2, <3>3, <3>4, <3>5 DEF RowMoved, Exists
      <3>. QED  BY <3>3, <3>6
    <2>. QED  BY <2>1, <2>2
  <1>3. CASE \/ \E b \in BidIds : RemoveBidRead(p, b)
             \/ ResetLeaders(p) \/ FindNextLeader(p) \/ MarkLeader(p)
    BY <1>3 DEF RemoveBidRead, Begin, ResetLeaders, FindNextLeader, MarkLeader, rows
  <1>. QED  BY <1>1, <1>2, <1>3 DEF RemoveStep

LEMMA RowBid ==
  ASSUME Typed, NEW a \in AuctionIds, NEW amount \in Amounts, PlaceBid(a, amount),
         NEW x \in AuctionIds
  PROVE  auction'[x] = auction[x] \/ RowMoved(x)
  <1>1. PICK r \in AuctionRow :
           /\ auction' = [auction EXCEPT ![a] = r]
           /\ r.status = auction[a].status
           /\ r.scheduledEndAt = auction[a].scheduledEndAt
           /\ r.duration = auction[a].duration /\ r.event = auction[a].event
           /\ r.endsAt = DeadlineAfterBid(a)
    BY BidAuction
  <1>2. auction'[a] = r /\ \A c \in AuctionIds : c # a => auction'[c] = auction[c]
    BY <1>1, RowWrite DEF Typed, TypeOK
  <1>3. RowMoved(a)
    BY <1>1, <1>2 DEF RowMoved, PlaceBid, Open
  <1>. QED  BY <1>2, <1>3

LEMMA RowEnd ==
  ASSUME Typed, NEW a \in AuctionIds, CloseAuction(a) \/ CancelAuction(a),
         NEW x \in AuctionIds
  PROVE  auction'[x] = auction[x] \/ RowMoved(x)
  <1>1. PICK r \in AuctionRow :
           /\ auction' = [auction EXCEPT ![a] = r]
           /\ r.status \in {"CLOSED", "CANCELLED"}
           /\ r.scheduledEndAt = auction[a].scheduledEndAt
           /\ r.duration = auction[a].duration /\ r.event = auction[a].event
           /\ r.endsAt = auction[a].endsAt
    BY CloseWrites, CancelWrites
  <1>2. auction'[a] = r /\ \A c \in AuctionIds : c # a => auction'[c] = auction[c]
    BY <1>1, RowWrite DEF Typed, TypeOK
  <1>3. auction[a].status = "OPEN"
    BY DEF CloseAuction, CancelAuction, Open
  <1>4. RowMoved(a)
    BY <1>1, <1>2, <1>3 DEF RowMoved
  <1>. QED  BY <1>2, <1>4

\* Whatever happens to the tables, a row is written in one of these ways.
LEMMA RowNext ==
  ASSUME Typed, [Next]_vars, NEW x \in AuctionIds
  PROVE  RowStep(x)
  <1>1. CASE UNCHANGED vars
    BY <1>1 DEF vars, RowStep
  <1>2. CASE \E p \in Procs : StartStep(p) \/ EditStep(p) \/ RemoveStep(p)
    BY <1>2, RowStart, RowEdit, RowRemove DEF RowStep
  <1>3. CASE \E p \in Procs : ClearStep(p)
    BY <1>3 DEF ClearStep, ClearHistory, ClearItems, AbsentAuction, RowStep
  <1>4. CASE \E a \in AuctionIds : (\E amount \in Amounts : Bid(a, amount)) \/ Close(a) \/ Cancel(a)
    BY <1>4, RowBid, RowEnd DEF Bid, Close, Cancel, RowStep
  <1>5. CASE \E a \in AuctionIds : SweepClose(a)
    BY <1>5, RowEnd DEF SweepClose, rows, RowStep
  <1>6. CASE ReadExpired \/ Tick \/ Crash
    BY <1>6 DEF ReadExpired, Tick, Crash, rows, RowStep
  <1>. QED  BY <1>1, <1>2, <1>3, <1>4, <1>5, <1>6 DEF Next

\* What was written once stays what it is: a row of the past keeps its list, and
\* one that is over does not open again.
LEMMA RowKept ==
  ASSUME Typed, [Next]_vars, NEW a \in AuctionIds, a <= auctionSeq, Exists(a)'
  PROVE  /\ Exists(a) /\ auction'[a].event = auction[a].event
         /\ Open(a)' => Open(a)
  <1>1. RowStep(a)  BY RowNext
  <1>2. a # auctionSeq + 1  BY DEF Typed, TypeOK, AuctionIds
  <1>. QED
    BY <1>1, <1>2 DEF RowStep, RowNew, RowMoved, RowEdited, Exists, Open

\* Ids are handed out upwards.
LEMMA SeqNext ==
  ASSUME Typed, [Next]_vars
  PROVE  auctionSeq \in Nat /\ auctionSeq' \in Nat /\ auctionSeq <= auctionSeq'
  <1>0. auctionSeq \in Nat /\ auctionSeq' \in Nat
    BY TypedNext DEF Typed, TypeOK
  <1>1. CASE UNCHANGED auctionSeq
    BY <1>0, <1>1
  <1>2. ASSUME auctionSeq' # auctionSeq  PROVE auctionSeq' = auctionSeq + 1
    <2>1. \E p \in Procs : StartCreate(p) \/ StartListed(p)
      <3>1. ~UNCHANGED vars  BY <1>2 DEF vars
      <3>2. ~\E a \in AuctionIds : \/ \E amount \in Amounts : Bid(a, amount)
                                   \/ Close(a) \/ Cancel(a) \/ SweepClose(a)
        BY <1>2 DEF Bid, PlaceBid, Close, CloseAuction, Cancel, CancelAuction, SweepClose, rows
      <3>3. ~(ReadExpired \/ Tick \/ Crash)
        BY <1>2 DEF ReadExpired, Tick, Crash, rows
      <3>4. ~\E p \in Procs : EditStep(p)
        BY <1>2 DEF EditStep, UpdateAuctionRead, ScheduleEndRead, UpdateAuctionWrite,
                    ScheduleEndWrite, UpdateBidRead, UpdateBidWrite, Begin, rows
      <3>5. ~\E p \in Procs : RemoveStep(p) \/ ClearStep(p)
        BY <1>2 DEF RemoveStep, RemoveBidRead, Begin, DeleteBid, ResetLeaders, FindNextLeader,
                    MarkLeader, SettleWinner, ClearStep, ClearHistory, ClearItems, rows
      <3>6. PICK p \in Procs : StartStep(p)
        BY <3>1, <3>2, <3>3, <3>4, <3>5 DEF Next
      <3>. QED  BY <1>2, <3>6 DEF StartStep, StartCheck, MarkItemOnAuction, rows
    <2>. QED  BY <2>1 DEF StartCreate, StartListed, InsertAuction
  <1>. QED  BY <1>0, <1>1, <1>2

-----------------------------------------------------------------------------
(***************************************************************************)
(* Outside lists every auction has a deadline, and none of them is about   *)
(* to be given a fixed one.                                                *)
(***************************************************************************)
Timed ==
    /\ \A a \in AuctionIds : Exists(a) => Clocked(auction[a])
    /\ \A p \in Procs : LET a == call[p].auction IN
          call[p].step = "schedule" /\ Exists(a) => auction[a].event # NoEvent

\* The record of one call is written, and no other.
Only(q) == \A r \in Procs : r # q => call'[r] = call[r]

LEMMA CallOne ==
  ASSUME Typed, NEW q \in Procs, NEW c, call' = [call EXCEPT ![q] = c]
  PROVE  call'[q] = c /\ Only(q)
  BY DEF Typed, TypeOK, Only

LEMMA ReturnOne ==
  ASSUME Typed, NEW q \in Procs, Return(q)
  PROVE  call'[q] = Idle /\ Only(q)
  BY CallOne DEF Return

LEMMA BeginOne ==
  ASSUME Typed, NEW q \in Procs, NEW step, NEW a, NEW b, Begin(q, step, a, b)
  PROVE  /\ call[q] = Idle /\ call'[q].step = step /\ call'[q].auction = a /\ Only(q)
         /\ UNCHANGED <<rows, sweep, now, crashes>> /\ Open(a)
  <1> DEFINE c == [Idle EXCEPT !.step = step, !.auction = a, !.bid = b,
                               !.at = IF step = "schedule" THEN now ELSE 0]
  <1>1. call' = [call EXCEPT ![q] = c] /\ call[q] = Idle /\ Open(a)
        /\ UNCHANGED <<rows, sweep, now, crashes>>
    BY DEF Begin
  <1>2. c.step = step /\ c.auction = a
    BY DEF Idle
  <1> HIDE DEF c
  <1>3. call'[q] = c /\ Only(q)
    BY <1>1, CallOne
  <1>. QED  BY <1>1, <1>2, <1>3

LEMMA CheckOne ==
  ASSUME Typed, NEW q \in Procs, NEW g, NEW i, NEW e, StartCheck(q, g, i, e)
  PROVE  /\ call[q] = Idle /\ call'[q].step = "create" /\ Only(q)
         /\ call'[q].item = i /\ call'[q].event = e
         /\ UNCHANGED <<rows, sweep, now, crashes>>
  <1> DEFINE c == [Idle EXCEPT !.step = "create", !.group = g, !.item = i, !.event = e,
                               !.at = now]
  <1>1. call' = [call EXCEPT ![q] = c] /\ call[q] = Idle
        /\ UNCHANGED <<rows, sweep, now, crashes>>
    BY DEF StartCheck
  <1>2. c.step = "create" /\ c.item = i /\ c.event = e
    BY DEF Idle
  <1> HIDE DEF c
  <1>3. call'[q] = c /\ Only(q)
    BY <1>1, CallOne
  <1>. QED  BY <1>1, <1>2, <1>3

LEMMA InsertOne ==
  ASSUME Typed, NEW q \in Procs, StartCreate(q) \/ StartListed(q) \/ MarkItemOnAuction(q)
  PROVE  call'[q].step \in {"idle", "mark"} /\ Only(q)
  <1> DEFINE c == [Idle EXCEPT !.step = "mark", !.item = call[q].item, !.auction = auctionSeq + 1]
             d(i) == [Idle EXCEPT !.step = "mark", !.item = i, !.auction = auctionSeq + 1]
  <1>1. c.step = "mark" /\ Idle.step = "idle" /\ \A i : d(i).step = "mark"
    BY DEF Idle
  <1>2. \/ call' = [call EXCEPT ![q] = Idle]
        \/ call' = [call EXCEPT ![q] = c]
        \/ \E i \in Items : call' = [call EXCEPT ![q] = d(i)]
    BY DEF StartCreate, StartListed, MarkItemOnAuction
  <1> HIDE DEF c, d
  <1>. QED  BY <1>1, <1>2, CallOne

\* A call that comes to fix a deadline has just looked at the list.
LEMMA ScheduleNext ==
  ASSUME Typed, [Next]_vars, NEW p \in Procs, call'[p].step = "schedule"
  PROVE  \/ call'[p] = call[p]
         \/ \E a \in AuctionIds : ScheduleEndRead(p, a) /\ call'[p].auction = a
  <1>0. call \in [Procs -> Call]  BY DEF Typed, TypeOK
  <1>1. CASE UNCHANGED call
    BY <1>1
  <1>2. CASE \E q \in Procs : StartStep(q)
    <2>1. PICK q \in Procs : StartStep(q)  BY <1>2
    <2>2. call'[q].step \in {"create", "idle", "mark"} /\ Only(q)
      BY <2>1, CheckOne, InsertOne DEF StartStep
    <2>. QED  BY <2>2 DEF Only
  <1>3. CASE \E q \in Procs : EditStep(q)
    <2>1. PICK q \in Procs : EditStep(q)  BY <1>3
    <2>2. CASE \E a \in AuctionIds : ScheduleEndRead(q, a)
      <3>1. PICK a \in AuctionIds : ScheduleEndRead(q, a)  BY <2>2
      <3>2. call'[q].auction = a /\ Only(q)
        BY <3>1, BeginOne DEF ScheduleEndRead
      <3>. QED  BY <3>1, <3>2 DEF Only
    <2>3. CASE ~\E a \in AuctionIds : ScheduleEndRead(q, a)
      <3>1. Return(q) \/ \E a, b : Begin(q, "update", a, b) \/ Begin(q, "updateBid", a, b)
        BY <2>1, <2>3 DEF EditStep, UpdateAuctionRead, UpdateAuctionWrite, ScheduleEndWrite,
                    UpdateBidRead, UpdateBidWrite
      <3>. QED  BY <3>1, ReturnOne, BeginOne DEF Only, Idle
    <2>. QED  BY <2>2, <2>3
  <1>4. CASE \E q \in Procs : RemoveStep(q) \/ ClearStep(q)
    <2>1. PICK q \in Procs : RemoveStep(q) \/ ClearStep(q)  BY <1>4
    <2>2. CASE Return(q) \/ \E b \in BidIds : RemoveBidRead(q, b)
      BY <2>2, ReturnOne, BeginOne DEF RemoveBidRead, Only, Idle
    <2>3. CASE ~(Return(q) \/ \E b \in BidIds : RemoveBidRead(q, b))
      <3>1. \A r \in Procs : r # q => call'[r] = call[r]
        BY <1>0, <2>1, <2>3 DEF RemoveStep, DeleteBid, ResetLeaders, FindNextLeader, MarkLeader,
                          SettleWinner, ClearStep, ClearHistory, ClearItems, Goto
      <3>2. call'[q].step # "schedule"
        <4>1. call[q] \in Call  BY <1>0
        <4>. QED
          BY <1>0, <2>1, <2>3, <4>1 DEF RemoveStep, DeleteBid, ResetLeaders, FindNextLeader,
              MarkLeader, SettleWinner, ClearStep, ClearHistory, ClearItems, Goto, Call
      <3>. QED  BY <3>1, <3>2
    <2>. QED  BY <2>2, <2>3
  <1>5. CASE Crash
    BY <1>5 DEF Crash, Idle
  <1>6. CASE \/ UNCHANGED vars \/ ReadExpired \/ Tick
             \/ \E a \in AuctionIds : \/ \E amount \in Amounts : Bid(a, amount)
                                      \/ Close(a) \/ Cancel(a) \/ SweepClose(a)
    BY <1>1, <1>6 DEF vars, ReadExpired, Tick, Bid, Close, Cancel, SweepClose
  <1>. QED  BY <1>2, <1>3, <1>4, <1>5, <1>6 DEF Next

LEMMA TimedInit == Init => Timed
  BY DEF Init, Timed, AbsentAuction, Idle, Exists

LEMMA TimedNext ==
  ASSUME Typed, Timed, [Next]_vars
  PROVE  Timed'
  <1>1. ASSUME NEW a \in AuctionIds, Exists(a)'  PROVE Clocked(auction[a])'
    <2>1. CASE auction'[a] = auction[a]
      BY <1>1, <2>1 DEF Timed, Exists, Clocked
    <2>2. CASE RowNew(a)
      BY <2>2 DEF RowNew
    <2>3. CASE RowMoved(a)
      <3>1. Clocked(auction[a])  BY <2>3 DEF RowMoved, Timed, Exists
      <3>2. auction[a] \in AuctionRow /\ now \in Nat  BY DEF Typed, TypeOK
      <3>3. auction[a].event = NoEvent =>
               DeadlineAfterBid(a) = now + auction[a].duration /\ DeadlineAfterBid(a) # NoTime
        BY <3>1, <3>2 DEF Clocked, DeadlineAfterBid, AuctionRow, NoTime
      <3>. QED  BY <2>3, <3>1, <3>3 DEF RowMoved, Clocked
    <2>4. CASE \E p \in Procs : RowEdited(a, p)
      <3>1. PICK p \in Procs : RowEdited(a, p)  BY <2>4
      <3>2. Clocked(auction[a])  BY <3>1 DEF RowEdited, Timed, Exists
      <3>3. auction[a].event = NoEvent => call[p].step = "update"
        BY <3>1 DEF RowEdited, Timed, Exists, Edits
      <3>. QED  BY <3>1, <3>2, <3>3 DEF RowEdited, Clocked
    <2>. QED  BY <1>1, <2>1, <2>2, <2>3, <2>4, RowNext DEF RowStep, Exists
  <1>2. ASSUME NEW p \in Procs, call'[p].step = "schedule", Exists(call[p].auction)'
        PROVE  auction'[call'[p].auction].event # NoEvent
    <2>1. CASE call'[p] = call[p]
      <3>1. call[p].auction \in AuctionIds /\ call[p].auction <= auctionSeq
        BY <1>2, <2>1 DEF Typed, TypeOK, CallOK, Editing, Call
      <3>2. Exists(call[p].auction)' <=> auction'[call[p].auction].status # "ABSENT"
        BY <2>1 DEF Exists
      <3>3. /\ Exists(call[p].auction)
            /\ auction'[call[p].auction].event = auction[call[p].auction].event
        BY <1>2, <3>1, <3>2, RowKept DEF Exists
      <3>. QED  BY <1>2, <2>1, <3>3 DEF Timed
    <2>2. CASE \E a \in AuctionIds : ScheduleEndRead(p, a) /\ call'[p].auction = a
      BY <2>2 DEF ScheduleEndRead, Begin, rows
    <2>. QED  BY <1>2, <2>1, <2>2, ScheduleNext
  <1>. QED  BY <1>1, <1>2 DEF Timed

-----------------------------------------------------------------------------
(***************************************************************************)
(* What the engine holds on to between two awaits: auctions that were      *)
(* created outside a list, with a deadline.                                *)
(***************************************************************************)
Single(a) == Exists(a) => auction[a].event = NoEvent

Arriving == {"placed", "open", "marking", "launch"}
Holding  == Arriving \cup {"bid"}

EntryOK(g) ==
    active[g] # NoAuction => /\ active[g] <= auctionSeq
                             /\ mem[active[g]].endsAt # NoTime
                             /\ Single(active[g])

HandlerOK(p) ==
    LET h == handler[p] IN
    /\ h.auction <= auctionSeq
    /\ h.step \in Holding \cup {"cancel"} => h.auction # NoAuction
    /\ h.step \in Holding => Single(h.auction)
    /\ h.step \in Arriving => h.endsAt # NoTime
    /\ h.step = "starting" =>
          call[p].step = "create" /\ call[p].item = NoItem /\ call[p].event = NoEvent

TickerOK(t) ==
    /\ ticker[t].auction <= auctionSeq
    /\ ticker[t].step \in {"close", "read"} => ticker[t].auction # NoAuction

ActiveTyped == active \in [Groups -> AuctionIds \cup {NoAuction}]
               /\ \A g \in Groups : EntryOK(g)
MemTyped     == mem \in [AuctionIds -> Memory]
SetupTyped   == setup \in [Groups -> SetupStep]
HandlerTyped == handler \in [Procs -> HandlerRow] /\ \A p \in Procs : HandlerOK(p)
TickerTyped  == ticker \in [Tickers -> TickerRow] /\ \A t \in Tickers : TickerOK(t)
ToldTyped    == announced \in [AuctionIds -> [times : Nat, winner : BidIds \cup {NoBid}]]
EditedTyped  == edited \subseteq AuctionIds

EngineTyped == /\ ActiveTyped /\ MemTyped /\ SetupTyped /\ HandlerTyped
               /\ TickerTyped /\ ToldTyped /\ EditedTyped

\* What a handler or a run of tick() is about is an auction.
LEMMA HandlerAuction ==
  ASSUME Typed, EngineTyped, NEW p \in Procs
  PROVE  /\ handler[p] \in HandlerRow /\ handler[p].group \in Groups \cup {NoGroup}
         /\ handler[p].auction \in AuctionIds \cup {NoAuction}
         /\ handler[p].endsAt \in Nat \cup {NoTime}
         /\ handler[p].step \in Holding \cup {"cancel"} => handler[p].auction \in AuctionIds
         /\ HandlerOK(p)
  BY DEF EngineTyped, HandlerTyped, HandlerOK, HandlerRow

LEMMA TickerAuction ==
  ASSUME Typed, EngineTyped, NEW t \in Tickers
  PROVE  /\ ticker[t] \in TickerRow /\ ticker[t].group \in Groups \cup {NoGroup}
         /\ ticker[t].auction \in AuctionIds \cup {NoAuction}
         /\ ticker[t].step \in {"close", "read"} => ticker[t].auction \in AuctionIds
         /\ TickerOK(t)
  BY DEF EngineTyped, TickerTyped, TickerOK, TickerRow

\* A step of the engine is a step of the tables, or leaves them alone.
LEMMA StoreStep ==
  ASSUME Typed, EngineTyped, [EngineNext]_allVars
  PROVE  [Next]_vars
  <1>1. CASE UNCHANGED allVars
    BY <1>1 DEF allVars
  <1>2. ASSUME NEW p \in Procs, ChatStep(p)
        PROVE  [Next]_vars
    <2>1. CASE \E g \in Groups : ChatBid(p, g) \/ ChatCancel(p, g)
      BY <2>1 DEF ChatBid, ChatCancel
    <2>2. CASE \E g \in Groups : FinishSetup(p, g)
      BY <2>2 DEF FinishSetup, Next, StartStep
    <2>3. CASE ChatBidCommit(p)
      <3>1. PICK a \in AuctionIds : a = handler[p].auction
        BY <2>3, HandlerAuction DEF ChatBidCommit, Holding
      <3>2. \/ \E amount \in Amounts : PlaceBid(a, amount)
            \/ UNCHANGED rows
        BY <2>3, <3>1 DEF ChatBidCommit
      <3>3. UNCHANGED <<call, sweep, now, crashes>>
        BY <2>3 DEF ChatBidCommit
      <3>4. CASE \E amount \in Amounts : PlaceBid(a, amount)
        BY <3>3, <3>4 DEF Bid, Next
      <3>5. CASE UNCHANGED rows
        BY <3>3, <3>5 DEF rows, vars
      <3>. QED  BY <3>2, <3>4, <3>5
    <2>4. CASE ChatCancelCommit(p)
      <3>1. PICK a \in AuctionIds : a = handler[p].auction
        BY <2>4, HandlerAuction DEF ChatCancelCommit
      <3>2. CancelAuction(a) \/ UNCHANGED rows
        BY <2>4, <3>1 DEF ChatCancelCommit
      <3>3. UNCHANGED <<call, sweep, now, crashes>>
        BY <2>4 DEF ChatCancelCommit
      <3>. QED  BY <3>2, <3>3 DEF Cancel, Next, rows, vars
    <2>5. CASE ChatBidReturn(p) \/ ChatCancelReturn(p)
      BY <2>5 DEF ChatBidReturn, ChatCancelReturn
    <2>. QED  BY <1>2, <2>1, <2>2, <2>3, <2>4, <2>5 DEF ChatStep
  <1>3. ASSUME NEW p \in Procs, PanelStart(p)
        PROVE  [Next]_vars
    <2>1. CASE StartFromPanel(p) \/ CreateAuction(p) \/ MarkStarted(p)
      BY <2>1 DEF StartFromPanel, CreateAuction, MarkStarted, Next, StartStep
    <2>2. CASE OpenEntry(p) \/ Launch(p)
      BY <2>2 DEF OpenEntry, Launch
    <2>. QED  BY <1>3, <2>1, <2>2 DEF PanelStart
  <1>4. ASSUME NEW p \in Editors, PanelEdit(p)
        PROVE  [Next]_vars
    BY <1>4, EngineAssumption DEF PanelEdit, Next
  <1>5. CASE \E g \in Groups : StartSetup(g) \/ AnswerSetup(g)
    BY <1>5 DEF StartSetup, AnswerSetup
  <1>6. ASSUME NEW t \in Tickers, TickStep(t)
        PROVE  [Next]_vars
    <2>1. CASE TickClose(t)
      <3>1. PICK a \in AuctionIds : a = ticker[t].auction
        BY <2>1, TickerAuction DEF TickClose
      <3>2. CloseAuction(a) \/ UNCHANGED rows
        BY <2>1, <3>1 DEF TickClose
      <3>3. UNCHANGED <<call, sweep, now, crashes>>
        BY <2>1 DEF TickClose
      <3>. QED  BY <3>2, <3>3 DEF Close, Next, rows, vars
    <2>2. CASE (\E g \in Groups : TickVisit(t, g)) \/ TickAnnounce(t) \/ TickDelete(t)
      BY <2>2 DEF TickVisit, TickAnnounce, TickDelete
    <2>. QED  BY <1>6, <2>1, <2>2 DEF TickStep
  <1>7. CASE PanelEnd \/ SweepStep \/ ClockStep \/ Restart
    BY <1>7 DEF PanelEnd, SweepStep, ClockStep, Restart, Next
  <1>. QED  BY <1>1, <1>2, <1>3, <1>4, <1>5, <1>6, <1>7 DEF EngineNext

\* An auction that was created outside a list never becomes part of one.
LEMMA SingleKept ==
  ASSUME Typed, [Next]_vars, NEW a \in AuctionIds, a <= auctionSeq, Single(a)
  PROVE  Single(a)' /\ a <= auctionSeq'
  BY RowKept, SeqNext DEF Single, Exists, AuctionIds

LEMMA EntriesKept ==
  ASSUME Typed, EngineTyped, [Next]_vars, UNCHANGED active,
         \A a \in AuctionIds : mem'[a].endsAt = mem[a].endsAt
  PROVE  ActiveTyped'
  <1>1. ASSUME NEW g \in Groups  PROVE EntryOK(g)'
    <2>1. CASE active[g] = NoAuction
      BY <2>1 DEF EntryOK
    <2>2. CASE active[g] # NoAuction
      <3>1. PICK a \in AuctionIds : a = active[g]
        BY <2>2 DEF EngineTyped, ActiveTyped
      <3>2. a <= auctionSeq /\ mem[a].endsAt # NoTime /\ Single(a)
        BY <2>2, <3>1 DEF EngineTyped, ActiveTyped, EntryOK
      <3>3. Single(a)' /\ a <= auctionSeq'
        BY <3>2, SingleKept
      <3>. QED  BY <3>1, <3>2, <3>3 DEF EntryOK, Single, Exists
    <2>. QED  BY <2>1, <2>2
  <1>. QED  BY <1>1 DEF EngineTyped, ActiveTyped

LEMMA EntryDropped ==
  ASSUME Typed, EngineTyped, [Next]_vars, NEW x,
         active' = [active EXCEPT ![x] = NoAuction], UNCHANGED mem
  PROVE  ActiveTyped'
  <1>1. active' \in [Groups -> AuctionIds \cup {NoAuction}]
        /\ \A g \in Groups : active'[g] \in {active[g], NoAuction}
    BY DEF EngineTyped, ActiveTyped
  <1>2. ASSUME NEW g \in Groups, active'[g] # NoAuction  PROVE EntryOK(g)'
    <2>1. PICK a \in AuctionIds : a = active[g] /\ a = active'[g]
      BY <1>1, <1>2
    <2>2. a <= auctionSeq /\ mem[a].endsAt # NoTime /\ Single(a)
      BY <1>2, <2>1 DEF EngineTyped, ActiveTyped, EntryOK
    <2>3. Single(a)' /\ a <= auctionSeq'
      BY <2>2, SingleKept
    <2>. QED  BY <2>1, <2>2, <2>3 DEF EntryOK, Single, Exists
  <1>. QED  BY <1>1, <1>2 DEF ActiveTyped, EntryOK

LEMMA EntrySet ==
  ASSUME Typed, EngineTyped, [Next]_vars, NEW x, NEW a \in AuctionIds, NEW m \in Memory,
         active' = [active EXCEPT ![x] = a], mem' = [mem EXCEPT ![a] = m],
         a <= auctionSeq, Single(a), m.endsAt # NoTime
  PROVE  ActiveTyped' /\ MemTyped'
  <1>1. active' \in [Groups -> AuctionIds \cup {NoAuction}]
        /\ \A g \in Groups : active'[g] \in {active[g], a}
    BY DEF EngineTyped, ActiveTyped
  <1>2. mem' \in [AuctionIds -> Memory] /\ mem'[a] = m
        /\ \A c \in AuctionIds : c # a => mem'[c] = mem[c]
    BY DEF EngineTyped, MemTyped
  <1>3. ASSUME NEW g \in Groups, active'[g] # NoAuction  PROVE EntryOK(g)'
    <2>1. PICK c \in AuctionIds : c = active'[g] /\ c \in {active[g], a}
      BY <1>1, <1>3
    <2>2. c <= auctionSeq /\ mem'[c].endsAt # NoTime /\ Single(c)
      BY <1>2, <1>3, <2>1 DEF EngineTyped, ActiveTyped, EntryOK
    <2>3. Single(c)' /\ c <= auctionSeq'
      BY <2>2, SingleKept
    <2>. QED  BY <2>1, <2>2, <2>3 DEF EntryOK, Single, Exists
  <1>. QED  BY <1>1, <1>2, <1>3 DEF ActiveTyped, MemTyped, EntryOK

\* A handler that is not written keeps what it holds, if nobody writes its call.
LEMMA HandlerKept ==
  ASSUME Typed, EngineTyped, [Next]_vars, NEW p \in Procs, handler'[p] = handler[p],
         handler[p].step = "starting" => call'[p] = call[p]
  PROVE  HandlerOK(p)'
  <1>1. PICK h \in HandlerRow : h = handler[p]
    BY HandlerAuction
  <1>2. /\ h.auction <= auctionSeq
        /\ h.step \in Holding \cup {"cancel"} => h.auction # NoAuction
        /\ h.step \in Holding => Single(h.auction)
        /\ h.step \in Arriving => h.endsAt # NoTime
        /\ h.step = "starting" =>
              call[p].step = "create" /\ call[p].item = NoItem /\ call[p].event = NoEvent
    BY <1>1 DEF EngineTyped, HandlerTyped, HandlerOK
  <1>3. h.auction <= auctionSeq' /\ (h.step \in Holding => Single(h.auction)')
    <2>1. h.auction \in Nat  BY DEF HandlerRow, AuctionIds, NoAuction
    <2>2. h.auction <= auctionSeq'  BY <1>2, <2>1, SeqNext
    <2>3. ASSUME h.step \in Holding  PROVE Single(h.auction)'
      <3>1. h.auction \in AuctionIds  BY <1>2, <2>3 DEF HandlerRow
      <3>. QED  BY <1>2, <2>3, <3>1, SingleKept
    <2>. QED  BY <2>2, <2>3
  <1>. QED  BY <1>1, <1>2, <1>3 DEF HandlerOK, Single, Exists

LEMMA HandlersKept ==
  ASSUME Typed, EngineTyped, [Next]_vars, UNCHANGED handler,
         \A p \in Procs : handler[p].step = "starting" => call'[p] = call[p]
  PROVE  HandlerTyped'
  BY HandlerKept DEF EngineTyped, HandlerTyped

LEMMA HandlerSet ==
  ASSUME Typed, EngineTyped, [Next]_vars, NEW p \in Procs, NEW h \in HandlerRow,
         handler' = [handler EXCEPT ![p] = h], Only(p), HandlerOK(p)'
  PROVE  HandlerTyped'
  <1>1. handler' \in [Procs -> HandlerRow]
        /\ \A q \in Procs : q # p => handler'[q] = handler[q]
    BY DEF EngineTyped, HandlerTyped
  <1>. QED  BY <1>1, HandlerKept DEF HandlerTyped, Only

LEMMA Finished ==
  ASSUME Typed, EngineTyped, [Next]_vars, NEW p \in Procs, Finish(p), Only(p)
  PROVE  HandlerTyped' /\ handler'[p] = NoHandler
         /\ \A q \in Procs : q # p => handler'[q] = handler[q]
  <1>1. NoHandler \in HandlerRow /\ NoHandler.step = "idle" /\ NoHandler.auction = 0
    BY DEF NoHandler, HandlerRow, NoAuction
  <1>2. handler' = [handler EXCEPT ![p] = NoHandler]
    BY DEF Finish
  <1>3. handler'[p] = NoHandler /\ \A q \in Procs : q # p => handler'[q] = handler[q]
    BY <1>2 DEF EngineTyped, HandlerTyped
  <1>4. 0 <= auctionSeq'  BY SeqNext
  <1>5. HandlerOK(p)'
    BY <1>1, <1>3, <1>4 DEF HandlerOK, Holding, Arriving
  <1>. QED  BY <1>1, <1>2, <1>3, <1>5, HandlerSet

LEMMA Awaits ==
  ASSUME Typed, EngineTyped, [Next]_vars, NEW p \in Procs,
         NEW step \in {"bid", "placed", "starting", "open", "marking", "cancel", "cancelled"},
         NEW g \in Groups \cup {NoGroup}, NEW a \in AuctionIds \cup {NoAuction},
         NEW e \in Nat \cup {NoTime}, Await(p, step, g, a, e), Only(p),
         a <= auctionSeq', step \in Holding \cup {"cancel"} => a # NoAuction,
         step \in Holding => Single(a)', step \in Arriving => e # NoTime,
         step = "starting" =>
            call'[p].step = "create" /\ call'[p].item = NoItem /\ call'[p].event = NoEvent
  PROVE  /\ HandlerTyped'
         /\ handler'[p] = [step |-> step, group |-> g, auction |-> a, endsAt |-> e]
         /\ \A q \in Procs : q # p => handler'[q] = handler[q]
  <1> DEFINE h == [step |-> step, group |-> g, auction |-> a, endsAt |-> e]
  <1>1. /\ h \in HandlerRow /\ h.step = step /\ h.group = g /\ h.auction = a /\ h.endsAt = e
    BY DEF HandlerRow
  <1>2. handler' = [handler EXCEPT ![p] = h]
    BY DEF Await
  <1> HIDE DEF h
  <1>3. handler'[p] = h /\ \A q \in Procs : q # p => handler'[q] = handler[q]
    BY <1>2 DEF EngineTyped, HandlerTyped
  <1>4. HandlerOK(p)'
    BY <1>1, <1>3 DEF HandlerOK, Single, Exists
  <1>. QED  BY <1>1, <1>2, <1>3, <1>4, HandlerSet DEF h

LEMMA TickersKept ==
  ASSUME Typed, EngineTyped, [Next]_vars, UNCHANGED ticker
  PROVE  TickerTyped'
  <1>1. ASSUME NEW t \in Tickers  PROVE TickerOK(t)'
    <2>1. ticker[t].auction \in Nat  BY TickerAuction DEF AuctionIds, NoAuction
    <2>. QED  BY <2>1, SeqNext, TickerAuction DEF TickerOK
  <1>. QED  BY <1>1 DEF EngineTyped, TickerTyped

LEMMA TickerSet ==
  ASSUME Typed, EngineTyped, [Next]_vars, NEW t \in Tickers, NEW r \in TickerRow,
         ticker' = [ticker EXCEPT ![t] = r], r.auction <= auctionSeq,
         r.step \in {"close", "read"} => r.auction # NoAuction
  PROVE  /\ TickerTyped' /\ ticker'[t] = r
         /\ \A u \in Tickers : u # t => ticker'[u] = ticker[u]
  <1>1. /\ ticker' \in [Tickers -> TickerRow] /\ ticker'[t] = r
        /\ \A u \in Tickers : u # t => ticker'[u] = ticker[u]
    BY DEF EngineTyped, TickerTyped
  <1>2. ASSUME NEW u \in Tickers  PROVE TickerOK(u)'
    <2>1. /\ ticker'[u].auction \in Nat /\ ticker'[u].auction <= auctionSeq
          /\ ticker'[u].step \in {"close", "read"} => ticker'[u].auction # NoAuction
      BY <1>1, TickerAuction DEF TickerOK, TickerRow, AuctionIds, NoAuction
    <2>. QED  BY <2>1, SeqNext DEF TickerOK
  <1>. QED  BY <1>1, <1>2 DEF TickerTyped

-----------------------------------------------------------------------------
(***************************************************************************)
(* EngineTyped is inductive, one lemma for each kind of actor.             *)
(***************************************************************************)
LEMMA EngineTypedInit == EngineInit => EngineTyped
  <1> SUFFICES ASSUME EngineInit  PROVE EngineTyped
    OBVIOUS
  <1>1. ActiveTyped
    BY DEF EngineInit, ActiveTyped, EntryOK
  <1>2. MemTyped
    BY DEF EngineInit, MemTyped, Fresh, Memory
  <1>3. HandlerTyped
    BY DEF EngineInit, Init, HandlerTyped, HandlerOK, NoHandler, HandlerRow, Holding, Arriving,
           NoAuction
  <1>4. TickerTyped
    BY DEF EngineInit, Init, TickerTyped, TickerOK, NoTicker, TickerRow, NoAuction
  <1>5. SetupTyped /\ ToldTyped /\ EditedTyped
    BY DEF EngineInit, SetupTyped, SetupStep, ToldTyped, EditedTyped
  <1>. QED  BY <1>1, <1>2, <1>3, <1>4, <1>5 DEF EngineTyped

LEMMA EngineTypedChat ==
  ASSUME Typed, EngineTyped, Timed, NEW p \in Procs, ChatStep(p), [Next]_vars
  PROVE  EngineTyped'
  <1>0. SetupTyped'
    BY DEF EngineTyped, SetupTyped, SetupStep, ChatStep, ChatBid, FinishSetup, ChatCancel,
           ChatBidCommit, ChatBidReturn, ChatCancelCommit, ChatCancelReturn
  <1>1. TickerTyped'
    BY TickersKept DEF ChatStep, ChatBid, FinishSetup, ChatCancel, ChatBidCommit, ChatBidReturn,
                       ChatCancelCommit, ChatCancelReturn
  <1>2. ToldTyped' /\ EditedTyped'
    BY DEF EngineTyped, ToldTyped, EditedTyped, ChatStep, ChatBid, FinishSetup, ChatCancel,
           ChatBidCommit, ChatBidReturn, ChatCancelCommit, ChatCancelReturn
  <1>3. ASSUME NEW g \in Groups, ChatBid(p, g) \/ ChatCancel(p, g)
        PROVE  ActiveTyped' /\ MemTyped' /\ HandlerTyped'
    <2>1. UNCHANGED <<vars, active, mem>> /\ active[g] # NoAuction
      BY <1>3 DEF ChatBid, ChatCancel
    <2>2. ActiveTyped' /\ MemTyped'
      BY <2>1, EntriesKept DEF EngineTyped, MemTyped
    <2>3. PICK a \in AuctionIds : a = active[g]
      BY <2>1 DEF EngineTyped, ActiveTyped
    <2>4. a <= auctionSeq /\ Single(a)
      BY <2>1, <2>3 DEF EngineTyped, ActiveTyped, EntryOK
    <2>5. a <= auctionSeq' /\ Single(a)'
      BY <2>4, SingleKept
    <2>6. Await(p, "bid", g, a, NoTime) \/ Await(p, "cancel", g, a, NoTime)
      BY <1>3, <2>3 DEF ChatBid, ChatCancel
    <2>7. Only(p) /\ a # NoAuction
      BY <2>1 DEF vars, Only, AuctionIds, NoAuction
    <2>8. CASE Await(p, "bid", g, a, NoTime)
      BY <2>2, <2>5, <2>7, <2>8, Awaits DEF Arriving
    <2>9. CASE Await(p, "cancel", g, a, NoTime)
      BY <2>2, <2>5, <2>7, <2>9, Awaits DEF Arriving, Holding
    <2>. QED  BY <2>2, <2>6, <2>8, <2>9
  <1>4. ASSUME NEW g \in Groups, FinishSetup(p, g)
        PROVE  ActiveTyped' /\ MemTyped' /\ HandlerTyped'
    <2>1. UNCHANGED <<active, mem>>  BY <1>4 DEF FinishSetup
    <2>2. ActiveTyped' /\ MemTyped'
      BY <2>1, EntriesKept DEF EngineTyped, MemTyped
    <2>3. CASE StartCheck(p, g, NoItem, NoEvent) /\ Await(p, "starting", g, NoAuction, NoTime)
      <3>1. Only(p) /\ call'[p].step = "create" /\ call'[p].item = NoItem
            /\ call'[p].event = NoEvent
        BY <2>3, CheckOne
      <3>2. NoAuction <= auctionSeq'
        BY SeqNext DEF NoAuction
      <3>. QED  BY <2>2, <2>3, <3>1, <3>2, Awaits DEF Arriving, Holding
    <2>4. CASE UNCHANGED <<vars, handler>>
      BY <2>2, <2>4, HandlersKept DEF vars
    <2>. QED  BY <1>4, <2>3, <2>4 DEF FinishSetup
  <1>5. ASSUME ChatBidCommit(p)
        PROVE  ActiveTyped' /\ MemTyped' /\ HandlerTyped'
    <2>1. UNCHANGED <<active, mem, call>>  BY <1>5 DEF ChatBidCommit
    <2>2. ActiveTyped' /\ MemTyped'
      BY <2>1, EntriesKept DEF EngineTyped, MemTyped
    <2>3. Only(p)  BY <2>1 DEF Only
    <2>4. CASE Finish(p)
      BY <2>2, <2>3, <2>4, Finished
    <2>5. CASE ~Finish(p)
      <3>1. handler[p].step = "bid"  BY <1>5 DEF ChatBidCommit
      <3>2. PICK a \in AuctionIds, g \in Groups \cup {NoGroup} :
              a = handler[p].auction /\ g = handler[p].group
        BY <3>1, HandlerAuction DEF Holding
      <3>3. a <= auctionSeq /\ Single(a)
        BY <3>1, <3>2, HandlerAuction DEF HandlerOK, Holding
      <3>4. a <= auctionSeq' /\ Single(a)' /\ a # NoAuction
        BY <3>3, SingleKept DEF AuctionIds, NoAuction
      <3>5. PICK e \in {DeadlineAfterBid(a)} : Await(p, "placed", g, a, e)
        BY <1>5, <2>5, <3>2 DEF ChatBidCommit
      <3>6. Exists(a)
        BY <1>5, <2>5, <3>2 DEF ChatBidCommit, PlaceBid, Open, Exists
      <3>7. e \in Nat /\ e # NoTime
        <4>1. auction[a] \in AuctionRow /\ now \in Nat  BY DEF Typed, TypeOK
        <4>2. /\ auction[a].scheduledEndAt = NoTime
              /\ auction[a].duration \in Nat /\ auction[a].duration > 0
          BY <3>3, <3>6, <4>1 DEF Timed, Clocked, Single, AuctionRow
        <4>3. e = now + auction[a].duration
          BY <3>5, <4>2 DEF DeadlineAfterBid
        <4>. QED  BY <4>1, <4>2, <4>3 DEF NoTime
      <3>. QED  BY <2>2, <2>3, <3>4, <3>5, <3>7, Awaits
    <2>. QED  BY <2>4, <2>5
  <1>6. ASSUME ChatBidReturn(p)
        PROVE  ActiveTyped' /\ MemTyped' /\ HandlerTyped'
    <2>1. UNCHANGED vars /\ Finish(p) /\ handler[p].step = "placed"
      BY <1>6 DEF ChatBidReturn
    <2>2. Only(p)  BY <2>1 DEF vars, Only
    <2>3. PICK a \in AuctionIds : a = handler[p].auction
      BY <2>1, HandlerAuction DEF Holding, Arriving
    <2>4. /\ a <= auctionSeq /\ Single(a) /\ handler[p].endsAt # NoTime
          /\ handler[p].endsAt \in Nat \cup {NoTime}
      BY <2>1, <2>3, HandlerAuction DEF HandlerOK, Holding, Arriving
    <2> DEFINE m == [mem[a] EXCEPT !.endsAt = handler[p].endsAt]
    <2>5. mem[a] \in Memory  BY DEF EngineTyped, MemTyped
    <2>6. m \in Memory /\ m.endsAt = handler[p].endsAt
      BY <2>4, <2>5 DEF Memory
    <2>7. mem' = [mem EXCEPT ![a] = m] /\ active' = [active EXCEPT ![handler[p].group] = a]
      BY <1>6, <2>3 DEF ChatBidReturn, EngineTyped, MemTyped
    <2> HIDE DEF m
    <2>. QED  BY <2>1, <2>2, <2>4, <2>6, <2>7, Finished, EntrySet
  <1>7. ASSUME ChatCancelCommit(p)
        PROVE  ActiveTyped' /\ MemTyped' /\ HandlerTyped'
    <2>1. UNCHANGED <<active, mem, call>>  BY <1>7 DEF ChatCancelCommit
    <2>2. ActiveTyped' /\ MemTyped'
      BY <2>1, EntriesKept DEF EngineTyped, MemTyped
    <2>3. Only(p)  BY <2>1 DEF Only
    <2>4. PICK a \in AuctionIds \cup {NoAuction}, g \in Groups \cup {NoGroup} :
            a = handler[p].auction /\ g = handler[p].group
      BY HandlerAuction
    <2>5. a <= auctionSeq'
      BY <2>4, HandlerAuction, SeqNext DEF HandlerOK, AuctionIds, NoAuction
    <2>6. Finish(p) \/ Await(p, "cancelled", g, a, NoTime)
      BY <1>7, <2>4 DEF ChatCancelCommit
    <2>7. CASE Await(p, "cancelled", g, a, NoTime)
      BY <2>2, <2>3, <2>5, <2>7, Awaits DEF Holding, Arriving
    <2>. QED  BY <2>2, <2>3, <2>6, <2>7, Finished
  <1>8. ASSUME ChatCancelReturn(p)
        PROVE  ActiveTyped' /\ MemTyped' /\ HandlerTyped'
    <2>1. UNCHANGED <<vars, mem>> /\ Finish(p)
          /\ active' = [active EXCEPT ![handler[p].group] = NoAuction]
      BY <1>8 DEF ChatCancelReturn
    <2>2. Only(p)  BY <2>1 DEF vars, Only
    <2>3. MemTyped'  BY <2>1 DEF EngineTyped, MemTyped
    <2>. QED  BY <2>1, <2>2, <2>3, Finished, EntryDropped
  <1>. QED
    BY <1>0, <1>1, <1>2, <1>3, <1>4, <1>5, <1>6, <1>7, <1>8 DEF ChatStep, EngineTyped

\* The auction an insert makes is new, open and, outside a list, has its deadline.
LEMMA Created ==
  ASSUME Typed, NEW p \in Procs, StartCreate(p)
  PROVE  LET a == auctionSeq + 1 IN
         /\ a \in AuctionIds /\ auctionSeq' = a /\ call[p].step = "create"
         /\ auction'[a].event = call[p].event /\ auction'[a].status = "OPEN"
         /\ auction'[a].endsAt \in Nat
  <1>1. PICK initial \in InitialValues, step \in Steps, dur \in Durations \ {0} :
          InsertAuction(call[p].group, call[p].item, call[p].event, initial, dur, step,
                        call[p].at)
    BY DEF StartCreate
  <1>0. auctionSeq \in Nat /\ auctionSeq < MaxAuctions /\ MaxAuctions \in Nat
    BY <1>1, StoreAssumption DEF InsertAuction, Typed, TypeOK
  <1>2. auctionSeq + 1 \in AuctionIds /\ auctionSeq' = auctionSeq + 1
    BY <1>0, <1>1 DEF InsertAuction, AuctionIds
  <1>3. dur \in Nat /\ dur > 0 /\ call[p].at \in Nat
    BY StoreAssumption DEF Typed, TypeOK, Call
  <1>4. auction'[auctionSeq + 1] =
          [status |-> "OPEN", group |-> call[p].group, item |-> call[p].item,
           event |-> call[p].event,
           initial |-> initial, duration |-> dur, step |-> step, startedAt |-> call[p].at,
           endsAt |-> IF dur > 0 THEN call[p].at + dur ELSE NoTime,
           scheduledEndAt |-> NoTime, winner |-> NoBid]
    BY <1>1, <1>2 DEF InsertAuction, Typed, TypeOK
  <1>5. call[p].step = "create"  BY DEF StartCreate
  <1>. QED  BY <1>2, <1>3, <1>4, <1>5

LEMMA EngineTypedPanel ==
  ASSUME Typed, EngineTyped, Timed, NEW p \in Procs, PanelStart(p), [Next]_vars
  PROVE  EngineTyped'
  <1>1. SetupTyped' /\ TickerTyped' /\ ToldTyped' /\ EditedTyped'
    BY TickersKept DEF EngineTyped, SetupTyped, ToldTyped, EditedTyped, PanelStart,
           StartFromPanel, engineVars, CreateAuction, OpenEntry, MarkStarted, Launch
  <1>2. ASSUME StartFromPanel(p)
        PROVE  ActiveTyped' /\ MemTyped' /\ HandlerTyped'
    <2>1. UNCHANGED <<active, mem, handler>> /\ handler[p] = NoHandler
      BY <1>2 DEF StartFromPanel, engineVars, Free
    <2>2. Only(p)
      BY <1>2, CheckOne, InsertOne DEF StartFromPanel
    <2>3. handler[p].step # "starting"
      BY <2>1 DEF NoHandler
    <2>. QED  BY <2>1, <2>2, <2>3, EntriesKept, HandlersKept DEF EngineTyped, MemTyped, Only
  <1>3. ASSUME CreateAuction(p)
        PROVE  ActiveTyped' /\ MemTyped' /\ HandlerTyped'
    <2>1. UNCHANGED <<active, mem>> /\ StartCreate(p)
      BY <1>3 DEF CreateAuction
    <2>2. ActiveTyped' /\ MemTyped'
      BY <2>1, EntriesKept DEF EngineTyped, MemTyped
    <2>3. Only(p)  BY <2>1, InsertOne
    <2>4. PICK a \in AuctionIds : a = auctionSeq + 1 /\ auctionSeq' = a
      BY <2>1, Created
    <2>5. auction'[a].event = call[p].event /\ auction'[a].endsAt \in Nat
      BY <2>1, <2>4, Created
    <2>6. PICK e \in Nat : e = auction'[a].endsAt
      BY <2>5
    <2>7. e # NoTime /\ a # NoAuction /\ a <= auctionSeq'
      BY <2>4 DEF NoTime, AuctionIds, NoAuction
    <2>8. CASE handler[p].step = "starting"
      <3>1. PICK g \in Groups \cup {NoGroup} : g = handler[p].group
        BY HandlerAuction
      <3>2. Await(p, "open", g, a, e)
        BY <1>3, <2>4, <2>6, <2>8, <3>1 DEF CreateAuction
      <3>3. call[p].event = NoEvent
        BY <2>8, HandlerAuction DEF HandlerOK
      <3>4. Single(a)'  BY <2>5, <3>3 DEF Single
      <3>. QED  BY <2>2, <2>3, <2>7, <3>2, <3>4, Awaits
    <2>9. CASE handler[p].step = "idle" /\ call[p].item # NoItem /\ call[p].event = NoEvent
      <3>1. PICK g \in Groups \cup {NoGroup} : g = call[p].group
        BY DEF Typed, TypeOK, Call
      <3>2. Await(p, "marking", g, a, e)
        BY <1>3, <2>4, <2>6, <2>9, <3>1 DEF CreateAuction
      <3>3. Single(a)'  BY <2>5, <2>9 DEF Single
      <3>. QED  BY <2>2, <2>3, <2>7, <3>2, <3>3, Awaits
    <2>10. CASE UNCHANGED handler /\ handler[p].step # "starting"
      BY <2>2, <2>3, <2>10, HandlersKept DEF Only
    <2>. QED  BY <1>3, <2>8, <2>9, <2>10 DEF CreateAuction
  <1>4. ASSUME OpenEntry(p) \/ Launch(p)
        PROVE  ActiveTyped' /\ MemTyped' /\ HandlerTyped'
    <2>1. UNCHANGED vars /\ Finish(p) /\ handler[p].step \in {"open", "launch"}
      BY <1>4 DEF OpenEntry, Launch
    <2>2. Only(p)  BY <2>1 DEF vars, Only
    <2>3. HandlerTyped'  BY <2>1, <2>2, Finished
    <2>4. CASE UNCHANGED <<mem, active>>
      BY <2>3, <2>4, EntriesKept DEF EngineTyped, MemTyped
    <2>5. CASE ~UNCHANGED <<mem, active>>
      <3>1. PICK a \in AuctionIds : a = handler[p].auction
        BY <2>1, HandlerAuction DEF Holding, Arriving
      <3>2. /\ a <= auctionSeq /\ Single(a) /\ handler[p].endsAt # NoTime
            /\ handler[p].endsAt \in Nat \cup {NoTime}
        BY <2>1, <3>1, HandlerAuction DEF HandlerOK, Holding, Arriving
      <3>3. Fresh(handler[p].endsAt) \in Memory
            /\ Fresh(handler[p].endsAt).endsAt = handler[p].endsAt
        BY <3>2 DEF Fresh, Memory
      <3>4. mem' = [mem EXCEPT ![a] = Fresh(handler[p].endsAt)]
            /\ active' = [active EXCEPT ![handler[p].group] = a]
        BY <1>4, <2>5, <3>1 DEF OpenEntry, Launch
      <3>. QED  BY <2>3, <3>2, <3>3, <3>4, EntrySet
    <2>. QED  BY <2>4, <2>5
  <1>5. ASSUME MarkStarted(p)
        PROVE  ActiveTyped' /\ MemTyped' /\ HandlerTyped'
    <2>1. UNCHANGED <<active, mem>> /\ call[p].step = "mark" /\ MarkItemOnAuction(p)
      BY <1>5 DEF MarkStarted, MarkItemOnAuction
    <2>2. ActiveTyped' /\ MemTyped'
      BY <2>1, EntriesKept DEF EngineTyped, MemTyped
    <2>3. Only(p)  BY <2>1, InsertOne
    <2>4. handler[p].step # "starting"
      BY <2>1, HandlerAuction DEF HandlerOK
    <2>5. CASE handler[p].step # "marking"
      <3>1. UNCHANGED handler
        BY <1>5, <2>5 DEF MarkStarted, EngineTyped, HandlerTyped, HandlerRow
      <3>. QED  BY <2>2, <2>3, <2>4, <3>1, HandlersKept DEF Only
    <2>6. CASE handler[p].step = "marking"
      <3>1. PICK h \in HandlerRow : h = handler[p]
        BY HandlerAuction
      <3>2. /\ h.auction \in AuctionIds /\ h.auction <= auctionSeq /\ Single(h.auction)
            /\ h.endsAt # NoTime
        BY <2>6, <3>1, HandlerAuction DEF HandlerOK, Holding, Arriving
      <3>3. h.auction <= auctionSeq' /\ Single(h.auction)'
        BY <3>2, SingleKept
      <3> DEFINE l == [h EXCEPT !.step = "launch"]
      <3>4. l \in HandlerRow /\ l.step = "launch" /\ l.auction = h.auction /\ l.endsAt = h.endsAt
        BY DEF HandlerRow
      <3>5. handler' = [handler EXCEPT ![p] = l]
        BY <1>5, <2>6, <3>1 DEF MarkStarted, EngineTyped, HandlerTyped
      <3> HIDE DEF l
      <3>6. handler'[p] = l
        BY <3>5 DEF EngineTyped, HandlerTyped
      <3>7. h.auction # NoAuction
        BY <3>2 DEF AuctionIds, NoAuction
      <3>8. HandlerOK(p)'
        BY <3>2, <3>3, <3>4, <3>6, <3>7 DEF HandlerOK, Single, Exists
      <3>. QED  BY <2>2, <2>3, <3>4, <3>5, <3>8, HandlerSet
    <2>. QED  BY <2>5, <2>6
  <1>. QED  BY <1>1, <1>2, <1>3, <1>4, <1>5 DEF PanelStart, EngineTyped

\* A set of ids that is not empty has a greatest one.
LEMMA Greatest ==
  ASSUME NEW N \in Nat, NEW S, S \subseteq 1 .. N, S # {}
  PROVE  \E x \in S : \A y \in S : y <= x
  <1>0. IsFiniteSet(1 .. N)
    BY FS_Interval
  <1>F. FiniteSubsetsOf(1 .. N) = SUBSET (1 .. N)
    BY <1>0, FS_FiniteSubsetsOfFinite
  <1> DEFINE Above(x) == {c \in 1 .. N : x < c}
             T == {Above(x) : x \in S}
             R == StrictSubsetOrdering(1 .. N)
             F == FiniteSubsetsOf(1 .. N)
  <1>1. IsWellFoundedOn(R, F)
    BY FS_StrictSubsetOrderingWellFounded
  <1>2. T \subseteq F /\ T # {}
    <2>1. \A x \in S : Above(x) \in F
      BY <1>F
    <2>. QED  BY <2>1
  <1>3. PICK t \in T : \A u \in T : ~(<<u, t>> \in R)
    <2> HIDE DEF R, T, F
    <2>. QED  BY <1>1, <1>2, WFMin
  <1>4. PICK x \in S : t = Above(x)
    OBVIOUS
  <1>5. ASSUME NEW y \in S, x < y  PROVE FALSE
    <2>1. y \in Above(x) /\ y \notin Above(y)  BY <1>5
    <2>2. Above(y) \subseteq Above(x)  BY <1>5
    <2>3. <<Above(y), Above(x)>> \in R
      BY <2>1, <2>2 DEF StrictSubsetOrdering
    <2>. QED  BY <1>3, <1>4, <2>3
  <1>. QED  BY <1>5

\* The latest bid of an auction is one of its bids, and none comes after it.
LEMMA LatestIsBid ==
  ASSUME NEW a \in AuctionIds
  PROVE  /\ LatestBid(a) \in BidIds \cup {NoBid}
         /\ BidsOf(a) # {} => LatestBid(a) \in BidsOf(a) /\ \A c \in BidsOf(a) : c <= LatestBid(a)
  <1>1. CASE BidsOf(a) = {}
    BY <1>1 DEF LatestBid
  <1>2. CASE BidsOf(a) # {}
    <2>1. BidsOf(a) \subseteq 1 .. MaxBids /\ MaxBids \in Nat
      BY StoreAssumption DEF BidsOf, BidIds
    <2>2. \E b \in BidsOf(a) : \A c \in BidsOf(a) : c <= b
      BY <1>2, <2>1, Greatest
    <2>3. LatestBid(a) = CHOOSE b \in BidsOf(a) : \A c \in BidsOf(a) : c <= b
      BY <1>2 DEF LatestBid
    <2>4. LatestBid(a) \in BidsOf(a) /\ \A c \in BidsOf(a) : c <= LatestBid(a)
      BY <2>2, <2>3
    <2>. QED  BY <2>1, <2>4 DEF BidIds
  <1>. QED  BY <1>1, <1>2

LEMMA EngineTypedTick ==
  ASSUME Typed, EngineTyped, NEW t \in Tickers, TickStep(t), [Next]_vars
  PROVE  EngineTyped'
  <1>0. SetupTyped' /\ EditedTyped'
    BY DEF EngineTyped, SetupTyped, EditedTyped, TickStep, TickVisit, TickClose, TickAnnounce,
           TickDelete
  <1>1. HandlerTyped'
    BY HandlersKept DEF TickStep, TickVisit, TickClose, TickAnnounce, TickDelete, vars
  <1>2. PICK r \in TickerRow : r = ticker[t]
    BY TickerAuction
  <1>3. /\ r.auction <= auctionSeq
        /\ r.step \in {"close", "read"} => r.auction # NoAuction
        /\ r.auction \in AuctionIds \cup {NoAuction} /\ r.group \in Groups \cup {NoGroup}
    BY <1>2, TickerAuction DEF TickerOK
  <1>4. ASSUME NEW g \in Groups, TickVisit(t, g)
        PROVE  ActiveTyped' /\ MemTyped' /\ TickerTyped' /\ ToldTyped'
    <2>1. active[g] # NoAuction /\ UNCHANGED <<vars, announced>>
      BY <1>4 DEF TickVisit, Due
    <2>2. PICK a \in AuctionIds : a = active[g]
      BY <2>1 DEF EngineTyped, ActiveTyped
    <2>3. ToldTyped'  BY <2>1 DEF EngineTyped, ToldTyped
    <2>4. CASE mem[a].closed
      <3>1. active' = [active EXCEPT ![g] = NoAuction] /\ UNCHANGED <<mem, ticker>>
        BY <1>4, <2>2, <2>4 DEF TickVisit
      <3>. QED
        BY <2>3, <3>1, EntryDropped, TickersKept DEF EngineTyped, MemTyped
    <2>5. CASE ~mem[a].closed
      <3> DEFINE m == [mem[a] EXCEPT !.closed = TRUE]
                 s == [step |-> "close", group |-> g, auction |-> a]
      <3>1. UNCHANGED active /\ ticker' = [ticker EXCEPT ![t] = s]
        BY <1>4, <2>2, <2>5 DEF TickVisit
      <3>2. mem[a] \in Memory  BY DEF EngineTyped, MemTyped
      <3>3. mem' = [mem EXCEPT ![a] = m]
        BY <1>4, <2>2, <2>5 DEF TickVisit, EngineTyped, MemTyped
      <3>4. m \in Memory /\ m.endsAt = mem[a].endsAt
        BY <3>2 DEF Memory
      <3>5. s \in TickerRow /\ s.auction = a
        BY DEF TickerRow
      <3>6. a <= auctionSeq /\ a # NoAuction
        BY <2>1, <2>2 DEF EngineTyped, ActiveTyped, EntryOK
      <3> HIDE DEF m, s
      <3>7. MemTyped' /\ \A c \in AuctionIds : mem'[c].endsAt = mem[c].endsAt
        BY <3>3, <3>4 DEF EngineTyped, MemTyped
      <3>8. ActiveTyped'  BY <3>1, <3>7, EntriesKept
      <3>9. TickerTyped'  BY <3>1, <3>5, <3>6, TickerSet
      <3>. QED  BY <2>3, <3>7, <3>8, <3>9
    <2>. QED  BY <2>4, <2>5
  <1>5. ASSUME TickClose(t)
        PROVE  ActiveTyped' /\ MemTyped' /\ TickerTyped' /\ ToldTyped'
    <2>1. UNCHANGED <<active, mem, announced>> /\ r.step = "close"
      BY <1>2, <1>5 DEF TickClose
    <2>2. ActiveTyped' /\ MemTyped' /\ ToldTyped'
      BY <2>1, EntriesKept DEF EngineTyped, MemTyped, ToldTyped
    <2>3. PICK step \in {"read", "delete"} : ticker' = [ticker EXCEPT ![t].step = step]
      BY <1>5 DEF TickClose
    <2> DEFINE s == [r EXCEPT !.step = step]
    <2>4. ticker' = [ticker EXCEPT ![t] = s]
      BY <1>2, <2>3 DEF EngineTyped, TickerTyped
    <2>5. s \in TickerRow /\ s.auction = r.auction
      BY DEF TickerRow
    <2> HIDE DEF s
    <2>6. TickerTyped'  BY <1>3, <2>1, <2>4, <2>5, TickerSet
    <2>. QED  BY <2>2, <2>6
  <1>6. ASSUME TickAnnounce(t)
        PROVE  ActiveTyped' /\ MemTyped' /\ TickerTyped' /\ ToldTyped'
    <2>1. UNCHANGED <<vars, active, mem>> /\ r.step = "read"
      BY <1>2, <1>6 DEF TickAnnounce
    <2>2. ActiveTyped' /\ MemTyped'
      BY <2>1, EntriesKept DEF EngineTyped, MemTyped
    <2> DEFINE s == [r EXCEPT !.step = "delete"]
    <2>3. ticker' = [ticker EXCEPT ![t] = s]
      BY <1>2, <1>6 DEF TickAnnounce, EngineTyped, TickerTyped
    <2>4. s \in TickerRow /\ s.auction = r.auction /\ s.step = "delete"
      BY DEF TickerRow
    <2> HIDE DEF s
    <2>5. TickerTyped'  BY <1>3, <2>3, <2>4, TickerSet
    <2>6. PICK a \in AuctionIds : a = r.auction
      BY <1>3, <2>1
    <2>7. PICK w \in BidIds \cup {NoBid} : w = LatestBid(a)
      BY LatestIsBid
    <2>8. announced' = [announced EXCEPT ![a] = [times |-> announced[a].times + 1, winner |-> w]]
      BY <1>2, <1>6, <2>6, <2>7 DEF TickAnnounce, EngineTyped, ToldTyped
    <2>9. announced[a].times + 1 \in Nat
      BY DEF EngineTyped, ToldTyped
    <2>10. ToldTyped'  BY <2>8, <2>9 DEF EngineTyped, ToldTyped
    <2>. QED  BY <2>2, <2>5, <2>10
  <1>7. ASSUME TickDelete(t)
        PROVE  ActiveTyped' /\ MemTyped' /\ TickerTyped' /\ ToldTyped'
    <2>1. UNCHANGED <<vars, mem, announced>>
          /\ active' = [active EXCEPT ![ticker[t].group] = NoAuction]
          /\ ticker' = [ticker EXCEPT ![t] = NoTicker]
      BY <1>7 DEF TickDelete
    <2>2. ActiveTyped'  BY <2>1, EntryDropped
    <2>3. NoTicker \in TickerRow /\ NoTicker.step = "idle" /\ NoTicker.auction <= auctionSeq
      BY DEF NoTicker, TickerRow, NoAuction, Typed, TypeOK
    <2>4. TickerTyped'  BY <2>1, <2>3, TickerSet
    <2>. QED  BY <2>1, <2>2, <2>4 DEF EngineTyped, MemTyped, ToldTyped
  <1>. QED
    BY <1>0, <1>1, <1>4, <1>5, <1>6, <1>7 DEF TickStep, EngineTyped

\* The panel's edits write the record of their own call.
LEMMA EditOne ==
  ASSUME Typed, NEW q \in Procs, EditStep(q) \/ RemoveStep(q) \/ ClearStep(q)
  PROVE  Only(q)
  <1>1. CASE Return(q)
    BY <1>1, ReturnOne
  <1>2. CASE \/ \E a \in AuctionIds : UpdateAuctionRead(q, a) \/ ScheduleEndRead(q, a)
             \/ \E b \in BidIds : UpdateBidRead(q, b) \/ RemoveBidRead(q, b)
    BY <1>2, BeginOne DEF UpdateAuctionRead, ScheduleEndRead, UpdateBidRead, RemoveBidRead
  <1>3. CASE DeleteBid(q) \/ ResetLeaders(q) \/ FindNextLeader(q) \/ MarkLeader(q) \/ ClearHistory(q)
    BY <1>1, <1>3 DEF DeleteBid, ResetLeaders, FindNextLeader, MarkLeader, ClearHistory, Goto,
                      Typed, TypeOK, Only
  <1>4. CASE UpdateAuctionWrite(q) \/ ScheduleEndWrite(q) \/ UpdateBidWrite(q)
             \/ SettleWinner(q) \/ ClearItems(q)
    BY <1>1, <1>4 DEF UpdateAuctionWrite, ScheduleEndWrite, UpdateBidWrite, SettleWinner,
                      ClearItems
  <1>. QED  BY <1>2, <1>3, <1>4 DEF EditStep, RemoveStep, ClearStep

\* What loadActiveAuctions puts back is open, outside lists, and has a deadline.
LEMMA Recovered ==
  ASSUME Typed, NEW g \in Groups, NEW a \in Recoverable(g)
  PROVE  /\ a \in AuctionIds /\ Open(a) /\ auction[a].event = NoEvent
         /\ auction[a].endsAt \in Nat /\ a <= auctionSeq
  <1>1. a \in AuctionIds /\ Open(a) /\ auction[a].event = NoEvent /\ auction[a].endsAt # NoTime
    BY DEF Recoverable
  <1>2. auction[a] \in AuctionRow  BY <1>1 DEF Typed, TypeOK
  <1>3. a <= auctionSeq  BY <1>1 DEF Typed, SeqOK, Open, Exists
  <1>. QED  BY <1>1, <1>2, <1>3 DEF AuctionRow

LEMMA EngineTypedRestart ==
  ASSUME Typed, EngineTyped, Restart
  PROVE  EngineTyped'
  <1>0. UNCHANGED <<auction, auctionSeq, announced, edited>>
    BY DEF Restart, Crash
  <1>1. EditedTyped' /\ ToldTyped'
    BY <1>0 DEF EngineTyped, EditedTyped, ToldTyped
  <1>2. SetupTyped'
    BY DEF Restart, SetupTyped, SetupStep
  <1>3. HandlerTyped'
    BY <1>0 DEF Restart, HandlerTyped, HandlerOK, NoHandler, HandlerRow, Holding, Arriving,
           NoAuction, Typed, TypeOK
  <1>4. TickerTyped'
    BY <1>0 DEF Restart, TickerTyped, TickerOK, NoTicker, TickerRow, NoAuction, Typed, TypeOK
  <1>5. MemTyped'
    <2>1. Fresh(NoTime) \in Memory  BY DEF Fresh, Memory
    <2>2. \A a \in AuctionIds : (\E g \in Groups : a \in Recoverable(g))
                                   => Fresh(auction[a].endsAt) \in Memory
      BY Recovered DEF Fresh, Memory
    <2>. QED  BY <2>1, <2>2 DEF Restart, MemTyped
  <1>6. ASSUME NEW g \in Groups  PROVE EntryOK(g)'
    <2>1. active'[g] = NoAuction \/ active'[g] \in Recoverable(g)
      BY DEF Restart
    <2>2. CASE active'[g] = NoAuction
      BY <2>2 DEF EntryOK
    <2>3. CASE active'[g] \in Recoverable(g)
      <3>1. PICK a \in Recoverable(g) : a = active'[g]
        BY <2>3
      <3>2. /\ a \in AuctionIds /\ auction[a].event = NoEvent
            /\ auction[a].endsAt \in Nat /\ a <= auctionSeq
        BY <3>1, Recovered
      <3>3. mem'[a] = Fresh(auction[a].endsAt)
        BY <3>1, <3>2 DEF Restart
      <3>4. mem'[a].endsAt # NoTime
        BY <3>2, <3>3 DEF Fresh, NoTime
      <3>5. Single(a)'  BY <1>0, <3>2 DEF Single
      <3>. QED  BY <1>0, <3>1, <3>2, <3>4, <3>5 DEF EntryOK, Single, Exists
    <2>. QED  BY <2>1, <2>2, <2>3
  <1>7. active' \in [Groups -> AuctionIds \cup {NoAuction}]
    BY DEF Restart
  <1>. QED  BY <1>1, <1>2, <1>3, <1>4, <1>5, <1>6, <1>7 DEF EngineTyped, ActiveTyped

LEMMA EngineTypedNext ==
  ASSUME Typed, EngineTyped, Timed, [EngineNext]_allVars
  PROVE  EngineTyped'
  <1>0. [Next]_vars  BY StoreStep
  <1> DEFINE others == <<mem, handler, ticker, announced>>
  <1>1. ASSUME UNCHANGED <<active, others>>, SetupTyped', EditedTyped',
               \A p \in Procs : handler[p].step = "starting" => call'[p] = call[p]
        PROVE  EngineTyped'
    BY <1>0, <1>1, EntriesKept, HandlersKept, TickersKept
       DEF EngineTyped, MemTyped, ToldTyped
  <1>2. CASE UNCHANGED allVars
    BY <1>1, <1>2 DEF allVars, engineVars, vars, EngineTyped, SetupTyped, EditedTyped
  <1>3. ASSUME NEW p \in Editors, PanelEdit(p)  PROVE EngineTyped'
    <2>1. p \in Procs  BY EngineAssumption
    <2>2. Only(p) /\ handler[p].step # "starting"
      BY <1>3, <2>1, EditOne DEF PanelEdit, NoHandler
    <2>3. UNCHANGED <<active, others>> /\ SetupTyped' /\ EditedTyped'
      BY <1>3 DEF PanelEdit, EngineTyped, SetupTyped, EditedTyped
    <2>. QED  BY <1>1, <2>2, <2>3 DEF Only
  <1>4. ASSUME NEW g \in Groups, StartSetup(g) \/ AnswerSetup(g)  PROVE EngineTyped'
    <2>1. UNCHANGED <<vars, active, others>> /\ EditedTyped'
      BY <1>4 DEF StartSetup, AnswerSetup, EngineTyped, EditedTyped
    <2>2. SetupTyped'
      BY <1>4 DEF StartSetup, AnswerSetup, EngineTyped, SetupTyped, SetupStep
    <2>. QED  BY <1>1, <2>1, <2>2 DEF vars
  <1>5. ASSUME PanelEnd \/ SweepStep \/ ClockStep  PROVE EngineTyped'
    <2>1. UNCHANGED engineVars /\ UNCHANGED call
      BY <1>5 DEF PanelEnd, Close, Cancel, SweepStep, ReadExpired, SweepClose, ClockStep, Tick
    <2>. QED  BY <1>1, <2>1 DEF engineVars, EngineTyped, SetupTyped, EditedTyped
  <1>. QED
    BY <1>0, <1>2, <1>3, <1>4, <1>5, EngineTypedChat, EngineTypedPanel, EngineTypedTick,
       EngineTypedRestart DEF EngineNext

-----------------------------------------------------------------------------
(***************************************************************************)
(* The tables, seen from the engine: its steps are theirs, so what is      *)
(* proved of AuctionStore holds here too.                                  *)
(***************************************************************************)
EngineSafe == Typed /\ Timed /\ EngineTyped

LEMMA SafeInitially == EngineInit => EngineSafe
  BY TypedInit, TimedInit, EngineTypedInit DEF EngineInit, EngineSafe

LEMMA SafeOnwards ==
  ASSUME EngineSafe, [EngineNext]_allVars
  PROVE  EngineSafe' /\ [Next]_vars
  BY StoreStep, TypedNext, TimedNext, EngineTypedNext DEF EngineSafe

LEMMA AlwaysSafe == EngineSpec => []EngineSafe
  BY SafeInitially, SafeOnwards, PTL DEF EngineSpec

\* The engine writes the tables only in the ways AuctionStore describes.
THEOREM EngineUsesStore == EngineSpec => Spec
  <1>1. EngineInit => Init
    BY DEF EngineInit
  <1>2. EngineSafe /\ [EngineNext]_allVars => [Next]_vars
    BY SafeOnwards
  <1>. QED  BY <1>1, <1>2, AlwaysSafe, PTL DEF EngineSpec, Spec

\* The engine implements the ascending auction promised to bidders, whatever its handlers,
\* ticks, restarts and the panel do: its tables do (AuctionEngine, AuctionsService).
THEOREM EngineRefinement == EngineSpec => RefinesAscendingAuction
  BY EngineUsesStore, Refinement

\* Entries, handlers and tickers keep their types, and an entry of the map is an
\* auction that was created and has a deadline.
THEOREM EngineTypeCorrect == EngineSpec => []EngineTypeOK
  <1>1. EngineSafe => EngineTypeOK
    BY DEF EngineSafe, EngineTyped, Typed, EngineTypeOK, ActiveTyped, EntryOK, MemTyped,
           SetupTyped, HandlerTyped, TickerTyped, ToldTyped, EditedTyped
  <1>. QED  BY <1>1, AlwaysSafe, PTL

-----------------------------------------------------------------------------
(***************************************************************************)
(* One announcement per auction.  An auction is waiting for its entry, or  *)
(* is within reach of the map (in it, or in the hands of a bid that will   *)
(* put it back), or is being closed by a run of tick(), or was announced.  *)
(* `closed` is what keeps the third and the fourth apart from the second,  *)
(* and a restart loses it: then it is the row, which is over, that keeps   *)
(* the auction out of the map.                                             *)
(***************************************************************************)
Pending(p, a) == handler[p].step \in {"open", "marking", "launch"} /\ handler[p].auction = a
Bidding(p, a) == handler[p].step \in {"bid", "placed"} /\ handler[p].auction = a
Reach(a)      == (\E g \in Groups : active[g] = a) \/ (\E p \in Procs : Bidding(p, a))
Reading(t, a) == ticker[t].step = "read" /\ ticker[t].auction = a
Working(t, a) == ticker[t].step \in {"close", "read"} /\ ticker[t].auction = a

ToldOnce(a) ==
    /\ announced[a].times <= 1
    /\ \A t, u \in Tickers : Working(t, a) /\ Working(u, a) => t = u
    /\ \A t \in Tickers : Working(t, a) => announced[a].times = 0

ToldOver(a) ==
    (\E t \in Tickers : Reading(t, a)) \/ announced[a].times > 0 => ~Open(a) /\ a <= auctionSeq

ToldClosed(a) ==
    (\E t \in Tickers : Working(t, a)) \/ announced[a].times > 0 => mem[a].closed \/ ~Reach(a)

ToldLater(a) ==
    \A p \in Procs : Pending(p, a) =>
        /\ ~Reach(a) /\ announced[a].times = 0
        /\ \A t \in Tickers : ~Working(t, a)
        /\ \A q \in Procs : Pending(q, a) => q = p

Told(a) == ToldOnce(a) /\ ToldOver(a) /\ ToldClosed(a) /\ ToldLater(a)

\* An auction that is over stays so.
LEMMA OverKept ==
  ASSUME Typed, [Next]_vars, NEW a \in AuctionIds, ~Open(a), a <= auctionSeq
  PROVE  ~Open(a)' /\ a <= auctionSeq'
  <1>1. a <= auctionSeq'  BY SeqNext DEF AuctionIds
  <1>. QED  BY <1>1, RowKept DEF Open, Exists

\* Nothing about the auction changes but what can be lost.
ToldKept(a) ==
    /\ announced'[a] = announced[a] /\ mem'[a].closed = mem[a].closed
    /\ \A t \in Tickers : /\ Working(t, a)' => Working(t, a)
                          /\ Reading(t, a)' => Reading(t, a)
    /\ Reach(a)' => Reach(a)
    /\ \A p \in Procs : Pending(p, a)' => Pending(p, a)

LEMMA ToldSame ==
  ASSUME Typed, EngineTyped, [Next]_vars, NEW a \in AuctionIds, Told(a), ToldKept(a)
  PROVE  Told(a)'
  <1>1. ToldOnce(a)'
    BY DEF Told, ToldKept, ToldOnce
  <1>2. ToldOver(a)'
    BY OverKept DEF Told, ToldKept, ToldOver
  <1>3. ToldClosed(a)'
    BY DEF Told, ToldKept, ToldClosed
  <1>4. ToldLater(a)'
    BY DEF Told, ToldKept, ToldLater
  <1>. QED  BY <1>1, <1>2, <1>3, <1>4 DEF Told

\* What a handler holds after it awaits or ends.
LEMMA AwaitWrites ==
  ASSUME EngineTyped, NEW p \in Procs, NEW step, NEW g, NEW a, NEW e, Await(p, step, g, a, e)
  PROVE  /\ handler'[p].step = step /\ handler'[p].auction = a /\ handler'[p].endsAt = e
         /\ \A q \in Procs : q # p => handler'[q] = handler[q]
  <1> DEFINE h == [step |-> step, group |-> g, auction |-> a, endsAt |-> e]
  <1>1. h.step = step /\ h.auction = a /\ h.endsAt = e
    OBVIOUS
  <1>2. handler' = [handler EXCEPT ![p] = h]
    BY DEF Await
  <1> HIDE DEF h
  <1>3. handler'[p] = h /\ \A q \in Procs : q # p => handler'[q] = handler[q]
    BY <1>2 DEF EngineTyped, HandlerTyped
  <1>. QED  BY <1>1, <1>3

LEMMA FinishWrites ==
  ASSUME EngineTyped, NEW p \in Procs, Finish(p)
  PROVE  /\ handler'[p].step = "idle" /\ handler'[p].auction = NoAuction
         /\ \A q \in Procs : q # p => handler'[q] = handler[q]
  BY DEF Finish, EngineTyped, HandlerTyped, NoHandler

LEMMA TickWrites ==
  ASSUME EngineTyped, NEW t \in Tickers, NEW r, ticker' = [ticker EXCEPT ![t] = r]
  PROVE  ticker'[t] = r /\ \A u \in Tickers : u # t => ticker'[u] = ticker[u]
  BY DEF EngineTyped, TickerTyped

\* An auction that does not exist yet is in nobody's hands.
LEMMA NotYet ==
  ASSUME Typed, EngineTyped, NEW a \in AuctionIds, a > auctionSeq
  PROVE  /\ ~Reach(a) /\ \A p \in Procs : ~Pending(p, a)
         /\ \A t \in Tickers : ~Working(t, a)
  <1>0. auctionSeq \in Nat /\ a \in Nat /\ a # NoAuction /\ ~(a <= auctionSeq)
    BY DEF Typed, TypeOK, AuctionIds, NoAuction
  <1>1. \A g \in Groups : active[g] # a
    BY <1>0 DEF EngineTyped, ActiveTyped, EntryOK
  <1>2. \A p \in Procs : handler[p].auction # a
    BY <1>0, HandlerAuction DEF HandlerOK
  <1>3. \A t \in Tickers : ticker[t].auction # a
    BY <1>0, TickerAuction DEF TickerOK
  <1>. QED  BY <1>1, <1>2, <1>3 DEF Reach, Bidding, Pending, Working

\* What the new value of one handler must not bring about.
LEMMA ToldHandler ==
  ASSUME Typed, EngineTyped, [Next]_vars, NEW a \in AuctionIds, Told(a), NEW p \in Procs,
         UNCHANGED <<ticker, announced>>, mem'[a].closed = mem[a].closed,
         \A g \in Groups : active'[g] = a => Reach(a),
         \A q \in Procs : q # p => handler'[q] = handler[q],
         Bidding(p, a)' => Reach(a), Pending(p, a)' => Pending(p, a)
  PROVE  Told(a)'
  <1>1. \A q \in Procs : q # p => /\ Bidding(q, a)' => Bidding(q, a)
                                  /\ Pending(q, a)' => Pending(q, a)
    BY DEF Bidding, Pending
  <1>2. Reach(a)' => Reach(a)
    BY <1>1 DEF Reach
  <1>3. \A t \in Tickers : /\ Working(t, a)' => Working(t, a)
                           /\ Reading(t, a)' => Reading(t, a)
    BY DEF Working, Reading
  <1>4. ToldKept(a)
    BY <1>1, <1>2, <1>3 DEF ToldKept
  <1>. QED  BY <1>4, ToldSame

LEMMA ToldChat ==
  ASSUME EngineSafe, NEW p \in Procs, ChatStep(p), [Next]_vars,
         NEW a \in AuctionIds, Told(a)
  PROVE  Told(a)'
  <1>0. Typed /\ EngineTyped  BY DEF EngineSafe
  <1>1. ASSUME NEW g \in Groups, ChatBid(p, g) \/ ChatCancel(p, g)
        PROVE  Told(a)'
    <2>1. UNCHANGED <<active, mem, ticker, announced>>
      BY <1>1 DEF ChatBid, ChatCancel
    <2>2. Await(p, "bid", g, active[g], NoTime) \/ Await(p, "cancel", g, active[g], NoTime)
      BY <1>1 DEF ChatBid, ChatCancel
    <2>3. /\ handler'[p].step \in {"bid", "cancel"} /\ handler'[p].auction = active[g]
          /\ \A q \in Procs : q # p => handler'[q] = handler[q]
      BY <1>0, <2>2, AwaitWrites
    <2>. QED  BY <1>0, <2>1, <2>3, ToldHandler DEF Reach, Bidding, Pending
  <1>2. ASSUME NEW g \in Groups, FinishSetup(p, g)
        PROVE  Told(a)'
    <2>1. UNCHANGED <<active, mem, ticker, announced>>
      BY <1>2 DEF FinishSetup
    <2>2. CASE Await(p, "starting", g, NoAuction, NoTime)
      <3>1. /\ handler'[p].step = "starting"
            /\ \A q \in Procs : q # p => handler'[q] = handler[q]
        BY <1>0, <2>2, AwaitWrites
      <3>. QED  BY <1>0, <2>1, <3>1, ToldHandler DEF Reach, Bidding, Pending
    <2>3. CASE UNCHANGED handler
      BY <1>0, <2>1, <2>3, ToldHandler DEF Reach, Bidding, Pending
    <2>. QED  BY <1>2, <2>2, <2>3 DEF FinishSetup
  <1>3. CASE ChatBidCommit(p) \/ ChatCancelCommit(p)
    <2>1. UNCHANGED <<active, mem, ticker, announced>>
      BY <1>3 DEF ChatBidCommit, ChatCancelCommit
    <2>2. CASE Finish(p)
      BY <1>0, <2>1, <2>2, FinishWrites, ToldHandler DEF Reach, Bidding, Pending
    <2>3. CASE ~Finish(p)
      <3>1. PICK h \in HandlerRow : h = handler[p]
        BY <1>0, HandlerAuction
      <3>2. \/ h.step = "bid" /\ Await(p, "placed", h.group, h.auction, DeadlineAfterBid(h.auction))
            \/ Await(p, "cancelled", h.group, h.auction, NoTime)
        BY <1>3, <2>3, <3>1 DEF ChatBidCommit, ChatCancelCommit
      <3>3. CASE h.step = "bid"
                 /\ Await(p, "placed", h.group, h.auction, DeadlineAfterBid(h.auction))
        <4>1. /\ handler'[p].step = "placed" /\ handler'[p].auction = h.auction
              /\ \A q \in Procs : q # p => handler'[q] = handler[q]
          BY <1>0, <3>3, AwaitWrites
        <4>. QED  BY <1>0, <2>1, <3>1, <3>3, <4>1, ToldHandler DEF Reach, Bidding, Pending
      <3>4. CASE Await(p, "cancelled", h.group, h.auction, NoTime)
        <4>1. /\ handler'[p].step = "cancelled"
              /\ \A q \in Procs : q # p => handler'[q] = handler[q]
          BY <1>0, <3>4, AwaitWrites
        <4>. QED  BY <1>0, <2>1, <4>1, ToldHandler DEF Reach, Bidding, Pending
      <3>. QED  BY <3>2, <3>3, <3>4
    <2>. QED  BY <2>2, <2>3
  <1>4. CASE ChatBidReturn(p)
    <2>1. UNCHANGED <<ticker, announced>> /\ Finish(p) /\ handler[p].step = "placed"
      BY <1>4 DEF ChatBidReturn
    <2>2. PICK c \in AuctionIds : c = handler[p].auction
      BY <1>0, <2>1, HandlerAuction DEF Holding, Arriving
    <2>3. Bidding(p, c)
      BY <2>1, <2>2 DEF Bidding
    <2>4. \A g \in Groups : active'[g] \in {active[g], c}
      BY <1>0, <1>4, <2>2 DEF ChatBidReturn, EngineTyped, ActiveTyped
    <2>5. mem[a] \in Memory  BY <1>0 DEF EngineTyped, MemTyped
    <2>6. mem'[a].closed = mem[a].closed
      BY <1>0, <1>4, <2>2, <2>5 DEF ChatBidReturn, EngineTyped, MemTyped, Memory
    <2>. QED
      BY <1>0, <2>1, <2>3, <2>4, <2>6, FinishWrites, ToldHandler DEF Reach, Bidding, Pending
  <1>5. CASE ChatCancelReturn(p)
    <2>1. UNCHANGED <<mem, ticker, announced>> /\ Finish(p)
      BY <1>5 DEF ChatCancelReturn
    <2>2. \A g \in Groups : active'[g] \in {active[g], NoAuction}
      BY <1>0, <1>5 DEF ChatCancelReturn, EngineTyped, ActiveTyped
    <2>3. a # NoAuction  BY DEF AuctionIds, NoAuction
    <2>. QED
      BY <1>0, <2>1, <2>2, <2>3, FinishWrites, ToldHandler DEF Reach, Bidding, Pending
  <1>. QED  BY <1>1, <1>2, <1>3, <1>4, <1>5 DEF ChatStep

LEMMA ToldPanel ==
  ASSUME EngineSafe, NEW p \in Procs, PanelStart(p), [Next]_vars,
         NEW a \in AuctionIds, Told(a)
  PROVE  Told(a)'
  <1>0. Typed /\ EngineTyped  BY DEF EngineSafe
  <1>1. CASE StartFromPanel(p)
    <2>1. UNCHANGED engineVars  BY <1>1 DEF StartFromPanel
    <2>. QED  BY <1>0, <2>1, ToldHandler DEF engineVars, Reach, Bidding, Pending
  <1>2. CASE MarkStarted(p)
    <2>1. UNCHANGED <<active, mem, ticker, announced>>
      BY <1>2 DEF MarkStarted
    <2>2. PICK h \in HandlerRow : h = handler[p]
      BY <1>0, HandlerAuction
    <2> DEFINE l == [h EXCEPT !.step = IF h.step = "marking" THEN "launch" ELSE h.step]
    <2>3. l.auction = h.auction /\ l.step = IF h.step = "marking" THEN "launch" ELSE h.step
      BY DEF HandlerRow
    <2>4. handler' = [handler EXCEPT ![p] = l]
      BY <1>0, <1>2, <2>2 DEF MarkStarted, EngineTyped, HandlerTyped
    <2> HIDE DEF l
    <2>5. handler'[p] = l /\ \A q \in Procs : q # p => handler'[q] = handler[q]
      BY <1>0, <2>4 DEF EngineTyped, HandlerTyped
    <2>6. Bidding(p, a)' => Bidding(p, a)
      BY <2>2, <2>3, <2>5 DEF Bidding
    <2>7. Pending(p, a)' => Pending(p, a)
      BY <2>2, <2>3, <2>5 DEF Pending
    <2>. QED  BY <1>0, <2>1, <2>5, <2>6, <2>7, ToldHandler DEF Reach
  <1>3. CASE CreateAuction(p)
    <2>1. UNCHANGED <<active, mem, ticker, announced>> /\ StartCreate(p)
      BY <1>3 DEF CreateAuction
    <2>2. PICK c \in AuctionIds : c = auctionSeq + 1
      BY <1>0, <2>1, Created
    <2>3. CASE UNCHANGED handler
      BY <1>0, <2>1, <2>3, ToldHandler DEF Reach, Bidding, Pending
    <2>4. CASE ~UNCHANGED handler
      <3>0. PICK step \in {"open", "marking"} : \E g, e : Await(p, step, g, c, e)
        BY <1>3, <2>2, <2>4 DEF CreateAuction
      <3>1. PICK g, e : Await(p, step, g, c, e)
        BY <3>0
      <3>2. /\ handler'[p].step \in {"open", "marking"} /\ handler'[p].auction = c
            /\ \A q \in Procs : q # p => handler'[q] = handler[q]
        BY <1>0, <3>1, AwaitWrites
      <3>3. CASE a # c
        BY <1>0, <2>1, <3>2, <3>3, ToldHandler DEF Reach, Bidding, Pending
      <3>4. CASE a = c
        <4>0. a > auctionSeq /\ ~(a <= auctionSeq)
          BY <1>0, <2>2, <3>4 DEF Typed, TypeOK
        <4>1. /\ ~Reach(a) /\ \A q \in Procs : ~Pending(q, a)
              /\ \A t \in Tickers : ~Working(t, a)
          BY <1>0, <4>0, NotYet
        <4>2. announced[a].times = 0
          <5>1. announced[a].times \in Nat  BY <1>0 DEF EngineTyped, ToldTyped
          <5>. QED  BY <4>0, <5>1 DEF Told, ToldOver
        <4>3. ~Reach(a)' /\ \A q \in Procs : Pending(q, a)' => q = p
          BY <2>1, <3>2, <4>1 DEF Reach, Bidding, Pending
        <4>4. \A t \in Tickers : ~Working(t, a)' /\ ~Reading(t, a)'
          BY <2>1, <4>1 DEF Working, Reading
        <4>5. announced'[a].times = 0
          BY <2>1, <4>2
        <4>. QED
          BY <4>3, <4>4, <4>5 DEF Told, ToldOnce, ToldOver, ToldClosed, ToldLater
      <3>. QED  BY <3>3, <3>4
    <2>. QED  BY <2>3, <2>4
  <1>4. CASE OpenEntry(p) \/ Launch(p)
    <2>1. UNCHANGED <<ticker, announced>> /\ Finish(p) /\ handler[p].step \in {"open", "launch"}
      BY <1>4 DEF OpenEntry, Launch
    <2>2. PICK c \in AuctionIds : c = handler[p].auction
      BY <1>0, <2>1, HandlerAuction DEF Holding, Arriving
    <2>3. /\ handler'[p].step = "idle"
          /\ \A q \in Procs : q # p => handler'[q] = handler[q]
      BY <1>0, <2>1, FinishWrites
    <2>4. CASE UNCHANGED <<mem, active>>
      BY <1>0, <2>1, <2>3, <2>4, ToldHandler DEF Reach, Bidding, Pending
    <2>5. CASE ~UNCHANGED <<mem, active>>
      <3>1. mem' = [mem EXCEPT ![c] = Fresh(handler[p].endsAt)]
            /\ active' = [active EXCEPT ![handler[p].group] = c]
        BY <1>4, <2>2, <2>5 DEF OpenEntry, Launch
      <3>2. \A g \in Groups : active'[g] \in {active[g], c}
        BY <1>0, <3>1 DEF EngineTyped, ActiveTyped
      <3>3. CASE a # c
        <4>1. mem'[a] = mem[a]
          BY <1>0, <3>1, <3>3 DEF EngineTyped, MemTyped
        <4>. QED
          BY <1>0, <2>1, <2>3, <3>2, <3>3, <4>1, ToldHandler DEF Reach, Bidding, Pending
      <3>4. CASE a = c
        <4>1. Pending(p, a)
          BY <2>1, <2>2, <3>4 DEF Pending
        <4>2. /\ announced[a].times = 0 /\ \A t \in Tickers : ~Working(t, a)
              /\ \A q \in Procs : Pending(q, a) => q = p
          BY <4>1 DEF Told, ToldLater
        <4>3. \A q \in Procs : ~Pending(q, a)'
          BY <2>3, <4>2 DEF Pending
        <4>4. \A t \in Tickers : ~Working(t, a)' /\ ~Reading(t, a)'
          BY <2>1, <4>2 DEF Working, Reading
        <4>5. announced'[a].times = 0
          BY <2>1, <4>2
        <4>. QED
          BY <4>3, <4>4, <4>5 DEF Told, ToldOnce, ToldOver, ToldClosed, ToldLater
      <3>. QED  BY <3>3, <3>4
    <2>. QED  BY <2>4, <2>5
  <1>. QED  BY <1>1, <1>2, <1>3, <1>4 DEF PanelStart

\* A run of tick() that stops working on an auction, or starts on one that was
\* within reach and not closed in memory.
LEMMA ToldTick ==
  ASSUME EngineSafe, NEW t \in Tickers, TickStep(t), [Next]_vars,
         NEW a \in AuctionIds, Told(a)
  PROVE  Told(a)'
  <1>0. Typed /\ EngineTyped  BY DEF EngineSafe
  <1>1. UNCHANGED handler
    BY DEF TickStep, TickVisit, TickClose, TickAnnounce, TickDelete
  <1>2. \A p \in Procs : (Bidding(p, a)' <=> Bidding(p, a)) /\ (Pending(p, a)' <=> Pending(p, a))
    BY <1>1 DEF Bidding, Pending
  <1>3. PICK r \in TickerRow : r = ticker[t]
    BY <1>0, TickerAuction
  <1>4. ASSUME NEW g \in Groups, TickVisit(t, g)  PROVE Told(a)'
    <2>1. active[g] # NoAuction /\ UNCHANGED announced /\ ticker[t] = NoTicker
      BY <1>4 DEF TickVisit, Due
    <2>2. PICK c \in AuctionIds : c = active[g]
      BY <1>0, <2>1 DEF EngineTyped, ActiveTyped
    <2>3. CASE mem[c].closed
      <3>1. active' = [active EXCEPT ![g] = NoAuction] /\ UNCHANGED <<mem, ticker>>
        BY <1>4, <2>2, <2>3 DEF TickVisit
      <3>2. \A x \in Groups : active'[x] \in {active[x], NoAuction}
        BY <1>0, <3>1 DEF EngineTyped, ActiveTyped
      <3>3. Reach(a)' => Reach(a)
        BY <1>2, <3>2 DEF Reach, AuctionIds, NoAuction
      <3>4. ToldKept(a)
        BY <1>2, <2>1, <3>1, <3>3 DEF ToldKept, Working, Reading
      <3>. QED  BY <1>0, <3>4, ToldSame
    <2>4. CASE ~mem[c].closed
      <3> DEFINE s == [step |-> "close", group |-> g, auction |-> c]
      <3>1. UNCHANGED active /\ ticker' = [ticker EXCEPT ![t] = s]
        BY <1>4, <2>2, <2>4 DEF TickVisit
      <3>2. s.step = "close" /\ s.auction = c
        OBVIOUS
      <3> HIDE DEF s
      <3>3. ticker'[t] = s /\ \A u \in Tickers : u # t => ticker'[u] = ticker[u]
        BY <1>0, <3>1, TickWrites
      <3>4. mem[c] \in Memory /\ mem' = [mem EXCEPT ![c].closed = TRUE]
        BY <1>0, <1>4, <2>2, <2>4 DEF TickVisit, EngineTyped, MemTyped
      <3>5. mem'[c].closed /\ \A x \in AuctionIds : x # c => mem'[x] = mem[x]
        BY <1>0, <3>4 DEF EngineTyped, MemTyped, Memory
      <3>6. Reach(a)' <=> Reach(a)
        BY <1>2, <3>1 DEF Reach
      <3>7. CASE a # c
        <4>1. ToldKept(a)
          BY <1>2, <2>1, <3>2, <3>3, <3>5, <3>6, <3>7 DEF ToldKept, Working, Reading
        <4>. QED  BY <1>0, <4>1, ToldSame
      <3>8. CASE a = c
        <4>1. Reach(a)  BY <2>2, <3>8 DEF Reach
        <4>2. announced[a].times = 0 /\ \A u \in Tickers : ~Working(u, a)
          <5>1. announced[a].times \in Nat  BY <1>0 DEF EngineTyped, ToldTyped
          <5>. QED  BY <2>4, <3>8, <4>1, <5>1 DEF Told, ToldClosed
        <4>3. /\ \A p \in Procs : ~Pending(p, a)'
              /\ \A u \in Tickers : Working(u, a)' => u = t
              /\ \A u \in Tickers : ~Reading(u, a)'
          <5>1. \A p \in Procs : ~Pending(p, a)
            BY <4>1 DEF Told, ToldLater
          <5>2. \A u \in Tickers : u # t => ~Working(u, a)' /\ ~Reading(u, a)'
            BY <3>3, <4>2 DEF Working, Reading
          <5>3. ~Reading(t, a)'
            BY <3>2, <3>3 DEF Reading
          <5>. QED  BY <1>2, <5>1, <5>2, <5>3
        <4>4. announced'[a].times = 0 /\ mem'[a].closed
          BY <2>1, <3>5, <3>8, <4>2
        <4>. QED
          BY <4>3, <4>4 DEF Told, ToldOnce, ToldOver, ToldClosed, ToldLater
      <3>. QED  BY <3>7, <3>8
    <2>. QED  BY <2>3, <2>4
  <1>5. CASE TickClose(t)
    <2>1. UNCHANGED <<active, mem, announced>> /\ r.step = "close"
      BY <1>3, <1>5 DEF TickClose
    <2>2. PICK c \in AuctionIds : c = r.auction
      BY <1>0, <1>3, <2>1, TickerAuction
    <2>3. PICK step \in {"read", "delete"} : ticker' = [ticker EXCEPT ![t].step = step]
      BY <1>5 DEF TickClose
    <2> DEFINE s == [r EXCEPT !.step = step]
    <2>4. ticker' = [ticker EXCEPT ![t] = s]
      BY <1>0, <1>3, <2>3 DEF EngineTyped, TickerTyped
    <2>5. s.step = step /\ s.auction = c
      BY <2>2 DEF TickerRow
    <2> HIDE DEF s
    <2>6. ticker'[t] = s /\ \A u \in Tickers : u # t => ticker'[u] = ticker[u]
      BY <1>0, <2>4, TickWrites
    <2>7. Reach(a)' <=> Reach(a)
      BY <1>2, <2>1 DEF Reach
    <2>8. \A u \in Tickers : Working(u, a)' => Working(u, a)
      BY <1>3, <2>1, <2>2, <2>5, <2>6 DEF Working
    <2>9. ASSUME NEW u \in Tickers, Reading(u, a)'
          PROVE  Reading(u, a) \/ (~Open(a)' /\ a <= auctionSeq')
      <3>1. CASE u # t
        BY <1>3, <2>6, <2>9, <3>1 DEF Reading
      <3>2. CASE u = t
        <4>1. a = c /\ c <= auctionSeq
          <5>1. c <= auctionSeq  BY <1>0, <1>3, <2>2, TickerAuction DEF TickerOK
          <5>. QED  BY <2>5, <2>6, <2>9, <3>2, <5>1 DEF Reading
        <4>2. CASE CloseAuction(c)
          <5>1. PICK w \in WinnerChoices(c) :
                   auction' = [auction EXCEPT ![c].status = "CLOSED", ![c].winner = w]
            BY <4>2 DEF CloseAuction
          <5>2. auction \in [AuctionIds -> AuctionRow]
            BY <1>0 DEF Typed, TypeOK
          <5>3. auction'[c].status = "CLOSED"
            BY <5>1, <5>2 DEF AuctionRow
          <5>. QED  BY <4>1, <4>2, <5>3 DEF Open, CloseAuction
        <4>3. CASE ~Open(c) /\ UNCHANGED rows
          BY <4>1, <4>3 DEF Open, rows
        <4>. QED  BY <1>3, <1>5, <2>2, <4>2, <4>3 DEF TickClose
      <3>. QED  BY <3>1, <3>2
    <2>10. ToldOnce(a)' /\ ToldClosed(a)' /\ ToldLater(a)'
      BY <1>2, <2>1, <2>7, <2>8 DEF Told, ToldOnce, ToldClosed, ToldLater
    <2>11. ToldOver(a)'
      <3>1. ASSUME (\E u \in Tickers : Reading(u, a)') \/ announced'[a].times > 0
            PROVE  ~Open(a)' /\ a <= auctionSeq'
        <4>1. CASE (\E u \in Tickers : Reading(u, a)) \/ announced[a].times > 0
          BY <1>0, <4>1, OverKept DEF Told, ToldOver
        <4>. QED  BY <2>1, <2>9, <3>1, <4>1
      <3>. QED  BY <3>1 DEF ToldOver
    <2>. QED  BY <2>10, <2>11 DEF Told
  <1>6. CASE TickAnnounce(t)
    <2>1. UNCHANGED <<vars, active, mem>> /\ r.step = "read"
      BY <1>3, <1>6 DEF TickAnnounce
    <2>2. PICK c \in AuctionIds : c = r.auction
      BY <1>0, <1>3, <2>1, TickerAuction
    <2> DEFINE s == [r EXCEPT !.step = "delete"]
    <2>3. ticker' = [ticker EXCEPT ![t] = s]
      BY <1>0, <1>3, <1>6 DEF TickAnnounce, EngineTyped, TickerTyped
    <2>4. s.step = "delete"
      BY DEF TickerRow
    <2> HIDE DEF s
    <2>5. ticker'[t] = s /\ \A u \in Tickers : u # t => ticker'[u] = ticker[u]
      BY <1>0, <2>3, TickWrites
    <2>6. \A u \in Tickers : /\ Working(u, a)' => Working(u, a) /\ u # t
                             /\ Reading(u, a)' => Reading(u, a)
      BY <2>4, <2>5 DEF Working, Reading
    <2>7. Reach(a)' <=> Reach(a)
      BY <1>2, <2>1 DEF Reach
    <2>8. /\ announced'[c].times = announced[c].times + 1
          /\ \A x \in AuctionIds : x # c => announced'[x] = announced[x]
      <3>1. announced \in [AuctionIds -> [times : Nat, winner : BidIds \cup {NoBid}]]
        BY <1>0 DEF EngineTyped, ToldTyped
      <3>. QED  BY <1>3, <1>6, <2>2, <3>1 DEF TickAnnounce
    <2>9. CASE a # c
      <3>1. ToldKept(a)
        BY <1>2, <2>1, <2>6, <2>7, <2>8, <2>9 DEF ToldKept
      <3>. QED  BY <1>0, <3>1, ToldSame
    <2>10. CASE a = c
      <3>1. Working(t, a) /\ Reading(t, a)
        BY <1>3, <2>1, <2>2, <2>10 DEF Working, Reading
      <3>2. /\ announced[a].times = 0 /\ ~Open(a) /\ a <= auctionSeq
            /\ mem[a].closed \/ ~Reach(a)
            /\ \A u \in Tickers : Working(u, a) => u = t
            /\ \A p \in Procs : ~Pending(p, a)
        BY <3>1 DEF Told, ToldOnce, ToldOver, ToldClosed, ToldLater
      <3>3. announced'[a].times = 1
        BY <2>8, <2>10, <3>2
      <3>4. \A u \in Tickers : ~Working(u, a)'
        BY <2>6, <3>2
      <3>5. ~Open(a)' /\ a <= auctionSeq'
        BY <1>0, <3>2, OverKept
      <3>6. mem'[a].closed \/ ~Reach(a)'
        BY <2>1, <2>7, <3>2
      <3>7. \A p \in Procs : ~Pending(p, a)'
        BY <1>2, <3>2
      <3>. QED
        BY <3>3, <3>4, <3>5, <3>6, <3>7 DEF Told, ToldOnce, ToldOver, ToldClosed, ToldLater
    <2>. QED  BY <2>9, <2>10
  <1>7. CASE TickDelete(t)
    <2>1. UNCHANGED <<mem, announced>> /\ ticker' = [ticker EXCEPT ![t] = NoTicker]
      BY <1>7 DEF TickDelete
    <2>2. \A g \in Groups : active'[g] \in {active[g], NoAuction}
      BY <1>0, <1>7 DEF TickDelete, EngineTyped, ActiveTyped
    <2>3. Reach(a)' => Reach(a)
      BY <1>2, <2>2 DEF Reach, AuctionIds, NoAuction
    <2>4. ticker'[t] = NoTicker /\ \A u \in Tickers : u # t => ticker'[u] = ticker[u]
      BY <1>0, <2>1, TickWrites
    <2>5. NoTicker.step = "idle"  BY DEF NoTicker
    <2>6. ToldKept(a)
      BY <1>2, <2>1, <2>3, <2>4, <2>5 DEF ToldKept, Working, Reading
    <2>. QED  BY <1>0, <2>6, ToldSame
  <1>. QED  BY <1>4, <1>5, <1>6, <1>7 DEF TickStep

\* A restart forgets what was closed in memory; what it puts back is open.
LEMMA ToldRestart ==
  ASSUME EngineSafe, Restart, NEW a \in AuctionIds, Told(a)
  PROVE  Told(a)'
  <1>0. Typed /\ EngineTyped  BY DEF EngineSafe
  <1>1. UNCHANGED <<auction, auctionSeq, announced>>
    BY DEF Restart, Crash
  <1>2. \A p \in Procs : ~Pending(p, a)' /\ ~Bidding(p, a)'
    BY DEF Restart, NoHandler, Pending, Bidding
  <1>3. \A t \in Tickers : ~Working(t, a)' /\ ~Reading(t, a)'
    BY DEF Restart, NoTicker, Working, Reading
  <1>4. Reach(a)' => Open(a)
    <2>1. ASSUME NEW g \in Groups, active'[g] = a  PROVE Open(a)
      <3>1. a # NoAuction  BY DEF AuctionIds, NoAuction
      <3>2. a \in Recoverable(g)  BY <2>1, <3>1 DEF Restart
      <3>. QED  BY <3>2 DEF Recoverable
    <2>. QED  BY <1>2, <2>1 DEF Reach
  <1>5. Open(a)' <=> Open(a)
    BY <1>1 DEF Open
  <1>. QED
    BY <1>1, <1>2, <1>3, <1>4, <1>5 DEF Told, ToldOnce, ToldOver, ToldClosed, ToldLater

LEMMA ToldNext ==
  ASSUME EngineSafe, [EngineNext]_allVars, NEW a \in AuctionIds, Told(a)
  PROVE  Told(a)'
  <1>0. Typed /\ EngineTyped /\ [Next]_vars
    BY SafeOnwards DEF EngineSafe
  <1>1. CASE UNCHANGED <<active, mem, handler, ticker, announced>>
    <2>1. ToldKept(a)
      BY <1>1 DEF ToldKept, Working, Reading, Reach, Bidding, Pending
    <2>. QED  BY <1>0, <2>1, ToldSame
  <1>2. CASE \/ UNCHANGED allVars \/ \E p \in Editors : PanelEdit(p)
             \/ \E g \in Groups : StartSetup(g) \/ AnswerSetup(g)
             \/ PanelEnd \/ SweepStep \/ ClockStep
    BY <1>1, <1>2 DEF allVars, engineVars, PanelEdit, StartSetup, AnswerSetup, PanelEnd,
                      SweepStep, ClockStep
  <1>. QED  BY <1>0, <1>2, ToldChat, ToldPanel, ToldTick, ToldRestart DEF EngineNext

LEMMA ToldInit ==
  ASSUME EngineInit, NEW a \in AuctionIds
  PROVE  Told(a)
  <1>1. announced[a].times = 0  BY DEF EngineInit
  <1>2. \A p \in Procs : ~Pending(p, a)  BY DEF EngineInit, NoHandler, Pending
  <1>3. \A t \in Tickers : ~Working(t, a) /\ ~Reading(t, a)
    BY DEF EngineInit, NoTicker, Working, Reading
  <1>. QED  BY <1>1, <1>2, <1>3 DEF Told, ToldOnce, ToldOver, ToldClosed, ToldLater

\* closeAndAnnounce tells the group at most once that an auction is over: two runs
\* of tick() that overlap, a bid whose answer puts the entry back, a launch from
\* the panel and a restart of the server notwithstanding.
THEOREM AnnouncedOnceSafety == EngineSpec => []AnnouncedOnce
  <1> DEFINE AllTold == \A a \in AuctionIds : Told(a)
  <1>1. EngineInit => AllTold
    BY ToldInit
  <1>2. EngineSafe /\ AllTold /\ [EngineNext]_allVars => AllTold'
    BY ToldNext
  <1>3. AllTold => AnnouncedOnce
    BY DEF AnnouncedOnce, Told, ToldOnce
  <1> HIDE DEF AllTold
  <1>. QED  BY <1>1, <1>2, <1>3, AlwaysSafe, PTL DEF EngineSpec

-----------------------------------------------------------------------------
(***************************************************************************)
(* The deadline in memory.  Every deadline the engine holds for an auction *)
(* was the row's when it was read, and only an edit from the panel can     *)
(* bring the row's forward: a bid moves it at most one duration away from  *)
(* now, which is not before the deadline it replaces.                      *)
(***************************************************************************)
Instant == Nat \cup {NoTime}

Carries(p, a, e) ==
    handler[p].step \in Arriving /\ handler[p].auction = a /\ handler[p].endsAt = e

Held(a, e) == \/ (\E g \in Groups : active[g] = a) /\ mem[a].endsAt = e
              \/ \E p \in Procs : Carries(p, a, e)

OnTime(a) ==
    a \notin edited /\ Exists(a) => \A e \in Instant : Held(a, e) => e <= auction[a].endsAt

\* A row edited from the panel is recorded as such.
LEMMA EditNoted ==
  ASSUME EngineSafe, [EngineNext]_allVars, NEW a \in AuctionIds, NEW p \in Procs,
         RowEdited(a, p), auction'[a] # auction[a]
  PROVE  a \in edited'
  <1>0. Typed /\ EngineTyped  BY DEF EngineSafe
  <1>1. call[p].step \in Edits /\ call[p].auction = a /\ call'[p] = Idle
    BY DEF RowEdited
  <1>2. call'[p] # call[p] /\ call[p] # Idle /\ call[p].step \notin {"create", "mark"}
    BY <1>1 DEF Edits, Idle
  <1>3. ~UNCHANGED allVars  BY <1>2 DEF allVars, vars
  <1>4. ASSUME NEW q \in Procs, ChatStep(q)  PROVE FALSE
    <2>1. UNCHANGED call \/ UNCHANGED auction
      BY <1>4 DEF ChatStep, ChatBid, FinishSetup, StartCheck, ChatCancel, ChatBidCommit,
                  ChatBidReturn, ChatCancelCommit, ChatCancelReturn, vars, rows
    <2>. QED  BY <1>2, <2>1
  <1>5. ASSUME NEW q \in Procs, PanelStart(q)  PROVE FALSE
    <2>1. CASE UNCHANGED call \/ UNCHANGED auction
      BY <1>2, <2>1
    <2>2. CASE StartListed(q) \/ StartCreate(q)
      <3>1. Only(q)  BY <1>0, <2>2, InsertOne
      <3>2. call[q] = Idle \/ call[q].step = "create"
        BY <2>2 DEF StartListed, StartCreate
      <3>. QED  BY <1>2, <3>1, <3>2 DEF Only
    <2>. QED
      BY <1>5, <2>1, <2>2 DEF PanelStart, StartFromPanel, StartCheck, CreateAuction, OpenEntry,
                              MarkStarted, MarkItemOnAuction, Launch, vars, rows
  <1>6. ASSUME NEW q \in Editors, PanelEdit(q)  PROVE a \in edited'
    <2>1. q \in Procs  BY EngineAssumption
    <2>2. Only(q)  BY <1>0, <1>6, <2>1, EditOne DEF PanelEdit
    <2>3. p = q  BY <1>2, <2>2 DEF Only
    <2>. QED  BY <1>1, <1>6, <2>3 DEF PanelEdit, Edits
  <1>7. ASSUME \/ \E g \in Groups : StartSetup(g) \/ AnswerSetup(g)
               \/ \E t \in Tickers : TickStep(t)
               \/ PanelEnd \/ SweepStep \/ ClockStep \/ Restart
        PROVE  FALSE
    <2>1. UNCHANGED call \/ UNCHANGED auction
      BY <1>7 DEF StartSetup, AnswerSetup, TickStep, TickVisit, TickClose, TickAnnounce,
                  TickDelete, PanelEnd, Close, Cancel, SweepStep, ReadExpired, SweepClose,
                  ClockStep, Tick, Restart, Crash, vars
    <2>. QED  BY <1>2, <2>1
  <1>. QED  BY <1>3, <1>4, <1>5, <1>6, <1>7 DEF EngineNext

\* The row's deadline moves on, unless the panel gives the auction another duration.
LEMMA EndsLater ==
  ASSUME EngineSafe, Deadlines, [EngineNext]_allVars, NEW a \in AuctionIds, a <= auctionSeq,
         Single(a), a \notin edited', Exists(a)'
  PROVE  /\ Exists(a) /\ auction[a].endsAt \in Nat /\ auction'[a].endsAt \in Nat
         /\ auction[a].endsAt <= auction'[a].endsAt
  <1>0. Typed /\ Timed /\ EngineTyped /\ [Next]_vars
    BY SafeOnwards DEF EngineSafe
  <1>1. Exists(a)  BY <1>0, RowKept
  <1>2. /\ auction[a] \in AuctionRow /\ now \in Nat
        /\ auction[a].scheduledEndAt = NoTime /\ auction[a].endsAt # NoTime
        /\ auction[a].duration > 0
    BY <1>0, <1>1 DEF Typed, TypeOK, Timed, Clocked, Single
  <1>3. /\ auction[a].endsAt \in Nat /\ auction[a].duration \in Nat
        /\ auction[a].endsAt <= now + auction[a].duration
    BY <1>2 DEF AuctionRow, Deadlines, Near
  <1>4. DeadlineAfterBid(a) = now + auction[a].duration
    BY <1>2 DEF DeadlineAfterBid
  <1>5. RowStep(a)  BY <1>0, RowNext
  <1>6. CASE auction'[a] = auction[a]
    BY <1>1, <1>3, <1>6
  <1>7. CASE RowMoved(a)
    BY <1>1, <1>2, <1>3, <1>4, <1>7 DEF RowMoved
  <1>8. CASE RowNew(a)
    BY <1>0, <1>8 DEF RowNew, Typed, TypeOK, AuctionIds
  <1>9. ASSUME NEW p \in Procs, RowEdited(a, p)  PROVE auction'[a] = auction[a]
    BY <1>9, EditNoted
  <1>. QED  BY <1>5, <1>6, <1>7, <1>8, <1>9 DEF RowStep, Exists

\* A deadline is held only for an auction that was created outside a list.
LEMMA HeldKnown ==
  ASSUME Typed, EngineTyped, NEW a \in AuctionIds, NEW e, Held(a, e)
  PROVE  a <= auctionSeq /\ Single(a)
  <1>0. a # NoAuction  BY DEF AuctionIds, NoAuction
  <1>1. CASE \E g \in Groups : active[g] = a
    BY <1>0, <1>1 DEF EngineTyped, ActiveTyped, EntryOK
  <1>2. CASE \E p \in Procs : Carries(p, a, e)
    BY <1>2, HandlerAuction DEF Carries, HandlerOK, Holding
  <1>. QED  BY <1>1, <1>2 DEF Held

\* What a step holds it held before, or has just read from the row.
LEMMA OnTimeKept ==
  ASSUME EngineSafe, Deadlines, [EngineNext]_allVars, NEW a \in AuctionIds, OnTime(a),
         \A e \in Instant : Held(a, e)' => Held(a, e) \/ e = auction'[a].endsAt
  PROVE  OnTime(a)'
  <1>0. Typed /\ EngineTyped  BY DEF EngineSafe
  <1>1. edited \subseteq edited'
    BY DEF EngineNext, ChatStep, ChatBid, FinishSetup, ChatCancel, ChatBidCommit, ChatBidReturn,
       ChatCancelCommit, ChatCancelReturn, PanelStart, StartFromPanel, CreateAuction, OpenEntry,
       MarkStarted, Launch, PanelEdit, StartSetup, AnswerSetup, TickStep, TickVisit, TickClose,
       TickAnnounce, TickDelete, PanelEnd, SweepStep, ClockStep, Restart, engineVars, allVars
  <1>2. SUFFICES ASSUME a \notin edited', Exists(a)', NEW e \in Instant, Held(a, e)
                 PROVE  e <= auction'[a].endsAt
    <2>1. ASSUME a \notin edited', Exists(a)', NEW e \in Instant, e = auction'[a].endsAt
          PROVE  e <= auction'[a].endsAt
      BY <2>1 DEF Instant, NoTime
    <2>. QED  BY <2>1 DEF OnTime
  <1>3. a <= auctionSeq /\ Single(a)
    BY <1>0, <1>2, HeldKnown
  <1>4. /\ Exists(a) /\ auction[a].endsAt \in Nat /\ auction'[a].endsAt \in Nat
        /\ auction[a].endsAt <= auction'[a].endsAt
    BY <1>2, <1>3, EndsLater
  <1>5. e <= auction[a].endsAt
    BY <1>1, <1>2, <1>4 DEF OnTime
  <1>. QED  BY <1>4, <1>5 DEF Instant, NoTime

\* Steps that bring no deadline.
LEMMA HeldSame ==
  ASSUME NEW a \in AuctionIds, NEW e, Held(a, e)', mem'[a].endsAt = mem[a].endsAt,
         \A g \in Groups : active'[g] = a => \E x \in Groups : active[x] = a,
         \A p \in Procs : Carries(p, a, e)' => Carries(p, a, e)
  PROVE  Held(a, e)
  BY DEF Held

LEMMA HeldChat ==
  ASSUME EngineSafe, NEW p \in Procs, ChatStep(p), NEW a \in AuctionIds, NEW e, Held(a, e)'
  PROVE  Held(a, e) \/ e = auction'[a].endsAt
  <1>0. Typed /\ EngineTyped  BY DEF EngineSafe
  <1>1. ASSUME handler'[p].step \notin Arriving,
               \A q \in Procs : q # p => handler'[q] = handler[q]
        PROVE  \A q \in Procs : Carries(q, a, e)' => Carries(q, a, e)
    BY <1>1 DEF Carries
  <1>2. ASSUME NEW g \in Groups, ChatBid(p, g) \/ ChatCancel(p, g)  PROVE Held(a, e)
    <2>1. UNCHANGED <<active, mem>>
      BY <1>2 DEF ChatBid, ChatCancel
    <2>2. Await(p, "bid", g, active[g], NoTime) \/ Await(p, "cancel", g, active[g], NoTime)
      BY <1>2 DEF ChatBid, ChatCancel
    <2>3. /\ handler'[p].step \in {"bid", "cancel"}
          /\ \A q \in Procs : q # p => handler'[q] = handler[q]
      BY <1>0, <2>2, AwaitWrites
    <2>. QED  BY <1>1, <2>1, <2>3, HeldSame DEF Arriving
  <1>3. ASSUME NEW g \in Groups, FinishSetup(p, g)  PROVE Held(a, e)
    <2>1. UNCHANGED <<active, mem>>  BY <1>3 DEF FinishSetup
    <2>2. CASE Await(p, "starting", g, NoAuction, NoTime)
      <3>1. /\ handler'[p].step = "starting"
            /\ \A q \in Procs : q # p => handler'[q] = handler[q]
        BY <1>0, <2>2, AwaitWrites
      <3>. QED  BY <1>1, <2>1, <3>1, HeldSame DEF Arriving
    <2>3. CASE UNCHANGED handler
      BY <2>1, <2>3, HeldSame DEF Carries
    <2>. QED  BY <1>3, <2>2, <2>3 DEF FinishSetup
  <1>4. CASE ChatBidCommit(p) \/ ChatCancelCommit(p)
    <2>1. UNCHANGED <<active, mem>>  BY <1>4 DEF ChatBidCommit, ChatCancelCommit
    <2>2. CASE Finish(p)
      BY <1>0, <1>1, <2>1, <2>2, FinishWrites, HeldSame DEF Arriving
    <2>3. CASE ~Finish(p)
      <3>1. PICK h \in HandlerRow : h = handler[p]
        BY <1>0, HandlerAuction
      <3>2. CASE ChatCancelCommit(p)
        <4>1. Await(p, "cancelled", h.group, h.auction, NoTime)
          BY <2>3, <3>1, <3>2 DEF ChatCancelCommit
        <4>2. /\ handler'[p].step = "cancelled"
              /\ \A q \in Procs : q # p => handler'[q] = handler[q]
          BY <1>0, <4>1, AwaitWrites
        <4>. QED  BY <1>1, <2>1, <4>2, HeldSame DEF Arriving
      <3>3. CASE ChatBidCommit(p)
        <4>1. PICK c \in AuctionIds : c = h.auction
          BY <1>0, <3>1, <3>3, HandlerAuction DEF ChatBidCommit, Holding
        <4>2. PICK amount \in Amounts :
                 PlaceBid(c, amount) /\ Await(p, "placed", h.group, c, DeadlineAfterBid(c))
          BY <2>3, <3>1, <3>3, <4>1 DEF ChatBidCommit
        <4>3. /\ handler'[p].step = "placed" /\ handler'[p].auction = c
              /\ handler'[p].endsAt = DeadlineAfterBid(c)
              /\ \A q \in Procs : q # p => handler'[q] = handler[q]
          BY <1>0, <4>2, AwaitWrites
        <4>4. auction'[c].endsAt = DeadlineAfterBid(c)
          <5>1. PICK r \in AuctionRow :
                   auction' = [auction EXCEPT ![c] = r] /\ r.endsAt = DeadlineAfterBid(c)
            BY <1>0, <4>2, BidAuction
          <5>. QED  BY <1>0, <5>1, RowWrite DEF Typed, TypeOK
        <4>5. CASE Carries(p, a, e)'
          BY <4>3, <4>4, <4>5 DEF Carries
        <4>6. CASE ~Carries(p, a, e)'
          BY <2>1, <4>3, <4>6, HeldSame DEF Carries
        <4>. QED  BY <4>5, <4>6
      <3>. QED  BY <1>4, <3>2, <3>3
    <2>. QED  BY <2>2, <2>3
  <1>5. CASE ChatBidReturn(p)
    <2>1. Finish(p) /\ handler[p].step = "placed"
      BY <1>5 DEF ChatBidReturn
    <2>2. PICK c \in AuctionIds : c = handler[p].auction
      BY <1>0, <2>1, HandlerAuction DEF Holding, Arriving
    <2>3. /\ mem' = [mem EXCEPT ![c].endsAt = handler[p].endsAt]
          /\ active' = [active EXCEPT ![handler[p].group] = c]
      BY <1>5, <2>2 DEF ChatBidReturn
    <2>4. mem'[c].endsAt = handler[p].endsAt /\ \A x \in AuctionIds : x # c => mem'[x] = mem[x]
      <3>1. mem[c] \in Memory  BY <1>0 DEF EngineTyped, MemTyped
      <3>. QED  BY <1>0, <2>3, <3>1 DEF EngineTyped, MemTyped, Memory
    <2>5. \A g \in Groups : active'[g] \in {active[g], c}
      BY <1>0, <2>3 DEF EngineTyped, ActiveTyped
    <2>6. \A q \in Procs : Carries(q, a, e)' => Carries(q, a, e)
      BY <1>0, <1>1, <2>1, FinishWrites DEF Arriving
    <2>7. CASE a # c
      BY <2>4, <2>5, <2>6, <2>7, HeldSame
    <2>8. CASE a = c
      BY <2>1, <2>2, <2>4, <2>6, <2>8 DEF Held, Carries, Arriving
    <2>. QED  BY <2>7, <2>8
  <1>6. CASE ChatCancelReturn(p)
    <2>1. UNCHANGED mem /\ Finish(p)
      BY <1>6 DEF ChatCancelReturn
    <2>2. \A g \in Groups : active'[g] \in {active[g], NoAuction}
      BY <1>0, <1>6 DEF ChatCancelReturn, EngineTyped, ActiveTyped
    <2>3. a # NoAuction  BY DEF AuctionIds, NoAuction
    <2>. QED  BY <1>0, <1>1, <2>1, <2>2, <2>3, FinishWrites, HeldSame DEF Arriving
  <1>. QED  BY <1>2, <1>3, <1>4, <1>5, <1>6 DEF ChatStep

LEMMA HeldPanel ==
  ASSUME EngineSafe, NEW p \in Procs, PanelStart(p), NEW a \in AuctionIds, NEW e, Held(a, e)'
  PROVE  Held(a, e) \/ e = auction'[a].endsAt
  <1>0. Typed /\ EngineTyped  BY DEF EngineSafe
  <1>1. CASE StartFromPanel(p)
    BY <1>1, HeldSame DEF StartFromPanel, engineVars, Carries
  <1>2. CASE MarkStarted(p)
    <2>1. UNCHANGED <<active, mem>>  BY <1>2 DEF MarkStarted
    <2>2. PICK h \in HandlerRow : h = handler[p]
      BY <1>0, HandlerAuction
    <2> DEFINE l == [h EXCEPT !.step = IF h.step = "marking" THEN "launch" ELSE h.step]
    <2>3. /\ l.auction = h.auction /\ l.endsAt = h.endsAt
          /\ l.step = IF h.step = "marking" THEN "launch" ELSE h.step
      BY DEF HandlerRow
    <2>4. handler' = [handler EXCEPT ![p] = l]
      BY <1>0, <1>2, <2>2 DEF MarkStarted, EngineTyped, HandlerTyped
    <2> HIDE DEF l
    <2>5. handler'[p] = l /\ \A q \in Procs : q # p => handler'[q] = handler[q]
      BY <1>0, <2>4 DEF EngineTyped, HandlerTyped
    <2>. QED  BY <2>1, <2>2, <2>3, <2>5, HeldSame DEF Carries, Arriving
  <1>3. CASE CreateAuction(p)
    <2>1. UNCHANGED <<active, mem>>  BY <1>3 DEF CreateAuction
    <2>2. CASE UNCHANGED handler
      BY <2>1, <2>2, HeldSame DEF Carries
    <2>3. CASE ~UNCHANGED handler
      <3>0. PICK c, d : c = auctionSeq + 1 /\ d = auction'[c].endsAt
        OBVIOUS
      <3>0a. PICK step \in {"open", "marking"} : \E g : Await(p, step, g, c, d)
        BY <1>3, <2>3, <3>0 DEF CreateAuction
      <3>1. PICK g : Await(p, step, g, c, d)
        BY <3>0a
      <3>2. /\ handler'[p].auction = c /\ handler'[p].endsAt = auction'[c].endsAt
            /\ \A q \in Procs : q # p => handler'[q] = handler[q]
        BY <1>0, <3>0, <3>1, AwaitWrites
      <3>3. CASE Carries(p, a, e)'
        BY <3>2, <3>3 DEF Carries
      <3>4. CASE ~Carries(p, a, e)'
        BY <2>1, <3>2, <3>4, HeldSame DEF Carries
      <3>. QED  BY <3>3, <3>4
    <2>. QED  BY <2>2, <2>3
  <1>4. CASE OpenEntry(p) \/ Launch(p)
    <2>1. Finish(p) /\ handler[p].step \in {"open", "launch"}
      BY <1>4 DEF OpenEntry, Launch
    <2>2. PICK c \in AuctionIds : c = handler[p].auction
      BY <1>0, <2>1, HandlerAuction DEF Holding, Arriving
    <2>3. /\ handler'[p].step = "idle"
          /\ \A q \in Procs : q # p => handler'[q] = handler[q]
      BY <1>0, <2>1, FinishWrites
    <2>4. \A q \in Procs : Carries(q, a, e)' => Carries(q, a, e)
      BY <2>3 DEF Carries, Arriving
    <2>5. CASE UNCHANGED <<mem, active>>
      BY <2>4, <2>5, HeldSame
    <2>6. CASE ~UNCHANGED <<mem, active>>
      <3>1. mem' = [mem EXCEPT ![c] = Fresh(handler[p].endsAt)]
            /\ active' = [active EXCEPT ![handler[p].group] = c]
        BY <1>4, <2>2, <2>6 DEF OpenEntry, Launch
      <3>2. \A g \in Groups : active'[g] \in {active[g], c}
        BY <1>0, <3>1 DEF EngineTyped, ActiveTyped
      <3>3. mem'[c] = Fresh(handler[p].endsAt) /\ \A x \in AuctionIds : x # c => mem'[x] = mem[x]
        BY <1>0, <3>1 DEF EngineTyped, MemTyped
      <3>4. CASE a # c
        BY <2>4, <3>2, <3>3, <3>4, HeldSame
      <3>5. CASE a = c
        BY <2>1, <2>2, <2>4, <3>3, <3>5 DEF Held, Carries, Arriving, Fresh
      <3>. QED  BY <3>4, <3>5
    <2>. QED  BY <2>5, <2>6
  <1>. QED  BY <1>1, <1>2, <1>3, <1>4 DEF PanelStart

LEMMA HeldTick ==
  ASSUME EngineSafe, NEW t \in Tickers, TickStep(t), NEW a \in AuctionIds, NEW e, Held(a, e)'
  PROVE  Held(a, e)
  <1>0. Typed /\ EngineTyped  BY DEF EngineSafe
  <1>1. UNCHANGED handler
    BY DEF TickStep, TickVisit, TickClose, TickAnnounce, TickDelete
  <1>2. \A g \in Groups : active'[g] \in {active[g], NoAuction}
    <2>1. CASE UNCHANGED active
      BY <2>1
    <2>2. CASE \E x : active' = [active EXCEPT ![x] = NoAuction]
      BY <1>0, <2>2 DEF EngineTyped, ActiveTyped
    <2>. QED
      BY <2>1, <2>2 DEF TickStep, TickVisit, TickClose, TickAnnounce, TickDelete
  <1>3. mem'[a].endsAt = mem[a].endsAt
    <2>1. CASE UNCHANGED mem
      BY <2>1
    <2>2. ASSUME NEW c, mem' = [mem EXCEPT ![c].closed = TRUE]
          PROVE  mem'[a].endsAt = mem[a].endsAt
      <3>1. mem[a] \in Memory  BY <1>0 DEF EngineTyped, MemTyped
      <3>. QED  BY <1>0, <2>2, <3>1 DEF EngineTyped, MemTyped, Memory
    <2>. QED
      BY <2>1, <2>2 DEF TickStep, TickVisit, TickClose, TickAnnounce, TickDelete
  <1>4. a # NoAuction  BY DEF AuctionIds, NoAuction
  <1>. QED  BY <1>1, <1>2, <1>3, <1>4, HeldSame DEF Carries

LEMMA OnTimeNext ==
  ASSUME EngineSafe, Deadlines, [EngineNext]_allVars, NEW a \in AuctionIds, OnTime(a)
  PROVE  OnTime(a)'
  <1>1. SUFFICES ASSUME NEW e \in Instant, Held(a, e)'
                 PROVE  Held(a, e) \/ e = auction'[a].endsAt
    BY OnTimeKept
  <1>2. CASE UNCHANGED <<active, mem, handler>>
    BY <1>1, <1>2, HeldSame DEF Carries
  <1>3. CASE \/ UNCHANGED allVars \/ \E p \in Editors : PanelEdit(p)
             \/ \E g \in Groups : StartSetup(g) \/ AnswerSetup(g)
             \/ PanelEnd \/ SweepStep \/ ClockStep
    BY <1>2, <1>3 DEF allVars, engineVars, PanelEdit, StartSetup, AnswerSetup, PanelEnd,
                      SweepStep, ClockStep
  <1>4. CASE Restart
    <2>1. UNCHANGED auction  BY <1>4 DEF Restart, Crash
    <2>2. ~\E p \in Procs : Carries(p, a, e)'
      BY <1>4 DEF Restart, NoHandler, Carries, Arriving
    <2>3. PICK g \in Groups : active'[g] = a
      BY <1>1, <2>2 DEF Held
    <2>4. a # NoAuction  BY DEF AuctionIds, NoAuction
    <2>5. a \in Recoverable(g)
      BY <1>4, <2>3, <2>4 DEF Restart
    <2>6. mem'[a] = Fresh(auction[a].endsAt)
      BY <1>4, <2>5 DEF Restart
    <2>. QED  BY <1>1, <2>1, <2>2, <2>6 DEF Held, Fresh
  <1>. QED  BY <1>1, <1>3, <1>4, HeldChat, HeldPanel, HeldTick DEF EngineNext

LEMMA OnTimeInit ==
  ASSUME EngineInit, NEW a \in AuctionIds
  PROVE  OnTime(a)
  BY DEF EngineInit, Init, AbsentAuction, Exists, OnTime

\* The deadline the ticker counts down to is never later than the one in the
\* database, however late the answers to bids and launches arrive, except where
\* the panel gave the auction another duration.
THEOREM DeadlineNotLateSafety == EngineSpec => []DeadlineNotLate
  <1> DEFINE AllOnTime == \A a \in AuctionIds : OnTime(a)
             Counted   == EngineSafe /\ Deadlines /\ AllOnTime
  <1>1. EngineInit => Counted
    BY OnTimeInit, SafeInitially, NearInit DEF EngineInit
  <1>2. Counted /\ [EngineNext]_allVars => Counted'
    <2>1. SUFFICES ASSUME Counted, [EngineNext]_allVars  PROVE Counted'
      OBVIOUS
    <2>2. EngineSafe' /\ [Next]_vars  BY <2>1, SafeOnwards
    <2>3. Deadlines'  BY <2>1, <2>2, NearNext DEF EngineSafe
    <2>4. AllOnTime'  BY <2>1, OnTimeNext
    <2>. QED  BY <2>2, <2>3, <2>4
  <1>3. Counted => DeadlineNotLate
    <2>1. ASSUME EngineSafe, AllOnTime, NEW g \in Groups, NEW a, a = active[g], a # NoAuction,
                 a \notin edited, Exists(a)
          PROVE  mem[a].endsAt <= auction[a].endsAt
      <3>1. a \in AuctionIds
        BY <2>1 DEF EngineSafe, EngineTyped, ActiveTyped
      <3>2. mem[a].endsAt \in Instant
        BY <2>1, <3>1 DEF EngineSafe, EngineTyped, MemTyped, Memory, Instant
      <3>3. Held(a, mem[a].endsAt)
        BY <2>1 DEF Held
      <3>. QED  BY <2>1, <3>1, <3>2, <3>3 DEF OnTime
    <2>. QED  BY <2>1 DEF DeadlineNotLate
  <1> HIDE DEF Counted
  <1>. QED  BY <1>1, <1>2, <1>3, PTL DEF EngineSpec

-----------------------------------------------------------------------------
(***************************************************************************)
(* The winner announced.  getWinner reads the latest bid and closeAuction  *)
(* the leader; they are the same bid because the amounts of an auction     *)
(* rise with the ids, which placeBid ensures and removals do not disturb.  *)
(***************************************************************************)
Rising(a) == \A b, c \in BidsOf(a) : b < c => bid[b].amount < bid[c].amount

\* What is unsynchronised once stays so.
LEMMA UnsyncedKept ==
  ASSUME Typed, [Next]_vars
  PROVE  unsynced \subseteq unsynced'
  <1>1. CASE UNCHANGED vars
    BY <1>1 DEF vars
  <1>2. ASSUME NEW p \in Procs, StartStep(p) \/ ClearStep(p)
        PROVE  unsynced \subseteq unsynced'
    BY <1>2 DEF StartStep, StartCheck, StartCreate, StartListed, MarkItemOnAuction,
                InsertAuction, ClearStep, ClearHistory, ClearItems, rows
  <1>3. ASSUME NEW p \in Procs, EditStep(p)
        PROVE  unsynced \subseteq unsynced'
    BY <1>3 DEF EditStep, UpdateAuctionRead, ScheduleEndRead, UpdateAuctionWrite,
                ScheduleEndWrite, UpdateBidRead, UpdateBidWrite, Begin, rows
  <1>4. ASSUME NEW p \in Procs, RemoveStep(p)
        PROVE  unsynced \subseteq unsynced'
    BY <1>4 DEF RemoveStep, RemoveBidRead, DeleteBid, ResetLeaders, FindNextLeader, MarkLeader,
                SettleWinner, Begin, rows, Disturbed
  <1>5. ASSUME NEW a \in AuctionIds, \/ \E amount \in Amounts : Bid(a, amount)
                                     \/ Close(a) \/ Cancel(a) \/ SweepClose(a)
        PROVE  unsynced \subseteq unsynced'
    BY <1>5 DEF Bid, PlaceBid, Close, Cancel, SweepClose, CloseAuction, CancelAuction, rows,
                Disturbed
  <1>6. CASE ReadExpired \/ Tick \/ Crash
    BY <1>6 DEF ReadExpired, Tick, Crash, rows
  <1>. QED  BY <1>1, <1>2, <1>3, <1>4, <1>5, <1>6 DEF Next

\* Steps that write no amount and add no bid.
LEMMA RisingSame ==
  ASSUME NEW a \in AuctionIds, Rising(a),
         \A b \in BidIds : bid'[b].auction = a =>
            bid[b].auction = a /\ bid'[b].amount = bid[b].amount
  PROVE  Rising(a)'
  BY DEF Rising, BidsOf

\* The bid placeBid adds is the latest, and passes all the others.
LEMMA RisingBid ==
  ASSUME Typed, NEW x \in AuctionIds, NEW amount \in Amounts, PlaceBid(x, amount),
         NEW a \in AuctionIds, Rising(a)
  PROVE  Rising(a)'
  <1>1. /\ bidSeq' = bidSeq + 1 /\ bidSeq' \in BidIds
        /\ bid'[bidSeq'].auction = x /\ bid'[bidSeq'].amount = amount
        /\ \A b \in BidIds : b # bidSeq' =>
              bid'[b].auction = bid[b].auction /\ bid'[b].amount = bid[b].amount
    BY BidWrites
  <1>2. CASE a # x
    BY <1>1, <1>2, RisingSame
  <1>3. CASE a = x
    <2>1. \A b \in BidsOf(a) : b \in BidIds /\ b <= bidSeq /\ bid[b].amount \in Nat
      BY DEF BidsOf, Typed, TypeOK, Live, BidRow, AuctionIds, NoAuction
    <2>2. \A b \in BidsOf(a) : bid[b].amount < amount
      <3>1. auction[a].step \in Nat /\ amount \in Nat
        BY StoreAssumption DEF Typed, TypeOK, AuctionRow
      <3>2. \A b \in BidsOf(a) : IF auction[a].step > 0
                                 THEN amount >= bid[b].amount + auction[a].step
                                 ELSE amount > bid[b].amount
        BY <1>3 DEF PlaceBid, AcceptsBid
      <3>. QED  BY <2>1, <3>1, <3>2
    <2>3. BidsOf(a)' = BidsOf(a) \cup {bidSeq'}
      BY <1>1, <1>3 DEF BidsOf
    <2>4. ASSUME NEW b \in BidsOf(a)', NEW c \in BidsOf(a)', b < c
          PROVE  bid'[b].amount < bid'[c].amount
      <3>0. bidSeq \in Nat  BY DEF Typed, TypeOK
      <3>1. bidSeq \in Nat /\ b # bidSeq'
        BY <1>1, <2>1, <2>3, <2>4, <3>0 DEF BidIds
      <3>2. b \in BidsOf(a) /\ b \in BidIds
        BY <2>1, <2>3, <3>1
      <3>3. CASE c = bidSeq'
        BY <1>1, <2>2, <3>1, <3>2, <3>3
      <3>4. CASE c # bidSeq'
        <4>1. c \in BidsOf(a) /\ c \in BidIds
          BY <2>1, <2>3, <3>4
        <4>. QED  BY <1>1, <2>4, <3>1, <3>2, <3>4, <4>1 DEF Rising
      <3>. QED  BY <3>3, <3>4
    <2>. QED  BY <2>4 DEF Rising
  <1>. QED  BY <1>2, <1>3

LEMMA RisingNext ==
  ASSUME Typed, [Next]_vars, NEW a \in AuctionIds, Rising(a), a \notin unsynced'
  PROVE  Rising(a)'
  <1>1. CASE UNCHANGED bid
    BY <1>1, RisingSame
  <1>2. ASSUME NEW x \in AuctionIds, NEW amount \in Amounts, Bid(x, amount)
        PROVE  Rising(a)'
    BY <1>2, RisingBid DEF Bid
  <1>3. ASSUME NEW p \in Procs, RemoveStep(p)
        PROVE  Rising(a)'
    <2>1. CASE DeleteBid(p) /\ Live(call[p].bid)
      <3>1. bid' = [bid EXCEPT ![call[p].bid] = AbsentBid]
        BY <2>1 DEF DeleteBid
      <3>2. \A b \in BidIds : bid'[b] = bid[b] \/ bid'[b].auction = NoAuction
        BY <3>1 DEF Typed, TypeOK, AbsentBid
      <3>. QED  BY <3>2, RisingSame DEF AuctionIds, NoAuction
    <2>2. CASE ResetLeaders(p)
      BY <2>2, ResetWrites, RisingSame
    <2>3. CASE MarkLeader(p) /\ Live(call[p].bid)
      BY <2>3, MarkWrites, RisingSame
    <2>4. CASE UNCHANGED bid
      BY <1>1, <2>4
    <2>. QED
      BY <1>3, <2>1, <2>2, <2>3, <2>4 DEF RemoveStep, RemoveBidRead, DeleteBid, FindNextLeader,
                                          MarkLeader, SettleWinner, Begin, rows
  <1>4. ASSUME NEW p \in Procs, EditStep(p)
        PROVE  Rising(a)'
    <2>1. CASE UpdateBidWrite(p) /\ Live(call[p].bid)
      <3>1. PICK b \in BidIds : b = call[p].bid /\ bid[b].auction = call[p].auction
        BY <2>1 DEF Typed, CallOK, Live
      <3>2. bid[b].auction # a
        BY <2>1, <3>1 DEF UpdateBidWrite
      <3>3. PICK amount \in Amounts : bid' = [bid EXCEPT ![b].amount = amount]
        BY <2>1, <3>1 DEF UpdateBidWrite
      <3>4. \A c \in BidIds : c # b => bid'[c] = bid[c]
        BY <3>3 DEF Typed, TypeOK
      <3>5. bid'[b].auction = bid[b].auction
        BY <3>3 DEF Typed, TypeOK, BidRow
      <3>. QED  BY <3>2, <3>4, <3>5, RisingSame
    <2>2. CASE UNCHANGED bid
      BY <1>1, <2>2
    <2>. QED
      BY <1>4, <2>1, <2>2 DEF EditStep, UpdateAuctionRead, ScheduleEndRead, UpdateAuctionWrite,
                              ScheduleEndWrite, UpdateBidRead, UpdateBidWrite, Begin, rows
  <1>5. ASSUME NEW p \in Procs, ClearStep(p)
        PROVE  Rising(a)'
    <2>1. CASE ClearHistory(p)
      <3>1. \A b \in BidIds : bid'[b].auction = NoAuction
        BY <2>1 DEF ClearHistory, AbsentBid
      <3>. QED  BY <3>1, RisingSame DEF AuctionIds, NoAuction
    <2>. QED  BY <1>1, <1>5, <2>1 DEF ClearStep, ClearItems
  <1>6. ASSUME NEW p \in Procs, StartStep(p)
        PROVE  Rising(a)'
    BY <1>1, <1>6 DEF StartStep, StartCheck, StartCreate, StartListed, MarkItemOnAuction,
                      InsertAuction, rows
  <1>7. CASE \/ UNCHANGED vars \/ ReadExpired \/ Tick \/ Crash
             \/ \E x \in AuctionIds : Close(x) \/ Cancel(x) \/ SweepClose(x)
    BY <1>1, <1>7 DEF vars, ReadExpired, Tick, Crash, Close, Cancel, SweepClose, CloseAuction,
                      CancelAuction, rows
  <1>. QED  BY <1>2, <1>3, <1>4, <1>5, <1>6, <1>7 DEF Next

\* The latest bid and the highest are one.
LEMMA LatestIsHighest ==
  ASSUME Typed, NEW a \in AuctionIds, Rising(a), Won(a)
  PROVE  LatestBid(a) = auction[a].winner
  <1>1. CASE BidsOf(a) = {}
    BY <1>1 DEF LatestBid, Won
  <1>2. CASE BidsOf(a) # {}
    <2>1. /\ LatestBid(a) \in BidsOf(a)
          /\ \A c \in BidsOf(a) : c <= LatestBid(a)
      BY <1>2, LatestIsBid
    <2>2. IsHighest(auction[a].winner, a)
      BY <1>2 DEF Won
    <2>3. PICK l, w \in BidsOf(a) : l = LatestBid(a) /\ w = auction[a].winner
      BY <2>1, <2>2 DEF IsHighest
    <2>4. l \in Nat /\ w \in Nat /\ bid[l].amount \in Nat /\ bid[w].amount \in Nat
      BY DEF BidsOf, BidIds, Typed, TypeOK, BidRow
    <2>5. w <= l /\ bid[l].amount <= bid[w].amount
      BY <2>1, <2>2, <2>3 DEF IsHighest
    <2>6. ~(w < l)
      BY <2>4, <2>5 DEF Rising
    <2>. QED  BY <2>3, <2>4, <2>5, <2>6
  <1>. QED  BY <1>1, <1>2

Named(a) ==
    announced[a].times > 0 /\ auction[a].status = "CLOSED"
        => announced[a].winner = auction[a].winner

NamedRight(a) == a \notin unsynced => Rising(a) /\ Named(a)

\* The announcement names the winner of the row, and the row keeps it.
LEMMA NamedNext ==
  ASSUME EngineSafe, RemovalSafe, [EngineNext]_allVars, NEW a \in AuctionIds, Told(a),
         Rising(a), Named(a), a \notin unsynced, a \notin unsynced'
  PROVE  Named(a)'
  <1>0. Typed /\ EngineTyped /\ [Next]_vars
    BY SafeOnwards DEF EngineSafe
  <1>1. AuctionSafe(a)  BY DEF RemovalSafe
  <1>2. CASE \E t \in Tickers : TickAnnounce(t) /\ ticker[t].auction = a
    <2>1. PICK t \in Tickers : TickAnnounce(t) /\ ticker[t].auction = a
      BY <1>2
    <2>2. UNCHANGED auction  BY <2>1 DEF TickAnnounce, vars
    <2>3. announced'[a].winner = LatestBid(a)
      <3>1. announced \in [AuctionIds -> [times : Nat, winner : BidIds \cup {NoBid}]]
        BY <1>0 DEF EngineTyped, ToldTyped
      <3>. QED  BY <2>1, <3>1 DEF TickAnnounce
    <2>4. auction[a].status = "CLOSED" => Won(a)
      BY <1>1 DEF AuctionSafe
    <2>. QED  BY <1>0, <2>2, <2>3, <2>4, LatestIsHighest DEF Named
  <1>3. CASE announced'[a] = announced[a]
    <2>1. SUFFICES ASSUME announced[a].times > 0, auction'[a].status = "CLOSED"
                   PROVE  announced[a].winner = auction'[a].winner
      BY <1>3 DEF Named
    <2>2. ~Open(a) /\ a <= auctionSeq
      BY <2>1 DEF Told, ToldOver
    <2>3. RowStep(a) /\ a # auctionSeq + 1
      BY <1>0, <2>2, RowNext DEF Typed, TypeOK, AuctionIds
    <2>4. CASE RowMoved(a)
      BY <1>1, <2>1, <2>2, <2>4 DEF RowMoved, AuctionSafe, Open, Named
    <2>. QED  BY <2>1, <2>2, <2>3, <2>4 DEF RowStep, RowNew, RowEdited, Named
  <1>4. announced'[a] = announced[a] \/ \E t \in Tickers : TickAnnounce(t) /\ ticker[t].auction = a
    <2>1. CASE UNCHANGED announced
      BY <2>1
    <2>2. ASSUME NEW t \in Tickers, TickAnnounce(t), ticker[t].auction # a
          PROVE  announced'[a] = announced[a]
      BY <1>0, <2>2 DEF TickAnnounce, EngineTyped, ToldTyped
    <2>3. UNCHANGED announced \/ \E t \in Tickers : TickAnnounce(t)
      BY DEF EngineNext, ChatStep, ChatBid, FinishSetup, ChatCancel, ChatBidCommit, ChatBidReturn,
         ChatCancelCommit, ChatCancelReturn, PanelStart, StartFromPanel, CreateAuction, OpenEntry,
         MarkStarted, Launch, PanelEdit, StartSetup, AnswerSetup, TickStep, TickVisit, TickClose,
         TickDelete, PanelEnd, SweepStep, ClockStep, Restart, engineVars, allVars
    <2>. QED  BY <2>1, <2>2, <2>3
  <1>. QED  BY <1>2, <1>3, <1>4

\* The winner told to the group is the winner in the database, unless a bid of the
\* auction was changed from the panel without synchronisation.
THEOREM AnnouncedWinnerSafety == EngineSpec => []AnnouncedWinnerIsWinner
  <1> DEFINE AllTold    == \A a \in AuctionIds : Told(a)
             AllRight == \A a \in AuctionIds : NamedRight(a)
             Sound      == EngineSafe /\ RemovalSafe /\ AllTold /\ AllRight
  <1>1. EngineInit => Sound
    <2>1. SUFFICES ASSUME EngineInit  PROVE Sound
      OBVIOUS
    <2>2. EngineSafe /\ RemovalSafe /\ AllTold
      BY <2>1, SafeInitially, SafeInit, ToldInit DEF EngineInit
    <2>3. ASSUME NEW a \in AuctionIds  PROVE Rising(a) /\ Named(a)
      <3>1. BidsOf(a) = {}
        BY <2>1 DEF EngineInit, Init, BidsOf, AbsentBid, AuctionIds, NoAuction
      <3>. QED  BY <2>1, <3>1 DEF EngineInit, Rising, Named
    <2>. QED  BY <2>2, <2>3 DEF NamedRight
  <1>2. Sound /\ [EngineNext]_allVars => Sound'
    <2>1. SUFFICES ASSUME Sound, [EngineNext]_allVars  PROVE Sound'
      OBVIOUS
    <2>2. EngineSafe' /\ [Next]_vars /\ Typed  BY <2>1, SafeOnwards DEF EngineSafe
    <2>3. RemovalSafe'  BY <2>1, <2>2, SafeNext
    <2>4. AllTold'  BY <2>1, ToldNext
    <2>5. ASSUME NEW a \in AuctionIds, a \notin unsynced'  PROVE Rising(a)' /\ Named(a)'
      <3>1. a \notin unsynced  BY <2>2, <2>5, UnsyncedKept
      <3>2. Rising(a) /\ Named(a) /\ Told(a)
        BY <2>1, <3>1 DEF NamedRight
      <3>. QED  BY <2>1, <2>2, <2>5, <3>1, <3>2, RisingNext, NamedNext
    <2>. QED  BY <2>2, <2>3, <2>4, <2>5 DEF NamedRight
  <1>3. Sound => AnnouncedWinnerIsWinner
    BY DEF NamedRight, Named, AnnouncedWinnerIsWinner
  <1> HIDE DEF Sound
  <1>. QED  BY <1>1, <1>2, <1>3, PTL DEF EngineSpec
=============================================================================
