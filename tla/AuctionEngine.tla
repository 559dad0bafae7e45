--------------------------- MODULE AuctionEngine ---------------------------
(***************************************************************************)
(* AuctionEngine in its single-auction mode: the entry each WhatsApp group *)
(* has in the `active` map while an auction runs, beside the rows of       *)
(* AuctionStore.  The map is written without any lock by the handlers of   *)
(* chat messages, by launches from the panel and by a ticker that fires    *)
(* every second whether or not its previous run is over; each of them      *)
(* awaits the database or WhatsApp between reading an entry and writing    *)
(* it back, and those are the points where the steps below split.          *)
(*                                                                         *)
(* A memory object is identified by its auction: every auction is put in   *)
(* memory at most once between two starts of the server.  Messages (the    *)
(* three warnings, replies, reactions) are left out except the final       *)
(* announcement.  The 30 s database sweep is AuctionStore's: it looks the  *)
(* closed auction up in `active` by the internal group id, which is no key *)
(* of that map, so it never touches the memory.                            *)
(***************************************************************************)
EXTENDS AuctionStore

CONSTANTS
    Tickers,   \* bound: runs of tick() that overlap
    Editors    \* the processes that also edit from the panel

ASSUME EngineAssumption == Editors \subseteq Procs

VARIABLES
    active,     \* auction of each group's entry, or NoAuction
    mem,        \* the memory object of each auction
    setup,      \* step of each group's !iniciar conversation
    handler,    \* chat and panel handlers between two awaits
    ticker,     \* runs of tick() that are awaiting
    announced,  \* history: closing announcements and the winner they named
    edited      \* history: auctions given another duration from the panel

engineVars == <<active, mem, setup, handler, ticker, announced, edited>>
allVars    == <<vars, engineVars>>

Memory     == [endsAt : Nat \cup {NoTime}, closed : BOOLEAN]
SetupStep  == {"none", "product", "value", "duration"}
HandlerRow == [step : {"idle", "bid", "placed", "starting", "open", "marking",
                       "launch", "cancel", "cancelled"},
               group : Groups \cup {NoGroup}, auction : AuctionIds \cup {NoAuction},
               endsAt : Nat \cup {NoTime}]
TickerRow  == [step : {"idle", "close", "read", "delete"},
               group : Groups \cup {NoGroup}, auction : AuctionIds \cup {NoAuction}]

NoHandler == [step |-> "idle", group |-> NoGroup, auction |-> NoAuction, endsAt |-> NoTime]
NoTicker  == [step |-> "idle", group |-> NoGroup, auction |-> NoAuction]

Fresh(endsAt) == [endsAt |-> endsAt, closed |-> FALSE]

Free(p) == handler[p] = NoHandler /\ call[p] = Idle

\* Where handler p goes next, with the group, auction and deadline it holds on to.
Await(p, step, g, a, endsAt) ==
    handler' = [handler EXCEPT ![p] =
                  [step |-> step, group |-> g, auction |-> a, endsAt |-> endsAt]]

Finish(p) == handler' = [handler EXCEPT ![p] = NoHandler]

-----------------------------------------------------------------------------
(***************************************************************************)
(* A numeric message in a group: placeBid reads the entry, awaits the      *)
(* transaction, then writes to the object and puts it back in the map.     *)
(***************************************************************************)
ChatBid(p, g) ==
    LET a == active[g] IN
    /\ Free(p)
    /\ setup[g] = "none"
    /\ a # NoAuction /\ ~mem[a].closed
    /\ Await(p, "bid", g, a, NoTime)
    /\ UNCHANGED <<vars, active, mem, setup, ticker, announced, edited>>

\* A rejection ends the handler with a reply.
ChatBidCommit(p) ==
    LET h == handler[p] IN
    /\ h.step = "bid"
    /\ \/ \E amount \in Amounts :
            /\ PlaceBid(h.auction, amount)
            /\ Await(p, "placed", h.group, h.auction, DeadlineAfterBid(h.auction))
       \/ /\ Open(h.auction) => \E amount \in Amounts : ~AcceptsBid(h.auction, amount)
          /\ Finish(p)
          /\ UNCHANGED rows
    /\ UNCHANGED <<call, sweep, now, crashes, active, mem, setup, ticker, announced, edited>>

\* Mutant: the deadline counted again from the moment the answer arrives.
ChatBidReturnMutant(p) ==
    LET h == handler[p] IN
    /\ h.step = "placed"
    /\ mem' = [mem EXCEPT ![h.auction].endsAt = now + auction[h.auction].duration]
    /\ active' = [active EXCEPT ![h.group] = h.auction]
    /\ Finish(p)
    /\ UNCHANGED <<vars, setup, ticker, announced, edited>>

ChatBidReturn(p) ==
    LET h == handler[p] IN
    /\ h.step = "placed"
    /\ mem' = [mem EXCEPT ![h.auction].endsAt = h.endsAt]
    /\ active' = [active EXCEPT ![h.group] = h.auction]
    /\ Finish(p)
    /\ UNCHANGED <<vars, setup, ticker, announced, edited>>

-----------------------------------------------------------------------------
(***************************************************************************)
(* The !iniciar conversation: product, value, duration, then startAuction  *)
(* and the entry, which is set without looking at the map again.           *)
(***************************************************************************)
StartSetup(g) ==
    /\ active[g] = NoAuction
    /\ setup' = [setup EXCEPT ![g] = "product"]
    /\ UNCHANGED <<vars, active, mem, handler, ticker, announced, edited>>

AnswerSetup(g) ==
    /\ \/ setup[g] = "product" /\ setup' = [setup EXCEPT ![g] = "value"]
       \/ setup[g] = "value" /\ setup' = [setup EXCEPT ![g] = "duration"]
    /\ UNCHANGED <<vars, active, mem, handler, ticker, announced, edited>>

FinishSetup(p, g) ==
    /\ Free(p)
    /\ setup[g] = "duration"
    /\ setup' = [setup EXCEPT ![g] = "none"]
    /\ \/ StartCheck(p, g, NoItem, NoEvent) /\ Await(p, "starting", g, NoAuction, NoTime)
       \/ ~GroupIsFree(g) /\ UNCHANGED <<vars, handler>>
    /\ UNCHANGED <<active, mem, ticker, announced, edited>>

\* startAuction's insert: for the conversation, for an item of the panel, or for
\* what nobody launches (POST /auctions, an item of a list).
CreateAuction(p) ==
    LET h == handler[p]
        a == auctionSeq + 1 IN
    /\ StartCreate(p)
    /\ \/ /\ h.step = "starting"
          /\ Await(p, "open", h.group, a, auction'[a].endsAt)
       \/ /\ h.step = "idle" /\ call[p].item # NoItem /\ call[p].event = NoEvent
          /\ Await(p, "marking", call[p].group, a, auction'[a].endsAt)
       \/ /\ h.step = "idle" /\ (call[p].item = NoItem \/ call[p].event # NoEvent)
          /\ UNCHANGED handler
    /\ UNCHANGED <<active, mem, setup, ticker, announced, edited>>

\* Mutant: the entry set without the deadline startAuction returned.
OpenEntryMutant(p) ==
    LET h == handler[p] IN
    /\ h.step = "open"
    /\ active' = [active EXCEPT ![h.group] = h.auction]
    /\ Finish(p)
    /\ UNCHANGED <<vars, mem, setup, ticker, announced, edited>>

OpenEntry(p) ==
    LET h == handler[p] IN
    /\ h.step = "open"
    /\ mem' = [mem EXCEPT ![h.auction] = Fresh(h.endsAt)]
    /\ active' = [active EXCEPT ![h.group] = h.auction]
    /\ Finish(p)
    /\ UNCHANGED <<vars, setup, ticker, announced, edited>>

(***************************************************************************)
(* startAuctionOnWhatsApp and POST /auctions, then launchAuction: refused  *)
(* when the group still has an entry, the auction staying open in the      *)
(* database all the same.  Auctions of a list are not launched.            *)
(***************************************************************************)
StartFromPanel(p) ==
    /\ Free(p)
    /\ \/ \E g \in Groups, i \in Items \cup {NoItem}, e \in Events \cup {NoEvent} :
            StartCheck(p, g, i, e)
       \/ StartListed(p)
    /\ UNCHANGED engineVars

MarkStarted(p) ==
    /\ MarkItemOnAuction(p)
    /\ handler' = [handler EXCEPT ![p].step = IF @ = "marking" THEN "launch" ELSE @]
    /\ UNCHANGED <<active, mem, setup, ticker, announced, edited>>

\* With the deadline startAuction returned, whatever the row says by now.
Launch(p) ==
    LET h == handler[p] IN
    /\ h.step = "launch"
    /\ IF active[h.group] = NoAuction
       THEN /\ mem' = [mem EXCEPT ![h.auction] = Fresh(h.endsAt)]
            /\ active' = [active EXCEPT ![h.group] = h.auction]
       ELSE UNCHANGED <<mem, active>>
    /\ Finish(p)
    /\ UNCHANGED <<vars, setup, ticker, announced, edited>>

-----------------------------------------------------------------------------
(***************************************************************************)
(* !encerrar: cancelAuction, then the group's entry goes, whichever it is. *)
(***************************************************************************)
ChatCancel(p, g) ==
    /\ Free(p)
    /\ active[g] # NoAuction
    /\ Await(p, "cancel", g, active[g], NoTime)
    /\ UNCHANGED <<vars, active, mem, setup, ticker, announced, edited>>

ChatCancelCommit(p) ==
    LET h == handler[p] IN
    /\ h.step = "cancel"
    /\ \/ CancelAuction(h.auction) /\ Await(p, "cancelled", h.group, h.auction, NoTime)
       \/ ~Open(h.auction) /\ Finish(p) /\ UNCHANGED rows
    /\ UNCHANGED <<call, sweep, now, crashes, active, mem, setup, ticker, announced, edited>>

ChatCancelReturn(p) ==
    /\ handler[p].step = "cancelled"
    /\ active' = [active EXCEPT ![handler[p].group] = NoAuction]
    /\ Finish(p)
    /\ UNCHANGED <<vars, mem, setup, ticker, announced, edited>>

-----------------------------------------------------------------------------
(***************************************************************************)
(* tick(): one visit of a group whose deadline has passed.  The first one  *)
(* sets `closed` and awaits closeAndAnnounce; a later run of tick() that   *)
(* finds `closed` set deletes the entry at once.                           *)
(***************************************************************************)
Due(g) == active[g] # NoAuction /\ mem[active[g]].endsAt <= now

\* Mutant: an entry that is already closed is left to the run that closed it.
TickVisitMutant(t, g) ==
    LET a == active[g] IN
    /\ ticker[t] = NoTicker
    /\ Due(g) /\ ~mem[a].closed
    /\ mem' = [mem EXCEPT ![a].closed = TRUE]
    /\ ticker' = [ticker EXCEPT ![t] = [step |-> "close", group |-> g, auction |-> a]]
    /\ UNCHANGED <<vars, active, setup, handler, announced, edited>>

\* Mutant: `closed` not set before closeAndAnnounce is awaited.
TickVisitLateMutant(t, g) ==
    LET a == active[g] IN
    /\ ticker[t] = NoTicker
    /\ Due(g)
    /\ ticker' = [ticker EXCEPT ![t] = [step |-> "close", group |-> g, auction |-> a]]
    /\ UNCHANGED <<vars, active, mem, setup, handler, announced, edited>>

TickVisit(t, g) ==
    LET a == active[g] IN
    /\ ticker[t] = NoTicker
    /\ Due(g)
    /\ IF mem[a].closed
       THEN active' = [active EXCEPT ![g] = NoAuction] /\ UNCHANGED <<mem, ticker>>
       ELSE /\ mem' = [mem EXCEPT ![a].closed = TRUE]
            /\ ticker' = [ticker EXCEPT ![t] =
                            [step |-> "close", group |-> g, auction |-> a]]
            /\ UNCHANGED active
    /\ UNCHANGED <<vars, setup, handler, announced, edited>>

\* closeAuction returns a row that is not open as it is; one that is gone throws,
\* which closeAndAnnounce logs and swallows.
TickClose(t) ==
    LET a == ticker[t].auction IN
    /\ ticker[t].step = "close"
    /\ \/ CloseAuction(a)
       \/ ~Open(a) /\ UNCHANGED rows
    /\ ticker' = [ticker EXCEPT ![t].step = IF Exists(a) THEN "read" ELSE "delete"]
    /\ UNCHANGED <<call, sweep, now, crashes, active, mem, setup, handler, announced, edited>>

\* Mutant: getWinner orders by createdAt asc.
LatestBidMutant(a) ==
    IF BidsOf(a) = {} THEN NoBid
    ELSE CHOOSE b \in BidsOf(a) : \A c \in BidsOf(a) : b <= c

\* getBids(..., 1, 1) orders by createdAt desc; NoBid when there is none.
LatestBid(a) ==
    IF BidsOf(a) = {} THEN NoBid
    ELSE CHOOSE b \in BidsOf(a) : \A c \in BidsOf(a) : c <= b

\* getWinner reads the bids afresh; the message leaves at once.
TickAnnounce(t) ==
    LET a == ticker[t].auction IN
    /\ ticker[t].step = "read"
    /\ announced' = [announced EXCEPT
         ![a] = [times |-> @.times + 1, winner |-> LatestBid(a)]]
    /\ ticker' = [ticker EXCEPT ![t].step = "delete"]
    /\ UNCHANGED <<vars, active, mem, setup, handler, edited>>

\* After the send: the group's entry goes, whichever it is.
TickDelete(t) ==
    /\ ticker[t].step = "delete"
    /\ active' = [active EXCEPT ![ticker[t].group] = NoAuction]
    /\ ticker' = [ticker EXCEPT ![t] = NoTicker]
    /\ UNCHANGED <<vars, mem, setup, handler, announced, edited>>

-----------------------------------------------------------------------------
(***************************************************************************)
(* The panel's own writes do not reach the memory.                         *)
(***************************************************************************)
PanelEnd == (\E a \in AuctionIds : Close(a) \/ Cancel(a)) /\ UNCHANGED engineVars

PanelEdit(p) ==
    /\ handler[p] = NoHandler
    /\ EditStep(p) \/ RemoveStep(p) \/ ClearStep(p)
    /\ edited' = edited \cup
         {a \in AuctionIds : call[p].step \in {"update", "schedule"} /\ call[p].auction = a}
    /\ UNCHANGED <<active, mem, setup, handler, ticker, announced>>

SweepStep ==
    /\ ReadExpired \/ \E a \in AuctionIds : SweepClose(a)
    /\ UNCHANGED engineVars

ClockStep == Tick /\ UNCHANGED engineVars

(***************************************************************************)
(* The server restarts: memory and conversations are lost, and             *)
(* loadActiveAuctions puts back the open auctions outside lists (of two in *)
(* one group, whichever comes last).                                       *)
(***************************************************************************)
Recoverable(g) ==
    {a \in AuctionIds : /\ Open(a) /\ auction[a].group = g
                        /\ auction[a].event = NoEvent /\ auction[a].endsAt # NoTime}

Restart ==
    /\ Crash
    /\ active' \in [Groups -> AuctionIds \cup {NoAuction}]
    /\ \A g \in Groups : IF Recoverable(g) = {} THEN active'[g] = NoAuction
                         ELSE active'[g] \in Recoverable(g)
    /\ mem' = [a \in AuctionIds |->
                 IF \E g \in Groups : a \in Recoverable(g)
                 THEN Fresh(auction[a].endsAt) ELSE Fresh(NoTime)]
    /\ setup' = [g \in Groups |-> "none"]
    /\ handler' = [p \in Procs |-> NoHandler]
    /\ ticker' = [t \in Tickers |-> NoTicker]
    /\ UNCHANGED <<announced, edited>>

-----------------------------------------------------------------------------
EngineInit ==
    /\ Init
    /\ active = [g \in Groups |-> NoAuction]
    /\ mem = [a \in AuctionIds |-> Fresh(NoTime)]
    /\ setup = [g \in Groups |-> "none"]
    /\ handler = [p \in Procs |-> NoHandler]
    /\ ticker = [t \in Tickers |-> NoTicker]
    /\ announced = [a \in AuctionIds |-> [times |-> 0, winner |-> NoBid]]
    /\ edited = {}

ChatStep(p) ==
    \/ \E g \in Groups : ChatBid(p, g) \/ FinishSetup(p, g) \/ ChatCancel(p, g)
    \/ ChatBidCommit(p) \/ ChatBidReturn(p)
    \/ ChatCancelCommit(p) \/ ChatCancelReturn(p)

PanelStart(p) ==
    \/ StartFromPanel(p) \/ CreateAuction(p) \/ OpenEntry(p) \/ MarkStarted(p) \/ Launch(p)

TickStep(t) ==
    \/ \E g \in Groups : TickVisit(t, g)
    \/ TickClose(t) \/ TickAnnounce(t) \/ TickDelete(t)

EngineNext ==
    \/ \E p \in Procs : ChatStep(p) \/ PanelStart(p)
    \/ \E p \in Editors : PanelEdit(p)
    \/ \E g \in Groups : StartSetup(g) \/ AnswerSetup(g)
    \/ \E t \in Tickers : TickStep(t)
    \/ PanelEnd \/ SweepStep \/ ClockStep \/ Restart

EngineSpec == EngineInit /\ [][EngineNext]_allVars

\* The ticker fires every second and every await it makes comes back; time passes.
EngineFairness ==
    /\ WF_allVars(ClockStep)
    /\ WF_allVars(\E t \in Tickers, g \in Groups : TickVisit(t, g))
    /\ \A t \in Tickers : WF_allVars(TickClose(t) \/ TickAnnounce(t) \/ TickDelete(t))

FairEngineSpec == EngineSpec /\ EngineFairness

-----------------------------------------------------------------------------
(***************************************************************************)
(* Properties.                                                             *)
(***************************************************************************)

\* Entries, handlers and tickers have their types; an entry of the map is an
\* auction that was created and has a deadline for the ticker.
EngineTypeOK ==
    /\ TypeOK
    /\ active \in [Groups -> AuctionIds \cup {NoAuction}]
    /\ mem \in [AuctionIds -> Memory]
    /\ setup \in [Groups -> SetupStep]
    /\ handler \in [Procs -> HandlerRow]
    /\ ticker \in [Tickers -> TickerRow]
    /\ announced \in [AuctionIds -> [times : Nat, winner : BidIds \cup {NoBid}]]
    /\ edited \subseteq AuctionIds
    /\ \A g \in Groups : active[g] # NoAuction =>
          active[g] <= auctionSeq /\ mem[active[g]].endsAt # NoTime

\* closeAndAnnounce tells the group once that an auction is over, whatever runs
\* of tick() overlap, whatever bid answers late, and across restarts.
AnnouncedOnce == \A a \in AuctionIds : announced[a].times <= 1

\* The winner told to the group (the latest bid) is the winner in the database
\* (the leader when the auction closed).
AnnouncedWinnerIsWinner ==
    \A a \in AuctionIds \ unsynced :
        announced[a].times > 0 /\ auction[a].status = "CLOSED"
            => announced[a].winner = auction[a].winner

\* The ticker's deadline is never later than the one in the database, so an
\* auction in memory does not outlive its row.  (A new duration set from the
\* panel is not told to the memory.)
DeadlineNotLate ==
    \A g \in Groups : LET a == active[g] IN
        a # NoAuction /\ a \notin edited /\ Exists(a) => mem[a].endsAt <= auction[a].endsAt

\* The entry of an auction that is over leaves the map, so that the group can
\* start another: tick() gets to it even when a late bid has put it back.
FinishedIsEvicted ==
    \A g \in Groups, a \in AuctionIds :
        active[g] = a /\ ~Open(a) ~> active[g] # a \/ mem[a].endsAt > MaxTime

\* "Um ticker central (1s) dispara os avisos (60s/30s) e o encerramento": the
\* entry of an auction the ticker has not begun to close stays until it is over.
OpenStaysTracked ==
    [][\A g \in Groups : LET a == active[g] IN
          a # NoAuction /\ active'[g] # a /\ ~mem[a].closed /\ crashes' = crashes
              => auction'[a].status # "OPEN"]_allVars

=============================================================================
