------------------------------ MODULE ListMode ------------------------------
(***************************************************************************)
(* AuctionEngine in its list mode: an event of several items runs in one   *)
(* group, with one auction per item, and the map `listGroups` says which   *)
(* event each group is running.  The panel opens the list, adds items to   *)
(* it and closes it; members bid; the chat opens and closes lists too; a   *)
(* ticker that does not wait for its previous run closes overdue items.    *)
(* All of them await the database or WhatsApp between looking at the map   *)
(* or a row and writing it, and only two things are serialised, by chains  *)
(* of promises: the creation of an item's auction and the publication of   *)
(* an auction's card.                                                      *)
(*                                                                         *)
(* Bids, amounts and deadlines are AuctionStore's.  Here an auction is     *)
(* open or over, may be closed by the panel or the sweep at any moment,    *)
(* and the ticker finds any of the auctions with a duration overdue.  A    *)
(* memory object of the map is identified by its event.                    *)
(***************************************************************************)
EXTENDS Naturals, FiniteSets, Sequences

CONSTANTS
    Groups, Events, Items, Procs,
    NoGroup, NoEvent, NoItem,
    EventOf,          \* the event each item belongs to
    Photo,            \* items with a photo
    Timed,            \* items with a duration
    MaxAuctions,      \* bound: auction rows ever created
    MaxCrashes,       \* bound: restarts of the server
    MaxFailures,      \* bound: statements that throw
    MaxStatusEdits    \* bound: status edits of events from the panel

ASSUME ListAssumption ==
    /\ EventOf \in [Items -> Events]
    /\ Photo \subseteq Items /\ Timed \subseteq Items
    /\ MaxAuctions \in Nat /\ MaxCrashes \in Nat
    /\ MaxFailures \in Nat /\ MaxStatusEdits \in Nat
    /\ NoGroup \notin Groups /\ NoEvent \notin Events /\ NoItem \notin Items

VARIABLES
    auction,      \* the auctions of list items, by id
    auctionSeq,   \* ids handed out
    item,         \* Item.status
    event,        \* AuctionEvent.status
    list,         \* listGroups: the event each group runs
    itemLock,     \* withLock(`item:...`): the calls queued, the first one runs
    cardLock,     \* withLock(`card:...`)
    call,         \* calls between two awaits
    crashes, failures, statusEdits,
    delivered,    \* history: cards of each auction that reached the group
    finals,       \* history: final summaries of each event sent to each group
    unlocked      \* history: items given an auction without their lock

rows    == <<auction, auctionSeq, item, event>>
locks   == <<itemLock, cardLock>>
bounds  == <<crashes, failures, statusEdits>>
history == <<delivered, finals, unlocked>>
vars    == <<rows, list, locks, call, bounds, history>>

AuctionIds == 1 .. MaxAuctions
NoAuction  == 0

AuctionRow == [status : {"ABSENT", "OPEN", "OVER"}, item : Items \cup {NoItem},
               group : Groups \cup {NoGroup}, card : BOOLEAN]
Absent     == [status |-> "ABSENT", item |-> NoItem, group |-> NoGroup, card |-> FALSE]

ItemStatus == {"ABSENT", "AVAILABLE", "ON_AUCTION", "SOLD"}

Operation == {"none", "publish", "open", "start", "single", "close", "cancel", "bid", "tick"}
CallStep  == {"idle", "add", "read", "list", "find", "create", "mark", "cards", "card",
              "fresh", "emit", "sent", "confirm", "check", "set", "sync", "next",
              "close", "final", "drop", "bid", "placed", "refresh", "rows"}

\* item and auction are what the call works on, items and cards what it has still
\* to go through, groups the lists it has to announce as over, made what it created.
Call == [op : Operation, step : CallStep, event : Events \cup {NoEvent},
         group : Groups \cup {NoGroup}, item : Items \cup {NoItem}, free : BOOLEAN,
         auction : AuctionIds \cup {NoAuction}, items : SUBSET Items,
         cards : SUBSET AuctionIds, made : SUBSET AuctionIds, groups : SUBSET Groups]

Idle == [op |-> "none", step |-> "idle", event |-> NoEvent, group |-> NoGroup,
         item |-> NoItem, free |-> FALSE, auction |-> NoAuction, items |-> {},
         cards |-> {}, made |-> {}, groups |-> {}]

Begin(p, c) == call[p] = Idle /\ call' = [call EXCEPT ![p] = c]
At(p, step) == call[p].step = step
To(p, c)    == call' = [call EXCEPT ![p] = c]
Goto(p, s)  == call' = [call EXCEPT ![p].step = s]
Return(p)   == To(p, Idle)

ItemsOf(e)    == {i \in Items : EventOf[i] = e}
AuctionsOf(i) == {a \in AuctionIds : auction[a].item = i}
Listed(e)     == {a \in AuctionIds : auction[a].item \in ItemsOf(e)}
Open(a)       == auction[a].status = "OPEN"

\* withLock: a call joins the queue of its key, runs while it is the first, and leaves.
Join(queue, k, p)  == [queue EXCEPT ![k] = Append(@, p)]
Holds(queue, k, p) == queue[k] # <<>> /\ Head(queue[k]) = p
Leave(queue, k)    == [queue EXCEPT ![k] = Tail(@)]

Waiting(p) == \/ \E i \in Items : \E n \in DOMAIN itemLock[i] : n > 1 /\ itemLock[i][n] = p
              \/ \E a \in AuctionIds : \E n \in DOMAIN cardLock[a] : n > 1 /\ cardLock[a][n] = p

-----------------------------------------------------------------------------
(***************************************************************************)
(* An auction row for an item, then the item's status, in two statements.  *)
(* The paths that hold the item's lock are "publish" and "open"; the chat  *)
(* opening a list and the panel starting one item do not take it.          *)
(***************************************************************************)
CreateAuction(p) ==
    LET c == call[p]
        a == auctionSeq + 1 IN
    /\ At(p, "create")
    /\ auctionSeq < MaxAuctions
    /\ auctionSeq' = a
    /\ auction' = [auction EXCEPT ![a] =
         [status |-> "OPEN", item |-> c.item, group |-> c.group, card |-> FALSE]]
    /\ unlocked' = IF c.op \in {"start", "single"} THEN unlocked \cup {c.item} ELSE unlocked
    /\ To(p, [c EXCEPT !.step = "mark", !.auction = a, !.made = @ \cup {a}])
    /\ UNCHANGED <<item, event, list, locks, bounds, delivered, finals>>

MarkItem(p) ==
    LET c == call[p] IN
    /\ At(p, "mark")
    /\ item' = [item EXCEPT ![c.item] = "ON_AUCTION"]
    /\ CASE c.op = "publish" -> Goto(p, "cards") /\ UNCHANGED itemLock
         [] c.op = "open" -> /\ itemLock' = Leave(itemLock, c.item)
                             /\ To(p, [c EXCEPT !.step = "next", !.items = @ \ {c.item}])
         [] c.op = "start" -> /\ To(p, [c EXCEPT !.step = "next", !.items = @ \ {c.item}])
                              /\ UNCHANGED itemLock
         [] c.op = "single" -> Return(p) /\ UNCHANGED itemLock
    /\ UNCHANGED <<auction, auctionSeq, event, list, cardLock, bounds, history>>

-----------------------------------------------------------------------------
(***************************************************************************)
(* ItemsService.create, then publishItemToList for the new item.           *)
(***************************************************************************)
AddItemCheck(p, i) ==
    /\ item[i] = "ABSENT"
    /\ event[EventOf[i]] = "OPEN"
    /\ Begin(p, [Idle EXCEPT !.op = "publish", !.step = "add", !.item = i,
                             !.event = EventOf[i]])
    /\ UNCHANGED <<rows, list, locks, bounds, history>>

AddItem(p) ==
    /\ At(p, "add")
    /\ item' = [item EXCEPT ![call[p].item] = "AVAILABLE"]
    /\ Goto(p, "read")
    /\ UNCHANGED <<auction, auctionSeq, event, list, locks, bounds, history>>

\* The event must be open; the item's status is read here and used under the lock.
PublishRead(p) ==
    LET c == call[p] IN
    /\ At(p, "read")
    /\ IF event[c.event] = "OPEN"
       THEN To(p, [c EXCEPT !.step = "list", !.free = item[c.item] = "AVAILABLE"])
       ELSE Return(p)
    /\ UNCHANGED <<rows, list, locks, bounds, history>>

\* findListByEvent; without a list the card goes out when the list starts.
PublishJoin(p) ==
    LET c == call[p] IN
    /\ At(p, "list")
    /\ \/ \E g \in Groups :
            /\ list[g] = c.event
            /\ To(p, [c EXCEPT !.step = "find", !.group = g])
            /\ itemLock' = Join(itemLock, c.item, p)
       \/ (\A g \in Groups : list[g] # c.event) /\ Return(p) /\ UNCHANGED itemLock
    /\ UNCHANGED <<rows, list, cardLock, bounds, history>>

\* Mutant: the item found not eligible without leaving its lock.
PublishFindMutant(p) ==
    LET c == call[p] IN
    /\ At(p, "find") /\ c.op = "publish"
    /\ Holds(itemLock, c.item, p)
    /\ \/ \E a \in AuctionsOf(c.item) :
            IF Open(a) /\ ~auction[a].card
            THEN To(p, [c EXCEPT !.step = "cards", !.auction = a])
            ELSE Return(p)
       \/ AuctionsOf(c.item) = {} /\ IF c.free THEN Goto(p, "create") ELSE Return(p)
    /\ UNCHANGED <<rows, list, locks, bounds, history>>

\* Already published, closed before it was, or not available: nothing to do.
PublishFind(p) ==
    LET c == call[p]
        Skip == Return(p) /\ itemLock' = Leave(itemLock, c.item) IN
    /\ At(p, "find") /\ c.op = "publish"
    /\ Holds(itemLock, c.item, p)
    /\ \/ \E a \in AuctionsOf(c.item) :
            IF Open(a) /\ ~auction[a].card
            THEN To(p, [c EXCEPT !.step = "cards", !.auction = a]) /\ UNCHANGED itemLock
            ELSE Skip
       \/ /\ AuctionsOf(c.item) = {}
          /\ IF c.free THEN Goto(p, "create") /\ UNCHANGED itemLock ELSE Skip
    /\ UNCHANGED <<rows, list, cardLock, bounds, history>>

\* Published, or the error that leaves the card for later: the call ends either way.
PublishConfirm(p) ==
    /\ At(p, "confirm")
    /\ itemLock' = Leave(itemLock, call[p].item)
    /\ Return(p)
    /\ UNCHANGED <<rows, list, cardLock, bounds, history>>

-----------------------------------------------------------------------------
(***************************************************************************)
(* openListFromPanel (also what the scheduled opening calls): the list is  *)
(* put in memory, syncNewItems creates the missing auctions, the cards of  *)
(* items with a photo go out.  With the list already in memory it only     *)
(* does the last two.                                                      *)
(***************************************************************************)
OpenFind(p, e, g) ==
    /\ \/ \E h \in Groups :
            /\ list[h] = e
            /\ Begin(p, [Idle EXCEPT !.op = "open", !.step = "sync", !.event = e, !.group = h])
       \/ /\ \A h \in Groups : list[h] # e
          /\ Begin(p, [Idle EXCEPT !.op = "open", !.step = "check", !.event = e, !.group = g])
    /\ UNCHANGED <<rows, list, locks, bounds, history>>

\* Refused for a closed event and for a group where another event runs.
OpenCheck(p) ==
    LET c == call[p] IN
    /\ At(p, "check")
    /\ IF /\ event[c.event] = "OPEN"
          /\ \A a \in AuctionIds \ Listed(c.event) : ~(Open(a) /\ auction[a].group = c.group)
       THEN Goto(p, "set") ELSE Return(p)
    /\ UNCHANGED <<rows, list, locks, bounds, history>>

OpenSet(p) ==
    /\ At(p, "set")
    /\ list' = [list EXCEPT ![call[p].group] = call[p].event]
    /\ Goto(p, "sync")
    /\ UNCHANGED <<rows, locks, bounds, history>>

SyncRead(p) ==
    LET c == call[p] IN
    /\ At(p, "sync")
    /\ To(p, [c EXCEPT !.step = "next", !.items =
                {i \in ItemsOf(c.event) : item[i] # "ABSENT" /\ AuctionsOf(i) = {}}])
    /\ UNCHANGED <<rows, list, locks, bounds, history>>

\* The next item of syncNewItems, or of the loop of startListInGroup (no lock).
NextItem(p) ==
    LET c == call[p] IN
    /\ At(p, "next")
    /\ \/ c.items = {} /\ Goto(p, "cards") /\ UNCHANGED itemLock
       \/ \E i \in c.items :
            IF c.op = "open"
            THEN /\ itemLock' = Join(itemLock, i, p)
                 /\ To(p, [c EXCEPT !.step = "find", !.item = i])
            ELSE To(p, [c EXCEPT !.step = "create", !.item = i]) /\ UNCHANGED itemLock
    /\ UNCHANGED <<rows, list, cardLock, bounds, history>>

\* Mutant: no second look under the lock.
SyncFindMutant(p) ==
    LET c == call[p] IN
    /\ At(p, "find") /\ c.op = "open"
    /\ Holds(itemLock, c.item, p)
    /\ Goto(p, "create")
    /\ UNCHANGED <<rows, list, locks, bounds, history>>

SyncFind(p) ==
    LET c == call[p] IN
    /\ At(p, "find") /\ c.op = "open"
    /\ Holds(itemLock, c.item, p)
    /\ IF AuctionsOf(c.item) = {}
       THEN Goto(p, "create") /\ UNCHANGED itemLock
       ELSE /\ To(p, [c EXCEPT !.step = "next", !.items = @ \ {c.item}])
            /\ itemLock' = Leave(itemLock, c.item)
    /\ UNCHANGED <<rows, list, cardLock, bounds, history>>

(***************************************************************************)
(* `!iniciar` in a group with a pending event: startListInGroup creates    *)
(* every auction first and the list is in memory only at the end.          *)
(***************************************************************************)
ChatStart(p, e, g) ==
    /\ list[g] = NoEvent
    /\ event[e] = "OPEN"
    /\ \E i \in ItemsOf(e) : item[i] # "ABSENT"
    /\ \A a \in AuctionIds : Open(a) => a \notin Listed(e) /\ auction[a].group # g
    /\ Begin(p, [Idle EXCEPT !.op = "start", !.step = "next", !.event = e, !.group = g,
                             !.items = {i \in ItemsOf(e) : item[i] # "ABSENT"}])
    /\ UNCHANGED <<rows, list, locks, bounds, history>>

\* startAuctionOnWhatsApp for an item of a list; launchAuction then ignores it.
StartSingle(p, i, g) ==
    /\ item[i] \in {"AVAILABLE", "SOLD"}
    /\ event[EventOf[i]] = "OPEN"
    /\ Begin(p, [Idle EXCEPT !.op = "single", !.step = "create", !.item = i, !.group = g,
                             !.event = EventOf[i]])
    /\ UNCHANGED <<rows, list, locks, bounds, history>>

-----------------------------------------------------------------------------
(***************************************************************************)
(* sendItemCards: from one read of the auctions, the unpublished open ones *)
(* (this one, those just created, or those with a photo), each under its   *)
(* own lock with a second look at cardSentAt.                              *)
(***************************************************************************)
Wanted(c) == CASE c.op = "publish" -> {c.auction}
               [] c.op = "start" -> c.made
               [] c.op = "open" -> {a \in AuctionIds : auction[a].item \in Photo}

CardsRead(p) ==
    LET c == call[p] IN
    /\ At(p, "cards")
    /\ To(p, [c EXCEPT !.step = "card", !.cards =
                {a \in Listed(c.event) \cap Wanted(c) : Open(a) /\ ~auction[a].card}])
    /\ UNCHANGED <<rows, list, locks, bounds, history>>

\* When all are done the chat's list is put in memory.
NextCard(p) ==
    LET c == call[p] IN
    /\ At(p, "card")
    /\ \/ \E a \in c.cards :
            /\ cardLock' = Join(cardLock, a, p)
            /\ To(p, [c EXCEPT !.step = "fresh", !.auction = a])
            /\ UNCHANGED list
       \/ /\ c.cards = {}
          /\ IF c.op = "publish" THEN Goto(p, "confirm") ELSE Return(p)
          /\ list' = IF c.op = "start" THEN [list EXCEPT ![c.group] = c.event] ELSE list
          /\ UNCHANGED cardLock
    /\ UNCHANGED <<rows, itemLock, bounds, history>>

CardDone(p) ==
    /\ To(p, [call[p] EXCEPT !.step = "card", !.cards = @ \ {call[p].auction}])
    /\ cardLock' = Leave(cardLock, call[p].auction)

\* Mutant: cardSentAt not read again under the lock.
CardFreshMutant(p) ==
    /\ At(p, "fresh")
    /\ Holds(cardLock, call[p].auction, p)
    /\ Goto(p, "emit")
    /\ UNCHANGED <<rows, list, locks, bounds, history>>

CardFresh(p) ==
    /\ At(p, "fresh")
    /\ Holds(cardLock, call[p].auction, p)
    /\ IF auction[call[p].auction].card THEN CardDone(p)
       ELSE Goto(p, "emit") /\ UNCHANGED cardLock
    /\ UNCHANGED <<rows, list, itemLock, bounds, history>>

\* Mutant: a failed send returns without leaving the card's lock.
CardEmitMutant(p) ==
    /\ At(p, "emit")
    /\ \/ /\ To(p, [call[p] EXCEPT !.step = "card", !.cards = @ \ {call[p].auction}])
          /\ UNCHANGED <<cardLock, delivered>>
       \/ /\ delivered' = [delivered EXCEPT ![call[p].auction] = @ + 1]
          /\ Goto(p, "sent")
          /\ UNCHANGED cardLock
    /\ UNCHANGED <<rows, list, itemLock, bounds, finals, unlocked>>

CardEmit(p) ==
    /\ At(p, "emit")
    /\ \/ CardDone(p) /\ UNCHANGED delivered     \* no client, or the send failed
       \/ /\ delivered' = [delivered EXCEPT ![call[p].auction] = @ + 1]
          /\ Goto(p, "sent")
          /\ UNCHANGED cardLock
    /\ UNCHANGED <<rows, list, itemLock, bounds, finals, unlocked>>

CardMark(p) ==
    /\ At(p, "sent")
    /\ auction' = [auction EXCEPT ![call[p].auction].card = TRUE]
    /\ CardDone(p)
    /\ UNCHANGED <<auctionSeq, item, event, list, itemLock, bounds, history>>

-----------------------------------------------------------------------------
(***************************************************************************)
(* closeEventGroups, from the panel, the schedule, or `!encerrar` (which   *)
(* then deletes the group's list once more): the open auctions it read are *)
(* closed one by one, then the event, and only the call that closed the    *)
(* event announces the end.                                                *)
(***************************************************************************)
\* closeAuction: the item is sold when there was a bid.
CloseRow(a) ==
    /\ Open(a)
    /\ auction' = [auction EXCEPT ![a].status = "OVER"]
    /\ \E s \in {"AVAILABLE", "SOLD"} : item' = [item EXCEPT ![auction[a].item] = s]
    /\ UNCHANGED <<auctionSeq, event>>

CloseIfOpen(a) == CloseRow(a) \/ (~Open(a) /\ UNCHANGED rows)

CloseFromPanel(p, e) ==
    /\ Begin(p, [Idle EXCEPT !.op = "close", !.step = "close", !.event = e,
                             !.cards = {a \in Listed(e) : Open(a)}])
    /\ UNCHANGED <<rows, list, locks, bounds, history>>

ChatCancel(p, g) ==
    /\ list[g] # NoEvent
    /\ Begin(p, [Idle EXCEPT !.op = "cancel", !.step = "close", !.event = list[g], !.group = g,
                             !.cards = {a \in Listed(list[g]) : Open(a)}])
    /\ UNCHANGED <<rows, list, locks, bounds, history>>

CloseNext(p) ==
    /\ At(p, "close")
    /\ \E a \in call[p].cards :
         /\ CloseIfOpen(a)
         /\ To(p, [call[p] EXCEPT !.cards = @ \ {a}])
    /\ UNCHANGED <<list, locks, bounds, history>>

EndOfClose(c) == IF c.op = "cancel" THEN [c EXCEPT !.step = "drop"] ELSE Idle

\* Mutant: whoever closes announces, without the condition on the status.
CloseEventMutant(p) ==
    LET c == call[p] IN
    /\ At(p, "close") /\ c.cards = {}
    /\ event' = [event EXCEPT ![c.event] = "CLOSED"]
    /\ To(p, [c EXCEPT !.step = "final", !.groups = {g \in Groups : list[g] = c.event}])
    /\ UNCHANGED <<auction, auctionSeq, item, list, locks, bounds, history>>

\* updateMany where status = OPEN: a call that comes second changes nothing.
CloseEvent(p) ==
    LET c == call[p] IN
    /\ At(p, "close") /\ c.cards = {}
    /\ IF event[c.event] = "OPEN"
       THEN /\ event' = [event EXCEPT ![c.event] = "CLOSED"]
            /\ To(p, [c EXCEPT !.step = "final", !.groups = {g \in Groups : list[g] = c.event}])
       ELSE event' = event /\ To(p, EndOfClose(c))
    /\ UNCHANGED <<auction, auctionSeq, item, list, locks, bounds, history>>

\* The summary is read, the group's list is deleted whatever it is by now, and the
\* summary is sent.
CloseFinal(p) ==
    LET c == call[p] IN
    /\ At(p, "final")
    /\ \/ \E g \in c.groups :
            /\ list' = [list EXCEPT ![g] = NoEvent]
            /\ finals' = [finals EXCEPT ![g][c.event] = @ + 1]
            /\ To(p, [c EXCEPT !.groups = @ \ {g}])
       \/ c.groups = {} /\ To(p, EndOfClose(c)) /\ UNCHANGED <<list, finals>>
    /\ UNCHANGED <<rows, locks, bounds, delivered, unlocked>>

DropList(p) ==
    /\ At(p, "drop")
    /\ list' = [list EXCEPT ![call[p].group] = NoEvent]
    /\ Return(p)
    /\ UNCHANGED <<rows, locks, bounds, history>>

\* closeListItemFromPanel, the store's sweep, or an edit of the auction.
CloseItem(a) == CloseRow(a) /\ UNCHANGED <<list, locks, call, bounds, history>>

\* PATCH of the event: the status is written and nothing else happens.
EditEventStatus(e) ==
    /\ statusEdits < MaxStatusEdits
    /\ statusEdits' = statusEdits + 1
    /\ \E s \in {"OPEN", "CLOSED"} : event' = [event EXCEPT ![e] = s]
    /\ UNCHANGED <<auction, auctionSeq, item, list, locks, call, crashes, failures, history>>

-----------------------------------------------------------------------------
(***************************************************************************)
(* placeBidEntry and tickListStatus hold on to the list across awaits and  *)
(* put it back in the map.                                                 *)
(***************************************************************************)
BidRead(p, g, a) ==
    /\ list[g] # NoEvent
    /\ a \in Listed(list[g]) /\ Open(a)
    /\ Begin(p, [Idle EXCEPT !.op = "bid", !.step = "bid", !.event = list[g], !.group = g,
                             !.auction = a])
    /\ UNCHANGED <<rows, list, locks, bounds, history>>

BidCommit(p) ==
    /\ At(p, "bid")
    /\ IF Open(call[p].auction) THEN Goto(p, "placed") ELSE Return(p)
    /\ UNCHANGED <<rows, list, locks, bounds, history>>

PutBack(p) == list' = [list EXCEPT ![call[p].group] = call[p].event]

BidReturn(p) ==
    /\ At(p, "placed")
    /\ PutBack(p) /\ Return(p)
    /\ UNCHANGED <<rows, locks, bounds, history>>

TickVisit(p, g) ==
    /\ list[g] # NoEvent
    /\ Begin(p, [Idle EXCEPT !.op = "tick", !.step = "refresh", !.event = list[g], !.group = g])
    /\ UNCHANGED <<rows, list, locks, bounds, history>>

\* The auctions found overdue are some of the open ones with a duration.
TickRefresh(p) ==
    LET c == call[p] IN
    /\ At(p, "refresh")
    /\ PutBack(p)
    /\ \E due \in SUBSET {a \in Listed(c.event) : Open(a) /\ auction[a].item \in Timed} :
         To(p, [c EXCEPT !.step = "rows", !.cards = due])
    /\ UNCHANGED <<rows, locks, bounds, history>>

TickRow(p) ==
    /\ At(p, "rows")
    /\ PutBack(p)
    /\ \/ \E a \in call[p].cards :
            CloseIfOpen(a) /\ To(p, [call[p] EXCEPT !.cards = @ \ {a}])
       \/ call[p].cards = {} /\ Return(p) /\ UNCHANGED rows
    /\ UNCHANGED <<locks, bounds, history>>

-----------------------------------------------------------------------------
(***************************************************************************)
(* A statement throws: the `finally` of withLock lets the next call in,    *)
(* the rest of the call is lost.  Past MaxAuctions every insert throws.    *)
(***************************************************************************)
Throw(p) ==
    /\ call[p] # Idle /\ ~Waiting(p)
    /\ call[p].step \in {"find", "create", "mark", "cards", "fresh", "sent", "confirm",
                         "sync", "close"}
    /\ \/ failures < MaxFailures /\ failures' = failures + 1
       \/ At(p, "create") /\ auctionSeq = MaxAuctions /\ failures' = failures
    /\ itemLock' = [i \in Items |->
                      IF Holds(itemLock, i, p) THEN Tail(itemLock[i]) ELSE itemLock[i]]
    /\ cardLock' = [a \in AuctionIds |->
                      IF Holds(cardLock, a, p) THEN Tail(cardLock[a]) ELSE cardLock[a]]
    /\ Return(p)
    /\ UNCHANGED <<rows, list, crashes, statusEdits, history>>

\* loadActiveLists: per group the event of one of its open auctions.
Running(g) == {EventOf[auction[a].item] : a \in {b \in AuctionIds : Open(b) /\ auction[b].group = g}}

Restart ==
    /\ crashes < MaxCrashes
    /\ crashes' = crashes + 1
    /\ list' \in [Groups -> Events \cup {NoEvent}]
    /\ \A g \in Groups : IF Running(g) = {} THEN list'[g] = NoEvent ELSE list'[g] \in Running(g)
    /\ itemLock' = [i \in Items |-> <<>>]
    /\ cardLock' = [a \in AuctionIds |-> <<>>]
    /\ call' = [p \in Procs |-> Idle]
    /\ UNCHANGED <<rows, failures, statusEdits, history>>

-----------------------------------------------------------------------------
Init ==
    /\ auction = [a \in AuctionIds |-> Absent]
    /\ auctionSeq = 0
    /\ item \in [Items -> {"ABSENT", "AVAILABLE"}]
    /\ event = [e \in Events |-> "OPEN"]
    /\ list = [g \in Groups |-> NoEvent]
    /\ itemLock = [i \in Items |-> <<>>]
    /\ cardLock = [a \in AuctionIds |-> <<>>]
    /\ call = [p \in Procs |-> Idle]
    /\ crashes = 0 /\ failures = 0 /\ statusEdits = 0
    /\ delivered = [a \in AuctionIds |-> 0]
    /\ finals = [g \in Groups |-> [e \in Events |-> 0]]
    /\ unlocked = {}

\* A call goes on after an await.
Step(p) ==
    \/ CreateAuction(p) \/ MarkItem(p)
    \/ AddItem(p) \/ PublishRead(p) \/ PublishJoin(p) \/ PublishFind(p) \/ PublishConfirm(p)
    \/ OpenCheck(p) \/ OpenSet(p) \/ SyncRead(p) \/ NextItem(p) \/ SyncFind(p)
    \/ CardsRead(p) \/ NextCard(p) \/ CardFresh(p) \/ CardEmit(p) \/ CardMark(p)
    \/ CloseNext(p) \/ CloseEvent(p) \/ CloseFinal(p) \/ DropList(p)
    \/ BidCommit(p) \/ BidReturn(p) \/ TickRefresh(p) \/ TickRow(p)
    \/ Throw(p)

\* A request, a message or a timer begins one.
Request(p) ==
    \/ \E i \in Items : AddItemCheck(p, i) \/ \E g \in Groups : StartSingle(p, i, g)
    \/ \E e \in Events : \/ CloseFromPanel(p, e)
                         \/ \E g \in Groups : OpenFind(p, e, g) \/ ChatStart(p, e, g)
    \/ \E g \in Groups : \/ ChatCancel(p, g) \/ TickVisit(p, g)
                         \/ \E a \in AuctionIds : BidRead(p, g, a)

Next ==
    \/ \E p \in Procs : Step(p) \/ Request(p)
    \/ \E a \in AuctionIds : CloseItem(a)
    \/ \E e \in Events : EditEventStatus(e)
    \/ Restart

Spec == Init /\ [][Next]_vars

\* Every await comes back.
Fairness == \A p \in Procs : WF_vars(Step(p))

FairSpec == Spec /\ Fairness

-----------------------------------------------------------------------------
(***************************************************************************)
(* Properties.                                                             *)
(***************************************************************************)

\* Rows, queues and calls have their types; a queue holds each call once, and only
\* calls that are at work on its key.
ListTypeOK ==
    /\ auction \in [AuctionIds -> AuctionRow]
    /\ auctionSeq \in 0 .. MaxAuctions
    /\ item \in [Items -> ItemStatus]
    /\ event \in [Events -> {"OPEN", "CLOSED"}]
    /\ list \in [Groups -> Events \cup {NoEvent}]
    /\ call \in [Procs -> Call]
    /\ crashes \in 0 .. MaxCrashes /\ failures \in 0 .. MaxFailures
    /\ statusEdits \in 0 .. MaxStatusEdits
    /\ delivered \in [AuctionIds -> Nat]
    /\ finals \in [Groups -> [Events -> Nat]]
    /\ unlocked \subseteq Items
    /\ \A i \in Items : /\ itemLock[i] \in Seq(Procs)
                        /\ \A n \in DOMAIN itemLock[i] : call[itemLock[i][n]].item = i
    /\ \A a \in AuctionIds : /\ cardLock[a] \in Seq(Procs)
                             /\ \A n \in DOMAIN cardLock[a] : call[cardLock[a][n]].auction = a
    /\ \A a \in AuctionIds : auction[a].status = "ABSENT" <=> a > auctionSeq

\* An item of a list gets at most one auction, however publications, openings and
\* restarts overlap, as long as only the paths that take its lock create it.
OneAuctionPerItem ==
    \A i \in Items \ unlocked : \A a, b \in AuctionsOf(i) : a = b

\* The card of an auction reaches the group once, except when the server dies or a
\* statement throws between the send and the write of cardSentAt.
CardOnce == \A a \in AuctionIds : delivered[a] <= 1 + crashes + failures

\* The end of a list is announced once per group, whoever closes it at the same
\* time; only an event opened again from the panel ends again.
FinalOnce == \A g \in Groups, e \in Events : finals[g][e] <= 1 + statusEdits

\* A call that waits in a queue gets its turn, and every call ends: no call leaves
\* a lock behind, and item and card locks are never waited for in a circle.
CallsEnd == \A p \in Procs : call[p] # Idle ~> call[p] = Idle

\* "CLOSED // Encerrado — itens não podem mais ser adicionados/leiloados": no
\* auction is created for an event that is closed.
NoAuctionAfterClose ==
    [][\A a \in AuctionIds : auction[a].status = "ABSENT" /\ auction'[a].status = "OPEN"
          => event[EventOf[auction'[a].item]] = "OPEN"]_vars

\* "Item já encerrado sem ter sido publicado: não anuncia atrasado": a card goes
\* out only while its auction is open.
NoLateCard ==
    [][\A a \in AuctionIds : delivered'[a] > delivered[a] => Open(a)]_vars

=============================================================================
