# Verification of BotLeilao

BotLeilao runs auctions inside WhatsApp groups: a NestJS server keeps auctions,
bids and items in Postgres, a WhatsApp Web client per tenant carries the bids,
and a web panel starts, edits and closes what the groups see. This directory
holds TLA+ models of that server, the TLC configurations that check them on
small instances, and TLAPS proofs of what matters most for every instance.
Paths below are relative to `src/backend/src/modules/`; `engine` stands for
`whatsapp/auction.engine.ts`, `store` for `auctions/auctions.service.ts`, `manager`
for `whatsapp/whatsapp-client.manager.ts`.

## 1. Inventory

| Component | State it keeps | Operations |
|---|---|---|
| Auction store (`AuctionsService`) | Postgres rows Auction, Bid, Item.status | startAuction, placeBid, closeAuction, cancelAuction, updateAuction, updateBid, removeBid, clearHistory, processExpiredAuctions, schedule of an item's end |
| Single-auction engine (`AuctionEngine`) | maps `active` (group to running auction) and `setups` (conversation of `!iniciar`) | chat bid, `!iniciar`, `!encerrar`, launch from the panel, `tick()` every second, sweep every 30 s, `loadActiveAuctions` at start |
| List mode (`AuctionEngine`) | map `listGroups`, promise chains `locks`, columns cardSentAt, scheduledStart/End | startList, startListInGroup, openListFromPanel, publishItemToList, syncNewItems, sendItemCards, closeListItem, closeEventGroups, tickListStatus, tickScheduledEvents, loadActiveLists |
| Panel items and events | rows Item, AuctionEvent, ItemAlias | create, update, remove, start on WhatsApp, open and close a list |
| Bid conversation | stores of processed messages, pending bids, pending confirmations, active bids, reply bindings (memory and database) | incoming message, routing, "qual item?" and its answer, confirmation, correction, expiry (2 min), answer to a card |
| Bid interpretation | none | parser, confidence engine, spoken numbers, item matching |
| WhatsApp sessions (`WhatsAppClientManager`) | maps of clients, codes, attempts and recoveries; persisted session status; profile directory | connect, disconnect, poll, watchdog, send, recovery, library events |
| Speech to text | none | one call with limits and a timeout |
| Authentication | rows User and RefreshToken; cookies | login, refresh, logout, reset, second factor, recovery codes |
| Payments and subscriptions | rows Payment, Subscription; the gateway's charges | create, webhook, sync, confirm, the administrator's changes |
| Groups and plan limits | rows Group, link codes | register, link by chat, remove, limits |
| Dashboard, reports, plans, audit, mail | none of their own | queries and output |
| Web panel | session and page of each tab, the refresh under way, the page that waits for a payment | REST calls, renewal on 401, polling, reload |

**How they interact.** A chat message reaches the session manager, which marks
it as processed and hands it to the engine. The engine reads its maps without a
lock, awaits the store, writes the maps back and awaits WhatsApp. The panel
calls the store through REST; some of its calls (start an item, open a list)
then reach the engine through an event. Two timers run in the same process: the
engine's 1 s ticker, driven by the maps, and its 30 s sweep, driven by the rows.
Both end in the store's `closeAuction`. A restart empties every map and rebuilds
`active` and `listGroups` from the rows.

**What is hard.** Node runs one handler at a time, but every `await` lets
another in: a value read from a map or a row before it is stale after it. Timers
do not wait for their previous run. Only `placeBid`, `closeAuction` and
`cancelAuction` lock the row; the panel's edits are chains of separate
statements. A restart may fall between any two statements. WhatsApp delivers
messages twice or late, and clients that were replaced still emit events.

**What makes each component correct.**

* Store: one leader, the highest bid; the winner is that bid; a closed auction
  never changes; a bid restarts the clock and never shortens it; an expired
  auction is closed; one open auction per group outside lists.
* Single-auction engine: one closing announcement, naming the recorded winner;
  the ticker's deadline is not later than the row's; a finished auction leaves
  the memory and a running one stays in it.
* List mode: one open auction per item of a list, one card per auction, the list
  is announced as closed once and leaves the memory.
* Conversation: a message makes at most one bid, of what its author said, cited,
  was asked about or confirmed; a participant is asked one thing at a time.
* Interpretation: the order of the list decides nothing; a spoken bid is
  understood as the same bid typed, where its numbers do not run together.
* Sessions: no browser runs outside the map; the persisted status is backed by a
  client; one recovery per cooldown; no stale lock on the profile.
* Authentication: a refresh token is presented twice only for a cause; nobody with
  a good session is sent to the login page; a reset ends the old sessions; the
  second factor in force is the one that was confirmed.
* Payments: a row says only what the gateway reached; a payment activates once; an
  approved one is recorded in the end; the groups the plan's check made room for stay
  within the plan.
* Catalog: the number on a card is the number a bid on it needs; an item whose
  creation was refused does not stay.

The hazards behind these sentences are listed with their lines in
`PROJECT.json`, each with the properties that cover it.

## 2. Modules

| Module | Models | State |
|---|---|---|
| `AscendingAuction` | what a bidder is promised: the best bid only rises, closing freezes it | `phase`, `best` |
| `AuctionStore` | the store's rows and every statement that writes them | `auction`, `bid`, `item`; `call` and `sweep` for work in progress; `now`, `crashes` |
| `AuctionEngine` | extends the store with the maps, handlers and tickers of the single-auction mode | `active`, `mem`, `setup`, `handler`, `ticker` |
| `ListMode` | the list mode of the engine: an event of several items in one group | `auction`, `item`, `event`; `list`; the queues `itemLock`, `cardLock`; `call` |
| `Conversation` | list mode's chat in one group: routing, redelivery, questions, confirmations, contexts, reply bindings | `question`, `confirmation`, `context`, `bound`, `saved`, `seen`, `task` |
| `BidParser`, `ConfidenceEngine`, `SpokenNumbers`, `SpeechToText` | what a text or a recording stands for and what the bot does with it: operators, no state | |
| `Catalog` | items of a list and their event: numbers, order, variations, opening | `event`, `item`, `listed`, `opening`, `task` |
| `WhatsAppSessions` | the client of a tenant, its browser, the status in the database | `status`, `client`, `qr`, `attempt`, `cooling`, `writes`, `browser`, `profileLock`, `call` |
| `AuthSessions` | the sessions of one user over browsers and tabs | `user`, `token`, `access`, `cookie`, `page`, `req`, `renewal` |
| `Billing` | payments, subscription, the waiting page and the limit of groups of a tenant | `payment`, `gateway`, `subscription`, `page`, `call`, `groups` |
| `MC...` | small instances for TLC | |
| `AuctionStoreProofs`, `AuctionEngineProofs`, `ListModeProofs`, `ConversationProofs`, `WhatsAppSessionsProofs`, `BillingProofs`, `AuthSessionsProofs`, `CatalogProofs` | theorems | |

### AuctionStore

*Locked transactions.* `placeBid`, `closeAuction` and `cancelAuction` take the
auction's row with `SELECT ... FOR UPDATE` and hold it to the commit, so
`PlaceBid`, `CloseAuction` and `CancelAuction` are single actions. A panel
statement that touches the same auction row meanwhile waits for the lock; one
that touches a bid row either precedes or follows the statement that reads the
bids, and the schedules that differ from a serial one are the ones `unsynced`
(below) gives up on.

*Everything else is split.* A panel call reads and checks in one statement and
writes in later ones. `call[p]` is the call of process `p` between two of them:
`Begin` reads and checks, the `...Write` actions and the steps of `removeBid`
write. A write to a row that is gone throws and ends the call. `startAuction`
reads the clock, checks that the group is free, inserts, and its caller then
marks the item: `StartCheck`, `StartCreate`, `MarkItemOnAuction`. The check of the
item's own status, one statement earlier in the caller, is merged with the
group's check. `StartCheck` takes the event of the item: for an item of a list the
group's check is skipped, as in the code, and so are the inserts of the list mode
(`StartListed`).

*Foreign keys.* `Bid.auctionId` cascades and `Auction.winnerBidId` is set to null
when its bid is deleted; `DeleteBid` and `ClearHistory` do what the database does.

*The sweep.* `ReadExpired` reads the auctions past their deadline, `SweepClose`
closes them one by one without looking at the deadline again; a row that is gone
throws and drops the rest.

*History variable.* `unsynced` holds the auctions whose bids were changed by an
edit of an amount, by the removal of a bid of an auction that is over, or by a
bid, a closing or a second removal that met a removal half done (also one cut
by a restart). Nothing is promised about them: the code has no lock that would
allow it (see the findings). It is never read by an action's guard.

### AuctionEngine

A memory object is identified by its auction: `active[g]` is the auction of group
`g`'s entry, `mem[a]` the object's `endsAt` and `closed`. A handler that holds a
reference across an `await` is a record `handler[p]`; a run of `tick()` that awaits is
a record `ticker[t]`. So `ChatBid` (read the entry), `ChatBidCommit` (the
transaction), `ChatBidReturn` (write the object, put it back in the map) are
three actions and anything may run between them. `TickVisit`, `TickClose`,
`TickAnnounce`, `TickDelete` are the stations of a visit of a due entry.
`Restart` is the store's crash together with `loadActiveAuctions`.

`announced` (closing announcements sent and the winner named) and `edited`
(auctions whose duration the panel changed) are history variables.

Left out: the countdown warnings and reply texts, which change no state a
property is about; the sweep's own lookup in `active`, which uses the internal
group id while the map's keys are WhatsApp ids, so it never matches; the `input`
argument that decides in `command-handler.ts` whether a `!` command is
dispatched at all (the commands are modelled as the engine's public operations).

### ListMode

A module of its own: it keeps of an auction what the list mode reads (its item,
its group, whether it is open, whether its card is marked as sent) and leaves
amounts and deadlines to `AuctionStore`. So the panel or the sweep may close any
open auction at any moment (`CloseItem`), and a tick may find any open auction
with a duration overdue: a superset of what the clock allows.

*Calls.* `call[p]` is the call of process `p` between two awaits, with its operation
and its next step. `Request` begins one (a REST call, a chat message, a timer),
`Step` continues it. Reads that follow each other with no write in between are
one step, and the order in which a loop takes items or cards is arbitrary.
`CreateAuction` and `MarkItem` are the two statements every path that creates an
auction shares; `CardsRead` ... `CardMark` are `sendItemCards`, shared likewise.

*Locks.* `withLock(key)` chains promises: a call runs when the one before it has
finished, whatever its result. `itemLock[i]` and `cardLock[a]` are these chains as
queues whose head runs. `publishItemToList` and `syncNewItems` take the item's
lock; `startListInGroup` and `startAuctionOnWhatsApp` create auctions without it.
The history variable `unlocked` records the items that got one that way.

*Memory.* `list[g]` is the event of the group's entry in `listGroups`.
`closeEventGroups` deletes it, a bid or a tick that held it across an await puts
it back (`PutBack`), and `Restart` rebuilds it from the open auctions. A list put
back after its end stays until a restart or another opening.

*Failures.* `Throw` ends a call at any database statement, with the `finally` of
`withLock`; a failed send of a card is a branch of `CardEmit`; `Restart` may fall
between any two steps. `delivered` and `finals` are history variables: what the
group received.

The scheduled opening and closing call the panel's operations and add nothing to
them. Left out: `clearHistory` and the removal of an event while a list runs (the
latter is in `Catalog`), the periodic status, and `startList` and `close`, which
nothing calls.

### Conversation and what it is built from

A task is one run of `handleIncomingMessage`, from one await to the next, so a
message overtakes another where the code lets it: `Receive` marks and routes, `React`
reads the pending question or confirmation, `Resolve` interprets, and the bid itself
is two steps, the transaction and what the chat remembers after it. Auctions are
reduced to whether they are open and to their leading bid.

`BidParser` works on token sequences: the normaliser's splitting of letters is done by
the instance, which also says which tokens are numerals, which are amounts and how
many letters apart two words are. Everything the parser decides on top of that is
translated: formats, fillers, label and number, name, variation, partial and
fuzzy matches, ambiguity, coverage. `ConfidenceEngine` is the decision table with the
code's thresholds, `SpokenNumbers` the conversion of number words, `SpeechToText` the
checks before and after the provider.

### Catalog

A request of the panel runs from one query to the next. Creating an item is nine steps:
event open, limit, siblings read, each legacy number filled, insert, variations,
undo of a failure, publication. An item's place in the order of creation is its
identity; the orders and numbers that can be typed are small sets.

### WhatsAppSessions

`browser[c]` is what became of each client ever created, since the ones that were
replaced still emit events; `client`, `qr`, `attempt` and `cooling` are the manager's
maps for one tenant (tenants share nothing). A status written without `await` is an
element of `writes` and lands at any later moment. Calls are records between two
awaits.

*A `destroy()` that fails.* The manager swallows the rejection of `destroy()` and forgets the
client all the same (`manager` 241, 273, 454), also of a client that is still loading.
So `Destroyed` has two outcomes: the browser closes, and an `initialize()` under way will
reject (`doomed`); or nothing happens to it and the client is in `survived`. A survivor
keeps the profile's lock, so the client that replaces it is doomed, and goes on raising its
events; the first one that reaches the session sets `haunted`. The other errors that are
swallowed are branches too: `clearStoredSession` may leave the credentials or the lock
where they are (`Forget`, 303-307). Only the lock that `cleanupStaleChromiumLocks` cannot
remove (211) is left out: after a failure there `LockedByLive` says nothing of the code.

*What is excused.* `raced` counts the steps since two things first replaced the client or
wrote its status at once: nothing serialises `connect`, `disconnect`, the watchdog and the
recovery. `Undisturbed` says that no race has begun and that no survivor has acted.
`NoOrphanBrowser`, `QrOfCurrent` and `StatusIsBacked` speak of what happens up to there;
two connects at once, a `disconnected` handler that meets a connect, a `ready` that meets the
watchdog are past it. `OneRecoveryPerCooldown` and `LockedByLive` speak of everything.

### AuthSessions

One user, several browsers, several tabs in each; cookies belong to the browser, the
promise of the renewal under way to the tab. A request runs its handler one await at
a time; a 401 waits for the tab's renewal and is sent once more. Refresh tokens are
numbered in order of creation and carry, as history, the password they descend from.
`upset`, `expelled`, `replayed`, `crossed` are history: what happened that may end a
session, and whether the thing the property excludes happened without it. A page that
is sent to the login drops the answers on their way to it; those of a renewal or of a
logout count as lost, since the browser then keeps a cookie the server has revoked.
(The logout was first left out: the search for an inductive invariant showed it, and
the last mix of `auth` now reaches it.) Two calls share a token (`Shared`) when both
present the same one to the server, each until it has its answer; a call without a token
shares nothing.

### Billing

`gateway[k]` is what became of charge `k` at Mercado Pago, which moves between any two
steps of a call; `due` what it has still to notify. `call[c]` runs `createPixPayment`,
`confirmPayment` (by webhook, sync or hand); `page` is the gate and the page that waits.
Groups are registered by panel requests, which check and then write, and by the
chat with a link code. The check of the plan says nothing to a SUPER_ADMIN or to a tenant
without a plan (`plan-limits.service.ts` 109-112): whoever asks, `AssertCanCreateGroup`
takes either role. `extra` holds the groups the check made no room for: those of
the two, of a link code, of a request that passed the check while another had yet
to insert, and those of before a smaller plan. `overlapped` holds the payments that two
confirmations worked on at once.

## 3. What the runs show

Actions that stop are bounded counters (auctions, bids, time, restarts): the
system really does run on, the model ends there, hence `CHECK_DEADLOCK FALSE`.

| Run | Question | Bounds |
|---|---|---|
| `store_rows` | Do the leader flag and the winner stay right while two panel calls interleave with bids, closings and the sweep? `TypeOK`, `LeaderIsHighest`, `WinnerIsHighest`, `BidNeverShortens` | 1 auction, 3 bids of 3 values, 2 calls, clock 0..1 |
| `store_promise` | Do the rows implement `AscendingAuction`, and is an expired auction always resolved, with a restart at any point? `RefinesAscendingAuction`, `ExpiredIsResolved` | 1 auction, 2 bids, 1 call, steps {0,2}, clock 0..2, 1 restart |
| `engine` | Overlapping ticks, late answers, chat and panel closings, a restart: `EngineTypeOK`, `AnnouncedOnce`, `DeadlineNotLate` | 1 auction, 2 bids, 2 handlers, 2 runs of `tick()`, 1 restart |
| `engine_edits` | The same with every panel edit, under fairness: `AnnouncedWinnerIsWinner`, `FinishedIsEvicted` | 1 auction, 2 bids, 1 handler, 1 ticker |
| `list` | Openings, publications, closings, bids and ticks of one list, a restart, an edit of the event's status: `ListTypeOK`, `OneAuctionPerItem`, `CardOnce`, `FinalOnce` | 1 group, event and item, 2 auctions, 2 calls, 1 restart |
| `list_ends` | Does every call end, and leave its locks, when a statement may throw? `CallsEnd` | the same with 1 auction, 1 failure, no restart |
| `auth` | Renewal, logout, reset, second factor and deactivation over two browsers: `AuthTypeOK`, `ReplayIsExplained`, `ExpelledForCause`, `OldSessionsEnd`, `SecondFactorAgrees` | 3 tabs, 4 requests, 5 tokens, 2 recovery codes; seven mixes of events |
| `billing` | Confirmations in any order, refusals, refunds, a crash, a failing gateway; and the groups: `BillingTypeOK`, `SettledAgrees`, `OneActivationPerPayment`, `GroupsWithinPlan`, `ApprovedIsPaid` | 2 payments, 2 calls, 3 groups, plans of 1 and 2; five tenants |
| `catalog` | Numbering, filling, variations, failures, opening of a list: `CardNamesItem`, `NoHalfItem` | 2 requests, lists of up to 4 items, three scripts |
| `conversation` | Every text, and talks of two people: `ConversationTypeOK`, `OneQuestionAtATime`, `NothingTwice`, `BidIsWhatWasSaid`, `OrderBlind`, `SpokenAgrees` | 4 items, texts of up to 4 words over 10, 3 messages, 2 at a time; 21 numbers spoken alone and after 8 others; eleven scripts |
| `conversation_command` | finding: a command is handled as chat | the same |
| `session` | Panel, watchdog, failing sends, late events, a `destroy()` that fails, writes nobody awaits, a restart: `SessionTypeOK`, `OneRecoveryPerCooldown`, `NoOrphanBrowser`, `QrOfCurrent`, `StatusIsBacked`, `LockedByLive` | 1 request, 1 watchdog, 2 senders, 3 clients, 1 write in flight, 1 failed `destroy()`, 1 step after a race, 1 restart |

*Why the bounds are enough.* All the store's operations but two (`clearHistory`, the
check of `startAuction`) touch the rows of one auction only, so one auction shows
what can go wrong in it; the proofs cover any number. Three bids are the least
with which the next leader found by `removeBid` differs from both the removed and
an incoming one; two calls are the least that overlap. Clock values only meet
deadlines: 0, 1 and 2 give before, at and after with a duration of 1. In the list
mode the locks are per item and per card, and every race is between two calls
about the same item or the same event: one item and two calls show it, and
two auctions are what `OneAuctionPerItem` needs to fail. Several items only make a
call longer; a second event in the group is what the check of `openListFromPanel`
(`OpenCheck`) keeps out, and no run has one.

The conversation needs two people and two messages at a time: every store is keyed by
participant or by item, and the overlaps are between one await of each. Its catalog
has the shapes that collide: names that share a word, digits inside names, gaps
in the numbers, variations. Four words hold an amount and an item in each of the
formats, with a filler or a second item beside them. The second factor needs four requests: a setup, its
confirmation, a use and a removal; two recovery codes tell "the one used" from
"the others". Two payments show an earlier one taken for a later; `SyncTake` of 1
makes the sync leave one out. Three clients are one, its replacement and the
replacement of that. One write of the status in flight (`MaxWrites`) means that TLC sees no
two of them out of order; a second one would be a race, and up to the first race the
theorems need no bound on it. One step after a race (`MaxRaced`) is enough for what
the properties excuse, since `OneRecoveryPerCooldown` and `LockedByLive`, which hold after
it, are proved for any number. The mixes and scripts keep kinds of events apart that do not meet
in the code (a reset and a recovery code touch other columns of the user).

*Symmetry.* The processes of `store_rows` and `list`, the ticker runs of `engine`, the
senders of `session`, the requests of the first tab of `auth`, the tasks of
`conversation` and the requests of `catalog` are interchangeable and these runs check
safety only. No run with a liveness property uses symmetry.

*Fairness.* `store_promise` assumes weak fairness of the sweep only: it is a
`setInterval` and each closing is a transaction that returns. Bids, panel calls and
restarts are never owed, nor is the clock. `engine_edits` adds that time passes
and that the ticker visits due groups and its awaits come back. `list_ends` assumes
that every await of a call comes back, with a value or an error; nothing obliges a
request to begin. `billing` assumes that calls on the server run on, that the timers
of an open page fire, and that the gateway delivers a notification it owes again
and again (strong fairness of a delivery: a call is not always free to take it); it
assumes of nobody that they pay or ask.

*Mutants.* Each property is broken by one plausible bug, listed in
`PROJECT.json` and written next to the definition it changes.

### Findings

`conversation_command`: `CommandRouter.route` executes a command only when it is given no
input (`whatsapp/command-handler.ts` 30), and `handleIncomingMessage` builds an input for
every typed message (`manager` 663-668). No "!" command ever runs; the header of the
router and the comment at `manager` 580 say the owner's do.

### Known behaviours, each with the configuration that reproduces it

These state what a comment or a document promises and the code does not keep. The
configuration beside each lets TLC print the trace (`tlc -config X.cfg <module>`).

1. `updateBid` writes an amount and leaves the leader flag, although its comment
   says it recalculates the leader (`store` 470, 488): a lowered leader wins over a
   higher bid. `MCStoreEditedWinner.cfg`.
2. `processExpiredAuctions` closes what it read without looking at the deadline
   again (`store` 346): a bid answered with success in between does not restart the
   clock as the header promises. `MCStoreLateSweep.cfg`.
3. `startAuction` checks and inserts in separate statements and the partial unique
   index the header and `src/docs/fluxos.md` mention was dropped by migration
   `20260803120000_add_event_list` (`store` 62). `MCStoreTwoOpen.cfg`.
4. `tick()` deletes the group's entry after an await, whichever auction it holds by
   then (`engine` 2625; `cancel`, 623, does the same): the next auction loses warnings
   and announcement until the sweep closes it in silence. `MCEngineUntracked.cfg`.
5. `publishItemToList`, `syncNewItems` and `startAuctionOnWhatsApp` look at the event's
   status, await, and insert without looking again (`engine` 975, 845): an auction
   opens in an event that was closed meanwhile, which `schema.prisma` excludes.
   `MCListClosed.cfg`.
6. `sendItemCards` reads the auctions once and, under a card's lock, reads only
   `cardSentAt` again (`engine` 2307, 2312): with a pause between cards, an item closed
   meanwhile is still announced, against the comment above it. `MCListLateCard.cfg`.
7. `connect` returns early while a code is kept (`manager` 232), and the watchdog
   recreates through it (96): a client stuck after its code was scanned is never
   replaced. `StuckIsRecreated`, `MCSessionStuck.cfg`.
8. On a renewal the paywall finds the earlier month's paid PIX among the last payments
   (`paywall.tsx` 67), takes it for the one it shows, and stops polling.
   `PaidOpensPanel`, `MCBillingRenewal.cfg`.
9. An opening of the list between the insert of an item and of its variations
   publishes it, and the undo that follows deletes it, against `items.service.ts`
   152-154. `NeverPublishedHalf`, `MCCatalogHalf.cfg`.
10. Removing an event deletes its items whether or not they are in auction, against
    `auction-events.service.ts` 294-297. `RemovedUnused`, `MCCatalogRemoved.cfg`.
11. A number that is an item's own beats another item's name in the same text ("doce
    capao 03" bids 3 on "doce"): the bot asks only where variations conflict.
    `OtherItemIsAsked`, `MCConversationOtherItem.cfg`.
12. Two numbers said in a row are added up: "item dois quarenta e seis" becomes "item 48"
    and "capão três quarenta e seis" becomes "capão 49", although "A função NUNCA adivinha:
    o que não for número permanece intacto" (`spoken-numbers.ts` 18). Only a hundred after a
    unit or a ten begins another number (279-292). `SpokenAgrees` excuses such texts
    (`RunTogether`) and those in which a "um" or a "mil" stays a word (`StaysWord`); the run
    shows it of every other one it says. `NeverGuesses`, `MCConversationSum.cfg`.
13. A number that is nobody's own and stands in several names takes the first of them:
    "03" bids on whichever of "capao 03" and "porco 03" is listed first, against "NUNCA
    escolhe arbitrariamente entre itens semelhantes (regra de ouro)" (`list-bid.parser.ts` 13).
    `OrderBlind` excuses it (`TakesFirstName`). `NeverArbitrary`, `MCConversationArbitrary.cfg`.
14. A recording that was hardly heard and quotes a card, or answers "qual item?", is
    registered without confirmation, although "qualidade < 0,7 rebaixa `register` para
    `confirm`" (`src/docs/fluxos.md` 113): these paths register before the interpreter is asked.
    `MuffledIsConfirmed`, `MCConversationMuffled.cfg`.
15. Two logins that bring one recovery code at once are both let in: each reads the codes
    before the other writes (`auth.service.ts` 522-531), although "Um único código de
    recuperação só pode ser usado uma vez" (466). `SecondFactorAgrees` excuses handlers that
    overlap (`crossed`).
    `RecoveryCodeOnce`, `MCAuthCodeTwice.cfg`.
16. A client whose `destroy()` failed shows its next code for that of the client that
    replaced it (`manager` 241, 497-500), although the replacement is made "para forçar a
    emissão de um QR novo" (237) and after a disconnect "o painel já mostra o QR novo" (281).
    Scanning it pairs a browser that is in no map. `CodeIsNew`, `MCSessionSurvivor.cfg`.

### Other behaviours met while modelling

We found no comment or document that promises otherwise of these. The model has them,
and where a property meets one it says so: the excuse is named.

*Engine and list.* `tickListStatus` puts a closed list back into memory (`engine` 2478).
`startListInGroup` and `startAuctionOnWhatsApp` create auctions without the item's lock
(448; `unlocked`). `AnnouncedWinnerIsWinner` speaks of auctions that were closed: of one the
panel cancels between its deadline and its announcement it says nothing.

*Conversation.* "1" and "2" are words of confirmation and refusal and item numbers. A
context with a single candidate registers at any age (0.90 is the threshold and the
least it can be), so the branch that would ask about an old one is never taken. A number
that answers "qual item?" is looked up in the whole list, not among the options shown.
A question asked while `React` was away is dropped by what it clears on return. A
message is marked before it is processed, so a failure after that loses it. A
bare amount that quotes a card whose binding is gone (over 2000, never saved, or of an
item closed before a restart) goes to the interpreter and may be registered on another
item by context (`unbound`, excused in `BidIsWhatWasSaid`). A "qual item?" whose
message lost its mark may be answered by that very message, delivered again
(`forgotten`, excused there too).

*Catalog.* The number of a removed item is given again while its old card stays in the
group; the auction of a removed item stays open without item; numbers shown by position
shift when an item is removed or moved; filling of old numbers can overwrite one the
panel has just typed (`edited`, excused in `CardNamesItem`); two creations at once may pass
the plan's limit of items. The deletion that undoes a refused creation is tried once and
its failure swallowed (`items.service.ts` 154): the half item stays (`left`, excused in
`NoHalfItem`). The status edit of an event leaves auctions and list as they are.

*WhatsApp sessions.* Two replacements at once leave a browser outside the map, and a
`disconnected` handler deletes the client that a connect put there during its two
seconds (both past `raced`). A client that is doomed by a survivor's lock reports ERROR
while the survivor runs on; a restart ends it.

*Sessions of users.* A reload with a lapsed access cookie shows the login page although
the refresh cookie is good (`auth.tsx` 43-56). After a reset, the first refresh of
another device is a replay and revokes the new sessions too (`auth.service.ts` 173). Two
tabs that renew one cookie at once revoke each other, and two calls that both pass the check of
one token get a new pair each (193; `shared`, one of the explanations of `ReplayIsExplained`).
A refresh that found its token live before the reset revoked it outlives the reset (`spared`,
excused in `OldSessionsEnd`). Any answer to `/auth/refresh` but a success sends the page to the
login (`api.ts` 53-56), the 429 of the ThrottlerGuard included, which comes before the
token is looked at and leaves the session good. The model has an answer that is lost after
the server's work (`lost`, one of the causes of `ExpelledForCause`); a refusal by the
throttler it leaves out.

*Billing.* The chat's link by code does not look at the plan's limit (`engine` 1165); nor
does the check for a SUPER_ADMIN; two requests may both pass it (`extra`). The
sync looks at five pending payments. A PAID row is never asked about again, so a refund
after it leaves the access; two confirmations that both read PENDING extend the
subscription twice (`overlapped`), and one of them may write FAILED over PAID once the charge
was refunded. An ACTIVE subscription is not compared with the end of its period.

## 4. What is proved

`AuctionStoreProofs` proves for every number of auctions, bids, calls and restarts,
and every set of values, from `StoreAssumption` alone:

* `TypeCorrect`: `Spec => []TypeOK`. `TypeOK` carries the foreign keys, and is
  inductive only together with `CallOK` (what the record of a call in each of its
  steps holds on to: an existing id, a real item) and `SeqOK` (rows beyond the
  sequence are absent, so that an insert meets no old bids). The three are `Typed`.
* `DeadlineSafety`: `Spec => [][BidNeverShortens]`. The invariant `Deadlines` says that
  an open row without a fixed deadline ends at most its duration after the present,
  and that every call in flight read the clock in the past; without the second
  half a call could write a deadline counted from the future.
* `LeaderSafety`: `Spec => [](LeaderIsHighest /\ WinnerIsHighest)`. Neither is
  inductive: while `removeBid` is at work there is no leader. `RemovalSafe` says, for
  each auction outside `unsynced`, what the bids look like at each step of the one
  removal that may be in progress (no leader after the reset, the bid it found is
  the highest, the winner it will write is the leader) and that a closed auction has
  none in progress. `WinnerSafety` is its second half.
* `Refinement`: `Spec => RefinesAscendingAuction`. A step changes the abstract state of one
  auction (`Moves`) and keeps that of the others (`Kept`), except a cleared history and a
  restart, which void several (`AbstractForget`). `RemovalSafe` is what makes a closing keep
  the best bid, since the flagged leader it takes as the winner is then a highest one;
  the acceptance rule is what makes `placeBid` raise it. `History` adds that bids carry offered
  amounts and that only ids handed out are void, so a start never opens a void auction.
  The best bid is a CHOOSE: it exists because the bids are finite (`SomeHighest`,
  by well-foundedness of strict inclusion), and ties do not matter (`PriceIs`).

`AuctionEngineProofs`, from `StoreAssumption` and `EngineAssumption`, for any number of
groups, auctions, bids, handlers, overlapping runs of `tick()` and restarts:

* `EngineUsesStore`: `EngineSpec => Spec`. Every step of the engine is one of the store's or
  leaves the rows alone, so the store's theorems hold of the composition. One of them is
  the promise: `EngineRefinement`, `EngineSpec => RefinesAscendingAuction`.
* `EngineTypeCorrect`: `EngineTypeOK`, by `EngineSafe`, which adds the store's invariants and
  what a handler or a tick holds across each await.
* `AnnouncedOnceSafety`: `AnnouncedOnce`. `Told` says of one auction that it waits for its
  entry (`Pending`), or can be visited (`Reach`: in the map, or in the hands of a bid that will put
  it back), or is being closed by one run of `tick()` (`Working`), or was announced. The
  mark `closed`, set before the first await, keeps the last two apart from the second; a
  restart loses it, and then it is the row, which is over, that keeps the auction out of
  the map.
* `DeadlineNotLateSafety`: `DeadlineNotLate`. `OnTime` says it of every deadline held for the
  auction, in its entry or in a call that is to write it: each was the row's when it
  was read, and only an edit from the panel brings the row's forward.
* `AnnouncedWinnerSafety`: `AnnouncedWinnerIsWinner`. `getWinner` reads the latest bid and
  `closeAuction` the leader; they are one because amounts rise with the ids (`Rising`),
  which `placeBid` ensures and removals keep. `NamedRight` carries it to the announcement.

`Greatest` (a nonempty set of numbers up to N has a greatest element) is proved from the
well-foundedness of strict inclusion, as induction over N is not available.

`ListModeProofs`, from `ListAssumption`, for any number of groups, items, auctions, calls,
failures and restarts:

* `ListTypeCorrect`: `ListTypeOK`, by `ListSafe`, the discipline of the promise chains
  (`Guarded`): a queue holds each call once, only calls that want its key, and who works
  on the key is its first. That `withLock` excludes (`SoleItemUser`, `SoleCardUser`)
  follows, and the theorems below rest on it.
* `OneAuctionSafety`: `OneAuctionPerItem`, with `StillFree`: a call that found its item
  without auction under the lock still finds it so at the insert.
* `CardOnceSafety`: `CardOnce`. `CardCount` balances the cards delivered with crashes,
  failures, and the mark in the row or the call that is about to write it.
* `FinalOnceSafety`: `FinalOnce`. `FinalCount` counts the announcements made and the calls
  about to make one, against the closing of the event they come from.

`ConversationProofs`, from `ConversationAssumption`, `MenuAssumption` and
`BidParserAssumption`, for any list, any messages, any participants and any number of
tasks at once. What the interpreter decides is opaque in it, but for two facts: a result
keeps the amount of its reading, and a text that is only an amount names no item.
Everything below holds of any interpreter with these two.

* `ConversationTypeCorrect`: `ConversationTypeOK`. A menu's texts are texts, also those of its
  recordings (`MenuAssumption`: a transcription is one). `Typed` adds, for each step of a task, the
  item, amount and confirmation it must hold by then.
* `OneQuestionSafety`: `OneQuestionAtATime`, which is inductive: `AskItem` and
  `CreateConfirmation` drop the other kind in the step that stores theirs.
* `NothingTwiceSafety`: `NothingTwice`. `OneTask` says that a message is in the hands of one task
  and has one bid, not both unless that task is past its bid, while its mark is kept: the
  mark is set before the first await. `OneAnswer` says that a confirmation is asked of one
  participant, or in the hands of the one task that took it, or has its outcome, and is
  never in two of these places.
* `BidSafety`: `BidIsWhatWasSaid`. The bid is traced back: `Sources` follows each amount that
  waits (a question, a confirmation, a context, a binding in memory or saved, a task
  between two awaits) to the message it was said in. Writing it showed two behaviours the
  property had not reckoned with; both are listed in section 3 and `itself` reaches the
  first.

`WhatsAppSessionsProofs`, from `SessionAssumption`, for any number of requests,
watchdogs, senders, clients, restarts and races:

* `SessionTypeCorrect`: a send that is to be attempted has attempts left (`HasTries`); without
  it the count of attempts leaves its type.
* `RecoverySafety`: `OneRecoveryPerCooldown`. The second recovery is the history variable
  `twice`; inductive with "a recovery began in this cooldown implies the cooldown runs":
  the mark is set before the first await of `recoverClient`, which is what makes it hold.
* `LockSafety`: `LockedByLive`, which is inductive: every step that ends a browser frees its
  lock, a `destroy()` that fails leaves browser and lock, a client that takes it is a new
  one, and a restart removes the lock left over before it creates a client.
* `OrphanSafety`, `QrSafety`, `StatusSafety`: `NoOrphanBrowser`, `QrOfCurrent`,
  `StatusIsBacked`. All three speak of what is `Undisturbed`: until two things first work on the
  session at once or a client whose `destroy()` failed acts on it. A survivor may be there
  all along, and the orphan property names it. While `raced` is 0 at most one call
  replaces the client, one client is leaving or one status is on its way, never two of
  them (`Solo`), and `Orderly` says where that one stands: what the maps hold at each stage of
  the call, of the client's farewell and of the write, and that the row's status is
  backed when nothing is under way. `FewReplacing` says that finitely many calls replace
  the client, since the model counts them.

`BillingProofs`, from `BillingAssumption`, for any number of payments, calls, groups and
plans:

* `BillingTypeCorrect`, with what a call knows in each step (it has a payment when it works on one).
* `SettledSafety`: `SettledAgrees`. The invariant `Settling` adds that an answer a call still
  holds is true when it is written, however late: an approved charge can only be
  refunded and nothing leads out of a refusal (`GatewayMovesOn`).
* `ActivationSafety`: `OneActivationPerPayment`. Of a payment outside `overlapped` at most one
  confirmation is under way, and none once it is activated, because its row is PAID then
  (`OnceOK`); `StoreOK` adds that a charge without a row is stored by one call and
  confirmed by none.
* `PlanSafety`: `GroupsWithinPlan`. Of the requests past the check whose group will count
  (`Backed`) there is one at most, and it still has room (`HasRoom`). What counts
  (`Counted`) leaves out the groups of `extra`; these only take up room when a request
  is checked, since the code counts every group.

`AuthSessionsProofs`, from `AuthAssumption`, for any number of browsers, tabs, requests,
tokens and recovery codes, and any budget of events:

* `AuthTypeCorrect`: `AuthTypeOK`, inductive with `AllIssued`: a refresh token in a cookie,
  a renewal or the answer to a login was issued, which is why a renewal never looks up
  a row that is not there.
* `ResetSafety`: `OldSessionsEnd`. The invariant `Bound` follows a token back to what it is
  issued from: a login that read the password, a refresh that found a live token. One
  that had read before the reset revoked the rows is `spared`, every other is bound to a
  password at least as new as the reset.
* `SecondFactorSafety`: `SecondFactorAgrees`. While `crossed` is false one handler works on
  the factor (`Alone`), so what it is about to write still agrees with the row it read
  (`Fit`); and a secret not yet confirmed goes with the codes shown with it.
* `ReplaySafety`: `ReplayIsExplained`. Until something explains a replay, `Sole` holds. A
  token is in one cookie, one renewal or one logout, all of the same browser
  (`OneHolder`). One just issued has nobody else (`Newborn`). A cookie's token is revoked
  only while the answer that replaces or clears the cookie is on its way, and no renewal
  is about to look up a revoked one (`Alive`). Tokens are issued in order, so the next
  one is new (`InOrder`). The property alone is not inductive: that a renewal never finds
  a revoked token is a fact about every other holder of it.
* `ExpelSafety`: `ExpelledForCause`. While nothing in `upset` happened, `Innocent` adds to
  `Sole` what keeps a page in: a page that shows the panel has a refresh cookie, a
  renewal answered 401 had no token, which only a page of the login lacks, and a request
  sent again carries a good access cookie, so that only a login can be refused twice
  (`Meant`, `GoodTab`). It needs `Sole`, since a cookie whose token is revoked would expel.

`CatalogProofs`, from `CatalogAssumption`, for any number of requests at once, any numbers and
names typed, and any old list:

* `NoHalfSafety`: `NoHalfItem`. `Tidy` says that a create knows no item before its insert and
  one of the rows from then on, and that an item whose creation was answered with a refusal
  is gone. It stays so because no step brings an item back.
* `RemovedForGood`: that fact by itself, `Spec => [][OnlyGo]_vars`.
* `CardNamesSafety`: `CardNamesItem`, from the invariant `NamesInv`. While the panel has not
  renumbered, reordered or removed anything, the list has some `m` items from before the
  numbers (`Names`). Each has no number yet or its place among them (`Rank`), and the first
  ones have theirs first (`OldOK`). Items are only added with a number, when no old one
  waits for its own, and no two numbers are equal (`NewOK`). Until then auctions begin in
  the order of the list (`StartedOK`, `OpeningOK`), so a position shown is the rank
  that the filling will give (`PositionIs`), and a card shows it or the number (`CardsOK`).
  What a filling request has left is the rest of the list in its order, and the numbers it
  knows of are 1 to as many as are filled (`Fills`): two requests that fill at once give
  an item the same number. The property alone is not inductive: it says nothing of the
  number an item without one will get. `SortedIs` and `Lowest` replace inductions over the
  list by counting: different rows have different places, as many as there are rows.

Only model-checked: what the interpreter computes (`OrderBlind`, `SpokenAgrees`: facts about
the folds and recursive functions over a text, an induction over its length, and about
the tables of the instance); and liveness (`ExpiredIsResolved`, `FinishedIsEvicted`,
`CallsEnd`, `ApprovedIsPaid`), out of the prover's reach like `ENABLED`.

## 5. Not modelled, and why

* Payment status of an auction, the listing endpoints, reports, dashboard, audit, mail:
  queries and output that no step reads.
* Photos of items, but for their presence (`Photo`), names, values and descriptions; names of
  participants; reply texts and countdown warnings.
* What the interpreter does letter by letter: normalisation, splitting of glued words and
  edit distance within a word are given by the instance as tables.
* Verification of the e-mail, the creation of tenant and user by `register`, the change of
  password in the panel (it ends no session), limits of users and of auctions.
* The periodic status of lists and the scheduler's memory: they call operations that
  are modelled.
* Pages of the panel that only show the API's answers. Their state is local, and what
  they send is an input of the server's actions.

## 6. Plan

1. Composition: the conversation over the rows of `AuctionStore` instead of their leading bids.
2. The verification of e-mails and the administrator's removal of users, in `AuthSessions`.
