--------------------------- MODULE ListModeProofs ---------------------------
(***************************************************************************)
(* What holds of ListMode for every number of groups, items, auctions,     *)
(* calls, restarts and failed statements.  The theorems are                *)
(*   ListTypeCorrect   the type invariant;                                 *)
(*   OneAuctionSafety  no item has two auctions open;                      *)
(*   CardOnceSafety    the result of a card is sent at most once;          *)
(*   FinalOnceSafety   the final announcement of a list is sent once.      *)
(* They rest on ListSafe (the discipline of the chains of promises, and    *)
(* what a call holds at each step of it), and on OneEachItem, CardCount    *)
(* and FinalCount, which count what is under way with what was done.       *)
(***************************************************************************)
EXTENDS ListMode, FiniteSetTheorems, TLAPS

-----------------------------------------------------------------------------
(***************************************************************************)
(* The chains of promises.  Every key has a queue of calls; `want` is what *)
(* each call is queued for, `use` what it works on as the first.           *)
(***************************************************************************)
Members(q) == {q[n] : n \in DOMAIN q}
OneEach(q) == \A m, n \in DOMAIN q : q[m] = q[n] => m = n

Guarded(lock, Keys, want, use) ==
    /\ lock = [k \in Keys |-> lock[k]]
    /\ \A k \in Keys : /\ lock[k] \in Seq(Procs) /\ OneEach(lock[k])
                       /\ \A q \in Members(lock[k]) : k \in want[q]
    /\ \A q \in Procs : use[q] \subseteq Keys /\ \A k \in use[q] : Holds(lock, k, q)

Others(p, f, g) == \A q \in Procs \ {p} : g[q] = f[q]

\* p leaves the queues it is the first of and waits in no other.
Departs(lock, after, Keys, p) ==
    /\ after = [k \in Keys |-> after[k]]
    /\ \A k \in Keys : after[k] = IF Holds(lock, k, p) THEN Tail(lock[k]) ELSE lock[k]
    /\ \A k \in Keys : \A n \in DOMAIN lock[k] : n > 1 => lock[k][n] # p

\* What a queue holds after a call joined it.
LEMMA Joined ==
  ASSUME NEW q \in Seq(Procs), OneEach(q), NEW p \in Procs, p \notin Members(q)
  PROVE  /\ Append(q, p) \in Seq(Procs) /\ OneEach(Append(q, p))
         /\ Members(Append(q, p)) = Members(q) \cup {p}
         /\ q # <<>> => Append(q, p) # <<>> /\ Head(Append(q, p)) = Head(q)
  <1>1. /\ Len(q) \in Nat /\ DOMAIN q = 1 .. Len(q)
        /\ Append(q, p) \in Seq(Procs) /\ Len(Append(q, p)) = Len(q) + 1
        /\ DOMAIN Append(q, p) = 1 .. Len(q) + 1
        /\ \A n \in 1 .. Len(q) : Append(q, p)[n] = q[n]
        /\ Append(q, p)[Len(q) + 1] = p
    OBVIOUS
  <1>2. OneEach(Append(q, p))  BY <1>1 DEF OneEach, Members
  <1>3. Members(Append(q, p)) = Members(q) \cup {p}
    <2>1. Members(q) \subseteq Members(Append(q, p))  BY <1>1 DEF Members
    <2>2. p \in Members(Append(q, p))  BY <1>1 DEF Members
    <2>3. ASSUME NEW x \in Members(Append(q, p)) PROVE x \in Members(q) \cup {p}
      BY <1>1 DEF Members
    <2> QED BY <2>1, <2>2, <2>3
  <1>4. ASSUME q # <<>> PROVE Append(q, p) # <<>> /\ Head(Append(q, p)) = Head(q)
    BY <1>1, <1>4
  <1> QED BY <1>1, <1>2, <1>3, <1>4

\* What it holds after the first one left.
LEMMA Left ==
  ASSUME NEW q \in Seq(Procs), OneEach(q), q # <<>>
  PROVE  /\ Tail(q) \in Seq(Procs) /\ OneEach(Tail(q))
         /\ Head(q) \in Members(q)
         /\ Members(Tail(q)) = Members(q) \ {Head(q)}
  <1>1. /\ Len(q) \in Nat \ {0} /\ DOMAIN q = 1 .. Len(q) /\ Head(q) = q[1]
        /\ Tail(q) \in Seq(Procs) /\ Len(Tail(q)) = Len(q) - 1
        /\ DOMAIN Tail(q) = 1 .. Len(q) - 1
        /\ \A n \in 1 .. Len(q) - 1 : Tail(q)[n] = q[n + 1]
    OBVIOUS
  <1>2. OneEach(Tail(q))  BY <1>1 DEF OneEach
  <1>3. Head(q) \in Members(q)  BY <1>1 DEF Members
  <1>4. ASSUME NEW x \in Members(Tail(q)) PROVE x \in Members(q) \ {Head(q)}
    <2>1. PICK n \in 1 .. Len(q) - 1 : x = q[n + 1]  BY <1>1 DEF Members
    <2>2. n + 1 \in DOMAIN q /\ n + 1 # 1 /\ 1 \in DOMAIN q  BY <1>1
    <2> QED BY <1>1, <2>1, <2>2 DEF Members, OneEach
  <1>5. ASSUME NEW x \in Members(q) \ {Head(q)} PROVE x \in Members(Tail(q))
    <2>1. PICK n \in 1 .. Len(q) : x = q[n]  BY <1>1 DEF Members
    <2>2. n # 1  BY <1>1, <2>1, <1>5
    <2>3. n - 1 \in 1 .. Len(q) - 1 /\ Tail(q)[n - 1] = q[n]  BY <1>1, <2>2
    <2> QED BY <1>1, <2>1, <2>3 DEF Members
  <1> QED BY <1>1, <1>2, <1>3, <1>4, <1>5

\* The steps that touch no queue: the call is queued for no less, and works on what it holds.
LEMMA LockKept ==
  ASSUME NEW Keys, NEW lock, NEW want, NEW use, NEW want2, NEW use2, NEW p \in Procs,
         Guarded(lock, Keys, want, use),
         Others(p, want, want2), Others(p, use, use2),
         want[p] \subseteq want2[p],
         use2[p] \subseteq Keys, \A k \in use2[p] : Holds(lock, k, p)
  PROVE  Guarded(lock, Keys, want2, use2)
  <1> USE DEF Others
  <1>1. ASSUME NEW k \in Keys, NEW q \in Members(lock[k]) PROVE k \in want2[q]
    <2>1. k \in want[q]  BY DEF Guarded
    <2>2. q \in Procs  BY DEF Guarded, Members
    <2> QED BY <2>1, <2>2
  <1> QED BY <1>1 DEF Guarded

LEMMA LockJoined ==
  ASSUME NEW Keys, NEW lock, NEW want, NEW use, NEW want2, NEW use2, NEW p \in Procs,
         NEW key \in Keys, Guarded(lock, Keys, want, use),
         Others(p, want, want2), Others(p, use, use2),
         want[p] = {}, want2[p] = {key}, use[p] = {}, use2[p] = {}
  PROVE  Guarded(Join(lock, key, p), Keys, want2, use2)
  <1> DEFINE after == Join(lock, key, p)
  <1> USE DEF Others
  <1>1. after = [k \in Keys |-> IF k = key THEN Append(lock[key], p) ELSE lock[k]]
    BY DEF Guarded, Join
  <1>2. p \notin Members(lock[key])  BY DEF Guarded
  <1>3. /\ after[key] \in Seq(Procs) /\ OneEach(after[key])
        /\ Members(after[key]) = Members(lock[key]) \cup {p}
        /\ lock[key] # <<>> => after[key] # <<>> /\ Head(after[key]) = Head(lock[key])
    <2>1. lock[key] \in Seq(Procs) /\ OneEach(lock[key])  BY DEF Guarded
    <2>2. after[key] = Append(lock[key], p)  BY <1>1
    <2> HIDE DEF after
    <2> QED BY <1>2, <2>1, <2>2, Joined
  <1> HIDE DEF after
  <1>4. ASSUME NEW k \in Keys
        PROVE  /\ after[k] \in Seq(Procs) /\ OneEach(after[k])
               /\ \A q \in Members(after[k]) : k \in want2[q]
    <2>1. \A q \in Members(lock[k]) : q \in Procs /\ q # p /\ k \in want[q]
      BY DEF Guarded, Members
    <2>2. CASE k = key  BY <1>3, <2>1, <2>2
    <2>3. CASE k # key  BY <1>1, <2>1, <2>3 DEF Guarded
    <2> QED BY <2>2, <2>3
  <1>5. ASSUME NEW q \in Procs PROVE use2[q] \subseteq Keys /\ \A k \in use2[q] : Holds(after, k, q)
    <2>1. CASE q = p  BY <2>1
    <2>2. CASE q # p
      <3>1. use2[q] = use[q] /\ use[q] \subseteq Keys  BY <2>2 DEF Guarded
      <3>2. ASSUME NEW k \in use[q] PROVE Holds(after, k, q)
        <4>1. Holds(lock, k, q) /\ k \in Keys  BY <3>1 DEF Guarded
        <4> QED BY <1>1, <1>3, <4>1 DEF Holds
      <3> QED BY <3>1, <3>2
    <2> QED BY <2>1, <2>2
  <1>6. after = [k \in Keys |-> after[k]]  BY <1>1
  <1> QED BY <1>4, <1>5, <1>6 DEF Guarded, after

\* One call at a time works under a key.
LEMMA OneUser ==
  ASSUME NEW lock, NEW k, NEW p, NEW q, Holds(lock, k, p), Holds(lock, k, q)
  PROVE  p = q
  BY DEF Holds

\* A call that leaves the queues it is the first of, and waits in no other.
LEMMA LockLeft ==
  ASSUME NEW Keys, NEW lock, NEW after, NEW want, NEW use, NEW want2, NEW use2, NEW p \in Procs,
         Guarded(lock, Keys, want, use),
         Departs(lock, after, Keys, p),
         Others(p, want, want2), Others(p, use, use2),
         use2[p] = {}
  PROVE  Guarded(after, Keys, want2, use2)
  <1> USE DEF Others, Departs
  <1>1. ASSUME NEW k \in Keys
        PROVE  /\ after[k] \in Seq(Procs) /\ OneEach(after[k])
               /\ Members(after[k]) \subseteq Members(lock[k]) \ {p}
    <2>1. lock[k] \in Seq(Procs) /\ OneEach(lock[k])  BY DEF Guarded
    <2>2. CASE Holds(lock, k, p)
      <3>1. after[k] = Tail(lock[k]) /\ lock[k] # <<>> /\ Head(lock[k]) = p  BY <2>2 DEF Holds
      <3> QED BY <2>1, <3>1, Left
    <2>3. CASE ~Holds(lock, k, p)
      <3>1. after[k] = lock[k]  BY <2>3
      <3>2. ASSUME p \in Members(lock[k]) PROVE FALSE
        <4>1. PICK n \in DOMAIN lock[k] : lock[k][n] = p  BY <3>2 DEF Members
        <4>2. n = 1 /\ lock[k] # <<>>  BY <2>1, <4>1
        <4> QED BY <2>1, <2>3, <4>1, <4>2 DEF Holds
      <3> QED BY <2>1, <3>1, <3>2
    <2> QED BY <2>2, <2>3
  <1>2. ASSUME NEW k \in Keys, NEW q \in Members(after[k]) PROVE k \in want2[q]
    <2>1. q \in Members(lock[k]) /\ q # p  BY <1>1
    <2>2. k \in want[q] /\ q \in Procs  BY <2>1 DEF Guarded, Members
    <2> QED BY <2>1, <2>2
  <1>3. ASSUME NEW q \in Procs PROVE use2[q] \subseteq Keys /\ \A k \in use2[q] : Holds(after, k, q)
    <2>1. CASE q = p  BY <2>1
    <2>2. CASE q # p
      <3>1. use2[q] = use[q] /\ use[q] \subseteq Keys  BY <2>2 DEF Guarded
      <3>2. ASSUME NEW k \in use[q] PROVE Holds(after, k, q)
        <4>1. Holds(lock, k, q) /\ k \in Keys  BY <3>1 DEF Guarded
        <4>2. ~Holds(lock, k, p)  BY <4>1, <2>2, OneUser
        <4> QED BY <4>1, <4>2 DEF Holds
      <3> QED BY <3>1, <3>2
    <2> QED BY <2>1, <2>2
  <1> QED BY <1>1, <1>2, <1>3 DEF Guarded

\* The holder of one key leaves it; it is queued for no other.
LEMMA LockReleased ==
  ASSUME NEW Keys, NEW lock, NEW want, NEW use, NEW want2, NEW use2, NEW p \in Procs,
         NEW key \in Keys, Guarded(lock, Keys, want, use), Holds(lock, key, p),
         want[p] \subseteq {key},
         Others(p, want, want2), Others(p, use, use2),
         use2[p] = {}
  PROVE  Guarded(Leave(lock, key), Keys, want2, use2)
  <1>1. ASSUME NEW k \in Keys, k # key PROVE p \notin Members(lock[k])
    BY <1>1 DEF Guarded
  <1>2. ASSUME NEW k \in Keys, k # key PROVE ~Holds(lock, k, p)
    <2>1. lock[k] \in Seq(Procs) /\ OneEach(lock[k])  BY DEF Guarded
    <2> QED BY <1>1, <1>2, <2>1, Left DEF Holds
  <1> DEFINE after == Leave(lock, key)
  <1>3. /\ after = [k \in Keys |-> after[k]]
        /\ \A k \in Keys : after[k] = IF Holds(lock, k, p) THEN Tail(lock[k]) ELSE lock[k]
    BY <1>2 DEF Leave, Guarded
  <1>4. ASSUME NEW k \in Keys, NEW n \in DOMAIN lock[k], n > 1, lock[k][n] = p PROVE FALSE
    <2>1. lock[k] \in Seq(Procs) /\ OneEach(lock[k])  BY DEF Guarded
    <2>2. k = key  BY <1>1, <1>4 DEF Members
    <2>3. lock[k][1] = p /\ 1 \in DOMAIN lock[k]  BY <2>1, <2>2 DEF Holds
    <2> QED BY <2>1, <2>3, <1>4 DEF OneEach
  <1>5. Departs(lock, after, Keys, p)  BY <1>3, <1>4 DEF Departs
  <1> HIDE DEF after
  <1>6. Guarded(after, Keys, want2, use2)  BY <1>5, LockLeft
  <1> QED BY <1>6 DEF after

LEMMA LockEmpty ==
  ASSUME NEW Keys, NEW want, NEW use, \A q \in Procs : use[q] = {}
  PROVE  Guarded([k \in Keys |-> <<>>], Keys, want, use)
  <1>1. <<>> \in Seq(Procs) /\ OneEach(<<>>) /\ Members(<<>>) = {}  BY DEF OneEach, Members
  <1> QED BY <1>1 DEF Guarded

-----------------------------------------------------------------------------
(***************************************************************************)
(* Types, and what a call is at each of its steps: at "find" it waits for  *)
(* its item's lock, then works under it, up to the end of the publication  *)
(* when it publishes; at "fresh" it waits for the card's lock.             *)
(***************************************************************************)
RowsTyped ==
    /\ auction \in [AuctionIds -> AuctionRow]
    /\ auctionSeq \in 0 .. MaxAuctions
    /\ item \in [Items -> ItemStatus]
    /\ event \in [Events -> {"OPEN", "CLOSED"}]
    /\ list \in [Groups -> Events \cup {NoEvent}]
    /\ crashes \in 0 .. MaxCrashes /\ failures \in 0 .. MaxFailures
    /\ statusEdits \in 0 .. MaxStatusEdits
    /\ delivered \in [AuctionIds -> Nat]
    /\ finals \in [Groups -> [Events -> Nat]]
    /\ unlocked \subseteq Items
    /\ \A a \in AuctionIds : auction[a].status = "ABSENT" <=> a > auctionSeq

CardSteps == {"fresh", "emit", "sent"}
ItemWork(c) == \/ c.op \in {"publish", "open"} /\ c.step \in {"find", "create", "mark"}
               \/ c.op = "publish" /\ c.step \in {"cards", "card", "confirm"} \cup CardSteps

InItemQueue(c) == IF ItemWork(c) THEN {c.item} ELSE {}
UsesItem(c)    == IF ItemWork(c) /\ c.step # "find" THEN {c.item} ELSE {}
InCardQueue(c) == IF c.step \in CardSteps THEN {c.auction} ELSE {}
UsesCard(c)    == IF c.step \in {"emit", "sent"} THEN {c.auction} ELSE {}

ItemWants == [q \in Procs |-> InItemQueue(call[q])]
ItemUses  == [q \in Procs |-> UsesItem(call[q])]
CardWants == [q \in Procs |-> InCardQueue(call[q])]
CardUses  == [q \in Procs |-> UsesCard(call[q])]

\* Which operations reach which steps, and with what.
Works(c) ==
    /\ c.op = "publish" => c.item \in Items
    /\ c.step \in {"add", "read", "list", "confirm"} => c.op = "publish"
    /\ c.step \in {"check", "set", "sync"} => c.op = "open"
    /\ c.step = "next" => c.op \in {"open", "start"}
    /\ c.step = "find" => c.op \in {"publish", "open"} /\ c.item \in Items
    /\ c.step \in {"create", "mark"} =>
           c.op \in {"publish", "open", "start", "single"} /\ c.item \in Items
    /\ c.step \in {"cards", "card"} \cup CardSteps => c.op \in {"publish", "open", "start"}
    /\ c.step \in CardSteps => c.auction \in AuctionIds
    /\ c.step \in {"close", "final"} => c.event \in Events

\* What a call goes through are auctions that exist.
Exist(c) == c.cards \subseteq 1 .. auctionSeq /\ c.auction \in 0 .. auctionSeq

ListSafe ==
    /\ RowsTyped /\ call \in [Procs -> Call]
    /\ Guarded(itemLock, Items, ItemWants, ItemUses)
    /\ Guarded(cardLock, AuctionIds, CardWants, CardUses)
    /\ \A q \in Procs : Works(call[q]) /\ Exist(call[q])

\* What changes in the calls when p goes on as d.
LEMMA CallMoves ==
  ASSUME call \in [Procs -> Call], NEW p \in Procs, NEW d \in Call, To(p, d)
  PROVE  /\ call' \in [Procs -> Call] /\ call'[p] = d
         /\ \A q \in Procs \ {p} : call'[q] = call[q]
         /\ Others(p, ItemWants, ItemWants') /\ Others(p, ItemUses, ItemUses')
         /\ Others(p, CardWants, CardWants') /\ Others(p, CardUses, CardUses')
         /\ ItemWants[p] = InItemQueue(call[p]) /\ ItemWants'[p] = InItemQueue(d)
         /\ ItemUses[p] = UsesItem(call[p]) /\ ItemUses'[p] = UsesItem(d)
         /\ CardWants[p] = InCardQueue(call[p]) /\ CardWants'[p] = InCardQueue(d)
         /\ CardUses[p] = UsesCard(call[p]) /\ CardUses'[p] = UsesCard(d)
  <1>1. /\ call' \in [Procs -> Call] /\ call'[p] = d
        /\ \A q \in Procs \ {p} : call'[q] = call[q]
    BY DEF To
  <1>2. /\ ItemWants[p] = InItemQueue(call[p]) /\ ItemWants'[p] = InItemQueue(d)
        /\ ItemUses[p] = UsesItem(call[p]) /\ ItemUses'[p] = UsesItem(d)
        /\ CardWants[p] = InCardQueue(call[p]) /\ CardWants'[p] = InCardQueue(d)
        /\ CardUses[p] = UsesCard(call[p]) /\ CardUses'[p] = UsesCard(d)
    BY <1>1 DEF ItemWants, ItemUses, CardWants, CardUses, InItemQueue, UsesItem, InCardQueue,
                UsesCard, ItemWork
  <1>3. /\ Others(p, ItemWants, ItemWants') /\ Others(p, ItemUses, ItemUses')
        /\ Others(p, CardWants, CardWants') /\ Others(p, CardUses, CardUses')
    BY <1>1 DEF Others, ItemWants, ItemUses, CardWants, CardUses, InItemQueue, UsesItem,
                InCardQueue, UsesCard, ItemWork
  <1> QED BY <1>1, <1>2, <1>3

ItemsGuarded == Guarded(itemLock, Items, ItemWants, ItemUses)
CardsGuarded == Guarded(cardLock, AuctionIds, CardWants, CardUses)

\* The four things that happen to the lock of an item.
LEMMA ItemsKept ==
  ASSUME ItemsGuarded, call \in [Procs -> Call], NEW p \in Procs, NEW d \in Call, To(p, d),
         UNCHANGED itemLock, InItemQueue(call[p]) \subseteq InItemQueue(d),
         \A k \in UsesItem(d) : \/ k \in UsesItem(call[p])
                                \/ k \in Items /\ Holds(itemLock, k, p)
  PROVE  ItemsGuarded'
  <1>1. /\ Others(p, ItemWants, ItemWants') /\ Others(p, ItemUses, ItemUses')
        /\ ItemWants[p] \subseteq ItemWants'[p] /\ ItemUses'[p] = UsesItem(d)
        /\ ItemUses[p] = UsesItem(call[p])
    BY CallMoves
  <1>2. /\ ItemUses[p] \subseteq Items /\ \A k \in ItemUses[p] : Holds(itemLock, k, p)
    BY DEF ItemsGuarded, Guarded
  <1>3. ItemUses'[p] \subseteq Items /\ \A k \in ItemUses'[p] : Holds(itemLock, k, p)
    BY <1>1, <1>2
  <1>4. Guarded(itemLock, Items, ItemWants', ItemUses')
    BY <1>1, <1>3, LockKept DEF ItemsGuarded
  <1> QED BY <1>4 DEF ItemsGuarded, Guarded, Holds

LEMMA ItemsJoined ==
  ASSUME ItemsGuarded, call \in [Procs -> Call], NEW p \in Procs, NEW d \in Call, To(p, d),
         NEW key \in Items, itemLock' = Join(itemLock, key, p),
         InItemQueue(call[p]) = {}, UsesItem(call[p]) = {},
         InItemQueue(d) = {key}, UsesItem(d) = {}
  PROVE  ItemsGuarded'
  <1>1. /\ Others(p, ItemWants, ItemWants') /\ Others(p, ItemUses, ItemUses')
        /\ ItemWants[p] = {} /\ ItemWants'[p] = {key} /\ ItemUses[p] = {} /\ ItemUses'[p] = {}
    BY CallMoves
  <1>2. Guarded(itemLock', Items, ItemWants', ItemUses')
    BY <1>1, LockJoined DEF ItemsGuarded
  <1> QED BY <1>2 DEF ItemsGuarded, Guarded, Holds

LEMMA ItemsLeft ==
  ASSUME ItemsGuarded, call \in [Procs -> Call], NEW p \in Procs, NEW d \in Call, To(p, d),
         NEW key \in Items, itemLock' = Leave(itemLock, key), Holds(itemLock, key, p),
         InItemQueue(call[p]) = {key}, UsesItem(d) = {}
  PROVE  ItemsGuarded'
  <1>1. /\ Others(p, ItemWants, ItemWants') /\ Others(p, ItemUses, ItemUses')
        /\ ItemWants[p] \subseteq {key} /\ ItemUses'[p] = {}
    BY CallMoves
  <1>2. Guarded(itemLock', Items, ItemWants', ItemUses')
    BY <1>1, LockReleased DEF ItemsGuarded
  <1> QED BY <1>2 DEF ItemsGuarded, Guarded, Holds

\* And to the lock of a card.
LEMMA CardsKept ==
  ASSUME CardsGuarded, call \in [Procs -> Call], NEW p \in Procs, NEW d \in Call, To(p, d),
         UNCHANGED cardLock, InCardQueue(call[p]) \subseteq InCardQueue(d),
         \A k \in UsesCard(d) : \/ k \in UsesCard(call[p])
                                \/ k \in AuctionIds /\ Holds(cardLock, k, p)
  PROVE  CardsGuarded'
  <1>1. /\ Others(p, CardWants, CardWants') /\ Others(p, CardUses, CardUses')
        /\ CardWants[p] \subseteq CardWants'[p] /\ CardUses'[p] = UsesCard(d)
        /\ CardUses[p] = UsesCard(call[p])
    BY CallMoves
  <1>2. /\ CardUses[p] \subseteq AuctionIds /\ \A k \in CardUses[p] : Holds(cardLock, k, p)
    BY DEF CardsGuarded, Guarded
  <1>3. CardUses'[p] \subseteq AuctionIds /\ \A k \in CardUses'[p] : Holds(cardLock, k, p)
    BY <1>1, <1>2
  <1>4. Guarded(cardLock, AuctionIds, CardWants', CardUses')
    BY <1>1, <1>3, LockKept DEF CardsGuarded
  <1> QED BY <1>4 DEF CardsGuarded, Guarded, Holds

LEMMA CardsJoined ==
  ASSUME CardsGuarded, call \in [Procs -> Call], NEW p \in Procs, NEW d \in Call, To(p, d),
         NEW key \in AuctionIds, cardLock' = Join(cardLock, key, p),
         InCardQueue(call[p]) = {}, UsesCard(call[p]) = {},
         InCardQueue(d) = {key}, UsesCard(d) = {}
  PROVE  CardsGuarded'
  <1>1. /\ Others(p, CardWants, CardWants') /\ Others(p, CardUses, CardUses')
        /\ CardWants[p] = {} /\ CardWants'[p] = {key} /\ CardUses[p] = {} /\ CardUses'[p] = {}
    BY CallMoves
  <1>2. Guarded(cardLock', AuctionIds, CardWants', CardUses')
    BY <1>1, LockJoined DEF CardsGuarded
  <1> QED BY <1>2 DEF CardsGuarded, Guarded, Holds, AuctionIds

LEMMA CardsLeft ==
  ASSUME CardsGuarded, call \in [Procs -> Call], NEW p \in Procs, NEW d \in Call, To(p, d),
         NEW key \in AuctionIds, cardLock' = Leave(cardLock, key), Holds(cardLock, key, p),
         InCardQueue(call[p]) = {key}, UsesCard(d) = {}
  PROVE  CardsGuarded'
  <1>1. /\ Others(p, CardWants, CardWants') /\ Others(p, CardUses, CardUses')
        /\ CardWants[p] \subseteq {key} /\ CardUses'[p] = {}
    BY CallMoves
  <1>2. Guarded(cardLock', AuctionIds, CardWants', CardUses')
    BY <1>1, LockReleased DEF CardsGuarded
  <1> QED BY <1>2 DEF CardsGuarded, Guarded, Holds, AuctionIds

\* A step of p that keeps the types, the two locks and the shape of calls.
Fits(d) == /\ d \in Call /\ Works(d)
           /\ d.cards \subseteq 1 .. auctionSeq' /\ d.auction \in 0 .. auctionSeq'

LEMMA SafeStep ==
  ASSUME ListSafe, NEW p \in Procs, NEW d, Fits(d), To(p, d), RowsTyped',
         auctionSeq' >= auctionSeq, ItemsGuarded', CardsGuarded'
  PROVE  ListSafe'
  <1>1. d \in Call /\ call \in [Procs -> Call]  BY DEF Fits, ListSafe
  <1>2. /\ call' \in [Procs -> Call] /\ call'[p] = d
        /\ \A q \in Procs \ {p} : call'[q] = call[q]
    BY <1>1, CallMoves
  <1>3. auctionSeq \in Nat /\ auctionSeq' \in Nat  BY ListAssumption DEF ListSafe, RowsTyped
  <1>4. ASSUME NEW q \in Procs PROVE Works(call'[q]) /\ Exist(call[q])'
    <2>1. CASE q = p  BY <1>2, <2>1 DEF Fits, Exist
    <2>2. CASE q # p
      <3>1. call'[q] = call[q] /\ Works(call[q]) /\ Exist(call[q])  BY <1>2, <2>2 DEF ListSafe
      <3> QED BY <1>3, <3>1 DEF Exist
    <2> QED BY <2>1, <2>2
  <1>5. \A q \in Procs : Works(call[q])' /\ Exist(call[q])'  BY <1>4 DEF Works
  <1> QED BY <1>2, <1>5 DEF ListSafe, ItemsGuarded, CardsGuarded

\* A step that touches neither lock.
LEMMA PlainStep ==
  ASSUME ListSafe, NEW p \in Procs, NEW d, Fits(d), To(p, d), RowsTyped',
         auctionSeq' >= auctionSeq, UNCHANGED locks,
         InItemQueue(call[p]) = InItemQueue(d), UsesItem(d) \subseteq UsesItem(call[p]),
         InCardQueue(call[p]) = InCardQueue(d), UsesCard(d) \subseteq UsesCard(call[p])
  PROVE  ListSafe'
  <1>1. d \in Call /\ call \in [Procs -> Call] /\ ItemsGuarded /\ CardsGuarded
    BY DEF Fits, ListSafe, ItemsGuarded, CardsGuarded
  <1>2. ItemsGuarded'  BY <1>1, ItemsKept DEF locks
  <1>3. CardsGuarded'  BY <1>1, CardsKept DEF locks
  <1> QED BY <1>2, <1>3, SafeStep

\* A call goes from Idle, or ends, without a lock.
LEMMA RowsKept ==
  ASSUME RowsTyped, UNCHANGED <<rows, list, bounds, history>>
  PROVE  RowsTyped'
  BY DEF RowsTyped, rows, bounds, history

\* A call that is nowhere is in no queue; so is one that starts, or ends, outside them.
NoLock(c) == InItemQueue(c) = {} /\ UsesItem(c) = {} /\ InCardQueue(c) = {} /\ UsesCard(c) = {}

LEMMA IdleFits == /\ Idle \in Call /\ NoLock(Idle) /\ Works(Idle)
                  /\ Idle.cards = {} /\ Idle.auction = 0
  BY DEF Idle, Call, NoAuction, NoLock, InItemQueue, UsesItem, InCardQueue, UsesCard, ItemWork,
         CardSteps, Works, Operation, CallStep

\* A request begins; a call without a lock ends.
LEMMA BeginSafe ==
  ASSUME ListSafe, NEW p \in Procs, NEW d, Begin(p, d), Fits(d), NoLock(d),
         UNCHANGED <<rows, list, locks, bounds, history>>
  PROVE  ListSafe'
  <1>1. To(p, d) /\ call[p] = Idle  BY DEF Begin, To
  <1>2. NoLock(call[p])  BY <1>1, IdleFits
  <1>3. RowsTyped' /\ auctionSeq' >= auctionSeq
    BY RowsKept, ListAssumption DEF ListSafe, RowsTyped, rows
  <1> QED BY <1>1, <1>2, <1>3, PlainStep DEF NoLock, locks

LEMMA ReturnSafe ==
  ASSUME ListSafe, NEW p \in Procs, Return(p), NoLock(call[p]), RowsTyped',
         UNCHANGED <<auctionSeq, locks>>
  PROVE  ListSafe'
  <1>1. auctionSeq \in Nat  BY ListAssumption DEF ListSafe, RowsTyped
  <1>2. Fits(Idle) /\ NoLock(Idle)  BY <1>1, IdleFits DEF Fits
  <1>3. auctionSeq' >= auctionSeq  BY <1>1
  <1> QED BY <1>2, <1>3, PlainStep DEF Return, NoLock, locks

LEMMA PlainNoLock ==
  ASSUME ListSafe, NEW p \in Procs, NEW d, To(p, d), Fits(d), RowsTyped',
         UNCHANGED <<auctionSeq, locks>>, NoLock(call[p]), NoLock(d)
  PROVE  ListSafe'
  <1>1. auctionSeq \in Nat  BY ListAssumption DEF ListSafe, RowsTyped
  <1> QED BY <1>1, PlainStep DEF NoLock, locks

LEMMA CallHas ==
  ASSUME ListSafe, NEW p \in Procs
  PROVE  /\ call[p] \in Call /\ Works(call[p]) /\ Exist(call[p]) /\ RowsTyped
         /\ ItemsGuarded /\ CardsGuarded /\ call \in [Procs -> Call]
         /\ auctionSeq \in Nat /\ auctionSeq <= MaxAuctions /\ MaxAuctions \in Nat
         /\ \A s : Goto(p, s) => To(p, [call[p] EXCEPT !.step = s])
  BY ListAssumption DEF ListSafe, RowsTyped, ItemsGuarded, CardsGuarded, Goto, To

-----------------------------------------------------------------------------
(***************************************************************************)
(* The requests.                                                           *)
(***************************************************************************)
LEMMA OpenExists ==
  ASSUME RowsTyped, NEW a \in AuctionIds, Open(a)
  PROVE  a \in 1 .. auctionSeq
  BY ListAssumption DEF RowsTyped, Open, AuctionIds

LEMMA BeganFits ==
  ASSUME UNCHANGED auctionSeq, NEW d \in Call,
         d.cards \subseteq 1 .. auctionSeq, d.auction \in 0 .. auctionSeq,
         \/ d.step = "add" /\ d.op = "publish" /\ d.item \in Items
         \/ d.step \in {"sync", "check"} /\ d.op = "open"
         \/ d.step = "next" /\ d.op = "start"
         \/ d.step = "create" /\ d.op = "single" /\ d.item \in Items
         \/ d.step = "close" /\ d.op \in {"close", "cancel"} /\ d.event \in Events
         \/ d.step = "bid" /\ d.op = "bid"
         \/ d.step = "refresh" /\ d.op = "tick"
  PROVE  Fits(d) /\ NoLock(d)
  BY DEF Fits, Works, NoLock, InItemQueue, UsesItem, InCardQueue, UsesCard, ItemWork, CardSteps

LEMMA RequestSafe ==
  ASSUME ListSafe, NEW p \in Procs, Request(p)
  PROVE  ListSafe'
  <1> USE DEF Operation, CallStep, NoAuction
  <1>0. /\ RowsTyped /\ auctionSeq \in Nat /\ 0 \in 0 .. auctionSeq
        /\ EventOf \in [Items -> Events]
        /\ list \in [Groups -> Events \cup {NoEvent}]
    BY ListAssumption DEF ListSafe, RowsTyped
  <1>1. ASSUME NEW i \in Items, AddItemCheck(p, i) PROVE ListSafe'
    <2> DEFINE d == [Idle EXCEPT !.op = "publish", !.step = "add", !.item = i, !.event = EventOf[i]]
    <2>3. d \in Call /\ d.op = "publish" /\ d.step = "add" /\ d.item = i /\ d.cards = {} /\ d.auction = 0
      BY <1>0 DEF Idle, Call
    <2>4. Fits(d) /\ NoLock(d)
      <3>1. UNCHANGED auctionSeq  BY <1>1 DEF AddItemCheck, rows
      <3> HIDE DEF d
      <3> QED BY <1>0, <2>3, <3>1, BeganFits
    <2> QED BY <1>1, <2>4, BeginSafe DEF AddItemCheck
  <1>2. ASSUME NEW i \in Items, NEW g \in Groups, StartSingle(p, i, g) PROVE ListSafe'
    <2> DEFINE d == [Idle EXCEPT !.op = "single", !.step = "create", !.item = i, !.group = g,
                                 !.event = EventOf[i]]
    <2>3. d \in Call /\ d.op = "single" /\ d.step = "create" /\ d.item = i /\ d.cards = {} /\ d.auction = 0
      BY <1>0 DEF Idle, Call
    <2>4. Fits(d) /\ NoLock(d)
      <3>1. UNCHANGED auctionSeq  BY <1>2 DEF StartSingle, rows
      <3> HIDE DEF d
      <3> QED BY <1>0, <2>3, <3>1, BeganFits
    <2> QED BY <1>2, <2>4, BeginSafe DEF StartSingle
  <1>3. ASSUME NEW e \in Events, CloseFromPanel(p, e) PROVE ListSafe'
    <2>1. {a \in Listed(e) : Open(a)} \subseteq AuctionIds \cap (1 .. auctionSeq)
      BY <1>0, OpenExists DEF Listed
    <2> DEFINE d == [Idle EXCEPT !.op = "close", !.step = "close", !.event = e,
                                 !.cards = {a \in Listed(e) : Open(a)}]
    <2>3. d \in Call /\ d.op = "close" /\ d.step = "close" /\ d.event = e /\ d.cards \subseteq 1 .. auctionSeq /\ d.auction = 0
      BY <1>0, <2>1 DEF Idle, Call
    <2>4. Fits(d) /\ NoLock(d)
      <3>1. UNCHANGED auctionSeq  BY <1>3 DEF CloseFromPanel, rows
      <3> HIDE DEF d
      <3> QED BY <1>0, <2>3, <3>1, <2>1, BeganFits
    <2> QED BY <1>3, <2>1, <2>4, BeginSafe DEF CloseFromPanel
  <1>4. ASSUME NEW e \in Events, NEW g \in Groups, OpenFind(p, e, g) PROVE ListSafe'
    <2>1. PICK h \in Groups, s \in {"sync", "check"} :
              Begin(p, [Idle EXCEPT !.op = "open", !.step = s, !.event = e, !.group = h])
      BY <1>4 DEF OpenFind
    <2> DEFINE d == [Idle EXCEPT !.op = "open", !.step = s, !.event = e, !.group = h]
    <2>3. d \in Call /\ d.op = "open" /\ d.step = s /\ d.cards = {} /\ d.auction = 0
      BY <1>0, <2>1 DEF Idle, Call
    <2>4. Fits(d) /\ NoLock(d)
      <3>1. UNCHANGED auctionSeq  BY <1>4 DEF OpenFind, rows
      <3> HIDE DEF d
      <3> QED BY <1>0, <2>3, <3>1, <2>1, BeganFits
    <2> QED BY <1>4, <2>1, <2>4, BeginSafe DEF OpenFind
  <1>5. ASSUME NEW e \in Events, NEW g \in Groups, ChatStart(p, e, g) PROVE ListSafe'
    <2>1. {i \in ItemsOf(e) : item[i] # "ABSENT"} \subseteq Items
      BY DEF ItemsOf
    <2> DEFINE d == [Idle EXCEPT !.op = "start", !.step = "next", !.event = e, !.group = g,
                                 !.items = {i \in ItemsOf(e) : item[i] # "ABSENT"}]
    <2>3. d \in Call /\ d.op = "start" /\ d.step = "next" /\ d.cards = {} /\ d.auction = 0
      BY <1>0, <2>1 DEF Idle, Call
    <2>4. Fits(d) /\ NoLock(d)
      <3>1. UNCHANGED auctionSeq  BY <1>5 DEF ChatStart, rows
      <3> HIDE DEF d
      <3> QED BY <1>0, <2>3, <3>1, <2>1, BeganFits
    <2> QED BY <1>5, <2>1, <2>4, BeginSafe DEF ChatStart
  <1>6. ASSUME NEW g \in Groups, ChatCancel(p, g) PROVE ListSafe'
    <2>1. {a \in Listed(list[g]) : Open(a)} \subseteq AuctionIds \cap (1 .. auctionSeq) /\ list[g] \in Events
      BY <1>0, <1>6, OpenExists DEF Listed, ChatCancel
    <2> DEFINE d == [Idle EXCEPT !.op = "cancel", !.step = "close", !.event = list[g], !.group = g,
                                 !.cards = {a \in Listed(list[g]) : Open(a)}]
    <2>3. d \in Call /\ d.op = "cancel" /\ d.step = "close" /\ d.event \in Events /\ d.cards \subseteq 1 .. auctionSeq /\ d.auction = 0
      BY <1>0, <2>1 DEF Idle, Call
    <2>4. Fits(d) /\ NoLock(d)
      <3>1. UNCHANGED auctionSeq  BY <1>6 DEF ChatCancel, rows
      <3> HIDE DEF d
      <3> QED BY <1>0, <2>3, <3>1, <2>1, BeganFits
    <2> QED BY <1>6, <2>1, <2>4, BeginSafe DEF ChatCancel
  <1>7. ASSUME NEW g \in Groups, TickVisit(p, g) PROVE ListSafe'
    <2> DEFINE d == [Idle EXCEPT !.op = "tick", !.step = "refresh", !.event = list[g], !.group = g]
    <2>3. d \in Call /\ d.op = "tick" /\ d.step = "refresh" /\ d.cards = {} /\ d.auction = 0
      BY <1>0 DEF Idle, Call
    <2>4. Fits(d) /\ NoLock(d)
      <3>1. UNCHANGED auctionSeq  BY <1>7 DEF TickVisit, rows
      <3> HIDE DEF d
      <3> QED BY <1>0, <2>3, <3>1, BeganFits
    <2> QED BY <1>7, <2>4, BeginSafe DEF TickVisit
  <1>8. ASSUME NEW g \in Groups, NEW a \in AuctionIds, BidRead(p, g, a) PROVE ListSafe'
    <2>1. a \in 1 .. auctionSeq /\ a \in 0 .. auctionSeq
      BY <1>0, <1>8, OpenExists DEF BidRead
    <2> DEFINE d == [Idle EXCEPT !.op = "bid", !.step = "bid", !.event = list[g], !.group = g,
                                 !.auction = a]
    <2>3. d \in Call /\ d.op = "bid" /\ d.step = "bid" /\ d.cards = {} /\ d.auction = a
      BY <1>0, <2>1 DEF Idle, Call
    <2>4. Fits(d) /\ NoLock(d)
      <3>1. UNCHANGED auctionSeq  BY <1>8 DEF BidRead, rows
      <3> HIDE DEF d
      <3> QED BY <1>0, <2>3, <3>1, <2>1, BeganFits
    <2> QED BY <1>8, <2>1, <2>4, BeginSafe DEF BidRead
  <1> QED BY <1>1, <1>2, <1>3, <1>4, <1>5, <1>6, <1>7, <1>8 DEF Request

-----------------------------------------------------------------------------
(***************************************************************************)
(* The steps, in the order of the module.                                  *)
(***************************************************************************)
LEMMA CreateSafe ==
  ASSUME ListSafe, NEW p \in Procs, CreateAuction(p)
  PROVE  ListSafe'
  <1> DEFINE c == call[p]  a == auctionSeq + 1
             d == [c EXCEPT !.step = "mark", !.auction = a, !.made = @ \cup {a}]
  <1>1. /\ c \in Call /\ Works(c) /\ Exist(c) /\ RowsTyped
        /\ auctionSeq \in Nat /\ MaxAuctions \in Nat
    BY CallHas
  <1>2. /\ c.step = "create" /\ auctionSeq' = a /\ a \in AuctionIds /\ c.item \in Items
        /\ c.op \in {"publish", "open", "start", "single"}
    BY <1>1 DEF CreateAuction, At, AuctionIds, Works
  <1>3. d \in Call  BY <1>1, <1>2 DEF Call, CallStep
  <1>4. /\ d.step = "mark" /\ d.op = c.op /\ d.item = c.item /\ d.cards = c.cards
        /\ d.auction = a
    BY <1>1 DEF Call
  <1>5. To(p, d) /\ UNCHANGED <<item, event, list, locks, bounds, delivered, finals>>
    BY DEF CreateAuction
  <1> DEFINE r == [status |-> "OPEN", item |-> c.item, group |-> c.group, card |-> FALSE]
  <1>6. auction' = [auction EXCEPT ![a] = r] /\ r \in AuctionRow /\ r.status = "OPEN"
    BY <1>1, <1>2 DEF CreateAuction, AuctionRow, Call
  <1>7. unlocked' \subseteq Items
    BY <1>1, <1>2 DEF CreateAuction, RowsTyped
  <1> HIDE DEF c, d, r
  <1>8. RowsTyped'
    <2>1. auction' \in [AuctionIds -> AuctionRow]  BY <1>1, <1>6 DEF RowsTyped
    <2>2. \A b \in AuctionIds : auction'[b].status = "ABSENT" <=> b > auctionSeq'
      BY <1>1, <1>2, <1>6 DEF RowsTyped, AuctionIds
    <2>3. auctionSeq' \in 0 .. MaxAuctions  BY <1>1, <1>2 DEF AuctionIds
    <2> QED BY <1>1, <1>5, <1>7, <2>1, <2>2, <2>3 DEF RowsTyped, bounds
  <1>9. Fits(d)
    BY <1>1, <1>2, <1>3, <1>4 DEF Fits, Works, Exist, CardSteps
  <1>10. /\ InItemQueue(c) = InItemQueue(d) /\ UsesItem(d) \subseteq UsesItem(c)
         /\ InCardQueue(c) = InCardQueue(d) /\ UsesCard(d) \subseteq UsesCard(c)
    BY <1>2, <1>4 DEF InItemQueue, UsesItem, InCardQueue, UsesCard, ItemWork, CardSteps
  <1> QED BY <1>1, <1>2, <1>5, <1>8, <1>9, <1>10, PlainStep DEF c

\* The rows and the histories but item, event and list, which the step writes.
LEMMA RowsWrite ==
  ASSUME RowsTyped, UNCHANGED <<auction, auctionSeq, bounds, history>>,
         item' \in [Items -> ItemStatus], event' \in [Events -> {"OPEN", "CLOSED"}],
         list' \in [Groups -> Events \cup {NoEvent}]
  PROVE  RowsTyped'
  BY DEF RowsTyped, bounds, history

LEMMA MarkSafe ==
  ASSUME ListSafe, NEW p \in Procs, MarkItem(p)
  PROVE  ListSafe'
  <1> DEFINE c == call[p]
  <1>1. /\ c \in Call /\ Works(c) /\ Exist(c) /\ RowsTyped /\ ItemsGuarded /\ CardsGuarded
        /\ call \in [Procs -> Call] /\ auctionSeq \in Nat
        /\ \A s : Goto(p, s) => To(p, [c EXCEPT !.step = s])
    BY CallHas
  <1>2. /\ c.step = "mark" /\ c.item \in Items /\ c.op \in {"publish", "open", "start", "single"}
        /\ UNCHANGED <<auction, auctionSeq, event, list, cardLock, bounds, history>>
    BY <1>1 DEF MarkItem, At, Works
  <1>3. RowsTyped'
    <2>1. item' \in [Items -> ItemStatus]  BY <1>1 DEF MarkItem, RowsTyped, ItemStatus
    <2> QED BY <1>1, <1>2, <2>1, RowsWrite DEF RowsTyped
  <1>4. CASE c.op = "publish"
    <2> DEFINE d == [c EXCEPT !.step = "cards"]
    <2>1. To(p, d) /\ UNCHANGED itemLock  BY <1>1, <1>2, <1>4 DEF MarkItem
    <2>2. /\ d \in Call /\ d.step = "cards" /\ d.op = "publish" /\ d.item = c.item
          /\ d.cards = c.cards /\ d.auction = c.auction
      BY <1>1, <1>4 DEF Call, CallStep
    <2> HIDE DEF c, d
    <2>3. Fits(d)  BY <1>1, <1>2, <2>2 DEF Fits, Works, Exist, CardSteps
    <2>4. /\ InItemQueue(c) = InItemQueue(d) /\ UsesItem(d) \subseteq UsesItem(c)
          /\ InCardQueue(c) = InCardQueue(d) /\ UsesCard(d) \subseteq UsesCard(c)
      BY <1>2, <1>4, <2>2 DEF InItemQueue, UsesItem, InCardQueue, UsesCard, ItemWork, CardSteps
    <2> QED BY <1>1, <1>2, <1>3, <2>1, <2>3, <2>4, PlainStep DEF c, locks
  <1>5. CASE c.op \in {"open", "start"}
    <2> DEFINE d == [c EXCEPT !.step = "next", !.items = @ \ {c.item}]
    <2>1. /\ To(p, d)
          /\ c.op = "open" => itemLock' = Leave(itemLock, c.item)
          /\ c.op = "start" => UNCHANGED itemLock
      BY <1>2, <1>5 DEF MarkItem
    <2>2. /\ d \in Call /\ d.step = "next" /\ d.op = c.op /\ d.item = c.item
          /\ d.cards = c.cards /\ d.auction = c.auction
      BY <1>1 DEF Call, CallStep
    <2> HIDE DEF c, d
    <2>3. Fits(d)  BY <1>1, <1>2, <1>5, <2>2 DEF Fits, Works, Exist, CardSteps
    <2>4. NoLock(d) /\ InCardQueue(c) = {}
      BY <1>2, <1>5, <2>2 DEF NoLock, InItemQueue, UsesItem, InCardQueue, UsesCard, ItemWork, CardSteps
    <2>5. CASE c.op = "open"
      <3>1. InItemQueue(c) = {c.item} /\ UsesItem(c) = {c.item}
        BY <1>2, <2>5 DEF InItemQueue, UsesItem, ItemWork
      <3>2. Holds(itemLock, c.item, p)  BY <1>1, <3>1 DEF ItemsGuarded, Guarded, ItemUses, c
      <3>3. ItemsGuarded'
        BY <1>1, <1>2, <2>1, <2>2, <2>4, <2>5, <3>1, <3>2, ItemsLeft DEF NoLock, c
      <3>4. CardsGuarded'  BY <1>1, <1>2, <2>1, <2>2, <2>4, CardsKept DEF NoLock, c
      <3> QED BY <1>1, <1>2, <1>3, <2>1, <2>3, <3>3, <3>4, SafeStep
    <2>6. CASE c.op = "start"
      <3>1. NoLock(c)
        BY <1>2, <2>6 DEF NoLock, InItemQueue, UsesItem, InCardQueue, UsesCard, ItemWork, CardSteps
      <3> QED BY <1>2, <1>3, <2>1, <2>3, <2>4, <2>6, <3>1, PlainNoLock DEF c, locks
    <2> QED BY <1>5, <2>5, <2>6
  <1>6. CASE c.op = "single"
    <2>1. Return(p) /\ UNCHANGED itemLock  BY <1>6 DEF MarkItem
    <2>2. NoLock(c)
      BY <1>2, <1>6 DEF NoLock, InItemQueue, UsesItem, InCardQueue, UsesCard, ItemWork, CardSteps
    <2> QED BY <1>2, <1>3, <2>1, <2>2, ReturnSafe DEF locks
  <1> QED BY <1>2, <1>4, <1>5, <1>6

\* A step from one place without a lock to another, that only moves the call.
LEMMA AddItemSafe ==
  ASSUME ListSafe, NEW p \in Procs, AddItem(p)
  PROVE  ListSafe'
  <1> DEFINE c == call[p]  d == [c EXCEPT !.step = "read"]
  <1>1. /\ c \in Call /\ Works(c) /\ Exist(c) /\ RowsTyped /\ c.step = "add" /\ To(p, d)
        /\ UNCHANGED <<auction, auctionSeq, event, list, locks, bounds, history>>
    BY CallHas DEF AddItem, At
  <1>2. RowsTyped'
    <2>1. item' \in [Items -> ItemStatus]  BY <1>1 DEF AddItem, RowsTyped, ItemStatus
    <2> QED BY <1>1, <2>1, RowsWrite DEF RowsTyped
  <1>3. /\ d \in Call /\ d.step = "read" /\ d.op = c.op /\ d.item = c.item
        /\ d.cards = c.cards /\ d.auction = c.auction
    BY <1>1 DEF Call, CallStep
  <1> HIDE DEF c, d
  <1>4. Fits(d)  BY <1>1, <1>3 DEF Fits, Works, Exist, CardSteps
  <1>5. NoLock(c) /\ NoLock(d)
    BY <1>1, <1>3 DEF NoLock, InItemQueue, UsesItem, InCardQueue, UsesCard, ItemWork, CardSteps
  <1> QED BY <1>1, <1>2, <1>4, <1>5, PlainNoLock DEF c

LEMMA PublishReadSafe ==
  ASSUME ListSafe, NEW p \in Procs, PublishRead(p)
  PROVE  ListSafe'
  <1> DEFINE c == call[p]  d == [c EXCEPT !.step = "list", !.free = item[c.item] = "AVAILABLE"]
  <1>1. /\ c \in Call /\ Works(c) /\ Exist(c) /\ RowsTyped /\ c.step = "read"
        /\ To(p, d) \/ Return(p)
        /\ UNCHANGED <<rows, list, locks, bounds, history>>
    BY CallHas DEF PublishRead, At
  <1>2. RowsTyped' /\ UNCHANGED auctionSeq  BY <1>1, RowsKept DEF rows
  <1>3. /\ d \in Call /\ d.step = "list" /\ d.op = c.op /\ d.item = c.item
        /\ d.cards = c.cards /\ d.auction = c.auction
    BY <1>1 DEF Call, CallStep
  <1> HIDE DEF c, d
  <1>4. Fits(d)  BY <1>1, <1>2, <1>3 DEF Fits, Works, Exist, CardSteps
  <1>5. NoLock(c) /\ NoLock(d)
    BY <1>1, <1>3 DEF NoLock, InItemQueue, UsesItem, InCardQueue, UsesCard, ItemWork, CardSteps
  <1> QED BY <1>1, <1>2, <1>4, <1>5, PlainNoLock, ReturnSafe DEF c

LEMMA PublishJoinSafe ==
  ASSUME ListSafe, NEW p \in Procs, PublishJoin(p)
  PROVE  ListSafe'
  <1> DEFINE c == call[p]
  <1>1. /\ c \in Call /\ Works(c) /\ Exist(c) /\ RowsTyped /\ c.step = "list"
        /\ ItemsGuarded /\ CardsGuarded /\ call \in [Procs -> Call]
        /\ UNCHANGED <<rows, list, cardLock, bounds, history>>
    BY CallHas DEF PublishJoin, At
  <1>2. RowsTyped' /\ UNCHANGED auctionSeq /\ auctionSeq' >= auctionSeq
    BY <1>1, RowsKept, CallHas DEF rows
  <1>3. c.op = "publish" /\ c.item \in Items  BY <1>1 DEF Works
  <1>4. NoLock(c)
    BY <1>1 DEF NoLock, InItemQueue, UsesItem, InCardQueue, UsesCard, ItemWork, CardSteps
  <1>5. ASSUME NEW g \in Groups, To(p, [c EXCEPT !.step = "find", !.group = g]),
               itemLock' = Join(itemLock, c.item, p)
        PROVE  ListSafe'
    <2> DEFINE d == [c EXCEPT !.step = "find", !.group = g]
    <2>1. /\ d \in Call /\ d.step = "find" /\ d.op = c.op /\ d.item = c.item
          /\ d.cards = c.cards /\ d.auction = c.auction /\ To(p, d)
      BY <1>1, <1>5 DEF Call, CallStep
    <2> HIDE DEF c, d
    <2>2. Fits(d)  BY <1>1, <1>2, <1>3, <2>1 DEF Fits, Works, Exist, CardSteps
    <2>3. /\ InItemQueue(d) = {c.item} /\ UsesItem(d) = {}
          /\ InCardQueue(d) = {} /\ UsesCard(d) = {}
      BY <1>3, <2>1 DEF InItemQueue, UsesItem, InCardQueue, UsesCard, ItemWork, CardSteps
    <2>4. ItemsGuarded'
      BY <1>1, <1>3, <1>4, <1>5, <2>1, <2>3, ItemsJoined DEF NoLock, c
    <2>5. CardsGuarded'  BY <1>1, <1>4, <2>1, <2>3, CardsKept DEF NoLock, c
    <2> QED BY <1>2, <2>1, <2>2, <2>4, <2>5, SafeStep
  <1>6. CASE Return(p) /\ UNCHANGED itemLock
    BY <1>1, <1>2, <1>4, <1>6, ReturnSafe DEF locks
  <1> QED BY <1>5, <1>6 DEF PublishJoin

\* The holder of an item's lock goes on without it.
LEMMA ItemLeaveSafe ==
  ASSUME ListSafe, NEW p \in Procs, NEW d, Fits(d), NoLock(d), To(p, d), RowsTyped',
         UNCHANGED <<auctionSeq, cardLock>>, itemLock' = Leave(itemLock, call[p].item),
         Holds(itemLock, call[p].item, p), ItemWork(call[p]), call[p].step \notin CardSteps
  PROVE  ListSafe'
  <1> DEFINE c == call[p]
  <1>1. /\ ItemsGuarded /\ CardsGuarded /\ call \in [Procs -> Call] /\ auctionSeq' >= auctionSeq
        /\ Works(c) /\ d \in Call
    BY CallHas DEF Fits
  <1>2. c.item \in Items /\ InItemQueue(c) = {c.item} /\ InCardQueue(c) = {}
    BY <1>1 DEF Works, ItemWork, InItemQueue, InCardQueue
  <1>3. ItemsGuarded'  BY <1>1, <1>2, ItemsLeft DEF NoLock
  <1>4. CardsGuarded'  BY <1>1, <1>2, CardsKept DEF NoLock
  <1> QED BY <1>1, <1>3, <1>4, SafeStep

\* The holder of a card's lock is done with the card.
LEMMA CardDoneSafe ==
  ASSUME ListSafe, NEW p \in Procs, CardDone(p), call[p].step \in CardSteps,
         Holds(cardLock, call[p].auction, p), RowsTyped', UNCHANGED <<auctionSeq, itemLock>>
  PROVE  ListSafe'
  <1> DEFINE c == call[p]  d == [c EXCEPT !.step = "card", !.cards = @ \ {c.auction}]
  <1>1. /\ ItemsGuarded /\ CardsGuarded /\ call \in [Procs -> Call] /\ auctionSeq' >= auctionSeq
        /\ c \in Call /\ Works(c) /\ Exist(c)
        /\ To(p, d) /\ cardLock' = Leave(cardLock, c.auction)
    BY CallHas DEF CardDone
  <1>2. /\ d \in Call /\ d.step = "card" /\ d.op = c.op /\ d.item = c.item
        /\ d.cards = c.cards \ {c.auction} /\ d.auction = c.auction
    BY <1>1 DEF Call, CallStep
  <1> HIDE DEF c, d
  <1>3. c.step \in CardSteps /\ c.auction \in AuctionIds /\ Holds(cardLock, c.auction, p)
    BY <1>1 DEF Works, c
  <1>4. Fits(d)  BY <1>1, <1>2, <1>3 DEF Fits, Works, Exist, CardSteps
  <1>5. /\ InItemQueue(c) = InItemQueue(d) /\ UsesItem(d) \subseteq UsesItem(c)
        /\ InCardQueue(c) = {c.auction} /\ UsesCard(d) = {}
    BY <1>2, <1>3 DEF InItemQueue, UsesItem, InCardQueue, UsesCard, ItemWork, CardSteps
  <1>6. ItemsGuarded'  BY <1>1, <1>2, <1>5, ItemsKept DEF c
  <1>7. CardsGuarded'  BY <1>1, <1>2, <1>3, <1>5, CardsLeft DEF c
  <1> QED BY <1>1, <1>4, <1>6, <1>7, SafeStep

\* The holder of an item's lock goes on under it.
LEMMA ItemHeldSafe ==
  ASSUME ListSafe, NEW p \in Procs, NEW d, Fits(d), To(p, d), RowsTyped',
         UNCHANGED <<auctionSeq, locks>>, ItemWork(call[p]), ItemWork(d),
         d.item = call[p].item, Holds(itemLock, call[p].item, p),
         call[p].step \notin CardSteps, d.step \notin CardSteps
  PROVE  ListSafe'
  <1> DEFINE c == call[p]
  <1>1. /\ ItemsGuarded /\ CardsGuarded /\ call \in [Procs -> Call] /\ auctionSeq' >= auctionSeq
        /\ Works(c) /\ d \in Call
    BY CallHas DEF Fits
  <1>2. /\ c.item \in Items /\ InItemQueue(c) = InItemQueue(d) /\ UsesItem(d) \subseteq {c.item}
        /\ InCardQueue(c) = InCardQueue(d) /\ UsesCard(d) = {}
    BY <1>1 DEF Works, ItemWork, InItemQueue, UsesItem, InCardQueue, UsesCard, CardSteps
  <1>3. ItemsGuarded'  BY <1>1, <1>2, ItemsKept DEF locks
  <1>4. CardsGuarded'  BY <1>1, <1>2, CardsKept DEF locks
  <1> QED BY <1>1, <1>3, <1>4, SafeStep

LEMMA PublishFindSafe ==
  ASSUME ListSafe, NEW p \in Procs, PublishFind(p)
  PROVE  ListSafe'
  <1> DEFINE c == call[p]
  <1>1. /\ c \in Call /\ Works(c) /\ Exist(c) /\ RowsTyped /\ c.step = "find" /\ c.op = "publish"
        /\ Holds(itemLock, c.item, p) /\ UNCHANGED <<rows, list, cardLock, bounds, history>>
        /\ \A s : Goto(p, s) => To(p, [c EXCEPT !.step = s])
    BY CallHas DEF PublishFind, At
  <1>2. RowsTyped' /\ UNCHANGED auctionSeq /\ auctionSeq' \in Nat
    BY <1>1, RowsKept, CallHas DEF rows
  <1>3. ItemWork(c) /\ c.step \notin CardSteps  BY <1>1 DEF ItemWork, CardSteps
  <1>4. CASE Return(p) /\ itemLock' = Leave(itemLock, c.item)
    <2>1. Fits(Idle) /\ NoLock(Idle)  BY <1>2, IdleFits DEF Fits
    <2> QED BY <1>1, <1>2, <1>3, <1>4, <2>1, ItemLeaveSafe DEF Return
  <1>5. ASSUME NEW a \in AuctionIds, Open(a), UNCHANGED itemLock,
               To(p, [c EXCEPT !.step = "cards", !.auction = a])
        PROVE  ListSafe'
    <2> DEFINE d == [c EXCEPT !.step = "cards", !.auction = a]
    <2>1. /\ d \in Call /\ d.step = "cards" /\ d.op = c.op /\ d.item = c.item
          /\ d.cards = c.cards /\ d.auction = a /\ To(p, d)
      BY <1>1, <1>5 DEF Call, CallStep
    <2>2. a \in 1 .. auctionSeq  BY <1>1, <1>5, OpenExists
    <2> HIDE DEF c, d
    <2>3. Fits(d)  BY <1>1, <1>2, <2>1, <2>2 DEF Fits, Works, Exist, CardSteps
    <2>4. ItemWork(d) /\ d.step \notin CardSteps  BY <1>1, <2>1 DEF ItemWork, CardSteps
    <2> QED BY <1>1, <1>2, <1>3, <1>5, <2>1, <2>3, <2>4, ItemHeldSafe DEF c, locks
  <1>6. CASE Goto(p, "create") /\ UNCHANGED itemLock
    <2> DEFINE d == [c EXCEPT !.step = "create"]
    <2>1. /\ d \in Call /\ d.step = "create" /\ d.op = c.op /\ d.item = c.item
          /\ d.cards = c.cards /\ d.auction = c.auction /\ To(p, d)
      BY <1>1, <1>6 DEF Call, CallStep
    <2> HIDE DEF c, d
    <2>3. Fits(d)  BY <1>1, <1>2, <2>1 DEF Fits, Works, Exist, CardSteps
    <2>4. ItemWork(d) /\ d.step \notin CardSteps  BY <1>1, <2>1 DEF ItemWork, CardSteps
    <2> QED BY <1>1, <1>2, <1>3, <1>6, <2>1, <2>3, <2>4, ItemHeldSafe DEF c, locks
  <1> QED BY <1>4, <1>5, <1>6 DEF PublishFind, AuctionsOf

LEMMA PublishConfirmSafe ==
  ASSUME ListSafe, NEW p \in Procs, PublishConfirm(p)
  PROVE  ListSafe'
  <1> DEFINE c == call[p]
  <1>1. /\ c \in Call /\ Works(c) /\ RowsTyped /\ ItemsGuarded /\ c.step = "confirm"
        /\ itemLock' = Leave(itemLock, c.item) /\ Return(p)
        /\ UNCHANGED <<rows, list, cardLock, bounds, history>>
    BY CallHas DEF PublishConfirm, At
  <1>2. RowsTyped' /\ UNCHANGED auctionSeq /\ auctionSeq' \in Nat
    BY <1>1, RowsKept, CallHas DEF rows
  <1>3. ItemWork(c) /\ c.step \notin CardSteps /\ UsesItem(c) = {c.item}
    BY <1>1 DEF ItemWork, CardSteps, Works, UsesItem
  <1>4. Holds(itemLock, c.item, p)  BY <1>1, <1>3 DEF ItemsGuarded, Guarded, ItemUses
  <1>5. Fits(Idle) /\ NoLock(Idle)  BY <1>2, IdleFits DEF Fits
  <1> QED BY <1>1, <1>2, <1>3, <1>4, <1>5, ItemLeaveSafe DEF Return

LEMMA SyncFindSafe ==
  ASSUME ListSafe, NEW p \in Procs, SyncFind(p)
  PROVE  ListSafe'
  <1> DEFINE c == call[p]
  <1>1. /\ c \in Call /\ Works(c) /\ Exist(c) /\ RowsTyped /\ c.step = "find" /\ c.op = "open"
        /\ Holds(itemLock, c.item, p) /\ UNCHANGED <<rows, list, cardLock, bounds, history>>
        /\ \A s : Goto(p, s) => To(p, [c EXCEPT !.step = s])
    BY CallHas DEF SyncFind, At
  <1>2. RowsTyped' /\ UNCHANGED auctionSeq /\ auctionSeq' \in Nat
    BY <1>1, RowsKept, CallHas DEF rows
  <1>3. ItemWork(c) /\ c.step \notin CardSteps  BY <1>1 DEF ItemWork, CardSteps
  <1>4. CASE Goto(p, "create") /\ UNCHANGED itemLock
    <2> DEFINE d == [c EXCEPT !.step = "create"]
    <2>1. /\ d \in Call /\ d.step = "create" /\ d.op = c.op /\ d.item = c.item
          /\ d.cards = c.cards /\ d.auction = c.auction /\ To(p, d)
      BY <1>1, <1>4 DEF Call, CallStep
    <2> HIDE DEF c, d
    <2>3. Fits(d)  BY <1>1, <1>2, <2>1 DEF Fits, Works, Exist, CardSteps
    <2>4. ItemWork(d) /\ d.step \notin CardSteps  BY <1>1, <2>1 DEF ItemWork, CardSteps
    <2> QED BY <1>1, <1>2, <1>3, <1>4, <2>1, <2>3, <2>4, ItemHeldSafe DEF c, locks
  <1>5. CASE /\ To(p, [c EXCEPT !.step = "next", !.items = @ \ {c.item}])
             /\ itemLock' = Leave(itemLock, c.item)
    <2> DEFINE d == [c EXCEPT !.step = "next", !.items = @ \ {c.item}]
    <2>1. /\ d \in Call /\ d.step = "next" /\ d.op = c.op /\ d.item = c.item
          /\ d.cards = c.cards /\ d.auction = c.auction /\ To(p, d)
      BY <1>1, <1>5 DEF Call, CallStep
    <2> HIDE DEF c, d
    <2>3. Fits(d)  BY <1>1, <1>2, <2>1 DEF Fits, Works, Exist, CardSteps
    <2>4. NoLock(d)
      BY <1>1, <2>1 DEF NoLock, InItemQueue, UsesItem, InCardQueue, UsesCard, ItemWork, CardSteps
    <2> QED BY <1>1, <1>2, <1>3, <1>5, <2>1, <2>3, <2>4, ItemLeaveSafe DEF c
  <1> QED BY <1>4, <1>5 DEF SyncFind

LEMMA NextItemSafe ==
  ASSUME ListSafe, NEW p \in Procs, NextItem(p)
  PROVE  ListSafe'
  <1> DEFINE c == call[p]
  <1>1. /\ c \in Call /\ Works(c) /\ Exist(c) /\ RowsTyped /\ c.step = "next"
        /\ ItemsGuarded /\ CardsGuarded /\ call \in [Procs -> Call]
        /\ UNCHANGED <<rows, list, cardLock, bounds, history>>
        /\ \A s : Goto(p, s) => To(p, [c EXCEPT !.step = s])
    BY CallHas DEF NextItem, At
  <1>2. RowsTyped' /\ UNCHANGED auctionSeq /\ auctionSeq' >= auctionSeq
    BY <1>1, RowsKept, CallHas DEF rows
  <1>3. c.op \in {"open", "start"} /\ c.items \subseteq Items  BY <1>1 DEF Works, Call
  <1>4. NoLock(c)
    BY <1>1 DEF NoLock, InItemQueue, UsesItem, InCardQueue, UsesCard, ItemWork, CardSteps
  <1>5. CASE Goto(p, "cards") /\ UNCHANGED itemLock
    <2> DEFINE d == [c EXCEPT !.step = "cards"]
    <2>1. /\ d \in Call /\ d.step = "cards" /\ d.op = c.op /\ d.item = c.item
          /\ d.cards = c.cards /\ d.auction = c.auction /\ To(p, d)
      BY <1>1, <1>5 DEF Call, CallStep
    <2> HIDE DEF c, d
    <2>2. Fits(d)  BY <1>1, <1>2, <1>3, <2>1 DEF Fits, Works, Exist, CardSteps
    <2>3. NoLock(d)
      BY <1>3, <2>1 DEF NoLock, InItemQueue, UsesItem, InCardQueue, UsesCard, ItemWork, CardSteps
    <2> QED BY <1>1, <1>2, <1>4, <1>5, <2>1, <2>2, <2>3, PlainNoLock DEF c, locks
  <1>6. ASSUME NEW i \in Items, c.op = "open", itemLock' = Join(itemLock, i, p),
               To(p, [c EXCEPT !.step = "find", !.item = i])
        PROVE  ListSafe'
    <2> DEFINE d == [c EXCEPT !.step = "find", !.item = i]
    <2>1. /\ d \in Call /\ d.step = "find" /\ d.op = c.op /\ d.item = i
          /\ d.cards = c.cards /\ d.auction = c.auction /\ To(p, d)
      BY <1>1, <1>6 DEF Call, CallStep
    <2> HIDE DEF c, d
    <2>2. Fits(d)  BY <1>1, <1>2, <1>6, <2>1 DEF Fits, Works, Exist, CardSteps
    <2>3. /\ InItemQueue(d) = {i} /\ UsesItem(d) = {}
          /\ InCardQueue(d) = {} /\ UsesCard(d) = {}
      BY <1>6, <2>1 DEF InItemQueue, UsesItem, InCardQueue, UsesCard, ItemWork, CardSteps
    <2>4. ItemsGuarded'  BY <1>1, <1>4, <1>6, <2>1, <2>3, ItemsJoined DEF NoLock, c
    <2>5. CardsGuarded'  BY <1>1, <1>4, <2>1, <2>3, CardsKept DEF NoLock, c
    <2> QED BY <1>2, <2>1, <2>2, <2>4, <2>5, SafeStep
  <1>7. ASSUME NEW i \in Items, c.op = "start", UNCHANGED itemLock,
               To(p, [c EXCEPT !.step = "create", !.item = i])
        PROVE  ListSafe'
    <2> DEFINE d == [c EXCEPT !.step = "create", !.item = i]
    <2>1. /\ d \in Call /\ d.step = "create" /\ d.op = c.op /\ d.item = i
          /\ d.cards = c.cards /\ d.auction = c.auction /\ To(p, d)
      BY <1>1, <1>7 DEF Call, CallStep
    <2> HIDE DEF c, d
    <2>2. Fits(d)  BY <1>1, <1>2, <1>7, <2>1 DEF Fits, Works, Exist, CardSteps
    <2>3. NoLock(d)
      BY <1>7, <2>1 DEF NoLock, InItemQueue, UsesItem, InCardQueue, UsesCard, ItemWork, CardSteps
    <2> QED BY <1>1, <1>2, <1>4, <1>7, <2>1, <2>2, <2>3, PlainNoLock DEF c, locks
  <1> QED BY <1>3, <1>5, <1>6, <1>7 DEF NextItem

\* The steps that belong to no lock.
FreeSteps == {"check", "set", "sync", "next", "close", "final", "drop", "bid", "placed",
              "refresh", "rows"}

LEMMA FreeSafe ==
  ASSUME ListSafe, NEW p \in Procs, NEW d \in Call, To(p, d), RowsTyped',
         UNCHANGED <<auctionSeq, locks>>, call[p].step \in FreeSteps, d.step \in FreeSteps,
         d.op = call[p].op, d.item = call[p].item,
         d.step \in {"check", "set", "sync", "next"} => d.op = "open",
         d.step \in {"close", "final"} => d.event \in Events,
         d.cards \subseteq 1 .. auctionSeq, d.auction \in 0 .. auctionSeq
  PROVE  ListSafe'
  <1>1. Works(call[p])  BY CallHas
  <1>2. NoLock(call[p]) /\ NoLock(d)
    BY DEF FreeSteps, NoLock, InItemQueue, UsesItem, InCardQueue, UsesCard, ItemWork, CardSteps
  <1>3. Fits(d)  BY <1>1 DEF FreeSteps, Fits, Works, CardSteps
  <1> QED BY <1>2, <1>3, PlainNoLock

LEMMA FreeReturn ==
  ASSUME ListSafe, NEW p \in Procs, Return(p), RowsTyped', UNCHANGED <<auctionSeq, locks>>,
         call[p].step \in FreeSteps
  PROVE  ListSafe'
  <1>1. NoLock(call[p])
    BY DEF FreeSteps, NoLock, InItemQueue, UsesItem, InCardQueue, UsesCard, ItemWork, CardSteps
  <1> QED BY <1>1, ReturnSafe

\* What one more step, with only `step` changed, is.
LEMMA OnlyStep ==
  ASSUME NEW c \in Call, NEW s \in CallStep
  PROVE  LET d == [c EXCEPT !.step = s]
         IN  /\ d \in Call /\ d.step = s /\ d.op = c.op /\ d.item = c.item
             /\ d.cards = c.cards /\ d.auction = c.auction
  BY DEF Call

LEMMA FreeGoto ==
  ASSUME ListSafe, NEW p \in Procs, NEW s \in FreeSteps \ {"close", "final"}, Goto(p, s), RowsTyped',
         UNCHANGED <<auctionSeq, locks>>, call[p].step \in FreeSteps,
         s \in {"check", "set", "sync", "next"} => call[p].op = "open"
  PROVE  ListSafe'
  <1> DEFINE c == call[p]  d == [c EXCEPT !.step = s]
  <1>1. c \in Call /\ Exist(c) /\ To(p, d)  BY CallHas
  <1>2. s \in CallStep  BY DEF FreeSteps, CallStep
  <1>3. /\ d \in Call /\ d.step = s /\ d.op = c.op /\ d.item = c.item
        /\ d.cards = c.cards /\ d.auction = c.auction
    BY <1>1, <1>2, OnlyStep
  <1> HIDE DEF d
  <1> QED BY <1>1, <1>3, FreeSafe DEF Exist

LEMMA OpenCheckSafe ==
  ASSUME ListSafe, NEW p \in Procs, OpenCheck(p)
  PROVE  ListSafe'
  <1>1. /\ RowsTyped /\ call[p].step = "check" /\ Works(call[p])
        /\ Goto(p, "set") \/ Return(p)
        /\ UNCHANGED <<rows, list, locks, bounds, history>>
    BY CallHas DEF OpenCheck, At
  <1>2. RowsTyped' /\ UNCHANGED <<auctionSeq, locks>>
    BY <1>1, RowsKept DEF rows
  <1>3. call[p].step \in FreeSteps /\ "set" \in FreeSteps \ {"close", "final"} /\ call[p].op = "open"
    BY <1>1 DEF FreeSteps, Works
  <1> QED BY <1>1, <1>2, <1>3, FreeGoto, FreeReturn

LEMMA OpenSetSafe ==
  ASSUME ListSafe, NEW p \in Procs, OpenSet(p)
  PROVE  ListSafe'
  <1>1. /\ RowsTyped /\ call[p] \in Call /\ call[p].step = "set" /\ Works(call[p])
        /\ Goto(p, "sync") /\ UNCHANGED <<rows, locks, bounds, history>>
    BY CallHas DEF OpenSet, At
  <1>2. list' \in [Groups -> Events \cup {NoEvent}]
    BY <1>1 DEF OpenSet, RowsTyped, Call
  <1>3. RowsTyped' /\ UNCHANGED <<auctionSeq, locks>>
    BY <1>1, <1>2, RowsWrite DEF rows, RowsTyped
  <1>4. call[p].step \in FreeSteps /\ "sync" \in FreeSteps \ {"close", "final"} /\ call[p].op = "open"
    BY <1>1 DEF FreeSteps, Works
  <1> QED BY <1>1, <1>3, <1>4, FreeGoto

LEMMA SyncReadSafe ==
  ASSUME ListSafe, NEW p \in Procs, SyncRead(p)
  PROVE  ListSafe'
  <1> DEFINE c == call[p]
             is == {i \in ItemsOf(c.event) : item[i] # "ABSENT" /\ AuctionsOf(i) = {}}
             d == [c EXCEPT !.step = "next", !.items = is]
  <1>1. /\ RowsTyped /\ c \in Call /\ c.step = "sync" /\ Works(c) /\ Exist(c)
        /\ To(p, d) /\ UNCHANGED <<rows, list, locks, bounds, history>>
    BY CallHas DEF SyncRead, At
  <1>2. RowsTyped' /\ UNCHANGED <<auctionSeq, locks>>
    BY <1>1, RowsKept DEF rows
  <1>3. is \subseteq Items  BY DEF ItemsOf
  <1> HIDE DEF is
  <1>4. /\ d \in Call /\ d.step = "next" /\ d.op = c.op /\ d.item = c.item
        /\ d.cards = c.cards /\ d.auction = c.auction
    BY <1>1, <1>3 DEF Call, CallStep
  <1> HIDE DEF d
  <1>5. c.step \in FreeSteps /\ d.step \in FreeSteps /\ c.op = "open"
    BY <1>1, <1>4 DEF FreeSteps, Works
  <1> QED BY <1>1, <1>2, <1>4, <1>5, FreeSafe DEF Exist

LEMMA CardsReadSafe ==
  ASSUME ListSafe, NEW p \in Procs, CardsRead(p)
  PROVE  ListSafe'
  <1> DEFINE c == call[p]
             cs == {a \in Listed(c.event) \cap Wanted(c) : Open(a) /\ ~auction[a].card}
             d == [c EXCEPT !.step = "card", !.cards = cs]
  <1>1. /\ RowsTyped /\ c \in Call /\ c.step = "cards" /\ Works(c) /\ Exist(c)
        /\ To(p, d) /\ UNCHANGED <<rows, list, locks, bounds, history>>
        /\ auctionSeq \in Nat
    BY CallHas DEF CardsRead, At
  <1>2. RowsTyped' /\ UNCHANGED <<auctionSeq, locks>>
    BY <1>1, RowsKept DEF rows
  <1>3. cs \subseteq AuctionIds /\ cs \subseteq 1 .. auctionSeq
    BY <1>1, OpenExists DEF Listed
  <1> HIDE DEF cs
  <1>4. /\ d \in Call /\ d.step = "card" /\ d.op = c.op /\ d.item = c.item
        /\ d.cards = cs /\ d.auction = c.auction
    BY <1>1, <1>3 DEF Call, CallStep
  <1> HIDE DEF c, d
  <1>5. Fits(d)  BY <1>1, <1>2, <1>3, <1>4 DEF Fits, Works, Exist, CardSteps
  <1>6. /\ InItemQueue(c) = InItemQueue(d) /\ UsesItem(d) \subseteq UsesItem(c)
        /\ InCardQueue(c) = InCardQueue(d) /\ UsesCard(d) \subseteq UsesCard(c)
    BY <1>1, <1>4 DEF InItemQueue, UsesItem, InCardQueue, UsesCard, ItemWork, CardSteps
  <1> QED BY <1>1, <1>2, <1>5, <1>6, PlainStep DEF c

LEMMA NextCardSafe ==
  ASSUME ListSafe, NEW p \in Procs, NextCard(p)
  PROVE  ListSafe'
  <1> DEFINE c == call[p]
  <1>1. /\ RowsTyped /\ c \in Call /\ c.step = "card" /\ Works(c) /\ Exist(c)
        /\ UNCHANGED <<rows, itemLock, bounds, history>>
        /\ ItemsGuarded /\ CardsGuarded /\ call \in [Procs -> Call]
        /\ auctionSeq \in Nat /\ auctionSeq <= MaxAuctions /\ MaxAuctions \in Nat
        /\ \A s : Goto(p, s) => To(p, [c EXCEPT !.step = s])
    BY CallHas DEF NextCard, At
  <1>2. c.op \in {"publish", "open", "start"} /\ InCardQueue(c) = {} /\ UsesCard(c) = {}
    BY <1>1 DEF Works, InCardQueue, UsesCard, CardSteps
  <1>3. ASSUME NEW a \in c.cards, cardLock' = Join(cardLock, a, p), UNCHANGED list,
               To(p, [c EXCEPT !.step = "fresh", !.auction = a])
        PROVE  ListSafe'
    <2> DEFINE d == [c EXCEPT !.step = "fresh", !.auction = a]
    <2>1. RowsTyped' /\ UNCHANGED auctionSeq /\ auctionSeq' >= auctionSeq
      BY <1>1, <1>3, RowsKept DEF rows
    <2>2. a \in 1 .. auctionSeq /\ a \in AuctionIds  BY <1>1, <1>3 DEF Exist, AuctionIds
    <2>3. /\ d \in Call /\ d.step = "fresh" /\ d.op = c.op /\ d.item = c.item
          /\ d.cards = c.cards /\ d.auction = a /\ To(p, d)
      BY <1>1, <1>3, <2>2 DEF Call, CallStep
    <2> HIDE DEF c, d
    <2>4. Fits(d)  BY <1>1, <1>2, <2>1, <2>2, <2>3 DEF Fits, Works, Exist, CardSteps
    <2>5. /\ InItemQueue(c) = InItemQueue(d) /\ UsesItem(d) \subseteq UsesItem(c)
          /\ InCardQueue(d) = {a} /\ UsesCard(d) = {}
      BY <1>1, <2>3 DEF InItemQueue, UsesItem, InCardQueue, UsesCard, ItemWork, CardSteps
    <2>6. ItemsGuarded'  BY <1>1, <2>3, <2>5, ItemsKept DEF c
    <2>7. CardsGuarded'  BY <1>1, <1>2, <1>3, <2>2, <2>3, <2>5, CardsJoined DEF c
    <2> QED BY <2>1, <2>3, <2>4, <2>6, <2>7, SafeStep
  <1>4. ASSUME UNCHANGED cardLock,
               list' = IF c.op = "start" THEN [list EXCEPT ![c.group] = c.event] ELSE list
        PROVE  RowsTyped' /\ UNCHANGED <<auctionSeq, locks>>
    <2>1. list' \in [Groups -> Events \cup {NoEvent}]  BY <1>1, <1>4 DEF RowsTyped, Call
    <2> QED BY <1>1, <1>4, <2>1, RowsWrite DEF rows, locks, RowsTyped
  <1>5. ASSUME c.op = "publish", Goto(p, "confirm"), RowsTyped', UNCHANGED <<auctionSeq, locks>>
        PROVE  ListSafe'
    <2> DEFINE d == [c EXCEPT !.step = "confirm"]
    <2>1. /\ d \in Call /\ d.step = "confirm" /\ d.op = c.op /\ d.item = c.item
          /\ d.cards = c.cards /\ d.auction = c.auction /\ To(p, d)
      BY <1>1, <1>5 DEF Call, CallStep
    <2> HIDE DEF c, d
    <2>2. Fits(d)  BY <1>1, <1>5, <2>1 DEF Fits, Works, Exist, CardSteps
    <2>3. /\ InItemQueue(c) = InItemQueue(d) /\ UsesItem(d) \subseteq UsesItem(c)
          /\ InCardQueue(c) = InCardQueue(d) /\ UsesCard(d) \subseteq UsesCard(c)
      BY <1>1, <1>5, <2>1 DEF InItemQueue, UsesItem, InCardQueue, UsesCard, ItemWork, CardSteps
    <2> QED BY <1>1, <1>5, <2>1, <2>2, <2>3, PlainStep DEF c
  <1>6. ASSUME c.op # "publish", Return(p), RowsTyped', UNCHANGED <<auctionSeq, locks>>
        PROVE  ListSafe'
    <2>1. NoLock(c)
      BY <1>1, <1>6 DEF NoLock, InItemQueue, UsesItem, InCardQueue, UsesCard, ItemWork, CardSteps
    <2> QED BY <1>6, <2>1, ReturnSafe
  <1> QED BY <1>3, <1>4, <1>5, <1>6 DEF NextCard

\* The holder of a card's lock goes on under it.
LEMMA CardHeldSafe ==
  ASSUME ListSafe, NEW p \in Procs, NEW s \in {"emit", "sent"}, Goto(p, s), RowsTyped',
         UNCHANGED <<auctionSeq, locks>>, call[p].step \in CardSteps,
         Holds(cardLock, call[p].auction, p)
  PROVE  ListSafe'
  <1> DEFINE c == call[p]  d == [c EXCEPT !.step = s]
  <1>1. /\ c \in Call /\ Works(c) /\ Exist(c) /\ ItemsGuarded /\ CardsGuarded
        /\ call \in [Procs -> Call] /\ auctionSeq' >= auctionSeq /\ To(p, d)
    BY CallHas
  <1>2. s \in CallStep  BY DEF CallStep
  <1>3. /\ d \in Call /\ d.step = s /\ d.op = c.op /\ d.item = c.item
        /\ d.cards = c.cards /\ d.auction = c.auction
    BY <1>1, <1>2, OnlyStep
  <1> HIDE DEF d
  <1>4. c.auction \in AuctionIds /\ c.op \in {"publish", "open", "start"}  BY <1>1 DEF Works
  <1>5. Fits(d)  BY <1>1, <1>3, <1>4 DEF Fits, Works, Exist, CardSteps
  <1>6. /\ InItemQueue(c) = InItemQueue(d) /\ UsesItem(d) \subseteq UsesItem(c)
        /\ InCardQueue(c) = InCardQueue(d) /\ UsesCard(d) = {c.auction}
    BY <1>3 DEF InItemQueue, UsesItem, InCardQueue, UsesCard, ItemWork, CardSteps
  <1>7. ItemsGuarded'  BY <1>1, <1>3, <1>6, ItemsKept DEF locks
  <1>8. CardsGuarded'  BY <1>1, <1>3, <1>4, <1>6, CardsKept DEF locks
  <1> QED BY <1>1, <1>5, <1>7, <1>8, SafeStep

LEMMA CardFreshSafe ==
  ASSUME ListSafe, NEW p \in Procs, CardFresh(p)
  PROVE  ListSafe'
  <1>1. /\ RowsTyped /\ call[p].step \in CardSteps /\ Holds(cardLock, call[p].auction, p)
        /\ CardDone(p) \/ (Goto(p, "emit") /\ UNCHANGED cardLock)
        /\ UNCHANGED <<rows, list, itemLock, bounds, history>>
    <2>1. RowsTyped  BY CallHas
    <2> QED BY <2>1 DEF CardFresh, At, CardSteps
  <1>2. RowsTyped' /\ UNCHANGED <<auctionSeq, itemLock>>  BY <1>1, RowsKept DEF rows
  <1> QED BY <1>1, <1>2, CardDoneSafe, CardHeldSafe DEF locks, CardFresh

LEMMA CardEmitSafe ==
  ASSUME ListSafe, NEW p \in Procs, CardEmit(p)
  PROVE  ListSafe'
  <1> DEFINE c == call[p]
  <1>1. /\ RowsTyped /\ Works(c) /\ c.step = "emit" /\ c.step \in CardSteps /\ CardsGuarded
        /\ UNCHANGED <<rows, list, itemLock, bounds, finals, unlocked>>
    BY CallHas DEF CardEmit, At, CardSteps
  <1>2. Holds(cardLock, c.auction, p)
    <2>1. UsesCard(c) = {c.auction}  BY <1>1 DEF UsesCard
    <2> QED BY <2>1, <1>1 DEF CardsGuarded, Guarded, CardUses
  <1>3. RowsTyped' /\ UNCHANGED <<auctionSeq, itemLock>>
    <2>1. delivered' \in [AuctionIds -> Nat]  BY <1>1 DEF CardEmit, RowsTyped
    <2> QED BY <1>1, <2>1 DEF RowsTyped, rows, bounds
  <1> QED BY <1>1, <1>2, <1>3, CardDoneSafe, CardHeldSafe DEF CardEmit, locks

LEMMA CardMarkSafe ==
  ASSUME ListSafe, NEW p \in Procs, CardMark(p)
  PROVE  ListSafe'
  <1> DEFINE c == call[p]
  <1>1. /\ RowsTyped /\ Works(c) /\ c.step = "sent" /\ c.step \in CardSteps /\ CardsGuarded
        /\ CardDone(p) /\ UNCHANGED <<auctionSeq, item, event, list, itemLock, bounds, history>>
        /\ auction' = [auction EXCEPT ![c.auction].card = TRUE]
    BY CallHas DEF CardMark, At, CardSteps
  <1>2. Holds(cardLock, c.auction, p)
    <2>1. UsesCard(c) = {c.auction}  BY <1>1 DEF UsesCard
    <2> QED BY <2>1, <1>1 DEF CardsGuarded, Guarded, CardUses
  <1>3. RowsTyped'
    <2>1. /\ auction' \in [AuctionIds -> AuctionRow]
          /\ \A a \in AuctionIds : auction'[a].status = auction[a].status
      BY <1>1 DEF RowsTyped, AuctionRow
    <2> QED BY <1>1, <2>1 DEF RowsTyped, bounds, history
  <1> QED BY <1>1, <1>2, <1>3, CardDoneSafe

-----------------------------------------------------------------------------
(***************************************************************************)
(* Closing, bids and the ticker.                                           *)
(***************************************************************************)
LEMMA CloseTyped ==
  ASSUME RowsTyped, NEW a \in AuctionIds, CloseIfOpen(a), UNCHANGED <<bounds, history>>,
         list' \in [Groups -> Events \cup {NoEvent}]
  PROVE  RowsTyped' /\ UNCHANGED <<auctionSeq, event>>
  <1>1. CASE CloseRow(a)
    <2> DEFINE r == [auction[a] EXCEPT !.status = "OVER"]
    <2>0. /\ auction' = [auction EXCEPT ![a] = r] /\ auction[a].status # "ABSENT"
          /\ auction \in [AuctionIds -> AuctionRow]
      BY <1>1 DEF CloseRow, Open, RowsTyped
    <2>a. r \in AuctionRow /\ r.status # "ABSENT"  BY <2>0 DEF AuctionRow
    <2> HIDE DEF r
    <2>1. /\ auction' \in [AuctionIds -> AuctionRow]
          /\ \A b \in AuctionIds : (auction'[b].status = "ABSENT") <=> (auction[b].status = "ABSENT")
      BY <2>0, <2>a
    <2>2. item' \in [Items -> ItemStatus]  BY <1>1 DEF CloseRow, RowsTyped, ItemStatus
    <2> QED BY <1>1, <2>1, <2>2 DEF CloseRow, RowsTyped, bounds, history
  <1>2. CASE UNCHANGED rows  BY <1>2 DEF RowsTyped, rows, bounds, history
  <1> QED BY <1>1, <1>2 DEF CloseIfOpen

LEMMA CloseNextSafe ==
  ASSUME ListSafe, NEW p \in Procs, CloseNext(p)
  PROVE  ListSafe'
  <1> DEFINE c == call[p]
  <1>1. /\ RowsTyped /\ c \in Call /\ c.step = "close" /\ Exist(c) /\ c.event \in Events
        /\ UNCHANGED <<list, locks, bounds, history>>
    BY CallHas DEF CloseNext, At, Works
  <1>2. PICK a \in c.cards : CloseIfOpen(a) /\ To(p, [c EXCEPT !.cards = @ \ {a}])
    BY DEF CloseNext
  <1> DEFINE d == [c EXCEPT !.cards = @ \ {a}]
  <1>3. a \in AuctionIds  BY <1>1, <1>2 DEF Call
  <1>4. RowsTyped' /\ UNCHANGED <<auctionSeq, locks>>
    BY <1>1, <1>2, <1>3, CloseTyped DEF RowsTyped
  <1>5. /\ d \in Call /\ d.step = "close" /\ d.op = c.op /\ d.item = c.item
        /\ d.cards = c.cards \ {a} /\ d.auction = c.auction /\ d.event = c.event /\ To(p, d)
    BY <1>1, <1>2 DEF Call
  <1> HIDE DEF d
  <1>6. "close" \in FreeSteps  BY DEF FreeSteps
  <1> QED BY <1>1, <1>4, <1>5, <1>6, FreeSafe DEF Exist

\* Only `!encerrar` has a step left after the announcements.
LEMMA EndOfCloseSafe ==
  ASSUME ListSafe, NEW p \in Procs, To(p, EndOfClose(call[p])), RowsTyped',
         UNCHANGED <<auctionSeq, locks>>, call[p].step \in FreeSteps
  PROVE  ListSafe'
  <1>1. \/ To(p, [call[p] EXCEPT !.step = "drop"])
        \/ Return(p)
    BY DEF EndOfClose, Return
  <1>2. CASE To(p, [call[p] EXCEPT !.step = "drop"])
    <2>1. Goto(p, "drop")  BY <1>2, CallHas DEF To, Goto
    <2>2. "drop" \in FreeSteps \ {"close", "final"}  BY DEF FreeSteps
    <2> QED BY <2>1, <2>2, FreeGoto
  <1> QED BY <1>1, <1>2, FreeReturn

LEMMA CloseEventSafe ==
  ASSUME ListSafe, NEW p \in Procs, CloseEvent(p)
  PROVE  ListSafe'
  <1> DEFINE c == call[p]  gs == {g \in Groups : list[g] = c.event}
             d == [c EXCEPT !.step = "final", !.groups = gs]
  <1>1. /\ RowsTyped /\ c \in Call /\ c.step = "close" /\ Exist(c) /\ c.event \in Events
        /\ UNCHANGED <<auction, auctionSeq, item, list, locks, bounds, history>>
        /\ event' \in [Events -> {"OPEN", "CLOSED"}]
    BY CallHas DEF CloseEvent, At, RowsTyped, Works
  <1>2. RowsTyped'  BY <1>1, RowsWrite DEF RowsTyped
  <1>3. "close" \in FreeSteps /\ "final" \in FreeSteps  BY DEF FreeSteps
  <1>4. CASE To(p, d)
    <2>1. /\ d \in Call /\ d.step = "final" /\ d.op = c.op /\ d.item = c.item
          /\ d.cards = c.cards /\ d.auction = c.auction /\ d.event = c.event
      BY <1>1 DEF Call, CallStep
    <2> HIDE DEF d
    <2> QED BY <1>1, <1>2, <1>3, <1>4, <2>1, FreeSafe DEF Exist
  <1>5. CASE To(p, EndOfClose(c))  BY <1>1, <1>2, <1>3, <1>5, EndOfCloseSafe
  <1> QED BY <1>4, <1>5 DEF CloseEvent

LEMMA CloseFinalSafe ==
  ASSUME ListSafe, NEW p \in Procs, CloseFinal(p)
  PROVE  ListSafe'
  <1> DEFINE c == call[p]
  <1>1. /\ RowsTyped /\ c \in Call /\ c.step = "final" /\ Exist(c) /\ c.event \in Events
        /\ UNCHANGED <<rows, locks, bounds, delivered, unlocked>>
    BY CallHas DEF CloseFinal, At, Works
  <1>2. RowsTyped' /\ UNCHANGED <<auctionSeq, locks>>
    <2>1. list' \in [Groups -> Events \cup {NoEvent}]  BY <1>1 DEF CloseFinal, RowsTyped
    <2>2. finals' \in [Groups -> [Events -> Nat]]
      <3>1. ASSUME NEW g \in Groups, finals' = [finals EXCEPT ![g][c.event] = @ + 1]
            PROVE  finals' \in [Groups -> [Events -> Nat]]
        BY <1>1, <3>1 DEF RowsTyped
      <3>2. \A g \in c.groups : g \in Groups  BY <1>1 DEF Call
      <3> QED BY <1>1, <3>1, <3>2 DEF CloseFinal, RowsTyped
    <2> QED BY <1>1, <2>1, <2>2 DEF RowsTyped, rows, bounds
  <1>3. "final" \in FreeSteps  BY DEF FreeSteps
  <1>4. ASSUME NEW g \in c.groups, To(p, [c EXCEPT !.groups = @ \ {g}]) PROVE ListSafe'
    <2> DEFINE d == [c EXCEPT !.groups = @ \ {g}]
    <2>1. /\ d \in Call /\ d.step = "final" /\ d.op = c.op /\ d.item = c.item
          /\ d.cards = c.cards /\ d.auction = c.auction /\ d.event = c.event /\ To(p, d)
      BY <1>1, <1>4 DEF Call
    <2> HIDE DEF d
    <2> QED BY <1>1, <1>2, <1>3, <2>1, FreeSafe DEF Exist
  <1>5. CASE To(p, EndOfClose(c))  BY <1>1, <1>2, <1>3, <1>5, EndOfCloseSafe
  <1> QED BY <1>4, <1>5 DEF CloseFinal

LEMMA DropListSafe ==
  ASSUME ListSafe, NEW p \in Procs, DropList(p)
  PROVE  ListSafe'
  <1>1. /\ RowsTyped /\ call[p].step \in FreeSteps /\ Return(p)
        /\ UNCHANGED <<rows, locks, bounds, history>>
    BY CallHas DEF DropList, At, FreeSteps
  <1>2. list' \in [Groups -> Events \cup {NoEvent}]  BY <1>1 DEF DropList, RowsTyped
  <1>3. RowsTyped' /\ UNCHANGED <<auctionSeq, locks>>
    BY <1>1, <1>2, RowsWrite DEF rows, RowsTyped
  <1> QED BY <1>1, <1>3, FreeReturn

LEMMA BidSafe ==
  ASSUME ListSafe, NEW p \in Procs, BidCommit(p) \/ BidReturn(p)
  PROVE  ListSafe'
  <1>1. /\ RowsTyped /\ call[p] \in Call /\ call[p].step \in FreeSteps /\ "placed" \in FreeSteps
        /\ Goto(p, "placed") \/ Return(p)
        /\ UNCHANGED <<rows, locks, bounds, history>>
    BY CallHas DEF BidCommit, BidReturn, At, FreeSteps
  <1>2. list' \in [Groups -> Events \cup {NoEvent}]
    BY <1>1 DEF BidCommit, BidReturn, PutBack, RowsTyped, Call
  <1>3. RowsTyped' /\ UNCHANGED <<auctionSeq, locks>>
    BY <1>1, <1>2, RowsWrite DEF rows, RowsTyped
  <1> QED BY <1>1, <1>3, FreeReturn, FreeGoto

LEMMA TickSafe ==
  ASSUME ListSafe, NEW p \in Procs, TickRefresh(p) \/ TickRow(p)
  PROVE  ListSafe'
  <1> DEFINE c == call[p]
  <1>1. /\ RowsTyped /\ c \in Call /\ Exist(c) /\ c.step \in {"refresh", "rows"}
        /\ c.step \in FreeSteps /\ "rows" \in FreeSteps /\ PutBack(p)
        /\ UNCHANGED <<locks, bounds, history>>
    BY CallHas DEF TickRefresh, TickRow, At, FreeSteps
  <1>2. list' \in [Groups -> Events \cup {NoEvent}]  BY <1>1 DEF PutBack, RowsTyped, Call
  <1>3. CASE TickRefresh(p)
    <2>1. PICK due \in SUBSET {a \in Listed(c.event) : Open(a) /\ auction[a].item \in Timed} :
              To(p, [c EXCEPT !.step = "rows", !.cards = due])
      BY <1>3 DEF TickRefresh
    <2> DEFINE d == [c EXCEPT !.step = "rows", !.cards = due]
    <2>2. due \subseteq AuctionIds /\ due \subseteq 1 .. auctionSeq
      BY <1>1, OpenExists DEF Listed
    <2>3. RowsTyped' /\ UNCHANGED auctionSeq
      BY <1>1, <1>2, <1>3, RowsWrite DEF TickRefresh, rows, RowsTyped
    <2>4. /\ d \in Call /\ d.step = "rows" /\ d.op = c.op /\ d.item = c.item
          /\ d.cards = due /\ d.auction = c.auction /\ To(p, d)
      BY <1>1, <2>1, <2>2 DEF Call, CallStep
    <2> HIDE DEF d
    <2> QED BY <1>1, <2>2, <2>3, <2>4, FreeSafe DEF Exist
  <1>4. ASSUME TickRow(p), NEW a \in c.cards, CloseIfOpen(a), To(p, [c EXCEPT !.cards = @ \ {a}])
        PROVE  ListSafe'
    <2> DEFINE d == [c EXCEPT !.cards = @ \ {a}]
    <2>1. a \in AuctionIds  BY <1>1, <1>4 DEF Call
    <2>2. RowsTyped' /\ UNCHANGED auctionSeq  BY <1>1, <1>2, <1>4, <2>1, CloseTyped
    <2>3. /\ d \in Call /\ d.step = c.step /\ d.op = c.op /\ d.item = c.item
          /\ d.cards = c.cards \ {a} /\ d.auction = c.auction /\ To(p, d)
      BY <1>1, <1>4 DEF Call
    <2> HIDE DEF d
    <2> QED BY <1>1, <2>2, <2>3, FreeSafe DEF Exist
  <1>5. CASE TickRow(p) /\ Return(p) /\ UNCHANGED rows
    <2>1. RowsTyped' /\ UNCHANGED auctionSeq
      BY <1>1, <1>2, <1>5, RowsWrite DEF rows, RowsTyped
    <2> QED BY <1>1, <1>5, <2>1, FreeReturn
  <1> QED BY <1>3, <1>4, <1>5 DEF TickRow

-----------------------------------------------------------------------------
(***************************************************************************)
(* Throw, and what is no call's step.                                      *)
(***************************************************************************)
LEMMA ThrowSafe ==
  ASSUME ListSafe, NEW p \in Procs, Throw(p)
  PROVE  ListSafe'
  <1>1. /\ RowsTyped /\ ItemsGuarded /\ CardsGuarded /\ call \in [Procs -> Call]
        /\ auctionSeq \in Nat /\ To(p, Idle)
        /\ UNCHANGED <<rows, list, crashes, statusEdits, history>>
    BY CallHas DEF Throw, Return
  <1>2. RowsTyped' /\ UNCHANGED auctionSeq
    <2>1. failures' \in 0 .. MaxFailures
      BY <1>1, ListAssumption DEF Throw, RowsTyped
    <2> QED BY <1>1, <2>1 DEF RowsTyped, rows, history
  <1>3. Fits(Idle) /\ NoLock(Idle)  BY <1>1, <1>2, IdleFits DEF Fits
  <1>4. /\ Others(p, ItemWants, ItemWants') /\ Others(p, ItemUses, ItemUses')
        /\ Others(p, CardWants, CardWants') /\ Others(p, CardUses, CardUses')
        /\ ItemUses'[p] = {} /\ CardUses'[p] = {}
    BY <1>1, <1>3, CallMoves, IdleFits DEF NoLock
  <1>5. Departs(itemLock, itemLock', Items, p) /\ Departs(cardLock, cardLock', AuctionIds, p)
    BY DEF Throw, Waiting, Departs
  <1>6. Guarded(itemLock', Items, ItemWants', ItemUses')
    BY <1>1, <1>4, <1>5, LockLeft DEF ItemsGuarded
  <1>7. Guarded(cardLock', AuctionIds, CardWants', CardUses')
    BY <1>1, <1>4, <1>5, LockLeft DEF CardsGuarded
  <1>8. ItemsGuarded' /\ CardsGuarded'
    BY <1>6, <1>7 DEF ItemsGuarded, CardsGuarded, Guarded, Holds, AuctionIds
  <1> QED BY <1>1, <1>2, <1>3, <1>8, SafeStep

\* A step that leaves the calls and the locks alone.
LEMMA CallsKept ==
  ASSUME ListSafe, RowsTyped', UNCHANGED <<auctionSeq, locks, call>>
  PROVE  ListSafe'
  <1>1. /\ ItemWants' = ItemWants /\ ItemUses' = ItemUses
        /\ CardWants' = CardWants /\ CardUses' = CardUses
    BY DEF ItemWants, ItemUses, CardWants, CardUses, InItemQueue, UsesItem, InCardQueue,
           UsesCard, ItemWork
  <1>2. ItemsGuarded' /\ CardsGuarded'
    BY <1>1 DEF ListSafe, ItemsGuarded, CardsGuarded, Guarded, Holds, locks, AuctionIds
  <1>3. \A q \in Procs : Works(call[q])' /\ Exist(call[q])'
    BY DEF ListSafe, Works, Exist
  <1> QED BY <1>2, <1>3 DEF ListSafe, ItemsGuarded, CardsGuarded

LEMMA CloseItemSafe ==
  ASSUME ListSafe, NEW a \in AuctionIds, CloseItem(a)
  PROVE  ListSafe'
  <1>1. CloseIfOpen(a) /\ RowsTyped /\ UNCHANGED <<list, locks, call, bounds, history>>
    BY DEF CloseItem, CloseIfOpen, ListSafe
  <1>2. RowsTyped' /\ UNCHANGED auctionSeq  BY <1>1, CloseTyped DEF RowsTyped
  <1> QED BY <1>1, <1>2, CallsKept

LEMMA EditSafe ==
  ASSUME ListSafe, NEW e \in Events, EditEventStatus(e)
  PROVE  ListSafe'
  <1>1. RowsTyped /\ UNCHANGED <<auction, auctionSeq, item, list, locks, call, crashes, failures, history>>
    BY DEF EditEventStatus, ListSafe
  <1>2. statusEdits' \in 0 .. MaxStatusEdits /\ event' \in [Events -> {"OPEN", "CLOSED"}]
    BY <1>1, ListAssumption DEF EditEventStatus, RowsTyped
  <1>3. RowsTyped'  BY <1>1, <1>2 DEF RowsTyped, history
  <1> QED BY <1>1, <1>3, CallsKept

\* No call and no queue, with the tables as they are.
LEMMA FreshSafe ==
  ASSUME RowsTyped, call = [p \in Procs |-> Idle], itemLock = [i \in Items |-> <<>>],
         cardLock = [a \in AuctionIds |-> <<>>]
  PROVE  ListSafe
  <1>1. /\ Idle \in Call /\ NoLock(Idle) /\ Works(Idle) /\ Idle.cards = {} /\ Idle.auction = 0
        /\ auctionSeq \in Nat
    BY IdleFits DEF RowsTyped
  <1>2. \A q \in Procs : call[q] = Idle /\ ItemUses[q] = {} /\ CardUses[q] = {}
    BY <1>1 DEF ItemUses, CardUses, NoLock
  <1>3. Guarded(itemLock, Items, ItemWants, ItemUses)  BY <1>2, LockEmpty
  <1>4. Guarded(cardLock, AuctionIds, CardWants, CardUses)  BY <1>2, LockEmpty
  <1>5. \A q \in Procs : Works(call[q]) /\ Exist(call[q])  BY <1>1, <1>2 DEF Exist
  <1> QED BY <1>1, <1>3, <1>4, <1>5 DEF ListSafe

LEMMA RestartSafe ==
  ASSUME ListSafe, Restart
  PROVE  ListSafe'
  <1>1. RowsTyped'
    <2>1. crashes' \in 0 .. MaxCrashes /\ list' \in [Groups -> Events \cup {NoEvent}]
      BY ListAssumption DEF Restart, ListSafe, RowsTyped
    <2> QED BY <2>1 DEF Restart, ListSafe, RowsTyped, rows, history
  <1>2. /\ call' = [p \in Procs |-> Idle] /\ itemLock' = [i \in Items |-> <<>>]
        /\ cardLock' = [a \in AuctionIds |-> <<>>]
    BY DEF Restart
  <1>3. /\ Idle \in Call /\ NoLock(Idle) /\ Works(Idle) /\ Idle.cards = {} /\ Idle.auction = 0
        /\ auctionSeq' \in Nat
    BY <1>1, IdleFits DEF RowsTyped
  <1>4. \A q \in Procs : call'[q] = Idle /\ ItemUses'[q] = {} /\ CardUses'[q] = {}
    BY <1>2, <1>3 DEF ItemUses, CardUses, NoLock, UsesItem, UsesCard, ItemWork
  <1>5. Guarded(itemLock', Items, ItemWants', ItemUses')  BY <1>2, <1>4, LockEmpty
  <1>6. Guarded(cardLock', AuctionIds, CardWants', CardUses')  BY <1>2, <1>4, LockEmpty
  <1>7. ItemsGuarded' /\ CardsGuarded'
    BY <1>5, <1>6 DEF ItemsGuarded, CardsGuarded, Guarded, Holds, AuctionIds
  <1>8. \A q \in Procs : Works(call[q])' /\ Exist(call[q])'  BY <1>3, <1>4 DEF Works, Exist
  <1>9. call' \in [Procs -> Call]  BY <1>2, <1>3
  <1> QED BY <1>1, <1>7, <1>8, <1>9 DEF ListSafe, ItemsGuarded, CardsGuarded

LEMMA StepSafe ==
  ASSUME ListSafe, NEW p \in Procs, Step(p)
  PROVE  ListSafe'
  BY CreateSafe, MarkSafe, AddItemSafe, PublishReadSafe, PublishJoinSafe, PublishFindSafe,
     PublishConfirmSafe, OpenCheckSafe, OpenSetSafe, SyncReadSafe, NextItemSafe, SyncFindSafe,
     CardsReadSafe, NextCardSafe, CardFreshSafe, CardEmitSafe, CardMarkSafe, CloseNextSafe,
     CloseEventSafe, CloseFinalSafe, DropListSafe, BidSafe, TickSafe, ThrowSafe DEF Step

LEMMA InitSafe ==
  ASSUME Init
  PROVE  ListSafe
  <1>1. RowsTyped
    <2>1. Absent \in AuctionRow /\ Absent.status = "ABSENT"  BY DEF Absent, AuctionRow
    <2> QED BY <2>1, ListAssumption DEF Init, RowsTyped, AuctionIds, ItemStatus
  <1> QED BY <1>1, FreshSafe DEF Init

LEMMA NextSafe ==
  ASSUME ListSafe, [Next]_vars
  PROVE  ListSafe'
  <1>1. CASE UNCHANGED vars
    <2>1. RowsTyped'  BY <1>1, RowsKept DEF vars, ListSafe
    <2> QED BY <1>1, <2>1, CallsKept DEF vars, rows
  <1>2. CASE Next
    BY <1>2, StepSafe, RequestSafe, CloseItemSafe, EditSafe, RestartSafe DEF Next
  <1> QED BY <1>1, <1>2

LEMMA ListIsSafe == Spec => []ListSafe
  <1>1. Init => ListSafe  BY InitSafe
  <1>2. ListSafe /\ [Next]_vars => ListSafe'  BY NextSafe
  <1> QED BY <1>1, <1>2, PTL DEF Spec

\* What is queued under a key is at work on it.
LEMMA SafeIsTyped == ListSafe => ListTypeOK
  <1> SUFFICES ASSUME ListSafe PROVE ListTypeOK  OBVIOUS
  <1>1. ASSUME NEW i \in Items
        PROVE  /\ itemLock[i] \in Seq(Procs)
               /\ \A n \in DOMAIN itemLock[i] : call[itemLock[i][n]].item = i
    <2>1. /\ itemLock[i] \in Seq(Procs)
          /\ \A q \in Members(itemLock[i]) : i \in ItemWants[q]
      BY DEF ListSafe, Guarded
    <2>2. ASSUME NEW n \in DOMAIN itemLock[i] PROVE call[itemLock[i][n]].item = i
      <3>1. itemLock[i][n] \in Procs /\ itemLock[i][n] \in Members(itemLock[i])
        BY <2>1 DEF Members
      <3> QED BY <2>1, <3>1 DEF ItemWants, InItemQueue
    <2> QED BY <2>1, <2>2
  <1>2. ASSUME NEW a \in AuctionIds
        PROVE  /\ cardLock[a] \in Seq(Procs)
               /\ \A n \in DOMAIN cardLock[a] : call[cardLock[a][n]].auction = a
    <2>1. /\ cardLock[a] \in Seq(Procs)
          /\ \A q \in Members(cardLock[a]) : a \in CardWants[q]
      BY DEF ListSafe, Guarded
    <2>2. ASSUME NEW n \in DOMAIN cardLock[a] PROVE call[cardLock[a][n]].auction = a
      <3>1. cardLock[a][n] \in Procs /\ cardLock[a][n] \in Members(cardLock[a])
        BY <2>1 DEF Members
      <3> QED BY <2>1, <3>1 DEF CardWants, InCardQueue
    <2> QED BY <2>1, <2>2
  <1> QED BY <1>1, <1>2 DEF ListSafe, RowsTyped, ListTypeOK

(***************************************************************************)
(* Rows, calls and queues have their types, and a queue holds only calls   *)
(* that are at work on its key (withLock, AuctionEngine), for any number   *)
(* of groups, events, items and calls.                                     *)
(***************************************************************************)
THEOREM ListTypeCorrect == Spec => []ListTypeOK
  BY ListIsSafe, SafeIsTyped, PTL

-----------------------------------------------------------------------------
(***************************************************************************)
(* Most steps concern none of what follows: they create no auction, send   *)
(* or mark no card, end no event.                                          *)
(***************************************************************************)
RowsAlike == /\ UNCHANGED <<auctionSeq, event, bounds, history>>
             /\ \A a \in AuctionIds : /\ auction'[a].item = auction[a].item
                                      /\ auction'[a].card = auction[a].card

Quiet(p) ==
    /\ RowsAlike
    /\ \A q \in Procs \ {p} : call'[q] = call[q]
    /\ call[p].step \notin {"sent", "final"} /\ call'[p].step \notin {"emit", "sent", "final"}
    /\ call'[p].step = "create" => \/ call'[p].op \in {"start", "single"}
                                   \/ AuctionsOf(call'[p].item) = {}

Loud(p) == CreateAuction(p) \/ CardFresh(p) \/ CardEmit(p) \/ CardMark(p)
           \/ CloseEvent(p) \/ CloseFinal(p) \/ Throw(p)

\* Where a call goes when it moves.
LEMMA Moves ==
  ASSUME ListSafe, NEW p \in Procs
  PROVE  /\ \A d : To(p, d) => call'[p] = d /\ \A q \in Procs \ {p} : call'[q] = call[q]
         /\ \A d : Begin(p, d) => To(p, d) /\ call[p] = Idle
         /\ \A s : Goto(p, s) => /\ call'[p].step = s /\ call'[p].op = call[p].op
                                 /\ call'[p].item = call[p].item
                                 /\ \A q \in Procs \ {p} : call'[q] = call[q]
         /\ Return(p) => /\ call'[p] = Idle /\ call'[p].step = "idle"
                         /\ \A q \in Procs \ {p} : call'[q] = call[q]
  <1>1. call \in [Procs -> Call]  BY DEF ListSafe
  <1>2. ASSUME NEW d, To(p, d) PROVE call'[p] = d /\ \A q \in Procs \ {p} : call'[q] = call[q]
    BY <1>1, <1>2 DEF To
  <1>3. ASSUME NEW d, Begin(p, d) PROVE To(p, d) /\ call[p] = Idle
    BY <1>3 DEF Begin, To
  <1>4. ASSUME NEW s, Goto(p, s)
        PROVE  /\ call'[p].step = s /\ call'[p].op = call[p].op
               /\ call'[p].item = call[p].item
               /\ \A q \in Procs \ {p} : call'[q] = call[q]
    <2> DEFINE d == [call[p] EXCEPT !.step = s]
    <2>1. call' = [call EXCEPT ![p] = d]  BY <1>4 DEF Goto
    <2>2. d.step = s /\ d.op = call[p].op /\ d.item = call[p].item  BY <1>1 DEF Call
    <2> HIDE DEF d
    <2> QED BY <1>1, <2>1, <2>2
  <1>5. Idle.step = "idle"  BY DEF Idle
  <1>6. ASSUME Return(p) PROVE /\ call'[p] = Idle
                               /\ \A q \in Procs \ {p} : call'[q] = call[q]
    BY <1>2, <1>6 DEF Return
  <1> QED BY <1>2, <1>3, <1>4, <1>5, <1>6

LEMMA ClosedAlike ==
  ASSUME ListSafe, NEW a \in AuctionIds, CloseIfOpen(a), UNCHANGED <<bounds, history>>
  PROVE  RowsAlike
  BY DEF ListSafe, RowsTyped, CloseIfOpen, CloseRow, RowsAlike, rows, AuctionRow

LEMMA QuietRequests ==
  ASSUME ListSafe, NEW p \in Procs, Request(p)
  PROVE  Quiet(p)
  <1> USE Moves
  <1>1. UNCHANGED <<rows, bounds, history>>
    BY DEF Request, AddItemCheck, StartSingle, CloseFromPanel, OpenFind, ChatStart, ChatCancel,
           TickVisit, BidRead
  <1>2. RowsAlike  BY <1>1 DEF RowsAlike, rows
  <1>3. ASSUME NEW d, Begin(p, d), d.step \notin {"emit", "sent", "final"},
               d.step = "create" => d.op = "single"
        PROVE  Quiet(p)
    <2>1. call'[p] = d /\ \A q \in Procs \ {p} : call'[q] = call[q]  BY <1>3
    <2>2. call[p].step = "idle"  BY <1>3 DEF Idle
    <2> QED BY <1>2, <1>3, <2>1, <2>2 DEF Quiet
  <1>4. ASSUME NEW i \in Items, AddItemCheck(p, i) PROVE Quiet(p)
    <2> DEFINE d == [Idle EXCEPT !.op = "publish", !.step = "add", !.item = i, !.event = EventOf[i]]
    <2>1. Begin(p, d) /\ d.step = "add"  BY <1>4 DEF AddItemCheck, Idle
    <2> QED BY <1>3, <2>1
  <1>5. ASSUME NEW i \in Items, NEW g \in Groups, StartSingle(p, i, g) PROVE Quiet(p)
    <2> DEFINE d == [Idle EXCEPT !.op = "single", !.step = "create", !.item = i, !.group = g,
                                 !.event = EventOf[i]]
    <2>1. Begin(p, d) /\ d.step = "create" /\ d.op = "single"  BY <1>5 DEF StartSingle, Idle
    <2> QED BY <1>3, <2>1
  <1>6. ASSUME NEW e \in Events, CloseFromPanel(p, e) PROVE Quiet(p)
    <2> DEFINE d == [Idle EXCEPT !.op = "close", !.step = "close", !.event = e,
                                 !.cards = {a \in Listed(e) : Open(a)}]
    <2>1. Begin(p, d) /\ d.step = "close"  BY <1>6 DEF CloseFromPanel, Idle
    <2> QED BY <1>3, <2>1
  <1>7. ASSUME NEW e \in Events, NEW g \in Groups, OpenFind(p, e, g) PROVE Quiet(p)
    <2>1. PICK h \in Groups, s \in {"sync", "check"} :
              Begin(p, [Idle EXCEPT !.op = "open", !.step = s, !.event = e, !.group = h])
      BY <1>7 DEF OpenFind
    <2> DEFINE d == [Idle EXCEPT !.op = "open", !.step = s, !.event = e, !.group = h]
    <2>2. Begin(p, d) /\ d.step = s  BY <2>1 DEF Idle
    <2> QED BY <1>3, <2>2
  <1>8. ASSUME NEW e \in Events, NEW g \in Groups, ChatStart(p, e, g) PROVE Quiet(p)
    <2> DEFINE d == [Idle EXCEPT !.op = "start", !.step = "next", !.event = e, !.group = g,
                                 !.items = {i \in ItemsOf(e) : item[i] # "ABSENT"}]
    <2>1. Begin(p, d) /\ d.step = "next"  BY <1>8 DEF ChatStart, Idle
    <2> QED BY <1>3, <2>1
  <1>9. ASSUME NEW g \in Groups, ChatCancel(p, g) PROVE Quiet(p)
    <2> DEFINE d == [Idle EXCEPT !.op = "cancel", !.step = "close", !.event = list[g], !.group = g,
                                 !.cards = {a \in Listed(list[g]) : Open(a)}]
    <2>1. Begin(p, d) /\ d.step = "close"  BY <1>9 DEF ChatCancel, Idle
    <2> QED BY <1>3, <2>1
  <1>10. ASSUME NEW g \in Groups, TickVisit(p, g) PROVE Quiet(p)
    <2> DEFINE d == [Idle EXCEPT !.op = "tick", !.step = "refresh", !.event = list[g], !.group = g]
    <2>1. Begin(p, d) /\ d.step = "refresh"  BY <1>10 DEF TickVisit, Idle
    <2> QED BY <1>3, <2>1
  <1>11. ASSUME NEW g \in Groups, NEW a \in AuctionIds, BidRead(p, g, a) PROVE Quiet(p)
    <2> DEFINE d == [Idle EXCEPT !.op = "bid", !.step = "bid", !.event = list[g], !.group = g,
                                 !.auction = a]
    <2>1. Begin(p, d) /\ d.step = "bid"  BY <1>11 DEF BidRead, Idle
    <2> QED BY <1>3, <2>1
  <1> QED BY <1>4, <1>5, <1>6, <1>7, <1>8, <1>9, <1>10, <1>11 DEF Request

\* One step of a call that is not loud, from its guard and its target.
LEMMA QuietTo ==
  ASSUME ListSafe, NEW p \in Procs, RowsAlike, call[p].step \notin {"sent", "final"},
         NEW d, To(p, d), d.step \notin {"emit", "sent", "final"},
         d.step = "create" => \/ d.op \in {"start", "single"}
                              \/ AuctionsOf(d.item) = {}
  PROVE  Quiet(p)
  <1>1. call'[p] = d /\ \A q \in Procs \ {p} : call'[q] = call[q]  BY Moves
  <1> QED BY <1>1 DEF Quiet

LEMMA QuietGoto ==
  ASSUME ListSafe, NEW p \in Procs, RowsAlike, call[p].step \notin {"sent", "final"},
         NEW s, Goto(p, s), s \notin {"emit", "sent", "final"},
         s = "create" => AuctionsOf(call[p].item) = {}
  PROVE  Quiet(p)
  BY Moves DEF Quiet

LEMMA QuietReturn ==
  ASSUME ListSafe, NEW p \in Procs, RowsAlike, call[p].step \notin {"sent", "final"}, Return(p)
  PROVE  Quiet(p)
  BY Moves DEF Quiet

LEMMA QuietSteps ==
  ASSUME ListSafe, NEW p \in Procs, Step(p), ~Loud(p)
  PROVE  Quiet(p)
  <1> DEFINE c == call[p]
  <1>0. c \in Call /\ Works(c) /\ Exist(c)  BY CallHas
  <1>1. ASSUME UNCHANGED <<auction, auctionSeq, event, bounds, history>> PROVE RowsAlike
    BY <1>1 DEF RowsAlike
  <1>2. CASE MarkItem(p)
    <2>1. RowsAlike /\ c.step = "mark" /\ c.op \in {"publish", "open", "start", "single"}
      BY <1>0, <1>1, <1>2 DEF MarkItem, At, Works
    <2> DEFINE d == [c EXCEPT !.step = "next", !.items = @ \ {c.item}]
    <2>2. d.step = "next"  BY <1>0 DEF Call
    <2>3. Goto(p, "cards") \/ To(p, d) \/ Return(p)  BY <1>2, <2>1 DEF MarkItem
    <2> HIDE DEF d
    <2> QED BY <2>1, <2>2, <2>3, QuietGoto, QuietTo, QuietReturn
  <1>3. CASE AddItem(p)
    <2>1. RowsAlike /\ c.step = "add" /\ Goto(p, "read")  BY <1>1, <1>3 DEF AddItem, At
    <2> QED BY <2>1, QuietGoto
  <1>4. CASE PublishRead(p)
    <2> DEFINE d == [c EXCEPT !.step = "list", !.free = item[c.item] = "AVAILABLE"]
    <2>1. RowsAlike /\ c.step = "read"  BY <1>1, <1>4 DEF PublishRead, At, rows
    <2>2. d.step = "list"  BY <1>0 DEF Call
    <2>3. To(p, d) \/ Return(p)  BY <1>4 DEF PublishRead
    <2> HIDE DEF d
    <2> QED BY <2>1, <2>2, <2>3, QuietTo, QuietReturn
  <1>5. CASE PublishJoin(p)
    <2>1. RowsAlike /\ c.step = "list"  BY <1>1, <1>5 DEF PublishJoin, At, rows
    <2>2. ASSUME NEW g \in Groups, To(p, [c EXCEPT !.step = "find", !.group = g]) PROVE Quiet(p)
      <3> DEFINE d == [c EXCEPT !.step = "find", !.group = g]
      <3>1. To(p, d) /\ d.step = "find"  BY <1>0, <2>2 DEF Call
      <3> HIDE DEF d
      <3> QED BY <2>1, <3>1, QuietTo
    <2> QED BY <1>5, <2>1, <2>2, QuietReturn DEF PublishJoin
  <1>6. CASE PublishFind(p)
    <2>1. RowsAlike /\ c.step = "find"  BY <1>1, <1>6 DEF PublishFind, At, rows
    <2>2. ASSUME NEW a, To(p, [c EXCEPT !.step = "cards", !.auction = a]) PROVE Quiet(p)
      <3> DEFINE d == [c EXCEPT !.step = "cards", !.auction = a]
      <3>1. To(p, d) /\ d.step = "cards"  BY <1>0, <2>2 DEF Call
      <3> HIDE DEF d
      <3> QED BY <2>1, <3>1, QuietTo
    <2> QED BY <1>6, <2>1, <2>2, QuietReturn, QuietGoto DEF PublishFind
  <1>7. CASE SyncFind(p)
    <2> DEFINE d == [c EXCEPT !.step = "next", !.items = @ \ {c.item}]
    <2>1. RowsAlike /\ c.step = "find"  BY <1>1, <1>7 DEF SyncFind, At, rows
    <2>2. d.step = "next"  BY <1>0 DEF Call
    <2>3. (AuctionsOf(c.item) = {} /\ Goto(p, "create")) \/ To(p, d)  BY <1>7 DEF SyncFind
    <2> HIDE DEF d
    <2> QED BY <2>1, <2>2, <2>3, QuietTo, QuietGoto
  <1>8. CASE NextItem(p)
    <2>1. RowsAlike /\ c.step = "next" /\ c.op \in {"open", "start"}
      BY <1>0, <1>1, <1>8 DEF NextItem, At, rows, Works
    <2>2. ASSUME NEW i, To(p, [c EXCEPT !.step = "find", !.item = i]) PROVE Quiet(p)
      <3> DEFINE d == [c EXCEPT !.step = "find", !.item = i]
      <3>1. To(p, d) /\ d.step = "find"  BY <1>0, <2>2 DEF Call
      <3> HIDE DEF d
      <3> QED BY <2>1, <3>1, QuietTo
    <2>3. ASSUME NEW i, c.op = "start", To(p, [c EXCEPT !.step = "create", !.item = i])
          PROVE  Quiet(p)
      <3> DEFINE d == [c EXCEPT !.step = "create", !.item = i]
      <3>1. To(p, d) /\ d.step = "create" /\ d.op = "start"  BY <1>0, <2>3 DEF Call
      <3> HIDE DEF d
      <3> QED BY <2>1, <3>1, QuietTo
    <2> QED BY <1>8, <2>1, <2>2, <2>3, QuietGoto DEF NextItem
  <1>9. CASE PublishConfirm(p)
    <2>1. RowsAlike /\ c.step = "confirm" /\ Return(p)  BY <1>1, <1>9 DEF PublishConfirm, At, rows
    <2> QED BY <2>1, QuietReturn
  <1>10. CASE OpenCheck(p) \/ OpenSet(p) \/ DropList(p) \/ BidCommit(p) \/ BidReturn(p)
    <2>1. /\ RowsAlike /\ c.step \in {"check", "set", "drop", "bid", "placed"}
          /\ Goto(p, "set") \/ Goto(p, "sync") \/ Goto(p, "placed") \/ Return(p)
      BY <1>1, <1>10 DEF OpenCheck, OpenSet, DropList, BidCommit, BidReturn, At, rows
    <2> QED BY <2>1, QuietReturn, QuietGoto
  <1>11. CASE SyncRead(p)
    <2> DEFINE is == {i \in ItemsOf(c.event) : item[i] # "ABSENT" /\ AuctionsOf(i) = {}}
               d == [c EXCEPT !.step = "next", !.items = is]
    <2>1. RowsAlike /\ c.step = "sync" /\ To(p, d)  BY <1>1, <1>11 DEF SyncRead, At, rows
    <2> HIDE DEF is
    <2>2. d.step = "next"  BY <1>0 DEF Call
    <2> HIDE DEF d
    <2> QED BY <2>1, <2>2, QuietTo
  <1>12. CASE CardsRead(p)
    <2> DEFINE cs == {a \in Listed(c.event) \cap Wanted(c) : Open(a) /\ ~auction[a].card}
               d == [c EXCEPT !.step = "card", !.cards = cs]
    <2>1. RowsAlike /\ c.step = "cards" /\ To(p, d)  BY <1>1, <1>12 DEF CardsRead, At, rows
    <2> HIDE DEF cs
    <2>2. d.step = "card"  BY <1>0 DEF Call
    <2> HIDE DEF d
    <2> QED BY <2>1, <2>2, QuietTo
  <1>13. CASE NextCard(p)
    <2>1. RowsAlike /\ c.step = "card"  BY <1>1, <1>13 DEF NextCard, At, rows
    <2>2. ASSUME NEW a, To(p, [c EXCEPT !.step = "fresh", !.auction = a]) PROVE Quiet(p)
      <3> DEFINE d == [c EXCEPT !.step = "fresh", !.auction = a]
      <3>1. To(p, d) /\ d.step = "fresh"  BY <1>0, <2>2 DEF Call
      <3> HIDE DEF d
      <3> QED BY <2>1, <3>1, QuietTo
    <2> QED BY <1>13, <2>1, <2>2, QuietGoto, QuietReturn DEF NextCard
  <1>14. ASSUME NEW a \in c.cards, CloseIfOpen(a), UNCHANGED <<bounds, history>>,
                c.step \in {"close", "rows"}, To(p, [c EXCEPT !.cards = @ \ {a}])
         PROVE  Quiet(p)
    <2> DEFINE d == [c EXCEPT !.cards = @ \ {a}]
    <2>1. a \in AuctionIds /\ To(p, d) /\ d.step = c.step  BY <1>0, <1>14 DEF Call
    <2>2. RowsAlike  BY <1>14, <2>1, ClosedAlike
    <2> HIDE DEF d
    <2> QED BY <1>14, <2>1, <2>2, QuietTo
  <1>15. CASE CloseNext(p)
    BY <1>14, <1>15 DEF CloseNext, At
  <1>16. CASE TickRefresh(p)
    <2>1. RowsAlike /\ c.step = "refresh"  BY <1>1, <1>16 DEF TickRefresh, At, rows
    <2>2. ASSUME NEW due, To(p, [c EXCEPT !.step = "rows", !.cards = due]) PROVE Quiet(p)
      <3> DEFINE d == [c EXCEPT !.step = "rows", !.cards = due]
      <3>1. To(p, d) /\ d.step = "rows"  BY <1>0, <2>2 DEF Call
      <3> HIDE DEF d
      <3> QED BY <2>1, <3>1, QuietTo
    <2> QED BY <1>16, <2>2 DEF TickRefresh
  <1>17. CASE TickRow(p)
    <2>1. CASE Return(p) /\ UNCHANGED rows
      <3>1. RowsAlike /\ c.step = "rows"  BY <1>1, <1>17, <2>1 DEF TickRow, At, rows
      <3> QED BY <2>1, <3>1, QuietReturn
    <2> QED BY <1>14, <1>17, <2>1 DEF TickRow, At
  <1> QED BY <1>2, <1>3, <1>4, <1>5, <1>6, <1>7, <1>8, <1>9, <1>10, <1>11, <1>12, <1>13, <1>15,
             <1>16, <1>17 DEF Step, Loud

\* The steps of the whole.
LEMMA ListSteps ==
  ASSUME ListSafe, [Next]_vars
  PROVE  \/ \E p \in Procs : Quiet(p)
         \/ \E p \in Procs : Loud(p)
         \/ UNCHANGED call /\ RowsAlike
         \/ \E e \in Events : EditEventStatus(e)
         \/ Restart
  <1>1. CASE UNCHANGED vars  BY <1>1 DEF vars, rows, RowsAlike, bounds, history
  <1>2. ASSUME NEW a \in AuctionIds, CloseItem(a) PROVE UNCHANGED call /\ RowsAlike
    BY <1>2, ClosedAlike DEF CloseItem, CloseIfOpen
  <1>3. CASE Next
    BY <1>2, <1>3, QuietSteps, QuietRequests DEF Next
  <1> QED BY <1>1, <1>3

\* The loud steps, each with what it changes.
LEMMA LoudCalls ==
  ASSUME ListSafe, NEW p \in Procs, Loud(p)
  PROVE  /\ \A q \in Procs \ {p} : call'[q] = call[q]
         /\ \/ CreateAuction(p) /\ call[p].step = "create" /\ call'[p].step = "mark"
            \/ /\ CardFresh(p) /\ call[p].step = "fresh" /\ call'[p].auction = call[p].auction
               /\ \/ call'[p].step = "card"
                  \/ call'[p].step = "emit" /\ ~auction[call[p].auction].card
            \/ /\ CardEmit(p) /\ call[p].step = "emit" /\ call'[p].auction = call[p].auction
               /\ \/ call'[p].step = "card" /\ UNCHANGED delivered
                  \/ /\ call'[p].step = "sent"
                     /\ delivered' = [delivered EXCEPT ![call[p].auction] = @ + 1]
            \/ CardMark(p) /\ call[p].step = "sent" /\ call'[p].step = "card"
            \/ /\ CloseEvent(p) /\ call[p].step = "close" /\ call[p].event \in Events
               /\ \/ /\ call'[p].step = "final" /\ call'[p].event = call[p].event
                     /\ event[call[p].event] = "OPEN"
                     /\ event' = [event EXCEPT ![call[p].event] = "CLOSED"]
                  \/ call'[p].step \in {"drop", "idle"} /\ UNCHANGED event
            \/ /\ CloseFinal(p) /\ call[p].step = "final" /\ call[p].event \in Events
               /\ \/ /\ call[p].groups = {} /\ UNCHANGED finals
                     /\ call'[p].step \in {"drop", "idle"}
                  \/ \E g \in call[p].groups :
                        /\ finals' = [finals EXCEPT ![g][call[p].event] = @ + 1]
                        /\ call'[p].step = "final" /\ g \in Groups
                        /\ call'[p].event = call[p].event
                        /\ call'[p].groups = call[p].groups \ {g}
            \/ /\ Throw(p) /\ call'[p].step = "idle" /\ call[p].step # "final"
               /\ \/ failures' = failures + 1
                  \/ failures' = failures /\ call[p].step = "create"
  <1> DEFINE c == call[p]
  <1>0. /\ c \in Call /\ Works(c) /\ call \in [Procs -> Call] /\ Idle.step = "idle"
        /\ \A s : Goto(p, s) => To(p, [c EXCEPT !.step = s])
    BY CallHas DEF Idle
  <1>1. ASSUME NEW d, To(p, d) PROVE call'[p] = d /\ \A q \in Procs \ {p} : call'[q] = call[q]
    BY <1>0, <1>1 DEF To
  <1>2. ASSUME NEW s, Goto(p, s)
        PROVE  /\ call'[p].step = s /\ call'[p].auction = c.auction
               /\ \A q \in Procs \ {p} : call'[q] = call[q]
    <2> DEFINE d == [c EXCEPT !.step = s]
    <2>1. To(p, d) /\ d.step = s /\ d.auction = c.auction  BY <1>0, <1>2 DEF Call
    <2> HIDE DEF d
    <2> QED BY <1>1, <2>1
  <1>3. ASSUME CardDone(p)
        PROVE  /\ call'[p].step = "card" /\ call'[p].auction = c.auction
               /\ \A q \in Procs \ {p} : call'[q] = call[q]
    <2> DEFINE d == [c EXCEPT !.step = "card", !.cards = @ \ {c.auction}]
    <2>1. To(p, d) /\ d.step = "card" /\ d.auction = c.auction  BY <1>0, <1>3 DEF Call, CardDone
    <2> HIDE DEF d
    <2> QED BY <1>1, <2>1
  <1>4. ASSUME To(p, EndOfClose(c))
        PROVE  /\ call'[p].step \in {"drop", "idle"}
               /\ \A q \in Procs \ {p} : call'[q] = call[q]
    <2> DEFINE d == EndOfClose(c)
    <2>1. To(p, d) /\ d.step \in {"drop", "idle"}  BY <1>0, <1>4 DEF EndOfClose, Call
    <2> HIDE DEF d
    <2> QED BY <1>1, <2>1
  <1>5. CASE CreateAuction(p)
    <2> DEFINE a == auctionSeq + 1
               d == [c EXCEPT !.step = "mark", !.auction = a, !.made = @ \cup {a}]
    <2>1. To(p, d) /\ d.step = "mark" /\ c.step = "create"
      BY <1>0, <1>5 DEF CreateAuction, Call, At
    <2> HIDE DEF d
    <2>2. call'[p].step = "mark" /\ \A q \in Procs \ {p} : call'[q] = call[q]  BY <1>1, <2>1
    <2> QED BY <1>5, <2>1, <2>2
  <1>6. CASE CardFresh(p)
    <2>1. c.step = "fresh"  BY <1>6 DEF CardFresh, At
    <2>2. /\ call'[p].auction = c.auction /\ \A q \in Procs \ {p} : call'[q] = call[q]
          /\ \/ call'[p].step = "card"
             \/ call'[p].step = "emit" /\ ~auction[c.auction].card
      BY <1>2, <1>3, <1>6 DEF CardFresh
    <2> QED BY <1>6, <2>1, <2>2
  <1>7. CASE CardEmit(p)
    <2>1. c.step = "emit"  BY <1>7 DEF CardEmit, At
    <2>2. /\ call'[p].auction = c.auction /\ \A q \in Procs \ {p} : call'[q] = call[q]
          /\ \/ call'[p].step = "card" /\ UNCHANGED delivered
             \/ /\ call'[p].step = "sent"
                /\ delivered' = [delivered EXCEPT ![call[p].auction] = @ + 1]
      BY <1>2, <1>3, <1>7 DEF CardEmit
    <2> QED BY <1>7, <2>1, <2>2
  <1>8. CASE CardMark(p)
    <2>1. c.step = "sent"  BY <1>8 DEF CardMark, At
    <2>2. call'[p].step = "card" /\ \A q \in Procs \ {p} : call'[q] = call[q]
      BY <1>3, <1>8 DEF CardMark
    <2> QED BY <1>8, <2>1, <2>2
  <1>9. CASE CloseEvent(p)
    <2>1. c.step = "close" /\ c.event \in Events  BY <1>0, <1>9 DEF CloseEvent, At, Works
    <2> DEFINE gs == {g \in Groups : list[g] = c.event}
               d == [c EXCEPT !.step = "final", !.groups = gs]
    <2>2. \/ /\ event[c.event] = "OPEN" /\ event' = [event EXCEPT ![c.event] = "CLOSED"]
             /\ To(p, d)
          \/ event' = event /\ To(p, EndOfClose(c))
      BY <1>9 DEF CloseEvent
    <2>3. d.step = "final" /\ d.event = c.event  BY <1>0 DEF Call
    <2> HIDE DEF d
    <2>4. /\ \A q \in Procs \ {p} : call'[q] = call[q]
          /\ \/ /\ call'[p].step = "final" /\ call'[p].event = c.event
                /\ event[c.event] = "OPEN"
                /\ event' = [event EXCEPT ![c.event] = "CLOSED"]
             \/ call'[p].step \in {"drop", "idle"} /\ UNCHANGED event
      BY <1>1, <1>4, <2>2, <2>3
    <2> QED BY <1>9, <2>1, <2>4
  <1>10. CASE CloseFinal(p)
    <2>1. c.step = "final" /\ c.event \in Events  BY <1>0, <1>10 DEF CloseFinal, At, Works
    <2>2. ASSUME NEW g \in c.groups, finals' = [finals EXCEPT ![g][c.event] = @ + 1],
                 To(p, [c EXCEPT !.groups = @ \ {g}])
          PROVE  /\ \A q \in Procs \ {p} : call'[q] = call[q]
                 /\ call'[p].step = "final" /\ g \in Groups
                 /\ call'[p].event = c.event /\ call'[p].groups = c.groups \ {g}
      <3> DEFINE d == [c EXCEPT !.groups = @ \ {g}]
      <3>1. /\ To(p, d) /\ d.step = "final" /\ d.event = c.event /\ d.groups = c.groups \ {g}
            /\ g \in Groups
        BY <1>0, <2>1, <2>2 DEF Call
      <3> HIDE DEF d
      <3> QED BY <1>1, <3>1
    <2>3. /\ \A q \in Procs \ {p} : call'[q] = call[q]
          /\ \/ /\ c.groups = {} /\ UNCHANGED finals
                /\ call'[p].step \in {"drop", "idle"}
             \/ \E g \in c.groups :
                   /\ finals' = [finals EXCEPT ![g][c.event] = @ + 1]
                   /\ call'[p].step = "final" /\ g \in Groups
                   /\ call'[p].event = c.event
                   /\ call'[p].groups = c.groups \ {g}
      BY <1>4, <1>10, <2>2 DEF CloseFinal
    <2> QED BY <1>10, <2>1, <2>3
  <1>11. CASE Throw(p)
    <2>1. /\ call'[p].step = "idle" /\ c.step # "final"
          /\ c.step \in {"find", "create", "mark", "cards", "fresh", "sent", "confirm", "sync", "close"}
          /\ \A q \in Procs \ {p} : call'[q] = call[q]
      BY <1>0, <1>1, <1>11 DEF Throw, Return
    <2>2. \/ failures' = failures + 1
          \/ failures' = failures /\ c.step = "create"
      BY <1>11 DEF Throw, At
    <2> QED BY <1>11, <2>1, <2>2
  <1> QED BY <1>5, <1>6, <1>7, <1>8, <1>9, <1>10, <1>11 DEF Loud

\* Under the lock the item found without an auction is still without one.
StillFree == \A p \in Procs :
    call[p].op \in {"publish", "open"} /\ call[p].step = "create" /\ call[p].item \notin unlocked
      => AuctionsOf(call[p].item) = {}

Sending(a) == \E p \in Procs : call[p].step = "sent" /\ call[p].auction = a
CardCount(a) ==
    /\ a > auctionSeq => delivered[a] = 0
    /\ \A p \in Procs : call[p].step = "emit" /\ call[p].auction = a => ~auction[a].card
    /\ delivered[a] <= crashes + failures + (IF auction[a].card \/ Sending(a) THEN 1 ELSE 0)

Announcing(g, e) == {p \in Procs : /\ call[p].step = "final" /\ call[p].event = e
                                   /\ g \in call[p].groups}
FinalCount(g, e) ==
    /\ IsFiniteSet(Announcing(g, e))
    /\ finals[g][e] + Cardinality(Announcing(g, e))
          <= statusEdits + (IF event[e] = "OPEN" THEN 0 ELSE 1)

-----------------------------------------------------------------------------
(***************************************************************************)
(* One auction per item: the lock is held from the second look to the      *)
(* insert.                                                                 *)
(***************************************************************************)
OneEachItem == OneAuctionPerItem /\ StillFree

\* Whoever holds a lock is its only user.
LEMMA SoleItemUser ==
  ASSUME ListSafe, NEW p \in Procs, NEW q \in Procs, NEW i \in Items,
         i \in UsesItem(call[p]), i \in UsesItem(call[q])
  PROVE  p = q
  BY OneUser DEF ListSafe, Guarded, ItemUses

LEMMA SoleCardUser ==
  ASSUME ListSafe, NEW p \in Procs, NEW q \in Procs,
         call[p].step \in {"emit", "sent"}, call[q].step \in {"emit", "sent"},
         call[p].auction = call[q].auction
  PROVE  p = q
  <1>1. call[p].auction \in AuctionIds  BY DEF ListSafe, Works, CardSteps
  <1>2. /\ call[p].auction \in CardUses[p] /\ call[p].auction \in CardUses[q]
    BY DEF CardUses, UsesCard
  <1> QED BY <1>1, <1>2, OneUser DEF ListSafe, Guarded

LEMMA SameItems ==
  ASSUME OneEachItem, \A a \in AuctionIds : auction'[a].item = auction[a].item, UNCHANGED unlocked,
         \A p \in Procs : \/ call'[p] = call[p]
                          \/ call'[p].step # "create"
                          \/ call'[p].op \in {"start", "single"}
                          \/ AuctionsOf(call'[p].item) = {}
  PROVE  OneEachItem'
  <1>1. \A i : (AuctionsOf(i))' = AuctionsOf(i)  BY DEF AuctionsOf, AuctionIds
  <1>2. OneAuctionPerItem'
    BY <1>1 DEF OneEachItem, OneAuctionPerItem
  <1>3. ASSUME NEW p \in Procs, call'[p].op \in {"publish", "open"}, call'[p].step = "create",
               call'[p].item \notin unlocked'
        PROVE  (AuctionsOf(call[p].item))' = {}
    <2>1. (AuctionsOf(call[p].item))' = AuctionsOf(call'[p].item)  BY DEF AuctionsOf, AuctionIds
    <2> QED BY <1>3, <2>1 DEF OneEachItem, StillFree
  <1> QED BY <1>2, <1>3 DEF OneEachItem, StillFree

LEMMA CreateOne ==
  ASSUME ListSafe, OneEachItem, NEW p \in Procs, CreateAuction(p)
  PROVE  OneEachItem'
  <1> DEFINE c == call[p]  i == c.item  a == auctionSeq + 1
  <1>1. /\ c \in Call /\ c.step = "create" /\ i \in Items /\ a \in AuctionIds
        /\ c.op \in {"publish", "open", "start", "single"} /\ auction \in [AuctionIds -> AuctionRow]
    BY CallHas DEF CreateAuction, At, Works, AuctionIds, RowsTyped
  <1>2. /\ \A b \in AuctionIds \ {a} : auction'[b] = auction[b]
        /\ auction'[a].item = i
    BY <1>1 DEF CreateAuction
  <1>3. /\ c.op \in {"start", "single"} => unlocked' = unlocked \cup {i}
        /\ c.op \in {"publish", "open"} => unlocked' = unlocked
    BY DEF CreateAuction
  <1>4. ASSUME NEW j PROVE (AuctionsOf(j))' \subseteq AuctionsOf(j) \cup {a}
    BY <1>2 DEF AuctionsOf, AuctionIds
  <1>5. ASSUME NEW j, j # i PROVE (AuctionsOf(j))' \subseteq AuctionsOf(j)
    BY <1>2, <1>5 DEF AuctionsOf, AuctionIds
  <1>6. unlocked \subseteq unlocked' /\ (i \notin unlocked' => c.op \in {"publish", "open"})
    BY <1>1, <1>3
  <1>7. OneAuctionPerItem'
    <2> SUFFICES ASSUME NEW j \in Items, j \notin unlocked',
                        NEW x \in (AuctionsOf(j))', NEW y \in (AuctionsOf(j))'
                 PROVE  x = y
      BY DEF OneAuctionPerItem
    <2>1. CASE j # i
      BY <1>5, <1>6, <2>1 DEF OneEachItem, OneAuctionPerItem
    <2>2. CASE j = i
      <3>1. AuctionsOf(i) = {}  BY <1>1, <1>6, <2>2 DEF OneEachItem, StillFree
      <3> QED BY <1>4, <2>2, <3>1
    <2> QED BY <2>1, <2>2
  <1>8. ASSUME NEW q \in Procs, call'[q].op \in {"publish", "open"}, call'[q].step = "create",
               call'[q].item \notin unlocked'
        PROVE  (AuctionsOf(call[q].item))' = {}
    <2>1. q # p /\ call'[q] = call[q]
      <3>1. Loud(p)  BY DEF Loud
      <3>2. call'[p].step = "mark"
        <4> DEFINE d == [c EXCEPT !.step = "mark", !.auction = a, !.made = @ \cup {a}]
        <4>1. To(p, d) /\ d.step = "mark"  BY <1>1 DEF CreateAuction, Call
        <4> HIDE DEF d
        <4> QED BY <4>1, Moves
      <3> QED BY <1>8, <3>1, <3>2, LoudCalls
    <2> DEFINE j == call[q].item
    <2>2. AuctionsOf(j) = {} /\ j \notin unlocked'
      BY <1>6, <1>8, <2>1 DEF OneEachItem, StillFree
    <2>3. ASSUME j = i PROVE FALSE
      <3>1. c.op \in {"publish", "open"}  BY <1>6, <2>2, <2>3
      <3>2. i \in UsesItem(c) /\ i \in UsesItem(call[q])
        BY <1>1, <1>8, <2>1, <2>3, <3>1 DEF UsesItem, ItemWork
      <3> QED BY <1>1, <2>1, <3>2, SoleItemUser
    <2>4. (AuctionsOf(j))' = {}
      <3>1. ASSUME NEW b \in AuctionIds, auction'[b].item = j PROVE FALSE
        BY <1>2, <2>2, <2>3, <3>1 DEF AuctionsOf
      <3> QED BY <2>1, <3>1 DEF AuctionsOf, AuctionIds
    <2> QED BY <2>4
  <1> QED BY <1>7, <1>8 DEF OneEachItem, StillFree

LEMMA NextOne ==
  ASSUME ListSafe, OneEachItem, [Next]_vars
  PROVE  OneEachItem'
  <1>1. ASSUME NEW p \in Procs, Quiet(p) PROVE OneEachItem'
    BY <1>1, SameItems DEF Quiet, RowsAlike, history
  <1>2. ASSUME NEW p \in Procs, Loud(p), ~CreateAuction(p) PROVE OneEachItem'
    <2>1. /\ \A q \in Procs \ {p} : call'[q] = call[q]
          /\ call'[p].step # "create"
      BY <1>2, LoudCalls
    <2>2. /\ \A a \in AuctionIds : auction'[a].item = auction[a].item
          /\ UNCHANGED unlocked
      <3>1. auction \in [AuctionIds -> AuctionRow]  BY DEF ListSafe, RowsTyped
      <3>2. CASE CardMark(p)  BY <3>1, <3>2 DEF CardMark, history, AuctionRow
      <3>3. CASE ~CardMark(p)
        BY <1>2, <3>3 DEF Loud, CardFresh, CardEmit, CloseEvent, CloseFinal, Throw, rows, history
      <3> QED BY <3>2, <3>3
    <2> QED BY <2>1, <2>2, SameItems
  <1>3. CASE UNCHANGED call /\ RowsAlike
    BY <1>3, SameItems DEF RowsAlike, history
  <1>4. ASSUME NEW e \in Events, EditEventStatus(e) PROVE OneEachItem'
    BY <1>4, SameItems DEF EditEventStatus, history
  <1>5. CASE Restart
    <2>1. \A p \in Procs : call'[p].step # "create"  BY <1>5 DEF Restart, Idle
    <2> QED BY <1>5, <2>1, SameItems DEF Restart, rows, history
  <1> QED BY <1>1, <1>2, <1>3, <1>4, <1>5, CreateOne, ListSteps

(***************************************************************************)
(* An item of a list gets at most one auction, however publications,       *)
(* openings and restarts overlap (publishItemToList, syncNewItems), unless *)
(* the paths without the lock create one, for any number of them.          *)
(***************************************************************************)
THEOREM OneAuctionSafety == Spec => []OneAuctionPerItem
  <1>1. ASSUME Init PROVE OneEachItem
    <2>1. \A p \in Procs : call[p].step # "create"  BY <1>1 DEF Init, Idle
    <2>2. \A i \in Items : AuctionsOf(i) = {}
      BY <1>1, ListAssumption DEF Init, AuctionsOf, Absent
    <2> QED BY <2>1, <2>2 DEF OneEachItem, OneAuctionPerItem, StillFree
  <1>2. ListSafe /\ OneEachItem /\ [Next]_vars => OneEachItem'  BY NextOne
  <1>3. OneEachItem => OneAuctionPerItem  BY DEF OneEachItem
  <1> QED BY <1>1, <1>2, <1>3, ListIsSafe, PTL DEF Spec

-----------------------------------------------------------------------------
(***************************************************************************)
(* One card per auction: between the second look and the mark the lock is  *)
(* held, and only a crash or a throw loses the mark of a card that is out. *)
(***************************************************************************)
LEMMA Numbers ==
  ASSUME ListSafe
  PROVE  /\ auctionSeq \in Nat /\ crashes \in Nat /\ failures \in Nat /\ statusEdits \in Nat
         /\ \A a \in AuctionIds : delivered[a] \in Nat /\ a \in Nat \ {0}
         /\ \A g \in Groups, e \in Events : finals[g][e] \in Nat
  BY ListAssumption DEF ListSafe, RowsTyped, AuctionIds

\* A step that sends and marks nothing about a.
LEMMA CountKept ==
  ASSUME ListSafe, NEW a \in AuctionIds, CardCount(a), auctionSeq' >= auctionSeq,
         auctionSeq' \in Nat,
         delivered'[a] = delivered[a],
         a <= auctionSeq => auction'[a].card = auction[a].card,
         crashes' + failures' >= crashes + failures,
         crashes' \in Nat, failures' \in Nat,
         \A p \in Procs :
            \/ call'[p] = call[p]
            \/ call[p].step # "sent" /\ call'[p].step \notin {"emit", "sent"}
            \/ /\ call[p].step # "sent" /\ call'[p].step = "emit"
               /\ ~auction[call'[p].auction].card /\ call'[p].auction <= auctionSeq
            \/ crashes' + failures' > crashes + failures /\ call'[p].step \notin {"emit", "sent"}
  PROVE  CardCount(a)'
  <1>1. /\ delivered[a] \in Nat /\ crashes \in Nat /\ failures \in Nat /\ auctionSeq \in Nat
        /\ a \in Nat
    BY Numbers
  <1>2. a > auctionSeq' => delivered'[a] = 0  BY <1>1 DEF CardCount
  <1>3. ASSUME NEW p \in Procs, call'[p].step = "emit", call'[p].auction = a
        PROVE  ~auction'[a].card
    <2>1. \/ call'[p] = call[p]
          \/ ~auction[a].card /\ a <= auctionSeq
      BY <1>3
    <2>2. call'[p] = call[p] => a <= auctionSeq  BY <1>1, <1>3 DEF ListSafe, Exist
    <2>3. a <= auctionSeq /\ ~auction[a].card  BY <1>3, <2>1, <2>2 DEF CardCount
    <2> QED BY <2>3
  <1>4. CASE a > auctionSeq
    BY <1>1, <1>2, <1>3, <1>4 DEF CardCount
  <1>5. CASE a <= auctionSeq
    <2>1. auction'[a].card = auction[a].card  BY <1>5
    <2>2. Sending(a) => Sending(a)' \/ crashes' + failures' > crashes + failures
      BY DEF Sending
    <2>3. delivered'[a] <= crashes' + failures'
                             + (IF auction'[a].card \/ Sending(a)' THEN 1 ELSE 0)
      BY <1>1, <2>1, <2>2 DEF CardCount
    <2> QED BY <1>2, <1>3, <2>3 DEF CardCount
  <1> QED BY <1>1, <1>4, <1>5

LEMMA CreateCount ==
  ASSUME ListSafe, NEW a \in AuctionIds, CardCount(a), NEW p \in Procs, CreateAuction(p)
  PROVE  CardCount(a)'
  <1>1. /\ auctionSeq' = auctionSeq + 1 /\ UNCHANGED <<delivered, crashes, failures>>
        /\ auction \in [AuctionIds -> AuctionRow]
    BY DEF CreateAuction, bounds, ListSafe, RowsTyped
  <1>2. a <= auctionSeq => auction'[a] = auction[a]
    BY <1>1, Numbers DEF CreateAuction
  <1>3. \A q \in Procs : call'[q] = call[q] \/
           (call[q].step # "sent" /\ call'[q].step \notin {"emit", "sent"})
    <2>1. call[p].step = "create" /\ call'[p].step = "mark"
      <3>1. call[p].step = "create"  BY DEF CreateAuction, At
      <3> DEFINE d == [call[p] EXCEPT !.step = "mark", !.auction = auctionSeq + 1,
                                      !.made = @ \cup {auctionSeq + 1}]
      <3>2. To(p, d) /\ d.step = "mark"  BY CallHas DEF CreateAuction, Call
      <3> HIDE DEF d
      <3> QED BY <3>1, <3>2, Moves
    <2>2. \A q \in Procs \ {p} : call'[q] = call[q]  BY LoudCalls DEF Loud
    <2> QED BY <2>1, <2>2
  <1> QED BY <1>1, <1>2, <1>3, Numbers, CountKept

LEMMA EmitCount ==
  ASSUME ListSafe, NEW a \in AuctionIds, CardCount(a), NEW p \in Procs, CardEmit(p)
  PROVE  CardCount(a)'
  <1> DEFINE c == call[p]
  <1>1. /\ c.step = "emit" /\ c.auction \in AuctionIds /\ c.auction <= auctionSeq
        /\ UNCHANGED <<auction, auctionSeq, crashes, failures>>
        /\ delivered \in [AuctionIds -> Nat]
    BY CallHas DEF CardEmit, At, Works, Exist, CardSteps, rows, bounds, RowsTyped
  <1>2. /\ \A q \in Procs \ {p} : call'[q] = call[q]
        /\ \/ call'[p].step = "card" /\ UNCHANGED delivered
           \/ /\ call'[p].step = "sent" /\ call'[p].auction = c.auction
              /\ delivered' = [delivered EXCEPT ![c.auction] = @ + 1]
    <2>1. Loud(p)  BY DEF Loud
    <2>2. /\ \A q \in Procs \ {p} : call'[q] = call[q]  BY <2>1, LoudCalls
    <2>3. CASE CardDone(p) /\ UNCHANGED delivered
      <3> DEFINE d == [c EXCEPT !.step = "card", !.cards = @ \ {c.auction}]
      <3>1. To(p, d) /\ d.step = "card"  BY <2>3, CallHas DEF CardDone, Call
      <3> HIDE DEF d
      <3> QED BY <2>2, <2>3, <3>1, Moves
    <2>4. CASE /\ delivered' = [delivered EXCEPT ![c.auction] = @ + 1] /\ Goto(p, "sent")
      <3> DEFINE d == [c EXCEPT !.step = "sent"]
      <3>1. To(p, d) /\ d.step = "sent" /\ d.auction = c.auction  BY <2>4, CallHas DEF Call
      <3> HIDE DEF d
      <3> QED BY <2>2, <2>4, <3>1, Moves
    <2> QED BY <2>3, <2>4 DEF CardEmit
  <1>3. CASE call'[p].step = "card" /\ UNCHANGED delivered
    BY <1>1, <1>2, <1>3, Numbers, CountKept
  <1>4. CASE /\ call'[p].step = "sent" /\ call'[p].auction = c.auction
             /\ delivered' = [delivered EXCEPT ![c.auction] = @ + 1]
    <2>1. a > auctionSeq' => delivered'[a] = 0
      BY <1>1, <1>4, Numbers DEF CardCount
    <2>2. ASSUME NEW q \in Procs, call'[q].step = "emit", call'[q].auction = a
          PROVE  ~auction'[a].card
      BY <1>1, <1>2, <1>4, <2>2 DEF CardCount
    <2>3. CASE a = c.auction
      <3>1. ~Sending(a)
        <4>1. ASSUME NEW q \in Procs, call[q].step = "sent", call[q].auction = a PROVE FALSE
          <5>1. q = p  BY <1>1, <2>3, <4>1, SoleCardUser
          <5> QED BY <1>1, <4>1, <5>1
        <4> QED BY <4>1 DEF Sending
      <3>2. ~auction[a].card  BY <1>1, <2>3 DEF CardCount
      <3>3. delivered[a] <= crashes + failures  BY <3>1, <3>2, Numbers DEF CardCount
      <3>4. delivered'[a] = delivered[a] + 1  BY <1>1, <1>4, <2>3
      <3>5. Sending(a)'  BY <1>4, <2>3 DEF Sending
      <3>6. delivered'[a] <= crashes' + failures' + 1  BY <1>1, <3>3, <3>4, Numbers
      <3> QED BY <2>1, <2>2, <3>5, <3>6 DEF CardCount
    <2>4. CASE a # c.auction
      <3>1. delivered'[a] = delivered[a]  BY <1>1, <1>4, <2>4
      <3>2. Sending(a)' <=> Sending(a)
        <4>1. \A q \in Procs : (call'[q].step = "sent" /\ call'[q].auction = a)
                                  <=> (call[q].step = "sent" /\ call[q].auction = a)
          BY <1>1, <1>2, <1>4, <2>4
        <4> QED BY <4>1 DEF Sending
      <3> QED BY <1>1, <2>1, <2>2, <3>1, <3>2 DEF CardCount
    <2> QED BY <2>3, <2>4
  <1> QED BY <1>2, <1>3, <1>4

LEMMA MarkCount ==
  ASSUME ListSafe, NEW a \in AuctionIds, CardCount(a), NEW p \in Procs, CardMark(p)
  PROVE  CardCount(a)'
  <1> DEFINE c == call[p]
  <1>1. /\ c.step = "sent" /\ c.auction \in AuctionIds
        /\ UNCHANGED <<auctionSeq, crashes, failures, delivered>>
        /\ auction' = [auction EXCEPT ![c.auction].card = TRUE]
        /\ auction \in [AuctionIds -> AuctionRow]
    BY CallHas DEF CardMark, At, Works, CardSteps, bounds, history, RowsTyped
  <1>2. /\ \A q \in Procs \ {p} : call'[q] = call[q]
        /\ call'[p].step = "card"
    <2>1. Loud(p)  BY DEF Loud
    <2>2. \A q \in Procs \ {p} : call'[q] = call[q]  BY <2>1, LoudCalls
    <2> DEFINE d == [c EXCEPT !.step = "card", !.cards = @ \ {c.auction}]
    <2>3. To(p, d) /\ d.step = "card"  BY CallHas DEF CardMark, CardDone, Call
    <2> HIDE DEF d
    <2> QED BY <2>2, <2>3, Moves
  <1>3. a > auctionSeq' => delivered'[a] = 0  BY <1>1 DEF CardCount
  <1>4. CASE a = c.auction
    <2>1. auction'[a].card  BY <1>1, <1>4 DEF AuctionRow
    <2>2. ASSUME NEW q \in Procs, call'[q].step = "emit", call'[q].auction = a PROVE FALSE
      <3>1. q # p /\ call'[q] = call[q]  BY <1>2, <2>2
      <3> QED BY <1>1, <1>4, <2>2, <3>1, SoleCardUser
    <2>3. delivered'[a] <= crashes' + failures' + 1  BY <1>1, Numbers DEF CardCount
    <2> QED BY <1>3, <2>1, <2>2, <2>3 DEF CardCount
  <1>5. CASE a # c.auction
    <2>1. auction'[a] = auction[a]  BY <1>1, <1>5
    <2>2. Sending(a)' <=> Sending(a)
      <3>1. \A q \in Procs : (call'[q].step = "sent" /\ call'[q].auction = a)
                                <=> (call[q].step = "sent" /\ call[q].auction = a)
        BY <1>1, <1>2, <1>5
      <3> QED BY <3>1 DEF Sending
    <2>3. ASSUME NEW q \in Procs, call'[q].step = "emit", call'[q].auction = a
          PROVE  ~auction'[a].card
      BY <1>2, <2>1, <2>3 DEF CardCount
    <2> QED BY <1>1, <1>3, <2>1, <2>2, <2>3 DEF CardCount
  <1> QED BY <1>4, <1>5

LEMMA NextCount ==
  ASSUME ListSafe, NEW a \in AuctionIds, CardCount(a), [Next]_vars
  PROVE  CardCount(a)'
  <1>0. /\ auctionSeq \in Nat /\ crashes \in Nat /\ failures \in Nat  BY Numbers
  <1>1. ASSUME NEW p \in Procs, Quiet(p) PROVE CardCount(a)'
    BY <1>0, <1>1, CountKept DEF Quiet, RowsAlike, bounds, history
  <1>2. ASSUME NEW p \in Procs, CardFresh(p) PROVE CardCount(a)'
    <2>1. /\ UNCHANGED <<auction, auctionSeq, crashes, failures, delivered>>
          /\ call[p].auction <= auctionSeq
      BY <1>2, CallHas DEF CardFresh, rows, bounds, history, Exist
    <2>2. call[p].step = "fresh" /\ \A q \in Procs \ {p} : call'[q] = call[q]
      BY <1>2, LoudCalls DEF Loud, CardFresh, At
    <2>3. /\ call'[p].auction = call[p].auction
          /\ \/ call'[p].step = "card"
             \/ call'[p].step = "emit" /\ ~auction[call[p].auction].card
      <3>1. CASE CardDone(p)
        <4> DEFINE d == [call[p] EXCEPT !.step = "card", !.cards = @ \ {call[p].auction}]
        <4>1. To(p, d) /\ d.step = "card" /\ d.auction = call[p].auction
          BY <3>1, CallHas DEF CardDone, Call
        <4> HIDE DEF d
        <4> QED BY <4>1, Moves
      <3>2. CASE Goto(p, "emit") /\ ~auction[call[p].auction].card
        <4> DEFINE d == [call[p] EXCEPT !.step = "emit"]
        <4>1. To(p, d) /\ d.step = "emit" /\ d.auction = call[p].auction
          BY <3>2, CallHas DEF Call
        <4> HIDE DEF d
        <4> QED BY <3>2, <4>1, Moves
      <3> QED BY <1>2, <3>1, <3>2 DEF CardFresh
    <2> QED BY <1>0, <2>1, <2>2, <2>3, CountKept
  <1>3. ASSUME NEW p \in Procs, CloseEvent(p) \/ CloseFinal(p) PROVE CardCount(a)'
    <2>1. UNCHANGED <<auction, auctionSeq, crashes, failures, delivered>>
      BY <1>3 DEF CloseEvent, CloseFinal, rows, bounds, history
    <2>2. /\ \A q \in Procs \ {p} : call'[q] = call[q]
          /\ call[p].step \in {"close", "final"}
      BY <1>3, LoudCalls DEF Loud, CloseEvent, CloseFinal, At
    <2>3. call'[p].step \notin {"emit", "sent"}
      BY <1>3, <2>1, <2>2, LoudCalls, Numbers
      DEF Loud, CreateAuction, CardFresh, CardEmit, CardMark, At
    <2> QED BY <1>0, <2>1, <2>2, <2>3, CountKept
  <1>4. ASSUME NEW p \in Procs, Throw(p) PROVE CardCount(a)'
    <2>1. /\ UNCHANGED <<auction, auctionSeq, crashes, delivered>>
          /\ \/ failures' = failures + 1
             \/ failures' = failures /\ call[p].step = "create"
      BY <1>4 DEF Throw, rows, history, At
    <2>2. call'[p].step = "idle" /\ \A q \in Procs \ {p} : call'[q] = call[q]
      BY <1>4, Moves DEF Throw
    <2> QED BY <1>0, <2>1, <2>2, CountKept
  <1>5. CASE UNCHANGED call /\ RowsAlike
    BY <1>0, <1>5, CountKept DEF RowsAlike, bounds, history
  <1>6. ASSUME NEW e \in Events, EditEventStatus(e) PROVE CardCount(a)'
    BY <1>0, <1>6, CountKept DEF EditEventStatus, history
  <1>7. CASE Restart
    <2>1. \A q \in Procs : call'[q].step \notin {"emit", "sent"}  BY <1>7 DEF Restart, Idle
    <2>2. /\ UNCHANGED <<auction, auctionSeq, failures, delivered>> /\ crashes' = crashes + 1
      BY <1>7 DEF Restart, rows, history
    <2> QED BY <1>0, <2>1, <2>2, CountKept
  <1> QED BY <1>1, <1>2, <1>3, <1>4, <1>5, <1>6, <1>7, CreateCount, EmitCount, MarkCount,
             ListSteps DEF Loud

(***************************************************************************)
(* The card of an auction reaches its group once, but for crashes and      *)
(* statements that throw between the send and the write of cardSentAt      *)
(* (sendItemCards), whatever publishes it and however often.               *)
(***************************************************************************)
THEOREM CardOnceSafety == Spec => []CardOnce
  <1> DEFINE Inv == \A a \in AuctionIds : CardCount(a)
  <1>1. ASSUME Init PROVE Inv
    <2> SUFFICES ASSUME NEW a \in AuctionIds PROVE CardCount(a)  OBVIOUS
    <2>1. \A p \in Procs : call[p].step # "emit"  BY <1>1 DEF Init, Idle
    <2> QED BY <1>1, <2>1 DEF Init, CardCount
  <1>2. ListSafe /\ Inv /\ [Next]_vars => Inv'
    <2> SUFFICES ASSUME ListSafe, Inv, [Next]_vars PROVE Inv'  OBVIOUS
    <2>1. ASSUME NEW a \in AuctionIds PROVE CardCount(a)'  BY NextCount
    <2> QED BY <2>1 DEF AuctionIds
  <1>3. ListSafe /\ Inv => CardOnce
    <2> SUFFICES ASSUME ListSafe, Inv PROVE CardOnce  OBVIOUS
    <2> QED BY Numbers DEF CardCount, CardOnce
  <1> QED BY <1>1, <1>2, <1>3, ListIsSafe, PTL DEF Spec

-----------------------------------------------------------------------------
(***************************************************************************)
(* One end per list: only the call that closed the event announces, and    *)
(* each of its announcements of a group is made or still to be made.       *)
(***************************************************************************)
LEMMA FinalKept ==
  ASSUME ListSafe, NEW g \in Groups, NEW e \in Events, FinalCount(g, e),
         finals'[g][e] = finals[g][e], statusEdits' = statusEdits, event'[e] = event[e],
         \A p \in Procs : \/ call'[p] = call[p]
                          \/ p \notin Announcing(g, e) /\ call'[p].step # "final"
                          \/ p \notin Announcing(g, e) /\ call'[p].event # e
  PROVE  FinalCount(g, e)'
  <1>1. Announcing(g, e)' = Announcing(g, e)  BY DEF Announcing
  <1> QED BY <1>1 DEF FinalCount

LEMMA EventCount ==
  ASSUME ListSafe, NEW g \in Groups, NEW e \in Events, FinalCount(g, e),
         NEW p \in Procs, CloseEvent(p)
  PROVE  FinalCount(g, e)'
  <1> DEFINE c == call[p]  gs == {h \in Groups : list[h] = c.event}
             d == [c EXCEPT !.step = "final", !.groups = gs]
  <1>1. /\ c.step = "close" /\ c.event \in Events /\ UNCHANGED <<finals, statusEdits>>
        /\ event \in [Events -> {"OPEN", "CLOSED"}] /\ c \in Call
    BY CallHas DEF CloseEvent, At, Works, bounds, history, RowsTyped
  <1>2. /\ \A q \in Procs \ {p} : call'[q] = call[q]  BY LoudCalls DEF Loud
  <1>3. \/ /\ event[c.event] = "OPEN" /\ event' = [event EXCEPT ![c.event] = "CLOSED"]
           /\ call'[p].step = "final" /\ call'[p].event = c.event
        \/ event' = event /\ call'[p].step # "final"
    <2>1. CASE To(p, d) /\ event[c.event] = "OPEN" /\ event' = [event EXCEPT ![c.event] = "CLOSED"]
      <3>1. d.step = "final" /\ d.event = c.event  BY <1>1 DEF Call
      <3> HIDE DEF d
      <3> QED BY <2>1, <3>1, Moves
    <2>2. CASE event' = event /\ To(p, EndOfClose(c))
      <3> DEFINE x == EndOfClose(c)
      <3>1. x.step # "final"  BY <1>1 DEF EndOfClose, Idle, Call
      <3> HIDE DEF x
      <3>2. To(p, x)  BY <2>2 DEF x
      <3> QED BY <2>2, <3>1, <3>2, Moves
    <2> QED BY <2>1, <2>2 DEF CloseEvent
  <1>4. p \notin Announcing(g, e)  BY <1>1 DEF Announcing
  <1>5. CASE event' = event /\ call'[p].step # "final"
    BY <1>1, <1>2, <1>4, <1>5, FinalKept
  <1>6. CASE /\ event[c.event] = "OPEN" /\ event' = [event EXCEPT ![c.event] = "CLOSED"]
             /\ call'[p].step = "final" /\ call'[p].event = c.event
    <2>1. CASE c.event # e
      BY <1>1, <1>2, <1>4, <1>6, <2>1, FinalKept
    <2>2. CASE c.event = e
      <3> DEFINE A == Announcing(g, e)  B == Announcing(g, e)'
      <3>1. IsFiniteSet(A) /\ finals[g][e] + Cardinality(A) <= statusEdits
        BY <1>6, <2>2, Numbers, FS_CardinalityType DEF FinalCount
      <3>2. B \subseteq A \cup {p}  BY <1>2 DEF Announcing
      <3>3. IsFiniteSet(A \cup {p}) /\ Cardinality(A \cup {p}) = Cardinality(A) + 1
        BY <1>4, <3>1, FS_AddElement
      <3>4. IsFiniteSet(B) /\ Cardinality(B) <= Cardinality(A \cup {p})
        BY <3>2, <3>3, FS_Subset
      <3>5. Cardinality(A) \in Nat /\ Cardinality(B) \in Nat
        BY <3>1, <3>4, FS_CardinalityType
      <3>6. event'[e] = "CLOSED"  BY <1>1, <1>6, <2>2
      <3> HIDE DEF A, B
      <3>7. finals'[g][e] + Cardinality(B) <= statusEdits' + 1
        BY <1>1, <3>1, <3>3, <3>4, <3>5, Numbers
      <3> QED BY <3>4, <3>6, <3>7 DEF FinalCount, B
    <2> QED BY <2>1, <2>2
  <1> QED BY <1>3, <1>5, <1>6

LEMMA AnnounceCount ==
  ASSUME ListSafe, NEW g \in Groups, NEW e \in Events, FinalCount(g, e),
         NEW p \in Procs, CloseFinal(p)
  PROVE  FinalCount(g, e)'
  <1> DEFINE c == call[p]
  <1>1. /\ c.step = "final" /\ c.event \in Events /\ UNCHANGED <<event, statusEdits>>
        /\ c \in Call /\ finals \in [Groups -> [Events -> Nat]]
    BY CallHas DEF CloseFinal, At, Works, bounds, rows, RowsTyped
  <1>2. \A q \in Procs \ {p} : call'[q] = call[q]  BY LoudCalls DEF Loud
  <1>3. CASE c.groups = {} /\ To(p, EndOfClose(c)) /\ UNCHANGED finals
    <2> DEFINE x == EndOfClose(c)
    <2>1. x.step # "final"  BY <1>1 DEF EndOfClose, Idle, Call
    <2> HIDE DEF x
    <2>2. To(p, x)  BY <1>3 DEF x
    <2>3. call'[p].step # "final"  BY <2>1, <2>2, Moves
    <2>4. p \notin Announcing(g, e)  BY <1>3 DEF Announcing
    <2> QED BY <1>1, <1>2, <1>3, <2>3, <2>4, FinalKept
  <1>4. ASSUME NEW h \in c.groups, finals' = [finals EXCEPT ![h][c.event] = @ + 1],
               To(p, [c EXCEPT !.groups = @ \ {h}])
        PROVE  FinalCount(g, e)'
    <2> DEFINE d == [c EXCEPT !.groups = @ \ {h}]
    <2>1. /\ d.step = "final" /\ d.event = c.event /\ d.groups = c.groups \ {h}
          /\ h \in Groups /\ To(p, d)
      BY <1>1, <1>4 DEF Call
    <2> HIDE DEF d
    <2>2. /\ call'[p].step = "final" /\ call'[p].event = c.event
          /\ call'[p].groups = c.groups \ {h}
      BY <2>1, Moves
    <2> DEFINE A == Announcing(g, e)  B == Announcing(g, e)'
    <2>3. CASE h = g /\ c.event = e
      <3>1. p \in A /\ B = A \ {p}  BY <1>1, <1>2, <1>4, <2>2, <2>3 DEF Announcing
      <3>2. IsFiniteSet(A)  BY DEF FinalCount
      <3> HIDE DEF A, B
      <3>3. IsFiniteSet(B) /\ Cardinality(B) = Cardinality(A) - 1
        BY <3>1, <3>2, FS_RemoveElement
      <3>4. Cardinality(A) \in Nat /\ Cardinality(B) \in Nat
        BY <3>2, <3>3, FS_CardinalityType
      <3>5. finals'[g][e] = finals[g][e] + 1  BY <1>1, <1>4, <2>1, <2>3
      <3>6. finals[g][e] + Cardinality(A) <= statusEdits + (IF event[e] = "OPEN" THEN 0 ELSE 1)
        BY DEF FinalCount, A
      <3>7. finals'[g][e] + Cardinality(B) = finals[g][e] + Cardinality(A)
        BY <3>3, <3>4, <3>5, Numbers
      <3> QED BY <1>1, <3>3, <3>6, <3>7 DEF FinalCount, B
    <2>4. CASE ~(h = g /\ c.event = e)
      <3>1. B = A  BY <1>1, <1>2, <2>2, <2>4 DEF Announcing
      <3>2. finals'[g][e] = finals[g][e]  BY <1>1, <1>4, <2>1, <2>4
      <3> QED BY <1>1, <3>1, <3>2 DEF FinalCount
    <2> QED BY <2>3, <2>4
  <1> QED BY <1>3, <1>4 DEF CloseFinal

LEMMA NextFinal ==
  ASSUME ListSafe, NEW g \in Groups, NEW e \in Events, FinalCount(g, e), [Next]_vars
  PROVE  FinalCount(g, e)'
  <1>1. ASSUME NEW p \in Procs, Quiet(p) PROVE FinalCount(g, e)'
    <2>1. p \notin Announcing(g, e) /\ call'[p].step # "final"  BY <1>1 DEF Quiet, Announcing
    <2> QED BY <1>1, <2>1, FinalKept DEF Quiet, RowsAlike, bounds, history
  <1>2. ASSUME NEW p \in Procs, CreateAuction(p) \/ CardFresh(p) \/ CardEmit(p) \/ CardMark(p)
        PROVE  FinalCount(g, e)'
    <2>1. UNCHANGED <<event, statusEdits, finals>>
      BY <1>2 DEF CreateAuction, CardFresh, CardEmit, CardMark, rows, bounds, history
    <2>2. /\ \A q \in Procs \ {p} : call'[q] = call[q]
          /\ call[p].step \notin {"close", "final"}
      BY <1>2, LoudCalls DEF Loud, CreateAuction, CardFresh, CardEmit, CardMark, At
    <2>3. p \notin Announcing(g, e)  BY <2>2 DEF Announcing
    <2>4. call'[p].step # "final"
      BY <1>2, <2>2, LoudCalls DEF Loud
    <2> QED BY <2>1, <2>2, <2>3, <2>4, FinalKept
  <1>3. ASSUME NEW p \in Procs, Throw(p) PROVE FinalCount(g, e)'
    <2>1. UNCHANGED <<event, statusEdits, finals>>  BY <1>3 DEF Throw, rows, history
    <2>2. /\ call'[p].step = "idle" /\ \A q \in Procs \ {p} : call'[q] = call[q]
          /\ call[p].step # "final"
      BY <1>3, Moves DEF Throw
    <2>3. p \notin Announcing(g, e)  BY <2>2 DEF Announcing
    <2> QED BY <2>1, <2>2, <2>3, FinalKept
  <1>4. CASE UNCHANGED call /\ RowsAlike
    BY <1>4, FinalKept DEF RowsAlike, bounds, history
  <1>5. ASSUME NEW x \in Events, EditEventStatus(x) PROVE FinalCount(g, e)'
    <2>1. /\ UNCHANGED <<finals, call>> /\ statusEdits' = statusEdits + 1
      BY <1>5 DEF EditEventStatus, history
    <2>2. Announcing(g, e)' = Announcing(g, e)  BY <2>1 DEF Announcing
    <2>3. IsFiniteSet(Announcing(g, e)) /\ Cardinality(Announcing(g, e)) \in Nat
      BY FS_CardinalityType DEF FinalCount
    <2>4. finals[g][e] + Cardinality(Announcing(g, e)) <= statusEdits + 1
      BY <2>3, Numbers DEF FinalCount
    <2> DEFINE A == Announcing(g, e)
    <2> QED BY <2>1, <2>2, <2>3, <2>4, Numbers DEF FinalCount
  <1>6. CASE Restart
    <2>1. /\ \A q \in Procs : call'[q].step = "idle"
          /\ UNCHANGED <<finals, statusEdits, event>>
      BY <1>6 DEF Restart, Idle, rows, history
    <2>2. Announcing(g, e)' = {}  BY <2>1 DEF Announcing
    <2>3. IsFiniteSet({}) /\ Cardinality({}) = 0  BY FS_EmptySet
    <2>4. Cardinality(Announcing(g, e)) \in Nat  BY FS_CardinalityType DEF FinalCount
    <2> QED BY <2>1, <2>2, <2>3, <2>4, Numbers DEF FinalCount
  <1> QED BY <1>1, <1>2, <1>3, <1>4, <1>5, <1>6, EventCount, AnnounceCount, ListSteps DEF Loud

(***************************************************************************)
(* The end of a list is announced once to each group, whoever closes it at *)
(* the same time (closeEventGroups), and once more only for an event that  *)
(* the panel opened again.                                                 *)
(***************************************************************************)
THEOREM FinalOnceSafety == Spec => []FinalOnce
  <1> DEFINE Inv == \A g \in Groups, e \in Events : FinalCount(g, e)
  <1>1. ASSUME Init PROVE Inv
    <2> SUFFICES ASSUME NEW g \in Groups, NEW e \in Events PROVE FinalCount(g, e)  OBVIOUS
    <2>1. Announcing(g, e) = {}  BY <1>1 DEF Init, Idle, Announcing
    <2>2. IsFiniteSet({}) /\ Cardinality({}) = 0  BY FS_EmptySet
    <2> QED BY <1>1, <2>1, <2>2 DEF Init, FinalCount
  <1>2. ListSafe /\ Inv /\ [Next]_vars => Inv'
    <2> SUFFICES ASSUME ListSafe, Inv, [Next]_vars PROVE Inv'  OBVIOUS
    <2>1. ASSUME NEW g \in Groups, NEW e \in Events PROVE FinalCount(g, e)'  BY NextFinal
    <2> QED BY <2>1
  <1>3. ListSafe /\ Inv => FinalOnce
    <2> SUFFICES ASSUME ListSafe, Inv, NEW g \in Groups, NEW e \in Events
                 PROVE  finals[g][e] <= 1 + statusEdits
      BY DEF FinalOnce
    <2>1. FinalCount(g, e)  OBVIOUS
    <2>2. Cardinality(Announcing(g, e)) \in Nat  BY <2>1, FS_CardinalityType DEF FinalCount
    <2> QED BY <2>1, <2>2, Numbers DEF FinalCount
  <1> QED BY <1>1, <1>2, <1>3, ListIsSafe, PTL DEF Spec
=============================================================================
