-------------------------------- MODULE Catalog --------------------------------
(***************************************************************************)
(* The items of one list and the event that holds them: ItemsService and   *)
(* AuctionEventsService, with what of openListFromPanel and of             *)
(* publishItemToList gives items their auctions and their cards.           *)
(*                                                                         *)
(* A request of the panel runs from one query to the next, so requests     *)
(* interleave.  Items are identified by their place in the order of their  *)
(* creation; an item that was removed keeps its place and is not live.     *)
(* ListMode has the sending of the cards, message by message.              *)
(***************************************************************************)
EXTENDS Naturals, FiniteSets, Sequences, FiniteSetsExt

CONSTANTS
    Panels,    \* requests the server works on at a time
    Numbers,   \* numbers an administrator types
    Orders,    \* positions an administrator types
    Aliases,   \* variations of a name, normalised
    AliasMax,  \* ITEM_ALIAS_MAX_PER_ITEM
    MaxItems,  \* MAX_ITEMS_PER_LIST_BASIC
    Scripts,   \* bound: what an instance lets happen: under each name ...
    Legacy,    \* ... the orders of the items that are there without a number
    Budgets    \* ... and how many things of each kind may happen

Kinds == {"create", "renumber", "reorder", "remove", "alias", "event", "open", "fail"}

ASSUME CatalogAssumption ==
    /\ IsFiniteSet(Panels) /\ AliasMax \in Nat \ {0} /\ MaxItems \in Nat \ {0}
    /\ Numbers \cup Orders \subseteq Nat \ {0} /\ Budgets \in [Scripts -> [Kinds -> Nat]]
    /\ Legacy \in [Scripts -> Seq(Nat)]

VARIABLES
    event,    \* "open", "closed" or "gone"
    item,     \* the rows, in the order of their creation
    listed,   \* the engine has the list
    opening,  \* the items openListFromPanel has still to start, and where it is
    task,     \* the requests in work
    budget,   \* what may still happen
    answers,  \* history: creates answered: the item and what became of it
    edited    \* history: the panel renumbered, reordered or removed an item

vars == <<event, item, listed, opening, task, budget, answers, edited>>
history == <<answers, edited>>

None == 0   \* no number, no item
Row(number, order) == [live |-> TRUE, number |-> number, order |-> order, aliases |-> {},
                       auction |-> "none", started |-> 0, card |-> None]
Idle     == [kind |-> "none", step |-> "idle", id |-> None, number |-> None, aliases |-> {},
             todo |-> <<>>, used |-> {}, order |-> 0]
NotOpening == [step |-> "idle", todo |-> <<>>]

Spend(kind)  == budget[kind] > 0 /\ budget' = [budget EXCEPT ![kind] = @ - 1]
End(p)       == task' = [task EXCEPT ![p] = Idle]
At(p, kind, step) == task[p].kind = kind /\ task[p].step = step
Goto(p, s)   == task' = [task EXCEPT ![p].step = s]

Live         == {i \in DOMAIN item : item[i].live}
Taken(of)    == {item[i].number : i \in of} \ {None}
\* The unique index on the event and the number, which says nothing of rows without one.
Unique(i, n) == n = None \/ n \notin Taken(Live \ {i})
LowestFree(used) == Min({n \in 1 .. Cardinality(used) + 1 : n \notin used})

\* Rows by order, then by age: the k-th is the one with k rows up to it.
Before(i, j) == \/ item[i].order < item[j].order
                \/ item[i].order = item[j].order /\ i < j
Sorted(ids)  == [k \in 1 .. Cardinality(ids) |->
                    CHOOSE i \in ids : Cardinality({j \in ids : ~Before(i, j)}) = k]

-----------------------------------------------------------------------------
(***************************************************************************)
(* listAuctionSnapshot: the auctions of the list, by the order of their    *)
(* items and then by when they began; an item without a number is shown    *)
(* with its position, the number of auctions up to its own.                *)
(***************************************************************************)
Auctioned == {i \in Live : item[i].auction # "none"}
Sooner(i, j) == \/ item[i].order < item[j].order
                \/ item[i].order = item[j].order /\ item[i].started < item[j].started
Position(i)  == Cardinality({j \in Auctioned : ~Sooner(i, j)})
\* Mutant: the items are shown with their positions.
ShownMutant(i) == Position(i)
Shown(i)       == IF item[i].number # None THEN item[i].number ELSE Position(i)

Begun == Cardinality({i \in DOMAIN item : item[i].auction # "none"})
Start(i) == item' = [item EXCEPT ![i].auction = "open", ![i].started = Begun + 1]

-----------------------------------------------------------------------------
(***************************************************************************)
(* ItemsService.create.                                                    *)
(***************************************************************************)
Answer(p, what) == /\ answers' = Append(answers, [id |-> task[p].id, what |-> what])
                   /\ End(p)
Refuse(p)       == Answer(p, "refused") /\ UNCHANGED <<event, item, listed, opening, edited>>

\* prepareAliasPayload has refused too many variations, or the same one twice.
Create(p) ==
    /\ task[p] = Idle /\ Spend("create")
    /\ \E n \in Numbers \cup {None}, o \in Orders \cup {0}, names \in SUBSET Aliases :
           /\ Cardinality(names) <= AliasMax
           /\ task' = [task EXCEPT ![p] = [Idle EXCEPT !.kind = "create", !.step = "event",
                                                       !.number = n, !.order = o, !.aliases = names]]
    /\ UNCHANGED <<event, item, listed, opening, history>>

ensureOpen(p) ==
    /\ At(p, "create", "event") /\ UNCHANGED budget
    /\ IF event # "open" THEN Refuse(p)
       ELSE Goto(p, "limit") /\ UNCHANGED <<event, item, listed, opening, history>>

Full == Cardinality(Live) >= MaxItems

assertCanAddItemToEvent(p) ==
    /\ At(p, "create", "limit") /\ UNCHANGED budget
    /\ IF Full THEN Refuse(p)
       ELSE Goto(p, "siblings") /\ UNCHANGED <<event, item, listed, opening, history>>

\* Mutant: the items of old lists are left without a number.
UnnumberedMutant == <<>>
Unnumbered       == Sorted({i \in Live : item[i].number = None})

ReadSiblings(p) ==
    /\ At(p, "create", "siblings")
    /\ task' = [task EXCEPT ![p].todo = Unnumbered, ![p].used = Taken(Live),
                            ![p].order = IF @ # 0 THEN @ ELSE Max({item[i].order : i \in Live} \cup {0}) + 1,
                            ![p].step = IF Unnumbered = <<>> THEN "insert" ELSE "fill"]
    /\ UNCHANGED <<event, item, listed, opening, budget, history>>

\* An item of an old list gets its number; one that is gone or a number in use ends the request.
FillNumber(p) ==
    LET i == Head(task[p].todo)  n == LowestFree(task[p].used) IN
    /\ At(p, "create", "fill") /\ UNCHANGED budget
    /\ IF ~item[i].live \/ ~Unique(i, n) THEN Refuse(p)
       ELSE /\ item' = [item EXCEPT ![i].number = n]
            /\ task' = [task EXCEPT ![p].todo = Tail(@), ![p].used = @ \cup {n},
                                    ![p].step = IF Len(task[p].todo) = 1 THEN "insert" ELSE "fill"]
            /\ UNCHANGED <<event, listed, opening, history>>

Insert(p) ==
    LET n == IF task[p].number = None THEN LowestFree(task[p].used) ELSE task[p].number IN
    /\ At(p, "create", "insert") /\ UNCHANGED budget
    /\ IF n \in task[p].used \/ ~Unique(None, n) \/ event = "gone" THEN Refuse(p)
       ELSE /\ item' = Append(item, Row(n, task[p].order))
            /\ task' = [task EXCEPT ![p].id = Len(item) + 1,
                                    ![p].step = IF task[p].aliases = {} THEN "publish" ELSE "aliases"]
            /\ UNCHANGED <<event, listed, opening, history>>

\* The variations are written, or are not and the item is taken back.
SaveAliases(p) ==
    /\ At(p, "create", "aliases") /\ item[task[p].id].live /\ UNCHANGED budget
    /\ item' = [item EXCEPT ![task[p].id].aliases = {[value |-> a, active |-> TRUE] : a \in task[p].aliases}]
    /\ Goto(p, "publish")
    /\ UNCHANGED <<event, listed, opening, history>>

AliasesFail(p) ==
    /\ At(p, "create", "aliases") /\ Goto(p, "undo")
    /\ IF item[task[p].id].live THEN Spend("fail") ELSE UNCHANGED budget
    /\ UNCHANGED <<event, item, listed, opening, history>>

UndoMutant(p) == At(p, "create", "undo") /\ UNCHANGED budget /\ Refuse(p)
Undo(p) ==
    /\ At(p, "create", "undo")
    /\ \/ /\ item' = [item EXCEPT ![task[p].id].live = FALSE]
          /\ Answer(p, "refused") /\ UNCHANGED budget
       \/ Answer(p, "left") /\ Spend("fail") /\ UNCHANGED item
    /\ UNCHANGED <<event, listed, opening, edited>>

\* publishItemToList: the auction of the item and its card.
Publish(p) ==
    LET i == task[p].id  number == item[i].number IN
    /\ At(p, "create", "publish") /\ Answer(p, "accepted") /\ UNCHANGED budget
    /\ item' = IF event = "open" /\ item[i].live /\ listed
                  /\ item[i].card = None /\ item[i].auction \in {"none", "open"}
               THEN [item EXCEPT ![i].auction = "open", ![i].card = number,
                                 ![i].started = IF @ = 0 THEN Begun + 1 ELSE @]
               ELSE item
    /\ UNCHANGED <<event, listed, opening, edited>>

-----------------------------------------------------------------------------
(***************************************************************************)
(* ItemsService.update and remove.                                         *)
(***************************************************************************)
\* A number that is cleared becomes the lowest free one.
ReadNumber(p, i, n) ==
    LET target == IF n = None THEN LowestFree(Taken(Live)) ELSE n IN
    /\ task[p] = Idle /\ item[i].live /\ Unique(i, target) /\ Spend("renumber")
    /\ task' = [task EXCEPT ![p] = [Idle EXCEPT !.kind = "renumber", !.step = "write",
                                                !.id = i, !.number = target]]
    /\ UNCHANGED <<event, item, listed, opening, history>>

WriteNumber(p) ==
    LET i == task[p].id  n == task[p].number IN
    /\ At(p, "renumber", "write") /\ End(p)
    /\ item' = IF item[i].live /\ Unique(i, n) THEN [item EXCEPT ![i].number = n] ELSE item
    /\ edited' = TRUE
    /\ UNCHANGED <<event, listed, opening, budget, answers>>

Reorder(i) ==
    /\ item[i].live /\ Spend("reorder")
    /\ \E o \in Orders : item' = [item EXCEPT ![i].order = o]
    /\ edited' = TRUE
    /\ UNCHANGED <<event, listed, opening, task, answers>>

\* The variations go with the item; its auction stays, of no item.
RemoveItem(i) ==
    /\ item[i].live /\ Spend("remove")
    /\ item' = [item EXCEPT ![i].live = FALSE, ![i].aliases = {}]
    /\ edited' = TRUE
    /\ UNCHANGED <<event, listed, opening, task, answers>>

-----------------------------------------------------------------------------
(***************************************************************************)
(* The variations of an item.                                              *)
(***************************************************************************)
ValuesOf(i) == {a.value : a \in item[i].aliases}

\* createAlias: the count, then the row.
CountAliases(p, i, a) ==
    /\ task[p] = Idle /\ item[i].live /\ Spend("alias")
    /\ a \notin ValuesOf(i) /\ Cardinality(item[i].aliases) < AliasMax
    /\ task' = [task EXCEPT ![p] = [Idle EXCEPT !.kind = "alias", !.step = "write",
                                                !.id = i, !.aliases = {a}]]
    /\ UNCHANGED <<event, item, listed, opening, history>>

createAlias(p) ==
    LET i == task[p].id  new == task[p].aliases IN
    /\ At(p, "alias", "write") /\ End(p)
    /\ item' = IF item[i].live /\ new \cap ValuesOf(i) = {}
               THEN [item EXCEPT ![i].aliases = @ \cup {[value |-> a, active |-> TRUE] : a \in new}]
               ELSE item
    /\ UNCHANGED <<event, listed, opening, budget, history>>

\* The index on the item and the value decides, whatever was read before.
updateAlias(i) ==
    /\ item[i].live /\ Spend("alias")
    /\ \E old \in item[i].aliases, a \in Aliases, on \in BOOLEAN :
           /\ a \notin ValuesOf(i) \ {old.value}
           /\ item' = [item EXCEPT ![i].aliases = (@ \ {old}) \cup {[value |-> a, active |-> on]}]
    /\ UNCHANGED <<event, listed, opening, task, history>>

removeAlias(i) ==
    /\ item[i].live /\ Spend("alias")
    /\ \E old \in item[i].aliases : item' = [item EXCEPT ![i].aliases = @ \ {old}]
    /\ UNCHANGED <<event, listed, opening, task, history>>

-----------------------------------------------------------------------------
(***************************************************************************)
(* The event, and openListFromPanel.                                       *)
(***************************************************************************)
\* AuctionEventsService.update: the status alone; auctions and list stay as they are.
UpdateEvent ==
    /\ event # "gone" /\ Spend("event")
    /\ event' \in {"open", "closed"} \ {event}
    /\ UNCHANGED <<item, listed, opening, task, history>>

CloseEvent ==
    /\ event = "open" /\ Spend("event")
    /\ event' = "closed" /\ listed' = FALSE
    /\ item' = [i \in DOMAIN item |-> [item[i] EXCEPT !.auction = IF @ = "open" THEN "closed" ELSE @]]
    /\ UNCHANGED <<opening, task, history>>

\* The items go with the event; the auctions and the list in memory do not.
RemoveEvent ==
    /\ event # "gone" /\ Spend("event")
    /\ event' = "gone" /\ edited' = TRUE
    /\ item' = [i \in DOMAIN item |-> [item[i] EXCEPT !.live = FALSE, !.aliases = {}]]
    /\ UNCHANGED <<listed, opening, task, answers>>

\* syncNewItems reads the items that have no auction.
OpenList ==
    /\ opening = NotOpening /\ Spend("open")
    /\ listed \/ event = "open"
    /\ listed' = TRUE
    /\ opening' = [step |-> "start", todo |-> Sorted({i \in Live : item[i].auction = "none"})]
    /\ UNCHANGED <<event, item, task, history>>

\* An item that is gone meanwhile ends it all.
StartNext ==
    /\ opening.step = "start" /\ opening.todo # <<>>
    /\ LET i == Head(opening.todo) IN
       IF ~item[i].live THEN opening' = NotOpening /\ UNCHANGED item
       ELSE /\ opening' = [opening EXCEPT !.todo = Tail(@)]
            /\ IF item[i].auction = "none" THEN Start(i) ELSE UNCHANGED item
    /\ UNCHANGED <<event, listed, task, budget, history>>

\* The cards show what the snapshot does.
SendCards ==
    /\ opening.step = "start" /\ opening.todo = <<>> /\ opening' = NotOpening
    /\ item' = [i \in DOMAIN item |->
            IF i \in Auctioned /\ item[i].auction = "open" /\ item[i].card = None
            THEN [item[i] EXCEPT !.card = Shown(i)] ELSE item[i]]
    /\ UNCHANGED <<event, listed, task, budget, history>>

-----------------------------------------------------------------------------
Init ==
    \E script \in Scripts :
        /\ budget = Budgets[script]
        /\ item = [i \in DOMAIN Legacy[script] |-> Row(None, Legacy[script][i])]
        /\ event = "open" /\ listed = FALSE /\ opening = NotOpening
        /\ task = [p \in Panels |-> Idle]
        /\ answers = <<>> /\ edited = FALSE

Request(p) ==
    \/ Create(p) \/ ensureOpen(p) \/ assertCanAddItemToEvent(p) \/ ReadSiblings(p) \/ FillNumber(p)
    \/ Insert(p) \/ SaveAliases(p) \/ AliasesFail(p) \/ Undo(p) \/ Publish(p)
    \/ WriteNumber(p) \/ createAlias(p)
    \/ \E i \in DOMAIN item : \/ \E n \in Numbers \cup {None} : ReadNumber(p, i, n)
                              \/ \E a \in Aliases : CountAliases(p, i, a)

Next ==
    \/ \E p \in Panels : Request(p)
    \/ \E i \in DOMAIN item : Reorder(i) \/ RemoveItem(i) \/ updateAlias(i) \/ removeAlias(i)
    \/ UpdateEvent \/ CloseEvent \/ RemoveEvent \/ OpenList \/ StartNext \/ SendCards

Spec == Init /\ [][Next]_vars
-----------------------------------------------------------------------------
(***************************************************************************)
(* Properties.                                                             *)
(***************************************************************************)
\* The number on the card of an item is the number a bid on it needs, and no other item's,
\* however creates, their filling of old lists and the opening of the list interleave, as
\* long as the panel does not renumber, reorder or remove items (create, listAuctionSnapshot).
CardNamesItem ==
    ~edited => \A i \in Auctioned :
        /\ item[i].card # None => Shown(i) = item[i].card
        /\ \A j \in Auctioned \ {i} : Shown(j) # Shown(i)

\* A create that answers an error leaves no item, unless taking it back fails as well
\* ("valida tudo ANTES de criar o item para não deixar o cadastro pela metade").
NoHalfItem ==
    \A k \in DOMAIN answers :
        answers[k].what = "refused" /\ answers[k].id # None => ~item[answers[k].id].live

\* Does not hold: an item that was taken back was never published ("Ainda não foi publicado
\* no WhatsApp: desfaz"); the list may be opened between the item and its variations.
NeverPublishedHalf ==
    \A k \in DOMAIN answers :
        answers[k].what # "accepted" /\ answers[k].id # None => item[answers[k].id].card = None

\* Does not hold: an event is removed only while no item of it was auctioned ("Só é
\* permitido quando ainda não há leilões realizados nem itens em leilão").
RemovedUnused == event = "gone" => \A i \in DOMAIN item : item[i].auction = "none"
=============================================================================
