----------------------------- MODULE CatalogProofs -----------------------------
(***************************************************************************)
(* What holds of Catalog for any number of requests at a time, any numbers *)
(* and names the panel types, and any old list:                            *)
(*   RemovedForGood  an item keeps its place, and none comes back;         *)
(*   NoHalfSafety    NoHalfItem: a refused create leaves no item;          *)
(*   CardNamesSafety CardNamesItem: the number on a card names its item.   *)
(***************************************************************************)
EXTENDS Catalog, FiniteSetTheorems, TLAPS

\* What the proofs need of the shape of a row and of a request.
RowFields  == {"live", "number", "order", "aliases", "auction", "started", "card"}
TaskFields == {"kind", "step", "id", "number", "aliases", "todo", "used", "order"}
IsRow(x)   == x = [f \in RowFields |-> x[f]] /\ x.live \in BOOLEAN
IsTask(x)  == x = [f \in TaskFields |-> x[f]]

Items(s) == (\E S : s \in Seq(S)) /\ \A i \in DOMAIN s : IsRow(s[i])
Shaped   == /\ Items(item)
            /\ DOMAIN task = Panels /\ \A p \in Panels : IsTask(task[p])
            /\ answers \in Seq([id : Nat, what : {"accepted", "refused", "left"}])

\* The steps of a create before it has an item, and with one.
WithoutItem == {"event", "limit", "siblings", "fill", "insert"}
WithItem  == {"aliases", "undo", "publish"}

\* Where a request stands: the item it made is there, or there is none yet.
Stands(x) == /\ x.id \in DOMAIN item \cup {None}
             /\ x.kind = "create" /\ x.step \in WithoutItem => x.id = None
             /\ x.kind = "create" /\ x.step \in WithItem => x.id # None
Gone(i)   == i \in DOMAIN item /\ ~item[i].live
Tidy == /\ \A p \in Panels : Stands(task[p])
        /\ \A k \in DOMAIN answers :
             answers[k].what = "refused" /\ answers[k].id # None => Gone(answers[k].id)

HalfInv == Shaped /\ Tidy

\* Items are only added, and those that are gone stay gone.
OnlyGo == /\ DOMAIN item \subseteq DOMAIN item'
          /\ \A i \in DOMAIN item : item'[i].live => item[i].live

LEMMA Rows == /\ \A n, o : IsRow(Row(n, o)) /\ IsTask(Idle) /\ Idle.id = None /\ Idle.kind = "none"
  BY DEF Row, IsRow, Idle, IsTask, RowFields, TaskFields

LEMMA Places == ASSUME Items(item) PROVE DOMAIN item = 1 .. Len(item) /\ Len(item) \in Nat
  BY DEF Items

LEMMA HalfInit == Init => HalfInv
  <1>. SUFFICES ASSUME Init PROVE HalfInv
    OBVIOUS
  <1>1. PICK script \in Scripts :
          item = [i \in DOMAIN Legacy[script] |-> Row(None, Legacy[script][i])]
    BY DEF Init
  <1>2. Legacy[script] \in Seq(Nat)
    BY CatalogAssumption
  <1>3. \A i \in DOMAIN item : IsRow(item[i])
    BY <1>1, Rows
  <1>4. DOMAIN item = 1 .. Len(Legacy[script]) /\ Len(Legacy[script]) \in Nat
    BY <1>1, <1>2
  <1>5. item \in Seq({item[i] : i \in DOMAIN item})
    <2>. DEFINE n == Len(Legacy[script])
                S == {item[i] : i \in DOMAIN item}
    <2>1. item = [i \in 1 .. n |-> item[i]]
      BY <1>1, <1>4
    <2>2. \A i \in 1 .. n : item[i] \in S
      BY <1>4
    <2>. HIDE DEF n, S
    <2>. QED  BY <2>1, <2>2, <1>4 DEF n
  <1>6. Items(item)
    BY <1>3, <1>5 DEF Items
  <1>7. task = [p \in Panels |-> Idle] /\ answers = <<>>
    BY DEF Init
  <1>8. Shaped
    BY <1>6, <1>7, Rows DEF Shaped
  <1>9. Tidy
    BY <1>7, Rows DEF Tidy, Stands
  <1>. QED  BY <1>8, <1>9 DEF HalfInv

-----------------------------------------------------------------------------
(***************************************************************************)
(* What a step does to the items.                                          *)
(***************************************************************************)
LEMMA SameItems == ASSUME Items(item), UNCHANGED item PROVE Items(item') /\ OnlyGo
  BY DEF OnlyGo

\* One row is written again and is not live again.
LEMMA OneItem ==
    ASSUME Items(item), NEW i, NEW x, IsRow(x), x.live => item[i].live,
           item' = [item EXCEPT ![i] = x]
    PROVE  Items(item') /\ OnlyGo
  <1>1. PICK S : item \in Seq(S)
    BY DEF Items
  <1>2. item' \in Seq(S \cup {x})
    <2>1. item \in [1 .. Len(item) -> S] /\ Len(item) \in Nat
      BY <1>1
    <2>2. item' \in [1 .. Len(item) -> S \cup {x}]
      BY <2>1
    <2>. QED  BY <2>1, <2>2
  <1>3. DOMAIN item' = DOMAIN item
    BY <1>1
  <1>4. \A j \in DOMAIN item : item'[j] = IF j = i THEN x ELSE item[j]
    BY <1>1
  <1>5. Items(item')
    BY <1>2, <1>3, <1>4 DEF Items
  <1>. QED  BY <1>3, <1>4, <1>5 DEF OnlyGo

\* Every row is written again.
LEMMA AllItems ==
    ASSUME Items(item), DOMAIN item' = DOMAIN item, item' = [i \in DOMAIN item |-> item'[i]],
           \A i \in DOMAIN item : IsRow(item'[i]) /\ (item'[i].live => item[i].live)
    PROVE  Items(item') /\ OnlyGo
  <1>. DEFINE n == Len(item)
              S == {item'[i] : i \in DOMAIN item}
  <1>1. DOMAIN item = 1 .. n /\ n \in Nat
    BY Places
  <1>2. \A i \in 1 .. n : item'[i] \in S
    BY <1>1
  <1>3. item' = [i \in 1 .. n |-> item'[i]]
    BY <1>1
  <1>. HIDE DEF n, S
  <1>4. item' \in Seq(S)
    BY <1>1, <1>2, <1>3
  <1>. QED  BY <1>4 DEF Items, OnlyGo

\* A row is added.
LEMMA MoreItems ==
    ASSUME Items(item), NEW x, IsRow(x), item' = Append(item, x)
    PROVE  Items(item') /\ OnlyGo /\ Len(item) + 1 \in DOMAIN item' /\ Len(item) + 1 # None
  <1>1. PICK S : item \in Seq(S)
    BY DEF Items
  <1>2. item \in Seq(S \cup {x}) /\ x \in S \cup {x}
    BY <1>1
  <1>3. item' \in Seq(S \cup {x}) /\ DOMAIN item' = 1 .. Len(item) + 1 /\ Len(item) \in Nat
    BY <1>2
  <1>4. \A i \in DOMAIN item' : item'[i] = IF i = Len(item) + 1 THEN x ELSE item[i]
    BY <1>2, <1>3
  <1>5. DOMAIN item = 1 .. Len(item)
    BY <1>1
  <1>6. Items(item')
    BY <1>3, <1>4, <1>5 DEF Items
  <1>7. OnlyGo
    BY <1>3, <1>4, <1>5 DEF OnlyGo
  <1>. QED  BY <1>3, <1>6, <1>7 DEF None

-----------------------------------------------------------------------------
(***************************************************************************)
(* What a step does to the requests and to what was answered.              *)
(***************************************************************************)
\* A request that goes no further than another and keeps what it made.
LEMMA StandsStill == ASSUME NEW x, Stands(x), OnlyGo PROVE Stands(x)'
  BY DEF Stands, OnlyGo

LEMMA Kept ==
    ASSUME HalfInv, Items(item'), OnlyGo, UNCHANGED answers,
           DOMAIN task' = Panels, \A p \in Panels : IsTask(task'[p]),
           \A p \in Panels : task'[p] = task[p] \/ Stands(task[p])'
    PROVE  HalfInv' /\ OnlyGo
  <1>1. Shaped'
    BY DEF HalfInv, Shaped
  <1>2. \A p \in Panels : Stands(task[p])'
    BY StandsStill DEF HalfInv, Tidy, Stands, OnlyGo
  <1>3. \A i : Gone(i) => Gone(i)'
    BY DEF Gone, OnlyGo, HalfInv, Shaped, Items, IsRow
  <1>4. Tidy'
    BY <1>2, <1>3 DEF HalfInv, Tidy
  <1>. QED  BY <1>1, <1>4 DEF HalfInv

-----------------------------------------------------------------------------
(***************************************************************************)
(* The steps of a request.                                                 *)
(***************************************************************************)
\* The request moves and nothing else does, of what the invariant speaks of.
LEMMA Moves ==
    ASSUME HalfInv, NEW p \in Panels, NEW x, IsTask(x), task' = [task EXCEPT ![p] = x],
           Items(item'), OnlyGo, UNCHANGED answers, Stands(x)'
    PROVE  HalfInv' /\ OnlyGo
  <1>1. DOMAIN task' = Panels /\ \A q \in Panels : task'[q] = IF q = p THEN x ELSE task[q]
    BY DEF HalfInv, Shaped
  <1>2. \A q \in Panels : IsTask(task'[q])
    BY <1>1 DEF HalfInv, Shaped
  <1>3. \A q \in Panels : task'[q] = task[q] \/ Stands(task[q])'
    BY <1>1
  <1>. QED  BY <1>1, <1>2, <1>3, Kept

LEMMA GotoMoves ==
    ASSUME HalfInv, NEW p \in Panels, NEW s, Goto(p, s), Items(item'), OnlyGo,
           UNCHANGED answers, s \in WithoutItem \cup WithItem, task[p].step \in WithoutItem \cup WithItem,
           s \in WithoutItem <=> task[p].step \in WithoutItem
    PROVE  HalfInv' /\ OnlyGo
  <1>. DEFINE x == [task[p] EXCEPT !.step = s]
  <1>1. IsTask(task[p]) /\ Stands(task[p])
    BY DEF HalfInv, Shaped, Tidy
  <1>2. IsTask(x) /\ x.id = task[p].id /\ x.kind = task[p].kind /\ x.step = s
    BY <1>1 DEF IsTask, TaskFields
  <1>3. task' = [task EXCEPT ![p] = x]
    BY Zenon DEF Goto
  <1>. HIDE DEF x
  <1>4. Stands(x)
    BY <1>1, <1>2 DEF Stands, WithoutItem, WithItem
  <1>. QED  BY <1>2, <1>3, <1>4, StandsStill, Moves

LEMMA EndMoves ==
    ASSUME HalfInv, NEW p \in Panels, End(p), Items(item'), OnlyGo, UNCHANGED answers
    PROVE  HalfInv' /\ OnlyGo
  <1>1. task' = [task EXCEPT ![p] = Idle]
    BY DEF End
  <1>2. Stands(Idle)
    BY Rows DEF Stands
  <1>. QED  BY <1>1, <1>2, Rows, StandsStill, Moves

\* A create is answered: what it leaves is what it says.
LEMMA AnswerMoves ==
    ASSUME HalfInv, NEW p \in Panels, NEW what \in {"accepted", "refused", "left"},
           Answer(p, what), Items(item'), OnlyGo,
           NEW id, id = task[p].id, what = "refused" /\ id # None => Gone(id)'
    PROVE  HalfInv' /\ OnlyGo
  <1>. DEFINE a == [id |-> task[p].id, what |-> what]
  <1>1. /\ answers' = Append(answers, a)
        /\ task' = [task EXCEPT ![p] = Idle]
    BY DEF Answer, End
  <1>2. Stands(task[p])
    BY DEF HalfInv, Tidy
  <1>3. task[p].id \in Nat
    BY <1>2, Places DEF Stands, HalfInv, Shaped, None
  <1>4. a \in [id : Nat, what : {"accepted", "refused", "left"}] /\ a.id = task[p].id /\ a.what = what
    BY <1>3
  <1>. HIDE DEF a
  <1>5. answers' \in Seq([id : Nat, what : {"accepted", "refused", "left"}])
    BY <1>1, <1>4 DEF HalfInv, Shaped
  <1>6. \A k \in DOMAIN answers' :
            \/ answers'[k] = a
            \/ k \in DOMAIN answers /\ answers'[k] = answers[k]
    BY <1>1, <1>4 DEF HalfInv, Shaped
  <1>7. DOMAIN task' = Panels /\ \A q \in Panels : task'[q] = IF q = p THEN Idle ELSE task[q]
    BY <1>1 DEF HalfInv, Shaped
  <1>8. Shaped'
    BY <1>5, <1>7, Rows DEF HalfInv, Shaped
  <1>9. \A i : Gone(i) => Gone(i)'
    BY DEF Gone, OnlyGo, HalfInv, Shaped, Items, IsRow
  <1>10. (\A q \in Panels : Stands(task[q]))'
    <2>1. \A x : Stands(x) => Stands(x)'
      BY DEF Stands, OnlyGo
    <2>2. Stands(Idle)
      BY Rows DEF Stands
    <2>. QED  BY <1>7, <2>1, <2>2 DEF HalfInv, Tidy
  <1>11. (\A k \in DOMAIN answers :
              answers[k].what = "refused" /\ answers[k].id # None => Gone(answers[k].id))'
    <2>. SUFFICES ASSUME NEW k \in DOMAIN answers', answers'[k].what = "refused",
                         answers'[k].id # None
                  PROVE  \A i : i = answers'[k].id => Gone(i)'
      OBVIOUS
    <2>1. CASE answers'[k] = a
      BY <1>4, <2>1
    <2>2. CASE k \in DOMAIN answers /\ answers'[k] = answers[k]
      <3>1. Gone(answers[k].id)
        BY <2>2 DEF HalfInv, Tidy
      <3>. QED  BY <1>9, <2>2, <3>1
    <2>. QED  BY <1>6, <2>1, <2>2
  <1>. QED  BY <1>8, <1>10, <1>11 DEF HalfInv, Tidy

LEMMA RefuseMoves ==
    ASSUME HalfInv, NEW p \in Panels, At(p, "create", task[p].step), task[p].step \in WithoutItem,
           Refuse(p)
    PROVE  HalfInv' /\ OnlyGo
  <1>1. task[p].id = None
    BY DEF At, HalfInv, Tidy, Stands
  <1>2. Items(item') /\ OnlyGo
    BY SameItems DEF Refuse, HalfInv, Shaped
  <1>. QED  BY <1>1, <1>2, AnswerMoves DEF Refuse

LEMMA CreateHalf == ASSUME HalfInv, NEW p \in Panels, Create(p) PROVE HalfInv' /\ OnlyGo
  <1>1. PICK n \in Numbers \cup {None}, o \in Orders \cup {0}, names \in SUBSET Aliases :
          task' = [task EXCEPT ![p] = [Idle EXCEPT !.kind = "create", !.step = "event",
                                                   !.number = n, !.order = o, !.aliases = names]]
    BY DEF Create
  <1>. DEFINE x == [Idle EXCEPT !.kind = "create", !.step = "event",
                                !.number = n, !.order = o, !.aliases = names]
  <1>2. IsTask(x) /\ x.id = None /\ x.step = "event"
    BY Rows DEF Idle, IsTask, TaskFields
  <1>3. task' = [task EXCEPT ![p] = x]
    BY <1>1
  <1>. HIDE DEF x
  <1>4. Stands(x)
    BY <1>2 DEF Stands, WithItem
  <1>5. Items(item') /\ OnlyGo /\ UNCHANGED answers
    BY SameItems DEF Create, HalfInv, Shaped, history
  <1>. QED  BY <1>2, <1>3, <1>4, <1>5, StandsStill, Moves

LEMMA ChecksHalf ==
    ASSUME HalfInv, NEW p \in Panels, ensureOpen(p) \/ assertCanAddItemToEvent(p)
    PROVE  HalfInv' /\ OnlyGo
  <1>1. CASE Refuse(p)
    BY <1>1, RefuseMoves DEF ensureOpen, assertCanAddItemToEvent, At, WithoutItem
  <1>2. CASE ~Refuse(p)
    <2>1. Items(item') /\ OnlyGo /\ UNCHANGED answers
      BY <1>2, SameItems DEF ensureOpen, assertCanAddItemToEvent, HalfInv, Shaped, history
    <2>2. PICK s \in {"limit", "siblings"} : Goto(p, s)
      BY <1>2 DEF ensureOpen, assertCanAddItemToEvent
    <2>3. task[p].step \in WithoutItem
      BY DEF ensureOpen, assertCanAddItemToEvent, At, WithoutItem
    <2>4. s \in WithoutItem
      BY DEF WithoutItem
    <2>. QED  BY <2>1, <2>2, <2>3, <2>4, GotoMoves
  <1>. QED  BY <1>1, <1>2

LEMMA SiblingsHalf == ASSUME HalfInv, NEW p \in Panels, ReadSiblings(p) PROVE HalfInv' /\ OnlyGo
  <1>. DEFINE o == IF task[p].order # 0 THEN task[p].order
                   ELSE Max({item[i].order : i \in Live} \cup {0}) + 1
              s == IF Unnumbered = <<>> THEN "insert" ELSE "fill"
              x == [[[[task[p] EXCEPT !.todo = Unnumbered] EXCEPT !.used = Taken(Live)]
                     EXCEPT !.order = o] EXCEPT !.step = s]
  <1>1. task' = [task EXCEPT ![p] = x]
    BY Zenon DEF ReadSiblings
  <1>2. IsTask(task[p]) /\ Stands(task[p]) /\ task[p].kind = "create" /\ task[p].step = "siblings"
    BY DEF HalfInv, Shaped, Tidy, ReadSiblings, At
  <1>3. s \in WithoutItem
    BY DEF WithoutItem
  <1>. HIDE DEF o, s
  <1>4. IsTask(x) /\ x.id = task[p].id /\ x.kind = "create" /\ x.step = s
    BY <1>2 DEF IsTask, TaskFields
  <1>. HIDE DEF x
  <1>5. Stands(x)
    BY <1>2, <1>3, <1>4 DEF Stands, WithoutItem, WithItem
  <1>6. Items(item') /\ OnlyGo /\ UNCHANGED answers
    BY SameItems DEF ReadSiblings, HalfInv, Shaped, history
  <1>. QED  BY <1>1, <1>4, <1>5, <1>6, StandsStill, Moves

LEMMA FillHalf == ASSUME HalfInv, NEW p \in Panels, FillNumber(p) PROVE HalfInv' /\ OnlyGo
  <1>1. CASE Refuse(p)
    BY <1>1, RefuseMoves DEF FillNumber, At, WithoutItem
  <1>2. CASE ~Refuse(p)
    <2>. DEFINE i == Head(task[p].todo)
                n == LowestFree(task[p].used)
                s == IF Len(task[p].todo) = 1 THEN "insert" ELSE "fill"
                x == [[[task[p] EXCEPT !.todo = Tail(@)] EXCEPT !.used = @ \cup {n}] EXCEPT !.step = s]
                y == [item[i] EXCEPT !.number = n]
    <2>1. /\ item[i].live /\ item' = [item EXCEPT ![i] = y] /\ UNCHANGED answers
          /\ task' = [task EXCEPT ![p] = [task[p] EXCEPT !.todo = Tail(@), !.used = @ \cup {n},
                                                         !.step = s]]
      BY <1>2, Zenon DEF FillNumber, history
    <2>2. [task[p] EXCEPT !.todo = Tail(@), !.used = @ \cup {n}, !.step = s] = x
      OBVIOUS
    <2>3. IsTask(task[p]) /\ Stands(task[p]) /\ task[p].kind = "create" /\ task[p].step = "fill"
      BY DEF HalfInv, Shaped, Tidy, FillNumber, At
    <2>4. s \in WithoutItem
      BY DEF WithoutItem
    <2>5. i \in DOMAIN item => IsRow(item[i])
      BY DEF HalfInv, Shaped, Items
    <2>. HIDE DEF i, n, s
    <2>6. IsTask(x) /\ x.id = task[p].id /\ x.kind = "create" /\ x.step = s
      BY <2>3 DEF IsTask, TaskFields
    <2>7. Stands(x)
      BY <2>3, <2>4, <2>6 DEF Stands, WithoutItem, WithItem
    <2>8. Items(item') /\ OnlyGo
      <3>1. CASE i \in DOMAIN item
        <4>1. IsRow(y) /\ y.live = item[i].live
          BY <2>5, <3>1 DEF IsRow, RowFields
        <4>. HIDE DEF y
        <4>. QED  BY <2>1, <4>1, OneItem DEF HalfInv, Shaped
      <3>2. CASE i \notin DOMAIN item
        <4>. HIDE DEF y
        <4>1. item' = item
          BY <2>1, <3>2, Places DEF HalfInv, Shaped, Items
        <4>. QED  BY <4>1, SameItems DEF HalfInv, Shaped
      <3>. QED  BY <3>1, <3>2
    <2>9. task' = [task EXCEPT ![p] = x]
      BY <2>1, <2>2
    <2>. HIDE DEF x
    <2>. QED  BY <2>1, <2>6, <2>7, <2>8, <2>9, StandsStill, Moves
  <1>. QED  BY <1>1, <1>2
LEMMA InsertHalf == ASSUME HalfInv, NEW p \in Panels, Insert(p) PROVE HalfInv' /\ OnlyGo
  <1>1. CASE Refuse(p)
    BY <1>1, RefuseMoves DEF Insert, At, WithoutItem
  <1>2. CASE ~Refuse(p)
    <2>. DEFINE n == IF task[p].number = None THEN LowestFree(task[p].used) ELSE task[p].number
                s == IF task[p].aliases = {} THEN "publish" ELSE "aliases"
                id == Len(item) + 1
                x == [[task[p] EXCEPT !.id = id] EXCEPT !.step = s]
    <2>1. item' = Append(item, Row(n, task[p].order)) /\ UNCHANGED answers
          /\ task' = [task EXCEPT ![p] = x]
      BY <1>2, Zenon DEF Insert, history
    <2>2. IsTask(task[p]) /\ task[p].kind = "create"
      BY DEF HalfInv, Shaped, Insert, At
    <2>3. s \in WithItem
      BY DEF WithItem
    <2>. HIDE DEF n, s, id
    <2>4. IsTask(x) /\ x.id = id /\ x.kind = "create" /\ x.step = s
      BY <2>2 DEF IsTask, TaskFields
    <2>. HIDE DEF x
    <2>5. PICK z : z = x
      OBVIOUS
    <2>6. IsRow(Row(n, task[p].order))
      BY Rows
    <2>7. Items(item') /\ OnlyGo /\ id \in DOMAIN item' /\ id # None
      BY <2>1, <2>6, MoreItems DEF HalfInv, Shaped, id
    <2>8. z.step \notin WithoutItem /\ z.id \in DOMAIN item' /\ z.id # None
      BY <2>3, <2>4, <2>5, <2>7 DEF WithoutItem, WithItem
    <2>9. Stands(z)'
      BY <2>8 DEF Stands
    <2>. QED  BY <2>1, <2>4, <2>5, <2>7, <2>9, Moves
  <1>. QED  BY <1>1, <1>2

LEMMA AliasesHalf ==
    ASSUME HalfInv, NEW p \in Panels, SaveAliases(p) \/ AliasesFail(p)
    PROVE  HalfInv' /\ OnlyGo
  <1>1. task[p].step \in WithItem
    BY DEF SaveAliases, AliasesFail, At, WithItem
  <1>2. PICK s \in {"publish", "undo"} : Goto(p, s)
    BY DEF SaveAliases, AliasesFail
  <1>3. s \in WithItem /\ s \notin WithoutItem /\ task[p].step \notin WithoutItem
    BY <1>1 DEF WithItem, WithoutItem
  <1>4. UNCHANGED answers
    BY DEF SaveAliases, AliasesFail, history
  <1>5. Items(item') /\ OnlyGo
    <2>1. CASE SaveAliases(p)
      <3>. DEFINE i == task[p].id
                  y == [item[i] EXCEPT !.aliases =
                          {[value |-> a, active |-> TRUE] : a \in task[p].aliases}]
      <3>1. item' = [item EXCEPT ![i] = y]
        BY <2>1, Zenon DEF SaveAliases
      <3>2. i \in DOMAIN item
        BY <2>1 DEF SaveAliases, At, HalfInv, Tidy, Stands, WithItem
      <3>3. IsRow(item[i])
        BY <3>2 DEF HalfInv, Shaped, Items
      <3>. HIDE DEF i
      <3>4. IsRow(y) /\ y.live = item[i].live
        BY <3>3 DEF IsRow, RowFields
      <3>. HIDE DEF y
      <3>. QED  BY <3>1, <3>4, OneItem DEF HalfInv, Shaped
    <2>2. CASE AliasesFail(p)
      BY <2>2, SameItems DEF AliasesFail, HalfInv, Shaped
    <2>. QED  BY <2>1, <2>2
  <1>. QED  BY <1>1, <1>2, <1>3, <1>4, <1>5, GotoMoves

\* Taking the item back, or failing at that as well.
LEMMA UndoHalf == ASSUME HalfInv, NEW p \in Panels, Undo(p) PROVE HalfInv' /\ OnlyGo
  <1>. DEFINE i == task[p].id
              y == [item[i] EXCEPT !.live = FALSE]
  <1>1. CASE Answer(p, "left") /\ UNCHANGED item
    BY <1>1, SameItems, AnswerMoves DEF HalfInv, Shaped
  <1>2. CASE item' = [item EXCEPT ![i] = y] /\ Answer(p, "refused")
    <2>1. i \in DOMAIN item
      BY DEF Undo, At, HalfInv, Tidy, Stands, WithItem
    <2>2. IsRow(item[i])
      BY <2>1 DEF HalfInv, Shaped, Items
    <2>. HIDE DEF i
    <2>3. IsRow(y) /\ ~y.live
      BY <2>2 DEF IsRow, RowFields
    <2>. HIDE DEF y
    <2>4. Items(item') /\ OnlyGo
      BY <1>2, <2>3, OneItem DEF HalfInv, Shaped
    <2>5. DOMAIN item' = DOMAIN item /\ item'[i] = y
      BY <1>2, <2>1
    <2>6. PICK j : j = i
      OBVIOUS
    <2>7. Gone(j)'
      BY <2>1, <2>3, <2>5, <2>6 DEF Gone
    <2>. QED  BY <1>2, <2>4, <2>6, <2>7, AnswerMoves DEF i
  <1>3. item' = [item EXCEPT ![i].live = FALSE] => item' = [item EXCEPT ![i] = y]
    BY Zenon
  <1>. HIDE DEF i, y
  <1>. QED  BY <1>1, <1>2, <1>3 DEF Undo, i

LEMMA PublishHalf == ASSUME HalfInv, NEW p \in Panels, Publish(p) PROVE HalfInv' /\ OnlyGo
  <1>. DEFINE i == task[p].id
              t == IF item[i].started = 0 THEN Begun + 1 ELSE item[i].started
              y == [[[item[i] EXCEPT !.auction = "open"] EXCEPT !.card = item[i].number]
                    EXCEPT !.started = t]
  <1>1. item' = item \/ item' = [item EXCEPT ![i] = y]
    <2>1. [item EXCEPT ![i].auction = "open", ![i].card = item[i].number,
                       ![i].started = IF @ = 0 THEN Begun + 1 ELSE @] = [item EXCEPT ![i] = y]
      BY Zenon
    <2>. QED  BY <2>1, Zenon DEF Publish
  <1>2. i \in DOMAIN item
    BY DEF Publish, At, HalfInv, Tidy, Stands, WithItem
  <1>3. IsRow(item[i])
    BY <1>2 DEF HalfInv, Shaped, Items
  <1>. HIDE DEF i, t
  <1>4. IsRow(y) /\ y.live = item[i].live
    BY <1>3 DEF IsRow, RowFields
  <1>. HIDE DEF y
  <1>5. Items(item') /\ OnlyGo
    BY <1>1, <1>4, OneItem, SameItems DEF HalfInv, Shaped
  <1>. QED  BY <1>5, AnswerMoves DEF Publish

\* A request of another kind holds an item or none, and is no create.
LEMMA BeginsHalf ==
    ASSUME HalfInv, NEW p \in Panels, NEW i \in DOMAIN item,
           (\E n : ReadNumber(p, i, n)) \/ (\E a : CountAliases(p, i, a))
    PROVE  HalfInv' /\ OnlyGo
  <1>1. Items(item') /\ OnlyGo /\ UNCHANGED answers
    BY SameItems DEF ReadNumber, CountAliases, HalfInv, Shaped, history
  <1>2. ASSUME NEW x, IsTask(x), x.id = i, x.kind # "create", task' = [task EXCEPT ![p] = x]
        PROVE  HalfInv' /\ OnlyGo
    BY <1>1, <1>2, StandsStill, Moves DEF Stands
  <1>3. ASSUME NEW n, ReadNumber(p, i, n) PROVE HalfInv' /\ OnlyGo
    <2>1. PICK m : task' = [task EXCEPT ![p] = [Idle EXCEPT !.kind = "renumber", !.step = "write",
                                                            !.id = i, !.number = m]]
      BY <1>3 DEF ReadNumber
    <2>. DEFINE x == [Idle EXCEPT !.kind = "renumber", !.step = "write", !.id = i, !.number = m]
    <2>2. IsTask(x) /\ x.id = i /\ x.kind = "renumber"
      BY Rows DEF Idle, IsTask, TaskFields
    <2>3. task' = [task EXCEPT ![p] = x]
      BY <2>1
    <2>. HIDE DEF x
    <2>. QED  BY <1>2, <2>2, <2>3
  <1>4. ASSUME NEW a, CountAliases(p, i, a) PROVE HalfInv' /\ OnlyGo
    <2>. DEFINE x == [Idle EXCEPT !.kind = "alias", !.step = "write", !.id = i, !.aliases = {a}]
    <2>1. task' = [task EXCEPT ![p] = x]
      BY <1>4 DEF CountAliases
    <2>2. IsTask(x) /\ x.id = i /\ x.kind = "alias"
      BY Rows DEF Idle, IsTask, TaskFields
    <2>. HIDE DEF x
    <2>. QED  BY <1>2, <2>1, <2>2
  <1>. QED  BY <1>3, <1>4

\* One row is written, and not to bring the item back.
LEMMA FieldItem ==
    ASSUME HalfInv, NEW i \in DOMAIN item, NEW v,
           \/ item' = [item EXCEPT ![i].number = v]
           \/ item' = [item EXCEPT ![i].order = v]
           \/ item' = [item EXCEPT ![i].aliases = v]
           \/ item' = [item EXCEPT ![i].auction = "open", ![i].started = v]
           \/ item' = [item EXCEPT ![i].live = FALSE, ![i].aliases = v]
    PROVE  Items(item') /\ OnlyGo
  <1>1. IsRow(item[i])
    BY DEF HalfInv, Shaped, Items
  <1>2. \E y : /\ item' = [item EXCEPT ![i] = y]
               /\ \/ y = [item[i] EXCEPT !.number = v]
                  \/ y = [item[i] EXCEPT !.order = v]
                  \/ y = [item[i] EXCEPT !.aliases = v]
                  \/ y = [[item[i] EXCEPT !.auction = "open"] EXCEPT !.started = v]
                  \/ y = [[item[i] EXCEPT !.live = FALSE] EXCEPT !.aliases = v]
    BY Zenon
  <1>3. PICK y : /\ item' = [item EXCEPT ![i] = y]
                 /\ \/ y = [item[i] EXCEPT !.number = v]
                    \/ y = [item[i] EXCEPT !.order = v]
                    \/ y = [item[i] EXCEPT !.aliases = v]
                    \/ y = [[item[i] EXCEPT !.auction = "open"] EXCEPT !.started = v]
                    \/ y = [[item[i] EXCEPT !.live = FALSE] EXCEPT !.aliases = v]
    BY <1>2
  <1>4. y = [f \in RowFields |-> y[f]] /\ y.live \in {item[i].live, FALSE}
    BY <1>1, <1>3 DEF IsRow, RowFields
  <1>5. IsRow(y) /\ (y.live => item[i].live)
    BY <1>1, <1>4 DEF IsRow
  <1>. QED  BY <1>3, <1>5, OneItem DEF HalfInv, Shaped

LEMMA WritesHalf ==
    ASSUME HalfInv, NEW p \in Panels, WriteNumber(p) \/ createAlias(p)
    PROVE  HalfInv' /\ OnlyGo
  <1>. DEFINE i == task[p].id
  <1>1. UNCHANGED answers /\ End(p)
    BY DEF WriteNumber, createAlias, history
  <1>2. \/ item' = item
        \/ \E v : item' = [item EXCEPT ![i].number = v]
        \/ \E v : item' = [item EXCEPT ![i].aliases = v]
    BY Zenon DEF WriteNumber, createAlias
  <1>3. Items(item') /\ OnlyGo
    <2>1. CASE item' = item
      BY <2>1, SameItems DEF HalfInv, Shaped
    <2>2. CASE i \in DOMAIN item
      <3>. HIDE DEF i
      <3>. QED  BY <1>2, <2>1, <2>2, FieldItem
    <2>3. CASE i \notin DOMAIN item
      <3>1. item = [j \in DOMAIN item |-> item[j]]
        BY DEF HalfInv, Shaped, Items
      <3>. HIDE DEF i
      <3>. QED  BY <1>2, <2>1, <2>3, <3>1
    <2>. QED  BY <2>2, <2>3
  <1>. QED  BY <1>1, <1>3, EndMoves

-----------------------------------------------------------------------------
(***************************************************************************)
(* The panel, the event and the list.                                      *)
(***************************************************************************)
\* Nothing but the items changes, of what the invariant speaks of.
LEMMA ItemsOnly ==
    ASSUME HalfInv, UNCHANGED <<task, answers>>, Items(item'), OnlyGo PROVE HalfInv' /\ OnlyGo
  BY Kept DEF HalfInv, Shaped

LEMMA PanelHalf ==
    ASSUME HalfInv, NEW i \in DOMAIN item,
           Reorder(i) \/ RemoveItem(i) \/ updateAlias(i) \/ removeAlias(i)
    PROVE  HalfInv' /\ OnlyGo
  <1>1. UNCHANGED <<task, answers>>
    BY DEF Reorder, RemoveItem, updateAlias, removeAlias, history
  <1>2. \/ \E v : item' = [item EXCEPT ![i].order = v]
        \/ \E v : item' = [item EXCEPT ![i].aliases = v]
        \/ \E v : item' = [item EXCEPT ![i].live = FALSE, ![i].aliases = v]
    BY Zenon DEF Reorder, RemoveItem, updateAlias, removeAlias
  <1>3. Items(item') /\ OnlyGo
    BY <1>2, FieldItem
  <1>. QED  BY <1>1, <1>3, ItemsOnly

LEMMA EventHalf ==
    ASSUME HalfInv, UpdateEvent \/ CloseEvent \/ RemoveEvent \/ OpenList \/ StartNext \/ SendCards
    PROVE  HalfInv' /\ OnlyGo
  <1>1. UNCHANGED <<task, answers>>
    BY DEF UpdateEvent, CloseEvent, RemoveEvent, OpenList, StartNext, SendCards, history
  <1>2. \A i \in DOMAIN item : IsRow(item[i])
    BY DEF HalfInv, Shaped, Items
  <1>3. CASE UNCHANGED item
    BY <1>1, <1>3, SameItems, ItemsOnly DEF HalfInv, Shaped
  <1>4. CASE /\ item' = [i \in DOMAIN item |-> item'[i]] /\ DOMAIN item' = DOMAIN item
             /\ \A i \in DOMAIN item : \/ item'[i] = item[i]
                                       \/ \E v : item'[i] = [item[i] EXCEPT !.auction = v]
                                       \/ \E v : item'[i] = [item[i] EXCEPT !.card = v]
                                       \/ item'[i] = [[item[i] EXCEPT !.live = FALSE] EXCEPT !.aliases = {}]
    <2>1. ASSUME NEW i \in DOMAIN item
          PROVE  /\ item'[i] = [f \in RowFields |-> item'[i][f]]
                 /\ item'[i].live \in {item[i].live, FALSE}
      BY <1>2, <1>4 DEF IsRow, RowFields
    <2>2. \A i \in DOMAIN item : IsRow(item'[i]) /\ (item'[i].live => item[i].live)
      BY <1>2, <2>1 DEF IsRow
    <2>. QED  BY <1>1, <1>4, <2>2, AllItems, ItemsOnly DEF HalfInv, Shaped
  <1>5. CASE CloseEvent
    BY <1>4, <1>5 DEF CloseEvent
  <1>6. CASE RemoveEvent
    BY <1>4, <1>6 DEF RemoveEvent
  <1>7. CASE SendCards
    BY <1>4, <1>7 DEF SendCards
  <1>8. CASE StartNext /\ ~UNCHANGED item
    <2>1. PICK i : item[i].live /\ Start(i)
      BY <1>8 DEF StartNext
    <2>2. CASE i \in DOMAIN item
      BY <1>1, <2>1, <2>2, FieldItem, ItemsOnly DEF Start
    <2>3. CASE i \notin DOMAIN item
      <3>1. item = [j \in DOMAIN item |-> item[j]]
        BY DEF HalfInv, Shaped, Items
      <3>. QED  BY <1>8, <2>1, <2>3, <3>1 DEF Start
    <2>. QED  BY <2>2, <2>3
  <1>9. UpdateEvent \/ OpenList => UNCHANGED item
    BY DEF UpdateEvent, OpenList
  <1>. QED  BY <1>3, <1>5, <1>6, <1>7, <1>8, <1>9

LEMMA HalfNext == ASSUME HalfInv, [Next]_vars PROVE HalfInv' /\ OnlyGo
  <1>1. CASE UNCHANGED vars
    <2>1. UNCHANGED <<item, task, answers>>
      BY <1>1 DEF vars
    <2>. QED  BY <2>1, SameItems, ItemsOnly DEF HalfInv, Shaped
  <1>2. ASSUME NEW p \in Panels, Request(p) PROVE HalfInv' /\ OnlyGo
    BY <1>2, CreateHalf, ChecksHalf, SiblingsHalf, FillHalf, InsertHalf, AliasesHalf, UndoHalf,
       PublishHalf, BeginsHalf, WritesHalf DEF Request
  <1>. QED  BY <1>1, <1>2, PanelHalf, EventHalf DEF Next

LEMMA AlwaysHalf == Spec => []HalfInv
  BY HalfInit, HalfNext, PTL DEF Spec

\* An item keeps its place in the order of creation, and one that was removed or taken back
\* never comes back (remove, create).
THEOREM RemovedForGood == Spec => [][OnlyGo]_vars
  <1>1. HalfInv /\ [Next]_vars => [OnlyGo]_vars
    BY HalfNext
  <1>. QED  BY <1>1, AlwaysHalf, PTL DEF Spec

\* A create that answers an error leaves no item, unless taking it back fails as well,
\* however the requests, the panel and the opening of the list interleave.
THEOREM NoHalfSafety == Spec => []NoHalfItem
  <1>1. HalfInv => NoHalfItem
    BY DEF HalfInv, Tidy, Gone, NoHalfItem
  <1>. QED  BY <1>1, AlwaysHalf, PTL

-----------------------------------------------------------------------------
(***************************************************************************)
(* The order of the rows, and the place of one among others.               *)
(***************************************************************************)
Ordered(ids)   == \A i \in ids : i \in Nat /\ item[i].order \in Nat
Place(ids, i)  == Cardinality({j \in ids : ~Before(i, j)})

LEMMA InOrder ==
    ASSUME NEW ids, Ordered(ids)
    PROVE  /\ \A i \in ids : ~Before(i, i)
           /\ \A i, j \in ids : i = j \/ Before(i, j) \/ Before(j, i)
           /\ \A i, j, k \in ids : Before(i, j) /\ Before(j, k) => Before(i, k)
  <1>1. \A i \in ids : ~Before(i, i)
    BY DEF Ordered, Before
  <1>2. \A i, j \in ids : i = j \/ Before(i, j) \/ Before(j, i)
    BY DEF Ordered, Before
  <1>3. ASSUME NEW i \in ids, NEW j \in ids, NEW k \in ids, Before(i, j), Before(j, k) PROVE Before(i, k)
    BY <1>3 DEF Ordered, Before
  <1>. QED  BY <1>1, <1>2, <1>3

\* Different items have different places, from 1 to as many as there are.
LEMMA PlacesIn ==
    ASSUME NEW ids, Ordered(ids), IsFiniteSet(ids)
    PROVE  /\ Cardinality(ids) \in Nat
           /\ \A i \in ids : Place(ids, i) \in 1 .. Cardinality(ids)
           /\ \A i, j \in ids : Before(i, j) => Place(ids, i) < Place(ids, j)
  <1>1. Cardinality(ids) \in Nat
    BY FS_CardinalityType
  <1>. DEFINE Upto(i) == {j \in ids : ~Before(i, j)}
  <1>2. ASSUME NEW i \in ids
        PROVE  IsFiniteSet(Upto(i)) /\ Place(ids, i) \in Nat /\ Place(ids, i) <= Cardinality(ids)
    <2>1. Upto(i) \subseteq ids
      OBVIOUS
    <2>. QED  BY <2>1, FS_Subset, FS_CardinalityType DEF Place
  <1>3. ASSUME NEW i \in ids PROVE Place(ids, i) # 0
    <2>1. i \in Upto(i)
      BY InOrder
    <2>. QED  BY <2>1, <1>2, FS_EmptySet DEF Place
  <1>4. ASSUME NEW i \in ids, NEW j \in ids, Before(i, j) PROVE Place(ids, i) < Place(ids, j)
    <2>1. Upto(i) \subseteq Upto(j)
      BY <1>4, InOrder
    <2>2. j \in Upto(j) /\ j \notin Upto(i)
      BY <1>4, InOrder
    <2>3. Place(ids, i) <= Place(ids, j) /\ Place(ids, i) # Place(ids, j)
      BY <2>1, <2>2, <1>2, FS_Subset DEF Place
    <2>4. Place(ids, i) \in Nat /\ Place(ids, j) \in Nat
      BY <1>2
    <2>. QED  BY <2>3, <2>4
  <1>5. ASSUME NEW i \in ids PROVE Place(ids, i) \in 1 .. Cardinality(ids)
    <2>1. Place(ids, i) \in Nat /\ Place(ids, i) <= Cardinality(ids) /\ Place(ids, i) # 0
      BY <1>2, <1>3
    <2>. QED  BY <1>1, <2>1
  <1>. QED  BY <1>1, <1>4, <1>5

\* Sorted gives each of the items once, in their order.
LEMMA SortedIs ==
    ASSUME NEW ids, Ordered(ids), IsFiniteSet(ids), NEW s, s = Sorted(ids)
    PROVE  /\ s \in Seq(ids) /\ Len(s) = Cardinality(ids)
           /\ {s[k] : k \in DOMAIN s} = ids
           /\ \A a, b \in DOMAIN s : a < b => Before(s[a], s[b])
  <1>. DEFINE n == Cardinality(ids)
              f == [i \in ids |-> Place(ids, i)]
  <1>1. n \in Nat /\ f \in [ids -> 1 .. n]
    BY PlacesIn
  <1>2. \A i, j \in ids : f[i] = f[j] => i = j
    <2>1. \A i, j \in ids : i = j \/ Before(i, j) \/ Before(j, i)
      BY InOrder
    <2>2. \A i \in ids : f[i] \in Nat
      BY <1>1
    <2>3. \A i, j \in ids : Before(i, j) => f[i] < f[j]
      BY PlacesIn
    <2>. QED  BY <2>1, <2>2, <2>3
  <1>3. f \in Injection(ids, 1 .. n)
    BY <1>1, <1>2 DEF Injection, IsInjective
  <1>4. IsFiniteSet(1 .. n) /\ Cardinality(1 .. n) = n
    BY <1>1, FS_Interval
  <1>5. f \in Surjection(ids, 1 .. n)
    BY <1>3, <1>4, FS_Injection
  <1>6. \A k \in 1 .. n : \E i \in ids : f[i] = k
    BY <1>5 DEF Surjection
  <1>7. \A k \in 1 .. n : \E i \in ids : Place(ids, i) = k
    BY <1>6
  <1>8. s = [k \in 1 .. n |-> CHOOSE i \in ids : Place(ids, i) = k]
    BY Zenon DEF Sorted, Place
  <1>9. \A k \in 1 .. n : s[k] \in ids /\ Place(ids, s[k]) = k
    BY <1>7, <1>8
  <1>10. DOMAIN s = 1 .. n
    BY <1>8
  <1>11. s \in [1 .. n -> ids]
    BY <1>8, <1>9
  <1>12. s \in Seq(ids) /\ Len(s) = n
    <2>. HIDE DEF n
    <2>. QED  BY <1>1, <1>10, <1>11
  <1>13. \A i \in ids : \E k \in 1 .. n : s[k] = i
    <2>. SUFFICES ASSUME NEW i \in ids PROVE \E k \in 1 .. n : s[k] = i
      OBVIOUS
    <2>1. f[i] \in 1 .. n
      BY <1>1
    <2>2. s[f[i]] \in ids /\ f[s[f[i]]] = f[i]
      BY <2>1, <1>9
    <2>. QED  BY <2>1, <2>2, <1>2
  <1>14. \A a, b \in 1 .. n : a < b => Before(s[a], s[b])
    <2>. SUFFICES ASSUME NEW a \in 1 .. n, NEW b \in 1 .. n, a < b PROVE Before(s[a], s[b])
      OBVIOUS
    <2>1. s[a] = s[b] \/ Before(s[a], s[b]) \/ Before(s[b], s[a])
      BY <1>9, InOrder
    <2>2. Before(s[b], s[a]) => b < a
      BY <1>9, PlacesIn
    <2>3. s[a] = s[b] => a = b
      BY <1>9
    <2>. QED  BY <2>1, <2>2, <2>3, <1>1
  <1>. QED  BY <1>9, <1>10, <1>12, <1>13, <1>14

-----------------------------------------------------------------------------
(***************************************************************************)
(* The old list: the items 1 .. m that were there without a number.        *)
(***************************************************************************)
Rank(m, i)   == Place(1 .. m, i)
\* The ones that come first in it.
Firsts(m, D) == D \subseteq 1 .. m /\ \A i \in D, j \in 1 .. m : Before(j, i) => j \in D
\* The rest of it, in its order.
InTurn(m, s, D) ==
    /\ s \in Seq(1 .. m) /\ {s[k] : k \in DOMAIN s} = 1 .. m \ D
    /\ \A a, b \in DOMAIN s : a < b => Before(s[a], s[b])

LEMMA NextRank ==
    ASSUME NEW m \in Nat, Ordered(1 .. m), NEW D, Firsts(m, D), NEW i \in 1 .. m \ D,
           \A j \in 1 .. m \ D : j = i \/ Before(i, j)
    PROVE  /\ Rank(m, i) = Cardinality(D) + 1 /\ Firsts(m, D \cup {i})
           /\ Cardinality(D) \in Nat /\ Cardinality(D \cup {i}) = Cardinality(D) + 1
  <1>1. {j \in 1 .. m : ~Before(i, j)} = D \cup {i}
    <2>1. ASSUME NEW j \in D PROVE j \in 1 .. m /\ ~Before(i, j)
      BY <2>1 DEF Firsts
    <2>2. ~Before(i, i)
      BY InOrder
    <2>. QED  BY <2>1, <2>2
  <1>2. IsFiniteSet(1 .. m)
    BY FS_Interval
  <1>3. IsFiniteSet(D) /\ Cardinality(D) \in Nat
    BY <1>2, FS_Subset, FS_CardinalityType DEF Firsts
  <1>4. Cardinality(D \cup {i}) = Cardinality(D) + 1
    BY <1>3, FS_AddElement
  <1>5. Firsts(m, D \cup {i})
    <2>. SUFFICES ASSUME NEW j \in 1 .. m, Before(j, i) PROVE j \in D
      BY DEF Firsts
    <2>1. ~Before(i, j) /\ j # i
      BY InOrder
    <2>. QED  BY <2>1
  <1>. QED  BY <1>1, <1>3, <1>4, <1>5 DEF Rank, Place

LEMMA HeadInTurn ==
    ASSUME NEW m \in Nat, Ordered(1 .. m), NEW D \in SUBSET (1 .. m), NEW s, InTurn(m, s, D), s # <<>>, NEW i, i = Head(s)
    PROVE  /\ i \in 1 .. m \ D /\ \A j \in 1 .. m \ D : j = i \/ Before(i, j)
           /\ InTurn(m, Tail(s), D \cup {i})
           /\ Len(s) = 1 => D \cup {i} = 1 .. m
           /\ Len(s) # 1 => Tail(s) # <<>>
  <1>1. s \in Seq(1 .. m) /\ Len(s) \in Nat \ {0} /\ DOMAIN s = 1 .. Len(s) /\ i = s[1]
    BY DEF InTurn
  <1>2. {s[k] : k \in 1 .. Len(s)} = 1 .. m \ D /\ \A a, b \in 1 .. Len(s) : a < b => Before(s[a], s[b])
    BY <1>1 DEF InTurn
  <1>3. i \in 1 .. m \ D
    BY <1>1, <1>2
  <1>4. ASSUME NEW j \in 1 .. m \ D PROVE j = i \/ Before(i, j)
    <2>1. PICK k \in 1 .. Len(s) : s[k] = j
      BY <1>2
    <2>. QED  BY <2>1, <1>1, <1>2
  <1>5. /\ Tail(s) \in Seq(1 .. m) /\ Len(Tail(s)) = Len(s) - 1 /\ DOMAIN Tail(s) = 1 .. Len(s) - 1
        /\ \A k \in 1 .. Len(s) - 1 : Tail(s)[k] = s[k + 1]
    BY <1>1
  <1>6. \A a, b \in DOMAIN Tail(s) : a < b => Before(Tail(s)[a], Tail(s)[b])
    BY <1>1, <1>2, <1>5
  <1>7. \A k \in 1 .. Len(s) : k # 1 => s[k] # i
    <2>. SUFFICES ASSUME NEW k \in 1 .. Len(s), k # 1, s[k] = i PROVE FALSE
      OBVIOUS
    <2>1. Before(i, i)
      BY <1>1, <1>2
    <2>. QED  BY <2>1, <1>3, InOrder
  <1>8. {Tail(s)[k] : k \in DOMAIN Tail(s)} = 1 .. m \ (D \cup {i})
    <2>1. ASSUME NEW k \in DOMAIN Tail(s) PROVE Tail(s)[k] \in 1 .. m \ (D \cup {i})
      BY <1>1, <1>2, <1>5, <1>7
    <2>2. ASSUME NEW j \in 1 .. m \ (D \cup {i}) PROVE \E k \in DOMAIN Tail(s) : Tail(s)[k] = j
      <3>1. PICK k \in 1 .. Len(s) : s[k] = j
        BY <1>2
      <3>2. k # 1
        BY <3>1, <1>1
      <3>3. PICK l \in 1 .. Len(s) - 1 : l + 1 = k
        <4>1. k - 1 \in 1 .. Len(s) - 1 /\ (k - 1) + 1 = k
          BY <3>2, <1>1
        <4>. QED  BY <4>1
      <3>4. l \in DOMAIN Tail(s) /\ Tail(s)[l] = j
        BY <3>1, <3>3, <1>5
      <3>. QED  BY <3>4
    <2>. QED  BY <2>1, <2>2
  <1>9. Len(s) = 1 => 1 .. m \subseteq D \cup {i}
    BY <1>1, <1>2
  <1>10. Len(s) # 1 => Tail(s) # <<>>
    <2>1. PICK t : t = Tail(s)
      OBVIOUS
    <2>2. t = <<>> => Len(t) = 0
      OBVIOUS
    <2>3. Len(t) = Len(s) - 1
      BY <2>1, <1>5
    <2>. QED  BY <2>1, <2>2, <2>3, <1>1
  <1>. QED  BY <1>3, <1>4, <1>5, <1>6, <1>8, <1>9, <1>10 DEF InTurn

-----------------------------------------------------------------------------
(***************************************************************************)
(* The lowest free number.                                                 *)
(***************************************************************************)
LEMMA LowestOfFirst == ASSUME NEW k \in Nat PROVE LowestFree(1 .. k) = k + 1
  <1>1. Cardinality(1 .. k) = k
    BY FS_Interval
  <1>2. {n \in 1 .. k + 1 : n \notin 1 .. k} = {k + 1}
    OBVIOUS
  <1>. QED  BY <1>1, <1>2 DEF LowestFree, Min

LEMMA Lowest ==
    ASSUME NEW N \in Nat, NEW S, S \subseteq 1 .. N, S # {}
    PROVE  Min(S) \in S
  <1>0. IsFiniteSet(1 .. N)
    BY FS_Interval
  <1>1. FiniteSubsetsOf(1 .. N) = SUBSET (1 .. N)
    BY <1>0, FS_FiniteSubsetsOfFinite
  <1>. DEFINE Below(x) == {c \in 1 .. N : c < x}
              T == {Below(x) : x \in S}
              R == StrictSubsetOrdering(1 .. N)
              F == FiniteSubsetsOf(1 .. N)
  <1>2. IsWellFoundedOn(R, F)
    BY FS_StrictSubsetOrderingWellFounded
  <1>3. T \subseteq F /\ T # {}
    <2>1. \A x \in S : Below(x) \in F
      BY <1>1
    <2>. QED  BY <2>1
  <1>4. PICK t \in T : \A u \in T : ~(<<u, t>> \in R)
    <2>. HIDE DEF R, T, F
    <2>. QED  BY <1>2, <1>3, WFMin
  <1>5. PICK x \in S : t = Below(x)
    OBVIOUS
  <1>6. ASSUME NEW y \in S, y < x PROVE FALSE
    <2>1. y \in Below(x) /\ y \notin Below(y) /\ Below(y) \subseteq Below(x)
      BY <1>6
    <2>2. <<Below(y), Below(x)>> \in R
      BY <2>1 DEF StrictSubsetOrdering
    <2>. QED  BY <1>4, <1>5, <2>2
  <1>7. \E z \in S : \A y \in S : z <= y
    BY <1>6
  <1>. QED  BY <1>7 DEF Min

LEMMA LowestIsFree ==
    ASSUME NEW used, IsFiniteSet(used)
    PROVE  LowestFree(used) \in Nat \ {0} /\ LowestFree(used) \notin used
  <1>. DEFINE c == Cardinality(used)
              S == {n \in 1 .. c + 1 : n \notin used}
  <1>1. c \in Nat
    BY FS_CardinalityType
  <1>2. S # {}
    <2>. SUFFICES ASSUME 1 .. c + 1 \subseteq used PROVE FALSE
      OBVIOUS
    <2>1. Cardinality(1 .. c + 1) <= c
      BY FS_Subset
    <2>. QED  BY <1>1, <2>1, FS_Interval
  <1>3. S \subseteq 1 .. c + 1 /\ c + 1 \in Nat
    BY <1>1
  <1>. HIDE DEF c
  <1>4. Min(S) \in S
    BY <1>2, <1>3, Lowest
  <1>. QED  BY <1>1, <1>4 DEF LowestFree, c

-----------------------------------------------------------------------------
(***************************************************************************)
(* What is known of the names while the panel has not renumbered,          *)
(* reordered or removed anything: m items are from before the numbers.     *)
(***************************************************************************)
Awaits(m) == {i \in 1 .. m : item[i].number = None}

\* An old item has no number yet or its place in the list, and the first ones have it first.
OldOK(m) ==
    /\ 1 .. m \subseteq DOMAIN item
    /\ \A i \in 1 .. m : item[i].live /\ item[i].order \in Nat /\ item[i].number \in {None, Rank(m, i)}
    /\ Firsts(m, 1 .. m \ Awaits(m))
    /\ Taken(1 .. m) = 1 .. Cardinality(1 .. m \ Awaits(m))

\* Items are created with a number, and only when the old ones have theirs.
NewOK(m) ==
    /\ \A i \in DOMAIN item \ (1 .. m) : item[i].number # None
    /\ Awaits(m) # {} => DOMAIN item = 1 .. m
    /\ \A i, j \in Live : i # j /\ item[i].number = item[j].number => item[i].number = None

Named(m, i) == IF i \in 1 .. m THEN Rank(m, i) ELSE item[i].number
CardsOK(m)  == \A i \in DOMAIN item : item[i].card # None => item[i].card = Named(m, i)

\* Until then the old items are auctioned in the order of the list.
StartedOK(m) == Awaits(m) # {} =>
    /\ Firsts(m, Auctioned)
    /\ \A i \in Auctioned : item[i].started \in 1 .. Begun
    /\ \A i, j \in Auctioned : Before(i, j) => item[i].started < item[j].started
OpeningOK(m) ==
    /\ opening = [step |-> opening.step, todo |-> opening.todo]
    /\ Awaits(m) # {} /\ opening.step = "start" => InTurn(m, opening.todo, Auctioned)

\* A create gives the old items D their numbers, then the rest, and only then inserts.
Fills(m, x, D) == /\ x.todo # <<>> /\ InTurn(m, x.todo, D) /\ Firsts(m, D) /\ D \cap Awaits(m) = {}
                  /\ x.used = 1 .. Cardinality(D)
TaskOK(m, x) == x.kind = "create" =>
    /\ x.number \in Nat
    /\ x.step = "fill" => \E D : Fills(m, x, D)
    /\ x.step = "insert" => IsFiniteSet(x.used)
    /\ x.step \in {"insert"} \cup WithItem => Awaits(m) = {}
    /\ x.step \in WithItem => x.id \notin 1 .. m
TasksOK(m) == \A p \in Panels : TaskOK(m, task[p])

Names(m) == OldOK(m) /\ NewOK(m) /\ CardsOK(m) /\ StartedOK(m) /\ OpeningOK(m) /\ TasksOK(m)
NamesInv == ~edited => \E m \in Nat : Names(m)

LEMMA OldOrdered ==
    ASSUME NEW m \in Nat, OldOK(m)
    PROVE  Ordered(1 .. m) /\ IsFiniteSet(1 .. m) /\ Awaits(m) \subseteq 1 .. m
  BY FS_Interval DEF OldOK, Ordered, Awaits

-----------------------------------------------------------------------------
(***************************************************************************)
(* What a step leaves as it is.                                            *)
(***************************************************************************)
\* The old items keep their order.
StillOld(m) == /\ 1 .. m \subseteq DOMAIN item'
               /\ \A i \in 1 .. m : item'[i].live = item[i].live /\ item'[i].order = item[i].order

LEMMA SameOrder ==
    ASSUME NEW m \in Nat, StillOld(m)
    PROVE  /\ \A i, j \in 1 .. m : Before(i, j)' <=> Before(i, j)
           /\ \A i \in 1 .. m : Rank(m, i)' = Rank(m, i)
           /\ \A D : Firsts(m, D)' <=> Firsts(m, D)
           /\ \A s, D : InTurn(m, s, D)' <=> InTurn(m, s, D)
  <1>1. \A i, j \in 1 .. m : Before(i, j)' <=> Before(i, j)
    BY DEF StillOld, Before
  <1>2. ASSUME NEW i \in 1 .. m PROVE Rank(m, i)' = Rank(m, i)
    <2>1. {j \in 1 .. m : ~Before(i, j)}' = {j \in 1 .. m : ~Before(i, j)}
      BY <1>1
    <2>. QED  BY <2>1, Zenon DEF Rank, Place
  <1>3. ASSUME NEW D PROVE Firsts(m, D)' <=> Firsts(m, D)
    BY <1>1 DEF Firsts
  <1>4. ASSUME NEW s, NEW D PROVE InTurn(m, s, D)' <=> InTurn(m, s, D)
    <2>1. CASE s \notin Seq(1 .. m)
      BY <2>1 DEF InTurn
    <2>2. CASE s \in Seq(1 .. m)
      <3>1. \A a \in DOMAIN s : s[a] \in 1 .. m
        BY <2>2
      <3>. QED  BY <1>1, <3>1 DEF InTurn
    <2>. QED  BY <2>1, <2>2
  <1>. QED  BY <1>1, <1>2, <1>3, <1>4

\* A row goes on with its name: its number, its card, and its turn among the auctioned.
SameName(i) ==
    /\ item'[i].order = item[i].order /\ item'[i].number = item[i].number
    /\ item'[i].started = item[i].started /\ item'[i].card = item[i].card
    /\ (item'[i].auction = "none") = (item[i].auction = "none")
SameNames(m) ==
    /\ DOMAIN item' = DOMAIN item /\ \A i \in DOMAIN item : SameName(i)
    /\ \A i \in DOMAIN item : item'[i].live => item[i].live
    /\ \A i \in 1 .. m : item'[i].live = item[i].live

LEMMA StillNames ==
    ASSUME NEW m \in Nat, OldOK(m), NewOK(m), CardsOK(m), StartedOK(m), SameNames(m)
    PROVE  /\ OldOK(m)' /\ NewOK(m)' /\ CardsOK(m)' /\ StartedOK(m)' /\ StillOld(m)
           /\ Awaits(m)' = Awaits(m) /\ (Awaits(m) # {} => Auctioned' = Auctioned)
  <1>1. StillOld(m)
    BY DEF SameNames, SameName, StillOld, OldOK
  <1>2. Awaits(m)' = Awaits(m)
    BY DEF Awaits, SameNames, SameName, OldOK
  <1>3. Taken(1 .. m)' = Taken(1 .. m)
    BY DEF Taken, SameNames, SameName, OldOK
  <1>4. (1 .. m \ Awaits(m))' = 1 .. m \ Awaits(m)
    BY <1>2
  <1>5. \A i \in 1 .. m : item'[i].live /\ item'[i].order \in Nat /\ item'[i].number \in {None, Rank(m, i)'}
    BY <1>1, SameOrder DEF SameNames, SameName, OldOK
  <1>6. OldOK(m)'
    <2>1. Firsts(m, 1 .. m \ Awaits(m))'
      <3>1. PICK D : D = 1 .. m \ Awaits(m)
        OBVIOUS
      <3>2. Firsts(m, D)'
        BY <1>1, <3>1, SameOrder DEF OldOK
      <3>. QED  BY <1>4, <3>1, <3>2
    <2>. QED  BY <1>1, <1>3, <1>4, <1>5, <2>1, Zenon DEF OldOK, StillOld
  <1>7. NewOK(m)'
    BY <1>2 DEF NewOK, SameNames, SameName, Live
  <1>8. CardsOK(m)'
    BY <1>1, SameOrder DEF CardsOK, Named, SameNames, SameName
  <1>9. Awaits(m) # {} => Auctioned' = Auctioned
    BY DEF Auctioned, Live, NewOK, SameNames, SameName
  <1>10. Begun' = Begun
    <2>1. {i \in DOMAIN item : item[i].auction # "none"}' = {i \in DOMAIN item : item[i].auction # "none"}
      BY DEF SameNames, SameName
    <2>. QED  BY <2>1, Zenon DEF Begun
  <1>11. StartedOK(m)'
    <2>. SUFFICES ASSUME Awaits(m) # {} PROVE StartedOK(m)'
      BY <1>2 DEF StartedOK
    <2>1. /\ Firsts(m, Auctioned) /\ \A i \in Auctioned : item[i].started \in 1 .. Begun
          /\ \A i, j \in Auctioned : Before(i, j) => item[i].started < item[j].started
      BY DEF StartedOK
    <2>2. Auctioned' = Auctioned /\ Auctioned \subseteq 1 .. m
      BY <1>9, <2>1 DEF Firsts
    <2>3. \A i \in Auctioned : item'[i].started = item[i].started
      BY DEF SameNames, SameName, Auctioned, Live
    <2>4. Firsts(m, Auctioned)'
      <3>1. PICK D : D = Auctioned
        OBVIOUS
      <3>. QED  BY <1>1, <2>1, <2>2, <3>1, SameOrder
    <2>5. \A i, j \in Auctioned : Before(i, j)' <=> Before(i, j)
      BY <1>1, <2>2, SameOrder
    <2>. QED  BY <1>10, <2>1, <2>2, <2>3, <2>4, <2>5 DEF StartedOK
  <1>. QED  BY <1>1, <1>2, <1>6, <1>7, <1>8, <1>9, <1>11

\* A request that stands still: no number is taken away.
LEMMA TaskStill ==
    ASSUME NEW m \in Nat, StillOld(m), Awaits(m)' \subseteq Awaits(m), NEW x, TaskOK(m, x)
    PROVE  TaskOK(m, x)'
  <1>. SUFFICES ASSUME x.kind = "create" PROVE TaskOK(m, x)'
    BY DEF TaskOK
  <1>1. ASSUME NEW D, Fills(m, x, D) PROVE Fills(m, x, D)'
    BY <1>1, SameOrder DEF Fills
  <1>2. x.step = "fill" => \E D : Fills(m, x, D)'
    BY <1>1 DEF TaskOK
  <1>3. Awaits(m) = {} => Awaits(m)' = {}
    OBVIOUS
  <1>. QED  BY <1>2, <1>3 DEF TaskOK

TasksMove(m) == \A q \in Panels : task'[q] = task[q] \/ TaskOK(m, task[q])'

LEMMA TasksStill ==
    ASSUME NEW m \in Nat, StillOld(m), Awaits(m)' \subseteq Awaits(m), TasksOK(m), TasksMove(m)
    PROVE  TasksOK(m)'
  <1>1. ASSUME NEW q \in Panels PROVE TaskOK(m, task[q])'
    <2>1. CASE task'[q] = task[q]
      <3>1. PICK x : x = task[q]
        OBVIOUS
      <3>2. TaskOK(m, x)'
        BY <3>1, TaskStill DEF TasksOK
      <3>. QED  BY <2>1, <3>1, <3>2
    <2>. QED  BY <2>1 DEF TasksMove
  <1>. QED  BY <1>1 DEF TasksOK

\* One request goes on.
LEMMA OneMoves ==
    ASSUME HalfInv, NEW m, NEW p \in Panels, NEW x, task' = [task EXCEPT ![p] = x], TaskOK(m, x)'
    PROVE  TasksMove(m)
  BY DEF HalfInv, Shaped, TasksMove

LEMMA OpeningStill ==
    ASSUME NEW m \in Nat, StillOld(m), Awaits(m)' \subseteq Awaits(m), OpeningOK(m), opening' = opening,
           Awaits(m) # {} => Auctioned' = Auctioned
    PROVE  OpeningOK(m)'
  <1>1. ASSUME Awaits(m)' # {}, opening.step = "start" PROVE InTurn(m, opening.todo, Auctioned)'
    <2>1. PICK s, D : s = opening.todo /\ D = Auctioned
      OBVIOUS
    <2>2. InTurn(m, s, D)'
      BY <1>1, <2>1, SameOrder DEF OpeningOK
    <2>3. D = Auctioned'
      BY <1>1, <2>1
    <2>. QED  BY <2>1, <2>2, <2>3
  <1>. QED  BY <1>1 DEF OpeningOK

\* The names stay and requests go on.
LEMMA NamesStill ==
    ASSUME NEW m \in Nat, Names(m), SameNames(m), opening' = opening, TasksMove(m)
    PROVE  Names(m)'
  <1>1. /\ OldOK(m)' /\ NewOK(m)' /\ CardsOK(m)' /\ StartedOK(m)' /\ StillOld(m)
        /\ Awaits(m)' = Awaits(m) /\ (Awaits(m) # {} => Auctioned' = Auctioned)
    BY StillNames DEF Names
  <1>2. TasksOK(m)'
    BY <1>1, TasksStill DEF Names
  <1>3. OpeningOK(m)'
    BY <1>1, OpeningStill DEF Names
  <1>. QED  BY <1>1, <1>2, <1>3 DEF Names

LEMMA SameItemsNames == ASSUME NEW m \in Nat, item' = item, OldOK(m) PROVE SameNames(m)
  BY DEF SameNames, SameName, OldOK

-----------------------------------------------------------------------------
(***************************************************************************)
(* Steps that name nothing.                                                *)
(***************************************************************************)
LEMMA NoCreate == ASSUME NEW m, NEW x, x.kind # "create" PROVE TaskOK(m, x)'
  BY DEF TaskOK

LEMMA EndNames ==
    ASSUME HalfInv, NEW m \in Nat, Names(m), NEW p \in Panels, End(p), SameNames(m), opening' = opening
    PROVE  Names(m)'
  <1>1. TaskOK(m, Idle)'
    BY NoCreate, Rows
  <1>2. TasksMove(m)
    BY <1>1, OneMoves DEF End
  <1>. QED  BY <1>2, NamesStill

LEMMA RefuseNames ==
    ASSUME HalfInv, NEW m \in Nat, Names(m), NEW p \in Panels, Refuse(p)
    PROVE  Names(m)'
  <1>1. End(p) /\ item' = item /\ opening' = opening
    BY DEF Refuse, Answer
  <1>. QED  BY <1>1, EndNames, SameItemsNames DEF Names

\* A request moves on to a step in which no more is known of it.
LEMMA GotoNames ==
    ASSUME HalfInv, NEW m \in Nat, Names(m), NEW p \in Panels, NEW s, Goto(p, s),
           SameNames(m), opening' = opening,
           \/ s \in {"limit", "siblings"}
           \/ s \in WithItem /\ task[p].kind = "create" /\ task[p].step \in WithItem
    PROVE  Names(m)'
  <1>1. IsTask(task[p]) /\ TaskOK(m, task[p])
    BY DEF HalfInv, Shaped, Names, TasksOK
  <1>. PICK x : x = [task[p] EXCEPT !.step = s]
    OBVIOUS
  <1>2. x.id = task[p].id /\ x.kind = task[p].kind /\ x.step = s /\ x.number = task[p].number
    BY <1>1 DEF IsTask, TaskFields
  <1>3. task' = [task EXCEPT ![p] = x]
    BY Zenon DEF Goto
  <1>4. Awaits(m)' = Awaits(m)
    BY StillNames DEF Names
  <1>5. TaskOK(m, x)'
    BY <1>1, <1>2, <1>4 DEF TaskOK, WithItem
  <1>6. TasksMove(m)
    BY <1>3, <1>5, OneMoves
  <1>. QED  BY <1>6, NamesStill

LEMMA CreateNames ==
    ASSUME HalfInv, NEW m \in Nat, Names(m), NEW p \in Panels, Create(p) PROVE Names(m)'
  <1>1. PICK n \in Numbers \cup {None}, o \in Orders \cup {0}, names \in SUBSET Aliases :
          task' = [task EXCEPT ![p] = [Idle EXCEPT !.kind = "create", !.step = "event",
                                                   !.number = n, !.order = o, !.aliases = names]]
    BY DEF Create
  <1>. DEFINE x == [Idle EXCEPT !.kind = "create", !.step = "event",
                                !.number = n, !.order = o, !.aliases = names]
  <1>2. x.number = n /\ x.step = "event"
    BY DEF Idle
  <1>3. task' = [task EXCEPT ![p] = x]
    BY <1>1
  <1>. HIDE DEF x
  <1>4. n \in Nat
    BY CatalogAssumption DEF None
  <1>5. TaskOK(m, x)'
    BY <1>2, <1>4 DEF TaskOK, WithItem
  <1>6. TasksMove(m)
    BY <1>3, <1>5, OneMoves
  <1>7. item' = item /\ opening' = opening
    BY DEF Create
  <1>. QED  BY <1>6, <1>7, NamesStill, SameItemsNames DEF Names

LEMMA ChecksNames ==
    ASSUME HalfInv, NEW m \in Nat, Names(m), NEW p \in Panels, ensureOpen(p) \/ assertCanAddItemToEvent(p)
    PROVE  Names(m)'
  <1>1. CASE Refuse(p)
    BY <1>1, RefuseNames
  <1>2. CASE ~Refuse(p)
    <2>1. item' = item /\ opening' = opening
      BY <1>2 DEF ensureOpen, assertCanAddItemToEvent
    <2>2. PICK s \in {"limit", "siblings"} : Goto(p, s)
      BY <1>2 DEF ensureOpen, assertCanAddItemToEvent
    <2>. QED  BY <2>1, <2>2, GotoNames, SameItemsNames DEF Names
  <1>. QED  BY <1>1, <1>2

LEMMA BeginsNames ==
    ASSUME HalfInv, NEW m \in Nat, Names(m), NEW p \in Panels, NEW i \in DOMAIN item,
           (\E n : ReadNumber(p, i, n)) \/ (\E a : CountAliases(p, i, a))
    PROVE  Names(m)'
  <1>1. item' = item /\ opening' = opening
    BY DEF ReadNumber, CountAliases
  <1>2. ASSUME NEW x, x.kind # "create", task' = [task EXCEPT ![p] = x] PROVE Names(m)'
    <2>1. TasksMove(m)
      BY <1>2, NoCreate, OneMoves
    <2>. QED  BY <1>1, <2>1, NamesStill, SameItemsNames DEF Names
  <1>3. ASSUME NEW n, ReadNumber(p, i, n) PROVE Names(m)'
    <2>1. PICK t : task' = [task EXCEPT ![p] = [Idle EXCEPT !.kind = "renumber", !.step = "write",
                                                            !.id = i, !.number = t]]
      BY <1>3 DEF ReadNumber
    <2>. DEFINE x == [Idle EXCEPT !.kind = "renumber", !.step = "write", !.id = i, !.number = t]
    <2>2. x.kind = "renumber" /\ task' = [task EXCEPT ![p] = x]
      BY <2>1 DEF Idle
    <2>. HIDE DEF x
    <2>. QED  BY <1>2, <2>2
  <1>4. ASSUME NEW a, CountAliases(p, i, a) PROVE Names(m)'
    <2>. DEFINE x == [Idle EXCEPT !.kind = "alias", !.step = "write", !.id = i, !.aliases = {a}]
    <2>1. x.kind = "alias" /\ task' = [task EXCEPT ![p] = x]
      BY <1>4 DEF CountAliases, Idle
    <2>. HIDE DEF x
    <2>. QED  BY <1>2, <2>1
  <1>. QED  BY <1>3, <1>4

\* A row is written, but for what names the item.
LEMMA OtherField ==
    ASSUME HalfInv, NEW m \in Nat, OldOK(m), NEW i \in DOMAIN item, NEW v,
           \/ item' = [item EXCEPT ![i].aliases = v]
           \/ item' = [item EXCEPT ![i].live = FALSE] /\ i \notin 1 .. m
    PROVE  SameNames(m)
  <1>1. \A j \in DOMAIN item : DOMAIN item[j] = RowFields
    BY DEF HalfInv, Shaped, Items, IsRow
  <1>2. PICK y : /\ item' = [item EXCEPT ![i] = y]
                 /\ \/ y = [item[i] EXCEPT !.aliases = v]
                    \/ y = [item[i] EXCEPT !.live = FALSE] /\ i \notin 1 .. m
    <2>1. \E y : /\ item' = [item EXCEPT ![i] = y]
                 /\ \/ y = [item[i] EXCEPT !.aliases = v]
                    \/ y = [item[i] EXCEPT !.live = FALSE] /\ i \notin 1 .. m
      BY Zenon
    <2>. QED  BY <2>1
  <1>3. /\ y.order = item[i].order /\ y.number = item[i].number /\ y.started = item[i].started
        /\ y.card = item[i].card /\ y.auction = item[i].auction
        /\ (y.live => item[i].live) /\ (i \in 1 .. m => y.live = item[i].live)
    BY <1>1, <1>2 DEF RowFields
  <1>4. DOMAIN item' = DOMAIN item /\ \A j \in DOMAIN item : item'[j] = IF j = i THEN y ELSE item[j]
    BY <1>2
  <1>5. \A j \in DOMAIN item : SameName(j)
    BY <1>3, <1>4 DEF SameName
  <1>6. \A j \in DOMAIN item : item'[j].live => item[j].live
    BY <1>3, <1>4
  <1>7. \A j \in 1 .. m : item'[j].live = item[j].live
    BY <1>3, <1>4 DEF OldOK
  <1>. QED  BY <1>4, <1>5, <1>6, <1>7 DEF SameNames

LEMMA AliasesNames ==
    ASSUME HalfInv, NEW m \in Nat, Names(m), NEW p \in Panels, SaveAliases(p) \/ AliasesFail(p)
    PROVE  Names(m)'
  <1>1. PICK s \in {"publish", "undo"} : Goto(p, s)
    BY DEF SaveAliases, AliasesFail
  <1>2. task[p].kind = "create" /\ task[p].step \in WithItem /\ s \in WithItem /\ opening' = opening
    BY DEF SaveAliases, AliasesFail, At, WithItem
  <1>3. SameNames(m)
    <2>1. CASE SaveAliases(p)
      <3>1. PICK v : item' = [item EXCEPT ![task[p].id].aliases = v]
        BY <2>1 DEF SaveAliases
      <3>2. task[p].id \in DOMAIN item
        BY <2>1 DEF SaveAliases, At, HalfInv, Tidy, Stands, WithItem
      <3>3. PICK i : i = task[p].id
        OBVIOUS
      <3>. QED  BY <3>1, <3>2, <3>3, OtherField DEF Names
    <2>2. CASE AliasesFail(p)
      BY <2>2, SameItemsNames DEF AliasesFail, Names
    <2>. QED  BY <2>1, <2>2
  <1>. QED  BY <1>1, <1>2, <1>3, GotoNames

LEMMA UndoNames ==
    ASSUME HalfInv, NEW m \in Nat, Names(m), NEW p \in Panels, Undo(p) PROVE Names(m)'
  <1>1. End(p) /\ opening' = opening
    BY DEF Undo, Answer
  <1>2. task[p].id \in DOMAIN item /\ task[p].id \notin 1 .. m
    BY DEF Undo, At, HalfInv, Tidy, Stands, WithItem, Names, TasksOK, TaskOK
  <1>3. PICK i : i = task[p].id
    OBVIOUS
  <1>4. item' = item \/ item' = [item EXCEPT ![i].live = FALSE]
    BY <1>3 DEF Undo
  <1>5. SameNames(m)
    BY <1>2, <1>3, <1>4, OtherField, SameItemsNames DEF Names
  <1>. QED  BY <1>1, <1>5, EndNames

LEMMA createAliasNames ==
    ASSUME HalfInv, NEW m \in Nat, Names(m), NEW p \in Panels, createAlias(p) PROVE Names(m)'
  <1>1. End(p) /\ opening' = opening
    BY DEF createAlias
  <1>2. PICK i : i = task[p].id
    OBVIOUS
  <1>3. item' = item \/ \E v : item' = [item EXCEPT ![i].aliases = v]
    BY <1>2, Zenon DEF createAlias
  <1>4. SameNames(m)
    <2>1. CASE i \in DOMAIN item
      BY <1>3, <2>1, OtherField, SameItemsNames DEF Names
    <2>2. CASE i \notin DOMAIN item
      <3>1. item = [j \in DOMAIN item |-> item[j]]
        BY DEF HalfInv, Shaped, Items
      <3>2. item' = item
        BY <1>3, <2>2, <3>1
      <3>. QED  BY <3>2, SameItemsNames DEF Names
    <2>. QED  BY <2>1, <2>2
  <1>. QED  BY <1>1, <1>4, EndNames

LEMMA PanelNames ==
    ASSUME HalfInv, NEW m \in Nat, Names(m), NEW i \in DOMAIN item, updateAlias(i) \/ removeAlias(i)
    PROVE  Names(m)'
  <1>1. task' = task /\ opening' = opening /\ \E v : item' = [item EXCEPT ![i].aliases = v]
    BY DEF updateAlias, removeAlias
  <1>2. SameNames(m) /\ TasksMove(m)
    BY <1>1, OtherField DEF Names, TasksMove
  <1>. QED  BY <1>1, <1>2, NamesStill

LEMMA EventNames ==
    ASSUME HalfInv, NEW m \in Nat, Names(m), UpdateEvent \/ CloseEvent PROVE Names(m)'
  <1>1. task' = task /\ opening' = opening
    BY DEF UpdateEvent, CloseEvent
  <1>2. SameNames(m)
    <2>1. CASE UpdateEvent
      BY <2>1, SameItemsNames DEF UpdateEvent, Names
    <2>2. CASE CloseEvent
      <3>1. item' = [i \in DOMAIN item |->
                       [item[i] EXCEPT !.auction = IF @ = "open" THEN "closed" ELSE @]]
        BY <2>2 DEF CloseEvent
      <3>2. \A i \in DOMAIN item : DOMAIN item[i] = RowFields
        BY DEF HalfInv, Shaped, Items, IsRow
      <3>3. \A i \in DOMAIN item : SameName(i) /\ item'[i].live = item[i].live
        BY <3>1, <3>2 DEF SameName, RowFields
      <3>. QED  BY <3>1, <3>3 DEF SameNames, Names, OldOK
    <2>. QED  BY <2>1, <2>2
  <1>3. TasksMove(m)
    BY <1>1 DEF TasksMove
  <1>. QED  BY <1>1, <1>2, <1>3, NamesStill

-----------------------------------------------------------------------------
(***************************************************************************)
(* A create reads its siblings, numbers the old ones, and inserts.         *)
(***************************************************************************)
LEMMA TakenIsFinite == ASSUME HalfInv PROVE IsFiniteSet(Live) /\ IsFiniteSet(Taken(Live))
  <1>1. DOMAIN item = 1 .. Len(item) /\ Len(item) \in Nat
    BY Places DEF HalfInv, Shaped
  <1>2. IsFiniteSet(DOMAIN item)
    BY <1>1, FS_Interval
  <1>3. IsFiniteSet(Live)
    BY <1>2, FS_Subset DEF Live
  <1>. DEFINE T == {item[i].number : i \in Live}
              f == [i \in Live |-> item[i].number]
  <1>4. f \in Surjection(Live, T)
    BY DEF Surjection
  <1>5. IsFiniteSet(T)
    BY <1>3, <1>4, FS_Surjection
  <1>6. Taken(Live) \subseteq T
    BY DEF Taken
  <1>. QED  BY <1>3, <1>5, <1>6, FS_Subset

LEMMA SiblingsNames ==
    ASSUME HalfInv, NEW m \in Nat, Names(m), NEW p \in Panels, ReadSiblings(p) PROVE Names(m)'
  <1>. DEFINE o == IF task[p].order # 0 THEN task[p].order
                   ELSE Max({item[i].order : i \in Live} \cup {0}) + 1
              t == IF Unnumbered = <<>> THEN "insert" ELSE "fill"
              D == 1 .. m \ Awaits(m)
  <1>1. /\ task' = [task EXCEPT ![p] = [[[[task[p] EXCEPT !.todo = Unnumbered] EXCEPT !.used = Taken(Live)]
                                         EXCEPT !.order = o] EXCEPT !.step = t]]
        /\ item' = item /\ opening' = opening /\ task[p].kind = "create"
    BY Zenon DEF ReadSiblings, At
  <1>2. IsTask(task[p]) /\ TaskOK(m, task[p])
    BY DEF HalfInv, Shaped, Names, TasksOK
  <1>3. {i \in Live : item[i].number = None} = Awaits(m)
    BY DEF Names, OldOK, NewOK, Awaits, Live
  <1>4. Ordered(Awaits(m)) /\ IsFiniteSet(Awaits(m))
    BY OldOrdered, FS_Subset DEF Names, Ordered
  <1>5. Unnumbered = Sorted(Awaits(m))
    BY <1>3 DEF Unnumbered
  <1>6. /\ Unnumbered \in Seq(Awaits(m)) /\ {Unnumbered[k] : k \in DOMAIN Unnumbered} = Awaits(m)
        /\ \A a, b \in DOMAIN Unnumbered : a < b => Before(Unnumbered[a], Unnumbered[b])
    BY <1>4, <1>5, SortedIs
  <1>7. Awaits(m) \subseteq 1 .. m
    BY DEF Awaits
  <1>8. InTurn(m, Unnumbered, D)
    <2>1. Unnumbered \in Seq(1 .. m)
      BY <1>6, <1>7
    <2>2. 1 .. m \ D = Awaits(m)
      BY <1>7
    <2>. QED  BY <1>6, <2>1, <2>2 DEF InTurn
  <1>9. CASE Unnumbered = <<>>
    <2>1. Awaits(m) = {}
      BY <1>6, <1>9
    <2>. PICK x : x = [[[[task[p] EXCEPT !.todo = Unnumbered] EXCEPT !.used = Taken(Live)]
                        EXCEPT !.order = o] EXCEPT !.step = t]
      OBVIOUS
    <2>2. x.number = task[p].number /\ x.used = Taken(Live) /\ x.step = "insert"
      <3>1. t = "insert"
        BY <1>9
      <3>. HIDE DEF o, t
      <3>. QED  BY <1>2, <3>1 DEF IsTask, TaskFields
    <2>3. Awaits(m)' = {}
      BY <1>1, <2>1 DEF Awaits
    <2>4. x.number \in Nat
      BY <1>1, <1>2, <2>2 DEF TaskOK
    <2>5. TaskOK(m, x)'
      BY <2>2, <2>3, <2>4, TakenIsFinite DEF TaskOK, WithItem
    <2>6. TasksMove(m)
      BY <1>1, <2>5, OneMoves
    <2>. QED  BY <1>1, <2>6, NamesStill, SameItemsNames DEF Names
  <1>10. CASE Unnumbered # <<>>
    <2>. PICK x : x = [[[[task[p] EXCEPT !.todo = Unnumbered] EXCEPT !.used = Taken(Live)]
                        EXCEPT !.order = o] EXCEPT !.step = t]
      OBVIOUS
    <2>1. x.number = task[p].number /\ x.used = Taken(Live) /\ x.todo = Unnumbered /\ x.step = "fill"
      <3>1. t = "fill"
        BY <1>10
      <3>. HIDE DEF o, t
      <3>. QED  BY <1>2, <3>1 DEF IsTask, TaskFields
    <2>2. Awaits(m) # {}
      <3>1. PICK s : s = Unnumbered
        OBVIOUS
      <3>2. s \in Seq(Awaits(m)) /\ s # <<>>
        BY <1>6, <1>10, <3>1
      <3>3. s[1] \in Awaits(m)
        BY <3>2
      <3>. QED  BY <3>3
    <2>3. DOMAIN item = 1 .. m
      BY <2>2 DEF Names, NewOK
    <2>4. Live = 1 .. m
      BY <2>3 DEF Live, Names, OldOK
    <2>5. Taken(Live) = 1 .. Cardinality(D)
      BY <2>4 DEF Names, OldOK
    <2>6. PICK E : E = D
      OBVIOUS
    <2>7. Fills(m, x, E)
      BY <1>8, <1>10, <2>1, <2>5, <2>6 DEF Fills, Names, OldOK
    <2>8. x.number \in Nat
      BY <1>1, <1>2, <2>1 DEF TaskOK
    <2>9. TaskOK(m, x)
      BY <2>1, <2>7, <2>8 DEF TaskOK, WithItem
    <2>10. StillOld(m) /\ Awaits(m)' = Awaits(m)
      BY <1>1, SameItemsNames, StillNames DEF Names
    <2>11. TasksMove(m)
      BY <1>1, <2>9, <2>10, TaskStill, OneMoves
    <2>. QED  BY <1>1, <2>11, NamesStill, SameItemsNames DEF Names
  <1>. QED  BY <1>9, <1>10

\* An old item gets its place in the list: what it has if another request was faster.
LEMMA FillNames ==
    ASSUME HalfInv, NEW m \in Nat, Names(m), NEW p \in Panels, FillNumber(p) PROVE Names(m)'
  <1>1. CASE Refuse(p)
    BY <1>1, RefuseNames
  <1>2. CASE ~Refuse(p)
    <2>1. IsTask(task[p]) /\ TaskOK(m, task[p]) /\ task[p].kind = "create" /\ task[p].step = "fill"
      BY DEF HalfInv, Shaped, Names, TasksOK, FillNumber, At
    <2>2. PICK D : Fills(m, task[p], D)
      BY <2>1 DEF TaskOK
    <2>3. PICK i, n, s : /\ i = Head(task[p].todo) /\ n = LowestFree(task[p].used)
                         /\ s = IF Len(task[p].todo) = 1 THEN "insert" ELSE "fill"
      OBVIOUS
    <2>4. /\ item[i].live /\ Unique(i, n) /\ item' = [item EXCEPT ![i].number = n] /\ opening' = opening
          /\ task' = [task EXCEPT ![p] = [[[task[p] EXCEPT !.todo = Tail(@)] EXCEPT !.used = @ \cup {n}]
                                          EXCEPT !.step = s]]
      <3>1. [task EXCEPT ![p].todo = Tail(@), ![p].used = @ \cup {n}, ![p].step = s]
              = [task EXCEPT ![p] = [[[task[p] EXCEPT !.todo = Tail(@)] EXCEPT !.used = @ \cup {n}]
                                          EXCEPT !.step = s]]
        BY Zenon
      <3>. QED  BY <1>2, <2>3, <3>1, Zenon DEF FillNumber
    <2>5. Ordered(1 .. m) /\ D \in SUBSET (1 .. m) /\ D \cap Awaits(m) = {} /\ Firsts(m, D)
      BY <2>2, OldOrdered DEF Names, Fills, Firsts
    <2>6. /\ i \in 1 .. m \ D /\ \A j \in 1 .. m \ D : j = i \/ Before(i, j)
          /\ InTurn(m, Tail(task[p].todo), D \cup {i})
          /\ Len(task[p].todo) = 1 => D \cup {i} = 1 .. m
          /\ Len(task[p].todo) # 1 => Tail(task[p].todo) # <<>>
      <3>1. PICK todo : todo = task[p].todo
        OBVIOUS
      <3>2. InTurn(m, todo, D) /\ todo # <<>> /\ i = Head(todo)
        BY <2>2, <2>3, <3>1 DEF Fills
      <3>3. /\ i \in 1 .. m \ D /\ \A j \in 1 .. m \ D : j = i \/ Before(i, j)
            /\ InTurn(m, Tail(todo), D \cup {i})
            /\ Len(todo) = 1 => D \cup {i} = 1 .. m
            /\ Len(todo) # 1 => Tail(todo) # <<>>
        BY <2>5, <3>2, HeadInTurn
      <3>. QED  BY <3>1, <3>3
    <2>7. /\ Rank(m, i) = Cardinality(D) + 1 /\ Firsts(m, D \cup {i})
          /\ Cardinality(D) \in Nat /\ Cardinality(D \cup {i}) = Cardinality(D) + 1
      BY <2>5, <2>6, NextRank
    <2>8. n = Cardinality(D) + 1 /\ n = Rank(m, i) /\ n # None
      BY <2>2, <2>3, <2>7, LowestOfFirst DEF Fills, None
    <2>9. /\ DOMAIN item' = DOMAIN item /\ i \in DOMAIN item
          /\ \A j \in DOMAIN item : j # i => item'[j] = item[j]
          /\ item'[i] = [item[i] EXCEPT !.number = n] /\ DOMAIN item[i] = RowFields
      BY <2>4, <2>6 DEF Names, OldOK, HalfInv, Shaped, Items, IsRow
    <2>10. /\ item'[i].number = n /\ item'[i].live = item[i].live /\ item'[i].order = item[i].order
           /\ item'[i].started = item[i].started /\ item'[i].auction = item[i].auction
           /\ item'[i].card = item[i].card
      BY <2>9 DEF RowFields
    <2>11. StillOld(m)
      BY <2>9, <2>10 DEF StillOld, Names, OldOK
    <2>12. Awaits(m)' = Awaits(m) \ {i}
      BY <2>6, <2>8, <2>9, <2>10 DEF Awaits, Names, OldOK
    <2>13. OldOK(m)' /\ NewOK(m)' /\ CardsOK(m)' /\ StartedOK(m)' /\ (Awaits(m) # {} => Auctioned' = Auctioned)
      <3>1. CASE i \notin Awaits(m)
        <4>1. item[i].number = n
          BY <2>6, <2>8, <3>1 DEF Awaits, Names, OldOK
        <4>2. SameNames(m)
          BY <2>9, <2>10, <4>1 DEF SameNames, SameName, Names, OldOK
        <4>. QED  BY <4>2, StillNames DEF Names
      <3>2. CASE i \in Awaits(m)
        <4>1. 1 .. m \ Awaits(m) = D
          <5>1. ASSUME NEW j \in 1 .. m, j \notin Awaits(m), j \notin D PROVE FALSE
            <6>1. j # i /\ Before(i, j)
              BY <2>6, <3>2, <5>1
            <6>2. i \in 1 .. m \ Awaits(m)
              BY <2>6, <5>1, <6>1 DEF Names, OldOK, Firsts
            <6>. QED  BY <3>2, <6>2
          <5>. QED  BY <2>5, <5>1
        <4>2. 1 .. m \ (Awaits(m) \ {i}) = D \cup {i}
          BY <2>6, <4>1
        <4>3. Taken(1 .. m) = 1 .. Cardinality(D)
          BY <4>1 DEF Names, OldOK
        <4>4. Taken(1 .. m)' = Taken(1 .. m) \cup {n}
          <5>1. \A j \in 1 .. m : j # i => item'[j] = item[j]
            BY <2>9 DEF Names, OldOK
          <5>2. item[i].number = None /\ item'[i].number = n /\ i \in 1 .. m
            BY <2>6, <2>10, <3>2 DEF Awaits
          <5>. QED  BY <2>8, <5>1, <5>2 DEF Taken
        <4>5. (1 .. m \ Awaits(m))' = D \cup {i}
          BY <2>12, <4>2
        <4>6. Taken(1 .. m)' = 1 .. Cardinality(D \cup {i})
          <5>1. PICK c \in Nat : c = Cardinality(D)
            BY <2>7
          <5>2. 1 .. c + 1 = 1 .. c \cup {c + 1}
            OBVIOUS
          <5>. QED  BY <2>7, <2>8, <4>3, <4>4, <5>1, <5>2
        <4>7. Firsts(m, D \cup {i})'
          <5>1. PICK E : E = D \cup {i}
            OBVIOUS
          <5>2. Firsts(m, E)'
            BY <2>7, <2>11, <5>1, SameOrder
          <5>. QED  BY <5>1, <5>2
        <4>8. \A j \in 1 .. m : item'[j].live /\ item'[j].order \in Nat /\ item'[j].number \in {None, Rank(m, j)'}
          <5>1. Rank(m, i)' = n
            BY <2>6, <2>8, <2>11, SameOrder
          <5>2. ASSUME NEW j \in 1 .. m, j # i
                PROVE  item'[j].live /\ item'[j].order \in Nat /\ item'[j].number \in {None, Rank(m, j)'}
            <6>1. item'[j] = item[j]
              BY <2>9, <5>2 DEF Names, OldOK
            <6>2. Rank(m, j)' = Rank(m, j)
              BY <2>11, SameOrder
            <6>. QED  BY <6>1, <6>2 DEF Names, OldOK
          <5>. QED  BY <2>6, <2>10, <5>1, <5>2 DEF Names, OldOK
        <4>9. OldOK(m)'
          BY <2>11, <4>5, <4>6, <4>7, <4>8, Zenon DEF OldOK, StillOld
        <4>10. DOMAIN item = 1 .. m
          BY <3>2 DEF Names, NewOK
        <4>11. Live' = Live
          BY <2>9, <2>10 DEF Live
        <4>12. Auctioned' = Auctioned /\ Begun' = Begun
          <5>1. \A j \in DOMAIN item : item'[j].auction = item[j].auction
            BY <2>9, <2>10
          <5>2. {j \in DOMAIN item : item[j].auction # "none"}' = {j \in DOMAIN item : item[j].auction # "none"}
            BY <2>9, <5>1
          <5>3. Begun' = Begun
            BY <5>2, Zenon DEF Begun
          <5>. QED  BY <4>11, <5>1, <5>3 DEF Auctioned, Live
        <4>13. NewOK(m)'
          <5>1. \A j \in Live \ {i} : item[j].number # n
            BY <2>4, <2>8 DEF Unique, Taken
          <5>2. ASSUME NEW j \in Live, NEW k \in Live, j # k, item'[j].number = item'[k].number
                PROVE  item'[j].number = None
            <6>1. j \in DOMAIN item /\ k \in DOMAIN item
              BY DEF Live
            <6>2. CASE j # i /\ k # i
              BY <2>9, <5>2, <6>1, <6>2 DEF Names, NewOK
            <6>3. ASSUME NEW l \in Live, l # i PROVE item'[l].number # n
              <7>1. l \in DOMAIN item
                BY DEF Live
              <7>. QED  BY <2>9, <5>1, <6>3, <7>1
            <6>4. item'[i].number = n
              BY <2>10
            <6>. QED  BY <5>2, <6>2, <6>3, <6>4
          <5>3. \A j \in DOMAIN item' \ (1 .. m) : item'[j].number # None
            BY <2>9, <4>10
          <5>. QED  BY <2>9, <4>10, <4>11, <5>2, <5>3 DEF NewOK
        <4>14. CardsOK(m)'
          <5>1. \A j \in 1 .. m : item'[j].card = item[j].card /\ Rank(m, j)' = Rank(m, j)
            BY <2>9, <2>10, <2>11, <4>10, SameOrder
          <5>. QED  BY <2>9, <4>10, <5>1 DEF CardsOK, Named, Names
        <4>15. StartedOK(m)'
          <5>1. Awaits(m) # {}
            BY <3>2
          <5>2. Auctioned \subseteq 1 .. m
            BY <4>10 DEF Auctioned, Live
          <5>3. Firsts(m, Auctioned)'
            <6>1. PICK E : E = Auctioned
              OBVIOUS
            <6>2. Firsts(m, E)'
              BY <2>11, <5>1, <6>1, SameOrder DEF Names, StartedOK
            <6>. QED  BY <4>12, <6>1, <6>2
          <5>4. \A j \in Auctioned : item'[j].started = item[j].started
            BY <2>9, <2>10, <4>10, <5>2
          <5>5. \A j, k \in Auctioned : Before(j, k)' <=> Before(j, k)
            BY <2>11, <5>2, SameOrder
          <5>. QED  BY <4>12, <5>1, <5>3, <5>4, <5>5 DEF StartedOK, Names
        <4>. QED  BY <4>9, <4>12, <4>13, <4>14, <4>15
      <3>. QED  BY <3>1, <3>2
    <2>14. OpeningOK(m)'
      BY <2>4, <2>11, <2>12, <2>13, OpeningStill DEF Names
    <2>15. TasksOK(m)'
      <3>. PICK x : x = [[[task[p] EXCEPT !.todo = Tail(@)] EXCEPT !.used = @ \cup {n}] EXCEPT !.step = s]
        OBVIOUS
      <3>1. /\ x.number = task[p].number /\ x.todo = Tail(task[p].todo) /\ x.step = s
            /\ x.used = task[p].used \cup {n} /\ x.kind = "create"
        BY <2>1 DEF IsTask, TaskFields
      <3>2. x.used = 1 .. Cardinality(D \cup {i}) /\ Cardinality(D \cup {i}) \in Nat
        BY <2>2, <2>7, <2>8, <3>1 DEF Fills
      <3>3. (D \cup {i}) \cap (Awaits(m) \ {i}) = {}
        BY <2>5
      <3>4. x.number \in Nat
        BY <2>1, <3>1 DEF TaskOK
      <3>5. TaskOK(m, x)'
        <4>1. CASE Len(task[p].todo) = 1
          <5>1. x.step = "insert" /\ Awaits(m)' = {}
            BY <2>3, <2>6, <2>12, <3>1, <3>3, <4>1 DEF Awaits
          <5>2. IsFiniteSet(x.used)
            <6>1. PICK c \in Nat : c = Cardinality(D \cup {i})
              BY <3>2
            <6>2. IsFiniteSet(1 .. c)
              BY FS_Interval
            <6>. QED  BY <3>2, <6>1, <6>2
          <5>. QED  BY <3>4, <5>1, <5>2 DEF TaskOK, WithItem
        <4>2. CASE Len(task[p].todo) # 1
          <5>. PICK E, todo : E = D \cup {i} /\ todo = x.todo
            OBVIOUS
          <5>1. x.step = "fill" /\ todo # <<>> /\ InTurn(m, todo, E)
            BY <2>3, <2>6, <3>1, <4>2
          <5>2. InTurn(m, todo, E)' /\ Firsts(m, E)'
            BY <2>7, <2>11, <5>1, SameOrder
          <5>3. E \cap Awaits(m)' = {}
            BY <2>12, <3>3
          <5>4. Fills(m, x, E)'
            BY <3>2, <5>1, <5>2, <5>3 DEF Fills
          <5>. QED  BY <3>4, <5>1, <5>4 DEF TaskOK, WithItem
        <4>. QED  BY <4>1, <4>2
      <3>6. TasksMove(m)
        BY <2>4, <3>5, OneMoves
      <3>. QED  BY <2>11, <2>12, <3>6, TasksStill DEF Names
    <2>. QED  BY <2>13, <2>14, <2>15 DEF Names
  <1>. QED  BY <1>1, <1>2

\* The new item has a number, and one that no live item has.
LEMMA InsertNames ==
    ASSUME HalfInv, NEW m \in Nat, Names(m), NEW p \in Panels, Insert(p) PROVE Names(m)'
  <1>1. CASE Refuse(p)
    BY <1>1, RefuseNames
  <1>2. CASE ~Refuse(p)
    <2>. PICK n, s, id : /\ n = IF task[p].number = None THEN LowestFree(task[p].used) ELSE task[p].number
                         /\ s = IF task[p].aliases = {} THEN "publish" ELSE "aliases"
                         /\ id = Len(item) + 1
      OBVIOUS
    <2>1. /\ item' = Append(item, Row(n, task[p].order)) /\ opening' = opening /\ Unique(None, n)
          /\ task' = [task EXCEPT ![p] = [[task[p] EXCEPT !.id = id] EXCEPT !.step = s]]
      BY <1>2, Zenon DEF Insert
    <2>2. IsTask(task[p]) /\ TaskOK(m, task[p]) /\ task[p].kind = "create" /\ task[p].step = "insert"
      BY DEF HalfInv, Shaped, Names, TasksOK, Insert, At
    <2>3. Awaits(m) = {} /\ IsFiniteSet(task[p].used) /\ task[p].number \in Nat
      BY <2>2 DEF TaskOK
    <2>4. n # None
      BY <2>3, LowestIsFree DEF None
    <2>5. DOMAIN item = 1 .. Len(item) /\ Len(item) \in Nat /\ 1 .. m \subseteq DOMAIN item
      BY Places DEF HalfInv, Shaped, Names, OldOK
    <2>6. PICK row : row = Row(n, task[p].order)
      OBVIOUS
    <2>7. row.number = n /\ row.card = None
      BY <2>6 DEF Row
    <2>8. /\ DOMAIN item' = DOMAIN item \cup {id} /\ id \notin DOMAIN item
          /\ \A j \in DOMAIN item : item'[j] = item[j]
          /\ item'[id] = row
      <3>1. PICK S : item \in Seq(S)
        BY DEF HalfInv, Shaped, Items
      <3>2. item \in Seq(S \cup {row})
        BY <3>1
      <3>. QED  BY <2>1, <2>5, <2>6, <3>2
    <2>9. StillOld(m)
      BY <2>5, <2>8 DEF StillOld
    <2>10. Awaits(m)' = {}
      BY <2>3, <2>5, <2>8 DEF Awaits
    <2>11. OldOK(m)'
      <3>1. Taken(1 .. m)' = Taken(1 .. m)
        BY <2>5, <2>8 DEF Taken
      <3>2. (1 .. m \ Awaits(m))' = 1 .. m /\ 1 .. m \ Awaits(m) = 1 .. m
        BY <2>3, <2>10
      <3>3. Firsts(m, 1 .. m)'
        BY DEF Firsts
      <3>4. Taken(1 .. m)' = 1 .. Cardinality(1 .. m)
        BY <3>1, <3>2, Zenon DEF Names, OldOK
      <3>5. \A j \in 1 .. m : item'[j].live /\ item'[j].order \in Nat /\ item'[j].number \in {None, Rank(m, j)'}
        BY <2>5, <2>8, <2>9, SameOrder DEF Names, OldOK
      <3>. QED  BY <2>9, <3>2, <3>3, <3>4, <3>5, Zenon DEF OldOK, StillOld
    <2>12. NewOK(m)'
      <3>1. \A j \in DOMAIN item' \ (1 .. m) : item'[j].number # None
        BY <2>4, <2>7, <2>8 DEF Names, NewOK
      <3>2. \A j \in Live : item[j].number # n
        <4>1. None \notin Live
          BY <2>5 DEF Live, None
        <4>. QED  BY <2>1, <2>4, <4>1 DEF Unique, Taken
      <3>3. Live' \subseteq Live \cup {id}
        BY <2>8 DEF Live
      <3>4. \A j \in Live : j \in DOMAIN item
        BY DEF Live
      <3>5. \A j, k \in Live' : j # k /\ item'[j].number = item'[k].number => item'[j].number = None
        BY <2>7, <2>8, <3>2, <3>3, <3>4 DEF Names, NewOK
      <3>. QED  BY <2>10, <3>1, <3>5 DEF NewOK
    <2>13. CardsOK(m)'
      <3>1. \A j \in 1 .. m : Rank(m, j)' = Rank(m, j)
        BY <2>9, SameOrder
      <3>. QED  BY <2>7, <2>8, <3>1 DEF CardsOK, Named, Names
    <2>14. StartedOK(m)' /\ OpeningOK(m)'
      BY <2>1, <2>10 DEF StartedOK, OpeningOK, Names
    <2>15. TasksOK(m)'
      <3>. PICK x : x = [[task[p] EXCEPT !.id = id] EXCEPT !.step = s]
        OBVIOUS
      <3>1. x.number = task[p].number /\ x.id = id /\ x.step = s /\ s \in WithItem
        BY <2>2 DEF IsTask, TaskFields, WithItem
      <3>2. id \notin 1 .. m
        BY <2>5, <2>8
      <3>3. TaskOK(m, x)'
        BY <2>3, <2>10, <3>1, <3>2 DEF TaskOK, WithItem
      <3>4. TasksMove(m)
        BY <2>1, <3>3, OneMoves
      <3>. QED  BY <2>3, <2>9, <2>10, <3>4, TasksStill DEF Names
    <2>. QED  BY <2>11, <2>12, <2>13, <2>14, <2>15 DEF Names
  <1>. QED  BY <1>1, <1>2

-----------------------------------------------------------------------------
(***************************************************************************)
(* Auctions begin and cards go out.                                        *)
(***************************************************************************)
\* Once the old items have their numbers the rest of the names follows from the rows alone.
LEMMA AllNumbered ==
    ASSUME NEW m \in Nat, OldOK(m), NewOK(m), Awaits(m) = {}, DOMAIN item' = DOMAIN item,
           \A i \in DOMAIN item : /\ item'[i].live = item[i].live /\ item'[i].order = item[i].order
                                  /\ item'[i].number = item[i].number
    PROVE  OldOK(m)' /\ NewOK(m)' /\ StartedOK(m)' /\ Awaits(m)' = {} /\ StillOld(m)
  <1>1. StillOld(m) /\ Awaits(m)' = {}
    BY DEF StillOld, Awaits, OldOK
  <1>2. Taken(1 .. m)' = Taken(1 .. m)
    BY DEF Taken, OldOK
  <1>3. (1 .. m \ Awaits(m))' = 1 .. m /\ 1 .. m \ Awaits(m) = 1 .. m
    BY <1>1
  <1>4. Firsts(m, 1 .. m)'
    BY DEF Firsts
  <1>5. \A j \in 1 .. m : item'[j].live /\ item'[j].order \in Nat /\ item'[j].number \in {None, Rank(m, j)'}
    BY <1>1, SameOrder DEF OldOK
  <1>6. Taken(1 .. m)' = 1 .. Cardinality(1 .. m)
    BY <1>2, <1>3, Zenon DEF OldOK
  <1>7. OldOK(m)'
    BY <1>1, <1>3, <1>4, <1>5, <1>6, Zenon DEF OldOK, StillOld
  <1>8. NewOK(m)'
    BY <1>1 DEF NewOK, Live
  <1>. QED  BY <1>1, <1>7, <1>8 DEF StartedOK

LEMMA PublishNames ==
    ASSUME HalfInv, NEW m \in Nat, Names(m), NEW p \in Panels, Publish(p) PROVE Names(m)'
  <1>1. End(p) /\ opening' = opening
    BY DEF Publish, Answer
  <1>2. PICK i, t : /\ i = task[p].id
                    /\ t = IF item[i].started = 0 THEN Begun + 1 ELSE item[i].started
    OBVIOUS
  <1>3. i \in DOMAIN item /\ i \notin 1 .. m /\ Awaits(m) = {}
    BY <1>2 DEF Publish, At, HalfInv, Tidy, Stands, WithItem, Names, TasksOK, TaskOK
  <1>4. DOMAIN item[i] = RowFields
    BY <1>3 DEF HalfInv, Shaped, Items, IsRow
  <1>5. PICK y : y = [[[item[i] EXCEPT !.auction = "open"] EXCEPT !.card = item[i].number] EXCEPT !.started = t]
    OBVIOUS
  <1>6. item' = item \/ item' = [item EXCEPT ![i] = y]
    <2>1. [item EXCEPT ![i].auction = "open", ![i].card = item[i].number,
                       ![i].started = IF @ = 0 THEN Begun + 1 ELSE @] = [item EXCEPT ![i] = y]
      BY <1>2, <1>5, Zenon
    <2>. QED  BY <1>2, <2>1, Zenon DEF Publish
  <1>7. CASE item' = item
    BY <1>1, <1>7, EndNames, SameItemsNames DEF Names
  <1>8. CASE item' = [item EXCEPT ![i] = y]
    <2>1. /\ y.live = item[i].live /\ y.order = item[i].order /\ y.number = item[i].number
          /\ y.card = item[i].number
      BY <1>4, <1>5 DEF RowFields
    <2>2. DOMAIN item' = DOMAIN item /\ \A j \in DOMAIN item : item'[j] = IF j = i THEN y ELSE item[j]
      BY <1>8
    <2>3. OldOK(m)' /\ NewOK(m)' /\ StartedOK(m)' /\ Awaits(m)' = {} /\ StillOld(m)
      BY <1>3, <2>1, <2>2, AllNumbered DEF Names
    <2>4. CardsOK(m)'
      <3>1. \A j \in 1 .. m : Rank(m, j)' = Rank(m, j)
        BY <2>3, SameOrder
      <3>. QED  BY <1>3, <2>1, <2>2, <3>1 DEF CardsOK, Named, Names
    <2>5. OpeningOK(m)'
      BY <1>1, <2>3 DEF OpeningOK, Names
    <2>6. TasksMove(m)
      <3>1. TaskOK(m, Idle)'
        BY NoCreate, Rows
      <3>. QED  BY <1>1, <3>1, OneMoves DEF End
    <2>7. TasksOK(m)'
      BY <1>3, <2>3, <2>6, TasksStill DEF Names
    <2>. QED  BY <2>3, <2>4, <2>5, <2>7 DEF Names
  <1>. QED  BY <1>6, <1>7, <1>8

LEMMA OpenNames ==
    ASSUME HalfInv, NEW m \in Nat, Names(m), OpenList PROVE Names(m)'
  <1>. DEFINE N == {i \in Live : item[i].auction = "none"}
  <1>1. task' = task /\ item' = item /\ opening' = [step |-> "start", todo |-> Sorted(N)]
    BY DEF OpenList
  <1>2. SameNames(m)
    BY <1>1, SameItemsNames DEF Names
  <1>3. /\ OldOK(m)' /\ NewOK(m)' /\ CardsOK(m)' /\ StartedOK(m)' /\ StillOld(m)
        /\ Awaits(m)' = Awaits(m) /\ (Awaits(m) # {} => Auctioned' = Auctioned)
    BY <1>2, StillNames DEF Names
  <1>4. TasksOK(m)'
    BY <1>1, <1>3, TasksStill DEF Names, TasksMove
  <1>5. ASSUME Awaits(m) # {} PROVE InTurn(m, Sorted(N), Auctioned)
    <2>1. Live = 1 .. m
      BY <1>5 DEF Names, NewOK, OldOK, Live
    <2>2. N = 1 .. m \ Auctioned /\ N \subseteq 1 .. m
      BY <2>1 DEF Auctioned
    <2>3. Ordered(N) /\ IsFiniteSet(N)
      BY <2>2, OldOrdered, FS_Subset DEF Names, Ordered
    <2>. HIDE DEF N
    <2>4. PICK s : s = Sorted(N)
      OBVIOUS
    <2>5. /\ s \in Seq(N) /\ {s[k] : k \in DOMAIN s} = N
          /\ \A a, b \in DOMAIN s : a < b => Before(s[a], s[b])
      BY <2>3, <2>4, SortedIs
    <2>6. s \in Seq(1 .. m)
      BY <2>2, <2>5
    <2>. QED  BY <2>2, <2>4, <2>5, <2>6 DEF InTurn
  <1>6. OpeningOK(m)'
    <2>. HIDE DEF N
    <2>1. opening' = [step |-> opening'.step, todo |-> opening'.todo] /\ opening'.todo = Sorted(N)
      BY <1>1
    <2>2. ASSUME Awaits(m) # {} PROVE InTurn(m, opening.todo, Auctioned)'
      <3>1. PICK s, D : s = opening'.todo /\ D = Auctioned
        OBVIOUS
      <3>2. InTurn(m, s, D)'
        BY <1>3, <1>5, <2>1, <2>2, <3>1, SameOrder
      <3>3. D = Auctioned'
        BY <1>3, <2>2, <3>1
      <3>. QED  BY <3>1, <3>2, <3>3
    <2>. QED  BY <1>3, <2>1, <2>2 DEF OpeningOK
  <1>. QED  BY <1>3, <1>4, <1>6 DEF Names

LEMMA BegunIs == ASSUME HalfInv PROVE Begun \in Nat /\ IsFiniteSet({i \in DOMAIN item : item[i].auction # "none"})
  <1>1. DOMAIN item = 1 .. Len(item) /\ Len(item) \in Nat
    BY Places DEF HalfInv, Shaped
  <1>2. IsFiniteSet(DOMAIN item)
    BY <1>1, FS_Interval
  <1>. QED  BY <1>2, FS_Subset, FS_CardinalityType DEF Begun

\* The next one is auctioned: while numbers are missing, the next in the order of the list.
LEMMA StartNames ==
    ASSUME HalfInv, NEW m \in Nat, Names(m), StartNext PROVE Names(m)'
  <1>1. task' = task
    BY DEF StartNext
  <1>2. CASE opening' = NotOpening /\ item' = item
    <2>1. /\ OldOK(m)' /\ NewOK(m)' /\ CardsOK(m)' /\ StartedOK(m)' /\ StillOld(m) /\ Awaits(m)' = Awaits(m)
      BY <1>2, SameItemsNames, StillNames DEF Names
    <2>2. OpeningOK(m)'
      BY <1>2 DEF OpeningOK, NotOpening
    <2>3. TasksOK(m)'
      BY <1>1, <2>1, TasksStill DEF Names, TasksMove
    <2>. QED  BY <2>1, <2>2, <2>3 DEF Names
  <1>3. CASE ~(opening' = NotOpening /\ item' = item)
    <2>1. PICK i : i = Head(opening.todo)
      OBVIOUS
    <2>2. /\ opening.step = "start" /\ opening.todo # <<>> /\ item[i].live
          /\ opening' = [opening EXCEPT !.todo = Tail(@)]
          /\ IF item[i].auction = "none" THEN Start(i) ELSE item' = item
      BY <1>3, <2>1, Zenon DEF StartNext
    <2>3. opening' = [step |-> "start", todo |-> Tail(opening.todo)]
      BY <2>2 DEF Names, OpeningOK
    <2>4. PICK t : t = Begun + 1
      OBVIOUS
    <2>5. PICK y : y = [[item[i] EXCEPT !.auction = "open"] EXCEPT !.started = t]
      OBVIOUS
    <2>6. item[i].auction = "none" => item' = [item EXCEPT ![i] = y]
      <3>1. [item EXCEPT ![i].auction = "open", ![i].started = Begun + 1] = [item EXCEPT ![i] = y]
        BY <2>4, <2>5, Zenon
      <3>. QED  BY <2>2, <3>1, Zenon DEF Start
    <2>7. CASE Awaits(m) = {}
      <3>1. /\ DOMAIN item' = DOMAIN item
            /\ \A j \in DOMAIN item : /\ item'[j].live = item[j].live /\ item'[j].order = item[j].order
                                      /\ item'[j].number = item[j].number /\ item'[j].card = item[j].card
        <4>1. CASE item' = item
          BY <4>1
        <4>2. CASE item' = [item EXCEPT ![i] = y]
          <5>1. \A j \in DOMAIN item : DOMAIN item[j] = RowFields
            BY DEF HalfInv, Shaped, Items, IsRow
          <5>2. i \in DOMAIN item => /\ y.live = item[i].live /\ y.order = item[i].order
                                     /\ y.number = item[i].number /\ y.card = item[i].card
            BY <2>5, <5>1 DEF RowFields
          <5>. QED  BY <4>2, <5>2
        <4>. QED  BY <2>2, <2>6, <4>1, <4>2
      <3>2. OldOK(m)' /\ NewOK(m)' /\ StartedOK(m)' /\ Awaits(m)' = {} /\ StillOld(m)
        BY <2>7, <3>1, AllNumbered DEF Names
      <3>3. CardsOK(m)'
        <4>1. \A j \in 1 .. m : Rank(m, j)' = Rank(m, j)
          BY <3>2, SameOrder
        <4>. QED  BY <3>1, <4>1 DEF CardsOK, Named, Names
      <3>4. OpeningOK(m)'
        BY <2>3, <3>2 DEF OpeningOK
      <3>5. TasksOK(m)'
        BY <1>1, <2>7, <3>2, TasksStill DEF Names, TasksMove
      <3>. QED  BY <3>2, <3>3, <3>4, <3>5 DEF Names
    <2>8. CASE Awaits(m) # {}
      <3>1. PICK todo, D : todo = opening.todo /\ D = Auctioned
        OBVIOUS
      <3>2. /\ DOMAIN item = 1 .. m /\ Firsts(m, D) /\ Ordered(1 .. m) /\ InTurn(m, todo, D)
        BY <2>2, <2>8, <3>1, OldOrdered DEF Names, NewOK, StartedOK, OpeningOK
      <3>3. /\ i \in 1 .. m \ D /\ \A j \in 1 .. m \ D : j = i \/ Before(i, j)
            /\ InTurn(m, Tail(todo), D \cup {i})
        <4>1. D \in SUBSET (1 .. m) /\ todo # <<>> /\ i = Head(todo)
          BY <2>1, <2>2, <3>1, <3>2 DEF Firsts
        <4>. QED  BY <3>2, <4>1, HeadInTurn
      <3>4. Firsts(m, D \cup {i})
        BY <3>2, <3>3, NextRank
      <3>5. item[i].auction = "none" /\ item' = [item EXCEPT ![i] = y]
        BY <2>6, <3>1, <3>2, <3>3 DEF Auctioned, Live, Names, OldOK
      <3>6. DOMAIN item[i] = RowFields
        BY <3>2, <3>3 DEF HalfInv, Shaped, Items, IsRow
      <3>7. /\ y.live = item[i].live /\ y.order = item[i].order /\ y.number = item[i].number
            /\ y.card = item[i].card /\ y.auction = "open" /\ y.started = t
        BY <2>5, <3>6 DEF RowFields
      <3>8. DOMAIN item' = DOMAIN item /\ \A j \in DOMAIN item : item'[j] = IF j = i THEN y ELSE item[j]
        BY <3>5
      <3>9. StillOld(m) /\ Awaits(m)' = Awaits(m)
        BY <3>2, <3>7, <3>8 DEF StillOld, Awaits
      <3>10. Auctioned' = D \cup {i}
        BY <3>1, <3>2, <3>3, <3>7, <3>8 DEF Auctioned, Live, Names, OldOK
      <3>11. Begun' = Begun + 1 /\ Begun \in Nat
        <4>. DEFINE B == {j \in DOMAIN item : item[j].auction # "none"}
        <4>1. IsFiniteSet(B) /\ Begun \in Nat /\ Begun = Cardinality(B)
          BY BegunIs DEF Begun
        <4>2. i \notin B /\ B' = B \cup {i}
          BY <3>2, <3>3, <3>5, <3>7, <3>8
        <4>3. Begun' = Cardinality(B')
          BY DEF Begun
        <4>. HIDE DEF B
        <4>. QED  BY <4>1, <4>2, <4>3, FS_AddElement
      <3>12. OldOK(m)'
        <4>1. Taken(1 .. m)' = Taken(1 .. m)
          BY <3>2, <3>7, <3>8 DEF Taken
        <4>2. (1 .. m \ Awaits(m))' = 1 .. m \ Awaits(m)
          BY <3>9
        <4>3. Firsts(m, 1 .. m \ Awaits(m))'
          <5>1. PICK E : E = 1 .. m \ Awaits(m)
            OBVIOUS
          <5>2. Firsts(m, E)'
            BY <3>9, <5>1, SameOrder DEF Names, OldOK
          <5>. QED  BY <4>2, <5>1, <5>2
        <4>4. \A j \in 1 .. m : item'[j].live /\ item'[j].order \in Nat /\ item'[j].number \in {None, Rank(m, j)'}
          <5>1. \A j \in 1 .. m : /\ item'[j].live = item[j].live /\ item'[j].order = item[j].order
                                  /\ item'[j].number = item[j].number
            BY <3>2, <3>7, <3>8
          <5>. QED  BY <3>9, <5>1, SameOrder DEF Names, OldOK
        <4>. QED  BY <3>9, <4>1, <4>2, <4>3, <4>4, Zenon DEF Names, OldOK, StillOld
      <3>13. NewOK(m)'
        <4>1. \A j \in DOMAIN item : item'[j].live = item[j].live /\ item'[j].number = item[j].number
          BY <3>7, <3>8
        <4>. QED  BY <3>8, <3>9, <4>1 DEF Names, NewOK, Live
      <3>14. CardsOK(m)'
        <4>1. \A j \in 1 .. m : item'[j].card = item[j].card /\ Rank(m, j)' = Rank(m, j)
          BY <3>2, <3>7, <3>8, <3>9, SameOrder
        <4>. QED  BY <3>2, <3>8, <4>1 DEF CardsOK, Named, Names
      <3>15. StartedOK(m)'
        <4>1. Firsts(m, Auctioned)'
          <5>1. PICK E : E = D \cup {i}
            OBVIOUS
          <5>2. Firsts(m, E)'
            BY <3>4, <3>9, <5>1, SameOrder
          <5>. QED  BY <3>10, <5>1, <5>2
        <4>2. /\ \A j \in D : item[j].started \in 1 .. Begun
              /\ \A j, k \in D : Before(j, k) => item[j].started < item[k].started
          BY <2>8, <3>1 DEF Names, StartedOK
        <4>3. D \subseteq DOMAIN item /\ i \notin D
          BY <3>2, <3>3 DEF Firsts
        <4>4. item'[i].started = Begun + 1 /\ \A j \in D : item'[j].started = item[j].started
          BY <2>4, <3>2, <3>3, <3>7, <3>8, <4>3
        <4>5. \A j \in D \cup {i} : item'[j].started \in 1 .. Begun + 1
          BY <3>11, <4>2, <4>4
        <4>6. ASSUME NEW j \in D \cup {i}, NEW k \in D \cup {i}, Before(j, k)'
              PROVE  item'[j].started < item'[k].started
          <5>1. Before(j, k)
            BY <3>2, <3>3, <3>9, <4>3, <4>6, SameOrder
          <5>2. CASE j \in D /\ k \in D
            BY <4>2, <4>4, <5>1, <5>2
          <5>3. CASE j \in D /\ k = i
            BY <3>11, <4>2, <4>4, <5>3
          <5>4. CASE j = i
            <6>1. k = i \/ i \in D
              BY <3>2, <3>3, <5>1, <5>4 DEF Firsts
            <6>. QED  BY <3>2, <3>3, <4>3, <5>1, <5>4, <6>1, InOrder
          <5>. QED  BY <5>2, <5>3, <5>4
        <4>. QED  BY <3>10, <3>11, <4>1, <4>5, <4>6 DEF StartedOK
      <3>16. OpeningOK(m)'
        <4>1. PICK s, E : s = Tail(todo) /\ E = D \cup {i}
          OBVIOUS
        <4>2. InTurn(m, s, E)'
          BY <3>3, <3>9, <4>1, SameOrder
        <4>3. opening'.todo = s /\ Auctioned' = E
          BY <2>3, <3>1, <3>10, <4>1
        <4>4. InTurn(m, opening.todo, Auctioned)'
          BY <4>2, <4>3
        <4>. QED  BY <2>3, <4>4 DEF OpeningOK
      <3>17. TasksOK(m)'
        BY <1>1, <3>9, TasksStill DEF Names, TasksMove
      <3>. QED  BY <3>12, <3>13, <3>14, <3>15, <3>16, <3>17 DEF Names
    <2>. QED  BY <2>7, <2>8
  <1>. QED  BY <1>2, <1>3

\* While numbers are missing, the position shown is the place in the old list.
LEMMA PositionIs ==
    ASSUME NEW m \in Nat, OldOK(m), NewOK(m), StartedOK(m), Awaits(m) # {}, NEW i \in Auctioned
    PROVE  i \in 1 .. m /\ Position(i) = Rank(m, i)
  <1>1. /\ Firsts(m, Auctioned) /\ Ordered(1 .. m)
        /\ \A j, k \in Auctioned : Before(j, k) => item[j].started < item[k].started
        /\ \A j \in Auctioned : item[j].started \in 1 .. Begun
    BY OldOrdered DEF StartedOK
  <1>2. Auctioned \subseteq 1 .. m
    BY <1>1 DEF Firsts
  <1>3. \A j \in Auctioned : item[j].order \in Nat /\ item[j].started \in Int
    <2>1. \A j \in Auctioned : item[j].order \in Nat
      BY <1>1, <1>2, Zenon DEF Ordered
    <2>2. 1 .. Begun \subseteq Int
      OBVIOUS
    <2>. QED  BY <1>1, <2>1, <2>2, Zenon
  <1>4. ASSUME NEW j \in Auctioned, ~Sooner(i, j) PROVE ~Before(i, j)
    BY <1>1, <1>3, <1>4 DEF Sooner, Before
  <1>5. ASSUME NEW j \in 1 .. m, ~Before(i, j) PROVE j \in Auctioned /\ ~Sooner(i, j)
    <2>1. j = i \/ Before(j, i)
      BY <1>1, <1>2, <1>5, InOrder
    <2>2. j \in Auctioned
      BY <1>1, <2>1 DEF Firsts
    <2>3. j # i => item[j].started < item[i].started
      BY <1>1, <2>1, <2>2
    <2>4. /\ item[i].order \in Nat /\ item[j].order \in Nat
          /\ item[i].started \in Int /\ item[j].started \in Int
      BY <1>3, <2>2
    <2>5. CASE j = i
      BY <2>2, <2>4, <2>5 DEF Sooner
    <2>6. CASE j # i
      <3>1. item[j].order < item[i].order \/ item[j].order = item[i].order
        BY <2>1, <2>6 DEF Before
      <3>. QED  BY <2>2, <2>3, <2>4, <2>6, <3>1 DEF Sooner
    <2>. QED  BY <2>5, <2>6
  <1>6. {j \in Auctioned : ~Sooner(i, j)} = {j \in 1 .. m : ~Before(i, j)}
    BY <1>2, <1>4, <1>5
  <1>. QED  BY <1>2, <1>6, Zenon DEF Position, Rank, Place

LEMMA ShownIs ==
    ASSUME NEW m \in Nat, OldOK(m), NewOK(m), StartedOK(m), NEW i \in Auctioned
    PROVE  Shown(i) = Named(m, i)
  <1>1. i \in DOMAIN item
    BY DEF Auctioned, Live
  <1>2. CASE item[i].number # None
    BY <1>2 DEF Shown, Named, OldOK
  <1>3. CASE item[i].number = None
    <2>1. i \in Awaits(m)
      BY <1>1, <1>3 DEF NewOK, Awaits
    <2>2. i \in 1 .. m /\ Position(i) = Rank(m, i)
      BY <2>1, PositionIs
    <2>. QED  BY <1>3, <2>2 DEF Shown, Named
  <1>. QED  BY <1>2, <1>3

LEMMA CardsNames ==
    ASSUME HalfInv, NEW m \in Nat, Names(m), SendCards PROVE Names(m)'
  <1>1. /\ task' = task /\ opening' = NotOpening
        /\ item' = [i \in DOMAIN item |->
                     IF i \in Auctioned /\ item[i].auction = "open" /\ item[i].card = None
                     THEN [item[i] EXCEPT !.card = Shown(i)] ELSE item[i]]
    BY DEF SendCards
  <1>2. \A i \in DOMAIN item : DOMAIN item[i] = RowFields
    BY DEF HalfInv, Shaped, Items, IsRow
  <1>3. DOMAIN item' = DOMAIN item
    BY <1>1
  <1>4. ASSUME NEW i \in DOMAIN item
        PROVE  /\ item'[i].live = item[i].live /\ item'[i].order = item[i].order
               /\ item'[i].number = item[i].number /\ item'[i].started = item[i].started
               /\ item'[i].auction = item[i].auction
               /\ (item'[i].card = item[i].card \/ (i \in Auctioned /\ item'[i].card = Shown(i)))
    BY <1>1, <1>2 DEF RowFields
  <1>5. StillOld(m) /\ Awaits(m)' = Awaits(m)
    BY <1>3, <1>4 DEF StillOld, Awaits, Names, OldOK
  <1>6. OldOK(m)'
    <2>1. Taken(1 .. m)' = Taken(1 .. m)
      BY <1>4 DEF Taken, Names, OldOK
    <2>2. Firsts(m, 1 .. m \ Awaits(m))'
      <3>1. PICK E : E = 1 .. m \ Awaits(m)
        OBVIOUS
      <3>2. Firsts(m, E)'
        BY <1>5, <3>1, SameOrder DEF Names, OldOK
      <3>. QED  BY <1>5, <3>1, <3>2
    <2>3. \A j \in 1 .. m : item'[j].live /\ item'[j].order \in Nat /\ item'[j].number \in {None, Rank(m, j)'}
      BY <1>4, <1>5, SameOrder DEF Names, OldOK
    <2>4. (1 .. m \ Awaits(m))' = 1 .. m \ Awaits(m)
      BY <1>5
    <2>. QED  BY <1>5, <2>1, <2>2, <2>3, <2>4, Zenon DEF Names, OldOK, StillOld
  <1>7. Live' = Live
    BY <1>3, <1>4 DEF Live
  <1>8. NewOK(m)'
    <2>1. \A i \in Live : i \in DOMAIN item
      BY DEF Live
    <2>. QED  BY <1>3, <1>4, <1>5, <1>7, <2>1 DEF Names, NewOK
  <1>9. Auctioned' = Auctioned /\ Begun' = Begun
    <2>1. {i \in DOMAIN item : item[i].auction # "none"}' = {i \in DOMAIN item : item[i].auction # "none"}
      BY <1>3, <1>4
    <2>2. Begun' = Begun
      BY <2>1, Zenon DEF Begun
    <2>. QED  BY <1>4, <1>7, <2>2 DEF Auctioned, Live
  <1>10. CardsOK(m)'
    <2>1. \A i \in DOMAIN item : Named(m, i)' = Named(m, i)
      BY <1>4, <1>5, SameOrder DEF Named
    <2>2. \A i \in Auctioned : Shown(i) = Named(m, i)
      BY ShownIs DEF Names
    <2>. QED  BY <1>3, <1>4, <2>1, <2>2 DEF CardsOK, Names
  <1>11. StartedOK(m)'
    <2>. SUFFICES ASSUME Awaits(m) # {} PROVE StartedOK(m)'
      BY <1>5 DEF StartedOK
    <2>1. Auctioned \subseteq 1 .. m /\ Auctioned \subseteq DOMAIN item
      BY DEF Names, StartedOK, Firsts, Auctioned, Live
    <2>2. Firsts(m, Auctioned)'
      <3>1. PICK E : E = Auctioned
        OBVIOUS
      <3>2. Firsts(m, E)'
        BY <1>5, <3>1, SameOrder DEF Names, StartedOK
      <3>. QED  BY <1>9, <3>1, <3>2
    <2>3. \A i, j \in Auctioned : Before(i, j)' <=> Before(i, j)
      BY <1>5, <2>1, SameOrder
    <2>4. \A i \in Auctioned : item'[i].started = item[i].started
      BY <1>4, <2>1
    <2>. QED  BY <1>9, <2>2, <2>3, <2>4 DEF Names, StartedOK
  <1>12. OpeningOK(m)'
    BY <1>1 DEF OpeningOK, NotOpening
  <1>13. TasksOK(m)'
    BY <1>1, <1>5, TasksStill DEF Names, TasksMove
  <1>. QED  BY <1>6, <1>8, <1>10, <1>11, <1>12, <1>13 DEF Names

-----------------------------------------------------------------------------
(***************************************************************************)
(* Together.                                                               *)
(***************************************************************************)
LEMMA NamesInit == Init => NamesInv
  <1>. SUFFICES ASSUME Init PROVE \E m \in Nat : Names(m)
    BY DEF NamesInv
  <1>1. PICK script \in Scripts :
          item = [i \in DOMAIN Legacy[script] |-> Row(None, Legacy[script][i])]
    BY DEF Init
  <1>2. Legacy[script] \in Seq(Nat)
    BY CatalogAssumption
  <1>3. PICK m \in Nat : m = Len(Legacy[script])
    BY <1>2
  <1>4. DOMAIN item = 1 .. m
    BY <1>1, <1>2, <1>3
  <1>5. \A i \in 1 .. m : /\ item[i].live /\ item[i].order \in Nat /\ item[i].number = None
                          /\ item[i].card = None /\ item[i].auction = "none"
    BY <1>1, <1>2, <1>4 DEF Row
  <1>6. Awaits(m) = 1 .. m /\ Auctioned = {}
    BY <1>4, <1>5 DEF Awaits, Auctioned, Live
  <1>7. OldOK(m)
    <2>1. Taken(1 .. m) = {} /\ 1 .. m \ Awaits(m) = {} /\ 1 .. 0 = {}
      BY <1>5, <1>6 DEF Taken
    <2>2. Cardinality({}) = 0
      BY FS_EmptySet
    <2>3. Firsts(m, {})
      BY DEF Firsts
    <2>. QED  BY <1>4, <1>5, <2>1, <2>2, <2>3 DEF OldOK
  <1>8. NewOK(m) /\ CardsOK(m)
    BY <1>4, <1>5 DEF NewOK, CardsOK, Live
  <1>9. StartedOK(m)
    BY <1>6 DEF StartedOK, Firsts
  <1>10. OpeningOK(m) /\ TasksOK(m)
    BY Rows DEF Init, OpeningOK, NotOpening, TasksOK, TaskOK
  <1>. QED  BY <1>7, <1>8, <1>9, <1>10 DEF Names

LEMMA NamesNext == ASSUME HalfInv, NamesInv, [Next]_vars PROVE NamesInv'
  <1>. SUFFICES ASSUME ~edited' PROVE (\E m \in Nat : Names(m))'
    BY DEF NamesInv
  <1>1. ~edited
    BY DEF Next, Request, vars, history, Create, ensureOpen, assertCanAddItemToEvent, ReadSiblings, FillNumber,
           Insert, SaveAliases, AliasesFail, Undo, Publish, Refuse, ReadNumber, WriteNumber, CountAliases,
           createAlias, Reorder, RemoveItem, updateAlias, removeAlias, UpdateEvent, CloseEvent, RemoveEvent,
           OpenList, StartNext, SendCards
  <1>2. PICK m \in Nat : Names(m)
    BY <1>1 DEF NamesInv
  <1>3. CASE UNCHANGED vars
    <2>1. item' = item /\ opening' = opening /\ task' = task
      BY <1>3 DEF vars
    <2>2. TasksMove(m) /\ SameNames(m)
      BY <1>2, <2>1, SameItemsNames DEF TasksMove, Names
    <2>. QED  BY <1>2, <2>1, <2>2, NamesStill
  <1>4. ASSUME NEW p \in Panels, Request(p) PROVE Names(m)'
    <2>1. ~WriteNumber(p)
      BY DEF WriteNumber
    <2>. QED  BY <1>2, <1>4, <2>1, CreateNames, ChecksNames, SiblingsNames, FillNames, InsertNames, AliasesNames,
                 UndoNames, PublishNames, createAliasNames, BeginsNames DEF Request
  <1>5. ASSUME NEW i \in DOMAIN item, Reorder(i) \/ RemoveItem(i) \/ updateAlias(i) \/ removeAlias(i)
        PROVE  Names(m)'
    <2>1. ~Reorder(i) /\ ~RemoveItem(i)
      BY DEF Reorder, RemoveItem
    <2>. QED  BY <1>2, <1>5, <2>1, PanelNames
  <1>6. CASE UpdateEvent \/ CloseEvent \/ RemoveEvent \/ OpenList \/ StartNext \/ SendCards
    <2>1. ~RemoveEvent
      BY DEF RemoveEvent
    <2>. QED  BY <1>2, <1>6, <2>1, EventNames, OpenNames, StartNames, CardsNames
  <1>. QED  BY <1>3, <1>4, <1>5, <1>6 DEF Next

\* The number on a card is the one a bid needs, and no other item's.
LEMMA NamesAreCards == ASSUME NamesInv PROVE CardNamesItem
  <1>. SUFFICES ASSUME ~edited, NEW i \in Auctioned
                PROVE  /\ item[i].card # None => Shown(i) = item[i].card
                       /\ \A j \in Auctioned \ {i} : Shown(j) # Shown(i)
    BY DEF CardNamesItem
  <1>1. PICK m \in Nat : Names(m)
    BY DEF NamesInv
  <1>2. \A j \in Auctioned : j \in Live /\ j \in DOMAIN item /\ Shown(j) = Named(m, j)
    BY <1>1, ShownIs DEF Names, Auctioned, Live
  <1>3. item[i].card # None => Shown(i) = item[i].card
    BY <1>1, <1>2 DEF Names, CardsOK
  <1>4. ASSUME NEW j \in Auctioned \ {i} PROVE Shown(j) # Shown(i)
    <2>1. CASE item[i].number # None /\ item[j].number # None
      BY <1>1, <1>2, <2>1 DEF Shown, Names, NewOK
    <2>2. CASE item[i].number = None \/ item[j].number = None
      <3>1. Awaits(m) # {}
        BY <1>1, <1>2, <2>2 DEF Awaits, Names, NewOK
      <3>2. i \in 1 .. m /\ j \in 1 .. m
        BY <1>1, <1>2, <3>1 DEF Names, NewOK
      <3>3. Ordered(1 .. m) /\ IsFiniteSet(1 .. m)
        BY <1>1, OldOrdered DEF Names
      <3>4. Before(i, j) \/ Before(j, i)
        BY <3>2, <3>3, InOrder
      <3>5. Rank(m, i) < Rank(m, j) \/ Rank(m, j) < Rank(m, i)
        BY <3>2, <3>3, <3>4, PlacesIn DEF Rank
      <3>6. Rank(m, i) \in Int /\ Rank(m, j) \in Int
        BY <3>2, <3>3, PlacesIn DEF Rank
      <3>. QED  BY <1>2, <3>2, <3>5, <3>6 DEF Named
    <2>. QED  BY <2>1, <2>2
  <1>. QED  BY <1>3, <1>4

\* The number on the card of an item is the number a bid on it needs, and no other item's,
\* until the panel renumbers, reorders or removes items: for any old list, any number of
\* creates that fill its numbers at once, and any opening of the list between their steps.
THEOREM CardNamesSafety == Spec => []CardNamesItem
  <1>1. HalfInv /\ NamesInv /\ [Next]_vars => NamesInv'
    BY NamesNext
  <1>2. NamesInv => CardNamesItem
    BY NamesAreCards
  <1>. QED  BY <1>1, <1>2, NamesInit, AlwaysHalf, PTL DEF Spec
=============================================================================
