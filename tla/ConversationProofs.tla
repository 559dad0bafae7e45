------------------------- MODULE ConversationProofs -------------------------
(***************************************************************************)
(* What holds of Conversation for every list of items, any number of       *)
(* participants and tasks, every menu of messages and every budget.  The   *)
(* theorems at the end are                                                 *)
(*   ConversationTypeCorrect  the type invariant;                          *)
(*   OneQuestionSafety        OneQuestionAtATime;                          *)
(*   NothingTwiceSafety       NothingTwice;                                *)
(*   BidSafety                BidIsWhatWasSaid.                            *)
(*                                                                         *)
(* They rest on one inductive invariant, Conversing: the types (Typed); a  *)
(* message is in one task and has one bid while its mark is there          *)
(* (OneTask); a confirmation is asked, held by one task, or has its        *)
(* outcome, and never two of these (OneAnswer); and every amount that      *)
(* waits - a question, a confirmation, a context, a binding of a reply, a  *)
(* task between two awaits - is traced to the message it was said in       *)
(* (Sources).  What the interpreter computes is opaque here but for two    *)
(* facts of it: a result keeps the amount of its reading (ParsedAmount),   *)
(* and a bare amount names no item (BareAmount).                           *)
(***************************************************************************)
EXTENDS Conversation, FiniteSetTheorems, SequenceTheorems, TLAPS

-----------------------------------------------------------------------------
(***************************************************************************)
(* What the interpreter returns, and what is kept of a sequence.           *)
(***************************************************************************)
\* A result of the interpreter for an amount.
IsResult(r, amount) ==
    r \in [amount : {amount}, item : {r.item}, unknown : {r.unknown}, by : {r.by},
           coverage : {r.coverage}, ambiguous : {r.ambiguous}, candidates : {r.candidates}]

LEMMA ResultIs == ASSUME NEW a PROVE IsResult(Result(a), a)
  BY DEF Result, IsResult

LEMMA MatchedIs ==
  ASSUME NEW a, NEW r, IsResult(r, a), NEW item, NEW by, NEW coverage
  PROVE  IsResult(Matched(r, item, by, coverage), a)
  BY DEF Matched, IsResult

LEMMA AmbiguousIs ==
  ASSUME NEW a, NEW r, IsResult(r, a), NEW by, NEW items
  PROVE  /\ IsResult(Ambiguous(r, by, items), a)
         /\ Ambiguous(r, by, items).ambiguous = TRUE
         /\ Ambiguous(r, by, items).item = r.item
  BY DEF Ambiguous, IsResult

LEMMA ByNumberIs ==
  ASSUME NEW a, NEW r, IsResult(r, a), NEW catalog, NEW numeral, NEW text
  PROVE  IsResult(ByNumber(catalog, r, numeral, text), a)
  <1> DEFINE found == resolveByNumber(catalog, numeral)
  <1>1. IsResult([r EXCEPT !.unknown = TRUE], a)
    BY DEF IsResult
  <1>2. \A item, by, coverage : IsResult(Matched(r, item, by, coverage), a)
    BY MatchedIs
  <1>. QED  BY <1>1, <1>2 DEF ByNumber

LEMMA ByClaimIs ==
  ASSUME NEW a, NEW r, IsResult(r, a), NEW catalog, NEW read, NEW text
  PROVE  IsResult(ByClaim(catalog, r, read, text), a)
  <1>1. IsResult(ByNumber(catalog, r, Plain(read.claimed), text), a)
    BY ByNumberIs
  <1>2. \A by, items : IsResult(Ambiguous(r, by, items), a)
    BY AmbiguousIs
  <1>. QED  BY <1>1, <1>2 DEF ByClaim

LEMMA ByAliasIs ==
  ASSUME NEW a, NEW r, IsResult(r, a), NEW hits, NEW names, NEW numbered
  PROVE  IsResult(ByAlias(r, hits, names, numbered), a)
  <1>1. \A item, by, coverage : IsResult(Matched(r, item, by, coverage), a)
    BY MatchedIs
  <1>2. \A by, items : IsResult(Ambiguous(r, by, items), a)
    BY AmbiguousIs
  <1>. QED  BY <1>1, <1>2 DEF ByAlias

LEMMA ByCandidatesIs ==
  ASSUME NEW a, NEW r, IsResult(r, a), NEW catalog, NEW found, NEW text, NEW rest
  PROVE  IsResult(ByCandidates(catalog, r, found, text, rest), a)
  <1>1. ASSUME NEW item, NEW by, NEW coverage, NEW items
        PROVE  IsResult([Matched(r, item, by, coverage) EXCEPT !.candidates = items], a)
    <2>1. IsResult(Matched(r, item, by, coverage), a)
      BY MatchedIs
    <2>. QED  BY <2>1 DEF IsResult
  <1>2. \A by, items : IsResult(Ambiguous(r, by, items), a)
    BY AmbiguousIs
  <1>3. \A numeral : IsResult(ByNumber(catalog, r, numeral, text), a)
    BY ByNumberIs
  <1> DEFINE valid     == {c \in found : c.score >= 500}
             best(u)   == CHOOSE c \in found : c.item = u
             labeled   == findLabeledItemNumberIndexes(rest)
             Choice(u) ==
                 IF u # None
                 THEN [Matched(r, u, best(u).by, computeCoverage(catalog[best(u).at], text))
                         EXCEPT !.candidates = {c.item : c \in valid}]
                 ELSE IF valid # {} THEN Ambiguous(r, "none", {c.item : c \in valid})
                 ELSE IF labeled # {}
                 THEN ByNumber(catalog, r, Plain(rest[First(labeled)]), text)
                 ELSE Ambiguous(r, "none", {})
  <1>4. \A u : IsResult(Choice(u), a)
    BY <1>1, <1>2, <1>3
  <1>5. ByCandidates(catalog, r, found, text, rest)
            = CHOOSE y \in {Choice(u) : u \in {checkUniqueMatch(found)}} : TRUE
    BY DEF ByCandidates, Once
  <1>. HIDE DEF Choice
  <1>. QED  BY <1>4, <1>5

LEMMA ByItemNameIs ==
  ASSUME NEW a, NEW r, IsResult(r, a), NEW catalog, NEW names, NEW text, NEW rest
  PROVE  IsResult(ByItemName(catalog, r, names, text, rest), a)
  <1>1. \A found : IsResult(ByCandidates(catalog, r, found, text, rest), a)
    BY ByCandidatesIs
  <1>. QED  BY <1>1 DEF ByItemName, Once

LEMMA ByTextIs ==
  ASSUME NEW a, NEW r, IsResult(r, a), NEW catalog, NEW names, NEW hits, NEW text, NEW rest
  PROVE  IsResult(ByText(catalog, r, names, hits, text, rest), a)
  BY ByNumberIs, ByAliasIs, ByItemNameIs DEF ByText

LEMMA ByReadingIs ==
  ASSUME NEW catalog, NEW read, NEW text
  PROVE  IsResult(ByReading(catalog, read, text), read.amount)
  <1>1. IsResult(Result(read.amount), read.amount)
    BY ResultIs
  <1>2. IsResult(ByClaim(catalog, Result(read.amount), read, text), read.amount)
    BY <1>1, ByClaimIs
  <1>3. \A names, hits : IsResult(ByText(catalog, Result(read.amount), names, hits, text, read.rest), read.amount)
    BY <1>1, ByTextIs
  <1>. QED  BY <1>1, <1>2, <1>3 DEF ByReading, Once

LEMMA ParsedAs ==
  ASSUME NEW catalog, NEW message
  PROVE  parseMessage(catalog, message) = ByReading(catalog, Reading(message), stripFillerWords(Reading(message).rest))
  BY DEF parseMessage, Once

LEMMA FirstIs ==
  ASSUME NEW S \in SUBSET Nat, S # {}
  PROVE  First(S) \in S
  <1> DEFINE less == {p \in Nat \X Nat : p[1] < p[2]}
  <1>1. IsWellFoundedOn(less, Nat)
    BY NatLessThanWellFounded DEF OpToRel
  <1>2. PICK i \in S : \A j \in S : ~ (<<j, i>> \in less)
    <2>. HIDE DEF less
    <2>. QED  BY <1>1, WFMin
  <1>3. ASSUME NEW j \in S
        PROVE  i <= j
    <2>1. j < i => <<j, i>> \in less
      OBVIOUS
    <2>. QED  BY <1>2, <2>1
  <1>. QED  BY <1>3 DEF First

LEMMA ReadingAmount ==
  ASSUME NEW message \in Seq(STRING)
  PROVE  Reading(message).amount \in Nat
  <1> DEFINE amounts == {i \in DOMAIN message : IsAmount(message[i])}
             labeled == findLabeledItemNumberIndexes(message)
  <1>1. \A a : IsAmount(a) => Amount[a] \in Nat
    BY BidParserAssumption DEF IsAmount
  <1>2. ASSUME NEW S \in SUBSET amounts, S # {}
        PROVE  Amount[message[First(S)]] \in Nat
    <2>1. First(S) \in S
      BY <1>2, FirstIs
    <2>. QED  BY <2>1, <1>1
  <1>3. amounts \ {First(labeled)} \in SUBSET amounts
    OBVIOUS
  <1>4. FormatA(message) => Amount[message[2]] \in Nat
    BY <1>1 DEF FormatA
  <1>. QED  BY <1>2, <1>3, <1>4 DEF Reading

LEMMA ParsedAmount ==
  ASSUME NEW catalog, NEW message \in Seq(STRING)
  PROVE  /\ IsResult(parseMessage(catalog, message), Reading(message).amount)
         /\ parseMessage(catalog, message).amount = Reading(message).amount
         /\ parseMessage(catalog, message).amount \in Nat
  <1>1. IsResult(parseMessage(catalog, message), Reading(message).amount)
    BY ParsedAs, ByReadingIs
  <1>. QED  BY <1>1, ReadingAmount DEF IsResult

LEMMA KeptNone ==
  ASSUME NEW s
  PROVE  Kept(s, {}) = <<>>
  BY FS_EmptySet DEF Kept

LEMMA BareAmount ==
  ASSUME NEW catalog, NEW message \in Seq(STRING), Len(message) = 1, IsAmount(message[1])
  PROVE  /\ parseMessage(catalog, message).amount = Amount[message[1]]
         /\ parseMessage(catalog, message).item = None
  <1> DEFINE amounts == {i \in DOMAIN message : IsAmount(message[i])}
  <1>1. DOMAIN message = {1}
    OBVIOUS
  <1>2. amounts = {1}
    BY <1>1
  <1>3. findLabeledItemNumberIndexes(message) = {}
    BY <1>1 DEF findLabeledItemNumberIndexes
  <1>4. ~FormatA(message)
    BY DEF FormatA
  <1>5. First(amounts) = 1
    BY <1>2 DEF First
  <1>6. Without(message, {1}) = <<>>
    BY <1>1, KeptNone DEF Without
  <1>7. Reading(message) = [amount |-> Amount[message[1]], claimed |-> "", rest |-> <<>>]
    BY <1>2, <1>3, <1>4, <1>5, <1>6 DEF Reading
  <1>8. stripFillerWords(<<>>) = <<>>
    <2>1. {i \in DOMAIN <<>> : <<>>[i] \notin Fillers} = {}
      OBVIOUS
    <2>. QED  BY <2>1, KeptNone DEF stripFillerWords
  <1>9. parseMessage(catalog, message) = Result(Amount[message[1]])
    <2> DEFINE read == [amount |-> Amount[message[1]], claimed |-> "", rest |-> <<>>]
    <2>1. parseMessage(catalog, message) = ByReading(catalog, read, <<>>)
      <3>1. Reading(message) = read
        BY <1>7
      <3>2. read.rest = <<>>
        OBVIOUS
      <3>. HIDE DEF read
      <3>. QED  BY <3>1, <3>2, <1>8, ParsedAs
    <2>2. read.claimed = "" /\ read.amount = Amount[message[1]]
      OBVIOUS
    <2>. HIDE DEF read
    <2>. QED  BY <2>1, <2>2 DEF ByReading
  <1>. QED  BY <1>9 DEF Result

\* Rank in a finite set of numbers.
Rank(S, i) == Cardinality({j \in S : j <= i})

LEMMA RankExists ==
  ASSUME NEW S \in SUBSET Nat, IsFiniteSet(S), NEW k \in 1 .. Cardinality(S)
  PROVE  \E i \in S : Rank(S, i) = k
  <1> DEFINE upTo(i) == {j \in S : j <= i}
             n       == Cardinality(S)
             f       == [i \in S |-> Rank(S, i)]
  <1>1. n \in Nat
    BY FS_CardinalityType
  <1>2. \A i \in S : IsFiniteSet(upTo(i)) /\ Rank(S, i) \in 1 .. n
    <2> SUFFICES ASSUME NEW i \in S
                 PROVE  IsFiniteSet(upTo(i)) /\ Rank(S, i) \in 1 .. n
      OBVIOUS
    <2>1. IsFiniteSet(upTo(i)) /\ Cardinality(upTo(i)) <= n
      BY FS_Subset
    <2>2. i \in upTo(i)
      OBVIOUS
    <2>3. Cardinality(upTo(i)) \in Nat /\ Cardinality(upTo(i)) # 0
      BY <2>1, <2>2, FS_CardinalityType, FS_EmptySet
    <2>. QED  BY <1>1, <2>1, <2>3 DEF Rank
  <1>3. ASSUME NEW i \in S, NEW j \in S, i < j
        PROVE  Rank(S, i) # Rank(S, j)
    <2>1. /\ \A x \in S : x <= i => x <= j
          /\ j <= j /\ ~(j <= i)
      BY <1>3
    <2>4. upTo(i) \in SUBSET upTo(j) /\ j \in upTo(j) /\ j \notin upTo(i)
      BY <2>1
    <2>2. IsFiniteSet(upTo(j))
      BY <1>2
    <2>3. Cardinality(upTo(i)) # Cardinality(upTo(j))
      <3>. HIDE DEF upTo
      <3>. QED  BY <2>4, <2>2, FS_Subset
    <2>. QED  BY <2>3 DEF Rank
  <1>4. \A i, j \in S : f[i] = f[j] => i = j
    <2> SUFFICES ASSUME NEW i \in S, NEW j \in S, i # j
                 PROVE  Rank(S, i) # Rank(S, j)
      OBVIOUS
    <2>1. i < j \/ j < i
      OBVIOUS
    <2>. QED  BY <1>3, <2>1
  <1>5. f \in Injection(S, 1 .. n)
    BY <1>2, <1>4 DEF Injection, IsInjective
  <1>6. IsFiniteSet(1 .. n) /\ Cardinality(1 .. n) = n
    BY <1>1, FS_Interval
  <1>7. f \in Surjection(S, 1 .. n)
    <2>. HIDE DEF f
    <2>. QED  BY <1>5, <1>6, FS_Injection
  <1>8. PICK i \in S : f[i] = k
    BY <1>7 DEF Surjection
  <1>. QED  BY <1>8

\* What is kept of a sequence is a sequence of some of its elements.
LEMMA KeptIs ==
  ASSUME NEW T, NEW s \in Seq(T), NEW places \in SUBSET DOMAIN s
  PROVE  /\ Kept(s, places) \in Seq(T)
         /\ Len(Kept(s, places)) = Cardinality(places)
         /\ \A k \in DOMAIN Kept(s, places) : \E i \in places : Kept(s, places)[k] = s[i]
  <1> DEFINE n     == Cardinality(places)
             at(k) == CHOOSE i \in places : Cardinality({j \in places : j <= i}) = k
  <1>1. IsFiniteSet(places) /\ n \in Nat
    <2>1. DOMAIN s = 1 .. Len(s) /\ Len(s) \in Int /\ 1 \in Int
      OBVIOUS
    <2>2. IsFiniteSet(DOMAIN s)
      BY <2>1, FS_Interval
    <2>. QED  BY <2>2, FS_Subset, FS_CardinalityType
  <1>2. ASSUME NEW k \in 1 .. n
        PROVE  at(k) \in places
    <2>1. places \in SUBSET Nat
      OBVIOUS
    <2>2. \E i \in places : Rank(places, i) = k
      BY <1>1, <2>1, RankExists
    <2>. QED  BY <2>2 DEF Rank
  <1>3. Kept(s, places) = [k \in 1 .. n |-> s[at(k)]]
    BY DEF Kept
  <1>. HIDE DEF at, n
  <1>4. \A k \in 1 .. n : s[at(k)] \in T
    BY <1>2
  <1>. QED  BY <1>1, <1>2, <1>3, <1>4 DEF n

-----------------------------------------------------------------------------
(***************************************************************************)
(* The invariant: types, and where everything comes from.                  *)
(***************************************************************************)
\* The sets the values range over.
Sent    == UNION {Menu[name] : name \in Scripts}
Lot     == [open : BOOLEAN, leader : Nat]
Asked   == [to : Senders, item : Items, amount : Nat]
Notes   == {Card(i) : i \in Items} \cup {BidOf(m) : m \in Nat}
Binding == [message : Notes, item : Items]
Ages    == {"none", "hot", "warm", "cold"}
Steps   == {"idle", "resolve", "transcribe", "read", "snapshot", "place", "ask", "clarify", "record", "react"}
Vias    == {"none", "text", "cited", "confirmed", "answered", "quote", "context"}
TaskRow   == [m : Nat, step : Steps, via : Vias, quoted : Items \cup {None}, item : Items \cup {None},
            amount : Nat, id : Nat, any : BOOLEAN, snap : {<<>>} \cup [Items -> Lot]]
BidRow  == [m : Nat, item : Items, amount : Nat, via : Vias, id : Nat, quoted : Items \cup {None}]

ConfirmationTyped ==
    /\ confirmation \in [Senders -> [id : Nat, item : Items \cup {None}, amount : Nat, live : BOOLEAN]]
    /\ \A s \in Senders : /\ confirmation[s] # NoConfirmation => confirmation[s].item \in Items
                          /\ confirmation[s].id <= Len(asked)
StoresTyped ==
    /\ listed \in BOOLEAN /\ script \in Scripts /\ task \in [Tasks -> TaskRow]
    /\ auction \in [Items -> Lot]
    /\ question \in [Senders -> [amount : Nat, live : BOOLEAN]]
    /\ ConfirmationTyped
    /\ context \in [Items -> [amount : Nat, age : Ages]]
    /\ bound \in Seq(Binding) /\ saved \in Seq(Binding) /\ Len(bound) <= ReplyMax
HistoryTyped ==
    /\ log \in Seq(Sent) /\ asked \in Seq(Asked) /\ bids \in Seq(BidRow)
    /\ outcomes \subseteq Nat \X {"cancelled", "corrected", "bid"}
    /\ seen \subseteq DOMAIN log /\ forgotten \subseteq DOMAIN log /\ DOMAIN log \subseteq seen \cup forgotten

\* A task in work has its message; where its step needs an item it has one.
TaskTyped(r) ==
    /\ r \in TaskRow
    /\ r.step # "idle" => r.m \in DOMAIN log
    /\ r.step \in {"place", "ask", "record", "react"} => r.item \in Items
    /\ r.step \in {"read", "snapshot"} => r.via \in {"text", "cited", "confirmed"}
    /\ r.step \in {"read", "snapshot"} /\ r.via # "text" => r.item \in Items
    /\ r.step = "snapshot" => r.snap \in [Items -> Lot]
    /\ r.step \in {"place", "record", "react"} => r.via # "none"
    /\ r.m \in 0 .. Len(log)

QuotedIs(i, q) == \/ q = Card(i)
                  \/ \E j \in DOMAIN bids : q = BidOf(bids[j].m) /\ bids[j].item = i
OutBid(i, amount) == \E j \in DOMAIN bids : bids[j].item = i /\ bids[j].amount < amount
Said(m, s, amount) == m \in DOMAIN log /\ log[m].from = s /\ Understood(log[m]).amount = amount

\* The quoted item of a task in work is the one of the message quoted, and is known.
TaskQuoted(r) ==
    /\ r.quoted # None => QuotedIs(r.quoted, log[r.m].quotes)
    /\ /\ r.step = "transcribe" \/ r.via \in {"cited", "text", "quote", "context"}
       /\ log[r.m].quotes \in {Card(i) : i \in Items} \ unbound
       => r.quoted # None

\* What a task is about to bid is what somebody said.
SaysCited(r)     == /\ r.amount = Understood(log[r.m]).amount /\ Understood(log[r.m]).item = None
                    /\ r.quoted = r.item
SaysConfirmed(r) == /\ r.id \in DOMAIN asked
                    /\ asked[r.id] = [to |-> log[r.m].from, item |-> r.item, amount |-> r.amount]
                    /\ parseConfirmationResponse(Heard(log[r.m])).kind = "confirm"
NamesItem(msg, i) == Len(itemAnswer(msg)) = 1 /\ i \in Numbered(Amount[itemAnswer(msg)[1]])
SaysAnswered(r)  == /\ NamesItem(log[r.m], r.item)
                    /\ \E m \in DOMAIN log : (m # r.m \/ r.m \in forgotten) /\ Said(m, log[r.m].from, r.amount)
SaysItself(r)    == /\ r.amount = Understood(log[r.m]).amount /\ ~Muffled(Quality(log[r.m]))
                    /\ Understood(log[r.m]).item # None => r.item = Understood(log[r.m]).item
                    /\ Understood(log[r.m]).item = None /\ r.quoted # None => r.item = r.quoted
                    /\ Understood(log[r.m]).item = None /\ r.quoted = None => OutBid(r.item, r.amount)
TaskSays(r) ==
    /\ r.step \in {"read", "snapshot", "place"} /\ r.via = "cited" => SaysCited(r)
    /\ r.step \in {"read", "snapshot", "place"} /\ r.via = "confirmed" => SaysConfirmed(r)
    /\ r.step = "place" /\ r.via = "answered" => SaysAnswered(r)
    /\ r.step = "place" /\ r.via \in {"text", "quote", "context"} => SaysItself(r)
    /\ r.step = "clarify" => r.amount = Understood(log[r.m]).amount
    /\ r.step \in {"record", "react"}
       => \E j \in DOMAIN bids : bids[j].m = r.m /\ bids[j].item = r.item /\ bids[j].amount = r.amount

TaskSourced(r) == r.step # "idle" => TaskQuoted(r) /\ TaskSays(r)

BidSourced(k) ==
    /\ bids[k].via = "confirmed" => bids[k].id \in DOMAIN asked
    /\ Sourced(k, bids[k], log[bids[k].m], Understood(log[bids[k].m]))
    /\ QuotedRight(bids[k], log[bids[k].m].quotes)

QuestionSourced == \A s \in Senders : question[s] # NoQuestion =>
    \E m \in DOMAIN log :
        /\ Said(m, s, question[s].amount)
        /\ m \in forgotten \/ \A t \in Tasks : task[t].step # "idle" => task[t].m # m
ConfirmationSourced == \A s \in Senders : confirmation[s] # NoConfirmation =>
    /\ confirmation[s].id \in DOMAIN asked
    /\ asked[confirmation[s].id] = [to |-> s, item |-> confirmation[s].item, amount |-> confirmation[s].amount]
ContextSourced == \A i \in Items : context[i].age # "none" =>
    \E j \in DOMAIN bids : bids[j].item = i /\ bids[j].amount = context[i].amount
RepliesSourced ==
    /\ \A k \in DOMAIN bound : QuotedIs(bound[k].item, bound[k].message)
    /\ \A k \in DOMAIN saved : QuotedIs(saved[k].item, saved[k].message)
    /\ {Card(i) : i \in Items} \subseteq Messages(bound) \cup unbound
StoresSourced == QuestionSourced /\ ConfirmationSourced /\ ContextSourced /\ RepliesSourced

\* One task for a message, and one bid, as long as its mark is there.
OneTask ==
    /\ \A t, u \in Tasks :
           task[t].step # "idle" /\ task[u].step # "idle" /\ task[t].m = task[u].m /\ task[t].m \notin forgotten
           => t = u
    /\ \A t \in Tasks, k \in DOMAIN bids :
           task[t].step # "idle" /\ task[t].m = bids[k].m /\ task[t].m \notin forgotten
           => task[t].step \in {"record", "react"}
    /\ \A j, k \in DOMAIN bids : j # k /\ bids[j].m = bids[k].m => bids[j].m \in forgotten
    /\ \A k \in DOMAIN bids : bids[k].m \in DOMAIN log

Holds(r) == r.step \in {"read", "snapshot", "place"} /\ r.via = "confirmed"
NoOutcome(id) == \A x \in outcomes : x[1] # id
\* A confirmation is in one place: asked, or in the hands of one task, or it has its outcome.
OneAnswer ==
    /\ \A x, y \in outcomes : x[1] = y[1] => x = y
    /\ \A x \in outcomes : x[1] \in DOMAIN asked
    /\ \A s \in Senders : confirmation[s] # NoConfirmation =>
           confirmation[s].id \in DOMAIN asked /\ NoOutcome(confirmation[s].id)
    /\ \A s, r \in Senders : confirmation[s] # NoConfirmation /\ confirmation[r] # NoConfirmation
                              /\ confirmation[s].id = confirmation[r].id => s = r
    /\ \A t \in Tasks : Holds(task[t]) => task[t].id \in DOMAIN asked /\ NoOutcome(task[t].id)
    /\ \A t \in Tasks, s \in Senders :
           Holds(task[t]) /\ confirmation[s] # NoConfirmation => task[t].id # confirmation[s].id
    /\ \A t, u \in Tasks : Holds(task[t]) /\ Holds(task[u]) /\ task[t].id = task[u].id => t = u

Typed == StoresTyped /\ HistoryTyped /\ \A t \in Tasks : TaskTyped(task[t])

-----------------------------------------------------------------------------
(***************************************************************************)
(* Every step keeps the types.                                             *)
(***************************************************************************)
LEMMA UnderstoodIs ==
  ASSUME HistoryTyped, NEW m \in DOMAIN log
  PROVE  /\ log[m] \in Sent /\ log[m].from \in Senders /\ Heard(log[m]) \in Seq(STRING)
         /\ IsResult(Understood(log[m]), Understood(log[m]).amount)
         /\ Understood(log[m]).amount \in Nat
  <1>1. log[m] \in Sent
    BY DEF HistoryTyped
  <1>2. log[m].from \in Senders /\ Heard(log[m]) \in Seq(STRING)
    BY <1>1, MenuAssumption DEF Sent
  <1>. QED  BY <1>1, <1>2, ParsedAmount DEF Understood

LEMMA IdleTyped == ASSUME Typed PROVE TaskTyped(Idle)
  BY DEF TaskTyped, TaskRow, Idle, Steps, Vias, Typed, HistoryTyped

\* A step of one task that leaves the stores and the histories' types alone.
LEMMA TypedTask ==
  ASSUME Typed, NEW t \in Tasks, NEW r, task' = [task EXCEPT ![t] = r], TaskTyped(r)',
         UNCHANGED <<listed, auction, stores, replies, seen, script, log, asked, outcomes, bids, forgotten>>
  PROVE  Typed'
  <1>1. StoresTyped'
    BY DEF Typed, StoresTyped, ConfirmationTyped, TaskTyped, stores, replies
  <1>2. HistoryTyped'
    BY DEF Typed, HistoryTyped
  <1>3. \A u \in Tasks : TaskTyped(task[u])'
    BY DEF Typed, TaskTyped, StoresTyped
  <1>. QED  BY <1>1, <1>2, <1>3 DEF Typed

LEMMA TypedLost == ASSUME Typed, NEW t \in Tasks, Lost(t) PROVE Typed'
  <1>1. task' = [task EXCEPT ![t] = Idle] /\ TaskTyped(Idle)'
    BY IdleTyped DEF Lost, End, TaskTyped, history
  <1>. QED  BY <1>1, TypedTask DEF Lost, history

LEMMA TypedNotOfList == ASSUME Typed, NEW t \in Tasks, NotOfList(t) PROVE Typed'
  <1>1. task' = [task EXCEPT ![t] = Idle] /\ TaskTyped(Idle)'
    BY IdleTyped DEF NotOfList, End, TaskTyped, history
  <1>. QED  BY <1>1, TypedTask DEF NotOfList, history

LEMMA TypedtranscribeAudioFails == ASSUME Typed, NEW t \in Tasks, transcribeAudioFails(t) PROVE Typed'
  <1>1. task' = [task EXCEPT ![t] = Idle] /\ TaskTyped(Idle)'
    BY IdleTyped DEF transcribeAudioFails, End, TaskTyped, history
  <1>. QED  BY <1>1, TypedTask DEF transcribeAudioFails, history

LEMMA TypedRefused == ASSUME Typed, NEW t \in Tasks, Refused(t) PROVE Typed'
  <1>1. task' = [task EXCEPT ![t] = Idle] /\ TaskTyped(Idle)'
    BY IdleTyped DEF Refused, End, TaskTyped, history
  <1>. QED  BY <1>1, TypedTask DEF Refused, history

LEMMA KeyIs ==
  ASSUME Typed, NEW t \in Tasks, task[t].step # "idle"
  PROVE  /\ task[t].m \in DOMAIN log /\ Message(t) = log[task[t].m]
         /\ Sender(t) = log[task[t].m].from /\ Key(t) = Sender(t) /\ Sender(t) \in Senders
         /\ Text(t) = Heard(log[task[t].m]) /\ Text(t) \in Seq(STRING)
         /\ Understood(log[task[t].m]).amount \in Nat
  <1>1. task[t].m \in DOMAIN log
    BY DEF Typed, TaskTyped
  <1>. QED  BY <1>1, UnderstoodIs DEF Typed, Key, makeKey, Sender, Message, Text

LEMMA Arriving ==
  ASSUME NEW t \in Tasks, ToList(t)
  PROVE  task[t].step # "idle"
  BY DEF ToList, Arrived

LEMMA ReplyTyped ==
  ASSUME Typed, NEW q
  PROVE  getReplyContext(q) \in Items \cup {None}
  <1>0. \A k \in DOMAIN bound : bound[k] \in Binding
    BY DEF Typed, StoresTyped
  <1>1. \A k \in DOMAIN bound : bound[k].item \in Items
    BY <1>0 DEF Binding
  <1>2. q \in Messages(bound) => \E k \in DOMAIN bound : bound[k].message = q
    BY DEF Messages
  <1>. QED  BY <1>1, <1>2 DEF getReplyContext

LEMMA TypedDownload == ASSUME Typed, NEW t \in Tasks, Download(t) PROVE Typed'
  <1>0. PICK q : q = getReplyContext(Message(t).quotes)
    OBVIOUS
  <1>r. PICK r : r = [task[t] EXCEPT !.step = "transcribe", !.quoted = q]
    OBVIOUS
  <1>1. q \in Items \cup {None}
    BY <1>0, ReplyTyped
  <1>2. task[t] \in TaskRow /\ task[t].m \in DOMAIN log /\ task[t].m \in 0 .. Len(log)
    BY DEF Typed, TaskTyped, Download
  <1>3. task' = [task EXCEPT ![t] = r]
    BY <1>0, <1>r DEF Download, Typed, StoresTyped
  <1>4. TaskTyped(r)'
    BY <1>1, <1>2, <1>r DEF TaskTyped, TaskRow, Steps, Vias, Download, history
  <1>. QED  BY <1>3, <1>4, TypedTask DEF Download, history

LEMMA QuotedTyped == ASSUME Typed, NEW t \in Tasks PROVE Quoted(t) \in Items \cup {None}
  <1>1. getReplyContext(Message(t).quotes) \in Items \cup {None}
    BY ReplyTyped
  <1>2. task[t].quoted \in Items \cup {None}
    BY DEF Typed, TaskTyped, TaskRow
  <1>. QED  BY <1>1, <1>2 DEF Quoted

LEMMA AmountTyped == \A a : IsAmount(a) => Amount[a] \in Nat
  BY BidParserAssumption DEF IsAmount

LEMMA TypedCiteItem == ASSUME Typed, NEW t \in Tasks, CiteItem(t) PROVE Typed'
  <1>0. PICK a, q : a = Amount[Text(t)[1]] /\ q = Quoted(t)
    OBVIOUS
  <1>r. PICK r : r = [task[t] EXCEPT !.step = "read", !.via = "cited", !.quoted = q, !.item = q, !.amount = a]
    OBVIOUS
  <1>1. a \in Nat /\ q \in Items
    BY <1>0, AmountTyped, QuotedTyped DEF CiteItem, CitesItem
  <1>2. task[t] \in TaskRow /\ task[t].m \in DOMAIN log /\ task[t].m \in 0 .. Len(log)
    BY DEF Typed, TaskTyped, CiteItem, ToList, Arrived
  <1>3. task' = [task EXCEPT ![t] = r]
    BY <1>0, <1>r DEF CiteItem, Typed, StoresTyped
  <1>4. TaskTyped(r)'
    BY <1>1, <1>2, <1>r DEF TaskTyped, TaskRow, Steps, Vias, CiteItem
  <1>. QED  BY <1>3, <1>4, TypedTask DEF CiteItem

LEMMA TypedReadSnapshot == ASSUME Typed, NEW t \in Tasks, ReadSnapshot(t) PROVE Typed'
  <1>r. PICK r : r = [task[t] EXCEPT !.step = "snapshot", !.snap = auction]
    OBVIOUS
  <1>1. auction \in [Items -> Lot]
    BY DEF Typed, StoresTyped
  <1>2. task[t] \in TaskRow /\ TaskTyped(task[t])
    BY DEF Typed, TaskTyped
  <1>3. task' = [task EXCEPT ![t] = r]
    BY <1>r DEF ReadSnapshot, Typed, StoresTyped
  <1>4. TaskTyped(r)'
    BY <1>1, <1>2, <1>r DEF TaskTyped, TaskRow, Steps, Vias, ReadSnapshot, history
  <1>. QED  BY <1>3, <1>4, TypedTask DEF ReadSnapshot, history

\* A step of one task, whatever it writes.
LEMMA TypedStep ==
  ASSUME Typed, NEW t \in Tasks, NEW r, task' = [task EXCEPT ![t] = r], TaskTyped(r)',
         task' \in [Tasks -> TaskRow] => StoresTyped', HistoryTyped',
         log' = log \/ \E msg : log' = Append(log, msg)
  PROVE  Typed'
  <1>1. /\ DOMAIN log \subseteq DOMAIN log' /\ Len(log) \in Nat /\ Len(log') \in Nat /\ Len(log) <= Len(log')
    BY DEF Typed, HistoryTyped
  <1>2. StoresTyped'
    BY DEF Typed, StoresTyped, TaskTyped
  <1>3. \A u \in Tasks : TaskTyped(task[u])'
    BY <1>1 DEF Typed, TaskTyped, StoresTyped
  <1>. QED  BY <1>2, <1>3 DEF Typed

LEMMA EndTyped ==
  ASSUME Typed, NEW t \in Tasks, End(t), log' = log
  PROVE  task' = [task EXCEPT ![t] = Idle] /\ TaskTyped(Idle)'
  BY IdleTyped DEF End, TaskTyped

\* From the snapshot to the transaction, or no further.
LEMMA PlaceOrEndTyped ==
  ASSUME Typed, NEW t \in Tasks, task[t].step = "snapshot", task[t].via # "text", log' = log,
         PlaceOrEnd(t, task[t].item)
  PROVE  \E r : task' = [task EXCEPT ![t] = r] /\ TaskTyped(r)'
  <1>r. PICK r : r = [task[t] EXCEPT !.step = "place"]
    OBVIOUS
  <1>1. CASE End(t)
    BY <1>1, EndTyped
  <1>2. CASE Goto(t, "place")
    <2>1. TaskTyped(task[t]) /\ task[t] \in TaskRow
      BY DEF Typed, TaskTyped
    <2>2. TaskTyped(r)'
      BY <2>1, <1>r DEF TaskTyped, TaskRow, Steps, Vias
    <2>3. task' = [task EXCEPT ![t] = r]
      BY <1>2, <1>r DEF Goto, Typed, StoresTyped
    <2>. QED  BY <2>2, <2>3
  <1>. QED  BY <1>1, <1>2 DEF PlaceOrEnd

LEMMA TypedregisterConfirmedBid ==
  ASSUME Typed, NEW t \in Tasks, registerConfirmedBid(t) PROVE Typed'
  BY PlaceOrEndTyped, TypedTask DEF registerConfirmedBid, FromSnapshot, history

\* A confirmation that leaves, or does not.
LEMMA ClearedTyped ==
  ASSUME Typed, NEW s \in Senders, NEW c, c \in {confirmation[s], NoConfirmation},
         confirmation' = [confirmation EXCEPT ![s] = c], asked' = asked
  PROVE  ConfirmationTyped'
  <1>1. /\ NoConfirmation \in [id : Nat, item : Items \cup {None}, amount : Nat, live : BOOLEAN]
        /\ NoConfirmation.id = 0 /\ Len(asked) \in Nat
    BY DEF NoConfirmation, Typed, HistoryTyped
  <1>. QED  BY <1>1 DEF Typed, StoresTyped, ConfirmationTyped

LEMMA TypedPlaceCited == ASSUME Typed, NEW t \in Tasks, PlaceCited(t) PROVE Typed'
  <1>1. PICK r : task' = [task EXCEPT ![t] = r] /\ TaskTyped(r)'
    BY PlaceOrEndTyped DEF PlaceCited, FromSnapshot, history
  <1>2. task' \in [Tasks -> TaskRow] => StoresTyped'
    <2>1. Key(t) \in Senders
      BY KeyIs DEF PlaceCited, FromSnapshot
    <2>2. ConfirmationTyped'
      BY <2>1, ClearedTyped DEF PlaceCited, history
    <2>. QED  BY <2>2 DEF PlaceCited, Typed, StoresTyped, NoQuestion, replies, history
  <1>3. HistoryTyped' /\ log' = log
    BY DEF PlaceCited, Typed, HistoryTyped, history
  <1>. QED  BY <1>1, <1>2, <1>3, TypedStep

LEMMA TypedHandleListBid == ASSUME Typed, NEW t \in Tasks, HandleListBid(t) PROVE Typed'
  <1>0. PICK q : q = Quoted(t)
    OBVIOUS
  <1>r. PICK r : r = [task[t] EXCEPT !.step = "read", !.via = "text", !.quoted = q]
    OBVIOUS
  <1>1. q \in Items \cup {None}
    BY <1>0, QuotedTyped
  <1>2. task[t] \in TaskRow /\ task[t].m \in DOMAIN log /\ task[t].m \in 0 .. Len(log)
    BY DEF Typed, TaskTyped, HandleListBid, ToList, Arrived
  <1>3. task' = [task EXCEPT ![t] = r]
    BY <1>0, <1>r DEF HandleListBid, Typed, StoresTyped
  <1>4. TaskTyped(r)'
    BY <1>1, <1>2, <1>r DEF TaskTyped, TaskRow, Steps, Vias, HandleListBid
  <1>5. task' \in [Tasks -> TaskRow] => StoresTyped'
    <2>1. Key(t) \in Senders
      BY KeyIs, Arriving DEF HandleListBid
    <2>2. ConfirmationTyped'
      BY <2>1, ClearedTyped DEF HandleListBid
    <2>. QED  BY <2>2 DEF HandleListBid, Typed, StoresTyped, replies
  <1>6. HistoryTyped' /\ log' = log
    BY DEF HandleListBid, Typed, HistoryTyped
  <1>. QED  BY <1>3, <1>4, <1>5, <1>6, TypedStep

LEMMA TypedAnswerExpired == ASSUME Typed, NEW t \in Tasks, AnswerExpired(t) PROVE Typed'
  <1>1. log' = log /\ HistoryTyped'
    BY DEF AnswerExpired, Typed, HistoryTyped
  <1>2. task' = [task EXCEPT ![t] = Idle] /\ TaskTyped(Idle)'
    BY <1>1, EndTyped DEF AnswerExpired
  <1>3. task' \in [Tasks -> TaskRow] => StoresTyped'
    <2>1. Key(t) \in Senders
      BY KeyIs, Arriving DEF AnswerExpired
    <2>2. ConfirmationTyped'
      BY <2>1, ClearedTyped DEF AnswerExpired
    <2>. QED  BY <2>2 DEF AnswerExpired, Typed, StoresTyped, replies
  <1>. QED  BY <1>1, <1>2, <1>3, TypedStep

LEMMA TypedReject == ASSUME Typed, NEW t \in Tasks, Reject(t) PROVE Typed'
  <1>1. log' = log /\ task' = [task EXCEPT ![t] = Idle] /\ TaskTyped(Idle)'
    BY EndTyped DEF Reject
  <1>2. Key(t) \in Senders
    BY KeyIs, Arriving DEF Reject, Answers
  <1>3. confirmation[Key(t)].id \in Nat
    BY <1>2 DEF Typed, StoresTyped, ConfirmationTyped
  <1>4. task' \in [Tasks -> TaskRow] => StoresTyped'
    <2>2. ConfirmationTyped'
      BY <1>2, ClearedTyped DEF Reject, Take
    <2>. QED  BY <2>2 DEF Reject, Typed, StoresTyped, replies
  <1>6. HistoryTyped'
    BY <1>3 DEF Reject, Outcome, Typed, HistoryTyped
  <1>. QED  BY <1>1, <1>6, <1>4, TypedStep

LEMMA CreatedTyped ==
  ASSUME Typed, NEW s \in Senders, NEW item \in Items, NEW amount \in Nat, CreateConfirmation(s, item, amount)
  PROVE  /\ ConfirmationTyped'
         /\ question' \in [Senders -> [amount : Nat, live : BOOLEAN]]
         /\ asked' \in Seq(Asked) /\ Len(asked') = Len(asked) + 1
  <1>1. asked \in Seq(Asked) /\ Len(asked) \in Nat
    BY DEF Typed, HistoryTyped
  <1>2. asked' \in Seq(Asked) /\ Len(asked') = Len(asked) + 1
    BY <1>1 DEF CreateConfirmation, Asked
  <1>3. PICK new : new = [id |-> Len(asked) + 1, item |-> item, amount |-> amount, live |-> TRUE]
    OBVIOUS
  <1>4. confirmation' = [r \in Senders |-> IF r = s THEN new
                            ELSE IF confirmation[r].live THEN confirmation[r] ELSE NoConfirmation]
    BY <1>3 DEF CreateConfirmation, cleanupExpired, Typed, StoresTyped, ConfirmationTyped
  <1>5. \A r \in Senders : /\ confirmation[r].item \in Items \cup {None} /\ confirmation[r].id <= Len(asked)
                           /\ confirmation[r] \in [id : Nat, item : Items \cup {None}, amount : Nat, live : BOOLEAN]
                           /\ confirmation[r] # NoConfirmation => confirmation[r].item \in Items
    BY DEF Typed, StoresTyped, ConfirmationTyped
  <1>6. /\ NoConfirmation \in [id : Nat, item : Items \cup {None}, amount : Nat, live : BOOLEAN]
        /\ NoConfirmation.id = 0
    BY DEF NoConfirmation
  <1>7. question' \in [Senders -> [amount : Nat, live : BOOLEAN]]
    BY DEF CreateConfirmation, NoQuestion, Typed, StoresTyped
  <1>8. /\ new \in [id : Nat, item : Items \cup {None}, amount : Nat, live : BOOLEAN]
        /\ new.item \in Items /\ new.id = Len(asked) + 1
    BY <1>1, <1>3
  <1>. QED  BY <1>1, <1>2, <1>4, <1>5, <1>6, <1>7, <1>8 DEF ConfirmationTyped

LEMMA CorrectionTyped ==
  ASSUME NEW text \in Seq(STRING), parseConfirmationResponse(text).kind = "correction"
  PROVE  parseConfirmationResponse(text).amount \in Nat
  <1> DEFINE amounts == {i \in DOMAIN text : IsAmount(text[i])}
  <1>0. amounts \in SUBSET Nat
    OBVIOUS
  <1>1. amounts # {} => First(amounts) \in amounts
    BY <1>0, FirstIs
  <1>2. amounts # {} => Amount[text[First(amounts)]] \in Nat
    BY <1>1, AmountTyped
  <1>. HIDE DEF amounts
  <1>. QED  BY <1>2 DEF parseConfirmationResponse, amounts

LEMMA TypedCorrect == ASSUME Typed, NEW t \in Tasks, Correct(t) PROVE Typed'
  <1>1. log' = log /\ task' = [task EXCEPT ![t] = Idle] /\ TaskTyped(Idle)'
    BY EndTyped DEF Correct
  <1>2. Key(t) \in Senders /\ Text(t) \in Seq(STRING)
    BY KeyIs, Arriving DEF Correct, Answers
  <1>3. confirmation[Key(t)] # NoConfirmation /\ parseConfirmationResponse(Text(t)).kind = "correction"
    BY DEF Correct, Answers, Response
  <1>4. PICK s, item, amount : s = Key(t) /\ item = confirmation[s].item /\ amount = parseConfirmationResponse(Text(t)).amount
    OBVIOUS
  <1>5. s \in Senders /\ item \in Items /\ amount \in Nat /\ confirmation[s].id \in Nat
    BY <1>2, <1>3, <1>4, CorrectionTyped DEF Typed, StoresTyped, ConfirmationTyped
  <1>6. CreateConfirmation(s, item, amount) /\ Outcome(confirmation[s].id, "corrected")
    BY <1>4 DEF Correct
  <1>7. /\ ConfirmationTyped'
        /\ question' \in [Senders -> [amount : Nat, live : BOOLEAN]]
        /\ asked' \in Seq(Asked)
    BY <1>5, <1>6, CreatedTyped
  <1>8. task' \in [Tasks -> TaskRow] => StoresTyped'
    BY <1>7 DEF Correct, Typed, StoresTyped, replies
  <1>9. HistoryTyped'
    BY <1>5, <1>6, <1>7 DEF Correct, Outcome, Typed, HistoryTyped
  <1>. QED  BY <1>1, <1>8, <1>9, TypedStep

LEMMA TypedConfirm == ASSUME Typed, NEW t \in Tasks, Confirm(t) PROVE Typed'
  <1>1. Key(t) \in Senders /\ task[t].m \in DOMAIN log /\ confirmation[Key(t)] # NoConfirmation
    BY KeyIs, Arriving DEF Confirm, Answers, Response
  <1>2. PICK taken : taken = confirmation[Key(t)]
    OBVIOUS
  <1>3. taken.item \in Items /\ taken.id \in Nat /\ taken.amount \in Nat
    BY <1>1, <1>2 DEF Typed, StoresTyped, ConfirmationTyped
  <1>4. PICK r : r = [task[t] EXCEPT !.step = "read", !.via = "confirmed", !.id = taken.id,
                                     !.item = taken.item, !.amount = taken.amount]
    OBVIOUS
  <1>5. task' = [task EXCEPT ![t] = r]
    BY <1>2, <1>4 DEF Confirm, Typed, StoresTyped
  <1>6. task[t] \in TaskRow /\ task[t].m \in 0 .. Len(log)
    BY DEF Typed, TaskTyped
  <1>7. TaskTyped(r)'
    BY <1>1, <1>3, <1>4, <1>6 DEF TaskTyped, TaskRow, Steps, Vias, Confirm
  <1>8. task' \in [Tasks -> TaskRow] => StoresTyped'
    <2>2. ConfirmationTyped'
      BY <1>1, ClearedTyped DEF Confirm, Take
    <2>. QED  BY <2>2 DEF Confirm, Typed, StoresTyped, replies
  <1>9. HistoryTyped' /\ log' = log
    BY DEF Confirm, Typed, HistoryTyped
  <1>. QED  BY <1>5, <1>7, <1>8, <1>9, TypedStep

-----------------------------------------------------------------------------
(***************************************************************************)
(* What an interpreted message becomes.                                    *)
(***************************************************************************)
LEMMA ItemsFinite == IsFiniteSet(Items)
  <1> DEFINE f == [i \in DOMAIN Catalog |-> Catalog[i].id]
  <1>1. DOMAIN Catalog = 1 .. Len(Catalog) /\ Len(Catalog) \in Int /\ 1 \in Int
    BY ConversationAssumption
  <1>2. IsFiniteSet(DOMAIN Catalog)
    BY <1>1, FS_Interval
  <1>3. f \in Surjection(DOMAIN Catalog, Items)
    BY DEF Surjection, Items
  <1>. HIDE DEF f
  <1>. QED  BY <1>2, <1>3, FS_Surjection

\* The quote adds a candidate to a result, which is then a question, or nothing.
LEMMA WithQuoteIs ==
  ASSUME NEW t \in Tasks, NEW b, NEW a, IsResult(b, a)
  PROVE  /\ IsResult(WithQuote(t, b), a)
         /\ WithQuote(t, b).item = b.item /\ WithQuote(t, b).amount = a
         /\ WithQuote(t, b) # b => WithQuote(t, b).ambiguous = TRUE /\ b.item # None
  <1>1. /\ IsResult(Ambiguous(b, "item_alias", {b.item, task[t].quoted}), a)
        /\ Ambiguous(b, "item_alias", {b.item, task[t].quoted}).ambiguous = TRUE
        /\ Ambiguous(b, "item_alias", {b.item, task[t].quoted}).item = b.item
    BY AmbiguousIs
  <1>. QED  BY <1>1 DEF WithQuote, IsResult

\* The contexts that take the amount.
LEMMA SignalIs ==
  ASSUME Typed, NEW t \in Tasks, task[t].step = "snapshot", NEW p, p.amount \in Nat,
         Signal(t, p).candidates # {}
  PROVE  /\ LooksAtContext(t, p)
         /\ Signal(t, p).candidates \subseteq Items
         /\ \A i \in Signal(t, p).candidates : context[i].age # "none" /\ context[i].amount < p.amount
  <1> DEFINE disputed == {i \in Items : context[i].age # "none" /\ IsOpen(t, i)}
             takes    == {i \in disputed : p.amount > Max2(task[t].snap[i].leader, context[i].amount)}
  <1>1. NoSignal.candidates = {}
    BY DEF NoSignal
  <1>2. Signal(t, p).candidates = takes /\ LooksAtContext(t, p)
    BY <1>1 DEF Signal
  <1>3. \A i \in Items : task[t].snap[i].leader \in Nat /\ context[i].amount \in Nat
    BY DEF Typed, TaskTyped, StoresTyped, Lot
  <1>4. \A i \in takes : context[i].amount < p.amount
    BY <1>3 DEF Max2
  <1>. QED  BY <1>2, <1>4

LEMMA OneCandidate ==
  ASSUME NEW S \in SUBSET Items, S # {}
  PROVE  /\ Cardinality(S) \in Nat \ {0}
         /\ Cardinality(S) = 1 => \E i \in S : S = {i}
  <1>1. IsFiniteSet(S)
    BY ItemsFinite, FS_Subset
  <1>. QED  BY <1>1, FS_CardinalityType, FS_EmptySet, FS_Singleton

\* What is registered at once: the reply's item, the text's, or the only one in dispute.
LEMMA RegisterIs ==
  ASSUME NEW t \in Tasks, NEW p, NEW signal, Decision(t, p, signal) = "register"
  PROVE  /\ ~Muffled(Quality(Message(t)))
         /\ \/ IsReply(t, p)
            \/ p.item # None /\ ~p.ambiguous
            \/ ~IsReply(t, p) /\ p.item = None /\ signal.candidates # {} /\ ~(Cardinality(signal.candidates) > 1)
  <1> DEFINE text   == Text(t)
             first  == IF text = <<>> THEN "" ELSE text[1]
             digits == first \in Digited
             looks  == digits \/ IsAmount(first) \/ isValueOnlyAfterFillers(text)
  <1>1. PICK e : e = evaluateBidConfidence(p, IsReply(t, p), looks, digits, signal)
    OBVIOUS
  <1>2. applyTranscriptionQuality(e, Quality(Message(t))) = "register"
    BY <1>1 DEF Decision
  <1>3. e = "register" /\ ~Muffled(Quality(Message(t)))
    BY <1>2 DEF applyTranscriptionQuality
  <1>. HIDE DEF looks, digits
  <1>4. \/ IsReply(t, p)
        \/ p.item # None /\ ~p.ambiguous
        \/ ~IsReply(t, p) /\ p.item = None /\ signal.candidates # {} /\ ~(Cardinality(signal.candidates) > 1)
    BY <1>1, <1>3 DEF evaluateBidConfidence, ByMatch, ByContext, None
  <1>. QED  BY <1>3, <1>4

\* What an interpreted message becomes: a bid, a question for a confirmation or one for the item.
Interpreted(t, r) ==
    LET b == Understood(Message(t))  quoted == task[t].quoted IN
    /\ r \in TaskRow /\ r.m = task[t].m /\ r.quoted = quoted /\ r.amount = b.amount
    /\ r.step \in {"place", "ask", "clarify"} /\ r.via \in {"text", "quote", "context"}
    /\ r.step # "clarify" => r.item \in Items
    /\ r.step = "place"
       => /\ ~Muffled(Quality(Message(t)))
          /\ b.item # None => r.item = b.item
          /\ b.item = None /\ quoted # None => r.item = quoted
          /\ b.item = None /\ quoted = None
             => context[r.item].age # "none" /\ context[r.item].amount < r.amount

LEMMA InterpretIs ==
  ASSUME Typed, NEW t \in Tasks, Interpret(t)
  PROVE  /\ \E r : task' = [task EXCEPT ![t] = r] /\ (r = Idle \/ Interpreted(t, r))
         /\ \A i \in Items : context'[i] \in {context[i], NoContext}
         /\ context' = [i \in Items |-> context'[i]]
  <1>1. PICK b : b = Understood(Message(t))
    OBVIOUS
  <1>2. PICK p : p = WithQuote(t, b)
    OBVIOUS
  <1>3. PICK signal : signal = Signal(t, p)
    OBVIOUS
  <1>4. Decide(t, p, signal)
    BY <1>1, <1>2, <1>3 DEF Interpret
  <1>5. task[t].step = "snapshot" /\ task[t] \in TaskRow
    BY DEF Interpret, FromSnapshot, Typed, TaskTyped
  <1>6. IsResult(b, b.amount) /\ b.amount \in Nat
    BY <1>1, <1>5, KeyIs, UnderstoodIs DEF Typed
  <1>7. p.item = b.item /\ p.amount = b.amount /\ (p # b => p.ambiguous = TRUE /\ b.item # None)
    BY <1>2, <1>6, WithQuoteIs
  <1>8. signal.candidates # {} =>
            /\ LooksAtContext(t, p) /\ signal.candidates \in SUBSET Items
            /\ \A i \in signal.candidates : context[i].age # "none" /\ context[i].amount < p.amount
    BY <1>3, <1>5, <1>6, <1>7, SignalIs
  <1> DEFINE target   == Target(t, p, signal)
             decision == Decision(t, p, signal)
             stale    == IsReply(t, p) /\ ~IsOpen(t, task[t].quoted)
             open     == {i \in Items : IsOpen(t, i)}
             next     == CASE stale -> "idle"
                           [] ~stale /\ decision = "clarify" -> "clarify"
                           [] ~stale /\ decision = "register" /\ target \in open -> "place"
                           [] ~stale /\ decision = "confirm" /\ target \in open -> "ask"
                           [] OTHER -> "idle"
  <1>9. PICK n, v, i, some : /\ n = next /\ v = Via(t, p, signal)
                             /\ i = IF next = "clarify" THEN None ELSE target
                             /\ some = (p.candidates # {} \/ signal.candidates # {} \/ open # {})
    OBVIOUS
  <1>10. PICK r : r = IF n = "idle" THEN Idle
                     ELSE [task[t] EXCEPT !.step = n, !.via = v, !.amount = p.amount, !.item = i, !.any = some]
    OBVIOUS
  <1>11. task' = [task EXCEPT ![t] = r]
    BY <1>4, <1>9, <1>10 DEF Decide, Typed, StoresTyped
  <1>12. n \in {"idle", "clarify", "place", "ask"} /\ (n \in {"place", "ask"} => i \in Items /\ i = target)
         /\ (n = "clarify" => i = None) /\ (n = "place" => decision = "register")
    <2>. HIDE DEF target, decision, stale
    <2>. QED  BY <1>9
  <1>13. v \in {"text", "quote", "context"}
    BY <1>9 DEF Via
  <1>14. some \in BOOLEAN
    BY <1>9
  <1>15. n # "idle" => r \in TaskRow /\ r.m = task[t].m /\ r.quoted = task[t].quoted /\ r.amount = b.amount
                      /\ r.step = n /\ r.via = v /\ r.item = i
    <2>. SUFFICES ASSUME n # "idle"
                  PROVE  r \in TaskRow /\ r.m = task[t].m /\ r.quoted = task[t].quoted /\ r.amount = b.amount
                         /\ r.step = n /\ r.via = v /\ r.item = i
      OBVIOUS
    <2>. HIDE DEF target, decision, stale, open, next
    <2>1. i \in Items \cup {None} /\ n \in Steps /\ v \in Vias /\ p.amount = b.amount /\ b.amount \in Nat
      BY <1>6, <1>7, <1>12, <1>13 DEF Steps, Vias
    <2>2. r = [task[t] EXCEPT !.step = n, !.via = v, !.amount = p.amount, !.item = i, !.any = some]
      BY <1>10
    <2>. QED  BY <1>5, <1>14, <2>1, <2>2 DEF TaskRow
  <1>16. ASSUME n = "place"
         PROVE  /\ ~Muffled(Quality(Message(t)))
                /\ b.item # None => i = b.item
                /\ b.item = None /\ task[t].quoted # None => i = task[t].quoted
                /\ b.item = None /\ task[t].quoted = None
                   => context[i].age # "none" /\ context[i].amount < b.amount
    <2>1. decision = "register" /\ i = target
      BY <1>12, <1>16
    <2>2. /\ ~Muffled(Quality(Message(t)))
          /\ \/ IsReply(t, p)
             \/ p.item # None /\ ~p.ambiguous
             \/ ~IsReply(t, p) /\ p.item = None /\ signal.candidates # {} /\ ~(Cardinality(signal.candidates) > 1)
      BY <2>1, RegisterIs
    <2>3. CASE IsReply(t, p)
      <3>1. target = task[t].quoted
        BY <2>3 DEF Target
      <3>. QED  BY <2>1, <2>2, <2>3, <3>1, <1>7 DEF IsReply
    <2>4. CASE ~IsReply(t, p) /\ p.item # None
      <3>1. signal.candidates = {}
        BY <1>8, <2>4 DEF LooksAtContext
      <3>2. Cardinality(signal.candidates) # 1
        BY <3>1, FS_EmptySet
      <3>3. target = p.item
        BY <2>4, <3>2 DEF Target
      <3>. QED  BY <2>1, <2>2, <2>4, <3>3, <1>7
    <2>5. CASE ~IsReply(t, p) /\ p.item = None
      <3>1. signal.candidates # {} /\ Cardinality(signal.candidates) = 1
        BY <2>2, <2>5, <1>8, OneCandidate
      <3>2. target = CHOOSE x \in signal.candidates : TRUE
        BY <2>5, <3>1 DEF Target
      <3>3. target \in signal.candidates
        BY <3>1, <3>2
      <3>4. LooksAtContext(t, p)
        BY <1>8, <3>1
      <3>5. task[t].quoted = None
        BY <3>4, <2>5 DEF LooksAtContext, IsReply
      <3>. QED  BY <2>1, <2>2, <2>5, <3>3, <3>5, <1>7, <1>8
    <2>. QED  BY <2>3, <2>4, <2>5
  <1>17. r = Idle \/ Interpreted(t, r)
    <2>1. CASE n = "idle"
      BY <2>1, <1>10
    <2>2. CASE n # "idle"
      BY <2>2, <1>1, <1>12, <1>13, <1>15, <1>16 DEF Interpreted
    <2>. QED  BY <2>1, <2>2
  <1>18. /\ \A j \in Items : context'[j] \in {context[j], NoContext}
         /\ context' = [j \in Items |-> context'[j]]
    BY <1>4 DEF Decide
  <1>. QED  BY <1>11, <1>17, <1>18

-----------------------------------------------------------------------------
(***************************************************************************)
(* The steps that follow an interpretation.                                *)
(***************************************************************************)
LEMMA TypedInterpret == ASSUME Typed, NEW t \in Tasks, Interpret(t) PROVE Typed'
  <1>1. PICK r : task' = [task EXCEPT ![t] = r] /\ (r = Idle \/ Interpreted(t, r))
    BY InterpretIs
  <1>2. log' = log /\ HistoryTyped'
    BY DEF Interpret, history, Typed, HistoryTyped
  <1>3. task[t].m \in DOMAIN log /\ task[t].m \in 0 .. Len(log)
    BY DEF Interpret, FromSnapshot, Typed, TaskTyped
  <1>4. TaskTyped(r)'
    <2>1. CASE r = Idle
      BY <1>2, <2>1, IdleTyped DEF TaskTyped
    <2>2. CASE Interpreted(t, r)
      BY <1>2, <1>3, <2>2 DEF Interpreted, TaskTyped
    <2>. QED  BY <1>1, <2>1, <2>2
  <1>5. task' \in [Tasks -> TaskRow] => StoresTyped'
    <2>1. context' \in [Items -> [amount : Nat, age : Ages]]
      BY InterpretIs DEF Typed, StoresTyped, NoContext, Ages
    <2>2. ConfirmationTyped'
      BY DEF Interpret, history, Typed, StoresTyped, ConfirmationTyped
    <2>3. question' \in [Senders -> [amount : Nat, live : BOOLEAN]]
      BY DEF Interpret, Typed, StoresTyped, NoQuestion
    <2>. QED  BY <2>1, <2>2, <2>3 DEF Interpret, history, replies, Typed, StoresTyped
  <1>. QED  BY <1>1, <1>2, <1>4, <1>5, TypedStep

LEMMA NumberedIs ==
  ASSUME NEW n
  PROVE  /\ Numbered(n) \subseteq Items
         /\ Numbered(n) # {} => (CHOOSE i \in Numbered(n) : TRUE) \in Items
  BY DEF Numbered, Items

LEMMA TypedPlaceAnswered == ASSUME Typed, NEW t \in Tasks, PlaceAnswered(t) PROVE Typed'
  <1>1. task[t].m \in DOMAIN log /\ task[t].m \in 0 .. Len(log) /\ task[t] \in TaskRow /\ Key(t) \in Senders
    BY KeyIs DEF PlaceAnswered, FromSnapshot, Typed, TaskTyped
  <1>2. PICK item, amount : item = (CHOOSE i \in Numbered(Amount[itemAnswer(Message(t))[1]]) : TRUE) /\ amount = question[Key(t)].amount
    OBVIOUS
  <1>3. item \in Items /\ amount \in Nat
    BY <1>1, <1>2, NumberedIs DEF PlaceAnswered, AnswersQuestion, Typed, StoresTyped
  <1>4. PICK r : r = IF IsOpen(t, item)
                     THEN [task[t] EXCEPT !.step = "place", !.via = "answered", !.item = item, !.amount = amount]
                     ELSE Idle
    OBVIOUS
  <1>5. task' = [task EXCEPT ![t] = r]
    BY <1>2, <1>4 DEF PlaceAnswered, Typed, StoresTyped
  <1>6. log' = log /\ HistoryTyped'
    BY DEF PlaceAnswered, history, Typed, HistoryTyped
  <1>7. TaskTyped(r)'
    <2>1. CASE IsOpen(t, item)
      BY <1>1, <1>3, <1>4, <1>6, <2>1 DEF TaskTyped, TaskRow, Steps, Vias
    <2>2. CASE ~IsOpen(t, item)
      BY <1>4, <1>6, <2>2, IdleTyped DEF TaskTyped
    <2>. QED  BY <2>1, <2>2
  <1>8. task' \in [Tasks -> TaskRow] => StoresTyped'
    <2>1. question' \in [Senders -> [amount : Nat, live : BOOLEAN]]
      BY <1>1 DEF PlaceAnswered, Typed, StoresTyped, NoQuestion
    <2>. QED  BY <2>1 DEF PlaceAnswered, history, replies, Typed, StoresTyped, ConfirmationTyped
  <1>. QED  BY <1>5, <1>6, <1>7, <1>8, TypedStep

LEMMA TypedAskConfirmation == ASSUME Typed, NEW t \in Tasks, AskConfirmation(t) PROVE Typed'
  <1>1. log' = log /\ task' = [task EXCEPT ![t] = Idle] /\ TaskTyped(Idle)'
    BY EndTyped DEF AskConfirmation
  <1>2. Key(t) \in Senders
    BY KeyIs DEF AskConfirmation
  <1>3. task[t].item \in Items /\ task[t].amount \in Nat
    BY DEF AskConfirmation, Typed, TaskTyped, TaskRow
  <1>4. CreateConfirmation(Key(t), task[t].item, task[t].amount)
    BY DEF AskConfirmation
  <1>5. /\ ConfirmationTyped' /\ question' \in [Senders -> [amount : Nat, live : BOOLEAN]]
        /\ asked' \in Seq(Asked)
    BY <1>2, <1>3, <1>4, CreatedTyped
  <1>6. task' \in [Tasks -> TaskRow] => StoresTyped'
    BY <1>5 DEF AskConfirmation, replies, Typed, StoresTyped
  <1>7. HistoryTyped'
    BY <1>5 DEF AskConfirmation, Typed, HistoryTyped
  <1>. QED  BY <1>1, <1>6, <1>7, TypedStep

\* The question to one participant, and what becomes of the others.
LEMMA QuestionAsked ==
  ASSUME Typed, NEW s \in Senders, NEW amount \in Nat, createContext(s, amount)
  PROVE  /\ question' \in [Senders -> [amount : Nat, live : BOOLEAN]]
         /\ question'[s].amount = amount
         /\ \A r \in Senders \ {s} : question'[r] \in {question[r], NoQuestion}
  <1>1. PICK q : q = [amount |-> amount, live |-> TRUE]
    OBVIOUS
  <1>2. question' = [r \in Senders |-> IF r = s THEN q ELSE IF question[r].live THEN question[r] ELSE NoQuestion]
    BY <1>1 DEF createContext, cleanupExpired, Typed, StoresTyped
  <1>3. /\ q \in [amount : Nat, live : BOOLEAN] /\ NoQuestion \in [amount : Nat, live : BOOLEAN] /\ q.amount = amount
    BY <1>1 DEF NoQuestion
  <1>4. \A r \in Senders : question[r] \in [amount : Nat, live : BOOLEAN]
    BY DEF Typed, StoresTyped
  <1>. QED  BY <1>2, <1>3, <1>4

LEMMA TypedAskItem == ASSUME Typed, NEW t \in Tasks, AskItem(t) PROVE Typed'
  <1>1. log' = log /\ HistoryTyped' /\ asked' = asked
    BY DEF AskItem, history, Typed, HistoryTyped
  <1>2. task' = [task EXCEPT ![t] = Idle] /\ TaskTyped(Idle)'
    BY <1>1, EndTyped DEF AskItem
  <1>3. Key(t) \in Senders /\ task[t].amount \in Nat
    BY KeyIs DEF AskItem, Typed, TaskTyped, TaskRow
  <1>4. ConfirmationTyped'
    BY <1>1, <1>3, ClearedTyped DEF AskItem, Take
  <1>5. question' \in [Senders -> [amount : Nat, live : BOOLEAN]]
    <2>1. CASE UNCHANGED question
      BY <2>1 DEF Typed, StoresTyped
    <2>2. CASE createContext(Key(t), task[t].amount)
      BY <1>3, <2>2, QuestionAsked
    <2>. QED  BY <2>1, <2>2 DEF AskItem
  <1>6. task' \in [Tasks -> TaskRow] => StoresTyped'
    BY <1>4, <1>5 DEF AskItem, replies, Typed, StoresTyped
  <1>. QED  BY <1>1, <1>2, <1>6, TypedStep

LEMMA TypedPlace == ASSUME Typed, NEW t \in Tasks, Place(t) PROVE Typed'
  <1>1. task[t] \in TaskRow /\ task[t].item \in Items /\ task[t].m \in DOMAIN log /\ task[t].m \in 0 .. Len(log)
        /\ task[t].via # "none"
    BY DEF Place, Typed, TaskTyped
  <1>2. PICK r : r = [task[t] EXCEPT !.step = "record"]
    OBVIOUS
  <1>3. task' = [task EXCEPT ![t] = r]
    BY <1>2 DEF Place, Goto, Typed, StoresTyped
  <1>4. TaskTyped(r)'
    BY <1>1, <1>2 DEF Place, TaskTyped, TaskRow, Steps, Vias
  <1>5. HistoryTyped' /\ log' = log
    <2>1. bids' \in Seq(BidRow)
      BY <1>1 DEF Place, Typed, HistoryTyped, BidRow, TaskRow
    <2>2. outcomes' \subseteq Nat \X {"cancelled", "corrected", "bid"}
      BY <1>1 DEF Place, Outcome, Typed, HistoryTyped, TaskRow
    <2>. QED  BY <2>1, <2>2 DEF Place, Typed, HistoryTyped
  <1>6. task' \in [Tasks -> TaskRow] => StoresTyped'
    <2>1. task[t].item \in Items /\ task[t].amount \in Nat /\ auction \in [Items -> Lot]
      BY <1>1 DEF Typed, StoresTyped, TaskRow
    <2>2. auction' \in [Items -> Lot]
      BY <2>1 DEF Place, Lot
    <2>. QED  BY <2>2 DEF Place, stores, replies, Typed, StoresTyped, ConfirmationTyped
  <1>. QED  BY <1>3, <1>4, <1>5, <1>6, TypedStep

LEMMA TypedRecord == ASSUME Typed, NEW t \in Tasks, Record(t) PROVE Typed'
  <1>1. task[t] \in TaskRow /\ task[t].item \in Items /\ TaskTyped(task[t])
    BY DEF Record, Typed, TaskTyped
  <1>2. PICK r : r = [task[t] EXCEPT !.step = "react"]
    OBVIOUS
  <1>3. task' = [task EXCEPT ![t] = r]
    BY <1>2 DEF Record, Goto, Typed, StoresTyped
  <1>4. TaskTyped(r)'
    BY <1>1, <1>2 DEF Record, history, TaskTyped, TaskRow, Steps, Vias
  <1>5. HistoryTyped' /\ log' = log
    BY DEF Record, history, Typed, HistoryTyped
  <1>6. task' \in [Tasks -> TaskRow] => StoresTyped'
    <2>1. context' \in [Items -> [amount : Nat, age : Ages]]
      BY <1>1 DEF Record, Typed, StoresTyped, TaskRow, Ages
    <2>. QED  BY <2>1 DEF Record, history, replies, Typed, StoresTyped, ConfirmationTyped
  <1>. QED  BY <1>3, <1>4, <1>5, <1>6, TypedStep

-----------------------------------------------------------------------------
(***************************************************************************)
(* The bindings of replies, and messages that come.                        *)
(***************************************************************************)
LEMMA NewestIs ==
  ASSUME NEW T, NEW bindings \in Seq(T)
  PROVE  /\ Newest(bindings) \in Seq(T) /\ Len(Newest(bindings)) <= ReplyMax
         /\ \A k \in DOMAIN Newest(bindings) : \E j \in DOMAIN bindings : Newest(bindings)[k] = bindings[j]
  <1>1. PICK from : from = Max2(1, Len(bindings) - ReplyMax + 1)
    OBVIOUS
  <1>2. from \in Nat /\ from >= 1 /\ Len(bindings) - from + 1 <= ReplyMax /\ ReplyMax \in Nat \ {0}
        /\ Len(bindings) \in Nat /\ from <= Len(bindings) + 1
    BY <1>1, ConversationAssumption DEF Max2
  <1>3. Newest(bindings) = SubSeq(bindings, from, Len(bindings))
    BY <1>1 DEF Newest
  <1>4. /\ SubSeq(bindings, from, Len(bindings)) \in Seq(T)
        /\ Len(SubSeq(bindings, from, Len(bindings))) = IF from <= Len(bindings) THEN Len(bindings) - from + 1 ELSE 0
        /\ \A k \in 1 .. Len(SubSeq(bindings, from, Len(bindings))) :
               SubSeq(bindings, from, Len(bindings))[k] = bindings[from + k - 1]
    BY <1>2, SubSeqProperties
  <1>. QED  BY <1>2, <1>3, <1>4

LEMMA WithReplyIs ==
  ASSUME NEW bindings \in Seq(Binding), NEW q \in Notes, NEW i \in Items
  PROVE  /\ WithReply(bindings, q, i) \in Seq(Binding)
         /\ \A k \in DOMAIN WithReply(bindings, q, i) :
                \/ \E j \in DOMAIN bindings : WithReply(bindings, q, i)[k] = bindings[j]
                \/ WithReply(bindings, q, i)[k] = [message |-> q, item |-> i]
  <1>1. PICK new : new = [message |-> q, item |-> i]
    OBVIOUS
  <1>2. new \in Binding
    BY <1>1 DEF Binding
  <1>3. CASE q \in Messages(bindings)
    BY <1>3 DEF WithReply
  <1>4. CASE q \notin Messages(bindings)
    <2>1. WithReply(bindings, q, i) = Append(bindings, new)
      BY <1>1, <1>4 DEF WithReply
    <2>. QED  BY <1>1, <1>2, <2>1
  <1>. QED  BY <1>3, <1>4

LEMMA TypedReact == ASSUME Typed, NEW t \in Tasks, React(t) PROVE Typed'
  <1>1. log' = log /\ asked' = asked /\ HistoryTyped'
    BY DEF React, history, Typed, HistoryTyped
  <1>2. task' = [task EXCEPT ![t] = Idle] /\ TaskTyped(Idle)'
    BY <1>1, EndTyped DEF React
  <1>3. Key(t) \in Senders /\ task[t].item \in Items /\ task[t].m \in Nat
    BY KeyIs DEF React, Typed, TaskTyped
  <1>4. ConfirmationTyped'
    <2>1. PICK c : c = IF task[t].via \in {"answered", "cited", "confirmed"} THEN confirmation[Key(t)] ELSE NoConfirmation
      OBVIOUS
    <2>. QED  BY <1>1, <1>3, <2>1, ClearedTyped DEF React
  <1>5. question' \in [Senders -> [amount : Nat, live : BOOLEAN]]
    BY <1>3 DEF React, NoQuestion, Typed, StoresTyped
  <1>6. bound' \in Seq(Binding) /\ Len(bound') <= ReplyMax /\ saved' \in Seq(Binding)
    <2>1. PICK q, i : q = BidOf(task[t].m) /\ i = task[t].item
      OBVIOUS
    <2>2. q \in Notes /\ i \in Items
      BY <1>3, <2>1 DEF Notes
    <2>3. bound \in Seq(Binding) /\ saved \in Seq(Binding)
      BY DEF Typed, StoresTyped
    <2>4. bound' = Newest(WithReply(bound, q, i)) /\ (saved' = WithReply(saved, q, i) \/ saved' = saved)
      BY <2>1 DEF React, registerReplyContext
    <2>5. WithReply(bound, q, i) \in Seq(Binding) /\ WithReply(saved, q, i) \in Seq(Binding)
      BY <2>2, <2>3, WithReplyIs
    <2>. QED  BY <2>3, <2>4, <2>5, NewestIs
  <1>7. task' \in [Tasks -> TaskRow] => StoresTyped'
    BY <1>4, <1>5, <1>6 DEF React, Typed, StoresTyped
  <1>. QED  BY <1>1, <1>2, <1>7, TypedStep

\* A message begins.
LEMMA BeginIs ==
  ASSUME Typed, NEW t \in Tasks, NEW m, Begin(t, m), m \in DOMAIN log', log' \in Seq(Sent)
  PROVE  \E r : /\ task' = [task EXCEPT ![t] = r] /\ TaskTyped(r)'
                /\ r.m = m /\ r.step = "resolve" /\ r.via = "none" /\ r.quoted = None
  <1>1. PICK r : r = [Idle EXCEPT !.m = m, !.step = "resolve"]
    OBVIOUS
  <1>4. m \in Nat /\ m \in 0 .. Len(log')
    OBVIOUS
  <1>2. r \in TaskRow /\ r.m = m /\ r.step = "resolve" /\ r.via = "none" /\ r.quoted = None
    BY <1>1, <1>4 DEF Idle, TaskRow, Steps, Vias
  <1>3. TaskTyped(r)'
    BY <1>2, <1>4 DEF TaskTyped
  <1>. QED  BY <1>1, <1>2, <1>3 DEF Begin

LEMMA TypedDeliver == ASSUME Typed, NEW t \in Tasks, Deliver(t) PROVE Typed'
  <1>1. PICK msg \in Menu[script] : log' = Append(log, msg)
    BY DEF Deliver
  <1>2. log \in Seq(Sent) /\ msg \in Sent
    BY DEF Sent, Typed, StoresTyped, HistoryTyped
  <1>3. log' \in Seq(Sent) /\ Len(log') = Len(log) + 1 /\ DOMAIN log \subseteq DOMAIN log' /\ Len(log) + 1 \in DOMAIN log'
        /\ DOMAIN log' = DOMAIN log \cup {Len(log) + 1}
    BY <1>1, <1>2
  <1>4. PICK r : task' = [task EXCEPT ![t] = r] /\ TaskTyped(r)'
    BY <1>3, BeginIs DEF Deliver
  <1>5. HistoryTyped'
    BY <1>3 DEF Deliver, Begin, Typed, HistoryTyped
  <1>6. task' \in [Tasks -> TaskRow] => StoresTyped'
    BY DEF Deliver, stores, replies, Typed, StoresTyped, ConfirmationTyped
  <1>. QED  BY <1>1, <1>4, <1>5, <1>6, TypedStep

LEMMA TypedRedeliver == ASSUME Typed, NEW t \in Tasks, NEW m \in DOMAIN log, Redeliver(t, m) PROVE Typed'
  <1>1. log' = log /\ log \in Seq(Sent)
    BY DEF Redeliver, history, Typed, HistoryTyped
  <1>4. PICK r : task' = [task EXCEPT ![t] = r] /\ TaskTyped(r)'
    BY <1>1, BeginIs DEF Redeliver
  <1>5. HistoryTyped'
    BY <1>1 DEF Redeliver, history, Begin, Typed, HistoryTyped
  <1>6. task' \in [Tasks -> TaskRow] => StoresTyped'
    BY DEF Redeliver, history, stores, replies, Typed, StoresTyped, ConfirmationTyped
  <1>. QED  BY <1>1, <1>4, <1>5, <1>6, TypedStep

LEMMA TypedElse ==
  ASSUME Typed, task' = task, log' = log, StoresTyped', HistoryTyped'
  PROVE  Typed'
  BY DEF Typed, TaskTyped

LEMMA TypedOthers ==
  ASSUME Typed,
         \/ \E m \in DOMAIN log : DropMark(m)
         \/ \E s \in Senders : ExpireQuestion(s)
         \/ \E i \in Items : CloseItem(i) \/ AgeContext(i)
         \/ CloseList \/ SweepReplyBindings
  PROVE  Typed'
  <1>1. ASSUME NEW m \in DOMAIN log, DropMark(m) PROVE Typed'
    BY <1>1, TypedElse DEF DropMark, stores, replies, Typed, StoresTyped, ConfirmationTyped, HistoryTyped
  <1>2. ASSUME NEW s \in Senders, ExpireQuestion(s) PROVE Typed'
    BY <1>2, TypedElse DEF ExpireQuestion, replies, history, Typed, StoresTyped, ConfirmationTyped, HistoryTyped
  <1>3. ASSUME NEW i \in Items, CloseItem(i) PROVE Typed'
    BY <1>3, TypedElse DEF CloseItem, stores, replies, history, Typed, StoresTyped, ConfirmationTyped, HistoryTyped, Lot
  <1>4. ASSUME NEW i \in Items, AgeContext(i) PROVE Typed'
    <2>1. context' \in [Items -> [amount : Nat, age : Ages]]
      BY <1>4 DEF AgeContext, Typed, StoresTyped, NoContext, Ages
    <2>. QED  BY <1>4, <2>1, TypedElse DEF AgeContext, replies, history, Typed, StoresTyped, ConfirmationTyped, HistoryTyped
  <1>5. ASSUME CloseList PROVE Typed'
    <2>1. auction' \in [Items -> Lot]
      BY <1>5 DEF CloseList, Typed, StoresTyped, Lot
    <2>. QED  BY <1>5, <2>1, TypedElse DEF CloseList, stores, replies, history, Typed, StoresTyped, ConfirmationTyped, HistoryTyped
  <1>6. ASSUME SweepReplyBindings PROVE Typed'
    <2>1. saved' \in Seq(Binding)
      BY <1>6 DEF SweepReplyBindings, Typed, StoresTyped
    <2>. QED  BY <1>6, <2>1, TypedElse DEF SweepReplyBindings, stores, history, Typed, StoresTyped, ConfirmationTyped, HistoryTyped
  <1>. QED  BY <1>1, <1>2, <1>3, <1>4, <1>5, <1>6

LEMMA TypedExpireConfirmation == ASSUME Typed, NEW s \in Senders, ExpireConfirmation(s) PROVE Typed'
  <1>1. confirmation[s] # NoConfirmation /\ asked' = asked
    BY DEF ExpireConfirmation, NoConfirmation, history
  <1>2. ConfirmationTyped'
    BY <1>1 DEF ExpireConfirmation, Typed, StoresTyped, ConfirmationTyped
  <1>. QED  BY <1>2, TypedElse DEF ExpireConfirmation, replies, history, Typed, StoresTyped, HistoryTyped

\* A set of numbers below a bound has a greatest one.
-----------------------------------------------------------------------------
(***************************************************************************)
(* The panel, restarts and the initial states.                             *)
(***************************************************************************)
LEMMA GreatestBelow ==
  ASSUME NEW N \in Nat, NEW S \in SUBSET Nat, S # {}, \A x \in S : x < N
  PROVE  \E x \in S : \A y \in S : y <= x
  <1> DEFINE D == {N - x : x \in S}
  <1>0. \A x \in S : N - x \in Nat
    OBVIOUS
  <1>1. D \in SUBSET Nat /\ D # {}
    BY <1>0
  <1>. HIDE DEF D
  <1>2. PICK d \in D : \A e \in D : <<e, d>> \notin OpToRel(<, Nat)
    BY <1>1, NatLessThanWellFounded, WFMin
  <1>3. \A e \in D : ~(e < d)
    BY <1>1, <1>2 DEF OpToRel
  <1>4. PICK x \in S : d = N - x
    BY DEF D
  <1>5. \A y \in S : y <= x
    BY <1>3, <1>4 DEF D
  <1>. QED  BY <1>5

LEMMA TypedRemoveLeader == ASSUME Typed, NEW i \in Items, RemoveLeader(i) PROVE Typed'
  <1> DEFINE lower == {bids[k].amount : k \in {j \in DOMAIN bids : bids[j].item = i /\ bids[j].amount < auction[i].leader}}
             next  == IF lower = {} THEN 0 ELSE CHOOSE a \in lower : \A b \in lower : b <= a
  <1>1. auction[i].leader \in Nat /\ \A k \in DOMAIN bids : bids[k].amount \in Nat
    <2>1. auction[i].leader \in Nat
      BY DEF Typed, StoresTyped, Lot
    <2>2. \A k \in DOMAIN bids : bids[k] \in BidRow
      BY DEF Typed, HistoryTyped
    <2>. QED  BY <2>1, <2>2 DEF BidRow
  <1>2. lower \in SUBSET Nat /\ \A a \in lower : a < auction[i].leader
    BY <1>1
  <1>3. auction' = [auction EXCEPT ![i].leader = next]
    BY DEF RemoveLeader
  <1>4. next \in Nat
    <2>. HIDE DEF lower
    <2>. QED  BY <1>1, <1>2, GreatestBelow
  <1>. HIDE DEF next
  <1>5. auction' \in [Items -> Lot]
    BY <1>3, <1>4 DEF Typed, StoresTyped, Lot
  <1>. QED  BY <1>5, TypedElse DEF RemoveLeader, stores, replies, history, Typed, StoresTyped, ConfirmationTyped, HistoryTyped

LEMMA NothingTyped ==
  /\ NoQuestion \in [amount : Nat, live : BOOLEAN]
  /\ NoConfirmation \in [id : Nat, item : Items \cup {None}, amount : Nat, live : BOOLEAN] /\ NoConfirmation.id = 0
  /\ NoContext \in [amount : Nat, age : Ages]
  BY DEF NoQuestion, NoConfirmation, NoContext, Ages

LEMMA TypedRestart == ASSUME Typed, Restart PROVE Typed'
  <1>1. log' = log /\ log \in Seq(Sent) /\ asked' = asked /\ Len(asked) \in Nat
    BY DEF Restart, Typed, HistoryTyped
  <1>2. bound' \in Seq(Binding) /\ Len(bound') <= ReplyMax
    <2>1. PICK kept : kept = Kept(saved, {k \in DOMAIN saved : auction[saved[k].item].open})
      OBVIOUS
    <2>2. kept \in Seq(Binding)
      BY <2>1, KeptIs DEF Typed, StoresTyped
    <2>. QED  BY <2>1, <2>2, NewestIs DEF Restart, loadReplyContexts
  <1>3. ConfirmationTyped'
    BY <1>1, NothingTyped DEF Restart, ConfirmationTyped
  <1>4. HistoryTyped'
    BY <1>1 DEF Restart, Typed, HistoryTyped
  <1>5. TaskTyped(Idle)'
    BY <1>1, IdleTyped DEF TaskTyped
  <1>6. \A t \in Tasks : task'[t] = Idle
    BY DEF Restart
  <1>7. task' \in [Tasks -> TaskRow]
    BY IdleTyped DEF Restart, TaskTyped
  <1>8. question' \in [Senders -> [amount : Nat, live : BOOLEAN]] /\ context' \in [Items -> [amount : Nat, age : Ages]]
    BY NothingTyped DEF Restart
  <1>9. StoresTyped'
    BY <1>2, <1>3, <1>7, <1>8 DEF Restart, loadReplyContexts, Typed, StoresTyped
  <1>10. \A t \in Tasks : TaskTyped(task[t])'
    BY <1>5, <1>6 DEF TaskTyped
  <1>. QED  BY <1>4, <1>9, <1>10 DEF Typed

LEMMA TypedInit == ASSUME Init PROVE Typed
  <1>1. PICK all : all = [k \in DOMAIN Catalog |-> [message |-> Card(Catalog[k].id), item |-> Catalog[k].id]]
    OBVIOUS
  <1>2. all \in Seq(Binding)
    <2>1. all = [k \in 1 .. Len(Catalog) |-> [message |-> Card(Catalog[k].id), item |-> Catalog[k].id]]
          /\ Len(Catalog) \in Nat
      BY <1>1, ConversationAssumption
    <2>2. \A k \in 1 .. Len(Catalog) : Catalog[k].id \in Items
      BY ConversationAssumption DEF Items
    <2>3. \A k \in 1 .. Len(Catalog) : [message |-> Card(Catalog[k].id), item |-> Catalog[k].id] \in Binding
      BY <2>2 DEF Binding, Notes
    <2>4. all \in [1 .. Len(Catalog) -> Binding]
      BY <2>1, <2>3
    <2>. QED  BY <2>1, <2>4, SeqDef
  <1>3. bound \in Seq(Binding) /\ Len(bound) <= ReplyMax /\ saved = bound
    BY <1>1, <1>2, NewestIs DEF Init
  <1>4. log = <<>> /\ log \in Seq(Sent) /\ asked = <<>> /\ asked \in Seq(Asked) /\ bids = <<>> /\ bids \in Seq(BidRow)
    BY DEF Init
  <1>5. HistoryTyped
    BY <1>4 DEF Init, HistoryTyped
  <1>6. ConfirmationTyped
    BY <1>4, NothingTyped DEF Init, ConfirmationTyped
  <1>7. TaskTyped(Idle)
    BY <1>4 DEF TaskTyped, TaskRow, Idle, Steps, Vias
  <1>8. task \in [Tasks -> TaskRow] /\ \A t \in Tasks : task[t] = Idle
    BY <1>7 DEF Init, TaskTyped
  <1>9. auction \in [Items -> Lot]
    BY DEF Init, Lot
  <1>10. StoresTyped
    BY <1>3, <1>6, <1>8, <1>9, NothingTyped DEF Init, StoresTyped
  <1>. QED  BY <1>5, <1>7, <1>8, <1>10 DEF Typed

LEMMA TypedWork == ASSUME Typed, NEW t \in Tasks, Work(t) PROVE Typed'
  BY TypedLost, TypedDownload, TypedtranscribeAudioFails, TypedNotOfList, TypedCiteItem, TypedHandleListBid,
     TypedAnswerExpired, TypedReject, TypedCorrect, TypedConfirm, TypedReadSnapshot, TypedPlaceCited,
     TypedregisterConfirmedBid, TypedPlaceAnswered, TypedInterpret, TypedAskConfirmation, TypedAskItem,
     TypedPlace, TypedRefused, TypedRecord, TypedReact DEF Work

LEMMA TypedSame == ASSUME Typed, UNCHANGED vars PROVE Typed'
  BY TypedElse DEF vars, stores, replies, history, Typed, StoresTyped, ConfirmationTyped, HistoryTyped

LEMMA TypedNext == ASSUME Typed, [Next]_vars PROVE Typed'
  <1>1. ASSUME NEW t \in Tasks, Work(t) PROVE Typed'
    BY <1>1, TypedWork
  <1>2. ASSUME NEW t \in Tasks, Deliver(t) PROVE Typed'
    BY <1>2, TypedDeliver
  <1>3. ASSUME NEW t \in Tasks, NEW m \in DOMAIN log, Redeliver(t, m) PROVE Typed'
    BY <1>3, TypedRedeliver
  <1>4. ASSUME NEW s \in Senders, ExpireConfirmation(s) PROVE Typed'
    BY <1>4, TypedExpireConfirmation
  <1>5. ASSUME NEW i \in Items, RemoveLeader(i) PROVE Typed'
    BY <1>5, TypedRemoveLeader
  <1>. QED  BY <1>1, <1>2, <1>3, <1>4, <1>5, TypedRestart, TypedSame, TypedOthers DEF Next

-----------------------------------------------------------------------------
(***************************************************************************)
(* The type invariant follows.                                             *)
(***************************************************************************)
LEMMA TypeOKFromTyped == ASSUME Typed, OneTask PROVE ConversationTypeOK
  <1>1. /\ listed \in BOOLEAN /\ DOMAIN auction = Items /\ DOMAIN context = Items
        /\ \A i \in Items : auction[i].open \in BOOLEAN /\ auction[i].leader \in Nat
    BY DEF Typed, StoresTyped, Lot
  <1>2. \A s \in Senders : /\ question[s].amount \in Nat
                           /\ confirmation[s].id \in 0 .. Len(asked)
                           /\ confirmation[s].item \in IF confirmation[s].live THEN Items ELSE Items \cup {None}
    <2>1. \A s \in Senders : question[s].amount \in Nat
      BY DEF Typed, StoresTyped
    <2>2. Len(asked) \in Nat /\ NoConfirmation.live = FALSE
      BY DEF Typed, HistoryTyped, NoConfirmation
    <2>. QED  BY <2>1, <2>2 DEF Typed, StoresTyped, ConfirmationTyped
  <1>3. Len(bound) <= ReplyMax /\ \A k \in DOMAIN bound : bound[k].item \in Items
    <2>1. \A k \in DOMAIN bound : bound[k] \in Binding
      BY DEF Typed, StoresTyped
    <2>. QED  BY <2>1 DEF Binding, Typed, StoresTyped
  <1>4. seen \subseteq DOMAIN log /\ forgotten \subseteq DOMAIN log
    BY DEF Typed, HistoryTyped
  <1>5. \A t \in Tasks : task[t].m \in 0 .. Len(log) /\ task[t].item \in Items \cup {None}
    BY DEF Typed, TaskTyped, TaskRow
  <1>6. \A k \in DOMAIN bids : bids[k].m \in DOMAIN log /\ bids[k].item \in Items
    <2>1. \A k \in DOMAIN bids : bids[k] \in BidRow
      BY DEF Typed, HistoryTyped
    <2>. QED  BY <2>1 DEF BidRow, OneTask
  <1>. QED  BY <1>1, <1>2, <1>3, <1>4, <1>5, <1>6 DEF ConversationTypeOK

-----------------------------------------------------------------------------
(***************************************************************************)
(* One question at a time.                                                 *)
(***************************************************************************)
\* Questions that leave, or stay.
Fewer == \A s \in Senders : question'[s] \in {question[s], NoQuestion} /\ confirmation'[s] \in {confirmation[s], NoConfirmation}

LEMMA FewerQuestions == ASSUME OneQuestionAtATime, Fewer PROVE OneQuestionAtATime'
  BY DEF OneQuestionAtATime, Fewer

LEMMA FewerByWork ==
  ASSUME Typed, NEW t \in Tasks, Work(t), ~Correct(t), ~AskConfirmation(t), ~AskItem(t)
  PROVE  Fewer
  <1>0. question = [s \in Senders |-> question[s]] /\ confirmation = [s \in Senders |-> confirmation[s]]
    BY DEF Typed, StoresTyped, ConfirmationTyped
  <1>1. CASE \/ Lost(t) \/ Download(t) \/ transcribeAudioFails(t) \/ NotOfList(t) \/ CiteItem(t) \/ ReadSnapshot(t)
             \/ registerConfirmedBid(t) \/ Place(t) \/ Refused(t) \/ Record(t)
    BY <1>1 DEF Fewer, stores, Lost, Download, transcribeAudioFails, NotOfList, CiteItem, ReadSnapshot,
       registerConfirmedBid, Place, Refused, Record
  <1>2. CASE HandleListBid(t) \/ AnswerExpired(t) \/ Reject(t) \/ Confirm(t)
    BY <1>0, <1>2 DEF Fewer, HandleListBid, AnswerExpired, Reject, Confirm, Take
  <1>3. CASE PlaceCited(t) \/ PlaceAnswered(t)
    BY <1>0, <1>3 DEF Fewer, PlaceCited, PlaceAnswered
  <1>4. CASE Interpret(t)
    BY <1>0, <1>4 DEF Fewer, Interpret
  <1>5. CASE React(t)
    BY <1>0, <1>5 DEF Fewer, React
  <1>. QED  BY <1>1, <1>2, <1>3, <1>4, <1>5 DEF Work

LEMMA OneQuestionCreate ==
  ASSUME Typed, OneQuestionAtATime, NEW s \in Senders, NEW item, NEW amount, CreateConfirmation(s, item, amount)
  PROVE  OneQuestionAtATime'
  <1>1. \A r \in Senders \ {s} : question'[r] = question[r] /\ confirmation'[r] \in {confirmation[r], NoConfirmation}
    BY DEF CreateConfirmation, cleanupExpired, Typed, StoresTyped, ConfirmationTyped
  <1>2. question'[s] = NoQuestion
    BY DEF CreateConfirmation, Typed, StoresTyped
  <1>. QED  BY <1>1, <1>2 DEF OneQuestionAtATime

LEMMA OneQuestionAskItem ==
  ASSUME Typed, OneQuestionAtATime, NEW t \in Tasks, AskItem(t)
  PROVE  OneQuestionAtATime'
  <1>1. Key(t) \in Senders /\ task[t].amount \in Nat
    BY KeyIs DEF AskItem, Typed, TaskTyped, TaskRow
  <1>2. /\ confirmation'[Key(t)] = NoConfirmation
        /\ \A s \in Senders \ {Key(t)} : confirmation'[s] = confirmation[s]
    BY <1>1 DEF AskItem, Take, Typed, StoresTyped, ConfirmationTyped
  <1>3. \A s \in Senders \ {Key(t)} : question'[s] \in {question[s], NoQuestion}
    BY <1>1, QuestionAsked DEF AskItem
  <1>. QED  BY <1>2, <1>3 DEF OneQuestionAtATime

LEMMA OneQuestionNext == ASSUME Typed, OneQuestionAtATime, [Next]_vars PROVE OneQuestionAtATime'
  <1>1. ASSUME NEW t \in Tasks, Work(t) PROVE OneQuestionAtATime'
    <2>1. CASE Correct(t)
      BY <2>1, OneQuestionCreate, KeyIs, Arriving DEF Correct, Answers
    <2>2. CASE AskConfirmation(t)
      BY <2>2, OneQuestionCreate, KeyIs DEF AskConfirmation
    <2>3. CASE AskItem(t)
      BY <2>3, OneQuestionAskItem
    <2>. QED  BY <1>1, <2>1, <2>2, <2>3, FewerByWork, FewerQuestions
  <1>2. ASSUME NEW s \in Senders, ExpireQuestion(s) PROVE OneQuestionAtATime'
    <2>1. question[s] # NoQuestion
      BY <1>2 DEF ExpireQuestion, NoQuestion
    <2>. QED  BY <1>2, <2>1 DEF ExpireQuestion, OneQuestionAtATime, Typed, StoresTyped
  <1>3. ASSUME NEW s \in Senders, ExpireConfirmation(s) PROVE OneQuestionAtATime'
    <2>1. confirmation[s] # NoConfirmation
      BY <1>3 DEF ExpireConfirmation, NoConfirmation
    <2>. QED  BY <1>3, <2>1 DEF ExpireConfirmation, OneQuestionAtATime, Typed, StoresTyped, ConfirmationTyped
  <1>4. CASE \/ \E t \in Tasks : Deliver(t)
             \/ \E t \in Tasks : \E m \in DOMAIN log : Redeliver(t, m)
             \/ \E m \in DOMAIN log : DropMark(m)
             \/ \E i \in Items : AgeContext(i) \/ CloseItem(i) \/ RemoveLeader(i)
             \/ CloseList \/ SweepReplyBindings \/ UNCHANGED vars
    BY <1>4, FewerQuestions DEF Fewer, Deliver, Redeliver, DropMark, AgeContext, CloseItem, RemoveLeader, CloseList,
       SweepReplyBindings, vars, stores
  <1>5. CASE Restart
    BY <1>5 DEF Restart, OneQuestionAtATime
  <1>. QED  BY <1>1, <1>2, <1>3, <1>4, <1>5 DEF Next

LEMMA OneQuestionInit == ASSUME Init PROVE OneQuestionAtATime
  BY DEF Init, OneQuestionAtATime

-----------------------------------------------------------------------------
(***************************************************************************)
(* What a task does next, whatever the step.                               *)
(***************************************************************************)
\* What a task does next: it keeps its message, and what it holds is what it held.
Advances(t, r) ==
    /\ task[t].step # "idle" /\ task' = [task EXCEPT ![t] = r]
    /\ r.step # "idle" => r.m = task[t].m
    /\ task[t].step \in {"record", "react"} => r.step \in {"idle", "record", "react"}
    /\ log' = log /\ forgotten' = forgotten

\* ... but for the answer to a confirmation, which takes one.
Holding(t, r) == Holds(r) => Holds(task[t]) /\ r.id = task[t].id

LEMMA IdleHolds == Idle.step = "idle" /\ ~Holds(Idle)
  BY DEF Idle, Holds

LEMMA EndAdvances ==
  ASSUME NEW t \in Tasks, End(t), task[t].step # "idle", log' = log, forgotten' = forgotten
  PROVE  Advances(t, Idle) /\ Holding(t, Idle)
  BY IdleHolds DEF End, Advances, Holding

LEMMA GotoAdvances ==
  ASSUME Typed, NEW t \in Tasks, NEW s, Goto(t, s), task[t].step # "idle", log' = log, forgotten' = forgotten,
         \/ task[t].step = "snapshot" /\ s = "place"
         \/ task[t].step = "place" /\ s = "record"
         \/ task[t].step = "record" /\ s = "react"
  PROVE  \E r : Advances(t, r) /\ Holding(t, r) /\ r = [task[t] EXCEPT !.step = s]
  <1>1. PICK r : r = [task[t] EXCEPT !.step = s]
    OBVIOUS
  <1>2. task[t] \in TaskRow
    BY DEF Typed, TaskTyped
  <1>3. r.step = s /\ r.m = task[t].m /\ r.via = task[t].via /\ r.id = task[t].id
    BY <1>1, <1>2 DEF TaskRow
  <1>4. task' = [task EXCEPT ![t] = r]
    BY <1>1 DEF Goto, Typed, StoresTyped
  <1>. QED  BY <1>1, <1>3, <1>4 DEF Advances, Holding, Holds

LEMMA WorkAdvances ==
  ASSUME Typed, NEW t \in Tasks, Work(t)
  PROVE  \E r : Advances(t, r) /\ (Confirm(t) \/ Holding(t, r))
  <1>0. task[t] \in TaskRow
    BY DEF Typed, TaskTyped
  <1>1. CASE \/ Lost(t) \/ transcribeAudioFails(t) \/ NotOfList(t) \/ AnswerExpired(t) \/ Reject(t) \/ Correct(t)
             \/ AskConfirmation(t) \/ AskItem(t) \/ Refused(t) \/ React(t)
    <2>1. End(t) /\ task[t].step # "idle" /\ log' = log /\ forgotten' = forgotten
      BY <1>1, Arriving DEF Lost, transcribeAudioFails, NotOfList, AnswerExpired, Reject, Correct, Answers, Arrived,
         AskConfirmation, AskItem, Refused, React, history
    <2>. QED  BY <2>1, EndAdvances
  <1>2. CASE Download(t)
    <2>1. PICK q : q = getReplyContext(Message(t).quotes)
      OBVIOUS
    <2>2. PICK r : r = [task[t] EXCEPT !.step = "transcribe", !.quoted = q]
      OBVIOUS
    <2>3. task' = [task EXCEPT ![t] = r]
      BY <1>2, <2>1, <2>2 DEF Download, Typed, StoresTyped
    <2>4. r.step = "transcribe" /\ r.m = task[t].m
      BY <1>0, <2>2 DEF TaskRow
    <2>. QED  BY <1>2, <2>3, <2>4 DEF Advances, Holding, Holds, Download, history
  <1>3. CASE CiteItem(t)
    <2>1. PICK a, q : a = Amount[Text(t)[1]] /\ q = Quoted(t)
      OBVIOUS
    <2>2. PICK r : r = [task[t] EXCEPT !.step = "read", !.via = "cited", !.quoted = q, !.item = q, !.amount = a]
      OBVIOUS
    <2>3. task' = [task EXCEPT ![t] = r]
      BY <1>3, <2>1, <2>2 DEF CiteItem, Typed, StoresTyped
    <2>4. r.step = "read" /\ r.m = task[t].m /\ r.via = "cited"
      BY <1>0, <2>2 DEF TaskRow
    <2>5. task[t].step \in {"resolve", "transcribe"}
      BY <1>3 DEF CiteItem, ToList, Arrived
    <2>. QED  BY <1>3, <2>3, <2>4, <2>5 DEF Advances, Holding, Holds, CiteItem
  <1>4. CASE HandleListBid(t)
    <2>1. PICK q : q = Quoted(t)
      OBVIOUS
    <2>2. PICK r : r = [task[t] EXCEPT !.step = "read", !.via = "text", !.quoted = q]
      OBVIOUS
    <2>3. task' = [task EXCEPT ![t] = r]
      BY <1>4, <2>1, <2>2 DEF HandleListBid, Typed, StoresTyped
    <2>4. r.step = "read" /\ r.m = task[t].m /\ r.via = "text"
      BY <1>0, <2>2 DEF TaskRow
    <2>5. task[t].step \in {"resolve", "transcribe"}
      BY <1>4 DEF HandleListBid, ToList, Arrived
    <2>. QED  BY <1>4, <2>3, <2>4, <2>5 DEF Advances, Holding, Holds, HandleListBid
  <1>5. CASE Confirm(t)
    <2>1. PICK taken : taken = confirmation[Key(t)]
      OBVIOUS
    <2>2. PICK r : r = [task[t] EXCEPT !.step = "read", !.via = "confirmed", !.id = taken.id,
                                       !.item = taken.item, !.amount = taken.amount]
      OBVIOUS
    <2>3. task' = [task EXCEPT ![t] = r]
      BY <1>5, <2>1, <2>2 DEF Confirm, Typed, StoresTyped
    <2>4. r.step = "read" /\ r.m = task[t].m
      BY <1>0, <2>2 DEF TaskRow
    <2>5. task[t].step \in {"resolve", "transcribe"}
      BY <1>5 DEF Confirm, Answers, ToList, Arrived
    <2>. QED  BY <1>5, <2>3, <2>4, <2>5 DEF Advances, Confirm
  <1>6. CASE ReadSnapshot(t)
    <2>2. PICK r : r = [task[t] EXCEPT !.step = "snapshot", !.snap = auction]
      OBVIOUS
    <2>3. task' = [task EXCEPT ![t] = r]
      BY <1>6, <2>2 DEF ReadSnapshot, Typed, StoresTyped
    <2>4. r.step = "snapshot" /\ r.m = task[t].m /\ r.via = task[t].via /\ r.id = task[t].id
      BY <1>0, <2>2 DEF TaskRow
    <2>. QED  BY <1>6, <2>3, <2>4 DEF Advances, Holding, Holds, ReadSnapshot, history
  <1>7. CASE PlaceCited(t) \/ registerConfirmedBid(t)
    <2>1. /\ End(t) \/ Goto(t, "place")
          /\ task[t].step = "snapshot" /\ log' = log /\ forgotten' = forgotten
      BY <1>7 DEF PlaceCited, registerConfirmedBid, FromSnapshot, PlaceOrEnd, history
    <2>. QED  BY <2>1, EndAdvances, GotoAdvances
  <1>8. CASE PlaceAnswered(t)
    <2>2. PICK item, amount : item = (CHOOSE i \in Numbered(Amount[itemAnswer(Message(t))[1]]) : TRUE) /\ amount = question[Key(t)].amount
      OBVIOUS
    <2>4. PICK r : r = IF IsOpen(t, item)
                       THEN [task[t] EXCEPT !.step = "place", !.via = "answered", !.item = item, !.amount = amount]
                       ELSE Idle
      OBVIOUS
    <2>5. task' = [task EXCEPT ![t] = r]
      BY <1>8, <2>2, <2>4 DEF PlaceAnswered, Typed, StoresTyped
    <2>6. r = Idle \/ (r.step = "place" /\ r.m = task[t].m /\ r.via = "answered")
      BY <1>0, <2>4 DEF TaskRow
    <2>. QED  BY <1>8, <2>5, <2>6, IdleHolds DEF Advances, Holding, Holds, PlaceAnswered, FromSnapshot, history
  <1>9. CASE Interpret(t)
    <2>1. PICK r : task' = [task EXCEPT ![t] = r] /\ (r = Idle \/ Interpreted(t, r))
      BY <1>9, InterpretIs
    <2>2. r = Idle \/ (r.step # "idle" /\ r.m = task[t].m /\ r.via # "confirmed")
      BY <2>1 DEF Interpreted
    <2>. QED  BY <1>9, <2>1, <2>2, IdleHolds DEF Advances, Holding, Holds, Interpret, FromSnapshot, history
  <1>10. CASE Place(t) \/ Record(t)
    <2>1. /\ log' = log /\ forgotten' = forgotten
          /\ \/ task[t].step = "place" /\ Goto(t, "record")
             \/ task[t].step = "record" /\ Goto(t, "react")
      BY <1>10 DEF Place, Record, history
    <2>. QED  BY <2>1, GotoAdvances
  <1>. QED  BY <1>1, <1>2, <1>3, <1>4, <1>5, <1>6, <1>7, <1>8, <1>9, <1>10 DEF Work

-----------------------------------------------------------------------------
(***************************************************************************)
(* A message and its bid.                                                  *)
(***************************************************************************)
\* Of the tasks, only t moves.
LEMMA OtherTasks ==
  ASSUME Typed, NEW t \in Tasks, NEW r, task' = [task EXCEPT ![t] = r]
  PROVE  task'[t] = r /\ \A u \in Tasks \ {t} : task'[u] = task[u]
  BY DEF Typed, StoresTyped

LEMMA OneTaskWork == ASSUME Typed, OneTask, NEW t \in Tasks, Work(t) PROVE OneTask'
  <1>1. PICK r : Advances(t, r)
    BY WorkAdvances
  <1>2. task'[t] = r /\ \A u \in Tasks \ {t} : task'[u] = task[u]
    BY <1>1, OtherTasks DEF Advances
  <1>3. \A u, v \in Tasks :
           task'[u].step # "idle" /\ task'[v].step # "idle" /\ task'[u].m = task'[v].m /\ task'[u].m \notin forgotten'
           => u = v
    BY <1>1, <1>2 DEF Advances, OneTask
  <1>4. CASE bids' = bids
    <2>1. \A u \in Tasks, k \in DOMAIN bids :
             task'[u].step # "idle" /\ task'[u].m = bids[k].m /\ task'[u].m \notin forgotten
             => task'[u].step \in {"record", "react"}
      BY <1>1, <1>2 DEF Advances, OneTask
    <2>. QED  BY <1>1, <1>3, <1>4, <2>1 DEF Advances, OneTask
  <1>5. CASE Place(t)
    <2>1. bids \in Seq(BidRow) /\ Len(bids) \in Nat /\ task[t].m \in DOMAIN log /\ task[t].step = "place"
      BY <1>5 DEF Place, Typed, HistoryTyped, TaskTyped
    <2>2. PICK bid : bids' = Append(bids, bid) /\ bid.m = task[t].m
      BY <1>5 DEF Place
    <2>3. /\ DOMAIN bids' = DOMAIN bids \cup {Len(bids) + 1} /\ bids'[Len(bids) + 1] = bid
          /\ \A k \in DOMAIN bids : bids'[k] = bids[k] /\ k # Len(bids) + 1
      BY <2>1, <2>2
    <2>4. \A k \in DOMAIN bids : bids[k].m = bid.m => bid.m \in forgotten
      BY <2>1, <2>2 DEF OneTask
    <2>5. \A j, k \in DOMAIN bids' : j # k /\ bids'[j].m = bids'[k].m => bids'[j].m \in forgotten
      BY <2>3, <2>4 DEF OneTask
    <2>6. r.step \in {"record", "idle"}
      <3>1. task[t] \in TaskRow /\ task' = [task EXCEPT ![t].step = "record"]
        BY <1>5 DEF Place, Goto, Typed, TaskTyped
      <3>. QED  BY <3>1, <1>2 DEF Typed, StoresTyped, TaskRow
    <2>7. \A u \in Tasks, k \in DOMAIN bids' :
             task'[u].step # "idle" /\ task'[u].m = bids'[k].m /\ task'[u].m \notin forgotten
             => task'[u].step \in {"record", "react"}
      <3> SUFFICES ASSUME NEW u \in Tasks \ {t}, NEW k \in DOMAIN bids',
                          task[u].step # "idle", task[u].m = bids'[k].m, task[u].m \notin forgotten
                   PROVE  task[u].step \in {"record", "react"}
        BY <1>2, <2>6
      <3>1. CASE k \in DOMAIN bids
        BY <3>1, <2>3 DEF OneTask
      <3>2. CASE k = Len(bids) + 1
        BY <3>2, <2>1, <2>2, <2>3 DEF OneTask
      <3>. QED  BY <2>3, <3>1, <3>2
    <2>8. \A k \in DOMAIN bids' : bids'[k].m \in DOMAIN log
      BY <2>1, <2>2, <2>3 DEF OneTask
    <2>. QED  BY <1>1, <1>3, <2>5, <2>7, <2>8 DEF Advances, OneTask
  <1>6. bids' = bids \/ Place(t)
    BY DEF Work, Lost, Download, transcribeAudioFails, NotOfList, CiteItem, HandleListBid, AnswerExpired, Reject,
       Correct, Confirm, ReadSnapshot, PlaceCited, registerConfirmedBid, PlaceAnswered, Interpret, AskConfirmation,
       AskItem, Refused, Record, React, history
  <1>. QED  BY <1>4, <1>5, <1>6

\* A message comes for the first time, or its mark was lost.
LEMMA OneTaskBegin ==
  ASSUME Typed, OneTask, NEW t \in Tasks, NEW m, Begin(t, m),
         m \notin DOMAIN log \/ m \in forgotten, forgotten' = forgotten, bids' = bids,
         DOMAIN log \subseteq DOMAIN log'
  PROVE  OneTask'
  <1>1. PICK r : r = [Idle EXCEPT !.m = m, !.step = "resolve"]
    OBVIOUS
  <1>2. r.m = m
    BY <1>1 DEF Idle
  <1>3. task'[t] = r /\ \A u \in Tasks \ {t} : task'[u] = task[u]
    BY <1>1, OtherTasks DEF Begin
  <1>4. \A u \in Tasks : task[u].step # "idle" /\ task[u].m \notin forgotten => task[u].m # m
    BY DEF Typed, TaskTyped
  <1>5. \A k \in DOMAIN bids : bids[k].m = m => m \in forgotten
    BY DEF OneTask
  <1>6. \A u, v \in Tasks :
           task'[u].step # "idle" /\ task'[v].step # "idle" /\ task'[u].m = task'[v].m /\ task'[u].m \notin forgotten
           => u = v
    BY <1>2, <1>3, <1>4 DEF OneTask
  <1>7. \A u \in Tasks, k \in DOMAIN bids :
           task'[u].step # "idle" /\ task'[u].m = bids[k].m /\ task'[u].m \notin forgotten
           => task'[u].step \in {"record", "react"}
    BY <1>2, <1>3, <1>5 DEF OneTask
  <1>. QED  BY <1>6, <1>7 DEF OneTask

LEMMA OneTaskNext == ASSUME Typed, OneTask, [Next]_vars PROVE OneTask'
  <1>1. ASSUME NEW t \in Tasks, Work(t) PROVE OneTask'
    BY <1>1, OneTaskWork
  <1>2. ASSUME NEW t \in Tasks, Deliver(t) PROVE OneTask'
    <2>1. PICK msg : log' = Append(log, msg)
      BY <1>2 DEF Deliver
    <2>2. Len(log) + 1 \notin DOMAIN log /\ DOMAIN log \subseteq DOMAIN log'
      BY <2>1 DEF Typed, HistoryTyped
    <2>. QED  BY <1>2, <2>2, OneTaskBegin DEF Deliver
  <1>3. ASSUME NEW t \in Tasks, NEW m \in DOMAIN log, Redeliver(t, m) PROVE OneTask'
    <2>1. m \in forgotten
      BY <1>3 DEF Redeliver, Fresh, Typed, HistoryTyped
    <2>. QED  BY <1>3, <2>1, OneTaskBegin DEF Redeliver, history
  <1>4. ASSUME NEW m \in DOMAIN log, DropMark(m) PROVE OneTask'
    BY <1>4 DEF DropMark, OneTask
  <1>5. CASE \/ \E s \in Senders : ExpireQuestion(s) \/ ExpireConfirmation(s)
             \/ \E i \in Items : AgeContext(i) \/ CloseItem(i) \/ RemoveLeader(i)
             \/ CloseList \/ SweepReplyBindings \/ UNCHANGED vars
    BY <1>5 DEF OneTask, ExpireQuestion, ExpireConfirmation, AgeContext, CloseItem, RemoveLeader, CloseList,
       SweepReplyBindings, vars, history
  <1>6. CASE Restart
    BY <1>6 DEF Restart, OneTask, Idle
  <1>. QED  BY <1>1, <1>2, <1>3, <1>4, <1>5, <1>6 DEF Next

LEMMA OneTaskInit == ASSUME Init PROVE OneTask
  BY DEF Init, OneTask, Idle

-----------------------------------------------------------------------------
(***************************************************************************)
(* A confirmation and its outcome.                                         *)
(***************************************************************************)
\* What is held is what was held.
SameHeld == /\ \A u \in Tasks : Holds(task'[u]) => Holds(task[u]) /\ task'[u].id = task[u].id
            /\ asked' = asked \/ \E a : asked' = Append(asked, a)
FewerAsked == \A s \in Senders : confirmation'[s] \in {confirmation[s], NoConfirmation}

LEMMA AskedGrows ==
  ASSUME Typed, asked' = asked \/ \E a : asked' = Append(asked, a)
  PROVE  DOMAIN asked \subseteq DOMAIN asked'
  BY DEF Typed, HistoryTyped

LEMMA AnswerSame ==
  ASSUME Typed, OneAnswer, SameHeld, FewerAsked, outcomes' = outcomes
  PROVE  OneAnswer'
  <1>1. DOMAIN asked \subseteq DOMAIN asked'
    BY AskedGrows DEF SameHeld
  <1>. QED  BY <1>1 DEF OneAnswer, SameHeld, FewerAsked, NoOutcome

LEMMA HeldByWork ==
  ASSUME Typed, NEW t \in Tasks, Work(t), ~Confirm(t), asked' = asked \/ \E a : asked' = Append(asked, a)
  PROVE  SameHeld
  <1>1. PICK r : Advances(t, r) /\ Holding(t, r)
    BY WorkAdvances
  <1>2. task'[t] = r /\ \A u \in Tasks \ {t} : task'[u] = task[u]
    BY <1>1, OtherTasks DEF Advances
  <1>. QED  BY <1>1, <1>2 DEF Holding, SameHeld

\* The confirmation of a participant and what becomes of the others when one is asked.
LEMMA CreatedIs ==
  ASSUME Typed, NEW s \in Senders, NEW item \in Items, NEW amount \in Nat, CreateConfirmation(s, item, amount)
  PROVE  /\ confirmation'[s].id = Len(asked) + 1 /\ confirmation'[s].item = item /\ confirmation'[s].amount = amount
         /\ \A r \in Senders \ {s} : confirmation'[r] \in {confirmation[r], NoConfirmation}
         /\ asked' = Append(asked, [to |-> s, item |-> item, amount |-> amount])
  <1>1. PICK new : new = [id |-> Len(asked) + 1, item |-> item, amount |-> amount, live |-> TRUE]
    OBVIOUS
  <1>2. confirmation' = [r \in Senders |-> IF r = s THEN new
                            ELSE IF confirmation[r].live THEN confirmation[r] ELSE NoConfirmation]
    BY <1>1 DEF CreateConfirmation, cleanupExpired, Typed, StoresTyped, ConfirmationTyped
  <1>3. new.id = Len(asked) + 1 /\ new.item = item /\ new.amount = amount
    BY <1>1
  <1>4. confirmation'[s] = new /\ \A r \in Senders \ {s} : confirmation'[r] \in {confirmation[r], NoConfirmation}
    BY <1>2
  <1>. QED  BY <1>3, <1>4 DEF CreateConfirmation

\* A new confirmation, which may take the place of one that is corrected.
LEMMA AnswerCreate ==
  ASSUME Typed, OneAnswer, SameHeld, NEW s \in Senders, NEW item \in Items, NEW amount \in Nat,
         CreateConfirmation(s, item, amount),
         \/ outcomes' = outcomes
         \/ confirmation[s] # NoConfirmation /\ outcomes' = outcomes \cup {<<confirmation[s].id, "corrected">>}
  PROVE  OneAnswer'
  <1>1. PICK n : n = Len(asked) + 1
    OBVIOUS
  <1>2. DOMAIN asked \subseteq DOMAIN asked' /\ n \in DOMAIN asked' /\ n \notin DOMAIN asked
    <2>1. asked \in Seq(Asked) /\ Len(asked) \in Nat
      BY DEF Typed, HistoryTyped
    <2>2. PICK a : asked' = Append(asked, a)
      BY CreatedIs
    <2>. QED  BY <1>1, <2>1, <2>2
  <1>3. PICK old : old = IF outcomes' = outcomes THEN 0 ELSE confirmation[s].id
    OBVIOUS
  <1>4. /\ confirmation'[s].id = n
        /\ \A r \in Senders \ {s} : confirmation'[r] \in {confirmation[r], NoConfirmation}
    BY <1>1, CreatedIs
  <1>5. \A x \in outcomes' : x \in outcomes \/ (x = <<old, "corrected">> /\ x[1] = old /\ confirmation[s] # NoConfirmation /\ old = confirmation[s].id)
    BY <1>3
  <1>6. \A x, y \in outcomes' : x[1] = y[1] => x = y
    BY <1>5 DEF OneAnswer, NoOutcome
  <1>7. \A x \in outcomes' : x[1] \in DOMAIN asked
    BY <1>5 DEF OneAnswer
  <1>8. \A r \in Senders : confirmation'[r] # NoConfirmation =>
            confirmation'[r].id \in DOMAIN asked' /\ \A x \in outcomes' : x[1] # confirmation'[r].id
    <2> SUFFICES ASSUME NEW r \in Senders, confirmation'[r] # NoConfirmation
                 PROVE  confirmation'[r].id \in DOMAIN asked' /\ \A x \in outcomes' : x[1] # confirmation'[r].id
      OBVIOUS
    <2>1. CASE r = s
      BY <2>1, <1>2, <1>4, <1>7
    <2>2. CASE r # s
      <3>1. confirmation'[r] = confirmation[r] /\ confirmation[r].id \in DOMAIN asked
        BY <2>2, <1>4 DEF OneAnswer
      <3>2. \A x \in outcomes : x[1] # confirmation[r].id
        BY <3>1 DEF OneAnswer, NoOutcome
      <3>3. confirmation[s] # NoConfirmation => confirmation[s].id # confirmation[r].id
        BY <2>2, <3>1 DEF OneAnswer
      <3>. QED  BY <1>2, <1>5, <3>1, <3>2, <3>3
    <2>. QED  BY <2>1, <2>2
  <1>9. \A q, r \in Senders : confirmation'[q] # NoConfirmation /\ confirmation'[r] # NoConfirmation
                                /\ confirmation'[q].id = confirmation'[r].id => q = r
    BY <1>2, <1>4 DEF OneAnswer
  <1>10. \A t \in Tasks : Holds(task'[t]) => /\ Holds(task[t]) /\ task'[t].id = task[t].id /\ task'[t].id \in DOMAIN asked
                                               /\ \A x \in outcomes' : x[1] # task'[t].id
    <2> SUFFICES ASSUME NEW t \in Tasks, Holds(task'[t])
                 PROVE  task'[t].id \in DOMAIN asked /\ \A x \in outcomes' : x[1] # task'[t].id
      BY DEF SameHeld
    <2>1. Holds(task[t]) /\ task'[t].id = task[t].id /\ task[t].id \in DOMAIN asked
      BY DEF SameHeld, OneAnswer
    <2>2. \A x \in outcomes : x[1] # task[t].id
      BY <2>1 DEF OneAnswer, NoOutcome
    <2>3. confirmation[s] # NoConfirmation => confirmation[s].id # task[t].id
      BY <2>1 DEF OneAnswer
    <2>. QED  BY <1>5, <2>1, <2>2, <2>3
  <1>11. \A t \in Tasks, r \in Senders :
           Holds(task'[t]) /\ confirmation'[r] # NoConfirmation => task'[t].id # confirmation'[r].id
    BY <1>2, <1>4, <1>10 DEF OneAnswer
  <1>12. \A t, u \in Tasks : Holds(task'[t]) /\ Holds(task'[u]) /\ task'[t].id = task'[u].id => t = u
    BY <1>10 DEF OneAnswer
  <1>. QED  BY <1>2, <1>6, <1>7, <1>8, <1>9, <1>10, <1>11, <1>12 DEF OneAnswer, NoOutcome

\* What has its outcome now is nowhere else.
LEMMA AnswerOutcome ==
  ASSUME OneAnswer, NEW id \in DOMAIN asked, NoOutcome(id), NEW what, outcomes' = outcomes \cup {<<id, what>>},
         asked' = asked,
         \A s \in Senders : confirmation'[s] # NoConfirmation => confirmation'[s] = confirmation[s] /\ confirmation[s].id # id,
         \A u \in Tasks : Holds(task'[u]) => Holds(task[u]) /\ task'[u].id = task[u].id /\ task[u].id # id
  PROVE  OneAnswer'
  <1>1. \A x \in outcomes' : x \in outcomes \/ (x = <<id, what>> /\ x[1] = id)
    OBVIOUS
  <1>2. /\ \A x, y \in outcomes' : x[1] = y[1] => x = y
        /\ \A x \in outcomes' : x[1] \in DOMAIN asked
    BY <1>1 DEF OneAnswer, NoOutcome
  <1>3. \A j : NoOutcome(j) /\ j # id => \A x \in outcomes' : x[1] # j
    BY <1>1 DEF NoOutcome
  <1>4. \A s \in Senders : confirmation'[s] # NoConfirmation =>
            confirmation'[s].id \in DOMAIN asked /\ \A x \in outcomes' : x[1] # confirmation'[s].id
    BY <1>3 DEF OneAnswer
  <1>5. \A u \in Tasks : Holds(task'[u]) => task'[u].id \in DOMAIN asked /\ \A x \in outcomes' : x[1] # task'[u].id
    BY <1>3 DEF OneAnswer
  <1>6. /\ \A q, r \in Senders : confirmation'[q] # NoConfirmation /\ confirmation'[r] # NoConfirmation
                                   /\ confirmation'[q].id = confirmation'[r].id => q = r
        /\ \A t \in Tasks, r \in Senders :
                Holds(task'[t]) /\ confirmation'[r] # NoConfirmation => task'[t].id # confirmation'[r].id
        /\ \A t, u \in Tasks : Holds(task'[t]) /\ Holds(task'[u]) /\ task'[t].id = task'[u].id => t = u
    BY DEF OneAnswer
  <1>. QED  BY <1>2, <1>4, <1>5, <1>6 DEF OneAnswer, NoOutcome

LEMMA AnswerReject == ASSUME Typed, OneAnswer, NEW t \in Tasks, Reject(t) PROVE OneAnswer'
  <1>1. PICK s, id : s = Key(t) /\ id = confirmation[s].id
    OBVIOUS
  <1>2. s \in Senders /\ confirmation[s] # NoConfirmation /\ id \in DOMAIN asked /\ NoOutcome(id)
    BY <1>1, KeyIs, Arriving DEF Reject, Answers, OneAnswer, Response
  <1>3. /\ confirmation'[s] = NoConfirmation
        /\ \A r \in Senders \ {s} : confirmation'[r] = confirmation[r]
        /\ outcomes' = outcomes \cup {<<id, "cancelled">>} /\ asked' = asked
    BY <1>1, <1>2 DEF Reject, Take, Outcome, Typed, StoresTyped, ConfirmationTyped
  <1>4. SameHeld
    BY <1>3, HeldByWork DEF Work, Reject, Answers, Confirm
  <1>5. \A r \in Senders : confirmation'[r] # NoConfirmation => confirmation'[r] = confirmation[r] /\ confirmation[r].id # id
    BY <1>1, <1>2, <1>3 DEF OneAnswer
  <1>6. \A u \in Tasks : Holds(task'[u]) => Holds(task[u]) /\ task'[u].id = task[u].id /\ task[u].id # id
    BY <1>1, <1>2, <1>4 DEF OneAnswer, SameHeld
  <1>. QED  BY <1>2, <1>3, <1>5, <1>6, AnswerOutcome

LEMMA AnswerConfirm == ASSUME Typed, OneAnswer, NEW t \in Tasks, Confirm(t) PROVE OneAnswer'
  <1>1. PICK s, taken : s = Key(t) /\ taken = confirmation[s]
    OBVIOUS
  <1>2. s \in Senders /\ taken # NoConfirmation /\ taken.id \in DOMAIN asked /\ NoOutcome(taken.id)
    BY <1>1, KeyIs, Arriving DEF Confirm, Answers, OneAnswer, Response
  <1>3. /\ confirmation'[s] = NoConfirmation
        /\ \A r \in Senders \ {s} : confirmation'[r] = confirmation[r]
        /\ outcomes' = outcomes /\ asked' = asked
    BY <1>1, <1>2 DEF Confirm, Take, Typed, StoresTyped, ConfirmationTyped
  <1>4. PICK r : r = [task[t] EXCEPT !.step = "read", !.via = "confirmed", !.id = taken.id,
                                     !.item = taken.item, !.amount = taken.amount]
    OBVIOUS
  <1>5. task' = [task EXCEPT ![t] = r]
    BY <1>1, <1>4 DEF Confirm, Typed, StoresTyped
  <1>6. r.id = taken.id
    BY <1>4 DEF Typed, TaskTyped, TaskRow
  <1>7. task'[t].id = taken.id /\ \A u \in Tasks \ {t} : task'[u] = task[u]
    BY <1>5, <1>6, OtherTasks
  <1>8. \A r1 \in Senders : confirmation'[r1] # NoConfirmation => r1 # s /\ confirmation'[r1] = confirmation[r1] /\ confirmation[r1].id # taken.id
    BY <1>1, <1>2, <1>3 DEF OneAnswer
  <1>9. \A u \in Tasks \ {t} : Holds(task[u]) => task[u].id # taken.id
    BY <1>1, <1>2 DEF OneAnswer
  <1>10. \A u \in Tasks : Holds(task'[u]) => task'[u].id \in DOMAIN asked /\ NoOutcome(task'[u].id)
    BY <1>2, <1>7 DEF OneAnswer
  <1>11. \A u, v \in Tasks : Holds(task'[u]) /\ Holds(task'[v]) /\ task'[u].id = task'[v].id => u = v
    BY <1>7, <1>9 DEF OneAnswer
  <1>12. \A u \in Tasks, q \in Senders :
           Holds(task'[u]) /\ confirmation'[q] # NoConfirmation => task'[u].id # confirmation'[q].id
    BY <1>7, <1>8 DEF OneAnswer
  <1>. QED  BY <1>3, <1>8, <1>10, <1>11, <1>12 DEF OneAnswer, NoOutcome

LEMMA AnswerPlace == ASSUME Typed, OneAnswer, NEW t \in Tasks, Place(t) PROVE OneAnswer'
  <1>1. SameHeld /\ FewerAsked /\ asked' = asked
    BY HeldByWork DEF Work, Place, Confirm, Answers, ToList, Arrived, FewerAsked, stores
  <1>2. CASE task[t].via # "confirmed"
    BY <1>1, <1>2, AnswerSame DEF Place
  <1>3. CASE task[t].via = "confirmed"
    <2>1. PICK id : id = task[t].id
      OBVIOUS
    <2>2. outcomes' = outcomes \cup {<<id, "bid">>}
      BY <1>3, <2>1 DEF Place, Outcome
    <2>3. Holds(task[t]) /\ id \in DOMAIN asked /\ NoOutcome(id)
      BY <1>3, <2>1 DEF Place, Holds, OneAnswer
    <2>4. task[t] \in TaskRow /\ task' = [task EXCEPT ![t].step = "record"]
      BY DEF Place, Goto, Typed, TaskTyped
    <2>5. ~Holds(task'[t])
      BY <2>4 DEF Holds, Typed, StoresTyped, TaskRow
    <2>6. \A s \in Senders : confirmation'[s] # NoConfirmation => confirmation'[s] = confirmation[s] /\ confirmation[s].id # id
      BY <1>1, <2>1, <2>3 DEF OneAnswer, FewerAsked
    <2>7. \A u \in Tasks : Holds(task'[u]) => Holds(task[u]) /\ task'[u].id = task[u].id /\ task[u].id # id
      BY <1>1, <2>1, <2>3, <2>5 DEF OneAnswer, SameHeld
    <2>. QED  BY <1>1, <2>2, <2>3, <2>6, <2>7, AnswerOutcome
  <1>. QED  BY <1>2, <1>3

LEMMA AnswerCorrect == ASSUME Typed, OneAnswer, NEW t \in Tasks, Correct(t) PROVE OneAnswer'
  <1>1. Key(t) \in Senders /\ Text(t) \in Seq(STRING)
    BY KeyIs, Arriving DEF Correct, Answers
  <1>2. confirmation[Key(t)] # NoConfirmation /\ parseConfirmationResponse(Text(t)).kind = "correction"
    BY DEF Correct, Answers, Response
  <1>3. PICK s, item, amount : s = Key(t) /\ item = confirmation[s].item /\ amount = parseConfirmationResponse(Text(t)).amount
    OBVIOUS
  <1>4. s \in Senders /\ item \in Items /\ amount \in Nat
    BY <1>1, <1>2, <1>3, CorrectionTyped DEF Typed, StoresTyped, ConfirmationTyped
  <1>5. CreateConfirmation(s, item, amount) /\ outcomes' = outcomes \cup {<<confirmation[s].id, "corrected">>}
    BY <1>3 DEF Correct, Outcome
  <1>6. \E a : asked' = Append(asked, a)
    BY <1>4, <1>5, CreatedIs
  <1>7. SameHeld
    BY <1>6, HeldByWork DEF Work, Correct, Answers, Confirm
  <1>. QED  BY <1>2, <1>3, <1>4, <1>5, <1>7, AnswerCreate

LEMMA AnswerAskConfirmation == ASSUME Typed, OneAnswer, NEW t \in Tasks, AskConfirmation(t) PROVE OneAnswer'
  <1>1. Key(t) \in Senders /\ task[t].item \in Items /\ task[t].amount \in Nat
    BY KeyIs DEF AskConfirmation, Typed, TaskTyped, TaskRow
  <1>2. CreateConfirmation(Key(t), task[t].item, task[t].amount) /\ outcomes' = outcomes
    BY DEF AskConfirmation
  <1>3. \E a : asked' = Append(asked, a)
    BY <1>1, <1>2, CreatedIs
  <1>4. SameHeld
    BY <1>3, HeldByWork DEF Work, AskConfirmation, Confirm, Answers, ToList, Arrived
  <1>. QED  BY <1>1, <1>2, <1>4, AnswerCreate

LEMMA AnswerAskItem == ASSUME Typed, OneAnswer, NEW t \in Tasks, AskItem(t) PROVE OneAnswer'
  <1>1. Key(t) \in Senders
    BY KeyIs DEF AskItem
  <1>2. FewerAsked
    BY <1>1 DEF AskItem, Take, FewerAsked, Typed, StoresTyped, ConfirmationTyped
  <1>3. SameHeld /\ outcomes' = outcomes
    BY HeldByWork DEF Work, AskItem, Confirm, Answers, ToList, Arrived, history
  <1>. QED  BY <1>2, <1>3, AnswerSame

LEMMA AnswerWork == ASSUME Typed, OneAnswer, NEW t \in Tasks, Work(t) PROVE OneAnswer'
  <1>1. CASE Reject(t) \/ Correct(t) \/ Confirm(t) \/ Place(t) \/ AskConfirmation(t) \/ AskItem(t)
    BY <1>1, AnswerReject, AnswerCorrect, AnswerConfirm, AnswerPlace, AnswerAskConfirmation, AnswerAskItem
  <1>2. CASE ~(Reject(t) \/ Correct(t) \/ Confirm(t) \/ Place(t) \/ AskConfirmation(t) \/ AskItem(t))
    <2>1. outcomes' = outcomes /\ asked' = asked
      BY <1>2 DEF Work, Lost, Download, transcribeAudioFails, NotOfList, CiteItem, HandleListBid, AnswerExpired,
         ReadSnapshot, PlaceCited, registerConfirmedBid, PlaceAnswered, Interpret, Refused, Record, React, history
    <2>. QED  BY <1>2, <2>1, HeldByWork, FewerByWork, AnswerSame DEF Fewer, FewerAsked
  <1>. QED  BY <1>1, <1>2

LEMMA AnswerBegin ==
  ASSUME Typed, NEW t \in Tasks, NEW m, Begin(t, m), asked' = asked
  PROVE  SameHeld
  <1>1. PICK r : r = [Idle EXCEPT !.m = m, !.step = "resolve"]
    OBVIOUS
  <1>2. ~Holds(r)
    BY <1>1 DEF Idle, Holds
  <1>3. task'[t] = r /\ \A u \in Tasks \ {t} : task'[u] = task[u]
    BY <1>1, OtherTasks DEF Begin
  <1>. QED  BY <1>2, <1>3 DEF SameHeld

LEMMA AnswerNext == ASSUME Typed, OneAnswer, [Next]_vars PROVE OneAnswer'
  <1>1. ASSUME NEW t \in Tasks, Work(t) PROVE OneAnswer'
    BY <1>1, AnswerWork
  <1>2. ASSUME NEW t \in Tasks, NEW m, Begin(t, m), UNCHANGED <<asked, outcomes, confirmation>> PROVE OneAnswer'
    BY <1>2, AnswerBegin, AnswerSame DEF FewerAsked
  <1>3. ASSUME NEW s \in Senders, ExpireConfirmation(s) PROVE OneAnswer'
    <2>1. confirmation[s] # NoConfirmation /\ task' = task /\ asked' = asked /\ outcomes' = outcomes
      BY <1>3 DEF ExpireConfirmation, NoConfirmation, history
    <2>2. /\ confirmation'[s].id = confirmation[s].id
          /\ \A r \in Senders \ {s} : confirmation'[r] = confirmation[r]
      BY <1>3 DEF ExpireConfirmation, Typed, StoresTyped, ConfirmationTyped
    <2>. QED  BY <2>1, <2>2 DEF OneAnswer, NoOutcome
  <1>4. CASE \/ \E m \in DOMAIN log : DropMark(m)
             \/ \E s \in Senders : ExpireQuestion(s)
             \/ \E i \in Items : AgeContext(i) \/ CloseItem(i) \/ RemoveLeader(i)
             \/ CloseList \/ SweepReplyBindings \/ UNCHANGED vars
    BY <1>4, AnswerSame DEF SameHeld, FewerAsked, DropMark, ExpireQuestion, AgeContext, CloseItem, RemoveLeader,
       CloseList, SweepReplyBindings, vars, stores, history
  <1>5. CASE Restart
    BY <1>5, AnswerSame, IdleHolds DEF Restart, SameHeld, FewerAsked
  <1>6. ASSUME NEW t \in Tasks, Deliver(t) PROVE OneAnswer'
    BY <1>2, <1>6 DEF Deliver, stores
  <1>7. ASSUME NEW t \in Tasks, NEW m \in DOMAIN log, Redeliver(t, m) PROVE OneAnswer'
    BY <1>2, <1>7 DEF Redeliver, stores, history
  <1>. QED  BY <1>1, <1>3, <1>4, <1>5, <1>6, <1>7 DEF Next

LEMMA AnswerInit == ASSUME Init PROVE OneAnswer
  BY IdleHolds DEF Init, OneAnswer

-----------------------------------------------------------------------------
(***************************************************************************)
(* What was said, asked and bid stays so.                                  *)
(***************************************************************************)
\* What was said, asked and bid stays so, and what is lost stays lost.
Later == /\ log' = log \/ \E x : log' = Append(log, x)
         /\ asked' = asked \/ \E x : asked' = Append(asked, x)
         /\ bids' = bids \/ \E x : bids' = Append(bids, x)
         /\ forgotten \subseteq forgotten' /\ unbound \subseteq unbound'

LEMMA AppendKeeps ==
  ASSUME NEW T, NEW s \in Seq(T), NEW u, u = s \/ \E x : u = Append(s, x)
  PROVE  DOMAIN s \subseteq DOMAIN u /\ \A m \in DOMAIN s : u[m] = s[m]
  OBVIOUS

LEMMA LaterIs ==
  ASSUME Typed, Later
  PROVE  /\ DOMAIN log \subseteq DOMAIN log' /\ \A m \in DOMAIN log : log'[m] = log[m]
         /\ DOMAIN asked \subseteq DOMAIN asked' /\ \A m \in DOMAIN asked : asked'[m] = asked[m]
         /\ DOMAIN bids \subseteq DOMAIN bids' /\ \A m \in DOMAIN bids : bids'[m] = bids[m]
         /\ forgotten \subseteq forgotten' /\ unbound \subseteq unbound'
  <1>1. log \in Seq(Sent) /\ asked \in Seq(Asked) /\ bids \in Seq(BidRow)
    BY DEF Typed, HistoryTyped
  <1>. QED  BY <1>1, AppendKeeps, Zenon DEF Later

LEMMA QuotedLater ==
  ASSUME Typed, Later, NEW i, NEW q, QuotedIs(i, q)
  PROVE  QuotedIs(i, q)'
  BY LaterIs DEF QuotedIs

LEMMA SaidLater ==
  ASSUME Typed, Later, NEW m, NEW s, NEW amount, Said(m, s, amount)
  PROVE  Said(m, s, amount)'
  BY LaterIs DEF Said

LEMMA OutBidLater ==
  ASSUME Typed, Later, NEW i, NEW amount, OutBid(i, amount)
  PROVE  OutBid(i, amount)'
  BY LaterIs DEF OutBid

LEMMA TaskQuotedLater ==
  ASSUME Typed, Later, NEW r, r.m \in DOMAIN log, TaskQuoted(r)
  PROVE  TaskQuoted(r)'
  BY LaterIs, QuotedLater DEF TaskQuoted

LEMMA TaskLater ==
  ASSUME Typed, Later, NEW r, r.step # "idle" => r.m \in DOMAIN log, TaskSourced(r)
  PROVE  TaskSourced(r)'
  <1> SUFFICES ASSUME r.step # "idle" PROVE TaskQuoted(r)' /\ TaskSays(r)'
    BY DEF TaskSourced
  <1>1. r.m \in DOMAIN log /\ log'[r.m] = log[r.m] /\ TaskQuoted(r) /\ TaskSays(r)
    BY LaterIs DEF TaskSourced
  <1>2. TaskQuoted(r)'
    BY <1>1, TaskQuotedLater
  <1>3. SaysCited(r) => SaysCited(r)'
    BY <1>1 DEF SaysCited
  <1>4. SaysConfirmed(r) => SaysConfirmed(r)'
    BY <1>1, LaterIs DEF SaysConfirmed
  <1>5. SaysAnswered(r) => SaysAnswered(r)'
    <2>1. NamesItem(log[r.m], r.item) => NamesItem(log'[r.m], r.item)
      BY <1>1
    <2>. QED  BY <1>1, <2>1, LaterIs, SaidLater DEF SaysAnswered
  <1>6. SaysItself(r) => SaysItself(r)'
    BY <1>1, OutBidLater DEF SaysItself
  <1>7. r.step = "clarify" => r.amount = Understood(log'[r.m]).amount
    BY <1>1 DEF TaskSays
  <1>8. r.step \in {"record", "react"}
        => \E j \in DOMAIN bids' : bids'[j].m = r.m /\ bids'[j].item = r.item /\ bids'[j].amount = r.amount
    BY <1>1, LaterIs DEF TaskSays
  <1>. QED  BY <1>1, <1>2, <1>3, <1>4, <1>5, <1>6, <1>7, <1>8 DEF TaskSays

LEMMA BidLater ==
  ASSUME Typed, OneTask, Later, NEW k \in DOMAIN bids, BidSourced(k)
  PROVE  BidSourced(k)'
  <1>1. PICK bid : bid = bids[k]
    OBVIOUS
  <1>2. bids'[k] = bid /\ bid.m \in DOMAIN log /\ log'[bid.m] = log[bid.m]
    BY <1>1, LaterIs DEF OneTask
  <1>3. bids \in Seq(BidRow) /\ 1 .. k - 1 \subseteq DOMAIN bids
    BY DEF Typed, HistoryTyped
  <1>4. PICK msg, p : msg = log[bid.m] /\ p = Understood(msg)
    OBVIOUS
  <1>5. (bid.via = "confirmed" => bid.id \in DOMAIN asked) /\ Sourced(k, bid, msg, p) /\ QuotedRight(bid, msg.quotes)
    BY <1>1, <1>4 DEF BidSourced
  <1>6. bid.via = "confirmed" => bid.id \in DOMAIN asked'
    BY <1>5, LaterIs
  <1>7. Sourced(k, bid, msg, p)'
    <2>1. CASE bid.via = "confirmed"
      BY <1>5, <2>1, LaterIs DEF Sourced
    <2>2. CASE bid.via = "answered"
      BY <1>5, <2>2, LaterIs DEF Sourced
    <2>3. CASE bid.via \notin {"confirmed", "answered"}
      BY <1>3, <1>5, <2>3, LaterIs DEF Sourced
    <2>. QED  BY <2>1, <2>2, <2>3
  <1>8. QuotedRight(bid, msg.quotes)'
    BY <1>5, LaterIs DEF QuotedRight
  <1>. QED  BY <1>2, <1>4, <1>6, <1>7, <1>8 DEF BidSourced

-----------------------------------------------------------------------------
(***************************************************************************)
(* What a task becomes says what somebody said.                            *)
(***************************************************************************)
\* The item of a quoted message.
LEMMA ReplyIs ==
  ASSUME Typed, RepliesSourced, NEW q
  PROVE  /\ getReplyContext(q) # None => QuotedIs(getReplyContext(q), q)
         /\ q \in {Card(i) : i \in Items} \ unbound => getReplyContext(q) # None
  <1>0. \A k \in DOMAIN bound : bound[k] \in Binding
    BY DEF Typed, StoresTyped
  <1>1. \A k \in DOMAIN bound : bound[k].item # None
    BY <1>0, ConversationAssumption DEF Binding
  <1>2. CASE q \notin Messages(bound)
    BY <1>2 DEF getReplyContext, RepliesSourced
  <1>3. CASE q \in Messages(bound)
    <2>1. \E k \in DOMAIN bound : bound[k].message = q
      BY <1>3 DEF Messages
    <2>2. PICK k : k = (CHOOSE j \in DOMAIN bound : bound[j].message = q)
      OBVIOUS
    <2>3. k \in DOMAIN bound /\ bound[k].message = q
      BY <2>1, <2>2
    <2>4. getReplyContext(q) = bound[k].item
      BY <1>3, <2>2 DEF getReplyContext
    <2>. QED  BY <1>1, <2>3, <2>4 DEF RepliesSourced
  <1>. QED  BY <1>2, <1>3

LEMMA QuotedOf ==
  ASSUME Typed, RepliesSourced, NEW t \in Tasks, ToList(t), TaskSourced(task[t])
  PROVE  /\ Quoted(t) # None => QuotedIs(Quoted(t), log[task[t].m].quotes)
         /\ log[task[t].m].quotes \in {Card(i) : i \in Items} \ unbound => Quoted(t) # None
  <1>1. CASE ~IsAudio(Message(t))
    BY <1>1, ReplyIs DEF Quoted, Message
  <1>2. CASE IsAudio(Message(t))
    <2>1. task[t].step = "transcribe" /\ Quoted(t) = task[t].quoted
      BY <1>2 DEF ToList, Arrived, Quoted
    <2>. QED  BY <2>1 DEF TaskSourced, TaskQuoted
  <1>. QED  BY <1>1, <1>2

LEMMA IdleSourced == TaskSourced(Idle) /\ TaskSourced(Idle)'
  BY DEF TaskSourced, Idle

LEMMA SourcedDownload ==
  ASSUME Typed, RepliesSourced, NEW t \in Tasks, TaskSourced(task[t]), Download(t)
  PROVE  \E r : task' = [task EXCEPT ![t] = r] /\ TaskSourced(r)
  <1>1. PICK q : q = getReplyContext(Message(t).quotes)
    OBVIOUS
  <1>2. PICK r : r = [task[t] EXCEPT !.step = "transcribe", !.quoted = q]
    OBVIOUS
  <1>3. task' = [task EXCEPT ![t] = r]
    BY <1>1, <1>2 DEF Download, Typed, StoresTyped
  <1>4. r.step = "transcribe" /\ r.m = task[t].m /\ r.quoted = q
    BY <1>2 DEF Typed, TaskTyped, TaskRow
  <1>5. TaskQuoted(r)
    BY <1>1, <1>4, ReplyIs DEF TaskQuoted, Message
  <1>. QED  BY <1>3, <1>4, <1>5 DEF TaskSourced, TaskSays

LEMMA SourcedCiteItem ==
  ASSUME Typed, RepliesSourced, NEW t \in Tasks, TaskSourced(task[t]), CiteItem(t)
  PROVE  \E r : task' = [task EXCEPT ![t] = r] /\ TaskSourced(r)
  <1>1. PICK a, q : a = Amount[Text(t)[1]] /\ q = Quoted(t)
    OBVIOUS
  <1>2. PICK r : r = [task[t] EXCEPT !.step = "read", !.via = "cited", !.quoted = q, !.item = q, !.amount = a]
    OBVIOUS
  <1>3. task' = [task EXCEPT ![t] = r]
    BY <1>1, <1>2 DEF CiteItem, Typed, StoresTyped
  <1>4. r.step = "read" /\ r.via = "cited" /\ r.m = task[t].m /\ r.quoted = q /\ r.item = q /\ r.amount = a
    BY <1>2 DEF Typed, TaskTyped, TaskRow
  <1>5. TaskQuoted(r)
    BY <1>1, <1>4, QuotedOf DEF TaskQuoted, CiteItem
  <1>6. SaysCited(r)
    <2>1. Text(t) = Heard(log[r.m]) /\ Text(t) \in Seq(STRING)
      BY <1>4, KeyIs, Arriving DEF CiteItem
    <2>2. Len(Text(t)) = 1 /\ IsAmount(Text(t)[1])
      BY DEF CiteItem, CitesItem
    <2>. QED  BY <1>1, <1>4, <2>1, <2>2, BareAmount DEF SaysCited, Understood
  <1>. QED  BY <1>3, <1>4, <1>5, <1>6 DEF TaskSourced, TaskSays

LEMMA SourcedHandleListBid ==
  ASSUME Typed, RepliesSourced, NEW t \in Tasks, TaskSourced(task[t]), HandleListBid(t)
  PROVE  \E r : task' = [task EXCEPT ![t] = r] /\ TaskSourced(r)
  <1>1. PICK q : q = Quoted(t)
    OBVIOUS
  <1>2. PICK r : r = [task[t] EXCEPT !.step = "read", !.via = "text", !.quoted = q]
    OBVIOUS
  <1>3. task' = [task EXCEPT ![t] = r]
    BY <1>1, <1>2 DEF HandleListBid, Typed, StoresTyped
  <1>4. r.step = "read" /\ r.via = "text" /\ r.m = task[t].m /\ r.quoted = q
    BY <1>2 DEF Typed, TaskTyped, TaskRow
  <1>5. TaskQuoted(r)
    BY <1>1, <1>4, QuotedOf DEF TaskQuoted, HandleListBid
  <1>. QED  BY <1>3, <1>4, <1>5 DEF TaskSourced, TaskSays

LEMMA SourcedConfirm ==
  ASSUME Typed, ConfirmationSourced, NEW t \in Tasks, TaskSourced(task[t]), Confirm(t)
  PROVE  \E r : task' = [task EXCEPT ![t] = r] /\ TaskSourced(r)
  <1>1. PICK taken : taken = confirmation[Key(t)]
    OBVIOUS
  <1>2. PICK r : r = [task[t] EXCEPT !.step = "read", !.via = "confirmed", !.id = taken.id,
                                     !.item = taken.item, !.amount = taken.amount]
    OBVIOUS
  <1>3. task' = [task EXCEPT ![t] = r]
    BY <1>1, <1>2 DEF Confirm, Typed, StoresTyped
  <1>4. /\ r.step = "read" /\ r.via = "confirmed" /\ r.m = task[t].m /\ r.quoted = task[t].quoted
        /\ r.id = taken.id /\ r.item = taken.item /\ r.amount = taken.amount
    BY <1>2 DEF Typed, TaskTyped, TaskRow
  <1>5. ToList(t) /\ task[t].step # "idle"
    BY Arriving DEF Confirm, Answers
  <1>6. TaskQuoted(r)
    BY <1>4, <1>5 DEF TaskSourced, TaskQuoted
  <1>7. SaysConfirmed(r)
    <2>1. Text(t) = Heard(log[r.m]) /\ Key(t) = log[r.m].from /\ Key(t) \in Senders
      BY <1>4, <1>5, KeyIs
    <2>2. taken # NoConfirmation /\ parseConfirmationResponse(Text(t)).kind = "confirm"
      BY <1>1 DEF Confirm, Answers, Response
    <2>. QED  BY <1>1, <1>4, <2>1, <2>2 DEF ConfirmationSourced, SaysConfirmed
  <1>. QED  BY <1>3, <1>4, <1>6, <1>7 DEF TaskSourced, TaskSays

LEMMA SourcedReadSnapshot ==
  ASSUME Typed, NEW t \in Tasks, TaskSourced(task[t]), ReadSnapshot(t)
  PROVE  \E r : task' = [task EXCEPT ![t] = r] /\ TaskSourced(r)
  <1>2. PICK r : r = [task[t] EXCEPT !.step = "snapshot", !.snap = auction]
    OBVIOUS
  <1>3. task' = [task EXCEPT ![t] = r]
    BY <1>2 DEF ReadSnapshot, Typed, StoresTyped
  <1>4. /\ r.step = "snapshot" /\ r.via = task[t].via /\ r.m = task[t].m /\ r.quoted = task[t].quoted
        /\ r.id = task[t].id /\ r.item = task[t].item /\ r.amount = task[t].amount
    BY <1>2 DEF Typed, TaskTyped, TaskRow
  <1>5. TaskQuoted(r)
    BY <1>4 DEF TaskSourced, TaskQuoted, ReadSnapshot
  <1>6. r.via = "cited" => SaysCited(r)
    BY <1>4 DEF TaskSourced, TaskSays, SaysCited, ReadSnapshot
  <1>7. r.via = "confirmed" => SaysConfirmed(r)
    BY <1>4 DEF TaskSourced, TaskSays, SaysConfirmed, ReadSnapshot
  <1>. QED  BY <1>3, <1>4, <1>5, <1>6, <1>7 DEF TaskSourced, TaskSays

LEMMA SourcedGoPlace ==
  ASSUME Typed, NEW t \in Tasks, TaskSourced(task[t]), task[t].step = "snapshot",
         task[t].via \in {"cited", "confirmed"}, PlaceOrEnd(t, task[t].item)
  PROVE  \E r : task' = [task EXCEPT ![t] = r] /\ TaskSourced(r)
  <1>1. CASE End(t)
    BY <1>1, IdleSourced DEF End
  <1>2. CASE Goto(t, "place")
    <2>1. PICK r : r = [task[t] EXCEPT !.step = "place"]
      OBVIOUS
    <2>2. task' = [task EXCEPT ![t] = r]
      BY <1>2, <2>1 DEF Goto, Typed, StoresTyped
    <2>3. /\ r.step = "place" /\ r.via = task[t].via /\ r.m = task[t].m /\ r.quoted = task[t].quoted
          /\ r.id = task[t].id /\ r.item = task[t].item /\ r.amount = task[t].amount
      BY <2>1 DEF Typed, TaskTyped, TaskRow
    <2>5. TaskQuoted(r)
      BY <2>3 DEF TaskSourced, TaskQuoted
    <2>6. r.via = "cited" => SaysCited(r)
      BY <2>3 DEF TaskSourced, TaskSays, SaysCited
    <2>7. r.via = "confirmed" => SaysConfirmed(r)
      BY <2>3 DEF TaskSourced, TaskSays, SaysConfirmed
    <2>. QED  BY <2>2, <2>3, <2>5, <2>6, <2>7 DEF TaskSourced, TaskSays
  <1>. QED  BY <1>1, <1>2 DEF PlaceOrEnd

LEMMA SourcedPlaceAnswered ==
  ASSUME Typed, QuestionSourced, NEW t \in Tasks, TaskSourced(task[t]), PlaceAnswered(t)
  PROVE  \E r : task' = [task EXCEPT ![t] = r] /\ TaskSourced(r)
  <1>1. PICK item, amount : item = (CHOOSE i \in Numbered(Amount[itemAnswer(Message(t))[1]]) : TRUE) /\ amount = question[Key(t)].amount
    OBVIOUS
  <1>2. PICK r : r = IF IsOpen(t, item)
                     THEN [task[t] EXCEPT !.step = "place", !.via = "answered", !.item = item, !.amount = amount]
                     ELSE Idle
    OBVIOUS
  <1>3. task' = [task EXCEPT ![t] = r]
    BY <1>1, <1>2 DEF PlaceAnswered, Typed, StoresTyped
  <1>4. CASE ~IsOpen(t, item)
    BY <1>2, <1>3, <1>4, IdleSourced
  <1>5. CASE IsOpen(t, item)
    <2>1. r.step = "place" /\ r.via = "answered" /\ r.m = task[t].m /\ r.quoted = task[t].quoted /\ r.amount = amount
      BY <1>2, <1>5 DEF Typed, TaskTyped, TaskRow
    <2>2. task[t].step = "snapshot" /\ question[Key(t)] # NoQuestion
      BY DEF PlaceAnswered, FromSnapshot, AnswersQuestion, NoQuestion
    <2>3. Key(t) = log[r.m].from /\ Key(t) \in Senders
      BY <2>1, <2>2, KeyIs
    <2>4. r.item = item /\ Message(t) = log[r.m]
      BY <1>2, <1>5, <2>1 DEF Message, Typed, TaskTyped, TaskRow
    <2>5. NamesItem(Message(t), item)
      BY <1>1 DEF PlaceAnswered, AnswersQuestion, NamesItem
    <2>6. \E m \in DOMAIN log : (m # r.m \/ r.m \in forgotten) /\ Said(m, log[r.m].from, r.amount)
      BY <1>1, <2>1, <2>2, <2>3 DEF QuestionSourced
    <2>7. SaysAnswered(r)
      BY <2>4, <2>5, <2>6 DEF SaysAnswered
    <2>8. TaskQuoted(r)
      BY <2>1, <2>2 DEF TaskSourced, TaskQuoted
    <2>. QED  BY <1>3, <2>1, <2>7, <2>8 DEF TaskSourced, TaskSays
  <1>. QED  BY <1>4, <1>5

LEMMA SourcedInterpret ==
  ASSUME Typed, ContextSourced, NEW t \in Tasks, TaskSourced(task[t]), Interpret(t)
  PROVE  \E r : task' = [task EXCEPT ![t] = r] /\ TaskSourced(r)
  <1>1. PICK r : task' = [task EXCEPT ![t] = r] /\ (r = Idle \/ Interpreted(t, r))
    BY InterpretIs
  <1>2. CASE r = Idle
    BY <1>1, <1>2, IdleSourced
  <1>3. CASE Interpreted(t, r)
    <2>1. task[t].step = "snapshot" /\ task[t].via = "text" /\ r.m = task[t].m /\ Message(t) = log[r.m]
      BY <1>3 DEF Interpret, FromSnapshot, Interpreted, Message
    <2>2. TaskQuoted(r)
      BY <1>3, <2>1 DEF Interpreted, TaskSourced, TaskQuoted
    <2>3. ASSUME r.step = "place" PROVE SaysItself(r)
      <3>1. /\ r.amount = Understood(log[r.m]).amount /\ ~Muffled(Quality(log[r.m])) /\ r.quoted = task[t].quoted /\ r.item \in Items
            /\ Understood(log[r.m]).item # None => r.item = Understood(log[r.m]).item
            /\ Understood(log[r.m]).item = None /\ r.quoted # None => r.item = r.quoted
            /\ Understood(log[r.m]).item = None /\ r.quoted = None
               => context[r.item].age # "none" /\ context[r.item].amount < r.amount
        BY <1>3, <2>1, <2>3 DEF Interpreted
      <3>2. context[r.item].age # "none" /\ context[r.item].amount < r.amount => OutBid(r.item, r.amount)
        BY <3>1 DEF ContextSourced, OutBid
      <3>. QED  BY <3>1, <3>2 DEF SaysItself
    <2>4. /\ r.step \in {"place", "ask", "clarify"} /\ r.via \in {"text", "quote", "context"}
          /\ r.amount = Understood(log[r.m]).amount
      BY <1>3, <2>1 DEF Interpreted
    <2>. QED  BY <1>1, <2>2, <2>3, <2>4 DEF TaskSourced, TaskSays
  <1>. QED  BY <1>1, <1>2, <1>3

LEMMA LaterByWork == ASSUME Typed, NEW t \in Tasks, Work(t) PROVE Later
  <1>1. CASE Correct(t) \/ AskConfirmation(t)
    <2>1. PICK s, item, amount : CreateConfirmation(s, item, amount)
      BY <1>1 DEF Correct, AskConfirmation
    <2>2. \E x : asked' = Append(asked, x)
      BY <2>1 DEF CreateConfirmation
    <2>. QED  BY <1>1, <2>2 DEF Correct, AskConfirmation, Later, replies
  <1>2. CASE Place(t)
    <2>1. \E x : bids' = Append(bids, x)
      BY <1>2 DEF Place
    <2>. QED  BY <1>2, <2>1 DEF Place, Later, replies
  <1>3. CASE React(t)
    BY <1>3 DEF React, registerReplyContext, Later, history
  <1>4. CASE ~(Correct(t) \/ AskConfirmation(t) \/ Place(t) \/ React(t))
    BY <1>4 DEF Later, Work, Lost, Download, transcribeAudioFails, NotOfList, CiteItem, HandleListBid, AnswerExpired,
       Reject, Confirm, ReadSnapshot, PlaceCited, registerConfirmedBid, PlaceAnswered, Interpret, AskItem, Refused,
       Record, history, replies
  <1>. QED  BY <1>1, <1>2, <1>3, <1>4

LEMMA LaterElse ==
  ASSUME Typed, \/ \E t \in Tasks : Deliver(t)
                \/ \E t \in Tasks : \E m \in DOMAIN log : Redeliver(t, m)
                \/ \E m \in DOMAIN log : DropMark(m)
                \/ \E s \in Senders : ExpireQuestion(s) \/ ExpireConfirmation(s)
                \/ \E i \in Items : AgeContext(i) \/ CloseItem(i) \/ RemoveLeader(i)
                \/ CloseList \/ SweepReplyBindings \/ Restart \/ UNCHANGED vars
  PROVE  Later
  <1>1. CASE Restart
    BY <1>1 DEF Restart, loadReplyContexts, Later, Typed, HistoryTyped
  <1>2. ASSUME NEW t \in Tasks, Deliver(t) PROVE Later
    BY <1>2 DEF Deliver, Later, replies
  <1>3. CASE ~Restart /\ ~\E t \in Tasks : Deliver(t)
    BY <1>3 DEF Later, Redeliver, DropMark, ExpireQuestion, ExpireConfirmation, AgeContext, CloseItem, RemoveLeader,
       CloseList, SweepReplyBindings, vars, history, replies
  <1>. QED  BY <1>1, <1>2, <1>3

-----------------------------------------------------------------------------
(***************************************************************************)
(* The bid that is placed, and the steps that follow.                      *)
(***************************************************************************)
\* The bid that is placed.
LEMMA NewBidIs ==
  ASSUME Typed, NEW t \in Tasks, Place(t)
  PROVE  /\ Len(bids) \in Nat /\ DOMAIN bids' = DOMAIN bids \cup {Len(bids) + 1} /\ 1 .. (Len(bids) + 1) - 1 = DOMAIN bids
         /\ bids'[Len(bids) + 1].m = task[t].m /\ bids'[Len(bids) + 1].item = task[t].item
         /\ bids'[Len(bids) + 1].amount = task[t].amount /\ bids'[Len(bids) + 1].via = task[t].via
         /\ bids'[Len(bids) + 1].id = task[t].id /\ bids'[Len(bids) + 1].quoted = task[t].quoted
  <1>1. bids \in Seq(BidRow)
    BY DEF Typed, HistoryTyped
  <1>2. PICK x : x = [m |-> task[t].m, item |-> task[t].item, amount |-> task[t].amount,
                      via |-> task[t].via, id |-> task[t].id, quoted |-> task[t].quoted]
    OBVIOUS
  <1>3. bids' = Append(bids, x)
    BY <1>2 DEF Place
  <1>4. /\ Len(bids) \in Nat /\ DOMAIN bids' = DOMAIN bids \cup {Len(bids) + 1} /\ bids'[Len(bids) + 1] = x
        /\ DOMAIN bids = 1 .. Len(bids) /\ (Len(bids) + 1) - 1 = Len(bids)
    BY <1>1, <1>3
  <1>5. /\ x.m = task[t].m /\ x.item = task[t].item /\ x.amount = task[t].amount
        /\ x.via = task[t].via /\ x.id = task[t].id /\ x.quoted = task[t].quoted
    BY <1>2
  <1>. QED  BY <1>4, <1>5

LEMMA BidSourcedPlace ==
  ASSUME Typed, NEW t \in Tasks, TaskSourced(task[t]), Place(t), NEW n, n = Len(bids) + 1
  PROVE  BidSourced(n)'
  <1>2. PICK bid : bid = bids'[n]
    OBVIOUS
  <1>3. /\ 1 .. n - 1 = DOMAIN bids
        /\ bid.m = task[t].m /\ bid.item = task[t].item /\ bid.amount = task[t].amount /\ bid.via = task[t].via
        /\ bid.id = task[t].id /\ bid.quoted = task[t].quoted
    BY <1>2, NewBidIs
  <1>4. /\ task[t].step = "place" /\ task[t].via \in {"text", "cited", "confirmed", "answered", "quote", "context"}
        /\ task[t].m \in DOMAIN log
    BY DEF Place, Typed, TaskTyped, TaskRow, Vias
  <1>5. TaskQuoted(task[t]) /\ TaskSays(task[t])
    BY <1>4 DEF TaskSourced
  <1>6. PICK msg, p : msg = log[bid.m] /\ p = Understood(msg)
    OBVIOUS
  <1>7. log' = log /\ asked' = asked /\ forgotten' = forgotten /\ unbound' = unbound
    BY DEF Place, replies
  <1>8. \A j \in DOMAIN bids : bids'[j] = bids[j] /\ j \in DOMAIN bids'
    BY LaterByWork, LaterIs DEF Work
  <1>9. bid.via = "confirmed" => bid.id \in DOMAIN asked
    BY <1>3, <1>4, <1>5 DEF TaskSays, SaysConfirmed
  <1>10. Sourced(n, bid, msg, p)'
    <2>1. CASE bid.via = "confirmed"
      BY <1>3, <1>4, <1>5, <1>6, <1>7, <2>1 DEF Sourced, TaskSays, SaysConfirmed
    <2>2. CASE bid.via = "answered"
      <3>1. PICK m \in DOMAIN log : (m # bid.m \/ bid.m \in forgotten) /\ Said(m, msg.from, bid.amount)
        BY <1>3, <1>4, <1>5, <1>6, <2>2 DEF TaskSays, SaysAnswered
      <3>2. log[m].from = msg.from /\ Understood(log[m]).amount = bid.amount
        BY <3>1 DEF Said
      <3>3. \E x \in DOMAIN log' : /\ x # bid.m \/ bid.m \in forgotten'
                                   /\ log'[x].from = msg.from /\ Understood(log'[x]).amount = bid.amount
        BY <1>7, <3>1, <3>2
      <3>4. NamesItem(msg, bid.item)
        BY <1>3, <1>4, <1>5, <1>6, <2>2 DEF TaskSays, SaysAnswered
      <3>. QED  BY <2>2, <3>3, <3>4 DEF Sourced, NamesItem
    <2>3. CASE bid.via = "cited"
      <3>1. bid.item # None
        BY <1>3, <1>4, ConversationAssumption DEF Typed, TaskTyped
      <3>2. bid.amount = p.amount /\ p.item = None /\ bid.quoted = bid.item
        BY <1>3, <1>4, <1>5, <1>6, <2>3 DEF TaskSays, SaysCited
      <3>. QED  BY <2>3, <3>1, <3>2 DEF Sourced
    <2>4. CASE bid.via \in {"text", "quote", "context"}
      <3>1. /\ bid.amount = p.amount /\ ~Muffled(Quality(msg))
            /\ p.item # None => bid.item = p.item
            /\ p.item = None /\ bid.quoted # None => bid.item = bid.quoted
            /\ p.item = None /\ bid.quoted = None => OutBid(bid.item, bid.amount)
        BY <1>3, <1>4, <1>5, <1>6, <2>4 DEF TaskSays, SaysItself
      <3>2. OutBid(bid.item, bid.amount)
            => \E j \in 1 .. n - 1 : bids'[j].item = bid.item /\ bids'[j].amount < bid.amount
        BY <1>3, <1>8 DEF OutBid
      <3>. QED  BY <2>4, <3>1, <3>2 DEF Sourced
    <2>. QED  BY <1>3, <1>4, <2>1, <2>2, <2>3, <2>4
  <1>11. QuotedRight(bid, msg.quotes)'
    <2>1. /\ bid.quoted # None => QuotedIs(bid.quoted, msg.quotes)
          /\ msg.quotes \in {Card(i) : i \in Items} \ unbound /\ bid.via \in {"cited", "quote", "context", "text"} => bid.quoted # None
      BY <1>3, <1>5, <1>6 DEF TaskQuoted
    <2>. QED  BY <1>7, <1>8, <2>1 DEF QuotedRight, QuotedIs
  <1>. QED  BY <1>2, <1>3, <1>6, <1>7, <1>9, <1>10, <1>11 DEF BidSourced

LEMMA SourcedPlace ==
  ASSUME Typed, NEW t \in Tasks, TaskSourced(task[t]), Place(t)
  PROVE  \E r : task' = [task EXCEPT ![t] = r] /\ TaskSourced(r)'
  <1>1. PICK r : r = [task[t] EXCEPT !.step = "record"]
    OBVIOUS
  <1>2. task' = [task EXCEPT ![t] = r]
    BY <1>1 DEF Place, Goto, Typed, StoresTyped
  <1>3. /\ r.step = "record" /\ r.via = task[t].via /\ r.m = task[t].m /\ r.quoted = task[t].quoted
        /\ r.item = task[t].item /\ r.amount = task[t].amount
    BY <1>1 DEF Typed, TaskTyped, TaskRow
  <1>4. task[t].step = "place" /\ task[t].m \in DOMAIN log
    BY DEF Place, Typed, TaskTyped
  <1>5. TaskQuoted(r)
    BY <1>3, <1>4 DEF TaskSourced, TaskQuoted
  <1>6. TaskQuoted(r)'
    BY <1>3, <1>4, <1>5, TaskQuotedLater, LaterByWork DEF Work
  <1>7. \E j \in DOMAIN bids' : bids'[j].m = r.m /\ bids'[j].item = r.item /\ bids'[j].amount = r.amount
    BY <1>3, NewBidIs
  <1>. QED  BY <1>2, <1>3, <1>6, <1>7 DEF TaskSourced, TaskSays

LEMMA SourcedRecord ==
  ASSUME Typed, NEW t \in Tasks, TaskSourced(task[t]), Record(t)
  PROVE  \E r : task' = [task EXCEPT ![t] = r] /\ TaskSourced(r)
  <1>1. PICK r : r = [task[t] EXCEPT !.step = "react"]
    OBVIOUS
  <1>2. task' = [task EXCEPT ![t] = r]
    BY <1>1 DEF Record, Goto, Typed, StoresTyped
  <1>3. /\ r.step = "react" /\ r.via = task[t].via /\ r.m = task[t].m /\ r.quoted = task[t].quoted
        /\ r.item = task[t].item /\ r.amount = task[t].amount
    BY <1>1 DEF Typed, TaskTyped, TaskRow
  <1>4. task[t].step = "record" /\ TaskQuoted(task[t]) /\ TaskSays(task[t])
    BY DEF Record, TaskSourced
  <1>5. TaskQuoted(r)
    BY <1>3, <1>4 DEF TaskQuoted
  <1>6. \E j \in DOMAIN bids : bids[j].m = r.m /\ bids[j].item = r.item /\ bids[j].amount = r.amount
    BY <1>3, <1>4 DEF TaskSays
  <1>. QED  BY <1>2, <1>3, <1>5, <1>6 DEF TaskSourced, TaskSays

TasksSourced == \A t \in Tasks : TaskSourced(task[t])

LEMMA TasksSourcedWork ==
  ASSUME Typed, StoresSourced, TasksSourced, NEW t \in Tasks, Work(t)
  PROVE  TasksSourced'
  <1>1. Later
    BY LaterByWork
  <1>2. \E r : task' = [task EXCEPT ![t] = r] /\ (TaskSourced(r) \/ TaskSourced(r)')
    <2>0. TaskSourced(task[t]) /\ QuestionSourced /\ ConfirmationSourced /\ ContextSourced /\ RepliesSourced
      BY DEF TasksSourced, StoresSourced
    <2>1. CASE End(t)
      BY <2>1, IdleSourced DEF End
    <2>2. CASE PlaceCited(t) \/ registerConfirmedBid(t)
      BY <2>0, <2>2, SourcedGoPlace DEF PlaceCited, registerConfirmedBid, FromSnapshot
    <2>3. CASE \/ Download(t) \/ CiteItem(t) \/ HandleListBid(t) \/ Confirm(t) \/ ReadSnapshot(t) \/ PlaceAnswered(t)
               \/ Interpret(t) \/ Place(t) \/ Record(t)
      BY <2>0, <2>3, SourcedDownload, SourcedCiteItem, SourcedHandleListBid, SourcedConfirm, SourcedReadSnapshot,
         SourcedPlaceAnswered, SourcedInterpret, SourcedPlace, SourcedRecord
    <2>4. CASE \/ Lost(t) \/ transcribeAudioFails(t) \/ NotOfList(t) \/ AnswerExpired(t) \/ Reject(t) \/ Correct(t)
               \/ AskConfirmation(t) \/ AskItem(t) \/ Refused(t) \/ React(t)
      BY <2>1, <2>4 DEF Lost, transcribeAudioFails, NotOfList, AnswerExpired, Reject, Correct, AskConfirmation,
         AskItem, Refused, React
    <2>. QED  BY <2>2, <2>3, <2>4 DEF Work
  <1>3. PICK r : task' = [task EXCEPT ![t] = r] /\ (TaskSourced(r) \/ TaskSourced(r)')
    BY <1>2
  <1>4. task'[t] = r /\ \A u \in Tasks \ {t} : task'[u] = task[u]
    BY <1>3, OtherTasks
  <1>5. r.step # "idle" => r.m \in DOMAIN log
    <2>1. PICK r2 : Advances(t, r2)
      BY WorkAdvances
    <2>2. r2 = r
      BY <1>4, <2>1, OtherTasks DEF Advances
    <2>. QED  BY <2>1, <2>2 DEF Advances, Typed, TaskTyped
  <1>6. TaskSourced(r)'
    BY <1>1, <1>3, <1>5, TaskLater
  <1>7. ASSUME NEW u \in Tasks \ {t}, NEW q, q = task[u] PROVE TaskSourced(q)'
    BY <1>1, <1>7, TaskLater DEF TasksSourced, Typed, TaskTyped
  <1>8. ASSUME NEW u \in Tasks PROVE TaskSourced(task[u])'
    <2>1. PICK q : q = task'[u]
      OBVIOUS
    <2>2. TaskSourced(q)'
      BY <1>4, <1>6, <1>7, <2>1
    <2>. QED  BY <2>1, <2>2
  <1>. QED  BY <1>8 DEF TasksSourced

-----------------------------------------------------------------------------
(***************************************************************************)
(* The stores.                                                             *)
(***************************************************************************)
\* No task begins with a message somebody may still be asked about.
NoneBegins == \A u \in Tasks : task'[u].step # "idle" =>
    \/ task[u].step # "idle" /\ task'[u].m = task[u].m
    \/ task'[u].m \notin DOMAIN log \/ task'[u].m \in forgotten'

LEMMA NoneBeginsByWork == ASSUME Typed, NEW t \in Tasks, Work(t) PROVE NoneBegins
  <1>1. PICK r : Advances(t, r)
    BY WorkAdvances
  <1>. QED  BY <1>1, OtherTasks DEF Advances, NoneBegins

LEMMA QuestionsStay ==
  ASSUME Typed, Later, NoneBegins, NEW s \in Senders, QuestionSourced, question[s] # NoQuestion,
         NEW amount, amount = question[s].amount
  PROVE  \E m \in DOMAIN log' :
            /\ Said(m, s, amount)'
            /\ m \in forgotten' \/ \A t \in Tasks : task'[t].step # "idle" => task'[t].m # m
  <1>1. PICK m \in DOMAIN log : /\ Said(m, s, amount)
                                /\ m \in forgotten \/ \A t \in Tasks : task[t].step # "idle" => task[t].m # m
    BY DEF QuestionSourced
  <1>2. m \in DOMAIN log' /\ forgotten \subseteq forgotten'
    BY LaterIs
  <1>4. Said(m, s, amount)'
    BY <1>1, SaidLater
  <1>5. m \in forgotten' \/ \A t \in Tasks : task'[t].step # "idle" => task'[t].m # m
    BY <1>1, <1>2 DEF NoneBegins
  <1>. QED  BY <1>2, <1>4, <1>5

LEMMA QuestionsLater ==
  ASSUME Typed, Later, NoneBegins, QuestionSourced,
         \A s \in Senders : question'[s] = NoQuestion \/ (question[s] # NoQuestion /\ question'[s].amount = question[s].amount)
  PROVE  QuestionSourced'
  BY QuestionsStay DEF QuestionSourced, Said

LEMMA ConfirmationsLater ==
  ASSUME Typed, Later, ConfirmationSourced,
         \A s \in Senders : \/ confirmation'[s] = NoConfirmation
                            \/ /\ confirmation[s] # NoConfirmation /\ confirmation'[s].id = confirmation[s].id
                               /\ confirmation'[s].item = confirmation[s].item /\ confirmation'[s].amount = confirmation[s].amount
  PROVE  ConfirmationSourced'
  BY LaterIs DEF ConfirmationSourced

LEMMA ContextsLater ==
  ASSUME Typed, Later, ContextSourced,
         \A i \in Items : context'[i].age = "none" \/ (context[i].age # "none" /\ context'[i].amount = context[i].amount)
  PROVE  ContextSourced'
  BY LaterIs DEF ContextSourced

\* A binding that was there, or is of a bid.
Known(b) == \/ \E j \in DOMAIN bound : b = bound[j]
            \/ \E j \in DOMAIN saved : b = saved[j]
            \/ QuotedIs(b.item, b.message)

LEMMA RepliesLater ==
  ASSUME Typed, Later, RepliesSourced,
         \A k \in DOMAIN bound' : Known(bound'[k]),
         \A k \in DOMAIN saved' : Known(saved'[k]),
         Messages(bound) \subseteq Messages(bound)' \cup unbound'
  PROVE  RepliesSourced'
  <1>1. ASSUME NEW i, NEW q, QuotedIs(i, q) PROVE QuotedIs(i, q)'
    BY <1>1, QuotedLater
  <1>2. \A k \in DOMAIN bound' : QuotedIs(bound'[k].item, bound'[k].message)
    BY DEF RepliesSourced, Known
  <1>3. \A k \in DOMAIN saved' : QuotedIs(saved'[k].item, saved'[k].message)
    BY DEF RepliesSourced, Known
  <1>4. {Card(i) : i \in Items} \subseteq Messages(bound)' \cup unbound'
    BY LaterIs DEF RepliesSourced
  <1>5. \A k \in DOMAIN bound' : QuotedIs(bound[k].item, bound[k].message)'
    BY <1>1, <1>2 DEF QuotedIs
  <1>6. \A k \in DOMAIN saved' : QuotedIs(saved[k].item, saved[k].message)'
    BY <1>1, <1>3 DEF QuotedIs
  <1>. QED  BY <1>4, <1>5, <1>6 DEF RepliesSourced

-----------------------------------------------------------------------------
(***************************************************************************)
(* Every step of a task keeps the sources.                                 *)
(***************************************************************************)
LEMMA QuestionsByWork ==
  ASSUME Typed, OneTask, QuestionSourced, TasksSourced, NEW t \in Tasks, Work(t)
  PROVE  QuestionSourced'
  <1>1. Later /\ NoneBegins
    BY LaterByWork, NoneBeginsByWork
  <1>2. CASE ~Correct(t) /\ ~AskConfirmation(t) /\ ~AskItem(t)
    BY <1>1, <1>2, FewerByWork, QuestionsLater DEF Fewer
  <1>3. CASE Correct(t) \/ AskConfirmation(t)
    <2>1. PICK s \in Senders : question' = [question EXCEPT ![s] = NoQuestion]
      BY <1>3, KeyIs, Arriving DEF Correct, Answers, AskConfirmation, CreateConfirmation
    <2>2. \A r \in Senders : question'[r] = NoQuestion \/ question'[r] = question[r]
      BY <2>1 DEF Typed, StoresTyped
    <2>. QED  BY <1>1, <2>2, QuestionsLater
  <1>4. CASE AskItem(t)
    <2>1. CASE UNCHANGED question
      BY <1>1, <2>1, QuestionsLater
    <2>2. CASE createContext(Key(t), task[t].amount)
      <3>1. PICK s, amount, m : s = Key(t) /\ amount = task[t].amount /\ m = task[t].m
        OBVIOUS
      <3>2. s \in Senders /\ amount \in Nat /\ m \in DOMAIN log /\ s = log[m].from
        BY <1>4, <3>1, KeyIs DEF AskItem, Typed, TaskTyped, TaskRow
      <3>3. question'[s].amount = amount /\ \A r \in Senders \ {s} : question'[r] \in {question[r], NoQuestion}
        BY <2>2, <3>1, <3>2, QuestionAsked
      <3>4. Said(m, s, amount)
        BY <1>4, <3>1, <3>2 DEF TasksSourced, TaskSourced, TaskSays, AskItem, Said
      <3>5. Said(m, s, amount)'
        BY <1>1, <3>4, SaidLater
      <3>6. m \in forgotten' \/ \A u \in Tasks : task'[u].step # "idle" => task'[u].m # m
        <4>1. task'[t] = Idle /\ \A u \in Tasks \ {t} : task'[u] = task[u]
          BY <1>4, OtherTasks DEF AskItem, End
        <4>2. \A u \in Tasks \ {t} : task[u].step # "idle" /\ task[u].m = m => m \in forgotten
          BY <1>4, <3>1 DEF OneTask, AskItem
        <4>3. forgotten \subseteq forgotten'
          BY <1>1, LaterIs
        <4>. QED  BY <4>1, <4>2, <4>3, IdleHolds
      <3>7. m \in DOMAIN log'
        BY <3>5 DEF Said
      <3>. QED  BY <1>1, <3>3, <3>5, <3>6, <3>7, QuestionsStay DEF QuestionSourced, Said
    <2>. QED  BY <1>4, <2>1, <2>2 DEF AskItem
  <1>. QED  BY <1>2, <1>3, <1>4

LEMMA ConfirmationsCreate ==
  ASSUME Typed, Later, ConfirmationSourced, NEW s \in Senders, NEW item \in Items, NEW amount \in Nat,
         CreateConfirmation(s, item, amount)
  PROVE  ConfirmationSourced'
  <1>1. PICK n : n = Len(asked) + 1
    OBVIOUS
  <1>2. asked \in Seq(Asked) /\ asked' = Append(asked, [to |-> s, item |-> item, amount |-> amount])
    BY CreatedIs DEF Typed, HistoryTyped
  <1>3. n \in DOMAIN asked' /\ asked'[n] = [to |-> s, item |-> item, amount |-> amount]
    BY <1>1, <1>2
  <1>4. /\ confirmation'[s].id = n /\ confirmation'[s].item = item /\ confirmation'[s].amount = amount
        /\ \A r \in Senders \ {s} : confirmation'[r] \in {confirmation[r], NoConfirmation}
    BY <1>1, CreatedIs
  <1>. QED  BY <1>3, <1>4, LaterIs DEF ConfirmationSourced

LEMMA ConfirmationsByWork ==
  ASSUME Typed, ConfirmationSourced, NEW t \in Tasks, Work(t)
  PROVE  ConfirmationSourced'
  <1>1. Later
    BY LaterByWork
  <1>2. CASE ~Correct(t) /\ ~AskConfirmation(t) /\ ~AskItem(t)
    BY <1>1, <1>2, FewerByWork, ConfirmationsLater DEF Fewer
  <1>3. CASE AskItem(t)
    <2>1. \A r \in Senders : confirmation'[r] = NoConfirmation \/ confirmation'[r] = confirmation[r]
      BY <1>3, KeyIs DEF AskItem, Take, Typed, StoresTyped, ConfirmationTyped
    <2>. QED  BY <1>1, <2>1, ConfirmationsLater
  <1>4. CASE AskConfirmation(t)
    BY <1>1, <1>4, KeyIs, ConfirmationsCreate DEF AskConfirmation, Typed, TaskTyped, TaskRow
  <1>5. CASE Correct(t)
    <2>1. Key(t) \in Senders /\ Text(t) \in Seq(STRING)
      BY <1>5, KeyIs, Arriving DEF Correct, Answers
    <2>2. confirmation[Key(t)] # NoConfirmation /\ parseConfirmationResponse(Text(t)).kind = "correction"
      BY <1>5 DEF Correct, Answers, Response
    <2>3. confirmation[Key(t)].item \in Items /\ parseConfirmationResponse(Text(t)).amount \in Nat
      BY <2>1, <2>2, CorrectionTyped DEF Typed, StoresTyped, ConfirmationTyped
    <2>. QED  BY <1>1, <1>5, <2>1, <2>3, ConfirmationsCreate DEF Correct
  <1>. QED  BY <1>2, <1>3, <1>4, <1>5

LEMMA ContextsByWork ==
  ASSUME Typed, ContextSourced, TasksSourced, NEW t \in Tasks, Work(t)
  PROVE  ContextSourced'
  <1>1. Later
    BY LaterByWork
  <1>2. CASE Interpret(t)
    <2>1. \A i \in Items : context'[i] \in {context[i], NoContext}
      BY <1>2, InterpretIs
    <2>. QED  BY <1>1, <2>1, ContextsLater DEF NoContext
  <1>3. CASE Record(t)
    <2>1. PICK i, amount : i = task[t].item /\ amount = task[t].amount
      OBVIOUS
    <2>2. i \in Items
      BY <1>3, <2>1 DEF Record, Typed, TaskTyped
    <2>3. PICK new : new = [amount |-> amount, age |-> "hot"]
      OBVIOUS
    <2>4. new.amount = amount /\ context' = [context EXCEPT ![i] = new]
      BY <1>3, <2>1, <2>3 DEF Record
    <2>5. context'[i].amount = amount /\ \A j \in Items \ {i} : context'[j] = context[j]
      BY <2>2, <2>4 DEF Typed, StoresTyped
    <2>6. \E j \in DOMAIN bids : bids[j].item = i /\ bids[j].amount = amount
      BY <1>3, <2>1 DEF Record, TasksSourced, TaskSourced, TaskSays
    <2>. QED  BY <1>1, <2>5, <2>6, LaterIs DEF ContextSourced
  <1>4. CASE ~Interpret(t) /\ ~Record(t)
    <2>1. context' = context
      BY <1>4 DEF Work, Lost, Download, transcribeAudioFails, NotOfList, CiteItem, HandleListBid, AnswerExpired, Reject,
         Correct, Confirm, ReadSnapshot, PlaceCited, registerConfirmedBid, PlaceAnswered, AskConfirmation, AskItem,
         Place, Refused, React, stores
    <2>. QED  BY <1>1, <2>1, ContextsLater
  <1>. QED  BY <1>2, <1>3, <1>4

LEMMA RepliesByWork ==
  ASSUME Typed, RepliesSourced, TasksSourced, NEW t \in Tasks, Work(t)
  PROVE  RepliesSourced'
  <1>1. Later
    BY LaterByWork
  <1>2. CASE React(t)
    <2>1. PICK q, i : q = BidOf(task[t].m) /\ i = task[t].item
      OBVIOUS
    <2>2. q \in Notes /\ i \in Items
      BY <1>2, <2>1 DEF Notes, React, Typed, TaskTyped
    <2>3. QuotedIs(i, q)
      BY <1>2, <2>1 DEF QuotedIs, React, TasksSourced, TaskSourced, TaskSays
    <2>4. bound \in Seq(Binding) /\ saved \in Seq(Binding)
      BY DEF Typed, StoresTyped
    <2>5. PICK new : new = [message |-> q, item |-> i]
      OBVIOUS
    <2>6. Known(new)
      BY <2>3, <2>5 DEF Known
    <2>7. PICK w, v : w = WithReply(bound, q, i) /\ v = WithReply(saved, q, i)
      OBVIOUS
    <2>8. w \in Seq(Binding) /\ \A k \in DOMAIN w : Known(w[k])
      <3>1. w \in Seq(Binding) /\ \A k \in DOMAIN w : (\E j \in DOMAIN bound : w[k] = bound[j]) \/ w[k] = new
        BY <2>2, <2>4, <2>5, <2>7, WithReplyIs
      <3>. QED  BY <2>6, <3>1 DEF Known
    <2>9. \A k \in DOMAIN v : Known(v[k])
      <3>1. \A k \in DOMAIN v : (\E j \in DOMAIN saved : v[k] = saved[j]) \/ v[k] = new
        BY <2>2, <2>4, <2>5, <2>7, WithReplyIs
      <3>. QED  BY <2>6, <3>1 DEF Known
    <2>10. bound' = Newest(w) /\ (saved' = v \/ saved' = saved) /\ unbound' = unbound \cup (Messages(bound) \ Messages(bound)')
      BY <1>2, <2>1, <2>7 DEF React, registerReplyContext, Messages
    <2>11. \A k \in DOMAIN bound' : Known(bound'[k])
      BY <2>8, <2>10, NewestIs
    <2>12. \A k \in DOMAIN saved' : Known(saved'[k])
      BY <2>9, <2>10 DEF Known
    <2>. QED  BY <1>1, <2>10, <2>11, <2>12, RepliesLater
  <1>3. CASE ~React(t)
    <2>1. bound' = bound /\ saved' = saved /\ unbound' = unbound
      BY <1>3 DEF Work, Lost, Download, transcribeAudioFails, NotOfList, CiteItem, HandleListBid, AnswerExpired, Reject,
         Correct, Confirm, ReadSnapshot, PlaceCited, registerConfirmedBid, PlaceAnswered, Interpret, AskConfirmation, AskItem,
         Place, Refused, Record, replies
    <2>. QED  BY <1>1, <2>1, RepliesLater DEF Known, Messages
  <1>. QED  BY <1>2, <1>3

BidsSourced == \A k \in DOMAIN bids : BidSourced(k)

LEMMA BidsLater ==
  ASSUME Typed, OneTask, Later, BidsSourced, bids' = bids
  PROVE  BidsSourced'
  BY BidLater DEF BidsSourced

LEMMA BidsByWork ==
  ASSUME Typed, OneTask, BidsSourced, TasksSourced, NEW t \in Tasks, Work(t)
  PROVE  BidsSourced'
  <1>1. Later
    BY LaterByWork
  <1>2. CASE Place(t)
    <2>1. PICK n : n = Len(bids) + 1
      OBVIOUS
    <2>2. TaskSourced(task[t])
      BY DEF TasksSourced
    <2>3. BidSourced(n)'
      BY <1>2, <2>1, <2>2, BidSourcedPlace
    <2>4. DOMAIN bids' = DOMAIN bids \cup {n}
      BY <1>2, <2>1, NewBidIs
    <2>5. \A k \in DOMAIN bids : BidSourced(k)'
      BY <1>1, BidLater DEF BidsSourced
    <2>. QED  BY <2>3, <2>4, <2>5 DEF BidsSourced
  <1>3. CASE ~Place(t)
    <2>1. bids' = bids
      BY <1>3 DEF Work, Lost, Download, transcribeAudioFails, NotOfList, CiteItem, HandleListBid, AnswerExpired, Reject,
         Correct, Confirm, ReadSnapshot, PlaceCited, registerConfirmedBid, PlaceAnswered, Interpret, AskConfirmation, AskItem,
         Refused, Record, React, history
    <2>. QED  BY <1>1, <2>1, BidsLater
  <1>. QED  BY <1>2, <1>3

-----------------------------------------------------------------------------
(***************************************************************************)
(* Every other step does, and so does a restart.                           *)
(***************************************************************************)
Sources == StoresSourced /\ TasksSourced /\ BidsSourced

LEMMA SourcesByWork == ASSUME Typed, OneTask, Sources, NEW t \in Tasks, Work(t) PROVE Sources'
  BY TasksSourcedWork, QuestionsByWork, ConfirmationsByWork, ContextsByWork, RepliesByWork, BidsByWork DEF Sources, StoresSourced

\* What leaves the tasks alone.
LEMMA TasksSourcedSame ==
  ASSUME Typed, Later, TasksSourced, task' = task
  PROVE  TasksSourced'
  <1>1. ASSUME NEW u \in Tasks PROVE TaskSourced(task[u])'
    <2>1. PICK q : q = task[u]
      OBVIOUS
    <2>2. TaskSourced(q)'
      BY <2>1, TaskLater DEF TasksSourced, Typed, TaskTyped
    <2>3. q = task'[u]
      BY <2>1
    <2>. QED  BY <2>2, <2>3
  <1>. QED  BY <1>1 DEF TasksSourced

LEMMA SourcesBegin ==
  ASSUME Typed, OneTask, Sources, Later, NEW t \in Tasks, NEW m, Begin(t, m), m \notin DOMAIN log \/ m \in forgotten',
         UNCHANGED <<stores, bound, saved, unbound, bids>>
  PROVE  Sources'
  <1>1. PICK r : r = [Idle EXCEPT !.m = m, !.step = "resolve"]
    OBVIOUS
  <1>2. r.m = m /\ r.step = "resolve" /\ r.via = "none" /\ r.quoted = None
    BY <1>1 DEF Idle
  <1>3. task'[t] = r /\ \A u \in Tasks \ {t} : task'[u] = task[u]
    BY <1>1, OtherTasks DEF Begin
  <1>4. NoneBegins
    BY <1>2, <1>3 DEF NoneBegins
  <1>5. TaskSourced(r)'
    BY <1>2 DEF TaskSourced, TaskQuoted, TaskSays
  <1>6. ASSUME NEW u \in Tasks PROVE TaskSourced(task[u])'
    <2>1. PICK q : q = task'[u]
      OBVIOUS
    <2>2. CASE u # t
      <3>1. q = task[u] /\ TaskSourced(q)
        BY <1>3, <2>1, <2>2 DEF Sources, TasksSourced
      <3>2. TaskSourced(q)'
        BY <3>1, TaskLater DEF Typed, TaskTyped
      <3>. QED  BY <2>1, <3>2
    <2>3. CASE u = t
      BY <1>3, <1>5, <2>1, <2>3
    <2>. QED  BY <2>2, <2>3
  <1>7. QuestionSourced'
    BY <1>4, QuestionsLater DEF Sources, StoresSourced, stores
  <1>8. ConfirmationSourced' /\ ContextSourced'
    BY ConfirmationsLater, ContextsLater DEF Sources, StoresSourced, stores
  <1>9. RepliesSourced'
    BY RepliesLater DEF Sources, StoresSourced, Known, Messages
  <1>10. BidsSourced'
    BY BidsLater DEF Sources
  <1>. QED  BY <1>6, <1>7, <1>8, <1>9, <1>10 DEF Sources, StoresSourced, TasksSourced

LEMMA SourcesElse ==
  ASSUME Typed, OneTask, Sources, Later, task' = task, bids' = bids,
         \A s \in Senders : question'[s] = NoQuestion \/ (question[s] # NoQuestion /\ question'[s].amount = question[s].amount),
         \A s \in Senders : \/ confirmation'[s] = NoConfirmation
                            \/ /\ confirmation[s] # NoConfirmation /\ confirmation'[s].id = confirmation[s].id
                               /\ confirmation'[s].item = confirmation[s].item /\ confirmation'[s].amount = confirmation[s].amount,
         \A i \in Items : context'[i].age = "none" \/ (context[i].age # "none" /\ context'[i].amount = context[i].amount),
         bound' = bound /\ unbound' = unbound,
         \A k \in DOMAIN saved' : Known(saved'[k])
  PROVE  Sources'
  <1>1. NoneBegins
    BY DEF NoneBegins
  <1>2. QuestionSourced'
    BY <1>1, QuestionsLater DEF Sources, StoresSourced
  <1>3. ConfirmationSourced'
    BY ConfirmationsLater DEF Sources, StoresSourced
  <1>4. ContextSourced'
    BY ContextsLater DEF Sources, StoresSourced
  <1>5. RepliesSourced'
    BY RepliesLater DEF Sources, StoresSourced, Known, Messages
  <1>6. TasksSourced' /\ BidsSourced'
    BY TasksSourcedSame, BidsLater DEF Sources
  <1>. QED  BY <1>2, <1>3, <1>4, <1>5, <1>6 DEF Sources, StoresSourced

LEMMA SourcesOthers ==
  ASSUME Typed, OneTask, Sources,
         \/ \E m \in DOMAIN log : DropMark(m)
         \/ \E s \in Senders : ExpireQuestion(s) \/ ExpireConfirmation(s)
         \/ \E i \in Items : AgeContext(i) \/ CloseItem(i) \/ RemoveLeader(i)
         \/ CloseList \/ SweepReplyBindings \/ UNCHANGED vars
  PROVE  Sources'
  <1>1. Later
    BY LaterElse
  <1>2. ASSUME saved' = saved PROVE \A k \in DOMAIN saved' : Known(saved'[k])
    BY <1>2 DEF Known
  <1>3. CASE \/ \E m \in DOMAIN log : DropMark(m)
             \/ \E i \in Items : CloseItem(i) \/ RemoveLeader(i)
             \/ CloseList \/ UNCHANGED vars
    <2>1. UNCHANGED <<stores, replies, task, bids>>
      BY <1>3 DEF DropMark, CloseItem, RemoveLeader, CloseList, vars, history
    <2>. QED  BY <1>1, <1>2, <2>1, SourcesElse DEF stores, replies
  <1>4. ASSUME NEW s \in Senders, ExpireQuestion(s) PROVE Sources'
    <2>1. question[s] # NoQuestion
      BY <1>4 DEF ExpireQuestion, NoQuestion
    <2>2. UNCHANGED <<replies, confirmation, context, task, bids>>
      BY <1>4 DEF ExpireQuestion, history
    <2>3. \A r \in Senders : question'[r] = NoQuestion \/ (question[r] # NoQuestion /\ question'[r].amount = question[r].amount)
      BY <1>4, <2>1 DEF ExpireQuestion, Typed, StoresTyped
    <2>. QED  BY <1>1, <1>2, <2>2, <2>3, SourcesElse DEF replies
  <1>5. ASSUME NEW s \in Senders, ExpireConfirmation(s) PROVE Sources'
    <2>1. confirmation[s] # NoConfirmation
      BY <1>5 DEF ExpireConfirmation, NoConfirmation
    <2>2. UNCHANGED <<replies, question, context, task, bids>>
      BY <1>5 DEF ExpireConfirmation, history
    <2>3. \A r \in Senders : \/ confirmation'[r] = NoConfirmation
                            \/ /\ confirmation[r] # NoConfirmation /\ confirmation'[r].id = confirmation[r].id
                               /\ confirmation'[r].item = confirmation[r].item /\ confirmation'[r].amount = confirmation[r].amount
      BY <1>5, <2>1 DEF ExpireConfirmation, Typed, StoresTyped, ConfirmationTyped
    <2>. QED  BY <1>1, <1>2, <2>2, <2>3, SourcesElse DEF replies
  <1>6. ASSUME NEW i \in Items, AgeContext(i) PROVE Sources'
    <2>2. UNCHANGED <<replies, question, confirmation, task, bids>>
      BY <1>6 DEF AgeContext, history
    <2>3. \A j \in Items : context'[j].age = "none" \/ (context[j].age # "none" /\ context'[j].amount = context[j].amount)
      BY <1>6 DEF AgeContext, NoContext, Typed, StoresTyped
    <2>. QED  BY <1>1, <1>2, <2>2, <2>3, SourcesElse DEF replies
  <1>7. CASE SweepReplyBindings
    <2>1. UNCHANGED <<stores, bound, unbound, task, bids>> /\ saved # <<>> /\ saved' = Tail(saved)
      BY <1>7 DEF SweepReplyBindings, history
    <2>2. saved \in Seq(Binding)
      BY DEF Typed, StoresTyped
    <2>3. \A k \in DOMAIN saved' : k + 1 \in DOMAIN saved /\ saved'[k] = saved[k + 1]
      BY <2>1, <2>2
    <2>4. \A k \in DOMAIN saved' : Known(saved'[k])
      BY <2>3 DEF Known
    <2>. QED  BY <1>1, <2>1, <2>4, SourcesElse DEF stores
  <1>. QED  BY <1>3, <1>4, <1>5, <1>6, <1>7

LEMMA SourcesRestart == ASSUME Typed, OneTask, Sources, Restart PROVE Sources'
  <1>1. Later
    BY LaterElse
  <1>2. QuestionSourced' /\ ConfirmationSourced' /\ ContextSourced'
    BY DEF Restart, QuestionSourced, ConfirmationSourced, ContextSourced, NoContext
  <1>3. TasksSourced'
    BY IdleSourced DEF Restart, TasksSourced, TaskSourced, Idle
  <1>4. BidsSourced'
    BY <1>1, BidsLater DEF Restart, Sources
  <1>5. RepliesSourced'
    <2>1. PICK kept : kept = Kept(saved, {k \in DOMAIN saved : auction[saved[k].item].open})
      OBVIOUS
    <2>2. saved \in Seq(Binding)
      BY DEF Typed, StoresTyped
    <2>3. kept \in Seq(Binding) /\ \A k \in DOMAIN kept : \E j \in DOMAIN saved : kept[k] = saved[j]
      <3>1. PICK places \in SUBSET DOMAIN saved : places = {k \in DOMAIN saved : auction[saved[k].item].open}
        OBVIOUS
      <3>2. kept = Kept(saved, places)
        BY <2>1, <3>1
      <3>. QED  BY <2>2, <3>2, KeptIs
    <2>4. bound' = Newest(kept) /\ saved' = saved /\ unbound' = unbound \cup (Messages(bound) \ Messages(bound)')
      BY <2>1 DEF Restart, loadReplyContexts, Messages
    <2>5. \A k \in DOMAIN bound' : \E j \in DOMAIN kept : bound'[k] = kept[j]
      BY <2>3, <2>4, NewestIs
    <2>6. \A k \in DOMAIN bound' : Known(bound'[k])
      BY <2>3, <2>5 DEF Known
    <2>7. \A k \in DOMAIN saved' : Known(saved'[k])
      BY <2>4 DEF Known
    <2>. QED  BY <1>1, <2>4, <2>6, <2>7, RepliesLater DEF Sources, StoresSourced
  <1>. QED  BY <1>2, <1>3, <1>4, <1>5 DEF Sources, StoresSourced

LEMMA SourcesNext == ASSUME Typed, OneTask, Sources, [Next]_vars PROVE Sources'
  <1>1. ASSUME NEW t \in Tasks, Work(t) PROVE Sources'
    BY <1>1, SourcesByWork
  <1>2. ASSUME NEW t \in Tasks, Deliver(t) PROVE Sources'
    <2>1. Len(log) + 1 \notin DOMAIN log
      BY DEF Typed, HistoryTyped
    <2>2. Later
      BY <1>2, LaterElse
    <2>3. UNCHANGED <<stores, bound, saved, unbound, bids>> /\ Begin(t, Len(log) + 1)
      BY <1>2 DEF Deliver, replies
    <2>. QED  BY <2>1, <2>2, <2>3, SourcesBegin
  <1>3. ASSUME NEW t \in Tasks, NEW m \in DOMAIN log, Redeliver(t, m) PROVE Sources'
    <2>1. m \in forgotten'
      BY <1>3 DEF Redeliver, Fresh, Typed, HistoryTyped, history
    <2>2. Later
      BY <1>3, LaterElse
    <2>3. UNCHANGED <<stores, bound, saved, unbound, bids>> /\ Begin(t, m)
      BY <1>3 DEF Redeliver, replies, history
    <2>. QED  BY <2>1, <2>2, <2>3, SourcesBegin
  <1>. QED  BY <1>1, <1>2, <1>3, SourcesRestart, SourcesOthers DEF Next

LEMMA SourcesInit == ASSUME Init PROVE Sources
  <1>1. PICK all : all = [k \in DOMAIN Catalog |-> [message |-> Card(Catalog[k].id), item |-> Catalog[k].id]]
    OBVIOUS
  <1>2. all \in Seq(Binding) /\ \A k \in DOMAIN all : all[k].message = Card(all[k].item)
    <2>1. all = [k \in 1 .. Len(Catalog) |-> [message |-> Card(Catalog[k].id), item |-> Catalog[k].id]]
          /\ Len(Catalog) \in Nat
      BY <1>1, ConversationAssumption
    <2>2. \A k \in 1 .. Len(Catalog) : Catalog[k].id \in Items
      BY ConversationAssumption DEF Items
    <2>3. \A k \in 1 .. Len(Catalog) : [message |-> Card(Catalog[k].id), item |-> Catalog[k].id] \in Binding
      BY <2>2 DEF Binding, Notes
    <2>4. all \in [1 .. Len(Catalog) -> Binding]
      BY <2>1, <2>3
    <2>5. all \in Seq(Binding)
      BY <2>1, <2>4, SeqDef
    <2>. QED  BY <2>1, <2>5
  <1>3. bound = Newest(all) /\ saved = bound /\ unbound = {Card(i) : i \in Items} \ Messages(bound)
    BY <1>1 DEF Init
  <1>4. \A k \in DOMAIN bound : \E j \in DOMAIN all : bound[k] = all[j]
    BY <1>2, <1>3, NewestIs
  <1>5. \A k \in DOMAIN bound : QuotedIs(bound[k].item, bound[k].message)
    BY <1>2, <1>4 DEF QuotedIs
  <1>6. RepliesSourced
    BY <1>3, <1>5 DEF RepliesSourced
  <1>7. QuestionSourced /\ ConfirmationSourced /\ ContextSourced
    BY DEF Init, QuestionSourced, ConfirmationSourced, ContextSourced, NoContext
  <1>8. TasksSourced /\ BidsSourced
    BY IdleSourced DEF Init, TasksSourced, BidsSourced
  <1>. QED  BY <1>6, <1>7, <1>8 DEF Sources, StoresSourced

-----------------------------------------------------------------------------
(***************************************************************************)
(* The theorems.                                                           *)
(***************************************************************************)
\* The inductive invariant.
Conversing == Typed /\ OneTask /\ OneAnswer /\ OneQuestionAtATime /\ Sources

LEMMA Conversed == Spec => []Conversing
  <1>1. Init => Conversing
    BY TypedInit, OneTaskInit, AnswerInit, OneQuestionInit, SourcesInit DEF Conversing
  <1>2. Conversing /\ [Next]_vars => Conversing'
    BY TypedNext, OneTaskNext, AnswerNext, OneQuestionNext, SourcesNext DEF Conversing
  <1>. QED  BY <1>1, <1>2, PTL DEF Spec

\* Every store, task and history keeps its type: what is asked and taken, what a restart
\* reads back and what a message interprets to are of the items and the messages there are.
THEOREM ConversationTypeCorrect == Spec => []ConversationTypeOK
  <1>1. Conversing => ConversationTypeOK
    BY TypeOKFromTyped DEF Conversing
  <1>. QED  BY <1>1, Conversed, PTL

\* No participant is asked for the item and for a confirmation at once, however many
\* tasks of theirs overlap (clarify, createConfirmation, placeBidEntry).
THEOREM OneQuestionSafety == Spec => []OneQuestionAtATime
  <1>1. Conversing => OneQuestionAtATime
    BY DEF Conversing
  <1>. QED  BY <1>1, Conversed, PTL

\* A message has one bid unless its mark was lost, and a confirmation one outcome: what
\* was cancelled or corrected is never placed (processedMessages, take).
THEOREM NothingTwiceSafety == Spec => []NothingTwice
  <1>1. Conversing => NothingTwice
    BY DEF Conversing, OneTask, OneAnswer, NothingTwice
  <1>. QED  BY <1>1, Conversed, PTL

\* Every bid is for an item and an amount its own author said, cited, was asked about or
\* confirmed, across redeliveries, expiries, restarts and lost bindings.
THEOREM BidSafety == Spec => []BidIsWhatWasSaid
  <1>1. Conversing => BidIsWhatWasSaid
    BY DEF Conversing, Sources, BidsSourced, BidSourced, BidIsWhatWasSaid
  <1>. QED  BY <1>1, Conversed, PTL
=============================================================================
