----------------------------- MODULE Conversation -----------------------------
(***************************************************************************)
(* The conversation of list mode in one group: handleIncomingMessage and   *)
(* the mark of the messages seen, CommandRouter, handleChatInput and       *)
(* handleListBid with its pending questions ("qual item?"), confirmations  *)
(* ("confirma?") and contexts of disputed items, and placeBidEntry.        *)
(*                                                                         *)
(* A task is one run of handleIncomingMessage; its steps are what the code *)
(* does from one await to the next, so tasks interleave where the code     *)
(* lets them.  Replies have no effect on the state and are left out, and   *)
(* the rows of the auctions are reduced to whether they are open and what  *)
(* their leading bid is: AuctionStore has the rest.                        *)
(***************************************************************************)
EXTENDS BidParser, ConfidenceEngine, SpokenNumbers, SpeechToText, TLC

CONSTANTS
    Catalog,   \* the items of the list, in its order
    Senders,   \* participants
    Tasks,     \* messages the server works on at a time
    Digited,   \* tokens that begin with a digit
    Commands,  \* tokens that begin with "!"
    ReplyMax,  \* replies the engine can still tell the item of
    Scripts,   \* bound: what an instance lets happen: under each name ...
    Menu,      \* ... the messages people may send
    Budgets    \* ... and how many things of each kind may happen

Kinds == {"message", "again", "forget", "fail", "unsaved", "remove", "close", "restart", "time", "sweep"}
Items == {Catalog[i].id : i \in DOMAIN Catalog}

ASSUME ConversationAssumption ==
    /\ Catalog \in Seq(Range(Catalog)) /\ None \notin Items
    /\ \A i, j \in DOMAIN Catalog : i # j => /\ Catalog[i].id # Catalog[j].id
                                             /\ Catalog[i].number # Catalog[j].number
    /\ ReplyMax \in Nat \ {0} /\ Budgets \in [Scripts -> [Kinds -> Nat]]

VARIABLES
    listed,       \* listGroups has the group
    auction,      \* of each item: whether it is open, its leading amount
    question,     \* pendingBidContextStore: the amount "qual item?" was asked about
    confirmation, \* pendingBidConfirmationStore
    context,      \* activeBidContextStore: amount and age of the last bid on an item
    bound,        \* replyContexts: messages about an item, oldest first
    saved,        \* WhatsAppReplyBinding: the same in the database
    seen,         \* processedMessages
    task,         \* the messages in work
    script, budget, \* what may still happen
    log,          \* history: the messages sent
    routed,       \* history: what was made of each: a command or chat
    asked,        \* history: the confirmations asked
    outcomes,     \* history: what became of them
    bids,         \* history: the bids accepted
    forgotten,    \* history: messages whose mark was lost
    unbound       \* history: messages whose item was lost

stores    == <<question, confirmation, context>>
replies   == <<bound, saved, unbound>>
history   == <<log, routed, asked, outcomes, bids, forgotten>>
vars      == <<listed, auction, stores, replies, seen, task, script, budget, history>>

NoQuestion     == [amount |-> 0, live |-> FALSE]
NoConfirmation == [id |-> 0, item |-> None, amount |-> 0, live |-> FALSE]
NoContext      == [amount |-> 0, age |-> "none"]
NoSignal       == [candidates |-> {}, blocked |-> 0, age |-> "none"]
Idle           == [m |-> 0, step |-> "idle", via |-> "none", quoted |-> None, item |-> None,
                   amount |-> 0, id |-> 0, any |-> FALSE, snap |-> <<>>]
Spend(kind)    == budget[kind] > 0 /\ budget' = [budget EXCEPT ![kind] = @ - 1]
End(t)         == task' = [task EXCEPT ![t] = Idle]
Goto(t, s)     == task' = [task EXCEPT ![t].step = s]
Max2(a, b)     == IF a > b THEN a ELSE b

Message(t) == log[task[t].m]
Sender(t)  == Message(t).from

\* What a message may be an answer to: the card of an item, the message of a bid.
Nothing   == <<>>
Card(i)   == <<"card", i>>
BidOf(m)  == <<"bid", m>>
Messages(bindings) == {bindings[k].message : k \in DOMAIN bindings}
getReplyContext(q) == IF q \notin Messages(bound) THEN None
    ELSE LET k == CHOOSE k \in DOMAIN bound : bound[k].message = q IN bound[k].item

\* What the provider hears, word by word, and what the engine makes of it.
Spoken(said) == FoldLeft(LAMBDA words, t : words \o (IF t \in Numerals THEN Say(Amount[t]) ELSE <<t>>),
                         <<>>, said)
IsAudio(msg) == msg.source = "AUDIO"
Quality(msg) == IF IsAudio(msg) THEN transcribeAudio(msg.audio).quality ELSE NoQuality
Heard(msg)   == IF IsAudio(msg) THEN ToDigits(Spoken(msg.said), FALSE) ELSE msg.said
Understood(msg) == parseMessage(Catalog, Heard(msg))
Text(t)      == Heard(Message(t))

\* A participant sends it, and what the provider heard is a text like any other.
ASSUME MenuAssumption ==
    \A name \in Scripts : \A msg \in Menu[name] : msg.from \in Senders /\ Heard(msg) \in Seq(STRING)

Numbered(n)  == {Catalog[k].id : k \in {j \in DOMAIN Catalog : Catalog[j].number = n}}

\* Mutant: the questions of a group are kept under one key.
makeKeyMutant(s) == CHOOSE x \in Senders : TRUE
\* The questions of a participant, in one group of one tenant.
makeKey(s) == s
Key(t)     == makeKey(Sender(t))

-----------------------------------------------------------------------------
(***************************************************************************)
(* handleIncomingMessage: a message is marked before anything else.        *)
(***************************************************************************)
Begin(t, m) == /\ task[t] = Idle
               /\ task' = [task EXCEPT ![t] = [Idle EXCEPT !.m = m, !.step = "resolve"]]
               /\ seen' = seen \cup {m}

Deliver(t) ==
    /\ Spend("message") /\ Begin(t, Len(log) + 1)
    /\ \E msg \in Menu[script] : log' = Append(log, msg)
    /\ UNCHANGED <<listed, auction, stores, replies, script, routed, asked, outcomes, bids, forgotten>>

FreshMutant(m) == m \in DOMAIN log
\* mark: a message seen before is ignored.
Fresh(m) == m \in DOMAIN log /\ m \notin seen

Redeliver(t, m) ==
    /\ Fresh(m) /\ Spend("again") /\ Begin(t, m)
    /\ UNCHANGED <<listed, auction, stores, replies, script, history>>

\* Ten minutes, or five thousand other messages.
DropMark(m) ==
    /\ m \in seen /\ Spend("forget")
    /\ seen' = seen \ {m} /\ forgotten' = forgotten \cup {m}
    /\ UNCHANGED <<listed, auction, stores, replies, task, script, log, routed, asked, outcomes, bids>>

\* The chat or the group cannot be read, which is only logged, or isGroupLinked says no.
Lost(t) ==
    /\ task[t].step = "resolve" /\ Spend("fail") /\ End(t)
    /\ UNCHANGED <<listed, auction, stores, replies, seen, script, history>>

\* A voice message is downloaded and transcribed; the item of the message it answers
\* is looked up before that, and no task waits for another.
Download(t) ==
    /\ task[t].step = "resolve" /\ IsAudio(Message(t))
    /\ task' = [task EXCEPT ![t].step = "transcribe", ![t].quoted = getReplyContext(Message(t).quotes)]
    /\ UNCHANGED <<listed, auction, stores, replies, seen, script, budget, history>>

\* There is no transcription, and a reply says why.
transcribeAudioFails(t) ==
    /\ task[t].step = "transcribe" /\ ~transcribeAudio(Message(t).audio).ok /\ End(t)
    /\ UNCHANGED <<listed, auction, stores, replies, seen, script, budget, history>>

Arrived(t) == \/ task[t].step = "resolve" /\ ~IsAudio(Message(t))
              \/ task[t].step = "transcribe" /\ transcribeAudio(Message(t).audio).ok
Quoted(t)  == IF IsAudio(Message(t)) THEN task[t].quoted ELSE getReplyContext(Message(t).quotes)

-----------------------------------------------------------------------------
(***************************************************************************)
(* CommandRouter.route.  handleIncomingMessage gives it an input for every *)
(* message, typed ones included.                                           *)
(***************************************************************************)
HasInput(msg)   == TRUE
IsCommand(msg)  == msg.said # <<>> /\ msg.said[1] \in Commands
ToCommand(msg)  == ~HasInput(msg) /\ IsCommand(msg)
Routed(t)       == routed' = routed \cup
                      {<<task[t].m, IF ToCommand(Message(t)) THEN "command" ELSE "chat">>}

\* A command, or no list: another flow of the engine, which AuctionEngine models.
NotOfList(t) ==
    /\ Arrived(t) /\ (~listed \/ ToCommand(Message(t)))
    /\ Routed(t) /\ End(t)
    /\ UNCHANGED <<listed, auction, stores, replies, seen, script, budget, log, asked, outcomes, bids, forgotten>>

\* A bare amount in answer to a message about an item.
CitesItem(t) == Quoted(t) # None /\ Len(Text(t)) = 1 /\ IsAmount(Text(t)[1])

ToList(t) == Arrived(t) /\ listed /\ ~ToCommand(Message(t)) /\ Routed(t)

CiteItem(t) ==
    /\ ToList(t) /\ CitesItem(t)
    /\ task' = [task EXCEPT ![t].step = "read", ![t].via = "cited",
                            ![t].quoted = Quoted(t), ![t].item = Quoted(t),
                            ![t].amount = Amount[Text(t)[1]]]
    /\ UNCHANGED <<listed, auction, stores, replies, seen, script, budget, log, asked, outcomes, bids, forgotten>>

-----------------------------------------------------------------------------
(***************************************************************************)
(* handlePendingConfirmation.                                              *)
(***************************************************************************)
parseConfirmationResponse(text) ==
    LET amounts   == {i \in DOMAIN text : IsAmount(text[i])}
        corrects  == text # <<>> /\ text[1] \in {"nao", "era"} /\ amounts # {}
    IN IF text \in {<<"sim">>, <<"1">>} THEN [kind |-> "confirm", amount |-> 0]
       ELSE IF corrects THEN [kind |-> "correction", amount |-> Amount[text[First(amounts)]]]
       ELSE IF text = <<"2">> \/ (text # <<>> /\ text[1] = "nao")
       THEN [kind |-> "reject", amount |-> 0] ELSE [kind |-> "none", amount |-> 0]

Response(t) == IF confirmation[Key(t)] = NoConfirmation THEN "none"
               ELSE parseConfirmationResponse(Text(t)).kind

\* No answer: an expired confirmation leaves, a pending one stays.
HandleListBid(t) ==
    LET s == Key(t) IN
    /\ ToList(t) /\ ~CitesItem(t) /\ Response(t) = "none"
    /\ confirmation' = [confirmation EXCEPT ![s] = IF @.live THEN @ ELSE NoConfirmation]
    /\ task' = [task EXCEPT ![t].step = "read", ![t].via = "text", ![t].quoted = Quoted(t)]
    /\ UNCHANGED <<listed, auction, replies, question, context, seen, script, budget, log, asked, outcomes,
                   bids, forgotten>>

AnswerExpired(t) ==
    LET s == Key(t) IN
    /\ ToList(t) /\ ~CitesItem(t) /\ Response(t) # "none" /\ ~confirmation[s].live
    /\ confirmation' = [confirmation EXCEPT ![s] = NoConfirmation]
    /\ End(t)
    /\ UNCHANGED <<listed, auction, replies, question, context, seen, script, budget, log, asked, outcomes,
                   bids, forgotten>>

\* take, in the same turn as the peek that found it; delete, before another question.
Take(s) == confirmation' = [confirmation EXCEPT ![s] = NoConfirmation]

Answers(t, kind) == /\ ToList(t) /\ ~CitesItem(t)
                    /\ Response(t) = kind /\ confirmation[Key(t)].live
Outcome(id, what) == outcomes' = outcomes \cup {<<id, what>>}

Reject(t) ==
    /\ Answers(t, "reject") /\ Take(Key(t)) /\ End(t)
    /\ Outcome(confirmation[Key(t)].id, "cancelled")
    /\ UNCHANGED <<listed, auction, replies, question, context, seen, script, budget, log, asked, bids, forgotten>>

\* cleanupExpired, after a write: what has expired leaves, whoever was asked.
cleanupExpired(store, none) == [s \in Senders |-> IF store[s].live THEN store[s] ELSE none]

\* create: the confirmation takes the place of any question to this participant.
CreateConfirmationMutant(s, item, amount) ==
    /\ confirmation' = cleanupExpired([confirmation EXCEPT
            ![s] = [id |-> Len(asked) + 1, item |-> item, amount |-> amount, live |-> TRUE]], NoConfirmation)
    /\ asked' = Append(asked, [to |-> s, item |-> item, amount |-> amount])
    /\ UNCHANGED question
CreateConfirmation(s, item, amount) ==
    /\ confirmation' = cleanupExpired([confirmation EXCEPT
            ![s] = [id |-> Len(asked) + 1, item |-> item, amount |-> amount, live |-> TRUE]], NoConfirmation)
    /\ question' = [question EXCEPT ![s] = NoQuestion]
    /\ asked' = Append(asked, [to |-> s, item |-> item, amount |-> amount])

\* Mutant: the item is read after the confirmation is taken.
CorrectMutant(t) ==
    LET old == confirmation[Key(t)] IN
    /\ Answers(t, "correction") /\ End(t)
    /\ CreateConfirmation(Key(t), NoConfirmation.item, parseConfirmationResponse(Text(t)).amount)
    /\ Outcome(old.id, "corrected")
    /\ UNCHANGED <<listed, auction, replies, context, seen, script, budget, log, bids, forgotten>>

Correct(t) ==
    LET old == confirmation[Key(t)] IN
    /\ Answers(t, "correction") /\ End(t)
    /\ CreateConfirmation(Key(t), old.item, parseConfirmationResponse(Text(t)).amount)
    /\ Outcome(old.id, "corrected")
    /\ UNCHANGED <<listed, auction, replies, context, seen, script, budget, log, bids, forgotten>>

Confirm(t) ==
    LET taken == confirmation[Key(t)] IN
    /\ Answers(t, "confirm") /\ Take(Key(t))
    /\ task' = [task EXCEPT ![t].step = "read", ![t].via = "confirmed", ![t].id = taken.id,
                            ![t].item = taken.item, ![t].amount = taken.amount]
    /\ UNCHANGED <<listed, auction, replies, question, context, seen, script, budget, log, asked, outcomes, bids,
                   forgotten>>

-----------------------------------------------------------------------------
(***************************************************************************)
(* listAuctionSnapshot, and what the three callers do with it.             *)
(***************************************************************************)
ReadSnapshot(t) ==
    /\ task[t].step = "read"
    /\ task' = [task EXCEPT ![t].step = "snapshot", ![t].snap = auction]
    /\ UNCHANGED <<listed, auction, stores, replies, seen, script, budget, history>>

IsOpen(t, i)      == task[t].snap[i].open
FromSnapshot(t, via) == task[t].step = "snapshot" /\ task[t].via = via
PlaceOrEnd(t, i)  == IF IsOpen(t, i) THEN Goto(t, "place") ELSE End(t)

\* The item is the quoted one: both questions to its author are settled.
PlaceCited(t) ==
    LET s == Key(t)  open == IsOpen(t, task[t].item) IN
    /\ FromSnapshot(t, "cited") /\ PlaceOrEnd(t, task[t].item)
    /\ question' = [question EXCEPT ![s] = IF open THEN NoQuestion ELSE @]
    /\ confirmation' = [confirmation EXCEPT ![s] = IF open THEN NoConfirmation ELSE @]
    /\ UNCHANGED <<listed, auction, replies, context, seen, script, budget, history>>

registerConfirmedBid(t) ==
    /\ FromSnapshot(t, "confirmed") /\ PlaceOrEnd(t, task[t].item)
    /\ UNCHANGED <<listed, auction, stores, replies, seen, script, budget, history>>

\* "qual item?" is answered with the number of an item, after its label when it is spoken.
itemAnswer(msg) ==
    IF IsAudio(msg) THEN SelectSeq(ToDigits(Heard(msg), TRUE),
                                   LAMBDA w : w \notin {"o", "a", "item", "n", "numero"})
    ELSE Heard(msg)
AnswersQuestion(t) ==
    LET text == itemAnswer(Message(t)) IN
    /\ question[Key(t)].live
    /\ Len(text) = 1 /\ text[1] \in Numerals /\ Numbered(Amount[text[1]]) # {}

PlaceAnswered(t) ==
    LET s    == Key(t)
        item == CHOOSE i \in Numbered(Amount[itemAnswer(Message(t))[1]]) : TRUE
    IN
    /\ FromSnapshot(t, "text") /\ AnswersQuestion(t)
    /\ question' = [question EXCEPT ![s] = NoQuestion]
    /\ task' = [task EXCEPT ![t] = IF IsOpen(t, item)
            THEN [@ EXCEPT !.step = "place", !.via = "answered", !.item = item,
                           !.amount = question[s].amount]
            ELSE Idle]
    /\ UNCHANGED <<listed, auction, replies, confirmation, context, seen, script, budget, history>>

-----------------------------------------------------------------------------
(***************************************************************************)
(* The interpretation of a text, on the snapshot.                          *)
(***************************************************************************)
\* The item of the quoted message counts when the text names none.
IsReply(t, p) == /\ task[t].quoted # None /\ p.amount > 0 /\ p.item = None
                 /\ ~p.unknown /\ p.candidates = {}

\* A variation of one item in answer to a message about another: two candidates.
WithQuote(t, p) ==
    LET quoted == task[t].quoted IN
    IF /\ quoted # None /\ p.by = "item_alias" /\ p.item \notin {None, quoted}
       /\ ~p.ambiguous /\ IsOpen(t, quoted)
    THEN Ambiguous(p, "item_alias", {p.item, quoted}) ELSE p

\* collectActiveContextSignal looks at the contexts only when the text has no item.
LooksAtContext(t, p) == /\ ~IsReply(t, p) /\ p.amount > 0 /\ p.item = None
                        /\ ~p.unknown /\ ~p.ambiguous /\ p.candidates = {}

Signal(t, p) ==
    LET disputed == {i \in Items : context[i].age # "none" /\ IsOpen(t, i)}
        takes    == {i \in disputed :
                        p.amount > Max2(task[t].snap[i].leader, context[i].amount)}
        ages     == {context[i].age : i \in takes}
    IN IF ~LooksAtContext(t, p) \/ takes = {} THEN NoSignal
       ELSE [candidates |-> takes, blocked |-> Cardinality(disputed \ takes),
             age |-> IF "hot" \in ages THEN "hot" ELSE IF "warm" \in ages THEN "warm" ELSE "cold"]

Decision(t, p, signal) ==
    LET text   == Text(t)
        first  == IF text = <<>> THEN "" ELSE text[1]
        digits == first \in Digited
        looks  == digits \/ IsAmount(first) \/ isValueOnlyAfterFillers(text)
    IN applyTranscriptionQuality(
            evaluateBidConfidence(p, IsReply(t, p), looks, digits, signal), Quality(Message(t)))

Target(t, p, signal) == IF IsReply(t, p) THEN task[t].quoted
                        ELSE IF Cardinality(signal.candidates) = 1
                        THEN CHOOSE i \in signal.candidates : TRUE ELSE p.item
Via(t, p, signal) == IF IsReply(t, p) THEN "quote"
                     ELSE IF Cardinality(signal.candidates) = 1 THEN "context" ELSE "text"

Decide(t, p, signal) ==
    LET target   == Target(t, p, signal)
        stale    == IsReply(t, p) /\ ~IsOpen(t, task[t].quoted)
        open     == {i \in Items : IsOpen(t, i)}
    IN
    /\ context' = [i \in Items |-> IF LooksAtContext(t, p) /\ i \notin open
                                   THEN NoContext ELSE context[i]]
    /\ \E decision \in {Decision(t, p, signal)} :
        LET next == CASE stale -> "idle"
                      [] ~stale /\ decision = "clarify" -> "clarify"
                      [] ~stale /\ decision = "register" /\ target \in open -> "place"
                      [] ~stale /\ decision = "confirm" /\ target \in open -> "ask"
                      [] OTHER -> "idle"
        IN task' = [task EXCEPT ![t] = IF next = "idle" THEN Idle ELSE
                [@ EXCEPT !.step = next, !.via = Via(t, p, signal), !.amount = p.amount,
                          !.item = IF next = "clarify" THEN None ELSE target,
                          !.any = p.candidates # {} \/ signal.candidates # {} \/ open # {}]]

\* From the snapshot to the audit of the decision.
Interpret(t) ==
    /\ FromSnapshot(t, "text") /\ ~AnswersQuestion(t)
    /\ question' = [question EXCEPT ![Key(t)] = IF @.live THEN @ ELSE NoQuestion]
    /\ \E p \in {WithQuote(t, bid) : bid \in {Understood(Message(t))}} :
           \E signal \in {Signal(t, p)} : Decide(t, p, signal)
    /\ UNCHANGED <<listed, auction, replies, confirmation, seen, script, budget, history>>

\* confirm.
AskConfirmation(t) ==
    /\ task[t].step = "ask" /\ End(t)
    /\ CreateConfirmation(Key(t), task[t].item, task[t].amount)
    /\ UNCHANGED <<listed, auction, replies, context, seen, script, budget, log, routed, outcomes, bids, forgotten>>

\* createContext: the amount waits for its item.
createContext(s, amount) ==
    question' = cleanupExpired([question EXCEPT ![s] = [amount |-> amount, live |-> TRUE]], NoQuestion)

\* clarify.
AskItem(t) ==
    /\ task[t].step = "clarify" /\ End(t) /\ Take(Key(t))
    /\ IF task[t].any THEN createContext(Key(t), task[t].amount) ELSE UNCHANGED question
    /\ UNCHANGED <<listed, auction, replies, context, seen, script, budget, history>>

-----------------------------------------------------------------------------
(***************************************************************************)
(* placeBidEntry: the transaction, the context, the reaction.              *)
(***************************************************************************)
Place(t) ==
    LET i == task[t].item IN
    /\ task[t].step = "place" /\ auction[i].open /\ task[t].amount > auction[i].leader
    /\ auction' = [auction EXCEPT ![i].leader = task[t].amount]
    /\ bids' = Append(bids, [m |-> task[t].m, item |-> i, amount |-> task[t].amount,
                             via |-> task[t].via, id |-> task[t].id, quoted |-> task[t].quoted])
    /\ IF task[t].via = "confirmed" THEN Outcome(task[t].id, "bid") ELSE UNCHANGED outcomes
    /\ Goto(t, "record")
    /\ UNCHANGED <<listed, stores, replies, seen, script, budget, log, routed, asked, forgotten>>

\* Closed, not above the leader, or the database fails: a reply.
Refused(t) ==
    /\ task[t].step = "place"
    /\ ~auction[task[t].item].open \/ task[t].amount <= auction[task[t].item].leader
    /\ End(t)
    /\ UNCHANGED <<listed, auction, stores, replies, seen, script, budget, history>>

Record(t) ==
    /\ task[t].step = "record" /\ Goto(t, "react")
    /\ context' = [context EXCEPT ![task[t].item] = [amount |-> task[t].amount, age |-> "hot"]]
    /\ UNCHANGED <<listed, auction, replies, question, confirmation, seen, script, budget, history>>

\* registerReplyContext: the message of the bid is about the item from now on; the oldest
\* binding leaves at the limit, and the row is written without waiting for it.
WithReply(bindings, q, i) == IF q \in Messages(bindings) THEN bindings
                             ELSE Append(bindings, [message |-> q, item |-> i])
Newest(bindings) == SubSeq(bindings, Max2(1, Len(bindings) - ReplyMax + 1), Len(bindings))

registerReplyContext(q, i) ==
    /\ bound' = Newest(WithReply(bound, q, i))
    /\ unbound' = unbound \cup (Messages(bound) \ Messages(bound'))
    /\ \/ saved' = WithReply(saved, q, i) /\ UNCHANGED budget
       \/ Spend("unsaved") /\ UNCHANGED saved

\* After the reaction the list is put back and what was asked meanwhile is dropped.
React(t) ==
    LET s == Key(t)  via == task[t].via IN
    /\ task[t].step = "react" /\ End(t) /\ listed' = TRUE
    /\ registerReplyContext(BidOf(task[t].m), task[t].item)
    /\ question' = [question EXCEPT
            ![s] = IF via \in {"answered", "cited"} THEN @ ELSE NoQuestion]
    /\ confirmation' = [confirmation EXCEPT
            ![s] = IF via \in {"answered", "cited", "confirmed"} THEN @ ELSE NoConfirmation]
    /\ UNCHANGED <<auction, context, seen, script, history>>

-----------------------------------------------------------------------------
(***************************************************************************)
(* Time, the panel and restarts.                                           *)
(***************************************************************************)
ExpireQuestion(s) ==
    /\ question[s].live /\ Spend("time")
    /\ question' = [question EXCEPT ![s].live = FALSE]
    /\ UNCHANGED <<listed, auction, replies, confirmation, context, seen, task, script, history>>

ExpireConfirmation(s) ==
    /\ confirmation[s].live /\ Spend("time")
    /\ confirmation' = [confirmation EXCEPT ![s].live = FALSE]
    /\ UNCHANGED <<listed, auction, replies, question, context, seen, task, script, history>>

AgeContext(i) ==
    /\ context[i].age # "none" /\ Spend("time")
    /\ context' = [context EXCEPT ![i] =
            CASE @.age = "hot" -> [@ EXCEPT !.age = "warm"]
              [] @.age = "warm" -> [@ EXCEPT !.age = "cold"] [] OTHER -> NoContext]
    /\ UNCHANGED <<listed, auction, replies, question, confirmation, seen, task, script, history>>

CloseItem(i) ==
    /\ auction[i].open /\ Spend("close")
    /\ auction' = [auction EXCEPT ![i].open = FALSE]
    /\ UNCHANGED <<listed, stores, replies, seen, task, script, history>>

CloseList ==
    /\ listed /\ Spend("close") /\ listed' = FALSE
    /\ auction' = [i \in Items |-> [auction[i] EXCEPT !.open = FALSE]]
    /\ UNCHANGED <<stores, replies, seen, task, script, history>>

\* The panel removes the leading bid; the one before it leads again.
RemoveLeader(i) ==
    LET lower == {bids[k].amount : k \in {j \in DOMAIN bids :
                      bids[j].item = i /\ bids[j].amount < auction[i].leader}}
    IN
    /\ auction[i].open /\ auction[i].leader > 0 /\ Spend("remove")
    /\ auction' = [auction EXCEPT ![i].leader =
            IF lower = {} THEN 0 ELSE CHOOSE a \in lower : \A b \in lower : b <= a]
    /\ UNCHANGED <<listed, stores, replies, seen, task, script, history>>

\* sweepReplyBindings: a row of thirty days leaves the database.
SweepReplyBindings ==
    /\ saved # <<>> /\ Spend("sweep") /\ saved' = Tail(saved)
    /\ UNCHANGED <<listed, auction, stores, bound, unbound, seen, task, script, history>>

\* loadReplyContexts: the newest rows whose auction is open.
loadReplyContexts ==
    /\ bound' = Newest(Kept(saved, {k \in DOMAIN saved : auction[saved[k].item].open}))
    /\ unbound' = unbound \cup (Messages(bound) \ Messages(bound'))
    /\ UNCHANGED saved

\* The process stops and starts again with the lists that still have an open auction.
Restart ==
    /\ Spend("restart") /\ loadReplyContexts
    /\ question' = [s \in Senders |-> NoQuestion]
    /\ confirmation' = [s \in Senders |-> NoConfirmation]
    /\ context' = [i \in Items |-> NoContext]
    /\ task' = [t \in Tasks |-> Idle]
    /\ seen' = {} /\ forgotten' = DOMAIN log
    /\ listed' = \E i \in Items : auction[i].open
    /\ UNCHANGED <<auction, script, log, routed, asked, outcomes, bids>>

-----------------------------------------------------------------------------
Init ==
    /\ script \in Scripts /\ budget = Budgets[script]
    /\ listed = TRUE /\ auction = [i \in Items |-> [open |-> TRUE, leader |-> 0]]
    /\ question = [s \in Senders |-> NoQuestion]
    /\ confirmation = [s \in Senders |-> NoConfirmation]
    /\ context = [i \in Items |-> NoContext]
    /\ seen = {} /\ task = [t \in Tasks |-> Idle]
    /\ log = <<>> /\ routed = {} /\ asked = <<>> /\ outcomes = {} /\ bids = <<>>
    /\ forgotten = {}
    /\ bound = Newest([k \in DOMAIN Catalog |-> [message |-> Card(Catalog[k].id), item |-> Catalog[k].id]])
    /\ saved = bound /\ unbound = {Card(i) : i \in Items} \ Messages(bound)

Work(t) ==
    \/ Lost(t) \/ Download(t) \/ transcribeAudioFails(t) \/ NotOfList(t) \/ CiteItem(t) \/ HandleListBid(t)
    \/ AnswerExpired(t) \/ Reject(t) \/ Correct(t) \/ Confirm(t) \/ ReadSnapshot(t)
    \/ PlaceCited(t) \/ registerConfirmedBid(t) \/ PlaceAnswered(t) \/ Interpret(t)
    \/ AskConfirmation(t) \/ AskItem(t) \/ Place(t) \/ Refused(t) \/ Record(t) \/ React(t)

Next ==
    \/ \E t \in Tasks : Work(t)
    \/ \E t \in Tasks : Deliver(t)
    \/ \E t \in Tasks : \E m \in DOMAIN log : Redeliver(t, m)
    \/ \E m \in DOMAIN log : DropMark(m)
    \/ \E s \in Senders : ExpireQuestion(s) \/ ExpireConfirmation(s)
    \/ \E i \in Items : AgeContext(i) \/ CloseItem(i) \/ RemoveLeader(i)
    \/ CloseList \/ SweepReplyBindings \/ Restart

Spec == Init /\ [][Next]_vars
-----------------------------------------------------------------------------
(***************************************************************************)
(* Properties.                                                             *)
(***************************************************************************)
\* Types of the state.
ConversationTypeOK ==
    /\ listed \in BOOLEAN /\ DOMAIN auction = Items /\ DOMAIN context = Items
    /\ \A i \in Items : auction[i].open \in BOOLEAN /\ auction[i].leader \in Nat
    /\ \A s \in Senders : /\ question[s].amount \in Nat
                          /\ confirmation[s].id \in 0 .. Len(asked)
                          /\ confirmation[s].item \in IF confirmation[s].live THEN Items ELSE Items \cup {None}
    /\ Len(bound) <= ReplyMax /\ \A k \in DOMAIN bound : bound[k].item \in Items
    /\ seen \subseteq DOMAIN log /\ forgotten \subseteq DOMAIN log
    /\ \A t \in Tasks : task[t].m \in 0 .. Len(log) /\ task[t].item \in Items \cup {None}
    /\ \A k \in DOMAIN bids : bids[k].m \in DOMAIN log /\ bids[k].item \in Items

\* A participant is never asked for the item and for a confirmation at once, however the
\* messages it sends overlap (clarify, createConfirmation, placeBidEntry).
OneQuestionAtATime ==
    \A s \in Senders : question[s] = NoQuestion \/ confirmation[s] = NoConfirmation

\* A message places one bid even when it is delivered again and its bid was removed
\* meanwhile, unless its mark was lost; and a confirmation is answered once: what the
\* participant was told is cancelled or corrected is never placed.
NothingTwice ==
    /\ \A j, k \in DOMAIN bids : j # k /\ bids[j].m = bids[k].m => bids[j].m \in forgotten
    /\ \A x, y \in outcomes : x[1] = y[1] => x = y

\* Where the item and the amount of a bid come from, p being what its message says.
Sourced(k, bid, msg, p) ==
    CASE bid.via = "confirmed" ->
           /\ asked[bid.id] = [to |-> msg.from, item |-> bid.item, amount |-> bid.amount]
           /\ parseConfirmationResponse(Heard(msg)).kind = "confirm"
      [] bid.via = "answered" ->
           /\ Len(itemAnswer(msg)) = 1 /\ bid.item \in Numbered(Amount[itemAnswer(msg)[1]])
           /\ \E m \in DOMAIN log :
               /\ m # bid.m \/ bid.m \in forgotten
               /\ log[m].from = msg.from /\ Understood(log[m]).amount = bid.amount
      [] OTHER ->
           /\ bid.amount = p.amount
           /\ p.item # None => bid.item = p.item
           /\ p.item = None /\ bid.quoted # None => bid.item = bid.quoted
           /\ p.item = None /\ bid.quoted = None
                 => \E j \in 1 .. k - 1 : bids[j].item = bid.item /\ bids[j].amount < bid.amount
           /\ bid.via # "cited" => ~Muffled(Quality(msg))

\* The item of the quoted message is its own, and is known unless its binding was lost.
QuotedRight(bid, q) ==
    /\ bid.quoted # None =>
           q = Card(bid.quoted) \/ \E j \in DOMAIN bids : q = BidOf(bids[j].m) /\ bids[j].item = bid.quoted
    /\ q \in {Card(i) : i \in Items} \ unbound /\ bid.via \in {"cited", "quote", "context", "text"}
           => bid.quoted # None

\* A bid is for an item and an amount its own author said, cited, was asked about or
\* confirmed, and the item named in the text wins over every context.
BidIsWhatWasSaid ==
    \A k \in DOMAIN bids : \E msg \in {log[bids[k].m]} :
        \E p \in {Understood(msg)} : Sourced(k, bids[k], msg, p) /\ QuotedRight(bids[k], msg.quotes)

Registers(p) == p.amount > 0 /\ p.item # None /\ ByMatch(p) = "register"
Entering     == {log[task[t].m] : t \in {u \in Tasks : task[u].step = "resolve"}}

\* The number stands in several names and is no item's own: resolveByNumber takes the first.
TakesFirstName(text) ==
    \E n \in Range(text) \cap Numerals :
        /\ Numbered(Amount[n]) = {}
        /\ Cardinality({i \in DOMAIN Catalog : \E w \in Range(Catalog[i].name) :
                            Amount[n] = IF IsAmount(w) THEN Amount[w] ELSE 0}) > 1

\* What is registered at once does not depend on the order of the list: the interpreter
\* never picks one of several items that match alike (checkUniqueMatch, decideWithAlias).
OrderBlind ==
    \A text \in {Heard(msg) : msg \in Entering} : \A p \in {parseMessage(Catalog, text)} :
        Registers(p) /\ ~TakesFirstName(text)
        => parseMessage(Reverse(Catalog), text).item = p.item

\* Two numbers said in a row are heard as one, as in "item dois quarenta e seis", unless
\* the first ends in a unit or a ten and the second begins with a hundred.
RunTogether(said) ==
    \E i \in 1 .. Len(said) - 1 :
        /\ {said[i], said[i + 1]} \subseteq Numerals
        /\ ~(Amount[said[i]] % 100 # 0 /\ Amount[said[i + 1]] \in 100 .. 999)

\* With no word for money beside it, a "um" stays a word, and so does a "mil" before a word
\* that may belong to a name ("bolo de mil folhas").
StaysWord(said) ==
    \E i \in DOMAIN said :
        LET beside == {said[j] : j \in {i - 1, i + 1} \cap DOMAIN said} IN
        /\ said[i] \in Numerals /\ beside \cap MoneyMarkers = {}
        /\ \/ Amount[said[i]] = 1
           \/ Amount[said[i]] = 1000 /\ i < Len(said) /\ said[i + 1] \notin LanceContext

\* "NUNCA escolhe arbitrariamente entre itens semelhantes (regra de ouro)": the order of the
\* list never decides which item is registered at once, whatever the text.
NeverArbitrary ==
    \A text \in {Heard(msg) : msg \in Entering} : \A p \in {parseMessage(Catalog, text)} :
        Registers(p) => parseMessage(Reverse(Catalog), text).item = p.item

\* "qualidade < 0,7 rebaixa `register` para `confirm`": a recording that was hardly heard
\* makes no bid before its author confirms it.
MuffledIsConfirmed == \A k \in DOMAIN bids : ~Muffled(Quality(log[bids[k].m]))

\* A spoken bid is understood as the same bid typed with digits (spokenNumbersToDigits),
\* except where its numbers run together or are not taken for numbers.
SpokenAgrees ==
    \A msg \in {x \in Entering : IsAudio(x)} :
        \A heard \in {Understood(msg)} : \A typed \in {parseMessage(Catalog, msg.said)} :
            \/ RunTogether(msg.said) \/ StaysWord(msg.said)
            \/ heard.amount = typed.amount /\ heard.item = typed.item

\* What is no number stays as it was said: two numbers in a row never become one ("A função
\* NUNCA adivinha: o que não for número permanece intacto").
NeverGuesses ==
    \A msg \in {x \in Entering : IsAudio(x)} : Len(Heard(msg)) >= Len(msg.said)

\* Text that names another item in full, or by a variation, is never registered at once:
\* the bot asks which one ("NUNCA escolhe arbitrariamente entre itens semelhantes").
OtherItemIsAsked ==
    \A k \in DOMAIN bids :
        LET text == stripFillerWords(Heard(log[bids[k].m])) IN
        bids[k].via = "text" =>
            \A i \in DOMAIN Catalog : Has(text, stripFillerWords(Catalog[i].name))
                                     => Catalog[i].id = bids[k].item

\* A command is executed and never taken for a bid (CommandRouter.route).
CommandIsExecuted ==
    \A r \in routed : IsCommand(log[r[1]]) => r[2] = "command"
=============================================================================
