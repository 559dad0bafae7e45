---------------------------- MODULE BillingProofs ----------------------------
(***************************************************************************)
(* What holds of Billing for any number of charges, calls, requests,       *)
(* groups and plans, and any budget of events:                             *)
(*   BillingTypeCorrect  the type invariant;                               *)
(*   SettledSafety       the rows agree with what the gateway reached;     *)
(*   ActivationSafety    one activation per payment;                       *)
(*   PlanSafety          the plan's number of groups.                      *)
(***************************************************************************)
EXTENDS Billing, FiniteSetTheorems, TLAPS

\* The calls between two awaits, and what Init's scenes give the rest.
CallType ==
    [op : {"none", "pix", "webhook", "sync"},
     step : {"idle", "resolve", "charge", "store", "find", "next", "ask", "apply"},
     k : Payments \cup {None}, rest : SUBSET Payments,
     answer : {"none", "pending", "approved", "refused", "refunded"}]

\* A call that works on a payment has one; what it may answer was an answer of the
\* gateway when it asked.
Working(c) == call[c].step \in {"store", "find", "ask", "apply"} \/ call[c].op = "webhook"

CallOK ==
    /\ call \in [Caller -> CallType]
    /\ \A c \in Caller : Working(c) => call[c].k \in Payments
    /\ activated \in [Payments -> 0 .. 2]
    /\ creating \in [Creator -> {"idle", "count", "insert"}]

Typed == BillingTypeOK /\ CallOK

LEMMA NoneFact == None \notin Payments
  BY DEF None, Payments

LEMMA IdleFact == IdleCall \in CallType /\ IdleCall.step = "idle" /\ IdleCall.k = None /\ IdleCall.op = "none"
  BY DEF IdleCall, CallType

LEMMA TypedInit == Init => Typed
  <1>. SUFFICES ASSUME Init PROVE Typed
    OBVIOUS
  <1>1. BillingTypeOK
    <2>1. subscription \in Subscription /\ limit \in Limits
      BY BillingAssumption DEF Init
    <2>2. /\ payment \in [Payments -> {"none", "PENDING", "PAID", "FAILED"}]
          /\ gateway \in [Payments -> {"none", "pending", "approved", "refused", "refunded"}]
      BY DEF Init
    <2>3. \A c \in Caller : call[c].k \in Payments \cup {None}
      BY IdleFact DEF Init
    <2>4. page \in [view : {"loading", "paywall", "panel"}, qr : Payments \cup {None},
                    polling : BOOLEAN]
      BY DEF Init, Blank
    <2>. QED  BY <2>1, <2>2, <2>3, <2>4 DEF Init, BillingTypeOK
  <1>2. CallOK
    BY IdleFact DEF Init, CallOK, Working
  <1>. QED  BY <1>1, <1>2 DEF Typed

-----------------------------------------------------------------------------
(***************************************************************************)
(* Types: one lemma per group of actions.                                  *)
(***************************************************************************)
\* One call moves, to a state of the right type.
LEMMA MoveTyped ==
    ASSUME CallOK, NEW c \in Caller, NEW v \in CallType,
           v.step \in {"store", "find", "ask", "apply"} \/ v.op = "webhook" => v.k \in Payments,
           call' = [call EXCEPT ![c] = v],
           activated' \in [Payments -> 0 .. 2], UNCHANGED creating
    PROVE  CallOK' /\ \A d \in Caller : call'[d].k \in Payments \cup {None}
  <1>1. call' \in [Caller -> CallType]
    BY DEF CallOK
  <1>2. \A d \in Caller : call'[d] = IF d = c THEN v ELSE call[d]
    BY DEF CallOK
  <1>3. \A d \in Caller : call'[d].k \in Payments \cup {None}
    BY <1>1 DEF CallType
  <1>. QED  BY <1>1, <1>2, <1>3 DEF CallOK, Working

\* What SyncEnds and Confirmed do.
LEMMA PageTyped ==
    ASSUME Typed, NEW active \in BOOLEAN, SyncEnds(active) \/ page' = Blank
    PROVE  page' \in [view : {"loading", "paywall", "panel"}, qr : Payments \cup {None},
                      polling : BOOLEAN]
  <1>1. Blank \in [view : {"loading", "paywall", "panel"}, qr : Payments \cup {None},
                   polling : BOOLEAN]
    BY DEF Blank
  <1>. QED  BY <1>1 DEF Typed, BillingTypeOK, SyncEnds

LEMMA ConfirmedTyped ==
    ASSUME Typed, NEW c \in Caller, NEW active \in BOOLEAN, Confirmed(c, active),
           activated' \in [Payments -> 0 .. 2], UNCHANGED creating
    PROVE  /\ CallOK' /\ \A d \in Caller : call'[d].k \in Payments \cup {None}
           /\ page' \in [view : {"loading", "paywall", "panel"}, qr : Payments \cup {None},
                         polling : BOOLEAN]
  <1>1. CASE call' = [call EXCEPT ![c] = IdleCall]
    <2>1. CallOK' /\ \A d \in Caller : call'[d].k \in Payments \cup {None}
      BY <1>1, IdleFact DEF Typed, CallOK, CallType, Working
    <2>2. UNCHANGED page \/ SyncEnds(TRUE)
      BY DEF Confirmed
    <2>. QED  BY <2>1, <2>2, PageTyped DEF Typed, BillingTypeOK
  <1>2. CASE /\ call[c].op # "webhook" /\ UNCHANGED page
             /\ call' = [call EXCEPT ![c].step = "next", ![c].k = None, ![c].answer = "none"]
    <2>. DEFINE v == [call[c] EXCEPT !.step = "next", !.k = None, !.answer = "none"]
    <2>1. v \in CallType /\ v.step = "next" /\ v.op # "webhook"
      BY <1>2 DEF Typed, CallOK, CallType
    <2>2. call' = [call EXCEPT ![c] = v]
      BY <1>2 DEF Typed, CallOK
    <2>. HIDE DEF v
    <2>. QED  BY <1>2, <2>1, <2>2, MoveTyped DEF Typed, BillingTypeOK
  <1>. QED  BY <1>1, <1>2 DEF Confirmed

LEMMA PixTyped ==
    ASSUME Typed, NEW c \in Caller,
           GeneratePix(c) \/ ResolveSubscription(c) \/ Charge(c) \/ ChargeFails(c) \/ StorePayment(c)
    PROVE  Typed'
  <1>. USE DEF Typed, BillingTypeOK, billing, grouped, beyond
  <1>0. call \in [Caller -> CallType] /\ CallOK /\ activated \in [Payments -> 0 .. 2]
    BY DEF CallOK
  <1>1. CASE GeneratePix(c)
    <2>. DEFINE v == [IdleCall EXCEPT !.op = "pix", !.step = "resolve"]
    <2>1. v \in CallType /\ v.step = "resolve" /\ v.op = "pix"
      BY DEF IdleCall, CallType
    <2>2. call' = [call EXCEPT ![c] = v]
      BY <1>1 DEF GeneratePix
    <2>. HIDE DEF v
    <2>4. /\ CallOK' /\ \A d \in Caller : call'[d].k \in Payments \cup {None}
      BY <1>0, <1>1, <2>1, <2>2, MoveTyped DEF GeneratePix
    <2>. QED  BY <1>1, <2>4 DEF GeneratePix
  <1>2. CASE ResolveSubscription(c)
    <2>. DEFINE v == [call[c] EXCEPT !.step = "charge"]
    <2>1. v \in CallType /\ v.step = "charge" /\ v.k = call[c].k /\ v.op = call[c].op
      BY <1>0 DEF CallType
    <2>3. call' = [call EXCEPT ![c] = v]
      BY <1>0, <1>2 DEF ResolveSubscription, Goto
    <2>4. v.op = "webhook" => v.k \in Payments
      BY <2>1, <1>0 DEF CallOK, Working
    <2>. HIDE DEF v
    <2>2. subscription' \in Subscription
      BY <1>2 DEF ResolveSubscription, Subscription
    <2>. QED  BY <1>0, <1>2, <2>1, <2>2, <2>3, <2>4, MoveTyped DEF ResolveSubscription
  <1>3. CASE Charge(c)
    <2>1. PICK k \in Payments :
              /\ gateway' = [gateway EXCEPT ![k] = "pending"]
              /\ call' = [call EXCEPT ![c].step = "store", ![c].k = k]
      BY <1>3 DEF Charge
    <2>. DEFINE v == [call[c] EXCEPT !.step = "store", !.k = k]
    <2>2. v \in CallType /\ v.k = k
      <3>1. call[c] \in CallType
        BY <1>0
      <3>. HIDE DEF Typed, BillingTypeOK
      <3>. QED  BY <3>1 DEF CallType
    <2>3. call' = [call EXCEPT ![c] = v]
      BY <1>0, <2>1
    <2>. HIDE DEF v
    <2>4. /\ CallOK' /\ \A d \in Caller : call'[d].k \in Payments \cup {None}
      BY <1>0, <1>3, <2>2, <2>3, MoveTyped DEF Charge
    <2>. QED  BY <1>3, <2>1, <2>4 DEF Charge
  <1>4. CASE ChargeFails(c)
    BY <1>0, <1>4, MoveTyped, IdleFact DEF ChargeFails
  <1>5. CASE StorePayment(c)
    <2>1. call[c].k \in Payments
      BY <1>5 DEF StorePayment, CallOK, Working
    <2>. QED  BY <1>0, <1>5, <2>1, MoveTyped, IdleFact DEF StorePayment
  <1>. QED  BY <1>1, <1>2, <1>3, <1>4, <1>5

LEMMA ConfirmTyped ==
    ASSUME Typed, NEW c \in Caller,
           \/ \E k \in Payments : HandleWebhook(c, k)
           \/ SyncTimer(c) \/ SyncByHand(c) \/ SyncNext(c)
           \/ FindPayment(c) \/ AskGateway(c) \/ AskFails(c) \/ ApplyAnswer(c)
    PROVE  Typed'
  <1>. USE DEF Typed, BillingTypeOK, billing, grouped, beyond
  <1>0. call \in [Caller -> CallType] /\ CallOK /\ activated \in [Payments -> 0 .. 2]
    BY DEF CallOK
  <1>1. CASE \E k \in Payments : HandleWebhook(c, k)
    <2>1. PICK k \in Payments : HandleWebhook(c, k)
      BY <1>1
    <2>. DEFINE v == [IdleCall EXCEPT !.op = "webhook", !.step = "find", !.k = k]
    <2>2. v \in CallType /\ v.k = k
      BY DEF IdleCall, CallType
    <2>3. call' = [call EXCEPT ![c] = v] /\ due' \subseteq Payments
      BY <2>1 DEF HandleWebhook
    <2>. HIDE DEF v
    <2>. QED  BY <1>0, <2>1, <2>2, <2>3, MoveTyped DEF HandleWebhook
  <1>2. CASE SyncTimer(c) \/ SyncByHand(c)
    <2>. DEFINE v == [IdleCall EXCEPT !.op = "sync", !.step = "next", !.rest = Pendings]
    <2>1. Pendings \subseteq Payments
      BY DEF Pendings
    <2>2. v \in CallType /\ v.step = "next" /\ v.op = "sync"
      BY <2>1 DEF IdleCall, CallType
    <2>3. call' = [call EXCEPT ![c] = v]
      BY <1>2 DEF SyncTimer, SyncByHand, Sync
    <2>. HIDE DEF v
    <2>4. /\ CallOK' /\ \A d \in Caller : call'[d].k \in Payments \cup {None}
      BY <1>0, <1>2, <2>2, <2>3, MoveTyped DEF SyncTimer, SyncByHand, Sync
    <2>. QED  BY <1>2, <2>4 DEF SyncTimer, SyncByHand, Sync
  <1>3. CASE SyncNext(c)
    <2>1. CASE SyncEnds(FALSE) /\ call' = [call EXCEPT ![c] = IdleCall]
      BY <1>0, <1>3, <2>1, PageTyped, MoveTyped, IdleFact DEF SyncNext
    <2>2. ASSUME NEW k \in call[c].rest, UNCHANGED page,
                 call' = [call EXCEPT ![c].step = "find", ![c].k = k, ![c].rest = @ \ {k}]
          PROVE  Typed'
      <3>. DEFINE v == [call[c] EXCEPT !.step = "find", !.k = k, !.rest = @ \ {k}]
      <3>1. v \in CallType /\ v.k = k /\ k \in Payments
        BY <1>0, <2>2 DEF CallType
      <3>2. call' = [call EXCEPT ![c] = v]
        BY <1>0, <2>2
      <3>. HIDE DEF v
      <3>3. /\ CallOK' /\ \A d \in Caller : call'[d].k \in Payments \cup {None}
        BY <1>0, <1>3, <3>1, <3>2, MoveTyped DEF SyncNext
      <3>. QED  BY <1>3, <2>2, <3>3 DEF SyncNext
    <2>. QED  BY <1>3, <2>1, <2>2 DEF SyncNext
  <1>4. CASE FindPayment(c)
    <2>1. CASE Confirmed(c, FALSE)
      BY <1>0, <1>4, <2>1, ConfirmedTyped DEF FindPayment
    <2>2. CASE Goto(c, "ask") /\ UNCHANGED page
      <3>. DEFINE v == [call[c] EXCEPT !.step = "ask"]
      <3>1. v \in CallType /\ v.k \in Payments /\ call' = [call EXCEPT ![c] = v]
        BY <1>0, <1>4, <2>2 DEF CallType, Goto, CallOK, Working, FindPayment
      <3>. HIDE DEF v
      <3>. QED  BY <1>0, <1>4, <2>2, <3>1, MoveTyped DEF FindPayment
    <2>. QED  BY <1>4, <2>1, <2>2 DEF FindPayment
  <1>5. CASE AskGateway(c)
    <2>. DEFINE v == [call[c] EXCEPT !.step = "apply", !.answer = gateway[call[c].k]]
    <2>1. call[c].k \in Payments
      BY <1>5 DEF AskGateway, CallOK, Working
    <2>2. v \in CallType /\ v.k \in Payments /\ v.step = "apply"
      <3>1. /\ call[c] \in CallType
            /\ gateway[call[c].k] \in {"none", "pending", "approved", "refused", "refunded"}
        BY <1>0, <2>1
      <3>. HIDE DEF Typed, BillingTypeOK
      <3>. QED  BY <2>1, <3>1 DEF CallType
    <2>3. call' = [call EXCEPT ![c] = v]
      BY <1>0, <1>5 DEF AskGateway
    <2>. HIDE DEF v
    <2>4. /\ CallOK' /\ \A d \in Caller : call'[d].k \in Payments \cup {None}
      <3>. HIDE DEF Typed, BillingTypeOK
      <3>. QED  BY <1>0, <1>5, <2>2, <2>3, MoveTyped DEF AskGateway
    <2>. QED  BY <1>5, <2>4 DEF AskGateway
  <1>6. CASE AskFails(c)
    <2>1. call[c].k \in Payments
      BY <1>6 DEF AskFails, CallOK, Working
    <2>2. due' \subseteq Payments /\ Confirmed(c, FALSE)
      BY <1>6, <2>1 DEF AskFails
    <2>. QED  BY <1>0, <1>6, <2>2, ConfirmedTyped DEF AskFails
  <1>7. CASE ApplyAnswer(c)
    <2>1. activated' \in [Payments -> 0 .. 2]
      <3>1. \A n \in 0 .. 2 : n < 2 => n + 1 \in 0 .. 2
        OBVIOUS
      <3>2. activated' = [activated EXCEPT ![call[c].k] =
                            IF call[c].answer = "approved" /\ @ < 2 THEN @ + 1 ELSE @]
        BY <1>7 DEF ApplyAnswer
      <3>3. call[c].k \in Payments
        BY <1>7 DEF ApplyAnswer, CallOK, Working
      <3>. HIDE DEF Typed, BillingTypeOK
      <3>. QED  BY <1>0, <3>1, <3>2, <3>3
    <2>2. /\ subscription' \in Subscription
          /\ payment' \in [Payments -> {"none", "PENDING", "PAID", "FAILED"}]
      BY <1>7 DEF ApplyAnswer, Subscription
    <2>. QED  BY <1>7, <2>1, <2>2, ConfirmedTyped DEF ApplyAnswer
  <1>. QED  BY <1>1, <1>2, <1>3, <1>4, <1>5, <1>6, <1>7

LEMMA WorldTyped ==
    ASSUME Typed,
           \/ \E k \in Payments : Pay(k) \/ Refuse(k)
           \/ LoadGate \/ Poll \/ Reload \/ AdminUpdate \/ TrialEnds \/ Crash
    PROVE  Typed'
  <1>. USE DEF Typed, BillingTypeOK, CallOK, billing, grouped, beyond
  <1>1. CASE \E k \in Payments : Pay(k) \/ Refuse(k)
    BY <1>1 DEF Pay, Refuse, Notify, Working
  <1>2. CASE LoadGate
    BY <1>2 DEF LoadGate, Working
  <1>3. CASE Poll \/ Reload
    BY <1>3, PageTyped DEF Poll, Reload, Working
  <1>4. CASE AdminUpdate
    BY <1>4 DEF AdminUpdate, Working, Subscription
  <1>5. CASE TrialEnds
    BY <1>5 DEF TrialEnds, Working, Subscription
  <1>6. CASE Crash
    <2>1. \A c \in Caller : call[c].op = "webhook" => call[c].k \in Payments
      BY DEF Working
    <2>. QED  BY <1>6, <2>1, IdleFact DEF Crash, Working
  <1>. QED  BY <1>1, <1>2, <1>3, <1>4, <1>5, <1>6

LEMMA GroupTyped ==
    ASSUME Typed,
           \/ \E g \in Creator : CreateGroup(g) \/ AssertCanCreateGroup(g) \/ InsertGroup(g)
           \/ GenerateLinkCode \/ LinkCodeAges \/ LinkGroup \/ RemoveGroup
    PROVE  Typed'
  <1>. USE DEF Typed, BillingTypeOK, CallOK, Working, billing, beyond
  <1>1. CASE \E g \in Creator : CreateGroup(g) \/ AssertCanCreateGroup(g)
    BY <1>1 DEF CreateGroup, AssertCanCreateGroup, Passes
  <1>2. CASE \E g \in Creator : InsertGroup(g)
    BY <1>2 DEF InsertGroup
  <1>3. CASE GenerateLinkCode \/ LinkCodeAges \/ LinkGroup \/ RemoveGroup
    BY <1>3 DEF GenerateLinkCode, LinkCodeAges, LinkGroup, RemoveGroup
  <1>. QED  BY <1>1, <1>2, <1>3

LEMMA TypedNext == Typed /\ [Next]_vars => Typed'
  <1>. SUFFICES ASSUME Typed, [Next]_vars PROVE Typed'
    OBVIOUS
  <1>1. CASE UNCHANGED vars
    BY <1>1 DEF Typed, BillingTypeOK, CallOK, Working, vars, billing, grouped, beyond
  <1>. QED
    BY <1>1, PixTyped, ConfirmTyped, WorldTyped, GroupTyped DEF Next, Serve, Groups

\* Every variable keeps its type, whatever calls, notifications and crashes overlap.
THEOREM BillingTypeCorrect == Spec => []BillingTypeOK
  <1>1. Typed => BillingTypeOK
    BY DEF Typed
  <1>. QED  BY <1>1, TypedInit, TypedNext, PTL DEF Spec

-----------------------------------------------------------------------------
(***************************************************************************)
(* What the actions do, one call at a time.                                *)
(***************************************************************************)
\* A confirmation that ends works on no payment any more.
LEMMA ConfirmedFact ==
    ASSUME Typed, NEW c \in Caller, NEW active \in BOOLEAN, Confirmed(c, active)
    PROVE  /\ call'[c].step \in {"idle", "next"}
           /\ \A d \in Caller \ {c} : call'[d] = call[d]
  <1>0. call \in [Caller -> CallType]
    BY DEF Typed, CallOK
  <1>1. CASE call' = [call EXCEPT ![c] = IdleCall]
    BY <1>0, <1>1, IdleFact
  <1>2. CASE call' = [call EXCEPT ![c].step = "next", ![c].k = None, ![c].answer = "none"]
    BY <1>0, <1>2 DEF CallType
  <1>. QED  BY <1>1, <1>2 DEF Confirmed

\* Of the calls of a step only one moves.  Where it asks or applies afterwards it did find
\* a payment that was not PAID, or asked the gateway, in this step.
Moves(c) ==
    /\ \A d \in Caller \ {c} : call'[d] = call[d]
    /\ call'[c].step = "ask" =>
           /\ call[c].step = "find" /\ call'[c].k = call[c].k
           /\ payment[call[c].k] \notin {"none", "PAID"}
           /\ overlapped' = IF Confirming(call[c].k) # {} THEN overlapped \cup {call[c].k}
                                                          ELSE overlapped
           /\ UNCHANGED <<payment, gateway, activated>>
    /\ call'[c].step = "apply" =>
           /\ call[c].step = "ask" /\ call'[c].k = call[c].k
           /\ call'[c].answer = gateway[call[c].k]
           /\ UNCHANGED <<payment, gateway, activated, overlapped>>
    /\ call'[c].step = "store" =>
           /\ call'[c].k \in Payments /\ gateway[call'[c].k] = "none"
           /\ gateway' = [gateway EXCEPT ![call'[c].k] = "pending"]
           /\ UNCHANGED <<payment, activated, overlapped>>

\* The rows and charges change only so.
Writes(c) ==
    \/ UNCHANGED <<payment, gateway, activated>>
    \/ /\ call'[c].step = "store" /\ UNCHANGED <<payment, activated>>
    \/ /\ call[c].step = "store" /\ call'[c].step = "idle"
       /\ payment' = [payment EXCEPT ![call[c].k] = "PENDING"]
       /\ UNCHANGED <<gateway, activated>>
    \/ /\ call[c].step = "apply" /\ call'[c].step \in {"idle", "next"}
       /\ LET k == call[c].k  answer == call[c].answer IN
          /\ payment' = [payment EXCEPT ![k] = IF answer = "approved" THEN "PAID"
                                               ELSE IF answer \in Refused THEN "FAILED" ELSE @]
          /\ activated' = [activated EXCEPT ![k] = IF answer = "approved" /\ @ < 2
                                                   THEN @ + 1 ELSE @]
       /\ UNCHANGED gateway

CallerStep(c) ==
    \/ GeneratePix(c) \/ ResolveSubscription(c) \/ Charge(c) \/ ChargeFails(c) \/ StorePayment(c)
    \/ \E k \in Payments : HandleWebhook(c, k)
    \/ SyncTimer(c) \/ SyncByHand(c) \/ SyncNext(c)
    \/ FindPayment(c) \/ AskGateway(c) \/ AskFails(c) \/ ApplyAnswer(c)

LEMMA CallerFact ==
    ASSUME Typed, NEW c \in Caller, CallerStep(c)
    PROVE  Moves(c) /\ Writes(c) /\ (call'[c].step # "ask" => UNCHANGED overlapped)
  <1>0. call \in [Caller -> CallType]
    BY DEF Typed, CallOK
  <1>. USE <1>0, IdleFact DEF Moves, Writes, billing
  <1>1. CASE GeneratePix(c)
    BY <1>1 DEF GeneratePix, IdleCall
  <1>2. CASE ResolveSubscription(c)
    BY <1>2 DEF ResolveSubscription, Goto, CallType
  <1>3. CASE Charge(c)
    BY <1>3 DEF Charge, CallType
  <1>4. CASE ChargeFails(c)
    BY <1>4 DEF ChargeFails
  <1>5. CASE StorePayment(c)
    BY <1>5 DEF StorePayment
  <1>6. CASE \E k \in Payments : HandleWebhook(c, k)
    BY <1>6 DEF HandleWebhook, IdleCall
  <1>7. CASE SyncTimer(c) \/ SyncByHand(c)
    BY <1>7 DEF SyncTimer, SyncByHand, Sync, IdleCall
  <1>8. CASE SyncNext(c)
    <2>1. CASE call' = [call EXCEPT ![c] = IdleCall]
      BY <1>8, <2>1 DEF SyncNext
    <2>2. ASSUME NEW k \in call[c].rest,
                 call' = [call EXCEPT ![c].step = "find", ![c].k = k, ![c].rest = @ \ {k}]
          PROVE  call'[c].step = "find" /\ \A d \in Caller \ {c} : call'[d] = call[d]
      <3>. HIDE DEF Moves, Writes
      <3>. QED  BY <2>2 DEF CallType
    <2>. QED  BY <1>8, <2>1, <2>2 DEF SyncNext
  <1>9. CASE FindPayment(c)
    <2>1. CASE Confirmed(c, FALSE) /\ UNCHANGED overlapped
      BY <1>9, <2>1, ConfirmedFact DEF FindPayment
    <2>2. CASE payment[call[c].k] \notin {"none", "PAID"}
      BY <1>9, <2>2 DEF FindPayment, Goto, CallType
    <2>. QED  BY <1>9, <2>1, <2>2 DEF FindPayment
  <1>10. CASE AskGateway(c)
    BY <1>10 DEF AskGateway, CallType
  <1>11. CASE AskFails(c)
    BY <1>11, ConfirmedFact DEF AskFails
  <1>12. CASE ApplyAnswer(c)
    BY <1>12, ConfirmedFact DEF ApplyAnswer
  <1>. QED
    BY <1>1, <1>2, <1>3, <1>4, <1>5, <1>6, <1>7, <1>8, <1>9, <1>10, <1>11, <1>12 DEF CallerStep

-----------------------------------------------------------------------------
(***************************************************************************)
(* Rows and charges.  An answer that is waiting to be written is still     *)
(* true when it is: an approved charge can only be refunded, and nothing   *)
(* leads out of a refusal.                                                 *)
(***************************************************************************)
Settling ==
    /\ SettledAgrees
    /\ \A c \in Caller : call[c].step = "apply" =>
           LET k == call[c].k  answer == call[c].answer IN
           /\ answer = "approved" => gateway[k] \in {"approved", "refunded"}
           /\ answer \in Refused => gateway[k] \in Refused

\* What a charge reached, it keeps.
GatewayMovesOn ==
    \A k \in Payments :
        /\ gateway[k] \in {"approved", "refunded"} => gateway'[k] \in {"approved", "refunded"}
        /\ gateway[k] \in Refused => gateway'[k] \in Refused

LEMMA SettlingKept ==
    ASSUME Typed, Settling, GatewayMovesOn, UNCHANGED payment,
           \A c \in Caller : call'[c].step = "apply" => call'[c] = call[c]
    PROVE  Settling'
  <1>1. \A c \in Caller : call[c].step = "apply" => call[c].k \in Payments
    BY DEF Typed, CallOK, Working
  <1>. QED  BY <1>1 DEF Settling, SettledAgrees, GatewayMovesOn, Typed, CallOK

LEMMA SettlingNext == Typed /\ Settling /\ [Next]_vars => Settling'
  <1>. SUFFICES ASSUME Typed, Settling, [Next]_vars PROVE Settling'
    OBVIOUS
  <1>0. /\ payment \in [Payments -> {"none", "PENDING", "PAID", "FAILED"}]
        /\ gateway \in [Payments -> {"none", "pending", "approved", "refused", "refunded"}]
        /\ \A c \in Caller : Working(c) => call[c].k \in Payments
    BY DEF Typed, BillingTypeOK, CallOK
  <1>1. CASE UNCHANGED <<payment, gateway, call>>
    BY <1>1 DEF Settling, SettledAgrees
  <1>2. ASSUME NEW c \in Caller, CallerStep(c) PROVE Settling'
    <2>1. Moves(c) /\ Writes(c)
      BY <1>2, CallerFact
    <2>2. \A d \in Caller \ {c} : call'[d] = call[d]
      BY <2>1 DEF Moves
    <2>3. CASE UNCHANGED <<payment, gateway>>
      <3>1. call'[c].step = "apply" => /\ call'[c].k = call[c].k
                                       /\ call'[c].answer = gateway[call[c].k]
        BY <2>1 DEF Moves
      <3>. QED  BY <2>2, <2>3, <3>1 DEF Settling, SettledAgrees, Refused
    <2>4. CASE call'[c].step = "store" /\ UNCHANGED payment
      <3>1. PICK k \in Payments : gateway[k] = "none" /\ gateway' = [gateway EXCEPT ![k] = "pending"]
        BY <2>1, <2>4 DEF Moves
      <3>2. GatewayMovesOn
        BY <1>0, <3>1 DEF GatewayMovesOn, Refused
      <3>. QED  BY <2>2, <2>4, <3>2, SettlingKept
    <2>5. CASE /\ call'[c].step = "idle" /\ UNCHANGED gateway
               /\ payment' = [payment EXCEPT ![call[c].k] = "PENDING"]
      BY <1>0, <2>2, <2>5 DEF Settling, SettledAgrees
    <2>6. CASE /\ call[c].step = "apply" /\ call'[c].step \in {"idle", "next"}
               /\ UNCHANGED gateway
               /\ payment' = [payment EXCEPT ![call[c].k] =
                                IF call[c].answer = "approved" THEN "PAID"
                                ELSE IF call[c].answer \in Refused THEN "FAILED" ELSE @]
      <3>1. call[c].k \in Payments
        BY <1>0, <2>6 DEF Working
      <3>2. SettledAgrees'
        BY <1>0, <2>6, <3>1 DEF Settling, SettledAgrees
      <3>. QED  BY <2>2, <2>6, <3>2 DEF Settling
    <2>. QED  BY <2>1, <2>3, <2>4, <2>5, <2>6 DEF Writes
  <1>3. CASE \E k \in Payments : Pay(k) \/ Refuse(k)
    <2>1. GatewayMovesOn
      BY <1>0, <1>3 DEF Pay, Refuse, GatewayMovesOn, Refused
    <2>. QED  BY <1>3, <2>1, SettlingKept DEF Pay, Refuse
  <1>4. CASE Crash
    <2>1. \A c \in Caller : call'[c].step = "idle"
      BY <1>4, IdleFact DEF Crash
    <2>2. UNCHANGED <<payment, gateway>>
      BY <1>4 DEF Crash
    <2>. QED  BY <2>1, <2>2 DEF Settling, SettledAgrees
  <1>5. CASE \/ LoadGate \/ Poll \/ Reload \/ AdminUpdate \/ TrialEnds
             \/ \E g \in Creator : CreateGroup(g) \/ Groups(g)
             \/ GenerateLinkCode \/ LinkCodeAges \/ LinkGroup \/ RemoveGroup
    BY <1>1, <1>5 DEF LoadGate, Poll, Reload, AdminUpdate, TrialEnds, CreateGroup, Groups,
        AssertCanCreateGroup, InsertGroup, GenerateLinkCode, LinkCodeAges, LinkGroup,
        RemoveGroup, billing
  <1>. QED
    BY <1>1, <1>2, <1>3, <1>4, <1>5 DEF Next, Serve, CallerStep, vars, billing

\* However many calls confirm a payment, and however late their answers are written, the
\* row agrees with what the gateway reached.
THEOREM SettledSafety == Spec => []SettledAgrees
  <1>1. Init => Settling
    BY IdleFact DEF Init, Settling, SettledAgrees
  <1>2. Settling => SettledAgrees
    BY DEF Settling
  <1>. QED  BY <1>1, <1>2, TypedInit, TypedNext, SettlingNext, PTL DEF Spec

-----------------------------------------------------------------------------
(***************************************************************************)
(* Activation.  Of a payment that two confirmations never worked on at     *)
(* once, at most one is under way, and none once it was activated: its row *)
(* says PAID then, and stays so.                                           *)
(***************************************************************************)
Asks(c, k) == call[c].step \in {"ask", "apply"} /\ call[c].k = k

OnceOK ==
    \A k \in Payments \ overlapped :
        /\ \A c, d \in Caller : Asks(c, k) /\ Asks(d, k) => c = d
        /\ activated[k] <= 1
        /\ activated[k] = 1 => /\ payment[k] = "PAID"
                               /\ \A c \in Caller : ~Asks(c, k)

\* A charge that is being stored has no row, and is being stored by one call; a payment
\* that is being confirmed has one.
StoreOK ==
    /\ \A k \in Payments : payment[k] # "none" => gateway[k] # "none"
    /\ \A c \in Caller : call[c].step \in {"ask", "apply"} => payment[call[c].k] # "none"
    /\ \A c \in Caller : call[c].step = "store" =>
           /\ payment[call[c].k] = "none" /\ gateway[call[c].k] # "none"
           /\ \A d \in Caller : call[d].step = "store" /\ call[d].k = call[c].k => d = c

Once == StoreOK /\ OnceOK

LEMMA OnceKept ==
    ASSUME Typed, Once, UNCHANGED <<payment, activated, overlapped>>,
           \A k \in Payments : gateway'[k] = "none" => gateway[k] = "none",
           \A c \in Caller : call'[c] = call[c] \/ call'[c].step \in
                                 {"idle", "resolve", "charge", "find", "next"}
    PROVE  Once'
  <1>1. \A c \in Caller : Working(c) => call[c].k \in Payments
    BY DEF Typed, CallOK
  <1>2. StoreOK'
    BY <1>1 DEF Once, StoreOK, Working
  <1>3. \A c \in Caller, k \in Payments : Asks(c, k)' => Asks(c, k)
    BY DEF Asks
  <1>4. OnceOK'
    BY <1>3 DEF Once, OnceOK
  <1>. QED  BY <1>2, <1>4 DEF Once

LEMMA OnceCaller ==
    ASSUME Typed, Once, NEW c \in Caller, Moves(c), Writes(c),
           call'[c].step # "ask" => UNCHANGED overlapped
    PROVE  Once'
  <1>0. /\ payment \in [Payments -> {"none", "PENDING", "PAID", "FAILED"}]
        /\ gateway \in [Payments -> {"none", "pending", "approved", "refused", "refunded"}]
        /\ activated \in [Payments -> 0 .. 2]
        /\ \A d \in Caller : Working(d) => call[d].k \in Payments
        /\ \A d \in Caller \ {c} : call'[d] = call[d]
    BY DEF Typed, BillingTypeOK, CallOK, Moves
  <1>1. CASE call'[c].step = "ask"
    <2>1. /\ call[c].step = "find" /\ call'[c].k = call[c].k /\ call[c].k \in Payments
          /\ payment[call[c].k] \notin {"none", "PAID"}
          /\ overlapped' = IF Confirming(call[c].k) # {} THEN overlapped \cup {call[c].k}
                                                         ELSE overlapped
          /\ UNCHANGED <<payment, gateway, activated>>
      BY <1>0, <1>1 DEF Moves, Working
    <2>2. StoreOK'
      BY <1>0, <1>1, <2>1 DEF Once, StoreOK
    <2>3. OnceOK'
      BY <1>0, <1>1, <2>1 DEF Once, OnceOK, Asks, Confirming
    <2>. QED  BY <2>2, <2>3 DEF Once
  <1>2. CASE call'[c].step = "apply"
    <2>1. /\ call[c].step = "ask" /\ call'[c].k = call[c].k
          /\ UNCHANGED <<payment, gateway, activated, overlapped>>
      BY <1>2 DEF Moves
    <2>. QED  BY <1>0, <1>2, <2>1 DEF Once, StoreOK, OnceOK, Asks
  <1>3. CASE call'[c].step = "store"
    <2>1. PICK k \in Payments : /\ call'[c].k = k /\ gateway[k] = "none"
                                /\ gateway' = [gateway EXCEPT ![k] = "pending"]
                                /\ UNCHANGED <<payment, activated, overlapped>>
      BY <1>3 DEF Moves
    <2>2. StoreOK'
      BY <1>0, <1>3, <2>1 DEF Once, StoreOK, Working
    <2>3. OnceOK'
      <3>1. \A d \in Caller, j \in Payments : Asks(d, j)' => Asks(d, j)
        BY <1>0, <1>3 DEF Asks
      <3>. QED  BY <2>1, <3>1 DEF Once, OnceOK
    <2>. QED  BY <2>2, <2>3 DEF Once
  <1>4. CASE call'[c].step \notin {"ask", "apply", "store"}
    <2>. USE <1>0, <1>4
    <2>0. /\ \A d \in Caller, j \in Payments : Asks(d, j)' => Asks(d, j) /\ d # c
          /\ UNCHANGED overlapped
      BY DEF Asks
    <2>1. CASE UNCHANGED <<payment, gateway, activated>>
      <3>1. StoreOK'
        BY <2>1 DEF Once, StoreOK, Working
      <3>2. OnceOK'
        BY <2>0, <2>1 DEF Once, OnceOK
      <3>. QED  BY <3>1, <3>2 DEF Once
    <2>2. CASE /\ call[c].step = "store"
               /\ payment' = [payment EXCEPT ![call[c].k] = "PENDING"]
               /\ UNCHANGED <<gateway, activated>>
      <3>1. call[c].k \in Payments
        BY <2>2 DEF Working
      <3>2. StoreOK'
        BY <2>2, <3>1 DEF Once, StoreOK
      <3>3. OnceOK'
        BY <2>0, <2>2, <3>1 DEF Once, OnceOK, StoreOK
      <3>. QED  BY <3>2, <3>3 DEF Once
    <2>3. CASE /\ call[c].step = "apply" /\ UNCHANGED gateway
               /\ LET k == call[c].k  answer == call[c].answer IN
                  /\ payment' = [payment EXCEPT ![k] =
                                   IF answer = "approved" THEN "PAID"
                                   ELSE IF answer \in Refused THEN "FAILED" ELSE @]
                  /\ activated' = [activated EXCEPT ![k] =
                                     IF answer = "approved" /\ @ < 2 THEN @ + 1 ELSE @]
      <3>1. PICK k \in Payments : k = call[c].k
        BY <2>3 DEF Working
      <3>2. /\ payment'[k] = "PAID" \/ activated'[k] = activated[k]
            /\ activated'[k] <= activated[k] + 1
            /\ \A j \in Payments \ {k} : payment'[j] = payment[j] /\ activated'[j] = activated[j]
        BY <2>3, <3>1
      <3>3. StoreOK'
        <4>1. \A d \in Caller : call'[d].step = "store" =>
                  d # c /\ call'[d] = call[d] /\ call[d].k \in Payments
          BY DEF Working
        <4>2. payment[k] # "none" /\ payment'[k] # "none"
          BY <2>3, <3>1 DEF Once, StoreOK
        <4>. QED  BY <2>3, <3>2, <4>1, <4>2 DEF Once, StoreOK, Working
      <3>4. OnceOK'
        <4>1. Asks(c, k)
          BY <2>3, <3>1 DEF Asks
        <4>2. k \notin overlapped =>
                  /\ \A d \in Caller : ~Asks(d, k)'
                  /\ activated[k] = 0
          BY <2>0, <4>1 DEF Once, OnceOK
        <4>. QED  BY <2>0, <3>2, <4>2 DEF Once, OnceOK
      <3>. QED  BY <3>3, <3>4 DEF Once
    <2>. QED  BY <2>1, <2>2, <2>3 DEF Writes
  <1>. QED  BY <1>1, <1>2, <1>3, <1>4

LEMMA OnceNext == Typed /\ Once /\ [Next]_vars => Once'
  <1>. SUFFICES ASSUME Typed, Once, [Next]_vars PROVE Once'
    OBVIOUS
  <1>1. CASE UNCHANGED <<payment, gateway, call, activated, overlapped>>
    BY <1>1, OnceKept
  <1>2. ASSUME NEW c \in Caller, CallerStep(c) PROVE Once'
    BY <1>2, CallerFact, OnceCaller
  <1>3. CASE \E k \in Payments : Pay(k) \/ Refuse(k)
    <2>1. \A k \in Payments : gateway'[k] = "none" => gateway[k] = "none"
      BY <1>3 DEF Pay, Refuse, Typed, BillingTypeOK
    <2>. QED  BY <1>3, <2>1, OnceKept DEF Pay, Refuse
  <1>4. CASE Crash
    BY <1>4, OnceKept, IdleFact DEF Crash
  <1>5. CASE \/ LoadGate \/ Poll \/ Reload \/ AdminUpdate \/ TrialEnds
             \/ \E g \in Creator : CreateGroup(g) \/ Groups(g)
             \/ GenerateLinkCode \/ LinkCodeAges \/ LinkGroup \/ RemoveGroup
    BY <1>1, <1>5 DEF LoadGate, Poll, Reload, AdminUpdate, TrialEnds, CreateGroup, Groups,
        AssertCanCreateGroup, InsertGroup, GenerateLinkCode, LinkCodeAges, LinkGroup,
        RemoveGroup, billing
  <1>. QED
    BY <1>1, <1>2, <1>3, <1>4, <1>5 DEF Next, Serve, CallerStep, vars, billing

\* Webhooks delivered again, syncs and manual checks of a payment activate the
\* subscription once, unless two of them confirmed it at the same moment.
THEOREM ActivationSafety == Spec => []OneActivationPerPayment
  <1>1. Init => Once
    BY IdleFact DEF Init, Once, StoreOK, OnceOK, Asks
  <1>2. Typed /\ Once => OneActivationPerPayment
    BY DEF Typed, CallOK, Once, OnceOK, OneActivationPerPayment
  <1>. QED  BY <1>1, <1>2, TypedInit, TypedNext, OnceNext, PTL DEF Spec

-----------------------------------------------------------------------------
(***************************************************************************)
(* Groups.  A request that passed the check of the plan still has room for *)
(* its group when it inserts: no other one past the check counts.          *)
(***************************************************************************)
Counted == groups \ extra

\* The requests past the check whose group will count.
Backed == {g \in Creator : creating[g] = "insert"} \ unbacked

HasRoom ==
    /\ IsFiniteSet(groups) /\ IsFiniteSet(Counted)
    /\ Cardinality(Counted) <= limit
    /\ \A g \in Backed : Cardinality(Counted) < limit /\ Backed = {g}

\* Nothing counts more, and no request more.
LEMMA RoomKept ==
    ASSUME Typed, HasRoom, IsFiniteSet(groups'), Counted' \subseteq Counted,
           Backed' \subseteq Backed, limit' = limit
    PROVE  HasRoom'
  <1>1. IsFiniteSet(Counted') /\ Cardinality(Counted') <= Cardinality(Counted)
    BY FS_Subset DEF HasRoom
  <1>2. Cardinality(Counted) \in Nat /\ Cardinality(Counted') \in Nat /\ limit \in Nat
    BY <1>1, BillingAssumption, FS_CardinalityType DEF Typed, BillingTypeOK, HasRoom
  <1>. HIDE DEF Counted, Backed
  <1>3. Cardinality(Counted') <= limit'
    BY <1>1, <1>2 DEF HasRoom
  <1>4. ASSUME NEW g \in Backed'
        PROVE  Cardinality(Counted') < limit' /\ Backed' = {g}
    BY <1>1, <1>2, <1>4 DEF HasRoom
  <1>. QED  BY <1>1, <1>3, <1>4 DEF HasRoom

LEMMA RoomNext == Typed /\ HasRoom /\ [Next]_vars => HasRoom'
  <1>. SUFFICES ASSUME Typed, HasRoom, [Next]_vars PROVE HasRoom'
    OBVIOUS
  <1>0. /\ limit \in Nat /\ limit' \in Nat
        /\ creating \in [Creator -> {"idle", "count", "insert"}]
        /\ IsFiniteSet(groups) /\ Cardinality(groups) \in Nat /\ Cardinality(Counted) \in Nat
    <2>1. Typed'
      BY TypedNext
    <2>. QED
      BY <2>1, BillingAssumption, FS_CardinalityType
      DEF Typed, BillingTypeOK, CallOK, HasRoom
  <1>1. CASE UNCHANGED <<grouped, beyond>>
    BY <1>1 DEF HasRoom, Counted, Backed, grouped, beyond
  <1>2. CASE AdminUpdate
    <2>1. UNCHANGED <<groups, creating>>
      BY <1>2 DEF AdminUpdate
    <2>2. CASE limit' < limit /\ extra' = groups /\ unbacked' = {g \in Creator : creating[g] = "insert"}
      <3>1. Counted' = {} /\ Backed' = {}
        BY <2>1, <2>2 DEF Counted, Backed
      <3>. QED  BY <1>0, <2>1, <3>1, FS_EmptySet DEF HasRoom
    <2>3. CASE limit' >= limit /\ UNCHANGED beyond
      <3>1. Counted' = Counted /\ Backed' = Backed
        BY <2>1, <2>3 DEF Counted, Backed, beyond
      <3>. HIDE DEF Counted, Backed
      <3>. QED  BY <1>0, <2>1, <2>3, <3>1 DEF HasRoom
    <2>. QED  BY <1>0, <1>2, <2>2, <2>3 DEF AdminUpdate
  <1>3. CASE Crash
    <2>1. Counted' \subseteq Counted /\ Backed' \subseteq Backed /\ limit' = limit
      BY <1>3 DEF Crash, Counted, Backed
    <2>. QED  BY <1>0, <1>3, <2>1, RoomKept DEF Crash
  <1>4. ASSUME NEW g \in Creator, CreateGroup(g) PROVE HasRoom'
    <2>1. Counted' \subseteq Counted /\ Backed' \subseteq Backed /\ limit' = limit
      BY <1>0, <1>4 DEF CreateGroup, Counted, Backed, beyond
    <2>. QED  BY <1>0, <1>4, <2>1, RoomKept DEF CreateGroup
  <1>5. ASSUME NEW g \in Creator, AssertCanCreateGroup(g) PROVE HasRoom'
    <2>1. UNCHANGED <<groups, extra, limit>> /\ Counted' = Counted
      BY <1>5 DEF AssertCanCreateGroup, Counted
    <2>2. PICK actorRole \in {"ADMIN", "SUPER_ADMIN"} :
              IF ~Unlimited(actorRole) /\ Cardinality(groups) >= limit
              THEN creating' = [creating EXCEPT ![g] = "idle"] /\ UNCHANGED unbacked
              ELSE Passes(g, actorRole)
      BY <1>5 DEF AssertCanCreateGroup
    <2>3. CASE creating' = [creating EXCEPT ![g] = "idle"] /\ UNCHANGED unbacked
      <3>1. Backed' \subseteq Backed
        BY <1>0, <2>3 DEF Backed
      <3>. QED  BY <1>0, <2>1, <3>1, RoomKept
    <2>4. CASE /\ Passes(g, actorRole)
               /\ Unlimited(actorRole) \/ \E h \in Creator : creating[h] = "insert"
      <3>1. Backed' \subseteq Backed
        BY <1>0, <2>4 DEF Backed, Passes
      <3>. QED  BY <1>0, <2>1, <3>1, RoomKept
    <2>5. CASE /\ Passes(g, actorRole) /\ ~(Cardinality(groups) >= limit)
               /\ \A h \in Creator : creating[h] # "insert"
      <3>1. Backed' \subseteq {g}
        BY <1>0, <2>5 DEF Backed, Passes
      <3>2. Cardinality(Counted) <= Cardinality(groups)
        BY <1>0, FS_Subset DEF Counted
      <3>. HIDE DEF Counted, Backed
      <3>3. Cardinality(Counted) < limit
        BY <1>0, <2>5, <3>2
      <3>. QED  BY <1>0, <2>1, <3>1, <3>3 DEF HasRoom
    <2>. QED  BY <2>2, <2>3, <2>4, <2>5
  <1>6. ASSUME NEW g \in Creator, InsertGroup(g) PROVE HasRoom'
    <2>1. PICK id \in GroupIds :
              /\ groups' = groups \cup {id}
              /\ extra' = IF g \in unbacked THEN extra \cup (groups' \ groups) ELSE extra
      BY <1>6 DEF InsertGroup
    <2>2. /\ creating[g] = "insert" /\ creating' = [creating EXCEPT ![g] = "idle"]
          /\ unbacked' = unbacked \ {g} /\ limit' = limit
      BY <1>6 DEF InsertGroup
    <2>3. IsFiniteSet(groups')
      BY <1>0, <2>1, FS_AddElement
    <2>4. Backed' \subseteq Backed \ {g}
      BY <1>0, <2>2 DEF Backed
    <2>5. CASE g \in unbacked
      <3>1. Counted' \subseteq Counted
        BY <2>1, <2>5 DEF Counted
      <3>. QED  BY <2>2, <2>3, <2>4, <3>1, RoomKept
    <2>6. CASE g \notin unbacked
      <3>1. g \in Backed
        BY <2>2, <2>6 DEF Backed
      <3>2. Backed' = {} /\ Cardinality(Counted) < limit
        BY <2>4, <3>1 DEF HasRoom
      <3>3. Counted' \subseteq Counted \cup {id}
        BY <2>1, <2>6 DEF Counted
      <3>4. /\ IsFiniteSet(Counted \cup {id})
            /\ Cardinality(Counted \cup {id}) \in {Cardinality(Counted), Cardinality(Counted) + 1}
        BY FS_AddElement DEF HasRoom
      <3>5. /\ IsFiniteSet(Counted') /\ Cardinality(Counted') \in Nat
            /\ Cardinality(Counted') <= Cardinality(Counted \cup {id})
        BY <3>3, <3>4, FS_Subset, FS_CardinalityType
      <3>. HIDE DEF Counted, Backed
      <3>6. Cardinality(Counted') <= limit'
        BY <1>0, <2>2, <3>2, <3>4, <3>5
      <3>. QED  BY <2>3, <3>2, <3>5, <3>6 DEF HasRoom
    <2>. QED  BY <2>5, <2>6
  <1>7. CASE LinkGroup
    <2>1. UNCHANGED <<limit, creating, unbacked>>
      BY <1>7 DEF LinkGroup
    <2>2. IsFiniteSet(groups') /\ Counted' \subseteq Counted
      BY <1>0, <1>7, FS_AddElement DEF LinkGroup, Counted
    <2>. QED  BY <2>1, <2>2, RoomKept DEF Backed
  <1>8. CASE RemoveGroup
    <2>1. PICK id \in groups : groups' = groups \ {id} /\ extra' = extra \ {id}
      BY <1>8 DEF RemoveGroup
    <2>2. IsFiniteSet(groups') /\ Counted' \subseteq Counted
      BY <1>0, <2>1, FS_RemoveElement DEF Counted
    <2>. QED  BY <1>8, <2>2, RoomKept DEF RemoveGroup, Backed
  <1>9. CASE GenerateLinkCode \/ LinkCodeAges
    <2>1. UNCHANGED <<groups, extra, limit, creating, unbacked>>
      BY <1>9 DEF GenerateLinkCode, LinkCodeAges, beyond
    <2>. QED  BY <2>1 DEF HasRoom, Counted, Backed
  <1>10. ASSUME NEW c \in Caller, CallerStep(c) PROVE UNCHANGED <<grouped, beyond>>
    BY <1>10 DEF CallerStep, GeneratePix, ResolveSubscription, Charge, ChargeFails,
        StorePayment, HandleWebhook, SyncTimer, SyncByHand, Sync, SyncNext, FindPayment,
        AskGateway, AskFails, ApplyAnswer
  <1>11. CASE \/ \E k \in Payments : Pay(k) \/ Refuse(k)
              \/ LoadGate \/ Poll \/ Reload \/ TrialEnds
    BY <1>1, <1>11 DEF Pay, Refuse, LoadGate, Poll, Reload, TrialEnds
  <1>. QED
    BY <1>1, <1>2, <1>3, <1>4, <1>5, <1>6, <1>7, <1>8, <1>9, <1>10, <1>11
    DEF Next, Serve, Groups, CallerStep, vars

\* For any plan and any order of requests, link codes, removals, changes of the plan and
\* restarts, the groups the check made room for are at most as many as the plan allows.
THEOREM PlanSafety == Spec => []GroupsWithinPlan
  <1>1. Init => HasRoom
    <2>. SUFFICES ASSUME Init PROVE HasRoom
      OBVIOUS
    <2>1. limit \in Nat
      BY BillingAssumption DEF Init
    <2>2. Counted = {} /\ Backed = {} /\ groups = {}
      BY DEF Init, Counted, Backed
    <2>. QED  BY <2>1, <2>2, FS_EmptySet DEF HasRoom
  <1>2. HasRoom => GroupsWithinPlan
    BY DEF HasRoom, Counted, GroupsWithinPlan
  <1>. QED  BY <1>1, <1>2, TypedInit, TypedNext, RoomNext, PTL DEF Spec
=============================================================================
