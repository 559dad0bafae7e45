------------------------------- MODULE Billing -------------------------------
(***************************************************************************)
(* PaymentsService, the subscription it activates and the page that waits  *)
(* for it, for one tenant; and the limit of the plan on its groups.  A PIX *)
(* charge is created at the gateway and then stored; webhook deliveries,   *)
(* the panel's sync and its manual check all run confirmPayment, which     *)
(* reads the row, asks the gateway and writes what it answered.            *)
(*                                                                         *)
(* Payments are numbered in the order of their charges.  The gateway moves *)
(* on its own between the steps of a call: a charge is paid, refused or    *)
(* expires, and a paid one may be refunded.  It delivers a notification    *)
(* for every change and again until it is answered with success.           *)
(***************************************************************************)
EXTENDS Naturals, FiniteSets

CONSTANTS
    MaxPayments, \* bound: charges ever created
    SyncTake,    \* pending payments a sync looks at: 5 in the code
    Caller,      \* calls on the server
    Creator,     \* panel requests that register a group
    GroupIds,    \* WhatsApp groups
    Limits,      \* values of maxGroups among the plans
    Webhook,     \* the gateway has a notification URL
    Scenes       \* bound: the tenants an instance starts from, each with how many of
                 \* each kind of thing may happen to it

Subscription == [status : {"none", "TRIAL", "ACTIVE", "CANCELED", "EXPIRED"},
                 trialOver : BOOLEAN]

Kinds == {"pix", "manual", "fail", "crash", "refund", "again", "admin", "group"}

ASSUME BillingAssumption ==
    /\ MaxPayments \in Nat \ {0} /\ SyncTake \in Nat \ {0}
    /\ Limits \subseteq Nat /\ Limits # {} /\ Webhook \in BOOLEAN
    /\ \A scene \in Scenes : /\ scene.budget \in [Kinds -> Nat] /\ scene.limit \in Limits
                            /\ scene.subscription \in Subscription

VARIABLES
    subscription, \* the latest subscription of the tenant
    payment,      \* status of each payment row
    gateway,      \* status of each charge at the gateway
    due,          \* charges with a notification to deliver
    call,         \* calls between two awaits
    page,         \* SubscriptionGate and PaywallPage
    groups, limit, linkCode, creating, \* groups of the tenant and the plan's maxGroups
    budget,       \* what may still happen
    activated,    \* history: how often each payment activated the subscription
    overlapped,   \* history: payments two confirmations worked on at once
    unbacked,     \* history: requests past the plan's check without room of their own
    extra         \* history: registered groups the plan's check never made room for

billing == <<subscription, payment, gateway, due>>
grouped == <<groups, limit, linkCode, creating>>
beyond  == <<unbacked, extra>>
vars    == <<billing, call, page, grouped, budget, activated, overlapped, beyond>>

Payments   == 1 .. MaxPayments
None       == 0
Refused    == {"refused", "refunded"}    \* the final statuses of non-payment
IdleCall   == [op |-> "none", step |-> "idle", k |-> None, rest |-> {}, answer |-> "none"]
Stored     == {k \in Payments : payment[k] # "none"}
Spend(kind) == budget[kind] > 0 /\ budget' = [budget EXCEPT ![kind] = @ - 1]
Goto(c, s) == call' = [call EXCEPT ![c].step = s]

\* isTenantAccessAllowed.
AccessAllowed == \/ subscription.status = "ACTIVE"
                 \/ subscription.status = "TRIAL" /\ ~subscription.trialOver

Blank    == [view |-> "loading", qr |-> None, polling |-> FALSE]
SomePaid == \E k \in Payments : payment[k] = "PAID"   \* lastPayments holds one

-----------------------------------------------------------------------------
(***************************************************************************)
(* createPixPayment, called by the paywall.                                *)
(***************************************************************************)
GeneratePix(c) ==
    /\ call[c] = IdleCall /\ page.view = "paywall" /\ Spend("pix")
    /\ \A d \in Caller : call[d].op # "pix"
    /\ call' = [call EXCEPT ![c] = [IdleCall EXCEPT !.op = "pix", !.step = "resolve"]]
    /\ UNCHANGED <<billing, page, grouped, activated, overlapped, beyond>>

ResolveSubscription(c) ==
    /\ call[c].step = "resolve"
    /\ subscription' = IF subscription.status = "none"
                       THEN [status |-> "TRIAL", trialOver |-> TRUE] ELSE subscription
    /\ Goto(c, "charge")
    /\ UNCHANGED <<payment, gateway, due, page, grouped, budget, activated, overlapped, beyond>>

Charge(c) ==
    /\ call[c].step = "charge"
    /\ \E k \in {x \in Payments : gateway[x] = "none"} :
         /\ \A y \in Payments : gateway[y] = "none" => k <= y
         /\ gateway' = [gateway EXCEPT ![k] = "pending"]
         /\ call' = [call EXCEPT ![c].step = "store", ![c].k = k]
    /\ UNCHANGED <<subscription, payment, due, page, grouped, budget, activated, overlapped,
                   beyond>>

\* The gateway rejects the charge, or answers without the code to show.
ChargeFails(c) ==
    /\ call[c].step = "charge" /\ Spend("fail")
    /\ call' = [call EXCEPT ![c] = IdleCall]
    /\ UNCHANGED <<billing, page, grouped, activated, overlapped, beyond>>

StorePayment(c) ==
    /\ call[c].step = "store"
    /\ payment' = [payment EXCEPT ![call[c].k] = "PENDING"]
    /\ call' = [call EXCEPT ![c] = IdleCall]
    /\ page' = IF page.view = "paywall"
               THEN [page EXCEPT !.qr = call[c].k, !.polling = TRUE] ELSE page
    /\ UNCHANGED <<subscription, gateway, due, grouped, budget, activated, overlapped, beyond>>

-----------------------------------------------------------------------------
(***************************************************************************)
(* confirmPayment, for a webhook or for each payment of a sync.            *)
(***************************************************************************)
Confirming(k) == {c \in Caller : call[c].k = k /\ call[c].step \in {"ask", "apply"}}

HandleWebhook(c, k) ==
    /\ Webhook /\ call[c] = IdleCall
    /\ \/ k \in due /\ due' = due \ {k} /\ UNCHANGED budget
       \/ k \notin due /\ gateway[k] # "none" /\ Spend("again") /\ UNCHANGED due
    /\ call' = [call EXCEPT ![c] = [IdleCall EXCEPT !.op = "webhook", !.step = "find", !.k = k]]
    /\ UNCHANGED <<subscription, payment, gateway, page, grouped, activated, overlapped, beyond>>

\* The newest pending payments, at most SyncTake of them.
Pendings ==
    LET pending == {k \in Payments : payment[k] = "PENDING"}
    IN {k \in pending : Cardinality({j \in pending : j > k}) < SyncTake}

Sync(c) ==
    /\ call[c] = IdleCall /\ \A d \in Caller : call[d].op # "sync"
    /\ call' = [call EXCEPT ![c] = [IdleCall EXCEPT !.op = "sync", !.step = "next",
                                                    !.rest = Pendings]]
    /\ UNCHANGED <<billing, grouped, activated, overlapped, beyond>>

SyncTimer(c)   == page.polling /\ Sync(c) /\ UNCHANGED <<page, budget>>
SyncByHand(c)  == page.qr # None /\ Sync(c) /\ Spend("manual") /\ UNCHANGED page

\* Mutant: the page keeps what the gate no longer shows.
SyncEndsMutant(active) ==
    page' = IF (active \/ SomePaid) /\ page.view = "paywall"
            THEN [page EXCEPT !.view = "paid"] ELSE page

\* What the page does with the answer of a sync: a paid payment, new or old, is taken for
\* the one it waits for; the gate then reads the subscription again, from a blank page.
SyncEnds(active) ==
    page' = IF (active \/ SomePaid) /\ page.view = "paywall" THEN Blank ELSE page

SyncNext(c) ==
    /\ call[c].step = "next"
    /\ \/ /\ call[c].rest = {}
          /\ SyncEnds(FALSE)
          /\ call' = [call EXCEPT ![c] = IdleCall]
       \/ \E k \in call[c].rest :       \* the newest first
            /\ \A j \in call[c].rest : j <= k
            /\ call' = [call EXCEPT ![c].step = "find", ![c].k = k, ![c].rest = @ \ {k}]
            /\ UNCHANGED page
    /\ UNCHANGED <<billing, grouped, budget, activated, overlapped, beyond>>

\* The end of one confirmation: the webhook is answered, the sync goes on unless the
\* payment was activated just now.
Confirmed(c, active) ==
    IF call[c].op = "webhook"
    THEN call' = [call EXCEPT ![c] = IdleCall] /\ UNCHANGED page
    ELSE IF active THEN SyncEnds(TRUE) /\ call' = [call EXCEPT ![c] = IdleCall]
    ELSE call' = [call EXCEPT ![c].step = "next", ![c].k = None, ![c].answer = "none"]
         /\ UNCHANGED page

\* Mutant: a payment already paid is confirmed again.
FindPaymentMutant(c) ==
    /\ call[c].step = "find"
    /\ IF payment[call[c].k] = "none"
       THEN Confirmed(c, FALSE) /\ UNCHANGED overlapped
       ELSE /\ Goto(c, "ask") /\ UNCHANGED page
            /\ overlapped' = IF Confirming(call[c].k) # {} THEN overlapped \cup {call[c].k}
                                                          ELSE overlapped
    /\ UNCHANGED <<billing, grouped, budget, activated, beyond>>

FindPayment(c) ==
    /\ call[c].step = "find"
    /\ IF payment[call[c].k] \in {"none", "PAID"}
       THEN Confirmed(c, FALSE) /\ UNCHANGED overlapped
       ELSE /\ Goto(c, "ask") /\ UNCHANGED page
            /\ overlapped' = IF Confirming(call[c].k) # {} THEN overlapped \cup {call[c].k}
                                                          ELSE overlapped
    /\ UNCHANGED <<billing, grouped, budget, activated, beyond>>

AskGateway(c) ==
    /\ call[c].step = "ask"
    /\ call' = [call EXCEPT ![c].step = "apply", ![c].answer = gateway[call[c].k]]
    /\ UNCHANGED <<billing, page, grouped, budget, activated, overlapped, beyond>>

\* Mutant: the error of the gateway is swallowed, and the webhook answered with success.
AskFailsMutant(c) ==
    /\ call[c].step = "ask" /\ Spend("fail")
    /\ Confirmed(c, FALSE)
    /\ UNCHANGED <<billing, grouped, activated, overlapped, beyond>>

\* The gateway does not answer: the webhook fails and will be delivered again, a sync
\* swallows the error and goes on.
AskFails(c) ==
    /\ call[c].step = "ask" /\ Spend("fail")
    /\ Confirmed(c, FALSE)
    /\ due' = IF call[c].op = "webhook" THEN due \cup {call[c].k} ELSE due
    /\ UNCHANGED <<subscription, payment, gateway, grouped, activated, overlapped, beyond>>

\* Mutant: every answer but "approved" is taken for a refusal.
ApplyAnswerMutant(c) ==
    LET k == call[c].k  answer == call[c].answer IN
    /\ call[c].step = "apply"
    /\ payment' = [payment EXCEPT ![k] = IF answer = "approved" THEN "PAID" ELSE "FAILED"]
    /\ subscription' = IF answer = "approved" THEN [subscription EXCEPT !.status = "ACTIVE"]
                                              ELSE subscription
    /\ activated' = [activated EXCEPT ![k] = IF answer = "approved" /\ @ < 2 THEN @ + 1 ELSE @]
    /\ Confirmed(c, answer = "approved")
    /\ UNCHANGED <<gateway, due, grouped, budget, overlapped, beyond>>

\* One transaction marks the payment and activates the subscription.
ApplyAnswer(c) ==
    LET k == call[c].k  answer == call[c].answer IN
    /\ call[c].step = "apply"
    /\ payment' = [payment EXCEPT ![k] = IF answer = "approved" THEN "PAID"
                                         ELSE IF answer \in Refused THEN "FAILED" ELSE @]
    /\ subscription' = IF answer = "approved" THEN [subscription EXCEPT !.status = "ACTIVE"]
                                              ELSE subscription
    /\ activated' = [activated EXCEPT ![k] = IF answer = "approved" /\ @ < 2 THEN @ + 1 ELSE @]
    /\ Confirmed(c, answer = "approved")
    /\ UNCHANGED <<gateway, due, grouped, budget, overlapped, beyond>>

-----------------------------------------------------------------------------
(***************************************************************************)
(* The page: the gate reads the subscription when it loads and when the    *)
(* paywall says it was paid; the paywall polls the stored payments.        *)
(***************************************************************************)
LoadGate ==
    /\ page.view = "loading"
    /\ page' = [page EXCEPT !.view = IF AccessAllowed THEN "panel" ELSE "paywall"]
    /\ UNCHANGED <<billing, call, grouped, budget, activated, overlapped, beyond>>

Poll ==
    /\ page.polling /\ SomePaid
    /\ page' = Blank
    /\ UNCHANGED <<billing, call, grouped, budget, activated, overlapped, beyond>>

Reload ==
    /\ page.view # "loading" /\ Spend("manual")
    /\ page' = Blank
    /\ UNCHANGED <<billing, call, grouped, activated, overlapped, beyond>>

-----------------------------------------------------------------------------
(***************************************************************************)
(* The gateway, the operator of the platform, time and crashes.            *)
(***************************************************************************)
Notify(k) == due' = IF Webhook THEN due \cup {k} ELSE due

\* The customer saw the code, so the row is stored.
Pay(k) ==
    /\ gateway[k] = "pending" /\ payment[k] # "none"
    /\ gateway' = [gateway EXCEPT ![k] = "approved"]
    /\ Notify(k)
    /\ UNCHANGED <<subscription, payment, call, page, grouped, budget, activated, overlapped,
                   beyond>>

Refuse(k) ==
    /\ gateway[k] \in {"pending", "approved"} /\ Spend("refund")
    /\ gateway' = [gateway EXCEPT ![k] = IF @ = "pending" THEN "refused" ELSE "refunded"]
    /\ Notify(k)
    /\ UNCHANGED <<subscription, payment, call, page, grouped, activated, overlapped, beyond>>

AdminUpdate ==
    /\ Spend("admin") /\ subscription.status # "none"
    /\ \/ /\ \E s \in {"TRIAL", "ACTIVE", "CANCELED", "EXPIRED"} :
               subscription' = [subscription EXCEPT !.status = s]
          /\ UNCHANGED <<limit, beyond>>
       \/ /\ limit' \in Limits \ {limit}
          /\ IF limit' < limit
             THEN extra' = groups /\ unbacked' = {g \in Creator : creating[g] = "insert"}
             ELSE UNCHANGED beyond
          /\ UNCHANGED subscription
    /\ UNCHANGED <<payment, gateway, due, call, page, groups, linkCode, creating, activated,
                   overlapped>>

TrialEnds ==
    /\ subscription.status = "TRIAL" /\ ~subscription.trialOver
    /\ subscription' = [subscription EXCEPT !.trialOver = TRUE]
    /\ UNCHANGED <<payment, gateway, due, call, page, grouped, budget, activated, overlapped,
                   beyond>>

\* The process dies with its calls and link codes; a webhook unanswered is delivered again.
Crash ==
    /\ Spend("crash")
    /\ due' = due \cup {call[c].k : c \in {d \in Caller : call[d].op = "webhook"}}
    /\ call' = [c \in Caller |-> IdleCall]
    /\ creating' = [g \in Creator |-> "idle"] /\ unbacked' = {} /\ linkCode' = "none"
    /\ UNCHANGED <<subscription, payment, gateway, page, groups, limit, activated, overlapped,
                   extra>>

-----------------------------------------------------------------------------
(***************************************************************************)
(* Groups: the panel checks the plan's limit, then inserts; !vincular      *)
(* consumes a link code, used or not, and inserts without looking at it.   *)
(***************************************************************************)
CreateGroup(g) ==
    /\ creating[g] = "idle" /\ Spend("group")
    /\ creating' = [creating EXCEPT ![g] = "count"]
    /\ UNCHANGED <<billing, call, page, groups, limit, linkCode, activated, overlapped, beyond>>

\* The plan says nothing to an operator of the platform, nor to a tenant without a plan.
Unlimited(actorRole) == actorRole = "SUPER_ADMIN" \/ subscription.status = "none"

\* A request that passes the check has room of its own unless the plan was not looked at
\* for it or another one is about to insert.
Passes(g, actorRole) ==
    /\ creating' = [creating EXCEPT ![g] = "insert"]
    /\ unbacked' = IF Unlimited(actorRole) \/ \E h \in Creator : creating[h] = "insert"
                   THEN unbacked \cup {g} ELSE unbacked

\* Mutant: the plan allows as many groups as its limit, and one more.
AssertCanCreateGroupMutant(g) ==
    /\ creating[g] = "count"
    /\ \E actorRole \in {"ADMIN", "SUPER_ADMIN"} :
         IF ~Unlimited(actorRole) /\ Cardinality(groups) > limit
         THEN creating' = [creating EXCEPT ![g] = "idle"] /\ UNCHANGED unbacked
         ELSE Passes(g, actorRole)
    /\ UNCHANGED <<billing, call, page, groups, limit, linkCode, budget, activated, overlapped,
                   extra>>

AssertCanCreateGroup(g) ==
    /\ creating[g] = "count"
    /\ \E actorRole \in {"ADMIN", "SUPER_ADMIN"} :
         IF ~Unlimited(actorRole) /\ Cardinality(groups) >= limit
         THEN creating' = [creating EXCEPT ![g] = "idle"] /\ UNCHANGED unbacked
         ELSE Passes(g, actorRole)
    /\ UNCHANGED <<billing, call, page, groups, limit, linkCode, budget, activated, overlapped,
                   extra>>

\* A group already registered violates the unique index and fails.
InsertGroup(g) ==
    /\ creating[g] = "insert"
    /\ creating' = [creating EXCEPT ![g] = "idle"] /\ unbacked' = unbacked \ {g}
    /\ \E id \in GroupIds :
         /\ groups' = groups \cup {id}
         /\ extra' = IF g \in unbacked THEN extra \cup (groups' \ groups) ELSE extra
    /\ UNCHANGED <<billing, call, page, limit, linkCode, budget, activated, overlapped>>

GenerateLinkCode ==
    /\ Spend("group") /\ linkCode' = "fresh"
    /\ UNCHANGED <<billing, call, page, groups, limit, creating, activated, overlapped, beyond>>

LinkCodeAges ==
    /\ linkCode = "fresh" /\ linkCode' = "stale"
    /\ UNCHANGED <<billing, call, page, groups, limit, creating, budget, activated, overlapped,
                   beyond>>

\* The code goes whatever was typed; only the right one, still fresh, links the group.
LinkGroup ==
    /\ linkCode # "none" /\ linkCode' = "none"
    /\ \/ UNCHANGED <<groups, extra>>
       \/ /\ linkCode = "fresh"
          /\ \E id \in GroupIds : groups' = groups \cup {id}
          /\ extra' = extra \cup (groups' \ groups)
    /\ UNCHANGED <<billing, call, page, limit, creating, budget, activated, overlapped, unbacked>>

RemoveGroup ==
    /\ Spend("group")
    /\ \E id \in groups : groups' = groups \ {id} /\ extra' = extra \ {id}
    /\ UNCHANGED <<billing, call, page, limit, linkCode, creating, activated, overlapped, unbacked>>

-----------------------------------------------------------------------------
Init ==
    /\ \E scene \in Scenes :
         LET before(k) == k = 1 /\ scene.paidBefore IN
         /\ subscription = scene.subscription /\ limit = scene.limit /\ budget = scene.budget
         /\ payment = [k \in Payments |-> IF before(k) THEN "PAID" ELSE "none"]
         /\ gateway = [k \in Payments |-> IF before(k) THEN "approved" ELSE "none"]
         /\ activated = [k \in Payments |-> IF before(k) THEN 1 ELSE 0]
    /\ due = {} /\ call = [c \in Caller |-> IdleCall] /\ page = Blank
    /\ groups = {} /\ linkCode = "none"
    /\ creating = [g \in Creator |-> "idle"]
    /\ overlapped = {} /\ unbacked = {} /\ extra = {}

Serve(c) ==
    \/ ResolveSubscription(c) \/ Charge(c) \/ StorePayment(c)
    \/ SyncNext(c) \/ FindPayment(c) \/ AskGateway(c) \/ ApplyAnswer(c)
Groups(g) == AssertCanCreateGroup(g) \/ InsertGroup(g)

Next ==
    \/ \E c \in Caller : \/ GeneratePix(c) \/ ChargeFails(c) \/ AskFails(c)
                         \/ SyncTimer(c) \/ SyncByHand(c)
                         \/ Serve(c)
    \/ \E c \in Caller, k \in Payments : HandleWebhook(c, k)
    \/ \E k \in Payments : Pay(k) \/ Refuse(k)
    \/ LoadGate \/ Poll \/ Reload
    \/ AdminUpdate \/ TrialEnds \/ Crash
    \/ \E g \in Creator : CreateGroup(g) \/ Groups(g)
    \/ GenerateLinkCode \/ LinkCodeAges \/ LinkGroup \/ RemoveGroup

Spec == Init /\ [][Next]_vars

\* Calls on the server run on, the timers of a page that polls fire, a page that loads
\* reads the subscription, and the gateway delivers what is due.
Fairness ==
    /\ \A c \in Caller : WF_vars(Serve(c))
    /\ WF_vars(\E c \in Caller : SyncTimer(c))
    /\ WF_vars(LoadGate) /\ WF_vars(Poll)
    /\ \A k \in Payments : SF_vars(\E c \in Caller : k \in due /\ HandleWebhook(c, k))
FairSpec == Spec /\ Fairness

-----------------------------------------------------------------------------
BillingTypeOK ==
    /\ subscription \in Subscription
    /\ payment \in [Payments -> {"none", "PENDING", "PAID", "FAILED"}]
    /\ gateway \in [Payments -> {"none", "pending", "approved", "refused", "refunded"}]
    /\ due \subseteq Payments
    /\ \A c \in Caller : call[c].k \in Payments \cup {None}
    /\ page \in [view : {"loading", "paywall", "panel"}, qr : Payments \cup {None},
                 polling : BOOLEAN]
    /\ extra \subseteq groups /\ groups \subseteq GroupIds /\ limit \in Limits

\* However many calls confirm a payment, and however late their answers are written,
\* the row never says less than the truth the gateway reached: PAID only for a charge
\* that was approved, FAILED only for one that can no longer be paid.
SettledAgrees ==
    \A k \in Payments :
        /\ payment[k] = "PAID" => gateway[k] \in {"approved", "refunded"}
        /\ payment[k] = "FAILED" => gateway[k] \in Refused

\* A payment activates the subscription once, unless two calls confirmed it at once:
\* deliveries repeated after that change nothing, a cancellation included.
OneActivationPerPayment ==
    \A k \in Payments : activated[k] > 1 => k \in overlapped

\* With webhooks configured every approved payment is recorded as such (or is refunded
\* first), through failed requests to the gateway and restarts.
ApprovedIsPaid ==
    \A k \in Payments :
        (gateway[k] = "approved" /\ payment[k] = "PENDING")
            ~> (payment[k] = "PAID" \/ gateway[k] = "refunded")

\* The groups that count against the plan never exceed its number, however requests, link
\* codes, removals, changes of the plan and restarts follow each other.  A group does not
\* count when the check was skipped for it (an operator of the platform, a tenant without
\* a plan), when it came by link code, when its request passed the check beside one about
\* to insert, or when it is from before the plan was reduced.
GroupsWithinPlan == Cardinality(groups \ extra) <= limit

\* A tenant whose payment is approved gets from the paywall to the panel without a hand
\* on the page: the page polls, and syncs with the gateway where there is no webhook.
PaidOpensPanel ==
    \A k \in Payments :
        (gateway[k] = "approved" /\ payment[k] = "PENDING" /\ page.view = "paywall")
            ~> (page.view = "panel" \/ gateway[k] = "refunded")
=============================================================================
