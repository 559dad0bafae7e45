-------------------------- MODULE WhatsAppSessions --------------------------
(***************************************************************************)
(* WhatsAppClientManager: the life cycle of one tenant's WhatsApp client.  *)
(* A client is a browser driven by whatsapp-web.js on the tenant's profile *)
(* directory; the manager keeps the current one in the map `clients`, the  *)
(* QR code to show, when the attempt began and when it last recovered, and *)
(* the status in the database.  The panel connects, disconnects and polls; *)
(* a watchdog looks at old attempts; a sender that fails three times       *)
(* recreates the client; and every client ever created raises events.      *)
(*                                                                         *)
(* Tenants share nothing, so one is enough.  Clients are numbered in order *)
(* of creation.  Time is the age of the attempt (`new`, or past the two    *)
(* minutes: `old`) and whether the recovery cooldown is running.  A status *)
(* write that nobody awaits is in flight, in any order, in `writes`.       *)
(***************************************************************************)
EXTENDS Naturals, FiniteSets

CONSTANTS
    Panel,        \* requests of the panel
    Watchdog,     \* runs of the watchdog; the interval does not wait for the last one
    Sender,       \* messages being sent to a group
    MaxAttempts,  \* attempts of a send: 3 in the code
    MaxClients,   \* bound: clients ever created
    MaxWrites,    \* bound: writes in flight at once
    MaxRaced,     \* bound: steps after the first race
    MaxSurvivors, \* bound: clients whose browser outlives its destroy()
    MaxCrashes    \* bound: restarts of the server

ASSUME SessionAssumption ==
    /\ MaxAttempts \in Nat \ {0} /\ MaxClients \in Nat
    /\ MaxWrites \in Nat \ {0} /\ MaxRaced \in Nat
    /\ MaxSurvivors \in Nat /\ MaxCrashes \in Nat
    /\ Panel \cap Watchdog = {} /\ Panel \cap Sender = {} /\ Watchdog \cap Sender = {}

VARIABLES
    status,      \* WhatsAppSession.status
    client,      \* clients: the current client of the tenant
    qr,          \* latestQr: the client whose code the panel shows
    attempt,     \* clientAttemptAt
    cooling,     \* lastRecoveryAt is less than five minutes old
    writes,      \* statuses being written by a call nobody awaits
    browser,     \* what became of each client
    leaving,     \* clients whose `disconnected` handler has not finished
    paired,      \* LocalAuth: the profile directory holds credentials
    profileLock, \* SingletonLock: the client whose browser locked the profile
    made,        \* clients created
    call,        \* calls between two awaits
    crashes,
    recovered,   \* history: a recovery began in this cooldown
    twice,       \* history: a second one did too
    survived,    \* history: clients a destroy() failed to close
    haunted,     \* history: one of them has acted on the session since
    raced        \* history: steps since two things first worked on the session at once

maps    == <<client, qr, attempt, cooling>>
world   == <<browser, leaving, paired, profileLock, made, survived>>
past    == <<recovered, twice, haunted>>
vars    == <<status, maps, writes, world, call, crashes, past, raced>>

Clients  == 1 .. MaxClients
NoClient == 0
Procs    == Panel \cup Watchdog \cup Sender

Status == {"DISCONNECTED", "CONNECTING", "CONNECTED", "ERROR"}
Phase  == {"none", "loading", "qr", "usable", "broken", "doomed", "closed"}

\* held is the client a call read from the map before it awaited, probed the one
\* sessionStatus read after it.
Call == [op : {"none", "connect", "poll", "disconnect", "watch", "send"},
         step : {"idle", "start", "status", "probe", "mark", "destroy", "drop", "upsert",
                 "create", "leave", "left", "update", "check", "look", "attempt",
                 "recover", "ended", "persist"},
         held : Clients \cup {NoClient}, probed : Clients \cup {NoClient},
         tries : 0 .. MaxAttempts]
Idle == [op |-> "none", step |-> "idle", held |-> NoClient, probed |-> NoClient, tries |-> 0]

At(p, step)    == call[p].step = step
Goto(p, step)  == call' = [call EXCEPT ![p].step = step]
Hold(p, step)  == call' = [call EXCEPT ![p].step = step, ![p].held = client]
Begin(p, c)    == call[p] = Idle /\ call' = [call EXCEPT ![p] = c]
Return(p)      == call' = [call EXCEPT ![p] = Idle]
\* WhatsAppService.connect answers with the status, read again.
Answer(p)      == IF call[p].op = "connect"
                  THEN call' = [call EXCEPT ![p] = [Idle EXCEPT !.op = "poll", !.step = "status"]]
                  ELSE Return(p)

Alive(c)  == browser[c] \in {"loading", "qr", "usable", "broken"}
Usable(c) == browser[c] = "usable"      \* isClientUsable: the page answers the probe

\* client.destroy(): the browser closes and releases its profile, and an initialize()
\* that is still running will reject.  Or it fails, because the browser is still being
\* launched or does not answer, and every caller swallows the rejection.
Destroyed(c) ==
    \/ /\ browser' = [browser EXCEPT ![c] = IF @ \in {"loading", "doomed"} THEN "doomed"
                                                                          ELSE "closed"]
       /\ profileLock' = IF profileLock = c THEN NoClient ELSE profileLock
       /\ UNCHANGED survived
    \/ /\ c # NoClient /\ Alive(c)
       /\ survived' = survived \cup {c}
       /\ Cardinality(survived') <= MaxSurvivors
       /\ UNCHANGED <<browser, profileLock>>

\* A client acts on the session: one that a destroy() was to have closed haunts it.
Acted(c) == haunted' = (haunted \/ c \in survived)

Persist(s) == /\ writes' = writes \cup {s}
              /\ Cardinality(writes') <= MaxWrites

-----------------------------------------------------------------------------
(***************************************************************************)
(* createClient: synchronous, whoever calls it.                            *)
(***************************************************************************)
\* A browser on a profile in use gives up: its initialize() will reject.
Started == IF profileLock = NoClient THEN "loading" ELSE "doomed"

CreateClient ==
    LET c == made + 1 IN
    /\ made < MaxClients
    /\ made' = c
    /\ Persist("CONNECTING")
    /\ attempt' = "new"
    /\ client' = c
    /\ browser' = [browser EXCEPT ![c] = Started]
    /\ profileLock' = IF profileLock = NoClient THEN c ELSE profileLock

Create(p) ==
    /\ At(p, "create")
    /\ CreateClient
    /\ Answer(p)
    /\ UNCHANGED <<status, qr, cooling, leaving, paired, survived, crashes, past>>

-----------------------------------------------------------------------------
(***************************************************************************)
(* connect and sessionStatus.  connect looks at the map first; when there  *)
(* is a client it asks sessionStatus, which reads the row and, while it    *)
(* says CONNECTING, probes the client that is then in the map.             *)
(***************************************************************************)
EnterConnect(p) ==
    IF client = NoClient THEN qr' = NoClient /\ Goto(p, "upsert")
                         ELSE UNCHANGED qr   /\ Hold(p, "status")

Connect(p) ==
    /\ Begin(p, [Idle EXCEPT !.op = "connect", !.step = "start"])
    /\ UNCHANGED <<status, maps, writes, world, crashes, past>>

ConnectStart(p) ==
    /\ At(p, "start")
    /\ EnterConnect(p)
    /\ UNCHANGED <<status, client, attempt, cooling, writes, world, crashes, past>>

Poll(p) ==
    /\ Begin(p, [Idle EXCEPT !.op = "poll", !.step = "status"])
    /\ UNCHANGED <<status, maps, writes, world, crashes, past>>

\* What a call does with the status: a poll returns it, connect keeps a healthy
\* session or one whose code may be being scanned, and replaces the rest.
Decide(p, s) ==
    IF \/ call[p].op = "poll"
       \/ s = "CONNECTED"
       \/ s = "CONNECTING" /\ qr # NoClient
    THEN Answer(p) ELSE Goto(p, "destroy")

ReadStatus(p) ==
    /\ At(p, "status")
    /\ IF status = "CONNECTING" /\ client # NoClient
       THEN call' = [call EXCEPT ![p].step = "probe", ![p].probed = client]
       ELSE Decide(p, status)
    /\ UNCHANGED <<status, maps, writes, world, crashes, past>>

Probe(p) ==
    /\ At(p, "probe")
    /\ IF Usable(call[p].probed)
       THEN attempt' = "none" /\ Goto(p, "mark") /\ Acted(call[p].probed)
       ELSE UNCHANGED <<attempt, haunted>> /\ Decide(p, "CONNECTING")
    /\ UNCHANGED <<status, client, qr, cooling, writes, world, crashes, recovered, twice>>

\* Mutant: the session is marked with a state of the library.
MarkConnectedMutant(p) ==
    /\ At(p, "mark")
    /\ status' = "READY"
    /\ Answer(p)
    /\ UNCHANGED <<maps, writes, world, crashes, past>>

MarkConnected(p) ==
    /\ At(p, "mark")
    /\ status' = "CONNECTED"
    /\ Answer(p)
    /\ UNCHANGED <<maps, writes, world, crashes, past>>

\* Mutant: the stuck client is dropped from the map and its browser left open.
DestroyExistingMutant(p) ==
    /\ At(p, "destroy")
    /\ Goto(p, "drop")
    /\ UNCHANGED <<status, maps, writes, world, crashes, past>>

DestroyExisting(p) ==
    /\ At(p, "destroy")
    /\ Destroyed(call[p].held)
    /\ Goto(p, "drop")
    /\ UNCHANGED <<status, maps, writes, leaving, paired, made, crashes, past>>

\* Mutant: the code of the client just destroyed stays on show.
DropExistingMutant(p) ==
    /\ At(p, "drop")
    /\ client' = NoClient /\ attempt' = "none" /\ UNCHANGED qr
    /\ Goto(p, "upsert")
    /\ UNCHANGED <<status, cooling, writes, world, crashes, past>>

DropExisting(p) ==
    /\ At(p, "drop")
    /\ client' = NoClient /\ attempt' = "none" /\ qr' = NoClient
    /\ Goto(p, "upsert")
    /\ UNCHANGED <<status, cooling, writes, world, crashes, past>>

Upsert(p) ==
    /\ At(p, "upsert")
    /\ status' = "CONNECTING"
    /\ Goto(p, "create")
    /\ UNCHANGED <<maps, writes, world, crashes, past>>

-----------------------------------------------------------------------------
(***************************************************************************)
(* disconnect: destroy, forget everything, wipe the credentials, connect.  *)
(***************************************************************************)
\* clearStoredSession removes the profile directory, whatever locks it; when rmSync
\* fails the error is swallowed and some of it stays.
Forget(p) ==
    /\ attempt' = "none" /\ qr' = NoClient
    /\ paired' \in {FALSE, paired} /\ profileLock' \in {NoClient, profileLock}
    /\ Goto(p, "update")

Disconnect(p) ==
    /\ call[p] = Idle
    /\ call' = [call EXCEPT ![p] = [Idle EXCEPT !.op = "disconnect", !.step = "leave"]]
    /\ qr' = NoClient
    /\ UNCHANGED <<status, client, attempt, cooling, writes, world, crashes, past>>

Leave(p) ==
    /\ At(p, "leave")
    /\ IF client = NoClient
       THEN /\ Forget(p)
            /\ UNCHANGED <<browser, survived>>
       ELSE /\ Destroyed(client)
            /\ Hold(p, "left")
            /\ UNCHANGED <<attempt, qr, paired>>
    /\ UNCHANGED <<status, client, cooling, writes, leaving, made, crashes, past>>

Left(p) ==
    /\ At(p, "left")
    /\ client' = NoClient
    /\ Forget(p)
    /\ UNCHANGED <<status, cooling, writes, browser, leaving, made, survived, crashes, past>>

UpdateDisconnected(p) ==
    /\ At(p, "update")
    /\ status' = "DISCONNECTED"
    /\ EnterConnect(p)
    /\ UNCHANGED <<client, attempt, cooling, writes, world, crashes, past>>

-----------------------------------------------------------------------------
(***************************************************************************)
(* watchConnectingClients: an attempt of a client that is gone is dropped; *)
(* an old one is dropped unless the row says CONNECTING, marked connected  *)
(* when the client answers the probe, and connected again otherwise.       *)
(***************************************************************************)
Watch(p) ==
    /\ attempt # "none"
    /\ call[p] = Idle
    /\ IF client = NoClient
       THEN attempt' = "none" /\ UNCHANGED call
       ELSE /\ attempt = "old"
            /\ call' = [call EXCEPT ![p] =
                          [Idle EXCEPT !.op = "watch", !.step = "check", !.held = client]]
            /\ UNCHANGED attempt
    /\ UNCHANGED <<status, client, qr, cooling, writes, world, crashes, past>>

WatchStatus(p) ==
    /\ At(p, "check")
    /\ IF status = "CONNECTING"
       THEN Goto(p, "look") /\ UNCHANGED attempt
       ELSE attempt' = "none" /\ Return(p)
    /\ UNCHANGED <<status, client, qr, cooling, writes, world, crashes, past>>

WatchProbe(p) ==
    /\ At(p, "look")
    /\ IF Usable(call[p].held)
       THEN attempt' = "none" /\ UNCHANGED qr /\ Goto(p, "mark")
       ELSE UNCHANGED attempt /\ EnterConnect(p)
    /\ UNCHANGED <<status, client, cooling, writes, world, crashes, past>>

-----------------------------------------------------------------------------
(***************************************************************************)
(* sendToGroup: up to three attempts, each on the client then in the map;  *)
(* after the last one recoverClient recreates it, unless it did so less    *)
(* than five minutes ago.                                                  *)
(***************************************************************************)
Send(p) ==
    /\ Begin(p, [Idle EXCEPT !.op = "send", !.step = "attempt"])
    /\ UNCHANGED <<status, maps, writes, world, crashes, past>>

\* Sent, or rejected at once because there is no client.
SendEnds(p) ==
    /\ At(p, "attempt")
    /\ client # NoClient => Usable(client)
    /\ Return(p)
    /\ UNCHANGED <<status, maps, writes, world, crashes, past>>

\* The page does not answer, the chat is not found, or the message is not sent.
SendFails(p) ==
    /\ At(p, "attempt")
    /\ client # NoClient
    /\ call' = [call EXCEPT ![p].tries = @ + 1,
                            ![p].step = IF call[p].tries + 1 < MaxAttempts
                                        THEN "attempt" ELSE "recover"]
    /\ UNCHANGED <<status, maps, writes, world, crashes, past>>

\* Mutant: the time of the recovery is not kept.
RecoverClientMutant(p) ==
    /\ At(p, "recover")
    /\ IF cooling
       THEN Return(p) /\ UNCHANGED <<client, qr, recovered, twice>>
       ELSE /\ recovered' = TRUE /\ twice' = (twice \/ recovered)
            /\ client' = NoClient
            /\ IF client = NoClient
               THEN qr' = NoClient /\ Goto(p, "persist")
               ELSE UNCHANGED qr /\ Hold(p, "ended")
    /\ UNCHANGED <<status, attempt, cooling, writes, world, crashes, haunted>>

\* The check of the cooldown, its start and the removal from the map are one stretch.
RecoverClient(p) ==
    /\ At(p, "recover")
    /\ IF cooling
       THEN Return(p) /\ UNCHANGED <<client, qr, cooling, recovered, twice>>
       ELSE /\ cooling' = TRUE
            /\ recovered' = TRUE /\ twice' = (twice \/ recovered)
            /\ client' = NoClient
            /\ IF client = NoClient
               THEN qr' = NoClient /\ Goto(p, "persist")
               ELSE UNCHANGED qr /\ Hold(p, "ended")
    /\ UNCHANGED <<status, attempt, writes, world, crashes, haunted>>

RecoverDestroys(p) ==
    /\ At(p, "ended")
    /\ Destroyed(call[p].held)
    /\ qr' = NoClient
    /\ Goto(p, "persist")
    /\ UNCHANGED <<status, client, attempt, cooling, writes, leaving, paired, made, crashes, past>>

RecoverPersists(p) ==
    /\ At(p, "persist")
    /\ status' = "CONNECTING"
    /\ Goto(p, "create")
    /\ UNCHANGED <<maps, writes, world, crashes, past>>

-----------------------------------------------------------------------------
(***************************************************************************)
(* The events of a client, current or not: they all act on the tenant.     *)
(***************************************************************************)
\* A browser still loading asks for a code or restores the session as its directory
\* says, or as it said before it was wiped under it.
OnQr(c) ==
    /\ \/ browser[c] = "qr"
       \/ browser[c] = "loading" /\ (~paired \/ profileLock # c)
    /\ browser' = [browser EXCEPT ![c] = "qr"]
    /\ qr' = c
    /\ attempt' = "new"
    /\ Persist("CONNECTING")
    /\ Acted(c)
    /\ UNCHANGED <<status, client, cooling, leaving, paired, profileLock, made, survived, call,
                   crashes, recovered, twice>>

\* The page is injected: with the code scanned, or with the stored credentials.
\* `ready` usually follows; sometimes it never does.
Injected(c) ==
    /\ \/ browser[c] = "qr"
       \/ browser[c] = "loading" /\ (paired \/ profileLock # c)
    /\ browser' = [browser EXCEPT ![c] = "usable"]
    /\ \/ paired' = TRUE
       \/ profileLock # c /\ UNCHANGED paired
    /\ UNCHANGED <<status, maps, writes, leaving, profileLock, made, survived, call, crashes,
                   past>>

OnReady(c) ==
    /\ Usable(c)
    /\ attempt' = "none"
    /\ Persist("CONNECTED")
    /\ Acted(c)
    /\ UNCHANGED <<status, client, qr, cooling, world, call, crashes, recovered, twice>>

OnAuthFailure(c) ==
    /\ browser[c] \in {"loading", "qr"}
    /\ attempt' = "none"
    /\ Persist("ERROR")
    /\ Acted(c)
    /\ UNCHANGED <<status, client, qr, cooling, world, call, crashes, recovered, twice>>

\* initialize() rejects: the page does not load (the browser stays open), or the profile
\* was in use or the browser destroyed while loading.
InitializeFails(c) ==
    /\ browser[c] \in {"loading", "doomed"}
    /\ browser' = [browser EXCEPT ![c] = IF @ = "loading" THEN "broken" ELSE "closed"]
    /\ attempt' = "none"
    /\ Persist("ERROR")
    /\ Acted(c)
    /\ UNCHANGED <<status, client, qr, cooling, leaving, paired, profileLock, made, survived, call,
                   crashes, recovered, twice>>

OnDisconnected(c) ==
    /\ Alive(c) /\ leaving[c] = "no"
    /\ browser' = [browser EXCEPT ![c] = "closed"]
    /\ profileLock' = IF profileLock = c THEN NoClient ELSE profileLock
    /\ attempt' = "none"
    /\ leaving' = [leaving EXCEPT ![c] = "persist"]
    /\ Acted(c)
    /\ UNCHANGED <<status, client, qr, cooling, writes, paired, made, survived, call, crashes,
                   recovered, twice>>

\* Mutant: the handler forgets the status.
DisconnectedPersistsMutant(c) ==
    /\ leaving[c] = "persist"
    /\ leaving' = [leaving EXCEPT ![c] = "drop"]
    /\ UNCHANGED <<status, maps, writes, browser, paired, profileLock, made, survived, call, crashes,
                   past>>

DisconnectedPersists(c) ==
    /\ leaving[c] = "persist"
    /\ status' = "DISCONNECTED"
    /\ leaving' = [leaving EXCEPT ![c] = "drop"]
    /\ UNCHANGED <<maps, writes, browser, paired, profileLock, made, survived, call, crashes,
                   past>>

DisconnectedDrops(c) ==
    /\ leaving[c] = "drop"
    /\ leaving' = [leaving EXCEPT ![c] = "no"]
    /\ client' = NoClient /\ qr' = NoClient
    /\ UNCHANGED <<status, attempt, cooling, writes, browser, paired, profileLock, made, survived,
                   call, crashes, past>>

\* The page of a working client breaks (a detached frame) with no event.
Breaks(c) ==
    /\ Usable(c)
    /\ browser' = [browser EXCEPT ![c] = "broken"]
    /\ UNCHANGED <<status, maps, writes, leaving, paired, profileLock, made, survived, call, crashes,
                   past>>

WriteLands ==
    \E s \in writes :
        /\ status' = s /\ writes' = writes \ {s}
        /\ UNCHANGED <<maps, world, call, crashes, past>>

Ages ==
    /\ attempt = "new" /\ attempt' = "old"
    /\ UNCHANGED <<status, client, qr, cooling, writes, world, call, crashes, past>>

CooldownEnds ==
    /\ cooling /\ cooling' = FALSE /\ recovered' = FALSE
    /\ UNCHANGED <<status, client, qr, attempt, writes, world, call, crashes, twice, haunted>>

-----------------------------------------------------------------------------
(***************************************************************************)
(* The process dies, and every browser with it, whose locks stay on disk;  *)
(* onModuleInit removes them and recreates the client of a session that    *)
(* was connected or connecting, before any request is accepted.            *)
(***************************************************************************)
\* Mutant: existsSync follows the dangling link, and the lock is never removed.
CleanupStaleChromiumLocksMutant == profileLock

CleanupStaleChromiumLocks == NoClient

Restart ==
    LET c == made + 1
        reconnect == status \in {"CONNECTED", "CONNECTING"} IN
    /\ crashes < MaxCrashes /\ crashes' = crashes + 1
    /\ reconnect => made < MaxClients
    /\ made' = IF reconnect THEN c ELSE made
    /\ client' = IF reconnect THEN c ELSE NoClient
    /\ attempt' = IF reconnect THEN "new" ELSE "none"
    /\ writes' = IF reconnect THEN {"CONNECTING"} ELSE {}
    /\ profileLock' = LET left == IF profileLock # NoClient THEN CleanupStaleChromiumLocks
                                                            ELSE NoClient IN
                      IF reconnect /\ left = NoClient THEN c ELSE left
    /\ browser' = [k \in Clients |-> IF k = c /\ reconnect
                                     THEN IF profileLock' = c THEN "loading" ELSE "doomed"
                                     ELSE IF k <= made THEN "closed" ELSE "none"]
    /\ qr' = NoClient /\ cooling' = FALSE /\ recovered' = FALSE
    /\ leaving' = [k \in Clients |-> "no"]
    /\ survived' = {} /\ haunted' = FALSE
    /\ call' = [p \in Procs |-> Idle]
    /\ UNCHANGED <<status, paired, twice>>

-----------------------------------------------------------------------------
Init ==
    /\ status = "DISCONNECTED"
    /\ client = NoClient /\ qr = NoClient /\ attempt = "none" /\ cooling = FALSE
    /\ writes = {}
    /\ browser = [c \in Clients |-> "none"]
    /\ leaving = [c \in Clients |-> "no"]
    /\ paired = FALSE /\ profileLock = NoClient /\ made = 0
    /\ call = [p \in Procs |-> Idle]
    /\ crashes = 0
    /\ recovered = FALSE /\ twice = FALSE /\ survived = {} /\ haunted = FALSE /\ raced = 0

ConnectSteps(p) ==
    \/ ConnectStart(p) \/ ReadStatus(p) \/ Probe(p) \/ MarkConnected(p)
    \/ DestroyExisting(p) \/ DropExisting(p) \/ Upsert(p) \/ Create(p)
DisconnectSteps(p) == Leave(p) \/ Left(p) \/ UpdateDisconnected(p)
WatchSteps(p)      == WatchStatus(p) \/ WatchProbe(p)
SendSteps(p)       == \/ SendEnds(p) \/ SendFails(p)
                      \/ RecoverClient(p) \/ RecoverDestroys(p) \/ RecoverPersists(p)
Farewell(c)        == DisconnectedPersists(c) \/ DisconnectedDrops(c)
ClientEvent(c)     == \/ OnQr(c) \/ Injected(c) \/ OnReady(c) \/ OnAuthFailure(c)
                      \/ InitializeFails(c) \/ OnDisconnected(c) \/ Breaks(c)

Continue(p) == ConnectSteps(p) \/ DisconnectSteps(p) \/ WatchSteps(p) \/ SendSteps(p)

Step ==
    \/ \E p \in Panel : Connect(p) \/ Poll(p) \/ Disconnect(p)
    \/ \E p \in Watchdog : Watch(p)
    \/ \E p \in Sender : Send(p)
    \/ \E p \in Procs : Continue(p)
    \/ \E c \in Clients : ClientEvent(c) \/ Farewell(c)
    \/ WriteLands \/ Ages \/ CooldownEnds
    \/ Restart

\* The calls that write the status or replace the client, the farewells that do, and
\* the writes nobody awaits: more than one of them at a time is a race.
Replacing == {p \in Procs : \/ call[p].op \in {"connect", "disconnect", "watch"}
                            \/ call[p].step \in {"recover", "ended", "persist", "create", "mark"}}
Leaving   == {c \in Clients : leaving[c] # "no"}
Race      == Cardinality(Replacing) + Cardinality(Leaving) + Cardinality(writes) > 1

Count == /\ raced' = IF raced > 0 \/ Race' THEN raced + 1 ELSE 0
         /\ raced' <= MaxRaced

Next == Step /\ Count
Spec == Init /\ [][Next]_vars

Fairness ==
    /\ \A p \in Watchdog : WF_vars(Watch(p) /\ Count)
    /\ \A p \in Procs : WF_vars(Continue(p) /\ Count)
    /\ WF_vars(WriteLands /\ Count)
    /\ WF_vars(Ages /\ Count)
FairSpec == Spec /\ Fairness

-----------------------------------------------------------------------------
SessionTypeOK ==
    /\ status \in Status /\ writes \subseteq Status
    /\ client \in Clients \cup {NoClient} /\ qr \in Clients \cup {NoClient}
    /\ attempt \in {"none", "new", "old"} /\ cooling \in BOOLEAN
    /\ browser \in [Clients -> Phase]
    /\ leaving \in [Clients -> {"no", "persist", "drop"}]
    /\ paired \in BOOLEAN /\ profileLock \in Clients \cup {NoClient}
    /\ made \in 0 .. MaxClients
    /\ call \in [Procs -> Call]
    /\ crashes \in 0 .. MaxCrashes
    /\ recovered \in BOOLEAN /\ twice \in BOOLEAN /\ survived \subseteq Clients
    /\ haunted \in BOOLEAN /\ raced \in 0 .. MaxRaced

\* Nothing is under way and no write is in flight.
Quiet == /\ \A p \in Procs : call[p] = Idle
         /\ \A c \in Clients : leaving[c] = "no"
         /\ writes = {}

\* The cooldown of recoverClient: however many sends fail at once, the client is
\* recreated once in each five minutes.
OneRecoveryPerCooldown == ~twice

\* No race so far, and no client that outlived its destroy() has acted on the session.
Undisturbed == raced = 0 /\ ~haunted

\* While undisturbed, a browser running outside the map, where nothing would ever destroy
\* it, is one that recoverClient is about to end or one whose destroy() failed.
NoOrphanBrowser ==
    Undisturbed => \A c \in Clients : Alive(c) => \/ client = c \/ c \in survived
                                                  \/ \E p \in Procs : /\ call[p].held = c
                                                                       /\ call[p].step = "ended"

\* While undisturbed, the code on the panel is that of the client in the map: scanning it
\* pairs the browser that will be used.
QrOfCurrent ==
    Undisturbed => qr \in {NoClient, client} \/ \E p \in Procs : At(p, "ended")

\* connect recreates a stuck client to have a new code, and after disconnect "o painel já
\* mostra o QR novo": with one thing at a time, the code shown is that of the client in
\* the map.  (Violated: a client whose destroy() failed goes on showing its own.)
CodeIsNew ==
    raced = 0 => qr \in {NoClient, client} \/ \E p \in Procs : At(p, "ended")

\* The status in the database is backed by the maps: a session shown as connected has a
\* client to send with, and one shown as connecting has a client the watchdog times.
StatusIsBacked ==
    Quiet /\ Undisturbed =>
        /\ status \in {"CONNECTED", "CONNECTING"} => client # NoClient
        /\ status = "CONNECTING" => attempt # "none"

\* The profile is never locked by a browser that is gone, after a restart included:
\* a locked profile makes every later client fail to start.
LockedByLive == profileLock # NoClient => Alive(profileLock)

\* A client past its two minutes that neither works nor fails is replaced by the
\* watchdog, as long as the bound leaves a client to create.
StuckIsRecreated ==
    \A c \in Clients :
        (client = c /\ status = "CONNECTING" /\ attempt = "old" /\ ~Usable(c) /\ made < MaxClients)
            ~> (client # c \/ status # "CONNECTING" \/ attempt # "old" \/ Usable(c))
=============================================================================
