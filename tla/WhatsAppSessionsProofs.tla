------------------------ MODULE WhatsAppSessionsProofs ------------------------
(***************************************************************************)
(* What holds of WhatsAppSessions for any number of requests, watchdogs,   *)
(* senders, clients, restarts and overlaps:                                *)
(*   SessionTypeCorrect  the type invariant;                               *)
(*   RecoverySafety      one recovery in each cooldown;                    *)
(*   LockSafety          no profile locked by a browser that is gone;      *)
(*   OrphanSafety        no browser outside the map but a survivor's;      *)
(*   QrSafety            the code shown is that of the current client;     *)
(*   StatusSafety        the status at rest is borne out by the maps.      *)
(* The last three hold until two things first work on the session at once, *)
(* or a client that outlived its destroy() first acts on it, and rest on   *)
(* Orderly, where each call and farewell stands until then.                *)
(* The bounds of the model (clients, writes, steps after a race, restarts) *)
(* are constants, so nothing below depends on their values.                *)
(***************************************************************************)
EXTENDS WhatsAppSessions, FiniteSetTheorems, TLAPS

LEMMA NoClientFact == NoClient \notin Clients /\ Clients \subseteq Nat
  BY SessionAssumption DEF NoClient, Clients

-----------------------------------------------------------------------------
(***************************************************************************)
(* Types.  A send that is to be attempted has attempts left.               *)
(***************************************************************************)
HasTries == \A p \in Procs : call[p].step = "attempt" => call[p].tries < MaxAttempts
Typed    == SessionTypeOK /\ HasTries

LEMMA TypedInit == Init => Typed
  <1>. SUFFICES ASSUME Init PROVE Typed
    OBVIOUS
  <1>1. Idle \in Call
    BY SessionAssumption DEF Idle, Call, NoClient
  <1>2. HasTries
    BY SessionAssumption DEF Init, HasTries, Idle
  <1>3. 0 \in 0 .. MaxClients /\ 0 \in 0 .. MaxCrashes /\ 0 \in 0 .. MaxRaced
    BY SessionAssumption
  <1>4. SessionTypeOK
    BY <1>1, <1>3 DEF Init, SessionTypeOK, Status, Phase
  <1>. QED  BY <1>2, <1>4 DEF Typed

\* What the helpers do to the calls keeps their type.
LEMMA CallTypes ==
    ASSUME Typed, NEW p \in Procs
    PROVE  /\ \A step \in {"idle", "start", "status", "probe", "mark", "destroy", "drop",
                           "upsert", "create", "leave", "left", "update", "check", "look",
                           "recover", "ended", "persist"} :
                 /\ Goto(p, step) => call' \in [Procs -> Call] /\ HasTries'
                 /\ Hold(p, step) => call' \in [Procs -> Call] /\ HasTries'
           /\ Return(p) => call' \in [Procs -> Call] /\ HasTries'
           /\ Answer(p) => call' \in [Procs -> Call] /\ HasTries'
  <1>1. Idle \in Call
    BY SessionAssumption DEF Idle, Call, NoClient
  <1>2. call \in [Procs -> Call] /\ HasTries /\ client \in Clients \cup {NoClient}
    BY DEF Typed, SessionTypeOK
  <1>3. call[p] \in Call
    BY <1>2
  <1>4. ASSUME NEW step \in {"idle", "start", "status", "probe", "mark", "destroy", "drop",
                             "upsert", "create", "leave", "left", "update", "check", "look",
                             "recover", "ended", "persist"}
        PROVE  /\ Goto(p, step) => call' \in [Procs -> Call] /\ HasTries'
               /\ Hold(p, step) => call' \in [Procs -> Call] /\ HasTries'
    BY <1>2, <1>3 DEF Goto, Hold, Call, HasTries
  <1>5. Return(p) => call' \in [Procs -> Call] /\ HasTries'
    BY <1>1, <1>2, SessionAssumption DEF Return, HasTries, Idle
  <1>6. [Idle EXCEPT !.op = "poll", !.step = "status"] \in Call
    BY <1>1 DEF Call
  <1>7. [Idle EXCEPT !.op = "poll", !.step = "status"].step = "status"
    BY DEF Idle
  <1>8. Answer(p) => call' \in [Procs -> Call] /\ HasTries'
    BY <1>2, <1>5, <1>6, <1>7 DEF Answer, HasTries
  <1>. QED  BY <1>4, <1>5, <1>8

\* A client's browser after destroy().
LEMMA DestroyedTypes ==
    ASSUME SessionTypeOK, NEW c \in Clients \cup {NoClient}, Destroyed(c)
    PROVE  /\ browser' \in [Clients -> Phase] /\ profileLock' \in Clients \cup {NoClient}
           /\ survived' \subseteq Clients
  BY NoClientFact DEF SessionTypeOK, Destroyed, Alive, Phase

\* The states a call begins in.
LEMMA BeginTypes ==
    ASSUME Typed, NEW p \in Procs
    PROVE  /\ Idle \in Call
           /\ \A op \in {"connect", "poll", "disconnect", "watch"},
                step \in {"start", "status", "leave"} :
                 call' = [call EXCEPT ![p] = [Idle EXCEPT !.op = op, !.step = step]]
                     => call' \in [Procs -> Call] /\ HasTries'
           /\ call' = [call EXCEPT ![p] = [Idle EXCEPT !.op = "watch", !.step = "check",
                                                      !.held = client]]
                     => call' \in [Procs -> Call] /\ HasTries'
           /\ call' = [call EXCEPT ![p] = [Idle EXCEPT !.op = "send", !.step = "attempt"]]
                     => call' \in [Procs -> Call] /\ HasTries'
  <1>1. Idle \in Call /\ Idle.tries = 0
    BY SessionAssumption DEF Idle, Call, NoClient
  <1>2. call \in [Procs -> Call] /\ HasTries /\ client \in Clients \cup {NoClient}
    BY DEF Typed, SessionTypeOK
  <1>3. ASSUME NEW op \in {"connect", "poll", "disconnect", "watch"},
               NEW step \in {"start", "status", "leave"}
        PROVE  LET c == [Idle EXCEPT !.op = op, !.step = step]
               IN  c \in Call /\ c.step # "attempt"
    BY <1>1 DEF Call
  <1>4. LET c == [Idle EXCEPT !.op = "watch", !.step = "check", !.held = client]
        IN  c \in Call /\ c.step # "attempt"
    BY <1>1, <1>2 DEF Call
  <1>5. LET c == [Idle EXCEPT !.op = "send", !.step = "attempt"]
        IN  c \in Call /\ c.tries = 0
    BY <1>1 DEF Call
  <1>6. ASSUME NEW c \in Call, c.step = "attempt" => c.tries < MaxAttempts,
               call' = [call EXCEPT ![p] = c]
        PROVE  call' \in [Procs -> Call] /\ HasTries'
    BY <1>2, <1>6 DEF HasTries
  <1>7. ASSUME NEW op \in {"connect", "poll", "disconnect", "watch"},
               NEW step \in {"start", "status", "leave"},
               call' = [call EXCEPT ![p] = [Idle EXCEPT !.op = op, !.step = step]]
        PROVE  call' \in [Procs -> Call] /\ HasTries'
    BY <1>3, <1>6, <1>7
  <1>8. ASSUME call' = [call EXCEPT ![p] = [Idle EXCEPT !.op = "watch", !.step = "check",
                                                      !.held = client]]
        PROVE  call' \in [Procs -> Call] /\ HasTries'
    BY <1>4, <1>6, <1>8
  <1>9. ASSUME call' = [call EXCEPT ![p] = [Idle EXCEPT !.op = "send", !.step = "attempt"]]
        PROVE  call' \in [Procs -> Call] /\ HasTries'
    <2>1. 0 < MaxAttempts
      BY SessionAssumption
    <2>. DEFINE c == [Idle EXCEPT !.op = "send", !.step = "attempt"]
    <2>2. c \in Call /\ c.tries < MaxAttempts /\ call' = [call EXCEPT ![p] = c]
      BY <1>5, <1>9, <2>1
    <2>. HIDE DEF c
    <2>. QED  BY <1>6, <2>2
  <1>. QED  BY <1>1, <1>7, <1>8, <1>9

-----------------------------------------------------------------------------
(***************************************************************************)
(* One lemma per group of actions: each keeps every type but that of       *)
(* `raced`, which Count bounds.                                            *)
(***************************************************************************)

\* Requests of the panel.
LEMMA ConnectStepTyped ==
    ASSUME Typed, raced' \in 0 .. MaxRaced, NEW p \in Procs,
           \/ Connect(p) \/ Poll(p) \/ ConnectStart(p) \/ ReadStatus(p)
           \/ Probe(p) \/ MarkConnected(p) \/ DestroyExisting(p) \/ DropExisting(p)
           \/ Upsert(p) \/ Create(p)
    PROVE  Typed'
  <1>. USE DEF Typed, SessionTypeOK, maps, world, past, Acted
  <1>1. CASE Connect(p)
    BY <1>1, BeginTypes DEF Connect, Begin
  <1>2. CASE Poll(p)
    BY <1>2, BeginTypes DEF Poll, Begin
  <1>3. CASE ConnectStart(p)
    BY <1>3, CallTypes DEF ConnectStart, EnterConnect
  <1>4. CASE ReadStatus(p)
    <2>1. CASE status = "CONNECTING" /\ client # NoClient
      <3>1. call' = [call EXCEPT ![p].step = "probe", ![p].probed = client]
        BY <1>4, <2>1 DEF ReadStatus
      <3>2. call' \in [Procs -> Call] /\ HasTries'
        <4>1. [call[p] EXCEPT !.step = "probe", !.probed = client] \in Call
          BY DEF Call
        <4>. QED  BY <3>1, <4>1 DEF HasTries
      <3>. QED  BY <1>4, <3>2 DEF ReadStatus
    <2>2. CASE ~(status = "CONNECTING" /\ client # NoClient)
      BY <1>4, <2>2, CallTypes DEF ReadStatus, Decide
    <2>. QED  BY <2>1, <2>2
  <1>5. CASE Probe(p)
    BY <1>5, CallTypes DEF Probe, Decide
  <1>6. CASE MarkConnected(p)
    BY <1>6, CallTypes DEF MarkConnected, Status
  <1>7. CASE DestroyExisting(p)
    <2>1. call[p].held \in Clients \cup {NoClient}
      BY DEF Call
    <2>. QED  BY <1>7, <2>1, CallTypes, DestroyedTypes DEF DestroyExisting
  <1>8. CASE DropExisting(p)
    BY <1>8, CallTypes DEF DropExisting
  <1>9. CASE Upsert(p)
    BY <1>9, CallTypes DEF Upsert, Status
  <1>10. CASE Create(p)
    BY <1>10, CallTypes, SessionAssumption DEF Create, CreateClient, Started, Persist, Status, Phase, Clients
  <1>. QED  BY <1>1, <1>2, <1>3, <1>4, <1>5, <1>6, <1>7, <1>8, <1>9, <1>10

\* A disconnection.
LEMMA DisconnectStepTyped ==
    ASSUME Typed, raced' \in 0 .. MaxRaced, NEW p \in Procs,
           Disconnect(p) \/ Leave(p) \/ Left(p) \/ UpdateDisconnected(p)
    PROVE  Typed'
  <1>. USE DEF Typed, SessionTypeOK, maps, world, past, Acted
  <1>1. CASE Disconnect(p)
    BY <1>1, BeginTypes DEF Disconnect
  <1>2. CASE Leave(p)
    BY <1>2, CallTypes, DestroyedTypes DEF Leave, Forget
  <1>3. CASE Left(p)
    BY <1>3, CallTypes DEF Left, Forget
  <1>4. CASE UpdateDisconnected(p)
    BY <1>4, CallTypes DEF UpdateDisconnected, EnterConnect, Status
  <1>. QED  BY <1>1, <1>2, <1>3, <1>4

\* The watchdog.
LEMMA WatchStepTyped ==
    ASSUME Typed, raced' \in 0 .. MaxRaced, NEW p \in Procs,
           Watch(p) \/ WatchStatus(p) \/ WatchProbe(p)
    PROVE  Typed'
  <1>. USE DEF Typed, SessionTypeOK, maps, world, past, Acted
  <1>1. CASE Watch(p)
    BY <1>1, BeginTypes DEF Watch, HasTries
  <1>2. CASE WatchStatus(p)
    BY <1>2, CallTypes DEF WatchStatus
  <1>3. CASE WatchProbe(p)
    BY <1>3, CallTypes DEF WatchProbe, EnterConnect
  <1>. QED  BY <1>1, <1>2, <1>3

\* A send and its recovery.
LEMMA SendStepTyped ==
    ASSUME Typed, raced' \in 0 .. MaxRaced, NEW p \in Procs,
           \/ Send(p) \/ SendEnds(p) \/ SendFails(p) \/ RecoverClient(p)
           \/ RecoverDestroys(p) \/ RecoverPersists(p)
    PROVE  Typed'
  <1>. USE DEF Typed, SessionTypeOK, maps, world, past, Acted
  <1>1. CASE Send(p)
    BY <1>1, BeginTypes DEF Send, Begin
  <1>2. CASE SendEnds(p)
    BY <1>2, CallTypes DEF SendEnds
  <1>3. CASE SendFails(p)
    <2>1. call[p] \in Call /\ call[p].tries < MaxAttempts
      BY <1>3 DEF SendFails, At, HasTries
    <2>2. call[p].tries + 1 \in 0 .. MaxAttempts
      BY <2>1, SessionAssumption DEF Call
    <2>3. call' \in [Procs -> Call]
      BY <1>3, <2>1, <2>2 DEF SendFails, Call
    <2>4. HasTries'
      BY <1>3, <2>1 DEF SendFails, HasTries
    <2>. QED  BY <1>3, <2>3, <2>4 DEF SendFails
  <1>4. CASE RecoverClient(p)
    BY <1>4, CallTypes DEF RecoverClient
  <1>5. CASE RecoverDestroys(p)
    <2>1. call[p].held \in Clients \cup {NoClient}
      BY DEF Call
    <2>. QED  BY <1>5, <2>1, CallTypes, DestroyedTypes DEF RecoverDestroys
  <1>6. CASE RecoverPersists(p)
    BY <1>6, CallTypes DEF RecoverPersists, Status
  <1>. QED  BY <1>1, <1>2, <1>3, <1>4, <1>5, <1>6

\* The events of a client.
LEMMA EventStepTyped ==
    ASSUME Typed, raced' \in 0 .. MaxRaced, NEW c \in Clients,
           \/ OnQr(c) \/ Injected(c) \/ OnReady(c) \/ OnAuthFailure(c)
           \/ InitializeFails(c) \/ OnDisconnected(c) \/ DisconnectedPersists(c) \/ DisconnectedDrops(c)
           \/ Breaks(c)
    PROVE  Typed'
  <1>. USE DEF Typed, SessionTypeOK, maps, world, past, Acted
  <1>1. CASE OnQr(c)
    BY <1>1, SessionAssumption DEF OnQr, Persist, Status, Phase, HasTries
  <1>2. CASE Injected(c)
    BY <1>2 DEF Injected, Phase, HasTries
  <1>3. CASE OnReady(c)
    BY <1>3, SessionAssumption DEF OnReady, Persist, Status, HasTries
  <1>4. CASE OnAuthFailure(c)
    BY <1>4, SessionAssumption DEF OnAuthFailure, Persist, Status, HasTries
  <1>5. CASE InitializeFails(c)
    BY <1>5, SessionAssumption DEF InitializeFails, Persist, Status, Phase, HasTries
  <1>6. CASE OnDisconnected(c)
    BY <1>6 DEF OnDisconnected, Phase, HasTries
  <1>7. CASE DisconnectedPersists(c)
    BY <1>7 DEF DisconnectedPersists, Status, HasTries
  <1>8. CASE DisconnectedDrops(c)
    BY <1>8 DEF DisconnectedDrops, HasTries
  <1>9. CASE Breaks(c)
    BY <1>9 DEF Breaks, Phase, HasTries
  <1>. QED  BY <1>1, <1>2, <1>3, <1>4, <1>5, <1>6, <1>7, <1>8, <1>9

\* Writes in flight, time and a restart.
LEMMA TimeStepTyped ==
    ASSUME Typed, raced' \in 0 .. MaxRaced,
           WriteLands \/ Ages \/ CooldownEnds \/ Restart
    PROVE  Typed'
  <1>. USE DEF Typed, SessionTypeOK, maps, world, past, Acted
  <1>1. CASE WriteLands
    BY <1>1 DEF WriteLands, Status, HasTries
  <1>2. CASE Ages
    BY <1>2 DEF Ages, HasTries
  <1>3. CASE CooldownEnds
    BY <1>3 DEF CooldownEnds, HasTries
  <1>4. CASE Restart
    <2>1. Idle \in Call /\ Idle.step # "attempt"
      BY SessionAssumption DEF Idle, Call, NoClient
    <2>2. call' \in [Procs -> Call] /\ HasTries'
      BY <1>4, <2>1 DEF Restart, HasTries
    <2>3. made' \in 0 .. MaxClients /\ client' \in Clients \cup {NoClient}
      BY <1>4, SessionAssumption DEF Restart, Clients
    <2>4. profileLock' \in Clients \cup {NoClient} /\ browser' \in [Clients -> Phase]
      BY <1>4, SessionAssumption DEF Restart, Clients, Phase, CleanupStaleChromiumLocks
    <2>5. crashes' \in 0 .. MaxCrashes
      BY <1>4, SessionAssumption DEF Restart
    <2>6. writes' \subseteq Status
      BY <1>4 DEF Restart, Status
    <2>. QED  BY <1>4, <2>2, <2>3, <2>4, <2>5, <2>6 DEF Restart
  <1>. QED  BY <1>1, <1>2, <1>3, <1>4

-----------------------------------------------------------------------------
\* A step keeps the types: one case per disjunct of Step.
LEMMA TypedNext == Typed /\ [Next]_vars => Typed'
  <1>. SUFFICES ASSUME Typed, [Next]_vars PROVE Typed'
    OBVIOUS
  <1>1. CASE UNCHANGED vars
    BY <1>1 DEF Typed, SessionTypeOK, HasTries, vars, maps, world, past
  <1>2. CASE Next
    <2>1. raced' \in 0 .. MaxRaced
      BY <1>2, SessionAssumption DEF Next, Count, Typed, SessionTypeOK
    <2>2. ASSUME NEW p \in Panel, Connect(p) \/ Poll(p) \/ Disconnect(p) PROVE Typed'
      BY <2>1, <2>2, ConnectStepTyped, DisconnectStepTyped DEF Procs
    <2>3. ASSUME NEW p \in Watchdog, Watch(p) PROVE Typed'
      BY <2>1, <2>3, WatchStepTyped DEF Procs
    <2>4. ASSUME NEW p \in Sender, Send(p) PROVE Typed'
      BY <2>1, <2>4, SendStepTyped DEF Procs
    <2>5. ASSUME NEW p \in Procs, Continue(p) PROVE Typed'
      <3>1. CASE ConnectSteps(p)
        BY <2>1, <3>1, ConnectStepTyped DEF ConnectSteps
      <3>2. CASE DisconnectSteps(p)
        BY <2>1, <3>2, DisconnectStepTyped DEF DisconnectSteps
      <3>3. CASE WatchSteps(p)
        BY <2>1, <3>3, WatchStepTyped DEF WatchSteps
      <3>4. CASE SendSteps(p)
        BY <2>1, <3>4, SendStepTyped DEF SendSteps
      <3>. QED  BY <2>5, <3>1, <3>2, <3>3, <3>4 DEF Continue
    <2>6. ASSUME NEW c \in Clients, ClientEvent(c) \/ Farewell(c) PROVE Typed'
      BY <2>1, <2>6, EventStepTyped DEF ClientEvent, Farewell
    <2>7. CASE WriteLands \/ Ages \/ CooldownEnds \/ Restart
      BY <2>1, <2>7, TimeStepTyped
    <2>. QED  BY <1>2, <2>2, <2>3, <2>4, <2>5, <2>6, <2>7 DEF Next, Step
  <1>. QED  BY <1>1, <1>2

\* Every variable keeps its type, whatever requests, events and restarts overlap.
THEOREM SessionTypeCorrect == Spec => []SessionTypeOK
  <1>1. Typed => SessionTypeOK
    BY DEF Typed
  <1>. QED  BY <1>1, TypedInit, TypedNext, PTL DEF Spec

-----------------------------------------------------------------------------
(***************************************************************************)
(* Recovery.  A recovery that began in this cooldown has the cooldown      *)
(* running: recoverClient looks and starts it without an await between.    *)
(***************************************************************************)
Cooled == OneRecoveryPerCooldown /\ (recovered => cooling)

LEMMA CooledNext == Typed /\ Cooled /\ [Next]_vars => Cooled'
  <1>. SUFFICES ASSUME Typed, Cooled, [Next]_vars PROVE Cooled'
    OBVIOUS
  <1>. USE DEF Cooled, OneRecoveryPerCooldown, maps, world, past
  <1>1. CASE UNCHANGED vars
    BY <1>1 DEF vars
  <1>2. ASSUME NEW p \in Procs, Connect(p) \/ Poll(p) \/ Disconnect(p) \/ Watch(p) \/ Send(p)
        PROVE  Cooled'
    BY <1>2 DEF Connect, Poll, Disconnect, Watch, Send
  <1>3. ASSUME NEW p \in Procs, ConnectSteps(p) PROVE Cooled'
    BY <1>3 DEF ConnectSteps, ConnectStart, ReadStatus, Probe, MarkConnected,
                DestroyExisting, DropExisting, Upsert, Create
  <1>4. ASSUME NEW p \in Procs, DisconnectSteps(p) PROVE Cooled'
    BY <1>4 DEF DisconnectSteps, Leave, Left, UpdateDisconnected
  <1>5. ASSUME NEW p \in Procs, WatchSteps(p) PROVE Cooled'
    BY <1>5 DEF WatchSteps, WatchStatus, WatchProbe
  <1>6. ASSUME NEW p \in Procs, SendSteps(p) PROVE Cooled'
    <2>1. CASE RecoverClient(p)
      BY <2>1 DEF RecoverClient
    <2>2. CASE SendEnds(p) \/ SendFails(p) \/ RecoverDestroys(p) \/ RecoverPersists(p)
      BY <2>2 DEF SendEnds, SendFails, RecoverDestroys, RecoverPersists
    <2>. QED  BY <1>6, <2>1, <2>2 DEF SendSteps
  <1>7. ASSUME NEW c \in Clients, ClientEvent(c) \/ Farewell(c) PROVE Cooled'
    <2>1. CASE OnQr(c) \/ Injected(c) \/ OnReady(c) \/ OnAuthFailure(c)
      BY <2>1 DEF OnQr, Injected, OnReady, OnAuthFailure
    <2>2. CASE InitializeFails(c) \/ OnDisconnected(c) \/ Breaks(c)
      BY <2>2 DEF InitializeFails, OnDisconnected, Breaks
    <2>3. CASE Farewell(c)
      BY <2>3 DEF Farewell, DisconnectedPersists, DisconnectedDrops
    <2>. QED  BY <1>7, <2>1, <2>2, <2>3 DEF ClientEvent
  <1>8. CASE WriteLands \/ Ages \/ CooldownEnds \/ Restart
    BY <1>8 DEF WriteLands, Ages, CooldownEnds, Restart
  <1>. QED
    BY <1>1, <1>2, <1>3, <1>4, <1>5, <1>6, <1>7, <1>8 DEF Next, Step, Continue, Procs

\* However many sends fail at once, or while the last recovery is under way, the client
\* is recreated once in each cooldown.
THEOREM RecoverySafety == Spec => []OneRecoveryPerCooldown
  <1>1. Init => Cooled
    BY DEF Init, Cooled, OneRecoveryPerCooldown
  <1>2. Cooled => OneRecoveryPerCooldown
    BY DEF Cooled
  <1>. QED  BY <1>1, <1>2, TypedInit, TypedNext, CooledNext, PTL DEF Spec

-----------------------------------------------------------------------------
(***************************************************************************)
(* The lock of the profile.  A client is numbered anew, so the one that    *)
(* takes the lock was never alive before.                                  *)
(***************************************************************************)
LEMMA DestroyedLock ==
    ASSUME Typed, LockedByLive, NEW c \in Clients \cup {NoClient}, Destroyed(c)
    PROVE  LockedByLive'
  BY NoClientFact DEF Typed, SessionTypeOK, LockedByLive, Destroyed, Alive, Phase

\* A client that runs has been created.
Numbered == \A c \in Clients : Alive(c) => c <= made

\* But for a creation and a restart, no step starts a browser.
LEMMA NumberedKeeps ==
    ASSUME Numbered, made' = made, \A c \in Clients : Alive(c)' => Alive(c)
    PROVE  Numbered'
  BY DEF Numbered

LEMMA DestroyedNumbered ==
    ASSUME Typed, Numbered, NEW c \in Clients \cup {NoClient}, Destroyed(c), made' = made
    PROVE  Numbered'
  BY NoClientFact DEF Typed, SessionTypeOK, Numbered, Destroyed, Alive, Phase

LEMMA NumberedNext == Typed /\ Numbered /\ [Next]_vars => Numbered'
  <1>. SUFFICES ASSUME Typed, Numbered, [Next]_vars PROVE Numbered'
    OBVIOUS
  <1>. USE DEF maps, world, past
  <1>1. CASE UNCHANGED <<browser, made>>
    BY <1>1 DEF Numbered, Alive
  <1>2. ASSUME NEW p \in Procs, Connect(p) \/ Poll(p) \/ Disconnect(p) \/ Watch(p) \/ Send(p)
        PROVE  Numbered'
    BY <1>1, <1>2 DEF Connect, Poll, Disconnect, Watch, Send
  <1>3. ASSUME NEW p \in Procs, ConnectSteps(p) PROVE Numbered'
    <2>1. CASE Create(p)
      BY <2>1 DEF Create, CreateClient, Numbered, Alive, Typed, SessionTypeOK, Clients
    <2>2. CASE DestroyExisting(p)
      <3>1. call[p].held \in Clients \cup {NoClient}
        BY DEF Typed, SessionTypeOK, Call
      <3>. QED  BY <2>2, <3>1, DestroyedNumbered DEF DestroyExisting
    <2>3. CASE \/ ConnectStart(p) \/ ReadStatus(p) \/ Probe(p) \/ MarkConnected(p)
               \/ DropExisting(p) \/ Upsert(p)
      BY <1>1, <2>3 DEF ConnectStart, ReadStatus, Probe, MarkConnected, DropExisting, Upsert
    <2>. QED  BY <1>3, <2>1, <2>2, <2>3 DEF ConnectSteps
  <1>4. ASSUME NEW p \in Procs, DisconnectSteps(p) PROVE Numbered'
    <2>1. CASE Leave(p) /\ client # NoClient
      BY <2>1, DestroyedNumbered DEF Leave, Typed, SessionTypeOK
    <2>2. CASE Leave(p) /\ client = NoClient
      BY <1>1, <2>2 DEF Leave, Forget
    <2>3. CASE Left(p) \/ UpdateDisconnected(p)
      BY <1>1, <2>3 DEF Left, Forget, UpdateDisconnected
    <2>. QED  BY <1>4, <2>1, <2>2, <2>3 DEF DisconnectSteps
  <1>5. ASSUME NEW p \in Procs, WatchSteps(p) PROVE Numbered'
    BY <1>1, <1>5 DEF WatchSteps, WatchStatus, WatchProbe
  <1>6. ASSUME NEW p \in Procs, SendSteps(p) PROVE Numbered'
    <2>1. CASE RecoverDestroys(p)
      <3>1. call[p].held \in Clients \cup {NoClient}
        BY DEF Typed, SessionTypeOK, Call
      <3>. QED  BY <2>1, <3>1, DestroyedNumbered DEF RecoverDestroys
    <2>2. CASE SendEnds(p) \/ SendFails(p) \/ RecoverClient(p) \/ RecoverPersists(p)
      BY <1>1, <2>2 DEF SendEnds, SendFails, RecoverClient, RecoverPersists
    <2>. QED  BY <1>6, <2>1, <2>2 DEF SendSteps
  <1>7. ASSUME NEW c \in Clients, ClientEvent(c) \/ Farewell(c) PROVE Numbered'
    <2>1. CASE OnQr(c) \/ Injected(c) \/ Breaks(c)
      BY <2>1, NumberedKeeps DEF OnQr, Injected, Breaks, Usable, Alive, Typed, SessionTypeOK
    <2>2. CASE InitializeFails(c) \/ OnDisconnected(c)
      BY <2>2, NumberedKeeps DEF InitializeFails, OnDisconnected, Alive, Typed, SessionTypeOK
    <2>3. CASE OnReady(c) \/ OnAuthFailure(c) \/ Farewell(c)
      BY <1>1, <2>3 DEF OnReady, OnAuthFailure, Farewell, DisconnectedPersists,
                        DisconnectedDrops
    <2>. QED  BY <1>7, <2>1, <2>2, <2>3 DEF ClientEvent
  <1>8. CASE Restart
    <2>1. ASSUME NEW c \in Clients, Alive(c)'
          PROVE  c = made + 1 /\ made' = made + 1
      BY <1>8, <2>1 DEF Restart, Alive
    <2>2. made \in Nat
      BY SessionAssumption DEF Typed, SessionTypeOK
    <2>. QED  BY <2>1, <2>2 DEF Numbered
  <1>9. CASE WriteLands \/ Ages \/ CooldownEnds
    BY <1>1, <1>9 DEF WriteLands, Ages, CooldownEnds
  <1>. QED
    BY <1>1, <1>2, <1>3, <1>4, <1>5, <1>6, <1>7, <1>8, <1>9
    DEF Next, Step, Continue, Procs, vars

LEMMA CreatedLock ==
    ASSUME Typed, LockedByLive, Numbered, CreateClient
    PROVE  LockedByLive'
  <1>1. made + 1 \in Clients /\ made \in Nat
    BY SessionAssumption DEF CreateClient, Typed, SessionTypeOK, Clients
  <1>2. CASE profileLock = NoClient
    BY <1>1, <1>2 DEF CreateClient, Started, Typed, SessionTypeOK, LockedByLive, Alive
  <1>3. CASE profileLock # NoClient
    <2>1. profileLock \in Clients /\ profileLock <= made
      BY <1>3 DEF Typed, SessionTypeOK, LockedByLive, Numbered
    <2>2. profileLock # made + 1
      BY <1>1, <2>1 DEF Clients
    <2>. QED  BY <1>1, <1>3, <2>1, <2>2 DEF CreateClient, Typed, SessionTypeOK, LockedByLive, Alive
  <1>. QED  BY <1>2, <1>3

LEMMA LockNext == Typed /\ Numbered /\ LockedByLive /\ [Next]_vars => LockedByLive'
  <1>. SUFFICES ASSUME Typed, Numbered, LockedByLive, [Next]_vars PROVE LockedByLive'
    OBVIOUS
  <1>. USE DEF maps, world, past
  <1>1. CASE UNCHANGED browser /\ profileLock' \in {NoClient, profileLock}
    BY <1>1 DEF LockedByLive, Alive
  <1>2. ASSUME NEW p \in Procs, Connect(p) \/ Poll(p) \/ Disconnect(p) \/ Watch(p) \/ Send(p)
        PROVE  LockedByLive'
    BY <1>1, <1>2 DEF Connect, Poll, Disconnect, Watch, Send
  <1>3. ASSUME NEW p \in Procs, ConnectSteps(p) PROVE LockedByLive'
    <2>1. CASE Create(p)
      BY <2>1, CreatedLock DEF Create
    <2>2. CASE DestroyExisting(p)
      <3>1. call[p].held \in Clients \cup {NoClient}
        BY DEF Typed, SessionTypeOK, Call
      <3>. QED  BY <2>2, <3>1, DestroyedLock DEF DestroyExisting
    <2>3. CASE \/ ConnectStart(p) \/ ReadStatus(p) \/ Probe(p) \/ MarkConnected(p)
               \/ DropExisting(p) \/ Upsert(p)
      BY <1>1, <2>3 DEF ConnectStart, ReadStatus, Probe, MarkConnected, DropExisting, Upsert
    <2>. QED  BY <1>3, <2>1, <2>2, <2>3 DEF ConnectSteps
  <1>4. ASSUME NEW p \in Procs, DisconnectSteps(p) PROVE LockedByLive'
    <2>1. CASE Leave(p) /\ client # NoClient
      BY <2>1, DestroyedLock DEF Leave, Typed, SessionTypeOK
    <2>2. CASE Leave(p) /\ client = NoClient
      BY <1>1, <2>2 DEF Leave, Forget
    <2>3. CASE Left(p) \/ UpdateDisconnected(p)
      BY <1>1, <2>3 DEF Left, Forget, UpdateDisconnected
    <2>. QED  BY <1>4, <2>1, <2>2, <2>3 DEF DisconnectSteps
  <1>5. ASSUME NEW p \in Procs, WatchSteps(p) PROVE LockedByLive'
    BY <1>1, <1>5 DEF WatchSteps, WatchStatus, WatchProbe
  <1>6. ASSUME NEW p \in Procs, SendSteps(p) PROVE LockedByLive'
    <2>1. CASE RecoverDestroys(p)
      <3>1. call[p].held \in Clients \cup {NoClient}
        BY DEF Typed, SessionTypeOK, Call
      <3>. QED  BY <2>1, <3>1, DestroyedLock DEF RecoverDestroys
    <2>2. CASE SendEnds(p) \/ SendFails(p) \/ RecoverClient(p) \/ RecoverPersists(p)
      BY <1>1, <2>2 DEF SendEnds, SendFails, RecoverClient, RecoverPersists
    <2>. QED  BY <1>6, <2>1, <2>2 DEF SendSteps
  <1>7. ASSUME NEW c \in Clients, ClientEvent(c) \/ Farewell(c) PROVE LockedByLive'
    <2>. USE NoClientFact DEF Typed, SessionTypeOK, LockedByLive, Alive
    <2>1. CASE OnQr(c) \/ Injected(c) \/ Breaks(c)
      BY <2>1 DEF OnQr, Injected, Breaks, Usable
    <2>2. CASE InitializeFails(c)
      BY <2>2 DEF InitializeFails
    <2>3. CASE OnDisconnected(c)
      BY <2>3 DEF OnDisconnected
    <2>4. CASE OnReady(c) \/ OnAuthFailure(c) \/ Farewell(c)
      BY <1>1, <2>4 DEF OnReady, OnAuthFailure, Farewell, DisconnectedPersists,
                        DisconnectedDrops
    <2>. QED  BY <1>7, <2>1, <2>2, <2>3, <2>4 DEF ClientEvent
  <1>8. CASE Restart
    <2>1. made \in 0 .. MaxClients
      BY DEF Typed, SessionTypeOK
    <2>2. profileLock' # NoClient =>
              /\ profileLock' = made + 1 /\ made < MaxClients
              /\ status \in {"CONNECTED", "CONNECTING"}
      BY <1>8 DEF Restart, CleanupStaleChromiumLocks
    <2>3. made < MaxClients => made + 1 \in Clients
      BY <2>1, SessionAssumption DEF Clients
    <2>4. profileLock' # NoClient => browser'[profileLock'] = "loading"
      BY <1>8, <2>2, <2>3 DEF Restart
    <2>. QED  BY <2>4 DEF LockedByLive, Alive
  <1>9. CASE WriteLands \/ Ages \/ CooldownEnds
    BY <1>1, <1>9 DEF WriteLands, Ages, CooldownEnds
  <1>. QED
    BY <1>1, <1>2, <1>3, <1>4, <1>5, <1>6, <1>7, <1>8, <1>9
    DEF Next, Step, Continue, Procs, vars

\* No profile stays locked by a browser that is gone, whatever client was destroyed,
\* disconnected or killed with the process, and in whatever order.
THEOREM LockSafety == Spec => []LockedByLive
  <1>1. Init => LockedByLive /\ Numbered
    BY DEF Init, LockedByLive, Numbered, Alive
  <1>. QED  BY <1>1, TypedInit, TypedNext, NumberedNext, LockNext, PTL DEF Spec

-----------------------------------------------------------------------------
(***************************************************************************)
(* One thing at a time.  Until two things first work on the session at     *)
(* once, what replaces the client or writes its status is alone, and each  *)
(* of its steps finds the maps as the last one left them.                  *)
(***************************************************************************)
\* What a call at each step is part of.
Kind(p) ==
    /\ call[p].step \in {"start", "destroy", "drop", "upsert", "leave", "left", "update",
                         "check", "look"} => call[p].op \in {"connect", "disconnect", "watch"}
    /\ call[p].step \in {"status", "probe"} =>
           call[p].op \in {"connect", "disconnect", "watch", "poll"}
    /\ call[p].step = "probe" => call[p].probed # NoClient
    /\ call[p].step = "attempt" => call[p].op = "send"
Kinds == \A p \in Procs : Kind(p)

Replaces(c)  == \/ c.op \in {"connect", "disconnect", "watch"}
                \/ c.step \in {"recover", "ended", "persist", "create", "mark"}
FewReplacing == IsFiniteSet(Replacing)

\* Only p's call changes.
Acts(p) == \A q \in Procs \ {p} : call'[q] = call[q]

LEMMA GotoMoves ==
    ASSUME Typed, NEW p \in Procs, NEW s, Goto(p, s)
    PROVE  /\ Acts(p) /\ call'[p].step = s /\ call'[p].op = call[p].op
           /\ call'[p].held = call[p].held /\ call'[p].probed = call[p].probed
  BY DEF Typed, SessionTypeOK, Goto, Acts, Call

LEMMA HoldMoves ==
    ASSUME Typed, NEW p \in Procs, NEW s, Hold(p, s)
    PROVE  /\ Acts(p) /\ call'[p].step = s /\ call'[p].op = call[p].op
           /\ call'[p].held = client
  BY DEF Typed, SessionTypeOK, Hold, Acts, Call

LEMMA ReturnMoves ==
    ASSUME Typed, NEW p \in Procs, Return(p) \/ Answer(p)
    PROVE  /\ Acts(p) /\ Kind(p)' /\ ~Replaces(call'[p]) /\ call'[p].step \in {"idle", "status"}
  <1>1. CASE Return(p)
    BY <1>1 DEF Typed, SessionTypeOK, Return, Acts, Idle, Kind, Replaces
  <1>2. CASE call' = [call EXCEPT ![p] = [Idle EXCEPT !.op = "poll", !.step = "status"]]
    BY <1>2 DEF Typed, SessionTypeOK, Acts, Idle, Kind, Replaces
  <1>. QED  BY <1>1, <1>2 DEF Answer

\* A step changes the call of one process, or of none, or starts them all again.
LEMMA OneActs ==
    ASSUME Typed, Kinds, [Next]_vars
    PROVE  \/ UNCHANGED call
           \/ \E p \in Procs : Acts(p) /\ Kind(p)'
           \/ call' = [p \in Procs |-> Idle]
  <1>. USE DEF maps, world, past, Kinds
  <1>1. CASE UNCHANGED vars
    BY <1>1 DEF vars
  <1>2. ASSUME NEW p \in Procs, Connect(p) \/ Poll(p) \/ Disconnect(p) \/ Watch(p) \/ Send(p)
        PROVE  UNCHANGED call \/ (Acts(p) /\ Kind(p)')
    <2>. USE DEF Typed, SessionTypeOK, Acts, Kind, Idle, Begin
    <2>1. CASE Connect(p)
      BY <2>1 DEF Connect
    <2>2. CASE Poll(p)
      BY <2>2 DEF Poll
    <2>3. CASE Disconnect(p)
      BY <2>3 DEF Disconnect
    <2>4. CASE Watch(p)
      BY <2>4 DEF Watch
    <2>5. CASE Send(p)
      BY <2>5 DEF Send
    <2>. QED  BY <1>2, <2>1, <2>2, <2>3, <2>4, <2>5
  <1>3. ASSUME NEW p \in Procs, ConnectSteps(p) PROVE Acts(p) /\ Kind(p)'
    <2>1. CASE ConnectStart(p)
      BY <1>3, <2>1, GotoMoves, HoldMoves DEF ConnectStart, EnterConnect, Kind, At
    <2>2. CASE ReadStatus(p)
      <3>1. CASE status = "CONNECTING" /\ client # NoClient
        BY <2>2, <3>1 DEF ReadStatus, Typed, SessionTypeOK, Acts, Kind, Call, At
      <3>2. CASE ~(status = "CONNECTING" /\ client # NoClient)
        BY <2>2, <3>2, GotoMoves, ReturnMoves DEF ReadStatus, Decide, Kind, At
      <3>. QED  BY <3>1, <3>2
    <2>3. CASE Probe(p)
      BY <2>3, GotoMoves, ReturnMoves DEF Probe, Decide, Kind, At
    <2>4. CASE MarkConnected(p)
      BY <2>4, ReturnMoves DEF MarkConnected
    <2>5. CASE DestroyExisting(p) \/ DropExisting(p) \/ Upsert(p)
      BY <2>5, GotoMoves DEF DestroyExisting, DropExisting, Upsert, Kind, At
    <2>6. CASE Create(p)
      BY <2>6, ReturnMoves DEF Create
    <2>. QED  BY <1>3, <2>1, <2>2, <2>3, <2>4, <2>5, <2>6 DEF ConnectSteps
  <1>4. ASSUME NEW p \in Procs, DisconnectSteps(p) PROVE Acts(p) /\ Kind(p)'
    <2>1. CASE Leave(p)
      <3>1. call[p].step = "leave" /\ (Goto(p, "update") \/ Hold(p, "left"))
        BY <2>1 DEF Leave, Forget, At
      <3>. QED  BY <3>1, GotoMoves, HoldMoves DEF Kind
    <2>2. CASE Left(p)
      BY <2>2, GotoMoves DEF Left, Forget, Kind, At
    <2>3. CASE UpdateDisconnected(p)
      BY <2>3, GotoMoves, HoldMoves DEF UpdateDisconnected, EnterConnect, Kind, At
    <2>. QED  BY <1>4, <2>1, <2>2, <2>3 DEF DisconnectSteps
  <1>5. ASSUME NEW p \in Procs, WatchSteps(p) PROVE Acts(p) /\ Kind(p)'
    BY <1>5, GotoMoves, HoldMoves, ReturnMoves DEF WatchSteps, WatchStatus, WatchProbe,
                                                   EnterConnect, Kind, At
  <1>6. ASSUME NEW p \in Procs, SendSteps(p) PROVE Acts(p) /\ Kind(p)'
    <2>1. CASE SendEnds(p)
      BY <2>1, ReturnMoves DEF SendEnds
    <2>2. CASE SendFails(p)
      BY <2>2 DEF SendFails, Typed, SessionTypeOK, Call, Acts, Kind, At
    <2>3. CASE RecoverClient(p) \/ RecoverDestroys(p) \/ RecoverPersists(p)
      BY <2>3, GotoMoves, HoldMoves, ReturnMoves DEF RecoverClient, RecoverDestroys,
         RecoverPersists, Kind, At
    <2>. QED  BY <1>6, <2>1, <2>2, <2>3 DEF SendSteps
  <1>7. ASSUME NEW c \in Clients, ClientEvent(c) \/ Farewell(c) PROVE UNCHANGED call
    BY <1>7 DEF ClientEvent, Farewell, OnQr, Injected, OnReady, OnAuthFailure,
                InitializeFails, OnDisconnected, DisconnectedPersists, DisconnectedDrops, Breaks
  <1>8. CASE WriteLands \/ Ages \/ CooldownEnds
    BY <1>8 DEF WriteLands, Ages, CooldownEnds
  <1>9. CASE Restart
    BY <1>9 DEF Restart
  <1>. QED
    BY <1>1, <1>2, <1>3, <1>4, <1>5, <1>6, <1>7, <1>8, <1>9 DEF Next, Step, Continue, Procs

LEMMA KindsInit == Init => Kinds /\ FewReplacing
  <1>. SUFFICES ASSUME Init PROVE Kinds /\ FewReplacing
    OBVIOUS
  <1>1. \A p \in Procs : call[p] = Idle
    BY DEF Init
  <1>2. Replacing = {} /\ Kinds
    BY <1>1 DEF Replacing, Idle, Kinds, Kind
  <1>. QED  BY <1>2, FS_EmptySet DEF FewReplacing

LEMMA KindsNext == Typed /\ Kinds /\ FewReplacing /\ [Next]_vars => Kinds' /\ FewReplacing'
  <1>. SUFFICES ASSUME Typed, Kinds, FewReplacing, [Next]_vars PROVE Kinds' /\ FewReplacing'
    OBVIOUS
  <1>1. CASE UNCHANGED call
    BY <1>1 DEF Kinds, Kind, FewReplacing, Replacing
  <1>2. ASSUME NEW p \in Procs, Acts(p), Kind(p)' PROVE Kinds' /\ FewReplacing'
    <2>1. Kinds'
      BY <1>2 DEF Kinds, Kind, Acts
    <2>2. Replacing' \subseteq Replacing \cup {p}
      BY <1>2 DEF Replacing, Acts
    <2>3. IsFiniteSet(Replacing \cup {p})
      BY FS_AddElement DEF FewReplacing
    <2>. QED  BY <2>1, <2>2, <2>3, FS_Subset DEF FewReplacing
  <1>3. CASE call' = [p \in Procs |-> Idle]
    <2>1. Replacing' = {} /\ Kinds'
      BY <1>3 DEF Replacing, Idle, Kinds, Kind
    <2>. QED  BY <2>1, FS_EmptySet DEF FewReplacing
  <1>. QED  BY <1>1, <1>2, <1>3, OneActs

\* The state while no two things have worked on the session at once.
Solo ==
    /\ \A p, q \in Replacing : p = q
    /\ Replacing # {} => Leaving = {} /\ writes = {}
    /\ \A c, d \in Leaving : c = d
    /\ Leaving # {} => writes = {}
    /\ \A s, t \in writes : s = t

LEMMA OneMember ==
    ASSUME NEW S, IsFiniteSet(S), Cardinality(S) <= 1
    PROVE  \A x, y \in S : x = y
  <1>. SUFFICES ASSUME NEW x \in S, NEW y \in S, x # y PROVE FALSE
    OBVIOUS
  <1>. DEFINE R == S \ {x}
  <1>1. Cardinality(S) \in Nat /\ Cardinality(R) = Cardinality(S) - 1 /\ IsFiniteSet(R)
    BY FS_RemoveElement, FS_CardinalityType
  <1>2. y \in R
    OBVIOUS
  <1>. HIDE DEF R
  <1>3. Cardinality(R \ {y}) = Cardinality(R) - 1 /\ IsFiniteSet(R \ {y})
    BY <1>1, <1>2, FS_RemoveElement
  <1>4. Cardinality(R \ {y}) \in Nat
    BY <1>3, FS_CardinalityType
  <1>. QED  BY <1>1, <1>3, <1>4

LEMMA AloneUnlessRace == Typed /\ FewReplacing /\ ~Race => Solo
  <1>. SUFFICES ASSUME Typed, FewReplacing, ~Race PROVE Solo
    OBVIOUS
  <1>1. IsFiniteSet(Leaving)
    <2>1. IsFiniteSet(Clients)
      BY FS_Interval, SessionAssumption DEF Clients
    <2>. QED  BY <2>1, FS_Subset DEF Leaving
  <1>2. IsFiniteSet(writes)
    <2>1. IsFiniteSet({"DISCONNECTED"})
      BY FS_Singleton
    <2>2. IsFiniteSet({"DISCONNECTED"} \cup {"CONNECTING"})
      BY <2>1, FS_AddElement
    <2>3. IsFiniteSet({"DISCONNECTED"} \cup {"CONNECTING"} \cup {"CONNECTED"})
      BY <2>2, FS_AddElement
    <2>4. IsFiniteSet({"DISCONNECTED"} \cup {"CONNECTING"} \cup {"CONNECTED"} \cup {"ERROR"})
      BY <2>3, FS_AddElement
    <2>5. writes \subseteq {"DISCONNECTED"} \cup {"CONNECTING"} \cup {"CONNECTED"} \cup {"ERROR"}
      BY DEF Typed, SessionTypeOK, Status
    <2>. QED  BY <2>4, <2>5, FS_Subset
  <1>3. /\ Cardinality(Replacing) \in Nat /\ Cardinality(Leaving) \in Nat
        /\ Cardinality(writes) \in Nat
    BY <1>1, <1>2, FS_CardinalityType DEF FewReplacing
  <1>4. /\ Cardinality(Replacing) <= 1 /\ Cardinality(Leaving) <= 1 /\ Cardinality(writes) <= 1
        /\ Cardinality(Replacing) # 0 => Cardinality(Leaving) = 0 /\ Cardinality(writes) = 0
        /\ Cardinality(Leaving) # 0 => Cardinality(writes) = 0
    BY <1>3 DEF Race
  <1>5. /\ Cardinality(Replacing) = 0 <=> Replacing = {}
        /\ Cardinality(Leaving) = 0 <=> Leaving = {}
        /\ Cardinality(writes) = 0 <=> writes = {}
    BY <1>1, <1>2, FS_EmptySet DEF FewReplacing
  <1>6. \A p, q \in Replacing : p = q
    BY <1>4, OneMember DEF FewReplacing
  <1>7. \A c, d \in Leaving : c = d
    BY <1>1, <1>4, OneMember
  <1>8. \A s, t \in writes : s = t
    BY <1>2, <1>4, OneMember
  <1>. QED  BY <1>4, <1>5, <1>6, <1>7, <1>8 DEF Solo

\* A client that runs, and that no destroy() failed to close.
Kept(c) == Alive(c) /\ c \notin survived

\* While undisturbed, a client that acts on the session is not one that outlived its
\* destroy().
LEMMA ActedIsKept ==
    ASSUME NEW c, Acted(c), haunted' = FALSE
    PROVE  c \notin survived
  BY DEF Acted

\* Where a call that replaces the client stands.
Stage(p) ==
    LET c == call[p] IN
    /\ c.step \in {"status", "probe", "check", "look", "destroy", "drop", "left"} =>
           c.held = client /\ client # NoClient
    /\ c.step \in {"drop", "left"} => ~Kept(client)
    /\ c.step \in {"update", "upsert", "create", "persist"} => client = NoClient /\ qr = NoClient
    /\ c.step = "ended" => client = NoClient /\ c.held # NoClient
    /\ c.step = "mark" => client # NoClient
Stages == \A p \in Replacing : Stage(p)

\* Where the farewell of a client stands.
Parting(c) == /\ leaving[c] # "no" => client = c /\ browser[c] = "closed"
              /\ leaving[c] = "drop" => status = "DISCONNECTED"
Partings   == \A c \in Clients : Parting(c)

\* A status that the maps bear out, whether in the row, about to be written, or left
\* alone so far by the call under way.
Backs(s)  == /\ s \in {"CONNECTED", "CONNECTING"} => client # NoClient
             /\ s = "CONNECTING" => attempt # "none"
Written   == \A s \in writes : Backs(s)
Untouched == {"start", "status", "probe", "check", "look", "recover", "leave"}
Standing  == (\A p \in Replacing : call[p].step \in Untouched) /\ Leaving = {} /\ writes = {}
                 => Backs(status)

Orphaned == \E c \in Clients : /\ Kept(c) /\ client # c
                               /\ \A p \in Procs : ~(call[p].held = c /\ call[p].step = "ended")
Tended   == ~Orphaned
Shown    == qr \in {NoClient, client} \/ \E p \in Procs : At(p, "ended")

Orderly == Stages /\ Partings /\ Written /\ Standing /\ Tended /\ Shown

Only(p) == \A q \in Procs \ {p} : q \notin Replacing

\* The call that replaces the client, before or after its step, is the only one; it found
\* no write, no farewell and, unless it was ending a client, no browser but the current.
LEMMA ActorAlone ==
    ASSUME Typed, Solo, Solo', Orderly, NEW p \in Procs, Acts(p),
           p \in Replacing \/ p \in Replacing',
           UNCHANGED leaving, p \in Replacing \/ UNCHANGED writes
    PROVE  /\ Only(p) /\ Only(p)' /\ Leaving = {} /\ Leaving' = {} /\ writes = {}
           /\ \A c \in Clients : leaving[c] = "no" /\ leaving'[c] = "no"
           /\ call[p].step # "ended" =>
                  /\ \A c \in Clients : Kept(c) => client = c
                  /\ qr \in {NoClient, client}
           /\ p \notin Replacing \/ call[p].step \in Untouched => Backs(status)
  <1>1. \A q \in Procs \ {p} : q \in Replacing <=> q \in Replacing'
    BY DEF Acts, Replacing
  <1>2. Only(p) /\ Only(p)'
    BY <1>1 DEF Only, Solo
  <1>3. Leaving = Leaving'
    BY DEF Leaving
  <1>4. Leaving = {} /\ writes = {}
    BY <1>3 DEF Solo
  <1>5. \A c \in Clients : leaving[c] = "no" /\ leaving'[c] = "no"
    BY <1>4 DEF Leaving
  <1>6. \A q \in Procs \ {p} : call[q].step # "ended"
    BY <1>2 DEF Only, Replacing
  <1>7. p \notin Replacing \/ call[p].step \in Untouched => Backs(status)
    BY <1>2, <1>4 DEF Orderly, Standing, Only, Replacing
  <1>8. call[p].step # "ended" => /\ \A c \in Clients : Kept(c) => client = c
                                  /\ qr \in {NoClient, client}
    BY <1>6 DEF Orderly, Tended, Orphaned, Shown, At
  <1>. QED  BY <1>2, <1>3, <1>4, <1>5, <1>7, <1>8

\* What another call does meanwhile disturbs nothing.
LEMMA Bystander ==
    ASSUME Typed, Orderly, NEW p \in Procs, Acts(p), p \notin Replacing, p \notin Replacing',
           UNCHANGED <<status, client, qr, writes, browser, survived, leaving>>,
           UNCHANGED attempt \/ client = NoClient
    PROVE  Orderly'
  <1>1. Replacing' = Replacing
    BY DEF Replacing, Acts
  <1>2. \A q \in Replacing : q # p /\ call'[q] = call[q]
    BY DEF Acts, Replacing
  <1>3. Leaving' = Leaving
    BY DEF Leaving
  <1>4. \A q \in Procs : call[q].step = "ended" => q # p /\ call'[q] = call[q]
    BY DEF Acts, Replacing
  <1>5. \A s : Backs(s) => Backs(s)'
    BY DEF Backs
  <1>6. Stages'
    BY <1>1, <1>2 DEF Orderly, Stages, Stage, Alive, Kept
  <1>7. Partings'
    BY DEF Orderly, Partings, Parting
  <1>8. Written' /\ Standing'
    BY <1>1, <1>2, <1>3, <1>5 DEF Orderly, Written, Standing
  <1>9. \A q \in Procs : call'[q].step = "ended" => q # p /\ call[q] = call'[q]
    BY DEF Acts, Replacing
  <1>10. Tended'
    BY <1>4, <1>9 DEF Orderly, Tended, Orphaned, Alive, Kept
  <1>11. Shown'
    BY <1>4 DEF Orderly, Shown, At
  <1>. QED  BY <1>6, <1>7, <1>8, <1>10, <1>11 DEF Orderly

\* What is left to show of a step of the only call that replaces the client.
LEMMA ActorKeeps ==
    ASSUME Typed, Typed', NEW p \in Procs, Only(p)', Leaving' = {},
           \A c \in Clients : leaving'[c] = "no",
           p \in Replacing' => Stage(p)',
           Written',
           p \in Replacing' => call'[p].step \notin Untouched \/ Backs(status)',
           p \notin Replacing' /\ writes' = {} => Backs(status)',
           \/ \A c \in Clients : Kept(c)' => client' = c
           \/ call'[p].step = "ended" /\ \A c \in Clients : Kept(c)' => call'[p].held = c,
           qr' \in {NoClient, client'} \/ call'[p].step = "ended"
    PROVE  Orderly'
  <1>1. Stages'
    BY DEF Stages, Only, Replacing
  <1>2. Partings'
    BY DEF Partings, Parting
  <1>3. Standing'
    BY DEF Standing
  <1>4. Tended' /\ Shown'
    BY DEF Tended, Orphaned, Shown, At
  <1>. QED  BY <1>1, <1>2, <1>3, <1>4 DEF Orderly

Calm == Typed /\ Kinds /\ Solo /\ Orderly

\* A call begins.
LEMMA BeginOrderly ==
    ASSUME Calm, Typed', Solo', NEW p \in Procs,
           Connect(p) \/ Poll(p) \/ Disconnect(p) \/ Watch(p) \/ Send(p)
    PROVE  Orderly'
  <1>. USE DEF maps, world, past, Calm
  <1>1. call[p] = Idle => p \notin Replacing
    BY DEF Replacing, Idle
  <1>2. CASE Poll(p) \/ Send(p) \/ (Watch(p) /\ client = NoClient)
    <2>1. Acts(p) /\ p \notin Replacing /\ p \notin Replacing'
      <3>1. CASE Poll(p)
        BY <1>1, <3>1 DEF Poll, Begin, Acts, Replacing, Idle, Typed, SessionTypeOK
      <3>2. CASE Send(p)
        BY <1>1, <3>2 DEF Send, Begin, Acts, Replacing, Idle, Typed, SessionTypeOK
      <3>3. CASE Watch(p) /\ client = NoClient
        BY <1>1, <3>3 DEF Watch, Acts, Replacing, Idle
      <3>. QED  BY <1>2, <3>1, <3>2, <3>3
    <2>2. /\ UNCHANGED <<status, client, qr, writes, browser, survived, leaving>>
          /\ UNCHANGED attempt \/ client = NoClient
      BY <1>2 DEF Poll, Send, Watch
    <2>. QED  BY <2>1, <2>2, Bystander
  <1>3. CASE Connect(p) \/ Disconnect(p) \/ (Watch(p) /\ client # NoClient)
    <2>1. /\ Acts(p) /\ p \in Replacing' /\ p \notin Replacing
          /\ call[p].step = "idle" /\ call'[p].step \in {"start", "leave", "check"}
          /\ call'[p].step = "check" => call'[p].held = client /\ client # NoClient
      <3>1. CASE Connect(p)
        BY <1>1, <3>1 DEF Connect, Begin, Acts, Replacing, Idle, Typed, SessionTypeOK
      <3>2. CASE Disconnect(p)
        BY <1>1, <3>2 DEF Disconnect, Acts, Replacing, Idle, Typed, SessionTypeOK
      <3>3. CASE Watch(p) /\ client # NoClient
        <4>1. /\ call[p] = Idle
              /\ call' = [call EXCEPT ![p] =
                            [Idle EXCEPT !.op = "watch", !.step = "check", !.held = client]]
          BY <3>3 DEF Watch
        <4>2. call'[p] = [Idle EXCEPT !.op = "watch", !.step = "check", !.held = client]
              /\ Acts(p)
          BY <4>1 DEF Acts, Typed, SessionTypeOK
        <4>3. call'[p].op = "watch" /\ call'[p].step = "check" /\ call'[p].held = client
          BY <4>2 DEF Idle
        <4>. QED  BY <1>1, <3>3, <4>1, <4>2, <4>3 DEF Replacing, Idle
      <3>. QED  BY <1>3, <3>1, <3>2, <3>3
    <2>2. /\ UNCHANGED <<status, client, writes, browser, survived, leaving, attempt>>
          /\ qr' \in {qr, NoClient}
      BY <1>3 DEF Connect, Disconnect, Watch
    <2>3. /\ Only(p) /\ Only(p)' /\ Leaving = {} /\ Leaving' = {} /\ writes = {}
          /\ \A c \in Clients : leaving'[c] = "no"
          /\ \A c \in Clients : Kept(c) => client = c
          /\ qr \in {NoClient, client}
      BY <2>1, <2>2, ActorAlone
    <2>4. Replacing = {}
      BY <2>1, <2>3 DEF Only, Replacing
    <2>5. Backs(status)'
      BY <2>2, <2>3, <2>4 DEF Orderly, Standing, Backs
    <2>6. Stage(p)'
      BY <2>1, <2>2 DEF Stage
    <2>7. Written'
      BY <2>2, <2>3 DEF Written
    <2>8. \A c \in Clients : Kept(c)' => client' = c
      BY <2>2, <2>3 DEF Alive, Kept
    <2>. QED  BY <2>1, <2>2, <2>3, <2>5, <2>6, <2>7, <2>8, ActorKeeps
  <1>. QED  BY <1>2, <1>3

\* A browser that was destroyed is not alive, and destroying one starts no other.
LEMMA DestroyedIsGone ==
    ASSUME Typed, NEW c \in Clients, Destroyed(c)
    PROVE  ~Kept(c)' /\ \A d \in Clients : Kept(d)' => Kept(d) /\ d # c
  BY DEF Typed, SessionTypeOK, Destroyed, Alive, Kept

\* The row says CONNECTING before the client is created.
LEMMA ToCreate ==
    ASSUME Calm, Typed', Solo', NEW p \in Procs, Acts(p), p \in Replacing,
           call[p].step # "ended", client = NoClient, qr = NoClient,
           call'[p].step = "create", UNCHANGED <<client, qr, writes, browser, survived, leaving>>
    PROVE  Orderly'
  <1>1. /\ Only(p)' /\ Leaving' = {} /\ writes = {} /\ \A c \in Clients : leaving'[c] = "no"
        /\ \A c \in Clients : Kept(c) => client = c
    BY ActorAlone DEF Calm
  <1>2. Stage(p)' /\ Written' /\ \A c \in Clients : Kept(c)' => client' = c
    BY <1>1 DEF Stage, Written, Alive, Kept
  <1>3. p \in Replacing'
    BY DEF Replacing
  <1>. QED  BY <1>1, <1>2, <1>3, ActorKeeps DEF Untouched, Calm

\* What connect, sessionStatus and the replacement of a client that does not answer do.
LEMMA ConnectOrderly ==
    ASSUME Calm, Typed', Solo', haunted' = FALSE, NEW p \in Procs, ConnectSteps(p)
    PROVE  Orderly'
  <1>. USE DEF maps, world, past, Calm
  <1>1. CASE /\ call[p].op = "poll"
             /\ \/ ReadStatus(p)
                \/ Probe(p) /\ ~Usable(call[p].probed)
    <2>1. p \notin Replacing
      BY <1>1 DEF Replacing, ReadStatus, Probe, At
    <2>2. Acts(p) /\ p \notin Replacing'
      <3>1. CASE ReadStatus(p) /\ status = "CONNECTING" /\ client # NoClient
        BY <1>1, <3>1 DEF ReadStatus, Acts, Replacing, Typed, SessionTypeOK, Call
      <3>2. CASE ReadStatus(p) /\ ~(status = "CONNECTING" /\ client # NoClient)
        BY <1>1, <3>2, ReturnMoves DEF ReadStatus, Decide, Replaces, Replacing
      <3>3. CASE Probe(p) /\ ~Usable(call[p].probed)
        BY <1>1, <3>3, ReturnMoves DEF Probe, Decide, Replaces, Replacing
      <3>. QED  BY <1>1, <3>1, <3>2, <3>3
    <2>3. UNCHANGED <<status, client, qr, writes, browser, survived, leaving, attempt>>
      <3>1. CASE ReadStatus(p)
        BY <3>1 DEF ReadStatus
      <3>2. CASE Probe(p) /\ ~Usable(call[p].probed)
        BY <3>2 DEF Probe
      <3>. QED  BY <1>1, <3>1, <3>2
    <2>. QED  BY <2>1, <2>2, <2>3, Bystander
  <1>2. CASE ConnectStart(p)
    <2>1. /\ Acts(p) /\ call[p].step = "start" /\ p \in Replacing
          /\ call'[p].step = IF client = NoClient THEN "upsert" ELSE "status"
          /\ client # NoClient => call'[p].held = client
      BY <1>2, GotoMoves, HoldMoves DEF ConnectStart, EnterConnect, At, Kinds, Kind, Replacing
    <2>2. /\ UNCHANGED <<status, client, writes, browser, survived, leaving, attempt>>
          /\ qr' = IF client = NoClient THEN NoClient ELSE qr
      BY <1>2 DEF ConnectStart, EnterConnect
    <2>3. /\ Only(p)' /\ Leaving' = {} /\ writes = {} /\ \A c \in Clients : leaving'[c] = "no"
          /\ \A c \in Clients : Kept(c) => client = c
          /\ qr \in {NoClient, client} /\ Backs(status)
      BY <2>1, <2>2, ActorAlone DEF Untouched
    <2>4. Stage(p)'
      BY <2>1, <2>2 DEF Stage
    <2>5. Written' /\ Backs(status)' /\ \A c \in Clients : Kept(c)' => client' = c
      BY <2>2, <2>3 DEF Written, Backs, Alive, Kept
    <2>. QED  BY <2>1, <2>2, <2>3, <2>4, <2>5, ActorKeeps
  <1>3. CASE ReadStatus(p) /\ call[p].op # "poll"
    <2>1. call[p].step = "status" /\ p \in Replacing
      BY <1>3 DEF ReadStatus, At, Kinds, Kind, Replacing
    <2>2. call[p].held = client /\ client # NoClient
      BY <2>1 DEF Orderly, Stages, Stage
    <2>3. /\ Acts(p)
          /\ \/ call'[p].step = "probe" /\ call'[p].held = client
             \/ call'[p].step = "destroy" /\ call'[p].held = client
             \/ p \notin Replacing' /\ call'[p].step \in {"idle", "status"}
      <3>1. CASE status = "CONNECTING" /\ client # NoClient
        BY <1>3, <2>2, <3>1 DEF ReadStatus, Acts, Typed, SessionTypeOK, Call
      <3>2. CASE ~(status = "CONNECTING" /\ client # NoClient)
        BY <1>3, <2>2, <3>2, GotoMoves, ReturnMoves DEF ReadStatus, Decide, Replaces, Replacing
      <3>. QED  BY <3>1, <3>2
    <2>4. UNCHANGED <<status, client, qr, writes, browser, survived, leaving, attempt>>
      BY <1>3 DEF ReadStatus
    <2>5. /\ Only(p)' /\ Leaving' = {} /\ writes = {} /\ \A c \in Clients : leaving'[c] = "no"
          /\ \A c \in Clients : Kept(c) => client = c
          /\ qr \in {NoClient, client} /\ Backs(status)
      BY <2>1, <2>3, <2>4, ActorAlone DEF Untouched
    <2>6. p \in Replacing' => Stage(p)'
      BY <2>2, <2>3, <2>4 DEF Stage
    <2>7. Written' /\ Backs(status)' /\ \A c \in Clients : Kept(c)' => client' = c
      BY <2>4, <2>5 DEF Written, Backs, Alive, Kept
    <2>. QED  BY <2>3, <2>4, <2>5, <2>6, <2>7, ActorKeeps
  <1>4. CASE Probe(p) /\ Usable(call[p].probed)
    <2>1. /\ Acts(p) /\ call[p].step = "probe" /\ call'[p].step = "mark" /\ p \in Replacing'
      BY <1>4, GotoMoves DEF Probe, At, Replacing
    <2>2. UNCHANGED <<status, client, qr, writes, browser, survived, leaving>>
      BY <1>4 DEF Probe
    <2>3. /\ Only(p)' /\ Leaving' = {} /\ writes = {} /\ \A c \in Clients : leaving'[c] = "no"
          /\ \A c \in Clients : Kept(c) => client = c
          /\ qr \in {NoClient, client}
      BY <2>1, <2>2, ActorAlone
    <2>4. call[p].probed \in Clients
      BY <2>1 DEF Kinds, Kind, Typed, SessionTypeOK, Call
    <2>5. client # NoClient
      <3>1. Acted(call[p].probed)
        BY <1>4 DEF Probe
      <3>2. Kept(call[p].probed)
        BY <1>4, <3>1, ActedIsKept DEF Usable, Alive, Kept
      <3>. QED  BY <2>3, <2>4, <3>2, NoClientFact
    <2>6. Stage(p)'
      BY <2>1, <2>2, <2>5 DEF Stage
    <2>7. Written' /\ \A c \in Clients : Kept(c)' => client' = c
      BY <2>2, <2>3 DEF Written, Alive, Kept
    <2>. QED  BY <2>1, <2>2, <2>3, <2>6, <2>7, ActorKeeps DEF Untouched
  <1>5. CASE Probe(p) /\ ~Usable(call[p].probed) /\ call[p].op # "poll"
    <2>1. call[p].step = "probe" /\ p \in Replacing
      BY <1>5 DEF Probe, At, Kinds, Kind, Replacing
    <2>2. call[p].held = client /\ client # NoClient
      BY <2>1 DEF Orderly, Stages, Stage
    <2>3. /\ Acts(p)
          /\ \/ call'[p].step = "destroy" /\ call'[p].held = client
             \/ p \notin Replacing' /\ call'[p].step \in {"idle", "status"}
      BY <1>5, <2>2, GotoMoves, ReturnMoves DEF Probe, Decide, Replaces, Replacing
    <2>4. UNCHANGED <<status, client, qr, writes, browser, survived, leaving, attempt>>
      BY <1>5 DEF Probe
    <2>5. /\ Only(p)' /\ Leaving' = {} /\ writes = {} /\ \A c \in Clients : leaving'[c] = "no"
          /\ \A c \in Clients : Kept(c) => client = c
          /\ qr \in {NoClient, client} /\ Backs(status)
      BY <2>1, <2>3, <2>4, ActorAlone DEF Untouched
    <2>6. p \in Replacing' => Stage(p)'
      BY <2>2, <2>3, <2>4 DEF Stage
    <2>7. Written' /\ Backs(status)' /\ \A c \in Clients : Kept(c)' => client' = c
      BY <2>4, <2>5 DEF Written, Backs, Alive, Kept
    <2>. QED  BY <2>3, <2>4, <2>5, <2>6, <2>7, ActorKeeps
  <1>6. CASE MarkConnected(p)
    <2>1. call[p].step = "mark" /\ p \in Replacing /\ client # NoClient
      BY <1>6 DEF MarkConnected, At, Replacing, Orderly, Stages, Stage
    <2>2. Acts(p) /\ p \notin Replacing'
      BY <1>6, ReturnMoves DEF MarkConnected, Replaces, Replacing
    <2>3. UNCHANGED <<client, qr, writes, browser, survived, leaving, attempt>> /\ status' = "CONNECTED"
      BY <1>6 DEF MarkConnected
    <2>4. /\ Only(p)' /\ Leaving' = {} /\ writes = {} /\ \A c \in Clients : leaving'[c] = "no"
          /\ \A c \in Clients : Kept(c) => client = c
          /\ qr \in {NoClient, client}
      BY <2>1, <2>2, <2>3, ActorAlone
    <2>5. Written' /\ Backs(status)' /\ \A c \in Clients : Kept(c)' => client' = c
      BY <2>1, <2>3, <2>4 DEF Written, Backs, Alive, Kept
    <2>. QED  BY <2>2, <2>3, <2>4, <2>5, ActorKeeps
  <1>7. CASE DestroyExisting(p)
    <2>1. /\ call[p].step = "destroy" /\ p \in Replacing
          /\ call[p].op \in {"connect", "disconnect", "watch"}
      BY <1>7 DEF DestroyExisting, At, Kinds, Kind, Replacing
    <2>2. call[p].held = client /\ client \in Clients
      BY <2>1 DEF Orderly, Stages, Stage, Typed, SessionTypeOK
    <2>3. Acts(p) /\ call'[p].step = "drop" /\ call'[p].held = client /\ p \in Replacing'
      BY <1>7, <2>1, <2>2, GotoMoves DEF DestroyExisting, Replacing
    <2>4. UNCHANGED <<client, qr, writes, leaving>> /\ Destroyed(client)
      BY <1>7, <2>2 DEF DestroyExisting
    <2>5. /\ Only(p)' /\ Leaving' = {} /\ writes = {} /\ \A c \in Clients : leaving'[c] = "no"
          /\ \A c \in Clients : Kept(c) => client = c
          /\ qr \in {NoClient, client}
      BY <2>1, <2>3, <2>4, ActorAlone
    <2>6. ~Kept(client)' /\ \A c \in Clients : ~Kept(c)'
      BY <2>2, <2>4, <2>5, DestroyedIsGone
    <2>7. Stage(p)' /\ Written'
      BY <2>2, <2>3, <2>4, <2>5, <2>6, NoClientFact DEF Stage, Written
    <2>. QED  BY <2>3, <2>4, <2>5, <2>6, <2>7, ActorKeeps DEF Untouched
  <1>8. CASE DropExisting(p)
    <2>1. /\ call[p].step = "drop" /\ p \in Replacing
          /\ call[p].op \in {"connect", "disconnect", "watch"}
      BY <1>8 DEF DropExisting, At, Kinds, Kind, Replacing
    <2>2. ~Kept(client)
      BY <2>1 DEF Orderly, Stages, Stage
    <2>3. Acts(p) /\ call'[p].step = "upsert" /\ p \in Replacing'
      BY <1>8, <2>1, GotoMoves DEF DropExisting, Replacing
    <2>4. /\ UNCHANGED <<status, writes, browser, survived, leaving>>
          /\ client' = NoClient /\ qr' = NoClient
      BY <1>8 DEF DropExisting
    <2>5. /\ Only(p)' /\ Leaving' = {} /\ writes = {} /\ \A c \in Clients : leaving'[c] = "no"
          /\ \A c \in Clients : Kept(c) => client = c
      BY <2>1, <2>3, <2>4, ActorAlone
    <2>6. \A c \in Clients : ~Kept(c)'
      BY <2>2, <2>4, <2>5 DEF Alive, Kept
    <2>7. Stage(p)' /\ Written'
      BY <2>3, <2>4, <2>5 DEF Stage, Written
    <2>. QED  BY <2>3, <2>4, <2>5, <2>6, <2>7, ActorKeeps DEF Untouched
  <1>9. CASE Upsert(p)
    <2>1. call[p].step = "upsert" /\ p \in Replacing
      BY <1>9 DEF Upsert, At, Kinds, Kind, Replacing
    <2>2. client = NoClient /\ qr = NoClient
      BY <2>1 DEF Orderly, Stages, Stage
    <2>3. Acts(p) /\ call'[p].step = "create"
      BY <1>9, GotoMoves DEF Upsert
    <2>4. UNCHANGED <<client, qr, writes, browser, survived, leaving>>
      BY <1>9 DEF Upsert
    <2>. QED  BY <2>1, <2>2, <2>3, <2>4, ToCreate
  <1>10. CASE Create(p)
    <2>1. call[p].step = "create" /\ p \in Replacing
      BY <1>10 DEF Create, At, Replacing
    <2>2. client = NoClient /\ qr = NoClient
      BY <2>1 DEF Orderly, Stages, Stage
    <2>3. Acts(p) /\ p \notin Replacing'
      BY <1>10, ReturnMoves DEF Create, Replaces, Replacing
    <2>4. /\ UNCHANGED <<status, qr, leaving>>
          /\ client' = made + 1 /\ attempt' = "new"
          /\ writes' = writes \cup {"CONNECTING"}
          /\ browser' = [browser EXCEPT ![made + 1] = Started] /\ survived' = survived
      BY <1>10 DEF Create, CreateClient, Persist
    <2>5. /\ Only(p)' /\ Leaving' = {} /\ writes = {} /\ \A c \in Clients : leaving'[c] = "no"
          /\ \A c \in Clients : Kept(c) => client = c
      BY <2>1, <2>3, <2>4, ActorAlone
    <2>6. client' \in Clients /\ client' # NoClient
      BY <1>10, <2>4, SessionAssumption DEF Create, CreateClient, Typed, SessionTypeOK, Clients,
                                            NoClient
    <2>7. \A c \in Clients : Kept(c)' => client' = c
      BY <2>2, <2>4, <2>5, NoClientFact DEF Alive, Kept, Typed, SessionTypeOK
    <2>8. Written'
      BY <2>4, <2>5, <2>6 DEF Written, Backs
    <2>. QED  BY <2>2, <2>3, <2>4, <2>5, <2>7, <2>8, ActorKeeps
  <1>11. CASE ReadStatus(p)
    <2>1. CASE call[p].op = "poll"
      BY <1>1, <1>11, <2>1
    <2>2. CASE call[p].op # "poll"
      BY <1>3, <1>11, <2>2
    <2>. QED  BY <2>1, <2>2
  <1>12. CASE Probe(p)
    BY <1>1, <1>4, <1>5, <1>12
  <1>. QED  BY <1>2, <1>6, <1>7, <1>8, <1>9, <1>10, <1>11, <1>12 DEF ConnectSteps

\* A disconnection: the row says DISCONNECTED once the client is gone.
LEMMA DisconnectOrderly ==
    ASSUME Calm, Typed', Solo', NEW p \in Procs, DisconnectSteps(p)
    PROVE  Orderly'
  <1>. USE DEF maps, world, past, Calm
  <1>1. /\ call[p].step \in {"leave", "left", "update"} /\ p \in Replacing
        /\ call[p].op \in {"connect", "disconnect", "watch"}
    BY DEF DisconnectSteps, Leave, Left, UpdateDisconnected, At, Kinds, Kind, Replacing
  <1>2. Stage(p)
    BY <1>1 DEF Orderly, Stages
  <1>3. Acts(p) /\ p \in Replacing'
    BY <1>1, GotoMoves, HoldMoves DEF DisconnectSteps, Leave, Left, UpdateDisconnected, Forget,
                                      EnterConnect, Replacing
  <1>4. UNCHANGED <<writes, leaving>>
    BY DEF DisconnectSteps, Leave, Left, UpdateDisconnected
  <1>5. /\ Only(p)' /\ Leaving' = {} /\ writes = {} /\ \A c \in Clients : leaving'[c] = "no"
        /\ \A c \in Clients : Kept(c) => client = c
        /\ qr \in {NoClient, client}
    BY <1>1, <1>3, <1>4, ActorAlone
  <1>6. Written'
    BY <1>4, <1>5 DEF Written
  <1>7. CASE Leave(p) /\ client = NoClient
    <2>1. call'[p].step = "update" /\ qr' = NoClient /\ UNCHANGED <<client, browser, survived>>
      BY <1>7, GotoMoves DEF Leave, Forget
    <2>2. Stage(p)' /\ \A c \in Clients : Kept(c)' => client' = c
      BY <1>5, <1>7, <2>1 DEF Stage, Alive, Kept
    <2>. QED  BY <1>3, <1>4, <1>5, <1>6, <2>1, <2>2, ActorKeeps DEF Untouched
  <1>8. CASE Leave(p) /\ client # NoClient
    <2>1. /\ call'[p].step = "left" /\ call'[p].held = client /\ UNCHANGED <<client, qr>>
          /\ Destroyed(client) /\ client \in Clients
      BY <1>8, HoldMoves DEF Leave, Typed, SessionTypeOK
    <2>2. \A c \in Clients : ~Kept(c)'
      BY <1>5, <2>1, DestroyedIsGone
    <2>3. Stage(p)'
      BY <1>8, <2>1, <2>2 DEF Stage
    <2>. QED  BY <1>3, <1>4, <1>5, <1>6, <2>1, <2>2, <2>3, ActorKeeps DEF Untouched
  <1>9. CASE Left(p)
    <2>1. /\ call[p].step = "left" /\ call'[p].step = "update" /\ qr' = NoClient
          /\ client' = NoClient /\ UNCHANGED <<browser, survived>>
      BY <1>9, GotoMoves DEF Left, Forget, At
    <2>2. \A c \in Clients : ~Kept(c)'
      BY <1>2, <1>5, <2>1 DEF Stage, Alive, Kept
    <2>3. Stage(p)'
      BY <2>1 DEF Stage
    <2>. QED  BY <1>3, <1>4, <1>5, <1>6, <2>1, <2>2, <2>3, ActorKeeps DEF Untouched
  <1>10. CASE UpdateDisconnected(p)
    <2>1. /\ call[p].step = "update" /\ client = NoClient
          /\ call'[p].step = "upsert" /\ qr' = NoClient /\ UNCHANGED <<client, browser, survived>>
      BY <1>2, <1>10, GotoMoves DEF UpdateDisconnected, EnterConnect, At, Stage
    <2>2. Stage(p)' /\ \A c \in Clients : Kept(c)' => client' = c
      BY <1>5, <2>1 DEF Stage, Alive, Kept
    <2>. QED  BY <1>3, <1>4, <1>5, <1>6, <2>1, <2>2, ActorKeeps DEF Untouched
  <1>. QED  BY <1>7, <1>8, <1>9, <1>10 DEF DisconnectSteps

\* The watchdog finds the client it looks at still in the map.
LEMMA WatchOrderly ==
    ASSUME Calm, Typed', Solo', NEW p \in Procs, WatchSteps(p)
    PROVE  Orderly'
  <1>. USE DEF maps, world, past, Calm
  <1>1. /\ call[p].step \in {"check", "look"} /\ p \in Replacing
        /\ call[p].op \in {"connect", "disconnect", "watch"}
    BY DEF WatchSteps, WatchStatus, WatchProbe, At, Kinds, Kind, Replacing
  <1>2. call[p].held = client /\ client # NoClient
    BY <1>1 DEF Orderly, Stages, Stage
  <1>3. UNCHANGED <<status, client, writes, browser, survived, leaving>>
    BY DEF WatchSteps, WatchStatus, WatchProbe
  <1>4. Acts(p)
    BY GotoMoves, HoldMoves, ReturnMoves DEF WatchSteps, WatchStatus, WatchProbe, EnterConnect
  <1>5. /\ Only(p)' /\ Leaving' = {} /\ writes = {} /\ \A c \in Clients : leaving'[c] = "no"
        /\ \A c \in Clients : Kept(c) => client = c
        /\ qr \in {NoClient, client} /\ Backs(status)
    BY <1>1, <1>3, <1>4, ActorAlone DEF Untouched
  <1>6. Written' /\ \A c \in Clients : Kept(c)' => client' = c
    BY <1>3, <1>5 DEF Written, Alive, Kept
  <1>7. CASE WatchStatus(p) /\ status = "CONNECTING"
    <2>1. /\ call'[p].step = "look" /\ call'[p].held = client /\ UNCHANGED <<attempt, qr>>
      BY <1>2, <1>7, GotoMoves DEF WatchStatus
    <2>2. Stage(p)' /\ Backs(status)'
      BY <1>2, <1>3, <1>5, <2>1 DEF Stage, Backs
    <2>. QED  BY <1>3, <1>4, <1>5, <1>6, <2>1, <2>2, ActorKeeps
  <1>8. CASE WatchStatus(p) /\ status # "CONNECTING"
    <2>1. p \notin Replacing' /\ UNCHANGED qr
      BY <1>8, ReturnMoves DEF WatchStatus, Replaces, Replacing
    <2>2. Backs(status)'
      BY <1>2, <1>3, <1>8 DEF Backs
    <2>. QED  BY <1>3, <1>4, <1>5, <1>6, <2>1, <2>2, ActorKeeps
  <1>9. CASE WatchProbe(p) /\ Usable(call[p].held)
    <2>1. call'[p].step = "mark" /\ UNCHANGED qr
      BY <1>9, GotoMoves DEF WatchProbe
    <2>2. Stage(p)' /\ p \in Replacing'
      BY <1>2, <1>3, <2>1 DEF Stage, Replacing
    <2>. QED  BY <1>3, <1>4, <1>5, <1>6, <2>1, <2>2, ActorKeeps DEF Untouched
  <1>10. CASE WatchProbe(p) /\ ~Usable(call[p].held)
    <2>1. /\ call'[p].step = "status" /\ call'[p].held = client /\ UNCHANGED <<attempt, qr>>
      BY <1>2, <1>10, HoldMoves DEF WatchProbe, EnterConnect
    <2>2. Stage(p)' /\ Backs(status)'
      BY <1>2, <1>3, <1>5, <2>1 DEF Stage, Backs
    <2>. QED  BY <1>3, <1>4, <1>5, <1>6, <2>1, <2>2, ActorKeeps
  <1>. QED  BY <1>7, <1>8, <1>9, <1>10 DEF WatchSteps

\* The recovery after a send that failed takes the client out of the map, then ends it.
LEMMA SendOrderly ==
    ASSUME Calm, Typed', Solo', NEW p \in Procs, SendSteps(p)
    PROVE  Orderly'
  <1>. USE DEF maps, world, past, Calm
  <1>1. CASE SendEnds(p) \/ SendFails(p)
    <2>1. /\ call[p].step = "attempt" /\ call[p].op = "send" /\ p \notin Replacing
          /\ UNCHANGED <<status, client, qr, writes, browser, survived, leaving, attempt>>
      BY <1>1 DEF SendEnds, SendFails, At, Kinds, Kind, Replacing
    <2>2. CASE p \notin Replacing'
      <3>1. Acts(p)
        BY <1>1, ReturnMoves DEF SendEnds, SendFails, Acts, Typed, SessionTypeOK
      <3>. QED  BY <2>1, <2>2, <3>1, Bystander
    <2>3. CASE p \in Replacing'
      <3>1. SendFails(p)
        BY <1>1, <2>3, ReturnMoves DEF SendEnds, Replaces, Replacing
      <3>2. Acts(p) /\ call'[p].step = "recover"
        BY <2>1, <2>3, <3>1 DEF SendFails, Acts, Typed, SessionTypeOK, Call, Replacing
      <3>3. /\ Only(p)' /\ Leaving' = {} /\ writes = {}
            /\ \A c \in Clients : leaving'[c] = "no"
            /\ \A c \in Clients : Kept(c) => client = c
            /\ qr \in {NoClient, client} /\ Backs(status)
        BY <2>1, <2>3, <3>2, ActorAlone
      <3>4. Stage(p)' /\ Backs(status)'
        BY <2>1, <3>2, <3>3 DEF Stage, Backs
      <3>5. Written' /\ \A c \in Clients : Kept(c)' => client' = c
        BY <2>1, <3>3 DEF Written, Alive, Kept
      <3>. QED  BY <2>1, <2>3, <3>3, <3>4, <3>5, ActorKeeps
    <2>. QED  BY <2>2, <2>3
  <1>2. CASE RecoverClient(p)
    <2>1. call[p].step = "recover" /\ p \in Replacing
      BY <1>2 DEF RecoverClient, At, Replacing
    <2>2. UNCHANGED <<status, attempt, writes, browser, survived, leaving>>
      BY <1>2 DEF RecoverClient
    <2>3. Acts(p)
      BY <1>2, GotoMoves, HoldMoves, ReturnMoves DEF RecoverClient
    <2>4. /\ Only(p)' /\ Leaving' = {} /\ writes = {} /\ \A c \in Clients : leaving'[c] = "no"
          /\ \A c \in Clients : Kept(c) => client = c
          /\ qr \in {NoClient, client} /\ Backs(status)
      BY <2>1, <2>2, <2>3, ActorAlone DEF Untouched
    <2>5. Written'
      BY <2>2, <2>4 DEF Written
    <2>6. CASE cooling
      <3>1. p \notin Replacing' /\ UNCHANGED <<client, qr>>
        BY <1>2, <2>6, ReturnMoves DEF RecoverClient, Replaces, Replacing
      <3>2. Backs(status)' /\ \A c \in Clients : Kept(c)' => client' = c
        BY <2>2, <2>4, <3>1 DEF Backs, Alive, Kept
      <3>. QED  BY <2>2, <2>4, <2>5, <3>1, <3>2, ActorKeeps
    <2>7. CASE ~cooling /\ client = NoClient
      <3>1. call'[p].step = "persist" /\ client' = NoClient /\ qr' = NoClient
        BY <1>2, <2>7, GotoMoves DEF RecoverClient
      <3>2. Stage(p)' /\ p \in Replacing' /\ \A c \in Clients : Kept(c)' => client' = c
        BY <2>2, <2>4, <2>7, <3>1 DEF Stage, Replacing, Alive, Kept
      <3>. QED  BY <2>2, <2>4, <2>5, <3>1, <3>2, ActorKeeps DEF Untouched
    <2>8. CASE ~cooling /\ client # NoClient
      <3>1. call'[p].step = "ended" /\ call'[p].held = client /\ client' = NoClient
        BY <1>2, <2>8, HoldMoves DEF RecoverClient
      <3>2. /\ Stage(p)' /\ p \in Replacing'
            /\ \A c \in Clients : Kept(c)' => call'[p].held = c
        BY <2>2, <2>4, <2>8, <3>1 DEF Stage, Replacing, Alive, Kept
      <3>. QED  BY <2>2, <2>4, <2>5, <3>1, <3>2, ActorKeeps DEF Untouched
    <2>. QED  BY <2>6, <2>7, <2>8
  <1>3. CASE RecoverDestroys(p)
    <2>1. call[p].step = "ended" /\ p \in Replacing
      BY <1>3 DEF RecoverDestroys, At, Replacing
    <2>2. client = NoClient /\ call[p].held \in Clients
      BY <2>1 DEF Orderly, Stages, Stage, Typed, SessionTypeOK, Call
    <2>3. Acts(p) /\ call'[p].step = "persist" /\ p \in Replacing'
      BY <1>3, GotoMoves DEF RecoverDestroys, Replacing
    <2>4. UNCHANGED <<client, writes, leaving>> /\ qr' = NoClient /\ Destroyed(call[p].held)
      BY <1>3 DEF RecoverDestroys
    <2>5. /\ Only(p) /\ Only(p)' /\ Leaving' = {} /\ writes = {}
          /\ \A c \in Clients : leaving'[c] = "no"
      BY <2>1, <2>3, <2>4, ActorAlone
    <2>6. \A c \in Clients : Kept(c) => call[p].held = c
      BY <2>2, <2>5, NoClientFact DEF Orderly, Tended, Orphaned, Only, Replacing
    <2>7. \A c \in Clients : ~Kept(c)'
      BY <2>2, <2>4, <2>6, DestroyedIsGone
    <2>8. Stage(p)' /\ Written'
      BY <2>2, <2>3, <2>4, <2>5 DEF Stage, Written
    <2>. QED  BY <2>3, <2>4, <2>5, <2>7, <2>8, ActorKeeps DEF Untouched
  <1>4. CASE RecoverPersists(p)
    <2>1. call[p].step = "persist" /\ p \in Replacing
      BY <1>4 DEF RecoverPersists, At, Replacing
    <2>2. client = NoClient /\ qr = NoClient
      BY <2>1 DEF Orderly, Stages, Stage
    <2>3. Acts(p) /\ call'[p].step = "create"
      BY <1>4, GotoMoves DEF RecoverPersists
    <2>4. UNCHANGED <<client, qr, writes, browser, survived, leaving>>
      BY <1>4 DEF RecoverPersists
    <2>. QED  BY <2>1, <2>2, <2>3, <2>4, ToCreate
  <1>. QED  BY <1>1, <1>2, <1>3, <1>4 DEF SendSteps

\* An event that writes the status: whoever raises it is the client in the map, and no
\* call replaces it.
LEMMA EventAlone ==
    ASSUME Calm, Solo', UNCHANGED call, writes' # {} \/ Leaving' # {}
    PROVE  /\ Replacing = {} /\ Replacing' = {}
           /\ \A c \in Clients : Kept(c) => client = c
           /\ qr \in {NoClient, client}
  <1>1. Replacing' = Replacing
    BY DEF Replacing
  <1>2. Replacing = {}
    BY <1>1 DEF Solo
  <1>3. \A q \in Procs : call[q].step # "ended"
    BY <1>2 DEF Replacing
  <1>. QED  BY <1>1, <1>2, <1>3 DEF Calm, Orderly, Tended, Orphaned, Shown, At

\* Nothing in flight replaces the client after the event either.
LEMMA EventKeeps ==
    ASSUME Replacing' = {}, Partings', Written', writes' # {} \/ Leaving' # {} \/ Backs(status)',
           \A c \in Clients : Kept(c)' => client' = c, qr' \in {NoClient, client'}
    PROVE  Orderly'
  BY DEF Orderly, Stages, Standing, Tended, Orphaned, Shown

LEMMA EventOrderly ==
    ASSUME Calm, Typed', Solo', haunted' = FALSE, NEW c \in Clients, ClientEvent(c) \/ Farewell(c)
    PROVE  Orderly'
  <1>. USE DEF maps, world, past
  <1>0. Typed /\ Orderly /\ Solo /\ UNCHANGED call
    BY DEF Calm, ClientEvent, Farewell, OnQr, Injected, OnReady, OnAuthFailure,
           InitializeFails, OnDisconnected, DisconnectedPersists, DisconnectedDrops, Breaks
  <1>1. CASE OnQr(c) \/ OnReady(c) \/ OnAuthFailure(c) \/ InitializeFails(c)
    <2>1. PICK s \in Status : Persist(s)
      BY <1>1 DEF OnQr, OnReady, OnAuthFailure, InitializeFails, Status
    <2>2. writes' = writes \cup {s} /\ writes' = {s}
      BY <2>1 DEF Persist, Solo
    <2>3. /\ Replacing' = {} /\ \A d \in Clients : Kept(d) => client = d
          /\ qr \in {NoClient, client}
      BY <1>0, <2>2, EventAlone
    <2>4. UNCHANGED <<client, leaving>>
      BY <1>1 DEF OnQr, OnReady, OnAuthFailure, InitializeFails
    <2>5. Leaving' = {} /\ \A d \in Clients : leaving'[d] = "no"
      BY <2>2 DEF Solo, Leaving
    <2>6. Partings'
      BY <2>5 DEF Partings, Parting
    <2>7. \A d \in Clients : Kept(d)' => Kept(d)
      BY <1>0, <1>1 DEF OnQr, OnReady, OnAuthFailure, InitializeFails, Alive, Kept, Typed,
         SessionTypeOK
    <2>8. c \notin survived
      BY <1>1, ActedIsKept DEF OnQr, OnReady, OnAuthFailure, InitializeFails
    <2>9. Written'
      <3>1. CASE OnQr(c)
        BY <1>0, <2>2, <2>3, <2>4, <2>8, <3>1, NoClientFact
        DEF OnQr, Alive, Kept, Written, Backs
      <3>2. CASE OnReady(c)
        <4>1. writes' = {"CONNECTED"}
          BY <2>2, <3>2 DEF OnReady, Persist
        <4>. QED
          BY <2>3, <2>4, <2>8, <3>2, <4>1, NoClientFact
          DEF OnReady, Usable, Alive, Kept, Written, Backs
      <3>3. CASE OnAuthFailure(c) \/ InitializeFails(c)
        <4>1. writes' = {"ERROR"}
          BY <2>2, <3>3 DEF OnAuthFailure, InitializeFails, Persist
        <4>. QED  BY <4>1 DEF Written, Backs
      <3>. QED  BY <1>1, <3>1, <3>2, <3>3
    <2>10. qr' \in {NoClient, client'}
      BY <1>1, <2>3, <2>4, <2>8 DEF OnQr, OnReady, OnAuthFailure, InitializeFails, Alive, Kept
    <2>. QED  BY <2>2, <2>3, <2>4, <2>6, <2>7, <2>9, <2>10, EventKeeps
  <1>2. CASE OnDisconnected(c)
    <2>1. leaving'[c] = "persist" /\ Leaving' # {}
      BY <1>0, <1>2 DEF OnDisconnected, Leaving, Typed, SessionTypeOK
    <2>2. /\ Replacing' = {} /\ \A d \in Clients : Kept(d) => client = d
          /\ qr \in {NoClient, client}
      BY <1>0, <2>1, EventAlone
    <2>3. writes' = {} /\ \A d \in Clients : leaving'[d] # "no" => d = c
      BY <2>1 DEF Solo, Leaving
    <2>4. UNCHANGED <<client, qr>> /\ client = c /\ browser'[c] = "closed"
      <3>1. c \notin survived
        BY <1>2, ActedIsKept DEF OnDisconnected
      <3>. QED  BY <1>0, <1>2, <2>2, <3>1 DEF OnDisconnected, Kept, Typed, SessionTypeOK
    <2>5. Partings' /\ Written'
      BY <2>1, <2>3, <2>4 DEF Partings, Parting, Written
    <2>6. \A d \in Clients : Kept(d)' => Kept(d)
      BY <1>0, <1>2 DEF OnDisconnected, Alive, Kept, Typed, SessionTypeOK
    <2>. QED  BY <2>1, <2>2, <2>4, <2>5, <2>6, EventKeeps
  <1>3. CASE DisconnectedPersists(c)
    <2>1. leaving'[c] = "drop" /\ Leaving' # {} /\ c \in Leaving
      BY <1>0, <1>3 DEF DisconnectedPersists, Leaving, Typed, SessionTypeOK
    <2>2. /\ Replacing' = {} /\ \A d \in Clients : Kept(d) => client = d
          /\ qr \in {NoClient, client}
      BY <1>0, <2>1, EventAlone
    <2>3. writes' = {} /\ \A d \in Clients : leaving'[d] # "no" => d = c
      BY <2>1 DEF Solo, Leaving
    <2>4. /\ UNCHANGED <<client, qr, browser, survived>> /\ status' = "DISCONNECTED"
          /\ client = c /\ browser[c] = "closed"
      BY <1>0, <1>3 DEF DisconnectedPersists, Orderly, Partings, Parting
    <2>5. Partings' /\ Written'
      BY <2>1, <2>3, <2>4 DEF Partings, Parting, Written
    <2>. QED  BY <2>1, <2>2, <2>4, <2>5, EventKeeps DEF Alive, Kept
  <1>4. CASE DisconnectedDrops(c)
    <2>1. /\ leaving[c] = "drop" /\ c \in Leaving
          /\ UNCHANGED <<writes, browser, survived, status>> /\ client' = NoClient /\ qr' = NoClient
          /\ leaving' = [leaving EXCEPT ![c] = "no"]
      BY <1>4 DEF DisconnectedDrops, Leaving
    <2>2. /\ Replacing = {} /\ Replacing' = {} /\ writes = {}
          /\ \A d \in Clients : leaving[d] # "no" => d = c
      BY <1>0, <2>1 DEF Solo, Leaving, Replacing
    <2>3. /\ status = "DISCONNECTED" /\ client = c /\ browser[c] = "closed"
          /\ \A d \in Clients : Kept(d) => client = d
      BY <1>0, <2>1, <2>2 DEF Orderly, Partings, Parting, Tended, Orphaned, Replacing
    <2>4. Partings' /\ Written' /\ Backs(status)' /\ \A d \in Clients : ~Kept(d)'
      BY <1>0, <2>1, <2>2, <2>3 DEF Partings, Parting, Written, Backs, Alive, Kept, Typed, SessionTypeOK
    <2>. QED  BY <2>1, <2>2, <2>4, EventKeeps
  <1>5. CASE Injected(c) \/ Breaks(c)
    <2>1. /\ UNCHANGED <<status, client, qr, attempt, writes, leaving>>
          /\ \A d \in Clients : Kept(d)' <=> Kept(d)
          /\ \A d \in Clients : browser[d] = "closed" => browser'[d] = "closed"
      BY <1>0, <1>5 DEF Injected, Breaks, Usable, Alive, Kept, Typed, SessionTypeOK
    <2>2. Replacing' = Replacing /\ Leaving' = Leaving
      BY <1>0, <2>1 DEF Replacing, Leaving
    <2>3. Stages'
      <3>. SUFFICES ASSUME NEW q \in Replacing PROVE Stage(q)'
        BY <2>2 DEF Stages
      <3>1. Stage(q)
        BY <1>0 DEF Orderly, Stages
      <3>2. client \in Clients \/ client = NoClient
        BY <1>0 DEF Typed, SessionTypeOK
      <3>3. call[q].step \in {"drop", "left"} => client \in Clients
        BY <3>1, <3>2 DEF Stage
      <3>. QED  BY <1>0, <2>1, <3>1, <3>3 DEF Stage
    <2>4. Partings'
      BY <1>0, <2>1 DEF Orderly, Partings, Parting
    <2>5. Written' /\ Standing'
      BY <1>0, <2>1, <2>2 DEF Orderly, Written, Standing, Backs
    <2>6. Tended' /\ Shown'
      BY <1>0, <2>1 DEF Orderly, Tended, Orphaned, Shown, At
    <2>. QED  BY <2>3, <2>4, <2>5, <2>6 DEF Orderly
  <1>. QED  BY <1>1, <1>2, <1>3, <1>4, <1>5 DEF ClientEvent, Farewell

\* Writes land, attempts age and the cooldown ends.
LEMMA TimeOrderly ==
    ASSUME Calm, Typed', Solo', WriteLands \/ Ages \/ CooldownEnds
    PROVE  Orderly'
  <1>. USE DEF maps, world, past
  <1>0. Typed /\ Orderly /\ Solo
    BY DEF Calm
  <1>1. CASE WriteLands
    <2>1. PICK s \in writes : /\ status' = s /\ writes' = writes \ {s}
                              /\ UNCHANGED <<client, qr, attempt, browser, survived, leaving, call>>
      BY <1>1 DEF WriteLands
    <2>2. writes' = {} /\ Replacing = {} /\ Leaving = {} /\ Replacing' = {}
          /\ \A d \in Clients : leaving[d] = "no"
      BY <1>0, <2>1 DEF Solo, Leaving, Replacing
    <2>3. Backs(status)'
      BY <1>0, <2>1 DEF Orderly, Written, Backs
    <2>4. Partings' /\ Written'
      BY <2>1, <2>2 DEF Partings, Parting, Written
    <2>5. (\A d \in Clients : Kept(d)' => client' = d) /\ qr' \in {NoClient, client'}
      BY <1>0, <2>1, <2>2 DEF Orderly, Tended, Orphaned, Shown, At, Alive, Kept, Replacing
    <2>. QED  BY <2>2, <2>3, <2>4, <2>5, EventKeeps
  <1>2. CASE Ages \/ CooldownEnds
    <2>1. /\ UNCHANGED <<status, client, qr, writes, leaving, browser, survived, call>>
          /\ attempt' = "none" <=> attempt = "none"
      BY <1>2 DEF Ages, CooldownEnds
    <2>2. Replacing' = Replacing /\ Leaving' = Leaving
      BY <2>1 DEF Replacing, Leaving
    <2>3. Stages' /\ Partings'
      BY <1>0, <2>1, <2>2 DEF Orderly, Stages, Stage, Partings, Parting, Alive, Kept
    <2>4. Written' /\ Standing'
      BY <1>0, <2>1, <2>2 DEF Orderly, Written, Standing, Backs
    <2>5. Tended' /\ Shown'
      BY <1>0, <2>1 DEF Orderly, Tended, Orphaned, Shown, At, Alive, Kept
    <2>. QED  BY <2>3, <2>4, <2>5 DEF Orderly
  <1>. QED  BY <1>1, <1>2

\* A restart begins with one client, or with none, whatever went before.
LEMMA RestartOrderly ==
    ASSUME Typed, Restart
    PROVE  Orderly'
  <1>. DEFINE again == status \in {"CONNECTED", "CONNECTING"}
  <1>1. /\ client' = IF again THEN made + 1 ELSE NoClient
        /\ attempt' = IF again THEN "new" ELSE "none"
        /\ writes' = IF again THEN {"CONNECTING"} ELSE {}
        /\ qr' = NoClient /\ leaving' = [k \in Clients |-> "no"]
        /\ call' = [p \in Procs |-> Idle] /\ status' = status
        /\ \A k \in Clients : browser'[k] \notin {"closed", "none"} => k = made + 1 /\ again
    BY DEF Restart
  <1>2. Replacing' = {}
    BY <1>1 DEF Replacing, Idle
  <1>3. again => client' # NoClient
    BY <1>1 DEF Typed, SessionTypeOK, NoClient
  <1>4. Partings' /\ Written' /\ (writes' = {} => Backs(status)')
    BY <1>1, <1>3 DEF Partings, Parting, Written, Backs
  <1>5. \A d \in Clients : Kept(d)' => client' = d
    BY <1>1 DEF Alive, Kept
  <1>. QED  BY <1>1, <1>2, <1>4, <1>5, EventKeeps

-----------------------------------------------------------------------------
\* What a client that outlived its destroy() did is undone by a restart only.
LEMMA HauntedStays ==
    ASSUME Typed, Next, ~Restart, haunted' = FALSE
    PROVE  haunted = FALSE
  <1>. USE DEF maps, world, past, Acted, Typed, SessionTypeOK
  <1>1. ASSUME NEW p \in Procs, Connect(p) \/ Poll(p) \/ Disconnect(p) \/ Watch(p) \/ Send(p)
        PROVE  haunted = FALSE
    BY <1>1 DEF Connect, Poll, Disconnect, Watch, Send
  <1>2. ASSUME NEW p \in Procs, ConnectSteps(p) PROVE haunted = FALSE
    BY <1>2 DEF ConnectSteps, ConnectStart, ReadStatus, Probe, MarkConnected,
                DestroyExisting, DropExisting, Upsert, Create
  <1>3. ASSUME NEW p \in Procs, DisconnectSteps(p) \/ WatchSteps(p) PROVE haunted = FALSE
    BY <1>3 DEF DisconnectSteps, Leave, Left, UpdateDisconnected, WatchSteps, WatchStatus,
                WatchProbe
  <1>4. ASSUME NEW p \in Procs, SendSteps(p) PROVE haunted = FALSE
    BY <1>4 DEF SendSteps, SendEnds, SendFails, RecoverClient, RecoverDestroys, RecoverPersists
  <1>5. ASSUME NEW c \in Clients, ClientEvent(c) \/ Farewell(c) PROVE haunted = FALSE
    BY <1>5 DEF ClientEvent, Farewell, OnQr, Injected, OnReady, OnAuthFailure,
                InitializeFails, OnDisconnected, DisconnectedPersists, DisconnectedDrops, Breaks
  <1>6. CASE WriteLands \/ Ages \/ CooldownEnds
    BY <1>6 DEF WriteLands, Ages, CooldownEnds
  <1>. QED  BY <1>1, <1>2, <1>3, <1>4, <1>5, <1>6 DEF Next, Step, Continue, Procs

\* Until the first race, and while no client that outlived its destroy() acts.
Serial == Undisturbed => Solo /\ Orderly

LEMMA SerialInit == Init => Serial
  <1>. SUFFICES ASSUME Init PROVE Serial
    OBVIOUS
  <1>1. \A p \in Procs : call[p] = Idle
    BY DEF Init
  <1>2. Replacing = {} /\ Leaving = {} /\ writes = {}
    BY <1>1 DEF Init, Replacing, Leaving, Idle
  <1>3. Solo
    BY <1>2 DEF Solo
  <1>4. Orderly
    BY <1>2 DEF Init, Orderly, Stages, Partings, Parting, Written, Standing, Backs, Tended,
                Orphaned, Shown, Alive, Kept
  <1>. QED  BY <1>3, <1>4 DEF Serial

LEMMA SerialNext ==
    Typed /\ Typed' /\ Kinds /\ FewReplacing' /\ Serial /\ [Next]_vars => Serial'
  <1>. SUFFICES ASSUME Typed, Typed', Kinds, FewReplacing', Serial, [Next]_vars, Undisturbed'
                PROVE  Solo' /\ Orderly'
    BY DEF Serial
  <1>1. CASE UNCHANGED vars
    <2>1. Solo /\ Orderly
      BY <1>1 DEF Serial, Undisturbed, vars, past
    <2>. QED
      BY <1>1, <2>1 DEF vars, maps, world, past, Solo, Replacing, Leaving, Orderly, Stages,
         Stage, Partings, Parting, Written, Standing, Backs, Tended, Orphaned, Shown, At, Alive, Kept
  <1>2. CASE Next
    <2>1. raced = 0 /\ ~Race' /\ haunted' = FALSE
      BY <1>2 DEF Next, Count, Typed, SessionTypeOK, Undisturbed
    <2>2. Solo'
      BY <2>1, AloneUnlessRace, PTL
    <2>3. CASE Restart
      BY <2>2, <2>3, RestartOrderly
    <2>4. CASE ~Restart
      <3>1. haunted = FALSE
        BY <1>2, <2>1, <2>4, HauntedStays
      <3>2. Calm
        BY <2>1, <3>1 DEF Serial, Calm, Undisturbed
      <3>. QED
        BY <1>2, <2>1, <2>2, <2>4, <3>2, BeginOrderly, ConnectOrderly, DisconnectOrderly,
           WatchOrderly, SendOrderly, EventOrderly, TimeOrderly DEF Next, Step, Continue, Procs
    <2>. QED  BY <2>2, <2>3, <2>4
  <1>. QED  BY <1>1, <1>2

Settled == Typed /\ Kinds /\ FewReplacing /\ Serial

LEMMA SpecSettled == Spec => []Settled
  <1>1. Init => Settled
    BY TypedInit, KindsInit, SerialInit DEF Settled
  <1>2. Settled /\ [Next]_vars => Settled'
    BY TypedNext, KindsNext, SerialNext DEF Settled
  <1>. QED  BY <1>1, <1>2, PTL DEF Spec

\* Until a race or a survivor acts, a browser outside the map is only the one
\* recoverClient is about to end, or one whose destroy() failed.
THEOREM OrphanSafety == Spec => []NoOrphanBrowser
  <1>1. Settled => NoOrphanBrowser
    BY DEF Settled, Serial, Orderly, Tended, Orphaned, Kept, NoOrphanBrowser
  <1>. QED  BY <1>1, SpecSettled, PTL

\* The code the panel shows is that of the client in the map, a client whose destroy()
\* failed included, until that one acts.
THEOREM QrSafety == Spec => []QrOfCurrent
  <1>1. Settled => QrOfCurrent
    BY DEF Settled, Serial, Orderly, Shown, QrOfCurrent
  <1>. QED  BY <1>1, SpecSettled, PTL

\* A session at rest that the row calls connected or connecting has a client, and one
\* called connecting has an attempt the watchdog times.
THEOREM StatusSafety == Spec => []StatusIsBacked
  <1>1. Settled => StatusIsBacked
    <2>. SUFFICES ASSUME Settled, Quiet, Undisturbed PROVE Backs(status)
      BY DEF StatusIsBacked, Backs
    <2>1. Replacing = {} /\ Leaving = {} /\ writes = {}
      BY DEF Quiet, Replacing, Leaving, Idle
    <2>. QED  BY <2>1 DEF Settled, Serial, Orderly, Standing
  <1>. QED  BY <1>1, SpecSettled, PTL
===============================================================================
