-------------------------- MODULE AuthSessionsProofs --------------------------
(***************************************************************************)
(* What holds of AuthSessions for any number of browsers, tabs, requests,  *)
(* tokens and recovery codes, and any budget of events:                    *)
(*   AuthTypeCorrect      the type invariant;                              *)
(*   ResetSafety          OldSessionsEnd: a reset ends the old sessions;   *)
(*   SecondFactorSafety   SecondFactorAgrees;                              *)
(*   ReplaySafety         ReplayIsExplained: a token has one holder;       *)
(*   ExpelSafety          ExpelledForCause: a page can renew its session.  *)
(***************************************************************************)
EXTENDS AuthSessions, FiniteSetTheorems, TLAPS

Code == Nat \X Nat

Ops   == {"none", "get", "login", "logout", "mfa", "setup", "enable", "disable", "forgot",
          "reset"}
Steps == {"idle", "arrive", "read", "revoke", "issue", "write", "remove", "answer", "wait"}

RequestType ==
    [op : Ops, step : Steps, arg : Code, access : BOOLEAN, token : Tokens \cup {None},
     retried : BOOLEAN, lost : BOOLEAN, codes : SUBSET Code, password : Nat, spared : BOOLEAN,
     result : {"none", "ok", "400", "401", "ticket"}, born : Tokens \cup {None}]
RenewalType ==
    [step : {"none", "find", "family", "update", "issue", "answer"},
     token : Tokens \cup {None}, password : Nat, spared : BOOLEAN, lost : BOOLEAN,
     result : {"none", "ok", "401"}, born : Tokens \cup {None}]
TokenType == [state : {"none", "live", "expired", "revoked"}, password : Nat, spared : BOOLEAN]
UserType  ==
    [active : BOOLEAN, password : Nat, totp : BOOLEAN, secret : Nat, setups : Nat,
     codes : SUBSET Code, link : Nat, links : Nat, linkFresh : BOOLEAN]

\* The records, and the order of what is numbered in them.
Rows ==
    /\ user \in UserType /\ user.secret <= user.setups /\ user.link <= user.links
    /\ token \in [Tokens -> TokenType] /\ \A k \in Tokens : token[k].password <= user.password
Calls ==
    /\ req \in [Request -> RequestType] /\ \A r \in Request : req[r].password <= user.password
    /\ renewal \in [Tab -> RenewalType] /\ \A t \in Tab : renewal[t].password <= user.password
Panel ==
    /\ access \subseteq Browser /\ cookie \in [Browser -> Tokens \cup {None}]
    /\ page \in [Tab -> {"app", "login"}] /\ ticket \subseteq Tab
    /\ budget \in [Kinds -> Nat]

\* A refresh token in a cookie, in a renewal or in an answer was issued.
IsIssued(k) == k \in Tokens /\ token[k].state # "none"
AllIssued ==
    /\ \A b \in Browser : cookie[b] # None => IsIssued(cookie[b])
    /\ \A t \in Tab : /\ renewal[t].token # None => IsIssued(renewal[t].token)
                      /\ renewal[t].result = "ok" => IsIssued(renewal[t].born)
                      /\ renewal[t].step = "update" => renewal[t].token # None
    /\ \A r \in Request : req[r].result = "ok" /\ req[r].op \in {"login", "mfa"}
                              => IsIssued(req[r].born)

Typed == Rows /\ Calls /\ Panel /\ AllIssued

LEMMA TypedIsTypeOK == Typed => AuthTypeOK
  BY DEF Typed, Rows, Calls, Panel, AllIssued, IsIssued, AuthTypeOK, UserType, TokenType,
         RequestType, RenewalType, None

LEMMA Places == /\ \A r \in Request : T(r) \in Tab
                /\ \A t \in Tab : B(t) \in Browser
                /\ None \notin Tokens /\ 1 \in Tokens /\ Home \in Browser
  BY AuthAssumption DEF T, B, None, Tokens

LEMMA Blanks == /\ IdleReq \in RequestType /\ IdleReq.op = "none" /\ IdleReq.step = "idle"
                /\ IdleReq.password = None /\ IdleReq.result = "none" /\ IdleReq.spared = FALSE
                /\ IdleRenewal \in RenewalType /\ IdleRenewal.token = None
                /\ IdleRenewal.password = None /\ IdleRenewal.result = "none"
                /\ IdleRenewal.step = "none"
  <1>1. Totp(None) \in Code /\ {} \in SUBSET Code
    BY DEF Totp, Code, None
  <1>. QED  BY <1>1 DEF IdleReq, IdleRenewal, RequestType, RenewalType, Ops, Steps, None

LEMMA CodeFact == /\ \A n, j \in Nat : <<n, j>> \in Code
                  /\ \A n \in Nat : Totp(n) \in Code /\ CodesOf(n) \subseteq Code
  BY DEF Code, Totp, CodesOf

LEMMA TypedInit == Init => Typed
  <1>. SUFFICES ASSUME Init PROVE Typed
    OBVIOUS
  <1>1. Rows
    BY DEF Init, Rows, UserType, TokenType, None
  <1>2. Calls
    BY Blanks DEF Init, Calls, None
  <1>3. Panel
    BY Places, AuthAssumption DEF Init, Panel
  <1>4. AllIssued
    BY Places, Blanks DEF Init, AllIssued, IsIssued
  <1>. QED  BY <1>1, <1>2, <1>3, <1>4 DEF Typed

-----------------------------------------------------------------------------
(***************************************************************************)
(* Helpers of the type proofs: one request moves, one renewal moves.       *)
(***************************************************************************)
LEMMA MoveRequest ==
    ASSUME Typed, NEW r \in Request, NEW v \in RequestType, v.password <= user.password,
           req' = [req EXCEPT ![r] = v]
    PROVE  /\ req' \in [Request -> RequestType]
           /\ \A q \in Request : req'[q].password <= user.password
           /\ req'[r] = v /\ \A q \in Request \ {r} : req'[q] = req[q]
  BY DEF Typed, Calls

LEMMA MoveRenewal ==
    ASSUME Typed, NEW t \in Tab, NEW v \in RenewalType, v.password <= user.password,
           renewal' = [renewal EXCEPT ![t] = v]
    PROVE  /\ renewal' \in [Tab -> RenewalType]
           /\ \A u \in Tab : renewal'[u].password <= user.password
           /\ renewal'[t] = v /\ \A u \in Tab \ {t} : renewal'[u] = renewal[u]
  BY DEF Typed, Calls

LEMMA Spent ==
    ASSUME Typed, NEW kind \in Kinds, Spend(kind)
    PROVE  budget' \in [Kinds -> Nat]
  BY DEF Typed, Panel, Spend

\* A request as a tab sends it, the first time and once more.
Fresh(v, op, arg) ==
    /\ v \in RequestType /\ v.op = op /\ v.arg = arg /\ v.step \in {"arrive", "read"}
    /\ v.password = None /\ v.result = "none" /\ v.spared = FALSE

LEMMA FirstSent ==
    ASSUME Typed, NEW r \in Request, NEW arg \in Code,
           NEW op \in Ops
    PROVE  Fresh(Sent(r, op, arg, FALSE), op, arg)
  <1>. DEFINE step   == IF op \in NeedsJwt THEN "arrive" ELSE "read"
              signed == B(T(r)) \in access
              k      == cookie[B(T(r))]
              a == [[[IdleReq EXCEPT !.op = op] EXCEPT !.step = step] EXCEPT !.arg = arg]
              x == [[[a EXCEPT !.retried = FALSE] EXCEPT !.access = signed] EXCEPT !.token = k]
  <1>1. Sent(r, op, arg, FALSE) = x
    BY Zenon DEF Sent
  <1>2. k \in Tokens \cup {None}
    BY Places DEF Typed, Panel
  <1>3. step \in {"arrive", "read"} /\ signed \in BOOLEAN
    OBVIOUS
  <1>. HIDE DEF step, signed, k
  <1>4. a \in RequestType
    BY <1>3, Blanks DEF RequestType, Steps
  <1>5. /\ a.op = op /\ a.arg = arg /\ a.step = step /\ a.password = None /\ a.result = "none"
        /\ a.spared = FALSE
    BY Blanks DEF RequestType
  <1>. HIDE DEF a
  <1>6. x \in RequestType
    BY <1>2, <1>3, <1>4 DEF RequestType
  <1>7. /\ x.op = op /\ x.arg = arg /\ x.step = step /\ x.password = None /\ x.result = "none"
        /\ x.spared = FALSE
    BY <1>4, <1>5 DEF RequestType
  <1>. HIDE DEF x
  <1>. QED  BY <1>1, <1>3, <1>6, <1>7 DEF Fresh

LEMMA SecondSent ==
    ASSUME Typed, NEW r \in Request, NEW arg \in Code,
           NEW op \in Ops
    PROVE  Fresh(Sent(r, op, arg, TRUE), op, arg)
  <1>. DEFINE step   == IF op \in NeedsJwt THEN "arrive" ELSE "read"
              signed == B(T(r)) \in access
              k      == cookie[B(T(r))]
              a == [[[IdleReq EXCEPT !.op = op] EXCEPT !.step = step] EXCEPT !.arg = arg]
              x == [[[a EXCEPT !.retried = TRUE] EXCEPT !.access = signed] EXCEPT !.token = k]
  <1>1. Sent(r, op, arg, TRUE) = x
    BY Zenon DEF Sent
  <1>2. k \in Tokens \cup {None}
    BY Places DEF Typed, Panel
  <1>3. step \in {"arrive", "read"} /\ signed \in BOOLEAN
    OBVIOUS
  <1>. HIDE DEF step, signed, k
  <1>4. a \in RequestType
    BY <1>3, Blanks DEF RequestType, Steps
  <1>5. /\ a.op = op /\ a.arg = arg /\ a.step = step /\ a.password = None /\ a.result = "none"
        /\ a.spared = FALSE
    BY Blanks DEF RequestType
  <1>. HIDE DEF a
  <1>6. x \in RequestType
    BY <1>2, <1>3, <1>4 DEF RequestType
  <1>7. /\ x.op = op /\ x.arg = arg /\ x.step = step /\ x.password = None /\ x.result = "none"
        /\ x.spared = FALSE
    BY <1>4, <1>5 DEF RequestType
  <1>. HIDE DEF x
  <1>. QED  BY <1>1, <1>3, <1>6, <1>7 DEF Fresh

-----------------------------------------------------------------------------
(***************************************************************************)
(* Types: what changes nothing but one request.                            *)
(***************************************************************************)
\* What an answer to a login carries was issued.
Answers(v) == v.result = "ok" /\ v.op \in {"login", "mfa"} => IsIssued(v.born)

\* v is the request x further on.
Further(v, x) == /\ v.op = x.op /\ v.arg = x.arg /\ v.born = x.born /\ v.spared = x.spared
                 /\ v.retried = x.retried /\ v.token = x.token /\ v.lost = x.lost

LEMMA GotoFact ==
    ASSUME Typed, NEW r \in Request, NEW s \in Steps, Goto(r, s)
    PROVE  \E v \in RequestType :
               /\ req' = [req EXCEPT ![r] = v] /\ v.step = s /\ Further(v, req[r])
               /\ v.password = req[r].password /\ v.result = req[r].result
               /\ v.codes = req[r].codes
  <1>. DEFINE v == [req[r] EXCEPT !.step = s]
  <1>1. req[r] \in RequestType
    BY DEF Typed, Calls
  <1>2. v \in RequestType
    BY <1>1 DEF RequestType
  <1>3. v.step = s /\ Further(v, req[r])
    BY <1>1 DEF RequestType, Further
  <1>4. v.password = req[r].password /\ v.result = req[r].result /\ v.codes = req[r].codes
    BY <1>1 DEF RequestType
  <1>5. req' = [req EXCEPT ![r] = v]
    BY Zenon DEF Goto
  <1>. HIDE DEF v
  <1>. QED  BY <1>2, <1>3, <1>4, <1>5

LEMMA RespondFact ==
    ASSUME Typed, NEW r \in Request, NEW x \in {"ok", "400", "401", "ticket"}, Respond(r, x)
    PROVE  \E v \in RequestType :
               /\ req' = [req EXCEPT ![r] = v] /\ v.step = "answer" /\ Further(v, req[r])
               /\ v.password = req[r].password /\ v.result = x
               /\ v.codes = req[r].codes
  <1>. DEFINE v == [[req[r] EXCEPT !.step = "answer"] EXCEPT !.result = x]
  <1>1. req[r] \in RequestType
    BY DEF Typed, Calls
  <1>2. v \in RequestType
    BY <1>1 DEF RequestType, Steps
  <1>3. v.step = "answer" /\ Further(v, req[r])
    BY <1>1 DEF RequestType, Further
  <1>4. v.password = req[r].password /\ v.result = x /\ v.codes = req[r].codes
    BY <1>1 DEF RequestType
  <1>5. req' = [req EXCEPT ![r] = v]
    BY Zenon DEF Respond
  <1>. HIDE DEF v
  <1>. QED  BY <1>2, <1>3, <1>4, <1>5

LEMMA OnlyRequest ==
    ASSUME Typed, NEW r \in Request, NEW v \in RequestType, v.password <= user.password,
           Answers(v), req' = [req EXCEPT ![r] = v], UNCHANGED <<server, browser, renewal>>,
           budget' \in [Kinds -> Nat]
    PROVE  Typed'
  <1>1. UNCHANGED <<user, token, access, cookie, page, ticket, renewal>>
    BY DEF server, browser
  <1>2. Rows' /\ Panel'
    BY <1>1 DEF Typed, Rows, Panel
  <1>3. Calls'
    BY <1>1, MoveRequest DEF Typed, Calls
  <1>4. AllIssued'
    <2>1. req'[r] = v /\ \A q \in Request \ {r} : req'[q] = req[q]
      BY MoveRequest
    <2>. QED  BY <1>1, <2>1 DEF Typed, AllIssued, IsIssued, Answers
  <1>. QED  BY <1>2, <1>3, <1>4 DEF Typed

LEMMA AskTyped ==
    ASSUME Typed, NEW r \in Request, NEW op \in Ops, NEW arg \in Code, NEW kind \in Kinds,
           Ask(r, op, arg, kind)
    PROVE  Typed'
  <1>1. budget' \in [Kinds -> Nat]
    BY Spent DEF Ask
  <1>. DEFINE v == Sent(r, op, arg, FALSE)
  <1>2. Fresh(v, op, arg)
    BY FirstSent
  <1>3. req' = [req EXCEPT ![r] = v] /\ UNCHANGED <<server, browser, renewal>>
    BY Zenon DEF Ask
  <1>. HIDE DEF v
  <1>4. v \in RequestType /\ v.password <= user.password
    BY <1>2 DEF Fresh, Typed, Rows, UserType, None
  <1>5. Answers(v)
    BY <1>2 DEF Fresh, Answers
  <1>. QED  BY <1>1, <1>3, <1>4, <1>5, OnlyRequest

\* A tab that sends something asks.
Asks(r) == \E op \in Ops, arg \in Code, kind \in Kinds : Ask(r, op, arg, kind)

LEMMA StartsAsk == ASSUME Typed, NEW r \in Request, Starts(r) PROVE Asks(r)
  <1>0. /\ None \in Nat /\ user.password \in Nat /\ user.setups \in Nat /\ user.links \in Nat
        /\ \A j \in 0 .. RecoveryCodes : j \in Nat
    BY AuthAssumption DEF Typed, Rows, UserType, None
  <1>1. CASE Use(r)
    <2>1. Totp(None) \in Code
      BY <1>0, CodeFact
    <2>. QED  BY <1>1, <2>1 DEF Asks, Use, Ops, Kinds
  <1>2. CASE Login(r)
    <2>1. PICK p \in 1 .. user.password : Ask(r, "login", Totp(p), "login")
      BY <1>2 DEF Login
    <2>2. Totp(p) \in Code
      BY <1>0 DEF Totp, Code
    <2>. QED  BY <2>1, <2>2 DEF Asks, Ops, Kinds
  <1>3. CASE Logout(r)
    <2>1. Totp(None) \in Code
      BY <1>0, CodeFact
    <2>. QED  BY <1>3, <2>1 DEF Asks, Logout, Ops, Kinds
  <1>4. CASE Verify(r)
    <2>1. PICK c \in {Totp(user.setups)} \cup CodesOf(user.setups) : Ask(r, "mfa", c, "factor")
      BY <1>4 DEF Verify
    <2>2. c \in Code
      BY <1>0, CodeFact
    <2>. QED  BY <2>1, <2>2 DEF Asks, Ops, Kinds
  <1>5. CASE Secure(r)
    <2>1. CASE Ask(r, "setup", Totp(None), "factor")
      <3>1. Totp(None) \in Code
        BY <1>0, CodeFact
      <3>. QED  BY <2>1, <3>1 DEF Asks, Ops, Kinds
    <2>2. ASSUME NEW op \in {"enable", "disable"}, NEW n \in 1 .. user.setups,
                 NEW j \in 0 .. RecoveryCodes, Ask(r, op, <<n, j>>, "factor")
          PROVE  Asks(r)
      <3>1. <<n, j>> \in Code
        BY <1>0 DEF Code
      <3>. QED  BY <2>2, <3>1 DEF Asks, Ops, Kinds
    <2>. QED  BY <1>5, <2>1, <2>2 DEF Secure
  <1>6. CASE Forgot(r)
    <2>1. Totp(None) \in Code
      BY <1>0, CodeFact
    <2>. QED  BY <1>6, <2>1 DEF Asks, Forgot, Ops, Kinds
  <1>7. CASE Reset(r)
    <2>1. PICK n \in 1 .. user.links : Ask(r, "reset", Totp(n), "link")
      BY <1>7 DEF Reset
    <2>2. Totp(n) \in Code
      BY <1>0 DEF Totp, Code
    <2>. QED  BY <2>1, <2>2 DEF Asks, Ops, Kinds
  <1>. QED  BY <1>1, <1>2, <1>3, <1>4, <1>5, <1>6, <1>7 DEF Starts

LEMMA StartsTyped == ASSUME Typed, NEW r \in Request, Starts(r) PROVE Typed'
  BY StartsAsk, AskTyped DEF Asks

-----------------------------------------------------------------------------
(***************************************************************************)
(* The handlers that only read.                                            *)
(***************************************************************************)
\* A request passes its check, or takes a recovery code out of those it read.
Passed(r, s)    == req' = [req EXCEPT ![r].step = s, ![r].password = user.password]
Taken(r, codes) == req' = [req EXCEPT ![r].step = "remove", ![r].codes = codes,
                                      ![r].password = user.password]

LEMMA PassedFact ==
    ASSUME Typed, NEW r \in Request, NEW s \in Steps, Passed(r, s)
    PROVE  \E v \in RequestType :
               /\ req' = [req EXCEPT ![r] = v] /\ v.step = s /\ Further(v, req[r])
               /\ v.password = user.password /\ v.result = req[r].result
               /\ v.codes = req[r].codes
  <1>. DEFINE v == [[req[r] EXCEPT !.step = s] EXCEPT !.password = user.password]
  <1>1. req[r] \in RequestType /\ user.password \in Nat
    BY DEF Typed, Calls, Rows, UserType
  <1>2. v \in RequestType
    BY <1>1 DEF RequestType
  <1>3. v.step = s /\ Further(v, req[r])
    BY <1>1 DEF RequestType, Further
  <1>4. v.password = user.password /\ v.result = req[r].result /\ v.codes = req[r].codes
    BY <1>1 DEF RequestType
  <1>5. req' = [req EXCEPT ![r] = v]
    BY Zenon DEF Passed
  <1>. HIDE DEF v
  <1>. QED  BY <1>2, <1>3, <1>4, <1>5

LEMMA TakenFact ==
    ASSUME Typed, NEW r \in Request, NEW codes \in SUBSET Code, Taken(r, codes)
    PROVE  \E v \in RequestType :
               /\ req' = [req EXCEPT ![r] = v] /\ v.step = "remove" /\ Further(v, req[r])
               /\ v.password = user.password /\ v.result = req[r].result
               /\ v.codes = codes
  <1>. DEFINE v == [[[req[r] EXCEPT !.step = "remove"] EXCEPT !.codes = codes]
                       EXCEPT !.password = user.password]
  <1>1. req[r] \in RequestType /\ user.password \in Nat
    BY DEF Typed, Calls, Rows, UserType
  <1>2. v \in RequestType
    BY <1>1 DEF RequestType, Steps
  <1>3. v.step = "remove" /\ Further(v, req[r])
    BY <1>1 DEF RequestType, Further
  <1>4. v.password = user.password /\ v.result = req[r].result /\ v.codes = codes
    BY <1>1 DEF RequestType
  <1>5. req' = [req EXCEPT ![r] = v]
    BY Zenon DEF Taken
  <1>. HIDE DEF v
  <1>. QED  BY <1>2, <1>3, <1>4, <1>5

\* A handler that reads sends its request on, answers it, or holds on to what it read.
Reading(r) ==
    /\ UNCHANGED <<server, browser, renewal, budget, history>>
    /\ \/ \E s \in {"revoke", "read", "write"} : Goto(r, s)
       \/ \E x \in {"400", "401", "ticket"} : Respond(r, x)
       \/ req[r].op = "get" /\ Respond(r, "ok")
       \/ \E s \in Steps : Passed(r, s)
       \/ Taken(r, user.codes \ {req[r].arg})

Reads(r) == \/ Validate(r) \/ ReadLogin(r) \/ ReadSetup(r) \/ ReadEnable(r) \/ ReadDisable(r)
            \/ ReadMfaLogin(r) \/ ReadReset(r)

LEMMA ReadsRead == ASSUME NEW r \in Request, Reads(r) PROVE Reading(r)
  <1>1. CASE Validate(r)
    BY <1>1 DEF Validate, Reading
  <1>2. CASE ReadLogin(r)
    <2>1. "issue" \in Steps
      BY DEF Steps
    <2>. QED  BY <1>2, <2>1 DEF ReadLogin, Passed, Reading
  <1>3. CASE ReadSetup(r) \/ ReadEnable(r) \/ ReadReset(r)
    BY <1>3 DEF ReadSetup, ReadEnable, ReadReset, Reading
  <1>4. CASE ReadDisable(r)
    <2>1. "write" \in Steps
      BY DEF Steps
    <2>. QED  BY <1>4, <2>1 DEF ReadDisable, VerifyTotpOrBackupCode, Passed, Taken, Reading
  <1>5. CASE ReadMfaLogin(r)
    <2>1. "issue" \in Steps
      BY DEF Steps
    <2>. QED  BY <1>5, <2>1 DEF ReadMfaLogin, VerifyTotpOrBackupCode, Passed, Taken, Reading
  <1>. QED  BY <1>1, <1>2, <1>3, <1>4, <1>5 DEF Reads

LEMMA ReadingTyped == ASSUME Typed, NEW r \in Request, Reading(r) PROVE Typed'
  <1>1. /\ UNCHANGED <<server, browser, renewal>> /\ budget' \in [Kinds -> Nat]
        /\ req[r].password <= user.password /\ user.password \in Nat
        /\ Answers(req[r])
    BY DEF Reading, Typed, Panel, Calls, Rows, UserType, AllIssued, Answers
  <1>2. ASSUME NEW s \in {"revoke", "read", "write"}, Goto(r, s) PROVE Typed'
    <2>0. s \in Steps
      BY DEF Steps
    <2>1. PICK v \in RequestType :
               /\ req' = [req EXCEPT ![r] = v] /\ v.step = s /\ Further(v, req[r])
               /\ v.password = req[r].password /\ v.result = req[r].result
      BY <1>2, <2>0, GotoFact
    <2>2. Answers(v)
      BY <1>1, <2>1 DEF Answers, Further
    <2>. QED  BY <1>1, <2>1, <2>2, OnlyRequest
  <1>3. ASSUME NEW x \in {"400", "401", "ticket"}, Respond(r, x) PROVE Typed'
    <2>1. PICK v \in RequestType :
               /\ req' = [req EXCEPT ![r] = v] /\ v.password = req[r].password /\ v.result = x
      BY <1>3, RespondFact
    <2>2. Answers(v)
      BY <2>1 DEF Answers
    <2>. QED  BY <1>1, <2>1, <2>2, OnlyRequest
  <1>4. CASE req[r].op = "get" /\ Respond(r, "ok")
    <2>1. PICK v \in RequestType :
               /\ req' = [req EXCEPT ![r] = v] /\ v.password = req[r].password
               /\ Further(v, req[r])
      BY <1>4, RespondFact
    <2>2. Answers(v)
      BY <1>4, <2>1 DEF Answers, Further
    <2>. QED  BY <1>1, <2>1, <2>2, OnlyRequest
  <1>5. ASSUME NEW s \in Steps, Passed(r, s) PROVE Typed'
    <2>1. PICK v \in RequestType :
               /\ req' = [req EXCEPT ![r] = v] /\ v.step = s /\ Further(v, req[r])
               /\ v.password = user.password /\ v.result = req[r].result
      BY <1>5, PassedFact
    <2>2. Answers(v) /\ v.password <= user.password
      BY <1>1, <2>1 DEF Answers, Further
    <2>. QED  BY <1>1, <2>1, <2>2, OnlyRequest
  <1>6. CASE Taken(r, user.codes \ {req[r].arg})
    <2>1. user.codes \ {req[r].arg} \in SUBSET Code
      BY DEF Typed, Rows, UserType
    <2>2. PICK v \in RequestType :
               /\ req' = [req EXCEPT ![r] = v] /\ Further(v, req[r])
               /\ v.password = user.password /\ v.result = req[r].result
      BY <1>6, <2>1, TakenFact
    <2>3. Answers(v) /\ v.password <= user.password
      BY <1>1, <2>2 DEF Answers, Further
    <2>. QED  BY <1>1, <2>2, <2>3, OnlyRequest
  <1>. QED  BY <1>2, <1>3, <1>4, <1>5, <1>6 DEF Reading

-----------------------------------------------------------------------------
(***************************************************************************)
(* The handlers that write.  What the rows may do in a step: the password  *)
(* only grows, and an issued token stays one.                              *)
(***************************************************************************)
ServerMoves ==
    /\ user' \in UserType /\ user'.secret <= user'.setups /\ user'.link <= user'.links
    /\ user.password <= user'.password
    /\ token' \in [Tokens -> TokenType]
    /\ \A k \in Tokens : /\ token'[k].password <= user'.password
                         /\ token[k].state # "none" => token'[k].state # "none"

LEMMA ServerStays == ASSUME Typed, UNCHANGED server PROVE ServerMoves
  BY DEF Typed, Rows, ServerMoves, server, UserType

LEMMA UserMoves ==
    ASSUME Typed, UNCHANGED token, user' \in UserType, user'.secret <= user'.setups,
           user'.link <= user'.links, user.password <= user'.password
    PROVE  ServerMoves
  <1>1. user.password \in Nat /\ user'.password \in Nat
        /\ \A k \in Tokens : token[k].password \in Nat /\ token[k].password <= user.password
    BY DEF Typed, Rows, UserType, TokenType
  <1>. QED  BY <1>1 DEF Typed, Rows, ServerMoves

LEMMA TokensMove ==
    ASSUME Typed, UNCHANGED user, token' \in [Tokens -> TokenType],
           \A k \in Tokens : /\ token'[k].password <= user.password
                             /\ token[k].state # "none" => token'[k].state # "none"
    PROVE  ServerMoves
  BY DEF Typed, Rows, ServerMoves, UserType

LEMMA RowsMove ==
    ASSUME Typed, ServerMoves
    PROVE  /\ Rows'
           /\ \A k \in Tokens : IsIssued(k) => IsIssued(k)'
           /\ \A n \in Nat : n <= user.password => n <= user'.password
  BY DEF Typed, Rows, ServerMoves, IsIssued, UserType

LEMMA IssueFact ==
    ASSUME Typed, NEW password \in Nat, NEW spared \in BOOLEAN, password <= user.password,
           IssueTokens(password, spared), UNCHANGED user
    PROVE  /\ ServerMoves
           /\ Next1 \in Tokens /\ token'[Next1].state = "live"
           /\ token'[Next1].password = password /\ token'[Next1].spared = spared
           /\ \A k \in Tokens \ {Next1} : token'[k] = token[k]
  <1>. DEFINE v == [state |-> "live", password |-> password, spared |-> spared]
  <1>1. v \in TokenType /\ v.state = "live" /\ v.password = password /\ v.spared = spared
    BY DEF TokenType
  <1>2. token' = [token EXCEPT ![Next1] = v] /\ Next1 \in Tokens
    BY DEF IssueTokens
  <1>. HIDE DEF v, Next1
  <1>3. token \in [Tokens -> TokenType] /\ \A k \in Tokens : token[k].password <= user.password
    BY DEF Typed, Rows
  <1>4. token' \in [Tokens -> TokenType]
    BY <1>1, <1>2, <1>3
  <1>5. token'[Next1] = v /\ \A k \in Tokens \ {Next1} : token'[k] = token[k]
    BY <1>2, <1>3
  <1>6. \A k \in Tokens : /\ token'[k].password <= user.password
                          /\ token[k].state # "none" => token'[k].state # "none"
    BY <1>1, <1>3, <1>5
  <1>. QED  BY <1>1, <1>2, <1>4, <1>5, <1>6, TokensMove

\* Tokens are revoked, none otherwise changed.
Revoked(k) == token[k].state # "none" /\ token'[k] = [token[k] EXCEPT !.state = "revoked"]

LEMMA RevokedFact ==
    ASSUME Typed, NEW k \in Tokens, Revoked(k)
    PROVE  /\ token'[k] \in TokenType /\ token'[k].state = "revoked"
           /\ token'[k].password = token[k].password /\ token'[k].spared = token[k].spared
  <1>1. token[k] \in TokenType
    BY DEF Typed, Rows
  <1>. QED  BY <1>1 DEF Revoked, TokenType

LEMMA RevokeMoves ==
    ASSUME Typed, UNCHANGED user, DOMAIN token' = Tokens, token' = [k \in Tokens |-> token'[k]],
           \A k \in Tokens : token'[k] = token[k] \/ Revoked(k)
    PROVE  ServerMoves
  <1>1. token \in [Tokens -> TokenType] /\ \A k \in Tokens : token[k].password <= user.password
    BY DEF Typed, Rows
  <1>2. \A k \in Tokens : token'[k] \in TokenType
    BY <1>1, RevokedFact
  <1>3. \A k \in Tokens : /\ token'[k].password <= user.password
                          /\ token[k].state # "none" => token'[k].state # "none"
    BY <1>1, RevokedFact
  <1>. QED  BY <1>2, <1>3, TokensMove

LEMMA RevokeAllMoves ==
    ASSUME Typed, RevokeAll, UNCHANGED user
    PROVE  /\ ServerMoves
           /\ \A k \in Tokens : token'[k].state \in {"none", "revoked"}
  <1>1. \A k \in Tokens : \/ token'[k] = token[k] /\ token[k].state = "none"
                          \/ Revoked(k)
    BY DEF RevokeAll, Revoked
  <1>2. DOMAIN token' = Tokens /\ token' = [k \in Tokens |-> token'[k]]
    BY DEF RevokeAll
  <1>3. \A k \in Tokens : token'[k].state \in {"none", "revoked"}
    BY <1>1, RevokedFact
  <1>. QED  BY <1>1, <1>2, <1>3, RevokeMoves

LEMMA RequestAndServer ==
    ASSUME Typed, NEW r \in Request, NEW v \in RequestType, v.password <= user'.password,
           ServerMoves, Answers(v)', req' = [req EXCEPT ![r] = v],
           UNCHANGED <<browser, renewal, budget>>
    PROVE  Typed'
  <1>1. UNCHANGED <<access, cookie, page, ticket, renewal, budget>>
    BY DEF browser
  <1>2. /\ Rows' /\ \A k \in Tokens : IsIssued(k) => IsIssued(k)'
        /\ \A n \in Nat : n <= user.password => n <= user'.password
    BY RowsMove
  <1>3. req'[r] = v /\ \A q \in Request \ {r} : req'[q] = req[q]
    BY DEF Typed, Calls
  <1>4. req' \in [Request -> RequestType]
    BY DEF Typed, Calls
  <1>5. \A q \in Request : req'[q].password <= user'.password
    <2>1. \A q \in Request : req[q].password \in Nat /\ req[q].password <= user.password
      BY DEF Typed, Calls, RequestType
    <2>. QED  BY <1>2, <1>3, <2>1
  <1>6. Calls'
    <2>1. \A t \in Tab : renewal[t].password \in Nat /\ renewal[t].password <= user.password
      BY DEF Typed, Calls, RenewalType
    <2>. QED  BY <1>1, <1>2, <1>4, <1>5, <2>1 DEF Typed, Calls
  <1>7. Panel'
    BY <1>1 DEF Typed, Panel
  <1>8. AllIssued'
    <2>1. \A k : IsIssued(k) => IsIssued(k)'
      BY <1>2 DEF IsIssued
    <2>. QED  BY <1>1, <1>3, <2>1 DEF Typed, AllIssued, Answers
  <1>. QED  BY <1>2, <1>6, <1>7, <1>8 DEF Typed

\* A call that answers what no login waits for.
LEMMA RespondTyped ==
    ASSUME Typed, NEW r \in Request, Respond(r, "ok"), req[r].op \notin {"login", "mfa"},
           ServerMoves, UNCHANGED <<browser, renewal, budget>>
    PROVE  Typed'
  <1>1. PICK v \in RequestType :
            /\ req' = [req EXCEPT ![r] = v] /\ v.password = req[r].password
            /\ Further(v, req[r])
    BY RespondFact
  <1>2. Answers(v)'
    BY <1>1 DEF Answers, Further
  <1>3. v.password <= user'.password
    <2>1. req[r].password \in Nat /\ req[r].password <= user.password
      BY DEF Typed, Calls, RequestType
    <2>. QED  BY <1>1, <2>1, RowsMove
  <1>. QED  BY <1>1, <1>2, <1>3, RequestAndServer

LEMMA GotoTyped ==
    ASSUME Typed, NEW r \in Request, NEW s \in Steps, Goto(r, s), ServerMoves,
           UNCHANGED <<browser, renewal, budget>>
    PROVE  Typed'
  <1>1. PICK v \in RequestType :
            /\ req' = [req EXCEPT ![r] = v] /\ v.password = req[r].password
            /\ Further(v, req[r]) /\ v.result = req[r].result
    BY GotoFact
  <1>2. Answers(v)'
    <2>1. Answers(req[r])
      BY DEF Typed, AllIssued, Answers
    <2>. QED  BY <1>1, <2>1, RowsMove DEF Answers, Further, IsIssued
  <1>3. v.password <= user'.password
    <2>1. req[r].password \in Nat /\ req[r].password <= user.password
      BY DEF Typed, Calls, RequestType
    <2>. QED  BY <1>1, <2>1, RowsMove
  <1>. QED  BY <1>1, <1>2, <1>3, RequestAndServer

LEMMA IssuedFact ==
    ASSUME Typed, NEW r \in Request, Issue(r)
    PROVE  \E v \in RequestType :
               /\ req' = [req EXCEPT ![r] = v] /\ v.op = req[r].op /\ v.step = "answer"
               /\ v.password = req[r].password /\ v.born = Next1
  <1>. DEFINE v == [[[req[r] EXCEPT !.step = "answer"] EXCEPT !.result = "ok"]
                       EXCEPT !.born = Next1]
  <1>1. req[r] \in RequestType /\ Next1 \in Tokens
    BY DEF Typed, Calls, Issue, IssueTokens
  <1>5. req' = [req EXCEPT ![r] = v]
    BY Zenon DEF Issue
  <1>. HIDE DEF Next1
  <1>2. v \in RequestType
    BY <1>1 DEF RequestType, Steps
  <1>3. v.op = req[r].op /\ v.step = "answer" /\ v.password = req[r].password /\ v.born = Next1
    BY <1>1 DEF RequestType
  <1>. HIDE DEF v
  <1>. QED  BY <1>2, <1>3, <1>5

LEMMA IssueTyped == ASSUME Typed, NEW r \in Request, Issue(r) PROVE Typed'
  <1>1. PICK v \in RequestType :
            /\ req' = [req EXCEPT ![r] = v] /\ v.password = req[r].password /\ v.born = Next1
    BY IssuedFact
  <1>2. /\ IssueTokens(req[r].password, req[r].spared)
        /\ UNCHANGED <<user, browser, renewal, budget>>
    BY DEF Issue
  <1>3. /\ req[r].password \in Nat /\ req[r].spared \in BOOLEAN
        /\ req[r].password <= user.password
    BY DEF Typed, Calls, RequestType
  <1>4. /\ ServerMoves /\ Next1 \in Tokens /\ token'[Next1].state = "live"
    BY <1>2, <1>3, IssueFact
  <1>5. Answers(v)'
    BY <1>1, <1>4 DEF Answers, IsIssued
  <1>6. v.password <= user'.password
    BY <1>1, <1>2, <1>3
  <1>. QED  BY <1>1, <1>2, <1>4, <1>5, <1>6, RequestAndServer

LEMMA UserWrites ==
    ASSUME Typed, NEW r \in Request,
           \/ WriteSetup(r) \/ WriteEnable(r) \/ RemoveCode(r) \/ WriteDisable(r)
           \/ WriteLink(r) \/ WriteReset(r)
    PROVE  ServerMoves
  <1>0. /\ user \in UserType /\ user.secret <= user.setups /\ user.link <= user.links
        /\ req[r] \in RequestType
    BY DEF Typed, Rows, Calls
  <1>1. CASE WriteSetup(r)
    <2>. DEFINE n == user.setups + 1
                u == [[[user EXCEPT !.secret = n] EXCEPT !.setups = n] EXCEPT !.codes = CodesOf(n)]
    <2>1. user' = u /\ UNCHANGED token
      BY <1>1, Zenon DEF WriteSetup
    <2>2. n \in Nat /\ CodesOf(n) \in SUBSET Code /\ None \in Nat
      BY <1>0, CodeFact DEF UserType, None
    <2>. HIDE DEF n
    <2>3. u \in UserType
      BY <1>0, <2>2 DEF UserType
    <2>4. u.secret = n /\ u.setups = n /\ u.link = user.link /\ u.links = user.links
          /\ u.password = user.password
      BY <1>0 DEF UserType
    <2>. HIDE DEF u
    <2>5. u.secret <= u.setups /\ u.link <= u.links /\ user.password <= u.password
      BY <1>0, <2>2, <2>4 DEF UserType
    <2>. QED  BY <2>1, <2>3, <2>5, UserMoves
  <1>2. CASE WriteEnable(r)
    <2>1. user' = [user EXCEPT !.totp = TRUE] /\ UNCHANGED token
      BY <1>2 DEF WriteEnable
    <2>2. user' \in UserType /\ user'.secret = user.secret /\ user'.setups = user.setups
          /\ user'.link = user.link /\ user'.links = user.links /\ user'.password = user.password
      BY <1>0, <2>1 DEF UserType
    <2>3. user.password <= user'.password
      BY <1>0, <2>2 DEF UserType
    <2>. QED  BY <1>0, <2>1, <2>2, <2>3, UserMoves
  <1>3. CASE RemoveCode(r)
    <2>1. user' = [user EXCEPT !.codes = req[r].codes] /\ UNCHANGED token
      BY <1>3 DEF RemoveCode
    <2>2. req[r].codes \in SUBSET Code
      BY <1>0 DEF RequestType
    <2>3. user' \in UserType /\ user'.secret = user.secret /\ user'.setups = user.setups
          /\ user'.link = user.link /\ user'.links = user.links /\ user'.password = user.password
      BY <1>0, <2>1, <2>2 DEF UserType
    <2>4. user.password <= user'.password
      BY <1>0, <2>3 DEF UserType
    <2>. QED  BY <1>0, <2>1, <2>3, <2>4, UserMoves
  <1>4. CASE WriteDisable(r)
    <2>. DEFINE u == [[[user EXCEPT !.totp = FALSE] EXCEPT !.secret = None] EXCEPT !.codes = {}]
    <2>1. user' = u /\ UNCHANGED token
      BY <1>4, Zenon DEF WriteDisable
    <2>2. None \in Nat /\ {} \in SUBSET Code /\ FALSE \in BOOLEAN
      BY DEF None
    <2>3. u \in UserType
      BY <1>0, <2>2 DEF UserType
    <2>4. u.secret = None /\ u.setups = user.setups /\ u.link = user.link /\ u.links = user.links
          /\ u.password = user.password
      BY <1>0 DEF UserType
    <2>. HIDE DEF u
    <2>5. u.secret <= u.setups /\ u.link <= u.links /\ user.password <= u.password
      BY <1>0, <2>4 DEF UserType, None
    <2>. QED  BY <2>1, <2>3, <2>5, UserMoves
  <1>5. CASE WriteLink(r)
    <2>. DEFINE n == user.links + 1
                u == [[[user EXCEPT !.link = n] EXCEPT !.links = n] EXCEPT !.linkFresh = TRUE]
    <2>1. user' = u /\ UNCHANGED token
      BY <1>5, Zenon DEF WriteLink
    <2>2. n \in Nat /\ TRUE \in BOOLEAN
      BY <1>0 DEF UserType
    <2>. HIDE DEF n
    <2>3. u \in UserType
      BY <1>0, <2>2 DEF UserType
    <2>4. u.secret = user.secret /\ u.setups = user.setups /\ u.link = n /\ u.links = n
          /\ u.password = user.password
      BY <1>0 DEF UserType
    <2>. HIDE DEF u
    <2>5. u.secret <= u.setups /\ u.link <= u.links /\ user.password <= u.password
      BY <1>0, <2>2, <2>4 DEF UserType
    <2>. QED  BY <2>1, <2>3, <2>5, UserMoves
  <1>6. CASE WriteReset(r)
    <2>. DEFINE n == user.password + 1
                u == [[user EXCEPT !.password = n] EXCEPT !.link = None]
    <2>1. user' = u /\ UNCHANGED token
      BY <1>6, Zenon DEF WriteReset
    <2>2. n \in Nat /\ None \in Nat /\ user.password <= n
      BY <1>0 DEF UserType, None
    <2>. HIDE DEF n
    <2>3. u \in UserType
      BY <1>0, <2>2 DEF UserType
    <2>4. u.secret = user.secret /\ u.setups = user.setups /\ u.link = None
          /\ u.links = user.links /\ u.password = n
      BY <1>0 DEF UserType
    <2>. HIDE DEF u
    <2>5. u.secret <= u.setups /\ u.link <= u.links /\ user.password <= u.password
      BY <1>0, <2>2, <2>4 DEF UserType, None
    <2>. QED  BY <2>1, <2>3, <2>5, UserMoves
  <1>. QED  BY <1>1, <1>2, <1>3, <1>4, <1>5, <1>6

Writes(r) == \/ WriteSetup(r) \/ WriteEnable(r) \/ RemoveCode(r) \/ WriteDisable(r)
             \/ WriteLink(r) \/ WriteReset(r)

LEMMA WritesTyped == ASSUME Typed, NEW r \in Request, Writes(r) PROVE Typed'
  <1>1. ServerMoves
    BY UserWrites DEF Writes
  <1>2. UNCHANGED <<browser, renewal, budget>>
    BY DEF Writes, WriteSetup, WriteEnable, RemoveCode, WriteDisable, WriteLink, WriteReset
  <1>3. CASE WriteSetup(r) \/ WriteEnable(r) \/ WriteDisable(r) \/ WriteLink(r)
    <2>1. Respond(r, "ok") /\ req[r].op \notin {"login", "mfa"}
      BY <1>3 DEF WriteSetup, WriteEnable, WriteDisable, WriteLink
    <2>. QED  BY <1>1, <1>2, <2>1, RespondTyped
  <1>4. CASE RemoveCode(r) \/ WriteReset(r)
    <2>1. \E s \in Steps : Goto(r, s)
      BY <1>4 DEF RemoveCode, WriteReset, Steps
    <2>. QED  BY <1>1, <1>2, <2>1, GotoTyped
  <1>. QED  BY <1>3, <1>4 DEF Writes

LEMMA RevokePresentedTyped == ASSUME Typed, NEW r \in Request, RevokePresented(r) PROVE Typed'
  <1>1. /\ Respond(r, "ok") /\ req[r].op \notin {"login", "mfa"}
        /\ UNCHANGED <<user, browser, renewal, budget>>
    BY DEF RevokePresented
  <1>2. \A k \in Tokens : token'[k] = token[k] \/ Revoked(k)
    BY DEF RevokePresented, Revoked
  <1>3. DOMAIN token' = Tokens /\ token' = [k \in Tokens |-> token'[k]]
    BY DEF RevokePresented
  <1>4. ServerMoves
    BY <1>1, <1>2, <1>3, RevokeMoves
  <1>. QED  BY <1>1, <1>4, RespondTyped
\* The end of a reset touches every call: each keeps its record but for `spared`.
SparedBy(v, x) ==
    /\ v.op = x.op /\ v.arg = x.arg /\ v.step = x.step /\ v.password = x.password
    /\ v.result = x.result /\ v.born = x.born /\ v.codes = x.codes
    /\ (v.spared <=> (x.spared \/ Spared(x)))

LEMMA RevokeSessionsFact ==
    ASSUME Typed, NEW r \in Request, RevokeSessions(r)
    PROVE  /\ req' \in [Request -> RequestType] /\ renewal' \in [Tab -> RenewalType]
           /\ \A q \in Request \ {r} : SparedBy(req'[q], req[q])
           /\ \A t \in Tab : /\ renewal'[t].token = renewal[t].token
                             /\ renewal'[t].step = renewal[t].step
                             /\ renewal'[t].password = renewal[t].password
                             /\ renewal'[t].result = renewal[t].result
                             /\ renewal'[t].born = renewal[t].born
                             /\ (renewal'[t].spared
                                   <=> (renewal[t].spared \/ Spared(renewal[t])))
           /\ req'[r].step = "answer" /\ req'[r].op = "reset"
           /\ req'[r].password = req[r].password /\ req'[r].spared = req[r].spared
  <1>1. req \in [Request -> RequestType] /\ renewal \in [Tab -> RenewalType]
    BY DEF Typed, Calls
  <1>2. \A x : Spared(x) \in BOOLEAN
    BY DEF Spared
  <1>. DEFINE v(q) == IF q = r THEN [req[r] EXCEPT !.step = "answer", !.result = "ok"]
                      ELSE [req[q] EXCEPT !.spared = @ \/ Spared(req[q])]
              w(t) == [renewal[t] EXCEPT !.spared = @ \/ Spared(renewal[t])]
  <1>3. req' = [q \in Request |-> v(q)] /\ renewal' = [t \in Tab |-> w(t)]
    BY DEF RevokeSessions
  <1>4. ASSUME NEW q \in Request \ {r}
        PROVE  v(q) \in RequestType /\ SparedBy(v(q), req[q])
    <2>1. req[q] \in RequestType /\ v(q) = [req[q] EXCEPT !.spared = @ \/ Spared(req[q])]
      BY <1>1
    <2>2. v(q) \in RequestType
      BY <1>2, <2>1 DEF RequestType
    <2>3. /\ v(q).op = req[q].op /\ v(q).arg = req[q].arg /\ v(q).step = req[q].step
          /\ v(q).password = req[q].password
          /\ v(q).result = req[q].result /\ v(q).born = req[q].born /\ v(q).codes = req[q].codes
      BY <2>1 DEF RequestType
    <2>4. v(q).spared <=> (req[q].spared \/ Spared(req[q]))
      BY <2>1 DEF RequestType
    <2>. QED  BY <2>2, <2>3, <2>4 DEF SparedBy
  <1>5. v(r) \in RequestType
    BY <1>1 DEF RequestType, Steps
  <1>6. v(r).step = "answer" /\ v(r).op = "reset" /\ v(r).password = req[r].password
        /\ v(r).spared = req[r].spared
    <2>1. req[r] \in RequestType /\ req[r].op = "reset"
      BY <1>1 DEF RevokeSessions
    <2>. QED  BY <2>1 DEF RequestType
  <1>7. ASSUME NEW t \in Tab
        PROVE  /\ w(t) \in RenewalType /\ w(t).token = renewal[t].token
               /\ w(t).step = renewal[t].step /\ w(t).password = renewal[t].password
               /\ w(t).result = renewal[t].result /\ w(t).born = renewal[t].born
               /\ (w(t).spared <=> (renewal[t].spared \/ Spared(renewal[t])))
    <2>1. renewal[t] \in RenewalType
      BY <1>1
    <2>2. w(t) \in RenewalType
      BY <1>2, <2>1 DEF RenewalType
    <2>3. /\ w(t).token = renewal[t].token /\ w(t).step = renewal[t].step
          /\ w(t).password = renewal[t].password
          /\ w(t).result = renewal[t].result /\ w(t).born = renewal[t].born
      BY <2>1 DEF RenewalType
    <2>4. w(t).spared <=> (renewal[t].spared \/ Spared(renewal[t]))
      BY <2>1 DEF RenewalType
    <2>. QED  BY <2>2, <2>3, <2>4
  <1>. HIDE DEF v, w
  <1>8. req' \in [Request -> RequestType] /\ renewal' \in [Tab -> RenewalType]
    BY <1>3, <1>4, <1>5, <1>7
  <1>9. \A q \in Request : req'[q] = v(q)
    BY <1>3
  <1>10. \A t \in Tab : renewal'[t] = w(t)
    BY <1>3
  <1>11. \A q \in Request \ {r} : SparedBy(req'[q], req[q])
    BY <1>4, <1>9
  <1>. QED  BY <1>6, <1>7, <1>8, <1>9, <1>10, <1>11

LEMMA RevokeSessionsTyped == ASSUME Typed, NEW r \in Request, RevokeSessions(r) PROVE Typed'
  <1>1. UNCHANGED <<user, access, cookie, page, ticket, budget>> /\ RevokeAll
    BY DEF RevokeSessions, browser
  <1>2. /\ Rows' /\ \A k \in Tokens : IsIssued(k) => IsIssued(k)'
    BY <1>1, RevokeAllMoves, RowsMove
  <1>3. Calls'
    BY <1>1, RevokeSessionsFact DEF Typed, Calls, SparedBy
  <1>4. Panel'
    BY <1>1 DEF Typed, Panel
  <1>5. AllIssued'
    <2>1. \A k : IsIssued(k) => IsIssued(k)'
      BY <1>2 DEF IsIssued
    <2>2. /\ \A q \in Request \ {r} : /\ req'[q].result = req[q].result
                                      /\ req'[q].op = req[q].op
                                      /\ req'[q].born = req[q].born
          /\ req'[r].op = "reset"
          /\ \A u \in Tab : /\ renewal'[u].token = renewal[u].token
                            /\ renewal'[u].step = renewal[u].step
                            /\ renewal'[u].result = renewal[u].result
                            /\ renewal'[u].born = renewal[u].born
      BY RevokeSessionsFact DEF SparedBy
    <2>. QED  BY <1>1, <2>1, <2>2 DEF Typed, AllIssued
  <1>. QED  BY <1>2, <1>3, <1>4, <1>5 DEF Typed

-----------------------------------------------------------------------------
(***************************************************************************)
(* The refresh.                                                            *)
(***************************************************************************)
LEMMA RenewalAndServer ==
    ASSUME Typed, NEW t \in Tab, NEW v \in RenewalType, v.password <= user'.password,
           ServerMoves, v.token # None => IsIssued(v.token)',
           v.result = "ok" => IsIssued(v.born)', v.step = "update" => v.token # None,
           renewal' = [renewal EXCEPT ![t] = v], UNCHANGED <<browser, req, budget>>
    PROVE  Typed'
  <1>1. UNCHANGED <<access, cookie, page, ticket, req, budget>>
    BY DEF browser
  <1>2. /\ Rows' /\ \A k \in Tokens : IsIssued(k) => IsIssued(k)'
        /\ \A n \in Nat : n <= user.password => n <= user'.password
    BY RowsMove
  <1>3. renewal'[t] = v /\ \A u \in Tab \ {t} : renewal'[u] = renewal[u]
    BY DEF Typed, Calls
  <1>4. renewal' \in [Tab -> RenewalType]
    BY DEF Typed, Calls
  <1>5. \A u \in Tab : renewal'[u].password <= user'.password
    <2>1. \A u \in Tab : renewal[u].password \in Nat /\ renewal[u].password <= user.password
      BY DEF Typed, Calls, RenewalType
    <2>. QED  BY <1>2, <1>3, <2>1
  <1>6. Calls'
    <2>1. \A r \in Request : req[r].password \in Nat /\ req[r].password <= user.password
      BY DEF Typed, Calls, RequestType
    <2>. QED  BY <1>1, <1>2, <1>4, <1>5, <2>1 DEF Typed, Calls
  <1>7. Panel'
    BY <1>1 DEF Typed, Panel
  <1>8. AllIssued'
    <2>1. \A k : IsIssued(k) => IsIssued(k)'
      BY <1>2 DEF IsIssued
    <2>. QED  BY <1>1, <1>3, <2>1 DEF Typed, AllIssued
  <1>. QED  BY <1>2, <1>6, <1>7, <1>8 DEF Typed

\* v is the renewal x further on.
Ahead(v, x) == v.token = x.token /\ v.password = x.password /\ v.born = x.born

LEMMA RStepFact ==
    ASSUME Typed, NEW t \in Tab, NEW s \in {"none", "find", "family", "update", "issue", "answer"},
           RStep(t, s)
    PROVE  \E v \in RenewalType :
               /\ renewal' = [renewal EXCEPT ![t] = v] /\ v.step = s /\ Ahead(v, renewal[t])
               /\ v.result = renewal[t].result /\ (v.spared <=> renewal[t].spared)
  <1>. DEFINE v == [renewal[t] EXCEPT !.step = s]
  <1>1. renewal[t] \in RenewalType
    BY DEF Typed, Calls
  <1>2. v \in RenewalType
    BY <1>1 DEF RenewalType
  <1>3. v.step = s /\ Ahead(v, renewal[t]) /\ v.result = renewal[t].result
    BY <1>1 DEF RenewalType, Ahead
  <1>4. v.spared <=> renewal[t].spared
    BY <1>1 DEF RenewalType
  <1>5. renewal' = [renewal EXCEPT ![t] = v]
    BY Zenon DEF RStep
  <1>. HIDE DEF v
  <1>. QED  BY <1>2, <1>3, <1>4, <1>5

LEMMA RRespondFact ==
    ASSUME Typed, NEW t \in Tab, NEW x \in {"none", "ok", "401"}, RRespond(t, x)
    PROVE  \E v \in RenewalType :
               /\ renewal' = [renewal EXCEPT ![t] = v] /\ v.step = "answer"
               /\ Ahead(v, renewal[t]) /\ v.result = x
  <1>. DEFINE v == [[renewal[t] EXCEPT !.step = "answer"] EXCEPT !.result = x]
  <1>1. renewal[t] \in RenewalType
    BY DEF Typed, Calls
  <1>2. v \in RenewalType
    BY <1>1 DEF RenewalType
  <1>3. v.step = "answer" /\ Ahead(v, renewal[t]) /\ v.result = x
    BY <1>1 DEF RenewalType, Ahead
  <1>5. renewal' = [renewal EXCEPT ![t] = v]
    BY Zenon DEF RRespond
  <1>. HIDE DEF v
  <1>. QED  BY <1>2, <1>3, <1>5

\* What a renewal carries stays good when the rows move.
LEMMA Carried ==
    ASSUME Typed, ServerMoves, NEW t \in Tab, NEW v \in RenewalType, Ahead(v, renewal[t])
    PROVE  /\ v.password <= user'.password
           /\ v.token # None => IsIssued(v.token)'
           /\ v.token = renewal[t].token
  <1>1. /\ renewal[t].password \in Nat /\ renewal[t].password <= user.password
        /\ renewal[t].token # None => IsIssued(renewal[t].token)
    BY DEF Typed, Calls, RenewalType, AllIssued
  <1>2. \A k \in Tokens : IsIssued(k) => IsIssued(k)'
    BY RowsMove
  <1>3. \A n \in Nat : n <= user.password => n <= user'.password
    BY RowsMove
  <1>4. \A k : IsIssued(k) => k \in Tokens
    BY DEF IsIssued
  <1>. QED  BY <1>1, <1>2, <1>3, <1>4 DEF Ahead

\* The refresh found its token live.
Found(t, k) == renewal' = [renewal EXCEPT ![t].step = "update", ![t].password = token[k].password,
                                          ![t].spared = token[k].spared]

LEMMA FoundFact ==
    ASSUME Typed, NEW t \in Tab, NEW k \in Tokens, Found(t, k)
    PROVE  \E v \in RenewalType :
               /\ renewal' = [renewal EXCEPT ![t] = v] /\ v.step = "update"
               /\ v.password = token[k].password /\ (v.spared <=> token[k].spared)
               /\ v.token = renewal[t].token /\ v.born = renewal[t].born
               /\ v.result = renewal[t].result
  <1>. DEFINE p == token[k].password
              s == token[k].spared
              v == [[[renewal[t] EXCEPT !.step = "update"] EXCEPT !.password = p]
                       EXCEPT !.spared = s]
  <1>1. renewal[t] \in RenewalType /\ p \in Nat /\ s \in BOOLEAN
    BY DEF Typed, Calls, Rows, TokenType
  <1>2. renewal' = [renewal EXCEPT ![t] = v]
    BY Zenon DEF Found
  <1>. HIDE DEF p, s
  <1>3. v \in RenewalType
    BY <1>1 DEF RenewalType
  <1>4. v.step = "update" /\ v.password = p /\ (v.spared <=> s)
    BY <1>1 DEF RenewalType
  <1>5. v.token = renewal[t].token /\ v.born = renewal[t].born /\ v.result = renewal[t].result
    BY <1>1 DEF RenewalType
  <1>. HIDE DEF v
  <1>. QED  BY <1>2, <1>3, <1>4, <1>5 DEF p, s

LEMMA RStepTyped ==
    ASSUME Typed, NEW t \in Tab, NEW s \in {"none", "find", "family", "issue", "answer"},
           RStep(t, s), ServerMoves, UNCHANGED <<browser, req, budget>>
    PROVE  Typed'
  <1>1. PICK v \in RenewalType :
            /\ renewal' = [renewal EXCEPT ![t] = v] /\ v.step = s /\ Ahead(v, renewal[t])
            /\ v.result = renewal[t].result
    BY RStepFact
  <1>2. v.password <= user'.password /\ (v.token # None => IsIssued(v.token)')
    BY <1>1, Carried
  <1>3. v.result = "ok" => IsIssued(v.born)'
    <2>1. renewal[t].result = "ok" => IsIssued(renewal[t].born)
      BY DEF Typed, AllIssued
    <2>. QED  BY <1>1, <2>1, RowsMove DEF Ahead, IsIssued
  <1>. QED  BY <1>1, <1>2, <1>3, RenewalAndServer

LEMMA RRespondTyped ==
    ASSUME Typed, NEW t \in Tab, NEW x \in {"none", "401"},
           RRespond(t, x), ServerMoves, UNCHANGED <<browser, req, budget>>
    PROVE  Typed'
  <1>1. PICK v \in RenewalType :
            /\ renewal' = [renewal EXCEPT ![t] = v] /\ v.step = "answer"
            /\ Ahead(v, renewal[t]) /\ v.result = x
    BY RRespondFact
  <1>2. v.password <= user'.password /\ (v.token # None => IsIssued(v.token)')
    BY <1>1, Carried
  <1>. QED  BY <1>1, <1>2, RenewalAndServer

LEMMA RefreshFindTyped == ASSUME Typed, NEW t \in Tab, RefreshFind(t) PROVE Typed'
  <1>. DEFINE k == renewal[t].token
  <1>1. UNCHANGED <<browser, req, budget>> /\ ServerMoves
    BY ServerStays DEF RefreshFind
  <1>2. CASE RRespond(t, "401")
    BY <1>1, <1>2, RRespondTyped
  <1>3. CASE RStep(t, "family")
    BY <1>1, <1>3, RStepTyped
  <1>4. CASE k # None /\ Found(t, k)
    <2>1. IsIssued(k) /\ k \in Tokens
      BY <1>4 DEF Typed, AllIssued, IsIssued
    <2>2. PICK v \in RenewalType :
               /\ renewal' = [renewal EXCEPT ![t] = v] /\ v.step = "update"
               /\ v.password = token[k].password
               /\ v.token = renewal[t].token /\ v.born = renewal[t].born
               /\ v.result = renewal[t].result
      BY <1>4, <2>1, FoundFact
    <2>3. token[k].password <= user.password /\ user' = user
      BY <2>1 DEF Typed, Rows, RefreshFind, server
    <2>4. v.token # None => IsIssued(v.token)'
      BY <1>1, <2>1, <2>2, RowsMove
    <2>5. v.result = "ok" => IsIssued(v.born)'
      <3>1. renewal[t].result = "ok" => IsIssued(renewal[t].born)
        BY DEF Typed, AllIssued
      <3>. QED  BY <1>1, <2>2, <3>1, RowsMove DEF IsIssued
    <2>. QED  BY <1>1, <1>4, <2>2, <2>3, <2>4, <2>5, RenewalAndServer
  <1>. QED  BY <1>2, <1>3, <1>4 DEF RefreshFind, Found

LEMMA RevokeFamilyTyped == ASSUME Typed, NEW t \in Tab, RevokeFamily(t) PROVE Typed'
  <1>1. /\ RevokeAll /\ RRespond(t, "401") /\ UNCHANGED user
        /\ UNCHANGED <<browser, req, budget>>
    BY DEF RevokeFamily
  <1>. QED  BY <1>1, RevokeAllMoves, RRespondTyped

LEMMA RefreshUpdateFact ==
    ASSUME Typed, NEW t \in Tab, RefreshUpdate(t)
    PROVE  /\ ServerMoves /\ UNCHANGED user
           /\ \A k \in Tokens : token'[k] = token[k] \/ Revoked(k)
  <1>1. renewal[t].token # None /\ IsIssued(renewal[t].token) /\ renewal[t].token \in Tokens
    BY DEF Typed, AllIssued, IsIssued, RefreshUpdate
  <1>2. token' = [token EXCEPT ![renewal[t].token].state = "revoked"] /\ UNCHANGED user
    BY DEF RefreshUpdate
  <1>3. token \in [Tokens -> TokenType]
    BY DEF Typed, Rows
  <1>4. DOMAIN token' = Tokens /\ token' = [k \in Tokens |-> token'[k]]
    BY <1>2, <1>3
  <1>5. \A k \in Tokens : token'[k] = token[k] \/ Revoked(k)
    BY <1>1, <1>2, <1>3 DEF Revoked, IsIssued
  <1>. QED  BY <1>2, <1>4, <1>5, RevokeMoves

LEMMA RefreshUpdateTyped == ASSUME Typed, NEW t \in Tab, RefreshUpdate(t) PROVE Typed'
  <1>1. RStep(t, "issue") /\ UNCHANGED <<browser, req, budget>>
    BY DEF RefreshUpdate
  <1>. QED  BY <1>1, RefreshUpdateFact, RStepTyped

LEMMA RefreshIssueFact ==
    ASSUME Typed, NEW t \in Tab, RefreshIssue(t)
    PROVE  \E v \in RenewalType :
               /\ renewal' = [renewal EXCEPT ![t] = v] /\ v.step = "answer"
               /\ v.token = renewal[t].token /\ v.password = renewal[t].password
               /\ v.born = Next1
  <1>. DEFINE v == [[[renewal[t] EXCEPT !.step = "answer"] EXCEPT !.result = "ok"]
                       EXCEPT !.born = Next1]
  <1>1. renewal[t] \in RenewalType /\ Next1 \in Tokens
    BY DEF Typed, Calls, RefreshIssue, IssueTokens
  <1>2. renewal' = [renewal EXCEPT ![t] = v]
    BY Zenon DEF RefreshIssue
  <1>. HIDE DEF Next1
  <1>3. v \in RenewalType
    BY <1>1 DEF RenewalType
  <1>4. v.step = "answer" /\ v.token = renewal[t].token /\ v.password = renewal[t].password
        /\ v.born = Next1
    BY <1>1 DEF RenewalType
  <1>. HIDE DEF v
  <1>. QED  BY <1>2, <1>3, <1>4

LEMMA RefreshIssueTyped == ASSUME Typed, NEW t \in Tab, RefreshIssue(t) PROVE Typed'
  <1>1. PICK v \in RenewalType :
            /\ renewal' = [renewal EXCEPT ![t] = v] /\ v.step = "answer"
            /\ v.token = renewal[t].token /\ v.password = renewal[t].password
            /\ v.born = Next1
    BY RefreshIssueFact
  <1>2. /\ IssueTokens(renewal[t].password, renewal[t].spared)
        /\ UNCHANGED user /\ UNCHANGED <<browser, req, budget>>
    BY DEF RefreshIssue
  <1>3. /\ renewal[t].password \in Nat /\ renewal[t].spared \in BOOLEAN
        /\ renewal[t].password <= user.password
        /\ renewal[t].token # None => IsIssued(renewal[t].token)
    BY DEF Typed, Calls, RenewalType, AllIssued
  <1>4. ServerMoves /\ Next1 \in Tokens /\ token'[Next1].state = "live"
    BY <1>2, <1>3, IssueFact
  <1>5. v.token # None => IsIssued(v.token)'
    BY <1>1, <1>3, <1>4, RowsMove DEF IsIssued
  <1>6. v.result = "ok" => IsIssued(v.born)'
    BY <1>1, <1>4 DEF IsIssued
  <1>7. v.password <= user'.password
    BY <1>1, <1>2, <1>3
  <1>. QED  BY <1>1, <1>2, <1>4, <1>5, <1>6, <1>7, RenewalAndServer

-----------------------------------------------------------------------------
(***************************************************************************)
(* The panel.  The rows stay as they are.                                  *)
(***************************************************************************)
RequestOK(v) == v \in RequestType /\ v.password <= user.password /\ Answers(v)
RenewalOK(v) == /\ v \in RenewalType /\ v.password <= user.password
                /\ v.token # None => IsIssued(v.token)
                /\ v.result = "ok" => IsIssued(v.born)
                /\ v.step = "update" => v.token # None
CookieOK(c)  == /\ c \in [Browser -> Tokens \cup {None}]
                /\ \A b \in Browser : c[b] # None => IsIssued(c[b])

LEMMA CallsOK == ASSUME Typed
                 PROVE  /\ \A r \in Request : RequestOK(req[r])
                        /\ \A t \in Tab : RenewalOK(renewal[t])
                        /\ RequestOK(IdleReq) /\ RenewalOK(IdleRenewal)
                        /\ CookieOK(cookie)
  <1>1. \A r \in Request : RequestOK(req[r])
    BY DEF Typed, Calls, AllIssued, RequestOK, Answers
  <1>2. \A t \in Tab : RenewalOK(renewal[t])
    BY DEF Typed, Calls, AllIssued, RenewalOK
  <1>3. None <= user.password
    BY DEF Typed, Rows, UserType, None
  <1>4. RequestOK(IdleReq) /\ RenewalOK(IdleRenewal)
    BY <1>3, Blanks DEF RequestOK, RenewalOK, Answers
  <1>5. CookieOK(cookie)
    BY DEF Typed, Panel, AllIssued, CookieOK
  <1>. QED  BY <1>1, <1>2, <1>4, <1>5

LEMMA PanelMoves ==
    ASSUME Typed, UNCHANGED server, CookieOK(cookie'), access' \subseteq Browser,
           page' \in [Tab -> {"app", "login"}], ticket' \subseteq Tab, budget' \in [Kinds -> Nat],
           DOMAIN req' = Request, req' = [r \in Request |-> req'[r]],
           \A r \in Request : RequestOK(req'[r]),
           DOMAIN renewal' = Tab, renewal' = [t \in Tab |-> renewal'[t]],
           \A t \in Tab : RenewalOK(renewal'[t])
    PROVE  Typed'
  <1>1. user' = user /\ token' = token
    BY DEF server
  <1>2. Rows'
    BY <1>1 DEF Typed, Rows
  <1>3. Calls'
    <2>1. req' \in [Request -> RequestType] /\ \A r \in Request : req'[r].password <= user.password
      BY DEF RequestOK
    <2>2. renewal' \in [Tab -> RenewalType] /\ \A t \in Tab : renewal'[t].password <= user.password
      BY DEF RenewalOK
    <2>. QED  BY <1>1, <2>1, <2>2 DEF Calls
  <1>4. Panel'
    BY DEF Panel, CookieOK
  <1>5. AllIssued'
    <2>1. \A k : IsIssued(k) <=> IsIssued(k)'
      BY <1>1 DEF IsIssued
    <2>. QED  BY <2>1 DEF AllIssued, CookieOK, RequestOK, RenewalOK, Answers
  <1>. QED  BY <1>2, <1>3, <1>4, <1>5 DEF Typed
\* A call holds what it had decided before, or nothing it may still turn into a session.
Calm(v, x) == Spared(v) => Spared(x) /\ v.password = x.password /\ (v.spared <=> x.spared)

\* A request is what it was or is over; what it is about to write is what it read.
Meek(v, x) ==
    /\ v.op \in {x.op, "none"}
    /\ v.step \in {"write", "remove"} => /\ v.op = x.op /\ v.arg = x.arg
                                        /\ v.step = x.step /\ v.codes = x.codes
Milder(v, x) == Calm(v, x) /\ Meek(v, x)

\* What a step of the panel, of a cookie or of the network does.
ReqsMove ==
    /\ DOMAIN req' = Request /\ req' = [r \in Request |-> req'[r]]
    /\ \A r \in Request : RequestOK(req'[r]) /\ Milder(req'[r], req[r])
RenewalsMove ==
    /\ DOMAIN renewal' = Tab /\ renewal' = [t \in Tab |-> renewal'[t]]
    /\ \A t \in Tab : RenewalOK(renewal'[t]) /\ Calm(renewal'[t], renewal[t])
PanelOK ==
    /\ CookieOK(cookie') /\ access' \subseteq Browser
    /\ page' \in [Tab -> {"app", "login"}] /\ ticket' \subseteq Tab /\ budget' \in [Kinds -> Nat]
PanelStep == PanelOK /\ ReqsMove /\ RenewalsMove /\ UNCHANGED server

LEMMA PanelStepTyped == ASSUME Typed, PanelStep PROVE Typed'
  BY PanelMoves DEF PanelStep, PanelOK, ReqsMove, RenewalsMove

LEMMA CalmFact == /\ \A x : Calm(x, x)
                  /\ \A v, x : ~Spared(v) => Calm(v, x)
                  /\ \A x : Milder(x, x) /\ Milder(IdleReq, x) /\ Calm(IdleRenewal, x)
  <1>1. ~Spared(IdleReq) /\ ~Spared(IdleRenewal)
    BY Blanks DEF Spared
  <1>2. IdleReq.op = "none" /\ IdleReq.step = "idle"
    BY Blanks
  <1>. QED  BY <1>1, <1>2 DEF Calm, Meek, Milder

LEMMA ReqsStay == ASSUME Typed, UNCHANGED req PROVE ReqsMove
  <1>1. req \in [Request -> RequestType]
    BY DEF Typed, Calls
  <1>. QED  BY <1>1, CallsOK, CalmFact DEF ReqsMove

LEMMA RenewalsStay == ASSUME Typed, UNCHANGED renewal PROVE RenewalsMove
  <1>1. renewal \in [Tab -> RenewalType]
    BY DEF Typed, Calls
  <1>. QED  BY <1>1, CallsOK, CalmFact DEF RenewalsMove

LEMMA OneReq ==
    ASSUME Typed, NEW r \in Request, NEW v, RequestOK(v), Milder(v, req[r]),
           req' = [req EXCEPT ![r] = v]
    PROVE  ReqsMove
  <1>1. req \in [Request -> RequestType]
    BY DEF Typed, Calls
  <1>2. DOMAIN req' = Request /\ req' = [q \in Request |-> req'[q]]
        /\ req'[r] = v /\ \A q \in Request \ {r} : req'[q] = req[q]
    BY <1>1
  <1>. QED  BY <1>2, CallsOK, CalmFact DEF ReqsMove

LEMMA OneRenewal ==
    ASSUME Typed, NEW t \in Tab, NEW v, RenewalOK(v), Calm(v, renewal[t]),
           renewal' = [renewal EXCEPT ![t] = v]
    PROVE  RenewalsMove
  <1>1. renewal \in [Tab -> RenewalType]
    BY DEF Typed, Calls
  <1>2. DOMAIN renewal' = Tab /\ renewal' = [u \in Tab |-> renewal'[u]]
        /\ renewal'[t] = v /\ \A u \in Tab \ {t} : renewal'[u] = renewal[u]
    BY <1>1
  <1>. QED  BY <1>2, CallsOK, CalmFact DEF RenewalsMove

LEMMA PanelStays ==
    ASSUME Typed
    PROVE  /\ CookieOK(cookie) /\ access \subseteq Browser
           /\ page \in [Tab -> {"app", "login"}] /\ ticket \subseteq Tab
           /\ budget \in [Kinds -> Nat]
  BY CallsOK DEF Typed, Panel

\* The answer of a request is lost; it waits; a page goes.
LEMMA LostFact ==
    ASSUME Typed, NEW r \in Request
    PROVE  RequestOK([req[r] EXCEPT !.lost = TRUE]) /\ Milder([req[r] EXCEPT !.lost = TRUE], req[r])
  <1>. DEFINE v == [req[r] EXCEPT !.lost = TRUE]
  <1>1. req[r] \in RequestType /\ RequestOK(req[r])
    BY CallsOK DEF RequestOK
  <1>2. v \in RequestType
    BY <1>1 DEF RequestType
  <1>3. /\ v.op = req[r].op /\ v.step = req[r].step /\ v.password = req[r].password
        /\ v.arg = req[r].arg /\ v.codes = req[r].codes
        /\ v.spared = req[r].spared /\ v.result = req[r].result /\ v.born = req[r].born
    BY <1>1 DEF RequestType
  <1>. HIDE DEF v
  <1>4. RequestOK(v) /\ Milder(v, req[r])
    BY <1>1, <1>2, <1>3 DEF RequestOK, Answers, Milder, Meek, Calm, Spared
  <1>. QED  BY <1>4 DEF v

LEMMA WaitFact ==
    ASSUME Typed, NEW r \in Request
    PROVE  RequestOK([req[r] EXCEPT !.step = "wait"]) /\ Milder([req[r] EXCEPT !.step = "wait"], req[r])
  <1>. DEFINE v == [req[r] EXCEPT !.step = "wait"]
  <1>1. req[r] \in RequestType /\ RequestOK(req[r])
    BY CallsOK DEF RequestOK
  <1>2. v \in RequestType
    BY <1>1 DEF RequestType, Steps
  <1>3. /\ v.op = req[r].op /\ v.step = "wait" /\ v.password = req[r].password
        /\ v.result = req[r].result /\ v.born = req[r].born
    BY <1>1 DEF RequestType
  <1>. HIDE DEF v
  <1>4. RequestOK(v) /\ Milder(v, req[r])
    BY <1>1, <1>2, <1>3 DEF RequestOK, Answers, Milder, Meek, Calm, Spared
  <1>. QED  BY <1>4 DEF v

LEMMA AbandonedFact ==
    ASSUME Typed, NEW t \in Tab
    PROVE  /\ Abandoned(t) = [r \in Request |-> Abandoned(t)[r]]
           /\ \A r \in Request : RequestOK(Abandoned(t)[r]) /\ Milder(Abandoned(t)[r], req[r])
  <1>1. \A r \in Request : Abandoned(t)[r] \in {req[r], IdleReq, [req[r] EXCEPT !.lost = TRUE]}
    BY DEF Abandoned
  <1>2. Abandoned(t) = [r \in Request |-> Abandoned(t)[r]]
    BY DEF Abandoned
  <1>3. \A r \in Request : /\ RequestOK(req[r]) /\ Milder(req[r], req[r])
                           /\ RequestOK(IdleReq) /\ Milder(IdleReq, req[r])
                           /\ RequestOK([req[r] EXCEPT !.lost = TRUE])
                           /\ Milder([req[r] EXCEPT !.lost = TRUE], req[r])
    BY CallsOK, CalmFact, LostFact
  <1>. QED  BY <1>1, <1>2, <1>3

LEMMA AbandonMoves == ASSUME Typed, NEW t \in Tab, req' = Abandoned(t) PROVE ReqsMove
  <1>. DEFINE f == Abandoned(t)
  <1>1. f = [r \in Request |-> f[r]] /\ \A r \in Request : RequestOK(f[r]) /\ Milder(f[r], req[r])
    BY AbandonedFact
  <1>2. req' = f
    OBVIOUS
  <1>. HIDE DEF f
  <1>3. DOMAIN req' = Request /\ req' = [r \in Request |-> req'[r]]
    BY <1>1, <1>2
  <1>. QED  BY <1>1, <1>2, <1>3 DEF ReqsMove

LEMMA WaitersGo ==
    ASSUME Typed, NEW t \in Tab, NEW set \in SUBSET Request,
           req' = [q \in Request |-> IF q \in set THEN IdleReq ELSE req[q]]
    PROVE  ReqsMove
  <1>1. \A q \in Request : req'[q] \in {req[q], IdleReq}
    OBVIOUS
  <1>2. DOMAIN req' = Request /\ req' = [r \in Request |-> req'[r]]
    OBVIOUS
  <1>. QED  BY <1>1, <1>2, CallsOK, CalmFact DEF ReqsMove

LEMMA ExpiredPage ==
    ASSUME Typed, NEW r \in Request, HandleSessionExpired(T(r), r),
           UNCHANGED <<server, access, cookie, ticket, budget>>
    PROVE  PanelStep
  <1>. DEFINE t == T(r)
  <1>1. t \in Tab
    BY Places
  <1>2. PanelOK
    <2>1. page' \in [Tab -> {"app", "login"}]
      BY PanelStays, Places DEF HandleSessionExpired
    <2>. QED  BY <2>1, PanelStays DEF PanelOK
  <1>3. CASE page[t] = "login"
    <2>. DEFINE set == {r} \cup Waiting(t)
    <2>1. set \in SUBSET Request
      BY DEF Waiting
    <2>2. req' = [q \in Request |-> IF q \in set THEN IdleReq ELSE req[q]]
      BY <1>3 DEF HandleSessionExpired
    <2>3. UNCHANGED renewal
      BY <1>3 DEF HandleSessionExpired
    <2>. HIDE DEF set, t
    <2>. QED  BY <1>1, <1>2, <2>1, <2>2, <2>3, WaitersGo, RenewalsStay DEF PanelStep
  <1>4. CASE page[t] # "login"
    <2>. DEFINE f == Abandoned(t)
                lost == renewal[t].step # "none"
                w == [renewal[t] EXCEPT !.lost = lost]
    <2>1. f = [q \in Request |-> f[q]] /\ \A q \in Request : RequestOK(f[q]) /\ Milder(f[q], req[q])
      BY <1>1, AbandonedFact
    <2>2. req' = [f EXCEPT ![r] = IdleReq]
      BY <1>4 DEF HandleSessionExpired
    <2>3. renewal' = [renewal EXCEPT ![t] = w]
      BY <1>4, Zenon DEF HandleSessionExpired
    <2>. HIDE DEF f
    <2>4. ReqsMove
      <3>1. DOMAIN req' = Request /\ req' = [q \in Request |-> req'[q]]
            /\ \A q \in Request : req'[q] \in {f[q], IdleReq}
        BY <2>1, <2>2
      <3>. QED  BY <2>1, <3>1, CallsOK, CalmFact DEF ReqsMove
    <2>5. RenewalOK(w) /\ Calm(w, renewal[t])
      <3>1. renewal[t] \in RenewalType /\ RenewalOK(renewal[t]) /\ lost \in BOOLEAN
        BY <1>1, CallsOK DEF RenewalOK
      <3>. HIDE DEF lost
      <3>2. w \in RenewalType
        BY <3>1 DEF RenewalType
      <3>3. /\ w.token = renewal[t].token /\ w.step = renewal[t].step
            /\ w.password = renewal[t].password /\ w.spared = renewal[t].spared
            /\ w.result = renewal[t].result /\ w.born = renewal[t].born
        BY <3>1 DEF RenewalType
      <3>. HIDE DEF w
      <3>. QED  BY <3>1, <3>2, <3>3 DEF RenewalOK, Calm, Spared
    <2>. HIDE DEF w, t
    <2>6. RenewalsMove
      BY <1>1, <2>3, <2>5, OneRenewal
    <2>. QED  BY <1>2, <2>4, <2>6 DEF PanelStep
  <1>. QED  BY <1>3, <1>4

\* The refresh a tab starts, with the cookie its browser holds.
Started(k) == [IdleRenewal EXCEPT !.step = "find", !.token = k]

LEMMA StartedFact ==
    ASSUME Typed, NEW k, k # None => IsIssued(k)
    PROVE  RenewalOK(Started(k)) /\ \A x : Calm(Started(k), x)
  <1>. DEFINE v == [[IdleRenewal EXCEPT !.step = "find"] EXCEPT !.token = k]
  <1>1. k \in Tokens \cup {None}
    BY DEF IsIssued
  <1>2. v \in RenewalType
    BY <1>1, Blanks DEF RenewalType
  <1>3. v.step = "find" /\ v.token = k /\ v.password = None /\ v.result = "none"
    BY Blanks DEF RenewalType
  <1>4. Started(k) = v
    BY Zenon DEF Started
  <1>5. None <= user.password
    BY DEF Typed, Rows, UserType, None
  <1>. HIDE DEF v
  <1>. QED  BY <1>2, <1>3, <1>4, <1>5 DEF RenewalOK, Calm, Spared

LEMMA JoinedPage ==
    ASSUME Typed, NEW r \in Request, StartOrJoin(r),
           UNCHANGED <<server, access, cookie, ticket, budget>>
    PROVE  PanelStep
  <1>. DEFINE t == T(r)
              k == cookie[B(t)]
  <1>1. t \in Tab /\ B(t) \in Browser
    BY Places
  <1>2. UNCHANGED page
    BY DEF StartOrJoin
  <1>3. PanelOK
    BY <1>2, PanelStays DEF PanelOK
  <1>4. ReqsMove
    <2>. DEFINE v == [req[r] EXCEPT !.step = "wait"]
    <2>1. RequestOK(v) /\ Milder(v, req[r])
      BY WaitFact
    <2>2. req' = [req EXCEPT ![r] = v]
      BY Zenon DEF StartOrJoin
    <2>. HIDE DEF v
    <2>. QED  BY <2>1, <2>2, OneReq
  <1>5. RenewalsMove
    <2>1. k # None => IsIssued(k)
      BY <1>1, PanelStays DEF CookieOK
    <2>2. \/ UNCHANGED renewal
          \/ renewal' = [renewal EXCEPT ![t] = Started(k)]
      BY DEF StartOrJoin, Started
    <2>. HIDE DEF k, t
    <2>. QED  BY <1>1, <2>1, <2>2, StartedFact, OneRenewal, RenewalsStay
  <1>. QED  BY <1>3, <1>4, <1>5 DEF PanelStep, StartOrJoin

LEMMA UnauthorizedMoves == ASSUME Typed, NEW r \in Request, Unauthorized(r) PROVE PanelStep
  BY ExpiredPage, JoinedPage DEF Unauthorized

LEMMA ReceiveMoves == ASSUME Typed, NEW r \in Request, Receive(r) PROVE PanelStep
  <1>. DEFINE t == T(r)
  <1>1. t \in Tab /\ B(t) \in Browser
    BY Places
  <1>2. UNCHANGED <<server, renewal, budget>> /\ req' = [req EXCEPT ![r] = IdleReq]
    BY DEF Receive
  <1>3. ReqsMove
    BY <1>2, CallsOK, CalmFact, OneReq
  <1>4. RenewalsMove
    BY <1>2, RenewalsStay
  <1>5. page' \in [Tab -> {"app", "login"}]
    BY <1>1, PanelStays DEF Receive, browser
  <1>6. ticket' \subseteq Tab
    BY <1>1, PanelStays DEF Receive, browser
  <1>7. access' \subseteq Browser
    BY <1>1, PanelStays DEF Receive, browser, SetAuthCookies
  <1>8. CookieOK(cookie')
    <2>1. CASE UNCHANGED cookie
      BY <2>1, PanelStays
    <2>2. CASE cookie' = [cookie EXCEPT ![B(t)] = None]
      BY <1>1, <2>2, PanelStays DEF CookieOK
    <2>3. CASE /\ cookie' = [cookie EXCEPT ![B(t)] = req[r].born]
               /\ req[r].op \in {"login", "mfa"} /\ req[r].result = "ok"
      <3>1. IsIssued(req[r].born) /\ req[r].born \in Tokens
        BY <2>3 DEF Typed, AllIssued, IsIssued
      <3>. QED  BY <1>1, <2>3, <3>1, PanelStays DEF CookieOK
    <2>4. req[r].result \in {"none", "ok", "400", "401", "ticket"}
      BY DEF Typed, Calls, RequestType
    <2>. QED  BY <2>1, <2>2, <2>3, <2>4 DEF Receive, browser, SetAuthCookies
  <1>. QED  BY <1>2, <1>3, <1>4, <1>5, <1>6, <1>7, <1>8, PanelStays DEF PanelStep, PanelOK
\* A request sent again carries the pair just received.
Again(r, k) == [Sent(r, req[r].op, req[r].arg, TRUE) EXCEPT !.access = TRUE, !.token = k]

LEMMA AgainFact ==
    ASSUME Typed, NEW r \in Request, NEW k \in Tokens
    PROVE  RequestOK(Again(r, k)) /\ Milder(Again(r, k), req[r])
  <1>. DEFINE s == Sent(r, req[r].op, req[r].arg, TRUE)
              v == [[s EXCEPT !.access = TRUE] EXCEPT !.token = k]
  <1>1. req[r].op \in Ops /\ req[r].arg \in Code
    BY DEF Typed, Calls, RequestType
  <1>2. Fresh(s, req[r].op, req[r].arg)
    BY <1>1, SecondSent
  <1>3. Again(r, k) = v
    BY Zenon DEF Again
  <1>. HIDE DEF s
  <1>4. v \in RequestType
    BY <1>2 DEF Fresh, RequestType
  <1>5. /\ v.step \in {"arrive", "read"} /\ v.password = None /\ v.result = "none"
        /\ v.op = req[r].op
    BY <1>2 DEF Fresh, RequestType
  <1>6. None <= user.password
    BY DEF Typed, Rows, UserType, None
  <1>. HIDE DEF v
  <1>. QED  BY <1>3, <1>4, <1>5, <1>6 DEF RequestOK, Answers, Milder, Meek, Calm, Spared

LEMMA IdleMoves == ASSUME Typed, NEW t \in Tab, renewal' = [renewal EXCEPT ![t] = IdleRenewal]
                   PROVE  RenewalsMove
  BY CallsOK, CalmFact, OneRenewal

LEMMA RenewedMoves == ASSUME Typed, NEW t \in Tab, Renewed(t) PROVE PanelStep
  <1>. DEFINE k == renewal[t].born
  <1>1. IsIssued(k) /\ k \in Tokens /\ B(t) \in Browser
    BY Places DEF Typed, AllIssued, IsIssued, Renewed
  <1>2. RenewalsMove /\ UNCHANGED <<server, page, ticket, budget>>
    BY IdleMoves DEF Renewed
  <1>3. ReqsMove
    <2>1. req' = [r \in Request |-> IF r \notin Waiting(t) THEN req[r] ELSE Again(r, k)]
      BY Zenon DEF Renewed, Again
    <2>. HIDE DEF k
    <2>2. \A r \in Request : req'[r] \in {req[r], Again(r, k)}
      BY <2>1
    <2>3. DOMAIN req' = Request /\ req' = [r \in Request |-> req'[r]]
      BY <2>1
    <2>4. \A r \in Request : RequestOK(Again(r, k)) /\ Milder(Again(r, k), req[r])
      BY <1>1, AgainFact
    <2>. QED  BY <2>2, <2>3, <2>4, CallsOK, CalmFact DEF ReqsMove
  <1>4. access' \subseteq Browser
    BY <1>1, PanelStays DEF Renewed, SetAuthCookies
  <1>5. CookieOK(cookie')
    <2>1. cookie' = [cookie EXCEPT ![B(t)] = k]
      BY DEF Renewed, SetAuthCookies
    <2>. HIDE DEF k
    <2>. QED  BY <1>1, <2>1, PanelStays DEF CookieOK
  <1>. QED  BY <1>2, <1>3, <1>4, <1>5, PanelStays DEF PanelStep, PanelOK

LEMMA NotRenewedMoves == ASSUME Typed, NEW t \in Tab, NotRenewed(t) PROVE PanelStep
  <1>1. RenewalsMove /\ UNCHANGED <<server, access, cookie, ticket, budget>>
    BY IdleMoves DEF NotRenewed
  <1>2. page' \in [Tab -> {"app", "login"}]
    BY PanelStays DEF NotRenewed
  <1>3. ReqsMove
    <2>1. CASE page[t] = "login"
      <3>1. Waiting(t) \in SUBSET Request
        BY DEF Waiting
      <3>2. req' = [r \in Request |-> IF r \in Waiting(t) THEN IdleReq ELSE req[r]]
        BY <2>1 DEF NotRenewed
      <3>. QED  BY <3>1, <3>2, WaitersGo
    <2>2. CASE page[t] # "login"
      BY <2>2, AbandonMoves DEF NotRenewed
    <2>. QED  BY <2>1, <2>2
  <1>. QED  BY <1>1, <1>2, <1>3, PanelStays DEF PanelStep, PanelOK

LEMMA DroppedMoves == ASSUME Typed, NEW t \in Tab, Dropped(t) PROVE PanelStep
  BY IdleMoves, ReqsStay, PanelStays DEF Dropped, browser, PanelStep, PanelOK

LEMMA LoadMoves == ASSUME Typed, NEW t \in Tab, LoadSession(t) PROVE PanelStep
  <1>1. UNCHANGED <<server, access, cookie, req, renewal, budget>>
    BY DEF LoadSession
  <1>2. page' \in [Tab -> {"app", "login"}] /\ ticket' \subseteq Tab
    BY PanelStays DEF LoadSession
  <1>. QED  BY <1>1, <1>2, ReqsStay, RenewalsStay, PanelStays DEF PanelStep, PanelOK

LEMMA LoseMoves == ASSUME Typed, Lose PROVE PanelStep
  <1>1. UNCHANGED <<server, browser>> /\ Spend("lose")
    BY DEF Lose
  <1>2. PanelOK
    <2>1. budget' \in [Kinds -> Nat]
      BY <1>1, Spent DEF Kinds
    <2>. QED  BY <1>1, <2>1, PanelStays DEF PanelOK, browser
  <1>3. ASSUME NEW r \in Request, req[r].step = "answer",
               req' = [req EXCEPT ![r].result = "none"], UNCHANGED renewal
        PROVE  ReqsMove /\ RenewalsMove
    <2>. DEFINE v == [req[r] EXCEPT !.result = "none"]
    <2>1. req[r] \in RequestType /\ req[r].password <= user.password
      BY CallsOK DEF RequestOK
    <2>2. v \in RequestType
      BY <2>1 DEF RequestType
    <2>3. /\ v.result = "none" /\ v.step = "answer" /\ v.password = req[r].password
          /\ v.op = req[r].op
      BY <1>3, <2>1 DEF RequestType
    <2>4. req' = [req EXCEPT ![r] = v]
      BY <1>3, Zenon
    <2>. HIDE DEF v
    <2>5. RequestOK(v) /\ Milder(v, req[r])
      BY <2>1, <2>2, <2>3 DEF RequestOK, Answers, Milder, Meek, Calm, Spared
    <2>. QED  BY <1>3, <2>4, <2>5, OneReq, RenewalsStay
  <1>4. ASSUME NEW t \in Tab, RRespond(t, "none"), UNCHANGED req
        PROVE  ReqsMove /\ RenewalsMove
    <2>1. PICK v \in RenewalType :
            /\ renewal' = [renewal EXCEPT ![t] = v] /\ v.step = "answer"
            /\ Ahead(v, renewal[t]) /\ v.result = "none"
      BY <1>4, RRespondFact
    <2>2. RenewalOK(renewal[t])
      BY CallsOK
    <2>3. RenewalOK(v) /\ Calm(v, renewal[t])
      BY <2>1, <2>2 DEF RenewalOK, Ahead, Calm, Spared
    <2>. QED  BY <1>4, <2>1, <2>3, OneRenewal, ReqsStay
  <1>. QED  BY <1>1, <1>2, <1>3, <1>4 DEF Lose, PanelStep

LEMMA LapseMoves == ASSUME Typed, NEW b \in Browser, Lapse(b) PROVE PanelStep
  <1>1. UNCHANGED <<server, cookie, page, ticket, renewal>> /\ Spend("lapse")
        /\ access' = access \ {b}
    BY DEF Lapse
  <1>2. PanelOK
    <2>1. budget' \in [Kinds -> Nat]
      BY <1>1, Spent DEF Kinds
    <2>. QED  BY <1>1, <2>1, PanelStays DEF PanelOK
  <1>. DEFINE v(r) == [req[r] EXCEPT !.access = FALSE]
  <1>3. ASSUME NEW r \in Request PROVE RequestOK(v(r)) /\ Milder(v(r), req[r])
    <2>1. req[r] \in RequestType /\ RequestOK(req[r])
      BY CallsOK DEF RequestOK
    <2>2. v(r) \in RequestType
      BY <2>1 DEF RequestType
    <2>3. /\ v(r).arg = req[r].arg /\ v(r).codes = req[r].codes
          /\ v(r).op = req[r].op /\ v(r).step = req[r].step /\ v(r).password = req[r].password
          /\ v(r).spared = req[r].spared /\ v(r).result = req[r].result /\ v(r).born = req[r].born
      BY <2>1 DEF RequestType
    <2>. HIDE DEF v
    <2>. QED  BY <2>1, <2>2, <2>3 DEF RequestOK, Answers, Milder, Meek, Calm, Spared
  <1>4. ReqsMove
    <2>1. req' = [r \in Request |-> IF B(T(r)) = b /\ req[r].step = "arrive" THEN v(r) ELSE req[r]]
      BY DEF Lapse
    <2>. HIDE DEF v
    <2>2. \A r \in Request : req'[r] \in {req[r], v(r)}
      BY <2>1
    <2>3. DOMAIN req' = Request /\ req' = [r \in Request |-> req'[r]]
      BY <2>1
    <2>. QED  BY <1>3, <2>2, <2>3, CallsOK, CalmFact DEF ReqsMove
  <1>. QED  BY <1>1, <1>2, <1>4, RenewalsStay DEF PanelStep

-----------------------------------------------------------------------------
(***************************************************************************)
(* The administrator and the clock.                                        *)
(***************************************************************************)
LEMMA ServerOnly ==
    ASSUME Typed, ServerMoves, UNCHANGED <<browser, req, renewal>>, budget' \in [Kinds -> Nat]
    PROVE  Typed'
  <1>1. UNCHANGED <<access, cookie, page, ticket>>
    BY DEF browser
  <1>2. /\ Rows' /\ \A k \in Tokens : IsIssued(k) => IsIssued(k)'
        /\ \A n \in Nat : n <= user.password => n <= user'.password
    BY RowsMove
  <1>3. Calls'
    <2>1. /\ \A r \in Request : req[r].password \in Nat /\ req[r].password <= user.password
          /\ \A t \in Tab : renewal[t].password \in Nat /\ renewal[t].password <= user.password
      BY DEF Typed, Calls, RequestType, RenewalType
    <2>. QED  BY <1>2, <2>1 DEF Typed, Calls
  <1>4. Panel'
    BY <1>1 DEF Typed, Panel
  <1>5. AllIssued'
    <2>1. \A k : IsIssued(k) => IsIssued(k)'
      BY <1>2 DEF IsIssued
    <2>. QED  BY <1>1, <2>1 DEF Typed, AllIssued
  <1>. QED  BY <1>2, <1>3, <1>4, <1>5 DEF Typed

\* A token grows old; nothing else of the rows but the user's flags.
Aged(k) == token' = [token EXCEPT ![k].state = "expired"]

LEMMA AgedFact ==
    ASSUME Typed, NEW k \in Tokens, token[k].state = "live", Aged(k)
    PROVE  /\ token' \in [Tokens -> TokenType] /\ token'[k].state = "expired"
           /\ token'[k].password = token[k].password
           /\ \A j \in Tokens \ {k} : token'[j] = token[j]
  <1>1. token \in [Tokens -> TokenType] /\ token[k] \in TokenType
    BY DEF Typed, Rows
  <1>2. [token[k] EXCEPT !.state = "expired"] \in TokenType
    BY <1>1 DEF TokenType
  <1>. QED  BY <1>1, <1>2 DEF Aged, TokenType

LEMMA UserFlags ==
    ASSUME Typed, UNCHANGED token,
           \/ user' = [user EXCEPT !.active = ~@]
           \/ user' = [user EXCEPT !.linkFresh = FALSE]
    PROVE  ServerMoves /\ user'.password = user.password
  <1>1. user \in UserType /\ user.secret <= user.setups /\ user.link <= user.links
    BY DEF Typed, Rows
  <1>2. /\ user' \in UserType /\ user'.secret = user.secret /\ user'.setups = user.setups
        /\ user'.link = user.link /\ user'.links = user.links /\ user'.password = user.password
    BY <1>1 DEF UserType
  <1>3. user.password <= user'.password
    BY <1>1, <1>2 DEF UserType
  <1>. QED  BY <1>1, <1>2, <1>3, UserMoves

LEMMA UpdateUserTyped == ASSUME Typed, UpdateUser PROVE Typed'
  <1>1. ServerMoves
    BY UserFlags DEF UpdateUser
  <1>2. budget' \in [Kinds -> Nat]
    BY Spent DEF UpdateUser, Kinds
  <1>. QED  BY <1>1, <1>2, ServerOnly DEF UpdateUser

LEMMA ExpireTyped == ASSUME Typed, Expire PROVE Typed'
  <1>1. budget' \in [Kinds -> Nat] /\ UNCHANGED <<browser, req, renewal>>
    BY Spent DEF Expire, Kinds
  <1>2. CASE user' = [user EXCEPT !.linkFresh = FALSE] /\ UNCHANGED token
    BY <1>1, <1>2, UserFlags, ServerOnly
  <1>3. ASSUME NEW k \in Tokens, token[k].state = "live", Aged(k), UNCHANGED user PROVE Typed'
    <2>1. \A j \in Tokens : token[j].password <= user.password
      BY DEF Typed, Rows
    <2>2. \A j \in Tokens : /\ token'[j].password <= user.password
                            /\ token[j].state # "none" => token'[j].state # "none"
      BY <1>3, <2>1, AgedFact
    <2>3. ServerMoves
      BY <1>3, <2>2, AgedFact, TokensMove
    <2>. QED  BY <1>1, <2>3, ServerOnly
  <1>. QED  BY <1>2, <1>3 DEF Expire, Aged

-----------------------------------------------------------------------------
(***************************************************************************)
(* Types, step by step.                                                    *)
(***************************************************************************)
PanelSteps == \/ \E r \in Request : Receive(r) \/ Unauthorized(r)
              \/ \E t \in Tab : Renewed(t) \/ NotRenewed(t) \/ Dropped(t) \/ LoadSession(t)
              \/ \E b \in Browser : Lapse(b)
              \/ Lose

LEMMA PanelStepsMove == ASSUME Typed, PanelSteps PROVE PanelStep
  BY ReceiveMoves, UnauthorizedMoves, RenewedMoves, NotRenewedMoves, DroppedMoves, LoadMoves,
     LapseMoves, LoseMoves DEF PanelSteps

\* Next, its steps grouped by what they touch.
LEMMA StepsOfNext ==
    ASSUME Next
    PROVE  \/ \E r \in Request : \/ Starts(r) \/ Reads(r) \/ Issue(r) \/ Writes(r)
                                 \/ RevokePresented(r) \/ RevokeSessions(r)
           \/ \E t \in Tab : \/ RefreshFind(t) \/ RevokeFamily(t) \/ RefreshUpdate(t)
                             \/ RefreshIssue(t)
           \/ PanelSteps
           \/ UpdateUser \/ Expire
  BY DEF Next, Handles, Renews, Reads, Writes, PanelSteps

LEMMA TypedNext == ASSUME Typed, Next PROVE Typed'
  <1>1. ASSUME NEW r \in Request,
               \/ Starts(r) \/ Reads(r) \/ Issue(r) \/ Writes(r)
               \/ RevokePresented(r) \/ RevokeSessions(r)
        PROVE  Typed'
    BY <1>1, StartsTyped, ReadsRead, ReadingTyped, IssueTyped, WritesTyped,
       RevokePresentedTyped, RevokeSessionsTyped
  <1>2. ASSUME NEW t \in Tab,
               \/ RefreshFind(t) \/ RevokeFamily(t) \/ RefreshUpdate(t) \/ RefreshIssue(t)
        PROVE  Typed'
    BY <1>2, RefreshFindTyped, RevokeFamilyTyped, RefreshUpdateTyped, RefreshIssueTyped
  <1>3. CASE PanelSteps
    BY <1>3, PanelStepsMove, PanelStepTyped
  <1>4. CASE UpdateUser \/ Expire
    BY <1>4, UpdateUserTyped, ExpireTyped
  <1>. QED  BY <1>1, <1>2, <1>3, <1>4, StepsOfNext

LEMMA TypedStutter == ASSUME Typed, UNCHANGED vars PROVE Typed'
  <1>1. ServerMoves /\ UNCHANGED <<browser, req, renewal, budget>>
    BY ServerStays DEF vars
  <1>2. budget' \in [Kinds -> Nat]
    BY <1>1, PanelStays
  <1>. QED  BY <1>1, <1>2, ServerOnly

LEMMA AlwaysTyped == Spec => []Typed
  <1>1. Typed /\ [Next]_vars => Typed'
    BY TypedNext, TypedStutter
  <1>. QED  BY <1>1, TypedInit, PTL DEF Spec

\* The records of the account, its tokens, cookies, pages and calls are what they should
\* be, and no cookie names a token that was never issued.
THEOREM AuthTypeCorrect == Spec => []AuthTypeOK
  BY AlwaysTyped, TypedIsTypeOK, PTL

-----------------------------------------------------------------------------
(***************************************************************************)
(* A reset ends the old sessions.  The invariant follows what a token is   *)
(* issued from: the call that decided on a password, or on a live token.   *)
(***************************************************************************)
GoodToken(v) == v.state = "live" => v.password >= ended \/ v.spared
Bound(x)     == Spared(x) => x.password >= ended \/ x.spared

ResetInv ==
    /\ ended \in Nat /\ ended <= user.password
    /\ \A k \in Tokens : GoodToken(token[k])
    /\ \A r \in Request : Bound(req[r])
    /\ \A t \in Tab : Bound(renewal[t])

LEMMA ResetInitially == Init => ResetInv
  <1>. SUFFICES ASSUME Init PROVE ResetInv
    OBVIOUS
  <1>1. ~Spared(IdleReq) /\ ~Spared(IdleRenewal)
    BY Blanks DEF Spared
  <1>2. /\ \A r \in Request : req[r] = IdleReq
        /\ \A t \in Tab : renewal[t] = IdleRenewal
    BY DEF Init
  <1>3. \A k \in Tokens : GoodToken(token[k])
    BY DEF Init, GoodToken
  <1>4. ended = 1 /\ user.password = 1
    BY DEF Init
  <1>. QED  BY <1>1, <1>2, <1>3, <1>4 DEF ResetInv, Bound

LEMMA NotLive == /\ \A v : v.state # "live" => GoodToken(v)
                 /\ \A x : ~Spared(x) => Bound(x)
                 /\ \A x : x.step \notin {"issue", "remove", "update"} => Bound(x)
  BY DEF GoodToken, Bound, Spared

LEMMA ResetKept ==
    ASSUME Typed, ResetInv, ServerMoves, UNCHANGED ended,
           \A k \in Tokens : GoodToken(token'[k]),
           \A r \in Request : Bound(req'[r]),
           \A t \in Tab : Bound(renewal'[t])
    PROVE  ResetInv'
  <1>1. ended <= user'.password
    BY DEF ResetInv, ServerMoves, Typed, Rows, UserType
  <1>. QED  BY <1>1 DEF ResetInv, GoodToken, Bound, Spared

\* One call moves and its record stays bound.
LEMMA ResetRequest ==
    ASSUME Typed, ResetInv, ServerMoves, UNCHANGED <<renewal, ended>>,
           \A k \in Tokens : GoodToken(token'[k]),
           NEW r \in Request, NEW v \in RequestType, Bound(v), req' = [req EXCEPT ![r] = v]
    PROVE  ResetInv'
  <1>1. req'[r] = v /\ \A q \in Request \ {r} : req'[q] = req[q]
    BY DEF Typed, Calls
  <1>2. /\ \A q \in Request : Bound(req'[q])
        /\ \A t \in Tab : Bound(renewal'[t])
    BY <1>1 DEF ResetInv
  <1>. QED  BY <1>2, ResetKept

LEMMA ResetRenewal ==
    ASSUME Typed, ResetInv, ServerMoves, UNCHANGED <<req, ended>>,
           \A k \in Tokens : GoodToken(token'[k]),
           NEW t \in Tab, NEW v \in RenewalType, Bound(v), renewal' = [renewal EXCEPT ![t] = v]
    PROVE  ResetInv'
  <1>1. renewal'[t] = v /\ \A u \in Tab \ {t} : renewal'[u] = renewal[u]
    BY DEF Typed, Calls
  <1>2. /\ \A r \in Request : Bound(req'[r])
        /\ \A u \in Tab : Bound(renewal'[u])
    BY <1>1 DEF ResetInv
  <1>. QED  BY <1>2, ResetKept

\* Tokens that stay or are revoked are good.
LEMMA TokensGood ==
    ASSUME Typed, ResetInv, \A k \in Tokens : token'[k] = token[k] \/ Revoked(k)
    PROVE  \A k \in Tokens : GoodToken(token'[k])
  <1>1. ASSUME NEW k \in Tokens, Revoked(k) PROVE GoodToken(token'[k])
    <2>1. token'[k].state = "revoked"
      BY <1>1, RevokedFact
    <2>. QED  BY <2>1 DEF GoodToken
  <1>. QED  BY <1>1 DEF ResetInv

LEMMA TokensStay == ASSUME ResetInv, UNCHANGED token PROVE \A k \in Tokens : GoodToken(token'[k])
  BY DEF ResetInv

LEMMA StartsReset == ASSUME Typed, ResetInv, NEW r \in Request, Starts(r) PROVE ResetInv'
  <1>1. PICK op \in Ops, arg \in Code, kind \in Kinds : Ask(r, op, arg, kind)
    BY StartsAsk DEF Asks
  <1>. DEFINE v == Sent(r, op, arg, FALSE)
  <1>2. Fresh(v, op, arg)
    BY FirstSent
  <1>3. req' = [req EXCEPT ![r] = v] /\ UNCHANGED <<server, renewal, ended>>
    BY <1>1, Zenon DEF Ask
  <1>. HIDE DEF v
  <1>4. v \in RequestType /\ Bound(v)
    BY <1>2 DEF Fresh, Bound, Spared
  <1>5. UNCHANGED token
    BY <1>3 DEF server
  <1>. QED  BY <1>3, <1>4, <1>5, ServerStays, TokensStay, ResetRequest

LEMMA ReadingReset == ASSUME Typed, ResetInv, NEW r \in Request, Reading(r) PROVE ResetInv'
  <1>1. UNCHANGED <<server, renewal, ended>> /\ UNCHANGED token
    BY DEF Reading, history, server
  <1>2. ServerMoves /\ \A k \in Tokens : GoodToken(token'[k])
    BY <1>1, ServerStays, TokensStay
  <1>3. ended <= user.password
    BY DEF ResetInv
  <1>4. ASSUME NEW s \in {"revoke", "read", "write"}, Goto(r, s) PROVE ResetInv'
    <2>0. s \in Steps
      BY DEF Steps
    <2>1. PICK v \in RequestType : req' = [req EXCEPT ![r] = v] /\ v.step = s
      BY <1>4, <2>0, GotoFact
    <2>2. Bound(v)
      BY <2>1 DEF Bound, Spared
    <2>. QED  BY <1>1, <1>2, <2>1, <2>2, ResetRequest
  <1>5. ASSUME NEW x \in {"ok", "400", "401", "ticket"}, Respond(r, x) PROVE ResetInv'
    <2>1. PICK v \in RequestType : req' = [req EXCEPT ![r] = v] /\ v.step = "answer"
      BY <1>5, RespondFact
    <2>2. Bound(v)
      BY <2>1 DEF Bound, Spared
    <2>. QED  BY <1>1, <1>2, <2>1, <2>2, ResetRequest
  <1>6. ASSUME NEW s \in Steps, Passed(r, s) PROVE ResetInv'
    <2>1. PICK v \in RequestType : req' = [req EXCEPT ![r] = v] /\ v.password = user.password
      BY <1>6, PassedFact
    <2>2. Bound(v)
      BY <1>3, <2>1 DEF Bound, Typed, Rows, UserType, ResetInv
    <2>. QED  BY <1>1, <1>2, <2>1, <2>2, ResetRequest
  <1>7. CASE Taken(r, user.codes \ {req[r].arg})
    <2>1. user.codes \ {req[r].arg} \in SUBSET Code
      BY DEF Typed, Rows, UserType
    <2>2. PICK v \in RequestType : req' = [req EXCEPT ![r] = v] /\ v.password = user.password
      BY <1>7, <2>1, TakenFact
    <2>3. Bound(v)
      BY <1>3, <2>2 DEF Bound, Typed, Rows, UserType, ResetInv
    <2>. QED  BY <1>1, <1>2, <2>2, <2>3, ResetRequest
  <1>. QED  BY <1>4, <1>5, <1>6, <1>7 DEF Reading

\* The token a login issues carries the password it was checked against.
LEMMA IssueReset == ASSUME Typed, ResetInv, NEW r \in Request, Issue(r) PROVE ResetInv'
  <1>1. PICK v \in RequestType : req' = [req EXCEPT ![r] = v] /\ v.step = "answer"
    BY IssuedFact
  <1>2. /\ IssueTokens(req[r].password, req[r].spared) /\ UNCHANGED <<user, renewal, ended>>
        /\ req[r].step = "issue"
    BY DEF Issue, history
  <1>3. /\ req[r].password \in Nat /\ req[r].spared \in BOOLEAN
        /\ req[r].password <= user.password
    BY DEF Typed, Calls, RequestType
  <1>4. req[r].password >= ended \/ req[r].spared
    BY <1>2 DEF ResetInv, Bound, Spared
  <1>5. /\ ServerMoves /\ Next1 \in Tokens
        /\ token'[Next1].password = req[r].password /\ token'[Next1].spared = req[r].spared
        /\ \A k \in Tokens \ {Next1} : token'[k] = token[k]
    BY <1>2, <1>3, IssueFact
  <1>6. \A k \in Tokens : GoodToken(token'[k])
    BY <1>4, <1>5 DEF ResetInv, GoodToken
  <1>7. Bound(v)
    BY <1>1 DEF Bound, Spared
  <1>. QED  BY <1>1, <1>2, <1>5, <1>6, <1>7, ResetRequest

LEMMA WritesReset == ASSUME Typed, ResetInv, NEW r \in Request, Writes(r) PROVE ResetInv'
  <1>1. ServerMoves
    BY UserWrites DEF Writes
  <1>2. UNCHANGED <<renewal, ended>> /\ UNCHANGED token
    BY DEF Writes, WriteSetup, WriteEnable, RemoveCode, WriteDisable, WriteLink, WriteReset, history
  <1>3. \A k \in Tokens : GoodToken(token'[k])
    BY <1>2, TokensStay
  <1>4. CASE WriteSetup(r) \/ WriteEnable(r) \/ WriteDisable(r) \/ WriteLink(r)
    <2>1. Respond(r, "ok")
      BY <1>4 DEF WriteSetup, WriteEnable, WriteDisable, WriteLink
    <2>2. PICK v \in RequestType : req' = [req EXCEPT ![r] = v] /\ v.step = "answer"
      BY <2>1, RespondFact
    <2>3. Bound(v)
      BY <2>2 DEF Bound, Spared
    <2>. QED  BY <1>1, <1>2, <1>3, <2>2, <2>3, ResetRequest
  <1>5. CASE RemoveCode(r)
    <2>1. PICK s \in {"issue", "write"} : Goto(r, s)
      BY <1>5 DEF RemoveCode
    <2>2. s \in Steps
      BY DEF Steps
    <2>3. PICK v \in RequestType :
             /\ req' = [req EXCEPT ![r] = v] /\ Further(v, req[r])
             /\ v.password = req[r].password
      BY <2>1, <2>2, GotoFact
    <2>4. Bound(v)
      <3>1. req[r].password >= ended \/ req[r].spared
        BY <1>5 DEF RemoveCode, ResetInv, Bound, Spared
      <3>. QED  BY <2>3, <3>1 DEF Bound, Further
    <2>. QED  BY <1>1, <1>2, <1>3, <2>3, <2>4, ResetRequest
  <1>6. CASE WriteReset(r)
    <2>1. Goto(r, "revoke") /\ "revoke" \in Steps
      BY <1>6 DEF WriteReset, Steps
    <2>2. PICK v \in RequestType : req' = [req EXCEPT ![r] = v] /\ v.step = "revoke"
      BY <2>1, GotoFact
    <2>3. Bound(v)
      BY <2>2 DEF Bound, Spared
    <2>. QED  BY <1>1, <1>2, <1>3, <2>2, <2>3, ResetRequest
  <1>. QED  BY <1>4, <1>5, <1>6 DEF Writes

LEMMA RevokePresentedReset ==
    ASSUME Typed, ResetInv, NEW r \in Request, RevokePresented(r) PROVE ResetInv'
  <1>1. Respond(r, "ok") /\ UNCHANGED <<user, renewal, ended>>
    BY DEF RevokePresented, history
  <1>2. \A k \in Tokens : token'[k] = token[k] \/ Revoked(k)
    BY DEF RevokePresented, Revoked
  <1>3. DOMAIN token' = Tokens /\ token' = [k \in Tokens |-> token'[k]]
    BY DEF RevokePresented
  <1>4. ServerMoves
    BY <1>1, <1>2, <1>3, RevokeMoves
  <1>5. PICK v \in RequestType : req' = [req EXCEPT ![r] = v] /\ v.step = "answer"
    BY <1>1, RespondFact
  <1>6. Bound(v)
    BY <1>5 DEF Bound, Spared
  <1>. QED  BY <1>1, <1>2, <1>4, <1>5, <1>6, TokensGood, ResetRequest

\* The reset itself: no token is live, and a call that had decided is spared.
LEMMA RevokeSessionsReset ==
    ASSUME Typed, ResetInv, NEW r \in Request, RevokeSessions(r) PROVE ResetInv'
  <1>1. RevokeAll /\ UNCHANGED user /\ ended' = user.password
    BY DEF RevokeSessions
  <1>2. \A k \in Tokens : token'[k].state # "live"
    BY <1>1, RevokeAllMoves
  <1>3. \A q \in Request : Spared(req'[q]) => req'[q].spared
    <2>1. ~Spared(req'[r])
      BY RevokeSessionsFact DEF Spared
    <2>2. \A q \in Request \ {r} : Spared(req'[q]) => req'[q].spared
      BY RevokeSessionsFact DEF SparedBy, Spared
    <2>. QED  BY <2>1, <2>2
  <1>4. \A t \in Tab : Spared(renewal'[t]) => renewal'[t].spared
    BY RevokeSessionsFact DEF Spared
  <1>5. ended' \in Nat /\ ended' <= user'.password
    BY <1>1 DEF Typed, Rows, UserType
  <1>. QED  BY <1>2, <1>3, <1>4, <1>5 DEF ResetInv, GoodToken, Bound, Spared

\* The refresh passes on what the token it found was bound to.
LEMMA RefreshFindReset ==
    ASSUME Typed, ResetInv, NEW t \in Tab, RefreshFind(t) PROVE ResetInv'
  <1>. DEFINE k == renewal[t].token
  <1>1. UNCHANGED <<req, ended>> /\ UNCHANGED token /\ ServerMoves
    BY ServerStays DEF RefreshFind, server
  <1>2. \A j \in Tokens : GoodToken(token'[j])
    BY <1>1, TokensStay
  <1>3. CASE RRespond(t, "401")
    <2>1. PICK v \in RenewalType : renewal' = [renewal EXCEPT ![t] = v] /\ v.step = "answer"
      BY <1>3, RRespondFact
    <2>2. Bound(v)
      BY <2>1 DEF Bound, Spared
    <2>. QED  BY <1>1, <1>2, <2>1, <2>2, ResetRenewal
  <1>4. CASE RStep(t, "family")
    <2>1. PICK v \in RenewalType : renewal' = [renewal EXCEPT ![t] = v] /\ v.step = "family"
      BY <1>4, RStepFact
    <2>2. Bound(v)
      BY <2>1 DEF Bound, Spared
    <2>. QED  BY <1>1, <1>2, <2>1, <2>2, ResetRenewal
  <1>5. CASE k # None /\ token[k].state \notin {"expired", "revoked"} /\ Found(t, k)
    <2>1. k \in Tokens /\ token[k].state = "live" /\ token[k] \in TokenType
      BY <1>5 DEF Typed, AllIssued, IsIssued, Rows, TokenType
    <2>2. PICK v \in RenewalType :
               /\ renewal' = [renewal EXCEPT ![t] = v]
               /\ v.password = token[k].password /\ (v.spared <=> token[k].spared)
      BY <1>5, <2>1, FoundFact
    <2>3. Bound(v)
      BY <2>1, <2>2 DEF ResetInv, GoodToken, Bound
    <2>. QED  BY <1>1, <1>2, <2>2, <2>3, ResetRenewal
  <1>. QED  BY <1>3, <1>4, <1>5 DEF RefreshFind, Found

LEMMA RevokeFamilyReset ==
    ASSUME Typed, ResetInv, NEW t \in Tab, RevokeFamily(t) PROVE ResetInv'
  <1>1. RevokeAll /\ RRespond(t, "401") /\ UNCHANGED user /\ UNCHANGED <<req, ended>>
    BY DEF RevokeFamily, history
  <1>2. ServerMoves /\ \A k \in Tokens : GoodToken(token'[k])
    BY <1>1, RevokeAllMoves DEF GoodToken
  <1>3. PICK v \in RenewalType : renewal' = [renewal EXCEPT ![t] = v] /\ v.step = "answer"
    BY <1>1, RRespondFact
  <1>4. Bound(v)
    BY <1>3 DEF Bound, Spared
  <1>. QED  BY <1>1, <1>2, <1>3, <1>4, ResetRenewal

LEMMA RefreshUpdateReset ==
    ASSUME Typed, ResetInv, NEW t \in Tab, RefreshUpdate(t) PROVE ResetInv'
  <1>1. RStep(t, "issue") /\ UNCHANGED <<req, ended>> /\ renewal[t].step = "update"
    BY DEF RefreshUpdate, history
  <1>2. ServerMoves /\ \A k \in Tokens : GoodToken(token'[k])
    BY RefreshUpdateFact, TokensGood
  <1>3. PICK v \in RenewalType :
          /\ renewal' = [renewal EXCEPT ![t] = v] /\ Ahead(v, renewal[t])
          /\ (v.spared <=> renewal[t].spared)
    BY <1>1, RStepFact
  <1>4. renewal[t].password >= ended \/ renewal[t].spared
    BY <1>1 DEF ResetInv, Bound, Spared
  <1>5. Bound(v)
    BY <1>3, <1>4 DEF Bound, Ahead
  <1>. QED  BY <1>1, <1>2, <1>3, <1>5, ResetRenewal

LEMMA RefreshIssueReset ==
    ASSUME Typed, ResetInv, NEW t \in Tab, RefreshIssue(t) PROVE ResetInv'
  <1>1. PICK v \in RenewalType : renewal' = [renewal EXCEPT ![t] = v] /\ v.step = "answer"
    BY RefreshIssueFact
  <1>2. /\ IssueTokens(renewal[t].password, renewal[t].spared) /\ UNCHANGED user
        /\ UNCHANGED <<req, ended>> /\ renewal[t].step = "issue"
    BY DEF RefreshIssue, history
  <1>3. /\ renewal[t].password \in Nat /\ renewal[t].spared \in BOOLEAN
        /\ renewal[t].password <= user.password
    BY DEF Typed, Calls, RenewalType
  <1>4. renewal[t].password >= ended \/ renewal[t].spared
    BY <1>2 DEF ResetInv, Bound, Spared
  <1>5. /\ ServerMoves /\ Next1 \in Tokens
        /\ token'[Next1].password = renewal[t].password
        /\ token'[Next1].spared = renewal[t].spared
        /\ \A k \in Tokens \ {Next1} : token'[k] = token[k]
    BY <1>2, <1>3, IssueFact
  <1>6. \A k \in Tokens : GoodToken(token'[k])
    BY <1>4, <1>5 DEF ResetInv, GoodToken
  <1>7. Bound(v)
    BY <1>1 DEF Bound, Spared
  <1>. QED  BY <1>1, <1>2, <1>5, <1>6, <1>7, ResetRenewal

LEMMA PanelReset == ASSUME Typed, ResetInv, PanelSteps PROVE ResetInv'
  <1>1. PanelStep
    BY PanelStepsMove
  <1>2. UNCHANGED ended
    BY DEF PanelSteps, Receive, Unauthorized, Renewed, NotRenewed, Dropped, LoadSession, Lapse,
           Lose, history
  <1>3. ServerMoves /\ UNCHANGED token
    BY <1>1, ServerStays DEF PanelStep, server
  <1>4. /\ \A r \in Request : Bound(req'[r])
        /\ \A t \in Tab : Bound(renewal'[t])
    BY <1>1 DEF PanelStep, ReqsMove, RenewalsMove, Milder, Calm, Bound, ResetInv
  <1>. QED  BY <1>2, <1>3, <1>4, TokensStay, ResetKept

LEMMA ClockReset == ASSUME Typed, ResetInv, UpdateUser \/ Expire PROVE ResetInv'
  <1>1. UNCHANGED <<req, renewal, ended>>
    BY DEF UpdateUser, Expire
  <1>2. \A r \in Request : Bound(req'[r])
    BY <1>1 DEF ResetInv
  <1>3. \A t \in Tab : Bound(renewal'[t])
    BY <1>1 DEF ResetInv
  <1>4. ASSUME UNCHANGED token, ServerMoves PROVE ResetInv'
    BY <1>1, <1>2, <1>3, <1>4, TokensStay, ResetKept
  <1>5. CASE UpdateUser
    BY <1>4, <1>5, UserFlags DEF UpdateUser
  <1>6. CASE user' = [user EXCEPT !.linkFresh = FALSE] /\ UNCHANGED token
    BY <1>4, <1>6, UserFlags
  <1>7. ASSUME NEW k \in Tokens, token[k].state = "live", Aged(k), UNCHANGED user
        PROVE  ResetInv'
    <2>1. token'[k].state = "expired" /\ \A j \in Tokens \ {k} : token'[j] = token[j]
      BY <1>7, AgedFact
    <2>2. \A j \in Tokens : GoodToken(token'[j])
      BY <2>1 DEF ResetInv, GoodToken
    <2>3. \A j \in Tokens : token[j].password <= user.password
      BY DEF Typed, Rows
    <2>4. \A j \in Tokens : /\ token'[j].password <= user.password
                            /\ token[j].state # "none" => token'[j].state # "none"
      BY <1>7, <2>3, AgedFact
    <2>5. ServerMoves
      BY <1>7, <2>4, AgedFact, TokensMove
    <2>. QED  BY <1>1, <1>2, <1>3, <2>2, <2>5, ResetKept
  <1>. QED  BY <1>5, <1>6, <1>7 DEF Expire, Aged

LEMMA ResetNext == ASSUME Typed, ResetInv, [Next]_vars PROVE ResetInv'
  <1>1. ASSUME NEW r \in Request,
               \/ Starts(r) \/ Reads(r) \/ Issue(r) \/ Writes(r)
               \/ RevokePresented(r) \/ RevokeSessions(r)
        PROVE  ResetInv'
    BY <1>1, StartsReset, ReadsRead, ReadingReset, IssueReset, WritesReset,
       RevokePresentedReset, RevokeSessionsReset
  <1>2. ASSUME NEW t \in Tab,
               \/ RefreshFind(t) \/ RevokeFamily(t) \/ RefreshUpdate(t) \/ RefreshIssue(t)
        PROVE  ResetInv'
    BY <1>2, RefreshFindReset, RevokeFamilyReset, RefreshUpdateReset, RefreshIssueReset
  <1>3. CASE PanelSteps \/ UpdateUser \/ Expire
    BY <1>3, PanelReset, ClockReset
  <1>4. CASE UNCHANGED vars
    BY <1>4 DEF vars, server, history, ResetInv, GoodToken, Bound, Spared
  <1>. QED  BY <1>1, <1>2, <1>3, <1>4, StepsOfNext

\* After a password reset the only sessions of the old password left are those a call
\* that had already passed its check was opening at that moment, and their successors.
THEOREM ResetSafety == Spec => []OldSessionsEnd
  <1>1. Typed /\ ResetInv /\ [Next]_vars => ResetInv'
    BY ResetNext
  <1>2. ResetInv => OldSessionsEnd
    BY DEF ResetInv, GoodToken, OldSessionsEnd
  <1>. QED  BY <1>1, <1>2, ResetInitially, AlwaysTyped, PTL DEF Spec

-----------------------------------------------------------------------------
(***************************************************************************)
(* The second factor.  While no two handlers worked on it at once, the one *)
(* that is about to write still agrees with the row it read.               *)
(***************************************************************************)
Fit(v) ==
    /\ v.op = "setup" /\ v.step = "write" => ~user.totp
    /\ v.op = "enable" /\ v.step = "write"
           => ~user.totp /\ user.secret # None /\ v.arg = Totp(user.secret)
    /\ v.step = "remove" => /\ v.op \in {"mfa", "disable"} /\ user.totp
                            /\ v.codes = user.codes \ {v.arg}

Alone == \A r, q \in Request : r # q => ~(req[r].op \in OnFactor /\ req[q].op \in OnFactor)

\* A secret not yet confirmed goes with the codes shown with it.
Agrees ==
    /\ user.totp => user.secret = confirmed /\ user.codes = CodesOf(confirmed) \ spent
    /\ ~user.totp /\ user.secret # None => user.codes = CodesOf(user.secret)

FactorInv == ~crossed => Alone /\ Agrees /\ \A r \in Request : Fit(req[r])

SameFactor == /\ user'.totp <=> user.totp
              /\ user'.secret = user.secret /\ user'.codes = user.codes

LEMMA FactorInitially == Init => FactorInv
  <1>. SUFFICES ASSUME Init PROVE FactorInv
    OBVIOUS
  <1>1. \A r \in Request : req[r].op = "none" /\ req[r].step = "idle"
    BY Blanks DEF Init
  <1>2. Alone /\ \A r \in Request : Fit(req[r])
    BY <1>1 DEF Alone, Fit, OnFactor
  <1>3. Agrees
    BY DEF Init, Agrees
  <1>. QED  BY <1>2, <1>3 DEF FactorInv

\* Steps that leave the factor alone: no call gains an operation.
LEMMA FactorKept ==
    ASSUME Typed, FactorInv, SameFactor, UNCHANGED <<confirmed, spent, crossed>>,
           \A r \in Request : req'[r].op \in {req[r].op, "none"},
           ~crossed => \A r \in Request : Fit(req'[r])
    PROVE  FactorInv'
  <1>. SUFFICES ASSUME ~crossed PROVE Alone' /\ Agrees' /\ (\A r \in Request : Fit(req[r]))'
    BY DEF FactorInv
  <1>1. Alone /\ Agrees
    BY DEF FactorInv
  <1>2. Alone'
    BY <1>1 DEF Alone, OnFactor
  <1>3. Agrees'
    BY <1>1 DEF Agrees, SameFactor
  <1>4. (\A r \in Request : Fit(req[r]))'
    BY DEF Fit, SameFactor
  <1>. QED  BY <1>2, <1>3, <1>4

LEMMA FactorRequest ==
    ASSUME Typed, FactorInv, SameFactor, UNCHANGED <<confirmed, spent, crossed>>,
           NEW r \in Request, NEW v \in RequestType, v.op \in {req[r].op, "none"}, Fit(v),
           req' = [req EXCEPT ![r] = v]
    PROVE  FactorInv'
  <1>1. req'[r] = v /\ \A q \in Request \ {r} : req'[q] = req[q]
    BY DEF Typed, Calls
  <1>2. \A q \in Request : req'[q].op \in {req[q].op, "none"}
    BY <1>1
  <1>3. ~crossed => \A q \in Request : Fit(req'[q])
    BY <1>1 DEF FactorInv
  <1>. QED  BY <1>2, <1>3, FactorKept

LEMMA FactorStays ==
    ASSUME Typed, FactorInv, SameFactor, UNCHANGED <<req, confirmed, spent, crossed>>
    PROVE  FactorInv'
  <1>1. ~crossed => \A r \in Request : Fit(req'[r])
    BY DEF FactorInv
  <1>. QED  BY <1>1, FactorKept

LEMMA UserStays == ASSUME UNCHANGED user PROVE SameFactor
  BY DEF SameFactor

LEMMA IdleFits == \A v : v.step \notin {"write", "remove"} => Fit(v)
  BY DEF Fit

LEMMA StartsFactor == ASSUME Typed, FactorInv, NEW r \in Request, Starts(r) PROVE FactorInv'
  <1>1. PICK op \in Ops, arg \in Code, kind \in Kinds : Ask(r, op, arg, kind)
    BY StartsAsk DEF Asks
  <1>. DEFINE v == Sent(r, op, arg, FALSE)
  <1>2. Fresh(v, op, arg)
    BY FirstSent
  <1>3. req' = [req EXCEPT ![r] = v]
    BY <1>1, Zenon DEF Ask
  <1>. HIDE DEF v
  <1>4. /\ UNCHANGED <<user, confirmed, spent>>
        /\ crossed' = (crossed \/ (op \in OnFactor /\ \E q \in Request \ {r} : req[q].op \in OnFactor))
    BY <1>1 DEF Ask, server
  <1>5. req'[r] = v /\ \A q \in Request \ {r} : req'[q] = req[q]
    BY <1>3 DEF Typed, Calls
  <1>6. v.op = op /\ Fit(v)
    BY <1>2, IdleFits DEF Fresh
  <1>. SUFFICES ASSUME ~crossed'
                PROVE  Alone' /\ Agrees' /\ (\A q \in Request : Fit(req[q]))'
    BY DEF FactorInv
  <1>7. /\ ~crossed /\ ~(op \in OnFactor /\ \E q \in Request \ {r} : req[q].op \in OnFactor)
    BY <1>4
  <1>8. Alone /\ Agrees /\ \A q \in Request : Fit(req[q])
    BY <1>7 DEF FactorInv
  <1>9. Alone'
    BY <1>5, <1>6, <1>7, <1>8 DEF Alone
  <1>10. Agrees'
    BY <1>4, <1>8 DEF Agrees
  <1>11. (\A q \in Request : Fit(req[q]))'
    BY <1>4, <1>5, <1>6, <1>8 DEF Fit
  <1>. QED  BY <1>9, <1>10, <1>11

-----------------------------------------------------------------------------
(***************************************************************************)
(* The handlers that read decide on the row as it is.                      *)
(***************************************************************************)
LEMMA RespondFactor ==
    ASSUME Typed, FactorInv, SameFactor, UNCHANGED <<confirmed, spent, crossed>>,
           NEW r \in Request, NEW x \in {"ok", "400", "401", "ticket"}, Respond(r, x)
    PROVE  FactorInv'
  <1>1. PICK v \in RequestType :
          req' = [req EXCEPT ![r] = v] /\ v.step = "answer" /\ Further(v, req[r])
    BY RespondFact
  <1>2. Fit(v) /\ v.op = req[r].op
    BY <1>1 DEF Fit, Further
  <1>. QED  BY <1>1, <1>2, FactorRequest

LEMMA GotoFactor ==
    ASSUME Typed, FactorInv, UNCHANGED <<user, confirmed, spent, crossed>>,
           NEW r \in Request, NEW s \in {"revoke", "read", "write"}, Goto(r, s),
           s = "write" /\ req[r].op = "setup" => ~user.totp,
           s = "write" /\ req[r].op = "enable"
               => ~user.totp /\ user.secret # None /\ req[r].arg = Totp(user.secret)
    PROVE  FactorInv'
  <1>1. s \in Steps
    BY DEF Steps
  <1>2. PICK v \in RequestType : req' = [req EXCEPT ![r] = v] /\ v.step = s /\ Further(v, req[r])
    BY <1>1, GotoFact
  <1>3. Fit(v) /\ v.op = req[r].op
    BY <1>2 DEF Fit, Further
  <1>. QED  BY <1>2, <1>3, UserStays, FactorRequest

LEMMA PassedFactor ==
    ASSUME Typed, FactorInv, UNCHANGED <<user, confirmed, spent, crossed>>,
           NEW r \in Request, NEW s \in {"issue", "write"}, Passed(r, s),
           s = "write" => req[r].op = "disable"
    PROVE  FactorInv'
  <1>1. s \in Steps
    BY DEF Steps
  <1>2. PICK v \in RequestType : req' = [req EXCEPT ![r] = v] /\ v.step = s /\ Further(v, req[r])
    BY <1>1, PassedFact
  <1>3. Fit(v) /\ v.op = req[r].op
    BY <1>2 DEF Fit, Further
  <1>. QED  BY <1>2, <1>3, UserStays, FactorRequest

LEMMA TakenFactor ==
    ASSUME Typed, FactorInv, UNCHANGED <<user, confirmed, spent, crossed>>,
           NEW r \in Request, Taken(r, user.codes \ {req[r].arg}),
           req[r].op \in {"mfa", "disable"}, user.totp
    PROVE  FactorInv'
  <1>1. user.codes \ {req[r].arg} \in SUBSET Code
    BY DEF Typed, Rows, UserType
  <1>2. PICK v \in RequestType :
          /\ req' = [req EXCEPT ![r] = v] /\ v.step = "remove" /\ Further(v, req[r])
          /\ v.codes = user.codes \ {req[r].arg}
    BY <1>1, TakenFact
  <1>3. Fit(v) /\ v.op = req[r].op
    BY <1>2 DEF Fit, Further
  <1>. QED  BY <1>2, <1>3, UserStays, FactorRequest

LEMMA ReadsFactor == ASSUME Typed, FactorInv, NEW r \in Request, Reads(r) PROVE FactorInv'
  <1>1. UNCHANGED <<user, confirmed, spent, crossed>> /\ SameFactor
    BY ReadsRead, UserStays DEF Reading, server, history
  <1>2. ASSUME NEW x \in {"ok", "400", "401", "ticket"}, Respond(r, x) PROVE FactorInv'
    BY <1>1, <1>2, RespondFactor
  <1>3. CASE Validate(r)
    BY <1>1, <1>2, <1>3, GotoFactor DEF Validate
  <1>4. CASE ReadLogin(r)
    BY <1>1, <1>2, <1>4, PassedFactor DEF ReadLogin, Passed
  <1>5. CASE ReadSetup(r)
    BY <1>1, <1>2, <1>5, GotoFactor DEF ReadSetup
  <1>6. CASE ReadEnable(r)
    BY <1>1, <1>2, <1>6, GotoFactor DEF ReadEnable
  <1>7. CASE ReadReset(r)
    BY <1>1, <1>2, <1>7, GotoFactor DEF ReadReset
  <1>8. CASE ReadDisable(r)
    BY <1>1, <1>2, <1>8, PassedFactor, TakenFactor
       DEF ReadDisable, VerifyTotpOrBackupCode, Passed, Taken
  <1>9. CASE ReadMfaLogin(r)
    BY <1>1, <1>2, <1>9, PassedFactor, TakenFactor
       DEF ReadMfaLogin, VerifyTotpOrBackupCode, Passed, Taken
  <1>. QED  BY <1>3, <1>4, <1>5, <1>6, <1>7, <1>8, <1>9 DEF Reads

-----------------------------------------------------------------------------
(***************************************************************************)
(* The handlers that write the factor: nothing else works on it meanwhile. *)
(***************************************************************************)
LEMMA LoneWrite ==
    ASSUME Typed, FactorInv, ~crossed, NEW r \in Request, req[r].op \in OnFactor,
           NEW v \in RequestType, v.op = req[r].op,
           v.step \notin {"write", "remove"} \/ (v.step = "write" /\ v.op = "disable"),
           req' = [req EXCEPT ![r] = v]
    PROVE  Alone' /\ (\A q \in Request : Fit(req[q]))'
  <1>1. req'[r] = v /\ \A q \in Request \ {r} : req'[q] = req[q]
    BY DEF Typed, Calls
  <1>2. Alone /\ \A q \in Request : Fit(req[q])
    BY DEF FactorInv
  <1>3. Alone'
    BY <1>1, <1>2 DEF Alone
  <1>4. \A q \in Request \ {r} : req[q].op \notin OnFactor /\ req[q].step # "remove"
    BY <1>2 DEF Alone, Fit, OnFactor
  <1>5. ASSUME NEW q \in Request PROVE Fit(req[q])'
    BY <1>1, <1>4 DEF Fit, OnFactor
  <1>. QED  BY <1>3, <1>5

LEMMA SetupFactor == ASSUME Typed, FactorInv, NEW r \in Request, WriteSetup(r) PROVE FactorInv'
  <1>. DEFINE n == user.setups + 1
              u == [[[user EXCEPT !.secret = n] EXCEPT !.setups = n] EXCEPT !.codes = CodesOf(n)]
  <1>1. user' = u
    BY Zenon DEF WriteSetup
  <1>2. user \in UserType
    BY DEF Typed, Rows
  <1>. HIDE DEF n
  <1>3. u.secret = n /\ u.codes = CodesOf(n) /\ (u.totp <=> user.totp)
    BY <1>2 DEF UserType
  <1>. HIDE DEF u
  <1>4. Respond(r, "ok") /\ req[r].op = "setup" /\ req[r].step = "write"
        /\ UNCHANGED <<confirmed, spent, crossed>>
    BY DEF WriteSetup, history
  <1>5. PICK v \in RequestType :
          req' = [req EXCEPT ![r] = v] /\ v.step = "answer" /\ Further(v, req[r])
    BY <1>4, RespondFact
  <1>. SUFFICES ASSUME ~crossed PROVE Alone' /\ Agrees' /\ (\A q \in Request : Fit(req[q]))'
    BY <1>4 DEF FactorInv
  <1>6. ~user.totp
    BY <1>4 DEF FactorInv, Fit
  <1>7. Agrees'
    BY <1>1, <1>3, <1>6 DEF Agrees
  <1>8. Alone' /\ (\A q \in Request : Fit(req[q]))'
    BY <1>4, <1>5, LoneWrite DEF Further, OnFactor
  <1>. QED  BY <1>7, <1>8

LEMMA EnableFactor == ASSUME Typed, FactorInv, NEW r \in Request, WriteEnable(r) PROVE FactorInv'
  <1>1. user' = [user EXCEPT !.totp = TRUE] /\ user \in UserType
    BY DEF WriteEnable, Typed, Rows
  <1>2. user'.secret = user.secret /\ user'.codes = user.codes /\ user'.totp
    BY <1>1 DEF UserType
  <1>3. /\ Respond(r, "ok") /\ req[r].op = "enable" /\ req[r].step = "write"
        /\ confirmed' = req[r].arg[1] /\ spent' = {} /\ UNCHANGED crossed
    BY DEF WriteEnable
  <1>4. PICK v \in RequestType :
          req' = [req EXCEPT ![r] = v] /\ v.step = "answer" /\ Further(v, req[r])
    BY <1>3, RespondFact
  <1>. SUFFICES ASSUME ~crossed PROVE Alone' /\ Agrees' /\ (\A q \in Request : Fit(req[q]))'
    BY <1>3 DEF FactorInv
  <1>5. /\ ~user.totp /\ user.secret # None /\ req[r].arg = Totp(user.secret)
        /\ Agrees
    BY <1>3 DEF FactorInv, Fit
  <1>6. req[r].arg[1] = user.secret /\ user.codes = CodesOf(user.secret)
    BY <1>5 DEF Agrees, Totp
  <1>7. Agrees'
    BY <1>2, <1>3, <1>6 DEF Agrees
  <1>8. Alone' /\ (\A q \in Request : Fit(req[q]))'
    BY <1>3, <1>4, LoneWrite DEF Further, OnFactor
  <1>. QED  BY <1>7, <1>8

LEMMA RemoveFactor == ASSUME Typed, FactorInv, NEW r \in Request, RemoveCode(r) PROVE FactorInv'
  <1>1. user' = [user EXCEPT !.codes = req[r].codes] /\ user \in UserType
    BY DEF RemoveCode, Typed, Rows
  <1>2. user'.secret = user.secret /\ user'.codes = req[r].codes /\ (user'.totp <=> user.totp)
    BY <1>1 DEF UserType
  <1>. DEFINE s == IF req[r].op = "mfa" THEN "issue" ELSE "write"
  <1>3. /\ Goto(r, s) /\ req[r].step = "remove"
        /\ spent' = spent \cup {req[r].arg} /\ UNCHANGED <<confirmed, crossed>>
    BY DEF RemoveCode
  <1>4. s \in Steps
    BY DEF Steps
  <1>5. PICK v \in RequestType :
          req' = [req EXCEPT ![r] = v] /\ v.step = s /\ Further(v, req[r])
    BY <1>3, <1>4, GotoFact
  <1>. SUFFICES ASSUME ~crossed PROVE Alone' /\ Agrees' /\ (\A q \in Request : Fit(req[q]))'
    BY <1>3 DEF FactorInv
  <1>6. /\ req[r].op \in {"mfa", "disable"} /\ user.totp
        /\ req[r].codes = user.codes \ {req[r].arg} /\ Agrees
    BY <1>3 DEF FactorInv, Fit
  <1>7. Agrees'
    <2>1. user.secret = confirmed /\ user.codes = CodesOf(confirmed) \ spent
      BY <1>6 DEF Agrees
    <2>2. user'.codes = CodesOf(confirmed) \ (spent \cup {req[r].arg})
      BY <1>2, <1>6, <2>1
    <2>. QED  BY <1>2, <1>3, <1>6, <2>1, <2>2 DEF Agrees
  <1>8. Alone' /\ (\A q \in Request : Fit(req[q]))'
    <2>1. v.op = req[r].op /\ req[r].op \in OnFactor
      BY <1>5, <1>6 DEF Further, OnFactor
    <2>2. v.step \notin {"write", "remove"} \/ (v.step = "write" /\ v.op = "disable")
      BY <1>5, <1>6, <2>1
    <2>. QED  BY <1>5, <2>1, <2>2, LoneWrite
  <1>. QED  BY <1>7, <1>8

LEMMA DisableFactor == ASSUME Typed, FactorInv, NEW r \in Request, WriteDisable(r) PROVE FactorInv'
  <1>. DEFINE u == [[[user EXCEPT !.totp = FALSE] EXCEPT !.secret = None] EXCEPT !.codes = {}]
  <1>1. user' = u
    BY Zenon DEF WriteDisable
  <1>2. user \in UserType
    BY DEF Typed, Rows
  <1>3. u.secret = None /\ ~u.totp
    BY <1>2 DEF UserType
  <1>. HIDE DEF u
  <1>4. Respond(r, "ok") /\ req[r].op = "disable" /\ UNCHANGED <<confirmed, spent, crossed>>
    BY DEF WriteDisable, history
  <1>5. PICK v \in RequestType :
          req' = [req EXCEPT ![r] = v] /\ v.step = "answer" /\ Further(v, req[r])
    BY <1>4, RespondFact
  <1>. SUFFICES ASSUME ~crossed PROVE Alone' /\ Agrees' /\ (\A q \in Request : Fit(req[q]))'
    BY <1>4 DEF FactorInv
  <1>6. Agrees'
    BY <1>1, <1>3 DEF Agrees
  <1>7. Alone' /\ (\A q \in Request : Fit(req[q]))'
    BY <1>4, <1>5, LoneWrite DEF Further, OnFactor
  <1>. QED  BY <1>6, <1>7

\* A link and a reset write other fields of the same row.
LEMMA LinkFactor ==
    ASSUME Typed, FactorInv, NEW r \in Request, WriteLink(r) \/ WriteReset(r) PROVE FactorInv'
  <1>0. user \in UserType
    BY DEF Typed, Rows
  <1>1. CASE WriteLink(r)
    <2>. DEFINE n == user.links + 1
                u == [[[user EXCEPT !.link = n] EXCEPT !.links = n] EXCEPT !.linkFresh = TRUE]
    <2>1. user' = u
      BY <1>1, Zenon DEF WriteLink
    <2>2. u.secret = user.secret /\ u.codes = user.codes /\ (u.totp <=> user.totp)
      BY <1>0 DEF UserType
    <2>. HIDE DEF u
    <2>3. SameFactor
      BY <2>1, <2>2 DEF SameFactor
    <2>. QED  BY <1>1, <2>3, RespondFactor DEF WriteLink, history
  <1>2. CASE WriteReset(r)
    <2>. DEFINE n == user.password + 1
                u == [[user EXCEPT !.password = n] EXCEPT !.link = None]
    <2>1. user' = u
      BY <1>2, Zenon DEF WriteReset
    <2>2. u.secret = user.secret /\ u.codes = user.codes /\ (u.totp <=> user.totp)
      BY <1>0 DEF UserType
    <2>. HIDE DEF u
    <2>3. SameFactor
      BY <2>1, <2>2 DEF SameFactor
    <2>4. Goto(r, "revoke") /\ "revoke" \in Steps /\ UNCHANGED <<confirmed, spent, crossed>>
      BY <1>2 DEF WriteReset, Steps, history
    <2>5. PICK v \in RequestType :
            req' = [req EXCEPT ![r] = v] /\ v.step = "revoke" /\ Further(v, req[r])
      BY <2>4, GotoFact
    <2>6. Fit(v) /\ v.op = req[r].op
      BY <2>5 DEF Fit, Further
    <2>. QED  BY <2>3, <2>4, <2>5, <2>6, FactorRequest
  <1>. QED  BY <1>1, <1>2

-----------------------------------------------------------------------------
(***************************************************************************)
(* The steps that do not touch the factor.                                 *)
(***************************************************************************)
LEMMA TokensFactor ==
    ASSUME Typed, FactorInv, NEW r \in Request,
           Issue(r) \/ RevokePresented(r) \/ RevokeSessions(r)
    PROVE  FactorInv'
  <1>1. UNCHANGED <<user, confirmed, spent, crossed>>
    BY DEF Issue, RevokePresented, RevokeSessions, history
  <1>2. CASE Issue(r)
    <2>1. PICK v \in RequestType :
            req' = [req EXCEPT ![r] = v] /\ v.step = "answer" /\ v.op = req[r].op
      BY <1>2, IssuedFact
    <2>2. Fit(v)
      BY <2>1 DEF Fit
    <2>. QED  BY <1>1, <2>1, <2>2, UserStays, FactorRequest
  <1>3. CASE RevokePresented(r)
    BY <1>1, <1>3, UserStays, RespondFactor DEF RevokePresented
  <1>4. CASE RevokeSessions(r)
    <2>1. /\ \A q \in Request \ {r} : /\ req'[q].op = req[q].op /\ req'[q].arg = req[q].arg
                                      /\ req'[q].step = req[q].step
                                      /\ req'[q].codes = req[q].codes
          /\ req'[r].op = req[r].op /\ req'[r].step = "answer"
      BY <1>4, RevokeSessionsFact DEF SparedBy, RevokeSessions
    <2>2. \A q \in Request : req'[q].op \in {req[q].op, "none"}
      BY <2>1
    <2>3. ~crossed => \A q \in Request : Fit(req'[q])
      BY <2>1 DEF FactorInv, Fit
    <2>. QED  BY <1>1, <2>2, <2>3, UserStays, FactorKept
  <1>. QED  BY <1>2, <1>3, <1>4

LEMMA PanelFactor == ASSUME Typed, FactorInv, PanelSteps PROVE FactorInv'
  <1>1. PanelStep
    BY PanelStepsMove
  <1>2. UNCHANGED <<confirmed, spent, crossed>>
    BY DEF PanelSteps, Receive, Unauthorized, Renewed, NotRenewed, Dropped, LoadSession, Lapse,
           Lose, history
  <1>3. SameFactor
    BY <1>1, UserStays DEF PanelStep, server
  <1>4. \A r \in Request : Meek(req'[r], req[r])
    BY <1>1 DEF PanelStep, ReqsMove, Milder
  <1>5. \A r \in Request : req'[r].op \in {req[r].op, "none"}
    BY <1>4 DEF Meek
  <1>6. ~crossed => \A r \in Request : Fit(req'[r])
    BY <1>4 DEF FactorInv, Fit, Meek
  <1>. QED  BY <1>2, <1>3, <1>5, <1>6, FactorKept

LEMMA ElseFactor ==
    ASSUME Typed, FactorInv,
           \/ \E t \in Tab : \/ RefreshFind(t) \/ RevokeFamily(t) \/ RefreshUpdate(t)
                             \/ RefreshIssue(t)
           \/ UpdateUser \/ Expire \/ UNCHANGED vars
    PROVE  FactorInv'
  <1>1. UNCHANGED <<req, confirmed, spent, crossed>>
    BY DEF RefreshFind, RevokeFamily, RefreshUpdate, RefreshIssue, UpdateUser, Expire, vars,
           history
  <1>2. CASE \/ \E t \in Tab : \/ RefreshFind(t) \/ RevokeFamily(t) \/ RefreshUpdate(t)
                               \/ RefreshIssue(t)
             \/ UNCHANGED vars
    <2>1. UNCHANGED user
      BY <1>2 DEF RefreshFind, RevokeFamily, RefreshUpdate, RefreshIssue, vars, server
    <2>. QED  BY <1>1, <2>1, UserStays, FactorStays
  <1>3. CASE UpdateUser \/ Expire
    <2>1. user \in UserType
      BY DEF Typed, Rows
    <2>2. CASE user' = [user EXCEPT !.active = ~@]
      BY <1>1, <2>1, <2>2, FactorStays DEF UserType, SameFactor
    <2>3. CASE user' = [user EXCEPT !.linkFresh = FALSE]
      BY <1>1, <2>1, <2>3, FactorStays DEF UserType, SameFactor
    <2>4. CASE UNCHANGED user
      BY <1>1, <2>4, UserStays, FactorStays
    <2>. QED  BY <1>3, <2>2, <2>3, <2>4 DEF UpdateUser, Expire
  <1>. QED  BY <1>2, <1>3

LEMMA FactorNext == ASSUME Typed, FactorInv, [Next]_vars PROVE FactorInv'
  <1>1. ASSUME NEW r \in Request,
               \/ Starts(r) \/ Reads(r) \/ Issue(r) \/ Writes(r)
               \/ RevokePresented(r) \/ RevokeSessions(r)
        PROVE  FactorInv'
    BY <1>1, StartsFactor, ReadsFactor, TokensFactor, SetupFactor, EnableFactor, RemoveFactor,
       DisableFactor, LinkFactor DEF Writes
  <1>2. CASE PanelSteps
    BY <1>2, PanelFactor
  <1>. QED  BY <1>1, <1>2, StepsOfNext, ElseFactor

\* While the second factor is on, the secret is the one a code was confirmed for, and
\* the recovery codes are those shown with it less the ones accepted since, unless two
\* handlers worked on it at once.
THEOREM SecondFactorSafety == Spec => []SecondFactorAgrees
  <1>1. Typed /\ FactorInv /\ [Next]_vars => FactorInv'
    BY FactorNext
  <1>2. FactorInv => SecondFactorAgrees
    BY DEF FactorInv, Agrees, SecondFactorAgrees
  <1>. QED  BY <1>1, <1>2, FactorInitially, AlwaysTyped, PTL DEF Spec

-----------------------------------------------------------------------------
(***************************************************************************)
(* Why a token is presented twice.  As long as nothing explains it, a      *)
(* token has one holder: a cookie, with the renewal or the logouts that    *)
(* present it, or an answer on its way to a browser.  A cookie is revoked  *)
(* only while an answer that replaces or clears it is on its way.          *)
(***************************************************************************)
Opens(v)    == v.op \in {"login", "mfa"} /\ v.step = "answer" /\ v.result = "ok"
Replaces(w) == w.step = "answer" /\ w.result = "ok"
Spends(w)   == w.step = "issue" \/ Replaces(w)
Clears(v)   == Presents(v) /\ v.step = "answer"
Dead(k)     == k \in Tokens /\ token[k].state = "revoked"

\* A token nobody holds yet.
Unused(k) ==
    /\ IsIssued(k) /\ ~Dead(k) /\ \A b \in Browser : cookie[b] # k
    /\ \A t \in Tab : renewal[t].token # k
    /\ \A r \in Request : Presents(req[r]) => req[r].token # k

OneHolder ==
    /\ \A b, c \in Browser : cookie[b] = cookie[c] /\ cookie[b] # None => b = c
    /\ \A t, u \in Tab : renewal[t].token = renewal[u].token /\ renewal[t].token # None => t = u
    /\ \A t \in Tab, b \in Browser : renewal[t].token = cookie[b] /\ cookie[b] # None => B(t) = b
    /\ \A r \in Request, b \in Browser :
         Presents(req[r]) /\ req[r].token = cookie[b] /\ cookie[b] # None => B(T(r)) = b
    /\ \A r \in Request, t \in Tab :
         Presents(req[r]) /\ req[r].token = renewal[t].token => renewal[t].token = None

Newborn ==
    /\ \A r \in Request : Opens(req[r]) => Unused(req[r].born)
    /\ \A t \in Tab : Replaces(renewal[t]) => Unused(renewal[t].born)
    /\ \A r, q \in Request : Opens(req[r]) /\ Opens(req[q]) /\ req[r].born = req[q].born => r = q
    /\ \A t, u \in Tab :
         Replaces(renewal[t]) /\ Replaces(renewal[u]) /\ renewal[t].born = renewal[u].born => t = u
    /\ \A r \in Request, t \in Tab :
         Opens(req[r]) /\ Replaces(renewal[t]) => req[r].born # renewal[t].born

Sane(w)   == w.step # "family" /\ ~w.lost /\ (w.step = "answer" => w.result \in {"ok", "401"})
Polite(v) == /\ Presents(v) => ~v.lost /\ (v.step = "answer" => v.result = "ok")
             /\ v.step = "issue" => v.op # "logout"

Replaced(b) == \/ \E t \in Tab : renewal[t].token = cookie[b] /\ Spends(renewal[t])
               \/ \E r \in Request : Clears(req[r]) /\ req[r].token = cookie[b]
Alive ==
    /\ \A b \in Browser : Dead(cookie[b]) => Replaced(b)
    /\ \A t \in Tab : /\ Sane(renewal[t])
                      /\ renewal[t].step \in {"find", "update"} => ~Dead(renewal[t].token)
    /\ \A r \in Request : /\ Polite(req[r])
                          /\ Presents(req[r]) /\ req[r].token # None => IsIssued(req[r].token)

\* Tokens are issued in order, so that the next one is new.
InOrder == \A j, k \in Tokens : j <= k /\ IsIssued(k) => IsIssued(j)

Sole == OneHolder /\ Newborn /\ Alive /\ InOrder

LEMMA SoleInitially == Init => Sole
  <1>. SUFFICES ASSUME Init PROVE Sole
    OBVIOUS
  <1>1. /\ \A r \in Request : req[r] = IdleReq
        /\ \A t \in Tab : renewal[t] = IdleRenewal
        /\ \A b \in Browser : cookie[b] = IF b = Home THEN 1 ELSE None
        /\ \A k \in Tokens : token[k].state = IF k = 1 THEN "live" ELSE "none"
    BY DEF Init
  <1>2. /\ ~Presents(IdleReq) /\ ~Opens(IdleReq) /\ Polite(IdleReq)
        /\ ~Replaces(IdleRenewal) /\ Sane(IdleRenewal) /\ IdleRenewal.token = None
        /\ IdleRenewal.step = "none" /\ \A k \in Tokens : ~Dead(k)
    BY <1>1 DEF IdleReq, IdleRenewal, Presents, Opens, Polite, Replaces, Sane, Dead
  <1>3. OneHolder
    BY <1>1, <1>2 DEF OneHolder, None
  <1>4. Newborn
    BY <1>1, <1>2 DEF Newborn
  <1>5. Alive
    BY <1>1, <1>2 DEF Alive, Dead
  <1>6. InOrder
    BY <1>1, Places DEF InOrder, IsIssued, Tokens
  <1>. QED  BY <1>3, <1>4, <1>5, <1>6 DEF Sole

\* A request or a renewal that holds no more than it did, and still brings what it had.
Soft(v, x) ==
    /\ Presents(v) => Presents(x) /\ v.token = x.token
    /\ Opens(v) => Opens(x) /\ v.born = x.born
    /\ Clears(x) => Clears(v) /\ v.token = x.token
    /\ Polite(v)
Mild(w, x) ==
    /\ w.token \in {x.token, None}
    /\ Replaces(w) => Replaces(x) /\ w.born = x.born
    /\ Spends(x) => Spends(w) /\ w.token = x.token
    /\ w.step \in {"find", "update"} => x.step \in {"find", "update"} /\ w.token = x.token
    /\ Sane(w)
SameRows == \A k \in Tokens : /\ token'[k].state = "revoked" <=> token[k].state = "revoked"
                              /\ token'[k].state = "none" <=> token[k].state = "none"

LEMMA SoleKept ==
    ASSUME Sole, UNCHANGED cookie, SameRows,
           \A r \in Request : Soft(req'[r], req[r]),
           \A t \in Tab : Mild(renewal'[t], renewal[t])
    PROVE  Sole'
  <1>1. \A k : (Dead(k)' <=> Dead(k)) /\ (IsIssued(k)' <=> IsIssued(k))
    BY DEF SameRows, Dead, IsIssued
  <1>2. ASSUME NEW k, Unused(k) PROVE Unused(k)'
    BY <1>1, <1>2, Places DEF Unused, Soft, Mild, IsIssued
  <1>3. OneHolder'
    BY DEF Sole, OneHolder, Soft, Mild
  <1>4. Newborn'
    BY <1>2 DEF Sole, Newborn, Soft, Mild
  <1>5. Alive'
    <2>1. ASSUME NEW b \in Browser, Dead(cookie[b])' PROVE Replaced(b)'
      <3>1. Replaced(b)
        BY <1>1, <2>1 DEF Sole, Alive
      <3>. QED  BY <3>1 DEF Replaced, Soft, Mild
    <2>2. \A t \in Tab : Sane(renewal'[t])
            /\ (renewal'[t].step \in {"find", "update"} => ~Dead(renewal'[t].token))
      BY DEF Sole, Alive, Mild
    <2>3. (\A t \in Tab : renewal[t].step \in {"find", "update"} => ~Dead(renewal[t].token))'
      BY <1>1, <2>2
    <2>4. \A r \in Request : /\ Polite(req'[r])
                             /\ Presents(req'[r]) /\ req'[r].token # None => IsIssued(req'[r].token)
      BY DEF Sole, Alive, Soft
    <2>5. (\A r \in Request : Presents(req[r]) /\ req[r].token # None => IsIssued(req[r].token))'
      BY <1>1, <2>4
    <2>. QED  BY <2>1, <2>2, <2>3, <2>4, <2>5 DEF Alive
  <1>6. InOrder'
    BY <1>1 DEF Sole, InOrder
  <1>. QED  BY <1>3, <1>4, <1>5, <1>6 DEF Sole

LEMMA SoftSame ==
    ASSUME Sole
    PROVE  /\ \A r \in Request : Soft(req[r], req[r])
           /\ \A t \in Tab : Mild(renewal[t], renewal[t])
           /\ \A x : ~Clears(x) => Soft(IdleReq, x)
           /\ \A x : ~Spends(x) => Mild(IdleRenewal, x)
  <1>1. /\ ~Presents(IdleReq) /\ ~Opens(IdleReq) /\ Polite(IdleReq)
        /\ ~Replaces(IdleRenewal) /\ Sane(IdleRenewal) /\ IdleRenewal.token = None
        /\ IdleRenewal.step = "none"
    BY DEF IdleReq, IdleRenewal, Presents, Opens, Polite, Replaces, Sane
  <1>2. /\ \A r \in Request : Polite(req[r])
        /\ \A t \in Tab : Sane(renewal[t])
    BY DEF Sole, Alive
  <1>3. \A x : ~Clears(x) => Soft(IdleReq, x)
    BY <1>1 DEF Soft
  <1>4. \A x : ~Spends(x) => Mild(IdleRenewal, x)
    BY <1>1 DEF Mild
  <1>. QED  BY <1>2, <1>3, <1>4 DEF Soft, Mild

\* One request or one renewal moves.
LEMMA SoftOne ==
    ASSUME Typed, Sole, NEW r \in Request, NEW v, Soft(v, req[r]), req' = [req EXCEPT ![r] = v]
    PROVE  \A q \in Request : Soft(req'[q], req[q])
  <1>1. req'[r] = v /\ \A q \in Request \ {r} : req'[q] = req[q]
    BY DEF Typed, Calls
  <1>. QED  BY <1>1, SoftSame

LEMMA MildOne ==
    ASSUME Typed, Sole, NEW t \in Tab, NEW v, Mild(v, renewal[t]), renewal' = [renewal EXCEPT ![t] = v]
    PROVE  \A u \in Tab : Mild(renewal'[u], renewal[u])
  <1>1. renewal'[t] = v /\ \A u \in Tab \ {t} : renewal'[u] = renewal[u]
    BY DEF Typed, Calls
  <1>. QED  BY <1>1, SoftSame

LEMMA SoleRequest ==
    ASSUME Typed, Sole, UNCHANGED <<token, cookie, renewal>>, NEW r \in Request, NEW v,
           Soft(v, req[r]), req' = [req EXCEPT ![r] = v]
    PROVE  Sole'
  <1>1. SameRows
    BY DEF SameRows
  <1>. QED  BY <1>1, SoftOne, SoftSame, SoleKept

LEMMA SoleRenewal ==
    ASSUME Typed, Sole, UNCHANGED <<token, cookie, req>>, NEW t \in Tab, NEW v,
           Mild(v, renewal[t]), renewal' = [renewal EXCEPT ![t] = v]
    PROVE  Sole'
  <1>1. SameRows
    BY DEF SameRows
  <1>. QED  BY <1>1, MildOne, SoftSame, SoleKept

\* A request further on that opens nothing.
LEMMA Moving ==
    ASSUME NEW v, NEW x, Further(v, x), Polite(x), x.step # "answer",
           Presents(v) => Presents(x) /\ v.step # "answer",
           v.step = "answer" /\ v.op \in {"login", "mfa"} => v.result # "ok",
           v.step = "issue" => v.op # "logout"
    PROVE  Soft(v, x)
  BY DEF Soft, Further, Polite, Opens, Clears

LEMMA AskSole ==
    ASSUME Typed, Sole, NEW r \in Request, NEW op, NEW arg, NEW kind, Ask(r, op, arg, kind),
           op # "logout"
    PROVE  Sole'
  <1>. DEFINE v == Sent(r, op, arg, FALSE)
  <1>1. /\ v.op = op /\ v.step \in {"arrive", "read"} /\ v.lost = FALSE
    BY DEF Sent, IdleReq
  <1>2. /\ req' = [req EXCEPT ![r] = v] /\ UNCHANGED <<token, cookie, renewal>>
        /\ req[r].step = "idle"
    BY Zenon DEF Ask, server, browser, Quiet
  <1>. HIDE DEF v
  <1>3. Soft(v, req[r])
    BY <1>1, <1>2 DEF Soft, Presents, Opens, Clears, Polite
  <1>. QED  BY <1>2, <1>3, SoleRequest

\* A logout takes the cookie along: no tab presents it meanwhile.
LEMMA LogoutSole ==
    ASSUME Typed, Sole, NEW r \in Request, Logout(r), ~Explained'
    PROVE  Sole'
  <1>. DEFINE v == Sent(r, "logout", Totp(None), FALSE)
              k == cookie[B(T(r))]
  <1>1. /\ v.op = "logout" /\ v.step = "arrive" /\ v.lost = FALSE /\ v.token = k
    BY DEF Sent, IdleReq, NeedsJwt
  <1>2. /\ req' = [req EXCEPT ![r] = v] /\ UNCHANGED <<token, cookie, renewal>>
        /\ req[r].step = "idle"
    BY Zenon DEF Logout, Ask, server, browser, Quiet
  <1>3. \A u \in Tab : renewal[u].token # k \/ k = None
    BY DEF Logout, Explained
  <1>4. /\ T(r) \in Tab /\ B(T(r)) \in Browser /\ None \notin Tokens
        /\ k # None => IsIssued(k)
    BY Places DEF Typed, AllIssued
  <1>. HIDE DEF v
  <1>5. req'[r] = v /\ \A q \in Request \ {r} : req'[q] = req[q]
    BY <1>2 DEF Typed, Calls
  <1>6. Presents(v) /\ ~Opens(v) /\ ~Clears(v) /\ Polite(v)
        /\ ~Presents(req[r]) /\ ~Opens(req[r]) /\ ~Clears(req[r])
    BY <1>1, <1>2 DEF Presents, Opens, Clears, Polite
  <1>7. \A j : (Dead(j)' <=> Dead(j)) /\ (IsIssued(j)' <=> IsIssued(j))
    BY <1>2 DEF Dead, IsIssued
  <1>8. ASSUME NEW j, Unused(j) PROVE Unused(j)'
    BY <1>1, <1>2, <1>4, <1>5, <1>7, <1>8 DEF Unused, IsIssued
  <1>9. OneHolder'
    BY <1>1, <1>2, <1>3, <1>4, <1>5 DEF Sole, OneHolder
  <1>10. Newborn'
    BY <1>2, <1>5, <1>6, <1>8 DEF Sole, Newborn
  <1>11. Alive'
    <2>1. \A b \in Browser : Replaced(b) => Replaced(b)'
      BY <1>2, <1>5, <1>6 DEF Replaced
    <2>2. (\A b \in Browser : Dead(cookie[b]) => Replaced(b))'
      BY <1>2, <1>7, <2>1 DEF Sole, Alive
    <2>3. (\A t \in Tab : /\ Sane(renewal[t])
                          /\ renewal[t].step \in {"find", "update"} => ~Dead(renewal[t].token))'
      BY <1>2, <1>7 DEF Sole, Alive
    <2>4. (\A q \in Request : /\ Polite(req[q])
                              /\ Presents(req[q]) /\ req[q].token # None => IsIssued(req[q].token))'
      BY <1>1, <1>4, <1>5, <1>6, <1>7 DEF Sole, Alive
    <2>. QED  BY <2>2, <2>3, <2>4 DEF Alive
  <1>12. InOrder'
    BY <1>7 DEF Sole, InOrder
  <1>. QED  BY <1>9, <1>10, <1>11, <1>12 DEF Sole

LEMMA StartsSole ==
    ASSUME Typed, Sole, NEW r \in Request, Starts(r), ~Explained'
    PROVE  Sole'
  <1>1. CASE Use(r)
    BY <1>1, AskSole DEF Use
  <1>2. CASE Login(r)
    BY <1>2, AskSole DEF Login
  <1>3. CASE Verify(r)
    BY <1>3, AskSole DEF Verify
  <1>4. CASE Secure(r)
    BY <1>4, AskSole DEF Secure
  <1>5. CASE Forgot(r)
    BY <1>5, AskSole DEF Forgot
  <1>6. CASE Reset(r)
    BY <1>6, AskSole DEF Reset
  <1>. QED  BY <1>1, <1>2, <1>3, <1>4, <1>5, <1>6, LogoutSole DEF Starts

-----------------------------------------------------------------------------
(***************************************************************************)
(* The handlers.                                                           *)
(***************************************************************************)
LEMMA GotoSole ==
    ASSUME Typed, Sole, UNCHANGED <<token, cookie, renewal>>, NEW r \in Request,
           NEW s \in {"read", "write", "revoke", "issue"}, Goto(r, s), req[r].step # "answer",
           s = "revoke" => req[r].step = "arrive" \/ req[r].op # "logout",
           s = "issue" => req[r].op # "logout"
    PROVE  Sole'
  <1>1. s \in Steps
    BY DEF Steps
  <1>2. PICK v \in RequestType :
          /\ req' = [req EXCEPT ![r] = v] /\ v.step = s /\ Further(v, req[r])
    BY <1>1, GotoFact
  <1>3. Polite(req[r]) /\ v.op = req[r].op
    BY <1>2 DEF Sole, Alive, Further
  <1>4. Presents(v) => Presents(req[r]) /\ v.step # "answer"
    BY <1>2, <1>3 DEF Presents
  <1>5. Soft(v, req[r])
    BY <1>2, <1>3, <1>4, Moving
  <1>. QED  BY <1>2, <1>5, SoleRequest

LEMMA RespondSole ==
    ASSUME Typed, Sole, UNCHANGED <<token, cookie, renewal>>, NEW r \in Request,
           NEW x \in {"ok", "400", "401", "ticket"}, Respond(r, x), req[r].step # "answer",
           x = "401" \/ req[r].op # "logout", x # "ok" \/ req[r].op \notin {"login", "mfa"}
    PROVE  Sole'
  <1>1. PICK v \in RequestType :
          /\ req' = [req EXCEPT ![r] = v] /\ v.step = "answer" /\ Further(v, req[r]) /\ v.result = x
    BY RespondFact
  <1>2. Polite(req[r]) /\ v.op = req[r].op
    BY <1>1 DEF Sole, Alive, Further
  <1>3. ~Presents(v)
    BY <1>1, <1>2 DEF Presents
  <1>4. Soft(v, req[r])
    BY <1>1, <1>2, <1>3, Moving
  <1>. QED  BY <1>1, <1>4, SoleRequest

LEMMA PassedSole ==
    ASSUME Typed, Sole, UNCHANGED <<token, cookie, renewal>>, NEW r \in Request,
           NEW s \in {"write", "issue"}, Passed(r, s), req[r].step # "answer", req[r].op # "logout"
    PROVE  Sole'
  <1>1. s \in Steps
    BY DEF Steps
  <1>2. PICK v \in RequestType :
          /\ req' = [req EXCEPT ![r] = v] /\ v.step = s /\ Further(v, req[r])
    BY <1>1, PassedFact
  <1>3. Polite(req[r]) /\ v.op = req[r].op
    BY <1>2 DEF Sole, Alive, Further
  <1>4. Soft(v, req[r])
    BY <1>2, <1>3, Moving DEF Presents
  <1>. QED  BY <1>2, <1>4, SoleRequest

LEMMA TakenSole ==
    ASSUME Typed, Sole, UNCHANGED <<token, cookie, renewal>>, NEW r \in Request,
           Taken(r, user.codes \ {req[r].arg}), req[r].step # "answer"
    PROVE  Sole'
  <1>1. user.codes \ {req[r].arg} \in SUBSET Code
    BY DEF Typed, Rows, UserType
  <1>2. PICK v \in RequestType :
          /\ req' = [req EXCEPT ![r] = v] /\ v.step = "remove" /\ Further(v, req[r])
    BY <1>1, TakenFact
  <1>3. Polite(req[r])
    BY DEF Sole, Alive
  <1>4. Soft(v, req[r])
    BY <1>2, <1>3, Moving DEF Presents
  <1>. QED  BY <1>2, <1>4, SoleRequest

LEMMA ReadsSole == ASSUME Typed, Sole, NEW r \in Request, Reads(r) PROVE Sole'
  <1>0. UNCHANGED <<token, cookie, renewal>>
    BY ReadsRead DEF Reading, server, browser
  <1>1. req[r].step # "answer"
    BY DEF Reads, Validate, ReadLogin, ReadSetup, ReadEnable, ReadDisable, ReadMfaLogin, ReadReset
  <1>2. CASE Validate(r)
    BY <1>0, <1>1, <1>2, GotoSole, RespondSole DEF Validate
  <1>3. CASE ReadLogin(r)
    BY <1>0, <1>1, <1>3, PassedSole, RespondSole DEF ReadLogin, Passed
  <1>4. CASE ReadSetup(r) \/ ReadEnable(r) \/ ReadReset(r)
    BY <1>0, <1>1, <1>4, GotoSole, RespondSole DEF ReadSetup, ReadEnable, ReadReset
  <1>5. CASE ReadDisable(r)
    BY <1>0, <1>1, <1>5, PassedSole, TakenSole, RespondSole
       DEF ReadDisable, VerifyTotpOrBackupCode, Passed, Taken
  <1>6. CASE ReadMfaLogin(r)
    BY <1>0, <1>1, <1>6, PassedSole, TakenSole, RespondSole
       DEF ReadMfaLogin, VerifyTotpOrBackupCode, Passed, Taken
  <1>. QED  BY <1>2, <1>3, <1>4, <1>5, <1>6 DEF Reads

LEMMA WritesSole == ASSUME Typed, Sole, NEW r \in Request, Writes(r) PROVE Sole'
  <1>0. UNCHANGED <<token, cookie, renewal>>
    BY DEF Writes, WriteSetup, WriteEnable, RemoveCode, WriteDisable, WriteLink, WriteReset, browser
  <1>1. req[r].step # "answer"
    BY DEF Writes, WriteSetup, WriteEnable, RemoveCode, WriteDisable, WriteLink, WriteReset
  <1>2. CASE WriteSetup(r) \/ WriteEnable(r) \/ WriteDisable(r) \/ WriteLink(r)
    BY <1>0, <1>1, <1>2, RespondSole DEF WriteSetup, WriteEnable, WriteDisable, WriteLink
  <1>3. CASE RemoveCode(r) \/ WriteReset(r)
    BY <1>0, <1>1, <1>3, GotoSole DEF RemoveCode, WriteReset
  <1>. QED  BY <1>2, <1>3 DEF Writes

-----------------------------------------------------------------------------
(***************************************************************************)
(* Tokens are issued and revoked.                                          *)
(***************************************************************************)
\* What one step that issues a token does to the rows.
Issues == /\ Next1 \in Tokens /\ token'[Next1].state = "live"
          /\ \A k \in Tokens \ {Next1} : token'[k] = token[k]

LEMMA NextIsNew ==
    ASSUME Typed, InOrder, Next1 \in Tokens
    PROVE  ~IsIssued(Next1) /\ \A j \in Tokens : j < Next1 => IsIssued(j)
  <1>. DEFINE n == Cardinality(Issued)
  <1>1. /\ Issued \subseteq 1 .. MaxToken /\ MaxToken \in Nat /\ Tokens = 1 .. MaxToken
        /\ \A k : k \in Issued <=> IsIssued(k)
    BY AuthAssumption DEF Issued, Tokens, IsIssued
  <1>2. IsFiniteSet(Issued) /\ n \in Nat
    <2>1. IsFiniteSet(1 .. MaxToken)
      BY <1>1, FS_Interval
    <2>2. Issued \in SUBSET (1 .. MaxToken)
      BY <1>1
    <2>3. IsFiniteSet(Issued)
      BY <2>1, <2>2, FS_Subset
    <2>. QED  BY <2>3, FS_CardinalityType
  <1>3. Next1 = n + 1
    BY DEF Next1
  <1>. HIDE DEF n
  <1>4. ASSUME IsIssued(Next1) PROVE FALSE
    <2>1. \A j \in 1 .. n + 1 : j \in Issued
      BY <1>1, <1>2, <1>3, <1>4 DEF InOrder
    <2>2. 1 .. n + 1 \in SUBSET Issued
      BY <2>1
    <2>3. Cardinality(1 .. n + 1) = n + 1
      BY <1>2, FS_Interval
    <2>4. Cardinality(1 .. n + 1) <= n
      BY <1>2, <2>2, FS_Subset DEF n
    <2>. QED  BY <1>2, <2>3, <2>4
  <1>5. ASSUME NEW j \in Tokens, j < Next1, ~IsIssued(j) PROVE FALSE
    <2>1. Issued \in SUBSET (1 .. j - 1)
      BY <1>1, <1>5 DEF InOrder, Tokens
    <2>2. j \in Nat /\ j >= 1
      BY <1>1, <1>5
    <2>3. IsFiniteSet(1 .. j - 1) /\ Cardinality(1 .. j - 1) = j - 1
      BY <2>2, FS_Interval
    <2>4. n <= j - 1
      BY <2>1, <2>3, FS_Subset DEF n
    <2>. QED  BY <1>2, <1>3, <1>5, <2>2, <2>4
  <1>. QED  BY <1>4, <1>5

LEMMA IssuesFact ==
    ASSUME Typed, Sole, Issues
    PROVE  /\ InOrder' /\ ~IsIssued(Next1)
           /\ \A k : IsIssued(k)' <=> IsIssued(k) \/ k = Next1
           /\ \A k : Dead(k)' <=> Dead(k)
  <1>1. /\ ~IsIssued(Next1) /\ \A j \in Tokens : j < Next1 => IsIssued(j)
        /\ Next1 \in Tokens
    BY NextIsNew DEF Sole, Issues
  <1>2. /\ token'[Next1].state = "live"
        /\ \A k \in Tokens \ {Next1} : token'[k] = token[k]
    BY DEF Issues
  <1>3. Tokens \subseteq Nat
    BY DEF Tokens
  <1>. DEFINE n == Next1
  <1>. HIDE DEF n
  <1>4. \A k : IsIssued(k)' <=> IsIssued(k) \/ k = n
    BY <1>1, <1>2 DEF IsIssued, n
  <1>5. \A k : Dead(k)' <=> Dead(k)
    BY <1>1, <1>2 DEF IsIssued, Dead
  <1>6. \A j, k \in Tokens : j <= k /\ (IsIssued(k) \/ k = n) => IsIssued(j) \/ j = n
    BY <1>1, <1>3 DEF Sole, InOrder, n
  <1>7. InOrder'
    BY <1>4, <1>6 DEF InOrder
  <1>. QED  BY <1>1, <1>4, <1>5, <1>7 DEF n

\* Nothing holds the token just issued but the answer it goes out with.
LEMMA FreshUnused ==
    ASSUME Typed, Sole, Issues, UNCHANGED cookie,
           \A t \in Tab : renewal'[t].token = renewal[t].token,
           \A r \in Request : Presents(req'[r]) => Presents(req[r]) /\ req'[r].token = req[r].token
    PROVE  \A n : n = Next1 \/ Unused(n) => Unused(n)'
  <1>1. /\ ~IsIssued(Next1) /\ \A k : IsIssued(k)' <=> IsIssued(k) \/ k = Next1
        /\ \A k : Dead(k)' <=> Dead(k)
    BY IssuesFact
  <1>2. /\ \A b \in Browser : cookie[b] # Next1
        /\ \A t \in Tab : renewal[t].token # Next1
        /\ \A r \in Request : Presents(req[r]) => req[r].token # Next1
    <2>1. Next1 # None
      BY Places DEF Issues
    <2>. HIDE DEF Next1
    <2>. QED  BY <1>1, <2>1 DEF Typed, AllIssued, Sole, Alive
  <1>3. ASSUME NEW n, Unused(n) PROVE Unused(n)'
    BY <1>1, <1>3 DEF Unused
  <1>4. ASSUME NEW n, n = Next1 PROVE Unused(n)'
    <2>1. /\ ~IsIssued(n) /\ IsIssued(n)'
          /\ \A b \in Browser : cookie[b] # n
          /\ \A t \in Tab : renewal[t].token # n
          /\ \A r \in Request : Presents(req[r]) => req[r].token # n
      BY <1>1, <1>2, <1>4
    <2>2. ~Dead(n)'
      BY <1>1, <2>1 DEF Dead, IsIssued
    <2>. QED  BY <2>1, <2>2 DEF Unused
  <1>. QED  BY <1>3, <1>4

LEMMA IssueSole == ASSUME Typed, Sole, NEW r \in Request, Issue(r) PROVE Sole'
  <1>. DEFINE n == Next1
              v == [[[req[r] EXCEPT !.step = "answer"] EXCEPT !.result = "ok"] EXCEPT !.born = n]
  <1>1. req' = [req EXCEPT ![r] = v] /\ UNCHANGED <<user, cookie, renewal>>
    BY Zenon DEF Issue, browser
  <1>2. IssueTokens(req[r].password, req[r].spared) /\ req[r].step = "issue"
    BY DEF Issue
  <1>3. Issues
    <2>1. /\ req[r].password \in Nat /\ req[r].spared \in BOOLEAN
          /\ req[r].password <= user.password
      BY DEF Typed, Calls, RequestType
    <2>. QED  BY <1>1, <1>2, <2>1, IssueFact DEF Issues
  <1>4. req[r] \in RequestType
    BY DEF Typed, Calls
  <1>5. /\ InOrder' /\ ~IsIssued(n) /\ \A k : IsIssued(k)' <=> IsIssued(k) \/ k = n
        /\ \A k : Dead(k)' <=> Dead(k)
    BY <1>3, IssuesFact
  <1>. HIDE DEF n
  <1>6. /\ v.op = req[r].op /\ v.step = "answer" /\ v.born = n /\ v.lost = req[r].lost
        /\ v.token = req[r].token
    BY <1>4 DEF RequestType
  <1>. HIDE DEF v
  <1>7. req'[r] = v /\ \A q \in Request \ {r} : req'[q] = req[q]
    BY <1>1 DEF Typed, Calls
  <1>8. /\ ~Presents(v) /\ ~Clears(v) /\ Polite(v)
        /\ ~Presents(req[r]) /\ ~Clears(req[r]) /\ ~Opens(req[r])
    <2>1. req[r].op # "logout"
      BY <1>2 DEF Sole, Alive, Polite
    <2>. QED  BY <1>2, <1>6, <2>1 DEF Presents, Clears, Polite, Opens
  <1>9. \A k : k = n \/ Unused(k) => Unused(k)'
    <2>1. \A q \in Request : Presents(req'[q]) => Presents(req[q]) /\ req'[q].token = req[q].token
      BY <1>7, <1>8
    <2>2. \A t \in Tab : renewal'[t].token = renewal[t].token
      BY <1>1
    <2>. QED  BY <1>1, <1>3, <2>1, <2>2, FreshUnused DEF n
  <1>10. OneHolder'
    BY <1>1, <1>7, <1>8 DEF Sole, OneHolder
  <1>11. Newborn'
    <2>1. ~Unused(n)
      BY <1>5 DEF Unused
    <2>. QED  BY <1>1, <1>6, <1>7, <1>9, <2>1 DEF Sole, Newborn
  <1>12. Alive'
    <2>1. \A b \in Browser : Replaced(b) => Replaced(b)'
      BY <1>1, <1>7, <1>8 DEF Replaced
    <2>2. (\A b \in Browser : Dead(cookie[b]) => Replaced(b))'
      BY <1>1, <1>5, <2>1 DEF Sole, Alive
    <2>3. (\A t \in Tab : /\ Sane(renewal[t])
                          /\ renewal[t].step \in {"find", "update"} => ~Dead(renewal[t].token))'
      BY <1>1, <1>5 DEF Sole, Alive
    <2>4. (\A q \in Request : /\ Polite(req[q])
                              /\ Presents(req[q]) /\ req[q].token # None => IsIssued(req[q].token))'
      BY <1>5, <1>7, <1>8 DEF Sole, Alive
    <2>. QED  BY <2>2, <2>3, <2>4 DEF Alive
  <1>. QED  BY <1>5, <1>10, <1>11, <1>12 DEF Sole

LEMMA RefreshIssueSole == ASSUME Typed, Sole, NEW t \in Tab, RefreshIssue(t) PROVE Sole'
  <1>. DEFINE n == Next1
              v == [[[renewal[t] EXCEPT !.step = "answer"] EXCEPT !.result = "ok"] EXCEPT !.born = n]
  <1>1. renewal' = [renewal EXCEPT ![t] = v] /\ UNCHANGED <<user, cookie, req>>
    BY Zenon DEF RefreshIssue, browser
  <1>2. IssueTokens(renewal[t].password, renewal[t].spared) /\ renewal[t].step = "issue"
    BY DEF RefreshIssue
  <1>3. Issues
    <2>1. /\ renewal[t].password \in Nat /\ renewal[t].spared \in BOOLEAN
          /\ renewal[t].password <= user.password
      BY DEF Typed, Calls, RenewalType
    <2>. QED  BY <1>1, <1>2, <2>1, IssueFact DEF Issues
  <1>4. renewal[t] \in RenewalType
    BY DEF Typed, Calls
  <1>5. /\ InOrder' /\ ~IsIssued(n) /\ \A k : IsIssued(k)' <=> IsIssued(k) \/ k = n
        /\ \A k : Dead(k)' <=> Dead(k)
    BY <1>3, IssuesFact
  <1>. HIDE DEF n
  <1>6. /\ v.step = "answer" /\ v.result = "ok" /\ v.born = n /\ v.lost = renewal[t].lost
        /\ v.token = renewal[t].token
    BY <1>4 DEF RenewalType
  <1>. HIDE DEF v
  <1>7. renewal'[t] = v /\ \A u \in Tab \ {t} : renewal'[u] = renewal[u]
    BY <1>1 DEF Typed, Calls
  <1>8. Spends(v) /\ Sane(v) /\ ~Replaces(renewal[t])
    BY <1>2, <1>6 DEF Spends, Sane, Replaces, Sole, Alive
  <1>9. \A k : k = n \/ Unused(k) => Unused(k)'
    <2>1. \A u \in Tab : renewal'[u].token = renewal[u].token
      BY <1>6, <1>7
    <2>. QED  BY <1>1, <1>3, <2>1, FreshUnused DEF n
  <1>10. OneHolder'
    <2>1. \A u \in Tab : renewal'[u].token = renewal[u].token
      BY <1>6, <1>7
    <2>. QED  BY <1>1, <2>1 DEF Sole, OneHolder
  <1>11. Newborn'
    <2>1. ~Unused(n)
      BY <1>5 DEF Unused
    <2>. QED  BY <1>1, <1>6, <1>7, <1>9, <2>1 DEF Sole, Newborn
  <1>12. Alive'
    <2>1. \A b \in Browser : Replaced(b) => Replaced(b)'
      BY <1>1, <1>6, <1>7, <1>8 DEF Replaced
    <2>2. (\A b \in Browser : Dead(cookie[b]) => Replaced(b))'
      BY <1>1, <1>5, <2>1 DEF Sole, Alive
    <2>3. (\A u \in Tab : /\ Sane(renewal[u])
                          /\ renewal[u].step \in {"find", "update"} => ~Dead(renewal[u].token))'
      BY <1>5, <1>6, <1>7, <1>8 DEF Sole, Alive
    <2>4. (\A q \in Request : /\ Polite(req[q])
                              /\ Presents(req[q]) /\ req[q].token # None => IsIssued(req[q].token))'
      BY <1>1, <1>5 DEF Sole, Alive
    <2>. QED  BY <2>2, <2>3, <2>4 DEF Alive
  <1>. QED  BY <1>5, <1>10, <1>11, <1>12 DEF Sole

\* One token is revoked, by the one that presents it.
RevokesOnly(n) == \A k \in Tokens : \/ k # n /\ token'[k] = token[k]
                                    \/ k = n /\ (token'[k] = token[k] \/ Revoked(k))

LEMMA RevokesFact ==
    ASSUME Typed, NEW n, RevokesOnly(n)
    PROVE  /\ \A k : IsIssued(k)' <=> IsIssued(k)
           /\ \A k : k # n => (Dead(k)' <=> Dead(k))
           /\ \A k : Dead(k) => Dead(k)'
  <1>1. \A k \in Tokens : Revoked(k) => token[k].state # "none" /\ token'[k].state = "revoked"
    BY RevokedFact DEF Revoked
  <1>. QED  BY <1>1 DEF RevokesOnly, IsIssued, Dead

LEMMA RevokePresentedSole == ASSUME Typed, Sole, NEW r \in Request, RevokePresented(r) PROVE Sole'
  <1>. DEFINE n == req[r].token
  <1>1. /\ Respond(r, "ok") /\ UNCHANGED <<cookie, renewal>>
        /\ req[r].op = "logout" /\ req[r].step = "revoke"
    BY DEF RevokePresented, browser
  <1>2. RevokesOnly(n)
    BY DEF RevokePresented, RevokesOnly, Revoked
  <1>3. PICK v \in RequestType :
          /\ req' = [req EXCEPT ![r] = v] /\ v.step = "answer" /\ Further(v, req[r]) /\ v.result = "ok"
    BY <1>1, RespondFact
  <1>4. req'[r] = v /\ \A q \in Request \ {r} : req'[q] = req[q]
    BY <1>3 DEF Typed, Calls
  <1>5. Presents(req[r]) /\ ~Opens(req[r]) /\ ~Clears(req[r])
    BY <1>1 DEF Presents, Opens, Clears
  <1>. HIDE DEF n
  <1>6. PICK k : k = n
    OBVIOUS
  <1>7. /\ \A j : IsIssued(j)' <=> IsIssued(j)
        /\ \A j : j # k => (Dead(j)' <=> Dead(j))
    BY <1>2, <1>6, RevokesFact
  <1>8. Presents(v) /\ ~Opens(v) /\ Clears(v) /\ Polite(v) /\ v.token = k
    BY <1>1, <1>3, <1>5, <1>6 DEF Presents, Opens, Clears, Polite, Further, Sole, Alive, n
  <1>9. ASSUME NEW j, Unused(j) PROVE Unused(j)'
    <2>1. j # k
      BY <1>5, <1>6, <1>9 DEF Unused, n
    <2>. QED  BY <1>1, <1>4, <1>5, <1>6, <1>7, <1>8, <1>9, <2>1 DEF Unused, n
  <1>10. \A q \in Request : Presents(req'[q]) => Presents(req[q]) /\ req'[q].token = req[q].token
    BY <1>4, <1>5, <1>6, <1>8 DEF n
  <1>11. OneHolder'
    BY <1>1, <1>10 DEF Sole, OneHolder
  <1>12. Newborn'
    BY <1>1, <1>4, <1>8, <1>9 DEF Sole, Newborn
  <1>13. Alive'
    <2>1. \A b \in Browser : Replaced(b) => Replaced(b)'
      BY <1>1, <1>4, <1>5, <1>8 DEF Replaced
    <2>2. ASSUME NEW b \in Browser, NEW j, j = cookie[b], Dead(j)' PROVE Replaced(b)'
      <3>1. CASE cookie[b] = k
        BY <1>1, <1>4, <1>8, <3>1 DEF Replaced
      <3>2. CASE cookie[b] # k
        BY <1>1, <1>7, <2>1, <2>2, <3>2 DEF Sole, Alive
      <3>. QED  BY <3>1, <3>2
    <2>3. ASSUME NEW t \in Tab, renewal'[t].step \in {"find", "update"},
                 NEW j, j = renewal'[t].token, Dead(j)'
          PROVE  FALSE
      <3>1. renewal[t].token = k
        BY <1>1, <1>7, <2>3 DEF Sole, Alive
      <3>2. renewal[t].token = None
        BY <1>5, <1>6, <3>1 DEF Sole, OneHolder, n
      <3>. QED  BY <1>1, <2>3, <3>2, Places DEF Dead
    <2>4. (\A b \in Browser : Dead(cookie[b]) => Replaced(b))'
      BY <1>1, <2>2 DEF Dead
    <2>5. (\A t \in Tab : /\ Sane(renewal[t])
                          /\ renewal[t].step \in {"find", "update"} => ~Dead(renewal[t].token))'
      <3>1. (\A t \in Tab : Sane(renewal[t]))'
        BY <1>1 DEF Sole, Alive
      <3>2. (\A t \in Tab : renewal[t].step \in {"find", "update"} => ~Dead(renewal[t].token))'
        BY <2>3 DEF Dead
      <3>. QED  BY <3>1, <3>2
    <2>6. (\A q \in Request : /\ Polite(req[q])
                              /\ Presents(req[q]) /\ req[q].token # None => IsIssued(req[q].token))'
      BY <1>4, <1>7, <1>8, <1>10 DEF Sole, Alive
    <2>. QED  BY <2>4, <2>5, <2>6 DEF Alive
  <1>14. InOrder'
    BY <1>7 DEF Sole, InOrder
  <1>. QED  BY <1>11, <1>12, <1>13, <1>14 DEF Sole

LEMMA RefreshUpdateSole == ASSUME Typed, Sole, NEW t \in Tab, RefreshUpdate(t) PROVE Sole'
  <1>. DEFINE n == renewal[t].token
  <1>1. /\ RStep(t, "issue") /\ UNCHANGED <<cookie, req>> /\ renewal[t].step = "update"
    BY DEF RefreshUpdate, browser
  <1>2. n \in Tokens /\ n # None
    BY <1>1 DEF Typed, AllIssued, IsIssued
  <1>3. RevokesOnly(n)
    <2>1. token' = [token EXCEPT ![n].state = "revoked"] /\ token \in [Tokens -> TokenType]
      BY DEF RefreshUpdate, Typed, Rows
    <2>2. \A k \in Tokens : token'[k] = token[k] \/ Revoked(k)
      BY RefreshUpdateFact
    <2>. HIDE DEF n
    <2>3. \A k \in Tokens \ {n} : token'[k] = token[k]
      BY <2>1
    <2>. QED  BY <2>2, <2>3 DEF RevokesOnly
  <1>4. PICK v \in RenewalType :
          /\ renewal' = [renewal EXCEPT ![t] = v] /\ v.step = "issue" /\ Ahead(v, renewal[t])
          /\ v.lost = renewal[t].lost
    <2>. DEFINE v == [renewal[t] EXCEPT !.step = "issue"]
    <2>1. renewal[t] \in RenewalType
      BY DEF Typed, Calls
    <2>2. v \in RenewalType
      BY <2>1 DEF RenewalType
    <2>3. v.step = "issue" /\ Ahead(v, renewal[t]) /\ v.lost = renewal[t].lost
      BY <2>1 DEF RenewalType, Ahead
    <2>4. renewal' = [renewal EXCEPT ![t] = v]
      BY <1>1, Zenon DEF RStep
    <2>. HIDE DEF v
    <2>. QED  BY <2>2, <2>3, <2>4
  <1>5. renewal'[t] = v /\ \A u \in Tab \ {t} : renewal'[u] = renewal[u]
    BY <1>4 DEF Typed, Calls
  <1>. HIDE DEF n
  <1>6. PICK k : k = n
    OBVIOUS
  <1>7. /\ \A j : IsIssued(j)' <=> IsIssued(j)
        /\ \A j : j # k => (Dead(j)' <=> Dead(j))
    BY <1>3, <1>6, RevokesFact
  <1>8. Spends(v) /\ ~Replaces(v) /\ Sane(v) /\ v.token = k /\ renewal[t].token = k
    BY <1>1, <1>4, <1>6 DEF Spends, Replaces, Sane, Ahead, Sole, Alive, n
  <1>9. \A u \in Tab : renewal'[u].token = renewal[u].token
    BY <1>5, <1>8
  <1>10. ASSUME NEW j, Unused(j) PROVE Unused(j)'
    <2>1. j # k
      BY <1>8, <1>10 DEF Unused
    <2>. QED  BY <1>1, <1>7, <1>9, <1>10, <2>1 DEF Unused
  <1>11. OneHolder'
    BY <1>1, <1>9 DEF Sole, OneHolder
  <1>12. Newborn'
    BY <1>1, <1>5, <1>8, <1>10 DEF Sole, Newborn
  <1>13. Alive'
    <2>1. \A b \in Browser : Replaced(b) => Replaced(b)'
      BY <1>1, <1>5, <1>8 DEF Replaced
    <2>2. ASSUME NEW b \in Browser, NEW j, j = cookie[b], Dead(j)' PROVE Replaced(b)'
      <3>1. CASE cookie[b] = k
        BY <1>1, <1>5, <1>8, <3>1 DEF Replaced
      <3>2. CASE cookie[b] # k
        BY <1>1, <1>7, <2>1, <2>2, <3>2 DEF Sole, Alive
      <3>. QED  BY <3>1, <3>2
    <2>3. ASSUME NEW u \in Tab, renewal'[u].step \in {"find", "update"},
                 NEW j, j = renewal'[u].token, Dead(j)'
          PROVE  FALSE
      <3>1. u # t
        BY <1>4, <1>5, <2>3
      <3>2. renewal[u].token = k
        BY <1>5, <1>7, <2>3, <3>1 DEF Sole, Alive
      <3>. QED  BY <1>2, <1>6, <1>8, <3>1, <3>2 DEF Sole, OneHolder
    <2>4. (\A b \in Browser : Dead(cookie[b]) => Replaced(b))'
      BY <1>1, <2>2 DEF Dead
    <2>5. (\A u \in Tab : /\ Sane(renewal[u])
                          /\ renewal[u].step \in {"find", "update"} => ~Dead(renewal[u].token))'
      <3>1. (\A u \in Tab : Sane(renewal[u]))'
        BY <1>5, <1>8 DEF Sole, Alive
      <3>2. (\A u \in Tab : renewal[u].step \in {"find", "update"} => ~Dead(renewal[u].token))'
        BY <2>3 DEF Dead
      <3>. QED  BY <3>1, <3>2
    <2>6. (\A q \in Request : /\ Polite(req[q])
                              /\ Presents(req[q]) /\ req[q].token # None => IsIssued(req[q].token))'
      BY <1>1, <1>7 DEF Sole, Alive
    <2>. QED  BY <2>4, <2>5, <2>6 DEF Alive
  <1>14. InOrder'
    BY <1>7 DEF Sole, InOrder
  <1>. QED  BY <1>11, <1>12, <1>13, <1>14 DEF Sole

\* The refresh finds what it presents, and never a token that was revoked.
LEMMA RefreshFindSole ==
    ASSUME Typed, Sole, NEW t \in Tab, RefreshFind(t)
    PROVE  Sole' /\ (replayed' <=> replayed)
  <1>. DEFINE k == renewal[t].token
  <1>1. UNCHANGED <<token, cookie, req>> /\ renewal[t].step = "find"
    BY DEF RefreshFind, server, browser
  <1>2. /\ ~Dead(k) /\ Sane(renewal[t]) /\ renewal[t] \in RenewalType
        /\ k # None => k \in Tokens
    BY <1>1 DEF Sole, Alive, Typed, Calls, RenewalType
  <1>3. ~(k # None /\ token[k].state = "revoked")
    BY <1>2 DEF Dead
  <1>4. CASE RRespond(t, "401")
    <2>. DEFINE v == [[renewal[t] EXCEPT !.step = "answer"] EXCEPT !.result = "401"]
    <2>1. renewal' = [renewal EXCEPT ![t] = v]
      BY <1>4, Zenon DEF RRespond
    <2>2. v.step = "answer" /\ v.result = "401" /\ v.lost = renewal[t].lost /\ v.token = k
      BY <1>2 DEF RenewalType
    <2>. HIDE DEF v
    <2>3. Mild(v, renewal[t])
      BY <1>1, <1>2, <2>2 DEF Mild, Replaces, Spends, Sane
    <2>4. Sole'
      BY <1>1, <2>1, <2>3, SoleRenewal
    <2>. QED  BY <1>3, <2>4 DEF RefreshFind
  <1>5. CASE Found(t, k)
    <2>. DEFINE p == token[k].password
                s == token[k].spared
                v == [[[renewal[t] EXCEPT !.step = "update"] EXCEPT !.password = p] EXCEPT !.spared = s]
    <2>1. renewal' = [renewal EXCEPT ![t] = v]
      BY <1>5, Zenon DEF Found
    <2>. HIDE DEF p, s
    <2>2. v.step = "update" /\ v.lost = renewal[t].lost /\ v.token = k
      BY <1>2 DEF RenewalType
    <2>. HIDE DEF v
    <2>3. Mild(v, renewal[t])
      BY <1>1, <1>2, <2>2 DEF Mild, Replaces, Spends, Sane
    <2>4. Sole'
      BY <1>1, <2>1, <2>3, SoleRenewal
    <2>. QED  BY <1>3, <2>4 DEF RefreshFind
  <1>. QED  BY <1>2, <1>3, <1>4, <1>5 DEF RefreshFind, Found
-----------------------------------------------------------------------------
(***************************************************************************)
(* The panel, while nothing explains a token presented twice.              *)
(***************************************************************************)
\* A request sent again with the pair just received.
Carries(v, n) == v.step \in {"arrive", "read"} /\ ~v.lost /\ (Presents(v) => v.token = n)

\* A cookie is replaced or cleared, by whoever held the one before.
LEMMA CookieSole ==
    ASSUME Typed, Sole, UNCHANGED token, NEW b \in Browser, NEW n, n = None \/ Unused(n),
           cookie' = [cookie EXCEPT ![b] = n],
           \A q \in Request : \/ Soft(req'[q], req[q])
                              \/ B(T(q)) = b /\ (Carries(req'[q], n) \/ req'[q] = IdleReq),
           \A q \in Request : Opens(req'[q]) => req'[q].born # n,
           \A t \in Tab : \/ Mild(renewal'[t], renewal[t])
                          \/ B(t) = b /\ renewal'[t] = IdleRenewal,
           \A t \in Tab : Replaces(renewal'[t]) => renewal'[t].born # n
    PROVE  Sole'
  <1>1. \A k : (Dead(k)' <=> Dead(k)) /\ (IsIssued(k)' <=> IsIssued(k))
    BY DEF Dead, IsIssued
  <1>2. /\ cookie'[b] = n /\ \A c \in Browser \ {b} : cookie'[c] = cookie[c]
        /\ None \notin Tokens /\ ~Dead(n)
        /\ n # None => IsIssued(n)
    BY Places DEF Typed, Panel, Unused, Dead
  <1>3. /\ ~Presents(IdleReq) /\ ~Opens(IdleReq) /\ Polite(IdleReq)
        /\ ~Replaces(IdleRenewal) /\ Sane(IdleRenewal) /\ IdleRenewal.token = None
        /\ IdleRenewal.step = "none"
    BY DEF IdleReq, IdleRenewal, Presents, Opens, Polite, Replaces, Sane
  <1>4. \A v : Carries(v, n) => Polite(v) /\ ~Opens(v)
    BY DEF Carries, Polite, Opens, Presents
  <1>5. /\ \A q \in Request : Presents(req'[q]) =>
             \/ Presents(req[q]) /\ req'[q].token = req[q].token
             \/ B(T(q)) = b /\ req'[q].token = n
        /\ \A q \in Request : Opens(req'[q]) => Opens(req[q]) /\ req'[q].born = req[q].born
        /\ \A q \in Request : Polite(req'[q])
    BY <1>3, <1>4 DEF Soft, Carries
  <1>6. /\ \A t \in Tab : renewal'[t].token \in {renewal[t].token, None}
        /\ \A t \in Tab : Replaces(renewal'[t]) =>
             Replaces(renewal[t]) /\ renewal'[t].born = renewal[t].born
        /\ \A t \in Tab : Sane(renewal'[t])
        /\ \A t \in Tab : renewal'[t].step \in {"find", "update"} =>
             renewal[t].step \in {"find", "update"} /\ renewal'[t].token = renewal[t].token
    BY <1>3 DEF Mild
  <1>7. ASSUME NEW k, Unused(k), k # n PROVE Unused(k)'
    <2>1. k # None
      BY <1>2, <1>7 DEF Unused, IsIssued
    <2>. QED  BY <1>1, <1>2, <1>5, <1>6, <1>7, <2>1 DEF Unused
  <1>8. n # None => /\ \A c \in Browser : cookie[c] # n
                    /\ \A t \in Tab : renewal[t].token # n
                    /\ \A q \in Request : Presents(req[q]) => req[q].token # n
    BY DEF Unused
  <1>9. OneHolder'
    <2>1. (\A c, d \in Browser : cookie[c] = cookie[d] /\ cookie[c] # None => c = d)'
      BY <1>2, <1>8 DEF Sole, OneHolder
    <2>2. (\A t, u \in Tab : renewal[t].token = renewal[u].token /\ renewal[t].token # None => t = u)'
      BY <1>6 DEF Sole, OneHolder
    <2>3. (\A t \in Tab, c \in Browser :
              renewal[t].token = cookie[c] /\ cookie[c] # None => B(t) = c)'
      BY <1>2, <1>6, <1>8 DEF Sole, OneHolder
    <2>4. (\A r \in Request, c \in Browser :
              Presents(req[r]) /\ req[r].token = cookie[c] /\ cookie[c] # None => B(T(r)) = c)'
      BY <1>2, <1>5, <1>8 DEF Sole, OneHolder
    <2>5. (\A r \in Request, t \in Tab :
              Presents(req[r]) /\ req[r].token = renewal[t].token => renewal[t].token = None)'
      BY <1>5, <1>6, <1>8 DEF Sole, OneHolder
    <2>. QED  BY <2>1, <2>2, <2>3, <2>4, <2>5 DEF OneHolder
  <1>10. Newborn'
    BY <1>5, <1>6, <1>7 DEF Sole, Newborn
  <1>11. Alive'
    <2>1. ASSUME NEW c \in Browser, c # b, Replaced(c), cookie[c] # None PROVE Replaced(c)'
      <3>1. ASSUME NEW t \in Tab, renewal[t].token = cookie[c], Spends(renewal[t]) PROVE Replaced(c)'
        <4>1. B(t) # b
          BY <2>1, <3>1 DEF Sole, OneHolder
        <4>2. renewal'[t].token = cookie'[c] /\ Spends(renewal'[t])
          BY <1>2, <2>1, <3>1, <4>1 DEF Mild
        <4>. QED  BY <4>2 DEF Replaced
      <3>2. ASSUME NEW q \in Request, Clears(req[q]), req[q].token = cookie[c] PROVE Replaced(c)'
        <4>1. B(T(q)) # b
          BY <2>1, <3>2 DEF Sole, OneHolder, Clears
        <4>2. req'[q].token = cookie'[c] /\ Clears(req'[q])
          BY <1>2, <2>1, <3>2, <4>1 DEF Soft
        <4>. QED  BY <4>2 DEF Replaced
      <3>. QED  BY <2>1, <3>1, <3>2 DEF Replaced
    <2>2. ASSUME NEW c \in Browser, NEW j, j = cookie'[c], Dead(j)' PROVE Replaced(c)'
      <3>1. c # b /\ j = cookie[c] /\ Dead(j) /\ j # None
        BY <1>1, <1>2, <2>2 DEF Dead
      <3>. QED  BY <2>1, <3>1 DEF Sole, Alive
    <2>3. (\A c \in Browser : Dead(cookie[c]) => Replaced(c))'
      BY <2>2 DEF Dead
    <2>4. (\A t \in Tab : /\ Sane(renewal[t])
                          /\ renewal[t].step \in {"find", "update"} => ~Dead(renewal[t].token))'
      BY <1>1, <1>6 DEF Sole, Alive
    <2>5. (\A q \in Request : /\ Polite(req[q])
                              /\ Presents(req[q]) /\ req[q].token # None => IsIssued(req[q].token))'
      BY <1>1, <1>2, <1>5 DEF Sole, Alive
    <2>. QED  BY <2>3, <2>4, <2>5 DEF Alive
  <1>12. InOrder'
    BY <1>1 DEF Sole, InOrder
  <1>. QED  BY <1>9, <1>10, <1>11, <1>12 DEF Sole

LEMMA ReceiveSole == ASSUME Typed, Sole, NEW r \in Request, Receive(r) PROVE Sole'
  <1>. DEFINE x == req[r]
              b == B(T(r))
  <1>1. /\ UNCHANGED <<token, renewal>> /\ req' = [req EXCEPT ![r] = IdleReq]
        /\ x.step = "answer" /\ (x.lost \/ x.result # "401") /\ b \in Browser
    BY Places DEF Receive, server
  <1>2. /\ req'[r] = IdleReq /\ \A q \in Request \ {r} : req'[q] = req[q]
        /\ x.result \in {"none", "ok", "400", "401", "ticket"}
    BY <1>1 DEF Typed, Calls, RequestType
  <1>3. Polite(x)
    BY DEF Sole, Alive
  <1>4. ASSUME ~Clears(x), UNCHANGED cookie PROVE Sole'
    <2>1. Soft(IdleReq, x)
      BY <1>4, SoftSame
    <2>. QED  BY <1>1, <1>4, <2>1, SoleRequest
  <1>5. ASSUME Opens(x), cookie' = [cookie EXCEPT ![b] = x.born] PROVE Sole'
    <2>. DEFINE n == x.born
    <2>1. Unused(n)
      BY <1>5 DEF Sole, Newborn
    <2>2. ~Clears(x) /\ ~Opens(IdleReq)
      BY <1>5 DEF Opens, Clears, Presents, IdleReq
    <2>3. \A q \in Request : Soft(req'[q], req[q])
      BY <1>2, <2>2, SoftSame
    <2>4. \A q \in Request : Opens(req'[q]) => req'[q].born # n
      BY <1>2, <1>5, <2>2 DEF Sole, Newborn
    <2>5. \A t \in Tab : Replaces(renewal'[t]) => renewal'[t].born # n
      BY <1>1, <1>5 DEF Sole, Newborn
    <2>6. \A t \in Tab : Mild(renewal'[t], renewal[t])
      BY <1>1, SoftSame
    <2>. HIDE DEF n, b
    <2>. QED  BY <1>1, <1>5, <2>1, <2>3, <2>4, <2>5, <2>6, CookieSole DEF n
  <1>6. ASSUME cookie' = [cookie EXCEPT ![b] = None], x.op = "logout" PROVE Sole'
    <2>1. \A q \in Request : Opens(req'[q]) => req'[q].born # None
      BY <1>2, Places DEF Sole, Newborn, Unused, IsIssued, Opens, IdleReq
    <2>2. \A t \in Tab : Replaces(renewal'[t]) => renewal'[t].born # None
      BY <1>1, Places DEF Sole, Newborn, Unused, IsIssued
    <2>3. \A t \in Tab : Mild(renewal'[t], renewal[t])
      BY <1>1, SoftSame
    <2>4. \A q \in Request : \/ Soft(req'[q], req[q])
                             \/ B(T(q)) = b /\ req'[q] = IdleReq
      BY <1>2, SoftSame
    <2>. HIDE DEF b
    <2>. QED  BY <1>1, <1>6, <2>1, <2>2, <2>3, <2>4, CookieSole
  <1>7. CASE x.lost \/ x.result \in {"none", "400", "ticket"}
    <2>1. ~Clears(x)
      BY <1>3, <1>7 DEF Polite, Clears
    <2>2. UNCHANGED cookie
      BY <1>7 DEF Receive, browser
    <2>. QED  BY <1>4, <2>1, <2>2
  <1>8. CASE ~x.lost /\ x.result = "ok"
    <2>1. CASE x.op \in {"login", "mfa"}
      <3>1. Opens(x)
        BY <1>1, <1>8, <2>1 DEF Opens
      <3>. QED  BY <1>5, <1>8, <2>1, <3>1 DEF Receive, SetAuthCookies
    <2>2. CASE x.op = "logout"
      BY <1>6, <1>8, <2>2 DEF Receive
    <2>3. CASE x.op \notin {"login", "mfa", "logout"}
      <3>1. ~Clears(x)
        BY <2>3 DEF Clears, Presents
      <3>. QED  BY <1>4, <1>8, <2>3, <3>1 DEF Receive, browser
    <2>. QED  BY <2>1, <2>2, <2>3
  <1>. QED  BY <1>1, <1>2, <1>7, <1>8

\* A page that goes leaves nothing behind that presents a token.
LEMMA AbandonedSoft ==
    ASSUME Typed, Sole, NEW t \in Tab, ~LoggingOut(t), NEW r \in Request
    PROVE  Soft(Abandoned(t)[r], req[r])
  <1>. DEFINE v == [req[r] EXCEPT !.lost = TRUE]
  <1>1. Abandoned(t)[r] = IF T(r) # t \/ Quiet(r) THEN req[r]
                          ELSE IF req[r].step = "wait" THEN IdleReq ELSE v
    BY DEF Abandoned
  <1>2. req[r].step = "wait" => ~Clears(req[r])
    BY DEF Clears
  <1>3. ASSUME T(r) = t PROVE Soft(v, req[r])
    <2>1. /\ v.op = req[r].op /\ v.step = req[r].step /\ v.result = req[r].result
          /\ v.born = req[r].born /\ v.token = req[r].token
      BY DEF Typed, Calls, RequestType
    <2>2. ~Presents(req[r]) /\ Polite(req[r])
      BY <1>3 DEF LoggingOut, Sole, Alive
    <2>. HIDE DEF v
    <2>. QED  BY <2>1, <2>2 DEF Soft, Presents, Opens, Clears, Polite
  <1>. HIDE DEF v
  <1>. QED  BY <1>1, <1>2, <1>3, SoftSame
LEMMA WaitersSole ==
    ASSUME Typed, Sole, UNCHANGED <<token, cookie>>, NEW t \in Tab, NEW set \in SUBSET Request,
           \A r \in set : ~Clears(req[r]),
           req' = [q \in Request |-> IF q \in set THEN IdleReq ELSE req[q]],
           \A u \in Tab : Mild(renewal'[u], renewal[u])
    PROVE  Sole'
  <1>1. SameRows
    BY DEF SameRows
  <1>2. \A q \in Request : Soft(req'[q], req[q])
    BY SoftSame
  <1>. QED  BY <1>1, <1>2, SoleKept

LEMMA ExpiredSole ==
    ASSUME Typed, Sole, UNCHANGED <<token, cookie>>, NEW r \in Request,
           HandleSessionExpired(T(r), r), ~Clears(req[r]), ~Explained'
    PROVE  Sole'
  <1>. DEFINE t == T(r)
  <1>1. t \in Tab
    BY Places
  <1>2. CASE page[t] = "login"
    <2>. DEFINE set == {r} \cup Waiting(t)
    <2>1. set \in SUBSET Request /\ \A q \in set : ~Clears(req[q])
      BY DEF Waiting, Clears
    <2>2. req' = [q \in Request |-> IF q \in set THEN IdleReq ELSE req[q]]
      BY <1>2 DEF HandleSessionExpired
    <2>3. UNCHANGED renewal
      BY <1>2 DEF HandleSessionExpired
    <2>. HIDE DEF set, t
    <2>. QED  BY <1>1, <2>1, <2>2, <2>3, SoftSame, WaitersSole
  <1>3. CASE page[t] # "login"
    <2>. DEFINE f == Abandoned(t)
                lost == renewal[t].step # "none"
                w == [renewal[t] EXCEPT !.lost = lost]
    <2>1. ~lost /\ ~LoggingOut(t)
      BY <1>3 DEF HandleSessionExpired, Explained
    <2>2. req' = [f EXCEPT ![r] = IdleReq] /\ f = [q \in Request |-> f[q]]
      BY <1>3 DEF HandleSessionExpired, Abandoned
    <2>3. \A q \in Request : Soft(f[q], req[q])
      BY <1>1, <2>1, AbandonedSoft
    <2>4. renewal' = [renewal EXCEPT ![t] = w]
      BY <1>3, Zenon DEF HandleSessionExpired
    <2>. HIDE DEF f
    <2>5. \A q \in Request : Soft(req'[q], req[q])
      BY <2>2, <2>3, SoftSame
    <2>6. Mild(w, renewal[t])
      <3>1. renewal[t] \in RenewalType /\ Sane(renewal[t])
        BY <1>1 DEF Typed, Calls, Sole, Alive
      <3>. HIDE DEF lost
      <3>2. /\ w.token = renewal[t].token /\ w.step = renewal[t].step /\ w.lost = lost
            /\ w.result = renewal[t].result /\ w.born = renewal[t].born
        BY <3>1 DEF RenewalType
      <3>. HIDE DEF w
      <3>. QED  BY <2>1, <3>1, <3>2 DEF Mild, Sane, Replaces, Spends
    <2>. HIDE DEF w, t
    <2>7. \A u \in Tab : Mild(renewal'[u], renewal[u])
      BY <1>1, <2>4, <2>6, MildOne
    <2>8. SameRows
      BY DEF SameRows
    <2>. QED  BY <2>5, <2>7, <2>8, SoleKept
  <1>. QED  BY <1>2, <1>3

\* A tab begins to renew: nobody else presents the cookie, so that it was not revoked.
LEMMA StartedSole ==
    ASSUME Typed, Sole, UNCHANGED <<token, cookie>>, NEW t \in Tab, renewal[t].step = "none",
           NEW k, k = cookie[B(t)], ~Shared(t, k), renewal' = [renewal EXCEPT ![t] = Started(k)],
           \A r \in Request : Soft(req'[r], req[r])
    PROVE  Sole'
  <1>1. \A j : (Dead(j)' <=> Dead(j)) /\ (IsIssued(j)' <=> IsIssued(j))
    BY DEF Dead, IsIssued
  <1>2. /\ renewal'[t] = Started(k) /\ \A u \in Tab \ {t} : renewal'[u] = renewal[u]
        /\ B(t) \in Browser /\ None \notin Tokens
    BY Places DEF Typed, Calls
  <1>3. /\ Started(k).step = "find" /\ Started(k).token = k /\ Sane(Started(k))
        /\ ~Replaces(Started(k)) /\ ~Spends(renewal[t]) /\ ~Replaces(renewal[t])
    BY DEF Started, IdleRenewal, Sane, Replaces, Spends
  <1>4. k # None => /\ \A u \in Tab \ {t} : renewal[u].token # k
                    /\ \A r \in Request : Presents(req[r]) => req[r].token # k
    BY DEF Shared
  <1>5. ~Dead(k)
    <2>1. SUFFICES ASSUME Dead(k), k # None PROVE FALSE
      BY <1>2 DEF Dead
    <2>2. Replaced(B(t))
      BY <1>2, <2>1 DEF Sole, Alive
    <2>. QED  BY <1>3, <1>4, <2>1, <2>2 DEF Replaced, Clears
  <1>6. ASSUME NEW j, Unused(j) PROVE Unused(j)'
    BY <1>1, <1>2, <1>3, <1>6 DEF Unused, Soft
  <1>7. OneHolder'
    <2>1. (\A b, c \in Browser : cookie[b] = cookie[c] /\ cookie[b] # None => b = c)'
      BY DEF Sole, OneHolder
    <2>2. (\A u, v \in Tab : renewal[u].token = renewal[v].token /\ renewal[u].token # None => u = v)'
      BY <1>2, <1>3, <1>4 DEF Sole, OneHolder
    <2>3. (\A u \in Tab, b \in Browser :
              renewal[u].token = cookie[b] /\ cookie[b] # None => B(u) = b)'
      BY <1>2, <1>3 DEF Sole, OneHolder
    <2>4. (\A r \in Request, b \in Browser :
              Presents(req[r]) /\ req[r].token = cookie[b] /\ cookie[b] # None => B(T(r)) = b)'
      BY DEF Sole, OneHolder, Soft
    <2>5. (\A r \in Request, u \in Tab :
              Presents(req[r]) /\ req[r].token = renewal[u].token => renewal[u].token = None)'
      BY <1>2, <1>3, <1>4 DEF Sole, OneHolder, Soft
    <2>. QED  BY <2>1, <2>2, <2>3, <2>4, <2>5 DEF OneHolder
  <1>8. Newborn'
    BY <1>2, <1>3, <1>6 DEF Sole, Newborn, Soft
  <1>9. Alive'
    <2>1. \A b \in Browser : Replaced(b) => Replaced(b)'
      BY <1>2, <1>3 DEF Replaced, Soft
    <2>2. (\A b \in Browser : Dead(cookie[b]) => Replaced(b))'
      BY <1>1, <2>1 DEF Sole, Alive
    <2>3. (\A u \in Tab : /\ Sane(renewal[u])
                          /\ renewal[u].step \in {"find", "update"} => ~Dead(renewal[u].token))'
      BY <1>1, <1>2, <1>3, <1>5 DEF Sole, Alive
    <2>4. (\A r \in Request : /\ Polite(req[r])
                              /\ Presents(req[r]) /\ req[r].token # None => IsIssued(req[r].token))'
      BY <1>1 DEF Sole, Alive, Soft
    <2>. QED  BY <2>2, <2>3, <2>4 DEF Alive
  <1>10. InOrder'
    BY <1>1 DEF Sole, InOrder
  <1>. QED  BY <1>7, <1>8, <1>9, <1>10 DEF Sole

LEMMA JoinedSole ==
    ASSUME Typed, Sole, UNCHANGED <<token, cookie>>, NEW r \in Request, StartOrJoin(r),
           ~Clears(req[r]), ~Explained'
    PROVE  Sole'
  <1>. DEFINE t == T(r)
              k == cookie[B(t)]
              v == [req[r] EXCEPT !.step = "wait"]
  <1>1. t \in Tab /\ req' = [req EXCEPT ![r] = v]
    BY Places, Zenon DEF StartOrJoin
  <1>2. v.step = "wait"
    BY DEF Typed, Calls, RequestType
  <1>. HIDE DEF v
  <1>3. Soft(v, req[r])
    BY <1>2 DEF Soft, Presents, Opens, Clears, Polite
  <1>4. CASE UNCHANGED renewal
    BY <1>1, <1>3, <1>4, SoleRequest
  <1>5. CASE renewal[t].step = "none"
    <2>1. renewal' = [renewal EXCEPT ![t] = Started(k)] /\ ~Shared(t, k)
      BY <1>5 DEF StartOrJoin, Started, Explained
    <2>2. \A q \in Request : Soft(req'[q], req[q])
      BY <1>1, <1>3, SoftOne
    <2>. QED  BY <1>1, <1>5, <2>1, <2>2, StartedSole
  <1>. QED  BY <1>4, <1>5 DEF StartOrJoin

LEMMA UnauthorizedSole ==
    ASSUME Typed, Sole, NEW r \in Request, Unauthorized(r), ~Explained'
    PROVE  Sole'
  <1>1. UNCHANGED <<token, cookie>> /\ ~Clears(req[r])
    BY DEF Unauthorized, server, Clears, Presents
  <1>. QED  BY <1>1, ExpiredSole, JoinedSole DEF Unauthorized

LEMMA AgainCarries ==
    ASSUME NEW r \in Request, NEW k
    PROVE  Carries(Again(r, k), k)
  <1>. DEFINE s == Sent(r, req[r].op, req[r].arg, TRUE)
              v == [[s EXCEPT !.access = TRUE] EXCEPT !.token = k]
  <1>1. Again(r, k) = v
    BY Zenon DEF Again
  <1>2. v.step \in {"arrive", "read"} /\ v.lost = FALSE /\ v.token = k
    BY DEF Sent, IdleReq
  <1>. QED  BY <1>1, <1>2 DEF Carries

LEMMA RenewedSole == ASSUME Typed, Sole, NEW t \in Tab, Renewed(t) PROVE Sole'
  <1>. DEFINE n == renewal[t].born
              b == B(t)
  <1>1. /\ UNCHANGED token /\ cookie' = [cookie EXCEPT ![b] = n] /\ b \in Browser
        /\ renewal' = [renewal EXCEPT ![t] = IdleRenewal] /\ Replaces(renewal[t])
        /\ req' = [r \in Request |-> IF r \notin Waiting(t) THEN req[r] ELSE Again(r, n)]
    BY Places, Zenon DEF Renewed, SetAuthCookies, server, Replaces, Again
  <1>2. Unused(n)
    BY <1>1 DEF Sole, Newborn
  <1>3. renewal'[t] = IdleRenewal /\ \A u \in Tab \ {t} : renewal'[u] = renewal[u]
    BY <1>1 DEF Typed, Calls
  <1>4. \A r \in Request : \/ req'[r] = req[r]
                           \/ T(r) = t /\ Carries(req'[r], n)
    BY <1>1, AgainCarries DEF Waiting
  <1>5. \A u \in Tab : Replaces(renewal'[u]) => renewal'[u].born # n
    <2>1. ~Replaces(IdleRenewal)
      BY DEF IdleRenewal, Replaces
    <2>. QED  BY <1>1, <1>3, <2>1 DEF Sole, Newborn
  <1>6. \A r \in Request : Opens(req'[r]) => req'[r].born # n
    <2>1. \A v : Carries(v, n) => ~Opens(v)
      BY DEF Carries, Opens
    <2>. QED  BY <1>1, <1>4, <2>1 DEF Sole, Newborn
  <1>7. \A u \in Tab : \/ Mild(renewal'[u], renewal[u])
                       \/ B(u) = b /\ renewal'[u] = IdleRenewal
    <2>1. \A u \in Tab \ {t} : Mild(renewal'[u], renewal[u])
      BY <1>3, SoftSame
    <2>2. B(t) = b /\ renewal'[t] = IdleRenewal
      BY <1>3
    <2>. HIDE DEF b
    <2>. QED  BY <2>1, <2>2
  <1>8. \A r \in Request : \/ Soft(req'[r], req[r])
                           \/ B(T(r)) = b /\ Carries(req'[r], n)
    BY <1>4, SoftSame
  <1>. HIDE DEF n, b
  <1>. QED  BY <1>1, <1>2, <1>5, <1>6, <1>7, <1>8, CookieSole

LEMMA NotRenewedSole ==
    ASSUME Typed, Sole, NEW t \in Tab, NotRenewed(t), ~Explained'
    PROVE  Sole'
  <1>1. /\ UNCHANGED <<token, cookie>> /\ renewal' = [renewal EXCEPT ![t] = IdleRenewal]
        /\ ~Spends(renewal[t])
    BY DEF NotRenewed, server, Spends, Replaces
  <1>2. \A u \in Tab : Mild(renewal'[u], renewal[u])
    BY <1>1, SoftSame, MildOne
  <1>3. CASE page[t] = "login"
    <2>1. Waiting(t) \in SUBSET Request /\ \A r \in Waiting(t) : ~Clears(req[r])
      BY DEF Waiting, Clears
    <2>2. req' = [r \in Request |-> IF r \in Waiting(t) THEN IdleReq ELSE req[r]]
      BY <1>3 DEF NotRenewed
    <2>. QED  BY <1>1, <1>2, <2>1, <2>2, WaitersSole
  <1>4. CASE page[t] # "login"
    <2>1. req' = Abandoned(t) /\ ~LoggingOut(t)
      BY <1>4 DEF NotRenewed, Explained
    <2>2. \A r \in Request : Soft(req'[r], req[r])
      BY <2>1, AbandonedSoft
    <2>3. SameRows
      BY <1>1 DEF SameRows
    <2>. QED  BY <1>1, <1>2, <2>2, <2>3, SoleKept
  <1>. QED  BY <1>3, <1>4

LEMMA LapseSole == ASSUME Typed, Sole, NEW b \in Browser, Lapse(b) PROVE Sole'
  <1>. DEFINE v(r) == [req[r] EXCEPT !.access = FALSE]
  <1>1. UNCHANGED <<token, cookie, renewal>>
        /\ req' = [r \in Request |-> IF B(T(r)) = b /\ req[r].step = "arrive" THEN v(r) ELSE req[r]]
    BY DEF Lapse, server
  <1>2. ASSUME NEW r \in Request PROVE Soft(v(r), req[r])
    <2>1. /\ v(r).op = req[r].op /\ v(r).step = req[r].step /\ v(r).lost = req[r].lost
          /\ v(r).result = req[r].result /\ v(r).born = req[r].born /\ v(r).token = req[r].token
      BY DEF Typed, Calls, RequestType
    <2>2. Polite(req[r])
      BY DEF Sole, Alive
    <2>. HIDE DEF v
    <2>. QED  BY <2>1, <2>2 DEF Soft, Presents, Opens, Clears, Polite
  <1>. HIDE DEF v
  <1>3. \A r \in Request : Soft(req'[r], req[r])
    BY <1>1, <1>2, SoftSame
  <1>4. SameRows
    BY <1>1 DEF SameRows
  <1>. QED  BY <1>1, <1>3, <1>4, SoftSame, SoleKept
\* The user's row, or a token that grows old.
LEMMA ClockSole == ASSUME Typed, Sole, UpdateUser \/ Expire PROVE Sole'
  <1>1. UNCHANGED <<cookie, req, renewal>>
    BY DEF UpdateUser, Expire, browser
  <1>2. SameRows
    <2>1. CASE UNCHANGED token
      BY <2>1 DEF SameRows
    <2>2. ASSUME NEW k \in Tokens, token[k].state = "live", Aged(k) PROVE SameRows
      BY <2>2, AgedFact DEF SameRows
    <2>. QED  BY <2>1, <2>2 DEF UpdateUser, Expire, Aged
  <1>. QED  BY <1>1, <1>2, SoftSame, SoleKept

LEMMA PanelSole == ASSUME Typed, Sole, PanelSteps, ~Explained' PROVE Sole'
  <1>1. ASSUME NEW t \in Tab, Dropped(t) PROVE FALSE
    BY <1>1 DEF Dropped, Sole, Alive, Sane
  <1>2. ASSUME NEW t \in Tab, LoadSession(t) PROVE Sole'
    <2>1. UNCHANGED <<cookie, req, renewal>> /\ SameRows
      BY <1>2 DEF LoadSession, server, SameRows
    <2>. QED  BY <2>1, SoftSame, SoleKept
  <1>3. ~Lose
    BY DEF Lose, Happens, Explained
  <1>. QED  BY <1>1, <1>2, <1>3, ReceiveSole, UnauthorizedSole, RenewedSole, NotRenewedSole,
               LapseSole DEF PanelSteps

\* What has happened has happened.
LEMMA UpsetGrows == ASSUME [Next]_vars PROVE upset \subseteq upset'
  <1>1. ASSUME NEW r \in Request, Starts(r) PROVE upset \subseteq upset'
    BY <1>1 DEF Starts, Use, Login, Logout, Verify, Secure, Forgot, Reset
  <1>2. ASSUME NEW r \in Request,
               \/ Reads(r) \/ Issue(r) \/ Writes(r) \/ RevokePresented(r) \/ RevokeSessions(r)
        PROVE  upset \subseteq upset'
    BY <1>2 DEF Reads, Writes, Validate, ReadLogin, Issue, RevokePresented, ReadSetup,
       WriteSetup, ReadEnable, WriteEnable, ReadDisable, ReadMfaLogin, RemoveCode,
       WriteDisable, WriteLink, ReadReset, WriteReset, RevokeSessions, Happens, history
  <1>3. ASSUME NEW t \in Tab,
               \/ RefreshFind(t) \/ RevokeFamily(t) \/ RefreshUpdate(t) \/ RefreshIssue(t)
        PROVE  upset \subseteq upset'
    BY <1>3 DEF RefreshFind, RevokeFamily, RefreshUpdate, RefreshIssue, history
  <1>4. ASSUME PanelSteps PROVE upset \subseteq upset'
    BY <1>4 DEF PanelSteps, Receive, Unauthorized, HandleSessionExpired, StartOrJoin, Renewed,
       NotRenewed, Dropped, LoadSession, Lapse, Lose, Happens, history
  <1>5. ASSUME UpdateUser \/ Expire PROVE upset \subseteq upset'
    BY <1>5 DEF UpdateUser, Expire, Happens
  <1>6. ASSUME UNCHANGED vars PROVE upset \subseteq upset'
    BY <1>6 DEF vars, history
  <1>. QED  BY <1>1, <1>2, <1>3, <1>4, <1>5, <1>6, StepsOfNext

LEMMA ExplainedStays == ASSUME [Next]_vars, Explained PROVE Explained'
  BY UpsetGrows DEF Explained

LEMMA SoleNext == ASSUME Typed, Sole, [Next]_vars, ~Explained' PROVE Sole'
  <1>1. ASSUME NEW r \in Request,
               \/ Starts(r) \/ Reads(r) \/ Issue(r) \/ Writes(r)
               \/ RevokePresented(r) \/ RevokeSessions(r)
        PROVE  Sole'
    <2>1. ~RevokeSessions(r)
      BY DEF RevokeSessions, Happens, Explained
    <2>. QED  BY <1>1, <2>1, StartsSole, ReadsSole, IssueSole, WritesSole, RevokePresentedSole
  <1>2. ASSUME NEW t \in Tab,
               \/ RefreshFind(t) \/ RevokeFamily(t) \/ RefreshUpdate(t) \/ RefreshIssue(t)
        PROVE  Sole'
    <2>1. ~RevokeFamily(t)
      BY DEF RevokeFamily, Sole, Alive, Sane
    <2>. QED  BY <1>2, <2>1, RefreshFindSole, RefreshUpdateSole, RefreshIssueSole
  <1>3. CASE UNCHANGED vars
    <2>1. UNCHANGED <<cookie, req, renewal>> /\ SameRows
      BY <1>3 DEF vars, server, browser, SameRows
    <2>. QED  BY <2>1, SoftSame, SoleKept
  <1>. QED  BY <1>1, <1>2, <1>3, PanelSole, ClockSole, StepsOfNext

ReplayInv == ~replayed /\ (~Explained => Sole)

LEMMA ReplayNext == ASSUME Typed, ReplayInv, [Next]_vars PROVE ReplayInv'
  <1>1. ~Explained' => Sole /\ Sole'
    BY ExplainedStays, SoleNext DEF ReplayInv
  <1>2. ~replayed'
    <2>1. ASSUME NEW r \in Request,
                 \/ Starts(r) \/ Reads(r) \/ Issue(r) \/ Writes(r)
                 \/ RevokePresented(r) \/ RevokeSessions(r)
          PROVE  UNCHANGED replayed
      <3>1. CASE Starts(r)
        BY <3>1 DEF Starts, Use, Login, Logout, Verify, Secure, Forgot, Reset, Ask
      <3>2. CASE \/ Reads(r) \/ Issue(r) \/ Writes(r) \/ RevokePresented(r) \/ RevokeSessions(r)
        BY <3>2 DEF Reads, Writes, Validate, ReadLogin, Issue, RevokePresented, ReadSetup,
           WriteSetup, ReadEnable, WriteEnable, ReadDisable, ReadMfaLogin, RemoveCode,
           WriteDisable, WriteLink, ReadReset, WriteReset, RevokeSessions, history
      <3>. QED  BY <2>1, <3>1, <3>2
    <2>2. ASSUME NEW t \in Tab, RefreshFind(t) PROVE ~replayed'
      <3>1. CASE Explained
        BY <2>2, <3>1 DEF RefreshFind, ReplayInv
      <3>2. CASE ~Explained
        BY <2>2, <3>2, RefreshFindSole DEF ReplayInv
      <3>. QED  BY <3>1, <3>2
    <2>3. ASSUME NEW t \in Tab, RevokeFamily(t) \/ RefreshUpdate(t) \/ RefreshIssue(t)
          PROVE  UNCHANGED replayed
      BY <2>3 DEF RevokeFamily, RefreshUpdate, RefreshIssue, history
    <2>4. ASSUME PanelSteps PROVE UNCHANGED replayed
      BY <2>4 DEF PanelSteps, Receive, Unauthorized, Renewed, NotRenewed, Dropped, LoadSession,
         Lapse, Lose, history
    <2>5. ASSUME UpdateUser \/ Expire \/ UNCHANGED vars PROVE UNCHANGED replayed
      BY <2>5 DEF UpdateUser, Expire, vars, history
    <2>. QED  BY <2>1, <2>2, <2>3, <2>4, <2>5, StepsOfNext DEF ReplayInv
  <1>. QED  BY <1>1, <1>2 DEF ReplayInv

\* However many browsers, tabs and requests there are, a revoked token reaches the refresh
\* route only after a lost answer, a cookie used twice at once or a password reset.
THEOREM ReplaySafety == Spec => []ReplayIsExplained
  <1>1. Init => ReplayInv
    BY SoleInitially DEF Init, ReplayInv
  <1>2. Typed /\ ReplayInv /\ [Next]_vars => ReplayInv'
    BY ReplayNext
  <1>3. ReplayInv => ReplayIsExplained
    BY DEF ReplayInv, ReplayIsExplained
  <1>. QED  BY <1>1, <1>2, <1>3, AlwaysTyped, PTL DEF Spec
-----------------------------------------------------------------------------
(***************************************************************************)
(* Why the panel sends somebody to the login page.  As long as nothing     *)
(* happened that may end a session, a page of the panel has a cookie that  *)
(* renews it, and a request sent again is not refused, except a login's.   *)
(***************************************************************************)
Forms == {"login", "mfa", "forgot", "reset"}

\* What a request of a page may be.
Meant(v, shown) ==
    /\ v.op = "none" <=> v.step = "idle"
    /\ v.op # "logout"
    /\ v.op \in Forms => shown = "login"
    /\ v.op = "get" => shown = "app"
    /\ v.result = "ticket" => v.op = "login"
    /\ v.retried /\ v.step = "arrive" => v.access
    /\ v.retried /\ v.step = "answer" /\ v.result = "401" => v.op \in {"login", "mfa"}

GoodRows == user.active /\ \A k \in Tokens : token[k].state # "expired"
OneForm  == \A r, q \in Request :
              T(r) = T(q) /\ {req[r].op, req[q].op} \cap {"none", "get"} = {} => r = q
GoodTab(t) ==
    /\ page[t] = "app" => cookie[B(t)] # None
    /\ t \in ticket => page[t] = "login"
    /\ renewal[t].step # "none" =>
         /\ \E r \in Request : T(r) = t /\ req[r].step = "wait"
         /\ page[t] = "app" => renewal[t].token # None
    /\ renewal[t].step = "answer" /\ renewal[t].result # "ok" => renewal[t].token = None
Innocent ==
    /\ GoodRows /\ OneForm
    /\ \A r \in Request : Meant(req[r], page[T(r)])
    /\ \A t \in Tab : GoodTab(t)
    /\ \A b \in access : cookie[b] # None

LEMMA InnocentInitially == Init => Innocent
  <1>. SUFFICES ASSUME Init PROVE Innocent
    OBVIOUS
  <1>1. /\ \A r \in Request : req[r] = IdleReq
        /\ \A t \in Tab : renewal[t] = IdleRenewal
        /\ IdleReq.op = "none" /\ IdleReq.step = "idle" /\ IdleReq.result = "none"
        /\ IdleReq.retried = FALSE /\ IdleRenewal.step = "none"
    BY DEF Init, IdleReq, IdleRenewal
  <1>2. GoodRows
    BY DEF Init, GoodRows
  <1>3. OneForm
    BY <1>1 DEF OneForm
  <1>4. \A r \in Request : Meant(req[r], page[T(r)])
    BY <1>1 DEF Meant, Forms
  <1>5. \A t \in Tab : GoodTab(t)
    BY <1>1, Places DEF Init, GoodTab, None
  <1>6. \A b \in access : cookie[b] # None
    BY Places DEF Init, None
  <1>. QED  BY <1>2, <1>3, <1>4, <1>5, <1>6 DEF Innocent

\* What a handler leaves as it is.
Aside == UNCHANGED <<access, cookie, page, ticket, renewal>> /\ GoodRows'

LEMMA RequestInnocent ==
    ASSUME Typed, Innocent, Aside,
           NEW r \in Request, NEW v, v.op = req[r].op \/ v.op = "none", req[r].step # "wait",
           Meant(v, page[T(r)]), req' = [req EXCEPT ![r] = v]
    PROVE  Innocent'
  <1>0. UNCHANGED <<access, cookie, page, ticket, renewal>> /\ GoodRows'
    BY DEF Aside
  <1>1. req'[r] = v /\ \A q \in Request \ {r} : req'[q] = req[q]
    BY DEF Typed, Calls
  <1>2. OneForm'
    BY <1>0, <1>1 DEF Innocent, OneForm
  <1>3. (\A q \in Request : Meant(req[q], page[T(q)]))'
    BY <1>0, <1>1 DEF Innocent
  <1>4. \A t \in Tab : GoodTab(t)'
    BY <1>0, <1>1 DEF Innocent, GoodTab
  <1>. QED  BY <1>0, <1>2, <1>3, <1>4 DEF Innocent

LEMMA RenewalInnocent ==
    ASSUME Typed, Innocent, GoodRows', UNCHANGED <<access, cookie, page, ticket, req>>,
           NEW t \in Tab, NEW v, renewal[t].step # "none", v.token = renewal[t].token,
           v.step = "answer" /\ v.result # "ok" => v.token = None,
           renewal' = [renewal EXCEPT ![t] = v]
    PROVE  Innocent'
  <1>1. renewal'[t] = v /\ \A u \in Tab \ {t} : renewal'[u] = renewal[u]
    BY DEF Typed, Calls
  <1>2. OneForm'
    BY DEF Innocent, OneForm
  <1>3. (\A q \in Request : Meant(req[q], page[T(q)]))'
    BY DEF Innocent
  <1>4. \A u \in Tab : GoodTab(u)'
    BY <1>1 DEF Innocent, GoodTab
  <1>. QED  BY <1>2, <1>3, <1>4 DEF Innocent

-----------------------------------------------------------------------------
(***************************************************************************)
(* A request is sent and handled.                                          *)
(***************************************************************************)
LEMMA AskInnocent ==
    ASSUME Typed, Innocent, NEW r \in Request, NEW op, NEW arg, NEW kind, Ask(r, op, arg, kind),
           op \notin {"none", "logout"},
           op \in Forms => page[T(r)] = "login",
           op = "get" => page[T(r)] = "app"
    PROVE  Innocent'
  <1>. DEFINE v == Sent(r, op, arg, FALSE)
  <1>1. /\ v.op = op /\ v.step \in {"arrive", "read"} /\ v.result = "none" /\ v.retried = FALSE
    BY DEF Sent, IdleReq
  <1>2. /\ req' = [req EXCEPT ![r] = v] /\ req[r].step = "idle"
        /\ UNCHANGED <<user, token, access, cookie, page, ticket, renewal>>
    BY Zenon DEF Ask, server, browser, Quiet
  <1>3. op # "get" => \A q \in Request : T(q) = T(r) => req[q].op \in {"none", "get"}
    BY DEF Ask
  <1>. HIDE DEF v
  <1>4. req'[r] = v /\ \A q \in Request \ {r} : req'[q] = req[q]
    BY <1>2 DEF Typed, Calls
  <1>5. Meant(v, page[T(r)])
    BY <1>1 DEF Meant, Forms
  <1>6. OneForm'
    BY <1>1, <1>3, <1>4 DEF Innocent, OneForm
  <1>7. (\A q \in Request : Meant(req[q], page[T(q)]))'
    BY <1>2, <1>4, <1>5 DEF Innocent
  <1>8. \A t \in Tab : GoodTab(t)'
    BY <1>2, <1>4 DEF Innocent, GoodTab
  <1>9. GoodRows'
    BY <1>2 DEF Innocent, GoodRows
  <1>. QED  BY <1>2, <1>6, <1>7, <1>8, <1>9 DEF Innocent

LEMMA StartsInnocent ==
    ASSUME Typed, Innocent, NEW r \in Request, Starts(r), upset' = {}
    PROVE  Innocent'
  <1>1. CASE Use(r)
    BY <1>1, AskInnocent DEF Use, Forms
  <1>2. CASE Login(r)
    BY <1>2, AskInnocent DEF Login
  <1>3. CASE Verify(r)
    <2>1. page[T(r)] = "login"
      BY <1>3, Places DEF Verify, Innocent, GoodTab
    <2>. QED  BY <1>3, <2>1, AskInnocent DEF Verify
  <1>4. CASE Secure(r)
    <2>1. CASE Ask(r, "setup", Totp(None), "factor")
      BY <2>1, AskInnocent DEF Forms
    <2>2. ASSUME NEW op \in {"enable", "disable"}, NEW n, NEW j, Ask(r, op, <<n, j>>, "factor")
          PROVE  Innocent'
      <3>1. op \notin {"none", "logout", "get"} /\ op \notin Forms
        BY <2>2 DEF Forms
      <3>. QED  BY <2>2, <3>1, AskInnocent
    <2>. QED  BY <1>4, <2>1, <2>2 DEF Secure
  <1>5. CASE Forgot(r)
    BY <1>5, AskInnocent DEF Forgot
  <1>6. CASE Reset(r)
    BY <1>6, AskInnocent DEF Reset
  <1>7. ~Logout(r)
    BY DEF Logout
  <1>. QED  BY <1>1, <1>2, <1>3, <1>4, <1>5, <1>6, <1>7 DEF Starts

LEMMA MovingInnocent ==
    ASSUME Typed, Innocent, Aside, NEW r \in Request, NEW v, Further(v, req[r]),
           req' = [req EXCEPT ![r] = v], req[r].step \notin {"idle", "wait"},
           v.step \notin {"idle", "arrive"},
           v.result = "ticket" => req[r].op = "login" \/ req[r].result = "ticket",
           v.step = "answer" /\ v.result = "401" /\ req[r].retried => req[r].op \in {"login", "mfa"}
    PROVE  Innocent'
  <1>1. Meant(req[r], page[T(r)])
    BY DEF Innocent
  <1>2. Meant(v, page[T(r)])
    BY <1>1 DEF Meant, Further
  <1>3. v.op = req[r].op
    BY DEF Further
  <1>. QED  BY <1>2, <1>3, RequestInnocent

LEMMA GotoInnocent ==
    ASSUME Typed, Innocent, Aside, NEW r \in Request, NEW s \in {"read", "write", "revoke", "issue"},
           Goto(r, s), req[r].step \notin {"idle", "wait"}
    PROVE  Innocent'
  <1>1. s \in Steps
    BY DEF Steps
  <1>2. PICK v \in RequestType :
          /\ req' = [req EXCEPT ![r] = v] /\ v.step = s /\ Further(v, req[r])
          /\ v.result = req[r].result
    BY <1>1, GotoFact
  <1>. QED  BY <1>2, MovingInnocent

LEMMA RespondInnocent ==
    ASSUME Typed, Innocent, Aside, NEW r \in Request, NEW x \in {"ok", "400", "401", "ticket"},
           Respond(r, x), req[r].step \notin {"idle", "wait"},
           x = "ticket" => req[r].op = "login",
           x = "401" /\ req[r].retried => req[r].op \in {"login", "mfa"}
    PROVE  Innocent'
  <1>1. PICK v \in RequestType :
          /\ req' = [req EXCEPT ![r] = v] /\ v.step = "answer" /\ Further(v, req[r]) /\ v.result = x
    BY RespondFact
  <1>. QED  BY <1>1, MovingInnocent

LEMMA PassedInnocent ==
    ASSUME Typed, Innocent, Aside, NEW r \in Request, NEW s \in {"write", "issue"}, Passed(r, s),
           req[r].step \notin {"idle", "wait"}
    PROVE  Innocent'
  <1>1. s \in Steps
    BY DEF Steps
  <1>2. PICK v \in RequestType :
          /\ req' = [req EXCEPT ![r] = v] /\ v.step = s /\ Further(v, req[r])
          /\ v.result = req[r].result
    BY <1>1, PassedFact
  <1>. QED  BY <1>2, MovingInnocent

LEMMA TakenInnocent ==
    ASSUME Typed, Innocent, Aside, NEW r \in Request, Taken(r, user.codes \ {req[r].arg}),
           req[r].step \notin {"idle", "wait"}
    PROVE  Innocent'
  <1>1. user.codes \ {req[r].arg} \in SUBSET Code
    BY DEF Typed, Rows, UserType
  <1>2. PICK v \in RequestType :
          /\ req' = [req EXCEPT ![r] = v] /\ v.step = "remove" /\ Further(v, req[r])
          /\ v.result = req[r].result
    BY <1>1, TakenFact
  <1>. QED  BY <1>2, MovingInnocent

LEMMA ReadsInnocent == ASSUME Typed, Innocent, NEW r \in Request, Reads(r) PROVE Innocent'
  <1>0. Aside
    BY ReadsRead DEF Reading, server, browser, Aside, Innocent, GoodRows
  <1>1. req[r].step \notin {"idle", "wait"} /\ user.active
    BY DEF Reads, Validate, ReadLogin, ReadSetup, ReadEnable, ReadDisable, ReadMfaLogin, ReadReset,
       Innocent, GoodRows
  <1>2. CASE Validate(r)
    <2>1. CASE ~req[r].access
      <3>1. Respond(r, "401") /\ ~req[r].retried
        BY <1>2, <2>1 DEF Validate, Innocent, Meant
      <3>. QED  BY <1>0, <1>1, <3>1, RespondInnocent
    <2>2. CASE req[r].access
      BY <1>0, <1>1, <1>2, <2>2, GotoInnocent, RespondInnocent DEF Validate
    <2>. QED  BY <2>1, <2>2
  <1>3. CASE ReadLogin(r)
    BY <1>0, <1>1, <1>3, PassedInnocent, RespondInnocent DEF ReadLogin, Passed
  <1>4. CASE ReadSetup(r) \/ ReadEnable(r) \/ ReadReset(r)
    BY <1>0, <1>1, <1>4, GotoInnocent, RespondInnocent DEF ReadSetup, ReadEnable, ReadReset
  <1>5. CASE ReadDisable(r)
    BY <1>0, <1>1, <1>5, PassedInnocent, TakenInnocent, RespondInnocent
       DEF ReadDisable, VerifyTotpOrBackupCode, Passed, Taken
  <1>6. CASE ReadMfaLogin(r)
    BY <1>0, <1>1, <1>6, PassedInnocent, TakenInnocent, RespondInnocent
       DEF ReadMfaLogin, VerifyTotpOrBackupCode, Passed, Taken
  <1>. QED  BY <1>2, <1>3, <1>4, <1>5, <1>6 DEF Reads

LEMMA WritesInnocent == ASSUME Typed, Innocent, NEW r \in Request, Writes(r) PROVE Innocent'
  <1>0. Aside
    <2>1. UNCHANGED <<token, access, cookie, page, ticket, renewal>>
      BY DEF Writes, WriteSetup, WriteEnable, RemoveCode, WriteDisable, WriteLink, WriteReset, browser
    <2>2. user'.active = user.active
      <3>1. user \in UserType
        BY DEF Typed, Rows
      <3>. QED  BY <3>1 DEF Writes, WriteSetup, WriteEnable, RemoveCode, WriteDisable, WriteLink,
                   WriteReset, UserType
    <2>. QED  BY <2>1, <2>2 DEF Aside, Innocent, GoodRows
  <1>1. req[r].step \notin {"idle", "wait"}
    BY DEF Writes, WriteSetup, WriteEnable, RemoveCode, WriteDisable, WriteLink, WriteReset
  <1>2. CASE WriteSetup(r) \/ WriteEnable(r) \/ WriteDisable(r) \/ WriteLink(r)
    BY <1>0, <1>1, <1>2, RespondInnocent DEF WriteSetup, WriteEnable, WriteDisable, WriteLink
  <1>3. CASE RemoveCode(r) \/ WriteReset(r)
    BY <1>0, <1>1, <1>3, GotoInnocent DEF RemoveCode, WriteReset
  <1>. QED  BY <1>2, <1>3 DEF Writes
LEMMA IssueInnocent == ASSUME Typed, Innocent, NEW r \in Request, Issue(r) PROVE Innocent'
  <1>. DEFINE n == Next1
              v == [[[req[r] EXCEPT !.step = "answer"] EXCEPT !.result = "ok"] EXCEPT !.born = n]
  <1>1. /\ req' = [req EXCEPT ![r] = v] /\ UNCHANGED <<user, access, cookie, page, ticket, renewal>>
        /\ req[r].step = "issue"
    BY Zenon DEF Issue, browser
  <1>2. /\ req[r].password \in Nat /\ req[r].spared \in BOOLEAN
        /\ req[r].password <= user.password /\ req[r] \in RequestType
    BY DEF Typed, Calls, RequestType
  <1>3. /\ token'[n].state = "live" /\ \A k \in Tokens \ {n} : token'[k] = token[k]
    BY <1>1, <1>2, IssueFact DEF Issue
  <1>. HIDE DEF n
  <1>4. /\ v.op = req[r].op /\ v.step = "answer" /\ v.result = "ok"
    BY <1>2 DEF RequestType
  <1>. HIDE DEF v
  <1>5. Meant(v, page[T(r)])
    BY <1>1, <1>4 DEF Innocent, Meant
  <1>6. Aside
    BY <1>1, <1>3 DEF Aside, Innocent, GoodRows
  <1>. QED  BY <1>1, <1>4, <1>5, <1>6, RequestInnocent

-----------------------------------------------------------------------------
(***************************************************************************)
(* A tab renews its session.                                               *)
(***************************************************************************)
LEMMA RefreshFindInnocent ==
    ASSUME Typed, Innocent, NEW t \in Tab, RefreshFind(t)
    PROVE  Innocent'
  <1>. DEFINE k == renewal[t].token
  <1>1. /\ UNCHANGED <<user, token, access, cookie, page, ticket, req>>
        /\ renewal[t].step = "find" /\ renewal[t].step # "none"
    BY DEF RefreshFind, server, browser
  <1>2. GoodRows' /\ user.active /\ (k # None => k \in Tokens /\ token[k].state # "expired")
    BY <1>1 DEF Innocent, GoodRows, Typed, AllIssued, IsIssued
  <1>3. CASE k = None
    <2>1. PICK v \in RenewalType :
            /\ renewal' = [renewal EXCEPT ![t] = v] /\ v.step = "answer"
            /\ Ahead(v, renewal[t]) /\ v.result = "401"
      BY <1>3, RRespondFact DEF RefreshFind
    <2>. QED  BY <1>1, <1>2, <1>3, <2>1, RenewalInnocent DEF Ahead
  <1>4. CASE RStep(t, "family")
    <2>1. PICK v \in RenewalType :
            /\ renewal' = [renewal EXCEPT ![t] = v] /\ v.step = "family" /\ Ahead(v, renewal[t])
      BY <1>4, RStepFact
    <2>. QED  BY <1>1, <1>2, <2>1, RenewalInnocent DEF Ahead
  <1>5. CASE k # None /\ Found(t, k)
    <2>1. PICK v \in RenewalType :
            /\ renewal' = [renewal EXCEPT ![t] = v] /\ v.step = "update"
            /\ v.token = renewal[t].token
      BY <1>2, <1>5, FoundFact
    <2>. QED  BY <1>1, <1>2, <2>1, RenewalInnocent
  <1>. QED  BY <1>2, <1>3, <1>4, <1>5 DEF RefreshFind, Found

LEMMA RefreshUpdateInnocent ==
    ASSUME Typed, Innocent, NEW t \in Tab, RefreshUpdate(t)
    PROVE  Innocent'
  <1>1. /\ UNCHANGED <<access, cookie, page, ticket, req>> /\ RStep(t, "issue")
        /\ renewal[t].step = "update" /\ renewal[t].step # "none"
    BY DEF RefreshUpdate, browser
  <1>2. GoodRows'
    <2>1. UNCHANGED user /\ \A k \in Tokens : token'[k] = token[k] \/ token'[k].state = "revoked"
      BY RefreshUpdateFact, RevokedFact
    <2>. QED  BY <2>1 DEF Innocent, GoodRows
  <1>3. PICK v \in RenewalType :
          /\ renewal' = [renewal EXCEPT ![t] = v] /\ v.step = "issue" /\ Ahead(v, renewal[t])
    BY <1>1, RStepFact
  <1>. QED  BY <1>1, <1>2, <1>3, RenewalInnocent DEF Ahead

LEMMA RefreshIssueInnocent ==
    ASSUME Typed, Innocent, NEW t \in Tab, RefreshIssue(t)
    PROVE  Innocent'
  <1>. DEFINE n == Next1
              v == [[[renewal[t] EXCEPT !.step = "answer"] EXCEPT !.result = "ok"] EXCEPT !.born = n]
  <1>1. /\ renewal' = [renewal EXCEPT ![t] = v]
        /\ UNCHANGED <<user, access, cookie, page, ticket, req>>
        /\ renewal[t].step = "issue" /\ renewal[t].step # "none"
    BY Zenon DEF RefreshIssue, browser
  <1>2. /\ renewal[t].password \in Nat /\ renewal[t].spared \in BOOLEAN
        /\ renewal[t].password <= user.password /\ renewal[t] \in RenewalType
    BY DEF Typed, Calls, RenewalType
  <1>3. /\ token'[n].state = "live" /\ \A k \in Tokens \ {n} : token'[k] = token[k]
    BY <1>1, <1>2, IssueFact DEF RefreshIssue
  <1>. HIDE DEF n
  <1>4. v.token = renewal[t].token /\ v.result = "ok"
    BY <1>2 DEF RenewalType
  <1>. HIDE DEF v
  <1>5. GoodRows'
    BY <1>1, <1>3 DEF Innocent, GoodRows
  <1>. QED  BY <1>1, <1>4, <1>5, RenewalInnocent

-----------------------------------------------------------------------------
(***************************************************************************)
(* What a page does with an answer.                                        *)
(***************************************************************************)
LEMMA IdleMeant == \A shown : Meant(IdleReq, shown)
  BY DEF Meant, IdleReq, Forms

\* A form of the login page waits for no renewal but its own.
LEMMA NoRenewal ==
    ASSUME Typed, Innocent, NEW r \in Request, req[r].op \in Forms, req[r].step # "wait"
    PROVE  renewal[T(r)].step = "none"
  <1>1. SUFFICES ASSUME renewal[T(r)].step # "none" PROVE FALSE
    OBVIOUS
  <1>2. PICK q \in Request : T(q) = T(r) /\ req[q].step = "wait"
    BY <1>1, Places DEF Innocent, GoodTab
  <1>3. page[T(r)] = "login" /\ req[q].op # "none" /\ req[q].op # "get"
    BY <1>2 DEF Innocent, Meant
  <1>4. {req[r].op, req[q].op} \cap {"none", "get"} = {}
    BY <1>3 DEF Forms
  <1>. QED  BY <1>2, <1>4 DEF Innocent, OneForm

\* The requests of a tab are over, and it renews nothing.
LEMMA WaitersInnocent ==
    ASSUME Typed, Innocent, UNCHANGED <<user, token, access, cookie, page, ticket>>,
           NEW t \in Tab, renewal'[t].step = "none",
           \A u \in Tab \ {t} : renewal'[u] = renewal[u],
           \A q \in Request : req'[q] = req[q] \/ (T(q) = t /\ req'[q] = IdleReq)
    PROVE  Innocent'
  <1>1. IdleReq.op = "none"
    BY DEF IdleReq
  <1>2. OneForm'
    BY <1>1 DEF Innocent, OneForm
  <1>3. (\A q \in Request : Meant(req[q], page[T(q)]))'
    BY IdleMeant DEF Innocent
  <1>4. \A u \in Tab : GoodTab(u)'
    BY DEF Innocent, GoodTab
  <1>5. GoodRows'
    BY DEF Innocent, GoodRows
  <1>. QED  BY <1>2, <1>3, <1>4, <1>5 DEF Innocent

LEMMA UnauthorizedInnocent ==
    ASSUME Typed, Innocent, NEW r \in Request, Unauthorized(r)
    PROVE  Innocent' /\ UNCHANGED expelled
  <1>. DEFINE t == T(r)
  <1>1. /\ UNCHANGED <<user, token, access, cookie, ticket>> /\ t \in Tab
        /\ req[r].step = "answer" /\ req[r].result = "401" /\ Meant(req[r], page[t])
    BY Places DEF Unauthorized, server, Innocent
  <1>2. CASE req[r].retried
    <2>1. req[r].op \in Forms /\ page[t] = "login"
      BY <1>1, <1>2 DEF Meant, Forms
    <2>2. renewal[t].step = "none"
      BY <1>1, <2>1, NoRenewal
    <2>3. /\ UNCHANGED <<page, renewal, expelled>>
          /\ req' = [q \in Request |-> IF q = r \/ q \in Waiting(t) THEN IdleReq ELSE req[q]]
      BY <1>2, <2>1 DEF Unauthorized, HandleSessionExpired
    <2>4. \A q \in Request : req'[q] = req[q] \/ (T(q) = t /\ req'[q] = IdleReq)
      BY <2>3 DEF Waiting
    <2>. HIDE DEF t
    <2>. QED  BY <1>1, <2>2, <2>3, <2>4, WaitersInnocent
  <1>3. CASE ~req[r].retried
    <2>. DEFINE v == [req[r] EXCEPT !.step = "wait"]
                k == cookie[B(t)]
    <2>1. /\ UNCHANGED <<page, expelled>> /\ req' = [req EXCEPT ![r] = v]
          /\ \/ UNCHANGED renewal /\ renewal[t].step # "none"
             \/ renewal' = [renewal EXCEPT ![t] = Started(k)]
      BY <1>3, Zenon DEF Unauthorized, StartOrJoin, Started
    <2>2. v.op = req[r].op /\ v.step = "wait" /\ v.result = "401" /\ v.retried = req[r].retried
      BY <1>1 DEF Typed, Calls, RequestType
    <2>3. Started(k).step = "find" /\ Started(k).token = k
      BY DEF Started, IdleRenewal
    <2>. HIDE DEF v, t, k
    <2>4. /\ req'[r] = v /\ \A q \in Request \ {r} : req'[q] = req[q]
          /\ \A u \in Tab \ {t} : renewal'[u] = renewal[u]
          /\ \/ renewal'[t] = renewal[t] /\ renewal[t].step # "none"
             \/ renewal'[t] = Started(k)
      BY <1>1, <2>1 DEF Typed, Calls
    <2>5. Meant(v, page[t])
      BY <1>1, <1>3, <2>2 DEF Meant
    <2>6. OneForm'
      BY <2>2, <2>4 DEF Innocent, OneForm
    <2>7. (\A q \in Request : Meant(req[q], page[T(q)]))'
      BY <2>1, <2>4, <2>5 DEF Innocent, t
    <2>8. ASSUME NEW u \in Tab \ {t} PROVE GoodTab(u)'
      <3>1. \A q \in Request : req[q].step = "wait" => req'[q].step = "wait"
        BY <2>2, <2>4
      <3>. QED  BY <1>1, <2>1, <2>4, <3>1 DEF Innocent, GoodTab
    <2>9. GoodTab(t)'
      <3>1. T(r) = t /\ req'[r].step = "wait"
        BY <2>2, <2>4 DEF t
      <3>. QED  BY <1>1, <2>1, <2>3, <2>4, <3>1 DEF Innocent, GoodTab, k
    <2>10. GoodRows'
      BY <1>1 DEF Innocent, GoodRows
    <2>. QED  BY <1>1, <2>1, <2>6, <2>7, <2>8, <2>9, <2>10 DEF Innocent
  <1>. QED  BY <1>2, <1>3
\* A session opens in a tab of a browser, or is renewed there.
LEMMA CookieInnocent ==
    ASSUME Typed, Innocent, UNCHANGED <<user, token>>, NEW t \in Tab, NEW n, n # None,
           cookie' = [cookie EXCEPT ![B(t)] = n], access' = access \cup {B(t)},
           renewal'[t].step = "none", \A u \in Tab \ {t} : renewal'[u] = renewal[u],
           \A u \in Tab \ {t} : page'[u] = page[u] /\ (u \in ticket' => u \in ticket),
           t \in ticket' => page'[t] = "login",
           \A q \in Request : Meant(req'[q], page'[T(q)]),
           \A q \in Request : req'[q].op \in {req[q].op, "none"},
           \A q \in Request : T(q) # t /\ req[q].step = "wait" => req'[q].step = "wait"
    PROVE  Innocent'
  <1>1. B(t) \in Browser
    BY Places
  <1>2. cookie'[B(t)] # None /\ \A b \in Browser : cookie[b] # None => cookie'[b] # None
    BY <1>1 DEF Typed, Panel
  <1>3. GoodRows'
    BY DEF Innocent, GoodRows
  <1>4. OneForm'
    BY DEF Innocent, OneForm
  <1>5. GoodTab(t)'
    BY <1>2 DEF GoodTab
  <1>6. ASSUME NEW u \in Tab \ {t} PROVE GoodTab(u)'
    <2>1. GoodTab(u) /\ B(u) \in Browser
      BY Places DEF Innocent
    <2>. QED  BY <1>2, <2>1 DEF GoodTab
  <1>7. (\A b \in access : cookie[b] # None)'
    BY <1>2 DEF Innocent, Typed, Panel
  <1>8. (\A q \in Request : Meant(req[q], page[T(q)]))'
    OBVIOUS
  <1>. QED  BY <1>3, <1>4, <1>5, <1>6, <1>7, <1>8 DEF Innocent

LEMMA ReceiveInnocent == ASSUME Typed, Sole, Innocent, NEW r \in Request, Receive(r) PROVE Innocent'
  <1>. DEFINE x == req[r]
              t == T(r)
  <1>1. /\ UNCHANGED <<user, token, renewal>> /\ req' = [req EXCEPT ![r] = IdleReq]
        /\ x.step = "answer" /\ (x.lost \/ x.result # "401") /\ t \in Tab
    BY Places DEF Receive, server
  <1>2. /\ req'[r] = IdleReq /\ \A q \in Request \ {r} : req'[q] = req[q]
        /\ x.result \in {"none", "ok", "400", "401", "ticket"} /\ IdleReq.op = "none"
    BY <1>1 DEF Typed, Calls, RequestType, IdleReq
  <1>3. Meant(x, page[t]) /\ GoodRows'
    BY <1>1 DEF Innocent, GoodRows
  <1>4. ASSUME UNCHANGED <<access, cookie, page, ticket>> PROVE Innocent'
    <2>1. Aside
      BY <1>1, <1>3, <1>4 DEF Aside
    <2>. QED  BY <1>1, <1>2, <2>1, IdleMeant, RequestInnocent
  <1>5. ASSUME UNCHANGED <<access, cookie, page>>, ticket' = ticket \cup {t}, x.result = "ticket"
        PROVE  Innocent'
    <2>1. page[t] = "login"
      BY <1>3, <1>5 DEF Meant, Forms
    <2>2. OneForm'
      BY <1>2 DEF Innocent, OneForm
    <2>3. (\A q \in Request : Meant(req[q], page[T(q)]))'
      BY <1>2, <1>5, IdleMeant DEF Innocent
    <2>. HIDE DEF t
    <2>4. ASSUME NEW u \in Tab PROVE GoodTab(u)'
      <3>1. GoodTab(u)
        BY DEF Innocent
      <3>2. u \in ticket' => page[u] = "login"
        BY <1>5, <2>1, <3>1 DEF GoodTab
      <3>3. \A q \in Request : req[q].step = "wait" => req'[q].step = "wait"
        BY <1>1, <1>2
      <3>. QED  BY <1>1, <1>5, <3>1, <3>2, <3>3 DEF GoodTab
    <2>. QED  BY <1>3, <1>5, <2>2, <2>3, <2>4 DEF Innocent
  <1>6. ASSUME x.op \in {"login", "mfa"}, x.result = "ok", SetAuthCookies(t, x.born),
               page' = [page EXCEPT ![t] = "app"], ticket' = ticket \ {t}
        PROVE  Innocent'
    <2>. DEFINE n == x.born
    <2>1. n # None
      BY <1>1, <1>6, Places DEF Sole, Newborn, Opens, Unused, IsIssued
    <2>2. x.op \in Forms /\ page[t] = "login"
      BY <1>3, <1>6 DEF Meant, Forms
    <2>3. renewal'[t].step = "none"
      BY <1>1, <2>2, NoRenewal
    <2>4. page'[t] = "app" /\ \A u \in Tab \ {t} : page'[u] = page[u]
      BY <1>1, <1>6 DEF Typed, Panel
    <2>5. ASSUME NEW q \in Request PROVE Meant(req'[q], page'[T(q)])
      <3>1. CASE q = r
        BY <1>2, <3>1, IdleMeant
      <3>2. CASE q # r /\ T(q) # t
        BY <1>2, <2>4, <3>2, Places DEF Innocent
      <3>3. CASE q # r /\ T(q) = t
        <4>1. Meant(req[q], page[t])
          BY <3>3 DEF Innocent
        <4>2. req[q].op = "none"
          <5>1. ~({x.op, req[q].op} \cap {"none", "get"} = {})
            BY <3>3 DEF Innocent, OneForm
          <5>2. req[q].op # "get"
            BY <2>2, <4>1 DEF Meant
          <5>. QED  BY <1>6, <5>1, <5>2
        <4>. QED  BY <1>2, <3>3, <4>1, <4>2 DEF Meant, Forms
      <3>. QED  BY <3>1, <3>2, <3>3
    <2>6. \A q \in Request : T(q) # t /\ req[q].step = "wait" => req'[q].step = "wait"
      BY <1>2
    <2>7. /\ \A q \in Request : req'[q].op \in {req[q].op, "none"}
          /\ \A u \in Tab \ {t} : renewal'[u] = renewal[u]
          /\ \A u \in Tab \ {t} : page'[u] = page[u] /\ (u \in ticket' => u \in ticket)
          /\ t \in ticket' => page'[t] = "login"
      BY <1>1, <1>2, <1>6, <2>4
    <2>8. cookie' = [cookie EXCEPT ![B(t)] = n] /\ access' = access \cup {B(t)}
      BY <1>6 DEF SetAuthCookies
    <2>. HIDE DEF n, t, x
    <2>. QED  BY <1>1, <2>1, <2>3, <2>5, <2>6, <2>7, <2>8, CookieInnocent
  <1>7. x.op # "logout"
    BY <1>3 DEF Meant
  <1>. QED  BY <1>1, <1>2, <1>4, <1>5, <1>6, <1>7 DEF Receive, browser

LEMMA AgainMeant ==
    ASSUME NEW r \in Request, NEW k, NEW shown, Meant(req[r], shown), req[r].step = "wait"
    PROVE  Meant(Again(r, k), shown) /\ Again(r, k).op = req[r].op
  <1>. DEFINE op == req[r].op
              s == Sent(r, op, req[r].arg, TRUE)
              v == [[s EXCEPT !.access = TRUE] EXCEPT !.token = k]
  <1>1. Again(r, k) = v
    BY Zenon DEF Again
  <1>2. op \notin {"none", "logout"}
    BY DEF Meant
  <1>3. /\ v.step \in {"arrive", "read"} /\ v.op = op /\ v.access = TRUE /\ v.result = "none"
    BY DEF Sent, IdleReq
  <1>. HIDE DEF v
  <1>. QED  BY <1>1, <1>2, <1>3 DEF Meant

LEMMA RenewedInnocent == ASSUME Typed, Sole, Innocent, NEW t \in Tab, Renewed(t) PROVE Innocent'
  <1>. DEFINE n == renewal[t].born
  <1>1. /\ UNCHANGED <<user, token, page, ticket>> /\ SetAuthCookies(t, n)
        /\ renewal' = [renewal EXCEPT ![t] = IdleRenewal] /\ Replaces(renewal[t])
        /\ req' = [r \in Request |-> IF r \notin Waiting(t) THEN req[r] ELSE Again(r, n)]
    BY Zenon DEF Renewed, server, Replaces, Again
  <1>2. n # None
    BY <1>1, Places DEF Sole, Newborn, Unused, IsIssued
  <1>3. renewal'[t].step = "none" /\ \A u \in Tab \ {t} : renewal'[u] = renewal[u]
    BY <1>1 DEF Typed, Calls, IdleRenewal
  <1>. HIDE DEF n
  <1>4. ASSUME NEW q \in Request
        PROVE  Meant(req'[q], page'[T(q)]) /\ req'[q].op = req[q].op
    <2>1. Meant(req[q], page[T(q)])
      BY DEF Innocent
    <2>2. CASE q \in Waiting(t)
      <3>1. req[q].step = "wait" /\ req'[q] = Again(q, n)
        BY <1>1, <2>2 DEF Waiting
      <3>2. Meant(Again(q, n), page[T(q)]) /\ Again(q, n).op = req[q].op
        BY <2>1, <3>1, AgainMeant
      <3>. QED  BY <1>1, <3>1, <3>2
    <2>3. CASE q \notin Waiting(t)
      BY <1>1, <2>1, <2>3
    <2>. QED  BY <2>2, <2>3
  <1>5. \A q \in Request : T(q) # t /\ req[q].step = "wait" => req'[q].step = "wait"
    BY <1>1 DEF Waiting
  <1>6. t \in ticket' => page'[t] = "login"
    BY <1>1 DEF Innocent, GoodTab
  <1>7. \A q \in Request : req'[q].op \in {req[q].op, "none"}
    BY <1>4
  <1>8. cookie' = [cookie EXCEPT ![B(t)] = n] /\ access' = access \cup {B(t)}
    BY <1>1 DEF SetAuthCookies
  <1>. QED  BY <1>1, <1>2, <1>3, <1>4, <1>5, <1>6, <1>7, <1>8, CookieInnocent

LEMMA NotRenewedInnocent ==
    ASSUME Typed, Innocent, NEW t \in Tab, NotRenewed(t)
    PROVE  Innocent' /\ UNCHANGED expelled
  <1>1. /\ UNCHANGED <<user, token, access, cookie, ticket>>
        /\ renewal' = [renewal EXCEPT ![t] = IdleRenewal]
        /\ renewal[t].step = "answer" /\ renewal[t].result # "ok"
    BY DEF NotRenewed, server
  <1>2. page[t] = "login"
    <2>1. page[t] # "app"
      BY <1>1 DEF Innocent, GoodTab
    <2>. QED  BY <2>1 DEF Typed, Panel
  <1>3. /\ UNCHANGED <<page, expelled>>
        /\ req' = [r \in Request |-> IF r \in Waiting(t) THEN IdleReq ELSE req[r]]
    BY <1>2 DEF NotRenewed
  <1>4. \A q \in Request : req'[q] = req[q] \/ (T(q) = t /\ req'[q] = IdleReq)
    BY <1>3 DEF Waiting
  <1>5. renewal'[t].step = "none" /\ \A u \in Tab \ {t} : renewal'[u] = renewal[u]
    BY <1>1 DEF Typed, Calls, IdleRenewal
  <1>. QED  BY <1>1, <1>3, <1>4, <1>5, WaitersInnocent

LEMMA LoadInnocent == ASSUME Typed, Innocent, NEW t \in Tab, LoadSession(t) PROVE Innocent'
  <1>. DEFINE now == IF B(t) \in access /\ user.active THEN "app" ELSE "login"
  <1>1. /\ UNCHANGED <<user, token, access, cookie, req, renewal>>
        /\ page' = [page EXCEPT ![t] = now] /\ ticket' = ticket \ {t}
        /\ \A r \in Request : T(r) = t => req[r].step = "idle"
        /\ renewal[t].step = "none"
    BY DEF LoadSession, server, Quiet
  <1>2. now = "app" => cookie[B(t)] # None
    BY DEF Innocent
  <1>. HIDE DEF now
  <1>3. page'[t] = now /\ \A u \in Tab \ {t} : page'[u] = page[u]
    BY <1>1 DEF Typed, Panel
  <1>4. GoodRows' /\ OneForm'
    BY <1>1 DEF Innocent, GoodRows, OneForm
  <1>5. ASSUME NEW q \in Request PROVE Meant(req'[q], page'[T(q)])
    <2>1. Meant(req[q], page[T(q)])
      BY DEF Innocent
    <2>2. CASE T(q) = t
      BY <1>1, <2>1, <2>2 DEF Meant, Forms
    <2>3. CASE T(q) # t
      BY <1>1, <1>3, <2>1, <2>3, Places
    <2>. QED  BY <2>2, <2>3
  <1>6. ASSUME NEW u \in Tab PROVE GoodTab(u)'
    <2>1. GoodTab(u)
      BY DEF Innocent
    <2>2. CASE u = t
      BY <1>1, <1>2, <1>3, <2>2 DEF GoodTab
    <2>3. CASE u # t
      BY <1>1, <1>3, <2>1, <2>3 DEF GoodTab
    <2>. QED  BY <2>2, <2>3
  <1>7. (\A b \in access : cookie[b] # None)'
    BY <1>1 DEF Innocent
  <1>. QED  BY <1>4, <1>5, <1>6, <1>7 DEF Innocent

LEMMA LapseInnocent == ASSUME Typed, Innocent, NEW b \in Browser, Lapse(b) PROVE Innocent'
  <1>. DEFINE v(r) == [req[r] EXCEPT !.access = FALSE]
  <1>1. /\ UNCHANGED <<user, token, cookie, page, ticket, renewal>> /\ access' = access \ {b}
        /\ req' = [r \in Request |-> IF B(T(r)) = b /\ req[r].step = "arrive" THEN v(r) ELSE req[r]]
        /\ \A r \in Request : B(T(r)) = b => ~(req[r].retried /\ req[r].step = "arrive")
    BY DEF Lapse, server
  <1>2. ASSUME NEW r \in Request
        PROVE  /\ Meant(req'[r], page[T(r)]) /\ req'[r].op = req[r].op
               /\ req'[r].step = req[r].step
    <2>1. Meant(req[r], page[T(r)])
      BY DEF Innocent
    <2>2. CASE B(T(r)) = b /\ req[r].step = "arrive"
      <3>1. /\ v(r).op = req[r].op /\ v(r).step = req[r].step
            /\ v(r).result = req[r].result /\ v(r).retried = req[r].retried
        BY DEF Typed, Calls, RequestType
      <3>2. req'[r] = v(r)
        BY <1>1, <2>2
      <3>3. ~req[r].retried
        BY <1>1, <2>2
      <3>. HIDE DEF v
      <3>. QED  BY <2>1, <2>2, <3>1, <3>2, <3>3 DEF Meant
    <2>3. CASE ~(B(T(r)) = b /\ req[r].step = "arrive")
      BY <1>1, <2>1, <2>3
    <2>. QED  BY <2>2, <2>3
  <1>. HIDE DEF v
  <1>3. GoodRows' /\ OneForm'
    BY <1>1, <1>2 DEF Innocent, GoodRows, OneForm
  <1>4. (\A r \in Request : Meant(req[r], page[T(r)]))'
    BY <1>1, <1>2
  <1>5. ASSUME NEW t \in Tab PROVE GoodTab(t)'
    <2>1. GoodTab(t)
      BY DEF Innocent
    <2>. QED  BY <1>1, <1>2, <2>1 DEF GoodTab
  <1>6. (\A c \in access : cookie[c] # None)'
    BY <1>1 DEF Innocent
  <1>. QED  BY <1>3, <1>4, <1>5, <1>6 DEF Innocent
LEMMA InnocentNext == ASSUME Typed, Sole, Innocent, [Next]_vars, upset' = {} PROVE Innocent'
  <1>1. ASSUME NEW r \in Request,
               \/ Starts(r) \/ Reads(r) \/ Issue(r) \/ Writes(r)
               \/ RevokePresented(r) \/ RevokeSessions(r)
        PROVE  Innocent'
    <2>1. ~RevokeSessions(r)
      BY DEF RevokeSessions, Happens
    <2>2. ~RevokePresented(r)
      BY DEF RevokePresented, Innocent, Meant
    <2>. QED  BY <1>1, <2>1, <2>2, StartsInnocent, ReadsInnocent, IssueInnocent, WritesInnocent
  <1>2. ASSUME NEW t \in Tab,
               \/ RefreshFind(t) \/ RevokeFamily(t) \/ RefreshUpdate(t) \/ RefreshIssue(t)
        PROVE  Innocent'
    <2>1. ~RevokeFamily(t)
      BY DEF RevokeFamily, Sole, Alive, Sane
    <2>. QED  BY <1>2, <2>1, RefreshFindInnocent, RefreshUpdateInnocent, RefreshIssueInnocent
  <1>3. ASSUME PanelSteps PROVE Innocent'
    <2>1. ASSUME NEW t \in Tab, Dropped(t) PROVE FALSE
      BY <2>1 DEF Dropped, Sole, Alive, Sane
    <2>2. ~Lose
      BY DEF Lose, Happens
    <2>. QED  BY <1>3, <2>1, <2>2, ReceiveInnocent, UnauthorizedInnocent, RenewedInnocent,
                 NotRenewedInnocent, LoadInnocent, LapseInnocent DEF PanelSteps
  <1>4. ~(UpdateUser \/ Expire)
    BY DEF UpdateUser, Expire, Happens
  <1>5. CASE UNCHANGED vars
    <2>1. UNCHANGED <<user, token, access, cookie, page, ticket, req, renewal>>
      BY <1>5 DEF vars, server, browser
    <2>2. \A t \in Tab : GoodTab(t)'
      BY <2>1 DEF Innocent, GoodTab
    <2>3. GoodRows' /\ OneForm' /\ (\A r \in Request : Meant(req[r], page[T(r)]))'
      BY <2>1 DEF Innocent, GoodRows, OneForm
    <2>. QED  BY <2>1, <2>2, <2>3 DEF Innocent
  <1>. QED  BY <1>1, <1>2, <1>3, <1>4, <1>5, StepsOfNext

\* Nobody is sent away but by an answer 401, and then not for nothing.
LEMMA ExpelledStays ==
    ASSUME Typed, [Next]_vars, upset = {} => Innocent
    PROVE  expelled' => expelled
  <1>1. ASSUME NEW r \in Request, Unauthorized(r) PROVE expelled' => expelled
    <2>1. CASE upset = {}
      BY <1>1, <2>1, UnauthorizedInnocent
    <2>2. CASE upset # {}
      BY <1>1, <2>2 DEF Unauthorized, HandleSessionExpired, StartOrJoin
    <2>. QED  BY <2>1, <2>2
  <1>2. ASSUME NEW t \in Tab, NotRenewed(t) PROVE expelled' => expelled
    <2>1. CASE upset = {}
      BY <1>2, <2>1, NotRenewedInnocent
    <2>2. CASE upset # {}
      BY <1>2, <2>2 DEF NotRenewed
    <2>. QED  BY <2>1, <2>2
  <1>3. ASSUME NEW r \in Request, Starts(r) PROVE UNCHANGED expelled
    BY <1>3 DEF Starts, Use, Login, Logout, Verify, Secure, Forgot, Reset, Ask
  <1>4. ASSUME NEW r \in Request,
               \/ Reads(r) \/ Issue(r) \/ Writes(r) \/ RevokePresented(r) \/ RevokeSessions(r)
        PROVE  UNCHANGED expelled
    BY <1>4 DEF Reads, Writes, Validate, ReadLogin, Issue, RevokePresented, ReadSetup,
       WriteSetup, ReadEnable, WriteEnable, ReadDisable, ReadMfaLogin, RemoveCode,
       WriteDisable, WriteLink, ReadReset, WriteReset, RevokeSessions, history
  <1>5. ASSUME NEW t \in Tab,
               \/ RefreshFind(t) \/ RevokeFamily(t) \/ RefreshUpdate(t) \/ RefreshIssue(t)
        PROVE  UNCHANGED expelled
    BY <1>5 DEF RefreshFind, RevokeFamily, RefreshUpdate, RefreshIssue, history
  <1>6. ASSUME PanelSteps PROVE expelled' => expelled
    BY <1>1, <1>2, <1>6 DEF PanelSteps, Receive, Renewed, Dropped, LoadSession, Lapse, Lose, history
  <1>7. ASSUME UpdateUser \/ Expire \/ UNCHANGED vars PROVE UNCHANGED expelled
    BY <1>7 DEF UpdateUser, Expire, vars, history
  <1>. QED  BY <1>3, <1>4, <1>5, <1>6, <1>7, StepsOfNext

ExpelInv == ReplayInv /\ ~expelled /\ (upset = {} => Innocent)

LEMMA ExpelNext == ASSUME Typed, ExpelInv, [Next]_vars PROVE ExpelInv'
  <1>1. ReplayInv'
    BY ReplayNext DEF ExpelInv
  <1>2. ~expelled'
    BY ExpelledStays DEF ExpelInv
  <1>3. upset' = {} => Innocent'
    <2>1. SUFFICES ASSUME upset' = {} PROVE Innocent'
      OBVIOUS
    <2>2. upset = {}
      BY <2>1, UpsetGrows
    <2>3. Sole /\ Innocent
      BY <2>2 DEF ExpelInv, ReplayInv, Explained
    <2>. QED  BY <2>1, <2>3, InnocentNext
  <1>. QED  BY <1>1, <1>2, <1>3 DEF ExpelInv

\* However many tabs and requests there are, the panel sends nobody to the login page while
\* nothing has happened that may end the session.
THEOREM ExpelSafety == Spec => []ExpelledForCause
  <1>1. Init => ExpelInv
    BY SoleInitially, InnocentInitially DEF Init, ReplayInv, ExpelInv
  <1>2. Typed /\ ExpelInv /\ [Next]_vars => ExpelInv'
    BY ExpelNext
  <1>3. ExpelInv => ExpelledForCause
    BY DEF ExpelInv, ExpelledForCause
  <1>. QED  BY <1>1, <1>2, <1>3, AlwaysTyped, PTL DEF Spec
=============================================================================
