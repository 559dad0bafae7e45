---------------------------- MODULE AuthSessions ----------------------------
(***************************************************************************)
(* AuthService and the web panel's HTTP client: the sessions of one user.  *)
(* A browser holds an access and a refresh cookie, shared by its tabs.  A  *)
(* request answered 401 waits for the refresh of its tab (one at a time,   *)
(* refreshPromise) and is sent once more; a refresh revokes the token it   *)
(* presents and issues the next; a token presented again revokes every     *)
(* token of the user.  The same user record carries the password, the      *)
(* second factor with its recovery codes and the links sent by e-mail.     *)
(*                                                                         *)
(* A request runs its handler on the server one await at a time.  Refresh  *)
(* tokens, passwords, second-factor setups and links are numbered in the   *)
(* order of their creation; a code of setup n is <<n, 0>> from the         *)
(* authenticator and <<n, j>> the recovery code j.  `budget` bounds how    *)
(* much of each kind of thing a behaviour still holds: Mixes lists the     *)
(* combinations an instance explores.                                      *)
(***************************************************************************)
EXTENDS Naturals, FiniteSets

CONSTANTS
    Browser,     \* browsers of the user
    Tab,         \* tabs open on the panel
    BrowserOf,   \* the browser a tab is open in
    Request,     \* requests of the tabs
    TabOf,       \* the tab that sends a request
    Home,        \* the browser the user registered from
    RecoveryCodes, \* recovery codes of a setup: 8 in the code
    MaxToken,    \* bound: refresh tokens ever issued
    Mixes        \* bound: how many of each kind of thing happen, per combination

Kinds == {"get", "login", "logout", "factor", "link", "lose", "toggle", "lapse", "expire"}

ASSUME AuthAssumption ==
    /\ BrowserOf \in [Tab -> Browser] /\ TabOf \in [Request -> Tab] /\ Home \in Browser
    /\ RecoveryCodes \in Nat \ {0} /\ MaxToken \in Nat \ {0}
    /\ Mixes \subseteq [Kinds -> Nat]

VARIABLES
    user,      \* the row of the user
    token,     \* refreshToken rows
    access,    \* browsers whose access cookie has not expired
    cookie,    \* the refresh cookie of each browser
    page,      \* what each tab shows
    ticket,    \* tabs that hold the ticket of a login waiting for its code
    req,       \* requests in flight
    renewal,   \* refreshPromise of each tab, and the call behind it
    budget,    \* what may still happen
    confirmed, \* history: the setup whose code turned the second factor on
    spent,     \* history: recovery codes accepted since that setup
    ended,     \* history: sessions of passwords older than this one were ended
    upset,     \* history: what happened that may end a session
    expelled,  \* history: a tab was sent to the login page and nothing had happened
    replayed,  \* history: a revoked token was presented, and nothing that explains it had happened
    crossed    \* history: two handlers worked on the second factor at once

server  == <<user, token>>
browser == <<access, cookie, page, ticket>>
history == <<confirmed, spent, ended, upset, expelled, replayed, crossed>>
vars    == <<server, browser, req, renewal, budget, history>>

Tokens  == 1 .. MaxToken
None    == 0
B(t)    == BrowserOf[t]
T(r)    == TabOf[r]

NeedsJwt  == {"get", "logout", "setup", "enable", "disable"}
OnFactor  == {"setup", "enable", "disable", "mfa"}
Quiet(r)  == req[r].step = "idle"
Totp(n)   == <<n, 0>>
CodesOf(n) == {<<n, j>> : j \in 1 .. RecoveryCodes}

IdleReq == [op |-> "none", step |-> "idle", arg |-> Totp(None), access |-> FALSE,
            token |-> None, retried |-> FALSE, lost |-> FALSE, codes |-> {},
            password |-> None, spared |-> FALSE, result |-> "none", born |-> None]
IdleRenewal == [step |-> "none", token |-> None, password |-> None, spared |-> FALSE,
                lost |-> FALSE, result |-> "none", born |-> None]

Spend(kind)  == budget[kind] > 0 /\ budget' = [budget EXCEPT ![kind] = @ - 1]
Goto(r, s)   == req' = [req EXCEPT ![r].step = s]
Respond(r, x) == req' = [req EXCEPT ![r].step = "answer", ![r].result = x]

\* The refresh tokens already issued, and the next one.
Issued == {k \in Tokens : token[k].state # "none"}
Next1  == Cardinality(Issued) + 1

\* issueTokens: the row of the new refresh token.
IssueTokens(password, spared) ==
    /\ Next1 \in Tokens
    /\ token' = [token EXCEPT ![Next1] = [state |-> "live", password |-> password,
                                          spared |-> spared]]

\* updateMany({ userId, revokedAt: null }).
RevokeAll ==
    token' = [k \in Tokens |-> IF token[k].state = "none" THEN token[k]
                               ELSE [token[k] EXCEPT !.state = "revoked"]]

-----------------------------------------------------------------------------
(***************************************************************************)
(* A tab sends a request, with the cookies its browser then holds.         *)
(***************************************************************************)
Sent(r, op, arg, again) ==
    [IdleReq EXCEPT !.op = op, !.step = IF op \in NeedsJwt THEN "arrive" ELSE "read",
                    !.arg = arg, !.retried = again,
                    !.access = (B(T(r)) \in access), !.token = cookie[B(T(r))]]

\* A logout that has revoked the cookie it was sent with, or is about to.
Presents(x) ==
    /\ x.op = "logout" /\ x.step \in {"arrive", "revoke", "answer"}
    /\ ~(x.step = "answer" /\ x.result = "401")

\* One more tab of the browser presents the same refresh cookie at this moment.
Shared(t, k) ==
    /\ k # None
    /\ \/ \E u \in Tab \ {t} : renewal[u].token = k
       \/ \E r \in Request : Presents(req[r]) /\ req[r].token = k
Happens(event) == upset' = upset \cup {event}

\* A form is submitted once at a time (`submitting`); a page loads many things at once.
Ask(r, op, arg, kind) ==
    /\ Quiet(r) /\ Spend(kind)
    /\ op # "get" => \A q \in Request : T(q) = T(r) => req[q].op \in {"none", "get"}
    /\ req' = [req EXCEPT ![r] = Sent(r, op, arg, FALSE)]
    /\ crossed' = (crossed \/ (op \in OnFactor /\ \E q \in Request \ {r} : req[q].op \in OnFactor))
    /\ UNCHANGED <<server, browser, renewal, confirmed, spent, ended, expelled, replayed>>

Use(r)    == page[T(r)] = "app" /\ Ask(r, "get", Totp(None), "get") /\ UNCHANGED upset
Login(r)  == /\ page[T(r)] = "login"
             /\ \E p \in 1 .. user.password : Ask(r, "login", Totp(p), "login")
             /\ UNCHANGED upset
Logout(r) == /\ page[T(r)] = "app" /\ Ask(r, "logout", Totp(None), "logout")
             /\ upset' = upset \cup {"logout"} \cup
                  {"shared" : t \in {u \in Tab : renewal[u].token \in {cookie[B(T(r))]} \ {None}}}
Verify(r) == /\ T(r) \in ticket
             /\ \E c \in {Totp(user.setups)} \cup CodesOf(user.setups) : Ask(r, "mfa", c, "factor")
             /\ UNCHANGED upset
Secure(r) == /\ page[T(r)] = "app"
             /\ \/ Ask(r, "setup", Totp(None), "factor")
                \/ /\ user.setups > 0
                   /\ \E op \in {"enable", "disable"}, n \in 1 .. user.setups,
                         j \in 0 .. RecoveryCodes : Ask(r, op, <<n, j>>, "factor")
             /\ UNCHANGED upset
Forgot(r) == page[T(r)] = "login" /\ Ask(r, "forgot", Totp(None), "link") /\ UNCHANGED upset
Reset(r)  == /\ page[T(r)] = "login"
             /\ \E n \in 1 .. user.links : Ask(r, "reset", Totp(n), "link")
             /\ UNCHANGED upset

-----------------------------------------------------------------------------
(***************************************************************************)
(* The guard of every protected route: the access token, and the user as   *)
(* the database has it.                                                    *)
(***************************************************************************)
Validate(r) ==
    /\ req[r].step = "arrive"
    /\ IF ~req[r].access \/ ~user.active THEN Respond(r, "401")
       ELSE IF req[r].op = "get" THEN Respond(r, "ok")
       ELSE Goto(r, IF req[r].op = "logout" THEN "revoke" ELSE "read")
    /\ UNCHANGED <<server, browser, renewal, budget, history>>

ReadLogin(r) ==
    /\ req[r].step = "read" /\ req[r].op = "login"
    /\ IF ~user.active \/ req[r].arg # Totp(user.password) THEN Respond(r, "401")
       ELSE IF user.totp THEN Respond(r, "ticket")
       ELSE req' = [req EXCEPT ![r].step = "issue", ![r].password = user.password]
    /\ UNCHANGED <<server, browser, renewal, budget, history>>

\* Mutant: the pair is answered and the row of the refresh token is not stored.
IssueMutant(r) ==
    /\ req[r].step = "issue" /\ Next1 \in Tokens
    /\ req' = [req EXCEPT ![r].step = "answer", ![r].result = "ok", ![r].born = Next1]
    /\ UNCHANGED <<server, browser, renewal, budget, history>>

Issue(r) ==
    /\ req[r].step = "issue"
    /\ IssueTokens(req[r].password, req[r].spared)
    /\ req' = [req EXCEPT ![r].step = "answer", ![r].result = "ok", ![r].born = Next1]
    /\ UNCHANGED <<user, browser, renewal, budget, history>>

RevokePresented(r) ==
    /\ req[r].step = "revoke" /\ req[r].op = "logout"
    /\ token' = [k \in Tokens |-> IF k = req[r].token /\ token[k].state # "none"
                                  THEN [token[k] EXCEPT !.state = "revoked"] ELSE token[k]]
    /\ Respond(r, "ok")
    /\ UNCHANGED <<user, browser, renewal, budget, history>>

-----------------------------------------------------------------------------
(***************************************************************************)
(* The second factor.  Every handler reads the user, decides on what it    *)
(* read, and writes only the fields it changes.                            *)
(***************************************************************************)
WriteSetup(r) ==
    /\ req[r].step = "write" /\ req[r].op = "setup"
    /\ user' = [user EXCEPT !.secret = user.setups + 1, !.setups = user.setups + 1,
                            !.codes = CodesOf(user.setups + 1)]
    /\ Respond(r, "ok")
    /\ UNCHANGED <<token, browser, renewal, budget, history>>

ReadSetup(r) ==
    /\ req[r].step = "read" /\ req[r].op = "setup"
    /\ IF user.totp THEN Respond(r, "400") ELSE Goto(r, "write")
    /\ UNCHANGED <<server, browser, renewal, budget, history>>

ReadEnable(r) ==
    /\ req[r].step = "read" /\ req[r].op = "enable"
    /\ IF user.totp \/ user.secret = None \/ req[r].arg # Totp(user.secret)
       THEN Respond(r, "400") ELSE Goto(r, "write")
    /\ UNCHANGED <<server, browser, renewal, budget, history>>

WriteEnable(r) ==
    /\ req[r].step = "write" /\ req[r].op = "enable"
    /\ user' = [user EXCEPT !.totp = TRUE]
    /\ confirmed' = req[r].arg[1] /\ spent' = {}
    /\ Respond(r, "ok")
    /\ UNCHANGED <<token, browser, renewal, budget, ended, upset, expelled, replayed, crossed>>

\* verifyTotpOrBackupCode on the user read: a code of the authenticator passes, a
\* recovery code is first removed from the codes read.
VerifyTotpOrBackupCode(r, passed, refused) ==
    LET c == req[r].arg IN
    IF user.secret # None /\ c = Totp(user.secret)
    THEN req' = [req EXCEPT ![r].step = passed, ![r].password = user.password]
    ELSE IF c \in user.codes
    THEN req' = [req EXCEPT ![r].step = "remove", ![r].codes = user.codes \ {c},
                            ![r].password = user.password]
    ELSE Respond(r, refused)

ReadDisable(r) ==
    /\ req[r].step = "read" /\ req[r].op = "disable"
    /\ IF ~user.totp THEN Respond(r, "400") ELSE VerifyTotpOrBackupCode(r, "write", "400")
    /\ UNCHANGED <<server, browser, renewal, budget, history>>

\* The ticket of the login may also have passed its five minutes.
ReadMfaLogin(r) ==
    /\ req[r].step = "read" /\ req[r].op = "mfa"
    /\ \/ Respond(r, "401")
       \/ /\ user.active /\ user.totp
          /\ VerifyTotpOrBackupCode(r, "issue", "401")
    /\ UNCHANGED <<server, browser, renewal, budget, history>>

\* Mutant: the code accepted stays among the codes.
RemoveCodeMutant(r) ==
    /\ req[r].step = "remove"
    /\ spent' = spent \cup {req[r].arg}
    /\ Goto(r, IF req[r].op = "mfa" THEN "issue" ELSE "write")
    /\ UNCHANGED <<server, browser, renewal, budget, confirmed, ended, upset, expelled,
                   replayed, crossed>>

RemoveCode(r) ==
    /\ req[r].step = "remove"
    /\ user' = [user EXCEPT !.codes = req[r].codes]
    /\ spent' = spent \cup {req[r].arg}
    /\ Goto(r, IF req[r].op = "mfa" THEN "issue" ELSE "write")
    /\ UNCHANGED <<token, browser, renewal, budget, confirmed, ended, upset, expelled,
                   replayed, crossed>>

WriteDisable(r) ==
    /\ req[r].step = "write" /\ req[r].op = "disable"
    /\ user' = [user EXCEPT !.totp = FALSE, !.secret = None, !.codes = {}]
    /\ Respond(r, "ok")
    /\ UNCHANGED <<token, browser, renewal, budget, history>>

-----------------------------------------------------------------------------
(***************************************************************************)
(* The reset link: one slot on the user, overwritten by the next request.  *)
(***************************************************************************)
WriteLink(r) ==
    /\ req[r].step = "read" /\ req[r].op = "forgot"
    /\ user' = [user EXCEPT !.link = user.links + 1, !.links = user.links + 1,
                            !.linkFresh = TRUE]
    /\ Respond(r, "ok")
    /\ UNCHANGED <<token, browser, renewal, budget, history>>

ReadReset(r) ==
    /\ req[r].step = "read" /\ req[r].op = "reset"
    /\ IF user.link # req[r].arg[1] \/ ~user.linkFresh THEN Respond(r, "400")
                                                        ELSE Goto(r, "write")
    /\ UNCHANGED <<server, browser, renewal, budget, history>>

WriteReset(r) ==
    /\ req[r].step = "write" /\ req[r].op = "reset"
    /\ user' = [user EXCEPT !.password = @ + 1, !.link = None]
    /\ Goto(r, "revoke")
    /\ UNCHANGED <<token, browser, renewal, budget, history>>

\* A call that already decided on the old password or token answers with a session.
Spared(x) == x.step \in {"issue", "remove", "update"}

\* Mutant: the password changes and the sessions stay.
RevokeSessionsMutant(r) ==
    /\ req[r].step = "revoke" /\ req[r].op = "reset"
    /\ UNCHANGED token
    /\ req' = [q \in Request |->
                 IF q = r THEN [req[r] EXCEPT !.step = "answer", !.result = "ok"]
                 ELSE [req[q] EXCEPT !.spared = @ \/ Spared(req[q])]]
    /\ renewal' = [t \in Tab |-> [renewal[t] EXCEPT !.spared = @ \/ Spared(renewal[t])]]
    /\ ended' = user.password /\ Happens("reset")
    /\ UNCHANGED <<user, browser, budget, confirmed, spent, expelled, replayed, crossed>>

RevokeSessions(r) ==
    /\ req[r].step = "revoke" /\ req[r].op = "reset"
    /\ RevokeAll
    /\ req' = [q \in Request |->
                 IF q = r THEN [req[r] EXCEPT !.step = "answer", !.result = "ok"]
                 ELSE [req[q] EXCEPT !.spared = @ \/ Spared(req[q])]]
    /\ renewal' = [t \in Tab |-> [renewal[t] EXCEPT !.spared = @ \/ Spared(renewal[t])]]
    /\ ended' = user.password /\ Happens("reset")
    /\ UNCHANGED <<user, browser, budget, confirmed, spent, expelled, replayed, crossed>>

-----------------------------------------------------------------------------
(***************************************************************************)
(* refresh, one call per tab at a time.                                    *)
(***************************************************************************)
RStep(t, s)    == renewal' = [renewal EXCEPT ![t].step = s]
RRespond(t, x) == renewal' = [renewal EXCEPT ![t].step = "answer", ![t].result = x]

\* What leads a browser to present a token again: an answer that was lost, two tabs or
\* a logout using one cookie at once, or sessions ended by a reset.
Explained == upset \cap {"lost", "shared", "reset"} # {}

RefreshFind(t) ==
    LET k == renewal[t].token IN
    /\ renewal[t].step = "find"
    /\ IF k = None \/ (k # None /\ token[k].state = "expired") THEN RRespond(t, "401")
       ELSE IF token[k].state = "revoked" THEN RStep(t, "family")
       ELSE IF ~user.active THEN RRespond(t, "401")
       ELSE renewal' = [renewal EXCEPT ![t].step = "update", ![t].password = token[k].password,
                                       ![t].spared = token[k].spared]
    /\ replayed' = (replayed \/ (k # None /\ token[k].state = "revoked" /\ ~Explained))
    /\ UNCHANGED <<server, browser, req, budget, confirmed, spent, ended, upset, expelled,
                   crossed>>

RevokeFamily(t) ==
    /\ renewal[t].step = "family"
    /\ RevokeAll
    /\ RRespond(t, "401")
    /\ UNCHANGED <<user, browser, req, budget, history>>

RefreshUpdate(t) ==
    /\ renewal[t].step = "update"
    /\ token' = [token EXCEPT ![renewal[t].token].state = "revoked"]
    /\ RStep(t, "issue")
    /\ UNCHANGED <<user, browser, req, budget, history>>

RefreshIssue(t) ==
    /\ renewal[t].step = "issue"
    /\ IssueTokens(renewal[t].password, renewal[t].spared)
    /\ renewal' = [renewal EXCEPT ![t].step = "answer", ![t].result = "ok", ![t].born = Next1]
    /\ UNCHANGED <<user, browser, req, budget, history>>

-----------------------------------------------------------------------------
(***************************************************************************)
(* The interceptor: what a tab does with an answer.                        *)
(***************************************************************************)
Waiting(t) == {r \in Request : T(r) = t /\ req[r].step = "wait"}

\* location.assign: the page, its waiting requests and the answers on their way go, that
\* of a refresh included.
Abandoned(t) ==
    [r \in Request |-> IF T(r) # t \/ Quiet(r) THEN req[r]
                       ELSE IF req[r].step = "wait" THEN IdleReq
                       ELSE [req[r] EXCEPT !.lost = TRUE]]

\* A tab that waits for the answer of a logout.
LoggingOut(t) == \E r \in Request : T(r) = t /\ Presents(req[r])

HandleSessionExpired(t, r) ==
    IF page[t] = "login"
    THEN /\ req' = [q \in Request |-> IF q = r \/ q \in Waiting(t) THEN IdleReq ELSE req[q]]
         /\ UNCHANGED <<page, renewal, upset, expelled>>
    ELSE /\ req' = [Abandoned(t) EXCEPT ![r] = IdleReq]
         /\ page' = [page EXCEPT ![t] = "login"]
         /\ renewal' = [renewal EXCEPT ![t].lost = (renewal[t].step # "none")]
         /\ upset' = IF renewal[t].step # "none" \/ LoggingOut(t) THEN upset \cup {"lost"} ELSE upset
         /\ expelled' = (expelled \/ upset = {})

SetAuthCookies(t, k) ==
    /\ cookie' = [cookie EXCEPT ![B(t)] = k]
    /\ access' = access \cup {B(t)}

\* Mutant: a request answered 401 while its tab is already renewing gives the session up.
StartOrJoinMutant(r) ==
    LET t == T(r) IN
    IF renewal[t].step # "none"
    THEN HandleSessionExpired(t, r)
    ELSE /\ req' = [req EXCEPT ![r].step = "wait"]
         /\ renewal' = [renewal EXCEPT ![t] = [IdleRenewal EXCEPT !.step = "find",
                                                                  !.token = cookie[B(t)]]]
         /\ upset' = IF Shared(t, cookie[B(t)]) THEN upset \cup {"shared"} ELSE upset
         /\ UNCHANGED <<page, expelled>>

StartOrJoin(r) ==
    LET t == T(r) IN
    /\ req' = [req EXCEPT ![r].step = "wait"]
    /\ IF renewal[t].step # "none" THEN ~renewal[t].lost /\ UNCHANGED <<renewal, upset>>
       ELSE /\ renewal' = [renewal EXCEPT ![t] = [IdleRenewal EXCEPT !.step = "find",
                                                                     !.token = cookie[B(t)]]]
            /\ upset' = IF Shared(t, cookie[B(t)]) THEN upset \cup {"shared"} ELSE upset
    /\ UNCHANGED <<page, expelled>>

\* An answer without an error, and the errors that are not 401.  A logout leaves the
\* panel whatever its answer.
Receive(r) ==
    LET t == T(r)  x == req[r] IN
    /\ x.step = "answer" /\ (x.lost \/ x.result # "401")
    /\ req' = [req EXCEPT ![r] = IdleReq]
    /\ IF x.lost \/ x.result \in {"none", "400"}
       THEN /\ page' = IF x.op = "logout" /\ ~x.lost THEN [page EXCEPT ![t] = "login"] ELSE page
            /\ UNCHANGED <<access, cookie, ticket>>
       ELSE IF x.result = "ticket"
       THEN ticket' = ticket \cup {t} /\ UNCHANGED <<access, cookie, page>>
       ELSE IF x.op \in {"login", "mfa"}
       THEN /\ SetAuthCookies(t, x.born)
            /\ page' = [page EXCEPT ![t] = "app"] /\ ticket' = ticket \ {t}
       ELSE IF x.op = "logout"
       THEN /\ cookie' = [cookie EXCEPT ![B(t)] = None] /\ access' = access \ {B(t)}
            /\ page' = [page EXCEPT ![t] = "login"] /\ UNCHANGED ticket
       ELSE UNCHANGED browser
    /\ UNCHANGED <<server, renewal, budget, history>>

Unauthorized(r) ==
    LET t == T(r) IN
    /\ req[r].step = "answer" /\ ~req[r].lost /\ req[r].result = "401"
    /\ IF req[r].retried
       THEN HandleSessionExpired(t, r) ELSE StartOrJoin(r)
    /\ UNCHANGED <<server, access, cookie, ticket, budget, confirmed, spent, ended, replayed,
                   crossed>>

\* Mutant: the new pair is answered in the body and no cookie is set.
RenewedMutant(t) ==
    /\ renewal[t].step = "answer" /\ ~renewal[t].lost /\ renewal[t].result = "ok"
    /\ access' = access \cup {B(t)} /\ UNCHANGED cookie
    /\ renewal' = [renewal EXCEPT ![t] = IdleRenewal]
    /\ req' = [r \in Request |-> IF r \notin Waiting(t) THEN req[r]
                 ELSE [Sent(r, req[r].op, req[r].arg, TRUE) EXCEPT !.access = TRUE]]
    /\ UNCHANGED <<server, page, ticket, budget, history>>

\* Every request that waited is sent once more, with the cookies just received.
Renewed(t) ==
    /\ renewal[t].step = "answer" /\ ~renewal[t].lost /\ renewal[t].result = "ok"
    /\ SetAuthCookies(t, renewal[t].born)
    /\ renewal' = [renewal EXCEPT ![t] = IdleRenewal]
    /\ req' = [r \in Request |-> IF r \notin Waiting(t) THEN req[r]
                 ELSE [Sent(r, req[r].op, req[r].arg, TRUE) EXCEPT
                         !.access = TRUE, !.token = renewal[t].born]]
    /\ UNCHANGED <<server, page, ticket, budget, history>>

NotRenewed(t) ==
    /\ renewal[t].step = "answer" /\ ~renewal[t].lost /\ renewal[t].result # "ok"
    /\ renewal' = [renewal EXCEPT ![t] = IdleRenewal]
    /\ IF page[t] = "login"
       THEN /\ req' = [r \in Request |-> IF r \in Waiting(t) THEN IdleReq ELSE req[r]]
            /\ UNCHANGED <<page, upset, expelled>>
       ELSE /\ req' = Abandoned(t)
            /\ page' = [page EXCEPT ![t] = "login"]
            /\ upset' = IF LoggingOut(t) THEN upset \cup {"lost"} ELSE upset
            /\ expelled' = (expelled \/ upset = {})
    /\ UNCHANGED <<server, access, cookie, ticket, budget, confirmed, spent, ended, replayed,
                   crossed>>

\* The answer of a refresh whose page is gone.
Dropped(t) ==
    /\ renewal[t].step = "answer" /\ renewal[t].lost
    /\ renewal' = [renewal EXCEPT ![t] = IdleRenewal]
    /\ UNCHANGED <<server, browser, req, budget, history>>

\* loadSession: a page that loads is the panel exactly when /auth/me answers, and an
\* expired access cookie is not renewed for it.
LoadSession(t) ==
    LET now == IF B(t) \in access /\ user.active THEN "app" ELSE "login" IN
    /\ \A r \in Request : T(r) = t => Quiet(r)
    /\ renewal[t].step = "none"
    /\ page[t] # now
    /\ page' = [page EXCEPT ![t] = now] /\ ticket' = ticket \ {t}
    /\ UNCHANGED <<server, access, cookie, req, renewal, budget, history>>

-----------------------------------------------------------------------------
(***************************************************************************)
(* What else happens: an answer is lost, an administrator deactivates the  *)
(* user or restores it, cookies, tokens and links grow old.                *)
(***************************************************************************)
Lose ==
    /\ Spend("lose") /\ Happens("lost")
    /\ \/ \E r \in Request : /\ req[r].step = "answer"
                             /\ req' = [req EXCEPT ![r].result = "none"]
                             /\ UNCHANGED renewal
       \/ \E t \in Tab : /\ renewal[t].step = "answer"
                         /\ RRespond(t, "none")
                         /\ UNCHANGED req
    /\ UNCHANGED <<server, browser, confirmed, spent, ended, expelled, replayed, crossed>>

UpdateUser ==
    /\ Spend("toggle") /\ Happens("inactive")
    /\ user' = [user EXCEPT !.active = ~@]
    /\ UNCHANGED <<token, browser, req, renewal, confirmed, spent, ended, expelled, replayed,
                   crossed>>

\* The access token lives fifteen minutes: it does not lapse again before a request
\* that was sent with a new one is answered.
Lapse(b) ==
    /\ b \in access /\ Spend("lapse")
    /\ \A r \in Request : B(T(r)) = b => ~(req[r].retried /\ req[r].step = "arrive")
    /\ access' = access \ {b}
    /\ req' = [r \in Request |-> IF B(T(r)) = b /\ req[r].step = "arrive"
                                 THEN [req[r] EXCEPT !.access = FALSE] ELSE req[r]]
    /\ UNCHANGED <<server, cookie, page, ticket, renewal, history>>

Expire ==
    /\ Spend("expire") /\ Happens("expired")
    /\ \/ /\ user.linkFresh /\ user' = [user EXCEPT !.linkFresh = FALSE] /\ UNCHANGED token
       \/ \E k \in Tokens : /\ token[k].state = "live"
                            /\ token' = [token EXCEPT ![k].state = "expired"]
                            /\ UNCHANGED user
    /\ UNCHANGED <<browser, req, renewal, confirmed, spent, ended, expelled, replayed, crossed>>

-----------------------------------------------------------------------------
\* The account as register leaves it, its session open in every tab of Home.
Init ==
    /\ user = [active |-> TRUE, password |-> 1, totp |-> FALSE, secret |-> None, setups |-> 0,
               codes |-> {}, link |-> None, links |-> 0, linkFresh |-> FALSE]
    /\ token = [k \in Tokens |-> [state |-> IF k = 1 THEN "live" ELSE "none",
                                  password |-> IF k = 1 THEN 1 ELSE None, spared |-> FALSE]]
    /\ access = {Home}
    /\ cookie = [b \in Browser |-> IF b = Home THEN 1 ELSE None]
    /\ page = [t \in Tab |-> IF B(t) = Home THEN "app" ELSE "login"]
    /\ ticket = {}
    /\ req = [r \in Request |-> IdleReq]
    /\ renewal = [t \in Tab |-> IdleRenewal]
    /\ budget \in Mixes
    /\ confirmed = None /\ spent = {} /\ ended = 1
    /\ upset = {} /\ expelled = FALSE /\ replayed = FALSE /\ crossed = FALSE

Starts(r)  == Use(r) \/ Login(r) \/ Logout(r) \/ Verify(r) \/ Secure(r) \/ Forgot(r) \/ Reset(r)
Handles(r) == \/ Validate(r) \/ ReadLogin(r) \/ Issue(r) \/ RevokePresented(r)
              \/ ReadSetup(r) \/ WriteSetup(r) \/ ReadEnable(r) \/ WriteEnable(r)
              \/ ReadDisable(r) \/ ReadMfaLogin(r) \/ RemoveCode(r) \/ WriteDisable(r)
              \/ WriteLink(r) \/ ReadReset(r) \/ WriteReset(r) \/ RevokeSessions(r)
              \/ Receive(r) \/ Unauthorized(r)
Renews(t)  == \/ RefreshFind(t) \/ RevokeFamily(t) \/ RefreshUpdate(t) \/ RefreshIssue(t)
              \/ Renewed(t) \/ NotRenewed(t) \/ Dropped(t)

Next ==
    \/ \E r \in Request : Starts(r) \/ Handles(r)
    \/ \E t \in Tab : Renews(t) \/ LoadSession(t)
    \/ \E b \in Browser : Lapse(b)
    \/ Lose \/ UpdateUser \/ Expire

Spec == Init /\ [][Next]_vars

-----------------------------------------------------------------------------
AuthTypeOK ==
    /\ user.active \in BOOLEAN /\ user.totp \in BOOLEAN /\ user.linkFresh \in BOOLEAN
    /\ user.secret <= user.setups /\ user.link <= user.links /\ user.password \in Nat
    /\ token \in [Tokens -> [state : {"none", "live", "expired", "revoked"},
                             password : 0 .. user.password, spared : BOOLEAN]]
    /\ access \subseteq Browser /\ cookie \in [Browser -> Tokens \cup {None}]
    /\ page \in [Tab -> {"app", "login"}] /\ ticket \subseteq Tab
    /\ \A b \in Browser : cookie[b] # None => token[cookie[b]].state # "none"
    /\ \A r \in Request : req[r].token \in Tokens \cup {None} /\ req[r].retried \in BOOLEAN
    /\ \A t \in Tab : renewal[t].token \in Tokens \cup {None}
    /\ budget \in [Kinds -> Nat]

\* A revoked token is presented to the refresh route only when the answer that replaced
\* it was lost, when two tabs (or a logout) used one cookie at once, or after a password
\* reset ended the sessions: concurrent requests of one tab never revoke the family.
ReplayIsExplained == ~replayed

\* The client sends nobody to the login page while the session is good: there was a
\* logout, a deactivation, a reset, an expiry, a lost answer or a cookie used twice.
ExpelledForCause == ~expelled

\* After a password reset the only sessions of the old password left are those a call
\* that had already passed its check was opening at that moment, and their successors.
OldSessionsEnd ==
    \A k \in Tokens : token[k].state = "live" => token[k].password >= ended \/ token[k].spared

\* While the second factor is on, the secret is the one a code was confirmed for, and
\* the recovery codes are those shown with it less the ones accepted since, unless two
\* handlers worked on it at once.
SecondFactorAgrees ==
    ~crossed /\ user.totp =>
        /\ user.secret = confirmed
        /\ user.codes = CodesOf(confirmed) \ spent

\* A recovery code lets one login in ("Um único código de recuperação só pode ser usado
\* uma vez"): no two of them were accepted by completeMfaLogin with the same code.
RecoveryCodeOnce ==
    \A r, q \in Request :
        /\ req[r].op = "mfa" /\ req[r].step = "issue" /\ req[r].arg[2] # 0
        /\ req[q].op = "mfa" /\ req[q].step = "issue" /\ req[q].arg = req[r].arg
        => r = q
=============================================================================
