--------------------------- MODULE MCAuthSessions ---------------------------
\* A small instance of AuthSessions for TLC: two tabs of one browser, the first with two
\* requests at once, and a tab of a second browser.
EXTENDS AuthSessions, TLC
CONSTANTS b1, b2, t1, t2, t3, r1, r2, r3, r4
Browsers == (t1 :> b1) @@ (t2 :> b1) @@ (t3 :> b2)
Tabs     == (r1 :> t1) @@ (r2 :> t1) @@ (r3 :> t2) @@ (r4 :> t3)
Nothing     == [k \in Kinds |-> 0]
\* Requests of one browser while its access cookie lapses; the same with a lost answer
\* or a logout; two browsers and a reset; the second factor; a deactivation.
MCMixes ==
    {[Nothing EXCEPT !["get"] = 4, !["lapse"] = 2],
     [Nothing EXCEPT !["get"] = 3, !["lapse"] = 1, !["lose"] = 1, !["login"] = 1],
     [Nothing EXCEPT !["get"] = 2, !["lapse"] = 1, !["logout"] = 1, !["login"] = 1],
     [Nothing EXCEPT !["get"] = 2, !["lapse"] = 1, !["login"] = 2, !["link"] = 2],
     [Nothing EXCEPT !["login"] = 1, !["factor"] = 4],
     [Nothing EXCEPT !["get"] = 2, !["lapse"] = 1, !["toggle"] = 2, !["expire"] = 1],
     [Nothing EXCEPT !["get"] = 2, !["lapse"] = 2, !["logout"] = 1, !["toggle"] = 2]}
\* Two logins with a code, after the factor was turned on in the session before.
MCTwice     == {[Nothing EXCEPT !["login"] = 2, !["factor"] = 4, !["logout"] = 1]}
\* TLC evaluates once what a definition names, not what the configuration does.
MCBrowserOf == Browsers
MCTabOf     == Tabs
MCSame == Permutations({r1, r2})
=============================================================================
