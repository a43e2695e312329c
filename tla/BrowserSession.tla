--------------------------- MODULE BrowserSession ---------------------------
(***************************************************************************)
(* The session in the browser: the client of the API (client.ts), which    *)
(* renews an expired access token with one shared refresh and repeats the  *)
(* request, the AuthProvider, whose version counter discards late answers, *)
(* and the forms that sign in and out.  Tabs share the cookies and nothing *)
(* else.  The API is reduced to what it does with a refresh token; its     *)
(* handlers are Sessions.                                                  *)
(***************************************************************************)
EXTENDS Naturals, FiniteSets

CONSTANTS
    Tabs, Accounts,
    Tokens,     \* refresh tokens the API may issue
    Calls,      \* how many requests the tabs have under way at once
    None

ASSUME BrowserAssumption == None \notin Accounts \union Tokens

VARIABLES
    token,      \* token[t]: the row of a refresh token
    erased,     \* the anonymized accounts
    jar,        \* the browser's cookies; fresh: the access token has not expired
    tab,        \* tab[t]: whether it is open, user and isLoading of its provider
    call        \* call[i]: a request under way

vars == <<token, erased, jar, tab, call>>

-----------------------------------------------------------------------------

Holder == Accounts \union {None}

\* leg: the request itself or the refresh it started.  valid: versionRef still
\* is the requestVersion of the call.  retried: its 401 is final.  sent: the
\* cookies it carries.  answer: whom the API answers for, and the token it sets.
Call ==
    [kind: {"me", "page", "login", "logout", "anonymize"}, tab: Tabs,
     leg: {"request", "refresh"}, at: {"sent", "waiting", "ok", "refused", "error"},
     valid: BOOLEAN, retried: BOOLEAN,
     sent: [access: Holder, fresh: BOOLEAN, refresh: Tokens \union {None}],
     answer: [access: Holder, refresh: Tokens \union {None}]]

Free == [kind |-> "none", at |-> "free"]

TypeOK ==
    /\ token \in [Tokens -> [account: Holder, state: {"unused", "live", "revoked"}]]
    /\ erased \subseteq Accounts
    /\ jar \in [access: Holder, fresh: BOOLEAN, refresh: Tokens \union {None}]
    /\ tab \in [Tabs -> [open: BOOLEAN, user: Holder, loading: BOOLEAN]]
    /\ call \in [Calls -> Call \union {Free}]

NoCookies == [access |-> None, fresh |-> FALSE, refresh |-> None]

NoAnswer == [access |-> None, refresh |-> None]

Open(i) == call[i].kind # "none"

\* The request itself of one of these kinds; the refresh of any.
Is(i, kinds) == Open(i) /\ call[i].leg = "request" /\ call[i].kind \in kinds

IsRefresh(i) == Open(i) /\ call[i].leg = "refresh"

Of(t) == {i \in Calls : Open(i) /\ call[i].tab = t}

\* fetch: a request goes with the cookies of the moment, the refresh token to
\* /api/auth/refresh only.
Request(kind, t, cookies) ==
    [kind |-> kind, tab |-> t, leg |-> "request", at |-> "sent", valid |-> TRUE,
     retried |-> FALSE, sent |-> [cookies EXCEPT !.refresh = None], answer |-> NoAnswer]

Refresh(c) ==
    [c EXCEPT !.leg = "refresh", !.at = "sent", !.sent = [NoCookies EXCEPT !.refresh = jar.refresh]]

-----------------------------------------------------------------------------
(* The API *)

\* The answer is on its way; what the request carried matters no more.
Serve(i, at, answer) ==
    call' = [call EXCEPT ![i].at = at, ![i].answer = answer, ![i].sent = NoCookies]

Revoked(a) == [t \in Tokens |-> IF token[t].account = a /\ token[t].state = "live"
                                THEN [token[t] EXCEPT !.state = "revoked"] ELSE token[t]]

\* A guarded route: the access token must not have expired.  (A page whose
\* handler does not look the user up would still be answered.)
ServeGuarded(i) ==
    /\ Is(i, {"me", "page"}) /\ call[i].at = "sent"
    /\ IF call[i].sent.fresh /\ call[i].sent.access \notin erased
       THEN Serve(i, "ok", IF call[i].kind = "me" THEN [NoAnswer EXCEPT !.access = call[i].sent.access]
                           ELSE NoAnswer)
       ELSE Serve(i, "refused", NoAnswer)
    /\ UNCHANGED <<token, erased, jar, tab>>

\* login and register, for the account the form names.
ServeLogin(i) ==
    /\ Is(i, {"login"}) /\ call[i].at = "sent"
    /\ \E t \in Tokens, a \in Accounts \ erased :
        /\ token[t].state = "unused"
        /\ token' = [token EXCEPT ![t] = [account |-> a, state |-> "live"]]
        /\ Serve(i, "ok", [access |-> a, refresh |-> t])
    /\ UNCHANGED <<erased, jar, tab>>

\* logout revokes by the access token, also an expired one.
ServeLogout(i) ==
    /\ Is(i, {"logout"}) /\ call[i].at = "sent"
    /\ token' = Revoked(call[i].sent.access)
    /\ Serve(i, "ok", NoAnswer)
    /\ UNCHANGED <<erased, jar, tab>>

ServeAnonymize(i) ==
    /\ Is(i, {"anonymize"}) /\ call[i].at = "sent"
    /\ IF call[i].sent.fresh
       THEN /\ call[i].sent.access \notin erased
            /\ token' = Revoked(call[i].sent.access)
            /\ erased' = erased \union {call[i].sent.access}
            /\ Serve(i, "ok", NoAnswer)
       ELSE UNCHANGED <<token, erased>> /\ Serve(i, "refused", NoAnswer)
    /\ UNCHANGED <<jar, tab>>

\* A live token is replaced; a revoked one ends all sessions of its account.
ServeRefresh(i) ==
    LET old == call[i].sent.refresh IN
    /\ IsRefresh(i) /\ call[i].at = "sent"
    /\ IF old # None /\ token[old].state = "live"
       THEN \E t \in Tokens :
            /\ token[t].state = "unused"
            /\ token' = [token EXCEPT ![old].state = "revoked",
                                      ![t] = [account |-> token[old].account, state |-> "live"]]
            /\ Serve(i, "ok", [access |-> token[old].account, refresh |-> t])
       ELSE /\ token' = IF old = None THEN token ELSE Revoked(token[old].account)
            /\ Serve(i, "refused", NoAnswer)
    /\ UNCHANGED <<erased, jar, tab>>

\* The network fails, or the API refuses: bad credentials, too many requests,
\* an expired refresh token.
Lose(i) ==
    /\ Open(i) /\ call[i].at \in {"sent", "ok"}
    /\ Serve(i, "error", NoAnswer)
    /\ UNCHANGED <<token, erased, jar, tab>>

\* Fifteen minutes pass.
AccessExpires ==
    /\ jar.fresh
    /\ jar' = [jar EXCEPT !.fresh = FALSE]
    /\ UNCHANGED <<token, erased, tab, call>>

-----------------------------------------------------------------------------
(* apiRequest and tryRefreshSession *)

Refreshing(t) == \E i \in Of(t) : IsRefresh(i)

First401(i) == Is(i, {"me", "page", "anonymize"}) /\ call[i].at = "refused" /\ ~call[i].retried

\* Every 401 starts a refresh of its own.
FaultyAwaitRefresh(i) ==
    /\ First401(i)
    /\ call' = [call EXCEPT ![i] = Refresh(@)]
    /\ UNCHANGED <<token, erased, jar, tab>>

\* A first 401 waits for the refresh under way in its tab, or starts one.
AwaitRefresh(i) ==
    /\ First401(i)
    /\ call' = [call EXCEPT ![i] =
            IF Refreshing(call[i].tab) THEN [@ EXCEPT !.at = "waiting"] ELSE Refresh(@)]
    /\ UNCHANGED <<token, erased, jar, tab>>

SetCookies(answer) == [access |-> answer.access, fresh |-> TRUE, refresh |-> answer.refresh]

\* The answer of the refresh: the call that started it and those that wait
\* are repeated, or give up.
RefreshArrives(i) ==
    LET ok == call[i].at = "ok"
        cookies == IF ok THEN SetCookies(call[i].answer) ELSE jar
        resumed(c) ==
            IF ok THEN [Request(c.kind, c.tab, cookies) EXCEPT !.retried = TRUE, !.valid = c.valid]
            ELSE [c EXCEPT !.leg = "request", !.at = "refused", !.retried = TRUE]
    IN  /\ IsRefresh(i) /\ call[i].at \in {"ok", "refused", "error"}
        /\ jar' = cookies
        /\ call' = [j \in Calls |->
                IF j = i \/ (j \in Of(call[i].tab) /\ call[j].at = "waiting")
                THEN resumed(call[j]) ELSE call[j]]
        /\ UNCHANGED <<token, erased, tab>>

\* A request has its final answer.
Final(i) ==
    /\ Open(i) /\ call[i].leg = "request"
    /\ \/ call[i].at \in {"ok", "error"}
       \/ call[i].at = "refused" /\ (call[i].retried \/ Is(i, {"login", "logout"}))

-----------------------------------------------------------------------------
(* AuthProvider *)

\* ++versionRef.current: the answers to the /auth/me of the tab under way no
\* longer count.
Bumped(calls, t) ==
    [i \in Calls |-> IF i \in Of(t) /\ call[i].kind = "me" THEN [calls[i] EXCEPT !.valid = FALSE]
                     ELSE calls[i]]

Freed(i) == [call EXCEPT ![i] = Free]

Show(t, user) == [tab EXCEPT ![t] = [open |-> TRUE, user |-> user, loading |-> FALSE]]

\* The answer to /auth/me is shown whatever happened since.
FaultyMeArrives(i) ==
    /\ Is(i, {"me"}) /\ Final(i)
    /\ tab' = Show(call[i].tab, call[i].answer.access)
    /\ call' = Freed(i)
    /\ UNCHANGED <<token, erased, jar>>

\* fetchCurrentUser and refreshUser: a 401 and an error both show nobody.
MeArrives(i) ==
    /\ Is(i, {"me"}) /\ Final(i)
    /\ tab' = IF call[i].valid
              THEN Show(call[i].tab, call[i].answer.access)
              ELSE tab
    /\ call' = Freed(i)
    /\ UNCHANGED <<token, erased, jar>>

PageArrives(i) ==
    /\ Is(i, {"page"}) /\ Final(i)
    /\ call' = Freed(i)
    /\ UNCHANGED <<token, erased, jar, tab>>

\* isLoading is left to the answers under way, which no longer count.
FaultyLoginArrives(i) ==
    /\ Is(i, {"login"}) /\ Final(i)
    /\ IF call[i].at = "ok"
       THEN /\ jar' = SetCookies(call[i].answer)
            /\ tab' = [tab EXCEPT ![call[i].tab].user = call[i].answer.access]
            /\ call' = Bumped(Freed(i), call[i].tab)
       ELSE UNCHANGED <<jar, tab>> /\ call' = Freed(i)
    /\ UNCHANGED <<token, erased>>

\* handleSubmit of the login and register forms: setUser.
LoginArrives(i) ==
    /\ Is(i, {"login"}) /\ Final(i)
    /\ IF call[i].at = "ok"
       THEN /\ jar' = SetCookies(call[i].answer)
            /\ tab' = Show(call[i].tab, call[i].answer.access)
            /\ call' = Bumped(Freed(i), call[i].tab)
       ELSE UNCHANGED <<jar, tab>> /\ call' = Freed(i)
    /\ UNCHANGED <<token, erased>>

\* logout, the part after the answer, also when it is an error: the version
\* is not advanced again.
LogoutArrives(i) ==
    /\ Is(i, {"logout"}) /\ Final(i)
    /\ jar' = IF call[i].at = "ok" THEN NoCookies ELSE jar
    /\ tab' = Show(call[i].tab, None)
    /\ call' = Freed(i)
    /\ UNCHANGED <<token, erased>>

\* handleAnonymize: setUser(null), or an error message.
AnonymizeArrives(i) ==
    /\ Is(i, {"anonymize"}) /\ Final(i)
    /\ IF call[i].at = "ok"
       THEN /\ jar' = NoCookies
            /\ tab' = Show(call[i].tab, None)
            /\ call' = Bumped(Freed(i), call[i].tab)
       ELSE UNCHANGED <<jar, tab>> /\ call' = Freed(i)
    /\ UNCHANGED <<token, erased>>

Ask(kind, t, calls) ==
    \E i \in Calls : ~Open(i) /\ call' = [calls EXCEPT ![i] = Request(kind, t, jar)]

\* refreshUser, called by the customer's orders when one of them is ready.
RefreshUser(t) ==
    /\ tab[t].user # None
    /\ Ask("me", t, Bumped(call, t))
    /\ UNCHANGED <<token, erased, jar, tab>>

\* A page asks for its data.
OpenPage(t) ==
    /\ tab[t].open
    /\ Ask("page", t, call)
    /\ UNCHANGED <<token, erased, jar, tab>>

\* submittingRef keeps a second submission away.
SubmitLogin(t) ==
    /\ tab[t].open
    /\ \A i \in Of(t) : call[i].kind # "login"
    /\ Ask("login", t, call)
    /\ UNCHANGED <<token, erased, jar, tab>>

\* The header and the profile show their buttons to a user only.
SubmitLogout(t) ==
    /\ tab[t].user # None /\ ~tab[t].loading
    /\ Ask("logout", t, Bumped(call, t))
    /\ UNCHANGED <<token, erased, jar, tab>>

SubmitAnonymize(t) ==
    /\ tab[t].user # None /\ ~tab[t].loading
    /\ \A i \in Of(t) : call[i].kind # "anonymize"
    /\ Ask("anonymize", t, call)
    /\ UNCHANGED <<token, erased, jar, tab>>

\* A tab is opened, or one at rest reloaded: it asks who is signed in.
Mount(t) ==
    /\ tab' = [tab EXCEPT ![t] = [open |-> TRUE, user |-> None, loading |-> TRUE]]
    /\ Of(t) = {}
    /\ Ask("me", t, call)
    /\ UNCHANGED <<token, erased, jar>>

\* The browser starts with the cookies of an earlier visit, or none.
Init ==
    /\ \E a \in Accounts, t \in Tokens :
        \/ /\ token = [x \in Tokens |-> [account |-> IF x = t THEN a ELSE None,
                                         state |-> IF x = t THEN "live" ELSE "unused"]]
           /\ \E fresh \in BOOLEAN : jar = [access |-> a, fresh |-> fresh, refresh |-> t]
        \/ /\ token = [x \in Tokens |-> [account |-> None, state |-> "unused"]]
           /\ jar = NoCookies
    /\ erased = {}
    /\ tab = [t \in Tabs |-> [open |-> FALSE, user |-> None, loading |-> FALSE]]
    /\ call = [i \in Calls |-> Free]

Next ==
    \/ \E i \in Calls :
        \/ ServeGuarded(i) \/ ServeLogin(i) \/ ServeLogout(i) \/ ServeAnonymize(i)
        \/ ServeRefresh(i) \/ Lose(i)
        \/ AwaitRefresh(i) \/ RefreshArrives(i)
        \/ MeArrives(i) \/ PageArrives(i) \/ LoginArrives(i) \/ LogoutArrives(i) \/ AnonymizeArrives(i)
    \/ \E t \in Tabs :
        \/ RefreshUser(t) \/ OpenPage(t) \/ SubmitLogin(t) \/ SubmitLogout(t)
        \/ SubmitAnonymize(t) \/ Mount(t)
    \/ AccessExpires

Spec == Init /\ [][Next]_vars
=============================================================================
