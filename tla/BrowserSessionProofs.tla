------------------------- MODULE BrowserSessionProofs -------------------------
(***************************************************************************)
(* The state of BrowserSession keeps its type, every tab that waits for    *)
(* nothing has decided whom to show, and, unless requests overlapped or an *)
(* answer was lost, no rotation is taken for theft and a tab shows the     *)
(* account of the cookies, for any number of tabs, accounts, refresh       *)
(* tokens and requests under way.                                          *)
(***************************************************************************)
EXTENDS BrowserSessionHistory, TLAPS

\* A cookie, a request or an answer that stands for a session names its
\* account.
Signed ==
    /\ jar.fresh => jar.access # None
    /\ \A t \in Tokens : token[t].state = "live" => token[t].account # None
    /\ \A i \in Calls : Open(i) =>
        /\ call[i].sent.fresh => call[i].sent.access # None
        /\ call[i].at = "ok" /\ (call[i].leg = "refresh" \/ call[i].kind = "login") =>
               call[i].answer.access # None

\* A tab that has not decided whom to show waits for an answer to /auth/me
\* that still counts.
Decided ==
    \A t \in Tabs : tab[t].loading => \E i \in Calls :
        Open(i) /\ call[i].tab = t /\ call[i].kind = "me" /\ call[i].valid

\* A request that claims nothing false.
Good(c) ==
    /\ c.sent.fresh => c.sent.access # None
    /\ c.at = "ok" /\ (c.leg = "refresh" \/ c.kind = "login") => c.answer.access # None

Inv == TypeOK /\ Signed /\ Decided

Cookies == [access: Holder, fresh: BOOLEAN, refresh: Tokens \union {None}]

Answers == [access: Holder, refresh: Tokens \union {None}]

\* What a request carries when it is sent, and what it needs not to forge a
\* session.
Bears(cookies) == cookies \in Cookies /\ (cookies.fresh => cookies.access # None)

-----------------------------------------------------------------------------

\* A free slot holds no request.
LEMMA Slots ==
    ASSUME TypeOK, NEW i \in Calls
    PROVE  /\ Open(i) => call[i] \in Call
           /\ ~Open(i) => call[i] = Free
BY DEF TypeOK, Open, Call, Free

\* A new request is one.
LEMMA NewRequest ==
    ASSUME NEW kind \in {"me", "page", "login", "logout", "anonymize"}, NEW t \in Tabs,
           NEW cookies, Bears(cookies)
    PROVE  /\ Request(kind, t, cookies) \in Call
           /\ Request(kind, t, cookies).kind = kind
           /\ Request(kind, t, cookies).tab = t
           /\ Request(kind, t, cookies).leg = "request"
           /\ Request(kind, t, cookies).at = "sent"
           /\ Request(kind, t, cookies).valid
           /\ Good(Request(kind, t, cookies))
BY DEF Bears, Cookies, Request, Call, NoAnswer, Holder, Good

LEMMA Served ==
    ASSUME Inv, NEW i \in Calls, Open(i), NEW at \in {"ok", "refused", "error"}, NEW answer \in Answers,
           at = "ok" /\ (call[i].leg = "refresh" \/ call[i].kind = "login") => answer.access # None,
           Serve(i, at, answer), UNCHANGED <<tab, jar>>,
           token' \in [Tokens -> [account: Holder, state: {"unused", "live", "revoked"}]],
           \A t \in Tokens : token'[t].state = "live" => token'[t].account # None,
           erased' \subseteq Accounts
    PROVE  Inv'
<1>1. call[i] \in Call
  BY Slots DEF Inv
<1> DEFINE c == [call[i] EXCEPT !.at = at, !.answer = answer, !.sent = NoCookies]
<1>2. /\ c \in Call /\ c.sent = NoCookies /\ c.at = at /\ c.answer = answer
      /\ c.kind = call[i].kind /\ c.leg = call[i].leg /\ c.tab = call[i].tab /\ c.valid = call[i].valid
  BY <1>1 DEF Call, Answers, NoCookies, Holder
<1>3. /\ call' \in [Calls -> Call \union {Free}]
      /\ call'[i] = c /\ \A j \in Calls : j # i => call'[j] = call[j]
  <2>1. call' = [call EXCEPT ![i] = c]
    BY <1>1 DEF Inv, TypeOK, Serve
  <2> HIDE DEF c
  <2> QED BY <2>1, <1>2 DEF Inv, TypeOK
<1> HIDE DEF c
<1>4. TypeOK'
  BY <1>3 DEF Inv, TypeOK
<1>5. Signed'
  BY <1>2, <1>3 DEF Inv, Signed, Open, NoCookies
<1>6. Decided'
  BY <1>2, <1>3 DEF Inv, Decided, Open
<1> QED BY <1>4, <1>5, <1>6 DEF Inv

-----------------------------------------------------------------------------
(* The API *)

\* Revoking changes no account.
LEMMA Revoking ==
    ASSUME Inv, NEW a
    PROVE  /\ Revoked(a) \in [Tokens -> [account: Holder, state: {"unused", "live", "revoked"}]]
           /\ \A t \in Tokens : Revoked(a)[t].state = "live" => Revoked(a)[t].account # None
<1>1. \A t \in Tokens :
        /\ Revoked(a)[t] = token[t] \/ Revoked(a)[t] = [token[t] EXCEPT !.state = "revoked"]
        /\ token[t] \in [account: Holder, state: {"unused", "live", "revoked"}]
        /\ [token[t] EXCEPT !.state = "revoked"] \in [account: Holder, state: {"unused", "live", "revoked"}]
        /\ [token[t] EXCEPT !.state = "revoked"].state = "revoked"
  BY DEF Revoked, Inv, TypeOK
<1>2. Revoked(a) = [t \in Tokens |-> Revoked(a)[t]]
  BY DEF Revoked
<1> QED BY <1>1, <1>2 DEF Inv, Signed

\* What a request under way bears.
LEMMA Carried ==
    ASSUME Inv, NEW i \in Calls, Open(i)
    PROVE  /\ call[i] \in Call
           /\ call[i].sent \in Cookies
           /\ call[i].answer \in Answers
           /\ call[i].sent.fresh => call[i].sent.access \in Accounts
BY Slots DEF Inv, Signed, Call, Cookies, Answers, Holder

LEMMA Serving ==
    ASSUME Inv, NEW i \in Calls,
           ServeGuarded(i) \/ ServeLogin(i) \/ ServeLogout(i) \/ ServeAnonymize(i)
               \/ ServeRefresh(i) \/ Lose(i)
    PROVE  Inv'
<1>0. NoAnswer \in Answers
  BY DEF NoAnswer, Answers, Holder
<1>a. /\ token \in [Tokens -> [account: Holder, state: {"unused", "live", "revoked"}]]
      /\ \A t \in Tokens : token[t].state = "live" => token[t].account # None
      /\ erased \subseteq Accounts
  BY DEF Inv, TypeOK, Signed
<1>1. CASE ServeGuarded(i)
  <2>1. Open(i) /\ call[i].leg = "request" /\ call[i].kind # "login"
    BY <1>1 DEF ServeGuarded, Is
  <2>2. [NoAnswer EXCEPT !.access = call[i].sent.access] \in Answers
    BY <2>1, Carried DEF NoAnswer, Answers, Cookies
  <2>3. \E at \in {"ok", "refused", "error"}, answer \in Answers : Serve(i, at, answer)
    BY <1>0, <1>1, <2>2 DEF ServeGuarded
  <2> QED BY <1>1, <1>a, <2>1, <2>3, Served DEF ServeGuarded
<1>2. CASE ServeLogin(i)
  <2>1. Open(i)
    BY <1>2 DEF ServeLogin, Is
  <2>2. PICK t \in Tokens, a \in Accounts \ erased :
            /\ token' = [token EXCEPT ![t] = [account |-> a, state |-> "live"]]
            /\ Serve(i, "ok", [access |-> a, refresh |-> t])
    BY <1>2 DEF ServeLogin
  <2>3. a # None /\ [access |-> a, refresh |-> t] \in Answers
    BY BrowserAssumption DEF Answers, Holder
  <2>4. token' \in [Tokens -> [account: Holder, state: {"unused", "live", "revoked"}]]
    BY <1>a, <2>2 DEF Holder
  <2>5. \A x \in Tokens : token'[x].state = "live" => token'[x].account # None
    BY <1>a, <2>2, <2>3
  <2> QED BY <1>2, <1>a, <2>1, <2>2, <2>3, <2>4, <2>5, Served DEF ServeLogin
<1>3. CASE ServeLogout(i)
  <2>1. Open(i) /\ call[i].leg = "request" /\ call[i].kind # "login"
    BY <1>3 DEF ServeLogout, Is
  <2> QED BY <1>0, <1>3, <1>a, <2>1, Revoking, Served DEF ServeLogout
<1>4. CASE ServeAnonymize(i)
  <2>1. Open(i) /\ call[i].leg = "request" /\ call[i].kind # "login"
    BY <1>4 DEF ServeAnonymize, Is
  <2>2. erased' \subseteq Accounts
    BY <1>4, <1>a, <2>1, Carried DEF ServeAnonymize
  <2>3. /\ token' \in [Tokens -> [account: Holder, state: {"unused", "live", "revoked"}]]
        /\ \A t \in Tokens : token'[t].state = "live" => token'[t].account # None
    BY <1>4, <1>a, Revoking DEF ServeAnonymize
  <2>4. Serve(i, "ok", NoAnswer) \/ Serve(i, "refused", NoAnswer)
    BY <1>4 DEF ServeAnonymize
  <2> QED BY <1>0, <1>4, <2>1, <2>2, <2>3, <2>4, Served DEF ServeAnonymize
<1>5. CASE ServeRefresh(i)
  <2> DEFINE old == call[i].sent.refresh
  <2>1. Open(i) /\ call[i].sent \in Cookies
    BY <1>5, Carried DEF ServeRefresh, IsRefresh
  <2>2. CASE old # None /\ token[old].state = "live"
    <3>1. old \in Tokens
      BY <2>1, <2>2 DEF Cookies
    <3>2. PICK t \in Tokens :
              /\ token[t].state = "unused"
              /\ token' = [token EXCEPT ![old].state = "revoked",
                                        ![t] = [account |-> token[old].account, state |-> "live"]]
              /\ Serve(i, "ok", [access |-> token[old].account, refresh |-> t])
      BY <1>5, <2>2 DEF ServeRefresh
    <3>3. token[old].account \in Holder /\ token[old].account # None
      BY <1>a, <2>2, <3>1
    <3>4. [access |-> token[old].account, refresh |-> t] \in Answers
      BY <3>3 DEF Answers
    <3> HIDE DEF old
    <3>5. token' \in [Tokens -> [account: Holder, state: {"unused", "live", "revoked"}]]
      BY <1>a, <3>1, <3>2, <3>3
    <3>6. \A x \in Tokens : token'[x].state = "live" => token'[x].account # None
      BY <1>a, <3>1, <3>2, <3>3
    <3> QED BY <1>5, <1>a, <2>1, <3>2, <3>3, <3>4, <3>5, <3>6, Served DEF ServeRefresh
  <2>3. CASE ~(old # None /\ token[old].state = "live")
    <3>1. Serve(i, "refused", NoAnswer) /\ (token' = token \/ token' = Revoked(token[old].account))
      BY <1>5, <2>3 DEF ServeRefresh
    <3>2. /\ token' \in [Tokens -> [account: Holder, state: {"unused", "live", "revoked"}]]
          /\ \A t \in Tokens : token'[t].state = "live" => token'[t].account # None
      BY <1>a, <3>1, Revoking
    <3> QED BY <1>0, <1>5, <1>a, <2>1, <3>1, <3>2, Served DEF ServeRefresh
  <2> QED BY <2>2, <2>3
<1>6. CASE Lose(i)
  BY <1>0, <1>6, <1>a, Served DEF Lose
<1> QED BY <1>1, <1>2, <1>3, <1>4, <1>5, <1>6

-----------------------------------------------------------------------------
(* The tabs *)

\* The requests go on, the API and what the tabs show stay.
LEMMA Going ==
    ASSUME Inv, UNCHANGED <<token, erased, tab>>, Bears(jar'), call' = [j \in Calls |-> call'[j]],
           \A j \in Calls :
               \/ call'[j] = call[j]
               \/ /\ Open(j) /\ call'[j] \in Call /\ Good(call'[j])
                  /\ call'[j].kind = call[j].kind /\ call'[j].tab = call[j].tab
                  /\ call'[j].valid = call[j].valid
    PROVE  Inv'
<1>1. call' \in [Calls -> Call \union {Free}]
  BY DEF Inv, TypeOK
<1>2. TypeOK'
  BY <1>1 DEF Inv, TypeOK, Bears, Cookies
<1>3. Signed'
  BY DEF Inv, Signed, Bears, Open, Good
<1>4. Decided'
  BY DEF Inv, Decided, Open
<1> QED BY <1>2, <1>3, <1>4 DEF Inv

\* The browser's cookies name an account while they are fresh.
LEMMA JarBears ==
    ASSUME Inv
    PROVE  Bears(jar)
BY DEF Inv, TypeOK, Signed, Bears, Cookies

\* The cookies of an answer that signs in.
LEMMA AnswerBears ==
    ASSUME Inv, NEW i \in Calls, Open(i), call[i].at = "ok",
           call[i].leg = "refresh" \/ call[i].kind = "login"
    PROVE  Bears(SetCookies(call[i].answer))
BY Carried DEF Inv, Signed, Bears, SetCookies, Cookies, Answers

LEMMA Refreshed ==
    ASSUME Inv, NEW i \in Calls, AwaitRefresh(i) \/ RefreshArrives(i)
    PROVE  Inv'
<1>1. CASE AwaitRefresh(i)
  <2>1. Open(i) /\ call[i] \in Call /\ Good(call[i])
    BY <1>1, Slots DEF AwaitRefresh, First401, Is, Inv, Signed, Good
  <2>2. jar.refresh \in Tokens \union {None}
    BY DEF Inv, TypeOK
  <2>3. /\ [NoCookies EXCEPT !.refresh = jar.refresh] \in Cookies
        /\ [NoCookies EXCEPT !.refresh = jar.refresh].fresh = FALSE
    BY <2>2 DEF NoCookies, Cookies, Holder
  <2> DEFINE asks == Refresh(call[i])
             waits == [call[i] EXCEPT !.at = "waiting"]
  <2>4. /\ asks \in Call /\ Good(asks) /\ asks.kind = call[i].kind /\ asks.tab = call[i].tab
        /\ asks.valid = call[i].valid
    BY <2>1, <2>3 DEF Refresh, Call, Good, Cookies
  <2>5. /\ waits \in Call /\ Good(waits) /\ waits.kind = call[i].kind /\ waits.tab = call[i].tab
        /\ waits.valid = call[i].valid
    BY <2>1 DEF Call, Good
  <2>6. call' = [call EXCEPT ![i] = asks] \/ call' = [call EXCEPT ![i] = waits]
    BY <1>1 DEF AwaitRefresh
  <2> HIDE DEF asks, waits
  <2>7. /\ call' = [j \in Calls |-> call'[j]]
        /\ call'[i] = asks \/ call'[i] = waits
        /\ \A j \in Calls : j # i => call'[j] = call[j]
    BY <2>6 DEF Inv, TypeOK
  <2>8. Bears(jar') /\ UNCHANGED <<token, erased, tab>>
    BY <1>1, JarBears DEF AwaitRefresh, Bears
  <2> QED BY <2>1, <2>4, <2>5, <2>7, <2>8, Going
<1>2. CASE RefreshArrives(i)
  <2> DEFINE ok == call[i].at = "ok"
             cookies == IF ok THEN SetCookies(call[i].answer) ELSE jar
             resumed(c) ==
                 IF ok THEN [Request(c.kind, c.tab, cookies) EXCEPT !.retried = TRUE, !.valid = c.valid]
                 ELSE [c EXCEPT !.leg = "request", !.at = "refused", !.retried = TRUE]
             among(j) == j = i \/ (j \in Of(call[i].tab) /\ call[j].at = "waiting")
  <2>1. /\ Open(i) /\ call[i].leg = "refresh"
        /\ jar' = cookies /\ UNCHANGED <<token, erased, tab>>
        /\ call' = [j \in Calls |-> IF among(j) THEN resumed(call[j]) ELSE call[j]]
    BY <1>2 DEF RefreshArrives, IsRefresh
  <2>2. Bears(cookies)
    BY <2>1, JarBears, AnswerBears
  <2> HIDE DEF ok, cookies
  <2>3. ASSUME NEW j \in Calls, Open(j)
        PROVE  LET r == resumed(call[j]) IN
               /\ r \in Call /\ Good(r) /\ r.kind = call[j].kind /\ r.tab = call[j].tab
               /\ r.valid = call[j].valid
    <3> DEFINE c == call[j]
    <3>1. c \in Call /\ Good(c)
      BY <2>3, Slots DEF Inv, Signed, Good
    <3> HIDE DEF c
    <3>2. CASE ok
      <4>1. c.kind \in {"me", "page", "login", "logout", "anonymize"} /\ c.tab \in Tabs /\ c.valid \in BOOLEAN
        BY <3>1 DEF Call
      <4> DEFINE q == Request(c.kind, c.tab, cookies)
      <4>2. /\ q \in Call /\ q.kind = c.kind /\ q.tab = c.tab /\ q.leg = "request" /\ q.at = "sent"
            /\ Good(q)
        BY <2>2, <4>1, NewRequest
      <4> HIDE DEF q
      <4> DEFINE r == [q EXCEPT !.retried = TRUE, !.valid = c.valid]
      <4>3. /\ r \in Call /\ r.kind = c.kind /\ r.tab = c.tab /\ r.valid = c.valid
            /\ r.at = "sent" /\ r.sent = q.sent
        BY <4>1, <4>2 DEF Call
      <4>4. Good(r)
        BY <4>2, <4>3 DEF Good
      <4> QED BY <3>2, <4>3, <4>4 DEF q, c
    <3>3. CASE ~ok
      <4> DEFINE r == [c EXCEPT !.leg = "request", !.at = "refused", !.retried = TRUE]
      <4>1. /\ r \in Call /\ r.kind = c.kind /\ r.tab = c.tab /\ r.valid = c.valid
            /\ r.at = "refused" /\ r.sent = c.sent
        BY <3>1 DEF Call
      <4>2. Good(r)
        BY <3>1, <4>1 DEF Good
      <4> QED BY <3>3, <4>1, <4>2 DEF c
    <3> QED BY <3>2, <3>3
  <2>4. \A j \in Calls : among(j) => Open(j)
    BY <2>1 DEF Of
  <2> HIDE DEF resumed, among
  <2>5. /\ call' = [j \in Calls |-> call'[j]]
        /\ \A j \in Calls : call'[j] = call[j] \/ (Open(j) /\ call'[j] = resumed(call[j]))
    BY <2>1, <2>4
  <2> QED BY <2>1, <2>2, <2>3, <2>5, Going
<1> QED BY <1>1, <1>2

\* Time passes.
LEMMA Expiring ==
    ASSUME Inv, AccessExpires
    PROVE  Inv'
<1>1. Bears(jar') /\ UNCHANGED <<token, erased, tab, call>>
  BY DEF AccessExpires, Bears, Cookies, Inv, TypeOK
<1>2. TypeOK'
  BY <1>1 DEF Inv, TypeOK, Bears, Cookies
<1>3. Signed'
  BY <1>1 DEF Inv, Signed, Bears, Open
<1>4. Decided'
  BY <1>1 DEF Inv, Decided, Open
<1> QED BY <1>2, <1>3, <1>4 DEF Inv

\* The user a provider shows.
Screens == [open: BOOLEAN, user: Holder, loading: BOOLEAN]

\* An answer frees its slot, and answers to /auth/me may stop to count.  The
\* tab shows someone, or it waited for another answer.
LEMMA Freeing ==
    ASSUME Inv, NEW i \in Calls, Open(i), UNCHANGED <<token, erased>>, Bears(jar'),
           NEW S \in SUBSET Calls,
           call' = [j \in Calls |-> IF j = i THEN Free
                                   ELSE IF j \in S THEN [call[j] EXCEPT !.valid = FALSE]
                                   ELSE call[j]],
           \A j \in S : Open(j) /\ call[j].tab = call[i].tab,
           \/ /\ tab' = tab /\ S = {}
              /\ call[i].kind = "me" => ~call[i].valid
           \/ \E u \in Holder : tab' = Show(call[i].tab, u)
    PROVE  Inv'
<1>1. call[i].tab \in Tabs
  BY Slots DEF Inv, Call
<1>2. \A j \in S : LET c == [call[j] EXCEPT !.valid = FALSE] IN
          /\ c \in Call /\ c.kind = call[j].kind /\ c.tab = call[j].tab
          /\ c.leg = call[j].leg /\ c.at = call[j].at
          /\ c.sent = call[j].sent /\ c.answer = call[j].answer
  <2>1. SUFFICES ASSUME NEW c \in Call
                 PROVE  LET d == [c EXCEPT !.valid = FALSE] IN
                        /\ d \in Call /\ d.kind = c.kind /\ d.tab = c.tab
                        /\ d.leg = c.leg /\ d.at = c.at
                        /\ d.sent = c.sent /\ d.answer = c.answer
    BY Slots DEF Inv
  <2> QED BY DEF Call
<1>3. call' \in [Calls -> Call \union {Free}]
  BY <1>2 DEF Inv, TypeOK
<1>4. tab' \in [Tabs -> Screens]
  <2>1. tab \in [Tabs -> Screens]
    BY DEF Inv, TypeOK, Screens
  <2>2. \A u \in Holder : Show(call[i].tab, u) \in [Tabs -> Screens]
    BY <1>1, <2>1 DEF Show, Screens
  <2> QED BY <2>1, <2>2
<1>5. TypeOK'
  BY <1>3, <1>4 DEF Inv, TypeOK, Screens, Bears, Cookies
<1>6. ~Open(i)' /\ \A j \in Calls : j # i /\ Open(j)' => Open(j)
  BY <1>2 DEF Open, Free
<1>7. Signed'
  BY <1>2, <1>6 DEF Inv, Signed, Bears
<1>8. Decided'
  <2>1. \A t \in Tabs, u \in Holder :
            Show(call[i].tab, u)[t].loading => tab[t].loading /\ t # call[i].tab
    BY <1>1 DEF Show, Inv, TypeOK
  <2>2. ASSUME NEW t \in Tabs, tab'[t].loading
        PROVE  \E j \in Calls : /\ Open(j)' /\ call'[j].tab = t /\ call'[j].kind = "me" /\ call'[j].valid
    <3>1. PICK j \in Calls : Open(j) /\ call[j].tab = t /\ call[j].kind = "me" /\ call[j].valid
      BY <2>1, <2>2 DEF Inv, Decided
    <3>2. j # i /\ j \notin S
      <4>1. CASE /\ tab' = tab /\ S = {}
                 /\ call[i].kind = "me" => ~call[i].valid
        BY <3>1, <4>1
      <4>2. CASE \E u \in Holder : tab' = Show(call[i].tab, u)
        <5>1. t # call[i].tab
          BY <2>1, <2>2, <4>2
        <5> QED BY <3>1, <5>1
      <4> QED BY <4>1, <4>2
    <3>3. call'[j] = call[j]
      BY <3>2
    <3> QED BY <3>1, <3>3 DEF Open
  <2> QED BY <2>2 DEF Decided
<1> QED BY <1>5, <1>7, <1>8 DEF Inv

\* Freed and Bumped in the form of Freeing.
LEMMA FreedBumped ==
    ASSUME Inv, NEW i \in Calls, Open(i), call[i].kind # "me"
    PROVE  LET S == {j \in Of(call[i].tab) : call[j].kind = "me"} IN
           Bumped(Freed(i), call[i].tab) =
               [j \in Calls |-> IF j = i THEN Free
                               ELSE IF j \in S THEN [call[j] EXCEPT !.valid = FALSE] ELSE call[j]]
BY DEF Bumped, Freed, Inv, TypeOK, Of

LEMMA FreedOnly ==
    ASSUME Inv, NEW i \in Calls
    PROVE  Freed(i) = [j \in Calls |-> IF j = i THEN Free
                                      ELSE IF j \in {} THEN [call[j] EXCEPT !.valid = FALSE] ELSE call[j]]
BY DEF Freed, Inv, TypeOK

LEMMA Arriving ==
    ASSUME Inv, NEW i \in Calls,
           MeArrives(i) \/ PageArrives(i) \/ LoginArrives(i) \/ LogoutArrives(i) \/ AnonymizeArrives(i)
    PROVE  Inv'
<1>1. Open(i) /\ call[i].leg = "request" /\ call[i].answer.access \in Holder /\ None \in Holder
  BY Carried DEF MeArrives, PageArrives, LoginArrives, LogoutArrives, AnonymizeArrives, Is, Answers, Holder
<1>2. Bears(jar) /\ Bears(NoCookies)
  BY JarBears DEF Bears, NoCookies, Cookies, Holder
<1> DEFINE S == {j \in Of(call[i].tab) : call[j].kind = "me"}
<1>3. S \in SUBSET Calls /\ \A j \in S : Open(j) /\ call[j].tab = call[i].tab
  BY DEF Of
<1>4. UNCHANGED <<token, erased>>
  BY DEF MeArrives, PageArrives, LoginArrives, LogoutArrives, AnonymizeArrives
<1>5. ASSUME call' = Freed(i), Bears(jar'),
             \/ tab' = tab /\ (call[i].kind = "me" => ~call[i].valid)
             \/ \E u \in Holder : tab' = Show(call[i].tab, u)
      PROVE  Inv'
  <2> DEFINE N == {}
  <2>1. /\ call' = [j \in Calls |-> IF j = i THEN Free
                                    ELSE IF j \in N THEN [call[j] EXCEPT !.valid = FALSE] ELSE call[j]]
        /\ N \in SUBSET Calls /\ N = {}
    BY <1>5, FreedOnly
  <2> HIDE DEF N
  <2> QED BY <1>1, <1>4, <1>5, <2>1, Freeing
<1>6. ASSUME call' = Bumped(Freed(i), call[i].tab), call[i].kind # "me", Bears(jar'),
             \E u \in Holder : tab' = Show(call[i].tab, u)
      PROVE  Inv'
  <2>1. call' = [j \in Calls |-> IF j = i THEN Free
                                ELSE IF j \in S THEN [call[j] EXCEPT !.valid = FALSE] ELSE call[j]]
    BY <1>1, <1>6, FreedBumped
  <2> HIDE DEF S
  <2> QED BY <1>1, <1>3, <1>4, <1>6, <2>1, Freeing
<1>7. CASE MeArrives(i)
  BY <1>1, <1>2, <1>5, <1>7 DEF MeArrives, Bears
<1>8. CASE PageArrives(i)
  BY <1>2, <1>5, <1>8 DEF PageArrives, Is, Bears
<1>9. CASE LoginArrives(i)
  <2>1. call[i].kind = "login"
    BY <1>9 DEF LoginArrives, Is
  <2>2. CASE call[i].at = "ok"
    <3>1. Bears(SetCookies(call[i].answer))
      BY <1>1, <2>1, <2>2, AnswerBears
    <3> QED BY <1>1, <1>6, <1>9, <2>1, <2>2, <3>1 DEF LoginArrives, Bears
  <2>3. CASE call[i].at # "ok"
    BY <1>2, <1>5, <1>9, <2>1, <2>3 DEF LoginArrives, Bears
  <2> QED BY <2>2, <2>3
<1>10. CASE LogoutArrives(i)
  <2>1. Bears(jar')
    BY <1>2, <1>10 DEF LogoutArrives, Bears
  <2> QED BY <1>1, <1>5, <1>10, <2>1 DEF LogoutArrives
<1>11. CASE AnonymizeArrives(i)
  <2>1. call[i].kind = "anonymize"
    BY <1>11 DEF AnonymizeArrives, Is
  <2>2. CASE call[i].at = "ok"
    <3>1. Bears(jar')
      BY <1>2, <1>11, <2>2 DEF AnonymizeArrives, Bears
    <3> QED BY <1>1, <1>6, <1>11, <2>1, <2>2, <3>1 DEF AnonymizeArrives
  <2>3. CASE call[i].at # "ok"
    BY <1>2, <1>5, <1>11, <2>1, <2>3 DEF AnonymizeArrives, Bears
  <2> QED BY <2>2, <2>3
<1> QED BY <1>7, <1>8, <1>9, <1>10, <1>11

\* A request enters a free slot; the answers to /auth/me of its tab may stop to
\* count, if it is one itself or the tab has decided.
LEMMA Asking ==
    ASSUME Inv, NEW t \in Tabs, NEW kind \in {"me", "page", "login", "logout", "anonymize"},
           NEW calls \in {call, Bumped(call, t)}, Ask(kind, t, calls),
           UNCHANGED <<token, erased, jar>>, tab' \in [Tabs -> Screens],
           \A u \in Tabs : tab'[u].loading => tab[u].loading \/ (u = t /\ kind = "me"),
           calls = call \/ kind = "me" \/ ~tab'[t].loading
    PROVE  Inv'
<1>1. PICK i \in Calls : ~Open(i) /\ call' = [calls EXCEPT ![i] = Request(kind, t, jar)]
  BY DEF Ask
<1> DEFINE r == Request(kind, t, jar)
<1>2. r \in Call /\ r.kind = kind /\ r.tab = t /\ r.leg = "request" /\ r.at = "sent" /\ r.valid /\ Good(r)
  BY JarBears, NewRequest
<1> HIDE DEF r
<1>3. ASSUME NEW j \in Calls
      PROVE  \/ calls[j] = call[j]
             \/ /\ Open(j) /\ calls # call /\ call[j].tab = t
                /\ calls[j] \in Call
                /\ calls[j].kind = call[j].kind /\ calls[j].tab = call[j].tab
                /\ calls[j].leg = call[j].leg /\ calls[j].at = call[j].at
                /\ calls[j].sent = call[j].sent /\ calls[j].answer = call[j].answer
  <2> DEFINE c == call[j]
             d == [c EXCEPT !.valid = FALSE]
  <2>1. c \in Call => /\ d \in Call /\ d.kind = c.kind /\ d.tab = c.tab /\ d.leg = c.leg
                      /\ d.at = c.at /\ d.sent = c.sent /\ d.answer = c.answer
    <3> HIDE DEF c
    <3> QED BY DEF Call
  <2>2. calls[j] = c \/ (j \in Of(t) /\ calls[j] = d)
    BY DEF Bumped
  <2>3. j \in Of(t) => Open(j) /\ c.tab = t /\ c \in Call
    BY Slots DEF Of, Inv
  <2> QED BY <2>1, <2>2, <2>3
<1>4. calls = [j \in Calls |-> calls[j]]
  BY DEF Bumped, Inv, TypeOK
<1>5. /\ call' = [j \in Calls |-> call'[j]] /\ call'[i] = r
      /\ \A j \in Calls : j # i => call'[j] = calls[j]
  BY <1>1, <1>4 DEF r
<1>6. TypeOK'
  <2>1. call' \in [Calls -> Call \union {Free}]
    BY <1>2, <1>3, <1>5 DEF Inv, TypeOK
  <2> QED BY <2>1 DEF Inv, TypeOK, Screens
<1>7. Signed'
  BY <1>2, <1>3, <1>5 DEF Inv, Signed, Open, Good
<1>8. Decided'
  <2>1. SUFFICES ASSUME NEW u \in Tabs, tab'[u].loading
                 PROVE  \E j \in Calls : Open(j)' /\ call'[j].tab = u /\ call'[j].kind = "me" /\ call'[j].valid
    BY DEF Decided
  <2>2. CASE u = t /\ kind = "me"
    BY <1>2, <1>5, <2>2 DEF Open
  <2>3. CASE ~(u = t /\ kind = "me")
    <3>1. PICK j \in Calls : Open(j) /\ call[j].tab = u /\ call[j].kind = "me" /\ call[j].valid
      BY <2>1, <2>3 DEF Inv, Decided
    <3>2. j # i /\ (calls = call \/ u # t)
      BY <1>1, <2>1, <2>3, <3>1
    <3>3. call'[j] = call[j]
      BY <1>3, <1>5, <3>1, <3>2
    <3> QED BY <3>1, <3>3 DEF Open
  <2> QED BY <2>2, <2>3
<1> QED BY <1>6, <1>7, <1>8 DEF Inv

LEMMA Acting ==
    ASSUME Inv, NEW t \in Tabs,
           RefreshUser(t) \/ OpenPage(t) \/ SubmitLogin(t) \/ SubmitLogout(t)
               \/ SubmitAnonymize(t) \/ Mount(t)
    PROVE  Inv'
<1>1. tab \in [Tabs -> Screens] /\ None \in Holder
  BY DEF Inv, TypeOK, Screens, Holder
<1>2. CASE RefreshUser(t)
  BY <1>1, <1>2, Asking DEF RefreshUser
<1>3. CASE OpenPage(t)
  BY <1>1, <1>3, Asking DEF OpenPage
<1>4. CASE SubmitLogin(t)
  BY <1>1, <1>4, Asking DEF SubmitLogin
<1>5. CASE SubmitLogout(t)
  BY <1>1, <1>5, Asking DEF SubmitLogout
<1>6. CASE SubmitAnonymize(t)
  BY <1>1, <1>6, Asking DEF SubmitAnonymize
<1>7. CASE Mount(t)
  <2>1. tab' \in [Tabs -> Screens] /\ \A u \in Tabs : u # t => tab'[u] = tab[u]
    BY <1>1, <1>7 DEF Mount, Screens
  <2> QED BY <1>7, <2>1, Asking DEF Mount
<1> QED BY <1>2, <1>3, <1>4, <1>5, <1>6, <1>7

-----------------------------------------------------------------------------

LEMMA Initially ==
    ASSUME Init
    PROVE  Inv
<1>1. tab \in [Tabs -> [open: BOOLEAN, user: Holder, loading: BOOLEAN]]
  BY DEF Init, Holder
<1>2. call \in [Calls -> Call \union {Free}] /\ \A i \in Calls : ~Open(i)
  BY DEF Init, Free, Open
<1>3. erased \subseteq Accounts
  BY DEF Init
<1>4. PICK a \in Accounts, t \in Tokens :
        \/ /\ token = [x \in Tokens |-> [account |-> IF x = t THEN a ELSE None,
                                         state |-> IF x = t THEN "live" ELSE "unused"]]
           /\ \E fresh \in BOOLEAN : jar = [access |-> a, fresh |-> fresh, refresh |-> t]
        \/ /\ token = [x \in Tokens |-> [account |-> None, state |-> "unused"]]
           /\ jar = NoCookies
  BY DEF Init
<1>5. a # None
  BY BrowserAssumption
<1>6. token \in [Tokens -> [account: Holder, state: {"unused", "live", "revoked"}]]
  BY <1>4 DEF Holder
<1>7. \A x \in Tokens : token[x].state = "live" => token[x].account # None
  BY <1>4, <1>5
<1>8. Bears(jar)
  <2>1. Bears(NoCookies)
    BY DEF Bears, Cookies, Holder, NoCookies
  <2>2. \A fresh \in BOOLEAN : Bears([access |-> a, fresh |-> fresh, refresh |-> t])
    BY <1>5 DEF Bears, Cookies, Holder
  <2> QED BY <1>4, <2>1, <2>2
<1>9. TypeOK
  BY <1>1, <1>2, <1>3, <1>6, <1>8 DEF TypeOK, Bears, Cookies
<1>10. Signed
  BY <1>2, <1>7, <1>8 DEF Signed, Bears
<1>11. Decided
  BY DEF Init, Decided
<1> QED BY <1>9, <1>10, <1>11 DEF Inv

LEMMA Stuttering ==
    ASSUME Inv, UNCHANGED vars
    PROVE  Inv'
BY DEF vars, Inv, TypeOK, Signed, Decided, Open

LEMMA Stepping ==
    ASSUME Inv, Next
    PROVE  Inv'
BY Serving, Refreshed, Arriving, Acting, Expiring DEF Next

\* The state of the browser's session has the type that BrowserSession gives
\* it, whatever the tabs and the API do.
THEOREM BrowserTypeOK == HSpec => []TypeOK
<1>1. HInit => Inv
  BY Initially DEF HInit
<1>2. Inv /\ [HNext]_hvars => Inv'
  BY Stepping, Stuttering DEF HNext, hvars
<1>3. Inv => TypeOK
  BY DEF Inv
<1> QED BY <1>1, <1>2, <1>3, PTL DEF HSpec

\* AuthProvider: a tab that waits for no answer has decided whom to show,
\* although the answers to /auth/me that it discards do not end its loading:
\* while it loads, one of them still counts.
THEOREM RestIsDecidedHolds == HSpec => []RestIsDecided
<1>1. HInit => Inv
  BY Initially DEF HInit
<1>2. Inv /\ [HNext]_hvars => Inv'
  BY Stepping, Stuttering DEF HNext, hvars
<1>3. Inv => RestIsDecided
  BY DEF Inv, Decided, RestIsDecided, AtRest, Of
<1> QED BY <1>1, <1>2, <1>3, PTL DEF HSpec

-----------------------------------------------------------------------------
(* What a step does to the requests *)

\* The same request, save that its answer may count no more.
Alike(c, d) ==
    /\ d.kind = c.kind /\ d.tab = c.tab /\ d.leg = c.leg /\ d.at = c.at
    /\ d.retried = c.retried /\ d.sent = c.sent /\ d.answer = c.answer

LEMMA ServeShape ==
    ASSUME Inv, NEW i \in Calls, Open(i), NEW at, NEW answer, Serve(i, at, answer)
    PROVE  /\ Open(i)' /\ call'[i].at = at /\ call'[i].answer = answer /\ call'[i].sent = NoCookies
           /\ call'[i].kind = call[i].kind /\ call'[i].leg = call[i].leg /\ call'[i].tab = call[i].tab
           /\ call'[i].retried = call[i].retried /\ call'[i].valid = call[i].valid
           /\ \A j \in Calls : j # i => call'[j] = call[j]
<1>1. call[i] \in Call /\ call[i].kind # "none"
  BY Slots DEF Inv, Open
<1> DEFINE c == [call[i] EXCEPT !.at = at, !.answer = answer, !.sent = NoCookies]
<1>2. /\ c.sent = NoCookies /\ c.at = at /\ c.answer = answer
      /\ c.kind = call[i].kind /\ c.leg = call[i].leg /\ c.tab = call[i].tab
      /\ c.retried = call[i].retried /\ c.valid = call[i].valid
  BY <1>1 DEF Call
<1>3. call' = [call EXCEPT ![i] = c]
  BY <1>1 DEF Inv, TypeOK, Serve
<1> HIDE DEF c
<1> QED BY <1>1, <1>2, <1>3 DEF Inv, TypeOK, Open

LEMMA AwaitShape ==
    ASSUME Inv, NEW i \in Calls, AwaitRefresh(i)
    PROVE  /\ Open(i) /\ Open(i)' /\ call[i].at = "refused" /\ ~call[i].retried
           /\ call[i].kind \in {"me", "page", "anonymize"} /\ call[i].leg = "request"
           /\ call'[i].kind = call[i].kind /\ call'[i].tab = call[i].tab
           /\ call'[i].retried = call[i].retried /\ call'[i].valid = call[i].valid
           /\ call'[i].answer = call[i].answer
           /\ \/ /\ ~Refreshing(call[i].tab)
                 /\ call'[i].leg = "refresh" /\ call'[i].at = "sent"
                 /\ call'[i].sent = [NoCookies EXCEPT !.refresh = jar.refresh]
              \/ /\ Refreshing(call[i].tab)
                 /\ call'[i].leg = "request" /\ call'[i].at = "waiting"
           /\ \A j \in Calls : j # i => call'[j] = call[j]
           /\ UNCHANGED <<token, erased, jar, tab>>
<1> DEFINE c == call[i]
           asks == Refresh(c)
           waits == [c EXCEPT !.at = "waiting"]
<1>1. /\ Open(i) /\ c \in Call /\ c.kind # "none" /\ c.at = "refused" /\ ~c.retried
      /\ c.kind \in {"me", "page", "anonymize"} /\ c.leg = "request"
  BY Slots DEF AwaitRefresh, First401, Is, Inv, Open
<1>2. /\ asks.kind = c.kind /\ asks.tab = c.tab /\ asks.retried = c.retried /\ asks.valid = c.valid
      /\ asks.answer = c.answer /\ asks.leg = "refresh" /\ asks.at = "sent"
      /\ asks.sent = [NoCookies EXCEPT !.refresh = jar.refresh]
  BY <1>1 DEF Refresh, Call
<1>3. /\ waits.kind = c.kind /\ waits.tab = c.tab /\ waits.retried = c.retried /\ waits.valid = c.valid
      /\ waits.answer = c.answer /\ waits.leg = c.leg /\ waits.at = "waiting"
  BY <1>1 DEF Call
<1>4. /\ call' = [call EXCEPT ![i] = IF Refreshing(c.tab) THEN waits ELSE asks]
      /\ UNCHANGED <<token, erased, jar, tab>>
  BY DEF AwaitRefresh
<1> HIDE DEF asks, waits
<1>5. /\ call'[i] = IF Refreshing(c.tab) THEN waits ELSE asks
      /\ \A j \in Calls : j # i => call'[j] = call[j]
  BY <1>4 DEF Inv, TypeOK
<1> QED BY <1>1, <1>2, <1>3, <1>4, <1>5 DEF Open

\* Of a refresh: those that wait for it in its tab.
Resumes(i, j) == j = i \/ (j \in Of(call[i].tab) /\ call[j].at = "waiting")

LEMMA ResumeShape ==
    ASSUME Inv, NEW i \in Calls, RefreshArrives(i)
    PROVE  /\ IsRefresh(i) /\ call[i].at \in {"ok", "refused", "error"}
           /\ jar' = IF call[i].at = "ok" THEN SetCookies(call[i].answer) ELSE jar
           /\ UNCHANGED <<token, erased, tab>>
           /\ \A j \in Calls : ~Resumes(i, j) => call'[j] = call[j]
           /\ \A j \in Calls : Resumes(i, j) =>
                /\ Open(j) /\ Open(j)' /\ call[j].tab = call[i].tab
                /\ call'[j].kind = call[j].kind /\ call'[j].tab = call[j].tab
                /\ call'[j].valid = call[j].valid
                /\ call'[j].leg = "request" /\ call'[j].retried
                /\ call[i].at = "ok" =>
                    /\ call'[j].at = "sent" /\ call'[j].sent.fresh
                    /\ call'[j].sent.access = call[i].answer.access
                /\ call[i].at # "ok" => call'[j].at = "refused"
<1> DEFINE ok == call[i].at = "ok"
           cookies == IF ok THEN SetCookies(call[i].answer) ELSE jar
           resumed(c) ==
               IF ok THEN [Request(c.kind, c.tab, cookies) EXCEPT !.retried = TRUE, !.valid = c.valid]
               ELSE [c EXCEPT !.leg = "request", !.at = "refused", !.retried = TRUE]
<1>1. /\ IsRefresh(i) /\ call[i].at \in {"ok", "refused", "error"}
      /\ jar' = cookies /\ UNCHANGED <<token, erased, tab>>
      /\ call' = [j \in Calls |-> IF Resumes(i, j) THEN resumed(call[j]) ELSE call[j]]
  BY DEF RefreshArrives, Resumes
<1>2. ASSUME NEW j \in Calls, Resumes(i, j)
      PROVE  Open(j) /\ call[j] \in Call /\ call[j].kind # "none" /\ call[j].tab = call[i].tab
  BY <1>1, <1>2, Slots DEF Resumes, Of, IsRefresh, Inv, Open
<1>3. ASSUME NEW j \in Calls, Resumes(i, j)
      PROVE  LET r == resumed(call[j]) IN
             /\ r.kind = call[j].kind /\ r.tab = call[j].tab /\ r.valid = call[j].valid
             /\ r.leg = "request" /\ r.retried
             /\ ok => /\ r.at = "sent" /\ r.sent.fresh
                      /\ r.sent.access = call[i].answer.access
             /\ ~ok => r.at = "refused"
  <2> DEFINE c == call[j]
  <2>1. c \in Call
    BY <1>2, <1>3
  <2> HIDE DEF c
  <2>2. CASE ok
    <3> DEFINE s == [cookies EXCEPT !.refresh = None]
    <3>1. s.fresh /\ s.access = call[i].answer.access
      BY <2>2 DEF SetCookies
    <3> HIDE DEF s
    <3> DEFINE r == [kind |-> c.kind, tab |-> c.tab, leg |-> "request", at |-> "sent", valid |-> c.valid,
                     retried |-> TRUE, sent |-> s, answer |-> NoAnswer]
    <3>2. resumed(c) = r
      BY <2>2 DEF Request, s
    <3> QED BY <2>2, <3>1, <3>2 DEF c
  <2>3. CASE ~ok
    BY <2>1, <2>3 DEF c, Call
  <2> QED BY <2>2, <2>3
<1> HIDE DEF resumed
<1>4. \A j \in Calls : call'[j] = IF Resumes(i, j) THEN resumed(call[j]) ELSE call[j]
  BY <1>1
<1> QED BY <1>1, <1>2, <1>3, <1>4 DEF Open

LEMMA ArriveShape ==
    ASSUME Inv, NEW i \in Calls,
           MeArrives(i) \/ PageArrives(i) \/ LoginArrives(i) \/ LogoutArrives(i) \/ AnonymizeArrives(i)
    PROVE  /\ Open(i) /\ call[i].leg = "request" /\ ~Open(i)' /\ call'[i] # call[i]
           /\ call[i].at \in {"ok", "error", "refused"}
           /\ UNCHANGED <<token, erased>>
           /\ \A j \in Calls : j # i =>
                /\ Open(j)' <=> Open(j)
                /\ Open(j) => Alike(call[j], call'[j]) /\ (call'[j].valid => call[j].valid)
                /\ Open(j) /\ call[j].tab # call[i].tab => call'[j] = call[j]
<1>1. Open(i) /\ call[i].leg = "request" /\ call[i].at \in {"ok", "error", "refused"}
  BY DEF MeArrives, PageArrives, LoginArrives, LogoutArrives, AnonymizeArrives, Is, Final
<1>2. UNCHANGED <<token, erased>> /\ (call' = Freed(i) \/ call' = Bumped(Freed(i), call[i].tab))
  BY DEF MeArrives, PageArrives, LoginArrives, LogoutArrives, AnonymizeArrives
<1>3. call[i].kind # "none"
  BY <1>1 DEF Open
<1>4. CASE call' = Freed(i)
  <2>1. call'[i] = Free /\ \A j \in Calls : j # i => call'[j] = call[j]
    BY <1>4 DEF Freed, Inv, TypeOK
  <2> QED BY <1>1, <1>2, <1>3, <2>1 DEF Free, Open, Alike
<1>5. CASE call' = Bumped(Freed(i), call[i].tab) /\ call[i].kind # "me"
  <2>1. call'[i] = Free
    BY <1>5 DEF Bumped, Freed, Of, Inv, TypeOK
  <2>2. ASSUME NEW j \in Calls, j # i
        PROVE  /\ Open(j)' <=> Open(j)
               /\ Open(j) => Alike(call[j], call'[j]) /\ (call'[j].valid => call[j].valid)
               /\ Open(j) /\ call[j].tab # call[i].tab => call'[j] = call[j]
    <3> DEFINE c == call[j]
               d == [c EXCEPT !.valid = FALSE]
    <3>1. call'[j] = c \/ call'[j] = d
      BY <1>5, <2>2 DEF Bumped, Freed, Inv, TypeOK
    <3>2. call'[j] = c \/ (Open(j) /\ c.tab = call[i].tab)
      BY <1>5, <2>2 DEF Bumped, Freed, Inv, TypeOK, Of
    <3>3. Open(j) => c \in Call /\ c.kind # "none"
      BY Slots DEF Inv, Open
    <3> HIDE DEF c
    <3>4. c \in Call => Alike(c, d) /\ ~d.valid /\ d.kind = c.kind
      BY DEF Call, Alike
    <3>5. Alike(c, c)
      BY DEF Alike
    <3> HIDE DEF d
    <3> QED BY <3>1, <3>2, <3>3, <3>4, <3>5 DEF c, Open
  <2> QED BY <1>1, <1>2, <1>3, <2>1, <2>2 DEF Free, Open
<1>6. call' = Freed(i) \/ call[i].kind # "me"
  BY DEF MeArrives, PageArrives, LoginArrives, LogoutArrives, AnonymizeArrives, Is
<1> QED BY <1>2, <1>4, <1>5, <1>6

\* What the pages and forms of a tab ask for.
Asks(t) == RefreshUser(t) \/ OpenPage(t) \/ SubmitLogin(t) \/ SubmitLogout(t)
               \/ SubmitAnonymize(t) \/ Mount(t)

\* A tab asks: a free slot takes the request.
Asked(i, t, kind) ==
    /\ ~Open(i) /\ Open(i)'
    /\ call'[i].kind = kind /\ call'[i].tab = t /\ call'[i].leg = "request" /\ call'[i].at = "sent"
    /\ call'[i].valid /\ ~call'[i].retried
    /\ call'[i].sent.access = jar.access
    /\ \A j \in Calls : j # i =>
        /\ Open(j)' <=> Open(j)
        /\ Open(j) => Alike(call[j], call'[j]) /\ (call'[j].valid => call[j].valid)
        /\ Open(j) /\ call[j].tab # t => call'[j] = call[j]

LEMMA AskShape ==
    ASSUME Inv, NEW t \in Tabs, Asks(t)
    PROVE  /\ UNCHANGED <<token, erased, jar>>
           /\ \E i \in Calls :
                \/ Asked(i, t, "me") /\ (RefreshUser(t) \/ Mount(t))
                \/ Asked(i, t, "logout") /\ SubmitLogout(t)
                \/ /\ \E kind \in {"page", "login", "anonymize"} : Asked(i, t, kind)
                   /\ OpenPage(t) \/ SubmitLogin(t) \/ SubmitAnonymize(t)
                   /\ \A j \in Calls : j # i => call'[j] = call[j]
<1>1. ASSUME NEW kind \in {"me", "page", "login", "logout", "anonymize"}, NEW calls \in {call, Bumped(call, t)},
             Ask(kind, t, calls)
      PROVE  \E i \in Calls :
                /\ Asked(i, t, kind)
                /\ calls = call => \A j \in Calls : j # i => call'[j] = call[j]
  <2>1. PICK i \in Calls : ~Open(i) /\ call' = [calls EXCEPT ![i] = Request(kind, t, jar)]
    BY <1>1 DEF Ask
  <2> DEFINE r == Request(kind, t, jar)
  <2>2. /\ r.kind = kind /\ r.tab = t /\ r.leg = "request" /\ r.at = "sent" /\ r.valid /\ ~r.retried
        /\ r.sent.access = jar.access
    BY DEF Request, Inv, TypeOK
  <2> HIDE DEF r
  <2>3. ASSUME NEW j \in Calls
        PROVE  calls[j] = call[j] \/ (j \in Of(t) /\ calls[j] = [call[j] EXCEPT !.valid = FALSE])
    BY DEF Bumped
  <2>4. calls = [j \in Calls |-> calls[j]]
    BY DEF Bumped, Inv, TypeOK
  <2>5. call'[i] = r /\ \A j \in Calls : j # i => call'[j] = calls[j]
    BY <2>1, <2>4 DEF r
  <2>6. Open(i)'
    BY <2>2, <2>5 DEF Open
  <2>7. ASSUME NEW j \in Calls, j # i
        PROVE  /\ Open(j)' <=> Open(j)
               /\ Open(j) => Alike(call[j], call'[j]) /\ (call'[j].valid => call[j].valid)
               /\ Open(j) /\ call[j].tab # t => call'[j] = call[j]
               /\ calls = call => call'[j] = call[j]
    <3> DEFINE c == call[j]
               d == [c EXCEPT !.valid = FALSE]
    <3>1. call'[j] = c \/ (call'[j] = d /\ Open(j) /\ c.tab = t)
      BY <2>3, <2>5, <2>7 DEF Of
    <3>2. Open(j) => c \in Call /\ c.kind # "none"
      BY Slots DEF Inv, Open
    <3> HIDE DEF c
    <3>3. c \in Call => Alike(c, d) /\ ~d.valid /\ d.kind = c.kind
      BY DEF Call, Alike
    <3>4. Alike(c, c)
      BY DEF Alike
    <3>5. calls = call => call'[j] = c
      BY <2>5, <2>7 DEF c
    <3> HIDE DEF d
    <3> QED BY <3>1, <3>2, <3>3, <3>4, <3>5 DEF c, Open
  <2> QED BY <2>1, <2>2, <2>5, <2>6, <2>7 DEF Asked
<1>2. UNCHANGED <<token, erased, jar>>
  BY DEF Asks, RefreshUser, OpenPage, SubmitLogin, SubmitLogout, SubmitAnonymize, Mount
<1>3. CASE RefreshUser(t)
  <2>1. Ask("me", t, Bumped(call, t))
    BY <1>3 DEF RefreshUser
  <2> QED BY <1>1, <1>2, <1>3, <2>1
<1>4. CASE Mount(t)
  <2>1. Ask("me", t, call)
    BY <1>4 DEF Mount
  <2> QED BY <1>1, <1>2, <1>4, <2>1
<1>5. CASE SubmitLogout(t)
  <2>1. Ask("logout", t, Bumped(call, t))
    BY <1>5 DEF SubmitLogout
  <2> QED BY <1>1, <1>2, <1>5, <2>1
<1>6. CASE OpenPage(t) \/ SubmitLogin(t) \/ SubmitAnonymize(t)
  <2>1. \E kind \in {"page", "login", "anonymize"} : Ask(kind, t, call)
    BY <1>6 DEF OpenPage, SubmitLogin, SubmitAnonymize
  <2> QED BY <1>1, <1>2, <1>6, <2>1
<1> QED BY <1>3, <1>4, <1>5, <1>6 DEF Asks


-----------------------------------------------------------------------------
(* Requests and the tokens they bear *)

\* Only requests that can meet a 401 start a refresh or wait for one, and a
\* repeated request is sent with fresh cookies.
Fitting(c) ==
    /\ c.leg = "refresh" => c.at # "waiting" /\ ~c.retried /\ c.kind \notin {"login", "logout"}
    /\ c.kind \in {"login", "logout"} => c.at \in {"sent", "ok", "error"}
    /\ c.retried /\ c.at = "sent" => c.sent.fresh

\* The token was issued for the account.
Issued(r, a) == r \in Tokens /\ token[r].state # "unused" /\ token[r].account = a

\* The answer on its way signs in.
Signs(i) == Open(i) /\ call[i].at = "ok" /\ (call[i].leg = "refresh" \/ call[i].kind = "login")

\* Each tab has one refresh under way, and a refresh token goes with the access
\* token it was issued with.
Fits ==
    /\ \A i \in Calls : Open(i) => Fitting(call[i])
    /\ \A i \in Calls : Signs(i) => Issued(call[i].answer.refresh, call[i].answer.access)
    /\ jar.refresh # None => Issued(jar.refresh, jar.access)
    /\ \A i, j \in Calls : IsRefresh(i) /\ IsRefresh(j) /\ call[i].tab = call[j].tab => i = j

\* A token stays issued, and to whom.
TokensKept ==
    \A r \in Tokens : token[r].state # "unused" =>
        token'[r].state # "unused" /\ token'[r].account = token[r].account

\* Revoking takes no token back.
LEMMA RevokingKeeps ==
    ASSUME Inv, NEW a, token' = Revoked(a)
    PROVE  TokensKept
<1>1. ASSUME NEW r \in Tokens
      PROVE  /\ [token[r] EXCEPT !.state = "revoked"].state = "revoked"
             /\ [token[r] EXCEPT !.state = "revoked"].account = token[r].account
  BY DEF Inv, TypeOK
<1> QED BY <1>1 DEF Revoked, TokensKept

\* The API answers: what it issues, it issues with the access token.
LEMMA FitsServed ==
    ASSUME Inv, Fits, NEW i \in Calls, Open(i), NEW at \in {"ok", "refused", "error"}, NEW answer,
           Serve(i, at, answer), jar' = jar, TokensKept,
           call[i].kind \in {"login", "logout"} => at # "refused",
           at = "ok" /\ (call[i].leg = "refresh" \/ call[i].kind = "login") =>
               /\ answer.refresh \in Tokens /\ token'[answer.refresh].state # "unused"
               /\ token'[answer.refresh].account = answer.access
    PROVE  Fits'
<1>1. /\ Open(i)' /\ call'[i].at = at /\ call'[i].answer = answer
      /\ call'[i].kind = call[i].kind /\ call'[i].leg = call[i].leg /\ call'[i].tab = call[i].tab
      /\ call'[i].retried = call[i].retried
      /\ \A j \in Calls : j # i => call'[j] = call[j]
  BY ServeShape
<1>2. \A j \in Calls : Open(j)' => Fitting(call'[j])
  BY <1>1 DEF Fits, Fitting, Open
<1>3. \A j \in Calls : Signs(j)' => Issued(call[j].answer.refresh, call[j].answer.access)'
  BY <1>1 DEF Fits, Signs, Issued, TokensKept, Open
<1>4. (jar.refresh # None => Issued(jar.refresh, jar.access))'
  BY DEF Fits, Issued, TokensKept
<1>5. \A j, k \in Calls : IsRefresh(j)' /\ IsRefresh(k)' /\ call'[j].tab = call'[k].tab => j = k
  BY <1>1 DEF Fits, IsRefresh, Open
<1> QED BY <1>2, <1>3, <1>4, <1>5 DEF Fits

LEMMA FitsServing ==
    ASSUME Inv, Fits, NEW i \in Calls,
           ServeGuarded(i) \/ ServeLogin(i) \/ ServeLogout(i) \/ ServeAnonymize(i)
               \/ ServeRefresh(i) \/ Lose(i)
    PROVE  Fits' /\ TokensKept /\ UNCHANGED <<jar, tab>>
<1>0. token' = token => TokensKept
  BY DEF TokensKept
<1>1. CASE ServeGuarded(i)
  <2>1. Open(i) /\ call[i].leg = "request" /\ call[i].kind \in {"me", "page"}
    BY <1>1 DEF ServeGuarded, Is
  <2>2. \E answer : \E at \in {"ok", "refused"} : Serve(i, at, answer)
    BY <1>1 DEF ServeGuarded
  <2> QED BY <1>0, <1>1, <2>1, <2>2, FitsServed DEF ServeGuarded
<1>2. CASE ServeLogin(i)
  <2>1. Open(i) /\ UNCHANGED <<jar, tab>>
    BY <1>2 DEF ServeLogin, Is
  <2>2. PICK t \in Tokens, a \in Accounts \ erased :
            /\ token[t].state = "unused"
            /\ token' = [token EXCEPT ![t] = [account |-> a, state |-> "live"]]
            /\ Serve(i, "ok", [access |-> a, refresh |-> t])
    BY <1>2 DEF ServeLogin
  <2>3. TokensKept /\ token'[t].state # "unused" /\ token'[t].account = a
    BY <2>2 DEF TokensKept, Inv, TypeOK
  <2> DEFINE answer == [access |-> a, refresh |-> t]
  <2>4. answer.refresh = t /\ answer.access = a
    OBVIOUS
  <2> HIDE DEF answer
  <2> QED BY <2>1, <2>2, <2>3, <2>4, FitsServed DEF answer
<1>3. CASE ServeLogout(i)
  <2>1. Open(i) /\ call[i].leg = "request" /\ call[i].kind = "logout"
    BY <1>3 DEF ServeLogout, Is
  <2>2. Serve(i, "ok", NoAnswer) /\ TokensKept
    BY <1>3, RevokingKeeps DEF ServeLogout
  <2> QED BY <1>3, <2>1, <2>2, FitsServed DEF ServeLogout
<1>4. CASE ServeAnonymize(i)
  <2>1. Open(i) /\ call[i].leg = "request" /\ call[i].kind = "anonymize"
    BY <1>4 DEF ServeAnonymize, Is
  <2>2. TokensKept /\ \E at \in {"ok", "refused"} : Serve(i, at, NoAnswer)
    BY <1>0, <1>4, RevokingKeeps DEF ServeAnonymize
  <2> QED BY <1>4, <2>1, <2>2, FitsServed DEF ServeAnonymize
<1>5. CASE ServeRefresh(i)
  <2> DEFINE old == call[i].sent.refresh
  <2>1. /\ Open(i) /\ call[i].sent \in Cookies /\ UNCHANGED <<jar, tab>>
        /\ call[i].kind \notin {"login", "logout"}
    BY <1>5, Carried DEF ServeRefresh, IsRefresh, Fits, Fitting
  <2>2. CASE old # None /\ token[old].state = "live"
    <3>1. old \in Tokens
      BY <2>1, <2>2 DEF Cookies
    <3>2. PICK t \in Tokens :
              /\ token[t].state = "unused"
              /\ token' = [token EXCEPT ![old].state = "revoked",
                                        ![t] = [account |-> token[old].account, state |-> "live"]]
              /\ Serve(i, "ok", [access |-> token[old].account, refresh |-> t])
      BY <1>5, <2>2 DEF ServeRefresh
    <3> DEFINE answer == [access |-> token[old].account, refresh |-> t]
    <3>3. answer.refresh = t /\ answer.access = token[old].account
      OBVIOUS
    <3> HIDE DEF old
    <3>4. /\ token'[t].state # "unused" /\ token'[t].account = token[old].account
          /\ token'[old].state = "revoked" /\ token'[old].account = token[old].account
          /\ \A x \in Tokens \ {old, t} : token'[x] = token[x]
      BY <2>2, <3>1, <3>2 DEF Inv, TypeOK
    <3>5. TokensKept
      BY <3>2, <3>4 DEF TokensKept
    <3> HIDE DEF answer
    <3> QED BY <2>1, <3>2, <3>3, <3>4, <3>5, FitsServed DEF answer
  <2>3. CASE ~(old # None /\ token[old].state = "live")
    <3>1. Serve(i, "refused", NoAnswer) /\ (token' = token \/ token' = Revoked(token[old].account))
      BY <1>5, <2>3 DEF ServeRefresh
    <3>2. TokensKept
      BY <1>0, <3>1, RevokingKeeps
    <3> QED BY <2>1, <3>1, <3>2, FitsServed
  <2> QED BY <2>2, <2>3
<1>6. CASE Lose(i)
  BY <1>0, <1>6, FitsServed DEF Lose
<1> QED BY <1>1, <1>2, <1>3, <1>4, <1>5, <1>6

\* The refresh that a first 401 starts is the only one of its tab.
LEMMA FitsAwaiting ==
    ASSUME Inv, Fits, NEW i \in Calls, AwaitRefresh(i)
    PROVE  Fits'
<1>1. \A j \in Calls : Open(j)' => Fitting(call'[j])
  BY AwaitShape DEF Fits, Fitting, Open
<1>2. \A j \in Calls : Signs(j)' => Issued(call[j].answer.refresh, call[j].answer.access)'
  BY AwaitShape DEF Fits, Signs, Issued, Open
<1>3. (jar.refresh # None => Issued(jar.refresh, jar.access))'
  BY AwaitShape DEF Fits, Issued
<1>4. \A j, k \in Calls : IsRefresh(j)' /\ IsRefresh(k)' /\ call'[j].tab = call'[k].tab => j = k
  BY AwaitShape DEF Fits, IsRefresh, Open, Refreshing, Of
<1> QED BY <1>1, <1>2, <1>3, <1>4 DEF Fits

LEMMA FitsResuming ==
    ASSUME Inv, Fits, NEW i \in Calls, RefreshArrives(i)
    PROVE  Fits'
<1>1. ASSUME NEW j \in Calls, Resumes(i, j)
      PROVE  call[j].kind \notin {"login", "logout"}
  BY <1>1, ResumeShape DEF Resumes, Fits, Fitting, IsRefresh, Of
<1>2. \A j \in Calls : Open(j)' => Fitting(call'[j])
  BY <1>1, ResumeShape DEF Fits, Fitting, Open
<1>3. \A j \in Calls : Signs(j)' => Issued(call[j].answer.refresh, call[j].answer.access)'
  BY ResumeShape DEF Fits, Signs, Issued, Open
<1>4. (jar.refresh # None => Issued(jar.refresh, jar.access))'
  BY ResumeShape DEF Fits, Issued, Signs, SetCookies, IsRefresh
<1>5. \A j, k \in Calls : IsRefresh(j)' /\ IsRefresh(k)' /\ call'[j].tab = call'[k].tab => j = k
  BY ResumeShape DEF Fits, IsRefresh, Open
<1> QED BY <1>2, <1>3, <1>4, <1>5 DEF Fits

\* A final answer.
Arrives(i) == MeArrives(i) \/ PageArrives(i) \/ LoginArrives(i) \/ LogoutArrives(i) \/ AnonymizeArrives(i)

\* What it does to the cookies.
LEMMA ArriveCookies ==
    ASSUME NEW i \in Calls, Arrives(i)
    PROVE  \/ jar' = jar /\ ~(call[i].at = "ok" /\ call[i].kind \in {"login", "logout", "anonymize"})
           \/ jar' = SetCookies(call[i].answer) /\ call[i].kind = "login" /\ call[i].at = "ok"
           \/ jar' = NoCookies /\ call[i].kind \in {"logout", "anonymize"} /\ call[i].at = "ok"
BY DEF Arrives, MeArrives, PageArrives, LoginArrives, LogoutArrives, AnonymizeArrives, Is

LEMMA FitsArriving ==
    ASSUME Inv, Fits, NEW i \in Calls, Arrives(i)
    PROVE  Fits'
<1> USE DEF Arrives
<1>1. \A j \in Calls : Open(j)' => Fitting(call'[j])
  BY ArriveShape DEF Fits, Fitting, Alike
<1>2. \A j \in Calls : Signs(j)' => Issued(call[j].answer.refresh, call[j].answer.access)'
  BY ArriveShape DEF Fits, Signs, Issued, Alike
<1>3. (jar.refresh # None => Issued(jar.refresh, jar.access))'
  <2>1. CASE jar' = jar
    BY <2>1, ArriveShape DEF Fits, Issued
  <2>2. CASE jar' = SetCookies(call[i].answer) /\ call[i].kind = "login" /\ call[i].at = "ok"
    BY <2>2, ArriveShape DEF Fits, Issued, Signs, SetCookies
  <2>3. CASE jar' = NoCookies
    BY <2>3 DEF NoCookies
  <2> QED BY <2>1, <2>2, <2>3, ArriveCookies
<1>4. \A j, k \in Calls : IsRefresh(j)' /\ IsRefresh(k)' /\ call'[j].tab = call'[k].tab => j = k
  BY ArriveShape DEF Fits, IsRefresh, Alike
<1> QED BY <1>1, <1>2, <1>3, <1>4 DEF Fits

LEMMA FitsAsking ==
    ASSUME Inv, Fits, NEW t \in Tabs, Asks(t)
    PROVE  Fits'
<1>1. PICK i \in Calls, kind \in {"me", "page", "login", "logout", "anonymize"} : Asked(i, t, kind)
  BY AskShape
<1>2. UNCHANGED <<token, erased, jar>>
  BY AskShape
<1>3. \A j \in Calls : Open(j)' => Fitting(call'[j])
  BY <1>1 DEF Fits, Fitting, Alike, Asked
<1>4. \A j \in Calls : Signs(j)' => Issued(call[j].answer.refresh, call[j].answer.access)'
  BY <1>1, <1>2 DEF Fits, Signs, Issued, Alike, Asked
<1>5. (jar.refresh # None => Issued(jar.refresh, jar.access))'
  BY <1>2 DEF Fits, Issued
<1>6. \A j, k \in Calls : IsRefresh(j)' /\ IsRefresh(k)' /\ call'[j].tab = call'[k].tab => j = k
  BY <1>1 DEF Fits, IsRefresh, Alike, Asked
<1> QED BY <1>3, <1>4, <1>5, <1>6 DEF Fits

\* Time passes, or nothing happens.
LEMMA FitsResting ==
    ASSUME Inv, Fits, AccessExpires \/ UNCHANGED vars
    PROVE  Fits'
<1>1. /\ UNCHANGED <<token, call>>
      /\ jar'.refresh = jar.refresh /\ jar'.access = jar.access
  BY DEF AccessExpires, vars, Inv, TypeOK
<1> QED BY <1>1 DEF Fits, Fitting, Signs, Issued, IsRefresh, Open

LEMMA FitsStepping ==
    ASSUME Inv, Fits, [Next]_vars
    PROVE  Fits'
BY FitsServing, FitsAwaiting, FitsResuming, FitsArriving, FitsAsking, FitsResting DEF Next, Arrives, Asks

LEMMA FitsInitially ==
    ASSUME Init
    PROVE  Fits
<1>1. \A i \in Calls : ~Open(i)
  BY DEF Init, Free, Open
<1>2. jar.refresh # None => Issued(jar.refresh, jar.access)
  BY DEF Init, Issued, NoCookies
<1> QED BY <1>1, <1>2 DEF Fits, Signs, IsRefresh


-----------------------------------------------------------------------------
(* No refresh token is taken for reused *)

Live(r) == r \in Tokens /\ token[r].state = "live"

\* The answer on its way replaces the cookies or takes them away: their token
\* may be revoked.
Ends(i) == Open(i) /\ call[i].at = "ok" /\ (IsRefresh(i) \/ call[i].kind \in {"logout", "anonymize"})

\* One request that changes the tokens at a time, and every token that a tab
\* may still present is live.
Calm ==
    /\ \A i, j \in Calls : ChangesTokens(i) /\ ChangesTokens(j) => i = j
    /\ jar.refresh # None => Live(jar.refresh) \/ \E i \in Calls : Ends(i)
    /\ \A i \in Calls : Signs(i) => Live(call[i].answer.refresh)
    /\ \A i \in Calls : IsRefresh(i) /\ call[i].at = "sent" /\ call[i].sent.refresh # None =>
            Live(call[i].sent.refresh)

\* Without an overlap, one request changes the tokens at a time.
LEMMA Alone ==
    ASSUME Fits', ~Overlap'
    PROVE  \A i, j \in Calls : ChangesTokens(i)' /\ ChangesTokens(j)' => i = j
BY DEF Fits, Overlap

\* A request that the API answers, when it leaves the tokens alone.
LEMMA CalmUnchanged ==
    ASSUME Inv, Fits, Fits', Calm, ~Overlap', NEW i \in Calls, Open(i),
           NEW at \in {"ok", "refused", "error"}, NEW answer, Serve(i, at, answer),
           UNCHANGED <<token, jar>>, ~Ends(i),
           at = "ok" => call[i].leg = "request" /\ call[i].kind # "login"
    PROVE  Calm'
<1>1. /\ Open(i)' /\ call'[i].at = at
      /\ call'[i].kind = call[i].kind /\ call'[i].leg = call[i].leg
      /\ \A j \in Calls : j # i => call'[j] = call[j]
  BY ServeShape
<1>2. \A j \in Calls : Ends(j) => Ends(j)'
  BY <1>1 DEF Ends, Open, IsRefresh
<1>3. (jar.refresh # None => Live(jar.refresh) \/ \E j \in Calls : Ends(j))'
  BY <1>2 DEF Calm, Live
<1>4. \A j \in Calls : Signs(j)' => Live(call[j].answer.refresh)'
  BY <1>1 DEF Calm, Signs, Live, Open
<1>5. \A j \in Calls : (IsRefresh(j) /\ call[j].at = "sent" /\ call[j].sent.refresh # None =>
            Live(call[j].sent.refresh))'
  BY <1>1 DEF Calm, IsRefresh, Live, Open
<1> QED BY <1>3, <1>4, <1>5, Alone DEF Calm

\* A request alone in changing the tokens is answered.
LEMMA CalmChanged ==
    ASSUME Inv, Fits, Fits', Calm, ~Overlap', NEW i \in Calls, ChangesTokens(i), call[i].at = "sent",
           NEW answer, Serve(i, "ok", answer), UNCHANGED jar,
           Ends(i)' \/ (jar.refresh # None => token'[jar.refresh] = token[jar.refresh]),
           call[i].leg = "refresh" \/ call[i].kind = "login" =>
               answer.refresh \in Tokens /\ token'[answer.refresh].state = "live"
    PROVE  Calm'
<1>1. /\ Open(i) /\ Open(i)' /\ call'[i].at = "ok" /\ call'[i].answer = answer
      /\ call'[i].kind = call[i].kind /\ call'[i].leg = call[i].leg
      /\ \A j \in Calls : j # i => call'[j] = call[j]
  BY ServeShape DEF ChangesTokens, IsRefresh
<1>2. \A j \in Calls : j # i => ~ChangesTokens(j) /\ ~Ends(j) /\ ~Signs(j) /\ ~IsRefresh(j)
  BY DEF Calm, ChangesTokens, Ends, Signs, IsRefresh
<1>3. (jar.refresh # None => Live(jar.refresh) \/ \E j \in Calls : Ends(j))'
  <2>1. ~Ends(i)
    BY DEF Ends
  <2>2. jar.refresh # None => Live(jar.refresh)
    BY <1>2, <2>1 DEF Calm
  <2> QED BY <2>2 DEF Live
<1>4. \A j \in Calls : Signs(j)' => Live(call[j].answer.refresh)'
  BY <1>1, <1>2 DEF Signs, Live, Open
<1>5. \A j \in Calls : (IsRefresh(j) /\ call[j].at = "sent" /\ call[j].sent.refresh # None =>
            Live(call[j].sent.refresh))'
  BY <1>1, <1>2 DEF IsRefresh, Open
<1> QED BY <1>3, <1>4, <1>5, Alone DEF Calm

LEMMA CalmServing ==
    ASSUME Inv, Fits, Fits', Calm, ~Overlap', ~LosesAnswer, NEW i \in Calls,
           ServeGuarded(i) \/ ServeLogin(i) \/ ServeLogout(i) \/ ServeAnonymize(i)
               \/ ServeRefresh(i) \/ Lose(i)
    PROVE  Calm'
<1>1. CASE ServeGuarded(i)
  <2>1. /\ Open(i) /\ call[i].leg = "request" /\ call[i].kind \in {"me", "page"}
        /\ UNCHANGED <<token, jar>>
    BY <1>1 DEF ServeGuarded, Is
  <2>2. ~Ends(i)
    BY <2>1 DEF Ends, IsRefresh
  <2>3. \E answer : \E at \in {"ok", "refused"} : Serve(i, at, answer)
    BY <1>1 DEF ServeGuarded
  <2> QED BY <2>1, <2>2, <2>3, CalmUnchanged
<1>2. CASE ServeLogin(i)
  <2>1. Open(i) /\ call[i].kind = "login" /\ call[i].at = "sent" /\ UNCHANGED jar
    BY <1>2 DEF ServeLogin, Is
  <2>2. PICK t \in Tokens, a \in Accounts \ erased :
            /\ token[t].state = "unused"
            /\ token' = [token EXCEPT ![t] = [account |-> a, state |-> "live"]]
            /\ Serve(i, "ok", [access |-> a, refresh |-> t])
    BY <1>2 DEF ServeLogin
  <2>3. ChangesTokens(i)
    BY <2>1 DEF ChangesTokens
  <2>4. /\ token'[t].state = "live"
        /\ jar.refresh # None => token'[jar.refresh] = token[jar.refresh]
    BY <2>2 DEF Inv, TypeOK, Fits, Issued
  <2> DEFINE answer == [access |-> a, refresh |-> t]
  <2>5. answer.refresh = t
    OBVIOUS
  <2> HIDE DEF answer
  <2> QED BY <2>1, <2>2, <2>3, <2>4, <2>5, CalmChanged DEF answer
<1>3. CASE ServeLogout(i)
  <2>1. /\ Open(i) /\ call[i].leg = "request" /\ call[i].kind = "logout" /\ call[i].at = "sent"
        /\ UNCHANGED jar /\ Serve(i, "ok", NoAnswer)
    BY <1>3 DEF ServeLogout, Is
  <2>2. ChangesTokens(i) /\ Ends(i)'
    BY <2>1, ServeShape DEF ChangesTokens, Ends
  <2> QED BY <2>1, <2>2, CalmChanged
<1>4. CASE ServeAnonymize(i)
  <2>1. /\ Open(i) /\ call[i].leg = "request" /\ call[i].kind = "anonymize" /\ call[i].at = "sent"
        /\ UNCHANGED jar
    BY <1>4 DEF ServeAnonymize, Is
  <2>2. CASE call[i].sent.fresh
    <3>1. Serve(i, "ok", NoAnswer)
      BY <1>4, <2>2 DEF ServeAnonymize
    <3>2. ChangesTokens(i) /\ Ends(i)'
      BY <2>1, <3>1, ServeShape DEF ChangesTokens, Ends
    <3> QED BY <2>1, <3>1, <3>2, CalmChanged
  <2>3. CASE ~call[i].sent.fresh
    <3>1. Serve(i, "refused", NoAnswer) /\ UNCHANGED token
      BY <1>4, <2>3 DEF ServeAnonymize
    <3> QED BY <2>1, <3>1, CalmUnchanged DEF Ends
  <2> QED BY <2>2, <2>3
<1>5. CASE ServeRefresh(i)
  <2> DEFINE old == call[i].sent.refresh
  <2>1. /\ IsRefresh(i) /\ Open(i) /\ call[i].at = "sent" /\ UNCHANGED jar
        /\ call[i].kind \notin {"login", "logout"}
    BY <1>5 DEF ServeRefresh, IsRefresh, Fits, Fitting
  <2>2. CASE old # None
    <3>1. old \in Tokens /\ token[old].state = "live"
      BY <2>1, <2>2 DEF Calm, Live
    <3>2. PICK t \in Tokens :
              /\ token[t].state = "unused"
              /\ token' = [token EXCEPT ![old].state = "revoked",
                                        ![t] = [account |-> token[old].account, state |-> "live"]]
              /\ Serve(i, "ok", [access |-> token[old].account, refresh |-> t])
      BY <1>5, <2>2, <3>1 DEF ServeRefresh
    <3> DEFINE answer == [access |-> token[old].account, refresh |-> t]
    <3>3. answer.refresh = t
      OBVIOUS
    <3> HIDE DEF old
    <3>4. token'[t].state = "live"
      BY <3>1, <3>2 DEF Inv, TypeOK
    <3>5. ChangesTokens(i) /\ Ends(i)'
      BY <2>1, <3>2, ServeShape DEF ChangesTokens, Ends, IsRefresh
    <3> HIDE DEF answer
    <3> QED BY <2>1, <3>2, <3>3, <3>4, <3>5, CalmChanged DEF answer
  <2>3. CASE old = None
    <3>1. Serve(i, "refused", NoAnswer) /\ UNCHANGED token
      BY <1>5, <2>3 DEF ServeRefresh
    <3> QED BY <2>1, <3>1, CalmUnchanged DEF Ends
  <2> QED BY <2>2, <2>3
<1>6. CASE Lose(i)
  <2>1. /\ Open(i) /\ call[i].at \in {"sent", "ok"} /\ UNCHANGED <<token, jar>>
        /\ Serve(i, "error", NoAnswer)
    BY <1>6 DEF Lose
  <2>2. ~Ends(i)
    BY <2>1, ServeShape DEF Ends, LosesAnswer, ChangesTokens
  <2> QED BY <2>1, <2>2, CalmUnchanged
<1> QED BY <1>1, <1>2, <1>3, <1>4, <1>5, <1>6

\* A refresh starts alone, with the live token of the cookies.
LEMMA CalmAwaiting ==
    ASSUME Inv, Fits, Fits', Calm, ~Overlap', NEW i \in Calls, AwaitRefresh(i)
    PROVE  Calm'
<1>1. \A j \in Calls : Ends(j) => Ends(j)' /\ ChangesTokens(j)'
  BY AwaitShape DEF Ends, IsRefresh, Open, ChangesTokens
<1>2. (jar.refresh # None => Live(jar.refresh) \/ \E j \in Calls : Ends(j))'
  BY <1>1, AwaitShape DEF Calm, Live
<1>3. \A j \in Calls : Signs(j)' => Live(call[j].answer.refresh)'
  BY AwaitShape DEF Calm, Signs, Live, Open
<1>4. ASSUME NEW j \in Calls, IsRefresh(j)', call'[j].at = "sent", call'[j].sent.refresh # None
      PROVE  Live(call[j].sent.refresh)'
  <2>1. CASE j # i
    BY <1>4, <2>1, AwaitShape DEF Calm, IsRefresh, Live, Open
  <2>2. CASE j = i
    <3>1. call'[i].sent.refresh = jar.refresh /\ ChangesTokens(i)'
      BY <1>4, <2>2, AwaitShape DEF NoCookies, IsRefresh, ChangesTokens
    <3>2. \A k \in Calls : ~Ends(k)
      BY <1>1, <3>1, Alone, AwaitShape DEF Ends
    <3> QED BY <1>4, <2>2, <3>1, <3>2, AwaitShape DEF Calm, Live
  <2> QED BY <2>1, <2>2
<1> QED BY <1>2, <1>3, <1>4, Alone DEF Calm

LEMMA CalmResuming ==
    ASSUME Inv, Fits, Fits', Calm, ~Overlap', NEW i \in Calls, RefreshArrives(i)
    PROVE  Calm'
<1>1. (jar.refresh # None => Live(jar.refresh) \/ \E j \in Calls : Ends(j))'
  <2>1. CASE call[i].at = "ok"
    BY <2>1, ResumeShape DEF Calm, Live, Signs, SetCookies, IsRefresh
  <2>2. CASE call[i].at # "ok"
    <3>1. jar' = jar /\ UNCHANGED token
      BY <2>2, ResumeShape
    <3>2. \A j \in Calls : Ends(j) => ~Resumes(i, j)
      BY <2>2 DEF Ends, Resumes
    <3>3. \A j \in Calls : Ends(j) => Ends(j)'
      BY <3>2, ResumeShape DEF Ends, IsRefresh, Open
    <3> QED BY <3>1, <3>3 DEF Calm, Live
  <2> QED BY <2>1, <2>2
<1>2. \A j \in Calls : Signs(j)' => Live(call[j].answer.refresh)'
  BY ResumeShape DEF Calm, Signs, Live, Open
<1>3. \A j \in Calls : (IsRefresh(j) /\ call[j].at = "sent" /\ call[j].sent.refresh # None =>
            Live(call[j].sent.refresh))'
  BY ResumeShape DEF Calm, IsRefresh, Live, Open
<1> QED BY <1>1, <1>2, <1>3, Alone DEF Calm

LEMMA CalmArriving ==
    ASSUME Inv, Fits, Fits', Calm, ~Overlap', NEW i \in Calls, Arrives(i)
    PROVE  Calm'
<1> USE DEF Arrives
<1>1. (jar.refresh # None => Live(jar.refresh) \/ \E j \in Calls : Ends(j))'
  <2>1. CASE jar' = jar /\ ~(call[i].at = "ok" /\ call[i].kind \in {"login", "logout", "anonymize"})
    <3>1. ~Ends(i)
      BY <2>1, ArriveShape DEF Ends, IsRefresh
    <3>2. \A j \in Calls : Ends(j) => Ends(j)'
      BY <3>1, ArriveShape DEF Ends, IsRefresh, Alike
    <3> QED BY <2>1, <3>2, ArriveShape DEF Calm, Live
  <2>2. CASE jar' = SetCookies(call[i].answer) /\ call[i].kind = "login" /\ call[i].at = "ok"
    BY <2>2, ArriveShape DEF Calm, Live, Signs, SetCookies
  <2>3. CASE jar' = NoCookies
    BY <2>3 DEF NoCookies
  <2> QED BY <2>1, <2>2, <2>3, ArriveCookies
<1>2. \A j \in Calls : Signs(j)' => Live(call[j].answer.refresh)'
  BY ArriveShape DEF Calm, Signs, Live, Alike
<1>3. \A j \in Calls : (IsRefresh(j) /\ call[j].at = "sent" /\ call[j].sent.refresh # None =>
            Live(call[j].sent.refresh))'
  BY ArriveShape DEF Calm, IsRefresh, Live, Alike
<1> QED BY <1>1, <1>2, <1>3, Alone DEF Calm

LEMMA CalmAsking ==
    ASSUME Inv, Fits, Fits', Calm, ~Overlap', NEW t \in Tabs, Asks(t)
    PROVE  Calm'
<1>1. PICK i \in Calls, kind \in {"me", "page", "login", "logout", "anonymize"} : Asked(i, t, kind)
  BY AskShape
<1>2. UNCHANGED <<token, erased, jar>>
  BY AskShape
<1>3. \A j \in Calls : Ends(j) => Ends(j)'
  BY <1>1 DEF Ends, Asked, Alike, IsRefresh
<1>4. (jar.refresh # None => Live(jar.refresh) \/ \E j \in Calls : Ends(j))'
  BY <1>2, <1>3 DEF Calm, Live
<1>5. \A j \in Calls : Signs(j)' => Live(call[j].answer.refresh)'
  BY <1>1, <1>2 DEF Calm, Signs, Live, Alike, Asked
<1>6. \A j \in Calls : (IsRefresh(j) /\ call[j].at = "sent" /\ call[j].sent.refresh # None =>
            Live(call[j].sent.refresh))'
  BY <1>1, <1>2 DEF Calm, IsRefresh, Live, Alike, Asked
<1> QED BY <1>4, <1>5, <1>6, Alone DEF Calm

LEMMA CalmResting ==
    ASSUME Inv, Calm, AccessExpires \/ UNCHANGED vars
    PROVE  Calm'
<1>1. UNCHANGED <<token, call>> /\ jar'.refresh = jar.refresh
  BY DEF AccessExpires, vars, Inv, TypeOK
<1> QED BY <1>1 DEF Calm, ChangesTokens, Signs, Live, IsRefresh, Open, Ends

QInv == Inv /\ Fits /\ (~suspect => Calm /\ ~reused)

\* client.ts:99-103, refreshInFlight: the browser never makes the API take a
\* refresh token for stolen, unless requests that change the tokens overlap in
\* other ways than two refreshes of one tab, or the answer to one of them is
\* lost: then every token that a tab may present is live.
THEOREM NoFalseReuseHolds == HSpec => []NoFalseReuse
<1>1. HInit => QInv
  <2> SUFFICES ASSUME HInit PROVE QInv
    OBVIOUS
  <2>1. \A i \in Calls : ~Open(i)
    BY DEF HInit, Init, Free, Open
  <2>2. jar.refresh # None => Live(jar.refresh)
    BY DEF HInit, Init, Live, NoCookies
  <2>3. Calm
    BY <2>1, <2>2 DEF Calm, ChangesTokens, Signs, IsRefresh
  <2> QED BY <2>3, Initially, FitsInitially DEF HInit, QInv
<1>2. QInv /\ [HNext]_hvars => QInv'
  <2> SUFFICES ASSUME QInv, [HNext]_hvars PROVE QInv'
    OBVIOUS
  <2>1. CASE UNCHANGED hvars
    BY <2>1, Stuttering, FitsResting, CalmResting DEF QInv, hvars
  <2>2. CASE HNext
    <3>1. Inv' /\ Fits'
      BY <2>2, Stepping, FitsStepping DEF QInv, HNext
    <3>2. ASSUME ~suspect'
          PROVE  Calm' /\ ~reused'
      <4>1. ~suspect /\ ~Overlap' /\ ~LosesAnswer /\ Calm /\ ~reused
        BY <2>2, <3>2 DEF HNext, QInv
      <4>2. Calm'
        BY <2>2, <3>1, <4>1, CalmServing, CalmAwaiting, CalmResuming, CalmArriving, CalmAsking, CalmResting
        DEF HNext, Next, QInv, Arrives, Asks
      <4>3. ~\E i \in Calls :
                /\ IsRefresh(i) /\ call[i].at = "sent" /\ call'[i].at = "refused"
                /\ call[i].sent.refresh # None /\ token[call[i].sent.refresh].state = "revoked"
        BY <4>1 DEF Calm, Live
      <4> QED BY <2>2, <4>1, <4>2, <4>3 DEF HNext
    <3> QED BY <3>1, <3>2 DEF QInv
  <2> QED BY <2>1, <2>2
<1>3. QInv => NoFalseReuse
  BY DEF QInv, NoFalseReuse
<1> QED BY <1>1, <1>2, <1>3, PTL DEF HSpec


-----------------------------------------------------------------------------
(* What a tab shows *)

\* An answer to /auth/me that will be shown.
Counts(i) == call[i].kind = "me" /\ call[i].valid

\* Nothing of the tab's was lost, its refresh renews the session of the
\* cookies, and the answer that it will show is about the account of the
\* cookies.
Sincere(i) ==
    /\ call[i].at # "error"
    /\ IsRefresh(i) =>
        /\ call[i].at \in {"sent", "ok"}
        /\ call[i].at = "sent" => call[i].sent.refresh = jar.refresh
        /\ call[i].at = "ok" => call[i].answer.access = jar.access
    /\ Counts(i) /\ call[i].leg = "request" =>
        /\ call[i].at = "sent" => call[i].sent.access = jar.access
        /\ call[i].at = "ok" => call[i].answer.access = jar.access
        /\ call[i].at = "refused" /\ call[i].retried =>
               call[i].answer.access = None /\ jar.access \in erased \union {None}

\* A tab that does not show the account of its cookies waits for an answer
\* that will correct it.
Corrected(t) == tab[t].open /\ ~Agree(t) => \E i \in Of(t) : Counts(i) \/ call[i].kind = "logout"

Smooth(t) == ~Entangled(t) /\ (\A i \in Of(t) : Sincere(i)) /\ Corrected(t)

\* The API answers a request, of this tab or of another one.
LEMMA SmoothServed ==
    ASSUME Inv, NEW t \in Tabs, Smooth(t), ~Entangled(t)', NEW i \in Calls, Open(i), NEW at, NEW answer,
           Serve(i, at, answer), UNCHANGED <<erased, jar, tab>>, call[i].tab = t => Sincere(i)'
    PROVE  Smooth(t)'
<1>1. /\ Open(i)' /\ call'[i].kind = call[i].kind /\ call'[i].tab = call[i].tab
      /\ call'[i].valid = call[i].valid
      /\ \A j \in Calls : j # i => call'[j] = call[j]
  BY ServeShape
<1>2. \A j \in Of(t)' : j \in Of(t) /\ Sincere(j)'
  BY <1>1 DEF Of, Open, Smooth, Sincere, IsRefresh, Counts
<1>3. \A j \in Of(t) : /\ j \in Of(t)' /\ call'[j].kind = call[j].kind
                       /\ Counts(j) => Counts(j)'
  BY <1>1 DEF Of, Open, Counts
<1>4. Corrected(t)'
  BY <1>3 DEF Smooth, Corrected, Agree
<1> QED BY <1>2, <1>4 DEF Smooth

LEMMA SmoothServing ==
    ASSUME Inv, Fits, NEW t \in Tabs, Smooth(t), ~Elsewhere(t), ~Fails(t), ~Entangled(t)', NEW i \in Calls,
           ServeGuarded(i) \/ ServeLogin(i) \/ ServeLogout(i) \/ ServeAnonymize(i)
               \/ ServeRefresh(i) \/ Lose(i)
    PROVE  Smooth(t)'
<1>1. UNCHANGED <<erased, jar, tab>>
  BY FitsServing DEF Elsewhere
<1>2. Open(i)
  BY DEF ServeGuarded, ServeLogin, ServeLogout, ServeAnonymize, ServeRefresh, Lose, Is, IsRefresh
<1>3. call[i].tab = t => i \in Of(t) /\ Sincere(i)
  BY <1>2 DEF Smooth, Of
<1>4. CASE ServeGuarded(i)
  <2>1. Is(i, {"me", "page"}) /\ call[i].leg = "request" /\ call[i].at = "sent"
    BY <1>4 DEF ServeGuarded, Is
  <2>2. CASE call[i].sent.fresh /\ call[i].sent.access \notin erased
    <3> DEFINE answer == IF call[i].kind = "me" THEN [NoAnswer EXCEPT !.access = call[i].sent.access]
                         ELSE NoAnswer
    <3>1. Serve(i, "ok", answer)
      BY <1>4, <2>2 DEF ServeGuarded
    <3>2. call[i].kind = "me" => answer.access = call[i].sent.access
      BY DEF NoAnswer
    <3> HIDE DEF answer
    <3>3. call[i].tab = t => Sincere(i)'
      BY <1>1, <1>2, <1>3, <2>1, <3>1, <3>2, ServeShape DEF Sincere, IsRefresh, Counts
    <3> QED BY <1>1, <1>2, <3>1, <3>3, SmoothServed
  <2>3. CASE ~(call[i].sent.fresh /\ call[i].sent.access \notin erased)
    <3>1. Serve(i, "refused", NoAnswer)
      BY <1>4, <2>3 DEF ServeGuarded
    <3>2. call[i].retried => call[i].sent.access \in erased
      BY <1>2, <2>1, <2>3 DEF Fits, Fitting
    <3>3. NoAnswer.access = None
      BY DEF NoAnswer
    <3>4. call[i].tab = t => Sincere(i)'
      BY <1>1, <1>2, <1>3, <2>1, <3>1, <3>2, <3>3, ServeShape DEF Sincere, IsRefresh, Counts
    <3> QED BY <1>1, <1>2, <3>1, <3>4, SmoothServed
  <2> QED BY <2>2, <2>3
<1>5. CASE ServeLogin(i) \/ ServeLogout(i) \/ ServeAnonymize(i)
  <2>1. /\ call[i].leg = "request" /\ call[i].kind # "me"
        /\ \E answer : \E at \in {"ok", "refused"} : Serve(i, at, answer)
    BY <1>5 DEF ServeLogin, ServeLogout, ServeAnonymize, Is
  <2>2. Sincere(i)'
    BY <1>2, <2>1, ServeShape DEF Sincere, IsRefresh, Counts
  <2> QED BY <1>1, <1>2, <2>1, <2>2, SmoothServed
<1>6. CASE ServeRefresh(i)
  <2> DEFINE old == call[i].sent.refresh
  <2>1. IsRefresh(i) /\ call[i].at = "sent" /\ call[i].sent \in Cookies
    BY <1>6, Carried DEF ServeRefresh, IsRefresh
  <2>2. CASE old # None /\ token[old].state = "live"
    <3>1. PICK x \in Tokens : Serve(i, "ok", [access |-> token[old].account, refresh |-> x])
      BY <1>6, <2>2 DEF ServeRefresh
    <3> DEFINE answer == [access |-> token[old].account, refresh |-> x]
    <3>2. answer.access = token[old].account
      OBVIOUS
    <3>3. call[i].tab = t => answer.access = jar.access
      BY <1>3, <2>1, <2>2, <3>2 DEF Sincere, Fits, Issued
    <3> HIDE DEF answer, old
    <3>4. Serve(i, "ok", answer)
      BY <3>1 DEF answer
    <3>5. call[i].tab = t => Sincere(i)'
      BY <1>1, <1>2, <2>1, <3>3, <3>4, ServeShape DEF Sincere, IsRefresh
    <3> QED BY <1>1, <1>2, <3>4, <3>5, SmoothServed
  <2>3. CASE ~(old # None /\ token[old].state = "live")
    <3>1. Serve(i, "refused", NoAnswer)
      BY <1>6, <2>3 DEF ServeRefresh
    <3>2. call[i].tab # t
      BY <1>2, <2>1, <3>1, ServeShape DEF Fails, Of
    <3> QED BY <1>1, <1>2, <3>1, <3>2, SmoothServed
  <2> QED BY <2>2, <2>3
<1>7. CASE Lose(i)
  <2>1. Serve(i, "error", NoAnswer) /\ call[i].at # "error"
    BY <1>7 DEF Lose
  <2>2. call[i].tab # t
    BY <1>2, <2>1, ServeShape DEF Fails, Of
  <2> QED BY <1>1, <1>2, <2>1, <2>2, SmoothServed
<1> QED BY <1>4, <1>5, <1>6, <1>7

LEMMA SmoothAwaiting ==
    ASSUME Inv, NEW t \in Tabs, Smooth(t), ~Elsewhere(t), ~Entangled(t)', NEW i \in Calls, AwaitRefresh(i)
    PROVE  Smooth(t)'
<1>1. \A j \in Of(t)' : j \in Of(t) /\ Sincere(j)'
  BY AwaitShape DEF Of, Open, Smooth, Sincere, IsRefresh, Counts, NoCookies
<1>2. \A j \in Of(t) : /\ j \in Of(t)' /\ call'[j].kind = call[j].kind
                       /\ Counts(j) => Counts(j)'
  BY AwaitShape DEF Of, Open, Counts
<1>3. Corrected(t)'
  BY <1>2, AwaitShape DEF Smooth, Corrected, Agree
<1> QED BY <1>1, <1>3 DEF Smooth

LEMMA SmoothResuming ==
    ASSUME Inv, Fits, NEW t \in Tabs, Smooth(t), ~Elsewhere(t), ~Entangled(t)', NEW i \in Calls,
           RefreshArrives(i)
    PROVE  Smooth(t)'
<1>0. IsRefresh(i) /\ Open(i) /\ UNCHANGED <<token, erased, tab>>
  BY ResumeShape DEF IsRefresh
<1>1. \A j \in Of(t) : /\ j \in Of(t)' /\ call'[j].kind = call[j].kind
                       /\ Counts(j) => Counts(j)'
  BY ResumeShape DEF Of, Open, Counts
<1>2. \A j \in Of(t)' : j \in Of(t)
  BY ResumeShape DEF Of, Open
<1>3. jar'.access = jar.access
  <2>1. CASE call[i].tab = t
    <3>1. Sincere(i)
      BY <1>0, <2>1 DEF Smooth, Of
    <3> QED BY <1>0, <3>1, ResumeShape DEF Sincere, SetCookies
  <2>2. CASE call[i].tab # t
    <3>1. call'[i] # call[i]
      BY <1>0, ResumeShape DEF Resumes, IsRefresh
    <3> QED BY <1>0, <2>2, <3>1 DEF Elsewhere
  <2> QED BY <2>1, <2>2
<1>4. \A j \in Of(t)' : Sincere(j)'
  <2>1. CASE call[i].tab = t
    <3>1. call[i].at = "ok" /\ jar'.access = call[i].answer.access
      BY <1>0, <2>1, ResumeShape DEF Smooth, Of, Sincere, SetCookies
    <3>2. ASSUME NEW j \in Of(t)', Resumes(i, j)
          PROVE  Sincere(j)'
      BY <3>1, <3>2, ResumeShape DEF Sincere, IsRefresh, Counts, Of
    <3>3. ASSUME NEW j \in Of(t)', ~Resumes(i, j)
          PROVE  Sincere(j)'
      <4>1. j \in Calls /\ call'[j] = call[j] /\ Sincere(j)
        BY <1>2, <3>3, ResumeShape DEF Smooth, Of
      <4>2. ~IsRefresh(j)
        BY <1>0, <1>2, <2>1, <3>3 DEF Fits, Resumes, Of
      <4> QED BY <1>0, <1>3, <4>1, <4>2 DEF Sincere, IsRefresh, Counts, Open
    <3> QED BY <3>2, <3>3
  <2>2. CASE call[i].tab # t
    <3>1. call'[i] # call[i]
      BY <1>0, ResumeShape DEF Resumes, IsRefresh
    <3>2. jar' = jar
      BY <1>0, <2>2, <3>1 DEF Elsewhere
    <3>3. \A j \in Of(t) : call'[j] = call[j]
      BY <2>2, ResumeShape DEF Of
    <3> QED BY <1>0, <1>2, <3>2, <3>3 DEF Smooth, Sincere, IsRefresh, Counts, Open
  <2> QED BY <2>1, <2>2
<1>5. Corrected(t)'
  BY <1>0, <1>1, <1>3 DEF Smooth, Corrected, Agree
<1> QED BY <1>4, <1>5 DEF Smooth

\* What a final answer does to the tabs.
LEMMA ArriveShows ==
    ASSUME Inv, NEW i \in Calls, Arrives(i)
    PROVE  LET t == call[i].tab IN
           /\ \A x \in Tabs : x # t => tab'[x] = tab[x]
           /\ call[i].at = "refused" /\ call[i].kind = "me" => call[i].retried
           /\ call[i].kind = "me" /\ call[i].valid => tab'[t].user = call[i].answer.access
           /\ \/ call[i].kind = "me" /\ ~call[i].valid
              \/ call[i].kind = "page"
              \/ call[i].kind \in {"login", "anonymize"} /\ call[i].at # "ok"
              => tab' = tab /\ \A j \in Calls : j # i => call'[j] = call[j]
           /\ call[i].kind = "login" /\ call[i].at = "ok" => tab'[t].user = call[i].answer.access
           /\ call[i].kind = "logout" => tab'[t].user = None
           /\ call[i].kind = "anonymize" /\ call[i].at = "ok" => tab'[t].user = None
           /\ call[i].kind \in {"login", "anonymize"} /\ call[i].at = "ok" =>
                \A j \in Of(t) : j # i /\ call[j].kind = "me" => ~call'[j].valid
<1> DEFINE t == call[i].tab
<1>0. t \in Tabs
  BY Slots DEF Arrives, MeArrives, PageArrives, LoginArrives, LogoutArrives, AnonymizeArrives, Is, Inv, Call
<1>1. \A u : /\ \A x \in Tabs : x # t => Show(t, u)[x] = tab[x]
             /\ Show(t, u)[t].user = u
  BY <1>0 DEF Show, Inv, TypeOK
<1>2. \A j \in Calls : j # i => Freed(i)[j] = call[j]
  BY DEF Freed, Inv, TypeOK
<1>3. CASE MeArrives(i)
  <2>1. call[i].kind = "me" /\ (call[i].at = "refused" => call[i].retried)
    BY <1>3 DEF MeArrives, Is, Final
  <2>2. call' = Freed(i) /\ tab' = IF call[i].valid THEN Show(t, call[i].answer.access) ELSE tab
    BY <1>3 DEF MeArrives
  <2> QED BY <1>1, <1>2, <2>1, <2>2
<1>4. CASE PageArrives(i)
  <2>1. call[i].kind = "page" /\ call' = Freed(i) /\ tab' = tab
    BY <1>4 DEF PageArrives, Is
  <2> QED BY <1>2, <2>1
<1>5. CASE LogoutArrives(i)
  <2>1. call[i].kind = "logout" /\ tab' = Show(t, None)
    BY <1>5 DEF LogoutArrives, Is
  <2> QED BY <1>1, <2>1
<1>6. CASE LoginArrives(i) \/ AnonymizeArrives(i)
  <2>1. call[i].kind \in {"login", "anonymize"}
    BY <1>6 DEF LoginArrives, AnonymizeArrives, Is
  <2>2. CASE call[i].at # "ok"
    <3>1. call' = Freed(i) /\ tab' = tab
      BY <1>6, <2>2 DEF LoginArrives, AnonymizeArrives
    <3> QED BY <1>2, <2>1, <2>2, <3>1
  <2>3. CASE call[i].at = "ok"
    <3>1. /\ call' = Bumped(Freed(i), t)
          /\ call[i].kind = "login" => tab' = Show(t, call[i].answer.access)
          /\ call[i].kind = "anonymize" => tab' = Show(t, None)
      BY <1>6, <2>3 DEF LoginArrives, AnonymizeArrives, Is
    <3>2. ASSUME NEW j \in Of(t), j # i, call[j].kind = "me"
          PROVE  ~call'[j].valid
      <4>1. j \in Calls /\ call[j] \in Call
        BY <3>2, Slots DEF Of, Inv
      <4>2. [call[j] EXCEPT !.valid = FALSE].valid = FALSE
        BY <4>1 DEF Call
      <4>3. call'[j] = [call[j] EXCEPT !.valid = FALSE]
        BY <1>2, <3>1, <3>2, <4>1 DEF Bumped
      <4> QED BY <4>2, <4>3
    <3>3. tab' = Show(t, call[i].answer.access) \/ tab' = Show(t, None)
      BY <2>1, <3>1
    <3> QED BY <1>1, <2>1, <2>3, <3>1, <3>2, <3>3
  <2> QED BY <2>2, <2>3
<1> QED BY <1>3, <1>4, <1>5, <1>6 DEF Arrives

\* An answer to another tab.
LEMMA SmoothElsewhere ==
    ASSUME Inv, NEW t \in Tabs, Smooth(t), ~Elsewhere(t), ~Entangled(t)', NEW i \in Calls,
           Arrives(i), call[i].tab # t
    PROVE  Smooth(t)'
<1> USE DEF Arrives
<1>1. Open(i) /\ call'[i] # call[i]
  BY ArriveShape
<1>2. UNCHANGED <<erased, jar>>
  BY <1>1, ArriveShape DEF Elsewhere
<1>3. tab'[t] = tab[t]
  BY ArriveShows
<1>4. \A j \in Of(t) : j \in Of(t)' /\ call'[j] = call[j]
  BY ArriveShape DEF Of
<1>5. \A j \in Of(t)' : j \in Of(t)
  BY ArriveShape DEF Of, Alike
<1>6. \A j \in Of(t)' : Sincere(j)'
  BY <1>2, <1>4, <1>5 DEF Smooth, Sincere, IsRefresh, Counts, Open
<1>7. Corrected(t)'
  BY <1>2, <1>3, <1>4 DEF Smooth, Corrected, Agree, Counts
<1> QED BY <1>6, <1>7 DEF Smooth

\* An answer to this tab.
LEMMA SmoothArriving ==
    ASSUME Inv, Fits, NEW t \in Tabs, Smooth(t), ~Entangled(t)', NEW i \in Calls,
           Arrives(i), call[i].tab = t
    PROVE  Smooth(t)'
<1> USE DEF Arrives
<1>1. /\ Open(i) /\ call[i].leg = "request" /\ Sincere(i) /\ i \in Of(t)
      /\ call[i].kind \in {"me", "page", "login", "logout", "anonymize"}
      /\ UNCHANGED erased
  BY ArriveShape, Slots DEF Smooth, Of, Inv, Call
<1>2. \A j \in Of(t)' : /\ j \in Calls /\ j # i /\ j \in Of(t) /\ Open(j) /\ Open(j)'
                        /\ Alike(call[j], call'[j]) /\ (call'[j].valid => call[j].valid)
  BY ArriveShape DEF Of, Alike
<1>3. call[i].kind \in {"login", "logout"} => call[i].at = "ok"
  BY <1>1, ArriveShape DEF Fits, Fitting, Sincere
<1>4. CASE jar' = jar /\ ~(call[i].at = "ok" /\ call[i].kind \in {"login", "logout", "anonymize"})
  <2>1. \A j \in Of(t)' : Sincere(j)'
    BY <1>1, <1>2, <1>4 DEF Smooth, Sincere, IsRefresh, Counts, Alike
  <2>2. Corrected(t)'
    <3>1. CASE call[i].kind = "me" /\ call[i].valid
      <4>1. tab'[t].user = call[i].answer.access
        BY <3>1, ArriveShows
      <4>2. \/ call[i].answer.access = jar.access
            \/ call[i].answer.access = None /\ jar.access \in erased \union {None}
        BY <1>1, <3>1, ArriveShape, ArriveShows DEF Sincere, Counts
      <4> QED BY <1>1, <1>4, <4>1, <4>2 DEF Corrected, Agree
    <3>2. CASE ~(call[i].kind = "me" /\ call[i].valid)
      <4>1. tab' = tab /\ \A j \in Calls : j # i => call'[j] = call[j]
        BY <1>1, <1>3, <1>4, <3>2, ArriveShows
      <4>2. \A j \in Of(t) : j # i => j \in Of(t)' /\ call'[j] = call[j]
        BY <4>1, ArriveShape DEF Of
      <4>3. ~Counts(i) /\ call[i].kind # "logout"
        BY <1>3, <1>4, <3>2 DEF Counts
      <4> QED BY <1>1, <1>4, <4>1, <4>2, <4>3 DEF Smooth, Corrected, Agree, Counts
    <3> QED BY <3>1, <3>2
  <2> QED BY <2>1, <2>2 DEF Smooth
<1>5. CASE call[i].at = "ok" /\ call[i].kind \in {"login", "logout", "anonymize"}
  <2>1. \A j \in Of(t) : j # i => ~ChangesTokens(j)
    BY <1>1, <1>5 DEF Smooth, Entangled
  <2>2. \A j \in Of(t)' : ~Counts(j)'
    <3>1. CASE call[i].kind = "logout"
      BY <1>1, <1>2, <3>1 DEF Smooth, Entangled, Counts, Alike
    <3>2. CASE call[i].kind # "logout"
      BY <1>2, <1>5, <3>2, ArriveShows DEF Counts, Alike
    <3> QED BY <3>1, <3>2
  <2>3. \A j \in Of(t)' : Sincere(j)'
    <3>1. \A j \in Of(t)' : ~IsRefresh(j)' /\ call'[j].at # "error"
      BY <1>2, <2>1 DEF ChangesTokens, IsRefresh, Alike, Smooth, Sincere
    <3> QED BY <2>2, <3>1 DEF Sincere
  <2>4. Agree(t)'
    <3>1. CASE call[i].kind = "login"
      <4>1. jar'.access = call[i].answer.access /\ tab'[t].user = call[i].answer.access
        BY <1>5, <3>1, ArriveCookies, ArriveShows DEF SetCookies
      <4>2. call[i].answer.access # None
        BY <1>1, <1>5, <3>1 DEF Inv, Signed
      <4> QED BY <4>1, <4>2 DEF Agree
    <3>2. CASE call[i].kind # "login"
      <4>1. jar'.access = None /\ tab'[t].user = None
        BY <1>5, <3>2, ArriveCookies, ArriveShows DEF NoCookies
      <4> QED BY <4>1 DEF Agree
    <3> QED BY <3>1, <3>2
  <2> QED BY <2>3, <2>4 DEF Smooth, Corrected
<1> QED BY <1>4, <1>5, ArriveCookies

LEMMA SmoothAsking ==
    ASSUME Inv, NEW t \in Tabs, Smooth(t), ~Entangled(t)', NEW x \in Tabs, Asks(x)
    PROVE  Smooth(t)'
<1>1. UNCHANGED <<token, erased, jar>>
  BY AskShape
<1>2. PICK i \in Calls :
        \/ Asked(i, x, "me") /\ (RefreshUser(x) \/ Mount(x))
        \/ Asked(i, x, "logout") /\ SubmitLogout(x)
        \/ /\ \E kind \in {"page", "login", "anonymize"} : Asked(i, x, kind)
           /\ OpenPage(x) \/ SubmitLogin(x) \/ SubmitAnonymize(x)
           /\ \A j \in Calls : j # i => call'[j] = call[j]
  BY AskShape
<1>3. PICK kind \in {"me", "page", "login", "logout", "anonymize"} : Asked(i, x, kind)
  BY <1>2
<1>4. ASSUME NEW j \in Of(t)'
      PROVE  Sincere(j)'
  <2>1. CASE j = i
    BY <1>1, <1>3, <2>1 DEF Asked, Sincere, IsRefresh
  <2>2. CASE j # i
    <3>1. j \in Of(t) /\ Sincere(j) /\ Open(j) /\ Alike(call[j], call'[j]) /\ (call'[j].valid => call[j].valid)
      BY <1>3, <1>4, <2>2 DEF Asked, Of, Alike, Smooth
    <3> QED BY <1>1, <3>1 DEF Sincere, IsRefresh, Counts, Alike
  <2> QED BY <2>1, <2>2
<1>5. Corrected(t)'
  <2>1. CASE x # t
    <3>1. tab'[t] = tab[t]
      BY <2>1 DEF Asks, RefreshUser, OpenPage, SubmitLogin, SubmitLogout, SubmitAnonymize, Mount, Inv, TypeOK
    <3>2. \A j \in Of(t) : j \in Of(t)' /\ call'[j] = call[j]
      BY <1>3, <2>1 DEF Asked, Of
    <3> QED BY <1>1, <3>1, <3>2 DEF Smooth, Corrected, Agree, Counts
  <2>2. CASE x = t
    <3>1. CASE Asked(i, x, "me") \/ Asked(i, x, "logout")
      BY <2>2, <3>1 DEF Asked, Corrected, Of, Counts
    <3>2. CASE ~(Asked(i, x, "me") \/ Asked(i, x, "logout"))
      <4>1. tab' = tab /\ \A j \in Calls : j # i => call'[j] = call[j]
        BY <1>2, <3>2 DEF OpenPage, SubmitLogin, SubmitAnonymize
      <4>2. \A j \in Of(t) : j \in Of(t)' /\ call'[j] = call[j]
        BY <1>3, <4>1 DEF Asked, Of
      <4> QED BY <1>1, <4>1, <4>2 DEF Smooth, Corrected, Agree, Counts
    <3> QED BY <3>1, <3>2
  <2> QED BY <2>1, <2>2
<1> QED BY <1>4, <1>5 DEF Smooth

LEMMA SmoothResting ==
    ASSUME Inv, NEW t \in Tabs, Smooth(t), AccessExpires \/ UNCHANGED vars
    PROVE  Smooth(t)'
<1>1. /\ UNCHANGED <<token, erased, tab, call>>
      /\ jar'.refresh = jar.refresh /\ jar'.access = jar.access
  BY DEF AccessExpires, vars, Inv, TypeOK
<1> QED BY <1>1 DEF Smooth, Entangled, ChangesTokens, Sincere, Corrected, Agree, Of, IsRefresh, Open, Counts

SInv == Inv /\ Fits /\ \A t \in Tabs : ~disturbed[t] => Smooth(t)

\* versionRef: a tab that waits for nothing shows the account of its cookies,
\* and nobody only when there are none, unless another tab changed them, an
\* answer of the tab was lost, its refresh was refused, or a refresh or a
\* logout was overtaken: until then each answer that still counts is about the
\* account of the cookies, and one is under way while the tab shows another.
THEOREM ShownMatchesCookiesHolds == HSpec => []ShownMatchesCookies
<1>1. HInit => SInv
  <2> SUFFICES ASSUME HInit PROVE SInv
    OBVIOUS
  <2>1. \A i \in Calls : ~Open(i)
    BY DEF HInit, Init, Free, Open
  <2>2. \A t \in Tabs : ~tab[t].open
    BY DEF HInit, Init
  <2>3. \A t \in Tabs : Smooth(t)
    BY <2>1, <2>2 DEF Smooth, Entangled, Corrected, Of
  <2> QED BY <2>3, Initially, FitsInitially DEF HInit, SInv
<1>2. SInv /\ [HNext]_hvars => SInv'
  <2> SUFFICES ASSUME SInv, [HNext]_hvars PROVE SInv'
    OBVIOUS
  <2>1. CASE UNCHANGED hvars
    BY <2>1, Stuttering, FitsResting, SmoothResting DEF SInv, hvars
  <2>2. CASE HNext
    <3>1. Inv' /\ Fits'
      BY <2>2, Stepping, FitsStepping DEF SInv, HNext
    <3>2. ASSUME NEW t \in Tabs, ~disturbed'[t]
          PROVE  Smooth(t)'
      <4>1. disturbed'[t] = IF AtRest(t)' /\ Agree(t)' THEN FALSE
                            ELSE disturbed[t] \/ Elsewhere(t) \/ Fails(t) \/ Entangled(t)'
        BY <2>2 DEF HNext
      <4>2. CASE AtRest(t)' /\ Agree(t)'
        BY <4>2 DEF AtRest, Smooth, Entangled, Corrected
      <4>3. CASE ~(AtRest(t)' /\ Agree(t)')
        <5>1. ~disturbed[t] /\ ~Elsewhere(t) /\ ~Fails(t) /\ ~Entangled(t)'
          BY <3>2, <4>1, <4>3
        <5>2. Smooth(t)
          BY <5>1 DEF SInv
        <5> QED BY <2>2, <5>1, <5>2, SmoothServing, SmoothAwaiting, SmoothResuming, SmoothElsewhere,
                   SmoothArriving, SmoothAsking, SmoothResting
            DEF HNext, Next, SInv, Arrives, Asks
      <4> QED BY <4>2, <4>3
    <3> QED BY <3>1, <3>2 DEF SInv
  <2> QED BY <2>1, <2>2
<1>3. SInv => ShownMatchesCookies
  BY DEF SInv, ShownMatchesCookies, Smooth, Corrected, AtRest
<1> QED BY <1>1, <1>2, <1>3, PTL DEF HSpec
=============================================================================
