------------------------------- MODULE Sessions -------------------------------
(***************************************************************************)
(* Accounts and their sessions: AuthService of apps/api, with the part of  *)
(* OrdersService.createOrder that stores personal data.                    *)
(*                                                                         *)
(* As everywhere in the API, a handler reads, decides and writes at        *)
(* different awaits.  No write looks again at what the decision was read   *)
(* from, and only the two transactions (reset, anonymisation) are atomic.  *)
(***************************************************************************)
EXTENDS Naturals

CONSTANTS
    Users,      \* ids an account may get
    Emails,     \* addresses people register with
    Tokens,     \* refresh tokens the API may issue
    Handlers,   \* how many requests the API can have in flight at once
    MaxHashes,  \* how many password hashes an account may have in its life
    NoUser, NoEmail, NoToken

ASSUME SessionsAssumption ==
    /\ NoUser \notin Users /\ NoEmail \notin Emails /\ NoToken \notin Tokens
    /\ MaxHashes \in Nat

VARIABLES
    email,      \* email[u]: User.email; NoEmail before the account exists, or
                \* the placeholder of an anonymised one
    hash,       \* hash[u]: User.passwordHash, numbered; 0 before the account exists
    anonymized, \* anonymized[u]: User.anonymizedAt is set
    address,    \* address[u]: some order of u has a deliveryAddress
    token,      \* token[t]: the RefreshToken row of t
    links,      \* links[u]: hashes for which u holds a password reset link
    request     \* request[h]: the request in flight in handler h

vars == <<email, hash, anonymized, address, token, links, request>>

-----------------------------------------------------------------------------

\* usable: somebody holds the token and its seven days are not over.  A lost
\* answer leaves a row nobody can present, and so does an expired token: its
\* signature is refused before the database is asked.
Token == [user: Users \union {NoUser}, revoked: BOOLEAN, usable: BOOLEAN]

NoRow == [user |-> NoUser, revoked |-> FALSE, usable |-> FALSE]

Points == {"idle", "register", "reuse", "user", "revoke", "issue", "mail",
           "reset", "anonymize", "order"}

Request == [at: Points,
            user: Users \union {NoUser},
            email: Emails \union {NoEmail},
            token: Tokens \union {NoToken},
            hash: 0..MaxHashes]

Idle == [at |-> "idle", user |-> NoUser, email |-> NoEmail, token |-> NoToken, hash |-> 0]

TypeOK ==
    /\ email \in [Users -> Emails \union {NoEmail}]
    /\ hash \in [Users -> 0..MaxHashes]
    /\ anonymized \in [Users -> BOOLEAN]
    /\ address \in [Users -> BOOLEAN]
    /\ token \in [Tokens -> Token]
    /\ links \in [Users -> SUBSET (1..MaxHashes)]
    /\ request \in [Handlers -> Request]

Init ==
    /\ email = [u \in Users |-> NoEmail]
    /\ hash = [u \in Users |-> 0]
    /\ anonymized = [u \in Users |-> FALSE]
    /\ address = [u \in Users |-> FALSE]
    /\ token = [t \in Tokens |-> NoRow]
    /\ links = [u \in Users |-> {}]
    /\ request = [h \in Handlers |-> Idle]

Exists(u) == hash[u] > 0

\* The guard of every operation on an account found by its id.
Active(u) == Exists(u) /\ ~anonymized[u]

\* A row that a refresh would still accept.
Live(t) == token[t].user # NoUser /\ ~token[t].revoked

Accept(h, r) ==
    /\ request[h] = Idle
    /\ request' = [request EXCEPT ![h] = r]

Goto(h, p) == request' = [request EXCEPT ![h].at = p]

Return(h) == request' = [request EXCEPT ![h] = Idle]

\* refreshToken.updateMany({ userId, revokedAt: null }): every session of u.
RevokeAll(u) ==
    token' = [t \in Tokens |-> IF token[t].user = u THEN [token[t] EXCEPT !.revoked = TRUE]
                               ELSE token[t]]

\* bcrypt.hash: a salt of its own makes every hash a new one.
Rehash(u) ==
    /\ hash[u] < MaxHashes
    /\ hash' = [hash EXCEPT ![u] = @ + 1]

-----------------------------------------------------------------------------
(* register, login *)

RegisterRead(h, e) ==
    /\ \A u \in Users : email[u] # e
    /\ Accept(h, [Idle EXCEPT !.at = "register", !.email = e])
    /\ UNCHANGED <<email, hash, anonymized, address, token, links>>

\* email is unique in the table: the second of two overlapping registrations
\* is refused by the database.
RegisterCreate(h, u) ==
    /\ request[h].at = "register"
    /\ \A v \in Users : email[v] # request[h].email
    /\ ~Exists(u)
    /\ Rehash(u)
    /\ email' = [email EXCEPT ![u] = request[h].email]
    /\ request' = [request EXCEPT ![h] = [Idle EXCEPT !.at = "issue", !.user = u]]
    /\ UNCHANGED <<anonymized, address, token, links>>

\* The right password of the account found by its address: the wrong one
\* changes nothing.
LoginRead(h, u) ==
    /\ email[u] # NoEmail
    /\ Active(u)
    /\ Accept(h, [Idle EXCEPT !.at = "issue", !.user = u])
    /\ UNCHANGED <<email, hash, anonymized, address, token, links>>

-----------------------------------------------------------------------------
(* issueTokenPair, the end of register, login and refresh *)

\* The row of a new token; received says whether the answer with the cookies
\* arrives.
Issue(h, t, received) ==
    /\ request[h].at = "issue"
    /\ token[t] = NoRow
    /\ token' = [token EXCEPT ![t] =
                    [user |-> request[h].user, revoked |-> FALSE, usable |-> received]]
    /\ Return(h)
    /\ UNCHANGED <<email, hash, anonymized, address, links>>

-----------------------------------------------------------------------------
(* refresh *)

\* Whoever holds a token presents it, the browser or anybody with a copy; a
\* revoked one is reuse.
RefreshRead(h, t) ==
    /\ token[t].usable
    /\ Accept(h, [Idle EXCEPT !.at = IF token[t].revoked THEN "reuse" ELSE "user",
                              !.token = t, !.user = token[t].user])
    /\ UNCHANGED <<email, hash, anonymized, address, token, links>>

RefreshReuse(h) ==
    /\ request[h].at = "reuse"
    /\ RevokeAll(request[h].user)
    /\ Return(h)
    /\ UNCHANGED <<email, hash, anonymized, address, links>>

\* The account is not looked at.
FaultyRefreshUser(h) ==
    /\ request[h].at = "user"
    /\ Goto(h, "revoke")
    /\ UNCHANGED <<email, hash, anonymized, address, token, links>>

RefreshUser(h) ==
    /\ request[h].at = "user"
    /\ IF Active(request[h].user) THEN Goto(h, "revoke") ELSE Return(h)
    /\ UNCHANGED <<email, hash, anonymized, address, token, links>>

\* The token presented stays good.
FaultyRefreshRevoke(h) ==
    /\ request[h].at = "revoke"
    /\ Goto(h, "issue")
    /\ UNCHANGED <<email, hash, anonymized, address, token, links>>

RefreshRevoke(h) ==
    /\ request[h].at = "revoke"
    /\ token' = [token EXCEPT ![request[h].token].revoked = TRUE]
    /\ Goto(h, "issue")
    /\ UNCHANGED <<email, hash, anonymized, address, links>>

-----------------------------------------------------------------------------
(* revokeSessionsFromAccessToken (logout) *)

\* The access token, expired or not, names an account that was issued one.
Logout(h, u) ==
    /\ request[h] = Idle
    /\ \E t \in Tokens : token[t].user = u
    /\ RevokeAll(u)
    /\ UNCHANGED <<email, hash, anonymized, address, links, request>>

-----------------------------------------------------------------------------
(* forgotPassword, resetPassword *)

ForgotRead(h, u) ==
    /\ email[u] # NoEmail
    /\ Active(u)
    /\ Accept(h, [Idle EXCEPT !.at = "mail", !.user = u, !.hash = hash[u]])
    /\ UNCHANGED <<email, hash, anonymized, address, token, links>>

\* The link's signature depends on the hash read.
ForgotMail(h) ==
    /\ request[h].at = "mail"
    /\ links' = [links EXCEPT ![request[h].user] = @ \union {request[h].hash}]
    /\ Return(h)
    /\ UNCHANGED <<email, hash, anonymized, address, token>>

\* A link is good as long as the hash it was made from is the account's.
ResetRead(h, u) ==
    /\ Active(u)
    /\ hash[u] \in links[u]
    /\ Accept(h, [Idle EXCEPT !.at = "reset", !.user = u, !.hash = hash[u]])
    /\ UNCHANGED <<email, hash, anonymized, address, token, links>>

\* The new password with the old sessions.
FaultyResetCommit(h) ==
    /\ request[h].at = "reset"
    /\ Rehash(request[h].user)
    /\ Return(h)
    /\ UNCHANGED <<email, anonymized, address, token, links>>

ResetCommit(h) ==
    /\ request[h].at = "reset"
    /\ Rehash(request[h].user)
    /\ RevokeAll(request[h].user)
    /\ Return(h)
    /\ UNCHANGED <<email, anonymized, address, links>>

-----------------------------------------------------------------------------
(* anonymizeAccount, and createOrder *)

\* Only a holder of an access token asks for it.
AnonymizeRead(h, u) ==
    /\ Active(u)
    /\ \E t \in Tokens : token[t].user = u
    /\ Accept(h, [Idle EXCEPT !.at = "anonymize", !.user = u])
    /\ UNCHANGED <<email, hash, anonymized, address, token, links>>

\* The orders forgotten.
FaultyAnonymizeCommit(h) ==
    /\ request[h].at = "anonymize"
    /\ LET u == request[h].user IN
       /\ email' = [email EXCEPT ![u] = NoEmail]
       /\ anonymized' = [anonymized EXCEPT ![u] = TRUE]
       /\ Rehash(u)
       /\ RevokeAll(u)
    /\ Return(h)
    /\ UNCHANGED <<address, links>>

AnonymizeCommit(h) ==
    /\ request[h].at = "anonymize"
    /\ LET u == request[h].user IN
       /\ email' = [email EXCEPT ![u] = NoEmail]
       /\ anonymized' = [anonymized EXCEPT ![u] = TRUE]
       /\ Rehash(u)
       /\ RevokeAll(u)
       /\ address' = [address EXCEPT ![u] = FALSE]
    /\ Return(h)
    /\ UNCHANGED links

\* createOrder with a delivery address: the account is read first, the order
\* is stored after the call to the payment gateway.
OrderRead(h, u) ==
    /\ Active(u)
    /\ \E t \in Tokens : token[t].user = u
    /\ Accept(h, [Idle EXCEPT !.at = "order", !.user = u])
    /\ UNCHANGED <<email, hash, anonymized, address, token, links>>

OrderCommit(h) ==
    /\ request[h].at = "order"
    /\ address' = [address EXCEPT ![request[h].user] = TRUE]
    /\ Return(h)
    /\ UNCHANGED <<email, hash, anonymized, token, links>>

-----------------------------------------------------------------------------
(* Failures and the clock *)

\* An await of the handler rejects.
Throw(h) ==
    /\ request[h].at # "idle"
    /\ Return(h)
    /\ UNCHANGED <<email, hash, anonymized, address, token, links>>

Restart ==
    /\ request # [h \in Handlers |-> Idle]
    /\ request' = [h \in Handlers |-> Idle]
    /\ UNCHANGED <<email, hash, anonymized, address, token, links>>

TokenLapses(t) ==
    /\ token[t].usable
    /\ token' = [token EXCEPT ![t].usable = FALSE]
    /\ UNCHANGED <<email, hash, anonymized, address, links, request>>

\* Thirty minutes after the e-mail.
LinkLapses(u, p) ==
    /\ p \in links[u]
    /\ links' = [links EXCEPT ![u] = @ \ {p}]
    /\ UNCHANGED <<email, hash, anonymized, address, token, request>>

-----------------------------------------------------------------------------

Api(h) ==
    \/ \E e \in Emails : RegisterRead(h, e)
    \/ \E u \in Users :
        \/ RegisterCreate(h, u)
        \/ LoginRead(h, u)
        \/ Logout(h, u)
        \/ ForgotRead(h, u)
        \/ ResetRead(h, u)
        \/ AnonymizeRead(h, u)
        \/ OrderRead(h, u)
    \/ \E t \in Tokens, received \in BOOLEAN : Issue(h, t, received)
    \/ \E t \in Tokens : RefreshRead(h, t)
    \/ RefreshReuse(h) \/ RefreshUser(h) \/ RefreshRevoke(h)
    \/ ForgotMail(h) \/ ResetCommit(h)
    \/ AnonymizeCommit(h) \/ OrderCommit(h)
    \/ Throw(h)

Next ==
    \/ \E h \in Handlers : Api(h)
    \/ Restart
    \/ \E t \in Tokens : TokenLapses(t)
    \/ \E u \in Users, p \in 1..MaxHashes : LinkLapses(u, p)

Spec == Init /\ [][Next]_vars

-----------------------------------------------------------------------------
(* What holds whatever the interleaving *)

\* No request in flight got past the checks on account u before it was
\* anonymised.
Settled(u) ==
    /\ anonymized[u]
    /\ \A h \in Handlers :
        request[h].at \in {"revoke", "issue", "order"} => request[h].user # u

\* LGPD, the right to be forgotten: once an account is anonymised and the
\* requests that were under way have ended, it stays so for good.  Nobody
\* opens a session of it any more, with a token, a password or a link, and no
\* order of it gets an address.
ForgottenForGood ==
    [][\A u \in Users : Settled(u) =>
        /\ Settled(u)'
        /\ \A t \in Tokens : token'[t].user = u => token[t].user = u
        /\ address'[u] => address[u]]_vars

-----------------------------------------------------------------------------
(* What an anonymised account leaves *)

Forgotten(u) == ~address[u] /\ \A t \in Tokens : Live(t) => token[t].user # u
=============================================================================
