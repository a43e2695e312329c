--------------------------- MODULE SessionsOverlaps ---------------------------
(***************************************************************************)
(* Sessions with history variables: where each token comes from, and the   *)
(* accounts that had two requests in flight at once.  For all others the   *)
(* sessions are what CONTRATO-SESSAO.md says, through lost answers, errors *)
(* and restarts at any point.                                              *)
(***************************************************************************)
EXTENDS Sessions

VARIABLES
    origin,     \* origin[t]: the token of the login t descends from, and the
                \* password hash of the account at that login
    raced       \* accounts that had two requests in flight at once

hvars == <<vars, origin, raced>>

Overlapping ==
    {u \in Users : \E h1, h2 \in Handlers :
        h1 # h2 /\ request[h1].user = u /\ request[h2].user = u}

\* The origin of a token issued by handler h.
OriginOf(h, t) ==
    IF request[h].token = NoToken
    THEN [login |-> t, hash |-> hash[request[h].user]]
    ELSE origin[request[h].token]

HInit ==
    /\ Init
    /\ origin = [t \in Tokens |-> [login |-> t, hash |-> 0]]
    /\ raced = {}

HNext ==
    /\ Next
    /\ raced' = raced \union Overlapping'
    /\ origin' = [t \in Tokens |->
            IF token[t] = NoRow /\ token'[t] # NoRow
            THEN OriginOf(CHOOSE h \in Handlers :
                            request[h].at = "issue" /\ request'[h] = Idle, t)
            ELSE origin[t]]

HSpec == HInit /\ [][HNext]_hvars

\* The sessions a refresh would still accept.
Alive(u) == {t \in Tokens : Live(t) /\ token[t].user = u}

\* Rotation: a login has one live token at most, whoever presents which of its
\* tokens, and whatever answer got lost.
OneSessionPerLogin ==
    \A u \in Users \ raced : \A t1, t2 \in Alive(u) :
        origin[t1].login = origin[t2].login => t1 = t2

\* A new password ends the sessions of the old one, rotated or not.
PasswordEndsSessions ==
    \A u \in Users \ raced : \A t \in Alive(u) : origin[t].hash = hash[u]

\* LGPD: nothing is left of an anonymised account, neither a session nor the
\* address of an order.
AnonymizedLeavesNothing ==
    \A u \in Users \ raced : anonymized[u] => Forgotten(u)
=============================================================================
