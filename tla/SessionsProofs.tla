---------------------------- MODULE SessionsProofs ----------------------------
(***************************************************************************)
(* Proofs about Sessions and SessionsOverlaps, for any accounts, tokens    *)
(* and number of overlapping requests.                                     *)
(***************************************************************************)
EXTENDS SessionsOverlaps, TLAPS

\* What the next await of a handler in flight needs is in its request.
Known(r) ==
    /\ r.at \notin {"idle", "register"} => r.user \in Users
    /\ r.at = "register" => r.email \in Emails
    /\ r.at \in {"user", "revoke"} => r.token \in Tokens
    /\ r.at = "mail" => r.hash \in 1..MaxHashes

\* A token somebody holds has its row.
RowsNamed == \A t \in Tokens : token[t].usable => token[t].user \in Users

AnonymizedExist == \A u \in Users : anonymized[u] => Exists(u)

IInv ==
    /\ TypeOK
    /\ RowsNamed
    /\ AnonymizedExist
    /\ \A h \in Handlers : Known(request[h])

LEMMA IdleType == Idle \in Request /\ Known(Idle)
BY SessionsAssumption DEF Idle, Request, Points, Known

LEMMA InitIInv == Init => IInv
<1> SUFFICES ASSUME Init PROVE IInv
  OBVIOUS
<1>1. NoRow \in Token /\ ~NoRow.usable
  BY DEF NoRow, Token
<1>2. TypeOK
  BY <1>1, IdleType, SessionsAssumption DEF Init, TypeOK
<1>3. RowsNamed /\ AnonymizedExist
  BY <1>1 DEF Init, RowsNamed, AnonymizedExist
<1>4. \A h \in Handlers : Known(request[h])
  BY IdleType DEF Init
<1> QED BY <1>2, <1>3, <1>4 DEF IInv

-----------------------------------------------------------------------------
(* The helpers of the model *)

\* The request of handler h becomes r; every other handler waits.
LEMMA OnlyRequest ==
    ASSUME IInv, NEW h \in Handlers, NEW r \in Request, Known(r),
           request' = [request EXCEPT ![h] = r]
    PROVE  /\ request' \in [Handlers -> Request]
           /\ \A g \in Handlers : Known(request'[g])
<1>1. request'[h] = r /\ \A g \in Handlers \ {h} : request'[g] = request[g]
  BY DEF IInv, TypeOK
<1> QED BY <1>1 DEF IInv, TypeOK

LEMMA ReturnStep ==
    ASSUME IInv, NEW h \in Handlers, Return(h)
    PROVE  /\ request' \in [Handlers -> Request]
           /\ \A g \in Handlers : Known(request'[g])
BY IdleType, OnlyRequest DEF Return

LEMMA GotoStep ==
    ASSUME IInv, NEW h \in Handlers, NEW p \in {"revoke", "issue"}, Goto(h, p),
           request[h].at \in {"user", "revoke"}
    PROVE  /\ request' \in [Handlers -> Request]
           /\ \A g \in Handlers : Known(request'[g])
<1> DEFINE r == [request[h] EXCEPT !.at = p]
<1>1. request[h] \in Request /\ Known(request[h])
  BY DEF IInv, TypeOK
<1>2. r \in Request /\ Known(r)
  BY <1>1 DEF Request, Points, Known
<1>3. request' = [request EXCEPT ![h] = r]
  BY DEF Goto
<1> HIDE DEF r
<1> QED BY <1>2, <1>3, OnlyRequest

\* Revoking tokens changes neither whose they are nor who holds them.
LEMMA RevokeAllKeeps ==
    ASSUME IInv, NEW u \in Users, RevokeAll(u)
    PROVE  /\ token' \in [Tokens -> Token]
           /\ RowsNamed'
           /\ \A t \in Tokens : token'[t].user = token[t].user
<1>1. \A t \in Tokens : token[t] \in Token
  BY DEF IInv, TypeOK
<1>2. \A t \in Tokens :
        /\ token'[t] \in Token
        /\ token'[t].user = token[t].user
        /\ token'[t].usable = token[t].usable
  BY <1>1 DEF RevokeAll, Token
<1>3. token' \in [Tokens -> Token]
  BY <1>2 DEF RevokeAll
<1> QED BY <1>2, <1>3 DEF IInv, RowsNamed

LEMMA RehashKeeps ==
    ASSUME IInv, NEW u \in Users, Rehash(u)
    PROVE  /\ hash' \in [Users -> 0..MaxHashes]
           /\ hash'[u] > 0
           /\ \A v \in Users : Exists(v) => Exists(v)'
BY SessionsAssumption DEF IInv, TypeOK, Rehash, Exists

-----------------------------------------------------------------------------
(* The invariant *)

\* A request accepted by a handler, with nothing written.
LEMMA AcceptStep ==
    ASSUME IInv, NEW h \in Handlers, NEW r \in Request, Known(r), Accept(h, r),
           UNCHANGED <<email, hash, anonymized, address, token, links>>
    PROVE  IInv'
<1>1. request' \in [Handlers -> Request] /\ \A g \in Handlers : Known(request'[g])
  BY OnlyRequest DEF Accept
<1> QED BY <1>1 DEF IInv, TypeOK, RowsNamed, AnonymizedExist, Exists

LEMMA ApiIInv == ASSUME IInv, NEW h \in Handlers, Api(h) PROVE IInv'
<1> USE SessionsAssumption
<1>0. request[h] \in Request /\ Known(request[h])
  BY DEF IInv, TypeOK
<1>1. ASSUME NEW e \in Emails, RegisterRead(h, e) PROVE IInv'
  <2> DEFINE r == [Idle EXCEPT !.at = "register", !.email = e]
  <2>1. r \in Request /\ Known(r)
    BY IdleType DEF Request, Points, Known
  <2> HIDE DEF r
  <2> QED BY <1>1, <2>1, AcceptStep DEF RegisterRead, r
<1>2. ASSUME NEW u \in Users, RegisterCreate(h, u) PROVE IInv'
  <2> DEFINE r == [Idle EXCEPT !.at = "issue", !.user = u]
  <2>1. r \in Request /\ Known(r)
    BY IdleType DEF Request, Points, Known
  <2>2. request' = [request EXCEPT ![h] = r]
    BY <1>2 DEF RegisterCreate
  <2> HIDE DEF r
  <2>3. request' \in [Handlers -> Request] /\ \A g \in Handlers : Known(request'[g])
    BY <2>1, <2>2, OnlyRequest
  <2>4. email' \in [Users -> Emails \union {NoEmail}]
    BY <1>0, <1>2 DEF RegisterCreate, IInv, TypeOK, Known
  <2>5. Rehash(u)
    BY <1>2 DEF RegisterCreate
  <2> QED BY <1>2, <2>3, <2>4, <2>5, RehashKeeps
          DEF RegisterCreate, IInv, TypeOK, RowsNamed, AnonymizedExist
<1>3. ASSUME NEW u \in Users, LoginRead(h, u) PROVE IInv'
  <2> DEFINE r == [Idle EXCEPT !.at = "issue", !.user = u]
  <2>1. r \in Request /\ Known(r)
    BY IdleType DEF Request, Points, Known
  <2> HIDE DEF r
  <2> QED BY <1>3, <2>1, AcceptStep DEF LoginRead, r
<1>4. ASSUME NEW u \in Users, Logout(h, u) PROVE IInv'
  BY <1>4, RevokeAllKeeps DEF Logout, IInv, TypeOK, AnonymizedExist, Exists
<1>5. ASSUME NEW u \in Users, ForgotRead(h, u) PROVE IInv'
  <2> DEFINE r == [Idle EXCEPT !.at = "mail", !.user = u, !.hash = hash[u]]
  <2>1. hash[u] \in 1..MaxHashes /\ hash[u] \in 0..MaxHashes
    BY <1>5 DEF ForgotRead, Active, Exists, IInv, TypeOK
  <2>2. r \in Request /\ Known(r)
    BY IdleType, <2>1 DEF Request, Points, Known
  <2> HIDE DEF r
  <2> QED BY <1>5, <2>2, AcceptStep DEF ForgotRead, r
<1>6. ASSUME NEW u \in Users, ResetRead(h, u) PROVE IInv'
  <2> DEFINE r == [Idle EXCEPT !.at = "reset", !.user = u, !.hash = hash[u]]
  <2>1. hash[u] \in 0..MaxHashes
    BY DEF IInv, TypeOK
  <2>2. r \in Request /\ Known(r)
    BY <2>1 DEF Idle, Request, Points, Known
  <2> HIDE DEF r
  <2> QED BY <1>6, <2>2, AcceptStep DEF ResetRead, r
<1>7. ASSUME NEW u \in Users, AnonymizeRead(h, u) PROVE IInv'
  <2> DEFINE r == [Idle EXCEPT !.at = "anonymize", !.user = u]
  <2>1. r \in Request /\ Known(r)
    BY IdleType DEF Request, Points, Known
  <2> HIDE DEF r
  <2> QED BY <1>7, <2>1, AcceptStep DEF AnonymizeRead, r
<1>8. ASSUME NEW u \in Users, OrderRead(h, u) PROVE IInv'
  <2> DEFINE r == [Idle EXCEPT !.at = "order", !.user = u]
  <2>1. r \in Request /\ Known(r)
    BY IdleType DEF Request, Points, Known
  <2> HIDE DEF r
  <2> QED BY <1>8, <2>1, AcceptStep DEF OrderRead, r
<1>9. ASSUME NEW t \in Tokens, NEW received \in BOOLEAN, Issue(h, t, received) PROVE IInv'
  <2> DEFINE row == [user |-> request[h].user, revoked |-> FALSE, usable |-> received]
  <2>1. request[h].user \in Users
    BY <1>0, <1>9 DEF Issue, Known
  <2>2. row \in Token /\ row.user \in Users
    BY <2>1 DEF Token
  <2>3. token' = [token EXCEPT ![t] = row] /\ Return(h)
    BY <1>9 DEF Issue
  <2> HIDE DEF row
  <2>4. token' \in [Tokens -> Token] /\ RowsNamed'
    BY <2>2, <2>3 DEF IInv, TypeOK, RowsNamed
  <2> QED BY <1>9, <2>3, <2>4, ReturnStep DEF Issue, IInv, TypeOK, AnonymizedExist, Exists
<1>10. ASSUME NEW t \in Tokens, RefreshRead(h, t) PROVE IInv'
  <2> DEFINE r == [Idle EXCEPT !.at = IF token[t].revoked THEN "reuse" ELSE "user",
                               !.token = t, !.user = token[t].user]
  <2>1. token[t].user \in Users
    BY <1>10 DEF RefreshRead, IInv, RowsNamed
  <2>2. r \in Request /\ Known(r)
    BY IdleType, <2>1 DEF Request, Points, Known
  <2> HIDE DEF r
  <2> QED BY <1>10, <2>2, AcceptStep DEF RefreshRead, r
<1>11. CASE RefreshReuse(h)
  <2>1. request[h].user \in Users /\ RevokeAll(request[h].user) /\ Return(h)
    BY <1>0, <1>11 DEF RefreshReuse, Known
  <2> QED BY <1>11, <2>1, RevokeAllKeeps, ReturnStep
          DEF RefreshReuse, IInv, TypeOK, AnonymizedExist, Exists
<1>12. CASE RefreshUser(h)
  <2>1. request' \in [Handlers -> Request] /\ \A g \in Handlers : Known(request'[g])
    BY <1>12, GotoStep, ReturnStep DEF RefreshUser
  <2> QED BY <1>12, <2>1 DEF RefreshUser, IInv, TypeOK, RowsNamed, AnonymizedExist, Exists
<1>13. CASE RefreshRevoke(h)
  <2>1. request' \in [Handlers -> Request] /\ \A g \in Handlers : Known(request'[g])
    BY <1>13, GotoStep DEF RefreshRevoke
  <2>2. request[h].token \in Tokens
    BY <1>0, <1>13 DEF RefreshRevoke, Known
  <2>3. token' \in [Tokens -> Token] /\ RowsNamed'
    <3> DEFINE t == request[h].token
               row == [token[t] EXCEPT !.revoked = TRUE]
    <3>1. row \in Token /\ row.user = token[t].user /\ row.usable = token[t].usable
      BY <2>2 DEF IInv, TypeOK, Token
    <3>2. token' = [token EXCEPT ![t] = row]
      BY <1>13 DEF RefreshRevoke
    <3> HIDE DEF row
    <3> QED BY <2>2, <3>1, <3>2 DEF IInv, TypeOK, RowsNamed
  <2> QED BY <1>13, <2>1, <2>3 DEF RefreshRevoke, IInv, TypeOK, AnonymizedExist, Exists
<1>14. CASE ForgotMail(h)
  <2>1. request[h].user \in Users /\ request[h].hash \in 1..MaxHashes
    BY <1>0, <1>14 DEF ForgotMail, Known
  <2>2. links' \in [Users -> SUBSET (1..MaxHashes)]
    BY <1>14, <2>1 DEF ForgotMail, IInv, TypeOK
  <2> QED BY <1>14, <2>2, ReturnStep
          DEF ForgotMail, IInv, TypeOK, RowsNamed, AnonymizedExist, Exists
<1>15. CASE ResetCommit(h)
  <2>1. request[h].user \in Users
    BY <1>0, <1>15 DEF ResetCommit, Known
  <2>2. Rehash(request[h].user) /\ RevokeAll(request[h].user) /\ Return(h)
    BY <1>15 DEF ResetCommit
  <2> QED BY <1>15, <2>1, <2>2, RehashKeeps, RevokeAllKeeps, ReturnStep
          DEF ResetCommit, IInv, TypeOK, AnonymizedExist
<1>16. CASE AnonymizeCommit(h)
  <2> DEFINE u == request[h].user
  <2>1. u \in Users
    BY <1>0, <1>16 DEF AnonymizeCommit, Known
  <2>2. Rehash(u) /\ RevokeAll(u) /\ Return(h)
    BY <1>16 DEF AnonymizeCommit
  <2>3. /\ email' \in [Users -> Emails \union {NoEmail}]
        /\ anonymized' \in [Users -> BOOLEAN]
        /\ address' \in [Users -> BOOLEAN]
    BY <1>16 DEF AnonymizeCommit, IInv, TypeOK
  <2>4. AnonymizedExist'
    BY <1>16, <2>1, <2>2, RehashKeeps DEF AnonymizeCommit, IInv, TypeOK, AnonymizedExist, Exists
  <2> QED BY <1>16, <2>1, <2>2, <2>3, <2>4, RehashKeeps, RevokeAllKeeps, ReturnStep
          DEF AnonymizeCommit, IInv, TypeOK
<1>17. CASE OrderCommit(h)
  BY <1>17, ReturnStep DEF OrderCommit, IInv, TypeOK, RowsNamed, AnonymizedExist, Exists
<1>18. CASE Throw(h)
  BY <1>18, ReturnStep DEF Throw, IInv, TypeOK, RowsNamed, AnonymizedExist, Exists
<1> QED BY <1>1, <1>2, <1>3, <1>4, <1>5, <1>6, <1>7, <1>8, <1>9, <1>10, <1>11, <1>12,
           <1>13, <1>14, <1>15, <1>16, <1>17, <1>18 DEF Api

LEMMA StepIInv == IInv /\ [Next]_vars => IInv'
<1> SUFFICES ASSUME IInv, [Next]_vars PROVE IInv'
  OBVIOUS
<1>1. CASE UNCHANGED vars
  BY <1>1 DEF vars, IInv, TypeOK, RowsNamed, AnonymizedExist, Exists
<1>2. ASSUME NEW h \in Handlers, Api(h) PROVE IInv'
  BY <1>2, ApiIInv
<1>3. CASE Restart
  BY <1>3, IdleType DEF Restart, IInv, TypeOK, RowsNamed, AnonymizedExist, Exists
<1>4. ASSUME NEW t \in Tokens, TokenLapses(t) PROVE IInv'
  <2>1. token' \in [Tokens -> Token] /\ RowsNamed'
    BY <1>4 DEF TokenLapses, IInv, TypeOK, RowsNamed, Token
  <2> QED BY <1>4, <2>1 DEF TokenLapses, IInv, TypeOK, AnonymizedExist, Exists
<1>5. ASSUME NEW u \in Users, NEW p \in 1..MaxHashes, LinkLapses(u, p) PROVE IInv'
  <2>1. links' \in [Users -> SUBSET (1..MaxHashes)]
    BY <1>5 DEF LinkLapses, IInv, TypeOK
  <2> QED BY <1>5, <2>1 DEF LinkLapses, IInv, TypeOK, RowsNamed, AnonymizedExist, Exists
<1> QED BY <1>1, <1>2, <1>3, <1>4, <1>5 DEF Next

\* Types, and what every handler in flight knows, hold under every
\* interleaving, failure and restart of AuthService's requests.
THEOREM SessionsInvariance == Spec => []IInv
BY InitIInv, StepIInv, PTL DEF Spec

-----------------------------------------------------------------------------
(* An anonymised account stays forgotten. *)

Issuing == {"revoke", "issue", "order"}

\* What a step leaves of account u once it is settled.
StaysForgotten(u) ==
    /\ Settled(u)'
    /\ \A t \in Tokens : token'[t].user = u => token[t].user = u
    /\ address'[u] => address[u]

\* A request accepted or answered that opens nothing for u.
LEMMA QuietRequest ==
    ASSUME IInv, NEW u \in Users, Settled(u), NEW h \in Handlers, NEW r \in Request,
           request' = [request EXCEPT ![h] = r],
           r.at \in Issuing => r.user # u,
           UNCHANGED anonymized
    PROVE  Settled(u)'
<1>1. request'[h] = r /\ \A g \in Handlers \ {h} : request'[g] = request[g]
  BY DEF IInv, TypeOK
<1> QED BY <1>1 DEF Settled, Issuing

LEMMA QuietReturn ==
    ASSUME IInv, NEW u \in Users, Settled(u), NEW h \in Handlers, Return(h),
           UNCHANGED anonymized
    PROVE  Settled(u)'
<1>1. Idle \in Request /\ Idle.at = "idle"
  BY IdleType DEF Idle
<1> QED BY <1>1, QuietRequest DEF Return, Issuing

\* The requests that only read.
LEMMA QuietAccept ==
    ASSUME IInv, NEW u \in Users, Settled(u), NEW h \in Handlers, NEW r \in Request,
           Accept(h, r), r.at \in Issuing => r.user # u,
           UNCHANGED <<email, hash, anonymized, address, token, links>>
    PROVE  StaysForgotten(u)
BY QuietRequest DEF Accept, StaysForgotten

LEMMA ApiForgets ==
    ASSUME IInv, NEW u \in Users, Settled(u), NEW h \in Handlers, Api(h)
    PROVE  StaysForgotten(u)
<1> USE SessionsAssumption
<1>0. /\ request[h] \in Request /\ Known(request[h])
      /\ request[h].at \in Issuing => request[h].user # u
      /\ anonymized[u] /\ ~Active(u) /\ Exists(u)
  BY DEF IInv, TypeOK, Settled, Issuing, Active, AnonymizedExist
<1>1. ASSUME NEW e \in Emails, RegisterRead(h, e) PROVE StaysForgotten(u)
  <2> DEFINE r == [Idle EXCEPT !.at = "register", !.email = e]
  <2>1. r \in Request /\ r.at = "register"
    BY IdleType DEF Request, Points
  <2> HIDE DEF r
  <2> QED BY <1>1, <2>1, QuietAccept DEF RegisterRead, Issuing, r
<1>2. ASSUME NEW v \in Users, RegisterCreate(h, v) PROVE StaysForgotten(u)
  <2> DEFINE r == [Idle EXCEPT !.at = "issue", !.user = v]
  <2>1. v # u
    BY <1>0, <1>2 DEF RegisterCreate
  <2>2. r \in Request /\ r.user = v
    BY IdleType DEF Request, Points
  <2>3. request' = [request EXCEPT ![h] = r] /\ UNCHANGED <<anonymized, address, token>>
    BY <1>2 DEF RegisterCreate
  <2> HIDE DEF r
  <2> QED BY <2>1, <2>2, <2>3, QuietRequest DEF StaysForgotten
<1>3. ASSUME NEW v \in Users, LoginRead(h, v) PROVE StaysForgotten(u)
  <2> DEFINE r == [Idle EXCEPT !.at = "issue", !.user = v]
  <2>1. v # u
    BY <1>0, <1>3 DEF LoginRead
  <2>2. r \in Request /\ r.user = v
    BY IdleType DEF Request, Points
  <2> HIDE DEF r
  <2> QED BY <1>3, <2>1, <2>2, QuietAccept DEF LoginRead, r
<1>4. ASSUME NEW v \in Users, Logout(h, v) PROVE StaysForgotten(u)
  <2>1. \A t \in Tokens : token'[t].user = token[t].user
    BY <1>4, RevokeAllKeeps DEF Logout
  <2> QED BY <1>4, <2>1 DEF Logout, StaysForgotten, Settled
<1>5. ASSUME NEW v \in Users, ForgotRead(h, v) PROVE StaysForgotten(u)
  <2> DEFINE r == [Idle EXCEPT !.at = "mail", !.user = v, !.hash = hash[v]]
  <2>1. r \in Request /\ r.at = "mail"
    BY DEF Idle, Request, Points, IInv, TypeOK
  <2> HIDE DEF r
  <2> QED BY <1>5, <2>1, QuietAccept DEF ForgotRead, Issuing, r
<1>6. ASSUME NEW v \in Users, ResetRead(h, v) PROVE StaysForgotten(u)
  <2> DEFINE r == [Idle EXCEPT !.at = "reset", !.user = v, !.hash = hash[v]]
  <2>1. r \in Request /\ r.at = "reset"
    BY DEF Idle, Request, Points, IInv, TypeOK
  <2> HIDE DEF r
  <2> QED BY <1>6, <2>1, QuietAccept DEF ResetRead, Issuing, r
<1>7. ASSUME NEW v \in Users, AnonymizeRead(h, v) PROVE StaysForgotten(u)
  <2> DEFINE r == [Idle EXCEPT !.at = "anonymize", !.user = v]
  <2>1. r \in Request /\ r.at = "anonymize"
    BY IdleType DEF Request, Points
  <2> HIDE DEF r
  <2> QED BY <1>7, <2>1, QuietAccept DEF AnonymizeRead, Issuing, r
<1>8. ASSUME NEW v \in Users, OrderRead(h, v) PROVE StaysForgotten(u)
  <2> DEFINE r == [Idle EXCEPT !.at = "order", !.user = v]
  <2>1. v # u
    BY <1>0, <1>8 DEF OrderRead
  <2>2. r \in Request /\ r.user = v
    BY IdleType DEF Request, Points
  <2> HIDE DEF r
  <2> QED BY <1>8, <2>1, <2>2, QuietAccept DEF OrderRead, r
<1>9. ASSUME NEW t \in Tokens, NEW received \in BOOLEAN, Issue(h, t, received)
      PROVE  StaysForgotten(u)
  <2>1. request[h].user # u
    BY <1>0, <1>9 DEF Issue, Issuing
  <2>2. \A s \in Tokens : token'[s].user = u => token[s].user = u
    BY <1>9, <2>1 DEF Issue, IInv, TypeOK
  <2> QED BY <1>9, <2>2, QuietReturn DEF Issue, StaysForgotten
<1>10. ASSUME NEW t \in Tokens, RefreshRead(h, t) PROVE StaysForgotten(u)
  <2> DEFINE r == [Idle EXCEPT !.at = IF token[t].revoked THEN "reuse" ELSE "user",
                               !.token = t, !.user = token[t].user]
  <2>1. token[t].user \in Users
    BY <1>10 DEF RefreshRead, IInv, RowsNamed
  <2>2. r \in Request /\ r.at \in {"reuse", "user"}
    BY IdleType, <2>1 DEF Request, Points
  <2> HIDE DEF r
  <2> QED BY <1>10, <2>2, QuietAccept DEF RefreshRead, Issuing, r
<1>11. CASE RefreshReuse(h)
  <2>1. request[h].user \in Users
    BY <1>0, <1>11 DEF RefreshReuse, Known
  <2>2. \A t \in Tokens : token'[t].user = token[t].user
    BY <1>11, <2>1, RevokeAllKeeps DEF RefreshReuse
  <2> QED BY <1>11, <2>2, QuietReturn DEF RefreshReuse, StaysForgotten
<1>12. CASE RefreshUser(h)
  <2>1. CASE Return(h)
    BY <1>12, <2>1, QuietReturn DEF RefreshUser, StaysForgotten
  <2>2. CASE Active(request[h].user) /\ Goto(h, "revoke")
    <3> DEFINE r == [request[h] EXCEPT !.at = "revoke"]
    <3>1. r \in Request /\ r.user # u
      BY <1>0, <2>2 DEF Request, Points
    <3>2. request' = [request EXCEPT ![h] = r]
      BY <2>2 DEF Goto
    <3> HIDE DEF r
    <3> QED BY <1>12, <3>1, <3>2, QuietRequest DEF RefreshUser, StaysForgotten
  <2> QED BY <1>12, <2>1, <2>2 DEF RefreshUser
<1>13. CASE RefreshRevoke(h)
  <2> DEFINE r == [request[h] EXCEPT !.at = "issue"]
  <2>1. r \in Request /\ r.user # u
    BY <1>0, <1>13 DEF RefreshRevoke, Request, Points, Issuing
  <2>2. request' = [request EXCEPT ![h] = r]
    BY <1>13 DEF RefreshRevoke, Goto
  <2>3. \A t \in Tokens : token'[t].user = token[t].user
    BY <1>13 DEF RefreshRevoke, IInv, TypeOK, Token
  <2> HIDE DEF r
  <2> QED BY <1>13, <2>1, <2>2, <2>3, QuietRequest DEF RefreshRevoke, StaysForgotten
<1>14. CASE ForgotMail(h)
  BY <1>14, QuietReturn DEF ForgotMail, StaysForgotten
<1>15. CASE ResetCommit(h)
  <2>1. request[h].user \in Users
    BY <1>0, <1>15 DEF ResetCommit, Known
  <2>2. \A t \in Tokens : token'[t].user = token[t].user
    BY <1>15, <2>1, RevokeAllKeeps DEF ResetCommit
  <2> QED BY <1>15, <2>2, QuietReturn DEF ResetCommit, StaysForgotten
<1>16. CASE AnonymizeCommit(h)
  <2>1. request[h].user \in Users
    BY <1>0, <1>16 DEF AnonymizeCommit, Known
  <2>2. \A t \in Tokens : token'[t].user = token[t].user
    BY <1>16, <2>1, RevokeAllKeeps DEF AnonymizeCommit
  <2>3. anonymized'[u] /\ (address'[u] => address[u])
    BY <1>0, <1>16 DEF AnonymizeCommit, IInv, TypeOK
  <2>4. request' = [request EXCEPT ![h] = Idle] /\ Idle.at = "idle"
    BY <1>16 DEF AnonymizeCommit, Return, Idle
  <2>5. \A g \in Handlers : request'[g].at \in Issuing => request'[g].user # u
    BY <2>4 DEF IInv, TypeOK, Settled, Issuing
  <2> QED BY <2>2, <2>3, <2>5 DEF StaysForgotten, Settled, Issuing
<1>17. CASE OrderCommit(h)
  <2>1. request[h].user # u
    BY <1>0, <1>17 DEF OrderCommit, Issuing
  <2>2. address'[u] => address[u]
    BY <1>17, <2>1 DEF OrderCommit, IInv, TypeOK
  <2> QED BY <1>17, <2>2, QuietReturn DEF OrderCommit, StaysForgotten
<1>18. CASE Throw(h)
  BY <1>18, QuietReturn DEF Throw, StaysForgotten
<1> QED BY <1>1, <1>2, <1>3, <1>4, <1>5, <1>6, <1>7, <1>8, <1>9, <1>10, <1>11, <1>12,
           <1>13, <1>14, <1>15, <1>16, <1>17, <1>18 DEF Api

\* LGPD, anonymizeAccount: nobody reopens an anonymised account once the
\* requests that had passed its checks are over, whatever tokens, passwords
\* and links are still around.
THEOREM ForgottenForGoodHolds == Spec => ForgottenForGood
<1> DEFINE Step == \A u \in Users : Settled(u) => StaysForgotten(u)
<1>1. IInv /\ [Next]_vars => [Step]_vars
  <2> SUFFICES ASSUME IInv, Next, NEW u \in Users, Settled(u) PROVE StaysForgotten(u)
    OBVIOUS
  <2>1. ASSUME NEW h \in Handlers, Api(h) PROVE StaysForgotten(u)
    BY <2>1, ApiForgets
  <2>2. CASE Restart
    BY <2>2 DEF Restart, StaysForgotten, Settled, Idle
  <2>3. ASSUME NEW t \in Tokens, TokenLapses(t) PROVE StaysForgotten(u)
    <3>1. \A s \in Tokens : token'[s].user = token[s].user
      BY <2>3 DEF TokenLapses, IInv, TypeOK, Token
    <3> QED BY <2>3, <3>1 DEF TokenLapses, StaysForgotten, Settled
  <2>4. ASSUME NEW v \in Users, NEW p \in 1..MaxHashes, LinkLapses(v, p) PROVE StaysForgotten(u)
    BY <2>4 DEF LinkLapses, StaysForgotten, Settled
  <2> QED BY <2>1, <2>2, <2>3, <2>4 DEF Next
<1>2. [][Step]_vars => ForgottenForGood
  BY PTL DEF ForgottenForGood, StaysForgotten
<1> HIDE DEF Step
<1> QED BY <1>1, <1>2, SessionsInvariance, PTL DEF Spec

-----------------------------------------------------------------------------
(* Accounts whose requests do not overlap *)

Issued(t) == token[t].user # NoUser

\* The rows of tokens, and the logins they descend from.
RowsDescend ==
    /\ origin \in [Tokens -> [login: Tokens, hash: 0..MaxHashes]]
    /\ \A t \in Tokens : token[t] # NoRow => Issued(t)
    /\ \A t \in Tokens : Issued(t) =>
        /\ token[t].user \in Users /\ Exists(token[t].user)
        /\ Issued(origin[t].login)

\* A request under way is about an account that exists, and the token it
\* presents is a token of that account.
Presents(r) ==
    /\ r.at \notin {"idle", "register"} => Exists(r.user)
    /\ r.at \in {"user", "revoke", "issue"} /\ r.token # NoToken => token[r.token].user = r.user

\* What a refresh of account u may count on when nothing else is under way
\* for it: no other session of the same login, and the password of that login.
Rotates(u, r) ==
    r.user = u /\ r.at \in {"user", "revoke", "issue"} /\ r.token # NoToken =>
        /\ origin[r.token].hash = hash[u]
        /\ \A t \in Alive(u) :
            origin[t].login = origin[r.token].login => t = r.token /\ r.at # "issue"

\* Nothing is under way that would bring an anonymised account u back.
StaysGone(u, r) == anonymized[u] /\ r.at \in Issuing => r.user # u

\* The sessions of account u are what CONTRATO-SESSAO.md says.
SessionsKept(u) ==
    /\ \A h1, h2 \in Handlers : request[h1].user = u /\ request[h2].user = u => h1 = h2
    /\ \A t1, t2 \in Alive(u) : origin[t1].login = origin[t2].login => t1 = t2
    /\ \A t \in Alive(u) : origin[t].hash = hash[u]
    /\ anonymized[u] => Forgotten(u)
    /\ \A h \in Handlers : Rotates(u, request[h]) /\ StaysGone(u, request[h])

HIInv ==
    /\ IInv
    /\ RowsDescend
    /\ \A h \in Handlers : Presents(request[h])
    /\ \A u \in Users \ raced : SessionsKept(u)

\* The accounts with requests under way at once are only ever added to.
LEMMA RacedGrows ==
    ASSUME HNext
    PROVE  /\ \A u \in Users \ raced' : u \notin raced
           /\ \A u \in Users \ raced' : \A h1, h2 \in Handlers :
                request'[h1].user = u /\ request'[h2].user = u => h1 = h2
BY DEF HNext, Overlapping

\* Only a new row gives a token an origin.
LEMMA OriginKept ==
    ASSUME HIInv, HNext
    PROVE  /\ \A t \in Tokens : Issued(t) => origin'[t] = origin[t]
           /\ (\A t \in Tokens : token[t] = NoRow => token'[t] = NoRow) => origin' = origin
<1>1. \A t \in Tokens : Issued(t) => token[t] # NoRow
  BY DEF Issued, NoRow
<1> QED BY <1>1 DEF HIInv, RowsDescend, HNext

\* A step that changes no session, where each handler goes on with its request
\* or with one that may be under way.
LEMMA QuietKeeps ==
    ASSUME HIInv, IInv', HNext, UNCHANGED <<hash, anonymized>>,
           \A t \in Tokens : /\ token'[t].user = token[t].user
                             /\ token'[t].revoked = token[t].revoked
                             /\ token[t] = NoRow <=> token'[t] = NoRow,
           \A u \in Users : address'[u] => address[u] \/ u \in raced \/ ~anonymized[u],
           \A h \in Handlers :
             \/ request'[h] = request[h]
             \/ /\ Presents(request'[h])
                /\ \A u \in Users \ raced : Rotates(u, request'[h]) /\ StaysGone(u, request'[h])
    PROVE  HIInv'
<1>1. origin' = origin
  BY OriginKept
<1>2. /\ \A t \in Tokens : Live(t)' <=> Live(t)
      /\ \A u \in Users : Alive(u)' = Alive(u)
  BY DEF Live, Alive
<1>3. RowsDescend'
  BY <1>1 DEF HIInv, RowsDescend, Issued, Exists
<1>4. ASSUME NEW h \in Handlers
      PROVE  Presents(request[h])'
  <2>1. request'[h].token # NoToken => request'[h].token \in Tokens
    BY DEF IInv, TypeOK, Request
  <2> QED BY <2>1 DEF HIInv, Presents, Exists
<1>5. ASSUME NEW u \in Users \ raced'
      PROVE  SessionsKept(u)'
  <2>1. SessionsKept(u) /\ u \notin raced
    BY RacedGrows DEF HIInv
  <2>2. \A h \in Handlers : Rotates(u, request[h])' /\ StaysGone(u, request[h])'
    BY <1>1, <1>2, <2>1 DEF SessionsKept, Rotates, StaysGone
  <2>3. anonymized'[u] => Forgotten(u)'
    BY <1>2, <2>1 DEF SessionsKept, Forgotten
  <2> QED BY <1>1, <1>2, <2>1, <2>2, <2>3, RacedGrows DEF SessionsKept
<1> QED BY <1>3, <1>4, <1>5 DEF HIInv

\* No request is left, or one that concerns nobody yet.
LEMMA NoRequestYet ==
    ASSUME NEW r, r.at \notin {"user", "revoke", "issue", "order"}
    PROVE  \A u \in Users : Rotates(u, r) /\ StaysGone(u, r)
BY DEF Rotates, StaysGone, Issuing

LEMMA AcceptKeeps ==
    ASSUME HIInv, HNext, IInv', NEW h \in Handlers, NEW r \in Request, Accept(h, r), Presents(r),
           \A u \in Users \ raced : Rotates(u, r) /\ StaysGone(u, r),
           UNCHANGED <<hash, anonymized, address, token>>
    PROVE  HIInv'
<1>1. \A g \in Handlers : request'[g] = IF g = h THEN r ELSE request[g]
  BY DEF Accept, HIInv, IInv, TypeOK
<1> QED BY <1>1, QuietKeeps

LEMMA ReturnKeeps ==
    ASSUME HIInv, HNext, IInv', NEW h \in Handlers, Return(h),
           UNCHANGED <<hash, anonymized, token>>,
           \A u \in Users : address'[u] => address[u] \/ u \in raced \/ ~anonymized[u]
    PROVE  HIInv'
<1>1. \A g \in Handlers : request'[g] = IF g = h THEN Idle ELSE request[g]
  BY DEF Return, HIInv, IInv, TypeOK
<1>2. Presents(Idle) /\ \A u \in Users : Rotates(u, Idle) /\ StaysGone(u, Idle)
  BY DEF Presents, Idle, Rotates, StaysGone, Issuing
<1> QED BY <1>1, <1>2, QuietKeeps

\* Every request that is accepted.
LEMMA ReadsKeep ==
    ASSUME HIInv, HNext, IInv', NEW h \in Handlers,
           \/ \E e \in Emails : RegisterRead(h, e)
           \/ \E u \in Users : \/ LoginRead(h, u) \/ ForgotRead(h, u) \/ ResetRead(h, u)
                               \/ AnonymizeRead(h, u) \/ OrderRead(h, u)
           \/ \E t \in Tokens : RefreshRead(h, t)
    PROVE  HIInv'
<1> USE SessionsAssumption
<1>0. IInv
  BY DEF HIInv
<1>1. ASSUME NEW e \in Emails, RegisterRead(h, e) PROVE HIInv'
  <2> DEFINE r == [Idle EXCEPT !.at = "register", !.email = e]
  <2>1. r \in Request /\ r.at = "register"
    BY IdleType DEF Request, Points
  <2>2. Accept(h, r) /\ UNCHANGED <<hash, anonymized, address, token>>
    BY <1>1 DEF RegisterRead
  <2> HIDE DEF r
  <2>3. Presents(r) /\ \A u \in Users : Rotates(u, r) /\ StaysGone(u, r)
    BY <2>1, NoRequestYet DEF Presents
  <2> QED BY <2>1, <2>2, <2>3, AcceptKeeps
<1>2. ASSUME NEW u \in Users, NEW p \in {"issue", "order"},
             Active(u), Accept(h, [Idle EXCEPT !.at = p, !.user = u]),
             UNCHANGED <<hash, anonymized, address, token>>
      PROVE  HIInv'
  <2> DEFINE r == [Idle EXCEPT !.at = p, !.user = u]
  <2>1. r \in Request /\ r.at = p /\ r.user = u /\ r.token = NoToken
    BY IdleType DEF Request, Points, Idle
  <2>2. Accept(h, r)
    BY <1>2
  <2> HIDE DEF r
  <2>3. Presents(r) /\ \A v \in Users : Rotates(v, r) /\ StaysGone(v, r)
    BY <1>2, <2>1 DEF Presents, Rotates, StaysGone, Active
  <2> QED BY <1>2, <2>1, <2>2, <2>3, AcceptKeeps
<1>3. ASSUME NEW u \in Users, NEW p \in {"mail", "reset"}, NEW n \in 0..MaxHashes,
             Active(u), Accept(h, [Idle EXCEPT !.at = p, !.user = u, !.hash = n]),
             UNCHANGED <<hash, anonymized, address, token>>
      PROVE  HIInv'
  <2> DEFINE r == [Idle EXCEPT !.at = p, !.user = u, !.hash = n]
  <2>1. r \in Request /\ r.at = p /\ r.user = u
    BY IdleType DEF Request, Points, Idle
  <2>2. Accept(h, r)
    BY <1>3
  <2> HIDE DEF r
  <2>3. Presents(r) /\ \A v \in Users : Rotates(v, r) /\ StaysGone(v, r)
    BY <1>3, <2>1, NoRequestYet DEF Presents, Active
  <2> QED BY <1>3, <2>1, <2>2, <2>3, AcceptKeeps
<1>4. ASSUME NEW t \in Tokens, RefreshRead(h, t) PROVE HIInv'
  <2> DEFINE u == token[t].user
             r == [Idle EXCEPT !.at = IF token[t].revoked THEN "reuse" ELSE "user",
                               !.token = t, !.user = u]
  <2>1. u \in Users /\ Issued(t) /\ Exists(u)
    BY <1>0, <1>4 DEF RefreshRead, IInv, RowsNamed, Issued, HIInv, RowsDescend
  <2>2. /\ r \in Request /\ r.at \in {"reuse", "user"} /\ r.user = u /\ r.token = t
        /\ r.at = "user" => ~token[t].revoked
    BY IdleType, <2>1 DEF Request, Points, Idle, IInv, TypeOK
  <2>3. Accept(h, r) /\ UNCHANGED <<hash, anonymized, address, token>>
    BY <1>4 DEF RefreshRead
  <2> HIDE DEF r
  <2>4. Presents(r)
    BY <2>1, <2>2 DEF Presents
  <2>5. ASSUME NEW v \in Users \ raced, r.user = v, r.at = "user"
        PROVE  Rotates(v, r)
    <3>1. t \in Alive(v)
      BY <2>1, <2>2, <2>5 DEF Alive, Live
    <3> QED BY <2>2, <2>5, <3>1 DEF HIInv, SessionsKept, Rotates
  <2>6. \A v \in Users \ raced : Rotates(v, r) /\ StaysGone(v, r)
    BY <2>2, <2>5 DEF Rotates, StaysGone, Issuing
  <2> QED BY <2>2, <2>3, <2>4, <2>6, AcceptKeeps
<1>5. \A u \in Users : hash[u] \in 0..MaxHashes
  BY <1>0 DEF IInv, TypeOK
<1>6. ASSUME NEW u \in Users, AnonymizeRead(h, u) PROVE HIInv'
  <2> DEFINE r == [Idle EXCEPT !.at = "anonymize", !.user = u]
  <2>1. r \in Request /\ r.at = "anonymize" /\ r.user = u
    BY IdleType DEF Request, Points, Idle
  <2>2. Active(u) /\ Accept(h, r) /\ UNCHANGED <<hash, anonymized, address, token>>
    BY <1>6 DEF AnonymizeRead
  <2> HIDE DEF r
  <2>3. Presents(r) /\ \A v \in Users : Rotates(v, r) /\ StaysGone(v, r)
    BY <2>1, <2>2, NoRequestYet DEF Presents, Active
  <2> QED BY <2>1, <2>2, <2>3, AcceptKeeps
<1> QED BY <1>1, <1>2, <1>3, <1>4, <1>5, <1>6
        DEF LoginRead, ForgotRead, ResetRead, OrderRead

\* All the sessions of account v end, alone or at the end of a request about v
\* that gives it a new password or anonymises it.
LEMMA RevokeKeeps ==
    ASSUME HIInv, HNext, IInv', NEW v \in Users, RevokeAll(v), NEW h \in Handlers,
           \/ UNCHANGED <<request, hash, anonymized, address>>
           \/ Return(h) /\ request[h].user = v,
           \A u \in Users : Exists(u) => Exists(u)',
           \A u \in Users \ {v} : /\ hash'[u] = hash[u]
                                  /\ anonymized'[u] = anonymized[u]
                                  /\ address'[u] = address[u],
           anonymized'[v] /\ address'[v] => anonymized[v] /\ address[v]
    PROVE  HIInv'
<1> USE SessionsAssumption
<1>1. \A t \in Tokens :
        /\ token'[t].user = token[t].user
        /\ Live(t)' <=> Live(t) /\ token[t].user # v
        /\ token[t] = NoRow <=> token'[t] = NoRow
  <2> SUFFICES ASSUME NEW t \in Tokens
               PROVE  /\ token'[t].user = token[t].user
                      /\ Live(t)' <=> Live(t) /\ token[t].user # v
                      /\ token[t] = NoRow <=> token'[t] = NoRow
    OBVIOUS
  <2>1. token[t] \in Token
    BY DEF HIInv, IInv, TypeOK
  <2>2. CASE token[t].user = v
    <3>1. token'[t] = [token[t] EXCEPT !.revoked = TRUE]
      BY <2>2 DEF RevokeAll
    <3>2. token'[t].user = v /\ token'[t].revoked
      BY <2>1, <2>2, <3>1 DEF Token
    <3> QED BY <2>2, <3>2 DEF Live, NoRow
  <2>3. CASE token[t].user # v
    BY <2>3 DEF RevokeAll, Live
  <2> QED BY <2>2, <2>3
<1>2. origin' = origin
  BY <1>1, OriginKept
<1>3. /\ Alive(v)' = {}
      /\ \A u \in Users \ {v} : Alive(u)' = Alive(u)
  BY <1>1 DEF Alive
<1>4. RowsDescend'
  BY <1>1, <1>2, RehashKeeps DEF HIInv, RowsDescend, Issued, IInv, TypeOK
<1>5. \A g \in Handlers : request'[g] = request[g] \/ (g = h /\ request'[g] = Idle)
  BY DEF Return, HIInv, IInv, TypeOK
<1>6. ASSUME NEW g \in Handlers PROVE Presents(request[g])'
  <2>1. CASE request'[g] = Idle
    BY <2>1 DEF Presents, Idle
  <2>2. CASE request'[g] = request[g]
    <3>1. request[g] \in Request /\ Known(request[g])
      BY DEF HIInv, IInv, TypeOK
    <3> QED BY <1>1, <2>2, <3>1 DEF HIInv, Presents, Request, Known
  <2> QED BY <1>5, <2>1, <2>2
<1>7. ASSUME NEW u \in Users \ raced' PROVE SessionsKept(u)'
  <2>1. SessionsKept(u) /\ u \notin raced
    BY RacedGrows DEF HIInv
  <2>2. CASE u # v
    <3>1. \A g \in Handlers : Rotates(u, request[g])' /\ StaysGone(u, request[g])'
      BY <1>2, <1>3, <1>5, <2>1, <2>2 DEF SessionsKept, Rotates, StaysGone, Idle, Issuing
    <3>2. anonymized'[u] => Forgotten(u)'
      BY <1>1, <2>1, <2>2 DEF SessionsKept, Forgotten
    <3> QED BY <1>2, <1>3, <2>1, <2>2, <3>1, <3>2, RacedGrows DEF SessionsKept
  <2>3. CASE u = v
    <3>1. anonymized'[u] => Forgotten(u)'
      BY <1>1, <2>1, <2>3 DEF SessionsKept, Forgotten
    <3>2. CASE UNCHANGED <<request, hash, anonymized, address>>
      <4>1. \A g \in Handlers : Rotates(u, request[g])' /\ StaysGone(u, request[g])'
        BY <1>2, <1>3, <2>1, <2>3, <3>2 DEF SessionsKept, Rotates, StaysGone
      <4> QED BY <1>3, <2>3, <3>1, <4>1, RacedGrows DEF SessionsKept
    <3>3. CASE Return(h) /\ request[h].user = v
      <4>1. \A g \in Handlers : request'[g].user # u
        BY <1>5, <2>1, <2>3, <3>3 DEF SessionsKept, Idle, Return, HIInv, IInv, TypeOK
      <4>2. \A g \in Handlers : Rotates(u, request[g])' /\ StaysGone(u, request[g])'
        BY <4>1 DEF Rotates, StaysGone
      <4> QED BY <1>3, <2>3, <3>1, <4>2, RacedGrows DEF SessionsKept
    <3> QED BY <3>2, <3>3
  <2> QED BY <2>2, <2>3
<1> QED BY <1>4, <1>6, <1>7 DEF HIInv

\* Logout, reuse, a new password, an account anonymised.
LEMMA RevocationsKeep ==
    ASSUME HIInv, HNext, IInv', NEW h \in Handlers,
           \/ \E u \in Users : Logout(h, u)
           \/ RefreshReuse(h) \/ ResetCommit(h) \/ AnonymizeCommit(h)
    PROVE  HIInv'
<1>0. IInv /\ Known(request[h])
  BY DEF HIInv, IInv
<1>1. ASSUME NEW u \in Users, Logout(h, u) PROVE HIInv'
  BY <1>1, RevokeKeeps DEF Logout, Exists
<1>2. CASE RefreshReuse(h)
  <2>1. request[h].user \in Users
    BY <1>0, <1>2 DEF RefreshReuse, Known
  <2> QED BY <1>2, <2>1, RevokeKeeps DEF RefreshReuse, Exists
<1>3. CASE ResetCommit(h)
  <2> DEFINE v == request[h].user
  <2>1. v \in Users /\ Rehash(v) /\ RevokeAll(v)
    BY <1>0, <1>3 DEF ResetCommit, Known
  <2>2. \A u \in Users \ {v} : hash'[u] = hash[u]
    BY <1>0, <2>1 DEF Rehash, IInv, TypeOK
  <2>3. \A u \in Users : Exists(u) => Exists(u)'
    BY <1>0, <2>1, RehashKeeps
  <2> QED BY <1>3, <2>1, <2>2, <2>3, RevokeKeeps DEF ResetCommit
<1>4. CASE AnonymizeCommit(h)
  <2>0. PICK v \in Users : v = request[h].user
    BY <1>0, <1>4 DEF AnonymizeCommit, Known
  <2>1. Rehash(v) /\ RevokeAll(v) /\ Return(h) /\ request[h].user = v
    BY <1>4, <2>0 DEF AnonymizeCommit
  <2>2. \A u \in Users \ {v} : /\ hash'[u] = hash[u]
                               /\ anonymized'[u] = anonymized[u]
                               /\ address'[u] = address[u]
    BY <1>0, <1>4, <2>0, <2>1 DEF AnonymizeCommit, Rehash, IInv, TypeOK
  <2>3. \A u \in Users : Exists(u) => Exists(u)'
    BY <1>0, <2>1, RehashKeeps
  <2>4. ~address'[v]
    BY <1>0, <1>4, <2>0, <2>1 DEF AnonymizeCommit, IInv, TypeOK
  <2> QED BY <2>1, <2>2, <2>3, <2>4, RevokeKeeps
<1> QED BY <1>1, <1>2, <1>3, <1>4

\* A new account has no session and nothing under way before its own login.
LEMMA RegisterKeeps ==
    ASSUME HIInv, HNext, IInv', NEW h \in Handlers, NEW v \in Users, RegisterCreate(h, v)
    PROVE  HIInv'
<1> USE SessionsAssumption
<1> DEFINE r == [Idle EXCEPT !.at = "issue", !.user = v]
<1>0. IInv
  BY DEF HIInv
<1>1. r.at = "issue" /\ r.user = v /\ r.token = NoToken
  BY DEF Idle
<1>2. \A g \in Handlers : request'[g] = IF g = h THEN r ELSE request[g]
  BY <1>0 DEF RegisterCreate, IInv, TypeOK
<1> HIDE DEF r
<1>3. /\ ~Exists(v) /\ Exists(v)' /\ ~anonymized[v]
      /\ \A u \in Users \ {v} : hash'[u] = hash[u]
      /\ UNCHANGED <<anonymized, address, token>>
  BY <1>0, RehashKeeps DEF RegisterCreate, Rehash, Exists, IInv, TypeOK, AnonymizedExist
<1>4. origin' = origin /\ \A u \in Users : Alive(u)' = Alive(u)
  BY <1>3, OriginKept DEF Alive, Live
<1>5. Alive(v) = {}
  BY <1>3 DEF Alive, Live, HIInv, RowsDescend, Issued
<1>6. RowsDescend'
  <2>1. hash' \in [Users -> 0..MaxHashes] /\ \A u \in Users : Exists(u) => Exists(u)'
    BY <1>0, RehashKeeps DEF RegisterCreate
  <2> QED BY <1>3, <1>4, <2>1 DEF HIInv, RowsDescend, Issued
<1>7. ASSUME NEW g \in Handlers PROVE Presents(request[g])'
  <2>1. request[g] \in Request /\ Known(request[g])
    BY <1>0 DEF IInv, TypeOK
  <2>2. CASE g = h
    BY <1>1, <1>2, <1>3, <2>2 DEF Presents
  <2>3. CASE g # h
    <3>1. request[g].at \notin {"idle", "register"} => request[g].user # v
      BY <1>3 DEF HIInv, Presents
    <3> QED BY <1>2, <1>3, <2>1, <2>3, <3>1 DEF HIInv, Presents, Known, Exists
  <2> QED BY <2>2, <2>3
<1>8. ASSUME NEW u \in Users \ raced' PROVE SessionsKept(u)'
  <2>1. SessionsKept(u) /\ u \notin raced
    BY RacedGrows DEF HIInv
  <2>2. anonymized'[u] => Forgotten(u)'
    BY <1>3, <2>1 DEF SessionsKept, Forgotten, Live
  <2>3. CASE u # v
    <3>1. \A g \in Handlers : Rotates(u, request[g])' /\ StaysGone(u, request[g])'
      BY <1>1, <1>2, <1>3, <1>4, <2>1, <2>3 DEF SessionsKept, Rotates, StaysGone
    <3> QED BY <1>3, <1>4, <2>1, <2>2, <2>3, <3>1, RacedGrows DEF SessionsKept
  <2>4. CASE u = v
    <3>1. ASSUME NEW g \in Handlers PROVE Rotates(u, request[g])' /\ StaysGone(u, request[g])'
      <4>1. CASE g = h
        BY <1>1, <1>2, <1>3, <2>4, <4>1 DEF Rotates, StaysGone
      <4>2. CASE g # h
        <5>1. request[g].at \notin {"idle", "register"} => request[g].user # v
          BY <1>3 DEF HIInv, Presents
        <5> QED BY <1>2, <2>4, <4>2, <5>1 DEF Rotates, StaysGone, Issuing
      <4> QED BY <4>1, <4>2
    <3> QED BY <1>4, <1>5, <2>2, <2>4, <3>1, RacedGrows DEF SessionsKept
  <2> QED BY <2>3, <2>4
<1> QED BY <1>6, <1>7, <1>8 DEF HIInv

\* The token presented is revoked before its successor is issued.
LEMMA RotationKeeps ==
    ASSUME HIInv, HNext, IInv', NEW h \in Handlers, RefreshRevoke(h)
    PROVE  HIInv'
<1> USE SessionsAssumption
<1> DEFINE s == request[h].token
           v == request[h].user
           r == [request[h] EXCEPT !.at = "issue"]
<1>0. IInv /\ request[h] \in Request /\ request[h].at = "revoke" /\ Known(request[h])
      /\ Presents(request[h])
  BY DEF HIInv, IInv, TypeOK, RefreshRevoke
<1>1. s \in Tokens /\ v \in Users /\ token[s].user = v /\ Exists(v)
  BY <1>0 DEF Known, Presents
<1>2. r.at = "issue" /\ r.user = v /\ r.token = s
  BY <1>0 DEF Request
<1>3. \A g \in Handlers : request'[g] = IF g = h THEN r ELSE request[g]
  BY <1>0 DEF RefreshRevoke, Goto, IInv, TypeOK
<1> HIDE DEF r
<1>4. /\ \A t \in Tokens \ {s} : token'[t] = token[t]
      /\ token'[s].user = v /\ token'[s].revoked
      /\ UNCHANGED <<hash, anonymized, address>>
  BY <1>0, <1>1 DEF RefreshRevoke, IInv, TypeOK, Token
<1> HIDE DEF s, v
<1>5. /\ \A t \in Tokens : /\ token'[t].user = token[t].user
                           /\ token[t] = NoRow <=> token'[t] = NoRow
                           /\ Live(t)' <=> Live(t) /\ t # s
      /\ origin' = origin
  BY <1>1, <1>4, OriginKept DEF NoRow, Live
<1>6. \A u \in Users : Alive(u)' = Alive(u) \ {s}
  BY <1>5 DEF Alive
<1>7. RowsDescend'
  BY <1>4, <1>5 DEF HIInv, RowsDescend, Issued, Exists
<1>8. ASSUME NEW g \in Handlers PROVE Presents(request[g])'
  <2>1. request[g] \in Request
    BY <1>0 DEF IInv, TypeOK
  <2>2. CASE g = h
    BY <1>1, <1>2, <1>3, <1>4, <2>2 DEF Presents, Exists
  <2>3. CASE g # h
    BY <1>3, <1>4, <1>5, <2>1, <2>3 DEF HIInv, Presents, Exists, Request
  <2> QED BY <2>2, <2>3
<1>9. ASSUME NEW u \in Users \ raced' PROVE SessionsKept(u)'
  <2>1. SessionsKept(u) /\ u \notin raced
    BY RacedGrows DEF HIInv
  <2>2. anonymized'[u] => Forgotten(u)'
    BY <1>4, <1>5, <2>1 DEF SessionsKept, Forgotten
  <2>3. ASSUME NEW g \in Handlers PROVE Rotates(u, request[g])' /\ StaysGone(u, request[g])'
    <3>1. Rotates(u, request[g]) /\ StaysGone(u, request[g])
      BY <2>1 DEF SessionsKept
    <3>2. CASE g = h
      <4>1. request[h].user = v /\ request[h].token = s
        BY DEF s, v
      <4> QED BY <1>0, <1>2, <1>3, <1>4, <1>5, <1>6, <3>1, <3>2, <4>1
              DEF Rotates, StaysGone, Issuing
    <3>3. CASE g # h
      BY <1>3, <1>4, <1>5, <1>6, <3>1, <3>3 DEF Rotates, StaysGone
    <3> QED BY <3>2, <3>3
  <2> QED BY <1>4, <1>5, <1>6, <2>1, <2>2, <2>3, RacedGrows DEF SessionsKept
<1> QED BY <1>7, <1>8, <1>9 DEF HIInv

\* A new token: the first of its login, or the successor of a revoked one.
LEMMA IssueKeeps ==
    ASSUME HIInv, HNext, IInv', NEW h \in Handlers, NEW s \in Tokens, NEW received \in BOOLEAN,
           Issue(h, s, received)
    PROVE  HIInv'
<1> USE SessionsAssumption
<1>0. /\ IInv /\ Known(request[h]) /\ Presents(request[h]) /\ request[h].at = "issue"
      /\ request[h] \in Request
  BY DEF HIInv, IInv, TypeOK, Issue
<1>1. PICK v \in Users : v = request[h].user
  BY <1>0 DEF Known
<1>2. \A g \in Handlers : request'[g] = IF g = h THEN Idle ELSE request[g]
  BY <1>0 DEF Issue, Return, IInv, TypeOK
<1>3. /\ ~Issued(s) /\ token[s] = NoRow
      /\ \A t \in Tokens \ {s} : token'[t] = token[t]
      /\ token'[s].user = v /\ ~token'[s].revoked /\ token'[s] # NoRow
      /\ UNCHANGED <<hash, anonymized, address>>
  BY <1>0, <1>1 DEF Issue, IInv, TypeOK, Issued, NoRow
<1>4. Exists(v)
  BY <1>0, <1>1 DEF Presents
<1>5. origin' = [origin EXCEPT ![s] = OriginOf(h, s)]
  <2>1. \A g \in Handlers : request[g].at = "issue" /\ request'[g] = Idle <=> g = h
    BY <1>0, <1>2 DEF Idle
  <2>2. (CHOOSE g \in Handlers : request[g].at = "issue" /\ request'[g] = Idle) = h
    BY <2>1
  <2>3. \A t \in Tokens : origin'[t] = IF t = s THEN OriginOf(h, s) ELSE origin[t]
    BY <1>3, <2>2 DEF HNext
  <2> QED BY <2>3 DEF HNext, HIInv, RowsDescend
<1>6. /\ OriginOf(h, s) \in [login: Tokens, hash: 0..MaxHashes]
      /\ request[h].token = NoToken => OriginOf(h, s) = [login |-> s, hash |-> hash[v]]
      /\ request[h].token # NoToken =>
           /\ request[h].token \in Tokens /\ token[request[h].token].user = v
           /\ OriginOf(h, s) = origin[request[h].token]
  <2>1. request[h].token # NoToken =>
          request[h].token \in Tokens /\ token[request[h].token].user = v
    BY <1>0, <1>1 DEF Presents, Request
  <2>2. hash[v] \in 0..MaxHashes
    BY <1>0 DEF IInv, TypeOK
  <2> QED BY <1>1, <2>1, <2>2 DEF OriginOf, HIInv, RowsDescend
<1>7. /\ \A u \in Users \ {v} : Alive(u)' = Alive(u)
      /\ Alive(v)' = Alive(v) \union {s} /\ s \notin Alive(v)
  <2>1. \A t \in Tokens \ {s} : Live(t)' <=> Live(t)
    BY <1>3 DEF Live
  <2>2. Live(s)' /\ ~Live(s)
    BY <1>3 DEF Live, Issued
  <2> QED BY <1>3, <2>1, <2>2 DEF Alive, Issued
<1>8. RowsDescend'
  <2>1. Issued(s)' /\ \A t \in Tokens : Issued(t) => Issued(t)'
    BY <1>3 DEF Issued
  <2>2. ASSUME NEW t \in Tokens, Issued(t)'
        PROVE  /\ token'[t].user \in Users /\ Exists(token[t].user)'
               /\ Issued(origin[t].login)'
    <3>1. CASE t # s
      <4>1. /\ Issued(t) /\ origin'[t] = origin[t] /\ token'[t] = token[t]
            /\ origin[t].login \in Tokens
        BY <1>3, <1>5, <2>2, <3>1 DEF Issued, HIInv, RowsDescend
      <4> QED BY <1>3, <2>1, <4>1 DEF HIInv, RowsDescend, Exists
    <3>2. CASE t = s
      <4>1. origin'[s] = OriginOf(h, s)
        BY <1>5 DEF HIInv, RowsDescend
      <4>2. Issued(origin[s].login)'
        <5>1. CASE request[h].token = NoToken
          BY <1>6, <2>1, <4>1, <5>1
        <5>2. CASE request[h].token # NoToken
          <6>1. Issued(request[h].token) /\ origin[request[h].token].login \in Tokens
            BY <1>6, <5>2 DEF Issued, HIInv, RowsDescend
          <6>2. Issued(origin[request[h].token].login)
            BY <1>6, <5>2, <6>1 DEF HIInv, RowsDescend
          <6> QED BY <1>6, <2>1, <4>1, <5>2, <6>1, <6>2
        <5> QED BY <5>1, <5>2
      <4> QED BY <1>3, <1>4, <3>2, <4>2 DEF Exists
    <3> QED BY <3>1, <3>2
  <2>3. \A t \in Tokens : token'[t] # NoRow => Issued(t)'
    BY <1>3, <2>1 DEF HIInv, RowsDescend, Issued
  <2> QED BY <1>5, <1>6, <2>2, <2>3 DEF HIInv, RowsDescend
<1>9. ASSUME NEW g \in Handlers PROVE Presents(request[g])'
  <2>1. CASE g = h
    BY <1>2, <2>1 DEF Presents, Idle
  <2>2. CASE g # h
    <3>1. request[g] \in Request
      BY <1>0 DEF IInv, TypeOK
    <3>2. request[g].token # NoToken /\ request[g].at \in {"user", "revoke", "issue"} =>
            request[g].token # s
      <4>1. request[g].at \in {"user", "revoke", "issue"} => request[g].user \in Users
        BY <1>0 DEF IInv, Known
      <4> QED BY <1>3, <4>1 DEF HIInv, Presents, Issued
    <3> QED BY <1>2, <1>3, <2>2, <3>1, <3>2 DEF HIInv, Presents, Exists, Request
  <2> QED BY <2>1, <2>2
<1>10. ASSUME NEW u \in Users \ raced' PROVE SessionsKept(u)'
  <2>1. SessionsKept(u) /\ u \notin raced
    BY RacedGrows DEF HIInv
  <2>2. \A t \in Tokens : Issued(t) => origin'[t] = origin[t]
    BY OriginKept
  <2>3. \A t \in Alive(u) : Issued(t) /\ t \in Tokens
    BY DEF Alive, Live, Issued
  <2>4. CASE u # v
    <3>1. ASSUME NEW g \in Handlers PROVE Rotates(u, request[g])' /\ StaysGone(u, request[g])'
      <4>1. CASE g = h
        BY <1>2, <4>1 DEF Rotates, StaysGone, Idle, Issuing
      <4>2. CASE g # h
        <5>1. request[g].user = u /\ request[g].at \in {"user", "revoke", "issue"}
                /\ request[g].token # NoToken
                => Issued(request[g].token) /\ request[g].token \in Tokens
          BY <1>0 DEF HIInv, Presents, Issued, IInv, TypeOK, Request
        <5> QED BY <1>2, <1>3, <1>7, <2>1, <2>2, <2>3, <2>4, <4>2, <5>1
                DEF SessionsKept, Rotates, StaysGone
      <4> QED BY <4>1, <4>2
    <3>2. anonymized'[u] => Forgotten(u)'
      BY <1>3, <2>1, <2>4 DEF SessionsKept, Forgotten, Live
    <3> QED BY <1>3, <1>7, <2>1, <2>2, <2>3, <2>4, <3>1, <3>2, RacedGrows DEF SessionsKept
  <2>5. CASE u = v
    <3>1. ~anonymized[u] /\ Rotates(u, request[h])
      BY <1>0, <1>1, <2>1, <2>5 DEF SessionsKept, StaysGone, Issuing
    <3>2. \A g \in Handlers : request'[g].user # u
      BY <1>1, <1>2, <2>1, <2>5 DEF SessionsKept, Idle
    <3>3. \A g \in Handlers : Rotates(u, request[g])' /\ StaysGone(u, request[g])'
      BY <3>2 DEF Rotates, StaysGone
    <3>4. origin'[s] = OriginOf(h, s)
      BY <1>5 DEF HIInv, RowsDescend
    <3>5. OriginOf(h, s).hash = hash[u]
          /\ \A t \in Alive(u) : origin[t].login # OriginOf(h, s).login
      <4>1. CASE request[h].token = NoToken
        <5>1. \A t \in Alive(u) : Issued(origin[t].login)
          BY <2>3 DEF HIInv, RowsDescend
        <5> QED BY <1>3, <1>6, <2>5, <4>1, <5>1
      <4>2. CASE request[h].token # NoToken
        BY <1>0, <1>1, <1>6, <2>5, <3>1, <4>2 DEF Rotates
      <4> QED BY <4>1, <4>2
    <3>6. \A t1, t2 \in Alive(u)' : origin'[t1].login = origin'[t2].login => t1 = t2
      BY <1>7, <2>1, <2>2, <2>3, <2>5, <3>4, <3>5 DEF SessionsKept
    <3>7. \A t \in Alive(u)' : origin'[t].hash = hash'[u]
      BY <1>3, <1>7, <2>1, <2>2, <2>3, <2>5, <3>4, <3>5 DEF SessionsKept
    <3> QED BY <1>3, <3>1, <3>3, <3>6, <3>7, RacedGrows DEF SessionsKept
  <2> QED BY <2>4, <2>5
<1> QED BY <1>8, <1>9, <1>10 DEF HIInv

\* The other steps of a handler: what only reads the account again, or writes
\* neither its sessions nor its password.
LEMMA OthersKeep ==
    ASSUME HIInv, HNext, IInv', NEW h \in Handlers,
           RefreshUser(h) \/ ForgotMail(h) \/ OrderCommit(h) \/ Throw(h)
    PROVE  HIInv'
<1> USE SessionsAssumption
<1>0. IInv /\ request[h] \in Request /\ Known(request[h]) /\ Presents(request[h])
  BY DEF HIInv, IInv, TypeOK
<1>1. CASE RefreshUser(h)
  <2>1. CASE Return(h)
    BY <1>1, <2>1, ReturnKeeps DEF RefreshUser
  <2>2. CASE Active(request[h].user) /\ Goto(h, "revoke")
    <3> DEFINE r == [request[h] EXCEPT !.at = "revoke"]
    <3>1. r.at = "revoke" /\ r.user = request[h].user /\ r.token = request[h].token
      BY <1>0 DEF Request
    <3>2. \A g \in Handlers : request'[g] = IF g = h THEN r ELSE request[g]
      BY <1>0, <2>2 DEF Goto, IInv, TypeOK
    <3> HIDE DEF r
    <3>3. Presents(r)
      BY <1>0, <1>1, <3>1 DEF RefreshUser, Presents
    <3>4. \A u \in Users \ raced : Rotates(u, r) /\ StaysGone(u, r)
      BY <1>1, <2>2, <3>1 DEF RefreshUser, HIInv, SessionsKept, Rotates, StaysGone, Active
    <3>5. UNCHANGED <<hash, anonymized, address, token>>
      BY <1>1 DEF RefreshUser
    <3> QED BY <3>2, <3>3, <3>4, <3>5, QuietKeeps
  <2> QED BY <1>1, <2>1, <2>2 DEF RefreshUser
<1>2. CASE ForgotMail(h)
  BY <1>2, ReturnKeeps DEF ForgotMail
<1>3. CASE OrderCommit(h)
  <2>1. ASSUME NEW u \in Users, address'[u], ~address[u]
        PROVE  u \in raced \/ ~anonymized[u]
    <3>1. request[h].user = u /\ request[h].at = "order"
      BY <1>0, <1>3, <2>1 DEF OrderCommit, IInv, TypeOK
    <3> QED BY <3>1 DEF HIInv, SessionsKept, StaysGone, Issuing
  <2> QED BY <1>3, <2>1, ReturnKeeps DEF OrderCommit
<1>4. CASE Throw(h)
  BY <1>4, ReturnKeeps DEF Throw
<1> QED BY <1>1, <1>2, <1>3, <1>4

LEMMA HStepIInv == HIInv /\ [HNext]_hvars => HIInv'
<1> SUFFICES ASSUME HIInv, [HNext]_hvars PROVE HIInv'
  OBVIOUS
<1>1. CASE UNCHANGED hvars
  <2>1. IInv'
    BY <1>1, StepIInv DEF HIInv, hvars
  <2> QED BY <1>1, <2>1
          DEF hvars, vars, HIInv, RowsDescend, Issued, Exists, Presents, SessionsKept, Alive,
              Live, Forgotten, Rotates, StaysGone
<1>2. CASE HNext
  <2>0. IInv' /\ Next
    BY <1>2, StepIInv DEF HIInv, HNext
  <2>1. ASSUME NEW h \in Handlers, Api(h) PROVE HIInv'
    BY <1>2, <2>0, <2>1, ReadsKeep, RevocationsKeep, RegisterKeeps, RotationKeeps, IssueKeeps,
       OthersKeep
    DEF Api
  <2>2. CASE Restart
    <3>1. \A g \in Handlers : request'[g] = Idle
      BY <2>2 DEF Restart
    <3>2. Presents(Idle) /\ \A u \in Users : Rotates(u, Idle) /\ StaysGone(u, Idle)
      BY DEF Presents, Idle, Rotates, StaysGone, Issuing
    <3> QED BY <1>2, <2>0, <2>2, <3>1, <3>2, QuietKeeps DEF Restart
  <2>3. ASSUME NEW t \in Tokens, TokenLapses(t) PROVE HIInv'
    <3>1. \A s \in Tokens : /\ token'[s].user = token[s].user
                            /\ token'[s].revoked = token[s].revoked
                            /\ token[s] = NoRow <=> token'[s] = NoRow
      <4>1. token[t] \in Token /\ token[t].user \in Users
        BY <2>3 DEF TokenLapses, HIInv, IInv, TypeOK, RowsNamed
      <4>2. token'[t].user = token[t].user /\ token'[t].revoked = token[t].revoked
        BY <2>3, <4>1 DEF TokenLapses, HIInv, IInv, TypeOK, Token
      <4>3. \A s \in Tokens \ {t} : token'[s] = token[s]
        BY <2>3 DEF TokenLapses, HIInv, IInv, TypeOK
      <4> QED BY <4>1, <4>2, <4>3, SessionsAssumption DEF NoRow
    <3> QED BY <1>2, <2>0, <2>3, <3>1, QuietKeeps DEF TokenLapses
  <2>4. ASSUME NEW v \in Users, NEW p \in 1..MaxHashes, LinkLapses(v, p) PROVE HIInv'
    BY <1>2, <2>0, <2>4, QuietKeeps DEF LinkLapses
  <2> QED BY <2>0, <2>1, <2>2, <2>3, <2>4 DEF Next
<1> QED BY <1>1, <1>2

LEMMA HInitIInv == HInit => HIInv
<1> SUFFICES ASSUME HInit PROVE HIInv
  OBVIOUS
<1> USE SessionsAssumption
<1>1. IInv
  BY InitIInv DEF HInit
<1>2. \A t \in Tokens : token[t] = NoRow /\ ~Issued(t) /\ ~Live(t)
  BY DEF HInit, Init, Issued, Live, NoRow
<1>3. RowsDescend
  BY <1>2 DEF HInit, RowsDescend
<1>4. \A h \in Handlers : request[h] = Idle
  BY DEF HInit, Init
<1>5. \A h \in Handlers : Presents(request[h])
  BY <1>4 DEF Presents, Idle
<1>6. ASSUME NEW u \in Users PROVE SessionsKept(u)
  BY <1>2, <1>4 DEF HInit, Init, SessionsKept, Alive, Forgotten, Rotates, StaysGone, Issuing, Idle
<1> QED BY <1>1, <1>3, <1>5, <1>6 DEF HIInv

\* What a refresh may count on while nothing else is under way for its account.
THEOREM OverlapsInvariance == HSpec => []HIInv
BY HInitIInv, HStepIInv, PTL DEF HSpec

\* Rotation for any number of accounts, tokens and requests: a login has one
\* live token at most, unless requests of its account overlapped.
THEOREM OneSessionPerLoginHolds == HSpec => []OneSessionPerLogin
<1>1. HIInv => OneSessionPerLogin
  BY DEF HIInv, SessionsKept, OneSessionPerLogin
<1> QED BY <1>1, OverlapsInvariance, PTL

\* A new password ends the sessions of the old one, unless requests overlapped.
THEOREM PasswordEndsSessionsHolds == HSpec => []PasswordEndsSessions
<1>1. HIInv => PasswordEndsSessions
  BY DEF HIInv, SessionsKept, PasswordEndsSessions
<1> QED BY <1>1, OverlapsInvariance, PTL

\* LGPD: an anonymised account has no session and no address left, unless
\* requests overlapped.
THEOREM AnonymizedLeavesNothingHolds == HSpec => []AnonymizedLeavesNothing
<1>1. HIInv => AnonymizedLeavesNothing
  BY DEF HIInv, SessionsKept, AnonymizedLeavesNothing
<1> QED BY <1>1, OverlapsInvariance, PTL
=============================================================================
