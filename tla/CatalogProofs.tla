---------------------------- MODULE CatalogProofs ----------------------------
(***************************************************************************)
(* Proofs about CatalogOverlaps, for any number of handlers and changes.   *)
(***************************************************************************)
EXTENDS CatalogOverlaps, TLAPS

\* While nothing is disturbed one request is under way at most, and the copy
\* may differ from the database only between a change and its deletion.
Alone ==
    ~disturbed =>
        /\ \A g, h \in Handlers : request[g] # Idle /\ request[h] # Idle => g = h
        /\ (\A h \in Handlers : request[h].at # "invalidate") => Current
        /\ \A h \in Handlers : request[h].at = "fill" => request[h].seen = catalog

\* A handler at rest remembers nothing.
Rest == \A h \in Handlers : request[h].at = "idle" <=> request[h] = Idle

CInv == TypeOK /\ Rest /\ Alone

LEMMA InitCInv == HInit => CInv
BY CatalogAssumption
   DEF HInit, Init, CInv, TypeOK, Rest, Alone, Current, Version, Request, Idle

LEMMA IdleType == Idle \in Request /\ Idle.at = "idle"
BY CatalogAssumption DEF Idle, Request, Version

\* Handler h ends its request, or goes on with it.
LEMMA RequestStep ==
    ASSUME CInv, NEW h \in Handlers, NEW r \in Request, r.at = "idle" <=> r = Idle,
           request' = [request EXCEPT ![h] = r]
    PROVE  /\ request' \in [Handlers -> Request]
           /\ Rest'
           /\ request'[h] = r
           /\ \A g \in Handlers \ {h} : request'[g] = request[g]
BY DEF CInv, TypeOK, Rest

LEMMA TypeStep == CInv /\ [HNext]_hvars => TypeOK' /\ Rest'
<1> SUFFICES ASSUME CInv, [HNext]_hvars PROVE TypeOK' /\ Rest'
  OBVIOUS
<1>1. CASE UNCHANGED hvars
  BY <1>1 DEF hvars, vars, CInv, TypeOK, Rest
<1>2. ASSUME NEW h \in Handlers, LookUp(h) PROVE TypeOK' /\ Rest'
  <2> DEFINE r == [request[h] EXCEPT !.at = "query"]
  <2>1. r \in Request /\ r.at = "query"
    BY DEF CInv, TypeOK, Request
  <2> HIDE DEF r
  <2> QED BY <1>2, <2>1, IdleType, RequestStep DEF LookUp, Goto, CInv, TypeOK, r
<1>3. ASSUME NEW h \in Handlers, Query(h) PROVE TypeOK' /\ Rest'
  <2> DEFINE r == [at |-> "fill", seen |-> catalog]
  <2>1. r \in Request /\ r.at = "fill"
    BY DEF CInv, TypeOK, Request
  <2> HIDE DEF r
  <2> QED BY <1>3, <2>1, IdleType, RequestStep DEF Query, CInv, TypeOK, r
<1>4. ASSUME NEW h \in Handlers, Write(h) PROVE TypeOK' /\ Rest'
  <2> DEFINE r == [request[h] EXCEPT !.at = "invalidate"]
  <2>1. r \in Request /\ r.at = "invalidate"
    BY DEF CInv, TypeOK, Request
  <2>2. catalog' \in Version
    BY <1>4, CatalogAssumption DEF Write, CInv, TypeOK, Version
  <2> HIDE DEF r
  <2> QED BY <1>4, <2>1, <2>2, IdleType, RequestStep DEF Write, Goto, CInv, TypeOK, r
<1>5. ASSUME NEW h \in Handlers, Throw(h) PROVE TypeOK' /\ Rest'
  BY <1>5, IdleType, RequestStep DEF Throw, Return, CInv, TypeOK
<1>6. ASSUME NEW h \in Handlers, NEW answers \in BOOLEAN, Fill(h, answers)
      PROVE  TypeOK' /\ Rest'
  <2>1. [list |-> request[h].seen, expires |-> TRUE] \in Entry
    BY DEF CInv, TypeOK, Request, Entry
  <2> QED BY <1>6, <2>1, IdleType, RequestStep DEF Fill, Return, CInv, TypeOK
<1>7. ASSUME NEW h \in Handlers, NEW answers \in BOOLEAN, Invalidate(h, answers)
      PROVE  TypeOK' /\ Rest'
  BY <1>7, IdleType, RequestStep DEF Invalidate, Return, CInv, TypeOK
<1>8. CASE Restart
  BY <1>8, IdleType DEF Restart, CInv, TypeOK, Rest
<1>9. CASE Expire
  BY <1>9 DEF Expire, CInv, TypeOK, Rest
<1> QED BY <1>1, <1>2, <1>3, <1>4, <1>5, <1>6, <1>7, <1>8, <1>9 DEF HNext, Next

LEMMA AloneStep == CInv /\ [HNext]_hvars => Alone'
<1> SUFFICES ASSUME CInv, [HNext]_hvars, ~disturbed' PROVE Alone'
  BY DEF Alone
<1>1. CASE UNCHANGED hvars
  BY <1>1 DEF hvars, vars, CInv, Alone, Current
<1>2. CASE HNext
  <2>1. ~disturbed /\ ~LostInvalidation
    BY <1>2 DEF HNext
  <2>2. \A g, h \in Handlers : request'[g] # Idle /\ request'[h] # Idle => g = h
    BY <1>2 DEF HNext, Busy
  <2> DEFINE Fresh == (\A h \in Handlers : request[h].at # "invalidate") => Current
             Seen == \A h \in Handlers : request[h].at = "fill" => request[h].seen = catalog
  <2>3. Fresh /\ Seen
    BY <2>1 DEF CInv, Alone
  <2>4. TypeOK /\ Rest /\ Idle \in Request /\ Idle.at = "idle"
    BY IdleType DEF CInv
  <2>5. ASSUME NEW h \in Handlers, LookUp(h) PROVE Fresh' /\ Seen'
    BY <2>3, <2>4, <2>5 DEF LookUp, Goto, TypeOK, Idle, Current
  <2>6. ASSUME NEW h \in Handlers, Query(h) PROVE Fresh' /\ Seen'
    BY <2>3, <2>4, <2>6 DEF Query, TypeOK, Current
  <2>7. ASSUME NEW h \in Handlers, Write(h) PROVE Fresh' /\ Seen'
    <3>1. request'[h].at = "invalidate"
      BY <2>4, <2>7 DEF Write, Goto, TypeOK, Request
    <3>2. \A g \in Handlers \ {h} : request'[g] = Idle
      BY <2>2, <2>4, <3>1
    <3> QED BY <2>4, <3>1, <3>2
  <2>8. ASSUME NEW h \in Handlers, Throw(h) PROVE Fresh' /\ Seen'
    BY <2>3, <2>4, <2>8 DEF Throw, Return, TypeOK, Idle, Current
  <2>9. ASSUME NEW h \in Handlers, NEW answers \in BOOLEAN, Fill(h, answers)
        PROVE  Fresh' /\ Seen'
    <3>1. request[h].seen = catalog
      BY <2>3, <2>9 DEF Fill
    <3> QED BY <2>3, <2>4, <2>9, <3>1 DEF Fill, Return, TypeOK, Idle, Current
  <2>10. ASSUME NEW h \in Handlers, NEW answers \in BOOLEAN, Invalidate(h, answers)
         PROVE  Fresh' /\ Seen'
    <3>1. cache' = Miss
      BY <2>1, <2>4, <2>10 DEF LostInvalidation, Invalidate, Return, TypeOK
    <3> QED BY <2>3, <2>4, <2>10, <3>1 DEF Invalidate, Return, TypeOK, Idle, Current
  <2>11. ASSUME Restart PROVE Fresh' /\ Seen'
    <3>1. \A h \in Handlers : request'[h] = Idle
      BY <2>11 DEF Restart
    <3>2. Current'
      <4>1. CASE \E h \in Handlers : request[h].at = "invalidate"
        BY <3>1, <4>1, <2>1, <2>11 DEF LostInvalidation, Current
      <4>2. CASE \A h \in Handlers : request[h].at # "invalidate"
        BY <4>2, <2>3, <2>11 DEF Restart, Current
      <4> QED BY <4>1, <4>2
    <3> QED BY <2>4, <3>1, <3>2
  <2>12. ASSUME Expire PROVE Fresh' /\ Seen'
    BY <2>3, <2>12 DEF Expire, Current
  <2> QED BY <1>2, <2>2, <2>5, <2>6, <2>7, <2>8, <2>9, <2>10, <2>11, <2>12
          DEF HNext, Next, Alone
<1> QED BY <1>1, <1>2

\* findAllActive: for any number of handlers and changes, without overlap and
\* without a lost deletion the copy at rest is the list in the database.
THEOREM CurrentUnlessDisturbedHolds == HSpec => []CurrentUnlessDisturbed
<1>1. CInv => CurrentUnlessDisturbed
  BY IdleType DEF CInv, Rest, Alone, CurrentUnlessDisturbed, Busy
<1>2. CInv /\ [HNext]_hvars => CInv'
  BY TypeStep, AloneStep DEF CInv
<1> QED BY <1>1, <1>2, InitCInv, PTL DEF HSpec
=============================================================================
