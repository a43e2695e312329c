---------------------------- MODULE LoyaltyProofs ----------------------------
(***************************************************************************)
(* Proofs about Loyalty, for any customers, orders, prices and number of   *)
(* overlapping requests: the level is the one of the points, no order      *)
(* counts twice, and the points are the sum of the purchases counted.      *)
(***************************************************************************)
EXTENDS LoyaltyOverlaps, FiniteSetTheorems, WellFoundedInduction, TLAPS

\* A handler on its way to an award knows an order, and a snapshot whose
\* level is the one of its points.
Snapshot(h) ==
    /\ request[h].at # "idle" => request[h].order \in Orders /\ request[h].to \in OrderStatus
    /\ request[h].at \in {"find", "commit"} =>
        request[h].level = calculateLevelFromXp(request[h].xp)

IInv ==
    /\ TypeOK
    /\ LevelFollowsXp
    /\ \A h \in Handlers : Snapshot(h)

\* Points are whole numbers.
LEMMA EarnedType == \A o \in Orders : Earned(o) \in Nat
BY LoyaltyAssumption DEF Earned, calculateEarnedXpFromCents

\* More points never mean a lower level, so keeping the higher of the old level
\* and the reached one is the reached one.
LEMMA LevelGrows ==
    ASSUME NEW x \in Nat, NEW y \in Nat
    PROVE  /\ calculateLevelFromXp(x) \in Nat
           /\ calculateLevelFromXp(x + y) >= calculateLevelFromXp(x)
BY DEF calculateLevelFromXp

LEMMA InitIInv == Init => IInv
<1> SUFFICES ASSUME Init PROVE IInv
  OBVIOUS
<1>1. TypeOK
  BY DEF Init, TypeOK, Request, Idle, OrderStatus
<1>2. LevelFollowsXp
  BY DEF Init, LevelFollowsXp, calculateLevelFromXp
<1>3. \A h \in Handlers : Snapshot(h)
  BY DEF Init, Snapshot, Idle
<1> QED BY <1>1, <1>2, <1>3 DEF IInv

\* The request of handler h becomes r; every other handler waits.
LEMMA OnlyRequest ==
    ASSUME IInv, NEW h \in Handlers, NEW r \in Request,
           request' = [request EXCEPT ![h] = r],
           r.at # "idle" => r.order \in Orders /\ r.to \in OrderStatus,
           r.at \in {"find", "commit"} => r.level = calculateLevelFromXp(r.xp)
    PROVE  /\ request' \in [Handlers -> Request]
           /\ \A g \in Handlers : Snapshot(g)'
<1>1. request'[h] = r /\ \A g \in Handlers \ {h} : request'[g] = request[g]
  BY DEF IInv, TypeOK
<1> QED BY <1>1 DEF IInv, TypeOK, Snapshot

LEMMA IdleType == Idle \in Request
BY DEF Idle, Request

LEMMA ReturnStep ==
    ASSUME IInv, NEW h \in Handlers, Return(h)
    PROVE  /\ request' \in [Handlers -> Request]
           /\ \A g \in Handlers : Snapshot(g)'
BY IdleType, OnlyRequest DEF Return, Idle

LEMMA StepIInv == IInv /\ [Next]_vars => IInv'
<1> SUFFICES ASSUME IInv, [Next]_vars PROVE IInv'
  OBVIOUS
<1>1. CASE UNCHANGED vars
  BY <1>1 DEF vars, IInv, TypeOK, LevelFollowsXp, Snapshot
<1>2. ASSUME NEW h \in Handlers, NEW o \in Orders, NEW target \in OrderStatus,
             TransitionRead(h, o, target)
      PROVE  IInv'
  <2> DEFINE r == [Idle EXCEPT !.at = "write", !.order = o, !.to = target]
  <2>1. r \in Request /\ r.at = "write" /\ r.order = o /\ r.to = target
    BY DEF Idle, Request
  <2>2. request' = [request EXCEPT ![h] = r] /\ UNCHANGED <<status, xp, level, ledger>>
    BY <1>2 DEF TransitionRead
  <2> HIDE DEF r
  <2>3. request' \in [Handlers -> Request] /\ \A g \in Handlers : Snapshot(g)'
    BY <2>1, <2>2, OnlyRequest
  <2> QED BY <2>2, <2>3 DEF IInv, TypeOK, LevelFollowsXp
<1>3. ASSUME NEW h \in Handlers, TransitionWrite(h) PROVE IInv'
  <2>1. /\ request[h] \in Request /\ request[h].order \in Orders
        /\ request[h].to \in OrderStatus
    BY <1>3 DEF TransitionWrite, IInv, TypeOK, Snapshot
  <2>2. request' \in [Handlers -> Request] /\ \A g \in Handlers : Snapshot(g)'
    <3>1. CASE Return(h)
      BY <3>1, ReturnStep
    <3>2. CASE request' = [request EXCEPT ![h].at = "award"]
      <4> DEFINE r == [request[h] EXCEPT !.at = "award"]
      <4>1. r \in Request /\ r.at = "award" /\ r.order = request[h].order /\ r.to = request[h].to
        BY <2>1 DEF Request
      <4>2. request' = [request EXCEPT ![h] = r]
        BY <3>2
      <4> HIDE DEF r
      <4> QED BY <2>1, <4>1, <4>2, OnlyRequest
    <3> QED BY <1>3, <3>1, <3>2 DEF TransitionWrite
  <2>3. status' \in [Orders -> OrderStatus] /\ UNCHANGED <<xp, level, ledger>>
    BY <1>3, <2>1 DEF TransitionWrite, IInv, TypeOK
  <2> QED BY <2>2, <2>3 DEF IInv, TypeOK, LevelFollowsXp
<1>4. ASSUME NEW h \in Handlers, AwardRead(h) PROVE IInv'
  <2> DEFINE user == Customer[request[h].order]
             r == [request[h] EXCEPT !.at = "find", !.xp = xp[user], !.level = level[user]]
  <2>1. /\ request[h] \in Request /\ request[h].order \in Orders
        /\ request[h].to \in OrderStatus
    BY <1>4 DEF AwardRead, IInv, TypeOK, Snapshot
  <2>2. user \in Users /\ xp[user] \in Nat /\ level[user] \in Nat
        /\ level[user] = calculateLevelFromXp(xp[user])
    BY <2>1, LoyaltyAssumption DEF IInv, TypeOK, LevelFollowsXp
  <2>3. /\ r \in Request /\ r.order = request[h].order /\ r.to = request[h].to
        /\ r.xp = xp[user] /\ r.level = level[user]
    BY <2>1, <2>2 DEF Request
  <2>4. request' = [request EXCEPT ![h] = r] /\ UNCHANGED <<status, xp, level, ledger>>
    BY <1>4 DEF AwardRead
  <2> HIDE DEF r
  <2>5. request' \in [Handlers -> Request] /\ \A g \in Handlers : Snapshot(g)'
    BY <2>1, <2>2, <2>3, <2>4, OnlyRequest
  <2> QED BY <2>4, <2>5 DEF IInv, TypeOK, LevelFollowsXp
<1>5. ASSUME NEW h \in Handlers, AwardFind(h) PROVE IInv'
  <2>1. /\ request[h] \in Request /\ request[h].order \in Orders
        /\ request[h].to \in OrderStatus
        /\ request[h].level = calculateLevelFromXp(request[h].xp)
    BY <1>5 DEF AwardFind, IInv, TypeOK, Snapshot
  <2>2. request' \in [Handlers -> Request] /\ \A g \in Handlers : Snapshot(g)'
    <3>1. CASE Return(h)
      BY <3>1, ReturnStep
    <3>2. CASE request' = [request EXCEPT ![h].at = "commit"]
      <4> DEFINE r == [request[h] EXCEPT !.at = "commit"]
      <4>1. /\ r \in Request /\ r.at = "commit" /\ r.order = request[h].order
            /\ r.to = request[h].to /\ r.xp = request[h].xp /\ r.level = request[h].level
        BY <2>1 DEF Request
      <4>2. request' = [request EXCEPT ![h] = r]
        BY <3>2
      <4> HIDE DEF r
      <4> QED BY <2>1, <4>1, <4>2, OnlyRequest
    <3> QED BY <1>5, <3>1, <3>2 DEF AwardFind
  <2> QED BY <1>5, <2>2 DEF AwardFind, IInv, TypeOK, LevelFollowsXp
<1>6. ASSUME NEW h \in Handlers, AwardCommit(h) PROVE IInv'
  <2> DEFINE o == request[h].order
             user == Customer[o]
             totalXp == request[h].xp + Earned(o)
             reached == calculateLevelFromXp(totalXp)
  <2>1. /\ request[h] \in Request /\ o \in Orders /\ user \in Users
        /\ request[h].level = calculateLevelFromXp(request[h].xp)
    BY <1>6, LoyaltyAssumption DEF AwardCommit, IInv, TypeOK, Snapshot
  <2>2. request[h].xp \in Nat /\ Earned(o) \in Nat
    BY <2>1, EarnedType DEF Request
  <2>3. totalXp \in Nat /\ reached \in Nat /\ reached >= request[h].level
        /\ request[h].level \in Nat
    BY <2>1, <2>2, LevelGrows
  <2>4. (IF reached > request[h].level THEN reached ELSE request[h].level) = reached
    BY <2>3
  <2>5. /\ xp' = [xp EXCEPT ![user] = totalXp]
        /\ level' = [level EXCEPT ![user] = reached]
        /\ ledger' = [ledger EXCEPT ![o] = @ + 1]
        /\ Return(h) /\ UNCHANGED status
    BY <1>6, <2>4 DEF AwardCommit
  <2> HIDE DEF totalXp
  <2>6. xp' \in [Users -> Nat] /\ level' \in [Users -> Nat] /\ ledger' \in [Orders -> Nat]
    BY <2>1, <2>3, <2>5 DEF IInv, TypeOK
  <2>7. LevelFollowsXp'
    BY <2>1, <2>5 DEF IInv, TypeOK, LevelFollowsXp
  <2> QED BY <2>5, <2>6, <2>7, ReturnStep DEF IInv, TypeOK
<1>7. ASSUME NEW h \in Handlers, Throw(h) PROVE IInv'
  BY <1>7, ReturnStep DEF Throw, IInv, TypeOK, LevelFollowsXp
<1>8. CASE Restart
  BY <1>8, IdleType DEF Restart, IInv, TypeOK, LevelFollowsXp, Snapshot, Idle
<1> QED BY <1>1, <1>2, <1>3, <1>4, <1>5, <1>6, <1>7, <1>8 DEF Next

\* RN04: however awards overlap, fail or are lost, the level stored is the
\* level of the points stored.
THEOREM LevelFollowsXpHolds == Spec => []LevelFollowsXp
<1>1. IInv => LevelFollowsXp
  BY DEF IInv
<1> QED BY <1>1, InitIInv, StepIInv, PTL DEF Spec

-----------------------------------------------------------------------------
(* The points of a finite set of orders, in whatever order they are added *)

\* The element a sum takes first, and what the recursive function of a sum is.
Pick(s) == CHOOSE x \in s : TRUE
AddsUp(g, S) == g = [s \in SUBSET S |-> IF s = {} THEN 0 ELSE Earned(Pick(s)) + g[s \ {Pick(s)}]]

Total(S) == MapThenSumSet(Earned, S)

\* The sum is what such a function gives, if there is one.
LEMMA Iterate ==
    ASSUME NEW S, \E g : AddsUp(g, S)
    PROVE  \E g : AddsUp(g, S) /\ Total(S) = g[S]
<1> DEFINE it == CHOOSE g : AddsUp(g, S)
<1>1. AddsUp(it, S)
  OBVIOUS
<1>2. Total(S) = it[S]
  BY DEF Total, MapThenSumSet, MapThenFoldSet, AddsUp, Pick
<1> QED BY <1>1, <1>2

\* A collection of finite sets, unless it is empty, has one with no smaller one in it.
LEMMA Smallest ==
    ASSUME NEW S, IsFiniteSet(S), NEW C, C \subseteq SUBSET S, C # {}
    PROVE  \E T \in C : \A U \in C : U \subseteq T => U = T
<1>1. C \subseteq FiniteSubsetsOf(S)
  BY FS_Subset DEF FiniteSubsetsOf
<1>2. IsWellFoundedOn(StrictSubsetOrdering(S), FiniteSubsetsOf(S))
  BY FS_StrictSubsetOrderingWellFounded
<1>3. PICK T \in C : \A U \in C : ~(<<U, T>> \in StrictSubsetOrdering(S))
  BY <1>1, <1>2, WFMin
<1> QED BY <1>3 DEF StrictSubsetOrdering

\* Two iterations agree.
LEMMA OneIteration ==
    ASSUME NEW S, IsFiniteSet(S), NEW g, AddsUp(g, S), NEW T \in SUBSET S, NEW h, AddsUp(h, T)
    PROVE  h[T] = g[T]
<1> DEFINE C == {U \in SUBSET T : h[U] # g[U]}
<1>1. SUFFICES ASSUME C # {} PROVE FALSE
  OBVIOUS
<1>2. IsFiniteSet(T) /\ C \subseteq SUBSET T
  BY FS_Subset
<1> HIDE DEF C
<1>3. PICK U \in C : \A V \in C : V \subseteq U => V = U
  BY <1>1, <1>2, Smallest
<1>4. U \in SUBSET T /\ U \in SUBSET S /\ h[U] # g[U]
  BY DEF C
<1>5. /\ h[U] = IF U = {} THEN 0 ELSE Earned(Pick(U)) + h[U \ {Pick(U)}]
      /\ g[U] = IF U = {} THEN 0 ELSE Earned(Pick(U)) + g[U \ {Pick(U)}]
  BY <1>4 DEF AddsUp
<1>6. U # {}
  BY <1>4, <1>5
<1>7. Pick(U) \in U
  BY <1>6 DEF Pick
<1>8. U \ {Pick(U)} \notin C
  BY <1>3, <1>7
<1>9. h[U \ {Pick(U)}] = g[U \ {Pick(U)}]
  BY <1>4, <1>8 DEF C
<1> QED BY <1>4, <1>5, <1>9

\* There is one: it is made of the sums of the smaller sets.
LEMMA Iteration ==
    ASSUME NEW S, IsFiniteSet(S)
    PROVE  \E g : AddsUp(g, S)
<1> DEFINE C == {T \in SUBSET S : ~\E g : AddsUp(g, T)}
<1>1. SUFFICES ASSUME C # {} PROVE FALSE
  OBVIOUS
<1>2. C \subseteq SUBSET S
  OBVIOUS
<1> HIDE DEF C
<1>3. PICK T \in C : \A U \in C : U \subseteq T => U = T
  BY <1>1, <1>2, Smallest
<1>4. T \in SUBSET S /\ ~\E g : AddsUp(g, T)
  BY DEF C
<1>5. ASSUME NEW U \in SUBSET T, U # T
      PROVE  \E g : AddsUp(g, U) /\ Total(U) = g[U]
  <2>1. U \notin C /\ U \in SUBSET S
    BY <1>3, <1>4, <1>5
  <2> QED BY <2>1, Iterate DEF C
<1> DEFINE h == [U \in SUBSET T |->
                IF U # T THEN Total(U)
                ELSE IF U = {} THEN 0 ELSE Earned(Pick(U)) + Total(U \ {Pick(U)})]
<1>6. ASSUME NEW U \in SUBSET T
      PROVE  h[U] = IF U = {} THEN 0 ELSE Earned(Pick(U)) + h[U \ {Pick(U)}]
  <2> DEFINE V == U \ {Pick(U)}
  <2>1. U # {} => Pick(U) \in U
    BY DEF Pick
  <2>2. U # {} => V \in SUBSET T /\ V \in SUBSET U /\ V # T /\ h[V] = Total(V)
    BY <2>1
  <2>3. CASE U = T
    BY <2>2, <2>3
  <2>4. CASE U # T
    <3>1. PICK g : AddsUp(g, U) /\ Total(U) = g[U]
      BY <1>5, <2>4
    <3>2. g[U] = IF U = {} THEN 0 ELSE Earned(Pick(U)) + g[V]
      BY <3>1 DEF AddsUp
    <3>3. U # {} => Total(V) = g[V]
      <4>1. SUFFICES ASSUME U # {} PROVE Total(V) = g[V]
        OBVIOUS
      <4>2. PICK f : AddsUp(f, V) /\ Total(V) = f[V]
        BY <1>5, <2>2, <4>1
      <4>3. IsFiniteSet(U)
        BY <1>4, FS_Subset
      <4> QED BY <2>2, <3>1, <4>1, <4>2, <4>3, OneIteration
    <3> QED BY <2>2, <2>4, <3>1, <3>2, <3>3
  <2> QED BY <2>3, <2>4
<1>7. AddsUp(h, T)
  BY <1>6 DEF AddsUp
<1> QED BY <1>4, <1>7

LEMMA Iterates ==
    ASSUME NEW S, IsFiniteSet(S)
    PROVE  \E g : AddsUp(g, S) /\ Total(S) = g[S]
BY Iterate, Iteration

\* The recurrence, for the sum itself.
LEMMA SumStep ==
    ASSUME NEW S, IsFiniteSet(S)
    PROVE  /\ S = {} => Total(S) = 0
           /\ S # {} => /\ Pick(S) \in S
                        /\ Total(S) = Earned(Pick(S)) + Total(S \ {Pick(S)})
<1> DEFINE T == S \ {Pick(S)}
<1>1. PICK g : AddsUp(g, S) /\ Total(S) = g[S]
  BY Iterates
<1>2. IsFiniteSet(T) /\ T \in SUBSET S
  BY FS_Subset
<1>3. PICK h : AddsUp(h, T) /\ Total(T) = h[T]
  BY <1>2, Iterates
<1>4. h[T] = g[T]
  BY <1>1, <1>2, <1>3, OneIteration
<1>5. g[S] = IF S = {} THEN 0 ELSE Earned(Pick(S)) + g[T]
  BY <1>1 DEF AddsUp
<1>6. S # {} => Pick(S) \in S
  BY DEF Pick
<1> QED BY <1>1, <1>3, <1>4, <1>5, <1>6

\* The sum of orders is a number, and any of them can be taken out.
LEMMA SumOut ==
    ASSUME NEW S, IsFiniteSet(S), S \subseteq Orders
    PROVE  /\ Total(S) \in Nat
           /\ \A y \in S : Total(S) = Earned(y) + Total(S \ {y})
<1> DEFINE Fine(T) ==
             /\ Total(T) \in Nat
             /\ \A y \in T : Total(T) = Earned(y) + Total(T \ {y})
           C == {T \in SUBSET S : ~Fine(T)}
<1>1. SUFFICES ASSUME C # {} PROVE FALSE
  OBVIOUS
<1>0. C \subseteq SUBSET S
  OBVIOUS
<1> HIDE DEF C
<1>2. PICK T \in C : \A U \in C : U \subseteq T => U = T
  BY <1>0, <1>1, Smallest
<1>3. T \in SUBSET S /\ ~Fine(T)
  BY DEF C
<1>4. \A U \in SUBSET S : U \subseteq T /\ U # T => Fine(U)
  BY <1>2 DEF C
<1>5. \A U \in SUBSET S : IsFiniteSet(U)
  BY FS_Subset
<1>6. CASE T = {}
  <2>1. Total(T) = 0
    BY <1>3, <1>5, <1>6, SumStep
  <2>2. Fine(T)
    BY <1>6, <2>1
  <2> QED BY <1>3, <2>2
<1>7. CASE T # {}
  <2> DEFINE c == Pick(T)
  <2>1. c \in T /\ Total(T) = Earned(c) + Total(T \ {c})
    BY <1>3, <1>5, <1>7, SumStep
  <2>2. Fine(T \ {c}) /\ Earned(c) \in Nat
    BY <1>3, <1>4, <2>1, EarnedType
  <2> HIDE DEF c
  <2>3. Total(T) \in Nat
    BY <2>1, <2>2
  <2>4. ASSUME NEW y \in T PROVE Total(T) = Earned(y) + Total(T \ {y})
    <3>1. CASE y = c
      BY <2>1, <3>1
    <3>2. CASE y # c
      <4> DEFINE R == T \ {c, y}
      <4>1. (T \ {c}) \ {y} = R /\ (T \ {y}) \ {c} = R
        OBVIOUS
      <4>2. Total(T \ {c}) = Earned(y) + Total(R)
        BY <2>2, <3>2, <4>1
      <4>3. Fine(T \ {y}) /\ Fine(R)
        BY <1>3, <1>4, <2>1
      <4>4. Total(T \ {y}) = Earned(c) + Total(R)
        BY <2>1, <3>2, <4>1, <4>3
      <4>5. Earned(y) \in Nat /\ Total(R) \in Nat
        BY <1>3, <4>3, EarnedType
      <4> QED BY <2>1, <2>2, <4>2, <4>4, <4>5
    <3> QED BY <3>1, <3>2
  <2> QED BY <1>3, <2>3, <2>4
<1> QED BY <1>6, <1>7


\* More orders never mean fewer points.
LEMMA TotalGrows ==
    ASSUME NEW S, NEW T, IsFiniteSet(T), S \subseteq T, T \subseteq Orders
    PROVE  Total(S) <= Total(T)
<1> DEFINE C == {U \in SUBSET T : S \subseteq U /\ ~(Total(S) <= Total(U))}
<1>1. SUFFICES ASSUME C # {} PROVE FALSE
  BY DEF C
<1>2. C \subseteq SUBSET T
  OBVIOUS
<1> HIDE DEF C
<1>3. PICK U \in C : \A V \in C : V \subseteq U => V = U
  BY <1>1, <1>2, Smallest
<1>4. U \in SUBSET T /\ S \subseteq U /\ ~(Total(S) <= Total(U))
  BY DEF C
<1>5. IsFiniteSet(U) /\ IsFiniteSet(S)
  BY <1>4, FS_Subset
<1>6. Total(S) \in Nat
  BY <1>5, SumOut
<1>7. PICK y \in U : y \notin S
  BY <1>4, <1>6
<1>8. Total(U) = Earned(y) + Total(U \ {y})
  BY <1>4, <1>5, SumOut
<1>9. Total(U \ {y}) \in Nat /\ Earned(y) \in Nat
  BY <1>4, <1>5, SumOut, FS_RemoveElement, EarnedType
<1>10. Total(S) <= Total(U \ {y})
  BY <1>3, <1>4, <1>7 DEF C
<1> QED BY <1>4, <1>6, <1>8, <1>9, <1>10

\* An order outside a set adds its points.
LEMMA TotalAdds ==
    ASSUME NEW S, S \subseteq Orders, NEW o \in Orders, o \notin S
    PROVE  Total(S \union {o}) = Total(S) + Earned(o)
<1>1. IsFiniteSet(S \union {o}) /\ IsFiniteSet(S)
  BY LoyaltyAssumption, FS_Subset
<1>2. (S \union {o}) \ {o} = S
  OBVIOUS
<1>3. Total(S) \in Nat /\ Earned(o) \in Nat
  BY <1>1, SumOut, EarnedType
<1>4. Total(S \union {o}) = Earned(o) + Total(S)
  BY <1>1, <1>2, SumOut
<1> QED BY <1>3, <1>4

-----------------------------------------------------------------------------
(* Overlapping awards *)

\* The orders of u that have an award.
Awarded(u) == {o \in Orders : Customer[o] = u /\ ledger[o] > 0}

LEMMA LedgerPointsTotal == \A u : LedgerPoints(u) = Total(Awarded(u))
BY DEF LedgerPoints, Total, Awarded

LEMMA AwardedTotal == \A u : Total(Awarded(u)) \in Nat /\ Awarded(u) \subseteq Orders
<1> SUFFICES ASSUME NEW u PROVE Total(Awarded(u)) \in Nat /\ Awarded(u) \subseteq Orders
  OBVIOUS
<1>1. Awarded(u) \subseteq Orders
  BY DEF Awarded
<1> QED BY <1>1, LoyaltyAssumption, FS_Subset, SumOut

\* A snapshot holds points of awarded orders only; the order of a handler that
\* found no award is not among them.
Backed(h) ==
    LET o == request[h].order
        awarded == Awarded(Customer[o])
    IN  /\ request[h].at = "find" => request[h].xp <= Total(awarded)
        /\ request[h].at = "commit" => request[h].xp + Earned(o) <= Total(awarded \union {o})

PInv ==
    /\ IInv
    /\ \A u \in Users : xp[u] <= Total(Awarded(u))
    /\ \A h \in Handlers : Backed(h)

LEMMA InitPInv == Init => PInv
<1> SUFFICES ASSUME Init PROVE PInv
  OBVIOUS
<1>1. IInv
  BY InitIInv
<1>2. \A u \in Users : xp[u] <= Total(Awarded(u))
  BY AwardedTotal DEF Init
<1>3. \A h \in Handlers : Backed(h)
  BY DEF Init, Backed, Idle
<1> QED BY <1>1, <1>2, <1>3 DEF PInv

\* Awards are added, and every other handler waits.
LEMMA Others ==
    ASSUME PInv, IInv', \A o \in Orders : ledger'[o] >= ledger[o],
           NEW h \in Handlers, request'[h] = request[h] \/ request'[h].at \notin {"find", "commit"}
    PROVE  Backed(h)'
<1>1. CASE request'[h].at \notin {"find", "commit"}
  BY <1>1 DEF Backed
<1>2. CASE request'[h] = request[h] /\ request[h].at \in {"find", "commit"}
  <2>1. PICK o \in Orders, u \in Users :
            o = request[h].order /\ u = Customer[o] /\ request[h] \in Request
    BY <1>2, LoyaltyAssumption DEF PInv, IInv, TypeOK, Snapshot
  <2>2. Awarded(u) \subseteq Awarded(u)'
    BY DEF Awarded, PInv, IInv, TypeOK
  <2>3. /\ Total(Awarded(u)) \in Nat /\ Total(Awarded(u)') \in Nat
        /\ Awarded(u)' \subseteq Orders /\ Awarded(u) \subseteq Orders
    <3>1. Awarded(u)' \subseteq Orders /\ Awarded(u) \subseteq Orders
      BY DEF Awarded
    <3> QED BY <3>1, LoyaltyAssumption, FS_Subset, SumOut
  <2> DEFINE A == Awarded(u)
             B == Awarded(u)'
  <2>4. Total(A) <= Total(B) /\ Total(A \union {o}) <= Total(B \union {o})
    <3>1. /\ IsFiniteSet(B) /\ IsFiniteSet(B \union {o})
          /\ A \union {o} \subseteq B \union {o} /\ B \union {o} \subseteq Orders
      BY <2>1, <2>2, <2>3, LoyaltyAssumption, FS_Subset
    <3> QED BY <2>2, <2>3, <3>1, TotalGrows
  <2>5. Total(A \union {o}) \in Nat /\ Total(B \union {o}) \in Nat
    <3>1. A \union {o} \in SUBSET Orders /\ B \union {o} \in SUBSET Orders
      BY <2>1, <2>3
    <3> QED BY <3>1, LoyaltyAssumption, FS_Subset, SumOut
  <2>6. request[h].xp \in Nat /\ Earned(o) \in Nat
    BY <2>1, EarnedType DEF Request
  <2>7. /\ request[h].at = "find" => request[h].xp <= Total(A)
        /\ request[h].at = "commit" => request[h].xp + Earned(o) <= Total(A \union {o})
    BY <2>1 DEF PInv, Backed
  <2>8. /\ request[h].at = "find" => request[h].xp <= Total(B)
        /\ request[h].at = "commit" => request[h].xp + Earned(o) <= Total(B \union {o})
    <3> HIDE DEF A, B
    <3> QED BY <2>3, <2>4, <2>5, <2>6, <2>7 DEF A, B
  <2>9. request'[h].order = o /\ request'[h].xp = request[h].xp /\ request'[h].at = request[h].at
    BY <1>2, <2>1
  <2> QED BY <2>1, <2>8, <2>9 DEF Backed
<1> QED BY <1>1, <1>2

LEMMA StepPInv == PInv /\ [Next]_vars => PInv'
<1> SUFFICES ASSUME PInv, [Next]_vars PROVE PInv'
  OBVIOUS
<1>0. IInv /\ IInv'
  BY StepIInv DEF PInv
<1>1. ASSUME NEW h \in Handlers, UNCHANGED <<xp, ledger>>,
             \A g \in Handlers \ {h} : request'[g] = request[g], Backed(h)'
      PROVE  PInv'
  <2>1. \A u \in Users : Awarded(u)' = Awarded(u)
    BY <1>1 DEF Awarded
  <2>2. \A u \in Users : xp'[u] <= Total(Awarded(u)')
    BY <1>1, <2>1 DEF PInv
  <2>3. \A o \in Orders : ledger'[o] >= ledger[o]
    BY <1>0, <1>1 DEF IInv, TypeOK
  <2>4. \A g \in Handlers : Backed(g)'
    BY <1>0, <1>1, <2>3, Others
  <2> QED BY <1>0, <2>2, <2>4 DEF PInv
<1>2. ASSUME NEW h \in Handlers, UNCHANGED <<xp, ledger>>,
             \A g \in Handlers \ {h} : request'[g] = request[g],
             request'[h].at \notin {"find", "commit"}
      PROVE  PInv'
  BY <1>1, <1>2 DEF Backed
<1>3. CASE UNCHANGED vars
  <2>1. \A u : Awarded(u)' = Awarded(u)
    BY <1>3 DEF vars, Awarded
  <2>2. \A h \in Handlers : Backed(h)'
    BY <1>3, <2>1 DEF vars, PInv, Backed
  <2> QED BY <1>0, <1>3, <2>1, <2>2 DEF vars, PInv
<1>4. ASSUME NEW h \in Handlers, NEW o \in Orders, NEW target \in OrderStatus,
             TransitionRead(h, o, target)
      PROVE  PInv'
  BY <1>0, <1>2, <1>4 DEF TransitionRead, Idle, IInv, TypeOK
<1>5. ASSUME NEW h \in Handlers, TransitionWrite(h) PROVE PInv'
  <2>1. UNCHANGED <<xp, ledger>> /\ \A g \in Handlers \ {h} : request'[g] = request[g]
    BY <1>0, <1>5 DEF TransitionWrite, Return, IInv, TypeOK
  <2>2. request'[h].at \notin {"find", "commit"}
    BY <1>0, <1>5 DEF TransitionWrite, Return, Idle, IInv, TypeOK, Request
  <2> QED BY <1>2, <2>1, <2>2
<1>6. ASSUME NEW h \in Handlers, AwardRead(h) PROVE PInv'
  <2>1. PICK o \in Orders, u \in Users :
            o = request[h].order /\ u = Customer[o] /\ request[h] \in Request
    BY <1>0, <1>6, LoyaltyAssumption DEF AwardRead, IInv, TypeOK, Snapshot
  <2>2. /\ UNCHANGED <<xp, ledger>> /\ \A g \in Handlers \ {h} : request'[g] = request[g]
        /\ request'[h].at = "find" /\ request'[h].order = o
        /\ request'[h].xp = xp[u]
    BY <1>0, <1>6, <2>1 DEF AwardRead, IInv, TypeOK, Request
  <2>3. xp[u] <= Total(Awarded(u))
    BY <2>1 DEF PInv
  <2>4. Awarded(u)' = Awarded(u)
    BY <2>2 DEF Awarded
  <2>5. Backed(h)'
    BY <2>1, <2>2, <2>3, <2>4 DEF Backed
  <2> QED BY <1>1, <2>2, <2>5
<1>7. ASSUME NEW h \in Handlers, AwardFind(h) PROVE PInv'
  <2>1. PICK o \in Orders, u \in Users :
            /\ o = request[h].order /\ u = Customer[o]
            /\ request[h] \in Request /\ request[h].xp \in Nat
    BY <1>0, <1>7, LoyaltyAssumption DEF AwardFind, IInv, TypeOK, Snapshot, Request
  <2>2. UNCHANGED <<xp, ledger>> /\ \A g \in Handlers \ {h} : request'[g] = request[g]
    BY <1>0, <1>7 DEF AwardFind, Return, IInv, TypeOK
  <2>3. CASE ledger[o] > 0
    BY <1>0, <1>2, <1>7, <2>1, <2>2, <2>3 DEF AwardFind, Return, Idle, IInv, TypeOK
  <2>4. CASE ~(ledger[o] > 0)
    <3>1. request'[h].at = "commit" /\ request'[h].order = o /\ request'[h].xp = request[h].xp
      BY <1>0, <1>7, <2>1, <2>4 DEF AwardFind, IInv, TypeOK, Request
    <3>2. request[h].xp <= Total(Awarded(u))
      BY <1>7, <2>1 DEF AwardFind, PInv, Backed
    <3>3. o \notin Awarded(u)
      BY <2>4 DEF Awarded
    <3>4. Total(Awarded(u) \union {o}) = Total(Awarded(u)) + Earned(o)
      BY <2>1, <3>3, AwardedTotal, TotalAdds
    <3>5. request[h].xp + Earned(o) <= Total(Awarded(u) \union {o})
      BY <2>1, <3>2, <3>4, AwardedTotal, EarnedType
    <3>6. Awarded(u)' = Awarded(u)
      BY <2>2 DEF Awarded
    <3>7. Backed(h)'
      BY <2>1, <3>1, <3>5, <3>6 DEF Backed
    <3> QED BY <1>1, <2>2, <3>7
  <2> QED BY <2>3, <2>4
<1>8. ASSUME NEW h \in Handlers, AwardCommit(h) PROVE PInv'
  <2>1. PICK o \in Orders, u \in Users :
            o = request[h].order /\ u = Customer[o] /\ request[h] \in Request
    BY <1>0, <1>8, LoyaltyAssumption DEF AwardCommit, IInv, TypeOK, Snapshot
  <2>2. /\ ledger' = [ledger EXCEPT ![o] = @ + 1]
        /\ xp' = [xp EXCEPT ![u] = request[h].xp + Earned(o)]
        /\ request' = [request EXCEPT ![h] = Idle]
    BY <1>8, <2>1 DEF AwardCommit, Return
  <2>3. \A p \in Orders : ledger[p] \in Nat /\ ledger'[p] = IF p = o THEN ledger[p] + 1 ELSE ledger[p]
    BY <1>0, <2>1, <2>2 DEF IInv, TypeOK
  <2>4. \A g \in Handlers : request'[g] = request[g] \/ request'[g].at \notin {"find", "commit"}
    BY <1>0, <2>2 DEF IInv, TypeOK, Idle
  <2>5. \A g \in Handlers : Backed(g)'
    BY <1>0, <2>3, <2>4, Others
  <2>6. Awarded(u)' = Awarded(u) \union {o}
    BY <2>1, <2>3 DEF Awarded
  <2>7. \A v \in Users \ {u} : Awarded(v)' = Awarded(v)
    BY <2>1, <2>3 DEF Awarded
  <2>8. request[h].xp + Earned(o) <= Total(Awarded(u) \union {o})
    BY <1>8, <2>1 DEF AwardCommit, PInv, Backed
  <2>9. ASSUME NEW v \in Users PROVE xp'[v] <= Total(Awarded(v)')
    <3>1. CASE v = u
      BY <1>0, <2>1, <2>2, <2>6, <2>8, <3>1 DEF IInv, TypeOK
    <3>2. CASE v # u
      BY <1>0, <2>1, <2>2, <2>7, <3>2 DEF IInv, TypeOK, PInv
    <3> QED BY <3>1, <3>2
  <2> QED BY <1>0, <2>5, <2>9 DEF PInv
<1>9. ASSUME NEW h \in Handlers, Throw(h) PROVE PInv'
  BY <1>0, <1>2, <1>9 DEF Throw, Return, Idle, IInv, TypeOK
<1>10. CASE Restart
  <2>1. \A u : Awarded(u)' = Awarded(u)
    BY <1>10 DEF Restart, Awarded
  <2>2. \A h \in Handlers : Backed(h)'
    BY <1>10 DEF Restart, Backed, Idle
  <2> QED BY <1>0, <1>10, <2>1, <2>2 DEF Restart, PInv
<1> QED BY <1>3, <1>4, <1>5, <1>6, <1>7, <1>8, <1>9, <1>10 DEF Next

\* Overlapping awards may lose points or leave two rows for an order, but for
\* any number of customers, orders and requests none counts twice.
THEOREM NoOrderCountsTwiceHolds == Spec => []NoOrderCountsTwice
<1>1. PInv => NoOrderCountsTwice
  BY LedgerPointsTotal DEF PInv, NoOrderCountsTwice
<1> QED BY <1>1, InitPInv, StepPInv, PTL DEF Spec

-----------------------------------------------------------------------------
(* Awards that do not overlap *)

\* The snapshot is what the customer has, and the order has no award.
Fresh(h) ==
    LET o == request[h].order IN
    request[h].at \in {"find", "commit"} /\ Customer[o] \notin raced =>
        /\ request[h].xp = xp[Customer[o]]
        /\ request[h].at = "commit" => ledger[o] = 0

Exact(u) ==
    /\ xp[u] = Total(Awarded(u))
    /\ \A o \in Orders : Customer[o] = u => ledger[o] <= 1

EInv ==
    /\ PInv
    /\ Overlapping \subseteq raced
    /\ \A u \in Users \ raced : Exact(u)
    /\ \A h \in Handlers : Fresh(h)

LEMMA InitEInv == HInit => EInv
<1> SUFFICES ASSUME HInit PROVE EInv
  OBVIOUS
<1>1. PInv
  BY InitPInv DEF HInit
<1>2. Overlapping = {} /\ \A h \in Handlers : Fresh(h)
  BY DEF HInit, Init, Idle, Overlapping, Awarding, Fresh
<1>3. ASSUME NEW u \in Users PROVE Exact(u)
  <2>1. Awarded(u) = {}
    BY DEF HInit, Init, Awarded
  <2>2. Total({}) = 0
    BY SumStep, FS_EmptySet
  <2> QED BY <2>1, <2>2 DEF HInit, Init, Exact
<1> QED BY <1>1, <1>2, <1>3 DEF EInv

LEMMA StepEInv == EInv /\ [HNext]_hvars => EInv'
<1> SUFFICES ASSUME EInv, [HNext]_hvars PROVE EInv'
  OBVIOUS
<1>0. /\ IInv /\ IInv' /\ PInv /\ PInv'
      /\ raced \subseteq raced' /\ Overlapping' \subseteq raced'
  <2>1. [Next]_vars
    BY DEF HNext, hvars
  <2>2. PInv /\ PInv' /\ IInv /\ IInv'
    BY <2>1, StepPInv DEF EInv, PInv
  <2>3. CASE UNCHANGED hvars
    BY <2>2, <2>3 DEF hvars, vars, EInv, Overlapping, Awarding
  <2> QED BY <2>2, <2>3 DEF HNext
\* Nothing is awarded, and only handler h goes on.
<1>1. ASSUME NEW h \in Handlers, UNCHANGED <<xp, ledger>>,
             \A g \in Handlers \ {h} : request'[g] = request[g], Fresh(h)'
      PROVE  EInv'
  <2>1. ASSUME NEW u \in Users \ raced' PROVE Exact(u)'
    <3>1. Awarded(u)' = Awarded(u) /\ Exact(u)
      BY <1>0, <1>1 DEF Awarded, EInv
    <3> QED BY <1>1, <3>1 DEF Exact
  <2>2. \A g \in Handlers : Fresh(g)'
    BY <1>0, <1>1 DEF EInv, Fresh
  <2> QED BY <1>0, <2>1, <2>2 DEF EInv
<1>2. ASSUME NEW h \in Handlers, UNCHANGED <<xp, ledger>>,
             \A g \in Handlers \ {h} : request'[g] = request[g],
             request'[h].at \notin {"find", "commit"}
      PROVE  EInv'
  BY <1>1, <1>2 DEF Fresh
<1>3. CASE UNCHANGED vars
  <2>1. ASSUME NEW u \in Users \ raced' PROVE Exact(u)'
    <3>1. Awarded(u)' = Awarded(u) /\ Exact(u)
      BY <1>0, <1>3 DEF vars, Awarded, EInv
    <3> QED BY <1>3, <3>1 DEF vars, Exact
  <2>2. \A h \in Handlers : Fresh(h)'
    BY <1>0, <1>3 DEF vars, EInv, Fresh
  <2> QED BY <1>0, <2>1, <2>2 DEF EInv
<1>4. ASSUME NEW h \in Handlers, NEW o \in Orders, NEW target \in OrderStatus,
             TransitionRead(h, o, target)
      PROVE  EInv'
  BY <1>0, <1>2, <1>4 DEF TransitionRead, Idle, IInv, TypeOK
<1>5. ASSUME NEW h \in Handlers, TransitionWrite(h) PROVE EInv'
  <2>1. UNCHANGED <<xp, ledger>> /\ \A g \in Handlers \ {h} : request'[g] = request[g]
    BY <1>0, <1>5 DEF TransitionWrite, Return, IInv, TypeOK
  <2>2. request'[h].at \notin {"find", "commit"}
    BY <1>0, <1>5 DEF TransitionWrite, Return, Idle, IInv, TypeOK, Request
  <2> QED BY <1>2, <2>1, <2>2
<1>6. ASSUME NEW h \in Handlers, AwardRead(h) PROVE EInv'
  <2>1. PICK o \in Orders, u \in Users :
            o = request[h].order /\ u = Customer[o] /\ request[h] \in Request
    BY <1>0, <1>6, LoyaltyAssumption DEF AwardRead, IInv, TypeOK, Snapshot
  <2>2. /\ UNCHANGED <<xp, ledger>> /\ \A g \in Handlers \ {h} : request'[g] = request[g]
        /\ request'[h].at = "find" /\ request'[h].order = o /\ request'[h].xp = xp[u]
    BY <1>0, <1>6, <2>1 DEF AwardRead, IInv, TypeOK, Request
  <2>3. Fresh(h)'
    BY <2>1, <2>2 DEF Fresh
  <2> QED BY <1>1, <2>2, <2>3
<1>7. ASSUME NEW h \in Handlers, AwardFind(h) PROVE EInv'
  <2>1. PICK o \in Orders, u \in Users :
            o = request[h].order /\ u = Customer[o] /\ request[h] \in Request
    BY <1>0, <1>7, LoyaltyAssumption DEF AwardFind, IInv, TypeOK, Snapshot
  <2>2. UNCHANGED <<xp, ledger>> /\ \A g \in Handlers \ {h} : request'[g] = request[g]
    BY <1>0, <1>7 DEF AwardFind, Return, IInv, TypeOK
  <2>3. CASE ledger[o] > 0
    BY <1>0, <1>2, <1>7, <2>1, <2>2, <2>3 DEF AwardFind, Return, Idle, IInv, TypeOK
  <2>4. CASE ~(ledger[o] > 0)
    <3>1. request'[h].at = "commit" /\ request'[h].order = o /\ request'[h].xp = request[h].xp
      BY <1>0, <1>7, <2>1, <2>4 DEF AwardFind, IInv, TypeOK, Request
    <3>2. ledger[o] = 0
      BY <1>0, <2>4 DEF IInv, TypeOK
    <3>3. u \notin raced => request[h].xp = xp[u]
      BY <1>7, <2>1 DEF AwardFind, EInv, Fresh
    <3>4. Fresh(h)'
      BY <1>0, <2>1, <2>2, <3>1, <3>2, <3>3 DEF Fresh
    <3> QED BY <1>1, <2>2, <3>4
  <2> QED BY <2>3, <2>4
<1>8. ASSUME NEW h \in Handlers, AwardCommit(h) PROVE EInv'
  <2>1. PICK o \in Orders, u \in Users :
            o = request[h].order /\ u = Customer[o] /\ request[h] \in Request
    BY <1>0, <1>8, LoyaltyAssumption DEF AwardCommit, IInv, TypeOK, Snapshot
  <2>2. /\ ledger' = [ledger EXCEPT ![o] = @ + 1]
        /\ xp' = [xp EXCEPT ![u] = request[h].xp + Earned(o)]
        /\ request' = [request EXCEPT ![h] = Idle]
        /\ request[h].at = "commit"
    BY <1>8, <2>1 DEF AwardCommit, Return
  <2>3. \A p \in Orders : ledger[p] \in Nat /\ ledger'[p] = IF p = o THEN ledger[p] + 1 ELSE ledger[p]
    BY <1>0, <2>1, <2>2 DEF IInv, TypeOK
  <2>4. \A v \in Users : xp'[v] = IF v = u THEN request[h].xp + Earned(o) ELSE xp[v]
    BY <1>0, <2>1, <2>2 DEF IInv, TypeOK
  <2>5. ASSUME NEW v \in Users \ raced' PROVE Exact(v)'
    <3>1. Exact(v) /\ v \notin raced
      BY <1>0, <2>5 DEF EInv
    <3>2. CASE v = u
      <4>1. request[h].xp = xp[u] /\ ledger[o] = 0
        BY <2>1, <2>2, <3>1, <3>2 DEF EInv, Fresh
      <4>2. o \notin Awarded(u) /\ Awarded(u)' = Awarded(u) \union {o}
        BY <2>1, <2>3, <4>1 DEF Awarded
      <4>3. Total(Awarded(u)') = Total(Awarded(u)) + Earned(o)
        BY <2>1, <4>2, AwardedTotal, TotalAdds
      <4>4. xp'[u] = Total(Awarded(u)')
        BY <2>1, <2>4, <3>1, <3>2, <4>1, <4>3 DEF Exact
      <4>5. \A p \in Orders : Customer[p] = u => ledger'[p] <= 1
        BY <2>3, <3>1, <3>2, <4>1 DEF Exact
      <4> QED BY <3>2, <4>4, <4>5 DEF Exact
    <3>3. CASE v # u
      <4>1. Awarded(v)' = Awarded(v)
        BY <2>1, <2>3, <3>3 DEF Awarded
      <4> QED BY <2>1, <2>3, <2>4, <3>1, <3>3, <4>1 DEF Exact
    <3> QED BY <3>2, <3>3
  <2>6. ASSUME NEW g \in Handlers PROVE Fresh(g)'
    <3>1. CASE request'[g].at \notin {"find", "commit"}
      BY <3>1 DEF Fresh
    <3>2. CASE request'[g].at \in {"find", "commit"}
      <4>1. g # h /\ request'[g] = request[g]
        BY <1>0, <2>2, <3>2 DEF IInv, TypeOK, Idle
      <4>2. PICK p \in Orders, v \in Users :
                p = request[g].order /\ v = Customer[p] /\ request[g] \in Request
        BY <1>0, <3>2, <4>1, LoyaltyAssumption DEF IInv, TypeOK, Snapshot
      <4>3. CASE v \in raced'
        BY <4>1, <4>2, <4>3 DEF Fresh
      <4>4. CASE v \notin raced'
        <5>1. v # u
          BY <1>0, <2>1, <2>2, <3>2, <4>1, <4>2, <4>4 DEF EInv, Overlapping, Awarding
        <5>2. Fresh(g) /\ v \notin raced
          BY <1>0, <4>4 DEF EInv
        <5> QED BY <2>1, <2>3, <2>4, <3>2, <4>1, <4>2, <5>1, <5>2 DEF Fresh
      <4> QED BY <4>3, <4>4
    <3> QED BY <3>1, <3>2
  <2> QED BY <1>0, <2>5, <2>6 DEF EInv
<1>9. ASSUME NEW h \in Handlers, Throw(h) PROVE EInv'
  BY <1>0, <1>2, <1>9 DEF Throw, Return, Idle, IInv, TypeOK
<1>10. CASE Restart
  <2>1. ASSUME NEW u \in Users \ raced' PROVE Exact(u)'
    <3>1. Awarded(u)' = Awarded(u) /\ Exact(u)
      BY <1>0, <1>10 DEF Restart, Awarded, EInv
    <3> QED BY <1>10, <3>1 DEF Restart, Exact
  <2>2. \A h \in Handlers : Fresh(h)'
    BY <1>10 DEF Restart, Fresh, Idle
  <2> QED BY <1>0, <2>1, <2>2 DEF EInv
<1> QED BY <1>3, <1>4, <1>5, <1>6, <1>7, <1>8, <1>9, <1>10 DEF Next, HNext, hvars

\* The idempotence of awards: for any number of customers, orders and requests,
\* a customer whose awards never overlapped has exactly the points of the
\* orders awarded, each of them once.
THEOREM PointsExactUnlessRacedHolds == HSpec => []PointsExactUnlessRaced
<1>1. EInv => PointsExactUnlessRaced
  BY LedgerPointsTotal DEF EInv, Exact, PointsExactUnlessRaced
<1> QED BY <1>1, InitEInv, StepEInv, PTL DEF HSpec
=============================================================================
