---------------------------- MODULE BuilderProofs ----------------------------
(***************************************************************************)
(* Proofs about Builder, for any history of the catalogue, any weights and *)
(* any number of edits, quotes and orders; and about the arithmetic of     *)
(* PricingService and of the order's snapshots, for every price.           *)
(***************************************************************************)
EXTENDS BuilderHistory, WellFoundedInduction, SequenceTheorems, TLAPS

\* HalfUp is x / 1000, off by half at most.
LEMMA HalfUpBounds ==
    ASSUME NEW x \in Nat
    PROVE  /\ HalfUp(x) \in Nat
           /\ 1000 * HalfUp(x) <= x + 500
           /\ x + 500 < 1000 * HalfUp(x) + 1000
BY DEF HalfUp

\* Linear arithmetic of five rounded numbers.
LEMMA SmallDifference ==
    ASSUME NEW a \in Nat, NEW b \in Nat, NEW c \in Nat, NEW d \in Nat,
           NEW h1 \in Nat, NEW h2 \in Nat, NEW h3 \in Nat, NEW h4 \in Nat, NEW h \in Nat,
           1000 * h1 <= a + 500, a + 500 < 1000 * h1 + 1000,
           1000 * h2 <= b + 500, b + 500 < 1000 * h2 + 1000,
           1000 * h3 <= c + 500, c + 500 < 1000 * h3 + 1000,
           1000 * h4 <= d + 500, d + 500 < 1000 * h4 + 1000,
           1000 * h <= a + b + c + d + 500, a + b + c + d + 500 < 1000 * h + 1000
    PROVE  /\ h1 + h2 + h3 + h4 - h \in Int
           /\ 1000 * (h1 + h2 + h3 + h4 - h) < 3000
           /\ -3000 < 1000 * (h1 + h2 + h3 + h4 - h)
OBVIOUS

\* Four items rounded one by one against their sum.
LEMMA FourRounded ==
    ASSUME NEW a \in Nat, NEW b \in Nat, NEW c \in Nat, NEW d \in Nat, NEW x, NEW y,
           x = HalfUp(a) + HalfUp(b) + HalfUp(c) + HalfUp(d), y = HalfUp(a + b + c + d)
    PROVE  x - y \in -2 .. 2
<1>1. a + b + c + d \in Nat
  OBVIOUS
<1>2. /\ HalfUp(a) \in Nat /\ 1000 * HalfUp(a) <= a + 500 /\ a + 500 < 1000 * HalfUp(a) + 1000
      /\ HalfUp(b) \in Nat /\ 1000 * HalfUp(b) <= b + 500 /\ b + 500 < 1000 * HalfUp(b) + 1000
      /\ HalfUp(c) \in Nat /\ 1000 * HalfUp(c) <= c + 500 /\ c + 500 < 1000 * HalfUp(c) + 1000
      /\ HalfUp(d) \in Nat /\ 1000 * HalfUp(d) <= d + 500 /\ d + 500 < 1000 * HalfUp(d) + 1000
  BY HalfUpBounds
<1>3. /\ HalfUp(a + b + c + d) \in Nat
      /\ 1000 * HalfUp(a + b + c + d) <= a + b + c + d + 500
      /\ a + b + c + d + 500 < 1000 * HalfUp(a + b + c + d) + 1000
  BY <1>1, HalfUpBounds
<1>4. x \in Int /\ y \in Int
  BY <1>2, <1>3
<1>5. x - y \in Int /\ 1000 * (x - y) < 3000 /\ -3000 < 1000 * (x - y)
  BY <1>2, <1>3, SmallDifference
<1> QED BY <1>4, <1>5

\* The ingredients of a floor, one by one.
LEMMA LayerOfFloor ==
    ASSUME NEW ids, NEW weights, NEW floor \in Floor(ids, weights)
    PROVE  /\ floor.grams \in weights
           /\ Len(floor.fillings) \in 0 .. 2
           /\ floor.dough \in ToSet(Layer(floor))
           /\ floor.coverage \in ToSet(Layer(floor))
           /\ \A k \in 1 .. Len(floor.fillings) : floor.fillings[k] \in ToSet(Layer(floor))
<1>1. /\ floor.dough \in ids /\ floor.coverage \in ids /\ floor.grams \in weights
      /\ floor.fillings \in {<<>>} \union {<<x>> : x \in ids} \union {<<x, y>> : x, y \in ids}
  BY DEF Floor
<1>2. floor.fillings \in Seq(ids) /\ Len(floor.fillings) \in 0 .. 2
  <2>1. CASE floor.fillings = <<>>
    BY <2>1
  <2>2. ASSUME NEW x \in ids, floor.fillings = <<x>>
        PROVE  floor.fillings \in Seq(ids) /\ Len(floor.fillings) \in 0 .. 2
    BY <2>2
  <2>3. ASSUME NEW x \in ids, NEW y \in ids, floor.fillings = <<x, y>>
        PROVE  floor.fillings \in Seq(ids) /\ Len(floor.fillings) \in 0 .. 2
    BY <2>3
  <2> QED BY <1>1, <2>1, <2>2, <2>3
<1> DEFINE base == <<floor.dough, floor.coverage>>
<1>3. base \in Seq(ids) /\ Len(base) = 2 /\ base[1] = floor.dough /\ base[2] = floor.coverage
  BY <1>1
<1> HIDE DEF base
<1>4. /\ Layer(floor) \in Seq(ids)
      /\ Len(Layer(floor)) = 2 + Len(floor.fillings)
      /\ \A i \in 1 .. 2 + Len(floor.fillings) :
            Layer(floor)[i] = IF i <= 2 THEN base[i] ELSE floor.fillings[i - 2]
  BY <1>2, <1>3, ConcatProperties DEF Layer, base
<1>5. \A i \in 1 .. 2 + Len(floor.fillings) : Layer(floor)[i] \in ToSet(Layer(floor))
  BY <1>4, LenProperties DEF ToSet
<1>6. floor.dough \in ToSet(Layer(floor)) /\ floor.coverage \in ToSet(Layer(floor))
  BY <1>2, <1>3, <1>4, <1>5
<1>7. ASSUME NEW k \in 1 .. Len(floor.fillings)
      PROVE  floor.fillings[k] \in ToSet(Layer(floor))
  <2>1. k + 2 \in 1 .. 2 + Len(floor.fillings) /\ ~(k + 2 <= 2) /\ (k + 2) - 2 = k
    BY <1>2
  <2> QED BY <2>1, <1>4, <1>5
<1> QED BY <1>1, <1>2, <1>6, <1>7

LEMMA LayerIds ==
    ASSUME NEW ids, NEW weights, NEW floor \in Floor(ids, weights)
    PROVE  ToSet(Layer(floor)) \subseteq ids
<1>1. floor.dough \in ids /\ floor.coverage \in ids
  BY DEF Floor
<1>2. floor.fillings \in Seq(ids)
  <2>1. floor.fillings \in {<<>>} \union {<<x>> : x \in ids} \union {<<x, y>> : x, y \in ids}
    BY DEF Floor
  <2>2. ASSUME NEW x \in ids, floor.fillings = <<x>>
        PROVE  floor.fillings \in Seq(ids)
    BY <2>2
  <2>3. ASSUME NEW x \in ids, NEW y \in ids, floor.fillings = <<x, y>>
        PROVE  floor.fillings \in Seq(ids)
    BY <2>3
  <2>4. CASE floor.fillings = <<>>
    BY <2>4
  <2> QED BY <2>1, <2>2, <2>3, <2>4
<1>3. Layer(floor) \in Seq(ids)
  <2>1. <<floor.dough, floor.coverage>> \in Seq(ids)
    BY <1>1
  <2> QED BY <1>2, <2>1, ConcatProperties DEF Layer
<1>4. \A i \in DOMAIN Layer(floor) : Layer(floor)[i] \in ids
  BY <1>3, LenProperties, ElementOfSeq
<1> QED BY <1>4 DEF ToSet

\* buildOrderItemSnapshots against PricingService: whatever the prices and the
\* weight, the snapshots of a floor add up to its part of the total within two
\* cents, provided that all its ingredients are found.
THEOREM SnapshotsAddUp ==
    ASSUME NEW ids, NEW weights \in SUBSET Nat, NEW floor \in Floor(ids, weights),
           NEW S \in SUBSET ids, NEW catalog \in [S -> Ingredient],
           ToSet(Layer(floor)) \subseteq S
    PROVE  ItemsCents(floor, ids, catalog) - LayerCents(floor, catalog) \in -2 .. 2
<1> DEFINE price == [i \in DOMAIN catalog |-> catalog[i].price]
           item == [i \in ids |-> IF i \in DOMAIN catalog
                                  THEN HalfUp(catalog[i].price * floor.grams) ELSE 0]
           part(i) == catalog[i].price * floor.grams
<1>1. floor.grams \in Nat
  BY LayerOfFloor
<1>2. \A i \in S : catalog[i].price \in Nat /\ price[i] = catalog[i].price
  BY DEF Ingredient
<1>3. \A i \in S : part(i) \in Nat /\ item[i] = HalfUp(part(i)) /\ price[i] * floor.grams = part(i)
  BY <1>1, <1>2
<1>4. HalfUp(0) = 0
  BY DEF HalfUp
<1> DEFINE a == part(floor.dough)
           b == part(floor.coverage)
           c == IF Len(floor.fillings) > 0 THEN part(floor.fillings[1]) ELSE 0
           d == IF Len(floor.fillings) > 1 THEN part(floor.fillings[2]) ELSE 0
           p == price[floor.dough]
           q == price[floor.coverage]
           r == IF Len(floor.fillings) > 0 THEN price[floor.fillings[1]] ELSE 0
           s == IF Len(floor.fillings) > 1 THEN price[floor.fillings[2]] ELSE 0
<1>5. /\ floor.dough \in S /\ floor.coverage \in S
      /\ Len(floor.fillings) > 0 => floor.fillings[1] \in S
      /\ Len(floor.fillings) > 1 => floor.fillings[2] \in S
  BY LayerOfFloor
<1>6. a \in Nat /\ b \in Nat /\ c \in Nat /\ d \in Nat
  BY <1>3, <1>5
<1>7. /\ p \in Nat /\ q \in Nat /\ r \in Nat /\ s \in Nat
      /\ p * floor.grams = a /\ q * floor.grams = b
      /\ r * floor.grams = c /\ s * floor.grams = d
  BY <1>1, <1>2, <1>3, <1>5
<1>8. ItemsCents(floor, ids, catalog) = HalfUp(a) + HalfUp(b) + HalfUp(c) + HalfUp(d)
  <2>1. ItemsCents(floor, ids, catalog) = OverLayer(floor, item)
    BY DEF ItemsCents
  <2>2. /\ item[floor.dough] = HalfUp(a) /\ item[floor.coverage] = HalfUp(b)
        /\ (IF Len(floor.fillings) > 0 THEN item[floor.fillings[1]] ELSE 0) = HalfUp(c)
        /\ (IF Len(floor.fillings) > 1 THEN item[floor.fillings[2]] ELSE 0) = HalfUp(d)
    BY <1>3, <1>4, <1>5
  <2> HIDE DEF item, a, b, c, d
  <2> QED BY <2>1, <2>2 DEF OverLayer
<1>9. LayerCents(floor, catalog) = HalfUp(a + b + c + d)
  <2>1. LayerCents(floor, catalog) = HalfUp((p + q + r + s) * floor.grams)
    BY DEF LayerCents, OverLayer
  <2> HIDE DEF p, q, r, s, a, b, c, d
  <2>2. (p + q + r + s) * floor.grams = a + b + c + d
    BY <1>1, <1>7
  <2> QED BY <2>1, <2>2
<1> HIDE DEF a, b, c, d, price, item, part, p, q, r, s
<1> QED BY <1>6, <1>8, <1>9, FourRounded

-----------------------------------------------------------------------------
(* Types of the builder *)

\* The builder leaves every floor at least one filling.
Storey == {floor \in Floor(Ids, Nat) : floor.fillings # <<>>}

Floors == Seq(Storey)

Draft == [floors: Floors, flags: SUBSET Flags, image: BOOLEAN]

Asked == [floors: Floors, live: BOOLEAN]

\* What PricingService may answer.
Totals == {0, None} \union {Price(floors, Catalogs[v]) : floors \in Floors, v \in DOMAIN Catalogs}

Quote == [key: Floors, version: Nat, price: Totals]

Page == [at: {"closed", "loading", "failed", "empty", "editing", "ordered"},
         version: Nat, customer: BOOLEAN, draft: Draft \union {None}, quote: Quote,
         submitting: BOOLEAN]

Pending == {"sent", "priced", "created", "createdLost", "refused", "failed"}

OrderSent == [at: Pending \union {"done", "doneLost", "gone"}, mine: BOOLEAN, again: BOOLEAN,
              draft: Draft \union {None}, loaded: Nat, shown: Quote,
              priced: Nat, read: Nat, total: Totals]

Shown == page.at \in {"editing", "ordered"}

TypeOK ==
    /\ version \in DOMAIN Catalogs
    /\ page \in Page
    /\ storage \in Draft \union {None}
    /\ quotes \in Seq(Asked)
    /\ upload \in {"none", "sent"}
    /\ strays \in Seq(Draft)
    /\ orders \in Seq(OrderSent)

\* There is a draft where one is edited, or about to get a picture.
DraftThere ==
    /\ Shown => page.draft \in Draft /\ page.version \in DOMAIN Catalogs
    /\ upload = "sent" => Shown

\* A price is what PricingService computes of these floors with the catalogue
\* of that moment.
Priced(q) ==
    q.price # None =>
        /\ q.version \in DOMAIN Catalogs
        /\ Priceable(q.key, Catalogs[q.version])
        /\ q.price = Price(q.key, Catalogs[q.version])

\* The last quote asked for is for the floors on the screen, and when none is
\* under way it has arrived.
QuotesFollow ==
    Shown =>
        /\ \A i \in DOMAIN quotes : quotes[i].live => quotes[i].floors = page.draft.floors
        /\ EveryFloorValid(page.draft.floors) =>
            page.quote.key = page.draft.floors \/ \E i \in DOMAIN quotes : quotes[i].live

\* The orders of the visit: one at a time, and after one that was created only
\* by pressing the button again before the push.
OrdersInTurn ==
    /\ \A k \in DOMAIN orders : orders[k].mine =>
        /\ Shown
        /\ orders[k].at \in Pending => page.submitting
        /\ orders[k].at = "done" => page.at = "ordered"
    /\ \A j, k \in DOMAIN orders : orders[j].mine /\ orders[k].mine /\ j < k =>
        /\ orders[j].at \notin Pending
        /\ orders[j].at = "done" => orders[k].again

\* What an order in progress was let through with, and what the API made of it.
LetThrough(o) ==
    o.at \in Pending =>
        /\ o.draft \in Draft
        /\ o.shown.key = o.draft.floors /\ o.shown.price # None /\ Priced(o.shown)
        /\ o.loaded \in DOMAIN Catalogs
        /\ NoDietaryConflict(o.draft.flags, Found(Catalogs[o.loaded], o.draft.floors))
        /\ o.at \in {"priced", "created", "createdLost"} =>
            /\ o.priced \in DOMAIN Catalogs
            /\ Priceable(o.draft.floors, Catalogs[o.priced])
            /\ o.total = Price(o.draft.floors, Catalogs[o.priced])
        /\ o.at = "refused" =>
            \E v \in {o.priced, o.read, o.shown.version} : v # o.loaded

IInv ==
    /\ TypeOK
    /\ DraftThere
    /\ Priced(page.quote)
    /\ QuotesFollow
    /\ OrdersInTurn
    /\ \A k \in DOMAIN orders : LetThrough(orders[k])

-----------------------------------------------------------------------------
(* The helpers of the model *)

\* The ingredient the API lists first is one of those looked for.
LEMMA ForemostIn ==
    ASSUME NEW ids \in SUBSET Ids, ids # {}
    PROVE  Foremost(ids) \in ids
<1> DEFINE places == {n \in DOMAIN Order : Order[n] \in ids}
<1>1. places \in SUBSET Nat /\ places # {}
  BY BuilderAssumption DEF Ids, ToSet
<1> DEFINE less == OpToRel(<, Nat)
<1>2. IsWellFoundedOn(less, Nat)
  BY NatLessThanWellFounded
<1>3. PICK n \in places : \A m \in places : ~(<<m, n>> \in less)
  <2> HIDE DEF less, places
  <2> QED BY <1>1, <1>2, WFMin
<1>4. \A m \in places : n <= m
  <2>1. ASSUME NEW m \in Nat, NEW k \in Nat, m < k
        PROVE  <<m, k>> \in less
    <3>1. less = {ss \in Nat \X Nat : ss[1] < ss[2]}
      BY Zenon DEF OpToRel
    <3> HIDE DEF less
    <3> QED BY <2>1, <3>1
  <2> HIDE DEF less, places
  <2>2. ASSUME NEW m \in places PROVE n <= m
    <3>1. m \in Nat /\ n \in Nat
      BY <1>1
    <3>2. <<m, n>> \notin less
      BY <1>3
    <3>3. ~(m < n)
      BY <2>1, <3>1, <3>2
    <3> QED BY <3>1, <3>3
  <2> QED BY <2>2
<1>5. Min(places) \in places
  BY <1>4 DEF Min
<1> QED BY <1>5 DEF Foremost

LEMMA ClampedWeight ==
    ASSUME NEW w \in Nat
    PROVE  Clamped(w) \in Nat
<1>1. Min({20000, w}) = IF w < 20000 THEN w ELSE 20000
  BY DEF Min
<1> DEFINE m == Min({20000, w})
<1>2. m \in Nat
  BY <1>1
<1> HIDE DEF m
<1>3. Max({500, m}) \in {500, m}
  <2>1. PICK x \in {500, m} : \A y \in {500, m} : x >= y
    BY <1>2
  <2> QED BY <2>1 DEF Max
<1> QED BY <1>2, <1>3 DEF m, Clamped

\* A floor the model makes is one.
LEMMA FloorType ==
    ASSUME NEW n \in Nat \ {0}, NEW dough \in Ids, NEW coverage \in Ids, NEW filling \in Ids,
           NEW grams \in Nat
    PROVE  [number |-> n, dough |-> dough, coverage |-> coverage, fillings |-> <<filling>>,
            grams |-> grams] \in Storey
BY DEF Floor, Storey

LEMMA DefaultFloorType ==
    ASSUME NEW v, Complete(v), NEW n \in 1 .. 4, NEW structured \in BOOLEAN
    PROVE  DefaultFloor(v, n, structured) \in Storey
<1> DEFINE dough == Foremost(IF structured /\ Plain(v) # {} THEN Plain(v) ELSE Listed(v, "MASSA"))
           coverage == Foremost(Listed(v, "COBERTURA"))
           filling == Foremost(Listed(v, "RECHEIO"))
           grams == IF n = 4 THEN 800 ELSE 1900 - 300 * n
<1>1. \A type : Listed(v, type) \subseteq Ids
  BY DEF Listed
<1>2. Plain(v) \subseteq Ids
  BY <1>1 DEF Plain
<1>3. dough \in Ids
  BY <1>1, <1>2, ForemostIn DEF Complete
<1>4. coverage \in Ids /\ filling \in Ids
  BY <1>1, ForemostIn DEF Complete
<1>5. grams \in Nat
  OBVIOUS
<1>6. DefaultFloor(v, n, structured)
        = [number |-> n, dough |-> dough, coverage |-> coverage, fillings |-> <<filling>>,
           grams |-> grams]
  BY DEF DefaultFloor
<1> HIDE DEF dough, coverage, filling, grams
<1> QED BY <1>3, <1>4, <1>5, <1>6, FloorType

\* An answered request is gone, and the others are still there.
LEMMA RemoveAtProperties ==
    ASSUME NEW S, NEW s \in Seq(S), NEW i \in DOMAIN s
    PROVE  /\ RemoveAt(s, i) \in Seq(S) /\ Len(RemoveAt(s, i)) < Len(s)
           /\ \A j \in DOMAIN RemoveAt(s, i) : \E k \in DOMAIN s : RemoveAt(s, i)[j] = s[k]
           /\ \A k \in DOMAIN s : k # i =>
                \E j \in DOMAIN RemoveAt(s, i) : RemoveAt(s, i)[j] = s[k]
<1> DEFINE front == SubSeq(s, 1, i - 1)
           back == SubSeq(s, i + 1, Len(s))
<1>1. /\ Len(s) \in Nat /\ DOMAIN s = 1 .. Len(s) /\ i \in 1 .. Len(s)
      /\ \A k \in 1 .. Len(s) : s[k] \in S
  BY LenProperties, ElementOfSeq
<1>2. /\ front \in Seq(S) /\ Len(front) = i - 1
      /\ \A k \in 1 .. i - 1 : front[k] = s[k]
  <2>1. \A k \in 1 .. i - 1 : s[k] \in S
    BY <1>1
  <2>2. /\ front \in Seq(S)
        /\ Len(front) = IF 1 <= i - 1 THEN (i - 1) - 1 + 1 ELSE 0
        /\ \A k \in 1 .. (i - 1) - 1 + 1 : front[k] = s[1 + k - 1]
    BY <1>1, <2>1, SubSeqProperties
  <2> HIDE DEF front
  <2>3. \A k \in 1 .. i - 1 : 1 + k - 1 = k /\ k \in 1 .. (i - 1) - 1 + 1
    BY <1>1
  <2> QED BY <1>1, <2>2, <2>3
<1>3. /\ back \in Seq(S) /\ Len(back) = Len(s) - i
      /\ \A k \in 1 .. Len(s) - i : back[k] = s[i + k]
  <2>1. \A k \in i + 1 .. Len(s) : s[k] \in S
    BY <1>1
  <2>2. /\ back \in Seq(S)
        /\ Len(back) = IF i + 1 <= Len(s) THEN Len(s) - (i + 1) + 1 ELSE 0
        /\ \A k \in 1 .. Len(s) - (i + 1) + 1 : back[k] = s[(i + 1) + k - 1]
    BY <1>1, <2>1, SubSeqProperties
  <2> HIDE DEF back
  <2>3. \A k \in 1 .. Len(s) - i : (i + 1) + k - 1 = i + k /\ k \in 1 .. Len(s) - (i + 1) + 1
    BY <1>1
  <2> QED BY <1>1, <2>2, <2>3
<1> DEFINE rest == RemoveAt(s, i)
<1>4. /\ rest \in Seq(S) /\ Len(rest) = Len(s) - 1
      /\ \A j \in 1 .. Len(s) - 1 : rest[j] = IF j <= i - 1 THEN front[j] ELSE back[j - (i - 1)]
  <2>1. rest = front \o back
    BY DEF RemoveAt
  <2> HIDE DEF rest, front, back
  <2>2. Len(front) + Len(back) = Len(s) - 1
    BY <1>1, <1>2, <1>3
  <2>3. /\ rest \in Seq(S) /\ Len(rest) = Len(front) + Len(back)
        /\ \A j \in 1 .. Len(front) + Len(back) :
            rest[j] = IF j <= Len(front) THEN front[j] ELSE back[j - Len(front)]
    BY <1>2, <1>3, <2>1, ConcatProperties
  <2> QED BY <1>2, <2>2, <2>3
<1> HIDE DEF front, back, rest
<1>5. DOMAIN rest = 1 .. Len(s) - 1
  BY <1>4, LenProperties
<1>6. ASSUME NEW j \in 1 .. Len(s) - 1
      PROVE  \E k \in 1 .. Len(s) : rest[j] = s[k]
  <2>1. CASE j <= i - 1
    BY <1>1, <1>2, <1>4, <2>1
  <2>2. CASE ~(j <= i - 1)
    <3>1. j - (i - 1) \in 1 .. Len(s) - i /\ i + (j - (i - 1)) \in 1 .. Len(s)
      BY <1>1, <2>2
    <3> QED BY <1>3, <1>4, <2>2, <3>1
  <2> QED BY <2>1, <2>2
<1>7. ASSUME NEW k \in 1 .. Len(s), k # i
      PROVE  \E j \in 1 .. Len(s) - 1 : rest[j] = s[k]
  <2>1. CASE k < i
    BY <1>1, <1>2, <1>4, <2>1
  <2>2. CASE ~(k < i)
    <3>1. /\ k - 1 \in 1 .. Len(s) - 1 /\ ~(k - 1 <= i - 1)
          /\ (k - 1) - (i - 1) \in 1 .. Len(s) - i /\ i + ((k - 1) - (i - 1)) = k
      BY <1>1, <1>7, <2>2
    <3> QED BY <1>3, <1>4, <3>1
  <2> QED BY <2>1, <2>2
<1>8. rest \in Seq(S) /\ Len(rest) < Len(s)
  BY <1>1, <1>4
<1> QED BY <1>1, <1>5, <1>6, <1>7, <1>8 DEF rest

\* The shape of the sequence that an EXCEPT, an Append and a map leave.
LEMMA MappedSeq ==
    ASSUME NEW S, NEW n \in Nat, NEW f \in [1 .. n -> S]
    PROVE  f \in Seq(S) /\ Len(f) = n /\ DOMAIN f = 1 .. n
BY SeqDef

LEMMA SeqShape ==
    ASSUME NEW S, NEW s \in Seq(S)
    PROVE  Len(s) \in Nat /\ DOMAIN s = 1 .. Len(s) /\ \A i \in DOMAIN s : s[i] \in S
BY LenProperties, ElementOfSeq

LEMMA AppendShape ==
    ASSUME NEW S, NEW s \in Seq(S), NEW e \in S
    PROVE  /\ Append(s, e) \in Seq(S)
           /\ DOMAIN Append(s, e) = 1 .. Len(s) + 1
           /\ Append(s, e)[Len(s) + 1] = e
           /\ \A i \in 1 .. Len(s) : Append(s, e)[i] = s[i]
<1>1. Append(s, e) \in Seq(S) /\ Len(Append(s, e)) = Len(s) + 1
  BY AppendProperties
<1>2. DOMAIN Append(s, e) = 1 .. Len(s) + 1
  BY <1>1, LenProperties
<1> QED BY <1>1, <1>2, AppendProperties

\* The clean-up of the effect lets no earlier request set the quote.
LEMMA CleanedUpAsks ==
    ASSUME quotes \in Seq(Asked)
    PROVE  CleanedUp \in Seq(Asked) /\ \A i \in DOMAIN CleanedUp : ~CleanedUp[i].live
<1> DEFINE n == Len(quotes)
<1>1. n \in Nat /\ DOMAIN quotes = 1 .. n /\ \A i \in 1 .. n : quotes[i] \in Asked
  BY SeqShape
<1>2. \A i \in 1 .. n : /\ [quotes[i] EXCEPT !.live = FALSE] \in Asked
                        /\ ~[quotes[i] EXCEPT !.live = FALSE].live
  BY <1>1 DEF Asked
<1>3. CleanedUp = [i \in 1 .. n |-> [quotes[i] EXCEPT !.live = FALSE]]
  BY <1>1 DEF CleanedUp
<1> HIDE DEF n
<1>4. CleanedUp \in [1 .. n -> Asked] /\ \A i \in 1 .. n : ~CleanedUp[i].live
  BY <1>2, <1>3
<1> QED BY <1>1, <1>4, MappedSeq

\* The request of a new draft is for its floors, and the only one to count.
LEMMA RequoteAsks ==
    ASSUME quotes \in Seq(Asked), NEW draft \in Draft
    PROVE  /\ Requote(draft) \in Seq(Asked)
           /\ \A i \in DOMAIN Requote(draft) :
                Requote(draft)[i].live => Requote(draft)[i].floors = draft.floors
           /\ EveryFloorValid(draft.floors) =>
                \E i \in DOMAIN Requote(draft) : Requote(draft)[i].live
<1>1. CleanedUp \in Seq(Asked) /\ \A i \in DOMAIN CleanedUp : ~CleanedUp[i].live
  BY CleanedUpAsks
<1>2. CASE ~EveryFloorValid(draft.floors)
  BY <1>1, <1>2 DEF Requote
<1>3. CASE EveryFloorValid(draft.floors)
  <2> DEFINE new == [floors |-> draft.floors, live |-> TRUE]
             n == Len(CleanedUp)
  <2>1. new \in Asked /\ new.live /\ new.floors = draft.floors
    BY DEF Asked, Draft
  <2>2. Requote(draft) = Append(CleanedUp, new)
    BY <1>3 DEF Requote
  <2> HIDE DEF new
  <2>3. n \in Nat /\ DOMAIN CleanedUp = 1 .. n
    BY <1>1, SeqShape
  <2>4. /\ Requote(draft) \in Seq(Asked)
        /\ DOMAIN Requote(draft) = 1 .. n + 1
        /\ Requote(draft)[n + 1] = new
        /\ \A i \in 1 .. n : Requote(draft)[i] = CleanedUp[i]
    BY <1>1, <2>1, <2>2, AppendShape
  <2> HIDE DEF n
  <2>5. n + 1 \in DOMAIN Requote(draft) /\ \A i \in DOMAIN Requote(draft) : i = n + 1 \/ i \in 1 .. n
    BY <2>3, <2>4
  <2> QED BY <1>1, <2>1, <2>3, <2>4, <2>5
<1> QED BY <1>2, <1>3

LEMMA CatalogRow ==
    ASSUME NEW v \in DOMAIN Catalogs, NEW i \in Ids
    PROVE  v \in Nat /\ Catalogs[v] \in [Ids -> Ingredient] /\ Catalogs[v][i] \in Ingredient
<1>1. Catalogs \in Seq([Ids -> Ingredient])
  BY BuilderAssumption
<1>2. Len(Catalogs) \in Nat /\ DOMAIN Catalogs = 1 .. Len(Catalogs) /\ Catalogs[v] \in [Ids -> Ingredient]
  BY <1>1, SeqShape
<1> QED BY <1>2

LEMMA ListedIds ==
    ASSUME NEW v, NEW type
    PROVE  Listed(v, type) \subseteq Ids /\ Plain(v) \subseteq Ids
BY DEF Listed, Plain

LEMMA InitialDraftType ==
    ASSUME NEW v
    PROVE  /\ Complete(v) => InitialDraft(v) \in Draft
           /\ ~Complete(v) => InitialDraft(v) = None
<1>1. CASE Complete(v)
  <2> DEFINE floor == DefaultFloor(v, 1, FALSE)
  <2>1. FALSE \in BOOLEAN /\ 1 \in 1 .. 4
    OBVIOUS
  <2>2. floor \in Storey
    BY <1>1, <2>1, DefaultFloorType, Zenon
  <2> HIDE DEF floor
  <2>3. <<floor>> \in Floors
    BY <2>2 DEF Floors
  <2>4. InitialDraft(v) = [floors |-> <<floor>>, flags |-> {}, image |-> FALSE]
    BY <1>1 DEF InitialDraft, floor
  <2>5. InitialDraft(v) \in Draft
    BY <2>3, <2>4 DEF Draft
  <2> QED BY <1>1, <2>5
<1>2. CASE ~Complete(v)
  BY <1>2 DEF InitialDraft
<1> QED BY <1>1, <1>2

\* A draft with one floor changed is a draft.
LEMMA FloorEdited ==
    ASSUME NEW draft \in Draft, NEW i \in DOMAIN draft.floors, NEW floor \in Storey
    PROVE  [draft EXCEPT !.floors[i] = floor] \in Draft
<1> DEFINE floors == draft.floors
<1>1. floors \in Seq(Storey)
  BY DEF Draft, Floors
<1>2. [floors EXCEPT ![i] = floor] \in Floors
  BY <1>1, SeqShape, ExceptSeq DEF Floors
<1>3. [draft EXCEPT !.floors[i] = floor]
        = [floors |-> [floors EXCEPT ![i] = floor], flags |-> draft.flags, image |-> draft.image]
  BY DEF Draft
<1> HIDE DEF floors
<1> QED BY <1>2, <1>3 DEF Draft

LEMMA FloorFields ==
    ASSUME NEW floor \in Storey
    PROVE  /\ \A id \in Ids : [floor EXCEPT !.dough = id] \in Storey
           /\ \A id \in Ids : [floor EXCEPT !.coverage = id] \in Storey
           /\ \A grams \in Nat : [floor EXCEPT !.grams = grams] \in Storey
BY DEF Floor, Storey

LEMMA SecondElement ==
    ASSUME NEW x, NEW y
    PROVE  Append(<<x>>, y) = <<x, y>>
<1> DEFINE S == {x, y}
           s == Append(<<x>>, y)
           t == <<x, y>>
<1>1. <<x>> \in Seq(S) /\ Len(<<x>>) = 1 /\ <<x>>[1] = x
  OBVIOUS
<1>2. /\ s \in Seq(S) /\ Len(s) = 2 /\ s[2] = y /\ s[1] = x
  BY <1>1, AppendProperties
<1>3. t \in Seq(S) /\ Len(t) = 2 /\ t[1] = x /\ t[2] = y
  OBVIOUS
<1> HIDE DEF s, t, S
<1>4. \A i \in 1 .. Len(s) : s[i] = t[i]
  BY <1>2, <1>3
<1> QED BY <1>2, <1>3, <1>4, SeqEqual DEF s, t

\* One filling joins at most one other, and the last one stays.
LEMMA FillingToggled ==
    ASSUME NEW floor \in Storey, NEW filling \in Ids,
           filling \in ToSet(floor.fillings) \/ Len(floor.fillings) < 2
    PROVE  [floor EXCEPT !.fillings =
                IF filling \notin ToSet(floor.fillings) THEN Append(@, filling)
                ELSE IF Len(@) <= 1 THEN @
                ELSE <<@[IF @[1] = filling THEN 2 ELSE 1]>>] \in Storey
<1> DEFINE chosen == floor.fillings
           next == IF filling \notin ToSet(chosen) THEN Append(chosen, filling)
                   ELSE IF Len(chosen) <= 1 THEN chosen
                   ELSE <<chosen[IF chosen[1] = filling THEN 2 ELSE 1]>>
           possible == {<<x>> : x \in Ids} \union {<<x, y>> : x, y \in Ids}
<1>1. chosen \in possible
  BY DEF Floor, Storey
<1>2. next \in possible
  <2>1. ASSUME NEW x \in Ids, chosen = <<x>>
        PROVE  next \in possible
    <3>1. Len(chosen) = 1
      BY <2>1
    <3>2. next = Append(<<x>>, filling) \/ next = <<x>>
      BY <2>1, <3>1
    <3>3. Append(<<x>>, filling) = <<x, filling>>
      BY SecondElement
    <3> HIDE DEF next
    <3> QED BY <3>2, <3>3
  <2>2. ASSUME NEW x \in Ids, NEW y \in Ids, chosen = <<x, y>>
        PROVE  next \in possible
    <3>1. Len(chosen) = 2 /\ chosen[1] = x /\ chosen[2] = y
      BY <2>2
    <3>2. filling \in ToSet(chosen)
      <4>1. CASE filling \in ToSet(chosen)
        BY <4>1
      <4>2. CASE Len(chosen) < 2
        BY <3>1, <4>2
      <4> QED BY <4>1, <4>2
    <3>3. next = <<chosen[IF chosen[1] = filling THEN 2 ELSE 1]>>
      BY <3>1, <3>2
    <3> HIDE DEF next
    <3>4. next = <<x>> \/ next = <<y>>
      <4>1. CASE chosen[1] = filling
        BY <3>1, <3>3, <4>1
      <4>2. CASE chosen[1] # filling
        BY <3>1, <3>3, <4>2
      <4> QED BY <4>1, <4>2
    <3> QED BY <3>4
  <2> QED BY <1>1, <2>1, <2>2
<1> HIDE DEF next
<1>3. \/ \E x \in Ids : next = <<x>>
      \/ \E x, y \in Ids : next = <<x, y>>
  BY <1>2
<1>4. [floor EXCEPT !.fillings = next] \in Storey
  <2>1. next # <<>>
    <3>1. \A x, y \in Ids : <<x>> # <<>> /\ <<x, y>> # <<>>
      OBVIOUS
    <3> QED BY <1>3, <3>1, Zenon
  <2>2. next \in {<<>>} \union {<<x>> : x \in Ids} \union {<<x, y>> : x, y \in Ids}
    BY <1>3
  <2> QED BY <2>1, <2>2 DEF Floor, Storey
<1> QED BY <1>4 DEF next

-----------------------------------------------------------------------------
(* The steps *)

LEMMA EmptyPage ==
    Closed \in Page /\ NoQuote \in Quote /\ Priced(NoQuote)
<1>1. <<>> \in Floors
  BY DEF Floors
<1>2. NoQuote \in Quote /\ NoQuote.price = None
  BY <1>1 DEF NoQuote, Quote, Totals
<1> QED BY <1>2 DEF Closed, Page, Priced

\* A change of the draft, with what it saves and asks for.
LEMMA EditKeeps ==
    ASSUME IInv, NEW draft \in Draft, Edit(draft)
    PROVE  IInv'
<1>1. /\ page' = [page EXCEPT !.draft = draft] /\ storage' = draft /\ quotes' = Requote(draft)
      /\ version' = version /\ upload' = upload /\ strays' = strays /\ orders' = orders /\ Shown
  BY DEF Edit, Editing, Shown
<1>2. /\ page \in Page /\ page' \in Page
      /\ page'.at = page.at /\ page'.version = page.version /\ page'.draft = draft
      /\ page'.quote = page.quote /\ page'.submitting = page.submitting
  BY <1>1 DEF IInv, TypeOK, Page
<1>3. /\ quotes' \in Seq(Asked)
      /\ \A i \in DOMAIN quotes' : quotes'[i].live => quotes'[i].floors = draft.floors
      /\ EveryFloorValid(draft.floors) => \E i \in DOMAIN quotes' : quotes'[i].live
  BY <1>1, RequoteAsks DEF IInv, TypeOK
<1>4. TypeOK'
  BY <1>1, <1>2, <1>3 DEF IInv, TypeOK
<1>5. DraftThere'
  BY <1>1, <1>2 DEF IInv, DraftThere, Shown
<1>6. Priced(page.quote)'
  BY <1>2 DEF IInv
<1>7. QuotesFollow'
  BY <1>2, <1>3 DEF QuotesFollow
<1>8. OrdersInTurn'
  BY <1>1, <1>2 DEF IInv, OrdersInTurn, Shown
<1> QED BY <1>1, <1>4, <1>5, <1>6, <1>7, <1>8 DEF IInv

LEMMA OpenBuilderKeeps ==
    ASSUME IInv, OpenBuilder
    PROVE  IInv'
<1>1. PICK customer \in BOOLEAN : page' = [Closed EXCEPT !.at = "loading", !.customer = customer]
  BY DEF OpenBuilder
<1>2. /\ page' \in Page /\ page'.at = "loading" /\ page'.quote = NoQuote
  BY <1>1, EmptyPage DEF Closed, Page
<1>3. /\ page.at = "closed" /\ ~Shown /\ ~Shown'
      /\ UNCHANGED <<version, storage, quotes, upload, strays, orders, edits>>
  BY <1>2 DEF OpenBuilder, Shown
<1>4. TypeOK' /\ DraftThere'
  BY <1>2, <1>3 DEF IInv, TypeOK, DraftThere
<1>5. Priced(page.quote)'
  BY <1>2, EmptyPage
<1>6. QuotesFollow'
  BY <1>2, <1>3 DEF QuotesFollow
<1>7. OrdersInTurn'
  BY <1>3 DEF IInv, OrdersInTurn
<1> QED BY <1>3, <1>4, <1>5, <1>6, <1>7 DEF IInv

LEMMA CatalogArrivesKeeps ==
    ASSUME IInv, CatalogArrives
    PROVE  IInv'
<1> DEFINE restored == IF Restorable(version) THEN storage ELSE InitialDraft(version)
<1>1. /\ page.at = "loading"
      /\ page' = [page EXCEPT !.at = IF restored = None THEN "empty" ELSE "editing",
                              !.version = version, !.draft = restored]
      /\ restored = None => quotes' = CleanedUp /\ storage' = storage
      /\ restored # None => quotes' = Requote(restored) /\ storage' = restored
      /\ UNCHANGED <<version, upload, strays, orders>>
  BY DEF CatalogArrives
<1>2. restored = None \/ restored \in Draft
  BY InitialDraftType DEF IInv, TypeOK, Restorable
<1> HIDE DEF restored
<1>3. version \in DOMAIN Catalogs /\ version \in Nat
  <2>1. Catalogs \in Seq([Ids -> Ingredient])
    BY BuilderAssumption
  <2> QED BY <2>1, SeqShape DEF IInv, TypeOK
<1>4. /\ page' \in Page /\ page'.version = version /\ page'.draft = restored
      /\ page'.quote = page.quote
      /\ page'.at = IF restored = None THEN "empty" ELSE "editing"
  BY <1>1, <1>2, <1>3 DEF IInv, TypeOK, Page
<1>5. upload = "none" /\ ~Shown
  BY <1>1 DEF IInv, TypeOK, DraftThere, Shown
<1>6. \A k \in DOMAIN orders : ~orders[k].mine
  BY <1>5 DEF IInv, OrdersInTurn
<1>7. OrdersInTurn'
  BY <1>1, <1>6 DEF OrdersInTurn
<1>8. CASE restored = None
  <2>1. ~Shown'
    BY <1>4, <1>8 DEF Shown
  <2>2. quotes' \in Seq(Asked)
    BY <1>1, <1>8, CleanedUpAsks DEF IInv, TypeOK
  <2>3. TypeOK' /\ DraftThere'
    BY <1>1, <1>4, <1>5, <1>8, <2>1, <2>2 DEF IInv, TypeOK, DraftThere
  <2>4. QuotesFollow'
    BY <1>4, <1>8, <2>1 DEF QuotesFollow
  <2> QED BY <1>1, <1>4, <1>7, <2>3, <2>4 DEF IInv
<1>9. CASE restored # None
  <2>1. restored \in Draft
    BY <1>2, <1>9
  <2>2. /\ quotes' \in Seq(Asked)
        /\ \A i \in DOMAIN quotes' : quotes'[i].live => quotes'[i].floors = restored.floors
        /\ EveryFloorValid(restored.floors) => \E i \in DOMAIN quotes' : quotes'[i].live
    BY <1>1, <1>9, <2>1, RequoteAsks DEF IInv, TypeOK
  <2>3. TypeOK' /\ DraftThere'
    BY <1>1, <1>3, <1>4, <1>5, <1>9, <2>1, <2>2 DEF IInv, TypeOK, DraftThere, Shown
  <2>4. QuotesFollow'
    BY <1>4, <2>2 DEF QuotesFollow
  <2> QED BY <1>1, <1>4, <1>7, <2>3, <2>4 DEF IInv
<1> QED BY <1>8, <1>9

LEMMA LoseCatalogKeeps ==
    ASSUME IInv, LoseCatalog
    PROVE  IInv'
<1>1. /\ page.at = "loading" /\ page' = [page EXCEPT !.at = "failed"]
      /\ UNCHANGED <<version, storage, quotes, upload, strays, orders, edits>>
  BY DEF LoseCatalog
<1>2. page' \in Page /\ page'.at = "failed" /\ page'.quote = page.quote
  BY <1>1 DEF IInv, TypeOK, Page
<1>3. upload = "none" /\ ~Shown /\ ~Shown'
  BY <1>1, <1>2 DEF IInv, TypeOK, DraftThere, Shown
<1>4. TypeOK' /\ DraftThere' /\ Priced(page.quote)'
  BY <1>1, <1>2, <1>3 DEF IInv, TypeOK, DraftThere
<1>5. QuotesFollow' /\ OrdersInTurn'
  BY <1>1, <1>2, <1>3 DEF IInv, QuotesFollow, OrdersInTurn
<1> QED BY <1>1, <1>4, <1>5 DEF IInv

LEMMA LeaveBuilderKeeps ==
    ASSUME IInv, LeaveBuilder
    PROVE  IInv'
<1> DEFINE left(order) == [order EXCEPT !.mine = FALSE, !.again = FALSE,
                                        !.at = IF @ \in {"done", "doneLost"} THEN "gone" ELSE @]
           n == Len(orders)
<1>1. /\ page.at # "closed"
      /\ page' = Closed /\ upload' = "none"
      /\ strays' = IF upload = "sent" THEN Append(strays, page.draft) ELSE strays
      /\ quotes' = CleanedUp
      /\ orders' = [k \in DOMAIN orders |-> left(orders[k])]
      /\ UNCHANGED <<version, storage, edits>>
  BY DEF LeaveBuilder, Unmounted
<1>2. page' \in Page /\ page'.at = "closed" /\ page'.quote = NoQuote
  BY <1>1, EmptyPage DEF Closed
<1>3. \A order \in OrderSent :
        /\ left(order) \in OrderSent /\ ~left(order).mine
        /\ left(order).at \in Pending => left(order).at = order.at
        /\ left(order).draft = order.draft /\ left(order).loaded = order.loaded
        /\ left(order).shown = order.shown /\ left(order).priced = order.priced
        /\ left(order).read = order.read /\ left(order).total = order.total
  BY DEF OrderSent, Pending
<1> HIDE DEF left
<1>4. ASSUME NEW order \in OrderSent, LetThrough(order)
      PROVE  LetThrough(left(order))
  <2> DEFINE o == left(order)
  <2>1. /\ o.at \in Pending => o.at = order.at
        /\ o.draft = order.draft /\ o.loaded = order.loaded /\ o.shown = order.shown
        /\ o.priced = order.priced /\ o.read = order.read /\ o.total = order.total
    BY <1>3
  <2> HIDE DEF o
  <2>2. LetThrough(o)
    BY <1>4, <2>1 DEF LetThrough
  <2> QED BY <2>2 DEF o
<1>5. n \in Nat /\ DOMAIN orders = 1 .. n /\ \A k \in 1 .. n : orders[k] \in OrderSent
  BY SeqShape DEF IInv, TypeOK
<1> HIDE DEF n
<1>6. orders' = [k \in 1 .. n |-> left(orders[k])]
  BY <1>1, <1>5
<1>7. orders' \in [1 .. n -> OrderSent]
  BY <1>3, <1>5, <1>6
<1>8. orders' \in Seq(OrderSent) /\ DOMAIN orders' = 1 .. n
  BY <1>5, <1>7, MappedSeq
<1>9. \A k \in 1 .. n : ~orders'[k].mine /\ LetThrough(orders'[k])
  BY <1>3, <1>4, <1>5, <1>6 DEF IInv
<1>10. ~Shown'
  BY <1>2 DEF Shown
<1>11. quotes' \in Seq(Asked)
  BY <1>1, CleanedUpAsks DEF IInv, TypeOK
<1>12. TypeOK' /\ DraftThere'
  <2>1. strays \in Seq(Draft) /\ (upload = "sent" => page.draft \in Draft)
    BY DEF IInv, TypeOK, DraftThere
  <2>2. strays' \in Seq(Draft)
    BY <1>1, <2>1, AppendShape
  <2> QED BY <1>1, <1>2, <1>8, <1>10, <1>11, <2>2 DEF IInv, TypeOK, DraftThere
<1>13. Priced(page.quote)'
  BY <1>2, EmptyPage
<1>14. QuotesFollow'
  BY <1>2, <1>10 DEF QuotesFollow
<1>15. OrdersInTurn'
  BY <1>8, <1>9 DEF OrdersInTurn
<1> QED BY <1>8, <1>9, <1>12, <1>13, <1>14, <1>15 DEF IInv

LEMMA EditCatalogKeeps ==
    ASSUME IInv, EditCatalog
    PROVE  IInv'
<1>1. /\ version < Len(Catalogs) /\ version' = version + 1
      /\ UNCHANGED <<page, storage, quotes, upload, strays, orders, edits>>
  BY DEF EditCatalog
<1>2. version' \in DOMAIN Catalogs
  <2>1. Catalogs \in Seq([Ids -> Ingredient])
    BY BuilderAssumption
  <2> QED BY <1>1, <2>1, SeqShape DEF IInv, TypeOK
<1>3. TypeOK' /\ DraftThere' /\ Priced(page.quote)'
  BY <1>1, <1>2 DEF IInv, TypeOK, DraftThere, Shown
<1>4. QuotesFollow' /\ OrdersInTurn'
  BY <1>1 DEF IInv, QuotesFollow, OrdersInTurn, Shown
<1> QED BY <1>1, <1>3, <1>4 DEF IInv

LEMMA QuoteArrivesKeeps ==
    ASSUME IInv, NEW i \in DOMAIN quotes, QuoteArrives(i)
    PROVE  IInv'
<1> DEFINE floors == quotes[i].floors
<1>1. PICK answer \in Quoted(floors) :
        page' = IF quotes[i].live THEN [page EXCEPT !.quote = answer] ELSE page
  BY DEF QuoteArrives
<1>2. quotes' = RemoveAt(quotes, i) /\ UNCHANGED <<version, storage, upload, strays, orders, edits>>
  BY DEF QuoteArrives
<1>3. quotes \in Seq(Asked) /\ quotes[i] \in Asked /\ floors \in Floors
  <2>1. quotes \in Seq(Asked)
    BY DEF IInv, TypeOK
  <2>2. quotes[i] \in Asked
    BY <2>1, SeqShape
  <2> QED BY <2>1, <2>2 DEF Asked
<1>4. version \in DOMAIN Catalogs /\ version \in Nat
  <2>1. Catalogs \in Seq([Ids -> Ingredient])
    BY BuilderAssumption
  <2> QED BY <2>1, SeqShape DEF IInv, TypeOK
<1> HIDE DEF floors
<1>5. answer \in Quote /\ Priced(answer) /\ answer.key = floors
  <2>1. CASE answer = [NoQuote EXCEPT !.key = floors]
    <3>1. answer = [key |-> floors, version |-> 0, price |-> None]
      BY <2>1 DEF NoQuote
    <3> QED BY <1>3, <3>1 DEF Quote, Totals, Priced
  <2>2. CASE answer = [key |-> floors, version |-> version,
                       price |-> IF Priceable(floors, Catalogs[version])
                                 THEN Price(floors, Catalogs[version]) ELSE None]
    <3>1. answer.key = floors /\ answer.version = version
      BY <2>2
    <3>2. answer.price = IF Priceable(floors, Catalogs[version])
                         THEN Price(floors, Catalogs[version]) ELSE None
      BY <2>2
    <3>3. answer.price \in Totals
      BY <1>3, <1>4, <3>2 DEF Totals
    <3>4. answer \in Quote
      BY <1>3, <1>4, <2>2, <3>2, <3>3 DEF Quote
    <3>5. Priced(answer)
      BY <1>4, <3>1, <3>2 DEF Priced
    <3> QED BY <3>1, <3>4, <3>5
  <2> QED BY <1>1, <2>1, <2>2 DEF Quoted
<1>6. /\ quotes' \in Seq(Asked)
      /\ \A j \in DOMAIN quotes' : \E k \in DOMAIN quotes : quotes'[j] = quotes[k]
      /\ \A k \in DOMAIN quotes : k # i => \E j \in DOMAIN quotes' : quotes'[j] = quotes[k]
  BY <1>2, <1>3, RemoveAtProperties
<1>7. page \in Page
  BY DEF IInv, TypeOK
<1>8. /\ page' \in Page /\ page'.at = page.at /\ page'.version = page.version
      /\ page'.draft = page.draft /\ page'.submitting = page.submitting
      /\ quotes[i].live => page'.quote = answer
      /\ ~quotes[i].live => page'.quote = page.quote
  BY <1>1, <1>5, <1>7 DEF Page
<1>9. Shown' <=> Shown
  BY <1>8 DEF Shown
<1>10. TypeOK' /\ DraftThere'
  BY <1>2, <1>6, <1>8, <1>9 DEF IInv, TypeOK, DraftThere
<1>11. Priced(page.quote)'
  BY <1>5, <1>8 DEF IInv
<1>12. QuotesFollow'
  <2> SUFFICES ASSUME Shown
               PROVE  /\ \A j \in DOMAIN quotes' : quotes'[j].live => quotes'[j].floors = page'.draft.floors
                      /\ EveryFloorValid(page'.draft.floors) =>
                            page'.quote.key = page'.draft.floors \/ \E j \in DOMAIN quotes' : quotes'[j].live
    BY <1>9 DEF QuotesFollow
  <2>1. \A k \in DOMAIN quotes : quotes[k].live => quotes[k].floors = page.draft.floors
    BY DEF IInv, QuotesFollow
  <2>2. \A j \in DOMAIN quotes' : quotes'[j].live => quotes'[j].floors = page'.draft.floors
    BY <1>6, <1>8, <2>1
  <2>3. ASSUME EveryFloorValid(page'.draft.floors)
        PROVE  page'.quote.key = page'.draft.floors \/ \E j \in DOMAIN quotes' : quotes'[j].live
    <3>1. CASE quotes[i].live
      BY <1>5, <1>8, <2>1, <3>1 DEF floors
    <3>2. CASE ~quotes[i].live
      <4>1. page.quote.key = page.draft.floors \/ \E k \in DOMAIN quotes : quotes[k].live
        BY <1>8, <2>3 DEF IInv, QuotesFollow
      <4>2. CASE page.quote.key = page.draft.floors
        BY <1>8, <3>2, <4>2
      <4>3. ASSUME NEW k \in DOMAIN quotes, quotes[k].live
            PROVE  \E j \in DOMAIN quotes' : quotes'[j].live
        <5>1. k # i
          BY <3>2, <4>3
        <5>2. PICK j \in DOMAIN quotes' : quotes'[j] = quotes[k]
          BY <1>6, <5>1
        <5> QED BY <4>3, <5>2
      <4> QED BY <4>1, <4>2, <4>3
    <3> QED BY <3>1, <3>2
  <2> QED BY <2>2, <2>3
<1>13. OrdersInTurn'
  BY <1>2, <1>8, <1>9 DEF IInv, OrdersInTurn
<1> QED BY <1>2, <1>10, <1>11, <1>12, <1>13 DEF IInv

LEMMA ChangeFloorsCountKeeps ==
    ASSUME IInv, Shown, NEW n \in 1 .. MaxFloors, ChangeFloorsCount(n)
    PROVE  IInv'
<1> DEFINE v == page.version
           floors == page.draft.floors
           kept(floor) == IF n > 2 /\ Loaded[floor.dough].aerated /\ Plain(v) # {}
                          THEN [floor EXCEPT !.dough = Foremost(Plain(v))] ELSE floor
           fresh(i) == DefaultFloor(v, i, n > 2)
           built == [i \in 1 .. n |-> IF i <= Len(floors) THEN kept(floors[i]) ELSE fresh(i)]
<1>1. /\ n > Len(floors) => Complete(v)
      /\ Edit([page.draft EXCEPT !.floors = built])
  BY DEF ChangeFloorsCount
<1>2. page.draft \in Draft /\ floors \in Seq(Storey)
  BY DEF IInv, DraftThere, Draft, Floors
<1>3. /\ Len(floors) \in Nat
      /\ \A i \in 1 .. Len(floors) : floors[i] \in Storey
  BY <1>2, SeqShape
<1>4. ASSUME NEW floor \in Storey
      PROVE  kept(floor) \in Storey
  <2>1. Plain(v) # {} => Foremost(Plain(v)) \in Ids
    BY ListedIds, ForemostIn
  <2> QED BY <2>1, FloorFields
<1>5. ASSUME NEW i \in 1 .. n, ~(i <= Len(floors))
      PROVE  fresh(i) \in Storey
  <2>1. Complete(v) /\ i \in 1 .. 4
    BY <1>1, <1>3, <1>5, BuilderAssumption
  <2>2. (n > 2) \in BOOLEAN
    OBVIOUS
  <2> QED BY <2>1, <2>2, DefaultFloorType
<1> HIDE DEF kept, fresh, floors
<1>6. built \in [1 .. n -> Storey]
  BY <1>3, <1>4, <1>5
<1>7. n \in Nat
  BY BuilderAssumption
<1> HIDE DEF built
<1>8. built \in Floors
  BY <1>6, <1>7, MappedSeq DEF Floors
<1>9. [page.draft EXCEPT !.floors = built] \in Draft
  BY <1>2, <1>8 DEF Draft
<1> QED BY <1>1, <1>9, EditKeeps

LEMMA EditsKeep ==
    ASSUME IInv, Edits
    PROVE  IInv'
<1>1. Shown
  BY DEF Edits, Editing, Shown
<1>2. page.draft \in Draft
  BY <1>1 DEF IInv, DraftThere
<1>3. \A i \in DOMAIN page.draft.floors : page.draft.floors[i] \in Storey
  BY <1>2, SeqShape DEF Draft, Floors
<1>4. ASSUME NEW n \in 1 .. MaxFloors, ChangeFloorsCount(n)
      PROVE  IInv'
  BY <1>1, <1>4, ChangeFloorsCountKeeps
<1>5. ASSUME NEW i \in DOMAIN page.draft.floors, NEW floor \in Storey, EditFloor(i, floor)
      PROVE  IInv'
  <2>1. [page.draft EXCEPT !.floors[i] = floor] \in Draft
    BY <1>2, FloorEdited
  <2> QED BY <1>5, <2>1, EditKeeps DEF EditFloor
<1>6. ASSUME NEW i \in DOMAIN page.draft.floors, SelectDough(i)
      PROVE  IInv'
  <2>1. PICK dough \in Listed(page.version, "MASSA") :
            EditFloor(i, [page.draft.floors[i] EXCEPT !.dough = dough])
    BY <1>6 DEF SelectDough
  <2>2. [page.draft.floors[i] EXCEPT !.dough = dough] \in Storey
    BY <1>3, ListedIds, FloorFields
  <2> QED BY <1>5, <2>1, <2>2
<1>7. ASSUME NEW i \in DOMAIN page.draft.floors, SelectCoverage(i)
      PROVE  IInv'
  <2>1. PICK coverage \in Listed(page.version, "COBERTURA") :
            EditFloor(i, [page.draft.floors[i] EXCEPT !.coverage = coverage])
    BY <1>7 DEF SelectCoverage
  <2>2. [page.draft.floors[i] EXCEPT !.coverage = coverage] \in Storey
    BY <1>3, ListedIds, FloorFields
  <2> QED BY <1>5, <2>1, <2>2
<1>8. ASSUME NEW i \in DOMAIN page.draft.floors, TypeWeight(i)
      PROVE  IInv'
  <2>1. PICK w \in Weights :
            EditFloor(i, [page.draft.floors[i] EXCEPT !.grams = Clamped(w)])
    BY <1>8 DEF TypeWeight
  <2>2. Clamped(w) \in Nat
    BY ClampedWeight, BuilderAssumption
  <2>3. [page.draft.floors[i] EXCEPT !.grams = Clamped(w)] \in Storey
    BY <1>3, <2>2, FloorFields
  <2> QED BY <1>5, <2>1, <2>3
<1>9. ASSUME NEW i \in DOMAIN page.draft.floors, ToggleFilling(i)
      PROVE  IInv'
  <2> DEFINE floor == page.draft.floors[i]
             toggled(filling) == [floor EXCEPT !.fillings =
                IF filling \notin ToSet(floor.fillings) THEN Append(@, filling)
                ELSE IF Len(@) <= 1 THEN @
                ELSE <<@[IF @[1] = filling THEN 2 ELSE 1]>>]
  <2>1. PICK filling \in Listed(page.version, "RECHEIO") :
            /\ filling \in ToSet(floor.fillings) \/ Len(floor.fillings) < 2
            /\ EditFloor(i, toggled(filling))
    BY <1>9 DEF ToggleFilling
  <2>2. floor \in Storey /\ filling \in Ids
    BY <1>3, ListedIds
  <2>3. toggled(filling) \in Storey
    BY <2>1, <2>2, FillingToggled
  <2> HIDE DEF toggled
  <2> QED BY <1>5, <2>1, <2>3
<1>10. ASSUME ToggleDietaryFlag
       PROVE  IInv'
  <2>1. PICK flag \in Flags :
            Edit([page.draft EXCEPT !.flags = IF flag \in @ THEN @ \ {flag} ELSE @ \union {flag}])
    BY <1>10 DEF ToggleDietaryFlag
  <2>2. [page.draft EXCEPT !.flags = IF flag \in @ THEN @ \ {flag} ELSE @ \union {flag}] \in Draft
    BY <1>2 DEF Draft
  <2> QED BY <2>1, <2>2, EditKeeps
<1>11. ASSUME ChangeLook
       PROVE  IInv'
  BY <1>2, <1>11, EditKeeps DEF ChangeLook
<1>12. ASSUME RemoveImage
       PROVE  IInv'
  <2>1. [page.draft EXCEPT !.image = FALSE] \in Draft
    BY <1>2 DEF Draft
  <2> QED BY <1>12, <2>1, EditKeeps DEF RemoveImage
<1>13. ASSUME ResetDraft
       PROVE  IInv'
  <2>1. InitialDraft(page.version) \in Draft
    BY <1>13, InitialDraftType DEF ResetDraft
  <2> QED BY <1>13, <2>1, EditKeeps DEF ResetDraft
<1> QED BY <1>4, <1>6, <1>7, <1>8, <1>9, <1>10, <1>11, <1>12, <1>13 DEF Edits

LEMMA StartUploadKeeps ==
    ASSUME IInv, StartUpload
    PROVE  IInv'
<1>1. Shown /\ upload' = "sent" /\ UNCHANGED <<version, page, storage, quotes, strays, orders>>
  BY DEF StartUpload, Editing, Shown
<1>2. TypeOK' /\ DraftThere' /\ Priced(page.quote)'
  BY <1>1 DEF IInv, TypeOK, DraftThere, Shown
<1>3. QuotesFollow' /\ OrdersInTurn'
  BY <1>1 DEF IInv, QuotesFollow, OrdersInTurn, Shown
<1> QED BY <1>1, <1>2, <1>3 DEF IInv

LEMMA UploadArrivesKeeps ==
    ASSUME IInv, UploadArrives
    PROVE  IInv'
<1>1. /\ upload = "sent" /\ upload' = "none"
      /\ UNCHANGED <<version, strays, orders>>
      /\ Shown /\ page.draft \in Draft
  BY DEF UploadArrives, IInv, DraftThere
<1> DEFINE pictured == [page.draft EXCEPT !.image = TRUE]
<1>2. pictured \in Draft /\ pictured.floors = page.draft.floors
  BY <1>1 DEF Draft
<1> HIDE DEF pictured
<1>3. CASE UNCHANGED <<page, storage, quotes>>
  <2>1. TypeOK' /\ DraftThere' /\ Priced(page.quote)'
    BY <1>1, <1>3 DEF IInv, TypeOK, DraftThere, Shown
  <2>2. QuotesFollow' /\ OrdersInTurn'
    BY <1>1, <1>3 DEF IInv, QuotesFollow, OrdersInTurn, Shown
  <2> QED BY <1>1, <2>1, <2>2 DEF IInv
<1>4. CASE /\ page' = [page EXCEPT !.draft.image = TRUE]
           /\ storage' = page'.draft
           /\ quotes' = Requote(page.draft)
  <2>1. page' = [page EXCEPT !.draft = pictured]
    BY <1>4 DEF pictured
  <2>2. /\ page' \in Page /\ page'.at = page.at /\ page'.version = page.version
        /\ page'.draft = pictured /\ page'.quote = page.quote /\ page'.submitting = page.submitting
    BY <1>2, <2>1 DEF IInv, TypeOK, Page
  <2>3. /\ quotes' \in Seq(Asked)
        /\ \A i \in DOMAIN quotes' : quotes'[i].live => quotes'[i].floors = page.draft.floors
        /\ EveryFloorValid(page.draft.floors) => \E i \in DOMAIN quotes' : quotes'[i].live
    BY <1>1, <1>4, RequoteAsks DEF IInv, TypeOK
  <2>4. Shown'
    BY <1>1, <2>2 DEF Shown
  <2>5. TypeOK' /\ DraftThere' /\ Priced(page.quote)'
    BY <1>1, <1>2, <1>4, <2>2, <2>3, <2>4 DEF IInv, TypeOK, DraftThere
  <2>6. QuotesFollow'
    BY <1>2, <2>2, <2>3 DEF QuotesFollow
  <2>7. OrdersInTurn'
    BY <1>1, <2>2, <2>4 DEF IInv, OrdersInTurn
  <2> QED BY <1>1, <2>5, <2>6, <2>7 DEF IInv
<1> QED BY <1>3, <1>4 DEF UploadArrives

LEMMA StrayUploadArrivesKeeps ==
    ASSUME IInv, NEW i \in DOMAIN strays, StrayUploadArrives(i)
    PROVE  IInv'
<1>1. /\ storage' \in {storage, [strays[i] EXCEPT !.image = TRUE]}
      /\ strays' = RemoveAt(strays, i)
      /\ UNCHANGED <<version, page, quotes, upload, orders>>
  BY DEF StrayUploadArrives
<1>2. strays \in Seq(Draft) /\ strays[i] \in Draft
  BY SeqShape DEF IInv, TypeOK
<1>3. strays' \in Seq(Draft)
  BY <1>1, <1>2, RemoveAtProperties
<1>4. storage' \in Draft \union {None}
  BY <1>1, <1>2 DEF IInv, TypeOK, Draft
<1>5. TypeOK' /\ DraftThere' /\ Priced(page.quote)'
  BY <1>1, <1>3, <1>4 DEF IInv, TypeOK, DraftThere, Shown
<1>6. QuotesFollow' /\ OrdersInTurn'
  BY <1>1 DEF IInv, QuotesFollow, OrdersInTurn, Shown
<1> QED BY <1>1, <1>5, <1>6 DEF IInv

\* The two tables of allergens, of the page and of the API, say the same of every
\* flag the builder offers.
LEMMA TablesAgree ==
    ASSUME NEW flag \in DietaryKeys
    PROVE  Equivalents(flag) = Forbidden(flag)
BY DEF DietaryKeys, Equivalents, Forbidden

LEMMA SubmitOrderKeeps ==
    ASSUME IInv, SubmitOrder
    PROVE  IInv'
<1> DEFINE n == Len(orders)
           new == [NoOrder EXCEPT !.at = "sent", !.mine = TRUE, !.again = page.at = "ordered",
                                  !.draft = page.draft, !.loaded = page.version, !.shown = CurrentQuote]
<1>1. /\ Shown /\ ~page.submitting
      /\ ~DietaryConflict /\ CurrentQuote.price # None
      /\ orders' = Append(orders, new)
      /\ page' = [page EXCEPT !.submitting = TRUE]
      /\ UNCHANGED <<version, storage, quotes, upload, strays, edits>>
  BY DEF SubmitOrder, Submittable, Submit, Shown
<1>2. page.draft \in Draft /\ page.version \in DOMAIN Catalogs /\ page.version \in Nat
  <2>1. page.draft \in Draft /\ page.version \in DOMAIN Catalogs
    BY <1>1 DEF IInv, DraftThere
  <2>2. Catalogs \in Seq([Ids -> Ingredient])
    BY BuilderAssumption
  <2> QED BY <2>1, <2>2, SeqShape
<1>3. CurrentQuote \in Quote /\ CurrentQuote.key = page.draft.floors /\ Priced(CurrentQuote)
  <2>1. page.quote \in Quote /\ Priced(page.quote)
    BY DEF IInv, TypeOK, Page
  <2>2. NoQuote.price = None
    BY DEF NoQuote
  <2> QED BY <1>1, <2>1, <2>2 DEF CurrentQuote
<1>4. /\ new.at = "sent" /\ new.mine /\ (page.at = "ordered" => new.again)
      /\ new.draft = page.draft /\ new.loaded = page.version /\ new.shown = CurrentQuote
  BY DEF NoOrder
<1>5. new \in OrderSent
  <2>1. NoOrder \in OrderSent
    BY EmptyPage DEF NoOrder, OrderSent, Totals
  <2> HIDE DEF NoOrder
  <2> QED BY <1>2, <1>3, <2>1 DEF OrderSent, Pending
<1> HIDE DEF new
<1>6. LetThrough(new)
  <2>1. NoDietaryConflict(page.draft.flags, Found(Catalogs[page.version], page.draft.floors))
    <3>1. \A flag \in page.draft.flags : Equivalents(flag) = Forbidden(flag)
      BY <1>2, TablesAgree, BuilderAssumption DEF Draft
    <3> QED BY <1>1, <3>1 DEF DietaryConflict, NoDietaryConflict, Found, Loaded
  <2> QED BY <1>1, <1>2, <1>3, <1>4, <2>1 DEF LetThrough
<1>7. /\ n \in Nat /\ DOMAIN orders = 1 .. n
      /\ orders' \in Seq(OrderSent) /\ DOMAIN orders' = 1 .. n + 1
      /\ orders'[n + 1] = new
      /\ \A k \in 1 .. n : orders'[k] = orders[k]
  <2>1. orders \in Seq(OrderSent)
    BY DEF IInv, TypeOK
  <2> QED BY <1>1, <1>5, <2>1, SeqShape, AppendShape
<1> HIDE DEF n
<1>8. /\ page' \in Page /\ page'.at = page.at /\ page'.draft = page.draft
      /\ page'.version = page.version /\ page'.quote = page.quote /\ page'.submitting
  BY <1>1 DEF IInv, TypeOK, Page
<1>9. Shown'
  BY <1>1, <1>8 DEF Shown
<1>10. TypeOK' /\ DraftThere' /\ Priced(page.quote)'
  BY <1>1, <1>7, <1>8, <1>9 DEF IInv, TypeOK, DraftThere
<1>11. QuotesFollow'
  BY <1>1, <1>8 DEF IInv, QuotesFollow
<1>12. \A k \in DOMAIN orders' : k = n + 1 \/ k \in 1 .. n
  BY <1>7
<1>13. ASSUME NEW k \in DOMAIN orders', orders'[k].mine
       PROVE  /\ orders'[k].at \in Pending => page'.submitting
              /\ orders'[k].at = "done" => page'.at = "ordered"
  BY <1>4, <1>7, <1>8, <1>12, <1>13 DEF IInv, OrdersInTurn
<1>14. ASSUME NEW j \in DOMAIN orders', NEW k \in DOMAIN orders',
              orders'[j].mine, orders'[k].mine, j < k
       PROVE  /\ orders'[j].at \notin Pending
              /\ orders'[j].at = "done" => orders'[k].again
  <2>1. CASE k \in 1 .. n
    <3>1. j \in 1 .. n
      BY <1>7, <1>14, <2>1
    <3> QED BY <1>7, <1>14, <2>1, <3>1 DEF IInv, OrdersInTurn
  <2>2. CASE k = n + 1
    <3>1. j \in 1 .. n
      BY <1>7, <1>14, <2>2
    <3>2. orders[j].mine
      BY <1>7, <1>14, <3>1
    <3>3. orders[j].at \notin Pending /\ (orders[j].at = "done" => page.at = "ordered")
      BY <1>1, <1>7, <3>1, <3>2 DEF IInv, OrdersInTurn
    <3> QED BY <1>4, <1>7, <2>2, <3>1, <3>3
  <2> QED BY <1>12, <2>1, <2>2
<1>15. OrdersInTurn'
  BY <1>9, <1>13, <1>14 DEF OrdersInTurn
<1>16. (\A k \in DOMAIN orders : LetThrough(orders[k]))'
  BY <1>6, <1>7, <1>12 DEF IInv
<1> QED BY <1>10, <1>11, <1>15, <1>16 DEF IInv

\* A step of the API on an order that is under way.
LEMMA OrderStep ==
    ASSUME IInv, NEW k \in DOMAIN orders, NEW new \in OrderSent,
           orders[k].at \in Pending, orders' = [orders EXCEPT ![k] = new],
           new.mine = orders[k].mine, new.again = orders[k].again,
           new.at \in Pending, LetThrough(new),
           UNCHANGED <<version, page, storage, quotes, upload, strays>>
    PROVE  IInv'
<1> DEFINE n == Len(orders)
<1>1. /\ DOMAIN orders = 1 .. n /\ orders' \in Seq(OrderSent) /\ DOMAIN orders' = 1 .. n
      /\ orders'[k] = new /\ \A j \in 1 .. n : j # k => orders'[j] = orders[j]
  <2>1. orders \in Seq(OrderSent) /\ DOMAIN orders = 1 .. n
    BY SeqShape DEF IInv, TypeOK
  <2>2. /\ orders' \in Seq(OrderSent) /\ Len(orders') = n
        /\ \A j \in 1 .. n : orders'[j] = IF j = k THEN new ELSE orders[j]
    BY <2>1, ExceptSeq
  <2>3. DOMAIN orders' = 1 .. n
    BY <2>2, SeqShape
  <2> QED BY <2>1, <2>2, <2>3
<1> HIDE DEF n
<1>2. TypeOK' /\ DraftThere' /\ Priced(page.quote)'
  BY <1>1 DEF IInv, TypeOK, DraftThere, Shown
<1>3. QuotesFollow'
  BY DEF IInv, QuotesFollow, Shown
<1>4. \A j \in 1 .. n :
        /\ orders'[j].mine = orders[j].mine /\ orders'[j].again = orders[j].again
        /\ orders'[j].at \in Pending => orders[j].at \in Pending
        /\ orders'[j].at = "done" => orders[j].at = "done"
  BY <1>1 DEF Pending
<1>5. OrdersInTurn'
  BY <1>1, <1>4 DEF IInv, OrdersInTurn, Shown
<1>6. (\A j \in DOMAIN orders : LetThrough(orders[j]))'
  BY <1>1 DEF IInv
<1> QED BY <1>2, <1>3, <1>5, <1>6 DEF IInv

LEMMA PriceOrderKeeps ==
    ASSUME IInv, NEW k \in DOMAIN orders, PriceOrder(k)
    PROVE  IInv'
<1> DEFINE o == orders[k]
           floors == o.draft.floors
           new == IF Priceable(floors, Catalogs[version])
                  THEN [o EXCEPT !.at = "priced", !.priced = version,
                                 !.total = Price(floors, Catalogs[version])]
                  ELSE [o EXCEPT !.at = "refused", !.priced = version, !.read = version]
<1>1. o.at = "sent" /\ orders' = [orders EXCEPT ![k] = new]
      /\ UNCHANGED <<version, page, storage, quotes, upload, strays>>
  BY DEF PriceOrder
<1>2. o \in OrderSent /\ LetThrough(o)
  BY SeqShape DEF IInv, TypeOK
<1>3. version \in DOMAIN Catalogs /\ version \in Nat
  <2>1. Catalogs \in Seq([Ids -> Ingredient])
    BY BuilderAssumption
  <2> QED BY <2>1, SeqShape DEF IInv, TypeOK
<1>4. o.at \in Pending
  BY <1>1 DEF Pending
<1> HIDE DEF o
<1>5. floors \in Floors
  BY <1>2, <1>4 DEF LetThrough, Draft
<1>6. CASE Priceable(floors, Catalogs[version])
  <2> DEFINE total == Price(floors, Catalogs[version])
  <2>1. total \in Totals
    BY <1>3, <1>5 DEF Totals
  <2>2. new = [o EXCEPT !.at = "priced", !.priced = version, !.total = total]
    BY <1>6
  <2> HIDE DEF new
  <2>3. /\ new \in OrderSent /\ new.at = "priced" /\ new.priced = version /\ new.total = total
        /\ new.mine = o.mine /\ new.again = o.again
        /\ new.draft = o.draft /\ new.shown = o.shown /\ new.loaded = o.loaded
    BY <1>2, <1>3, <2>1, <2>2 DEF OrderSent, Pending
  <2>4. LetThrough(new)
    BY <1>2, <1>3, <1>4, <1>6, <2>3 DEF LetThrough
  <2>5. new.at \in Pending
    BY <2>3 DEF Pending
  <2> QED BY <1>1, <1>4, <2>3, <2>4, <2>5, OrderStep DEF o
<1>7. CASE ~Priceable(floors, Catalogs[version])
  <2>1. new = [o EXCEPT !.at = "refused", !.priced = version, !.read = version]
    BY <1>7
  <2> HIDE DEF new
  <2>2. /\ new \in OrderSent /\ new.at = "refused" /\ new.priced = version /\ new.read = version
        /\ new.mine = o.mine /\ new.again = o.again
        /\ new.draft = o.draft /\ new.shown = o.shown /\ new.loaded = o.loaded
    BY <1>2, <1>3, <2>1 DEF OrderSent, Pending
  <2>3. Priceable(floors, Catalogs[o.shown.version])
    BY <1>2, <1>4 DEF LetThrough, Priced
  <2>4. o.shown.version # version
    BY <1>7, <2>3
  <2>5. version # o.loaded \/ o.shown.version # o.loaded
    BY <2>4
  <2>6. LetThrough(new)
    BY <1>2, <1>4, <2>2, <2>5 DEF LetThrough
  <2>7. new.at \in Pending
    BY <2>2 DEF Pending
  <2> QED BY <1>1, <1>4, <2>2, <2>6, <2>7, OrderStep DEF o
<1> QED BY <1>6, <1>7

LEMMA StoreOrderKeeps ==
    ASSUME IInv, NEW k \in DOMAIN orders, StoreOrder(k)
    PROVE  IInv'
<1> DEFINE o == orders[k]
           free == NoDietaryConflict(o.draft.flags, Found(Catalogs[version], o.draft.floors))
           new == [o EXCEPT !.read = version, !.at = IF free THEN "created" ELSE "refused"]
<1>1. o.at = "priced" /\ orders' = [orders EXCEPT ![k].read = version,
                                                ![k].at = IF free THEN "created" ELSE "refused"]
      /\ UNCHANGED <<version, page, storage, quotes, upload, strays>>
  BY DEF StoreOrder
<1>2. o \in OrderSent /\ LetThrough(o)
  BY SeqShape DEF IInv, TypeOK
<1>3. version \in DOMAIN Catalogs /\ version \in Nat
  <2>1. Catalogs \in Seq([Ids -> Ingredient])
    BY BuilderAssumption
  <2> QED BY <2>1, SeqShape DEF IInv, TypeOK
<1>4. o.at \in Pending
  BY <1>1 DEF Pending
<1>5. orders' = [orders EXCEPT ![k] = new]
  BY <1>1
<1> HIDE DEF o, free
<1>6. /\ new \in OrderSent /\ new.read = version
      /\ new.at = IF free THEN "created" ELSE "refused"
      /\ new.mine = o.mine /\ new.again = o.again /\ new.priced = o.priced /\ new.total = o.total
      /\ new.draft = o.draft /\ new.shown = o.shown /\ new.loaded = o.loaded
  BY <1>2, <1>3 DEF OrderSent, Pending
<1> HIDE DEF new
<1>7. new.at \in Pending
  BY <1>6 DEF Pending
<1>8. ~free => version # o.loaded
  BY <1>2, <1>4 DEF LetThrough, free
<1>9. LetThrough(new)
  BY <1>1, <1>2, <1>4, <1>6, <1>8 DEF LetThrough
<1> QED BY <1>1, <1>4, <1>5, <1>6, <1>7, <1>9, OrderStep DEF o

LEMMA LoseOrderKeeps ==
    ASSUME IInv, NEW k \in DOMAIN orders, LoseOrder(k)
    PROVE  IInv'
<1> DEFINE o == orders[k]
           new == [o EXCEPT !.at = IF @ = "created" THEN "createdLost" ELSE "failed"]
<1>1. o.at \in {"sent", "priced", "created"}
      /\ orders' = [orders EXCEPT ![k].at = IF @ = "created" THEN "createdLost" ELSE "failed"]
      /\ UNCHANGED <<version, page, storage, quotes, upload, strays>>
  BY DEF LoseOrder
<1>2. o \in OrderSent /\ LetThrough(o)
  BY SeqShape DEF IInv, TypeOK
<1>3. o.at \in Pending
  BY <1>1 DEF Pending
<1>4. orders' = [orders EXCEPT ![k] = new]
  BY <1>1
<1> HIDE DEF o
<1>5. /\ new \in OrderSent
      /\ new.at = IF o.at = "created" THEN "createdLost" ELSE "failed"
      /\ new.mine = o.mine /\ new.again = o.again /\ new.priced = o.priced /\ new.total = o.total
      /\ new.read = o.read /\ new.draft = o.draft /\ new.shown = o.shown /\ new.loaded = o.loaded
  BY <1>2 DEF OrderSent, Pending
<1> HIDE DEF new
<1>6. new.at \in Pending
  BY <1>5 DEF Pending
<1>7. LetThrough(new)
  BY <1>2, <1>3, <1>5 DEF LetThrough
<1> QED BY <1>1, <1>3, <1>4, <1>5, <1>6, <1>7, OrderStep DEF o

LEMMA OrderArrivesKeeps ==
    ASSUME IInv, NEW k \in DOMAIN orders, OrderArrives(k)
    PROVE  IInv'
<1> DEFINE n == Len(orders)
           order == orders[k]
           done == CASE order.at = "created" -> "done" [] order.at = "createdLost" -> "doneLost"
                     [] OTHER -> "gone"
           released == IF order.mine THEN [page EXCEPT !.submitting = FALSE] ELSE page
           new == [NoOrder EXCEPT !.at = done, !.mine = order.mine, !.again = order.again]
<1>1. /\ order.at \in {"created", "createdLost", "refused", "failed"}
      /\ orders' = [orders EXCEPT ![k] = new]
      /\ order.at = "created" => storage' = None
            /\ page' = [released EXCEPT !.at = IF @ = "editing" THEN "ordered" ELSE @]
      /\ order.at # "created" => page' = released /\ storage' = storage
      /\ UNCHANGED <<version, quotes, upload, strays, edits>>
  BY DEF OrderArrives
<1>2. orders \in Seq(OrderSent) /\ DOMAIN orders = 1 .. n /\ order \in OrderSent
  BY SeqShape DEF IInv, TypeOK
<1>3. order.at \in Pending
  BY <1>1 DEF Pending
<1>4. done \in {"done", "doneLost", "gone"} /\ (done = "done" => order.at = "created")
  BY <1>1
<1> HIDE DEF order, done
<1>5. /\ new \in OrderSent /\ new.at = done /\ new.mine = order.mine /\ new.again = order.again
  <2>1. NoOrder \in OrderSent
    BY EmptyPage DEF NoOrder, OrderSent, Totals
  <2> HIDE DEF NoOrder
  <2> QED BY <1>2, <1>4, <2>1 DEF OrderSent, Pending
<1> HIDE DEF new
<1>6. /\ orders' \in Seq(OrderSent) /\ DOMAIN orders' = 1 .. n
      /\ orders'[k] = new /\ \A j \in 1 .. n : j # k => orders'[j] = orders[j]
  <2>1. /\ orders' \in Seq(OrderSent) /\ Len(orders') = n
        /\ \A j \in 1 .. n : orders'[j] = IF j = k THEN new ELSE orders[j]
    BY <1>1, <1>2, <1>5, ExceptSeq
  <2>2. DOMAIN orders' = 1 .. n
    BY <2>1, SeqShape
  <2> QED BY <1>2, <2>1, <2>2
<1> HIDE DEF n
<1>7. page \in Page
  BY DEF IInv, TypeOK
<1>8. /\ released \in Page /\ released.at = page.at /\ released.draft = page.draft
      /\ released.version = page.version /\ released.quote = page.quote
      /\ ~order.mine => (page.submitting => released.submitting)
  BY <1>7 DEF Page
<1> HIDE DEF released
<1>9. /\ page' \in Page /\ page'.draft = page.draft
      /\ page'.version = page.version /\ page'.quote = page.quote
      /\ released.submitting => page'.submitting
      /\ page'.at = page.at \/ (page.at = "editing" /\ page'.at = "ordered")
      /\ order.at = "created" => page'.at # "editing"
      /\ order.at = "created" /\ page.at = "editing" => page'.at = "ordered"
  <2>1. CASE order.at = "created"
    <3> DEFINE at == IF released.at = "editing" THEN "ordered" ELSE released.at
    <3>1. page' = [released EXCEPT !.at = at]
      BY <1>1, <2>1
    <3>2. at \in {"closed", "loading", "failed", "empty", "ordered"}
      BY <1>8 DEF Page
    <3>3. /\ page.at = "editing" => at = "ordered"
          /\ page.at # "editing" => at = page.at
      BY <1>8
    <3> HIDE DEF at
    <3>4. /\ page' \in Page /\ page'.draft = released.draft /\ page'.at = at
          /\ page'.version = released.version /\ page'.quote = released.quote
          /\ released.submitting => page'.submitting
      BY <1>8, <3>1, <3>2 DEF Page
    <3> QED BY <1>8, <2>1, <3>2, <3>3, <3>4
  <2>2. CASE order.at # "created"
    BY <1>1, <1>8, <2>2
  <2> QED BY <2>1, <2>2
<1>10. Shown' <=> Shown
  BY <1>9 DEF Shown
<1>11. TypeOK'
  BY <1>1, <1>6, <1>9 DEF IInv, TypeOK
<1>12. DraftThere' /\ Priced(page.quote)'
  BY <1>1, <1>9, <1>10 DEF IInv, DraftThere
<1>13. QuotesFollow'
  BY <1>1, <1>9, <1>10 DEF IInv, QuotesFollow, Shown
<1>14. ASSUME NEW j \in DOMAIN orders', orders'[j].mine
       PROVE  /\ Shown'
              /\ orders'[j].at \in Pending => page'.submitting
              /\ orders'[j].at = "done" => page'.at = "ordered"
  <2>1. CASE j = k
    <3>1. order.mine /\ orders'[j].at = done
      BY <1>5, <1>6, <1>14, <2>1
    <3>2. Shown
      BY <3>1 DEF IInv, OrdersInTurn, order
    <3>3. done \notin Pending /\ (done = "done" => page'.at = "ordered")
      BY <1>4, <1>9, <3>2 DEF Pending, Shown
    <3> QED BY <1>10, <3>1, <3>2, <3>3
  <2>2. CASE j # k
    <3>1. /\ j \in DOMAIN orders /\ orders'[j] = orders[j] /\ orders[j].mine
      BY <1>2, <1>6, <1>14, <2>2
    <3>2. /\ Shown /\ (orders[j].at \in Pending => page.submitting)
          /\ orders[j].at = "done" => page.at = "ordered"
      BY <3>1 DEF IInv, OrdersInTurn
    <3>3. orders[j].at = "done" => page'.at = "ordered"
      BY <1>9, <3>2
    <3>4. ASSUME orders[j].at \in Pending
          PROVE  ~order.mine
      <4>1. j < k \/ k < j
        BY <1>2, <1>6, <2>2
      <4> QED BY <1>3, <3>1, <3>4, <4>1 DEF IInv, OrdersInTurn, order
    <3>5. orders[j].at \in Pending => page'.submitting
      BY <1>8, <1>9, <3>2, <3>4
    <3> QED BY <1>10, <3>1, <3>2, <3>3, <3>5
  <2> QED BY <2>1, <2>2
<1>15. ASSUME NEW i \in DOMAIN orders', NEW j \in DOMAIN orders',
              orders'[i].mine, orders'[j].mine, i < j
       PROVE  /\ orders'[i].at \notin Pending
              /\ orders'[i].at = "done" => orders'[j].again
  <2>1. /\ i \in DOMAIN orders /\ j \in DOMAIN orders
        /\ orders[i].mine /\ orders[j].mine /\ orders'[j].again = orders[j].again
    BY <1>2, <1>5, <1>6, <1>15 DEF order
  <2>2. orders[i].at \notin Pending /\ (orders[i].at = "done" => orders[j].again)
    BY <1>15, <2>1 DEF IInv, OrdersInTurn
  <2>3. i # k
    BY <1>3, <2>2 DEF order
  <2> QED BY <1>2, <1>6, <2>1, <2>2, <2>3
<1>16. OrdersInTurn'
  BY <1>14, <1>15 DEF OrdersInTurn
<1>17. LetThrough(new)
  BY <1>4, <1>5 DEF LetThrough, Pending
<1>18. (\A j \in DOMAIN orders : LetThrough(orders[j]))'
  BY <1>2, <1>6, <1>17 DEF IInv
<1> QED BY <1>11, <1>12, <1>13, <1>16, <1>18 DEF IInv

-----------------------------------------------------------------------------
(* The theorems *)

LEMMA InitEstablishes == Init => IInv
<1> SUFFICES ASSUME Init PROVE IInv
  OBVIOUS
<1>1. /\ version = 1 /\ page = Closed /\ storage = None /\ quotes = <<>> /\ upload = "none"
      /\ strays = <<>> /\ orders = <<>>
  BY DEF Init
<1>2. 1 \in DOMAIN Catalogs
  <2>1. Catalogs \in Seq([Ids -> Ingredient]) /\ Catalogs # <<>>
    BY BuilderAssumption
  <2> QED BY <2>1, EmptySeq, SeqShape
<1>3. Closed \in Page /\ Closed.at = "closed" /\ Closed.quote = NoQuote /\ Priced(NoQuote)
  BY EmptyPage DEF Closed
<1>4. /\ quotes \in Seq(Asked) /\ strays \in Seq(Draft)
      /\ orders \in Seq(OrderSent) /\ DOMAIN orders = {}
  BY <1>1
<1> HIDE DEF Closed, NoQuote
<1>5. ~Shown
  BY <1>1, <1>3 DEF Shown
<1>6. TypeOK
  BY <1>1, <1>2, <1>3, <1>4 DEF TypeOK
<1>7. DraftThere /\ Priced(page.quote) /\ QuotesFollow
  BY <1>1, <1>3, <1>5 DEF DraftThere, QuotesFollow
<1>8. OrdersInTurn /\ \A k \in DOMAIN orders : LetThrough(orders[k])
  BY <1>4 DEF OrdersInTurn
<1> QED BY <1>6, <1>7, <1>8 DEF IInv

LEMMA StutterKeeps ==
    ASSUME IInv, UNCHANGED vars
    PROVE  IInv'
<1>1. UNCHANGED <<version, page, storage, quotes, upload, strays, orders>>
  BY DEF vars
<1>2. TypeOK' /\ DraftThere' /\ Priced(page.quote)'
  BY <1>1 DEF IInv, TypeOK, DraftThere, Shown
<1>3. QuotesFollow' /\ OrdersInTurn'
  BY <1>1 DEF IInv, QuotesFollow, OrdersInTurn, Shown
<1> QED BY <1>1, <1>2, <1>3 DEF IInv

\* The invariant of the builder, for every history of the catalogue, and any
\* number of edits, requests under way, visits and orders.
THEOREM BuilderInvariance == Spec => []IInv
<1>1. Init => IInv
  BY InitEstablishes
<1>2. IInv /\ [Next]_vars => IInv'
  <2> SUFFICES ASSUME IInv, [Next]_vars PROVE IInv'
    OBVIOUS
  <2>1. CASE Next
    BY <2>1, OpenBuilderKeeps, CatalogArrivesKeeps, LoseCatalogKeeps, LeaveBuilderKeeps,
       EditCatalogKeeps, QuoteArrivesKeeps, EditsKeep, StartUploadKeeps, UploadArrivesKeeps,
       StrayUploadArrivesKeeps,
       SubmitOrderKeeps, PriceOrderKeeps, StoreOrderKeeps, LoseOrderKeeps, OrderArrivesKeeps
    DEF Next
  <2>2. CASE UNCHANGED vars
    BY <2>2, StutterKeeps
  <2> QED BY <2>1, <2>2
<1> QED BY <1>1, <1>2, PTL DEF Spec

\* The effect that asks for quotes: a page whose requests are all answered
\* shows the answer for its floors, however late the earlier ones came.
THEOREM RestAlwaysHasQuote == Spec => []RestHasQuote
<1>1. IInv => RestHasQuote
  BY DEF IInv, QuotesFollow, RestHasQuote, Shown
<1> QED BY <1>1, BuilderInvariance, PTL

\* handleSubmitOrder: a visit orders one cake, unless an answer was lost or the
\* button was pressed again before the push to the orders page.
THEOREM OneOrderAVisit == Spec => []OneOrderPerVisit
<1>1. IInv => OneOrderPerVisit
  BY DEF IInv, OrdersInTurn, OneOrderPerVisit, InDatabase, Pending
<1> QED BY <1>1, BuilderInvariance, PTL

\* RN02: the total of an order is the price its customer saw, however the
\* answers and the edits were ordered, unless the catalogue was edited between
\* the two computations.
THEOREM ShownPriceIsAlwaysCharged == Spec => []ShownPriceIsCharged
<1>1. IInv => ShownPriceIsCharged
  <2> SUFFICES ASSUME IInv, NEW k \in Stored, orders[k].shown.version = orders[k].priced
               PROVE  orders[k].total = orders[k].shown.price
    BY DEF ShownPriceIsCharged
  <2>1. LetThrough(orders[k]) /\ orders[k].at \in {"created", "createdLost"}
    BY DEF IInv, Stored
  <2> QED BY <2>1 DEF LetThrough, Pending, Priced
<1> QED BY <1>1, BuilderInvariance, PTL

\* RF06, RN01: the API refuses an order that the page let through only when the
\* catalogue is not the one the page loaded.
THEOREM LetThroughIsAlwaysAccepted == Spec => []LetThroughIsAccepted
<1>1. IInv => LetThroughIsAccepted
  <2> SUFFICES ASSUME IInv, NEW k \in DOMAIN orders, orders[k].at = "refused"
               PROVE  \E v \in {orders[k].priced, orders[k].read, orders[k].shown.version} :
                        v # orders[k].loaded
    BY DEF LetThroughIsAccepted
  <2>1. LetThrough(orders[k]) /\ orders[k].at \in Pending
    BY DEF IInv, Pending
  <2> QED BY <2>1 DEF LetThrough
<1> QED BY <1>1, BuilderInvariance, PTL

\* buildOrderItemSnapshots: the items of every floor of a stored order add up
\* to its part of the total within two cents, unless the catalogue was edited
\* between the price and the snapshots.
THEOREM FloorsAlwaysAddUp == Spec => []FloorsAddUp
<1>1. IInv => FloorsAddUp
  <2> SUFFICES ASSUME IInv, NEW k \in Stored, orders[k].priced = orders[k].read,
                      NEW i \in DOMAIN orders[k].draft.floors
               PROVE  LET floors == orders[k].draft.floors
                          found == Found(Catalogs[orders[k].read], floors)
                      IN  ItemsCents(floors[i], Ids, found) - LayerCents(floors[i], found) \in -2 .. 2
    BY DEF FloorsAddUp
  <2> DEFINE floors == orders[k].draft.floors
             shop == Catalogs[orders[k].read]
             found == Found(shop, floors)
             S == {j \in IngredientIds(floors) : shop[j].active}
  <2>1. LetThrough(orders[k]) /\ orders[k].at \in {"created", "createdLost"}
    BY DEF IInv, Stored
  <2>2. /\ orders[k].draft \in Draft
        /\ orders[k].read \in DOMAIN Catalogs
        /\ Priceable(floors, shop)
    BY <2>1 DEF LetThrough, Pending
  <2> HIDE DEF floors, shop
  <2>3. floors \in Seq(Storey) /\ i \in DOMAIN floors
    BY <2>2 DEF floors, Draft, Floors
  <2>4. \A j \in DOMAIN floors : floors[j] \in Floor(Ids, Nat)
    BY <2>3, SeqShape DEF Storey
  <2>5. shop \in [Ids -> Ingredient]
    BY <2>2, CatalogRow, BuilderAssumption DEF shop
  <2>6. IngredientIds(floors) \subseteq Ids
    <3>1. ASSUME NEW j \in DOMAIN floors
          PROVE  ToSet(Layer(floors[j])) \subseteq Ids
      BY <2>4, LayerIds
    <3> QED BY <3>1 DEF IngredientIds
  <2>7. found = [j \in S |-> shop[j]]
    BY DEF Found
  <2>8. S \in SUBSET Ids /\ found \in [S -> Ingredient]
    BY <2>5, <2>6, <2>7
  <2>9. IngredientIds(floors) \subseteq S
    BY <2>2, <2>7 DEF Priceable, AllExist
  <2>10. ToSet(Layer(floors[i])) \subseteq S
    BY <2>3, <2>9 DEF IngredientIds
  <2> HIDE DEF found, S
  <2>11. ItemsCents(floors[i], Ids, found) - LayerCents(floors[i], found) \in -2 .. 2
    BY <2>3, <2>4, <2>8, <2>10, SnapshotsAddUp
  <2> QED BY <2>11 DEF floors, shop, found
<1> QED BY <1>1, BuilderInvariance, PTL

-----------------------------------------------------------------------------
(* The draft from one visit to the next *)

\* What a step does to the draft and to its copy in the storage.
LEMMA DraftStep ==
    ASSUME IInv, Next
    PROVE  \/ Shown' /\ storage' = page'.draft
           \/ storage' = storage /\ (Shown' => Shown /\ page'.draft = page.draft)
           \/ Len(strays') < Len(strays) /\ storage' # storage
           \/ OrderAnswered
<1>1. CASE OpenBuilder \/ LoseCatalog \/ LeaveBuilder
  <2>1. CASE OpenBuilder
    BY <2>1 DEF OpenBuilder, Closed, Shown
  <2>2. CASE LoseCatalog
    BY <2>2 DEF LoseCatalog, IInv, TypeOK, Page, Shown
  <2>3. CASE LeaveBuilder
    BY <2>3 DEF LeaveBuilder, Unmounted, Closed, Shown
  <2> QED BY <1>1, <2>1, <2>2, <2>3
<1>2. CASE CatalogArrives
  <2> DEFINE restored == IF Restorable(version) THEN storage ELSE InitialDraft(version)
  <2>1. /\ page' = [page EXCEPT !.at = IF restored = None THEN "empty" ELSE "editing",
                                !.version = version, !.draft = restored]
        /\ storage' = IF restored = None THEN storage ELSE restored
    BY <1>2 DEF CatalogArrives
  <2> HIDE DEF restored
  <2>2. /\ page'.draft = restored
        /\ page'.at = IF restored = None THEN "empty" ELSE "editing"
    BY <2>1 DEF IInv, TypeOK, Page
  <2> QED BY <2>1, <2>2 DEF Shown
<1>3. CASE Edits \/ UploadArrives
  <2>1. Shown /\ page \in Page
    BY <1>3 DEF Edits, Editing, UploadArrives, IInv, TypeOK, DraftThere, Shown
  <2>2. ASSUME NEW draft, Edit(draft)
        PROVE  Shown' /\ storage' = page'.draft
    BY <2>1, <2>2 DEF Edit, Shown, Page
  <2>3. CASE Edits
    BY <2>2, <2>3 DEF Edits, ChangeFloorsCount, SelectDough, SelectCoverage, TypeWeight,
       ToggleFilling, EditFloor, ToggleDietaryFlag, ChangeLook, RemoveImage, ResetDraft
  <2>4. CASE UploadArrives
    BY <2>1, <2>4 DEF UploadArrives, Shown, Page
  <2> QED BY <1>3, <2>3, <2>4
<1>4. CASE EditCatalog \/ StartUpload \/ SubmitOrder \/ \E i \in DOMAIN quotes : QuoteArrives(i)
  <2>1. page \in Page
    BY DEF IInv, TypeOK
  <2>2. storage' = storage /\ page'.at = page.at /\ page'.draft = page.draft
    BY <1>4, <2>1 DEF EditCatalog, StartUpload, SubmitOrder, Submit, QuoteArrives, Page
  <2> QED BY <2>2 DEF Shown
<1>5. ASSUME NEW i \in DOMAIN strays, StrayUploadArrives(i)
      PROVE  Len(strays') < Len(strays) /\ page' = page
  <2>1. strays \in Seq(Draft) /\ strays' = RemoveAt(strays, i) /\ page' = page
    BY <1>5 DEF IInv, TypeOK, StrayUploadArrives
  <2> QED BY <2>1, RemoveAtProperties
<1>6. ASSUME NEW k \in DOMAIN orders, PriceOrder(k) \/ StoreOrder(k) \/ LoseOrder(k)
      PROVE  storage' = storage /\ page' = page
  BY <1>6 DEF PriceOrder, StoreOrder, LoseOrder
<1>7. ASSUME NEW k \in DOMAIN orders, OrderArrives(k), orders[k].at = "created"
      PROVE  OrderAnswered
  <2>1. orders' = [orders EXCEPT ![k] =
            [NoOrder EXCEPT !.at = "done", !.mine = orders[k].mine, !.again = orders[k].again]]
    BY <1>7 DEF OrderArrives
  <2>2. orders'[k].at = "done"
    BY <2>1 DEF NoOrder
  <2> QED BY <1>7, <2>2 DEF OrderAnswered
<1>8. ASSUME NEW k \in DOMAIN orders, OrderArrives(k), orders[k].at # "created"
      PROVE  storage' = storage /\ page'.at = page.at /\ page'.draft = page.draft
  <2>1. page \in Page
    BY DEF IInv, TypeOK
  <2> QED BY <1>8, <2>1 DEF OrderArrives, Page
<1>9. ASSUME NEW i \in DOMAIN strays, StrayUploadArrives(i)
      PROVE  \/ storage' = storage /\ (Shown' => Shown /\ page'.draft = page.draft)
             \/ Len(strays') < Len(strays) /\ storage' # storage
  BY <1>5, <1>9 DEF Shown
<1>10. ASSUME NEW k \in DOMAIN orders,
              PriceOrder(k) \/ StoreOrder(k) \/ LoseOrder(k) \/ OrderArrives(k)
       PROVE  \/ storage' = storage /\ (Shown' => Shown /\ page'.draft = page.draft)
              \/ OrderAnswered
  BY <1>6, <1>7, <1>8, <1>10 DEF Shown
<1> QED BY <1>1, <1>2, <1>3, <1>4, <1>9, <1>10 DEF Next

\* A draft comes on the screen of a visit only with the catalogue.
LEMMA OnlyCatalogShows ==
    ASSUME IInv, Next, page.at = "loading", page'.at = "editing"
    PROVE  CatalogArrives
<1>1. ~Shown /\ upload = "none" /\ page \in Page
  BY DEF IInv, TypeOK, DraftThere, Shown
<1>2. CASE OpenBuilder \/ LoseCatalog
  BY <1>1, <1>2 DEF OpenBuilder, LoseCatalog, Page
<1>3. CASE LeaveBuilder
  BY <1>3 DEF LeaveBuilder, Unmounted, Closed
<1>4. CASE EditCatalog \/ Edits \/ StartUpload \/ UploadArrives \/ SubmitOrder
  BY <1>1, <1>4 DEF EditCatalog, Edits, Editing, StartUpload, UploadArrives, SubmitOrder,
     Submittable
<1>5. ASSUME NEW i \in DOMAIN quotes, QuoteArrives(i)
      PROVE  FALSE
  BY <1>1, <1>5 DEF QuoteArrives, Page
<1>6. ASSUME NEW i \in DOMAIN strays, StrayUploadArrives(i)
      PROVE  FALSE
  BY <1>6 DEF StrayUploadArrives
<1>7. ASSUME NEW k \in DOMAIN orders, PriceOrder(k) \/ StoreOrder(k) \/ LoseOrder(k)
      PROVE  FALSE
  BY <1>7 DEF PriceOrder, StoreOrder, LoseOrder
<1>8. ASSUME NEW k \in DOMAIN orders, OrderArrives(k)
      PROVE  FALSE
  <2> DEFINE released == IF orders[k].mine THEN [page EXCEPT !.submitting = FALSE] ELSE page
  <2>1. released.at = "loading" /\ released \in Page
    BY <1>1 DEF Page
  <2>2. \/ page' = released
        \/ page' = [released EXCEPT !.at = IF @ = "editing" THEN "ordered" ELSE @]
    BY <1>8 DEF OrderArrives
  <2> HIDE DEF released
  <2> QED BY <2>1, <2>2 DEF Page
<1> QED BY <1>2, <1>3, <1>4, <1>5, <1>6, <1>7, <1>8 DEF Next

\* The screen shows the draft that was shown last, and unless it is known why
\* not, so does the storage.
HInv ==
    /\ shown \in Draft \union {None}
    /\ Shown => shown = page.draft
    /\ shown # None /\ lost = "none" => storage = shown

LEMMA HistoryKeeps ==
    ASSUME IInv, IInv', HInv, HNext
    PROVE  HInv'
<1>1. /\ shown' = IF Shown' THEN page'.draft ELSE shown
      /\ lost' = IF storage' = shown' THEN "none"
                 ELSE IF OrderAnswered THEN "order"
                 ELSE IF Len(strays') < Len(strays) /\ storage' # storage THEN "upload"
                 ELSE lost
      /\ Next
  BY DEF HNext, Shown
<1>2. shown' \in Draft \union {None} /\ (Shown' => shown' = page'.draft)
  BY <1>1 DEF IInv, DraftThere, HInv
<1>3. ASSUME shown' # None, lost' = "none", storage' # shown'
      PROVE  FALSE
  <2>1. ~OrderAnswered /\ ~(Len(strays') < Len(strays) /\ storage' # storage) /\ lost = "none"
    BY <1>1, <1>3
  <2>2. \/ Shown' /\ storage' = page'.draft
        \/ storage' = storage /\ (Shown' => Shown /\ page'.draft = page.draft)
    BY <1>1, <2>1, DraftStep
  <2>3. storage' = storage /\ shown' = shown
    BY <1>1, <1>3, <2>2 DEF HInv
  <2> QED BY <1>3, <2>1, <2>3 DEF HInv
<1> QED BY <1>2, <1>3 DEF HInv

LEMMA VisitRestores ==
    ASSUME IInv, HInv, Next, Revisited, lost = "none"
    PROVE  page'.draft = shown
<1>1. /\ shown \in Draft /\ storage = shown /\ CatalogArrives
      /\ \A i \in IngredientIds(storage.floors) : Catalogs[version][i].active
  BY OnlyCatalogShows DEF HInv, Revisited
<1>2. \A i \in DOMAIN storage.floors : storage.floors[i].fillings # <<>>
  BY <1>1, SeqShape DEF Draft, Floors, Storey
<1>3. Restorable(version)
  BY <1>1, <1>2 DEF Restorable, Revisited
<1>4. page'.draft = storage
  BY <1>1, <1>3 DEF CatalogArrives, IInv, TypeOK, Page
<1> QED BY <1>1, <1>4

\* updateDraft and readDraftFromSession: the next visit shows the very draft the
\* last one did, for every history of the catalogue that keeps its ingredients, and
\* whatever was edited, ordered, answered and left before, unless the answer to an
\* order or the upload of a page left before wrote to the storage in between.
THEOREM VisitAlwaysRestores == HSpec => VisitRestoresDraft
<1>1. HInit => Init /\ HInv
  BY EmptyPage DEF HInit, Init, HInv, Shown, Closed
<1>2. [HNext]_hvars => [Next]_vars
  BY DEF HNext, hvars
<1>3. IInv /\ IInv' /\ HInv /\ [HNext]_hvars => HInv'
  <2> SUFFICES ASSUME IInv, IInv', HInv, [HNext]_hvars PROVE HInv'
    OBVIOUS
  <2>1. CASE UNCHANGED hvars
    BY <2>1 DEF hvars, vars, HInv, Shown
  <2> QED BY <2>1, HistoryKeeps
<1>4. IInv /\ HInv /\ [HNext]_hvars
        => [Revisited /\ lost = "none" => page'.draft = shown]_hvars
  BY VisitRestores DEF HNext
<1>5. HSpec => Spec
  BY <1>1, <1>2, PTL DEF HSpec, Spec
<1> QED BY <1>1, <1>3, <1>4, <1>5, BuilderInvariance, PTL DEF HSpec, VisitRestoresDraft
=============================================================================
