--------------------------- MODULE BackOfficeProofs ---------------------------
(***************************************************************************)
(* The administrator's pages, for any catalogue, sales, dates and any      *)
(* number of requests under way: an answer closes no form but the one it   *)
(* saved, the list shows the rows of the database, every sale counts on    *)
(* one day, the report on the screen is the one last asked for, and the    *)
(* file is that report.                                                    *)
(***************************************************************************)
EXTENDS BackOffice, SequenceTheorems, FiniteSetTheorems, WellFoundedInduction, TLAPS

Saves == {"create", "edit"}

IsSave(k) == calls[k].kind \in Saves

\* The state by its shape: what the fields hold is in some set V, whatever the
\* catalogue has.
Request(V) ==
    [kind: {"load", "create", "edit", "deactivate", "reactivate"}, id: V, data: V,
     at: {"sent", "ok", "failed"}, answer: V]

Form(V) == [mode: {"closed", "create", "edit"}, id: V, data: V]

Screen(V) == [filter: V, form: Form(V), saving: BOOLEAN, busy: V]

Shaped(V) == calls \in Seq(Request(V)) /\ screen \in Screen(V)

\* At most one save is under way, and saving says so.
OneSave == \A j, k \in DOMAIN calls : IsSave(j) /\ IsSave(k) => j = k

Marked == \A k \in DOMAIN calls : IsSave(k) => screen.saving

\* It carries what the form has, unless the form was touched since.
Carries(c, form) ==
    /\ c.kind = form.mode
    /\ c.data = Payload(form.data)
    /\ form.mode = "edit" => c.id = form.id

Faithful == \A k \in DOMAIN calls : IsSave(k) /\ ~touched => Carries(calls[k], screen.form)

Inv == (\E V : Shaped(V)) /\ OneSave /\ Marked /\ Faithful

\* How touched is kept.
Touches == touched' = (screen'.saving /\ (touched \/ screen'.form # screen.form))

-----------------------------------------------------------------------------

LEMMA SeqGrows ==
    ASSUME NEW S, NEW T, S \subseteq T, NEW s \in Seq(S)
    PROVE  s \in Seq(T)
OBVIOUS

\* A larger set holds as much.
LEMMA ShapedGrows ==
    ASSUME NEW V, NEW W, V \subseteq W, Shaped(V)
    PROVE  Shaped(W)
<1>1. Request(V) \subseteq Request(W)
  BY DEF Request
<1>2. Screen(V) \subseteq Screen(W)
  BY DEF Screen, Form
<1>3. calls \in Seq(Request(W))
  BY <1>1, SeqGrows DEF Shaped
<1> QED BY <1>2, <1>3 DEF Shaped

\* RemoveAt: what is left, and where it was.
LEMMA RemovalShape ==
    ASSUME NEW S, NEW s \in Seq(S), NEW i \in DOMAIN s
    PROVE  /\ RemoveAt(s, i) \in Seq(S)
           /\ Len(RemoveAt(s, i)) = Len(s) - 1 /\ DOMAIN RemoveAt(s, i) = 1 .. Len(s) - 1
           /\ \A k \in DOMAIN RemoveAt(s, i) :
                LET j == IF k < i THEN k ELSE k + 1 IN
                /\ k \in Int /\ j \in DOMAIN s /\ j # i
                /\ RemoveAt(s, i)[k] = s[j]
<1>1. Len(s) \in Nat /\ DOMAIN s = 1 .. Len(s) /\ \A k \in 1 .. Len(s) : s[k] \in S
  BY LenProperties
<1>2. i \in 1 .. Len(s)
  BY <1>1
<1> DEFINE a == SubSeq(s, 1, i - 1)
           b == SubSeq(s, i + 1, Len(s))
<1>3. /\ a \in Seq(S) /\ Len(a) = i - 1
      /\ \A k \in 1 .. i - 1 : a[k] = s[k]
  BY <1>1, <1>2, SubSeqProperties
<1>4. /\ b \in Seq(S) /\ Len(b) = Len(s) - i
      /\ \A k \in 1 .. Len(s) - i : b[k] = s[i + k]
  <2>1. \A k \in i + 1 .. Len(s) : s[k] \in S
    BY <1>1, <1>2
  <2>2. i + 1 \in Int /\ Len(s) \in Int /\ Len(s) - (i + 1) + 1 = Len(s) - i
    BY <1>1, <1>2
  <2>3. /\ b \in Seq(S)
        /\ Len(b) = IF i + 1 <= Len(s) THEN Len(s) - (i + 1) + 1 ELSE 0
        /\ \A k \in 1 .. Len(s) - (i + 1) + 1 : b[k] = s[(i + 1) + k - 1]
    BY <2>1, <2>2, SubSeqProperties
  <2> HIDE DEF b
  <2>4. Len(b) = Len(s) - i
    BY <1>1, <1>2, <2>3
  <2>5. ASSUME NEW k \in 1 .. Len(s) - i PROVE b[k] = s[i + k]
    <3>1. k \in 1 .. Len(s) - (i + 1) + 1 /\ (i + 1) + k - 1 = i + k
      BY <1>1, <1>2
    <3> QED BY <2>3, <3>1
  <2> QED BY <2>3, <2>4, <2>5
<1> HIDE DEF a, b
<1>5. /\ a \o b \in Seq(S) /\ Len(a \o b) = Len(s) - 1
      /\ \A k \in 1 .. Len(s) - 1 : (a \o b)[k] = IF k <= i - 1 THEN a[k] ELSE b[k - (i - 1)]
  <2>1. Len(a) + Len(b) = Len(s) - 1
    BY <1>1, <1>2, <1>3, <1>4
  <2>2. /\ a \o b \in Seq(S) /\ Len(a \o b) = Len(a) + Len(b)
        /\ \A k \in 1 .. Len(a) + Len(b) : (a \o b)[k] = IF k <= Len(a) THEN a[k] ELSE b[k - Len(a)]
    BY <1>3, <1>4, ConcatProperties
  <2> QED BY <1>3, <2>1, <2>2
<1>6. RemoveAt(s, i) = a \o b
  BY DEF RemoveAt, a, b
<1>7. DOMAIN RemoveAt(s, i) = 1 .. Len(s) - 1
  BY <1>5, <1>6, LenProperties
<1>8. ASSUME NEW k \in 1 .. Len(s) - 1
      PROVE  LET j == IF k < i THEN k ELSE k + 1 IN
             /\ k \in Int /\ j \in DOMAIN s /\ j # i
             /\ RemoveAt(s, i)[k] = s[j]
  <2>1. CASE k < i
    BY <1>1, <1>2, <1>3, <1>5, <1>6, <2>1
  <2>2. CASE ~(k < i)
    <3>1. ~(k <= i - 1) /\ k - (i - 1) \in 1 .. Len(s) - i /\ i + (k - (i - 1)) = k + 1
      BY <1>1, <1>2, <2>2
    <3>2. RemoveAt(s, i)[k] = b[k - (i - 1)]
      BY <1>5, <1>6, <3>1
    <3>3. b[k - (i - 1)] = s[k + 1]
      BY <1>4, <3>1
    <3> QED BY <1>1, <1>2, <2>2, <3>2, <3>3
  <2> QED BY <2>1, <2>2
<1> QED BY <1>5, <1>6, <1>7, <1>8

LEMMA Removal ==
    ASSUME NEW S, NEW s \in Seq(S), NEW i \in DOMAIN s
    PROVE  /\ RemoveAt(s, i) \in Seq(S)
           /\ \A k \in DOMAIN RemoveAt(s, i) :
                LET j == IF k < i THEN k ELSE k + 1 IN
                /\ k \in Int /\ j \in DOMAIN s /\ j # i
                /\ RemoveAt(s, i)[k] = s[j]
BY RemovalShape

-----------------------------------------------------------------------------

\* A request goes on.
LEMMA GoesOn ==
    ASSUME Inv, Touches, screen' = screen, NEW k \in DOMAIN calls,
           NEW id, NEW at \in {"sent", "ok", "failed"}, NEW answer, NEW e,
           calls[k].kind = "edit" => id = calls[k].id,
           calls' = [calls EXCEPT ![k] = e],
           \/ e = [calls[k] EXCEPT !.at = at, !.id = id, !.answer = answer]
           \/ e = [calls[k] EXCEPT !.at = at, !.answer = answer]
           \/ e = [calls[k] EXCEPT !.at = at]
    PROVE  Inv'
<1>1. PICK V : Shaped(V)
  BY DEF Inv
<1> DEFINE W == V \union {id, answer}
           c == calls[k]
<1>2. Shaped(W) /\ id \in W /\ answer \in W
  <2>1. V \subseteq W /\ id \in W /\ answer \in W
    OBVIOUS
  <2> HIDE DEF W
  <2> QED BY <1>1, <2>1, ShapedGrows
<1> HIDE DEF W
<1>3. c \in Request(W)
  BY <1>2, LenProperties DEF Shaped
<1>4. e \in Request(W) /\ e.kind = c.kind /\ e.data = c.data /\ (c.kind = "edit" => e.id = c.id)
  <2>1. ASSUME NEW r \in Request(W), r.kind = "edit" => id = r.id
        PROVE  LET x == [r EXCEPT !.at = at, !.id = id, !.answer = answer]
                   y == [r EXCEPT !.at = at, !.answer = answer]
                   z == [r EXCEPT !.at = at]
               IN  /\ x \in Request(W) /\ x.kind = r.kind /\ x.data = r.data
                   /\ y \in Request(W) /\ y.kind = r.kind /\ y.data = r.data
                   /\ z \in Request(W) /\ z.kind = r.kind /\ z.data = r.data
                   /\ r.kind = "edit" => x.id = r.id /\ y.id = r.id /\ z.id = r.id
    BY <1>2, <2>1 DEF Request
  <2> QED BY <1>3, <2>1
<1>5. /\ calls' = [calls EXCEPT ![k] = e] /\ calls \in Seq(Request(W))
      /\ k \in 1 .. Len(calls) /\ DOMAIN calls = 1 .. Len(calls)
  BY <1>2, LenProperties DEF Shaped
<1>6. calls' \in Seq(Request(W)) /\ DOMAIN calls' = DOMAIN calls /\ calls'[k] = e
      /\ \A j \in DOMAIN calls : j # k => calls'[j] = calls[j]
  <2>1. /\ calls' \in Seq(Request(W)) /\ Len(calls') = Len(calls)
        /\ \A j \in 1 .. Len(calls) : calls'[j] = IF j = k THEN e ELSE calls[j]
    BY <1>4, <1>5, ExceptSeq
  <2> QED BY <1>5, <2>1, LenProperties
<1>7. Shaped(W)'
  BY <1>2, <1>6 DEF Shaped
<1>8. \A j \in DOMAIN calls' : /\ j \in DOMAIN calls /\ calls'[j].kind = calls[j].kind
                               /\ calls'[j].data = calls[j].data
                               /\ calls[j].kind = "edit" => calls'[j].id = calls[j].id
  BY <1>4, <1>6
<1>9. OneSave' /\ Marked'
  BY <1>8 DEF Inv, OneSave, Marked, IsSave
<1>10. Faithful'
  <2>1. ASSUME NEW j \in DOMAIN calls', IsSave(j)', ~touched' PROVE Carries(calls'[j], screen'.form)
    <3>1. j \in DOMAIN calls /\ IsSave(j) /\ ~touched
      BY <1>8, <2>1 DEF Inv, Marked, IsSave, Touches
    <3> QED BY <1>8, <3>1 DEF Inv, Faithful, Carries
  <2> QED BY <2>1 DEF Faithful
<1> QED BY <1>7, <1>9, <1>10 DEF Inv

\* The screen changes, and the mark of the save does not.
LEMMA ScreenChanges ==
    ASSUME Inv, Touches, calls' = calls, NEW W, screen' \in Screen(W), screen'.saving = screen.saving
    PROVE  Inv'
<1>1. PICK V : Shaped(V)
  BY DEF Inv
<1> DEFINE U == V \union W
<1>2. Shaped(U)
  <2>1. V \subseteq U
    OBVIOUS
  <2> HIDE DEF U
  <2> QED BY <1>1, <2>1, ShapedGrows
<1>3. screen' \in Screen(U)
  BY DEF Screen, Form
<1>4. Shaped(U)'
  BY <1>2, <1>3 DEF Shaped
<1>5. OneSave' /\ Marked'
  BY DEF Inv, OneSave, Marked, IsSave
<1>6. Faithful'
  <2>1. ASSUME NEW j \in DOMAIN calls', IsSave(j)', ~touched' PROVE Carries(calls'[j], screen'.form)
    <3>1. j \in DOMAIN calls /\ IsSave(j) /\ screen.saving
      BY <2>1 DEF Inv, Marked, IsSave
    <3>2. ~touched /\ screen'.form = screen.form
      BY <2>1, <3>1 DEF Touches
    <3> QED BY <3>1, <3>2 DEF Inv, Faithful
  <2> QED BY <2>1 DEF Faithful
<1> QED BY <1>4, <1>5, <1>6 DEF Inv

\* A request is sent, and a save only when none is under way.
LEMMA Sent ==
    ASSUME Inv, Touches, NEW W, NEW c \in Request(W), calls' = Append(calls, c),
           screen' \in Screen(W), screen'.form = screen.form,
           c.kind \notin Saves => screen'.saving = screen.saving,
           c.kind \in Saves => ~screen.saving /\ screen'.saving /\ Carries(c, screen.form)
    PROVE  Inv'
<1>1. PICK V : Shaped(V)
  BY DEF Inv
<1> DEFINE U == V \union W
<1>2. Shaped(U) /\ W \subseteq U
  <2>1. V \subseteq U /\ W \subseteq U
    OBVIOUS
  <2> HIDE DEF U
  <2> QED BY <1>1, <2>1, ShapedGrows
<1>3. screen' \in Screen(U) /\ c \in Request(U)
  BY DEF Screen, Form, Request
<1> HIDE DEF U
<1>4. /\ calls' \in Seq(Request(U)) /\ Len(calls') = Len(calls) + 1
      /\ \A j \in 1 .. Len(calls) : calls'[j] = calls[j]
      /\ calls'[Len(calls) + 1] = c
  BY <1>2, <1>3, AppendProperties DEF Shaped
<1>5. Shaped(U)'
  BY <1>3, <1>4 DEF Shaped
<1>6. DOMAIN calls = 1 .. Len(calls) /\ DOMAIN calls' = 1 .. Len(calls) + 1 /\ Len(calls) \in Nat
  BY <1>2, <1>4, LenProperties DEF Shaped
<1>7. \A j \in DOMAIN calls' :
        \/ j \in DOMAIN calls /\ calls'[j] = calls[j]
        \/ j = Len(calls) + 1 /\ calls'[j] = c
  BY <1>4, <1>6
<1>8. OneSave'
  BY <1>7 DEF Inv, OneSave, Marked, IsSave
<1>9. Marked'
  BY <1>7 DEF Inv, Marked, IsSave
<1>10. Faithful'
  <2>1. ASSUME NEW j \in DOMAIN calls', IsSave(j)', ~touched' PROVE Carries(calls'[j], screen'.form)
    <3>1. CASE j \in DOMAIN calls /\ calls'[j] = calls[j]
      <4>1. IsSave(j) /\ screen.saving
        BY <2>1, <3>1 DEF Inv, Marked, IsSave
      <4>2. ~touched
        BY <2>1, <4>1 DEF Touches
      <4> QED BY <3>1, <4>1, <4>2 DEF Inv, Faithful
    <3>2. CASE calls'[j] = c
      BY <2>1, <3>2 DEF IsSave
    <3> QED BY <1>7, <3>1, <3>2
  <2> QED BY <2>1 DEF Faithful
<1> QED BY <1>5, <1>8, <1>9, <1>10 DEF Inv

\* A request has its answer; that of a save may change the form.
LEMMA Answered ==
    ASSUME Inv, Touches, NEW k \in DOMAIN calls, calls' = RemoveAt(calls, k),
           NEW W, screen' \in Screen(W),
           ~IsSave(k) => screen'.saving = screen.saving /\ screen'.form = screen.form
    PROVE  Inv'
<1>1. PICK V : Shaped(V)
  BY DEF Inv
<1> DEFINE U == V \union W
<1>2. Shaped(U)
  <2>1. V \subseteq U
    OBVIOUS
  <2> HIDE DEF U
  <2> QED BY <1>1, <2>1, ShapedGrows
<1>3. screen' \in Screen(U)
  BY DEF Screen, Form
<1> HIDE DEF U
<1>4. /\ calls' \in Seq(Request(U))
      /\ \A j \in DOMAIN calls' :
            LET i == IF j < k THEN j ELSE j + 1 IN
            j \in Int /\ i \in DOMAIN calls /\ i # k /\ calls'[j] = calls[i]
  BY <1>2, Removal DEF Shaped
<1>5. Shaped(U)'
  BY <1>3, <1>4 DEF Shaped
<1>6. k \in Int
  BY <1>2, LenProperties DEF Shaped
<1>7. OneSave'
  <2>1. ASSUME NEW j1 \in DOMAIN calls', NEW j2 \in DOMAIN calls', IsSave(j1)', IsSave(j2)'
        PROVE  j1 = j2
    <3> DEFINE i1 == IF j1 < k THEN j1 ELSE j1 + 1
               i2 == IF j2 < k THEN j2 ELSE j2 + 1
    <3>1. i1 \in DOMAIN calls /\ i2 \in DOMAIN calls /\ IsSave(i1) /\ IsSave(i2)
      BY <1>4, <2>1 DEF IsSave
    <3>2. i1 = i2
      BY <3>1 DEF Inv, OneSave
    <3> QED BY <1>4, <1>6, <3>2
  <2> QED BY <2>1 DEF OneSave
<1>8. ASSUME NEW j \in DOMAIN calls', IsSave(j)'
      PROVE  \E i \in DOMAIN calls : /\ calls'[j] = calls[i] /\ IsSave(i) /\ screen.saving
                                     /\ screen'.saving = screen.saving /\ screen'.form = screen.form
  <2>1. PICK i \in DOMAIN calls : i # k /\ calls'[j] = calls[i]
    BY <1>4
  <2>2. IsSave(i) /\ screen.saving
    BY <1>8, <2>1 DEF Inv, Marked, IsSave
  <2>3. ~IsSave(k)
    BY <2>1, <2>2 DEF Inv, OneSave
  <2> QED BY <2>1, <2>2, <2>3
<1>9. Marked'
  BY <1>8 DEF Marked
<1>10. Faithful'
  <2>1. ASSUME NEW j \in DOMAIN calls', IsSave(j)', ~touched' PROVE Carries(calls'[j], screen'.form)
    <3>1. PICK i \in DOMAIN calls : /\ calls'[j] = calls[i] /\ IsSave(i) /\ screen.saving
                                    /\ screen'.saving = screen.saving /\ screen'.form = screen.form
      BY <1>8, <2>1
    <3>2. ~touched
      BY <2>1, <3>1 DEF Touches
    <3> QED BY <3>1, <3>2 DEF Inv, Faithful
  <2> QED BY <2>1 DEF Faithful
<1> QED BY <1>5, <1>7, <1>9, <1>10 DEF Inv

-----------------------------------------------------------------------------

LEMMA ScreenStep ==
    ASSUME Inv, Touches,
           \/ OpenCreateForm \/ TypeInForm \/ CancelForm \/ SetFilter \/ OtherEdits
           \/ \E i \in Ids : OpenEditForm(i)
    PROVE  Inv'
<1>1. PICK V : Shaped(V)
  BY DEF Inv
<1>2. screen \in Screen(V) /\ screen.form \in Form(V)
  BY <1>1 DEF Shaped, Screen
<1>3. calls' = calls
  BY DEF OpenCreateForm, TypeInForm, CancelForm, SetFilter, OtherEdits, OpenEditForm
\* A new form, or a new filter.
<1>4. ASSUME NEW mode \in {"closed", "create", "edit"}, NEW id, NEW data,
             screen' = [screen EXCEPT !.form = [mode |-> mode, id |-> id, data |-> data]]
      PROVE  Inv'
  <2> DEFINE W == V \union {id, data}
  <2>1. V \subseteq W /\ id \in W /\ data \in W
    OBVIOUS
  <2> HIDE DEF W
  <2>2. screen \in Screen(W)
    BY <1>2, <2>1 DEF Screen, Form
  <2>3. [mode |-> mode, id |-> id, data |-> data] \in Form(W)
    BY <2>1 DEF Form
  <2>4. screen' \in Screen(W) /\ screen'.saving = screen.saving
    BY <1>4, <2>2, <2>3 DEF Screen
  <2> QED BY <1>3, <2>4, ScreenChanges
<1>5. ASSUME NEW f, screen' = [screen EXCEPT !.filter = f]
      PROVE  Inv'
  <2> DEFINE W == V \union {f}
  <2>1. V \subseteq W /\ f \in W
    OBVIOUS
  <2> HIDE DEF W
  <2>2. screen \in Screen(W)
    BY <1>2, <2>1 DEF Screen, Form
  <2>3. screen' \in Screen(W) /\ screen'.saving = screen.saving
    BY <1>5, <2>1, <2>2 DEF Screen
  <2> QED BY <1>3, <2>3, ScreenChanges
<1>6. ASSUME NEW d, screen' = [screen EXCEPT !.form.data = d]
      PROVE  Inv'
  <2> DEFINE W == V \union {d}
             g == [screen.form EXCEPT !.data = d]
  <2>1. V \subseteq W /\ d \in W
    OBVIOUS
  <2> HIDE DEF W
  <2>2. screen \in Screen(W) /\ screen.form \in Form(W)
    BY <1>2, <2>1 DEF Screen, Form
  <2>3. g \in Form(W)
    BY <2>1, <2>2 DEF Form
  <2>4. screen' = [screen EXCEPT !.form = g]
    BY <1>6
  <2> HIDE DEF g
  <2>5. screen' \in Screen(W) /\ screen'.saving = screen.saving
    BY <2>2, <2>3, <2>4 DEF Screen
  <2> QED BY <1>3, <2>5, ScreenChanges
<1>7. CASE OpenCreateForm
  BY <1>4, <1>7 DEF OpenCreateForm
<1>8. CASE TypeInForm
  <2>1. \/ \E x \in Types : screen' = [screen EXCEPT !.form.data = [screen.form.data EXCEPT !.type = x]]
        \/ \E x \in Prices : screen' = [screen EXCEPT !.form.data = [screen.form.data EXCEPT !.price = x]]
        \/ screen' = [screen EXCEPT !.form.data =
                        [screen.form.data EXCEPT !.aerated = ~screen.form.data.aerated]]
    BY <1>8 DEF TypeInForm
  <2> QED BY <1>6, <2>1
<1>9. CASE CancelForm
  BY <1>4, <1>9 DEF CancelForm, ClosedForm
<1>10. CASE SetFilter
  BY <1>5, <1>10 DEF SetFilter
<1>11. CASE OtherEdits
  BY <1>2, <1>3, <1>11, ScreenChanges DEF OtherEdits
<1>12. ASSUME NEW i \in Ids, OpenEditForm(i)
       PROVE  Inv'
  BY <1>4, <1>12 DEF OpenEditForm
<1> QED BY <1>7, <1>8, <1>9, <1>10, <1>11, <1>12

LEMMA SendStep ==
    ASSUME Inv, Touches, Save \/ \E i \in Ids : Deactivate(i) \/ Reactivate(i)
    PROVE  Inv'
<1>1. PICK V : Shaped(V)
  BY DEF Inv
<1>2. screen \in Screen(V) /\ screen.form \in Form(V)
  BY <1>1 DEF Shaped, Screen
<1>3. ASSUME NEW i, NEW kind \in {"deactivate", "reactivate"}, Send(Call(kind, i, None)),
             screen' = [screen EXCEPT !.busy = i]
      PROVE  Inv'
  <2> DEFINE W == V \union {i, None}
             c == Call(kind, i, None)
  <2>1. V \subseteq W /\ i \in W /\ None \in W
    OBVIOUS
  <2> HIDE DEF W
  <2>2. c \in Request(W) /\ c.kind \notin Saves
    BY <2>1 DEF Call, Request, Saves
  <2>3. screen \in Screen(W)
    BY <1>2, <2>1 DEF Screen, Form
  <2>4. screen' \in Screen(W) /\ screen'.saving = screen.saving /\ screen'.form = screen.form
    BY <1>3, <2>1, <2>3 DEF Screen
  <2>5. calls' = Append(calls, c)
    BY <1>3 DEF Send
  <2> HIDE DEF c
  <2> QED BY <2>2, <2>4, <2>5, Sent
<1>4. CASE Save
  <2> DEFINE data == Payload(screen.form.data)
             W == V \union {data, None}
             c == Call(screen.form.mode, screen.form.id, data)
  <2>1. V \subseteq W /\ data \in W /\ None \in W
    OBVIOUS
  <2> HIDE DEF W
  <2>2. screen.form.mode \in Saves /\ screen.form.id \in W
    BY <1>2, <1>4, <2>1 DEF Save, Form, Saves
  <2>3. c \in Request(W) /\ c.kind = screen.form.mode /\ c.id = screen.form.id /\ c.data = data
    <3> HIDE DEF data
    <3> QED BY <2>1, <2>2 DEF Call, Request, Saves
  <2>4. Carries(c, screen.form)
    BY <2>3 DEF Carries
  <2>5. screen \in Screen(W)
    BY <1>2, <2>1 DEF Screen, Form
  <2>6. /\ screen' \in Screen(W) /\ ~screen.saving /\ screen'.saving
        /\ screen'.form = screen.form
    BY <1>4, <2>5 DEF Save, Screen
  <2>7. calls' = Append(calls, c)
    BY <1>4 DEF Save, Send
  <2> HIDE DEF c
  <2> QED BY <2>2, <2>3, <2>4, <2>6, <2>7, Sent
<1> QED BY <1>3, <1>4 DEF Deactivate, Reactivate

LEMMA ServeStep ==
    ASSUME Inv, Touches, NEW k \in DOMAIN calls,
           ServeLoad(k) \/ ServeCreate(k) \/ ServeUpdate(k) \/ ServeActive(k) \/ Lose(k)
    PROVE  Inv'
<1>1. screen' = screen
  BY DEF ServeLoad, ServeCreate, ServeUpdate, ServeActive, Lose, Answer
<1>2. ASSUME NEW table, NEW i, Answer(k, table, i), calls[k].kind = "edit" => i = calls[k].id
      PROVE  Inv'
  <2>1. calls' = [calls EXCEPT ![k] = [calls[k] EXCEPT !.at = "ok", !.id = i, !.answer = table[i]]]
    BY <1>2 DEF Answer
  <2> QED BY <1>1, <1>2, <2>1, GoesOn
<1>3. CASE ServeLoad(k)
  <2>1. calls' = [calls EXCEPT ![k] = [calls[k] EXCEPT !.at = "ok", !.answer = row]]
    BY <1>3 DEF ServeLoad
  <2> QED BY <1>1, <2>1, GoesOn
<1>4. CASE ServeCreate(k)
  BY <1>2, <1>4 DEF ServeCreate
<1>5. CASE ServeUpdate(k)
  BY <1>2, <1>5 DEF ServeUpdate
<1>6. CASE ServeActive(k)
  BY <1>2, <1>6 DEF ServeActive
<1>7. CASE Lose(k)
  <2>1. calls' = [calls EXCEPT ![k] = [calls[k] EXCEPT !.at = "failed"]]
    BY <1>7 DEF Lose
  <2> QED BY <1>1, <2>1, GoesOn
<1> QED BY <1>3, <1>4, <1>5, <1>6, <1>7

LEMMA AnswerStep ==
    ASSUME Inv, Touches, NEW k \in DOMAIN calls, Arrive(k) \/ Fail(k)
    PROVE  Inv'
<1>1. PICK V : Shaped(V)
  BY DEF Inv
<1> DEFINE W == V \union {None, Blank("MASSA")}
<1>2. V \subseteq W /\ None \in W /\ Blank("MASSA") \in W
  OBVIOUS
<1> HIDE DEF W
<1>3. screen \in Screen(W) /\ ClosedForm \in Form(W)
  BY <1>1, <1>2 DEF Shaped, Screen, Form, ClosedForm
<1>4. /\ Released(calls[k]) \in Screen(W) /\ Released(calls[k]).form = screen.form
      /\ ~IsSave(k) => Released(calls[k]).saving = screen.saving
  BY <1>2, <1>3 DEF Released, Screen, IsSave, Saves
<1>5. /\ screen' \in Screen(W)
      /\ ~IsSave(k) => screen'.saving = screen.saving /\ screen'.form = screen.form
  <2>1. CASE IsSave(k) /\ Arrive(k)
    <3>1. screen' = [Released(calls[k]) EXCEPT !.form = ClosedForm]
      BY <2>1 DEF Arrive, IsSave, Saves
    <3> QED BY <1>3, <1>4, <2>1, <3>1 DEF Screen
  <2>2. CASE ~(IsSave(k) /\ Arrive(k))
    <3>1. screen' = Released(calls[k])
      BY <2>2 DEF Arrive, Fail, IsSave, Saves
    <3> QED BY <1>4, <3>1
  <2> QED BY <2>1, <2>2
<1>6. calls' = RemoveAt(calls, k)
  BY DEF Arrive, Fail
<1> QED BY <1>5, <1>6, Answered

LEMMA InvStep ==
    ASSUME Inv, [HNext]_hvars
    PROVE  Inv'
<1>1. CASE UNCHANGED hvars
  BY <1>1 DEF hvars, vars, Inv, Shaped, OneSave, Marked, IsSave, Faithful
<1>2. CASE HNext
  <2>1. Touches /\ Next
    BY <1>2 DEF HNext, Touches
  <2> QED BY <2>1, ScreenStep, SendStep, ServeStep, AnswerStep DEF Next
<1> QED BY <1>1, <1>2

LEMMA Initially ==
    ASSUME HInit
    PROVE  Inv
<1> DEFINE V == {None, "ALL", Blank("MASSA")}
           c == Call("load", None, None)
<1>1. None \in V /\ "ALL" \in V /\ Blank("MASSA") \in V
  OBVIOUS
<1> HIDE DEF V
<1>2. c \in Request(V) /\ c.kind \notin Saves
  BY <1>1 DEF Call, Request, Saves
<1> HIDE DEF c
<1>3. calls = <<c>>
  BY DEF HInit, Init, Visited, c
<1>4. calls \in Seq(Request(V)) /\ \A k \in DOMAIN calls : ~IsSave(k)
  BY <1>2, <1>3 DEF IsSave
<1>5. ClosedForm \in Form(V)
  BY <1>1 DEF ClosedForm, Form
<1>6. screen \in Screen(V)
  BY <1>1, <1>5 DEF HInit, Init, Screen
<1>7. Shaped(V)
  BY <1>4, <1>6 DEF Shaped
<1> QED BY <1>4, <1>7 DEF Inv, OneSave, Marked, Faithful

\* Only the answer to a save closes a form.
LEMMA FormStep ==
    ASSUME Inv, NEW k \in DOMAIN calls, Arrive(k), screen.form.mode # "closed",
           screen'.form.mode = "closed", ~touched
    PROVE  Carries(calls[k], screen.form)
<1>1. PICK V : Shaped(V)
  BY DEF Inv
<1>2. screen \in Screen(V)
  BY <1>1 DEF Shaped
<1>3. IsSave(k)
  <2>1. SUFFICES ASSUME ~IsSave(k) PROVE FALSE
    OBVIOUS
  <2>2. screen' = Released(calls[k])
    BY <2>1 DEF Arrive, IsSave, Saves
  <2>3. Released(calls[k]).form = screen.form
    BY <1>2 DEF Released, Screen
  <2> QED BY <2>2, <2>3
<1> QED BY <1>3 DEF Inv, Faithful

\* handleSave: an answer never closes a form whose contents were not saved by
\* the request it answers, unless it was typed in or exchanged during the save.
THEOREM FormKeptHolds == HSpec => FormKept
<1>1. HInit => Inv
  BY Initially
<1>2. Inv /\ [HNext]_hvars => Inv'
  BY InvStep
<1> DEFINE Kept ==
        \A k \in DOMAIN calls :
            Arrive(k) /\ screen.form.mode # "closed" /\ screen'.form.mode = "closed" /\ ~touched =>
                /\ calls[k].kind = screen.form.mode
                /\ calls[k].data = Payload(screen.form.data)
                /\ screen.form.mode = "edit" => calls[k].id = screen.form.id
<1>3. Inv => Kept
  BY FormStep DEF Carries
<1>4. Inv /\ [HNext]_hvars => [Kept]_hvars
  BY <1>3
<1>5. FormKept <=> [][Kept]_hvars
  BY DEF FormKept
<1> HIDE DEF Kept
<1> QED BY <1>1, <1>2, <1>4, <1>5, PTL DEF HSpec


-----------------------------------------------------------------------------
(* The report: its state by shape *)

Asking(V) ==
    [kind: {"first", "filter", "export"}, from: V, to: V, at: {"sent", "ok", "failed"}, answer: V]

View(V) == [report: V, from: V, to: V, filtering: BOOLEAN, exporting: BOOLEAN, file: V]

ReportShaped(V) == asked \in Seq(Asking(V)) /\ view \in View(V)

IsReport(r) ==
    \E from, to, orders, revenue, average :
        r = [from |-> from, to |-> to, orders |-> orders, revenue |-> revenue, average |-> average]

\* The period of a report is the one asked for; it has a first and a last day.
Answers(q) ==
    /\ IsReport(q.answer)
    /\ q.answer.from # None /\ q.answer.to # None
    /\ q.from # None => q.answer.from = q.from
    /\ q.to # None => q.answer.to = q.to

OfKind(kind) == {k \in DOMAIN asked : asked[k].kind = kind}

\* The marks keep a second request of a kind from being made.
OnePerKind ==
    /\ \A j, k \in DOMAIN asked : asked[j].kind = asked[k].kind => j = k
    /\ \A k \in OfKind("filter") : view.filtering
    /\ \A k \in OfKind("export") : view.exporting

AnswersFit ==
    /\ \A k \in DOMAIN asked : asked[k].at = "ok" => Answers(asked[k])
    /\ view.report # None =>
        IsReport(view.report) /\ view.report.from # None /\ view.report.to # None

\* The period asked for is that of the filter under way, or else of the screen.
LastFollows ==
    wanted # None /\ ~overtaken =>
        /\ \A k \in OfKind("filter") : wanted = <<asked[k].from, asked[k].to>>
        /\ OfKind("filter") = {} =>
            /\ IsReport(view.report)
            /\ wanted[1] # None => wanted[1] = view.report.from
            /\ wanted[2] # None => wanted[2] = view.report.to

\* The report on the screen is the one the API would give now, and the file is
\* asked for its period.
FileFollows ==
    ~differs =>
        /\ view.report # None
        /\ view.report = Report!ReportOf(view.report.from, view.report.to)
        /\ \A k \in OfKind("export") :
            /\ asked[k].from = view.report.from /\ asked[k].to = view.report.to
            /\ asked[k].at = "ok" => asked[k].answer = view.report
        /\ view.file # None => view.file = view.report

ReportInv ==
    /\ \E V : ReportShaped(V)
    /\ today \in Int
    /\ OnePerKind
    /\ AnswersFit
    /\ LastFollows
    /\ FileFollows

\* How the history goes on.
History ==
    /\ wanted' = IF Report!Asks("filter")
                 THEN LET q == asked'[Len(asked')] IN <<q.from, q.to>>
                 ELSE wanted
    /\ overtaken' = (~Report!Asks("filter") /\ (overtaken \/ \E k \in DOMAIN asked :
            /\ Report!Ended(k) /\ asked[k].kind # "export"
            /\ asked[k].at = "failed" \/ (asked[k].kind = "first" /\ wanted # None)))
    /\ differs' =
        IF Report!Asks("export")
        THEN \/ view.report = None \/ \E k \in DOMAIN asked : asked[k].kind # "export"
             \/ <<view.from, view.to>> # <<view.report.from, view.report.to>>
             \/ view.report # Report!ReportOf(view.report.from, view.report.to)
        ELSE \/ differs \/ sale' # sale \/ <<view.from, view.to>>' # <<view.from, view.to>>
             \/ view'.report # view.report

LEMMA HistoryFollows ==
    ASSUME Report!HNext
    PROVE  Report!Next /\ History
BY DEF Report!HNext, History, Report!Wanted, Report!Dates

LEMMA ReportShapedGrows ==
    ASSUME NEW V, NEW W, V \subseteq W, ReportShaped(V)
    PROVE  ReportShaped(W)
<1>1. Asking(V) \subseteq Asking(W)
  BY DEF Asking
<1>2. View(V) \subseteq View(W)
  BY DEF View
<1>3. asked \in Seq(Asking(W))
  BY <1>1, SeqGrows DEF ReportShaped
<1> QED BY <1>2, <1>3 DEF ReportShaped

\* A report depends on the sales only.
LEMMA SameReport ==
    ASSUME sale' = sale, view'.report = view.report
    PROVE  Report!ReportOf(view.report.from, view.report.to)' = Report!ReportOf(view.report.from, view.report.to)
BY DEF Report!ReportOf, Report!Counted, Report!Day

LEMMA ReportOfIsReport ==
    ASSUME NEW from, NEW to
    PROVE  LET r == Report!ReportOf(from, to) IN IsReport(r) /\ r.from = from /\ r.to = to
BY DEF Report!ReportOf, IsReport


\* Nothing is asked for: the history goes on, or excuses the page.
LEMMA NoAsk ==
    ASSUME History, ~(Len(asked') > Len(asked))
    PROVE  /\ wanted' = wanted
           /\ ~overtaken' => ~overtaken
           /\ ~differs' => ~differs /\ sale' = sale /\ view'.report = view.report
BY DEF History, Report!Asks

LEMMA AskedLen ==
    ASSUME ReportInv
    PROVE  Len(asked) \in Nat /\ DOMAIN asked = 1 .. Len(asked)
<1>1. PICK V : ReportShaped(V)
  BY DEF ReportInv
<1> QED BY <1>1, LenProperties DEF ReportShaped

\* Two shapes have one that holds both.
LEMMA BothShaped ==
    ASSUME NEW V, NEW W, asked' \in Seq(Asking(V)), view' \in View(W)
    PROVE  \E U : ReportShaped(U)'
<1> DEFINE U == V \union W
<1>1. V \subseteq U /\ W \subseteq U
  OBVIOUS
<1> HIDE DEF U
<1>2. Asking(V) \subseteq Asking(U) /\ View(W) \subseteq View(U)
  BY <1>1 DEF Asking, View
<1>3. asked' \in Seq(Asking(U))
  BY <1>2, SeqGrows
<1> QED BY <1>2, <1>3 DEF ReportShaped

\* Days pass, sales change and dates are typed.
LEMMA NothingAsked ==
    ASSUME ReportInv, History, asked' = asked, today' \in Int, NEW W, view' \in View(W),
           view'.report = view.report, view'.file = view.file,
           view'.filtering = view.filtering, view'.exporting = view.exporting
    PROVE  ReportInv'
<1>1. PICK V : ReportShaped(V)
  BY DEF ReportInv
<1>2. \E U : ReportShaped(U)'
  BY <1>1, BothShaped DEF ReportShaped
<1>3. ~(Len(asked') > Len(asked))
  BY AskedLen
<1>4. OnePerKind' /\ AnswersFit'
  BY DEF ReportInv, OnePerKind, AnswersFit, OfKind, Answers
<1>5. LastFollows'
  BY <1>3, NoAsk DEF ReportInv, LastFollows, OfKind
<1>6. FileFollows'
  <2> SUFFICES ASSUME ~differs'
               PROVE  FileFollows'
    BY DEF FileFollows
  <2>1. ~differs /\ sale' = sale
    BY <1>3, NoAsk
  <2>2. view'.report = Report!ReportOf(view.report.from, view.report.to)'
    BY <2>1, SameReport DEF ReportInv, FileFollows
  <2> QED BY <2>1, <2>2 DEF ReportInv, FileFollows, OfKind
<1> QED BY <1>2, <1>4, <1>5, <1>6 DEF ReportInv

LEMMA DayStep ==
    ASSUME ReportInv, History,
           \/ Report!NextDay \/ Report!TypeDate
           \/ \E o \in Sales : Report!Pay(o) \/ Report!Refund(o) \/ Report!Cancel(o)
    PROVE  ReportInv'
<1>1. PICK V : ReportShaped(V)
  BY DEF ReportInv
<1>2. CASE Report!NextDay
  <2>1. today' \in Int
    BY <1>2 DEF ReportInv, Report!NextDay
  <2> QED BY <1>1, <1>2, <2>1, NothingAsked DEF Report!NextDay, ReportShaped
<1>3. CASE \E o \in Sales : Report!Pay(o) \/ Report!Refund(o) \/ Report!Cancel(o)
  <2>1. UNCHANGED <<today, view, asked>>
    BY <1>3 DEF Report!Pay, Report!Refund, Report!Cancel, Report!Change
  <2> QED BY <1>1, <2>1, NothingAsked DEF ReportInv, ReportShaped
<1>4. CASE Report!TypeDate
  <2>1. PICK d : view' = [view EXCEPT !.from = d] \/ view' = [view EXCEPT !.to = d]
    BY <1>4 DEF Report!TypeDate
  <2>2. UNCHANGED <<today, asked>>
    BY <1>4 DEF Report!TypeDate
  <2> DEFINE W == V \union {d}
  <2>3. V \subseteq W /\ d \in W
    OBVIOUS
  <2> HIDE DEF W
  <2>4. view \in View(W)
    BY <1>1, <2>3 DEF ReportShaped, View
  <2>5. /\ view' \in View(W) /\ view'.report = view.report /\ view'.file = view.file
        /\ view'.filtering = view.filtering /\ view'.exporting = view.exporting
    BY <2>1, <2>3, <2>4 DEF View
  <2> QED BY <2>2, <2>5, NothingAsked DEF ReportInv
<1> QED BY <1>2, <1>3, <1>4


\* A request is made.
LEMMA AskedShape ==
    ASSUME ReportInv, NEW kind \in {"filter", "export"}, NEW from, NEW to,
           asked' = Append(asked, Report!Request(kind, from, to))
    PROVE  /\ \E V : asked' \in Seq(Asking(V))
           /\ Len(asked') = Len(asked) + 1 /\ DOMAIN asked' = 1 .. Len(asked) + 1
           /\ \A k \in DOMAIN asked : k \in DOMAIN asked' /\ k # Len(asked) + 1 /\ asked'[k] = asked[k]
           /\ \A k \in DOMAIN asked' : k \in DOMAIN asked \/ k = Len(asked) + 1
           /\ LET q == asked'[Len(asked) + 1] IN
                q.kind = kind /\ q.from = from /\ q.to = to /\ q.at = "sent"
           /\ \A other : Report!Asks(other) <=> other = kind
<1> DEFINE n == Len(asked)
           q == Report!Request(kind, from, to)
<1>1. PICK V : ReportShaped(V)
  BY DEF ReportInv
<1> DEFINE W == V \union {from, to, None}
<1>2. V \subseteq W /\ from \in W /\ to \in W /\ None \in W
  OBVIOUS
<1> HIDE DEF W
<1>3. /\ q \in Asking(W) /\ q.kind = kind /\ q.from = from /\ q.to = to /\ q.at = "sent"
  BY <1>2 DEF Report!Request, Asking
<1> HIDE DEF q
<1>4. asked \in Seq(Asking(W))
  BY <1>1, <1>2, ReportShapedGrows DEF ReportShaped
<1>5. /\ asked' \in Seq(Asking(W)) /\ Len(asked') = n + 1 /\ asked'[n + 1] = q
      /\ \A k \in 1 .. n : asked'[k] = asked[k]
  BY <1>3, <1>4, AppendProperties DEF q
<1>6. DOMAIN asked' = 1 .. n + 1 /\ DOMAIN asked = 1 .. n /\ n \in Nat
  BY <1>5, LenProperties, AskedLen
<1>7. \A other : Report!Asks(other) <=> other = kind
  BY <1>3, <1>5, <1>6 DEF Report!Asks
<1> HIDE DEF n
<1>8. \A k \in 1 .. n : k \in 1 .. n + 1 /\ k # n + 1
  BY <1>6
<1>9. \A k \in 1 .. n + 1 : k \in 1 .. n \/ k = n + 1
  BY <1>6
<1> QED BY <1>3, <1>5, <1>6, <1>7, <1>8, <1>9 DEF n

\* The filter or a preset.
LEMMA FilterAsked ==
    ASSUME ReportInv, History, ~view.filtering, NEW from, NEW to,
           asked' = Append(asked, Report!Request("filter", from, to)),
           UNCHANGED <<sale, today>>, NEW W, view' \in View(W),
           view'.report = view.report, view'.file = view.file,
           view'.filtering, view'.exporting = view.exporting
    PROVE  ReportInv'
<1> DEFINE n == Len(asked)
           q == asked'[n + 1]
<1>1. /\ \E V : asked' \in Seq(Asking(V))
      /\ Len(asked') = n + 1 /\ DOMAIN asked' = 1 .. n + 1
      /\ \A k \in DOMAIN asked : k \in DOMAIN asked' /\ k # n + 1 /\ asked'[k] = asked[k]
      /\ \A k \in DOMAIN asked' : k \in DOMAIN asked \/ k = n + 1
      /\ q.kind = "filter" /\ q.from = from /\ q.to = to /\ q.at = "sent"
      /\ Report!Asks("filter") /\ ~Report!Asks("export")
  BY AskedShape
<1>2. \E U : ReportShaped(U)'
  BY <1>1, BothShaped
<1>3. OfKind("filter") = {}
  BY DEF ReportInv, OnePerKind
<1> HIDE DEF n
<1>4. n + 1 \in DOMAIN asked'
  BY <1>1, AskedLen DEF n
<1>5. OnePerKind'
  <2>1. ASSUME NEW j \in DOMAIN asked', NEW k \in DOMAIN asked', asked'[j].kind = asked'[k].kind
        PROVE  j = k
    BY <1>1, <1>3, <2>1 DEF ReportInv, OnePerKind, OfKind
  <2>2. \A k \in OfKind("export")' : view'.exporting
    BY <1>1 DEF ReportInv, OnePerKind, OfKind
  <2> QED BY <2>1, <2>2 DEF OnePerKind
<1>6. AnswersFit'
  <2>1. \A k \in DOMAIN asked' : asked'[k].at = "ok" => k \in DOMAIN asked /\ asked'[k] = asked[k]
    BY <1>1
  <2> QED BY <2>1 DEF ReportInv, AnswersFit, Answers
<1>7. LastFollows'
  <2>1. wanted' = <<from, to>>
    BY <1>1 DEF History
  <2>2. \A k \in OfKind("filter")' : k = n + 1
    BY <1>1, <1>3 DEF OfKind
  <2>3. OfKind("filter")' # {}
    BY <1>1, <1>4 DEF OfKind
  <2> QED BY <1>1, <2>1, <2>2, <2>3 DEF LastFollows
<1>8. FileFollows'
  <2> SUFFICES ASSUME ~differs'
               PROVE  FileFollows'
    BY DEF FileFollows
  <2>1. ~differs
    BY <1>1 DEF History
  <2>2. view'.report = Report!ReportOf(view.report.from, view.report.to)'
    BY <2>1, SameReport DEF ReportInv, FileFollows
  <2>3. \A k \in OfKind("export")' : k \in OfKind("export") /\ asked'[k] = asked[k]
    BY <1>1 DEF OfKind
  <2> QED BY <2>1, <2>2, <2>3 DEF ReportInv, FileFollows
<1> QED BY <1>2, <1>5, <1>6, <1>7, <1>8 DEF ReportInv

\* handleExportCsv.
LEMMA ExportAsked ==
    ASSUME ReportInv, History, Report!Export
    PROVE  ReportInv'
<1> DEFINE n == Len(asked)
           q == asked'[n + 1]
<1>1. PICK V : ReportShaped(V)
  BY DEF ReportInv
<1> DEFINE W == V \union {None}
<1>2. V \subseteq W /\ None \in W
  OBVIOUS
<1> HIDE DEF W
<1>3. view \in View(W)
  BY <1>1, <1>2 DEF ReportShaped, View
<1>4. /\ asked' = Append(asked, Report!Request("export", view.from, view.to))
      /\ view' = [view EXCEPT !.exporting = TRUE, !.file = None]
      /\ sale' = sale /\ today' = today /\ ~view.exporting
  BY DEF Report!Export, Report!Ask
<1>5. /\ view' \in View(W) /\ view'.report = view.report /\ view'.file = None
      /\ view'.filtering = view.filtering /\ view'.exporting
  BY <1>2, <1>3, <1>4 DEF View
<1>6. /\ \E U : asked' \in Seq(Asking(U))
      /\ Len(asked') = n + 1 /\ DOMAIN asked' = 1 .. n + 1
      /\ \A k \in DOMAIN asked : k \in DOMAIN asked' /\ k # n + 1 /\ asked'[k] = asked[k]
      /\ \A k \in DOMAIN asked' : k \in DOMAIN asked \/ k = n + 1
      /\ q.kind = "export" /\ q.from = view.from /\ q.to = view.to /\ q.at = "sent"
      /\ Report!Asks("export") /\ ~Report!Asks("filter")
  BY <1>4, AskedShape
<1>7. \E U : ReportShaped(U)'
  BY <1>5, <1>6, BothShaped
<1>8. OfKind("export") = {}
  BY <1>4 DEF ReportInv, OnePerKind
<1> HIDE DEF n
<1>9. OnePerKind'
  <2>1. ASSUME NEW j \in DOMAIN asked', NEW k \in DOMAIN asked', asked'[j].kind = asked'[k].kind
        PROVE  j = k
    BY <1>6, <1>8, <2>1 DEF ReportInv, OnePerKind, OfKind
  <2>2. \A k \in OfKind("filter")' : view'.filtering
    BY <1>5, <1>6 DEF ReportInv, OnePerKind, OfKind
  <2> QED BY <1>5, <2>1, <2>2 DEF OnePerKind
<1>10. AnswersFit'
  <2>1. \A k \in DOMAIN asked' : asked'[k].at = "ok" => k \in DOMAIN asked /\ asked'[k] = asked[k]
    BY <1>6
  <2> QED BY <1>5, <2>1 DEF ReportInv, AnswersFit, Answers
<1>11. LastFollows'
  <2>1. wanted' = wanted /\ (~overtaken' => ~overtaken)
    BY <1>6 DEF History
  <2>2. \A k \in OfKind("filter")' : k \in OfKind("filter") /\ asked'[k] = asked[k]
    BY <1>6 DEF OfKind
  <2>3. OfKind("filter")' = {} => OfKind("filter") = {}
    BY <1>6 DEF OfKind
  <2> QED BY <1>5, <2>1, <2>2, <2>3 DEF ReportInv, LastFollows
<1>12. FileFollows'
  <2> SUFFICES ASSUME ~differs'
               PROVE  FileFollows'
    BY DEF FileFollows
  <2>1. /\ view.report # None /\ view.from = view.report.from /\ view.to = view.report.to
        /\ view.report = Report!ReportOf(view.report.from, view.report.to)
    BY <1>6 DEF History
  <2>2. view'.report = Report!ReportOf(view.report.from, view.report.to)'
    BY <1>4, <1>5, <2>1, SameReport
  <2>3. \A k \in OfKind("export")' : k = n + 1
    BY <1>6, <1>8 DEF OfKind
  <2> QED BY <1>5, <1>6, <2>1, <2>2, <2>3 DEF FileFollows
<1> QED BY <1>4, <1>7, <1>9, <1>10, <1>11, <1>12 DEF ReportInv

LEMMA AskStep ==
    ASSUME ReportInv, History, Report!ApplyFilter \/ Report!QuickPreset \/ Report!Export
    PROVE  ReportInv'
<1>1. PICK V : ReportShaped(V)
  BY DEF ReportInv
<1>2. CASE Report!ApplyFilter
  <2>1. /\ asked' = Append(asked, Report!Request("filter", view.from, view.to))
        /\ view' = [view EXCEPT !.filtering = TRUE] /\ ~view.filtering
        /\ sale' = sale /\ today' = today
    BY <1>2 DEF Report!ApplyFilter, Report!Ask
  <2>2. /\ view' \in View(V) /\ view'.report = view.report /\ view'.file = view.file
        /\ view'.filtering /\ view'.exporting = view.exporting
    BY <1>1, <2>1 DEF ReportShaped, View
  <2>3. PICK from, to : from = view.from /\ to = view.to
    OBVIOUS
  <2> QED BY <2>1, <2>2, <2>3, FilterAsked
<1>3. CASE Report!QuickPreset
  <2>1. PICK from :
          /\ Report!Ask("filter", from, today)
          /\ view' = [view EXCEPT !.from = from, !.to = today, !.filtering = TRUE]
    BY <1>3 DEF Report!QuickPreset
  <2>2. PICK to : to = today
    OBVIOUS
  <2>3. /\ asked' = Append(asked, Report!Request("filter", from, to)) /\ ~view.filtering
        /\ view' = [view EXCEPT !.from = from, !.to = to, !.filtering = TRUE]
        /\ sale' = sale /\ today' = today
    BY <1>3, <2>1, <2>2 DEF Report!QuickPreset, Report!Ask
  <2> DEFINE W == V \union {from, to}
  <2>4. V \subseteq W /\ from \in W /\ to \in W
    OBVIOUS
  <2> HIDE DEF W
  <2>5. view \in View(W)
    BY <1>1, <2>4 DEF ReportShaped, View
  <2>6. /\ view' \in View(W) /\ view'.report = view.report /\ view'.file = view.file
        /\ view'.filtering /\ view'.exporting = view.exporting
    BY <2>3, <2>4, <2>5 DEF View
  <2> QED BY <2>3, <2>6, FilterAsked
<1> QED BY <1>2, <1>3, ExportAsked


\* A request goes on; what was asked stays.
LEMMA AnsweredShape ==
    ASSUME ReportInv, NEW k \in DOMAIN asked, NEW at \in {"ok", "failed"}, NEW answer,
           asked' = [asked EXCEPT ![k] = [asked[k] EXCEPT !.at = at, !.answer = answer]]
    PROVE  /\ \E V : asked' \in Seq(Asking(V))
           /\ Len(asked') = Len(asked) /\ DOMAIN asked' = DOMAIN asked
           /\ \A j \in DOMAIN asked : j # k => asked'[j] = asked[j]
           /\ \A j \in DOMAIN asked : /\ asked'[j].kind = asked[j].kind
                                      /\ asked'[j].from = asked[j].from /\ asked'[j].to = asked[j].to
           /\ asked'[k].at = at /\ asked'[k].answer = answer
<1> DEFINE q == [asked[k] EXCEPT !.at = at, !.answer = answer]
<1>1. PICK V : ReportShaped(V)
  BY DEF ReportInv
<1> DEFINE W == V \union {answer}
<1>2. V \subseteq W /\ answer \in W
  OBVIOUS
<1> HIDE DEF W
<1>3. asked \in Seq(Asking(W))
  BY <1>1, <1>2, ReportShapedGrows DEF ReportShaped
<1>4. asked[k] \in Asking(W)
  BY <1>3, LenProperties
<1>5. /\ q \in Asking(W) /\ q.kind = asked[k].kind /\ q.from = asked[k].from /\ q.to = asked[k].to
      /\ q.at = at /\ q.answer = answer
  BY <1>2, <1>4 DEF Asking
<1>6. asked' = [asked EXCEPT ![k] = q]
  OBVIOUS
<1> HIDE DEF q
<1>7. asked' \in Seq(Asking(W)) /\ Len(asked') = Len(asked) /\ DOMAIN asked' = DOMAIN asked
  BY <1>3, <1>5, <1>6, LenProperties, ExceptSeq
<1> QED BY <1>3, <1>5, <1>6, <1>7

\* The API answers with a report of the period asked for, or with an error.
LEMMA ServeReportStep ==
    ASSUME ReportInv, History, NEW k \in DOMAIN asked, Report!Serve(k) \/ Report!Lose(k)
    PROVE  ReportInv'
<1>1. PICK V : ReportShaped(V)
  BY DEF ReportInv
<1>2. asked[k] \in Asking(V) /\ today \in Int
  BY <1>1, LenProperties DEF ReportShaped, ReportInv
<1>3. UNCHANGED <<sale, today, view>>
  BY DEF Report!Serve, Report!Lose
<1>a. PICK at \in {"ok", "failed"} : \E answer :
        /\ asked' = [asked EXCEPT ![k] = [asked[k] EXCEPT !.at = at, !.answer = answer]]
        /\ at = "ok" => \E from, to : /\ answer = Report!ReportOf(from, to)
                                      /\ from # None /\ to # None
                                      /\ asked[k].from # None => from = asked[k].from
                                      /\ asked[k].to # None => to = asked[k].to
  <2>1. ASSUME asked' = [asked EXCEPT ![k].at = "failed"]
        PROVE  asked' = [asked EXCEPT ![k] = [asked[k] EXCEPT !.at = "failed", !.answer = asked[k].answer]]
    <3>1. [asked[k] EXCEPT !.at = "failed", !.answer = asked[k].answer] = [asked[k] EXCEPT !.at = "failed"]
      BY <1>2 DEF Asking
    <3> QED BY <2>1, <3>1
  <2>2. CASE Report!Lose(k)
    BY <2>1, <2>2 DEF Report!Lose
  <2>3. CASE Report!Serve(k)
    <3> DEFINE from == IF asked[k].from = None THEN today - DefaultSpan ELSE asked[k].from
               to == IF asked[k].to = None THEN today ELSE asked[k].to
               answer == Report!ReportOf(from, to)
    <3>1. \/ asked' = [asked EXCEPT ![k].at = "failed"]
          \/ asked' = [asked EXCEPT ![k] = [asked[k] EXCEPT !.at = "ok", !.answer = answer]]
      BY <2>3 DEF Report!Serve
    <3>2. from # None /\ to # None
      <4>1. today - DefaultSpan \in Int
        BY <1>2, BackOfficeAssumption
      <4> QED BY <1>2, <4>1, BackOfficeAssumption
    <3>3. (asked[k].from # None => from = asked[k].from) /\ (asked[k].to # None => to = asked[k].to)
      OBVIOUS
    <3>4. \E f, t : /\ answer = Report!ReportOf(f, t) /\ f # None /\ t # None
                    /\ asked[k].from # None => f = asked[k].from
                    /\ asked[k].to # None => t = asked[k].to
      <4> HIDE DEF from, to
      <4> QED BY <3>2, <3>3
    <3> HIDE DEF from, to, answer
    <3>5. CASE asked' = [asked EXCEPT ![k].at = "failed"]
      BY <2>1, <3>5
    <3>6. CASE asked' = [asked EXCEPT ![k] = [asked[k] EXCEPT !.at = "ok", !.answer = answer]]
      BY <3>4, <3>6
    <3> QED BY <3>1, <3>5, <3>6
  <2> QED BY <2>2, <2>3
<1>4. PICK answer :
        /\ asked' = [asked EXCEPT ![k] = [asked[k] EXCEPT !.at = at, !.answer = answer]]
        /\ at = "ok" => \E from, to : /\ answer = Report!ReportOf(from, to)
                                      /\ from # None /\ to # None
                                      /\ asked[k].from # None => from = asked[k].from
                                      /\ asked[k].to # None => to = asked[k].to
  BY <1>a
<1>5. /\ \E U : asked' \in Seq(Asking(U))
      /\ Len(asked') = Len(asked) /\ DOMAIN asked' = DOMAIN asked
      /\ \A j \in DOMAIN asked : j # k => asked'[j] = asked[j]
      /\ \A j \in DOMAIN asked : /\ asked'[j].kind = asked[j].kind
                                 /\ asked'[j].from = asked[j].from /\ asked'[j].to = asked[j].to
      /\ asked'[k].at = at /\ asked'[k].answer = answer
  BY <1>4, AnsweredShape
<1>6. \E U : ReportShaped(U)'
  BY <1>1, <1>3, <1>5, BothShaped DEF ReportShaped
<1>7. ~(Len(asked') > Len(asked))
  BY <1>5, AskedLen
<1>8. \A kind : OfKind(kind)' = OfKind(kind)
  BY <1>5 DEF OfKind
<1>9. OnePerKind'
  BY <1>3, <1>5 DEF ReportInv, OnePerKind, OfKind
<1>10. AnswersFit'
  <2>1. ASSUME at = "ok"
        PROVE  Answers(asked'[k])
    <3>1. PICK from, to : /\ answer = Report!ReportOf(from, to)
                          /\ from # None /\ to # None
                          /\ asked[k].from # None => from = asked[k].from
                          /\ asked[k].to # None => to = asked[k].to
      BY <1>4, <2>1
    <3>2. IsReport(answer) /\ answer.from = from /\ answer.to = to
      BY <3>1, ReportOfIsReport
    <3>3. asked'[k].from = asked[k].from /\ asked'[k].to = asked[k].to /\ asked'[k].answer = answer
      BY <1>5
    <3> QED BY <3>1, <3>2, <3>3 DEF Answers
  <2>2. \A j \in DOMAIN asked' : asked'[j].at = "ok" => Answers(asked'[j])
    BY <1>5, <2>1 DEF ReportInv, AnswersFit
  <2> QED BY <1>3, <2>2 DEF ReportInv, AnswersFit, Answers
<1>11. LastFollows'
  <2>1. wanted' = wanted /\ (~overtaken' => ~overtaken)
    BY <1>7, NoAsk
  <2>2. OfKind("filter")' = OfKind("filter")
    BY <1>8
  <2>3. \A j \in OfKind("filter") : asked'[j].from = asked[j].from /\ asked'[j].to = asked[j].to
    BY <1>5 DEF OfKind
  <2> QED BY <1>3, <2>1, <2>2, <2>3 DEF ReportInv, LastFollows
<1>12. FileFollows'
  <2> SUFFICES ASSUME ~differs'
               PROVE  FileFollows'
    BY DEF FileFollows
  <2>1. ~differs
    BY <1>7, NoAsk
  <2>2. view'.report = Report!ReportOf(view.report.from, view.report.to)'
    BY <1>3, <2>1, SameReport DEF ReportInv, FileFollows
  <2>3. ASSUME NEW j \in OfKind("export"), asked'[j].at = "ok"
        PROVE  asked'[j].answer = view.report
    <3>1. j \in DOMAIN asked /\ asked[j].from = view.report.from /\ asked[j].to = view.report.to
      BY <2>1 DEF ReportInv, FileFollows, OfKind
    <3>2. CASE j # k
      BY <1>5, <2>1, <2>3, <3>1, <3>2 DEF ReportInv, FileFollows
    <3>3. CASE j = k
      <4>1. view.report.from # None /\ view.report.to # None
        BY <2>1 DEF ReportInv, FileFollows, AnswersFit
      <4>2. answer = Report!ReportOf(view.report.from, view.report.to)
        BY <1>4, <1>5, <2>3, <3>1, <3>3, <4>1
      <4> QED BY <1>5, <2>1, <3>3, <4>2 DEF ReportInv, FileFollows
    <3> QED BY <3>2, <3>3
  <2>4. OfKind("export")' = OfKind("export")
    BY <1>8
  <2>5. \A j \in OfKind("export") : /\ asked'[j].from = view.report.from /\ asked'[j].to = view.report.to
    BY <1>5, <2>1 DEF ReportInv, FileFollows, OfKind
  <2> QED BY <1>3, <2>1, <2>2, <2>3, <2>4, <2>5 DEF ReportInv, FileFollows
<1> QED BY <1>3, <1>6, <1>9, <1>10, <1>11, <1>12 DEF ReportInv


\* A request ends; the others stay in their order.
LEMMA EndedShape ==
    ASSUME ReportInv, NEW k \in DOMAIN asked, asked' = Report!RemoveAt(asked, k)
    PROVE  /\ \E V : asked' \in Seq(Asking(V))
           /\ ~(Len(asked') > Len(asked))
           /\ \A j \in DOMAIN asked' : \E i \in DOMAIN asked : i # k /\ asked'[j] = asked[i]
           /\ \A i \in DOMAIN asked : i # k => \E j \in DOMAIN asked' : asked'[j] = asked[i]
           /\ \A j, l \in DOMAIN asked' : asked'[j].kind = asked'[l].kind => j = l
<1> DEFINE n == Len(asked)
           at(j) == IF j < k THEN j ELSE j + 1
<1>1. PICK V : ReportShaped(V)
  BY DEF ReportInv
<1>2. asked' = RemoveAt(asked, k)
  BY DEF Report!RemoveAt, RemoveAt
<1>3. n \in Nat /\ DOMAIN asked = 1 .. n
  BY AskedLen
<1>4. /\ asked' \in Seq(Asking(V)) /\ Len(asked') = n - 1 /\ DOMAIN asked' = 1 .. n - 1
      /\ \A j \in 1 .. n - 1 : at(j) \in DOMAIN asked /\ at(j) # k /\ asked'[j] = asked[at(j)]
  <2>1. asked \in Seq(Asking(V))
    BY <1>1 DEF ReportShaped
  <2>2. Len(asked') = n - 1 /\ DOMAIN asked' = 1 .. n - 1
    BY <1>2, <2>1, RemovalShape
  <2>3. /\ asked' \in Seq(Asking(V))
        /\ \A j \in DOMAIN asked' :
            LET i == IF j < k THEN j ELSE j + 1 IN
            j \in Int /\ i \in DOMAIN asked /\ i # k /\ asked'[j] = asked[i]
    BY <1>2, <2>1, Removal
  <2> QED BY <2>2, <2>3
<1>5. \A i \in 1 .. n : i # k => \E j \in 1 .. n - 1 : at(j) = i
  <2> SUFFICES ASSUME NEW i \in 1 .. n, i # k
               PROVE  \E j \in 1 .. n - 1 : at(j) = i
    OBVIOUS
  <2>1. CASE i < k
    <3>1. i \in 1 .. n - 1 /\ at(i) = i
      BY <1>3, <2>1
    <3> QED BY <3>1
  <2>2. CASE ~(i < k)
    <3>1. i - 1 \in 1 .. n - 1 /\ at(i - 1) = i
      BY <1>3, <2>2
    <3> QED BY <3>1
  <2> QED BY <2>1, <2>2
<1>6. \A j, l \in 1 .. n - 1 : at(j) = at(l) => j = l
  BY <1>3
<1>7. ~(n - 1 > n)
  BY <1>3
<1> HIDE DEF at, n
<1>8. \A j, l \in 1 .. n - 1 : asked'[j].kind = asked'[l].kind => j = l
  BY <1>4, <1>6 DEF ReportInv, OnePerKind
<1>9. \A i \in DOMAIN asked : i # k => \E j \in DOMAIN asked' : asked'[j] = asked[i]
  BY <1>3, <1>4, <1>5
<1> QED BY <1>4, <1>7, <1>8, <1>9 DEF n

\* setReport and the file: an answer is taken, or an error shown.
LEMMA AnswerReportStep ==
    ASSUME ReportInv, History, NEW k \in DOMAIN asked, Report!Arrive(k) \/ Report!Fail(k)
    PROVE  ReportInv'
<1> DEFINE q == asked[k]
           kind == asked[k].kind
<1>1. PICK V : ReportShaped(V)
  BY DEF ReportInv
<1>2. q \in Asking(V) /\ view \in View(V)
  BY <1>1, LenProperties DEF ReportShaped
<1>3. asked' = Report!RemoveAt(asked, k) /\ UNCHANGED <<sale, today>>
  BY DEF Report!Arrive, Report!Fail
<1>4. /\ \E U : asked' \in Seq(Asking(U))
      /\ ~(Len(asked') > Len(asked))
      /\ \A j \in DOMAIN asked' : \E i \in DOMAIN asked : i # k /\ asked'[j] = asked[i]
      /\ \A i \in DOMAIN asked : i # k => \E j \in DOMAIN asked' : asked'[j] = asked[i]
      /\ \A j, l \in DOMAIN asked' : asked'[j].kind = asked'[l].kind => j = l
  BY <1>3, EndedShape
<1>5. /\ wanted' = wanted
      /\ ~overtaken' => ~overtaken
      /\ ~differs' => ~differs /\ sale' = sale /\ view'.report = view.report
  BY <1>4, NoAsk
\* What is on the screen afterwards.
<1> DEFINE W == V \union {q.answer, q.answer.from, q.answer.to}
<1>6. V \subseteq W /\ q.answer \in W /\ q.answer.from \in W /\ q.answer.to \in W
  OBVIOUS
<1> HIDE DEF W
<1>7. view \in View(W)
  BY <1>2, <1>6 DEF View
<1>8. /\ Report!Released(kind) \in View(W)
      /\ Report!Released(kind).report = view.report /\ Report!Released(kind).file = view.file
      /\ kind # "filter" => Report!Released(kind).filtering = view.filtering
      /\ kind # "export" => Report!Released(kind).exporting = view.exporting
  BY <1>2, <1>7 DEF Report!Released, View, Asking
<1>9. /\ view' \in View(W)
      /\ kind # "filter" => view'.filtering = view.filtering
      /\ kind # "export" => view'.exporting = view.exporting
      /\ view'.report = IF q.at = "ok" /\ kind # "export" THEN q.answer ELSE view.report
      /\ view'.file = IF q.at = "ok" /\ kind = "export" THEN q.answer ELSE view.file
  <2> DEFINE released == Report!Released(kind)
  <2>1. CASE Report!Fail(k)
    <3>1. view' = released /\ q.at = "failed"
      BY <2>1 DEF Report!Fail
    <3> QED BY <1>8, <3>1
  <2>2. CASE Report!Arrive(k) /\ kind = "export"
    <3>1. view' = [released EXCEPT !.file = q.answer] /\ q.at = "ok"
      BY <2>2 DEF Report!Arrive
    <3>2. released \in View(W) /\ released.report = view.report /\ released.filtering = view.filtering
      BY <1>8, <2>2
    <3> HIDE DEF released
    <3> QED BY <1>6, <2>2, <3>1, <3>2 DEF View
  <2>3. CASE Report!Arrive(k) /\ kind # "export"
    <3>1. /\ view' = [released EXCEPT !.report = q.answer, !.from = q.answer.from, !.to = q.answer.to]
          /\ q.at = "ok"
      BY <2>3 DEF Report!Arrive
    <3>2. /\ released \in View(W) /\ released.file = view.file
          /\ released.exporting = view.exporting
          /\ kind # "filter" => released.filtering = view.filtering
      BY <1>8, <2>3
    <3> HIDE DEF released
    <3> QED BY <1>6, <2>3, <3>1, <3>2 DEF View
  <2> QED BY <2>1, <2>2, <2>3
<1>10. \E U : ReportShaped(U)'
  BY <1>4, <1>9, BothShaped
<1>11. \A j \in DOMAIN asked' : \E i \in DOMAIN asked : i # k /\ asked'[j] = asked[i] /\ asked[i].kind # kind
  BY <1>4 DEF ReportInv, OnePerKind
<1>12. OnePerKind'
  <2>1. \A j \in OfKind("filter")' : view'.filtering
    BY <1>9, <1>11 DEF ReportInv, OnePerKind, OfKind
  <2>2. \A j \in OfKind("export")' : view'.exporting
    BY <1>9, <1>11 DEF ReportInv, OnePerKind, OfKind
  <2> QED BY <1>4, <2>1, <2>2 DEF OnePerKind
<1>13. AnswersFit'
  <2>1. \A j \in DOMAIN asked' : asked'[j].at = "ok" => Answers(asked'[j])
    BY <1>11 DEF ReportInv, AnswersFit
  <2>2. view'.report # None => IsReport(view'.report) /\ view'.report.from # None /\ view'.report.to # None
    BY <1>9 DEF ReportInv, AnswersFit, Answers
  <2> QED BY <2>1, <2>2 DEF AnswersFit, Answers
<1>14. LastFollows'
  <2> SUFFICES ASSUME wanted # None, ~overtaken'
               PROVE  LastFollows'
    BY <1>5 DEF LastFollows
  <2>1. ~overtaken /\ wanted' = wanted
    BY <1>5
  <2>2. kind # "export" => q.at # "failed" /\ kind # "first"
    BY <1>3, <1>4 DEF History, Report!Ended, Report!Asks
  <2>3. \A j \in OfKind("filter")' : \E i \in OfKind("filter") : asked'[j] = asked[i]
    BY <1>11 DEF OfKind
  <2>4. \A j \in OfKind("filter")' : wanted' = <<asked'[j].from, asked'[j].to>>
    BY <2>1, <2>3 DEF ReportInv, LastFollows
  <2>5. ASSUME OfKind("filter")' = {}
        PROVE  /\ IsReport(view'.report)
               /\ wanted[1] # None => wanted[1] = view'.report.from
               /\ wanted[2] # None => wanted[2] = view'.report.to
    <3>1. CASE kind = "filter"
      <4>1. q.at = "ok" /\ Answers(q)
        BY <1>2, <2>2, <3>1 DEF ReportInv, AnswersFit, Report!Arrive, Report!Fail
      <4>2. view'.report = q.answer
        BY <1>9, <3>1, <4>1
      <4>3. wanted = <<q.from, q.to>>
        BY <2>1, <3>1 DEF ReportInv, LastFollows, OfKind
      <4> QED BY <4>1, <4>2, <4>3 DEF Answers
    <3>2. CASE kind # "filter"
      <4>1. kind = "export"
        BY <1>2, <2>2, <3>2 DEF Asking
      <4>2. OfKind("filter") = {}
        BY <1>4, <2>5, <3>2 DEF OfKind
      <4>3. view'.report = view.report
        BY <1>9, <4>1
      <4> QED BY <2>1, <4>2, <4>3 DEF ReportInv, LastFollows
    <3> QED BY <3>1, <3>2
  <2> QED BY <2>1, <2>4, <2>5 DEF LastFollows
<1>15. FileFollows'
  <2> SUFFICES ASSUME ~differs'
               PROVE  FileFollows'
    BY DEF FileFollows
  <2>1. ~differs /\ view'.report = view.report
    BY <1>5
  <2>2. view'.report = Report!ReportOf(view.report.from, view.report.to)'
    BY <1>3, <2>1, SameReport DEF ReportInv, FileFollows
  <2>3. \A j \in OfKind("export")' : \E i \in OfKind("export") : asked'[j] = asked[i]
    BY <1>11 DEF OfKind
  <2>4. kind = "export" /\ q.at = "ok" => q.answer = view.report
    BY <2>1 DEF ReportInv, FileFollows, OfKind
  <2>5. view'.file # None => view'.file = view.report
    BY <1>9, <2>1, <2>4 DEF ReportInv, FileFollows
  <2> QED BY <2>1, <2>2, <2>3, <2>5 DEF ReportInv, FileFollows
<1> QED BY <1>3, <1>10, <1>12, <1>13, <1>14, <1>15 DEF ReportInv


LEMMA ReportInitially ==
    ASSUME Report!HInit
    PROVE  ReportInv
<1> DEFINE q == Report!Request("first", None, None)
<1>1. q \in Asking({None}) /\ q.kind = "first" /\ q.at = "sent"
  BY DEF Report!Request, Asking
<1> HIDE DEF q
<1>2. asked = <<q>>
  BY DEF Report!HInit, Report!Init, Report!Visited, q
<1>3. asked \in Seq(Asking({None})) /\ DOMAIN asked = {1} /\ asked[1] = q
  BY <1>1, <1>2
<1>4. view \in View({None}) /\ view.report = None
  BY DEF Report!HInit, Report!Init, View
<1>5. ReportShaped({None})
  BY <1>3, <1>4 DEF ReportShaped
<1>6. today \in Int /\ wanted = None /\ differs
  BY DEF Report!HInit, Report!Init
<1>7. OnePerKind /\ AnswersFit
  BY <1>1, <1>3, <1>4 DEF OnePerKind, OfKind, AnswersFit
<1> QED BY <1>5, <1>6, <1>7 DEF ReportInv, LastFollows, FileFollows

LEMMA ReportStep ==
    ASSUME ReportInv, [BNext]_bvars
    PROVE  ReportInv'
<1>1. CASE UNCHANGED reportVars
  <2>1. UNCHANGED <<sale, today, view, asked, wanted, overtaken, differs>>
    BY <1>1 DEF reportVars
  <2>2. view'.report = view.report
    BY <2>1
  <2>3. Report!ReportOf(view.report.from, view.report.to)' = Report!ReportOf(view.report.from, view.report.to)
    BY <2>1, <2>2, SameReport
  <2>4. FileFollows'
    BY <2>1, <2>2, <2>3 DEF ReportInv, FileFollows, OfKind
  <2> QED BY <2>1, <2>4 DEF ReportInv, ReportShaped, OnePerKind, AnswersFit, Answers, LastFollows, OfKind
<1>2. CASE Report!HNext
  <2>1. Report!Next /\ History
    BY <1>2, HistoryFollows
  <2> QED BY <2>1, DayStep, AskStep, ServeReportStep, AnswerReportStep DEF Report!Next
<1> QED BY <1>1, <1>2 DEF BNext, bvars

\* The two pages: each keeps its invariant, whichever is open.
LEMMA BothPages ==
    BSpec => [](Inv /\ ReportInv)
<1>1. BInit => Inv /\ ReportInv
  BY Initially, ReportInitially DEF BInit
<1>2. Inv /\ ReportInv /\ [BNext]_bvars => (Inv /\ ReportInv)'
  <2> SUFFICES ASSUME Inv, ReportInv, [BNext]_bvars
               PROVE  Inv' /\ ReportInv'
    OBVIOUS
  <2>1. [HNext]_hvars
    BY DEF BNext, bvars
  <2> QED BY <2>1, InvStep, ReportStep
<1> QED BY <1>1, <1>2, PTL DEF BSpec

\* admin-reports-view.tsx, setReport: when no report is under way, the one on
\* the screen is of the period last asked for, however requests, answers, dates
\* and files follow one another, unless the first load came after the filter or
\* an answer failed.
THEOREM LastAskedIsAlwaysShown ==
    ASSUME ~IsReport(None)
    PROVE  BSpec => []LastAskedIsShown
<1>1. ReportInv => LastAskedIsShown
  <2> SUFFICES ASSUME ReportInv, ~overtaken, \A k \in DOMAIN asked : asked[k].kind = "export", wanted # None
               PROVE  /\ view.report # None
                      /\ \A i \in 1 .. 2 : wanted[i] # None => wanted[i] = <<view.report.from, view.report.to>>[i]
    BY DEF LastAskedIsShown, Report!LastAskedIsShown, Report!Wanted
  <2>1. OfKind("filter") = {}
    BY DEF OfKind
  <2>2. /\ IsReport(view.report)
        /\ wanted[1] # None => wanted[1] = view.report.from
        /\ wanted[2] # None => wanted[2] = view.report.to
    BY <2>1 DEF ReportInv, LastFollows
  <2>3. \A i \in 1 .. 2 : i = 1 \/ i = 2
    OBVIOUS
  <2> QED BY <2>2, <2>3
<1> QED BY <1>1, BothPages, PTL

\* handleExportCsv: the file holds the rows of the report on the screen, unless
\* a date was changed, a report was under way or a sale changed between them.
THEOREM FileIsAlwaysTheReport == BSpec => []FileIsTheReport
<1>1. ReportInv => FileIsTheReport
  BY DEF ReportInv, FileFollows, FileIsTheReport, Report!FileIsTheReport
<1> QED BY <1>1, BothPages, PTL

-----------------------------------------------------------------------------
(* The sum of numbers w[x] over a finite set, in whatever order they are added *)

\* The element a sum takes first, and what the recursive function of a sum is.
Pick(s) == CHOOSE x \in s : TRUE
AddsUp(w, g, S) == g = [s \in SUBSET S |-> IF s = {} THEN 0 ELSE w[Pick(s)] + g[s \ {Pick(s)}]]

Total(w, S) == Report!SumFunctionOnSet(w, S)

\* The sum is what such a function gives, if there is one.
LEMMA Iterate ==
    ASSUME NEW w, NEW S, \E g : AddsUp(w, g, S)
    PROVE  \E g : AddsUp(w, g, S) /\ Total(w, S) = g[S]
<1> DEFINE it == CHOOSE g : AddsUp(w, g, S)
<1>1. AddsUp(w, it, S)
  OBVIOUS
<1>2. Total(w, S) = it[S]
  BY DEF Total, Report!SumFunctionOnSet, Report!FoldFunctionOnSet, Report!MapThenFoldSet, AddsUp, Pick
<1> QED BY <1>1, <1>2

\* A collection of finite sets, unless it is empty, has one with no smaller one in it.
LEMMA Smallest ==
    ASSUME NEW S, IsFiniteSet(S), NEW C, C \subseteq SUBSET S, C # {}
    PROVE  \E T \in C : \A U \in C : U \subseteq T => U = T
<1>1. C \subseteq FiniteSubsetsOf(S)
  BY FS_Subset DEF FiniteSubsetsOf
<1>2. IsWellFoundedOn(StrictSubsetOrdering(S), FiniteSubsetsOf(S))
  BY FS_StrictSubsetOrderingWellFounded
<1>3. PICK T \in C : \A U \in C : ~(<<U, T>> \in StrictSubsetOrdering(S))
  BY <1>1, <1>2, WFMin
<1> QED BY <1>3 DEF StrictSubsetOrdering

\* Two iterations agree.
LEMMA OneIteration ==
    ASSUME NEW w, NEW S, IsFiniteSet(S), NEW g, AddsUp(w, g, S), NEW T \in SUBSET S, NEW h, AddsUp(w, h, T)
    PROVE  h[T] = g[T]
<1> DEFINE C == {U \in SUBSET T : h[U] # g[U]}
<1>1. SUFFICES ASSUME C # {} PROVE FALSE
  OBVIOUS
<1>2. IsFiniteSet(T) /\ C \subseteq SUBSET T
  BY FS_Subset
<1> HIDE DEF C
<1>3. PICK U \in C : \A V \in C : V \subseteq U => V = U
  BY <1>1, <1>2, Smallest
<1>4. U \in SUBSET T /\ U \in SUBSET S /\ h[U] # g[U]
  BY DEF C
<1>5. /\ h[U] = IF U = {} THEN 0 ELSE w[Pick(U)] + h[U \ {Pick(U)}]
      /\ g[U] = IF U = {} THEN 0 ELSE w[Pick(U)] + g[U \ {Pick(U)}]
  BY <1>4 DEF AddsUp
<1>6. U # {}
  BY <1>4, <1>5
<1>7. Pick(U) \in U
  BY <1>6 DEF Pick
<1>8. U \ {Pick(U)} \notin C
  BY <1>3, <1>7
<1>9. h[U \ {Pick(U)}] = g[U \ {Pick(U)}]
  BY <1>4, <1>8 DEF C
<1> QED BY <1>4, <1>5, <1>9

\* There is one: it is made of the sums of the smaller sets.
LEMMA Iteration ==
    ASSUME NEW w, NEW S, IsFiniteSet(S)
    PROVE  \E g : AddsUp(w, g, S)
<1> DEFINE C == {T \in SUBSET S : ~\E g : AddsUp(w, g, T)}
<1>1. SUFFICES ASSUME C # {} PROVE FALSE
  OBVIOUS
<1>2. C \subseteq SUBSET S
  OBVIOUS
<1> HIDE DEF C
<1>3. PICK T \in C : \A U \in C : U \subseteq T => U = T
  BY <1>1, <1>2, Smallest
<1>4. T \in SUBSET S /\ ~\E g : AddsUp(w, g, T)
  BY DEF C
<1>5. ASSUME NEW U \in SUBSET T, U # T
      PROVE  \E g : AddsUp(w, g, U) /\ Total(w, U) = g[U]
  <2>1. U \notin C /\ U \in SUBSET S
    BY <1>3, <1>4, <1>5
  <2> QED BY <2>1, Iterate DEF C
<1> DEFINE h == [U \in SUBSET T |->
                IF U # T THEN Total(w, U)
                ELSE IF U = {} THEN 0 ELSE w[Pick(U)] + Total(w, U \ {Pick(U)})]
<1>6. ASSUME NEW U \in SUBSET T
      PROVE  h[U] = IF U = {} THEN 0 ELSE w[Pick(U)] + h[U \ {Pick(U)}]
  <2> DEFINE V == U \ {Pick(U)}
  <2>1. U # {} => Pick(U) \in U
    BY DEF Pick
  <2>2. U # {} => V \in SUBSET T /\ V \in SUBSET U /\ V # T /\ h[V] = Total(w, V)
    BY <2>1
  <2>3. CASE U = T
    BY <2>2, <2>3
  <2>4. CASE U # T
    <3>1. PICK g : AddsUp(w, g, U) /\ Total(w, U) = g[U]
      BY <1>5, <2>4
    <3>2. g[U] = IF U = {} THEN 0 ELSE w[Pick(U)] + g[V]
      BY <3>1 DEF AddsUp
    <3>3. U # {} => Total(w, V) = g[V]
      <4>1. SUFFICES ASSUME U # {} PROVE Total(w, V) = g[V]
        OBVIOUS
      <4>2. PICK f : AddsUp(w, f, V) /\ Total(w, V) = f[V]
        BY <1>5, <2>2, <4>1
      <4>3. IsFiniteSet(U)
        BY <1>4, FS_Subset
      <4> QED BY <2>2, <3>1, <4>1, <4>2, <4>3, OneIteration
    <3> QED BY <2>2, <2>4, <3>1, <3>2, <3>3
  <2> QED BY <2>3, <2>4
<1>7. AddsUp(w, h, T)
  BY <1>6 DEF AddsUp
<1> QED BY <1>4, <1>7

LEMMA Iterates ==
    ASSUME NEW w, NEW S, IsFiniteSet(S)
    PROVE  \E g : AddsUp(w, g, S) /\ Total(w, S) = g[S]
BY Iterate, Iteration

\* The recurrence, for the sum itself.
LEMMA SumStep ==
    ASSUME NEW w, NEW S, IsFiniteSet(S)
    PROVE  /\ S = {} => Total(w, S) = 0
           /\ S # {} => /\ Pick(S) \in S
                        /\ Total(w, S) = w[Pick(S)] + Total(w, S \ {Pick(S)})
<1> DEFINE T == S \ {Pick(S)}
<1>1. PICK g : AddsUp(w, g, S) /\ Total(w, S) = g[S]
  BY Iterates
<1>2. IsFiniteSet(T) /\ T \in SUBSET S
  BY FS_Subset
<1>3. PICK h : AddsUp(w, h, T) /\ Total(w, T) = h[T]
  BY <1>2, Iterates
<1>4. h[T] = g[T]
  BY <1>1, <1>2, <1>3, OneIteration
<1>5. g[S] = IF S = {} THEN 0 ELSE w[Pick(S)] + g[T]
  BY <1>1 DEF AddsUp
<1>6. S # {} => Pick(S) \in S
  BY DEF Pick
<1> QED BY <1>1, <1>3, <1>4, <1>5, <1>6

\* The sum is a number, and any of them can be taken out.
LEMMA SumOut ==
    ASSUME NEW w, NEW S, IsFiniteSet(S), \A x \in S : w[x] \in Nat
    PROVE  /\ Total(w, S) \in Nat
           /\ \A y \in S : Total(w, S) = w[y] + Total(w, S \ {y})
<1> DEFINE Fine(T) ==
             /\ Total(w, T) \in Nat
             /\ \A y \in T : Total(w, T) = w[y] + Total(w, T \ {y})
           C == {T \in SUBSET S : ~Fine(T)}
<1>1. SUFFICES ASSUME C # {} PROVE FALSE
  OBVIOUS
<1>0. C \subseteq SUBSET S
  OBVIOUS
<1> HIDE DEF C
<1>2. PICK T \in C : \A U \in C : U \subseteq T => U = T
  BY <1>0, <1>1, Smallest
<1>3. T \in SUBSET S /\ ~Fine(T)
  BY DEF C
<1>4. \A U \in SUBSET S : U \subseteq T /\ U # T => Fine(U)
  BY <1>2 DEF C
<1>5. \A U \in SUBSET S : IsFiniteSet(U)
  BY FS_Subset
<1>6. CASE T = {}
  <2>1. Total(w, T) = 0
    BY <1>3, <1>5, <1>6, SumStep
  <2>2. Fine(T)
    BY <1>6, <2>1
  <2> QED BY <1>3, <2>2
<1>7. CASE T # {}
  <2> DEFINE c == Pick(T)
  <2>1. c \in T /\ Total(w, T) = w[c] + Total(w, T \ {c})
    BY <1>3, <1>5, <1>7, SumStep
  <2>2. Fine(T \ {c}) /\ w[c] \in Nat
    BY <1>3, <1>4, <2>1
  <2> HIDE DEF c
  <2>3. Total(w, T) \in Nat
    BY <2>1, <2>2
  <2>4. ASSUME NEW y \in T PROVE Total(w, T) = w[y] + Total(w, T \ {y})
    <3>1. CASE y = c
      BY <2>1, <3>1
    <3>2. CASE y # c
      <4> DEFINE R == T \ {c, y}
      <4>1. (T \ {c}) \ {y} = R /\ (T \ {y}) \ {c} = R
        OBVIOUS
      <4>2. Total(w, T \ {c}) = w[y] + Total(w, R)
        BY <2>2, <3>2, <4>1
      <4>3. Fine(T \ {y}) /\ Fine(R)
        BY <1>3, <1>4, <2>1
      <4>4. Total(w, T \ {y}) = w[c] + Total(w, R)
        BY <2>1, <3>2, <4>1, <4>3
      <4>5. w[y] \in Nat /\ Total(w, R) \in Nat
        BY <1>3, <4>3
      <4> QED BY <2>1, <2>2, <4>2, <4>4, <4>5
    <3> QED BY <3>1, <3>2
  <2> QED BY <1>3, <2>3, <2>4
<1> QED BY <1>6, <1>7

\* Sets that share nothing add up.
LEMMA SumParts ==
    ASSUME NEW w, NEW A, NEW B, IsFiniteSet(A), IsFiniteSet(B), A \cap B = {},
           \A x \in A \union B : w[x] \in Nat
    PROVE  Total(w, A \union B) = Total(w, A) + Total(w, B)
<1> DEFINE C == {T \in SUBSET B : Total(w, A \union T) # Total(w, A) + Total(w, T)}
<1>1. SUFFICES ASSUME C # {} PROVE FALSE
  OBVIOUS
<1>2. C \subseteq SUBSET B
  OBVIOUS
<1> HIDE DEF C
<1>3. PICK T \in C : \A U \in C : U \subseteq T => U = T
  BY <1>1, <1>2, Smallest
<1>4. T \in SUBSET B /\ Total(w, A \union T) # Total(w, A) + Total(w, T)
  BY DEF C
<1>5. \A U \in SUBSET B : /\ IsFiniteSet(U) /\ IsFiniteSet(A \union U)
                          /\ Total(w, U) \in Nat /\ Total(w, A) \in Nat /\ Total(w, A \union U) \in Nat
  <2> SUFFICES ASSUME NEW U \in SUBSET B
               PROVE  /\ IsFiniteSet(U) /\ IsFiniteSet(A \union U)
                      /\ Total(w, U) \in Nat /\ Total(w, A) \in Nat /\ Total(w, A \union U) \in Nat
    OBVIOUS
  <2>1. IsFiniteSet(U) /\ IsFiniteSet(A \union U)
    BY FS_Subset, FS_Union
  <2>2. \A x \in A \union U : w[x] \in Nat
    OBVIOUS
  <2> QED BY <2>1, <2>2, SumOut
<1>6. CASE T = {}
  <2>1. A \union T = A /\ Total(w, T) = 0
    BY <1>6, SumStep, FS_EmptySet
  <2>2. Total(w, A) \in Nat
    BY <1>4, <1>5
  <2>3. Total(w, A) = Total(w, A) + Total(w, T)
    BY <2>1, <2>2
  <2> QED BY <1>4, <2>1, <2>3
<1>7. CASE T # {}
  <2>1. PICK y \in T : TRUE
    BY <1>7
  <2> DEFINE U == T \ {y}
  <2>2. U \in SUBSET B /\ U \notin C /\ (A \union T) \ {y} = A \union U
    BY <1>3, <1>4
  <2>3. Total(w, A \union U) = Total(w, A) + Total(w, U)
    BY <2>2 DEF C
  <2>4. Total(w, T) = w[y] + Total(w, U)
    BY <1>4, <1>5, SumOut
  <2>5. Total(w, A \union T) = w[y] + Total(w, A \union U)
    <3>1. y \in A \union T /\ \A x \in A \union T : w[x] \in Nat
      BY <1>4
    <3> QED BY <1>4, <1>5, <2>2, <3>1, SumOut
  <2>6. w[y] \in Nat
    BY <1>4
  <2> HIDE DEF U
  <2> QED BY <1>4, <1>5, <2>2, <2>3, <2>4, <2>5, <2>6
<1> QED BY <1>6, <1>7

-----------------------------------------------------------------------------
(* Every sale counts on one day *)

\* The days of an order have passed.
SaleInv ==
    /\ today \in Nat /\ today >= 1
    /\ sale \in [Sales -> [created: 1 .. today, paid: (1 .. today) \union {None},
                           payment: {"PENDENTE", "PAGO", "ESTORNADO", "EXPIRADO"},
                           cancelled: BOOLEAN]]

LEMMA SaleInitially ==
    ASSUME Report!HInit
    PROVE  SaleInv
BY DEF Report!HInit, Report!Init, SaleInv

LEMMA SaleStep ==
    ASSUME SaleInv, [BNext]_bvars
    PROVE  SaleInv'
<1>1. CASE UNCHANGED <<sale, today>>
  BY <1>1 DEF SaleInv
<1>2. CASE Report!NextDay
  <2>1. today' = today + 1 /\ sale' = sale
    BY <1>2 DEF Report!NextDay
  <2>2. today' \in Nat /\ today' >= 1 /\ 1 .. today \subseteq 1 .. today'
    BY <2>1 DEF SaleInv
  <2> QED BY <2>1, <2>2 DEF SaleInv
<1>3. ASSUME NEW o \in Sales, Report!Pay(o) \/ Report!Refund(o) \/ Report!Cancel(o)
      PROVE  SaleInv'
  <2> DEFINE Row == [created: 1 .. today, paid: (1 .. today) \union {None},
                     payment: {"PENDENTE", "PAGO", "ESTORNADO", "EXPIRADO"}, cancelled: BOOLEAN]
  <2>1. today' = today /\ sale[o] \in Row /\ today \in 1 .. today
    BY <1>3 DEF Report!Pay, Report!Refund, Report!Cancel, Report!Change, SaleInv
  <2>2. ASSUME Report!Pay(o) PROVE sale' \in [Sales -> Row]
    <3> DEFINE r == [sale[o] EXCEPT !.payment = "PAGO", !.paid = today]
    <3>1. r \in Row
      BY <2>1
    <3>2. sale' = [sale EXCEPT ![o] = r]
      BY <2>2 DEF Report!Pay
    <3> HIDE DEF r
    <3> QED BY <3>1, <3>2 DEF SaleInv
  <2>3. ASSUME Report!Refund(o) PROVE sale' \in [Sales -> Row]
    <3> DEFINE r == [sale[o] EXCEPT !.payment = "ESTORNADO", !.cancelled = TRUE]
    <3>1. r \in Row
      BY <2>1
    <3>2. sale' = [sale EXCEPT ![o] = r]
      BY <2>3 DEF Report!Refund
    <3> HIDE DEF r
    <3> QED BY <3>1, <3>2 DEF SaleInv
  <2>4. ASSUME Report!Cancel(o) PROVE sale' \in [Sales -> Row]
    <3> DEFINE r == [sale[o] EXCEPT !.cancelled = TRUE,
                                    !.payment = IF @ = "PAGO" THEN "ESTORNADO" ELSE "EXPIRADO"]
    <3>1. r \in Row
      BY <2>1
    <3>2. sale' = [sale EXCEPT ![o] = r]
      BY <2>4 DEF Report!Cancel
    <3> HIDE DEF r
    <3> QED BY <3>1, <3>2 DEF SaleInv
  <2> QED BY <1>3, <2>1, <2>2, <2>3, <2>4 DEF SaleInv
<1>4. [Report!Next]_<<sale, today>>
  BY HistoryFollows DEF BNext, bvars, reportVars
<1>5. ASSUME Report!Next PROVE SaleInv'
  <2>1. CASE Report!TypeDate \/ Report!ApplyFilter \/ Report!QuickPreset \/ Report!Export
    BY <1>1, <2>1 DEF Report!TypeDate, Report!ApplyFilter, Report!QuickPreset, Report!Export
  <2>2. ASSUME NEW k \in DOMAIN asked, Report!Serve(k) \/ Report!Lose(k) \/ Report!Arrive(k) \/ Report!Fail(k)
        PROVE  SaleInv'
    BY <1>1, <2>2 DEF Report!Serve, Report!Lose, Report!Arrive, Report!Fail
  <2> QED BY <1>2, <1>3, <1>5, <2>1, <2>2 DEF Report!Next
<1> QED BY <1>1, <1>4, <1>5

\* The sales of some of the days so far.
Paid == {o \in Sales : sale[o].payment = "PAGO" /\ ~sale[o].cancelled}

Of(D) == {o \in Paid : Report!Day(o) \in D}

LEMMA CountedOf ==
    ASSUME SaleInv, NEW from, NEW to
    PROVE  {o \in Sales : Report!Counted(o, from, to)} = Of(from .. to)
BY DEF Report!Counted, Of, Paid, SaleInv

LEMMA OfDays ==
    ASSUME SaleInv
    PROVE  /\ \A o \in Paid : Report!Day(o) \in 1 .. today
           /\ \A D : IsFiniteSet(Of(D)) /\ Of(D) \subseteq Sales /\ Total(Price, Of(D)) \in Nat
<1>1. \A o \in Paid : Report!Day(o) \in 1 .. today
  BY DEF SaleInv, Paid, Report!Day
<1>2. ASSUME NEW D PROVE IsFiniteSet(Of(D)) /\ Of(D) \subseteq Sales /\ Total(Price, Of(D)) \in Nat
  <2>1. Of(D) \subseteq Sales
    BY DEF Of, Paid
  <2>2. IsFiniteSet(Of(D)) /\ \A o \in Of(D) : Price[o] \in Nat
    BY <2>1, BackOfficeAssumption, FS_Subset
  <2> QED BY <2>1, <2>2, SumOut
<1> QED BY <1>1, <1>2

\* Day by day, the revenues are those of all these days.
LEMMA RevenuesAddUp ==
    ASSUME SaleInv, NEW w, NEW E, IsFiniteSet(E), \A d \in E : w[d] = Total(Price, Of({d}))
    PROVE  Total(w, E) = Total(Price, Of(E))
<1> DEFINE C == {D \in SUBSET E : Total(w, D) # Total(Price, Of(D))}
<1>1. SUFFICES ASSUME C # {} PROVE FALSE
  OBVIOUS
<1>2. C \subseteq SUBSET E
  OBVIOUS
<1> HIDE DEF C
<1>3. PICK D \in C : \A U \in C : U \subseteq D => U = D
  BY <1>1, <1>2, Smallest
<1>4. D \in SUBSET E /\ Total(w, D) # Total(Price, Of(D))
  BY DEF C
<1>5. IsFiniteSet(D)
  BY <1>4, FS_Subset
<1>6. CASE D = {}
  <2>1. Of(D) = {}
    BY <1>6 DEF Of
  <2> QED BY <1>4, <1>6, <2>1, SumStep, FS_EmptySet
<1>7. CASE D # {}
  <2>1. PICK d \in D : TRUE
    BY <1>7
  <2> DEFINE U == D \ {d}
  <2>2. U \in SUBSET E /\ U \notin C
    BY <1>3, <1>4
  <2>3. Total(w, U) = Total(Price, Of(U))
    BY <2>2 DEF C
  <2>4. \A x \in D : w[x] \in Nat
    BY <1>4, OfDays
  <2>5. Total(w, D) = w[d] + Total(w, U)
    BY <1>5, <2>4, SumOut
  <2>6. Of(D) = Of({d}) \union Of(U) /\ Of({d}) \cap Of(U) = {}
    BY DEF Of
  <2>7. \A x \in Of({d}) \union Of(U) : Price[x] \in Nat
    BY OfDays, BackOfficeAssumption
  <2>8. Total(Price, Of(D)) = Total(Price, Of({d})) + Total(Price, Of(U))
    <3> DEFINE A == Of({d})
               B == Of(U)
    <3>1. IsFiniteSet(A) /\ IsFiniteSet(B) /\ A \cap B = {} /\ \A x \in A \union B : Price[x] \in Nat
      BY <2>6, <2>7, OfDays
    <3> HIDE DEF A, B
    <3>2. Total(Price, A \union B) = Total(Price, A) + Total(Price, B)
      BY <3>1, SumParts
    <3> QED BY <2>6, <3>2 DEF A, B
  <2> QED BY <1>4, <2>3, <2>5, <2>8
<1> QED BY <1>6, <1>7

\* Reports, RF10: for any sales and days, the reports count every paid order
\* that is not cancelled on one day, and their revenues add up to the whole,
\* although payments are confirmed again, refunded and cancelled on other days.
THEOREM EachSaleAlwaysOnce == BSpec => []EachSaleOnce
<1>1. SaleInv => EachSaleOnce
  <2> SUFFICES ASSUME SaleInv PROVE EachSaleOnce
    OBVIOUS
  <2> DEFINE revenues == [d \in 1 .. today |-> Report!ReportOf(d, d).revenue]
             whole == Report!ReportOf(1, today)
  <2>1. ASSUME NEW from, NEW to
        PROVE  /\ Report!ReportOf(from, to).revenue = Total(Price, Of(from .. to))
               /\ DOMAIN Report!ReportOf(from, to).orders = Of(from .. to)
    BY CountedOf DEF Report!ReportOf, Total
  <2>2. Of(1 .. today) = Paid
    BY OfDays DEF Of
  <2>3. DOMAIN whole.orders = Paid /\ whole.revenue = Total(Price, Of(1 .. today))
    BY <2>1, <2>2
  <2>4. IsFiniteSet(1 .. today) /\ \A d \in 1 .. today : d .. d = {d}
    BY FS_Interval DEF SaleInv
  <2>5. \A d \in 1 .. today : revenues[d] = Total(Price, Of({d}))
    BY <2>1, <2>4
  <2>6. DOMAIN revenues = 1 .. today
    OBVIOUS
  <2> HIDE DEF revenues, whole
  <2>7. Total(revenues, 1 .. today) = whole.revenue
    BY <2>3, <2>4, <2>5, RevenuesAddUp
  <2>8. whole.revenue = Report!SumFunction(revenues)
    BY <2>6, <2>7 DEF Report!SumFunction, Total
  <2> QED BY <2>3, <2>8 DEF EachSaleOnce, Report!EachSaleOnce, Paid, revenues, whole
<1>2. BInit => SaleInv
  BY SaleInitially DEF BInit
<1>3. SaleInv /\ [BNext]_bvars => SaleInv'
  BY SaleStep
<1> QED BY <1>1, <1>2, <1>3, PTL DEF BSpec


-----------------------------------------------------------------------------
(* The list and the table *)

\* What setItems makes of a row that was deactivated.
Off(r) == [r EXCEPT !.active = FALSE]

Table(t) == t = [i \in DOMAIN t |-> t[i]]

\* The list is about rows of the table, and the one load under way is the first
\* request of the page.
Tables ==
    /\ Table(row) /\ DOMAIN row \subseteq Ids /\ DOMAIN List \subseteq DOMAIN row
    /\ Loading \/ items # None
    /\ \A k \in DOMAIN calls : calls[k].kind = "load" =>
        /\ k = 1
        /\ calls[k].at = "ok" => Table(calls[k].answer) /\ DOMAIN calls[k].answer \subseteq DOMAIN row
    /\ \A k \in DOMAIN calls : calls[k].kind = "create" /\ calls[k].at = "ok" => calls[k].id \in DOMAIN row

Single(i) == \A j, k \in DOMAIN calls : calls[j].id = i /\ calls[k].id = i => j = k

\* What the answers on their way say of a row.
Told(i) ==
    \A k \in DOMAIN calls : calls[k].at = "ok" /\ calls[k].kind # "load" /\ calls[k].id = i =>
        /\ calls[k].answer = row[i]
        /\ calls[k].kind = "deactivate" => Off(row[i]) = row[i]
        /\ calls[k].kind = "create" => ~Loading /\ i \notin DOMAIN List

Loaded(i) ==
    \A k \in DOMAIN calls : calls[k].at = "ok" /\ calls[k].kind = "load" =>
        i \in DOMAIN calls[k].answer /\ calls[k].answer[i] = row[i]

\* The answer on its way gives the list the row.
Repairs(k, i) ==
    /\ calls[k].at = "ok" /\ calls[k].kind # "load" /\ calls[k].id = i
    /\ calls[k].kind = "create" <=> i \notin DOMAIN List
    /\ calls[k].kind # "create" => \E r : List[i] = <<r>> /\ (calls[k].kind = "deactivate" => Off(r) = row[i])

Listed(i) == ~Loading => Shows(i) \/ \E k \in DOMAIN calls : Repairs(k, i)

Tracked(i) == Single(i) /\ Told(i) /\ Loaded(i) /\ Listed(i)

ListInv == Tables /\ \A i \in DOMAIN row \ odd : Tracked(i)

-----------------------------------------------------------------------------

LEMMA TwiceOff ==
    ASSUME NEW r
    PROVE  Off(Off(r)) = Off(r)
BY Zenon DEF Off

\* A function with another value is a function still.
LEMMA TableExcept ==
    ASSUME NEW t, NEW i, NEW v
    PROVE  Table([t EXCEPT ![i] = v]) /\ DOMAIN [t EXCEPT ![i] = v] = DOMAIN t
           /\ \A j \in DOMAIN t : [t EXCEPT ![i] = v][j] = IF j = i THEN v ELSE t[j]
BY DEF Table

LEMMA TableAdded ==
    ASSUME NEW t, NEW i, NEW v
    PROVE  /\ Table(Added(t, i, v)) /\ DOMAIN Added(t, i, v) = DOMAIN t \union {i}
           /\ \A j \in DOMAIN t : i \notin DOMAIN t => Added(t, i, v)[j] = t[j]
BY DEF Table, Added

\* What becomes of a request that goes on.
LEMMA Fields ==
    ASSUME Inv, NEW k \in DOMAIN calls, NEW id, NEW at, NEW answer
    PROVE  LET c == calls[k]
               x == [c EXCEPT !.at = at, !.id = id, !.answer = answer]
               y == [c EXCEPT !.at = at, !.answer = answer]
               z == [c EXCEPT !.at = at]
           IN  /\ x.kind = c.kind /\ x.at = at /\ x.id = id /\ x.answer = answer
               /\ y.kind = c.kind /\ y.at = at /\ y.id = c.id /\ y.answer = answer
               /\ z.kind = c.kind /\ z.at = at /\ z.id = c.id /\ z.answer = c.answer
<1>1. PICK V : Shaped(V)
  BY DEF Inv
<1>2. calls[k] \in Request(V)
  BY <1>1, LenProperties DEF Shaped
<1> QED BY <1>2 DEF Request

\* The others stay.
LEMMA GoneOn ==
    ASSUME Inv, NEW k \in DOMAIN calls, NEW e, calls' = [calls EXCEPT ![k] = e]
    PROVE  /\ DOMAIN calls' = DOMAIN calls /\ Len(calls') = Len(calls) /\ calls'[k] = e
           /\ \A j \in DOMAIN calls : j # k => calls'[j] = calls[j]
<1>1. PICK V : Shaped(V)
  BY DEF Inv
<1>2. calls \in Seq(Request(V)) /\ k \in 1 .. Len(calls) /\ DOMAIN calls = 1 .. Len(calls)
  BY <1>1, LenProperties DEF Shaped
<1>3. /\ DOMAIN calls' = DOMAIN calls /\ calls'[k] = e
      /\ \A j \in DOMAIN calls : j # k => calls'[j] = calls[j]
  BY <1>2
<1>4. Len(calls') = Len(calls)
  BY <1>2, <1>3
<1> QED BY <1>3, <1>4

\* An answer was taken in: the others stay, in their order.
LEMMA TakenIn ==
    ASSUME Inv, NEW k \in DOMAIN calls, calls' = RemoveAt(calls, k)
    PROVE  /\ \A j \in DOMAIN calls' :
                \E i \in DOMAIN calls : i # k /\ calls'[j] = calls[i] /\ (k # 1 /\ i = 1 => j = 1)
           /\ \A i \in DOMAIN calls : i # k => \E j \in DOMAIN calls' : calls'[j] = calls[i]
<1>1. PICK V : Shaped(V)
  BY DEF Inv
<1>2. calls \in Seq(Request(V)) /\ Len(calls) \in Nat /\ DOMAIN calls = 1 .. Len(calls) /\ k \in 1 .. Len(calls)
  BY <1>1, LenProperties DEF Shaped
<1>a. Len(calls') = Len(calls) - 1 /\ DOMAIN calls' = 1 .. Len(calls) - 1
  BY <1>2, RemovalShape
<1>b. \A j \in DOMAIN calls' :
        LET i == IF j < k THEN j ELSE j + 1 IN
        j \in Int /\ i \in DOMAIN calls /\ i # k /\ calls'[j] = calls[i]
  BY <1>2, Removal
<1>3. /\ DOMAIN calls' = 1 .. Len(calls) - 1
      /\ \A j \in DOMAIN calls' :
            LET i == IF j < k THEN j ELSE j + 1 IN
            j \in Int /\ i \in DOMAIN calls /\ i # k /\ calls'[j] = calls[i]
  BY <1>a, <1>b
<1>4. ASSUME NEW j \in DOMAIN calls'
      PROVE  \E i \in DOMAIN calls : i # k /\ calls'[j] = calls[i] /\ (k # 1 /\ i = 1 => j = 1)
  <2> DEFINE i == IF j < k THEN j ELSE j + 1
  <2>1. i \in DOMAIN calls /\ i # k /\ calls'[j] = calls[i]
    BY <1>3
  <2>2. k # 1 /\ i = 1 => j = 1
    BY <1>2, <1>3
  <2> QED BY <2>1, <2>2
<1>5. ASSUME NEW i \in DOMAIN calls, i # k
      PROVE  \E j \in DOMAIN calls' : calls'[j] = calls[i]
  <2> DEFINE j == IF i < k THEN i ELSE i - 1
  <2>1. j \in DOMAIN calls' /\ (IF j < k THEN j ELSE j + 1) = i
    BY <1>2, <1>3, <1>5
  <2> QED BY <1>3, <2>1
<1> QED BY <1>4, <1>5

-----------------------------------------------------------------------------

\* The list stays, and the requests under way stay, go on or grow in number.
LEMMA TablesGo ==
    ASSUME Tables, items' = items, Table(row'), DOMAIN row \subseteq DOMAIN row', DOMAIN row' \subseteq Ids,
           DOMAIN calls \subseteq DOMAIN calls',
           \A k \in DOMAIN calls : calls'[k].kind = calls[k].kind,
           \A k \in DOMAIN calls' :
               \/ k \in DOMAIN calls /\ calls'[k] = calls[k]
               \/ calls'[k].at = "ok" /\ calls'[k].kind = "load" /\ calls'[k].answer = row
               \/ calls'[k].at = "ok" /\ calls'[k].kind # "load" /\ calls'[k].id \in DOMAIN row'
               \/ calls'[k].at = "ok" /\ calls'[k].kind \notin {"load", "create"}
               \/ calls'[k].at # "ok",
           \A k \in DOMAIN calls' : k \notin DOMAIN calls => calls'[k].kind # "load"
    PROVE  Tables'
<1>1. (DOMAIN List \subseteq DOMAIN row)' /\ (Loading \/ items # None)'
  BY DEF Tables, List, Loading
<1>2. ASSUME NEW k \in DOMAIN calls', calls'[k].kind = "load"
      PROVE  /\ k = 1
             /\ calls'[k].at = "ok" => Table(calls'[k].answer) /\ DOMAIN calls'[k].answer \subseteq DOMAIN row'
  BY <1>2 DEF Tables
<1>3. ASSUME NEW k \in DOMAIN calls', calls'[k].kind = "create", calls'[k].at = "ok"
      PROVE  calls'[k].id \in DOMAIN row'
  BY <1>3 DEF Tables
<1> QED BY <1>1, <1>2, <1>3 DEF Tables

\* An answer is taken in.
LEMMA TablesTaken ==
    ASSUME Inv, Tables, row' = row, NEW k \in DOMAIN calls, calls' = RemoveAt(calls, k),
           Table(items'), ~Table(None), DOMAIN items' \subseteq DOMAIN row
    PROVE  Tables'
<1>1. items' # None
  OBVIOUS
<1>2. (DOMAIN List \subseteq DOMAIN row)' /\ (Loading \/ items # None)'
  BY <1>1 DEF List
<1>3. ASSUME NEW j \in DOMAIN calls', calls'[j].kind = "load"
      PROVE  /\ j = 1
             /\ calls'[j].at = "ok" => Table(calls'[j].answer) /\ DOMAIN calls'[j].answer \subseteq DOMAIN row'
  <2>1. PICK i \in DOMAIN calls : i # k /\ calls'[j] = calls[i] /\ (k # 1 /\ i = 1 => j = 1)
    BY TakenIn
  <2>2. i = 1
    BY <1>3, <2>1 DEF Tables
  <2> QED BY <1>3, <2>1, <2>2 DEF Tables
<1>4. ASSUME NEW j \in DOMAIN calls', calls'[j].kind = "create", calls'[j].at = "ok"
      PROVE  calls'[j].id \in DOMAIN row'
  <2>1. PICK i \in DOMAIN calls : calls'[j] = calls[i]
    BY TakenIn
  <2> QED BY <1>4, <2>1 DEF Tables
<1> QED BY <1>2, <1>3, <1>4 DEF Tables


\* The list stays and the row too; a request that goes on is about another row,
\* or is the load.
LEMMA TrackedGoes ==
    ASSUME NEW i, Tracked(i), Single(i)', i \in DOMAIN row, i \in DOMAIN row', row'[i] = row[i], items' = items,
           DOMAIN calls \subseteq DOMAIN calls',
           \A k \in DOMAIN calls : calls'[k].kind = calls[k].kind,
           \A k \in DOMAIN calls' : k \notin DOMAIN calls => calls'[k].kind # "load",
           \A k \in DOMAIN calls' :
               \/ k \in DOMAIN calls /\ calls'[k] = calls[k]
               \/ /\ k \in DOMAIN calls => ~(calls[k].at = "ok" /\ calls[k].kind # "load" /\ calls[k].id = i)
                  /\ calls'[k].at = "ok" =>
                        IF calls'[k].kind = "load"
                        THEN i \in DOMAIN calls'[k].answer /\ calls'[k].answer[i] = row[i]
                        ELSE calls'[k].id # i
    PROVE  Tracked(i)'
<1>0. Loading' => Loading
  BY DEF Loading
<1>1. Told(i)'
  BY <1>0 DEF Tracked, Told, List
<1>2. Loaded(i)'
  BY DEF Tracked, Loaded
<1>3. Listed(i)'
  <2>1. SUFFICES ASSUME ~Loading' PROVE Shows(i)' \/ \E k \in DOMAIN calls' : Repairs(k, i)'
    BY DEF Listed
  <2>2. ~Loading
    BY <2>1 DEF Loading
  <2>3. CASE Shows(i)
    BY <2>3 DEF Shows, Rows, List
  <2>4. ASSUME NEW k \in DOMAIN calls, Repairs(k, i) PROVE Repairs(k, i)' /\ k \in DOMAIN calls'
    <3>1. calls'[k] = calls[k]
      BY <2>4 DEF Repairs
    <3> QED BY <2>4, <3>1 DEF Repairs, List
  <2> QED BY <2>2, <2>3, <2>4 DEF Tracked, Listed
<1> QED BY <1>1, <1>2, <1>3 DEF Tracked

\* A change to the row is answered.
LEMMA TrackedServed ==
    ASSUME NEW i, Tables, Single(i)', i \in DOMAIN row', items' = items, DOMAIN calls' = DOMAIN calls,
           NEW k \in DOMAIN calls, calls[k].at = "sent", calls[k].kind # "load",
           calls'[k].kind = calls[k].kind, calls'[k].at = "ok", calls'[k].id = i, calls'[k].answer = row'[i],
           \A j \in DOMAIN calls : j # k => calls'[j] = calls[j],
           calls[k].kind = "create" => i \notin DOMAIN row,
           calls[k].kind # "create" => i \in DOMAIN row /\ calls[k].id = i /\ Tracked(i),
           calls[k].kind = "deactivate" => row'[i] = Off(row[i]),
           Loading => i \in DOMAIN row /\ row'[i] = row[i]
    PROVE  Tracked(i)'
<1>1. Told(i)'
  <2>1. ASSUME NEW j \in DOMAIN calls', calls'[j].id = i
        PROVE  j = k
    BY <2>1 DEF Single
  <2>2. calls[k].kind = "create" => ~Loading' /\ (i \notin DOMAIN List)'
    BY DEF Tables, Loading, List
  <2> QED BY <2>1, <2>2, TwiceOff DEF Told
<1>2. Loaded(i)'
  BY DEF Tracked, Loaded, Loading
<1>3. Listed(i)'
  <2>1. SUFFICES ASSUME ~Loading' PROVE Repairs(k, i)'
    BY DEF Listed
  <2>2. ~Loading
    BY <2>1 DEF Loading
  <2>3. CASE calls[k].kind = "create"
    BY <2>3 DEF Tables, Repairs, List
  <2>4. CASE calls[k].kind # "create"
    <3>1. Shows(i)
      BY <2>2, <2>4 DEF Tracked, Listed, Repairs, Single
    <3>2. i \in DOMAIN List /\ List[i] = <<row[i]>>
      BY <3>1 DEF Shows, Rows
    <3>3. i \in DOMAIN List' /\ List'[i] = <<row[i]>>
      BY <3>2 DEF List
    <3>4. calls[k].kind = "deactivate" => Off(row[i]) = row'[i]
      OBVIOUS
    <3> QED BY <2>4, <3>3, <3>4 DEF Repairs
  <2> QED BY <2>3, <2>4
<1> QED BY <1>1, <1>2, <1>3 DEF Tracked

\* An answer is taken in: it leaves the row in the list, or puts it there.
LeftOrPut(k, i) ==
    /\ Loading' => Loading
    /\ Loading \/ calls[k].id = i \/ (i \in DOMAIN List' => i \in DOMAIN List)
    /\ \/ Loading' \/ Shows(i)'
       \/ /\ ~Loading /\ ~Repairs(k, i)
          /\ i \in DOMAIN List' <=> i \in DOMAIN List
          /\ List'[i] = List[i]

LEMMA TrackedTaken ==
    ASSUME Inv, NEW i, Tracked(i), Single(i)', row' = row, NEW k \in DOMAIN calls, calls' = RemoveAt(calls, k),
           LeftOrPut(k, i)
    PROVE  Tracked(i)'
<1>1. \A j \in DOMAIN calls' : \E l \in DOMAIN calls : l # k /\ calls'[j] = calls[l]
  BY TakenIn
<1>2. Told(i)'
  <2>1. ASSUME NEW j \in DOMAIN calls', calls'[j].at = "ok", calls'[j].kind = "create", calls'[j].id = i
        PROVE  ~Loading' /\ (i \notin DOMAIN List)'
    <3>1. PICK l \in DOMAIN calls : l # k /\ calls'[j] = calls[l]
      BY <1>1
    <3>2. ~Loading /\ i \notin DOMAIN List
      BY <2>1, <3>1 DEF Tracked, Told
    <3>3. calls[k].id # i
      BY <2>1, <3>1 DEF Tracked, Single
    <3> QED BY <3>2, <3>3 DEF LeftOrPut
  <2> QED BY <1>1, <2>1 DEF Tracked, Told
<1>3. Loaded(i)'
  BY <1>1 DEF Tracked, Loaded
<1>4. Listed(i)'
  <2>1. SUFFICES ASSUME ~Loading', ~Shows(i)', ~Loading, ~Repairs(k, i),
                        (i \in DOMAIN List)' <=> i \in DOMAIN List, List'[i] = List[i]
                 PROVE  \E j \in DOMAIN calls' : Repairs(j, i)'
    BY DEF Listed, LeftOrPut
  <2>2. ~Shows(i)
    BY <2>1 DEF Shows, Rows
  <2>3. PICK l \in DOMAIN calls : Repairs(l, i)
    BY <2>1, <2>2 DEF Tracked, Listed
  <2>4. PICK j \in DOMAIN calls' : calls'[j] = calls[l]
    BY <2>1, <2>3, TakenIn
  <2>5. Repairs(j, i)'
    BY <2>1, <2>3, <2>4 DEF Repairs
  <2> QED BY <2>5
<1> QED BY <1>2, <1>3, <1>4 DEF Tracked


-----------------------------------------------------------------------------

LEMMA Uncrossed ==
    ASSUME Inv', NEW i \in Ids, i \notin Crossed'
    PROVE  Single(i)'
<1>1. PICK V : Shaped(V)'
  BY DEF Inv
<1>2. DOMAIN calls' \subseteq Int
  BY <1>1, LenProperties DEF Shaped
<1>3. \A j, k \in DOMAIN calls' : j < k => ~(calls'[j].id = i /\ calls'[k].id = i)
  BY DEF Crossed
<1>4. \A j, k \in DOMAIN calls' : j = k \/ j < k \/ k < j
  BY <1>2
<1> QED BY <1>3, <1>4 DEF Single

\* The row is followed, and nothing happens to it that the list will not hear of.
Heard(i) == i \in DOMAIN row' /\ i \notin odd /\ i \notin Missed /\ Single(i)'

\* The screen, and another administrator.
LEMMA ListScreen ==
    ASSUME Inv, ListInv,
           \/ UNCHANGED <<row, items, calls>>
           \/ OtherEdits
    PROVE  Tables' /\ \A i : Heard(i) => Tracked(i)'
<1>1. items' = items /\ calls' = calls /\ Table(row') /\ DOMAIN row' = DOMAIN row
  <2>1. CASE UNCHANGED <<row, items, calls>>
    BY <2>1 DEF ListInv, Tables
  <2>2. CASE OtherEdits
    <3>1. PICK i \in DOMAIN row : \/ row' = [row EXCEPT ![i].active = ~@]
                                  \/ \E price \in Prices : row' = [row EXCEPT ![i].price = price]
      BY <2>2 DEF OtherEdits
    <3>2. PICK v : row' = [row EXCEPT ![i] = v]
      BY <3>1
    <3>3. Table(row') /\ DOMAIN row' = DOMAIN row
      BY <3>2, TableExcept
    <3> QED BY <2>2, <3>3 DEF OtherEdits
  <2> QED BY <2>1, <2>2
<1>2. Tables'
  BY <1>1, TablesGo DEF ListInv, Tables
<1>3. ASSUME NEW i, Heard(i)
      PROVE  Tracked(i)'
  <2>1. ~Served
    BY <1>1 DEF Served, Moves
  <2>2. i \notin Written
    BY <1>3, <2>1 DEF Heard, Missed
  <2>3. i \in DOMAIN row /\ row'[i] = row[i]
    BY <1>3, <2>2 DEF Heard, Written
  <2> QED BY <1>1, <1>3, <2>3, TrackedGoes DEF Heard, ListInv
<1> QED BY <1>2, <1>3

LEMMA ListSent ==
    ASSUME Inv, ListInv, NEW c, calls' = Append(calls, c), c.at = "sent", c.kind # "load",
           UNCHANGED <<row, items>>
    PROVE  Tables' /\ \A i : Heard(i) => Tracked(i)'
<1>1. /\ Len(calls) \in Nat /\ DOMAIN calls = 1 .. Len(calls) /\ DOMAIN calls' = 1 .. Len(calls) + 1
      /\ \A k \in 1 .. Len(calls) : calls'[k] = calls[k]
      /\ calls'[Len(calls) + 1] = c
  <2>1. PICK V : Shaped(V)
    BY DEF Inv
  <2> DEFINE S == Request(V) \union {c}
  <2>2. calls \in Seq(S) /\ c \in S
    BY <2>1, SeqGrows DEF Shaped
  <2> HIDE DEF S
  <2>3. /\ calls' \in Seq(S) /\ Len(calls') = Len(calls) + 1
        /\ \A k \in 1 .. Len(calls) : calls'[k] = calls[k]
        /\ calls'[Len(calls) + 1] = c
    BY <2>2, AppendProperties
  <2> QED BY <2>2, <2>3, LenProperties
<1>2. /\ DOMAIN calls \subseteq DOMAIN calls'
      /\ \A k \in DOMAIN calls' : (k \in DOMAIN calls /\ calls'[k] = calls[k]) \/ (k \notin DOMAIN calls /\ calls'[k] = c)
      /\ \A k \in DOMAIN calls : calls'[k] = calls[k]
  BY <1>1
<1>3. Tables'
  BY <1>2, TablesGo DEF ListInv, Tables
<1>4. ASSUME NEW i, Heard(i)
      PROVE  Tracked(i)'
  BY <1>2, <1>4, TrackedGoes DEF Heard, ListInv
<1> QED BY <1>3, <1>4

LEMMA ListLoad ==
    ASSUME Inv, ListInv, NEW k \in DOMAIN calls, ServeLoad(k)
    PROVE  Tables' /\ \A i : Heard(i) => Tracked(i)'
<1> DEFINE e == [calls[k] EXCEPT !.at = "ok", !.answer = row]
<1>1. calls' = [calls EXCEPT ![k] = e]
  BY DEF ServeLoad
<1>a. e.kind = calls[k].kind /\ e.at = "ok" /\ e.answer = row
  BY Fields
<1> HIDE DEF e
<1>2. /\ DOMAIN calls' = DOMAIN calls
      /\ calls'[k].kind = calls[k].kind /\ calls'[k].at = "ok" /\ calls'[k].answer = row
      /\ \A j \in DOMAIN calls : j # k => calls'[j] = calls[j]
  BY <1>1, <1>a, GoneOn
<1>3. calls[k].kind = "load" /\ calls[k].at = "sent" /\ UNCHANGED <<row, items>>
  BY DEF ServeLoad
<1>4. Tables'
  BY <1>2, <1>3, TablesGo DEF ListInv, Tables
<1>5. ASSUME NEW i, Heard(i)
      PROVE  Tracked(i)'
  BY <1>2, <1>3, <1>5, TrackedGoes DEF Heard, ListInv
<1> QED BY <1>4, <1>5

\* A request is lost, served or not.
LEMMA ListLose ==
    ASSUME Inv, ListInv, NEW k \in DOMAIN calls, Lose(k)
    PROVE  Tables' /\ \A i \in Ids : Heard(i) => Tracked(i)'
<1> DEFINE e == [calls[k] EXCEPT !.at = "failed"]
<1>1. calls' = [calls EXCEPT ![k] = e] /\ UNCHANGED <<row, items>>
  BY DEF Lose
<1>a. e.kind = calls[k].kind /\ e.at = "failed"
  BY Fields
<1> HIDE DEF e
<1>2. /\ DOMAIN calls' = DOMAIN calls /\ Len(calls') = Len(calls)
      /\ calls'[k].kind = calls[k].kind /\ calls'[k].at = "failed"
      /\ \A j \in DOMAIN calls : j # k => calls'[j] = calls[j]
  BY <1>1, <1>a, GoneOn
<1>3. Tables'
  BY <1>1, <1>2, TablesGo DEF ListInv, Tables
<1>4. ASSUME NEW i \in Ids, Heard(i)
      PROVE  Tracked(i)'
  <2>1. calls[k].at = "ok" => calls[k].id # i
    <3>1. i # None
      BY CatalogViewAssumption
    <3>2. calls[k].at = "ok" => Moves(k, "ok", "failed")
      BY <1>2 DEF Moves
    <3> QED BY <1>4, <3>1, <3>2 DEF Heard, Missed
  <2> QED BY <1>1, <1>2, <1>4, <2>1, TrackedGoes DEF Heard, ListInv
<1> QED BY <1>3, <1>4


\* A change is answered.
LEMMA ListChanged ==
    ASSUME Inv, ListInv, NEW k \in DOMAIN calls, calls[k].at = "sent", calls[k].kind # "load",
           NEW table, NEW i, Answer(k, table, i), Table(table),
           DOMAIN row \subseteq DOMAIN table, DOMAIN table \subseteq DOMAIN row \union {i}, DOMAIN table \subseteq Ids,
           \A j \in DOMAIN row : j # i => table[j] = row[j],
           calls[k].kind = "create" => i \in DOMAIN table /\ i \notin DOMAIN row,
           calls[k].kind # "create" => i = calls[k].id /\ DOMAIN table = DOMAIN row,
           calls[k].kind = "deactivate" /\ i \in DOMAIN row => table[i] = Off(row[i])
    PROVE  Tables' /\ \A x : Heard(x) => Tracked(x)'
<1> DEFINE e == [calls[k] EXCEPT !.at = "ok", !.id = i, !.answer = table[i]]
<1>1. calls' = [calls EXCEPT ![k] = e] /\ row' = table /\ items' = items
  BY DEF Answer
<1>a. e.kind = calls[k].kind /\ e.at = "ok" /\ e.id = i /\ e.answer = table[i]
  BY Fields
<1> HIDE DEF e
<1>2. /\ DOMAIN calls' = DOMAIN calls
      /\ calls'[k].kind = calls[k].kind /\ calls'[k].at = "ok" /\ calls'[k].id = i
      /\ calls'[k].answer = row'[i]
      /\ \A j \in DOMAIN calls : j # k => calls'[j] = calls[j]
  BY <1>1, <1>a, GoneOn
<1>3. Tables'
  BY <1>1, <1>2, TablesGo DEF ListInv, Tables
<1>4. ASSUME NEW x, Heard(x)
      PROVE  Tracked(x)'
  <2>1. CASE x # i
    <3>1. x \in DOMAIN row /\ row'[x] = row[x] /\ Tracked(x)
      BY <1>1, <1>4, <2>1 DEF Heard, ListInv
    <3> QED BY <1>1, <1>2, <1>4, <2>1, <3>1, TrackedGoes DEF Heard
  <2>2. CASE x = i
    <3>1. Loading => i \in DOMAIN row /\ row'[i] = row[i]
      BY <1>4, <2>2 DEF Heard, Missed, Written
    <3>2. i \in DOMAIN row => Tracked(i)
      BY <1>4, <2>2 DEF Heard, ListInv
    <3>3. i \in DOMAIN row' /\ Single(i)'
      BY <1>4, <2>2 DEF Heard
    <3>4. Tables /\ (calls[k].kind # "create" => i \in DOMAIN row /\ calls[k].id = i /\ Tracked(i))
      BY <1>1, <3>2, <3>3 DEF ListInv
    <3>5. calls[k].kind = "deactivate" => row'[i] = Off(row[i])
      BY <1>1, <3>4
    <3> QED BY <1>1, <1>2, <2>2, <3>1, <3>3, <3>4, <3>5, TrackedServed
  <2> QED BY <2>1, <2>2
<1> QED BY <1>3, <1>4

LEMMA ListServed ==
    ASSUME Inv, ListInv, NEW k \in DOMAIN calls, ServeCreate(k) \/ ServeUpdate(k) \/ ServeActive(k)
    PROVE  Tables' /\ \A x : Heard(x) => Tracked(x)'
<1>0. Table(row) /\ DOMAIN row \subseteq Ids
  BY DEF ListInv, Tables
<1>1. CASE ServeCreate(k)
  <2>1. PICK i \in Ids \ DOMAIN row : Answer(k, Added(row, i, Active(calls[k].data)), i)
    BY <1>1 DEF ServeCreate
  <2> DEFINE new == Active(calls[k].data)
             table == Added(row, i, new)
  <2>2. /\ Table(table) /\ DOMAIN table = DOMAIN row \union {i}
        /\ \A j \in DOMAIN row : table[j] = row[j]
    <3>1. \A j \in DOMAIN row : j # i
      OBVIOUS
    <3> HIDE DEF new
    <3>2. /\ Table(Added(row, i, new)) /\ DOMAIN Added(row, i, new) = DOMAIN row \union {i}
          /\ \A j \in DOMAIN row : i \notin DOMAIN row => Added(row, i, new)[j] = row[j]
      BY TableAdded
    <3> HIDE DEF table
    <3>3. table = Added(row, i, new)
      BY DEF table
    <3> QED BY <3>1, <3>2, <3>3
  <2> HIDE DEF table
  <2>3. Answer(k, table, i)
    BY <2>1 DEF table
  <2> QED BY <1>0, <1>1, <2>2, <2>3, ListChanged DEF ServeCreate
<1>2. ASSUME NEW i, NEW v, Answer(k, [row EXCEPT ![i] = v], i), i = calls[k].id,
             calls[k].kind \notin {"load", "create"}, calls[k].at = "sent",
             calls[k].kind = "deactivate" => v = Off(row[i])
      PROVE  Tables' /\ \A x : Heard(x) => Tracked(x)'
  <2> DEFINE table == [row EXCEPT ![i] = v]
  <2>1. /\ Table(table) /\ DOMAIN table = DOMAIN row
        /\ \A j \in DOMAIN row : table[j] = IF j = i THEN v ELSE row[j]
    BY TableExcept
  <2> HIDE DEF table
  <2>2. Answer(k, table, i)
    BY <1>2 DEF table
  <2> QED BY <1>0, <1>2, <2>1, <2>2, ListChanged
<1>3. CASE ServeUpdate(k)
  <2> DEFINE i == calls[k].id
  <2>1. PICK v : Answer(k, [row EXCEPT ![i] = v], i)
    BY <1>3 DEF ServeUpdate
  <2> QED BY <1>2, <1>3, <2>1 DEF ServeUpdate
<1>4. CASE ServeActive(k) /\ calls[k].kind = "deactivate"
  <2> DEFINE i == calls[k].id
  <2>1. Answer(k, [row EXCEPT ![i].active = FALSE], i)
    <3>1. (calls[k].kind = "reactivate") = FALSE
      BY <1>4
    <3> QED BY <1>4, <3>1 DEF ServeActive
  <2>2. [row EXCEPT ![i].active = FALSE] = [row EXCEPT ![i] = Off(row[i])]
    BY DEF Off
  <2> QED BY <1>2, <1>4, <2>1, <2>2 DEF ServeActive
<1>5. CASE ServeActive(k) /\ calls[k].kind = "reactivate"
  <2> DEFINE i == calls[k].id
  <2>1. PICK v : Answer(k, [row EXCEPT ![i] = v], i)
    BY <1>5 DEF ServeActive
  <2> QED BY <1>2, <1>5, <2>1 DEF ServeActive
<1> QED BY <1>1, <1>3, <1>4, <1>5 DEF ServeActive


\* The answer to the load.
LEMMA ListLoaded ==
    ASSUME Inv, ListInv, ~Table(None), NEW k \in DOMAIN calls, Arrive(k), calls[k].kind = "load"
    PROVE  Tables' /\ \A i : Heard(i) => Tracked(i)'
<1>1. calls' = RemoveAt(calls, k) /\ row' = row /\ items' = Once(calls[k].answer) /\ calls[k].at = "ok"
  BY DEF Arrive
<1>2. /\ Table(items') /\ DOMAIN items' \subseteq DOMAIN row
      /\ \A i \in DOMAIN calls[k].answer : i \in DOMAIN items' /\ items'[i] = <<calls[k].answer[i]>>
  BY <1>1 DEF ListInv, Tables, Table, Once
<1>3. Tables'
  BY <1>1, <1>2, TablesTaken DEF ListInv
<1>4. ASSUME NEW i, Heard(i)
      PROVE  Tracked(i)'
  <2>1. Tracked(i) /\ i \in DOMAIN row
    BY <1>1, <1>4 DEF Heard, ListInv
  <2>2. i \in DOMAIN items' /\ items'[i] = <<row[i]>>
    BY <1>1, <1>2, <2>1 DEF Tracked, Loaded
  <2>3. items' # None
    BY <1>2
  <2>4. Shows(i)'
    BY <1>1, <2>2, <2>3 DEF Shows, Rows, List
  <2>5. Loading
    BY DEF Loading
  <2>6. LeftOrPut(k, i)
    BY <2>4, <2>5 DEF LeftOrPut
  <2> QED BY <1>1, <1>4, <2>1, <2>6, TrackedTaken DEF Heard
<1> QED BY <1>3, <1>4

\* The answer to a change: the list has the row as the answer has it.
LEMMA ListPatched ==
    ASSUME Inv, ListInv, ~Table(None), NEW k \in DOMAIN calls, Arrive(k), calls[k].kind # "load"
    PROVE  Tables' /\ \A i : Heard(i) => Tracked(i)'
<1> DEFINE n == calls[k].id
           answer == calls[k].answer
<1>1. /\ calls' = RemoveAt(calls, k) /\ row' = row /\ calls[k].at = "ok"
      /\ items' = CASE calls[k].kind = "create"     -> Appended(n, answer)
                    [] calls[k].kind = "deactivate" -> Retired(n)
                    [] OTHER                        -> Patched(n, answer)
  BY DEF Arrive
<1>2. /\ Table(items') /\ DOMAIN items' = DOMAIN List \union (IF calls[k].kind = "create" THEN {n} ELSE {})
      /\ \A j \in DOMAIN List : j # n => items'[j] = List[j]
      /\ n \notin DOMAIN List /\ calls[k].kind = "create" => items'[n] = <<answer>>
      /\ n \in DOMAIN List /\ calls[k].kind # "create" =>
            \A r : List[n] = <<r>> =>
                items'[n] = <<IF calls[k].kind = "deactivate" THEN Off(r) ELSE answer>>
  <2>1. CASE calls[k].kind = "create"
    <3>1. items' = Appended(n, answer)
      BY <1>1, <2>1
    <3> HIDE DEF n, answer
    <3>2. /\ Table(items') /\ DOMAIN items' = DOMAIN List \union {n}
          /\ \A j \in DOMAIN List : j # n => items'[j] = List[j]
          /\ items'[n] = Append(Rows(n), answer)
      BY <3>1 DEF Table, Appended
    <3>3. n \notin DOMAIN List => items'[n] = <<answer>>
      BY <3>2 DEF Rows
    <3> QED BY <2>1, <3>2, <3>3
  <2>2. CASE calls[k].kind = "deactivate"
    <3>1. items' = Retired(n)
      BY <1>1, <2>2
    <3> HIDE DEF n, answer
    <3>2. /\ Table(items') /\ DOMAIN items' = DOMAIN List
          /\ \A j \in DOMAIN List : items'[j] =
                IF j = n THEN [m \in DOMAIN List[j] |-> [List[j][m] EXCEPT !.active = FALSE]] ELSE List[j]
      BY <3>1 DEF Table, Retired
    <3>3. ASSUME NEW r, n \in DOMAIN List, List[n] = <<r>>
          PROVE  items'[n] = <<Off(r)>>
      <4>1. items'[n] = [m \in DOMAIN <<r>> |-> [<<r>>[m] EXCEPT !.active = FALSE]]
        BY <3>2, <3>3
      <4>2. <<r>> = [m \in {1} |-> r] /\ DOMAIN <<r>> = {1} /\ <<r>>[1] = r
        OBVIOUS
      <4>3. items'[n] = [m \in {1} |-> Off(r)]
        BY <4>1, <4>2 DEF Off
      <4>4. <<Off(r)>> = [m \in {1} |-> Off(r)]
        OBVIOUS
      <4> QED BY <4>3, <4>4
    <3> QED BY <2>2, <3>2, <3>3
  <2>3. CASE calls[k].kind \notin {"create", "deactivate"}
    <3>1. items' = Patched(n, answer)
      BY <1>1, <2>3
    <3> HIDE DEF n, answer
    <3>2. /\ Table(items') /\ DOMAIN items' = DOMAIN List
          /\ \A j \in DOMAIN List : items'[j] =
                IF j = n THEN [m \in DOMAIN List[j] |-> answer] ELSE List[j]
      BY <3>1 DEF Table, Patched
    <3>3. ASSUME NEW r, n \in DOMAIN List, List[n] = <<r>>
          PROVE  items'[n] = <<answer>>
      <4>1. items'[n] = [m \in DOMAIN <<r>> |-> answer]
        BY <3>2, <3>3
      <4> QED BY <4>1
    <3> QED BY <2>3, <3>2, <3>3
  <2> QED BY <2>1, <2>2, <2>3
<1>3. DOMAIN items' \subseteq DOMAIN row
  BY <1>1, <1>2 DEF ListInv, Tables
<1>4. Tables'
  BY <1>1, <1>2, <1>3, TablesTaken DEF ListInv
<1>5. List' = items'
  BY <1>2 DEF List
<1>7. Loading' => Loading
  BY <1>1, TakenIn DEF Loading
<1> HIDE DEF n, answer
<1>6. ASSUME NEW i, Heard(i)
      PROVE  Tracked(i)'
  <2>1. Tracked(i) /\ i \in DOMAIN row /\ Single(i)'
    BY <1>1, <1>6 DEF Heard, ListInv
  <2>2. CASE Loading
    <3>1. PICK l \in DOMAIN calls : calls[l].kind = "load"
      BY <2>2 DEF Loading
    <3>2. Loading'
      BY <1>1, <3>1, TakenIn DEF Loading
    <3>3. LeftOrPut(k, i)
      BY <2>2, <3>2 DEF LeftOrPut
    <3> QED BY <1>1, <2>1, <3>3, TrackedTaken
  <2>3. CASE ~Loading /\ i # n
    <3>1. ~Repairs(k, i)
      BY <2>3 DEF Repairs, n
    <3>2. ((i \in DOMAIN List)' <=> i \in DOMAIN List)
      BY <1>2, <1>5, <2>3
    <3>3. CASE i \in DOMAIN List
      <4>1. List'[i] = List[i]
        BY <1>2, <1>5, <2>3, <3>3
      <4>2. LeftOrPut(k, i)
        BY <1>7, <2>3, <3>1, <3>2, <4>1 DEF LeftOrPut
      <4> QED BY <1>1, <2>1, <4>2, TrackedTaken
    <3>4. CASE i \notin DOMAIN List
      \* The row is not in the list: an answer will put it there.
      <4>1. PICK l \in DOMAIN calls : Repairs(l, i)
        BY <2>1, <2>3, <3>4 DEF Tracked, Listed, Shows, Rows
      <4>2. PICK j \in DOMAIN calls' : calls'[j] = calls[l]
        BY <1>1, <3>1, <4>1, TakenIn
      <4>3. calls[l].kind = "create"
        BY <3>4, <4>1 DEF Repairs
      <4>4. Repairs(j, i)'
        BY <3>2, <3>4, <4>1, <4>2, <4>3 DEF Repairs
      <4>5. \A x \in DOMAIN calls' : \E y \in DOMAIN calls : calls'[x] = calls[y]
        BY <1>1, TakenIn
      <4>6. Told(i)'
        BY <1>1, <1>7, <2>1, <2>3, <3>2, <3>4, <4>5 DEF Tracked, Told
      <4>7. Loaded(i)' /\ Listed(i)'
        BY <1>1, <2>1, <4>4, <4>5 DEF Tracked, Loaded, Listed
      <4> QED BY <2>1, <4>6, <4>7 DEF Tracked
    <3> QED BY <3>3, <3>4
  <2>4. CASE ~Loading /\ i = n
    <3>1. answer = row[i] /\ (calls[k].kind = "deactivate" => Off(row[i]) = row[i])
      BY <1>1, <2>1, <2>4 DEF Tracked, Told, n, answer
    <3>2. Shows(i) \/ Repairs(k, i)
      BY <2>1, <2>4 DEF Tracked, Listed, Repairs, Single, n
    \* A row that is shown is not being created.
    <3>3. Shows(i) => i \in DOMAIN List /\ List[i] = <<row[i]>> /\ calls[k].kind # "create"
      BY <1>1, <2>1, <2>4 DEF Shows, Rows, Tracked, Told, n
    <3>4. i \in DOMAIN items' /\ items'[i] = <<row[i]>>
      <4>1. CASE Shows(i)
        BY <1>2, <2>4, <3>1, <3>3, <4>1
      <4>2. CASE Repairs(k, i) /\ calls[k].kind = "create"
        BY <1>2, <2>4, <3>1, <4>2 DEF Repairs
      <4>3. CASE Repairs(k, i) /\ calls[k].kind # "create"
        <5>1. PICK r : List[i] = <<r>> /\ (calls[k].kind = "deactivate" => Off(r) = row[i])
          BY <4>3 DEF Repairs
        <5>2. i \in DOMAIN List
          BY <4>3 DEF Repairs
        <5> QED BY <1>2, <2>4, <3>1, <4>3, <5>1, <5>2
      <4> QED BY <3>2, <4>1, <4>2, <4>3
    <3>5. Shows(i)'
      BY <1>1, <1>5, <3>4 DEF Shows, Rows
    <3>6. LeftOrPut(k, i)
      BY <1>7, <2>4, <3>5 DEF LeftOrPut, n
    <3> QED BY <1>1, <2>1, <3>6, TrackedTaken
  <2> QED BY <2>2, <2>3, <2>4
<1> QED BY <1>4, <1>6


\* A request failed: the list stays, or is empty where the load failed.
LEMMA ListFailed ==
    ASSUME Inv, ListInv, ~Table(None), NEW k \in DOMAIN calls, Fail(k)
    PROVE  Tables' /\ \A i : Heard(i) => Tracked(i)'
<1>1. /\ calls' = RemoveAt(calls, k) /\ row' = row /\ calls[k].at = "failed"
      /\ items' = IF calls[k].kind = "load" THEN << >> ELSE items
  BY DEF Fail
<1>2. CASE calls[k].kind = "load"
  <2>1. Table(items') /\ DOMAIN items' = {}
    BY <1>1, <1>2 DEF Table
  <2>2. Tables'
    BY <1>1, <2>1, TablesTaken DEF ListInv
  <2>3. DOMAIN row' \subseteq Missed
    BY <1>1, <1>2 DEF Missed
  <2> QED BY <2>2, <2>3 DEF Heard
<1>3. CASE calls[k].kind # "load"
  <2>1. items' = items /\ List' = List
    BY <1>1, <1>3 DEF List
  <2>2. Loading => Loading'
    BY <1>1, <1>3, TakenIn DEF Loading
  <2>3. Tables'
    <3>1. ASSUME NEW j \in DOMAIN calls', calls'[j].kind = "load"
          PROVE  /\ j = 1
                 /\ calls'[j].at = "ok" => Table(calls'[j].answer) /\ DOMAIN calls'[j].answer \subseteq DOMAIN row'
      <4>1. PICK i \in DOMAIN calls : i # k /\ calls'[j] = calls[i] /\ (k # 1 /\ i = 1 => j = 1)
        BY <1>1, TakenIn
      <4>2. i = 1
        BY <3>1, <4>1 DEF ListInv, Tables
      <4> QED BY <1>1, <3>1, <4>1, <4>2 DEF ListInv, Tables
    <3>2. ASSUME NEW j \in DOMAIN calls', calls'[j].kind = "create", calls'[j].at = "ok"
          PROVE  calls'[j].id \in DOMAIN row'
      <4>1. PICK i \in DOMAIN calls : calls'[j] = calls[i]
        BY <1>1, TakenIn
      <4> QED BY <1>1, <3>2, <4>1 DEF ListInv, Tables
    <3> QED BY <1>1, <2>1, <2>2, <3>1, <3>2 DEF ListInv, Tables
  <2>4. ASSUME NEW i, Heard(i)
        PROVE  Tracked(i)'
    <3>1. Tracked(i) /\ Single(i)'
      BY <1>1, <2>4 DEF Heard, ListInv
    <3>2. ~Repairs(k, i)
      BY <1>1 DEF Repairs
    <3>3. Loading' => Loading
      BY <1>1, TakenIn DEF Loading
    <3>4. Loading' \/ ~Loading
      BY <2>2
    <3>5. LeftOrPut(k, i)
      BY <2>1, <3>2, <3>3, <3>4 DEF LeftOrPut
    <3> QED BY <1>1, <3>1, <3>5, TrackedTaken
  <2> QED BY <2>3, <2>4
<1> QED BY <1>2, <1>3

\* A row that is no longer odd was not, or is shown with no request under way.
LEMMA OddStep ==
    ASSUME HNext, NEW i, i \notin odd'
    PROVE  (i \notin odd /\ i \notin Missed /\ i \notin Crossed') \/ (calls' = << >> /\ Shows(i)')
BY DEF HNext

\* The list follows the table through every step of the page.
LEMMA ListStep ==
    ASSUME Inv, ListInv, ~Table(None), [HNext]_hvars
    PROVE  ListInv'
<1>0. Inv'
  BY InvStep
<1>1. PICK V : Shaped(V)
  BY DEF Inv
<1>2. Tables' /\ \A i \in Ids : Heard(i) => Tracked(i)'
  <2>1. CASE UNCHANGED hvars
    BY <2>1, ListScreen DEF hvars, vars
  <2>2. CASE OpenCreateForm \/ TypeInForm \/ CancelForm \/ SetFilter \/ OtherEdits
    BY <2>2, ListScreen DEF OpenCreateForm, TypeInForm, CancelForm, SetFilter
  <2>3. ASSUME NEW i \in Ids, OpenEditForm(i)
        PROVE  Tables' /\ \A x : Heard(x) => Tracked(x)'
    BY <2>3, ListScreen DEF OpenEditForm
  <2>4. CASE Save
    <3> DEFINE c == Call(screen.form.mode, screen.form.id, Payload(screen.form.data))
    <3>1. calls' = Append(calls, c) /\ UNCHANGED <<row, items>> /\ screen.form.mode # "closed"
      BY <2>4 DEF Save, Send
    <3>2. c.at = "sent" /\ c.kind = screen.form.mode
      BY DEF Call
    <3>3. screen.form.mode # "load"
      BY <1>1 DEF Shaped, Form, Screen
    <3> HIDE DEF c
    <3> QED BY <3>1, <3>2, <3>3, ListSent
  <2>5. ASSUME NEW i \in Ids, Deactivate(i) \/ Reactivate(i)
        PROVE  Tables' /\ \A x : Heard(x) => Tracked(x)'
    <3>1. PICK kind \in {"deactivate", "reactivate"} :
            calls' = Append(calls, Call(kind, i, None)) /\ UNCHANGED <<row, items>>
      BY <2>5 DEF Deactivate, Reactivate, Send
    <3> DEFINE c == Call(kind, i, None)
    <3>2. c.at = "sent" /\ c.kind # "load"
      BY DEF Call
    <3> HIDE DEF c
    <3>3. calls' = Append(calls, c)
      BY <3>1 DEF c
    <3> QED BY <3>1, <3>2, <3>3, ListSent
  <2>6. ASSUME NEW k \in DOMAIN calls,
               \/ ServeLoad(k) \/ ServeCreate(k) \/ ServeUpdate(k) \/ ServeActive(k)
               \/ Lose(k) \/ Arrive(k) \/ Fail(k)
        PROVE  Tables' /\ \A i \in Ids : Heard(i) => Tracked(i)'
    BY <2>6, ListLoad, ListServed, ListLose, ListLoaded, ListPatched, ListFailed
  <2> QED BY <2>1, <2>2, <2>3, <2>4, <2>5, <2>6 DEF HNext, Next
<1>3. ASSUME NEW i \in DOMAIN row', i \notin odd'
      PROVE  Tracked(i)'
  <2>1. i \in Ids
    BY <1>2, <1>3 DEF Tables
  <2>2. CASE UNCHANGED hvars
    <3>1. Tracked(i)
      BY <1>3, <2>2 DEF ListInv, hvars, vars
    <3> QED BY <2>2, <3>1 DEF hvars, vars, Tracked, Single, Told, Loaded, Listed, Loading, Repairs, Shows, Rows, List
  <2>3. CASE HNext
    <3>1. CASE i \notin odd /\ i \notin Missed /\ i \notin Crossed'
      <4>1. Single(i)'
        BY <1>0, <2>1, <3>1, Uncrossed
      <4> QED BY <1>2, <1>3, <2>1, <3>1, <4>1 DEF Heard
    <3>2. CASE calls' = << >> /\ Shows(i)'
      <4>1. DOMAIN calls' = {}
        BY <3>2
      <4> QED BY <3>2, <4>1 DEF Tracked, Single, Told, Loaded, Listed
    <3> QED BY <1>3, <2>3, <3>1, <3>2, OddStep
  <2> QED BY <2>2, <2>3
<1> QED BY <1>2, <1>3 DEF ListInv

\* The list is being loaded, and there is one row.
LEMMA ListInitially == HInit => ListInv
<1> SUFFICES ASSUME HInit PROVE ListInv
  OBVIOUS
<1>1. PICK i, new : i \in Ids /\ row = [j \in {i} |-> new]
  BY DEF HInit, Init
<1>2. Table(row) /\ DOMAIN row \subseteq Ids
  BY <1>1 DEF Table
<1> DEFINE c == Call("load", None, None)
<1>3. DOMAIN calls = {1} /\ calls[1] = c /\ items = None
  BY DEF HInit, Init, Visited
<1>4. c.kind = "load" /\ c.at = "sent"
  BY DEF Call
<1> HIDE DEF c
<1>5. Loading
  BY <1>3, <1>4 DEF Loading
<1>6. DOMAIN List = {}
  BY <1>3 DEF List
<1>7. Tables
  BY <1>2, <1>3, <1>4, <1>5, <1>6 DEF Tables
<1>8. ASSUME NEW x PROVE Tracked(x)
  BY <1>3, <1>4, <1>5 DEF Tracked, Single, Told, Loaded, Listed
<1> QED BY <1>7, <1>8 DEF ListInv

\* ListMatchesDatabase (UC05): once every answer is in, the administrator's list
\* shows each row of the table once and as the table has it, but for the rows the list could
\* not hear of, for any catalogue and any number of requests at once.  None is no
\* list, as the screen tells one that is loading from one that is there.
THEOREM ListAlwaysMatches ==
    ASSUME ~Table(None)
    PROVE  BSpec => []ListMatchesDatabase
<1>1. ListInv => ListMatchesDatabase
  <2> SUFFICES ASSUME ListInv, calls = << >>, NEW i \in DOMAIN row, i \notin odd
               PROVE  Shows(i)
    BY DEF ListMatchesDatabase
  <2>1. DOMAIN calls = {}
    OBVIOUS
  <2>2. ~Loading /\ Tracked(i)
    BY <2>1 DEF ListInv, Loading
  <2> QED BY <2>1, <2>2 DEF Tracked, Listed
<1>2. BInit => Inv /\ ListInv
  BY Initially, ListInitially DEF BInit, HInit
<1>3. Inv /\ ListInv /\ [BNext]_bvars => Inv' /\ ListInv'
  <2> SUFFICES ASSUME Inv, ListInv, [BNext]_bvars PROVE Inv' /\ ListInv'
    OBVIOUS
  <2>1. [HNext]_hvars
    BY DEF BNext, bvars
  <2> QED BY <2>1, InvStep, ListStep
<1> QED BY <1>1, <1>2, <1>3, PTL DEF BSpec
=============================================================================
