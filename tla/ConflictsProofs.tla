-------------------------- MODULE ConflictsProofs --------------------------
(***************************************************************************)
(* Theorems about module Conflicts, for any reports, answers, values,      *)
(* analyses and bounds.                                                    *)
(*                                                                         *)
(* A transaction composes several changes of the database; the lemmas say  *)
(* of each what it does to the rows of a case, to the fragments, to the    *)
(* case itself, to the fact and to the analyses.                           *)
(***************************************************************************)
EXTENDS Conflicts, FiniteSetTheorems, WellFoundedInduction, TLAPS

-----------------------------------------------------------------------------
(***************************************************************************)
(* The rows of one case                                                    *)
(***************************************************************************)
Fragments == [Source -> Fragment]

\* Row e is of a version that its source has or had; if it is the present one, it is current
\* unless the source is withdrawn.  A current row of a report says what the report says.
GoodRow(f, e) ==
    /\ e.revision <= f[e.source].revision
    /\ e.revision = f[e.source].revision =>
         e.value = f[e.source].value /\ (f[e.source].status # "withdrawn" => e.current)
    /\ e.current /\ e.source \in Report => e.value = f[e.source].value

\* A version is there once, and a current row is the newest of its source.
GoodRows(f, E) ==
    /\ \A e \in E : GoodRow(f, e)
    /\ \A e, g \in E : Id(e) = Id(g) => e = g
    /\ \A e, g \in E : e.source = g.source /\ e.current => g.revision <= e.revision

\* Row e as it is after the sources S were added to E.
After(f, E, S, e) == IF e.source \in S THEN RowAfter(f, E, e) ELSE e

LEMMA AfterKeeps ==
    ASSUME NEW f \in Fragments, NEW E \in SUBSET Evidence, NEW S, NEW e \in E
    PROVE  /\ After(f, E, S, e) \in Evidence
           /\ After(f, E, S, e).source = e.source
           /\ After(f, E, S, e).revision = e.revision
           /\ After(f, E, S, e).value = e.value
           /\ e.source \notin S => After(f, E, S, e) = e
           /\ e.source \in S /\ Present(f, e.source) \notin Ids(E) => ~After(f, E, S, e).current
           /\ e.source \in S /\ Id(e) = Present(f, e.source) => After(f, E, S, e).current
           /\ e.source \in S /\ Present(f, e.source) \in Ids(E) /\ Id(e) # Present(f, e.source)
                => After(f, E, S, e) = e
<1>1. e \in Evidence
    OBVIOUS
<1>2. Id(e) \in Ids(E)
    BY DEF Ids
<1>3. \A b \in BOOLEAN : /\ [e EXCEPT !.current = b] \in Evidence
                         /\ [e EXCEPT !.current = b].source = e.source
                         /\ [e EXCEPT !.current = b].revision = e.revision
                         /\ [e EXCEPT !.current = b].value = e.value
                         /\ [e EXCEPT !.current = b].current = b
    BY <1>1 DEF Evidence
<1> QED
    BY <1>1, <1>2, <1>3 DEF After, RowAfter

LEMMA NewRowIs ==
    ASSUME NEW f \in Fragments, NEW s \in Source
    PROVE  /\ NewRow(f, s) \in Evidence
           /\ NewRow(f, s).source = s /\ NewRow(f, s).revision = f[s].revision
           /\ NewRow(f, s).value = f[s].value /\ NewRow(f, s).current = TRUE
<1>1. f[s] \in Fragment
    BY DEF Fragments
<1>2. f[s].revision \in Nat /\ f[s].value \in Value \cup {Unknown}
    BY <1>1 DEF Fragment
<1> QED
    BY <1>2 DEF NewRow, Evidence

LEMMA IdIs ==
    ASSUME NEW e \in Evidence
    PROVE  /\ Id(e) \in Version
           /\ \A s, n : Id(e) = <<s, n>> <=> e.source = s /\ e.revision = n
           /\ \A g \in Evidence : Id(g) = Id(e) <=> g.source = e.source /\ g.revision = e.revision
    BY DEF Id, Version, Evidence

\* Every row of RowsWith is a row of before or a new one.
LEMMA RowsWithAre ==
    ASSUME NEW f \in Fragments, NEW E \in SUBSET Evidence, NEW S \in SUBSET Source,
           NEW g \in RowsWith(f, E, S)
    PROVE  \/ \E e \in E : g = After(f, E, S, e)
           \/ \E s \in S : Present(f, s) \notin Ids(E) /\ g = NewRow(f, s)
    BY DEF RowsWith, After

LEMMA RowsWithHas ==
    ASSUME NEW f \in Fragments, NEW E \in SUBSET Evidence, NEW S \in SUBSET Source
    PROVE  /\ RowsWith(f, E, S) \in SUBSET Evidence
           /\ \A e \in E : After(f, E, S, e) \in RowsWith(f, E, S)
           /\ \A s \in S : Present(f, s) \notin Ids(E) => NewRow(f, s) \in RowsWith(f, E, S)
<1>1. \A e \in E : After(f, E, S, e) \in RowsWith(f, E, S)
    BY DEF RowsWith, After
<1>2. \A s \in S : Present(f, s) \notin Ids(E) => NewRow(f, s) \in RowsWith(f, E, S)
    BY DEF RowsWith
<1>3. ASSUME NEW g \in RowsWith(f, E, S) PROVE g \in Evidence
  <2>1. \A e \in E : After(f, E, S, e) \in Evidence
      BY AfterKeeps
  <2>2. \A s \in S : NewRow(f, s) \in Evidence
      BY NewRowIs
  <2> QED
      BY <2>1, <2>2, RowsWithAre
<1> QED
    BY <1>1, <1>2, <1>3

\* Adding evidence keeps the rows in order.
LEMMA RowsWithGood ==
    ASSUME NEW f \in Fragments, NEW E \in SUBSET Evidence, NEW S \in SUBSET Source, GoodRows(f, E)
    PROVE  GoodRows(f, RowsWith(f, E, S))
<1> DEFINE N == RowsWith(f, E, S)
           A(e) == After(f, E, S, e)
<1>1. ASSUME NEW e \in E
      PROVE  /\ A(e).source = e.source /\ A(e).revision = e.revision /\ A(e).value = e.value
             /\ e.revision \in Nat /\ e.source \in Source /\ f[e.source].revision \in Nat
             /\ e \in Evidence
  <2>1. e \in Evidence
      OBVIOUS
  <2>2. e.revision \in Nat /\ e.source \in Source
      BY <2>1 DEF Evidence
  <2>3. f[e.source] \in Fragment
      BY <2>2 DEF Fragments
  <2>4. f[e.source].revision \in Nat
      BY <2>3 DEF Fragment
  <2> QED
      BY <2>1, <2>2, <2>4, AfterKeeps
<1>2. ASSUME NEW e \in E, e.source \in S, A(e).current
      PROVE  Present(f, e.source) \in Ids(E) /\ e.revision = f[e.source].revision
  <2>1. Present(f, e.source) \in Ids(E)
      BY <1>2, AfterKeeps
  <2>2. PICK p \in E : Id(p) = Present(f, e.source)
      BY <2>1 DEF Ids
  <2>3. p.source = e.source /\ p.revision = f[e.source].revision
      BY <2>2, IdIs DEF Present
  <2>4. CASE Id(e) = Present(f, e.source)
      BY <2>1, <2>4, IdIs DEF Present
  <2>5. CASE Id(e) # Present(f, e.source)
    <3>1. e.current
        BY <1>2, <2>1, <2>5, AfterKeeps
    <3>2. p.revision <= e.revision
        BY <2>3, <3>1 DEF GoodRows
    <3>3. e.revision <= f[e.source].revision
        BY DEF GoodRows, GoodRow
    <3> QED
        BY <1>1, <2>1, <2>3, <3>2, <3>3
  <2> QED
      BY <2>4, <2>5
<1>3. ASSUME NEW s \in S
      PROVE  /\ NewRow(f, s).source = s /\ NewRow(f, s).revision = f[s].revision
             /\ NewRow(f, s).value = f[s].value /\ NewRow(f, s).current
             /\ f[s].revision \in Nat /\ NewRow(f, s) \in Evidence
  <2>1. f[s] \in Fragment
      BY DEF Fragments
  <2>2. f[s].revision \in Nat
      BY <2>1 DEF Fragment
  <2> QED
      BY <2>2, NewRowIs
<1>4. ASSUME NEW g \in N
      PROVE  (\E e \in E : g = A(e)) \/ \E s \in S : Present(f, s) \notin Ids(E) /\ g = NewRow(f, s)
    BY RowsWithAre
<1>5. ASSUME NEW e \in E, e.source \notin S PROVE A(e) = e
    BY <1>5, AfterKeeps
<1>6. ASSUME NEW e \in E, e.source \in S, e.revision = f[e.source].revision PROVE A(e).current
    BY <1>1, <1>6, IdIs, AfterKeeps DEF Present
<1> HIDE DEF A, N
<1>7. ASSUME NEW g \in N PROVE GoodRow(f, g)
  <2>1. CASE \E s \in S : g = NewRow(f, s)
      BY <1>3, <2>1 DEF GoodRow
  <2>2. ASSUME NEW e \in E, g = A(e) PROVE GoodRow(f, g)
    <3>1. GoodRow(f, e)
        BY DEF GoodRows
    <3>2. CASE e.source \notin S
        BY <1>5, <2>2, <3>1, <3>2
    <3>3. CASE e.source \in S
        BY <1>1, <1>2, <1>6, <2>2, <3>1, <3>3 DEF GoodRow
    <3> QED
        BY <3>2, <3>3
  <2> QED
      BY <1>4, <2>1, <2>2
<1>8. ASSUME NEW g \in N, NEW h \in N, Id(g) = Id(h) PROVE g = h
  <2>1. ASSUME NEW e \in E PROVE Id(A(e)) = Id(e) /\ Id(e) \in Ids(E)
      BY <1>1 DEF Id, Ids
  <2>2. ASSUME NEW s \in S PROVE Id(NewRow(f, s)) = Present(f, s)
      BY <1>3 DEF Id, Present
  <2>3. ASSUME NEW e \in E, NEW k \in E, g = A(e), h = A(k) PROVE g = h
      BY <1>8, <2>1, <2>3 DEF GoodRows
  <2>4. ASSUME NEW s \in S, NEW t \in S, g = NewRow(f, s), h = NewRow(f, t) PROVE g = h
      BY <1>8, <2>2, <2>4 DEF Present
  <2> QED
      BY <1>4, <1>8, <2>1, <2>2, <2>3, <2>4
<1>9. ASSUME NEW g \in N, NEW h \in N, g.source = h.source, g.current PROVE h.revision <= g.revision
  <2>1. h.revision <= f[h.source].revision /\ f[h.source].revision = f[g.source].revision
      BY <1>7, <1>9 DEF GoodRow
  <2>2. CASE \E s \in S : g = NewRow(f, s)
      BY <1>3, <2>1, <2>2
  <2>3. ASSUME NEW e \in E, g = A(e), e.source \in S PROVE h.revision <= g.revision
      BY <1>1, <1>2, <1>9, <2>1, <2>3
  <2>4. ASSUME NEW e \in E, g = A(e), e.source \notin S PROVE h.revision <= g.revision
    <3>1. g = e
        BY <1>5, <2>4
    <3>2. \A s \in S : h # NewRow(f, s)
        BY <1>3, <1>9, <2>4, <3>1
    <3>3. PICK k \in E : h = A(k)
        BY <1>4, <3>2
    <3>4. h = k
        BY <1>1, <1>5, <1>9, <2>4, <3>1, <3>3
    <3> QED
        BY <1>9, <3>1, <3>4 DEF GoodRows
  <2> QED
      BY <1>4, <2>2, <2>3, <2>4
<1> QED
    BY <1>7, <1>8, <1>9 DEF GoodRows, N

\* Adding what is there already, and was not withdrawn, changes nothing.
LEMMA RowsWithSame ==
    ASSUME NEW f \in Fragments, NEW E \in SUBSET Evidence, NEW S \in SUBSET Source, GoodRows(f, E),
           \A s \in S : Present(f, s) \in Ids(E) /\ f[s].status # "withdrawn"
    PROVE  RowsWith(f, E, S) = E
<1>1. ASSUME NEW e \in E PROVE After(f, E, S, e) = e
  <2>1. CASE e.source \notin S
      BY <2>1, AfterKeeps
  <2>2. CASE e.source \in S /\ Id(e) # Present(f, e.source)
      BY <2>2, AfterKeeps
  <2>3. CASE e.source \in S /\ Id(e) = Present(f, e.source)
    <3>1. e \in Evidence /\ e.revision = f[e.source].revision
        BY <2>3, IdIs DEF Present
    <3>2. e.current
        BY <2>3, <3>1 DEF GoodRows, GoodRow
    <3>3. [e EXCEPT !.current = TRUE] = e
        BY <3>1, <3>2 DEF Evidence
    <3> QED
        BY <2>3, <3>3 DEF After, RowAfter
  <2> QED
      BY <2>1, <2>2, <2>3
<1>2. ASSUME NEW g \in RowsWith(f, E, S) PROVE g \in E
    BY <1>1, <1>2, RowsWithAre
<1>3. ASSUME NEW e \in E PROVE e \in RowsWith(f, E, S)
    BY <1>1, <1>3, RowsWithHas
<1> QED
    BY <1>2, <1>3

\* Source s has a current row among the rows E.
Speaks(E, s) == \E e \in E : e.current /\ e.source = s

LEMMA RowsWithSpeaks ==
    ASSUME NEW f \in Fragments, NEW E \in SUBSET Evidence, NEW S \in SUBSET Source,
           NEW s \in Source, s \in S \/ Speaks(E, s)
    PROVE  Speaks(RowsWith(f, E, S), s)
<1>1. CASE s \in S /\ Present(f, s) \notin Ids(E)
  <2>1. NewRow(f, s) \in RowsWith(f, E, S)
      BY <1>1, RowsWithHas
  <2>2. NewRow(f, s).current /\ NewRow(f, s).source = s
      BY NewRowIs
  <2> QED
      BY <2>1, <2>2 DEF Speaks
<1>2. CASE s \in S /\ Present(f, s) \in Ids(E)
  <2>1. PICK e \in E : Id(e) = Present(f, s)
      BY <1>2 DEF Ids
  <2>2. e.source = s
      BY <2>1, IdIs DEF Present
  <2>3. After(f, E, S, e).current /\ After(f, E, S, e).source = s
      BY <1>2, <2>1, <2>2, AfterKeeps
  <2> QED
      BY <2>3, RowsWithHas DEF Speaks
<1>3. CASE s \notin S
  <2>1. PICK e \in E : e.current /\ e.source = s
      BY <1>3 DEF Speaks
  <2>2. After(f, E, S, e) = e
      BY <1>3, <2>1, AfterKeeps
  <2> QED
      BY <2>1, <2>2, RowsWithHas DEF Speaks
<1> QED
    BY <1>1, <1>2, <1>3

\* Version x of a source is current among the rows E, or there is a newer one.
Backed(E, x) ==
    \E e \in E : e.source = x[1] /\ ((e.current /\ Id(e) = x) \/ e.revision > x[2])

LEMMA RowsWithBacked ==
    ASSUME NEW f \in Fragments, NEW E \in SUBSET Evidence, NEW S \in SUBSET Source, GoodRows(f, E),
           NEW x \in Version, Backed(E, x)
    PROVE  Backed(RowsWith(f, E, S), x)
<1> DEFINE N == RowsWith(f, E, S)
<1>1. PICK e \in E : e.source = x[1] /\ ((e.current /\ Id(e) = x) \/ e.revision > x[2])
    BY DEF Backed
<1> DEFINE g == After(f, E, S, e)
<1>2. g \in N /\ g \in Evidence /\ g.source = e.source /\ g.revision = e.revision
    BY AfterKeeps, RowsWithHas
<1>3. CASE e.revision > x[2]
    BY <1>1, <1>2, <1>3 DEF Backed
<1>4. CASE e.current /\ Id(e) = x /\ g.current
  <2>1. Id(g) = x
      BY <1>2, <1>4 DEF Id
  <2> QED
      BY <1>1, <1>2, <1>4, <2>1 DEF Backed
<1>5. CASE e.current /\ Id(e) = x /\ ~g.current
  <2>1. e.source \in S /\ Present(f, e.source) \notin Ids(E)
      BY <1>5, AfterKeeps
  <2>2. e.revision # f[e.source].revision /\ e.revision <= f[e.source].revision
    <3>1. Id(e) \in Ids(E)
        BY DEF Ids
    <3>2. Id(e) # Present(f, e.source)
        BY <2>1, <3>1
    <3> QED
        BY <3>2, IdIs DEF Present, GoodRows, GoodRow, Id
  <2>3. NewRow(f, e.source) \in N
      BY <2>1, RowsWithHas
  <2>4. e.revision \in Nat /\ f[e.source].revision \in Nat /\ x[2] = e.revision
    <3>1. e \in Evidence
        OBVIOUS
    <3>2. e.revision \in Nat /\ f[e.source] \in Fragment
        BY <3>1 DEF Evidence, Fragments
    <3> QED
        BY <1>5, <3>2 DEF Id, Fragment
  <2>5. NewRow(f, e.source).source = x[1] /\ NewRow(f, e.source).revision > x[2]
      BY <1>1, <2>1, <2>2, <2>4 DEF NewRow
  <2> QED
      BY <2>3, <2>5 DEF Backed
<1> QED
    BY <1>1, <1>3, <1>4, <1>5

\* The rows E when the rows of source r are not current any more.
Unmarked(E, r) == {IF e.source = r THEN [e EXCEPT !.current = FALSE] ELSE e : e \in E}

\* Row e as it is in Unmarked(E, r).
Unmark(e, r) == IF e.source = r THEN [e EXCEPT !.current = FALSE] ELSE e

LEMMA UnmarkIs ==
    ASSUME NEW e \in Evidence, NEW r
    PROVE  /\ Unmark(e, r) \in Evidence
           /\ Unmark(e, r).source = e.source /\ Unmark(e, r).revision = e.revision
           /\ Unmark(e, r).value = e.value
           /\ e.source = r => ~Unmark(e, r).current
           /\ e.source # r => Unmark(e, r) = e
    BY DEF Unmark, Evidence

LEMMA UnmarkedAre ==
    ASSUME NEW E \in SUBSET Evidence, NEW r, NEW g \in Unmarked(E, r)
    PROVE  \E e \in E : g = Unmark(e, r)
    BY DEF Unmarked, Unmark

LEMMA UnmarkedHas ==
    ASSUME NEW E \in SUBSET Evidence, NEW r, NEW e \in E
    PROVE  Unmark(e, r) \in Unmarked(E, r)
    BY DEF Unmarked, Unmark

LEMMA UnmarkedSame ==
    ASSUME NEW E \in SUBSET Evidence, NEW r, \A e \in E : e.source = r => ~e.current
    PROVE  Unmarked(E, r) = E
<1>1. ASSUME NEW e \in E, e.source = r PROVE [e EXCEPT !.current = FALSE] = e
    BY <1>1 DEF Evidence
<1> QED
    BY <1>1 DEF Unmarked

\* What becomes of the rows when source r gets a new claim, or is withdrawn.
LEMMA UnmarkedGood ==
    ASSUME NEW f \in Fragments, NEW E \in SUBSET Evidence, NEW r \in Source, NEW y \in Fragment,
           GoodRows(f, E),
           \/ y.revision > f[r].revision
           \/ y.revision = f[r].revision /\ y.value = f[r].value /\ y.status = "withdrawn"
    PROVE  GoodRows([f EXCEPT ![r] = y], Unmarked(E, r))
<1> DEFINE h == [f EXCEPT ![r] = y]
           N == Unmarked(E, r)
<1>1. h[r] = y /\ \A s \in Source \ {r} : h[s] = f[s]
    BY DEF Fragments
<1>2. f[r].revision \in Nat /\ y.revision \in Nat
  <2>1. f[r] \in Fragment
      BY DEF Fragments
  <2> QED
      BY <2>1 DEF Fragment
<1>3. ASSUME NEW g \in N PROVE GoodRow(h, g)
  <2>1. PICK e \in E : g = Unmark(e, r)
      BY UnmarkedAre
  <2>2. GoodRow(f, e) /\ e.source \in Source /\ e.revision \in Nat
      BY DEF GoodRows, Evidence
  <2>3. CASE e.source # r
      BY <1>1, <2>1, <2>2, <2>3, UnmarkIs DEF GoodRow
  <2>4. CASE e.source = r
      BY <1>1, <1>2, <2>1, <2>2, <2>4, UnmarkIs DEF GoodRow
  <2> QED
      BY <2>3, <2>4
<1>4. ASSUME NEW g \in N, NEW k \in N, Id(g) = Id(k) PROVE g = k
  <2>1. PICK e \in E : g = Unmark(e, r)
      BY UnmarkedAre
  <2>2. PICK i \in E : k = Unmark(i, r)
      BY UnmarkedAre
  <2>3. Id(e) = Id(i)
      BY <1>4, <2>1, <2>2, UnmarkIs DEF Id
  <2> QED
      BY <2>1, <2>2, <2>3 DEF GoodRows
<1>5. ASSUME NEW g \in N, NEW k \in N, g.source = k.source, g.current PROVE k.revision <= g.revision
  <2>1. PICK e \in E : g = Unmark(e, r)
      BY UnmarkedAre
  <2>2. PICK i \in E : k = Unmark(i, r)
      BY UnmarkedAre
  <2> QED
      BY <1>5, <2>1, <2>2, UnmarkIs DEF GoodRows
<1> QED
    BY <1>3, <1>4, <1>5 DEF GoodRows

LEMMA UnmarkedSpeaks ==
    ASSUME NEW E \in SUBSET Evidence, NEW r, NEW s, s # r, Speaks(E, s)
    PROVE  Speaks(Unmarked(E, r), s)
<1>1. PICK e \in E : e.current /\ e.source = s
    BY DEF Speaks
<1>2. Unmark(e, r) = e
    BY <1>1, UnmarkIs
<1> QED
    BY <1>1, <1>2, UnmarkedHas DEF Speaks

LEMMA UnmarkedBacked ==
    ASSUME NEW E \in SUBSET Evidence, NEW r, NEW x, Backed(E, x)
    PROVE  \/ Backed(Unmarked(E, r), x)
           \/ x \in Ids({e \in Current(E) : e.source = r})
<1>1. PICK e \in E : e.source = x[1] /\ ((e.current /\ Id(e) = x) \/ e.revision > x[2])
    BY DEF Backed
<1> DEFINE g == Unmark(e, r)
<1>2. g \in Unmarked(E, r) /\ g.source = e.source /\ g.revision = e.revision /\ (e.source # r => g = e)
    BY UnmarkIs, UnmarkedHas
<1>3. CASE e.revision > x[2]
    BY <1>1, <1>2, <1>3 DEF Backed
<1>4. CASE e.current /\ Id(e) = x /\ e.source # r
    BY <1>1, <1>2, <1>4 DEF Backed
<1>5. CASE e.current /\ Id(e) = x /\ e.source = r
    BY <1>5 DEF Ids, Current
<1> QED
    BY <1>1, <1>3, <1>4, <1>5

\* Fragments that go on to later revisions, or change what the rows do not depend on.
LEMMA LaterFragmentsGood ==
    ASSUME NEW f \in Fragments, NEW h \in Fragments, NEW E \in SUBSET Evidence, GoodRows(f, E),
           \A s \in Source : /\ f[s].revision <= h[s].revision
                             /\ s \in Report => h[s].value = f[s].value
                             /\ h[s].revision = f[s].revision =>
                                  h[s].value = f[s].value /\ (h[s].status # "withdrawn" => f[s].status # "withdrawn")
    PROVE  GoodRows(h, E)
<1>1. ASSUME NEW e \in E PROVE GoodRow(h, e)
  <2>1. GoodRow(f, e)
      BY DEF GoodRows
  <2>2. e \in Evidence
      OBVIOUS
  <2>3. e.source \in Source /\ e.revision \in Nat
      BY <2>2 DEF Evidence
  <2>4. f[e.source].revision \in Nat /\ h[e.source].revision \in Nat
    <3>1. f[e.source] \in Fragment /\ h[e.source] \in Fragment
        BY <2>3 DEF Fragments
    <3> QED
        BY <3>1 DEF Fragment
  <2> QED
      BY <2>1, <2>3, <2>4 DEF GoodRow
<1> QED
    BY <1>1 DEF GoodRows

-----------------------------------------------------------------------------
(***************************************************************************)
(* What the changes of a database do                                       *)
(***************************************************************************)
Databases ==
    [fragment : Fragments, conflict : [Case -> ConflictCase], evidence : [Case -> SUBSET Evidence],
     fact : FactRecord, analysis : [Analysis -> AiAnalysis \cup {NoAnalysis}]]

\* Analyses of which only the staleness has changed.
SameAnalyses(A, B) ==
    \A a \in Analysis : /\ B[a] = NoAnalysis <=> A[a] = NoAnalysis
                       /\ B[a].status = A[a].status
                       /\ B[a].conflict = A[a].conflict
                       /\ B[a].context = A[a].context

LEMMA SameAnalysesTransitive ==
    ASSUME NEW A, NEW B, NEW D, SameAnalyses(A, B), SameAnalyses(B, D)
    PROVE  SameAnalyses(A, D)
    BY DEF SameAnalyses

LEMMA SameAnalysesReflexive ==
    ASSUME NEW A
    PROVE  SameAnalyses(A, A)
    BY DEF SameAnalyses

LEMMA MarkStaleDoes ==
    ASSUME NEW d \in Databases, NEW C, NEW e, e = MarkStale(d, C)
    PROVE  /\ e \in Databases
           /\ e.fragment = d.fragment /\ e.conflict = d.conflict /\ e.evidence = d.evidence
           /\ e.fact = d.fact
           /\ SameAnalyses(d.analysis, e.analysis)
<1> DEFINE B == [a \in Analysis |->
                   IF d.analysis[a] # NoAnalysis /\ d.analysis[a].conflict \in C
                   THEN [d.analysis[a] EXCEPT !.stale = TRUE] ELSE d.analysis[a]]
<1>1. e = [d EXCEPT !.analysis = B]
    BY DEF MarkStale
<1>2. \A x \in AiAnalysis : /\ [x EXCEPT !.stale = TRUE] \in AiAnalysis
                            /\ [x EXCEPT !.stale = TRUE].status = x.status
                            /\ [x EXCEPT !.stale = TRUE].conflict = x.conflict
                            /\ [x EXCEPT !.stale = TRUE].context = x.context
    BY DEF AiAnalysis
<1>3. \A x \in AiAnalysis : x # NoAnalysis
    BY DEF AiAnalysis, NoAnalysis
<1>4. d.analysis \in [Analysis -> AiAnalysis \cup {NoAnalysis}]
    BY DEF Databases
<1>5. ASSUME NEW a \in Analysis
      PROVE  /\ B[a] \in AiAnalysis \cup {NoAnalysis}
             /\ B[a] = NoAnalysis <=> d.analysis[a] = NoAnalysis
             /\ B[a].status = d.analysis[a].status
             /\ B[a].conflict = d.analysis[a].conflict
             /\ B[a].context = d.analysis[a].context
  <2>1. CASE d.analysis[a] # NoAnalysis /\ d.analysis[a].conflict \in C
    <3>1. d.analysis[a] \in AiAnalysis /\ B[a] = [d.analysis[a] EXCEPT !.stale = TRUE]
        BY <1>4, <2>1
    <3> HIDE DEF B
    <3> QED
        BY <1>2, <1>3, <2>1, <3>1
  <2>2. CASE ~(d.analysis[a] # NoAnalysis /\ d.analysis[a].conflict \in C)
      BY <1>4, <2>2
  <2> QED
      BY <2>1, <2>2
<1>6. B \in [Analysis -> AiAnalysis \cup {NoAnalysis}]
    BY <1>5
<1> HIDE DEF B
<1>7. /\ e \in Databases /\ e.analysis = B
      /\ e.fragment = d.fragment /\ e.conflict = d.conflict /\ e.evidence = d.evidence
      /\ e.fact = d.fact
    BY <1>1, <1>6 DEF Databases
<1> QED
    BY <1>5, <1>7 DEF SameAnalyses

LEMMA ReviewDoes ==
    ASSUME NEW d \in Databases, NEW c \in Case, NEW e, e = Review(d, c)
    PROVE  /\ e \in Databases
           /\ e.fragment = d.fragment /\ e.conflict = d.conflict /\ e.evidence = d.evidence
           /\ e.analysis = d.analysis
           /\ e.fact.status # "current" /\ (e.fact = d.fact \/ e.fact.status = "under_review")
<1> DEFINE x == [status |-> "under_review", conflict |-> c, accepted |-> {}]
<1>1. x \in FactRecord /\ x.status = "under_review"
    BY DEF FactRecord
<1>2. e = IF d.fact.status # "current" THEN d ELSE [d EXCEPT !.fact = x]
    BY DEF Review
<1> HIDE DEF x
<1> QED
    BY <1>1, <1>2 DEF Databases

LEMMA BumpDoes ==
    ASSUME NEW d \in Databases, NEW c \in Case, NEW e, e = Bump(d, c)
    PROVE  /\ e \in Databases
           /\ e.fragment = d.fragment /\ e.evidence = d.evidence /\ e.fact = d.fact
           /\ SameAnalyses(d.analysis, e.analysis)
           /\ \A b \in Case \ {c} : e.conflict[b] = d.conflict[b]
           /\ e.conflict[c].status = d.conflict[c].status
           /\ e.conflict[c].resolution = d.conflict[c].resolution
           /\ e.conflict[c].revision = d.conflict[c].revision + 1
<1> DEFINE x == [d.conflict[c] EXCEPT !.revision = @ + 1]
           m == [d EXCEPT !.conflict[c] = x]
<1>1. d.conflict \in [Case -> ConflictCase] /\ d.conflict[c] \in ConflictCase
    BY DEF Databases
<1>2. /\ x \in ConflictCase /\ x.status = d.conflict[c].status
      /\ x.resolution = d.conflict[c].resolution /\ x.revision = d.conflict[c].revision + 1
    BY <1>1 DEF ConflictCase
<1>3. e = MarkStale(m, {c})
    BY DEF Bump
<1> HIDE DEF x
<1>4. /\ m \in Databases /\ m.conflict = [d.conflict EXCEPT ![c] = x]
      /\ m.fragment = d.fragment /\ m.evidence = d.evidence /\ m.fact = d.fact /\ m.analysis = d.analysis
    BY <1>1, <1>2 DEF Databases
<1> HIDE DEF m
<1>5. /\ e \in Databases
      /\ e.fragment = m.fragment /\ e.conflict = m.conflict /\ e.evidence = m.evidence
      /\ e.fact = m.fact
      /\ SameAnalyses(m.analysis, e.analysis)
    BY <1>3, <1>4, MarkStaleDoes
<1> QED
    BY <1>1, <1>2, <1>4, <1>5

LEMMA AddEvidenceDoes ==
    ASSUME NEW d \in Databases, NEW c \in Case, NEW S \in SUBSET Source, NEW e, e = AddEvidence(d, c, S)
    PROVE  /\ e \in Databases
           /\ e.fragment = d.fragment /\ e.conflict = d.conflict /\ e.fact = d.fact /\ e.analysis = d.analysis
           /\ \A b \in Case \ {c} : e.evidence[b] = d.evidence[b]
           /\ e.evidence[c] = RowsWith(d.fragment, d.evidence[c], S)
<1> DEFINE N == RowsWith(d.fragment, d.evidence[c], S)
<1>1. d.evidence \in [Case -> SUBSET Evidence] /\ d.evidence[c] \in SUBSET Evidence /\ d.fragment \in Fragments
    BY DEF Databases
<1>2. N \in SUBSET Evidence
    BY <1>1, RowsWithHas
<1>3. e = [d EXCEPT !.evidence[c] = N]
    BY DEF AddEvidence
<1> HIDE DEF N
<1>4. /\ e \in Databases /\ e.evidence = [d.evidence EXCEPT ![c] = N]
      /\ e.fragment = d.fragment /\ e.conflict = d.conflict /\ e.fact = d.fact /\ e.analysis = d.analysis
    BY <1>1, <1>2, <1>3 DEF Databases
<1> QED
    BY <1>1, <1>4 DEF N

\* The last of some cases.
LEMMA MaxIsThere ==
    ASSUME NEW S, S \subseteq Case, S # {}
    PROVE  Max(S) \in S
<1>1. MaxCases \in Nat
    BY BoundsAreNaturals
<1> DEFINE T == {n \in Nat : MaxCases - n \in S}
<1>2. T \subseteq Nat /\ T # {}
  <2>1. PICK x \in S : TRUE
      OBVIOUS
  <2>2. x \in Int /\ MaxCases - x \in Nat /\ MaxCases - (MaxCases - x) = x
      BY <1>1 DEF Case
  <2> QED
      BY <2>1, <2>2
<1>3. PICK n \in T : \A m \in T : n <= m
  <2> DEFINE R == OpToRel(<, Nat)
  <2>1. \A m, n \in Nat : m < n => <<m, n>> \in R
      BY DEF OpToRel
  <2>2. IsWellFoundedOn(R, Nat)
      BY NatLessThanWellFounded
  <2> HIDE DEF R, T
  <2>3. PICK n \in T : \A m \in T : ~(<<m, n>> \in R)
      BY <1>2, <2>2, WFMin
  <2>4. \A m \in T : m \in Nat /\ n \in Nat /\ ~(m < n)
      BY <1>2, <2>1, <2>3
  <2>5. \A m \in T : n <= m
      BY <2>4
  <2> QED
      BY <2>5
<1>4. \A y \in S : MaxCases - n >= y
  <2> SUFFICES ASSUME NEW y \in S PROVE MaxCases - n >= y
      OBVIOUS
  <2>1. y \in Int /\ MaxCases - y \in Nat /\ MaxCases - (MaxCases - y) = y
      BY <1>1 DEF Case
  <2>2. MaxCases - y \in T
      BY <2>1
  <2> QED
      BY <1>1, <1>3, <2>1, <2>2
<1>5. MaxCases - n \in S
    BY <1>3
<1> QED
    BY <1>4, <1>5 DEF Max

-----------------------------------------------------------------------------
(***************************************************************************)
(* Sound databases, and what a transaction may do to one                   *)
(***************************************************************************)
\* Answers are never withdrawn, and what was not said yet has no revision.
GoodFragments(f) ==
    /\ \A s \in Answer : f[s].status # "withdrawn"
    /\ \A s \in Source : f[s].status = "absent" => f[s].revision = 0

Sound(d) ==
    /\ d \in Databases
    /\ \E k \in 0..MaxCases : Numbered(d) = 1..k
    /\ \A c \in Case : ~Exists(d, c) => d.conflict[c] = NoCase /\ d.evidence[c] = {}
    /\ GoodFragments(d.fragment)
    /\ \A c \in Case : GoodRows(d.fragment, d.evidence[c])

\* Case c of d is in e as it was, or has moved on.
Moved(d, e, c) ==
    \/ e.conflict[c] = d.conflict[c] /\ e.evidence[c] = d.evidence[c]
    \/ /\ Exists(e, c) /\ d.conflict[c].revision < e.conflict[c].revision
       /\ e.conflict[c].status = "analyzing" => d.conflict[c].status = "analyzing"

\* If the fact is current, it is the version of before, and it is backed by what backed it.
Stands(d, e) ==
    e.fact.status = "current" =>
        /\ e.fact = d.fact
        /\ \A x \in d.fact.accepted :
              Backed(d.evidence[d.fact.conflict], x) => Backed(e.evidence[d.fact.conflict], x)

\* Reports r and t contradict each other, and no decision has accepted either.
Opposed(f, r, t) ==
    /\ ~f[r].accepted /\ ~f[t].accepted /\ f[r].live /\ f[t].live
    /\ Definite(f[r].value) /\ Definite(f[t].value) /\ f[r].value # f[t].value

\* It was not the reconciliation that has settled the case.
LeftToOperators(case) == case.status = "resolved" => case.resolution = "decision"

SeenIn(d, c, r, t) ==
    Speaks(d.evidence[c], r) /\ Speaks(d.evidence[c], t) /\ LeftToOperators(d.conflict[c])

\* What a report's fragment says of it: detection passes over fragments that are not normal
\* or in a conflict, and they are those of accepted or withdrawn reports.
PlainReport(y) ==
    /\ y.status = "resolved" => y.accepted
    /\ y.status \in {"absent", "withdrawn"} => ~y.live

\* Those of the reports Q that contradict each other are before the operators, or have been.
SeenAmong(d, Q) ==
    /\ \A s \in Report : PlainReport(d.fragment[s])
    /\ \A r, t \in Q : Opposed(d.fragment, r, t) => \E c \in Case : SeenIn(d, c, r, t)

Seen(d) == SeenAmong(d, Report)

\* The reports say in g what they said in f; some more may be accepted.
SameReports(f, g) ==
    \A s \in Report : /\ g[s].value = f[s].value /\ g[s].live = f[s].live
                      /\ f[s].accepted => g[s].accepted
                      /\ \/ g[s].status = f[s].status
                         \/ g[s].status \in {"normal", "conflict"}
                         \/ g[s].status = "resolved" /\ g[s].accepted

\* No report is changed, and no case loses a source or is settled by the reconciliation.
Grows(d, e) ==
    /\ SameReports(d.fragment, e.fragment)
    /\ \A c \in Case : /\ \A s \in Report : Speaks(d.evidence[c], s) => Speaks(e.evidence[c], s)
                       /\ LeftToOperators(d.conflict[c]) => LeftToOperators(e.conflict[c])

LEMMA SameReportsReflexive ==
    ASSUME NEW f
    PROVE  SameReports(f, f)
    BY DEF SameReports

LEMMA GrowsSeen ==
    ASSUME NEW d, NEW e, Grows(d, e), NEW Q \in SUBSET Report, SeenAmong(d, Q)
    PROVE  SeenAmong(e, Q)
<1>1. ASSUME NEW s \in Report PROVE PlainReport(e.fragment[s])
    BY DEF Grows, SameReports, SeenAmong, PlainReport
<1>2. ASSUME NEW r \in Q, NEW t \in Q, Opposed(e.fragment, r, t)
      PROVE  \E c \in Case : SeenIn(e, c, r, t)
  <2>1. Opposed(d.fragment, r, t)
      BY <1>2 DEF Grows, SameReports, Opposed
  <2>2. PICK c \in Case : SeenIn(d, c, r, t)
      BY <2>1 DEF SeenAmong
  <2> QED
      BY <2>2 DEF SeenIn, Grows
<1> QED
    BY <1>1, <1>2 DEF SeenAmong

LEMMA DatabasesHave ==
    ASSUME NEW d \in Databases
    PROVE  /\ d.fragment \in Fragments
           /\ d.fact \in FactRecord /\ d.fact.conflict \in Case /\ d.fact.accepted \in SUBSET Version
           /\ d.analysis \in [Analysis -> AiAnalysis \cup {NoAnalysis}]
           /\ d.conflict \in [Case -> ConflictCase] /\ d.evidence \in [Case -> SUBSET Evidence]
           /\ \A c \in Case : /\ d.conflict[c] \in ConflictCase /\ d.conflict[c].revision \in Nat
                              /\ d.evidence[c] \in SUBSET Evidence
           /\ \A s \in Source : d.fragment[s] \in Fragment /\ d.fragment[s].revision \in Nat
<1>1. /\ d.fragment \in Fragments /\ d.fact \in FactRecord
      /\ d.analysis \in [Analysis -> AiAnalysis \cup {NoAnalysis}]
      /\ d.conflict \in [Case -> ConflictCase] /\ d.evidence \in [Case -> SUBSET Evidence]
    BY DEF Databases
<1>2. \A c \in Case : d.conflict[c] \in ConflictCase /\ d.evidence[c] \in SUBSET Evidence
    BY <1>1
<1>3. \A c \in Case : d.conflict[c].revision \in Nat
    BY <1>2 DEF ConflictCase
<1>4. \A s \in Source : d.fragment[s] \in Fragment
    BY <1>1 DEF Fragments
<1>5. \A s \in Source : d.fragment[s].revision \in Nat
    BY <1>4 DEF Fragment
<1>6. d.fact.conflict \in Case /\ d.fact.accepted \in SUBSET Version
    BY <1>1 DEF FactRecord
<1> QED
    BY <1>1, <1>2, <1>3, <1>4, <1>5, <1>6

LEMMA MovedTransitive ==
    ASSUME NEW d \in Databases, NEW e \in Databases, NEW g \in Databases, NEW c \in Case,
           Moved(d, e, c), Moved(e, g, c)
    PROVE  Moved(d, g, c)
<1>1. d.conflict[c].revision \in Nat /\ e.conflict[c].revision \in Nat /\ g.conflict[c].revision \in Nat
    BY DatabasesHave
<1> QED
    BY <1>1 DEF Moved, Exists

\* The same cases exist, and their rows are in order: the database is sound.
LEMMA StaysSound ==
    ASSUME NEW d, NEW e, Sound(d), e \in Databases,
           \A c \in Case : /\ Exists(e, c) <=> Exists(d, c)
                           /\ ~Exists(d, c) => e.conflict[c] = d.conflict[c] /\ e.evidence[c] = d.evidence[c]
                           /\ GoodRows(e.fragment, e.evidence[c]),
           GoodFragments(e.fragment)
    PROVE  Sound(e)
<1>1. Numbered(e) = Numbered(d)
    BY DEF Numbered
<1> QED
    BY <1>1 DEF Sound

-----------------------------------------------------------------------------
(***************************************************************************)
(* New cases, and reopened ones                                            *)
(***************************************************************************)
LEMMA NextCaseIs ==
    ASSUME NEW d, Sound(d)
    PROVE  /\ NextCase(d) \in Nat
           /\ \A c \in Case : c < NextCase(d) <=> Exists(d, c)
<1>1. PICK k \in 0..MaxCases : Numbered(d) = 1..k
    BY DEF Sound
<1>2. MaxCases \in Nat
    BY BoundsAreNaturals
<1>3. k \in Int /\ 0 <= k /\ k <= MaxCases
    BY <1>1, <1>2
<1>4. Cardinality(1..k) = k
  <2>1. CASE k = 0
    <3>1. 1..k = {}
        BY <2>1
    <3> QED
        BY <2>1, <3>1, FS_EmptySet
  <2>2. CASE k # 0
    <3>1. Cardinality(1..k) = k - 1 + 1
      <4>1. 1 \in Int /\ k \in Int /\ ~(1 > k)
          BY <1>3, <2>2
      <4> QED
          BY <4>1, FS_Interval
    <3> QED
        BY <1>3, <3>1
  <2> QED
      BY <2>1, <2>2
<1>5. NextCase(d) = k + 1
    BY <1>1, <1>4 DEF NextCase
<1>6. ASSUME NEW c \in Case PROVE c < NextCase(d) <=> Exists(d, c)
  <2>1. Exists(d, c) <=> c \in 1..k
      BY <1>1 DEF Numbered
  <2>2. c \in Int /\ 1 <= c
      BY <1>2 DEF Case
  <2> QED
      BY <1>3, <1>5, <2>1, <2>2
<1> QED
    BY <1>3, <1>5, <1>6

LEMMA OpenedDoes ==
    ASSUME NEW d, Sound(d), NEW c \in Case, c = NextCase(d), NEW e, e = Opened(d)
    PROVE  /\ Sound(e)
           /\ e.fragment = d.fragment /\ e.evidence = d.evidence /\ e.fact = d.fact
           /\ e.analysis = d.analysis
           /\ \A b \in Case \ {c} : e.conflict[b] = d.conflict[b]
           /\ ~Exists(d, c) /\ Exists(e, c) /\ e.conflict[c].status = "open"
           /\ \A b \in Case : Moved(d, e, b)
<1> DEFINE x == [status |-> "open", revision |-> 1, resolution |-> "none", recent |-> TRUE]
<1>1. x \in ConflictCase /\ x.status = "open" /\ x.revision = 1
    BY DEF ConflictCase
<1>2. e = [d EXCEPT !.conflict[c] = x]
    BY DEF Opened
<1> HIDE DEF x
<1>3. d \in Databases
    BY DEF Sound
<1>4. /\ e \in Databases /\ e.conflict = [d.conflict EXCEPT ![c] = x]
      /\ e.fragment = d.fragment /\ e.evidence = d.evidence /\ e.fact = d.fact
      /\ e.analysis = d.analysis
    BY <1>1, <1>2, <1>3 DEF Databases
<1>5. e.conflict[c] = x /\ \A b \in Case \ {c} : e.conflict[b] = d.conflict[b]
    BY <1>3, <1>4, DatabasesHave
<1>6. ~Exists(d, c)
  <2>1. c \in Nat /\ (c < NextCase(d) <=> Exists(d, c))
      BY NextCaseIs
  <2> QED
      BY <2>1
<1>7. Exists(e, c)
    BY <1>1, <1>5 DEF Exists
<1>8. \E k \in 0..MaxCases : Numbered(e) = 1..k
  <2>1. MaxCases \in Nat
      BY BoundsAreNaturals
  <2>2. c \in 0..MaxCases /\ c \in Nat
      BY <2>1 DEF Case
  <2>3. ASSUME NEW b \in Case PROVE b \in Numbered(e) <=> b <= c
    <3>1. b \in Int
        BY <2>1 DEF Case
    <3>2. CASE b = c
        BY <1>7, <2>2, <3>2 DEF Numbered
    <3>3. CASE b # c
      <4>1. b \in Numbered(e) <=> Exists(d, b)
          BY <1>5, <3>3 DEF Numbered, Exists
      <4>2. b < c <=> Exists(d, b)
          BY NextCaseIs
      <4> QED
          BY <2>2, <3>1, <3>3, <4>1, <4>2
    <3> QED
        BY <3>2, <3>3
  <2>4. Numbered(e) = 1..c
    <3>1. \A b : b \in Numbered(e) <=> b \in Case /\ b <= c
        BY <2>3 DEF Numbered
    <3>2. \A b : b \in 1..c <=> b \in Case /\ b <= c
        BY <2>1, <2>2 DEF Case
    <3> QED
        BY <3>1, <3>2
  <2> QED
      BY <2>2, <2>4
<1>9. Sound(e)
    BY <1>4, <1>5, <1>7, <1>8 DEF Sound, Exists
<1>10. Moved(d, e, c)
  <2>1. d.conflict[c].revision = 0
      BY <1>6 DEF Sound, NoCase
  <2> QED
      BY <1>1, <1>5, <1>7, <2>1 DEF Moved
<1> QED
    BY <1>1, <1>4, <1>5, <1>6, <1>7, <1>9, <1>10 DEF Moved

\* A case that exists and is not analyzing any more.
LEMMA ReopenedDoes ==
    ASSUME NEW d, Sound(d), NEW c \in Case, Exists(d, c), NEW e, e = Reopened(d, c)
    PROVE  /\ Sound(e)
           /\ e.fragment = d.fragment /\ e.evidence = d.evidence
           /\ e.fact.status # "current"
           /\ SameAnalyses(d.analysis, e.analysis)
           /\ \A b \in Case \ {c} : e.conflict[b] = d.conflict[b]
           /\ Exists(e, c) /\ e.conflict[c].status = "reopened"
           /\ d.conflict[c].revision < e.conflict[c].revision
<1> DEFINE x == [d.conflict[c] EXCEPT !.status = "reopened", !.resolution = "none"]
           m == [d EXCEPT !.conflict[c] = x]
<1>1. d \in Databases /\ d.conflict \in [Case -> ConflictCase] /\ d.conflict[c] \in ConflictCase
      /\ d.conflict[c].revision \in Nat
    BY DatabasesHave DEF Sound
<1>2. x \in ConflictCase /\ x.status = "reopened" /\ x.revision = d.conflict[c].revision
    BY <1>1 DEF ConflictCase
<1>3. m = [d EXCEPT !.conflict[c].status = "reopened", !.conflict[c].resolution = "none"]
  <2>1. [[d.conflict EXCEPT ![c].status = "reopened"] EXCEPT ![c].resolution = "none"]
          = [d.conflict EXCEPT ![c] = x]
      BY <1>1 DEF ConflictCase
  <2> HIDE DEF x
  <2> QED
      BY <1>1, <2>1 DEF Databases
<1>4. PICK g : g = Bump(m, c) /\ e = Review(g, c)
    BY <1>3 DEF Reopened
<1> HIDE DEF x
<1>5. /\ m \in Databases /\ m.conflict = [d.conflict EXCEPT ![c] = x]
      /\ m.fragment = d.fragment /\ m.evidence = d.evidence /\ m.fact = d.fact /\ m.analysis = d.analysis
    BY <1>1, <1>2 DEF Databases
<1> HIDE DEF m
<1>6. /\ g \in Databases
      /\ g.fragment = m.fragment /\ g.evidence = m.evidence
      /\ SameAnalyses(m.analysis, g.analysis)
      /\ \A b \in Case \ {c} : g.conflict[b] = m.conflict[b]
      /\ g.conflict[c].status = m.conflict[c].status
      /\ g.conflict[c].revision = m.conflict[c].revision + 1
  <2>1. m \in Databases /\ g = Bump(m, c)
      BY <1>4, <1>5
  <2> QED
      BY <2>1, BumpDoes
<1>7. /\ e \in Databases
      /\ e.fragment = g.fragment /\ e.conflict = g.conflict /\ e.evidence = g.evidence
      /\ e.analysis = g.analysis
      /\ e.fact.status # "current"
    BY <1>4, <1>6, ReviewDoes
<1>8. m.conflict[c] = x /\ \A b \in Case \ {c} : m.conflict[b] = d.conflict[b]
    BY <1>1, <1>5
<1>9. /\ \A b \in Case \ {c} : e.conflict[b] = d.conflict[b]
      /\ e.conflict[c].status = "reopened" /\ Exists(e, c)
      /\ d.conflict[c].revision < e.conflict[c].revision
    BY <1>1, <1>2, <1>6, <1>7, <1>8 DEF Exists
<1>10. e.fragment = d.fragment /\ e.evidence = d.evidence
    BY <1>5, <1>6, <1>7
<1>11. Sound(e)
  <2>1. \A b \in Case : /\ Exists(e, b) <=> Exists(d, b)
                        /\ ~Exists(d, b) => e.conflict[b] = d.conflict[b] /\ e.evidence[b] = d.evidence[b]
                        /\ GoodRows(e.fragment, e.evidence[b])
      BY <1>9, <1>10 DEF Sound, Exists
  <2>2. GoodFragments(e.fragment)
      BY <1>10 DEF Sound
  <2> QED
      BY <1>7, <2>1, <2>2, StaysSound
<1> QED
    BY <1>5, <1>6, <1>7, <1>9, <1>10, <1>11

LEMMA BumpKeeps ==
    ASSUME NEW d, Sound(d), NEW c \in Case, Exists(d, c), NEW e, e = Bump(d, c)
    PROVE  /\ Sound(e)
           /\ e.fragment = d.fragment /\ e.evidence = d.evidence /\ e.fact = d.fact
           /\ SameAnalyses(d.analysis, e.analysis)
           /\ \A b \in Case \ {c} : e.conflict[b] = d.conflict[b]
           /\ Exists(e, c)
           /\ e.conflict[c].status = d.conflict[c].status
           /\ e.conflict[c].resolution = d.conflict[c].resolution
           /\ d.conflict[c].revision < e.conflict[c].revision
<1>1. d \in Databases
    BY DEF Sound
<1>2. d.conflict[c].revision \in Nat
    BY <1>1, DatabasesHave
<1>3. /\ e \in Databases
      /\ e.fragment = d.fragment /\ e.evidence = d.evidence /\ e.fact = d.fact
      /\ SameAnalyses(d.analysis, e.analysis)
      /\ \A b \in Case \ {c} : e.conflict[b] = d.conflict[b]
      /\ e.conflict[c].status = d.conflict[c].status
      /\ e.conflict[c].resolution = d.conflict[c].resolution
      /\ e.conflict[c].revision = d.conflict[c].revision + 1
    BY <1>1, BumpDoes
<1>4. Exists(e, c)
    BY <1>3 DEF Exists
<1>5. Sound(e)
  <2>1. \A b \in Case : /\ Exists(e, b) <=> Exists(d, b)
                        /\ ~Exists(d, b) => e.conflict[b] = d.conflict[b] /\ e.evidence[b] = d.evidence[b]
                        /\ GoodRows(e.fragment, e.evidence[b])
      BY <1>3 DEF Sound, Exists
  <2>2. GoodFragments(e.fragment)
      BY <1>3 DEF Sound
  <2> QED
      BY <1>3, <2>1, <2>2, StaysSound
<1> QED
    BY <1>2, <1>3, <1>4, <1>5

LEMMA AddEvidenceKeeps ==
    ASSUME NEW d, Sound(d), NEW c \in Case, Exists(d, c), NEW S \in SUBSET Source,
           NEW e, e = AddEvidence(d, c, S)
    PROVE  /\ Sound(e) /\ Stands(d, e)
           /\ e.fragment = d.fragment /\ e.conflict = d.conflict /\ e.fact = d.fact /\ e.analysis = d.analysis
           /\ \A b \in Case \ {c} : e.evidence[b] = d.evidence[b]
           /\ e.evidence[c] = RowsWith(d.fragment, d.evidence[c], S)
<1>1. d \in Databases
    BY DEF Sound
<1>2. d.fragment \in Fragments /\ d.evidence[c] \in SUBSET Evidence /\ GoodRows(d.fragment, d.evidence[c])
    BY <1>1, DatabasesHave DEF Sound
<1>3. /\ e \in Databases
      /\ e.fragment = d.fragment /\ e.conflict = d.conflict /\ e.fact = d.fact /\ e.analysis = d.analysis
      /\ \A b \in Case \ {c} : e.evidence[b] = d.evidence[b]
      /\ e.evidence[c] = RowsWith(d.fragment, d.evidence[c], S)
    BY <1>1, AddEvidenceDoes
<1>4. GoodRows(e.fragment, e.evidence[c])
    BY <1>2, <1>3, RowsWithGood
<1>5. Sound(e)
  <2>1. \A b \in Case : /\ Exists(e, b) <=> Exists(d, b)
                        /\ ~Exists(d, b) => e.conflict[b] = d.conflict[b] /\ e.evidence[b] = d.evidence[b]
                        /\ GoodRows(e.fragment, e.evidence[b])
      BY <1>3, <1>4 DEF Sound, Exists
  <2>2. GoodFragments(e.fragment)
      BY <1>3 DEF Sound
  <2> QED
      BY <1>3, <2>1, <2>2, StaysSound
<1>6. \A x \in Version : Backed(d.evidence[c], x) => Backed(e.evidence[c], x)
    BY <1>2, <1>3, RowsWithBacked
<1>7. Stands(d, e)
  <2>1. d.fact.conflict \in Case /\ d.fact.accepted \in SUBSET Version
      BY <1>1, DatabasesHave
  <2> QED
      BY <1>3, <1>6, <2>1 DEF Stands
<1> QED
    BY <1>3, <1>5, <1>7

LEMMA RenewedDoes ==
    ASSUME NEW d, Sound(d), NEW c \in Case, Exists(d, c), NEW S \in SUBSET Source,
           NEW e, e = Renewed(d, c, S)
    PROVE  /\ Sound(e)
           /\ e.fragment = d.fragment /\ e.evidence = d.evidence
           /\ e.fact.status = "current" => e.fact = d.fact
           /\ SameAnalyses(d.analysis, e.analysis)
           /\ \A b \in Case \ {c} : e.conflict[b] = d.conflict[b]
           /\ Exists(e, c) /\ e.conflict[c].status # "resolved"
           /\ \/ /\ d.conflict[c].revision < e.conflict[c].revision
                 /\ e.conflict[c].status = "analyzing" => d.conflict[c].status = "analyzing"
              \/ /\ e.conflict[c] = d.conflict[c]
                 /\ \A s \in S : Present(d.fragment, s) \in Ids(d.evidence[c])
<1>1. CASE d.conflict[c].status = "resolved"
  <2>1. e = Reopened(d, c)
      BY <1>1 DEF Renewed
  <2> QED
      BY <2>1, ReopenedDoes
<1>2. CASE /\ d.conflict[c].status # "resolved"
           /\ \E s \in S : Present(d.fragment, s) \notin Ids(d.evidence[c])
  <2>1. e = Bump(d, c)
      BY <1>2 DEF Renewed
  <2> QED
      BY <1>2, <2>1, BumpKeeps
<1>3. CASE /\ d.conflict[c].status # "resolved"
           /\ ~ \E s \in S : Present(d.fragment, s) \notin Ids(d.evidence[c])
  <2>1. e = d
      BY <1>3 DEF Renewed
  <2> QED
      BY <1>3, <2>1, SameAnalysesReflexive
<1> QED
    BY <1>1, <1>2, <1>3

\* A case of the place that exists, or the next one.
LEMMA MatchingIs ==
    ASSUME NEW d, Sound(d)
    PROVE  Exists(d, Matching(d)) \/ Matching(d) = NextCase(d)
<1> DEFINE R == {c \in Numbered(d) : d.conflict[c].recent}
<1>1. Matching(d) = IF R = {} THEN NextCase(d) ELSE Max(R)
    BY DEF Matching
<1>2. CASE R # {}
  <2>1. R \subseteq Case
      BY DEF Numbered
  <2> HIDE DEF R
  <2>2. Max(R) \in R
      BY <1>2, <2>1, MaxIsThere
  <2> USE DEF R
  <2>3. Exists(d, Max(R))
      BY <2>2 DEF Numbered
  <2> QED
      BY <1>1, <1>2, <2>3
<1> QED
    BY <1>1, <1>2

\* Fragments of which only statuses have changed, and none to or from "withdrawn".
LEMMA StatusesKeep ==
    ASSUME NEW d, Sound(d), NEW e, e \in Databases,
           e.conflict = d.conflict, e.evidence = d.evidence,
           \A s \in Source : /\ e.fragment[s].value = d.fragment[s].value
                             /\ d.fragment[s].revision <= e.fragment[s].revision
                             /\ e.fragment[s].status # "withdrawn" => d.fragment[s].status # "withdrawn"
                             /\ e.fragment[s].status = "withdrawn" => d.fragment[s].status = "withdrawn"
                             /\ e.fragment[s].status = "absent" => e.fragment[s] = d.fragment[s]
    PROVE  Sound(e)
<1>1. d \in Databases /\ d.fragment \in Fragments /\ e.fragment \in Fragments
    BY DatabasesHave DEF Sound
<1>2. ASSUME NEW c \in Case PROVE GoodRows(e.fragment, e.evidence[c])
  <2>1. d.evidence[c] \in SUBSET Evidence /\ GoodRows(d.fragment, d.evidence[c])
      BY <1>1, DatabasesHave DEF Sound
  <2>2. GoodRows(e.fragment, d.evidence[c])
      BY <1>1, <2>1, LaterFragmentsGood
  <2> QED
      BY <2>2
<1>3. GoodFragments(e.fragment)
    BY DEF Sound, Source, GoodFragments
<1>4. \A c \in Case : Exists(e, c) <=> Exists(d, c)
    BY DEF Exists
<1> QED
    BY <1>2, <1>3, <1>4, StaysSound

LEMMA FindOrOpenDoes ==
    ASSUME NEW d, Sound(d), NEW S \in SUBSET Source, \A s \in S : d.fragment[s].status # "withdrawn",
           Matching(d) \in Case, NEW e, e = FindOrOpen(d, S)
    PROVE  /\ Sound(e) /\ Stands(d, e) /\ SameAnalyses(d.analysis, e.analysis)
           /\ \A c \in Case : Moved(d, e, c)
           /\ Exists(e, Matching(d)) /\ e.conflict[Matching(d)].status # "resolved"
           /\ \A s \in S : Speaks(e.evidence[Matching(d)], s)
           /\ Grows(d, e)
<1> DEFINE c == Matching(d)
           F(h) == [s \in Source |-> IF s \in S THEN [h.fragment[s] EXCEPT !.status = "conflict"]
                                     ELSE h.fragment[s]]
<1>1. PICK g : g = IF Exists(d, c) THEN Renewed(d, c, S) ELSE Opened(d)
    OBVIOUS
<1>2. PICK h : h = AddEvidence(g, c, S)
    OBVIOUS
<1>3. e = [h EXCEPT !.fragment = F(h)]
    BY <1>1, <1>2 DEF FindOrOpen
<1>4. c \in Case /\ (Exists(d, c) \/ c = NextCase(d))
    BY MatchingIs
<1>5. d \in Databases /\ d.fragment \in Fragments
    BY DatabasesHave DEF Sound
<1> HIDE DEF c
<1>6. /\ Sound(g) /\ Exists(g, c) /\ g.conflict[c].status # "resolved"
      /\ g.fragment = d.fragment /\ g.evidence = d.evidence
      /\ g.fact.status = "current" => g.fact = d.fact
      /\ SameAnalyses(d.analysis, g.analysis)
      /\ \A b \in Case \ {c} : g.conflict[b] = d.conflict[b]
  <2>1. CASE Exists(d, c)
    <3>1. g = Renewed(d, c, S)
        BY <1>1, <2>1
    <3> QED
        BY <1>4, <2>1, <3>1, RenewedDoes
  <2>2. CASE ~Exists(d, c)
    <3>1. g = Opened(d) /\ c = NextCase(d)
        BY <1>1, <1>4, <2>2
    <3>2. /\ Sound(g) /\ Exists(g, c) /\ g.conflict[c].status # "resolved"
          /\ g.fragment = d.fragment /\ g.evidence = d.evidence /\ g.fact = d.fact
          /\ g.analysis = d.analysis
          /\ \A b \in Case \ {c} : g.conflict[b] = d.conflict[b]
        BY <1>4, <3>1, OpenedDoes
    <3> QED
        BY <3>2, SameAnalysesReflexive
  <2> QED
      BY <2>1, <2>2
<1>7. /\ Sound(h) /\ Stands(g, h)
      /\ h.fragment = g.fragment /\ h.conflict = g.conflict /\ h.fact = g.fact /\ h.analysis = g.analysis
      /\ \A b \in Case \ {c} : h.evidence[b] = g.evidence[b]
      /\ h.evidence[c] = RowsWith(g.fragment, g.evidence[c], S)
    BY <1>2, <1>4, <1>6, AddEvidenceKeeps
<1>8. h \in Databases
    BY <1>7 DEF Sound
<1>9. F(h) \in Fragments /\ \A s \in Source : /\ F(h)[s].value = h.fragment[s].value
                                              /\ F(h)[s].revision = h.fragment[s].revision
                                              /\ F(h)[s].status = IF s \in S THEN "conflict"
                                                                  ELSE h.fragment[s].status
                                              /\ F(h)[s].live = h.fragment[s].live
                                              /\ F(h)[s].accepted = h.fragment[s].accepted
                                              /\ s \notin S => F(h)[s] = h.fragment[s]
  <2>1. \A y \in Fragment : /\ [y EXCEPT !.status = "conflict"] \in Fragment
                            /\ [y EXCEPT !.status = "conflict"].value = y.value
                            /\ [y EXCEPT !.status = "conflict"].revision = y.revision
                            /\ [y EXCEPT !.status = "conflict"].status = "conflict"
                            /\ [y EXCEPT !.status = "conflict"].live = y.live
                            /\ [y EXCEPT !.status = "conflict"].accepted = y.accepted
      BY DEF Fragment
  <2>2. \A s \in Source : h.fragment[s] \in Fragment
      BY <1>8, DatabasesHave
  <2>3. \A s \in Source : F(h)[s] = IF s \in S THEN [h.fragment[s] EXCEPT !.status = "conflict"]
                                     ELSE h.fragment[s]
      OBVIOUS
  <2>4. F(h) \in Fragments
      BY <2>1, <2>2 DEF Fragments
  <2> HIDE DEF F
  <2>5. ASSUME NEW s \in Source
        PROVE  /\ F(h)[s].value = h.fragment[s].value
               /\ F(h)[s].revision = h.fragment[s].revision
               /\ F(h)[s].status = IF s \in S THEN "conflict" ELSE h.fragment[s].status
               /\ F(h)[s].live = h.fragment[s].live
               /\ F(h)[s].accepted = h.fragment[s].accepted
               /\ s \notin S => F(h)[s] = h.fragment[s]
    <3>1. CASE s \in S
      <4>1. F(h)[s] = [h.fragment[s] EXCEPT !.status = "conflict"] /\ h.fragment[s] \in Fragment
          BY <2>2, <2>3, <3>1
      <4> QED
          BY <2>1, <3>1, <4>1
    <3>2. CASE s \notin S
        BY <2>3, <3>2
    <3> QED
        BY <3>1, <3>2
  <2> QED
      BY <2>4, <2>5
<1> HIDE DEF F
<1>10. /\ e \in Databases
       /\ e.fragment = F(h) /\ e.conflict = h.conflict /\ e.evidence = h.evidence
       /\ e.fact = h.fact /\ e.analysis = h.analysis
    BY <1>3, <1>8, <1>9 DEF Databases
<1>11. Sound(e)
  <2>1. \A s \in Source : h.fragment[s].revision \in Nat
      BY <1>8, DatabasesHave
  <2>2. \A s \in S : h.fragment[s].status # "withdrawn"
      BY <1>6, <1>7
  <2>3. \A s \in Source : /\ e.fragment[s].value = h.fragment[s].value
                          /\ h.fragment[s].revision <= e.fragment[s].revision
                          /\ e.fragment[s].status # "withdrawn" => h.fragment[s].status # "withdrawn"
                          /\ e.fragment[s].status = "withdrawn" => h.fragment[s].status = "withdrawn"
                          /\ e.fragment[s].status = "absent" => e.fragment[s] = h.fragment[s]
      BY <1>9, <1>10, <2>1, <2>2
  <2> QED
      BY <1>7, <1>10, <2>3, StatusesKeep
<1>12. Stands(d, e)
    BY <1>6, <1>7, <1>10 DEF Stands
<1>13. SameAnalyses(d.analysis, e.analysis)
    BY <1>6, <1>7, <1>10
<1>14. ASSUME NEW b \in Case PROVE Moved(d, e, b)
  <2>1. CASE b # c
      BY <1>6, <1>7, <1>10, <2>1 DEF Moved
  <2>2. CASE b = c /\ ~Exists(d, c)
    <3>1. g = Opened(d) /\ c = NextCase(d)
        BY <1>1, <1>4, <2>2
    <3>2. Moved(d, g, c) /\ ~Exists(d, c) /\ Exists(g, c)
        BY <1>4, <3>1, OpenedDoes
    <3>3. g.conflict[c] # d.conflict[c]
        BY <3>2 DEF Exists
    <3> QED
        BY <1>7, <1>10, <2>2, <3>2, <3>3 DEF Moved, Exists
  <2>3. CASE b = c /\ Exists(d, c)
    <3>1. g = Renewed(d, c, S)
        BY <1>1, <2>3
    <3>2. \/ /\ d.conflict[c].revision < g.conflict[c].revision
             /\ g.conflict[c].status = "analyzing" => d.conflict[c].status = "analyzing"
          \/ /\ g.conflict[c] = d.conflict[c]
             /\ \A s \in S : Present(d.fragment, s) \in Ids(d.evidence[c])
        BY <1>4, <2>3, <3>1, RenewedDoes
    <3>3. CASE /\ d.conflict[c].revision < g.conflict[c].revision
               /\ g.conflict[c].status = "analyzing" => d.conflict[c].status = "analyzing"
        BY <1>6, <1>7, <1>10, <2>3, <3>3 DEF Moved, Exists
    <3>4. CASE /\ g.conflict[c] = d.conflict[c]
               /\ \A s \in S : Present(d.fragment, s) \in Ids(d.evidence[c])
      <4>1. d.evidence[c] \in SUBSET Evidence /\ GoodRows(d.fragment, d.evidence[c])
          BY <1>4, <1>5, DatabasesHave DEF Sound
      <4>2. RowsWith(d.fragment, d.evidence[c], S) = d.evidence[c]
          BY <1>5, <3>4, <4>1, RowsWithSame
      <4>3. e.evidence[c] = d.evidence[c] /\ e.conflict[c] = d.conflict[c]
          BY <1>6, <1>7, <1>10, <3>4, <4>2
      <4> QED
          BY <2>3, <4>3 DEF Moved
    <3> QED
        BY <3>2, <3>3, <3>4
  <2> QED
      BY <2>1, <2>2, <2>3
<1>15. Exists(e, c)
    BY <1>6, <1>7, <1>10 DEF Exists
<1>16. e.conflict[c].status # "resolved" /\ \A s \in S : Speaks(e.evidence[c], s)
  <2>1. d.evidence[c] \in SUBSET Evidence
      BY <1>4, <1>5, DatabasesHave
  <2>2. \A s \in S : Speaks(RowsWith(d.fragment, d.evidence[c], S), s)
      BY <1>5, <2>1, RowsWithSpeaks
  <2> QED
      BY <1>6, <1>7, <1>10, <2>2
<1>17. Grows(d, e)
  <2>1. SameReports(d.fragment, e.fragment)
      BY <1>6, <1>7, <1>9, <1>10 DEF SameReports, Source
  <2>2. ASSUME NEW b \in Case
        PROVE  /\ \A s \in Report : Speaks(d.evidence[b], s) => Speaks(e.evidence[b], s)
               /\ LeftToOperators(d.conflict[b]) => LeftToOperators(e.conflict[b])
    <3>1. CASE b # c
        BY <1>6, <1>7, <1>10, <3>1
    <3>2. CASE b = c
      <4>1. d.evidence[c] \in SUBSET Evidence
          BY <1>4, <1>5, DatabasesHave
      <4>2. \A s \in Source : Speaks(d.evidence[c], s)
                                => Speaks(RowsWith(d.fragment, d.evidence[c], S), s)
          BY <1>5, <4>1, RowsWithSpeaks
      <4> QED
          BY <1>6, <1>7, <1>10, <1>16, <3>2, <4>2 DEF LeftToOperators, Source
    <3> QED
        BY <3>1, <3>2
  <2> QED
      BY <2>1, <2>2 DEF Grows
<1> QED
    BY <1>11, <1>12, <1>13, <1>14, <1>15, <1>16, <1>17 DEF c

-----------------------------------------------------------------------------
(***************************************************************************)
(* Reports that change                                                     *)
(***************************************************************************)
\* Report r has the fragment y now, and none of its rows is current.
Replaced(d, r, y) == [Invalidated(d, r) EXCEPT !.fragment[r] = y]

\* What may become of a fragment that is x.
Replaces(x, y) ==
    /\ y.status # "absent"
    /\ \/ y.revision > x.revision
       \/ y.revision = x.revision /\ y.value = x.value /\ y.status = "withdrawn"

LEMMA ReplacedIs ==
    ASSUME NEW d, Sound(d), NEW r \in Report, NEW y \in Fragment,
           NEW e, e = Replaced(d, r, y)
    PROVE  /\ e \in Databases
           /\ e.fragment = [d.fragment EXCEPT ![r] = y]
           /\ \A c \in Case : e.evidence[c] = Unmarked(d.evidence[c], r)
           /\ e.conflict = d.conflict /\ e.fact = d.fact /\ e.analysis = d.analysis
<1> DEFINE N == [c \in Case |-> Unmarked(d.evidence[c], r)]
           f == [d.fragment EXCEPT ![r] = y]
<1>1. d \in Databases /\ d.fragment \in Fragments /\ r \in Source
    BY DatabasesHave DEF Sound, Source
<1>2. \A c \in Case : d.evidence[c] \in SUBSET Evidence
    BY <1>1, DatabasesHave
<1>3. e = [[d EXCEPT !.evidence = N] EXCEPT !.fragment[r] = y]
    BY DEF Replaced, Invalidated, Unmarked
<1>4. \A c \in Case : N[c] = Unmarked(d.evidence[c], r)
    OBVIOUS
<1>5. N \in [Case -> SUBSET Evidence]
  <2>1. ASSUME NEW c \in Case PROVE Unmarked(d.evidence[c], r) \in SUBSET Evidence
    <3>1. ASSUME NEW g \in Unmarked(d.evidence[c], r) PROVE g \in Evidence
        BY <1>2, UnmarkedAre, UnmarkIs
    <3> QED
        BY <3>1
  <2> QED
      BY <2>1
<1> HIDE DEF N
<1>6. f \in Fragments /\ f[r] = y /\ \A s \in Source \ {r} : f[s] = d.fragment[s]
    BY <1>1 DEF Fragments
<1>7. /\ e \in Databases
      /\ e.fragment = f /\ e.evidence = N
      /\ e.conflict = d.conflict /\ e.fact = d.fact /\ e.analysis = d.analysis
    BY <1>1, <1>3, <1>5, <1>6 DEF Databases
<1>8. e.fragment = [d.fragment EXCEPT ![r] = y]
    BY <1>7
<1> HIDE DEF f
<1> QED
    BY <1>4, <1>7, <1>8

\* The other reports that contradict each other keep their rows.
LEMMA ReplacedSeen ==
    ASSUME NEW d, Sound(d), NEW r \in Report, NEW y \in Fragment, PlainReport(y), Seen(d),
           NEW e, e = Replaced(d, r, y)
    PROVE  SeenAmong(e, Report \ {r})
<1>1. /\ e \in Databases
      /\ e.fragment = [d.fragment EXCEPT ![r] = y]
      /\ \A c \in Case : e.evidence[c] = Unmarked(d.evidence[c], r)
      /\ e.conflict = d.conflict /\ e.fact = d.fact /\ e.analysis = d.analysis
    BY ReplacedIs
<1>2. \A c \in Case : d.evidence[c] \in SUBSET Evidence
    BY DatabasesHave DEF Sound
<1>3. /\ e.fragment[r] = y
      /\ \A s \in Report \ {r} : e.fragment[s] = d.fragment[s]
    BY <1>1, DatabasesHave DEF Sound, Source, Fragments
<1>4. \A s \in Report : PlainReport(e.fragment[s])
    BY <1>3 DEF Seen, SeenAmong
<1>5. ASSUME NEW s \in Report \ {r}, NEW t \in Report \ {r}, Opposed(e.fragment, s, t)
      PROVE  \E c \in Case : SeenIn(e, c, s, t)
  <2>1. Opposed(d.fragment, s, t)
      BY <1>3, <1>5 DEF Opposed
  <2>2. PICK c \in Case : SeenIn(d, c, s, t)
      BY <2>1 DEF Seen, SeenAmong
  <2>3. Speaks(e.evidence[c], s) /\ Speaks(e.evidence[c], t)
      BY <1>1, <1>2, <2>2, UnmarkedSpeaks DEF SeenIn
  <2> QED
      BY <1>1, <2>2, <2>3 DEF SeenIn
<1> QED
    BY <1>4, <1>5 DEF SeenAmong

LEMMA ReplacedDoes ==
    ASSUME NEW d, Sound(d), NEW r \in Report, NEW y \in Fragment, Replaces(d.fragment[r], y),
           NEW e, e = Replaced(d, r, y)
    PROVE  /\ Sound(e)
           /\ e.fragment[r] = y
           /\ e.conflict = d.conflict /\ e.fact = d.fact /\ e.analysis = d.analysis
           /\ \A c \in Case : /\ OwnRows(d, r)[c] = {} => e.evidence[c] = d.evidence[c]
                              /\ OwnRows(d, r)[c] # {} => Exists(d, c)
                              /\ \A x : Backed(d.evidence[c], x) =>
                                   Backed(e.evidence[c], x) \/ x \in OwnRows(d, r)[c]
<1>1. d \in Databases /\ d.fragment \in Fragments /\ r \in Source /\ r \notin Answer
    BY DatabasesHave, SourcesAreApart DEF Sound, Source
<1>2. \A c \in Case : d.evidence[c] \in SUBSET Evidence /\ GoodRows(d.fragment, d.evidence[c])
    BY <1>1, DatabasesHave DEF Sound
<1> DEFINE f == e.fragment
<1>3. /\ e \in Databases
      /\ e.fragment = [d.fragment EXCEPT ![r] = y]
      /\ \A c \in Case : e.evidence[c] = Unmarked(d.evidence[c], r)
      /\ e.conflict = d.conflict /\ e.fact = d.fact /\ e.analysis = d.analysis
    BY ReplacedIs
<1>4. f \in Fragments /\ f[r] = y /\ \A s \in Source \ {r} : f[s] = d.fragment[s]
    BY <1>1, <1>3 DEF Fragments
<1> HIDE DEF f
<1>5. ASSUME NEW c \in Case PROVE GoodRows(f, e.evidence[c])
  <2>1. GoodRows([d.fragment EXCEPT ![r] = y], Unmarked(d.evidence[c], r))
      BY <1>1, <1>2, UnmarkedGood DEF Replaces
  <2>2. f = [d.fragment EXCEPT ![r] = y]
      BY <1>3 DEF f
  <2> QED
      BY <1>3, <2>1, <2>2
<1>6. \A c \in Case : Exists(e, c) <=> Exists(d, c)
    BY <1>3 DEF Exists
<1>7. ASSUME NEW c \in Case, OwnRows(d, r)[c] = {} PROVE e.evidence[c] = d.evidence[c]
  <2>1. \A g \in d.evidence[c] : g.source = r => ~g.current
      BY <1>7 DEF OwnRows, Ids, Current
  <2>2. Unmarked(d.evidence[c], r) = d.evidence[c]
      BY <1>2, <2>1, UnmarkedSame
  <2> QED
      BY <1>3, <2>2
<1>8. ASSUME NEW c \in Case, ~Exists(d, c) PROVE d.evidence[c] = {} /\ OwnRows(d, r)[c] = {}
    BY <1>8 DEF Sound, OwnRows, Ids, Current
<1>9. GoodFragments(f)
    BY <1>1, <1>4 DEF Sound, GoodFragments, Replaces, Source
<1>10. Sound(e)
  <2>1. \A c \in Case : /\ Exists(e, c) <=> Exists(d, c)
                        /\ ~Exists(d, c) => e.conflict[c] = d.conflict[c] /\ e.evidence[c] = d.evidence[c]
                        /\ GoodRows(e.fragment, e.evidence[c])
      BY <1>3, <1>5, <1>6, <1>7, <1>8 DEF f
  <2>2. GoodFragments(e.fragment)
      BY <1>9 DEF f
  <2> QED
      BY <1>3, <2>1, <2>2, StaysSound
<1>11. ASSUME NEW c \in Case, NEW x, Backed(d.evidence[c], x)
       PROVE  Backed(e.evidence[c], x) \/ x \in OwnRows(d, r)[c]
  <2>1. OwnRows(d, r)[c] = Ids({g \in Current(d.evidence[c]) : g.source = r})
      BY DEF OwnRows
  <2> QED
      BY <1>2, <1>3, <1>11, <2>1, UnmarkedBacked
<1> QED
    BY <1>3, <1>4, <1>7, <1>8, <1>10, <1>11 DEF f

LEMMA NormalIs ==
    ASSUME NEW y \in Fragment
    PROVE  /\ Normal(y) \in Fragment /\ Normal(y).value = y.value
           /\ Normal(y).status = "normal" /\ Normal(y).revision = y.revision + 1
           /\ Normal(y).live = y.live /\ Normal(y).accepted = y.accepted
           /\ y.revision \in Nat
<1>1. y.revision \in Nat
    BY DEF Fragment
<1>2. PICK n \in Nat : n = y.revision + 1
    BY <1>1
<1>3. PICK x : x = [y EXCEPT !.status = "normal", !.revision = n]
    OBVIOUS
<1>4. Normal(y) = x
    BY <1>1, <1>2, <1>3 DEF Normal
<1>5. /\ x \in Fragment /\ x.value = y.value /\ x.status = "normal" /\ x.revision = n
      /\ x.live = y.live /\ x.accepted = y.accepted
    BY <1>3 DEF Fragment
<1> QED
    BY <1>1, <1>2, <1>4, <1>5

LEMMA FreedDoes ==
    ASSUME NEW d, Sound(d), NEW C, NEW e, e = Freed(d, C)
    PROVE  /\ Sound(e)
           /\ e.conflict = d.conflict /\ e.evidence = d.evidence /\ e.fact = d.fact
           /\ e.analysis = d.analysis
           /\ SameReports(d.fragment, e.fragment)
<1> DEFINE open == {c \in Case : d.conflict[c].status # "resolved"}
           needed == {x.source : x \in UNION {Current(d.evidence[c]) : c \in open}}
           freed == {x.source : x \in UNION {d.evidence[c] : c \in C}} \ needed
           F == [s \in Source |-> IF s \in freed /\ d.fragment[s].status = "conflict"
                                  THEN Normal(d.fragment[s]) ELSE d.fragment[s]]
<1>1. e = [d EXCEPT !.fragment = F]
    BY DEF Freed
<1>2. d \in Databases /\ \A s \in Source : d.fragment[s] \in Fragment /\ d.fragment[s].revision \in Nat
    BY DatabasesHave DEF Sound
<1>3. \A y \in Fragment : /\ Normal(y) \in Fragment /\ Normal(y).value = y.value
                          /\ Normal(y).status = "normal" /\ Normal(y).revision = y.revision + 1
                          /\ Normal(y).live = y.live /\ Normal(y).accepted = y.accepted
    BY NormalIs
<1>4. \A s \in Source : F[s] = IF s \in freed /\ d.fragment[s].status = "conflict"
                               THEN Normal(d.fragment[s]) ELSE d.fragment[s]
    OBVIOUS
<1>5. F = [s \in Source |-> F[s]]
    OBVIOUS
<1> HIDE DEF F, freed
<1>6. \A s \in Source : /\ F[s] \in Fragment
                        /\ F[s] = d.fragment[s] \/ /\ d.fragment[s].status = "conflict"
                                                   /\ F[s].status = "normal"
                                                   /\ F[s].value = d.fragment[s].value
                                                   /\ F[s].revision = d.fragment[s].revision + 1
                                                   /\ F[s].live = d.fragment[s].live
                                                   /\ F[s].accepted = d.fragment[s].accepted
    BY <1>2, <1>3, <1>4
<1>7. F \in Fragments
    BY <1>5, <1>6 DEF Fragments
<1>8. /\ e \in Databases /\ e.fragment = F
      /\ e.conflict = d.conflict /\ e.evidence = d.evidence /\ e.fact = d.fact
      /\ e.analysis = d.analysis
    BY <1>1, <1>2, <1>7 DEF Databases
<1>9. \A s \in Source : /\ e.fragment[s].value = d.fragment[s].value
                        /\ d.fragment[s].revision <= e.fragment[s].revision
                        /\ e.fragment[s].status # "withdrawn" => d.fragment[s].status # "withdrawn"
                        /\ e.fragment[s].status = "withdrawn" => d.fragment[s].status = "withdrawn"
                        /\ e.fragment[s].status = "absent" => e.fragment[s] = d.fragment[s]
    BY <1>2, <1>6, <1>8
<1>10. Sound(e)
    BY <1>8, <1>9, StatusesKeep
<1>11. SameReports(d.fragment, e.fragment)
    BY <1>6, <1>8 DEF SameReports, Source
<1> QED
    BY <1>8, <1>10, <1>11

\* Cases whose current evidence contradicts itself are not settled: two reports that contradict
\* each other stay before the operators.
LEMMA SettledSeen ==
    ASSUME NEW d, Sound(d), NEW e, SameReports(d.fragment, e.fragment), e.evidence = d.evidence,
           \A c \in Case : Contradictory(Current(d.evidence[c])) =>
                            /\ e.conflict[c].status = d.conflict[c].status
                            /\ e.conflict[c].resolution = d.conflict[c].resolution,
           Seen(d)
    PROVE  Seen(e)
<1>1. ASSUME NEW s \in Report PROVE PlainReport(e.fragment[s])
    BY DEF Seen, SeenAmong, SameReports, PlainReport
<1>2. ASSUME NEW r \in Report, NEW t \in Report, Opposed(e.fragment, r, t)
      PROVE  \E c \in Case : SeenIn(e, c, r, t)
  <2>1. Opposed(d.fragment, r, t)
      BY <1>2 DEF SameReports, Opposed
  <2>2. PICK c \in Case : SeenIn(d, c, r, t)
      BY <2>1 DEF Seen, SeenAmong
  <2>3. PICK g \in d.evidence[c] : g.current /\ g.source = r
      BY <2>2 DEF SeenIn, Speaks
  <2>4. PICK h \in d.evidence[c] : h.current /\ h.source = t
      BY <2>2 DEF SeenIn, Speaks
  <2>5. g.value = d.fragment[r].value /\ h.value = d.fragment[t].value
      BY <2>3, <2>4 DEF Sound, GoodRows, GoodRow
  <2>6. Contradictory(Current(d.evidence[c]))
      BY <2>1, <2>3, <2>4, <2>5 DEF Contradictory, Current, Opposed
  <2> QED
      BY <2>2, <2>6 DEF SeenIn, LeftToOperators
<1> QED
    BY <1>1, <1>2 DEF Seen, SeenAmong

\* Case c, which is y, when the cases M move on and the cases T are resolved.
CaseWith(y, c, M, T) ==
    [y EXCEPT !.revision = IF c \in M THEN @ + 1 ELSE @,
              !.status = IF c \in T THEN "resolved" ELSE @,
              !.resolution = IF c \in T THEN "automatic" ELSE @]

LEMMA CaseWithIs ==
    ASSUME NEW y \in ConflictCase, NEW c, NEW M, NEW T
    PROVE  /\ CaseWith(y, c, M, T) \in ConflictCase
           /\ CaseWith(y, c, M, T).revision = IF c \in M THEN y.revision + 1 ELSE y.revision
           /\ CaseWith(y, c, M, T).status = IF c \in T THEN "resolved" ELSE y.status
           /\ CaseWith(y, c, M, T).resolution = IF c \in T THEN "automatic" ELSE y.resolution
           /\ c \notin M /\ c \notin T => CaseWith(y, c, M, T) = y
<1>1. PICK n \in Nat : n = IF c \in M THEN y.revision + 1 ELSE y.revision
    BY DEF ConflictCase
<1>2. PICK s, t : /\ s = IF c \in T THEN "resolved" ELSE y.status
                  /\ t = IF c \in T THEN "automatic" ELSE y.resolution
    OBVIOUS
<1>3. PICK x : x = [y EXCEPT !.revision = n, !.status = s, !.resolution = t]
    OBVIOUS
<1>4. x = CaseWith(y, c, M, T)
    BY <1>1, <1>2, <1>3 DEF CaseWith
<1>5. /\ s \in {"absent", "open", "reopened", "analyzing", "analysis_ready", "resolved"}
      /\ t \in {"none", "decision", "automatic"} /\ y.recent \in BOOLEAN
    BY <1>2 DEF ConflictCase
<1>6. x \in ConflictCase /\ x.revision = n /\ x.status = s /\ x.resolution = t /\ x.recent = y.recent
    BY <1>3, <1>5 DEF ConflictCase
<1>7. n = y.revision /\ s = y.status /\ t = y.resolution => x = y
    BY <1>6 DEF ConflictCase
<1> QED
    BY <1>1, <1>2, <1>4, <1>6, <1>7

\* Cases that rows were withdrawn from move on from what they were before, whatever moved them
\* in between; others that are resolved now move on, too.
LEMMA ReconciledDoes ==
    ASSUME NEW d, Sound(d), NEW C \in SUBSET Case, \A c \in C : Exists(d, c),
           NEW W, NEW B, \A c \in Case : B[c].revision \in Nat,
           NEW e, e = Reconciled(d, C, W, B)
    PROVE  /\ Sound(e)
           /\ SameAnalyses(d.analysis, e.analysis)
           /\ e.evidence = d.evidence
           /\ Seen(d) => Seen(e)
           /\ e.fact.status = "current" =>
                 e.fact = d.fact /\ W[d.fact.conflict] \cap d.fact.accepted = {}
           /\ \A c \in Case : /\ Exists(e, c) <=> Exists(d, c)
                              /\ e.conflict[c].status = "analyzing" => d.conflict[c].status = "analyzing"
                              /\ c \notin C \/ W[c] = {} => Moved(d, e, c)
                              /\ /\ c \in C /\ W[c] # {}
                                 /\ B[c].revision <= d.conflict[c].revision
                                 => B[c].revision < e.conflict[c].revision
<1> DEFINE hit == {c \in C : W[c] # {}}
           settled == {c \in C : /\ ~Contradictory(Current(d.evidence[c]))
                                 /\ d.conflict[c].status # "resolved"}
           moved == {c \in hit : d.conflict[c].revision = B[c].revision} \cup (settled \ hit)
           row(c) == [d.conflict[c] EXCEPT
                         !.revision = IF c \in moved THEN @ + 1 ELSE @,
                         !.status = IF c \in settled THEN "resolved" ELSE @,
                         !.resolution = IF c \in settled THEN "automatic" ELSE @]
           R == [c \in Case |-> row(c)]
           u == [d EXCEPT !.conflict = R]
<1>1. PICK g, h : g = MarkStale(u, hit \cup settled) /\ h = ReviewedAfter(g, W) /\ e = Freed(h, settled)
    BY DEF Reconciled
<1>2. d \in Databases /\ \A c \in Case : d.conflict[c] \in ConflictCase /\ d.conflict[c].revision \in Nat
    BY DatabasesHave DEF Sound
<1>3. \A c \in Case : R[c] = row(c)
    OBVIOUS
<1>4. \A c \in Case : /\ row(c) \in ConflictCase
                      /\ row(c).revision = IF c \in moved THEN d.conflict[c].revision + 1
                                           ELSE d.conflict[c].revision
                      /\ row(c).status = IF c \in settled THEN "resolved" ELSE d.conflict[c].status
                      /\ row(c).resolution = IF c \in settled THEN "automatic"
                                             ELSE d.conflict[c].resolution
                      /\ c \notin settled /\ c \notin moved => row(c) = d.conflict[c]
  <2>1. \A c \in Case : row(c) = CaseWith(d.conflict[c], c, moved, settled)
      BY DEF CaseWith
  <2> HIDE DEF row, moved, settled
  <2>2. \A y \in ConflictCase, c \in Case :
          LET x == CaseWith(y, c, moved, settled) IN
          /\ x \in ConflictCase
          /\ x.revision = IF c \in moved THEN y.revision + 1 ELSE y.revision
          /\ x.status = IF c \in settled THEN "resolved" ELSE y.status
          /\ x.resolution = IF c \in settled THEN "automatic" ELSE y.resolution
          /\ c \notin settled /\ c \notin moved => x = y
      BY CaseWithIs
  <2> QED
      BY <1>2, <2>1, <2>2
<1>5. R \in [Case -> ConflictCase]
    BY <1>3, <1>4
<1>6. \A c \in Case : /\ c \in moved => c \in C
                      /\ c \in settled => c \in C
                      /\ Contradictory(Current(d.evidence[c])) => c \notin settled
                      /\ W[c] = {} \/ c \notin C => (c \in moved <=> c \in settled)
                      /\ c \in C /\ W[c] # {} => (c \in moved <=> d.conflict[c].revision = B[c].revision)
    OBVIOUS
<1> HIDE DEF row, R, moved, settled, hit
<1>7. /\ u \in Databases /\ u.conflict = R /\ u.fragment = d.fragment /\ u.evidence = d.evidence
      /\ u.fact = d.fact /\ u.analysis = d.analysis
    BY <1>2, <1>5 DEF Databases
<1> HIDE DEF u
<1>8. /\ g \in Databases
      /\ g.fragment = u.fragment /\ g.conflict = u.conflict /\ g.evidence = u.evidence
      /\ g.fact = u.fact /\ SameAnalyses(u.analysis, g.analysis)
  <2>1. g = MarkStale(u, hit \cup settled)
      BY <1>1
  <2> QED
      BY <1>7, <2>1, MarkStaleDoes
<1>9. /\ h \in Databases
      /\ h.fragment = g.fragment /\ h.conflict = g.conflict /\ h.evidence = g.evidence
      /\ h.analysis = g.analysis
      /\ h.fact.status = "current" => h.fact = g.fact /\ W[g.fact.conflict] \cap g.fact.accepted = {}
  <2>1. g.fact.conflict \in Case
      BY <1>8, DatabasesHave
  <2>2. CASE W[g.fact.conflict] \cap g.fact.accepted = {}
    <3>1. h = g
        BY <1>1, <2>2 DEF ReviewedAfter
    <3> QED
        BY <1>8, <2>2, <3>1
  <2>3. CASE W[g.fact.conflict] \cap g.fact.accepted # {}
    <3>1. h = Review(g, g.fact.conflict)
        BY <1>1, <2>3 DEF ReviewedAfter
    <3> QED
        BY <1>8, <2>1, <3>1, ReviewDoes
  <2> QED
      BY <2>2, <2>3
<1>10. /\ h.conflict = R /\ h.fragment = d.fragment /\ h.evidence = d.evidence
       /\ SameAnalyses(d.analysis, h.analysis)
    BY <1>7, <1>8, <1>9
<1>11. \A c \in Case : Exists(h, c) <=> Exists(d, c)
    BY <1>3, <1>4, <1>6, <1>10 DEF Exists
<1>12. Sound(h)
  <2>1. \A c \in Case : /\ Exists(h, c) <=> Exists(d, c)
                        /\ ~Exists(d, c) => h.conflict[c] = d.conflict[c] /\ h.evidence[c] = d.evidence[c]
                        /\ GoodRows(h.fragment, h.evidence[c])
      BY <1>3, <1>4, <1>6, <1>10, <1>11 DEF Sound
  <2>2. GoodFragments(h.fragment)
      BY <1>10 DEF Sound
  <2> QED
      BY <1>9, <2>1, <2>2, StaysSound
<1>13. /\ Sound(e)
       /\ e.conflict = h.conflict /\ e.evidence = h.evidence /\ e.fact = h.fact
       /\ e.analysis = h.analysis
       /\ SameReports(h.fragment, e.fragment)
    BY <1>1, <1>12, FreedDoes
<1>14. ASSUME NEW c \in Case
       PROVE  /\ Exists(e, c) <=> Exists(d, c)
              /\ e.conflict[c].status = "analyzing" => d.conflict[c].status = "analyzing"
              /\ c \notin C \/ W[c] = {} => Moved(d, e, c)
              /\ /\ c \in C /\ W[c] # {}
                 /\ B[c].revision <= d.conflict[c].revision
                 => B[c].revision < e.conflict[c].revision
  <2>1. e.conflict[c] = row(c) /\ e.evidence[c] = d.evidence[c]
      BY <1>3, <1>10, <1>13
  <2>2. d.conflict[c].revision \in Nat /\ B[c].revision \in Nat
      BY <1>2
  <2>3. Exists(e, c) <=> Exists(d, c)
      BY <1>10, <1>11, <1>13 DEF Exists
  <2>4. e.conflict[c].status = "analyzing" => d.conflict[c].status = "analyzing"
      BY <1>4, <2>1
  <2>5. c \notin C \/ W[c] = {} => Moved(d, e, c)
      BY <1>4, <1>6, <2>1, <2>2, <2>3 DEF Moved, Exists
  <2>6. c \in C /\ W[c] # {} /\ B[c].revision <= d.conflict[c].revision
           => B[c].revision < e.conflict[c].revision
      BY <1>4, <1>6, <2>1, <2>2
  <2> QED
      BY <2>3, <2>4, <2>5, <2>6
<1>15. e.fact.status = "current" => e.fact = d.fact /\ W[d.fact.conflict] \cap d.fact.accepted = {}
    BY <1>7, <1>8, <1>9, <1>13
<1>16. Seen(d) => Seen(e)
  <2>1. \A c \in Case : Contradictory(Current(d.evidence[c])) =>
          /\ e.conflict[c].status = d.conflict[c].status
          /\ e.conflict[c].resolution = d.conflict[c].resolution
      BY <1>3, <1>4, <1>6, <1>10, <1>13
  <2> QED
      BY <1>10, <1>13, <2>1, SettledSeen
<1> QED
    BY <1>10, <1>13, <1>14, <1>15, <1>16

-----------------------------------------------------------------------------
(***************************************************************************)
(* What the operations commit                                              *)
(***************************************************************************)
\* The fact, if it is current, rests on evidence of its case.
Rests(d) ==
    d.fact.status = "current" =>
        \A x \in d.fact.accepted : Backed(d.evidence[d.fact.conflict], x)

\* Database e may be committed where d is the database.
Follows(d, e) ==
    /\ Sound(e)
    /\ Rests(d) => Rests(e)
    /\ Seen(d) => Seen(e)
    /\ SameAnalyses(d.analysis, e.analysis)
    /\ \A c \in Case : Moved(d, e, c)

LEMMA StandsRests ==
    ASSUME NEW d, NEW e, Stands(d, e), Rests(d)
    PROVE  Rests(e)
    BY DEF Stands, Rests

LEMMA FollowsTransitive ==
    ASSUME NEW d, Sound(d), NEW e, NEW g, Follows(d, e), Follows(e, g)
    PROVE  Follows(d, g)
<1>1. d \in Databases /\ e \in Databases /\ g \in Databases
    BY DEF Follows, Sound
<1>2. \A c \in Case : Moved(d, g, c)
    BY <1>1, MovedTransitive DEF Follows
<1>3. SameAnalyses(d.analysis, g.analysis)
    BY SameAnalysesTransitive DEF Follows
<1> QED
    BY <1>2, <1>3 DEF Follows

\* Report r has changed, d is what the detection made of it, and the cases are reconciled.
LEMMA ObservedFollows ==
    ASSUME NEW b, Sound(b), NEW r \in Report, NEW y \in Fragment, Replaces(b.fragment[r], y),
           NEW o, o = Replaced(b, r, y),
           NEW d, Sound(d), Stands(o, d), SameAnalyses(o.analysis, d.analysis),
           \A c \in Case : Moved(o, d, c), Seen(b) => Seen(d),
           NEW C \in SUBSET Case, Affected(b, r) \subseteq C, \A c \in C : Exists(d, c),
           NEW e, e = Reconciled(d, C, OwnRows(b, r), b.conflict)
    PROVE  Follows(b, e)
<1> DEFINE W == OwnRows(b, r)
<1>1. /\ Sound(o)
      /\ o.conflict = b.conflict /\ o.fact = b.fact /\ o.analysis = b.analysis
      /\ \A c \in Case : /\ W[c] = {} => o.evidence[c] = b.evidence[c]
                         /\ W[c] # {} => Exists(b, c)
                         /\ \A x : Backed(b.evidence[c], x) => Backed(o.evidence[c], x) \/ x \in W[c]
    BY ReplacedDoes
<1>2. \A c \in Case : b.conflict[c].revision \in Nat /\ d.conflict[c].revision \in Nat
    BY DatabasesHave DEF Sound
<1>3. \A c \in Case : c \notin C => W[c] = {}
    BY DEF Affected
<1>4. e = Reconciled(d, C, W, b.conflict)
    OBVIOUS
<1> HIDE DEF W
<1>5. /\ Sound(e)
      /\ SameAnalyses(d.analysis, e.analysis)
      /\ e.evidence = d.evidence
      /\ Seen(d) => Seen(e)
      /\ e.fact.status = "current" => e.fact = d.fact /\ W[d.fact.conflict] \cap d.fact.accepted = {}
      /\ \A c \in Case : /\ Exists(e, c) <=> Exists(d, c)
                         /\ e.conflict[c].status = "analyzing" => d.conflict[c].status = "analyzing"
                         /\ c \notin C \/ W[c] = {} => Moved(d, e, c)
                         /\ /\ c \in C /\ W[c] # {}
                            /\ b.conflict[c].revision <= d.conflict[c].revision
                            => b.conflict[c].revision < e.conflict[c].revision
    BY <1>2, <1>4, ReconciledDoes
<1>6. b \in Databases /\ o \in Databases /\ d \in Databases /\ e \in Databases
    BY <1>1, <1>5 DEF Sound
<1>7. ASSUME NEW c \in Case PROVE Moved(b, e, c)
  <2>1. CASE W[c] = {}
    <3>1. Moved(b, o, c)
        BY <1>1, <2>1 DEF Moved
    <3>2. Moved(d, e, c)
        BY <1>5, <2>1
    <3>3. Moved(b, d, c)
        BY <1>6, <3>1, MovedTransitive
    <3> QED
        BY <1>6, <3>2, <3>3, MovedTransitive
  <2>2. CASE W[c] # {}
    <3>1. c \in C /\ Exists(d, c) /\ Exists(e, c)
        BY <1>3, <1>5, <2>2
    <3>2. /\ b.conflict[c].revision <= d.conflict[c].revision
          /\ d.conflict[c].status = "analyzing" => b.conflict[c].status = "analyzing"
      <4>1. Moved(o, d, c)
          OBVIOUS
      <4> QED
          BY <1>1, <1>2, <4>1 DEF Moved
    <3>3. e.conflict[c].status = "analyzing" => d.conflict[c].status = "analyzing"
        BY <1>5
    <3>4. b.conflict[c].revision < e.conflict[c].revision
        BY <1>5, <2>2, <3>1, <3>2
    <3> QED
        BY <3>1, <3>2, <3>3, <3>4 DEF Moved
  <2> QED
      BY <2>1, <2>2
<1>8. ASSUME Rests(b) PROVE Rests(e)
  <2> SUFFICES ASSUME e.fact.status = "current", NEW x \in e.fact.accepted
               PROVE  Backed(e.evidence[e.fact.conflict], x)
      BY DEF Rests
  <2>1. e.fact = d.fact /\ W[d.fact.conflict] \cap d.fact.accepted = {}
      BY <1>5
  <2>2. /\ d.fact = o.fact
        /\ Backed(o.evidence[o.fact.conflict], x) => Backed(d.evidence[d.fact.conflict], x)
      BY <2>1 DEF Stands
  <2>3. o.fact = b.fact /\ x \notin W[b.fact.conflict] /\ b.fact.conflict \in Case
      BY <1>1, <1>6, <2>1, <2>2, DatabasesHave
  <2>4. Backed(b.evidence[b.fact.conflict], x)
      BY <1>8, <2>1, <2>2, <2>3 DEF Rests
  <2>5. Backed(o.evidence[b.fact.conflict], x)
      BY <1>1, <2>3, <2>4
  <2> QED
      BY <1>5, <2>1, <2>2, <2>3, <2>5
<1>9. SameAnalyses(b.analysis, e.analysis)
    BY <1>1, <1>5, SameAnalysesTransitive
<1>10. Seen(b) => Seen(e)
    BY <1>5
<1> QED
    BY <1>5, <1>7, <1>8, <1>9, <1>10 DEF Follows

\* What contradicts report r is detected.
LEMMA OpposedDetected ==
    ASSUME NEW o, Sound(o), NEW r \in Report, NEW t \in Report, PlainReport(o.fragment[t]),
           Opposed(o.fragment, r, t)
    PROVE  t \in Contradicting(o, r) /\ Detects(o, r)
<1>1. o.fragment[t] \in Fragment
    BY DatabasesHave DEF Sound, Source
<1>2. o.fragment[t].status \in {"normal", "conflict"}
    BY <1>1 DEF Fragment, PlainReport, Opposed
<1>3. t \in Contradicting(o, r)
    BY <1>2 DEF Contradicting, Opposed
<1> QED
    BY <1>3 DEF Detects, Opposed

LEMMA UndetectedSeen ==
    ASSUME NEW o, Sound(o), NEW r \in Report, ~Detects(o, r), SeenAmong(o, Report \ {r})
    PROVE  Seen(o)
<1>1. \A s \in Report : PlainReport(o.fragment[s])
    BY DEF SeenAmong
<1>2. \A s, t \in Report : Opposed(o.fragment, s, t) => Opposed(o.fragment, t, s)
    BY DEF Opposed
<1>3. \A t \in Report : ~Opposed(o.fragment, r, t) /\ ~Opposed(o.fragment, t, r)
    BY <1>1, <1>2, OpposedDetected
<1> QED
    BY <1>1, <1>3 DEF Seen, SeenAmong

LEMMA FoundSeen ==
    ASSUME NEW o, Sound(o), NEW r \in Report, o.fragment[r].status # "withdrawn",
           Matching(o) \in Case, NEW d, d = FindOrOpen(o, Contradicting(o, r) \cup {r}),
           SeenAmong(o, Report \ {r})
    PROVE  Seen(d)
<1> DEFINE S == Contradicting(o, r) \cup {r}
<1>1. S \in SUBSET Source /\ \A s \in S : o.fragment[s].status # "withdrawn"
    BY DEF Contradicting, Source
<1>2. r \in S /\ Contradicting(o, r) \subseteq S
    OBVIOUS
<1>3. d = FindOrOpen(o, S)
    OBVIOUS
<1> HIDE DEF S
<1>4. /\ d.conflict[Matching(o)].status # "resolved"
      /\ \A s \in S : Speaks(d.evidence[Matching(o)], s)
      /\ Grows(o, d)
    BY <1>1, <1>3, FindOrOpenDoes
<1>5. SeenAmong(d, Report \ {r})
    BY <1>4, GrowsSeen
<1>6. \A s, t \in Report : /\ Opposed(d.fragment, s, t) => Opposed(o.fragment, s, t)
                           /\ Opposed(o.fragment, s, t) => Opposed(o.fragment, t, s)
    BY <1>4 DEF Grows, SameReports, Opposed
<1>7. \A s \in Report : PlainReport(o.fragment[s])
    BY DEF SeenAmong
<1>8. ASSUME NEW t \in Report, Opposed(o.fragment, r, t)
      PROVE  SeenIn(d, Matching(o), r, t) /\ SeenIn(d, Matching(o), t, r)
  <2>1. t \in S /\ r \in S
      BY <1>2, <1>7, <1>8, OpposedDetected
  <2> QED
      BY <1>4, <2>1 DEF SeenIn, LeftToOperators
<1>9. ASSUME NEW s \in Report, NEW t \in Report, Opposed(d.fragment, s, t)
      PROVE  \E c \in Case : SeenIn(d, c, s, t)
  <2>1. CASE s = r
      BY <1>6, <1>8, <1>9, <2>1
  <2>2. CASE t = r
      BY <1>6, <1>8, <1>9, <2>2
  <2>3. CASE s # r /\ t # r
      BY <1>5, <1>9, <2>3 DEF SeenAmong
  <2> QED
      BY <2>1, <2>2, <2>3
<1> QED
    BY <1>5, <1>9 DEF Seen, SeenAmong

\* process_report_observation
LEMMA ObserveFollows ==
    ASSUME NEW b, Sound(b), NEW r \in Report, NEW y \in Fragment, Replaces(b.fragment[r], y),
           y.status # "withdrawn", PlainReport(y),
           NEW o, o = Replaced(b, r, y), Detects(o, r) => Matching(o) \in Case,
           NEW e, e = Reconciled(Detected(o, r), Affected(b, r) \cup Detections(o, r),
                                 OwnRows(b, r), b.conflict)
    PROVE  Follows(b, e)
<1> DEFINE C == Affected(b, r) \cup Detections(o, r)
<1>1. /\ Sound(o) /\ o.fragment[r] = y /\ o.conflict = b.conflict
      /\ \A c \in Case : OwnRows(b, r)[c] # {} => Exists(b, c)
    BY ReplacedDoes
<1>2. Seen(b) => SeenAmong(o, Report \ {r})
    BY ReplacedSeen
<1>3. PICK d : d = Detected(o, r)
    OBVIOUS
<1>4. /\ Sound(d) /\ Stands(o, d) /\ SameAnalyses(o.analysis, d.analysis)
      /\ \A c \in Case : Moved(o, d, c)
      /\ \A c \in Detections(o, r) : c \in Case /\ Exists(d, c)
      /\ SeenAmong(o, Report \ {r}) => Seen(d)
  <2>1. CASE Detects(o, r)
    <3> DEFINE S == Contradicting(o, r) \cup {r}
    <3>1. d = FindOrOpen(o, S) /\ Detections(o, r) = {Matching(o)} /\ Matching(o) \in Case
        BY <1>3, <2>1 DEF Detected, Detections
    <3>2. S \in SUBSET Source /\ \A s \in S : o.fragment[s].status # "withdrawn"
        BY <1>1 DEF Contradicting, Source
    <3>3. SeenAmong(o, Report \ {r}) => Seen(d)
        BY <1>1, <2>1, <3>1, FoundSeen
    <3> HIDE DEF S
    <3> QED
        BY <1>1, <3>1, <3>2, <3>3, FindOrOpenDoes
  <2>2. CASE ~Detects(o, r)
    <3>1. d = o /\ Detections(o, r) = {}
        BY <1>3, <2>2 DEF Detected, Detections
    <3>2. SeenAmong(o, Report \ {r}) => Seen(d)
        BY <1>1, <2>2, <3>1, UndetectedSeen
    <3> QED
        BY <1>1, <3>1, <3>2, SameAnalysesReflexive DEF Stands, Moved
  <2> QED
      BY <2>1, <2>2
<1>5. C \in SUBSET Case /\ Affected(b, r) \subseteq C
    BY <1>4 DEF Affected
<1>6. ASSUME NEW c \in C PROVE Exists(d, c)
  <2>1. CASE c \in Detections(o, r)
      BY <1>4, <2>1
  <2>2. CASE c \in Affected(b, r)
    <3>1. c \in Case /\ Exists(o, c)
        BY <1>1, <2>2 DEF Affected, Exists
    <3>2. Moved(o, d, c)
        BY <1>4, <3>1
    <3> QED
        BY <3>1, <3>2 DEF Moved, Exists
  <2> QED
      BY <2>1, <2>2
<1>7. e = Reconciled(d, C, OwnRows(b, r), b.conflict)
    BY <1>3
<1>8. Seen(b) => Seen(d)
    BY <1>2, <1>4
<1> HIDE DEF C
<1> QED
    BY <1>4, <1>5, <1>6, <1>7, <1>8, ObservedFollows

\* deactivate_report_observation
LEMMA WithdrawFollows ==
    ASSUME NEW b, Sound(b), NEW r \in Report, NEW y \in Fragment, Replaces(b.fragment[r], y),
           ~y.live, y.status # "resolved",
           NEW o, o = Replaced(b, r, y),
           NEW e, e = Reconciled(o, Affected(b, r), OwnRows(b, r), b.conflict)
    PROVE  Follows(b, e)
<1>1. /\ Sound(o) /\ o.fragment[r] = y /\ o.conflict = b.conflict
      /\ \A c \in Case : OwnRows(b, r)[c] # {} => Exists(b, c)
    BY ReplacedDoes
<1>2. /\ Affected(b, r) \in SUBSET Case
      /\ \A c \in Affected(b, r) : Exists(o, c)
    BY <1>1 DEF Affected, Exists
<1>3. Stands(o, o) /\ SameAnalyses(o.analysis, o.analysis) /\ \A c \in Case : Moved(o, o, c)
    BY SameAnalysesReflexive DEF Stands, Moved
<1>4. ASSUME Seen(b) PROVE Seen(o)
  <2>1. SeenAmong(o, Report \ {r})
    <3>1. PlainReport(y)
        BY DEF PlainReport
    <3> QED
        BY <1>4, <3>1, ReplacedSeen
  <2>2. \A t \in Report : ~Opposed(o.fragment, r, t) /\ ~Opposed(o.fragment, t, r)
      BY <1>1 DEF Opposed
  <2> QED
      BY <2>1, <2>2 DEF Seen, SeenAmong
<1> QED
    BY <1>1, <1>2, <1>3, <1>4, ObservedFollows

\* Answer a has the fragment y now.
Said(d, a, y) == [d EXCEPT !.fragment[a] = y]

LEMMA AnsweredFollows ==
    ASSUME NEW b, Sound(b), NEW a \in Answer, NEW y \in Fragment,
           y.status \notin {"absent", "withdrawn"}, b.fragment[a].revision < y.revision,
           NEW e, e = Said(b, a, y)
    PROVE  Follows(b, e) /\ e.fragment[a] = y
<1> DEFINE f == [b.fragment EXCEPT ![a] = y]
<1>1. /\ b \in Databases /\ b.fragment \in Fragments /\ a \in Source /\ a \notin Report
      /\ \A s \in Source : b.fragment[s].revision \in Nat
    BY DatabasesHave, SourcesAreApart DEF Sound, Source
<1>2. f \in Fragments /\ f[a] = y /\ \A s \in Source \ {a} : f[s] = b.fragment[s]
    BY <1>1 DEF Fragments
<1> HIDE DEF f
<1>3. /\ e \in Databases /\ e.fragment = f
      /\ e.conflict = b.conflict /\ e.evidence = b.evidence /\ e.fact = b.fact
      /\ e.analysis = b.analysis
    BY <1>1, <1>2 DEF Databases, f, Said
<1>4. ASSUME NEW c \in Case PROVE GoodRows(f, b.evidence[c])
  <2>1. b.evidence[c] \in SUBSET Evidence /\ GoodRows(b.fragment, b.evidence[c])
      BY <1>1, DatabasesHave DEF Sound
  <2>2. y.revision \in Nat
      BY DEF Fragment
  <2>3. \A s \in Source : /\ b.fragment[s].revision <= f[s].revision
                          /\ s \in Report => f[s].value = b.fragment[s].value
                          /\ f[s].revision = b.fragment[s].revision =>
                               /\ f[s].value = b.fragment[s].value
                               /\ f[s].status # "withdrawn" => b.fragment[s].status # "withdrawn"
      BY <1>1, <1>2, <2>2
  <2> QED
      BY <1>1, <1>2, <2>1, <2>3, LaterFragmentsGood
<1>5. Sound(e)
  <2>1. GoodFragments(e.fragment)
      BY <1>1, <1>2, <1>3 DEF Sound, GoodFragments, Source
  <2>2. \A c \in Case : /\ Exists(e, c) <=> Exists(b, c)
                        /\ ~Exists(b, c) => e.conflict[c] = b.conflict[c] /\ e.evidence[c] = b.evidence[c]
                        /\ GoodRows(e.fragment, e.evidence[c])
      BY <1>3, <1>4 DEF Exists
  <2> QED
      BY <1>3, <2>1, <2>2, StaysSound
<1>6. (Rests(b) => Rests(e)) /\ SameAnalyses(b.analysis, e.analysis) /\ \A c \in Case : Moved(b, e, c)
    BY <1>3, SameAnalysesReflexive DEF Rests, Moved
<1>7. Seen(b) => Seen(e)
  <2>1. SameReports(b.fragment, e.fragment)
      BY <1>1, <1>2, <1>3 DEF SameReports, Source
  <2> QED
      BY <1>3, <2>1, GrowsSeen DEF Grows, Seen
<1> QED
    BY <1>2, <1>3, <1>5, <1>6, <1>7 DEF Follows

LEMMA ConsensusFollows ==
    ASSUME NEW d, Sound(d), NEW a \in Answer, NEW e, e = Consensus(d, a)
    PROVE  Follows(d, e)
<1>1. CASE e = d
    BY <1>1, SameAnalysesReflexive DEF Follows, Moved
<1>2. CASE e # d
  <2>1. e = [d EXCEPT !.fragment[a].status = "resolved"]
      BY <1>2 DEF Consensus
  <2>2. PICK y : y = [d.fragment[a] EXCEPT !.status = "resolved"]
      OBVIOUS
  <2>3. /\ d \in Databases /\ d.fragment \in Fragments /\ a \in Source
        /\ \A s \in Source : d.fragment[s] \in Fragment /\ d.fragment[s].revision \in Nat
      BY DatabasesHave DEF Sound, Source
  <2>4. y \in Fragment /\ y.status = "resolved" /\ y.value = d.fragment[a].value
        /\ y.revision = d.fragment[a].revision
    <3>1. \A z \in Fragment : LET x == [z EXCEPT !.status = "resolved"] IN
            x \in Fragment /\ x.status = "resolved" /\ x.value = z.value /\ x.revision = z.revision
        BY DEF Fragment
    <3> QED
        BY <2>2, <2>3, <3>1
  <2>5. e = [d EXCEPT !.fragment = [d.fragment EXCEPT ![a] = y]]
      BY <2>1, <2>2, <2>3 DEF Databases
  <2>6. PICK f : f = [d.fragment EXCEPT ![a] = y]
      OBVIOUS
  <2>7. f \in Fragments /\ f[a] = y /\ \A s \in Source \ {a} : f[s] = d.fragment[s]
      BY <2>3, <2>4, <2>6 DEF Fragments
  <2>8. /\ e \in Databases /\ e.fragment = f
        /\ e.conflict = d.conflict /\ e.evidence = d.evidence /\ e.fact = d.fact
        /\ e.analysis = d.analysis
      BY <2>3, <2>5, <2>6, <2>7 DEF Databases
  <2>9. d.fragment[a].status # "withdrawn"
      BY DEF Sound, GoodFragments
  <2>10. \A s \in Source : /\ e.fragment[s].value = d.fragment[s].value
                           /\ d.fragment[s].revision <= e.fragment[s].revision
                           /\ e.fragment[s].status # "withdrawn" => d.fragment[s].status # "withdrawn"
                           /\ e.fragment[s].status = "withdrawn" => d.fragment[s].status = "withdrawn"
                           /\ e.fragment[s].status = "absent" => e.fragment[s] = d.fragment[s]
      BY <2>3, <2>4, <2>7, <2>8, <2>9
  <2>11. Sound(e)
      BY <2>8, <2>10, StatusesKeep
  <2>12. (Rests(d) => Rests(e)) /\ SameAnalyses(d.analysis, e.analysis) /\ \A c \in Case : Moved(d, e, c)
      BY <2>8, SameAnalysesReflexive DEF Rests, Moved
  <2>13. Seen(d) => Seen(e)
    <3>1. a \notin Report
        BY SourcesAreApart
    <3>2. SameReports(d.fragment, e.fragment)
        BY <2>7, <2>8, <3>1 DEF SameReports, Source
    <3> QED
        BY <2>8, <3>2, GrowsSeen DEF Grows, Seen
  <2> QED
      BY <2>11, <2>12, <2>13 DEF Follows
<1> QED
    BY <1>1, <1>2

LEMMA AddedSpeaks ==
    ASSUME NEW d, Sound(d), NEW c \in Case, NEW S \in SUBSET Source, NEW E,
           E[c] = RowsWith(d.fragment, d.evidence[c], S),
           \A b \in Case \ {c} : E[b] = d.evidence[b]
    PROVE  \A b \in Case : \A s \in Report : Speaks(d.evidence[b], s) => Speaks(E[b], s)
<1>1. d.fragment \in Fragments /\ d.evidence[c] \in SUBSET Evidence
    BY DatabasesHave DEF Sound
<1>2. \A s \in Source : Speaks(d.evidence[c], s) => Speaks(E[c], s)
    BY <1>1, RowsWithSpeaks
<1> QED
    BY <1>2 DEF Source

\* Evidence is added to a case that exists, and the case moves on.
LEMMA AppendedFollows ==
    ASSUME NEW d, Sound(d), NEW c \in Case, Exists(d, c), NEW S \in SUBSET Source,
           NEW e, e = Bump(AddEvidence(d, c, S), c)
    PROVE  Follows(d, e)
<1>1. PICK g : g = AddEvidence(d, c, S)
    OBVIOUS
<1>2. /\ Sound(g) /\ Stands(d, g)
      /\ g.fragment = d.fragment /\ g.conflict = d.conflict /\ g.fact = d.fact /\ g.analysis = d.analysis
      /\ \A b \in Case \ {c} : g.evidence[b] = d.evidence[b]
      /\ g.evidence[c] = RowsWith(d.fragment, d.evidence[c], S)
    BY <1>1, AddEvidenceKeeps
<1>3. Exists(g, c) /\ e = Bump(g, c)
    BY <1>1, <1>2 DEF Exists
<1>4. /\ Sound(e)
      /\ e.fragment = g.fragment /\ e.evidence = g.evidence /\ e.fact = g.fact
      /\ SameAnalyses(g.analysis, e.analysis)
      /\ \A b \in Case \ {c} : e.conflict[b] = g.conflict[b]
      /\ Exists(e, c) /\ e.conflict[c].status = g.conflict[c].status
      /\ e.conflict[c].resolution = g.conflict[c].resolution
      /\ g.conflict[c].revision < e.conflict[c].revision
    BY <1>2, <1>3, BumpKeeps
<1>5. \A b \in Case : Moved(d, e, b)
    BY <1>2, <1>4 DEF Moved
<1>6. Rests(d) => Rests(e)
    BY <1>2, <1>4, StandsRests DEF Rests
<1>7. Seen(d) => Seen(e)
  <2>1. \A b \in Case : LeftToOperators(d.conflict[b]) => LeftToOperators(e.conflict[b])
      BY <1>2, <1>4 DEF LeftToOperators
  <2>2. SameReports(d.fragment, e.fragment)
      BY <1>2, <1>4, SameReportsReflexive
  <2>3. \A b \in Case : \A s \in Report : Speaks(d.evidence[b], s) => Speaks(e.evidence[b], s)
      BY <1>2, <1>4, AddedSpeaks
  <2> QED
      BY <2>1, <2>2, <2>3, GrowsSeen DEF Grows, Seen
<1> QED
    BY <1>2, <1>4, <1>5, <1>6, <1>7 DEF Follows

LEMMA AnswerUpdatedFollows ==
    ASSUME NEW d, Sound(d), NEW a \in Answer, NEW e, e = AnswerUpdated(d, a)
    PROVE  Follows(d, e)
<1> DEFINE C == {c \in Case : \E x \in d.evidence[c] : x.source = a}
<1>1. CASE C = {}
  <2>1. e = d
      BY <1>1 DEF AnswerUpdated
  <2> QED
      BY <2>1, SameAnalysesReflexive DEF Follows, Moved
<1>2. CASE C # {}
  <2>1. e = Bump(AddEvidence(d, Max(C), {a}), Max(C))
      BY <1>2 DEF AnswerUpdated
  <2>2. C \subseteq Case
      OBVIOUS
  <2> HIDE DEF C
  <2>3. Max(C) \in C
      BY <1>2, <2>2, MaxIsThere
  <2> USE DEF C
  <2>4. Max(C) \in Case /\ Exists(d, Max(C))
      BY <2>3 DEF Sound
  <2>5. {a} \in SUBSET Source
      BY DEF Source
  <2> HIDE DEF C
  <2> QED
      BY <2>1, <2>4, <2>5, AppendedFollows
<1> QED
    BY <1>1, <1>2

\* create_conflict
LEMMA CreatedFollows ==
    ASSUME NEW d, Sound(d), NEW c \in Case, c = NextCase(d), NEW S \in SUBSET Source,
           NEW e, e = AddEvidence(Opened(d), c, S)
    PROVE  Follows(d, e)
<1>1. PICK g : g = Opened(d)
    OBVIOUS
<1>2. /\ Sound(g)
      /\ g.fragment = d.fragment /\ g.evidence = d.evidence /\ g.fact = d.fact
      /\ g.analysis = d.analysis
      /\ \A b \in Case \ {c} : g.conflict[b] = d.conflict[b]
      /\ ~Exists(d, c) /\ Exists(g, c) /\ g.conflict[c].status = "open"
      /\ Moved(d, g, c)
    BY <1>1, OpenedDoes
<1>3. e = AddEvidence(g, c, S)
    BY <1>1
<1>4. /\ Sound(e) /\ Stands(g, e)
      /\ e.fragment = g.fragment
      /\ e.evidence[c] = RowsWith(g.fragment, g.evidence[c], S)
      /\ e.conflict = g.conflict /\ e.fact = g.fact /\ e.analysis = g.analysis
      /\ \A b \in Case \ {c} : e.evidence[b] = g.evidence[b]
    BY <1>2, <1>3, AddEvidenceKeeps
<1>5. ASSUME NEW b \in Case PROVE Moved(d, e, b)
  <2>1. CASE b # c
      BY <1>2, <1>4, <2>1 DEF Moved
  <2>2. CASE b = c
      BY <1>2, <1>4, <2>2 DEF Moved, Exists
  <2> QED
      BY <2>1, <2>2
<1>6. Rests(d) => Rests(e)
  <2>1. Rests(d) => Rests(g)
      BY <1>2 DEF Rests
  <2> QED
      BY <1>4, <2>1, StandsRests
<1>7. SameAnalyses(d.analysis, e.analysis)
    BY <1>2, <1>4, SameAnalysesReflexive
<1>8. Seen(d) => Seen(e)
  <2>1. \A b \in Case : LeftToOperators(d.conflict[b]) => LeftToOperators(e.conflict[b])
      BY <1>2, <1>4 DEF LeftToOperators
  <2>2. SameReports(d.fragment, e.fragment)
      BY <1>2, <1>4, SameReportsReflexive
  <2>3. \A b \in Case : \A s \in Report : Speaks(d.evidence[b], s) => Speaks(e.evidence[b], s)
      BY <1>2, <1>4, AddedSpeaks
  <2> QED
      BY <2>1, <2>2, <2>3, GrowsSeen DEF Grows, Seen
<1> QED
    BY <1>4, <1>5, <1>6, <1>7, <1>8 DEF Follows

LEMMA ReopenedFollows ==
    ASSUME NEW d, Sound(d), NEW c \in Case, Exists(d, c), NEW e, e = Reopened(d, c)
    PROVE  Follows(d, e)
<1>1. /\ Sound(e) /\ e.fragment = d.fragment /\ e.evidence = d.evidence /\ e.fact.status # "current"
      /\ SameAnalyses(d.analysis, e.analysis)
      /\ \A b \in Case \ {c} : e.conflict[b] = d.conflict[b]
      /\ Exists(e, c) /\ e.conflict[c].status = "reopened"
      /\ d.conflict[c].revision < e.conflict[c].revision
    BY ReopenedDoes
<1>2. \A b \in Case : Moved(d, e, b)
    BY <1>1 DEF Moved
<1>3. Grows(d, e)
    BY <1>1, SameReportsReflexive DEF Grows, LeftToOperators
<1>4. Seen(d) => Seen(e)
    BY <1>3, GrowsSeen DEF Seen
<1> QED
    BY <1>1, <1>2, <1>4 DEF Follows, Rests

LEMMA FindOrOpenFollows ==
    ASSUME NEW d, Sound(d), NEW S \in SUBSET Source, \A s \in S : d.fragment[s].status # "withdrawn",
           Matching(d) \in Case, NEW e, e = FindOrOpen(d, S)
    PROVE  Follows(d, e)
<1>1. /\ Sound(e) /\ Stands(d, e) /\ SameAnalyses(d.analysis, e.analysis)
      /\ \A c \in Case : Moved(d, e, c)
      /\ Grows(d, e)
    BY FindOrOpenDoes
<1>2. Seen(d) => Seen(e)
    BY <1>1, GrowsSeen DEF Seen
<1> QED
    BY <1>1, <1>2, StandsRests DEF Follows


LEMMA AcceptedIs ==
    ASSUME NEW y \in Fragment
    PROVE  /\ Accepted(y) \in Fragment /\ Accepted(y).value = y.value
           /\ Accepted(y).status = "resolved" /\ Accepted(y).revision = y.revision + 1
           /\ Accepted(y).live = y.live /\ Accepted(y).accepted
           /\ y.revision \in Nat
<1>1. y.revision \in Nat
    BY DEF Fragment
<1>2. PICK n \in Nat : n = y.revision + 1
    BY <1>1
<1>3. PICK x : x = [y EXCEPT !.status = "resolved", !.accepted = TRUE, !.revision = n]
    OBVIOUS
<1>4. Accepted(y) = x
    BY <1>1, <1>2, <1>3 DEF Accepted
<1>5. /\ x \in Fragment /\ x.value = y.value /\ x.status = "resolved" /\ x.revision = n
      /\ x.live = y.live /\ x.accepted
    BY <1>3 DEF Fragment
<1> QED
    BY <1>1, <1>2, <1>4, <1>5

LEMMA DecidedIs ==
    ASSUME NEW y \in ConflictCase
    PROVE  /\ Decided(y) \in ConflictCase /\ Decided(y).status = "resolved"
           /\ Decided(y).resolution = "decision"
           /\ Decided(y).revision = y.revision + 1 /\ y.revision \in Nat
<1>1. y.revision \in Nat
    BY DEF ConflictCase
<1>2. PICK n \in Nat : n = y.revision + 1
    BY <1>1
<1>3. PICK x : x = [y EXCEPT !.status = "resolved", !.resolution = "decision", !.revision = n]
    OBVIOUS
<1>4. Decided(y) = x
    BY <1>1, <1>2, <1>3 DEF Decided
<1>5. x \in ConflictCase /\ x.status = "resolved" /\ x.resolution = "decision" /\ x.revision = n
    BY <1>3 DEF ConflictCase
<1> QED
    BY <1>1, <1>2, <1>4, <1>5

\* decide_conflict accepts the rows A, with the sources N, and disposes of those of the sources M.
Disposed(d, c, A, N, M, status) ==
    [d EXCEPT !.conflict[c] = Decided(d.conflict[c]),
              !.fragment = [s \in Source |-> IF s \in N THEN Accepted(d.fragment[s])
                                             ELSE IF s \in M THEN Normal(d.fragment[s])
                                             ELSE d.fragment[s]],
              !.fact = [status |-> status, conflict |-> c, accepted |-> Ids(A)]]

LEMMA DecidedFollows ==
    ASSUME NEW d, Sound(d), NEW c \in Case, Exists(d, c),
           NEW A, A \subseteq Current(d.evidence[c]), NEW N, NEW M, NEW status \in {"current", "under_review"},
           NEW e, e = Disposed(d, c, A, N, M, status)
    PROVE  Follows(d, e)
<1> DEFINE F == [s \in Source |-> IF s \in N THEN Accepted(d.fragment[s])
                                  ELSE IF s \in M THEN Normal(d.fragment[s])
                                  ELSE d.fragment[s]]
           x == [status |-> status, conflict |-> c, accepted |-> Ids(A)]
           R == [d.conflict EXCEPT ![c] = Decided(d.conflict[c])]
<1>1. /\ d \in Databases /\ d.fragment \in Fragments
      /\ d.conflict \in [Case -> ConflictCase]
      /\ \A b \in Case : d.conflict[b] \in ConflictCase /\ d.evidence[b] \in SUBSET Evidence
      /\ \A s \in Source : d.fragment[s] \in Fragment /\ d.fragment[s].revision \in Nat
    BY DatabasesHave DEF Sound
<1>2. e = [[[d EXCEPT !.conflict = R] EXCEPT !.fragment = F] EXCEPT !.fact = x]
    BY <1>1 DEF Databases, Disposed
<1>3. \A s \in Source : F[s] = IF s \in N THEN Accepted(d.fragment[s])
                               ELSE IF s \in M THEN Normal(d.fragment[s])
                               ELSE d.fragment[s]
    OBVIOUS
<1>4. F = [s \in Source |-> F[s]]
    OBVIOUS
<1> HIDE DEF F
<1>5. ASSUME NEW s \in Source
      PROVE  /\ F[s] \in Fragment
             /\ F[s] = d.fragment[s] \/ /\ F[s].status \in {"normal", "resolved"}
                                        /\ F[s].value = d.fragment[s].value
                                        /\ F[s].revision = d.fragment[s].revision + 1
             /\ F[s].live = d.fragment[s].live
             /\ d.fragment[s].accepted => F[s].accepted
             /\ F[s].status \in {"normal", d.fragment[s].status} \/ F[s].accepted
  <2>1. d.fragment[s] \in Fragment
      BY <1>1
  <2>2. CASE s \in N
    <3>1. F[s] = Accepted(d.fragment[s])
        BY <1>3, <2>2
    <3>2. /\ Accepted(d.fragment[s]) \in Fragment
          /\ Accepted(d.fragment[s]).value = d.fragment[s].value
          /\ Accepted(d.fragment[s]).status = "resolved"
          /\ Accepted(d.fragment[s]).revision = d.fragment[s].revision + 1
          /\ Accepted(d.fragment[s]).live = d.fragment[s].live
          /\ Accepted(d.fragment[s]).accepted
          /\ d.fragment[s].revision \in Nat
        BY <2>1, AcceptedIs
    <3> QED
        BY <3>1, <3>2
  <2>3. CASE s \notin N /\ s \in M
    <3>1. F[s] = Normal(d.fragment[s])
        BY <1>3, <2>3
    <3> QED
        BY <2>1, <3>1, NormalIs
  <2>4. CASE s \notin N /\ s \notin M
      BY <1>3, <2>1, <2>4
  <2> QED
      BY <2>2, <2>3, <2>4
<1>6. SameReports(d.fragment, F)
  <2>1. ASSUME NEW s \in Report
        PROVE  /\ F[s].value = d.fragment[s].value /\ F[s].live = d.fragment[s].live
               /\ d.fragment[s].accepted => F[s].accepted
               /\ \/ F[s].status = d.fragment[s].status
                  \/ F[s].status \in {"normal", "conflict"}
                  \/ F[s].status = "resolved" /\ F[s].accepted
      BY <1>5 DEF Source
  <2> QED
      BY <2>1 DEF SameReports
<1>7. F \in Fragments
    BY <1>4, <1>5 DEF Fragments
<1>8. Ids(A) \in SUBSET Version
  <2>1. \A g \in A : g \in Evidence
      BY <1>1 DEF Current
  <2> QED
      BY <2>1, IdIs DEF Ids
<1>9. x \in FactRecord /\ x.conflict = c /\ x.accepted = Ids(A)
    BY <1>8 DEF FactRecord
<1> HIDE DEF x
<1>10. Decided(d.conflict[c]) \in ConflictCase
    BY <1>1, DecidedIs
<1>11. /\ R \in [Case -> ConflictCase] /\ R[c] = Decided(d.conflict[c])
       /\ \A b \in Case \ {c} : R[b] = d.conflict[b]
    BY <1>1, <1>10
<1> HIDE DEF R
<1>12. PICK q : q = e
    OBVIOUS
<1>13. /\ q \in Databases
       /\ q.fragment = F /\ q.conflict = R /\ q.fact = x
       /\ q.evidence = d.evidence /\ q.analysis = d.analysis
    BY <1>1, <1>2, <1>7, <1>9, <1>11, <1>12 DEF Databases
<1>14. /\ Exists(q, c) /\ q.conflict[c].status # "analyzing"
       /\ d.conflict[c].revision < q.conflict[c].revision
    BY <1>1, <1>11, <1>13, DecidedIs DEF Exists
<1>15. ASSUME NEW b \in Case PROVE GoodRows(F, d.evidence[b])
  <2>1. d.evidence[b] \in SUBSET Evidence /\ GoodRows(d.fragment, d.evidence[b])
      BY <1>1 DEF Sound
  <2>2. \A s \in Source : /\ d.fragment[s].revision <= F[s].revision
                          /\ s \in Report => F[s].value = d.fragment[s].value
                          /\ F[s].revision = d.fragment[s].revision =>
                               /\ F[s].value = d.fragment[s].value
                               /\ F[s].status # "withdrawn" => d.fragment[s].status # "withdrawn"
      BY <1>1, <1>5
  <2> QED
      BY <1>1, <1>7, <2>1, <2>2, LaterFragmentsGood
<1>16. Sound(q)
  <2>1. GoodFragments(q.fragment)
    <3>1. \A s \in Answer : s \in Source
        BY DEF Source
    <3> QED
        BY <1>5, <1>13, <3>1 DEF Sound, GoodFragments
  <2>2. \A b \in Case : /\ Exists(q, b) <=> Exists(d, b)
                        /\ ~Exists(d, b) => q.conflict[b] = d.conflict[b] /\ q.evidence[b] = d.evidence[b]
                        /\ GoodRows(q.fragment, q.evidence[b])
      BY <1>11, <1>13, <1>14, <1>15 DEF Exists
  <2> QED
      BY <1>13, <2>1, <2>2, StaysSound
<1>17. Rests(q)
  <2>1. ASSUME NEW g \in A PROVE Backed(d.evidence[c], Id(g))
      BY DEF Backed, Current, Id
  <2> QED
      BY <1>9, <1>13, <2>1 DEF Rests, Ids
<1>18. \A b \in Case : Moved(d, q, b)
    BY <1>11, <1>13, <1>14 DEF Moved
<1>19. SameAnalyses(d.analysis, q.analysis)
    BY <1>13, SameAnalysesReflexive
<1>20. Seen(d) => Seen(q)
  <2>1. \A b \in Case : LeftToOperators(d.conflict[b]) => LeftToOperators(q.conflict[b])
      BY <1>1, <1>11, <1>13, DecidedIs DEF LeftToOperators
  <2> QED
      BY <1>6, <1>13, <2>1, GrowsSeen DEF Grows, Seen
<1>21. Follows(d, q)
    BY <1>16, <1>17, <1>18, <1>19, <1>20 DEF Follows
<1> QED
    BY <1>12, <1>21

-----------------------------------------------------------------------------
(***************************************************************************)
(* The invariant                                                           *)
(***************************************************************************)
\* An analysis is of a revision that its case has or had; if the case still has it, the case is
\* not resolved and its evidence is what the analysis was made of.
Fits(d) ==
    \A a \in Analysis : d.analysis[a] # NoAnalysis =>
        LET x == d.analysis[a].context
            c == d.analysis[a].conflict
        IN  /\ Exists(d, c)
            /\ x.revision <= d.conflict[c].revision
            /\ x.revision = d.conflict[c].revision =>
                  d.conflict[c].status # "resolved" /\ x.ids = Ids(Current(d.evidence[c]))

\* Jobs are of analyses, and the worker has one.
Working ==
    /\ \A a \in Analysis : jobs[a] > 0 => analysis[a] # NoAnalysis
    /\ worker # Nobody => jobs[worker] > 0

IInv ==
    /\ TypeOK
    /\ Sound(Database)
    /\ Rests(Database)
    /\ Seen(Database)
    /\ Fits(Database)
    /\ Working
    /\ AnalyzingIsWorkedOn

LEMMA TypeInDatabase ==
    /\ Database.fragment = fragment /\ Database.conflict = conflict /\ Database.evidence = evidence
    /\ Database.fact = fact /\ Database.analysis = analysis
    BY DEF Database

LEMMA FollowsFits ==
    ASSUME NEW d, NEW e, Sound(d), Follows(d, e), Fits(d)
    PROVE  Fits(e)
<1> SUFFICES ASSUME NEW a \in Analysis, e.analysis[a] # NoAnalysis
             PROVE  LET x == e.analysis[a].context
                        c == e.analysis[a].conflict
                    IN  /\ Exists(e, c)
                        /\ x.revision <= e.conflict[c].revision
                        /\ x.revision = e.conflict[c].revision =>
                             e.conflict[c].status # "resolved" /\ x.ids = Ids(Current(e.evidence[c]))
    BY DEF Fits
<1> DEFINE x == e.analysis[a].context
           c == e.analysis[a].conflict
<1>1. d.analysis[a] # NoAnalysis /\ d.analysis[a].context = x /\ d.analysis[a].conflict = c
    BY DEF Follows, SameAnalyses
<1>2. /\ Exists(d, c)
      /\ x.revision <= d.conflict[c].revision
      /\ x.revision = d.conflict[c].revision =>
            d.conflict[c].status # "resolved" /\ x.ids = Ids(Current(d.evidence[c]))
    BY <1>1 DEF Fits
<1>3. d \in Databases /\ e \in Databases
    BY DEF Follows, Sound
<1>4. c \in Case /\ x.revision \in Nat
  <2>1. e.analysis[a] \in AiAnalysis
      BY <1>3, DatabasesHave
  <2>2. e.analysis[a].conflict \in Case /\ e.analysis[a].context \in Context
      BY <2>1 DEF AiAnalysis
  <2> QED
      BY <2>2 DEF Context
<1>5. d.conflict[c].revision \in Nat /\ e.conflict[c].revision \in Nat
    BY <1>3, <1>4, DatabasesHave
<1>6. Moved(d, e, c)
    BY <1>4 DEF Follows
<1> HIDE DEF x, c
<1>7. /\ Exists(e, c)
      /\ x.revision <= e.conflict[c].revision
      /\ x.revision = e.conflict[c].revision =>
           e.conflict[c].status # "resolved" /\ x.ids = Ids(Current(e.evidence[c]))
  <2>1. CASE e.conflict[c] = d.conflict[c] /\ e.evidence[c] = d.evidence[c]
      BY <1>2, <2>1 DEF Exists
  <2>2. CASE Exists(e, c) /\ d.conflict[c].revision < e.conflict[c].revision
      BY <1>2, <1>4, <1>5, <2>2
  <2> QED
      BY <1>6, <2>1, <2>2 DEF Moved
<1> QED
    BY <1>7 DEF x, c

\* A transaction keeps the invariant.
LEMMA CommitKeeps ==
    ASSUME IInv, NEW d, Follows(Database, d), Commit(d), UNCHANGED <<jobs, worker>>
    PROVE  IInv'
<1>1. d \in Databases
    BY DEF Follows, Sound
<1>2. /\ fragment' = d.fragment /\ conflict' = d.conflict /\ evidence' = d.evidence
      /\ fact' = d.fact /\ analysis' = d.analysis
    BY DEF Commit
<1>3. Database' = d
    BY <1>1, <1>2 DEF Database, Databases
<1>4. TypeOK'
  <2>1. operations' \in 0..MaxOperations
      BY BoundsAreNaturals DEF IInv, TypeOK, Commit, Operation
  <2>2. jobs' \in [Analysis -> 0..MaxJobs] /\ worker' \in Analysis \cup {Nobody}
      BY DEF IInv, TypeOK
  <2>3. /\ d.fragment \in [Source -> Fragment] /\ d.conflict \in [Case -> ConflictCase]
        /\ d.evidence \in [Case -> SUBSET Evidence] /\ d.fact \in FactRecord
        /\ d.analysis \in [Analysis -> AiAnalysis \cup {NoAnalysis}]
      BY <1>1 DEF Databases, Fragments
  <2> QED
      BY <1>2, <2>1, <2>2, <2>3 DEF TypeOK
<1>5. Sound(d) /\ Rests(d) /\ Seen(d) /\ Fits(d)
    BY FollowsFits DEF IInv, Follows
<1>6. Sound(Database)' /\ Rests(Database)' /\ Seen(Database)' /\ Fits(Database)'
    BY <1>3, <1>5
<1>7. SameAnalyses(analysis, analysis') /\ \A c \in Case : Moved(Database, d, c)
    BY <1>2, TypeInDatabase DEF Follows
<1>8. Working'
    BY <1>7 DEF IInv, Working, SameAnalyses
<1>9. AnalyzingIsWorkedOn'
  <2> SUFFICES ASSUME NEW c \in Case, conflict'[c].status = "analyzing"
               PROVE  \E a \in Analysis : /\ analysis'[a] # NoAnalysis /\ analysis'[a].conflict = c
                                          /\ analysis'[a].status \in {"queued", "running"}
                                          /\ jobs'[a] > 0
      BY DEF AnalyzingIsWorkedOn
  <2>1. conflict[c].status = "analyzing"
      BY <1>2, <1>7, TypeInDatabase DEF Moved
  <2>2. PICK a \in Analysis : /\ analysis[a] # NoAnalysis /\ analysis[a].conflict = c
                              /\ analysis[a].status \in {"queued", "running"}
                              /\ jobs[a] > 0
      BY <2>1 DEF IInv, AnalyzingIsWorkedOn
  <2> QED
      BY <1>7, <2>2 DEF SameAnalyses
<1> QED
    BY <1>4, <1>6, <1>8, <1>9 DEF IInv

-----------------------------------------------------------------------------
(***************************************************************************)
(* The operations keep it                                                  *)
(***************************************************************************)
LEMMA InvHas ==
    ASSUME IInv
    PROVE  /\ Sound(Database)
           /\ \A s \in Source : fragment[s] \in Fragment /\ fragment[s].revision \in Nat
           /\ \A c \in Case : conflict[c] \in ConflictCase /\ conflict[c].revision \in Nat
           /\ \A a \in Analysis : analysis[a] # NoAnalysis =>
                 /\ analysis[a] \in AiAnalysis
                 /\ analysis[a].conflict \in Case /\ analysis[a].context.revision \in Nat
<1>1. Sound(Database) /\ Database \in Databases
    BY DEF IInv, Sound
<1>2. \A a \in Analysis : analysis[a] # NoAnalysis => analysis[a] \in AiAnalysis
    BY DEF IInv, TypeOK
<1>3. \A x \in AiAnalysis : x.conflict \in Case /\ x.context.revision \in Nat
  <2>1. \A x \in AiAnalysis : x.conflict \in Case /\ x.context \in Context
      BY DEF AiAnalysis
  <2> QED
      BY <2>1 DEF Context
<1> QED
    BY <1>1, <1>2, <1>3, DatabasesHave, TypeInDatabase

LEMMA ObserveKeeps ==
    ASSUME IInv, NEW r \in Report, NEW f \in Fragment, Replaces(fragment[r], f),
           f.status # "withdrawn", PlainReport(f), Observe(r, f)
    PROVE  IInv'
<1>1. PICK o : o = Replaced(Database, r, f)
    OBVIOUS
<1>2. PICK e : e = Reconciled(Detected(o, r), Affected(Database, r) \cup Detections(o, r),
                              OwnRows(Database, r), Database.conflict)
    OBVIOUS
<1>3. /\ Detects(o, r) => Matching(o) \in Case
      /\ Commit(e) /\ UNCHANGED <<jobs, worker>>
    BY <1>1, <1>2, TypeInDatabase DEF Observe, Replaced
<1>4. Sound(Database) /\ Replaces(Database.fragment[r], f)
    BY InvHas, TypeInDatabase
<1>5. Follows(Database, e)
    BY <1>1, <1>2, <1>3, <1>4, ObserveFollows
<1> QED
    BY <1>3, <1>5, CommitKeeps

LEMMA PostReportKeeps ==
    ASSUME IInv, NEW r \in Report, NEW v \in Value \cup {Unknown}, PostReport(r, v)
    PROVE  IInv'
<1> DEFINE f == [status |-> "normal", value |-> v, revision |-> 1, live |-> TRUE, accepted |-> FALSE]
<1>1. f \in Fragment /\ f.status = "normal" /\ f.revision = 1
    BY DEF Fragment
<1>2. fragment[r].revision = 0
    BY TypeInDatabase DEF PostReport, IInv, Sound, GoodFragments, Source
<1>3. Observe(r, f)
    BY DEF PostReport
<1> HIDE DEF f
<1>4. Replaces(fragment[r], f) /\ PlainReport(f)
    BY <1>1, <1>2 DEF Replaces, PlainReport
<1> QED
    BY <1>1, <1>3, <1>4, ObserveKeeps

LEMMA UpsertedKeeps ==
    ASSUME IInv, NEW r \in Report, NEW v \in Value \cup {Unknown}, NEW reset \in BOOLEAN,
           NEW live \in BOOLEAN, fragment[r].status # "absent", Upserted(r, v, reset, live)
    PROVE  IInv'
<1> DEFINE f == [status |-> IF reset THEN "normal" ELSE fragment[r].status, value |-> v,
                 revision |-> fragment[r].revision + 1, live |-> live,
                 accepted |-> fragment[r].accepted /\ ~reset]
<1>1. fragment[r] \in Fragment /\ fragment[r].revision \in Nat
    BY InvHas DEF Source
<1>2. /\ fragment[r].status \in {"absent", "normal", "conflict", "resolved", "withdrawn"}
      /\ fragment[r].accepted \in BOOLEAN
    BY <1>1 DEF Fragment
<1>3. fragment[r].status = "withdrawn" => reset
    BY DEF Upserted
<1>4. /\ f.status \notin {"absent", "withdrawn"} /\ f.revision = fragment[r].revision + 1
      /\ f \in Fragment
  <2>1. (fragment[r].accepted /\ ~reset) \in BOOLEAN
      OBVIOUS
  <2>2. fragment[r].revision + 1 \in Nat
      BY <1>1
  <2>3. (IF reset THEN "normal" ELSE fragment[r].status)
           \in {"normal", "conflict", "resolved"}
      BY <1>2, <1>3
  <2>4. f \in Fragment
      BY <2>1, <2>2, <2>3 DEF Fragment
  <2> QED
      BY <2>3, <2>4
<1>5. PlainReport(f)
  <2>1. fragment[r].status = "resolved" => fragment[r].accepted
      BY TypeInDatabase DEF IInv, Seen, SeenAmong, PlainReport
  <2> QED
      BY <1>2, <1>4, <2>1 DEF PlainReport
<1>6. Observe(r, f)
    BY DEF Upserted
<1> HIDE DEF f
<1>7. Replaces(fragment[r], f)
    BY <1>1, <1>4 DEF Replaces
<1> QED
    BY <1>4, <1>5, <1>6, <1>7, ObserveKeeps

LEMMA PatchReportKeeps ==
    ASSUME IInv, NEW r \in Report, NEW v \in Value \cup {Unknown}, NEW reset \in BOOLEAN,
           PatchReport(r, v, reset)
    PROVE  IInv'
<1>1. fragment[r].live \in BOOLEAN
  <2>1. fragment[r] \in Fragment
      BY InvHas DEF Source
  <2> QED
      BY <2>1 DEF Fragment
<1>2. fragment[r].status # "absent" /\ Upserted(r, v, reset, fragment[r].live)
    BY DEF PatchReport
<1> QED
    BY <1>1, <1>2, UpsertedKeeps

LEMMA RestoreReportKeeps ==
    ASSUME IInv, NEW r \in Report, NEW reset \in BOOLEAN, RestoreReport(r, reset)
    PROVE  IInv'
<1>1. fragment[r].value \in Value \cup {Unknown}
  <2>1. fragment[r] \in Fragment
      BY InvHas DEF Source
  <2> QED
      BY <2>1 DEF Fragment
<1>2. fragment[r].status # "absent" /\ Upserted(r, fragment[r].value, reset, TRUE)
    BY DEF RestoreReport
<1> QED
    BY <1>1, <1>2, UpsertedKeeps

LEMMA WithdrawReportKeeps ==
    ASSUME IInv, NEW r \in Report, WithdrawReport(r)
    PROVE  IInv'
<1>1. PICK x, y : /\ x = fragment[r]
                  /\ y = [x EXCEPT !.status = "withdrawn", !.live = FALSE,
                                   !.revision = IF x.status = "withdrawn" THEN @ ELSE @ + 1]
    OBVIOUS
<1>2. PICK o : o = Replaced(Database, r, y)
    OBVIOUS
<1>3. PICK e : e = Reconciled(o, Affected(Database, r), OwnRows(Database, r), Database.conflict)
    OBVIOUS
<1>4. Commit(e) /\ UNCHANGED <<jobs, worker>>
    BY <1>1, <1>2, <1>3, TypeInDatabase DEF WithdrawReport, Replaced
<1>5. x \in Fragment /\ x.revision \in Nat
    BY <1>1, InvHas DEF Source
<1>6. y \in Fragment /\ Replaces(x, y) /\ ~y.live /\ y.status # "resolved"
  <2>1. PICK n \in Nat : n = IF x.status = "withdrawn" THEN x.revision ELSE x.revision + 1
      BY <1>5
  <2>2. PICK z : z = [x EXCEPT !.status = "withdrawn", !.live = FALSE, !.revision = n]
      OBVIOUS
  <2>3. z = y
      BY <1>1, <1>5, <2>1, <2>2
  <2>4. z \in Fragment /\ z.status = "withdrawn" /\ z.value = x.value /\ z.revision = n
        /\ z.live = FALSE
      BY <1>5, <2>2 DEF Fragment
  <2> QED
      BY <1>5, <2>1, <2>3, <2>4 DEF Replaces
<1>7. Sound(Database) /\ Replaces(Database.fragment[r], y)
    BY <1>1, <1>6, InvHas, TypeInDatabase
<1>8. Follows(Database, e)
    BY <1>2, <1>3, <1>6, <1>7, WithdrawFollows
<1> QED
    BY <1>4, <1>8, CommitKeeps

LEMMA PutAnswerKeeps ==
    ASSUME IInv, NEW a \in Answer, NEW v \in Value \cup {Unknown}, PutAnswer(a, v)
    PROVE  IInv'
<1> DEFINE created == fragment[a].status = "absent"
           y == [status |-> IF created THEN "normal" ELSE fragment[a].status, value |-> v,
                 revision |-> fragment[a].revision + 1, live |-> TRUE, accepted |-> FALSE]
<1>1. PICK d : d = Said(Database, a, y)
    OBVIOUS
<1>2. /\ IF Cardinality(DistinctValues(d)) > 1
         THEN Matching(d) \in Case /\ Commit(FindOrOpen(d, ValidAnswers(d)))
         ELSE Commit(Consensus(IF created THEN d ELSE AnswerUpdated(d, a), a))
      /\ UNCHANGED <<jobs, worker>>
    BY <1>1, TypeInDatabase DEF PutAnswer, Said
<1>3. Sound(Database) /\ fragment[a] \in Fragment /\ fragment[a].revision \in Nat
    BY InvHas DEF Source
<1>4. fragment[a].status \in {"absent", "normal", "conflict", "resolved"}
  <2>1. fragment[a].status # "withdrawn"
      BY <1>3, TypeInDatabase DEF Sound, GoodFragments
  <2> QED
      BY <1>3, <2>1 DEF Fragment
<1>5. y \in Fragment /\ y.status \notin {"absent", "withdrawn"} /\ y.revision = fragment[a].revision + 1
    BY <1>3, <1>4 DEF Fragment
<1> HIDE DEF y
<1>6. Database.fragment[a].revision < y.revision
    BY <1>3, <1>5, TypeInDatabase
<1>7. Follows(Database, d) /\ Sound(d)
    BY <1>1, <1>3, <1>5, <1>6, AnsweredFollows DEF Follows
<1>8. CASE Cardinality(DistinctValues(d)) > 1
  <2>1. PICK e : e = FindOrOpen(d, ValidAnswers(d))
      OBVIOUS
  <2>2. Matching(d) \in Case /\ Commit(e)
      BY <1>2, <1>8, <2>1
  <2>3. ValidAnswers(d) \in SUBSET Source /\ \A s \in ValidAnswers(d) : d.fragment[s].status # "withdrawn"
      BY <1>7 DEF ValidAnswers, Source, Sound, GoodFragments
  <2>4. Follows(d, e)
      BY <1>7, <2>1, <2>2, <2>3, FindOrOpenFollows
  <2>5. Follows(Database, e)
      BY <1>3, <1>7, <2>4, FollowsTransitive
  <2> QED
      BY <1>2, <2>2, <2>5, CommitKeeps
<1>9. CASE ~(Cardinality(DistinctValues(d)) > 1)
  <2>1. PICK g : g = IF created THEN d ELSE AnswerUpdated(d, a)
      OBVIOUS
  <2>2. PICK e : e = Consensus(g, a)
      OBVIOUS
  <2>3. Commit(e)
      BY <1>2, <1>9, <2>1, <2>2
  <2>4. Follows(Database, g) /\ Sound(g)
    <3>1. CASE created
        BY <1>7, <2>1, <3>1
    <3>2. CASE ~created
      <4>1. g = AnswerUpdated(d, a)
          BY <2>1, <3>2
      <4>2. Follows(d, g)
          BY <1>7, <4>1, AnswerUpdatedFollows
      <4> QED
          BY <1>3, <1>7, <4>2, FollowsTransitive DEF Follows
    <3> QED
        BY <3>1, <3>2
  <2>5. Follows(g, e)
      BY <2>2, <2>4, ConsensusFollows
  <2>6. Follows(Database, e)
      BY <1>3, <2>4, <2>5, FollowsTransitive
  <2> QED
      BY <1>2, <2>3, <2>6, CommitKeeps
<1> QED
    BY <1>8, <1>9

LEMMA CreateConflictKeeps ==
    ASSUME IInv, NEW S \in SUBSET Source, CreateConflict(S)
    PROVE  IInv'
<1>1. PICK c, e : c = NextCase(Database) /\ e = AddEvidence(Opened(Database), c, S)
    OBVIOUS
<1>2. c \in Case /\ Commit(e) /\ UNCHANGED <<jobs, worker>>
    BY <1>1 DEF CreateConflict
<1>3. Follows(Database, e)
    BY <1>1, <1>2, InvHas, CreatedFollows
<1> QED
    BY <1>2, <1>3, CommitKeeps

LEMMA AppendEvidenceKeeps ==
    ASSUME IInv, NEW c \in Case, NEW S \in SUBSET Source, AppendEvidence(c, S)
    PROVE  IInv'
<1>1. PICK e : e = Bump(AddEvidence(Database, c, S), c)
    OBVIOUS
<1>2. Exists(Database, c) /\ Commit(e) /\ UNCHANGED <<jobs, worker>>
    BY <1>1 DEF AppendEvidence
<1>3. Follows(Database, e)
    BY <1>1, <1>2, InvHas, AppendedFollows
<1> QED
    BY <1>2, <1>3, CommitKeeps

LEMMA ReopenConflictKeeps ==
    ASSUME IInv, NEW c \in Case, ReopenConflict(c)
    PROVE  IInv'
<1>1. PICK e : e = Reopened(Database, c)
    OBVIOUS
<1>2. Commit(e) /\ UNCHANGED <<jobs, worker>>
    BY <1>1 DEF ReopenConflict
<1>3. Exists(Database, c)
    BY TypeInDatabase DEF ReopenConflict, Exists
<1>4. Follows(Database, e)
    BY <1>1, <1>3, InvHas, ReopenedFollows
<1> QED
    BY <1>2, <1>4, CommitKeeps

LEMMA DecideKeeps ==
    ASSUME IInv, NEW c \in Case, NEW accepted, NEW status \in {"current", "under_review"},
           Decide(c, accepted, status)
    PROVE  IInv'
<1> DEFINE rows == Current(evidence[c])
           N == {x.source : x \in accepted}
           M == {x.source : x \in rows}
<1>1. PICK e : e = Disposed(Database, c, accepted, N, M, status)
    OBVIOUS
<1>2. /\ conflict[c].status \notin {"absent", "resolved"}
      /\ accepted \subseteq rows
      /\ Commit(e) /\ UNCHANGED <<jobs, worker>>
    BY <1>1, TypeInDatabase DEF Decide, Disposed
<1>3. Exists(Database, c) /\ accepted \subseteq Current(Database.evidence[c])
    BY <1>2, TypeInDatabase DEF Exists
<1> HIDE DEF N, M
<1>4. Follows(Database, e)
    BY <1>1, <1>3, InvHas, DecidedFollows
<1> QED
    BY <1>2, <1>4, CommitKeeps

-----------------------------------------------------------------------------
(***************************************************************************)
(* Analyses                                                                *)
(***************************************************************************)
\* A step that changes statuses of cases that exist, and whether they are recent, and analyses.
CasesStay ==
    /\ conflict' \in [Case -> ConflictCase]
    /\ analysis' \in [Analysis -> AiAnalysis \cup {NoAnalysis}]
    /\ \A c \in Case : /\ conflict'[c].status = "absent" <=> conflict[c].status = "absent"
                       /\ conflict[c].status = "absent" => conflict'[c] = conflict[c]
                       /\ conflict'[c].revision = conflict[c].revision
                       /\ conflict'[c].resolution = conflict[c].resolution
                       /\ conflict'[c].status = "resolved" => conflict[c].status = "resolved"
    /\ UNCHANGED <<fragment, evidence, fact>>

LEMMA CasesStayKeeps ==
    ASSUME IInv, CasesStay
    PROVE  Sound(Database)' /\ Rests(Database)' /\ Seen(Database)'
<1>1. PICK e : e = Database'
    OBVIOUS
<1>2. /\ e.fragment = fragment /\ e.conflict = conflict' /\ e.evidence = evidence
      /\ e.fact = fact /\ e.analysis = analysis'
    BY <1>1 DEF Database, CasesStay
<1>3. e \in Databases
    BY <1>1 DEF IInv, TypeOK, CasesStay, Databases, Fragments, Database
<1>4. \A c \in Case : /\ Exists(e, c) <=> Exists(Database, c)
                      /\ ~Exists(Database, c) => /\ e.conflict[c] = Database.conflict[c]
                                                 /\ e.evidence[c] = Database.evidence[c]
                      /\ GoodRows(e.fragment, e.evidence[c])
    BY <1>2, TypeInDatabase DEF IInv, Sound, Exists, CasesStay
<1>5. GoodFragments(e.fragment)
    BY <1>2, TypeInDatabase DEF IInv, Sound
<1>6. Sound(e)
    BY <1>3, <1>4, <1>5, StaysSound DEF IInv
<1>7. Rests(e)
    BY <1>2, TypeInDatabase DEF IInv, Rests
<1>8. Seen(e)
  <2>1. \A c \in Case : LeftToOperators(conflict[c]) => LeftToOperators(e.conflict[c])
      BY <1>2 DEF CasesStay, LeftToOperators
  <2> QED
      BY <1>2, <2>1, TypeInDatabase, SameReportsReflexive, GrowsSeen DEF IInv, Grows, Seen
<1> QED
    BY <1>1, <1>6, <1>7, <1>8

\* Analysis a is of the revision of its case that its context has, or of an earlier one.
FitsNow(a) ==
    /\ conflict[analysis[a].conflict].status # "absent"
    /\ analysis[a].context.revision <= conflict[analysis[a].conflict].revision
    /\ analysis[a].context.revision = conflict[analysis[a].conflict].revision =>
          /\ conflict[analysis[a].conflict].status # "resolved"
          /\ analysis[a].context.ids = Ids(Current(evidence[analysis[a].conflict]))

LEMMA FitsIs == Fits(Database) <=> \A a \in Analysis : analysis[a] # NoAnalysis => FitsNow(a)
    BY TypeInDatabase DEF Fits, FitsNow, Exists

LEMMA FitsNext == (\A a \in Analysis : analysis'[a] # NoAnalysis => FitsNow(a)') => Fits(Database)'
    BY DEF Fits, FitsNow, Exists, Database

\* An analysis of before the step still fits, if no case is newly resolved.
LEMMA FitsStill ==
    ASSUME IInv, CasesStay, NEW a \in Analysis, analysis[a] # NoAnalysis,
           analysis'[a].conflict = analysis[a].conflict, analysis'[a].context = analysis[a].context,
           \A c \in Case : conflict'[c].status = "resolved" => conflict[c].status = "resolved"
    PROVE  FitsNow(a)'
<1>1. FitsNow(a)
    BY FitsIs DEF IInv
<1>2. analysis[a].conflict \in Case
    BY InvHas
<1> QED
    BY <1>1, <1>2 DEF FitsNow, CasesStay

LEMMA WindowPassesKeeps ==
    ASSUME IInv, NEW c \in Case, WindowPasses(c)
    PROVE  IInv'
<1> USE DEF WindowPasses
<1>1. conflict[c] \in ConflictCase
    BY InvHas
<1>2. conflict[c].status # "absent"
    BY <1>1, TypeInDatabase DEF IInv, Sound, Exists, NoCase
<1>3. PICK x : x = [conflict[c] EXCEPT !.recent = FALSE]
    OBVIOUS
<1>4. /\ x \in ConflictCase /\ x.status = conflict[c].status /\ x.revision = conflict[c].revision
      /\ x.resolution = conflict[c].resolution
    BY <1>1, <1>3 DEF ConflictCase
<1>5. conflict' = [conflict EXCEPT ![c] = x] /\ conflict \in [Case -> ConflictCase]
    BY <1>3 DEF IInv, TypeOK
<1>6. CasesStay
    BY <1>2, <1>4, <1>5 DEF CasesStay, IInv, TypeOK
<1>7. \A b \in Case : conflict'[b].status = conflict[b].status
    BY <1>4, <1>5
<1>8. TypeOK'
    BY <1>6 DEF IInv, TypeOK, CasesStay
<1>9. Fits(Database)'
  <2>1. \A a \in Analysis : analysis'[a] # NoAnalysis => FitsNow(a)'
      BY <1>6, <1>7, FitsStill
  <2> QED
      BY <2>1, FitsNext
<1>10. Working' /\ AnalyzingIsWorkedOn'
    BY <1>7 DEF IInv, Working, AnalyzingIsWorkedOn
<1> QED
    BY <1>6, <1>8, <1>9, <1>10, CasesStayKeeps DEF IInv

LEMMA ReuseAnalysisKeeps ==
    ASSUME IInv, NEW c \in Case, ReuseAnalysis(c)
    PROVE  IInv'
<1> USE DEF ReuseAnalysis
<1>1. conflict[c] \in ConflictCase /\ conflict[c].status # "absent"
    BY InvHas, TypeInDatabase DEF Exists
<1>2. PICK x : x = [conflict[c] EXCEPT !.status = "analysis_ready"]
    OBVIOUS
<1>3. x \in ConflictCase /\ x.status = "analysis_ready" /\ x.revision = conflict[c].revision
    BY <1>1, <1>2 DEF ConflictCase
<1>4. conflict' = [conflict EXCEPT ![c] = x] /\ conflict \in [Case -> ConflictCase]
    BY <1>2 DEF IInv, TypeOK
<1>5. CasesStay
    BY <1>1, <1>3, <1>4 DEF CasesStay, IInv, TypeOK
<1>6. \A b \in Case : conflict'[b].status = conflict[b].status \/ conflict'[b].status = "analysis_ready"
    BY <1>3, <1>4
<1>7. TypeOK'
  <2>1. operations' \in 0..MaxOperations
      BY BoundsAreNaturals DEF IInv, TypeOK, Operation
  <2> QED
      BY <1>5, <2>1 DEF IInv, TypeOK, CasesStay
<1>8. Fits(Database)'
  <2>1. \A a \in Analysis : analysis'[a] # NoAnalysis => FitsNow(a)'
      BY <1>5, <1>6, FitsStill
  <2> QED
      BY <2>1, FitsNext
<1>9. Working' /\ AnalyzingIsWorkedOn'
    BY <1>6 DEF IInv, Working, AnalyzingIsWorkedOn
<1> QED
    BY <1>5, <1>7, <1>8, <1>9, CasesStayKeeps DEF IInv

LEMMA RequestAnalysisKeeps ==
    ASSUME IInv, NEW c \in Case, NEW a \in Analysis, RequestAnalysis(c, a)
    PROVE  IInv'
<1> USE DEF RequestAnalysis
<1>1. conflict[c] \in ConflictCase /\ conflict[c].status # "absent" /\ evidence[c] \in SUBSET Evidence
    BY InvHas, TypeInDatabase DEF Exists, IInv, TypeOK
<1>2. PICK x : x = [conflict[c] EXCEPT !.status = "analyzing"]
    OBVIOUS
<1>3. x \in ConflictCase /\ x.status = "analyzing" /\ x.revision = conflict[c].revision
    BY <1>1, <1>2 DEF ConflictCase
<1>4. conflict' = [conflict EXCEPT ![c] = x] /\ conflict \in [Case -> ConflictCase]
    BY <1>2 DEF IInv, TypeOK
<1>5. PICK y : y = [status |-> "queued", stale |-> FALSE, conflict |-> c, context |-> ContextOf(c)]
    OBVIOUS
<1>6. /\ y.status = "queued" /\ y.conflict = c
      /\ y.context.revision = conflict[c].revision /\ y.context.ids = Ids(Current(evidence[c]))
    BY <1>5 DEF ContextOf
<1>7. y \in AiAnalysis /\ y # NoAnalysis
  <2>1. Ids(Current(evidence[c])) \in SUBSET Version
    <3>1. \A e \in Current(evidence[c]) : e \in Evidence
        BY <1>1 DEF Current
    <3> QED
        BY <3>1, IdIs DEF Ids
  <2>2. ContextOf(c) \in Context
      BY <1>1, <2>1 DEF ContextOf, Context, ConflictCase
  <2> QED
      BY <1>5, <1>6, <2>2 DEF AiAnalysis, NoAnalysis
<1>8. analysis' = [analysis EXCEPT ![a] = y] /\ analysis \in [Analysis -> AiAnalysis \cup {NoAnalysis}]
    BY <1>5 DEF IInv, TypeOK
<1>9. analysis'[a] = y /\ \A b \in Analysis \ {a} : analysis'[b] = analysis[b]
    BY <1>8
<1>10. CasesStay
  <2>1. analysis' \in [Analysis -> AiAnalysis \cup {NoAnalysis}]
      BY <1>7, <1>8
  <2> QED
      BY <1>1, <1>3, <1>4, <2>1 DEF CasesStay
<1>11. \A b \in Case : conflict'[b].status = conflict[b].status \/ (b = c /\ conflict'[b].status = "analyzing")
    BY <1>3, <1>4
<1>12. conflict'[c] = x
    BY <1>4
<1>13. \A b \in Analysis : jobs'[b] = IF b = a THEN 1 ELSE jobs[b]
    BY DEF IInv, TypeOK
<1>14. jobs'[a] > 0 /\ \A b \in Analysis \ {a} : jobs'[b] = jobs[b]
    BY <1>13
<1>15. TypeOK'
  <2>1. operations' \in 0..MaxOperations
      BY BoundsAreNaturals DEF IInv, TypeOK, Operation
  <2>2. jobs' \in [Analysis -> 0..MaxJobs]
      BY BoundsAreNaturals DEF IInv, TypeOK
  <2> QED
      BY <1>10, <2>1, <2>2 DEF IInv, TypeOK, CasesStay
<1>16. Fits(Database)'
  <2>1. \A b \in Analysis \ {a} : analysis'[b] # NoAnalysis => FitsNow(b)'
    <3>1. \A b \in Case : conflict'[b].status = "resolved" => conflict[b].status = "resolved"
        BY <1>11
    <3> QED
        BY <1>9, <1>10, <3>1, FitsStill
  <2>2. FitsNow(a)'
    <3>1. conflict'[c].revision \in Nat
        BY <1>3, <1>12 DEF ConflictCase
    <3> QED
        BY <1>3, <1>6, <1>9, <1>12, <3>1 DEF FitsNow
  <2> QED
      BY <2>1, <2>2, FitsNext
<1>17. Working'
    BY <1>7, <1>9, <1>13 DEF IInv, Working, TypeOK
<1>18. AnalyzingIsWorkedOn'
  <2> SUFFICES ASSUME NEW b \in Case, conflict'[b].status = "analyzing"
               PROVE  \E d \in Analysis : /\ analysis'[d] # NoAnalysis /\ analysis'[d].conflict = b
                                          /\ analysis'[d].status \in {"queued", "running"}
                                          /\ jobs'[d] > 0
      BY DEF AnalyzingIsWorkedOn
  <2>1. CASE b = c
    <3>1. /\ analysis'[a] # NoAnalysis /\ analysis'[a].conflict = b
          /\ analysis'[a].status \in {"queued", "running"}
        BY <1>6, <1>7, <1>9, <2>1
    <3> QED
        BY <1>14, <3>1
  <2>2. CASE b # c
    <3>1. conflict[b].status = "analyzing"
        BY <1>11, <2>2
    <3>2. PICK d \in Analysis : /\ analysis[d] # NoAnalysis /\ analysis[d].conflict = b
                                /\ analysis[d].status \in {"queued", "running"}
                                /\ jobs[d] > 0
        BY <3>1 DEF IInv, AnalyzingIsWorkedOn
    <3> QED
        BY <1>7, <1>9, <1>14, <3>2
  <2> QED
      BY <2>1, <2>2
<1> QED
    BY <1>10, <1>15, <1>16, <1>17, <1>18, CasesStayKeeps DEF IInv

\* What the steps of an execution write to its analysis.
LEMMA AnalysisWithStatus ==
    ASSUME NEW x \in AiAnalysis, NEW s \in {"queued", "running", "succeeded", "failed"},
           NEW y, y = [x EXCEPT !.status = s]
    PROVE  /\ y \in AiAnalysis /\ y # NoAnalysis /\ y.status = s
           /\ y.conflict = x.conflict /\ y.context = x.context
    BY DEF AiAnalysis, NoAnalysis

\* Analysis a is y now, which has its case and its context, and no case has changed.
LEMMA AnalysisStays ==
    ASSUME IInv, NEW a \in Analysis, NEW y \in AiAnalysis, y # NoAnalysis, analysis[a] # NoAnalysis,
           y.conflict = analysis[a].conflict, y.context = analysis[a].context,
           analysis' = [analysis EXCEPT ![a] = y], UNCHANGED <<fragment, conflict, evidence, fact>>
    PROVE  /\ CasesStay
           /\ Fits(Database)'
           /\ analysis'[a] = y /\ \A b \in Analysis \ {a} : analysis'[b] = analysis[b]
<1>1. analysis \in [Analysis -> AiAnalysis \cup {NoAnalysis}] /\ conflict \in [Case -> ConflictCase]
    BY DEF IInv, TypeOK
<1>2. analysis'[a] = y /\ \A b \in Analysis \ {a} : analysis'[b] = analysis[b]
    BY <1>1
<1>3. CasesStay
    BY <1>1 DEF CasesStay
<1>4. \A b \in Analysis : analysis'[b] # NoAnalysis => FitsNow(b)'
    BY <1>2, <1>3, FitsStill
<1> QED
    BY <1>2, <1>3, <1>4, FitsNext

LEMMA RetryAnalysisKeeps ==
    ASSUME IInv, NEW a \in Analysis, RetryAnalysis(a)
    PROVE  IInv'
<1> USE DEF RetryAnalysis
<1>1. analysis[a] # NoAnalysis
    BY DEF NoAnalysis
<1>2. analysis[a] \in AiAnalysis
    BY <1>1, InvHas
<1>3. PICK y : y = [analysis[a] EXCEPT !.status = "queued", !.stale = FALSE]
    OBVIOUS
<1>4. /\ y \in AiAnalysis /\ y # NoAnalysis /\ y.status = "queued"
      /\ y.conflict = analysis[a].conflict /\ y.context = analysis[a].context
  <2>1. PICK z : z = analysis[a]
      OBVIOUS
  <2>2. z \in AiAnalysis /\ y = [z EXCEPT !.status = "queued", !.stale = FALSE]
      BY <1>2, <1>3, <2>1
  <2>3. /\ y \in AiAnalysis /\ y # NoAnalysis /\ y.status = "queued"
        /\ y.conflict = z.conflict /\ y.context = z.context
      BY <2>2 DEF AiAnalysis, NoAnalysis
  <2> QED
      BY <2>1, <2>3
<1>5. analysis' = [analysis EXCEPT ![a] = y]
    BY <1>3 DEF IInv, TypeOK
<1>6. /\ CasesStay
      /\ Fits(Database)'
      /\ analysis'[a] = y /\ \A b \in Analysis \ {a} : analysis'[b] = analysis[b]
    BY <1>1, <1>4, <1>5, AnalysisStays
<1>7. jobs \in [Analysis -> 0..MaxJobs] /\ MaxJobs \in Nat
    BY BoundsAreNaturals DEF IInv, TypeOK
<1>8. /\ jobs' \in [Analysis -> 0..MaxJobs]
      /\ jobs'[a] > 0 /\ \A b \in Analysis \ {a} : jobs'[b] = jobs[b]
    BY <1>7
<1>9. TypeOK'
  <2>1. operations' \in 0..MaxOperations
      BY BoundsAreNaturals DEF IInv, TypeOK, Operation
  <2> QED
      BY <1>6, <1>8, <2>1 DEF IInv, TypeOK, CasesStay
<1>10. Working'
    BY <1>4, <1>6, <1>8 DEF IInv, Working, TypeOK
<1>11. AnalyzingIsWorkedOn'
  <2> SUFFICES ASSUME NEW b \in Case, conflict'[b].status = "analyzing"
               PROVE  \E d \in Analysis : /\ analysis'[d] # NoAnalysis /\ analysis'[d].conflict = b
                                          /\ analysis'[d].status \in {"queued", "running"}
                                          /\ jobs'[d] > 0
      BY DEF AnalyzingIsWorkedOn
  <2>1. PICK d \in Analysis : /\ analysis[d] # NoAnalysis /\ analysis[d].conflict = b
                              /\ analysis[d].status \in {"queued", "running"}
                              /\ jobs[d] > 0
      BY DEF IInv, AnalyzingIsWorkedOn
  <2>2. d # a
      BY <2>1
  <2> QED
      BY <1>6, <1>8, <2>1, <2>2
<1> QED
    BY <1>6, <1>9, <1>10, <1>11, CasesStayKeeps DEF IInv

LEMMA StartAnalysisKeeps ==
    ASSUME IInv, NEW a \in Analysis, StartAnalysis(a)
    PROVE  IInv'
<1> USE DEF StartAnalysis
<1>1. analysis[a] # NoAnalysis
    BY DEF IInv, Working
<1>2. analysis[a] \in AiAnalysis
    BY <1>1, InvHas
<1>3. PICK y : y = [analysis[a] EXCEPT !.status = "running"]
    OBVIOUS
<1>4. /\ y \in AiAnalysis /\ y # NoAnalysis /\ y.status = "running"
      /\ y.conflict = analysis[a].conflict /\ y.context = analysis[a].context
    BY <1>2, <1>3, AnalysisWithStatus
<1>5. analysis' = [analysis EXCEPT ![a] = y]
    BY <1>3 DEF IInv, TypeOK
<1>6. /\ CasesStay
      /\ Fits(Database)'
      /\ analysis'[a] = y /\ \A b \in Analysis \ {a} : analysis'[b] = analysis[b]
    BY <1>1, <1>4, <1>5, AnalysisStays
<1>7. TypeOK'
    BY <1>6 DEF IInv, TypeOK, CasesStay
<1>8. Working'
    BY <1>4, <1>6 DEF IInv, Working
<1>9. AnalyzingIsWorkedOn'
  <2> SUFFICES ASSUME NEW b \in Case, conflict'[b].status = "analyzing"
               PROVE  \E d \in Analysis : /\ analysis'[d] # NoAnalysis /\ analysis'[d].conflict = b
                                          /\ analysis'[d].status \in {"queued", "running"}
                                          /\ jobs'[d] > 0
      BY DEF AnalyzingIsWorkedOn
  <2>1. PICK d \in Analysis : /\ analysis[d] # NoAnalysis /\ analysis[d].conflict = b
                              /\ analysis[d].status \in {"queued", "running"}
                              /\ jobs[d] > 0
      BY DEF IInv, AnalyzingIsWorkedOn
  <2>2. CASE d = a
      BY <1>4, <1>6, <2>1, <2>2
  <2>3. CASE d # a
      BY <1>6, <2>1, <2>3
  <2> QED
      BY <2>2, <2>3
<1> QED
    BY <1>6, <1>7, <1>8, <1>9, CasesStayKeeps DEF IInv

\* The end of an execution, with its analysis y, takes its case to analysis_ready, which only a
\* case may be taken to that is not resolved, or out of "analyzing".
LEMMA EndKeeps ==
    ASSUME IInv, worker # Nobody, ExecutionEnds, NEW y \in AiAnalysis, y # NoAnalysis,
           y.conflict = analysis[worker].conflict, y.context = analysis[worker].context,
           analysis' = [analysis EXCEPT ![worker] = y],
           NEW ready \in BOOLEAN, AfterAnalysis(analysis[worker].conflict, ready),
           ready => conflict[analysis[worker].conflict].status # "resolved",
           UNCHANGED <<fragment, evidence, fact, operations>>
    PROVE  /\ IInv'
           /\ \A c \in Case : conflict[c].status = "resolved" => conflict'[c].status = "resolved"
<1> DEFINE c == analysis[worker].conflict
<1>1. worker \in Analysis /\ jobs[worker] > 0 /\ analysis[worker] # NoAnalysis
    BY DEF IInv, TypeOK, Working
<1>2. c \in Case /\ conflict[c] \in ConflictCase /\ conflict[c].status # "absent"
    BY <1>1, InvHas, FitsIs DEF IInv, FitsNow
<1>3. AfterAnalysis(c, ready) /\ (ready => conflict[c].status # "resolved")
    OBVIOUS
<1>4. analysis \in [Analysis -> AiAnalysis \cup {NoAnalysis}] /\ conflict \in [Case -> ConflictCase]
    BY DEF IInv, TypeOK
<1>5. /\ analysis'[worker] = y /\ \A b \in Analysis \ {worker} : analysis'[b] = analysis[b]
      /\ analysis' \in [Analysis -> AiAnalysis \cup {NoAnalysis}]
    BY <1>1, <1>4
<1>6. y.conflict = c
    OBVIOUS
<1> HIDE DEF c
<1>7. PICK s : s = IF ready THEN "analysis_ready"
                   ELSE IF conflict[c].status = "analyzing" THEN "open" ELSE conflict[c].status
    OBVIOUS
<1>8. PICK x : x = [conflict[c] EXCEPT !.status = s]
    OBVIOUS
<1>9. conflict' = [conflict EXCEPT ![c] = x]
    BY <1>2, <1>3, <1>4, <1>7, <1>8 DEF AfterAnalysis
<1>10. s \in {"open", "reopened", "analysis_ready", "resolved"} /\ (s = "resolved" <=> conflict[c].status = "resolved")
    BY <1>2, <1>3, <1>7 DEF ConflictCase
<1>11. /\ x \in ConflictCase /\ x.status = s /\ x.revision = conflict[c].revision
       /\ x.resolution = conflict[c].resolution
    BY <1>2, <1>8, <1>10 DEF ConflictCase
<1>12. conflict'[c] = x /\ \A b \in Case \ {c} : conflict'[b] = conflict[b]
    BY <1>2, <1>4, <1>9
<1>13. CasesStay
  <2>1. conflict' \in [Case -> ConflictCase]
      BY <1>4, <1>9, <1>11
  <2>2. \A b \in Case : /\ conflict'[b].status = "absent" <=> conflict[b].status = "absent"
                        /\ conflict[b].status = "absent" => conflict'[b] = conflict[b]
                        /\ conflict'[b].revision = conflict[b].revision
                        /\ conflict'[b].resolution = conflict[b].resolution
                        /\ conflict'[b].status = "resolved" => conflict[b].status = "resolved"
    <3>1. ASSUME NEW b \in Case, b # c
          PROVE  conflict'[b] = conflict[b]
        BY <1>12, <3>1
    <3>2. /\ conflict'[c].status # "absent" /\ conflict'[c].revision = conflict[c].revision
          /\ conflict'[c].resolution = conflict[c].resolution
          /\ conflict'[c].status = "resolved" => conflict[c].status = "resolved"
        BY <1>10, <1>11, <1>12
    <3> QED
        BY <1>2, <3>1, <3>2
  <2> QED
      BY <1>5, <2>1, <2>2 DEF CasesStay
<1>14. \A b \in Case : conflict'[b].status = "resolved" <=> conflict[b].status = "resolved"
    BY <1>10, <1>11, <1>12
<1>15. /\ jobs' \in [Analysis -> 0..MaxJobs]
       /\ \A b \in Analysis \ {worker} : jobs'[b] = jobs[b]
       /\ worker' = Nobody
  <2>1. jobs \in [Analysis -> 0..MaxJobs] /\ MaxJobs \in Nat /\ jobs[worker] \in 0..MaxJobs
      BY <1>1, BoundsAreNaturals DEF IInv, TypeOK
  <2>2. PICK ended \in BOOLEAN : jobs' = IF ended THEN [jobs EXCEPT ![worker] = @ - 1] ELSE jobs
      BY DEF ExecutionEnds
  <2>3. jobs[worker] - 1 \in 0..MaxJobs
      BY <1>1, <2>1
  <2> QED
      BY <2>1, <2>2, <2>3 DEF ExecutionEnds
<1>16. TypeOK'
    BY <1>13, <1>15 DEF IInv, TypeOK, CasesStay
<1>17. Fits(Database)'
  <2>1. \A a \in Analysis : analysis'[a] # NoAnalysis => FitsNow(a)'
      BY <1>1, <1>5, <1>13, <1>14, FitsStill
  <2> QED
      BY <2>1, FitsNext
<1>18. Working'
    BY <1>5, <1>15 DEF IInv, Working
<1>19. AnalyzingIsWorkedOn'
  <2> SUFFICES ASSUME NEW b \in Case, conflict'[b].status = "analyzing"
               PROVE  \E d \in Analysis : /\ analysis'[d] # NoAnalysis /\ analysis'[d].conflict = b
                                          /\ analysis'[d].status \in {"queued", "running"}
                                          /\ jobs'[d] > 0
      BY DEF AnalyzingIsWorkedOn
  <2>1. b # c /\ conflict[b].status = "analyzing"
      BY <1>10, <1>11, <1>12
  <2>2. PICK d \in Analysis : /\ analysis[d] # NoAnalysis /\ analysis[d].conflict = b
                              /\ analysis[d].status \in {"queued", "running"}
                              /\ jobs[d] > 0
      BY <2>1 DEF IInv, AnalyzingIsWorkedOn
  <2>3. d # worker
      BY <2>1, <2>2 DEF c
  <2> QED
      BY <1>5, <1>15, <2>2, <2>3
<1> QED
    BY <1>13, <1>14, <1>16, <1>17, <1>18, <1>19, CasesStayKeeps DEF IInv

LEMMA CompleteAnalysisKeeps ==
    ASSUME IInv, CompleteAnalysis
    PROVE  /\ IInv'
           /\ \A c \in Case : conflict[c].status = "resolved" => conflict'[c].status = "resolved"
<1> USE DEF CompleteAnalysis
<1>1. PICK stale : stale = (\/ analysis[worker].stale
                            \/ conflict[analysis[worker].conflict].revision
                                 # analysis[worker].context.revision)
    OBVIOUS
<1>2. worker \in Analysis /\ analysis[worker] # NoAnalysis
    BY DEF IInv, TypeOK, Working
<1>3. analysis[worker] \in AiAnalysis /\ FitsNow(worker)
    BY <1>2, InvHas, FitsIs DEF IInv
<1>4. stale \in BOOLEAN
    BY <1>1, <1>3 DEF AiAnalysis
<1>5. PICK y : y = [analysis[worker] EXCEPT !.status = "succeeded", !.stale = stale]
    OBVIOUS
<1>6. /\ y \in AiAnalysis /\ y # NoAnalysis
      /\ y.conflict = analysis[worker].conflict /\ y.context = analysis[worker].context
  <2>1. PICK z : z = analysis[worker]
      OBVIOUS
  <2>2. z \in AiAnalysis /\ y = [z EXCEPT !.status = "succeeded", !.stale = stale]
      BY <1>3, <1>5, <2>1
  <2>3. /\ y \in AiAnalysis /\ y # NoAnalysis
        /\ y.conflict = z.conflict /\ y.context = z.context
      BY <1>4, <2>2 DEF AiAnalysis, NoAnalysis
  <2> QED
      BY <2>1, <2>3
<1>7. /\ worker # Nobody /\ ExecutionEnds
      /\ analysis' = [analysis EXCEPT ![worker] = y]
      /\ AfterAnalysis(analysis[worker].conflict, ~stale)
      /\ UNCHANGED <<fragment, evidence, fact, operations>>
    BY <1>1, <1>5
<1>8. ~stale => conflict[analysis[worker].conflict].status # "resolved"
    BY <1>1, <1>3 DEF FitsNow
<1>9. PICK ready \in BOOLEAN : ready = ~stale
    BY <1>4
<1> QED
    BY <1>6, <1>7, <1>8, <1>9, EndKeeps

LEMMA FailAnalysisKeeps ==
    ASSUME IInv, FailAnalysis
    PROVE  /\ IInv'
           /\ \A c \in Case : conflict[c].status = "resolved" => conflict'[c].status = "resolved"
<1> USE DEF FailAnalysis
<1>1. worker \in Analysis /\ analysis[worker] # NoAnalysis
    BY DEF IInv, TypeOK, Working
<1>2. analysis[worker] \in AiAnalysis
    BY <1>1, InvHas
<1>3. PICK y : y = [analysis[worker] EXCEPT !.status = "failed"]
    OBVIOUS
<1>4. /\ y \in AiAnalysis /\ y # NoAnalysis
      /\ y.conflict = analysis[worker].conflict /\ y.context = analysis[worker].context
    BY <1>2, <1>3, AnalysisWithStatus
<1>5. /\ worker # Nobody /\ ExecutionEnds
      /\ analysis' = [analysis EXCEPT ![worker] = y]
      /\ AfterAnalysis(analysis[worker].conflict, FALSE)
      /\ UNCHANGED <<fragment, evidence, fact, operations>>
    BY <1>1, <1>3 DEF IInv, TypeOK
<1> QED
    BY <1>4, <1>5, EndKeeps

LEMMA StutteringKeeps ==
    ASSUME IInv, UNCHANGED <<fragment, conflict, evidence, fact, analysis, jobs, operations>>,
           worker' \in {worker, Nobody}
    PROVE  IInv'
<1>1. Database' = Database
    BY DEF Database
<1>2. TypeOK' /\ Working' /\ AnalyzingIsWorkedOn'
    BY DEF IInv, TypeOK, Working, AnalyzingIsWorkedOn
<1>3. Sound(Database)' /\ Rests(Database)' /\ Seen(Database)' /\ Fits(Database)'
    BY <1>1 DEF IInv
<1> QED
    BY <1>2, <1>3 DEF IInv

-----------------------------------------------------------------------------
(***************************************************************************)
(* The theorems                                                            *)
(***************************************************************************)
LEMMA InitHolds == Init => IInv
<1> SUFFICES ASSUME Init PROVE IInv
    OBVIOUS
<1> USE DEF Init
<1>1. TypeOK
  <2>1. fragment \in [Source -> Fragment]
      BY DEF Fragment
  <2>2. conflict \in [Case -> ConflictCase]
      BY DEF ConflictCase, NoCase
  <2>3. evidence \in [Case -> SUBSET Evidence]
      OBVIOUS
  <2>4. fact \in FactRecord
    <3>1. 1 \in Case
        BY BoundsAreNaturals DEF Case
    <3> QED
        BY <3>1 DEF FactRecord
  <2>5. analysis \in [Analysis -> AiAnalysis \cup {NoAnalysis}]
      OBVIOUS
  <2>6. /\ jobs \in [Analysis -> 0..MaxJobs] /\ operations \in 0..MaxOperations
        /\ worker \in Analysis \cup {Nobody}
      BY BoundsAreNaturals
  <2> QED
      BY <2>1, <2>2, <2>3, <2>4, <2>5, <2>6 DEF TypeOK
<1>2. PICK d : d = Database
    OBVIOUS
<1>3. /\ d.fragment = fragment /\ d.conflict = conflict /\ d.evidence = evidence
      /\ d.fact = fact /\ d.analysis = analysis
    BY <1>2, TypeInDatabase
<1>4. d \in Databases
    BY <1>1, <1>2 DEF TypeOK, Databases, Fragments, Database
<1>5. \A c \in Case : ~Exists(d, c) /\ d.conflict[c] = NoCase /\ d.evidence[c] = {}
    BY <1>3 DEF Exists, NoCase
<1>6. \E k \in 0..MaxCases : Numbered(d) = 1..k
  <2>1. Numbered(d) = 1..0
      BY <1>5 DEF Numbered
  <2> QED
      BY <2>1, BoundsAreNaturals
<1>7. GoodFragments(d.fragment)
    BY <1>3 DEF GoodFragments, Source
<1>8. \A c \in Case : GoodRows(d.fragment, d.evidence[c])
    BY <1>5 DEF GoodRows
<1>9. Sound(d)
    BY <1>4, <1>5, <1>6, <1>7, <1>8 DEF Sound
<1>10. Rests(d) /\ Fits(d)
    BY <1>3 DEF Rests, Fits
<1>11. Working /\ AnalyzingIsWorkedOn
    BY DEF Working, AnalyzingIsWorkedOn, NoCase
<1>12. Seen(d)
    BY <1>3 DEF Seen, SeenAmong, PlainReport, Opposed, Source
<1> QED
    BY <1>1, <1>2, <1>9, <1>10, <1>11, <1>12 DEF IInv

LEMMA NextKeeps == IInv /\ [Next]_vars => IInv'
<1> SUFFICES ASSUME IInv, [Next]_vars PROVE IInv'
    OBVIOUS
<1>1. CASE UNCHANGED vars
    BY <1>1, StutteringKeeps DEF vars
<1>2. CASE \E r \in Report, v \in Value \cup {Unknown} :
              PostReport(r, v) \/ \E reset \in BOOLEAN : PatchReport(r, v, reset)
    BY <1>2, PostReportKeeps, PatchReportKeeps
<1>3. CASE \E r \in Report : WithdrawReport(r) \/ \E reset \in BOOLEAN : RestoreReport(r, reset)
    BY <1>3, WithdrawReportKeeps, RestoreReportKeeps
<1>4. CASE \E a \in Answer, v \in Value \cup {Unknown} : PutAnswer(a, v)
    BY <1>4, PutAnswerKeeps
<1>5. CASE \E S \in SUBSET Source : CreateConflict(S)
    BY <1>5, CreateConflictKeeps
<1>6. CASE \E c \in Case, S \in SUBSET Source : AppendEvidence(c, S)
    BY <1>6, AppendEvidenceKeeps
<1>7. CASE \E c \in Case : ReopenConflict(c) \/ ReuseAnalysis(c) \/ WindowPasses(c)
    BY <1>7, ReopenConflictKeeps, ReuseAnalysisKeeps, WindowPassesKeeps
<1>8. CASE \E c \in Case, status \in {"current", "under_review"} :
              \E accepted \in SUBSET evidence[c] : Decide(c, accepted, status)
    BY <1>8, DecideKeeps
<1>9. CASE \E c \in Case, a \in Analysis : RequestAnalysis(c, a)
    BY <1>9, RequestAnalysisKeeps
<1>10. CASE \E a \in Analysis : RetryAnalysis(a) \/ StartAnalysis(a)
    BY <1>10, RetryAnalysisKeeps, StartAnalysisKeeps
<1>11. CASE CompleteAnalysis
    BY <1>11, CompleteAnalysisKeeps
<1>12. CASE FailAnalysis
    BY <1>12, FailAnalysisKeeps
<1>13. CASE ExecutionLost
    BY <1>13, StutteringKeeps DEF ExecutionLost
<1> QED
    BY <1>1, <1>2, <1>3, <1>4, <1>5, <1>6, <1>7, <1>8, <1>9, <1>10, <1>11, <1>12, <1>13 DEF Next

\* Whatever reports, answers, operators and the worker do to the cases of a place
\* (conflicts.py, report_observations.py, questions.py, ai.py), the rows, the cases, the fact
\* and the analyses keep the shape that module Conflicts gives them: what the transactions make
\* of them in several steps are such rows again, and the numbers they count up stay numbers.
THEOREM TypesAreKept == Spec => []TypeOK
<1>1. IInv => TypeOK
    BY DEF IInv
<1> QED
    BY <1>1, InitHolds, NextKeeps, PTL DEF Spec

\* Of two versions of one source at most one is current in a case, however add_evidence,
\* _invalidate_fragment_evidence and the updates of an answer follow one another: a current row
\* is the newest of its source, and a version is there once.
THEOREM SourcesSpeakOnce == Spec => []OneCurrentVersion
<1>1. IInv => OneCurrentVersion
  <2> SUFFICES ASSUME IInv, NEW c \in Case, NEW e \in Current(evidence[c]), NEW f \in Current(evidence[c]),
                      e.source = f.source
               PROVE  e = f
      BY DEF OneCurrentVersion
  <2>1. GoodRows(fragment, evidence[c]) /\ evidence[c] \in SUBSET Evidence
      BY TypeInDatabase DEF IInv, Sound, TypeOK
  <2>2. e \in Evidence /\ f \in Evidence /\ e \in evidence[c] /\ f \in evidence[c] /\ e.current /\ f.current
      BY <2>1 DEF Current
  <2>3. e.revision <= f.revision /\ f.revision <= e.revision
      BY <2>1, <2>2 DEF GoodRows
  <2>4. e.revision \in Nat /\ f.revision \in Nat
      BY <2>2 DEF Evidence
  <2>5. Id(e) = Id(f)
      BY <2>3, <2>4 DEF Id
  <2> QED
      BY <2>1, <2>2, <2>5 DEF GoodRows
<1> QED
    BY <1>1, InitHolds, NextKeeps, PTL DEF Spec

\* A current row of a report says what the report says now: whoever changes a report or takes
\* it away (process_report_observation, deactivate_report_observation) takes its rows out of
\* every case first, the resolved and the old ones, too.
THEOREM EvidenceFollowsReports == Spec => []EvidenceIsWhatReportsSay
<1>1. IInv => EvidenceIsWhatReportsSay
  <2> SUFFICES ASSUME IInv, NEW c \in Case, NEW e \in Current(evidence[c]), e.source \in Report
               PROVE  fragment[e.source].value = e.value
      BY DEF EvidenceIsWhatReportsSay
  <2>1. GoodRows(fragment, evidence[c]) /\ e \in evidence[c] /\ e.current
      BY TypeInDatabase DEF IInv, Sound, Current
  <2> QED
      BY <2>1 DEF GoodRows, GoodRow
<1> QED
    BY <1>1, InitHolds, NextKeeps, PTL DEF Spec

\* A current fact rests on evidence: what decide_conflict accepted is still current in its case,
\* or a newer version was put beside it, since _reconcile_conflicts has the fact reviewed
\* whenever an accepted row is withdrawn.
THEOREM FactsRestOnEvidence == Spec => []AcceptedEvidenceStands
<1>1. IInv => AcceptedEvidenceStands
    BY TypeInDatabase DEF IInv, Rests, Backed, AcceptedEvidenceStands
<1> QED
    BY <1>1, InitHolds, NextKeeps, PTL DEF Spec

\* Two reports that contradict each other, and of which no decision has accepted either, are
\* together in a case that the reconciliation has not settled: the detection puts them into one
\* when the later one is written, no other report's change takes their rows out of it, and
\* _reconcile_conflicts settles only what has one definite value left.  What the detection
\* passes over, fragments that are resolved or withdrawn, is of reports that were accepted or
\* do not count (PlainReport).
THEOREM ContradictionsAreSeen == Spec => []OpenContradictionIsSeen
<1>1. IInv => OpenContradictionIsSeen
  <2> SUFFICES ASSUME IInv, NEW r \in Report, NEW t \in Report,
                      ~fragment[r].accepted, ~fragment[t].accepted, Contradict(r, t)
               PROVE  BeforeOperators(r, t)
      BY DEF OpenContradictionIsSeen
  <2>1. Opposed(fragment, r, t)
      BY DEF Opposed, Contradict
  <2>2. PICK c \in Case : /\ Speaks(evidence[c], r) /\ Speaks(evidence[c], t)
                          /\ LeftToOperators(conflict[c])
      BY <2>1, TypeInDatabase DEF IInv, Seen, SeenAmong, SeenIn
  <2>3. {r, t} \subseteq {e.source : e \in Current(evidence[c])}
      BY <2>2 DEF Speaks, Current
  <2> QED
      BY <2>2, <2>3 DEF BeforeOperators, LeftToOperators
<1> QED
    BY <1>1, InitHolds, NextKeeps, PTL DEF Spec

\* An analysis that decide_conflict lets an operator cite was made of the rows the decision has to
\* dispose of: no transaction changes the current rows of a case and leaves its revision.
THEOREM CitedAnalysesFit == Spec => []AnalysisFitsEvidence
<1>1. IInv => AnalysisFitsEvidence
  <2> SUFFICES ASSUME IInv, NEW c \in Case, NEW a \in Citable(c)
               PROVE  analysis[a].context.ids = Ids(Current(evidence[c]))
      BY DEF AnalysisFitsEvidence
  <2>1. a \in Analysis /\ analysis[a].status = "succeeded" /\ analysis[a].conflict = c
        /\ analysis[a].context.revision = conflict[c].revision
      BY DEF Citable
  <2>2. analysis[a] # NoAnalysis
      BY <2>1 DEF NoAnalysis
  <2>3. FitsNow(a)
      BY <2>1, <2>2, FitsIs DEF IInv
  <2> QED
      BY <2>1, <2>3 DEF FitsNow
<1> QED
    BY <1>1, InitHolds, NextKeeps, PTL DEF Spec

\* A case is only "analyzing" while an analysis of it is queued or running and has a job that
\* has not ended: whichever way an execution ends, it takes the case out of "analyzing"
\* (_complete_async_analysis, _fail_async_analysis).
THEOREM NobodyIsLeftAnalyzing == Spec => []AnalyzingIsWorkedOn
<1>1. IInv => AnalyzingIsWorkedOn
    BY DEF IInv
<1> QED
    BY <1>1, InitHolds, NextKeeps, PTL DEF Spec

\* The end of an execution does not take a case out of "resolved": a case that an analysis can
\* still make ready (_complete_async_analysis) has the revision of its context, and whatever
\* resolves a case gives it another.
THEOREM LateAnalysesAreHarmless == Spec => LateAnalysisIsHarmless
<1> DEFINE Harmless == \A c \in Case : conflict[c].status = "resolved" /\ conflict'[c].status # "resolved"
                                         => worker' = worker
<1>1. ASSUME IInv, [Next]_vars PROVE Harmless
  <2>1. CASE worker' = worker
      BY <2>1
  <2>2. CASE CompleteAnalysis \/ FailAnalysis
      BY <1>1, <2>2, CompleteAnalysisKeeps, FailAnalysisKeeps
  <2>3. CASE ExecutionLost \/ \E a \in Analysis : StartAnalysis(a)
      BY <2>3 DEF ExecutionLost, StartAnalysis
  <2>4. CASE \E r \in Report, v \in Value \cup {Unknown} :
                PostReport(r, v) \/ \E reset \in BOOLEAN : PatchReport(r, v, reset)
    <3>1. \A r, f : Observe(r, f) => worker' = worker
        BY DEF Observe
    <3> QED
        BY <2>4, <3>1 DEF PostReport, PatchReport, Upserted
  <2>5. CASE \E r \in Report : WithdrawReport(r) \/ \E reset \in BOOLEAN : RestoreReport(r, reset)
    <3>1. \A r, f : Observe(r, f) => worker' = worker
        BY DEF Observe
    <3>2. \A r : WithdrawReport(r) => worker' = worker
        BY DEF WithdrawReport
    <3> QED
        BY <2>5, <3>1, <3>2 DEF RestoreReport, Upserted
  <2>6. CASE \E a \in Answer, v \in Value \cup {Unknown} : PutAnswer(a, v)
      BY <2>6 DEF PutAnswer
  <2>7. CASE \E S \in SUBSET Source : CreateConflict(S)
      BY <2>7 DEF CreateConflict
  <2>8. CASE \E c \in Case, S \in SUBSET Source : AppendEvidence(c, S)
      BY <2>8 DEF AppendEvidence
  <2>9. CASE \E c \in Case : ReopenConflict(c) \/ ReuseAnalysis(c) \/ WindowPasses(c)
      BY <2>9 DEF ReopenConflict, ReuseAnalysis, WindowPasses
  <2>10. CASE \E c \in Case, status \in {"current", "under_review"} :
                \E accepted \in SUBSET evidence[c] : Decide(c, accepted, status)
      BY <2>10 DEF Decide
  <2>11. CASE \/ \E c \in Case, a \in Analysis : RequestAnalysis(c, a)
              \/ \E a \in Analysis : RetryAnalysis(a)
      BY <2>11 DEF RequestAnalysis, RetryAnalysis
  <2>12. CASE UNCHANGED vars
      BY <2>12 DEF vars
  <2> QED
      BY <1>1, <2>1, <2>2, <2>3, <2>4, <2>5, <2>6, <2>7, <2>8, <2>9, <2>10, <2>11, <2>12 DEF Next
<1>2. Spec => []IInv
    BY InitHolds, NextKeeps, PTL DEF Spec
<1>3. IInv /\ [Next]_vars => [Harmless]_vars
    BY <1>1
<1> QED
    BY <1>2, <1>3, PTL DEF Spec, LateAnalysisIsHarmless
=============================================================================
