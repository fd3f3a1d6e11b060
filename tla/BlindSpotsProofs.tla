--------------------------- MODULE BlindSpotsProofs ---------------------------
(***************************************************************************)
(* Theorems about BlindSpots, for every value of its constants.  What      *)
(* JobQueueProofs says of the queue is used of the detection jobs.         *)
(***************************************************************************)
EXTENDS BlindSpots, FiniteSetTheorems, TLAPS

QueueProofs == INSTANCE JobQueueProofs

-----------------------------------------------------------------------------
(***************************************************************************)
(* The inductive invariant                                                 *)
(***************************************************************************)
Fragments == [Source -> Fragment]

GoodRow(x) == x \in BlindSpot /\ (x.status = "resolved" <=> x.value # Nothing)
GoodBlind(b) == b \in [Place -> BlindSpot] /\ \A p \in Place : GoodRow(b[p])

\* Nothing is dated later than now.
Past ==
    \A s \in Source : /\ fragment[s].revision <= now /\ fragment[s].received <= now
                      /\ fragment[s].told <= now

\* What is claimed is claimed of a place and has a revision, an answer is about the place of its
\* question, and reports have told what they say.
SpokenOf ==
    /\ \A s \in Source : /\ fragment[s].value # Nothing => fragment[s].place \in Place
                         /\ fragment[s].status = "active" => fragment[s].revision # 0
    /\ \A d \in Device, p \in Place : fragment[<<d, p>>].place \in {p, Nowhere}
    /\ \A r \in Report : Definite(fragment, r) => fragment[r].told >= fragment[r].received

\* There is no job for an observation that is still to come, and the worker's job was claimed.
JobsNotAhead ==
    \A r \in Report, n \in 1..MaxOperations :
        n > fragment[r].revision => job[<<r, n>>] = Queue!Absent

InHandClaimed == worker # Queue!Idle => job[worker.job].status \notin {"absent", "queued"}

\* What makes a gap seen that report r points out, besides the job that is still to detect it.
Covered(r) ==
    \/ IsOpen(fragment[r].place)
    \/ \E t \in Source \ {r} : fragment[t].told >= fragment[r].received
    \/ \E d \in Device : fragment[<<d, fragment[r].place>>].status = "active"

AwaitsDetection(r) ==
    job[<<r, fragment[r].revision>>].status \in Queue!Unfinished \cup {"failed"}

\* If the detection of a gap is over, the gap is covered, before the job is marked.
GapsCovered ==
    \A r \in Report : Active(fragment, r) /\ Unknown(fragment, r) =>
        /\ AwaitsDetection(r) \/ Covered(r)
        /\ worker.at = "done" /\ worker.job = <<r, fragment[r].revision>> => Covered(r)

GapInv == ~incident.interrupted => incident.active /\ GapsCovered

DataInv ==
    /\ fragment \in Fragments /\ GoodBlind(blind) /\ now \in 0..MaxOperations
    /\ incident \in [active : BOOLEAN, interrupted : BOOLEAN]
    /\ Past
    /\ SpokenOf

JobInv == QueueProofs!IInv /\ JobsNotAhead /\ JobsAreCurrent /\ InHandClaimed

IInv == DataInv /\ JobInv /\ GapInv

-----------------------------------------------------------------------------
(***************************************************************************)
(* The blind spots                                                         *)
(***************************************************************************)
LEMMA SourcesAre ==
    /\ \A r \in Report : r \in Source
    /\ \A d \in Device, p \in Place : <<d, p>> \in Source /\ <<d, p>> \notin Report
    /\ \A s \in Source : s \in Report \/ \E d \in Device, p \in Place : s = <<d, p>>
BY SourcesAreApart DEF Source, Answer

RestsOn(f, t, p) == t \in Source /\ Active(f, t) /\ Unknown(f, t) /\ f[t].place = p

\* What may become of the blind spot of p when source s has changed: if it is open, it is left
\* alone, or handed over, or resolved, because s has become definite or because nobody else has
\* an unknown observation.
OpenBecomes(f, s, p, x) ==
    \/ x = blind[p] /\ (blind[p].origin = s => RestsOn(f, s, p))
    \/ x.status = "resolved" /\ Definite(f, s) /\ f[s].status = "active"
    \/ x.status \in Open /\ RestsOn(f, x.origin, p)
    \/ x.status = "resolved" /\ \A t \in Source \ {s} : ~RestsOn(f, t, p)

LEMMA AfterChangeIs ==
    ASSUME NEW f \in Fragments, NEW s \in Source, NEW p \in Place, GoodRow(blind[p]),
           NEW x \in AfterChange(f, s, p)
    PROVE  /\ GoodRow(x)
           /\ blind[p].status \in Open => OpenBecomes(f, s, p, x)
<1> DEFINE y == blind[p]
<1>1. y \in BlindSpot /\ (y.status = "resolved" <=> y.value # Nothing)
    BY DEF GoodRow
<1>2. \A t \in Others(f, s, p) : t \in Source \ {s}
    BY DEF Others
<1>3. \A t \in Source : Definite(f, t) => f[t].value \in Value /\ f[t].value # Nothing
    BY ValuesAreDefinite DEF Definite
<1> HIDE DEF y
<1>4. \A t \in Source \ {s} : RestsOn(f, t, p) <=> t \in Others(f, s, p) /\ Unknown(f, t)
    BY DEF RestsOn, Others
<1>5. CASE y.resolver = s /\ y.status = "resolved"
  <2>1. x \in AfterResolver(f, s, p, y)
      BY <1>5 DEF AfterChange, y
  <2>2. \/ x = y
        \/ \E t \in Others(f, s, p) :
              Definite(f, t) /\ x = [y EXCEPT !.resolver = t, !.value = f[t].value]
        \/ x = [y EXCEPT !.status = "reopened", !.resolver = Nobody, !.value = Nothing]
      BY <2>1 DEF AfterResolver
  <2>3. GoodRow(x)
    <3>1. CASE x = y
        BY <1>1, <3>1 DEF GoodRow
    <3>2. ASSUME NEW t \in Others(f, s, p), Definite(f, t),
                 x = [y EXCEPT !.resolver = t, !.value = f[t].value]
          PROVE  GoodRow(x)
      <4>1. t \in Source /\ f[t].value \in Value /\ f[t].value # Nothing
          BY <1>2, <1>3, <3>2
      <4>2. PICK v \in Value : v = f[t].value
          BY <4>1
      <4>3. x = [y EXCEPT !.resolver = t, !.value = v]
          BY <3>2, <4>2
      <4> QED
          BY <1>1, <1>5, <4>1, <4>2, <4>3 DEF GoodRow, BlindSpot
    <3>3. CASE x = [y EXCEPT !.status = "reopened", !.resolver = Nobody, !.value = Nothing]
        BY <1>1, <3>3 DEF GoodRow, BlindSpot
    <3> QED
        BY <2>2, <3>1, <3>2, <3>3
  <2> QED
      BY <1>5, <2>3 DEF Open, y
<1>6. CASE ~(y.resolver = s /\ y.status = "resolved") /\ y.origin = s /\ y.status \in Open
  <2>1. x \in AfterOrigin(f, s, p, y)
      BY <1>6 DEF AfterChange, y
  <2>2. \/ x = y /\ Active(f, s) /\ f[s].place = p /\ Unknown(f, s)
        \/ x = [y EXCEPT !.status = "resolved", !.resolver = s, !.value = f[s].value]
           /\ Definite(f, s) /\ Active(f, s)
        \/ \E t \in Others(f, s, p) : Unknown(f, t) /\ x = [y EXCEPT !.origin = t]
        \/ x = [y EXCEPT !.status = "resolved", !.value = "withdrawn"]
           /\ \A t \in Others(f, s, p) : ~Unknown(f, t)
      BY <2>1 DEF AfterOrigin
  <2>3. CASE x = y /\ Active(f, s) /\ f[s].place = p /\ Unknown(f, s)
      BY <1>1, <2>3 DEF GoodRow, OpenBecomes, RestsOn, y
  <2>4. CASE x = [y EXCEPT !.status = "resolved", !.resolver = s, !.value = f[s].value]
             /\ Definite(f, s) /\ Active(f, s)
    <3>1. PICK v \in Value : v = f[s].value /\ v # Nothing
        BY <1>3, <2>4
    <3>2. x = [y EXCEPT !.status = "resolved", !.resolver = s, !.value = v]
        BY <2>4, <3>1
    <3>3. GoodRow(x) /\ x.status = "resolved"
        BY <1>1, <3>1, <3>2 DEF GoodRow, BlindSpot
    <3> QED
        BY <2>4, <3>3 DEF OpenBecomes, Active
  <2>5. ASSUME NEW t \in Others(f, s, p), Unknown(f, t), x = [y EXCEPT !.origin = t]
        PROVE  GoodRow(x) /\ OpenBecomes(f, s, p, x)
    <3>1. GoodRow(x) /\ x.status \in Open /\ x.origin = t
        BY <1>1, <1>2, <1>6, <2>5 DEF GoodRow, BlindSpot
    <3> QED
        BY <1>2, <1>4, <2>5, <3>1 DEF OpenBecomes
  <2>6. CASE x = [y EXCEPT !.status = "resolved", !.value = "withdrawn"]
             /\ \A t \in Others(f, s, p) : ~Unknown(f, t)
    <3>1. GoodRow(x) /\ x.status = "resolved"
        BY <1>1, <2>6 DEF GoodRow, BlindSpot, Nothing
    <3> QED
        BY <1>4, <2>6, <3>1 DEF OpenBecomes
  <2> QED
      BY <2>2, <2>3, <2>4, <2>5, <2>6
<1>7. CASE ~(y.resolver = s /\ y.status = "resolved") /\ ~(y.origin = s /\ y.status \in Open)
  <2>1. x = y
      BY <1>7 DEF AfterChange, y
  <2> QED
      BY <1>1, <1>7, <2>1 DEF GoodRow, OpenBecomes, y
<1> QED
    BY <1>5, <1>6, <1>7

LEMMA DeactivationsAre ==
    ASSUME NEW f \in Fragments, NEW s \in Source, GoodBlind(blind), NEW b \in Deactivations(f, s)
    PROVE  GoodBlind(b) /\ \A p \in Place : b[p] \in AfterChange(f, s, p)
<1>1. \A p \in Place : b[p] \in AfterChange(f, s, p)
    BY DEF Deactivations
<1>2. \A p \in Place : GoodRow(b[p])
    BY <1>1, AfterChangeIs DEF GoodBlind
<1>3. b = [p \in Place |-> b[p]]
    BY DEF Deactivations
<1> QED
    BY <1>1, <1>2, <1>3 DEF GoodBlind, GoodRow

\* Row y of the blind spot of p has become x, open for the observation of r.
OpensFor(f, r, p, y, x) ==
    /\ p = f[r].place /\ Active(f, r) /\ Unknown(f, r)
    /\ y.status \notin Open /\ x.status \in Open /\ x.origin = r

LEMMA DetectedIs ==
    ASSUME NEW f, NEW b, GoodBlind(b), NEW r \in Source, NEW e, e = Detected(f, b, r)
    PROVE  GoodBlind(e) /\ \A p \in Place : e[p] = b[p] \/ OpensFor(f, r, p, b[p], e[p])
<1>1. CASE ~(incident.active /\ Active(f, r) /\ Unknown(f, r) /\ ~SaidSince(f, r))
    BY <1>1 DEF Detected
<1>2. CASE incident.active /\ Active(f, r) /\ Unknown(f, r) /\ ~SaidSince(f, r)
  <2> DEFINE q == f[r].place
  <2>0. PICK row :
           row = IF b[q].status = "absent" THEN [b[q] EXCEPT !.status = "open", !.origin = r]
                 ELSE IF b[q].status = "resolved"
                      THEN [b[q] EXCEPT !.status = "reopened", !.origin = r, !.value = Nothing]
                 ELSE b[q]
      OBVIOUS
  <2>1. e = [b EXCEPT ![q] = row]
      BY <1>2, <2>0 DEF Detected
  <2>2. ASSUME q \in Place
        PROVE  /\ GoodRow(row) /\ row.status \in Open
               /\ \/ row = b[q]
                  \/ b[q].status \notin Open /\ row.origin = r
    <3>1. b[q] \in BlindSpot /\ (b[q].status = "resolved" <=> b[q].value # Nothing)
        BY <2>2 DEF GoodBlind, GoodRow
    <3>2. PICK y : y = b[q]
        OBVIOUS
    <3>3. CASE y.status = "absent"
      <4>1. row = [y EXCEPT !.status = "open", !.origin = r]
          BY <2>0, <3>2, <3>3
      <4> QED
          BY <3>1, <3>2, <3>3, <4>1 DEF GoodRow, BlindSpot, Open
    <3>4. CASE y.status = "resolved"
      <4>1. row = [y EXCEPT !.status = "reopened", !.origin = r, !.value = Nothing]
          BY <2>0, <3>2, <3>4
      <4> QED
          BY <3>1, <3>2, <3>4, <4>1 DEF GoodRow, BlindSpot, Open
    <3>5. CASE y.status \in Open
      <4>1. row = y
          BY <2>0, <3>2, <3>5 DEF Open
      <4> QED
          BY <3>1, <3>2, <3>5, <4>1 DEF GoodRow
    <3> QED
        BY <3>1, <3>2, <3>3, <3>4, <3>5 DEF BlindSpot, Open
  <2> HIDE DEF q
  <2>3. /\ q \in Place => e[q] = row
        /\ \A p \in Place \ {q} : e[p] = b[p]
        /\ e = [p \in Place |-> e[p]]
      BY <2>1 DEF GoodBlind
  <2>4. GoodBlind(e)
      BY <2>2, <2>3 DEF GoodBlind, GoodRow
  <2> QED
      BY <1>2, <2>2, <2>3, <2>4 DEF q, OpensFor
<1> QED
    BY <1>1, <1>2

LEMMA DetectedOpens ==
    ASSUME NEW f, NEW b, GoodBlind(b), NEW r \in Source, NEW e, e = Detected(f, b, r),
           incident.active, Active(f, r), Unknown(f, r), ~SaidSince(f, r), f[r].place \in Place
    PROVE  e[f[r].place].status \in Open
<1>1. PICK q \in Place : q = f[r].place
    OBVIOUS
<1>2. e[q] = IF b[q].status = "absent" THEN [b[q] EXCEPT !.status = "open", !.origin = r]
             ELSE IF b[q].status = "resolved"
                  THEN [b[q] EXCEPT !.status = "reopened", !.origin = r, !.value = Nothing]
             ELSE b[q]
    BY <1>1 DEF Detected, GoodBlind
<1>3. b[q] \in BlindSpot
    BY DEF GoodBlind
<1> QED
    BY <1>1, <1>2, <1>3 DEF BlindSpot, Open

LEMMA ResolvedIs ==
    ASSUME NEW f \in Fragments, NEW b, GoodBlind(b), NEW s \in Source, NEW e, e = Resolved(f, b, s)
    PROVE  /\ GoodBlind(e)
           /\ \A p \in Place : \/ e[p] = b[p]
                               \/ Definite(f, s) /\ e[p].status = "resolved"
<1>1. CASE ~(Definite(f, s) /\ b[f[s].place].status \in Open)
    BY <1>1 DEF Resolved
<1>2. CASE Definite(f, s) /\ b[f[s].place].status \in Open
  <2> DEFINE q == f[s].place
  <2>1. PICK v : /\ v = (IF Conflicts(f, s) THEN "conflicting" ELSE f[s].value)
                 /\ v \in Value \cup {"conflicting"} /\ v # Nothing
      BY <1>2, ValuesAreDefinite DEF Definite, Nothing
  <2>2. PICK row : row = [b[q] EXCEPT !.status = "resolved", !.resolver = s, !.value = v]
      OBVIOUS
  <2>3. e = [b EXCEPT ![q] = row]
      BY <1>2, <2>1, <2>2 DEF Resolved
  <2>4. ASSUME q \in Place PROVE GoodRow(row) /\ row.status = "resolved"
    <3>1. b[q] \in BlindSpot
        BY <2>4 DEF GoodBlind
    <3> QED
        BY <2>1, <2>2, <3>1 DEF GoodRow, BlindSpot
  <2> HIDE DEF q
  <2>5. /\ q \in Place => e[q] = row
        /\ \A p \in Place \ {q} : e[p] = b[p]
        /\ e = [p \in Place |-> e[p]]
      BY <2>3 DEF GoodBlind
  <2>6. GoodBlind(e)
      BY <2>4, <2>5 DEF GoodBlind, GoodRow
  <2> QED
      BY <1>2, <2>4, <2>5, <2>6
<1> QED
    BY <1>1, <1>2

\* The blind spots after deactivation, detection and resolution.
LEMMA ChangedBlindSpots ==
    ASSUME GoodBlind(blind), NEW f \in Fragments, NEW s \in Source,
           NEW b \in Deactivations(f, s), NEW d, d \in {b, Detected(f, b, s)},
           NEW e, e = d \/ (e = Resolved(f, d, s) /\ f[s].status = "active")
    PROVE  /\ GoodBlind(e)
           /\ \A p \in Place : blind[p].status \in Open => OpenBecomes(f, s, p, e[p])
<1>1. GoodBlind(b) /\ \A p \in Place : b[p] \in AfterChange(f, s, p)
    BY DeactivationsAre
<1>2. /\ GoodBlind(d)
      /\ \A p \in Place : \/ d[p] = b[p]
                          \/ /\ p = f[s].place /\ Active(f, s) /\ Unknown(f, s)
                             /\ d[p].status \in Open /\ d[p].origin = s
  <2>1. CASE d = b
      BY <1>1, <2>1
  <2>2. CASE d = Detected(f, b, s)
    <3>1. GoodBlind(d) /\ \A p \in Place : d[p] = b[p] \/ OpensFor(f, s, p, b[p], d[p])
        BY <1>1, <2>2, DetectedIs
    <3> QED
        BY <3>1 DEF OpensFor
  <2> QED
      BY <2>1, <2>2
<1>3. /\ GoodBlind(e)
      /\ \A p \in Place : \/ e[p] = d[p]
                          \/ /\ Definite(f, s) /\ f[s].status = "active"
                             /\ e[p].status = "resolved"
  <2>1. CASE e = d
      BY <1>2, <2>1
  <2>2. CASE e = Resolved(f, d, s) /\ f[s].status = "active"
    <3>1. /\ GoodBlind(e)
          /\ \A p \in Place : \/ e[p] = d[p]
                              \/ Definite(f, s) /\ e[p].status = "resolved"
        BY <1>2, <2>2, ResolvedIs
    <3> QED
        BY <2>2, <3>1
  <2> QED
      BY <2>1, <2>2
<1>4. ASSUME NEW p \in Place, blind[p].status \in Open PROVE OpenBecomes(f, s, p, e[p])
  <2>1. OpenBecomes(f, s, p, b[p])
      BY <1>1, <1>4, AfterChangeIs DEF GoodBlind
  <2>2. CASE e[p] = b[p]
      BY <2>1, <2>2
  <2>3. CASE e[p] = d[p] /\ d[p] # b[p]
      BY <1>2, <2>3 DEF OpenBecomes, RestsOn
  <2>4. CASE e[p] # d[p]
      BY <1>3, <2>4 DEF OpenBecomes
  <2> QED
      BY <2>2, <2>3, <2>4
<1> QED
    BY <1>3, <1>4

-----------------------------------------------------------------------------
(***************************************************************************)
(* What the operations do to the observations and the blind spots          *)
(***************************************************************************)
Claims == [place : Place \cup {Nowhere}, value : Value \cup Indefinite \cup {Nothing}]

LEMMA ObserveDoes ==
    ASSUME DataInv, NEW r \in Report, NEW status \in {"live", "invalid"},
           NEW c \in Claims, c.value # Nothing => c.place \in Place, Observe(r, status, c)
    PROVE  /\ now \in Nat /\ now' = now + 1 /\ now' \in 0..MaxOperations
           /\ fragment' \in Fragments
           /\ fragment'[r].report = status /\ fragment'[r].status = "active"
           /\ fragment'[r].place = c.place /\ fragment'[r].value = c.value
           /\ fragment'[r].revision = fragment[r].revision + 1
           /\ fragment'[r].received = now'
           /\ fragment'[r].told = IF c.value \in Value THEN now' ELSE fragment[r].told
           /\ \A s \in Source \ {r} : fragment'[s] = fragment[s]
           /\ fragment[r].revision \in Nat
           /\ UNCHANGED incident
<1>1. r \in Source /\ fragment \in Fragments
    BY SourcesAre DEF DataInv
<1>2. fragment[r] \in Fragment /\ fragment[r].revision <= now /\ fragment[r].told <= now
    BY <1>1 DEF Fragments, DataInv, Past
<1>3. /\ now \in Nat /\ now' = now + 1 /\ now' \in 0..MaxOperations /\ now < MaxOperations
      /\ UNCHANGED incident
    BY BoundsAreNaturals DEF Observe, Tick, DataInv
<1>4. /\ fragment[r].revision \in Nat /\ fragment[r].revision + 1 \in 0..MaxOperations
      /\ fragment[r].told \in 0..MaxOperations
    BY <1>2, <1>3, BoundsAreNaturals DEF Fragment
<1>5. PICK n \in 0..MaxOperations : n = fragment[r].revision + 1
    BY <1>4
<1>6. PICK t \in 0..MaxOperations : t = IF c.value \in Value THEN now' ELSE fragment[r].told
    BY <1>3, <1>4
<1>7. PICK y : y = [report |-> status, status |-> "active", place |-> c.place, value |-> c.value,
                    revision |-> n, received |-> now', told |-> t]
    OBVIOUS
<1>8. fragment' = [fragment EXCEPT ![r] = y]
    BY <1>5, <1>6, <1>7 DEF Observe
<1>9. y \in Fragment
    BY <1>3, <1>7 DEF Fragment, Claims
<1>10. /\ fragment'[r] = y /\ \A s \in Source \ {r} : fragment'[s] = fragment[s]
       /\ fragment' \in Fragments
    BY <1>1, <1>8, <1>9 DEF Fragments
<1> QED
    BY <1>3, <1>4, <1>5, <1>6, <1>7, <1>10

LEMMA ObserveBlindSpots ==
    ASSUME DataInv, NEW r \in Report, NEW status \in {"live", "invalid"},
           NEW c \in Claims, c.value # Nothing => c.place \in Place, Observe(r, status, c)
    PROVE  /\ GoodBlind(blind')
           /\ \A p \in Place : IsOpen(p) => OpenBecomes(fragment', r, p, blind'[p])
           /\ /\ c.value = "uncertain" /\ status = "live" /\ incident.active
              /\ ~SaidSince(fragment', r)
              => blind'[c.place].status \in Open
<1>1. /\ fragment' \in Fragments /\ r \in Source
      /\ fragment'[r].place = c.place /\ fragment'[r].value = c.value
      /\ fragment'[r].report = status /\ fragment'[r].status = "active"
      /\ incident' = incident
    BY ObserveDoes, SourcesAre
<1>2. PICK b \in Deactivations(fragment', r) :
         blind' = Resolved(fragment', IF c.value = "uncertain" THEN Detected(fragment', b, r)
                                      ELSE b, r)
    BY DEF Observe
<1>3. PICK d : d = IF c.value = "uncertain" THEN Detected(fragment', b, r) ELSE b
    OBVIOUS
<1>4. PICK f \in Fragments : f = fragment'
    BY <1>1
<1>5. PICK e : e = blind'
    OBVIOUS
<1>6. /\ b \in Deactivations(f, r) /\ d \in {b, Detected(f, b, r)} /\ e = Resolved(f, d, r)
      /\ f[r].status = "active" /\ (f[r].value # Nothing => f[r].place \in Place)
    BY <1>1, <1>2, <1>3, <1>4, <1>5
<1>7. GoodBlind(blind)
    BY DEF DataInv
<1>8. /\ GoodBlind(e)
      /\ \A p \in Place : blind[p].status \in Open => OpenBecomes(f, r, p, e[p])
    BY <1>1, <1>6, <1>7, ChangedBlindSpots
<1>9. ASSUME c.value = "uncertain", status = "live", incident.active, ~SaidSince(f, r)
      PROVE  e[c.place].status \in Open
  <2>1. GoodBlind(b)
      BY <1>1, <1>6, <1>7, DeactivationsAre
  <2>2. /\ Active(f, r) /\ Unknown(f, r) /\ ~Definite(f, r)
        /\ f[r].place \in Place /\ f[r].place = c.place
      BY <1>1, <1>4, <1>9, ValuesAreDefinite DEF Active, Unknown, Definite, Indefinite, Nothing
  <2>3. d = Detected(f, b, r)
      BY <1>3, <1>4, <1>9
  <2>4. GoodBlind(d) /\ d[c.place].status \in Open
    <3>1. GoodBlind(d)
        BY <1>1, <2>1, <2>3, DetectedIs
    <3>2. d[f[r].place].status \in Open
        BY <1>1, <1>9, <2>1, <2>2, <2>3, DetectedOpens
    <3> QED
        BY <2>2, <3>1, <3>2
  <2> QED
      BY <1>1, <1>6, <2>2, <2>4, ResolvedIs
<1> QED
    BY <1>4, <1>5, <1>8, <1>9 DEF IsOpen

LEMMA WithdrawDoes ==
    ASSUME DataInv, NEW r \in Report, NEW status \in {"invalid", "deleted"}, Withdraw(r, status)
    PROVE  /\ now \in Nat /\ now' = now + 1 /\ now' \in 0..MaxOperations
           /\ fragment' \in Fragments
           /\ fragment'[r].report = status /\ fragment'[r].status = "withdrawn"
           /\ fragment'[r].place = fragment[r].place /\ fragment'[r].value = fragment[r].value
           /\ fragment'[r].revision \in {fragment[r].revision, fragment[r].revision + 1}
           /\ fragment'[r].received = fragment[r].received
           /\ fragment'[r].told = fragment[r].told
           /\ \A s \in Source \ {r} : fragment'[s] = fragment[s]
           /\ fragment[r].revision \in Nat
           /\ UNCHANGED incident
           /\ GoodBlind(blind')
           /\ \A p \in Place : IsOpen(p) => OpenBecomes(fragment', r, p, blind'[p])
<1>1. r \in Source /\ fragment \in Fragments /\ GoodBlind(blind)
    BY SourcesAre DEF DataInv
<1>2. fragment[r] \in Fragment /\ fragment[r].revision <= now
    BY <1>1 DEF Fragments, DataInv, Past
<1>3. /\ now \in Nat /\ now' = now + 1 /\ now' \in 0..MaxOperations /\ now < MaxOperations
      /\ UNCHANGED incident
    BY BoundsAreNaturals DEF Withdraw, Tick, DataInv
<1>4. /\ fragment[r].revision \in Nat /\ fragment[r].revision + 1 \in 0..MaxOperations
    BY <1>2, <1>3, BoundsAreNaturals DEF Fragment
<1>5. PICK n \in 0..MaxOperations :
         /\ n = fragment[r].revision + IF fragment[r].status = "withdrawn" THEN 0 ELSE 1
         /\ n \in {fragment[r].revision, fragment[r].revision + 1}
    BY <1>2, <1>4 DEF Fragment
<1>6. PICK y : y = [fragment[r] EXCEPT !.report = status, !.status = "withdrawn", !.revision = n]
    OBVIOUS
<1>7. fragment' = [fragment EXCEPT ![r] = y]
    BY <1>1, <1>2, <1>5, <1>6 DEF Withdraw, Fragments
<1>8. /\ y \in Fragment /\ y.report = status /\ y.status = "withdrawn" /\ y.revision = n
      /\ y.place = fragment[r].place /\ y.value = fragment[r].value
      /\ y.received = fragment[r].received /\ y.told = fragment[r].told
    BY <1>2, <1>6 DEF Fragment
<1>9. /\ fragment'[r] = y /\ \A s \in Source \ {r} : fragment'[s] = fragment[s]
      /\ fragment' \in Fragments
    BY <1>1, <1>7, <1>8 DEF Fragments
<1>10. PICK f \in Fragments : f = fragment'
    BY <1>9
<1>11. PICK e \in Deactivations(f, r) : e = blind'
    BY <1>10 DEF Withdraw
<1>12. f[r].value # Nothing => f[r].place \in Place
    BY <1>1, <1>8, <1>9, <1>10 DEF DataInv, SpokenOf
<1>13. /\ GoodBlind(e)
       /\ \A p \in Place : blind[p].status \in Open => OpenBecomes(f, r, p, e[p])
    BY <1>1, <1>12, ChangedBlindSpots
<1> QED
    BY <1>3, <1>4, <1>5, <1>8, <1>9, <1>10, <1>11, <1>13 DEF IsOpen

LEMMA OpinionIs ==
    ASSUME NEW f, NEW p, Cardinality(Opinions(f, p)) = 1
    PROVE  (CHOOSE w \in Opinions(f, p) : TRUE) \in Value
<1>1. Opinions(f, p) # {}
    BY FS_EmptySet
<1>2. \A w \in Opinions(f, p) : w \in Value
    BY DEF Opinions, ValidAnswers, Definite
<1> QED
    BY <1>1, <1>2

LEMMA PutAnswerDoes ==
    ASSUME DataInv, NEW d \in Device, NEW p \in Place, NEW v \in Value \cup {"unknown"},
           NEW s, s = <<d, p>>, PutAnswer(d, p, v)
    PROVE  /\ now \in Nat /\ now' = now + 1 /\ now' \in 0..MaxOperations
           /\ fragment' \in Fragments
           /\ fragment'[s].status = "active"
           /\ fragment'[s].place = p /\ fragment'[s].value = v
           /\ fragment[s].revision \in Nat /\ fragment'[s].revision = fragment[s].revision + 1
           /\ fragment'[s].received <= now' /\ fragment'[s].told = fragment[s].told
           /\ \A t \in Source \ {s} : fragment'[t] = fragment[t]
           /\ GoodBlind(blind')
           /\ \A q \in Place \ {p} : blind'[q] = blind[q]
<1>1. s \in Source /\ fragment \in Fragments /\ GoodBlind(blind)
    BY SourcesAre DEF DataInv
<1>2. fragment[s] \in Fragment /\ fragment[s].revision <= now /\ fragment[s].received <= now
    BY <1>1 DEF Fragments, DataInv, Past
<1>3. /\ now \in Nat /\ now' = now + 1 /\ now' \in 0..MaxOperations /\ now < MaxOperations
    BY BoundsAreNaturals DEF PutAnswer, Tick, DataInv
<1>4. /\ fragment[s].revision \in Nat /\ fragment[s].revision + 1 \in 0..MaxOperations
      /\ fragment[s].received \in 0..MaxOperations
    BY <1>2, <1>3, BoundsAreNaturals DEF Fragment
<1>5. PICK n \in 0..MaxOperations : n = fragment[s].revision + 1
    BY <1>4
<1>6. PICK t \in 0..MaxOperations :
         /\ t = IF fragment[s].status = "absent" THEN now' ELSE fragment[s].received
         /\ t <= now'
    BY <1>2, <1>3, <1>4
<1>7. PICK y : y = [fragment[s] EXCEPT !.status = "active", !.place = p, !.value = v,
                                       !.revision = n, !.received = t]
    OBVIOUS
<1>8. fragment' = [fragment EXCEPT ![s] = y]
    BY <1>1, <1>5, <1>6, <1>7 DEF PutAnswer, Fragments
<1>9. /\ y \in Fragment /\ y.status = "active" /\ y.revision = n /\ y.place = p /\ y.value = v
      /\ y.received = t /\ y.told = fragment[s].told
    BY <1>2, <1>7 DEF Fragment, Indefinite
<1>10. /\ fragment'[s] = y /\ \A t1 \in Source \ {s} : fragment'[t1] = fragment[t1]
       /\ fragment' \in Fragments
    BY <1>1, <1>8, <1>9 DEF Fragments
<1>11. /\ GoodBlind(blind')
       /\ \A q \in Place \ {p} : blind'[q] = blind[q]
  <2>1. PICK f : f = fragment'
      OBVIOUS
  <2>2. PICK x : x = blind[p]
      OBVIOUS
  <2>3. x \in BlindSpot /\ (x.status = "resolved" <=> x.value # Nothing)
      BY <1>1, <2>2 DEF GoodBlind, GoodRow
  <2>4. PICK w : w = CHOOSE u \in Opinions(f, p) : TRUE
      OBVIOUS
  <2>5. PICK row : row = IF /\ Cardinality(Opinions(f, p)) = 1
                            /\ Cardinality(ValidAnswers(f, p)) >= MinValidAnswers
                         THEN [x EXCEPT !.status = "resolved", !.value = w]
                         ELSE IF x.status = "resolved"
                              THEN [x EXCEPT !.status = "open", !.value = Nothing]
                         ELSE x
      OBVIOUS
  <2>6. blind' = [blind EXCEPT ![p] = row]
      BY <1>1, <2>1, <2>2, <2>4, <2>5 DEF PutAnswer, GoodBlind
  <2>7. GoodRow(row)
    <3>1. CASE /\ Cardinality(Opinions(f, p)) = 1
               /\ Cardinality(ValidAnswers(f, p)) >= MinValidAnswers
      <4>1. w \in Value /\ w # Nothing
          BY <2>4, <3>1, OpinionIs, ValuesAreDefinite
      <4>2. row = [x EXCEPT !.status = "resolved", !.value = w]
          BY <2>5, <3>1
      <4> QED
          BY <2>3, <4>1, <4>2 DEF GoodRow, BlindSpot
    <3>2. CASE row = [x EXCEPT !.status = "open", !.value = Nothing]
        BY <2>3, <3>2 DEF GoodRow, BlindSpot
    <3>3. CASE row = x
        BY <2>3, <3>3 DEF GoodRow
    <3> QED
        BY <2>5, <3>1, <3>2, <3>3
  <2>8. /\ blind'[p] = row /\ \A q \in Place \ {p} : blind'[q] = blind[q]
        /\ blind' = [q \in Place |-> blind'[q]]
      BY <1>1, <2>6 DEF GoodBlind
  <2> QED
      BY <1>1, <2>7, <2>8 DEF GoodBlind, GoodRow
<1> QED
    BY <1>3, <1>4, <1>5, <1>6, <1>9, <1>10, <1>11

\* The handler of a detection job opens a blind spot only for the report of the job, while it
\* still says what the job was made for.
LEMMA DetectDoes ==
    ASSUME DataInv, worker.job \in Job, NEW r \in Report, NEW n, worker.job = <<r, n>>,
           NEW at \in {"done", "error"}, Detect(at)
    PROVE  /\ GoodBlind(blind')
           /\ \A p \in Place : \/ blind'[p] = blind[p]
                               \/ /\ OpensFor(fragment, r, p, blind[p], blind'[p])
                                  /\ fragment[r].revision = n
<1>1. r \in Source /\ GoodBlind(blind)
    BY SourcesAre DEF DataInv
<1>2. \/ blind' = blind
      \/ blind' = Detected(fragment, blind, r) /\ fragment[r].revision = n
    BY DEF Detect
<1>3. CASE blind' = blind
    BY <1>1, <1>3
<1>4. CASE blind' = Detected(fragment, blind, r) /\ fragment[r].revision = n
  <2>1. PICK e : e = blind'
      OBVIOUS
  <2>2. /\ GoodBlind(e)
        /\ \A p \in Place : e[p] = blind[p] \/ OpensFor(fragment, r, p, blind[p], e[p])
      BY <1>1, <1>4, <2>1, DetectedIs
  <2> QED
      BY <1>4, <2>1, <2>2
<1> QED
    BY <1>2, <1>3, <1>4

LEMMA DetectOpens ==
    ASSUME DataInv, worker.job \in Job, NEW r \in Report, worker.job = <<r, fragment[r].revision>>,
           Detect("done"), incident.active, Active(fragment, r), Unknown(fragment, r),
           ~SaidSince(fragment, r)
    PROVE  blind'[fragment[r].place].status \in Open
<1>1. r \in Source /\ GoodBlind(blind) /\ fragment[r].place \in Place
    BY SourcesAre, ValuesAreDefinite DEF DataInv, SpokenOf, Unknown, Indefinite, Nothing
<1>2. blind' = Detected(fragment, blind, r)
    BY DEF Detect
<1>3. PICK e : e = blind'
    OBVIOUS
<1>4. e[fragment[r].place].status \in Open
    BY <1>1, <1>2, <1>3, DetectedOpens
<1> QED
    BY <1>3, <1>4

-----------------------------------------------------------------------------
(***************************************************************************)
(* The queue                                                               *)
(***************************************************************************)
LEMMA InitIsQueueInit == Init => QueueProofs!Init
BY DEF Init, Queue!Init, QueueProofs!Init, Queue!Absent, QueueProofs!Absent, Queue!Idle,
       QueueProofs!Idle

LEMMA ScheduleIsQueueStep ==
    ASSUME NEW cancel \in SUBSET Job, NEW add \in SUBSET Job, Queue!Schedule(cancel, add)
    PROVE  QueueProofs!Next
<1>1. QueueProofs!Schedule(cancel, add)
    BY DEF Queue!Schedule, QueueProofs!Schedule, Queue!Rescheduled, QueueProofs!Rescheduled,
           Queue!CanCancel, QueueProofs!CanCancel, Queue!Unfinished, QueueProofs!Unfinished,
           Queue!Pending, QueueProofs!Pending, Queue!Queued, QueueProofs!Queued,
           Queue!Absent, QueueProofs!Absent
<1> QED
    BY <1>1 DEF QueueProofs!Next

LEMMA WorkerIsQueueStep ==
    ASSUME QueueStep \/ \E at \in {"done", "error"} : Detect(at)
    PROVE  QueueProofs!Next
<1>1. ASSUME NEW j \in Job, Queue!BecomeDue(j) PROVE QueueProofs!Next
  <2>1. QueueProofs!BecomeDue(j)
      BY <1>1 DEF Queue!BecomeDue, QueueProofs!BecomeDue, Queue!Pending, QueueProofs!Pending
  <2> QED
      BY <2>1 DEF QueueProofs!Next
<1>2. ASSUME NEW j \in Job, Queue!LeaseExpires(j) PROVE QueueProofs!Next
  <2>1. QueueProofs!LeaseExpires(j)
      BY <1>2 DEF Queue!LeaseExpires, QueueProofs!LeaseExpires
  <2> QED
      BY <2>1 DEF QueueProofs!Next
<1>3. ASSUME NEW j \in Job, Queue!Claim(j) PROVE QueueProofs!Next
  <2>1. QueueProofs!Claim(j)
      BY <1>3 DEF Queue!Claim, QueueProofs!Claim, Queue!Claimable, QueueProofs!Claimable,
                  Queue!Pending, QueueProofs!Pending, Queue!Idle, QueueProofs!Idle
  <2> QED
      BY <2>1 DEF QueueProofs!Next, QueueProofs!WorkerStep
<1>4. CASE Queue!Load
  <2>1. QueueProofs!Load
      BY <1>4 DEF Queue!Load, QueueProofs!Load, Queue!Idle, QueueProofs!Idle
  <2> QED
      BY <2>1 DEF QueueProofs!Next, QueueProofs!WorkerStep
<1>5. ASSUME NEW at \in {"done", "error"}, Detect(at) PROVE QueueProofs!Next
  <2>1. QueueProofs!Handled(at)
      BY <1>5 DEF Detect, Queue!Handled, QueueProofs!Handled
  <2> QED
      BY <2>1 DEF QueueProofs!Next, QueueProofs!WorkerStep
<1>6. CASE Queue!Finish
  <2>1. QueueProofs!Finish
      BY <1>6 DEF Queue!Finish, QueueProofs!Finish, Queue!AfterSuccess, QueueProofs!AfterSuccess,
                  Queue!AfterError, QueueProofs!AfterError, Queue!Idle, QueueProofs!Idle
  <2> QED
      BY <2>1 DEF QueueProofs!Next, QueueProofs!WorkerStep
<1>7. CASE Queue!Abandon
  <2>1. QueueProofs!Abandon
      BY <1>7 DEF Queue!Abandon, QueueProofs!Abandon, Queue!Idle, QueueProofs!Idle
  <2> QED
      BY <2>1 DEF QueueProofs!Next
<1> QED
    BY <1>1, <1>2, <1>3, <1>4, <1>5, <1>6, <1>7 DEF QueueStep

LEMMA QueueStepsKeep ==
    ASSUME QueueProofs!IInv, QueueProofs!Next \/ UNCHANGED <<job, worker, faults>>
    PROVE  QueueProofs!IInv'
BY QueueProofs!NextInv, BoundsAreNaturals DEF QueueProofs!vars

LEMMA QueueTypes ==
    ASSUME QueueProofs!IInv
    PROVE  /\ Queue!TypeOK
           /\ job \in [Job -> Queue!BackgroundJob]
           /\ worker # Queue!Idle => worker.job \in Job
           /\ worker.at \in {"claimed", "loaded", "done", "error"} <=> worker # Queue!Idle
<1>1. Queue!TypeOK
    BY DEF QueueProofs!IInv, QueueProofs!TypeOK, Queue!TypeOK, QueueProofs!BackgroundJob,
           Queue!BackgroundJob, QueueProofs!Worker, Queue!Worker, QueueProofs!Idle, Queue!Idle,
           QueueProofs!Unfinished, Queue!Unfinished, QueueProofs!Pending, Queue!Pending,
           QueueProofs!Finished, Queue!Finished
<1> QED
    BY <1>1 DEF Queue!TypeOK, Queue!Worker, Queue!Idle

\* What a change of report r does to the jobs: those of its former observations are canceled, and
\* the jobs add are queued.
LEMMA RescheduledAre ==
    ASSUME QueueProofs!IInv, NEW r \in Report, NEW cancel \in SUBSET OwnJobs(r),
           NEW add \in SUBSET OwnJobs(r), Queue!Schedule(cancel, add),
           \A j \in OwnJobs(r) : job[j].status \in Queue!Unfinished => j \in cancel,
           NEW j \in Job
    PROVE  /\ j \notin OwnJobs(r) => job'[j] = job[j]
           /\ j \in OwnJobs(r) \ add => job'[j].status \notin Queue!Unfinished
           /\ j \in add => IF job[j] = Queue!Absent THEN job'[j] = Queue!Queued
                           ELSE job'[j].status \notin Queue!Unfinished
           /\ job[j].status \notin {"absent", "queued"}
              => job'[j].status \notin {"absent", "queued"}
           /\ job[j] = Queue!Absent /\ j \notin add => job'[j] = Queue!Absent
<1>1. job[j] \in Queue!BackgroundJob
    BY QueueTypes
<1>2. job'[j] = IF j \in cancel /\ Queue!CanCancel(j)
                THEN [job[j] EXCEPT !.status = "canceled", !.due = FALSE, !.lease = "none"]
                ELSE IF j \in add /\ job[j] = Queue!Absent THEN Queue!Queued ELSE job[j]
    BY DEF Queue!Schedule, Queue!Rescheduled
<1>3. Queue!Absent.status = "absent"
    BY DEF Queue!Absent
<1>4. CASE j \in cancel /\ Queue!CanCancel(j)
  <2>1. job'[j].status = "canceled"
      BY <1>1, <1>2, <1>4 DEF Queue!BackgroundJob
  <2> QED
      BY <1>3, <1>4, <2>1 DEF Queue!CanCancel, Queue!Unfinished, Queue!Pending
<1>5. CASE ~(j \in cancel /\ Queue!CanCancel(j)) /\ j \in add /\ job[j] = Queue!Absent
    BY <1>2, <1>3, <1>5
<1>6. CASE ~(j \in cancel /\ Queue!CanCancel(j)) /\ ~(j \in add /\ job[j] = Queue!Absent)
  <2>1. job'[j] = job[j]
      BY <1>2, <1>6
  <2> QED
      BY <1>6, <2>1 DEF Queue!CanCancel
<1> QED
    BY <1>4, <1>5, <1>6

LEMMA JobsKept ==
    ASSUME JobInv, NEW r \in Report, NEW cancel \in SUBSET OwnJobs(r),
           NEW add \in SUBSET OwnJobs(r), Queue!Schedule(cancel, add),
           \A j \in OwnJobs(r) : job[j].status \in Queue!Unfinished => j \in cancel,
           \A q \in Report \ {r} : fragment'[q] = fragment[q],
           fragment[r].revision \in Nat, fragment'[r].revision \in Nat,
           fragment'[r].revision >= fragment[r].revision,
           \A j \in add : /\ j = <<r, fragment'[r].revision>>
                          /\ fragment'[r].status = "active" /\ fragment'[r].value = "unknown"
    PROVE  JobInv'
<1>1. QueueProofs!IInv' /\ QueueProofs!IInv /\ worker' = worker
  <2>1. cancel \in SUBSET Job /\ add \in SUBSET Job
      BY DEF OwnJobs, Job
  <2> QED
      BY <2>1, ScheduleIsQueueStep, QueueStepsKeep DEF JobInv, Queue!Schedule
<1>2. \A j \in Job :
           /\ j \notin OwnJobs(r) => job'[j] = job[j]
           /\ j \in OwnJobs(r) \ add => job'[j].status \notin Queue!Unfinished
           /\ j \in add => IF job[j] = Queue!Absent THEN job'[j] = Queue!Queued
                           ELSE job'[j].status \notin Queue!Unfinished
           /\ job[j].status \notin {"absent", "queued"}
              => job'[j].status \notin {"absent", "queued"}
           /\ job[j] = Queue!Absent /\ j \notin add => job'[j] = Queue!Absent
    BY <1>1, RescheduledAre
<1>3. JobsNotAhead'
  <2> SUFFICES ASSUME NEW q \in Report, NEW n \in 1..MaxOperations, n > fragment'[q].revision
               PROVE  job'[<<q, n>>] = Queue!Absent
      BY DEF JobsNotAhead, Queue!Absent
  <2>1. <<q, n>> \in Job /\ n \in Nat
      BY BoundsAreNaturals DEF Job
  <2>2. job[<<q, n>>] = Queue!Absent /\ <<q, n>> \notin add
    <3>1. CASE q = r
        BY <2>1, <3>1 DEF JobInv, JobsNotAhead
    <3>2. CASE q # r
        BY <3>2 DEF JobInv, JobsNotAhead
    <3> QED
        BY <3>1, <3>2
  <2> QED
      BY <1>2, <2>1, <2>2
<1>4. JobsAreCurrent'
  <2> SUFFICES ASSUME NEW q \in Report, NEW n \in 1..MaxOperations,
                      job'[<<q, n>>].status \in Queue!Unfinished
               PROVE  /\ fragment'[q].status = "active" /\ fragment'[q].revision = n
                      /\ fragment'[q].value = "unknown"
      BY DEF JobsAreCurrent, Queue!Unfinished, Queue!Pending
  <2>1. <<q, n>> \in Job
      BY DEF Job
  <2>2. CASE q = r
    <3>1. <<q, n>> \in add
        BY <1>2, <2>1, <2>2 DEF OwnJobs
    <3> QED
        BY <2>2, <3>1
  <2>3. CASE q # r
    <3>1. <<q, n>> \notin OwnJobs(r)
        BY <2>3 DEF OwnJobs
    <3>2. job'[<<q, n>>] = job[<<q, n>>]
        BY <1>2, <2>1, <3>1
    <3> QED
        BY <2>3, <3>2 DEF JobInv, JobsAreCurrent
  <2> QED
      BY <2>2, <2>3
<1>5. InHandClaimed'
    BY <1>1, <1>2, QueueTypes DEF JobInv, InHandClaimed, Queue!Idle
<1> QED
    BY <1>1, <1>3, <1>4, <1>5 DEF JobInv

\* What a step of the worker or of time does to the rows of the jobs.
RowMoves(j) ==
    /\ job[j] = Queue!Absent => job'[j] = Queue!Absent
    /\ job'[j].status \in Queue!Unfinished => job[j].status \in Queue!Unfinished
    /\ job[j].status \notin {"absent", "queued"} => job'[j].status \notin {"absent", "queued"}
    /\ job[j].status \in Queue!Unfinished \cup {"failed"} =>
          \/ job'[j].status \in Queue!Unfinished \cup {"failed"}
          \/ worker.at = "done" /\ worker.job = j

LEMMA OneRowMoves ==
    ASSUME QueueProofs!IInv, NEW j \in Job, NEW row, job' = [job EXCEPT ![j] = row],
           job[j].status # "absent",
           row.status \in Queue!Unfinished => job[j].status \in Queue!Unfinished,
           job[j].status # "queued" => row.status \notin {"absent", "queued"},
           \/ job[j].status \notin Queue!Unfinished \cup {"failed"}
           \/ row.status \in Queue!Unfinished \cup {"failed"}
           \/ worker.at = "done" /\ worker.job = j
    PROVE  \A k \in Job : RowMoves(k)
<1>1. job'[j] = row /\ \A k \in Job \ {j} : job'[k] = job[k]
    BY QueueTypes
<1>2. job[j] # Queue!Absent
    BY DEF Queue!Absent
<1> QED
    BY <1>1, <1>2 DEF RowMoves

LEMMA WorkerDoes ==
    ASSUME JobInv, QueueStep \/ \E at \in {"done", "error"} : Detect(at)
    PROVE  /\ \A j \in Job : RowMoves(j)
           /\ worker' # Queue!Idle =>
                 IF worker = Queue!Idle THEN job'[worker'.job].status = "running"
                 ELSE worker'.job = worker.job
<1>0. /\ QueueProofs!IInv /\ job \in [Job -> Queue!BackgroundJob]
      /\ worker # Queue!Idle => worker.job \in Job
      /\ worker.at \in {"claimed", "loaded", "done", "error"} <=> worker # Queue!Idle
      /\ worker # Queue!Idle => job[worker.job].status \notin {"absent", "queued"}
    BY QueueTypes DEF JobInv, InHandClaimed
<1>1. ASSUME NEW j \in Job, Queue!BecomeDue(j)
      PROVE  worker' = worker /\ \A k \in Job : RowMoves(k)
  <2>1. PICK x \in Queue!BackgroundJob : x = job[j]
      BY <1>0
  <2>2. PICK row : row = [x EXCEPT !.due = TRUE]
      OBVIOUS
  <2>3. job' = [job EXCEPT ![j] = row] /\ worker' = worker /\ x.status \in Queue!Pending
      BY <1>1, <2>1, <2>2 DEF Queue!BecomeDue
  <2>4. row.status = x.status
      BY <2>1, <2>2 DEF Queue!BackgroundJob
  <2> QED
      BY <1>0, <2>1, <2>3, <2>4, OneRowMoves DEF Queue!Pending, Queue!Unfinished
<1>2. ASSUME NEW j \in Job, Queue!LeaseExpires(j)
      PROVE  worker' = worker /\ \A k \in Job : RowMoves(k)
  <2>1. PICK x \in Queue!BackgroundJob : x = job[j]
      BY <1>0
  <2>2. PICK row : row = [x EXCEPT !.lease = "expired"]
      OBVIOUS
  <2>3. job' = [job EXCEPT ![j] = row] /\ worker' = worker /\ x.status = "running"
      BY <1>2, <2>1, <2>2 DEF Queue!LeaseExpires
  <2>4. row.status = x.status
      BY <2>1, <2>2 DEF Queue!BackgroundJob
  <2> QED
      BY <1>0, <2>1, <2>3, <2>4, OneRowMoves DEF Queue!Pending, Queue!Unfinished
<1>3. ASSUME NEW j \in Job, Queue!Claim(j)
      PROVE  /\ worker = Queue!Idle /\ job'[worker'.job].status = "running"
             /\ \A k \in Job : RowMoves(k)
  <2>1. PICK x \in Queue!BackgroundJob : x = job[j]
      BY <1>0
  <2>2. PICK row : row = [x EXCEPT !.status = "running", !.attempts = x.attempts + 1,
                                   !.due = FALSE, !.lease = "held"]
      OBVIOUS
  <2>3. /\ job' = [job EXCEPT ![j] = row] /\ worker' = [at |-> "claimed", job |-> j]
        /\ worker = Queue!Idle /\ x.status \in Queue!Unfinished
      BY <1>3, <2>1, <2>2 DEF Queue!Claim, Queue!Claimable, Queue!Unfinished
  <2>4. row.status = "running"
      BY <2>1, <2>2 DEF Queue!BackgroundJob
  <2>5. \A k \in Job : RowMoves(k)
      BY <1>0, <2>1, <2>3, <2>4, OneRowMoves DEF Queue!Pending, Queue!Unfinished
  <2>6. job'[worker'.job] = row
      BY <1>0, <2>3
  <2> QED
      BY <2>3, <2>4, <2>5, <2>6
<1>4. ASSUME job' = job PROVE \A k \in Job : RowMoves(k)
    BY <1>4 DEF RowMoves
<1>5. CASE Queue!Load
    BY <1>0, <1>4, <1>5 DEF Queue!Load, Queue!Idle
<1>6. ASSUME NEW at \in {"done", "error"}, Detect(at)
      PROVE  job' = job /\ worker # Queue!Idle /\ worker'.job = worker.job
    BY <1>0, <1>6 DEF Detect, Queue!Handled, Queue!Idle
<1>7. CASE Queue!Finish
  <2>1. PICK j \in Job : j = worker.job
      BY <1>0, <1>7 DEF Queue!Finish
  <2>2. PICK x \in Queue!BackgroundJob : x = job[j] /\ x.status \notin {"absent", "queued"}
      BY <1>0, <1>7, <2>1 DEF Queue!Finish
  <2>3. PICK row : row = IF x.status # "running" THEN x
                         ELSE IF worker.at = "done" THEN Queue!AfterSuccess(x)
                         ELSE Queue!AfterError(x)
      OBVIOUS
  <2>4. job' = [job EXCEPT ![j] = row] /\ worker' = Queue!Idle /\ worker.at \in {"done", "error"}
      BY <1>7, <2>1, <2>2, <2>3 DEF Queue!Finish
  <2>5. \/ row = x
        \/ /\ x.status = "running" /\ row.status \in {"succeeded", "failed", "retry"}
           /\ row.status = "succeeded" => worker.at = "done"
      BY <2>2, <2>3 DEF Queue!AfterSuccess, Queue!AfterError, Queue!BackgroundJob
  <2>6. \A k \in Job : RowMoves(k)
      BY <1>0, <2>1, <2>2, <2>4, <2>5, OneRowMoves DEF Queue!Pending, Queue!Unfinished
  <2> QED
      BY <2>4, <2>6
<1>8. CASE Queue!Abandon
  <2>1. PICK j \in Job : j = worker.job
      BY <1>0, <1>8 DEF Queue!Abandon
  <2>2. PICK x \in Queue!BackgroundJob : x = job[j] /\ x.status \notin {"absent", "queued"}
      BY <1>0, <1>8, <2>1 DEF Queue!Abandon
  <2>3. PICK row : row = [x EXCEPT !.lost = IF x.status = "running" THEN x.lost + 1 ELSE x.lost]
      OBVIOUS
  <2>4. job' = [job EXCEPT ![j] = row] /\ worker' = Queue!Idle
      BY <1>8, <2>1, <2>2, <2>3 DEF Queue!Abandon
  <2>5. row.status = x.status
      BY <2>2, <2>3 DEF Queue!BackgroundJob
  <2>6. \A k \in Job : RowMoves(k)
      BY <1>0, <2>1, <2>2, <2>4, <2>5, OneRowMoves DEF Queue!Pending, Queue!Unfinished
  <2> QED
      BY <2>4, <2>6
<1> QED
    BY <1>1, <1>2, <1>3, <1>4, <1>5, <1>6, <1>7, <1>8 DEF QueueStep

LEMMA WorkerKeepsJobs ==
    ASSUME JobInv, fragment' = fragment, QueueStep \/ \E at \in {"done", "error"} : Detect(at)
    PROVE  JobInv'
<1>1. /\ QueueProofs!IInv /\ QueueProofs!IInv'
      /\ worker # Queue!Idle => worker.job \in Job
    BY WorkerIsQueueStep, QueueStepsKeep, QueueTypes DEF JobInv
<1>2. /\ \A j \in Job : RowMoves(j)
      /\ worker' # Queue!Idle =>
            IF worker = Queue!Idle THEN job'[worker'.job].status = "running"
            ELSE worker'.job = worker.job
    BY WorkerDoes
<1>3. \A r \in Report, n \in 1..MaxOperations : <<r, n>> \in Job
    BY DEF Job
<1>4. JobsNotAhead'
    BY <1>2, <1>3 DEF JobInv, JobsNotAhead, RowMoves, Queue!Absent
<1>5. JobsAreCurrent'
    BY <1>2, <1>3 DEF JobInv, JobsAreCurrent, RowMoves, Queue!Unfinished, Queue!Pending
<1>6. InHandClaimed'
  <2> SUFFICES ASSUME worker' # Queue!Idle
               PROVE  job'[worker'.job].status \notin {"absent", "queued"}
      BY DEF InHandClaimed, Queue!Idle
  <2>1. CASE worker = Queue!Idle
      BY <1>2, <2>1
  <2>2. CASE worker # Queue!Idle
    <3>1. worker.job \in Job /\ job[worker.job].status \notin {"absent", "queued"}
        BY <1>1, <2>2 DEF JobInv, InHandClaimed
    <3> QED
        BY <1>2, <2>2, <3>1 DEF RowMoves
  <2> QED
      BY <2>1, <2>2
<1> QED
    BY <1>1, <1>4, <1>5, <1>6 DEF JobInv

-----------------------------------------------------------------------------
(***************************************************************************)
(* The gaps                                                                *)
(***************************************************************************)
LEMMA GapFacts ==
    ASSUME DataInv, NEW q \in Report, Unknown(fragment, q)
    PROVE  /\ q \in Source /\ fragment[q].place \in Place
           /\ Active(fragment, q) => fragment[q].revision \in 1..MaxOperations
           /\ fragment[q].received \in Nat /\ fragment[q].received <= now /\ now \in Nat
           /\ \A t \in Source : fragment[t].told \in Nat /\ fragment[t].told <= now
<1>1. q \in Source /\ fragment \in Fragments /\ now \in Nat
    BY SourcesAre, BoundsAreNaturals DEF DataInv
<1>2. fragment[q].place \in Place
    BY <1>1, ValuesAreDefinite DEF DataInv, SpokenOf, Unknown, Indefinite, Nothing
<1>3. \A t \in Source : /\ fragment[t].told \in Nat /\ fragment[t].received \in Nat
                        /\ fragment[t].told <= now /\ fragment[t].received <= now
    BY <1>1, BoundsAreNaturals DEF DataInv, Past, Fragments, Fragment
<1>4. Active(fragment, q) => fragment[q].revision \in 1..MaxOperations
    BY <1>1, BoundsAreNaturals DEF DataInv, SpokenOf, Fragments, Fragment, Active
<1> QED
    BY <1>1, <1>2, <1>3, <1>4

\* Changing report r uncovers no gap of the other reports.
LEMMA OthersStayCovered ==
    ASSUME DataInv, NEW r \in Report, NEW q \in Report \ {r}, now' = now + 1,
           Active(fragment, q), Unknown(fragment, q), Covered(q),
           \A s \in Source \ {r} : fragment'[s] = fragment[s],
           fragment'[r].told >= fragment[r].told, fragment'[r].told \in Nat,
           Definite(fragment', r) /\ fragment'[r].status = "active" => fragment'[r].told = now',
           \A p \in Place : IsOpen(p) => OpenBecomes(fragment', r, p, blind'[p])
    PROVE  Covered(q)'
<1>1. /\ q \in Source /\ r \in Source /\ fragment[q].place \in Place /\ fragment'[q] = fragment[q]
      /\ fragment[q].received \in Nat /\ fragment[q].received <= now /\ now \in Nat
      /\ \A t \in Source : fragment[t].told \in Nat
    BY GapFacts, SourcesAre
<1>2. CASE IsOpen(fragment[q].place)
  <2>1. PICK p \in Place : p = fragment[q].place
      BY <1>1
  <2>2. OpenBecomes(fragment', r, p, blind'[p])
      BY <1>2, <2>1
  <2>3. RestsOn(fragment', q, p)
      BY <1>1, <2>1 DEF RestsOn, Active, Unknown
  <2>4. CASE blind'[p].status \in Open
      BY <1>1, <2>1, <2>4 DEF Covered, IsOpen
  <2>5. CASE Definite(fragment', r) /\ fragment'[r].status = "active"
      BY <1>1, <2>5 DEF Covered
  <2> QED
      BY <1>1, <1>2, <2>1, <2>2, <2>3, <2>4, <2>5 DEF OpenBecomes, IsOpen
<1>3. CASE \E t \in Source \ {q} : fragment[t].told >= fragment[q].received
  <2>1. PICK t \in Source \ {q} : fragment[t].told >= fragment[q].received
      BY <1>3
  <2>2. fragment'[t].told >= fragment[q].received
      BY <1>1, <2>1
  <2> QED
      BY <1>1, <2>2 DEF Covered
<1>4. CASE \E d \in Device : fragment[<<d, fragment[q].place>>].status = "active"
  <2>1. PICK d \in Device : fragment[<<d, fragment[q].place>>].status = "active"
      BY <1>4
  <2>2. <<d, fragment[q].place>> \in Source \ {r}
      BY <1>1, SourcesAre
  <2> QED
      BY <1>1, <2>1, <2>2 DEF Covered
<1> QED
    BY <1>2, <1>3, <1>4 DEF Covered

-----------------------------------------------------------------------------
(***************************************************************************)
(* The operations keep the invariant                                       *)
(***************************************************************************)
LEMMA ObserveKeepsData ==
    ASSUME DataInv, NEW r \in Report, NEW status \in {"live", "invalid"},
           NEW c \in Claims, c.value # Nothing => c.place \in Place, Observe(r, status, c)
    PROVE  DataInv'
<1>1. /\ now \in Nat /\ now' = now + 1 /\ now' \in 0..MaxOperations
      /\ fragment' \in Fragments
      /\ fragment'[r].place = c.place /\ fragment'[r].value = c.value
      /\ fragment'[r].revision = fragment[r].revision + 1
      /\ fragment'[r].received = now'
      /\ fragment'[r].told = IF c.value \in Value THEN now' ELSE fragment[r].told
      /\ \A s \in Source \ {r} : fragment'[s] = fragment[s]
      /\ fragment[r].revision \in Nat
      /\ UNCHANGED incident
    BY ObserveDoes
<1>2. GoodBlind(blind')
    BY ObserveBlindSpots
<1>3. r \in Source /\ fragment \in Fragments
    BY SourcesAre DEF DataInv
<1>4. \A s \in Source : /\ fragment[s].revision \in Nat /\ fragment[s].received \in Nat
                        /\ fragment[s].told \in Nat
                        /\ fragment[s].revision <= now /\ fragment[s].received <= now
                        /\ fragment[s].told <= now
    BY <1>3, BoundsAreNaturals DEF DataInv, Past, Fragments, Fragment
<1>5. Past'
    BY <1>1, <1>3, <1>4 DEF Past
<1>6. SpokenOf'
  <2>1. \A s \in Source :
           /\ fragment'[s].value # Nothing => fragment'[s].place \in Place
           /\ fragment'[s].status = "active" => fragment'[s].revision # 0
      BY <1>1 DEF DataInv, SpokenOf
  <2>2. \A d \in Device, p \in Place : fragment'[<<d, p>>].place \in {p, Nowhere}
      BY <1>1, SourcesAre DEF DataInv, SpokenOf
  <2>3. \A q \in Report : Definite(fragment, q)' => fragment'[q].told >= fragment'[q].received
      BY <1>1, SourcesAre DEF DataInv, SpokenOf, Definite
  <2> QED
      BY <2>1, <2>2, <2>3 DEF SpokenOf, Nothing, Nowhere
<1> QED
    BY <1>1, <1>2, <1>5, <1>6 DEF DataInv, GoodBlind

LEMMA ObserveKeepsJobs ==
    ASSUME DataInv, JobInv, NEW r \in Report, NEW status \in {"live", "invalid"},
           NEW c \in Claims, c.value # Nothing => c.place \in Place, Observe(r, status, c)
    PROVE  /\ JobInv'
           /\ \A j \in Job : j[1] # r => job'[j] = job[j]
           /\ c.value = "unknown" => job'[<<r, fragment'[r].revision>>].status = "queued"
           /\ worker' = worker /\ job[<<r, fragment'[r].revision>>] = Queue!Absent
<1>1. /\ fragment' \in Fragments
      /\ fragment'[r].status = "active" /\ fragment'[r].value = c.value
      /\ fragment'[r].revision = fragment[r].revision + 1
      /\ \A s \in Source \ {r} : fragment'[s] = fragment[s]
      /\ fragment[r].revision \in Nat
    BY ObserveDoes
<1>2. r \in Source /\ \A q \in Report \ {r} : fragment'[q] = fragment[q]
    BY <1>1, SourcesAre
<1>3. fragment'[r].revision \in 1..MaxOperations
    BY <1>1, <1>2, BoundsAreNaturals DEF Fragments, Fragment
<1>4. PICK j \in OwnJobs(r) : j = <<r, fragment'[r].revision>>
  <2>1. <<r, fragment'[r].revision>> \in OwnJobs(r)
      BY <1>3 DEF OwnJobs
  <2> QED
      BY <2>1
<1>5. PICK cancel \in SUBSET OwnJobs(r) :
         cancel = OwnJobs(r) \ (IF Unknown(fragment', r) THEN {j} ELSE {})
    OBVIOUS
<1>6. PICK add \in SUBSET OwnJobs(r) : add = IF fragment'[r].value = "unknown" THEN {j} ELSE {}
    BY <1>4
<1>7. Queue!Schedule(cancel, add)
    BY <1>4, <1>5, <1>6 DEF Observe, ScheduleDetection
<1>8. \A k \in OwnJobs(r) : job[k].status \in Queue!Unfinished => k \in cancel
  <2> SUFFICES ASSUME NEW n \in 1..MaxOperations, job[<<r, n>>].status \in Queue!Unfinished
               PROVE  <<r, n>> \in cancel
      BY DEF OwnJobs
  <2>1. fragment[r].revision = n
      BY DEF JobInv, JobsAreCurrent
  <2>2. <<r, n>> # j
      BY <1>1, <1>4, <2>1
  <2> QED
      BY <1>5, <2>2 DEF OwnJobs
<1>9. \A k \in add : /\ k = <<r, fragment'[r].revision>>
                     /\ fragment'[r].status = "active" /\ fragment'[r].value = "unknown"
    BY <1>1, <1>4, <1>6
<1>10. fragment'[r].revision \in Nat /\ fragment'[r].revision >= fragment[r].revision
    BY <1>1
<1>11. JobInv'
    BY <1>1, <1>2, <1>7, <1>8, <1>9, <1>10, JobsKept
<1>12. \A k \in Job :
           /\ k \notin OwnJobs(r) => job'[k] = job[k]
           /\ k \in add => IF job[k] = Queue!Absent THEN job'[k] = Queue!Queued
                           ELSE job'[k].status \notin Queue!Unfinished
    BY <1>7, <1>8, RescheduledAre DEF JobInv
<1>13. \A k \in Job : k[1] # r => job'[k] = job[k]
    BY <1>12 DEF OwnJobs, Job
<1>14. job[j] = Queue!Absent
    BY <1>1, <1>3, <1>4 DEF JobInv, JobsNotAhead
<1>15. c.value = "unknown" => job'[j].status = "queued"
  <2>1. j \in Job /\ (c.value = "unknown" => j \in add)
      BY <1>1, <1>3, <1>4, <1>6 DEF Job
  <2>2. Queue!Queued.status = "queued"
      BY DEF Queue!Queued, Queue!Absent
  <2> QED
      BY <1>12, <1>14, <2>1, <2>2
<1>16. worker' = worker
    BY <1>7 DEF Queue!Schedule
<1> QED
    BY <1>4, <1>11, <1>13, <1>14, <1>15, <1>16

LEMMA ObserveKeepsGaps ==
    ASSUME IInv, NEW r \in Report, NEW status \in {"live", "invalid"},
           NEW c \in Claims, c.value # Nothing => c.place \in Place, Observe(r, status, c)
    PROVE  GapInv'
<1>0. DataInv /\ JobInv /\ GapInv /\ fragment \in Fragments /\ r \in Source
    BY SourcesAre DEF IInv, DataInv
<1>1. /\ now \in Nat /\ now' = now + 1 /\ now' \in 0..MaxOperations
      /\ fragment' \in Fragments
      /\ fragment'[r].report = status /\ fragment'[r].status = "active"
      /\ fragment'[r].place = c.place /\ fragment'[r].value = c.value
      /\ fragment'[r].revision = fragment[r].revision + 1
      /\ fragment'[r].received = now'
      /\ fragment'[r].told = IF c.value \in Value THEN now' ELSE fragment[r].told
      /\ \A s \in Source \ {r} : fragment'[s] = fragment[s]
      /\ fragment[r].revision \in Nat
      /\ UNCHANGED incident
    BY <1>0, ObserveDoes
<1>2. /\ \A p \in Place : IsOpen(p) => OpenBecomes(fragment', r, p, blind'[p])
      /\ /\ c.value = "uncertain" /\ status = "live" /\ incident.active
         /\ ~SaidSince(fragment', r)
         => blind'[c.place].status \in Open
    BY <1>0, ObserveBlindSpots
<1>3. /\ \A j \in Job : j[1] # r => job'[j] = job[j]
      /\ c.value = "unknown" => job'[<<r, fragment'[r].revision>>].status = "queued"
      /\ worker' = worker /\ job[<<r, fragment'[r].revision>>] = Queue!Absent
    BY <1>0, ObserveKeepsJobs
<1> SUFFICES ASSUME ~incident'.interrupted PROVE incident'.active /\ GapsCovered'
    BY DEF GapInv
<1>4. incident.active /\ GapsCovered /\ incident'.active
    BY <1>0, <1>1 DEF GapInv
<1>5. ASSUME NEW q \in Report, Active(fragment', q), Unknown(fragment', q), q = r
      PROVE  /\ AwaitsDetection(q)' \/ Covered(q)'
             /\ ~(worker'.at = "done" /\ worker'.job = <<q, fragment'[q].revision>>)
  <2>1. ~(worker'.at = "done" /\ worker'.job = <<q, fragment'[q].revision>>)
      BY <1>0, <1>3, <1>5 DEF JobInv, InHandClaimed, Queue!Idle, Queue!Absent
  <2>2. CASE c.value = "unknown"
      BY <1>3, <1>5, <2>1, <2>2 DEF AwaitsDetection, Queue!Unfinished, Queue!Pending
  <2>3. CASE c.value = "uncertain"
    <3>1. ~SaidSince(fragment', r)
      <4> SUFFICES ASSUME NEW t \in Others(fragment', r, fragment'[r].place),
                          fragment'[t].received >= fragment'[r].received
                   PROVE  FALSE
          BY DEF SaidSince
      <4>1. t \in Source \ {r}
          BY DEF Others
      <4>2. fragment[t].received <= now /\ fragment[t].received \in Nat
          BY <1>0, <4>1, BoundsAreNaturals DEF DataInv, Past, Fragments, Fragment
      <4> QED
          BY <1>1, <4>1, <4>2
    <3>2. status = "live"
        BY <1>1, <1>5 DEF Active
    <3>3. blind'[c.place].status \in Open
        BY <1>2, <1>4, <2>3, <3>1, <3>2
    <3> QED
        BY <1>1, <1>5, <2>1, <3>3 DEF Covered, IsOpen
  <2> QED
      BY <1>1, <1>5, <2>1, <2>2, <2>3 DEF Unknown, Indefinite
<1>6. ASSUME NEW q \in Report, Active(fragment', q), Unknown(fragment', q), q # r
      PROVE  /\ AwaitsDetection(q)' \/ Covered(q)'
             /\ worker'.at = "done" /\ worker'.job = <<q, fragment'[q].revision>> => Covered(q)'
  <2>1. fragment'[q] = fragment[q] /\ Active(fragment, q) /\ Unknown(fragment, q)
      BY <1>1, <1>6, SourcesAre DEF Active, Unknown
  <2>2. Covered(q) => Covered(q)'
    <3>1. fragment'[r].told \in Nat /\ fragment'[r].told >= fragment[r].told
        BY <1>0, <1>1, BoundsAreNaturals DEF DataInv, Past, Fragments, Fragment
    <3>2. Definite(fragment', r) => fragment'[r].told = now'
        BY <1>1 DEF Definite
    <3> QED
        BY <1>0, <1>1, <1>2, <1>6, <2>1, <3>1, <3>2, OthersStayCovered
  <2>3. AwaitsDetection(q) => AwaitsDetection(q)' \/ Covered(q)
    <3>1. fragment[q].revision \in 1..MaxOperations
        BY <1>0, <2>1, GapFacts
    <3>2. job'[<<q, fragment[q].revision>>] = job[<<q, fragment[q].revision>>]
        BY <1>3, <1>6, <3>1 DEF Job
    <3> QED
        BY <2>1, <3>2 DEF AwaitsDetection, Queue!Unfinished, Queue!Pending
  <2> QED
      BY <1>3, <1>4, <1>6, <2>1, <2>2, <2>3 DEF GapsCovered
<1> QED
    BY <1>4, <1>5, <1>6 DEF GapsCovered

LEMMA WithdrawKeeps ==
    ASSUME IInv, NEW r \in Report, NEW status \in {"invalid", "deleted"}, Withdraw(r, status)
    PROVE  IInv'
<1>0. DataInv /\ JobInv /\ GapInv /\ fragment \in Fragments /\ r \in Source
    BY SourcesAre DEF IInv, DataInv
<1>1. /\ now \in Nat /\ now' = now + 1 /\ now' \in 0..MaxOperations
      /\ fragment' \in Fragments
      /\ fragment'[r].status = "withdrawn"
      /\ fragment'[r].place = fragment[r].place /\ fragment'[r].value = fragment[r].value
      /\ fragment'[r].revision \in {fragment[r].revision, fragment[r].revision + 1}
      /\ fragment'[r].received = fragment[r].received
      /\ fragment'[r].told = fragment[r].told
      /\ \A s \in Source \ {r} : fragment'[s] = fragment[s]
      /\ fragment[r].revision \in Nat
      /\ UNCHANGED incident
      /\ GoodBlind(blind')
      /\ \A p \in Place : IsOpen(p) => OpenBecomes(fragment', r, p, blind'[p])
    BY <1>0, WithdrawDoes
<1>2. \A s \in Source : /\ fragment[s].revision \in Nat /\ fragment[s].received \in Nat
                        /\ fragment[s].told \in Nat
                        /\ fragment[s].revision <= now /\ fragment[s].received <= now
                        /\ fragment[s].told <= now
    BY <1>0, BoundsAreNaturals DEF DataInv, Past, Fragments, Fragment
<1>3. DataInv'
  <2>1. Past'
      BY <1>0, <1>1, <1>2 DEF Past
  <2>2. SpokenOf'
    <3>1. \A s \in Source :
             /\ fragment'[s].value # Nothing => fragment'[s].place \in Place
             /\ fragment'[s].status = "active" => fragment'[s].revision # 0
        BY <1>0, <1>1 DEF DataInv, SpokenOf
    <3>2. \A d \in Device, p \in Place : fragment'[<<d, p>>].place \in {p, Nowhere}
        BY <1>0, <1>1, SourcesAre DEF DataInv, SpokenOf
    <3>3. \A q \in Report : Definite(fragment, q)' => fragment'[q].told >= fragment'[q].received
        BY <1>0, <1>1, SourcesAre DEF DataInv, SpokenOf, Definite
    <3> QED
        BY <3>1, <3>2, <3>3 DEF SpokenOf, Nothing, Nowhere
  <2> QED
      BY <1>0, <1>1, <2>1, <2>2 DEF DataInv, GoodBlind
<1>4. PICK cancel \in SUBSET OwnJobs(r), add \in SUBSET OwnJobs(r) :
         cancel = OwnJobs(r) /\ add = {} /\ Queue!Schedule(cancel, add)
    BY DEF Withdraw
<1>5. JobInv'
  <2>1. /\ \A j \in OwnJobs(r) : job[j].status \in Queue!Unfinished => j \in cancel
        /\ \A q \in Report \ {r} : fragment'[q] = fragment[q]
        /\ fragment'[r].revision \in Nat /\ fragment'[r].revision >= fragment[r].revision
        /\ \A j \in add : /\ j = <<r, fragment'[r].revision>>
                          /\ fragment'[r].status = "active" /\ fragment'[r].value = "unknown"
      BY <1>1, <1>4, SourcesAre
  <2> QED
      BY <1>0, <1>1, <1>4, <2>1, JobsKept
<1>6. GapInv'
  <2> SUFFICES ASSUME ~incident'.interrupted PROVE incident'.active /\ GapsCovered'
      BY DEF GapInv
  <2>1. incident'.active /\ GapsCovered
      BY <1>0, <1>1 DEF GapInv
  <2>2. \A j \in Job : j \notin OwnJobs(r) => job'[j] = job[j]
      BY <1>0, <1>4, RescheduledAre DEF JobInv
  <2>3. ASSUME NEW q \in Report, Active(fragment', q), Unknown(fragment', q)
        PROVE  /\ AwaitsDetection(q)' \/ Covered(q)'
               /\ worker'.at = "done" /\ worker'.job = <<q, fragment'[q].revision>> => Covered(q)'
    <3>1. /\ q # r /\ fragment'[q] = fragment[q] /\ Active(fragment, q) /\ Unknown(fragment, q)
          /\ worker' = worker
        BY <1>1, <1>4, <2>3, SourcesAre DEF Active, Unknown, Queue!Schedule
    <3>2. Covered(q) => Covered(q)'
      <4>1. fragment'[r].told \in Nat /\ fragment'[r].told >= fragment[r].told
          BY <1>0, <1>1, <1>2
      <4>2. ~(Definite(fragment', r) /\ fragment'[r].status = "active")
          BY <1>1
      <4> QED
          BY <1>0, <1>1, <3>1, <4>1, <4>2, OthersStayCovered
    <3>3. AwaitsDetection(q) => AwaitsDetection(q)'
      <4>1. fragment[q].revision \in 1..MaxOperations
          BY <1>0, <3>1, GapFacts
      <4>2. job'[<<q, fragment[q].revision>>] = job[<<q, fragment[q].revision>>]
          BY <2>2, <3>1, <4>1 DEF Job, OwnJobs
      <4> QED
          BY <3>1, <4>2 DEF AwaitsDetection, Queue!Unfinished, Queue!Pending
    <3> QED
        BY <2>1, <3>1, <3>2, <3>3 DEF GapsCovered
  <2> QED
      BY <2>1, <2>3 DEF GapsCovered
<1> QED
    BY <1>3, <1>5, <1>6 DEF IInv

LEMMA ObserveKeeps ==
    ASSUME IInv, NEW r \in Report, NEW status \in {"live", "invalid"},
           NEW c \in Claims, c.value # Nothing => c.place \in Place, Observe(r, status, c)
    PROVE  IInv'
<1>1. DataInv /\ JobInv
    BY DEF IInv
<1>2. DataInv'
    BY <1>1, ObserveKeepsData
<1>3. JobInv'
    BY <1>1, ObserveKeepsJobs
<1>4. GapInv'
    BY ObserveKeepsGaps
<1> QED
    BY <1>2, <1>3, <1>4 DEF IInv

\* What a posted or edited report claims, and what a restored one goes on claiming.
LEMMA ClaimIs ==
    ASSUME NEW c \in Claim
    PROVE  c \in Claims /\ (c.value # Nothing => c.place \in Place)
BY DEF Claim, Claims

LEMMA RestoredClaimIs ==
    ASSUME DataInv, NEW r \in Report,
           NEW c, c = [place |-> fragment[r].place, value |-> fragment[r].value]
    PROVE  c \in Claims /\ (c.value # Nothing => c.place \in Place)
<1>1. /\ fragment[r] \in Fragment
      /\ fragment[r].value # Nothing => fragment[r].place \in Place
    BY SourcesAre DEF DataInv, Fragments, SpokenOf
<1> QED
    BY <1>1 DEF Claims, Fragment

LEMMA PutAnswerKeeps ==
    ASSUME IInv, NEW d \in Device, NEW p \in Place, NEW v \in Value \cup {"unknown"},
           PutAnswer(d, p, v)
    PROVE  IInv'
<1>0. DataInv /\ JobInv /\ GapInv /\ fragment \in Fragments
    BY DEF IInv, DataInv
<1>1. PICK s : s = <<d, p>>
    OBVIOUS
<1>2. /\ now \in Nat /\ now' = now + 1 /\ now' \in 0..MaxOperations
      /\ fragment' \in Fragments
      /\ fragment'[s].status = "active"
      /\ fragment'[s].place = p /\ fragment'[s].value = v
      /\ fragment[s].revision \in Nat /\ fragment'[s].revision = fragment[s].revision + 1
      /\ fragment'[s].received <= now' /\ fragment'[s].told = fragment[s].told
      /\ \A t \in Source \ {s} : fragment'[t] = fragment[t]
      /\ GoodBlind(blind')
      /\ \A q \in Place \ {p} : blind'[q] = blind[q]
    BY <1>0, <1>1, PutAnswerDoes
<1>3. s \in Source /\ \A r \in Report : r \in Source /\ r # s /\ fragment'[r] = fragment[r]
    BY <1>1, <1>2, SourcesAre
<1>4. \A t \in Source : /\ fragment[t].revision \in Nat /\ fragment[t].received \in Nat
                        /\ fragment[t].told \in Nat
                        /\ fragment[t].revision <= now /\ fragment[t].received <= now
                        /\ fragment[t].told <= now
    BY <1>0, BoundsAreNaturals DEF DataInv, Past, Fragments, Fragment
<1>5. UNCHANGED <<incident, job, worker, faults>>
    BY DEF PutAnswer
<1>6. DataInv'
  <2>1. Past'
      BY <1>2, <1>3, <1>4 DEF Past
  <2>2. SpokenOf'
    <3>1. \A t \in Source :
             /\ fragment'[t].value # Nothing => fragment'[t].place \in Place
             /\ fragment'[t].status = "active" => fragment'[t].revision # 0
        BY <1>0, <1>2, <1>3 DEF DataInv, SpokenOf
    <3>2. ASSUME NEW e \in Device, NEW q \in Place
          PROVE  fragment'[<<e, q>>].place \in {q, Nowhere}
      <4>1. CASE <<e, q>> = s
          BY <1>1, <1>2, <4>1
      <4>2. CASE <<e, q>> # s
          BY <1>0, <1>2, <4>2, SourcesAre DEF DataInv, SpokenOf
      <4> QED
          BY <4>1, <4>2
    <3>3. \A q \in Report : Definite(fragment, q)' => fragment'[q].told >= fragment'[q].received
        BY <1>0, <1>3 DEF DataInv, SpokenOf, Definite
    <3> QED
        BY <3>1, <3>2, <3>3 DEF SpokenOf, Nothing, Nowhere
  <2> QED
      BY <1>0, <1>2, <1>5, <2>1, <2>2 DEF DataInv, GoodBlind
<1>7. JobInv'
    BY <1>0, <1>3, <1>5, QueueStepsKeep
       DEF JobInv, JobsNotAhead, JobsAreCurrent, InHandClaimed, Queue!Absent, Queue!Idle,
           Queue!Unfinished, Queue!Pending
<1>8. GapInv'
  <2> SUFFICES ASSUME ~incident'.interrupted PROVE incident'.active /\ GapsCovered'
      BY DEF GapInv
  <2>1. incident'.active /\ GapsCovered
      BY <1>0, <1>5 DEF GapInv
  <2>2. ASSUME NEW q \in Report, Active(fragment', q), Unknown(fragment', q)
        PROVE  /\ AwaitsDetection(q)' \/ Covered(q)'
               /\ worker'.at = "done" /\ worker'.job = <<q, fragment'[q].revision>> => Covered(q)'
    <3>1. fragment'[q] = fragment[q] /\ Active(fragment, q) /\ Unknown(fragment, q)
        BY <1>3, <2>2 DEF Active, Unknown
    <3>2. Covered(q) => Covered(q)'
      <4>1. fragment[q].place \in Place
          BY <1>0, <3>1, GapFacts
      <4>2. CASE fragment[q].place = p
          BY <1>1, <1>2, <3>1, <4>2 DEF Covered
      <4>3. CASE fragment[q].place # p /\ IsOpen(fragment[q].place)
          BY <1>2, <3>1, <4>1, <4>3 DEF Covered, IsOpen
      <4>4. CASE \E t \in Source \ {q} : fragment[t].told >= fragment[q].received
        <5>1. PICK t \in Source \ {q} : fragment[t].told >= fragment[q].received
            BY <4>4
        <5>2. fragment'[t].told = fragment[t].told
            BY <1>2, <5>1
        <5> QED
            BY <3>1, <5>1, <5>2 DEF Covered
      <4>5. ASSUME NEW e \in Device, fragment[<<e, fragment[q].place>>].status = "active"
            PROVE  fragment'[<<e, fragment[q].place>>].status = "active"
        <5>1. PICK t \in Source : t = <<e, fragment[q].place>>
            BY <4>1, SourcesAre
        <5> QED
            BY <1>2, <4>5, <5>1
      <4> QED
          BY <3>1, <4>2, <4>3, <4>4, <4>5 DEF Covered
    <3>3. AwaitsDetection(q) => AwaitsDetection(q)'
        BY <1>5, <3>1 DEF AwaitsDetection, Queue!Unfinished, Queue!Pending
    <3> QED
        BY <1>5, <2>1, <3>1, <3>2, <3>3 DEF GapsCovered
  <2> QED
      BY <2>1, <2>2 DEF GapsCovered
<1> QED
    BY <1>6, <1>7, <1>8 DEF IInv

LEMMA StillCovered ==
    ASSUME UNCHANGED fragment, NEW q \in Report, Covered(q),
           IsOpen(fragment[q].place) => IsOpen(fragment[q].place)'
    PROVE  Covered(q)'
BY DEF Covered

LEMMA DetectKeeps ==
    ASSUME IInv, NEW at \in {"done", "error"}, Detect(at)
    PROVE  IInv'
<1>0. DataInv /\ JobInv /\ GapInv /\ fragment \in Fragments
    BY DEF IInv, DataInv
<1>1. /\ worker.at = "loaded" /\ worker' = [worker EXCEPT !.at = at] /\ job' = job
      /\ UNCHANGED <<fragment, incident, now>>
    BY DEF Detect, Queue!Handled
<1>2. worker.job \in Job /\ worker # Queue!Idle
    BY <1>0, <1>1, QueueTypes DEF JobInv
<1>3. PICK r \in Report, n \in 1..MaxOperations : worker.job = <<r, n>>
    BY <1>2 DEF Job
<1>4. /\ GoodBlind(blind')
      /\ \A p \in Place : \/ blind'[p] = blind[p]
                          \/ /\ OpensFor(fragment, r, p, blind[p], blind'[p])
                             /\ fragment[r].revision = n
    BY <1>0, <1>2, <1>3, DetectDoes
<1>5. DataInv'
    BY <1>0, <1>1, <1>4 DEF DataInv, GoodBlind, Past, SpokenOf, Definite, Nothing, Nowhere
<1>6. JobInv'
    BY <1>0, <1>1, WorkerKeepsJobs
<1>7. worker'.job = worker.job /\ worker'.at = at
  <2>1. worker \in Queue!Worker
      BY <1>0, <1>2, QueueTypes DEF JobInv, Queue!TypeOK
  <2> QED
      BY <1>1, <2>1 DEF Queue!Worker
<1>8. GapInv'
  <2> SUFFICES ASSUME ~incident'.interrupted PROVE incident'.active /\ GapsCovered'
      BY DEF GapInv
  <2>1. incident'.active /\ incident.active /\ GapsCovered
      BY <1>0, <1>1 DEF GapInv
  <2>2. ASSUME NEW q \in Report, Active(fragment', q), Unknown(fragment', q)
        PROVE  /\ AwaitsDetection(q)' \/ Covered(q)'
               /\ worker'.at = "done" /\ worker'.job = <<q, fragment'[q].revision>> => Covered(q)'
    <3>1. Active(fragment, q) /\ Unknown(fragment, q)
        BY <1>1, <2>2
    <3>2. PICK p \in Place : p = fragment[q].place /\ q \in Source
        BY <1>0, <3>1, GapFacts
    <3>3. Covered(q) => Covered(q)'
        BY <1>1, <1>4, <3>2, StillCovered DEF IsOpen, OpensFor
    <3>4. AwaitsDetection(q) => AwaitsDetection(q)'
        BY <1>1 DEF AwaitsDetection, Queue!Unfinished, Queue!Pending
    <3>5. ASSUME worker'.at = "done", worker'.job = <<q, fragment'[q].revision>>
          PROVE  Covered(q)'
      <4>1. Detect("done") /\ worker.job = <<q, fragment[q].revision>>
          BY <1>1, <1>7, <3>5
      <4>2. CASE ~SaidSince(fragment, q)
        <5>1. blind'[fragment[q].place].status \in Open
            BY <1>0, <1>2, <2>1, <3>1, <4>1, <4>2, DetectOpens
        <5> QED
            BY <1>1, <5>1 DEF Covered, IsOpen
      <4>3. CASE SaidSince(fragment, q)
        <5>1. PICK t \in Source \ {q} :
                 /\ Active(fragment, t) /\ fragment[t].place = p /\ Definite(fragment, t)
                 /\ fragment[t].received >= fragment[q].received
            BY <3>2, <4>3 DEF SaidSince, Others
        <5>2. CASE t \in Report
          <6>1. /\ fragment[t].told >= fragment[t].received /\ fragment[t].told \in Nat
                /\ fragment[t].received \in Nat /\ fragment[q].received \in Nat
              BY <1>0, <3>2, <5>1, <5>2, BoundsAreNaturals
                 DEF DataInv, SpokenOf, Fragments, Fragment
          <6>2. fragment[t].told >= fragment[q].received
              BY <5>1, <6>1
          <6> QED
              BY <1>1, <5>1, <6>2 DEF Covered
        <5>3. CASE t \notin Report
          <6>1. PICK d \in Device, e \in Place : t = <<d, e>>
              BY <5>1, <5>3, SourcesAre
          <6>2. e = p
              BY <1>0, <5>1, <6>1, SourcesAreApart DEF DataInv, SpokenOf
          <6>3. fragment[<<d, fragment[q].place>>].status = "active"
              BY <3>2, <5>1, <6>1, <6>2 DEF Active
          <6> QED
              BY <1>1, <6>3 DEF Covered
        <5> QED
            BY <5>2, <5>3
      <4> QED
          BY <4>2, <4>3
    <3> QED
        BY <2>1, <3>1, <3>3, <3>4, <3>5 DEF GapsCovered
  <2> QED
      BY <2>1, <2>2 DEF GapsCovered
<1> QED
    BY <1>5, <1>6, <1>8 DEF IInv

LEMMA QueueStepKeeps ==
    ASSUME IInv, QueueStep
    PROVE  IInv'
<1>0. DataInv /\ JobInv /\ GapInv /\ UNCHANGED <<fragment, blind, incident, now>>
    BY DEF IInv, QueueStep, data
<1>1. DataInv'
    BY <1>0 DEF DataInv, GoodBlind, Past, SpokenOf, Definite, Nothing, Nowhere
<1>2. JobInv'
    BY <1>0, WorkerKeepsJobs
<1>3. /\ \A j \in Job : RowMoves(j)
      /\ worker'.at = "done" => worker' = worker
  <2>1. \A j \in Job : RowMoves(j)
      BY <1>0, WorkerDoes
  <2>2. worker'.at = "done" => worker' = worker
    <3>1. Queue!Idle.at # "done"
        BY DEF Queue!Idle
    <3>2. CASE Queue!Load
      <4>1. worker \in Queue!Worker \cup {Queue!Idle}
          BY <1>0, QueueTypes DEF JobInv, Queue!TypeOK
      <4>2. worker' = Queue!Idle \/ worker' = [worker EXCEPT !.at = "loaded"]
          BY <3>2 DEF Queue!Load
      <4> QED
          BY <3>1, <3>2, <4>1, <4>2 DEF Queue!Worker, Queue!Idle, Queue!Load
    <3>3. CASE Queue!Finish \/ Queue!Abandon
        BY <3>1, <3>3 DEF Queue!Finish, Queue!Abandon
    <3>4. CASE \E j \in Job : Queue!BecomeDue(j) \/ Queue!LeaseExpires(j) \/ Queue!Claim(j)
        BY <3>4 DEF Queue!BecomeDue, Queue!LeaseExpires, Queue!Claim
    <3> QED
        BY <3>2, <3>3, <3>4 DEF QueueStep
  <2> QED
      BY <2>1, <2>2
<1>4. GapInv'
  <2> SUFFICES ASSUME ~incident'.interrupted PROVE incident'.active /\ GapsCovered'
      BY DEF GapInv
  <2>1. incident'.active /\ GapsCovered
      BY <1>0 DEF GapInv
  <2>2. ASSUME NEW q \in Report, Active(fragment', q), Unknown(fragment', q)
        PROVE  /\ AwaitsDetection(q)' \/ Covered(q)'
               /\ worker'.at = "done" /\ worker'.job = <<q, fragment'[q].revision>> => Covered(q)'
    <3>1. Active(fragment, q) /\ Unknown(fragment, q)
        BY <1>0, <2>2
    <3>2. Covered(q) => Covered(q)'
        BY <1>0, StillCovered DEF IsOpen, Open
    <3>3. <<q, fragment[q].revision>> \in Job
        BY <1>0, <3>1, GapFacts DEF Job
    <3>4. AwaitsDetection(q) =>
             AwaitsDetection(q)' \/ (worker.at = "done" /\ worker.job = <<q, fragment[q].revision>>)
        BY <1>0, <1>3, <3>3
           DEF AwaitsDetection, RowMoves, Queue!Unfinished, Queue!Pending
    <3> QED
        BY <1>0, <1>3, <2>1, <3>1, <3>2, <3>4 DEF GapsCovered
  <2> QED
      BY <2>1, <2>2 DEF GapsCovered
<1> QED
    BY <1>1, <1>2, <1>4 DEF IInv

LEMMA InitInv == Init => IInv
<1> SUFFICES ASSUME Init PROVE IInv
    OBVIOUS
<1>1. /\ fragment \in Fragments /\ Past /\ SpokenOf
  <2>1. \A s \in Source :
           fragment[s] = [report |-> "none", status |-> "absent", place |-> Nowhere,
                          value |-> Nothing, revision |-> 0, received |-> 0, told |-> 0]
      BY DEF Init
  <2>2. 0 \in 0..MaxOperations
      BY BoundsAreNaturals
  <2>3. \A s \in Source : fragment[s] \in Fragment
      BY <2>1, <2>2 DEF Fragment
  <2>4. fragment \in Fragments
      BY <2>3 DEF Init, Fragments
  <2>5. Past /\ SpokenOf
      BY <2>1, SourcesAre, ValuesAreDefinite DEF Init, Past, SpokenOf, Definite
  <2> QED
      BY <2>4, <2>5
<1>2. GoodBlind(blind)
    BY DEF Init, GoodBlind, GoodRow, BlindSpot, Nothing
<1>3. DataInv
    BY <1>1, <1>2, BoundsAreNaturals DEF Init, DataInv
<1>4. QueueProofs!IInv
    BY InitIsQueueInit, QueueProofs!InitInv, BoundsAreNaturals
<1>5. /\ \A r \in Report, n \in 1..MaxOperations : job[<<r, n>>] = Queue!Absent
      /\ worker = Queue!Idle
    BY DEF Init, Queue!Init, Job
<1>6. JobInv
    BY <1>4, <1>5
       DEF JobInv, JobsNotAhead, JobsAreCurrent, InHandClaimed, Queue!Absent, Queue!Unfinished,
           Queue!Pending
<1>7. GapInv
    BY SourcesAre DEF Init, GapInv, GapsCovered, Active
<1> QED
    BY <1>3, <1>6, <1>7 DEF IInv

LEMMA NextInv == IInv /\ [Next]_vars => IInv'
<1> SUFFICES ASSUME IInv, [Next]_vars PROVE IInv'
    OBVIOUS
<1>0. DataInv
    BY DEF IInv
<1>1. ASSUME NEW r \in Report, NEW c \in Claim, PostReport(r, c) \/ PatchReport(r, c)
      PROVE  IInv'
  <2>1. PICK status \in {"live", "invalid"} : Observe(r, status, c)
      BY <1>1 DEF PostReport, PatchReport
  <2> QED
      BY <2>1, ClaimIs, ObserveKeeps
<1>2. ASSUME NEW r \in Report, DeleteReport(r) \/ Invalidate(r) PROVE IInv'
    BY <1>2, WithdrawKeeps DEF DeleteReport, Invalidate
<1>3. ASSUME NEW r \in Report, Restore(r) PROVE IInv'
  <2>1. PICK c : c = [place |-> fragment[r].place, value |-> fragment[r].value]
      OBVIOUS
  <2>2. Observe(r, "live", c)
      BY <1>3, <2>1 DEF Restore
  <2> QED
      BY <1>0, <2>1, <2>2, RestoredClaimIs, ObserveKeeps
<1>4. CASE SetIncidentStatus
  <2>1. /\ now' \in 0..MaxOperations /\ now' >= now
        /\ incident' = [active |-> ~incident.active, interrupted |-> TRUE]
        /\ UNCHANGED <<fragment, blind, job, worker, faults>>
      BY <1>0, <1>4, BoundsAreNaturals DEF SetIncidentStatus, Tick, DataInv
  <2>2. Past'
      BY <1>0, <2>1, BoundsAreNaturals DEF DataInv, Past, Fragments, Fragment
  <2>3. DataInv'
      BY <1>0, <2>1, <2>2 DEF DataInv, GoodBlind, SpokenOf, Definite, Nothing, Nowhere
  <2>4. JobInv'
      BY <2>1, QueueStepsKeep
         DEF IInv, JobInv, JobsNotAhead, JobsAreCurrent, InHandClaimed, Queue!Absent, Queue!Idle,
             Queue!Unfinished, Queue!Pending
  <2>5. GapInv'
      BY <2>1 DEF GapInv
  <2> QED
      BY <2>3, <2>4, <2>5 DEF IInv
<1>5. CASE \E d \in Device, p \in Place, v \in Value \cup {"unknown"} : PutAnswer(d, p, v)
    BY <1>5, PutAnswerKeeps
<1>6. CASE \E at \in {"done", "error"} : Detect(at)
    BY <1>6, DetectKeeps
<1>7. CASE QueueStep
    BY <1>7, QueueStepKeeps
<1>8. CASE UNCHANGED vars
  <2>1. UNCHANGED <<fragment, blind, incident, now, job, worker, faults>>
      BY <1>8 DEF vars, data
  <2>2. DataInv'
      BY <1>0, <2>1 DEF DataInv, GoodBlind, Past, SpokenOf, Definite, Nothing, Nowhere
  <2>3. JobInv'
      BY <2>1, QueueStepsKeep
         DEF IInv, JobInv, JobsNotAhead, JobsAreCurrent, InHandClaimed, Queue!Absent, Queue!Idle,
             Queue!Unfinished, Queue!Pending
  <2>4. GapInv'
      BY <2>1
         DEF IInv, GapInv, GapsCovered, Covered, AwaitsDetection, Active, Unknown, IsOpen, Open,
             Queue!Unfinished, Queue!Pending
  <2> QED
      BY <2>2, <2>3, <2>4 DEF IInv
<1> QED
    BY <1>1, <1>2, <1>3, <1>4, <1>5, <1>6, <1>7, <1>8 DEF Next

LEMMA IInvariant == Spec => []IInv
<1> QED
    BY InitInv, NextInv, PTL DEF Spec

-----------------------------------------------------------------------------
(***************************************************************************)
(* Theorems                                                                *)
(***************************************************************************)
\* The fragments, the blind spots and the jobs keep their types, and a blind spot has a
\* resolution value just while it is resolved: what reopens one clears the value.
THEOREM TypesAreKept == Spec => []TypeOK
<1>1. IInv => TypeOK
    BY QueueTypes DEF IInv, DataInv, JobInv, TypeOK, Fragments, GoodBlind, GoodRow
<1> QED
    BY <1>1, IInvariant, PTL

\* process_report_observation and deactivate_report_observation cancel the jobs of the former
\* observations in the same transaction: no job is left to act for what a report said before.
THEOREM JobsStayCurrent == Spec => []JobsAreCurrent
<1>1. IInv => JobsAreCurrent
    BY DEF IInv, JobInv
<1> QED
    BY <1>1, IInvariant, PTL

\* Whatever is edited, withdrawn or answered between the claim, the handler and the end of a
\* detection job, and however often an execution is lost, the gap that a valid report has
\* pointed out is not forgotten.
THEOREM GapsAreSeen == Spec => []GapIsSeen
<1>1. IInv => GapIsSeen
  <2> SUFFICES ASSUME IInv, ~incident.interrupted, NEW r \in Report,
                      Active(fragment, r), Unknown(fragment, r)
               PROVE  AwaitsDetection(r) \/ Covered(r)
      BY DEF GapIsSeen, AwaitsDetection, Covered
  <2> QED
      BY DEF IInv, GapInv, GapsCovered
<1> QED
    BY <1>1, IInvariant, PTL

StaysJustified(p) ==
    /\ IsOpen(p) /\ Justified(p) /\ IsOpen(p)'
    /\ \A d \in Device : fragment'[<<d, p>>] = fragment[<<d, p>>]
    => Justified(p)'

LEMMA ChangeStaysJustified ==
    ASSUME NEW r \in Report, \A s \in Source \ {r} : fragment'[s] = fragment[s],
           NEW p \in Place, IsOpen(p) => OpenBecomes(fragment', r, p, blind'[p])
    PROVE  StaysJustified(p)
<1> SUFFICES ASSUME IsOpen(p), Justified(p), IsOpen(p)' PROVE Justified(p)'
    BY DEF StaysJustified
<1>1. OpenBecomes(fragment', r, p, blind'[p]) /\ blind'[p].status \in Open
    BY DEF IsOpen, Open
<1>2. CASE blind'[p] = blind[p] /\ (blind[p].origin = r => RestsOn(fragment', r, p))
  <2>1. CASE blind[p].origin = r
      BY <1>2, <2>1 DEF RestsOn, Justified, Active, Unknown, Indefinite
  <2>2. CASE blind[p].origin # r
      BY <1>2, <2>2 DEF Justified, Active, Unknown, Indefinite
  <2> QED
      BY <2>1, <2>2
<1>3. CASE RestsOn(fragment', blind'[p].origin, p)
    BY <1>3 DEF RestsOn, Justified, Active, Unknown, Indefinite
<1> QED
    BY <1>1, <1>2, <1>3 DEF OpenBecomes, Open

LEMMA NextStaysJustified ==
    ASSUME IInv, [Next]_vars, NEW p \in Place
    PROVE  StaysJustified(p)
<1>0. DataInv /\ JobInv
    BY DEF IInv
<1>1. ASSUME NEW r \in Report, NEW status \in {"live", "invalid"},
             NEW c \in Claims, c.value # Nothing => c.place \in Place, Observe(r, status, c)
      PROVE  StaysJustified(p)
  <2>1. \A s \in Source \ {r} : fragment'[s] = fragment[s]
      BY <1>0, <1>1, ObserveDoes
  <2>2. \A q \in Place : IsOpen(q) => OpenBecomes(fragment', r, q, blind'[q])
      BY <1>0, <1>1, ObserveBlindSpots
  <2> QED
      BY <2>1, <2>2, ChangeStaysJustified
<1>2. ASSUME NEW r \in Report, NEW status \in {"invalid", "deleted"}, Withdraw(r, status)
      PROVE  StaysJustified(p)
  <2>1. /\ \A s \in Source \ {r} : fragment'[s] = fragment[s]
        /\ \A q \in Place : IsOpen(q) => OpenBecomes(fragment', r, q, blind'[q])
      BY <1>0, <1>2, WithdrawDoes
  <2> QED
      BY <2>1, ChangeStaysJustified
<1>3. ASSUME NEW r \in Report, NEW c \in Claim, PostReport(r, c) \/ PatchReport(r, c)
      PROVE  StaysJustified(p)
  <2>1. PICK status \in {"live", "invalid"} : Observe(r, status, c)
      BY <1>3 DEF PostReport, PatchReport
  <2> QED
      BY <1>1, <2>1, ClaimIs
<1>4. ASSUME NEW r \in Report, DeleteReport(r) \/ Invalidate(r) PROVE StaysJustified(p)
    BY <1>2, <1>4 DEF DeleteReport, Invalidate
<1>5. ASSUME NEW r \in Report, Restore(r) PROVE StaysJustified(p)
  <2>1. PICK c : c = [place |-> fragment[r].place, value |-> fragment[r].value]
      OBVIOUS
  <2>2. Observe(r, "live", c)
      BY <1>5, <2>1 DEF Restore
  <2> QED
      BY <1>0, <1>1, <2>1, <2>2, RestoredClaimIs
<1>6. ASSUME UNCHANGED fragment, IsOpen(p) => blind'[p] = blind[p] PROVE StaysJustified(p)
    BY <1>6 DEF StaysJustified, Justified, Active, Unknown, Indefinite
<1>7. ASSUME NEW d \in Device, NEW q \in Place, NEW v \in Value \cup {"unknown"}, PutAnswer(d, q, v)
      PROVE  StaysJustified(p)
  <2>1. PICK s : s = <<d, q>>
      OBVIOUS
  <2>2. /\ fragment[s].revision \in Nat /\ fragment'[s].revision = fragment[s].revision + 1
        /\ \A t \in Source \ {s} : fragment'[t] = fragment[t]
        /\ \A x \in Place \ {q} : blind'[x] = blind[x]
      BY <1>0, <1>7, <2>1, PutAnswerDoes
  <2>3. CASE p = q
    <3>1. fragment'[<<d, p>>] # fragment[<<d, p>>]
        BY <2>1, <2>2, <2>3
    <3> QED
        BY <3>1 DEF StaysJustified
  <2>4. CASE p # q
    <3>1. blind'[p] = blind[p]
        BY <2>2, <2>4
    <3>2. Justified(p) => blind[p].origin \in Source \ {s}
      <4>1. fragment[s].place # p
          BY <1>0, <2>1, <2>4, SourcesAreApart DEF DataInv, SpokenOf
      <4> QED
          BY <4>1 DEF Justified
    <3> QED
        BY <2>2, <3>1, <3>2 DEF StaysJustified, Justified, Active, Unknown, Indefinite
  <2> QED
      BY <2>3, <2>4
<1>8. ASSUME NEW at \in {"done", "error"}, Detect(at) PROVE StaysJustified(p)
  <2>1. worker.job \in Job
      BY <1>0, <1>8, QueueTypes DEF JobInv, Detect, Queue!Handled
  <2>2. PICK r \in Report, n \in 1..MaxOperations : worker.job = <<r, n>>
      BY <2>1 DEF Job
  <2>3. \/ blind'[p] = blind[p]
        \/ /\ OpensFor(fragment, r, p, blind[p], blind'[p])
           /\ fragment[r].revision = n
      BY <1>0, <1>8, <2>1, <2>2, DetectDoes
  <2> QED
      BY <1>6, <1>8, <2>3 DEF Detect, OpensFor, IsOpen
<1>9. CASE SetIncidentStatus \/ QueueStep \/ UNCHANGED vars
    BY <1>6, <1>9 DEF SetIncidentStatus, QueueStep, vars, data
<1> QED
    BY <1>3, <1>4, <1>5, <1>7, <1>8, <1>9 DEF Next

\* _deactivate_automatic_blind_spots hands an open blind spot over to another unknown
\* observation, leaves it to the one it has, or resolves it: as long as nobody answers, none
\* is left open that rests on nothing.
THEOREM JustifiedStays == Spec => JustifiedStaysJustified
<1>1. ASSUME IInv, [Next]_vars PROVE [\A p \in Place : StaysJustified(p)]_vars
    BY <1>1, NextStaysJustified
<1>2. (\A p \in Place : StaysJustified(p)) <=>
         \A p \in Place :
          /\ IsOpen(p) /\ Justified(p) /\ IsOpen(p)'
          /\ \A d \in Device : fragment'[<<d, p>>] = fragment[<<d, p>>]
          => Justified(p)'
    BY DEF StaysJustified
<1> QED
    BY <1>1, <1>2, IInvariant, PTL DEF Spec, JustifiedStaysJustified

GraceKeptAt(p) ==
    ~IsOpen(p) /\ IsOpen(p)' /\ worker' # worker /\ worker.at = "loaded" =>
        LET r == blind'[p].origin IN
        job[<<r, fragment[r].revision>>].status \notin {"absent", "queued"}

LEMMA NextKeepsGrace ==
    ASSUME IInv, [Next]_vars, NEW p \in Place
    PROVE  GraceKeptAt(p)
<1> SUFFICES ASSUME ~IsOpen(p), IsOpen(p)', worker' # worker, worker.at = "loaded",
                    NEW s, s = blind'[p].origin
             PROVE  job[<<s, fragment[s].revision>>].status \notin {"absent", "queued"}
    BY DEF GraceKeptAt
<1>0. DataInv /\ JobInv
    BY DEF IInv
<1>1. worker # Queue!Idle /\ worker.job \in Job
    BY <1>0, QueueTypes DEF JobInv
<1>2. blind' # blind
    BY DEF IsOpen
<1>3. PICK at \in {"done", "error"} : Detect(at)
    BY <1>2 DEF Next, PostReport, PatchReport, DeleteReport, Invalidate, Restore, Observe, Withdraw,
                ScheduleDetection, Queue!Schedule, SetIncidentStatus, PutAnswer, QueueStep,
                vars, data
<1>4. PICK r \in Report, n \in 1..MaxOperations : worker.job = <<r, n>>
    BY <1>1 DEF Job
<1>5. \/ blind'[p] = blind[p]
      \/ /\ OpensFor(fragment, r, p, blind[p], blind'[p])
         /\ fragment[r].revision = n
    BY <1>0, <1>1, <1>3, <1>4, DetectDoes
<1>6. s = r /\ fragment[r].revision = n
    BY <1>5 DEF OpensFor, IsOpen
<1> QED
    BY <1>0, <1>1, <1>4, <1>6 DEF JobInv, InHandClaimed

\* The handler compares the revision of the job with the one of the fragment, and whatever
\* replaces an observation makes a job of its own: a blind spot that the worker opens rests on
\* an observation whose job the worker has claimed, after its grace period.
THEOREM GraceKept == Spec => GraceIsKept
<1>1. ASSUME IInv, [Next]_vars PROVE [\A p \in Place : GraceKeptAt(p)]_vars
    BY <1>1, NextKeepsGrace
<1>2. (\A p \in Place : GraceKeptAt(p)) <=>
         \A p \in Place :
          ~IsOpen(p) /\ IsOpen(p)' /\ worker' # worker /\ worker.at = "loaded" =>
              LET r == blind'[p].origin IN
              job[<<r, fragment[r].revision>>].status \notin {"absent", "queued"}
    BY DEF GraceKeptAt
<1> QED
    BY <1>1, <1>2, IInvariant, PTL DEF Spec, GraceIsKept

LEMMA NextIsQueueStep ==
    ASSUME IInv, [Next]_vars
    PROVE  QueueProofs!Next \/ UNCHANGED <<job, worker, faults>>
<1>0. DataInv /\ JobInv
    BY DEF IInv
<1>1. ASSUME NEW r \in Report, NEW status \in {"live", "invalid"},
             NEW c \in Claims, c.value # Nothing => c.place \in Place, Observe(r, status, c)
      PROVE  QueueProofs!Next
  <2>1. fragment'[r].revision = fragment[r].revision + 1 /\ fragment[r].revision \in Nat
        /\ fragment' \in Fragments /\ r \in Source
      BY <1>0, <1>1, ObserveDoes, SourcesAre
  <2>2. fragment'[r].revision \in 1..MaxOperations
      BY <2>1, BoundsAreNaturals DEF Fragments, Fragment
  <2>3. PICK j \in Job : j = <<r, fragment'[r].revision>>
      BY <2>2 DEF Job
  <2>4. PICK cancel \in SUBSET Job :
           cancel = OwnJobs(r) \ (IF Unknown(fragment', r) THEN {j} ELSE {})
      BY DEF OwnJobs, Job
  <2>5. PICK add \in SUBSET Job : add = IF fragment'[r].value = "unknown" THEN {j} ELSE {}
      OBVIOUS
  <2>6. Queue!Schedule(cancel, add)
      BY <1>1, <2>3, <2>4, <2>5 DEF Observe, ScheduleDetection
  <2> QED
      BY <2>6, ScheduleIsQueueStep
<1>2. ASSUME NEW r \in Report, NEW status \in {"invalid", "deleted"}, Withdraw(r, status)
      PROVE  QueueProofs!Next
  <2>1. PICK cancel, add \in SUBSET Job : Queue!Schedule(cancel, add)
      BY <1>2 DEF Withdraw, OwnJobs, Job
  <2> QED
      BY <2>1, ScheduleIsQueueStep
<1>3. ASSUME NEW r \in Report, NEW c \in Claim, PostReport(r, c) \/ PatchReport(r, c)
      PROVE  QueueProofs!Next
  <2>1. PICK status \in {"live", "invalid"} : Observe(r, status, c)
      BY <1>3 DEF PostReport, PatchReport
  <2> QED
      BY <1>1, <2>1, ClaimIs
<1>4. ASSUME NEW r \in Report, DeleteReport(r) \/ Invalidate(r) PROVE QueueProofs!Next
    BY <1>2, <1>4 DEF DeleteReport, Invalidate
<1>5. ASSUME NEW r \in Report, Restore(r) PROVE QueueProofs!Next
  <2>1. PICK c : c = [place |-> fragment[r].place, value |-> fragment[r].value]
      OBVIOUS
  <2>2. Observe(r, "live", c)
      BY <1>5, <2>1 DEF Restore
  <2> QED
      BY <1>0, <1>1, <2>1, <2>2, RestoredClaimIs
<1>6. CASE QueueStep \/ \E at \in {"done", "error"} : Detect(at)
    BY <1>6, WorkerIsQueueStep
<1>7. CASE SetIncidentStatus \/ UNCHANGED vars
    BY <1>7 DEF SetIncidentStatus, vars
<1>8. ASSUME NEW d \in Device, NEW p \in Place, NEW v \in Value \cup {"unknown"},
             PutAnswer(d, p, v)
      PROVE  UNCHANGED <<job, worker, faults>>
    BY <1>8 DEF PutAnswer
<1> QED
    BY <1>3, <1>4, <1>5, <1>6, <1>7, <1>8 DEF Next

\* What reports and the handler of detection jobs do to the rows of background_jobs is what
\* the queue allows the application and its handlers to do.
THEOREM DetectionUsesTheQueue == Spec => QueueProofs!Spec
<1>1. Init => QueueProofs!Init
    BY InitIsQueueInit
<1>2. IInv /\ [Next]_vars => [QueueProofs!Next]_(QueueProofs!vars)
    BY NextIsQueueStep DEF QueueProofs!vars
<1> QED
    BY <1>1, <1>2, IInvariant, PTL DEF Spec, QueueProofs!Spec

\* So a detection job that an edit has canceled under the worker is not brought back when the
\* handler returns or raises.
THEOREM CanceledDetectionsStay == Spec => QueueProofs!FinishedStaysFinished
<1>1. QueueProofs!Spec => QueueProofs!FinishedStaysFinished
    BY QueueProofs!FinishedStays, BoundsAreNaturals
<1> QED
    BY <1>1, DetectionUsesTheQueue, PTL
=============================================================================
