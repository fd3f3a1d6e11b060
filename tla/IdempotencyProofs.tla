------------------------- MODULE IdempotencyProofs -------------------------
(***************************************************************************)
(* Theorems about Idempotency, for every value of its constants.           *)
(***************************************************************************)
EXTENDS Idempotency, TLAPS

Held(c) == call[c].at \in {"handling", "committed", "releasing"}

\* UNIQUE(actor_key, route, idempotency_key).
OneRecordPerKey == \A r, s \in records : r.key = s.key => r = s

\* A call in flight has its reservation, without a response, in the current window.
ReservationInHand ==
    \A c \in Call : Held(c) =>
        /\ call[c].key \in Key
        /\ Reservation(call[c].key, call[c].request_hash) \in records
        /\ call[c].window = windows[call[c].key]

Exclusive == \A c, d \in Call : Held(c) /\ Held(d) /\ c # d => call[c].key # call[d].key

\* Effect n answers requests with key k and body b of window w.
Answers(n, k, b, w) ==
    /\ n \in DOMAIN effects \ aborted
    /\ effects[n].key = k /\ effects[n].request_hash = b /\ effects[n].window = w

\* The effect of a committed call is its own, and nobody has been answered with it yet.
CommittedOwn ==
    \A c \in Call : call[c].at = "committed" =>
        /\ Answers(call[c].effect, call[c].key, call[c].request_hash, call[c].window)
        /\ \A d \in Call : call[d].at = "answered" => call[d].effect # call[c].effect

\* A stored response is the effect of its own request.
Recorded ==
    \A r \in records : r.response # NoResponse =>
        \E w \in 0..windows[r.key] :
            /\ Answers(r.response, r.key, r.request_hash, w)
            /\ ~r.expired => w = windows[r.key]

Answered ==
    \A c \in Call : call[c].at = "answered" /\ call[c].effect # NoResponse =>
        Answers(call[c].effect, call[c].key, call[c].request_hash, call[c].window)

\* While a call is in flight, the only effect its key may have is the call's own.
OwnEffectOnly ==
    \A n \in DOMAIN effects \ aborted : Current(n) =>
        \A c \in Call : Held(c) /\ call[c].key = effects[n].key =>
            call[c].at = "committed" /\ call[c].effect = n

WindowsPassed == \A n \in DOMAIN effects : effects[n].window <= windows[effects[n].key]

ReportHasResponse == \A r \in records : r.key \in ReportKey => r.response # NoResponse

IInv ==
    /\ TypeOK
    /\ OneRecordPerKey
    /\ ReservationInHand
    /\ Exclusive
    /\ CommittedOwn
    /\ Recorded
    /\ Answered
    /\ OwnEffectOnly
    /\ WindowsPassed
    /\ ReportHasResponse
    /\ EffectIsRemembered

-----------------------------------------------------------------------------
(***************************************************************************)
(* Steps that change nothing but one call                                  *)
(***************************************************************************)
\* A call that ends, in whatever way, gives up its claim on the reservation; if it is
\* answered with an effect, that must be its own and no committed call's.
LEMMA CallEnds ==
    ASSUME IInv, NEW c \in Call, NEW x \in CallState \cup {Idle},
           x.at \in {"idle", "answered"},
           call' = [call EXCEPT ![c] = x],
           UNCHANGED <<records, effects, aborted, windows>>,
           x.at = "answered" /\ x.effect # NoResponse =>
               /\ Answers(x.effect, x.key, x.request_hash, x.window)
               /\ \A d \in Call \ {c} : call[d].at = "committed" => call[d].effect # x.effect
    PROVE  IInv'
<1>1. call'[c] = x /\ \A d \in Call \ {c} : call'[d] = call[d]
    BY DEF IInv, TypeOK
<1>2. TypeOK'
    BY DEF IInv, TypeOK
<1>3. \A d \in Call : Held(d)' => d # c /\ Held(d) /\ call'[d] = call[d]
    BY <1>1 DEF Held
<1>4. OneRecordPerKey' /\ Recorded' /\ WindowsPassed' /\ ReportHasResponse'
      /\ EffectIsRemembered'
    BY DEF IInv, OneRecordPerKey, Recorded, WindowsPassed, ReportHasResponse, Answers,
           EffectIsRemembered, Current, Valid, Rows
<1>5. ReservationInHand' /\ Exclusive'
    BY <1>3 DEF IInv, ReservationInHand, Exclusive
<1>6. OwnEffectOnly'
    BY <1>3 DEF IInv, OwnEffectOnly, Current
<1>7. Answered'
    BY <1>1 DEF IInv, Answered, Answers
<1>8. CommittedOwn'
  <2> SUFFICES ASSUME NEW d \in Call, call'[d].at = "committed"
               PROVE  /\ Answers(call[d].effect, call[d].key, call[d].request_hash,
                                 call[d].window)
                      /\ \A e \in Call : call'[e].at = "answered" => call'[e].effect # call[d].effect
                      /\ call'[d] = call[d]
      BY DEF CommittedOwn, Answers
  <2>1. d # c /\ call'[d] = call[d] /\ call[d].at = "committed"
      BY <1>1
  <2>2. Answers(call[d].effect, call[d].key, call[d].request_hash, call[d].window)
      BY <2>1 DEF IInv, CommittedOwn
  <2>3. call[d].effect # NoResponse
      BY <2>2 DEF Answers, IInv, TypeOK, NoResponse
  <2>4. ASSUME NEW e \in Call, call'[e].at = "answered"
        PROVE  call'[e].effect # call[d].effect
    <3>1. CASE e = c
        BY <3>1, <1>1, <2>1, <2>3, <2>4
    <3>2. CASE e # c
        BY <3>2, <1>1, <2>1, <2>4 DEF IInv, CommittedOwn
    <3> QED
        BY <3>1, <3>2
  <2> QED
      BY <2>1, <2>2, <2>4
<1> QED
    BY <1>2, <1>4, <1>5, <1>6, <1>7, <1>8 DEF IInv

-----------------------------------------------------------------------------
(***************************************************************************)
(* The other steps                                                         *)
(***************************************************************************)
\* The table is empty, and nobody calls.
LEMMA InitInv == Init => IInv
<1> SUFFICES ASSUME Init PROVE IInv
    OBVIOUS
<1>1. effects = <<>> /\ DOMAIN effects = {} /\ records = {} /\ aborted = {}
    BY DEF Init
<1>2. \A c \in Call : call[c].at = "idle"
    BY DEF Init, Idle
<1>3. TypeOK
    BY <1>1, BoundsAreNaturals DEF Init, TypeOK
<1> QED
    BY <1>1, <1>2, <1>3
       DEF IInv, OneRecordPerKey, ReservationInHand, Exclusive, CommittedOwn, Recorded,
           Answered, OwnEffectOnly, WindowsPassed, ReportHasResponse, EffectIsRemembered, Held

\* _reserve_or_replay takes a key that has no valid record: nobody is handling it.
LEMMA ReserveInv ==
    ASSUME IInv, NEW c \in Call, NEW k \in Key, NEW b \in Body, Reserve(c, k, b)
    PROVE  IInv'
<1> DEFINE r0 == Reservation(k, b)
<1>1. /\ call[c].at = "idle"
      /\ call'[c] = Handling(k, b)
      /\ \A d \in Call \ {c} : call'[d] = call[d]
    BY DEF Reserve, IInv, TypeOK, Idle
<1>2. Handling(k, b) \in CallState /\ r0 \in IdempotencyRecord
    BY DEF IInv, TypeOK, Handling, Under, CallState, Reservation, IdempotencyRecord, AnyKey,
           Error, NoResponse
<1>3. Handling(k, b).at = "handling" /\ Handling(k, b).key = k
      /\ Handling(k, b).request_hash = b /\ Handling(k, b).window = windows[k]
    BY DEF Handling, Under
<1>4. r0.key = k /\ r0.request_hash = b /\ r0.response = NoResponse /\ r0.expired = FALSE
    BY DEF Reservation
<1>5. /\ r0 \in records'
      /\ \A r \in records' : r = r0 \/ (r \in records /\ r.key # k)
      /\ \A r \in records : r.key # k => r \in records'
      /\ UNCHANGED <<effects, aborted, windows>>
    BY DEF Reserve, Rows
<1>6. TypeOK'
    BY <1>2, <1>5 DEF IInv, TypeOK, Reserve
<1>7. \A d \in Call : Held(d) => call[d].key # k
  <2> SUFFICES ASSUME NEW d \in Call, Held(d), call[d].key = k
               PROVE  FALSE
      OBVIOUS
  <2>1. Reservation(k, call[d].request_hash) \in records
      BY DEF IInv, ReservationInHand
  <2>2. Reservation(k, call[d].request_hash) \in Valid(k)
      BY <2>1 DEF Reservation, Valid, Rows
  <2> QED
      BY <2>2 DEF Reserve
<1>8. \A n \in DOMAIN effects \ aborted : Current(n) => effects[n].key # k
    BY DEF IInv, EffectIsRemembered, Reserve
<1>9. OneRecordPerKey' /\ ReportHasResponse'
    BY <1>4, <1>5, KeysAreDisjoint DEF IInv, OneRecordPerKey, ReportHasResponse
<1>10. ReservationInHand'
    BY <1>1, <1>3, <1>5, <1>7, ZenonT(40) DEF IInv, ReservationInHand, Held, Reservation
<1>11. Exclusive'
    BY <1>1, <1>3, <1>7 DEF IInv, Exclusive, Held
<1>12. CommittedOwn' /\ Answered'
    BY <1>1, <1>3, <1>5 DEF IInv, CommittedOwn, Answered, Answers
<1>13. Recorded'
    BY <1>4, <1>5 DEF IInv, Recorded, Answers
<1>14. OwnEffectOnly'
    BY <1>1, <1>3, <1>5, <1>8 DEF IInv, OwnEffectOnly, Current, Held
<1>15. WindowsPassed'
    BY <1>5 DEF IInv, WindowsPassed
<1>16. EffectIsRemembered'
    BY <1>5, <1>8 DEF IInv, EffectIsRemembered, Current, Valid, Rows
<1> QED
    BY <1>6, <1>9, <1>10, <1>11, <1>12, <1>13, <1>14, <1>15, <1>16 DEF IInv

\* The handler fails before it has committed: the call keeps its reservation for now.
LEMMA RejectInv ==
    ASSUME IInv, NEW c \in Call, Reject(c)
    PROVE  IInv'
<1>1. /\ call[c].at = "handling"
      /\ call[c] \in CallState
      /\ call'[c] = [call[c] EXCEPT !.at = "releasing"]
      /\ \A d \in Call \ {c} : call'[d] = call[d]
      /\ UNCHANGED <<records, effects, aborted, windows>>
    BY DEF Reject, IInv, TypeOK, Idle
<1>2. /\ call'[c].at = "releasing"
      /\ call'[c].key = call[c].key
      /\ call'[c].request_hash = call[c].request_hash
      /\ call'[c].window = call[c].window
      /\ call'[c] \in CallState
    BY <1>1 DEF CallState
<1>3. TypeOK'
    BY <1>1, <1>2 DEF IInv, TypeOK, Reject
<1>4. \A d \in Call : (Held(d)' <=> Held(d)) /\ call'[d].key = call[d].key
                       /\ call'[d].request_hash = call[d].request_hash
                       /\ call'[d].window = call[d].window
    BY <1>1, <1>2 DEF Held
<1>5. OneRecordPerKey' /\ ReportHasResponse' /\ Recorded' /\ WindowsPassed'
      /\ EffectIsRemembered'
    BY <1>1 DEF IInv, OneRecordPerKey, ReportHasResponse, Recorded, Answers, WindowsPassed,
                EffectIsRemembered, Current, Valid, Rows
<1>6. ReservationInHand' /\ Exclusive'
    BY <1>1, <1>4 DEF IInv, ReservationInHand, Exclusive
<1>7. \A d \in Call : call'[d].at \in {"committed", "answered"} => call'[d] = call[d]
    BY <1>1, <1>2
<1>8. CommittedOwn'
    BY <1>1, <1>7 DEF IInv, CommittedOwn, Answers
<1>9. Answered'
    BY <1>1, <1>7 DEF IInv, Answered, Answers
<1>10. OwnEffectOnly'
    BY <1>1, <1>2, <1>4 DEF IInv, OwnEffectOnly, Current, Held
<1> QED
    BY <1>3, <1>5, <1>6, <1>8, <1>9, <1>10 DEF IInv

\* The call is given up after its commit: its effect no longer counts as remembered.
LEMMA AbortInv ==
    ASSUME IInv, NEW c \in Call, Abort(c)
    PROVE  IInv'
<1> DEFINE m == call[c].effect
<1>1. /\ call[c].at = "committed"
      /\ call[c] \in CallState
      /\ call'[c] = [call[c] EXCEPT !.at = "releasing"]
      /\ \A d \in Call \ {c} : call'[d] = call[d]
      /\ aborted' = aborted \cup {m}
      /\ UNCHANGED <<records, effects, windows>>
    BY DEF Abort, IInv, TypeOK, Idle
<1>2. /\ call'[c].at = "releasing"
      /\ call'[c].key = call[c].key
      /\ call'[c].request_hash = call[c].request_hash
      /\ call'[c].window = call[c].window
      /\ call'[c] \in CallState
    BY <1>1 DEF CallState
<1>3. /\ m \in DOMAIN effects \ aborted
      /\ effects[m].key = call[c].key
    BY <1>1 DEF IInv, CommittedOwn, Answers
<1>4. TypeOK'
    BY <1>1, <1>2, <1>3 DEF IInv, TypeOK, Abort
<1>5. \A d \in Call : (Held(d)' <=> Held(d)) /\ call'[d].key = call[d].key
                       /\ call'[d].request_hash = call[d].request_hash
                       /\ call'[d].window = call[d].window
    BY <1>1, <1>2 DEF Held
<1>6. \A r \in records : r.response # m
  <2> SUFFICES ASSUME NEW r \in records, r.response = m
               PROVE  FALSE
      OBVIOUS
  <2>1. m # NoResponse
      BY <1>3 DEF IInv, TypeOK, NoResponse
  <2>2. r.key = call[c].key
      BY <1>3, <2>1 DEF IInv, Recorded, Answers
  <2>3. Reservation(call[c].key, call[c].request_hash) \in records
      BY <1>1 DEF IInv, ReservationInHand, Held
  <2>4. r = Reservation(call[c].key, call[c].request_hash)
      BY <2>2, <2>3 DEF IInv, OneRecordPerKey, Reservation
  <2> QED
      BY <2>1, <2>4 DEF Reservation
<1>7. \A d \in Call : call'[d].at \in {"committed", "answered"} => call'[d] = call[d]
    BY <1>1, <1>2
<1>8. \A d \in Call : call'[d].at = "answered" => call'[d].effect # m
    BY <1>1, <1>7 DEF IInv, CommittedOwn
<1>9. \A d \in Call : call'[d].at = "committed" => call'[d].effect # m
  <2> SUFFICES ASSUME NEW d \in Call, call'[d].at = "committed", call'[d].effect = m
               PROVE  FALSE
      OBVIOUS
  <2>1. d # c /\ call[d].at = "committed" /\ call[d].effect = m
      BY <1>1, <1>2
  <2>2. call[d].key = call[c].key
      BY <1>3, <2>1 DEF IInv, CommittedOwn, Answers
  <2> QED
      BY <1>1, <2>1, <2>2 DEF IInv, Exclusive, Held
<1>10. OneRecordPerKey' /\ ReportHasResponse' /\ WindowsPassed'
    BY <1>1 DEF IInv, OneRecordPerKey, ReportHasResponse, WindowsPassed
<1>11. EffectIsRemembered'
    BY <1>1 DEF IInv, EffectIsRemembered, Current, Valid, Rows
<1>12. Recorded'
    BY <1>1, <1>6 DEF IInv, Recorded, Answers
<1>13. ReservationInHand' /\ Exclusive'
    BY <1>1, <1>5 DEF IInv, ReservationInHand, Exclusive
<1>14. CommittedOwn'
    BY <1>1, <1>7, <1>9 DEF IInv, CommittedOwn, Answers
<1>15. Answered'
    BY <1>1, <1>7, <1>8 DEF IInv, Answered, Answers
<1>16. OwnEffectOnly'
    BY <1>1, <1>2, <1>5 DEF IInv, OwnEffectOnly, Current, Held
<1> QED
    BY <1>4, <1>10, <1>11, <1>12, <1>13, <1>14, <1>15, <1>16 DEF IInv

\* What appending one effect does to the history.
LEMMA Appended ==
    ASSUME TypeOK, NEW e \in Effect, Len(effects) < MaxEffects, effects' = Append(effects, e)
    PROVE  /\ Len(effects) + 1 \in Response
           /\ Len(effects) + 1 \notin DOMAIN effects
           /\ Len(effects) + 1 \notin aborted
           /\ Len(effects) + 1 # NoResponse
           /\ DOMAIN effects' = DOMAIN effects \cup {Len(effects) + 1}
           /\ effects'[Len(effects) + 1] = e
           /\ \A n \in DOMAIN effects : effects'[n] = effects[n]
           /\ effects' \in Seq(Effect) /\ Len(effects') <= MaxEffects
<1>1. Len(effects) \in Nat /\ DOMAIN effects = 1..Len(effects) /\ aborted \subseteq DOMAIN effects
    BY DEF TypeOK
<1>2. /\ effects' \in Seq(Effect) /\ Len(effects') = Len(effects) + 1
      /\ effects'[Len(effects) + 1] = e
      /\ \A n \in DOMAIN effects : effects'[n] = effects[n]
    BY <1>1 DEF TypeOK
<1>3. DOMAIN effects' = 1..(Len(effects) + 1)
    BY <1>2
<1> QED
    BY <1>1, <1>2, <1>3, BoundsAreNaturals DEF Response, NoResponse

\* The commit appends the call's own effect; its reservation is the only trace of it.
LEMMA CommitEffectInv ==
    ASSUME IInv, NEW c \in Call, CommitEffect(c)
    PROVE  IInv'
<1> DEFINE m == Len(effects) + 1
           k == call[c].key
           b == call[c].request_hash
<1>1. /\ call[c].at = "handling"
      /\ call[c] \in CallState
      /\ call'[c] = [call[c] EXCEPT !.at = "committed", !.effect = m]
      /\ \A d \in Call \ {c} : call'[d] = call[d]
      /\ effects' = Append(effects, EffectOf(k, b))
      /\ UNCHANGED <<records, aborted, windows>>
    BY DEF CommitEffect, IInv, TypeOK, Idle
<1>2. EffectOf(k, b) \in Effect
    BY <1>1 DEF EffectOf, Effect, CallState, IInv, TypeOK
<1>3. /\ m \in Response /\ m \notin DOMAIN effects /\ m \notin aborted /\ m # NoResponse
      /\ DOMAIN effects' = DOMAIN effects \cup {m}
      /\ effects'[m] = EffectOf(k, b)
      /\ \A n \in DOMAIN effects : effects'[n] = effects[n]
      /\ effects' \in Seq(Effect) /\ Len(effects') <= MaxEffects
    BY <1>1, <1>2, Appended DEF IInv, CommitEffect
<1>4. effects'[m].key = k /\ effects'[m].request_hash = b /\ effects'[m].window = windows[k]
    BY <1>3 DEF EffectOf
<1>5. /\ call'[c].at = "committed" /\ call'[c].effect = m
      /\ call'[c].key = k /\ call'[c].request_hash = b
      /\ call'[c].window = call[c].window
      /\ call'[c] \in CallState
    BY <1>1, <1>3 DEF CallState
<1>6. /\ Reservation(k, b) \in records
      /\ call[c].window = windows[k]
    BY <1>1 DEF IInv, ReservationInHand, Held
<1>7. TypeOK'
    BY <1>1, <1>3, <1>5 DEF IInv, TypeOK, CommitEffect
<1>8. \A d \in Call : (Held(d)' <=> Held(d)) /\ call'[d].key = call[d].key
                       /\ call'[d].request_hash = call[d].request_hash
                       /\ call'[d].window = call[d].window
    BY <1>1, <1>5 DEF Held
<1>9. OneRecordPerKey' /\ ReportHasResponse'
    BY <1>1 DEF IInv, OneRecordPerKey, ReportHasResponse
<1>10. ReservationInHand' /\ Exclusive'
    BY <1>1, <1>8 DEF IInv, ReservationInHand, Exclusive
<1>11. \A n, x, y, w : Answers(n, x, y, w) => Answers(n, x, y, w)'
    BY <1>1, <1>3 DEF Answers
<1>12. \A n, x, y, w : n = m /\ x = k /\ y = b /\ w = windows[k] => Answers(n, x, y, w)'
    BY <1>1, <1>3, <1>4 DEF Answers
<1>13. \A d \in Call : call'[d].at = "answered" => d # c /\ call'[d] = call[d] /\ call[d].effect # m
    BY <1>1, <1>3, <1>5 DEF IInv, Answered, Answers
<1>14. Answered'
    BY <1>11, <1>13 DEF IInv, Answered
<1>15. Recorded'
    BY <1>1, <1>11 DEF IInv, Recorded
<1>16. CommittedOwn'
  <2> SUFFICES ASSUME NEW d \in Call, call'[d].at = "committed"
               PROVE  /\ Answers(call[d].effect, call[d].key, call[d].request_hash,
                                 call[d].window)'
                      /\ \A e \in Call : call'[e].at = "answered" => call'[e].effect # call'[d].effect
      BY DEF CommittedOwn
  <2>1. CASE d = c
      BY <2>1, <1>5, <1>6, <1>12, <1>13
  <2>2. CASE d # c
    <3>1. call'[d] = call[d] /\ call[d].at = "committed"
        BY <2>2, <1>1
    <3>2. Answers(call[d].effect, call[d].key, call[d].request_hash, call[d].window)
          /\ \A e \in Call : call[e].at = "answered" => call[e].effect # call[d].effect
        BY <3>1 DEF IInv, CommittedOwn
    <3> QED
        BY <3>1, <3>2, <1>11, <1>13
  <2> QED
      BY <2>1, <2>2
<1>17. OwnEffectOnly'
  <2> SUFFICES ASSUME NEW n \in DOMAIN effects' \ aborted', Current(n)',
                      NEW d \in Call, Held(d), call[d].key = effects'[n].key
               PROVE  call'[d].at = "committed" /\ call'[d].effect = n
      BY <1>8 DEF OwnEffectOnly
  <2>1. CASE n = m
    <3>1. d = c
        BY <2>1, <1>1, <1>4 DEF IInv, Exclusive, Held
    <3> QED
        BY <3>1, <2>1, <1>5
  <2>2. CASE n # m
    <3>1. n \in DOMAIN effects \ aborted /\ Current(n) /\ call[d].key = effects[n].key
        BY <2>2, <1>1, <1>3 DEF Current
    <3>2. call[d].at = "committed" /\ call[d].effect = n
        BY <3>1 DEF IInv, OwnEffectOnly
    <3> QED
        BY <3>2, <1>1
  <2> QED
      BY <2>1, <2>2
<1>18. WindowsPassed'
  <2> SUFFICES ASSUME NEW n \in DOMAIN effects'
               PROVE  effects'[n].window <= windows[effects'[n].key]
      BY <1>1 DEF WindowsPassed
  <2>1. CASE n = m
      BY <2>1, <1>1, <1>4 DEF IInv, TypeOK, CallState
  <2>2. CASE n # m
      BY <2>2, <1>3 DEF IInv, WindowsPassed
  <2> QED
      BY <2>1, <2>2
<1>19. EffectIsRemembered'
  <2> SUFFICES ASSUME NEW n \in DOMAIN effects' \ aborted', Current(n)'
               PROVE  \E r \in Valid(effects'[n].key) :
                          r.request_hash = effects'[n].request_hash /\ r.response \in {NoResponse, n}
      BY <1>1 DEF EffectIsRemembered, Valid, Rows
  <2>1. CASE n = m
      BY <2>1, <1>4, <1>6 DEF Reservation, Valid, Rows
  <2>2. CASE n # m
    <3>1. n \in DOMAIN effects \ aborted /\ Current(n)
        BY <2>2, <1>1, <1>3 DEF Current
    <3> QED
        BY <3>1, <1>3 DEF IInv, EffectIsRemembered
  <2> QED
      BY <2>1, <2>2
<1> QED
    BY <1>7, <1>9, <1>10, <1>14, <1>15, <1>16, <1>17, <1>18, <1>19 DEF IInv

\* _release_reservation deletes the call's own reservation and nothing else.
LEMMA ReleaseInv ==
    ASSUME IInv, NEW c \in Call, Release(c)
    PROVE  IInv'
<1> DEFINE k == call[c].key
           b == call[c].request_hash
<1>1. /\ call[c].at = "releasing"
      /\ call[c] \in CallState
      /\ call'[c] = Refuse(k, b, "failed")
      /\ \A d \in Call \ {c} : call'[d] = call[d]
      /\ records' = {r \in records : r.key = k => r.response # NoResponse}
      /\ UNCHANGED <<effects, aborted, windows>>
    BY DEF Release, IInv, TypeOK, Idle
<1>2. /\ call'[c].at = "answered" /\ call'[c].effect = NoResponse
      /\ call'[c] \in CallState
    BY <1>1 DEF CallState, Refuse, Under, Error, IInv, TypeOK
<1>3. Reservation(k, b) \in records /\ Reservation(k, b).key = k
      /\ Reservation(k, b).response = NoResponse
    BY <1>1 DEF IInv, ReservationInHand, Held, Reservation
<1>4. records' = {r \in records : r.key # k}
    BY <1>1, <1>3 DEF IInv, OneRecordPerKey
<1>5. TypeOK'
    BY <1>1, <1>2 DEF IInv, TypeOK, Release
<1>6. \A d \in Call : Held(d)' => d # c /\ Held(d) /\ call'[d] = call[d] /\ call[d].key # k
    BY <1>1, <1>2 DEF IInv, Exclusive, Held
<1>7. OneRecordPerKey' /\ ReportHasResponse' /\ Recorded' /\ WindowsPassed'
    BY <1>1, <1>4 DEF IInv, OneRecordPerKey, ReportHasResponse, Recorded, Answers, WindowsPassed
<1>8. ReservationInHand'
    BY <1>1, <1>4, <1>6 DEF IInv, ReservationInHand, Reservation
<1>9. Exclusive'
    BY <1>6 DEF IInv, Exclusive
<1>10. \A d \in Call : call'[d].at \in {"committed", "answered"} =>
           \/ call'[d] = call[d]
           \/ call'[d].at = "answered" /\ call'[d].effect = NoResponse
    BY <1>1, <1>2
<1>11. Answered'
    BY <1>1, <1>10 DEF IInv, Answered, Answers
<1>12. \A n, x, y, w : Answers(n, x, y, w) => Answers(n, x, y, w)' /\ n # NoResponse
    BY <1>1 DEF Answers, IInv, TypeOK, NoResponse
<1>13. CommittedOwn'
    BY <1>10, <1>12 DEF IInv, CommittedOwn
<1>14. OwnEffectOnly'
    BY <1>1, <1>6 DEF IInv, OwnEffectOnly, Current
<1>15. EffectIsRemembered'
  <2> SUFFICES ASSUME NEW n \in DOMAIN effects \ aborted, Current(n)
               PROVE  \E r \in records' :
                          /\ r.key = effects[n].key /\ ~r.expired
                          /\ r.request_hash = effects[n].request_hash
                          /\ r.response \in {NoResponse, n}
      BY <1>1 DEF EffectIsRemembered, Current, Valid, Rows
  <2>1. effects[n].key # k
      BY <1>1 DEF IInv, OwnEffectOnly, Held
  <2> QED
      BY <2>1, <1>4 DEF IInv, EffectIsRemembered, Valid, Rows
<1> QED
    BY <1>5, <1>7, <1>8, <1>9, <1>11, <1>13, <1>14, <1>15 DEF IInv

\* The response goes into the call's own reservation, which then answers for its effect.
LEMMA FinishReservationInv ==
    ASSUME IInv, NEW c \in Call, FinishReservation(c)
    PROVE  IInv'
<1> DEFINE k == call[c].key
           b == call[c].request_hash
           m == call[c].effect
           old == Reservation(k, b)
           new == [old EXCEPT !.response = m]
<1>1. /\ call[c].at = "committed"
      /\ call[c] \in CallState
      /\ call'[c] = Answer(k, b, m)
      /\ \A d \in Call \ {c} : call'[d] = call[d]
      /\ records' = {IF r.key = k THEN [r EXCEPT !.response = m] ELSE r : r \in records}
      /\ UNCHANGED <<effects, aborted, windows>>
    BY DEF FinishReservation, IInv, TypeOK, Idle
<1>2. /\ k \in Key /\ old \in records /\ call[c].window = windows[k]
    BY <1>1 DEF IInv, ReservationInHand, Held
<1>3. /\ Answers(m, k, b, windows[k])
      /\ \A d \in Call : call[d].at = "answered" => call[d].effect # m
    BY <1>1, <1>2 DEF IInv, CommittedOwn
<1>4. m \in Response /\ m # NoResponse /\ windows[k] \in Nat
    BY <1>1, <1>3 DEF Answers, IInv, TypeOK, NoResponse, Response, CallState
<1>5. /\ call'[c].at = "answered" /\ call'[c].effect = m /\ call'[c].key = k
      /\ call'[c].request_hash = b /\ call'[c].window = windows[k]
      /\ call'[c] \in CallState
    BY <1>1, <1>4 DEF CallState, Answer, Under, Error, IInv, TypeOK
<1>6. /\ new.key = k /\ new.request_hash = b /\ new.response = m /\ new.expired = FALSE
      /\ new \in IdempotencyRecord
    BY <1>2, <1>4 DEF Reservation, IdempotencyRecord, IInv, TypeOK
<1>7. \A r \in records : r.key = k => r = old
    BY <1>2 DEF IInv, OneRecordPerKey, Reservation
<1>8. records' = {r \in records : r.key # k} \cup {new}
  <2>1. \A r \in records' : r = new \/ (r \in records /\ r.key # k)
      BY <1>1, <1>7
  <2>2. new \in records'
    <3> HIDE DEF old
    <3>1. old.key = k
        BY DEF old, Reservation
    <3> QED
        BY <3>1, <1>1, <1>2
  <2>3. \A r \in records : r.key # k => r \in records'
      BY <1>1
  <2> QED
      BY <2>1, <2>2, <2>3
<1>9. TypeOK'
    BY <1>1, <1>5, <1>6, <1>8 DEF IInv, TypeOK, FinishReservation
<1>10. \A d \in Call : Held(d)' => d # c /\ Held(d) /\ call'[d] = call[d] /\ call[d].key # k
    BY <1>1, <1>5 DEF IInv, Exclusive, Held
<1>11. OneRecordPerKey' /\ ReportHasResponse' /\ WindowsPassed'
    BY <1>1, <1>4, <1>6, <1>8 DEF IInv, OneRecordPerKey, ReportHasResponse, WindowsPassed
<1>12. \A n, x, y, w : Answers(n, x, y, w) => Answers(n, x, y, w)'
    BY <1>1 DEF Answers
<1>13. Recorded'
  <2> SUFFICES ASSUME NEW r \in records', r.response # NoResponse
               PROVE  \E w \in 0..windows[r.key] :
                          /\ Answers(r.response, r.key, r.request_hash, w)
                          /\ ~r.expired => w = windows[r.key]
      BY <1>1, <1>12 DEF Recorded, Answers
  <2>1. CASE r = new
      BY <2>1, <1>3, <1>4, <1>6
  <2>2. CASE r # new
      BY <2>2, <1>8 DEF IInv, Recorded
  <2> QED
      BY <2>1, <2>2
<1>14. ReservationInHand'
    BY <1>1, <1>8, <1>10 DEF IInv, ReservationInHand, Reservation
<1>15. Exclusive'
    BY <1>10 DEF IInv, Exclusive
<1>16. Answered'
  <2> SUFFICES ASSUME NEW d \in Call, call'[d].at = "answered", call'[d].effect # NoResponse
               PROVE  \A n, x, y, w : n = call'[d].effect /\ x = call'[d].key
                          /\ y = call'[d].request_hash /\ w = call'[d].window
                          => Answers(n, x, y, w)
      BY <1>12 DEF Answered
  <2>1. CASE d = c
      BY <2>1, <1>3, <1>5
  <2>2. CASE d # c
      BY <2>2, <1>1 DEF IInv, Answered
  <2> QED
      BY <2>1, <2>2
<1>17. CommittedOwn'
  <2> SUFFICES ASSUME NEW d \in Call, call'[d].at = "committed"
               PROVE  /\ call'[d] = call[d]
                      /\ Answers(call[d].effect, call[d].key, call[d].request_hash, call[d].window)
                      /\ \A e \in Call : call'[e].at = "answered" => call'[e].effect # call[d].effect
      BY <1>12 DEF CommittedOwn
  <2>1. d # c /\ call'[d] = call[d] /\ call[d].at = "committed"
      BY <1>1, <1>5
  <2>2. call[d].key # k
      BY <1>1, <2>1 DEF IInv, Exclusive, Held
  <2>3. /\ Answers(call[d].effect, call[d].key, call[d].request_hash, call[d].window)
        /\ \A e \in Call : call[e].at = "answered" => call[e].effect # call[d].effect
      BY <2>1 DEF IInv, CommittedOwn
  <2>4. call[d].effect # m
      BY <2>2, <2>3, <1>3 DEF Answers
  <2> QED
      BY <2>1, <2>3, <2>4, <1>1, <1>5
<1>18. OwnEffectOnly'
    BY <1>1, <1>10 DEF IInv, OwnEffectOnly, Current
<1>19. EffectIsRemembered'
  <2> SUFFICES ASSUME NEW n \in DOMAIN effects \ aborted, Current(n)
               PROVE  \E r \in records' :
                          /\ r.key = effects[n].key /\ ~r.expired
                          /\ r.request_hash = effects[n].request_hash
                          /\ r.response \in {NoResponse, n}
      BY <1>1 DEF EffectIsRemembered, Current, Valid, Rows
  <2>1. CASE effects[n].key = k
    <3>1. n = m
        BY <2>1, <1>1 DEF IInv, OwnEffectOnly, Held
    <3> QED
        BY <3>1, <1>3, <1>6, <1>8 DEF Answers
  <2>2. CASE effects[n].key # k
      BY <2>2, <1>8 DEF IInv, EffectIsRemembered, Valid, Rows
  <2> QED
      BY <2>1, <2>2
<1> QED
    BY <1>9, <1>11, <1>13, <1>14, <1>15, <1>16, <1>17, <1>18, <1>19 DEF IInv

\* A report appears with its record and its response in one step, for a key nobody holds.
LEMMA CreateReportInv ==
    ASSUME IInv, NEW c \in Call, NEW k \in ReportKey, NEW b \in Body, CreateReport(c, k, b)
    PROVE  IInv'
<1> DEFINE m == Len(effects) + 1
           new == [Reservation(k, b) EXCEPT !.response = m]
<1>1. /\ call[c].at = "idle"
      /\ call'[c] = Answer(k, b, m)
      /\ \A d \in Call \ {c} : call'[d] = call[d]
      /\ effects' = Append(effects, EffectOf(k, b))
      /\ records' = (records \ Rows(k)) \cup {new}
      /\ UNCHANGED <<aborted, windows>>
    BY DEF CreateReport, IInv, TypeOK, Idle
<1>2. EffectOf(k, b) \in Effect /\ windows[k] \in Nat
    BY BoundsAreNaturals DEF EffectOf, Effect, AnyKey, IInv, TypeOK
<1>3. /\ m \in Response /\ m \notin DOMAIN effects /\ m \notin aborted /\ m # NoResponse
      /\ DOMAIN effects' = DOMAIN effects \cup {m}
      /\ effects'[m] = EffectOf(k, b)
      /\ \A n \in DOMAIN effects : effects'[n] = effects[n]
      /\ effects' \in Seq(Effect) /\ Len(effects') <= MaxEffects
    BY <1>1, <1>2, Appended DEF IInv, CreateReport
<1>4. effects'[m].key = k /\ effects'[m].request_hash = b /\ effects'[m].window = windows[k]
    BY <1>3 DEF EffectOf
<1>5. /\ call'[c].at = "answered" /\ call'[c].effect = m /\ call'[c].key = k
      /\ call'[c].request_hash = b /\ call'[c].window = windows[k]
      /\ call'[c] \in CallState
    BY <1>1, <1>3 DEF CallState, Answer, Under, Error, AnyKey, IInv, TypeOK
<1>6. /\ new.key = k /\ new.request_hash = b /\ new.response = m /\ new.expired = FALSE
      /\ new \in IdempotencyRecord
    BY <1>3 DEF Reservation, IdempotencyRecord, AnyKey
<1>7. /\ new \in records'
      /\ \A r \in records' : r = new \/ (r \in records /\ r.key # k)
      /\ \A r \in records : r.key # k => r \in records'
    BY <1>1 DEF Rows
<1>8. TypeOK'
    BY <1>1, <1>3, <1>5, <1>6, <1>7 DEF IInv, TypeOK, CreateReport
<1>9. \A d \in Call : Held(d)' => d # c /\ Held(d) /\ call'[d] = call[d] /\ call[d].key # k
    BY <1>1, <1>5, KeysAreDisjoint DEF IInv, ReservationInHand, Held
<1>10. \A n \in DOMAIN effects \ aborted : Current(n) => effects[n].key # k
    BY DEF IInv, EffectIsRemembered, CreateReport
<1>11. OneRecordPerKey' /\ ReportHasResponse'
    BY <1>3, <1>6, <1>7 DEF IInv, OneRecordPerKey, ReportHasResponse
<1>12. \A n, x, y, w : Answers(n, x, y, w) => Answers(n, x, y, w)' /\ n # m
    BY <1>1, <1>3 DEF Answers
<1>13. \A n, x, y, w : n = m /\ x = k /\ y = b /\ w = windows[k] => Answers(n, x, y, w)'
    BY <1>1, <1>3, <1>4 DEF Answers
<1>14. Recorded'
  <2> SUFFICES ASSUME NEW r \in records', r.response # NoResponse
               PROVE  \E w \in 0..windows[r.key] :
                          /\ \A n, x, y : n = r.response /\ x = r.key /\ y = r.request_hash
                                          => Answers(n, x, y, w)'
                          /\ ~r.expired => w = windows[r.key]
      BY <1>1 DEF Recorded, Answers
  <2>1. CASE r = new
      BY <2>1, <1>2, <1>6, <1>13
  <2>2. CASE r # new
    <3>1. PICK w \in 0..windows[r.key] : /\ Answers(r.response, r.key, r.request_hash, w)
                                         /\ ~r.expired => w = windows[r.key]
        BY <2>2, <1>7 DEF IInv, Recorded
    <3> QED
        BY <3>1, <1>12
  <2> QED
      BY <2>1, <2>2
<1>15. ReservationInHand'
    BY <1>1, <1>7, <1>9 DEF IInv, ReservationInHand, Reservation
<1>16. Exclusive'
    BY <1>9 DEF IInv, Exclusive
<1>17. Answered'
  <2> SUFFICES ASSUME NEW d \in Call, call'[d].at = "answered", call'[d].effect # NoResponse
               PROVE  \A n, x, y, w : n = call'[d].effect /\ x = call'[d].key
                          /\ y = call'[d].request_hash /\ w = call'[d].window
                          => Answers(n, x, y, w)'
      BY DEF Answered, Answers
  <2>1. CASE d = c
      BY <2>1, <1>5, <1>13
  <2>2. CASE d # c
      BY <2>2, <1>1, <1>12 DEF IInv, Answered
  <2> QED
      BY <2>1, <2>2
<1>18. CommittedOwn'
  <2> SUFFICES ASSUME NEW d \in Call, call'[d].at = "committed"
               PROVE  /\ call'[d] = call[d]
                      /\ Answers(call[d].effect, call[d].key, call[d].request_hash, call[d].window)
                      /\ \A e \in Call : call'[e].at = "answered" => call'[e].effect # call[d].effect
      BY <1>12 DEF CommittedOwn
  <2>1. call'[d] = call[d] /\ call[d].at = "committed"
      BY <1>1, <1>5
  <2>2. /\ Answers(call[d].effect, call[d].key, call[d].request_hash, call[d].window)
        /\ \A e \in Call : call[e].at = "answered" => call[e].effect # call[d].effect
      BY <2>1 DEF IInv, CommittedOwn
  <2>3. call[d].effect # m
      BY <2>2, <1>12
  <2> QED
      BY <2>1, <2>2, <2>3, <1>1, <1>5
<1>19. OwnEffectOnly'
  <2> SUFFICES ASSUME NEW n \in DOMAIN effects' \ aborted', Current(n)',
                      NEW d \in Call, Held(d)', call'[d].key = effects'[n].key
               PROVE  call'[d].at = "committed" /\ call'[d].effect = n
      BY DEF OwnEffectOnly
  <2>1. n # m
      BY <1>4, <1>9
  <2>2. n \in DOMAIN effects \ aborted /\ Current(n) /\ effects'[n] = effects[n]
      BY <2>1, <1>1, <1>3 DEF Current
  <2> QED
      BY <2>2, <1>9 DEF IInv, OwnEffectOnly
<1>20. WindowsPassed'
  <2> SUFFICES ASSUME NEW n \in DOMAIN effects'
               PROVE  effects'[n].window <= windows[effects'[n].key]
      BY <1>1 DEF WindowsPassed
  <2>1. CASE n = m
      BY <2>1, <1>2, <1>4
  <2>2. CASE n # m
      BY <2>2, <1>3 DEF IInv, WindowsPassed
  <2> QED
      BY <2>1, <2>2
<1>21. EffectIsRemembered'
  <2> SUFFICES ASSUME NEW n \in DOMAIN effects' \ aborted', Current(n)'
               PROVE  \E r \in records' :
                          /\ r.key = effects'[n].key /\ ~r.expired
                          /\ r.request_hash = effects'[n].request_hash
                          /\ r.response \in {NoResponse, n}
      BY DEF EffectIsRemembered, Valid, Rows
  <2>1. CASE n = m
      BY <2>1, <1>4, <1>6, <1>7
  <2>2. CASE n # m
    <3>1. n \in DOMAIN effects \ aborted /\ Current(n) /\ effects'[n] = effects[n]
        BY <2>2, <1>1, <1>3 DEF Current
    <3> QED
        BY <3>1, <1>7, <1>10 DEF IInv, EffectIsRemembered, Valid, Rows
  <2> QED
      BY <2>1, <2>2
<1> QED
    BY <1>8, <1>11, <1>14, <1>15, <1>16, <1>17, <1>18, <1>19, <1>20, <1>21 DEF IInv

\* A window runs out when no call holds its key: every effect of the key is past.
LEMMA ExpireInv ==
    ASSUME IInv, NEW k \in AnyKey, Expire(k)
    PROVE  IInv'
<1>1. PICK old \in Valid(k) :
          records' = (records \ {old}) \cup {[old EXCEPT !.expired = TRUE]}
    BY DEF Expire
<1> DEFINE new == [old EXCEPT !.expired = TRUE]
<1>2. /\ windows[k] < MaxWindows
      /\ windows' = [windows EXCEPT ![k] = @ + 1]
      /\ UNCHANGED <<effects, aborted, call>>
      /\ \A d \in Call : Held(d) => call[d].key # k
    BY DEF Expire, Held
<1>3. /\ windows[k] \in Nat /\ windows'[k] = windows[k] + 1
      /\ \A x \in AnyKey : x # k => windows'[x] = windows[x]
      /\ windows' \in [AnyKey -> 0..MaxWindows]
    BY <1>2, BoundsAreNaturals DEF IInv, TypeOK
<1>4. old \in records /\ old.key = k /\ old \in IdempotencyRecord
    BY DEF Valid, Rows, IInv, TypeOK
<1>5. /\ new \in IdempotencyRecord /\ new.key = k /\ new.request_hash = old.request_hash
      /\ new.response = old.response /\ new.expired = TRUE
    BY <1>4 DEF IdempotencyRecord
<1>6. /\ \A r \in records' : r = new \/ (r \in records /\ r.key # k)
      /\ \A r \in records : r.key # k => r \in records'
    BY <1>1, <1>4 DEF IInv, OneRecordPerKey
<1>7. /\ \A n \in DOMAIN effects : effects[n] \in Effect
      /\ \A r \in records : r.key \in AnyKey
    BY DEF IInv, TypeOK, IdempotencyRecord
<1>8. \A n \in DOMAIN effects : Current(n)' => Current(n) /\ effects[n].key # k
    BY <1>2, <1>3, <1>7 DEF IInv, WindowsPassed, Current, Effect
<1>9. TypeOK'
    BY <1>1, <1>2, <1>3, <1>5 DEF IInv, TypeOK
<1>10. OneRecordPerKey' /\ ReportHasResponse'
    BY <1>4, <1>5, <1>6 DEF IInv, OneRecordPerKey, ReportHasResponse
<1>11. ReservationInHand'
  <2> SUFFICES ASSUME NEW d \in Call, Held(d)
               PROVE  /\ call[d].key \in Key
                      /\ Reservation(call[d].key, call[d].request_hash) \in records'
                      /\ call[d].window = windows'[call[d].key]
      BY <1>2 DEF ReservationInHand, Held, Reservation
  <2>1. /\ call[d].key \in Key /\ call[d].key # k
        /\ Reservation(call[d].key, call[d].request_hash) \in records
        /\ call[d].window = windows[call[d].key]
      BY <1>2 DEF IInv, ReservationInHand
  <2> QED
      BY <2>1, <1>3, <1>6 DEF Reservation, AnyKey
<1>12. Exclusive' /\ CommittedOwn' /\ Answered'
    BY <1>2 DEF IInv, Exclusive, CommittedOwn, Answered, Answers, Held
<1>13. Recorded'
  <2> SUFFICES ASSUME NEW r \in records', r.response # NoResponse
               PROVE  \E w \in 0..windows'[r.key] :
                          /\ Answers(r.response, r.key, r.request_hash, w)
                          /\ ~r.expired => w = windows'[r.key]
      BY <1>2 DEF Recorded, Answers
  <2>1. CASE r = new
    <3>1. PICK w \in 0..windows[k] : Answers(old.response, old.key, old.request_hash, w)
        BY <2>1, <1>4, <1>5 DEF IInv, Recorded
    <3>2. w \in 0..windows'[k]
        BY <1>3
    <3> QED
        BY <3>1, <3>2, <2>1, <1>4, <1>5
  <2>2. CASE r # new
      BY <2>2, <1>3, <1>6, <1>7 DEF IInv, Recorded
  <2> QED
      BY <2>1, <2>2
<1>14. OwnEffectOnly'
    BY <1>2, <1>8 DEF IInv, OwnEffectOnly, Held
<1>15. WindowsPassed'
  <2> SUFFICES ASSUME NEW n \in DOMAIN effects
               PROVE  effects[n].window <= windows'[effects[n].key]
      BY <1>2 DEF WindowsPassed
  <2>1. effects[n].window <= windows[effects[n].key] /\ effects[n].window \in Nat
        /\ effects[n].key \in AnyKey
      BY <1>7, BoundsAreNaturals DEF IInv, WindowsPassed, Effect
  <2> QED
      BY <2>1, <1>3
<1>16. EffectIsRemembered'
    BY <1>2, <1>6, <1>8 DEF IInv, EffectIsRemembered, Valid, Rows
<1> QED
    BY <1>9, <1>10, <1>11, <1>12, <1>13, <1>14, <1>15, <1>16 DEF IInv

\* Retention deletes only records no call holds and no current effect needs.
LEMMA PurgeInv ==
    ASSUME IInv, Purge
    PROVE  IInv'
<1>1. /\ records' = {r \in records : ~r.expired}
      /\ UNCHANGED <<effects, aborted, windows, call>>
    BY DEF Purge
<1>2. TypeOK'
    BY <1>1 DEF IInv, TypeOK
<1>3. OneRecordPerKey' /\ ReportHasResponse' /\ Recorded' /\ WindowsPassed'
    BY <1>1 DEF IInv, OneRecordPerKey, ReportHasResponse, Recorded, Answers, WindowsPassed
<1>4. ReservationInHand'
    BY <1>1 DEF IInv, ReservationInHand, Reservation, Held
<1>5. Exclusive' /\ CommittedOwn' /\ Answered' /\ OwnEffectOnly'
    BY <1>1 DEF IInv, Exclusive, CommittedOwn, Answered, Answers, OwnEffectOnly, Current, Held
<1>6. EffectIsRemembered'
    BY <1>1 DEF IInv, EffectIsRemembered, Current, Valid, Rows
<1> QED
    BY <1>2, <1>3, <1>4, <1>5, <1>6 DEF IInv

\* A crash forgets the calls and keeps the committed rows.
LEMMA CrashInv ==
    ASSUME IInv, Crash
    PROVE  IInv'
<1>1. /\ \A c \in Call : call'[c].at = "idle"
      /\ UNCHANGED <<records, effects, aborted, windows>>
    BY DEF Crash, Idle
<1>2. TypeOK'
    BY <1>1 DEF Crash, IInv, TypeOK
<1>3. OneRecordPerKey' /\ ReportHasResponse' /\ Recorded' /\ WindowsPassed'
      /\ EffectIsRemembered'
    BY <1>1 DEF IInv, OneRecordPerKey, ReportHasResponse, Recorded, Answers, WindowsPassed,
                EffectIsRemembered, Current, Valid, Rows
<1>4. ReservationInHand' /\ Exclusive' /\ CommittedOwn' /\ Answered' /\ OwnEffectOnly'
    BY <1>1 DEF ReservationInHand, Exclusive, CommittedOwn, Answered, OwnEffectOnly, Held
<1> QED
    BY <1>2, <1>3, <1>4 DEF IInv

-----------------------------------------------------------------------------
(***************************************************************************)
(* The invariant and what follows from it                                  *)
(***************************************************************************)
\* What a record answers is a state a call may be in.
LEMMA ReplayIsAnswered ==
    ASSUME IInv, NEW k \in AnyKey, NEW b \in Body, NEW r \in Valid(k)
    PROVE  /\ Replay(k, b, r) \in CallState
           /\ Replay(k, b, r).at = "answered"
           /\ Replay(k, b, r).effect # NoResponse =>
                  /\ Replay(k, b, r).effect = r.response
                  /\ Replay(k, b, r).key = k
                  /\ Replay(k, b, r).request_hash = r.request_hash
                  /\ Replay(k, b, r).window = windows[k]
<1>1. r \in IdempotencyRecord /\ windows[k] \in 0..MaxWindows
    BY DEF IInv, TypeOK, Valid, Rows
<1>2. CASE r.request_hash # b
    BY <1>1, <1>2 DEF Replay, Refuse, Under, CallState, Error, NoResponse
<1>3. CASE r.request_hash = b /\ r.response = NoResponse
    BY <1>1, <1>3 DEF Replay, Refuse, Under, CallState, Error, NoResponse
<1>4. CASE r.request_hash = b /\ r.response # NoResponse
    BY <1>1, <1>4 DEF Replay, Answer, Under, CallState, Error, IdempotencyRecord
<1> QED
    BY <1>2, <1>3, <1>4

\* A recorded response is handed out only after its call has let it go.
LEMMA AnswerFromRecordInv ==
    ASSUME IInv, NEW c \in Call, NEW k \in AnyKey, NEW b \in Body, AnswerFromRecord(c, k, b)
    PROVE  IInv'
<1>1. PICK r \in Valid(k) : call' = [call EXCEPT ![c] = Replay(k, b, r)]
    BY DEF AnswerFromRecord
<1>2. r \in records /\ r.key = k /\ ~r.expired
    BY DEF Valid, Rows
<1> DEFINE x == Replay(k, b, r)
<1>3. x \in CallState /\ x.at = "answered"
    BY ReplayIsAnswered
<1>4. ASSUME x.effect # NoResponse
      PROVE  /\ Answers(x.effect, x.key, x.request_hash, x.window)
             /\ \A d \in Call \ {c} : call[d].at = "committed" => call[d].effect # x.effect
  <2>1. x.effect = r.response /\ x.key = k /\ x.request_hash = r.request_hash
        /\ x.window = windows[k]
      BY <1>4, ReplayIsAnswered
  <2>2. Answers(r.response, k, r.request_hash, windows[k])
      BY <1>2, <1>4, <2>1 DEF IInv, Recorded
  <2>3. ASSUME NEW d \in Call, call[d].at = "committed", call[d].effect = r.response
        PROVE  FALSE
    <3>1. call[d].key = k
        BY <2>2, <2>3 DEF IInv, CommittedOwn, Answers
    <3>2. Reservation(k, call[d].request_hash) \in records
        BY <2>3, <3>1 DEF IInv, ReservationInHand, Held
    <3>3. r = Reservation(k, call[d].request_hash)
        BY <1>2, <3>2 DEF IInv, OneRecordPerKey, Reservation
    <3> QED
        BY <3>3, <1>4, <2>1 DEF Reservation
  <2> HIDE DEF x
  <2> QED
      BY <2>1, <2>2, <2>3
<1>5. UNCHANGED <<records, effects, aborted, windows>>
    BY DEF AnswerFromRecord
<1> HIDE DEF x
<1>6. call' = [call EXCEPT ![c] = x]
    BY <1>1 DEF x
<1> QED
    BY <1>3, <1>4, <1>5, <1>6, CallEnds

\* A call that is released, answered after its commit, or done, ends.
LEMMA CallEndsInv ==
    ASSUME IInv, NEW c \in Call, ReleaseFails(c) \/ FinishFails(c) \/ Return(c)
    PROVE  IInv'
<1>1. CASE ReleaseFails(c)
  <2> DEFINE x == Refuse(call[c].key, call[c].request_hash, "failed")
  <2>1. call[c] \in CallState /\ call' = [call EXCEPT ![c] = x]
      BY <1>1 DEF ReleaseFails, IInv, TypeOK, Idle
  <2>2. x \in CallState /\ x.at = "answered" /\ x.effect = NoResponse
      BY <2>1 DEF Refuse, Under, CallState, Error, IInv, TypeOK
  <2> HIDE DEF x
  <2> QED
      BY <1>1, <2>1, <2>2, CallEnds DEF ReleaseFails
<1>2. CASE FinishFails(c)
  <2> DEFINE x == Answer(call[c].key, call[c].request_hash, call[c].effect)
  <2>1. call[c] \in CallState /\ call[c].at = "committed" /\ call' = [call EXCEPT ![c] = x]
      BY <1>2 DEF FinishFails, IInv, TypeOK, Idle
  <2>2. x \in CallState /\ x.at = "answered" /\ x.effect = call[c].effect /\ x.key = call[c].key
        /\ x.request_hash = call[c].request_hash /\ x.window = windows[call[c].key]
      BY <2>1 DEF Answer, Under, CallState, Error, IInv, TypeOK
  <2>3. call[c].window = windows[call[c].key]
      BY <2>1 DEF IInv, ReservationInHand, Held
  <2>4. Answers(x.effect, x.key, x.request_hash, x.window)
      BY <2>1, <2>2, <2>3 DEF IInv, CommittedOwn
  <2>5. ASSUME NEW d \in Call \ {c}, call[d].at = "committed"
        PROVE  call[d].effect # x.effect
    <3>1. call[d].key # call[c].key
        BY <2>1, <2>5 DEF IInv, Exclusive, Held
    <3>2. effects[call[d].effect].key = call[d].key
        BY <2>5 DEF IInv, CommittedOwn, Answers
    <3>3. effects[call[c].effect].key = call[c].key
        BY <2>1 DEF IInv, CommittedOwn, Answers
    <3> QED
        BY <3>1, <3>2, <3>3, <2>2
  <2> HIDE DEF x
  <2> QED
      BY <1>2, <2>1, <2>2, <2>4, <2>5, CallEnds DEF FinishFails
<1>3. CASE Return(c)
    BY <1>3, CallEnds DEF Return, Idle
<1> QED
    BY <1>1, <1>2, <1>3

\* Every step of the protocol keeps the invariant.
LEMMA StepInv ==
    ASSUME IInv, [Next]_vars
    PROVE  IInv'
<1>1. ASSUME NEW c \in Call, NEW k \in Key, NEW b \in Body, Reserve(c, k, b)
      PROVE  IInv'
    BY <1>1, ReserveInv
<1>2. ASSUME NEW c \in Call, NEW k \in AnyKey, NEW b \in Body, AnswerFromRecord(c, k, b)
      PROVE  IInv'
    BY <1>2, AnswerFromRecordInv
<1>3. ASSUME NEW c \in Call, NEW k \in ReportKey, NEW b \in Body, CreateReport(c, k, b)
      PROVE  IInv'
    BY <1>3, CreateReportInv
<1>4. ASSUME NEW c \in Call, CommitEffect(c)
      PROVE  IInv'
    BY <1>4, CommitEffectInv
<1>5. ASSUME NEW c \in Call, Reject(c)
      PROVE  IInv'
    BY <1>5, RejectInv
<1>6. ASSUME NEW c \in Call, Abort(c)
      PROVE  IInv'
    BY <1>6, AbortInv
<1>7. ASSUME NEW c \in Call, Release(c)
      PROVE  IInv'
    BY <1>7, ReleaseInv
<1>8. ASSUME NEW c \in Call, ReleaseFails(c) \/ FinishFails(c) \/ Return(c)
      PROVE  IInv'
    BY <1>8, CallEndsInv
<1>9. ASSUME NEW c \in Call, FinishReservation(c)
      PROVE  IInv'
    BY <1>9, FinishReservationInv
<1>10. ASSUME NEW k \in AnyKey, Expire(k)
       PROVE  IInv'
    BY <1>10, ExpireInv
<1>11. CASE Purge
    BY <1>11, PurgeInv
<1>12. CASE Crash
    BY <1>12, CrashInv
<1>13. CASE UNCHANGED vars
    BY <1>13 DEF vars, IInv, TypeOK, OneRecordPerKey, ReservationInHand, Exclusive, CommittedOwn,
                 Recorded, Answered, Answers, OwnEffectOnly, WindowsPassed, ReportHasResponse,
                 EffectIsRemembered, Current, Valid, Rows, Held
<1> QED
    BY <1>1, <1>2, <1>3, <1>4, <1>5, <1>6, <1>7, <1>8, <1>9, <1>10, <1>11, <1>12, <1>13
       DEF Next

\* The invariant of the reservation protocol.
LEMMA Invariant == Spec => []IInv
    BY InitInv, StepInv, PTL DEF Spec

\* The rows and the states of calls keep their types.
THEOREM TypesAreKept == Spec => []TypeOK
<1>1. IInv => TypeOK
    BY DEF IInv
<1> QED
    BY <1>1, Invariant, PTL

\* No committed write is forgotten while its window lasts, whatever crashed or failed
\* between the commit and the storing of the response.
THEOREM EffectsAreRemembered == Spec => []EffectIsRemembered
<1>1. IInv => EffectIsRemembered
    BY DEF IInv
<1> QED
    BY <1>1, Invariant, PTL

\* No caller is answered with another request's response.
THEOREM AnswersAreOwn == Spec => []AnswerIsOwn
<1>1. ASSUME IInv, NEW c \in Call, call[c].at = "answered", call[c].effect # NoResponse
      PROVE  /\ effects[call[c].effect] = [key |-> call[c].key,
                                           request_hash |-> call[c].request_hash,
                                           window |-> call[c].window]
             /\ call[c].effect \notin aborted
  <2>1. Answers(call[c].effect, call[c].key, call[c].request_hash, call[c].window)
      BY <1>1 DEF IInv, Answered
  <2>2. effects[call[c].effect] \in Effect
      BY <1>1, <2>1 DEF IInv, TypeOK, Answers
  <2> QED
      BY <2>1, <2>2 DEF Answers, Effect
<1>2. IInv => AnswerIsOwn
    BY <1>1 DEF AnswerIsOwn
<1> QED
    BY <1>2, Invariant, PTL

\* The reservation excludes a second handler for its key.
THEOREM ReservationsExclude == Spec => []OneCallPerReservation
<1>1. IInv => OneCallPerReservation
    BY DEF IInv, Exclusive, Held, OneCallPerReservation
<1> QED
    BY <1>1, Invariant, PTL

\* The record of a report always answers with the report.
THEOREM ReportsAreAtomic == Spec => []ReportIsAtomic
<1>1. IInv => ReportIsAtomic
    BY DEF IInv, ReportHasResponse, Recorded, Answers, ReportIsAtomic, Rows
<1> QED
    BY <1>1, Invariant, PTL

=============================================================================
