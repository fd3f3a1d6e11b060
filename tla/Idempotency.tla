--------------------------- MODULE Idempotency ----------------------------
(***************************************************************************)
(* Idempotency keys: the reservation the HTTP middleware and the AI        *)
(* WebSocket gateway wrap around a write (middleware.py, ai_websocket.py), *)
(* and the record the creation of a report keeps in its own transaction    *)
(* (services/idempotency.py).                                              *)
(*                                                                         *)
(* A key stands for actor, route and Idempotency-Key together, a body for  *)
(* the request hash.  An effect is a committed business transaction; its   *)
(* number stands for the response it makes.                                *)
(***************************************************************************)
EXTENDS Naturals, FiniteSets, Sequences, FiniteSetsExt

CONSTANTS
    Call,        \* calls the server handles at the same time
    Key,         \* keys of the routes behind the generic reservation
    ReportKey,   \* keys of POST .../reports
    Body,        \* request hashes
    MaxEffects,  \* bound: committed business transactions
    MaxWindows   \* bound: how often the idempotency window of a key runs out

ASSUME BoundsAreNaturals == MaxEffects \in Nat /\ MaxWindows \in Nat

ASSUME KeysAreDisjoint == Key \cap ReportKey = {}

VARIABLES
    records,  \* rows of the idempotency_records table
    effects,  \* the committed business transactions, in order (history)
    aborted,  \* effects whose call gave its reservation back (history)
    windows,  \* windows[k]: how often the window of k has run out (history)
    call      \* call[c]: where the handling of call c is

vars == <<records, effects, aborted, windows, call>>

AnyKey == Key \cup ReportKey
NoResponse == 0
Response == 1..MaxEffects

\* response is 0 as long as response_body is NULL.
IdempotencyRecord ==
    [key : AnyKey, request_hash : Body, response : Response \cup {NoResponse},
     expired : BOOLEAN]

Effect == [key : AnyKey, request_hash : Body, window : 0..MaxWindows]

\* "handling": the business handler runs under a reservation; "committed": its
\* transaction is committed, its response not stored; "releasing": it ended without
\* a 2xx response; "answered": the caller has the response of an effect, or an error.
Error == {"none", "failed", "IDEMPOTENCY_CONFLICT", "IDEMPOTENCY_IN_PROGRESS"}

CallState ==
    [at : {"handling", "committed", "releasing", "answered"}, key : AnyKey,
     request_hash : Body, window : 0..MaxWindows, effect : Response \cup {NoResponse},
     error : Error]

Idle == [at |-> "idle"]

TypeOK ==
    /\ records \subseteq IdempotencyRecord
    /\ effects \in Seq(Effect) /\ Len(effects) <= MaxEffects
    /\ aborted \subseteq DOMAIN effects
    /\ windows \in [AnyKey -> 0..MaxWindows]
    /\ call \in [Call -> CallState \cup {Idle}]

Init ==
    /\ records = {}
    /\ effects = <<>>
    /\ aborted = {}
    /\ windows = [k \in AnyKey |-> 0]
    /\ call = [c \in Call |-> Idle]

-----------------------------------------------------------------------------
Rows(k) == {r \in records : r.key = k}
Valid(k) == {r \in Rows(k) : ~r.expired}

\* Variant: the request hash is not stored.
ReservationWithoutHash(k, b) ==
    [key |-> k, request_hash |-> NoResponse, response |-> NoResponse, expired |-> FALSE]

Reservation(k, b) ==
    [key |-> k, request_hash |-> b, response |-> NoResponse, expired |-> FALSE]

Under(k, b, at, effect, error) ==
    [at |-> at, key |-> k, request_hash |-> b, window |-> windows[k], effect |-> effect,
     error |-> error]

Handling(k, b) == Under(k, b, "handling", NoResponse, "none")
Answer(k, b, n) == Under(k, b, "answered", n, "none")
Refuse(k, b, error) == Under(k, b, "answered", NoResponse, error)

\* Variant: the request hash is not compared.
ReplayAnyBody(k, b, r) ==
    IF r.response = NoResponse THEN Refuse(k, b, "IDEMPOTENCY_IN_PROGRESS")
    ELSE Answer(k, b, r.response)

\* What a call gets when its key has the valid record r.
Replay(k, b, r) ==
    IF r.request_hash # b THEN Refuse(k, b, "IDEMPOTENCY_CONFLICT")
    ELSE IF r.response = NoResponse THEN Refuse(k, b, "IDEMPOTENCY_IN_PROGRESS")
    ELSE Answer(k, b, r.response)

\* Variant: a reservation still in progress does not stop a second call.
ReserveAgain(c, k, b) ==
    /\ call[c] = Idle
    /\ \A r \in Valid(k) : r.request_hash = b /\ r.response = NoResponse
    /\ records' = (records \ Rows(k)) \cup {Reservation(k, b)}
    /\ call' = [call EXCEPT ![c] = Handling(k, b)]
    /\ UNCHANGED <<effects, aborted, windows>>

\* A new record, or an expired one taken over.
Reserve(c, k, b) ==
    /\ call[c] = Idle
    /\ Valid(k) = {}
    /\ records' = (records \ Rows(k)) \cup {Reservation(k, b)}
    /\ call' = [call EXCEPT ![c] = Handling(k, b)]
    /\ UNCHANGED <<effects, aborted, windows>>

\* A valid record answers the call: with the stored response or a 409.
AnswerFromRecord(c, k, b) ==
    /\ call[c] = Idle
    /\ \E r \in Valid(k) : call' = [call EXCEPT ![c] = Replay(k, b, r)]
    /\ UNCHANGED <<records, effects, aborted, windows>>

EffectOf(k, b) == [key |-> k, request_hash |-> b, window |-> windows[k]]

\* The handler commits its business transaction.
CommitEffect(c) ==
    /\ call[c].at = "handling"
    /\ Len(effects) < MaxEffects
    /\ effects' = Append(effects, EffectOf(call[c].key, call[c].request_hash))
    /\ call' = [call EXCEPT ![c].at = "committed", ![c].effect = Len(effects) + 1]
    /\ UNCHANGED <<records, aborted, windows>>

\* The handler refuses or fails before it has committed anything.
Reject(c) ==
    /\ call[c].at = "handling"
    /\ call' = [call EXCEPT ![c].at = "releasing"]
    /\ UNCHANGED <<records, effects, aborted, windows>>

\* The request is cancelled, or raises, after its transaction is committed: every
\* BaseException leads to the same release.
Abort(c) ==
    /\ call[c].at = "committed"
    /\ aborted' = aborted \cup {call[c].effect}
    /\ call' = [call EXCEPT ![c].at = "releasing"]
    /\ UNCHANGED <<records, effects, windows>>

\* The reservation is deleted, in a transaction of its own, if it has no response.
\* The code finds it by its id; while the call runs, its key has no other record.
Release(c) ==
    /\ call[c].at = "releasing"
    /\ records' = {r \in records : r.key = call[c].key => r.response # NoResponse}
    /\ call' = [call EXCEPT ![c] = Refuse(@.key, @.request_hash, "failed")]
    /\ UNCHANGED <<effects, aborted, windows>>

\* _safe_release_reservation swallows a failure: the reservation stays.
ReleaseFails(c) ==
    /\ call[c].at = "releasing"
    /\ call' = [call EXCEPT ![c] = Refuse(@.key, @.request_hash, "failed")]
    /\ UNCHANGED <<records, effects, aborted, windows>>

\* The response is stored, again in a transaction of its own.
FinishReservation(c) ==
    /\ call[c].at = "committed"
    /\ records' = {IF r.key = call[c].key THEN [r EXCEPT !.response = call[c].effect] ELSE r :
                     r \in records}
    /\ call' = [call EXCEPT ![c] = Answer(@.key, @.request_hash, @.effect)]
    /\ UNCHANGED <<effects, aborted, windows>>

\* Variant: a reservation whose response cannot be stored is given up.
FinishFailsAndReleases(c) ==
    /\ call[c].at = "committed"
    /\ records' = {r \in records : r.key # call[c].key}
    /\ call' = [call EXCEPT ![c] = Answer(@.key, @.request_hash, @.effect)]
    /\ UNCHANGED <<effects, aborted, windows>>

\* The response cannot be stored: the caller has it, the reservation stays in progress.
FinishFails(c) ==
    /\ call[c].at = "committed"
    /\ call' = [call EXCEPT ![c] = Answer(@.key, @.request_hash, @.effect)]
    /\ UNCHANGED <<records, effects, aborted, windows>>

\* The caller is free for another call, a retry for example.
Return(c) ==
    /\ call[c].at = "answered"
    /\ call' = [call EXCEPT ![c] = Idle]
    /\ UNCHANGED <<records, effects, aborted, windows>>

-----------------------------------------------------------------------------
\* Variant: the report is committed and its response stored later.
CreateReportUnfinished(c, k, b) ==
    /\ call[c] = Idle
    /\ Valid(k) = {}
    /\ Len(effects) < MaxEffects
    /\ records' = (records \ Rows(k)) \cup {Reservation(k, b)}
    /\ effects' = Append(effects, EffectOf(k, b))
    /\ call' = [call EXCEPT ![c] = Answer(k, b, Len(effects) + 1)]
    /\ UNCHANGED <<aborted, windows>>

\* POST .../reports: the record, the report and the response in one transaction.
CreateReport(c, k, b) ==
    /\ call[c] = Idle
    /\ Valid(k) = {}
    /\ Len(effects) < MaxEffects
    /\ records' = (records \ Rows(k))
                    \cup {[Reservation(k, b) EXCEPT !.response = Len(effects) + 1]}
    /\ effects' = Append(effects, EffectOf(k, b))
    /\ call' = [call EXCEPT ![c] = Answer(k, b, Len(effects) + 1)]
    /\ UNCHANGED <<aborted, windows>>

\* The idempotency window of a record runs out.  Assumed: no call outlasts it (24
\* hours by default).
Expire(k) ==
    /\ \E r \in Valid(k) : records' = (records \ {r}) \cup {[r EXCEPT !.expired = TRUE]}
    /\ \A c \in Call : call[c].at \in {"handling", "committed", "releasing"} => call[c].key # k
    /\ windows[k] < MaxWindows
    /\ windows' = [windows EXCEPT ![k] = @ + 1]
    /\ UNCHANGED <<effects, aborted, call>>

\* Retention deletes the expired records.
Purge ==
    /\ \E r \in records : r.expired
    /\ records' = {r \in records : ~r.expired}
    /\ UNCHANGED <<effects, aborted, windows, call>>

\* The process dies with the calls it was handling; an open transaction is rolled back.
Crash ==
    /\ call' = [c \in Call |-> Idle]
    /\ UNCHANGED <<records, effects, aborted, windows>>

Next ==
    \/ \E c \in Call, k \in Key, b \in Body : Reserve(c, k, b)
    \/ \E c \in Call, k \in AnyKey, b \in Body : AnswerFromRecord(c, k, b)
    \/ \E c \in Call, k \in ReportKey, b \in Body : CreateReport(c, k, b)
    \/ \E c \in Call : CommitEffect(c)
    \/ \E c \in Call : Reject(c)
    \/ \E c \in Call : Abort(c)
    \/ \E c \in Call : Release(c)
    \/ \E c \in Call : ReleaseFails(c)
    \/ \E c \in Call : FinishReservation(c)
    \/ \E c \in Call : FinishFails(c)
    \/ \E c \in Call : Return(c)
    \/ \E k \in AnyKey : Expire(k)
    \/ Purge
    \/ Crash

Spec == Init /\ [][Next]_vars

-----------------------------------------------------------------------------
(***************************************************************************)
(* Properties                                                              *)
(***************************************************************************)
Current(n) == effects[n].window = windows[effects[n].key]

\* As long as its window lasts, an effect whose call was not given up is remembered
\* under its key, with its response or as still in progress: no retry can repeat it,
\* whatever crashed between the commit and the storing of the response.
EffectIsRemembered ==
    \A n \in DOMAIN effects \ aborted : Current(n) =>
        \E r \in Valid(effects[n].key) :
            r.request_hash = effects[n].request_hash /\ r.response \in {NoResponse, n}

\* A caller that gets a response gets the one of its own request: same key, same
\* body, same window, and of an effect nobody has given up.
AnswerIsOwn ==
    \A c \in Call : call[c].at = "answered" /\ call[c].effect # NoResponse =>
        LET n == call[c].effect
        IN  effects[n] = [key |-> call[c].key, request_hash |-> call[c].request_hash,
                          window |-> call[c].window]
            /\ n \notin aborted

\* Two calls never run under one reservation.
OneCallPerReservation ==
    \A c, d \in Call :
        c # d /\ call[c].at \in {"handling", "committed"}
              /\ call[d].at \in {"handling", "committed"}
            => call[c].key # call[d].key

\* A report exists exactly if its record holds its response: the key of a report is
\* never left in progress and never without the report it answers with.
ReportIsAtomic ==
    \A k \in ReportKey : \A r \in Rows(k) :
        r.response \in DOMAIN effects /\ effects[r.response].key = k

\* The README promises that a write whose result is unknown is not repeated while
\* its window lasts: one key has one effect.
AtMostOnce ==
    \A n, m \in DOMAIN effects :
        effects[n].key = effects[m].key /\ effects[n].window = effects[m].window => n = m
=============================================================================
