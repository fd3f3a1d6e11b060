----------------------------- MODULE Realtime ------------------------------
(***************************************************************************)
(* The event stream of one incident: the outbox dispatcher of the worker   *)
(* (workers.py), the RealtimeHub and the WebSocket handler (realtime.py),  *)
(* retention, and the clients that reconnect with their last_sequence.     *)
(*                                                                         *)
(* The log is what module IncidentLog promises: events 1 to "latest", of   *)
(* which 1 to "published" are published and 1 to "dropped" deleted.        *)
(***************************************************************************)
EXTENDS Naturals, SequencesExt

CONSTANTS
    Client,       \* clients, each with at most one connection at a time
    Hidden,       \* numbers of the events the clients may not see
    MaxSequence,  \* bound: the length of the log
    QueueSize     \* realtime_queue_size

ASSUME BoundsAreNaturals == MaxSequence \in Nat /\ QueueSize \in Nat \ {0}

ASSUME HiddenIsNumbers == Hidden \subseteq Nat

VARIABLES
    latest,     \* event_sequence of the incident
    published,  \* the dispatcher has set published_at on events 1..published
    dropped,    \* retention has deleted events 1..dropped
    window,     \* first event number that is inside the replay hours
    batch,      \* the dispatcher has read the rows up to this number
    handling,   \* the dispatcher is inside outbox_handler
    targets,    \* connections that hub.publish has not reached yet
    hub,        \* registered connections
    conn,       \* conn[c]: the WebSocket handler of client c
    client      \* client[c]: what client c has

vars == <<latest, published, dropped, window, batch, handling, targets, hub, conn, client>>

log == <<latest, published, dropped, window>>
dispatcher == <<batch, handling, targets>>

Number == 1..MaxSequence

Phase == {"off", "snapshot", "select", "replay", "drain", "live", "broken"}

\* A connection: where its handler is, the last_sequence it was opened with, what
\* the snapshot said, the rows still to replay and the queue the hub fills.
Connection ==
    [phase : Phase, cursor : Nat, latest : 0..MaxSequence, cutoff : Nat,
     replay : SUBSET Number, queue : Seq(Number)]

\* A client: the number it will reconnect with and the events it has, those
\* included that came with a full reload.
ClientState == [last : Nat, seen : SUBSET Number]

Off == [phase |-> "off", cursor |-> 0, latest |-> 0, cutoff |-> 0, replay |-> {},
        queue |-> <<>>]

TypeOK ==
    /\ latest \in 0..MaxSequence
    /\ published \in 0..latest
    /\ dropped \in 0..published
    /\ window \in dropped + 1 .. latest + 1
    /\ batch \in published..latest
    /\ handling \in BOOLEAN
    /\ targets \subseteq Client
    /\ hub \subseteq Client
    /\ conn \in [Client -> Connection]
    /\ client \in [Client -> ClientState]
    /\ \A c \in Client : Len(conn[c].queue) <= QueueSize

Init ==
    /\ latest = 0 /\ published = 0 /\ dropped = 0 /\ window = 1
    /\ batch = 0 /\ handling = FALSE /\ targets = {}
    /\ hub = {}
    /\ conn = [c \in Client |-> Off]
    /\ client = [c \in Client |-> [last |-> 0, seen |-> {}]]

-----------------------------------------------------------------------------
(***************************************************************************)
(* The log: commits, time and retention (EventLog)                         *)
(***************************************************************************)
Commit ==
    /\ latest' \in latest + 1 .. MaxSequence
    /\ UNCHANGED <<published, dropped, window, batch, handling, targets, hub, conn, client>>

\* An event leaves the replay hours.
Age ==
    /\ window <= latest
    /\ window' = window + 1
    /\ UNCHANGED <<latest, published, dropped, batch, handling, targets, hub, conn, client>>

\* Rows published before the cutoff are deleted; a row that was published late
\* stays longer than its age says.
Purge ==
    /\ dropped' \in dropped + 1 .. published
    /\ dropped' < window
    /\ UNCHANGED <<latest, published, window, batch, handling, targets, hub, conn, client>>

-----------------------------------------------------------------------------
(***************************************************************************)
(* The dispatcher and the hub                                              *)
(***************************************************************************)
\* The unpublished rows are read in the order of their numbers.
ReadBatch ==
    /\ batch = published /\ published < latest
    /\ batch' = latest
    /\ UNCHANGED <<log, handling, targets, hub, conn, client>>

\* hub.publish copies the set of connections before it goes through it.
Handle ==
    /\ ~handling /\ published < batch
    /\ handling' = TRUE
    /\ targets' = IF published + 1 \in Hidden THEN {} ELSE hub
    /\ UNCHANGED <<log, batch, hub, conn, client>>

Room(c) == Len(conn[c].queue) < QueueSize

Enqueue(c) ==
    /\ c \in targets /\ Room(c)
    /\ conn' = [conn EXCEPT ![c].queue = Append(@, published + 1)]
    /\ targets' = targets \ {c}
    /\ UNCHANGED <<log, batch, handling, hub, client>>

\* Variant: an event that finds the queue full is skipped.
SkipSlowConsumer(c) ==
    /\ c \in targets /\ ~Room(c)
    /\ targets' = targets \ {c}
    /\ UNCHANGED <<log, batch, handling, hub, conn, client>>

\* QueueFull: the connection is closed with 1013 and leaves the hub.
CloseSlowConsumer(c) ==
    /\ c \in targets /\ ~Room(c)
    /\ conn' = [conn EXCEPT ![c].phase = "broken"]
    /\ hub' = hub \ {c}
    /\ targets' = targets \ {c}
    /\ UNCHANGED <<log, batch, handling, client>>

\* Variant: a row whose handler failed counts as published.
SkipFailedRow(c) ==
    /\ c \in targets /\ ~Room(c)
    /\ conn[c].phase = "broken"
    /\ published' = published + 1
    /\ handling' = FALSE /\ targets' = {}
    /\ UNCHANGED <<latest, dropped, window, batch, hub, conn, client>>

\* close() raises on a socket that is gone: the handler fails, the rest of the
\* batch is given up and the row is tried again at the next poll.
HandlerFails(c) ==
    /\ c \in targets /\ ~Room(c)
    /\ conn[c].phase = "broken"
    /\ handling' = FALSE /\ targets' = {} /\ batch' = published
    /\ UNCHANGED <<log, hub, conn, client>>

\* published_at is set after the handler has returned.
MarkPublished ==
    /\ handling /\ targets = {}
    /\ published' = published + 1
    /\ handling' = FALSE
    /\ UNCHANGED <<latest, dropped, window, batch, targets, hub, conn, client>>

-----------------------------------------------------------------------------
(***************************************************************************)
(* One WebSocket connection                                                *)
(***************************************************************************)
\* Variant: the connection is not registered before the snapshot is read.
AuthenticateOnly(c) ==
    /\ conn[c].phase = "off"
    /\ conn' = [conn EXCEPT ![c] = [Off EXCEPT !.phase = "snapshot", !.cursor = client[c].last]]
    /\ UNCHANGED <<log, dispatcher, hub, client>>

\* The client sends its last_sequence; the hub gets the connection first of all.
Authenticate(c) ==
    /\ conn[c].phase = "off"
    /\ hub' = hub \cup {c}
    /\ conn' = [conn EXCEPT ![c] = [Off EXCEPT !.phase = "snapshot", !.cursor = client[c].last]]
    /\ UNCHANGED <<log, dispatcher, client>>

\* The window still holds everything after the cursor.
InWindow(c) == window <= latest /\ window - 1 <= conn[c].cursor

\* ready: nothing to replay, or everything after the cursor can be.
Ready(c) ==
    /\ conn[c].phase = "snapshot"
    /\ conn[c].cursor < latest => InWindow(c)
    /\ conn' = [conn EXCEPT
                  ![c].phase = IF conn[c].cursor < latest THEN "select" ELSE "drain",
                  ![c].latest = latest, ![c].cutoff = window]
    /\ UNCHANGED <<log, dispatcher, hub, client>>

\* full_resync_required and a close with 4409: the client has to reload.
Resync(c) ==
    /\ conn[c].phase = "snapshot"
    /\ conn[c].cursor < latest /\ ~InWindow(c)
    /\ conn' = [conn EXCEPT ![c].phase = "broken"]
    /\ UNCHANGED <<log, dispatcher, hub, client>>

\* The client, while it is not connected, loads the command overview: all there is
\* up to the realtime.latest_sequence of the response.
Reload(c) ==
    /\ conn[c].phase = "off"
    /\ client' = [client EXCEPT ![c] = [last |-> latest, seen |-> 1..latest]]
    /\ UNCHANGED <<log, dispatcher, hub, conn>>

\* The rows to replay are selected after "ready" was sent.
SelectReplay(c) ==
    LET rows == {n \in dropped + 1 .. conn[c].latest :
                    n > conn[c].cursor /\ n >= conn[c].cutoff /\ n \notin Hidden}
    IN  /\ conn[c].phase = "select"
        /\ conn' = [conn EXCEPT ![c].phase = "replay",
                                ![c].replay = rows]
        /\ UNCHANGED <<log, dispatcher, hub, client>>

\* The client gets event n on connection k, which is what remains of the handler's state.
Send(c, k, n) ==
    /\ conn' = [conn EXCEPT ![c] = k]
    /\ client' = [client EXCEPT ![c].last = IF n > @ THEN n ELSE @, ![c].seen = @ \cup {n}]
    /\ UNCHANGED <<log, dispatcher, hub>>

\* The rows were selected in the order of their numbers.
SendReplayed(c) ==
    LET k == conn[c]
    IN  /\ k.phase = "replay"
        /\ \E n \in k.replay :
              /\ \A m \in k.replay : n <= m
              /\ Send(c, [k EXCEPT !.replay = @ \ {n}], n)

EndReplay(c) ==
    /\ conn[c].phase = "replay" /\ conn[c].replay = {}
    /\ conn' = [conn EXCEPT ![c].phase = "drain"]
    /\ UNCHANGED <<log, dispatcher, hub, client>>

\* What was queued meanwhile is sent if it is newer than the snapshot.
DrainNewer(c) ==
    LET k == conn[c]
    IN  /\ k.phase = "drain" /\ k.queue # <<>> /\ Head(k.queue) > k.latest
        /\ Send(c, [k EXCEPT !.queue = Tail(@)], Head(k.queue))

\* Variant: the comparison is off by one.
DrainReplayedOffByOne(c) ==
    /\ conn[c].phase = "drain" /\ conn[c].queue # <<>>
    /\ Head(conn[c].queue) <= conn[c].latest + 1
    /\ conn' = [conn EXCEPT ![c].queue = Tail(@)]
    /\ UNCHANGED <<log, dispatcher, hub, client>>

DrainReplayed(c) ==
    /\ conn[c].phase = "drain" /\ conn[c].queue # <<>>
    /\ Head(conn[c].queue) <= conn[c].latest
    /\ conn' = [conn EXCEPT ![c].queue = Tail(@)]
    /\ UNCHANGED <<log, dispatcher, hub, client>>

StartSender(c) ==
    /\ conn[c].phase = "drain" /\ conn[c].queue = <<>>
    /\ conn' = [conn EXCEPT ![c].phase = "live"]
    /\ UNCHANGED <<log, dispatcher, hub, client>>

\* The sender task sends whatever the queue holds.
SendQueued(c) ==
    LET k == conn[c]
    IN  /\ k.phase = "live" /\ k.queue # <<>>
        /\ Send(c, [k EXCEPT !.queue = Tail(@)], Head(k.queue))

\* The client leaves, misses its heartbeats, or its token expires.
Disconnect(c) ==
    /\ conn[c].phase \notin {"off", "broken"}
    /\ conn' = [conn EXCEPT ![c].phase = "broken"]
    /\ UNCHANGED <<log, dispatcher, hub, client>>

\* Variant: the handler ends with the connection left in the hub and its phase unknown.
CleanupAsClosed(c) ==
    /\ conn[c].phase = "broken"
    /\ conn' = [conn EXCEPT ![c].phase = "closed"]
    /\ UNCHANGED <<log, dispatcher, hub, client>>

\* Until the handler reaches its finally block, the connection stays in the hub.
\* A publish that still holds the old connection fills a queue nobody reads.
Cleanup(c) ==
    /\ conn[c].phase = "broken"
    /\ hub' = hub \ {c}
    /\ targets' = targets \ {c}
    /\ conn' = [conn EXCEPT ![c] = Off]
    /\ UNCHANGED <<log, batch, handling, client>>

\* The process dies: the hub and the connections are only in its memory.
Crash ==
    /\ batch' = published /\ handling' = FALSE /\ targets' = {}
    /\ hub' = {}
    /\ conn' = [c \in Client |-> Off]
    /\ UNCHANGED <<log, client>>

-----------------------------------------------------------------------------
Dispatch ==
    \/ ReadBatch
    \/ Handle
    \/ \E c \in Client : Enqueue(c)
    \/ \E c \in Client : CloseSlowConsumer(c)
    \/ \E c \in Client : HandlerFails(c)
    \/ MarkPublished

Connect(c) ==
    \/ Authenticate(c)
    \/ Ready(c)
    \/ Resync(c)
    \/ Reload(c)
    \/ SelectReplay(c)
    \/ SendReplayed(c)
    \/ EndReplay(c)
    \/ DrainNewer(c)
    \/ DrainReplayed(c)
    \/ StartSender(c)
    \/ SendQueued(c)
    \/ Disconnect(c)
    \/ Cleanup(c)

Next ==
    \/ Commit
    \/ Age
    \/ Purge
    \/ Dispatch
    \/ \E c \in Client : Connect(c)
    \/ Crash

Spec == Init /\ [][Next]_vars

\* The dispatcher loop polls as long as the process runs, and the finally block
\* of a handler whose socket is gone is reached.  hub.publish goes through a set of
\* connections in the order of their addresses, new with each connection: the same
\* connection does not come after a failing one every time.  Nothing is assumed of
\* the clients.
Fairness ==
    /\ WF_vars(Dispatch)
    /\ \A c \in Client : SF_vars(Enqueue(c)) /\ WF_vars(Cleanup(c))

FairSpec == Spec /\ Fairness

-----------------------------------------------------------------------------
(***************************************************************************)
(* Properties                                                              *)
(***************************************************************************)
\* An event a client has to have: visible, and not yet older than the window.
Due(n) == n \notin Hidden /\ n >= window

\* A client that reconnects with the number of the newest event it has got asks
\* for all it lacks: below that number it misses no event of the window, whatever
\* was committed, published or purged while its connection was being set up.
NothingMissedBelowCursor ==
    \A c \in Client : \A n \in 1..client[c].last : Due(n) => n \in client[c].seen

\* The dispatcher sets published_at only when every live connection has the event
\* or has it in its queue; otherwise nobody would ever send it.
PublishedIsHandedOver ==
    \A c \in Client : conn[c].phase = "live" =>
        \A n \in 1..published : Due(n) =>
            n \in client[c].seen \/ n \in ToSet(conn[c].queue)

\* An event committed while a connection is live is put in its queue at last, unless
\* the connection ends: no other connection can hold the dispatcher up for ever, though
\* one that fails makes it give up the row for all of them.
EventuallyQueued ==
    \A c \in Client, n \in Number :
        (conn[c].phase = "live" /\ n <= latest /\ n \notin Hidden)
            ~> (n \in client[c].seen \/ n \in ToSet(conn[c].queue)
                  \/ conn[c].phase # "live" \/ n < window)
=============================================================================
