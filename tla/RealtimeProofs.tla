-------------------------- MODULE RealtimeProofs ---------------------------
(***************************************************************************)
(* Theorems about module Realtime, for any clients, any hidden events and  *)
(* any size of the log and of the queues.                                  *)
(*                                                                         *)
(* What a client lacks is always somewhere it will come from: among the    *)
(* rows its handler is about to replay, in its queue, or with the          *)
(* dispatcher, which has not reached the connection yet.  The inductive    *)
(* invariant follows it from phase to phase.                               *)
(***************************************************************************)
EXTENDS Realtime, SequenceTheorems, TLAPS

-----------------------------------------------------------------------------
(***************************************************************************)
(* The inductive invariant                                                 *)
(***************************************************************************)
\* The dispatcher is inside the handler of row published + 1 and of no other.
Dispatching ==
    /\ handling => published < batch
    /\ targets # {} => handling

TypeInv == TypeOK /\ Dispatching

Has(c, n) == n \in client[c].seen \/ n \in ToSet(conn[c].queue)

\* A connection whose handler runs is one the hub publishes to.
Registered(c) == conn[c].phase \notin {"off", "broken"} => c \in hub

\* The snapshot is one of an earlier state, and the cursor is still the client's.
Opened(c) ==
    /\ conn[c].latest <= latest
    /\ conn[c].cutoff <= window
    /\ conn[c].phase \in {"snapshot", "select"} => conn[c].cursor = client[c].last

\* Up to the snapshot, a client has what it does not get by the replay.
Replayed(c) ==
    /\ conn[c].replay \subseteq 1..conn[c].latest
    /\ conn[c].phase = "replay" =>
         \A n \in 1..conn[c].latest : Due(n) => n \in client[c].seen \/ n \in conn[c].replay
    /\ conn[c].phase \in {"drain", "live"} =>
         \A n \in 1..conn[c].latest : Due(n) => n \in client[c].seen

Ascending(q) == \A i, j \in 1..Len(q) : i <= j => q[i] <= q[j]

\* A row that is handled again is queued again, after the first time.
InOrder(c) ==
    /\ \A n \in ToSet(conn[c].queue) : n <= published + 1
    /\ Ascending(conn[c].queue)

\* What was published after the snapshot was handed over.
Fed(c) ==
    conn[c].phase \in {"select", "replay", "drain", "live"} =>
        /\ \A n \in conn[c].latest + 1 .. published : Due(n) => Has(c, n)
        /\ handling /\ c \notin targets /\ published + 1 > conn[c].latest /\ Due(published + 1)
             => Has(c, published + 1)

Complete(c) == \A n \in 1..client[c].last : Due(n) => n \in client[c].seen

StreamInv(c) ==
    Registered(c) /\ Opened(c) /\ Replayed(c) /\ InOrder(c) /\ Fed(c) /\ Complete(c)

IInv == TypeInv /\ \A c \in Client : StreamInv(c)

-----------------------------------------------------------------------------
(***************************************************************************)
(* Queues                                                                  *)
(***************************************************************************)
LEMMA NumberIsNat == Number \subseteq Nat /\ \A n \in Number : 1 <= n
    BY BoundsAreNaturals DEF Number

LEMMA AppendToQueue ==
    ASSUME NEW q \in Seq(Number), NEW n \in Number, Ascending(q), \A m \in ToSet(q) : m <= n
    PROVE  /\ ToSet(Append(q, n)) = ToSet(q) \cup {n}
           /\ Ascending(Append(q, n))
<1>1. /\ Append(q, n) \in Seq(Number) /\ Len(Append(q, n)) = Len(q) + 1
      /\ \A i \in 1..Len(q) : Append(q, n)[i] = q[i]
      /\ Append(q, n)[Len(q) + 1] = n
    BY AppendProperties
<1>2. Len(q) \in Nat /\ n \in Nat /\ \A i \in 1..Len(q) : q[i] \in Nat
  <2>1. Len(q) \in Nat /\ \A i \in 1..Len(q) : q[i] \in Number
      OBVIOUS
  <2> QED
      BY <2>1, NumberIsNat
<1>3. \A i \in 1..Len(q) + 1 : i \in 1..Len(q) \/ i = Len(q) + 1
    BY <1>2
<1>4. DOMAIN q = 1..Len(q) /\ DOMAIN Append(q, n) = 1..Len(q) + 1
    BY <1>1
<1>5. \A i \in 1..Len(q) : q[i] <= n
    BY <1>4 DEF ToSet
<1>6. ToSet(Append(q, n)) = ToSet(q) \cup {n}
  <2>1. \A i \in 1..Len(q) : i \in 1..Len(q) + 1
      BY <1>2
  <2>2. Len(q) + 1 \in 1..Len(q) + 1
      BY <1>2
  <2> QED
      BY <1>1, <1>3, <1>4, <2>1, <2>2 DEF ToSet
<1>7. Ascending(Append(q, n))
  <2> SUFFICES ASSUME NEW i \in 1..Len(q) + 1, NEW j \in 1..Len(q) + 1, i <= j
               PROVE  Append(q, n)[i] <= Append(q, n)[j]
      BY <1>1 DEF Ascending
  <2>1. CASE j = Len(q) + 1
      BY <1>1, <1>2, <1>3, <1>5, <2>1
  <2>2. CASE j \in 1..Len(q)
    <3>1. i \in 1..Len(q)
        BY <1>2, <2>2
    <3> QED
        BY <1>1, <2>2, <3>1 DEF Ascending
  <2> QED
      BY <1>3, <2>1, <2>2
<1> QED
    BY <1>6, <1>7

LEMMA TakeFromQueue ==
    ASSUME NEW q \in Seq(Number), q # <<>>, Ascending(q)
    PROVE  /\ Head(q) \in ToSet(q)
           /\ ToSet(q) \subseteq ToSet(Tail(q)) \cup {Head(q)}
           /\ ToSet(Tail(q)) \subseteq ToSet(q)
           /\ \A n \in ToSet(q) : Head(q) <= n
           /\ Ascending(Tail(q))
<1>1. /\ Tail(q) \in Seq(Number) /\ Len(Tail(q)) = Len(q) - 1
      /\ \A i \in 1..Len(q) - 1 : Tail(q)[i] = q[i + 1]
    BY HeadTailProperties
<1>2. Len(q) \in Nat /\ Len(q) > 0 /\ \A i \in 1..Len(q) : q[i] \in Nat
  <2>1. Len(q) \in Nat /\ \A i \in 1..Len(q) : q[i] \in Number
      OBVIOUS
  <2>2. Len(q) # 0
      BY EmptySeq
  <2>3. Len(q) > 0
      BY <2>1, <2>2
  <2> QED
      BY <2>1, <2>3, NumberIsNat
<1>3. DOMAIN q = 1..Len(q) /\ DOMAIN Tail(q) = 1..Len(q) - 1 /\ Head(q) = q[1]
    BY <1>1, <1>2
<1>4. 1 \in 1..Len(q)
    BY <1>2
<1>5. \A i \in 1..Len(q) : i = 1 \/ (i - 1 \in 1..Len(q) - 1 /\ Tail(q)[i - 1] = q[i])
    BY <1>1, <1>2
<1>6. \A i \in 1..Len(q) - 1 : i + 1 \in 1..Len(q) /\ Tail(q)[i] = q[i + 1]
    BY <1>1, <1>2
<1>7. Head(q) \in ToSet(q)
    BY <1>3, <1>4 DEF ToSet
<1>8. ToSet(q) \subseteq ToSet(Tail(q)) \cup {Head(q)}
    BY <1>3, <1>5 DEF ToSet
<1>9. ToSet(Tail(q)) \subseteq ToSet(q)
    BY <1>3, <1>6 DEF ToSet
<1>10. \A n \in ToSet(q) : Head(q) <= n
  <2>1. \A i \in 1..Len(q) : q[1] <= q[i]
      BY <1>4 DEF Ascending
  <2> QED
      BY <1>3, <2>1 DEF ToSet
<1>11. Ascending(Tail(q))
  <2> SUFFICES ASSUME NEW i \in 1..Len(q) - 1, NEW j \in 1..Len(q) - 1, i <= j
               PROVE  Tail(q)[i] <= Tail(q)[j]
      BY <1>1 DEF Ascending
  <2>1. i + 1 <= j + 1
      BY <1>2
  <2> QED
      BY <1>6, <2>1 DEF Ascending
<1> QED
    BY <1>7, <1>8, <1>9, <1>10, <1>11

\* The numbers in a queue are numbers of events.
LEMMA QueueOfNumbers ==
    ASSUME TypeOK, NEW c \in Client
    PROVE  conn[c].queue \in Seq(Number) /\ ToSet(conn[c].queue) \subseteq Number
<1>1. conn[c] \in Connection
    BY DEF TypeOK
<1>2. conn[c].queue \in Seq(Number)
    BY <1>1 DEF Connection
<1>3. \A i \in 1..Len(conn[c].queue) : conn[c].queue[i] \in Number
    BY <1>2
<1>4. DOMAIN conn[c].queue = 1..Len(conn[c].queue)
    BY <1>2
<1> QED
    BY <1>2, <1>3, <1>4 DEF ToSet

-----------------------------------------------------------------------------
(***************************************************************************)
(* Types                                                                   *)
(***************************************************************************)
LEMMA LogTypes ==
    ASSUME TypeOK
    PROVE  /\ latest \in Nat /\ published \in Nat /\ dropped \in Nat /\ window \in Nat /\ batch \in Nat
           /\ dropped <= published /\ published <= batch /\ batch <= latest /\ latest <= MaxSequence
           /\ dropped < window /\ window <= latest + 1
    BY BoundsAreNaturals DEF TypeOK

\* A connection that becomes another one.
LEMMA ConnectionTypes ==
    ASSUME TypeOK, NEW c \in Client, NEW k \in Connection, Len(k.queue) <= QueueSize,
           conn' = [conn EXCEPT ![c] = k]
    PROVE  /\ conn' \in [Client -> Connection]
           /\ \A d \in Client : Len(conn'[d].queue) <= QueueSize
    BY DEF TypeOK

LEMMA OffIsConnection == Off \in Connection /\ Len(Off.queue) = 0
    BY BoundsAreNaturals DEF Off, Connection, Phase

\* A row that is published is within the log.
LEMMA NextRow ==
    ASSUME TypeInv, handling
    PROVE  published + 1 \in Number
<1>1. TypeOK /\ published < batch
    BY DEF TypeInv, Dispatching
<1>2. published \in Nat /\ MaxSequence \in Nat /\ published + 1 <= MaxSequence
    BY <1>1, LogTypes, BoundsAreNaturals
<1> QED
    BY <1>2 DEF Number

LEMMA DispatchTypes ==
    ASSUME TypeInv, Dispatch
    PROVE  TypeInv'
<1>1. TypeOK /\ Dispatching
    BY DEF TypeInv
<1>2. CASE ReadBatch
    BY <1>1, <1>2, LogTypes DEF ReadBatch, TypeOK, TypeInv, Dispatching, log
<1>3. CASE Handle
  <2>1. targets' \subseteq Client
      BY <1>1, <1>3 DEF Handle, TypeOK
  <2> QED
      BY <1>1, <1>3, <2>1 DEF Handle, TypeOK, TypeInv, Dispatching, log
<1>4. ASSUME NEW c \in Client, Enqueue(c) PROVE TypeInv'
  <2> DEFINE q == Append(conn[c].queue, published + 1)
             k == [conn[c] EXCEPT !.queue = q]
  <2>1. handling /\ targets # {}
      BY <1>1, <1>4 DEF Enqueue, Dispatching
  <2>2. conn[c] \in Connection /\ conn[c].queue \in Seq(Number) /\ published + 1 \in Number
      BY <1>1, <2>1, NextRow, QueueOfNumbers DEF TypeOK
  <2>3. q \in Seq(Number) /\ Len(q) = Len(conn[c].queue) + 1
      BY <2>2, AppendProperties
  <2>4. Len(q) <= QueueSize
      BY <1>4, <2>2, <2>3, BoundsAreNaturals DEF Enqueue, Room
  <2>5. k \in Connection /\ k.queue = q
      BY <2>2, <2>3 DEF Connection
  <2>6. conn' = [conn EXCEPT ![c] = k]
      BY <1>4 DEF Enqueue
  <2> HIDE DEF k, q
  <2>7. /\ conn' \in [Client -> Connection]
        /\ \A d \in Client : Len(conn'[d].queue) <= QueueSize
      BY <1>1, <2>4, <2>5, <2>6, ConnectionTypes
  <2> QED
      BY <1>1, <1>4, <2>1, <2>7 DEF Enqueue, TypeOK, TypeInv, Dispatching, log
<1>5. ASSUME NEW c \in Client, CloseSlowConsumer(c) PROVE TypeInv'
  <2> DEFINE k == [conn[c] EXCEPT !.phase = "broken"]
  <2>1. conn[c] \in Connection /\ Len(conn[c].queue) <= QueueSize
      BY <1>1 DEF TypeOK
  <2>2. k \in Connection /\ Len(k.queue) <= QueueSize
      BY <2>1 DEF Connection, Phase
  <2>3. conn' = [conn EXCEPT ![c] = k]
      BY <1>5 DEF CloseSlowConsumer
  <2> HIDE DEF k
  <2>4. /\ conn' \in [Client -> Connection]
        /\ \A d \in Client : Len(conn'[d].queue) <= QueueSize
      BY <1>1, <2>2, <2>3, ConnectionTypes
  <2> QED
      BY <1>1, <1>5, <2>4 DEF CloseSlowConsumer, TypeOK, TypeInv, Dispatching, log
<1>6. ASSUME NEW c \in Client, HandlerFails(c) PROVE TypeInv'
  <2>1. batch' \in published..latest
      BY <1>1, <1>6, LogTypes DEF HandlerFails
  <2> QED
      BY <1>1, <1>6, <2>1 DEF HandlerFails, TypeOK, TypeInv, Dispatching, log
<1>7. CASE MarkPublished
  <2>1. published' \in 0..latest /\ batch \in published'..latest /\ dropped \in 0..published'
      BY <1>1, <1>7, LogTypes DEF MarkPublished, Dispatching
  <2> QED
      BY <1>1, <1>7, <2>1 DEF MarkPublished, TypeOK, TypeInv, Dispatching
<1> QED
    BY <1>2, <1>3, <1>4, <1>5, <1>6, <1>7 DEF Dispatch

\* What a client is sent.
LEMMA SendTypes ==
    ASSUME TypeInv, NEW c \in Client, NEW k \in Connection, Len(k.queue) <= QueueSize,
           NEW n \in Number, Send(c, k, n)
    PROVE  TypeInv'
<1>1. TypeOK /\ Dispatching
    BY DEF TypeInv
<1>2. /\ conn' \in [Client -> Connection]
      /\ \A d \in Client : Len(conn'[d].queue) <= QueueSize
    BY <1>1, ConnectionTypes DEF Send
<1>3. client' \in [Client -> ClientState]
  <2>1. client[c] \in ClientState /\ n \in Nat
      BY <1>1, NumberIsNat DEF TypeOK
  <2> DEFINE l == [client[c] EXCEPT !.last = IF n > @ THEN n ELSE @, !.seen = @ \cup {n}]
  <2>2. l \in ClientState
      BY <2>1 DEF ClientState
  <2>3. client' = [client EXCEPT ![c] = l]
      BY DEF Send
  <2> HIDE DEF l
  <2> QED
      BY <1>1, <2>2, <2>3 DEF TypeOK
<1> QED
    BY <1>1, <1>2, <1>3 DEF Send, TypeOK, TypeInv, Dispatching, log, dispatcher

\* The queue without its head.
LEMMA ShorterQueue ==
    ASSUME TypeOK, NEW c \in Client, conn[c].queue # <<>>
    PROVE  /\ Head(conn[c].queue) \in Number
           /\ [conn[c] EXCEPT !.queue = Tail(@)] \in Connection
           /\ Len(Tail(conn[c].queue)) <= QueueSize
<1>1. conn[c] \in Connection /\ conn[c].queue \in Seq(Number) /\ Len(conn[c].queue) <= QueueSize
    BY QueueOfNumbers DEF TypeOK
<1>2. /\ Tail(conn[c].queue) \in Seq(Number) /\ Head(conn[c].queue) \in Number
      /\ Len(Tail(conn[c].queue)) = Len(conn[c].queue) - 1
    BY <1>1, HeadTailProperties
<1>3. Len(Tail(conn[c].queue)) <= QueueSize
    BY <1>1, <1>2, BoundsAreNaturals
<1>4. [conn[c] EXCEPT !.queue = Tail(@)] \in Connection
    BY <1>1, <1>2 DEF Connection
<1> QED
    BY <1>2, <1>3, <1>4

\* A step of a handler that sends nothing.
LEMMA HandlerTypes ==
    ASSUME TypeInv, NEW c \in Client, NEW k \in Connection, Len(k.queue) <= QueueSize,
           conn' = [conn EXCEPT ![c] = k], hub' \subseteq Client, targets' \subseteq targets,
           UNCHANGED <<log, batch, handling, client>>
    PROVE  TypeInv'
<1>1. TypeOK /\ Dispatching
    BY DEF TypeInv
<1>2. /\ conn' \in [Client -> Connection]
      /\ \A d \in Client : Len(conn'[d].queue) <= QueueSize
    BY <1>1, ConnectionTypes
<1> QED
    BY <1>1, <1>2 DEF TypeOK, TypeInv, Dispatching, log

LEMMA ConnectTypes ==
    ASSUME TypeInv, NEW c \in Client, Connect(c)
    PROVE  TypeInv'
<1>1. TypeOK /\ Dispatching
    BY DEF TypeInv
<1>2. /\ conn[c] \in Connection /\ Len(conn[c].queue) <= QueueSize
      /\ client[c] \in ClientState /\ hub \subseteq Client
    BY <1>1 DEF TypeOK
<1>3. latest \in Nat /\ dropped \in Nat /\ window \in Nat
    BY <1>1, LogTypes
<1>4. CASE Authenticate(c)
  <2> DEFINE k == [Off EXCEPT !.phase = "snapshot", !.cursor = client[c].last]
  <2>1. k \in Connection /\ Len(k.queue) <= QueueSize
    <3>1. client[c].last \in Nat
        BY <1>2 DEF ClientState
    <3>2. k \in Connection
        BY <3>1, OffIsConnection DEF Connection, Phase
    <3>3. k.queue = Off.queue
        BY DEF Off
    <3> QED
        BY <3>2, <3>3, OffIsConnection, BoundsAreNaturals
  <2>2. conn' = [conn EXCEPT ![c] = k] /\ hub' \subseteq Client /\ targets' \subseteq targets
        /\ UNCHANGED <<log, batch, handling, client>>
      BY <1>2, <1>4 DEF Authenticate, dispatcher
  <2> HIDE DEF k
  <2> QED
      BY <2>1, <2>2, HandlerTypes
<1>5. CASE Ready(c)
  <2> DEFINE p == IF conn[c].cursor < latest THEN "select" ELSE "drain"
             k == [conn[c] EXCEPT !.phase = p, !.latest = latest, !.cutoff = window]
  <2>1. k \in Connection /\ Len(k.queue) <= QueueSize
      BY <1>1, <1>2, <1>3 DEF Connection, Phase, TypeOK
  <2>2. conn' = [conn EXCEPT ![c] = k] /\ hub' \subseteq Client /\ targets' \subseteq targets
        /\ UNCHANGED <<log, batch, handling, client>>
      BY <1>2, <1>5 DEF Ready, dispatcher
  <2> HIDE DEF k
  <2> QED
      BY <2>1, <2>2, HandlerTypes
<1>6. ASSUME NEW p \in Phase, conn' = [conn EXCEPT ![c].phase = p], UNCHANGED <<log, dispatcher, hub, client>>
      PROVE  TypeInv'
  <2> DEFINE k == [conn[c] EXCEPT !.phase = p]
  <2>1. k \in Connection /\ Len(k.queue) <= QueueSize
      BY <1>2 DEF Connection
  <2>2. conn' = [conn EXCEPT ![c] = k] /\ hub' \subseteq Client /\ targets' \subseteq targets
        /\ UNCHANGED <<log, batch, handling, client>>
      BY <1>2, <1>6 DEF dispatcher
  <2> HIDE DEF k
  <2> QED
      BY <2>1, <2>2, HandlerTypes
<1>7. Resync(c) \/ EndReplay(c) \/ StartSender(c) \/ Disconnect(c) => TypeInv'
    BY <1>6 DEF Resync, EndReplay, StartSender, Disconnect, Phase
<1>8. CASE Reload(c)
  <2>1. 1..latest \subseteq Number
      BY <1>1, <1>3, LogTypes, BoundsAreNaturals DEF Number
  <2>2. [last |-> latest, seen |-> 1..latest] \in ClientState
      BY <1>3, <2>1 DEF ClientState
  <2>3. client' \in [Client -> ClientState]
      BY <1>1, <1>8, <2>2 DEF Reload, TypeOK
  <2> QED
      BY <1>1, <1>8, <2>3 DEF Reload, TypeOK, TypeInv, Dispatching, log, dispatcher
<1>9. CASE SelectReplay(c)
  <2> DEFINE rows == {n \in dropped + 1 .. conn[c].latest :
                        n > conn[c].cursor /\ n >= conn[c].cutoff /\ n \notin Hidden}
             k == [conn[c] EXCEPT !.phase = "replay", !.replay = rows]
  <2>1. rows \subseteq Number
    <3>1. conn[c].latest \in Nat /\ conn[c].latest <= MaxSequence
        BY <1>2, BoundsAreNaturals DEF Connection
    <3> QED
        BY <1>3, <3>1, BoundsAreNaturals DEF Number
  <2> HIDE DEF rows
  <2>2. k \in Connection /\ Len(k.queue) <= QueueSize
      BY <1>2, <2>1 DEF Connection, Phase
  <2>3. conn' = [conn EXCEPT ![c] = k] /\ hub' \subseteq Client /\ targets' \subseteq targets
        /\ UNCHANGED <<log, batch, handling, client>>
      BY <1>2, <1>9 DEF SelectReplay, dispatcher, rows
  <2> HIDE DEF k
  <2> QED
      BY <2>2, <2>3, HandlerTypes
<1>10. CASE SendReplayed(c)
  <2> DEFINE k(n) == [conn[c] EXCEPT !.replay = @ \ {n}]
  <2>1. PICK n \in conn[c].replay : Send(c, k(n), n)
      BY <1>10 DEF SendReplayed
  <2>2. n \in Number /\ k(n) \in Connection /\ Len(k(n).queue) <= QueueSize
      BY <1>2 DEF Connection
  <2> HIDE DEF k
  <2> QED
      BY <2>1, <2>2, SendTypes
<1>11. ASSUME conn[c].queue # <<>>
       PROVE  LET k == [conn[c] EXCEPT !.queue = Tail(@)]
              IN  Head(conn[c].queue) \in Number /\ k \in Connection /\ Len(k.queue) <= QueueSize
    BY <1>1, <1>2, <1>11, ShorterQueue DEF Connection
<1>12. CASE DrainNewer(c) \/ SendQueued(c)
  <2> DEFINE k == [conn[c] EXCEPT !.queue = Tail(@)]
  <2>1. conn[c].queue # <<>> /\ Send(c, k, Head(conn[c].queue))
      BY <1>12 DEF DrainNewer, SendQueued
  <2>2. Head(conn[c].queue) \in Number /\ k \in Connection /\ Len(k.queue) <= QueueSize
      BY <1>11, <2>1
  <2> HIDE DEF k
  <2> QED
      BY <2>1, <2>2, SendTypes
<1>13. CASE DrainReplayed(c)
  <2> DEFINE k == [conn[c] EXCEPT !.queue = Tail(@)]
  <2>1. k \in Connection /\ Len(k.queue) <= QueueSize
      BY <1>11, <1>13 DEF DrainReplayed
  <2>2. conn' = [conn EXCEPT ![c] = k] /\ hub' \subseteq Client /\ targets' \subseteq targets
        /\ UNCHANGED <<log, batch, handling, client>>
      BY <1>2, <1>13 DEF DrainReplayed, dispatcher
  <2> HIDE DEF k
  <2> QED
      BY <2>1, <2>2, HandlerTypes
<1>14. CASE Cleanup(c)
  <2>1. Off \in Connection /\ Len(Off.queue) <= QueueSize
      BY OffIsConnection, BoundsAreNaturals
  <2>2. conn' = [conn EXCEPT ![c] = Off] /\ hub' \subseteq Client /\ targets' \subseteq targets
        /\ UNCHANGED <<log, batch, handling, client>>
      BY <1>2, <1>14 DEF Cleanup
  <2> QED
      BY <2>1, <2>2, HandlerTypes
<1> QED
    BY <1>4, <1>5, <1>7, <1>8, <1>9, <1>10, <1>12, <1>13, <1>14 DEF Connect

-----------------------------------------------------------------------------
(***************************************************************************)
(* What a client lacks                                                     *)
(***************************************************************************)
\* The numbers a connection and its client are compared by.
LEMMA StreamTypes ==
    ASSUME TypeOK, NEW c \in Client
    PROVE  /\ conn[c].latest \in Nat /\ conn[c].cutoff \in Nat /\ conn[c].cursor \in Nat
           /\ conn[c].latest <= MaxSequence
           /\ conn[c].replay \subseteq Number
           /\ client[c].last \in Nat /\ client[c].seen \subseteq Number
    BY BoundsAreNaturals DEF TypeOK, Connection, ClientState

\* A step that leaves connection and client alone, and takes no row from the dispatcher
\* that the connection does not have.
LEMMA Undisturbed ==
    ASSUME TypeOK, TypeOK', NEW d \in Client, StreamInv(d),
           conn'[d] = conn[d], client'[d] = client[d],
           published' = published, latest <= latest', window <= window',
           d \in hub => d \in hub',
           handling' /\ d \notin targets' =>
             \/ handling /\ d \notin targets
             \/ published + 1 \in Hidden
             \/ conn[d].phase \in {"off", "broken"}
    PROVE  StreamInv(d)'
<1>1. /\ latest \in Nat /\ window \in Nat /\ published \in Nat
      /\ latest' \in Nat /\ window' \in Nat /\ published' \in Nat
    BY BoundsAreNaturals DEF TypeOK
<1>2. conn[d].latest \in Nat /\ conn[d].cutoff \in Nat /\ client[d].last \in Nat
    BY StreamTypes
<1>3. \A n \in Nat : Due(n)' => Due(n)
    BY <1>1 DEF Due
<1>4. Registered(d)'
    BY DEF StreamInv, Registered
<1>5. Opened(d)'
    BY <1>1, <1>2 DEF StreamInv, Opened
<1>6. Replayed(d)'
    BY <1>2, <1>3 DEF StreamInv, Replayed
<1>7. InOrder(d)'
    BY DEF StreamInv, InOrder
<1>8. Fed(d)'
  <2>1. \A n : Has(d, n)' <=> Has(d, n)
      BY DEF Has
  <2>2. published + 1 \in Nat /\ \A n \in conn[d].latest + 1 .. published : n \in Nat
      BY <1>1, <1>2
  <2>3. published + 1 \in Hidden => ~Due(published + 1)'
      BY DEF Due
  <2> QED
      BY <1>3, <2>1, <2>2, <2>3 DEF StreamInv, Fed
<1>9. Complete(d)'
    BY <1>2, <1>3 DEF StreamInv, Complete
<1> QED
    BY <1>4, <1>5, <1>6, <1>7, <1>8, <1>9 DEF StreamInv

\* A connection whose handler is at its end or gone: only its client matters.
LEMMA Parked ==
    ASSUME TypeOK, TypeOK', NEW c \in Client, StreamInv(c),
           conn'[c].phase \in {"off", "broken"}, conn'[c] = Off \/ conn'[c] = [conn[c] EXCEPT !.phase = "broken"],
           client'[c] = client[c], UNCHANGED log
    PROVE  StreamInv(c)'
<1>1. /\ latest \in Nat /\ window \in Nat /\ published \in Nat /\ client[c].last \in Nat
      /\ conn[c] \in Connection
    BY LogTypes, StreamTypes DEF TypeOK
<1>2. Registered(c)' /\ Fed(c)'
    BY DEF Registered, Fed
<1>3. \/ /\ conn'[c].latest = 0 /\ conn'[c].cutoff = 0 /\ conn'[c].replay = {} /\ conn'[c].queue = <<>>
      \/ /\ conn'[c].latest = conn[c].latest /\ conn'[c].cutoff = conn[c].cutoff
         /\ conn'[c].replay = conn[c].replay /\ conn'[c].queue = conn[c].queue
    BY <1>1 DEF Off, Connection
<1>4. Opened(c)'
    BY <1>1, <1>3 DEF StreamInv, Opened, log
<1>5. Replayed(c)'
    BY <1>3 DEF StreamInv, Replayed
<1>6. InOrder(c)'
  <2>1. CASE conn'[c].queue = <<>>
      BY <2>1 DEF InOrder, Ascending, ToSet
  <2>2. CASE conn'[c].queue = conn[c].queue
      BY <2>2 DEF StreamInv, InOrder, log
  <2> QED
      BY <1>3, <2>1, <2>2
<1>7. Complete(c)'
    BY DEF StreamInv, Complete, Due, log
<1> QED
    BY <1>2, <1>4, <1>5, <1>6, <1>7 DEF StreamInv

\* The dispatcher puts the row it is handling into a queue.
LEMMA EnqueueStep ==
    ASSUME TypeInv, TypeOK', NEW c \in Client, StreamInv(c), Enqueue(c)
    PROVE  StreamInv(c)'
<1> DEFINE q == conn[c].queue
           n == published + 1
<1>1. /\ q \in Seq(Number) /\ n \in Number /\ conn[c] \in Connection
      /\ Ascending(q) /\ (\A m \in ToSet(q) : m <= n) /\ n <= n
  <2>1. handling
      BY DEF Enqueue, TypeInv, Dispatching
  <2>2. q \in Seq(Number) /\ conn[c] \in Connection
      BY QueueOfNumbers DEF TypeInv, TypeOK
  <2>3. n \in Number
      BY <2>1, NextRow
  <2>4. n <= n
      BY LogTypes DEF TypeInv
  <2> QED
      BY <2>2, <2>3, <2>4 DEF Enqueue, StreamInv, InOrder
<1> HIDE DEF q, n
<1>2. ToSet(Append(q, n)) = ToSet(q) \cup {n} /\ Ascending(Append(q, n))
    BY <1>1, AppendToQueue
<1>3. /\ conn'[c].queue = Append(q, n) /\ conn'[c].phase = conn[c].phase
      /\ conn'[c].latest = conn[c].latest /\ conn'[c].cutoff = conn[c].cutoff
      /\ conn'[c].cursor = conn[c].cursor /\ conn'[c].replay = conn[c].replay
  <2>1. conn'[c] = [conn[c] EXCEPT !.queue = Append(@, n)]
      BY DEF Enqueue, TypeInv, TypeOK, n
  <2> QED
      BY <1>1, <2>1 DEF Connection, q, n
<1>4. client' = client /\ handling' = handling /\ hub' = hub /\ latest' = latest /\ window' = window
      /\ published' = published
    BY DEF Enqueue, log
<1>5. \A m : Has(c, m)' <=> Has(c, m) \/ m = n
    BY <1>2, <1>3, <1>4 DEF Has, q
<1>6. Registered(c)' /\ Opened(c)' /\ Complete(c)'
    BY <1>3, <1>4 DEF StreamInv, Registered, Opened, Complete, Due
<1>7. Replayed(c)'
    BY <1>3, <1>4 DEF StreamInv, Replayed, Due
<1>8. InOrder(c)'
    BY <1>1, <1>2, <1>3, <1>4 DEF InOrder, n
<1>9. Fed(c)'
    BY <1>3, <1>4, <1>5 DEF StreamInv, Fed, Due, n
<1> QED
    BY <1>6, <1>7, <1>8, <1>9 DEF StreamInv

\* A row is published when no connection is left that has not got it.
LEMMA MarkPublishedStep ==
    ASSUME TypeInv, TypeOK', NEW d \in Client, StreamInv(d), MarkPublished
    PROVE  StreamInv(d)'
<1>1. /\ conn' = conn /\ client' = client /\ hub' = hub /\ latest' = latest /\ window' = window
      /\ published' = published + 1 /\ ~handling' /\ handling /\ d \notin targets
    BY DEF MarkPublished
<1>2. published \in Nat /\ conn[d].latest \in Nat
    BY LogTypes, StreamTypes DEF TypeInv
<1>3. Registered(d)' /\ Opened(d)' /\ Complete(d)' /\ Replayed(d)'
    BY <1>1 DEF StreamInv, Registered, Opened, Complete, Replayed, Due
<1>4. InOrder(d)'
  <2>1. ToSet(conn[d].queue) \subseteq Nat
      BY QueueOfNumbers, NumberIsNat DEF TypeInv
  <2> QED
      BY <1>1, <1>2, <2>1 DEF StreamInv, InOrder
<1>5. Fed(d)'
  <2> SUFFICES ASSUME conn[d].phase \in {"select", "replay", "drain", "live"},
                      NEW n \in conn[d].latest + 1 .. published + 1, Due(n)
               PROVE  Has(d, n)
      BY <1>1 DEF Fed, Has, Due
  <2>1. n \in conn[d].latest + 1 .. published \/ (n = published + 1 /\ published + 1 > conn[d].latest)
      BY <1>2
  <2> QED
      BY <1>1, <2>1 DEF StreamInv, Fed
<1> QED
    BY <1>3, <1>4, <1>5 DEF StreamInv

LEMMA DispatchStep ==
    ASSUME IInv, TypeInv', Dispatch
    PROVE  \A d \in Client : StreamInv(d)'
<1> SUFFICES ASSUME NEW d \in Client PROVE StreamInv(d)'
    OBVIOUS
<1>1. TypeInv /\ TypeOK /\ TypeOK' /\ StreamInv(d)
    BY DEF IInv, TypeInv
<1>2. latest <= latest /\ window <= window
    BY <1>1, LogTypes
<1>3. CASE ReadBatch
    BY <1>1, <1>2, <1>3, Undisturbed DEF ReadBatch, log
<1>4. CASE Handle
  <2>1. d \notin targets' => published + 1 \in Hidden \/ conn[d].phase \in {"off", "broken"}
      BY <1>1, <1>4 DEF Handle, StreamInv, Registered
  <2> QED
      BY <1>1, <1>2, <1>4, <2>1, Undisturbed DEF Handle, log
<1>5. ASSUME NEW c \in Client, Enqueue(c) PROVE StreamInv(d)'
  <2>1. CASE c = d
      BY <1>1, <1>5, <2>1, EnqueueStep
  <2>2. CASE c # d
    <3>1. /\ conn'[d] = conn[d] /\ client'[d] = client[d] /\ hub' = hub /\ handling' = handling
          /\ published' = published /\ latest' = latest /\ window' = window
          /\ d \notin targets' => d \notin targets
        BY <1>1, <1>5, <2>2 DEF Enqueue, log, TypeOK
    <3> QED
        BY <1>1, <1>2, <3>1, Undisturbed
  <2> QED
      BY <2>1, <2>2
<1>6. ASSUME NEW c \in Client, CloseSlowConsumer(c) PROVE StreamInv(d)'
  <2>1. CASE c = d
    <3>1. conn'[d] = [conn[d] EXCEPT !.phase = "broken"] /\ client'[d] = client[d] /\ UNCHANGED log
        BY <1>1, <1>6, <2>1 DEF CloseSlowConsumer, TypeOK
    <3>2. conn'[d].phase = "broken"
        BY <1>1, <3>1 DEF TypeOK, Connection
    <3> QED
        BY <1>1, <3>1, <3>2, Parked
  <2>2. CASE c # d
    <3>1. /\ conn'[d] = conn[d] /\ client'[d] = client[d] /\ handling' = handling
          /\ published' = published /\ latest' = latest /\ window' = window
          /\ d \notin targets' => d \notin targets
          /\ d \in hub => d \in hub'
        BY <1>1, <1>6, <2>2 DEF CloseSlowConsumer, log, TypeOK
    <3> QED
        BY <1>1, <1>2, <3>1, Undisturbed
  <2> QED
      BY <2>1, <2>2
<1>7. ASSUME NEW c \in Client, HandlerFails(c) PROVE StreamInv(d)'
    BY <1>1, <1>2, <1>7, Undisturbed DEF HandlerFails, log
<1>8. CASE MarkPublished
    BY <1>1, <1>8, MarkPublishedStep
<1> QED
    BY <1>3, <1>4, <1>5, <1>6, <1>7, <1>8 DEF Dispatch

\* The client gets event n, and lacks no event of the window below n.
LEMMA SendStep ==
    ASSUME TypeOK, NEW c \in Client, StreamInv(c), NEW n \in Number,
           conn'[c].phase = conn[c].phase, conn[c].phase \in {"replay", "drain", "live"},
           conn'[c].latest = conn[c].latest, conn'[c].cutoff = conn[c].cutoff,
           conn'[c].replay \subseteq conn[c].replay, conn[c].replay \subseteq conn'[c].replay \cup {n},
           ToSet(conn'[c].queue) \subseteq ToSet(conn[c].queue),
           ToSet(conn[c].queue) \subseteq ToSet(conn'[c].queue) \cup {n},
           Ascending(conn'[c].queue),
           client'[c].seen = client[c].seen \cup {n},
           client'[c].last = client[c].last \/ client'[c].last = n,
           \A m \in 1..n : Due(m) => m \in client[c].seen \/ m = n,
           UNCHANGED <<log, dispatcher, hub>>
    PROVE  StreamInv(c)'
<1>1. /\ hub' = hub /\ handling' = handling /\ targets' = targets
      /\ latest' = latest /\ window' = window /\ published' = published
    BY DEF log, dispatcher
<1>2. \A m : Due(m)' <=> Due(m)
    BY <1>1 DEF Due
<1>3. Registered(c)'
    BY <1>1 DEF StreamInv, Registered
<1>4. Opened(c)'
    BY <1>1 DEF StreamInv, Opened
<1>5. Replayed(c)'
    BY <1>2 DEF StreamInv, Replayed
<1>6. InOrder(c)'
    BY <1>1 DEF StreamInv, InOrder
<1>7. Fed(c)'
  <2>1. \A m : Has(c, m) => Has(c, m)'
      BY DEF Has
  <2> QED
      BY <1>1, <1>2, <2>1 DEF StreamInv, Fed
<1>8. Complete(c)'
    BY <1>2 DEF StreamInv, Complete
<1> QED
    BY <1>3, <1>4, <1>5, <1>6, <1>7, <1>8 DEF StreamInv

\* A client that has all that was published up to its connection's snapshot lacks, below
\* the head of the queue, nothing.
LEMMA HeadIsNext ==
    ASSUME TypeOK, NEW c \in Client, StreamInv(c), conn[c].phase \in {"drain", "live"},
           conn[c].queue # <<>>
    PROVE  \A m \in 1..Head(conn[c].queue) :
              Due(m) => m \in client[c].seen \/ m = Head(conn[c].queue)
<1> DEFINE q == conn[c].queue
           n == Head(q)
<1>1. q \in Seq(Number) /\ ToSet(q) \subseteq Number /\ q # <<>> /\ Ascending(q)
    BY QueueOfNumbers DEF StreamInv, InOrder
<1> HIDE DEF q
<1>2. n \in ToSet(q) /\ \A m \in ToSet(q) : n <= m
    BY <1>1, TakeFromQueue
<1>3. n \in Nat /\ n <= published + 1 /\ published \in Nat /\ conn[c].latest \in Nat
    BY <1>1, <1>2, NumberIsNat, LogTypes, StreamTypes DEF StreamInv, InOrder, q
<1> HIDE DEF n
<1>4. ASSUME NEW m \in 1..n, Due(m), m # n PROVE m \in client[c].seen
  <2>1. m \in Nat /\ m < n /\ m <= published /\ m >= 1
      BY <1>3, <1>4
  <2>2. m \notin ToSet(q)
      BY <1>2, <1>3, <2>1
  <2>3. CASE m <= conn[c].latest
    <3>1. m \in 1..conn[c].latest
        BY <1>3, <2>1, <2>3
    <3> QED
        BY <1>4, <3>1 DEF StreamInv, Replayed
  <2>4. CASE ~(m <= conn[c].latest)
    <3>1. m \in conn[c].latest + 1 .. published
        BY <1>3, <2>1, <2>4
    <3>2. Has(c, m)
        BY <1>4, <3>1 DEF StreamInv, Fed
    <3> QED
        BY <2>2, <3>2 DEF Has, q
  <2> QED
      BY <2>3, <2>4
<1> QED
    BY <1>4 DEF n, q

\* Sending the head of the queue.
LEMMA SendHeadStep ==
    ASSUME TypeOK, NEW c \in Client, StreamInv(c), conn[c].phase \in {"drain", "live"},
           conn[c].queue # <<>>, Send(c, [conn[c] EXCEPT !.queue = Tail(@)], Head(conn[c].queue))
    PROVE  StreamInv(c)'
<1> DEFINE q == conn[c].queue
           n == Head(q)
<1>1. q \in Seq(Number) /\ ToSet(q) \subseteq Number /\ q # <<>> /\ Ascending(q)
    BY QueueOfNumbers DEF StreamInv, InOrder
<1>2. conn[c] \in Connection /\ client[c] \in ClientState /\ c \in DOMAIN conn /\ c \in DOMAIN client
    BY DEF TypeOK
<1>3. \A m \in 1..n : Due(m) => m \in client[c].seen \/ m = n
    BY HeadIsNext
<1>4. /\ conn'[c] = [conn[c] EXCEPT !.queue = Tail(q)]
      /\ client'[c] = [client[c] EXCEPT !.last = IF n > @ THEN n ELSE @, !.seen = @ \cup {n}]
      /\ UNCHANGED <<log, dispatcher, hub>>
    BY <1>2 DEF Send
<1> HIDE DEF q
<1>5. /\ n \in ToSet(q) /\ ToSet(q) \subseteq ToSet(Tail(q)) \cup {n}
      /\ ToSet(Tail(q)) \subseteq ToSet(q) /\ Ascending(Tail(q))
    BY <1>1, TakeFromQueue
<1>6. n \in Number
    BY <1>1, <1>5
<1> HIDE DEF n
<1>7. /\ conn'[c].phase = conn[c].phase /\ conn'[c].latest = conn[c].latest
      /\ conn'[c].cutoff = conn[c].cutoff /\ conn'[c].replay = conn[c].replay
      /\ conn'[c].queue = Tail(q)
    BY <1>2, <1>4 DEF Connection
<1>8. /\ client'[c].seen = client[c].seen \cup {n}
      /\ client'[c].last = client[c].last \/ client'[c].last = n
    BY <1>2, <1>4 DEF ClientState
<1> QED
    BY <1>3, <1>4, <1>5, <1>6, <1>7, <1>8, SendStep DEF q

\* Sending the first of the rows to replay.
LEMMA SendReplayedStep ==
    ASSUME TypeOK, NEW c \in Client, StreamInv(c), SendReplayed(c)
    PROVE  StreamInv(c)'
<1>1. PICK n \in conn[c].replay :
          /\ \A m \in conn[c].replay : n <= m
          /\ Send(c, [conn[c] EXCEPT !.replay = @ \ {n}], n)
    BY DEF SendReplayed
<1>2. /\ conn[c] \in Connection /\ client[c] \in ClientState /\ c \in DOMAIN conn /\ c \in DOMAIN client
      /\ conn[c].phase = "replay"
    BY DEF TypeOK, SendReplayed
<1>3. n \in Number /\ n \in Nat /\ conn[c].latest \in Nat /\ n <= conn[c].latest
  <2>1. conn[c].replay \subseteq Number /\ conn[c].replay \subseteq 1..conn[c].latest /\ conn[c].latest \in Nat
      BY StreamTypes DEF StreamInv, Replayed
  <2> QED
      BY <2>1, NumberIsNat
<1>4. \A m \in 1..n : Due(m) => m \in client[c].seen \/ m = n
  <2> SUFFICES ASSUME NEW m \in 1..n, Due(m), m # n PROVE m \in client[c].seen
      OBVIOUS
  <2>1. m \in 1..conn[c].latest /\ ~(n <= m)
      BY <1>3
  <2> QED
      BY <1>1, <1>2, <2>1 DEF StreamInv, Replayed
<1>5. /\ conn'[c] = [conn[c] EXCEPT !.replay = @ \ {n}]
      /\ client'[c] = [client[c] EXCEPT !.last = IF n > @ THEN n ELSE @, !.seen = @ \cup {n}]
      /\ UNCHANGED <<log, dispatcher, hub>>
    BY <1>1, <1>2 DEF Send
<1>6. /\ conn'[c].phase = conn[c].phase /\ conn'[c].latest = conn[c].latest
      /\ conn'[c].cutoff = conn[c].cutoff /\ conn'[c].replay = conn[c].replay \ {n}
      /\ conn'[c].queue = conn[c].queue
    BY <1>2, <1>5 DEF Connection
<1>7. /\ client'[c].seen = client[c].seen \cup {n}
      /\ client'[c].last = client[c].last \/ client'[c].last = n
    BY <1>2, <1>5 DEF ClientState
<1>8. Ascending(conn'[c].queue)
    BY <1>6 DEF StreamInv, InOrder
<1>9. /\ conn'[c].replay \subseteq conn[c].replay /\ conn[c].replay \subseteq conn'[c].replay \cup {n}
      /\ ToSet(conn'[c].queue) \subseteq ToSet(conn[c].queue)
      /\ ToSet(conn[c].queue) \subseteq ToSet(conn'[c].queue) \cup {n}
    BY <1>6
<1> QED
    BY <1>2, <1>3, <1>4, <1>5, <1>6, <1>7, <1>8, <1>9, SendStep

\* A new connection starts with the client's number; before, it is in the hub.
LEMMA AuthenticateStep ==
    ASSUME TypeOK, NEW c \in Client, StreamInv(c), Authenticate(c)
    PROVE  StreamInv(c)'
<1>1. conn'[c] = [Off EXCEPT !.phase = "snapshot", !.cursor = client[c].last]
    BY DEF Authenticate, TypeOK
<1>2. /\ conn'[c].phase = "snapshot" /\ conn'[c].cursor = client[c].last
      /\ conn'[c].latest = 0 /\ conn'[c].cutoff = 0 /\ conn'[c].replay = {} /\ conn'[c].queue = <<>>
    BY <1>1 DEF Off
<1>3. client' = client /\ c \in hub' /\ latest' = latest /\ window' = window /\ published' = published
    BY DEF Authenticate, log
<1>4. latest \in Nat /\ window \in Nat
    BY LogTypes
<1>5. Registered(c)' /\ Opened(c)' /\ Replayed(c)' /\ Fed(c)'
    BY <1>2, <1>3, <1>4 DEF Registered, Opened, Replayed, Fed
<1>6. InOrder(c)'
    BY <1>2 DEF InOrder, Ascending, ToSet
<1>7. Complete(c)'
    BY <1>3 DEF StreamInv, Complete, Due
<1> QED
    BY <1>5, <1>6, <1>7 DEF StreamInv

\* The snapshot: what is above it the dispatcher has not got to yet.
LEMMA ReadyStep ==
    ASSUME TypeInv, NEW c \in Client, StreamInv(c), Ready(c)
    PROVE  StreamInv(c)'
<1> DEFINE p == IF conn[c].cursor < latest THEN "select" ELSE "drain"
<1>1. conn[c] \in Connection /\ conn[c].phase = "snapshot" /\ c \in DOMAIN conn
    BY DEF TypeInv, TypeOK, Ready
<1>2. conn'[c] = [conn[c] EXCEPT !.phase = p, !.latest = latest, !.cutoff = window]
    BY <1>1 DEF Ready
<1>3. /\ conn'[c].phase = p /\ conn'[c].latest = latest /\ conn'[c].cutoff = window
      /\ conn'[c].cursor = conn[c].cursor /\ conn'[c].queue = conn[c].queue
      /\ conn'[c].replay = conn[c].replay
    BY <1>1, <1>2 DEF Connection
<1>4. /\ client' = client /\ hub' = hub /\ targets' = targets /\ handling' = handling
      /\ latest' = latest /\ window' = window /\ published' = published
    BY DEF Ready, log, dispatcher
<1>5. /\ latest \in Nat /\ window \in Nat /\ published \in Nat /\ published <= latest
      /\ handling => published + 1 <= latest
    BY LogTypes DEF TypeInv, Dispatching
<1>6. conn[c].cursor = client[c].last /\ conn[c].cursor \in Nat /\ conn[c].latest \in Nat
      /\ conn[c].latest <= latest
    BY <1>1, StreamTypes DEF TypeInv, StreamInv, Opened
<1>7. Registered(c)'
    BY <1>1, <1>4 DEF StreamInv, Registered
<1>8. Opened(c)'
    BY <1>3, <1>4, <1>5, <1>6 DEF Opened
<1>9. Replayed(c)'
  <2>1. conn[c].replay \subseteq 1..latest
      BY <1>5, <1>6 DEF StreamInv, Replayed
  <2>2. ASSUME p = "drain", NEW n \in 1..latest, Due(n) PROVE n \in client[c].seen
    <3>1. latest <= client[c].last
        BY <1>5, <1>6, <2>2
    <3>2. n \in 1..client[c].last
        BY <1>5, <1>6, <3>1
    <3> QED
        BY <2>2, <3>2 DEF StreamInv, Complete
  <2> QED
      BY <1>3, <1>4, <2>1, <2>2 DEF Replayed, Due
<1>10. InOrder(c)'
    BY <1>3, <1>4 DEF StreamInv, InOrder
<1>11. Fed(c)'
    BY <1>3, <1>4, <1>5 DEF Fed
<1>12. Complete(c)'
    BY <1>4 DEF StreamInv, Complete, Due
<1> QED
    BY <1>7, <1>8, <1>9, <1>10, <1>11, <1>12 DEF StreamInv

\* The rows that the client lacks are still there: retention deletes none of the window.
LEMMA SelectReplayStep ==
    ASSUME TypeInv, NEW c \in Client, StreamInv(c), SelectReplay(c)
    PROVE  StreamInv(c)'
<1> DEFINE rows == {n \in dropped + 1 .. conn[c].latest :
                       n > conn[c].cursor /\ n >= conn[c].cutoff /\ n \notin Hidden}
<1>1. conn[c] \in Connection /\ conn[c].phase = "select" /\ c \in DOMAIN conn
    BY DEF TypeInv, TypeOK, SelectReplay
<1>2. conn'[c] = [conn[c] EXCEPT !.phase = "replay", !.replay = rows]
    BY <1>1 DEF SelectReplay
<1> HIDE DEF rows
<1>3. /\ conn'[c].phase = "replay" /\ conn'[c].latest = conn[c].latest /\ conn'[c].cutoff = conn[c].cutoff
      /\ conn'[c].queue = conn[c].queue /\ conn'[c].replay = rows
    BY <1>1, <1>2 DEF Connection
<1>4. /\ client' = client /\ hub' = hub /\ targets' = targets /\ handling' = handling
      /\ latest' = latest /\ window' = window /\ published' = published
    BY DEF SelectReplay, log, dispatcher
<1>5. /\ dropped \in Nat /\ window \in Nat /\ dropped < window
      /\ conn[c].latest \in Nat /\ conn[c].cutoff \in Nat /\ conn[c].cutoff <= window
      /\ conn[c].cursor \in Nat /\ conn[c].cursor = client[c].last
    BY <1>1, LogTypes, StreamTypes DEF TypeInv, StreamInv, Opened
<1>6. Registered(c)' /\ Opened(c)' /\ InOrder(c)' /\ Complete(c)'
    BY <1>1, <1>3, <1>4 DEF StreamInv, Registered, Opened, InOrder, Complete, Due
<1>7. Replayed(c)'
  <2>1. rows \subseteq 1..conn[c].latest
      BY <1>5 DEF rows
  <2>2. ASSUME NEW n \in 1..conn[c].latest, Due(n) PROVE n \in client[c].seen \/ n \in rows
    <3>1. n \in Nat /\ n >= window /\ n \notin Hidden
        BY <1>5, <2>2 DEF Due
    <3>2. CASE n <= conn[c].cursor
      <4>1. n \in 1..client[c].last
          BY <1>5, <3>1, <3>2
      <4> QED
          BY <2>2, <4>1 DEF StreamInv, Complete
    <3>3. CASE n > conn[c].cursor
      <4>1. n \in dropped + 1 .. conn[c].latest /\ n >= conn[c].cutoff
          BY <1>5, <2>2, <3>1
      <4> QED
          BY <3>1, <3>3, <4>1 DEF rows
    <3> QED
        BY <1>5, <3>1, <3>2, <3>3
  <2> QED
      BY <1>3, <1>4, <2>1, <2>2 DEF Replayed, Due
<1>8. Fed(c)'
  <2>1. \A n : Has(c, n)' <=> Has(c, n)
      BY <1>3, <1>4 DEF Has
  <2> QED
      BY <1>1, <1>3, <1>4, <2>1 DEF StreamInv, Fed, Due
<1> QED
    BY <1>6, <1>7, <1>8 DEF StreamInv

\* The replay and the draining of the queue end.
LEMMA EndStep ==
    ASSUME TypeOK, NEW c \in Client, StreamInv(c), EndReplay(c) \/ StartSender(c)
    PROVE  StreamInv(c)'
<1>1. conn[c] \in Connection /\ c \in DOMAIN conn
    BY DEF TypeOK
<1>2. /\ conn'[c].latest = conn[c].latest /\ conn'[c].cutoff = conn[c].cutoff
      /\ conn'[c].queue = conn[c].queue /\ conn'[c].replay = conn[c].replay
      /\ \/ conn[c].phase = "replay" /\ conn'[c].phase = "drain" /\ conn[c].replay = {}
         \/ conn[c].phase = "drain" /\ conn'[c].phase = "live"
    BY <1>1 DEF EndReplay, StartSender, Connection
<1>3. /\ client' = client /\ hub' = hub /\ targets' = targets /\ handling' = handling
      /\ latest' = latest /\ window' = window /\ published' = published
    BY DEF EndReplay, StartSender, log, dispatcher
<1>4. Registered(c)' /\ Opened(c)' /\ InOrder(c)' /\ Complete(c)'
    BY <1>2, <1>3 DEF StreamInv, Registered, Opened, InOrder, Complete, Due
<1>5. Replayed(c)'
    BY <1>2, <1>3 DEF StreamInv, Replayed, Due
<1>6. Fed(c)'
  <2>1. \A n : Has(c, n)' <=> Has(c, n)
      BY <1>2, <1>3 DEF Has
  <2> QED
      BY <1>2, <1>3, <2>1 DEF StreamInv, Fed, Due
<1> QED
    BY <1>4, <1>5, <1>6 DEF StreamInv

\* What is not newer than the snapshot was replayed, and is dropped.
LEMMA DrainReplayedStep ==
    ASSUME TypeOK, NEW c \in Client, StreamInv(c), DrainReplayed(c)
    PROVE  StreamInv(c)'
<1> DEFINE q == conn[c].queue
<1>1. /\ conn[c] \in Connection /\ c \in DOMAIN conn /\ conn[c].phase = "drain"
      /\ conn[c].latest \in Nat /\ published \in Nat
    BY LogTypes, StreamTypes DEF TypeOK, DrainReplayed
<1>2. q \in Seq(Number) /\ ToSet(q) \subseteq Number /\ q # <<>> /\ Ascending(q) /\ Head(q) <= conn[c].latest
    BY QueueOfNumbers DEF StreamInv, InOrder, DrainReplayed
<1>3. conn'[c] = [conn[c] EXCEPT !.queue = Tail(q)]
    BY <1>1 DEF DrainReplayed
<1> HIDE DEF q
<1>4. /\ Head(q) \in ToSet(q) /\ ToSet(q) \subseteq ToSet(Tail(q)) \cup {Head(q)}
      /\ ToSet(Tail(q)) \subseteq ToSet(q) /\ Ascending(Tail(q))
    BY <1>2, TakeFromQueue
<1>5. Head(q) \in Nat
    BY <1>2, <1>4, NumberIsNat
<1>6. /\ conn'[c].latest = conn[c].latest /\ conn'[c].cutoff = conn[c].cutoff
      /\ conn'[c].queue = Tail(q) /\ conn'[c].replay = conn[c].replay
      /\ conn'[c].cursor = conn[c].cursor /\ conn'[c].phase = conn[c].phase
    BY <1>1, <1>3 DEF Connection
<1>7. /\ client' = client /\ hub' = hub /\ targets' = targets /\ handling' = handling
      /\ latest' = latest /\ window' = window /\ published' = published
    BY DEF DrainReplayed, log, dispatcher
<1>8. Registered(c)' /\ Opened(c)' /\ Complete(c)' /\ Replayed(c)'
    BY <1>6, <1>7 DEF StreamInv, Registered, Opened, Complete, Replayed, Due
<1>9. InOrder(c)'
    BY <1>4, <1>6, <1>7 DEF StreamInv, InOrder, q
<1>10. Fed(c)'
  <2>1. ASSUME NEW n \in Nat, n > conn[c].latest, Has(c, n) PROVE Has(c, n)'
    <3>1. n # Head(q)
        BY <1>1, <1>2, <1>5, <2>1
    <3> QED
        BY <1>4, <1>6, <1>7, <2>1, <3>1 DEF Has, q
  <2>2. published + 1 \in Nat /\ \A n \in conn[c].latest + 1 .. published : n \in Nat /\ n > conn[c].latest
      BY <1>1
  <2> QED
      BY <1>6, <1>7, <2>1, <2>2 DEF StreamInv, Fed, Due
<1> QED
    BY <1>8, <1>9, <1>10 DEF StreamInv

\* A client without a connection loads all there is.
LEMMA ReloadStep ==
    ASSUME TypeOK, NEW c \in Client, StreamInv(c), Reload(c)
    PROVE  StreamInv(c)'
<1>1. conn' = conn /\ hub' = hub /\ conn[c].phase = "off" /\ c \in DOMAIN client
      /\ latest' = latest /\ window' = window /\ published' = published
    BY DEF Reload, log, TypeOK
<1>2. client'[c] = [last |-> latest, seen |-> 1..latest]
    BY <1>1 DEF Reload
<1>3. Registered(c)' /\ Opened(c)' /\ Replayed(c)' /\ InOrder(c)' /\ Fed(c)'
    BY <1>1 DEF StreamInv, Registered, Opened, Replayed, InOrder, Fed
<1>4. Complete(c)'
    BY <1>2 DEF Complete
<1> QED
    BY <1>3, <1>4 DEF StreamInv

\* Any step of one client.
LEMMA ConnectStep ==
    ASSUME IInv, TypeInv', NEW c \in Client, Connect(c)
    PROVE  \A d \in Client : StreamInv(d)'
<1>1. TypeInv /\ TypeOK /\ TypeOK' /\ StreamInv(c)
    BY DEF IInv, TypeInv
<1>2. conn[c] \in Connection /\ c \in DOMAIN conn
    BY <1>1 DEF TypeOK
<1>3. ASSUME NEW d \in Client, d # c PROVE StreamInv(d)'
  <2>1. /\ conn'[d] = conn[d] /\ client'[d] = client[d]
        /\ published' = published /\ latest' = latest /\ window' = window
        /\ handling' = handling /\ (d \notin targets' => d \notin targets)
        /\ (d \in hub => d \in hub')
    <3>1. CASE Authenticate(c) \/ Ready(c) \/ Resync(c) \/ Reload(c)
        BY <1>1, <1>3, <3>1 DEF Authenticate, Ready, Resync, Reload, log, dispatcher, TypeOK
    <3>2. CASE SelectReplay(c) \/ EndReplay(c) \/ DrainReplayed(c) \/ StartSender(c)
        BY <1>1, <1>3, <3>2 DEF SelectReplay, EndReplay, DrainReplayed, StartSender, log, dispatcher, TypeOK
    <3>3. CASE SendReplayed(c) \/ DrainNewer(c) \/ SendQueued(c)
      <4>1. PICK k, n : Send(c, k, n)
          BY <3>3 DEF SendReplayed, DrainNewer, SendQueued
      <4> QED
          BY <1>1, <1>3, <4>1 DEF Send, log, dispatcher, TypeOK
    <3>4. CASE Disconnect(c) \/ Cleanup(c)
        BY <1>1, <1>3, <3>4 DEF Disconnect, Cleanup, log, dispatcher, TypeOK
    <3> QED
        BY <3>1, <3>2, <3>3, <3>4 DEF Connect
  <2>2. latest <= latest /\ window <= window /\ StreamInv(d)
      BY <1>1, LogTypes DEF IInv
  <2> QED
      BY <1>1, <2>1, <2>2, Undisturbed
<1>4. StreamInv(c)'
  <2>1. CASE Authenticate(c)
      BY <1>1, <2>1, AuthenticateStep
  <2>2. CASE Ready(c)
      BY <1>1, <2>2, ReadyStep
  <2>3. CASE Resync(c) \/ Disconnect(c)
    <3>1. conn'[c] = [conn[c] EXCEPT !.phase = "broken"] /\ client'[c] = client[c] /\ UNCHANGED log
        BY <1>2, <2>3 DEF Resync, Disconnect
    <3>2. conn'[c].phase = "broken"
        BY <1>2, <3>1 DEF Connection
    <3> QED
        BY <1>1, <3>1, <3>2, Parked
  <2>4. CASE Reload(c)
      BY <1>1, <2>4, ReloadStep
  <2>5. CASE SelectReplay(c)
      BY <1>1, <2>5, SelectReplayStep
  <2>6. CASE SendReplayed(c)
      BY <1>1, <2>6, SendReplayedStep
  <2>7. CASE EndReplay(c) \/ StartSender(c)
      BY <1>1, <2>7, EndStep
  <2>8. CASE DrainNewer(c) \/ SendQueued(c)
    <3>1. /\ conn[c].phase \in {"drain", "live"} /\ conn[c].queue # <<>>
          /\ Send(c, [conn[c] EXCEPT !.queue = Tail(@)], Head(conn[c].queue))
        BY <2>8 DEF DrainNewer, SendQueued
    <3> QED
        BY <1>1, <3>1, SendHeadStep
  <2>9. CASE DrainReplayed(c)
      BY <1>1, <2>9, DrainReplayedStep
  <2>10. CASE Cleanup(c)
    <3>1. conn'[c] = Off /\ client'[c] = client[c] /\ UNCHANGED log
        BY <1>2, <2>10 DEF Cleanup
    <3>2. conn'[c].phase = "off"
        BY <3>1 DEF Off
    <3> QED
        BY <1>1, <3>1, <3>2, Parked
  <2> QED
      BY <2>1, <2>2, <2>3, <2>4, <2>5, <2>6, <2>7, <2>8, <2>9, <2>10 DEF Connect
<1> QED
    BY <1>3, <1>4

-----------------------------------------------------------------------------
(***************************************************************************)
(* The log and the process                                                 *)
(***************************************************************************)
LEMMA LogTypesStep ==
    ASSUME TypeInv, Commit \/ Age \/ Purge \/ Crash
    PROVE  TypeInv'
<1>1. TypeOK /\ Dispatching
    BY DEF TypeInv
<1>2. CASE Commit
  <2>1. /\ latest' \in 0..MaxSequence /\ published \in 0..latest' /\ window \in dropped + 1 .. latest' + 1
        /\ batch \in published..latest'
      BY <1>1, <1>2, LogTypes, BoundsAreNaturals DEF Commit
  <2> QED
      BY <1>1, <1>2, <2>1 DEF Commit, TypeOK, TypeInv, Dispatching
<1>3. CASE Age
  <2>1. window' \in dropped + 1 .. latest + 1
      BY <1>1, <1>3, LogTypes DEF Age
  <2> QED
      BY <1>1, <1>3, <2>1 DEF Age, TypeOK, TypeInv, Dispatching
<1>4. CASE Purge
  <2>1. dropped' \in 0..published /\ window \in dropped' + 1 .. latest + 1
      BY <1>1, <1>4, LogTypes DEF Purge
  <2> QED
      BY <1>1, <1>4, <2>1 DEF Purge, TypeOK, TypeInv, Dispatching
<1>5. CASE Crash
  <2>1. batch' \in published..latest
      BY <1>1, <1>5, LogTypes DEF Crash
  <2>2. conn' \in [Client -> Connection] /\ \A d \in Client : Len(conn'[d].queue) <= QueueSize
      BY <1>5, OffIsConnection, BoundsAreNaturals DEF Crash
  <2> QED
      BY <1>1, <1>5, <2>1, <2>2 DEF Crash, TypeOK, TypeInv, Dispatching, log
<1> QED
    BY <1>2, <1>3, <1>4, <1>5

LEMMA LogStep ==
    ASSUME IInv, TypeInv', Commit \/ Age \/ Purge \/ Crash
    PROVE  \A d \in Client : StreamInv(d)'
<1> SUFFICES ASSUME NEW d \in Client PROVE StreamInv(d)'
    OBVIOUS
<1>1. TypeOK /\ TypeOK' /\ StreamInv(d)
    BY DEF IInv, TypeInv
<1>2. CASE Commit \/ Age \/ Purge
  <2>1. latest <= latest' /\ window <= window' /\ published' = published
      BY <1>1, <1>2, LogTypes DEF Commit, Age, Purge
  <2>2. conn' = conn /\ client' = client /\ hub' = hub /\ handling' = handling /\ targets' = targets
      BY <1>2 DEF Commit, Age, Purge
  <2> QED
      BY <1>1, <2>1, <2>2, Undisturbed
<1>3. CASE Crash
  <2>1. conn'[d] = Off /\ client'[d] = client[d] /\ UNCHANGED log
      BY <1>3 DEF Crash
  <2>2. conn'[d].phase = "off"
      BY <2>1 DEF Off
  <2> QED
      BY <1>1, <2>1, <2>2, Parked
<1> QED
    BY <1>2, <1>3

-----------------------------------------------------------------------------
(***************************************************************************)
(* Theorems                                                                *)
(***************************************************************************)
LEMMA InitIInv == Init => IInv
<1> SUFFICES ASSUME Init PROVE IInv
    OBVIOUS
<1>1. TypeInv
  <2>1. Off \in Connection /\ Len(Off.queue) <= QueueSize
      BY OffIsConnection, BoundsAreNaturals
  <2>2. [last |-> 0, seen |-> {}] \in ClientState
      BY DEF ClientState
  <2>3. conn \in [Client -> Connection] /\ client \in [Client -> ClientState]
        /\ \A c \in Client : Len(conn[c].queue) <= QueueSize
      BY <2>1, <2>2 DEF Init
  <2>4. /\ latest \in 0..MaxSequence /\ published \in 0..latest /\ dropped \in 0..published
        /\ window \in dropped + 1 .. latest + 1 /\ batch \in published..latest
      BY BoundsAreNaturals DEF Init
  <2> QED
      BY <2>3, <2>4 DEF Init, TypeInv, TypeOK, Dispatching
<1>2. ASSUME NEW c \in Client PROVE StreamInv(c)
  <2>1. conn[c] = Off /\ client[c] = [last |-> 0, seen |-> {}] /\ latest = 0 /\ window = 1
      BY DEF Init
  <2>2. Registered(c) /\ Opened(c) /\ Replayed(c) /\ Fed(c) /\ Complete(c)
      BY <2>1 DEF Off, Registered, Opened, Replayed, Fed, Complete
  <2>3. InOrder(c)
      BY <2>1 DEF Off, InOrder, Ascending, ToSet
  <2> QED
      BY <2>2, <2>3 DEF StreamInv
<1> QED
    BY <1>1, <1>2 DEF IInv

LEMMA NextIInv == IInv /\ [Next]_vars => IInv'
<1> SUFFICES ASSUME IInv, [Next]_vars PROVE IInv'
    OBVIOUS
<1>1. TypeInv
    BY DEF IInv
<1>2. CASE UNCHANGED vars
  <2>1. TypeInv'
      BY <1>1, <1>2 DEF vars, TypeInv, TypeOK, Dispatching
  <2>2. ASSUME NEW c \in Client PROVE StreamInv(c)'
    <3>1. StreamInv(c)
        BY DEF IInv
    <3> QED
        BY <1>2, <3>1 DEF vars, StreamInv, Registered, Opened, Replayed, InOrder, Fed, Complete, Due, Has
  <2> QED
      BY <2>1, <2>2 DEF IInv
<1>3. CASE Dispatch
  <2>1. TypeInv'
      BY <1>1, <1>3, DispatchTypes
  <2> QED
      BY <1>3, <2>1, DispatchStep DEF IInv
<1>4. ASSUME NEW c \in Client, Connect(c) PROVE IInv'
  <2>1. TypeInv'
      BY <1>1, <1>4, ConnectTypes
  <2> QED
      BY <1>4, <2>1, ConnectStep DEF IInv
<1>5. CASE Commit \/ Age \/ Purge \/ Crash
  <2>1. TypeInv'
      BY <1>1, <1>5, LogTypesStep
  <2> QED
      BY <1>5, <2>1, LogStep DEF IInv
<1> QED
    BY <1>2, <1>3, <1>4, <1>5 DEF Next

\* Log, dispatcher, connections and clients keep their types; no queue outgrows its bound.
THEOREM TypesAreKept == Spec => []TypeOK
<1>1. IInv => TypeOK
    BY DEF IInv, TypeInv
<1> QED
    BY InitIInv, NextIInv, <1>1, PTL DEF Spec

\* Below the number it would reconnect with, a client misses no event of the window: through
\* resync, replay, duplicates in its queue, slow periods and restarts (websocket_endpoint,
\* hub.publish).
THEOREM NoGapBelowCursor == Spec => []NothingMissedBelowCursor
<1>1. IInv => NothingMissedBelowCursor
    BY DEF IInv, StreamInv, Complete, NothingMissedBelowCursor
<1> QED
    BY InitIInv, NextIInv, <1>1, PTL DEF Spec

\* published_at is set only over the heads of connections that have the event, or have it in
\* their queue (hub.publish, _publish_outbox_batch).
THEOREM PublishedReachesTheLive == Spec => []PublishedIsHandedOver
<1>1. IInv => PublishedIsHandedOver
  <2> SUFFICES ASSUME IInv, NEW c \in Client, conn[c].phase = "live",
                      NEW n \in 1..published, Due(n)
               PROVE  n \in client[c].seen \/ n \in ToSet(conn[c].queue)
      BY DEF PublishedIsHandedOver
  <2>1. TypeOK /\ StreamInv(c)
      BY DEF IInv, TypeInv
  <2>2. published \in Nat /\ conn[c].latest \in Nat
      BY <2>1, LogTypes, StreamTypes
  <2>3. n \in 1..conn[c].latest \/ n \in conn[c].latest + 1 .. published
      BY <2>2
  <2> QED
      BY <2>1, <2>3 DEF StreamInv, Replayed, Fed, Has
<1> QED
    BY InitIInv, NextIInv, <1>1, PTL DEF Spec
=============================================================================
