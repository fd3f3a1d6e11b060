---------------------------- MODULE IncidentLog ----------------------------
(***************************************************************************)
(* What the event log of the incidents promises to everyone who reads it:  *)
(* per incident one append-only sequence of events, published in order,    *)
(* of which only a prefix that was already published is ever dropped.      *)
(* The outbox table and the counters of the incident row (EventLog) are    *)
(* shown to implement it.                                                  *)
(***************************************************************************)
EXTENDS Naturals, SequencesExt

CONSTANT Incident

VARIABLES
    log,        \* log[i]: every event ever committed for incident i, in order
    announced,  \* announced[i]: the positions the dispatcher has published
    dropped     \* dropped[i]: the positions retention has deleted

vars == <<log, announced, dropped>>

Init ==
    /\ log = [i \in Incident |-> <<>>]
    /\ announced = [i \in Incident |-> {}]
    /\ dropped = [i \in Incident |-> {}]

\* One transaction adds all its events at the end.
Extend(i) ==
    /\ IsStrictPrefix(log[i], log'[i])
    /\ \A j \in Incident \ {i} : log'[j] = log[j]
    /\ UNCHANGED <<announced, dropped>>

\* The first event that is not yet published is published.
Announce(i) ==
    /\ \E n \in 1..Len(log[i]) :
        /\ announced[i] = 1..(n - 1)
        /\ announced' = [announced EXCEPT ![i] = 1..n]
    /\ UNCHANGED <<log, dropped>>

\* Some published events, the oldest of each incident, are given up.
Drop ==
    /\ \A i \in Incident :
        /\ \E n \in 0..Len(log[i]) : dropped'[i] = 1..n
        /\ dropped[i] \subseteq dropped'[i]
        /\ dropped'[i] \subseteq announced[i]
    /\ UNCHANGED <<log, announced>>

Next ==
    \/ \E i \in Incident : Extend(i) \/ Announce(i)
    \/ Drop

Spec == Init /\ [][Next]_vars
=============================================================================
