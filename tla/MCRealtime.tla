---------------------------- MODULE MCRealtime -----------------------------
(***************************************************************************)
(* Instances of Realtime for TLC.                                          *)
(***************************************************************************)
EXTENDS Realtime

\* The process runs on and the log keeps its events: what delays an event then is
\* the other connections and nothing else.
Deliver ==
    \/ Commit
    \/ Dispatch
    \/ \E c \in Client : Connect(c)

DeliverySpec == Init /\ [][Deliver]_vars /\ Fairness
=============================================================================
