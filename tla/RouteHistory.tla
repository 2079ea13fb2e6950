---------------------------- MODULE RouteHistory ----------------------------
(***************************************************************************)
(* What the batch writer promises of the history as long as its flushes    *)
(* follow one another: routes arrive one by one and wait in memory; those  *)
(* that wait are written together, once, the oldest of them without a gap, *)
(* after everything that is written already; then memory is given up, with *)
(* what was not written in it.                                             *)
(***************************************************************************)
EXTENDS Naturals

VARIABLES
  arrived,    \* how many routes have arrived; a route is its number
  memory,     \* the routes that wait
  history     \* the routes that are written

vars == <<arrived, memory, history>>

Init == arrived = 0 /\ memory = {} /\ history = {}

Receive ==
  /\ arrived' = arrived + 1
  /\ memory' = memory \cup {arrived + 1}
  /\ UNCHANGED history

Write(routes) ==
  /\ memory \cap history = {}
  /\ routes \subseteq memory
  /\ \A r \in routes, q \in memory \ routes : r < q
  /\ \A r \in routes, q \in history : q < r
  /\ history' = history \cup routes
  /\ UNCHANGED <<arrived, memory>>

Forget ==
  /\ memory' = {}
  /\ UNCHANGED <<arrived, history>>

Next == Receive \/ Forget \/ \E routes \in SUBSET memory : Write(routes)

Spec == Init /\ [][Next]_vars
=============================================================================
