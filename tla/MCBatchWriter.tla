--------------------------- MODULE MCBatchWriter ---------------------------
(***************************************************************************)
(* Small instances of BatchWriter for TLC, and what the repository's docs, *)
(* comments and tests say of the batch writer.                             *)
(***************************************************************************)
EXTENDS BatchWriter, TLC

CONSTANTS p1, p2

Symmetry == Permutations(Handlers)
NoneUnstorable == {}
ThirdUnstorable == {3}
OnePrefix == [r \in Routes |-> p1]
ThirdIsOther == [r \in Routes |-> IF r = 3 THEN p2 ELSE p1]

(* docs/index.md:119 "Audit trail: Complete history of BGP route changes":   *)
(* with no failure and no shutdown, a route that left memory has its row.   *)
EveryRouteIsWritten ==
  \A r \in DOMAIN home : home[r] = gen \/ copied[r] >= 1

(* 005_add_route_state_tracking.sql:4 "Route state table: maintains current   *)
(* state of each unique route": with no failure and no shutdown, once       *)
(* nothing is in flight it does not show an older update of a prefix than   *)
(* the last one in route_updates.                                           *)
StateIsCurrent ==
  Batch = {} /\ (\A t \in Tasks : ~InFlight(t)) =>
    \A r \in Routes : copied[r] >= 1 => shown[Prefix[r]] >= r
=============================================================================
