-------------------------- MODULE RouteStateAtomic --------------------------
(***************************************************************************)
(* What route_state promises its readers: update_route_state as if it ran  *)
(* in one step, so that a row is the current state of its route together   *)
(* with the counts of its changes.                                         *)
(***************************************************************************)
EXTENDS RouteRow

VARIABLE rows    \* rows[k]: the rows with key k, in the order of insertion

Init == rows = [k \in Keys |-> <<>>]

(* The first call of an indexed key inserts its row, later calls update it;   *)
(* a call with an unknown family always inserts.                            *)
Apply(p) ==
  rows' = [rows EXCEPT ![p.key] =
             IF p.key \in Unknown \/ @ = <<>>
             THEN Append(@, Inserted(p))
             ELSE [i \in DOMAIN @ |-> Updated(@[i], p, @[1].status)]]

Next == \E p \in Calls : Apply(p)

Spec == Init /\ [][Next]_rows

(* A route's learn and withdraw counts alternate: they differ by at most one, *)
(* and the larger one is the status the row shows.                          *)
Alternates(row) ==
  IF row.status = "announced"
  THEN row.learn = row.withdraw \/ row.learn = row.withdraw + 1
  ELSE row.withdraw = row.learn \/ row.withdraw = row.learn + 1

CountsAlternate == \A k \in Indexed : \A i \in DOMAIN rows[k] : Alternates(rows[k][i])
=============================================================================
