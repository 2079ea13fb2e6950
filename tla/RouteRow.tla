------------------------------ MODULE RouteRow ------------------------------
(***************************************************************************)
(* A row of route_state and the two ways update_route_state writes one     *)
(* (src/pybmpmon/database/migrations/005_add_route_state_tracking.sql).    *)
(* A key stands for the identity columns; Unknown are the keys of family   *)
(* 'unknown', for which the function has no branch and the table no index. *)
(***************************************************************************)
EXTENDS Naturals, Sequences, FiniteSets

CONSTANTS Keys, Unknown,
          Times,          \* timestamps of route updates
          Attrs, NoAttr   \* path attributes of an announcement; NULLs

ASSUME RowAssumption == /\ Unknown \subseteq Keys
                        /\ Times \subseteq Nat
                        /\ NoAttr \notin Attrs

Indexed == Keys \ Unknown
Status == {"announced", "withdrawn"}

(* The arguments of a call: a withdrawal carries no attributes. *)
Calls == [key : Keys, status : {"announced"}, time : Times, attr : Attrs]
           \cup [key : Keys, status : {"withdrawn"}, time : Times, attr : {NoAttr}]

Row == [first : Times, last : Times, changed : Times, status : Status,
        learn : Nat, withdraw : Nat, attr : Attrs \cup {NoAttr}]

(* The row INSERT makes of call p. *)
Inserted(p) ==
  [first |-> p.time, last |-> p.time, changed |-> p.time, status |-> p.status,
   learn |-> IF p.status = "announced" THEN 1 ELSE 0,
   withdraw |-> IF p.status = "withdrawn" THEN 1 ELSE 0,
   attr |-> p.attr]

(* Mutated forms of Updated: every call counts; a withdrawal takes a learned  *)
(* route back.                                                              *)
UpdatedAlways(row, p, was) ==
  [first |-> row.first, last |-> p.time,
   changed |-> IF was # p.status THEN p.time ELSE row.changed,
   status |-> p.status,
   learn |-> row.learn + (IF p.status = "announced" THEN 1 ELSE 0),
   withdraw |-> row.withdraw + (IF p.status = "withdrawn" THEN 1 ELSE 0),
   attr |-> IF p.status = "announced" THEN p.attr ELSE row.attr]

UpdatedNets(row, p, was) ==
  [first |-> row.first, last |-> p.time,
   changed |-> IF was # p.status THEN p.time ELSE row.changed,
   status |-> p.status,
   learn |-> IF was = p.status THEN row.learn
             ELSE IF p.status = "announced" THEN row.learn + 1 ELSE row.learn - 1,
   withdraw |-> row.withdraw + (IF was # p.status /\ p.status = "withdrawn" THEN 1 ELSE 0),
   attr |-> IF p.status = "announced" THEN p.attr ELSE row.attr]

(* The row UPDATE makes of a row and call p, "was" being the status the       *)
(* function read before: only a change of status counts, and a withdrawal   *)
(* keeps the attributes announced last.                                     *)
Updated(row, p, was) ==
  LET change == was # p.status IN
  [first |-> row.first, last |-> p.time,
   changed |-> IF change THEN p.time ELSE row.changed,
   status |-> p.status,
   learn |-> row.learn + (IF change /\ p.status = "announced" THEN 1 ELSE 0),
   withdraw |-> row.withdraw + (IF change /\ p.status = "withdrawn" THEN 1 ELSE 0),
   attr |-> IF p.status = "announced" THEN p.attr ELSE row.attr]
=============================================================================
