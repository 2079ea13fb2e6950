----------------------------- MODULE RouteState -----------------------------
(***************************************************************************)
(* update_route_state as PostgreSQL runs it (READ COMMITTED): a SELECT,    *)
(* then an UPDATE or an INSERT with a snapshot of its own, and the commit. *)
(* The sessions are the connections of overlapping flushes, each calling   *)
(* the function for the routes of its list.  Nothing is locked between the *)
(* two statements, so another session can commit in between.               *)
(***************************************************************************)
EXTENDS RouteRow

CONSTANTS Sessions, MaxCalls    \* MaxCalls bounds the calls made

ASSUME CallsAssumption == MaxCalls \in Nat

VARIABLES
  rows,     \* rows[k]: the rows with key k, in the order of insertion
  stage,    \* stage[s]: "idle", "called", or "looked" (past the SELECT)
  arg,      \* arg[s]: the arguments of s's call
  seen,     \* seen[s]: what the SELECT found: a status or "absent"
  calls     \* calls made so far

(* History variables. *)
VARIABLES
  log,      \* log[k]: the calls of key k that committed, in that order
  raced     \* keys two sessions have been in the function with at once

session == <<stage, arg, seen>>
vars == <<rows, session, calls, log, raced>>

Busy(s, k) == stage[s] # "idle" /\ arg[s].key = k

Init ==
  /\ rows = [k \in Keys |-> <<>>]
  /\ stage = [s \in Sessions |-> "idle"]
  /\ \E p \in Calls : arg = [s \in Sessions |-> p]
  /\ seen = [s \in Sessions |-> "absent"]
  /\ calls = 0
  /\ log = [k \in Keys |-> <<>>] /\ raced = {}

(* The state loop of a flush calls the function for its next route. *)
Call(s, p) ==
  /\ stage[s] = "idle" /\ calls < MaxCalls
  /\ stage' = [stage EXCEPT ![s] = "called"]
  /\ arg' = [arg EXCEPT ![s] = p]
  /\ calls' = calls + 1
  /\ raced' = IF \E u \in Sessions : Busy(u, p.key) THEN raced \cup {p.key} ELSE raced
  /\ UNCHANGED <<rows, seen, log>>

(* Mutated: is_withdrawn of a row that exists is taken for its default. *)
LookDefault(s) ==
  LET k == arg[s].key IN
  /\ stage[s] = "called"
  /\ stage' = [stage EXCEPT ![s] = "looked"]
  /\ seen' = [seen EXCEPT ![s] = IF k \in Unknown \/ rows[k] = <<>>
                                 THEN "absent" ELSE "announced"]
  /\ UNCHANGED <<rows, arg, calls, log, raced>>

(* The SELECT; for an unknown family there is none and FOUND stays false.     *)
Look(s) ==
  LET k == arg[s].key IN
  /\ stage[s] = "called"
  /\ stage' = [stage EXCEPT ![s] = "looked"]
  /\ seen' = [seen EXCEPT ![s] = IF k \in Unknown \/ rows[k] = <<>>
                                 THEN "absent" ELSE rows[k][1].status]
  /\ UNCHANGED <<rows, arg, calls, log, raced>>

Return(s) ==
  /\ stage' = [stage EXCEPT ![s] = "idle"]
  /\ UNCHANGED <<arg, seen, calls, raced>>

Logged(p) == log' = [log EXCEPT ![p.key] = Append(@, p)]

(* FOUND: the UPDATE writes every row of the key as it is now, but counts by  *)
(* the status that was read before.                                         *)
Update(s) ==
  LET p == arg[s] IN
  /\ stage[s] = "looked" /\ seen[s] # "absent"
  /\ rows' = [rows EXCEPT ![p.key] = [i \in DOMAIN @ |-> Updated(@[i], p, seen[s])]]
  /\ Logged(p)
  /\ Return(s)

(* Mutated: the table without its unique indexes. *)
NeverRefused(k) == FALSE

(* The unique indexes refuse a second row; 'unknown' rows are in none.        *)
Refused(k) == k \in Indexed /\ rows[k] # <<>>

Accepted(k) == ~Refused(k)

(* NOT FOUND: INSERT. *)
Insert(s) ==
  LET p == arg[s] IN
  /\ stage[s] = "looked" /\ seen[s] = "absent" /\ Accepted(p.key)
  /\ rows' = [rows EXCEPT ![p.key] = Append(@, Inserted(p))]
  /\ Logged(p)
  /\ Return(s)

(* The unique_violation makes the call fail: the flush stops here.            *)
UniqueViolation(s) ==
  /\ stage[s] = "looked" /\ seen[s] = "absent" /\ ~Accepted(arg[s].key)
  /\ Return(s)
  /\ UNCHANGED <<rows, log>>

Step(s) == Look(s) \/ Update(s) \/ Insert(s) \/ UniqueViolation(s)

Next == \E s \in Sessions : Step(s) \/ \E p \in Calls : Call(s, p)

Spec == Init /\ [][Next]_vars

(* The case the function is written for: no two sessions have the same key    *)
(* at once (flushes that do not overlap).                                   *)
CallAlone(s, p) == (\A u \in Sessions : ~Busy(u, p.key)) /\ Call(s, p)

NextExclusive == \E s \in Sessions : Step(s) \/ \E p \in Calls : CallAlone(s, p)

ExclusiveSpec == Init /\ [][NextExclusive]_vars

-----------------------------------------------------------------------------
(* Type invariant. *)
TypeOK ==
  /\ rows \in [Keys -> Seq(Row)]
  /\ stage \in [Sessions -> {"idle", "called", "looked"}]
  /\ arg \in [Sessions -> Calls]
  /\ seen \in [Sessions -> Status \cup {"absent"}]
  /\ calls \in Nat
  /\ log \in [Keys -> Seq(Calls)]
  /\ raced \subseteq Keys

(* What the calls of one key amount to, stated over the whole list of them.   *)
ChangesAt(l, i) == i = 1 \/ l[i].status # l[i - 1].status
Changes(l, status) == {i \in DOMAIN l : ChangesAt(l, i) /\ l[i].status = status}
Latest(S) == CHOOSE i \in S : \A j \in S : j <= i
Announcements(l) == {i \in DOMAIN l : l[i].status = "announced"}

Summary(l) ==
  [first |-> l[1].time, last |-> l[Len(l)].time,
   changed |-> l[Latest({i \in DOMAIN l : ChangesAt(l, i)})].time,
   status |-> l[Len(l)].status,
   learn |-> Cardinality(Changes(l, "announced")),
   withdraw |-> Cardinality(Changes(l, "withdrawn")),
   attr |-> IF Announcements(l) = {} THEN NoAttr ELSE l[Latest(Announcements(l))].attr]

(* A route no two sessions met at has the row its calls amount to: what       *)
(* counts as learned or withdrawn is a change of status and nothing else.   *)
RowIsSummary ==
  \A k \in Indexed \ raced :
    rows[k] = IF log[k] = <<>> THEN <<>> ELSE <<Summary(log[k])>>

(* What a race can spoil: the counts and the time of the last change, and     *)
(* nothing else.  Even a raced route has one row, which shows the calls in  *)
(* the order they committed.                                                *)
RaceSpoilsCountsOnly ==
  \A k \in Indexed :
    /\ Len(rows[k]) <= 1
    /\ Len(rows[k]) = 0 <=> log[k] = <<>>
    /\ \A i \in DOMAIN rows[k] :
         LET sum == Summary(log[k]) IN
         /\ rows[k][i].first = sum.first /\ rows[k][i].last = sum.last
         /\ rows[k][i].status = sum.status /\ rows[k][i].attr = sum.attr

(* Refinement: for flushes that do not meet at a route, the function is as    *)
(* good as atomic.                                                          *)
Atomic == INSTANCE RouteStateAtomic WITH rows <- rows
ImplementsAtomic == Atomic!Spec
CountsAlternate == Atomic!CountsAlternate
=============================================================================
