--------------------------- MODULE RouteMonitoring ---------------------------
(***************************************************************************)
(* What becomes of the routes in a Route Monitoring message: after           *)
(* parse_bgp_update (UpdateParts), _handle_route_monitoring                 *)
(* (src/pybmpmon/listener.py) makes a RouteUpdate of each route of the two  *)
(* lists, and update_route_state finds the row of route_state by what the   *)
(* RouteUpdate says.                                                        *)
(*                                                                         *)
(* The path attributes that describe the announced routes ride along        *)
(* unread.  A view is a monitored BGP peer before or after policy, as the   *)
(* per-peer header says.                                                    *)
(***************************************************************************)
EXTENDS UpdateParts, FiniteSets, SequencesExt

CONSTANTS
  Views,       \* BGP peer and policy stage
  MaxUpdates   \* bound: messages received

ASSUME BoundAssumption == MaxUpdates \in Nat

VARIABLES
  view,        \* the view of the message's per-peer header
  rows,        \* the RouteUpdates made of the message
  state,       \* route_state: whether a row found by its key is withdrawn
  received     \* messages so far

(* History variables: no code reads them, no guard mentions them.            *)
VARIABLES
  truth        \* truth[v][r]: what the router said of r last, or "unclear"

tables == <<view, rows, state, received>>
vars == <<parts, tables, truth>>

-----------------------------------------------------------------------------
(* The announced and withdrawn lists of the parser are what the handler has   *)
(* still to add.                                                            *)
Init ==
  /\ InitParts
  /\ view \in Views
  /\ rows = <<>>
  /\ state = <<>>
  /\ received = 0
  /\ truth = [v \in Views |-> [r \in Routes |-> "unclear"]]

(* _determine_family: by the AFI alone.                                     *)
DetermineFamily(a) ==
  CASE a = "ipv4" -> "ipv4_unicast"
    [] a = "ipv6" -> "ipv6_unicast"
    [] a = "l2vpn" -> "evpn"
    [] OTHER -> "unknown"

(* Mutated: withdrawals are given the fields of the message as a whole, as   *)
(* announcements are.                                                       *)
FieldsInherited(r, isWithdrawn) == first

(* The fields of a MAC/IP route are its own.  Any other announced route gets  *)
(* those of the message, a withdrawn one none.                              *)
Fields(r, isWithdrawn) ==
  IF r.kind \in {"mac", "mac_ip"} THEN r.name
  ELSE IF isWithdrawn THEN None ELSE first

(* _extract_prefix_string: an EVPN route with no address has no prefix.      *)
PrefixString(r) ==
  IF r.kind = "ip" THEN r.name ELSE IF r.kind = "mac_ip" THEN r.address ELSE None

RouteUpdate(r, isWithdrawn) ==
  [view |-> view, family |-> DetermineFamily(afi), prefix |-> PrefixString(r),
   fields |-> Fields(r, isWithdrawn), withdrawn |-> isWithdrawn]

(* update_route_state finds the row of a prefix by the prefix, that of an     *)
(* EVPN route by prefix and fields.                                         *)
Key(row) == [view |-> row.view, family |-> row.family, prefix |-> row.prefix,
             fields |-> IF row.family = "evpn" THEN row.fields ELSE None]

(* A row of family 'unknown' or of a prefix that is NULL is inserted each     *)
(* time and never found again.                                              *)
Found(row) == row.family = "evpn" \/ (row.family # "unknown" /\ row.prefix # None)

Tracked(row) ==
  IF ~Found(row) THEN state
  ELSE [k \in DOMAIN state \cup {Key(row)} |->
          IF k = Key(row) THEN row.withdrawn ELSE state[k]]

-----------------------------------------------------------------------------
(* What the routers mean.                                                   *)

RoutesOf(u) ==
  (Elements(u.withdrawn) \cup Elements(u.nlri)
     \cup UNION {Elements(a.routes) : a \in Elements(u.attributes)}) \ {Malformed}

Announces(u) ==
  Elements(u.nlri) \cup UNION {Elements(a.routes) : a \in {b \in Elements(u.attributes) : b.reach}}

Withdraws(u) ==
  Elements(u.withdrawn)
    \cup UNION {Elements(a.routes) : a \in {b \in Elements(u.attributes) : ~b.reach}}

(* The messages that are understood: well-formed, of one family, which an     *)
(* attribute or the NLRI shows, and with no EVPN route of which only the     *)
(* type is read.                                                            *)
Understood(u) ==
  /\ Malformed \notin Announces(u) \cup Withdraws(u)
  /\ u.attributes # <<>> \/ u.nlri # <<>>
  /\ \A a, b \in Elements(u.attributes) : a.afi = b.afi
  /\ u.nlri # <<>> \/ u.withdrawn # <<>> => \A a \in Elements(u.attributes) : a.afi = "ipv4"
  /\ \A r \in RoutesOf(u) : r.kind # "other"

(* r is the prefix that is the address of the MAC/IP route q.                *)
IsAddress(r, q) == r.kind = "ip" /\ q.kind = "mac_ip" /\ r.name = q.address

(* The handler is done with message u of view v.  A route that u both         *)
(* announces and withdraws is withdrawn: withdrawals are taken last.  A       *)
(* message that is not understood may have touched whatever bears a name it   *)
(* mentions: routes of the same fields with and without an address, and the  *)
(* prefix that is the address of a MAC/IP route, recorded as of its family.   *)
Settle(v, u, understood) ==
  LET was == truth[v]
      named == {r \in Routes : \E q \in RoutesOf(u) : r.name = q.name \/ IsAddress(r, q)}
  IN truth' = [truth EXCEPT ![v] =
       [r \in Routes |->
          IF understood THEN IF r \in Withdraws(u) THEN "withdrawn"
                             ELSE IF r \in Announces(u) THEN "announced" ELSE was[r]
          ELSE IF r \in named THEN "unclear" ELSE was[r]]]

-----------------------------------------------------------------------------
(* An exception: the listener counts an error and reads the next message.    *)
GiveUp(v, u) == Raise /\ Settle(v, u, FALSE)

(* A message arrives, and parse_bgp_update begins with it. *)
Receive ==
  /\ pc = "idle" /\ received < MaxUpdates
  /\ received' = received + 1
  /\ rows' = <<>>
  /\ \E v \in Views, u \in Updates :
       /\ view' = v
       /\ ReadStructure(u)
       /\ IF pc' = "idle" THEN Settle(v, u, FALSE) ELSE UNCHANGED truth
  /\ UNCHANGED state

(* The rest of parse_bgp_update; there is no await in it.                    *)
Parse ==
  /\ \/ ParseAttribute /\ UNCHANGED truth
     \/ ParseNlri /\ (IF pc' = "idle" THEN Settle(view, update, FALSE) ELSE UNCHANGED truth)
  /\ UNCHANGED tables

Add(r, isWithdrawn) ==
  /\ rows' = Append(rows, RouteUpdate(r, isWithdrawn))
  /\ state' = Tracked(RouteUpdate(r, isWithdrawn))
  /\ UNCHANGED <<pc, update, afi, first, rest, view, received, truth>>

(* Every announced route, then every withdrawn one.                          *)
AddAnnounced ==
  /\ pc = "add" /\ announced # <<>>
  /\ Add(Head(announced), FALSE)
  /\ announced' = Tail(announced)
  /\ UNCHANGED withdrawn

AddWithdrawn ==
  /\ pc = "add" /\ announced = <<>> /\ withdrawn # <<>>
  /\ Add(Head(withdrawn), TRUE)
  /\ withdrawn' = Tail(withdrawn)
  /\ UNCHANGED announced

(* add_route raises what the flush of a full batch raised.                   *)
AddFails ==
  /\ pc = "add" /\ announced \o withdrawn # <<>>
  /\ GiveUp(view, update)
  /\ UNCHANGED <<update, afi, first, tables>>

Finish ==
  /\ pc = "add" /\ announced \o withdrawn = <<>>
  /\ pc' = "idle"
  /\ Settle(view, update, Understood(update))
  /\ UNCHANGED <<update, afi, first, lists, tables>>

Next == Receive \/ Parse \/ AddAnnounced \/ AddWithdrawn \/ AddFails \/ Finish

Spec == Init /\ [][Next]_vars

-----------------------------------------------------------------------------
RouteUpdates ==
  [view : Views, family : {"ipv4_unicast", "ipv6_unicast", "evpn", "unknown"},
   prefix : Names \cup {None}, fields : Names \cup {None}, withdrawn : BOOLEAN]

(* Type invariant. *)
TypeOK ==
  /\ pc \in {"idle", "attributes", "add"}
  /\ update \in Updates /\ view \in Views
  /\ rest \in Seq(Attributes)
  /\ afi \in Families \cup {"unknown", None} /\ first \in Names \cup {None}
  /\ announced \in Seq(Routes) /\ withdrawn \in Seq(Routes)
  /\ rows \in Seq(RouteUpdates)
  /\ \A k \in DOMAIN state : k.view \in Views /\ state[k] \in BOOLEAN
  /\ received \in 0..MaxUpdates
  /\ truth \in [Views -> [Routes -> {"announced", "withdrawn", "unclear"}]]

(* What the rows of a message should say: nothing if a part of it that has    *)
(* no length of its own is malformed, or else each well-formed part.        *)
Said(routes, isWithdrawn) == [i \in DOMAIN routes |-> <<PrefixString(routes[i]), isWithdrawn>>]

(* Collected(u, reach)[n]: the routes of those of u's first n attributes that  *)
(* are well-formed and announce (reach) or withdraw.                        *)
Collected(u, reach) ==
  LET routes[n \in 0..Len(u.attributes)] ==
        IF n = 0 THEN <<>>
        ELSE IF WellFormed(u.attributes[n]) /\ u.attributes[n].reach = reach
        THEN routes[n - 1] \o u.attributes[n].routes ELSE routes[n - 1]
  IN routes

CollectedAll(u, reach) == Collected(u, reach)[Len(u.attributes)]

Promised(u) ==
  IF Malformed \in Elements(u.withdrawn) \cup Elements(u.nlri) THEN <<>>
  ELSE Said(CollectedAll(u, TRUE) \o u.nlri, FALSE)
         \o Said(u.withdrawn \o CollectedAll(u, FALSE), TRUE)

Made == [i \in DOMAIN rows |-> <<rows[i].prefix, rows[i].withdrawn>>]

(* A malformed attribute costs the message the routes of that attribute and   *)
(* no others, a malformed prefix elsewhere all of them, a failure of add_route *)
(* the rest: the RouteUpdates of a message are a prefix of what it says, in   *)
(* its order, announcements first, and all of it when the handler finishes. *)
RowsFollowMessage ==
  received > 0 =>
    /\ IsPrefix(Made, Promised(update))
    /\ (pc = "add" /\ announced \o withdrawn = <<>>) => Made = Promised(update)

(* The key of a route, whatever message it comes in.                         *)
KeyOf(v, r) ==
  [view |-> v, family |-> DetermineFamily(r.afi), prefix |-> PrefixString(r),
   fields |-> IF r.afi = "l2vpn" THEN r.name ELSE None]

(* As the routers send announcements and withdrawals of a route in any of the *)
(* forms the parser understands, and other messages in between, the row of   *)
(* route_state under the key of the route says what its router said last, the *)
(* withdrawals of a message after its announcements.                        *)
StateFollowsRouter ==
  pc = "idle" =>
    \A v \in Views, r \in Routes : truth[v][r] # "unclear" =>
      /\ KeyOf(v, r) \in DOMAIN state
      /\ state[KeyOf(v, r)] <=> truth[v][r] = "withdrawn"
=============================================================================
