------------------------- MODULE MCRouteMonitoring -------------------------
(***************************************************************************)
(* Small instances of RouteMonitoring for TLC: every message with one       *)
(* attribute, and messages with two, over an IPv4 prefix, two IPv6 prefixes *)
(* and four EVPN routes, three of them with the same fields, one with the   *)
(* address of each IPv6 prefix; and what the model of a route says of its   *)
(* family.                                                                  *)
(***************************************************************************)
EXTENDS RouteMonitoring

CONSTANTS v1, a, b, bad

P == [afi |-> "ipv4", kind |-> "ip", name |-> a]
Q == [afi |-> "ipv6", kind |-> "ip", name |-> a]
R == [afi |-> "ipv6", kind |-> "ip", name |-> b]
M == [afi |-> "l2vpn", kind |-> "mac", name |-> a]
MI == [afi |-> "l2vpn", kind |-> "mac_ip", name |-> b, address |-> a]
N == [afi |-> "l2vpn", kind |-> "mac_ip", name |-> a, address |-> b]
O == [afi |-> "l2vpn", kind |-> "other", name |-> b]

Attr(f, list) == [reach : BOOLEAN, afi : {f}, routes : {list}]

Single ==
  Attr("ipv6", <<Q>>) \cup Attr("ipv6", <<R>>) \cup Attr("ipv6", <<>>)
    \cup Attr("ipv6", <<Q, bad>>) \cup Attr("l2vpn", <<M, MI>>) \cup Attr("l2vpn", <<N, O>>)
    \cup Attr("ipv4", <<P>>) \cup Attr("unknown", <<>>)

Several ==
  Attr("ipv6", <<Q>>) \cup Attr("ipv6", <<>>) \cup Attr("l2vpn", <<N>>)
    \cup Attr("l2vpn", <<M, bad>>)

MCUpdates ==
  [withdrawn : {<<>>, <<P>>, <<P, bad>>},
   attributes : {<<>>} \cup {<<x>> : x \in Single}, nlri : {<<>>, <<P>>, <<bad>>}]
  \cup [withdrawn : {<<>>}, attributes : {<<x, y>> : x, y \in Several},
        nlri : {<<>>}]

(* models/route.py:28 "Route family: ipv4_unicast, ipv6_unicast, or evpn": that *)
(* is what every RouteUpdate's family is.                                   *)
FamilyIsNamed ==
  \A i \in DOMAIN rows : rows[i].family \in {"ipv4_unicast", "ipv6_unicast", "evpn"}
=============================================================================
