----------------------------- MODULE UpdateParts -----------------------------
(***************************************************************************)
(* What parse_bgp_update (src/pybmpmon/protocol/bgp_parser.py) makes of an   *)
(* UPDATE, part by part: the withdrawn routes, the path attributes in their *)
(* order and the NLRI are collected in one list of announced and one of     *)
(* withdrawn routes, with one AFI and one set of EVPN fields for all.       *)
(*                                                                         *)
(* A route is its family, its kind and a name: the prefix, or what is kept  *)
(* of an EVPN route, the distinguisher, segment and MAC of a MAC/IP route,  *)
(* which may have an address besides.  A part that does not parse has       *)
(* Malformed in it.                                                         *)
(***************************************************************************)
EXTENDS Naturals, Sequences

CONSTANTS
  Names,       \* prefixes, fields of EVPN routes and addresses
  Updates,     \* UPDATE messages the routers may send
  None,        \* None
  Malformed    \* a route that does not parse

Families == {"ipv4", "ipv6", "l2vpn"}

(* "ip": a prefix; "mac", "mac_ip": EVPN type 2 without and with an address; *)
(* "other": the EVPN types of which only the type is read.                  *)
Routes == [afi : {"ipv4", "ipv6"}, kind : {"ip"}, name : Names]
            \cup [afi : {"l2vpn"}, kind : {"mac", "other"}, name : Names]
            \cup [afi : {"l2vpn"}, kind : {"mac_ip"}, name : Names, address : Names]

RouteLists == Seq(Routes \cup {Malformed})
OfFamily(list, family) == \A i \in DOMAIN list : list[i] = Malformed \/ list[i].afi = family

(* Attributes: MP_REACH_NLRI and MP_UNREACH_NLRI with routes of their AFI,     *)
(* those of an AFI the parser has no name for included.                     *)
Attributes == {a \in [reach : BOOLEAN, afi : Families \cup {"unknown"}, routes : RouteLists] :
                 OfFamily(a.routes, a.afi)}

(* An UPDATE: withdrawn routes, path attributes in their order, NLRI.        *)
UpdateMessages == {u \in [withdrawn : RouteLists, attributes : Seq(Attributes), nlri : RouteLists] :
                     OfFamily(u.withdrawn, "ipv4") /\ OfFamily(u.nlri, "ipv4")}

ASSUME UpdatesAssumption == /\ Updates \subseteq UpdateMessages
                            /\ None \notin Names /\ Malformed \notin Routes

VARIABLES
  pc,          \* "idle", "attributes", or "add": the parser has returned
  update,      \* the message being worked on, or the last one
  rest,        \* its path attributes still to be read
  afi,         \* parse_bgp_update's afi
  first,       \* its evpn_rd, evpn_esi, mac_address
  announced,   \* prefixes
  withdrawn    \* withdrawn_prefixes

lists == <<rest, announced, withdrawn>>
parts == <<pc, update, afi, first, lists>>

Elements(s) == {s[i] : i \in DOMAIN s}

WellFormed(attribute) == Malformed \notin Elements(attribute.routes)

-----------------------------------------------------------------------------
InitParts ==
  /\ pc = "idle"
  /\ update \in Updates
  /\ rest = <<>> /\ afi = None /\ first = None
  /\ announced = <<>> /\ withdrawn = <<>>

(* An exception: nothing of the message is returned.                        *)
Raise ==
  /\ pc' = "idle"
  /\ rest' = <<>> /\ announced' = <<>> /\ withdrawn' = <<>>

(* The structure of the message is read, then its withdrawn routes.  A        *)
(* malformed withdrawn route stands for a malformed structure as well.      *)
ReadStructure(u) ==
  /\ update' = u
  /\ afi' = None /\ first' = None
  /\ \/ /\ Malformed \in Elements(u.withdrawn)
        /\ Raise
     \/ /\ Malformed \notin Elements(u.withdrawn)
        /\ pc' = "attributes"
        /\ rest' = u.attributes
        /\ announced' = <<>>
        /\ withdrawn' = u.withdrawn

Collect(a) ==
  IF a.reach
  THEN announced' = announced \o a.routes /\ UNCHANGED withdrawn
  ELSE withdrawn' = withdrawn \o a.routes /\ UNCHANGED announced

(* parse_mp_reach_nlri, parse_mp_unreach_nlri: the family is that of the       *)
(* attribute read last, and the first route of an EVPN attribute gives the   *)
(* message its fields.                                                       *)
ReadRoutes(a) ==
  /\ afi' = a.afi
  /\ first' = IF a.afi # "l2vpn" \/ a.routes = <<>> THEN first
              ELSE IF Head(a.routes).kind = "other" THEN None
              ELSE Head(a.routes).name
  /\ Collect(a)

(* Mutated: the routes read before the error are kept.                       *)
SkipRest(a) ==
  /\ ~WellFormed(a)
  /\ announced' = announced \o SelectSeq(a.routes, LAMBDA r : r # Malformed)
  /\ UNCHANGED <<afi, first, withdrawn>>

(* Mutated: what does not parse is appended as None.                         *)
SkipNothing(a) ==
  /\ ~WellFormed(a)
  /\ announced' = announced \o a.routes
  /\ UNCHANGED <<afi, first, withdrawn>>

(* An attribute that does not parse is skipped with all its routes.          *)
SkipMalformed(a) ==
  /\ ~WellFormed(a)
  /\ UNCHANGED <<afi, first, announced, withdrawn>>

ParseAttribute ==
  /\ pc = "attributes" /\ rest # <<>>
  /\ rest' = Tail(rest)
  /\ SkipMalformed(Head(rest)) \/ (WellFormed(Head(rest)) /\ ReadRoutes(Head(rest)))
  /\ UNCHANGED <<pc, update>>

(* The NLRI comes last and, if there is any, decides the family.             *)
ParseNlri ==
  /\ pc = "attributes" /\ rest = <<>>
  /\ \/ /\ Malformed \in Elements(update.nlri)
        /\ Raise
        /\ UNCHANGED afi
     \/ /\ Malformed \notin Elements(update.nlri)
        /\ pc' = "add"
        /\ afi' = IF update.nlri = <<>> THEN afi ELSE "ipv4"
        /\ announced' = announced \o update.nlri
        /\ UNCHANGED <<rest, withdrawn>>
  /\ UNCHANGED <<update, first>>

(* One call of parse_bgp_update. *)
NextParts == (pc = "idle" /\ \E u \in Updates : ReadStructure(u)) \/ ParseAttribute \/ ParseNlri

PartsSpec == InitParts /\ [][NextParts]_parts
=============================================================================
