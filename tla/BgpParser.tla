------------------------------ MODULE BgpParser ------------------------------
(***************************************************************************)
(* parse_bgp_update of src/pybmpmon/protocol/bgp_parser.py, octet by octet:  *)
(* one action per check of the structure, per path attribute, per segment of *)
(* an AS_PATH and per route.  UpdateParts says what should come of it.       *)
(*                                                                         *)
(* The code cuts the withdrawn routes, each attribute's value and the NLRI   *)
(* out of the message and numbers the octets of each from 0; here they are   *)
(* regions of the message, and no read may leave its region.                *)
(***************************************************************************)
EXTENDS Binary, FiniteSets

CONSTANTS
  Pdus,        \* UPDATE messages: their octets, and what their writer meant
  None,        \* None
  Malformed    \* a route that does not parse

(* src/pybmpmon/protocol/bgp.py *)
UPDATE == 2
ORIGIN == 1
AS_PATH == 2
NEXT_HOP == 3
MULTI_EXIT_DISC == 4
LOCAL_PREF == 5
COMMUNITIES == 8
MP_REACH_NLRI == 14
MP_UNREACH_NLRI == 15
EXTENDED_COMMUNITIES == 16
Descriptions == {ORIGIN, NEXT_HOP, MULTI_EXIT_DISC, LOCAL_PREF, COMMUNITIES, EXTENDED_COMMUNITIES}

AS_SET == 1
AS_SEQUENCE == 2

AfiName(n) == IF n = 1 THEN "ipv4" ELSE IF n = 2 THEN "ipv6" ELSE IF n = 25 THEN "l2vpn" ELSE "unknown"

(* Of a pdu, octets is all the parser sees.  The rest is its writer's: parts,  *)
(* the UPDATE of UpdateParts; described, the values of the Descriptions it    *)
(* gives; of its AS_PATH the numbers (path), the octets of each (width), the   *)
(* offsets of its segments (cuts) and how many numbers come before each       *)
(* (counts); the offsets of its attributes (attributeCuts) and of the routes   *)
(* in each of its parts (routeCuts).  Offsets end with that of the first thing *)
(* that does not parse, or of the end.                                      *)
ASSUME PdusAssumption ==
  /\ Pdus # {}
  /\ \A p \in Pdus : /\ p.octets \in Seq(Octet)
                      /\ p.cuts \in Seq(Nat) /\ p.counts \in Seq(Nat)
                      /\ p.width \in {2, 4} /\ p.path \in Seq(Nat) \cup {None}

ASSUME NoneAssumption == None \notin Pdus

VARIABLES
  pdu,         \* the message
  phase,       \* what the parser is at; "parsed", or "refused": BGPParseError
  at,          \* its offset
  attrs,       \* path_attributes: those found, then those still to be read
  found,       \* the routes of the part being read
  numbers,     \* parse_as_path's as_path
  afi,         \* parse_bgp_update's afi
  first,       \* its evpn_rd, evpn_esi, mac_address
  announced,   \* prefixes
  withdrawn,   \* withdrawn_prefixes
  asPath,      \* as_path
  described    \* origin, next_hop, med, local_pref, communities, extended_communities

(* History variables: no code reads them, no guard mentions them.            *)
VARIABLES
  heads,       \* offsets at which parse_as_path has found a segment or the end
  skipped      \* attributes skipped as malformed

results == <<afi, first, announced, withdrawn, asPath, described>>
bgpVars == <<pdu, phase, at, attrs, found, numbers, results, heads, skipped>>

octets == pdu.octets

InitBgp ==
  /\ pdu = None /\ phase = "idle" /\ at = 0
  /\ attrs = <<>> /\ found = <<>> /\ numbers = <<>>
  /\ afi = None /\ first = None
  /\ announced = <<>> /\ withdrawn = <<>>
  /\ asPath = None
  /\ described = [t \in Descriptions |-> None]
  /\ heads = <<>> /\ skipped = {}

(* The caller passes octets; whose they are it does not know.                *)
Start(p) ==
  /\ phase = "idle"
  /\ pdu' = p
  /\ phase' = "structure"
  /\ UNCHANGED <<at, attrs, found, numbers, results, heads, skipped>>

Refuse == phase' = "refused" /\ UNCHANGED <<pdu, at, attrs, found, numbers, results, heads, skipped>>

-----------------------------------------------------------------------------
(* The structure: header, withdrawn routes, attributes, NLRI.                *)
BgpHeaderSize == 19
WithdrawnFrom == BgpHeaderSize + 2
UpdateEnd == ReadUint16(octets, 16)
WithdrawnEnd == WithdrawnFrom + ReadUint16(octets, BgpHeaderSize)
AttributesFrom == WithdrawnEnd + 2
AttributesEnd == AttributesFrom + ReadUint16(octets, WithdrawnEnd)

StructureFits ==
  /\ Holds(octets, 0, BgpHeaderSize)
  /\ \A i \in 0..15 : ReadUint8(octets, i) = 255
  /\ ReadUint8(octets, 18) = UPDATE
  /\ Holds(octets, 0, UpdateEnd)
  /\ WithdrawnFrom <= UpdateEnd
  /\ AttributesFrom <= UpdateEnd
  /\ AttributesEnd <= UpdateEnd

ParseStructure ==
  /\ phase = "structure"
  /\ \/ /\ StructureFits
        /\ phase' = "attributes" /\ at' = AttributesFrom
        /\ UNCHANGED <<pdu, attrs, found, numbers, results, heads, skipped>>
     \/ ~StructureFits /\ Refuse

(* parse_path_attributes: with the flag 0x10 the length has two octets.      *)
Extended(p) == (ReadUint8(octets, p) \div 16) % 2 = 1
ValueFrom(p) == p + (IF Extended(p) THEN 4 ELSE 3)
ValueEnd(p) ==
  ValueFrom(p) + (IF Extended(p) THEN ReadUint16(octets, p + 2) ELSE ReadUint8(octets, p + 2))

(* Mutated: the value is not checked against the end of the attributes.      *)
AttributeHeaderFits(p) == p + 3 <= AttributesEnd /\ ValueFrom(p) <= AttributesEnd

AttributeFits(p) ==
  /\ p + 3 <= AttributesEnd
  /\ ValueFrom(p) <= AttributesEnd
  /\ ValueEnd(p) <= AttributesEnd

AttributeAt(p) == [type |-> ReadUint8(octets, p + 1), from |-> ValueFrom(p), to |-> ValueEnd(p)]

FindAttribute ==
  /\ phase = "attributes" /\ at < AttributesEnd
  /\ \/ /\ AttributeFits(at)
        /\ attrs' = Append(attrs, AttributeAt(at))
        /\ at' = ValueEnd(at)
        /\ UNCHANGED <<pdu, phase, found, numbers, results, heads, skipped>>
     \/ ~AttributeFits(at) /\ Refuse

EndAttributes ==
  /\ phase = "attributes" /\ at >= AttributesEnd
  /\ phase' = "withdrawn" /\ at' = WithdrawnFrom
  /\ UNCHANGED <<pdu, attrs, found, numbers, results, heads, skipped>>

-----------------------------------------------------------------------------
(* The path attributes that have no loop of their own.                       *)
Size(a) == a.to - a.from

Done == attrs' = Tail(attrs) /\ phase' = "values"

(* Mutated: the routes read before the error are kept.                       *)
SkipKeepsRoutes ==
  /\ Done
  /\ skipped' = skipped \cup {Head(attrs)}
  /\ announced' = IF phase = "routes" THEN announced \o found ELSE announced
  /\ UNCHANGED <<pdu, at, found, numbers, afi, first, withdrawn, asPath, described, heads>>

(* "Skip malformed attributes": whatever its parser raised.                   *)
Skip ==
  /\ Done
  /\ skipped' = skipped \cup {Head(attrs)}
  /\ UNCHANGED <<pdu, at, found, numbers, results, heads>>

(* What the parser of each raises on. *)
Readable(a) ==
  /\ a.type = ORIGIN => Size(a) >= 1
  /\ a.type \in {MULTI_EXIT_DISC, LOCAL_PREF} => Size(a) >= 4
  /\ a.type = COMMUNITIES => Size(a) % 4 = 0
  /\ a.type = EXTENDED_COMMUNITIES => Size(a) % 8 = 0

Groups(a, n) == [i \in 1..(Size(a) \div n) |-> ReadBytes(octets, a.from + n * (i - 1), n)]

(* A value to be shown; formatting is left out.                              *)
Value(a) ==
  IF a.type = COMMUNITIES THEN Groups(a, 4)
  ELSE IF a.type = EXTENDED_COMMUNITIES THEN Groups(a, 8)
  ELSE ReadBytes(octets, a.from, IF a.type = ORIGIN THEN 1 ELSE 4)

(* A NEXT_HOP too short is no error, and no next hop; an attribute of another  *)
(* type is not read.                                                        *)
Described(a) ==
  IF a.type \in Descriptions /\ (a.type = NEXT_HOP => Size(a) >= 4)
  THEN [described EXCEPT ![a.type] = Value(a)] ELSE described

OpensPart(a) == a.type \in {AS_PATH, MP_REACH_NLRI, MP_UNREACH_NLRI}

Describe ==
  /\ phase = "values" /\ attrs # <<>>
  /\ ~OpensPart(Head(attrs))
  /\ \/ /\ Readable(Head(attrs))
        /\ Done
        /\ described' = Described(Head(attrs))
        /\ UNCHANGED <<pdu, at, found, numbers, afi, first, announced, withdrawn, asPath,
                       heads, skipped>>
     \/ ~Readable(Head(attrs)) /\ Skip

-----------------------------------------------------------------------------
(* parse_as_path *)

(* Mutated: four octets only if that is what all the remaining octets give.   *)
AsSizeExact(length, remaining) ==
  IF length = 0 \/ remaining \div length = 4 THEN 4 ELSE 2

(* The octets of an AS number are told from the octets that remain: those of  *)
(* this segment, and those of the segments after it.                        *)
AsSize(length, remaining) ==
  IF length = 0 THEN 4
  ELSE IF remaining \div length \in {2, 4} THEN remaining \div length
  ELSE IF remaining >= 4 * length THEN 4 ELSE 2

OpenPath ==
  /\ phase = "values" /\ attrs # <<>>
  /\ Head(attrs).type = AS_PATH
  /\ phase' = "path" /\ at' = Head(attrs).from
  /\ numbers' = <<>> /\ heads' = <<at'>>
  /\ UNCHANGED <<pdu, attrs, found, results, skipped>>

SegmentLength == ReadUint8(octets, at + 1)
SegmentAsSize == AsSize(SegmentLength, Head(attrs).to - (at + 2))
SegmentEnd == at + 2 + SegmentLength * SegmentAsSize
SegmentFits == at + 2 <= Head(attrs).to /\ SegmentEnd <= Head(attrs).to

NumberAt(p, size, i) ==
  IF size = 4 THEN ReadUint32(octets, p + 2 + 4 * (i - 1)) ELSE ReadUint16(octets, p + 2 + 2 * (i - 1))

(* The numbers of segments of other types are read and dropped.              *)
SegmentNumbers ==
  IF ReadUint8(octets, at) \in {AS_SET, AS_SEQUENCE}
  THEN [i \in 1..SegmentLength |-> NumberAt(at, SegmentAsSize, i)] ELSE <<>>

ParseSegment ==
  /\ phase = "path" /\ at < Head(attrs).to
  /\ \/ /\ SegmentFits
        /\ numbers' = numbers \o SegmentNumbers
        /\ at' = SegmentEnd
        /\ heads' = Append(heads, at')
        /\ UNCHANGED <<pdu, phase, attrs, found, results, skipped>>
     \/ ~SegmentFits /\ Skip

EndPath ==
  /\ phase = "path" /\ at >= Head(attrs).to
  /\ Done
  /\ asPath' = numbers
  /\ UNCHANGED <<pdu, at, found, numbers, afi, first, announced, withdrawn, described,
                 heads, skipped>>

-----------------------------------------------------------------------------
(* Routes.  A part has one form, by its AFI and SAFI; of an AFI and SAFI the   *)
(* parser has no loop for, nothing is read.                                 *)
Form(a) ==
  LET pair == <<ReadUint16(octets, a.from), ReadUint8(octets, a.from + 2)>>
  IN IF pair \in {<<1, 1>>, <<2, 1>>, <<25, 70>>} THEN AfiName(pair[1]) ELSE "unknown"

(* Mutated: the octet of the length is not counted.                           *)
PrefixSizeBits(p) == (ReadUint8(octets, p) + 7) \div 8

PrefixSize(p) == 1 + (ReadUint8(octets, p) + 7) \div 8

(* Mutated: a prefix longer than an address is taken.                         *)
PrefixFitsAnyhow(p, end, longest) == p + PrefixSize(p) <= end

(* parse_ipv4_prefix, parse_ipv6_prefix *)
PrefixFits(p, end, longest) == ReadUint8(octets, p) <= longest /\ p + PrefixSize(p) <= end

EvpnType(p) == ReadUint8(octets, p)
EvpnSize(p) == 2 + ReadUint8(octets, p + 1)
MAC_IP_ADVERTISEMENT == 2

EvpnFits(p, end) ==
  /\ p + EvpnSize(p) <= end
  /\ EvpnType(p) = MAC_IP_ADVERTISEMENT => EvpnSize(p) >= 2 + 33

(* parse_route_distinguisher writes types 0 and 2 in the same way: number,     *)
(* colon, number.                                                           *)
Distinguisher(p) ==
  LET type == ReadUint16(octets, p) IN
  IF type = 0 THEN <<ReadUint16(octets, p + 2), ReadUint32(octets, p + 4)>>
  ELSE IF type = 2 THEN <<ReadUint32(octets, p + 2), ReadUint16(octets, p + 6)>>
  ELSE IF type = 1 THEN ReadBytes(octets, p + 2, 4) \o <<ReadUint16(octets, p + 6)>>
  ELSE ReadBytes(octets, p, 8)

(* parse_evpn_nlri, a MAC/IP advertisement: distinguisher, segment, tag, then  *)
(* a MAC if its length is 48 and an address if its length is 32 or 128 and   *)
(* the attribute, if not the route, has the octets.                         *)
MacFrom(p) == p + 2 + 8 + 10 + 4 + 1
MacSize(p) == IF ReadUint8(octets, MacFrom(p) - 1) = 48 THEN 6 ELSE 0
IpFrom(p) == MacFrom(p) + MacSize(p) + 1
IpSize(p, end) ==
  LET bits == ReadUint8(octets, IpFrom(p) - 1)
  IN IF bits \in {32, 128} /\ IpFrom(p) + bits \div 8 <= end THEN bits \div 8 ELSE 0

MacIpFields(p) ==
  <<Distinguisher(p + 2), ReadBytes(octets, p + 10, 10), ReadBytes(octets, MacFrom(p), MacSize(p))>>

(* The address is kept with the octet of its length, as a host prefix is: to   *)
(* the database, which holds both in the same column, they are the same.     *)
MacIpRoute(p, end) ==
  IF IpSize(p, end) = 0 THEN [afi |-> "l2vpn", kind |-> "mac", name |-> MacIpFields(p)]
  ELSE [afi |-> "l2vpn", kind |-> "mac_ip", name |-> MacIpFields(p),
        address |-> <<ReadBytes(octets, IpFrom(p) - 1, 1 + IpSize(p, end))>>]

RouteFits(form, p, end) ==
  IF form = "ipv4" THEN PrefixFits(p, end, 32)
  ELSE IF form = "ipv6" THEN PrefixFits(p, end, 128)
  ELSE EvpnFits(p, end)

RouteSize(form, p) == IF form = "l2vpn" THEN EvpnSize(p) ELSE PrefixSize(p)

(* The name of a route is what of it is read, in pieces.                     *)
Route(form, p, end) ==
  IF form # "l2vpn" THEN [afi |-> form, kind |-> "ip", name |-> <<ReadBytes(octets, p, PrefixSize(p))>>]
  ELSE IF EvpnType(p) = MAC_IP_ADVERTISEMENT THEN MacIpRoute(p, end)
  ELSE [afi |-> form, kind |-> "other", name |-> <<<<EvpnType(p)>>>>]

(* The loop goes on: one octet of EVPN is no route and no error.              *)
More(form, p, end) ==
  /\ form # "unknown"
  /\ p < end
  /\ form = "l2vpn" => p + 2 <= end

ReadRoute(form, end) ==
  /\ More(form, at, end) /\ RouteFits(form, at, end)
  /\ found' = Append(found, Route(form, at, end))
  /\ at' = at + RouteSize(form, at)
  /\ UNCHANGED <<pdu, phase, attrs, numbers, results, heads, skipped>>

-----------------------------------------------------------------------------
(* The withdrawn routes come first, and one that does not parse costs the      *)
(* whole message.                                                           *)
ParseWithdrawn ==
  /\ phase = "withdrawn"
  /\ \/ ReadRoute("ipv4", WithdrawnEnd)
     \/ More("ipv4", at, WithdrawnEnd) /\ ~RouteFits("ipv4", at, WithdrawnEnd) /\ Refuse

EndWithdrawn ==
  /\ phase = "withdrawn" /\ ~More("ipv4", at, WithdrawnEnd)
  /\ phase' = "values"
  /\ withdrawn' = found
  /\ UNCHANGED <<pdu, at, attrs, found, numbers, afi, first, announced, asPath, described,
                 heads, skipped>>

(* MP_REACH_NLRI: AFI, SAFI, next hop, a reserved octet, routes.              *)
HopSize(a) == ReadUint8(octets, a.from + 3)
RoutesFrom(a) == a.from + (IF a.type = MP_REACH_NLRI THEN 4 + HopSize(a) + 1 ELSE 3)
Opens(a) ==
  /\ Size(a) >= (IF a.type = MP_REACH_NLRI THEN 5 ELSE 3)
  /\ RoutesFrom(a) <= a.to

OpenRoutes ==
  /\ phase = "values" /\ attrs # <<>>
  /\ Head(attrs).type \in {MP_REACH_NLRI, MP_UNREACH_NLRI}
  /\ \/ /\ Opens(Head(attrs))
        /\ phase' = "routes" /\ at' = RoutesFrom(Head(attrs))
        /\ found' = <<>>
        /\ UNCHANGED <<pdu, attrs, numbers, results, heads, skipped>>
     \/ ~Opens(Head(attrs)) /\ Skip

ParseRoutes ==
  LET a == Head(attrs) IN
  /\ phase = "routes"
  /\ \/ ReadRoute(Form(a), a.to)
     \/ More(Form(a), at, a.to) /\ ~RouteFits(Form(a), at, a.to) /\ Skip

(* An IPv4 next hop has 4 octets or more, an IPv6 one 16 or more, that of EVPN *)
(* 4 or 16.                                                                 *)
MpNextHop(a) ==
  LET family == AfiName(ReadUint16(octets, a.from))
      size == IF family = "ipv4" /\ HopSize(a) >= 4 THEN 4
              ELSE IF family = "ipv6" /\ HopSize(a) >= 16 THEN 16
              ELSE IF family = "l2vpn" /\ HopSize(a) \in {4, 16} THEN HopSize(a) ELSE 0
  IN ReadBytes(octets, a.from + 4, size)

(* Mutated: what the attribute has for a next hop is taken, be it none.       *)
NextHopTaken(a) ==
  IF a.type = MP_REACH_NLRI THEN [described EXCEPT ![NEXT_HOP] = MpNextHop(a)] ELSE described

DescribedHop(a) ==
  IF a.type = MP_REACH_NLRI /\ MpNextHop(a) # <<>>
  THEN [described EXCEPT ![NEXT_HOP] = MpNextHop(a)] ELSE described

FirstFields(routes) ==
  IF routes = <<>> \/ Head(routes).afi # "l2vpn" THEN first
  ELSE IF Head(routes).kind = "other" THEN None ELSE Head(routes).name

(* Only now is anything of the attribute kept. *)
KeepRoutes(a) ==
  /\ afi' = AfiName(ReadUint16(octets, a.from))
  /\ first' = FirstFields(found)
  /\ described' = DescribedHop(a)
  /\ \/ a.type = MP_REACH_NLRI /\ announced' = announced \o found /\ UNCHANGED withdrawn
     \/ a.type = MP_UNREACH_NLRI /\ withdrawn' = withdrawn \o found /\ UNCHANGED announced

(* Mutated: without the break, the octet that is no route is read for ever.    *)
EndRoutesAtEnd ==
  /\ phase = "routes" /\ (Form(Head(attrs)) = "unknown" \/ at >= Head(attrs).to)
  /\ Done
  /\ KeepRoutes(Head(attrs))
  /\ UNCHANGED <<pdu, at, found, numbers, asPath, heads, skipped>>

EndRoutes ==
  /\ phase = "routes" /\ ~More(Form(Head(attrs)), at, Head(attrs).to)
  /\ Done
  /\ KeepRoutes(Head(attrs))
  /\ UNCHANGED <<pdu, at, found, numbers, asPath, heads, skipped>>

(* The NLRI is what the attributes leave of the message.                     *)
OpenNlri ==
  /\ phase = "values" /\ attrs = <<>>
  /\ phase' = "nlri" /\ at' = AttributesEnd
  /\ found' = <<>>
  /\ UNCHANGED <<pdu, attrs, numbers, results, heads, skipped>>

ParseNlri ==
  /\ phase = "nlri"
  /\ \/ ReadRoute("ipv4", UpdateEnd)
     \/ More("ipv4", at, UpdateEnd) /\ ~RouteFits("ipv4", at, UpdateEnd) /\ Refuse

EndNlri ==
  /\ phase = "nlri" /\ ~More("ipv4", at, UpdateEnd)
  /\ phase' = "parsed"
  /\ announced' = announced \o found
  /\ afi' = IF AttributesEnd < UpdateEnd THEN "ipv4" ELSE afi
  /\ UNCHANGED <<pdu, at, attrs, found, numbers, first, withdrawn, asPath, described,
                 heads, skipped>>

NextBgp ==
  \/ ParseStructure \/ FindAttribute \/ EndAttributes
  \/ ParseWithdrawn \/ EndWithdrawn
  \/ Describe
  \/ OpenPath \/ ParseSegment \/ EndPath
  \/ OpenRoutes \/ ParseRoutes \/ EndRoutes
  \/ OpenNlri \/ ParseNlri \/ EndNlri

SpecBgp == InitBgp /\ [][(\E p \in Pdus : Start(p)) \/ NextBgp]_bgpVars

-----------------------------------------------------------------------------
(* Type invariant: no attribute leaves the attributes, and no read the region  *)
(* of the part it belongs to.                                               *)
Within(a) ==
  /\ a \in [type : Octet, from : Nat, to : Nat]
  /\ AttributesFrom <= a.from /\ a.from <= a.to /\ a.to <= AttributesEnd

BgpTypeOK ==
  /\ phase \in {"idle", "structure", "attributes", "withdrawn", "values", "path", "routes",
                "nlri", "parsed", "refused"}
  /\ at \in Nat
  /\ IF phase = "idle" THEN pdu = None ELSE octets \in Seq(Octet) /\ pdu.cuts \in Seq(Nat)
  /\ \A i \in DOMAIN attrs : Within(attrs[i])
  /\ phase = "attributes" => AttributesFrom <= at /\ at <= AttributesEnd
  /\ phase = "withdrawn" => WithdrawnFrom <= at /\ at <= WithdrawnEnd
  /\ phase \in {"path", "routes"} => attrs # <<>> /\ Head(attrs).from <= at /\ at <= Head(attrs).to
  /\ phase \in {"nlri", "parsed"} => AttributesEnd <= at /\ at <= UpdateEnd
  /\ phase \notin {"idle", "structure", "refused"} =>
       AttributesEnd <= UpdateEnd /\ UpdateEnd <= Len(octets)

(* The parser does, octet by octet, what UpdateParts does part by part: it     *)
(* finds the parts the writer put there, and in each the routes, and an       *)
(* attribute that does not parse leaves nothing behind.                     *)
IsMp(a) == a.type \in {MP_REACH_NLRI, MP_UNREACH_NLRI}

(* How many of the attributes as have routes, from the j-th on.              *)
MpFrom(as, j) == Cardinality({i \in DOMAIN as : i >= j /\ IsMp(as[i])})

LastOf(s, n) == SubSeq(s, Len(s) - n + 1, Len(s))

PartsWritten == {p.parts : p \in Pdus}
AnyParts == CHOOSE u \in PartsWritten : TRUE

Before == phase \in {"idle", "structure", "attributes", "withdrawn"}
Meant == IF Before THEN AnyParts ELSE pdu.parts
IfReturned(list) == IF phase = "refused" THEN <<>> ELSE list

PartsPc ==
  IF Before \/ phase = "refused" THEN "idle" ELSE IF phase = "parsed" THEN "add" ELSE "attributes"
PartsLeft ==
  IF Before \/ phase = "refused" THEN <<>> ELSE LastOf(Meant.attributes, MpFrom(attrs, 1))

Parts == INSTANCE UpdateParts WITH
  Names <- Seq(Seq(Nat)),
  Updates <- PartsWritten,
  pc <- PartsPc,
  update <- Meant,
  rest <- PartsLeft,
  announced <- IfReturned(announced),
  withdrawn <- IfReturned(withdrawn)

ASSUME PartsAssumption == PartsWritten \subseteq Parts!UpdateMessages

ImplementsParts == Parts!PartsSpec

-----------------------------------------------------------------------------
(* What the writer meant is what the octets say, by the format and without a   *)
(* parser.  Of a list of routes: from the first octet on, one route after the *)
(* other, until there is no more or one does not parse.                     *)
RoutesLaid(routes, cuts, form, from, end) ==
  LET n == Len(cuts) IN
  /\ n \in 1..(Len(routes) + 1) /\ cuts[1] = from
  /\ \A i \in 1..(n - 1) :
       /\ More(form, cuts[i], end) /\ RouteFits(form, cuts[i], end)
       /\ routes[i] = Route(form, cuts[i], end) /\ routes[i] # Malformed
       /\ cuts[i + 1] = cuts[i] + RouteSize(form, cuts[i])
  /\ IF n = Len(routes) + 1 THEN ~More(form, cuts[n], end)
     ELSE /\ More(form, cuts[n], end) /\ ~RouteFits(form, cuts[n], end)
          /\ routes[n] = Malformed

(* Of an attribute with routes: the part it is, by its type and its AFI.      *)
PartLaid(a, part, cuts) ==
  /\ part.reach <=> a.type = MP_REACH_NLRI
  /\ IF Opens(a)
     THEN /\ part.afi = AfiName(ReadUint16(octets, a.from))
          /\ RoutesLaid(part.routes, cuts, Form(a), RoutesFrom(a), a.to)
     ELSE ~Parts!WellFormed(part)

(* Of the attributes: those with routes are the last parts, in their order.   *)
PartNumber(as, j) == Len(pdu.parts.attributes) - MpFrom(as, j) + 1

PartsLaid(as) ==
  \A j \in DOMAIN as : IsMp(as[j]) =>
    PartLaid(as[j], pdu.parts.attributes[PartNumber(as, j)], pdu.routeCuts.attributes[PartNumber(as, j)])

AttributesWritten == [i \in 1..(Len(pdu.attributeCuts) - 1) |-> AttributeAt(pdu.attributeCuts[i])]

(* Of an AS_PATH whose numbers have width octets: one segment after the other,  *)
(* up to its end, or up to one too short for numbers of any size.             *)
SegmentsLaid(p, width, a) ==
  /\ p.cuts # <<>> /\ p.cuts[1] = a.from
  /\ \A i \in 1..(Len(p.cuts) - 1) :
       /\ p.cuts[i] + 2 <= a.to /\ p.cuts[i + 1] <= a.to
       /\ p.cuts[i + 1] = p.cuts[i] + 2 + width * ReadUint8(p.octets, p.cuts[i] + 1)

PathLaid(p, width, a) == SegmentsLaid(p, width, a) /\ p.cuts[Len(p.cuts)] = a.to

PathCutShort(p, width, a) ==
  LET last == p.cuts[Len(p.cuts)] IN
  /\ SegmentsLaid(p, width, a) /\ last < a.to
  /\ last + 2 > a.to \/ last + 2 + 2 * ReadUint8(p.octets, last + 1) > a.to

(* The numbers of its sets and sequences, in their order.                     *)
NumbersOf(p) == IF ReadUint8(octets, p) \in {AS_SET, AS_SEQUENCE} THEN ReadUint8(octets, p + 1) ELSE 0

NumbersLaid ==
  LET last == Len(pdu.cuts) IN
  /\ pdu.path # None
  /\ Len(pdu.counts) = last /\ pdu.counts[1] = 0 /\ pdu.counts[last] = Len(pdu.path)
  /\ \A i \in 1..(last - 1) :
       /\ pdu.counts[i + 1] = pdu.counts[i] + NumbersOf(pdu.cuts[i])
       /\ \A k \in 1..NumbersOf(pdu.cuts[i]) :
            pdu.path[pdu.counts[i] + k] = NumberAt(pdu.cuts[i], pdu.width, k)

(* There is one AS_PATH at most.                                            *)
PathWritten(as) ==
  /\ \A j, k \in DOMAIN as : as[j].type = AS_PATH /\ as[k].type = AS_PATH => j = k
  /\ (\A j \in DOMAIN as : as[j].type # AS_PATH) => pdu.path = None
  /\ \A j \in DOMAIN as : as[j].type = AS_PATH =>
       \/ PathLaid(pdu, pdu.width, as[j]) /\ NumbersLaid
       \/ PathCutShort(pdu, 4, as[j]) /\ pdu.width = 4 /\ pdu.path = None

(* Of the descriptions: the last attribute that gives one, next hops of         *)
(* well-formed MP_REACH_NLRI included.                                       *)
Gives(as, j, t) ==
  \/ as[j].type = t /\ Readable(as[j]) /\ (t = NEXT_HOP => Size(as[j]) >= 4)
  \/ /\ t = NEXT_HOP /\ as[j].type = MP_REACH_NLRI
     /\ Parts!WellFormed(pdu.parts.attributes[PartNumber(as, j)])
     /\ MpNextHop(as[j]) # <<>>

Given(a, t) == IF a.type = t THEN Value(a) ELSE MpNextHop(a)

LastGives(as, j, t) == Gives(as, j, t) /\ \A k \in DOMAIN as : k > j => ~Gives(as, k, t)

DescriptionLaid(as) ==
  \A t \in Descriptions :
    \A j \in DOMAIN as : LastGives(as, j, t) => pdu.described[t] = Given(as[j], t)

NothingElseDescribed(as) ==
  \A t \in Descriptions : (\A j \in DOMAIN as : ~Gives(as, j, t)) => pdu.described[t] = None

(* An UPDATE whose structure or attributes do not fit means nothing, which is   *)
(* written as a malformed withdrawn route.                                   *)
MeansNothing == Malformed \in Parts!Elements(pdu.parts.withdrawn)

UpdateLaid ==
  LET cuts == pdu.attributeCuts
      n == Len(cuts)
  IN IF ~StructureFits THEN MeansNothing
     ELSE /\ n \in Nat \ {0} /\ cuts[1] = AttributesFrom
          /\ \A i \in 1..(n - 1) : /\ cuts[i] < AttributesEnd /\ AttributeFits(cuts[i])
                                   /\ cuts[i + 1] = ValueEnd(cuts[i])
          /\ IF cuts[n] < AttributesEnd THEN ~AttributeFits(cuts[n]) /\ MeansNothing
             ELSE /\ RoutesLaid(pdu.parts.withdrawn, pdu.routeCuts.withdrawn, "ipv4", WithdrawnFrom, WithdrawnEnd)
                  /\ MpFrom(AttributesWritten, 1) = Len(pdu.parts.attributes)
                  /\ PartsLaid(AttributesWritten)
                  /\ DescriptionLaid(AttributesWritten) /\ NothingElseDescribed(AttributesWritten)
                  /\ PathWritten(AttributesWritten)
                  /\ RoutesLaid(pdu.parts.nlri, pdu.routeCuts.nlri, "ipv4", AttributesEnd, UpdateEnd)

(* The parser is given messages that say what their writer meant: what fits and *)
(* what does not, where each route is and what it is.                       *)
MeaningIsLaid == phase # "idle" => UpdateLaid

(* An AS_PATH of four-octet numbers is read segment by segment, wherever its    *)
(* segments end and however many there are, and is never skipped: the size    *)
(* the parser takes the numbers for is right for each of them.               *)
FourOctetPathsAligned ==
  /\ phase = "path" /\ PathLaid(pdu, 4, Head(attrs)) =>
       /\ Len(heads) <= Len(pdu.cuts)
       /\ \A i \in DOMAIN heads : heads[i] = pdu.cuts[i]
  /\ \A a \in skipped : a.type = AS_PATH => ~PathLaid(pdu, 4, a)

(* What describes the routes is what the writer gave, each attribute whole and *)
(* none under another's name, whatever malformed ones stand beside it; the    *)
(* AS_PATH, if its numbers have four octets or it has one segment.            *)
DescriptionIsRead ==
  phase = "parsed" =>
    /\ \A t \in Descriptions : described[t] = pdu.described[t]
    /\ pdu.width = 4 \/ Len(pdu.cuts) <= 2 => asPath = pdu.path

(* bgp_parser.py:275 "Modern BGP uses 4-byte AS numbers (RFC 6793), legacy uses *)
(* 2-byte": the parser takes both.                                           *)
PathsAreRead == phase = "parsed" => asPath = pdu.path

(* How many steps the parser can still take: two for an octet of the            *)
(* attributes, which are found first and read then, and one for any other.    *)
BgpTurnsLeft ==
  CASE phase = "structure" -> 2 * Len(octets) + 1
    [] phase = "attributes" -> UpdateEnd + AttributesEnd - at
    [] phase = "withdrawn" -> UpdateEnd - at + 4
    [] phase = "values" -> IF attrs = <<>> THEN UpdateEnd - AttributesEnd + 2 ELSE UpdateEnd - Head(attrs).from + 5
    [] phase \in {"path", "routes"} -> UpdateEnd - at + 3
    [] phase = "nlri" -> UpdateEnd - at + 1
    [] OTHER -> 0
=============================================================================
