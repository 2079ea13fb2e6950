--------------------------- MODULE MCMessageParser ---------------------------
(***************************************************************************)
(* Messages for TLC: what a router would write, octet by octet, with every    *)
(* octet of the BMP messages changed and every length tried; and UPDATEs put *)
(* together of well-formed and malformed parts, with what they mean.         *)
(***************************************************************************)
EXTENDS MessageParser, TLC

CONSTANT bad

U16(n) == <<n \div 256, n % 256>>
U32(n) == U16(n \div 65536) \o U16(n % 65536)
Fill(n, octet) == [i \in 1..n |-> octet]
Count(n, from) == [i \in 1..n |-> from + i]
Join(ss) == LET f[i \in 0..Len(ss)] == IF i = 0 THEN <<>> ELSE f[i - 1] \o ss[i] IN f[Len(ss)]
Map(Op(_), s) == [i \in DOMAIN s |-> Op(s[i])]

(***************************************************************************)
(* UPDATEs.  A sample is a part as it is written (wire) with what it means.  *)
(***************************************************************************)
Ip(family, wire) == [wire |-> wire, route |-> [afi |-> family, kind |-> "ip", name |-> <<wire>>]]
Broken(wire) == [wire |-> wire, route |-> bad]

Prefix24 == Ip("ipv4", <<24, 10, 1, 2>>)
Prefix17 == Ip("ipv4", <<17, 10, 1, 128>>)
HostRoute == Ip("ipv4", <<32, 10, 1, 2, 3>>)
DefaultRoute == Ip("ipv4", <<0>>)
TooLong == Broken(<<33, 10, 1, 2, 3, 4>>)
CutOff == Broken(<<24, 10, 1>>)

Prefix6 == Ip("ipv6", <<48>> \o Count(6, 32))
Host6 == Ip("ipv6", <<128>> \o Count(16, 32))
TooLong6 == Broken(<<129>> \o Count(17, 32))

Mac == Count(6, 100)
Segment == Count(10, 50)

Evpn(rd, name, ipSize) ==
  [wire |-> <<2, 33 + ipSize>> \o rd \o Segment \o Fill(4, 0) \o <<48>> \o Mac
              \o <<8 * ipSize>> \o Count(ipSize, 9) \o Fill(3, 7),
   route |-> IF ipSize = 0 THEN [afi |-> "l2vpn", kind |-> "mac", name |-> <<name, Segment, Mac>>]
             ELSE [afi |-> "l2vpn", kind |-> "mac_ip", name |-> <<name, Segment, Mac>>,
                   address |-> <<<<8 * ipSize>> \o Count(ipSize, 9)>>]]

MacRoute == Evpn(U16(0) \o U16(100) \o U32(5), <<100, 5>>, 0)
MacIp4 == Evpn(U16(1) \o <<1, 2, 3, 4>> \o U16(6), <<1, 2, 3, 4, 6>>, 4)
MacIp6 == Evpn(U16(2) \o U32(70000) \o U16(7), <<70000, 7>>, 16)
MacOdd == Evpn(U16(9) \o Count(6, 0), U16(9) \o Count(6, 0), 0)
Multicast == [wire |-> <<3, 17>> \o Count(17, 0),
              route |-> [afi |-> "l2vpn", kind |-> "other", name |-> <<<<3>>>>]]
EvpnShort == Broken(<<2, 32>> \o Fill(32, 0))
EvpnCut == Broken(<<3, 17, 0>>)

Wires(samples) == Join(Map(LAMBDA s : s.wire, samples))
RoutesOfSamples(samples) == Map(LAMBDA s : s.route, samples)

Attribute(type, value) == <<64, type, Len(value)>> \o value
LongAttribute(type, value) == <<80, type>> \o U16(Len(value)) \o value

(* The offsets of things written one after the other, and of the routes in a    *)
(* list: up to the first that is broken.                                     *)
Cuts(start, sizes) ==
  LET f[i \in 0..Len(sizes)] == IF i = 0 THEN start ELSE f[i - 1] + sizes[i]
  IN [i \in 1..(Len(sizes) + 1) |-> f[i - 1]]

Unbroken(samples) ==
  LET fine == {n \in 0..Len(samples) : \A i \in 1..n : samples[i].route # bad}
  IN SubSeq(samples, 1, CHOOSE n \in fine : \A m \in fine : m <= n)

RouteCuts(samples) == Cuts(0, Map(LAMBDA s : Len(s.wire), Unbroken(samples)))
Shifted(n, cuts) == [i \in DOMAIN cuts |-> n + cuts[i]]

(* An attribute: part is what UpdateParts knows of it, cuts where its routes are  *)
(* in the value, says what it describes.                                     *)
Nothing == [t \in {} |-> None]
Plain(type, value, meaning) == [wire |-> Attribute(type, value), part |-> <<>>, cuts |-> <<>>,
                                says |-> IF meaning = None THEN Nothing ELSE type :> meaning]

AfiOf(family) == CASE family = "ipv4" -> 1 [] family = "ipv6" -> 2 [] family = "l2vpn" -> 25 [] OTHER -> 16388
SafiOf(family) == IF family = "l2vpn" THEN 70 ELSE 1

Reach(family, hop, samples) ==
  [wire |-> Attribute(MP_REACH_NLRI, U16(AfiOf(family)) \o <<SafiOf(family), Len(hop)>> \o hop \o <<0>>
                                       \o Wires(samples)),
   part |-> <<[reach |-> TRUE, afi |-> family, routes |-> RoutesOfSamples(samples)]>>,
   cuts |-> <<Shifted(3 + 5 + Len(hop), RouteCuts(samples))>>,
   says |-> IF hop = <<>> \/ bad \in {samples[i].route : i \in DOMAIN samples} THEN Nothing
            ELSE NEXT_HOP :> SubSeq(hop, 1, IF Len(hop) >= 16 THEN 16 ELSE 4)]

Unreach(family, samples) ==
  [wire |-> LongAttribute(MP_UNREACH_NLRI, U16(AfiOf(family)) \o <<SafiOf(family)>> \o Wires(samples)),
   part |-> <<[reach |-> FALSE, afi |-> family, routes |-> RoutesOfSamples(samples)]>>,
   cuts |-> <<Shifted(4 + 3, RouteCuts(samples))>>,
   says |-> Nothing]

(* An attribute with no family the parser reads routes of, one octet of EVPN     *)
(* too many, and values too short to say anything.                           *)
Unread(family, safi) ==
  [wire |-> Attribute(MP_UNREACH_NLRI, U16(AfiOf(family)) \o <<safi, 24, 1, 2, 3>>),
   part |-> <<[reach |-> FALSE, afi |-> family, routes |-> <<>>]>>, cuts |-> <<<<3 + 3>>>>, says |-> Nothing]

OneMore(attribute) == [attribute EXCEPT !.wire = Append([@ EXCEPT ![3] = @ + 1], 4)]

TooShort(type, octet, n) ==
  [wire |-> Attribute(type, Fill(n, octet)),
   part |-> <<[reach |-> type = MP_REACH_NLRI, afi |-> "ipv4", routes |-> <<bad>>]>>, cuts |-> <<<<>>>>,
   says |-> Nothing]

Hop4 == Count(4, 0)
Hop6 == Count(16, 0)
Link6 == Count(32, 0)

Mp == {
  Reach("ipv6", Hop6, <<Prefix6>>), Reach("ipv6", Link6, <<Host6, Prefix6>>), Reach("ipv6", Hop6, <<Prefix6, TooLong6>>),
  Reach("ipv4", Hop4, <<Prefix24, DefaultRoute>>), Reach("ipv4", Hop4, <<Prefix24, CutOff>>),
  Reach("l2vpn", Hop4, <<MacRoute, MacIp4>>), Reach("l2vpn", Hop6, <<Multicast, MacIp6>>),
  OneMore(Reach("l2vpn", <<>>, <<MacOdd>>)), Reach("l2vpn", Hop4, <<MacRoute, EvpnShort>>),
  Unreach("ipv6", <<Prefix6, Host6>>), Unreach("ipv6", <<>>), Unreach("l2vpn", <<MacIp4>>),
  Unreach("l2vpn", <<MacIp4, EvpnCut>>), Unreach("ipv4", <<TooLong, Prefix17>>),
  Unread("ipv6", 2), Unread("unknown", 1), TooShort(MP_REACH_NLRI, 0, 4), TooShort(MP_REACH_NLRI, 9, 12),
  TooShort(MP_UNREACH_NLRI, 1, 2)}

SomeMp == {Reach("ipv6", Hop6, <<Prefix6>>), OneMore(Reach("l2vpn", <<>>, <<MacOdd>>)),
           Reach("l2vpn", Hop4, <<MacRoute, EvpnShort>>), Unreach("l2vpn", <<Multicast>>),
           Unreach("ipv6", <<Prefix6>>)}

Describing == {
  Plain(ORIGIN, <<2>>, <<2>>), Plain(ORIGIN, <<>>, None), Plain(NEXT_HOP, Count(4, 9), Count(4, 9)),
  Plain(NEXT_HOP, <<1>>, None), Plain(MULTI_EXIT_DISC, U32(70000), U32(70000)), Plain(LOCAL_PREF, <<1, 2, 3>>, None),
  Plain(COMMUNITIES, Count(8, 0), <<Count(4, 0), Count(4, 4)>>), Plain(COMMUNITIES, Count(6, 0), None),
  Plain(EXTENDED_COMMUNITIES, Count(8, 0), <<Count(8, 0)>>), Plain(EXTENDED_COMMUNITIES, Count(4, 0), None),
  Plain(99, <<1>>, None)}

(* An AS_PATH: segments, each a type and AS numbers.                          *)
AsWire(width, n) == IF width = 4 THEN U32(n) ELSE U16(n)
SegmentWire(width, s) == <<s[1], Len(s[2])>> \o Join(Map(LAMBDA n : AsWire(width, n), s[2]))
PathSample(width, segments) ==
  [wire |-> LongAttribute(AS_PATH, Join(Map(LAMBDA s : SegmentWire(width, s), segments))),
   part |-> <<>>, cuts |-> <<>>, says |-> Nothing, width |-> width,
   numbers |-> Join(Map(LAMBDA s : IF s[1] \in {1, 2} THEN s[2] ELSE <<>>, segments)),
   counts |-> Cuts(0, Map(LAMBDA s : IF s[1] \in {1, 2} THEN Len(s[2]) ELSE 0, segments)),
   sizes |-> Map(LAMBDA s : 2 + width * Len(s[2]), segments)]

NoPath == [wire |-> <<>>, part |-> <<>>, cuts |-> <<>>, says |-> Nothing, width |-> 4, numbers |-> None,
           counts |-> <<>>, sizes |-> <<>>]

(* The last segment has octets for no three numbers of any size.               *)
CutPath(segments) ==
  [PathSample(4, segments) EXCEPT !.numbers = None,
     !.wire = LongAttribute(AS_PATH, Join(Map(LAMBDA s : SegmentWire(4, s), segments)) \o <<2, 3, 0, 0, 7>>)]

Paths == {
  PathSample(4, <<>>), PathSample(4, <<<<2, <<7, 70000, 8>>>>>>), PathSample(4, <<<<2, <<7>>>>, <<1, <<8, 9>>>>>>),
  PathSample(4, <<<<2, <<>>>>, <<3, <<5>>>>, <<2, <<6, 7>>>>>>), PathSample(4, <<<<2, <<1, 2>>>>, <<2, <<3>>>>, <<1, <<4>>>>>>),
  PathSample(2, <<<<2, <<7>>>>>>), PathSample(2, <<<<2, <<7, 8, 9>>>>>>), CutPath(<<>>),
  CutPath(<<<<2, <<7>>>>, <<1, <<8, 9>>>>>>)}

ShortPaths == {PathSample(2, <<<<2, <<7>>>>, <<1, <<8>>>>>>), PathSample(2, <<<<2, <<7, 8>>>>, <<1, <<9, 10>>>>>>)}

UpdateWire(w, a, n) ==
  Fill(16, 255) \o U16(23 + Len(w) + Len(a) + Len(n)) \o <<UPDATE>>
    \o U16(Len(w)) \o w \o U16(Len(a)) \o a \o n

(* The AS_PATH comes before the other attributes.                            *)
Pdu(w, path, as, n) ==
  LET all == <<path>> \o as
      f[i \in 0..Len(all)] == IF i = 0 THEN [t \in Descriptions |-> None] ELSE all[i].says @@ f[i - 1]
      from == 23 + Len(Wires(w))
      starts == Cuts(from, Map(LAMBDA a : Len(a.wire), IF path.wire = <<>> THEN as ELSE all))
      values == Cuts(from, Map(LAMBDA a : Len(a.wire), all))
      inValue(i) == Map(LAMBDA c : Shifted(values[i], c), all[i].cuts)
  IN [octets |-> UpdateWire(Wires(w), Wires(all), Wires(n)),
      parts |-> [withdrawn |-> RoutesOfSamples(w), attributes |-> Join(Map(LAMBDA a : a.part, all)),
                 nlri |-> RoutesOfSamples(n)],
      attributeCuts |-> starts,
      routeCuts |-> [withdrawn |-> Shifted(21, RouteCuts(w)), attributes |-> Join([i \in DOMAIN all |-> inValue(i)]),
                     nlri |-> Shifted(starts[Len(starts)], RouteCuts(n))],
      described |-> f[Len(all)],
      path |-> path.numbers, width |-> path.width,
      cuts |-> Cuts(from + 4, path.sizes), counts |-> path.counts]

Whole == Pdu(<<Prefix24>>, PathSample(4, <<<<2, <<7>>>>>>), <<Plain(ORIGIN, <<2>>, <<2>>)>>, <<>>)

(* Neither a structure nor a meaning, or a second attribute that is cut short.   *)
Damaged(wire) == [Whole EXCEPT !.octets = wire, !.attributeCuts = SubSeq(@, 1, 2),
                               !.parts = [withdrawn |-> <<bad>>, attributes |-> <<>>, nlri |-> <<>>]]

MCPdus ==
  {Pdu(w, NoPath, as, n) :
     w \in {<<>>, <<Prefix24>>, <<DefaultRoute, HostRoute>>, <<Prefix24, TooLong>>, <<CutOff>>},
     as \in {<<>>, <<Unreach("ipv6", <<Prefix6, Host6>>)>>}, n \in {<<>>, <<Prefix17>>, <<HostRoute, Prefix24>>, <<CutOff>>}}
  \cup {Pdu(<<>>, NoPath, <<Plain(NEXT_HOP, Count(4, 9), Count(4, 9)), x>>, <<>>) : x \in Mp}
  \cup {Pdu(<<>>, NoPath, <<x, y>>, <<>>) : x, y \in SomeMp}
  \cup {Pdu(<<>>, NoPath, <<x, y>>, <<Prefix24>>) : x, y \in Describing}
  \cup {Pdu(w, x, <<Plain(ORIGIN, <<2>>, <<2>>)>>, <<>>) : w \in {<<>>, <<Prefix24>>}, x \in Paths}
  \cup {Damaged(SubSeq(Whole.octets, 1, n)) : n \in 0..(Len(Whole.octets) - 1)}
  \cup {Damaged([Whole.octets EXCEPT ![i] = @ + 1]) : i \in {17, 18, 19, 20, 21, 26, 27}}
  \cup {Damaged([Whole.octets EXCEPT ![i] = @ - 1]) : i \in {1, 16, 18, 19, 27}}

MCPdusOfPaths == {Pdu(<<>>, x, <<>>, <<>>) : x \in Paths \cup ShortPaths}

(***************************************************************************)
(* BMP messages. *)
(***************************************************************************)
Bmp(type, body) == <<3>> \o U32(6 + Len(body)) \o <<type>> \o body
PeerHeader == <<1, 64>> \o Fill(40, 0)
Tlv(n) == U16(1) \o U16(n) \o Count(n, 64)
Tlvs(sizes) == Join(Map(LAMBDA n : Tlv(n), sizes))
TlvCuts(start, sizes) == Cuts(start, Map(LAMBDA n : 4 + n, sizes))
Open(n) == Fill(16, 255) \o U16(n) \o <<1>> \o Fill(n - 19, 4)

Written(octs, cuts) == [octets |-> octs, cuts |-> cuts]

Routine == {
  Written(Bmp(INITIATION, Tlvs(<<2, 0, 3>>)), TlvCuts(6, <<2, 0, 3>>)),
  Written(Bmp(TERMINATION, Tlvs(<<2>>)), TlvCuts(6, <<2>>)),
  Written(Bmp(INITIATION, <<>>), <<6>>),
  Written(Bmp(STATISTICS_REPORT, PeerHeader \o U32(2) \o Tlvs(<<4, 8>>)), TlvCuts(52, <<4, 8>>)),
  Written(Bmp(STATISTICS_REPORT, PeerHeader \o U32(0) \o <<1, 2>>), <<52>>),
  Written(Bmp(PEER_DOWN_NOTIFICATION, PeerHeader \o <<2, 0, 1>>), <<>>),
  Written(Bmp(PEER_UP_NOTIFICATION, PeerHeader \o Fill(20, 1) \o Open(29) \o Open(21) \o Tlvs(<<3>>)),
          TlvCuts(118, <<3>>))}

(* Another value in any octet but those of the length.  No message turns into  *)
(* a Route Monitoring message, and the first octet of a count of statistics  *)
(* stays below 128, TLC's integers having 32 bits.                           *)
Changed(m) ==
  {Written([m.octets EXCEPT ![i] = x], m.cuts) :
     i \in DOMAIN m.octets \ (2..6), x \in {0, 1, 4, 5, 18, 127}}
  \cup {Written([m.octets EXCEPT ![i] = 255], m.cuts) : i \in DOMAIN m.octets \ ((2..6) \cup {49})}
  \cup {Written([m.octets EXCEPT ![6] = x], m.cuts) : x \in 1..6}

(* Another length: the listener reads as many octets.                        *)
Resized(m) ==
  {Written(SubSeq(<<3>> \o U32(n) \o SubSeq(m.octets \o Fill(9, 0), 6, Len(m.octets) + 9), 1, n), m.cuts) :
     n \in 6..(Len(m.octets) + 8)}

MCMessages ==
  {Written(Bmp(ROUTE_MONITORING, PeerHeader \o p.octets), <<>>) : p \in Pdus}
  \cup Routine \cup UNION {Changed(m) \cup Resized(m) : m \in Routine}

MCMessagesOfPaths == {Written(Bmp(ROUTE_MONITORING, PeerHeader \o p.octets), <<>>) : p \in Pdus}
=============================================================================
