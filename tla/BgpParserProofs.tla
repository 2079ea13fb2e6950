--------------------------- MODULE BgpParserProofs ---------------------------
(***************************************************************************)
(* For any UPDATE, of any length: the BGP parser reads no part of it beyond   *)
(* the part's end, and takes the numbers of a four-octet AS_PATH for what     *)
(* they are.  For any message: the work of both parsers is bounded by its     *)
(* octets.                                                                  *)
(***************************************************************************)
EXTENDS MessageParser, BmpParserProofs

Recorded == [type : Octet, from : Nat, to : Nat]

(* The parser has checked the structure of the message. *)
Structured == {"attributes", "withdrawn", "values", "path", "routes", "nlri", "parsed"}

(* Where the parser may be in each phase. *)
Located(ph, p, list) ==
  /\ ph = "attributes" => AttributesFrom <= p /\ p <= AttributesEnd
  /\ ph = "withdrawn" => WithdrawnFrom <= p /\ p <= WithdrawnEnd
  /\ ph \in {"path", "routes"} => list # <<>> /\ Head(list).from <= p /\ p <= Head(list).to
  /\ ph \in {"nlri", "parsed"} => AttributesEnd <= p /\ p <= UpdateEnd
  /\ ph = "path" => Head(list).type = AS_PATH
  /\ ph = "routes" => Head(list).type \in {MP_REACH_NLRI, MP_UNREACH_NLRI}

(* The segments found are the first of the segments written, and the parser is *)
(* at the last of them.                                                     *)
Follows(hs, p) ==
  /\ hs # <<>> /\ hs[Len(hs)] = p
  /\ Len(hs) <= Len(pdu.cuts)
  /\ \A i \in DOMAIN hs : hs[i] = pdu.cuts[i]

NoPathSkipped(list) == \A a \in list : a.type = AS_PATH => ~PathLaid(pdu, 4, a)

BgpInv ==
  /\ phase \in Structured \cup {"idle", "structure", "refused"}
  /\ at \in Nat /\ heads \in Seq(Nat)
  /\ IF phase = "idle" THEN pdu = None ELSE octets \in Seq(Octet) /\ pdu.cuts \in Seq(Nat)
  /\ attrs \in Seq(Recorded) /\ (\A i \in DOMAIN attrs : Within(attrs[i]))
  /\ phase \in {"idle", "structure"} => attrs = <<>> /\ skipped = {}
  /\ phase \in Structured => StructureFits
  /\ Located(phase, at, attrs)
  /\ phase = "path" /\ PathLaid(pdu, 4, Head(attrs)) => Follows(heads, at)
  /\ NoPathSkipped(skipped)

-----------------------------------------------------------------------------
(* The regions of a message whose structure fits lie in it one after another. *)
LEMMA Regions ==
  ASSUME octets \in Seq(Octet), StructureFits
  PROVE  /\ UpdateEnd \in Nat /\ WithdrawnEnd \in Nat /\ AttributesFrom \in Nat /\ AttributesEnd \in Nat
         /\ WithdrawnFrom \in Nat /\ WithdrawnFrom <= WithdrawnEnd
         /\ WithdrawnEnd <= AttributesFrom /\ AttributesFrom <= AttributesEnd
         /\ AttributesEnd <= UpdateEnd /\ UpdateEnd <= Len(octets) /\ Len(octets) \in Nat
<1>1. Len(octets) \in Nat /\ 19 <= Len(octets)
  BY DEF StructureFits, Holds, BgpHeaderSize
<1>2. UpdateEnd \in Nat
  BY <1>1, Read16 DEF UpdateEnd
<1>3. UpdateEnd <= Len(octets)
  BY <1>2 DEF StructureFits, Holds
<1>4. WithdrawnFrom = 21
  BY DEF WithdrawnFrom, BgpHeaderSize
<1>5. 19 + 2 <= Len(octets)
  BY <1>1, <1>2, <1>3, <1>4 DEF StructureFits
<1>6. ReadUint16(octets, 19) \in Nat
  BY <1>5, Read16
<1>7. WithdrawnEnd \in Nat /\ WithdrawnFrom <= WithdrawnEnd
  BY <1>4, <1>6 DEF WithdrawnEnd, BgpHeaderSize
<1>8. AttributesFrom = WithdrawnEnd + 2 /\ AttributesFrom <= UpdateEnd
  BY DEF AttributesFrom, StructureFits
<1>9. WithdrawnEnd + 2 <= Len(octets)
  BY <1>1, <1>2, <1>3, <1>7, <1>8
<1>10. ReadUint16(octets, WithdrawnEnd) \in Nat
  BY <1>7, <1>9, Read16
<1>11. AttributesEnd = AttributesFrom + ReadUint16(octets, WithdrawnEnd) /\ AttributesEnd <= UpdateEnd
  BY DEF AttributesEnd, StructureFits
<1> QED
  BY <1>1, <1>2, <1>3, <1>4, <1>7, <1>8, <1>10, <1>11

(* They stay where they are as long as the message is the same. *)
LEMMA Unmoved ==
  ASSUME UNCHANGED pdu
  PROVE  /\ octets' = octets /\ UpdateEnd' = UpdateEnd /\ WithdrawnEnd' = WithdrawnEnd
         /\ AttributesFrom' = AttributesFrom /\ AttributesEnd' = AttributesEnd
         /\ StructureFits' = StructureFits
<1>1. octets' = octets
  BY DEF octets
<1>2. UpdateEnd' = UpdateEnd /\ WithdrawnEnd' = WithdrawnEnd
  BY <1>1 DEF UpdateEnd, WithdrawnEnd
<1>3. AttributesFrom' = AttributesFrom
  BY <1>2 DEF AttributesFrom
<1>4. AttributesEnd' = AttributesEnd
  BY <1>1, <1>2, <1>3 DEF AttributesEnd
<1> QED
  BY <1>1, <1>2, <1>3, <1>4 DEF StructureFits

(* A prefix takes one octet or more. *)
LEMMA PrefixGrows ==
  ASSUME octets \in Seq(Octet), NEW p \in Nat, p < Len(octets)
  PROVE  PrefixSize(p) \in Nat /\ PrefixSize(p) >= 1
<1>1. p + 1 <= Len(octets)
  OBVIOUS
<1>2. ReadUint8(octets, p) \in 0..255
  BY <1>1, Read8
<1>3. ASSUME NEW o \in 0..255 PROVE 1 + (o + 7) \div 8 \in Nat /\ 1 + (o + 7) \div 8 >= 1
  OBVIOUS
<1> QED
  BY <1>2, <1>3 DEF PrefixSize

(* A route that is read lies in its region. *)
LEMMA RouteInside ==
  ASSUME octets \in Seq(Octet), NEW form \in {"ipv4", "ipv6", "l2vpn"}, NEW end \in Nat, end <= Len(octets), at \in Nat,
         More(form, at, end), RouteFits(form, at, end)
  PROVE  at + RouteSize(form, at) \in Nat /\ at < at + RouteSize(form, at)
         /\ at + RouteSize(form, at) <= end
<1>1. at < end /\ Len(octets) \in Nat
  BY DEF More
<1>2. CASE form = "l2vpn"
  <2>1. at + 1 \in Nat /\ (at + 1) + 1 <= Len(octets)
    BY <1>1, <1>2 DEF More
  <2>2. ReadUint8(octets, at + 1) \in 0..255
    BY <2>1, Read8
  <2>3. ASSUME NEW n \in 0..255 PROVE 2 + n \in Nat /\ 2 + n >= 1
    OBVIOUS
  <2>4. EvpnSize(at) \in Nat /\ EvpnSize(at) >= 1
    BY <2>2, <2>3 DEF EvpnSize
  <2>5. at + EvpnSize(at) <= end
    BY <1>2 DEF RouteFits, EvpnFits
  <2> QED
    BY <1>2, <2>4, <2>5 DEF RouteSize
<1>3. CASE form \in {"ipv4", "ipv6"}
  <2>1. PrefixSize(at) \in Nat /\ PrefixSize(at) >= 1
    BY <1>1, PrefixGrows
  <2>2. at + PrefixSize(at) <= end
    BY <1>3 DEF RouteFits, PrefixFits
  <2> QED
    BY <1>3, <2>1, <2>2 DEF RouteSize
<1> QED
  BY <1>2, <1>3

(* What the invariant says of an attribute still to be read. *)
LEMMA HeadWithin ==
  ASSUME BgpInv, attrs # <<>>
  PROVE  /\ Within(Head(attrs)) /\ Tail(attrs) \in Seq(Recorded)
         /\ \A i \in DOMAIN Tail(attrs) : Within(Tail(attrs)[i])
<1>1. attrs \in Seq(Recorded) /\ (\A i \in DOMAIN attrs : Within(attrs[i]))
  BY DEF BgpInv
<1>2. 1 \in DOMAIN attrs /\ Head(attrs) = attrs[1] /\ Tail(attrs) \in Seq(Recorded)
  BY <1>1
<1>3. ASSUME NEW i \in DOMAIN Tail(attrs) PROVE Within(Tail(attrs)[i])
  <2>1. i + 1 \in DOMAIN attrs /\ Tail(attrs)[i] = attrs[i + 1]
    BY <1>1
  <2> QED
    BY <1>1, <2>1
<1> QED
  BY <1>1, <1>2, <1>3

(* The octets of a message being read, and its regions. *)
LEMMA BgpText ==
  ASSUME BgpInv, phase \in Structured
  PROVE  octets \in Seq(Octet) /\ pdu.cuts \in Seq(Nat) /\ StructureFits /\ Len(octets) \in Nat
<1>1. phase # "idle"
  BY DEF Structured
<1> QED
  BY <1>1 DEF BgpInv

(* A message that is refused. *)
LEMMA BgpRefused ==
  ASSUME BgpInv, phase # "idle", Refuse
  PROVE  BgpInv'
<1>1. UNCHANGED <<pdu, at, attrs, heads, skipped>> /\ phase' = "refused"
  BY DEF Refuse
<1>2. octets' = octets /\ AttributesFrom' = AttributesFrom /\ AttributesEnd' = AttributesEnd
  BY <1>1, Unmoved
<1>3. \A i \in DOMAIN attrs : Within(attrs[i])'
  BY <1>1, <1>2 DEF BgpInv, Within
<1>4. NoPathSkipped(skipped)'
  BY <1>1, <1>2 DEF BgpInv, NoPathSkipped, PathLaid, SegmentsLaid
<1> QED
  BY <1>1, <1>2, <1>3, <1>4 DEF BgpInv, Structured, Located

(* A step to a phase other than "path", with the attributes that were left, all *)
(* or all but the first.                                                    *)
LEMMA Moved ==
  ASSUME BgpInv, UNCHANGED <<pdu, heads>>, phase \in Structured,
         phase' \in Structured \ {"path"}, at' \in Nat,
         attrs' = attrs \/ (attrs # <<>> /\ attrs' = Tail(attrs)),
         Located(phase', at', attrs'), NoPathSkipped(skipped')
  PROVE  BgpInv'
<1>1. /\ octets' = octets /\ UpdateEnd' = UpdateEnd /\ WithdrawnEnd' = WithdrawnEnd
      /\ AttributesFrom' = AttributesFrom /\ AttributesEnd' = AttributesEnd
      /\ StructureFits' = StructureFits
  BY Unmoved
<1>2. attrs' \in Seq(Recorded) /\ \A i \in DOMAIN attrs' : Within(attrs'[i])
  BY HeadWithin DEF BgpInv
<1>3. \A i \in DOMAIN attrs' : Within(attrs[i])'
  BY <1>1, <1>2 DEF Within
<1>4. Located(phase, at, attrs)'
  BY <1>1 DEF Located
<1>5. NoPathSkipped(skipped)'
  BY <1>1 DEF NoPathSkipped, PathLaid, SegmentsLaid
<1>6. phase \notin {"idle", "structure", "refused"} /\ phase' \notin {"idle", "structure", "refused", "path"}
  BY DEF Structured
<1>7. octets \in Seq(Octet) /\ pdu.cuts \in Seq(Nat) /\ StructureFits /\ heads \in Seq(Nat)
  BY <1>6 DEF BgpInv
<1> QED
  BY <1>1, <1>2, <1>3, <1>4, <1>5, <1>6, <1>7 DEF BgpInv

(* A malformed attribute, if it is no four-octet AS_PATH. *)
LEMMA BgpSkipped ==
  ASSUME BgpInv, attrs # <<>>, phase \in Structured, Skip,
         Head(attrs).type = AS_PATH => ~PathLaid(pdu, 4, Head(attrs))
  PROVE  BgpInv'
<1>1. /\ UNCHANGED <<pdu, at, heads>> /\ attrs' = Tail(attrs) /\ phase' = "values"
      /\ skipped' = skipped \cup {Head(attrs)}
  BY DEF Skip, Done
<1>2. NoPathSkipped(skipped')
  BY <1>1 DEF BgpInv, NoPathSkipped
<1>3. Located(phase', at', attrs')
  BY <1>1 DEF Located
<1>4. at' \in Nat /\ phase' \in Structured \ {"path"}
  BY <1>1 DEF BgpInv, Structured
<1> QED
  BY <1>1, <1>2, <1>3, <1>4, Moved

(* One route read. *)
LEMMA RouteRead ==
  ASSUME BgpInv, phase \in {"withdrawn", "routes", "nlri"},
         NEW form \in {"ipv4", "ipv6", "l2vpn"}, NEW end \in Nat, end <= Len(octets),
         ReadRoute(form, end),
         phase = "withdrawn" => end = WithdrawnEnd,
         phase = "routes" => end = Head(attrs).to,
         phase = "nlri" => end = UpdateEnd
  PROVE  BgpInv'
<1>1. /\ UNCHANGED <<pdu, phase, attrs, heads, skipped>> /\ at' = at + RouteSize(form, at)
      /\ More(form, at, end) /\ RouteFits(form, at, end)
  BY DEF ReadRoute
<1>2. octets \in Seq(Octet) /\ at \in Nat /\ StructureFits
  BY BgpText DEF BgpInv, Structured
<1>3. at' \in Nat /\ at <= at' /\ at' <= end
  BY <1>1, <1>2, RouteInside
<1>4. Located(phase, at, attrs)
  BY DEF BgpInv
<1>5. UpdateEnd \in Nat /\ WithdrawnEnd \in Nat /\ AttributesEnd \in Nat /\ WithdrawnFrom \in Nat
  BY <1>2, Regions
<1>6. CASE phase = "routes"
  <2>1. attrs # <<>> /\ Head(attrs).from <= at /\ Head(attrs).type \in {MP_REACH_NLRI, MP_UNREACH_NLRI}
    BY <1>4, <1>6 DEF Located
  <2>2. Head(attrs).from \in Nat /\ Head(attrs).to \in Nat
    BY <2>1, HeadWithin DEF Within
  <2>3. Head(attrs).from <= at' /\ at' <= Head(attrs).to
    BY <1>2, <1>3, <1>6, <2>1, <2>2
  <2>4. Located(phase', at', attrs')
    BY <1>1, <1>6, <2>1, <2>3 DEF Located
  <2>5. NoPathSkipped(skipped') /\ phase \in Structured /\ phase' \in Structured \ {"path"}
    BY <1>1, <1>6 DEF BgpInv, Structured
  <2> QED
    BY <1>1, <1>3, <2>4, <2>5, Moved
<1>7. phase # "routes" => Located(phase', at', attrs')
  BY <1>1, <1>3, <1>4, <1>2, <1>5 DEF Located
<1>8. phase # "routes" => NoPathSkipped(skipped') /\ phase \in Structured /\ phase' \in Structured \ {"path"}
  BY <1>1 DEF BgpInv, Structured
<1> QED
  BY <1>1, <1>3, <1>6, <1>7, <1>8, Moved

-----------------------------------------------------------------------------
(* The structure and the attributes. *)
LEMMA StartStep == ASSUME BgpInv, NEW p \in Pdus, Start(p) PROVE BgpInv'
<1>1. phase = "idle" /\ phase' = "structure" /\ pdu' = p /\ UNCHANGED <<at, attrs, heads, skipped>>
  BY DEF Start
<1>2. octets' \in Seq(Octet) /\ pdu'.cuts \in Seq(Nat)
  BY <1>1, PdusAssumption DEF octets
<1>3. attrs = <<>> /\ skipped = {} /\ at \in Nat /\ heads \in Seq(Nat)
  BY <1>1 DEF BgpInv
<1>4. attrs' = <<>> /\ attrs' \in Seq(Recorded) /\ DOMAIN attrs' = {}
  BY <1>1, <1>3
<1>5. NoPathSkipped(skipped)'
  BY <1>1, <1>3 DEF NoPathSkipped
<1>6. Located(phase, at, attrs)'
  BY <1>1 DEF Located
<1> QED
  BY <1>1, <1>2, <1>3, <1>4, <1>5, <1>6 DEF BgpInv, Structured

LEMMA StructureStep == BgpInv /\ ParseStructure => BgpInv'
<1> SUFFICES ASSUME BgpInv, ParseStructure PROVE BgpInv'
  OBVIOUS
<1>1. phase = "structure" /\ octets \in Seq(Octet) /\ pdu.cuts \in Seq(Nat) /\ attrs = <<>> /\ skipped = {}
  BY DEF BgpInv, ParseStructure
<1>2. CASE Refuse
  BY <1>1, <1>2, BgpRefused
<1>3. ASSUME StructureFits, phase' = "attributes", at' = AttributesFrom,
             UNCHANGED <<pdu, attrs, heads, skipped>>
      PROVE  BgpInv'
  <2>1. AttributesFrom \in Nat /\ AttributesEnd \in Nat /\ AttributesFrom <= AttributesEnd
    BY <1>1, <1>3, Regions
  <2>2. octets' = octets /\ AttributesFrom' = AttributesFrom /\ AttributesEnd' = AttributesEnd
        /\ StructureFits' = StructureFits
    BY <1>3, Unmoved
  <2>3. Located(phase, at, attrs)'
    BY <1>3, <2>1, <2>2 DEF Located
  <2>4. NoPathSkipped(skipped)'
    BY <1>1, <1>3 DEF NoPathSkipped
  <2>5. attrs' \in Seq(Recorded) /\ DOMAIN attrs' = {}
    BY <1>1, <1>3
  <2>6. heads \in Seq(Nat)
    BY DEF BgpInv
  <2> QED
    BY <1>1, <1>3, <2>1, <2>2, <2>3, <2>4, <2>5, <2>6 DEF BgpInv, Structured
<1> QED
  BY <1>2, <1>3 DEF ParseStructure, results

(* An attribute that fits is recorded with a value inside the attributes. *)
LEMMA AttributeInside ==
  ASSUME octets \in Seq(Octet), StructureFits, NEW p \in Nat, AttributesFrom <= p, AttributeFits(p)
  PROVE  Within(AttributeAt(p))
<1>1. AttributesFrom \in Nat /\ AttributesEnd \in Nat /\ AttributesEnd <= Len(octets) /\ Len(octets) \in Nat
  BY Regions
<1>2. p + 3 <= Len(octets)
  BY <1>1 DEF AttributeFits
<1>3. ReadUint8(octets, p + 1) \in Octet
  <2>1. p + 1 \in Nat /\ (p + 1) + 1 <= Len(octets)
    BY <1>1, <1>2
  <2> QED
    BY <2>1, Read8 DEF Octet
<1>4. ValueFrom(p) \in Nat /\ p <= ValueFrom(p)
  BY DEF ValueFrom
<1>5. ValueEnd(p) \in Nat /\ ValueFrom(p) <= ValueEnd(p)
  <2>1. CASE Extended(p)
    <3>1. p + 2 \in Nat /\ (p + 2) + 2 <= Len(octets)
      BY <1>1, <2>1 DEF AttributeFits, ValueFrom
    <3>2. ReadUint16(octets, p + 2) \in Nat
      BY <3>1, Read16
    <3>3. ValueEnd(p) = ValueFrom(p) + ReadUint16(octets, p + 2)
      BY <2>1 DEF ValueEnd
    <3> QED
      BY <1>4, <3>2, <3>3
  <2>2. CASE ~Extended(p)
    <3>1. p + 2 \in Nat /\ (p + 2) + 1 <= Len(octets)
      BY <1>1, <1>2
    <3>2. ReadUint8(octets, p + 2) \in 0..255
      BY <3>1, Read8
    <3>3. ASSUME NEW n \in 0..255 PROVE n \in Nat
      OBVIOUS
    <3>4. ReadUint8(octets, p + 2) \in Nat
      BY <3>2, <3>3
    <3>5. ValueEnd(p) = ValueFrom(p) + ReadUint8(octets, p + 2)
      BY <2>2 DEF ValueEnd
    <3> QED
      BY <1>4, <3>4, <3>5
  <2> QED
    BY <2>1, <2>2
<1>6. ValueEnd(p) <= AttributesEnd
  BY DEF AttributeFits
<1>7. AttributesFrom <= ValueFrom(p)
  BY <1>1, <1>4
<1> QED
  BY <1>3, <1>4, <1>5, <1>6, <1>7 DEF Within, AttributeAt

LEMMA FindStep == BgpInv /\ FindAttribute => BgpInv'
<1> SUFFICES ASSUME BgpInv, FindAttribute PROVE BgpInv'
  OBVIOUS
<1>1. phase = "attributes" /\ phase # "idle"
  BY DEF FindAttribute
<1>2. octets \in Seq(Octet) /\ StructureFits /\ pdu.cuts \in Seq(Nat)
  BY <1>1, BgpText DEF Structured
<1>3. at \in Nat /\ AttributesFrom <= at
  BY <1>1 DEF BgpInv, Located
<1>4. CASE Refuse
  BY <1>1, <1>4, BgpRefused
<1> DEFINE a == [type |-> ReadUint8(octets, at + 1), from |-> ValueFrom(at), to |-> ValueEnd(at)]
<1>5. ASSUME AttributeFits(at), attrs' = Append(attrs, a), at' = ValueEnd(at),
             UNCHANGED <<pdu, phase, heads, skipped>>
      PROVE  BgpInv'
  <2>1. Within(a) /\ a \in Recorded
    BY <1>2, <1>3, <1>5, AttributeInside DEF Within, Recorded, AttributeAt
  <2>2. at' \in Nat /\ AttributesFrom <= at' /\ at' <= AttributesEnd
    <3>1. a.to = ValueEnd(at) /\ a.from = ValueFrom(at)
      OBVIOUS
    <3>2. AttributesFrom \in Nat /\ ValueFrom(at) \in Nat
      BY <1>2, <1>3, Regions DEF ValueFrom
    <3> QED
      BY <1>5, <2>1, <3>1, <3>2 DEF Recorded, Within
  <2>3. octets' = octets /\ AttributesFrom' = AttributesFrom /\ AttributesEnd' = AttributesEnd
        /\ StructureFits' = StructureFits
    BY <1>5, Unmoved
  <2>4. attrs' \in Seq(Recorded) /\ \A i \in DOMAIN attrs' : Within(attrs'[i])
    <3>1. attrs \in Seq(Recorded) /\ \A i \in DOMAIN attrs : Within(attrs[i])
      BY DEF BgpInv
    <3> HIDE DEF a
    <3>2. \A i \in DOMAIN attrs' : attrs'[i] = a \/ (i \in DOMAIN attrs /\ attrs'[i] = attrs[i])
      BY <1>5, <3>1, <2>1
    <3>3. attrs' \in Seq(Recorded)
      BY <1>5, <3>1, <2>1
    <3> QED
      BY <2>1, <3>1, <3>2, <3>3
  <2>5. \A i \in DOMAIN attrs' : Within(attrs[i])'
    BY <2>3, <2>4 DEF Within
  <2>6. Located(phase, at, attrs)'
    BY <1>1, <1>5, <2>2, <2>3 DEF Located
  <2>7. NoPathSkipped(skipped)'
    BY <1>5, <2>3 DEF BgpInv, NoPathSkipped, PathLaid, SegmentsLaid
  <2>8. heads \in Seq(Nat)
    BY DEF BgpInv
  <2> HIDE DEF a
  <2> QED
    BY <1>1, <1>2, <1>5, <2>2, <2>3, <2>4, <2>5, <2>6, <2>7, <2>8 DEF BgpInv, Structured
<1> QED
  BY <1>4, <1>5 DEF FindAttribute, AttributeAt, results

LEMMA EndAttributesStep == BgpInv /\ EndAttributes => BgpInv'
<1> SUFFICES ASSUME BgpInv, EndAttributes PROVE BgpInv'
  OBVIOUS
<1>1. phase = "attributes" /\ phase' = "withdrawn" /\ at' = WithdrawnFrom /\ UNCHANGED <<pdu, attrs, heads, skipped>>
  BY DEF EndAttributes
<1>2. octets \in Seq(Octet) /\ StructureFits
  BY <1>1, BgpText DEF Structured
<1>3. WithdrawnFrom \in Nat /\ WithdrawnFrom <= WithdrawnEnd
  BY <1>2, Regions
<1>4. Located(phase', at', attrs')
  BY <1>1, <1>3 DEF Located
<1>5. NoPathSkipped(skipped') /\ phase \in Structured /\ phase' \in Structured \ {"path"}
  BY <1>1 DEF BgpInv, Structured
<1> QED
  BY <1>1, <1>3, <1>4, <1>5, Moved

-----------------------------------------------------------------------------
(* The routes. *)
LEMMA WithdrawnStep == BgpInv /\ (ParseWithdrawn \/ EndWithdrawn) => BgpInv'
<1> SUFFICES ASSUME BgpInv, ParseWithdrawn \/ EndWithdrawn PROVE BgpInv'
  OBVIOUS
<1>1. phase = "withdrawn" /\ phase # "idle"
  BY DEF ParseWithdrawn, EndWithdrawn
<1>2. octets \in Seq(Octet) /\ StructureFits /\ at \in Nat
  BY <1>1, BgpText DEF Structured, BgpInv
<1>3. WithdrawnEnd \in Nat /\ WithdrawnEnd <= Len(octets)
  BY <1>2, Regions
<1>4. CASE ParseWithdrawn
  BY <1>1, <1>3, <1>4, RouteRead, BgpRefused DEF ParseWithdrawn
<1>5. CASE EndWithdrawn
  <2>1. phase' = "values" /\ UNCHANGED <<pdu, at, attrs, heads, skipped>>
    BY <1>5 DEF EndWithdrawn
  <2>2. Located(phase', at', attrs')
    BY <2>1 DEF Located
  <2>3. NoPathSkipped(skipped') /\ phase \in Structured /\ phase' \in Structured \ {"path"}
    BY <1>1, <2>1 DEF BgpInv, Structured
  <2> QED
    BY <1>2, <2>1, <2>2, <2>3, Moved
<1> QED
  BY <1>4, <1>5

LEMMA DescribeStep == BgpInv /\ Describe => BgpInv'
<1> SUFFICES ASSUME BgpInv, Describe PROVE BgpInv'
  OBVIOUS
<1>1. phase = "values" /\ attrs # <<>> /\ phase \in Structured /\ Head(attrs).type # AS_PATH
  BY DEF Describe, OpensPart, Structured
<1>2. CASE Skip
  BY <1>1, <1>2, BgpSkipped
<1>3. ASSUME Done, UNCHANGED <<pdu, at, heads, skipped>> PROVE BgpInv'
  <2>1. phase' = "values" /\ attrs' = Tail(attrs)
    BY <1>3 DEF Done
  <2>2. Located(phase', at', attrs')
    BY <2>1 DEF Located
  <2>3. NoPathSkipped(skipped') /\ phase' \in Structured \ {"path"} /\ at' \in Nat
    BY <1>3, <2>1 DEF BgpInv, Structured
  <2> QED
    BY <1>1, <1>3, <2>1, <2>2, <2>3, Moved
<1> QED
  BY <1>2, <1>3 DEF Describe

(* The routes of an attribute that opens begin in it. *)
LEMMA RoutesInside ==
  ASSUME octets \in Seq(Octet), StructureFits, NEW a, Within(a), Opens(a)
  PROVE  RoutesFrom(a) \in Nat /\ a.from <= RoutesFrom(a) /\ RoutesFrom(a) <= a.to
<1>1. a.from \in Nat /\ a.to \in Nat /\ a.to <= Len(octets) /\ Len(octets) \in Nat
  BY Regions DEF Within
<1>2. CASE a.type = MP_REACH_NLRI
  <2>1. a.from + 3 \in Nat /\ (a.from + 3) + 1 <= Len(octets)
    BY <1>1, <1>2 DEF Opens, Size
  <2>2. HopSize(a) \in 0..255
    BY <2>1, Read8 DEF HopSize
  <2>3. ASSUME NEW n \in 0..255 PROVE n \in Nat
    OBVIOUS
  <2>4. HopSize(a) \in Nat
    BY <2>2, <2>3
  <2>5. RoutesFrom(a) = a.from + (4 + HopSize(a) + 1)
    BY <1>2 DEF RoutesFrom
  <2> QED
    BY <1>1, <2>4, <2>5 DEF Opens
<1>3. CASE a.type # MP_REACH_NLRI
  <2>1. RoutesFrom(a) = a.from + 3
    BY <1>3 DEF RoutesFrom
  <2> QED
    BY <1>1, <2>1 DEF Opens
<1> QED
  BY <1>2, <1>3

LEMMA OpenRoutesStep == BgpInv /\ OpenRoutes => BgpInv'
<1> SUFFICES ASSUME BgpInv, OpenRoutes PROVE BgpInv'
  OBVIOUS
<1>1. /\ phase = "values" /\ attrs # <<>> /\ phase \in Structured
      /\ Head(attrs).type \in {MP_REACH_NLRI, MP_UNREACH_NLRI} /\ Head(attrs).type # AS_PATH
  BY DEF OpenRoutes, Structured, MP_REACH_NLRI, MP_UNREACH_NLRI, AS_PATH
<1>2. CASE Skip
  BY <1>1, <1>2, BgpSkipped
<1>3. ASSUME Opens(Head(attrs)), phase' = "routes", at' = RoutesFrom(Head(attrs)),
             UNCHANGED <<pdu, attrs, heads, skipped>>
      PROVE  BgpInv'
  <2>1. octets \in Seq(Octet) /\ StructureFits /\ Within(Head(attrs))
    BY <1>1, BgpText, HeadWithin
  <2>2. at' \in Nat /\ Head(attrs).from <= at' /\ at' <= Head(attrs).to
    BY <1>3, <2>1, RoutesInside
  <2>3. Located(phase', at', attrs')
    BY <1>1, <1>3, <2>2 DEF Located
  <2>4. NoPathSkipped(skipped') /\ phase' \in Structured \ {"path"}
    BY <1>3 DEF BgpInv, Structured
  <2> QED
    BY <1>1, <1>3, <2>2, <2>3, <2>4, Moved
<1> QED
  BY <1>2, <1>3 DEF OpenRoutes, results

LEMMA RoutesStep == BgpInv /\ (ParseRoutes \/ EndRoutes) => BgpInv'
<1> SUFFICES ASSUME BgpInv, ParseRoutes \/ EndRoutes PROVE BgpInv'
  OBVIOUS
<1>1. phase = "routes" /\ phase \in Structured
  BY DEF ParseRoutes, EndRoutes, Structured
<1>2. attrs # <<>> /\ Head(attrs).type # AS_PATH
  BY <1>1 DEF BgpInv, Located, MP_REACH_NLRI, MP_UNREACH_NLRI, AS_PATH
<1>3. octets \in Seq(Octet) /\ StructureFits /\ Within(Head(attrs))
  BY <1>1, <1>2, BgpText, HeadWithin
<1>4. Head(attrs).to \in Nat /\ Head(attrs).to <= Len(octets)
  BY <1>3, Regions DEF Within
<1>5. CASE Skip
  BY <1>1, <1>2, <1>5, BgpSkipped
<1>6. ASSUME ReadRoute(Form(Head(attrs)), Head(attrs).to) PROVE BgpInv'
  <2>1. Form(Head(attrs)) \in {"ipv4", "ipv6", "l2vpn"}
    BY <1>6 DEF ReadRoute, More, Form, AfiName
  <2> QED
    BY <1>1, <1>4, <1>6, <2>1, RouteRead
<1>7. CASE EndRoutes
  <2>1. phase' = "values" /\ attrs' = Tail(attrs) /\ UNCHANGED <<pdu, at, heads, skipped>>
    BY <1>7 DEF EndRoutes, Done
  <2>2. Located(phase', at', attrs')
    BY <2>1 DEF Located
  <2>3. NoPathSkipped(skipped') /\ phase' \in Structured \ {"path"} /\ at' \in Nat
    BY <2>1 DEF BgpInv, Structured
  <2> QED
    BY <1>1, <1>2, <2>1, <2>2, <2>3, Moved
<1> QED
  BY <1>5, <1>6, <1>7 DEF ParseRoutes

LEMMA NlriStep == BgpInv /\ (OpenNlri \/ ParseNlri \/ EndNlri) => BgpInv'
<1> SUFFICES ASSUME BgpInv, OpenNlri \/ ParseNlri \/ EndNlri PROVE BgpInv'
  OBVIOUS
<1>1. phase \in {"values", "nlri"} /\ phase \in Structured /\ phase # "idle"
  BY DEF OpenNlri, ParseNlri, EndNlri, Structured
<1>2. octets \in Seq(Octet) /\ StructureFits /\ at \in Nat
  BY <1>1, BgpText DEF BgpInv
<1>3. UpdateEnd \in Nat /\ AttributesEnd \in Nat /\ AttributesEnd <= UpdateEnd /\ UpdateEnd <= Len(octets)
  BY <1>2, Regions
<1>4. ASSUME OpenNlri \/ EndNlri PROVE BgpInv'
  <2>1. /\ UNCHANGED <<pdu, attrs, heads, skipped>>
        /\ \/ phase' = "nlri" /\ at' = AttributesEnd
           \/ phase = "nlri" /\ phase' = "parsed" /\ at' = at
    BY <1>4 DEF OpenNlri, EndNlri
  <2>2. Located(phase', at', attrs')
    BY <1>3, <2>1 DEF BgpInv, Located
  <2>3. NoPathSkipped(skipped') /\ phase' \in Structured \ {"path"} /\ at' \in Nat
    BY <1>2, <1>3, <2>1 DEF BgpInv, Structured
  <2> QED
    BY <1>1, <2>1, <2>2, <2>3, Moved
<1>5. ASSUME ParseNlri PROVE BgpInv'
  <2>1. phase = "nlri"
    BY <1>5 DEF ParseNlri
  <2>2. CASE Refuse
    BY <1>1, <2>2, BgpRefused
  <2>3. CASE ReadRoute("ipv4", UpdateEnd)
    BY <1>3, <2>1, <2>3, RouteRead
  <2> QED
    BY <1>5, <2>2, <2>3 DEF ParseNlri
<1> QED
  BY <1>4, <1>5

-----------------------------------------------------------------------------
(* The AS_PATH.  An AS number is taken to have two octets or four. *)
LEMMA TwoOrFour ==
  ASSUME NEW n, NEW r
  PROVE  AsSize(n, r) \in {2, 4}
<1>1. CASE n = 0
  BY <1>1 DEF AsSize
<1>2. CASE n # 0
  BY <1>2 DEF AsSize
<1> QED
  BY <1>1, <1>2

(* Where as many octets remain as the numbers would take with four, four it is. *)
LEMMA FourOctets ==
  ASSUME NEW n \in Nat, NEW r \in Nat, 4 * n <= r
  PROVE  AsSize(n, r) = 4
<1>1. CASE n = 0
  BY <1>1 DEF AsSize
<1>2. CASE n # 0
  <2>1. r \div n # 2
    <3>1. n > 0
      BY <1>2
    <3>2. SUFFICES ASSUME r \div n = 2 PROVE FALSE
      OBVIOUS
    <3>3. r < n * 3
      BY <3>1, <3>2
    <3> QED
      BY <3>1, <3>3
  <2> QED
    BY <1>2, <2>1 DEF AsSize
<1> QED
  BY <1>1, <1>2

(* The length of a segment whose two octets are there. *)
LEMMA LengthRead ==
  ASSUME octets \in Seq(Octet), at \in Nat, at + 2 <= Len(octets)
  PROVE  SegmentLength \in Nat
<1>1. at + 1 \in Nat /\ (at + 1) + 1 <= Len(octets)
  OBVIOUS
<1>2. SegmentLength \in 0..255
  BY <1>1, Read8 DEF SegmentLength
<1>3. ASSUME NEW n \in 0..255 PROVE n \in Nat
  OBVIOUS
<1> QED
  BY <1>2, <1>3

(* The facts the steps of the loop share. *)
LEMMA InPath ==
  ASSUME BgpInv, phase = "path"
  PROVE  /\ octets \in Seq(Octet) /\ pdu.cuts \in Seq(Nat) /\ StructureFits /\ Len(octets) \in Nat
         /\ attrs # <<>> /\ Head(attrs).type = AS_PATH /\ Within(Head(attrs))
         /\ Head(attrs).from \in Nat /\ Head(attrs).to \in Nat
         /\ Head(attrs).from <= at /\ at <= Head(attrs).to /\ Head(attrs).to <= Len(octets)
         /\ at \in Nat /\ heads \in Seq(Nat)
<1>1. octets \in Seq(Octet) /\ pdu.cuts \in Seq(Nat) /\ StructureFits /\ Len(octets) \in Nat
  BY BgpText DEF Structured
<1>2. /\ attrs # <<>> /\ Head(attrs).type = AS_PATH /\ Head(attrs).from <= at /\ at <= Head(attrs).to
      /\ at \in Nat /\ heads \in Seq(Nat)
  BY DEF BgpInv, Located
<1>3. Within(Head(attrs))
  BY <1>2, HeadWithin
<1>4. Head(attrs).from \in Nat /\ Head(attrs).to \in Nat /\ Head(attrs).to <= Len(octets)
  BY <1>1, <1>3, Regions DEF Within
<1> QED
  BY <1>1, <1>2, <1>3, <1>4

(* Of four-octet numbers, a segment with others of the path after it is found to *)
(* be as long as it was written.                                            *)
LEMMA SegmentTaken ==
  ASSUME BgpInv, phase = "path", SegmentsLaid(pdu, 4, Head(attrs)), Follows(heads, at),
         Len(heads) # Len(pdu.cuts)
  PROVE  /\ SegmentFits /\ SegmentEnd \in Nat /\ SegmentAsSize = 4
         /\ Len(heads) + 1 <= Len(pdu.cuts) /\ SegmentEnd = pdu.cuts[Len(heads) + 1]
<1> DEFINE a == Head(attrs)
           n == Len(heads)
<1>1. /\ octets \in Seq(Octet) /\ pdu.cuts \in Seq(Nat) /\ Len(octets) \in Nat
      /\ a.to \in Nat /\ a.to <= Len(octets) /\ at \in Nat /\ heads \in Seq(Nat)
  BY InPath
<1>2. n \in Nat /\ n >= 1 /\ n <= Len(pdu.cuts) /\ Len(pdu.cuts) \in Nat /\ n \in DOMAIN heads
  BY <1>1 DEF Follows
<1>3. pdu.cuts[n] = at
  BY <1>2 DEF Follows
<1>4. n \in 1..(Len(pdu.cuts) - 1)
  BY <1>2
<1>5. /\ pdu.cuts[n] + 2 <= a.to /\ pdu.cuts[n + 1] <= a.to
      /\ pdu.cuts[n + 1] = pdu.cuts[n] + 2 + 4 * ReadUint8(pdu.octets, pdu.cuts[n] + 1)
  BY <1>4 DEF SegmentsLaid
<1>6. at + 2 <= a.to /\ pdu.cuts[n + 1] <= a.to /\ pdu.cuts[n + 1] = at + 2 + 4 * SegmentLength
  BY <1>3, <1>5 DEF SegmentLength, octets
<1>7. SegmentLength \in Nat
  <2>1. at + 2 <= Len(octets)
    BY <1>1, <1>6
  <2> QED
    BY <1>1, <2>1, LengthRead
<1>8. a.to - (at + 2) \in Nat /\ 4 * SegmentLength <= a.to - (at + 2)
  BY <1>1, <1>6, <1>7
<1>9. SegmentAsSize = 4
  BY <1>7, <1>8, FourOctets DEF SegmentAsSize
<1>10. SegmentEnd = pdu.cuts[n + 1]
  BY <1>6, <1>7, <1>9 DEF SegmentEnd
<1>11. n + 1 \in 1..Len(pdu.cuts) /\ n + 1 <= Len(pdu.cuts)
  BY <1>2, <1>4
<1>12. SegmentEnd \in Nat
  BY <1>1, <1>10, <1>11
<1>13. SegmentFits
  BY <1>6, <1>10 DEF SegmentFits
<1> QED
  BY <1>9, <1>10, <1>11, <1>12, <1>13

(* In a four-octet path, the segment the parser is at is found to be as long as *)
(* it was written.                                                          *)
LEMMA SegmentAligned ==
  ASSUME BgpInv, phase = "path", at < Head(attrs).to, PathLaid(pdu, 4, Head(attrs))
  PROVE  /\ SegmentFits /\ SegmentEnd \in Nat
         /\ Len(heads) + 1 <= Len(pdu.cuts) /\ SegmentEnd = pdu.cuts[Len(heads) + 1]
<1>1. Follows(heads, at) /\ SegmentsLaid(pdu, 4, Head(attrs))
  BY DEF BgpInv, PathLaid
<1>2. heads \in Seq(Nat) /\ at \in Nat /\ Head(attrs).to \in Nat
  BY InPath
<1>3. Len(heads) \in DOMAIN heads
  BY <1>1, <1>2 DEF Follows
<1>4. pdu.cuts[Len(heads)] = at
  BY <1>1, <1>3 DEF Follows
<1>5. Len(heads) # Len(pdu.cuts)
  BY <1>2, <1>4 DEF PathLaid
<1> QED
  BY <1>1, <1>5, SegmentTaken

(* A segment that fits ends in the attribute. *)
LEMMA SegmentInside ==
  ASSUME BgpInv, phase = "path", SegmentFits
  PROVE  SegmentEnd \in Nat /\ at < SegmentEnd /\ SegmentEnd <= Head(attrs).to
<1>1. at \in Nat /\ octets \in Seq(Octet) /\ Head(attrs).to <= Len(octets) /\ Len(octets) \in Nat
      /\ Head(attrs).to \in Nat
  BY InPath
<1>2. at + 2 <= Len(octets) /\ SegmentEnd <= Head(attrs).to
  BY <1>1 DEF SegmentFits
<1>3. SegmentLength \in Nat
  BY <1>1, <1>2, LengthRead
<1>4. SegmentAsSize \in {2, 4}
  BY TwoOrFour DEF SegmentAsSize
<1>5. SegmentLength * SegmentAsSize \in Nat
  BY <1>3, <1>4
<1>6. SegmentEnd = at + 2 + SegmentLength * SegmentAsSize
  BY DEF SegmentEnd
<1> DEFINE product == SegmentLength * SegmentAsSize
<1>7. product \in Nat /\ SegmentEnd = at + 2 + product
  BY <1>5, <1>6
<1> HIDE DEF product
<1> QED
  BY <1>1, <1>2, <1>7

(* The segments found, and the one just found. *)
LEMMA FollowsOn ==
  ASSUME heads \in Seq(Nat), pdu.cuts \in Seq(Nat), NEW p \in Nat, Follows(heads, at),
         Len(heads) + 1 <= Len(pdu.cuts), p = pdu.cuts[Len(heads) + 1]
  PROVE  Follows(Append(heads, p), p)
<1> DEFINE hs == Append(heads, p)
<1>1. hs # <<>> /\ Len(hs) = Len(heads) + 1 /\ Len(heads) \in Nat /\ hs[Len(heads) + 1] = p
  OBVIOUS
<1>2. \A i \in DOMAIN hs : i = Len(heads) + 1 \/ (i \in DOMAIN heads /\ hs[i] = heads[i])
  OBVIOUS
<1> HIDE DEF hs
<1>3. hs[Len(hs)] = p /\ Len(hs) <= Len(pdu.cuts)
  BY <1>1
<1>4. \A i \in DOMAIN hs : hs[i] = pdu.cuts[i]
  BY <1>1, <1>2 DEF Follows
<1> QED
  BY <1>1, <1>3, <1>4 DEF Follows, hs

(* A step to a segment of the path. *)
LEMMA PathMoved ==
  ASSUME BgpInv, UNCHANGED <<pdu, attrs, skipped>>, phase \in Structured, phase' = "path",
         at' \in Nat, heads' \in Seq(Nat), Located(phase', at', attrs'),
         PathLaid(pdu, 4, Head(attrs)) => Follows(heads', at')
  PROVE  BgpInv'
<1>1. /\ octets' = octets /\ UpdateEnd' = UpdateEnd /\ WithdrawnEnd' = WithdrawnEnd
      /\ AttributesFrom' = AttributesFrom /\ AttributesEnd' = AttributesEnd
      /\ StructureFits' = StructureFits
  BY Unmoved
<1>2. octets \in Seq(Octet) /\ pdu.cuts \in Seq(Nat) /\ StructureFits
  BY BgpText
<1>3. attrs \in Seq(Recorded) /\ \A i \in DOMAIN attrs : Within(attrs[i])'
  BY <1>1 DEF BgpInv, Within
<1>4. Located(phase, at, attrs)'
  BY <1>1 DEF Located
<1>5. NoPathSkipped(skipped)'
  BY <1>1 DEF BgpInv, NoPathSkipped, PathLaid, SegmentsLaid
<1>6. PathLaid(pdu, 4, Head(attrs))' => Follows(heads, at)'
  BY <1>1 DEF PathLaid, SegmentsLaid, Follows
<1> QED
  BY <1>1, <1>2, <1>3, <1>4, <1>5, <1>6 DEF BgpInv, Structured

LEMMA OpenPathStep == BgpInv /\ OpenPath => BgpInv'
<1> SUFFICES ASSUME BgpInv, OpenPath PROVE BgpInv'
  OBVIOUS
<1> DEFINE a == Head(attrs)
<1>1. /\ phase = "values" /\ phase \in Structured /\ attrs # <<>> /\ a.type = AS_PATH
      /\ phase' = "path" /\ at' = a.from /\ heads' = <<at'>> /\ UNCHANGED <<pdu, attrs, skipped>>
  BY DEF OpenPath, Structured
<1>2. octets \in Seq(Octet) /\ pdu.cuts \in Seq(Nat) /\ StructureFits /\ Within(a)
  BY <1>1, BgpText, HeadWithin
<1>3. at' \in Nat /\ at' <= a.to /\ heads' \in Seq(Nat)
  BY <1>1, <1>2 DEF Within
<1>4. Located(phase', at', attrs')
  BY <1>1, <1>2, <1>3 DEF Located
<1>5. ASSUME PathLaid(pdu, 4, a) PROVE Follows(heads', at')
  <2>1. pdu.cuts # <<>> /\ pdu.cuts[1] = a.from
    BY <1>5 DEF PathLaid, SegmentsLaid
  <2>2. Len(heads') = 1 /\ heads'[1] = at' /\ DOMAIN heads' = {1} /\ heads' # <<>>
    BY <1>1
  <2>3. 1 <= Len(pdu.cuts)
    BY <1>2, <2>1
  <2> QED
    BY <1>1, <2>1, <2>2, <2>3 DEF Follows
<1> QED
  BY <1>1, <1>3, <1>4, <1>5, PathMoved

LEMMA SegmentStep == BgpInv /\ ParseSegment => BgpInv'
<1> SUFFICES ASSUME BgpInv, ParseSegment PROVE BgpInv'
  OBVIOUS
<1> DEFINE a == Head(attrs)
<1>1. phase = "path" /\ at < a.to /\ phase \in Structured
  BY DEF ParseSegment, Structured
<1>2. /\ attrs # <<>> /\ a.type = AS_PATH /\ heads \in Seq(Nat) /\ pdu.cuts \in Seq(Nat)
      /\ a.from <= at /\ a.from \in Nat /\ at \in Nat
  BY <1>1, InPath
<1>3. ASSUME ~SegmentFits, Skip PROVE BgpInv'
  <2>1. ~PathLaid(pdu, 4, a)
    BY <1>1, <1>3, SegmentAligned
  <2> QED
    BY <1>1, <1>2, <1>3, <2>1, BgpSkipped
<1>4. ASSUME SegmentFits, at' = SegmentEnd, heads' = Append(heads, at'),
             UNCHANGED <<pdu, phase, attrs, skipped>>
      PROVE  BgpInv'
  <2>1. at' \in Nat /\ at <= at' /\ at' <= a.to
    <3>1. at' \in Nat /\ at < at' /\ at' <= a.to
      BY <1>1, <1>4, SegmentInside
    <3> QED
      BY <1>2, <3>1
  <2>2. heads' \in Seq(Nat)
    BY <1>2, <1>4, <2>1
  <2>3. a.from <= at'
    BY <1>2, <2>1
  <2>4. Located(phase', at', attrs')
    BY <1>1, <1>2, <1>4, <2>1, <2>3 DEF Located
  <2>5. ASSUME PathLaid(pdu, 4, a) PROVE Follows(heads', at')
    <3>1. Follows(heads, at)
      BY <1>1, <2>5 DEF BgpInv
    <3>2. Len(heads) + 1 <= Len(pdu.cuts) /\ at' = pdu.cuts[Len(heads) + 1]
      BY <1>1, <1>4, <2>5, SegmentAligned
    <3> QED
      BY <1>2, <1>4, <2>1, <3>1, <3>2, FollowsOn
  <2> QED
    BY <1>1, <1>4, <2>1, <2>2, <2>4, <2>5, PathMoved
<1> QED
  BY <1>3, <1>4 DEF ParseSegment, results

LEMMA EndPathStep == BgpInv /\ EndPath => BgpInv'
<1> SUFFICES ASSUME BgpInv, EndPath PROVE BgpInv'
  OBVIOUS
<1>1. phase = "path" /\ phase' = "values" /\ attrs' = Tail(attrs) /\ UNCHANGED <<pdu, at, heads, skipped>>
  BY DEF EndPath, Done
<1>2. attrs # <<>> /\ at' \in Nat
  BY <1>1, InPath
<1>3. Located(phase', at', attrs')
  BY <1>1 DEF Located
<1>4. NoPathSkipped(skipped') /\ phase \in Structured /\ phase' \in Structured \ {"path"}
  BY <1>1 DEF BgpInv, Structured
<1> QED
  BY <1>1, <1>2, <1>3, <1>4, Moved

-----------------------------------------------------------------------------
(* The invariant holds at first. *)
LEMMA BgpStart == InitBgp => BgpInv
<1> SUFFICES ASSUME InitBgp PROVE BgpInv
  OBVIOUS
<1>1. pdu = None /\ phase = "idle" /\ at = 0 /\ attrs = <<>> /\ heads = <<>> /\ skipped = {}
  BY DEF InitBgp
<1>2. attrs \in Seq(Recorded) /\ DOMAIN attrs = {} /\ heads \in Seq(Nat)
  BY <1>1
<1>3. Located(phase, at, attrs) /\ NoPathSkipped(skipped)
  BY <1>1 DEF Located, NoPathSkipped
<1> QED
  BY <1>1, <1>2, <1>3 DEF BgpInv, Structured

LEMMA BgpStutter == BgpInv /\ UNCHANGED bgpVars => BgpInv'
<1> SUFFICES ASSUME BgpInv, UNCHANGED bgpVars PROVE BgpInv'
  OBVIOUS
<1>1. UNCHANGED <<pdu, phase, at, attrs, heads, skipped>>
  BY DEF bgpVars
<1>2. /\ octets' = octets /\ UpdateEnd' = UpdateEnd /\ WithdrawnEnd' = WithdrawnEnd
      /\ AttributesFrom' = AttributesFrom /\ AttributesEnd' = AttributesEnd
      /\ StructureFits' = StructureFits
  BY <1>1, Unmoved
<1>3. \A i \in DOMAIN attrs : Within(attrs[i])'
  BY <1>1, <1>2 DEF BgpInv, Within
<1>4. Located(phase, at, attrs)'
  BY <1>1, <1>2 DEF BgpInv, Located
<1>5. NoPathSkipped(skipped)'
  BY <1>1, <1>2 DEF BgpInv, NoPathSkipped, PathLaid, SegmentsLaid
<1>6. PathLaid(pdu, 4, Head(attrs))' = PathLaid(pdu, 4, Head(attrs)) /\ Follows(heads, at)' = Follows(heads, at)
  BY <1>1 DEF PathLaid, SegmentsLaid, Follows
<1> QED
  BY <1>1, <1>2, <1>3, <1>4, <1>5, <1>6 DEF BgpInv

(* The inductive invariant: the parser is inside the part it is reading, and in *)
(* a four-octet AS_PATH at a segment.                                       *)
THEOREM BgpInvariant == SpecBgp => []BgpInv
<1>1. BgpInv /\ [(\E p \in Pdus : Start(p)) \/ NextBgp]_bgpVars => BgpInv'
  BY StartStep, StructureStep, FindStep, EndAttributesStep, WithdrawnStep, DescribeStep, OpenPathStep,
     SegmentStep, EndPathStep, OpenRoutesStep, RoutesStep, NlriStep, BgpStutter DEF NextBgp
<1> QED
  BY <1>1, BgpStart, PTL DEF SpecBgp

(* For any UPDATE: no attribute's value, no segment and no route is looked for   *)
(* outside of the part it belongs to.                                       *)
THEOREM BgpTypeCorrect == SpecBgp => []BgpTypeOK
<1>1. BgpInv => BgpTypeOK
  <2> SUFFICES ASSUME BgpInv PROVE BgpTypeOK
    OBVIOUS
  <2>1. phase \notin {"idle", "structure", "refused"} =>
          AttributesEnd <= UpdateEnd /\ UpdateEnd <= Len(octets)
    <3> SUFFICES ASSUME phase \notin {"idle", "structure", "refused"}
                 PROVE  AttributesEnd <= UpdateEnd /\ UpdateEnd <= Len(octets)
      OBVIOUS
    <3>1. phase \in Structured
      BY DEF BgpInv
    <3> QED
      BY <3>1, BgpText, Regions
  <2> QED
    BY <2>1 DEF BgpInv, BgpTypeOK, Located, Structured
<1> QED
  BY <1>1, BgpInvariant, PTL

(* For any AS_PATH of four-octet numbers, of however many segments: the parser   *)
(* takes each segment where it was written, and skips no such path.         *)
THEOREM FourOctetPaths == SpecBgp => []FourOctetPathsAligned
<1>1. BgpInv => FourOctetPathsAligned
  BY DEF BgpInv, FourOctetPathsAligned, Follows, NoPathSkipped
<1> QED
  BY <1>1, BgpInvariant, PTL

-----------------------------------------------------------------------------
(* The two parsers one after the other: each does what it does alone, so what  *)
(* is proved of each holds of a message on its way through both.            *)

(* The message handler is each of the parsers, with the other's steps between. *)
THEOREM EachParserAlone == SpecMessage => SpecBmp /\ SpecBgp
<1>1. InitMessage => InitBmp /\ InitBgp
  BY DEF InitMessage
<1>2. [NextMessage]_parserVars => [NextBmp]_bmpVars
  BY DEF NextMessage, ParseBmp, HandOver, ParseBgp, parserVars
<1>3. [NextMessage]_parserVars => [(\E p \in Pdus : Start(p)) \/ NextBgp]_bgpVars
  BY DEF NextMessage, ParseBmp, HandOver, ParseBgp, parserVars
<1> QED
  BY <1>1, <1>2, <1>3, PTL DEF SpecMessage, SpecBmp, SpecBgp

(* For any messages and any UPDATEs: neither parser leaves the part it reads,    *)
(* BMP messages are accepted if and only if they have the format, and the     *)
(* segments of four-octet AS_PATHs are found.                               *)
THEOREM MessagesParsed ==
  SpecMessage => /\ [](BmpTypeOK /\ AcceptedIsLaid /\ LaidIsAccepted)
                 /\ [](BgpTypeOK /\ FourOctetPathsAligned)
<1> QED
  BY EachParserAlone, BmpTypeCorrect, OnlyLaidAccepted, LaidNeverRefused, BgpTypeCorrect,
     FourOctetPaths, PTL

-----------------------------------------------------------------------------
(* The work.  The attributes found lie one after the other, and before the       *)
(* parser that is finding them: that of each begins behind the last one.      *)
Apart ==
  /\ \A i \in 1..(Len(attrs) - 1) : attrs[i].to + 3 <= attrs[i + 1].from
  /\ phase = "attributes" /\ attrs # <<>> => attrs[Len(attrs)].to <= at

(* The turns left with the attributes of the list still to be read. *)
ValuesTurns(list) ==
  IF list = <<>> THEN UpdateEnd - AttributesEnd + 2 ELSE UpdateEnd - Head(list).from + 5

(* It is kept where no attribute is found. *)
LEMMA ApartKept ==
  ASSUME BgpInv, Apart, phase' # "attributes",
         attrs' = attrs \/ (attrs # <<>> /\ attrs' = Tail(attrs))
  PROVE  Apart'
<1>1. attrs \in Seq(Recorded)
  BY DEF BgpInv
<1>2. CASE attrs' = attrs
  BY <1>2 DEF Apart
<1>3. CASE attrs # <<>> /\ attrs' = Tail(attrs)
  <2>1. Len(attrs') = Len(attrs) - 1 /\ Len(attrs) \in Nat
    BY <1>1, <1>3
  <2>2. \A i \in 1..Len(attrs') : attrs'[i] = attrs[i + 1]
    BY <1>1, <1>3
  <2>3. ASSUME NEW i \in 1..(Len(attrs') - 1) PROVE attrs'[i].to + 3 <= attrs'[i + 1].from
    <3>1. i \in 1..Len(attrs') /\ i + 1 \in 1..Len(attrs') /\ i + 1 \in 1..(Len(attrs) - 1)
      BY <2>1
    <3>2. attrs[i + 1].to + 3 <= attrs[(i + 1) + 1].from
      BY <3>1 DEF Apart
    <3> QED
      BY <2>2, <3>1, <3>2
  <2> QED
    BY <2>3 DEF Apart
<1> QED
  BY <1>2, <1>3

(* It is kept by an attribute found where the parser is. *)
LEMMA ApartFound ==
  ASSUME BgpInv, Apart, phase = "attributes", NEW a \in Recorded, at + 3 <= a.from, a.to <= at',
         attrs' = Append(attrs, a)
  PROVE  Apart'
<1>1. attrs \in Seq(Recorded) /\ at \in Nat /\ a.from \in Nat
  BY DEF BgpInv, Recorded
<1>2. Len(attrs) \in Nat /\ Len(attrs') = Len(attrs) + 1 /\ attrs' # <<>>
  BY <1>1
<1>3. \A i \in 1..Len(attrs) : attrs'[i] = attrs[i]
  BY <1>1
<1>4. attrs'[Len(attrs) + 1] = a
  BY <1>1
<1>5. ASSUME NEW i \in 1..Len(attrs) PROVE attrs'[i].to + 3 <= attrs'[i + 1].from
  <2>1. CASE i = Len(attrs)
    <3>1. attrs # <<>> /\ attrs[i] \in Recorded
      BY <1>1, <2>1
    <3>2. attrs[i].to <= at /\ attrs[i].to \in Nat
      BY <2>1, <3>1 DEF Apart, Recorded
    <3>3. attrs[i].to + 3 <= a.from
      BY <1>1, <3>2
    <3> QED
      BY <1>3, <1>4, <2>1, <3>3
  <2>2. CASE i # Len(attrs)
    <3>1. i \in 1..(Len(attrs) - 1) /\ i + 1 \in 1..Len(attrs)
      BY <1>2, <2>2
    <3>2. attrs[i].to + 3 <= attrs[i + 1].from
      BY <3>1 DEF Apart
    <3> QED
      BY <1>3, <3>1, <3>2
  <2> QED
    BY <2>1, <2>2
<1>6. Len(attrs') - 1 = Len(attrs) /\ attrs'[Len(attrs')] = a
  BY <1>2, <1>4
<1> QED
  BY <1>5, <1>6 DEF Apart

(* The regions and the attributes of a message being read, in one place. *)
LEMMA TextOrder ==
  ASSUME BgpInv, phase \in Structured
  PROVE  /\ at \in Nat /\ UpdateEnd \in Nat /\ AttributesEnd \in Nat /\ AttributesFrom \in Nat
         /\ WithdrawnEnd \in Nat /\ WithdrawnEnd + 2 = AttributesFrom /\ Len(octets) \in Nat
         /\ AttributesFrom <= AttributesEnd /\ AttributesEnd <= UpdateEnd /\ UpdateEnd <= Len(octets)
         /\ 21 <= WithdrawnEnd
<1>1. octets \in Seq(Octet) /\ StructureFits
  BY BgpText
<1>2. WithdrawnFrom = 21 /\ WithdrawnEnd + 2 = AttributesFrom
  BY DEF WithdrawnFrom, BgpHeaderSize, AttributesFrom
<1> QED
  BY <1>1, <1>2, Regions DEF BgpInv

(* What is left with a list of attributes that are where they should be. *)
LEMMA ValuesLeft ==
  ASSUME BgpInv, phase \in Structured, attrs # <<>>
  PROVE  /\ Head(attrs).from \in Nat /\ Head(attrs).to \in Nat
         /\ Head(attrs).from <= Head(attrs).to /\ Head(attrs).to <= AttributesEnd
         /\ AttributesFrom <= Head(attrs).from
         /\ ValuesTurns(attrs) \in Nat /\ ValuesTurns(attrs) = UpdateEnd - Head(attrs).from + 5
<1> DEFINE a == Head(attrs)
<1>1. a.from \in Nat /\ a.to \in Nat /\ a.from <= a.to /\ a.to <= AttributesEnd /\ AttributesFrom <= a.from
  BY HeadWithin DEF Within
<1>2. ValuesTurns(attrs) = UpdateEnd - a.from + 5
  BY DEF ValuesTurns
<1> HIDE DEF a
<1>3. UpdateEnd \in Nat /\ AttributesEnd \in Nat /\ AttributesEnd <= UpdateEnd
  BY TextOrder
<1>4. \A f, t, e, u \in Nat : f <= t /\ t <= e /\ e <= u => u - f + 5 \in Nat
  OBVIOUS
<1>5. UpdateEnd - a.from + 5 \in Nat
  BY <1>1, <1>3, <1>4, Zenon
<1> QED
  BY <1>1, <1>2, <1>5 DEF a

(* The attribute after the first begins behind it. *)
LEMMA TailTurns ==
  ASSUME BgpInv, Apart, phase \in Structured, attrs # <<>>
  PROVE  ValuesTurns(Tail(attrs)) \in Nat /\ ValuesTurns(Tail(attrs)) + Head(attrs).to <= UpdateEnd + 2
<1> DEFINE a == Head(attrs)
           b == Head(Tail(attrs))
<1>1. a.to \in Nat /\ a.to <= AttributesEnd
  BY ValuesLeft
<1>2. UpdateEnd \in Nat /\ AttributesEnd \in Nat /\ AttributesEnd <= UpdateEnd
  BY TextOrder
<1>3. CASE Tail(attrs) = <<>>
  <2>1. ValuesTurns(Tail(attrs)) = UpdateEnd - AttributesEnd + 2
    BY <1>3 DEF ValuesTurns
  <2> HIDE DEF a
  <2>2. UpdateEnd - AttributesEnd + 2 \in Nat /\ UpdateEnd - AttributesEnd + 2 + a.to <= UpdateEnd + 2
    BY <1>1, <1>2
  <2> QED
    BY <2>1, <2>2 DEF a
<1>4. CASE Tail(attrs) # <<>>
  <2>1. attrs \in Seq(Recorded) /\ Tail(attrs) \in Seq(Recorded) /\ Within(a)
    BY HeadWithin DEF BgpInv
  <2>2. 1 \in DOMAIN Tail(attrs) /\ b = Tail(attrs)[1] /\ a = attrs[1] /\ b = attrs[2] /\ 1 \in 1..(Len(attrs) - 1)
    BY <1>4, <2>1
  <2>3. Within(b)
    BY <2>2, HeadWithin
  <2>4. b.from \in Nat /\ b.from <= b.to /\ b.to \in Nat /\ b.to <= AttributesEnd
    BY <2>3 DEF Within
  <2>5. attrs[1].to + 3 <= attrs[1 + 1].from
    BY <2>2 DEF Apart
  <2>6. a.to + 3 <= b.from
    BY <2>2, <2>5
  <2>7. ValuesTurns(Tail(attrs)) = UpdateEnd - b.from + 5
    BY <1>4 DEF ValuesTurns
  <2> HIDE DEF a, b
  <2>8. \A p, f, t, e, u \in Nat :
          p + 3 <= f /\ f <= t /\ t <= e /\ e <= u => u - f + 5 \in Nat /\ u - f + 5 + p <= u + 2
    OBVIOUS
  <2>9. UpdateEnd - b.from + 5 \in Nat /\ UpdateEnd - b.from + 5 + a.to <= UpdateEnd + 2
    BY <1>1, <1>2, <2>4, <2>6, <2>8, Zenon
  <2> QED
    BY <2>7, <2>9 DEF a
<1> QED
  BY <1>3, <1>4

(* While the parser has not ended it has a turn left. *)
LEMMA SomeLeft ==
  BgpInv /\ phase \notin {"idle", "parsed", "refused"} => BgpTurnsLeft \in Nat /\ BgpTurnsLeft >= 1
<1> SUFFICES ASSUME BgpInv, phase \notin {"idle", "parsed", "refused"}
             PROVE  BgpTurnsLeft \in Nat /\ BgpTurnsLeft >= 1
  OBVIOUS
<1>1. CASE phase = "structure"
  <2>1. Len(octets) \in Nat
    BY <1>1 DEF BgpInv
  <2> QED
    BY <1>1, <2>1 DEF BgpTurnsLeft
<1>2. CASE phase \in Structured
  <2>1. /\ at \in Nat /\ UpdateEnd \in Nat /\ AttributesEnd \in Nat /\ WithdrawnEnd \in Nat
        /\ WithdrawnEnd + 2 <= AttributesEnd /\ AttributesEnd <= UpdateEnd /\ 21 <= WithdrawnEnd
    BY <1>2, TextOrder
  <2>2. \A p, w, e, u \in Nat :
          w + 2 <= e /\ e <= u /\ 21 <= w =>
            /\ p <= e => u + e - p \in Nat /\ u + e - p >= 1
            /\ p <= w => u - p + 4 \in Nat /\ u - p + 4 >= 1
            /\ p <= e => u - p + 5 \in Nat /\ u - p + 5 >= 1
            /\ p <= e => u - p + 3 \in Nat /\ u - p + 3 >= 1
            /\ p <= u => u - p + 1 \in Nat /\ u - p + 1 >= 1
            /\ u - e + 2 \in Nat /\ u - e + 2 >= 1
    OBVIOUS
  <2>3. CASE phase = "attributes"
    <3>1. at <= AttributesEnd /\ BgpTurnsLeft = UpdateEnd + AttributesEnd - at
      BY <2>3 DEF BgpInv, Located, BgpTurnsLeft
    <3> QED
      BY <2>1, <2>2, <3>1, Zenon
  <2>4. CASE phase = "withdrawn"
    <3>1. at <= WithdrawnEnd /\ BgpTurnsLeft = UpdateEnd - at + 4
      BY <2>4 DEF BgpInv, Located, BgpTurnsLeft
    <3> QED
      BY <2>1, <2>2, <3>1, Zenon
  <2>5. CASE phase = "values" /\ attrs = <<>>
    <3>1. BgpTurnsLeft = UpdateEnd - AttributesEnd + 2
      BY <2>5 DEF BgpTurnsLeft
    <3> QED
      BY <2>1, <2>2, <3>1, Zenon
  <2>6. CASE phase \in {"values", "path", "routes"} /\ attrs # <<>>
    <3> DEFINE a == Head(attrs)
    <3>1. a.from \in Nat /\ a.to \in Nat /\ a.from <= a.to /\ a.to <= AttributesEnd
      BY <1>2, <2>6, ValuesLeft
    <3>2. \/ BgpTurnsLeft = UpdateEnd - a.from + 5
          \/ BgpTurnsLeft = UpdateEnd - at + 3 /\ at <= a.to
      BY <2>6 DEF BgpTurnsLeft, BgpInv, Located
    <3> HIDE DEF a
    <3>3. \A f, t, e, u \in Nat :
            f <= t /\ t <= e /\ e <= u =>
              u - f + 5 \in Nat /\ u - f + 5 >= 1 /\ u - f + 3 \in Nat /\ u - f + 3 >= 1
      OBVIOUS
    <3>4. UpdateEnd - a.from + 5 \in Nat /\ UpdateEnd - a.from + 5 >= 1
      BY <2>1, <3>1, <3>3, Zenon
    <3>5. at <= a.to => UpdateEnd - at + 3 \in Nat /\ UpdateEnd - at + 3 >= 1
      BY <2>1, <3>1, <3>3, Zenon
    <3> QED
      BY <3>2, <3>4, <3>5
  <2>7. CASE phase = "nlri"
    <3>1. at <= UpdateEnd /\ BgpTurnsLeft = UpdateEnd - at + 1
      BY <2>7 DEF BgpInv, Located, BgpTurnsLeft
    <3> QED
      BY <2>1, <2>2, <3>1, Zenon
  <2>8. phase \in {"path", "routes"} => attrs # <<>>
    BY DEF BgpInv, Located
  <2> QED
    BY <1>2, <2>3, <2>4, <2>5, <2>6, <2>7, <2>8 DEF Structured
<1> QED
  BY <1>1, <1>2 DEF BgpInv

(* A parser that ends, as it does at the latest when an octet is missing. *)
LEMMA EndTurns ==
  ASSUME BgpInv, phase \notin {"idle", "parsed", "refused"}, phase' \in {"parsed", "refused"}
  PROVE  BgpTurnsLeft' \in 0..(BgpTurnsLeft - 1)
<1>1. BgpTurnsLeft' = 0
  BY DEF BgpTurnsLeft
<1> QED
  BY <1>1, SomeLeft

(* A turn of a loop, which takes an octet or more. *)
LEMMA LoopTurns ==
  ASSUME BgpInv, BgpInv', UNCHANGED <<pdu, phase>>, phase \in {"attributes", "withdrawn", "path", "routes", "nlri"},
         at < at'
  PROVE  BgpTurnsLeft' \in 0..(BgpTurnsLeft - 1)
<1>1. phase \in Structured /\ phase \notin {"idle", "parsed", "refused"} /\ phase' \notin {"idle", "parsed", "refused"}
  BY DEF Structured
<1>2. UpdateEnd' = UpdateEnd /\ AttributesEnd' = AttributesEnd
  BY Unmoved
<1>3. at \in Nat /\ at' \in Nat /\ UpdateEnd \in Nat /\ AttributesEnd \in Nat
  BY <1>1, TextOrder DEF BgpInv
<1>4. BgpTurnsLeft \in Nat
  BY <1>1, SomeLeft
<1>5. BgpTurnsLeft' \in Nat
  <2>1. (BgpInv /\ phase \notin {"idle", "parsed", "refused"} => BgpTurnsLeft \in Nat /\ BgpTurnsLeft >= 1)'
    BY SomeLeft, PTL
  <2> QED
    BY <1>1, <2>1
<1>6. BgpTurnsLeft' - BgpTurnsLeft = at - at'
  <2>1. CASE phase = "attributes"
    BY <1>2, <1>3, <2>1 DEF BgpTurnsLeft
  <2>2. CASE phase = "withdrawn"
    BY <1>2, <1>3, <2>2 DEF BgpTurnsLeft
  <2>3. CASE phase \in {"path", "routes"}
    BY <1>2, <1>3, <2>3 DEF BgpTurnsLeft
  <2>4. CASE phase = "nlri"
    BY <1>2, <1>3, <2>4 DEF BgpTurnsLeft
  <2> QED
    BY <2>1, <2>2, <2>3, <2>4
<1> QED
  BY <1>3, <1>4, <1>5, <1>6

(* An attribute read to its end, or skipped. *)
LEMMA DoneTurns ==
  ASSUME BgpInv, Apart, phase \in {"values", "path", "routes"}, attrs # <<>>, UNCHANGED pdu, Done
  PROVE  BgpTurnsLeft' \in 0..(BgpTurnsLeft - 1)
<1> DEFINE a == Head(attrs)
           left == ValuesTurns(Tail(attrs))
<1>1. phase \in Structured
  BY DEF Structured
<1>2. at \in Nat /\ UpdateEnd \in Nat /\ AttributesEnd <= UpdateEnd /\ AttributesEnd \in Nat
  BY <1>1, TextOrder
<1>3. a.from \in Nat /\ a.to \in Nat /\ a.from <= a.to /\ a.to <= AttributesEnd
  BY <1>1, ValuesLeft
<1>4. left \in Nat /\ left + a.to <= UpdateEnd + 2
  BY <1>1, TailTurns
<1>5. BgpTurnsLeft' = left
  BY Unmoved DEF BgpTurnsLeft, ValuesTurns, Done
<1>6. \/ BgpTurnsLeft = UpdateEnd - a.from + 5
      \/ BgpTurnsLeft = UpdateEnd - at + 3 /\ at <= a.to
  BY DEF BgpTurnsLeft, BgpInv, Located
<1> HIDE DEF a, left
<1>7. \A n, p, f, t, u \in Nat :
        f <= t /\ n + t <= u + 2 =>
          /\ n \in 0..((u - f + 5) - 1)
          /\ p <= t => n \in 0..((u - p + 3) - 1)
  OBVIOUS
<1>8. left \in 0..(BgpTurnsLeft - 1)
  BY <1>2, <1>3, <1>4, <1>6, <1>7, Zenon
<1> QED
  BY <1>5, <1>8

(* From the withdrawn routes to the first of the attributes, which lie behind. *)
LEMMA WithdrawnTurns ==
  ASSUME BgpInv, phase = "withdrawn", phase' = "values", UNCHANGED <<pdu, attrs>>
  PROVE  BgpTurnsLeft' \in 0..(BgpTurnsLeft - 1)
<1> DEFINE from == IF attrs = <<>> THEN AttributesEnd + 3 ELSE Head(attrs).from
<1>1. phase \in Structured
  BY DEF Structured
<1>2. /\ at \in Nat /\ UpdateEnd \in Nat /\ AttributesEnd \in Nat /\ AttributesEnd <= UpdateEnd
      /\ AttributesFrom \in Nat /\ AttributesFrom <= AttributesEnd /\ WithdrawnEnd \in Nat
      /\ WithdrawnEnd + 2 = AttributesFrom
  BY <1>1, TextOrder
<1>3. at <= WithdrawnEnd
  BY DEF BgpInv, Located
<1>4. from \in Nat /\ AttributesFrom <= from /\ from <= AttributesEnd + 3
  <2>1. CASE attrs = <<>>
    BY <1>2, <2>1
  <2>2. CASE attrs # <<>>
    <3>1. from = Head(attrs).from
      BY <2>2
    <3>2. Head(attrs).from \in Nat /\ Head(attrs).to \in Nat /\ AttributesFrom <= Head(attrs).from
          /\ Head(attrs).from <= Head(attrs).to /\ Head(attrs).to <= AttributesEnd
      BY <1>1, <2>2, ValuesLeft
    <3>3. \A f, t, u \in Nat : f <= t /\ t <= u => f <= u + 3
      OBVIOUS
    <3>4. Head(attrs).from <= AttributesEnd + 3
      BY <1>2, <3>2, <3>3
    <3> QED
      BY <3>1, <3>2, <3>4
  <2> QED
    BY <2>1, <2>2
<1>5. BgpTurnsLeft = UpdateEnd - at + 4
  BY DEF BgpTurnsLeft
<1>6. BgpTurnsLeft' = UpdateEnd - from + 5
  <2>1. BgpTurnsLeft' = ValuesTurns(attrs)
    BY Unmoved DEF BgpTurnsLeft, ValuesTurns
  <2>2. CASE attrs = <<>>
    BY <1>2, <2>1, <2>2 DEF ValuesTurns
  <2>3. CASE attrs # <<>>
    BY <2>1, <2>3 DEF ValuesTurns
  <2> QED
    BY <2>2, <2>3
<1> HIDE DEF from
<1> QED
  BY <1>2, <1>3, <1>4, <1>5, <1>6

(* A turn of a loop over routes. *)
LEMMA RouteTurns ==
  ASSUME BgpInv, BgpInv', Apart, phase \in {"withdrawn", "routes", "nlri"},
         NEW form \in {"ipv4", "ipv6", "l2vpn"}, NEW end \in Nat, end <= Len(octets), ReadRoute(form, end)
  PROVE  BgpTurnsLeft' \in 0..(BgpTurnsLeft - 1) /\ Apart'
<1>1. octets \in Seq(Octet) /\ at \in Nat
  BY BgpText DEF BgpInv, Structured
<1>2. /\ UNCHANGED <<pdu, phase, attrs>> /\ at' = at + RouteSize(form, at)
      /\ More(form, at, end) /\ RouteFits(form, at, end)
  BY DEF ReadRoute
<1>3. at < at'
  BY <1>1, <1>2, RouteInside
<1>4. phase' # "attributes"
  BY <1>2
<1> QED
  BY <1>2, <1>3, <1>4, LoopTurns, ApartKept

(* The structure, the attributes found, and the withdrawn routes after them. *)
LEMMA StructureTurns ==
  BgpInv /\ BgpInv' /\ Apart /\ ParseStructure => BgpTurnsLeft' \in 0..(BgpTurnsLeft - 1) /\ Apart'
<1> SUFFICES ASSUME BgpInv, BgpInv', Apart, ParseStructure
             PROVE  BgpTurnsLeft' \in 0..(BgpTurnsLeft - 1) /\ Apart'
  OBVIOUS
<1>1. phase = "structure" /\ attrs = <<>>
  BY DEF ParseStructure, BgpInv
<1>2. CASE Refuse
  BY <1>1, <1>2, EndTurns, ApartKept DEF Refuse
<1>3. ASSUME StructureFits, phase' = "attributes", at' = AttributesFrom, UNCHANGED <<pdu, attrs>>
      PROVE  BgpTurnsLeft' \in 0..(BgpTurnsLeft - 1) /\ Apart'
  <2>1. /\ UpdateEnd \in Nat /\ AttributesEnd \in Nat /\ AttributesFrom \in Nat /\ Len(octets) \in Nat
        /\ AttributesFrom <= AttributesEnd /\ AttributesEnd <= UpdateEnd /\ UpdateEnd <= Len(octets)
    BY <1>1, <1>3, Regions DEF BgpInv
  <2>2. BgpTurnsLeft = 2 * Len(octets) + 1
    BY <1>1 DEF BgpTurnsLeft
  <2>3. BgpTurnsLeft' = UpdateEnd + AttributesEnd - AttributesFrom
    BY <1>3, Unmoved DEF BgpTurnsLeft
  <2>4. \A b, e, u, n \in Nat : b <= e /\ e <= u /\ u <= n => u + e - b \in 0..((2 * n + 1) - 1)
    OBVIOUS
  <2>5. UpdateEnd + AttributesEnd - AttributesFrom \in 0..((2 * Len(octets) + 1) - 1)
    BY <2>1, <2>4, Zenon
  <2>6. Apart'
    BY <1>1, <1>3 DEF Apart
  <2> QED
    BY <2>2, <2>3, <2>5, <2>6
<1> QED
  BY <1>2, <1>3 DEF ParseStructure

LEMMA FindTurns ==
  BgpInv /\ BgpInv' /\ Apart /\ FindAttribute => BgpTurnsLeft' \in 0..(BgpTurnsLeft - 1) /\ Apart'
<1> SUFFICES ASSUME BgpInv, BgpInv', Apart, FindAttribute
             PROVE  BgpTurnsLeft' \in 0..(BgpTurnsLeft - 1) /\ Apart'
  OBVIOUS
<1>1. phase = "attributes"
  BY DEF FindAttribute
<1>2. CASE Refuse
  BY <1>1, <1>2, EndTurns, ApartKept DEF Refuse
<1> DEFINE a == AttributeAt(at)
<1>3. ASSUME AttributeFits(at), attrs' = Append(attrs, a), at' = ValueEnd(at), UNCHANGED <<pdu, phase>>
      PROVE  BgpTurnsLeft' \in 0..(BgpTurnsLeft - 1) /\ Apart'
  <2>1. octets \in Seq(Octet) /\ StructureFits /\ at \in Nat /\ AttributesFrom <= at
    BY <1>1, BgpText DEF BgpInv, Located, Structured
  <2>2. Within(a)
    BY <1>3, <2>1, AttributeInside
  <2>3. a \in Recorded /\ a.from \in Nat /\ a.to \in Nat /\ a.from <= a.to
    BY <2>2 DEF Within, Recorded
  <2>4. at + 3 <= ValueFrom(at)
    BY <2>1 DEF ValueFrom
  <2>5. a.from = ValueFrom(at) /\ a.to = ValueEnd(at)
    BY DEF AttributeAt
  <2> HIDE DEF a
  <2>6. at + 3 <= a.from /\ a.to = at'
    BY <1>3, <2>4, <2>5
  <2>7. at < at'
    BY <2>1, <2>3, <2>6
  <2>8. BgpTurnsLeft' \in 0..(BgpTurnsLeft - 1)
    BY <1>1, <1>3, <2>7, LoopTurns
  <2>9. Apart'
    BY <1>1, <1>3, <2>3, <2>6, ApartFound
  <2> QED
    BY <2>8, <2>9
<1> HIDE DEF a
<1>4. Refuse \/ (AttributeFits(at) /\ attrs' = Append(attrs, a) /\ at' = ValueEnd(at) /\ UNCHANGED <<pdu, phase>>)
  BY DEF FindAttribute, a
<1> QED
  BY <1>2, <1>3, <1>4

LEMMA EndAttributesTurns ==
  BgpInv /\ Apart /\ EndAttributes => BgpTurnsLeft' \in 0..(BgpTurnsLeft - 1) /\ Apart'
<1> SUFFICES ASSUME BgpInv, Apart, EndAttributes
             PROVE  BgpTurnsLeft' \in 0..(BgpTurnsLeft - 1) /\ Apart'
  OBVIOUS
<1>1. /\ phase = "attributes" /\ phase' = "withdrawn" /\ at >= AttributesEnd /\ at' = 21
      /\ UNCHANGED <<pdu, attrs>> /\ phase \in Structured
  BY DEF EndAttributes, WithdrawnFrom, BgpHeaderSize, Structured
<1>2. at <= AttributesEnd
  BY <1>1 DEF BgpInv, Located
<1>3. /\ at \in Nat /\ UpdateEnd \in Nat /\ AttributesEnd \in Nat /\ WithdrawnEnd \in Nat
      /\ WithdrawnEnd + 2 <= AttributesEnd /\ AttributesEnd <= UpdateEnd /\ 21 <= WithdrawnEnd
  BY <1>1, TextOrder
<1>4. BgpTurnsLeft = UpdateEnd + AttributesEnd - at
  BY <1>1 DEF BgpTurnsLeft
<1>5. BgpTurnsLeft' = UpdateEnd - 21 + 4
  BY <1>1, Unmoved DEF BgpTurnsLeft
<1>6. \A p, w, e, u \in Nat :
        p >= e /\ p <= e /\ 21 <= w /\ w + 2 <= e /\ e <= u => u - 21 + 4 \in 0..((u + e - p) - 1)
  OBVIOUS
<1>7. UpdateEnd - 21 + 4 \in 0..((UpdateEnd + AttributesEnd - at) - 1)
  BY <1>1, <1>2, <1>3, <1>6, Zenon
<1>8. Apart'
  BY <1>1, ApartKept
<1> QED
  BY <1>4, <1>5, <1>7, <1>8

LEMMA WithdrawnRoutesTurns ==
  BgpInv /\ BgpInv' /\ Apart /\ (ParseWithdrawn \/ EndWithdrawn)
    => BgpTurnsLeft' \in 0..(BgpTurnsLeft - 1) /\ Apart'
<1> SUFFICES ASSUME BgpInv, BgpInv', Apart, ParseWithdrawn \/ EndWithdrawn
             PROVE  BgpTurnsLeft' \in 0..(BgpTurnsLeft - 1) /\ Apart'
  OBVIOUS
<1>1. phase = "withdrawn" /\ phase \in Structured
  BY DEF ParseWithdrawn, EndWithdrawn, Structured
<1>2. WithdrawnEnd \in Nat /\ WithdrawnEnd <= Len(octets)
  BY <1>1, BgpText, Regions
<1>3. CASE Refuse
  BY <1>1, <1>3, EndTurns, ApartKept DEF Refuse
<1>4. CASE ReadRoute("ipv4", WithdrawnEnd)
  BY <1>1, <1>2, <1>4, RouteTurns
<1>5. CASE EndWithdrawn
  <2>1. phase' = "values" /\ UNCHANGED <<pdu, attrs>>
    BY <1>5 DEF EndWithdrawn
  <2> QED
    BY <1>1, <2>1, WithdrawnTurns, ApartKept
<1> QED
  BY <1>3, <1>4, <1>5 DEF ParseWithdrawn

(* The values. *)
LEMMA DoneApart ==
  ASSUME BgpInv, Apart, phase \in {"values", "path", "routes"}, attrs # <<>>, UNCHANGED pdu, Done
  PROVE  BgpTurnsLeft' \in 0..(BgpTurnsLeft - 1) /\ Apart'
<1>1. phase' # "attributes" /\ attrs' = Tail(attrs)
  BY DEF Done
<1> QED
  BY <1>1, DoneTurns, ApartKept

LEMMA DescribeTurns ==
  BgpInv /\ Apart /\ Describe => BgpTurnsLeft' \in 0..(BgpTurnsLeft - 1) /\ Apart'
<1> SUFFICES ASSUME BgpInv, Apart, Describe
             PROVE  BgpTurnsLeft' \in 0..(BgpTurnsLeft - 1) /\ Apart'
  OBVIOUS
<1>1. phase = "values" /\ attrs # <<>> /\ UNCHANGED pdu /\ Done
  BY DEF Describe, Skip
<1> QED
  BY <1>1, DoneApart

LEMMA OpenTurns ==
  BgpInv /\ BgpInv' /\ Apart /\ (OpenPath \/ OpenRoutes) => BgpTurnsLeft' \in 0..(BgpTurnsLeft - 1) /\ Apart'
<1> SUFFICES ASSUME BgpInv, BgpInv', Apart, OpenPath \/ OpenRoutes
             PROVE  BgpTurnsLeft' \in 0..(BgpTurnsLeft - 1) /\ Apart'
  OBVIOUS
<1>1. phase = "values" /\ attrs # <<>> /\ phase \in Structured
  BY DEF OpenPath, OpenRoutes, Structured
<1>2. CASE Skip
  BY <1>1, <1>2, DoneApart DEF Skip
<1>3. ASSUME phase' \in {"path", "routes"}, UNCHANGED <<pdu, attrs>>
      PROVE  BgpTurnsLeft' \in 0..(BgpTurnsLeft - 1) /\ Apart'
  <2> DEFINE a == Head(attrs)
  <2>1. /\ a.from \in Nat /\ a.to \in Nat /\ a.from <= a.to /\ a.to <= AttributesEnd
    BY <1>1, ValuesLeft
  <2>2. UpdateEnd \in Nat /\ AttributesEnd \in Nat /\ AttributesEnd <= UpdateEnd
    BY <1>1, TextOrder
  <2>3. at' \in Nat /\ a.from <= at' /\ at' <= a.to
    BY <1>3 DEF BgpInv, Located
  <2>4. BgpTurnsLeft = UpdateEnd - a.from + 5
    BY <1>1 DEF BgpTurnsLeft
  <2>5. BgpTurnsLeft' = UpdateEnd - at' + 3
    BY <1>3, Unmoved DEF BgpTurnsLeft
  <2> HIDE DEF a
  <2>6. \A f, p, t, e, u \in Nat :
          f <= p /\ p <= t /\ t <= e /\ e <= u => u - p + 3 \in 0..((u - f + 5) - 1)
    OBVIOUS
  <2>7. UpdateEnd - at' + 3 \in 0..((UpdateEnd - a.from + 5) - 1)
    BY <2>1, <2>2, <2>3, <2>6, Zenon
  <2>8. phase' # "attributes"
    BY <1>3
  <2>9. Apart'
    BY <1>3, <2>8, ApartKept
  <2> QED
    BY <2>4, <2>5, <2>7, <2>9
<1> QED
  BY <1>2, <1>3 DEF OpenPath, OpenRoutes

LEMMA PathTurns ==
  BgpInv /\ BgpInv' /\ Apart /\ (ParseSegment \/ EndPath) => BgpTurnsLeft' \in 0..(BgpTurnsLeft - 1) /\ Apart'
<1> SUFFICES ASSUME BgpInv, BgpInv', Apart, ParseSegment \/ EndPath
             PROVE  BgpTurnsLeft' \in 0..(BgpTurnsLeft - 1) /\ Apart'
  OBVIOUS
<1>1. phase = "path" /\ attrs # <<>>
  BY InPath DEF ParseSegment, EndPath
<1>2. CASE Skip \/ EndPath
  <2>1. UNCHANGED pdu /\ Done
    BY <1>2 DEF Skip, EndPath
  <2> QED
    BY <1>1, <2>1, DoneApart
<1>3. ASSUME SegmentFits, at' = SegmentEnd, UNCHANGED <<pdu, phase, attrs>>
      PROVE  BgpTurnsLeft' \in 0..(BgpTurnsLeft - 1) /\ Apart'
  <2>1. at < at' /\ phase' # "attributes"
    BY <1>1, <1>3, SegmentInside
  <2> QED
    BY <1>1, <1>3, <2>1, LoopTurns, ApartKept
<1> QED
  BY <1>2, <1>3 DEF ParseSegment

LEMMA RoutesTurns ==
  BgpInv /\ BgpInv' /\ Apart /\ (ParseRoutes \/ EndRoutes) => BgpTurnsLeft' \in 0..(BgpTurnsLeft - 1) /\ Apart'
<1> SUFFICES ASSUME BgpInv, BgpInv', Apart, ParseRoutes \/ EndRoutes
             PROVE  BgpTurnsLeft' \in 0..(BgpTurnsLeft - 1) /\ Apart'
  OBVIOUS
<1>1. phase = "routes" /\ phase \in Structured /\ attrs # <<>>
  BY DEF ParseRoutes, EndRoutes, Structured, BgpInv, Located
<1>2. CASE Skip \/ EndRoutes
  <2>1. UNCHANGED pdu /\ Done
    BY <1>2 DEF Skip, EndRoutes
  <2> QED
    BY <1>1, <2>1, DoneApart
<1>3. ASSUME ReadRoute(Form(Head(attrs)), Head(attrs).to)
      PROVE  BgpTurnsLeft' \in 0..(BgpTurnsLeft - 1) /\ Apart'
  <2>1. Form(Head(attrs)) \in {"ipv4", "ipv6", "l2vpn"}
    BY <1>3 DEF ReadRoute, More, Form, AfiName
  <2>2. Within(Head(attrs)) /\ octets \in Seq(Octet) /\ StructureFits
    BY <1>1, HeadWithin, BgpText
  <2>3. Head(attrs).to \in Nat /\ Head(attrs).to <= Len(octets)
    BY <2>2, Regions DEF Within
  <2> QED
    BY <1>1, <1>3, <2>1, <2>3, RouteTurns
<1> QED
  BY <1>2, <1>3 DEF ParseRoutes

(* The NLRI, from where the attributes end. *)
LEMMA NlriTurns ==
  BgpInv /\ BgpInv' /\ Apart /\ (OpenNlri \/ ParseNlri \/ EndNlri)
    => BgpTurnsLeft' \in 0..(BgpTurnsLeft - 1) /\ Apart'
<1> SUFFICES ASSUME BgpInv, BgpInv', Apart, OpenNlri \/ ParseNlri \/ EndNlri
             PROVE  BgpTurnsLeft' \in 0..(BgpTurnsLeft - 1) /\ Apart'
  OBVIOUS
<1>1. phase \in {"values", "nlri"} /\ phase \in Structured
  BY DEF OpenNlri, ParseNlri, EndNlri, Structured
<1>2. UpdateEnd \in Nat /\ UpdateEnd <= Len(octets) /\ AttributesEnd \in Nat /\ AttributesEnd <= UpdateEnd
  BY <1>1, TextOrder
<1>3. CASE Refuse \/ EndNlri
  <2>1. phase' \in {"parsed", "refused"} /\ UNCHANGED attrs
    BY <1>3 DEF Refuse, EndNlri
  <2> QED
    BY <1>1, <2>1, EndTurns, ApartKept
<1>4. CASE OpenNlri
  <2>1. phase = "values" /\ attrs = <<>> /\ phase' = "nlri" /\ at' = AttributesEnd /\ UNCHANGED <<pdu, attrs>>
    BY <1>4 DEF OpenNlri
  <2>2. BgpTurnsLeft = UpdateEnd - AttributesEnd + 2
    BY <2>1 DEF BgpTurnsLeft
  <2>3. BgpTurnsLeft' = UpdateEnd - AttributesEnd + 1
    BY <2>1, Unmoved DEF BgpTurnsLeft
  <2>4. Apart'
    BY <2>1, ApartKept
  <2> QED
    BY <1>2, <2>2, <2>3, <2>4
<1>5. CASE ParseNlri /\ ReadRoute("ipv4", UpdateEnd)
  <2>1. phase = "nlri"
    BY <1>5 DEF ParseNlri
  <2> QED
    BY <1>2, <1>5, <2>1, RouteTurns
<1> QED
  BY <1>3, <1>4, <1>5 DEF ParseNlri

(* Every step of the BGP parser leaves it fewer turns. *)
LEMMA BgpTurns ==
  BgpInv /\ BgpInv' /\ Apart /\ NextBgp => BgpTurnsLeft' \in 0..(BgpTurnsLeft - 1) /\ Apart'
<1> QED
  BY StructureTurns, FindTurns, EndAttributesTurns, WithdrawnRoutesTurns, DescribeTurns, OpenTurns,
     PathTurns, RoutesTurns, NlriTurns DEF NextBgp

(* A step of one of the parsers while the other stands, and the step from one to *)
(* the other.                                                               *)
LEMMA MessageTurns ==
  BmpInv /\ BgpInv /\ BgpInv' /\ Apart /\ [NextMessage]_parserVars
    => [TurnsLeft' \in 0..(TurnsLeft - 1)]_parserVars /\ Apart'
<1> SUFFICES ASSUME BmpInv, BgpInv, BgpInv', Apart, NextMessage
             PROVE  TurnsLeft' \in 0..(TurnsLeft - 1) /\ Apart'
  BY DEF parserVars, bgpVars, Apart
<1> DEFINE bgp == IF phase = "idle" THEN 2 * Len(data) + 2 ELSE BgpTurnsLeft
           after == IF phase' = "idle" THEN 2 * Len(data') + 2 ELSE BgpTurnsLeft'
<1>1. data \in Seq(Octet) /\ Len(data) \in Nat
  BY Framing DEF BmpInv
<1>2. TurnsLeft = BmpTurnsLeft + bgp /\ TurnsLeft' = BmpTurnsLeft' + after
  BY DEF TurnsLeft
<1>3. BgpTurnsLeft \in Nat \/ phase = "idle"
  <2>1. phase \in {"parsed", "refused"} => BgpTurnsLeft = 0
    BY DEF BgpTurnsLeft
  <2> QED
    BY <2>1, SomeLeft
<1>4. bgp \in Nat
  BY <1>1, <1>3
<1>5. BmpTurnsLeft \in Nat
  <2>1. pos \in Nat /\ pos <= Len(data)
    BY <1>1 DEF BmpInv, BmpTypeOK
  <2> QED
    BY <1>1, <2>1 DEF BmpTurnsLeft
<1>6. CASE ParseBmp
  <2>1. BmpTurnsLeft' \in 0..(BmpTurnsLeft - 1)
    BY <1>6, BmpTurns DEF ParseBmp
  <2>2. UNCHANGED <<pdu, phase, at, attrs>> /\ data' = data
    BY <1>6 DEF ParseBmp, bgpVars, data, NextBmp, ParseHeader, ParsePerPeerHeader, ParseTlv, EndTlvs, ParseCount,
                ParseStat, EndStats, ParseReason, ParseRest, ParseAddresses, ParseOpen, Goes
  <2>3. BgpTurnsLeft' = BgpTurnsLeft
    BY <2>2, Unmoved DEF BgpTurnsLeft
  <2>4. after = bgp /\ Apart'
    BY <2>2, <2>3 DEF Apart
  <2> HIDE DEF bgp, after
  <2>5. \A n, b \in Nat : \A m \in 0..(n - 1) : m + b \in 0..((n + b) - 1)
    OBVIOUS
  <2>6. BmpTurnsLeft' + bgp \in 0..((BmpTurnsLeft + bgp) - 1)
    BY <1>4, <1>5, <2>1, <2>5, Zenon
  <2> QED
    BY <1>2, <2>4, <2>6
<1>7. CASE HandOver
  <2>1. UNCHANGED bmpVars /\ stage = "parsed" /\ phase = "idle" /\ phase' = "structure" /\ UNCHANGED attrs
        /\ octets' = BgpUpdate(data)
    BY <1>7 DEF HandOver, Start, octets
  <2>2. BmpTurnsLeft = 0 /\ BmpTurnsLeft' = 0 /\ data' = data
    BY <2>1 DEF BmpTurnsLeft, bmpVars, data
  <2>3. Len(octets') \in Nat /\ Len(octets') <= Len(data)
    <3>1. MessageType(data) \notin {INITIATION, TERMINATION}
      BY <1>7 DEF HandOver, ROUTE_MONITORING, INITIATION, TERMINATION
    <3>2. PeerFields = 48 /\ PeerFields <= Len(data)
      BY <1>1, <2>1, <3>1 DEF BmpInv, Seen, PeerRead, Holds, PeerFields, BmpHeaderSize, PeerHeaderSize
    <3>3. octets' = SubSeq(data, 48 + 1, 48 + (Len(data) - 48))
      BY <2>1, <3>2 DEF BgpUpdate, ReadBytes
    <3> QED
      BY <1>1, <3>2, <3>3
  <2>4. after = 2 * Len(octets') + 1 /\ bgp = 2 * Len(data) + 2
    BY <2>1 DEF BgpTurnsLeft
  <2>5. Apart'
    BY <2>1, ApartKept
  <2> HIDE DEF bgp, after
  <2>6. after \in 0..(bgp - 1)
    BY <1>1, <2>3, <2>4
  <2> QED
    BY <1>2, <1>4, <2>2, <2>5, <2>6
<1>8. CASE ParseBgp
  <2>1. BgpTurnsLeft' \in 0..(BgpTurnsLeft - 1) /\ Apart'
    BY <1>8, BgpTurns DEF ParseBgp
  <2>2. phase # "idle" /\ phase' # "idle"
    BY <1>8 DEF ParseBgp, NextBgp, ParseStructure, FindAttribute, EndAttributes, ParseWithdrawn, EndWithdrawn,
                Describe, OpenPath, ParseSegment, EndPath, OpenRoutes, ParseRoutes, EndRoutes, OpenNlri, ParseNlri,
                EndNlri, Refuse, Skip, Done, ReadRoute
  <2>3. BmpTurnsLeft' = BmpTurnsLeft
    BY <1>8 DEF ParseBgp, bmpVars, BmpTurnsLeft, data
  <2>4. after = BgpTurnsLeft' /\ bgp = BgpTurnsLeft
    BY <2>2
  <2>5. after \in 0..(bgp - 1)
    BY <2>1, <2>4
  <2> HIDE DEF bgp, after
  <2>6. \A n, b \in Nat : \A m \in 0..(n - 1) : b + m \in 0..((b + n) - 1)
    OBVIOUS
  <2>7. BmpTurnsLeft + after \in 0..((BmpTurnsLeft + bgp) - 1)
    BY <1>4, <1>5, <2>5, <2>6, Zenon
  <2> QED
    BY <1>2, <2>1, <2>3, <2>7
<1> QED
  BY <1>6, <1>7, <1>8 DEF NextMessage

(* For any message of any length, and whatever lengths and counts it holds: every *)
(* turn of the parsers' loops leaves fewer turns, of which there are never more *)
(* than three for an octet and a few.                                        *)
THEOREM WorkIsBounded == SpecMessage => TurnsRunOut
<1>1. InitMessage => Apart
  BY DEF InitMessage, InitBgp, Apart
<1>2. BmpInv /\ BgpInv /\ BgpInv' /\ Apart /\ [NextMessage]_parserVars => Apart'
  BY MessageTurns
<1>3. BmpInv /\ BgpInv /\ BgpInv' /\ Apart /\ [NextMessage]_parserVars
        => [TurnsLeft' \in 0..(TurnsLeft - 1)]_parserVars
  BY MessageTurns
<1> QED
  BY <1>1, <1>2, <1>3, EachParserAlone, BmpInvariant, BgpInvariant, PTL DEF SpecMessage, TurnsRunOut
=============================================================================
