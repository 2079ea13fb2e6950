-------------------------- MODULE BgpMeaningProofs --------------------------
(***************************************************************************)
(* For UPDATEs of any octets whose writers meant what they wrote             *)
(* (LaidWhenGiven): the BGP parser, octet by octet, does what UpdateParts    *)
(* does part by part, and reads the description that was written.           *)
(***************************************************************************)
EXTENDS BgpParserProofs, FiniteSetTheorems, SequenceTheorems

Listed == Parts!Routes \cup {Malformed}

(* The routes read are the first of those written, and the parser is where the  *)
(* next begins.                                                             *)
Reading(list, p, routes, starts) ==
  /\ list \in Seq(Listed)
  /\ Len(list) + 1 <= Len(starts) /\ p = starts[Len(list) + 1]
  /\ \A i \in 1..Len(list) : list[i] = routes[i]

(* How many attributes are written; the last of them are those still to be read, *)
(* the next under this number.                                              *)
AttributeCount == Len(pdu.attributeCuts) - 1

NumberOfNext(list) == AttributeCount - Len(list) + 1

LastWritten(list) ==
  /\ Len(list) <= AttributeCount
  /\ \A j \in 1..Len(list) : list[j] = AttributesWritten[AttributeCount - Len(list) + j]

AttributesFit == ~(pdu.attributeCuts[AttributeCount + 1] < AttributesEnd)

NextPart(list) == PartNumber(AttributesWritten, NumberOfNext(list))

RoutesRead ==
  /\ phase = "withdrawn" =>
       Len(attrs) = AttributeCount /\ Reading(found, at, pdu.parts.withdrawn, pdu.routeCuts.withdrawn)
  /\ phase = "routes" =>
       /\ Opens(Head(attrs))
       /\ Reading(found, at, pdu.parts.attributes[NextPart(attrs)].routes,
                  pdu.routeCuts.attributes[NextPart(attrs)])
  /\ phase = "nlri" => attrs = <<>> /\ Reading(found, at, pdu.parts.nlri, pdu.routeCuts.nlri)

AttributesRead ==
  /\ phase = "attributes" =>
       /\ Len(attrs) <= AttributeCount /\ at = pdu.attributeCuts[Len(attrs) + 1]
       /\ \A j \in 1..Len(attrs) : attrs[j] = AttributesWritten[j]
  /\ phase \in Structured \ {"attributes"} => AttributesFit /\ LastWritten(attrs)

NothingYet ==
  /\ Before => afi = None /\ first = None /\ announced = <<>> /\ withdrawn = <<>>
  /\ phase \in {"idle", "structure", "attributes"} => found = <<>>

PartsInv ==
  /\ phase # "idle" => pdu \in Pdus
  /\ NothingYet
  /\ AttributesRead
  /\ RoutesRead

(* A value that no attribute still to be read gives is the one written.       *)
ValuesRead(list) ==
  \A t \in Descriptions :
    (\A j \in NumberOfNext(list)..AttributeCount : ~Gives(AttributesWritten, j, t))
      => described[t] = pdu.described[t]

(* The AS_PATHs of which the parser takes the size of the numbers for what it is. *)
SizeIsPlain == pdu.width = 4 \/ Len(pdu.cuts) <= 2

PathAhead(list) == \E j \in 1..Len(list) : list[j].type = AS_PATH

(* The numbers read are the first of those written.                          *)
NumbersFollow ==
  /\ numbers \in Seq(Nat)
  /\ pdu.path # None => /\ Len(numbers) = pdu.counts[Len(heads)]
                        /\ \A k \in 1..Len(numbers) : numbers[k] = pdu.path[k]

DescInv ==
  /\ DOMAIN described = Descriptions
  /\ Before => (\A t \in Descriptions : described[t] = None) /\ asPath = None
  /\ phase \in Structured \ {"attributes", "withdrawn"} =>
       /\ ValuesRead(attrs)
       /\ SizeIsPlain => IF PathAhead(attrs) THEN asPath = None ELSE asPath = pdu.path
  /\ phase = "path" /\ SizeIsPlain => Follows(heads, at) /\ NumbersFollow
  /\ phase = "parsed" => attrs = <<>>


-----------------------------------------------------------------------------
(* How many attributes with routes there are. *)

(* From one attribute on there is one more than from the next on if it has      *)
(* routes itself.                                                           *)
LEMMA MpFromNext ==
  ASSUME NEW as, NEW n \in Nat, DOMAIN as = 1..n, NEW k \in 1..n
  PROVE  /\ MpFrom(as, k) \in Nat /\ MpFrom(as, k + 1) \in Nat
         /\ IsMp(as[k]) => MpFrom(as, k) = MpFrom(as, k + 1) + 1
         /\ ~IsMp(as[k]) => MpFrom(as, k) = MpFrom(as, k + 1)
<1> DEFINE S(j) == {i \in 1..n : i >= j /\ IsMp(as[i])}
<1>1. IsFiniteSet(1..n) /\ S(k) \subseteq 1..n /\ S(k + 1) \subseteq 1..n
  <2>1. IsFiniteSet(1..n)
    BY FS_Interval
  <2> QED
    BY <2>1
<1>2. IsFiniteSet(S(k)) /\ IsFiniteSet(S(k + 1))
  BY <1>1, FS_Subset
<1>3. Cardinality(S(k)) \in Nat /\ Cardinality(S(k + 1)) \in Nat
  BY <1>2, FS_CardinalityType
<1>4. ASSUME IsMp(as[k]) PROVE Cardinality(S(k)) = Cardinality(S(k + 1)) + 1
  <2>1. \A i \in 1..n : i >= k <=> (i >= k + 1 \/ i = k)
    OBVIOUS
  <2>2. k >= k /\ ~(k >= k + 1)
    OBVIOUS
  <2>3. S(k) = S(k + 1) \cup {k} /\ k \notin S(k + 1)
    BY <1>4, <2>1, <2>2, Zenon
  <2> HIDE DEF S
  <2> QED
    BY <1>2, <2>3, FS_AddElement
<1>5. ASSUME ~IsMp(as[k]) PROVE S(k) = S(k + 1)
  <2>1. \A i \in 1..n : i >= k <=> (i >= k + 1 \/ i = k)
    OBVIOUS
  <2> QED
    BY <1>5, <2>1, Zenon
<1> QED
  BY <1>3, <1>4, <1>5 DEF MpFrom

(* Beyond the last there is none, and from any on no more than in all. *)
LEMMA MpFromEnd ==
  ASSUME NEW as, NEW n \in Nat, DOMAIN as = 1..n
  PROVE  MpFrom(as, n + 1) = 0
<1>1. {i \in 1..n : i >= n + 1 /\ IsMp(as[i])} = {}
  <2>1. \A i \in 1..n : ~(i >= n + 1)
    OBVIOUS
  <2> QED
    BY <2>1, Zenon
<1> QED
  BY <1>1, FS_EmptySet DEF MpFrom

LEMMA MpFromFewer ==
  ASSUME NEW as, NEW n \in Nat, DOMAIN as = 1..n, NEW k \in Nat, k >= 1
  PROVE  MpFrom(as, k) \in Nat /\ MpFrom(as, 1) \in Nat /\ MpFrom(as, k) <= MpFrom(as, 1)
<1> DEFINE S(j) == {i \in 1..n : i >= j /\ IsMp(as[i])}
<1>1. IsFiniteSet(1..n) /\ S(k) \subseteq 1..n /\ S(1) \subseteq 1..n /\ S(k) \subseteq S(1)
  <2>1. IsFiniteSet(1..n)
    BY FS_Interval
  <2>2. \A i \in 1..n : i >= 1
    OBVIOUS
  <2> QED
    BY <2>1, <2>2, Zenon
<1>2. IsFiniteSet(S(k)) /\ IsFiniteSet(S(1))
  BY <1>1, FS_Subset
<1>3. Cardinality(S(k)) \in Nat /\ Cardinality(S(1)) \in Nat /\ Cardinality(S(k)) <= Cardinality(S(1))
  BY <1>1, <1>2, FS_CardinalityType, FS_Subset
<1> QED
  BY <1>3 DEF MpFrom

(* The last of a list have as many wherever they are. *)
LEMMA MpFromLast ==
  ASSUME NEW as, NEW bs, NEW n \in Nat, NEW l \in 0..n, DOMAIN bs = 1..n, DOMAIN as = 1..l,
         \A j \in 1..l : as[j] = bs[n - l + j]
  PROVE  MpFrom(as, 1) = MpFrom(bs, n - l + 1)
<1> DEFINE S == {i \in 1..l : i >= 1 /\ IsMp(as[i])}
           T == {i \in 1..n : i >= n - l + 1 /\ IsMp(bs[i])}
           f == [i \in S |-> n - l + i]
<1>1. IsFiniteSet(S)
  <2>1. IsFiniteSet(1..l)
    BY FS_Interval
  <2>2. S \subseteq 1..l
    OBVIOUS
  <2> QED
    BY <2>1, <2>2, FS_Subset
<1>2. f \in [S -> T]
  <2> SUFFICES ASSUME NEW i \in S PROVE n - l + i \in T
    OBVIOUS
  <2>1. i \in 1..l /\ IsMp(as[i]) /\ as[i] = bs[n - l + i]
    OBVIOUS
  <2>2. n - l + i \in 1..n /\ n - l + i >= n - l + 1
    BY <2>1
  <2> QED
    BY <2>1, <2>2
<1>3. \A x, y \in S : f[x] = f[y] => x = y
  OBVIOUS
<1>4. \A y \in T : \E x \in S : f[x] = y
  <2> SUFFICES ASSUME NEW y \in T PROVE \E x \in S : f[x] = y
    OBVIOUS
  <2>1. y - (n - l) \in 1..l /\ n - l + (y - (n - l)) = y
    <3>1. y \in 1..n /\ y >= n - l + 1
      OBVIOUS
    <3> QED
      BY <3>1
  <2>2. as[y - (n - l)] = bs[y]
    BY <2>1
  <2>3. y - (n - l) \in S
    <3>1. IsMp(bs[y]) /\ y - (n - l) >= 1
      BY <2>1
    <3> QED
      BY <2>1, <2>2, <3>1, Zenon
  <2> QED
    BY <2>1, <2>3
<1>5. ExistsBijection(S, T)
  <2> HIDE DEF f, S, T
  <2>1. f \in Injection(S, T) /\ f \in Surjection(S, T)
    BY <1>2, <1>3, <1>4, Zenon DEF Injection, Surjection, IsInjective
  <2> QED
    BY <2>1 DEF ExistsBijection, Bijection
<1>6. Cardinality(T) = Cardinality(S)
  <2> HIDE DEF f, S, T
  <2> QED
    BY <1>1, <1>5, FS_Bijection
<1> QED
  BY <1>6 DEF MpFrom

(* The last elements of a list, taken one after the other. *)
LEMMA LastOfNext ==
  ASSUME NEW S, NEW s \in Seq(S), NEW n \in 1..Len(s)
  PROVE  /\ LastOf(s, n) # <<>> /\ Head(LastOf(s, n)) = s[Len(s) - n + 1]
         /\ Tail(LastOf(s, n)) = LastOf(s, n - 1)
<1> DEFINE m == Len(s) - n + 1
           k == Len(s)
<1>1. m \in 1..Len(s) /\ k \in m..Len(s) /\ m + 1 = Len(s) - (n - 1) + 1 /\ m <= k
  OBVIOUS
<1>2. \A i \in m..k : s[i] \in S
  BY ElementOfSeq
<1>3. Len(SubSeq(s, m, k)) = k - m + 1
  BY <1>1, <1>2, SubSeqProperties
<1>4. Head(SubSeq(s, m, k)) = s[m] /\ Tail(SubSeq(s, m, k)) = SubSeq(s, m + 1, k)
  BY <1>1, HeadTailOfSubSeq
<1> QED
  BY <1>1, <1>3, <1>4 DEF LastOf

LEMMA LastOfNone ==
  ASSUME NEW S, NEW s \in Seq(S)
  PROVE  LastOf(s, 0) = <<>>
BY SubSeqEmpty, LenProperties DEF LastOf

LEMMA LastOfAll ==
  ASSUME NEW S, NEW s \in Seq(S)
  PROVE  LastOf(s, Len(s)) = s
<1>1. Len(s) \in Nat
  BY LenProperties
<1>2. Len(s) - Len(s) + 1 = 1
  BY <1>1
<1> QED
  BY <1>2, SubSeqFull DEF LastOf

-----------------------------------------------------------------------------
(* What the writer meant. *)

(* Its parts have routes, or what does not parse. *)
LEMMA PartsTyped ==
  ASSUME pdu \in Pdus
  PROVE  /\ pdu.parts \in PartsWritten
         /\ pdu.parts.withdrawn \in Seq(Listed) /\ pdu.parts.nlri \in Seq(Listed)
         /\ pdu.parts.attributes \in Seq(Parts!Attributes)
         /\ \A i \in 1..Len(pdu.parts.attributes) :
              /\ pdu.parts.attributes[i].routes \in Seq(Listed)
              /\ Parts!OfFamily(pdu.parts.attributes[i].routes, pdu.parts.attributes[i].afi)
<1> DEFINE u == pdu.parts
           as == u.attributes
<1>1. u \in PartsWritten
  BY DEF PartsWritten
<1>2. u \in Parts!UpdateMessages
  BY <1>1, PartsAssumption
<1>3. u.withdrawn \in Seq(Listed) /\ u.nlri \in Seq(Listed) /\ as \in Seq(Parts!Attributes)
  BY <1>2 DEF Parts!UpdateMessages, Parts!RouteLists, Listed
<1> HIDE DEF as
<1>4. \A i \in 1..Len(as) : as[i] \in Parts!Attributes
  BY <1>3, ElementOfSeq
<1>5. \A i \in 1..Len(as) : as[i].routes \in Seq(Listed) /\ Parts!OfFamily(as[i].routes, as[i].afi)
  BY <1>4 DEF Parts!Attributes, Parts!RouteLists, Listed
<1> QED
  BY <1>1, <1>3, <1>5 DEF as

(* Reading a list of routes starts where the list does. *)
LEMMA RoutesBegin ==
  ASSUME NEW routes, NEW starts, NEW form, NEW from, NEW end,
         Len(routes) \in Nat, RoutesLaid(routes, starts, form, from, end)
  PROVE  Reading(<<>>, from, routes, starts)
<1>1. <<>> \in Seq(Listed) /\ Len(<<>>) = 0
  OBVIOUS
<1>2. Len(starts) \in 1..(Len(routes) + 1) /\ starts[1] = from
  BY DEF RoutesLaid
<1> QED
  BY <1>1, <1>2 DEF Reading

(* The next route is the next that was written. *)
LEMMA RouteNext ==
  ASSUME NEW routes \in Seq(Listed), NEW starts, NEW form, NEW from, NEW end, NEW list, NEW p,
         RoutesLaid(routes, starts, form, from, end), Reading(list, p, routes, starts)
  PROVE  /\ More(form, p, end) /\ RouteFits(form, p, end) =>
              Reading(Append(list, Route(form, p, end)), p + RouteSize(form, p), routes, starts)
         /\ More(form, p, end) /\ ~RouteFits(form, p, end) => Malformed \in Parts!Elements(routes)
         /\ ~More(form, p, end) => list = routes /\ Malformed \notin Parts!Elements(routes)
<1> DEFINE n == Len(starts)
           m == Len(list) + 1
           r == Route(form, p, end)
           q == p + RouteSize(form, p)
<1>1. list \in Seq(Listed) /\ Len(list) \in Nat /\ Len(routes) \in Nat
  BY LenProperties DEF Reading
<1>2. n \in 1..(Len(routes) + 1) /\ m \in 1..n /\ p = starts[m]
  BY <1>1 DEF Reading, RoutesLaid
<1>3. CASE m < n
  <2>1. m \in 1..(n - 1) /\ m \in 1..Len(routes)
    BY <1>1, <1>2, <1>3
  <2>2. More(form, p, end) /\ RouteFits(form, p, end) /\ routes[m] = r /\ starts[m + 1] = q
    BY <1>2, <2>1 DEF RoutesLaid
  <2>3. r \in Listed
    BY <2>1, <2>2, ElementOfSeq
  <2>4. Reading(Append(list, r), q, routes, starts)
    <3> DEFINE longer == Append(list, r)
    <3>1. /\ longer \in Seq(Listed) /\ Len(longer) = m
          /\ \A i \in 1..Len(list) : longer[i] = list[i]
          /\ longer[m] = r
      BY <1>1, <2>3, AppendProperties
    <3> HIDE DEF longer
    <3>2. \A i \in 1..m : longer[i] = routes[i]
      <4> SUFFICES ASSUME NEW i \in 1..m PROVE longer[i] = routes[i]
        OBVIOUS
      <4>1. CASE i \in 1..Len(list)
        BY <3>1, <4>1 DEF Reading
      <4>2. CASE i = m
        BY <2>2, <3>1, <4>2
      <4> QED
        BY <1>1, <4>1, <4>2
    <3>3. m + 1 <= Len(starts)
      BY <1>2, <1>3
    <3>4. Reading(longer, q, routes, starts)
      BY <2>2, <3>1, <3>2, <3>3 DEF Reading
    <3> QED
      BY <3>4 DEF longer
  <2> QED
    BY <2>2, <2>4
<1>4. CASE m = n
  <2>1. CASE n = Len(routes) + 1
    <3>1. ~More(form, p, end)
      BY <1>2, <1>4, <2>1 DEF RoutesLaid
    <3>2. Len(list) = Len(routes) /\ \A i \in 1..Len(list) : list[i] = routes[i]
      BY <1>1, <1>4, <2>1 DEF Reading
    <3>3. list = routes
      BY <1>1, <3>2, SeqEqual
    <3>4. \A i \in 1..Len(routes) : routes[i] # Malformed
      BY <1>1, <1>2, <2>1 DEF RoutesLaid
    <3>5. Malformed \notin Parts!Elements(routes)
      BY <3>4, LenProperties DEF Parts!Elements
    <3> QED
      BY <3>1, <3>3, <3>5
  <2>2. CASE n # Len(routes) + 1
    <3>1. More(form, p, end) /\ ~RouteFits(form, p, end) /\ routes[n] = Malformed
      BY <1>2, <1>4, <2>2 DEF RoutesLaid
    <3>2. n \in 1..Len(routes) /\ DOMAIN routes = 1..Len(routes)
      BY <1>1, <1>2, <2>2, LenProperties
    <3>3. Malformed \in Parts!Elements(routes)
      BY <3>1, <3>2 DEF Parts!Elements
    <3> QED
      BY <3>1, <3>3
  <2> QED
    BY <2>1, <2>2
<1> QED
  BY <1>2, <1>3, <1>4

(* There is a route, well-formed or not, where there is more to read. *)
LEMMA RoutesOrNone ==
  ASSUME NEW routes \in Seq(Listed), NEW starts, NEW form, NEW from, NEW end,
         RoutesLaid(routes, starts, form, from, end)
  PROVE  routes = <<>> <=> ~More(form, from, end)
<1> DEFINE n == Len(starts)
           m == Len(routes)
<1>1. m \in Nat /\ (routes = <<>> <=> m = 0) /\ n \in 1..(m + 1) /\ starts[1] = from
  BY LenProperties, EmptySeq DEF RoutesLaid
<1>2. /\ n > 1 => More(form, starts[1], end)
      /\ n = 1 => IF m = 0 THEN ~More(form, starts[1], end) ELSE More(form, starts[1], end)
  <2>1. ASSUME n > 1 PROVE More(form, starts[1], end)
    <3>1. 1 \in 1..(n - 1)
      BY <1>1, <2>1
    <3> QED
      BY <3>1 DEF RoutesLaid
  <2>2. ASSUME n = 1 PROVE IF m = 0 THEN ~More(form, starts[1], end) ELSE More(form, starts[1], end)
    <3>1. m = 0 <=> n = m + 1
      BY <1>1, <2>2
    <3> QED
      BY <2>2, <3>1 DEF RoutesLaid
  <2> QED
    BY <2>1, <2>2
<1> HIDE DEF n, m
<1>3. n = 1 \/ n > 1
  BY <1>1
<1>4. m = 0 => n = 1
  BY <1>1
<1> QED
  BY <1>1, <1>2, <1>3, <1>4

(* Of a message whose attributes fit, what its writer meant is in it. *)
LEMMA Meaning ==
  ASSUME StructureFits, UpdateLaid, AttributesFit
  PROVE  /\ AttributeCount \in Nat /\ DOMAIN AttributesWritten = 1..AttributeCount
         /\ RoutesLaid(pdu.parts.withdrawn, pdu.routeCuts.withdrawn, "ipv4", WithdrawnFrom, WithdrawnEnd)
         /\ MpFrom(AttributesWritten, 1) = Len(pdu.parts.attributes)
         /\ PartsLaid(AttributesWritten)
         /\ DescriptionLaid(AttributesWritten) /\ NothingElseDescribed(AttributesWritten)
         /\ PathWritten(AttributesWritten)
         /\ RoutesLaid(pdu.parts.nlri, pdu.routeCuts.nlri, "ipv4", AttributesEnd, UpdateEnd)
<1>1. Len(pdu.attributeCuts) \in Nat \ {0}
  BY DEF UpdateLaid
<1>2. AttributeCount \in Nat /\ AttributeCount + 1 = Len(pdu.attributeCuts)
  BY <1>1 DEF AttributeCount
<1>3. DOMAIN AttributesWritten = 1..AttributeCount
  BY DEF AttributesWritten, AttributeCount
<1>4. ~(pdu.attributeCuts[Len(pdu.attributeCuts)] < AttributesEnd)
  BY <1>2 DEF AttributesFit
<1> QED
  BY <1>2, <1>3, <1>4 DEF UpdateLaid

(* The attributes still to be read have as many with routes as the last of      *)
(* those written.                                                           *)
LEMMA LastCounts ==
  ASSUME AttributeCount \in Nat, DOMAIN AttributesWritten = 1..AttributeCount,
         NEW list \in Seq(Recorded), LastWritten(list)
  PROVE  /\ Len(list) \in 0..AttributeCount /\ NumberOfNext(list) \in 1..(AttributeCount + 1)
         /\ MpFrom(list, 1) = MpFrom(AttributesWritten, NumberOfNext(list))
<1> DEFINE n == AttributeCount
           l == Len(list)
           bs == AttributesWritten
<1>1. l \in 0..n /\ DOMAIN list = 1..l /\ \A j \in 1..l : list[j] = bs[n - l + j]
  BY LenProperties DEF LastWritten
<1>2. n - l + 1 \in 1..(n + 1)
  BY <1>1
<1> HIDE DEF n, l, bs
<1>3. n \in Nat /\ DOMAIN bs = 1..n
  BY DEF n, bs
<1>4. MpFrom(list, 1) = MpFrom(bs, n - l + 1)
  BY <1>1, <1>3, MpFromLast
<1> QED
  BY <1>1, <1>2, <1>4 DEF n, l, bs, NumberOfNext

(* The next attribute is the next that was written, and what comes after it is  *)
(* what was written after it.                                               *)
LEMMA NextIsWritten ==
  ASSUME AttributeCount \in Nat, NEW list \in Seq(Recorded), list # <<>>, LastWritten(list)
  PROVE  /\ NumberOfNext(list) \in 1..AttributeCount
         /\ Head(list) = AttributesWritten[NumberOfNext(list)]
         /\ Tail(list) \in Seq(Recorded) /\ LastWritten(Tail(list))
         /\ NumberOfNext(Tail(list)) = NumberOfNext(list) + 1
<1> DEFINE n == AttributeCount
           l == Len(list)
           rest == Tail(list)
           bs == AttributesWritten
<1>1. l \in 1..n /\ \A j \in 1..l : list[j] = bs[n - l + j]
  BY LenProperties, EmptySeq DEF LastWritten
<1>2. rest \in Seq(Recorded) /\ Len(rest) = l - 1 /\ \A j \in 1..Len(rest) : rest[j] = list[j + 1]
  BY HeadTailProperties
<1>3. Head(list) = list[1]
  OBVIOUS
<1> HIDE DEF rest, bs, l, n
<1>4. n \in Nat /\ l \in Nat
  BY <1>1 DEF n
<1>5. \A j \in 1..Len(rest) : rest[j] = bs[n - Len(rest) + j]
  <2> SUFFICES ASSUME NEW j \in 1..Len(rest) PROVE rest[j] = bs[n - Len(rest) + j]
    OBVIOUS
  <2>1. j + 1 \in 1..l /\ n - l + (j + 1) = n - Len(rest) + j
    BY <1>1, <1>2, <1>4
  <2> QED
    BY <1>1, <1>2, <2>1
<1>6. Len(rest) <= n /\ n - Len(rest) + 1 = n - l + 1 + 1 /\ n - l + 1 \in 1..n
  BY <1>1, <1>2, <1>4
<1>7. list[1] = bs[n - l + 1]
  BY <1>1, <1>4
<1> QED
  BY <1>2, <1>3, <1>5, <1>6, <1>7 DEF rest, bs, l, n, LastWritten, NumberOfNext

(* Of an attribute with routes, the next of the parts left is what was written;  *)
(* another attribute leaves the parts as they are.                          *)
LEMMA NextPartIsWritten ==
  ASSUME pdu \in Pdus, StructureFits, UpdateLaid, AttributesFit,
         NEW list \in Seq(Recorded), list # <<>>, LastWritten(list)
  PROVE  LET as == pdu.parts.attributes
             k == NextPart(list)
             rest == LastOf(as, MpFrom(list, 1))
         IN /\ IsMp(Head(list)) =>
                 /\ k \in 1..Len(as) /\ rest # <<>> /\ Head(rest) = as[k]
                 /\ Tail(rest) = LastOf(as, MpFrom(Tail(list), 1))
                 /\ PartLaid(Head(list), as[k], pdu.routeCuts.attributes[k])
            /\ ~IsMp(Head(list)) => MpFrom(Tail(list), 1) = MpFrom(list, 1)
<1> DEFINE as == pdu.parts.attributes
           bs == AttributesWritten
           j == NumberOfNext(list)
           q == MpFrom(bs, j)
           k == Len(as) - q + 1
<1>1. AttributeCount \in Nat /\ DOMAIN bs = 1..AttributeCount /\ MpFrom(bs, 1) = Len(as) /\ PartsLaid(bs)
  BY Meaning
<1>2. as \in Seq(Parts!Attributes) /\ Len(as) \in Nat
  BY PartsTyped, LenProperties
<1>3. /\ j \in 1..AttributeCount /\ Head(list) = bs[j]
      /\ Tail(list) \in Seq(Recorded) /\ LastWritten(Tail(list)) /\ NumberOfNext(Tail(list)) = j + 1
  BY <1>1, NextIsWritten
<1>4. MpFrom(list, 1) = q /\ MpFrom(Tail(list), 1) = MpFrom(bs, j + 1)
  BY <1>1, <1>3, LastCounts
<1> HIDE DEF as, bs, j
<1>5. /\ q \in Nat /\ MpFrom(bs, j + 1) \in Nat
      /\ IsMp(bs[j]) => q = MpFrom(bs, j + 1) + 1
      /\ ~IsMp(bs[j]) => q = MpFrom(bs, j + 1)
  BY <1>1, <1>3, MpFromNext
<1>6. q <= Len(as)
  <2>1. j \in Nat /\ j >= 1
    BY <1>1, <1>3
  <2> QED
    BY <1>1, <2>1, MpFromFewer
<1>7. NextPart(list) = k
  BY DEF NextPart, PartNumber, as, bs, j
<1>8. ASSUME IsMp(Head(list))
      PROVE  /\ k \in 1..Len(as) /\ LastOf(as, q) # <<>> /\ Head(LastOf(as, q)) = as[k]
             /\ Tail(LastOf(as, q)) = LastOf(as, MpFrom(bs, j + 1))
             /\ PartLaid(Head(list), as[k], pdu.routeCuts.attributes[k])
  <2>1. q = MpFrom(bs, j + 1) + 1
    BY <1>3, <1>5, <1>8
  <2> HIDE DEF q
  <2>2. q \in 1..Len(as) /\ q - 1 = MpFrom(bs, j + 1) /\ k \in 1..Len(as)
    <3>1. \A x, y, z \in Nat : x <= y /\ x = z + 1 => x \in 1..y /\ x - 1 = z /\ y - x + 1 \in 1..y
      OBVIOUS
    <3> QED
      BY <1>2, <1>5, <1>6, <2>1, <3>1, Zenon DEF k
  <2>3. LastOf(as, q) # <<>> /\ Head(LastOf(as, q)) = as[k] /\ Tail(LastOf(as, q)) = LastOf(as, q - 1)
    BY <1>2, <2>2, LastOfNext DEF k
  <2>4. PartLaid(bs[j], pdu.parts.attributes[PartNumber(bs, j)], pdu.routeCuts.attributes[PartNumber(bs, j)])
    BY <1>1, <1>3, <1>8 DEF PartsLaid
  <2>5. PartNumber(bs, j) = k
    BY DEF PartNumber, as, k, q
  <2> QED
    BY <1>3, <2>2, <2>3, <2>4, <2>5 DEF as
<1>9. ~IsMp(Head(list)) => q = MpFrom(bs, j + 1)
  BY <1>3, <1>5
<1> QED
  BY <1>4, <1>7, <1>8, <1>9 DEF as

-----------------------------------------------------------------------------
(* The invariant. *)

(* The message keeps its meaning. *)
LEMMA SameMeaning ==
  ASSUME UNCHANGED pdu
  PROVE  /\ AttributesWritten' = AttributesWritten /\ AttributeCount' = AttributeCount
         /\ AttributesFit' = AttributesFit
<1>1. octets' = octets /\ AttributesEnd' = AttributesEnd
  BY Unmoved
<1>2. AttributeCount' = AttributeCount
  BY DEF AttributeCount
<1>3. AttributesWritten' = AttributesWritten
  BY <1>1 DEF AttributesWritten, AttributeAt, ValueFrom, ValueEnd, Extended
<1> QED
  BY <1>1, <1>2, <1>3 DEF AttributesFit

(* What an attribute gives is a matter of the message. *)
LEMMA SameGives ==
  ASSUME UNCHANGED pdu, NEW j, NEW t
  PROVE  Gives(AttributesWritten, j, t)' <=> Gives(AttributesWritten, j, t)
<1>1. octets' = octets /\ AttributesWritten' = AttributesWritten
  BY Unmoved, SameMeaning
<1> QED
  BY <1>1 DEF Gives, Readable, Size, PartNumber, MpNextHop, HopSize

(* So do the places and names of its routes. *)
LEMMA SameRoute ==
  ASSUME UNCHANGED pdu, NEW form, NEW p, NEW end
  PROVE  /\ RouteFits(form, p, end)' = RouteFits(form, p, end)
         /\ RouteSize(form, p)' = RouteSize(form, p)
         /\ Route(form, p, end)' = Route(form, p, end)
<1>1. octets' = octets
  BY Unmoved
<1> QED
  BY <1>1 DEF RouteFits, PrefixFits, EvpnFits, RouteSize, EvpnSize, PrefixSize, EvpnType,
       Route, MacIpRoute, MacIpFields, Distinguisher, MacFrom, MacSize, IpFrom, IpSize

(* Hence a list of routes stays where it is laid. *)
LEMMA SameRoutes ==
  ASSUME UNCHANGED pdu, NEW routes, NEW starts, NEW form, NEW from, NEW end
  PROVE  RoutesLaid(routes, starts, form, from, end)' <=> RoutesLaid(routes, starts, form, from, end)
BY SameRoute DEF RoutesLaid

(* Hence an attribute with routes stays the part it is. *)
LEMMA PartStays ==
  ASSUME UNCHANGED pdu, NEW a, NEW part, NEW starts
  PROVE  PartLaid(a, part, starts)' <=> PartLaid(a, part, starts)
<1>1. octets' = octets
  BY Unmoved
<1>2. /\ Opens(a)' <=> Opens(a)
      /\ Form(a)' = Form(a) /\ RoutesFrom(a)' = RoutesFrom(a)
  BY <1>1 DEF Opens, Form, RoutesFrom, HopSize
<1>3. RoutesLaid(part.routes, starts, Form(a), RoutesFrom(a), a.to)'
        <=> RoutesLaid(part.routes, starts, Form(a), RoutesFrom(a), a.to)
  BY <1>2, SameRoutes
<1>4. ReadUint16(octets, a.from)' = ReadUint16(octets, a.from)
  BY <1>1
<1>5. PartLaid(a, part, starts)' => PartLaid(a, part, starts)
  BY <1>2, <1>3, <1>4 DEF PartLaid
<1>6. PartLaid(a, part, starts) => PartLaid(a, part, starts)'
  BY <1>2, <1>3, <1>4 DEF PartLaid
<1> QED
  BY <1>5, <1>6

(* And the description and the path stay those that are written. *)
LEMMA SameDescription ==
  ASSUME UNCHANGED pdu
  PROVE  /\ DescriptionLaid(AttributesWritten)' <=> DescriptionLaid(AttributesWritten)
         /\ NothingElseDescribed(AttributesWritten)' <=> NothingElseDescribed(AttributesWritten)
<1>1. octets' = octets /\ AttributesWritten' = AttributesWritten
  BY Unmoved, SameMeaning
<1>2. \A j, t : Gives(AttributesWritten, j, t)' <=> Gives(AttributesWritten, j, t)
  BY SameGives
<1>3. \A j, t : Given(AttributesWritten[j], t)' = Given(AttributesWritten[j], t)
  BY <1>1 DEF Given, Value, Groups, MpNextHop, HopSize, Size
<1>4. NothingElseDescribed(AttributesWritten)' <=> NothingElseDescribed(AttributesWritten)
  BY <1>1, <1>2 DEF NothingElseDescribed
<1>5. DescriptionLaid(AttributesWritten)' <=> DescriptionLaid(AttributesWritten)
  BY <1>1, <1>2, <1>3 DEF DescriptionLaid, LastGives
<1> QED
  BY <1>4, <1>5

(* The path too. *)
LEMMA SamePath ==
  ASSUME UNCHANGED pdu
  PROVE  PathWritten(AttributesWritten)' <=> PathWritten(AttributesWritten)
<1>1. octets' = octets /\ AttributesWritten' = AttributesWritten
  BY Unmoved, SameMeaning
<1>2. NumbersLaid' <=> NumbersLaid
  BY <1>1 DEF NumbersLaid, NumbersOf, NumberAt
<1> QED
  BY <1>1, <1>2 DEF PathWritten

(* What the octets say of a message they say of it as long as it is there. *)
LEMMA SameUpdate == UNCHANGED pdu /\ UpdateLaid => UpdateLaid'
<1> SUFFICES ASSUME UNCHANGED pdu, UpdateLaid PROVE UpdateLaid'
  OBVIOUS
<1>1. /\ octets' = octets /\ WithdrawnEnd' = WithdrawnEnd /\ UpdateEnd' = UpdateEnd
      /\ AttributesFrom' = AttributesFrom /\ AttributesEnd' = AttributesEnd
      /\ StructureFits' = StructureFits /\ AttributesWritten' = AttributesWritten
  BY Unmoved, SameMeaning
<1>2. MeansNothing' <=> MeansNothing
  BY DEF MeansNothing
<1>3. \A p : (AttributeFits(p)' <=> AttributeFits(p)) /\ ValueEnd(p)' = ValueEnd(p)
  BY <1>1 DEF AttributeFits, ValueEnd, ValueFrom, Extended
<1>4. RoutesLaid(pdu.parts.withdrawn, pdu.routeCuts.withdrawn, "ipv4", WithdrawnFrom, WithdrawnEnd)'
        <=> RoutesLaid(pdu.parts.withdrawn, pdu.routeCuts.withdrawn, "ipv4", WithdrawnFrom, WithdrawnEnd)
  BY <1>1, SameRoutes
<1>5. RoutesLaid(pdu.parts.nlri, pdu.routeCuts.nlri, "ipv4", AttributesEnd, UpdateEnd)'
        <=> RoutesLaid(pdu.parts.nlri, pdu.routeCuts.nlri, "ipv4", AttributesEnd, UpdateEnd)
  BY <1>1, SameRoutes
<1>6. PartsLaid(AttributesWritten)' <=> PartsLaid(AttributesWritten)
  BY <1>1, PartStays DEF PartsLaid, PartNumber
<1> QED
  BY <1>1, <1>2, <1>3, <1>4, <1>5, <1>6, SameDescription, SamePath DEF UpdateLaid

(* A message says what its writer meant when it is handed over.               *)
LaidWhenGiven == phase = "structure" => UpdateLaid

(* If every message handed over says what its writer meant, then what is being  *)
(* parsed does at every step: no step before the next message comes is taken   *)
(* with other octets or another meaning.                                     *)
LEMMA MeaningStays == SpecBgp /\ []LaidWhenGiven => []MeaningIsLaid
<1>1. InitBgp => MeaningIsLaid
  BY DEF InitBgp, MeaningIsLaid
<1>2. MeaningIsLaid /\ [(\E p \in Pdus : Start(p)) \/ NextBgp]_bgpVars /\ LaidWhenGiven'
        => MeaningIsLaid'
  <2> SUFFICES ASSUME MeaningIsLaid, [(\E p \in Pdus : Start(p)) \/ NextBgp]_bgpVars, LaidWhenGiven',
                      phase' # "idle"
               PROVE  UpdateLaid'
    BY DEF MeaningIsLaid
  <2>1. CASE \E p \in Pdus : Start(p)
    BY <2>1 DEF Start, LaidWhenGiven
  <2>2. CASE NextBgp \/ UNCHANGED bgpVars
    <3>1. phase # "idle" /\ UNCHANGED pdu
      BY <2>2 DEF bgpVars, NextBgp, ParseStructure, FindAttribute, EndAttributes, ParseWithdrawn, EndWithdrawn,
           Describe, OpenPath, ParseSegment, EndPath, OpenRoutes, ParseRoutes, EndRoutes, OpenNlri, ParseNlri,
           EndNlri, ReadRoute, Refuse, Skip, Done, KeepRoutes
    <3> QED
      BY <3>1, SameUpdate DEF MeaningIsLaid
  <2> QED
    BY <2>1, <2>2
<1> QED
  BY <1>1, <1>2, PTL DEF SpecBgp

(* A message is read from the start. *)
LEMMA PartsStart == ASSUME NEW p \in Pdus, PartsInv, Start(p) PROVE PartsInv'
<1>1. /\ phase = "idle" /\ phase' = "structure" /\ pdu' = p
      /\ UNCHANGED <<afi, first, announced, withdrawn, found>>
  BY DEF Start, results
<1>2. NothingYet'
  BY <1>1 DEF PartsInv, NothingYet, Before
<1> QED
  BY <1>1, <1>2 DEF PartsInv, AttributesRead, RoutesRead, Structured

(* Its structure fits or not. *)
LEMMA PartsStructure == BgpInv /\ PartsInv /\ UpdateLaid /\ ParseStructure => PartsInv'
<1> SUFFICES ASSUME BgpInv, PartsInv, UpdateLaid, ParseStructure PROVE PartsInv'
  OBVIOUS
<1>1. phase = "structure" /\ UNCHANGED <<pdu, afi, first, announced, withdrawn, found, attrs>>
  BY DEF ParseStructure, Refuse, results
<1>2. pdu' \in Pdus
  BY <1>1 DEF PartsInv
<1>3. CASE StructureFits /\ phase' = "attributes" /\ at' = AttributesFrom
  <2>1. attrs = <<>>
    BY <1>1 DEF BgpInv
  <2>2. Len(pdu.attributeCuts) \in Nat \ {0} /\ pdu.attributeCuts[1] = AttributesFrom
    BY <1>3 DEF UpdateLaid
  <2>3. AttributeCount \in Nat /\ AttributeCount' = AttributeCount
    BY <1>1, <2>2 DEF AttributeCount
  <2>4. Len(attrs') = 0
    BY <1>1, <2>1
  <2>5. AttributesRead'
    BY <1>1, <1>3, <2>2, <2>3, <2>4 DEF AttributesRead
  <2>6. NothingYet'
    BY <1>1, <1>3 DEF PartsInv, NothingYet, Before
  <2> QED
    BY <1>2, <1>3, <2>5, <2>6 DEF PartsInv, RoutesRead
<1>4. CASE phase' = "refused"
  BY <1>2, <1>4 DEF PartsInv, NothingYet, Before, AttributesRead, RoutesRead, Structured
<1> QED
  BY <1>3, <1>4 DEF ParseStructure, Refuse

(* Reading an attribute: it is the next one that was written. *)
LEMMA NextFound ==
  ASSUME BgpInv, PartsInv, UpdateLaid, phase = "attributes"
  PROVE  LET m == Len(attrs) + 1 IN
         /\ m \in 1..(AttributeCount + 1) /\ AttributeCount \in Nat
         /\ m <= AttributeCount =>
              /\ at < AttributesEnd /\ AttributeFits(at)
              /\ AttributesWritten[m] = AttributeAt(at) /\ pdu.attributeCuts[m + 1] = ValueEnd(at)
         /\ m = AttributeCount + 1 =>
              IF at < AttributesEnd THEN ~AttributeFits(at) /\ MeansNothing ELSE AttributesFit
<1> DEFINE m == Len(attrs) + 1
           n == Len(pdu.attributeCuts)
<1>1. StructureFits
  BY DEF BgpInv, Structured
<1>2. n \in Nat \ {0} /\ AttributeCount = n - 1
  BY <1>1 DEF UpdateLaid, AttributeCount
<1>3. /\ Len(attrs) \in Nat /\ Len(attrs) <= AttributeCount /\ at = pdu.attributeCuts[m]
  BY LenProperties DEF BgpInv, PartsInv, AttributesRead
<1>4. m \in 1..(AttributeCount + 1) /\ AttributeCount \in Nat
  BY <1>2, <1>3
<1>5. ASSUME m <= AttributeCount
      PROVE  /\ at < AttributesEnd /\ AttributeFits(at)
             /\ AttributesWritten[m] = AttributeAt(at) /\ pdu.attributeCuts[m + 1] = ValueEnd(at)
  <2>1. m \in 1..(n - 1)
    BY <1>2, <1>4, <1>5
  <2>2. AttributesWritten[m] = AttributeAt(pdu.attributeCuts[m])
    BY <2>1 DEF AttributesWritten
  <2> QED
    BY <1>1, <1>3, <2>1, <2>2 DEF UpdateLaid
<1>6. ASSUME m = AttributeCount + 1
      PROVE  IF at < AttributesEnd THEN ~AttributeFits(at) /\ MeansNothing ELSE AttributesFit
  <2>1. m = n
    BY <1>2, <1>6
  <2>2. at < AttributesEnd => ~AttributeFits(at) /\ MeansNothing
    BY <1>1, <1>3, <2>1 DEF UpdateLaid
  <2>3. ~(at < AttributesEnd) => AttributesFit
    BY <1>3, <1>6 DEF AttributesFit
  <2> QED
    BY <2>2, <2>3
<1> QED
  BY <1>4, <1>5, <1>6

LEMMA PartsFind == BgpInv /\ PartsInv /\ UpdateLaid /\ FindAttribute => PartsInv'
<1> SUFFICES ASSUME BgpInv, PartsInv, UpdateLaid, FindAttribute PROVE PartsInv'
  OBVIOUS
<1>1. /\ phase = "attributes" /\ at < AttributesEnd
      /\ UNCHANGED <<pdu, afi, first, announced, withdrawn, found>>
  BY DEF FindAttribute, Refuse, results
<1>2. pdu' \in Pdus
  BY <1>1 DEF PartsInv
<1>3. CASE AttributeFits(at) /\ phase' = phase /\ attrs' = Append(attrs, AttributeAt(at)) /\ at' = ValueEnd(at)
  <2> DEFINE m == Len(attrs) + 1
  <2>1. /\ m \in 1..(AttributeCount + 1) /\ AttributeCount \in Nat /\ m <= AttributeCount
        /\ AttributesWritten[m] = AttributeAt(at) /\ pdu.attributeCuts[m + 1] = ValueEnd(at)
    BY <1>1, <1>3, NextFound
  <2>2. /\ attrs \in Seq(Recorded) /\ Len(attrs) \in Nat /\ \A j \in 1..Len(attrs) : attrs[j] = AttributesWritten[j]
    BY <1>1, LenProperties DEF BgpInv, PartsInv, AttributesRead
  <2>3. Len(attrs') = m /\ (\A j \in 1..Len(attrs) : attrs'[j] = attrs[j]) /\ attrs'[m] = AttributeAt(at)
    BY <1>3, <2>2, AppendProperties
  <2>4. \A j \in 1..m : attrs'[j] = AttributesWritten[j]
    <3> SUFFICES ASSUME NEW j \in 1..m PROVE attrs'[j] = AttributesWritten[j]
      OBVIOUS
    <3>1. CASE j \in 1..Len(attrs)
      BY <2>2, <2>3, <3>1
    <3>2. CASE j = m
      BY <2>1, <2>3, <3>2
    <3> QED
      BY <2>2, <3>1, <3>2
  <2>5. AttributesWritten' = AttributesWritten /\ AttributeCount' = AttributeCount
    BY <1>1, SameMeaning
  <2>6. AttributesRead'
    BY <1>1, <1>3, <2>1, <2>3, <2>4, <2>5 DEF AttributesRead
  <2>7. NothingYet'
    BY <1>1, <1>3 DEF PartsInv, NothingYet, Before
  <2> QED
    BY <1>1, <1>2, <1>3, <2>6, <2>7 DEF PartsInv, RoutesRead
<1>4. CASE phase' = "refused"
  BY <1>2, <1>4 DEF PartsInv, NothingYet, Before, AttributesRead, RoutesRead, Structured
<1> QED
  BY <1>3, <1>4 DEF FindAttribute, Refuse

(* Once all attributes are found, the last of those written are still to be     *)
(* read: as many as there are.                                              *)
LEMMA PartsEndAttributes == BgpInv /\ PartsInv /\ UpdateLaid /\ EndAttributes => PartsInv'
<1> SUFFICES ASSUME BgpInv, PartsInv, UpdateLaid, EndAttributes PROVE PartsInv'
  OBVIOUS
<1> DEFINE m == Len(attrs) + 1
<1>1. /\ phase = "attributes" /\ at >= AttributesEnd /\ phase' = "withdrawn" /\ at' = WithdrawnFrom
      /\ UNCHANGED <<pdu, attrs, afi, first, announced, withdrawn, found>>
  BY DEF EndAttributes, results
<1>2. StructureFits /\ octets \in Seq(Octet) /\ at \in Nat /\ attrs \in Seq(Recorded) /\ pdu \in Pdus
  BY <1>1 DEF BgpInv, PartsInv, Structured
<1>3. ~(at < AttributesEnd)
  BY <1>1, <1>2, Regions
<1>4. m \in 1..(AttributeCount + 1) /\ AttributeCount \in Nat
  BY <1>1, NextFound
<1>5. m = AttributeCount + 1 /\ AttributesFit
  BY <1>1, <1>3, <1>4, NextFound
<1>6. Len(attrs) = AttributeCount /\ \A j \in 1..Len(attrs) : attrs[j] = AttributesWritten[j]
  BY <1>1, <1>2, <1>4, <1>5, LenProperties DEF PartsInv, AttributesRead
<1>7. \A j \in 1..Len(attrs) : AttributeCount - Len(attrs) + j = j
  BY <1>4, <1>6
<1>8. LastWritten(attrs)
  BY <1>4, <1>6, <1>7 DEF LastWritten
<1>9. Reading(<<>>, WithdrawnFrom, pdu.parts.withdrawn, pdu.routeCuts.withdrawn)
  <2>1. RoutesLaid(pdu.parts.withdrawn, pdu.routeCuts.withdrawn, "ipv4", WithdrawnFrom, WithdrawnEnd)
    BY <1>2, <1>5, Meaning
  <2>2. Len(pdu.parts.withdrawn) \in Nat
    BY <1>2, PartsTyped, LenProperties
  <2> QED
    BY <2>1, <2>2, RoutesBegin
<1>10. found = <<>>
  BY <1>1 DEF PartsInv, NothingYet
<1>11. AttributesWritten' = AttributesWritten /\ AttributeCount' = AttributeCount /\ AttributesFit' = AttributesFit
  BY <1>1, SameMeaning
<1>12. AttributesRead'
  BY <1>1, <1>5, <1>8, <1>11 DEF AttributesRead, LastWritten
<1>13. RoutesRead'
  BY <1>1, <1>6, <1>9, <1>10, <1>11 DEF RoutesRead
<1>14. NothingYet'
  BY <1>1 DEF PartsInv, NothingYet, Before
<1> QED
  BY <1>1, <1>2, <1>12, <1>13, <1>14 DEF PartsInv

(* A step between attributes, or within one, leaves those after it. *)
LEMMA PartsKept ==
  ASSUME PartsInv, phase \in Structured \ {"attributes"}, UNCHANGED pdu,
         attrs' = attrs \/ LastWritten(attrs'), phase' \notin {"idle", "structure", "attributes", "withdrawn"}
  PROVE  RoutesRead' => PartsInv'
<1>1. AttributesWritten' = AttributesWritten /\ AttributeCount' = AttributeCount /\ AttributesFit' = AttributesFit
  BY SameMeaning
<1>2. pdu' \in Pdus
  BY DEF PartsInv, Structured
<1>3. AttributesFit /\ LastWritten(attrs)
  BY DEF PartsInv, AttributesRead
<1>4. AttributesRead'
  BY <1>1, <1>3 DEF AttributesRead, LastWritten
<1>5. NothingYet'
  BY DEF NothingYet, Before
<1> QED
  BY <1>2, <1>4, <1>5 DEF PartsInv

(* An attribute that is done with leaves those after it. *)
LEMMA PartsDone ==
  ASSUME BgpInv, PartsInv, UpdateLaid, phase \in Structured \ {"attributes"}, attrs # <<>>, Done, UNCHANGED pdu
  PROVE  PartsInv'
<1>1. StructureFits /\ attrs \in Seq(Recorded) /\ AttributesFit /\ LastWritten(attrs)
  BY DEF BgpInv, PartsInv, AttributesRead
<1>2. AttributeCount \in Nat
  BY <1>1, Meaning
<1>3. LastWritten(Tail(attrs)) /\ attrs' = Tail(attrs) /\ phase' = "values"
  BY <1>1, <1>2, NextIsWritten DEF Done
<1>4. RoutesRead'
  BY <1>3 DEF RoutesRead
<1> QED
  BY <1>3, <1>4, PartsKept

(* The withdrawn routes. *)
LEMMA PartsWithdrawn == BgpInv /\ PartsInv /\ UpdateLaid /\ (ParseWithdrawn \/ EndWithdrawn) => PartsInv'
<1> SUFFICES ASSUME BgpInv, PartsInv, UpdateLaid, ParseWithdrawn \/ EndWithdrawn PROVE PartsInv'
  OBVIOUS
<1>1. phase = "withdrawn" /\ UNCHANGED <<pdu, attrs>>
  BY DEF ParseWithdrawn, ReadRoute, Refuse, EndWithdrawn
<1>2. StructureFits /\ pdu \in Pdus /\ AttributesFit
  BY <1>1 DEF BgpInv, PartsInv, AttributesRead, Structured
<1>3. CASE ReadRoute("ipv4", WithdrawnEnd)
  <2>1. RoutesLaid(pdu.parts.withdrawn, pdu.routeCuts.withdrawn, "ipv4", WithdrawnFrom, WithdrawnEnd)
    BY <1>2, Meaning
  <2>2. pdu.parts.withdrawn \in Seq(Listed)
    BY <1>2, PartsTyped
  <2>3. Reading(found, at, pdu.parts.withdrawn, pdu.routeCuts.withdrawn) /\ Len(attrs) = AttributeCount
    BY <1>1 DEF PartsInv, RoutesRead
  <2>4. /\ More("ipv4", at, WithdrawnEnd) /\ RouteFits("ipv4", at, WithdrawnEnd)
        /\ found' = Append(found, Route("ipv4", at, WithdrawnEnd)) /\ at' = at + RouteSize("ipv4", at)
        /\ phase' = phase /\ UNCHANGED <<afi, first, announced, withdrawn>>
    BY <1>3 DEF ReadRoute, results
  <2>5. Reading(Append(found, Route("ipv4", at, WithdrawnEnd)), at + RouteSize("ipv4", at),
                pdu.parts.withdrawn, pdu.routeCuts.withdrawn)
    BY <2>1, <2>2, <2>3, <2>4, RouteNext
  <2>6. AttributesWritten' = AttributesWritten /\ AttributeCount' = AttributeCount /\ AttributesFit' = AttributesFit
    BY <1>1, SameMeaning
  <2>7. RoutesRead'
    BY <1>1, <2>3, <2>4, <2>5, <2>6 DEF RoutesRead
  <2>8. AttributesRead'
    BY <1>1, <2>4, <2>6 DEF PartsInv, AttributesRead, LastWritten
  <2>9. NothingYet'
    BY <1>1, <2>4 DEF PartsInv, NothingYet, Before
  <2> QED
    BY <1>1, <1>2, <2>7, <2>8, <2>9 DEF PartsInv
<1>4. CASE phase' \in {"refused", "values"}
  <2>1. RoutesRead'
    BY <1>4 DEF RoutesRead
  <2> QED
    BY <1>1, <1>4, <2>1, PartsKept DEF Structured
<1> QED
  BY <1>3, <1>4 DEF ParseWithdrawn, Refuse, EndWithdrawn

(* The attributes without routes. *)
LEMMA PartsValues == BgpInv /\ PartsInv /\ UpdateLaid /\ (Describe \/ OpenPath \/ ParseSegment \/ EndPath) => PartsInv'
<1> SUFFICES ASSUME BgpInv, PartsInv, UpdateLaid, Describe \/ OpenPath \/ ParseSegment \/ EndPath PROVE PartsInv'
  OBVIOUS
<1>1. phase \in Structured \ {"attributes"} /\ attrs # <<>> /\ UNCHANGED pdu
  BY DEF BgpInv, Located, Structured, Describe, OpenPath, ParseSegment, EndPath, Skip, results
<1>2. CASE Done
  BY <1>1, <1>2, PartsDone
<1>3. CASE UNCHANGED attrs /\ phase' = "path"
  <2>1. RoutesRead'
    BY <1>3 DEF RoutesRead
  <2> QED
    BY <1>1, <1>3, <2>1, PartsKept
<1> QED
  BY <1>2, <1>3 DEF Describe, OpenPath, ParseSegment, EndPath, Skip

(* The part that is read is the next, and its routes lie where it says. *)
LEMMA PartRead ==
  ASSUME BgpInv, PartsInv, UpdateLaid, phase \in Structured \ {"attributes"}, attrs # <<>>, IsMp(Head(attrs))
  PROVE  LET part == pdu.parts.attributes[NextPart(attrs)]
         IN /\ part.routes \in Seq(Listed) /\ Len(part.routes) \in Nat
            /\ Parts!OfFamily(part.routes, part.afi)
            /\ part.reach <=> Head(attrs).type = MP_REACH_NLRI
            /\ IF Opens(Head(attrs))
               THEN /\ part.afi = AfiName(ReadUint16(octets, Head(attrs).from))
                    /\ RoutesLaid(part.routes, pdu.routeCuts.attributes[NextPart(attrs)], Form(Head(attrs)),
                                  RoutesFrom(Head(attrs)), Head(attrs).to)
               ELSE ~Parts!WellFormed(part)
<1>1. StructureFits /\ AttributesFit /\ attrs \in Seq(Recorded) /\ LastWritten(attrs) /\ pdu \in Pdus
  BY DEF BgpInv, PartsInv, AttributesRead, Structured
<1>2. /\ NextPart(attrs) \in 1..Len(pdu.parts.attributes)
      /\ PartLaid(Head(attrs), pdu.parts.attributes[NextPart(attrs)], pdu.routeCuts.attributes[NextPart(attrs)])
  BY <1>1, NextPartIsWritten
<1>3. /\ pdu.parts.attributes[NextPart(attrs)].routes \in Seq(Listed)
      /\ Parts!OfFamily(pdu.parts.attributes[NextPart(attrs)].routes, pdu.parts.attributes[NextPart(attrs)].afi)
  BY <1>1, <1>2, PartsTyped
<1> QED
  BY <1>2, <1>3, LenProperties DEF PartLaid

LEMMA SamePart ==
  ASSUME UNCHANGED <<pdu, attrs>>
  PROVE  /\ NextPart(attrs)' = NextPart(attrs)
         /\ Opens(Head(attrs))' <=> Opens(Head(attrs))
<1>1. octets' = octets
  BY Unmoved
<1>2. AttributesWritten' = AttributesWritten /\ AttributeCount' = AttributeCount
  BY SameMeaning
<1>3. NextPart(attrs)' = NextPart(attrs)
  BY <1>2 DEF NextPart, PartNumber, NumberOfNext
<1>4. Opens(Head(attrs))' <=> Opens(Head(attrs))
  BY <1>1 DEF Opens, Size, RoutesFrom, HopSize
<1> QED
  BY <1>3, <1>4

(* The routes of an attribute. *)
LEMMA PartsOpenRoutes == BgpInv /\ PartsInv /\ UpdateLaid /\ OpenRoutes => PartsInv'
<1> SUFFICES ASSUME BgpInv, PartsInv, UpdateLaid, OpenRoutes PROVE PartsInv'
  OBVIOUS
<1>1. phase = "values" /\ attrs # <<>> /\ UNCHANGED pdu /\ IsMp(Head(attrs))
  BY DEF OpenRoutes, Skip, results, IsMp
<1>2. phase \in Structured \ {"attributes"}
  BY <1>1 DEF Structured
<1>3. CASE Opens(Head(attrs)) /\ phase' = "routes" /\ at' = RoutesFrom(Head(attrs)) /\ found' = <<>> /\ UNCHANGED attrs
  <2> DEFINE routes == pdu.parts.attributes[NextPart(attrs)].routes
             starts == pdu.routeCuts.attributes[NextPart(attrs)]
  <2>1. /\ Len(routes) \in Nat
        /\ RoutesLaid(routes, starts, Form(Head(attrs)), RoutesFrom(Head(attrs)), Head(attrs).to)
    BY <1>1, <1>2, <1>3, PartRead
  <2>2. Reading(<<>>, RoutesFrom(Head(attrs)), routes, starts)
    BY <2>1, RoutesBegin
  <2>3. NextPart(attrs)' = NextPart(attrs) /\ Opens(Head(attrs))'
    BY <1>1, <1>3, SamePart
  <2>4. RoutesRead'
    BY <1>1, <1>3, <2>2, <2>3 DEF RoutesRead
  <2> QED
    BY <1>1, <1>2, <1>3, <2>4, PartsKept
<1>4. CASE Skip
  BY <1>1, <1>2, <1>4, PartsDone DEF Skip
<1> QED
  BY <1>3, <1>4 DEF OpenRoutes

LEMMA PartsParseRoutes == BgpInv /\ PartsInv /\ UpdateLaid /\ ParseRoutes => PartsInv'
<1> SUFFICES ASSUME BgpInv, PartsInv, UpdateLaid, ParseRoutes PROVE PartsInv'
  OBVIOUS
<1> DEFINE a == Head(attrs)
           routes == pdu.parts.attributes[NextPart(attrs)].routes
           starts == pdu.routeCuts.attributes[NextPart(attrs)]
<1>1. phase = "routes" /\ UNCHANGED pdu
  BY DEF ParseRoutes, ReadRoute, Skip
<1>2. phase \in Structured \ {"attributes"} /\ attrs # <<>> /\ IsMp(a)
  BY <1>1 DEF Structured, BgpInv, Located, IsMp
<1>3. Opens(a) /\ Reading(found, at, routes, starts)
  BY <1>1 DEF PartsInv, RoutesRead
<1>4. CASE ReadRoute(Form(a), a.to)
  <2>1. routes \in Seq(Listed) /\ RoutesLaid(routes, starts, Form(a), RoutesFrom(a), a.to)
    BY <1>2, <1>3, PartRead
  <2>2. /\ More(Form(a), at, a.to) /\ RouteFits(Form(a), at, a.to)
        /\ found' = Append(found, Route(Form(a), at, a.to)) /\ at' = at + RouteSize(Form(a), at)
        /\ phase' = phase /\ UNCHANGED attrs
    BY <1>4 DEF ReadRoute
  <2>3. Reading(Append(found, Route(Form(a), at, a.to)), at + RouteSize(Form(a), at), routes, starts)
    BY <1>3, <2>1, <2>2, RouteNext
  <2>4. NextPart(attrs)' = NextPart(attrs) /\ Opens(Head(attrs))'
    BY <1>1, <1>3, <2>2, SamePart
  <2>5. RoutesRead'
    BY <1>1, <2>2, <2>3, <2>4 DEF RoutesRead
  <2> QED
    BY <1>1, <1>2, <2>2, <2>5, PartsKept
<1>5. CASE Skip
  BY <1>1, <1>2, <1>5, PartsDone DEF Skip
<1> QED
  BY <1>4, <1>5 DEF ParseRoutes

LEMMA PartsEndRoutes == BgpInv /\ PartsInv /\ UpdateLaid /\ EndRoutes => PartsInv'
<1> SUFFICES ASSUME BgpInv, PartsInv, UpdateLaid, EndRoutes PROVE PartsInv'
  OBVIOUS
<1>1. phase = "routes" /\ Done /\ UNCHANGED pdu
  BY DEF EndRoutes
<1>2. phase \in Structured \ {"attributes"} /\ attrs # <<>>
  BY <1>1 DEF Structured, BgpInv, Located
<1> QED
  BY <1>1, <1>2, PartsDone

(* The NLRI. *)
LEMMA PartsNlri == BgpInv /\ PartsInv /\ UpdateLaid /\ (OpenNlri \/ ParseNlri \/ EndNlri) => PartsInv'
<1> SUFFICES ASSUME BgpInv, PartsInv, UpdateLaid, OpenNlri \/ ParseNlri \/ EndNlri PROVE PartsInv'
  OBVIOUS
<1> DEFINE routes == pdu.parts.nlri
           starts == pdu.routeCuts.nlri
<1>1. phase \in Structured \ {"attributes"} /\ UNCHANGED <<pdu, attrs>>
  BY DEF Structured, OpenNlri, ParseNlri, ReadRoute, Refuse, EndNlri
<1>2. StructureFits /\ AttributesFit /\ pdu \in Pdus
  BY <1>1 DEF BgpInv, PartsInv, AttributesRead, Structured
<1>3. /\ routes \in Seq(Listed) /\ Len(routes) \in Nat
      /\ RoutesLaid(routes, starts, "ipv4", AttributesEnd, UpdateEnd)
  BY <1>2, Meaning, PartsTyped, LenProperties
<1>4. CASE OpenNlri
  <2>1. Reading(<<>>, AttributesEnd, routes, starts)
    BY <1>3, RoutesBegin
  <2>2. phase' = "nlri" /\ at' = AttributesEnd /\ found' = <<>> /\ attrs = <<>>
    BY <1>4 DEF OpenNlri
  <2>3. RoutesRead'
    BY <1>1, <2>1, <2>2 DEF RoutesRead
  <2> QED
    BY <1>1, <2>2, <2>3, PartsKept
<1>5. CASE phase = "nlri" /\ ReadRoute("ipv4", UpdateEnd)
  <2>1. /\ More("ipv4", at, UpdateEnd) /\ RouteFits("ipv4", at, UpdateEnd)
        /\ found' = Append(found, Route("ipv4", at, UpdateEnd)) /\ at' = at + RouteSize("ipv4", at)
        /\ phase' = phase
    BY <1>5 DEF ReadRoute
  <2>2. attrs = <<>> /\ Reading(found, at, routes, starts)
    BY <1>5 DEF PartsInv, RoutesRead
  <2>3. Reading(Append(found, Route("ipv4", at, UpdateEnd)), at + RouteSize("ipv4", at), routes, starts)
    BY <1>3, <2>1, <2>2, RouteNext
  <2>4. RoutesRead'
    BY <1>1, <1>5, <2>1, <2>2, <2>3 DEF RoutesRead
  <2> QED
    BY <1>1, <1>5, <2>1, <2>4, PartsKept
<1>6. CASE phase' \in {"refused", "parsed"}
  <2>1. RoutesRead'
    BY <1>6 DEF RoutesRead
  <2> QED
    BY <1>1, <1>6, <2>1, PartsKept
<1> QED
  BY <1>4, <1>5, <1>6 DEF ParseNlri, Refuse, EndNlri

(* Altogether. *)
LEMMA PartsInit == InitBgp => PartsInv
BY DEF InitBgp, PartsInv, NothingYet, AttributesRead, RoutesRead, Structured

LEMMA PartsStep ==
  BgpInv /\ PartsInv /\ MeaningIsLaid /\ [(\E p \in Pdus : Start(p)) \/ NextBgp]_bgpVars => PartsInv'
<1> SUFFICES ASSUME BgpInv, PartsInv, MeaningIsLaid, [(\E p \in Pdus : Start(p)) \/ NextBgp]_bgpVars
             PROVE  PartsInv'
  OBVIOUS
<1>1. CASE \E p \in Pdus : Start(p)
  BY <1>1, PartsStart
<1>2. CASE NextBgp
  <2>1. phase # "idle"
    BY <1>2 DEF NextBgp, ParseStructure, FindAttribute, EndAttributes, ParseWithdrawn, EndWithdrawn, Describe,
         OpenPath, ParseSegment, EndPath, OpenRoutes, ParseRoutes, EndRoutes, OpenNlri, ParseNlri, EndNlri
  <2>2. UpdateLaid
    BY <2>1 DEF MeaningIsLaid
  <2> QED
    BY <1>2, <2>2, PartsStructure, PartsFind, PartsEndAttributes, PartsWithdrawn, PartsValues, PartsOpenRoutes,
       PartsParseRoutes, PartsEndRoutes, PartsNlri DEF NextBgp
<1>3. CASE UNCHANGED bgpVars
  <2>1. UNCHANGED <<pdu, phase, at, attrs, found, afi, first, announced, withdrawn>>
    BY <1>3 DEF bgpVars, results
  <2>2. AttributesWritten' = AttributesWritten /\ AttributeCount' = AttributeCount /\ AttributesFit' = AttributesFit
    BY <2>1, SameMeaning
  <2>3. NextPart(attrs)' = NextPart(attrs) /\ (Opens(Head(attrs))' <=> Opens(Head(attrs)))
    BY <2>1, SamePart
  <2>4. NothingYet'
    BY <2>1 DEF PartsInv, NothingYet, Before
  <2>5. AttributesRead'
    BY <2>1, <2>2 DEF PartsInv, AttributesRead, LastWritten
  <2>6. RoutesRead'
    BY <2>1, <2>2, <2>3 DEF PartsInv, RoutesRead
  <2> QED
    BY <2>1, <2>4, <2>5, <2>6 DEF PartsInv
<1> QED
  BY <1>1, <1>2, <1>3

-----------------------------------------------------------------------------
(* The steps of the parser are steps of UpdateParts, or none. *)
PartsMove == [Parts!NextParts]_(Parts!parts)

(* Before the withdrawn routes have been read, UpdateParts has not begun. *)
LEMMA NotBegun ==
  ASSUME Before, Before', UNCHANGED <<afi, first, announced, withdrawn>>
  PROVE  PartsMove
<1>1. phase # "refused" /\ phase' # "refused"
  BY DEF Before
<1>2. UNCHANGED <<PartsPc, Meant, PartsLeft, IfReturned(announced), IfReturned(withdrawn)>>
  BY <1>1 DEF PartsPc, Meant, PartsLeft, IfReturned
<1>3. UNCHANGED Parts!parts
  BY <1>2 DEF Parts!parts, Parts!lists
<1> QED
  BY <1>3 DEF PartsMove

(* Afterwards it waits for the parts. *)
Reached == phase \in {"values", "path", "routes", "nlri"}

LEMMA Waiting ==
  ASSUME Reached, Reached', UNCHANGED <<pdu, afi, first, announced, withdrawn>>,
         MpFrom(attrs', 1) = MpFrom(attrs, 1)
  PROVE  PartsMove
<1>1. PartsPc' = PartsPc /\ Meant' = Meant /\ PartsLeft' = PartsLeft
  BY DEF Reached, PartsPc, Meant, PartsLeft, Before
<1>2. IfReturned(announced)' = IfReturned(announced) /\ IfReturned(withdrawn)' = IfReturned(withdrawn)
  BY DEF Reached, IfReturned
<1>3. UNCHANGED Parts!parts
  BY <1>1, <1>2 DEF Parts!parts, Parts!lists
<1> QED
  BY <1>3 DEF PartsMove

(* A message refused before it has come that far means nothing. *)
LEMMA RefusedAtOnce ==
  ASSUME Before, pdu \in Pdus, NothingYet, MeansNothing, Refuse
  PROVE  PartsMove
<1>1. /\ phase' = "refused" /\ pdu' = pdu
      /\ afi = None /\ first = None /\ afi' = None /\ first' = None
  BY DEF Refuse, results, NothingYet
<1>2. PartsPc = "idle" /\ PartsPc' = "idle" /\ Meant' = pdu.parts /\ PartsLeft' = <<>>
  BY <1>1 DEF PartsPc, Meant, PartsLeft, Before
<1>3. IfReturned(announced)' = <<>> /\ IfReturned(withdrawn)' = <<>>
  BY <1>1 DEF IfReturned
<1>4. Parts!Raise
  BY <1>2, <1>3 DEF Parts!Raise
<1>5. Parts!ReadStructure(pdu.parts)
  BY <1>1, <1>2, <1>4 DEF Parts!ReadStructure, MeansNothing
<1>6. pdu.parts \in PartsWritten
  BY DEF PartsWritten
<1> QED
  BY <1>2, <1>5, <1>6 DEF PartsMove, Parts!NextParts

LEMMA MoveStart ==
  ASSUME NEW p \in Pdus, PartsInv, Start(p)
  PROVE  PartsMove
<1>1. phase = "idle" /\ phase' = "structure" /\ UNCHANGED <<afi, first, announced, withdrawn>>
  BY DEF Start, results
<1> QED
  BY <1>1, NotBegun DEF Before

LEMMA MoveStructure ==
  ASSUME PartsInv, UpdateLaid, ParseStructure
  PROVE  PartsMove
<1>1. phase = "structure" /\ UNCHANGED <<pdu, afi, first, announced, withdrawn>>
  BY DEF ParseStructure, Refuse, results
<1>2. CASE phase' = "attributes"
  BY <1>1, <1>2, NotBegun DEF Before
<1>3. CASE ~StructureFits /\ Refuse
  BY <1>1, <1>3, RefusedAtOnce DEF Before, PartsInv, UpdateLaid
<1> QED
  BY <1>2, <1>3 DEF ParseStructure

LEMMA MoveFind ==
  ASSUME BgpInv, PartsInv, UpdateLaid, FindAttribute
  PROVE  PartsMove
<1>1. phase = "attributes" /\ at < AttributesEnd /\ UNCHANGED <<pdu, afi, first, announced, withdrawn>>
  BY DEF FindAttribute, Refuse, results
<1>2. CASE phase' = phase
  BY <1>1, <1>2, NotBegun DEF Before
<1>3. CASE ~AttributeFits(at) /\ Refuse
  <2> DEFINE m == Len(attrs) + 1
  <2>1. m \in 1..(AttributeCount + 1) /\ AttributeCount \in Nat /\ ~(m <= AttributeCount)
    BY <1>1, <1>3, NextFound
  <2>2. m = AttributeCount + 1
    BY <2>1
  <2>3. MeansNothing
    BY <1>1, <2>2, NextFound
  <2> QED
    BY <1>1, <1>3, <2>3, RefusedAtOnce DEF Before, PartsInv
<1> QED
  BY <1>2, <1>3 DEF FindAttribute

LEMMA MoveEndAttributes ==
  ASSUME EndAttributes
  PROVE  PartsMove
<1>1. phase = "attributes" /\ phase' = "withdrawn" /\ UNCHANGED <<afi, first, announced, withdrawn>>
  BY DEF EndAttributes, results
<1> QED
  BY <1>1, NotBegun DEF Before

(* When the withdrawn routes have been read, or one of them cannot be, UpdateParts *)
(* reads the structure.                                                     *)
LEMMA MoveWithdrawn ==
  ASSUME BgpInv, PartsInv, UpdateLaid, ParseWithdrawn \/ EndWithdrawn
  PROVE  PartsMove
<1> DEFINE routes == pdu.parts.withdrawn
           starts == pdu.routeCuts.withdrawn
           as == pdu.parts.attributes
<1>1. phase = "withdrawn" /\ UNCHANGED pdu
  BY DEF ParseWithdrawn, ReadRoute, Refuse, EndWithdrawn
<1>2. StructureFits /\ pdu \in Pdus /\ AttributesFit /\ attrs \in Seq(Recorded) /\ LastWritten(attrs)
  BY <1>1 DEF BgpInv, PartsInv, AttributesRead, Structured
<1>3. /\ RoutesLaid(routes, starts, "ipv4", WithdrawnFrom, WithdrawnEnd)
      /\ routes \in Seq(Listed) /\ as \in Seq(Parts!Attributes)
      /\ AttributeCount \in Nat /\ DOMAIN AttributesWritten = 1..AttributeCount
      /\ MpFrom(AttributesWritten, 1) = Len(as)
  BY <1>2, Meaning, PartsTyped
<1>4. Reading(found, at, routes, starts) /\ Len(attrs) = AttributeCount
  BY <1>1 DEF PartsInv, RoutesRead
<1>5. CASE ReadRoute("ipv4", WithdrawnEnd)
  <2>1. phase' = phase /\ UNCHANGED <<afi, first, announced, withdrawn>>
    BY <1>5 DEF ReadRoute, results
  <2> QED
    BY <1>1, <2>1, NotBegun DEF Before
<1>6. CASE More("ipv4", at, WithdrawnEnd) /\ ~RouteFits("ipv4", at, WithdrawnEnd) /\ Refuse
  <2>1. MeansNothing
    BY <1>3, <1>4, <1>6, RouteNext DEF MeansNothing
  <2> QED
    BY <1>1, <1>2, <1>6, <2>1, RefusedAtOnce DEF Before, PartsInv
<1>7. CASE EndWithdrawn
  <2>1. /\ ~More("ipv4", at, WithdrawnEnd) /\ phase' = "values" /\ withdrawn' = found
        /\ UNCHANGED <<attrs, afi, first, announced>>
    BY <1>7 DEF EndWithdrawn
  <2>2. found = routes /\ Malformed \notin Parts!Elements(routes)
    BY <1>3, <1>4, <2>1, RouteNext
  <2>3. afi = None /\ first = None /\ announced = <<>>
    BY <1>1 DEF PartsInv, NothingYet, Before
  <2>4. NumberOfNext(attrs) = 1
    BY <1>3, <1>4 DEF NumberOfNext
  <2>5. MpFrom(attrs, 1) = Len(as)
    BY <1>2, <1>3, <2>4, LastCounts
  <2>6. LastOf(as, MpFrom(attrs, 1)) = as
    BY <1>3, <2>5, LastOfAll
  <2>7. PartsPc = "idle" /\ PartsPc' = "attributes" /\ Meant' = pdu.parts /\ PartsLeft' = as
    BY <1>1, <2>1, <2>6 DEF PartsPc, PartsLeft, Meant, Before
  <2>8. IfReturned(announced)' = <<>> /\ IfReturned(withdrawn)' = routes
    BY <2>1, <2>2, <2>3 DEF IfReturned
  <2>9. Parts!ReadStructure(pdu.parts)
    BY <2>1, <2>2, <2>3, <2>7, <2>8 DEF Parts!ReadStructure
  <2>10. pdu.parts \in PartsWritten
    BY <1>2 DEF PartsWritten
  <2> QED
    BY <2>7, <2>9, <2>10 DEF PartsMove, Parts!NextParts
<1> QED
  BY <1>5, <1>6, <1>7 DEF ParseWithdrawn

(* An attribute without routes is none of the parts. *)
LEMMA MoveValues ==
  ASSUME BgpInv, PartsInv, UpdateLaid, Describe \/ OpenPath \/ ParseSegment \/ EndPath
  PROVE  PartsMove
<1>1. /\ Reached /\ Reached' /\ attrs # <<>> /\ ~IsMp(Head(attrs))
      /\ UNCHANGED <<pdu, afi, first, announced, withdrawn>>
  BY DEF BgpInv, Located, Structured, Describe, OpenPath, ParseSegment, EndPath, Skip, Done, results, Reached,
         OpensPart, IsMp, AS_PATH, MP_REACH_NLRI, MP_UNREACH_NLRI
<1>2. attrs' = attrs \/ attrs' = Tail(attrs)
  BY DEF Describe, OpenPath, ParseSegment, EndPath, Skip, Done
<1>3. StructureFits /\ attrs \in Seq(Recorded) /\ AttributesFit /\ LastWritten(attrs) /\ pdu \in Pdus
  BY <1>1 DEF Reached, Structured, BgpInv, PartsInv, AttributesRead
<1>4. MpFrom(Tail(attrs), 1) = MpFrom(attrs, 1)
  BY <1>1, <1>3, NextPartIsWritten
<1>5. MpFrom(attrs', 1) = MpFrom(attrs, 1)
  BY <1>2, <1>4
<1> QED
  BY <1>1, <1>5, Waiting

(* An attribute that is skipped is a part that does not parse. *)
LEMMA MoveSkip ==
  ASSUME BgpInv, PartsInv, UpdateLaid, Reached, attrs # <<>>, IsMp(Head(attrs)), Skip,
         ~Parts!WellFormed(pdu.parts.attributes[NextPart(attrs)])
  PROVE  PartsMove
<1> DEFINE as == pdu.parts.attributes
           part == as[NextPart(attrs)]
           rest == LastOf(as, MpFrom(attrs, 1))
<1>1. StructureFits /\ attrs \in Seq(Recorded) /\ AttributesFit /\ LastWritten(attrs) /\ pdu \in Pdus
  BY DEF Reached, Structured, BgpInv, PartsInv, AttributesRead
<1>2. rest # <<>> /\ Head(rest) = part /\ Tail(rest) = LastOf(as, MpFrom(Tail(attrs), 1))
  BY <1>1, NextPartIsWritten
<1>3. /\ phase' = "values" /\ attrs' = Tail(attrs)
      /\ UNCHANGED <<pdu, afi, first, announced, withdrawn>>
  BY DEF Skip, Done, results
<1>4. /\ PartsPc = "attributes" /\ PartsPc' = PartsPc /\ Meant' = Meant
      /\ PartsLeft = rest /\ PartsLeft' = Tail(rest)
  BY <1>2, <1>3 DEF PartsPc, PartsLeft, Meant, Before, Reached
<1>5. IfReturned(announced)' = IfReturned(announced) /\ IfReturned(withdrawn)' = IfReturned(withdrawn)
  BY <1>3 DEF IfReturned, Reached
<1>6. Parts!SkipMalformed(part)
  BY <1>3, <1>5 DEF Parts!SkipMalformed
<1>7. Parts!ParseAttribute
  BY <1>2, <1>4, <1>6 DEF Parts!ParseAttribute
<1> QED
  BY <1>7 DEF PartsMove, Parts!NextParts

LEMMA MoveOpenRoutes ==
  ASSUME BgpInv, PartsInv, UpdateLaid, OpenRoutes
  PROVE  PartsMove
<1>1. Reached /\ phase \in Structured \ {"attributes"} /\ attrs # <<>> /\ IsMp(Head(attrs))
  BY DEF OpenRoutes, Reached, Structured, IsMp
<1>2. CASE phase' = "routes" /\ UNCHANGED <<pdu, attrs, results>>
  <2>1. UNCHANGED <<afi, first, announced, withdrawn>>
    BY <1>2 DEF results
  <2> QED
    BY <1>1, <1>2, <2>1, Waiting DEF Reached
<1>3. CASE ~Opens(Head(attrs)) /\ Skip
  <2>1. ~Parts!WellFormed(pdu.parts.attributes[NextPart(attrs)])
    BY <1>1, <1>3, PartRead
  <2> QED
    BY <1>1, <1>3, <2>1, MoveSkip
<1> QED
  BY <1>2, <1>3 DEF OpenRoutes

LEMMA MoveParseRoutes ==
  ASSUME BgpInv, PartsInv, UpdateLaid, ParseRoutes
  PROVE  PartsMove
<1> DEFINE a == Head(attrs)
           routes == pdu.parts.attributes[NextPart(attrs)].routes
           starts == pdu.routeCuts.attributes[NextPart(attrs)]
<1>1. Reached /\ phase = "routes" /\ phase \in Structured \ {"attributes"} /\ attrs # <<>> /\ IsMp(a)
  BY DEF ParseRoutes, Reached, Structured, BgpInv, Located, IsMp
<1>2. CASE ReadRoute(Form(a), a.to)
  <2>1. phase' = phase /\ UNCHANGED <<pdu, attrs, afi, first, announced, withdrawn>>
    BY <1>2 DEF ReadRoute, results
  <2>2. Reached'
    BY <1>1, <2>1 DEF Reached
  <2>3. MpFrom(attrs', 1) = MpFrom(attrs, 1)
    BY <2>1
  <2> QED
    BY <1>1, <2>1, <2>2, <2>3, Waiting
<1>3. CASE More(Form(a), at, a.to) /\ ~RouteFits(Form(a), at, a.to) /\ Skip
  <2>1. Opens(a) /\ Reading(found, at, routes, starts)
    BY <1>1 DEF PartsInv, RoutesRead
  <2>2. routes \in Seq(Listed) /\ RoutesLaid(routes, starts, Form(a), RoutesFrom(a), a.to)
    BY <1>1, <2>1, PartRead
  <2>3. Malformed \in Parts!Elements(routes)
    BY <1>3, <2>1, <2>2, RouteNext
  <2>4. ~Parts!WellFormed(pdu.parts.attributes[NextPart(attrs)])
    BY <2>3 DEF Parts!WellFormed
  <2> QED
    BY <1>1, <1>3, <2>4, MoveSkip
<1> QED
  BY <1>2, <1>3 DEF ParseRoutes

(* When its routes have been read, UpdateParts reads the part. *)
LEMMA MoveEndRoutes ==
  ASSUME BgpInv, PartsInv, UpdateLaid, EndRoutes
  PROVE  PartsMove
<1> DEFINE a == Head(attrs)
           as == pdu.parts.attributes
           part == as[NextPart(attrs)]
           routes == part.routes
           starts == pdu.routeCuts.attributes[NextPart(attrs)]
           rest == LastOf(as, MpFrom(attrs, 1))
<1>1. Reached /\ phase = "routes" /\ phase \in Structured \ {"attributes"} /\ attrs # <<>> /\ IsMp(a)
  BY DEF EndRoutes, Reached, Structured, BgpInv, Located, IsMp
<1>2. Opens(a) /\ Reading(found, at, routes, starts)
  BY <1>1 DEF PartsInv, RoutesRead
<1>3. /\ routes \in Seq(Listed) /\ RoutesLaid(routes, starts, Form(a), RoutesFrom(a), a.to)
      /\ Parts!OfFamily(routes, part.afi)
      /\ part.reach <=> a.type = MP_REACH_NLRI
      /\ part.afi = AfiName(ReadUint16(octets, a.from))
  BY <1>1, <1>2, PartRead
<1>4. found = routes /\ Malformed \notin Parts!Elements(routes)
  BY <1>2, <1>3, RouteNext DEF EndRoutes
<1>5. StructureFits /\ attrs \in Seq(Recorded) /\ AttributesFit /\ LastWritten(attrs) /\ pdu \in Pdus
  BY <1>1 DEF Structured, BgpInv, PartsInv, AttributesRead
<1>6. rest # <<>> /\ Head(rest) = part /\ Tail(rest) = LastOf(as, MpFrom(Tail(attrs), 1))
  BY <1>1, <1>5, NextPartIsWritten
<1>7. /\ phase' = "values" /\ attrs' = Tail(attrs) /\ pdu' = pdu
      /\ afi' = AfiName(ReadUint16(octets, a.from)) /\ first' = FirstFields(found)
      /\ \/ a.type = MP_REACH_NLRI /\ announced' = announced \o found /\ UNCHANGED withdrawn
         \/ a.type = MP_UNREACH_NLRI /\ withdrawn' = withdrawn \o found /\ UNCHANGED announced
  BY DEF EndRoutes, Done, KeepRoutes
<1>8. /\ PartsPc = "attributes" /\ PartsPc' = PartsPc /\ Meant' = Meant
      /\ PartsLeft = rest /\ PartsLeft' = Tail(rest)
  BY <1>1, <1>6, <1>7 DEF PartsPc, PartsLeft, Meant, Before
<1>9. /\ IfReturned(announced) = announced /\ IfReturned(announced)' = announced'
      /\ IfReturned(withdrawn) = withdrawn /\ IfReturned(withdrawn)' = withdrawn'
  BY <1>1, <1>7 DEF IfReturned
<1>10. first' = IF part.afi # "l2vpn" \/ routes = <<>> THEN first
                ELSE IF Head(routes).kind = "other" THEN None ELSE Head(routes).name
  <2>1. CASE routes = <<>>
    BY <1>4, <1>7, <2>1 DEF FirstFields
  <2>2. CASE routes # <<>>
    <3>1. 1 \in DOMAIN routes /\ Head(routes) = routes[1]
      BY <1>3, <2>2, LenProperties, EmptySeq
    <3>2. routes[1] # Malformed
      BY <1>4, <3>1 DEF Parts!Elements
    <3>3. Head(routes).afi = part.afi
      BY <1>3, <3>1, <3>2 DEF Parts!OfFamily
    <3> QED
      BY <1>4, <1>7, <2>2, <3>3 DEF FirstFields
  <2> QED
    BY <2>1, <2>2
<1>11. Parts!Collect(part)
  <2>1. CASE a.type = MP_REACH_NLRI
    <3>1. announced' = announced \o routes /\ withdrawn' = withdrawn
      BY <1>4, <1>7, <2>1 DEF MP_REACH_NLRI, MP_UNREACH_NLRI
    <3> QED
      BY <1>3, <1>9, <2>1, <3>1 DEF Parts!Collect
  <2>2. CASE a.type # MP_REACH_NLRI
    <3>1. withdrawn' = withdrawn \o routes /\ announced' = announced
      BY <1>4, <1>7, <2>2
    <3> QED
      BY <1>3, <1>9, <2>2, <3>1 DEF Parts!Collect
  <2> QED
    BY <2>1, <2>2
<1>12. Parts!ReadRoutes(part)
  BY <1>3, <1>7, <1>10, <1>11 DEF Parts!ReadRoutes
<1>13. Parts!WellFormed(part)
  BY <1>4 DEF Parts!WellFormed
<1>14. Parts!ParseAttribute
  BY <1>6, <1>8, <1>12, <1>13 DEF Parts!ParseAttribute
<1> QED
  BY <1>14 DEF PartsMove, Parts!NextParts

(* The NLRI. *)
LEMMA MoveNlri ==
  ASSUME BgpInv, PartsInv, UpdateLaid, OpenNlri \/ ParseNlri \/ EndNlri
  PROVE  PartsMove
<1> DEFINE routes == pdu.parts.nlri
           starts == pdu.routeCuts.nlri
           as == pdu.parts.attributes
<1>1. Reached /\ phase \in Structured \ {"attributes"} /\ UNCHANGED <<pdu, attrs>>
  BY DEF Reached, Structured, OpenNlri, ParseNlri, ReadRoute, Refuse, EndNlri
<1>2. StructureFits /\ AttributesFit /\ pdu \in Pdus
  BY <1>1 DEF BgpInv, PartsInv, AttributesRead, Structured
<1>3. /\ routes \in Seq(Listed) /\ as \in Seq(Parts!Attributes)
      /\ RoutesLaid(routes, starts, "ipv4", AttributesEnd, UpdateEnd)
  BY <1>2, Meaning, PartsTyped
<1>4. CASE OpenNlri \/ (phase = "nlri" /\ ReadRoute("ipv4", UpdateEnd))
  <2>1. Reached' /\ UNCHANGED <<afi, first, announced, withdrawn>>
    BY <1>4 DEF OpenNlri, ReadRoute, results, Reached
  <2>2. MpFrom(attrs', 1) = MpFrom(attrs, 1)
    BY <1>1
  <2> QED
    BY <1>1, <2>1, <2>2, Waiting
<1>5. ASSUME phase = "nlri"
      PROVE  /\ PartsPc = "attributes" /\ Meant = pdu.parts /\ PartsLeft = <<>>
             /\ Reading(found, at, routes, starts)
  <2>1. attrs = <<>> /\ Reading(found, at, routes, starts)
    BY <1>5 DEF PartsInv, RoutesRead
  <2>2. DOMAIN attrs = 1..0
    BY <2>1
  <2>3. MpFrom(attrs, 0 + 1) = 0
    BY <2>2, MpFromEnd
  <2>4. LastOf(as, MpFrom(attrs, 1)) = <<>>
    BY <1>3, <2>3, LastOfNone
  <2> QED
    BY <1>5, <2>1, <2>4 DEF PartsPc, Meant, PartsLeft, Before
<1>6. CASE phase = "nlri" /\ More("ipv4", at, UpdateEnd) /\ ~RouteFits("ipv4", at, UpdateEnd) /\ Refuse
  <2>1. phase' = "refused" /\ UNCHANGED <<afi, first>>
    BY <1>6 DEF Refuse, results
  <2>2. Malformed \in Parts!Elements(routes)
    BY <1>3, <1>5, <1>6, RouteNext
  <2>3. PartsPc' = "idle" /\ Meant' = Meant /\ PartsLeft' = <<>>
    BY <1>1, <1>6, <2>1 DEF PartsPc, Meant, PartsLeft, Before
  <2>4. IfReturned(announced)' = <<>> /\ IfReturned(withdrawn)' = <<>>
    BY <2>1 DEF IfReturned
  <2>5. Parts!Raise
    BY <2>3, <2>4 DEF Parts!Raise
  <2>6. Parts!ParseNlri
    BY <1>5, <1>6, <2>1, <2>2, <2>3, <2>5 DEF Parts!ParseNlri
  <2> QED
    BY <2>6 DEF PartsMove, Parts!NextParts
<1>7. CASE EndNlri
  <2>1. /\ phase = "nlri" /\ ~More("ipv4", at, UpdateEnd) /\ phase' = "parsed"
        /\ announced' = announced \o found /\ UNCHANGED <<first, withdrawn>>
        /\ afi' = IF AttributesEnd < UpdateEnd THEN "ipv4" ELSE afi
    BY <1>7 DEF EndNlri
  <2>2. found = routes /\ Malformed \notin Parts!Elements(routes)
    BY <1>3, <1>5, <2>1, RouteNext
  <2>3. routes = <<>> <=> ~(AttributesEnd < UpdateEnd)
    BY <1>3, RoutesOrNone DEF More
  <2>4. PartsPc' = "add" /\ Meant' = Meant /\ PartsLeft' = PartsLeft
    BY <1>1, <2>1 DEF PartsPc, Meant, PartsLeft, Before
  <2>5. /\ IfReturned(announced)' = IfReturned(announced) \o routes
        /\ IfReturned(withdrawn)' = IfReturned(withdrawn)
    BY <2>1, <2>2 DEF IfReturned
  <2>6. Parts!ParseNlri
    BY <1>5, <2>1, <2>2, <2>3, <2>4, <2>5 DEF Parts!ParseNlri
  <2> QED
    BY <2>6 DEF PartsMove, Parts!NextParts
<1> QED
  BY <1>4, <1>6, <1>7 DEF ParseNlri

LEMMA MoveInit == InitBgp => Parts!InitParts
<1> SUFFICES ASSUME InitBgp PROVE Parts!InitParts
  OBVIOUS
<1>1. /\ phase = "idle" /\ afi = None /\ first = None /\ announced = <<>> /\ withdrawn = <<>>
  BY DEF InitBgp
<1>2. PartsPc = "idle" /\ PartsLeft = <<>> /\ IfReturned(announced) = <<>> /\ IfReturned(withdrawn) = <<>>
  BY <1>1 DEF PartsPc, PartsLeft, IfReturned, Before
<1>3. \E u : u \in PartsWritten
  BY PdusAssumption DEF PartsWritten
<1>4. AnyParts \in PartsWritten
  BY <1>3 DEF AnyParts
<1>5. Meant \in PartsWritten
  BY <1>1, <1>4 DEF Meant, Before
<1> QED
  BY <1>1, <1>2, <1>5 DEF Parts!InitParts

LEMMA MoveNext ==
  BgpInv /\ PartsInv /\ MeaningIsLaid /\ [(\E p \in Pdus : Start(p)) \/ NextBgp]_bgpVars => PartsMove
<1> SUFFICES ASSUME BgpInv, PartsInv, MeaningIsLaid, [(\E p \in Pdus : Start(p)) \/ NextBgp]_bgpVars
             PROVE  PartsMove
  OBVIOUS
<1>1. CASE \E p \in Pdus : Start(p)
  BY <1>1, MoveStart
<1>2. CASE NextBgp
  <2>1. phase # "idle"
    BY <1>2 DEF NextBgp, ParseStructure, FindAttribute, EndAttributes, ParseWithdrawn, EndWithdrawn, Describe,
         OpenPath, ParseSegment, EndPath, OpenRoutes, ParseRoutes, EndRoutes, OpenNlri, ParseNlri, EndNlri
  <2>2. UpdateLaid
    BY <2>1 DEF MeaningIsLaid
  <2> QED
    BY <1>2, <2>2, MoveStructure, MoveFind, MoveEndAttributes, MoveWithdrawn, MoveValues, MoveOpenRoutes,
       MoveParseRoutes, MoveEndRoutes, MoveNlri DEF NextBgp
<1>3. CASE UNCHANGED bgpVars
  <2>1. UNCHANGED <<pdu, phase, attrs, afi, first, announced, withdrawn>>
    BY <1>3 DEF bgpVars, results
  <2>2. UNCHANGED <<PartsPc, Meant, PartsLeft, IfReturned(announced), IfReturned(withdrawn)>>
    BY <2>1 DEF PartsPc, Meant, PartsLeft, IfReturned, Before
  <2>3. UNCHANGED Parts!parts
    BY <2>1, <2>2 DEF Parts!parts, Parts!lists
  <2> QED
    BY <2>3 DEF PartsMove
<1> QED
  BY <1>1, <1>2, <1>3

(* For UPDATEs of any octets that say what their writer meant, of any number of  *)
(* parts and routes, parse_bgp_update does what UpdateParts does: it finds     *)
(* the parts that are there and in each of them the routes, collects them in  *)
(* the order of the attributes, skips an attribute that does not parse with   *)
(* all of its routes, and refuses the message for any other malformed route.  *)
THEOREM ParserImplementsParts == SpecBgp /\ []LaidWhenGiven => ImplementsParts
<1>1. InitBgp => BgpInv /\ PartsInv /\ Parts!InitParts
  BY BgpStart, PartsInit, MoveInit
<1>2. BgpInv /\ PartsInv /\ MeaningIsLaid /\ [(\E p \in Pdus : Start(p)) \/ NextBgp]_bgpVars
        => PartsInv' /\ PartsMove
  BY PartsStep, MoveNext
<1>3. SpecBgp => []BgpInv
  BY BgpInvariant
<1> QED
  BY <1>1, <1>2, <1>3, MeaningStays, PTL DEF SpecBgp, ImplementsParts, Parts!PartsSpec, PartsMove

(* The same of the two parsers together, for every Route Monitoring message. *)
THEOREM MessageImplementsParts == SpecMessage /\ []LaidWhenGiven => ImplementsParts
BY EachParserAlone, ParserImplementsParts, PTL

-----------------------------------------------------------------------------
(* The description. *)

(* The phases after the withdrawn routes. *)
AfterWithdrawn == Structured \ {"attributes", "withdrawn"}

(* No description is an AS_PATH, nor an attribute with routes. *)
LEMMA NotDescribed ==
  /\ AS_PATH \notin Descriptions /\ MP_REACH_NLRI \notin Descriptions /\ MP_UNREACH_NLRI \notin Descriptions
  /\ NEXT_HOP \in Descriptions /\ AS_PATH \notin {MP_REACH_NLRI, MP_UNREACH_NLRI} /\ MP_REACH_NLRI # MP_UNREACH_NLRI
BY DEF AS_PATH, MP_REACH_NLRI, MP_UNREACH_NLRI, Descriptions, ORIGIN, NEXT_HOP, MULTI_EXIT_DISC, LOCAL_PREF,
       COMMUNITIES, EXTENDED_COMMUNITIES

(* The facts of the attribute that is read next. *)
LEMMA NextRead ==
  ASSUME BgpInv, PartsInv, UpdateLaid, phase \in AfterWithdrawn, attrs # <<>>
  PROVE  LET a == Head(attrs)
             k == NumberOfNext(attrs)
         IN /\ AttributeCount \in Nat /\ DOMAIN AttributesWritten = 1..AttributeCount
            /\ k \in 1..AttributeCount /\ a = AttributesWritten[k]
            /\ Tail(attrs) \in Seq(Recorded) /\ LastWritten(Tail(attrs)) /\ NumberOfNext(Tail(attrs)) = k + 1
            /\ DescriptionLaid(AttributesWritten) /\ PathWritten(AttributesWritten)
            /\ \A t : Gives(AttributesWritten, k, t) <=>
                 \/ a.type = t /\ Readable(a) /\ (t = NEXT_HOP => Size(a) >= 4)
                 \/ /\ t = NEXT_HOP /\ a.type = MP_REACH_NLRI
                    /\ Parts!WellFormed(pdu.parts.attributes[NextPart(attrs)])
                    /\ MpNextHop(a) # <<>>
<1>1. StructureFits /\ attrs \in Seq(Recorded) /\ AttributesFit /\ LastWritten(attrs)
  BY DEF AfterWithdrawn, Structured, BgpInv, PartsInv, AttributesRead
<1>2. /\ AttributeCount \in Nat /\ DOMAIN AttributesWritten = 1..AttributeCount
      /\ DescriptionLaid(AttributesWritten) /\ PathWritten(AttributesWritten)
  BY <1>1, Meaning
<1>3. /\ NumberOfNext(attrs) \in 1..AttributeCount /\ Head(attrs) = AttributesWritten[NumberOfNext(attrs)]
      /\ Tail(attrs) \in Seq(Recorded) /\ LastWritten(Tail(attrs))
      /\ NumberOfNext(Tail(attrs)) = NumberOfNext(attrs) + 1
  BY <1>1, <1>2, NextIsWritten
<1> QED
  BY <1>2, <1>3 DEF Gives, NextPart

(* Each attribute that gives a value sets it, and no other touches it: the value  *)
(* is right once all that give it are read.                                 *)
LEMMA ValuesNext ==
  ASSUME BgpInv, PartsInv, UpdateLaid, phase \in AfterWithdrawn, attrs # <<>>,
         ValuesRead(attrs), attrs' = Tail(attrs), UNCHANGED pdu,
         \A t \in Descriptions :
           IF Gives(AttributesWritten, NumberOfNext(attrs), t) THEN described'[t] = Given(Head(attrs), t)
           ELSE described'[t] = described[t]
  PROVE  ValuesRead(attrs)'
<1> DEFINE n == AttributeCount
           k == NumberOfNext(attrs)
           W == AttributesWritten
<1>1. /\ n \in Nat /\ DOMAIN W = 1..n /\ k \in 1..n /\ Head(attrs) = W[k] /\ NumberOfNext(Tail(attrs)) = k + 1
      /\ DescriptionLaid(W)
  BY NextRead
<1>2. AttributeCount' = n
  BY SameMeaning
<1>3. NumberOfNext(attrs)' = k + 1
  BY <1>1, <1>2 DEF NumberOfNext
<1>4. \A j, t : Gives(AttributesWritten, j, t)' <=> Gives(W, j, t)
  BY SameGives
<1>5. ASSUME NEW t \in Descriptions, \A j \in (k + 1)..n : ~Gives(W, j, t)
      PROVE  described'[t] = pdu.described[t]
  <2>1. CASE Gives(W, k, t)
    <3>1. \A j \in DOMAIN W : j > k => ~Gives(W, j, t)
      <4> SUFFICES ASSUME NEW j \in DOMAIN W, j > k PROVE ~Gives(W, j, t)
        OBVIOUS
      <4>1. j \in (k + 1)..n
        BY <1>1
      <4> QED
        BY <1>5, <4>1
    <3>2. LastGives(W, k, t)
      BY <2>1, <3>1 DEF LastGives
    <3>3. pdu.described[t] = Given(W[k], t)
      BY <1>1, <3>2 DEF DescriptionLaid
    <3> QED
      BY <1>1, <2>1, <3>3
  <2>2. CASE ~Gives(W, k, t)
    <3>1. \A j \in k..n : ~Gives(W, j, t)
      <4> SUFFICES ASSUME NEW j \in k..n PROVE ~Gives(W, j, t)
        OBVIOUS
      <4>1. j = k \/ j \in (k + 1)..n
        BY <1>1
      <4> QED
        BY <1>5, <2>2, <4>1
    <3>2. described[t] = pdu.described[t]
      BY <3>1 DEF ValuesRead
    <3> QED
      BY <2>2, <3>2
  <2> QED
    BY <2>1, <2>2
<1> HIDE DEF n, k, W
<1> QED
  BY <1>2, <1>3, <1>4, <1>5 DEF ValuesRead

(* There is one AS_PATH at most: behind it there is none. *)
LEMMA PathNext ==
  ASSUME BgpInv, PartsInv, UpdateLaid, phase \in AfterWithdrawn, attrs # <<>>
  PROVE  /\ Head(attrs).type = AS_PATH => ~PathAhead(Tail(attrs)) /\ PathAhead(attrs)
         /\ Head(attrs).type # AS_PATH => (PathAhead(Tail(attrs)) <=> PathAhead(attrs))
<1> DEFINE n == AttributeCount
           k == NumberOfNext(attrs)
           W == AttributesWritten
           rest == Tail(attrs)
<1>1. /\ n \in Nat /\ DOMAIN W = 1..n /\ k \in 1..n /\ Head(attrs) = W[k] /\ NumberOfNext(rest) = k + 1
      /\ rest \in Seq(Recorded) /\ LastWritten(rest) /\ PathWritten(W)
  BY NextRead
<1>2. attrs \in Seq(Recorded) /\ Len(attrs) \in Nat /\ Len(attrs) >= 1
  BY LenProperties, EmptySeq DEF BgpInv
<1>3. Len(rest) = Len(attrs) - 1 /\ (\A j \in 1..Len(rest) : rest[j] = attrs[j + 1]) /\ Head(attrs) = attrs[1]
  BY <1>2, HeadTailProperties
<1>4. \A j \in 1..Len(rest) : n - Len(rest) + j \in 1..n /\ n - Len(rest) + j # k /\ rest[j] = W[n - Len(rest) + j]
  <2> SUFFICES ASSUME NEW j \in 1..Len(rest)
               PROVE  n - Len(rest) + j \in 1..n /\ n - Len(rest) + j # k /\ rest[j] = W[n - Len(rest) + j]
    OBVIOUS
  <2>1. Len(rest) <= n /\ n - Len(rest) + 1 = k + 1 /\ rest[j] = W[n - Len(rest) + j]
    BY <1>1 DEF LastWritten, NumberOfNext
  <2> QED
    BY <1>1, <1>2, <1>3, <2>1
<1> HIDE DEF n, k, W, rest
<1>5. ASSUME Head(attrs).type = AS_PATH PROVE ~PathAhead(rest)
  <2> SUFFICES ASSUME NEW j \in 1..Len(rest), rest[j].type = AS_PATH PROVE FALSE
    BY DEF PathAhead
  <2>1. n - Len(rest) + j \in DOMAIN W /\ n - Len(rest) + j # k /\ W[n - Len(rest) + j].type = AS_PATH
    BY <1>1, <1>4
  <2>2. k \in DOMAIN W /\ W[k].type = AS_PATH
    BY <1>1, <1>5
  <2> QED
    BY <1>1, <2>1, <2>2 DEF PathWritten
<1>6. Head(attrs).type = AS_PATH => PathAhead(attrs)
  <2>1. 1 \in 1..Len(attrs)
    BY <1>2
  <2> QED
    BY <1>3, <2>1 DEF PathAhead
<1>7. PathAhead(rest) => PathAhead(attrs)
  <2> SUFFICES ASSUME NEW j \in 1..Len(rest), rest[j].type = AS_PATH PROVE PathAhead(attrs)
    BY DEF PathAhead
  <2>1. j + 1 \in 1..Len(attrs) /\ attrs[j + 1].type = AS_PATH
    BY <1>2, <1>3
  <2> QED
    BY <2>1 DEF PathAhead
<1>8. PathAhead(attrs) => Head(attrs).type = AS_PATH \/ PathAhead(rest)
  <2> SUFFICES ASSUME NEW j \in 1..Len(attrs), attrs[j].type = AS_PATH, j # 1 PROVE PathAhead(rest)
    BY <1>3 DEF PathAhead
  <2>1. j - 1 \in 1..Len(rest) /\ (j - 1) + 1 = j
    BY <1>2, <1>3
  <2>2. rest[j - 1] = attrs[j]
    BY <1>3, <2>1
  <2> QED
    BY <2>1, <2>2 DEF PathAhead
<1> QED
  BY <1>5, <1>6, <1>7, <1>8 DEF rest

(* The AS_PATH is as it was written. *)
LEMMA PathIsWritten ==
  ASSUME BgpInv, PartsInv, UpdateLaid, phase \in AfterWithdrawn, attrs # <<>>, Head(attrs).type = AS_PATH
  PROVE  \/ PathLaid(pdu, pdu.width, Head(attrs)) /\ NumbersLaid
         \/ PathCutShort(pdu, 4, Head(attrs)) /\ pdu.width = 4 /\ pdu.path = None
<1>1. /\ DOMAIN AttributesWritten = 1..AttributeCount /\ NumberOfNext(attrs) \in 1..AttributeCount
      /\ Head(attrs) = AttributesWritten[NumberOfNext(attrs)] /\ PathWritten(AttributesWritten)
  BY NextRead
<1> QED
  BY <1>1 DEF PathWritten

(* An attribute is done with: what it gives has been set, and the path, if that   *)
(* is what it is.                                                           *)
LEMMA DescDone ==
  ASSUME BgpInv, PartsInv, UpdateLaid, DescInv, phase \in AfterWithdrawn, attrs # <<>>, Done, UNCHANGED pdu,
         DOMAIN described' = Descriptions,
         \A t \in Descriptions :
           IF Gives(AttributesWritten, NumberOfNext(attrs), t) THEN described'[t] = Given(Head(attrs), t)
           ELSE described'[t] = described[t],
         SizeIsPlain => IF Head(attrs).type = AS_PATH THEN asPath' = pdu.path ELSE asPath' = asPath
  PROVE  DescInv'
<1>1. phase' = "values" /\ attrs' = Tail(attrs)
  BY DEF Done
<1>2. ValuesRead(attrs)'
  BY <1>1, ValuesNext DEF DescInv, AfterWithdrawn
<1>3. SizeIsPlain' = SizeIsPlain
  BY DEF SizeIsPlain
<1>4. PathAhead(attrs)' <=> PathAhead(Tail(attrs))
  BY <1>1 DEF PathAhead
<1>5. SizeIsPlain => IF PathAhead(attrs)' THEN asPath' = None ELSE asPath' = pdu.path
  <2> SUFFICES ASSUME SizeIsPlain PROVE IF PathAhead(attrs)' THEN asPath' = None ELSE asPath' = pdu.path
    OBVIOUS
  <2>1. IF PathAhead(attrs) THEN asPath = None ELSE asPath = pdu.path
    BY DEF DescInv, AfterWithdrawn
  <2> QED
    BY <1>4, <2>1, PathNext
<1> QED
  BY <1>1, <1>2, <1>3, <1>5 DEF DescInv, Before

(* The values do not change while the message and the attributes do not. *)
LEMMA SameValues ==
  ASSUME UNCHANGED <<pdu, attrs, described>>, ValuesRead(attrs)
  PROVE  ValuesRead(attrs)'
<1>1. AttributesWritten' = AttributesWritten /\ AttributeCount' = AttributeCount
  BY SameMeaning
<1>2. NumberOfNext(attrs)' = NumberOfNext(attrs)
  BY <1>1 DEF NumberOfNext
<1>3. \A j, t : Gives(AttributesWritten, j, t)' <=> Gives(AttributesWritten, j, t)
  BY SameGives
<1> QED
  BY <1>1, <1>2, <1>3 DEF ValuesRead

(* A step that describes nothing. *)
LEMMA DescKept ==
  ASSUME DescInv, phase \in AfterWithdrawn, UNCHANGED <<pdu, attrs, described, asPath>>,
         phase' \in (AfterWithdrawn \ {"path"}) \cup {"refused"}, phase' = "parsed" => attrs = <<>>
  PROVE  DescInv'
<1>1. ValuesRead(attrs)'
  BY SameValues DEF DescInv, AfterWithdrawn
<1>2. SizeIsPlain' = SizeIsPlain /\ (PathAhead(attrs)' <=> PathAhead(attrs))
  BY DEF SizeIsPlain, PathAhead
<1> QED
  BY <1>1, <1>2 DEF DescInv, AfterWithdrawn, Structured, Before

(* Until the withdrawn routes have been read, nothing is described. *)
LEMMA DescBefore ==
  ASSUME DescInv, Before, UNCHANGED <<described, asPath>>, phase' \in {"refused"} \/ Before'
  PROVE  DescInv'
BY DEF DescInv, Before, Structured

LEMMA DescEndWithdrawn == BgpInv /\ PartsInv /\ UpdateLaid /\ DescInv /\ EndWithdrawn => DescInv'
<1> SUFFICES ASSUME BgpInv, PartsInv, UpdateLaid, DescInv, EndWithdrawn PROVE DescInv'
  OBVIOUS
<1> DEFINE n == AttributeCount
           W == AttributesWritten
<1>1. phase = "withdrawn" /\ phase' = "values" /\ UNCHANGED <<pdu, attrs, described, asPath>>
  BY DEF EndWithdrawn
<1>2. StructureFits /\ AttributesFit /\ LastWritten(attrs) /\ attrs \in Seq(Recorded) /\ Len(attrs) = n
  BY <1>1 DEF BgpInv, PartsInv, AttributesRead, RoutesRead, Structured
<1>3. n \in Nat /\ DOMAIN W = 1..n /\ NothingElseDescribed(W) /\ PathWritten(W)
  BY <1>2, Meaning
<1>4. NumberOfNext(attrs) = 1 /\ \A j \in 1..n : attrs[j] = W[j]
  <2>1. \A j \in 1..n : n - Len(attrs) + j = j /\ n - Len(attrs) + 1 = 1
    BY <1>2, <1>3
  <2>2. n - Len(attrs) + 1 = 1
    BY <1>2, <1>3
  <2> QED
    BY <1>2, <2>1, <2>2 DEF LastWritten, NumberOfNext
<1>5. (\A t \in Descriptions : described[t] = None) /\ asPath = None
  BY <1>1 DEF DescInv, Before
<1>6. ValuesRead(attrs)
  <2> SUFFICES ASSUME NEW t \in Descriptions, \A j \in 1..n : ~Gives(W, j, t)
               PROVE  described[t] = pdu.described[t]
    BY <1>4 DEF ValuesRead
  <2>1. pdu.described[t] = None
    BY <1>3 DEF NothingElseDescribed
  <2> QED
    BY <1>5, <2>1
<1>7. ~PathAhead(attrs) => pdu.path = None
  <2> SUFFICES ASSUME ~PathAhead(attrs) PROVE pdu.path = None
    OBVIOUS
  <2>1. \A j \in 1..n : W[j].type # AS_PATH
    BY <1>2, <1>4 DEF PathAhead
  <2> QED
    BY <1>3, <2>1 DEF PathWritten
<1>8. ValuesRead(attrs)'
  BY <1>1, <1>6, SameValues
<1>9. SizeIsPlain' = SizeIsPlain /\ (PathAhead(attrs)' <=> PathAhead(attrs))
  BY <1>1 DEF SizeIsPlain, PathAhead
<1> QED
  BY <1>1, <1>5, <1>7, <1>8, <1>9 DEF DescInv, Before

LEMMA DescDescribe == BgpInv /\ PartsInv /\ UpdateLaid /\ DescInv /\ Describe => DescInv'
<1> SUFFICES ASSUME BgpInv, PartsInv, UpdateLaid, DescInv, Describe PROVE DescInv'
  OBVIOUS
<1> DEFINE a == Head(attrs)
           k == NumberOfNext(attrs)
<1>1. /\ phase \in AfterWithdrawn /\ attrs # <<>> /\ Done /\ UNCHANGED <<pdu, asPath>>
      /\ ~OpensPart(a)
      /\ described' = IF Readable(a) THEN Described(a) ELSE described
  BY DEF Describe, Skip, results, AfterWithdrawn, Structured
<1>2. a.type # AS_PATH /\ a.type # MP_REACH_NLRI
  BY <1>1 DEF OpensPart
<1>3. \A t : Gives(AttributesWritten, k, t) <=> (a.type = t /\ Readable(a) /\ (t = NEXT_HOP => Size(a) >= 4))
  BY <1>1, <1>2, NextRead
<1>4. DOMAIN described = Descriptions
  BY DEF DescInv
<1>5. ASSUME NEW t \in Descriptions
      PROVE  IF Gives(AttributesWritten, k, t) THEN described'[t] = Given(a, t) ELSE described'[t] = described[t]
  <2>1. CASE Gives(AttributesWritten, k, t)
    <3>1. a.type = t /\ Readable(a) /\ (t = NEXT_HOP => Size(a) >= 4)
      BY <1>3, <2>1
    <3>2. described' = [described EXCEPT ![t] = Value(a)]
      BY <1>1, <3>1 DEF Described
    <3> QED
      BY <1>4, <2>1, <3>1, <3>2 DEF Given
  <2>2. CASE ~Gives(AttributesWritten, k, t)
    <3>1. ~(a.type = t /\ Readable(a) /\ (t = NEXT_HOP => Size(a) >= 4))
      BY <1>3, <2>2
    <3>2. CASE Readable(a) /\ a.type \in Descriptions /\ (a.type = NEXT_HOP => Size(a) >= 4)
      <4>1. described' = [described EXCEPT ![a.type] = Value(a)] /\ a.type # t
        BY <1>1, <3>1, <3>2 DEF Described
      <4> QED
        BY <1>4, <2>2, <4>1
    <3>3. CASE ~(Readable(a) /\ a.type \in Descriptions /\ (a.type = NEXT_HOP => Size(a) >= 4))
      BY <1>1, <2>2, <3>3 DEF Described
    <3> QED
      BY <3>2, <3>3
  <2> QED
    BY <2>1, <2>2
<1>6. DOMAIN described' = Descriptions
  BY <1>1, <1>4 DEF Described
<1> QED
  BY <1>1, <1>2, <1>5, <1>6, DescDone

(* An attribute that is skipped gives nothing. *)
LEMMA DescSkip ==
  ASSUME BgpInv, PartsInv, UpdateLaid, DescInv, phase \in AfterWithdrawn, attrs # <<>>, Skip,
         \A t \in Descriptions : ~Gives(AttributesWritten, NumberOfNext(attrs), t),
         SizeIsPlain => (Head(attrs).type = AS_PATH => asPath = pdu.path)
  PROVE  DescInv'
<1>1. Done /\ UNCHANGED <<pdu, described, asPath>>
  BY DEF Skip, results
<1>2. DOMAIN described' = Descriptions
  BY <1>1 DEF DescInv
<1> QED
  BY <1>1, <1>2, DescDone

(* An attribute with routes that does not parse gives nothing. *)
LEMMA DescSkipRoutes ==
  ASSUME BgpInv, PartsInv, UpdateLaid, DescInv, phase \in AfterWithdrawn, attrs # <<>>, Skip, IsMp(Head(attrs)),
         ~Parts!WellFormed(pdu.parts.attributes[NextPart(attrs)])
  PROVE  DescInv'
<1>1. Head(attrs).type # AS_PATH /\ Head(attrs).type \notin Descriptions
  BY NotDescribed DEF IsMp
<1>2. \A t \in Descriptions : ~Gives(AttributesWritten, NumberOfNext(attrs), t)
  BY <1>1, NextRead
<1> QED
  BY <1>1, <1>2, DescSkip

LEMMA DescOpenRoutes == BgpInv /\ PartsInv /\ UpdateLaid /\ DescInv /\ OpenRoutes => DescInv'
<1> SUFFICES ASSUME BgpInv, PartsInv, UpdateLaid, DescInv, OpenRoutes PROVE DescInv'
  OBVIOUS
<1>1. phase \in AfterWithdrawn /\ phase \in Structured \ {"attributes"} /\ attrs # <<>> /\ IsMp(Head(attrs))
  BY DEF OpenRoutes, AfterWithdrawn, Structured, IsMp
<1>2. CASE phase' = "routes" /\ UNCHANGED <<pdu, attrs, results>>
  <2>1. phase' \in (AfterWithdrawn \ {"path"}) /\ phase' # "parsed" /\ UNCHANGED <<pdu, attrs, described, asPath>>
    BY <1>2 DEF AfterWithdrawn, Structured, results
  <2> QED
    BY <1>1, <2>1, DescKept
<1>3. CASE ~Opens(Head(attrs)) /\ Skip
  <2>1. ~Parts!WellFormed(pdu.parts.attributes[NextPart(attrs)])
    BY <1>1, <1>3, PartRead
  <2> QED
    BY <1>1, <1>3, <2>1, DescSkipRoutes
<1> QED
  BY <1>2, <1>3 DEF OpenRoutes

LEMMA DescParseRoutes == BgpInv /\ PartsInv /\ UpdateLaid /\ DescInv /\ ParseRoutes => DescInv'
<1> SUFFICES ASSUME BgpInv, PartsInv, UpdateLaid, DescInv, ParseRoutes PROVE DescInv'
  OBVIOUS
<1> DEFINE a == Head(attrs)
           routes == pdu.parts.attributes[NextPart(attrs)].routes
           starts == pdu.routeCuts.attributes[NextPart(attrs)]
<1>1. /\ phase = "routes" /\ phase \in AfterWithdrawn /\ phase \in Structured \ {"attributes"}
      /\ attrs # <<>> /\ IsMp(a)
  BY DEF ParseRoutes, AfterWithdrawn, Structured, BgpInv, Located, IsMp
<1>2. CASE ReadRoute(Form(a), a.to)
  <2>1. phase' = phase /\ UNCHANGED <<pdu, attrs, described, asPath>>
    BY <1>2 DEF ReadRoute, results
  <2>2. phase' \in AfterWithdrawn \ {"path"} /\ phase' # "parsed"
    BY <1>1, <2>1
  <2> QED
    BY <1>1, <2>1, <2>2, DescKept
<1>3. CASE More(Form(a), at, a.to) /\ ~RouteFits(Form(a), at, a.to) /\ Skip
  <2>1. Opens(a) /\ Reading(found, at, routes, starts)
    BY <1>1 DEF PartsInv, RoutesRead
  <2>2. routes \in Seq(Listed) /\ RoutesLaid(routes, starts, Form(a), RoutesFrom(a), a.to)
    BY <1>1, <2>1, PartRead
  <2>3. Malformed \in Parts!Elements(routes)
    BY <1>3, <2>1, <2>2, RouteNext
  <2>4. ~Parts!WellFormed(pdu.parts.attributes[NextPart(attrs)])
    BY <2>3 DEF Parts!WellFormed
  <2> QED
    BY <1>1, <1>3, <2>4, DescSkipRoutes
<1> QED
  BY <1>2, <1>3 DEF ParseRoutes

(* When its routes have been read, an MP_REACH_NLRI gives its next hop. *)
LEMMA DescEndRoutes == BgpInv /\ PartsInv /\ UpdateLaid /\ DescInv /\ EndRoutes => DescInv'
<1> SUFFICES ASSUME BgpInv, PartsInv, UpdateLaid, DescInv, EndRoutes PROVE DescInv'
  OBVIOUS
<1> DEFINE a == Head(attrs)
           k == NumberOfNext(attrs)
           part == pdu.parts.attributes[NextPart(attrs)]
           routes == part.routes
           starts == pdu.routeCuts.attributes[NextPart(attrs)]
<1>1. /\ phase = "routes" /\ phase \in AfterWithdrawn /\ phase \in Structured \ {"attributes"}
      /\ attrs # <<>> /\ IsMp(a)
  BY DEF EndRoutes, AfterWithdrawn, Structured, BgpInv, Located, IsMp
<1>2. Opens(a) /\ Reading(found, at, routes, starts)
  BY <1>1 DEF PartsInv, RoutesRead
<1>3. routes \in Seq(Listed) /\ RoutesLaid(routes, starts, Form(a), RoutesFrom(a), a.to)
  BY <1>1, <1>2, PartRead
<1>4. Parts!WellFormed(part)
  BY <1>2, <1>3, RouteNext DEF EndRoutes, Parts!WellFormed
<1>5. a.type \notin Descriptions /\ a.type # AS_PATH /\ NEXT_HOP \in Descriptions
  BY <1>1, NotDescribed DEF IsMp
<1>6. \A t \in Descriptions :
        Gives(AttributesWritten, k, t) <=> (t = NEXT_HOP /\ a.type = MP_REACH_NLRI /\ MpNextHop(a) # <<>>)
  BY <1>1, <1>4, <1>5, NextRead
<1>7. Done /\ described' = DescribedHop(a) /\ UNCHANGED <<pdu, asPath>>
  BY DEF EndRoutes, KeepRoutes
<1>8. DOMAIN described = Descriptions
  BY DEF DescInv
<1>9. DOMAIN described' = Descriptions
  BY <1>7, <1>8 DEF DescribedHop
<1>10. ASSUME NEW t \in Descriptions
       PROVE  IF Gives(AttributesWritten, k, t) THEN described'[t] = Given(a, t) ELSE described'[t] = described[t]
  <2>1. a.type # t
    BY <1>5
  <2>2. CASE a.type = MP_REACH_NLRI /\ MpNextHop(a) # <<>>
    <3>1. described' = [described EXCEPT ![NEXT_HOP] = MpNextHop(a)]
      BY <1>7, <2>2 DEF DescribedHop
    <3>2. Gives(AttributesWritten, k, t) <=> t = NEXT_HOP
      BY <1>6, <2>2
    <3> QED
      BY <1>8, <2>1, <3>1, <3>2 DEF Given
  <2>3. CASE ~(a.type = MP_REACH_NLRI /\ MpNextHop(a) # <<>>)
    <3>1. ~Gives(AttributesWritten, k, t)
      BY <1>6, <2>3
    <3> QED
      BY <1>7, <2>3, <3>1 DEF DescribedHop
  <2> QED
    BY <2>2, <2>3
<1> QED
  BY <1>1, <1>5, <1>7, <1>9, <1>10, DescDone

-----------------------------------------------------------------------------
(* The numbers of the AS_PATH. *)

(* A step within the attributes to where a segment of the path may begin. *)
LEMMA DescMoved ==
  ASSUME DescInv, phase \in AfterWithdrawn, UNCHANGED <<pdu, attrs, described, asPath>>, phase' = "path",
         SizeIsPlain => Follows(heads', at') /\ NumbersFollow'
  PROVE  DescInv'
<1>1. ValuesRead(attrs)'
  BY SameValues DEF DescInv, AfterWithdrawn
<1>2. SizeIsPlain' = SizeIsPlain /\ (PathAhead(attrs)' <=> PathAhead(attrs))
  BY DEF SizeIsPlain, PathAhead
<1>3. SizeIsPlain => Follows(heads, at)' /\ NumbersFollow'
  BY DEF Follows
<1> QED
  BY <1>1, <1>2, <1>3 DEF DescInv, AfterWithdrawn, Structured, Before

LEMMA DescOpenPath == BgpInv /\ PartsInv /\ UpdateLaid /\ DescInv /\ OpenPath => DescInv'
<1> SUFFICES ASSUME BgpInv, PartsInv, UpdateLaid, DescInv, OpenPath PROVE DescInv'
  OBVIOUS
<1> DEFINE a == Head(attrs)
<1>1. /\ phase \in AfterWithdrawn /\ phase \in Structured /\ attrs # <<>> /\ a.type = AS_PATH /\ phase' = "path"
      /\ at' = a.from /\ numbers' = <<>> /\ heads' = <<a.from>> /\ UNCHANGED <<pdu, attrs, described, asPath>>
  BY DEF OpenPath, AfterWithdrawn, Structured, results
<1>2. pdu.cuts \in Seq(Nat)
  BY <1>1, BgpText
<1>3. SegmentsLaid(pdu, pdu.width, a) /\ (pdu.path # None => pdu.counts[1] = 0)
  BY <1>1, PathIsWritten DEF PathLaid, PathCutShort, NumbersLaid
<1>4. pdu.cuts # <<>> /\ pdu.cuts[1] = a.from
  BY <1>3 DEF SegmentsLaid
<1>5. Len(heads') = 1 /\ heads'[1] = at' /\ DOMAIN heads' = {1} /\ heads' # <<>>
  BY <1>1
<1>6. 1 <= Len(pdu.cuts)
  BY <1>2, <1>4
<1>7. Follows(heads', at')
  BY <1>1, <1>4, <1>5, <1>6 DEF Follows
<1>8. NumbersFollow'
  <2>1. numbers' \in Seq(Nat) /\ Len(numbers') = 0
    BY <1>1
  <2> QED
    BY <1>1, <1>3, <1>5, <2>1 DEF NumbersFollow
<1> QED
  BY <1>1, <1>7, <1>8, DescMoved

(* Where as many octets remain as the numbers take with two, two it is. *)
LEMMA TwoOctets ==
  ASSUME NEW n \in Nat, n # 0
  PROVE  AsSize(n, 2 * n) = 2
<1> DEFINE q == (2 * n) \div n
<1>1. n > 0
  OBVIOUS
<1>2. q \in Int /\ n * q <= 2 * n /\ 2 * n < n * q + n
  BY <1>1
<1>3. ASSUME q > 2 PROVE FALSE
  <2>1. \A x \in Int : x > 2 => n * x >= 3 * n
    BY <1>1
  <2> QED
    BY <1>1, <1>2, <1>3, <2>1
<1>4. ASSUME q < 2 PROVE FALSE
  <2>1. \A x \in Int : x < 2 => n * x <= n
    BY <1>1
  <2> QED
    BY <1>1, <1>2, <1>4, <2>1
<1>5. (2 * n) \div n = 2
  BY <1>2, <1>3, <1>4
<1> QED
  BY <1>5 DEF AsSize

(* Of a path whose sizes are plain, a segment with others after it, or with the   *)
(* end of the path, is found to be what was written.                        *)
LEMMA PlainSegment ==
  ASSUME BgpInv, phase = "path", SizeIsPlain, pdu \in Pdus, SegmentsLaid(pdu, pdu.width, Head(attrs)),
         pdu.width = 4 \/ PathLaid(pdu, pdu.width, Head(attrs)),
         Follows(heads, at), Len(heads) # Len(pdu.cuts)
  PROVE  /\ SegmentFits /\ SegmentEnd \in Nat /\ (SegmentLength = 0 \/ SegmentAsSize = pdu.width)
         /\ Len(heads) + 1 <= Len(pdu.cuts) /\ SegmentEnd = pdu.cuts[Len(heads) + 1]
<1> DEFINE a == Head(attrs)
<1>1. CASE pdu.width = 4
  BY <1>1, SegmentTaken
<1>2. CASE pdu.width # 4
  <2>1. /\ octets \in Seq(Octet) /\ pdu.cuts \in Seq(Nat) /\ Len(octets) \in Nat
        /\ a.to \in Nat /\ a.to <= Len(octets) /\ at \in Nat /\ heads \in Seq(Nat)
    BY InPath
  <2>2. pdu.width = 2 /\ Len(pdu.cuts) <= 2 /\ PathLaid(pdu, 2, a)
    BY <1>2, PdusAssumption DEF SizeIsPlain
  <2>3. Len(heads) \in Nat /\ Len(heads) >= 1 /\ Len(heads) <= Len(pdu.cuts) /\ Len(pdu.cuts) \in Nat /\ 1 \in DOMAIN heads
    BY <2>1 DEF Follows
  <2>4. Len(heads) = 1 /\ Len(pdu.cuts) = 2
    <3>1. \A x, y \in Nat : x >= 1 /\ x <= y /\ x # y /\ y <= 2 => x = 1 /\ y = 2
      OBVIOUS
    <3> QED
      BY <2>2, <2>3, <3>1, Zenon
  <2>5. pdu.cuts[1] = at
    BY <2>3, <2>4 DEF Follows
  <2>6. 1 \in 1..(Len(pdu.cuts) - 1)
    BY <2>4
  <2>7. /\ pdu.cuts[1] + 2 <= a.to
        /\ pdu.cuts[2] = pdu.cuts[1] + 2 + 2 * ReadUint8(pdu.octets, pdu.cuts[1] + 1) /\ pdu.cuts[2] = a.to
    BY <2>2, <2>4, <2>6 DEF PathLaid, SegmentsLaid
  <2>8. at + 2 <= a.to /\ a.to = at + 2 + 2 * SegmentLength
    BY <2>5, <2>7 DEF SegmentLength, octets
  <2>9. SegmentLength \in Nat
    <3>1. at + 2 <= Len(octets)
      BY <2>1, <2>8
    <3> QED
      BY <2>1, <3>1, LengthRead
  <2>10. a.to - (at + 2) = 2 * SegmentLength
    BY <2>1, <2>8, <2>9
  <2>11. SegmentLength = 0 \/ SegmentAsSize = 2
    BY <2>9, <2>10, TwoOctets DEF SegmentAsSize
  <2>12. SegmentEnd = a.to
    <3>1. CASE SegmentLength = 0
      <4>1. SegmentAsSize = 4
        BY <3>1 DEF SegmentAsSize, AsSize
      <4> QED
        BY <2>1, <2>8, <3>1, <4>1 DEF SegmentEnd
    <3>2. CASE SegmentAsSize = 2
      BY <2>1, <2>8, <2>9, <3>2 DEF SegmentEnd
    <3> QED
      BY <2>11, <3>1, <3>2
  <2> QED
    BY <2>1, <2>2, <2>4, <2>7, <2>8, <2>11, <2>12 DEF SegmentFits
<1> QED
  BY <1>1, <1>2

(* Where a path is cut short, no segment fits. *)
LEMMA CutShort ==
  ASSUME BgpInv, phase = "path", PathCutShort(pdu, 4, Head(attrs)), Follows(heads, at), Len(heads) = Len(pdu.cuts)
  PROVE  ~SegmentFits
<1> DEFINE a == Head(attrs)
<1>1. /\ octets \in Seq(Octet) /\ Len(octets) \in Nat
      /\ a.to \in Nat /\ a.to <= Len(octets) /\ at \in Nat /\ heads \in Seq(Nat)
  BY InPath
<1>2. pdu.cuts[Len(pdu.cuts)] = at
  <2>1. Len(heads) \in DOMAIN heads
    BY <1>1 DEF Follows
  <2> QED
    BY <2>1 DEF Follows
<1>3. at + 2 > a.to \/ at + 2 + 2 * SegmentLength > a.to
  BY <1>2 DEF PathCutShort, SegmentLength, octets
<1> SUFFICES ASSUME SegmentFits PROVE FALSE
  OBVIOUS
<1>4. at + 2 <= a.to /\ SegmentEnd <= a.to
  BY DEF SegmentFits
<1>5. SegmentLength \in Nat
  <2>1. at + 2 <= Len(octets)
    BY <1>1, <1>4
  <2> QED
    BY <1>1, <2>1, LengthRead
<1>6. SegmentAsSize \in {2, 4}
  BY TwoOrFour DEF SegmentAsSize
<1>7. SegmentEnd = at + 2 + 2 * SegmentLength \/ SegmentEnd = at + 2 + 4 * SegmentLength
  BY <1>1, <1>5, <1>6 DEF SegmentEnd
<1> QED
  BY <1>1, <1>3, <1>4, <1>5, <1>7

(* The numbers read from a segment are those its octets say. *)
LEMMA SegmentRead ==
  ASSUME BgpInv, phase = "path", SegmentFits, NEW size, SegmentLength = 0 \/ SegmentAsSize = size
  PROVE  /\ SegmentNumbers \in Seq(Nat) /\ Len(SegmentNumbers) = NumbersOf(at)
         /\ \A k \in 1..NumbersOf(at) : SegmentNumbers[k] = NumberAt(at, size, k)
<1> DEFINE a == Head(attrs)
           L == SegmentLength
           S == SegmentAsSize
<1>1. /\ octets \in Seq(Octet) /\ Len(octets) \in Nat
      /\ a.to \in Nat /\ a.to <= Len(octets) /\ at \in Nat
  BY InPath
<1>2. at + 2 <= a.to /\ at + 2 + L * S <= a.to
  BY DEF SegmentFits, SegmentEnd
<1>3. L \in Nat
  <2>1. at + 2 <= Len(octets)
    BY <1>1, <1>2
  <2> QED
    BY <1>1, <2>1, LengthRead
<1>4. S \in {2, 4}
  BY TwoOrFour DEF SegmentAsSize
<1>5. NumbersOf(at) = IF ReadUint8(octets, at) \in {AS_SET, AS_SEQUENCE} THEN L ELSE 0
  BY DEF NumbersOf, SegmentLength
<1>6. ASSUME NEW i \in 1..L PROVE NumberAt(at, S, i) \in Nat
  <2>1. CASE S = 4
    <3> DEFINE p == at + 2 + 4 * (i - 1)
    <3>1. p \in Nat /\ p + 4 <= Len(octets)
      BY <1>1, <1>2, <1>3, <2>1
    <3>2. ReadUint32(octets, p) \in Nat
      BY <1>1, <3>1, Read32
    <3> QED
      BY <2>1, <3>2 DEF NumberAt
  <2>2. CASE S = 2
    <3> DEFINE p == at + 2 + 2 * (i - 1)
    <3>1. p \in Nat /\ p + 2 <= Len(octets)
      BY <1>1, <1>2, <1>3, <2>2
    <3>2. ReadUint16(octets, p) \in Nat
      BY <1>1, <3>1, Read16
    <3> QED
      BY <2>2, <3>2 DEF NumberAt
  <2> QED
    BY <1>4, <2>1, <2>2
<1> HIDE DEF L, S
<1>7. CASE ReadUint8(octets, at) \in {AS_SET, AS_SEQUENCE}
  <2>1. SegmentNumbers = [i \in 1..L |-> NumberAt(at, S, i)] /\ NumbersOf(at) = L
    BY <1>5, <1>7 DEF SegmentNumbers, L, S
  <2>2. SegmentNumbers \in [1..L -> Nat]
    BY <1>6, <2>1
  <2>3. SegmentNumbers \in Seq(Nat) /\ Len(SegmentNumbers) = L
    BY <1>3, <2>2
  <2>4. \A k \in 1..L : SegmentNumbers[k] = NumberAt(at, size, k)
    <3>1. CASE L = 0
      BY <3>1
    <3>2. CASE S = size
      BY <2>1, <3>2
    <3> QED
      BY <3>1, <3>2 DEF L, S
  <2> QED
    BY <2>1, <2>3, <2>4
<1>8. CASE ReadUint8(octets, at) \notin {AS_SET, AS_SEQUENCE}
  <2>1. SegmentNumbers = <<>> /\ NumbersOf(at) = 0
    BY <1>5, <1>8 DEF SegmentNumbers
  <2> QED
    BY <2>1
<1> QED
  BY <1>7, <1>8

(* Numbers that follow those written, with the next of those written after them. *)
LEMMA NumbersOn ==
  ASSUME NEW done \in Seq(Nat), NEW more \in Seq(Nat), NEW path, NEW n \in Nat, Len(done) = n,
         \A k \in 1..n : done[k] = path[k], \A k \in 1..Len(more) : more[k] = path[n + k]
  PROVE  /\ done \o more \in Seq(Nat) /\ Len(done \o more) = n + Len(more)
         /\ \A k \in 1..Len(done \o more) : (done \o more)[k] = path[k]
<1> DEFINE all == done \o more
<1>1. /\ all \in Seq(Nat) /\ Len(all) = n + Len(more)
      /\ \A i \in 1..(n + Len(more)) : all[i] = IF i <= n THEN done[i] ELSE more[i - n]
  BY ConcatProperties
<1>2. Len(more) \in Nat
  BY LenProperties
<1> HIDE DEF all
<1>3. ASSUME NEW k \in 1..(n + Len(more)) PROVE all[k] = path[k]
  <2>1. CASE k <= n
    <3>1. k \in 1..n
      BY <1>2, <2>1
    <3> QED
      BY <1>1, <2>1, <3>1
  <2>2. CASE ~(k <= n)
    <3>1. k - n \in 1..Len(more) /\ n + (k - n) = k
      BY <1>2, <2>2
    <3>2. all[k] = more[k - n] /\ more[k - n] = path[n + (k - n)]
      BY <1>1, <2>2, <3>1
    <3> QED
      BY <3>1, <3>2
  <2> QED
    BY <2>1, <2>2
<1> QED
  BY <1>1, <1>3 DEF all

(* A segment of the path: its numbers are the next that were written, and a path  *)
(* is skipped only where it is cut short.                                   *)
LEMMA DescSegment == BgpInv /\ PartsInv /\ UpdateLaid /\ DescInv /\ ParseSegment => DescInv'
<1> SUFFICES ASSUME BgpInv, PartsInv, UpdateLaid, DescInv, ParseSegment PROVE DescInv'
  OBVIOUS
<1> DEFINE a == Head(attrs)
           n == Len(heads)
           last == Len(pdu.cuts)
<1>1. phase = "path" /\ phase \in AfterWithdrawn /\ at < a.to /\ pdu \in Pdus
  BY DEF ParseSegment, AfterWithdrawn, Structured, PartsInv
<1>2. /\ attrs # <<>> /\ a.type = AS_PATH /\ heads \in Seq(Nat) /\ pdu.cuts \in Seq(Nat)
      /\ at \in Nat /\ a.to \in Nat /\ n \in Nat /\ last \in Nat
  BY <1>1, InPath, LenProperties
<1>3. \/ PathLaid(pdu, pdu.width, a) /\ NumbersLaid
      \/ PathCutShort(pdu, 4, a) /\ pdu.width = 4 /\ pdu.path = None
  BY <1>1, <1>2, PathIsWritten
<1>4. SegmentsLaid(pdu, pdu.width, a) /\ (pdu.width = 4 \/ PathLaid(pdu, pdu.width, a))
  BY <1>3 DEF PathLaid, PathCutShort
<1>5. ASSUME SizeIsPlain PROVE Follows(heads, at) /\ NumbersFollow
  BY <1>1, <1>5 DEF DescInv
<1>6. ASSUME SizeIsPlain PROVE n \in DOMAIN heads /\ n >= 1 /\ n <= last /\ pdu.cuts[n] = at
  <2>1. n \in DOMAIN heads /\ n >= 1 /\ n <= last
    BY <1>2, <1>5, <1>6 DEF Follows
  <2> QED
    BY <1>5, <1>6, <2>1 DEF Follows
<1>7. ASSUME SizeIsPlain, PathLaid(pdu, pdu.width, a) PROVE n # last
  <2>1. pdu.cuts[last] = a.to
    BY <1>7 DEF PathLaid
  <2> QED
    BY <1>1, <1>2, <1>6, <1>7, <2>1
<1>8. CASE ~SegmentFits /\ Skip
  <2>1. ASSUME SizeIsPlain PROVE asPath = pdu.path
    <3>1. PathCutShort(pdu, 4, a) /\ pdu.path = None
      <4>1. ~PathLaid(pdu, pdu.width, a)
        BY <1>1, <1>4, <1>5, <1>7, <1>8, <2>1, PlainSegment
      <4> QED
        BY <1>3, <4>1
    <3>2. PathAhead(attrs)
      BY <1>1, <1>2, PathNext
    <3> QED
      BY <1>1, <2>1, <3>1, <3>2 DEF DescInv, AfterWithdrawn
  <2>2. \A t \in Descriptions : ~Gives(AttributesWritten, NumberOfNext(attrs), t)
    <3>1. a.type \notin Descriptions /\ a.type # MP_REACH_NLRI
      BY <1>2, NotDescribed
    <3> QED
      BY <1>1, <1>2, <3>1, NextRead
  <2> QED
    BY <1>1, <1>2, <1>8, <2>1, <2>2, DescSkip
<1>9. CASE SegmentFits /\ numbers' = numbers \o SegmentNumbers /\ at' = SegmentEnd
           /\ heads' = Append(heads, at') /\ UNCHANGED <<pdu, phase, attrs, found, results, skipped>>
  <2>1. ASSUME SizeIsPlain PROVE Follows(heads', at') /\ NumbersFollow'
    <3>1. n # last
      <4>1. PathCutShort(pdu, 4, a) => n # last
        BY <1>1, <1>5, <1>9, <2>1, CutShort
      <4> QED
        BY <1>3, <1>7, <2>1, <4>1
    <3>2. /\ SegmentEnd \in Nat /\ (SegmentLength = 0 \/ SegmentAsSize = pdu.width)
          /\ n + 1 <= last /\ SegmentEnd = pdu.cuts[n + 1]
      BY <1>1, <1>4, <1>5, <2>1, <3>1, PlainSegment
    <3>3. Follows(Append(heads, SegmentEnd), SegmentEnd)
      BY <1>2, <1>5, <2>1, <3>2, FollowsOn
    <3>4. Follows(heads', at')
      BY <1>9, <3>3
    <3>5. /\ SegmentNumbers \in Seq(Nat) /\ Len(SegmentNumbers) = NumbersOf(at)
          /\ \A k \in 1..NumbersOf(at) : SegmentNumbers[k] = NumberAt(at, pdu.width, k)
      BY <1>1, <1>9, <3>2, SegmentRead
    <3>6. numbers \in Seq(Nat) /\ Len(numbers) \in Nat
      BY <1>5, <2>1, LenProperties DEF NumbersFollow
    <3>7. numbers \o SegmentNumbers \in Seq(Nat)
      BY <3>5, <3>6, ConcatProperties
    <3>8. ASSUME pdu.path # None
          PROVE  /\ Len(numbers \o SegmentNumbers) = pdu.counts[n + 1]
                 /\ \A k \in 1..Len(numbers \o SegmentNumbers) : (numbers \o SegmentNumbers)[k] = pdu.path[k]
      <4>1. NumbersLaid
        BY <1>3, <3>8
      <4>2. n \in 1..(last - 1)
        BY <1>2, <1>6, <2>1, <3>2
      <4>3. /\ pdu.counts[n + 1] = pdu.counts[n] + NumbersOf(at)
            /\ \A k \in 1..NumbersOf(at) : pdu.path[pdu.counts[n] + k] = NumberAt(at, pdu.width, k)
        BY <1>6, <2>1, <4>1, <4>2 DEF NumbersLaid
      <4>4. Len(numbers) = pdu.counts[n] /\ \A k \in 1..Len(numbers) : numbers[k] = pdu.path[k]
        BY <1>5, <2>1, <3>8 DEF NumbersFollow
      <4>5. \A k \in 1..Len(SegmentNumbers) : SegmentNumbers[k] = pdu.path[Len(numbers) + k]
        BY <3>5, <4>3, <4>4
      <4>6. /\ Len(numbers \o SegmentNumbers) = Len(numbers) + Len(SegmentNumbers)
            /\ \A k \in 1..Len(numbers \o SegmentNumbers) : (numbers \o SegmentNumbers)[k] = pdu.path[k]
        <5> DEFINE more == SegmentNumbers
                   path == pdu.path
        <5>1. more \in Seq(Nat) /\ \A k \in 1..Len(more) : more[k] = path[Len(numbers) + k]
          BY <3>5, <4>5
        <5>2. \A k \in 1..Len(numbers) : numbers[k] = path[k]
          BY <4>4
        <5> HIDE DEF more, path
        <5>3. /\ Len(numbers \o more) = Len(numbers) + Len(more)
              /\ \A k \in 1..Len(numbers \o more) : (numbers \o more)[k] = path[k]
          BY <3>6, <5>1, <5>2, NumbersOn
        <5> QED
          BY <5>3 DEF more, path
      <4> QED
        BY <3>5, <4>3, <4>4, <4>6
    <3>9. Len(heads') = n + 1
      BY <1>2, <1>9, <3>2, AppendProperties
    <3>10. NumbersFollow'
      BY <1>9, <3>7, <3>8, <3>9 DEF NumbersFollow
    <3> QED
      BY <3>4, <3>10
  <2>2. phase' = "path" /\ UNCHANGED <<pdu, attrs, described, asPath>>
    BY <1>1, <1>9 DEF results
  <2> QED
    BY <1>1, <2>1, <2>2, DescMoved
<1> QED
  BY <1>8, <1>9 DEF ParseSegment

(* When the path has been read, all of its numbers have. *)
LEMMA DescEndPath == BgpInv /\ PartsInv /\ UpdateLaid /\ DescInv /\ EndPath => DescInv'
<1> SUFFICES ASSUME BgpInv, PartsInv, UpdateLaid, DescInv, EndPath PROVE DescInv'
  OBVIOUS
<1> DEFINE a == Head(attrs)
           n == Len(heads)
           last == Len(pdu.cuts)
<1>1. /\ phase = "path" /\ phase \in AfterWithdrawn /\ at >= a.to /\ pdu \in Pdus
      /\ Done /\ asPath' = numbers /\ UNCHANGED <<pdu, described>>
  BY DEF EndPath, AfterWithdrawn, Structured, PartsInv
<1>2. /\ attrs # <<>> /\ a.type = AS_PATH /\ heads \in Seq(Nat) /\ pdu.cuts \in Seq(Nat)
      /\ at \in Nat /\ a.to \in Nat /\ at = a.to /\ n \in Nat /\ last \in Nat
  BY <1>1, InPath, LenProperties
<1>3. \/ PathLaid(pdu, pdu.width, a) /\ NumbersLaid
      \/ PathCutShort(pdu, 4, a) /\ pdu.width = 4 /\ pdu.path = None
  BY <1>1, <1>2, PathIsWritten
<1>4. ASSUME SizeIsPlain PROVE asPath' = pdu.path
  <2>1. Follows(heads, at) /\ NumbersFollow
    BY <1>1, <1>4 DEF DescInv
  <2>2. n \in DOMAIN heads /\ n >= 1 /\ n <= last
    BY <1>2, <2>1 DEF Follows
  <2>3. pdu.cuts[n] = at
    BY <2>1, <2>2 DEF Follows
  <2>4. n = last
    <3> SUFFICES ASSUME n # last PROVE FALSE
      OBVIOUS
    <3>1. n \in 1..(last - 1)
      BY <1>2, <2>2
    <3>2. SegmentsLaid(pdu, pdu.width, a)
      BY <1>3 DEF PathLaid, PathCutShort
    <3>3. pdu.cuts[n] + 2 <= a.to
      BY <3>1, <3>2 DEF SegmentsLaid
    <3> QED
      BY <1>2, <2>3, <3>3
  <2>5. ~PathCutShort(pdu, 4, a)
    <3>1. ~(pdu.cuts[last] < a.to)
      BY <1>2, <2>3, <2>4
    <3> QED
      BY <3>1 DEF PathCutShort
  <2>6. NumbersLaid
    BY <1>3, <2>5
  <2>7. pdu.path # None /\ pdu.counts[last] = Len(pdu.path)
    BY <2>6 DEF NumbersLaid
  <2>8. pdu.path \in Seq(Nat) /\ numbers \in Seq(Nat)
    BY <1>1, <2>1, <2>7, PdusAssumption DEF NumbersFollow
  <2>9. Len(numbers) = Len(pdu.path) /\ \A k \in 1..Len(numbers) : numbers[k] = pdu.path[k]
    BY <2>1, <2>4, <2>7 DEF NumbersFollow
  <2>10. numbers = pdu.path
    BY <2>8, <2>9, SeqEqual
  <2> QED
    BY <1>1, <2>10
<1>5. \A t \in Descriptions : ~Gives(AttributesWritten, NumberOfNext(attrs), t)
  <2>1. a.type \notin Descriptions /\ a.type # MP_REACH_NLRI
    BY <1>2, NotDescribed
  <2> QED
    BY <1>1, <1>2, <2>1, NextRead
<1>6. DOMAIN described' = Descriptions
  BY <1>1 DEF DescInv
<1> QED
  BY <1>1, <1>2, <1>4, <1>5, <1>6, DescDone

-----------------------------------------------------------------------------
(* The NLRI describes nothing. *)
LEMMA DescNlri == BgpInv /\ PartsInv /\ UpdateLaid /\ DescInv /\ (OpenNlri \/ ParseNlri \/ EndNlri) => DescInv'
<1> SUFFICES ASSUME BgpInv, PartsInv, UpdateLaid, DescInv, OpenNlri \/ ParseNlri \/ EndNlri PROVE DescInv'
  OBVIOUS
<1>1. phase \in AfterWithdrawn /\ UNCHANGED <<pdu, attrs, described, asPath>>
  BY DEF OpenNlri, ParseNlri, ReadRoute, Refuse, EndNlri, AfterWithdrawn, Structured, results
<1>2. phase' \in {"nlri", "parsed", "refused"}
  BY DEF OpenNlri, ParseNlri, ReadRoute, Refuse, EndNlri
<1>3. phase' = "parsed" => attrs = <<>>
  <2> SUFFICES ASSUME phase' = "parsed" PROVE attrs = <<>>
    OBVIOUS
  <2>1. phase = "nlri"
    BY DEF OpenNlri, ParseNlri, ReadRoute, Refuse, EndNlri
  <2> QED
    BY <2>1 DEF PartsInv, RoutesRead
<1>4. phase' \in (AfterWithdrawn \ {"path"}) \cup {"refused"}
  BY <1>2 DEF AfterWithdrawn, Structured
<1> QED
  BY <1>1, <1>3, <1>4, DescKept

(* Nor does anything before the attributes. *)
LEMMA DescStructure ==
  DescInv /\ ((\E p \in Pdus : Start(p)) \/ ParseStructure \/ FindAttribute \/ EndAttributes \/ ParseWithdrawn)
    => DescInv'
<1> SUFFICES ASSUME DescInv,
                    (\E p \in Pdus : Start(p)) \/ ParseStructure \/ FindAttribute \/ EndAttributes \/ ParseWithdrawn
             PROVE  DescInv'
  OBVIOUS
<1>1. /\ phase \in {"idle", "structure", "attributes", "withdrawn"} /\ UNCHANGED <<described, asPath>>
      /\ phase' \in {"refused", "structure", "attributes", "withdrawn"}
  BY DEF Start, ParseStructure, FindAttribute, EndAttributes, ParseWithdrawn, ReadRoute, Refuse, results
<1> QED
  BY <1>1, DescBefore DEF Before

LEMMA DescInit == InitBgp => DescInv
BY DEF InitBgp, DescInv, Before, Structured

LEMMA DescStep ==
  BgpInv /\ PartsInv /\ DescInv /\ MeaningIsLaid /\ [(\E p \in Pdus : Start(p)) \/ NextBgp]_bgpVars => DescInv'
<1> SUFFICES ASSUME BgpInv, PartsInv, DescInv, MeaningIsLaid, [(\E p \in Pdus : Start(p)) \/ NextBgp]_bgpVars
             PROVE  DescInv'
  OBVIOUS
<1>1. CASE \E p \in Pdus : Start(p)
  BY <1>1, DescStructure
<1>2. CASE NextBgp
  <2>1. phase # "idle"
    BY <1>2 DEF NextBgp, ParseStructure, FindAttribute, EndAttributes, ParseWithdrawn, EndWithdrawn, Describe,
         OpenPath, ParseSegment, EndPath, OpenRoutes, ParseRoutes, EndRoutes, OpenNlri, ParseNlri, EndNlri
  <2>2. UpdateLaid
    BY <2>1 DEF MeaningIsLaid
  <2> QED
    BY <1>2, <2>2, DescStructure, DescEndWithdrawn, DescDescribe, DescOpenPath, DescSegment, DescEndPath,
       DescOpenRoutes, DescParseRoutes, DescEndRoutes, DescNlri DEF NextBgp
<1>3. CASE UNCHANGED bgpVars
  <2>1. UNCHANGED <<pdu, phase, at, attrs, numbers, asPath, described, heads>>
    BY <1>3 DEF bgpVars, results
  <2>2. ASSUME ValuesRead(attrs) PROVE ValuesRead(attrs)'
    BY <2>1, <2>2, SameValues
  <2>3. /\ SizeIsPlain' = SizeIsPlain /\ (PathAhead(attrs)' <=> PathAhead(attrs))
        /\ (Follows(heads, at)' <=> Follows(heads, at)) /\ (NumbersFollow' <=> NumbersFollow)
    BY <2>1 DEF SizeIsPlain, PathAhead, Follows, NumbersFollow
  <2> QED
    BY <2>1, <2>2, <2>3 DEF DescInv, Before
<1> QED
  BY <1>1, <1>2, <1>3

(* Once the last attribute is read, every value and the path are what was        *)
(* written.                                                                 *)
LEMMA DescRead ==
  ASSUME BgpInv, PartsInv, MeaningIsLaid, DescInv
  PROVE  DescriptionIsRead
<1> SUFFICES ASSUME phase = "parsed" PROVE /\ \A t \in Descriptions : described[t] = pdu.described[t]
                                           /\ SizeIsPlain => asPath = pdu.path
  BY DEF DescriptionIsRead, SizeIsPlain
<1>1. /\ attrs = <<>> /\ ValuesRead(attrs) /\ StructureFits /\ AttributesFit
      /\ SizeIsPlain => IF PathAhead(attrs) THEN asPath = None ELSE asPath = pdu.path
  BY DEF DescInv, Structured, BgpInv, PartsInv, AttributesRead
<1>2. AttributeCount \in Nat
  BY <1>1, Meaning DEF MeaningIsLaid
<1>3. NumberOfNext(attrs) = AttributeCount + 1
  <2>1. Len(attrs) = 0
    BY <1>1
  <2> QED
    BY <1>2, <2>1 DEF NumberOfNext
<1>4. \A j \in (AttributeCount + 1)..AttributeCount : FALSE
  BY <1>2
<1>5. \A t \in Descriptions : described[t] = pdu.described[t]
  BY <1>1, <1>3, <1>4, Zenon DEF ValuesRead
<1>6. ~PathAhead(attrs)
  BY <1>1 DEF PathAhead
<1> QED
  BY <1>1, <1>5, <1>6

(* For UPDATEs of any octets that say what their writer meant, with any number of *)
(* attributes, malformed ones among them: once parse_bgp_update returns, each   *)
(* described value is what the last attribute that gives it says, next hops of  *)
(* MP_REACH_NLRI included, and no attribute's value stands under another's name. *)
(* The AS_PATH is the writer's, number for number, when its numbers have four    *)
(* octets, wherever its segments end, or when it has one segment; and one that   *)
(* is cut short leaves none.                                                *)
THEOREM DescriptionsRead == SpecBgp /\ []LaidWhenGiven => []DescriptionIsRead
<1>1. InitBgp => PartsInv /\ DescInv
  BY PartsInit, DescInit
<1>2. BgpInv /\ PartsInv /\ DescInv /\ MeaningIsLaid /\ [(\E p \in Pdus : Start(p)) \/ NextBgp]_bgpVars
        => PartsInv' /\ DescInv'
  BY PartsStep, DescStep
<1>3. BgpInv /\ PartsInv /\ DescInv /\ MeaningIsLaid => DescriptionIsRead
  BY DescRead
<1>4. SpecBgp => []BgpInv
  BY BgpInvariant
<1> QED
  BY <1>1, <1>2, <1>3, <1>4, MeaningStays, PTL DEF SpecBgp

(* The same of the two parsers together, for every Route Monitoring message. *)
THEOREM MessageDescriptionsRead == SpecMessage /\ []LaidWhenGiven => []DescriptionIsRead
BY EachParserAlone, DescriptionsRead, PTL
=============================================================================
