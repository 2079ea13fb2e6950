--------------------------- MODULE BmpParserProofs ---------------------------
(***************************************************************************)
(* For any messages, of any length: the BMP parser never reads outside of     *)
(* the message, accepts nothing that does not have the format, and accepts   *)
(* whatever has it.                                                         *)
(***************************************************************************)
EXTENDS BmpParser, TLAPS

(* A read of octets that are there gives a number of its width. *)
LEMMA Read8 ==
  ASSUME NEW d \in Seq(Octet), NEW p \in Nat, p + 1 <= Len(d)
  PROVE  ReadUint8(d, p) \in 0..255
<1>1. p + 1 \in 1..Len(d)
  OBVIOUS
<1>2. d[p + 1] \in Octet
  BY <1>1
<1> QED
  BY <1>2 DEF ReadUint8, Octet

LEMMA Read16 ==
  ASSUME NEW d \in Seq(Octet), NEW p \in Nat, p + 2 <= Len(d)
  PROVE  ReadUint16(d, p) \in Nat
<1>1. p + 1 \in 1..Len(d) /\ p + 2 \in 1..Len(d)
  OBVIOUS
<1>2. d[p + 1] \in Octet /\ d[p + 2] \in Octet
  BY <1>1
<1>3. ASSUME NEW x \in Octet, NEW y \in Octet PROVE 256 * x + y \in Nat
  BY DEF Octet
<1> QED
  BY <1>2, <1>3 DEF ReadUint16

LEMMA Read32 ==
  ASSUME NEW d \in Seq(Octet), NEW p \in Nat, p + 4 <= Len(d)
  PROVE  ReadUint32(d, p) \in Nat
<1>1. ReadUint16(d, p) \in Nat
  BY Read16
<1>2. p + 2 \in Nat /\ (p + 2) + 2 <= Len(d)
  OBVIOUS
<1>3. ReadUint16(d, p + 2) \in Nat
  BY <1>2, Read16
<1> QED
  BY <1>1, <1>3 DEF ReadUint32

(* Where the TLVs of a message begin. *)
TlvStart(d) ==
  IF MessageType(d) \in {INITIATION, TERMINATION} THEN BmpHeaderSize
  ELSE IF MessageType(d) = STATISTICS_REPORT THEN PeerFields + 4
  ELSE ReceivedOpen(d) + OpenSize(d, ReceivedOpen(d))

PeerRead(d) == Holds(d, BmpHeaderSize, PeerHeaderSize) /\ ReadUint8(d, BmpHeaderSize) \in PeerTypes

OpensRead(d) ==
  /\ Holds(d, PeerFields, AddressesSize)
  /\ OpenFits(d, SentOpen)
  /\ OpenFits(d, ReceivedOpen(d))

(* Where the parser is at each stage, and what it has seen on the way there.  *)
Placed ==
  /\ stage \notin {"header", "refused"} => HeaderAccepted(data)
  /\ stage = "header" => pos = 0
  /\ stage = "per_peer" => pos = BmpHeaderSize
  /\ stage \in {"count", "reason", "addresses"} => pos = PeerFields
  /\ stage = "sent_open" => pos = SentOpen /\ Holds(data, PeerFields, AddressesSize)
  /\ stage = "received_open" =>
       pos = ReceivedOpen(data) /\ Holds(data, PeerFields, AddressesSize) /\ OpenFits(data, SentOpen)

Seen ==
  /\ stage = "per_peer" => MessageType(data) \in 0..3
  /\ stage \in {"count", "stats"} => MessageType(data) = STATISTICS_REPORT
  /\ stage = "reason" => MessageType(data) = PEER_DOWN_NOTIFICATION
  /\ stage \in {"addresses", "sent_open", "received_open"} => MessageType(data) = PEER_UP_NOTIFICATION
  /\ stage = "rest" =>
       \/ MessageType(data) = ROUTE_MONITORING
       \/ MessageType(data) = PEER_DOWN_NOTIFICATION /\ ReasonLaid(data)
  /\ stage = "tlvs" =>
       \/ MessageType(data) \in {INITIATION, TERMINATION}
       \/ MessageType(data) = PEER_UP_NOTIFICATION /\ OpensRead(data)
  /\ stage = "stats" => Holds(data, PeerFields, 4)
  /\ stage \notin {"header", "per_peer", "refused"} =>
       MessageType(data) \in {INITIATION, TERMINATION} \/ PeerRead(data)

(* The TLVs found lie one after the other, up to where the parser is.         *)
Marked ==
  /\ stage \in {"tlvs", "stats"} => TlvsLaid(data, marks, TlvStart(data)) /\ marks[Len(marks)] = pos
  /\ stage = "stats" => Len(marks) + todo = ReadUint32(data, PeerFields) + 1
  /\ stage \notin {"tlvs", "stats", "parsed", "refused"} => marks = <<>>

BmpInv ==
  /\ message \in Messages
  /\ BmpTypeOK /\ Placed /\ Seen /\ Marked /\ AcceptedIsLaid

-----------------------------------------------------------------------------
(* What a TLV or an OPEN that fits takes ends inside the message.             *)
LEMMA TlvInside ==
  ASSUME NEW d \in Seq(Octet), NEW p \in Nat, TlvFits(d, p)
  PROVE  TlvSize(d, p) \in Nat /\ TlvSize(d, p) >= 4 /\ p + TlvSize(d, p) <= Len(d)
<1>1. p + 2 \in Nat /\ (p + 2) + 2 <= Len(d)
  BY DEF TlvFits, Holds
<1>2. ReadUint16(d, p + 2) \in Nat
  BY <1>1, Read16
<1> QED
  BY <1>2 DEF TlvFits, TlvSize, Holds

LEMMA OpenInside ==
  ASSUME NEW d \in Seq(Octet), NEW p \in Nat, OpenFits(d, p)
  PROVE  OpenSize(d, p) \in Nat /\ p + OpenSize(d, p) <= Len(d)
<1>1. p + 16 \in Nat /\ (p + 16) + 2 <= Len(d)
  BY DEF OpenFits, Holds
<1>2. ReadUint16(d, p + 16) \in Nat
  BY <1>1, Read16
<1> QED
  BY <1>2 DEF OpenFits, OpenSize, Holds

(* A message is as long as its header says, if its header is accepted.        *)
LEMMA Framing ==
  ASSUME message \in Messages
  PROVE  /\ data \in Seq(Octet) /\ message.cuts \in Seq(Nat)
         /\ Len(data) \in Nat /\ Len(data) >= BmpHeaderSize
         /\ MessageType(data) \in 0..255
         /\ HeaderLength(data) \in Nat
         /\ HeaderAccepted(data) => HeaderLength(data) = Len(data) /\ MessageType(data) \in 0..5
<1>1. data \in Seq(Octet) /\ message.cuts \in Seq(Nat) /\ Len(data) >= BmpHeaderSize
  BY MessagesAssumption DEF data
<1>2. HeaderAccepted(data) => HeaderLength(data) = Len(data)
  BY MessagesAssumption DEF data
<1>3. Len(data) \in Nat
  BY <1>1
<1>4. 1 + 4 <= Len(data) /\ 5 + 1 <= Len(data)
  BY <1>1, <1>3 DEF BmpHeaderSize
<1>5. ReadUint8(data, 5) \in 0..255
  BY <1>1, <1>4, Read8
<1>6. ReadUint32(data, 1) \in Nat
  BY <1>1, <1>4, Read32
<1> QED
  BY <1>1, <1>2, <1>3, <1>5, <1>6 DEF HeaderLength, MessageType, HeaderAccepted, MessageTypes

-----------------------------------------------------------------------------
(* A chain of TLVs grows by the TLV at its end. *)
LEMMA TlvsGrow ==
  ASSUME NEW d, NEW start, NEW cuts \in Seq(Nat), TlvsLaid(d, cuts, start),
         TlvFits(d, cuts[Len(cuts)])
  PROVE  LET end == cuts[Len(cuts)] + TlvSize(d, cuts[Len(cuts)])
         IN TlvsLaid(d, Append(cuts, end), start) /\ Append(cuts, end)[Len(Append(cuts, end))] = end
<1> DEFINE end == cuts[Len(cuts)] + TlvSize(d, cuts[Len(cuts)])
           more == Append(cuts, end)
<1>1. Len(cuts) \in Nat /\ Len(cuts) >= 1
  BY DEF TlvsLaid
<1>2. Len(more) = Len(cuts) + 1 /\ more # <<>>
  OBVIOUS
<1>3. \A i \in 1..Len(cuts) : more[i] = cuts[i]
  OBVIOUS
<1>4. more[Len(cuts) + 1] = end
  OBVIOUS
<1>5. more[1] = start
  BY <1>1, <1>3 DEF TlvsLaid
<1>6. ASSUME NEW i \in 1..Len(cuts)
      PROVE  TlvFits(d, more[i]) /\ more[i + 1] = more[i] + TlvSize(d, more[i])
  <2>1. CASE i = Len(cuts)
    BY <2>1, <1>1, <1>3, <1>4
  <2>2. CASE i # Len(cuts)
    <3>1. i \in 1..(Len(cuts) - 1) /\ i \in 1..Len(cuts) /\ i + 1 \in 1..Len(cuts)
      BY <2>2, <1>1
    <3>2. TlvFits(d, cuts[i]) /\ cuts[i + 1] = cuts[i] + TlvSize(d, cuts[i])
      BY <3>1 DEF TlvsLaid
    <3> QED
      BY <3>1, <3>2, <1>3
  <2> QED
    BY <2>1, <2>2
<1> HIDE DEF more
<1>7. Len(more) - 1 = Len(cuts)
  BY <1>1, <1>2
<1>8. TlvsLaid(d, more, start)
  BY <1>2, <1>5, <1>6, <1>7 DEF TlvsLaid
<1>9. more[Len(more)] = end
  BY <1>1, <1>2, <1>4
<1> QED
  BY <1>8, <1>9 DEF more

(* A chain of one offset. *)
LEMMA TlvsStart ==
  ASSUME NEW d, NEW start
  PROVE  TlvsLaid(d, <<start>>, start) /\ <<start>>[Len(<<start>>)] = start
<1>1. Len(<<start>>) = 1 /\ <<start>> # <<>> /\ <<start>>[1] = start
  OBVIOUS
<1> QED
  BY <1>1 DEF TlvsLaid

(* The invariant holds at first. *)
LEMMA BmpStart == InitBmp => BmpInv
<1> SUFFICES ASSUME InitBmp PROVE BmpInv
  OBVIOUS
<1>1. message \in Messages /\ stage = "header" /\ pos = 0 /\ todo = 0 /\ marks = <<>>
  BY DEF InitBmp
<1>2. data \in Seq(Octet) /\ message.cuts \in Seq(Nat) /\ Len(data) \in Nat
  BY <1>1, Framing
<1>3. marks \in Seq(0..Len(data))
  BY <1>1
<1>4. BmpTypeOK
  BY <1>1, <1>2, <1>3 DEF BmpTypeOK
<1> QED
  BY <1>1, <1>4 DEF BmpInv, Placed, Seen, Marked, AcceptedIsLaid

(* A refused message is none of the parser's concern any more. *)
LEMMA BmpRefused ==
  ASSUME BmpInv, RefuseMessage, UNCHANGED message, todo' \in Nat
  PROVE  BmpInv'
<1>1. data' = data
  BY DEF data
<1>2. stage' = "refused" /\ pos' = pos /\ marks' = marks
  BY DEF RefuseMessage
<1> QED
  BY <1>1, <1>2 DEF BmpInv, BmpTypeOK, Placed, Seen, Marked, AcceptedIsLaid

(* Where the invariant is kept by a step that finds no TLV. *)
LEMMA BmpGoesOn ==
  ASSUME BmpInv, UNCHANGED message, marks = <<>>, marks' = marks, todo' \in Nat,
         NEW n \in Nat, pos' = pos + n, pos + n <= Len(data), HeaderAccepted(data),
         stage' \in {"per_peer", "count", "reason", "rest", "addresses", "sent_open", "received_open"},
         Placed', Seen'
  PROVE  BmpInv'
<1>1. data' = data
  BY DEF data
<1>2. Len(data) \in Nat
  BY Framing DEF BmpInv
<1>3. pos' \in 0..Len(data)
  BY <1>2 DEF BmpInv, BmpTypeOK
<1>4. BmpTypeOK'
  BY <1>1, <1>3 DEF BmpInv, BmpTypeOK
<1> QED
  BY <1>1, <1>4 DEF BmpInv, Marked, AcceptedIsLaid

(* Where it is kept by a step that comes to the first TLV. *)
LEMMA BmpFirstTlv ==
  ASSUME BmpInv, UNCHANGED message, marks = <<>>, marks' = Append(marks, pos'), todo' \in Nat,
         pos' \in 0..Len(data), pos' = TlvStart(data), HeaderAccepted(data),
         stage' \in {"tlvs", "stats"}, Seen',
         stage' = "stats" => todo' = ReadUint32(data, PeerFields)
  PROVE  BmpInv'
<1>1. data' = data
  BY DEF data
<1>2. marks' = <<pos'>> /\ Len(marks') = 1
  OBVIOUS
<1>3. TlvsLaid(data, marks', TlvStart(data)) /\ marks'[Len(marks')] = pos'
  BY <1>2, TlvsStart
<1>4. marks' \in Seq(0..Len(data))
  BY <1>2
<1>5. BmpTypeOK'
  BY <1>1, <1>4 DEF BmpInv, BmpTypeOK
<1>6. Placed'
  BY <1>1 DEF Placed
<1>7. Marked'
  <2>1. stage' = "stats" => Len(marks') + todo' = ReadUint32(data, PeerFields) + 1
    BY <1>2
  <2> QED
    BY <1>1, <1>3, <2>1 DEF Marked
<1> QED
  BY <1>1, <1>5, <1>6, <1>7 DEF BmpInv, AcceptedIsLaid

(* Where it is kept by a step over one TLV. *)
LEMMA BmpNextTlv ==
  ASSUME BmpInv, UNCHANGED message, stage \in {"tlvs", "stats"}, stage' = stage,
         TlvFits(data, pos), pos' = pos + TlvSize(data, pos), marks' = Append(marks, pos'), todo' \in Nat,
         stage = "stats" => todo' = todo - 1
  PROVE  BmpInv'
<1>1. data' = data
  BY DEF data
<1>2. data \in Seq(Octet) /\ Len(data) \in Nat /\ pos \in Nat
  BY Framing DEF BmpInv, BmpTypeOK
<1>3. pos' \in 0..Len(data)
  BY <1>2, TlvInside
<1>4. marks \in Seq(0..Len(data)) /\ marks \in Seq(Nat)
  BY <1>2 DEF BmpInv, BmpTypeOK
<1>5. marks' \in Seq(0..Len(data)) /\ Len(marks') = Len(marks) + 1
  BY <1>3, <1>4
<1>6. TlvsLaid(data, marks, TlvStart(data)) /\ marks[Len(marks)] = pos
  BY DEF BmpInv, Marked
<1>7. TlvsLaid(data, marks', TlvStart(data)) /\ marks'[Len(marks')] = pos'
  BY <1>4, <1>6, TlvsGrow
<1>8. BmpTypeOK'
  BY <1>1, <1>3, <1>5 DEF BmpInv, BmpTypeOK
<1>9. Placed' /\ Seen'
  BY <1>1 DEF BmpInv, Placed, Seen
<1>10. Marked'
  <2>1. ASSUME stage = "stats" PROVE Len(marks') + todo' = ReadUint32(data, PeerFields) + 1
    <3>1. Len(marks) + todo = ReadUint32(data, PeerFields) + 1 /\ todo \in Nat /\ Len(marks) \in Nat
      BY <2>1, <1>4 DEF BmpInv, BmpTypeOK, Marked
    <3>2. Len(marks') + todo' = Len(marks) + todo
      BY <2>1, <3>1, <1>5
    <3> QED
      BY <3>1, <3>2
  <2> QED
    BY <1>1, <1>7, <2>1 DEF Marked
<1> QED
  BY <1>1, <1>8, <1>9, <1>10 DEF BmpInv, AcceptedIsLaid

(* Where it is kept by the last step. *)
LEMMA BmpAccepted ==
  ASSUME BmpInv, UNCHANGED <<message, marks, todo>>, stage' = "parsed", pos' \in 0..Len(data),
         HeaderAccepted(data), Laid(data, marks),
         MessageType(data) \in {INITIATION, TERMINATION} \/ PeerRead(data)
  PROVE  BmpInv'
<1>1. data' = data
  BY DEF data
<1> QED
  BY <1>1 DEF BmpInv, BmpTypeOK, Placed, Seen, Marked, AcceptedIsLaid

-----------------------------------------------------------------------------
(* The steps before any TLV. *)
LEMMA HeaderStep == BmpInv /\ ParseHeader => BmpInv'
<1> SUFFICES ASSUME BmpInv, ParseHeader PROVE BmpInv'
  OBVIOUS
<1>1. stage = "header" /\ pos = 0 /\ marks = <<>> /\ todo' \in Nat /\ UNCHANGED message
  BY DEF BmpInv, BmpTypeOK, Placed, Marked, ParseHeader, Goes
<1>2. data' = data /\ Len(data) \in Nat /\ Len(data) >= BmpHeaderSize
  BY <1>1, Framing DEF BmpInv, data
<1>3. CASE RefuseMessage
  BY <1>1, <1>3, BmpRefused
<1>4. ASSUME HeaderAccepted(data), MessageType(data) \in {INITIATION, TERMINATION},
             Take(BmpHeaderSize, "tlvs")
      PROVE  BmpInv'
  <2>1. stage' = "tlvs" /\ pos' = BmpHeaderSize /\ marks' = Append(marks, pos')
    BY <1>1, <1>4 DEF Take, BmpHeaderSize
  <2>2. pos' \in 0..Len(data) /\ pos' = TlvStart(data)
    BY <1>2, <1>4, <2>1 DEF TlvStart, BmpHeaderSize
  <2>3. Seen'
    BY <1>2, <1>4, <2>1 DEF Seen
  <2> QED
    BY <1>1, <1>4, <2>1, <2>2, <2>3, BmpFirstTlv
<1>5. ASSUME HeaderAccepted(data), MessageType(data) \notin {INITIATION, TERMINATION},
             Take(BmpHeaderSize, "per_peer")
      PROVE  BmpInv'
  <2>1. stage' = "per_peer" /\ pos' = BmpHeaderSize /\ marks' = marks
    BY <1>1, <1>5 DEF Take, BmpHeaderSize
  <2>2. MessageType(data) \in 0..3
    BY <1>5, Framing DEF BmpInv, INITIATION, TERMINATION
  <2>3. Placed' /\ Seen'
    BY <1>2, <1>5, <2>1, <2>2 DEF Placed, Seen
  <2>4. pos' = pos + BmpHeaderSize /\ pos + BmpHeaderSize <= Len(data) /\ BmpHeaderSize \in Nat
    BY <1>1, <1>2, <2>1 DEF BmpHeaderSize
  <2> QED
    BY <1>1, <1>5, <2>1, <2>3, <2>4, BmpGoesOn
<1> QED
  BY <1>3, <1>4, <1>5 DEF ParseHeader, TakeIf

LEMMA PeerStep == BmpInv /\ ParsePerPeerHeader => BmpInv'
<1> SUFFICES ASSUME BmpInv, ParsePerPeerHeader PROVE BmpInv'
  OBVIOUS
<1>1. /\ stage = "per_peer" /\ pos = BmpHeaderSize /\ marks = <<>> /\ todo' \in Nat /\ UNCHANGED message
      /\ MessageType(data) \in 0..3 /\ HeaderAccepted(data)
  BY DEF BmpInv, BmpTypeOK, Placed, Seen, Marked, ParsePerPeerHeader, Goes
<1>2. data' = data
  BY <1>1 DEF data
<1>3. CASE RefuseMessage
  BY <1>1, <1>3, BmpRefused
<1>4. ASSUME Holds(data, pos, PeerHeaderSize), ReadUint8(data, pos) \in PeerTypes,
             Take(PeerHeaderSize, PeerPart)
      PROVE  BmpInv'
  <2>1. PeerRead(data)
    BY <1>1, <1>4 DEF PeerRead
  <2>2. /\ MessageType(data) = ROUTE_MONITORING => PeerPart = "rest"
        /\ MessageType(data) = STATISTICS_REPORT => PeerPart = "count"
        /\ MessageType(data) = PEER_DOWN_NOTIFICATION => PeerPart = "reason"
        /\ MessageType(data) = PEER_UP_NOTIFICATION => PeerPart = "addresses"
    BY DEF PeerPart, ROUTE_MONITORING, STATISTICS_REPORT, PEER_DOWN_NOTIFICATION, PEER_UP_NOTIFICATION
  <2>3. \/ MessageType(data) = ROUTE_MONITORING \/ MessageType(data) = STATISTICS_REPORT
        \/ MessageType(data) = PEER_DOWN_NOTIFICATION \/ MessageType(data) = PEER_UP_NOTIFICATION
    BY <1>1 DEF ROUTE_MONITORING, STATISTICS_REPORT, PEER_DOWN_NOTIFICATION, PEER_UP_NOTIFICATION
  <2>4. stage' = PeerPart /\ pos' = pos + PeerHeaderSize /\ marks' = marks
    BY <1>4, <2>2, <2>3 DEF Take
  <2>5. pos' = PeerFields /\ PeerHeaderSize \in Nat /\ pos + PeerHeaderSize <= Len(data)
    BY <1>1, <1>4, <2>4 DEF PeerFields, PeerHeaderSize, BmpHeaderSize, Holds
  <2>6. Placed'
    BY <1>1, <1>2, <2>2, <2>3, <2>4, <2>5 DEF Placed
  <2>7. Seen'
    BY <1>1, <1>2, <2>1, <2>2, <2>3, <2>4 DEF Seen
  <2> QED
    BY <1>1, <2>2, <2>3, <2>4, <2>5, <2>6, <2>7, BmpGoesOn
<1> QED
  BY <1>3, <1>4 DEF ParsePerPeerHeader, TakeIf

LEMMA ReasonStep == BmpInv /\ ParseReason => BmpInv'
<1> SUFFICES ASSUME BmpInv, ParseReason PROVE BmpInv'
  OBVIOUS
<1>1. /\ stage = "reason" /\ pos = PeerFields /\ marks = <<>> /\ todo' \in Nat /\ UNCHANGED message
      /\ MessageType(data) = PEER_DOWN_NOTIFICATION /\ HeaderAccepted(data)
      /\ MessageType(data) \in {INITIATION, TERMINATION} \/ PeerRead(data)
  BY DEF BmpInv, BmpTypeOK, Placed, Seen, Marked, ParseReason, Goes
<1>2. data' = data
  BY <1>1 DEF data
<1>3. CASE RefuseMessage
  BY <1>1, <1>3, BmpRefused
<1>4. ASSUME Holds(data, pos, 1), ReadUint8(data, pos) \in PeerDownReasons, Take(1, "rest")
      PROVE  BmpInv'
  <2>1. stage' = "rest" /\ pos' = pos + 1 /\ marks' = marks /\ pos + 1 <= Len(data)
    BY <1>4 DEF Take, Holds
  <2>2. ReasonLaid(data)
    BY <1>1, <1>4 DEF ReasonLaid
  <2>3. Placed' /\ Seen'
    BY <1>1, <1>2, <2>1, <2>2 DEF Placed, Seen
  <2> QED
    BY <1>1, <2>1, <2>3, BmpGoesOn
<1> QED
  BY <1>3, <1>4 DEF ParseReason, TakeIf

LEMMA AddressesStep == BmpInv /\ ParseAddresses => BmpInv'
<1> SUFFICES ASSUME BmpInv, ParseAddresses PROVE BmpInv'
  OBVIOUS
<1>1. /\ stage = "addresses" /\ pos = PeerFields /\ marks = <<>> /\ todo' \in Nat /\ UNCHANGED message
      /\ MessageType(data) = PEER_UP_NOTIFICATION /\ HeaderAccepted(data)
      /\ MessageType(data) \in {INITIATION, TERMINATION} \/ PeerRead(data)
  BY DEF BmpInv, BmpTypeOK, Placed, Seen, Marked, ParseAddresses, Goes
<1>2. data' = data
  BY <1>1 DEF data
<1>3. CASE RefuseMessage
  BY <1>1, <1>3, BmpRefused
<1>4. ASSUME Holds(data, pos, AddressesSize), Take(AddressesSize, "sent_open") PROVE BmpInv'
  <2>1. stage' = "sent_open" /\ pos' = pos + AddressesSize /\ marks' = marks
    BY <1>4 DEF Take
  <2>2. pos' = SentOpen /\ AddressesSize \in Nat /\ pos + AddressesSize <= Len(data)
    BY <1>1, <1>4, <2>1 DEF SentOpen, AddressesSize, Holds
  <2>3. Placed' /\ Seen'
    BY <1>1, <1>2, <1>4, <2>1, <2>2 DEF Placed, Seen
  <2> QED
    BY <1>1, <2>1, <2>2, <2>3, BmpGoesOn
<1> QED
  BY <1>3, <1>4 DEF ParseAddresses, TakeIf

LEMMA SentOpenStep == BmpInv /\ ParseOpen("sent_open", "received_open") => BmpInv'
<1> SUFFICES ASSUME BmpInv, ParseOpen("sent_open", "received_open") PROVE BmpInv'
  OBVIOUS
<1>1. /\ stage = "sent_open" /\ pos = SentOpen /\ marks = <<>> /\ todo' \in Nat /\ UNCHANGED message
      /\ MessageType(data) = PEER_UP_NOTIFICATION /\ HeaderAccepted(data)
      /\ Holds(data, PeerFields, AddressesSize)
      /\ MessageType(data) \in {INITIATION, TERMINATION} \/ PeerRead(data)
  BY DEF BmpInv, BmpTypeOK, Placed, Seen, Marked, ParseOpen, Goes
<1>2. data' = data /\ data \in Seq(Octet) /\ pos \in Nat
  BY <1>1, Framing DEF data, BmpInv, SentOpen, PeerFields, AddressesSize, BmpHeaderSize, PeerHeaderSize
<1>3. CASE RefuseMessage
  BY <1>1, <1>3, BmpRefused
<1>4. ASSUME OpenFits(data, pos), Take(OpenSize(data, pos), "received_open") PROVE BmpInv'
  <2>1. stage' = "received_open" /\ pos' = pos + OpenSize(data, pos) /\ marks' = marks
    BY <1>4 DEF Take
  <2>2. OpenSize(data, pos) \in Nat /\ pos + OpenSize(data, pos) <= Len(data)
    BY <1>2, <1>4, OpenInside
  <2>3. pos' = ReceivedOpen(data) /\ OpenFits(data, SentOpen)
    BY <1>1, <1>4, <2>1 DEF ReceivedOpen
  <2>4. Placed' /\ Seen'
    BY <1>1, <1>2, <2>1, <2>3 DEF Placed, Seen
  <2> QED
    BY <1>1, <2>1, <2>2, <2>4, BmpGoesOn
<1> QED
  BY <1>3, <1>4 DEF ParseOpen, TakeIf

(* The steps to the first TLV. *)
LEMMA ReceivedOpenStep == BmpInv /\ ParseOpen("received_open", "tlvs") => BmpInv'
<1> SUFFICES ASSUME BmpInv, ParseOpen("received_open", "tlvs") PROVE BmpInv'
  OBVIOUS
<1>1. /\ stage = "received_open" /\ pos = ReceivedOpen(data) /\ marks = <<>> /\ todo' \in Nat
      /\ UNCHANGED message /\ pos \in Nat
      /\ MessageType(data) = PEER_UP_NOTIFICATION /\ HeaderAccepted(data)
      /\ Holds(data, PeerFields, AddressesSize) /\ OpenFits(data, SentOpen)
      /\ MessageType(data) \in {INITIATION, TERMINATION} \/ PeerRead(data)
  BY DEF BmpInv, BmpTypeOK, Placed, Seen, Marked, ParseOpen, Goes
<1>2. data' = data /\ data \in Seq(Octet) /\ Len(data) \in Nat
  BY <1>1, Framing DEF data, BmpInv
<1>3. CASE RefuseMessage
  BY <1>1, <1>3, BmpRefused
<1>4. ASSUME OpenFits(data, pos), Take(OpenSize(data, pos), "tlvs") PROVE BmpInv'
  <2>1. stage' = "tlvs" /\ pos' = pos + OpenSize(data, pos) /\ marks' = Append(marks, pos')
    BY <1>4 DEF Take
  <2>2. OpenSize(data, pos) \in Nat /\ pos + OpenSize(data, pos) <= Len(data)
    BY <1>1, <1>2, <1>4, OpenInside
  <2>3. pos' \in 0..Len(data)
    BY <1>1, <1>2, <2>1, <2>2
  <2>4. pos' = TlvStart(data)
    <3>1. MessageType(data) \notin {INITIATION, TERMINATION} /\ MessageType(data) # STATISTICS_REPORT
      BY <1>1 DEF INITIATION, TERMINATION, STATISTICS_REPORT, PEER_UP_NOTIFICATION
    <3>2. pos' = ReceivedOpen(data) + OpenSize(data, ReceivedOpen(data))
      BY <1>1, <2>1
    <3> QED
      BY <3>1, <3>2 DEF TlvStart
  <2>5. OpensRead(data)
    BY <1>1, <1>4 DEF OpensRead
  <2>6. Seen'
    BY <1>1, <1>2, <2>1, <2>5 DEF Seen
  <2> QED
    BY <1>1, <2>1, <2>3, <2>4, <2>6, BmpFirstTlv
<1> QED
  BY <1>3, <1>4 DEF ParseOpen, TakeIf

LEMMA CountStep == BmpInv /\ ParseCount => BmpInv'
<1> SUFFICES ASSUME BmpInv, ParseCount PROVE BmpInv'
  OBVIOUS
<1>1. /\ stage = "count" /\ pos = PeerFields /\ marks = <<>> /\ todo \in Nat /\ UNCHANGED message
      /\ MessageType(data) = STATISTICS_REPORT /\ HeaderAccepted(data) /\ pos \in Nat
      /\ MessageType(data) \in {INITIATION, TERMINATION} \/ PeerRead(data)
  BY DEF BmpInv, BmpTypeOK, Placed, Seen, Marked, ParseCount
<1>2. data' = data /\ data \in Seq(Octet) /\ Len(data) \in Nat
  BY <1>1, Framing DEF data, BmpInv
<1>3. ASSUME ~Holds(data, pos, 4), RefuseMessage PROVE BmpInv'
  BY <1>1, <1>3, BmpRefused DEF ParseCount
<1>4. ASSUME Holds(data, pos, 4), Take(4, "stats") PROVE BmpInv'
  <2>1. stage' = "stats" /\ pos' = pos + 4 /\ marks' = Append(marks, pos')
    BY <1>4 DEF Take
  <2>2. pos + 4 <= Len(data)
    BY <1>4 DEF Holds
  <2>3. todo' = ReadUint32(data, PeerFields) /\ todo' \in Nat
    BY <1>1, <1>2, <1>4, <2>2, Read32 DEF ParseCount
  <2>4. pos' \in 0..Len(data)
    BY <1>1, <1>2, <2>1, <2>2
  <2>5. pos' = TlvStart(data)
    BY <1>1, <2>1 DEF TlvStart, INITIATION, TERMINATION, STATISTICS_REPORT
  <2>6. Seen'
    <3>1. Holds(data, PeerFields, 4)
      BY <1>1, <1>4
    <3> QED
      BY <1>1, <1>2, <2>1, <3>1 DEF Seen
  <2> QED
    BY <1>1, <2>1, <2>3, <2>4, <2>5, <2>6, BmpFirstTlv
<1> QED
  BY <1>3, <1>4 DEF ParseCount, TakeIf

(* The steps over the TLVs, and the last ones. *)
LEMMA TlvStep == BmpInv /\ ParseTlv => BmpInv'
<1> SUFFICES ASSUME BmpInv, ParseTlv PROVE BmpInv'
  OBVIOUS
<1>1. stage = "tlvs" /\ todo' \in Nat /\ UNCHANGED message
  BY DEF BmpInv, BmpTypeOK, ParseTlv, Goes
<1>2. CASE RefuseMessage
  BY <1>1, <1>2, BmpRefused
<1>3. ASSUME TlvFits(data, pos), Take(TlvSize(data, pos), "tlvs") PROVE BmpInv'
  <2>1. stage' = "tlvs" /\ pos' = pos + TlvSize(data, pos) /\ marks' = Append(marks, pos')
    BY <1>3 DEF Take
  <2> QED
    BY <1>1, <1>3, <2>1, BmpNextTlv
<1> QED
  BY <1>2, <1>3 DEF ParseTlv, TakeIf

LEMMA StatStep == BmpInv /\ ParseStat => BmpInv'
<1> SUFFICES ASSUME BmpInv, ParseStat PROVE BmpInv'
  OBVIOUS
<1>1. stage = "stats" /\ todo' = todo - 1 /\ todo' \in Nat /\ UNCHANGED message
  BY DEF BmpInv, BmpTypeOK, ParseStat
<1>2. CASE RefuseMessage
  BY <1>1, <1>2, BmpRefused
<1>3. ASSUME TlvFits(data, pos), Take(TlvSize(data, pos), "stats") PROVE BmpInv'
  <2>1. stage' = "stats" /\ pos' = pos + TlvSize(data, pos) /\ marks' = Append(marks, pos')
    BY <1>3 DEF Take
  <2> QED
    BY <1>1, <1>3, <2>1, BmpNextTlv
<1> QED
  BY <1>2, <1>3 DEF ParseStat, TakeIf

LEMMA EndTlvsStep == BmpInv /\ EndTlvs => BmpInv'
<1> SUFFICES ASSUME BmpInv, EndTlvs PROVE BmpInv'
  OBVIOUS
<1>1. /\ stage = "tlvs" /\ stage' = "parsed" /\ pos' = pos + 0 /\ UNCHANGED <<message, marks, todo>>
      /\ pos >= HeaderLength(data)
  BY DEF EndTlvs, Take, Goes
<1>2. Len(data) \in Nat /\ HeaderLength(data) = Len(data) /\ HeaderAccepted(data) /\ pos \in 0..Len(data)
  BY <1>1, Framing DEF BmpInv, BmpTypeOK, Placed
<1>3. pos = Len(data) /\ pos' = pos
  BY <1>1, <1>2
<1>4. InformationLaid(data, marks, TlvStart(data))
  BY <1>1, <1>3 DEF BmpInv, Marked, InformationLaid
<1>5. CASE MessageType(data) \in {INITIATION, TERMINATION}
  BY <1>1, <1>2, <1>3, <1>4, <1>5, BmpAccepted DEF Laid, TlvStart
<1>6. CASE MessageType(data) \notin {INITIATION, TERMINATION}
  <2>1. MessageType(data) = PEER_UP_NOTIFICATION /\ OpensRead(data) /\ PeerRead(data)
    BY <1>1, <1>6 DEF BmpInv, Seen
  <2>2. TlvStart(data) = ReceivedOpen(data) + OpenSize(data, ReceivedOpen(data))
    BY <1>6, <2>1 DEF TlvStart, STATISTICS_REPORT, PEER_UP_NOTIFICATION
  <2>3. PeerUpLaid(data, marks)
    BY <1>4, <2>1, <2>2 DEF PeerUpLaid, OpensRead
  <2>4. Laid(data, marks)
    BY <1>2, <1>6, <2>1, <2>3 DEF Laid, PerPeerLaid, PeerRead, STATISTICS_REPORT, PEER_DOWN_NOTIFICATION,
                                  PEER_UP_NOTIFICATION
  <2> QED
    BY <1>1, <1>2, <1>3, <2>1, <2>4, BmpAccepted
<1> QED
  BY <1>5, <1>6

LEMMA EndStatsStep == BmpInv /\ EndStats => BmpInv'
<1> SUFFICES ASSUME BmpInv, EndStats PROVE BmpInv'
  OBVIOUS
<1>1. /\ stage = "stats" /\ todo = 0 /\ stage' = "parsed" /\ pos' = pos + 0
      /\ UNCHANGED <<message, marks, todo>>
  BY DEF EndStats, Take, Goes
<1>2. /\ Len(data) \in Nat /\ HeaderAccepted(data) /\ pos \in 0..Len(data)
      /\ MessageType(data) = STATISTICS_REPORT /\ Holds(data, PeerFields, 4)
  BY <1>1, Framing DEF BmpInv, BmpTypeOK, Placed, Seen
<1>3. pos' \in 0..Len(data)
  BY <1>1, <1>2
<1>4. MessageType(data) \notin {INITIATION, TERMINATION}
  BY <1>2 DEF INITIATION, TERMINATION, STATISTICS_REPORT
<1>5. PeerRead(data)
  BY <1>1, <1>4 DEF BmpInv, Seen
<1>6. TlvsLaid(data, marks, PeerFields + 4)
  BY <1>1, <1>2, <1>4 DEF BmpInv, Marked, TlvStart
<1>7. Len(marks) = ReadUint32(data, PeerFields) + 1
  <2>1. Len(marks) + todo = ReadUint32(data, PeerFields) + 1 /\ Len(marks) \in Nat
    BY <1>1 DEF BmpInv, BmpTypeOK, Marked
  <2> QED
    BY <1>1, <2>1
<1>8. Laid(data, marks)
  BY <1>2, <1>4, <1>5, <1>6, <1>7 DEF Laid, PerPeerLaid, PeerRead, StatisticsLaid, STATISTICS_REPORT,
                                      PEER_DOWN_NOTIFICATION, PEER_UP_NOTIFICATION
<1> QED
  BY <1>1, <1>2, <1>3, <1>5, <1>8, BmpAccepted

LEMMA RestStep == BmpInv /\ ParseRest => BmpInv'
<1> SUFFICES ASSUME BmpInv, ParseRest PROVE BmpInv'
  OBVIOUS
<1>1. /\ stage = "rest" /\ stage' = "parsed" /\ pos' = pos + (HeaderLength(data) - pos)
      /\ UNCHANGED <<message, marks, todo>>
  BY DEF ParseRest, Take, Goes
<1>2. Len(data) \in Nat /\ HeaderAccepted(data) /\ HeaderLength(data) = Len(data) /\ pos \in 0..Len(data)
  BY <1>1, Framing DEF BmpInv, BmpTypeOK, Placed
<1>3. pos' \in 0..Len(data)
  BY <1>1, <1>2
<1>4. \/ MessageType(data) = ROUTE_MONITORING
      \/ MessageType(data) = PEER_DOWN_NOTIFICATION /\ ReasonLaid(data)
  BY <1>1 DEF BmpInv, Seen
<1>5. MessageType(data) \notin {INITIATION, TERMINATION}
  BY <1>4 DEF INITIATION, TERMINATION, ROUTE_MONITORING, PEER_DOWN_NOTIFICATION
<1>6. PeerRead(data)
  BY <1>1, <1>5 DEF BmpInv, Seen
<1>7. Laid(data, marks)
  BY <1>2, <1>4, <1>5, <1>6 DEF Laid, PerPeerLaid, PeerRead, ROUTE_MONITORING, STATISTICS_REPORT,
                                PEER_DOWN_NOTIFICATION, PEER_UP_NOTIFICATION
<1> QED
  BY <1>1, <1>2, <1>3, <1>6, <1>7, BmpAccepted

LEMMA BmpStep == BmpInv /\ [NextBmp]_bmpVars => BmpInv'
<1>1. BmpInv /\ UNCHANGED bmpVars => BmpInv'
  BY DEF bmpVars, data, BmpInv, BmpTypeOK, Placed, Seen, Marked, AcceptedIsLaid
<1> QED
  BY <1>1, HeaderStep, PeerStep, TlvStep, EndTlvsStep, CountStep, StatStep, EndStatsStep, ReasonStep,
     RestStep, AddressesStep, SentOpenStep, ReceivedOpenStep DEF NextBmp

(* The inductive invariant: where the parser is, what it has seen, and where    *)
(* the TLVs it has found lie.                                               *)
THEOREM BmpInvariant == SpecBmp => []BmpInv
<1> QED
  BY BmpStart, BmpStep, PTL DEF SpecBmp

(* For any message, the parser's offset and the TLVs it finds stay inside it.   *)
THEOREM BmpTypeCorrect == SpecBmp => []BmpTypeOK
<1>1. BmpInv => BmpTypeOK
  BY DEF BmpInv
<1> QED
  BY <1>1, BmpInvariant, PTL

(* For any message, what the parser accepts has the format: no TLV or OPEN of   *)
(* an accepted message is cut, and information TLVs fill it.                  *)
THEOREM OnlyLaidAccepted == SpecBmp => []AcceptedIsLaid
<1>1. BmpInv => AcceptedIsLaid
  BY DEF BmpInv
<1> QED
  BY <1>1, BmpInvariant, PTL

-----------------------------------------------------------------------------
(* The other direction: a message that has the format is not refused.         *)
cuts == message.cuts
Written == Laid(data, cuts)
Next1 == Len(marks) + 1

(* A step that finds no TLV. *)
LEMMA LaidKept ==
  ASSUME LaidIsAccepted, UNCHANGED <<message, marks>>, Written => stage' # "refused"
  PROVE  LaidIsAccepted'
<1>1. data' = data
  BY DEF data
<1> QED
  BY <1>1 DEF LaidIsAccepted, Written, cuts

(* A step that finds one, where the writer put one. *)
LEMMA LaidGrows ==
  ASSUME LaidIsAccepted, BmpInv, UNCHANGED message, NEW m,
         Written => /\ stage' # "refused" /\ marks' = Append(marks, m)
                    /\ Next1 <= Len(cuts) /\ cuts[Next1] = m
  PROVE  LaidIsAccepted'
<1> SUFFICES ASSUME Written
             PROVE  /\ stage' # "refused" /\ Len(marks') <= Len(cuts)
                    /\ \A i \in DOMAIN marks' : marks'[i] = cuts[i]
  BY DEF LaidIsAccepted, Written, cuts, data
<1>1. marks \in Seq(0..Len(data)) /\ Len(marks) \in Nat
  BY DEF BmpInv, BmpTypeOK
<1>2. \A i \in DOMAIN marks : marks[i] = cuts[i]
  BY DEF LaidIsAccepted, Written, cuts
<1>3. marks' = Append(marks, m) /\ Next1 <= Len(cuts) /\ cuts[Next1] = m /\ stage' # "refused"
  OBVIOUS
<1>4. Len(marks') = Next1 /\ DOMAIN marks' = 1..Next1 /\ marks'[Next1] = m
  BY <1>1, <1>3 DEF Next1
<1>5. ASSUME NEW i \in DOMAIN marks' PROVE marks'[i] = cuts[i]
  <2>1. CASE i = Next1
    BY <2>1, <1>3, <1>4
  <2>2. CASE i # Next1
    <3>1. i \in 1..Len(marks)
      BY <2>2, <1>1, <1>4 DEF Next1
    <3>2. i \in DOMAIN marks /\ marks'[i] = marks[i]
      BY <3>1, <1>1, <1>3
    <3> QED
      BY <3>2, <1>2
  <2> QED
    BY <2>1, <2>2
<1> QED
  BY <1>3, <1>4, <1>5

(* Before the last cut, what comes next is a TLV that ends at the next cut.    *)
LEMMA NextCut ==
  ASSUME LaidIsAccepted, BmpInv, Written, NEW start, TlvsLaid(data, cuts, start),
         stage \in {"tlvs", "stats"}, Len(marks) < Len(cuts)
  PROVE  TlvFits(data, pos) /\ Next1 <= Len(cuts) /\ cuts[Next1] = pos + TlvSize(data, pos)
<1>1. marks \in Seq(0..Len(data)) /\ Len(marks) \in Nat /\ cuts \in Seq(Nat) /\ Len(cuts) \in Nat
  BY Framing DEF BmpInv, BmpTypeOK, cuts
<1>2. marks # <<>> /\ marks[Len(marks)] = pos
  BY DEF BmpInv, Marked, TlvsLaid
<1>3. Len(marks) \in DOMAIN marks /\ Len(marks) \in 1..(Len(cuts) - 1)
  BY <1>1, <1>2
<1>4. cuts[Len(marks)] = pos
  BY <1>2, <1>3 DEF LaidIsAccepted, Written, cuts
<1>5. /\ TlvFits(data, cuts[Len(marks)])
      /\ cuts[Len(marks) + 1] = cuts[Len(marks)] + TlvSize(data, cuts[Len(marks)])
  BY <1>3 DEF TlvsLaid
<1> QED
  BY <1>1, <1>3, <1>4, <1>5 DEF Next1

(* The first cut is where the TLVs begin. *)
LEMMA FirstCut ==
  ASSUME BmpInv, marks = <<>>, NEW start, TlvsLaid(data, cuts, start)
  PROVE  Next1 <= Len(cuts) /\ cuts[Next1] = start
<1>1. cuts \in Seq(Nat) /\ Len(cuts) \in Nat /\ cuts # <<>> /\ cuts[1] = start
  BY Framing DEF BmpInv, cuts, TlvsLaid
<1> QED
  BY <1>1 DEF Next1

(* One lemma per step that could refuse. *)
LEMMA HeaderLaid == BmpInv /\ LaidIsAccepted /\ ParseHeader => LaidIsAccepted'
<1> SUFFICES ASSUME BmpInv, LaidIsAccepted, ParseHeader PROVE LaidIsAccepted'
  OBVIOUS
<1>1. pos = 0 /\ marks = <<>> /\ UNCHANGED message
  BY DEF BmpInv, Placed, Marked, ParseHeader, Goes
<1>2. Written => HeaderAccepted(data) /\ Len(data) >= HeaderLength(data)
  BY Framing DEF BmpInv, Written, Laid
<1>3. CASE MessageType(data) \in {INITIATION, TERMINATION}
  <2>1. ASSUME Written
        PROVE  /\ stage' # "refused" /\ marks' = Append(marks, BmpHeaderSize)
               /\ Next1 <= Len(cuts) /\ cuts[Next1] = BmpHeaderSize
    <3>1. Take(BmpHeaderSize, "tlvs")
      BY <1>2, <1>3, <2>1 DEF ParseHeader, TakeIf
    <3>2. TlvsLaid(data, cuts, BmpHeaderSize)
      BY <1>3, <2>1 DEF Written, Laid, InformationLaid
    <3> QED
      BY <1>1, <3>1, <3>2, FirstCut DEF Take, BmpHeaderSize
  <2> QED
    BY <1>1, <2>1, LaidGrows
<1>4. CASE MessageType(data) \notin {INITIATION, TERMINATION}
  <2>1. Written => stage' # "refused"
    BY <1>2, <1>4 DEF ParseHeader, TakeIf, Take
  <2>2. marks' = marks
    BY <1>4 DEF ParseHeader, TakeIf, Take, RefuseMessage
  <2> QED
    BY <1>1, <2>1, <2>2, LaidKept
<1> QED
  BY <1>3, <1>4

LEMMA PeerLaid == BmpInv /\ LaidIsAccepted /\ ParsePerPeerHeader => LaidIsAccepted'
<1> SUFFICES ASSUME BmpInv, LaidIsAccepted, ParsePerPeerHeader PROVE LaidIsAccepted'
  OBVIOUS
<1>1. /\ stage = "per_peer" /\ pos = BmpHeaderSize /\ UNCHANGED message
      /\ MessageType(data) \in 0..3
  BY DEF BmpInv, Placed, Seen, ParsePerPeerHeader, Goes
<1>2. PeerPart \in {"rest", "count", "reason", "addresses"}
  BY DEF PeerPart
<1>3. marks' = marks
  BY <1>2 DEF ParsePerPeerHeader, TakeIf, Take, RefuseMessage
<1>4. ASSUME Written PROVE stage' # "refused"
  <2>1. PerPeerLaid(data, cuts)
    BY <1>1, <1>4 DEF Written, Laid, INITIATION, TERMINATION
  <2>2. Holds(data, pos, PeerHeaderSize) /\ ReadUint8(data, pos) \in PeerTypes
    BY <1>1, <2>1 DEF PerPeerLaid
  <2> QED
    BY <1>2, <2>2 DEF ParsePerPeerHeader, TakeIf, Take
<1> QED
  BY <1>1, <1>3, <1>4, LaidKept

LEMMA ReasonLaidStep == BmpInv /\ LaidIsAccepted /\ ParseReason => LaidIsAccepted'
<1> SUFFICES ASSUME BmpInv, LaidIsAccepted, ParseReason PROVE LaidIsAccepted'
  OBVIOUS
<1>1. /\ stage = "reason" /\ pos = PeerFields /\ UNCHANGED message
      /\ MessageType(data) = PEER_DOWN_NOTIFICATION
  BY DEF BmpInv, Placed, Seen, ParseReason, Goes
<1>2. marks' = marks
  BY DEF ParseReason, TakeIf, Take, RefuseMessage
<1>3. ASSUME Written PROVE stage' # "refused"
  <2>1. ReasonLaid(data)
    BY <1>1, <1>3 DEF Written, Laid, PerPeerLaid, INITIATION, TERMINATION, PEER_DOWN_NOTIFICATION
  <2> QED
    BY <1>1, <2>1 DEF ReasonLaid, ParseReason, TakeIf, Take
<1> QED
  BY <1>1, <1>2, <1>3, LaidKept

LEMMA PeerUpLaidAt ==
  ASSUME Written, MessageType(data) = PEER_UP_NOTIFICATION
  PROVE  PeerUpLaid(data, cuts)
<1>1. MessageType(data) \notin {INITIATION, TERMINATION}
  BY DEF INITIATION, TERMINATION, PEER_UP_NOTIFICATION
<1> QED
  BY <1>1 DEF Written, Laid, PerPeerLaid

LEMMA AddressesLaid == BmpInv /\ LaidIsAccepted /\ ParseAddresses => LaidIsAccepted'
<1> SUFFICES ASSUME BmpInv, LaidIsAccepted, ParseAddresses PROVE LaidIsAccepted'
  OBVIOUS
<1>1. /\ stage = "addresses" /\ pos = PeerFields /\ UNCHANGED message
      /\ MessageType(data) = PEER_UP_NOTIFICATION
  BY DEF BmpInv, Placed, Seen, ParseAddresses, Goes
<1>2. marks' = marks
  BY DEF ParseAddresses, TakeIf, Take, RefuseMessage
<1>3. Written => stage' # "refused"
  BY <1>1, PeerUpLaidAt DEF PeerUpLaid, ParseAddresses, TakeIf, Take
<1> QED
  BY <1>1, <1>2, <1>3, LaidKept

LEMMA SentOpenLaid == BmpInv /\ LaidIsAccepted /\ ParseOpen("sent_open", "received_open") => LaidIsAccepted'
<1> SUFFICES ASSUME BmpInv, LaidIsAccepted, ParseOpen("sent_open", "received_open") PROVE LaidIsAccepted'
  OBVIOUS
<1>1. /\ stage = "sent_open" /\ pos = SentOpen /\ UNCHANGED message
      /\ MessageType(data) = PEER_UP_NOTIFICATION
  BY DEF BmpInv, Placed, Seen, ParseOpen, Goes
<1>2. marks' = marks
  BY DEF ParseOpen, TakeIf, Take, RefuseMessage
<1>3. Written => stage' # "refused"
  BY <1>1, PeerUpLaidAt DEF PeerUpLaid, ParseOpen, TakeIf, Take
<1> QED
  BY <1>1, <1>2, <1>3, LaidKept

LEMMA ReceivedOpenLaid == BmpInv /\ LaidIsAccepted /\ ParseOpen("received_open", "tlvs") => LaidIsAccepted'
<1> SUFFICES ASSUME BmpInv, LaidIsAccepted, ParseOpen("received_open", "tlvs") PROVE LaidIsAccepted'
  OBVIOUS
<1>1. /\ stage = "received_open" /\ pos = ReceivedOpen(data) /\ UNCHANGED message /\ marks = <<>>
      /\ MessageType(data) = PEER_UP_NOTIFICATION
  BY DEF BmpInv, Placed, Seen, Marked, ParseOpen, Goes
<1> DEFINE end == ReceivedOpen(data) + OpenSize(data, ReceivedOpen(data))
<1>2. ASSUME Written
      PROVE  /\ stage' # "refused" /\ marks' = Append(marks, end)
             /\ Next1 <= Len(cuts) /\ cuts[Next1] = end
  <2>1. PeerUpLaid(data, cuts)
    BY <1>1, <1>2, PeerUpLaidAt
  <2>2. OpenFits(data, pos) /\ TlvsLaid(data, cuts, end)
    BY <1>1, <2>1 DEF PeerUpLaid, InformationLaid
  <2>3. Take(OpenSize(data, pos), "tlvs")
    BY <2>2 DEF ParseOpen, TakeIf
  <2> QED
    BY <1>1, <2>2, <2>3, FirstCut DEF Take
<1> QED
  BY <1>1, <1>2, LaidGrows

LEMMA StatisticsLaidAt ==
  ASSUME Written, MessageType(data) = STATISTICS_REPORT
  PROVE  StatisticsLaid(data, cuts)
<1>1. MessageType(data) \notin {INITIATION, TERMINATION}
  BY DEF INITIATION, TERMINATION, STATISTICS_REPORT
<1> QED
  BY <1>1 DEF Written, Laid, PerPeerLaid

LEMMA CountLaid == BmpInv /\ LaidIsAccepted /\ ParseCount => LaidIsAccepted'
<1> SUFFICES ASSUME BmpInv, LaidIsAccepted, ParseCount PROVE LaidIsAccepted'
  OBVIOUS
<1>1. /\ stage = "count" /\ pos = PeerFields /\ UNCHANGED message /\ marks = <<>>
      /\ MessageType(data) = STATISTICS_REPORT
  BY DEF BmpInv, Placed, Seen, Marked, ParseCount
<1>2. ASSUME Written
      PROVE  /\ stage' # "refused" /\ marks' = Append(marks, PeerFields + 4)
             /\ Next1 <= Len(cuts) /\ cuts[Next1] = PeerFields + 4
  <2>1. Holds(data, pos, 4) /\ TlvsLaid(data, cuts, PeerFields + 4)
    BY <1>1, <1>2, StatisticsLaidAt DEF StatisticsLaid
  <2>2. Take(4, "stats")
    BY <2>1 DEF ParseCount, TakeIf
  <2> QED
    BY <1>1, <2>1, <2>2, FirstCut DEF Take
<1> QED
  BY <1>1, <1>2, LaidGrows

LEMMA TlvLaid == BmpInv /\ LaidIsAccepted /\ ParseTlv => LaidIsAccepted'
<1> SUFFICES ASSUME BmpInv, LaidIsAccepted, ParseTlv PROVE LaidIsAccepted'
  OBVIOUS
<1>1. stage = "tlvs" /\ pos < HeaderLength(data) /\ UNCHANGED message /\ HeaderAccepted(data)
  BY DEF BmpInv, Placed, ParseTlv, Goes
<1>2. pos \in Nat /\ pos < Len(data) /\ Len(data) \in Nat
  BY <1>1, Framing DEF BmpInv, BmpTypeOK
<1> DEFINE end == pos + TlvSize(data, pos)
<1>3. ASSUME Written
      PROVE  /\ stage' # "refused" /\ marks' = Append(marks, end)
             /\ Next1 <= Len(cuts) /\ cuts[Next1] = end
  <2>1. PICK start : InformationLaid(data, cuts, start)
    <3>1. CASE MessageType(data) \in {INITIATION, TERMINATION}
      BY <1>3, <3>1 DEF Written, Laid
    <3>2. CASE MessageType(data) = PEER_UP_NOTIFICATION
      BY <1>3, <3>2, PeerUpLaidAt DEF PeerUpLaid
    <3> QED
      BY <1>1, <3>1, <3>2 DEF BmpInv, Seen
  <2>2. TlvsLaid(data, cuts, start) /\ cuts[Len(cuts)] = Len(data)
    BY <2>1 DEF InformationLaid
  <2>3. Len(marks) < Len(cuts)
    <3>1. Len(marks) <= Len(cuts) /\ Len(marks) \in Nat /\ Len(cuts) \in Nat
      BY <1>3, Framing DEF LaidIsAccepted, Written, cuts, BmpInv, BmpTypeOK
    <3>2. marks # <<>> /\ marks[Len(marks)] = pos /\ marks \in Seq(0..Len(data))
      BY <1>1 DEF BmpInv, BmpTypeOK, Marked, TlvsLaid
    <3>3. Len(marks) \in DOMAIN marks
      BY <3>2
    <3>4. cuts[Len(marks)] = pos
      BY <1>3, <3>2, <3>3 DEF LaidIsAccepted, Written, cuts
    <3>5. Len(marks) # Len(cuts)
      BY <1>2, <2>2, <3>4
    <3> QED
      BY <3>1, <3>5
  <2>4. TlvFits(data, pos) /\ Next1 <= Len(cuts) /\ cuts[Next1] = end
    BY <1>1, <1>3, <2>2, <2>3, NextCut
  <2>5. Take(TlvSize(data, pos), "tlvs")
    BY <2>4 DEF ParseTlv, TakeIf
  <2> QED
    BY <2>4, <2>5 DEF Take
<1> QED
  BY <1>1, <1>3, LaidGrows

LEMMA StatLaid == BmpInv /\ LaidIsAccepted /\ ParseStat => LaidIsAccepted'
<1> SUFFICES ASSUME BmpInv, LaidIsAccepted, ParseStat PROVE LaidIsAccepted'
  OBVIOUS
<1>1. stage = "stats" /\ todo > 0 /\ UNCHANGED message /\ MessageType(data) = STATISTICS_REPORT
  BY DEF BmpInv, Seen, ParseStat
<1> DEFINE end == pos + TlvSize(data, pos)
<1>2. ASSUME Written
      PROVE  /\ stage' # "refused" /\ marks' = Append(marks, end)
             /\ Next1 <= Len(cuts) /\ cuts[Next1] = end
  <2>1. TlvsLaid(data, cuts, PeerFields + 4) /\ Len(cuts) = ReadUint32(data, PeerFields) + 1
    BY <1>1, <1>2, StatisticsLaidAt DEF StatisticsLaid
  <2>2. Len(marks) + todo = ReadUint32(data, PeerFields) + 1 /\ todo \in Nat /\ Len(marks) \in Nat
    BY <1>1 DEF BmpInv, BmpTypeOK, Marked
  <2>3. Len(marks) < Len(cuts)
    BY <1>1, <2>1, <2>2
  <2>4. TlvFits(data, pos) /\ Next1 <= Len(cuts) /\ cuts[Next1] = end
    BY <1>1, <1>2, <2>1, <2>3, NextCut
  <2>5. Take(TlvSize(data, pos), "stats")
    BY <2>4 DEF ParseStat, TakeIf
  <2> QED
    BY <2>4, <2>5 DEF Take
<1> QED
  BY <1>1, <1>2, LaidGrows

(* The other steps refuse nothing and find no TLV. *)
LEMMA EndLaid == BmpInv /\ LaidIsAccepted /\ (EndTlvs \/ EndStats \/ ParseRest) => LaidIsAccepted'
<1> SUFFICES ASSUME BmpInv, LaidIsAccepted, EndTlvs \/ EndStats \/ ParseRest PROVE LaidIsAccepted'
  OBVIOUS
<1>1. stage' = "parsed" /\ UNCHANGED <<message, marks>>
  BY DEF EndTlvs, EndStats, ParseRest, Take, Goes
<1> QED
  BY <1>1, LaidKept

(* For any message: one that has the format is never refused, and its TLVs are   *)
(* found where its writer put them.                                         *)
THEOREM LaidNeverRefused == SpecBmp => []LaidIsAccepted
<1>1. InitBmp => LaidIsAccepted
  <2> SUFFICES ASSUME InitBmp PROVE LaidIsAccepted
    OBVIOUS
  <2>1. message \in Messages /\ stage = "header" /\ marks = <<>>
    BY DEF InitBmp
  <2>2. message.cuts \in Seq(Nat) /\ Len(marks) = 0
    BY <2>1, Framing
  <2>3. Len(message.cuts) \in Nat /\ DOMAIN marks = {}
    BY <2>1, <2>2
  <2> QED
    BY <2>1, <2>2, <2>3 DEF LaidIsAccepted
<1>2. BmpInv /\ LaidIsAccepted /\ [NextBmp]_bmpVars => LaidIsAccepted'
  <2>1. LaidIsAccepted /\ UNCHANGED bmpVars => LaidIsAccepted'
    BY DEF bmpVars, data, LaidIsAccepted
  <2> QED
    BY <2>1, HeaderLaid, PeerLaid, ReasonLaidStep, AddressesLaid, SentOpenLaid, ReceivedOpenLaid,
       CountLaid, TlvLaid, StatLaid, EndLaid DEF NextBmp
<1> QED
  BY <1>1, <1>2, BmpInvariant, PTL DEF SpecBmp

-----------------------------------------------------------------------------
(* The turns left, after a step that goes on in the message, or to a later field. *)
LEMMA BmpFewer ==
  ASSUME BmpInv, BmpInv', UNCHANGED message, stage \notin {"parsed", "refused"},
         \/ stage' \in {"parsed", "refused"}
         \/ pos < pos' /\ stage' \notin {"sent_open", "received_open"}
         \/ pos + AddressesSize <= pos'
         \/ stage = "sent_open" /\ stage' = "received_open" /\ pos <= pos'
         \/ stage = "received_open" /\ stage' = "tlvs" /\ pos <= pos'
  PROVE  BmpTurnsLeft' \in 0..(BmpTurnsLeft - 1)
<1>1. data' = data /\ Len(data) \in Nat
  BY Framing DEF BmpInv, data
<1>2. pos \in Nat /\ pos <= Len(data) /\ pos' \in Nat /\ pos' <= Len(data)
  BY <1>1 DEF BmpInv, BmpTypeOK
<1>3. BmpTurnsLeft \in Nat /\ BmpTurnsLeft >= 1
  BY <1>1, <1>2 DEF BmpTurnsLeft
<1>4. CASE stage' \in {"parsed", "refused"}
  BY <1>3, <1>4 DEF BmpTurnsLeft
<1>5. CASE stage' \notin {"parsed", "refused"}
  <2> DEFINE later == IF stage = "sent_open" THEN 3 ELSE IF stage = "received_open" THEN 2 ELSE 1
             then == IF stage' = "sent_open" THEN 3 ELSE IF stage' = "received_open" THEN 2 ELSE 1
  <2>1. BmpTurnsLeft = Len(data) - pos + later /\ BmpTurnsLeft' = Len(data) - pos' + then
    BY <1>1, <1>5 DEF BmpTurnsLeft
  <2>2. later \in 1..3 /\ then \in 1..3
    OBVIOUS
  <2>3. (pos < pos' /\ then = 1) \/ pos + 20 <= pos' \/ (pos <= pos' /\ then < later)
    BY <1>5 DEF AddressesSize
  <2> HIDE DEF later, then
  <2>4. \A n, p, q, l, m \in Nat :
          p <= n /\ q <= n /\ l \in 1..3 /\ m \in 1..3
          /\ ((p < q /\ m = 1) \/ p + 20 <= q \/ (p <= q /\ m < l))
            => n - q + m \in 0..((n - p + l) - 1)
    OBVIOUS
  <2>5. later \in Nat /\ then \in Nat
    BY <2>2
  <2>6. Len(data) - pos' + then \in 0..((Len(data) - pos + later) - 1)
    BY <1>1, <1>2, <2>2, <2>3, <2>4, <2>5
  <2> QED
    BY <2>1, <2>6
<1> QED
  BY <1>4, <1>5

(* A turn of a loop over TLVs takes one, and there is one less to take. *)
LEMMA TlvTurn ==
  ASSUME BmpInv, stage \in {"tlvs", "stats"}, NEW valid \in BOOLEAN, valid <=> TlvFits(data, pos),
         TakeIf(valid, TlvSize(data, pos), stage)
  PROVE  stage' = "refused" \/ (pos < pos' /\ stage' = stage)
<1>1. data \in Seq(Octet) /\ Len(data) \in Nat /\ pos \in Nat
  BY Framing DEF BmpInv, BmpTypeOK
<1>2. CASE TlvFits(data, pos)
  <2>1. TlvSize(data, pos) \in Nat /\ TlvSize(data, pos) >= 4
    BY <1>1, <1>2, TlvInside
  <2>2. pos' = pos + TlvSize(data, pos) /\ stage' = stage
    BY <1>2 DEF TakeIf, Take
  <2> QED
    BY <1>1, <2>1, <2>2
<1> QED
  BY <1>2 DEF TakeIf, RefuseMessage

(* An OPEN may say that it has no octets; the parser goes on to what follows it. *)
LEMMA OpenTurn ==
  ASSUME BmpInv, NEW here, NEW next, ParseOpen(here, next)
  PROVE  stage' = "refused" \/ (stage = here /\ stage' = next /\ pos <= pos')
<1>1. data \in Seq(Octet) /\ Len(data) \in Nat /\ pos \in Nat
  BY Framing DEF BmpInv, BmpTypeOK
<1>2. CASE OpenFits(data, pos)
  <2>1. OpenSize(data, pos) \in Nat
    BY <1>1, <1>2, OpenInside
  <2>2. stage = here /\ stage' = next /\ pos' = pos + OpenSize(data, pos)
    BY <1>2 DEF ParseOpen, TakeIf, Take
  <2> QED
    BY <1>1, <2>1, <2>2
<1> QED
  BY <1>2 DEF ParseOpen, TakeIf, RefuseMessage

(* A field of a fixed number of octets. *)
LEMMA FieldTurn ==
  ASSUME BmpInv, NEW valid, NEW n \in Nat, NEW next, TakeIf(valid, n, next)
  PROVE  stage' = "refused" \/ (stage' = next /\ pos' = pos + n /\ pos \in Nat)
<1>1. Len(data) \in Nat /\ pos \in Nat
  BY Framing DEF BmpInv, BmpTypeOK
<1> QED
  BY <1>1 DEF TakeIf, Take, RefuseMessage

(* Every step of the BMP parser leaves it fewer. *)
LEMMA BmpTurns == BmpInv /\ NextBmp => BmpTurnsLeft' \in 0..(BmpTurnsLeft - 1)
<1> SUFFICES ASSUME BmpInv, NextBmp PROVE BmpTurnsLeft' \in 0..(BmpTurnsLeft - 1)
  OBVIOUS
<1>1. BmpInv' /\ pos \in Nat
  BY BmpStep, Framing DEF BmpInv, BmpTypeOK
<1>2. UNCHANGED message
  BY DEF NextBmp, ParseHeader, ParsePerPeerHeader, ParseTlv, EndTlvs, ParseCount, ParseStat, EndStats,
         ParseReason, ParseRest, ParseAddresses, ParseOpen, Goes
<1>3. CASE ParseHeader
  <2>1. stage' = "refused" \/ (pos < pos' /\ stage' \in {"tlvs", "per_peer"})
    BY <1>1, <1>3, FieldTurn DEF ParseHeader, BmpHeaderSize
  <2> QED
    BY <1>1, <1>2, <1>3, <2>1, BmpFewer DEF ParseHeader
<1>4. CASE ParsePerPeerHeader
  <2>1. PeerPart \in {"rest", "count", "reason", "addresses"}
    BY DEF PeerPart
  <2>2. stage' = "refused" \/ (pos < pos' /\ stage' = PeerPart)
    BY <1>1, <1>4, FieldTurn DEF ParsePerPeerHeader, PeerHeaderSize
  <2> QED
    BY <1>1, <1>2, <1>4, <2>1, <2>2, BmpFewer DEF ParsePerPeerHeader
<1>5. CASE ParseCount
  <2>1. stage' = "refused" \/ (pos < pos' /\ stage' = "stats")
    BY <1>1, <1>5, FieldTurn DEF ParseCount
  <2> QED
    BY <1>1, <1>2, <1>5, <2>1, BmpFewer DEF ParseCount
<1>6. CASE ParseReason
  <2>1. stage' = "refused" \/ (pos < pos' /\ stage' = "rest")
    BY <1>1, <1>6, FieldTurn DEF ParseReason
  <2> QED
    BY <1>1, <1>2, <1>6, <2>1, BmpFewer DEF ParseReason
<1>7. CASE ParseAddresses
  <2>1. stage' = "refused" \/ pos + AddressesSize <= pos'
    BY <1>1, <1>7, FieldTurn DEF ParseAddresses, AddressesSize
  <2> QED
    BY <1>1, <1>2, <1>7, <2>1, BmpFewer DEF ParseAddresses
<1>8. CASE ParseOpen("sent_open", "received_open")
  <2>1. stage' = "refused" \/ (stage = "sent_open" /\ stage' = "received_open" /\ pos <= pos')
    BY <1>8, OpenTurn
  <2> QED
    BY <1>1, <1>2, <1>8, <2>1, BmpFewer DEF ParseOpen
<1>9. CASE ParseOpen("received_open", "tlvs")
  <2>1. stage' = "refused" \/ (stage = "received_open" /\ stage' = "tlvs" /\ pos <= pos')
    BY <1>9, OpenTurn
  <2> QED
    BY <1>1, <1>2, <1>9, <2>1, BmpFewer DEF ParseOpen
<1>10. CASE ParseTlv \/ ParseStat
  <2>1. stage \in {"tlvs", "stats"} /\ TakeIf(TlvFits(data, pos), TlvSize(data, pos), stage)
    BY <1>10 DEF ParseTlv, ParseStat
  <2>2. TlvFits(data, pos) \in BOOLEAN
    BY DEF TlvFits, Holds
  <2>3. stage' = "refused" \/ (pos < pos' /\ stage' = stage)
    BY <2>1, <2>2, TlvTurn
  <2> QED
    BY <1>1, <1>2, <2>1, <2>3, BmpFewer
<1>11. CASE EndTlvs \/ EndStats \/ ParseRest
  <2>1. stage \in {"tlvs", "stats", "rest"} /\ stage' = "parsed"
    BY <1>11 DEF EndTlvs, EndStats, ParseRest, Take
  <2> QED
    BY <1>1, <1>2, <2>1, BmpFewer
<1> QED
  BY <1>3, <1>4, <1>5, <1>6, <1>7, <1>8, <1>9, <1>10, <1>11 DEF NextBmp
=============================================================================
