------------------------------ MODULE BmpParser ------------------------------
(***************************************************************************)
(* parse_bmp_message of src/pybmpmon/protocol/bmp_parser.py, one action per  *)
(* field or per turn of a loop.  The parser goes through the message once,   *)
(* from the front: pos is the offset it has come to.  What the fields say is *)
(* left out unless it decides how the parser goes on.                       *)
(***************************************************************************)
EXTENDS Binary

CONSTANT
  Messages    \* what a connection may deliver; see MessagesAssumption

(* src/pybmpmon/protocol/bmp.py *)
ROUTE_MONITORING == 0
STATISTICS_REPORT == 1
PEER_DOWN_NOTIFICATION == 2
PEER_UP_NOTIFICATION == 3
INITIATION == 4
TERMINATION == 5
MessageTypes == 0..5
PeerTypes == 0..3
PeerDownReasons == 1..5

BmpHeaderSize == 6
PeerHeaderSize == 42
PeerFields == BmpHeaderSize + PeerHeaderSize    \* where a type's own fields begin

HeaderLength(d) == ReadUint32(d, 1)
MessageType(d) == ReadUint8(d, 5)

(* parse_bmp_header: version 3, a length of at least the header, a known type. *)
HeaderAccepted(d) ==
  /\ ReadUint8(d, 0) = 3
  /\ HeaderLength(d) >= BmpHeaderSize
  /\ MessageType(d) \in MessageTypes

(* _handle_connection reads a header, and as many octets as it says: data is  *)
(* neither shorter nor longer than its header's length.  The cuts are those  *)
(* of whoever wrote the message: the offsets between its TLVs.               *)
ASSUME MessagesAssumption ==
  \A m \in Messages :
    /\ m.octets \in Seq(Octet) /\ m.cuts \in Seq(Nat)
    /\ Len(m.octets) >= BmpHeaderSize
    /\ HeaderAccepted(m.octets) => HeaderLength(m.octets) = Len(m.octets)

VARIABLES
  message,    \* the message
  stage,      \* the field the parser is at, "parsed", or "refused"
  pos,        \* its offset
  todo        \* statistics TLVs still to come

(* History variable: no code reads it, no guard mentions it.                 *)
VARIABLE
  marks       \* offsets at which the parser has found a TLV or their end

bmpVars == <<message, stage, pos, todo, marks>>

data == message.octets

InitBmp ==
  /\ message \in Messages
  /\ stage = "header" /\ pos = 0 /\ todo = 0
  /\ marks = <<>>

(* n octets are read and the parser goes on.                                *)
Take(n, next) ==
  /\ stage' = next
  /\ pos' = pos + n
  /\ marks' = IF next \in {"tlvs", "stats"} THEN Append(marks, pos + n) ELSE marks

(* BMPParseError *)
RefuseMessage == stage' = "refused" /\ UNCHANGED <<pos, marks>>

TakeIf(valid, n, next) == IF valid THEN Take(n, next) ELSE RefuseMessage

Goes == UNCHANGED <<message, todo>>

-----------------------------------------------------------------------------
(* parse_bmp_header, the check of the length, and the dispatch.             *)
ParseHeader ==
  /\ stage = "header"
  /\ TakeIf(HeaderAccepted(data) /\ Len(data) >= HeaderLength(data), BmpHeaderSize,
            IF MessageType(data) \in {INITIATION, TERMINATION} THEN "tlvs" ELSE "per_peer")
  /\ Goes

PeerPart ==
  CASE MessageType(data) = ROUTE_MONITORING -> "rest"
    [] MessageType(data) = STATISTICS_REPORT -> "count"
    [] MessageType(data) = PEER_DOWN_NOTIFICATION -> "reason"
    [] OTHER -> "addresses"

ParsePerPeerHeader ==
  /\ stage = "per_peer"
  /\ TakeIf(Holds(data, pos, PeerHeaderSize) /\ ReadUint8(data, pos) \in PeerTypes,
            PeerHeaderSize, PeerPart)
  /\ Goes

TlvSize(d, p) == 4 + ReadUint16(d, p + 2)

TlvFits(d, p) == Holds(d, p, 4) /\ Holds(d, p, TlvSize(d, p))

(* Mutated: a TLV that ends with the message is refused. *)
ParseTlvStrict ==
  /\ stage = "tlvs" /\ pos < HeaderLength(data)
  /\ TakeIf(TlvFits(data, pos) /\ pos + TlvSize(data, pos) < HeaderLength(data),
            TlvSize(data, pos), "tlvs")
  /\ Goes

(* parse_information_tlvs, to the end of the message.                        *)
ParseTlv ==
  /\ stage = "tlvs" /\ pos < HeaderLength(data)
  /\ TakeIf(TlvFits(data, pos), TlvSize(data, pos), "tlvs")
  /\ Goes

(* Mutated: octets too few for a TLV are left at the end.                     *)
EndTlvsEarly ==
  /\ stage = "tlvs" /\ pos + 4 > HeaderLength(data)
  /\ Take(0, "parsed")
  /\ Goes

EndTlvs ==
  /\ stage = "tlvs" /\ pos >= HeaderLength(data)
  /\ Take(0, "parsed")
  /\ Goes

(* parse_statistics_report_message: as many TLVs as the count says; octets     *)
(* that come after them are left unread.                                    *)
ParseCount ==
  /\ stage = "count"
  /\ TakeIf(Holds(data, pos, 4), 4, "stats")
  /\ todo' = IF Holds(data, pos, 4) THEN ReadUint32(data, pos) ELSE todo
  /\ UNCHANGED message

ParseStat ==
  /\ stage = "stats" /\ todo > 0
  /\ TakeIf(TlvFits(data, pos), TlvSize(data, pos), "stats")
  /\ todo' = todo - 1
  /\ UNCHANGED message

EndStats ==
  /\ stage = "stats" /\ todo = 0
  /\ Take(0, "parsed")
  /\ Goes

(* parse_peer_down_message *)
ParseReason ==
  /\ stage = "reason"
  /\ TakeIf(Holds(data, pos, 1) /\ ReadUint8(data, pos) \in PeerDownReasons, 1, "rest")
  /\ Goes

(* The BGP UPDATE of a Route Monitoring message, the data of a Peer Down.      *)
ParseRest ==
  /\ stage = "rest"
  /\ Take(HeaderLength(data) - pos, "parsed")
  /\ Goes

(* parse_peer_up_message: 16 octets of address and two ports, two OPENs.       *)
AddressesSize == 20
ParseAddresses ==
  /\ stage = "addresses"
  /\ TakeIf(Holds(data, pos, AddressesSize), AddressesSize, "sent_open")
  /\ Goes

OpenSize(d, p) == ReadUint16(d, p + 16)

(* Mutated: only the 19 octets of the header of an OPEN are checked.          *)
OpenHeaderFits(d, p) == Holds(d, p, 19)

(* 19 octets are there, and as many as the length field says, which may be     *)
(* less than 19.                                                            *)
OpenFits(d, p) == Holds(d, p, 19) /\ Holds(d, p, OpenSize(d, p))

ParseOpen(here, next) ==
  /\ stage = here
  /\ TakeIf(OpenFits(data, pos), OpenSize(data, pos), next)
  /\ Goes

NextBmp ==
  \/ ParseHeader \/ ParsePerPeerHeader
  \/ ParseTlv \/ EndTlvs
  \/ ParseCount \/ ParseStat \/ EndStats
  \/ ParseReason \/ ParseRest
  \/ ParseAddresses \/ ParseOpen("sent_open", "received_open") \/ ParseOpen("received_open", "tlvs")

SpecBmp == InitBmp /\ [][NextBmp]_bmpVars

-----------------------------------------------------------------------------
(* Type invariant. *)
BmpTypeOK ==
  /\ data \in Seq(Octet) /\ message.cuts \in Seq(Nat)
  /\ stage \in {"header", "per_peer", "tlvs", "count", "stats", "reason", "rest",
                "addresses", "sent_open", "received_open", "parsed", "refused"}
  /\ pos \in 0..Len(data)
  /\ todo \in Nat
  /\ marks \in Seq(0..Len(data))

(* The format as a whole, with no parser in it: cuts are the offsets of the    *)
(* TLVs one after the other, from the one at start to the end of the last.   *)
TlvsLaid(d, cuts, start) ==
  /\ cuts # <<>> /\ cuts[1] = start
  /\ \A i \in 1..(Len(cuts) - 1) : TlvFits(d, cuts[i]) /\ cuts[i + 1] = cuts[i] + TlvSize(d, cuts[i])

InformationLaid(d, cuts, start) ==
  TlvsLaid(d, cuts, start) /\ cuts[Len(cuts)] = Len(d)

StatisticsLaid(d, cuts) ==
  /\ Holds(d, PeerFields, 4)
  /\ TlvsLaid(d, cuts, PeerFields + 4)
  /\ Len(cuts) = ReadUint32(d, PeerFields) + 1

ReasonLaid(d) == Holds(d, PeerFields, 1) /\ ReadUint8(d, PeerFields) \in PeerDownReasons

SentOpen == PeerFields + AddressesSize
ReceivedOpen(d) == SentOpen + OpenSize(d, SentOpen)

PeerUpLaid(d, cuts) ==
  /\ Holds(d, PeerFields, AddressesSize)
  /\ OpenFits(d, SentOpen)
  /\ OpenFits(d, ReceivedOpen(d))
  /\ InformationLaid(d, cuts, ReceivedOpen(d) + OpenSize(d, ReceivedOpen(d)))

PerPeerLaid(d, cuts) ==
  /\ Holds(d, BmpHeaderSize, PeerHeaderSize)
  /\ ReadUint8(d, BmpHeaderSize) \in PeerTypes
  /\ MessageType(d) = STATISTICS_REPORT => StatisticsLaid(d, cuts)
  /\ MessageType(d) = PEER_DOWN_NOTIFICATION => ReasonLaid(d)
  /\ MessageType(d) = PEER_UP_NOTIFICATION => PeerUpLaid(d, cuts)

Laid(d, cuts) ==
  /\ HeaderAccepted(d)
  /\ IF MessageType(d) \in {INITIATION, TERMINATION}
     THEN InformationLaid(d, cuts, BmpHeaderSize)
     ELSE PerPeerLaid(d, cuts)

(* What the parser accepts has the format: the TLVs it has found lie one after *)
(* the other and, but for statistics, fill the message to its last octet.    *)
AcceptedIsLaid == stage = "parsed" => Laid(data, marks)

(* What has the format is accepted, and read as it was written: the parser     *)
(* finds a TLV nowhere but where its writer put one.                        *)
LaidIsAccepted ==
  Laid(data, message.cuts) =>
    /\ stage # "refused"
    /\ Len(marks) <= Len(message.cuts)
    /\ \A i \in DOMAIN marks : marks[i] = message.cuts[i]

(* How many steps the parser can still take: a step that takes no octet leads  *)
(* on to a later field.                                                     *)
BmpTurnsLeft ==
  IF stage \in {"parsed", "refused"} THEN 0
  ELSE Len(data) - pos + (IF stage = "sent_open" THEN 3 ELSE IF stage = "received_open" THEN 2 ELSE 1)
=============================================================================
