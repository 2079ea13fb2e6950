---------------------------- MODULE MessageParser ----------------------------
(***************************************************************************)
(* One message read as a whole: the BMP parser, then, of a Route Monitoring  *)
(* message, parse_bgp_update for the UPDATE in it.  The listener             *)
(* (_handle_bmp_message of src/pybmpmon/listener.py) calls the parsers of    *)
(* Route Monitoring, Peer Up and Peer Down messages, and leaves the bodies    *)
(* of the others unparsed; parse_bmp_message parses all of them.  There is   *)
(* no await between or within the two parsers.                              *)
(***************************************************************************)
EXTENDS BmpParser, BgpParser

parserVars == <<bmpVars, bgpVars>>

InitMessage == InitBmp /\ InitBgp

ParseBmp == NextBmp /\ UNCHANGED bgpVars

(* bgp_update: what follows the per-peer header.                             *)
BgpUpdate(d) == ReadBytes(d, PeerFields, Len(d) - PeerFields)

ASSUME UpdatesAssumption ==
  \A m \in Messages :
    HeaderAccepted(m.octets) /\ MessageType(m.octets) = ROUTE_MONITORING /\ Holds(m.octets, 0, PeerFields)
      => \E p \in Pdus : p.octets = BgpUpdate(m.octets)

HandOver ==
  /\ stage = "parsed" /\ phase = "idle" /\ MessageType(data) = ROUTE_MONITORING
  /\ \E p \in Pdus : p.octets = BgpUpdate(data) /\ Start(p)
  /\ UNCHANGED bmpVars

ParseBgp == NextBgp /\ UNCHANGED bmpVars

NextMessage == ParseBmp \/ HandOver \/ ParseBgp

(* The parsers are plain calls: nothing but their own loops can keep them.    *)
SpecMessage == InitMessage /\ [][NextMessage]_parserVars /\ WF_parserVars(NextMessage)

-----------------------------------------------------------------------------
(* Whatever a router sends, its message is parsed or refused in the end: no    *)
(* loop of either parser goes on without moving its offset.  The listener's   *)
(* one event loop, with every other router, waits for it.                    *)
EveryParseEnds ==
  <>(\/ stage = "refused"
     \/ stage = "parsed" /\ MessageType(data) # ROUTE_MONITORING
     \/ phase \in {"parsed", "refused"})

TurnsLeft == BmpTurnsLeft + (IF phase = "idle" THEN 2 * Len(data) + 2 ELSE BgpTurnsLeft)

(* The work of both parsers is in proportion to the octets of the message,      *)
(* whatever lengths and counts are written in them: every turn of a loop (TLVs, *)
(* statistics, attributes, segments, routes) leaves fewer turns, so that there *)
(* are never more than three for an octet and a few.                         *)
TurnsRunOut == [][TurnsLeft' \in 0..(TurnsLeft - 1)]_parserVars
=============================================================================
