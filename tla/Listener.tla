------------------------------ MODULE Listener ------------------------------
(***************************************************************************)
(* The BMP sessions: the tasks running BMPListener._handle_connection      *)
(* (src/pybmpmon/listener.py), one per connection, with what they share:   *)
(* the statistics of monitoring/stats.py and the rows operations.py keeps  *)
(* in bmp_peers and peer_events.  All of it is keyed by the router's IP     *)
(* address, and two connections may come from one address.  Every action   *)
(* is the code between two awaits of one task.                             *)
(*                                                                         *)
(* Of a message only its type matters, when it is dispatched, and the size *)
(* of its body where the framing of the stream depends on it: behind[c] is *)
(* the number of bytes still to come of a message whose header was refused *)
(* when the next header is read.                                           *)
(***************************************************************************)
EXTENDS Integers, FiniteSets

CONSTANTS
  Conns,        \* connections
  Ips, Ip,      \* Ip[c]: where connection c comes from
  HeaderSize,   \* BMP_HEADER_SIZE
  BodySizes,    \* sizes of message bodies
  MaxMessages,  \* bound: messages the routers send
  MaxPrefixes,  \* bound: prefixes in one UPDATE
  MaxFailures   \* bound: database errors

ASSUME ConnsAssumption == IsFiniteSet(Conns) /\ Ip \in [Conns -> Ips]
ASSUME SizesAssumption == /\ HeaderSize \in Nat \ {0}
                          /\ BodySizes \subseteq Nat
                          /\ MaxMessages \in Nat
                          /\ MaxPrefixes \in Nat
                          /\ MaxFailures \in Nat

VARIABLES
  pc,        \* pc[c]: the await c's handler is suspended at
  link,      \* link[c]: "up", or how the router has ended it: "eof", "reset"
  left,      \* left[c]: prefixes of its UPDATE still to be added
  behind,    \* behind[c]: bytes between c's next read and the next message
  cancel,    \* cancel[c]: cancel() was called on c's task, not yet delivered
  active,    \* _active_connections
  started,   \* the keys of _connection_start_times
  stats,     \* StatisticsCollector._stats
  peers,     \* bmp_peers: "absent", "active", "inactive"
  lastEvent, \* the last row of peer_events for each address
  phase,     \* "serving", "closing" (listener.stop is waiting), "stopped"
  sent,      \* messages of the routers that have begun to be read
  failures   \* database errors so far

(* History variables: no code reads them, no guard mentions them.           *)
VARIABLES
  owed,      \* owed[i]: messages of i begun but neither handled nor cancelled
  misread,   \* connections on which a message was read as something else
  skipped,   \* connections whose handler ended without its clean-up
  settled,   \* settled[i]: errors of i that were logged or removed with i
  alone,     \* pairs of statements on bmp_peers, peer_events not interleaved
  torn       \* addresses one of whose pairs was interleaved or incomplete

session == <<pc, left>>
stream == <<link, behind, sent, misread>>
tracking == <<active, started, skipped>>
counters == <<stats, settled>>
tables == <<peers, lastEvent, alone, torn>>
vars == <<session, stream, cancel, tracking, counters, tables, phase, failures, owed>>

Pair == {"upsert", "upevent", "inactive", "downevent"}
Statements == Pair \cup {"seen", "add"}
Locations == Statements \cup {"none", "header", "body", "closing", "over"}
Live(c) == pc[c] \notin {"none", "over"}
InMessage(c) == pc[c] \in Statements \cup {"body"}
Runs(c) == ~cancel[c]

Own(i) == {c \in Conns : Ip[c] = i}
Working(i) == {c \in Own(i) : InMessage(c)}

(* Of an entry of the statistics, its errors and whether anything else is     *)
(* counted (messages received, routes processed).                           *)
Entry == [errors : Nat, others : BOOLEAN]
Zero == [errors |-> 0, others |-> FALSE]

-----------------------------------------------------------------------------
Init ==
  /\ pc = [c \in Conns |-> "none"]
  /\ link = [c \in Conns |-> "up"]
  /\ left = [c \in Conns |-> 0]
  /\ behind = [c \in Conns |-> 0]
  /\ cancel = [c \in Conns |-> FALSE]
  /\ active = {} /\ started = {} /\ stats = <<>>
  /\ peers = [i \in Ips |-> "absent"]
  /\ lastEvent = [i \in Ips |-> "none"]
  /\ phase = "serving"
  /\ sent = 0
  /\ failures = 0
  /\ owed = [i \in Ips |-> 0] /\ settled = [i \in Ips |-> 0]
  /\ misread = {} /\ skipped = {}
  /\ alone = {} /\ torn = {}

(* get_peer_stats creates the entry of an address that has none.            *)
StatsOf(s, i) == IF i \in DOMAIN s THEN s[i] ELSE Zero

WithEntry(s, i, entry) == [j \in DOMAIN s \cup {i} |-> IF j = i THEN entry ELSE s[j]]

PlusError(s, i) == WithEntry(s, i, [StatsOf(s, i) EXCEPT !.errors = @ + 1])

(* increment_received, increment_processed. *)
PlusOther(s, i) == WithEntry(s, i, [StatsOf(s, i) EXCEPT !.others = TRUE])

(* The handler goes back to reading a header.                               *)
NextMessage(c) ==
  /\ pc' = [pc EXCEPT ![c] = "header"]
  /\ left' = [left EXCEPT ![c] = 0]

Owe(c, n) == owed' = [owed EXCEPT ![Ip[c]] = @ + n]

Done(c) == NextMessage(c) /\ Owe(c, -1)

GoTo(c, l) ==
  /\ pc' = [pc EXCEPT ![c] = l]
  /\ UNCHANGED left

(* Any exception inside the loop is counted and the loop goes on; s is what  *)
(* the message has already done to the statistics.                          *)
Error(c, s) ==
  /\ NextMessage(c)
  /\ stats' = PlusError(s, Ip[c])
  /\ UNCHANGED settled

Connect(c) ==
  /\ pc[c] = "none" /\ phase = "serving"
  /\ NextMessage(c)
  /\ started' = started \cup {Ip[c]}
  /\ active' = active \cup {c}
  /\ UNCHANGED <<stream, cancel, skipped, counters, tables, phase, failures, owed>>

(* The router closes or resets the connection.                              *)
Disconnect(c) ==
  /\ Live(c) /\ pc[c] # "closing" /\ link[c] = "up"
  /\ \E how \in {"eof", "reset"} : link' = [link EXCEPT ![c] = how]
  /\ UNCHANGED <<session, behind, sent, misread, cancel, tracking, counters, tables, phase,
                 failures, owed>>

(* The header is accepted, and the body it announces is awaited.            *)
Accepted(c) ==
  /\ pc' = [pc EXCEPT ![c] = "body"]
  /\ UNCHANGED <<left, counters>>

(* The next message: its header is accepted, or refused and its body is left  *)
(* in the stream.                                                           *)
ReadHeader(c) ==
  /\ pc[c] = "header" /\ link[c] # "reset" /\ Runs(c)
  /\ behind[c] = 0 /\ sent < MaxMessages
  /\ sent' = sent + 1
  /\ Owe(c, 1)
  /\ \/ Accepted(c) /\ UNCHANGED behind
     \/ /\ Error(c, stats)
        /\ \E size \in BodySizes : behind' = [behind EXCEPT ![c] = size]
  /\ UNCHANGED <<link, misread, cancel, tracking, tables, phase, failures>>

(* The bytes read as a header are the rest of a refused message, or run into  *)
(* the next message, which is then read as something else.  They are refused, *)
(* or pass for a header that announces any number of bytes.                 *)
ReadGarbage(c) ==
  /\ pc[c] = "header" /\ link[c] # "reset" /\ Runs(c)
  /\ behind[c] > 0
  /\ \/ /\ behind[c] >= HeaderSize
        /\ \/ /\ Error(c, stats)
              /\ behind' = [behind EXCEPT ![c] = @ - HeaderSize]
              /\ UNCHANGED owed
           \/ /\ Accepted(c)
              /\ \E rest \in 0..(behind[c] - HeaderSize) : behind' = [behind EXCEPT ![c] = rest]
              /\ Owe(c, 1)
        /\ UNCHANGED <<sent, misread>>
     \/ /\ sent < MaxMessages
        /\ \/ /\ Error(c, stats)
              /\ behind[c] < HeaderSize
              /\ \E size \in BodySizes : behind' = [behind EXCEPT ![c] = @ + size]
              /\ sent' = sent + 1
              /\ Owe(c, 1)
           \/ /\ Accepted(c)
              /\ \E size \in BodySizes : \E rest \in 0..size : behind' = [behind EXCEPT ![c] = rest]
              /\ \E n \in sent + 1..MaxMessages : sent' = n /\ Owe(c, 1 + n - sent)
        /\ misread' = misread \cup {c}
  /\ UNCHANGED <<link, cancel, tracking, tables, phase, failures>>

ReadBody(c) ==
  /\ pc[c] = "body" /\ link[c] # "reset" /\ Runs(c)
  /\ GoTo(c, "seen")
  /\ UNCHANGED <<stream, cancel, tracking, counters, tables, phase, failures, owed>>

(* The router ended the connection in a body: an error like any other.       *)
BodyLost(c) ==
  /\ pc[c] = "body" /\ link[c] # "up" /\ Runs(c)
  /\ Error(c, stats)
  /\ UNCHANGED <<stream, cancel, tracking, tables, phase, failures, owed>>

(* Mutated: the header is read inside the inner try.                        *)
EndOfStreamCaught(c) ==
  /\ pc[c] = "header" /\ link[c] # "up" /\ Runs(c)
  /\ GoTo(c, IF link[c] = "eof" THEN "header" ELSE "closing")
  /\ UNCHANGED <<stream, cancel, tracking, counters, tables, phase, failures, owed>>

(* The router ended the connection between messages: the loop is left.       *)
EndOfStream(c) ==
  /\ pc[c] = "header" /\ link[c] # "up" /\ Runs(c)
  /\ GoTo(c, "closing")
  /\ UNCHANGED <<stream, cancel, tracking, counters, tables, phase, failures, owed>>

(* c's handler begins or ends the two statements of a peer up or down.       *)
InPair(c) == {d \in Own(Ip[c]) : pc[d] \in Pair}

BeginPair(c) ==
  IF InPair(c) = {}
  THEN alone' = alone \cup {c} /\ UNCHANGED torn
  ELSE alone' = alone \ InPair(c) /\ torn' = torn \cup {Ip[c]}

EndPair(c) ==
  /\ alone' = alone \ {c}
  /\ torn' = IF c \in alone THEN torn \ {Ip[c]} ELSE torn

BreakPair(c) ==
  /\ alone' = alone \ {c}
  /\ torn' = IF pc[c] \in Pair THEN torn \cup {Ip[c]} ELSE torn

(* last_seen is updated, the message counted and dispatched on its type: it   *)
(* is one that is only logged, or does not parse, or is an UPDATE with n     *)
(* prefixes, or a peer up, or a peer down.                                  *)
Dispatch(c) ==
  LET s == PlusOther(stats, Ip[c]) IN
  /\ pc[c] = "seen" /\ Runs(c)
  /\ \/ Done(c) /\ stats' = s /\ UNCHANGED <<settled, alone, torn>>
     \/ Error(c, s) /\ UNCHANGED <<owed, alone, torn>>
     \/ /\ pc' = [pc EXCEPT ![c] = "add"]
        /\ \E n \in 1..MaxPrefixes : left' = [left EXCEPT ![c] = n]
        /\ stats' = s /\ UNCHANGED <<settled, owed, alone, torn>>
     \/ /\ GoTo(c, "upsert") \/ GoTo(c, "inactive")
        /\ BeginPair(c)
        /\ stats' = s /\ UNCHANGED <<settled, owed>>
  /\ UNCHANGED <<stream, cancel, tracking, peers, lastEvent, phase, failures>>

(* Mutated: one prefix too many. *)
AddRoutePastEnd(c) ==
  /\ pc[c] = "add" /\ Runs(c)
  /\ IF left[c] = 0 THEN Done(c)
     ELSE /\ left' = [left EXCEPT ![c] = @ - 2]
          /\ UNCHANGED <<pc, owed>>
  /\ stats' = PlusOther(stats, Ip[c])
  /\ UNCHANGED <<stream, cancel, tracking, settled, tables, phase, failures>>

(* add_route has returned; module BatchWriter says what became of the route. *)
AddRoute(c) ==
  /\ pc[c] = "add" /\ Runs(c)
  /\ IF left[c] = 1 THEN Done(c)
     ELSE /\ left' = [left EXCEPT ![c] = @ - 1]
          /\ UNCHANGED <<pc, owed>>
  /\ stats' = PlusOther(stats, Ip[c])
  /\ UNCHANGED <<stream, cancel, tracking, settled, tables, phase, failures>>

(* What the statement c's handler awaits does to the tables.  A peer that    *)
(* was never up has no row to mark.                                         *)
Upserted(c) ==
  /\ pc[c] = "upsert"
  /\ peers' = [peers EXCEPT ![Ip[c]] = "active"]
  /\ UNCHANGED lastEvent

(* Mutated: only last_seen is updated. *)
MarkedSeen(c) == pc[c] = "inactive" /\ UNCHANGED <<peers, lastEvent>>

MarkedInactive(c) ==
  /\ pc[c] = "inactive"
  /\ peers' = [peers EXCEPT ![Ip[c]] = IF @ = "absent" THEN @ ELSE "inactive"]
  /\ UNCHANGED lastEvent

EventInserted(c) ==
  /\ pc[c] \in {"upevent", "downevent"}
  /\ lastEvent' = [lastEvent EXCEPT ![Ip[c]] = IF pc[c] = "upevent" THEN "up" ELSE "down"]
  /\ UNCHANGED peers

(* The peer's row is written, then its event.                               *)
WritePeer(c) ==
  /\ Runs(c)
  /\ Upserted(c) \/ MarkedInactive(c)
  /\ GoTo(c, IF pc[c] = "upsert" THEN "upevent" ELSE "downevent")
  /\ UNCHANGED <<stream, cancel, tracking, counters, alone, torn, phase, failures, owed>>

WriteEvent(c) ==
  /\ Runs(c)
  /\ EventInserted(c)
  /\ Done(c)
  /\ EndPair(c)
  /\ UNCHANGED <<stream, cancel, tracking, counters, phase, failures>>

(* An autocommitted statement that was interrupted happened whole or not.    *)
StatementMayTakeEffect(c) ==
  \/ UNCHANGED <<peers, lastEvent>>
  \/ Upserted(c) \/ MarkedInactive(c) \/ EventInserted(c)

(* A statement fails, or add_route raises what the flush of a full batch     *)
(* raised: the rest of the message is given up.                             *)
DatabaseFails(c) ==
  /\ pc[c] \in Statements /\ Runs(c) /\ failures < MaxFailures
  /\ failures' = failures + 1
  /\ Error(c, stats)
  /\ StatementMayTakeEffect(c)
  /\ BreakPair(c)
  /\ UNCHANGED <<stream, cancel, tracking, phase, owed>>

(* Mutated: the loop catches CancelledError with everything else.            *)
CancelledCaught(c) ==
  /\ cancel[c] /\ pc[c] # "closing"
  /\ cancel' = [cancel EXCEPT ![c] = FALSE]
  /\ Error(c, stats)
  /\ StatementMayTakeEffect(c)
  /\ BreakPair(c)
  /\ UNCHANGED <<stream, tracking, phase, failures, owed>>

(* CancelledError in the loop is no Exception: only the finally runs; in the  *)
(* finally it skips what is left of it.                                     *)
Cancelled(c) ==
  /\ cancel[c]
  /\ cancel' = [cancel EXCEPT ![c] = FALSE]
  /\ \/ /\ pc[c] # "closing"
        /\ GoTo(c, "closing")
        /\ StatementMayTakeEffect(c)
        /\ BreakPair(c)
        /\ IF InMessage(c) THEN Owe(c, -1) ELSE UNCHANGED owed
        /\ UNCHANGED skipped
     \/ /\ pc[c] = "closing"
        /\ GoTo(c, "over")
        /\ skipped' = skipped \cup {c}
        /\ UNCHANGED <<tables, owed>>
  /\ UNCHANGED <<stream, active, started, counters, phase, failures>>

(* Mutated: the statistics stay. *)
CleanUpKeepsStats(c) ==
  /\ active' = active \ {c}
  /\ started' = started \ {Ip[c]}
  /\ UNCHANGED <<stats, settled, skipped>>

(* discard, the start time, remove_peer: the last two by address.            *)
CleanUp(c) ==
  /\ active' = active \ {c}
  /\ started' = started \ {Ip[c]}
  /\ stats' = [i \in DOMAIN stats \ {Ip[c]} |-> stats[i]]
  /\ settled' = [settled EXCEPT ![Ip[c]] = @ + StatsOf(stats, Ip[c]).errors]
  /\ UNCHANGED skipped

(* wait_closed raises again what the transport was lost with, and the rest    *)
(* of the finally is skipped.                                               *)
Close(c) ==
  /\ pc[c] = "closing" /\ Runs(c)
  /\ GoTo(c, "over")
  /\ \/ /\ link[c] # "reset"
        /\ CleanUp(c)
     \/ /\ link[c] = "reset"
        /\ skipped' = skipped \cup {c}
        /\ UNCHANGED <<active, started, stats, settled>>
  /\ UNCHANGED <<stream, cancel, tables, phase, failures, owed>>

(* Mutated: errors alone are no activity, but are reset all the same.        *)
LogIgnoresErrors ==
  /\ phase = "serving"
  /\ \E i \in DOMAIN stats : stats[i] # Zero
  /\ settled' = [i \in Ips |-> settled[i] + IF StatsOf(stats, i).others THEN StatsOf(stats, i).errors
                                           ELSE 0]
  /\ stats' = [i \in DOMAIN stats |-> Zero]
  /\ UNCHANGED <<session, stream, cancel, tracking, tables, phase, failures, owed>>

(* Every log_interval: log what is not zero, and reset it.                   *)
LogStats ==
  /\ phase = "serving"
  /\ \E i \in DOMAIN stats : stats[i] # Zero
  /\ settled' = [i \in Ips |-> settled[i] + StatsOf(stats, i).errors]
  /\ stats' = [i \in DOMAIN stats |-> Zero]
  /\ UNCHANGED <<session, stream, cancel, tracking, tables, phase, failures, owed>>

(* SIGTERM or SIGINT: cancel() on every task, the logging one included; the  *)
(* server stops listening and waits for the connections.                    *)
Signal ==
  /\ phase = "serving"
  /\ phase' = "closing"
  /\ cancel' = [c \in Conns |-> Live(c)]
  /\ UNCHANGED <<session, stream, tracking, counters, tables, failures, owed>>

Stopped ==
  /\ phase = "closing"
  /\ \A c \in active : pc[c] = "over"
  /\ phase' = "stopped"
  /\ UNCHANGED <<session, stream, cancel, tracking, counters, tables, failures, owed>>

HandlerStep(c) ==
  ReadBody(c) \/ BodyLost(c) \/ EndOfStream(c) \/ Dispatch(c) \/ AddRoute(c)
    \/ WritePeer(c) \/ WriteEvent(c) \/ Cancelled(c) \/ Close(c)

Next ==
  \/ LogStats \/ Signal \/ Stopped
  \/ \E c \in Conns : \/ Connect(c) \/ Disconnect(c) \/ ReadHeader(c) \/ ReadGarbage(c)
                      \/ HandlerStep(c) \/ DatabaseFails(c)

Spec == Init /\ [][Next]_vars

(* The event loop runs every ready task, and command_timeout ends every       *)
(* statement; no router has to send anything.                               *)
Fairness ==
  /\ WF_vars(Stopped)
  /\ \A c \in Conns : /\ WF_vars(BodyLost(c) \/ EndOfStream(c))
                      /\ WF_vars(Dispatch(c) \/ AddRoute(c) \/ WritePeer(c) \/ WriteEvent(c))
                      /\ WF_vars(Cancelled(c)) /\ WF_vars(Close(c))

FairSpec == Spec /\ Fairness

-----------------------------------------------------------------------------
(* Type invariant. *)
TypeOK ==
  /\ pc \in [Conns -> Locations]
  /\ link \in [Conns -> {"up", "eof", "reset"}]
  /\ left \in [Conns -> Nat]
  /\ behind \in [Conns -> Nat]
  /\ cancel \in [Conns -> BOOLEAN]
  /\ active \subseteq Conns /\ started \subseteq Ips
  /\ DOMAIN stats \subseteq Ips
  /\ \A i \in DOMAIN stats : stats[i] \in Entry
  /\ peers \in [Ips -> {"absent", "active", "inactive"}]
  /\ lastEvent \in [Ips -> {"none", "up", "down"}]
  /\ phase \in {"serving", "closing", "stopped"}
  /\ sent \in Nat
  /\ failures \in Nat
  /\ misread \subseteq Conns /\ skipped \subseteq Conns
  /\ owed \in [Ips -> Int] /\ settled \in [Ips -> Nat]
  /\ alone \subseteq Conns /\ torn \subseteq Ips

(* No message disappears without a trace: unless the framing was lost, every *)
(* message a router sent was handled to the end, is being handled, was cut  *)
(* by the shutdown, or is an error that was logged, is about to be, or was  *)
(* dropped by remove_peer, whoever shares the address.                      *)
EveryMessageIsAccounted ==
  \A i \in Ips : Own(i) \cap misread = {} =>
    owed[i] <= settled[i] + StatsOf(stats, i).errors + Cardinality(Working(i))

(* What is kept of a connection goes with it, although two connections of    *)
(* one address share it and the first to end removes it under the other:    *)
(* only a handler that ended without its clean-up leaves something behind.  *)
TrackingFollowsSessions ==
  /\ active = {c \in Conns : Live(c)} \cup skipped
  /\ \A i \in DOMAIN stats \cup started :
       \E c \in Own(i) : c \in active

Agree(i) == peers[i] = "active" <=> lastEvent[i] = "up"

(* bmp_peers and peer_events agree on an address between messages, unless    *)
(* two connections of it wrote at once or one wrote the row without the     *)
(* event; the next pair of statements that is left alone repairs that.      *)
StatusMatchesEvents ==
  \A i \in Ips \ torn : (\A c \in Own(i) : pc[c] \notin Pair) => Agree(i)

-----------------------------------------------------------------------------
(* The inductive invariant: a handler that is adding has prefixes left, one   *)
(* that is cancelled has not ended, and one that skipped its clean-up has.   *)
SessionsInv ==
  /\ \A c \in Conns : pc[c] = "add" => left[c] > 0
  /\ \A c \in Conns : cancel[c] => Live(c)
  /\ \A c \in skipped : pc[c] = "over"

(* A pair of statements that is alone has its address to itself, and between   *)
(* the statements the row is what the first one wrote.  Where no pair was    *)
(* torn every pair is alone and began with the tables in agreement.         *)
PairInv ==
  /\ \A c \in alone : pc[c] \in Pair /\ InPair(c) = {c}
  /\ \A c \in alone : /\ pc[c] = "upevent" => peers[Ip[c]] = "active"
                      /\ pc[c] = "downevent" => peers[Ip[c]] # "active"
  /\ \A c \in Conns : pc[c] \in Pair /\ Ip[c] \notin torn =>
       c \in alone /\ (pc[c] \in {"upsert", "inactive"} => Agree(Ip[c]))

IInv == /\ TypeOK /\ SessionsInv /\ TrackingFollowsSessions
        /\ PairInv /\ StatusMatchesEvents

-----------------------------------------------------------------------------
(* A handler whose router has gone ends, whatever it was doing.              *)
HandlersEnd ==
  \A c \in Conns : (Live(c) /\ link[c] # "up") ~> pc[c] = "over"

(* listener.stop returns: no router can keep its handler alive.              *)
StopReturns == (phase = "closing") ~> (phase = "stopped")
=============================================================================
