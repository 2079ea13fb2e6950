--------------------------- MODULE ListenerProofs ---------------------------
(***************************************************************************)
(* Proofs about Listener for any connections, addresses and messages.      *)
(***************************************************************************)
EXTENDS Listener, FiniteSetTheorems, TLAPS

(* The entries of the statistics stay entries of addresses.                  *)
StatsTyped(s) == DOMAIN s \subseteq Ips /\ \A i \in DOMAIN s : s[i] \in Entry

LEMMA ZeroType == Zero \in Entry
BY DEF Zero, Entry

(* What the statistics answer for an address is an entry.                   *)
LEMMA StatsOfType ==
  ASSUME NEW s, StatsTyped(s), NEW i \in Ips
  PROVE  /\ StatsOf(s, i) \in Entry
         /\ StatsOf(s, i).errors \in Nat
<1>1. StatsOf(s, i) \in Entry
  BY ZeroType DEF StatsOf, StatsTyped
<1> QED
  BY <1>1 DEF Entry

(* Setting one entry leaves the others, and creates none but that one.      *)
LEMMA WithEntryType ==
  ASSUME NEW s, StatsTyped(s), NEW i \in Ips, NEW e \in Entry
  PROVE  /\ StatsTyped(WithEntry(s, i, e))
         /\ DOMAIN WithEntry(s, i, e) = DOMAIN s \cup {i}
         /\ StatsOf(WithEntry(s, i, e), i) = e
         /\ \A j \in Ips \ {i} : StatsOf(WithEntry(s, i, e), j) = StatsOf(s, j)
BY DEF WithEntry, StatsTyped, StatsOf

(* An error adds one to its address's errors and touches no other address.  *)
LEMMA PlusErrorType ==
  ASSUME NEW s, StatsTyped(s), NEW i \in Ips
  PROVE  /\ StatsTyped(PlusError(s, i))
         /\ DOMAIN PlusError(s, i) = DOMAIN s \cup {i}
         /\ StatsOf(PlusError(s, i), i).errors = StatsOf(s, i).errors + 1
         /\ \A j \in Ips \ {i} : StatsOf(PlusError(s, i), j) = StatsOf(s, j)
<1> DEFINE e == [StatsOf(s, i) EXCEPT !.errors = @ + 1]
<1>1. e \in Entry /\ e.errors = StatsOf(s, i).errors + 1
  BY StatsOfType DEF Entry
<1>2. PlusError(s, i) = WithEntry(s, i, e)
  BY DEF PlusError
<1> HIDE DEF e
<1>3. /\ StatsTyped(WithEntry(s, i, e))
      /\ DOMAIN WithEntry(s, i, e) = DOMAIN s \cup {i}
      /\ StatsOf(WithEntry(s, i, e), i) = e
      /\ \A j \in Ips \ {i} : StatsOf(WithEntry(s, i, e), j) = StatsOf(s, j)
  BY <1>1, WithEntryType
<1> QED
  BY <1>1, <1>2, <1>3

(* Counting anything else leaves all errors as they are.                    *)
LEMMA PlusOtherType ==
  ASSUME NEW s, StatsTyped(s), NEW i \in Ips
  PROVE  /\ StatsTyped(PlusOther(s, i))
         /\ DOMAIN PlusOther(s, i) = DOMAIN s \cup {i}
         /\ StatsOf(PlusOther(s, i), i).errors = StatsOf(s, i).errors
         /\ \A j \in Ips \ {i} : StatsOf(PlusOther(s, i), j) = StatsOf(s, j)
<1> DEFINE e == [StatsOf(s, i) EXCEPT !.others = TRUE]
<1>1. e \in Entry /\ e.errors = StatsOf(s, i).errors
  BY StatsOfType DEF Entry
<1> QED
  BY <1>1, WithEntryType DEF PlusOther

(* What the handlers' helpers do to the types.                              *)
LEMMA ErrorType ==
  ASSUME TypeOK, NEW c \in Conns, NEW s, StatsTyped(s), Error(c, s)
  PROVE  /\ pc' \in [Conns -> Locations]
         /\ left' \in [Conns -> Nat]
         /\ StatsTyped(stats')
         /\ settled' = settled
<1>1. StatsTyped(stats')
  BY PlusErrorType, ConnsAssumption DEF Error
<1> QED
  BY <1>1 DEF Error, NextMessage, TypeOK, Locations

LEMMA GoToType ==
  ASSUME TypeOK, NEW c \in Conns, NEW l \in Locations, GoTo(c, l)
  PROVE  pc' \in [Conns -> Locations] /\ left' \in [Conns -> Nat]
BY DEF GoTo, TypeOK

LEMMA NextMessageType ==
  ASSUME TypeOK, NEW c \in Conns, NextMessage(c)
  PROVE  pc' \in [Conns -> Locations] /\ left' \in [Conns -> Nat]
BY DEF NextMessage, TypeOK, Locations

LEMMA OweType ==
  ASSUME TypeOK, NEW c \in Conns, NEW n \in Int, Owe(c, n)
  PROVE  owed' \in [Ips -> Int]
BY ConnsAssumption DEF Owe, TypeOK

LEMMA TablesType ==
  ASSUME TypeOK, NEW c \in Conns,
         \/ UNCHANGED <<peers, lastEvent>>
         \/ Upserted(c) \/ MarkedInactive(c) \/ EventInserted(c)
  PROVE  /\ peers' \in [Ips -> {"absent", "active", "inactive"}]
         /\ lastEvent' \in [Ips -> {"none", "up", "down"}]
BY ConnsAssumption DEF TypeOK, Upserted, MarkedInactive, EventInserted

LEMMA PairType ==
  ASSUME TypeOK, NEW c \in Conns, BeginPair(c) \/ EndPair(c) \/ BreakPair(c)
  PROVE  alone' \subseteq Conns /\ torn' \subseteq Ips
BY ConnsAssumption DEF TypeOK, BeginPair, EndPair, BreakPair

LEMMA TypedStats == TypeOK => StatsTyped(stats)
BY DEF TypeOK, StatsTyped

LEMMA StatsTypedPrime == StatsTyped(stats') => DOMAIN stats' \subseteq Ips /\ \A i \in DOMAIN stats' : stats'[i] \in Entry
BY DEF StatsTyped

LEMMA InitType == Init => TypeOK
<1> SUFFICES ASSUME Init PROVE TypeOK
  OBVIOUS
<1>1. cancel \in [Conns -> BOOLEAN]
  BY DEF Init
<1>2. pc \in [Conns -> Locations]
  BY DEF Init, Locations
<1>3. DOMAIN stats = {}
  BY DEF Init
<1> QED
  BY <1>1, <1>2, <1>3 DEF Init, TypeOK

(* No step leaves the types.                                                *)
LEMMA TypeStep == TypeOK /\ SessionsInv /\ [Next]_vars => TypeOK'
<1> SUFFICES ASSUME TypeOK, SessionsInv, [Next]_vars PROVE TypeOK'
  OBVIOUS
<1>s. StatsTyped(stats)
  BY TypedStats
<1>i. \A c \in Conns : Ip[c] \in Ips
  BY ConnsAssumption
<1> USE DEF session, stream, tracking, counters, tables
<1>1. ASSUME NEW c \in Conns, Connect(c) PROVE TypeOK'
  BY <1>1, <1>i, NextMessageType DEF Connect, TypeOK
<1>2. ASSUME NEW c \in Conns, Disconnect(c) PROVE TypeOK'
  BY <1>2 DEF Disconnect, TypeOK
<1>3. ASSUME NEW c \in Conns, ReadHeader(c) PROVE TypeOK'
  <2>1. owed' \in [Ips -> Int] /\ sent' \in Nat
    BY <1>3, OweType DEF ReadHeader, TypeOK
  <2>2. /\ pc' \in [Conns -> Locations] /\ left' \in [Conns -> Nat]
        /\ StatsTyped(stats') /\ settled' = settled
    BY <1>3, <1>s, ErrorType DEF ReadHeader, Accepted, TypeOK, Locations
  <2>3. behind' \in [Conns -> Nat]
    BY <1>3, SizesAssumption DEF ReadHeader, TypeOK
  <2> QED
    BY <1>3, <2>1, <2>2, <2>3, StatsTypedPrime DEF ReadHeader, TypeOK
<1>4. ASSUME NEW c \in Conns, ReadGarbage(c) PROVE TypeOK'
  <2>1. owed' \in [Ips -> Int] /\ sent' \in Nat
    BY <1>4, SizesAssumption, <1>i DEF ReadGarbage, Owe, TypeOK
  <2>2. /\ pc' \in [Conns -> Locations] /\ left' \in [Conns -> Nat]
        /\ StatsTyped(stats') /\ settled' = settled
    BY <1>4, <1>s, ErrorType DEF ReadGarbage, Accepted, TypeOK, Locations
  <2>3. behind' \in [Conns -> Nat]
    BY <1>4, SizesAssumption DEF ReadGarbage, TypeOK
  <2>4. misread' \subseteq Conns
    BY <1>4 DEF ReadGarbage, TypeOK
  <2> QED
    BY <1>4, <2>1, <2>2, <2>3, <2>4, StatsTypedPrime DEF ReadGarbage, TypeOK
<1>5. ASSUME NEW c \in Conns, ReadBody(c) PROVE TypeOK'
  BY <1>5, GoToType DEF ReadBody, TypeOK, Locations, Statements
<1>6. ASSUME NEW c \in Conns, BodyLost(c) PROVE TypeOK'
  BY <1>6, <1>s, ErrorType, StatsTypedPrime DEF BodyLost, TypeOK
<1>7. ASSUME NEW c \in Conns, EndOfStream(c) PROVE TypeOK'
  BY <1>7, GoToType DEF EndOfStream, TypeOK, Locations
<1>8. ASSUME NEW c \in Conns, Dispatch(c) PROVE TypeOK'
  <2>1. StatsTyped(PlusOther(stats, Ip[c]))
    BY <1>s, <1>i, PlusOtherType
  <2>2. /\ pc' \in [Conns -> Locations] /\ left' \in [Conns -> Nat]
        /\ StatsTyped(stats') /\ settled' = settled
    BY <1>8, <2>1, ErrorType, NextMessageType, GoToType, SizesAssumption
    DEF Dispatch, Done, TypeOK, Locations, Statements, Pair
  <2>3. owed' \in [Ips -> Int]
    BY <1>8, OweType DEF Dispatch, Done, TypeOK
  <2>4. alone' \subseteq Conns /\ torn' \subseteq Ips
    BY <1>8, PairType DEF Dispatch, TypeOK
  <2> QED
    BY <1>8, <2>2, <2>3, <2>4, StatsTypedPrime DEF Dispatch, TypeOK
<1>9. ASSUME NEW c \in Conns, AddRoute(c) PROVE TypeOK'
  <2>1. pc' \in [Conns -> Locations] /\ left' \in [Conns -> Nat]
    BY <1>9, NextMessageType DEF AddRoute, Done, SessionsInv, TypeOK
  <2>2. owed' \in [Ips -> Int]
    BY <1>9, OweType DEF AddRoute, Done, TypeOK
  <2>3. StatsTyped(stats')
    BY <1>9, <1>s, <1>i, PlusOtherType DEF AddRoute
  <2> QED
    BY <1>9, <2>1, <2>2, <2>3, StatsTypedPrime DEF AddRoute, TypeOK
<1>10. ASSUME NEW c \in Conns, WritePeer(c) PROVE TypeOK'
  BY <1>10, GoToType, TablesType DEF WritePeer, TypeOK, Locations, Statements, Pair
<1>11. ASSUME NEW c \in Conns, WriteEvent(c) PROVE TypeOK'
  BY <1>11, NextMessageType, OweType, TablesType, PairType DEF WriteEvent, Done, TypeOK
<1>12. ASSUME NEW c \in Conns, DatabaseFails(c) PROVE TypeOK'
  <2>1. failures' \in Nat
    BY <1>12 DEF DatabaseFails, TypeOK
  <2> QED
    BY <1>12, <2>1, <1>s, ErrorType, TablesType, PairType, StatsTypedPrime
    DEF DatabaseFails, StatementMayTakeEffect, TypeOK
<1>13. ASSUME NEW c \in Conns, Cancelled(c) PROVE TypeOK'
  <2>1. cancel' \in [Conns -> BOOLEAN]
    BY <1>13 DEF Cancelled, TypeOK
  <2>2. pc' \in [Conns -> Locations] /\ left' \in [Conns -> Nat]
    BY <1>13, GoToType DEF Cancelled, Locations
  <2>3. owed' \in [Ips -> Int]
    BY <1>13, OweType DEF Cancelled, TypeOK
  <2>4. /\ peers' \in [Ips -> {"absent", "active", "inactive"}]
        /\ lastEvent' \in [Ips -> {"none", "up", "down"}]
        /\ alone' \subseteq Conns /\ torn' \subseteq Ips
    BY <1>13, TablesType, PairType DEF Cancelled, StatementMayTakeEffect, TypeOK
  <2>5. skipped' \subseteq Conns
    BY <1>13 DEF Cancelled, TypeOK
  <2> QED
    BY <1>13, <2>1, <2>2, <2>3, <2>4, <2>5 DEF Cancelled, TypeOK
<1>14. ASSUME NEW c \in Conns, Close(c) PROVE TypeOK'
  <2>1. pc' \in [Conns -> Locations] /\ left' \in [Conns -> Nat]
    BY <1>14, GoToType DEF Close, Locations
  <2>2. settled' \in [Ips -> Nat]
    BY <1>14, <1>s, <1>i, StatsOfType DEF Close, CleanUp, TypeOK
  <2>3. StatsTyped(stats') /\ active' \subseteq Conns /\ started' \subseteq Ips /\ skipped' \subseteq Conns
    BY <1>14, <1>s DEF Close, CleanUp, TypeOK, StatsTyped
  <2> QED
    BY <1>14, <2>1, <2>2, <2>3, StatsTypedPrime DEF Close, TypeOK
<1>15. CASE LogStats
  <2>1. settled' \in [Ips -> Nat]
    BY <1>15, <1>s, StatsOfType DEF LogStats, TypeOK
  <2>2. StatsTyped(stats')
    BY <1>15, <1>s, ZeroType DEF LogStats, StatsTyped
  <2> QED
    BY <1>15, <2>1, <2>2, StatsTypedPrime DEF LogStats, TypeOK
<1>16. CASE Signal
  <2>1. cancel' \in [Conns -> BOOLEAN]
    BY <1>16, Zenon DEF Signal, Live
  <2> QED
    BY <1>16, <2>1 DEF Signal, TypeOK
<1>17. CASE Stopped
  BY <1>17 DEF Stopped, TypeOK
<1>18. CASE UNCHANGED vars
  BY <1>18 DEF vars, TypeOK
<1> QED
  BY <1>1, <1>2, <1>3, <1>4, <1>5, <1>6, <1>7, <1>8, <1>9, <1>10, <1>11, <1>12, <1>13, <1>14,
     <1>15, <1>16, <1>17, <1>18 DEF Next, HandlerStep

(* A handler adds only while it has prefixes left, and a skipped clean-up     *)
(* ends the handler.                                                        *)
LEMMA SessionsInit == Init => SessionsInv
BY DEF Init, SessionsInv

LEMMA SessionsStep == TypeOK /\ SessionsInv /\ [Next]_vars => SessionsInv'
<1> SUFFICES ASSUME TypeOK, SessionsInv, [Next]_vars PROVE SessionsInv'
  OBVIOUS
<1>t. /\ pc \in [Conns -> Locations] /\ left \in [Conns -> Nat] /\ skipped \subseteq Conns
  BY DEF TypeOK
<1>v. ASSUME NEW c \in Conns, NEW l \in Locations \ {"none", "over"}, Live(c),
             pc' = [pc EXCEPT ![c] = l], UNCHANGED <<cancel, skipped>>,
             \A d \in Conns : pc'[d] = "add" => left'[d] > 0
      PROVE  SessionsInv'
  BY <1>v, <1>t DEF SessionsInv, Live
<1>h. ASSUME NEW c \in Conns, Live(c), NextMessage(c), UNCHANGED <<cancel, skipped>>
      PROVE  SessionsInv'
  BY <1>h, <1>v, <1>t DEF NextMessage, SessionsInv, Locations
<1>g. ASSUME NEW c \in Conns, NEW l \in Locations \ {"none", "over", "add"}, Live(c),
             pc' = [pc EXCEPT ![c] = l], UNCHANGED <<left, cancel, skipped>>
      PROVE  SessionsInv'
  BY <1>g, <1>v, <1>t DEF SessionsInv
<1> USE DEF session, tracking, stream, Done, Error
<1>1. ASSUME NEW c \in Conns, Connect(c) PROVE SessionsInv'
  BY <1>1, <1>t DEF Connect, NextMessage, SessionsInv, Live
<1>2. ASSUME NEW c \in Conns, Disconnect(c) PROVE SessionsInv'
  BY <1>2 DEF Disconnect, SessionsInv, Live
<1>3. ASSUME NEW c \in Conns, ReadHeader(c) \/ ReadGarbage(c) PROVE SessionsInv'
  <2>1. Live(c) /\ (NextMessage(c) \/ Accepted(c)) /\ UNCHANGED <<cancel, skipped>>
    BY <1>3 DEF ReadHeader, ReadGarbage, Live
  <2> QED
    BY <2>1, <1>h, <1>g DEF Accepted, Locations
<1>4. ASSUME NEW c \in Conns, ReadBody(c) \/ BodyLost(c) \/ EndOfStream(c) PROVE SessionsInv'
  BY <1>4, <1>h, <1>g DEF ReadBody, BodyLost, EndOfStream, GoTo, Live, Locations, Statements
<1>5. ASSUME NEW c \in Conns, Dispatch(c) PROVE SessionsInv'
  <2>1. Live(c) /\ UNCHANGED <<cancel, skipped>>
    BY <1>5 DEF Dispatch, Live
  <2>2. CASE pc' = [pc EXCEPT ![c] = "add"] /\ \E n \in 1..MaxPrefixes : left' = [left EXCEPT ![c] = n]
    <3>1. \A d \in Conns : pc'[d] = "add" => left'[d] > 0
      BY <2>2, <1>t, SizesAssumption DEF SessionsInv
    <3> QED
      BY <2>1, <2>2, <3>1, <1>v DEF Locations, Statements
  <2>3. CASE NextMessage(c) \/ GoTo(c, "upsert") \/ GoTo(c, "inactive")
    BY <2>1, <2>3, <1>h, <1>g DEF GoTo, Locations, Statements, Pair
  <2> QED
    BY <1>5, <2>2, <2>3 DEF Dispatch
<1>6. ASSUME NEW c \in Conns, AddRoute(c) PROVE SessionsInv'
  <2>1. Live(c) /\ UNCHANGED <<cancel, skipped>>
    BY <1>6 DEF AddRoute, Live
  <2>2. CASE left[c] # 1
    <3>1. left' = [left EXCEPT ![c] = @ - 1] /\ pc' = pc
      BY <1>6, <2>2 DEF AddRoute
    <3> QED
      BY <1>6, <2>1, <2>2, <3>1, <1>t DEF AddRoute, SessionsInv, Live
  <2> QED
    BY <1>6, <2>1, <2>2, <1>h DEF AddRoute
<1>7. ASSUME NEW c \in Conns, WritePeer(c) \/ WriteEvent(c) \/ DatabaseFails(c) PROVE SessionsInv'
  <2>1. Live(c) /\ UNCHANGED <<cancel, skipped>>
    BY <1>7 DEF WritePeer, WriteEvent, DatabaseFails, Upserted, MarkedInactive, EventInserted, Live,
                Statements, Pair
  <2>2. NextMessage(c) \/ GoTo(c, "upevent") \/ GoTo(c, "downevent")
    BY <1>7 DEF WritePeer, WriteEvent, DatabaseFails
  <2> QED
    BY <2>1, <2>2, <1>h, <1>g DEF GoTo, Locations, Statements, Pair
<1>8. ASSUME NEW c \in Conns, Cancelled(c) PROVE SessionsInv'
  <2>1. Live(c) /\ cancel' = [cancel EXCEPT ![c] = FALSE] /\ UNCHANGED left
    BY <1>8 DEF Cancelled, GoTo, SessionsInv
  <2>2. /\ \A d \in Conns : cancel'[d] => d # c /\ cancel[d]
    BY <2>1 DEF TypeOK
  <2>3. CASE pc' = [pc EXCEPT ![c] = "closing"] /\ UNCHANGED skipped
    BY <2>1, <2>2, <2>3, <1>t DEF SessionsInv, Live
  <2>4. CASE pc' = [pc EXCEPT ![c] = "over"] /\ skipped' = skipped \cup {c}
    BY <2>1, <2>2, <2>4, <1>t DEF SessionsInv, Live
  <2> QED
    BY <1>8, <2>3, <2>4 DEF Cancelled, GoTo
<1>9. ASSUME NEW c \in Conns, Close(c) PROVE SessionsInv'
  <2>1. pc' = [pc EXCEPT ![c] = "over"] /\ ~cancel[c] /\ UNCHANGED <<left, cancel>>
    BY <1>9 DEF Close, GoTo, Runs
  <2>2. skipped' \subseteq skipped \cup {c}
    BY <1>9 DEF Close, CleanUp
  <2> QED
    BY <2>1, <2>2, <1>t DEF SessionsInv, Live
<1>10. CASE Signal
  <2>1. \A c \in Conns : cancel'[c] => Live(c)
    BY <1>10 DEF Signal
  <2> QED
    BY <1>10, <2>1 DEF Signal, SessionsInv, Live
<1>11. CASE LogStats \/ Stopped \/ UNCHANGED vars
  BY <1>11 DEF LogStats, Stopped, vars, SessionsInv, Live
<1> QED
  BY <1>1, <1>2, <1>3, <1>4, <1>5, <1>6, <1>7, <1>8, <1>9, <1>10, <1>11 DEF Next, HandlerStep

(* What is kept of connections follows them: most steps keep every handler    *)
(* that lives alive and count only under the address of one of them.         *)
LEMMA TrackingStep ==
  TypeOK /\ SessionsInv /\ TrackingFollowsSessions /\ [Next]_vars => TrackingFollowsSessions'
<1> SUFFICES ASSUME TypeOK, SessionsInv, TrackingFollowsSessions, [Next]_vars
             PROVE  TrackingFollowsSessions'
  OBVIOUS
<1>t. /\ pc \in [Conns -> Locations] /\ skipped \subseteq Conns
      /\ StatsTyped(stats) /\ \A c \in Conns : Ip[c] \in Ips
  BY TypedStats, ConnsAssumption DEF TypeOK
<1>v. ASSUME NEW c \in Conns, NEW l \in Locations \ {"none", "over"}, Live(c),
             pc' = [pc EXCEPT ![c] = l], UNCHANGED tracking,
             DOMAIN stats' \subseteq DOMAIN stats \cup {Ip[c]}
      PROVE  TrackingFollowsSessions'
  <2>1. \A d \in Conns : Live(d)' <=> Live(d)
    BY <1>v, <1>t DEF Live
  <2>2. c \in active /\ c \in Own(Ip[c])
    BY <1>v DEF TrackingFollowsSessions, Own
  <2> QED
    BY <1>v, <2>1, <2>2 DEF TrackingFollowsSessions, tracking, Own
<1>c. ASSUME NEW c \in Conns, Live(c), NextMessage(c) \/ UNCHANGED pc, UNCHANGED tracking,
             DOMAIN stats' \subseteq DOMAIN stats \cup {Ip[c]}
      PROVE  TrackingFollowsSessions'
  <2>1. pc' = [pc EXCEPT ![c] = "header"] \/ pc' = [pc EXCEPT ![c] = pc[c]]
    BY <1>c, <1>t DEF NextMessage
  <2>2. pc[c] \in Locations \ {"none", "over"} /\ "header" \in Locations \ {"none", "over"}
    BY <1>c, <1>t DEF Live, Locations
  <2> QED
    BY <1>c, <2>1, <2>2, <1>v
<1>k. ASSUME UNCHANGED <<pc, tracking>>, DOMAIN stats' \subseteq DOMAIN stats
      PROVE  TrackingFollowsSessions'
  BY <1>k DEF TrackingFollowsSessions, tracking, Live, Own
<1>o. ASSUME NEW c \in Conns, Live(c), pc' = [pc EXCEPT ![c] = "over"],
             skipped' = skipped \cup {c}, UNCHANGED <<active, started, stats>>
      PROVE  TrackingFollowsSessions'
  <2>1. \A d \in Conns : Live(d)' <=> Live(d) /\ d # c
    BY <1>o, <1>t DEF Live
  <2> QED
    BY <1>o, <2>1 DEF TrackingFollowsSessions, Own
<1>e. ASSUME NEW c \in Conns, Error(c, stats) \/ UNCHANGED stats
      PROVE  DOMAIN stats' \subseteq DOMAIN stats \cup {Ip[c]}
  BY <1>e, <1>t, PlusErrorType DEF Error
<1>1. ASSUME NEW c \in Conns, Connect(c) PROVE TrackingFollowsSessions'
  <2>1. \A d \in Conns : Live(d)' <=> Live(d) \/ d = c
    BY <1>1, <1>t DEF Connect, NextMessage, Live
  <2> QED
    BY <1>1, <2>1 DEF Connect, TrackingFollowsSessions, counters, Own
<1>2. ASSUME NEW c \in Conns, Disconnect(c) PROVE TrackingFollowsSessions'
  BY <1>2, <1>k DEF Disconnect, session, counters
<1>3. ASSUME NEW c \in Conns, ReadHeader(c) \/ ReadGarbage(c) PROVE TrackingFollowsSessions'
  <2>1. Live(c) /\ UNCHANGED tracking
    BY <1>3 DEF ReadHeader, ReadGarbage, Live
  <2>2. CASE Error(c, stats)
    BY <2>1, <2>2, <1>c, <1>e DEF Error
  <2>3. CASE Accepted(c)
    BY <2>1, <2>3, <1>v DEF Accepted, counters, Locations
  <2> QED
    BY <1>3, <2>2, <2>3 DEF ReadHeader, ReadGarbage
<1>4. ASSUME NEW c \in Conns, ReadBody(c) \/ BodyLost(c) \/ EndOfStream(c)
      PROVE  TrackingFollowsSessions'
  <2>1. Live(c) /\ UNCHANGED tracking
    BY <1>4 DEF ReadBody, BodyLost, EndOfStream, Live
  <2>2. CASE BodyLost(c)
    BY <2>1, <2>2, <1>c, <1>e DEF BodyLost, Error
  <2>3. CASE ReadBody(c) \/ EndOfStream(c)
    BY <2>1, <2>3, <1>v DEF ReadBody, EndOfStream, GoTo, counters, Locations, Statements
  <2> QED
    BY <1>4, <2>2, <2>3
<1>5. ASSUME NEW c \in Conns, Dispatch(c) PROVE TrackingFollowsSessions'
  <2>1. Live(c) /\ UNCHANGED tracking
    BY <1>5 DEF Dispatch, Live
  <2>2. DOMAIN stats' \subseteq DOMAIN stats \cup {Ip[c]}
    <3> DEFINE s == PlusOther(stats, Ip[c])
    <3>1. StatsTyped(s) /\ DOMAIN s = DOMAIN stats \cup {Ip[c]}
      BY <1>t, PlusOtherType
    <3>2. stats' = s \/ stats' = PlusError(s, Ip[c])
      BY <1>5 DEF Dispatch, Error
    <3> HIDE DEF s
    <3>3. DOMAIN PlusError(s, Ip[c]) = DOMAIN s \cup {Ip[c]}
      BY <3>1, <1>t, PlusErrorType
    <3> QED
      BY <3>1, <3>2, <3>3
  <2>3. NextMessage(c) \/ \E l \in {"add", "upsert", "inactive"} : pc' = [pc EXCEPT ![c] = l]
    BY <1>5 DEF Dispatch, Done, Error, GoTo
  <2> QED
    BY <2>1, <2>2, <2>3, <1>c, <1>v DEF Locations, Statements, Pair
<1>6. ASSUME NEW c \in Conns, AddRoute(c) PROVE TrackingFollowsSessions'
  <2>1. Live(c) /\ UNCHANGED tracking /\ (NextMessage(c) \/ UNCHANGED pc)
    BY <1>6 DEF AddRoute, Live, Done
  <2>2. DOMAIN stats' \subseteq DOMAIN stats \cup {Ip[c]}
    BY <1>6, <1>t, PlusOtherType DEF AddRoute
  <2> QED
    BY <2>1, <2>2, <1>c
<1>7. ASSUME NEW c \in Conns, WritePeer(c) \/ WriteEvent(c) \/ DatabaseFails(c)
      PROVE  TrackingFollowsSessions'
  <2>1. Live(c) /\ UNCHANGED tracking
    BY <1>7 DEF WritePeer, WriteEvent, DatabaseFails, Upserted, MarkedInactive, EventInserted, Live,
                Statements, Pair
  <2>2. NextMessage(c) \/ \E l \in {"upevent", "downevent"} : pc' = [pc EXCEPT ![c] = l]
    BY <1>7 DEF WritePeer, WriteEvent, DatabaseFails, Done, Error, GoTo
  <2>3. DOMAIN stats' \subseteq DOMAIN stats \cup {Ip[c]}
    BY <1>7, <1>e DEF WritePeer, WriteEvent, DatabaseFails, counters
  <2> QED
    BY <2>1, <2>2, <2>3, <1>c, <1>v DEF Locations, Statements, Pair
<1>8. ASSUME NEW c \in Conns, Cancelled(c) PROVE TrackingFollowsSessions'
  <2>1. Live(c) /\ UNCHANGED <<active, started, stats>>
    BY <1>8 DEF Cancelled, SessionsInv, counters
  <2>2. CASE pc' = [pc EXCEPT ![c] = "closing"] /\ UNCHANGED skipped
    BY <2>1, <2>2, <1>v DEF Locations, tracking
  <2>3. CASE pc' = [pc EXCEPT ![c] = "over"] /\ skipped' = skipped \cup {c}
    BY <2>1, <2>3, <1>o
  <2> QED
    BY <1>8, <2>2, <2>3 DEF Cancelled, GoTo
<1>9. ASSUME NEW c \in Conns, Close(c) PROVE TrackingFollowsSessions'
  <2>1. Live(c) /\ pc[c] = "closing" /\ pc' = [pc EXCEPT ![c] = "over"]
    BY <1>9 DEF Close, GoTo, Live
  <2>2. CASE CleanUp(c)
    <3>1. \A d \in Conns : Live(d)' <=> Live(d) /\ d # c
      BY <2>1, <1>t DEF Live
    <3>2. c \notin skipped /\ UNCHANGED skipped
      BY <2>1, <2>2 DEF CleanUp, SessionsInv
    <3>3. active' = {d \in Conns : Live(d)'} \cup skipped'
      BY <2>2, <3>1, <3>2 DEF CleanUp, TrackingFollowsSessions
    <3>4. ASSUME NEW i \in DOMAIN stats' \cup started' PROVE \E d \in Own(i) : d \in active'
      <4>1. i # Ip[c] /\ i \in DOMAIN stats \cup started
        BY <2>2 DEF CleanUp
      <4>2. PICK d \in Own(i) : d \in active
        BY <4>1 DEF TrackingFollowsSessions
      <4> QED
        BY <2>2, <4>1, <4>2 DEF CleanUp, Own
    <3> QED
      BY <3>3, <3>4 DEF TrackingFollowsSessions, Own
  <2>3. CASE skipped' = skipped \cup {c} /\ UNCHANGED <<active, started, stats, settled>>
    BY <2>1, <2>3, <1>o
  <2> QED
    BY <1>9, <2>2, <2>3 DEF Close
<1>10. CASE LogStats \/ Signal \/ Stopped \/ UNCHANGED vars
  BY <1>10, <1>k DEF LogStats, Signal, Stopped, vars, session, counters
<1> QED
  BY <1>1, <1>2, <1>3, <1>4, <1>5, <1>6, <1>7, <1>8, <1>9, <1>10 DEF Next, HandlerStep

(* What two handlers of one address that are both in a pair mean for it.      *)
LEMMA AloneIsAlone ==
  ASSUME PairInv, NEW c \in alone, NEW d \in Conns, Ip[d] = Ip[c], pc[d] \in Pair
  PROVE  d = c
BY DEF PairInv, InPair, Own

(* The rows of a peer and its events: a step that begins a pair, is inside    *)
(* one, ends or breaks one is made by a handler whose pair is either alone,   *)
(* and then the address is its own, or not, and then the address is torn.    *)
LEMMA PairStep ==
  TypeOK /\ PairInv /\ StatusMatchesEvents /\ [Next]_vars => PairInv' /\ StatusMatchesEvents'
<1> SUFFICES ASSUME TypeOK, PairInv, StatusMatchesEvents, [Next]_vars
             PROVE  PairInv' /\ StatusMatchesEvents'
  OBVIOUS
<1>t. /\ pc \in [Conns -> Locations] /\ alone \subseteq Conns /\ torn \subseteq Ips
      /\ peers \in [Ips -> {"absent", "active", "inactive"}]
      /\ lastEvent \in [Ips -> {"none", "up", "down"}]
      /\ \A c \in Conns : Ip[c] \in Ips
  BY ConnsAssumption DEF TypeOK
<1>q. ASSUME \A d \in Conns : pc[d] \in Pair \/ pc'[d] \in Pair => pc'[d] = pc[d],
             UNCHANGED tables
      PROVE  PairInv' /\ StatusMatchesEvents'
  <2>1. UNCHANGED <<peers, lastEvent, alone, torn>>
    BY <1>q DEF tables
  <2>2. \A d \in Conns : /\ pc'[d] \in Pair <=> pc[d] \in Pair
                         /\ \A l \in Pair : pc'[d] = l <=> pc[d] = l
    BY <1>q
  <2>3. PairInv'
    BY <2>1, <2>2, <1>t DEF PairInv, InPair, Own, Agree, Pair
  <2>4. StatusMatchesEvents'
    BY <2>1, <2>2 DEF StatusMatchesEvents, Own, Agree
  <2> QED
    BY <2>3, <2>4
<1>m. ASSUME NEW c \in Conns, NEW l \in Locations \ Pair, pc[c] \notin Pair,
             pc' = [pc EXCEPT ![c] = l], UNCHANGED tables
      PROVE  PairInv' /\ StatusMatchesEvents'
  BY <1>m, <1>q, <1>t
<1>b. ASSUME NEW c \in Conns, NEW l \in {"upsert", "inactive"}, pc[c] \notin Pair,
             pc' = [pc EXCEPT ![c] = l], BeginPair(c), UNCHANGED <<peers, lastEvent>>
      PROVE  PairInv' /\ StatusMatchesEvents'
  <2>1. c \notin alone
    BY <1>b DEF PairInv
  <2>2. /\ \A d \in Conns : d # c => pc'[d] = pc[d]
        /\ pc'[c] = l
    BY <1>b, <1>t
  <2>3. CASE InPair(c) = {}
    <3>1. alone' = alone \cup {c} /\ torn' = torn
      BY <1>b, <2>3 DEF BeginPair
    <3>2. \A d \in Conns : Ip[d] = Ip[c] => pc[d] \notin Pair
      BY <2>3 DEF InPair, Own
    <3>3. Ip[c] \notin torn => Agree(Ip[c])
      BY <3>2, <1>t DEF StatusMatchesEvents, Own
    <3>4. \A i : Agree(i)' <=> Agree(i)
      BY <1>b DEF Agree
    <3>5. PairInv'
      BY <1>b, <2>2, <3>1, <3>2, <3>3, <3>4, <1>t DEF PairInv, InPair, Own, Pair
    <3>6. StatusMatchesEvents'
      BY <1>b, <2>2, <3>1, <3>4, <1>t DEF StatusMatchesEvents, Own, Pair
    <3> QED
      BY <3>5, <3>6
  <2>4. CASE InPair(c) # {}
    <3>1. alone' = alone \ InPair(c) /\ torn' = torn \cup {Ip[c]}
      BY <1>b, <2>4 DEF BeginPair
    <3>2. \A d \in alone' : Ip[d] # Ip[c]
      BY <3>1, <1>t DEF PairInv, InPair, Own
    <3>4. \A i : Agree(i)' <=> Agree(i)
      BY <1>b DEF Agree
    <3>5. PairInv'
      BY <1>b, <2>1, <2>2, <3>1, <3>2, <3>4, <1>t DEF PairInv, InPair, Own, Pair
    <3>6. StatusMatchesEvents'
      BY <1>b, <2>2, <3>1, <3>4, <1>t DEF StatusMatchesEvents, Own, Pair
    <3> QED
      BY <3>5, <3>6
  <2> QED
    BY <2>3, <2>4
<1>o. ASSUME NEW c \in Conns, Upserted(c) \/ MarkedInactive(c) \/ EventInserted(c)
      PROVE  /\ pc[c] \in Pair
             /\ \A i \in Ips \ {Ip[c]} : (Agree(i)' <=> Agree(i)) /\ peers'[i] = peers[i]
  BY <1>o, <1>t DEF Upserted, MarkedInactive, EventInserted, Pair, Agree
<1>w. ASSUME NEW c \in Conns, WritePeer(c) PROVE PairInv' /\ StatusMatchesEvents'
  <2>1. /\ UNCHANGED <<alone, torn>> /\ pc[c] \in Pair
        /\ pc[c] = "upsert" => pc'[c] = "upevent" /\ peers'[Ip[c]] = "active"
        /\ pc[c] # "upsert" => pc'[c] = "downevent" /\ peers'[Ip[c]] # "active"
        /\ \A d \in Conns \ {c} : pc'[d] = pc[d]
        /\ pc'[c] \in {"upevent", "downevent"}
    BY <1>w, <1>t DEF WritePeer, GoTo, Upserted, MarkedInactive, Pair
  <2>2. \A i \in Ips \ {Ip[c]} : (Agree(i)' <=> Agree(i)) /\ peers'[i] = peers[i]
    BY <1>w, <1>o DEF WritePeer
  <2>3. Ip[c] \notin torn => c \in alone
    BY <2>1 DEF PairInv
  <2>4. \A d \in Conns : c \in alone /\ Ip[d] = Ip[c] /\ pc[d] \in Pair => d = c
    BY AloneIsAlone
  <2>5. \A d \in alone : d # c => Ip[d] # Ip[c]
    BY <2>1, AloneIsAlone, <1>t
  <2>6. \A d \in Conns : pc'[d] \in Pair <=> pc[d] \in Pair
    BY <2>1 DEF Pair
  <2>7. PairInv'
    <3>1. \A d \in alone' : pc'[d] \in Pair /\ InPair(d)' = {d}
      BY <2>1, <2>6 DEF PairInv, InPair, Own
    <3>2. \A d \in alone' : /\ pc'[d] = "upevent" => peers'[Ip[d]] = "active"
                            /\ pc'[d] = "downevent" => peers'[Ip[d]] # "active"
      <4>1. \A d \in alone : d # c => pc'[d] = pc[d] /\ peers'[Ip[d]] = peers[Ip[d]]
        BY <2>1, <2>2, <2>5, <1>t
      <4> QED
        BY <2>1, <4>1 DEF PairInv, Pair
    <3>3. \A d \in Conns : pc'[d] \in Pair /\ Ip[d] \notin torn' =>
            d \in alone' /\ (pc'[d] \in {"upsert", "inactive"} => Agree(Ip[d])')
      <4>1. \A d \in Conns : d # c /\ pc'[d] \in Pair /\ Ip[d] \notin torn =>
              Ip[d] # Ip[c] /\ d \in alone /\ (pc[d] \in {"upsert", "inactive"} => Agree(Ip[d]))
        BY <2>1, <2>3, <2>4, <2>6 DEF PairInv
      <4> QED
        BY <2>1, <2>2, <2>3, <4>1, <1>t
    <3> QED
      BY <3>1, <3>2, <3>3 DEF PairInv
  <2>8. StatusMatchesEvents'
    BY <2>1, <2>2, <2>6, <1>t DEF StatusMatchesEvents, Own
  <2> QED
    BY <2>7, <2>8
<1>e. ASSUME NEW c \in Conns, WriteEvent(c) PROVE PairInv' /\ StatusMatchesEvents'
  <2>1. /\ pc[c] \in {"upevent", "downevent"} /\ UNCHANGED peers /\ EndPair(c)
        /\ lastEvent'[Ip[c]] = IF pc[c] = "upevent" THEN "up" ELSE "down"
        /\ \A d \in Conns \ {c} : pc'[d] = pc[d]
        /\ pc'[c] \notin Pair
    BY <1>e, <1>t DEF WriteEvent, EventInserted, Done, NextMessage, Pair
  <2>2. \A i \in Ips \ {Ip[c]} : (Agree(i)' <=> Agree(i)) /\ peers'[i] = peers[i]
    BY <1>e, <1>o DEF WriteEvent
  <2>3. c \in alone => Agree(Ip[c])'
    BY <2>1 DEF Agree, PairInv
  <2>4. c \notin alone => Ip[c] \in torn
    BY <2>1 DEF PairInv, Pair
  <2>5. \A d \in alone' : d # c /\ d \in alone /\ Ip[d] # Ip[c]
    BY <2>1, AloneIsAlone, <1>t DEF EndPair, Pair
  <2>6. \A d \in Conns : pc'[d] \in Pair /\ Ip[d] \notin torn' => Ip[d] # Ip[c] /\ Ip[d] \notin torn
    <3>1. \A d \in Conns : c \in alone /\ Ip[d] = Ip[c] /\ pc[d] \in Pair => d = c
      BY AloneIsAlone
    <3> QED
      BY <2>1, <2>4, <3>1 DEF EndPair
  <2>7. PairInv'
    <3>1. \A d \in alone' : pc'[d] \in Pair /\ InPair(d)' = {d}
      BY <2>1, <2>5, <1>t DEF PairInv, InPair, Own
    <3>2. \A d \in alone' : /\ pc'[d] = "upevent" => peers'[Ip[d]] = "active"
                            /\ pc'[d] = "downevent" => peers'[Ip[d]] # "active"
      BY <2>1, <2>5, <1>t DEF PairInv
    <3>3. \A d \in Conns : pc'[d] \in Pair /\ Ip[d] \notin torn' =>
            d \in alone' /\ (pc'[d] \in {"upsert", "inactive"} => Agree(Ip[d])')
      BY <2>1, <2>2, <2>6, <1>t DEF PairInv, EndPair
    <3> QED
      BY <3>1, <3>2, <3>3 DEF PairInv
  <2>8. StatusMatchesEvents'
    <3>1. ASSUME NEW i \in Ips \ torn', \A d \in Own(i) : pc'[d] \notin Pair PROVE Agree(i)'
      <4>1. CASE i = Ip[c]
        BY <2>1, <2>3, <2>4, <3>1, <4>1 DEF EndPair
      <4>2. CASE i # Ip[c]
        <5>1. i \notin torn /\ \A d \in Own(i) : pc[d] \notin Pair
          BY <2>1, <3>1, <4>2 DEF EndPair, Own
        <5> QED
          BY <2>2, <4>2, <5>1, <3>1 DEF StatusMatchesEvents
      <4> QED
        BY <4>1, <4>2
    <3> QED
      BY <3>1 DEF StatusMatchesEvents, Own
  <2> QED
    BY <2>7, <2>8
<1>x. ASSUME NEW c \in Conns, NEW l \in Locations \ Pair, pc' = [pc EXCEPT ![c] = l],
             StatementMayTakeEffect(c), BreakPair(c)
      PROVE  PairInv' /\ StatusMatchesEvents'
  <2>1. CASE pc[c] \notin Pair
    <3>1. UNCHANGED tables
      BY <1>x, <1>o, <2>1 DEF tables, StatementMayTakeEffect, BreakPair, PairInv
    <3> QED
      BY <1>x, <2>1, <3>1, <1>m
  <2>2. CASE pc[c] \in Pair
    <3>1. alone' = alone \ {c} /\ torn' = torn \cup {Ip[c]}
      BY <1>x, <2>2 DEF BreakPair
    <3>2. \A i \in Ips \ {Ip[c]} : (Agree(i)' <=> Agree(i)) /\ peers'[i] = peers[i]
      BY <1>x, <1>o DEF StatementMayTakeEffect, Agree
    <3>3. \A d \in alone' : d # c /\ d \in alone /\ Ip[d] # Ip[c]
      BY <2>2, <3>1, AloneIsAlone
    <3>4. (\A d \in Conns \ {c} : pc'[d] = pc[d]) /\ pc'[c] \notin Pair
      BY <1>x, <1>t
    <3>5. PairInv'
      <4>1. \A d \in alone' : pc'[d] \in Pair /\ InPair(d)' = {d}
        BY <3>3, <3>4, <1>t DEF PairInv, InPair, Own
      <4>2. \A d \in alone' : /\ pc'[d] = "upevent" => peers'[Ip[d]] = "active"
                              /\ pc'[d] = "downevent" => peers'[Ip[d]] # "active"
        BY <3>2, <3>3, <3>4, <1>t DEF PairInv
      <4>3. \A d \in Conns : pc'[d] \in Pair /\ Ip[d] \notin torn' =>
              d \in alone' /\ (pc'[d] \in {"upsert", "inactive"} => Agree(Ip[d])')
        BY <3>1, <3>2, <3>4, <1>t DEF PairInv
      <4> QED
        BY <4>1, <4>2, <4>3 DEF PairInv
    <3>6. StatusMatchesEvents'
      <4>1. ASSUME NEW i \in Ips \ torn', \A d \in Own(i) : pc'[d] \notin Pair PROVE Agree(i)'
        <5>1. i # Ip[c] /\ i \notin torn /\ \A d \in Own(i) : pc[d] \notin Pair
          BY <3>1, <3>4, <4>1 DEF Own
        <5> QED
          BY <3>2, <5>1, <4>1 DEF StatusMatchesEvents
      <4> QED
        BY <4>1 DEF StatusMatchesEvents, Own
    <3> QED
      BY <3>5, <3>6
  <2> QED
    BY <2>1, <2>2
<1>n. ASSUME NEW c \in Conns, pc[c] \notin Pair, NextMessage(c) \/ UNCHANGED pc, UNCHANGED tables
      PROVE  PairInv' /\ StatusMatchesEvents'
  <2>1. CASE NextMessage(c)
    BY <1>n, <2>1, <1>m DEF NextMessage, Locations, Pair
  <2>2. CASE UNCHANGED pc
    BY <1>n, <2>2, <1>q
  <2> QED
    BY <1>n, <2>1, <2>2
<1>1. ASSUME NEW c \in Conns, Connect(c) \/ Disconnect(c) PROVE PairInv' /\ StatusMatchesEvents'
  <2>1. CASE Connect(c)
    BY <2>1, <1>n DEF Connect, Pair
  <2>2. CASE Disconnect(c)
    BY <2>2, <1>q DEF Disconnect, session
  <2> QED
    BY <1>1, <2>1, <2>2
<1>2. ASSUME NEW c \in Conns, ReadHeader(c) \/ ReadGarbage(c) PROVE PairInv' /\ StatusMatchesEvents'
  <2>1. pc[c] \notin Pair /\ UNCHANGED tables
    BY <1>2 DEF ReadHeader, ReadGarbage, Pair
  <2>2. NextMessage(c) \/ pc' = [pc EXCEPT ![c] = "body"]
    BY <1>2 DEF ReadHeader, ReadGarbage, Error, Accepted
  <2> QED
    BY <2>1, <2>2, <1>n, <1>m DEF Locations, Pair
<1>3. ASSUME NEW c \in Conns, ReadBody(c) \/ BodyLost(c) \/ EndOfStream(c) \/ AddRoute(c) \/ Close(c)
      PROVE  PairInv' /\ StatusMatchesEvents'
  <2>1. pc[c] \notin Pair /\ UNCHANGED tables
    BY <1>3 DEF ReadBody, BodyLost, EndOfStream, AddRoute, Close, Pair
  <2>2. NextMessage(c) \/ UNCHANGED pc \/ \E l \in {"seen", "closing", "over"} : pc' = [pc EXCEPT ![c] = l]
    BY <1>3 DEF ReadBody, BodyLost, EndOfStream, AddRoute, Close, Error, Done, GoTo
  <2> QED
    BY <2>1, <2>2, <1>n, <1>m DEF Locations, Statements, Pair
<1>4. ASSUME NEW c \in Conns, Dispatch(c) PROVE PairInv' /\ StatusMatchesEvents'
  <2>1. pc[c] \notin Pair /\ UNCHANGED <<peers, lastEvent>>
    BY <1>4 DEF Dispatch, Pair
  <2>2. \/ UNCHANGED <<alone, torn>> /\ (NextMessage(c) \/ pc' = [pc EXCEPT ![c] = "add"])
        \/ BeginPair(c) /\ \E l \in {"upsert", "inactive"} : pc' = [pc EXCEPT ![c] = l]
    BY <1>4 DEF Dispatch, Done, Error, GoTo
  <2> QED
    BY <2>1, <2>2, <1>n, <1>m, <1>b DEF Locations, Statements, Pair, tables
<1>5. ASSUME NEW c \in Conns, DatabaseFails(c) PROVE PairInv' /\ StatusMatchesEvents'
  BY <1>5, <1>x DEF DatabaseFails, Error, NextMessage, Locations, Pair
<1>6. ASSUME NEW c \in Conns, Cancelled(c) PROVE PairInv' /\ StatusMatchesEvents'
  <2>1. CASE pc' = [pc EXCEPT ![c] = "closing"] /\ StatementMayTakeEffect(c) /\ BreakPair(c)
    BY <2>1, <1>x DEF Locations, Pair
  <2>2. CASE pc[c] = "closing" /\ pc' = [pc EXCEPT ![c] = "over"] /\ UNCHANGED tables
    BY <2>2, <1>m DEF Locations, Pair
  <2> QED
    BY <1>6, <2>1, <2>2 DEF Cancelled, GoTo
<1>7. CASE LogStats \/ Signal \/ Stopped \/ UNCHANGED vars
  BY <1>7, <1>q DEF LogStats, Signal, Stopped, vars, session
<1> QED
  BY <1>1, <1>2, <1>3, <1>4, <1>5, <1>6, <1>7, <1>w, <1>e DEF Next, HandlerStep

-----------------------------------------------------------------------------
(* The messages: a handler weighs 1 while it has one.                        *)
Weight(l) == IF l \in Statements \cup {"body"} THEN 1 ELSE 0

LEMMA WorkingMoves ==
  ASSUME TypeOK, NEW c \in Conns, NEW l \in Locations, pc' = [pc EXCEPT ![c] = l]
  PROVE  /\ Cardinality(Working(Ip[c])) \in Nat
         /\ Cardinality(Working(Ip[c])') = Cardinality(Working(Ip[c])) + Weight(l) - Weight(pc[c])
         /\ \A i \in Ips \ {Ip[c]} : Working(i)' = Working(i)
<1>1. (\A d \in Conns \ {c} : pc'[d] = pc[d]) /\ pc'[c] = l
  BY DEF TypeOK
<1>2. \A i \in Ips \ {Ip[c]} : Working(i)' = Working(i)
  BY <1>1 DEF Working, Own, InMessage
<1> DEFINE W == Working(Ip[c])
           V == Working(Ip[c])'
           In(m) == m \in Statements \cup {"body"}
<1>3. /\ c \in W <=> In(pc[c])
      /\ c \in V <=> In(l)
      /\ W \ {c} = V \ {c}
  BY <1>1 DEF Working, Own, InMessage
<1>4. IsFiniteSet(W)
  BY FS_Subset, ConnsAssumption DEF Working, Own
<1> HIDE DEF W, V
<1>5. Cardinality(W) \in Nat /\ IsFiniteSet(W \ {c})
  BY <1>4, FS_CardinalityType, FS_RemoveElement
<1>6. V = IF In(l) THEN (W \ {c}) \cup {c} ELSE W \ {c}
  BY <1>3
<1>7. Cardinality(W \ {c}) = Cardinality(W) - Weight(pc[c])
  BY <1>3, <1>4, <1>5, FS_RemoveElement DEF Weight
<1>8. Cardinality(V) = Cardinality(W \ {c}) + Weight(l)
  <2>1. CASE In(l)
    BY <2>1, <1>5, <1>6, FS_AddElement DEF Weight
  <2>2. CASE ~In(l)
    BY <2>2, <1>5, <1>6, FS_CardinalityType DEF Weight
  <2> QED
    BY <2>1, <2>2
<1>9. Cardinality(V) = Cardinality(W) + Weight(l) - Weight(pc[c])
  BY <1>5, <1>7, <1>8 DEF Weight
<1> QED
  BY <1>2, <1>5, <1>9 DEF W, V

(* A step of one handler that owes no more than it pays keeps the accounts.   *)
LEMMA Balance ==
  ASSUME TypeOK, TypeOK', EveryMessageIsAccounted,
         NEW c \in Conns, NEW l \in Locations, pc' = [pc EXCEPT ![c] = l],
         misread \subseteq misread',
         \A i \in Ips \ {Ip[c]} : /\ owed'[i] = owed[i] /\ settled'[i] = settled[i]
                                  /\ StatsOf(stats', i).errors = StatsOf(stats, i).errors,
         \/ c \in misread'
         \/ owed'[Ip[c]] - owed[Ip[c]] <=
              (settled'[Ip[c]] - settled[Ip[c]])
                + (StatsOf(stats', Ip[c]).errors - StatsOf(stats, Ip[c]).errors)
                + (Weight(l) - Weight(pc[c]))
  PROVE  EveryMessageIsAccounted'
<1>s. StatsTyped(stats) /\ StatsTyped(stats') /\ Ip[c] \in Ips
  BY ConnsAssumption DEF TypeOK, StatsTyped
<1>1. SUFFICES ASSUME NEW i \in Ips, Own(i) \cap misread' = {}
               PROVE  owed'[i] <= settled'[i] + StatsOf(stats', i).errors + Cardinality(Working(i)')
  BY DEF EveryMessageIsAccounted, Own, StatsOf
<1>2. owed[i] <= settled[i] + StatsOf(stats, i).errors + Cardinality(Working(i))
  BY <1>1 DEF EveryMessageIsAccounted
<1>3. CASE i # Ip[c]
  BY <1>2, <1>3, WorkingMoves
<1>4. CASE i = Ip[c]
  <2>1. c \notin misread'
    BY <1>1, <1>4 DEF Own
  <2>2. /\ owed[i] \in Int /\ owed'[i] \in Int /\ settled[i] \in Int /\ settled'[i] \in Int
    BY DEF TypeOK
  <2>3. StatsOf(stats, i).errors \in Int /\ StatsOf(stats', i).errors \in Int
    BY <1>s, StatsOfType
  <2>4. /\ Cardinality(Working(i)) \in Int
        /\ Cardinality(Working(i)') = Cardinality(Working(i)) + Weight(l) - Weight(pc[c])
    <3>1. /\ Cardinality(Working(Ip[c])) \in Nat
          /\ Cardinality(Working(Ip[c])') = Cardinality(Working(Ip[c])) + Weight(l) - Weight(pc[c])
      BY WorkingMoves
    <3>2. Working(i) = Working(Ip[c]) /\ Working(i)' = Working(Ip[c])'
      BY <1>4 DEF Working, Own, InMessage
    <3> QED
      BY <3>1, <3>2
  <2>5. Weight(l) \in Int /\ Weight(pc[c]) \in Int
    BY DEF Weight
  <2> QED
    BY <1>2, <1>4, <2>1, <2>2, <2>3, <2>4, <2>5
<1> QED
  BY <1>3, <1>4

(* owed grows by n under c's address. *)
Owes(c, n) == /\ owed'[Ip[c]] = owed[Ip[c]] + n
              /\ \A i \in Ips \ {Ip[c]} : owed'[i] = owed[i]

LEMMA OweOwes ==
  ASSUME TypeOK, NEW c \in Conns
  PROVE  /\ \A n \in Int : Owe(c, n) => Owes(c, n)
         /\ UNCHANGED owed => Owes(c, 0)
BY ConnsAssumption DEF TypeOK, Owe, Owes

LEMMA WeightType == \A l : Weight(l) \in {0, 1}
BY DEF Weight

LEMMA AccountStep ==
  TypeOK /\ TypeOK' /\ SessionsInv /\ EveryMessageIsAccounted /\ [Next]_vars => EveryMessageIsAccounted'
<1> SUFFICES ASSUME TypeOK, TypeOK', SessionsInv, EveryMessageIsAccounted, [Next]_vars
             PROVE  EveryMessageIsAccounted'
  OBVIOUS
<1>t. /\ pc \in [Conns -> Locations] /\ StatsTyped(stats) /\ \A c \in Conns : Ip[c] \in Ips
      /\ settled \in [Ips -> Nat] /\ owed \in [Ips -> Int]
  BY TypedStats, ConnsAssumption DEF TypeOK
<1>n. \A i \in Ips : StatsOf(stats, i).errors \in Int /\ settled[i] \in Int /\ owed[i] \in Int
  BY <1>t, StatsOfType
<1>a. ASSUME NEW c \in Conns, NEW l \in Locations, pc' = [pc EXCEPT ![c] = l], NEW n \in Int,
             Owes(c, n), n <= Weight(l) - Weight(pc[c]), UNCHANGED settled, misread \subseteq misread',
             \A i \in Ips : StatsOf(stats', i).errors = StatsOf(stats, i).errors
      PROVE  EveryMessageIsAccounted'
  <2>1. /\ Weight(l) \in Int /\ Weight(pc[c]) \in Int
        /\ owed'[Ip[c]] - owed[Ip[c]] = n
    BY <1>a, <1>n, <1>t, WeightType DEF Owes
  <2>2. owed'[Ip[c]] - owed[Ip[c]] <=
              (settled'[Ip[c]] - settled[Ip[c]])
                + (StatsOf(stats', Ip[c]).errors - StatsOf(stats, Ip[c]).errors)
                + (Weight(l) - Weight(pc[c]))
    BY <1>a, <1>n, <1>t, <2>1
  <2> QED
    BY <1>a, <2>2, Balance DEF Owes
<1>e. ASSUME NEW c \in Conns, NEW s, StatsTyped(s), Error(c, s), NEW n \in Int, Owes(c, n),
             misread \subseteq misread', c \in misread' \/ n <= 1 - Weight(pc[c]),
             \A i \in Ips : StatsOf(s, i).errors = StatsOf(stats, i).errors
      PROVE  EveryMessageIsAccounted'
  <2>1. /\ pc' = [pc EXCEPT ![c] = "header"] /\ UNCHANGED settled /\ "header" \in Locations
        /\ stats' = PlusError(s, Ip[c])
    BY <1>e DEF Error, NextMessage, Locations
  <2>2. /\ StatsOf(stats', Ip[c]).errors = StatsOf(stats, Ip[c]).errors + 1
        /\ \A i \in Ips \ {Ip[c]} : StatsOf(stats', i).errors = StatsOf(stats, i).errors
    <3>1. Ip[c] \in Ips
      BY <1>t
    <3>2. /\ StatsOf(PlusError(s, Ip[c]), Ip[c]).errors = StatsOf(s, Ip[c]).errors + 1
          /\ \A i \in Ips \ {Ip[c]} : StatsOf(PlusError(s, Ip[c]), i) = StatsOf(s, i)
      BY <1>e, <3>1, PlusErrorType
    <3> QED
      BY <1>e, <2>1, <3>1, <3>2
  <2>3. /\ Weight("header") = 0 /\ Weight(pc[c]) \in Int
        /\ owed'[Ip[c]] - owed[Ip[c]] = n
    BY <1>e, <1>n, <1>t, WeightType DEF Owes, Weight, Statements, Pair
  <2>4. \/ c \in misread'
        \/ owed'[Ip[c]] - owed[Ip[c]] <=
             (settled'[Ip[c]] - settled[Ip[c]])
               + (StatsOf(stats', Ip[c]).errors - StatsOf(stats, Ip[c]).errors)
               + (Weight("header") - Weight(pc[c]))
    BY <1>e, <1>n, <1>t, <2>1, <2>2, <2>3
  <2> QED
    BY <1>e, <2>1, <2>2, <2>4, Balance DEF Owes
<1>k. ASSUME UNCHANGED <<pc, owed, misread>>,
             \A i \in Ips : settled'[i] + StatsOf(stats', i).errors = settled[i] + StatsOf(stats, i).errors
      PROVE  EveryMessageIsAccounted'
  <2>1. \A i \in Ips : Working(i)' = Working(i)
    BY <1>k DEF Working, Own, InMessage
  <2>2. StatsTyped(stats')
    BY DEF TypeOK, StatsTyped
  <2>3. ASSUME NEW i \in Ips, Own(i) \cap misread' = {}
        PROVE  owed'[i] <= settled'[i] + StatsOf(stats', i).errors + Cardinality(Working(i)')
    BY <1>k, <2>1, <2>3 DEF EveryMessageIsAccounted
  <2> QED
    BY <2>3 DEF EveryMessageIsAccounted, Own, StatsOf
<1>w. /\ \A l \in Statements \cup {"body"} : Weight(l) = 1
      /\ \A l \in {"none", "header", "closing", "over"} : Weight(l) = 0
  BY DEF Weight, Statements, Pair
<1>o. ASSUME NEW c \in Conns
      PROVE  /\ StatsTyped(PlusOther(stats, Ip[c]))
             /\ \A i \in Ips : StatsOf(PlusOther(stats, Ip[c]), i).errors = StatsOf(stats, i).errors
  <2>1. Ip[c] \in Ips
    BY <1>t
  <2> QED
    BY <2>1, <1>t, PlusOtherType
<1>u. ASSUME NEW c \in Conns, NEW l \in Locations, pc' = [pc EXCEPT ![c] = l],
             UNCHANGED <<settled, misread>>,
             UNCHANGED stats \/ stats' = PlusOther(stats, Ip[c]),
             \/ Owes(c, 0) /\ Weight(pc[c]) = Weight(l)
             \/ Owes(c, 1) /\ Weight(pc[c]) = 0 /\ Weight(l) = 1
             \/ Owes(c, -1) /\ Weight(pc[c]) = 1 /\ Weight(l) = 0
      PROVE  EveryMessageIsAccounted'
  <2>1. misread \subseteq misread' /\ \A i \in Ips : StatsOf(stats', i).errors = StatsOf(stats, i).errors
    BY <1>u, <1>o
  <2>2. PICK n \in {-1, 0, 1} : Owes(c, n) /\ n = Weight(l) - Weight(pc[c])
    BY <1>u, WeightType
  <2>3. n \in Int /\ n <= Weight(l) - Weight(pc[c])
    BY <2>2
  <2> QED
    BY <1>u, <2>1, <2>2, <2>3, <1>a
<1>f. ASSUME NEW c \in Conns, Error(c, stats), UNCHANGED misread,
             \/ Owes(c, 0)
             \/ Owes(c, 1) /\ Weight(pc[c]) = 0
      PROVE  EveryMessageIsAccounted'
  <2>1. PICK n \in {0, 1} : Owes(c, n) /\ n <= 1 - Weight(pc[c])
    BY <1>f, WeightType
  <2>2. misread \subseteq misread' /\ n \in Int
    BY <1>f
  <2> QED
    BY <1>f, <1>t, <2>1, <2>2, <1>e
<1>1. ASSUME NEW c \in Conns, Connect(c) PROVE EveryMessageIsAccounted'
  <2>1. Owes(c, 0) /\ pc' = [pc EXCEPT ![c] = "header"] /\ UNCHANGED <<settled, stats, misread>>
    BY <1>1, OweOwes DEF Connect, NextMessage, stream, counters
  <2>2. Weight(pc[c]) = Weight("header") /\ "header" \in Locations
    BY <1>1, <1>w DEF Connect, Locations
  <2> QED
    BY <2>1, <2>2, <1>u
<1>2. ASSUME NEW c \in Conns, Disconnect(c) PROVE EveryMessageIsAccounted'
  BY <1>2, <1>k DEF Disconnect, session, counters
<1>3. ASSUME NEW c \in Conns, ReadHeader(c) PROVE EveryMessageIsAccounted'
  <2>1. Owes(c, 1) /\ misread' = misread /\ pc[c] = "header"
    BY <1>3, OweOwes DEF ReadHeader
  <2>2. CASE Error(c, stats)
    BY <2>1, <2>2, <1>f, <1>w
  <2>3. CASE Accepted(c)
    <3>1. /\ pc' = [pc EXCEPT ![c] = "body"] /\ "body" \in Locations
          /\ UNCHANGED <<settled, stats>>
      BY <2>3 DEF Accepted, Locations, counters
    <3> QED
      BY <2>1, <3>1, <1>u, <1>w
  <2> QED
    BY <1>3, <2>2, <2>3 DEF ReadHeader
<1>4. ASSUME NEW c \in Conns, ReadGarbage(c) PROVE EveryMessageIsAccounted'
  <2>1. misread \subseteq misread' /\ pc[c] = "header"
    BY <1>4 DEF ReadGarbage
  <2>2. CASE Error(c, stats) /\ (Owes(c, 0) \/ Owes(c, 1))
    <3>1. \A n \in {0, 1} : n \in Int /\ n <= 1 - Weight(pc[c])
      BY <2>1, <1>w
    <3> QED
      BY <2>1, <2>2, <3>1, <1>e, <1>t
  <2>3. CASE Accepted(c) /\ Owes(c, 1) /\ UNCHANGED misread
    <3>1. /\ pc' = [pc EXCEPT ![c] = "body"] /\ "body" \in Locations
          /\ UNCHANGED <<settled, stats>>
      BY <2>3 DEF Accepted, Locations, counters
    <3> QED
      BY <2>1, <2>3, <3>1, <1>u, <1>w
  <2>4. CASE c \in misread' /\ Accepted(c) /\ \E n \in Int : Owes(c, n)
    <3>1. /\ pc' = [pc EXCEPT ![c] = "body"] /\ "body" \in Locations
          /\ UNCHANGED <<settled, stats>>
      BY <2>4 DEF Accepted, Locations, counters
    <3> QED
      BY <2>1, <2>4, <3>1, Balance DEF Owes
  <2>5. \/ Error(c, stats) /\ (UNCHANGED owed \/ Owe(c, 1))
        \/ Accepted(c) /\ Owe(c, 1) /\ UNCHANGED misread
        \/ c \in misread' /\ Accepted(c) /\ \E n \in sent + 1..MaxMessages : Owe(c, 1 + n - sent)
    BY <1>4 DEF ReadGarbage
  <2>6. \A n \in sent + 1..MaxMessages : 1 + n - sent \in Int
    BY SizesAssumption DEF TypeOK
  <2> QED
    BY <2>2, <2>3, <2>4, <2>5, <2>6, OweOwes
<1>5. ASSUME NEW c \in Conns, ReadBody(c) \/ BodyLost(c) \/ EndOfStream(c)
      PROVE  EveryMessageIsAccounted'
  <2>1. Owes(c, 0) /\ misread' = misread
    BY <1>5, OweOwes DEF ReadBody, BodyLost, EndOfStream, stream
  <2>2. CASE BodyLost(c)
    BY <2>1, <2>2, <1>f DEF BodyLost
  <2>3. CASE ReadBody(c)
    <3>1. /\ pc[c] = "body" /\ pc' = [pc EXCEPT ![c] = "seen"] /\ UNCHANGED <<settled, stats>>
          /\ "seen" \in Locations \cap Statements
      BY <2>3 DEF ReadBody, GoTo, counters, Locations, Statements
    <3> QED
      BY <2>1, <3>1, <1>u, <1>w
  <2>4. CASE EndOfStream(c)
    <3>1. /\ pc[c] = "header" /\ pc' = [pc EXCEPT ![c] = "closing"] /\ UNCHANGED <<settled, stats>>
          /\ "closing" \in Locations
      BY <2>4 DEF EndOfStream, GoTo, counters, Locations
    <3> QED
      BY <2>1, <3>1, <1>u, <1>w
  <2> QED
    BY <1>5, <2>2, <2>3, <2>4
<1>6. ASSUME NEW c \in Conns, Dispatch(c) PROVE EveryMessageIsAccounted'
  <2> DEFINE s == PlusOther(stats, Ip[c])
  <2>1. StatsTyped(s) /\ \A i \in Ips : StatsOf(s, i).errors = StatsOf(stats, i).errors
    BY <1>o
  <2>2. pc[c] = "seen" /\ misread' = misread /\ "seen" \in Statements
    BY <1>6 DEF Dispatch, stream, Statements
  <2>3. \/ Done(c) /\ stats' = s /\ UNCHANGED settled
        \/ Error(c, s) /\ UNCHANGED owed
        \/ /\ \E l \in {"add", "upsert", "inactive"} : pc' = [pc EXCEPT ![c] = l]
           /\ stats' = s /\ UNCHANGED <<settled, owed>>
    BY <1>6 DEF Dispatch, GoTo
  <2> HIDE DEF s
  <2>4. CASE Done(c) /\ stats' = s /\ UNCHANGED settled
    <3>1. Owes(c, -1) /\ pc' = [pc EXCEPT ![c] = "header"] /\ "header" \in Locations
      BY <2>4, OweOwes DEF Done, NextMessage, Locations
    <3>2. stats' = PlusOther(stats, Ip[c])
      BY <2>4 DEF s
    <3> QED
      BY <2>2, <2>4, <3>1, <3>2, <1>u, <1>w
  <2>5. CASE Error(c, s) /\ UNCHANGED owed
    <3>1. Owes(c, 0) /\ 0 <= 1 - Weight(pc[c]) /\ misread \subseteq misread'
      BY <2>2, <2>5, OweOwes, WeightType
    <3> QED
      BY <2>1, <2>5, <3>1, <1>e
  <2>6. CASE /\ \E l \in {"add", "upsert", "inactive"} : pc' = [pc EXCEPT ![c] = l]
             /\ stats' = s /\ UNCHANGED <<settled, owed>>
    <3>1. Owes(c, 0) /\ {"add", "upsert", "inactive"} \subseteq Statements \cap Locations
      BY <2>6, OweOwes DEF Statements, Pair, Locations
    <3>2. stats' = PlusOther(stats, Ip[c])
      BY <2>6 DEF s
    <3>3. PICK l \in {"add", "upsert", "inactive"} : pc' = [pc EXCEPT ![c] = l]
      BY <2>6
    <3>4. l \in Locations /\ Weight(pc[c]) = Weight(l)
      BY <2>2, <3>1, <1>w
    <3> QED
      BY <2>2, <2>6, <3>1, <3>2, <3>3, <3>4, <1>u
  <2> QED
    BY <2>3, <2>4, <2>5, <2>6
<1>7. ASSUME NEW c \in Conns, AddRoute(c) PROVE EveryMessageIsAccounted'
  <2>1. /\ stats' = PlusOther(stats, Ip[c])
        /\ pc[c] = "add" /\ UNCHANGED <<misread, settled>>
    BY <1>7 DEF AddRoute, stream
  <2>2. CASE Done(c)
    <3>1. /\ Owes(c, -1) /\ pc' = [pc EXCEPT ![c] = "header"]
          /\ "header" \in Locations /\ pc[c] \in Statements
      BY <2>1, <2>2, OweOwes DEF Done, NextMessage, Locations, Statements
    <3> QED
      BY <2>1, <3>1, <1>u, <1>w
  <2>3. CASE UNCHANGED <<pc, owed>>
    <3>1. Owes(c, 0) /\ pc' = [pc EXCEPT ![c] = pc[c]] /\ pc[c] \in Locations
      BY <2>3, OweOwes, <1>t
    <3> QED
      BY <2>1, <3>1, <1>u
  <2> QED
    BY <1>7, <2>2, <2>3 DEF AddRoute
<1>8. ASSUME NEW c \in Conns, WritePeer(c) \/ WriteEvent(c) PROVE EveryMessageIsAccounted'
  <2>1. /\ pc[c] \in Statements /\ UNCHANGED <<misread, settled, stats>>
    BY <1>8 DEF WritePeer, WriteEvent, Upserted, MarkedInactive, EventInserted, stream, counters,
                Statements, Pair
  <2>2. CASE WritePeer(c)
    <3>1. Owes(c, 0) /\ \E l \in {"upevent", "downevent"} : pc' = [pc EXCEPT ![c] = l]
      BY <2>2, OweOwes DEF WritePeer, GoTo
    <3>2. {"upevent", "downevent"} \subseteq Statements \cap Locations
      BY DEF Locations, Statements, Pair
    <3> QED
      BY <2>1, <3>1, <3>2, <1>u, <1>w
  <2>3. CASE WriteEvent(c)
    <3>1. Owes(c, -1) /\ pc' = [pc EXCEPT ![c] = "header"] /\ "header" \in Locations
      BY <2>3, OweOwes DEF WriteEvent, Done, NextMessage, Locations
    <3> QED
      BY <2>1, <3>1, <1>u, <1>w
  <2> QED
    BY <1>8, <2>2, <2>3
<1>9. ASSUME NEW c \in Conns, DatabaseFails(c) PROVE EveryMessageIsAccounted'
  <2>1. Owes(c, 0) /\ misread' = misread /\ pc[c] \in Statements /\ Error(c, stats)
    BY <1>9, OweOwes DEF DatabaseFails, stream
  <2> QED
    BY <2>1, <1>f
<1>10. ASSUME NEW c \in Conns, Cancelled(c) PROVE EveryMessageIsAccounted'
  <2>1. UNCHANGED <<misread, settled, stats>> /\ Live(c) /\ "closing" \in Locations /\ "over" \in Locations
    BY <1>10 DEF Cancelled, stream, counters, SessionsInv, Locations
  <2>2. CASE InMessage(c) /\ pc' = [pc EXCEPT ![c] = "closing"] /\ Owe(c, -1)
    <3>1. Owes(c, -1)
      BY <2>2, OweOwes
    <3>2. Weight(pc[c]) = 1
      BY <2>2, <1>w DEF InMessage
    <3> QED
      BY <2>1, <2>2, <3>1, <3>2, <1>u, <1>w
  <2>3. CASE /\ ~InMessage(c) /\ UNCHANGED owed
             /\ pc' = [pc EXCEPT ![c] = "closing"] \/ pc' = [pc EXCEPT ![c] = "over"]
    <3>1. Owes(c, 0) /\ Weight(pc[c]) = 0
      BY <2>3, OweOwes DEF InMessage, Weight
    <3> QED
      BY <2>1, <2>3, <3>1, <1>u, <1>w
  <2> QED
    BY <1>10, <2>2, <2>3 DEF Cancelled, GoTo, InMessage, Statements, Pair
<1>11. ASSUME NEW c \in Conns, Close(c) PROVE EveryMessageIsAccounted'
  <2>1. /\ UNCHANGED <<misread, owed>> /\ pc' = [pc EXCEPT ![c] = "over"] /\ "over" \in Locations
        /\ Weight(pc[c]) = 0 /\ Weight("over") = 0 /\ Owes(c, 0)
    BY <1>11, <1>w, OweOwes DEF Close, GoTo, stream, Locations
  <2>2. CASE UNCHANGED <<stats, settled>>
    BY <2>1, <2>2, <1>u
  <2>3. CASE CleanUp(c)
    <3>1. /\ settled'[Ip[c]] = settled[Ip[c]] + StatsOf(stats, Ip[c]).errors
          /\ StatsOf(stats', Ip[c]).errors = 0
          /\ \A i \in Ips \ {Ip[c]} : settled'[i] = settled[i] /\ StatsOf(stats', i) = StatsOf(stats, i)
      BY <2>3, <1>t DEF CleanUp, StatsOf, Zero
    <3>2. owed'[Ip[c]] - owed[Ip[c]] <=
              (settled'[Ip[c]] - settled[Ip[c]])
                + (StatsOf(stats', Ip[c]).errors - StatsOf(stats, Ip[c]).errors)
                + (Weight("over") - Weight(pc[c]))
      BY <2>1, <3>1, <1>n, <1>t
    <3> QED
      BY <2>1, <3>1, <3>2, Balance DEF Owes
  <2> QED
    BY <1>11, <2>2, <2>3 DEF Close
<1>12. CASE LogStats
  <2>1. \A i \in Ips : /\ settled'[i] = settled[i] + StatsOf(stats, i).errors
                       /\ StatsOf(stats', i).errors = 0
    BY <1>12 DEF LogStats, StatsOf, Zero
  <2>2. \A i \in Ips : settled'[i] + StatsOf(stats', i).errors = settled[i] + StatsOf(stats, i).errors
    BY <2>1, <1>n
  <2> QED
    BY <1>12, <2>2, <1>k DEF LogStats, session, stream
<1>13. CASE Signal \/ Stopped \/ UNCHANGED vars
  BY <1>13, <1>k DEF Signal, Stopped, vars, session, stream, counters
<1> QED
  BY <1>1, <1>2, <1>3, <1>4, <1>5, <1>6, <1>7, <1>8, <1>9, <1>10, <1>11, <1>12, <1>13
  DEF Next, HandlerStep

-----------------------------------------------------------------------------
(* The inductive invariant holds of the initial state.                      *)
LEMMA IInvInit == Init => IInv
<1> SUFFICES ASSUME Init PROVE IInv
  OBVIOUS
<1>1. TypeOK /\ SessionsInv
  BY InitType, SessionsInit
<1>2. TrackingFollowsSessions
  BY DEF Init, TrackingFollowsSessions, Live
<1>3. PairInv
  BY DEF Init, PairInv, Pair
<1>4. StatusMatchesEvents
  BY DEF Init, StatusMatchesEvents, Agree
<1> QED
  BY <1>1, <1>2, <1>3, <1>4 DEF IInv

(* The inductive invariant holds of the sessions.                            *)
THEOREM Inductive == Spec => []IInv
<1>1. IInv /\ [Next]_vars => IInv'
  BY TypeStep, SessionsStep, TrackingStep, PairStep DEF IInv
<1> QED
  BY <1>1, IInvInit, PTL DEF Spec

(* However the routers connect, send, garble and disconnect, and wherever a   *)
(* task is cancelled, the state keeps its types: in particular the counters   *)
(* of the statistics and of the prefixes still to add never go below zero.    *)
THEOREM TypeCorrect == Spec => []TypeOK
BY Inductive, PTL DEF IInv

(* For any connections and addresses, the connections and statistics kept are *)
(* those of connections that live or ended without their clean-up.           *)
THEOREM Tracked == Spec => []TrackingFollowsSessions
BY Inductive, PTL DEF IInv

(* For any connections and sizes of messages, no message of a router vanishes *)
(* unless the framing of one of its connections was lost.                   *)
THEOREM Accounted == Spec => []EveryMessageIsAccounted
<1>1. Init => EveryMessageIsAccounted
  <2> SUFFICES ASSUME Init PROVE EveryMessageIsAccounted
    OBVIOUS
  <2>1. \A i \in Ips : owed[i] = 0 /\ settled[i] = 0 /\ StatsOf(stats, i).errors = 0
    BY DEF Init, StatsOf, Zero
  <2>2. \A i \in Ips : Working(i) = {}
    BY DEF Init, Working, Own, InMessage, Statements, Pair
  <2> QED
    BY <2>1, <2>2, FS_EmptySet DEF EveryMessageIsAccounted
<1>2. IInv /\ IInv' /\ EveryMessageIsAccounted /\ [Next]_vars => EveryMessageIsAccounted'
  BY AccountStep DEF IInv
<1> QED
  BY <1>1, <1>2, Inductive, PTL DEF Spec

(* For any connections of one address, its row in bmp_peers and its last event *)
(* agree once its pairs of statements have not been interleaved or broken.   *)
THEOREM StatusAgrees == Spec => []StatusMatchesEvents
BY Inductive, PTL DEF IInv

=============================================================================
