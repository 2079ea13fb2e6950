------------------------ MODULE RouteMonitoringProofs ------------------------
(***************************************************************************)
(* For any views, routes and UPDATEs: types, the order of the rows of an      *)
(* UPDATE (RowsFollowMessage), and the row of a route follows what its router *)
(* says of it (StateFollowsRouter).                                         *)
(***************************************************************************)
EXTENDS RouteMonitoring, FiniteSetTheorems, SequenceTheorems, TLAPS

(***************************************************************************)
(* Induction over the natural numbers, and the existence of functions that   *)
(* are defined by recursion, from what is known of finite sets: a set that  *)
(* is closed under + 1 and misses a number would fit in a smaller one.      *)
(***************************************************************************)

(* Induction over the natural numbers, for a set. *)
LEMMA SetInduction ==
  ASSUME NEW S, 0 \in S, \A n \in Nat : n \in S => n + 1 \in S
  PROVE  Nat \subseteq S
<1> SUFFICES ASSUME NEW m \in Nat, m \notin S PROVE FALSE
  OBVIOUS
<1> DEFINE T == {n \in 0..m : n \in S}
           U == {n \in 1..m : n \in S}
           f == [n \in T |-> n + 1]
<1>1. 0 \in T /\ 0 \notin U /\ U = T \ {0}
  OBVIOUS
<1>2. IsFiniteSet(T) /\ IsFiniteSet(U)
  <2>1. IsFiniteSet(0..m) /\ T \subseteq 0..m /\ U \subseteq 0..m
    BY FS_Interval
  <2> QED
    BY <2>1, FS_Subset
<1>3. f \in [T -> U]
  <2> SUFFICES ASSUME NEW n \in T PROVE n + 1 \in U
    OBVIOUS
  <2>1. n + 1 \in S /\ n # m
    OBVIOUS
  <2> QED
    BY <2>1
<1>5. \A x, y \in T : f[x] = f[y] => x = y
  OBVIOUS
<1> HIDE DEF f, T, U
<1>4. Cardinality(U) < Cardinality(T)
  <2>1. Cardinality(T) \in Nat /\ Cardinality(T \ {0}) = Cardinality(T) - 1
    BY <1>1, <1>2, FS_RemoveElement, FS_CardinalityType
  <2> QED
    BY <2>1, <1>1
<1> QED
  BY <1>2, <1>3, <1>4, <1>5, FS_PigeonHole

(* A function over 0..m that is given by its first value and by what each step  *)
(* makes of the value before.                                               *)
Steps(V) == [Nat -> [V -> V]]
IsIterate(f, V, v, F, m) ==
  /\ f \in [0..m -> V] /\ f[0] = v
  /\ \A n \in 1..m : f[n] = F[n][f[n - 1]]

(* Such a function exists. *)
LEMMA Recursion ==
  ASSUME NEW V, NEW v \in V, NEW F \in Steps(V)
  PROVE  \A m \in Nat : \E f : IsIterate(f, V, v, F, m)
<1> USE DEF Steps, IsIterate
<1> DEFINE Good(f, m) == /\ f \in [0..m -> V] /\ f[0] = v
                         /\ \A n \in 1..m : f[n] = F[n][f[n - 1]]
           N == {m \in Nat : \E f : Good(f, m)}
<1>1. 0 \in N
  <2>1. Good([n \in 0..0 |-> v], 0)
    OBVIOUS
  <2> QED
    BY <2>1
<1>2. ASSUME NEW m \in Nat, m \in N PROVE m + 1 \in N
  <2>1. PICK f : Good(f, m)
    BY <1>2
  <2> DEFINE g == [n \in 0..(m + 1) |-> IF n = m + 1 THEN F[m + 1][f[m]] ELSE f[n]]
  <2>2. f[m] \in V /\ F[m + 1][f[m]] \in V
    BY <2>1
  <2>3. g \in [0..(m + 1) -> V]
    BY <2>1, <2>2
  <2>4. g[0] = v
    BY <2>1
  <2>5. ASSUME NEW n \in 1..(m + 1) PROVE g[n] = F[n][g[n - 1]]
    <3>1. n - 1 \in 0..m /\ g[n - 1] = f[n - 1]
      OBVIOUS
    <3>2. CASE n = m + 1
      BY <3>1, <3>2
    <3>3. CASE n \in 1..m
      BY <2>1, <3>1, <3>3
    <3> QED
      BY <3>2, <3>3
  <2>6. Good(g, m + 1)
    BY <2>3, <2>4, <2>5
  <2> HIDE DEF Good, g
  <2> QED
    BY <2>6
<1>3. Nat \subseteq N
  <2> HIDE DEF N
  <2> QED
    BY <1>1, <1>2, SetInduction
<1> QED
  BY <1>3

-----------------------------------------------------------------------------
Malformables == Routes \cup {Malformed}

-----------------------------------------------------------------------------
(* The elements of a list of messages' parts.                                *)

(* A list of nothing but good elements is a list of them. *)
LEMMA WithoutMalformed ==
  ASSUME NEW s \in Seq(Malformables), Malformed \notin Elements(s)
  PROVE  s \in Seq(Routes)
<1>1. \A i \in 1..Len(s) : s[i] \in Routes
  BY ElementOfSeq DEF Elements, Malformables
<1> QED
  BY <1>1, SeqDef

(* Elements of the empty list, of two lists one after the other, and of a list  *)
(* taken apart.                                                             *)
LEMMA NoElements == Elements(<<>>) = {}
BY DEF Elements

LEMMA ElementsOfBoth ==
  ASSUME NEW S, NEW s \in Seq(S), NEW t \in Seq(S)
  PROVE  Elements(s \o t) = Elements(s) \cup Elements(t)
<1> DEFINE u == s \o t
<1>1. /\ Len(s) \in Nat /\ Len(t) \in Nat
      /\ DOMAIN s = 1..Len(s) /\ DOMAIN t = 1..Len(t)
      /\ DOMAIN u = 1..(Len(s) + Len(t))
      /\ \A i \in 1..(Len(s) + Len(t)) : u[i] = IF i <= Len(s) THEN s[i] ELSE t[i - Len(s)]
  BY ConcatProperties, LenProperties
<1> HIDE DEF u
<1>2. \A i \in DOMAIN u : u[i] \in Elements(s) \cup Elements(t)
  <2> SUFFICES ASSUME NEW i \in DOMAIN u PROVE u[i] \in Elements(s) \cup Elements(t)
    OBVIOUS
  <2>1. CASE i <= Len(s)
    BY <1>1, <2>1 DEF Elements
  <2>2. CASE i > Len(s)
    <3>1. i - Len(s) \in DOMAIN t /\ u[i] = t[i - Len(s)]
      BY <1>1, <2>2
    <3> QED
      BY <3>1 DEF Elements
  <2> QED
    BY <1>1, <2>1, <2>2
<1>3. \A i \in DOMAIN s : s[i] \in Elements(u)
  BY <1>1 DEF Elements
<1>4. \A i \in DOMAIN t : t[i] \in Elements(u)
  <2> SUFFICES ASSUME NEW i \in DOMAIN t PROVE t[i] \in Elements(u)
    OBVIOUS
  <2>1. /\ Len(s) + i \in DOMAIN u /\ ~(Len(s) + i <= Len(s)) /\ (Len(s) + i) - Len(s) = i
    BY <1>1
  <2>2. u[Len(s) + i] = t[i]
    BY <1>1, <2>1
  <2> QED
    BY <2>1, <2>2 DEF Elements
<1>5. Elements(u) \subseteq Elements(s) \cup Elements(t)
  BY <1>2 DEF Elements
<1>6. Elements(s) \subseteq Elements(u) /\ Elements(t) \subseteq Elements(u)
  BY <1>3, <1>4 DEF Elements
<1> QED
  BY <1>5, <1>6 DEF u

LEMMA ElementsApart ==
  ASSUME NEW S, NEW s \in Seq(S), s # <<>>
  PROVE  /\ Head(s) \in S /\ Tail(s) \in Seq(S)
         /\ Elements(s) = {Head(s)} \cup Elements(Tail(s))
<1>1. /\ Len(s) \in Nat /\ Len(s) # 0 /\ DOMAIN s = 1..Len(s)
  BY LenProperties, EmptySeq
<1>2. /\ Tail(s) \in Seq(S) /\ Len(Tail(s)) = Len(s) - 1 /\ DOMAIN Tail(s) = 1..(Len(s) - 1)
      /\ \A i \in 1..(Len(s) - 1) : Tail(s)[i] = s[i + 1]
      /\ Head(s) = s[1] /\ Head(s) \in S
  BY HeadTailProperties, LenProperties
<1>3. \A i \in DOMAIN s : i = 1 \/ (i - 1 \in DOMAIN Tail(s) /\ Tail(s)[i - 1] = s[i])
  <2> SUFFICES ASSUME NEW i \in DOMAIN s, i # 1
               PROVE  i - 1 \in DOMAIN Tail(s) /\ Tail(s)[i - 1] = s[i]
    OBVIOUS
  <2>1. i - 1 \in 1..(Len(s) - 1) /\ (i - 1) + 1 = i
    BY <1>1
  <2> QED
    BY <1>2, <2>1
<1>4. \A i \in DOMAIN Tail(s) : i + 1 \in DOMAIN s /\ Tail(s)[i] = s[i + 1]
  BY <1>1, <1>2
<1>5. 1 \in DOMAIN s
  BY <1>1
<1>6. Elements(s) \subseteq {Head(s)} \cup Elements(Tail(s))
  <2>1. \A i \in DOMAIN s : s[i] \in {Head(s)} \cup {Tail(s)[j] : j \in DOMAIN Tail(s)}
    BY <1>2, <1>3
  <2> QED
    BY <2>1 DEF Elements
<1>7. {Head(s)} \cup Elements(Tail(s)) \subseteq Elements(s)
  BY <1>2, <1>4, <1>5 DEF Elements
<1> QED
  BY <1>2, <1>6, <1>7

(* Routes of the messages, and of their attributes. *)
LEMMA RoutesOfMessage ==
  ASSUME NEW u \in Updates
  PROVE  /\ u.withdrawn \in Seq(Malformables) /\ u.nlri \in Seq(Malformables)
         /\ u.attributes \in Seq(Attributes)
         /\ \A r \in Elements(u.withdrawn) \cup Elements(u.nlri) : r \in Malformables
         /\ \A r \in Elements(u.withdrawn) \cup Elements(u.nlri) : r = Malformed \/ r.afi = "ipv4"
         /\ Elements(u.attributes) \subseteq Attributes
<1>1. u \in UpdateMessages
  BY UpdatesAssumption
<1>2. u.withdrawn \in RouteLists /\ u.nlri \in RouteLists /\ u.attributes \in Seq(Attributes)
  BY <1>1 DEF UpdateMessages
<1>3. OfFamily(u.withdrawn, "ipv4") /\ OfFamily(u.nlri, "ipv4")
  BY <1>1 DEF UpdateMessages
<1>4. \A r \in Elements(u.withdrawn) \cup Elements(u.nlri) : r \in Malformables
  BY <1>2, ElementOfSeq, LenProperties DEF Elements, RouteLists, Malformables
<1>5. Elements(u.attributes) \subseteq Attributes
  BY <1>2, ElementOfSeq, LenProperties DEF Elements
<1> QED
  BY <1>2, <1>3, <1>4, <1>5 DEF RouteLists, Malformables, OfFamily, Elements

LEMMA RoutesOfAttribute ==
  ASSUME NEW a \in Attributes
  PROVE  /\ a.routes \in Seq(Malformables) /\ a.reach \in BOOLEAN
         /\ a.afi \in Families \cup {"unknown"}
         /\ \A r \in Elements(a.routes) : r \in Malformables /\ (r = Malformed \/ r.afi = a.afi)
         /\ WellFormed(a) => a.routes \in Seq(Routes)
<1>1. a.routes \in RouteLists /\ a.reach \in BOOLEAN /\ a.afi \in Families \cup {"unknown"}
  BY DEF Attributes
<1>2. OfFamily(a.routes, a.afi)
  BY DEF Attributes
<1>3. \A r \in Elements(a.routes) : r \in Malformables
  BY <1>1, ElementOfSeq, LenProperties DEF Elements, RouteLists, Malformables
<1>4. WellFormed(a) => a.routes \in Seq(Routes)
  BY <1>1, WithoutMalformed DEF WellFormed, RouteLists, Malformables
<1> QED
  BY <1>1, <1>2, <1>3, <1>4 DEF RouteLists, Malformables, OfFamily, Elements

(* A route has a name, a kind and a family, and a MAC/IP route an address. *)
LEMMA RouteType ==
  ASSUME NEW r \in Routes
  PROVE  /\ r.name \in Names /\ r.name # None /\ r # Malformed
         /\ \/ r.kind = "ip" /\ r.afi \in {"ipv4", "ipv6"}
            \/ r.kind \in {"mac", "mac_ip", "other"} /\ r.afi = "l2vpn"
         /\ r.kind = "mac_ip" => r.address \in Names /\ r.address # None
BY UpdatesAssumption DEF Routes

(* What is recorded as the prefix of a route. *)
LEMMA PrefixType ==
  ASSUME NEW r \in Routes
  PROVE  PrefixString(r) \in Names \cup {None}
BY RouteType DEF PrefixString

(* Routes are told apart by family, kind and name, and a MAC/IP route by its   *)
(* address.                                                                 *)
LEMMA SameRoute ==
  ASSUME NEW r \in Routes, NEW q \in Routes, r.afi = q.afi, r.kind = q.kind, r.name = q.name,
         r.kind = "mac_ip" => r.address = q.address
  PROVE  r = q
BY DEF Routes

-----------------------------------------------------------------------------
(* Types.                                                                   *)

Truths == {"announced", "withdrawn", "unclear"}
Named(u) == {r \in Routes : \E q \in RoutesOf(u) : r.name = q.name \/ IsAddress(r, q)}

(* What the end of a message does to the history. *)
LEMMA Settled ==
  ASSUME TypeOK, NEW v \in Views, NEW u, NEW b \in BOOLEAN, Settle(v, u, b)
  PROVE  /\ truth' \in [Views -> [Routes -> Truths]]
         /\ \A v2 \in Views, r \in Routes :
              truth'[v2][r] =
                IF v2 # v THEN truth[v2][r]
                ELSE IF b THEN IF r \in Withdraws(u) THEN "withdrawn"
                               ELSE IF r \in Announces(u) THEN "announced" ELSE truth[v][r]
                ELSE IF r \in Named(u) THEN "unclear" ELSE truth[v][r]
<1> DEFINE new == [r \in Routes |->
                     IF b THEN IF r \in Withdraws(u) THEN "withdrawn"
                               ELSE IF r \in Announces(u) THEN "announced" ELSE truth[v][r]
                     ELSE IF r \in Named(u) THEN "unclear" ELSE truth[v][r]]
<1>1. truth \in [Views -> [Routes -> Truths]]
  BY DEF TypeOK, Truths
<1>2. truth' = [truth EXCEPT ![v] = new]
  BY DEF Settle, Named
<1>3. truth[v] \in [Routes -> Truths]
  BY <1>1
<1>4. new \in [Routes -> Truths]
  BY <1>3 DEF Truths
<1>5. \A r \in Routes : new[r] =
                     IF b THEN IF r \in Withdraws(u) THEN "withdrawn"
                               ELSE IF r \in Announces(u) THEN "announced" ELSE truth[v][r]
                     ELSE IF r \in Named(u) THEN "unclear" ELSE truth[v][r]
  OBVIOUS
<1> HIDE DEF new
<1>6. truth' \in [Views -> [Routes -> Truths]]
  BY <1>1, <1>2, <1>4
<1>7. \A v2 \in Views : truth'[v2] = IF v2 = v THEN new ELSE truth[v2]
  BY <1>1, <1>2
<1> QED
  BY <1>5, <1>6, <1>7

(* A RouteUpdate is one. *)
LEMMA RouteUpdateType ==
  ASSUME TypeOK, NEW r \in Routes, NEW w \in BOOLEAN
  PROVE  RouteUpdate(r, w) \in RouteUpdates
<1>1. r.name \in Names
  BY RouteType
<1>2. DetermineFamily(afi) \in {"ipv4_unicast", "ipv6_unicast", "evpn", "unknown"}
  BY DEF DetermineFamily
<1>3. PrefixString(r) \in Names \cup {None}
  BY PrefixType
<1>4. Fields(r, w) \in Names \cup {None}
  BY <1>1 DEF Fields, TypeOK
<1> QED
  BY <1>2, <1>3, <1>4 DEF RouteUpdate, RouteUpdates, TypeOK

(* The start: nothing is read. *)
LEMMA TypeStart == Init => TypeOK
<1> SUFFICES ASSUME Init PROVE TypeOK
  OBVIOUS
<1>1. truth \in [Views -> [Routes -> Truths]]
  BY DEF Init, Truths
<1>2. received \in 0..MaxUpdates
  BY BoundAssumption DEF Init
<1>3. rest \in Seq(Attributes) /\ announced \in Seq(Routes) /\ withdrawn \in Seq(Routes)
      /\ rows \in Seq(RouteUpdates) /\ DOMAIN state = {}
  BY DEF Init, InitParts
<1> QED
  BY <1>1, <1>2, <1>3 DEF Init, InitParts, TypeOK, Truths

(* What parse_bgp_update keeps of itself has its types. *)
PartsOK ==
  /\ pc \in {"idle", "attributes", "add"}
  /\ update \in Updates
  /\ rest \in Seq(Attributes)
  /\ afi \in Families \cup {"unknown", None} /\ first \in Names \cup {None}
  /\ announced \in Seq(Routes) /\ withdrawn \in Seq(Routes)

LEMMA ReadStructureType == ASSUME NEW u \in Updates, ReadStructure(u) PROVE PartsOK'
<1>1. u.withdrawn \in Seq(Malformables) /\ u.attributes \in Seq(Attributes)
  BY RoutesOfMessage
<1>2. Malformed \notin Elements(u.withdrawn) => u.withdrawn \in Seq(Routes)
  BY <1>1, WithoutMalformed
<1>3. CASE Malformed \in Elements(u.withdrawn) /\ Raise
  BY <1>3, EmptySeq DEF ReadStructure, Raise, PartsOK
<1>4. CASE /\ Malformed \notin Elements(u.withdrawn)
           /\ pc' = "attributes" /\ rest' = u.attributes
           /\ announced' = <<>> /\ withdrawn' = u.withdrawn
  <2>1. withdrawn' \in Seq(Routes) /\ rest' \in Seq(Attributes) /\ announced' \in Seq(Routes)
    BY <1>1, <1>2, <1>4, EmptySeq
  <2> QED
    BY <1>4, <2>1 DEF ReadStructure, PartsOK
<1> QED
  BY <1>3, <1>4 DEF ReadStructure

LEMMA AttributeType == ASSUME TypeOK, ParseAttribute PROVE PartsOK'
<1> DEFINE a == Head(rest)
<1>1. a \in Attributes /\ Tail(rest) \in Seq(Attributes)
  BY ElementsApart DEF TypeOK, ParseAttribute
<1> HIDE DEF a
<1>2. CASE SkipMalformed(a)
  BY <1>1, <1>2 DEF ParseAttribute, SkipMalformed, PartsOK, TypeOK, a
<1>3. CASE WellFormed(a) /\ ReadRoutes(a)
  <2>1. a.routes \in Seq(Routes) /\ a.afi \in Families \cup {"unknown"}
    BY <1>1, <1>3, RoutesOfAttribute
  <2>2. announced \o a.routes \in Seq(Routes) /\ withdrawn \o a.routes \in Seq(Routes)
    BY <2>1, ConcatProperties DEF TypeOK
  <2>3. announced' \in Seq(Routes) /\ withdrawn' \in Seq(Routes)
    BY <1>3, <2>2 DEF ReadRoutes, Collect, TypeOK
  <2>4. a.routes # <<>> => Head(a.routes).name \in Names
    BY <2>1, ElementsApart, RouteType
  <2>5. first' \in Names \cup {None}
    BY <1>3, <2>4 DEF ReadRoutes, TypeOK
  <2> QED
    BY <1>1, <1>3, <2>1, <2>3, <2>5 DEF ParseAttribute, ReadRoutes, PartsOK, TypeOK, a
<1> QED
  BY <1>2, <1>3 DEF ParseAttribute, a

LEMMA NlriType == ASSUME TypeOK, ParseNlri PROVE PartsOK'
<1>1. update.nlri \in Seq(Malformables)
  BY RoutesOfMessage DEF TypeOK
<1>2. Malformed \notin Elements(update.nlri) => update.nlri \in Seq(Routes)
  BY <1>1, WithoutMalformed
<1>3. Malformed \notin Elements(update.nlri) => announced \o update.nlri \in Seq(Routes)
  BY <1>2, ConcatProperties DEF TypeOK
<1>4. CASE Malformed \in Elements(update.nlri) /\ Raise /\ UNCHANGED afi
  BY <1>4, EmptySeq DEF ParseNlri, Raise, PartsOK, TypeOK
<1>5. CASE /\ Malformed \notin Elements(update.nlri) /\ pc' = "add"
           /\ afi' = IF update.nlri = <<>> THEN afi ELSE "ipv4"
           /\ announced' = announced \o update.nlri
           /\ UNCHANGED <<rest, withdrawn>>
  BY <1>3, <1>5 DEF ParseNlri, PartsOK, TypeOK, Families
<1> QED
  BY <1>4, <1>5 DEF ParseNlri

(* Adding a route keeps the types of what is kept of the routes. *)
LEMMA AddType ==
  ASSUME TypeOK, NEW r \in Routes, NEW w \in BOOLEAN, Add(r, w)
  PROVE  /\ rows' \in Seq(RouteUpdates)
         /\ \A k \in DOMAIN state' : k.view \in Views /\ state'[k] \in BOOLEAN
<1> DEFINE row == RouteUpdate(r, w)
<1>1. row \in RouteUpdates
  BY RouteUpdateType
<1>2. Key(row).view \in Views /\ row.withdrawn \in BOOLEAN
  BY <1>1 DEF Key, RouteUpdates
<1>3. rows' = Append(rows, row) /\ state' = Tracked(row)
  BY DEF Add
<1> HIDE DEF row
<1>4. rows' \in Seq(RouteUpdates)
  BY <1>1, <1>3 DEF TypeOK
<1>5. \A k \in DOMAIN state' : k.view \in Views /\ state'[k] \in BOOLEAN
  BY <1>2, <1>3 DEF Tracked, TypeOK
<1> QED
  BY <1>4, <1>5

LEMMA TypeStep == TypeOK /\ [Next]_vars => TypeOK'
<1> SUFFICES ASSUME TypeOK, [Next]_vars PROVE TypeOK'
  OBVIOUS
<1> DEFINE Others == /\ view' \in Views
                     /\ rows' \in Seq(RouteUpdates)
                     /\ \A k \in DOMAIN state' : k.view \in Views /\ state'[k] \in BOOLEAN
                     /\ received' \in 0..MaxUpdates
                     /\ truth' \in [Views -> [Routes -> Truths]]
<1>1. PartsOK' /\ Others => TypeOK'
  BY DEF TypeOK, PartsOK, Truths
<1>2. TypeOK => PartsOK /\ truth \in [Views -> [Routes -> Truths]]
  BY DEF TypeOK, PartsOK, Truths
<1>3. ASSUME NEW v \in Views, NEW u, NEW b \in BOOLEAN, Settle(v, u, b)
      PROVE  truth' \in [Views -> [Routes -> Truths]]
  BY <1>3, Settled
<1>4. CASE Receive
  <2>1. PICK v \in Views, u \in Updates :
          /\ view' = v /\ ReadStructure(u)
          /\ IF pc' = "idle" THEN Settle(v, u, FALSE) ELSE UNCHANGED truth
    BY <1>4 DEF Receive
  <2>2. PartsOK'
    BY <2>1, ReadStructureType
  <2>3. truth' \in [Views -> [Routes -> Truths]]
    BY <1>2, <1>3, <2>1
  <2>4. received' \in 0..MaxUpdates
    BY <1>4, BoundAssumption DEF Receive, TypeOK
  <2>5. rows' \in Seq(RouteUpdates)
    BY <1>4 DEF Receive
  <2> QED
    BY <1>1, <1>4, <2>1, <2>2, <2>3, <2>4, <2>5 DEF Receive, TypeOK
<1>5. CASE Parse
  <2>1. PartsOK'
    BY <1>5, AttributeType, NlriType DEF Parse
  <2>2. truth' \in [Views -> [Routes -> Truths]]
    BY <1>2, <1>3, <1>5 DEF Parse, TypeOK
  <2> QED
    BY <1>1, <1>5, <2>1, <2>2 DEF Parse, tables, TypeOK
<1>6. CASE AddAnnounced
  <2>1. Head(announced) \in Routes /\ Tail(announced) \in Seq(Routes)
    BY <1>6, ElementsApart DEF AddAnnounced, TypeOK
  <2>2. /\ rows' \in Seq(RouteUpdates)
        /\ \A k \in DOMAIN state' : k.view \in Views /\ state'[k] \in BOOLEAN
    BY <1>6, <2>1, AddType DEF AddAnnounced
  <2> QED
    BY <1>6, <2>1, <2>2 DEF AddAnnounced, Add, TypeOK
<1>7. CASE AddWithdrawn
  <2>1. Head(withdrawn) \in Routes /\ Tail(withdrawn) \in Seq(Routes)
    BY <1>7, ElementsApart DEF AddWithdrawn, TypeOK
  <2>2. /\ rows' \in Seq(RouteUpdates)
        /\ \A k \in DOMAIN state' : k.view \in Views /\ state'[k] \in BOOLEAN
    BY <1>7, <2>1, AddType DEF AddWithdrawn
  <2> QED
    BY <1>7, <2>1, <2>2 DEF AddWithdrawn, Add, TypeOK
<1>8. CASE AddFails
  <2>1. truth' \in [Views -> [Routes -> Truths]]
    BY <1>3, <1>8 DEF AddFails, GiveUp, TypeOK
  <2>2. PartsOK'
    BY <1>8 DEF AddFails, GiveUp, Raise, TypeOK, PartsOK
  <2> QED
    BY <1>1, <1>8, <2>1, <2>2 DEF AddFails, tables, TypeOK
<1>9. CASE Finish
  <2>1. truth' \in [Views -> [Routes -> Truths]]
    BY <1>3, <1>9 DEF Finish, TypeOK, Understood
  <2> QED
    BY <1>1, <1>9, <2>1 DEF Finish, lists, tables, TypeOK, PartsOK
<1>10. CASE UNCHANGED vars
  BY <1>10 DEF vars, parts, lists, tables, TypeOK
<1> QED
  BY <1>4, <1>5, <1>6, <1>7, <1>8, <1>9, <1>10 DEF Next

(* For any UPDATEs of any routes: the parser never returns what did not parse. *)
THEOREM TypeCorrect == Spec => []TypeOK
<1> QED
  BY TypeStart, TypeStep, PTL DEF Spec

-----------------------------------------------------------------------------
(* What a message says, and the keys of its routes.                          *)

ReachIn(as) == UNION {Elements(a.routes) : a \in {b \in Elements(as) : b.reach}}
UnreachIn(as) == UNION {Elements(a.routes) : a \in {b \in Elements(as) : ~b.reach}}

(* The routes of a message are what it announces and withdraws. *)
LEMMA RoutesAreSaid ==
  ASSUME NEW u \in Updates
  PROVE  /\ Announces(u) = Elements(u.nlri) \cup ReachIn(u.attributes)
         /\ Withdraws(u) = Elements(u.withdrawn) \cup UnreachIn(u.attributes)
         /\ RoutesOf(u) = (Announces(u) \cup Withdraws(u)) \ {Malformed}
         /\ RoutesOf(u) \subseteq Routes
<1>1. /\ Announces(u) = Elements(u.nlri) \cup ReachIn(u.attributes)
      /\ Withdraws(u) = Elements(u.withdrawn) \cup UnreachIn(u.attributes)
  BY DEF Announces, Withdraws, ReachIn, UnreachIn
<1>2. RoutesOf(u) = (Announces(u) \cup Withdraws(u)) \ {Malformed}
  BY DEF Announces, Withdraws, RoutesOf
<1>3. \A a \in Elements(u.attributes) : Elements(a.routes) \subseteq Malformables
  BY RoutesOfMessage, RoutesOfAttribute
<1>4. Elements(u.withdrawn) \cup Elements(u.nlri) \subseteq Malformables
  BY RoutesOfMessage
<1>5. RoutesOf(u) \subseteq Routes
  BY <1>3, <1>4 DEF RoutesOf, Malformables
<1> QED
  BY <1>1, <1>2, <1>5

(* Attributes taken one by one. *)
LEMMA AttributesApart ==
  ASSUME NEW as \in Seq(Attributes), as # <<>>
  PROVE  /\ ReachIn(as) = ReachIn(Tail(as)) \cup
              (IF Head(as).reach THEN Elements(Head(as).routes) ELSE {})
         /\ UnreachIn(as) = UnreachIn(Tail(as)) \cup
              (IF Head(as).reach THEN {} ELSE Elements(Head(as).routes))
<1>1. Elements(as) = {Head(as)} \cup Elements(Tail(as))
  BY ElementsApart
<1> QED
  BY <1>1 DEF ReachIn, UnreachIn

(* No attributes say nothing. *)
LEMMA NothingSaid == ReachIn(<<>>) = {} /\ UnreachIn(<<>>) = {}
BY NoElements DEF ReachIn, UnreachIn

(* A key belongs to one route, but for EVPN routes of which only the type is   *)
(* read.                                                                    *)
LEMMA KeysDiffer ==
  ASSUME NEW v \in Views, NEW w \in Views, NEW r \in Routes, NEW q \in Routes,
         r.kind # "other", q.kind # "other", KeyOf(v, r) = KeyOf(w, q)
  PROVE  v = w /\ r = q
<1>1. /\ v = w /\ DetermineFamily(r.afi) = DetermineFamily(q.afi)
      /\ PrefixString(r) = PrefixString(q)
      /\ (IF r.afi = "l2vpn" THEN r.name ELSE None) = (IF q.afi = "l2vpn" THEN q.name ELSE None)
  BY DEF KeyOf
<1>2. r.afi = q.afi
  BY <1>1, RouteType DEF DetermineFamily
<1>3. r.name = q.name /\ r.kind = q.kind /\ (r.kind = "mac_ip" => r.address = q.address)
  <2>1. CASE r.afi = "l2vpn"
    <3>1. r.name = q.name /\ r.kind \in {"mac", "mac_ip"} /\ q.kind \in {"mac", "mac_ip"}
      BY <1>1, <1>2, <2>1, RouteType
    <3> QED
      BY <1>1, <3>1, RouteType DEF PrefixString
  <2>2. CASE r.afi # "l2vpn"
    BY <1>1, <1>2, <2>2, RouteType DEF PrefixString
  <2> QED
    BY <2>1, <2>2
<1> QED
  BY <1>1, <1>2, <1>3, SameRoute

(* The RouteUpdate of a route whose message is of its family has its key. *)
LEMMA KeyOfUnderstood ==
  ASSUME TypeOK, NEW r \in Routes, NEW w \in BOOLEAN, r.kind # "other", afi = r.afi
  PROVE  Found(RouteUpdate(r, w)) /\ Key(RouteUpdate(r, w)) = KeyOf(view, r)
<1>1. /\ RouteUpdate(r, w).view = view /\ RouteUpdate(r, w).family = DetermineFamily(r.afi)
      /\ RouteUpdate(r, w).prefix = PrefixString(r) /\ RouteUpdate(r, w).fields = Fields(r, w)
  BY DEF RouteUpdate
<1>2. CASE r.afi = "l2vpn"
  <2>1. DetermineFamily(r.afi) = "evpn" /\ Fields(r, w) = r.name
    BY <1>2, RouteType DEF DetermineFamily, Fields
  <2> QED
    BY <1>1, <1>2, <2>1 DEF Found, Key, KeyOf
<1>3. CASE r.afi # "l2vpn"
  <2>1. /\ DetermineFamily(r.afi) \in {"ipv4_unicast", "ipv6_unicast"}
        /\ PrefixString(r) = r.name /\ r.name # None
    BY <1>3, RouteType DEF DetermineFamily, PrefixString
  <2> QED
    BY <1>1, <1>3, <2>1 DEF Found, Key, KeyOf
<1> QED
  BY <1>2, <1>3

(* Whatever the message: its RouteUpdates have keys of routes with a name it    *)
(* mentions, in its own view.                                               *)
LEMMA KeysAreNamed ==
  ASSUME TypeOK, NEW r \in RoutesOf(update), NEW w \in BOOLEAN,
         first = None \/ \E q \in RoutesOf(update) : q.name = first,
         NEW v \in Views, NEW s \in Routes,
         Found(RouteUpdate(r, w)), Key(RouteUpdate(r, w)) = KeyOf(v, s)
  PROVE  v = view /\ s \in Named(update)
<1> DEFINE row == RouteUpdate(r, w)
<1>1. r \in Routes /\ r.name # None /\ s.name # None
  BY RoutesAreSaid, RouteType DEF TypeOK
<1>2. /\ row.view = view /\ row.prefix = PrefixString(r) /\ row.fields = Fields(r, w)
  BY DEF RouteUpdate
<1> HIDE DEF row
<1>3. /\ v = view /\ row.prefix = PrefixString(s) /\ row.family = DetermineFamily(s.afi)
      /\ (IF row.family = "evpn" THEN row.fields ELSE None)
           = (IF s.afi = "l2vpn" THEN s.name ELSE None)
  BY <1>2 DEF Key, KeyOf, row
<1>4. CASE s.afi # "l2vpn"
  <2>1. row.prefix = s.name
    BY <1>3, <1>4, RouteType DEF PrefixString
  <2>2. s.name = r.name \/ IsAddress(s, r)
    BY <1>1, <1>2, <1>4, <2>1, RouteType DEF PrefixString, IsAddress
  <2> QED
    BY <1>1, <1>3, <2>2 DEF Named
<1>5. CASE s.afi = "l2vpn"
  <2>1. row.fields = s.name
    BY <1>3, <1>5 DEF DetermineFamily
  <2>2. s.name = r.name \/ s.name = first
    BY <1>1, <1>2, <2>1 DEF Fields
  <2> QED
    BY <1>1, <1>3, <2>2 DEF Named
<1> QED
  BY <1>4, <1>5

-----------------------------------------------------------------------------
(* The invariant.                                                           *)

Clear(v, r) == truth[v][r] # "unclear"

(* The row of a route says what its router said last. *)
Shown(v, r) ==
  /\ KeyOf(v, r) \in DOMAIN state
  /\ state[KeyOf(v, r)] <=> truth[v][r] = "withdrawn"

Present(r) == KeyOf(view, r) \in DOMAIN state /\ state[KeyOf(view, r)] = FALSE
Gone(r) == KeyOf(view, r) \in DOMAIN state /\ state[KeyOf(view, r)] = TRUE

(* What the parser and the handler hold comes from the message. *)
FromMessage ==
  pc # "idle" =>
    /\ Elements(announced) \cup Elements(withdrawn) \subseteq RoutesOf(update)
    /\ Elements(rest) \subseteq Elements(update.attributes)
    /\ first = None \/ \E q \in RoutesOf(update) : q.name = first

(* Of a message that is understood, nothing is lost in the parser. *)
ParsedWhole ==
  pc = "attributes" /\ Understood(update) =>
    /\ Announces(update) = Elements(announced) \cup Elements(update.nlri) \cup ReachIn(rest)
    /\ Withdraws(update) = Elements(withdrawn) \cup UnreachIn(rest)
    /\ rest = update.attributes \/ \E a \in Elements(update.attributes) : afi = a.afi

(* Its routes bear its family, and each is still to be added or has its row. *)
AddedWhole ==
  pc = "add" /\ Understood(update) =>
    /\ \A r \in RoutesOf(update) : afi = r.afi
    /\ Elements(announced) \subseteq Announces(update)
    /\ Elements(withdrawn) \subseteq Withdraws(update)
    /\ \A r \in Announces(update) \ Withdraws(update) : r \in Elements(announced) \/ Present(r)
    /\ \A r \in Withdraws(update) :
         r \in Elements(withdrawn) \/ (announced = <<>> /\ Gone(r))

(* Every other route has its row as it was. *)
OthersShown ==
  \A v \in Views, r \in Routes :
    /\ Clear(v, r)
    /\ pc = "add" /\ v = view => r \notin (IF Understood(update) THEN RoutesOf(update) ELSE Named(update))
    => Shown(v, r)

(* What is read of the type alone is never understood. *)
KindsKnown == \A v \in Views, r \in Routes : Clear(v, r) => r.kind # "other"

RowsInv == TypeOK /\ FromMessage /\ ParsedWhole /\ AddedWhole /\ OthersShown /\ KindsKnown

LEMMA InvStart == Init => RowsInv
<1> SUFFICES ASSUME Init PROVE RowsInv
  OBVIOUS
<1>1. TypeOK /\ pc = "idle"
  BY TypeStart DEF Init, InitParts
<1>2. \A v \in Views, r \in Routes : ~Clear(v, r)
  BY DEF Init, Clear
<1> QED
  BY <1>1, <1>2 DEF RowsInv, FromMessage, ParsedWhole, AddedWhole, OthersShown, KindsKnown

(* A message that is not understood to its end: all it names becomes unclear. *)
LEMMA GivenUp ==
  ASSUME RowsInv, pc \in {"idle", "attributes", "add"}, TypeOK', pc' = "idle",
         UNCHANGED state, NEW v \in Views, NEW u, pc = "add" => v = view /\ u = update,
         Settle(v, u, FALSE)
  PROVE  RowsInv'
<1>1. \A v2 \in Views, r \in Routes :
         truth'[v2][r] = IF v2 = v /\ r \in Named(u) THEN "unclear" ELSE truth[v2][r]
  <2>1. truth \in [Views -> [Routes -> Truths]]
    BY DEF RowsInv, TypeOK, Truths
  <2>2. truth' = [truth EXCEPT ![v] =
                    [r \in Routes |-> IF r \in Named(u) THEN "unclear" ELSE truth[v][r]]]
    BY DEF Settle, Named
  <2> QED
    BY <2>1, <2>2
<1>2. \A v2 \in Views, r \in Routes : Clear(v2, r)' =>
         /\ Clear(v2, r) /\ truth'[v2][r] = truth[v2][r] /\ ~(v2 = v /\ r \in Named(u))
  BY <1>1 DEF Clear
<1>3. RoutesOf(update) \cap Routes \subseteq Named(update)
  BY DEF Named
<1>4. ASSUME NEW v2 \in Views, NEW r \in Routes, Clear(v2, r)' PROVE Shown(v2, r)'
  <2>1. Clear(v2, r) /\ truth'[v2][r] = truth[v2][r] /\ ~(v2 = v /\ r \in Named(u))
    BY <1>2, <1>4
  <2>2. Shown(v2, r)
    BY <1>3, <2>1 DEF RowsInv, OthersShown
  <2>3. KeyOf(v2, r)' = KeyOf(v2, r)
    BY DEF KeyOf, PrefixString, DetermineFamily
  <2> QED
    BY <2>1, <2>2, <2>3 DEF Shown
<1>5. OthersShown'
  BY <1>4 DEF OthersShown
<1>6. KindsKnown'
  BY <1>2 DEF RowsInv, KindsKnown
<1> QED
  BY <1>5, <1>6 DEF RowsInv, FromMessage, ParsedWhole, AddedWhole

(* While nothing is written, the rows of all routes stay as they are. *)
LEMMA NothingWritten ==
  ASSUME RowsInv, pc # "add", UNCHANGED <<state, truth>>
  PROVE  OthersShown' /\ KindsKnown'
<1>1. \A v \in Views, r \in Routes : Clear(v, r)' <=> Clear(v, r)
  BY DEF Clear
<1>2. \A v \in Views, r \in Routes : Shown(v, r)' <=> Shown(v, r)
  BY DEF Shown, KeyOf, PrefixString, DetermineFamily
<1> QED
  BY <1>1, <1>2 DEF RowsInv, OthersShown, KindsKnown

(* The structure and the withdrawn routes are read. *)
LEMMA ReceiveStep == RowsInv /\ Receive => RowsInv'
<1> SUFFICES ASSUME RowsInv, Receive PROVE RowsInv'
  OBVIOUS
<1>1. TypeOK'
  BY TypeStep DEF RowsInv, Next
<1>2. PICK v \in Views, u \in Updates :
        /\ view' = v /\ ReadStructure(u)
        /\ IF pc' = "idle" THEN Settle(v, u, FALSE) ELSE UNCHANGED truth
  BY DEF Receive
<1>3. pc = "idle" /\ UNCHANGED state /\ update' = u
  BY <1>2 DEF Receive, ReadStructure
<1>4. CASE pc' = "idle"
  BY <1>1, <1>2, <1>3, <1>4, GivenUp
<1>5. CASE pc' # "idle"
  <2>1. /\ pc' = "attributes" /\ rest' = u.attributes /\ announced' = <<>>
        /\ withdrawn' = u.withdrawn /\ Malformed \notin Elements(u.withdrawn) /\ first' = None
    BY <1>2, <1>5 DEF ReadStructure, Raise
  <2>2. OthersShown' /\ KindsKnown'
    BY <1>2, <1>3, <1>5, NothingWritten
  <2>3. Elements(withdrawn') \subseteq RoutesOf(u)
    BY <2>1 DEF RoutesOf
  <2>4. FromMessage'
    BY <1>3, <2>1, <2>3, NoElements DEF FromMessage
  <2>5. ParsedWhole'
    BY <1>3, <2>1, NoElements, RoutesAreSaid DEF ParsedWhole
  <2>6. AddedWhole'
    BY <2>1 DEF AddedWhole
  <2> QED
    BY <1>1, <2>2, <2>4, <2>5, <2>6 DEF RowsInv
<1> QED
  BY <1>4, <1>5

(* One path attribute is read or skipped. *)
LEMMA AttributeStep == RowsInv /\ ParseAttribute /\ UNCHANGED <<tables, truth>> => RowsInv'
<1> SUFFICES ASSUME RowsInv, ParseAttribute, UNCHANGED <<tables, truth>> PROVE RowsInv'
  OBVIOUS
<1> DEFINE a == Head(rest)
<1>1. TypeOK'
  BY TypeStep DEF RowsInv, Next, Parse
<1>2. pc = "attributes" /\ pc' = pc /\ update' = update /\ rest' = Tail(rest) /\ rest # <<>>
  BY DEF ParseAttribute
<1>3. rest \in Seq(Attributes) /\ update \in Updates
      /\ announced \in Seq(Routes) /\ withdrawn \in Seq(Routes)
  BY DEF RowsInv, TypeOK
<1>4. a \in Attributes /\ Elements(rest) = {a} \cup Elements(Tail(rest))
  BY <1>2, <1>3, ElementsApart
<1>5. a \in Elements(update.attributes) /\ Elements(rest') \subseteq Elements(update.attributes)
  BY <1>2, <1>4 DEF RowsInv, FromMessage
<1>6. /\ ReachIn(rest) = ReachIn(rest') \cup (IF a.reach THEN Elements(a.routes) ELSE {})
      /\ UnreachIn(rest) = UnreachIn(rest') \cup (IF a.reach THEN {} ELSE Elements(a.routes))
  BY <1>2, <1>3, AttributesApart
<1>7. SkipMalformed(a) \/ (WellFormed(a) /\ ReadRoutes(a))
  BY DEF ParseAttribute
<1>8. OthersShown' /\ KindsKnown'
  BY <1>2, NothingWritten DEF tables
<1>9. AddedWhole'
  BY <1>2 DEF AddedWhole
<1>10. IF a.reach THEN Elements(a.routes) \subseteq Announces(update)
                  ELSE Elements(a.routes) \subseteq Withdraws(update)
  BY <1>5 DEF Announces, Withdraws
<1>11. Understood(update) => WellFormed(a)
  BY <1>10 DEF Understood, WellFormed
<1> HIDE DEF a
<1>12. CASE ~WellFormed(a)
  <2>1. UNCHANGED <<first, announced, withdrawn>>
    BY <1>7, <1>12 DEF SkipMalformed
  <2>2. FromMessage'
    BY <1>2, <1>5, <2>1 DEF RowsInv, FromMessage
  <2>3. ParsedWhole'
    BY <1>2, <1>11, <1>12 DEF ParsedWhole
  <2> QED
    BY <1>1, <1>8, <1>9, <2>2, <2>3 DEF RowsInv
<1>13. CASE WellFormed(a)
  <2>1. ReadRoutes(a)
    BY <1>7, <1>13 DEF SkipMalformed
  <2>2. a.routes \in Seq(Routes) /\ Elements(a.routes) \subseteq RoutesOf(update)
    <3>1. Malformed \notin Elements(a.routes)
      BY <1>13 DEF WellFormed
    <3> QED
      BY <1>3, <1>4, <1>10, <1>13, <3>1, RoutesOfAttribute, RoutesAreSaid
  <2>3. /\ Elements(announced \o a.routes) = Elements(announced) \cup Elements(a.routes)
        /\ Elements(withdrawn \o a.routes) = Elements(withdrawn) \cup Elements(a.routes)
    BY <1>3, <2>2, ElementsOfBoth
  <2>4. /\ Elements(announced') =
             Elements(announced) \cup (IF a.reach THEN Elements(a.routes) ELSE {})
        /\ Elements(withdrawn') =
             Elements(withdrawn) \cup (IF a.reach THEN {} ELSE Elements(a.routes))
    BY <2>1, <2>3 DEF ReadRoutes, Collect
  <2>5. afi' = a.afi /\ (first' = first \/ first' = None \/ (a.routes # <<>> /\ first' = Head(a.routes).name))
    BY <2>1 DEF ReadRoutes
  <2>6. a.routes # <<>> => Head(a.routes) \in RoutesOf(update)
    BY <2>2, ElementsApart
  <2>7. FromMessage'
    <3>1. first' = None \/ \E q \in RoutesOf(update) : q.name = first'
      BY <1>2, <2>5, <2>6 DEF RowsInv, FromMessage
    <3>2. Elements(announced') \cup Elements(withdrawn') \subseteq RoutesOf(update)
      BY <1>2, <2>2, <2>4 DEF RowsInv, FromMessage
    <3> QED
      BY <1>2, <1>5, <3>1, <3>2 DEF FromMessage
  <2>8. ParsedWhole'
    <3> SUFFICES ASSUME Understood(update)
                 PROVE  /\ Announces(update) = Elements(announced') \cup Elements(update.nlri) \cup ReachIn(rest')
                        /\ Withdraws(update) = Elements(withdrawn') \cup UnreachIn(rest')
                        /\ \E b \in Elements(update.attributes) : afi' = b.afi
      BY <1>2 DEF ParsedWhole
    <3>1. /\ Announces(update) = Elements(announced) \cup Elements(update.nlri) \cup ReachIn(rest)
          /\ Withdraws(update) = Elements(withdrawn) \cup UnreachIn(rest)
      BY <1>2 DEF RowsInv, ParsedWhole
    <3> QED
      BY <1>5, <1>6, <2>4, <2>5, <3>1
  <2> QED
    BY <1>1, <1>8, <1>9, <2>7, <2>8 DEF RowsInv
<1> QED
  BY <1>12, <1>13

(* The NLRI is read, and the parser returns. *)
LEMMA NlriStep ==
  ASSUME RowsInv, ParseNlri, UNCHANGED tables,
         IF pc' = "idle" THEN Settle(view, update, FALSE) ELSE UNCHANGED truth
  PROVE  RowsInv'
<1>1. TypeOK'
  BY TypeStep DEF RowsInv, Next, Parse
<1>2. /\ pc = "attributes" /\ rest = <<>> /\ update' = update /\ first' = first
      /\ UNCHANGED <<view, state>>
  BY DEF ParseNlri, tables
<1>3. view \in Views /\ update \in Updates /\ announced \in Seq(Routes)
  BY DEF RowsInv, TypeOK
<1>4. CASE Malformed \in Elements(update.nlri)
  <2>1. pc' = "idle"
    BY <1>4 DEF ParseNlri, Raise
  <2> QED
    BY <1>1, <1>2, <1>3, <2>1, GivenUp
<1>5. CASE Malformed \notin Elements(update.nlri)
  <2>1. /\ pc' = "add" /\ afi' = IF update.nlri = <<>> THEN afi ELSE "ipv4"
        /\ announced' = announced \o update.nlri /\ rest' = rest /\ withdrawn' = withdrawn
    BY <1>5 DEF ParseNlri
  <2>2. UNCHANGED truth
    BY <2>1
  <2>3. update.nlri \in Seq(Routes) /\ Elements(update.nlri) \subseteq RoutesOf(update)
    BY <1>3, <1>5, RoutesOfMessage, WithoutMalformed DEF RoutesOf
  <2>4. Elements(announced') = Elements(announced) \cup Elements(update.nlri)
    BY <1>3, <2>1, <2>3, ElementsOfBoth
  <2>5. FromMessage'
    BY <1>2, <2>1, <2>3, <2>4 DEF RowsInv, FromMessage
  <2>6. ParsedWhole'
    BY <2>1 DEF ParsedWhole
  <2>7. OthersShown' /\ KindsKnown'
    BY <1>2, <2>2, NothingWritten DEF OthersShown
  <2>8. AddedWhole'
    <3> SUFFICES ASSUME Understood(update)
                 PROVE  /\ \A r \in RoutesOf(update) : afi' = r.afi
                        /\ Elements(announced') = Announces(update)
                        /\ Elements(withdrawn') = Withdraws(update)
      BY <1>2, <2>1 DEF AddedWhole
    <3>1. /\ Announces(update) = Elements(announced) \cup Elements(update.nlri)
          /\ Withdraws(update) = Elements(withdrawn)
          /\ update.attributes = <<>> \/ \E a \in Elements(update.attributes) : afi = a.afi
      BY <1>2, NothingSaid DEF RowsInv, ParsedWhole
    <3>2. \A r \in RoutesOf(update) : afi' = r.afi
      <4> SUFFICES ASSUME NEW r \in RoutesOf(update) PROVE afi' = r.afi
        OBVIOUS
      <4>1. \A a \in Elements(update.attributes) : \A q \in Elements(a.routes) :
               q = Malformed \/ q.afi = a.afi
        BY <1>3, RoutesOfMessage, RoutesOfAttribute
      <4>2. r # Malformed /\ (\/ r \in Elements(update.withdrawn) \cup Elements(update.nlri)
                              \/ \E a \in Elements(update.attributes) : r \in Elements(a.routes))
        BY DEF RoutesOf
      <4>3. CASE update.nlri # <<>>
        <5>1. afi' = "ipv4" /\ \A a \in Elements(update.attributes) : a.afi = "ipv4"
          BY <2>1, <4>3 DEF Understood
        <5> QED
          BY <1>3, <4>1, <4>2, <5>1, RoutesOfMessage
      <4>4. CASE update.nlri = <<>>
        <5>1. afi' = afi /\ update.attributes # <<>>
          BY <2>1, <4>4 DEF Understood
        <5>2. PICK a \in Elements(update.attributes) : afi = a.afi
          BY <3>1, <5>1
        <5>3. \A b \in Elements(update.attributes) : b.afi = afi
          BY <5>2 DEF Understood
        <5>4. CASE r \in Elements(update.withdrawn)
          <6>1. update.withdrawn # <<>>
            BY <5>4, NoElements
          <6>2. afi = "ipv4"
            BY <5>2, <6>1 DEF Understood
          <6> QED
            BY <1>3, <4>2, <5>1, <5>4, <6>2, RoutesOfMessage
        <5>5. CASE r \notin Elements(update.withdrawn)
          BY <4>1, <4>2, <4>4, <5>1, <5>3, <5>5, NoElements
        <5> QED
          BY <5>4, <5>5
      <4> QED
        BY <4>3, <4>4
    <3> QED
      BY <2>1, <2>4, <3>1, <3>2
  <2> QED
    BY <1>1, <2>5, <2>6, <2>7, <2>8 DEF RowsInv
<1> QED
  BY <1>4, <1>5

LEMMA ParseStep == RowsInv /\ Parse => RowsInv'
BY AttributeStep, NlriStep DEF Parse

(* One row is written: the rows under other keys stay as they are. *)
LEMMA OneRowWritten ==
  ASSUME TypeOK, NEW r \in Routes, NEW w \in BOOLEAN, Add(r, w), NEW v, NEW s
  PROVE  LET row == RouteUpdate(r, w) IN
         /\ KeyOf(v, s)' = KeyOf(v, s)
         /\ ~(Found(row) /\ Key(row) = KeyOf(v, s)) =>
              /\ KeyOf(v, s) \in DOMAIN state' <=> KeyOf(v, s) \in DOMAIN state
              /\ KeyOf(v, s) \in DOMAIN state => state'[KeyOf(v, s)] = state[KeyOf(v, s)]
         /\ Found(row) /\ Key(row) = KeyOf(v, s) =>
              KeyOf(v, s) \in DOMAIN state' /\ state'[KeyOf(v, s)] = w
<1> DEFINE row == RouteUpdate(r, w)
           k == KeyOf(v, s)
<1>1. state' = Tracked(row) /\ row.withdrawn = w
  BY DEF Add, RouteUpdate
<1>2. k' = k
  BY DEF KeyOf, PrefixString, DetermineFamily
<1> HIDE DEF row, k
<1>3. ~Found(row) => state' = state
  BY <1>1 DEF Tracked
<1>4. Found(row) => state' = [q \in DOMAIN state \cup {Key(row)} |->
                                IF q = Key(row) THEN w ELSE state[q]]
  BY <1>1 DEF Tracked
<1>5. Found(row) /\ Key(row) = k => k \in DOMAIN state' /\ state'[k] = w
  BY <1>4
<1>6. ~(Found(row) /\ Key(row) = k) =>
        /\ k \in DOMAIN state' <=> k \in DOMAIN state
        /\ k \in DOMAIN state => state'[k] = state[k]
  BY <1>3, <1>4
<1> QED
  BY <1>2, <1>5, <1>6 DEF row, k

(* What adding a route of the message does to the rows of all. *)
LEMMA AddStep ==
  ASSUME RowsInv, pc = "add", NEW r \in RoutesOf(update), NEW w \in BOOLEAN, Add(r, w)
  PROVE  /\ OthersShown' /\ KindsKnown'
         /\ Understood(update) =>
              /\ IF w THEN Gone(r)' ELSE Present(r)'
              /\ \A q \in RoutesOf(update) : q # r =>
                   (Gone(q) => Gone(q)') /\ (Present(q) => Present(q)')
<1>1. /\ TypeOK /\ r \in Routes /\ RoutesOf(update) \subseteq Routes /\ view \in Views
      /\ first = None \/ \E q \in RoutesOf(update) : q.name = first
  BY RoutesAreSaid DEF RowsInv, FromMessage, TypeOK
<1>2. UNCHANGED <<pc, update, view, truth>>
  BY DEF Add
<1>3. \A v \in Views, s \in Routes : Clear(v, s)' <=> Clear(v, s)
  BY <1>2 DEF Clear
<1>4. KindsKnown'
  BY <1>3 DEF RowsInv, KindsKnown
<1>5. Understood(update) =>
        /\ \A q \in RoutesOf(update) : q.kind # "other"
        /\ Found(RouteUpdate(r, w)) /\ Key(RouteUpdate(r, w)) = KeyOf(view, r)
  <2> SUFFICES ASSUME Understood(update)
               PROVE  /\ \A q \in RoutesOf(update) : q.kind # "other"
                      /\ Found(RouteUpdate(r, w)) /\ Key(RouteUpdate(r, w)) = KeyOf(view, r)
    OBVIOUS
  <2>1. \A q \in RoutesOf(update) : q.kind # "other" /\ afi = q.afi
    BY DEF Understood, RowsInv, AddedWhole
  <2> QED
    BY <1>1, <2>1, KeyOfUnderstood
<1>6. ASSUME NEW v \in Views, NEW s \in Routes, Clear(v, s)',
             v = view => s \notin (IF Understood(update) THEN RoutesOf(update) ELSE Named(update))
      PROVE  Shown(v, s)'
  <2>1. Clear(v, s) /\ Shown(v, s)
    BY <1>3, <1>6 DEF RowsInv, OthersShown
  <2>2. ~(Found(RouteUpdate(r, w)) /\ Key(RouteUpdate(r, w)) = KeyOf(v, s))
    <3> SUFFICES ASSUME Found(RouteUpdate(r, w)), Key(RouteUpdate(r, w)) = KeyOf(v, s)
                 PROVE  FALSE
      OBVIOUS
    <3>1. v = view /\ s \in Named(update)
      BY <1>1, KeysAreNamed
    <3>2. Understood(update) /\ s \notin RoutesOf(update)
      BY <1>6, <3>1
    <3>3. s.kind # "other" /\ r.kind # "other" /\ KeyOf(view, r) = KeyOf(v, s)
      BY <1>5, <2>1, <3>2 DEF RowsInv, KindsKnown
    <3>4. s = r
      BY <1>1, <3>3, KeysDiffer
    <3> QED
      BY <3>2, <3>4
  <2> QED
    BY <1>1, <1>2, <2>1, <2>2, OneRowWritten DEF Shown
<1>7. OthersShown'
  BY <1>2, <1>6 DEF OthersShown, Named, RoutesOf, Understood, Announces, Withdraws
<1>8. Understood(update) => IF w THEN Gone(r)' ELSE Present(r)'
  BY <1>1, <1>2, <1>5, OneRowWritten DEF Gone, Present
<1>9. ASSUME Understood(update), NEW q \in RoutesOf(update), q # r
      PROVE  (Gone(q) => Gone(q)') /\ (Present(q) => Present(q)')
  <2>1. KeyOf(view, q) # KeyOf(view, r)
    BY <1>1, <1>5, <1>9, KeysDiffer
  <2> QED
    BY <1>1, <1>2, <1>5, <1>9, <2>1, OneRowWritten DEF Gone, Present
<1> QED
  BY <1>4, <1>7, <1>8, <1>9

(* An announced route is added. *)
LEMMA AnnouncedStep == RowsInv /\ AddAnnounced => RowsInv'
<1> SUFFICES ASSUME RowsInv, AddAnnounced PROVE RowsInv'
  OBVIOUS
<1>0. PICK r : r = Head(announced)
  OBVIOUS
<1>1. TypeOK'
  BY TypeStep DEF RowsInv, Next
<1>2. /\ pc = "add" /\ announced # <<>> /\ Add(r, FALSE)
      /\ announced' = Tail(announced) /\ withdrawn' = withdrawn
  BY <1>0 DEF AddAnnounced
<1>3. UNCHANGED <<pc, update, afi, first, rest, view>>
  BY <1>2 DEF Add
<1>4. Elements(announced) = {r} \cup Elements(announced')
  BY <1>0, <1>2, ElementsApart DEF RowsInv, TypeOK
<1>5. r \in RoutesOf(update)
  BY <1>2, <1>4 DEF RowsInv, FromMessage
<1>6. /\ OthersShown' /\ KindsKnown'
      /\ Understood(update) => /\ Present(r)'
                               /\ \A q \in RoutesOf(update) : q # r =>
                                    (Gone(q) => Gone(q)') /\ (Present(q) => Present(q)')
  BY <1>2, <1>5, AddStep
<1>7. FromMessage' /\ ParsedWhole'
  BY <1>2, <1>3, <1>4 DEF RowsInv, FromMessage, ParsedWhole
<1>8. AddedWhole'
  <2> SUFFICES ASSUME Understood(update)
               PROVE  /\ \A q \in RoutesOf(update) : afi = q.afi
                      /\ Elements(announced') \subseteq Announces(update)
                      /\ Elements(withdrawn) \subseteq Withdraws(update)
                      /\ \A q \in Announces(update) \ Withdraws(update) :
                           q \in Elements(announced') \/ Present(q)'
                      /\ \A q \in Withdraws(update) : q \in Elements(withdrawn)
    BY <1>2, <1>3 DEF AddedWhole
  <2>1. /\ \A q \in RoutesOf(update) : afi = q.afi
        /\ Elements(announced) \subseteq Announces(update)
        /\ Elements(withdrawn) \subseteq Withdraws(update)
        /\ \A q \in Announces(update) \ Withdraws(update) :
             q \in Elements(announced) \/ Present(q)
        /\ \A q \in Withdraws(update) : q \in Elements(withdrawn)
    BY <1>2 DEF RowsInv, AddedWhole
  <2>2. Announces(update) \subseteq RoutesOf(update)
    BY RoutesAreSaid DEF RowsInv, TypeOK, Understood
  <2>3. \A q \in Announces(update) \ Withdraws(update) :
          q \in Elements(announced') \/ Present(q)'
    <3> SUFFICES ASSUME NEW q \in Announces(update) \ Withdraws(update), q \notin Elements(announced')
                 PROVE  Present(q)'
      OBVIOUS
    <3>1. q = r \/ Present(q)
      BY <1>4, <2>1
    <3> QED
      BY <1>6, <2>2, <3>1
  <2> QED
    BY <1>4, <2>1, <2>3
<1> QED
  BY <1>1, <1>6, <1>7, <1>8 DEF RowsInv

(* A withdrawn route is added. *)
LEMMA WithdrawnStep == RowsInv /\ AddWithdrawn => RowsInv'
<1> SUFFICES ASSUME RowsInv, AddWithdrawn PROVE RowsInv'
  OBVIOUS
<1>0. PICK r : r = Head(withdrawn)
  OBVIOUS
<1>1. TypeOK'
  BY TypeStep DEF RowsInv, Next
<1>2. /\ pc = "add" /\ announced = <<>> /\ withdrawn # <<>> /\ Add(r, TRUE)
      /\ withdrawn' = Tail(withdrawn) /\ announced' = announced
  BY <1>0 DEF AddWithdrawn
<1>3. UNCHANGED <<pc, update, afi, first, rest, view>>
  BY <1>2 DEF Add
<1>4. Elements(withdrawn) = {r} \cup Elements(withdrawn')
  BY <1>0, <1>2, ElementsApart DEF RowsInv, TypeOK
<1>5. r \in RoutesOf(update)
  BY <1>2, <1>4 DEF RowsInv, FromMessage
<1>6. /\ OthersShown' /\ KindsKnown'
      /\ Understood(update) => /\ Gone(r)'
                               /\ \A q \in RoutesOf(update) : q # r =>
                                    (Gone(q) => Gone(q)') /\ (Present(q) => Present(q)')
  BY <1>2, <1>5, AddStep
<1>7. FromMessage' /\ ParsedWhole'
  BY <1>2, <1>3, <1>4 DEF RowsInv, FromMessage, ParsedWhole
<1>8. AddedWhole'
  <2> SUFFICES ASSUME Understood(update)
               PROVE  /\ \A q \in RoutesOf(update) : afi = q.afi
                      /\ Elements(withdrawn') \subseteq Withdraws(update)
                      /\ Elements(announced) \subseteq Announces(update)
                      /\ \A q \in Announces(update) \ Withdraws(update) :
                           q \in Elements(announced) \/ Present(q)'
                      /\ \A q \in Withdraws(update) : q \in Elements(withdrawn') \/ Gone(q)'
    BY <1>2, <1>3 DEF AddedWhole
  <2>1. /\ \A q \in RoutesOf(update) : afi = q.afi
        /\ Elements(announced) \subseteq Announces(update)
        /\ Elements(withdrawn) \subseteq Withdraws(update)
        /\ \A q \in Announces(update) \ Withdraws(update) :
             q \in Elements(announced) \/ Present(q)
        /\ \A q \in Withdraws(update) : q \in Elements(withdrawn) \/ Gone(q)
    BY <1>2 DEF RowsInv, AddedWhole
  <2>2. Announces(update) \cup Withdraws(update) \subseteq RoutesOf(update)
    BY RoutesAreSaid DEF RowsInv, TypeOK, Understood
  <2>3. r \in Withdraws(update)
    BY <1>4, <2>1
  <2>4. \A q \in Announces(update) \ Withdraws(update) :
          q \in Elements(announced) \/ Present(q)'
    BY <1>6, <2>1, <2>2, <2>3
  <2>5. \A q \in Withdraws(update) : q \in Elements(withdrawn') \/ Gone(q)'
    <3> SUFFICES ASSUME NEW q \in Withdraws(update), q \notin Elements(withdrawn')
                 PROVE  Gone(q)'
      OBVIOUS
    <3>1. q = r \/ Gone(q)
      BY <1>4, <2>1
    <3> QED
      BY <1>6, <2>2, <3>1
  <2> QED
    BY <1>4, <2>1, <2>4, <2>5
<1> QED
  BY <1>1, <1>6, <1>7, <1>8 DEF RowsInv

(* add_route raises. *)
LEMMA FailsStep == RowsInv /\ AddFails => RowsInv'
<1> SUFFICES ASSUME RowsInv, AddFails PROVE RowsInv'
  OBVIOUS
<1>1. TypeOK'
  BY TypeStep DEF RowsInv, Next
<1>2. pc = "add" /\ pc' = "idle" /\ UNCHANGED state /\ Settle(view, update, FALSE)
  BY DEF AddFails, GiveUp, Raise, tables
<1>3. view \in Views
  BY DEF RowsInv, TypeOK
<1> QED
  BY <1>1, <1>2, <1>3, GivenUp

(* The message is dealt with. *)
LEMMA FinishStep == RowsInv /\ Finish => RowsInv'
<1> SUFFICES ASSUME RowsInv, Finish PROVE RowsInv'
  OBVIOUS
<1>1. TypeOK'
  BY TypeStep DEF RowsInv, Next
<1>2. /\ pc = "add" /\ pc' = "idle" /\ UNCHANGED <<state, view, update>>
      /\ announced \o withdrawn = <<>> /\ Settle(view, update, Understood(update))
  BY DEF Finish, tables
<1>3. /\ view \in Views /\ update \in Updates /\ TypeOK
      /\ announced \in Seq(Routes) /\ withdrawn \in Seq(Routes)
  BY DEF RowsInv, TypeOK
<1>4. CASE ~Understood(update)
  <2>1. Settle(view, update, FALSE)
    BY <1>2, <1>4 DEF Settle
  <2> QED
    BY <1>1, <1>2, <1>3, <2>1, GivenUp
<1>5. CASE Understood(update)
  <2>1. Elements(announced) = {} /\ Elements(withdrawn) = {}
    <3>1. Elements(announced \o withdrawn) = {}
      BY <1>2, NoElements
    <3> QED
      BY <1>3, <3>1, ElementsOfBoth
  <2>2. /\ \A r \in Announces(update) \ Withdraws(update) : Present(r)
        /\ \A r \in Withdraws(update) : Gone(r)
    BY <1>2, <1>5, <2>1 DEF RowsInv, AddedWhole
  <2>3. RoutesOf(update) = Announces(update) \cup Withdraws(update)
    BY <1>3, <1>5, RoutesAreSaid DEF Understood
  <2>4. truth \in [Views -> [Routes -> Truths]]
    BY <1>3 DEF TypeOK, Truths
  <2>5. \A v \in Views, r \in Routes :
          truth'[v][r] =
            IF v # view THEN truth[v][r]
            ELSE IF r \in Withdraws(update) THEN "withdrawn"
            ELSE IF r \in Announces(update) THEN "announced" ELSE truth[view][r]
    <3>1. truth' = [truth EXCEPT ![view] =
                      [r \in Routes |-> IF r \in Withdraws(update) THEN "withdrawn"
                                        ELSE IF r \in Announces(update) THEN "announced"
                                        ELSE truth[view][r]]]
      BY <1>2, <1>5 DEF Settle
    <3> QED
      BY <1>3, <2>4, <3>1
  <2>6. ASSUME NEW v \in Views, NEW r \in Routes
        PROVE  KeyOf(v, r)' = KeyOf(v, r) /\ (Clear(v, r)' => Shown(v, r)' /\ r.kind # "other")
    <3>1. KeyOf(v, r)' = KeyOf(v, r)
      BY DEF KeyOf, PrefixString, DetermineFamily
    <3>2. CASE v = view /\ r \in RoutesOf(update)
      <4>1. r.kind # "other"
        BY <1>5, <3>2 DEF Understood
      <4>2. CASE r \in Withdraws(update)
        <5>1. truth'[v][r] = "withdrawn" /\ Gone(r)
          BY <2>2, <2>5, <3>2, <4>2
        <5> QED
          BY <1>2, <3>1, <3>2, <4>1, <5>1 DEF Shown, Present, Gone
      <4>3. CASE r \notin Withdraws(update)
        <5>1. truth'[v][r] = "announced" /\ Present(r)
          BY <2>2, <2>3, <2>5, <3>2, <4>3
        <5> QED
          BY <1>2, <3>1, <3>2, <4>1, <5>1 DEF Shown, Present, Gone
      <4> QED
        BY <4>2, <4>3
    <3>3. CASE ~(v = view /\ r \in RoutesOf(update))
      <4>1. truth'[v][r] = truth[v][r]
        BY <2>3, <2>5, <3>3
      <4>2. Clear(v, r) => Shown(v, r) /\ r.kind # "other"
        BY <1>5, <3>3 DEF RowsInv, OthersShown, KindsKnown
      <4> QED
        BY <1>2, <3>1, <4>1, <4>2 DEF Shown, Clear
    <3> QED
      BY <3>1, <3>2, <3>3
  <2>7. OthersShown' /\ KindsKnown'
    BY <2>6 DEF OthersShown, KindsKnown
  <2> QED
    BY <1>1, <1>2, <2>7 DEF RowsInv, FromMessage, ParsedWhole, AddedWhole
<1> QED
  BY <1>4, <1>5

LEMMA InvStep == RowsInv /\ [Next]_vars => RowsInv'
<1> SUFFICES ASSUME RowsInv, UNCHANGED vars PROVE RowsInv'
  BY ReceiveStep, ParseStep, AnnouncedStep, WithdrawnStep, FailsStep, FinishStep DEF Next
<1>1. TypeOK'
  BY TypeStep DEF RowsInv
<1>2. UNCHANGED <<pc, update, rest, afi, first, announced, withdrawn, view, state, truth>>
  BY DEF vars, parts, lists, tables
<1>3. FromMessage' /\ ParsedWhole'
  BY <1>2 DEF RowsInv, FromMessage, ParsedWhole
<1>4. AddedWhole'
  BY <1>2 DEF RowsInv, AddedWhole, Present, Gone, KeyOf, PrefixString, DetermineFamily
<1>5. OthersShown' /\ KindsKnown'
  <2>1. \A v \in Views, r \in Routes : (Clear(v, r)' <=> Clear(v, r)) /\ (Shown(v, r)' <=> Shown(v, r))
    BY <1>2 DEF Clear, Shown, KeyOf, PrefixString, DetermineFamily
  <2> QED
    BY <1>2, <2>1 DEF RowsInv, OthersShown, KindsKnown
<1> QED
  BY <1>1, <1>3, <1>4, <1>5 DEF RowsInv

(* For any number of peers, routes and messages of any length and form: once    *)
(* a router has said something of a route in a form the parser understands,   *)
(* the row of the route says so, until the router says something else.       *)
THEOREM RowsFollowRouter == Spec => []StateFollowsRouter
<1>1. RowsInv => StateFollowsRouter
  BY DEF RowsInv, OthersShown, StateFollowsRouter, Clear, Shown
<1> QED
  BY <1>1, InvStart, InvStep, PTL DEF Spec

-----------------------------------------------------------------------------
(* The rows of a message are what it says.                                   *)

Sayings == (Names \cup {None}) \X BOOLEAN

(* Attributes of the message that have been read, and what is still to be said. *)
Read == Len(update.attributes) - Len(rest)
StillSaid == Said(announced, FALSE) \o Said(withdrawn, TRUE)

(* The parser's lists hold the routes of the attributes read, in their order.   *)
ReadInOrder ==
  pc = "attributes" =>
    /\ received > 0 /\ rows = <<>>
    /\ Malformed \notin Elements(update.withdrawn)
    /\ Read \in 0..Len(update.attributes)
    /\ \A i \in DOMAIN rest : rest[i] = update.attributes[Read + i]
    /\ announced = Collected(update, TRUE)[Read]
    /\ withdrawn = update.withdrawn \o Collected(update, FALSE)[Read]

(* The rows made and the routes still to be added are what the message says.    *)
SaidInOrder ==
  /\ pc = "add" => received > 0 /\ Made \o StillSaid = Promised(update)
  /\ pc = "idle" /\ received > 0 => IsPrefix(Made, Promised(update))

OrderInv == TypeOK /\ ReadInOrder /\ SaidInOrder

(* What Collected is: routes of the message, step by step. *)
LEMMA CollectedSteps ==
  ASSUME NEW u \in Updates, NEW reach \in BOOLEAN
  PROVE  /\ Collected(u, reach) \in [0..Len(u.attributes) -> Seq(Routes)]
         /\ Collected(u, reach)[0] = <<>>
         /\ \A n \in 1..Len(u.attributes) :
              LET a == u.attributes[n] IN
              Collected(u, reach)[n] =
                IF WellFormed(a) /\ a.reach = reach THEN Collected(u, reach)[n - 1] \o a.routes
                ELSE Collected(u, reach)[n - 1]
<1> DEFINE as == u.attributes
           m == Len(as)
           Adds(n) == WellFormed(as[n]) /\ as[n].reach = reach
           F == [n \in Nat |-> [s \in Seq(Routes) |-> IF n \in 1..m /\ Adds(n) THEN s \o as[n].routes ELSE s]]
           routes[n \in 0..m] ==
             IF n = 0 THEN <<>> ELSE IF Adds(n) THEN routes[n - 1] \o as[n].routes ELSE routes[n - 1]
<1>1. m \in Nat /\ <<>> \in Seq(Routes) /\ \A n \in 1..m : as[n] \in Attributes
  BY RoutesOfMessage, EmptySeq, ElementOfSeq, LenProperties
<1>2. \A n \in 1..m : Adds(n) => as[n].routes \in Seq(Routes)
  BY <1>1, RoutesOfAttribute
<1> HIDE DEF m, as, Adds
<1>3. F \in [Nat -> [Seq(Routes) -> Seq(Routes)]]
  <2> SUFFICES ASSUME NEW n \in Nat, NEW s \in Seq(Routes), n \in 1..m, Adds(n)
               PROVE  s \o as[n].routes \in Seq(Routes)
    OBVIOUS
  <2>1. as[n].routes \in Seq(Routes)
    BY <1>2
  <2> QED
    BY <2>1, ConcatProperties
<1>4. PICK g \in [0..m -> Seq(Routes)] :
        g[0] = <<>> /\ \A n \in 1..m : g[n] = F[n][g[n - 1]]
  <2> DEFINE V == Seq(Routes)
             v == <<>>
  <2>1. v \in V /\ F \in Steps(V)
    BY <1>1, <1>3 DEF Steps
  <2> HIDE DEF F, V, v
  <2>2. \E f : IsIterate(f, V, v, F, m)
    BY <1>1, <2>1, Recursion
  <2> QED
    BY <2>2 DEF V, v, IsIterate
<1>5. \A n \in 1..m : g[n] = IF Adds(n) THEN g[n - 1] \o as[n].routes ELSE g[n - 1]
  <2> SUFFICES ASSUME NEW n \in 1..m
               PROVE  F[n][g[n - 1]] = IF Adds(n) THEN g[n - 1] \o as[n].routes ELSE g[n - 1]
    BY <1>4
  <2>1. n \in Nat /\ n - 1 \in 0..m /\ g[n - 1] \in Seq(Routes)
    BY <1>1
  <2> QED
    BY <2>1
<1> HIDE DEF F
<1> DEFINE Is(f) == f = [n \in 0..m |-> IF n = 0 THEN <<>>
                                        ELSE IF Adds(n) THEN f[n - 1] \o as[n].routes ELSE f[n - 1]]
<1>6. Is(routes)
  <2>1. Is(g)
    <3> DEFINE Value(n) == IF n = 0 THEN <<>>
                           ELSE IF Adds(n) THEN g[n - 1] \o as[n].routes ELSE g[n - 1]
    <3>1. ASSUME NEW n \in 0..m PROVE g[n] = Value(n)
      <4>1. n = 0 \/ n \in 1..m
        BY <1>1
      <4>2. CASE n = 0
        BY <1>4, <4>2
      <4>3. CASE n \in 1..m
        <5>1. n # 0
          BY <4>3
        <5> QED
          BY <1>5, <4>3, <5>1, Zenon
      <4> QED
        BY <4>1, <4>2, <4>3
    <3> HIDE DEF Value
    <3>2. g = [n \in 0..m |-> Value(n)]
      BY <3>1
    <3> QED
      BY <3>2 DEF Value
  <2>2. routes = CHOOSE f : Is(f)
    OBVIOUS
  <2> HIDE DEF routes, Is
  <2> QED
    BY <2>1, <2>2, Zenon
<1> HIDE DEF routes
<1>7. /\ routes[0] = <<>> /\ DOMAIN routes = 0..m
      /\ \A n \in 1..m : routes[n] = IF Adds(n) THEN routes[n - 1] \o as[n].routes ELSE routes[n - 1]
  <2>1. DOMAIN routes = 0..m /\ \A n \in 0..m :
          routes[n] = IF n = 0 THEN <<>>
                      ELSE IF Adds(n) THEN routes[n - 1] \o as[n].routes ELSE routes[n - 1]
    BY <1>6, Zenon
  <2> QED
    BY <1>1, <2>1
<1>8. routes \in [0..m -> Seq(Routes)]
  <2> DEFINE N == {n \in Nat : n <= m => routes[n] \in Seq(Routes)}
  <2>1. 0 \in N
    BY <1>1, <1>7
  <2>2. ASSUME NEW n \in Nat, n \in N PROVE n + 1 \in N
    <3> SUFFICES ASSUME n + 1 <= m PROVE routes[n + 1] \in Seq(Routes)
      OBVIOUS
    <3>1. routes[n] \in Seq(Routes) /\ n + 1 \in 1..m /\ (n + 1) - 1 = n
      BY <1>1, <2>2
    <3>2. Adds(n + 1) => routes[n] \o as[n + 1].routes \in Seq(Routes)
      BY <1>2, <3>1, ConcatProperties
    <3> QED
      BY <1>7, <3>1, <3>2
  <2>3. Nat \subseteq N
    <3> HIDE DEF N
    <3> QED
      BY <2>1, <2>2, SetInduction
  <2>4. routes = [n \in 0..m |-> routes[n]]
    BY <1>6, Zenon
  <2>5. \A n \in 0..m : routes[n] \in Seq(Routes)
    BY <1>1, <2>3
  <2> QED
    BY <2>4, <2>5
<1>9. Collected(u, reach) = routes
  BY DEF Collected, routes, Adds, as, m
<1> QED
  BY <1>7, <1>8, <1>9 DEF Adds, as, m

(* What is said of a list of routes, of two lists one after the other, and of a  *)
(* list taken apart.                                                        *)
LEMMA SaidType ==
  ASSUME NEW s \in Seq(Routes), NEW w \in BOOLEAN
  PROVE  /\ Said(s, w) \in Seq(Sayings) /\ Len(Said(s, w)) = Len(s)
         /\ \A i \in 1..Len(s) : Said(s, w)[i] = <<PrefixString(s[i]), w>>
<1>1. Len(s) \in Nat /\ DOMAIN s = 1..Len(s) /\ \A i \in 1..Len(s) : s[i] \in Routes
  BY LenProperties, ElementOfSeq
<1>2. \A i \in 1..Len(s) : <<PrefixString(s[i]), w>> \in Sayings
  BY <1>1, PrefixType DEF Sayings
<1>3. Said(s, w) = [i \in 1..Len(s) |-> <<PrefixString(s[i]), w>>]
  BY <1>1 DEF Said
<1> DEFINE saying(i) == <<PrefixString(s[i]), w>>
<1> HIDE DEF saying
<1>4. [i \in 1..Len(s) |-> saying(i)] \in [1..Len(s) -> Sayings]
  BY <1>2 DEF saying
<1>5. Said(s, w) \in Seq(Sayings)
  <2>1. Said(s, w) \in [1..Len(s) -> Sayings]
    BY <1>3, <1>4 DEF saying
  <2> QED
    BY <1>1, <2>1, SeqDef
<1>6. DOMAIN Said(s, w) = 1..Len(s)
  BY <1>3
<1>7. Len(Said(s, w)) = Len(s)
  BY <1>1, <1>5, <1>6, LenProperties
<1> QED
  BY <1>3, <1>5, <1>7

LEMMA SaidOfBoth ==
  ASSUME NEW s \in Seq(Routes), NEW t \in Seq(Routes), NEW w \in BOOLEAN
  PROVE  Said(s \o t, w) = Said(s, w) \o Said(t, w)
<1>1. /\ s \o t \in Seq(Routes) /\ Len(s \o t) = Len(s) + Len(t)
      /\ \A i \in 1..(Len(s) + Len(t)) : (s \o t)[i] = IF i <= Len(s) THEN s[i] ELSE t[i - Len(s)]
      /\ Len(s) \in Nat /\ Len(t) \in Nat
  BY ConcatProperties, LenProperties
<1> DEFINE b == Said(s \o t, w)
           c == Said(s, w) \o Said(t, w)
<1>2. /\ b \in Seq(Sayings) /\ Len(b) = Len(s) + Len(t)
      /\ \A i \in 1..(Len(s) + Len(t)) : b[i] = <<PrefixString((s \o t)[i]), w>>
  BY <1>1, SaidType
<1>3. /\ Said(s, w) \in Seq(Sayings) /\ Len(Said(s, w)) = Len(s)
      /\ Said(t, w) \in Seq(Sayings) /\ Len(Said(t, w)) = Len(t)
  BY SaidType
<1>4. /\ c \in Seq(Sayings) /\ Len(c) = Len(s) + Len(t)
      /\ \A i \in 1..(Len(s) + Len(t)) :
           c[i] = IF i <= Len(s) THEN Said(s, w)[i] ELSE Said(t, w)[i - Len(s)]
  <2> DEFINE x == Said(s, w)
             y == Said(t, w)
  <2>1. x \in Seq(Sayings) /\ y \in Seq(Sayings) /\ Len(x) = Len(s) /\ Len(y) = Len(t)
    BY <1>3
  <2> HIDE DEF x, y
  <2>2. /\ x \o y \in Seq(Sayings) /\ Len(x \o y) = Len(x) + Len(y)
        /\ \A i \in 1..(Len(x) + Len(y)) : (x \o y)[i] = IF i <= Len(x) THEN x[i] ELSE y[i - Len(x)]
    BY <2>1, ConcatProperties
  <2> QED
    BY <2>1, <2>2 DEF x, y
<1>5. ASSUME NEW i \in 1..(Len(s) + Len(t)) PROVE b[i] = c[i]
  <2>1. CASE i <= Len(s)
    <3>1. i \in 1..Len(s) /\ (s \o t)[i] = s[i] /\ c[i] = Said(s, w)[i]
      BY <1>1, <1>4, <2>1
    <3>2. Said(s, w)[i] = <<PrefixString(s[i]), w>>
      BY <3>1, SaidType
    <3> QED
      BY <1>2, <3>1, <3>2
  <2>2. CASE ~(i <= Len(s))
    <3>1. i - Len(s) \in 1..Len(t) /\ (s \o t)[i] = t[i - Len(s)] /\ c[i] = Said(t, w)[i - Len(s)]
      BY <1>1, <1>4, <2>2
    <3>2. Said(t, w)[i - Len(s)] = <<PrefixString(t[i - Len(s)]), w>>
      BY <3>1, SaidType
    <3> QED
      BY <1>2, <3>1, <3>2
  <2> QED
    BY <2>1, <2>2
<1> HIDE DEF b, c
<1>6. b = c
  BY <1>2, <1>4, <1>5, SeqEqual
<1> QED
  BY <1>6 DEF b, c

LEMMA SaidApart ==
  ASSUME NEW s \in Seq(Routes), s # <<>>, NEW w \in BOOLEAN
  PROVE  /\ <<PrefixString(Head(s)), w>> \in Sayings
         /\ Said(s, w) = <<<<PrefixString(Head(s)), w>>>> \o Said(Tail(s), w)
<1>1. Head(s) \in Routes /\ Tail(s) \in Seq(Routes) /\ s = <<Head(s)>> \o Tail(s)
  BY HeadTailProperties, SubSeqRecursiveFirst, SubSeqFull, TailIsSubSeq, LenProperties, EmptySeq
<1>2. <<Head(s)>> \in Seq(Routes) /\ Len(<<Head(s)>>) = 1
  BY <1>1
<1>3. Said(s, w) = Said(<<Head(s)>>, w) \o Said(Tail(s), w)
  BY <1>1, <1>2, SaidOfBoth
<1>4. Said(<<Head(s)>>, w) = <<<<PrefixString(Head(s)), w>>>>
  BY DEF Said
<1>5. PrefixString(Head(s)) \in Names \cup {None}
  BY <1>1, PrefixType
<1> QED
  BY <1>3, <1>4, <1>5 DEF Sayings

LEMMA NothingSaidOfNone == \A w : Said(<<>>, w) = <<>>
BY DEF Said

(* A message says a sequence of sayings. *)
LEMMA PromisedType ==
  ASSUME NEW u \in Updates
  PROVE  Promised(u) \in Seq(Sayings)
<1>1. CASE Malformed \in Elements(u.withdrawn) \cup Elements(u.nlri)
  BY <1>1, EmptySeq DEF Promised
<1>2. CASE Malformed \notin Elements(u.withdrawn) \cup Elements(u.nlri)
  <2>1. u.withdrawn \in Seq(Routes) /\ u.nlri \in Seq(Routes) /\ Len(u.attributes) \in Nat
    BY <1>2, RoutesOfMessage, WithoutMalformed, LenProperties
  <2>2. Len(u.attributes) \in 0..Len(u.attributes)
    BY <2>1
  <2>3. CollectedAll(u, TRUE) \in Seq(Routes) /\ CollectedAll(u, FALSE) \in Seq(Routes)
    BY <2>2, CollectedSteps DEF CollectedAll
  <2>4. /\ CollectedAll(u, TRUE) \o u.nlri \in Seq(Routes)
        /\ u.withdrawn \o CollectedAll(u, FALSE) \in Seq(Routes)
    BY <2>1, <2>3, ConcatProperties
  <2>5. /\ Said(CollectedAll(u, TRUE) \o u.nlri, FALSE) \in Seq(Sayings)
        /\ Said(u.withdrawn \o CollectedAll(u, FALSE), TRUE) \in Seq(Sayings)
    BY <2>4, SaidType
  <2> QED
    BY <1>2, <2>5, ConcatProperties DEF Promised
<1> QED
  BY <1>1, <1>2

(* Rows are said in the order in which they are made. *)
LEMMA MadeType ==
  ASSUME TypeOK
  PROVE  Made \in Seq(Sayings) /\ Len(Made) = Len(rows)
<1>1. /\ Len(rows) \in Nat /\ DOMAIN rows = 1..Len(rows)
      /\ \A i \in 1..Len(rows) : rows[i] \in RouteUpdates
  BY LenProperties, ElementOfSeq DEF TypeOK
<1> DEFINE saying(i) == <<rows[i].prefix, rows[i].withdrawn>>
<1>2. \A i \in 1..Len(rows) : saying(i) \in Sayings
  BY <1>1 DEF Sayings, RouteUpdates
<1>3. Made = [i \in 1..Len(rows) |-> saying(i)]
  BY <1>1 DEF Made
<1> HIDE DEF saying
<1>4. Made \in [1..Len(rows) -> Sayings] /\ DOMAIN Made = 1..Len(rows)
  BY <1>2, <1>3
<1>5. Made \in Seq(Sayings)
  BY <1>1, <1>4, SeqDef
<1> QED
  BY <1>1, <1>4, <1>5, LenProperties

(* A row made is one more saying. *)
LEMMA OneMoreMade ==
  ASSUME TypeOK, NEW r \in Routes, NEW w \in BOOLEAN, Add(r, w), TypeOK'
  PROVE  Made' = Append(Made, <<PrefixString(r), w>>)
<1> DEFINE row == RouteUpdate(r, w)
<1>1. row \in RouteUpdates /\ row.prefix = PrefixString(r) /\ row.withdrawn = w
  BY RouteUpdateType DEF RouteUpdate
<1>2. rows' = Append(rows, row)
  BY DEF Add
<1> HIDE DEF row
<1>3. /\ rows \in Seq(RouteUpdates) /\ Len(rows) \in Nat
      /\ Len(rows') = Len(rows) + 1 /\ rows'[Len(rows) + 1] = row
      /\ \A i \in 1..Len(rows) : rows'[i] = rows[i]
  BY <1>1, <1>2, AppendProperties, LenProperties DEF TypeOK
<1>4. <<PrefixString(r), w>> \in Sayings
  BY PrefixType DEF Sayings
<1>5. /\ Made \in Seq(Sayings) /\ Len(Made) = Len(rows)
      /\ Made' \in Seq(Sayings) /\ Len(Made') = Len(rows')
  <2>1. (TypeOK => Made \in Seq(Sayings) /\ Len(Made) = Len(rows))'
    BY MadeType, PTL
  <2> QED
    BY <2>1, MadeType DEF Sayings
<1>6. \A i \in 1..Len(rows) : Made[i] = <<rows[i].prefix, rows[i].withdrawn>>
  BY <1>3, LenProperties DEF Made
<1>7. \A i \in 1..(Len(rows) + 1) : Made'[i] = <<rows'[i].prefix, rows'[i].withdrawn>>
  <2>1. DOMAIN rows' = 1..(Len(rows) + 1)
    BY <1>3, LenProperties DEF TypeOK
  <2> QED
    BY <2>1 DEF Made
<1> DEFINE more == Append(Made, <<PrefixString(r), w>>)
<1>8. /\ more \in Seq(Sayings) /\ Len(more) = Len(rows) + 1
      /\ \A i \in 1..Len(rows) : more[i] = Made[i]
      /\ more[Len(rows) + 1] = <<PrefixString(r), w>>
  BY <1>4, <1>5, AppendProperties
<1> HIDE DEF more
<1>9. \A i \in 1..(Len(rows) + 1) : Made'[i] = more[i]
  <2> SUFFICES ASSUME NEW i \in 1..(Len(rows) + 1) PROVE Made'[i] = more[i]
    OBVIOUS
  <2>1. CASE i = Len(rows) + 1
    BY <1>1, <1>3, <1>7, <1>8, <2>1
  <2>2. CASE i \in 1..Len(rows)
    BY <1>3, <1>6, <1>7, <1>8, <2>2
  <2> QED
    BY <1>3, <2>1, <2>2
<1>10. Made' = more
  BY <1>3, <1>5, <1>8, <1>9, SeqEqual
<1> QED
  BY <1>10 DEF more

(* What is still to be said, and its beginning. *)
LEMMA StillType ==
  ASSUME TypeOK
  PROVE  /\ Said(announced, FALSE) \in Seq(Sayings) /\ Said(withdrawn, TRUE) \in Seq(Sayings)
         /\ StillSaid \in Seq(Sayings)
  BY SaidType, ConcatProperties DEF TypeOK, StillSaid

(* What comes first is a prefix. *)
LEMMA FirstIsPrefix ==
  ASSUME NEW S, NEW s \in Seq(S), NEW t \in Seq(S)
  PROVE  IsPrefix(s, s \o t) /\ IsPrefix(<<>>, s)
<1>1. /\ Len(s) \in Nat /\ Len(t) \in Nat /\ Len(s \o t) = Len(s) + Len(t)
      /\ Len(<<>>) = 0
  BY ConcatProperties, LenProperties
<1>2. CASE Len(s) = 0
  <2>1. SubSeq(s, 1, Len(s)) = <<>> /\ SubSeq(s \o t, 1, Len(s)) = <<>>
    BY <1>2, SubSeqEmpty
  <2> QED
    BY <1>1, <1>2, <2>1 DEF IsPrefix
<1>3. CASE Len(s) # 0
  <2>1. 1 \in 1..Len(s) /\ Len(s) \in 1..Len(s)
    BY <1>1, <1>3
  <2>2. SubSeq(s \o t, 1, Len(s)) = SubSeq(s, 1, Len(s))
    BY <2>1, SubSeqOfConcat1
  <2> QED
    BY <1>1, <2>2 DEF IsPrefix
<1>4. IsPrefix(<<>>, s)
  <2>1. SubSeq(<<>>, 1, 0) = <<>> /\ SubSeq(s, 1, 0) = <<>>
    BY SubSeqEmpty
  <2> QED
    BY <1>1, <2>1 DEF IsPrefix
<1> QED
  BY <1>2, <1>3, <1>4

LEMMA OrderStart == Init => OrderInv
<1> SUFFICES ASSUME Init PROVE OrderInv
  OBVIOUS
<1>1. TypeOK
  BY TypeStart
<1> QED
  BY <1>1 DEF Init, InitParts, OrderInv, ReadInOrder, SaidInOrder

(* An exception before any row is made. *)
LEMMA RefusedUnsaid ==
  ASSUME TypeOK', pc' = "idle", rows' = <<>>
  PROVE  ReadInOrder' /\ SaidInOrder'
<1>1. Made' = <<>>
  BY DEF Made
<1>2. Promised(update') \in Seq(Sayings)
  BY PromisedType DEF TypeOK
<1>3. IsPrefix(<<>>, Promised(update'))
  BY <1>2, FirstIsPrefix
<1> QED
  BY <1>1, <1>3 DEF ReadInOrder, SaidInOrder

LEMMA ReceiveOrder == OrderInv /\ TypeOK' /\ Receive => ReadInOrder' /\ SaidInOrder'
<1> SUFFICES ASSUME OrderInv, TypeOK', Receive PROVE ReadInOrder' /\ SaidInOrder'
  OBVIOUS
<1>1. PICK u \in Updates : ReadStructure(u)
  BY DEF Receive
<1>2. rows' = <<>> /\ received' > 0
  BY DEF Receive, OrderInv, TypeOK
<1>3. CASE Malformed \in Elements(u.withdrawn)
  BY <1>1, <1>2, <1>3, RefusedUnsaid DEF ReadStructure, Raise
<1>4. CASE Malformed \notin Elements(u.withdrawn)
  <2>1. /\ pc' = "attributes" /\ rest' = u.attributes /\ update' = u
        /\ announced' = <<>> /\ withdrawn' = u.withdrawn
    BY <1>1, <1>4 DEF ReadStructure
  <2>2. /\ Len(u.attributes) \in Nat /\ DOMAIN u.attributes = 1..Len(u.attributes)
        /\ u.withdrawn \in Seq(Malformables)
    BY RoutesOfMessage, LenProperties
  <2>3. Read' = 0
    BY <2>1, <2>2 DEF Read
  <2>4. Collected(u, TRUE)[0] = <<>> /\ Collected(u, FALSE)[0] = <<>>
    BY CollectedSteps
  <2>5. u.withdrawn \o <<>> = u.withdrawn
    BY <2>2, ConcatEmptySeq
  <2>6. \A i \in DOMAIN u.attributes : u.attributes[i] = u.attributes[0 + i]
    BY <2>2
  <2>7. Read' \in 0..Len(update'.attributes)
    BY <2>1, <2>2, <2>3
  <2>8. \A i \in DOMAIN rest' : rest'[i] = update'.attributes[Read' + i]
    BY <2>1, <2>3, <2>6
  <2>9. /\ announced' = Collected(update', TRUE)[Read']
        /\ withdrawn' = update'.withdrawn \o Collected(update', FALSE)[Read']
    BY <2>1, <2>3, <2>4, <2>5
  <2>10. SaidInOrder'
    BY <2>1 DEF SaidInOrder
  <2>11. ReadInOrder'
    BY <1>2, <1>4, <2>1, <2>7, <2>8, <2>9 DEF ReadInOrder
  <2> QED
    BY <2>10, <2>11
<1> QED
  BY <1>3, <1>4

(* One more attribute read, out of l of which k were left. *)
LEMMA NextIndex ==
  ASSUME NEW l \in Nat, NEW k \in Nat, k > 0, NEW j \in 0..l, j = l - k
  PROVE  l - (k - 1) = j + 1 /\ j + 1 \in 1..l /\ j + 1 \in 0..l /\ (j + 1) - 1 = j
OBVIOUS

LEMMA AttributeOrder == OrderInv /\ TypeOK' /\ ParseAttribute /\ UNCHANGED tables => ReadInOrder' /\ SaidInOrder'
<1> SUFFICES ASSUME OrderInv, TypeOK', ParseAttribute, UNCHANGED tables PROVE ReadInOrder' /\ SaidInOrder'
  OBVIOUS
<1> DEFINE as == update.attributes
           n == Read
           a == Head(rest)
<1>1. /\ pc = "attributes" /\ rest # <<>> /\ rest' = Tail(rest) /\ update' = update /\ pc' = "attributes"
      /\ rows' = rows /\ received' = received
  BY DEF ParseAttribute, tables
<1>2. /\ received > 0 /\ rows = <<>> /\ Malformed \notin Elements(update.withdrawn)
      /\ n \in 0..Len(as) /\ \A i \in DOMAIN rest : rest[i] = as[n + i]
      /\ announced = Collected(update, TRUE)[n]
      /\ withdrawn = update.withdrawn \o Collected(update, FALSE)[n]
  BY <1>1 DEF OrderInv, ReadInOrder
<1>3. /\ rest \in Seq(Attributes) /\ update \in Updates /\ as \in Seq(Attributes) /\ Len(as) \in Nat
  BY RoutesOfMessage, LenProperties DEF OrderInv, TypeOK
<1>4. /\ Len(rest) \in Nat /\ Len(rest) > 0 /\ DOMAIN rest = 1..Len(rest)
      /\ Len(Tail(rest)) = Len(rest) - 1 /\ DOMAIN Tail(rest) = 1..(Len(rest) - 1)
      /\ \A i \in 1..(Len(rest) - 1) : Tail(rest)[i] = rest[i + 1]
      /\ a = rest[1]
  BY <1>1, <1>3, EmptySeq, LenProperties, HeadTailProperties
<1>5. n = Len(as) - Len(rest)
  BY DEF Read
<1>6. Read' = Len(as) - (Len(rest) - 1)
  BY <1>1, <1>4 DEF Read
<1> HIDE DEF n, as, a
<1>7. Read' = n + 1 /\ n + 1 \in 1..Len(as) /\ (n + 1) - 1 = n /\ a = as[n + 1]
  <2>1. Read' = n + 1 /\ n + 1 \in 1..Len(as) /\ (n + 1) - 1 = n
    <3>1. n \in 0..Len(as)
      BY <1>2
    <3>2. Len(as) \in Nat
      BY <1>3
    <3>3. Len(rest) \in Nat /\ Len(rest) > 0
      BY <1>4
    <3> QED
      BY <1>5, <1>6, <3>1, <3>2, <3>3, NextIndex
  <2>2. 1 \in DOMAIN rest
    BY <1>4
  <2>3. rest[1] = as[n + 1]
    BY <1>2, <2>2
  <2> QED
    BY <1>4, <2>1, <2>3
<1>8. \A i \in DOMAIN rest' : rest'[i] = as[Read' + i]
  <2> SUFFICES ASSUME NEW i \in DOMAIN Tail(rest) PROVE Tail(rest)[i] = as[(n + 1) + i]
    BY <1>1, <1>7
  <2>1. i \in 1..(Len(rest) - 1) /\ i + 1 \in DOMAIN rest /\ n + (i + 1) = (n + 1) + i
    BY <1>2, <1>4
  <2> QED
    BY <1>2, <1>4, <2>1
<1>9. a \in Attributes
  BY <1>3, <1>7, ElementOfSeq
<1>10. /\ a.reach \in BOOLEAN /\ (WellFormed(a) => a.routes \in Seq(Routes))
  BY <1>9, RoutesOfAttribute
<1>11. \A reach \in BOOLEAN :
         Collected(update, reach)[n + 1] =
           IF WellFormed(a) /\ a.reach = reach THEN Collected(update, reach)[n] \o a.routes
           ELSE Collected(update, reach)[n]
  BY <1>3, <1>7, CollectedSteps DEF as
<1>12. Collected(update, FALSE)[n] \in Seq(Routes) /\ update.withdrawn \in Seq(Routes)
  BY <1>2, <1>3, CollectedSteps, RoutesOfMessage, WithoutMalformed DEF as
<1>13. SkipMalformed(a) \/ (WellFormed(a) /\ ReadRoutes(a))
  BY DEF ParseAttribute, a
<1>14. /\ announced' = Collected(update, TRUE)[n + 1]
       /\ withdrawn' = update.withdrawn \o Collected(update, FALSE)[n + 1]
  <2>1. CASE SkipMalformed(a)
    BY <1>2, <1>11, <2>1 DEF SkipMalformed
  <2>2. CASE WellFormed(a) /\ ReadRoutes(a) /\ a.reach
    BY <1>2, <1>11, <2>2 DEF ReadRoutes, Collect
  <2>3. CASE WellFormed(a) /\ ReadRoutes(a) /\ ~a.reach
    <3>1. announced' = announced /\ withdrawn' = withdrawn \o a.routes
      BY <2>3 DEF ReadRoutes, Collect
    <3>2. /\ Collected(update, FALSE)[n + 1] = Collected(update, FALSE)[n] \o a.routes
          /\ Collected(update, TRUE)[n + 1] = Collected(update, TRUE)[n]
      BY <1>10, <1>11, <2>3
    <3>3. (update.withdrawn \o Collected(update, FALSE)[n]) \o a.routes
            = update.withdrawn \o (Collected(update, FALSE)[n] \o a.routes)
      <4> DEFINE x == update.withdrawn
                 y == Collected(update, FALSE)[n]
                 z == a.routes
      <4>1. x \in Seq(Routes) /\ y \in Seq(Routes) /\ z \in Seq(Routes)
        BY <1>10, <1>12, <2>3
      <4> HIDE DEF x, y, z
      <4>2. (x \o y) \o z = x \o (y \o z)
        BY <4>1, ConcatAssociative
      <4> QED
        BY <4>2 DEF x, y, z
    <3> QED
      BY <1>2, <3>1, <3>2, <3>3
  <2> QED
    BY <1>13, <2>1, <2>2, <2>3
<1>15. Read' \in 0..Len(as)
  <2>1. n + 1 \in 0..Len(as)
    <3>1. Len(as) \in Nat
      BY <1>3
    <3>2. n \in 0..Len(as)
      BY <1>2
    <3>3. Len(rest) \in Nat /\ Len(rest) > 0
      BY <1>4
    <3> QED
      BY <1>5, <3>1, <3>2, <3>3, NextIndex
  <2> QED
    BY <1>7, <2>1
<1> QED
  BY <1>1, <1>2, <1>7, <1>8, <1>14, <1>15 DEF ReadInOrder, SaidInOrder, as

LEMMA NlriOrder == OrderInv /\ TypeOK' /\ ParseNlri /\ UNCHANGED tables => ReadInOrder' /\ SaidInOrder'
<1> SUFFICES ASSUME OrderInv, TypeOK', ParseNlri, UNCHANGED tables PROVE ReadInOrder' /\ SaidInOrder'
  OBVIOUS
<1>1. /\ pc = "attributes" /\ rest = <<>> /\ update' = update
      /\ rows' = rows /\ received' = received
  BY DEF ParseNlri, tables
<1>2. /\ received > 0 /\ rows = <<>> /\ Malformed \notin Elements(update.withdrawn)
      /\ announced = Collected(update, TRUE)[Read]
      /\ withdrawn = update.withdrawn \o Collected(update, FALSE)[Read]
  BY <1>1 DEF OrderInv, ReadInOrder
<1>3. update \in Updates /\ Len(update.attributes) \in Nat
  BY RoutesOfMessage, LenProperties DEF OrderInv, TypeOK
<1>4. Read = Len(update.attributes)
  BY <1>1, <1>3 DEF Read
<1>5. CASE Malformed \in Elements(update.nlri)
  <2>1. pc' = "idle" /\ rows' = <<>>
    BY <1>1, <1>2, <1>5 DEF ParseNlri, Raise
  <2> QED
    BY <2>1, RefusedUnsaid
<1>6. CASE Malformed \notin Elements(update.nlri)
  <2>1. pc' = "add" /\ announced' = announced \o update.nlri /\ withdrawn' = withdrawn
    BY <1>6 DEF ParseNlri
  <2>2. /\ announced' = CollectedAll(update, TRUE) \o update.nlri
        /\ withdrawn' = update.withdrawn \o CollectedAll(update, FALSE)
    BY <1>2, <1>4, <2>1 DEF CollectedAll
  <2>3. StillSaid' = Promised(update)
    BY <1>2, <1>6, <2>2 DEF StillSaid, Promised
  <2>4. Made' = <<>>
    BY <1>1, <1>2 DEF Made
  <2>5. Promised(update) \in Seq(Sayings)
    BY <1>3, PromisedType
  <2>6. <<>> \o Promised(update) = Promised(update)
    BY <2>5, ConcatEmptySeq
  <2> QED
    BY <1>1, <1>2, <2>1, <2>3, <2>4, <2>6 DEF ReadInOrder, SaidInOrder
<1> QED
  BY <1>5, <1>6

(* One route is taken from what is still to be said, and said. *)
LEMMA NextSaid ==
  ASSUME NEW S, NEW s \in Seq(S), NEW e \in S, NEW t \in Seq(S)
  PROVE  Append(s, e) \o t = s \o (<<e>> \o t)
<1>1. <<e>> \in Seq(S)
  OBVIOUS
<1>2. Append(s, e) = s \o <<e>>
  BY AppendIsConcat
<1> QED
  BY <1>1, <1>2, ConcatAssociative

LEMMA AnnouncedOrder == OrderInv /\ TypeOK' /\ AddAnnounced => ReadInOrder' /\ SaidInOrder'
<1> SUFFICES ASSUME OrderInv, TypeOK', AddAnnounced PROVE ReadInOrder' /\ SaidInOrder'
  OBVIOUS
<1>1. /\ pc = "add" /\ pc' = "add" /\ update' = update /\ received' = received
      /\ announced # <<>> /\ announced' = Tail(announced) /\ withdrawn' = withdrawn
      /\ Add(Head(announced), FALSE) /\ TypeOK
  BY DEF AddAnnounced, Add, OrderInv
<1>2. received > 0 /\ Made \o StillSaid = Promised(update)
  BY <1>1 DEF OrderInv, SaidInOrder
<1> DEFINE e == <<PrefixString(Head(announced)), FALSE>>
           x == Made
           y == Said(Tail(announced), FALSE)
           z == Said(withdrawn, TRUE)
<1>3. announced \in Seq(Routes) /\ Head(announced) \in Routes /\ Tail(announced) \in Seq(Routes)
  BY <1>1, HeadTailProperties DEF TypeOK
<1>4. Made' = Append(x, e)
  BY <1>1, <1>3, OneMoreMade
<1>5. e \in Sayings /\ x \in Seq(Sayings) /\ y \in Seq(Sayings) /\ z \in Seq(Sayings)
  BY <1>1, <1>3, SaidApart, SaidType, StillType, MadeType
<1>6. StillSaid = (<<e>> \o y) \o z /\ StillSaid' = y \o z
  BY <1>1, <1>3, SaidApart DEF StillSaid
<1> HIDE DEF e, x, y, z
<1>7. (<<e>> \o y) \o z = <<e>> \o (y \o z) /\ y \o z \in Seq(Sayings)
  BY <1>5, ConcatAssociative, ConcatProperties
<1>8. Append(x, e) \o (y \o z) = x \o (<<e>> \o (y \o z))
  BY <1>5, <1>7, NextSaid
<1>9. Made' \o StillSaid' = Made \o StillSaid
  BY <1>4, <1>6, <1>7, <1>8 DEF x
<1> QED
  BY <1>1, <1>2, <1>9 DEF ReadInOrder, SaidInOrder

LEMMA WithdrawnOrder == OrderInv /\ TypeOK' /\ AddWithdrawn => ReadInOrder' /\ SaidInOrder'
<1> SUFFICES ASSUME OrderInv, TypeOK', AddWithdrawn PROVE ReadInOrder' /\ SaidInOrder'
  OBVIOUS
<1>1. /\ pc = "add" /\ pc' = "add" /\ update' = update /\ received' = received
      /\ announced = <<>> /\ announced' = <<>>
      /\ withdrawn # <<>> /\ withdrawn' = Tail(withdrawn)
      /\ Add(Head(withdrawn), TRUE) /\ TypeOK
  BY DEF AddWithdrawn, Add, OrderInv
<1>2. received > 0 /\ Made \o StillSaid = Promised(update)
  BY <1>1 DEF OrderInv, SaidInOrder
<1> DEFINE e == <<PrefixString(Head(withdrawn)), TRUE>>
           x == Made
           y == Said(Tail(withdrawn), TRUE)
<1>3. withdrawn \in Seq(Routes) /\ Head(withdrawn) \in Routes /\ Tail(withdrawn) \in Seq(Routes)
  BY <1>1, HeadTailProperties DEF TypeOK
<1>4. Made' = Append(x, e)
  BY <1>1, <1>3, OneMoreMade
<1>5. e \in Sayings /\ x \in Seq(Sayings) /\ y \in Seq(Sayings)
  BY <1>1, <1>3, SaidApart, SaidType, MadeType
<1>6. StillSaid = <<>> \o (<<e>> \o y) /\ StillSaid' = <<>> \o y
  BY <1>1, <1>3, SaidApart, NothingSaidOfNone DEF StillSaid
<1> HIDE DEF e, x, y
<1>7. /\ <<e>> \in Seq(Sayings) /\ <<e>> \o y \in Seq(Sayings)
      /\ <<>> \o (<<e>> \o y) = <<e>> \o y /\ <<>> \o y = y
  BY <1>5, ConcatProperties, ConcatEmptySeq
<1>8. Append(x, e) \o y = x \o (<<e>> \o y)
  BY <1>5, NextSaid
<1>9. Made' \o StillSaid' = Made \o StillSaid
  BY <1>4, <1>6, <1>7, <1>8 DEF x
<1> QED
  BY <1>1, <1>2, <1>9 DEF ReadInOrder, SaidInOrder

(* What has been made so far is how the message begins. *)
LEMMA MadeSoFar ==
  ASSUME TypeOK, pc = "add", SaidInOrder
  PROVE  received > 0 /\ IsPrefix(Made, Promised(update))
<1>1. received > 0 /\ Made \o StillSaid = Promised(update)
  BY DEF SaidInOrder
<1>2. Made \in Seq(Sayings) /\ StillSaid \in Seq(Sayings)
  BY MadeType, StillType
<1> QED
  BY <1>1, <1>2, FirstIsPrefix

LEMMA EndOrder ==
  ASSUME OrderInv, AddFails \/ Finish
  PROVE  ReadInOrder' /\ SaidInOrder'
<1>1. pc = "add" /\ pc' = "idle" /\ rows' = rows /\ update' = update /\ received' = received
  BY DEF AddFails, Finish, GiveUp, Raise, tables
<1>2. IsPrefix(Made, Promised(update))
  BY <1>1, MadeSoFar DEF OrderInv
<1>3. Made' = Made
  BY <1>1 DEF Made
<1> QED
  BY <1>1, <1>2, <1>3 DEF ReadInOrder, SaidInOrder

LEMMA OrderStep == OrderInv /\ [Next]_vars => OrderInv'
<1> SUFFICES ASSUME OrderInv, [Next]_vars PROVE OrderInv'
  OBVIOUS
<1>1. TypeOK'
  BY TypeStep DEF OrderInv
<1>2. CASE Receive
  BY <1>1, <1>2, ReceiveOrder DEF OrderInv
<1>3. CASE Parse
  BY <1>1, <1>3, AttributeOrder, NlriOrder DEF Parse, OrderInv
<1>4. CASE AddAnnounced
  BY <1>1, <1>4, AnnouncedOrder DEF OrderInv
<1>5. CASE AddWithdrawn
  BY <1>1, <1>5, WithdrawnOrder DEF OrderInv
<1>6. CASE AddFails \/ Finish
  BY <1>1, <1>6, EndOrder DEF OrderInv
<1>7. CASE UNCHANGED vars
  <2>1. /\ pc' = pc /\ update' = update /\ rest' = rest /\ announced' = announced
        /\ withdrawn' = withdrawn /\ rows' = rows /\ received' = received
    BY <1>7 DEF vars, parts, lists, tables
  <2>2. Made' = Made /\ StillSaid' = StillSaid /\ Read' = Read
    BY <2>1 DEF Made, StillSaid, Read
  <2> QED
    BY <1>1, <2>1, <2>2 DEF OrderInv, ReadInOrder, SaidInOrder
<1> QED
  BY <1>2, <1>3, <1>4, <1>5, <1>6, <1>7 DEF Next

(* At every point of the handler the RouteUpdates made of a message are how     *)
(* what the message says begins, and all of it when the handler is done.     *)
THEOREM RowsInOrder == Spec => []RowsFollowMessage
<1>1. OrderInv => RowsFollowMessage
  <2> SUFFICES ASSUME OrderInv, received > 0 PROVE
        /\ IsPrefix(Made, Promised(update))
        /\ (pc = "add" /\ announced \o withdrawn = <<>>) => Made = Promised(update)
    BY DEF RowsFollowMessage
  <2>1. Promised(update) \in Seq(Sayings) /\ Made \in Seq(Sayings)
    BY PromisedType, MadeType DEF OrderInv, TypeOK
  <2>2. CASE pc = "attributes"
    <3>1. Made = <<>>
      BY <2>2 DEF OrderInv, ReadInOrder, Made
    <3> QED
      BY <2>1, <2>2, <3>1, FirstIsPrefix
  <2>3. CASE pc = "idle"
    BY <2>3 DEF OrderInv, SaidInOrder
  <2>4. CASE pc = "add"
    <3>1. ASSUME announced \o withdrawn = <<>> PROVE Made = Promised(update)
      <4>1. announced = <<>> /\ withdrawn = <<>>
        BY <3>1, ConcatProperties, EmptySeq, LenProperties DEF OrderInv, TypeOK
      <4>2. StillSaid = <<>>
        <5>1. Said(announced, FALSE) = <<>> /\ Said(withdrawn, TRUE) = <<>>
          BY <4>1, NothingSaidOfNone
        <5>2. <<>> \o <<>> = <<>>
          BY EmptySeq, ConcatEmptySeq
        <5> QED
          BY <5>1, <5>2 DEF StillSaid
      <4>3. Made \o <<>> = Made
        BY <2>1, ConcatEmptySeq
      <4> QED
        BY <2>4, <4>2, <4>3 DEF OrderInv, SaidInOrder
    <3> QED
      BY <2>4, <3>1, MadeSoFar DEF OrderInv
  <2> QED
    BY <2>2, <2>3, <2>4 DEF OrderInv, TypeOK
<1> QED
  BY <1>1, OrderStart, OrderStep, PTL DEF Spec
=============================================================================
