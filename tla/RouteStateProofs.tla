-------------------------- MODULE RouteStateProofs --------------------------
(***************************************************************************)
(* Theorems of RouteState: its types; that update_route_state run by       *)
(* sessions which never meet at a route implements the atomic function;    *)
(* and, from that, that the counts of a route alternate.                   *)
(***************************************************************************)
EXTENDS RouteState, FiniteSetTheorems, SequenceTheorems, TLAPS

(* Rows stay rows. *)
LEMMA InsertedType == ASSUME NEW p \in Calls PROVE Inserted(p) \in Row
BY DEF Calls, Row, Inserted, Status

LEMMA UpdatedType ==
  ASSUME NEW row \in Row, NEW p \in Calls, NEW was \in Status
  PROVE  Updated(row, p, was) \in Row
BY DEF Calls, Row, Updated, Status

LEMMA UpdatedRows ==
  ASSUME NEW l \in Seq(Row), NEW p \in Calls, NEW was \in Status
  PROVE  /\ [i \in DOMAIN l |-> Updated(l[i], p, was)] \in Seq(Row)
         /\ Len([i \in DOMAIN l |-> Updated(l[i], p, was)]) = Len(l)
<1>1. DOMAIN l = 1..Len(l) /\ Len(l) \in Nat
  OBVIOUS
<1>2. \A i \in 1..Len(l) : Updated(l[i], p, was) \in Row
  BY UpdatedType
<1> QED
  BY <1>1, <1>2

LEMMA StatusOfRows ==
  ASSUME NEW l \in Seq(Row), l # <<>>
  PROVE  l[1] \in Row /\ l[1].status \in Status
<1>1. Len(l) \in Nat /\ Len(l) # 0
  BY EmptySeq
<1>2. l[1] \in Row
  BY <1>1
<1> QED
  BY <1>2 DEF Row

LEMMA KeyOfCall == ASSUME NEW p \in Calls PROVE p.key \in Keys /\ p.status \in Status
BY DEF Calls, Status

LEMMA TypeInit == Init => TypeOK
<1> SUFFICES ASSUME Init PROVE TypeOK
  OBVIOUS
<1>1. rows \in [Keys -> Seq(Row)] /\ log \in [Keys -> Seq(Calls)]
  BY DEF Init
<1> QED
  BY <1>1 DEF Init, TypeOK

LEMMA TypeStep == TypeOK /\ [Next]_vars => TypeOK'
<1> SUFFICES ASSUME TypeOK, [Next]_vars PROVE TypeOK'
  OBVIOUS
<1>1. ASSUME NEW s \in Sessions, NEW p \in Calls, Call(s, p) PROVE TypeOK'
  <2>1. p.key \in Keys
    BY KeyOfCall
  <2> QED
    BY <1>1, <2>1 DEF Call, TypeOK
<1>2. ASSUME NEW s \in Sessions, Look(s) PROVE TypeOK'
  <2>1. rows[arg[s].key] = <<>> \/ rows[arg[s].key][1].status \in Status
    BY KeyOfCall, StatusOfRows DEF TypeOK
  <2>2. seen' \in [Sessions -> Status \cup {"absent"}]
    BY <1>2, <2>1 DEF Look, TypeOK
  <2> QED
    BY <1>2, <2>2 DEF Look, TypeOK
<1>3. ASSUME NEW s \in Sessions, Logged(arg[s]) PROVE log' \in [Keys -> Seq(Calls)]
  BY <1>3, KeyOfCall DEF Logged, TypeOK
<1>4. ASSUME NEW s \in Sessions, Update(s) PROVE TypeOK'
  <2>1. arg[s] \in Calls /\ arg[s].key \in Keys /\ seen[s] \in Status
    BY <1>4, KeyOfCall DEF Update, TypeOK
  <2>2. rows' \in [Keys -> Seq(Row)]
    BY <1>4, <2>1, UpdatedRows DEF Update, TypeOK
  <2> QED
    BY <1>3, <1>4, <2>2 DEF Update, Return, TypeOK
<1>5. ASSUME NEW s \in Sessions, Insert(s) PROVE TypeOK'
  <2>1. arg[s] \in Calls /\ arg[s].key \in Keys /\ Inserted(arg[s]) \in Row
    BY KeyOfCall, InsertedType DEF TypeOK
  <2>2. rows' \in [Keys -> Seq(Row)]
    BY <1>5, <2>1 DEF Insert, TypeOK
  <2> QED
    BY <1>3, <1>5, <2>2 DEF Insert, Return, TypeOK
<1>6. ASSUME NEW s \in Sessions, UniqueViolation(s) PROVE TypeOK'
  BY <1>6 DEF UniqueViolation, Return, TypeOK
<1>7. CASE UNCHANGED vars
  BY <1>7 DEF vars, session, TypeOK
<1> QED
  BY <1>1, <1>2, <1>4, <1>5, <1>6, <1>7 DEF Next, Step

(* The variables of the function's sessions keep their types. *)
THEOREM TypeCorrect == Spec => []TypeOK
BY TypeInit, TypeStep, PTL DEF Spec

-----------------------------------------------------------------------------
(* What a session may rely on when it is alone with its key: no other session *)
(* is busy with it, and what it has seen is still what the table says.      *)
Alone == \A s, u \in Sessions :
           stage[s] # "idle" /\ stage[u] # "idle" /\ arg[s].key = arg[u].key => s = u

SeenIsCurrent == \A s \in Sessions :
  stage[s] = "looked" =>
    LET k == arg[s].key IN
    /\ seen[s] = "absent" <=> (k \in Unknown \/ rows[k] = <<>>)
    /\ seen[s] # "absent" => rows[k][1].status = seen[s]

Exclusive == TypeOK /\ Alone /\ SeenIsCurrent

LEMMA ExclusiveInit == Init => Exclusive
BY TypeInit DEF Init, Exclusive, Alone, SeenIsCurrent

LEMMA NextExclusiveIsNext == NextExclusive => Next
BY DEF NextExclusive, Next, CallAlone

LEMMA ExclusiveStep == Exclusive /\ [NextExclusive]_vars => Exclusive'
<1> SUFFICES ASSUME Exclusive, [NextExclusive]_vars PROVE Exclusive'
  OBVIOUS
<1> USE DEF Exclusive
<1>0. TypeOK'
  BY TypeStep, NextExclusiveIsNext
<1>1. ASSUME NEW s \in Sessions, NEW p \in Calls, CallAlone(s, p) PROVE Alone' /\ SeenIsCurrent'
  <2>1. Alone'
    BY <1>1 DEF CallAlone, Call, Busy, Alone, TypeOK
  <2>2. SeenIsCurrent'
    BY <1>1 DEF CallAlone, Call, SeenIsCurrent, TypeOK
  <2> QED
    BY <2>1, <2>2
<1>2. ASSUME NEW s \in Sessions, Look(s) PROVE Alone' /\ SeenIsCurrent'
  <2>1. Alone'
    BY <1>2 DEF Look, Alone, TypeOK
  <2>2. ASSUME NEW u \in Sessions, stage'[u] = "looked"
        PROVE  LET k == arg'[u].key IN
               /\ seen'[u] = "absent" <=> (k \in Unknown \/ rows'[k] = <<>>)
               /\ seen'[u] # "absent" => rows'[k][1].status = seen'[u]
    <3>1. CASE u = s
      <4>1. rows[arg[s].key] = <<>> \/ rows[arg[s].key][1].status # "absent"
        BY KeyOfCall, StatusOfRows DEF TypeOK, Status
      <4> QED
        BY <1>2, <3>1, <4>1 DEF Look, TypeOK
    <3>2. CASE u # s
      BY <1>2, <2>2, <3>2 DEF Look, SeenIsCurrent, TypeOK
    <3> QED
      BY <3>1, <3>2
  <2> QED
    BY <2>1, <2>2 DEF SeenIsCurrent
(* A session that commits leaves the rows of the others' keys alone. *)
<1>3. ASSUME NEW s \in Sessions, stage[s] = "looked", Return(s),
             \A k \in Keys \ {arg[s].key} : rows'[k] = rows[k]
      PROVE  Alone' /\ SeenIsCurrent'
  <2>1. Alone'
    BY <1>3 DEF Return, Alone, TypeOK
  <2>2. ASSUME NEW u \in Sessions, stage'[u] = "looked"
        PROVE  u # s /\ stage[u] = "looked" /\ arg[u].key \in Keys \ {arg[s].key}
    BY <1>3, <2>2, KeyOfCall DEF Return, Alone, TypeOK
  <2>3. SeenIsCurrent'
    BY <1>3, <2>2 DEF Return, SeenIsCurrent
  <2> QED
    BY <2>1, <2>3
<1>4. ASSUME NEW s \in Sessions, Update(s) PROVE Alone' /\ SeenIsCurrent'
  BY <1>3, <1>4 DEF Update, TypeOK
<1>5. ASSUME NEW s \in Sessions, Insert(s) PROVE Alone' /\ SeenIsCurrent'
  BY <1>3, <1>5 DEF Insert, TypeOK
<1>6. ASSUME NEW s \in Sessions, UniqueViolation(s) PROVE Alone' /\ SeenIsCurrent'
  BY <1>3, <1>6 DEF UniqueViolation
<1>7. CASE UNCHANGED vars
  <2>1. UNCHANGED <<rows, stage, arg, seen>>
    BY <1>7 DEF vars, session
  <2>2. Alone'
    BY <2>1 DEF Alone
  <2>3. SeenIsCurrent'
    BY <2>1 DEF SeenIsCurrent
  <2> QED
    BY <1>0, <2>2, <2>3
<1> QED
  BY <1>0, <1>1, <1>2, <1>4, <1>5, <1>6, <1>7 DEF NextExclusive, Step

(* The instance's operators on rows are the same ones. *)
LEMMA SameRows ==
  /\ Atomic!Calls = Calls
  /\ \A p : Atomic!Inserted(p) = Inserted(p)
  /\ \A row, p, was : Atomic!Updated(row, p, was) = Updated(row, p, was)
BY DEF Atomic!Calls, Calls, Atomic!Inserted, Inserted, Atomic!Updated, Updated

(* Each step of the function is a step of the atomic function or leaves the   *)
(* table alone.                                                             *)
LEMMA StepRefines == Exclusive /\ [NextExclusive]_vars => [Atomic!Next]_rows
<1> SUFFICES ASSUME Exclusive, [NextExclusive]_vars PROVE Atomic!Next \/ rows' = rows
  OBVIOUS
<1> USE DEF Exclusive
<1>1. ASSUME NEW s \in Sessions, Update(s) PROVE Atomic!Next
  <2>1. arg[s] \in Calls /\ arg[s].key \notin Unknown /\ rows[arg[s].key] # <<>>
        /\ rows[arg[s].key][1].status = seen[s]
    BY <1>1 DEF Update, SeenIsCurrent, TypeOK
  <2>2. Atomic!Apply(arg[s])
    BY <1>1, <2>1, SameRows DEF Update, Atomic!Apply
  <2> QED
    BY <2>1, <2>2, SameRows DEF Atomic!Next
<1>2. ASSUME NEW s \in Sessions, Insert(s) PROVE Atomic!Next
  <2>1. arg[s] \in Calls /\ (arg[s].key \in Unknown \/ rows[arg[s].key] = <<>>)
    BY <1>2 DEF Insert, SeenIsCurrent, TypeOK
  <2>2. Atomic!Apply(arg[s])
    BY <1>2, <2>1, SameRows DEF Insert, Atomic!Apply
  <2> QED
    BY <2>1, <2>2, SameRows DEF Atomic!Next
<1>3. ASSUME NEW s \in Sessions, Look(s) \/ UniqueViolation(s) PROVE rows' = rows
  BY <1>3 DEF Look, UniqueViolation
<1>4. ASSUME NEW s \in Sessions, NEW p \in Calls, CallAlone(s, p) PROVE rows' = rows
  BY <1>4 DEF CallAlone, Call
<1>5. CASE UNCHANGED vars
  BY <1>5 DEF vars
<1> QED
  BY <1>1, <1>2, <1>3, <1>4, <1>5 DEF NextExclusive, Step

(* Flushes that never meet at a route see an atomic update_route_state.       *)
THEOREM Refinement == ExclusiveSpec => ImplementsAtomic
<1>1. Init => Atomic!Init
  BY DEF Init, Atomic!Init
<1> QED
  BY <1>1, ExclusiveInit, ExclusiveStep, StepRefines, PTL
  DEF ExclusiveSpec, ImplementsAtomic, Atomic!Spec

-----------------------------------------------------------------------------
(* The atomic function keeps one row per indexed route, whose counts         *)
(* alternate.                                                               *)
AlternateInv ==
  \A k \in Indexed : Len(rows[k]) <= 1 /\ \A i \in DOMAIN rows[k] : Atomic!Alternates(rows[k][i])

LEMMA InsertedAlternates == ASSUME NEW p \in Calls PROVE Atomic!Alternates(Inserted(p))
BY DEF Calls, Inserted, Atomic!Alternates

LEMMA UpdatedAlternates ==
  ASSUME NEW row \in Row, NEW p \in Calls, Atomic!Alternates(row)
  PROVE  Atomic!Alternates(Updated(row, p, row.status))
<1>1. row.learn \in Nat /\ row.withdraw \in Nat /\ row.status \in {"announced", "withdrawn"}
  BY DEF Row, Status
<1>2. p.status \in {"announced", "withdrawn"}
  BY KeyOfCall DEF Status
<1> QED
  BY <1>1, <1>2 DEF Updated, Atomic!Alternates

LEMMA AlternateStep == TypeOK /\ AlternateInv /\ [Atomic!Next]_rows => AlternateInv'
<1> SUFFICES ASSUME TypeOK, AlternateInv, Atomic!Next PROVE AlternateInv'
  BY DEF AlternateInv
<1>1. PICK p \in Calls : Atomic!Apply(p)
  BY SameRows DEF Atomic!Next
<1>2. p.key \in Keys
  BY KeyOfCall
<1> SUFFICES ASSUME NEW k \in Indexed
             PROVE  /\ Len(rows'[k]) <= 1
                    /\ \A i \in DOMAIN rows'[k] : Atomic!Alternates(rows'[k][i])
  BY DEF AlternateInv
<1>3. rows[k] \in Seq(Row) /\ k \in Keys /\ k \notin Unknown
  BY DEF TypeOK, Indexed
<1>4. CASE p.key # k
  BY <1>1, <1>2, <1>3, <1>4 DEF Atomic!Apply, AlternateInv, TypeOK
<1>5. CASE p.key = k /\ rows[k] = <<>>
  <2>1. rows'[k] = Append(rows[k], Inserted(p))
    BY <1>1, <1>2, <1>3, <1>5, SameRows DEF Atomic!Apply, TypeOK
  <2>2. Len(rows'[k]) = 1 /\ DOMAIN rows'[k] = {1} /\ rows'[k][1] = Inserted(p)
    BY <2>1, <1>5
  <2> QED
    BY <2>2, InsertedAlternates
<1>6. CASE p.key = k /\ rows[k] # <<>>
  <2>1. rows'[k] = [i \in DOMAIN rows[k] |-> Updated(rows[k][i], p, rows[k][1].status)]
    BY <1>1, <1>2, <1>3, <1>6, SameRows DEF Atomic!Apply, TypeOK
  <2>2. rows[k][1].status \in Status /\ Len(rows[k]) \in Nat
    BY <1>3, <1>6, StatusOfRows
  <2>3. Len(rows'[k]) = Len(rows[k]) /\ DOMAIN rows'[k] = DOMAIN rows[k]
    BY <1>3, <2>1, <2>2, UpdatedRows
  <2>4. DOMAIN rows[k] \subseteq {1} /\ Len(rows[k]) <= 1
    BY <1>3 DEF AlternateInv
  <2>5. ASSUME NEW i \in DOMAIN rows[k] PROVE Atomic!Alternates(rows'[k][i])
    <3>1. i = 1 /\ rows[k][i] \in Row /\ Atomic!Alternates(rows[k][i])
      BY <1>3, <2>4 DEF AlternateInv
    <3>2. rows'[k][i] = Updated(rows[k][i], p, rows[k][i].status)
      BY <2>1, <3>1
    <3> QED
      BY <3>1, <3>2, UpdatedAlternates
  <2> QED
    BY <2>3, <2>4, <2>5
<1> QED
  BY <1>4, <1>5, <1>6

(* learn_count and withdraw_count of a route count the changes of its status, *)
(* so they never drift apart, when flushes never meet at a route.           *)
THEOREM Alternating == ExclusiveSpec => []CountsAlternate
<1>1. Init => AlternateInv
  BY DEF Init, AlternateInv, Indexed
<1>2. Exclusive /\ AlternateInv /\ [NextExclusive]_vars => AlternateInv'
  BY StepRefines, AlternateStep DEF Exclusive
<1>3. AlternateInv => CountsAlternate
  BY DEF AlternateInv, CountsAlternate, Atomic!CountsAlternate, Indexed, Atomic!Indexed
<1> QED
  BY <1>1, <1>2, <1>3, ExclusiveInit, ExclusiveStep, PTL DEF ExclusiveSpec
-----------------------------------------------------------------------------
(* What the list of a key's calls amounts to, when a call is added to it.      *)
(* The last of a set of positions is chosen; the invariant carries that      *)
(* there is one.                                                            *)
ChangesIn(l) == {i \in DOMAIN l : ChangesAt(l, i)}

HasLatest(S) == \E m \in S : \A j \in S : j <= m

Latched(l) ==
  /\ HasLatest(ChangesIn(l))
  /\ Announcements(l) # {} => HasLatest(Announcements(l))

(* The last position is the one chosen. *)
LEMMA LatestIs ==
  ASSUME NEW S, S \subseteq Nat, NEW m \in S, \A j \in S : j <= m
  PROVE  Latest(S) = m
<1>1. \A i \in S : (\A j \in S : j <= i) => i = m
  OBVIOUS
<1> QED
  BY <1>1 DEF Latest

LEMMA LatestIn ==
  ASSUME NEW S, S \subseteq Nat, HasLatest(S)
  PROVE  Latest(S) \in S
BY LatestIs DEF HasLatest

(* The list with one more call. *)
LEMMA Appended ==
  ASSUME NEW l \in Seq(Calls), NEW p \in Calls
  PROVE  /\ Len(l) \in Nat /\ DOMAIN l = 1..Len(l)
         /\ Append(l, p) \in Seq(Calls)
         /\ DOMAIN Append(l, p) = 1..(Len(l) + 1) /\ Len(Append(l, p)) = Len(l) + 1
         /\ \A i \in DOMAIN l : Append(l, p)[i] = l[i]
         /\ Append(l, p)[Len(l) + 1] = p
OBVIOUS

(* The changes of a list are those of its beginning, and the last call if it   *)
(* is one.                                                                  *)
LEMMA ChangeAppended ==
  ASSUME NEW l \in Seq(Calls), NEW p \in Calls, l # <<>>
  PROVE  /\ \A i \in DOMAIN l : ChangesAt(Append(l, p), i) <=> ChangesAt(l, i)
         /\ ChangesAt(Append(l, p), Len(l) + 1) <=> l[Len(l)].status # p.status
<1>1. Len(l) \in Nat /\ Len(l) # 0
  BY EmptySeq
<1>2. ASSUME NEW i \in DOMAIN l PROVE ChangesAt(Append(l, p), i) <=> ChangesAt(l, i)
  <2>1. i = 1 \/ i - 1 \in DOMAIN l
    BY Appended
  <2> QED
    BY <2>1, Appended DEF ChangesAt
<1>3. Len(l) + 1 # 1 /\ (Len(l) + 1) - 1 = Len(l) /\ Len(l) \in DOMAIN l
  BY <1>1, Appended
<1> QED
  BY <1>2, <1>3, Appended DEF ChangesAt

(* Of positions of the list and the new one, the new one is the last. *)
LEMMA LatestAppended ==
  ASSUME NEW n \in Nat, NEW S, S \subseteq 1..n
  PROVE  Latest(S \cup {n + 1}) = n + 1 /\ HasLatest(S \cup {n + 1})
<1> DEFINE T == S \cup {n + 1}
<1>1. n + 1 \in T /\ n + 1 \in Nat
  OBVIOUS
<1>2. ASSUME NEW j \in T PROVE j \in Nat /\ j <= n + 1
  BY <1>2
<1>3. T \subseteq Nat
  BY <1>2
<1> HIDE DEF T
<1>4. Latest(T) = n + 1
  BY <1>1, <1>2, <1>3, LatestIs
<1>5. HasLatest(T)
  BY <1>1, <1>2 DEF HasLatest
<1> QED
  BY <1>4, <1>5 DEF T

(* A count of changes grows by the last call. *)
LEMMA CountAppended ==
  ASSUME NEW l \in Seq(Calls), NEW p \in Calls, l # <<>>, NEW st
  PROVE  /\ Cardinality(Changes(l, st)) \in Nat
         /\ Cardinality(Changes(Append(l, p), st)) =
              Cardinality(Changes(l, st))
                + (IF l[Len(l)].status # p.status /\ p.status = st THEN 1 ELSE 0)
<1> DEFINE n == Len(l) + 1
           a == Append(l, p)
<1>1. Len(l) \in Nat /\ n \in Nat /\ n \notin DOMAIN l /\ DOMAIN a = DOMAIN l \cup {n}
  BY Appended
<1>2. IsFiniteSet(DOMAIN l)
  BY Appended, FS_Interval
<1>3. Changes(l, st) \subseteq DOMAIN l
  BY DEF Changes
<1>4. IsFiniteSet(Changes(l, st)) /\ Cardinality(Changes(l, st)) \in Nat
  BY <1>2, <1>3, FS_Subset, FS_CardinalityType
<1>5. \A i \in DOMAIN l : a[i] = l[i] /\ (ChangesAt(a, i) <=> ChangesAt(l, i))
  BY Appended, ChangeAppended
<1>6. a[n] = p /\ (ChangesAt(a, n) <=> l[Len(l)].status # p.status)
  BY Appended, ChangeAppended
<1>7. CASE l[Len(l)].status # p.status /\ p.status = st
  <2>1. Changes(a, st) = Changes(l, st) \cup {n}
    BY <1>1, <1>5, <1>6, <1>7 DEF Changes
  <2>2. n \notin Changes(l, st)
    BY <1>1, <1>3
  <2> QED
    BY <1>4, <1>7, <2>1, <2>2, FS_AddElement
<1>8. CASE ~(l[Len(l)].status # p.status /\ p.status = st)
  <2>1. Changes(a, st) = Changes(l, st)
    BY <1>1, <1>5, <1>6, <1>8 DEF Changes
  <2> QED
    BY <1>4, <1>8, <2>1
<1> QED
  BY <1>7, <1>8

(* The first call. *)
LEMMA SummaryFirst ==
  ASSUME NEW p \in Calls
  PROVE  Summary(Append(<<>>, p)) = Inserted(p) /\ Latched(Append(<<>>, p))
<1> DEFINE a == Append(<<>>, p)
<1>1. DOMAIN a = {1} /\ a[1] = p /\ Len(a) = 1
  OBVIOUS
<1>2. \A i \in DOMAIN a : ChangesAt(a, i)
  BY <1>1 DEF ChangesAt
<1>3. ChangesIn(a) = {1} /\ Latest({1}) = 1 /\ HasLatest({1})
  <2>1. ChangesIn(a) = {1}
    BY <1>1, <1>2 DEF ChangesIn
  <2>2. Latest({1}) = 1
    BY LatestIs
  <2>3. HasLatest({1})
    BY DEF HasLatest
  <2> QED
    BY <2>1, <2>2, <2>3
<1>4. ASSUME NEW st PROVE Cardinality(Changes(a, st)) = IF p.status = st THEN 1 ELSE 0
  <2>1. Changes(a, st) = IF p.status = st THEN {1} ELSE {}
    BY <1>1, <1>2 DEF Changes
  <2> QED
    BY <2>1, FS_EmptySet, FS_Singleton
<1>5. Announcements(a) = IF p.status = "announced" THEN {1} ELSE {}
  BY <1>1 DEF Announcements
<1>6. p.status # "announced" => p.attr = NoAttr
  BY DEF Calls
<1>7. Summary(a).attr = p.attr
  BY <1>1, <1>3, <1>5, <1>6 DEF Summary
<1>8. Summary(a).changed = p.time
  BY <1>1, <1>3 DEF Summary, ChangesIn
<1>9. Summary(a).learn = (IF p.status = "announced" THEN 1 ELSE 0)
      /\ Summary(a).withdraw = (IF p.status = "withdrawn" THEN 1 ELSE 0)
  BY <1>4 DEF Summary
<1>10. Summary(a).first = p.time /\ Summary(a).last = p.time /\ Summary(a).status = p.status
  BY <1>1 DEF Summary
<1>11. Summary(a) = Inserted(p)
  BY <1>7, <1>8, <1>9, <1>10 DEF Summary, Inserted
<1> QED
  BY <1>3, <1>5, <1>11 DEF Latched

(* Every further call: the row as UPDATE makes it of the row before.          *)
LEMMA SummaryNext ==
  ASSUME NEW l \in Seq(Calls), NEW p \in Calls, l # <<>>, Latched(l)
  PROVE  /\ Summary(Append(l, p)) = Updated(Summary(l), p, l[Len(l)].status)
         /\ Latched(Append(l, p))
<1> DEFINE n == Len(l) + 1
           a == Append(l, p)
           changed == l[Len(l)].status # p.status
<1>1. Len(l) \in Nat /\ Len(l) # 0 /\ 1 \in DOMAIN l
  BY EmptySeq, Appended
<1>2. /\ DOMAIN l = 1..Len(l) /\ DOMAIN a = DOMAIN l \cup {n} /\ n \notin DOMAIN l /\ Len(a) = n
      /\ \A i \in DOMAIN l : a[i] = l[i]
      /\ a[n] = p
  BY <1>1, Appended
<1>3. /\ \A i \in DOMAIN l : ChangesAt(a, i) <=> ChangesAt(l, i)
      /\ ChangesAt(a, n) <=> changed
  BY ChangeAppended
<1>4. ChangesIn(l) \subseteq 1..Len(l) /\ Announcements(l) \subseteq 1..Len(l)
  BY <1>2 DEF ChangesIn, Announcements
<1>5. ChangesIn(a) = ChangesIn(l) \cup (IF changed THEN {n} ELSE {})
  BY <1>2, <1>3 DEF ChangesIn
<1>6. Announcements(a) = Announcements(l) \cup (IF p.status = "announced" THEN {n} ELSE {})
  BY <1>2 DEF Announcements
<1>7. HasLatest(ChangesIn(a)) /\ a[Latest(ChangesIn(a))].time =
        (IF changed THEN p.time ELSE l[Latest(ChangesIn(l))].time)
  <2>1. CASE changed
    <3>1. ChangesIn(a) = ChangesIn(l) \cup {Len(l) + 1}
      BY <1>5, <2>1
    <3>2. Latest(ChangesIn(a)) = Len(l) + 1 /\ HasLatest(ChangesIn(a))
      BY <1>1, <1>4, <3>1, LatestAppended
    <3> QED
      BY <1>2, <2>1, <3>2
  <2>2. CASE ~changed
    <3>1. ChangesIn(a) = ChangesIn(l) /\ HasLatest(ChangesIn(l))
      BY <1>5, <2>2 DEF Latched
    <3>2. Latest(ChangesIn(l)) \in DOMAIN l
      BY <1>2, <1>4, <3>1, LatestIn
    <3> QED
      BY <1>2, <2>2, <3>1, <3>2
  <2> QED
    BY <2>1, <2>2
<1>8. /\ Announcements(a) # {} => HasLatest(Announcements(a))
      /\ (IF Announcements(a) = {} THEN NoAttr ELSE a[Latest(Announcements(a))].attr) =
           IF p.status = "announced" THEN p.attr
           ELSE IF Announcements(l) = {} THEN NoAttr ELSE l[Latest(Announcements(l))].attr
  <2>1. CASE p.status = "announced"
    <3>1. Announcements(a) = Announcements(l) \cup {Len(l) + 1}
      BY <1>6, <2>1
    <3>2. Latest(Announcements(a)) = Len(l) + 1 /\ HasLatest(Announcements(a))
      BY <1>1, <1>4, <3>1, LatestAppended
    <3>3. Announcements(a) # {}
      BY <3>1
    <3> QED
      BY <1>2, <2>1, <3>2, <3>3
  <2>2. CASE p.status # "announced"
    <3>1. Announcements(a) = Announcements(l)
      BY <1>6, <2>2
    <3>2. Announcements(l) # {} =>
            HasLatest(Announcements(l)) /\ Latest(Announcements(l)) \in DOMAIN l
      BY <1>2, <1>4, LatestIn DEF Latched
    <3> QED
      BY <1>2, <2>2, <3>1, <3>2
  <2> QED
    BY <2>1, <2>2
<1>9. ASSUME NEW st
      PROVE  Cardinality(Changes(a, st)) =
               Cardinality(Changes(l, st)) + (IF changed /\ p.status = st THEN 1 ELSE 0)
  BY CountAppended
<1>10. a[1] = l[1] /\ a[Len(a)] = p
  BY <1>1, <1>2
<1> HIDE DEF n, a
<1>11. Summary(a).first = Summary(l).first /\ Summary(a).last = p.time /\ Summary(a).status = p.status
  BY <1>10 DEF Summary
<1>12. Summary(a).changed = IF changed THEN p.time ELSE Summary(l).changed
  BY <1>7 DEF Summary, ChangesIn
<1>13. Summary(a).learn = Summary(l).learn + (IF changed /\ p.status = "announced" THEN 1 ELSE 0)
  BY <1>9 DEF Summary
<1>14. Summary(a).withdraw = Summary(l).withdraw + (IF changed /\ p.status = "withdrawn" THEN 1 ELSE 0)
  BY <1>9 DEF Summary
<1>15. Summary(a).attr = IF p.status = "announced" THEN p.attr ELSE Summary(l).attr
  BY <1>8 DEF Summary
<1>16. Summary(a) = Updated(Summary(l), p, l[Len(l)].status)
  BY <1>11, <1>12, <1>13, <1>14, <1>15 DEF Summary, Updated
<1>17. Latched(a)
  BY <1>7, <1>8 DEF Latched
<1> QED
  BY <1>16, <1>17 DEF a
-----------------------------------------------------------------------------
(* The row of a route and its calls, for sessions that may meet: what a        *)
(* session has seen is right unless its route is among the raced ones.       *)
Latching == \A k \in Indexed : log[k] # <<>> => Latched(log[k])

Found == \A s \in Sessions :
  stage[s] = "looked" /\ seen[s] # "absent" =>
    arg[s].key \in Indexed /\ rows[arg[s].key] # <<>>

MeetingsRecorded == \A s, u \in Sessions :
  stage[s] # "idle" /\ stage[u] # "idle" /\ arg[s].key = arg[u].key =>
    s = u \/ arg[s].key \in raced

SeenUnlessRaced == \A s \in Sessions :
  stage[s] = "looked" /\ arg[s].key \in Indexed \ raced =>
    /\ seen[s] = "absent" <=> rows[arg[s].key] = <<>>
    /\ seen[s] # "absent" => rows[arg[s].key][1].status = seen[s]

SummaryInv ==
  /\ TypeOK
  /\ Latching /\ Found /\ MeetingsRecorded /\ SeenUnlessRaced
  /\ RaceSpoilsCountsOnly /\ RowIsSummary

(* Before the first call there is nothing. *)
LEMMA SummaryStart == Init => SummaryInv
<1> SUFFICES ASSUME Init PROVE SummaryInv
  OBVIOUS
<1>1. TypeOK
  BY TypeInit
<1>2. \A k \in Indexed : rows[k] = <<>> /\ log[k] = <<>>
  BY DEF Init, Indexed
<1>3. \A s \in Sessions : stage[s] = "idle"
  BY DEF Init
<1>4. RaceSpoilsCountsOnly /\ RowIsSummary /\ Latching
  BY <1>2 DEF RaceSpoilsCountsOnly, RowIsSummary, Latching
<1> QED
  BY <1>1, <1>3, <1>4 DEF SummaryInv, Found, MeetingsRecorded, SeenUnlessRaced

(* A step of a session leaves the others what they know, if it writes to its   *)
(* own route only, never empties it, and nobody is at it but in a race.      *)
LEMMA SessionReturns ==
  ASSUME SummaryInv, NEW s \in Sessions, stage[s] = "looked", Return(s),
         \A k \in Keys \ {arg[s].key} : rows'[k] = rows[k],
         rows[arg[s].key] # <<>> => rows'[arg[s].key] # <<>>
  PROVE  Found' /\ MeetingsRecorded' /\ SeenUnlessRaced'
<1> USE DEF SummaryInv
<1>1. MeetingsRecorded'
  BY DEF Return, MeetingsRecorded, TypeOK
<1>2. ASSUME NEW u \in Sessions, stage'[u] = "looked"
      PROVE  /\ u # s /\ stage[u] = "looked" /\ arg'[u] = arg[u] /\ seen'[u] = seen[u]
             /\ arg[u].key \in Keys /\ arg[s].key \in Keys /\ raced' = raced
             /\ arg[u].key = arg[s].key => arg[u].key \in raced
  BY <1>2, KeyOfCall DEF Return, MeetingsRecorded, TypeOK
<1>3. Found'
  BY <1>2 DEF Found
<1>4. SeenUnlessRaced'
  BY <1>2 DEF SeenUnlessRaced
<1> QED
  BY <1>1, <1>3, <1>4

(* A row more makes no empty table. *)
LEMMA NotEmptied == ASSUME NEW l \in Seq(Row), NEW row \in Row PROVE Append(l, row) # <<>>
<1>1. Len(Append(l, row)) = Len(l) + 1 /\ Len(l) \in Nat
  OBVIOUS
<1>2. Len(Append(l, row)) # 0
  BY <1>1
<1>3. Len(<<>>) = 0
  OBVIOUS
<1> QED
  BY <1>2, <1>3, Zenon

(* What the sessions know. *)
LEMMA SessionsStep == SummaryInv /\ [Next]_vars => Found' /\ MeetingsRecorded' /\ SeenUnlessRaced'
<1> SUFFICES ASSUME SummaryInv, [Next]_vars PROVE Found' /\ MeetingsRecorded' /\ SeenUnlessRaced'
  OBVIOUS
<1> USE DEF SummaryInv
<1>1. ASSUME NEW s \in Sessions, NEW p \in Calls, Call(s, p)
      PROVE  Found' /\ MeetingsRecorded' /\ SeenUnlessRaced'
  <2>1. ASSUME NEW u \in Sessions, stage'[u] = "looked"
        PROVE  stage[u] = "looked" /\ arg'[u] = arg[u] /\ seen' = seen /\ rows' = rows
    BY <1>1, <2>1 DEF Call, TypeOK
  <2>2. raced \subseteq raced'
    BY <1>1 DEF Call
  <2>3. MeetingsRecorded'
    BY <1>1, <2>2 DEF Call, Busy, MeetingsRecorded, TypeOK
  <2>4. Found'
    BY <2>1 DEF Found
  <2>5. SeenUnlessRaced'
    BY <2>1, <2>2 DEF SeenUnlessRaced
  <2> QED
    BY <2>3, <2>4, <2>5
<1>2. ASSUME NEW s \in Sessions, Look(s) PROVE Found' /\ MeetingsRecorded' /\ SeenUnlessRaced'
  <2>1. MeetingsRecorded'
    BY <1>2 DEF Look, MeetingsRecorded, TypeOK
  <2>2. ASSUME NEW u \in Sessions, stage'[u] = "looked", u # s
        PROVE  stage[u] = "looked" /\ seen'[u] = seen[u]
    BY <1>2, <2>2 DEF Look, TypeOK
  <2>3. arg' = arg /\ rows' = rows /\ raced' = raced
    BY <1>2 DEF Look
  <2>4. arg[s].key \in Keys /\ (rows[arg[s].key] = <<>> \/ rows[arg[s].key][1].status # "absent")
    BY KeyOfCall, StatusOfRows DEF TypeOK, Status
  <2>5. seen'[s] = IF arg[s].key \in Unknown \/ rows[arg[s].key] = <<>>
                   THEN "absent" ELSE rows[arg[s].key][1].status
    BY <1>2 DEF Look, TypeOK
  <2>6. Found'
    BY <2>2, <2>3, <2>4, <2>5 DEF Found, Indexed
  <2>7. SeenUnlessRaced'
    BY <2>2, <2>3, <2>4, <2>5 DEF SeenUnlessRaced, Indexed
  <2> QED
    BY <2>1, <2>6, <2>7
<1>3. ASSUME NEW s \in Sessions, Update(s) PROVE Found' /\ MeetingsRecorded' /\ SeenUnlessRaced'
  <2>1. arg[s] \in Calls /\ arg[s].key \in Keys /\ rows[arg[s].key] \in Seq(Row) /\ seen[s] \in Status
    BY <1>3, KeyOfCall DEF Update, TypeOK
  <2>2. rows'[arg[s].key] =
          [i \in DOMAIN rows[arg[s].key] |-> Updated(rows[arg[s].key][i], arg[s], seen[s])]
    BY <1>3, <2>1 DEF Update, TypeOK
  <2>3. rows[arg[s].key] # <<>> => rows'[arg[s].key] # <<>>
    BY <2>1, <2>2, UpdatedRows, EmptySeq
  <2>4. \A k \in Keys \ {arg[s].key} : rows'[k] = rows[k]
    BY <1>3, <2>1 DEF Update, TypeOK
  <2>5. stage[s] = "looked" /\ Return(s)
    BY <1>3 DEF Update
  <2> QED
    BY <2>3, <2>4, <2>5, SessionReturns
<1>4. ASSUME NEW s \in Sessions, Insert(s) PROVE Found' /\ MeetingsRecorded' /\ SeenUnlessRaced'
  <2>1. arg[s].key \in Keys /\ rows[arg[s].key] \in Seq(Row) /\ Inserted(arg[s]) \in Row
    BY KeyOfCall, InsertedType DEF TypeOK
  <2>2. rows'[arg[s].key] = Append(rows[arg[s].key], Inserted(arg[s]))
    BY <1>4, <2>1 DEF Insert, TypeOK
  <2>3. rows'[arg[s].key] # <<>>
    BY <2>1, <2>2, NotEmptied
  <2>4. \A k \in Keys \ {arg[s].key} : rows'[k] = rows[k]
    BY <1>4, <2>1 DEF Insert, TypeOK
  <2>5. stage[s] = "looked" /\ Return(s)
    BY <1>4 DEF Insert
  <2> QED
    BY <2>3, <2>4, <2>5, SessionReturns
<1>5. ASSUME NEW s \in Sessions, UniqueViolation(s) PROVE Found' /\ MeetingsRecorded' /\ SeenUnlessRaced'
  BY <1>5, SessionReturns DEF UniqueViolation
<1>6. CASE UNCHANGED vars
  <2>1. UNCHANGED <<rows, stage, arg, seen, raced>>
    BY <1>6 DEF vars, session
  <2> QED
    BY <2>1 DEF Found, MeetingsRecorded, SeenUnlessRaced
<1> QED
  BY <1>1, <1>2, <1>3, <1>4, <1>5, <1>6 DEF Next, Step

(* What a row shows but for its counts and the time of its change. *)
Shows(row, sum) ==
  /\ row.first = sum.first /\ row.last = sum.last
  /\ row.status = sum.status /\ row.attr = sum.attr

(* An update keeps a row in step with its calls, whatever status it counts by. *)
LEMMA ShowsUpdated ==
  ASSUME NEW row, NEW sum, NEW p, NEW was, NEW is, Shows(row, sum)
  PROVE  Shows(Updated(row, p, was), Updated(sum, p, is))
BY DEF Shows, Updated

(* One key whose row and list of calls a session extends. *)
KeyInv(k, table, list, races) ==
  /\ list[k] # <<>> => Latched(list[k])
  /\ Len(table[k]) <= 1
  /\ Len(table[k]) = 0 <=> list[k] = <<>>
  /\ \A i \in DOMAIN table[k] : Shows(table[k][i], Summary(list[k]))
  /\ k \notin races => table[k] = IF list[k] = <<>> THEN <<>> ELSE <<Summary(list[k])>>

LEMMA KeyInvs ==
  Latching /\ RaceSpoilsCountsOnly /\ RowIsSummary <=> \A k \in Indexed : KeyInv(k, rows, log, raced)
BY DEF Latching, RaceSpoilsCountsOnly, RowIsSummary, KeyInv, Shows

LEMMA KeyInvsNext ==
  (\A k \in Indexed : KeyInv(k, rows', log', raced')) =>
    Latching' /\ RaceSpoilsCountsOnly' /\ RowIsSummary'
BY DEF Latching, RaceSpoilsCountsOnly, RowIsSummary, KeyInv, Shows

(* A key with one row. *)
LEMMA KeyInvOne ==
  ASSUME NEW k, NEW table, NEW list, NEW races,
         list[k] # <<>>, Latched(list[k]),
         DOMAIN table[k] = {1}, Len(table[k]) = 1, Shows(table[k][1], Summary(list[k])),
         k \notin races => table[k] = <<Summary(list[k])>>
  PROVE  KeyInv(k, table, list, races)
BY DEF KeyInv

(* The row of the first call. *)
LEMMA InsertKeeps ==
  ASSUME SummaryInv, NEW s \in Sessions, Insert(s), arg[s].key \in Indexed
  PROVE  KeyInv(arg[s].key, rows', log', raced')
<1> DEFINE k == arg[s].key
           p == arg[s]
<1>1. p \in Calls /\ k \in Keys /\ Inserted(p) \in Row
  BY KeyOfCall, InsertedType DEF SummaryInv, TypeOK
<1>2. rows[k] = <<>> /\ log[k] = <<>>
  <2>1. rows[k] = <<>>
    BY DEF Insert, Accepted, Refused
  <2> QED
    BY <2>1 DEF SummaryInv, RaceSpoilsCountsOnly
<1>3. rows'[k] = Append(<<>>, Inserted(p)) /\ log'[k] = Append(<<>>, p) /\ raced' = raced
  BY <1>1, <1>2 DEF Insert, Logged, Return, SummaryInv, TypeOK
<1>4. Summary(log'[k]) = Inserted(p) /\ Latched(log'[k])
  BY <1>1, <1>3, SummaryFirst
<1> HIDE DEF k, p
<1>5. rows'[k] = <<Summary(log'[k])>> /\ log'[k] # <<>>
  BY <1>3, <1>4
<1>6. Len(rows'[k]) = 1 /\ DOMAIN rows'[k] = {1} /\ rows'[k][1] = Summary(log'[k])
  BY <1>5
<1> QED
  BY <1>4, <1>5, <1>6 DEF KeyInv, Shows, k

(* A table with one row. *)
LEMMA SingletonRow == ASSUME NEW l \in Seq(Row), Len(l) = 1 PROVE l = <<l[1]>>
OBVIOUS

(* The row of a further call. *)
LEMMA UpdateKeeps ==
  ASSUME SummaryInv, NEW s \in Sessions, Update(s), arg[s].key \in Indexed
  PROVE  KeyInv(arg[s].key, rows', log', raced')
<1> DEFINE k == arg[s].key
           p == arg[s]
           l == log[k]
<1>1. /\ p \in Calls /\ k \in Keys /\ seen[s] \in Status /\ seen[s] # "absent" /\ stage[s] = "looked"
      /\ rows[k] \in Seq(Row) /\ l \in Seq(Calls)
  BY KeyOfCall DEF Update, SummaryInv, TypeOK
<1>2. rows[k] # <<>>
  BY <1>1 DEF SummaryInv, Found
<1>3. Len(rows[k]) = 1 /\ l # <<>> /\ Latched(l) /\ Shows(rows[k][1], Summary(l))
  <2>1. Len(rows[k]) \in Nat /\ Len(rows[k]) # 0
    BY <1>1, <1>2, EmptySeq
  <2>2. KeyInv(k, rows, log, raced)
    BY KeyInvs DEF SummaryInv
  <2> QED
    BY <1>1, <2>1, <2>2 DEF KeyInv
<1>4. /\ rows'[k] = [i \in DOMAIN rows[k] |-> Updated(rows[k][i], p, seen[s])]
      /\ log'[k] = Append(l, p) /\ raced' = raced
  BY <1>1 DEF Update, Logged, Return, SummaryInv, TypeOK
<1>5. Summary(log'[k]) = Updated(Summary(l), p, l[Len(l)].status) /\ Latched(log'[k])
  BY <1>1, <1>3, <1>4, SummaryNext
<1>6. log'[k] # <<>>
  BY <1>1, <1>4
<1>7. DOMAIN rows'[k] = {1} /\ Len(rows'[k]) = 1 /\ rows'[k][1] = Updated(rows[k][1], p, seen[s])
  <2>1. DOMAIN rows[k] = {1}
    BY <1>1, <1>3
  <2> QED
    BY <1>1, <1>3, <1>4, <2>1, UpdatedRows
<1>8. Shows(rows'[k][1], Summary(log'[k]))
  BY <1>3, <1>5, <1>7, ShowsUpdated
<1>9. ASSUME k \notin raced PROVE rows'[k] = <<Summary(log'[k])>>
  <2>1. rows[k] = <<Summary(l)>> /\ rows[k][1].status = seen[s]
    BY <1>1, <1>2, <1>3, <1>9 DEF SummaryInv, RowIsSummary, SeenUnlessRaced
  <2>2. seen[s] = l[Len(l)].status
    BY <2>1 DEF Summary
  <2>3. rows'[k][1] = Summary(log'[k])
    BY <1>5, <1>7, <2>1, <2>2
  <2>4. rows'[k] \in Seq(Row)
    BY <1>1, <1>4, UpdatedRows
  <2>5. rows'[k] = <<rows'[k][1]>>
    BY <1>7, <2>4, SingletonRow
  <2> QED
    BY <2>3, <2>5
<1>10. k \notin raced' => rows'[k] = <<Summary(log'[k])>>
  BY <1>4, <1>9
<1> QED
  BY <1>5, <1>6, <1>7, <1>8, <1>10, KeyInvOne

(* What the rows show. *)
LEMMA RowsStep == SummaryInv /\ [Next]_vars => Latching' /\ RaceSpoilsCountsOnly' /\ RowIsSummary'
<1> SUFFICES ASSUME SummaryInv, [Next]_vars, NEW k \in Indexed
             PROVE  KeyInv(k, rows', log', raced')
  BY KeyInvsNext
<1>1. KeyInv(k, rows, log, raced) /\ k \in Keys
  BY KeyInvs DEF SummaryInv, Indexed
<1>2. ASSUME rows'[k] = rows[k], log'[k] = log[k], raced \subseteq raced'
      PROVE  KeyInv(k, rows', log', raced')
  BY <1>1, <1>2 DEF KeyInv
<1>3. ASSUME NEW s \in Sessions, Update(s) \/ Insert(s) PROVE KeyInv(k, rows', log', raced')
  <2>1. CASE arg[s].key = k
    BY <1>3, <2>1, InsertKeeps, UpdateKeeps
  <2>2. CASE arg[s].key # k
    BY <1>1, <1>2, <1>3, <2>2 DEF Update, Insert, Logged, Return, SummaryInv, TypeOK
  <2> QED
    BY <2>1, <2>2
<1>4. ASSUME NEW s \in Sessions, Look(s) \/ UniqueViolation(s) PROVE KeyInv(k, rows', log', raced')
  BY <1>2, <1>4 DEF Look, UniqueViolation, Return
<1>5. ASSUME NEW s \in Sessions, NEW p \in Calls, Call(s, p) PROVE KeyInv(k, rows', log', raced')
  BY <1>2, <1>5 DEF Call
<1>6. CASE UNCHANGED vars
  BY <1>2, <1>6 DEF vars
<1> QED
  BY <1>3, <1>4, <1>5, <1>6 DEF Next, Step

(* The invariant of sessions that may meet. *)
THEOREM SummaryInvariant == Spec => []SummaryInv
<1>1. SummaryInv /\ [Next]_vars => SummaryInv'
  BY TypeStep, SessionsStep, RowsStep DEF SummaryInv
<1> QED
  BY <1>1, SummaryStart, PTL DEF Spec

(* The row of a route no two sessions met at is the summary of its calls.     *)
THEOREM RowsAreSummaries == Spec => []RowIsSummary
<1>1. SummaryInv => RowIsSummary
  BY DEF SummaryInv
<1> QED
  BY <1>1, SummaryInvariant, PTL

(* A meeting can spoil the counts and the time of the last change of a row;    *)
(* it never makes a second row or shows anything but the last call.          *)
THEOREM RacesSpoilCounts == Spec => []RaceSpoilsCountsOnly
<1>1. SummaryInv => RaceSpoilsCountsOnly
  BY DEF SummaryInv
<1> QED
  BY <1>1, SummaryInvariant, PTL
=============================================================================
