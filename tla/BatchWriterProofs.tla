------------------------- MODULE BatchWriterProofs -------------------------
(***************************************************************************)
(* Theorems of BatchWriter for every set of handlers, batch size, pool     *)
(* size and number of routes, failures and signals.                        *)
(***************************************************************************)
EXTENDS BatchWriter, FiniteSetTheorems, TLAPS

(* A list object holds finitely many routes, so its length is a number.     *)
LEMMA ListSize ==
  ASSUME home \in Seq(Nat), NEW l
  PROVE  /\ IsFiniteSet(ListAt(l))
         /\ Cardinality(ListAt(l)) \in Nat
         /\ ListAt(l) \subseteq Nat
         /\ ListAt(l) \subseteq DOMAIN home
<1>1. DOMAIN home = 1..Len(home) /\ Len(home) \in Nat
  OBVIOUS
<1>2. IsFiniteSet(1..Len(home))
  BY <1>1, FS_Interval
<1>3. ListAt(l) \subseteq 1..Len(home)
  BY <1>1 DEF ListAt
<1>4. IsFiniteSet(ListAt(l))
  BY <1>2, <1>3, FS_Subset
<1> QED
  BY <1>1, <1>3, <1>4, FS_CardinalityType

(* Every flush ends by the same types, whatever it ends with.               *)
LEMMA EndFlushType ==
  ASSUME TypeOK, NEW t \in Tasks, NEW e \in {"none", "error", "cancelled"},
         EndFlush(t, e), UNCHANGED <<copied, shown>>,
         cancel' \in [Tasks -> BOOLEAN], failures' \in Nat, signals' \in Nat
  PROVE  TypeOK'
<1>1. phase' \in {"serving", "closing", "joining", "flushing", "stopped", "failed", "aborted"}
  BY DEF TypeOK, EndFlush, LeaveFlush
<1>2. written' \in Nat /\ dropped' \subseteq Nat
  BY DEF TypeOK, EndFlush, LeaveFlush, TotalAfter
<1>3. pc' \in [Tasks -> Locations]
  BY DEF TypeOK, EndFlush, LeaveFlush, Locations
<1>4. count' \in [Tasks -> Nat] /\ held' \in [Tasks -> Nat] /\ at' \in [Tasks -> Nat]
  BY DEF TypeOK, EndFlush, LeaveFlush
<1>5. rows' \in [Tasks -> SUBSET Nat]
  BY DEF TypeOK, EndFlush, LeaveFlush
<1>6. exc' \in [Tasks -> {"none", "error", "cancelled"}]
  BY DEF TypeOK, EndFlush, LeaveFlush
<1> QED
  BY <1>1, <1>2, <1>3, <1>4, <1>5, <1>6 DEF TypeOK, EndFlush, LeaveFlush

LEMMA InsertType ==
  ASSUME copied \in [Routes -> Nat], NEW rs
  PROVE  Insert(rs) \in [Routes -> Nat]
BY DEF Insert

LEMMA ShownType ==
  ASSUME shown \in [Prefixes -> Nat], NEW r \in Nat
  PROVE  Shown(r) \in [Prefixes -> Nat]
BY DEF Shown

LEMMA LoopOnType ==
  ASSUME TypeOK, NEW t \in Tasks, NEW l \in Nat, NEW last \in Nat, LoopOn(t, l, last)
  PROVE  /\ pc' \in [Tasks -> Locations]
         /\ count' \in [Tasks -> Nat]
         /\ held' \in [Tasks -> Nat]
         /\ rows' \in [Tasks -> SUBSET Nat]
         /\ at' \in [Tasks -> Nat]
         /\ exc' \in [Tasks -> {"none", "error", "cancelled"}]
<1>1. ListAt(l) \subseteq Nat
  BY ListSize DEF TypeOK
<1>2. /\ count' = count /\ exc' = exc
      /\ held' = [held EXCEPT ![t] = l] /\ rows' = [rows EXCEPT ![t] = {}]
  BY DEF LoopOn
<1>3. \E p \in {"release", "state"}, q \in Nat :
         pc' = [pc EXCEPT ![t] = p] /\ at' = [at EXCEPT ![t] = q]
  BY <1>1 DEF LoopOn
<1> QED
  BY <1>2, <1>3 DEF TypeOK, Locations

LEMMA UnwindType ==
  ASSUME TypeOK, NEW t \in Tasks, NEW e \in {"error", "cancelled"}, Unwind(t, e)
  PROVE  /\ pc' \in [Tasks -> Locations]
         /\ count' \in [Tasks -> Nat]
         /\ held' \in [Tasks -> Nat]
         /\ rows' \in [Tasks -> SUBSET Nat]
         /\ at' \in [Tasks -> Nat]
         /\ exc' \in [Tasks -> {"none", "error", "cancelled"}]
BY DEF TypeOK, Unwind, Locations

LEMMA BeginFlushType ==
  ASSUME TypeOK, NEW t \in Tasks, NEW n \in Nat, BeginFlush(t, n)
  PROVE  /\ pc' \in [Tasks -> Locations]
         /\ count' \in [Tasks -> Nat]
         /\ held' \in [Tasks -> Nat]
         /\ rows' \in [Tasks -> SUBSET Nat]
         /\ at' \in [Tasks -> Nat]
         /\ exc' \in [Tasks -> {"none", "error", "cancelled"}]
         /\ overlapped' \in BOOLEAN
<1>1. overlapped' \in BOOLEAN
  BY Zenon DEF BeginFlush
<1> QED
  BY <1>1 DEF TypeOK, BeginFlush, Locations

(* TypeOK is inductive. *)
LEMMA TypeInit == Init => TypeOK
<1> SUFFICES ASSUME Init PROVE TypeOK
  OBVIOUS
<1>1. running \in BOOLEAN /\ overlapped \in BOOLEAN /\ cancel \in [Tasks -> BOOLEAN]
  BY DEF Init
<1>2. home \in Seq(Nat)
  BY DEF Init
<1>3. pc \in [Tasks -> Locations] /\ exc \in [Tasks -> {"none", "error", "cancelled"}]
  BY DEF Init, Locations
<1>4. copied \in [Routes -> Nat] /\ shown \in [Prefixes -> Nat]
  BY DEF Init
<1> QED
  BY <1>1, <1>2, <1>3, <1>4 DEF Init, TypeOK

LEMMA TypeStep == TypeOK /\ [Next]_vars => TypeOK'
<1> SUFFICES ASSUME TypeOK, [Next]_vars PROVE TypeOK'
  OBVIOUS
<1> USE DEF Runs
<1>1. CASE TimerExpires
  BY <1>1 DEF TimerExpires, TypeOK, flush, db, env, history
<1>2. CASE PeriodicFlush
  <2>1. Cardinality(Batch) \in Nat /\ Periodic \in Tasks
    BY ListSize DEF Batch, TypeOK, Tasks
  <2> QED
    BY <1>2, <2>1, BeginFlushType DEF PeriodicFlush, TypeOK, list, db, env
<1>3. CASE Signal
  <2>1. cancel' \in [Tasks -> BOOLEAN]
    BY <1>3, Zenon DEF Signal
  <2>2. pc' \in [Tasks -> Locations]
    BY <1>3 DEF Signal, TypeOK, Locations
  <2> QED
    BY <1>3, <2>1, <2>2 DEF Signal, TypeOK, list, db, env, history
<1>4. CASE Stop
  BY <1>4 DEF Stop, TypeOK, flush, db, env, history, Tasks
<1>5. CASE FinalFlush
  <2>1. Cardinality(Batch) \in Nat /\ Main \in Tasks
    BY ListSize DEF Batch, TypeOK, Tasks
  <2> QED
    BY <1>5, <2>1, BeginFlushType DEF FinalFlush, TypeOK, list, db, env, Locations
<1>6. ASSUME NEW t \in Tasks, AddRoute(t) PROVE TypeOK'
  <2>1. Cardinality(Batch) + 1 \in Nat
    BY ListSize DEF Batch, TypeOK
  <2>2. home' \in Seq(Nat) /\ Len(home) + 1 \in Nat
    BY <1>6 DEF AddRoute, TypeOK
  <2>3. timer' \in {"none", "recent", "due"}
    BY <1>6 DEF AddRoute, TypeOK, StartTimer
  <2> QED
    BY <1>6, <2>1, <2>2, <2>3, BeginFlushType DEF AddRoute, TypeOK, flush, db, env
<1>7. ASSUME NEW t \in Tasks, Acquire(t) PROVE TypeOK'
  BY <1>7 DEF Acquire, TypeOK, list, db, env, history, Locations
<1>8. ASSUME NEW t \in Tasks, CopyRead(t) PROVE TypeOK'
  <2>1. ListAt(held[t]) \subseteq Nat
    BY ListSize DEF TypeOK
  <2> QED
    <3>1. CASE ListAt(held[t]) \cap Unstorable = {}
      BY <1>8, <2>1, <3>1 DEF CopyRead, TypeOK, list, db, env, history, Locations
    <3>2. CASE ~(ListAt(held[t]) \cap Unstorable = {})
      BY <1>8, <3>2, UnwindType DEF CopyRead, TypeOK, list, db, env, history
    <3> QED
      BY <3>1, <3>2
<1>9. ASSUME NEW t \in Tasks, CopyCommit(t) PROVE TypeOK'
  <2>1. LoopOn(t, gen, 0) /\ gen \in Nat /\ copied' \in [Routes -> Nat]
    BY <1>9, InsertType DEF CopyCommit, TypeOK
  <2> QED
    BY <1>9, <2>1, LoopOnType DEF CopyCommit, TypeOK, list, env, history
<1>10. ASSUME NEW t \in Tasks, UpdateState(t) PROVE TypeOK'
  <2>1. LoopOn(t, held[t], at[t]) /\ held[t] \in Nat /\ at[t] \in Nat
    BY <1>10 DEF UpdateState, TypeOK
  <2> QED
    BY <1>10, <2>1, LoopOnType, ShownType DEF UpdateState, TypeOK, list, env, history
<1>11. ASSUME NEW t \in Tasks, Release(t) PROVE TypeOK'
  <2>1. exc[t] \in {"none", "error", "cancelled"}
    BY DEF TypeOK
  <2> QED
    BY <1>11, <2>1, EndFlushType DEF Release, TypeOK, db, env
<1>12. ASSUME NEW t \in Tasks, DatabaseFails(t) PROVE TypeOK'
  <2>1. failures' \in Nat /\ signals' \in Nat /\ cancel' \in [Tasks -> BOOLEAN]
    BY <1>12 DEF DatabaseFails, TypeOK
  <2>2. CASE EndFlush(t, "error") /\ UNCHANGED db
    BY <2>1, <2>2, EndFlushType DEF db
  <2>3. CASE Unwind(t, "error") /\ StatementMayTakeEffect(t) /\ UNCHANGED <<list, phase, history>>
    <3>1. copied' \in [Routes -> Nat] /\ shown' \in [Prefixes -> Nat]
      BY <2>3, InsertType, ShownType DEF StatementMayTakeEffect, TypeOK, db
    <3> QED
      BY <2>1, <2>3, <3>1, UnwindType DEF TypeOK, list, history
  <2> QED
    BY <1>12, <2>2, <2>3 DEF DatabaseFails
<1>13. ASSUME NEW t \in Tasks, Cancelled(t) PROVE TypeOK'
  <2>1. failures' \in Nat /\ signals' \in Nat /\ cancel' \in [Tasks -> BOOLEAN]
    BY <1>13 DEF Cancelled, TypeOK, env
  <2>2. CASE pc[t] = "idle"
    BY <1>13, <2>1, <2>2 DEF Cancelled, EndTask, TypeOK, list, db, history, Locations
  <2>3. CASE pc[t] \in {"acquire", "release"}
    BY <1>13, <2>1, <2>3, EndFlushType DEF Cancelled, db
  <2>4. CASE pc[t] \in {"copy", "commit", "state"}
    <3>1. Unwind(t, "cancelled") /\ StatementMayTakeEffect(t) /\ UNCHANGED <<list, phase, history>>
      BY <1>13, <2>4 DEF Cancelled
    <3>2. copied' \in [Routes -> Nat] /\ shown' \in [Prefixes -> Nat]
      BY <3>1, InsertType, ShownType DEF StatementMayTakeEffect, TypeOK, db
    <3> QED
      BY <2>1, <3>1, <3>2, UnwindType DEF TypeOK, list, history
  <2> QED
    BY <1>13, <2>2, <2>3, <2>4 DEF Cancelled
<1>14. CASE UNCHANGED vars
  BY <1>14 DEF vars, list, flush, db, env, history, TypeOK
<1> QED
  BY <1>1, <1>2, <1>3, <1>4, <1>5, <1>6, <1>7, <1>8, <1>9, <1>10, <1>11, <1>12, <1>13, <1>14
  DEF Next, FlushStep

(* The variables of the batch writer keep their types. *)
THEOREM TypeCorrect == Spec => []TypeOK
BY TypeInit, TypeStep, PTL DEF Spec

(* Appending gives the next number to the new route and keeps the others.    *)
LEMMA Appended ==
  ASSUME TypeOK, NEW t \in Tasks, AddRoute(t)
  PROVE  /\ Len(home) \in Nat /\ Len(home') = Len(home) + 1 /\ gen' = gen
         /\ DOMAIN home = 1..Len(home) /\ DOMAIN home' = 1..(Len(home) + 1)
         /\ home'[Len(home) + 1] = gen
         /\ \A r \in DOMAIN home : home'[r] = home[r]
         /\ safe' \subseteq safe \cup {Len(home) + 1}
BY DEF TypeOK, AddRoute

(* A flush that ends leaves an empty list in self.batch.                     *)
LEMMA Replaced ==
  ASSUME TypeOK, ListsInv, NEW t \in Tasks, NEW e, EndFlush(t, e)
  PROVE  /\ gen' = gen + 1 /\ home' = home /\ Batch' = {}
         /\ \A r \in DOMAIN home : home[r] # gen'
<1>1. gen' = gen + 1 /\ home' = home /\ gen \in Nat
  BY DEF EndFlush, LeaveFlush, TypeOK
<1>2. \A r \in DOMAIN home : home[r] \in Nat /\ home[r] <= gen
  BY DEF ListsInv, TypeOK
<1> QED
  BY <1>1, <1>2 DEF Batch, ListAt

LEMMA ListsInit == Init => ListsInv
BY SizesAssumption DEF Init, ListsInv, Routes

LEMMA ListsStep == TypeOK /\ ListsInv /\ ShutdownInv /\ [Next]_vars => ListsInv'
<1> SUFFICES ASSUME TypeOK, ListsInv, ShutdownInv, [Next]_vars PROVE ListsInv'
  OBVIOUS
<1>a. ASSUME NEW rs, rs \subseteq DOMAIN home, copied' = Insert(rs)
      PROVE  \A r \in Routes : r > Len(home) => copied'[r] = 0
  <2>1. DOMAIN home = 1..Len(home) /\ Len(home) \in Nat
    BY DEF TypeOK
  <2> QED
    BY <1>a, <2>1 DEF Insert, ListsInv, Routes, TypeOK
<1>b. ASSUME NEW t \in Tasks, NEW e, EndFlush(t, e), copied' = copied PROVE ListsInv'
  <2>1. \A u \in Tasks : rows'[u] \subseteq DOMAIN home /\ (pc'[u] # "commit" => rows'[u] = {})
    BY <1>b DEF ListsInv, EndFlush, LeaveFlush, TypeOK
  <2>2. \A r \in DOMAIN home : home[r] <= gen'
    BY <1>b DEF ListsInv, EndFlush, TypeOK
  <2>3. home' = home /\ safe' = safe
    BY <1>b DEF EndFlush, LeaveFlush
  <2> QED
    BY <1>b, <2>1, <2>2, <2>3 DEF ListsInv
<1>c. ASSUME NEW t \in Tasks, NEW e, Unwind(t, e), StatementMayTakeEffect(t),
             UNCHANGED <<list, phase, history>>
      PROVE  ListsInv'
  <2>1. \A r \in Routes : r > Len(home) => copied'[r] = 0
    BY <1>a, <1>c DEF ListsInv, StatementMayTakeEffect, db
  <2>2. \A u \in Tasks : rows'[u] \subseteq DOMAIN home /\ (pc'[u] # "commit" => rows'[u] = {})
    BY <1>c DEF ListsInv, Unwind, TypeOK
  <2> QED
    BY <1>c, <2>1, <2>2 DEF ListsInv, list, history
<1>d. ASSUME NEW t \in Tasks, NEW l, NEW last, LoopOn(t, l, last), UNCHANGED <<list, history>>,
             \A r \in Routes : r > Len(home) => copied'[r] = 0
      PROVE  ListsInv'
  <2>1. \A u \in Tasks : rows'[u] \subseteq DOMAIN home /\ (pc'[u] # "commit" => rows'[u] = {})
    BY <1>d DEF ListsInv, LoopOn, TypeOK
  <2> QED
    BY <1>d, <2>1 DEF ListsInv, list, history
<1>1. CASE TimerExpires
  BY <1>1 DEF TimerExpires, ListsInv, flush, db, history
<1>2. CASE PeriodicFlush
  BY <1>2 DEF PeriodicFlush, BeginFlush, ListsInv, TypeOK, list, db
<1>3. CASE Signal
  <2>1. \A u \in Tasks : rows'[u] \subseteq DOMAIN home /\ (pc'[u] # "commit" => rows'[u] = {})
    BY <1>3 DEF Signal, ListsInv, ShutdownInv, TypeOK
  <2> QED
    BY <1>3, <2>1 DEF Signal, ListsInv, list, db, history
<1>4. CASE Stop
  BY <1>4 DEF Stop, ListsInv, flush, db, history
<1>5. CASE FinalFlush
  <2>1. \A u \in Tasks : rows'[u] \subseteq DOMAIN home /\ (pc'[u] # "commit" => rows'[u] = {})
    BY <1>5 DEF FinalFlush, BeginFlush, ListsInv, ShutdownInv, TypeOK
  <2> QED
    BY <1>5, <2>1 DEF FinalFlush, ListsInv, list, db
<1>6. ASSUME NEW t \in Tasks, AddRoute(t) PROVE ListsInv'
  <2>1. \A u \in Tasks : rows'[u] = rows[u] /\ (pc'[u] = pc[u] \/ (pc'[u] = "acquire" /\ pc[u] = "idle"))
    <3>1. rows' = rows /\ (pc' = pc \/ pc' = [pc EXCEPT ![t] = "acquire"]) /\ pc[t] = "idle"
      BY <1>6 DEF AddRoute, BeginFlush, flush
    <3>2. pc \in [Tasks -> Locations]
      BY DEF TypeOK
    <3> QED
      BY <3>1, <3>2
  <2>2. Len(home) < MaxRoutes /\ copied' = copied
    BY <1>6 DEF AddRoute, db
  <2>3. \A u \in Tasks : rows'[u] \subseteq DOMAIN home' /\ (pc'[u] # "commit" => rows'[u] = {})
    BY <1>6, <2>1, Appended DEF ListsInv
  <2>4. \A r \in DOMAIN home' : home'[r] <= gen'
    <3>1. \A r \in DOMAIN home' : r \in DOMAIN home \/ r = Len(home) + 1
      BY <1>6, Appended
    <3>2. gen \in Nat /\ \A r \in DOMAIN home : home[r] <= gen
      BY DEF ListsInv, TypeOK
    <3> QED
      BY <1>6, <3>1, <3>2, Appended
  <2> QED
    BY <1>6, <2>2, <2>3, <2>4, Appended, SizesAssumption DEF ListsInv, Routes
<1>7. ASSUME NEW t \in Tasks, Acquire(t) PROVE ListsInv'
  BY <1>7 DEF Acquire, ListsInv, TypeOK, list, db, history
<1>8. ASSUME NEW t \in Tasks, CopyRead(t) PROVE ListsInv'
  <2>1. \A u \in Tasks : rows'[u] \subseteq DOMAIN home /\ (pc'[u] # "commit" => rows'[u] = {})
    <3>1. \A l : ListAt(l) \subseteq DOMAIN home
      BY DEF ListAt
    <3>2. \/ pc' = [pc EXCEPT ![t] = "commit"] /\ rows' = [rows EXCEPT ![t] = ListAt(held[t])]
          \/ pc' = [pc EXCEPT ![t] = "release"] /\ rows' = [rows EXCEPT ![t] = {}]
      BY <1>8 DEF CopyRead, Unwind
    <3>3. pc \in [Tasks -> Locations] /\ rows \in [Tasks -> SUBSET Nat]
      BY DEF TypeOK
    <3>4. \A u \in Tasks : rows[u] \subseteq DOMAIN home /\ (pc[u] # "commit" => rows[u] = {})
      BY DEF ListsInv
    <3> QED
      BY <3>1, <3>2, <3>3, <3>4
  <2> QED
    BY <1>8, <2>1 DEF CopyRead, ListsInv, list, db, history
<1>9. ASSUME NEW t \in Tasks, CopyCommit(t) PROVE ListsInv'
  BY <1>9, <1>a, <1>d DEF CopyCommit, ListsInv
<1>10. ASSUME NEW t \in Tasks, UpdateState(t) PROVE ListsInv'
  BY <1>10, <1>d DEF UpdateState, ListsInv
<1>11. ASSUME NEW t \in Tasks, Release(t) PROVE ListsInv'
  BY <1>11, <1>b DEF Release, db
<1>12. ASSUME NEW t \in Tasks, DatabaseFails(t) PROVE ListsInv'
  BY <1>12, <1>b, <1>c DEF DatabaseFails, db
<1>13. ASSUME NEW t \in Tasks, Cancelled(t) PROVE ListsInv'
  <2>1. CASE pc[t] = "idle"
    BY <1>13, <2>1 DEF Cancelled, EndTask, ListsInv, TypeOK, list, db, history
  <2>2. CASE pc[t] # "idle"
    BY <1>13, <2>2, <1>b, <1>c DEF Cancelled, db
  <2> QED
    BY <2>1, <2>2
<1>14. CASE UNCHANGED vars
  BY <1>14 DEF vars, list, flush, db, history, ListsInv
<1> QED
  BY <1>1, <1>2, <1>3, <1>4, <1>5, <1>6, <1>7, <1>8, <1>9, <1>10, <1>11, <1>12, <1>13, <1>14
  DEF Next, FlushStep

LEMMA TimerInit == Init => TimerTracksBatch
BY DEF Init, TimerTracksBatch, Batch, ListAt

LEMMA TimerStep == TypeOK /\ ListsInv /\ TimerTracksBatch /\ [Next]_vars => TimerTracksBatch'
<1> SUFFICES ASSUME TypeOK, ListsInv, TimerTracksBatch, [Next]_vars PROVE TimerTracksBatch'
  OBVIOUS
<1>a. ASSUME UNCHANGED <<home, gen, timer>> PROVE TimerTracksBatch'
  BY <1>a DEF TimerTracksBatch, Batch, ListAt
<1>b. ASSUME NEW t \in Tasks, NEW e, EndFlush(t, e) PROVE TimerTracksBatch'
  BY <1>b, Replaced DEF EndFlush, TimerTracksBatch
<1>1. CASE TimerExpires
  BY <1>1 DEF TimerExpires, TimerTracksBatch, Batch, ListAt
<1>2. ASSUME NEW t \in Tasks, AddRoute(t) PROVE TimerTracksBatch'
  <2>1. Len(home) + 1 \in Batch'
    BY <1>2, Appended DEF Batch, ListAt
  <2>2. timer' # "none"
    BY <1>2 DEF AddRoute, StartTimer
  <2> QED
    BY <2>1, <2>2 DEF TimerTracksBatch
<1>3. ASSUME NEW t \in Tasks, Release(t) PROVE TimerTracksBatch'
  BY <1>3, <1>b DEF Release
<1>4. ASSUME NEW t \in Tasks, DatabaseFails(t) PROVE TimerTracksBatch'
  BY <1>4, <1>a, <1>b DEF DatabaseFails, list
<1>5. ASSUME NEW t \in Tasks, Cancelled(t) PROVE TimerTracksBatch'
  BY <1>5, <1>a, <1>b DEF Cancelled, list
<1>6. CASE PeriodicFlush \/ Signal \/ Stop \/ FinalFlush
  BY <1>6, <1>a DEF PeriodicFlush, Signal, Stop, FinalFlush, list
<1>7. ASSUME NEW t \in Tasks, Acquire(t) \/ CopyRead(t) \/ CopyCommit(t) \/ UpdateState(t)
      PROVE  TimerTracksBatch'
  BY <1>7, <1>a DEF Acquire, CopyRead, CopyCommit, UpdateState, list
<1>8. CASE UNCHANGED vars
  BY <1>8, <1>a DEF vars, list
<1> QED
  BY <1>1, <1>2, <1>3, <1>4, <1>5, <1>6, <1>7, <1>8 DEF Next, FlushStep

LEMMA ShutdownInit == Init => ShutdownInv
BY DEF Init, ShutdownInv, Tasks

LEMMA ShutdownStep == TypeOK /\ ListsInv /\ ShutdownInv /\ [Next]_vars => ShutdownInv'
<1> SUFFICES ASSUME TypeOK, ListsInv, ShutdownInv, [Next]_vars PROVE ShutdownInv'
  OBVIOUS
<1> USE TasksAssumption DEF Runs
<1>t. /\ Main \in Tasks /\ Periodic \in Tasks /\ Handlers \subseteq Tasks
      /\ Main # Periodic /\ Main \notin Handlers /\ Periodic \notin Handlers
      /\ pc \in [Tasks -> Locations] /\ cancel \in [Tasks -> BOOLEAN]
  BY DEF Tasks, TypeOK
<1>f. \A u \in Tasks : InFlight(u) <=> pc[u] \in {"acquire", "copy", "commit", "state", "release"}
  BY DEF InFlight, Holding
<1>g. \A u \in Tasks : InFlight(u)' <=> pc'[u] \in {"acquire", "copy", "commit", "state", "release"}
  BY DEF InFlight, Holding
(* A step of t inside its flush leaves the phase alone. *)
<1>a. ASSUME NEW t \in Tasks, InFlight(t), NEW p \in {"acquire", "copy", "commit", "state", "release"},
             pc' = [pc EXCEPT ![t] = p], UNCHANGED <<home, gen, running, phase>>,
             cancel'[Main] => cancel[Main]
      PROVE  ShutdownInv'
  BY <1>a, <1>t, <1>f, <1>g DEF ShutdownInv, Batch, ListAt
<1>b. ASSUME NEW t \in Tasks, InFlight(t), NEW e \in {"none", "error", "cancelled"}, EndFlush(t, e),
             t = Main => ~cancel'[Main], cancel'[Main] => cancel[Main]
      PROVE  ShutdownInv'
  <2>1. /\ Batch' = {} /\ running' = running
        /\ pc' = [pc EXCEPT ![t] = IF t = Main \/ e = "cancelled" THEN "gone" ELSE "idle"]
    BY <1>b, Replaced DEF EndFlush, LeaveFlush
  <2>2. CASE t = Main
    <3>1. phase = "flushing" /\ phase' \in {"stopped", "failed", "aborted"}
      BY <1>b, <2>2, <1>t, <1>f DEF EndFlush, LeaveFlush, ShutdownInv, TypeOK
    <3> QED
      BY <1>b, <2>1, <2>2, <3>1, <1>t DEF ShutdownInv
  <2>3. CASE t # Main
    <3>1. phase' = phase
      BY <1>b, <2>3 DEF EndFlush, LeaveFlush
    <3> QED
      BY <1>b, <2>1, <2>3, <3>1, <1>t, <1>f, <1>g DEF ShutdownInv
  <2> QED
    BY <2>2, <2>3
<1>1. CASE TimerExpires
  BY <1>1 DEF TimerExpires, ShutdownInv, flush, InFlight, Batch, ListAt
<1>2. CASE PeriodicFlush
  <2>1. /\ pc[Periodic] = "idle" /\ pc' = [pc EXCEPT ![Periodic] = "acquire"]
        /\ UNCHANGED <<home, gen, running, phase, cancel>>
    BY <1>2 DEF PeriodicFlush, BeginFlush, list
  <2> QED
    BY <2>1, <1>t, <1>f, <1>g DEF ShutdownInv, Batch, ListAt
<1>3. CASE Signal
  <2>1. /\ pc' = [pc EXCEPT ![Main] = IF phase = "closing" THEN "gone" ELSE @]
        /\ UNCHANGED <<home, gen, running>>
        /\ phase \in {"serving", "closing", "joining", "flushing"}
        /\ phase' = IF phase = "serving" THEN "closing"
                    ELSE IF phase = "closing" THEN "aborted" ELSE phase
    BY <1>3 DEF Signal, list
  <2>2. cancel'[Main] => phase = "flushing"
    BY <1>3, <1>t DEF Signal
  <2> QED
    BY <2>1, <2>2, <1>t, <1>f, <1>g DEF ShutdownInv, Batch, ListAt
<1>4. CASE Stop
  <2>1. /\ pc' = pc /\ phase = "closing" /\ phase' = "joining" /\ ~running'
        /\ \A t \in Handlers : pc[t] = "gone"
        /\ cancel'[Main] = cancel[Main]
    BY <1>4, <1>t DEF Stop, flush
  <2> QED
    BY <2>1, <1>t DEF ShutdownInv
<1>5. CASE FinalFlush
  <2>1. CASE Batch = {}
    BY <1>5, <2>1, <1>t DEF FinalFlush, ShutdownInv, list, Batch, ListAt
  <2>2. CASE Batch # {}
    <3>1. /\ pc[Periodic] = "gone" /\ phase = "joining" /\ phase' = "flushing"
          /\ pc' = [pc EXCEPT ![Main] = "acquire"] /\ UNCHANGED <<running, cancel>>
      BY <1>5, <2>2 DEF FinalFlush, BeginFlush, list
    <3> QED
      BY <3>1, <1>t, <1>g DEF ShutdownInv
  <2> QED
    BY <2>1, <2>2
<1>6. ASSUME NEW t \in Tasks, AddRoute(t) PROVE ShutdownInv'
  <2>1. /\ t \in Handlers /\ pc[t] = "idle" /\ UNCHANGED <<running, phase, cancel>>
        /\ pc' = pc \/ pc' = [pc EXCEPT ![t] = "acquire"]
    BY <1>6 DEF AddRoute, BeginFlush, flush
  <2>2. phase \notin {"joining", "flushing", "stopped", "failed"}
    BY <2>1 DEF ShutdownInv
  <2> QED
    BY <2>1, <2>2, <1>t DEF ShutdownInv
<1>7. ASSUME NEW t \in Tasks, Acquire(t) PROVE ShutdownInv'
  BY <1>7, <1>a, <1>f DEF Acquire, list
<1>8. ASSUME NEW t \in Tasks, CopyRead(t) PROVE ShutdownInv'
  BY <1>8, <1>a, <1>f DEF CopyRead, Unwind, list
<1>9. ASSUME NEW t \in Tasks, CopyCommit(t) PROVE ShutdownInv'
  BY <1>9, <1>a, <1>f DEF CopyCommit, LoopOn, list
<1>10. ASSUME NEW t \in Tasks, UpdateState(t) PROVE ShutdownInv'
  BY <1>10, <1>a, <1>f DEF UpdateState, LoopOn, list
<1>11. ASSUME NEW t \in Tasks, Release(t) PROVE ShutdownInv'
  BY <1>11, <1>b, <1>f DEF Release, TypeOK
<1>12. ASSUME NEW t \in Tasks, DatabaseFails(t) PROVE ShutdownInv'
  BY <1>12, <1>a, <1>b, <1>f DEF DatabaseFails, Unwind, list
<1>13. ASSUME NEW t \in Tasks, Cancelled(t) PROVE ShutdownInv'
  <2>1. cancel[t] /\ (cancel'[Main] => cancel[Main]) /\ (t = Main => ~cancel'[Main])
    BY <1>13, <1>t DEF Cancelled
  <2>2. CASE pc[t] = "idle"
    <3>1. t # Main
      BY <2>1, <2>2, <1>f DEF ShutdownInv
    <3>2. pc' = [pc EXCEPT ![t] = "gone"] /\ UNCHANGED <<home, gen, running, phase>>
      BY <1>13, <2>2 DEF Cancelled, EndTask, list
    <3> QED
      BY <2>1, <2>2, <3>1, <3>2, <1>t, <1>f, <1>g DEF ShutdownInv, Batch, ListAt
  <2>3. CASE pc[t] # "idle"
    BY <1>13, <2>1, <2>3, <1>a, <1>b, <1>f DEF Cancelled, Unwind, list
  <2> QED
    BY <2>2, <2>3
<1>14. CASE UNCHANGED vars
  BY <1>14 DEF vars, list, flush, ShutdownInv, InFlight, Batch, ListAt
<1> QED
  BY <1>1, <1>2, <1>3, <1>4, <1>5, <1>6, <1>7, <1>8, <1>9, <1>10, <1>11, <1>12, <1>13, <1>14
  DEF Next, FlushStep

LEMMA WindowInit == Init => WindowInv /\ SafeRoutesAreWritten
BY DEF Init, WindowInv, SafeRoutesAreWritten

(* A safe route has a row in copied.                                         *)
LEMMA SafeIsRoute == TypeOK /\ ListsInv => safe \subseteq Routes
BY SizesAssumption DEF TypeOK, ListsInv, Routes

LEMMA WindowStep == TypeOK /\ ListsInv /\ WindowInv /\ [Next]_vars => WindowInv'
<1> SUFFICES ASSUME TypeOK, ListsInv, WindowInv, [Next]_vars PROVE WindowInv'
  OBVIOUS
<1> USE DEF Runs
<1>t. /\ pc \in [Tasks -> Locations] /\ held \in [Tasks -> Nat] /\ rows \in [Tasks -> SUBSET Nat]
      /\ exc \in [Tasks -> {"none", "error", "cancelled"}] /\ copied \in [Routes -> Nat]
      /\ gen \in Nat /\ safe \subseteq Routes /\ safe \subseteq DOMAIN home
      /\ \A l : ListAt(l) \subseteq DOMAIN home
  BY SafeIsRoute DEF TypeOK, ListsInv, ListAt
<1>i. ASSUME NEW rs PROVE \A r \in Routes : /\ Insert(rs)[r] >= copied[r]
                                            /\ r \in rs => Insert(rs)[r] >= 1
  BY <1>t DEF Insert
(* Task t alone moves, by a step that keeps what WindowInv says of t. *)
<1>a. ASSUME NEW t \in Tasks, UNCHANGED <<home, gen, safe>>,
             \A r \in Routes : copied'[r] \in Nat /\ copied'[r] >= copied[r],
             \A u \in Tasks \ {t} : /\ pc'[u] = pc[u] /\ held'[u] = held[u]
                                    /\ rows'[u] = rows[u] /\ exc'[u] = exc[u],
             \A r \in safe : home[r] = gen =>
               /\ pc'[t] = "copy" => held'[t] = gen
               /\ pc'[t] = "commit" => r \in rows'[t]
               /\ pc'[t] = "state" => copied'[r] >= 1
               /\ pc'[t] = "release" => (exc'[t] # "none" \/ copied'[r] >= 1)
      PROVE  WindowInv'
  <2> SUFFICES ASSUME NEW r \in safe, home[r] = gen, NEW u \in Tasks
               PROVE  /\ pc'[u] = "copy" => held'[u] = gen
                      /\ pc'[u] = "commit" => r \in rows'[u]
                      /\ pc'[u] = "state" => copied'[r] >= 1
                      /\ pc'[u] = "release" => (exc'[u] # "none" \/ copied'[r] >= 1)
    BY <1>a DEF WindowInv
  <2>1. CASE u = t
    BY <1>a, <2>1
  <2>2. CASE u # t
    BY <1>a, <1>t, <2>2 DEF WindowInv
  <2> QED
    BY <2>1, <2>2
(* After a flush no safe route is in the new list. *)
<1>b. ASSUME NEW t \in Tasks, NEW e, EndFlush(t, e) PROVE WindowInv'
  BY <1>b, <1>t, Replaced DEF WindowInv, EndFlush, LeaveFlush
<1>c. ASSUME NEW t \in Tasks, NEW e \in {"error", "cancelled"}, Unwind(t, e),
             StatementMayTakeEffect(t), UNCHANGED <<list, phase, history>>
      PROVE  WindowInv'
  <2>1. \A r \in Routes : copied'[r] \in Nat /\ copied'[r] >= copied[r]
    <3>1. copied' = copied \/ \E rs : copied' = Insert(rs)
      BY <1>c DEF StatementMayTakeEffect, db
    <3> QED
      BY <3>1, <1>t DEF Insert
  <2>2. pc'[t] = "release" /\ exc'[t] # "none"
    BY <1>c, <1>t DEF Unwind
  <2>3. \A u \in Tasks \ {t} : /\ pc'[u] = pc[u] /\ held'[u] = held[u]
                               /\ rows'[u] = rows[u] /\ exc'[u] = exc[u]
    BY <1>c, <1>t DEF Unwind
  <2> QED
    BY <1>c, <2>1, <2>2, <2>3, <1>a DEF list, history
<1>1. CASE TimerExpires \/ Stop
  BY <1>1 DEF TimerExpires, Stop, WindowInv, flush, db, history
<1>2. ASSUME NEW t \in Tasks, NEW n, BeginFlush(t, n), UNCHANGED <<home, gen, safe, copied>>
      PROVE  WindowInv'
  BY <1>2, <1>t, <1>a DEF BeginFlush
<1>3. CASE PeriodicFlush
  BY <1>3, <1>2 DEF PeriodicFlush, Tasks, list, db
<1>4. CASE Signal
  <2>1. \A u \in Tasks : pc'[u] = pc[u] \/ pc'[u] = "gone"
    BY <1>4, <1>t DEF Signal
  <2> QED
    BY <1>4, <2>1 DEF Signal, WindowInv, list, db, history
<1>5. CASE FinalFlush
  <2>1. CASE Batch = {}
    <3>1. \A u \in Tasks : pc'[u] = pc[u] \/ pc'[u] = "gone"
      BY <1>5, <2>1, <1>t DEF FinalFlush
    <3> QED
      BY <1>5, <2>1, <3>1 DEF FinalFlush, WindowInv, list, db
  <2>2. CASE Batch # {}
    BY <1>5, <2>2, <1>2 DEF FinalFlush, Tasks, list, db
  <2> QED
    BY <2>1, <2>2
<1>6. ASSUME NEW t \in Tasks, AddRoute(t) PROVE WindowInv'
  <2>1. /\ pc' = pc \/ pc' = [pc EXCEPT ![t] = "acquire"]
        /\ UNCHANGED <<held, rows, exc, copied, gen>>
        /\ safe' = IF Exposed THEN safe ELSE safe \cup {Len(home) + 1}
    BY <1>6 DEF AddRoute, BeginFlush, flush, db
  <2>2. \A u \in Tasks : pc'[u] = pc[u] \/ pc'[u] = "acquire"
    BY <2>1, <1>t
  <2>3. ASSUME NEW r \in safe', home'[r] = gen', NEW u \in Tasks
        PROVE  /\ pc'[u] = "copy" => held'[u] = gen'
               /\ pc'[u] = "commit" => r \in rows'[u]
               /\ pc'[u] = "state" => copied'[r] >= 1
               /\ pc'[u] = "release" => (exc'[u] # "none" \/ copied'[r] >= 1)
    <3>1. CASE r \in safe
      <4>1. home[r] = gen
        BY <1>6, <2>3, <3>1, <1>t, Appended
      <4> QED
        BY <2>1, <2>2, <3>1, <4>1 DEF WindowInv
    <3>2. CASE r \notin safe
      <4>1. ~Exposed
        BY <2>1, <2>3, <3>2
      <4> QED
        BY <2>1, <2>2, <4>1 DEF Exposed
    <3> QED
      BY <3>1, <3>2
  <2> QED
    BY <2>3 DEF WindowInv
<1>7. ASSUME NEW t \in Tasks, Acquire(t) PROVE WindowInv'
  BY <1>7, <1>t, <1>a DEF Acquire, list, db, history
<1>8. ASSUME NEW t \in Tasks, CopyRead(t) PROVE WindowInv'
  <2>1. CASE ListAt(held[t]) \cap Unstorable = {}
    <3>1. \A r \in safe : home[r] = gen => r \in ListAt(held[t])
      BY <1>8, <1>t DEF CopyRead, WindowInv, ListAt
    <3>2. /\ pc' = [pc EXCEPT ![t] = "commit"]
          /\ rows' = [rows EXCEPT ![t] = ListAt(held[t])]
          /\ UNCHANGED <<held, exc, home, gen, safe, copied>>
      BY <1>8, <2>1 DEF CopyRead, list, db, history
    <3> QED
      BY <3>1, <3>2, <1>t, <1>a
  <2>2. CASE ~(ListAt(held[t]) \cap Unstorable = {})
    BY <1>8, <2>2, <1>c DEF CopyRead, StatementMayTakeEffect
  <2> QED
    BY <2>1, <2>2
<1>9. ASSUME NEW t \in Tasks, CopyCommit(t) PROVE WindowInv'
  <2>1. copied' = Insert(rows[t])
    BY <1>9 DEF CopyCommit
  <2>2. \A r \in Routes : copied'[r] \in Nat /\ copied'[r] >= copied[r]
    BY <2>1, <1>t DEF Insert
  <2>3. \A r \in safe : home[r] = gen => copied'[r] >= 1
    BY <1>9, <2>1, <1>t, <1>i DEF CopyCommit, WindowInv
  <2>4. \A u \in Tasks \ {t} : /\ pc'[u] = pc[u] /\ held'[u] = held[u]
                               /\ rows'[u] = rows[u] /\ exc'[u] = exc[u]
    BY <1>9, <1>t DEF CopyCommit, LoopOn
  <2>5. pc'[t] \in {"release", "state"}
    BY <1>9, <1>t DEF CopyCommit, LoopOn
  <2>6. UNCHANGED <<home, gen, safe>>
    BY <1>9 DEF CopyCommit, list, history
  <2> QED
    BY <2>2, <2>3, <2>4, <2>5, <2>6, <1>a
<1>10. ASSUME NEW t \in Tasks, UpdateState(t) PROVE WindowInv'
  <2>1. \A r \in safe : home[r] = gen => copied[r] >= 1
    BY <1>10 DEF UpdateState, WindowInv
  <2>2. \A u \in Tasks \ {t} : /\ pc'[u] = pc[u] /\ held'[u] = held[u]
                               /\ rows'[u] = rows[u] /\ exc'[u] = exc[u]
    BY <1>10, <1>t DEF UpdateState, LoopOn
  <2>3. pc'[t] \in {"release", "state"}
    BY <1>10, <1>t DEF UpdateState, LoopOn
  <2>4. UNCHANGED <<home, gen, safe, copied>>
    BY <1>10 DEF UpdateState, list, history
  <2> QED
    BY <2>1, <2>2, <2>3, <2>4, <1>t, <1>a
<1>11. ASSUME NEW t \in Tasks, Release(t) PROVE WindowInv'
  BY <1>11, <1>b DEF Release
<1>12. ASSUME NEW t \in Tasks, DatabaseFails(t) PROVE WindowInv'
  BY <1>12, <1>b, <1>c DEF DatabaseFails
<1>13. ASSUME NEW t \in Tasks, Cancelled(t) PROVE WindowInv'
  <2>1. CASE pc[t] = "idle"
    BY <1>13, <2>1, <1>t, <1>a DEF Cancelled, EndTask, list, db, history
  <2>2. CASE pc[t] # "idle"
    BY <1>13, <2>2, <1>b, <1>c DEF Cancelled
  <2> QED
    BY <2>1, <2>2
<1>14. CASE UNCHANGED vars
  BY <1>14 DEF vars, list, flush, db, history, WindowInv
<1> QED
  BY <1>1, <1>3, <1>4, <1>5, <1>6, <1>7, <1>8, <1>9, <1>10, <1>11, <1>12, <1>13, <1>14
  DEF Next, FlushStep

LEMMA SafeStep ==
  TypeOK /\ ListsInv /\ WindowInv /\ SafeRoutesAreWritten /\ [Next]_vars => SafeRoutesAreWritten'
<1> SUFFICES ASSUME TypeOK, ListsInv, WindowInv, SafeRoutesAreWritten, [Next]_vars
             PROVE  SafeRoutesAreWritten'
  OBVIOUS
<1> USE DEF Runs
<1>t. /\ copied \in [Routes -> Nat] /\ safe \subseteq Routes /\ safe \subseteq DOMAIN home
      /\ exc \in [Tasks -> {"none", "error", "cancelled"}]
  BY SafeIsRoute DEF TypeOK, ListsInv
<1>i. \A rs : \A r \in Routes : Insert(rs)[r] \in Nat /\ Insert(rs)[r] >= copied[r]
  BY <1>t DEF Insert
<1>a. ASSUME UNCHANGED <<home, gen, safe, dropped>>,
             copied' = copied \/ \E rs : copied' = Insert(rs)
      PROVE  SafeRoutesAreWritten'
  BY <1>a, <1>t, <1>i DEF SafeRoutesAreWritten
<1>b. ASSUME NEW t \in Tasks, NEW e \in {"none", "error", "cancelled"}, EndFlush(t, e), copied' = copied,
             e = "none" => pc[t] = "release" /\ exc[t] = "none"
      PROVE  SafeRoutesAreWritten'
  <2>1. /\ UNCHANGED <<home, safe>>
        /\ dropped' = IF e = "none" THEN dropped ELSE dropped \cup {gen}
    BY <1>b DEF EndFlush, LeaveFlush
  <2>2. e = "none" => \A r \in safe : home[r] = gen => copied[r] >= 1
    BY <1>b DEF WindowInv
  <2> QED
    BY <1>b, <2>1, <2>2 DEF SafeRoutesAreWritten
<1>1. ASSUME NEW t \in Tasks, AddRoute(t) PROVE SafeRoutesAreWritten'
  <2>1. copied' = copied /\ dropped' = dropped
    BY <1>1 DEF AddRoute, db
  <2> QED
    BY <1>1, <2>1, <1>t, Appended DEF SafeRoutesAreWritten
<1>2. CASE TimerExpires \/ PeriodicFlush \/ Signal \/ Stop \/ FinalFlush
  BY <1>2, <1>a DEF TimerExpires, PeriodicFlush, Signal, Stop, FinalFlush, list, db, history
<1>3. ASSUME NEW t \in Tasks, Acquire(t) \/ CopyRead(t) \/ CopyCommit(t) \/ UpdateState(t)
      PROVE  SafeRoutesAreWritten'
  BY <1>3, <1>a DEF Acquire, CopyRead, CopyCommit, UpdateState, list, db, history
<1>4. ASSUME NEW t \in Tasks, Release(t) PROVE SafeRoutesAreWritten'
  BY <1>4, <1>b, <1>t DEF Release, db
<1>5. ASSUME NEW t \in Tasks, DatabaseFails(t) PROVE SafeRoutesAreWritten'
  BY <1>5, <1>a, <1>b DEF DatabaseFails, StatementMayTakeEffect, list, db, history
<1>6. ASSUME NEW t \in Tasks, Cancelled(t) PROVE SafeRoutesAreWritten'
  BY <1>6, <1>a, <1>b DEF Cancelled, StatementMayTakeEffect, list, db, history
<1>7. CASE UNCHANGED vars
  BY <1>7, <1>a DEF vars, list, db, history
<1> QED
  BY <1>1, <1>2, <1>3, <1>4, <1>5, <1>6, <1>7 DEF Next, FlushStep

(* Once flushes have overlapped, they have.                                  *)
LEMMA OverlapStays == [Next]_vars /\ ~overlapped' => ~overlapped
<1> SUFFICES ASSUME [Next]_vars, ~overlapped' PROVE ~overlapped
  OBVIOUS
<1>1. overlapped' = overlapped \/ \E t \in Tasks : \E n : BeginFlush(t, n)
  <2>1. CASE TimerExpires \/ PeriodicFlush \/ Signal \/ Stop
    BY <2>1 DEF TimerExpires, PeriodicFlush, Signal, Stop, history, Tasks
  <2>2. CASE FinalFlush
    BY <2>2 DEF FinalFlush, Tasks
  <2>3. ASSUME NEW t \in Tasks, AddRoute(t) PROVE overlapped' = overlapped \/ \E n : BeginFlush(t, n)
    BY <2>3 DEF AddRoute
  <2>4. ASSUME NEW t \in Tasks, FlushStep(t) PROVE overlapped' = overlapped
    BY <2>4 DEF FlushStep, Acquire, CopyRead, CopyCommit, UpdateState, Release, EndFlush, LeaveFlush, history
  <2>5. ASSUME NEW t \in Tasks, DatabaseFails(t) \/ Cancelled(t) PROVE overlapped' = overlapped
    BY <2>5 DEF DatabaseFails, Cancelled, EndFlush, LeaveFlush, history
  <2>6. CASE UNCHANGED vars
    BY <2>6 DEF vars, history
  <2> QED
    BY <2>1, <2>2, <2>3, <2>4, <2>5, <2>6 DEF Next
<1> QED
  BY <1>1 DEF BeginFlush

LEMMA OverlapInit == Init => OverlapInv /\ OneRowWithoutOverlap
BY DEF Init, OverlapInv, OneRowWithoutOverlap, InFlight, Holding

LEMMA OverlapStep ==
  TypeOK /\ ListsInv /\ ShutdownInv /\ OverlapInv /\ OneRowWithoutOverlap /\ [Next]_vars
    => OverlapInv' /\ OneRowWithoutOverlap'
<1> SUFFICES ASSUME TypeOK, ListsInv, ShutdownInv, OverlapInv, OneRowWithoutOverlap,
                    [Next]_vars, ~overlapped'
             PROVE  OverlapInv' /\ OneRowWithoutOverlap'
  BY DEF OverlapInv, OneRowWithoutOverlap
<1> USE DEF Runs
<1> DEFINE Going == {"acquire", "copy", "commit", "state", "release"}
<1>t. /\ pc \in [Tasks -> Locations] /\ held \in [Tasks -> Nat] /\ rows \in [Tasks -> SUBSET Nat]
      /\ copied \in [Routes -> Nat] /\ gen \in Nat
      /\ Len(home) \in Nat /\ DOMAIN home = 1..Len(home) /\ DOMAIN home \subseteq Routes
      /\ \A l : ListAt(l) \subseteq DOMAIN home
      /\ Main \in Tasks /\ Periodic \in Tasks
  BY SizesAssumption DEF TypeOK, ListsInv, Routes, ListAt, Tasks
<1>f. /\ \A u \in Tasks : InFlight(u) <=> pc[u] \in Going
      /\ \A u \in Tasks : InFlight(u)' <=> pc'[u] \in Going
  BY DEF InFlight, Holding
<1>o. ~overlapped
  BY OverlapStays
<1>p. /\ \A t, u \in Tasks : pc[t] \in Going /\ pc[u] \in Going => t = u
      /\ \A t \in Tasks : pc[t] \in {"copy", "commit"} => held[t] = gen
      /\ \A t \in Tasks : \A r \in rows[t] : home[r] = gen
      /\ \A t \in Tasks : pc[t] # "commit" => rows[t] = {}
      /\ (\A t \in Tasks : pc[t] \notin {"state", "release"}) =>
           \A r \in DOMAIN home : home[r] = gen => copied[r] = 0
      /\ \A r \in Routes : copied[r] <= 1
  BY <1>o, <1>f DEF OverlapInv, OneRowWithoutOverlap, ListsInv
(* The task t in flight moves alone; self.batch stays the same. *)
<1>a. ASSUME NEW t \in Tasks, pc[t] \in Going, UNCHANGED <<home, gen>>,
             NEW p \in Going, pc' = [pc EXCEPT ![t] = p],
             \A u \in Tasks \ {t} : rows'[u] = rows[u] /\ held'[u] = held[u],
             p \in {"copy", "commit"} => held'[t] = gen,
             \A r \in rows'[t] : home[r] = gen,
             p \in {"state", "release"} \/ (copied' = copied /\ pc[t] \notin {"state", "release"}),
             \A r \in Routes : copied'[r] <= 1
      PROVE  OverlapInv' /\ OneRowWithoutOverlap'
  <2>1. \A u, v \in Tasks : pc'[u] \in Going /\ pc'[v] \in Going => u = v
    BY <1>a, <1>p, <1>t
  <2>2. \A u \in Tasks : pc'[u] \in {"copy", "commit"} => held'[u] = gen'
    BY <1>a, <1>p, <1>t
  <2>3. \A u \in Tasks : \A r \in rows'[u] : home'[r] = gen'
    BY <1>a, <1>p
  <2>4. (\A u \in Tasks : pc'[u] \notin {"state", "release"}) =>
          \A r \in DOMAIN home : home[r] = gen => copied'[r] = 0
    BY <1>a, <1>p, <1>t
  <2> QED
    BY <1>a, <2>1, <2>2, <2>3, <2>4, <1>f DEF OverlapInv, OneRowWithoutOverlap
(* A flush ends: nothing is in flight and the new list is empty. *)
<1>b. ASSUME NEW t \in Tasks, pc[t] \in Going, NEW e, EndFlush(t, e), copied' = copied
      PROVE  OverlapInv' /\ OneRowWithoutOverlap'
  <2>1. \A u \in Tasks : pc'[u] \notin Going /\ rows'[u] = {}
    BY <1>b, <1>p, <1>t DEF EndFlush, LeaveFlush
  <2>2. home' = home /\ \A r \in DOMAIN home : home[r] # gen'
    BY <1>b, Replaced
  <2> QED
    BY <1>b, <2>1, <2>2, <1>p, <1>f DEF OverlapInv, OneRowWithoutOverlap
(* The rows of a COPY are all of self.batch's, and new. *)
<1>i. ASSUME NEW t \in Tasks, pc[t] = "commit"
      PROVE  \A r \in Routes : Insert(rows[t])[r] <= 1
  <2>1. \A u \in Tasks : pc[u] \notin {"state", "release"}
    BY <1>i, <1>p
  <2>2. \A r \in rows[t] : r \in DOMAIN home /\ copied[r] = 0
    BY <2>1, <1>p DEF ListsInv
  <2> QED
    BY <2>2, <1>p, <1>t DEF Insert
<1>c. ASSUME NEW t \in Tasks, pc[t] \in {"copy", "commit", "state"}, NEW e, Unwind(t, e),
             StatementMayTakeEffect(t), UNCHANGED <<list, phase, history>>
      PROVE  OverlapInv' /\ OneRowWithoutOverlap'
  <2>1. \A r \in Routes : copied'[r] <= 1
    BY <1>c, <1>i, <1>p DEF StatementMayTakeEffect, db
  <2>2. /\ pc' = [pc EXCEPT ![t] = "release"] /\ rows'[t] = {} /\ UNCHANGED <<home, gen>>
        /\ \A u \in Tasks \ {t} : rows'[u] = rows[u] /\ held'[u] = held[u]
    BY <1>c, <1>t DEF Unwind, list
  <2> QED
    BY <1>c, <2>1, <2>2, <1>a
(* A flush begins: none was in flight. *)
<1>d. ASSUME NEW t \in Tasks, NEW n, BeginFlush(t, n), gen' = gen, copied' = copied,
             \A r \in DOMAIN home : home'[r] = home[r],
             \A r \in DOMAIN home' : home'[r] = gen => copied[r] = 0 \/ r \in DOMAIN home
      PROVE  OverlapInv' /\ OneRowWithoutOverlap'
  <2>1. \A u \in Tasks : pc[u] \notin Going
    BY <1>d, <1>f DEF BeginFlush
  <2>2. \A u \in Tasks : pc'[u] \notin {"copy", "commit", "state", "release"} /\ rows'[u] = {}
    BY <1>d, <2>1, <1>p, <1>t DEF BeginFlush
  <2>3. \A u, v \in Tasks : pc'[u] \in Going /\ pc'[v] \in Going => u = v
    BY <1>d, <2>1, <1>t DEF BeginFlush
  <2>4. \A r \in DOMAIN home : home[r] = gen => copied[r] = 0
    BY <2>1, <1>p
  <2> QED
    BY <1>d, <2>2, <2>3, <2>4, <1>p, <1>f DEF OverlapInv, OneRowWithoutOverlap
(* Nothing starts: tasks stay where they are, or end outside a flush. *)
<1>e. ASSUME UNCHANGED <<home, gen, held, rows, copied>>,
             \A u \in Tasks : pc'[u] = pc[u] \/ (pc'[u] = "gone" /\ pc[u] = "idle")
      PROVE  OverlapInv' /\ OneRowWithoutOverlap'
  <2>1. \A u, v \in Tasks : pc'[u] \in Going /\ pc'[v] \in Going => u = v
    BY <1>e, <1>p
  <2>2. \A u \in Tasks : pc'[u] \in {"copy", "commit"} => held'[u] = gen'
    BY <1>e, <1>p
  <2>3. (\A u \in Tasks : pc'[u] \notin {"state", "release"}) =>
           \A r \in DOMAIN home : home[r] = gen => copied[r] = 0
    BY <1>e, <1>p
  <2> QED
    BY <1>e, <2>1, <2>2, <2>3, <1>p, <1>f DEF OverlapInv, OneRowWithoutOverlap
<1>1. CASE TimerExpires \/ Stop
  BY <1>1, <1>e DEF TimerExpires, Stop, flush, db
<1>2. CASE PeriodicFlush
  BY <1>2, <1>d, <1>t DEF PeriodicFlush, list, db
<1>3. CASE Signal
  <2>1. \A u \in Tasks : pc'[u] = pc[u] \/ (pc'[u] = "gone" /\ pc[u] = "idle")
    BY <1>3, <1>t DEF Signal, ShutdownInv
  <2> QED
    BY <1>3, <2>1, <1>e DEF Signal, list, db
<1>4. CASE FinalFlush
  <2>1. CASE Batch = {}
    <3>1. \A u \in Tasks : pc'[u] = pc[u] \/ (pc'[u] = "gone" /\ pc[u] = "idle")
      BY <1>4, <2>1, <1>t DEF FinalFlush, ShutdownInv
    <3> QED
      BY <1>4, <2>1, <3>1, <1>e DEF FinalFlush, list, db
  <2>2. CASE Batch # {}
    BY <1>4, <2>2, <1>d, <1>t DEF FinalFlush, list, db
  <2> QED
    BY <2>1, <2>2
<1>5. ASSUME NEW t \in Tasks, AddRoute(t) PROVE OverlapInv' /\ OneRowWithoutOverlap'
  <2>1. copied[Len(home) + 1] = 0 /\ copied' = copied
    <3>1. Len(home) + 1 \in Routes
      BY <1>5, <1>t, SizesAssumption DEF AddRoute, Routes
    <3> QED
      BY <1>5, <3>1, <1>t DEF ListsInv, AddRoute, db
  <2>2. \A r \in DOMAIN home' : r \in DOMAIN home \/ r = Len(home) + 1
    BY <1>5, Appended
  <2>3. CASE \E n : BeginFlush(t, n)
    BY <1>5, <2>1, <2>2, <2>3, <1>d, Appended
  <2>4. CASE UNCHANGED flush
    <3>1. \A u \in Tasks : \A r \in rows[u] : home'[r] = gen
      BY <1>5, <1>p, Appended DEF ListsInv
    <3>2. (\A u \in Tasks : pc[u] \notin {"state", "release"}) =>
             \A r \in DOMAIN home' : home'[r] = gen => copied[r] = 0
      BY <1>5, <1>p, <2>1, <2>2, Appended
    <3> QED
      BY <1>5, <2>1, <2>4, <3>1, <3>2, <1>p, <1>f, Appended DEF flush, OverlapInv, OneRowWithoutOverlap
  <2> QED
    BY <1>5, <2>3, <2>4 DEF AddRoute
<1>6. ASSUME NEW t \in Tasks, Acquire(t) PROVE OverlapInv' /\ OneRowWithoutOverlap'
  <2>1. /\ pc[t] = "acquire" /\ pc' = [pc EXCEPT ![t] = "copy"]
        /\ held' = [held EXCEPT ![t] = gen] /\ UNCHANGED <<home, gen, rows, copied>>
    BY <1>6 DEF Acquire, list, db
  <2>2. /\ held'[t] = gen /\ \A r \in rows'[t] : home[r] = gen
        /\ \A u \in Tasks \ {t} : rows'[u] = rows[u] /\ held'[u] = held[u]
        /\ \A r \in Routes : copied'[r] <= 1
    BY <2>1, <1>p, <1>t
  <2> QED
    BY <2>1, <2>2, <1>a
<1>7. ASSUME NEW t \in Tasks, CopyRead(t) PROVE OverlapInv' /\ OneRowWithoutOverlap'
  <2>1. CASE ListAt(held[t]) \cap Unstorable = {}
    <3>1. /\ pc[t] = "copy" /\ pc' = [pc EXCEPT ![t] = "commit"]
          /\ rows' = [rows EXCEPT ![t] = ListAt(held[t])] /\ UNCHANGED <<home, gen, held, copied>>
      BY <1>7, <2>1 DEF CopyRead, list, db
    <3>2. held[t] = gen /\ \A r \in ListAt(held[t]) : home[r] = gen
      BY <3>1, <1>p DEF ListAt
    <3> QED
      BY <3>1, <3>2, <1>a, <1>p, <1>t
  <2>2. CASE ~(ListAt(held[t]) \cap Unstorable = {})
    BY <1>7, <2>2, <1>c DEF CopyRead, StatementMayTakeEffect
  <2> QED
    BY <2>1, <2>2
<1>8. ASSUME NEW t \in Tasks, NEW l, NEW last, LoopOn(t, l, last), pc[t] \in {"commit", "state"},
             UNCHANGED list, \A r \in Routes : copied'[r] <= 1
      PROVE  OverlapInv' /\ OneRowWithoutOverlap'
  <2>1. /\ pc' = [pc EXCEPT ![t] = "release"] \/ pc' = [pc EXCEPT ![t] = "state"]
        /\ rows'[t] = {} /\ UNCHANGED <<home, gen>>
        /\ \A u \in Tasks \ {t} : rows'[u] = rows[u] /\ held'[u] = held[u]
    BY <1>8, <1>t DEF LoopOn, list
  <2> QED
    BY <1>8, <2>1, <1>a
<1>9. ASSUME NEW t \in Tasks, CopyCommit(t) PROVE OverlapInv' /\ OneRowWithoutOverlap'
  BY <1>9, <1>i, <1>8 DEF CopyCommit
<1>10. ASSUME NEW t \in Tasks, UpdateState(t) PROVE OverlapInv' /\ OneRowWithoutOverlap'
  BY <1>10, <1>8, <1>p DEF UpdateState
<1>11. ASSUME NEW t \in Tasks, Release(t) PROVE OverlapInv' /\ OneRowWithoutOverlap'
  BY <1>11, <1>b DEF Release, db
<1>12. ASSUME NEW t \in Tasks, DatabaseFails(t) PROVE OverlapInv' /\ OneRowWithoutOverlap'
  BY <1>12, <1>b, <1>c DEF DatabaseFails, db
<1>13. ASSUME NEW t \in Tasks, Cancelled(t) PROVE OverlapInv' /\ OneRowWithoutOverlap'
  <2>1. CASE pc[t] = "idle"
    <3>1. \A u \in Tasks : pc'[u] = pc[u] \/ (pc'[u] = "gone" /\ pc[u] = "idle")
      BY <1>13, <2>1, <1>t DEF Cancelled, EndTask
    <3> QED
      BY <1>13, <2>1, <3>1, <1>e DEF Cancelled, list, db
  <2>2. CASE pc[t] # "idle"
    BY <1>13, <2>2, <1>b, <1>c DEF Cancelled, db
  <2> QED
    BY <2>1, <2>2
<1>14. CASE UNCHANGED vars
  BY <1>14, <1>e DEF vars, list, flush, db
<1> QED
  BY <1>1, <1>2, <1>3, <1>4, <1>5, <1>6, <1>7, <1>9, <1>10, <1>11, <1>12, <1>13, <1>14
  DEF Next, FlushStep

(* The lists of routes the total is compared with are finite. *)
Countable ==
  /\ IsFiniteSet(StoredBefore) /\ Cardinality(StoredBefore) \in Nat
  /\ IsFiniteSet(StoredNow) /\ Cardinality(StoredNow) \in Nat
  /\ IsFiniteSet(Batch) /\ Cardinality(Batch) \in Nat

LEMMA StoredSize == TypeOK => Countable
<1> SUFFICES ASSUME TypeOK PROVE Countable
  OBVIOUS
<1>1. IsFiniteSet(DOMAIN home)
  <2>1. DOMAIN home = 1..Len(home) /\ Len(home) \in Nat
    BY DEF TypeOK
  <2> QED
    BY <2>1, FS_Interval
<1>2. StoredBefore \subseteq DOMAIN home /\ StoredNow \subseteq DOMAIN home /\ Batch \subseteq DOMAIN home
  BY DEF StoredBefore, StoredNow, Batch, ListAt
<1> QED
  BY <1>1, <1>2, FS_Subset, FS_CardinalityType DEF Countable

LEMMA StoredSizeNext == TypeOK' => Countable'
BY StoredSize, PTL

(* More routes and more rows make these lists longer. *)
LEMMA StoredGrows ==
  ASSUME TypeOK, TypeOK', ListsInv, gen' = gen,
         \A r \in DOMAIN home : r \in DOMAIN home' /\ home'[r] = home[r],
         \A r \in Routes : copied[r] <= copied'[r]
  PROVE  /\ Cardinality(StoredBefore) <= Cardinality(StoredBefore')
         /\ Cardinality(StoredNow) <= Cardinality(StoredNow')
         /\ Cardinality(Batch) <= Cardinality(Batch')
<1>1. DOMAIN home \subseteq Routes /\ copied \in [Routes -> Nat] /\ copied' \in [Routes -> Nat]
  <2>1. DOMAIN home = 1..Len(home) /\ Len(home) \in Nat /\ Len(home) <= MaxRoutes
    BY DEF TypeOK, ListsInv
  <2>2. copied \in [Routes -> Nat] /\ copied' \in [Routes -> Nat]
    BY DEF TypeOK
  <2> QED
    BY <2>1, <2>2, SizesAssumption DEF Routes
<1>2. \A r \in DOMAIN home : copied[r] >= 1 => copied'[r] >= 1
  BY <1>1
<1>3. StoredBefore \subseteq StoredBefore' /\ StoredNow \subseteq StoredNow' /\ Batch \subseteq Batch'
  BY <1>2 DEF StoredBefore, StoredNow, Batch, ListAt
<1>4. IsFiniteSet(StoredBefore') /\ IsFiniteSet(StoredNow') /\ IsFiniteSet(Batch')
  BY StoredSizeNext DEF Countable
<1> QED
  BY <1>3, <1>4, FS_Subset

LEMMA TotalInit == Init => TotalInv
<1> SUFFICES ASSUME Init PROVE TotalInv
  OBVIOUS
<1>1. StoredBefore = {}
  BY DEF Init, StoredBefore
<1>2. \A t \in Tasks : CountCovered(t)
  BY DEF Init, CountCovered
<1> QED
  BY <1>1, <1>2, FS_EmptySet DEF Init, TotalInv

LEMMA TotalStep ==
  TypeOK /\ ListsInv /\ ShutdownInv /\ OverlapInv /\ TotalInv /\ [Next]_vars => TotalInv'
<1> SUFFICES ASSUME TypeOK, ListsInv, ShutdownInv, OverlapInv, TotalInv, [Next]_vars, ~overlapped'
             PROVE  written' <= Cardinality(StoredBefore') /\ \A t \in Tasks : CountCovered(t)'
  BY DEF TotalInv
<1> USE DEF Runs
<1> DEFINE Going == {"acquire", "copy", "commit", "state", "release"}
           Goal == written' <= Cardinality(StoredBefore') /\ \A t \in Tasks : CountCovered(t)'
<1>t. /\ pc \in [Tasks -> Locations] /\ held \in [Tasks -> Nat] /\ rows \in [Tasks -> SUBSET Nat]
      /\ count \in [Tasks -> Nat] /\ exc \in [Tasks -> {"none", "error", "cancelled"}]
      /\ copied \in [Routes -> Nat] /\ gen \in Nat /\ written \in Nat
      /\ DOMAIN home \subseteq Routes /\ Main \in Tasks /\ Periodic \in Tasks
  BY SizesAssumption DEF TypeOK, ListsInv, Routes, Tasks
<1>n. TypeOK'
  BY TypeStep
<1>o. ~overlapped /\ written <= Cardinality(StoredBefore) /\ \A t \in Tasks : CountCovered(t)
  BY OverlapStays DEF TotalInv
<1>p. /\ \A t, u \in Tasks : pc[t] \in Going /\ pc[u] \in Going => t = u
      /\ \A t \in Tasks : pc[t] \in {"copy", "commit"} => held[t] = gen
      /\ \A t \in Tasks : rows[t] \subseteq Batch
  BY <1>o DEF OverlapInv, ListsInv, InFlight, Holding, Batch, ListAt
<1>s. /\ Cardinality(StoredBefore) \in Nat /\ Cardinality(StoredNow) \in Nat /\ Cardinality(Batch) \in Nat
      /\ Cardinality(StoredBefore') \in Nat /\ Cardinality(StoredNow') \in Nat
      /\ Cardinality(Batch') \in Nat
  BY <1>n, StoredSize, StoredSizeNext DEF Countable
(* self.batch stays the same, and only task t moves or none. *)
<1>a. ASSUME gen' = gen, written' = written,
             \A r \in DOMAIN home : r \in DOMAIN home' /\ home'[r] = home[r],
             \A r \in Routes : copied[r] <= copied'[r],
             \A u \in Tasks : \/ CountCovered(u)'
                              \/ pc'[u] = "gone"
                              \/ /\ pc'[u] = pc[u] /\ count'[u] = count[u]
                                 /\ rows'[u] = rows[u] /\ exc'[u] = exc[u]
      PROVE  Goal
  <2>1. /\ Cardinality(StoredBefore) <= Cardinality(StoredBefore')
        /\ Cardinality(StoredNow) <= Cardinality(StoredNow')
        /\ Cardinality(Batch) <= Cardinality(Batch')
    BY <1>a, <1>n, StoredGrows
  <2>2. ASSUME NEW u \in Tasks, pc'[u] = pc[u], count'[u] = count[u],
               rows'[u] = rows[u], exc'[u] = exc[u]
        PROVE  CountCovered(u)'
    <3>1. CountCovered(u) /\ count[u] \in Nat
      BY <1>o, <1>t
    <3> QED
      BY <2>1, <2>2, <3>1, <1>s DEF CountCovered
  <2>3. ASSUME NEW u \in Tasks, pc'[u] = "gone" PROVE CountCovered(u)'
    BY <2>3 DEF CountCovered
  <2>4. written' <= Cardinality(StoredBefore')
    BY <1>a, <1>o, <1>s, <1>t, <2>1
  <2> QED
    BY <1>a, <2>2, <2>3, <2>4
<1> HIDE DEF Goal
<1> SUFFICES Goal
  BY DEF Goal
(* A flush begins with no more routes than self.batch has. *)
<1>b. ASSUME NEW t \in Tasks, NEW n, BeginFlush(t, n), n <= Cardinality(Batch'),
             gen' = gen, written' = written, copied' = copied,
             \A r \in DOMAIN home : r \in DOMAIN home' /\ home'[r] = home[r]
      PROVE  Goal
  <2>1. pc'[t] = "acquire" /\ count'[t] = n
    BY <1>b, <1>t DEF BeginFlush
  <2>2. CountCovered(t)'
    BY <1>b, <2>1 DEF CountCovered
  <2>3. \A u \in Tasks : u = t \/ /\ pc'[u] = pc[u] /\ count'[u] = count[u]
                                  /\ rows'[u] = rows[u] /\ exc'[u] = exc[u]
    BY <1>b, <1>t DEF BeginFlush
  <2>4. \A r \in Routes : copied[r] <= copied'[r]
    BY <1>b, <1>t
  <2> QED
    BY <1>b, <2>2, <2>3, <2>4, <1>a
(* Task t moves within its flush. *)
<1>c. ASSUME NEW t \in Tasks, UNCHANGED list, \A r \in Routes : copied[r] <= copied'[r],
             \A u \in Tasks \ {t} : /\ pc'[u] = pc[u] /\ count'[u] = count[u]
                                    /\ rows'[u] = rows[u] /\ exc'[u] = exc[u],
             CountCovered(t)'
      PROVE  Goal
  BY <1>c, <1>a DEF list
<1>d. ASSUME NEW t \in Tasks, NEW e \in {"error", "cancelled"}, Unwind(t, e),
             StatementMayTakeEffect(t), UNCHANGED list
      PROVE  Goal
  <2>1. pc'[t] = "release" /\ exc'[t] # "none"
    BY <1>d, <1>t DEF Unwind
  <2>2. CountCovered(t)'
    BY <2>1 DEF CountCovered
  <2>3. \A r \in Routes : copied[r] <= copied'[r]
    BY <1>d, <1>t DEF StatementMayTakeEffect, Insert, db
  <2>4. \A u \in Tasks \ {t} : /\ pc'[u] = pc[u] /\ count'[u] = count[u]
                               /\ rows'[u] = rows[u] /\ exc'[u] = exc[u]
    BY <1>d, <1>t DEF Unwind
  <2> QED
    BY <1>d, <2>2, <2>3, <2>4, <1>c
(* The loop goes on, with all that was counted committed. *)
<1>e. ASSUME NEW t \in Tasks, NEW l, NEW last, LoopOn(t, l, last), UNCHANGED list,
             \A r \in Routes : copied[r] <= copied'[r], count[t] <= Cardinality(StoredNow')
      PROVE  Goal
  <2>1. pc'[t] \in {"state", "release"} /\ count'[t] = count[t]
    BY <1>e, <1>t DEF LoopOn
  <2>2. CountCovered(t)'
    BY <1>e, <2>1 DEF CountCovered
  <2>3. \A u \in Tasks \ {t} : /\ pc'[u] = pc[u] /\ count'[u] = count[u]
                               /\ rows'[u] = rows[u] /\ exc'[u] = exc[u]
    BY <1>e, <1>t DEF LoopOn
  <2> QED
    BY <1>e, <2>2, <2>3, <1>c
(* A flush ends: what self.batch had stored is of a replaced list now. *)
<1>f. ASSUME NEW t \in Tasks, NEW e, EndFlush(t, e), copied' = copied, pc[t] \in Going,
             e = "none" => pc[t] = "release" /\ exc[t] = "none"
      PROVE  Goal
  <2>1. \A u \in Tasks : pc'[u] \notin Going
    BY <1>f, <1>p, <1>t DEF EndFlush, LeaveFlush
  <2>2. gen' = gen + 1 /\ home' = home /\ \A r \in DOMAIN home : home[r] # gen'
    BY <1>f, Replaced
  <2>3. StoredBefore' = StoredBefore \cup StoredNow
    BY <1>f, <2>2 DEF StoredBefore, StoredNow
  <2>4. StoredBefore \cap StoredNow = {}
    BY DEF StoredBefore, StoredNow
  <2>5. Cardinality(StoredBefore') = Cardinality(StoredBefore) + Cardinality(StoredNow)
    <3>1. IsFiniteSet(StoredBefore) /\ IsFiniteSet(StoredNow)
      BY StoredSize DEF Countable
    <3>2. Cardinality(StoredBefore \cup StoredNow) =
            Cardinality(StoredBefore) + Cardinality(StoredNow) - Cardinality(StoredBefore \cap StoredNow)
      BY <3>1, FS_Union
    <3>3. Cardinality(StoredBefore \cap StoredNow) = 0
      BY <2>4, FS_EmptySet
    <3> QED
      BY <2>3, <3>2, <3>3, <1>s
  <2>6. e = "none" => count[t] <= Cardinality(StoredNow)
    BY <1>f, <1>o DEF CountCovered
  <2>7. written' = written \/ (e = "none" /\ written' = written + count[t])
    BY <1>f DEF EndFlush, TotalAfter
  <2>8. written' <= Cardinality(StoredBefore')
    BY <1>o, <1>s, <1>t, <2>5, <2>6, <2>7
  <2>9. \A u \in Tasks : CountCovered(u)'
    BY <2>1 DEF CountCovered
  <2> QED
    BY <2>8, <2>9 DEF Goal
(* Nothing moves but tasks that end outside a flush. *)
<1>g. ASSUME UNCHANGED <<home, gen, written, count, rows, exc, copied>>,
             \A u \in Tasks : pc'[u] = pc[u] \/ pc'[u] = "gone"
      PROVE  Goal
  <2>1. \A r \in Routes : copied[r] <= copied'[r]
    BY <1>g, <1>t
  <2> QED
    BY <1>g, <2>1, <1>a
<1>1. CASE TimerExpires \/ Stop
  BY <1>1, <1>g DEF TimerExpires, Stop, flush, db
<1>2. CASE PeriodicFlush
  <2>1. Cardinality(Batch) <= Cardinality(Batch')
    <3>1. Batch' = Batch
      BY <1>2 DEF PeriodicFlush, list, Batch, ListAt
    <3> QED
      BY <3>1, <1>s
  <2> QED
    BY <1>2, <2>1, <1>b, <1>t DEF PeriodicFlush, list, db
<1>3. CASE Signal
  BY <1>3, <1>g, <1>t DEF Signal, list, db
<1>4. CASE FinalFlush
  <2>1. CASE Batch = {}
    BY <1>4, <2>1, <1>g, <1>t DEF FinalFlush, list, db
  <2>2. CASE Batch # {}
    <3>1. Cardinality(Batch) <= Cardinality(Batch')
      <4>1. Batch' = Batch
        BY <1>4 DEF FinalFlush, list, Batch, ListAt
      <4> QED
        BY <4>1, <1>s
    <3> QED
      BY <1>4, <2>2, <3>1, <1>b, <1>t DEF FinalFlush, list, db
  <2> QED
    BY <2>1, <2>2
<1>5. ASSUME NEW t \in Tasks, AddRoute(t) PROVE Goal
  <2>1. /\ gen' = gen /\ written' = written /\ copied' = copied
        /\ \A r \in DOMAIN home : r \in DOMAIN home' /\ home'[r] = home[r]
    BY <1>5, Appended DEF AddRoute, db
  <2>2. Cardinality(Batch') = Cardinality(Batch) + 1
    <3>1. Batch' = Batch \cup {Len(home) + 1}
      BY <1>5, Appended DEF Batch, ListAt
    <3>2. Len(home) + 1 \notin Batch
      BY <1>5, Appended DEF Batch, ListAt
    <3> QED
      BY <3>1, <3>2, StoredSize, FS_AddElement DEF Countable
  <2>3. CASE BeginFlush(t, Cardinality(Batch) + 1)
    <3>1. Cardinality(Batch) + 1 <= Cardinality(Batch')
      BY <2>2, <1>s
    <3> QED
      BY <2>1, <2>3, <3>1, <1>b
  <2>4. CASE UNCHANGED flush
    BY <2>1, <2>4, <1>a, <1>t DEF flush
  <2> QED
    BY <1>5, <2>3, <2>4 DEF AddRoute
<1>6. ASSUME NEW t \in Tasks, Acquire(t) PROVE Goal
  <2>1. /\ pc[t] = "acquire" /\ pc' = [pc EXCEPT ![t] = "copy"]
        /\ UNCHANGED <<count, rows, exc, copied, list>>
    BY <1>6 DEF Acquire, db
  <2>2. Batch' = Batch
    BY <2>1 DEF list, Batch, ListAt
  <2>3. CountCovered(t)'
    <3>1. pc'[t] = "copy" /\ count[t] <= Cardinality(Batch)
      BY <2>1, <1>o, <1>t DEF CountCovered
    <3> QED
      BY <2>1, <2>2, <3>1 DEF CountCovered
  <2>4. \A u \in Tasks \ {t} : pc'[u] = pc[u] /\ count'[u] = count[u] /\ rows'[u] = rows[u] /\ exc'[u] = exc[u]
    BY <2>1, <1>t
  <2>5. \A r \in Routes : copied[r] <= copied'[r]
    BY <2>1, <1>t
  <2> QED
    BY <2>1, <2>3, <2>4, <2>5, <1>c
<1>7. ASSUME NEW t \in Tasks, CopyRead(t) PROVE Goal
  <2>1. CASE ListAt(held[t]) \cap Unstorable = {}
    <3>1. /\ pc[t] = "copy" /\ pc' = [pc EXCEPT ![t] = "commit"]
          /\ rows' = [rows EXCEPT ![t] = ListAt(held[t])] /\ UNCHANGED <<count, exc, copied, list>>
      BY <1>7, <2>1 DEF CopyRead, db
    <3>2. ListAt(held[t]) = Batch
      BY <3>1, <1>p DEF Batch
    <3>3. pc'[t] = "commit" /\ rows'[t] = Batch /\ count'[t] <= Cardinality(Batch)
      BY <3>1, <3>2, <1>o, <1>t DEF CountCovered
    <3>4. CountCovered(t)'
      BY <3>3 DEF CountCovered
    <3>5. \A u \in Tasks \ {t} : pc'[u] = pc[u] /\ count'[u] = count[u] /\ rows'[u] = rows[u] /\ exc'[u] = exc[u]
      BY <3>1, <1>t
    <3>6. \A r \in Routes : copied[r] <= copied'[r]
      BY <3>1, <1>t
    <3> QED
      BY <3>1, <3>4, <3>5, <3>6, <1>c
  <2>2. CASE ~(ListAt(held[t]) \cap Unstorable = {})
    BY <1>7, <2>2, <1>d DEF CopyRead, StatementMayTakeEffect
  <2> QED
    BY <2>1, <2>2
<1>8. ASSUME NEW t \in Tasks, CopyCommit(t) PROVE Goal
  <2>1. /\ pc[t] = "commit" /\ copied' = Insert(rows[t]) /\ LoopOn(t, gen, 0) /\ UNCHANGED list
    BY <1>8 DEF CopyCommit
  <2>2. \A r \in Routes : copied[r] <= copied'[r] /\ (r \in rows[t] => copied'[r] >= 1)
    BY <2>1, <1>t DEF Insert
  <2>3. rows[t] \subseteq StoredNow'
    <3>1. \A r \in rows[t] : r \in DOMAIN home /\ home[r] = gen /\ r \in Routes
      BY <1>p, <1>t DEF Batch, ListAt
    <3> QED
      BY <2>1, <2>2, <3>1 DEF StoredNow, list
  <2>4. IsFiniteSet(StoredNow')
    BY <1>n, StoredSizeNext DEF Countable
  <2>5. Cardinality(rows[t]) <= Cardinality(StoredNow') /\ Cardinality(rows[t]) \in Nat
    BY <2>3, <2>4, FS_Subset, FS_CardinalityType
  <2>6. count[t] <= Cardinality(rows[t]) /\ count[t] \in Nat
    BY <2>1, <1>o, <1>t DEF CountCovered
  <2>7. count[t] <= Cardinality(StoredNow')
    BY <2>5, <2>6, <1>s
  <2> QED
    BY <2>1, <2>2, <2>7, <1>e
<1>9. ASSUME NEW t \in Tasks, UpdateState(t) PROVE Goal
  <2>1. pc[t] = "state" /\ LoopOn(t, held[t], at[t]) /\ UNCHANGED list /\ copied' = copied
    BY <1>9 DEF UpdateState
  <2>2. StoredNow' = StoredNow
    BY <2>1 DEF StoredNow, list
  <2>3. count[t] <= Cardinality(StoredNow')
    BY <2>1, <2>2, <1>o DEF CountCovered
  <2>4. \A r \in Routes : copied[r] <= copied'[r]
    BY <2>1, <1>t
  <2> QED
    BY <2>1, <2>3, <2>4, <1>e
<1>10. ASSUME NEW t \in Tasks, Release(t) PROVE Goal
  BY <1>10, <1>f DEF Release, db
<1>11. ASSUME NEW t \in Tasks, DatabaseFails(t) PROVE Goal
  BY <1>11, <1>d, <1>f DEF DatabaseFails, db
<1>12. ASSUME NEW t \in Tasks, Cancelled(t) PROVE Goal
  <2>1. CASE pc[t] = "idle"
    BY <1>12, <2>1, <1>g, <1>t DEF Cancelled, EndTask, list, db
  <2>2. CASE pc[t] # "idle"
    BY <1>12, <2>2, <1>d, <1>f DEF Cancelled, db
  <2> QED
    BY <2>1, <2>2
<1>13. CASE UNCHANGED vars
  BY <1>13, <1>g DEF vars, list, flush, db
<1> QED
  BY <1>1, <1>2, <1>3, <1>4, <1>5, <1>6, <1>7, <1>8, <1>9, <1>10, <1>11, <1>12, <1>13
  DEF Next, FlushStep

LEMMA StateInit == Init => StateInv
BY DEF Init, StateInv

LEMMA StateStep ==
  TypeOK /\ ListsInv /\ ShutdownInv /\ OverlapInv /\ StateInv /\ [Next]_vars => StateInv'
<1> SUFFICES ASSUME TypeOK, ListsInv, ShutdownInv, OverlapInv, StateInv, [Next]_vars
             PROVE  StateInv'
  OBVIOUS
<1> USE DEF Runs
<1>t. /\ pc \in [Tasks -> Locations] /\ at \in [Tasks -> Nat] /\ shown \in [Prefixes -> Nat]
      /\ gen \in Nat /\ Len(home) \in Nat /\ DOMAIN home = 1..Len(home)
      /\ \A l : ListAt(l) \subseteq DOMAIN home
      /\ Main \in Tasks /\ Periodic \in Tasks
  BY DEF TypeOK, ListAt, Tasks
<1>o. ~overlapped' => ~overlapped
  BY OverlapStays
<1>p. ~overlapped => \A t, u \in Tasks : pc[t] \in Holding /\ pc[u] \in Holding => t = u
  BY DEF OverlapInv, InFlight
<1>s. /\ \A p \in Prefixes : shown[p] <= Len(home)
      /\ \A t \in Tasks : pc[t] = "state" => at[t] \in DOMAIN home
      /\ ~overlapped => \A t \in Tasks : pc[t] = "state" => \A p \in Prefixes : shown[p] <= at[t]
      /\ ~overlapped /\ (\A t \in Tasks : pc[t] \notin {"state", "release"}) =>
           \A r \in DOMAIN home : home[r] = gen => \A p \in Prefixes : shown[p] < r
  BY DEF StateInv
(* The loop's route is what route_state is about to show. *)
<1>u. ASSUME NEW t \in Tasks, pc[t] = "state", NEW p \in Prefixes
      PROVE  /\ Shown(at[t])[p] <= Len(home)
             /\ ~overlapped => Shown(at[t])[p] <= at[t]
  BY <1>u, <1>s, <1>t DEF Shown
(* No loop starts, and routes only arrive. *)
<1>a. ASSUME \A u \in Tasks : pc'[u] = "state" => pc[u] = "state" /\ at'[u] = at[u],
             (\A u \in Tasks : pc'[u] \notin {"state", "release"}) =>
               \A u \in Tasks : pc[u] \notin {"state", "release"},
             shown' = shown, gen' = gen, Len(home') \in Nat, Len(home') >= Len(home),
             DOMAIN home \subseteq DOMAIN home',
             \A r \in DOMAIN home : home'[r] = home[r],
             \A r \in DOMAIN home' : r \in DOMAIN home \/ r = Len(home) + 1
      PROVE  StateInv'
  <2>1. \A p \in Prefixes : shown'[p] <= Len(home')
    BY <1>a, <1>s, <1>t
  <2>2. \A u \in Tasks : pc'[u] = "state" => at'[u] \in DOMAIN home'
    BY <1>a, <1>s
  <2>3. ~overlapped => \A u \in Tasks : pc'[u] = "state" => \A p \in Prefixes : shown'[p] <= at'[u]
    BY <1>a, <1>s
  <2>4. ~overlapped /\ (\A u \in Tasks : pc'[u] \notin {"state", "release"}) =>
          \A r \in DOMAIN home' : home'[r] = gen' => \A p \in Prefixes : shown'[p] < r
    BY <1>a, <1>s, <1>t
  <2> QED
    BY <1>o, <2>1, <2>2, <2>3, <2>4 DEF StateInv
(* A flush ends: the new list is empty. *)
<1>b. ASSUME NEW t \in Tasks, NEW e, EndFlush(t, e), shown' = shown PROVE StateInv'
  <2>1. \A u \in Tasks : pc'[u] = "state" => pc[u] = "state" /\ at'[u] = at[u]
    BY <1>b, <1>t DEF EndFlush, LeaveFlush
  <2>2. home' = home /\ \A r \in DOMAIN home : home[r] # gen'
    BY <1>b, Replaced
  <2> QED
    BY <1>b, <1>o, <1>s, <2>1, <2>2 DEF StateInv
(* A flush unwinds: it leaves the loop. *)
<1>c. ASSUME NEW t \in Tasks, pc[t] \in {"copy", "commit", "state"}, NEW e, Unwind(t, e),
             StatementMayTakeEffect(t), UNCHANGED <<list, phase, history>>
      PROVE  StateInv'
  <2>1. /\ pc'[t] = "release" /\ home' = home
        /\ \A u \in Tasks : pc'[u] = "state" => u # t /\ pc[u] = "state" /\ at'[u] = at[u]
    BY <1>c, <1>t DEF Unwind, list
  <2>2. ~overlapped => \A u \in Tasks : pc'[u] # "state"
    BY <1>c, <1>p, <2>1 DEF Holding
  <2>3. shown' = shown \/ (pc[t] = "state" /\ shown' = Shown(at[t]))
    BY <1>c DEF StatementMayTakeEffect, db
  <2>4. \A p \in Prefixes : shown'[p] <= Len(home)
    BY <2>3, <1>u, <1>s
  <2> QED
    BY <2>1, <2>2, <2>4, <1>o, <1>s DEF StateInv
(* A flush in its loop takes the next route or leaves the loop. *)
<1>d. ASSUME NEW t \in Tasks, pc[t] \in {"commit", "state"}, NEW l, NEW last \in Nat,
             LoopOn(t, l, last), home' = home, gen' = gen,
             \A p \in Prefixes : shown'[p] <= Len(home),
             ~overlapped => \A q \in ListAt(l), p \in Prefixes : q > last => shown'[p] <= q
      PROVE  StateInv'
  <2>1. \/ pc' = [pc EXCEPT ![t] = "release"] /\ at' = [at EXCEPT ![t] = 0]
        \/ \E q \in ListAt(l) : /\ q > last
                                /\ pc' = [pc EXCEPT ![t] = "state"]
                                /\ at' = [at EXCEPT ![t] = q]
    BY <1>d DEF LoopOn
  <2>2. /\ pc'[t] \in {"state", "release"}
        /\ pc'[t] = "state" => at'[t] \in ListAt(l) /\ at'[t] > last
        /\ \A u \in Tasks \ {t} : pc'[u] = pc[u] /\ at'[u] = at[u]
    BY <2>1, <1>t
  <2>3. ~overlapped => \A u \in Tasks \ {t} : pc'[u] # "state"
    BY <1>d, <1>p, <2>2 DEF Holding
  <2>4. \A u \in Tasks : pc'[u] = "state" => at'[u] \in DOMAIN home
    BY <2>2, <1>s, <1>t
  <2>5. ~overlapped => \A u \in Tasks : pc'[u] = "state" => \A p \in Prefixes : shown'[p] <= at'[u]
    BY <1>d, <2>2, <2>3
  <2> QED
    BY <1>d, <1>o, <2>2, <2>4, <2>5 DEF StateInv
<1>1. CASE TimerExpires \/ Stop
  BY <1>1, <1>a, <1>t DEF TimerExpires, Stop, flush, db
<1>2. CASE PeriodicFlush
  <2>1. \A u \in Tasks : pc'[u] = pc[u] \/ (pc'[u] = "acquire" /\ pc[u] = "idle")
    BY <1>2, <1>t DEF PeriodicFlush, BeginFlush
  <2> QED
    BY <1>2, <2>1, <1>a, <1>t DEF PeriodicFlush, BeginFlush, list, db
<1>3. CASE Signal
  <2>1. \A u \in Tasks : pc'[u] = pc[u] \/ (pc'[u] = "gone" /\ pc[u] = "idle")
    BY <1>3, <1>t DEF Signal, ShutdownInv
  <2> QED
    BY <1>3, <2>1, <1>a, <1>t DEF Signal, list, db
<1>4. CASE FinalFlush
  <2>1. \A u \in Tasks : pc'[u] = pc[u] \/ (pc'[u] \in {"acquire", "gone"} /\ pc[u] = "idle")
    BY <1>4, <1>t DEF FinalFlush, BeginFlush, ShutdownInv
  <2>2. at' = at
    BY <1>4 DEF FinalFlush, BeginFlush
  <2> QED
    BY <1>4, <2>1, <2>2, <1>a, <1>t DEF FinalFlush, list, db
<1>5. ASSUME NEW t \in Tasks, AddRoute(t) PROVE StateInv'
  <2>1. \A u \in Tasks : pc'[u] = pc[u] \/ (pc'[u] = "acquire" /\ pc[u] = "idle")
    <3>1. (pc' = pc \/ pc' = [pc EXCEPT ![t] = "acquire"]) /\ pc[t] = "idle"
      BY <1>5 DEF AddRoute, BeginFlush, flush
    <3> QED
      BY <3>1, <1>t
  <2>2. at' = at /\ shown' = shown
    BY <1>5 DEF AddRoute, BeginFlush, flush, db
  <2>3. \A r \in DOMAIN home' : r \in DOMAIN home \/ r = Len(home) + 1
    BY <1>5, Appended
  <2>4. Len(home') \in Nat /\ Len(home') >= Len(home) /\ DOMAIN home \subseteq DOMAIN home'
    BY <1>5, Appended
  <2> QED
    BY <1>5, <2>1, <2>2, <2>3, <2>4, <1>a, Appended
<1>6. ASSUME NEW t \in Tasks, Acquire(t) PROVE StateInv'
  <2>1. \A u \in Tasks : pc'[u] = pc[u] \/ (pc'[u] = "copy" /\ pc[u] = "acquire")
    BY <1>6, <1>t DEF Acquire
  <2> QED
    BY <1>6, <2>1, <1>a, <1>t DEF Acquire, list, db
<1>7. ASSUME NEW t \in Tasks, CopyRead(t) PROVE StateInv'
  <2>1. CASE ListAt(held[t]) \cap Unstorable = {}
    <3>1. \A u \in Tasks : pc'[u] = pc[u] \/ (pc'[u] = "commit" /\ pc[u] = "copy")
      BY <1>7, <2>1, <1>t DEF CopyRead
    <3> QED
      BY <1>7, <2>1, <3>1, <1>a, <1>t DEF CopyRead, list, db
  <2>2. CASE ~(ListAt(held[t]) \cap Unstorable = {})
    BY <1>7, <2>2, <1>c DEF CopyRead, StatementMayTakeEffect
  <2> QED
    BY <2>1, <2>2
<1>8. ASSUME NEW t \in Tasks, CopyCommit(t) PROVE StateInv'
  <2>1. pc[t] = "commit" /\ LoopOn(t, gen, 0) /\ home' = home /\ gen' = gen /\ shown' = shown
    BY <1>8 DEF CopyCommit, list
  <2>2. ~overlapped => \A u \in Tasks : pc[u] \notin {"state", "release"}
    BY <2>1, <1>p DEF Holding
  <2>3. ~overlapped => \A q \in ListAt(gen), p \in Prefixes : shown[p] <= q
    BY <2>2, <1>s, <1>t DEF ListAt
  <2> QED
    BY <2>1, <2>3, <1>d, <1>s
<1>9. ASSUME NEW t \in Tasks, UpdateState(t) PROVE StateInv'
  <2>1. /\ pc[t] = "state" /\ LoopOn(t, held[t], at[t]) /\ home' = home /\ gen' = gen
        /\ shown' = Shown(at[t]) /\ at[t] \in Nat
    BY <1>9, <1>t DEF UpdateState, list
  <2>2. \A p \in Prefixes : shown'[p] <= Len(home)
    BY <2>1, <1>u
  <2>3. \A p \in Prefixes : shown'[p] \in Nat
    BY <2>1, <1>t, ShownType
  <2>4. ~overlapped => \A q \in ListAt(held[t]), p \in Prefixes : q > at[t] => shown'[p] <= q
    BY <2>1, <2>3, <1>u, <1>t
  <2> QED
    BY <2>1, <2>2, <2>4, <1>d
<1>10. ASSUME NEW t \in Tasks, Release(t) PROVE StateInv'
  BY <1>10, <1>b DEF Release, db
<1>11. ASSUME NEW t \in Tasks, DatabaseFails(t) PROVE StateInv'
  BY <1>11, <1>b, <1>c DEF DatabaseFails, db
<1>12. ASSUME NEW t \in Tasks, Cancelled(t) PROVE StateInv'
  <2>1. CASE pc[t] = "idle"
    <3>1. \A u \in Tasks : pc'[u] = pc[u] \/ (pc'[u] = "gone" /\ pc[u] = "idle")
      BY <1>12, <2>1, <1>t DEF Cancelled, EndTask
    <3> QED
      BY <1>12, <2>1, <3>1, <1>a, <1>t DEF Cancelled, list, db
  <2>2. CASE pc[t] # "idle"
    BY <1>12, <2>2, <1>b, <1>c DEF Cancelled, db
  <2> QED
    BY <2>1, <2>2
<1>13. CASE UNCHANGED vars
  BY <1>13, <1>a, <1>t DEF vars, list, flush, db
<1> QED
  BY <1>1, <1>2, <1>3, <1>4, <1>5, <1>6, <1>7, <1>8, <1>9, <1>10, <1>11, <1>12, <1>13
  DEF Next, FlushStep

-----------------------------------------------------------------------------
(* IInv is an inductive invariant of the specification. *)
THEOREM Inductive == Spec => []IInv
<1>1. Init => IInv
  BY TypeInit, ListsInit, TimerInit, WindowInit, OverlapInit, StateInit, ShutdownInit DEF IInv
<1>2. IInv /\ [Next]_vars => IInv'
  BY TypeStep, ListsStep, TimerStep, WindowStep, SafeStep, OverlapStep, StateStep, ShutdownStep DEF IInv
<1> QED
  BY <1>1, <1>2, PTL DEF Spec

(* No batch is stranded, whatever the tasks do: see TimerTracksBatch.        *)
THEOREM NoBatchStranded == Spec => []TimerTracksBatch
<1>1. IInv => TimerTracksBatch
  BY DEF IInv
<1> QED
  BY <1>1, Inductive, PTL

(* Outside the window a flush opens by reading its list, and apart from the  *)
(* list a raising flush gives up, the writer loses nothing, for any number  *)
(* of connections, failures and signals.                                    *)
THEOREM LossWindow == Spec => []SafeRoutesAreWritten
<1>1. IInv => SafeRoutesAreWritten
  BY DEF IInv
<1> QED
  BY <1>1, Inductive, PTL

(* Duplicate rows come from overlapping flushes and from nothing else.       *)
THEOREM DuplicatesNeedOverlap == Spec => []OneRowWithoutOverlap
<1>1. IInv => OneRowWithoutOverlap
  BY DEF IInv
<1> QED
  BY <1>1, Inductive, PTL

(* Without overlap, the total is never ahead of route_updates, whatever fails  *)
(* and whenever a signal comes.                                             *)
THEOREM TotalNeverAhead == Spec => []TotalIsWritten
<1>1. TypeOK /\ ListsInv /\ TotalInv => TotalIsWritten
  <2> SUFFICES ASSUME TypeOK, ListsInv, TotalInv, ~overlapped
               PROVE  written <= Cardinality(Stored)
    BY DEF TotalIsWritten
  <2>1. DOMAIN home \subseteq Routes
    BY SizesAssumption DEF TypeOK, ListsInv, Routes
  <2>2. StoredBefore \subseteq Stored
    BY <2>1 DEF StoredBefore, Stored
  <2>3. IsFiniteSet(Routes)
    BY FS_Interval, SizesAssumption DEF Routes
  <2>4. Stored \subseteq Routes
    BY DEF Stored
  <2>5. IsFiniteSet(Stored) /\ Cardinality(Stored) \in Nat
    BY <2>3, <2>4, FS_Subset, FS_CardinalityType
  <2>6. Cardinality(StoredBefore) <= Cardinality(Stored)
    BY <2>2, <2>5, FS_Subset
  <2>7. written <= Cardinality(StoredBefore) /\ written \in Nat
    BY DEF TotalInv, TypeOK
  <2> QED
    BY <2>5, <2>6, <2>7, StoredSize DEF Countable
<1>2. IInv /\ TotalInv /\ [Next]_vars => TotalInv'
  BY TotalStep DEF IInv
<1>3. IInv => TypeOK /\ ListsInv
  BY DEF IInv
<1> QED
  BY <1>1, <1>2, <1>3, TotalInit, Inductive, PTL DEF Spec

(* stop() that returns or raises has outlived every task and every batch.    *)
THEOREM StopIsFinal == Spec => []StopLeavesNothingBehind
<1>1. IInv => StopLeavesNothingBehind
  BY DEF IInv, ShutdownInv, StopLeavesNothingBehind, Tasks
<1> QED
  BY <1>1, Inductive, PTL

(* With flushes that do not overlap, failures, cancellations and retries     *)
(* never make route_state show an older update of a prefix than it did.     *)
THEOREM StateNeverGoesBack == Spec => StateMovesForward
<1>1. IInv /\ [Next]_vars => [overlapped \/ \A p \in Prefixes : shown[p] <= shown'[p]]_vars
  <2> SUFFICES ASSUME TypeOK, StateInv, Next, ~overlapped, NEW p \in Prefixes
               PROVE  shown[p] <= shown'[p]
    BY DEF IInv
  <2>1. shown' = shown \/ \E t \in Tasks : pc[t] = "state" /\ shown' = Shown(at[t])
    <3>1. CASE TimerExpires \/ PeriodicFlush \/ Signal \/ Stop \/ FinalFlush
      BY <3>1 DEF TimerExpires, PeriodicFlush, Signal, Stop, FinalFlush, db
    <3>2. ASSUME NEW t \in Tasks, AddRoute(t) \/ FlushStep(t)
          PROVE  shown' = shown \/ (pc[t] = "state" /\ shown' = Shown(at[t]))
      BY <3>2 DEF AddRoute, FlushStep, Acquire, CopyRead, CopyCommit, UpdateState, Release, db
    <3>3. ASSUME NEW t \in Tasks, DatabaseFails(t) \/ Cancelled(t)
          PROVE  shown' = shown \/ (pc[t] = "state" /\ shown' = Shown(at[t]))
      BY <3>3 DEF DatabaseFails, Cancelled, StatementMayTakeEffect, db
    <3> QED
      BY <3>1, <3>2, <3>3 DEF Next
  <2>2. shown \in [Prefixes -> Nat]
    BY DEF TypeOK
  <2>3. ASSUME NEW t \in Tasks, pc[t] = "state"
        PROVE  /\ \A q \in Prefixes : shown[q] <= at[t]
               /\ Shown(at[t])[p] = shown[p] \/ Shown(at[t])[p] = at[t]
    BY <2>2, <2>3 DEF StateInv, Shown
  <2> QED
    BY <2>1, <2>2, <2>3
<1> QED
  BY <1>1, Inductive, PTL DEF Spec, StateMovesForward

-----------------------------------------------------------------------------
LEMMA OrderInit == Init => OrderInv
BY DEF Init, OrderInv

(* A step that changes no list and leaves or drops rows keeps their order.     *)
LEMMA OrderKept ==
  ASSUME OrderInv, UNCHANGED <<home, gen>>,
         \A u \in Tasks : rows'[u] = rows[u] \/ rows'[u] = {}
  PROVE  OrderInv'
<1>1. Batch' = Batch
  BY DEF Batch, ListAt
<1> QED
  BY <1>1 DEF OrderInv

LEMMA OrderStep == TypeOK /\ ListsInv /\ OrderInv /\ [Next]_vars => OrderInv'
<1> SUFFICES ASSUME TypeOK, ListsInv, OrderInv, [Next]_vars PROVE OrderInv'
  OBVIOUS
<1>t. /\ rows \in [Tasks -> SUBSET Nat] /\ gen \in Nat /\ Len(home) \in Nat
      /\ DOMAIN home = 1..Len(home) /\ \A r \in DOMAIN home : home[r] \in Nat
  BY DEF TypeOK
<1>l. /\ \A r \in DOMAIN home : home[r] <= gen
      /\ \A u \in Tasks : rows[u] \subseteq DOMAIN home
  BY DEF ListsInv
<1>o. /\ \A r, q \in DOMAIN home : r < q => home[r] <= home[q]
      /\ \A u \in Tasks : \A r \in rows[u], q \in Batch \ rows[u] : r < q
  BY DEF OrderInv
(* A flush ends: self.batch is empty. *)
<1>b. ASSUME NEW t \in Tasks, NEW e, EndFlush(t, e) PROVE OrderInv'
  <2>1. home' = home /\ Batch' = {}
    BY <1>b, Replaced
  <2> QED
    BY <2>1, <1>o DEF OrderInv
<1>c. ASSUME NEW t \in Tasks, NEW e, Unwind(t, e), UNCHANGED list PROVE OrderInv'
  <2>1. \A u \in Tasks : rows'[u] = rows[u] \/ rows'[u] = {}
    BY <1>c, <1>t DEF Unwind
  <2> QED
    BY <1>c, <2>1, OrderKept DEF list
<1>d. ASSUME NEW t \in Tasks, NEW l, NEW last, LoopOn(t, l, last), UNCHANGED list PROVE OrderInv'
  <2>1. \A u \in Tasks : rows'[u] = rows[u] \/ rows'[u] = {}
    BY <1>d, <1>t DEF LoopOn
  <2> QED
    BY <1>d, <2>1, OrderKept DEF list
<1>1. CASE TimerExpires \/ Signal \/ Stop
  BY <1>1, OrderKept DEF TimerExpires, Signal, Stop, list, flush
<1>2. CASE PeriodicFlush \/ FinalFlush
  BY <1>2, OrderKept DEF PeriodicFlush, FinalFlush, BeginFlush, list
<1>3. ASSUME NEW t \in Tasks, AddRoute(t) PROVE OrderInv'
  <2>1. rows' = rows
    BY <1>3 DEF AddRoute, BeginFlush, flush
  <2>2. \A q \in DOMAIN home' : q \in DOMAIN home \/ q = Len(home) + 1
    BY <1>3, Appended
  <2>3. \A r, q \in DOMAIN home' : r < q => home'[r] <= home'[q]
    <3>1. ASSUME NEW r \in DOMAIN home', NEW q \in DOMAIN home', r < q PROVE home'[r] <= home'[q]
      <4>1. r \in DOMAIN home
        BY <1>3, <1>t, <3>1, Appended
      <4>2. CASE q \in DOMAIN home
        BY <1>3, <1>o, <3>1, <4>1, <4>2, Appended
      <4>3. CASE q = Len(home) + 1
        BY <1>3, <1>l, <4>1, <4>3, Appended
      <4> QED
        BY <2>2, <4>2, <4>3
    <3> QED
      BY <3>1
  <2>4. ASSUME NEW u \in Tasks, NEW r \in rows[u], NEW q \in Batch' \ rows[u] PROVE r < q
    <3>1. r \in DOMAIN home /\ q \in DOMAIN home'
      BY <1>l DEF Batch, ListAt
    <3>2. CASE q \in DOMAIN home
      <4>1. q \in Batch
        BY <1>3, <2>4, <3>2, Appended DEF Batch, ListAt
      <4> QED
        BY <1>o, <2>4, <4>1
    <3>3. CASE q = Len(home) + 1
      BY <1>t, <3>1, <3>3
    <3> QED
      BY <2>2, <3>1, <3>2, <3>3
  <2> QED
    BY <2>1, <2>3, <2>4 DEF OrderInv
<1>4. ASSUME NEW t \in Tasks, Acquire(t) PROVE OrderInv'
  BY <1>4, OrderKept DEF Acquire, list
<1>5. ASSUME NEW t \in Tasks, CopyRead(t) PROVE OrderInv'
  <2>1. CASE ListAt(held[t]) \cap Unstorable = {}
    <3>1. rows' = [rows EXCEPT ![t] = ListAt(held[t])] /\ home' = home /\ gen' = gen
      BY <1>5, <2>1 DEF CopyRead, list
    <3>2. Batch' = Batch
      BY <3>1 DEF Batch, ListAt
    <3>3. ASSUME NEW r \in ListAt(held[t]), NEW q \in Batch \ ListAt(held[t]) PROVE r < q
      <4>1. r \in DOMAIN home /\ q \in DOMAIN home /\ home[r] # home[q] /\ home[q] = gen
        BY <3>3 DEF Batch, ListAt
      <4>2. home[r] < home[q]
        BY <4>1, <1>l, <1>t
      <4>3. ~(q < r) /\ q # r
        BY <4>1, <4>2, <1>o, <1>t
      <4> QED
        BY <4>1, <4>3, <1>t
    <3> QED
      BY <3>1, <3>2, <3>3, <1>o, <1>t DEF OrderInv
  <2>2. CASE ~(ListAt(held[t]) \cap Unstorable = {})
    BY <1>5, <2>2, <1>c DEF CopyRead
  <2> QED
    BY <2>1, <2>2
<1>6. ASSUME NEW t \in Tasks, CopyCommit(t) \/ UpdateState(t) PROVE OrderInv'
  BY <1>6, <1>d DEF CopyCommit, UpdateState
<1>7. ASSUME NEW t \in Tasks, Release(t) PROVE OrderInv'
  BY <1>7, <1>b DEF Release
<1>8. ASSUME NEW t \in Tasks, DatabaseFails(t) PROVE OrderInv'
  BY <1>8, <1>b, <1>c DEF DatabaseFails
<1>9. ASSUME NEW t \in Tasks, Cancelled(t) PROVE OrderInv'
  <2>1. CASE pc[t] = "idle"
    BY <1>9, <2>1, OrderKept DEF Cancelled, EndTask, list
  <2>2. CASE pc[t] # "idle"
    BY <1>9, <2>2, <1>b, <1>c DEF Cancelled
  <2> QED
    BY <2>1, <2>2
<1>10. CASE UNCHANGED vars
  BY <1>10, OrderKept DEF vars, list, flush
<1> QED
  BY <1>1, <1>2, <1>3, <1>4, <1>5, <1>6, <1>7, <1>8, <1>9, <1>10 DEF Next, FlushStep

(* What a step does to the lists and the rows of route_updates.              *)
LEMMA NextWrites ==
  ASSUME Next
  PROVE  \/ UNCHANGED <<home, gen, copied>>
         \/ \E t \in Tasks : AddRoute(t)
         \/ \E t \in Tasks : pc[t] = "commit" /\ copied' = Insert(rows[t]) /\ UNCHANGED <<home, gen>>
         \/ \E t \in Tasks : (\E e : EndFlush(t, e)) /\ copied' = copied
<1>1. CASE TimerExpires \/ PeriodicFlush \/ Signal \/ Stop \/ FinalFlush
  BY <1>1 DEF TimerExpires, PeriodicFlush, Signal, Stop, FinalFlush, list, db
<1>2. ASSUME NEW t \in Tasks, Acquire(t) \/ CopyRead(t) \/ UpdateState(t)
      PROVE  UNCHANGED <<home, gen, copied>>
  BY <1>2 DEF Acquire, CopyRead, UpdateState, list, db
<1>3. ASSUME NEW t \in Tasks, CopyCommit(t)
      PROVE  pc[t] = "commit" /\ copied' = Insert(rows[t]) /\ UNCHANGED <<home, gen>>
  BY <1>3 DEF CopyCommit, list
<1>4. ASSUME NEW t \in Tasks, Release(t) PROVE EndFlush(t, exc[t]) /\ copied' = copied
  BY <1>4 DEF Release, db
<1>5. ASSUME NEW t \in Tasks, DatabaseFails(t) \/ Cancelled(t)
      PROVE  \/ UNCHANGED <<home, gen, copied>>
             \/ pc[t] = "commit" /\ copied' = Insert(rows[t]) /\ UNCHANGED <<home, gen>>
             \/ (\E e : EndFlush(t, e)) /\ copied' = copied
  BY <1>5 DEF DatabaseFails, Cancelled, StatementMayTakeEffect, list, db
<1> QED
  BY <1>1, <1>2, <1>3, <1>4, <1>5 DEF Next, FlushStep

(* The COPY of the only flush in flight writes the beginning of the batch after *)
(* all that is written.                                                     *)
LEMMA CommitWrites ==
  ASSUME IInv, OrderInv, ~overlapped, NEW t \in Tasks, pc[t] = "commit",
         copied' = Insert(rows[t]), UNCHANGED <<home, gen>>
  PROVE  History!Write(rows[t]) /\ rows[t] \subseteq Batch
<1>t. /\ copied \in [Routes -> Nat] /\ gen \in Nat /\ Len(home) \in Nat
      /\ DOMAIN home = 1..Len(home) /\ \A r \in DOMAIN home : home[r] \in Nat
  BY DEF IInv, TypeOK
<1>l. /\ rows[t] \subseteq DOMAIN home /\ DOMAIN home \subseteq Routes
      /\ \A r \in DOMAIN home : home[r] <= gen
      /\ \A r \in Routes : r > Len(home) => copied[r] = 0
  BY SizesAssumption DEF IInv, TypeOK, ListsInv, Routes
<1>1. \A u \in Tasks : pc[u] \notin {"state", "release"}
  BY DEF IInv, OverlapInv, InFlight, Holding
<1>2. \A r \in DOMAIN home : home[r] = gen => copied[r] = 0
  BY <1>1 DEF IInv, OverlapInv
<1>3. rows[t] \subseteq Batch
  BY <1>l DEF IInv, OverlapInv, Batch, ListAt
<1>4. Batch \cap Stored = {}
  BY <1>2 DEF Batch, ListAt, Stored
<1>5. \A r \in rows[t], q \in Batch \ rows[t] : r < q
  BY DEF OrderInv
<1>6. ASSUME NEW r \in rows[t], NEW q \in Stored PROVE q < r
  <2>1. r \in DOMAIN home /\ home[r] = gen
    BY <1>3 DEF Batch, ListAt
  <2>2. q \in DOMAIN home
    BY <1>l, <1>t, SizesAssumption DEF Stored, Routes
  <2>3. home[q] < home[r]
    BY <1>2, <1>l, <1>t, <2>1, <2>2 DEF Stored
  <2>4. ~(r < q) /\ q # r
    BY <1>t, <2>1, <2>2, <2>3 DEF OrderInv
  <2> QED
    BY <1>t, <2>1, <2>2, <2>4
<1>7. Stored' = Stored \cup rows[t]
  BY <1>l, <1>t DEF Stored, Insert
<1>8. Batch' = Batch
  BY DEF Batch, ListAt
<1> QED
  BY <1>3, <1>4, <1>5, <1>6, <1>7, <1>8 DEF History!Write

(* The batch writer keeps the promise of RouteHistory until two flushes       *)
(* overlap: add_route is its Receive, a COPY that commits, heard of or not,   *)
(* its Write, the end of a flush its Forget (add_route and flush).           *)
THEOREM HistoryIsInOrder == Spec => HistoryInOrder
<1>1. Init => History!Init
  <2> SUFFICES ASSUME Init PROVE Len(home) = 0 /\ Batch = {} /\ Stored = {}
    BY DEF History!Init
  <2> QED
    BY DEF Init, Batch, ListAt, Stored
<1>2. IInv /\ OrderInv /\ [Next]_vars => [overlapped \/ History!Next]_(History!vars)
  <2> SUFFICES ASSUME IInv, OrderInv, [Next]_vars, ~overlapped
               PROVE  History!Next \/ UNCHANGED <<Len(home), Batch, Stored>>
    BY DEF History!vars
  <2>1. CASE UNCHANGED <<home, gen, copied>>
    BY <2>1 DEF Batch, ListAt, Stored
  <2>2. ASSUME NEW t \in Tasks, AddRoute(t) PROVE History!Receive
    <3>1. /\ Len(home') = Len(home) + 1 /\ Len(home) \in Nat /\ gen' = gen
          /\ DOMAIN home = 1..Len(home) /\ DOMAIN home' = 1..(Len(home) + 1)
          /\ home'[Len(home) + 1] = gen
          /\ \A r \in DOMAIN home : home'[r] = home[r]
      BY <2>2, Appended DEF IInv
    <3>2. \A r : r \in DOMAIN home' <=> r \in DOMAIN home \/ r = Len(home) + 1
      BY <3>1
    <3>3. Batch' = Batch \cup {Len(home) + 1}
      BY <3>1, <3>2 DEF Batch, ListAt
    <3>4. Stored' = Stored
      BY <2>2 DEF AddRoute, db, Stored
    <3> QED
      BY <3>1, <3>3, <3>4 DEF History!Receive
  <2>3. ASSUME NEW t \in Tasks, pc[t] = "commit", copied' = Insert(rows[t]), UNCHANGED <<home, gen>>
        PROVE  History!Next
    BY <2>3, CommitWrites DEF History!Next
  <2>4. ASSUME NEW t \in Tasks, NEW e, EndFlush(t, e), copied' = copied PROVE History!Forget
    <3>1. home' = home /\ Batch' = {}
      BY <2>4, Replaced DEF IInv
    <3> QED
      BY <2>4, <3>1 DEF History!Forget, Stored
  <2>5. CASE UNCHANGED vars
    BY <2>1, <2>5 DEF vars, list, db
  <2> QED
    BY <2>1, <2>2, <2>3, <2>4, <2>5, NextWrites DEF History!Next
<1>3. IInv => TypeOK /\ ListsInv
  BY DEF IInv
<1>4. IInv /\ OrderInv /\ [Next]_vars => OrderInv'
  BY <1>3, OrderStep
<1>5. Spec => []OrderInv
  BY <1>4, OrderInit, Inductive, PTL DEF Spec
<1> QED
  BY <1>1, <1>2, <1>5, Inductive, PTL DEF Spec, HistoryInOrder

-----------------------------------------------------------------------------
LEMMA ClosingInit == Init => ClosingInv
BY DEF Init, ClosingInv

LEMMA ClosingStep == TypeOK /\ ShutdownInv /\ ClosingInv /\ [Next]_vars => ClosingInv'
<1> SUFFICES ASSUME TypeOK, ShutdownInv, ClosingInv, [Next]_vars, phase' # "serving",
                    NEW u \in Tasks \ {Main}
             PROVE  \/ pc'[u] = "gone"
                    \/ cancel'[u]
                    \/ pc'[u] = "release" /\ exc'[u] = "cancelled"
  BY DEF ClosingInv
<1> USE DEF Runs
<1>t. /\ pc \in [Tasks -> Locations] /\ exc \in [Tasks -> {"none", "error", "cancelled"}]
      /\ cancel \in [Tasks -> BOOLEAN]
      /\ Main \in Tasks /\ Periodic \in Tasks
  BY DEF TypeOK, Tasks
<1>u. phase # "serving" =>
        pc[u] = "gone" \/ cancel[u] \/ (pc[u] = "release" /\ exc[u] = "cancelled")
  BY DEF ClosingInv
<1>m. phase = "serving" => pc[Main] = "idle"
  BY DEF ShutdownInv
(* A flush ends: u is another task, or its flush was cancelled. *)
<1>b. ASSUME NEW t \in Tasks, NEW e, EndFlush(t, e), phase # "serving", cancel' = cancel, Runs(t),
             pc[t] \in {"acquire", "release"}, e = "cancelled" \/ pc[t] = "acquire" \/ e = exc[t]
      PROVE  pc'[u] = "gone" \/ cancel'[u] \/ (pc'[u] = "release" /\ exc'[u] = "cancelled")
  BY <1>b, <1>t, <1>u DEF EndFlush, LeaveFlush
<1>s. ASSUME NEW t \in Tasks, NEW e, EndFlush(t, e), phase = "serving", t # Main PROVE FALSE
  BY <1>s DEF EndFlush, LeaveFlush
<1>1. CASE TimerExpires
  BY <1>1, <1>u DEF TimerExpires, flush
<1>2. CASE PeriodicFlush
  BY <1>2, <1>t, <1>u DEF PeriodicFlush, BeginFlush
<1>3. CASE Signal
  <2>1. cancel'[u] = (pc[u] # "gone")
    BY <1>3 DEF Signal
  <2>2. pc'[u] = pc[u]
    BY <1>3, <1>t DEF Signal
  <2> QED
    BY <2>1, <2>2
<1>4. CASE Stop
  BY <1>4, <1>t, <1>u DEF Stop, flush
<1>5. CASE FinalFlush
  BY <1>5, <1>t, <1>u DEF FinalFlush, BeginFlush
<1>6. ASSUME NEW t \in Tasks, AddRoute(t) PROVE pc'[u] = "gone" \/ cancel'[u] \/ (pc'[u] = "release" /\ exc'[u] = "cancelled")
  BY <1>6, <1>t, <1>u DEF AddRoute, BeginFlush, flush
<1>7. ASSUME NEW t \in Tasks, Acquire(t) \/ CopyRead(t) \/ CopyCommit(t) \/ UpdateState(t)
      PROVE  pc'[u] = "gone" \/ cancel'[u] \/ (pc'[u] = "release" /\ exc'[u] = "cancelled")
  BY <1>7, <1>t, <1>u DEF Acquire, CopyRead, Unwind, CopyCommit, UpdateState, LoopOn
<1>8. ASSUME NEW t \in Tasks, Release(t)
      PROVE  pc'[u] = "gone" \/ cancel'[u] \/ (pc'[u] = "release" /\ exc'[u] = "cancelled")
  BY <1>8, <1>b, <1>s, <1>m DEF Release
<1>9. ASSUME NEW t \in Tasks, DatabaseFails(t)
      PROVE  pc'[u] = "gone" \/ cancel'[u] \/ (pc'[u] = "release" /\ exc'[u] = "cancelled")
  <2>1. CASE pc[t] = "acquire" /\ EndFlush(t, "error")
    BY <1>9, <2>1, <1>b, <1>s, <1>m DEF DatabaseFails
  <2>2. CASE pc[t] \in {"copy", "commit", "state"} /\ Unwind(t, "error") /\ phase' = phase
    BY <1>9, <2>2, <1>t, <1>u DEF DatabaseFails, Unwind
  <2> QED
    BY <1>9, <2>1, <2>2 DEF DatabaseFails
<1>10. ASSUME NEW t \in Tasks, Cancelled(t)
       PROVE  pc'[u] = "gone" \/ cancel'[u] \/ (pc'[u] = "release" /\ exc'[u] = "cancelled")
  <2>1. CASE pc[t] = "idle"
    BY <1>10, <2>1, <1>t, <1>u DEF Cancelled, EndTask
  <2>2. CASE EndFlush(t, "cancelled")
    <3>1. pc' = [pc EXCEPT ![t] = "gone"] /\ cancel' = [cancel EXCEPT ![t] = FALSE]
      BY <1>10, <2>2 DEF Cancelled, EndFlush, LeaveFlush
    <3>2. exc' = [exc EXCEPT ![t] = "none"]
      BY <2>2 DEF EndFlush, LeaveFlush
    <3>3. phase # "serving"
      BY <1>10, <2>2, <1>s, <1>m DEF ShutdownInv, Cancelled
    <3> QED
      BY <3>1, <3>2, <3>3, <1>t, <1>u
  <2>3. CASE Unwind(t, "cancelled") /\ phase' = phase
    BY <1>10, <2>3, <1>t, <1>u DEF Cancelled, Unwind
  <2> QED
    BY <1>10, <2>1, <2>2, <2>3 DEF Cancelled
<1>11. CASE UNCHANGED vars
  BY <1>11, <1>u DEF vars, flush
<1> QED
  BY <1>1, <1>2, <1>3, <1>4, <1>5, <1>6, <1>7, <1>8, <1>9, <1>10, <1>11 DEF Next, FlushStep

(* What is left to a task whose await does not change does not grow.          *)
LEMMA StepsKept ==
  ASSUME TypeOK, home' = home, phase' = "closing" => phase = "closing",
         NEW u \in Tasks, pc'[u] = pc[u], at'[u] = at[u]
  PROVE  StepsLeft(u)' <= StepsLeft(u)
<1>1. Len(home) \in Nat /\ at[u] \in Nat /\ pc[u] \in Locations
  BY DEF TypeOK
<1> QED
  BY <1>1 DEF StepsLeft, Locations

(* A task that moves on in its flush, or out of it, has less left.             *)
LEMMA StepsFall ==
  ASSUME TypeOK, StateInv, home' = home, NEW t \in Tasks,
         \/ pc[t] = "idle" /\ pc'[t] \in {"acquire", "gone"}
         \/ pc[t] = "acquire" /\ pc'[t] \in {"copy", "gone"}
         \/ pc[t] = "copy" /\ pc'[t] \in {"commit", "release"}
         \/ pc[t] = "commit" /\ pc'[t] = "state" /\ at'[t] \in Nat \ {0}
         \/ pc[t] = "commit" /\ pc'[t] = "release"
         \/ pc[t] = "state" /\ pc'[t] = "state" /\ at'[t] \in Nat /\ at'[t] > at[t]
         \/ pc[t] = "state" /\ pc'[t] = "release"
         \/ pc[t] = "release" /\ pc'[t] = "gone"
  PROVE  StepsLeft(t)' < StepsLeft(t) /\ StepsLeft(t)' <= StepsLeft(t)
<1>1. Len(home) \in Nat /\ at[t] \in Nat
  BY DEF TypeOK
<1>2. pc[t] = "state" => at[t] <= Len(home)
  <2>1. DOMAIN home = 1..Len(home)
    BY DEF TypeOK
  <2> QED
    BY <2>1 DEF StateInv
<1> QED
  BY <1>1, <1>2 DEF StepsLeft

(* From the first signal on the program runs out of steps: every one of them     *)
(* brings a task nearer to its end, for any number of routers and routes      *)
(* (run_listener's finally, stop and flush).  What SignalEndsProgram adds to  *)
(* it is that the event loop goes on.                                       *)
THEOREM ShutdownIsBounded == Spec => ShutdownRunsOut
<1>1. IInv => TypeOK /\ ListsInv /\ ShutdownInv /\ StateInv
  BY DEF IInv
<1>2. IInv /\ ClosingInv /\ [Next]_vars =>
        [phase # "serving" =>
           /\ home' = home
           /\ \A t \in Tasks : StepsLeft(t)' <= StepsLeft(t)
           /\ \/ \E t \in Tasks : StepsLeft(t)' < StepsLeft(t)
              \/ signals' # signals
              \/ timer = "recent" /\ timer' = "due"]_vars
  <2> DEFINE Goal == /\ home' = home
                     /\ \A t \in Tasks : StepsLeft(t)' <= StepsLeft(t)
                     /\ \/ \E t \in Tasks : StepsLeft(t)' < StepsLeft(t)
                        \/ signals' # signals
                        \/ timer = "recent" /\ timer' = "due"
  <2> SUFFICES ASSUME IInv, ClosingInv, Next, phase # "serving" PROVE Goal
    OBVIOUS
  <2> USE DEF Runs
  <2>t. /\ TypeOK /\ ShutdownInv /\ StateInv
        /\ pc \in [Tasks -> Locations] /\ at \in [Tasks -> Nat] /\ Len(home) \in Nat
        /\ signals \in Nat
        /\ exc \in [Tasks -> {"none", "error", "cancelled"}]
        /\ Main \in Tasks /\ Periodic \in Tasks
    BY <1>1 DEF TypeOK, Tasks
  <2>c. \A u \in Tasks \ {Main} :
          pc[u] = "gone" \/ cancel[u] \/ (pc[u] = "release" /\ exc[u] = "cancelled")
    BY DEF ClosingInv
  (* One task moves on. *)
  <2>m. ASSUME NEW t \in Tasks, home' = home, phase' = "closing" => phase = "closing",
               \A u \in Tasks \ {t} : pc'[u] = pc[u] /\ at'[u] = at[u],
               StepsLeft(t)' < StepsLeft(t), StepsLeft(t)' <= StepsLeft(t)
        PROVE  Goal
    <3>1. \A u \in Tasks \ {t} : StepsLeft(u)' <= StepsLeft(u)
      BY <2>m, <2>t, StepsKept
    <3>2. \A u \in Tasks : StepsLeft(u)' <= StepsLeft(u)
      BY <2>m, <3>1, Zenon
    <3> QED
      BY <2>m, <3>2, Zenon
  (* No task moves. *)
  <2>k. ASSUME home' = home, phase' = phase, pc' = pc, at' = at,
               signals' # signals \/ (timer = "recent" /\ timer' = "due")
        PROVE  Goal
    <3>1. \A u \in Tasks : StepsLeft(u)' <= StepsLeft(u)
      BY <2>k, <2>t, StepsKept
    <3> QED
      BY <2>k, <3>1, Zenon
  (* A flush ends. *)
  <2>b. ASSUME NEW t \in Tasks, NEW e, EndFlush(t, e), pc[t] \in {"acquire", "release"},
               t = Main \/ e = "cancelled"
        PROVE  Goal
    <3>1. /\ pc' = [pc EXCEPT ![t] = "gone"] /\ at' = [at EXCEPT ![t] = 0] /\ home' = home
          /\ phase' = "closing" => phase = "closing"
      BY <2>b DEF EndFlush, LeaveFlush
    <3>2. pc'[t] = "gone" /\ \A u \in Tasks \ {t} : pc'[u] = pc[u] /\ at'[u] = at[u]
      BY <3>1, <2>t
    <3>3. StepsLeft(t)' < StepsLeft(t) /\ StepsLeft(t)' <= StepsLeft(t)
      BY <2>b, <2>t, <3>1, <3>2, StepsFall
    <3> QED
      BY <3>1, <3>2, <3>3, <2>m
  <2>d. ASSUME NEW t \in Tasks, NEW e, Unwind(t, e), pc[t] \in {"copy", "commit", "state"},
               UNCHANGED <<list, phase>>
        PROVE  Goal
    <3>1. pc'[t] = "release" /\ \A u \in Tasks \ {t} : pc'[u] = pc[u] /\ at'[u] = at[u]
      BY <2>d, <2>t DEF Unwind
    <3>2. home' = home /\ phase' = phase
      BY <2>d DEF list
    <3>3. StepsLeft(t)' < StepsLeft(t) /\ StepsLeft(t)' <= StepsLeft(t)
      BY <2>d, <2>t, <3>1, <3>2, StepsFall
    <3> QED
      BY <3>1, <3>2, <3>3, <2>m
  <2>l. ASSUME NEW t \in Tasks, NEW l, NEW last \in Nat, LoopOn(t, l, last), UNCHANGED <<list, phase>>,
               pc[t] = "commit" \/ (pc[t] = "state" /\ last = at[t])
        PROVE  Goal
    <3>1. \A u \in Tasks \ {t} : pc'[u] = pc[u] /\ at'[u] = at[u]
      BY <2>l, <2>t DEF LoopOn
    <3>2. ListAt(l) \subseteq Nat
      BY <2>t, ListSize DEF TypeOK
    <3>3. pc'[t] = "release" \/ (pc'[t] = "state" /\ at'[t] \in Nat /\ at'[t] > last)
      BY <2>l, <2>t, <3>2 DEF LoopOn
    <3>4. home' = home /\ phase' = phase
      BY <2>l DEF list
    <3>5. StepsLeft(t)' < StepsLeft(t) /\ StepsLeft(t)' <= StepsLeft(t)
      BY <2>l, <2>t, <3>3, <3>4, StepsFall
    <3> QED
      BY <3>1, <3>4, <3>5, <2>m
  <2>1. CASE TimerExpires
    BY <2>1, <2>k DEF TimerExpires, flush
  <2>2. CASE PeriodicFlush
    BY <2>2, <2>t, <2>c, TasksAssumption DEF PeriodicFlush
  <2>3. CASE Signal
    <3>1. home' = home /\ at' = at /\ signals' # signals
      BY <2>3, <2>t DEF Signal, list
    <3>2. CASE phase = "closing"
      <4>1. pc[Main] = "idle" /\ pc'[Main] = "gone" /\ phase' = "aborted"
        BY <2>3, <2>t, <3>2 DEF Signal, ShutdownInv
      <4>2. \A u \in Tasks \ {Main} : pc'[u] = pc[u] /\ at'[u] = at[u]
        BY <2>3, <2>t, <3>1 DEF Signal
      <4>3. StepsLeft(Main)' < StepsLeft(Main) /\ StepsLeft(Main)' <= StepsLeft(Main)
        BY <2>t, <3>1, <4>1, StepsFall
      <4> QED
        BY <2>t, <2>m, <3>1, <4>1, <4>2, <4>3
    <3>3. CASE phase # "closing"
      <4>1. phase' = phase /\ pc' = pc
        BY <2>3, <2>t, <3>3 DEF Signal
      <4> QED
        BY <2>k, <3>1, <4>1
    <3> QED
      BY <3>2, <3>3
  <2>4. CASE Stop
    <3>1. home' = home /\ pc' = pc /\ at' = at /\ phase = "closing" /\ phase' = "joining"
      BY <2>4 DEF Stop, flush
    <3>2. pc[Main] = "idle"
      BY <2>t, <3>1 DEF ShutdownInv
    <3>3. StepsLeft(Main)' < StepsLeft(Main) /\ StepsLeft(Main)' <= StepsLeft(Main)
      BY <2>t, <3>1, <3>2 DEF StepsLeft
    <3> QED
      BY <2>m, <2>t, <3>1, <3>3
  <2>5. CASE FinalFlush
    <3>1. /\ pc[Main] = "idle" /\ home' = home /\ phase' # "closing"
      BY <2>5, <2>t DEF FinalFlush, ShutdownInv, list
    <3>2. /\ pc' = [pc EXCEPT ![Main] = "gone"] \/ pc' = [pc EXCEPT ![Main] = "acquire"]
          /\ at' = at
      BY <2>5 DEF FinalFlush, BeginFlush
    <3>3. pc'[Main] \in {"acquire", "gone"} /\ \A u \in Tasks \ {Main} : pc'[u] = pc[u] /\ at'[u] = at[u]
      BY <2>t, <3>2
    <3>4. StepsLeft(Main)' < StepsLeft(Main) /\ StepsLeft(Main)' <= StepsLeft(Main)
      BY <2>t, <3>1, <3>3, StepsFall
    <3> QED
      BY <2>m, <2>t, <3>1, <3>3, <3>4
  (* Only main still runs without having been cancelled. *)
  <2>r. ASSUME NEW t \in Tasks, Runs(t), pc[t] \in Locations \ {"release", "gone"} PROVE t = Main
    BY <2>r, <2>c DEF Locations
  <2>6. ASSUME NEW t \in Tasks, AddRoute(t) PROVE Goal
    BY <2>6, <2>r, TasksAssumption DEF AddRoute, Locations
  <2>7. ASSUME NEW t \in Tasks, Acquire(t) PROVE Goal
    <3>1. /\ pc[t] = "acquire" /\ pc'[t] = "copy" /\ home' = home /\ phase' = phase
          /\ \A u \in Tasks \ {t} : pc'[u] = pc[u] /\ at'[u] = at[u]
      BY <2>7, <2>t DEF Acquire, list
    <3>2. StepsLeft(t)' < StepsLeft(t) /\ StepsLeft(t)' <= StepsLeft(t)
      BY <2>t, <3>1, StepsFall
    <3> QED
      BY <2>m, <3>1, <3>2
  <2>8. ASSUME NEW t \in Tasks, CopyRead(t) PROVE Goal
    <3>1. CASE pc' = [pc EXCEPT ![t] = "commit"] /\ at' = at
      <4>1. /\ pc[t] = "copy" /\ pc'[t] = "commit" /\ home' = home /\ phase' = phase
            /\ \A u \in Tasks \ {t} : pc'[u] = pc[u] /\ at'[u] = at[u]
        BY <2>8, <2>t, <3>1 DEF CopyRead, list
      <4>2. StepsLeft(t)' < StepsLeft(t) /\ StepsLeft(t)' <= StepsLeft(t)
        BY <2>t, <4>1, StepsFall
      <4> QED
        BY <2>m, <4>1, <4>2
    <3>2. CASE Unwind(t, "error")
      BY <2>8, <2>d, <3>2 DEF CopyRead
    <3> QED
      BY <2>8, <3>1, <3>2 DEF CopyRead
  <2>9. ASSUME NEW t \in Tasks, CopyCommit(t) PROVE Goal
    BY <2>9, <2>l DEF CopyCommit
  <2>10. ASSUME NEW t \in Tasks, UpdateState(t) PROVE Goal
    BY <2>10, <2>l, <2>t DEF UpdateState
  <2>11. ASSUME NEW t \in Tasks, Release(t) PROVE Goal
    <3>1. t = Main \/ exc[t] = "cancelled"
      BY <2>11, <2>c DEF Release
    <3> QED
      BY <2>11, <2>b, <3>1 DEF Release
  <2>12. ASSUME NEW t \in Tasks, DatabaseFails(t) PROVE Goal
    <3>1. t = Main
      BY <2>12, <2>r DEF DatabaseFails, Locations
    <3> QED
      BY <2>12, <2>b, <2>d, <3>1 DEF DatabaseFails
  <2>13. ASSUME NEW t \in Tasks, Cancelled(t) PROVE Goal
    <3>1. CASE pc[t] = "idle"
      <4>1. /\ pc'[t] = "gone" /\ home' = home /\ phase' = phase
            /\ \A u \in Tasks \ {t} : pc'[u] = pc[u] /\ at'[u] = at[u]
        BY <2>13, <2>t, <3>1 DEF Cancelled, EndTask, list
      <4>2. StepsLeft(t)' < StepsLeft(t) /\ StepsLeft(t)' <= StepsLeft(t)
        BY <2>t, <3>1, <4>1, StepsFall
      <4> QED
        BY <2>m, <4>1, <4>2
    <3>2. CASE pc[t] # "idle"
      BY <2>13, <2>b, <2>d, <3>2 DEF Cancelled
    <3> QED
      BY <3>1, <3>2
  <2> QED
    BY <2>1, <2>2, <2>3, <2>4, <2>5, <2>6, <2>7, <2>8, <2>9, <2>10, <2>11, <2>12, <2>13
    DEF Next, FlushStep
<1>3. IInv /\ ClosingInv /\ [Next]_vars => ClosingInv'
  BY <1>1, ClosingStep
<1>4. Spec => []ClosingInv
  BY <1>3, ClosingInit, Inductive, PTL DEF Spec
<1> QED
  BY <1>2, <1>4, Inductive, PTL DEF Spec, ShutdownRunsOut
=============================================================================
