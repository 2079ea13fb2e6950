-------------------------- MODULE MigrationsProofs --------------------------
(***************************************************************************)
(* Proofs about Migrations for any containers, releases and failures.      *)
(***************************************************************************)
EXTENDS Migrations, TLAPS

(* The versions of a release are positive numbers, 1 among them.             *)
LEMMA ReleaseVersions ==
  ASSUME NEW rel \in Releases
  PROVE  /\ rel \in Seq(Files)
         /\ DOMAIN rel = 1..Len(rel)
         /\ DOMAIN rel \subseteq Nat \ {0}
         /\ 1 \in DOMAIN rel
         /\ \A v \in DOMAIN rel : rel[v] \in Files
<1>1. rel \in Seq(Files) /\ rel # <<>>
  BY ReleasesAssumption
<1>2. DOMAIN rel = 1..Len(rel) /\ Len(rel) \in Nat \ {0}
  BY <1>1
<1> QED
  BY <1>1, <1>2

(* The types are kept by what a COMMIT makes visible.                        *)
LEMMA CommittedType ==
  ASSUME TypeOK, NEW r \in Runners, current[r] \in DOMAIN image[r], Committed(r)
  PROVE  /\ DOMAIN recorded' \subseteq Nat \ {0}
         /\ \A v \in DOMAIN recorded' : recorded'[v] \in Files
         /\ schema' \in Seq(Nat \X Files)
<1>1. image[r] \in Releases
  BY DEF TypeOK
<1>2. /\ current[r] \in Nat \ {0}
      /\ image[r][current[r]] \in Files
  BY <1>1, ReleaseVersions
<1>3. <<current[r], image[r][current[r]]>> \in Nat \X Files
  BY <1>2
<1>4. DOMAIN recorded' = DOMAIN recorded \cup {current[r]}
  BY DEF Committed
<1>5. \A v \in DOMAIN recorded' : recorded'[v] \in Files
  BY <1>2, <1>4 DEF Committed, TypeOK
<1>6. schema' \in Seq(Nat \X Files)
  BY <1>3 DEF Committed, TypeOK
<1> QED
  BY <1>2, <1>4, <1>5, <1>6 DEF TypeOK

LEMMA InitInv == Init => IInv
<1> SUFFICES ASSUME Init PROVE IInv
  OBVIOUS
<1>1. DOMAIN recorded = {} /\ DOMAIN schema = {} /\ schema \in Seq(Nat \X Files)
  BY DEF Init
<1>2. TypeOK
  BY <1>1 DEF Init, TypeOK
<1>3. SchemaIsRecorded
  BY <1>1 DEF SchemaIsRecorded
<1>4. ProgressInv /\ TransactionInv /\ StartedOnOwnSchema
  BY DEF Init, ProgressInv, TransactionInv, StartedOnOwnSchema
<1> QED
  BY <1>2, <1>3, <1>4 DEF IInv

(* Every step keeps the types; a transaction is needed to know what a COMMIT *)
(* writes.                                                                  *)
LEMMA NextType == IInv /\ [Next]_vars => TypeOK'
<1> SUFFICES ASSUME IInv, [Next]_vars PROVE TypeOK'
  OBVIOUS
<1>t. TypeOK /\ TransactionInv /\ ProgressInv
  BY DEF IInv
<1>1. ASSUME NEW r \in Runners, CheckTable(r) PROVE TypeOK'
  <2>1. DOMAIN image[r] \subseteq Nat
    BY <1>t, ReleaseVersions DEF TypeOK
  <2> QED
    BY <1>1, <1>t, <2>1 DEF CheckTable, GoTo, TypeOK
<1>2. ASSUME NEW r \in Runners, FetchApplied(r) PROVE TypeOK'
  <2>1. DOMAIN image[r] \subseteq Nat
    BY <1>t, ReleaseVersions DEF TypeOK
  <2> QED
    BY <1>2, <1>t, <2>1 DEF FetchApplied, GoTo, TypeOK
<1>3. ASSUME NEW r \in Runners, Execute(r) PROVE TypeOK'
  BY <1>3, <1>t DEF Execute, GoTo, TypeOK
<1>4. ASSUME NEW r \in Runners, Record(r) PROVE TypeOK'
  BY <1>4, <1>t DEF Record, GoTo, TypeOK
<1>5. ASSUME NEW r \in Runners, pc[r] = "commit" PROVE current[r] \in DOMAIN image[r]
  BY <1>5, <1>t DEF TransactionInv, ProgressInv
<1>6. ASSUME NEW r \in Runners, Commit(r) PROVE TypeOK'
  <2>1. Committed(r) /\ current[r] \in DOMAIN image[r]
    BY <1>5, <1>6 DEF Commit
  <2> QED
    BY <1>6, <1>t, <2>1, CommittedType DEF Commit, GoTo, TypeOK
<1>7. ASSUME NEW r \in Runners, Finish(r) PROVE TypeOK'
  BY <1>7, <1>t DEF Finish, GoTo, TypeOK
<1>8. ASSUME NEW r \in Runners, Fail(r) PROVE TypeOK'
  <2>1. CASE UNCHANGED <<recorded, schema>>
    BY <1>8, <1>t, <2>1 DEF Fail, GoTo, TypeOK
  <2>2. CASE pc[r] = "commit" /\ Committed(r)
    BY <1>5, <1>8, <1>t, <2>2, CommittedType DEF Fail, GoTo, TypeOK
  <2> QED
    BY <1>8, <2>1, <2>2 DEF Fail
<1>9. ASSUME NEW r \in Runners, Restart(r) PROVE TypeOK'
  BY <1>9, <1>t DEF Restart, GoTo, TypeOK
<1>10. CASE UNCHANGED vars
  BY <1>10, <1>t DEF vars, runner, TypeOK
<1> QED
  BY <1>1, <1>2, <1>3, <1>4, <1>6, <1>7, <1>8, <1>9, <1>10 DEF Next, Step

(* What a COMMIT of r makes of the table and the schema: r's version is the   *)
(* one after the last.                                                      *)
LEMMA CommitNext ==
  ASSUME IInv, NEW r \in Runners, pc[r] = "commit", Committed(r)
  PROVE  /\ current[r] = Len(schema) + 1
         /\ current[r] \in DOMAIN image[r]
         /\ DOMAIN recorded' = DOMAIN recorded \cup {current[r]}
         /\ recorded'[current[r]] = image[r][current[r]]
         /\ \A v \in DOMAIN recorded : recorded'[v] = recorded[v]
         /\ SchemaIsRecorded'
         /\ \A i \in DOMAIN schema : i \in DOMAIN schema' /\ schema'[i] = schema[i]
<1> DEFINE v == current[r]
<1>1. TypeOK /\ SchemaIsRecorded /\ ProgressInv /\ TransactionInv
  BY DEF IInv
<1>2. /\ v \in pending[r] /\ v \in DOMAIN image[r]
      /\ \A w \in pending[r] : v <= w
      /\ ~IsRecorded(v)
  BY <1>1 DEF ProgressInv, TransactionInv
<1>3. image[r] \in Releases
  BY <1>1 DEF TypeOK
<1>4. DOMAIN image[r] = 1..Len(image[r]) /\ image[r] \in Seq(Files)
  BY <1>3, ReleaseVersions
<1>5. v \in Nat \ {0} /\ Len(image[r]) \in Nat /\ v <= Len(image[r])
  BY <1>2, <1>4
<1>6. ASSUME NEW w \in 1..(v - 1) PROVE w \in DOMAIN recorded
  <2>1. w \in DOMAIN image[r] /\ w < v
    BY <1>4, <1>5
  <2>2. w \notin pending[r]
    BY <1>2, <1>5, <2>1
  <2> QED
    BY <1>1, <2>1, <2>2 DEF ProgressInv, Applied, IsRecorded
<1>7. schema \in Seq(Nat \X Files) /\ DOMAIN schema = 1..Len(schema) /\ Len(schema) \in Nat
  BY <1>1 DEF TypeOK
<1>8. v = Len(schema) + 1
  <2>1. v \notin 1..Len(schema)
    BY <1>1, <1>2, <1>7 DEF SchemaIsRecorded, IsRecorded
  <2>2. \A w \in 1..(v - 1) : w \in 1..Len(schema)
    BY <1>1, <1>6, <1>7 DEF SchemaIsRecorded
  <2>3. ASSUME v > Len(schema) + 1 PROVE FALSE
    <3>1. v - 1 \in 1..(v - 1) /\ v - 1 > Len(schema)
      BY <1>5, <1>7, <2>3
    <3> QED
      BY <1>5, <1>7, <2>2, <3>1
  <2> QED
    BY <1>5, <1>7, <2>1, <2>3
<1>9. /\ DOMAIN recorded' = DOMAIN recorded \cup {v}
      /\ recorded'[v] = image[r][v]
      /\ \A w \in DOMAIN recorded : recorded'[w] = recorded[w]
  BY <1>2 DEF Committed, IsRecorded
<1>10. image[r][v] \in Files
  BY <1>2, <1>3, ReleaseVersions
<1>11. schema' = Append(schema, <<v, image[r][v]>>)
  BY DEF Committed
<1>12. <<v, image[r][v]>> \in Nat \X Files
  BY <1>5, <1>10
<1>13. /\ DOMAIN schema' = 1..(Len(schema) + 1)
       /\ \A i \in DOMAIN schema : i \in DOMAIN schema' /\ schema'[i] = schema[i]
       /\ schema'[v] = <<v, image[r][v]>>
  BY <1>7, <1>8, <1>11, <1>12
<1>14. DOMAIN schema' = DOMAIN schema \cup {v}
  BY <1>7, <1>8, <1>13
<1>15. SchemaIsRecorded'
  BY <1>1, <1>9, <1>13, <1>14 DEF SchemaIsRecorded
<1> QED
  BY <1>2, <1>8, <1>9, <1>13, <1>15

(* The table and the schema change with a COMMIT and with nothing else.      *)
LEMMA NextCommits ==
  ASSUME IInv, Next
  PROVE  \/ UNCHANGED <<recorded, schema>>
         \/ \E r \in Runners : pc[r] = "commit" /\ Committed(r)
BY DEF Next, Step, CheckTable, FetchApplied, Execute, Record, Commit, Finish, Restart, Fail

(* Nothing that is recorded changes, whoever commits.                        *)
LEMMA RecordedStays ==
  ASSUME IInv, [Next]_vars
  PROVE  /\ SchemaIsRecorded'
         /\ image' = image
         /\ \A v \in DOMAIN recorded : v \in DOMAIN recorded' /\ recorded'[v] = recorded[v]
         /\ \A i \in DOMAIN schema : i \in DOMAIN schema' /\ schema'[i] = schema[i]
<1>1. image' = image
  BY DEF Next, Step, CheckTable, FetchApplied, Execute, Record, Commit, Finish, Restart, Fail,
         vars, runner
<1>2. CASE UNCHANGED <<recorded, schema>>
  BY <1>1, <1>2 DEF IInv, SchemaIsRecorded
<1>3. ASSUME NEW r \in Runners, pc[r] = "commit", Committed(r)
      PROVE /\ SchemaIsRecorded'
            /\ \A v \in DOMAIN recorded : v \in DOMAIN recorded' /\ recorded'[v] = recorded[v]
            /\ \A i \in DOMAIN schema : i \in DOMAIN schema' /\ schema'[i] = schema[i]
  BY <1>3, CommitNext
<1>4. CASE UNCHANGED vars
  BY <1>2, <1>4 DEF vars
<1> QED
  BY <1>1, <1>2, <1>3, <1>4, NextCommits

(* What a container has established about the versions it need not apply.     *)
LEMMA NextProgress == IInv /\ [Next]_vars => ProgressInv'
<1> SUFFICES ASSUME IInv, [Next]_vars PROVE ProgressInv'
  OBVIOUS
<1>t. TypeOK /\ ProgressInv
  BY DEF IInv
<1>i. /\ image' = image
      /\ \A v \in DOMAIN recorded : v \in DOMAIN recorded' /\ recorded'[v] = recorded[v]
  BY RecordedStays
<1>k. ASSUME NEW q \in Runners, NEW v, Applied(q, v) PROVE Applied(q, v)'
  BY <1>i, <1>k DEF Applied, IsRecorded
<1> DEFINE Part(q) ==
      pc[q] \in {"next", "record", "commit", "done"} =>
        /\ pending[q] \subseteq DOMAIN image[q]
        /\ \A v \in DOMAIN image[q] \ pending[q] : Applied(q, v)
        /\ pc[q] = "done" => pending[q] = {}
<1>u. ASSUME NEW q \in Runners, UNCHANGED <<pc[q], pending[q]>> PROVE Part(q)'
  BY <1>t, <1>i, <1>k, <1>u DEF ProgressInv
<1>1. ASSUME NEW r \in Runners, CheckTable(r), NEW q \in Runners PROVE Part(q)'
  <2>1. CASE q # r
    BY <1>1, <1>t, <1>u, <2>1 DEF CheckTable, GoTo, TypeOK
  <2>2. CASE q = r
    BY <1>1, <1>t, <1>i, <2>2 DEF CheckTable, GoTo, TypeOK
  <2> QED
    BY <2>1, <2>2
<1>2. ASSUME NEW r \in Runners, FetchApplied(r), NEW q \in Runners PROVE Part(q)'
  <2>1. CASE q # r
    BY <1>2, <1>t, <1>u, <2>1 DEF FetchApplied, GoTo, TypeOK
  <2>2. CASE q = r /\ Tampered(r)
    BY <1>2, <1>t, <2>2 DEF FetchApplied, GoTo, TypeOK
  <2>3. CASE q = r /\ ~Tampered(r)
    <3>1. pending'[r] = DOMAIN image[r] \ DOMAIN recorded /\ pc'[r] = "next"
      BY <1>2, <1>t, <2>3 DEF FetchApplied, GoTo, TypeOK
    <3>2. \A v \in DOMAIN image[r] \ pending'[r] : Applied(r, v)
      BY <2>3, <3>1 DEF Tampered, Applied, IsRecorded
    <3> QED
      BY <1>i, <1>k, <2>3, <3>1, <3>2
  <2> QED
    BY <2>1, <2>2, <2>3
<1>3. ASSUME NEW r \in Runners, Execute(r), NEW q \in Runners PROVE Part(q)'
  BY <1>3, <1>t, <1>i, <1>k DEF Execute, GoTo, TypeOK, ProgressInv
<1>4. ASSUME NEW r \in Runners, Record(r), NEW q \in Runners PROVE Part(q)'
  BY <1>4, <1>t, <1>i, <1>k DEF Record, GoTo, TypeOK, ProgressInv
<1>5. ASSUME NEW r \in Runners, Commit(r), NEW q \in Runners PROVE Part(q)'
  <2>1. CASE q # r
    <3>1. UNCHANGED <<pc[q], pending[q]>>
      BY <1>5, <1>t, <2>1 DEF Commit, GoTo, TypeOK
    <3> QED
      BY <1>u, <3>1
  <2>2. CASE q = r
    <3>1. pc[r] = "commit" /\ Committed(r)
      BY <1>5 DEF Commit
    <3>2. Applied(r, current[r])'
      <4>1. /\ current[r] \in DOMAIN recorded'
            /\ recorded'[current[r]] = image[r][current[r]]
        BY <3>1, CommitNext
      <4>2. current' = current
        BY <1>5 DEF Commit
      <4> QED
        BY <1>i, <4>1, <4>2 DEF Applied, IsRecorded
    <3>3. pending'[r] = pending[r] \ {current[r]} /\ pc'[r] = "next"
      BY <1>5, <1>t DEF Commit, GoTo, TypeOK
    <3>4. \A v \in DOMAIN image[r] \ pending'[r] : v # current[r] => Applied(r, v)
      BY <1>t, <3>1, <3>3 DEF ProgressInv
    <3>5. current'[r] = current[r]
      BY <1>5 DEF Commit
    <3>6. \A v \in DOMAIN image[r] \ pending'[r] : Applied(r, v)'
      BY <1>k, <3>2, <3>4, <3>5
    <3>7. pending'[r] \subseteq DOMAIN image[r]
      BY <1>t, <3>1, <3>3 DEF ProgressInv
    <3> QED
      BY <1>i, <2>2, <3>3, <3>6, <3>7
  <2> QED
    BY <2>1, <2>2
<1>6. ASSUME NEW r \in Runners, Finish(r), NEW q \in Runners PROVE Part(q)'
  BY <1>6, <1>t, <1>i, <1>k DEF Finish, GoTo, TypeOK, ProgressInv
<1>7. ASSUME NEW r \in Runners, Fail(r), NEW q \in Runners PROVE Part(q)'
  BY <1>7, <1>t, <1>i, <1>k DEF Fail, GoTo, TypeOK, ProgressInv
<1>8. ASSUME NEW r \in Runners, Restart(r), NEW q \in Runners PROVE Part(q)'
  BY <1>8, <1>t, <1>i, <1>k DEF Restart, GoTo, TypeOK, ProgressInv
<1>9. CASE UNCHANGED vars
  BY <1>u, <1>9 DEF vars, runner, ProgressInv
<1>10. ASSUME Next, NEW q \in Runners PROVE Part(q)'
  BY <1>1, <1>2, <1>3, <1>4, <1>5, <1>6, <1>7, <1>8, <1>10 DEF Next, Step
<1> QED
  BY <1>9, <1>10 DEF ProgressInv

(* A transaction applies the lowest pending version, and once it has inserted *)
(* that version nobody else can.                                            *)
LEMMA NextTransaction == IInv /\ [Next]_vars => TransactionInv'
<1> SUFFICES ASSUME IInv, [Next]_vars PROVE TransactionInv'
  OBVIOUS
<1>t. TypeOK /\ TransactionInv
  BY DEF IInv
<1> DEFINE Lowest(q) == pc[q] \in {"record", "commit"} =>
                          /\ current[q] \in pending[q]
                          /\ \A w \in pending[q] : current[q] <= w
           Alone(q) == pc[q] = "commit" => ~IsRecorded(current[q]) /\ ~Locked(q)
<1>1. ASSUME Next, NEW q \in Runners PROVE Lowest(q)'
  <2>a. Lowest(q)
    BY <1>t DEF TransactionInv
  <2>b. PICK r \in Runners : Step(r) \/ Fail(r)
    BY <1>1 DEF Next
  <2>1. CASE CheckTable(r) \/ FetchApplied(r) \/ Record(r) \/ Finish(r)
    BY <1>t, <2>a, <2>1 DEF CheckTable, FetchApplied, Record, Finish, GoTo, TypeOK
  <2>2. CASE Execute(r)
    BY <1>t, <2>a, <2>2 DEF Execute, GoTo, TypeOK
  <2>3. CASE Commit(r) \/ Restart(r)
    BY <1>t, <2>a, <2>3 DEF Commit, Restart, GoTo, TypeOK
  <2>4. CASE Fail(r)
    BY <1>t, <2>a, <2>4 DEF Fail, GoTo, TypeOK
  <2> QED
    BY <2>b, <2>1, <2>2, <2>3, <2>4 DEF Step
<1>2. ASSUME Next, NEW q \in Runners PROVE Alone(q)'
  <2>a. \A o \in Runners : Alone(o)
    BY <1>t DEF TransactionInv
  <2>b. PICK r \in Runners : Step(r) \/ Fail(r)
    BY <1>2 DEF Next
  <2>1. CASE CheckTable(r) \/ FetchApplied(r) \/ Finish(r)
    BY <1>t, <2>a, <2>1 DEF CheckTable, FetchApplied, Finish, GoTo, TypeOK, IsRecorded, Locked
  <2>2. CASE Execute(r)
    BY <1>t, <2>a, <2>2 DEF Execute, GoTo, TypeOK, IsRecorded, Locked
  <2>3. CASE Record(r)
    BY <1>t, <2>a, <2>3 DEF Record, GoTo, TypeOK, IsRecorded, Locked
  <2>4. CASE Restart(r)
    BY <1>t, <2>a, <2>4 DEF Restart, GoTo, TypeOK, IsRecorded, Locked
  <2>5. CASE pc[r] = "commit" /\ Committed(r) /\ pc' = [pc EXCEPT ![r] = pc'[r]]
             /\ pc'[r] # "commit" /\ current' = current
    <3>1. DOMAIN recorded' = DOMAIN recorded \cup {current[r]}
      BY <2>5, CommitNext
    <3>2. ASSUME pc[q] = "commit", q # r PROVE current[q] # current[r]
      BY <2>5, <2>a, <3>2 DEF Locked
    <3> QED
      BY <1>t, <2>5, <2>a, <3>1, <3>2 DEF TypeOK, IsRecorded, Locked
  <2>6. CASE Commit(r)
    BY <1>t, <2>5, <2>6 DEF Commit, GoTo, TypeOK
  <2>7. CASE Fail(r)
    <3>1. CASE UNCHANGED recorded
      BY <1>t, <2>a, <2>7, <3>1 DEF Fail, GoTo, TypeOK, IsRecorded, Locked
    <3>2. CASE pc[r] = "commit" /\ Committed(r)
      BY <1>t, <2>5, <2>7, <3>2 DEF Fail, GoTo, TypeOK
    <3> QED
      BY <2>7, <3>1, <3>2 DEF Fail
  <2> QED
    BY <2>b, <2>1, <2>2, <2>3, <2>4, <2>6, <2>7 DEF Step
<1>3. CASE UNCHANGED vars
  BY <1>t, <1>3 DEF vars, runner, TransactionInv, IsRecorded, Locked
<1> QED
  BY <1>1, <1>2, <1>3 DEF TransactionInv

(* The invariant of all containers, transactions and the schema together.     *)
THEOREM Inductive == Spec => []IInv
<1>1. IInv /\ [Next]_vars => IInv'
  <2> SUFFICES ASSUME IInv, [Next]_vars PROVE IInv'
    OBVIOUS
  <2>1. TypeOK' /\ SchemaIsRecorded'
    BY NextType, RecordedStays
  <2>2. ProgressInv' /\ TransactionInv'
    BY NextProgress, NextTransaction
  <2>3. StartedOnOwnSchema'   \* every version is recorded, and that is the schema
    BY <2>1, <2>2 DEF ProgressInv, SchemaIsRecorded, StartedOnOwnSchema, Applied, IsRecorded
  <2> QED
    BY <2>1, <2>2, <2>3 DEF IInv
<1> QED
  BY InitInv, <1>1, PTL DEF Spec

(* Types of the containers and the database. *)
THEOREM TypeCorrect == Spec => []TypeOK
<1>1. IInv => TypeOK
  BY DEF IInv
<1> QED
  BY <1>1, Inductive, PTL

(* However containers race, fail and restart, schema_migrations lists exactly *)
(* the files in effect, each once and in order (_apply_migration).          *)
THEOREM SchemaIsTrue == Spec => []SchemaIsRecorded
<1>1. IInv => SchemaIsRecorded
  BY DEF IInv
<1> QED
  BY <1>1, Inductive, PTL

(* A container that started listening found every file of its release in      *)
(* effect (get_pending_migrations and apply_migrations).                    *)
THEOREM StartIsSafe == Spec => []StartedOnOwnSchema
<1>1. IInv => StartedOnOwnSchema
  BY DEF IInv
<1> QED
  BY <1>1, Inductive, PTL

-----------------------------------------------------------------------------
(* The files in effect, of a schema of any length.                           *)
LEMMA EffectType ==
  ASSUME TypeOK
  PROVE  /\ InEffect \in Seq(Files)
         /\ Len(InEffect) = Len(schema) /\ Len(schema) \in Nat
         /\ DOMAIN InEffect = 1..Len(schema)
<1>1. DOMAIN schema = 1..Len(schema) /\ Len(schema) \in Nat
  BY DEF TypeOK
<1>2. \A i \in DOMAIN schema : schema[i][2] \in Files
  BY DEF TypeOK
<1>3. InEffect \in [1..Len(schema) -> Files]
  BY <1>1, <1>2 DEF InEffect
<1> QED
  BY <1>1, <1>3

(* A COMMIT puts the file of its version after the files in effect.           *)
LEMMA EffectGrows ==
  ASSUME NEW s \in Seq(Nat \X Files), NEW v \in Nat, NEW f \in Files,
         NEW t, t = Append(s, <<v, f>>)
  PROVE  [i \in DOMAIN t |-> t[i][2]] = Append([i \in DOMAIN s |-> s[i][2]], f)
<1> DEFINE A == [i \in DOMAIN s |-> s[i][2]]
           B == [i \in DOMAIN t |-> t[i][2]]
<1>1. DOMAIN s = 1..Len(s) /\ Len(s) \in Nat
  OBVIOUS
<1>2. A \in [1..Len(s) -> Files]
  BY <1>1
<1>3. A \in Seq(Files) /\ Len(A) = Len(s)
  BY <1>1, <1>2
<1>4. DOMAIN Append(A, f) = 1..(Len(s) + 1) /\ Append(A, f)[Len(s) + 1] = f
  BY <1>1, <1>3
<1>5. \A i \in 1..Len(s) : Append(A, f)[i] = s[i][2]
  BY <1>1, <1>3
<1>6. DOMAIN t = 1..(Len(s) + 1)
  BY <1>1
<1>7. /\ t[Len(s) + 1] = <<v, f>>
      /\ \A i \in 1..Len(s) : t[i] = s[i]
  BY <1>1
<1>8. \A i \in 1..(Len(s) + 1) : B[i] = Append(A, f)[i]
  <2>1. \A i \in 1..(Len(s) + 1) : i \in 1..Len(s) \/ i = Len(s) + 1
    BY <1>1
  <2> QED
    BY <1>4, <1>5, <1>6, <1>7, <2>1
<1>9. B = Append(A, f)
  <2>1. Append(A, f) \in Seq(Files)
    BY <1>3
  <2>2. Append(A, f) = [i \in 1..(Len(s) + 1) |-> Append(A, f)[i]]
    BY <1>4, <2>1
  <2> QED
    BY <1>6, <1>8, <2>2
<1> QED
  BY <1>9

(* A transaction about to commit is of a release that goes on where the       *)
(* schema ends.                                                             *)
LEMMA CommitGoesOn ==
  ASSUME IInv, NEW r \in Runners, pc[r] = "commit", Committed(r)
  PROVE  Ledger!Apply(image[r])
<1>1. TypeOK /\ SchemaIsRecorded /\ ProgressInv /\ TransactionInv
  BY DEF IInv
<1>2. current[r] = Len(schema) + 1 /\ current[r] \in DOMAIN image[r]
  BY CommitNext
<1>3. /\ image[r] \in Releases
      /\ DOMAIN image[r] = 1..Len(image[r]) /\ Len(image[r]) \in Nat
      /\ image[r][current[r]] \in Files
  BY <1>1, <1>2, ReleaseVersions DEF TypeOK
<1>4. Len(InEffect) = Len(schema) /\ Len(schema) \in Nat /\ DOMAIN InEffect = 1..Len(schema)
  BY <1>1, EffectType
<1>5. Len(InEffect) < Len(image[r])
  BY <1>2, <1>3, <1>4
<1>6. ASSUME NEW i \in DOMAIN InEffect PROVE InEffect[i] = image[r][i]
  <2>1. i \in DOMAIN image[r] /\ i < current[r] /\ i \in DOMAIN schema
    BY <1>2, <1>3, <1>4 DEF InEffect
  <2>2. \A w \in pending[r] : current[r] <= w
    BY <1>1 DEF TransactionInv
  <2>3. i \notin pending[r]
    BY <1>2, <1>4, <2>1, <2>2
  <2>4. recorded[i] = image[r][i]
    BY <1>1, <2>1, <2>3 DEF ProgressInv, Applied
  <2>5. schema[i][2] = recorded[i]
    BY <1>1, <2>1 DEF SchemaIsRecorded
  <2> QED
    BY <2>1, <2>4, <2>5 DEF InEffect
<1>7. schema' = Append(schema, <<current[r], image[r][current[r]]>>)
  BY DEF Committed
<1>8. InEffect' = Append(InEffect, image[r][current[r]])
  BY <1>1, <1>2, <1>3, <1>4, <1>7, EffectGrows DEF InEffect, TypeOK
<1> QED
  BY <1>2, <1>4, <1>5, <1>6, <1>8 DEF Ledger!Apply, Ledger!GoesOn

(* The runner keeps the promise of SchemaLedger: a COMMIT, acknowledged or not, *)
(* is an Apply of the container's release, anything else leaves the schema    *)
(* as it is (apply_migrations).                                             *)
THEOREM SchemaFollowsReleases == Spec => ImplementsLedger
<1>1. Init => Ledger!Init
  <2> SUFFICES ASSUME Init PROVE InEffect = <<>>
    BY DEF Ledger!Init
  <2>1. schema = <<>> /\ DOMAIN schema = {}
    BY DEF Init
  <2> QED
    BY <2>1 DEF InEffect
<1>2. IInv /\ [Next]_vars => [Ledger!Next]_InEffect
  <2> SUFFICES ASSUME IInv, [Next]_vars PROVE [Ledger!Next]_InEffect
    OBVIOUS
  <2>1. CASE UNCHANGED schema
    BY <2>1 DEF InEffect
  <2>2. ASSUME NEW r \in Runners, pc[r] = "commit", Committed(r) PROVE Ledger!Next
    <3>1. image[r] \in Releases
      BY DEF IInv, TypeOK
    <3> QED
      BY <2>2, <3>1, CommitGoesOn DEF Ledger!Next
  <2>3. CASE UNCHANGED vars
    BY <2>1, <2>3 DEF vars
  <2> QED
    BY <2>1, <2>2, <2>3, NextCommits
<1> QED
  BY <1>1, <1>2, Inductive, PTL DEF Spec, ImplementsLedger, Ledger!Spec
=============================================================================
