----------------------------- MODULE Migrations -----------------------------
(***************************************************************************)
(* MigrationRunner (src/pybmpmon/database/migrations.py) as main() runs it *)
(* at every start of a container; docker-compose restarts a container that *)
(* ended.  Containers of different releases may start on one database at   *)
(* once.  A release is the list of its migration files in order, a file    *)
(* standing for its SQL and so for its checksum; the first one is          *)
(* 000_bootstrap, which creates schema_migrations itself.                  *)
(***************************************************************************)
EXTENDS Naturals, Sequences

CONSTANTS
  Runners,      \* containers
  Files,
  Releases,     \* the releases: sequences of Files
  MaxFailures   \* bound: failed statements, lost connections, kills

ASSUME ReleasesAssumption == Releases \subseteq Seq(Files) \ {<<>>}
ASSUME FailuresAssumption == MaxFailures \in Nat

VARIABLES
  recorded,   \* schema_migrations: the checksum of each version in it
  pc,         \* pc[r]: the statement r comes to next
  image,      \* image[r]: the release r runs
  pending,    \* pending[r]: the versions r still has to apply
  current,    \* current[r]: the version r's transaction applies
  failures

(* History variable: what was committed, pairs <<version, file>> in order.  *)
VARIABLE schema

runner == <<pc, image, pending, current>>
vars == <<recorded, runner, failures, schema>>

Init ==
  /\ recorded = <<>>
  /\ pc = [r \in Runners |-> "check"]
  /\ image \in [Runners -> Releases]
  /\ pending = [r \in Runners |-> {}]
  /\ current = [r \in Runners |-> 0]
  /\ failures = 0
  /\ schema = <<>>

IsRecorded(v) == v \in DOMAIN recorded

GoTo(r, l) == pc' = [pc EXCEPT ![r] = l]

(* No table schema_migrations: every version is pending.                    *)
CheckTable(r) ==
  /\ pc[r] = "check"
  /\ IF IsRecorded(1)
     THEN /\ GoTo(r, "fetch")
          /\ UNCHANGED pending
     ELSE /\ GoTo(r, "next")
          /\ pending' = [pending EXCEPT ![r] = DOMAIN image[r]]
  /\ UNCHANGED <<recorded, image, current, failures, schema>>

(* The release has another file for a version that was applied.             *)
Tampered(r) == \E v \in DOMAIN image[r] \cap DOMAIN recorded : recorded[v] # image[r][v]

(* Mutated: only the version numbers are compared. *)
FetchUnchecked(r) ==
  /\ pc[r] = "fetch"
  /\ GoTo(r, "next")
  /\ pending' = [pending EXCEPT ![r] = DOMAIN image[r] \ DOMAIN recorded]
  /\ UNCHANGED <<recorded, image, current, failures, schema>>

(* The versions and checksums are read and compared; a mismatch is raised.   *)
FetchApplied(r) ==
  /\ pc[r] = "fetch"
  /\ \/ /\ Tampered(r)
        /\ GoTo(r, "failed")
        /\ UNCHANGED pending
     \/ /\ ~Tampered(r)
        /\ GoTo(r, "next")
        /\ pending' = [pending EXCEPT ![r] = DOMAIN image[r] \ DOMAIN recorded]
  /\ UNCHANGED <<recorded, image, current, failures, schema>>

(* The lowest pending version: its transaction begins and executes its SQL.  *)
Execute(r) ==
  /\ pc[r] = "next"
  /\ \E v \in pending[r] : /\ \A w \in pending[r] : v <= w
                           /\ current' = [current EXCEPT ![r] = v]
  /\ GoTo(r, "record")
  /\ UNCHANGED <<recorded, image, pending, failures, schema>>

(* The primary key of an uncommitted row: another INSERT of it waits.        *)
Locked(r) == \E o \in Runners \ {r} : pc[o] = "commit" /\ current[o] = current[r]

(* Mutated: INSERT ... ON CONFLICT DO NOTHING. *)
RecordOnConflict(r) ==
  /\ pc[r] = "record" /\ ~Locked(r)
  /\ GoTo(r, "commit")
  /\ UNCHANGED <<recorded, image, pending, current, failures, schema>>

(* The version is inserted, or is there already: unique_violation, and the   *)
(* transaction is rolled back with the SQL it executed.                     *)
Record(r) ==
  /\ pc[r] = "record" /\ ~Locked(r)
  /\ GoTo(r, IF IsRecorded(current[r]) THEN "failed" ELSE "commit")
  /\ UNCHANGED <<recorded, image, pending, current, failures, schema>>

(* Mutated: the row gets the number of the version before. *)
CommittedBefore(r) ==
  LET v == current[r] IN
  /\ recorded' = [w \in DOMAIN recorded \cup {v - 1} |->
                    IF w = v - 1 THEN image[r][v] ELSE recorded[w]]
  /\ schema' = Append(schema, <<v, image[r][v]>>)

(* What COMMIT makes visible: the row and the effect of the SQL.              *)
Committed(r) ==
  LET v == current[r] IN
  /\ recorded' = [w \in DOMAIN recorded \cup {v} |->
                    IF w = v THEN image[r][v] ELSE recorded[w]]
  /\ schema' = Append(schema, <<v, image[r][v]>>)

Commit(r) ==
  /\ pc[r] = "commit"
  /\ Committed(r)
  /\ pending' = [pending EXCEPT ![r] = @ \ {current[r]}]
  /\ GoTo(r, "next")
  /\ UNCHANGED <<image, current, failures>>

(* Nothing is pending: the listener is started.                             *)
Finish(r) ==
  /\ pc[r] = "next" /\ pending[r] = {}
  /\ GoTo(r, "done")
  /\ UNCHANGED <<recorded, image, pending, current, failures, schema>>

(* A statement fails or the container is killed: an open transaction is      *)
(* rolled back, but a COMMIT that was sent may have taken effect.           *)
Fail(r) ==
  /\ pc[r] \notin {"failed", "done"} /\ failures < MaxFailures
  /\ failures' = failures + 1
  /\ GoTo(r, "failed")
  /\ \/ UNCHANGED <<recorded, schema>>
     \/ pc[r] = "commit" /\ Committed(r)
  /\ UNCHANGED <<image, pending, current>>

(* Mutated: a restarted container goes on with the list it had. *)
RestartResumes(r) ==
  /\ pc[r] = "failed"
  /\ GoTo(r, "next")
  /\ UNCHANGED <<recorded, image, pending, current, failures, schema>>

(* "restart: unless-stopped".                                               *)
Restart(r) ==
  /\ pc[r] = "failed"
  /\ GoTo(r, "check")
  /\ pending' = [pending EXCEPT ![r] = {}]
  /\ current' = [current EXCEPT ![r] = 0]
  /\ UNCHANGED <<recorded, image, failures, schema>>

Step(r) == CheckTable(r) \/ FetchApplied(r) \/ Execute(r) \/ Record(r) \/ Commit(r)
             \/ Finish(r) \/ Restart(r)

Next == \E r \in Runners : Step(r) \/ Fail(r)

Spec == Init /\ [][Next]_vars

(* A statement is answered, a row lock is released when its transaction ends, *)
(* and a container that ended is restarted.                                 *)
Fairness == \A r \in Runners : WF_vars(Step(r))

FairSpec == Spec /\ Fairness

-----------------------------------------------------------------------------
(* Type invariant. *)
TypeOK ==
  /\ DOMAIN recorded \subseteq Nat \ {0}
  /\ \A v \in DOMAIN recorded : recorded[v] \in Files
  /\ pc \in [Runners -> {"check", "fetch", "next", "record", "commit", "failed", "done"}]
  /\ image \in [Runners -> Releases]
  /\ pending \in [Runners -> SUBSET Nat]
  /\ current \in [Runners -> Nat]
  /\ failures \in Nat
  /\ schema \in Seq(Nat \X Files)

(* schema_migrations tells the truth: its versions have no gap and are the    *)
(* files whose SQL is in effect, each executed once and in order, whatever  *)
(* runners raced or died.                                                   *)
SchemaIsRecorded ==
  /\ DOMAIN recorded = DOMAIN schema
  /\ \A i \in DOMAIN schema : schema[i] = <<i, recorded[i]>>

(* A container starts its listener only on a schema that begins with every    *)
(* file of its own release.                                                 *)
StartedOnOwnSchema ==
  \A r \in Runners : pc[r] = "done" =>
    \A v \in DOMAIN image[r] : v \in DOMAIN schema /\ schema[v][2] = image[r][v]

(* The files whose SQL is in effect. *)
InEffect == [i \in DOMAIN schema |-> schema[i][2]]

Ledger == INSTANCE SchemaLedger WITH applied <- InEffect

(* However containers of different releases race, fail and restart, the schema *)
(* only ever grows, by the next file of a release that begins with all of     *)
(* it: no database gets files that no one release has in this order.         *)
ImplementsLedger == Ledger!Spec

(* Restarting helps: a container whose release agrees with the schema comes   *)
(* up in the end, whoever it races with.                                    *)
AgreeingRunnersStart ==
  \A r \in Runners : <>(pc[r] = "done" \/ Tampered(r))

-----------------------------------------------------------------------------
(* The parts of the inductive invariant: what r has established about every   *)
(* version of its release that is no longer pending ...                     *)
Applied(r, v) == IsRecorded(v) /\ recorded[v] = image[r][v]

ProgressInv ==
  \A r \in Runners :
    pc[r] \in {"next", "record", "commit", "done"} =>
      /\ pending[r] \subseteq DOMAIN image[r]
      /\ \A v \in DOMAIN image[r] \ pending[r] : Applied(r, v)
      /\ pc[r] = "done" => pending[r] = {}

(* ... and about the one its transaction applies.                            *)
TransactionInv ==
  \A r \in Runners :
    /\ pc[r] \in {"record", "commit"} =>
         /\ current[r] \in pending[r]
         /\ \A w \in pending[r] : current[r] <= w
    /\ pc[r] = "commit" =>
         /\ ~IsRecorded(current[r])
         /\ ~Locked(r)

IInv == TypeOK /\ SchemaIsRecorded /\ ProgressInv /\ TransactionInv /\ StartedOnOwnSchema
=============================================================================
