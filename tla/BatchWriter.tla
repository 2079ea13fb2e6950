---------------------------- MODULE BatchWriter ----------------------------
(***************************************************************************)
(* The batch writer of src/pybmpmon/database/batch_writer.py with the      *)
(* tasks that share it: one connection handler per router (they call       *)
(* add_route), the periodic flush task, and the main task, which calls     *)
(* stop() when a signal ends run_listener.  asyncio runs one task at a     *)
(* time and switches only at an await, so every action below is the code   *)
(* between two awaits of one task.                                         *)
(*                                                                         *)
(* A route is its number in arrival order.  The Python list self.batch is  *)
(* never emptied, it is REPLACED by a new list, and a flush works on list  *)
(* objects it has read from self.batch earlier: list objects are numbered, *)
(* "gen" is the one self.batch names, home[r] the one r was appended to.   *)
(***************************************************************************)
EXTENDS Naturals, Sequences, FiniteSets

CONSTANTS
  Handlers,     \* the tasks running BMPListener._handle_connection
  Periodic,     \* the task running BatchWriter._periodic_flush
  Main,         \* the task running run_listener, which calls stop()
  MaxRoutes,    \* bound: routes the routers send
  BatchSize,    \* batch_size
  PoolSize,     \* max_size of the connection pool
  Unstorable,   \* routes COPY cannot encode (an ASN above 2^31 - 1)
  MaxFailures,  \* bound: database errors
  MaxSignals,   \* bound: SIGTERM / SIGINT received
  Prefixes,     \* what route_state keeps a row for
  Prefix        \* Prefix[r]: the one route r is about

Tasks == Handlers \cup {Periodic, Main}
Routes == 1..MaxRoutes

ASSUME TasksAssumption == /\ Periodic \notin Handlers
                          /\ Main \notin Handlers
                          /\ Periodic # Main
ASSUME SizesAssumption == /\ MaxRoutes \in Nat
                          /\ BatchSize \in Nat \ {0}
                          /\ PoolSize \in Nat \ {0}
                          /\ MaxFailures \in Nat
                          /\ MaxSignals \in Nat
                          /\ Unstorable \subseteq Nat
ASSUME PrefixAssumption == Prefix \in [Routes -> Prefixes]

VARIABLES
  running,    \* is_running
  home,       \* home[r]: the list object route r was appended to
  gen,        \* the list object self.batch names
  timer,      \* batch_start_time: "none", "recent", "due" (batch_timeout over)
  written,    \* total_routes_written
  phase,      \* how far run_listener is
  pc,         \* pc[t]: the await task t is suspended at
  count,      \* count[t]: batch_count of t's flush
  held,       \* held[t]: the list object t's flush copies or iterates
  rows,       \* rows[t]: the rows t's COPY has sent
  at,         \* at[t]: the route whose state t is updating
  exc,        \* exc[t]: the exception t's flush unwinds with
  cancel,     \* cancel[t]: cancel() was called on t, not yet delivered
  copied,     \* copied[r]: rows of r committed to route_updates
  shown,      \* shown[p]: the route p's row in route_state shows, or 0
  failures,   \* database errors so far
  signals     \* signals so far

(* History variables: no code reads them, no guard mentions them. *)
VARIABLES
  safe,       \* routes appended while no flush was past reading their list
  dropped,    \* list objects replaced by a flush that raised
  overlapped  \* a flush has begun while another was in flight

list == <<running, home, gen, timer, written>>
flush == <<pc, count, held, rows, at, exc>>
db == <<copied, shown>>
env == <<failures, signals>>
history == <<safe, dropped, overlapped>>
vars == <<list, flush, phase, cancel, db, env, history>>

ListAt(l) == {r \in DOMAIN home : home[r] = l}
Batch == ListAt(gen)

Locations == {"idle", "acquire", "copy", "commit", "state", "release", "gone"}
Holding == {"copy", "commit", "state", "release"}
InFlight(t) == pc[t] \in Holding \cup {"acquire"}
HoldsConnection(t) == pc[t] \in Holding
Holders == {t \in Tasks : HoldsConnection(t)}

-----------------------------------------------------------------------------
Init ==
  /\ running = TRUE /\ home = <<>> /\ gen = 1 /\ timer = "none" /\ written = 0
  /\ phase = "serving"
  /\ pc = [t \in Tasks |-> "idle"]
  /\ count = [t \in Tasks |-> 0]
  /\ held = [t \in Tasks |-> 0]
  /\ rows = [t \in Tasks |-> {}]
  /\ at = [t \in Tasks |-> 0]
  /\ exc = [t \in Tasks |-> "none"]
  /\ cancel = [t \in Tasks |-> FALSE]
  /\ copied = [r \in Routes |-> 0] /\ shown = [p \in Prefixes |-> 0]
  /\ failures = 0 /\ signals = 0
  /\ safe = {} /\ dropped = {} /\ overlapped = FALSE

Runs(t) == ~cancel[t]

(* Task t calls flush() with n routes in self.batch: it counts them and     *)
(* awaits a connection.                                                    *)
BeginFlush(t, n) ==
  /\ pc' = [pc EXCEPT ![t] = "acquire"]
  /\ count' = [count EXCEPT ![t] = n]
  /\ overlapped' = (overlapped \/ \E u \in Tasks : InFlight(u))
  /\ UNCHANGED <<held, rows, at, exc>>

(* The task of a flush that ends with e goes back to its caller: a handler   *)
(* or the periodic task swallows an error and ends when cancelled; stop()   *)
(* ends with its flush.                                                     *)
LeaveFlush(t, e) ==
  /\ dropped' = IF e = "none" THEN dropped ELSE dropped \cup {gen}
  /\ pc' = [pc EXCEPT ![t] = IF t = Main \/ e = "cancelled" THEN "gone" ELSE "idle"]
  /\ phase' = IF t # Main THEN phase
              ELSE IF e = "none" THEN "stopped"
              ELSE IF e = "error" THEN "failed" ELSE "aborted"
  /\ count' = [count EXCEPT ![t] = 0]
  /\ held' = [held EXCEPT ![t] = 0]
  /\ rows' = [rows EXCEPT ![t] = {}]
  /\ at' = [at EXCEPT ![t] = 0]
  /\ exc' = [exc EXCEPT ![t] = "none"]
  /\ UNCHANGED <<running, home, safe, overlapped>>

(* Mutated: the total counts what a failed flush had set out to write.        *)
TotalAlways(t, e) == written + count[t]

TotalAfter(t, e) == IF e = "none" THEN written + count[t] ELSE written

(* Mutated forms of EndFlush: the counter is rolled back on failure; the     *)
(* timer is left running; a failed batch is kept for another attempt.       *)
EndFlushRollsBack(t, e) ==
  /\ gen' = gen + 1 /\ timer' = "none"
  /\ written' = IF e = "none" THEN written + count[t] ELSE written - count[t]
  /\ LeaveFlush(t, e)

EndFlushKeepsTimer(t, e) ==
  /\ gen' = gen + 1 /\ UNCHANGED timer
  /\ written' = TotalAfter(t, e)
  /\ LeaveFlush(t, e)

EndFlushRetries(t, e) ==
  /\ IF e = "error" THEN UNCHANGED <<gen, timer>> ELSE gen' = gen + 1 /\ timer' = "none"
  /\ written' = TotalAfter(t, e)
  /\ LeaveFlush(t, e)

(* flush() leaves _flush_batch with e: the counter moves on success only,    *)
(* but self.batch is replaced whatever happened, and whatever list it named *)
(* at that moment.                                                          *)
EndFlush(t, e) ==
  /\ gen' = gen + 1
  /\ timer' = "none"
  /\ written' = TotalAfter(t, e)
  /\ LeaveFlush(t, e)

(* An exception e inside the "async with": the connection goes back first.  *)
Unwind(t, e) ==
  /\ pc' = [pc EXCEPT ![t] = "release"]
  /\ exc' = [exc EXCEPT ![t] = e]
  /\ rows' = [rows EXCEPT ![t] = {}]
  /\ at' = [at EXCEPT ![t] = 0]
  /\ UNCHANGED <<count, held>>

(* A flush in flight has already read its list, or reads a replaced one.     *)
Exposed == \E t \in Tasks : \/ pc[t] \in {"commit", "state", "release"}
                            \/ pc[t] = "copy" /\ held[t] # gen

(* Mutated: batch_start_time is never set. *)
TimerNotStarted == timer

StartTimer == IF timer = "none" THEN "recent" ELSE timer

(* add_route appends, starts the timer, and flushes a full batch.           *)
AddRoute(t) ==
  /\ t \in Handlers /\ pc[t] = "idle" /\ Runs(t)
  /\ running /\ Len(home) < MaxRoutes
  /\ home' = Append(home, gen)
  /\ timer' = StartTimer
  /\ safe' = IF Exposed THEN safe ELSE safe \cup {Len(home) + 1}
  /\ LET n == Cardinality(Batch) + 1 IN
       IF n >= BatchSize
       THEN BeginFlush(t, n)
       ELSE UNCHANGED <<flush, overlapped>>
  /\ UNCHANGED <<running, gen, written, phase, cancel, db, env, dropped>>

(* batch_timeout passes. *)
TimerExpires ==
  /\ timer = "recent"
  /\ timer' = "due"
  /\ UNCHANGED <<running, home, gen, written, flush, phase, cancel, db, env, history>>

(* The periodic task wakes and finds the timer over; flush() returns at once *)
(* when the batch is empty.                                                 *)
PeriodicFlush ==
  /\ pc[Periodic] = "idle" /\ Runs(Periodic)
  /\ running /\ timer = "due" /\ Batch # {}
  /\ BeginFlush(Periodic, Cardinality(Batch))
  /\ UNCHANGED <<list, phase, cancel, db, env, safe, dropped>>

(* A connection is free: COPY is called with the list self.batch names NOW. *)
Acquire(t) ==
  /\ pc[t] = "acquire" /\ Runs(t)
  /\ Cardinality(Holders) < PoolSize
  /\ pc' = [pc EXCEPT ![t] = "copy"]
  /\ held' = [held EXCEPT ![t] = gen]
  /\ UNCHANGED <<list, count, rows, at, exc, phase, cancel, db, env, history>>

(* Mutated: only the batch_count routes counted by flush() are copied. *)
CopyReadCounted(t) ==
  LET counted == {r \in ListAt(held[t]) :
                    Cardinality({q \in ListAt(held[t]) : q <= r}) <= count[t]} IN
  /\ pc[t] = "copy" /\ Runs(t)
  /\ IF counted \cap Unstorable = {}
     THEN /\ pc' = [pc EXCEPT ![t] = "commit"]
          /\ rows' = [rows EXCEPT ![t] = counted]
          /\ UNCHANGED <<count, held, at, exc>>
     ELSE Unwind(t, "error")
  /\ UNCHANGED <<list, phase, cancel, db, env, history>>

(* Mutated: records that cannot be encoded are left out of the COPY. *)
CopyReadSkips(t) ==
  /\ pc[t] = "copy" /\ Runs(t)
  /\ pc' = [pc EXCEPT ![t] = "commit"]
  /\ rows' = [rows EXCEPT ![t] = ListAt(held[t]) \ Unstorable]
  /\ UNCHANGED <<count, held, at, exc>>
  /\ UNCHANGED <<list, phase, cancel, db, env, history>>

(* The server is ready for COPY: the list is read as it is now; a record     *)
(* that cannot be encoded fails the whole COPY.                             *)
CopyRead(t) ==
  /\ pc[t] = "copy" /\ Runs(t)
  /\ IF ListAt(held[t]) \cap Unstorable = {}
     THEN /\ pc' = [pc EXCEPT ![t] = "commit"]
          /\ rows' = [rows EXCEPT ![t] = ListAt(held[t])]
          /\ UNCHANGED <<count, held, at, exc>>
     ELSE Unwind(t, "error")
  /\ UNCHANGED <<list, phase, cancel, db, env, history>>

Insert(rs) == [r \in Routes |-> copied[r] + (IF r \in rs THEN 1 ELSE 0)]

(* The for loop over list object l has handled the routes up to "last": it   *)
(* takes the next one of the list as it is now, or leaves the "async with". *)
LoopOn(t, l, last) ==
  LET rest == {q \in ListAt(l) : q > last} IN
  /\ held' = [held EXCEPT ![t] = l]
  /\ rows' = [rows EXCEPT ![t] = {}]
  /\ \/ /\ rest = {}
        /\ pc' = [pc EXCEPT ![t] = "release"]
        /\ at' = [at EXCEPT ![t] = 0]
     \/ \E q \in rest : /\ \A p \in rest : q <= p
                        /\ pc' = [pc EXCEPT ![t] = "state"]
                        /\ at' = [at EXCEPT ![t] = q]
  /\ UNCHANGED <<count, exc>>

(* COPY has committed; the loop iterates over what self.batch names NOW.     *)
CopyCommit(t) ==
  /\ pc[t] = "commit" /\ Runs(t)
  /\ copied' = Insert(rows[t])
  /\ LoopOn(t, gen, 0)
  /\ UNCHANGED <<list, phase, cancel, shown, env, history>>

(* update_route_state overwrites the row of r's prefix (module RouteState).   *)
Shown(r) == [shown EXCEPT ![Prefix[r]] = r]

(* update_route_state has committed for the loop's current route. *)
UpdateState(t) ==
  /\ pc[t] = "state" /\ Runs(t)
  /\ shown' = Shown(at[t])
  /\ LoopOn(t, held[t], at[t])
  /\ UNCHANGED <<list, phase, cancel, copied, env, history>>

(* The connection is back in the pool and flush() ends.                     *)
Release(t) ==
  /\ pc[t] = "release" /\ Runs(t)
  /\ EndFlush(t, exc[t])
  /\ UNCHANGED <<cancel, db, env>>

(* What the server has done of the statement t was waiting for when t is     *)
(* interrupted: an autocommitted statement happened whole or not at all.    *)
StatementMayTakeEffect(t) ==
  \/ UNCHANGED db
  \/ pc[t] = "commit" /\ copied' = Insert(rows[t]) /\ UNCHANGED shown
  \/ pc[t] = "state" /\ shown' = Shown(at[t]) /\ UNCHANGED copied

(* A database error: no connection, a refused statement, a lost server, or  *)
(* the 30 seconds of command_timeout.                                       *)
DatabaseFails(t) ==
  /\ Runs(t) /\ failures < MaxFailures
  /\ failures' = failures + 1
  /\ \/ /\ pc[t] = "acquire"
        /\ EndFlush(t, "error")
        /\ UNCHANGED db
     \/ /\ pc[t] \in {"copy", "commit", "state"}
        /\ Unwind(t, "error")
        /\ StatementMayTakeEffect(t)
        /\ UNCHANGED <<list, phase, history>>
  /\ UNCHANGED <<cancel, signals>>

(* Mutated: the loop of _periodic_flush goes on after a CancelledError. *)
PeriodicGoesOn(t) == pc' = [pc EXCEPT ![t] = IF t = Periodic THEN "idle" ELSE "gone"]

(* A task ends when it is cancelled outside a flush. *)
EndTask(t) == pc' = [pc EXCEPT ![t] = "gone"]

(* CancelledError is thrown at the await t is suspended at.  While awaiting  *)
(* release it ends the flush at once: asyncpg shields the release itself.   *)
Cancelled(t) ==
  /\ cancel[t]
  /\ cancel' = [cancel EXCEPT ![t] = FALSE]
  /\ \/ /\ pc[t] = "idle"
        /\ EndTask(t)
        /\ UNCHANGED <<list, count, held, rows, at, exc, phase, db, history>>
     \/ /\ pc[t] \in {"acquire", "release"}
        /\ EndFlush(t, "cancelled")
        /\ UNCHANGED db
     \/ /\ pc[t] \in {"copy", "commit", "state"}
        /\ Unwind(t, "cancelled")
        /\ StatementMayTakeEffect(t)
        /\ UNCHANGED <<list, phase, history>>
  /\ UNCHANGED env

-----------------------------------------------------------------------------
(* SIGTERM or SIGINT: cancel() on every task.  Main leaves its serving loop  *)
(* for the finally of run_listener (listener.stop, then stop()); a second   *)
(* signal ends that finally, except while stop() awaits the flush task,     *)
(* whose CancelledError stop() swallows.                                    *)
Signal ==
  /\ signals < MaxSignals
  /\ phase \in {"serving", "closing", "joining", "flushing"}
  /\ signals' = signals + 1
  /\ phase' = IF phase = "serving" THEN "closing"
              ELSE IF phase = "closing" THEN "aborted" ELSE phase
  /\ pc' = [pc EXCEPT ![Main] = IF phase = "closing" THEN "gone" ELSE @]
  /\ cancel' = [t \in Tasks |-> IF t = Main THEN phase = "flushing"
                                ELSE pc[t] # "gone"]
  /\ UNCHANGED <<list, count, held, rows, at, exc, db, failures, history>>

(* Mutated: listener.stop does not wait for the handlers. *)
StopAtOnce ==
  /\ phase = "closing"
  /\ running' = FALSE
  /\ cancel' = [cancel EXCEPT ![Periodic] = pc[Periodic] # "gone"]
  /\ phase' = "joining"
  /\ UNCHANGED <<home, gen, timer, written, flush, db, env, history>>

(* listener.stop has waited for the handlers; stop() cancels the flush task. *)
Stop ==
  /\ phase = "closing"
  /\ \A t \in Handlers : pc[t] = "gone"
  /\ running' = FALSE
  /\ cancel' = [cancel EXCEPT ![Periodic] = pc[Periodic] # "gone"]
  /\ phase' = "joining"
  /\ UNCHANGED <<home, gen, timer, written, flush, db, env, history>>

(* The flush task has ended; stop() flushes what self.batch still holds.     *)
FinalFlush ==
  /\ phase = "joining"
  /\ pc[Periodic] = "gone"
  /\ IF Batch = {}
     THEN /\ phase' = "stopped"
          /\ pc' = [pc EXCEPT ![Main] = "gone"]
          /\ UNCHANGED <<count, held, rows, at, exc, overlapped>>
     ELSE /\ phase' = "flushing"
          /\ BeginFlush(Main, Cardinality(Batch))
  /\ UNCHANGED <<list, cancel, db, env, safe, dropped>>

FlushStep(t) == Acquire(t) \/ CopyRead(t) \/ CopyCommit(t) \/ UpdateState(t) \/ Release(t)

Next ==
  \/ TimerExpires \/ PeriodicFlush \/ Signal \/ Stop \/ FinalFlush
  \/ \E t \in Tasks : \/ AddRoute(t) \/ FlushStep(t)
                      \/ DatabaseFails(t) \/ Cancelled(t)

Spec == Init /\ [][Next]_vars

(* The event loop runs every ready task, the pool serves its waiters in      *)
(* turn (asyncio queue), and command_timeout ends every statement.          *)
Fairness ==
  /\ WF_vars(TimerExpires) /\ WF_vars(PeriodicFlush)
  /\ WF_vars(Stop) /\ WF_vars(FinalFlush)
  /\ \A t \in Tasks : /\ SF_vars(Acquire(t))
                      /\ WF_vars(CopyRead(t) \/ CopyCommit(t) \/ UpdateState(t) \/ Release(t))
                      /\ WF_vars(Cancelled(t))

FairSpec == Spec /\ Fairness

-----------------------------------------------------------------------------
(* Type invariant. *)
TypeOK ==
  /\ running \in BOOLEAN
  /\ home \in Seq(Nat)
  /\ gen \in Nat
  /\ timer \in {"none", "recent", "due"}
  /\ written \in Nat
  /\ phase \in {"serving", "closing", "joining", "flushing", "stopped", "failed", "aborted"}
  /\ pc \in [Tasks -> Locations]
  /\ count \in [Tasks -> Nat]
  /\ held \in [Tasks -> Nat]
  /\ rows \in [Tasks -> SUBSET Nat]
  /\ at \in [Tasks -> Nat]
  /\ exc \in [Tasks -> {"none", "error", "cancelled"}]
  /\ cancel \in [Tasks -> BOOLEAN]
  /\ copied \in [Routes -> Nat]
  /\ shown \in [Prefixes -> Nat]
  /\ failures \in Nat
  /\ signals \in Nat
  /\ safe \subseteq Nat
  /\ dropped \subseteq Nat
  /\ overlapped \in BOOLEAN

(* No batch is stranded: the timer runs exactly while self.batch holds a     *)
(* route, so the periodic task finds every batch that never fills up.       *)
TimerTracksBatch == timer = "none" <=> Batch = {}

(* The loss window is exactly "a flush has already read the list": a route   *)
(* appended outside of it is in route_updates once its list was replaced,   *)
(* unless the flush that replaced the list raised (then the code gives up   *)
(* that one list and no other).                                             *)
SafeRoutesAreWritten ==
  \A r \in safe : \/ home[r] = gen
                  \/ home[r] \in dropped
                  \/ copied[r] >= 1

(* A route has two rows only if two flushes were in flight together: no      *)
(* failure, cancellation or retry alone writes a route twice.               *)
OneRowWithoutOverlap == overlapped \/ \A r \in Routes : copied[r] <= 1

(* The routes that have a row in route_updates. *)
Stored == {r \in Routes : copied[r] >= 1}

(* total_routes_written is the count taken when a flush began, not the rows of *)
(* its COPY, and a signal can fall anywhere between the two: as long as      *)
(* flushes do not overlap, it never counts a route that is not in            *)
(* route_updates.                                                           *)
TotalIsWritten == overlapped \/ written <= Cardinality(Stored)

(* As long as flushes do not overlap, route_state only moves forward: not    *)
(* even a flush that failed halfway makes it show an older update of a      *)
(* prefix than it did.                                                      *)
StateMovesForward == [][overlapped \/ \A p \in Prefixes : shown[p] <= shown'[p]]_vars

History == INSTANCE RouteHistory WITH
  arrived <- Len(home), memory <- Batch, history <- Stored

(* As long as flushes do not overlap, route_updates grows in the order of       *)
(* arrival, by a batch from its first route on and each batch once, whatever  *)
(* fails or is cancelled before, in or after the COPY.                       *)
HistoryInOrder == History!Init /\ [][overlapped \/ History!Next]_(History!vars)

(* stop() has waited for everybody: once it has returned or raised nothing   *)
(* is left in memory, in flight, or able to add a route.                    *)
StopLeavesNothingBehind ==
  phase \in {"stopped", "failed"} =>
    /\ Batch = {}
    /\ ~running
    /\ \A t \in Tasks : pc[t] = "gone"

(* What a task has before it when it is told to end: the awaits of a flush,   *)
(* with one for each route the loop has still to come to.                    *)
StepsLeft(t) ==
  CASE pc[t] = "idle" -> Len(home) + (IF phase = "closing" THEN 6 ELSE 5)
    [] pc[t] = "acquire" -> Len(home) + 4
    [] pc[t] = "copy" -> Len(home) + 3
    [] pc[t] = "commit" -> Len(home) + 2
    [] pc[t] = "state" -> Len(home) + 2 - at[t]
    [] pc[t] = "release" -> 1
    [] pc[t] = "gone" -> 0

(* Once a signal came no route is added, and every step but another signal or  *)
(* the timer takes from what some task has left, and adds to none: the        *)
(* shutdown is as long as its tasks' awaits, and no flush starts another.     *)
ShutdownRunsOut ==
  [][phase # "serving" =>
       /\ home' = home
       /\ \A t \in Tasks : StepsLeft(t)' <= StepsLeft(t)
       /\ \/ \E t \in Tasks : StepsLeft(t)' < StepsLeft(t)
          \/ signals' # signals
          \/ timer = "recent" /\ timer' = "due"]_vars

-----------------------------------------------------------------------------
(* The parts of the inductive invariant.  First, what list objects hold:     *)
(* no list is newer than self.batch, rows are those of routes that came,    *)
(* and a flush keeps rows only between reading and committing them.         *)
ListsInv ==
  /\ Len(home) <= MaxRoutes
  /\ \A r \in DOMAIN home : home[r] <= gen
  /\ safe \subseteq DOMAIN home
  /\ \A t \in Tasks : /\ rows[t] \subseteq DOMAIN home
                      /\ pc[t] # "commit" => rows[t] = {}
  /\ \A r \in Routes : r > Len(home) => copied[r] = 0

(* A safe route still in self.batch goes with every flush in flight: it will *)
(* be read, has been read, or has been committed by it.                     *)
WindowInv ==
  \A r \in safe : home[r] = gen =>
    \A t \in Tasks :
      /\ pc[t] = "copy" => held[t] = gen
      /\ pc[t] = "commit" => r \in rows[t]
      /\ pc[t] = "state" => copied[r] >= 1
      /\ pc[t] = "release" => exc[t] # "none" \/ copied[r] >= 1

(* As long as flushes do not overlap, the one in flight works on self.batch, *)
(* none of which is committed before that flush commits it.                 *)
OverlapInv ==
  ~overlapped =>
    /\ \A t, u \in Tasks : InFlight(t) /\ InFlight(u) => t = u
    /\ \A t \in Tasks : pc[t] \in {"copy", "commit"} => held[t] = gen
    /\ \A t \in Tasks : \A r \in rows[t] : home[r] = gen
    /\ (\A t \in Tasks : pc[t] \notin {"state", "release"}) =>
         \A r \in DOMAIN home : home[r] = gen => copied[r] = 0

(* As long as flushes do not overlap, the loop's route is at or past what     *)
(* route_state shows, and a batch no flush has come that far with is newer.  *)
StateInv ==
  /\ \A p \in Prefixes : shown[p] <= Len(home)
  /\ \A t \in Tasks : pc[t] = "state" => at[t] \in DOMAIN home
  /\ ~overlapped =>
       /\ \A t \in Tasks : pc[t] = "state" => \A p \in Prefixes : shown[p] <= at[t]
       /\ (\A t \in Tasks : pc[t] \notin {"state", "release"}) =>
            \A r \in DOMAIN home : home[r] = gen => \A p \in Prefixes : shown[p] < r

(* As long as flushes do not overlap, the total counts routes of lists that     *)
(* were replaced, and the count of the flush in flight those of self.batch:  *)
(* first those it holds, then those among the rows, then those committed.    *)
StoredBefore == {r \in DOMAIN home : home[r] # gen /\ copied[r] >= 1}
StoredNow == {r \in DOMAIN home : home[r] = gen /\ copied[r] >= 1}

CountCovered(t) ==
  /\ pc[t] \in {"acquire", "copy"} => count[t] <= Cardinality(Batch)
  /\ pc[t] = "commit" => count[t] <= Cardinality(rows[t])
  /\ pc[t] = "state" \/ (pc[t] = "release" /\ exc[t] = "none") =>
       count[t] <= Cardinality(StoredNow)

TotalInv ==
  ~overlapped => written <= Cardinality(StoredBefore) /\ \A t \in Tasks : CountCovered(t)

(* List objects are filled one after the other, and the rows of a COPY were the  *)
(* oldest routes of self.batch when it read them, and still are.             *)
OrderInv ==
  /\ \A r, q \in DOMAIN home : r < q => home[r] <= home[q]
  /\ \A t \in Tasks : \A r \in rows[t], q \in Batch \ rows[t] : r < q

(* What has ended at each phase of the shutdown. *)
ShutdownInv ==
  /\ phase \in {"serving", "closing", "joining"} => pc[Main] = "idle"
  /\ phase = "flushing" => InFlight(Main)
  /\ phase \in {"stopped", "failed", "aborted"} => pc[Main] = "gone"
  /\ cancel[Main] => phase = "flushing"
  /\ phase \in {"joining", "flushing", "stopped", "failed"} =>
       ~running /\ \A t \in Handlers : pc[t] = "gone"
  /\ phase \in {"flushing", "stopped", "failed"} => pc[Periodic] = "gone"
  /\ phase \in {"stopped", "failed"} => Batch = {}

(* After a signal every task but main has ended, is about to be cancelled, or    *)
(* has been and is giving its connection back.                              *)
ClosingInv ==
  phase # "serving" =>
    \A t \in Tasks \ {Main} :
      \/ pc[t] = "gone"
      \/ cancel[t]
      \/ pc[t] = "release" /\ exc[t] = "cancelled"

IInv == /\ TypeOK /\ ListsInv /\ TimerTracksBatch
        /\ WindowInv /\ SafeRoutesAreWritten
        /\ OverlapInv /\ OneRowWithoutOverlap /\ StateInv
        /\ ShutdownInv

-----------------------------------------------------------------------------
(* Every route leaves memory: by the size, the timer or stop(), unless a     *)
(* second signal aborts the shutdown.                                       *)
RoutesLeaveMemory ==
  \A r \in Routes : (r \in Batch) ~> (r \notin Batch \/ phase = "aborted")

(* A signal ends the program: stop() is not kept waiting for ever.           *)
SignalEndsProgram ==
  (phase = "closing") ~> (phase \in {"stopped", "failed", "aborted"})
=============================================================================
