# pybmpmon in TLA+

A verification development for pybmpmon, the BMP monitoring daemon in `src/src/pybmpmon`: routers open TCP connections
and send BMP messages (RFC 7854); the daemon parses them, keeps a complete history of route updates in
`route_updates`, the current state of every route in `route_state`, and its peers in `bmp_peers` and `peer_events`.
Line numbers below are of the files under `src/src/pybmpmon/` unless a path says otherwise.

## 1. Inventory

The daemon is one asyncio process (Python 3.13, `src/Dockerfile`) beside a PostgreSQL/TimescaleDB server, both started
and restarted by docker-compose.

| component | state | operations | what makes it hard | correct when |
|---|---|---|---|---|
| batch writer, `database/batch_writer.py` | the list of routes, its start time, totals | `add_route`, `flush`, the periodic task, `stop` | one list object shared by every handler and the timer across three kinds of await; failures; cancellation | every route is written once, in order, and leaves memory |
| route state, `migrations/005_…sql` | the table `route_state` | `update_route_state` | a SELECT followed by a write, called by concurrent connections | a row is the summary of its calls |
| migration runner, `database/migrations.py` | `schema_migrations`, the schema | `apply_migrations` | containers started together, killed between statements, of different releases | what is recorded is what was done |
| listener, `listener.py` | tasks, start times by address | accept, read, dispatch, clean up, `stop` | framing after errors, connections of one address, exceptions in a `finally` | messages are accounted for, sessions end and leave nothing |
| statistics, `monitoring/stats.py` | counters by address | increment, log and reset, remove | shared by handlers and the logging task | no count is lost silently |
| peers and events, `database/operations.py` | `bmp_peers`, `peer_events` | upsert, mark inactive, insert event | two autocommitted statements per message | the tables agree |
| BGP parser, `protocol/bgp_parser.py` | an offset, the lists of routes, the description | `parse_bgp_update` and its parts | several parts with one family, malformed attributes, sizes that are guessed | it reads what was written, and a malformed attribute leaves nothing behind |
| BMP parser, `protocol/bmp_parser.py` | an offset | a parser for each of six message types | lengths inside lengths, loops whose step a router gives | it accepts exactly what has the format |
| binary reading, `utils/binary.py` | none | integers and octets at an offset | boundaries | no read leaves the message |
| process, `__main__.py` | the event loop | signals, start and end | cancels every task at once | ends, and flushes what is left |
| pool wrapper, Sentry, logging, configuration, models | – | – | – | not modelled, section 7 |

How they interact: a handler task per connection reads messages and calls the parsers; for a Route Monitoring message
it awaits `add_route` for each route, which awaits `flush` when the list is full; a flush borrows a connection of the
pool, COPYs the list into `route_updates` and calls `update_route_state` for every route; the periodic task calls
`flush` too, when the list is older than `batch_timeout`. Handlers, the logging task and the clean-up share the
statistics. A signal cancels every task; `run_listener`'s `finally` then stops listener, batch writer and statistics.

The hard behaviours are listed with their lines in `PROJECT.json` under "hazards".

## 2. Modules

| module | models | remarks |
|---|---|---|
| `BatchWriter` | `batch_writer.py` and the tasks that use it | one action per stretch of code between two awaits |
| `RouteRow`, `RouteState`, `RouteStateAtomic` | `update_route_state` | the row's arithmetic; the two statements; the one-step function they should implement |
| `RouteHistory` | what the batch writer promises of `route_updates` | abstract: arrive, write together, forget |
| `Migrations` | `migrations.py` | one action per statement |
| `SchemaLedger` | what the runner promises of the schema | abstract: a ledger that releases go on with |
| `Listener` | `listener.py`, `stats.py`, writes of `operations.py` | one action per stretch between two awaits |
| `UpdateParts` | what `parse_bgp_update` makes of an UPDATE | one action per part; the abstract specification of `BgpParser` |
| `RouteMonitoring` | `UpdateParts`, then `_handle_route_monitoring` and the identity of `route_state` | one action per route |
| `Binary` | `utils/binary.py` | operators |
| `BmpParser` | `bmp_parser.py` | one action per field or turn of a loop |
| `BgpParser` | `bgp_parser.py` | one action per attribute, AS_PATH segment or route |
| `MessageParser` | the two parsers, one after the other | composes `BmpParser` and `BgpParser` |
| `MC…` | instances for TLC and what documents say of the program | |
| `…Proofs` | theorems, checked by TLAPS | |

The modules are layered by what they hand over. `MessageParser` turns octets into the parts of an UPDATE; `RouteMonitoring` says which RouteUpdates a message becomes and under
which identity; `Listener` when they are added and what an exception does to the session; `BatchWriter` what becomes
of an added route; `RouteState` what concurrent calls of the function do to a row. Each module gives its neighbours
every behaviour they can have: in `Listener`, `add_route` may raise at any prefix; in `BatchWriter`, handlers may add
any route at any time; in `RouteState`, any calls may meet.

### BatchWriter

A Python list is an object. `flush` never empties `self.batch`, it makes it name a new list (line 175), and a flush
keeps working on list objects it has read before. So list objects are numbered: `gen` is the one `self.batch` names,
`home[r]` the one route `r` was appended to, `held[t]` the one task `t`'s COPY sends or its loop iterates. `pc[t]` is
the await a task is suspended at:

| `pc` | await | action that leaves it |
|---|---|---|
| `acquire` | `pool.acquire()`, 187 | `Acquire`: a connection is free, `self.batch` is read |
| `copy` | `copy_records_to_table`, 189: rows not read yet | `CopyRead` |
| `commit` | the same await, rows read | `CopyCommit`: rows are visible, `self.batch` is read again for the loop |
| `state` | `conn.execute(update_route_state)`, 217 | `UpdateState`, once per route |
| `release` | `__aexit__` of the pool, 187 | `Release`: then the `finally` and the caller go on |

A COPY sends the rows the list holds when asyncpg iterates it, so routes appended after `Acquire` and before `CopyRead` still go with it.
`DatabaseFails` is a failing statement or command timeout; `Cancelled` delivers a cancellation. An interrupted
statement may or may not have taken effect. Main's `phase` follows `run_listener`: `serving`, `closing` (the listener
waits for its handlers), `joining` (`stop` awaits the periodic task), `flushing`, then `stopped`, `failed` or
`aborted` (a second signal).

`RouteHistory` is the promise without lists, tasks or awaits: routes arrive in order and wait in memory; those that
wait are written together, once, the oldest of them without a gap and behind all that is written; memory is given up.
`BatchWriter` keeps it under the mapping of memory to `Batch` and of the history to the rows of `route_updates`, up to
the moment two flushes are in flight at once (`overlapped`); `HistoryInOrder` states the refinement with that condition in
the step, since a later step of the same behaviour may break what the earlier ones kept.

### RouteState

Keys stand for the identity columns of the two partial unique indexes. `Look` is the SELECT (line 103), `Update` and
`Insert` the write with a snapshot of its own (READ COMMITTED), `UniqueViolation` the refused second insert of a key.
Keys of family `'unknown'` have no SELECT, so that each call inserts. `RouteStateAtomic` applies a call in one step.

### Migrations

A container is at a statement: the look for the table, the read of what is applied, a migration's SQL, the insert into
`schema_migrations`, the commit. Both are in one transaction; the insert waits for another transaction's insert of the
same version (`Locked`). A failure rolls back and ends the container, docker-compose starts it again, with the same release.

`Init` is a database in which nothing has run. `docker-compose.yml:16` also mounts the SQL files into the init directory
of the local database, which then may have run them, unrecorded, before the first container starts. Such a start is outside
the model: the runner would run the files once more, which they are written for (`IF NOT EXISTS`, `DROP ... IF EXISTS`),
but what is recorded and what is in effect differ until it has.

`SchemaLedger` knows neither containers nor statements: the files in effect grow by one at a time, and always by the
next file of a release that begins with all of them. `Migrations` implements it unconditionally, with the SQL that took
effect for the ledger (`InEffect`).

### Listener

`pc[c]` is the await of connection `c`'s handler. Everything is keyed by address, as in the code, and two connections
may come from one. Messages have no content but the action `Dispatch` chooses. Bytes matter only after a header was
refused: its body stays in the stream (line 139: the body is read only after the header was accepted), `behind[c]`
says by how many bytes, and `ReadGarbage` reads a header from them, which can run into the next message
(`misread`). `DatabaseFails` and `Cancelled` can strike at any statement; what is cut there may still take effect.
`Close` follows `wait_closed` of Python 3.13: it raises again what the connection was lost with, and skips the rest of
the `finally`.

### RouteMonitoring

The parser's part is `UpdateParts`, which this module extends with the handler. A route is its family, its kind and a
name: the prefix, or the fields the parser keeps of an EVPN route (of a MAC/IP route distinguisher, segment and MAC).
The address of a MAC/IP route is apart from its name, since the first route lends its fields to others but not its
address (`bgp_parser.py:828-831`), and it can be a prefix of an IP route: both go to the CIDR column `prefix`. `BgpParser`
builds routes of the same shape from octets. An UPDATE is its withdrawn routes, its
MP_REACH and MP_UNREACH attributes in their order, and its NLRI; a part may contain something malformed. The parser's
local variables `afi`, `first` (the EVPN fields), `prefixes` and `withdrawn_prefixes` are variables, updated part by
part; then the handler makes one row per route, and `Key` says which row of `route_state` it finds. Path attributes
that describe a route are carried along by the code and left out here (`BgpParser` has them). The order of `route_state` is the order of adding:
what overlapping flushes change in that is the subject of `BatchWriter`. The history variable `truth` is what the
router said of a route last, as long as every message about its name was one the parser understands.

### Binary, BmpParser, BgpParser, MessageParser

A message is a sequence of octets. `Binary` numbers them from 0 as the code does; `Holds` is the check every read of
`utils/binary.py` makes before it.

`BmpParser` has the offset `pos` and a `stage`, the field it is at. The code computes most offsets by adding constants
to the header's; the module moves `pos` by what was read, which comes to the same, since nothing is read twice.
`todo` is what is left of the count of statistics. The listener hands over a message whose length is that of its
header (`MessagesAssumption`); `parse_information_tlvs` ends where the header says, the statistics where the count
says. An OPEN is taken by the length inside it, which may be below 19.

`BgpParser` follows `parse_bgp_update`: structure and attributes first, then the withdrawn routes, then each attribute
in its order, then the NLRI. The code cuts values out of the message and reads them from 0; here they are regions of
the message (`attrs` holds type, start and end), and the type invariant says that no offset leaves its region. A
malformed structure, withdrawn route or NLRI refuses the whole message (`Refuse`), whatever is malformed in an
attribute skips that attribute (`Skip`, the `except Exception` of line 853). `found` are the routes of the part being
read: they join `announced` or `withdrawn` only at its end.

Each message carries, beside the octets the parser sees, what its writer meant: where its TLVs begin (`cuts`); of an
UPDATE the parts, the description and the numbers of its AS_PATH, and where attributes, routes and segments begin
(`attributeCuts`, `routeCuts`, `cuts`, `counts`). No guard reads these. `marks`, `heads` and `skipped` record
where the parser looked, so that properties can compare the two.

`MeaningIsLaid` ties the one to the other: an UPDATE's octets say what its writer meant, by the format and without a
parser. `RoutesLaid` says it of a list of routes (one after the other, up to the end or to one that does not parse),
`PartLaid` of an attribute with routes, `DescriptionLaid` and `PathWritten` of the description, `UpdateLaid` of the
whole. It binds `Pdus`, not the parser: TLC checks it of every sample, and the theorems about meanings have it as
their hypothesis (`LaidWhenGiven`), of a message that is handed over. The record of cuts spares the definitions a recursion, and the proofs an induction, over octets.

`MessageParser` hands the UPDATE of an accepted Route Monitoring message to the BGP parser, as
`_handle_route_monitoring` does (`listener.py:335-339`). The listener leaves Initiation, Termination and Statistics messages unparsed;
`parse_bmp_message`, which the tests call, parses all six types.

The refinement: `BgpParser` implements `UpdateParts` under a mapping that shows nothing before the withdrawn routes are
read, then the attributes as those that are left (`LastOf`), and a refused message as one of which nothing is returned.

## 3. Runs

| run | checks | instance |
|---|---|---|
| `batch_writer` | safety of the batch writer, below | 2 handlers, timer, main; 4 routes of 2 prefixes, one not encodable; batch size 2; pool of 2; 1 failure, 2 signals |
| `batch_writer_live` | every route leaves memory, a signal ends the program | 3 routes, pool of 1, 1 failure, 2 signals |
| `batch_writer_loss` | violation: complete history | no failure, no signal |
| `batch_writer_stale` | violation: `route_state` is current | no failure, no signal |
| `route_state` | the row under concurrent calls | 3 sessions, 1 key, 4 calls, 2 times, 2 attribute values |
| `route_state_alone` | refinement of the atomic function; counts | 2 sessions, a tracked and an unknown key, 4 calls |
| `migrations` | schema and record, start of containers | 3 containers, 3 releases, 1 failure |
| `listener` | sessions, statistics, peers, ends | 2 connections of one address, 2 messages, 2 prefixes, 1 failure |
| `route_monitoring` | rows and state of every form of message | 2 messages out of 217 forms, 7 routes |
| `route_monitoring_family` | violation: the family is one of three | the same |
| `message_parser` | format, reads, meaning of the samples, description, refinement, termination | 2,562 BMP messages, 276 of them with an UPDATE |
| `as_path` | violation: both sizes of AS numbers are read | 10 UPDATEs with one AS_PATH each |

What the passing runs establish:

- **`SafeRoutesAreWritten`**, the batch writer's loss window: a route appended while no flush was past reading its list
  reaches `route_updates`, unless a flush holding its list raised. A route is lost *only* if it was
  appended while another task's COPY was under way, or with a failing or cancelled flush.
- **`OneRowWithoutOverlap`**: only overlapping flushes write a route twice. Failures and cancellations alone do not.
- **`TotalIsWritten`**: as long as flushes do not overlap, the written total never counts a route that is not in
  `route_updates`; it can miss routes appended between the start of a flush and the reading of its list.
- **`HistoryInOrder`**: without overlap the batch writer implements `RouteHistory`: whatever fails, is cancelled or
  loses its acknowledgement, `route_updates` is in the order of arrival and has no gap inside a batch that was written;
  what is missing is the end of a batch or a batch as a whole.
- **`TimerTracksBatch`**, **`RoutesLeaveMemory`**: no list is left without a timer; every route leaves memory.
- **`StateMovesForward`**: without overlap, `route_state` never goes back to an older update.
- **`StopLeavesNothingBehind`**, **`SignalEndsProgram`**: after `stop()` nothing is in memory or in flight; a signal always gets there
  or to a failure. **`ShutdownRunsOut`**: from the first signal on no route is added, and each step but a further
  signal or the timer takes one of the awaits some task has left (`StepsLeft`) and gives none back, so no flush leads to another.
- **`RowIsSummary`**, **`RaceSpoilsCountsOnly`**: a row is exactly what its calls amount to unless two sessions
  met at its key; a meeting can spoil the counts and the time of change, never the status or attributes of the last writer, and never makes a second row.
  **`ImplementsAtomic`**, **`CountsAlternate`**: without meetings the function is atomic.
- **`SchemaIsRecorded`**, **`StartedOnOwnSchema`**, **`AgreeingRunnersStart`**: the record is the schema, a
  listener starts only on a schema that begins with its own release, and does start when nothing contradicts it. **`ImplementsLedger`**: however the containers race, the schema only grows, and
  never gets files that no one release has in this order.
- **`EveryMessageIsAccounted`**: a message that was not handled is an error that was logged or dropped with its
  address, or was cut by the shutdown, unless the framing of its connection was lost.
- **`TrackingFollowsSessions`**, **`StatusMatchesEvents`**, **`HandlersEnd`**, **`StopReturns`**: what is kept of a connection goes
  with it; the two tables agree unless a pair of statements was cut or interleaved; handlers and shutdown end.
- **`RowsFollowMessage`**: a malformed attribute costs its own routes and no others; a malformed prefix elsewhere costs
  the whole message; a failing `add_route` the rest.
- **`StateFollowsRouter`**: whatever messages come in between, the row of a route says what its router said last, if it
  said it in a form the parser understands. The forms it does not are listed in `Understood`: an UPDATE with only
  IPv4 withdrawn routes, several families in one UPDATE, EVPN routes other than MAC/IP, anything malformed. After
  such a message the property asks nothing of the routes the message names, and still everything of the others. A route both
  announced and withdrawn counts as withdrawn, which is the code's order, not that of RFC 4271.
- **`AcceptedIsLaid`**, **`LaidIsAccepted`**: the BMP parser accepts a message if and only if it has the format as a
  whole, which `Laid` defines without a parser: TLVs one after the other that fill the message. It finds no TLV but
  where its writer put one.
- **`FourOctetPathsAligned`**: the size the parser guesses for AS numbers is right in every segment of an AS_PATH of
  four-octet numbers. **`DescriptionIsRead`**: what describes the routes is what was written, whatever malformed
  attributes stand beside it, next hops of MP_REACH attributes included.
- **`ImplementsParts`**: octet by octet, the BGP parser does what `UpdateParts` says part by part, so what the run
  `route_monitoring` shows of parts holds of messages.
- **`MeaningIsLaid`**: the meanings these two compare with are those of the octets, for every sample, what does not
  parse included; were a check of the parser wrong, a route it takes would not be one that was written.
- **`EveryParseEnds`**: no octets keep a parser in a loop, where it would stop the event loop and every router.
  **`TurnsRunOut`**: nor for long: whatever lengths and counts it holds (a statistics report may announce 2^32 TLVs), a
  message takes at most three turns per octet and three more.

What the violations show (details in `PROJECT.json`, "findings"): a route lost, and a stale `route_state`, with a healthy database
and no shutdown; IPv4 withdrawals recorded under
family `'unknown'`, so that the route is never marked withdrawn; and AS_PATHs of two-octet numbers in two segments that are misread or lost.

### Why the bounds are enough

Batch size 2 with 4 routes lets a list be filled, replaced and filled again while a flush of the first list is at any await; two
handlers, the timer and main give up to four flushes at once, and a pool of 2 serves two of them while others wait, which is
what overlap and overtaking need; a pool of 1 is the worst case for waiting. Two signals reach the interrupted
`finally`; a third one finds nothing else. Each failure ends one flush, and the invariants speak of one list at a
time. All these invariants but the liveness properties are also proved for all values. Three sessions at one key give every
order of two statements each and a third one that comes late; four calls change a status twice. Three containers
suffice for one to wait, one to die and one to win; releases are an older, a newer and an edited one. Two connections
and one address are the sharing that matters; two messages let a refused one run into the next, two
prefixes let an UPDATE be cut half way. In `MCListener.cfg` a body of size 1 and a header of 2 make
both ways of running into the next message occur. Two messages per run of `RouteMonitoring` are an announcement and a
withdrawal, or one of them and a message of a strange form. Names are shared between families on purpose: three EVPN
routes have the same fields, without an address, with one and of another type, and the two addresses are those of the IPv6 prefixes.

For the parsers, seven messages cover the five types other than Route Monitoring, with none, one and three TLVs; of each, every octet
takes seven other values and the message every length from its header to eight octets more, so that each field is
wrong, each length short and long, and each message cut in each field. UPDATEs are put together from samples: all
pairs of the describing attributes, all pairs of five MP attributes and each of nineteen alone, five lists of
withdrawn routes and four of NLRI, AS_PATHs with empty, unknown and several segments, and one UPDATE cut at every octet. The BMP octets never turn a
message into Route Monitoring, whose UPDATE has to be one of the samples, and the first octet of a
count stays below 128, since TLC's integers have 32 bits. The theorems have neither restriction.

Deadlock is not checked: every module stops when its bounds are used up or the program has ended.

## 4. Fairness

- A task that is ready runs: asyncio's loop is first in, first out. Weak fairness of each task's steps.
- `pool.acquire()` waits in asyncpg's queue, which is first in, first out: a waiter is served if connections keep being returned. Strong
  fairness of `Acquire`, since a connection may be free only from time to time.
- A statement ends: `command_timeout=30.0` (`__main__.py:72`). Weak fairness of the statement's steps, which may be a failure instead.
- The timer of the periodic task goes off. docker-compose restarts a container (`restart: unless-stopped`).
- The parsers are plain calls without an await: `WF(NextMessage)` says that Python goes on executing.
- Nothing makes a router send, connect or disconnect, a signal arrive, or a failure happen. `HandlersEnd` speaks of routers that have gone.

## 5. Proofs

| theorem | statement | rests on |
|---|---|---|
| `BatchWriterProofs!TypeCorrect` | `Spec => []TypeOK` | the lemmas on list objects |
| `NoBatchStranded`, `LossWindow`, `DuplicatesNeedOverlap`, `StopIsFinal` | `TimerTracksBatch`, `SafeRoutesAreWritten`, `OneRowWithoutOverlap`, `StopLeavesNothingBehind` | `IInv` |
| `StateNeverGoesBack` | `Spec => StateMovesForward` | `IInv` |
| `TotalNeverAhead` | `TotalIsWritten` | `IInv`, `TotalInv` |
| `HistoryIsInOrder` | `Spec => HistoryInOrder`: a refinement of `RouteHistory` | `IInv`, `OrderInv` |
| `ShutdownIsBounded` | `Spec => ShutdownRunsOut` | `IInv`, `ClosingInv` |
| `RouteStateProofs!TypeCorrect`, `Refinement`, `Alternating` | types; `ExclusiveSpec => ImplementsAtomic`; `CountsAlternate` | `Exclusive` |
| `RowsAreSummaries`, `RacesSpoilCounts` | `Spec =>` `[]RowIsSummary`, `[]RaceSpoilsCountsOnly` | `SummaryInv`, `SummaryNext` |
| `MigrationsProofs!TypeCorrect`, `SchemaIsTrue`, `StartIsSafe` | types; `SchemaIsRecorded`; `StartedOnOwnSchema` | `IInv` |
| `MigrationsProofs!SchemaFollowsReleases` | `Spec => ImplementsLedger`: a refinement of `SchemaLedger` | `IInv`, `CommitGoesOn` |
| `ListenerProofs!TypeCorrect`, `Tracked`, `StatusAgrees` | types; `TrackingFollowsSessions`; `StatusMatchesEvents` | `IInv` |
| `ListenerProofs!Accounted` | `EveryMessageIsAccounted` | `IInv`, `WorkingMoves`, `Balance` |
| `RouteMonitoringProofs!TypeCorrect`, `RowsFollowRouter` | types; `StateFollowsRouter` | `RowsInv` |
| `RouteMonitoringProofs!RowsInOrder` | `RowsFollowMessage` | `OrderInv`, `Recursion` |
| `BmpParserProofs!BmpTypeCorrect`, `OnlyLaidAccepted`, `LaidNeverRefused` | `SpecBmp =>` `[]BmpTypeOK`, `[]AcceptedIsLaid`, `[]LaidIsAccepted` | `BmpInv` |
| `BgpParserProofs!BgpTypeCorrect`, `FourOctetPaths` | `SpecBgp =>` `[]BgpTypeOK`, `[]FourOctetPathsAligned` | `BgpInv` |
| `BgpParserProofs!WorkIsBounded` | `SpecMessage => TurnsRunOut` | `BmpInv`, `BgpInv`, `Apart` |
| `BgpParserProofs!EachParserAlone`, `MessagesParsed` | `SpecMessage => SpecBmp /\ SpecBgp`; the five properties above of `SpecMessage` | the two before |
| `BgpMeaningProofs!ParserImplementsParts`, `MessageImplementsParts` | `SpecBgp /\ []LaidWhenGiven => ImplementsParts`; the same of `SpecMessage` | `BgpInv`, `PartsInv` |
| `BgpMeaningProofs!DescriptionsRead`, `MessageDescriptionsRead` | `SpecBgp /\ []LaidWhenGiven => []DescriptionIsRead`; the same of `SpecMessage` | `BgpInv`, `PartsInv`, `DescInv` |

They hold for any messages of any length, any number of tasks, routes, sessions, connections, containers and releases, any batch and pool size; the assumptions
are the `ASSUME`s of the modules, which TLC evaluates on its instances.

**The batch writer.** None of the four invariants is inductive alone. `IInv` adds: which list objects exist and that
nobody holds one that was never named (`ListsInv`); where a safe route is, by the position of the flush that holds its
list (`WindowInv`: still in `self.batch`, or in a held list not yet read, or among the rows, or written, or dropped
with a failed flush); that without overlap at most one task is in flight and its list is the current one
(`OverlapInv`); that then what `route_state` shows is older than what the loop is about to apply (`StateInv`); and how
far the shutdown is (`ShutdownInv`). Each has a lemma for the initial state and one for a step, with a case per action.
`TotalInv` is about numbers: the total counts no more than the routes stored of lists that were replaced, and the count
a flush took at its start (`batch_count`, line 137) is covered first by what its list holds, then by the rows of its COPY, then by
what is committed (`CountCovered`).

For `HistoryInOrder`, `OrderInv` says that list objects are filled one after the other and that the rows a COPY has read were
the oldest routes of its list and still are, since routes are only appended. A commit then is a `Write`: its rows are all of
them in memory because the list is the current one (`OverlapInv`), none of them is written (`OneRowWithoutOverlap`), and what is
written is of earlier lists. The interrupted COPY that takes effect is a `Write` too, and the flush it ends a `Forget` later:
the two are steps of their own in the model, as they are in the database.
`ShutdownRunsOut` is the part of `SignalEndsProgram` that needs no fairness. `ClosingInv` says that after a signal every task but main has ended, is about
to be cancelled, or has been and gives its connection back, so none of them starts a flush; main's own last flush is
counted beforehand. The loop over `update_route_state` is counted with an await for every route that has arrived, of which its list has no more.

**The route state.** The row of a key is changed by at most one session between its SELECT and its write
(`Exclusive`: at most one session per key, and what it has seen is still so). Hence the write is the atomic step, every other
step a stutter; alternation is proved of the atomic specification and carried over. For sessions that do meet, `SummaryInv`
says that what a session has seen is still so unless its key is recorded as raced, and that a row shows what the
list of its calls amounts to. `SummaryNext` is the step: the summary of a list with one more call is what the UPDATE
makes of the summary of the list. It needs no induction over the list, since `Latched` carries along that the last
change of status and the last announcement of the list are there to be found.

**The migrations.** What a container is about to record extends what is recorded, because versions are recorded in order, and
the transaction that holds the insert of a version keeps others from it.
The refinement of `SchemaLedger` needs this once more: a commit adds the file that the container's release has next after
exactly what is in effect (`CommitGoesOn`), although the list it works off was computed before others went on; a commit
that is not acknowledged is the same step, everything else a stutter.

**The sessions.** A handler that adds has prefixes left, one that is cancelled has not ended, and one that skipped its
clean-up has (`SessionsInv`): the types and `TrackingFollowsSessions` need these. `StatusMatchesEvents` speaks of the
moments between two pairs of statements; `PairInv` says what holds inside a pair: a pair that is alone has its address to itself and
the row is what its first statement wrote, and every pair of an address that is not torn is alone. `EveryMessageIsAccounted` is inductive beside
the types. Its right side counts handlers, so `WorkingMoves` says what one move of one handler does to that number, for
finitely many connections, and `Balance` that a step keeps the accounts if it owes no more than it pays; each action
is then one inequality.

**The rows of a message.** Every route in the parser's lists is one of the message's (`FromMessage`). Of a message that is
understood, nothing is lost in the parser (`ParsedWhole`), and in the handler each route is still to be added or has
its row, withdrawn ones after all announcements (`AddedWhole`). No other row is touched (`OthersShown`): routes that are
understood have different keys (`KeysDiffer`), and what a message that is not understood can write bears a name it
mentions (`KeysAreNamed`); for EVPN that is where `first`, the fields of the first route, matters.

`RowsFollowMessage` compares the rows with the routes of all parts that parse, flattened into one list. The flattening
is a fold, so what it gives for one part more has to be known for any number of parts. The library states induction and
recursion over an operator; `RouteMonitoringProofs` begins with both over a set (`SetInduction`, from a fact about finite
sets) and a function (`Recursion`), which the provers can instantiate. With them, `OrderInv` carries the lists: while
the message is parsed, what was collected and what the parts left will give are together what the message gives
(`ReadInOrder`); while it is handled, the rows are the first of them and the routes not yet added the rest
(`SaidInOrder`).

**The parsers.** `BmpInv` says where in the message each stage is (`Placed`), which checks have
been made to get there (`Seen`), and that the TLVs found so far are a chain that ends at the offset (`Marked`). An
accepted message then has the format because the chain ends where the message does. For the other direction, the
writer's cuts and the parser's marks agree so far, hence the next TLV is the writer's next one (`NextCut`), and fits. `BgpInv`
says that the regions lie one after the other in the message (`Located`), and that the segments found of an AS_PATH
are the first of those written (`Follows`). Where a segment of four-octet numbers starts, the octets that remain are at least
four times its length, so the guess is four (`FourOctets`): this is where two-octet numbers go wrong. In the
composition each parser stutters while the other moves, so both specifications are implied, and their theorems with them.

`TurnsLeft` counts what the parsers can still do: two turns for an octet of the attributes, which are found first and read then, one for
any other. A turn that reads a TLV, a route or a segment takes octets; the two OPENs of a Peer Up may say that they
have none, but lead on to another field. That a read attribute leaves fewer turns than it found needs `Apart`: the next
one begins behind it. With the octets of a message finite, this is the part of `EveryParseEnds` that needs no fairness.

**What the UPDATE means.** The theorems speak of messages that say what their writer meant when they are handed over
(`LaidWhenGiven`), which is all that can be asked of a router. The lemma `MeaningStays` carries this through the parsing: each part
of `UpdateLaid` depends on the message alone (`SameRoutes`, `PartStays`, `SameDescription`, `SamePath`), and the message stays. `PartsInv` says how far the reading has got: the attributes found are the first of those
written, later those not yet read are the last of them (`AttributesRead`), and the routes of the part at hand are the
first of its routes (`RoutesRead`). `RouteNext` is the step of a list: the next route fits exactly if it was written to, and the
list ends where it should. As attributes without routes are no parts, the parts left are counted from the end
(`MpFrom`, `LastOf`). Each action then is a step of `UpdateParts` or none (`Move…`): the parts are read at the last
octet of the withdrawn routes, a part at the end of its loop. For the description, `DescInv` says that a value
is the one written as soon as no attribute still to be read gives it, so the order of the attributes decides, as in the code; and that
the path is nothing before its attribute and the writer's after it. In it, the numbers so far are the first of those
written (`NumbersFollow`). A path cut short is found to be so at its last segment whatever size is guessed (`CutShort`). Of
two-octet numbers `SizeIsPlain` leaves the paths of one segment; the run `as_path` shows why.

Only model-checked: the liveness properties `RoutesLeaveMemory`, `SignalEndsProgram`, `AgreeingRunnersStart`,
`HandlersEnd`, `StopReturns` and `EveryParseEnds` (fairness and ENABLED are outside the prover's reach). Of the shutdown and of the
parsers the theorems have the safety part, that steps run out. `MeaningIsLaid` is only checked as well: it is a fact about
messages, no parser step changes it, and the theorems on meaning have it as their hypothesis (`LaidWhenGiven`). Every
other property of a passing run is proved.

## 6. Plan

1. Done: `BatchWriter`, `RouteState`, `Migrations`, `Listener`, `RouteMonitoring` and the parsers, each with its proofs,
   and four refinements: of `RouteStateAtomic`, `UpdateParts`, `RouteHistory` and `SchemaLedger`.
2. Not done: a composition of `RouteMonitoring`, `BatchWriter` and `RouteState`: withdrawals that overtake announcements.
3. Not done: start and end of `__main__.py`: the pool, the migrations, a signal before `run_listener`.

## 7. Not modelled

- `database/connection.py`: a pool wrapper that no other module uses.
- `monitoring/sentry_helper.py`, `monitoring/logger.py`, `config.py`: reporting and settings; nothing reads state from them.
- `models/`, `database/schema.py`: records without behaviour.
- The other SQL migrations: declarations; the runner that applies them is modelled.
- The read queries of `operations.py`: they change nothing.
- The scripts at the top of the repository: run by hand.
- How the parsers write a value as text: addresses, communities, distinguishers. A value is its octets here. (Route
  distinguishers of types 0 and 2 get the same text, and two routes that differ only in that share a row; `Distinguisher` has it so.)
- `__main__.py` but for its signal handler: creating the pool, running the migrations before the listener, closing the pool.
