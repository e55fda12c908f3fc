# A TLA+ project for payload-tracker-go

payload-tracker-go records what happens to uploads ("payloads") on their way
through a platform. Services report statuses on a Kafka topic; consumer
processes store them in PostgreSQL; an API reads them back; cron jobs make the
partitions the statuses go to and clean up after `RETENTION_DAYS`.

This directory holds TLA+ modules for the parts of it that have state, TLC
configurations that check them on small instances, and proofs, checked by TLAPS,
that the main invariants hold for every instance. `PROJECT.json` is the index:
which run checks what, which source lines a definition stands for, and a mutant
for every property.

## Contents

1. [The system](#1-the-system)
2. [Modules and how they correspond to the code](#2-modules-and-how-they-correspond-to-the-code)
3. [Runs, bounds and what they show](#3-runs-bounds-and-what-they-show)
4. [Fairness](#4-fairness)
5. [Disagreements found](#5-disagreements-found)
6. [Proofs](#6-proofs)
7. [What is not modelled](#7-what-is-not-modelled)
8. [Plan](#8-plan)

## 1. The system

| component | source | state it keeps | operations |
|---|---|---|---|
| message handler | `internal/kafka/handler.go`, `internal/models` | none between calls, but the caches below | `onMessage`: unmarshal, validate, sanitize, upsert the payload, look up or create status, service and source, insert the status with retries |
| tables and consumer statements | `internal/queries/queries_consumer.go`, `migrations/000001...up.sql` | `payloads`, `services`, `sources`, `statuses`, `payload_statuses` (partitioned by day), their sequences, keys and constraints | upsert a payload, select and insert a name, insert a status |
| payload fields repository | `internal/queries/queries_consumer.go` | three LRU caches per process, 12 h, unbounded | `GetStatus`, `GetService`, `GetSource`, from the database or through the cache |
| consumer event loop | `internal/kafka/kafka.go`, `cmd/payload-tracker-consumer` | the signal channel; the client library's assignment, position and stored offsets; the broker's log, group and commits | poll, hand a message over, commit, rebalance, stop, close |
| retention jobs | `deployments/clowdapp.yml` | partitions; the job's progress | `clean.sh`: make tomorrow's partition, drop one old one, delete old payloads; `create-partition.sh`: make one partition by hand |
| read queries | `internal/queries/queries_api.go` | none | `RetrievePayloads`, `RetrieveRequestIdPayloads`, `RetrieveStatuses`, `CalculateDurations` |
| API handlers | `internal/endpoints` | none | `/payloads`, `/payloads/{id}`, `/statuses`, archive link, health, roles |
| API process | `cmd/payload-tracker-api` | requests in flight, response counters, the security log | router, rate limit, graceful shutdown |
| schema migration | `internal/migration`, `migrations` | schema version and dirty flag, the migration lock | upgrade, run by the init containers of the API pods; downgrade, by hand |
| configuration, database connection, logging, audit log, seeder | `internal/config`, `internal/db`, `internal/logging`, `internal/securitylog`, `tools/db-seeder` | read-only after start, or none | |

**How they interact.** The event loop calls `onMessage` synchronously: one
message at a time per process, several processes per group. All consumers, the
cron jobs and the API share one database and nothing else. No statement sequence
of `onMessage` is wrapped in a transaction: every statement commits on its own,
so a message is up to eight transactions between which other consumers and the
jobs run. Offsets are committed by a background thread of the client library,
without regard to where `onMessage` is. `clean.sh` is three `psql` calls that
each read the clock.

**What is hard, and what makes each part correct.**

- *Handler.* Two consumers on one request or one new name; a statement that fails
  before, in or after the database; a kill between statements; ids from caches.
  Correct means: a stored status, read through its references, says what its
  message said; a retried insert stores once; a request has one payload, whose
  columns hold only what its messages said and are never blanked; every call
  ends, and ends with a stored row or a count.
- *Caches.* A cached id must still be the id of that name in that table.
- *Event loop.* A crash with offsets committed early or late; eviction of a
  process that keeps working; signals; partitions changing hands. Correct means:
  no message is passed over other than by a reset, at most the messages in hand
  are lost, repeats need an upset, order is kept without one, the committed
  offset never goes back, every message is handed over in the end.
- *Retention.* Runs that are missed, late, killed or past midnight; deletion while
  a message is between its upsert and its insert. Correct means: nothing
  younger than the retention goes, but with its payload; messages that are not
  near the edge are stored; the partitions are those the runs account for.
- *Reads.* Joins that lose rows; pages that are separate queries while rows come,
  go and tie; sort columns that a verbosity does not have. Correct means: every
  status is listed under one request, its own unless messages choose payload ids,
  and in `/statuses` if it has a source; a walk through the pages
  misses or repeats a payload only for a reason one can name; durations do not
  depend on the order of the rows.
- *API.* Requests that outlive the shutdown's deadline; a storage broker or
  database that does not answer; errors written over one another. Correct means:
  no link is handed out that the security log does not have; the counters say what
  clients were told; a request is refused for a bad parameter and for no other
  reason; a signal ends the process.
- *Migration.* Three init containers at once, kills between the dirty mark and the
  clean one. Correct means: a version that is not dirty tells the truth, pods never
  trip over one another, none serves without its tables.

`PROJECT.json` lists each hazard at the line where it bites, with the properties
that would catch it.

## 2. Modules and how they correspond to the code

```
TrackerTables ── MessageHandler ── StatusLogRefinement ── MCMessageHandler
      │                │                                        │
      ├── Retention ── TrackerSystem ────────────────── MCTrackerSystem
      │                      │
      └── ReadQueries ── ReadClients ── MCReadClients
StatusLog (instantiated by StatusLogRefinement)
EventLoop ── MCEventLoop
ApiRequest ── ApiServer ── MCApiServer  (ApiRequest also instantiated by ReadClients)
Migration ── MCMigration
```

The proofs are in modules of their own, built on one another as the models are:

```
MessageHandler ── MessageHandlerProofs ── HandlerHistoryProofs
TrackerSystem + HandlerHistoryProofs ── TrackerSystemProofs
ReadClients + TrackerSystemProofs ── ReadClientsProofs
StatusLogRefinement + TrackerSystemProofs ── StatusLogRefinementProofs
EventLoop ── EventLoopProofs
ApiServer ── ApiServerProofs
Migration ── MigrationProofs
```

**`TrackerTables`**: tables as functions from ids to rows, sequences as the last
value handed out (a failed insert burns a value, as in PostgreSQL), `partitions`
as a set of days, and the statements of `queries_consumer.go` as operators.
`UpsertPayloadByRequestId` has the conflict clause on `request_id` only, so a
taken primary key is an error (`UpsertRejected`); names are unique
(`EntryRejected`); a status needs a partition, its payload and its references
(`InsertRejected`). `NoId` (0) is both the id gorm takes for "not set" and the
null `source_id`. The eight optional payload columns are the set `Columns`; the
runs use two, which is what the column list of an update can tell apart (one that
a message has, one it has not).

**`MessageHandler`**: `onMessage` for several consumers. `task[c]` is the call:
the next statement (`pc`, and `kind` for the lookup table it is about), the
sanitized message, the payload id, the references found, the id the status
struct holds and the attempts made. One action per statement, with the local
steps that follow it folded in (`AfterGet`, `AfterStatusAndService`):

| action | code |
|---|---|
| `Refuse`, `Accept` | `handler.go:35-55`: unmarshal, `validateRequestID`, `sanitizePayload` |
| `Upsert` | `handler.go:54-63` with `queries_consumer.go:150-174` |
| `Get` | `handler.go:70-71, 96` with the cache of `queries_consumer.go:57-100` |
| `Create` | `handler.go:73-115` with `queries_consumer.go:186-205` |
| `Insert`, `GiveUp` | the retry loop, `handler.go:128-143` |
| `UpsertFault`, `GetFault`, `CreateFault`, `InsertFault` | the same statements failing: not reached, failed inside (a sequence value may be gone), commit applied but not acknowledged. `GetFault` reads as a missing row, as the error of the `SELECT` is not looked at; the other errors end the call or go round the retry loop |
| `Expire`, `Crash` | a cache entry is gone; the process is killed and starts with empty caches |

Points a reader may stumble on: status and service are both looked up before
either is created; what is created does not enter the cache; all attempts of an
insert use one struct, so once an id was returned later attempts insert that same
id, which is what makes the retry safe; `IncMessagesProcessed` runs before the
insert. A message whose date does not parse is `Garbage`: `FormatedTime.UnmarshalJSON`
returns the error and `handler.go:35-43` refuses it. `status_msg`, timings and log lines are left out.
`InsertPayloadStatus` with associations first writes the referenced rows `ON
CONFLICT DO NOTHING`; no statement ever deletes a name, so that writes nothing.

`delivered`, `counted`, `races`, `killed` and the fields named in the module are
history: no guard reads them except for the bounds. `delivered` may repeat a
message in any order and at any consumer. This is what the event loop hands over
and more, so what holds here holds under every schedule of `EventLoop`.

**`StatusLog`** is the promise to readers, with no tables, statements or caches:
messages are taken in, while one is open its entry may be recorded once, entries
never change; `CleanedSpec` is the same log beside jobs that take entries out.
**`StatusLogRefinement`** maps `MessageHandler` to it by reading
each status row the way the API does, through its references.

**`EventLoop`**: `NewConsumerEventLoop` with the broker and client library that
it relies on. `loop`, `sigchan` and `current` are the process; `Poll`,
`Handled`, `Signal`, `Stop` are the loop's rounds. The rest (log, committed
offsets, group membership, offset store, background commit, rebalance callbacks
inside `Poll`) is not in the repository and is modelled as `NewConsumer`
configures it, marked external in the map: `enable.auto.commit` and
`enable.auto.offset.store` at their defaults, so an offset counts as stored when
`Poll` returns its message; eager assignment; commits fenced by membership.
`kafka.Error` and `OffsetsCommitted` events change no modelled state. The log is
never truncated and commits do not expire.

**`Retention`**: `clean.sh` as three calls (`CreatePartition`, `DropPartition`,
`DeletePayloads`), each reading the clock anew, with failing calls, the retry
loop of the first, pods killed and restarted, missed and late runs, and
`create-partition.sh` (`Backfill`). Time is in days; `created_at` against `NOW()`
is decided to the second, so of the payloads exactly `RetentionDays` old any
subset may go. **`TrackerSystem`** puts consumers and jobs on one database, so
midnight, a dropped partition or a deleted payload may come between any two
statements of a call.

**`ReadQueries`**: `queries_api.go` as operators on the tables. An answer is a set
of sequences, since PostgreSQL returns rows that tie in the sort column in any
order; `Page` is gorm's `Limit` and `Offset` over a Go `int` that wraps around at
`IntLimit`. `SortResolves` is PostgreSQL's rule for names in `ORDER BY`, applied to
the columns that a verbosity selects and to those of the joined tables; a query
that it rejects leaves an empty list. `CalculateDurations` is one fold (`Measure`) that
keeps the earliest and latest date of each service and source, and of all.
**`ReadClients`** asks these queries of the
tables that `TrackerSystem` changes: a walk through `/payloads` is a step per page
(`ReadPage`) with steps of consumers and jobs between; the other answers are looked at
in every state. `during` is history: what was inserted, deleted, moved or tied since
the walk began.

**`ApiRequest`**: what the handlers read of a request before they turn to the
database or to storage-broker: `initQuery` with its one error variable, the sort
columns of each listing, `validTimestamps`, `checkForRole`. Numbers and timestamps
parse or they do not; an identity header has got as far as the checks follow it.
**`ApiServer`** is the process. `calls[i]` is a request on its goroutine: `check`
(the handler's code up to its first wait), `query`, `broker` (waiting for
storage-broker), `link` (entered in the security log, not sent yet), `done`. One
action per handler, one per thing it waits for:

| action | code |
|---|---|
| `Payloads`, `RequestIdPayloads`, `Statuses` | `payloads.go:39-116`, `statuses.go:19-45`: refused, or on to the query |
| `QueryReturns`, `PingReturns` | the rest of these handlers, the 500 of a row that has no form in JSON included; `health.go` |
| `PayloadArchiveLink`, `MockArchiveLink`, `NoArchiveLink` | `payloads.go:26-36, 137-192`, by `REQUESTOR_IMPL`; an unknown one leaves a nil handler, whose panic ends the request without an answer |
| `BrokerAnswers`, `BrokerTimesOut`, `SendLink` | `utils.go:190-218`, `payloads.go:156-178` |
| `PayloadKibanaLink`, `RolesArchiveLink`, `Plain`, `HealthCheck` | the other routes |
| `Signal`, `Shutdown`, `DeadlinePasses`, `Leave`, `ServeFails` | `main.go:89-117`; `net/http` closes the listener and waits for what is in flight |

Requests that `Shutdown` leaves behind keep the `pc` they had when the process went
`down`. An answer of the rate limiter (429) is a choice at arrival, and a request may
still arrive while the process drains, on a connection that was there before. One
that panicked is `aborted`: it was not answered, but `net/http` recovers the panic and
closes its connection, so `Shutdown` does not wait for it. Which rows a
query returns is not looked at here; that is `ReadQueries`. With `LOGLEVEL=ERROR` the
security events, which are information and warnings, are not written: `Logged`.

**`Migration`**: `pt-migration` as the API pods' init containers run it
(`upgrade`, again until it succeeds) and as somebody runs it by hand (`downgrade`).
golang-migrate is external: its advisory lock with a timeout, the version table
with the dirty flag, dirty before the file and clean after it. A migration file is sent
as one query and is one transaction of PostgreSQL, so it takes effect as a whole
(`schema`), possibly after the process that sent it was killed. `Outcome` is the exit
code that `performDbMigration` makes of an error. The consumers have no init
container: one that starts too early sees failing statements, which are the
`...Fault` actions of `MessageHandler`.

Each module with state has a type invariant. `TypeOK` of `MessageHandler` and of
`Migration` says something about the order of steps as well and is checked by a run;
the others (`SystemTypeOK`, which has `RetentionTypeOK` in it, `ReadTypeOK`, and those of
`EventLoop` and `ApiServer`) are no properties of the runs. All of them are proved.

**Mutants.** An operator named `X_Something`, placed before `X` under a comment
"Mutant", is not part of the model. It is a plausible bug: with it in the place of
`X` the property that `PROJECT.json` names must fail. Every checked property has one.

## 3. Runs, bounds and what they show

All counters are bounded by constants named `Max...` in the guards; when they are
used up the system rests, hence `CHECK_DEADLOCK FALSE` everywhere (a consumer
without messages waits; a clock at the end of `Days` stops).

| run | instance | states | what it shows |
|---|---|---|---|
| `handler_faults` | 2 consumers, 2 messages of one request (one with a source and capitals, each with a column the other lacks) and one whose id is too short, 2 deliveries, 2 faults, 1 kill, 2 attempts, cache, length check; 1 day, with and without its partition; the fair specification | 201,480 | `StatusResolves`, `OneRowPerDelivery`, `NoSilentLoss`, `CountersAgree`, types, `ImplementsStatusLog`, and `CallEnds` |
| `handler_races` | 2 consumers, 3 deliveries, no faults, 1 attempt, cache; one message chooses its payload's id | 154,758 | `CacheCoherent`, `OnePayloadPerRequest`, `RaceLostOnce`, `ColumnsFromMessages`, `ColumnsNeverErased`, `DropsExplained` |
| `handler_race_loses` | 2 consumers, 2 requests with one status and one service | violation | two consumers that meet a new name lose a message (section 5) |
| `loop_faults` | 2 processes, 1 partition, 3 messages, reset `latest`, 1 rebalance, 1 signal, 2 upsets | 319,419 | `NoGaps`, `CommitWindow`, `RepeatsNeedUpsets`, `CommitsOnlyForward`, `SkipsBeforeFirstHandOver` |
| `loop_drains` | 2 processes, 2 messages, 1 partition, reset `earliest`, 1 rebalance, 1 signal, 2 upsets, the fair specification | 92,609 | `OrderKept`, `EventuallyHanded` |
| `system_cleaning` | 1 consumer, a request reported on days 0 and 1, retention 2, a clock of 4 days, 1 job fault or run by hand | 2,599,925 | `StatusResolves` with rows being deleted, `RecentRowsKept`, `FreshMessageStored`, `PartitionsFollowTheJobs` |
| `system_orphans` | a request reported on for days 0 and 2, no job faults | violation | deleted payloads take statuses of the same day along (section 5) |
| `reads_while_writing` | 1 consumer, 2 requests, 3 deliveries, for days 0, 2 and 3, retention 1; the clock stands on day 2, where the job deletes the payload of day 0 and makes the partition of day 3; walks by `created_at`, by a column that messages fill in, and by one in which all payloads tie, pages of 1 and 2 | 183,721 | `WalkIsReliable`, `PagesPartition`, `EveryStatusListed`, `DurationsAgree` |
| `reads_not_found` | the same | violation | a request with statuses is not found (section 5) |
| `api_requests` | 2 requests out of 24 that take every way through the handlers, each requestor and log level, the fair specification | 413,287 | `LinksAreLogged`, `CountersTellAnswers`, `RefusalsJustified`, `SignalEndsProcess`, `LinkRequestsEnd` |
| `api_malformed_page` | 1 request out of the same 24 | violation | a malformed page is answered as page 0 (section 5) |
| `migration_races` | 3 pods, 2 downgrades, 3 faults or kills, a new database and one in use, the fair specification | 58,918 | `VersionTellsSchema`, `DirtyByFault`, `ServingHasTables`, `StuckForEver`, `AllServe` |

**Why the bounds are enough.** The handler's hazards are between two calls: a
race, a cache entry against a row, an attempt against its own earlier commit. Two
consumers and two messages give each of these, the third delivery shows what a
consumer does after it lost a race or remembered a row, and two faults let a
commit be lost and the retry fail as well. One request is the worst case for the
payload row, and one status and service for the names; the second request adds the
length check and the chosen id. In the loop a message is lost or repeated through
one process losing a partition and one getting it: two processes, and two upsets so
that the heir can fail too. For retention 2 days, four days of clock let a run be
missed or late on either side of the window and a call span midnight. The
invariants that carry the most weight are proved without bounds (section 6).
In `ReadClients` two payloads can be missed, repeated, moved past one another and
tied: each of the exceptions that `WalkIsReliable` names was seen to happen. The
requests of `ApiServer` meet only in the shutdown and in the counters, so two are
enough: one that is cut off or hangs, one that is answered. In `Migration` a third
pod is the one that waits while the second finds what the first left, and two
downgrades let versions go down, up and down again; its safety is proved without bounds.
Consumers, and processes with partitions, are symmetric in `handler_races` and
`loop_faults`; no liveness property is checked under symmetry.

## 4. Fairness

- `MessageHandler!FairSpec`: weak fairness of each consumer's next step (`Work`).
  `onMessage` has no lock, channel or condition to wait for, and database calls
  return or fail; a fault is one of the steps, so fairness never excludes it.
  Nothing is assumed of `Receive`, `Expire` or `Crash`.
- `EventLoop!FairSpec`: processes are restarted (the deployment does that),
  `onMessage` returns (`CallEnds` is what licenses it), the library commits and
  polls, the group gives out what nobody owns and misses the dead, a waiting
  signal is found. `Crash`, `Evict`, `Signal`, `Revoke` and `Produce` may never
  happen. `Revoke`, `Evict` and `Crash` are bounded, so a partition changes
  hands finitely often: `EventuallyHanded` is about a group that settles.
- `ApiServer!FairSpec`: goroutines run, the HTTP client times out
  (`storageBrokerRequestTimeout`), the shutdown's clock goes on. Nothing is assumed of
  `QueryReturns` and `PingReturns`: no query has a time limit, and
  `SignalEndsProcess` holds although one may hang for ever.
- `Migration!FairSpec`: each `pt-migration` goes on, and the kubelet starts a failed
  init container again. Faults and kills are bounded; a lock timeout may come as often
  as the lock is held, which in the end it is not.
- Safety properties assume no fairness.

## 5. Disagreements found

1. **A message is lost to a race for a new name** (`handler_race_loses`,
   `handler.go:74, 87`). Look-up and creation are separate statements and the
   creation has no conflict clause. Two consumers that meet a new status, service
   or source at once both find it missing; the unique constraint rejects the
   second `INSERT` and the message is dropped, although the row it wants is now
   there. In the run it is a service that two requests have in common: one message
   is stored, the other counted as an error, and its request keeps a payload row
   without a status. The handler's test says of a valid message, without exception,
   that it "Creates the required DB entries" (`internal/kafka/handler_test.go:72-73`).
   `RaceLostOnce` shows that a consumer loses one message per name and no more,
   `DropsExplained` that on a healthy database nothing else drops a message but a
   taken payload id, where messages choose ids, and a day without a partition.
2. **Cleaning deletes more than orphans** (`system_orphans`, `clowdapp.yml:245`).
   `docs/database-guidelines.md:27` has the job "delete orphaned payloads older
   than `RETENTION_DAYS`". The statement looks at `created_at` of the payload
   only, and the foreign key cascades: a request reported on over several days
   loses its recent statuses while their partition is kept. In the run a request has
   statuses of days 0 and 2, and the `clean.sh` run that starts and ends on day 2, with
   retention 2, keeps the partition of day 2 but deletes the payload and with it the
   status of day 2. `RecentRowsKept` states what does hold.
3. **A request with statuses is not found** (`reads_not_found`,
   `queries_api.go:128`). `docs/data-validation-guidelines.md:7` says that
   `/payloads/{request_id}` "returns 404 when no match is found". The handler takes any
   of five sort columns with any verbosity, but with verbosity 1 or 2 `created_at`
   is ambiguous and `source` is no column: PostgreSQL rejects the query, its error
   is not looked at, and the answer is 404 for a request that is stored.
4. **A malformed page is answered** (`api_malformed_page`, `utils.go:72-76`).
   `docs/data-validation-guidelines.md:33` says of `page` and `page_size` that "the
   parse error is propagated to the caller as a 400 response". Both errors are written
   to one variable, so a good `page_size` overwrites the error of `page`, and the answer
   is page 0 with 200. `RefusalsJustified` states what holds of the other parameters.

Disagreements that the models show without a run of their own, since they can be read
off one line:

- `requests` is called "Total API requests" (`docs/logging-and-observability-guidelines.md:41`)
  and "Number of requests to the payload tracker" (`metrics.go:15`), but only `/payloads`
  moves it (`payloads.go:45`): it is the number of requests for `/payloads`, which is the
  theorem `RequestsArePayloads`.
- `payload_tracker_messages_processed` is called "Messages successfully processed"
  (`docs/logging-and-observability-guidelines.md:46`), but a message is counted before its
  insert (`handler.go:126`): one whose attempts all fail is in it and in the errors.
  `CountersAgree` states the counters as they are.
- The invalid ids of the API are by `metrics.go:20` those of "the archive link endpoint"; the
  Kibana link counts its own as well, as the docs' table has it ("Invalid UUIDs on API
  endpoints", line 49). `CountersTellAnswers` has both.

Met in the models, and stated in the properties rather than claimed a
disagreement: the timestamps of
`/payloads/{request_id}` are not read; `/statuses` leaves out statuses without a
source (`EveryStatusListed`); `LOGLEVEL=ERROR` mutes the security log
(`LinksAreLogged`); after a kill in the middle of a migration no command of
`pt-migration` gets the database out of the dirty state (`StuckForEver`).

Known from the models and not a disagreement: the window in which a crash loses
the message in hand (`CommitWindow`), messages skipped before the group began to read
under `latest` (`SkipsBeforeFirstHandOver`), partitions of missed days that are
never dropped (`PartitionsFollowTheJobs`).

## 6. Proofs

The theorems hold for every value of the constants: any number of consumers, pods,
requests, messages, names, columns, days, retries, deliveries, faults and kills. The
table has the properties of section 3 and the theorem for each. (A property's own
comment says what it means.)

| module | theorems (property) |
|---|---|
| `MessageHandlerProofs` | `TypeCorrect` (`TypeOK`), `HandlerInvariant`, `StatusesResolve` (`StatusResolves`), `RetriesStoreOnce` (`OneRowPerDelivery`), `CachesCoherent` (`CacheCoherent`), `LossesAreCounted` (`NoSilentLoss`), `RequestsShareAPayload` (`OnePayloadPerRequest`) |
| `HandlerHistoryProofs` | `HistoryInvariant`, `CountersCountMessages` (`CountersAgree`), `ColumnsAreReported` (`ColumnsFromMessages`), `ColumnsStay` (`ColumnsNeverErased`), `RacesAreLostOnce` (`RaceLostOnce`), `DropsHaveACause` (`DropsExplained`), `CallsComeNearer` |
| `StatusLogRefinementProofs` | `ConsumersKeepTheLog` (`ImplementsStatusLog`), `SystemKeepsTheLog` |
| `EventLoopProofs` | `LoopInvariant`, `LoopTypeCorrect`, `NothingPassedOver` (`NoGaps`), `LossWindow` (`CommitWindow`), `RepeatsBounded` (`RepeatsNeedUpsets`), `ReadInOrder` (`OrderKept`), `NoCommitGoesBack` (`CommitsOnlyForward`), `NoSkipOnceRead` (`SkipsBeforeFirstHandOver`) |
| `TrackerSystemProofs` | `SystemTypesCorrect`, `SystemInvariant`, `RecentRowsStay` (`RecentRowsKept`), `PartitionsAreTheJobs` (`PartitionsFollowTheJobs`), `StatusesResolveUnderCleaning` (`StatusResolves`), `FreshMessagesAreStored` (`FreshMessageStored`), `LeftTrueInvariant`, `RetriesStoreOnceUnderCleaning` (`OneRowPerDelivery`), `CachesCoherentUnderCleaning` (`CacheCoherent`), `RequestsShareAPayloadUnderCleaning` (`OnePayloadPerRequest`), `CountersCountMessagesUnderCleaning` (`CountersAgree`), `ColumnsAreReportedUnderCleaning` (`ColumnsFromMessages`), `RacesAreLostOnceUnderCleaning` (`RaceLostOnce`), `LossesAreCountedUnderCleaning`, `ColumnsStayUnderCleaning`, `CallsComeNearerUnderCleaning` |
| `ReadClientsProofs` | `WalkInvariant`, `ReadTypesCorrect`, `WalksAreReliable` (`WalkIsReliable`), `PagesCoverOnce` (`PagesPartition`), `StatusesAreListed` (`EveryStatusListed`), `DurationsAreSpans` (`DurationsAgree`) |
| `ApiServerProofs` | `ApiTypeCorrect`, `AuditComplete` (`LinksAreLogged`), `ParametersDecide` (`RefusalsJustified`), `CountersTellTruth` (`CountersTellAnswers`), `RequestsArePayloads` |
| `MigrationProofs` | `MigrationTypeCorrect` (`TypeOK`), `VersionIsTrue` (`VersionTellsSchema`), `DirtHasACause` (`DirtyByFault`), `NoPodWithoutTables` (`ServingHasTables`), `NobodyRepairs` (`StuckForEver`) |

Every theorem follows the same pattern: an inductive invariant, a lemma for each of
its parts that a step keeps it, with a case for each action that can disturb it, and
the property read off. What each invariant adds to the properties is what is worth
knowing.

**The handler** (`HandlerInv`). That a row says what its message said depends on what
the call carried when it wrote it, over seven statements; that in turn on the cache
it took ids from, and on the tables it looked in. The invariant is the conjunction of

- `TypeOK` and `CallsOK`: a call's message is the sanitized form of its delivery;
- `CallsTrue`: the payload id a call carries is that of its request
  (`PayloadTrue`), each reference it carries names the row of the name in the
  message (`RefsTrue`), and a call is only at a step whose predecessors are done
  (`Placed`), so that at `insert` all references are set;
- `CacheCoherent`, and `RequestsUnique`: no two payloads share a request;
- `StatusResolves`;
- `DistinctCalls` and `RowsOfCalls`: calls have deliveries of their own, and a
  row of a delivery still being worked on has the id the call's struct holds,
  hence `OneRowPerDelivery`: the next attempt is rejected by the primary key;
- `NoSilentLoss`.

Two facts carry most cases: a step moves one call only (`OneCallMoves`), and without
deletion rows of `payloads` and `lookups` keep their identity (`PayloadsKept`,
`LookupsKept`).

**What the handler leaves behind** (`HistoryInv`, on top of `HandlerInv`). The counters
need to know of every call under way that it has counted nothing but, at `insert`, its
message as processed (`CountsTrue`). A race is lost once because its winner's row is
there and the loser, whenever it looks for that name again, finds it (`RacesLost`):
while no statement fails, not even a cache that is behind can hide the row, since a
cache without the id asks the table. What a call is about to create it did not find
(`CreatesMissing`), and sequences are ahead of the ids (`SequencesAhead`), so a rejected
creation is a rejected name. `DropsExplained` needs the same of payloads and statuses.
There the proof showed a cause the property did not name as such: an upsert may be
rejected not only in the call whose message chose an id but later, when the sequence
comes to that id. So the third cause is that *some* message chose an id
(`NoChosenIds`).

**How long a call lasts** (`CallsComeNearer`). `StepsLeft` bounds the statements a call may
still issue: at most `DBRetries + 8`, 0 just when it is idle. Every step of the call
lowers it and no other step raises it (`CallsShorten`), whatever fails: a failed
lookup goes on to a creation, a failed creation leads to the insert or ends the call,
a failed insert uses up an attempt. The one thing to know of the state is that a call
which is about to create a service has found or created its status (`Paced`). Liveness
is beyond the prover, so `CallEnds` stays with TLC; but what it rests on is proved, and
what is left is that a consumer at work takes its steps, which is its fairness.

**The refinement.** The initial states map to the one of `StatusLog`, and each step maps
to a step of it or to none: a message taken up or refused to `Take`, a row written
to `Record`, an end of a call without one to `Close`. That `Record` records what was asked for
is `StatusResolves`; that the entry was still to be recorded, `RowsOfCalls`; that no
other step changes what a reader gets is `PayloadsKept` and `LookupsKept`. Beside the
jobs (`SystemKeepsTheLog`) the steps of the consumers map as before, since they need only
what is also true under cleaning (`LogInv`), and those of the jobs to `Clean`: entries are
taken out, those that stay are not touched. The theorem is about runs in which
no message chooses an id; TLC finds the log broken when one does.

**The event loop** (`IInv` of `EventLoopProofs`).

- `Membership`: an owner holds what it owns, and whoever owns anything owns all it
  holds; an evicted member may believe for a while that it holds partitions.
- `Positions`: the owner of a partition reads on from where the group committed or
  later, and what it has stored is where it is. So its commit goes forward and
  covers just what it read; that of an evicted member is fenced.
- `Covered`: whatever any member has come past was handed over or skipped. This is what
  makes `NoGaps` inductive, since the evicted still hand over.
- `Accounted`: what was handed over is done, in hand or died in hand. With `Covered`
  it gives `CommitWindow`.
- `Undisturbed`: without upsets nobody is evicted and everything handed over lies
  below the owner's position, or the next owner's start; hence `OrderKept`.
- `Budget`: for each message, the number of times it was handed over, plus the evicted
  members that may still hand it over, plus one if the owner (or the next one) may, is
  at most one more than the upsets. Every step that could add a repeat is an upset or
  uses the budget up: this is `RepeatsNeedUpsets`.
- `Jumped`: what a reset passed over lies below the place where the next owner would
  start and below the present owner's position. So whatever is handed over later comes
  after it; that no reset comes after a message was handed over takes `Undisturbed` and
  the last commit of whoever gave the partition up. This is `SkipsBeforeFirstHandOver`.

**Consumers and cron jobs** (`SystemInv`). With rows that go, `PayloadsKept` fails, and
with it `PayloadTrue`. Of `HandlerInv` what holds on is split off (`AllGathered`, the
references, `CacheCoherent`, `DistinctCalls`), since lookup rows are never deleted; in the
place of `PayloadTrue` comes `HeldPayloads`: *if* the payload of a call is still there it
is that of its request, because the sequence never hands an id out twice. A foreign key
then rejects the insert if it is gone, and the cascade takes the rows of a payload
along, so every row has its payload. This is false if messages may choose ids (a chosen
id may be that of a deleted payload which a call still carries; the status then goes
to another request's payload), which is why `StatusesResolveUnderCleaning` and
`FreshMessageStored` are about messages that choose none (`NoChosenIds`). For
`FreshMessageStored` the invariant follows one message (`FreshIsSafe`): if its day had
a partition and no message of its request is old, then it is stored, was lost to a race
or a kill, or is under way with its payload still there. That cleaning spares that
payload rests on `PayloadsAreMessages`: a payload is as old as some message of its
request. `PartitionsFollowTheJobs` only needs that `drop_partition` was run in the past,
and `RecentRowsKept` the types.

**What is left behind under cleaning** (`LeftTrue`, on top of `SystemInv`). Which of the
handler's properties survive deleted rows was first asked of TLC, on the instance of
`system_cleaning`, on one with the cache, two attempts and a failed statement, and on
one with two consumers, a kill and a chosen id; then it was proved. As they stand hold
`OneRowPerDelivery` (a retry whose row was deleted inserts the same id again, which
only then is free), `CacheCoherent`, `CountersAgree`, `ColumnsFromMessages` and
`RaceLostOnce`; `OnePayloadPerRequest` holds of the statuses that are there if no message
chose an id, and TLC has the counterexample otherwise. Two fail for a trivial reason, the
row being gone, and are restated of the step in which it would go wrong: the step
that ends a call leaves its status stored, counted or its consumer killed
(`EndsLeaveTraces`, for `NoSilentLoss`); a payload that stays keeps its columns
(`ColumnsOfKeptNeverErased`). `DropsExplained` has no counterpart: the foreign key of a
deleted payload is one more cause, and `FreshMessageStored` says when it cannot arise.
In `LeftTrue` the place of `StatusResolves`, which chosen ids break, is taken by
`RowsAccepted`: every row is of a message that was accepted.

**Readers.** `EveryStatusListed` rests on `StatusesJoin`: every stored row finds its
payload (a foreign key, which holds under cleaning and with chosen ids as well) and the
lookup rows its message named; that the request it is listed under is its message's is
`StatusResolves`, for messages that choose no ids; `TablesFinite` is what makes an `ORDER BY` have answers.
`PagesPartition` is arithmetic on `Page`, for page sizes and positions up to
`IntLimit`, beyond which `page * page_size` wraps around. A walk has a step per page and
any number of steps of consumers and jobs between; `WalkInv` counts. While no payload
goes or moves, one that was there at the start and is still to be found has at least
`page * page_size` payloads ahead of it (`NoneLost`); while none comes or moves, one that
was found has fewer (`NoneTwice`); pages before the last are full (`FullPages`). In any
answer of the query an untied row has its place by the number of those ahead of it
(`PlaceOfUntied`), so it is on the page if and only if that number says so. The proof
also found what the property had to say: it is limited to walks whose offsets fit
an `int` (`OffsetsFit`): a product that wraps around to a negative offset is none to gorm,
and the server answers with its first page again.

`DurationsAgree` is about a fold. The library's induction theorems cannot be
instantiated by the installed provers, but induction over a *set* of numbers can be
stated with sets alone (`Induction`, from the least element of a set of naturals, which
`WFMin` provides). With it, the fold over a list is the last value of a sequence that
starts at the base and takes one row at a time (`FoldSteps`), and after `k` rows it
holds the earliest and latest dates of those `k`, per service and source and of all
(`Measured`). Their difference is `Span` of the set of dates, which does not depend on the
order. The verbosities agree because an answer in any of them lists each status of the
request once, with its date (`DetailsListed`).

**The API process.** The invariant is about one request at a time (`Known`): at each
point of its handler, what the checks before it have established (`Waiting`), what the
security log has of it (`Recorded`), and what its code says of its parameters
(`Decided`). `LinksAreLogged` is not inductive without `Waiting`: that a link is sent only
to somebody with the role rests on what was checked before storage-broker was asked. A
step of another request cannot disturb it, as a step writes at one place of `calls`
(`MoveKeepsIInv`); a handler's step is then either an answer (`AnswerMoves`, with what
must be seen to before it, `Justified`) or a wait (`AwaitMoves`, `MayAwait`).
`ParametersDecide` also relates `Refused`, as the handlers compute it, to the parameters
themselves, for all combinations of them; the run has 24. (Of a malformed page it says
only that a refusal may rest on it: see finding 4.) For `CountersTellTruth` each
counter is the cardinality of a set of calls (`Tallies`), and a step adds one call to
just the sets whose counters it increments.

**The migration.** Type correctness is inductive alone; the others rest on
`HolderKnows`, what the holder of the lock may rely on at each of its steps: that what it
read still holds when it marks the version, that the file has or has not taken effect,
and, if it finds a dirty version, that there was a fault. A step of another run cannot
disturb it, as every step that writes is under the lock.

**Assumptions.** Those of the modules. Messages are well formed and `Garbage` is
none of them, nor a log entry; `strings.ToLower` maps names to names, and nothing but
the empty name to the empty name; the settings are naturals, retention and the retries of
`create_partition` at least 1; days are numbers, and texts sort by some numbering
(`Collation`). A negative `DB_RETRIES` skips the insert as 0 does, and is covered by 0.
The two values that stand for no owner are no consumers (`MemberAssumption`), as that
for no pod is no pod. The page size of a walk is a positive Go `int`. TLC evaluates each
assumption on its instances.

**Only model-checked.** Liveness (`CallEnds`, `EventuallyHanded`, `SignalEndsProcess`,
`LinkRequestsEnd`, `AllServe`), which is beyond the prover. Every other property of the
passing runs is a theorem. The four statements of the runs of section 5 are violated.

To check: `tlc -config HandlerFaults.cfg MCMessageHandler`, and so on for the runs
in `PROJECT.json`; `tlapm MessageHandlerProofs.tla`, and so on for the other modules
named `...Proofs`.

## 7. What is not modelled

- *Configuration, database connection*: read once or pure I/O. Their values are
  the constants, their failures are the `...Fault` actions.
- *Logging, seeder, metrics server*: output that no code reads, or a developer's
  tool. Of the audit log the events and the level that mutes them are modelled, the
  fields and the principal are not.
- *Bodies of answers*: wording, `interpretDuration`, the Kibana query. `/payloads` and
  `/statuses` answer a count of 0 whatever there is.
- *Filters on `status_msg` and on the creation time of statuses*: nothing else in
  the models tells statuses apart by them.
- *Overlapping job pods*: there is one run of `clean.sh` at a time, which may be killed
  and run again. `create-partition.sh` may come in between.
- *A legacy database*, with the tables but without a version table.
- *Dead code*: `GetPayloadByRequestId`, `UpdatePayloadsTable` and
  `CreatePayloadTableEntry` have no caller outside tests.
- *Parsing of dates and JSON*: a message is parsed or it is `Garbage`. A message without
  a date, which the documented shape requires, is not modelled: its status would have the
  zero date and no partition, and its payload the current time (`handler.go:172`). The length
  of a request id is `Length`, as only it is compared.
- *PostgreSQL internals*: isolation levels do not matter to single-statement
  transactions under unique constraints, which is why a statement is a step; the
  `VACUUM` that ends `clean.sh` changes nothing a reader sees.

## 8. Plan

Done: every component with state of its own, the composition of consumers, jobs
and readers on one database, the proofs of all safety properties that a run checks,
of those that hold on when rows are deleted, and of the log that consumers and jobs
keep. Left:

1. Proofs: for the API process, the event loop and the migration, what
   `CallsComeNearer` is for a call: a bound on the steps left that no step raises,
   under the bounds on faults.
2. Model: an abstract specification of the readers' side, an answer being a
   selection of the entries of `StatusLog`, with `ReadClients` shown to implement it.
