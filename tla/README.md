# A formal model of the microCMS content-ops analytics platform

TLA+ modules for the two services of this repository, the model-checking runs
that exercise them on small instances, and proofs, checked by TLAPS, of what
matters most about them for every instance. Paths and line numbers refer to
the repository.

- [1. The system](#1-the-system)
- [2. The modules](#2-the-modules)
- [3. The runs](#3-the-runs)
- [4. The proofs](#4-the-proofs)
- [5. Findings](#5-findings)
- [6. What is not modelled](#6-what-is-not-modelled)
- [7. Plan](#7-plan)

How to use it, in this directory:

    tlc -workers 2 -config MCWebhookIngest.cfg MCWebhookIngest
    tlapm WebhookIngestProofs.tla

## 1. The system

microCMS posts a webhook for every change of a content. The Lambda
`webhook-ingest` verifies it, normalises it to one event and stores the event
as one Parquet object in S3. The service `duckdb-query-api` answers metrics
requests of Grafana (REST) and of MCP clients by running SQL in DuckDB over all
objects of the bucket. The two services share nothing but the bucket, and the
layout of its keys.

    microCMS --webhook--> API Gateway --> webhook-ingest (n environments) --PUT--> S3
                                                                                   |
    Grafana / MCP client --request--> duckdb-query-api (pool of 4) --list, GET ----+

### Components

| component | state | operations | hard about it | what makes it correct |
| --- | --- | --- | --- | --- |
| **webhook-ingest Lambda** (`webhook-ingest/src`: `main.rs`, `handler.rs`, `signature.rs`, `config.rs`, `storage/`, `ingest/`) | per environment the configuration it read at its start; otherwise none | `from_env`, `handle_request`: verify, normalise, encode, PUT, answer | several environments with different configurations; PUT retried by the SDK, with an unknown effect when it fails; timeouts of the function and of API Gateway; midnight in UTC+9 | a 200 is only said of a stored event; nothing unverified is stored; no duplicates; objects never change; every request is answered |
| **event classification** (`ingest/normalize/event_kind.rs`, `extract.rs`) | none | `derive_event_kind`, `canonical_status` | the order of match arms; status sets like {PUBLISH, DRAFT} | publications and their ends balance with what is live |
| **query engine** (`duckdb-query-api/src/storage`, `main.rs`, `handler/state.rs`) | a pool of connections behind mutexes, an atomic counter | start-up, `DuckDbEngine::query` | blocking threads, callers that leave while their query goes on, panics that poison a mutex, a bucket that changes while it is read | one query per connection, fair draws, no query waits for ever, answers contain what was acknowledged before |
| **metrics SQL** (`duckdb-query-api/src/query`) | none | seven queries over a range of days | the range is cut in UTC+9 twice, by ingest and by the query; the same events counted by different lists of kinds; a self-join whose sides have different ranges | no event falls between two days; metrics of the same range agree |
| **REST and MCP validation** (`handler/validation.rs`, `routes.rs`) | none | checks of from, to, limit, unit | i64 edges, one bound missing | an accepted range is ordered and bounded |
| **MCP access gate** (`handler/mcp.rs`) | sessions, kept by the library rmcp | Origin, preflight, bearer token, tools | order of the checks | no tool runs without token and allowed origin; the tools answer as the routes do |
| **query-api configuration** (`config.rs`) | none | `from_env`, `mcp_config` | two places that check the MCP settings | what `from_env` accepts, `mcp_config` accepts |
| **debug seed generator** (`webhook-ingest/src/debug_seed`) | targets, schedule and events of one run | validation, activity targets, day schedule, four loops and fillers, files | integer rounding of shares, u32 products, one day or one content, pairs that take from two shares, groups of contents that must not share ids | the promised number of events of each kind, within the promised days, each in one file |
| **debug seed files and sync** (`debug_seed/io.rs`, `bin/debug-parquet-seed.rs`, `justfile`, `scripts/debug-webhook.sh`) | a local directory and the bucket of the local stack | seed, sync with `--delete`, persist, clean | the same directory for generated and for persisted files | data that was persisted survives |
| **Grafana dashboards**, **infrastructure**, **CI** | declarative | | timeouts and retries they configure | |

How they interact: microCMS calls the Lambda over HTTP, each webhook once
(`docs/microcms/webhook-setting.md` describes no retry, and promises no order);
the Lambda calls S3 through the AWS SDK, which retries; Lambda, API Gateway and
the operator act on the Lambda (cold start, recycling, timeouts, new
environment variables). Grafana and MCP clients call the query API; its handler
futures hand a closure to a blocking thread, which is not cancelled with them.
The only shared state is the bucket: ingest appends, the query API lists and
reads.

## 2. The modules

| module | models | state and actions |
| --- | --- | --- |
| `EventKind` | `event_kind.rs` | pure: `CanonicalStatus`, `StateArms`, `DeriveEventKind` |
| `EventLog` | nothing in the code: the abstract specification of what ingest promises | `recorded`, `reply`; `Record`, `Acknowledge`, `Reject`, `Fail` |
| `WebhookIngest` | the Lambda, its environments, S3 and the senders | see below |
| `QueryEngine` | the query API from the port to the rows; EXTENDS `EventLog` for the writer | see below |
| `Metrics` | the SQL of the seven queries | pure: `Window`, `CalendarHeatmap`, `ApiActivity`, `TopUpdatedContents`, ... |
| `ContentEvents` | microCMS, delivery and `normalize_payload`, on top of `Metrics` | contents are created, edited, deleted, renamed; webhooks are delivered in any order or lost |
| `QueryRequest` | `validation.rs` and the parameters of each metric; EXTENDS `Metrics` for the days | pure: `ValidateTimeRange`, `ValidateLimit`, `ValidateUnit`, `Query` |
| `QueryApi` | the configuration and the HTTP surface of the query API | see below |
| `DebugSeed` | the generator of debug data; EXTENDS `Metrics`, over which its events are judged | see below |
| `DebugWorkflow` | the recipes around debug data: the local directory and the bucket of the local stack | see below |
| `MCWebhookIngest`, `MCQueryEngine`, `MCContentEvents`, `MCQueryApi`, `MCDebugSeed`, `MCDebugWorkflow` | the instances for TLC | |
| `WebhookIngestProofs`, `QueryEngineProofs`, `ContentEventsProofs`, `QueryApiProofs`, `DebugSeedProofs`, `DebugWorkflowProofs` | the theorems about each component | |
| `EventKindProofs`, `MetricsProofs` | lemmas about the classification, and about sums, minima and the ranking | |

The two services are composed through `EventLog`. `WebhookIngest` is shown to
implement it (property `LogSpec`, theorem `Refinement`), and `QueryEngine` runs
against it, so that whatever the Lambda does to the bucket is a step that the
query engine has been checked and proved against, and the query engine needs
no Lambda in its state space. `ContentEvents` takes the same promise for
granted in the other direction: it looks at what the events of delivered
webhooks mean, and not at how they are stored.

### WebhookIngest

An execution environment (`Instance`) is cold, idle, handling a request or
waiting for a PUT. `ColdStart` is `main.rs` and `AppState::from_env`, which
reads the environment variables once; `Deploy` changes them later, so that old
and new secrets are in use at the same time. `Accept` is API Gateway handing
over a request.

From there each path through `handle_request` is an action: `InitFailed` (500
for everything after a broken start), `MissingSignature`, `InvalidSignature`
(401), `InvalidPayload` (400), `ParquetFails` (500), and `StartPut`, which is
everything from `Utc::now()` to the request leaving for S3 — it runs on one
thread and nobody can see a state in between. A PUT has an effect (`PutLands`)
and an answer (`PutSucceeds`), and those are two steps; before either the SDK
may start a new attempt (`RetryPut`), up to `MaxAttempts`, or give up
(`PutFails`). An attempt nobody waits for any longer may still reach S3
(`stray`, `StrayLands`, `StrayDropped`), also after a 500 or a 504 was sent.
`GatewayTimeout` is API Gateway answering before the function has;
`TimeOut` the Lambda service killing the environment.

Data that the properties do not look into is abstract: an HMAC is the pair of
secret and body, `partition_escape` is a constant function that need not be
injective, an event id (UUID v7) is a number never handed out before, a
Parquet object is the record of its columns.

### QueryEngine

`service` follows `main.rs` and `lib.rs`: the port is bound (`Bind`) before the
pool is built (`Serve`); `Exit` and `Restart` are the process and its
supervisor. A request (`Ask`) becomes a blocking task (`Spawn`) when the service
serves, gets one of `Threads` threads and draws a connection (`DrawConnection`,
`engine.rs:82-83`), then waits for its mutex (`Lock`, `LockPoisoned`). Reading
the bucket is a sequence of pages (`ReadPage`), one or two scans long
(`NextScan`; the draft-to-publish query reads the bucket twice), and ends in
`Rows`, `Fails` or `Panics`. `Leave` drops the handler's future and not the
task. The events the bucket holds are `recorded` of `EventLog`, and they grow
at any moment. Two variables only record and guard nothing: what was acknowledged
when a query was asked (`known`), and what earlier answers had shown by then (`shown`).

A page stands for a part of the listing of the bucket together with the objects
on it: what a scan reads from it is what was there at that step. A real
scan lists first and reads afterwards, and so can only see more.

### Metrics and ContentEvents

`Metrics` has the queries as operators on a set of events: a range of
milliseconds becomes a set of days (`Window`), counts are cardinalities, the
`CROSS JOIN` with `generate_series` is a function over all days, NULLs are
sentinels. `TopUpdatedContents` is a set of answers, as SQL may cut contents with
equal counts in any order. The division that makes an average out of durations,
and the order of rows where no `LIMIT` depends on it, are left out.

`ContentEvents` is the life of contents in microCMS as its documentation
describes it. Time is discrete; a day has `DayLength` ticks and JST is ahead by
`JstOffset`. Each change sends a webhook with what microCMS knew at that time,
and `Deliver` does what `normalize_payload` does at the time of arrival. `ChangeApi` is a
webhook without content id and statuses, which becomes an event without a kind.

### QueryRequest and QueryApi

`QueryRequest` is what a handler does before it asks the engine. Integers have a
width (`MinInt .. MaxInt`), of which chrono represents a part
(`MinTime .. MaxTime`). `checked_sub` is a set with at most one member, so that
a difference that does not fit rejects the range. A parameter that is not of its
type is refused by axum or rmcp before a handler sees it.

`QueryApi` is the process from its environment variables to its answers. `Bind`
is `from_env`, which must accept the variables of the moment; `Serve` is
`mcp_config`, which checks the settings again after the port is bound
(`main.rs:12-17`). A request to `/mcp` passes `require_mcp_access`, whose
returns are actions (`Forbidden`, `Preflight`, `Unauthorized`); what it lets
through (`Admitted`) goes to rmcp, of which only the use is known:
`Initialize`, `OtherCall`, `CloseSession`, `Expire`, and `RefusedByRmcp`, which
may happen to any request. A tool call in a session and a REST route end in the
same two actions, `Reject` and `Ask`; `Conclude` is the end of the query, at any
time. `Exit` loses all sessions, and `Deploy` changes the variables for the
next start. `QueryEngine` looks at what happens between `Ask` and `Conclude`; the
two are not composed, since they share nothing but that a valid request exists.

### DebugSeed

One run of `generate_debug_parquet_files`, from its configuration to its files.
`Validate` and `PrepareOutputEventsDir` come first, for both presets; then
`GenerateSmokeFiles`, or `Plan` (targets and schedule) followed by the loops of
`bulk.rs`: `PushPair`, `PushOrphan`, `PushSaveDraft`, `PushInitialPublish`, one round
per step and one loop after the other (`Turn`), and `PushFiller` for the shuffled
rest; `WriteBulkFiles` cuts partitions into shards. Events go through the same
`DeriveEventKind` as those of the Lambda. A file is the set of its rows: the id of an
event is its place in `events`, so the order of `chunks` is that of the ids, and a row's
place in its partition (`Place`), divided by `rows_per_file`, is its shard.

- The table of weights (`activity.rs`) is a constant, `Shares`: a set of tables.
  The table of the code, `BulkWeights`, is in the module, and an assumption that TLC
  evaluates says that it is one of those the proofs are about.
- The linear congruential generator is a choice among all it can return; the scores
  of the schedule are any order of the days. `deterministic_content_ulid` is
  injective: hashes do not collide.
- Products of count and weight are compared with the largest u32. The recipes build
  in the dev profile, in which `total * weight` panics (`Panic`), after the
  old files are gone. A release build would wrap round instead, and is not modelled.
- The minutes of the smoke fixtures are dropped.
- Writing files is one step here; that it may stop in between is `DebugWorkflow`.

### DebugWorkflow

Two maps from keys to files, the directory `DEBUG_PARQUET_DIR/microcms_events`
and the bucket of the local stack, and one recipe at a time that changes them. A
file is whole or broken, and its key says who made it and on which day. A seed is
`Prepare` (the directory is removed), `WriteFile` for each file, and a sync; a sync is
`ListLocal`, then `Copy` and `Remove` in any order, then `Say`. Each of these has its
failure (`PrepareFails`, `WriteFails`, `ListFails`, `Skip`), and `Abort` ends a recipe
anywhere. Errors of the generator end the recipe; errors of `aws` do not, as
the shell does not look at them (`justfile:124-131`). Meanwhile webhooks
arrive, midnight passes, and between recipes the stack is brought down, with which
the bucket is emptied (it is there again at once: the time without a bucket is
`ListFails`). `debug-webhook` is `Arrive` followed by `Persist`. Which events a
bulk seed draws does not matter here: it has events on some of its days, in
some number of shards.

AWS's sync compares sizes and times and copies what differs;
copying what is equal changes nothing and the model does it too.

## 3. The runs

| run | configuration | checks |
| --- | --- | --- |
| `webhook_ingest_safety` | `MCWebhookIngest.cfg` | `TypeOK`, `IInv`, `AcknowledgedIsStored`, `StoredIsGenuine`, `RejectedIsNeverStored`, `PartitionAgrees` |
| `webhook_ingest_log` | `MCWebhookIngestLog.cfg` | `BucketOnlyGrows`, `Answered`, `LogSpec` |
| `query_engine_fresh` | `MCQueryEngine.cfg` | `TypeOK`, `IInv`, `RowsAreFresh`, `MonotonicReads` |
| `query_engine_pool` | `MCQueryEnginePool.cfg` | `ConnectionsAreHeldByReaders`, `DrawsAreBalanced`, `BalanceInv`, `Concluded` |
| `content_events` | `MCContentEvents.cfg` | `TypeOK`, `IInv`, `LiveBalance`, `LeadTimesAgree`, `RangeCoversItsEvents`, `CountsAgree`, `UpdatesAreArrivals` |
| `query_api` | `MCQueryApi.cfg` | `QueriesAreBounded`, `BoundIsMountable`, `TypeOK`, `IInv`, `OriginsAreEchoed`, `OnlyThroughTheGate` |
| `seed_generator` | `MCDebugSeed.cfg` | `TypeOK`, `IInv`, `ScheduleReachesToday`, `CountIsHonored`, `KindsMeetTargets`, `PairsDriveDraftToPublish`, `FilesHoldEvents` |
| `debug_workflow` | `MCDebugWorkflow.cfg` | `IInv` (with `TypeOK`), `SyncedIsReplaced`, `SeedsUploadTheirFiles` |
| `draft_to_publish_first` | `MCContentEventsFirst.cfg` | `SampledAtFirstPublish` is violated (see Findings) |
| `smoke_baseline` | `MCDebugSeedSmoke.cfg` | `SmokeMatchesBaseline` is violated |
| `debug_sync_said` | `MCDebugWorkflowSaid.cfg` | `SaidIsSynced` is violated |
| `debug_backup` | `MCDebugWorkflowBackup.cfg` | `BackupSurvives` is violated |

What they show, and why the bounds are enough to see the interesting cases:

- **webhook_ingest_safety.** Two requests and two environments: the properties
  relate one request to its own object, or two objects to each other. The same
  message can be sent twice. The messages are three signed webhooks, two of them
  of APIs that share a partition, a signature over another body, none at all, and
  a body that is not a webhook; the environments hold two secrets and a broken
  configuration, and one message is signed with the other secret. Two attempts
  are the least with a retry, and let an abandoned first attempt land after the
  second. The clock has one tick on each side of midnight in UTC+9.
- **webhook_ingest_log.** The same without symmetry (it would be unsound for
  liveness), with one tick, and with one way to be rejected instead of three.
  `BucketOnlyGrows` says that a PUT, though it overwrites, never changes an
  object. `Answered` needs fairness, below.
- **query_engine_fresh.** Two events on two pages, two queries, two
  connections, one restart: an event recorded on a page already read, on one
  not yet read, between two scans and between two queries. `RowsAreFresh` speaks
  of acknowledged events, `MonotonicReads` also of those whose sender got an error
  or no answer yet: if one metric has shown them, the next one does too, over
  another connection or after a restart.
- **query_engine_pool.** Three queries on two connections, so that one connection
  is drawn twice while the other is idle, with as many threads as connections;
  the counter has two values and wraps. `RowsAreFresh` is not asked here, so one
  page and one scan are enough.
- **content_events.** Two ids in one API, the settings of that API and of another,
  four changes: enough for create, publish, delete and recreate under the same id,
  or for a rename onto an id that was free; one midnight in UTC+9, between any two
  of them or between a change and the arrival of its webhook; all ranges.
  `LiveBalance` is asked where all webhooks have arrived, in every order, and `IInv`
  extends it to webhooks on their way or lost. In `UpdatesAreArrivals` the ranking,
  which goes by the type of events and drops those without a content, is compared
  with metrics that go by kinds and do not.
- **query_api.** Two requests and one session, so that the second request
  can use the session the first one opened, after a restart with another token or
  with MCP switched off. MCP messages come from an allowed origin, another one and
  none, with the present, the previous and no token, with and without the session.
  Integers have six bits, and 41 of them are times; days have two ticks; ranges
  are of at most three days, and two by default. The eight values of `from` and
  `to` are ends of these intervals, their neighbours, and none. Limits are 0, 1, the
  greatest and one more. The environments are those that `from_env` accepts, with
  MCP or without it, and two it does not.
- **seed_generator.** Ten configurations of the bulk preset and the smoke preset:
  eight events on one and on two days, fewer events than there are templates (so
  that most targets are zero and the remainder is not), periods of which a day is
  quiet and of which none is, files of one, two and three rows with a short last one,
  one content for all fillers, a count that overflows, and four that are refused.
  The five tables have shares of an eighth, and each template is in one of them.
- **smoke_baseline.** A day has 24 ticks, for the hours of the fixtures.
- **debug_workflow.** Three recipes: a seed, an interrupted one or a persist, and
  a seed again. One smoke event, up to two shards on each of two days, one
  webhook and one midnight, periods of up to two days: a second seed can have fewer shards, other days or
  another smoke date than the first.

`CHECK_DEADLOCK FALSE` stands in the configurations of `QueryEngine`,
`QueryApi`, `ContentEvents`, `DebugSeed` and `DebugWorkflow`: all requests may be over with the
process gone and the restarts used up, a process that cannot be configured
does not start, nobody has to change a content, a seed is over when it is over,
and the number of recipes is bounded. `WebhookIngest` is checked for
deadlock: operators can always deploy again.

### Fairness

- `WebhookIngest!FairSpec`: weak fairness of `Invocation(i)`, the disjunction of
  all steps of a running invocation, including `TimeOut`. It says no more than
  that an invocation goes on or is killed, which the function's timeout of 30 s
  guarantees (`infra/aws/main.tf:92`). S3, the network, the sender and the clock
  are not fair. `Answered` starts from an accepted request: a lost one never is.
- `QueryEngine!FairSpec`: weak fairness of `Serve` and of `Work(q)` for each
  query. Threads are scheduled and a DuckDB query ends, with rows or an error
  (its S3 client has timeouts). `std::sync::Mutex` is not fair, but with
  finitely many queries each of which lets go of its connection, `Lock(q)`
  stays enabled in the end. Nothing is assumed of callers, of recording, of
  exits or restarts.
- `ContentEvents`, `QueryApi`, `DebugSeed` and `DebugWorkflow` have safety properties
  only, and no fairness.

### Assumptions about the world

- A PUT is atomic, and listing and reading see every PUT that was answered
  before (S3's strong consistency).
- The only writer under the prefix is `webhook-ingest`; nobody deletes events.
- UUID v7 ids are unique.
- microCMS sends a webhook once. A content that does not exist has no status,
  and one that does has {DRAFT}, {PUBLISH}, {PUBLISH, DRAFT} or {CLOSED}.
- The wire format of a body is decoded as `serde_json` does it; a body is a
  webhook, other text, or bytes that are not UTF-8.

## 4. The proofs

TLAPS checks them for every value of the constants that satisfies the named
assumptions of each module. Those say that sentinels differ from values, that
numbers are numbers, that UTC+9 is nine hours ahead whatever the unit of the
clock is, (in `QueryEngine`) that the pool size divides the range of
the counter, as 4 divides 2^64, and that a metric scans the bucket once or twice, as
the SQL of each does, (in `ContentEvents`) that contents are finitely many,
(in `DebugWorkflow`, `WorkflowAssumption`) that the longest `--days` is positive and that
days are counted from the earliest one a seed can reach (`FirstDay`), which bounds neither,
and (in `DebugSeed`) that a table of weights adds up and has no fewer first drafts
than publications of a draft, that there is an API, and that what is missing is neither
an instant nor one of the generated ids.

Six modules prove an inductive invariant, called `IInv` where the runs check it,
and the properties from it; two have the lemmas they share.

**EventKindProofs.** What `derive_event_kind` returns is a kind or none, for every type
and every set of statuses; no two arms on canonical statuses fit the same webhook
(`ArmsDiffer`), so that their order does not matter and each decides what no overlay takes
before it (`ArmDecides`). The modules of ingest, contents and seeds share it.

**MetricsProofs.** The metrics are compared by sums over sets, and an induction over a set
cannot be done with these provers. Two ways around it are used instead. The
fold behind `Total` is a function over finite sets with a unique solution
(`SumIsFold`, `SumIsUnique`: where two solutions differed there would be a smallest set on which they
do, and taking one element out of it gives a smaller one); and a sum of sizes of disjoint sets is the
size of their union (`SumOfParts`, `TotalOfParts`), by the same argument. Then equalities between
metrics are equalities between sets of events. `RankingExists`, `RowsCountUpdates` and
`FirstIsAboveAverage` are about `TopUpdatedContents`.

**WebhookIngestProofs.** The invariant is `IInv == Structure /\ WriteInv`.

- `Structure` (theorem `StructureInvariant`) is the type invariant with
  `JobInv`, that a running invocation serves an accepted request that no other
  environment serves and that has had no answer but a 504, and `RequestInv`,
  that event ids are unique and that only accepted requests have one. Without
  it `WriteInv` is not inductive: `PutSucceeds` could answer a request that was
  already refused, and two environments could write for the same one.
- `WriteInv` says of every object, whether in the bucket, on its way or
  abandoned, which request made it (`MadeFor`), and that its key is that of its
  content (`WellPlaced`). Objects not yet in the bucket are part of it because a
  stray attempt puts them there without looking at anything.

From it follow `Durable` (`AcknowledgedIsStored`), `Genuine`
(`StoredIsGenuine`), `RejectionIsFinal` (`RejectedIsNeverStored`),
`PartitionsAgree` (`PartitionAgrees`, with a lemma about the division that makes
a day out of an instant), `AppendOnly` (`BucketOnlyGrows`, because two objects
with one key are one object), and `Refinement` (`LogSpec`): each step of the
Lambda is a step of the log or leaves it as it is.

**QueryEngineProofs.** `Invariant` is `TypeOK /\ AcknowledgedInv /\ FreshInv`.
`FreshInv` says how far a scan has come: of the events acknowledged or shown when the
query was asked, those on pages already read have been seen. This is inductive because
events are never removed, and because whatever a scan has seen is recorded, so that what
was shown is (`ShownIsRecorded`). `Fresh` is `RowsAreFresh`, `Monotonic` is
`MonotonicReads`. `Exclusive` is
`ConnectionsAreHeldByReaders`, by `PoolInv`, which adds that a task that has
drawn a connection knows it, and that no task exists outside a serving process
(`PoolInvariant`: it is inductive on its own, and a step of the proof rather than a
property that a run checks). `Balanced` is `DrawsAreBalanced`, by
`BalanceInv`: the connections before `next_connection`, modulo the size of the pool, have one
draw more than the last one, and the others as many. That needs no sum over
connections; it needs that a query draws once, that the counter starts at 0 with an
undrawn pool, and `CounterGoesRound`, where the assumption that the pool size
divides the range of the counter is used.

**QueryApiProofs.** `Invariant` is `TypeOK /\ ProcessInv /\ RequestInv`.
`ProcessInv` says that a process that has bound its port has settings that can be
mounted (`SettingsAgree`, for `BoundIsMountable`). `RequestInv` says of every
query in progress that it is bounded and that its client was entitled, by the
settings of the process as it is now: that needs the fact that no query outlives
its process, and that the settings of a process do not change. `NoLargeQuery` is
`QueriesAreBounded`; it rests on lemmas about `ValidateTimeRange` and on
`DaysApart`, that two times `k` days apart are in days at most `k` apart,
wherever midnight is. `Gate` is `OnlyThroughTheGate`, the action property, by
the same invariant. `Echoed` is `OriginsAreEchoed`, which is inductive together with
`TypeOK`.

**ContentEventsProofs.** `Invariant` is `TypeOK /\ Distinct /\ Balance /\ Classified /\ Dated`.
`LiveBalance` says nothing while webhooks are on their way, so it is not inductive; `Balance` counts
the webhooks on their way and lost as what they would become. Then an edit changes
`Balance` on both sides, and a delivery moves one element from one set to the
other, for which `Distinct` is needed: an event whose id was there already would
not count. The heart is a lemma about the classification, `KindTellsLiveness`: among
the statuses that microCMS sends, a kind is a publication exactly if the content was
not live and is, and an end exactly if it was and is not. `LiveIsCounted` is `LiveBalance`;
`NothingFallsBetween` is `RangeCoversItsEvents`, from the type invariant (an event is
filed under its day) and the monotony of the division.

`MetricsAgree` (`CountsAgree`) compares sums over days, APIs and kinds as sizes of
partitions of the same events. `RankingAgrees` (`UpdatesAreArrivals`) needs `Classified`: the ranking
takes events by `event_type`, the other metrics by `event_kind`, and only of the changes
that microCMS sends is it true that these tell deletions apart in the same way.
`LeadTimesAreDurations` (`LeadTimesAgree`) needs `Dated`: the draft-to-publish metric takes the
least draft time of an id over all events, the other one the time of creation on the event
itself, and these are the same only while the id had one life, which webhooks that are
still on their way must know as well.

**DebugSeedProofs.** `Invariant` is `Counted /\ KindsCounted /\ PairsMade /\ Filed`, of which
the last three are inductive given the first.

- `Counted`: the length of `events` is `Made`, what the loops
  and fillers have contributed so far: two per pair, one per other round, one per
  filler used. When all have run to their end this is the sum of the targets, with the
  pairs' drafts taken from the share of the first drafts; that the subtraction there
  is not a saturated one is the assumption on tables, carried through the rounding
  down (`DivisionGrows`). The sum of the targets is the count, as the shares rounded
  down never exceed it and the rest goes to one of them. `CountIsExact` is
  `CountIsHonored`; `TodayIsActive` is `ScheduleReachesToday`, by the cardinality of what a
  swap leaves.
- `KindsCounted` says the same kind by kind. It rests on `KindOfTemplate`, that the body of
  each template is classified as its own kind, and `KindsDiffer`. `KindsAreExact` is
  `KindsMeetTargets`.
- `PairsMade`: each round of the first loop has left exactly one publication with its id, and
  one draft time, the duration of the API before it; nobody else makes publications of
  drafts, and first drafts otherwise only under the ids of orphans, which differ. So the
  two minima of the metric are minima over one element (`MetricSeesPairs`), for any range.
  `PairsDriveMetric` is `PairsDriveDraftToPublish`.
- `Filed`: all events are on the schedule and the files are those of the preset.
  `FilesAreComplete` is `FilesHoldEvents`: ranks in a partition
  are an injection without gaps into `0 .. n - 1` (`RanksDiffer`, `RanksAreAll`), so a shard
  below the last has `rows_per_file` rows and the last has at least one
  (`ChunkIsFull`), and the shards of all partitions are disjoint and cover the events.

**DebugWorkflowProofs.** `Invariant` is `TypeOK /\ SeedInv /\ CopyInv /\ NameInv`. `SeedInv`:
from `Prepare` on the directory holds what the seed has written and nothing else, so that
the files an interrupted recipe left broken are gone. `CopyInv`: a key that a sync has no
more to do with is alike on both sides, unless something failed. `NameInv`: a
webhook that arrives has a key that is nowhere yet; otherwise it could
replace a persisted one during a sync, and `CopyInv` would not survive `Arrive`. `Replaces`
is `SyncedIsReplaced`, `UploadsItsOwn` the action property `SeedsUploadTheirFiles`.

The steps of a proof follow the actions of `Next`, and under each action the
conjuncts it can disturb.

Every invariant and every action property that the passing runs check is a theorem, and so is the
refinement. Only model-checked:

- `Answered` and `Concluded`: liveness under fairness is beyond the prover.
- The four properties that runs show to be violated (see Findings).
- That recipes, requests and queries can do anything at all: TLC reports that every action is
  taken in some run.

The last step from an invariant to the specification is temporal and proved with
PTL; no theorem is assumed, and no step left without a proof.

## 5. Findings

- `draft_to_publish_first`. The MCP tool is described as "Return average time
  from draft creation to first publish by API."
  (`duckdb-query-api/src/handler/mcp.rs:211`). The query takes the first
  publication *within the range* (`average_draft_to_publish.rs:38`), while the
  draft is looked for without a range. A content that is published, taken back
  to draft and published again a day later counts in both ranges, and in the
  second with a duration that includes its public life. The specification
  document (`requirements/microcms-content-ops-analytics.spec.md:408-410`, and its SQL in
  7.7) says that the range applies to the publication, so it is the description of
  the tool that disagrees.
- `smoke_baseline`. `docs/local-debug.md:137` says that the smoke fixtures are aligned with
  the baseline of the integration test of the query API. That test reads ten events and
  expects a heatmap of 10, 9 events of `blogs` and 6 state arrivals
  (`duckdb-query-api/src/lib.rs:334-390`). There are eight fixtures
  (`debug_seed/smoke.rs:174-252`), without the overlays and the event without kind, and
  the metrics over them are 8, 7 and 7. The lead time of five days does agree.
- `debug_sync_said`. The recipe `debug-parquet-sync` says "Synced debug Parquet
  files to s3://..." (`justfile:131`) after `aws s3 sync` has failed: the
  commands are joined by `;`, and nothing looks at the exit status. The recipe
  succeeds, and the recipes that call it do too.
- `debug_backup`. To keep webhook data, `docs/local-debug.md:145` advises to run
  `debug-parquet-persist` before a seed. It writes to the directory that the seed
  removes first (`debug_seed/io.rs:13-17`), and the sync that follows removes the
  event from the bucket. (A copy elsewhere would keep it.)

Seen on the way, without a run: `docs/local-debug.md:137` says that a second
smoke seed overwrites the same S3 keys. Keys carry a day, that of the run minus
two (`smoke.rs:29`), so this holds on one day only; on another the sync removes
the keys of the first run, which `SyncedIsReplaced` relies on.

## 6. What is not modelled

- The division of durations and the formatting of rows.
- The library rmcp: its sessions are modelled as this code relies on them.
- The settings of the query API without influence on its control flow: region,
  port, S3 endpoint and the directory of DuckDB's extensions.
- The random numbers and hashes of the seed generator, and its behaviour in a release
  build when a product overflows.
- `configure_connection` (`storage/connection.rs`) but for its success or failure: it
  sends settings to DuckDB and has no choice but whether the path is in S3.
- Webhooks about the deletion of a whole API: the documentation does not say
  which webhooks its contents send.
- The encoding of Parquet, HTTP and JSON, SQL's parser and optimiser, TLS.
- Grafana, Terraform and CI: declarative, without state of their own. Their
  timeouts and restarts appear as actions of the environment.
- The health check (`routes.rs:73`) together with the pool. It does not touch it:
  `QueryEngine` has states in which every connection is poisoned and all metrics
  fail, and in which the check passes. No document says that it should not.

## 7. Plan

Done, in this order because it is what data passes through: `EventKind`,
`EventLog`, `WebhookIngest` and its proofs; `QueryEngine` and its proofs;
`Metrics` and `ContentEvents`; `QueryRequest`, `QueryApi` and its proofs;
`DebugWorkflow`; `DebugSeed` and its proofs; the proofs of `ContentEvents` and
`DebugWorkflow`; the ranking of contents, and webhooks that are not about one.

The sums, the ranking, the lead times, and the kinds, pairs and files of the seed
generator were proved last.

Left, each of less weight than what is there:

1. Late PUTs together with ranges that are over: by `LogSpec` only a request without a
   200 can still add to a past day; a run of `ContentEvents` over the log's late
   records would show what that does to each metric.
2. Theorems about `Metrics` alone that no run states: that the heatmap of a range is that of
   two adjoining ranges put together, and that a longer limit extends the ranking.
