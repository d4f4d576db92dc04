# MovieRating in TLA+

This directory holds the specifications of MovieRating, a movie rating system of three C++
services (`rating`, `metadata`, `movie`) over PostgreSQL, Kafka and Consul: TLA+ modules, TLC
configurations, and theorems with proofs that TLAPS checks. `PROJECT.json` maps every
definition to the lines of source it stands for, and lists runs, mutants, findings, hazards and
theorems. Paths below are relative to the source repository.

Commands, from this directory:

tlc -workers 2 -config ingestion_group.cfg MCRatingIngestion tlapm RatingIngestionProofs.tla

## 1. Inventory

| component | source | state | operations | interacts with |
|---|---|---|---|---|
| rating ingester | `src/rating/ingester/kafka/` | the Kafka consumer: assignment, positions | `Poll`, `parseRatingEvents` | Kafka broker, controller |
| rating model | `src/rating/model/rating.h` | none | equality and hash of ratings and events, `FromJSON` | everything of the service |
| rating controller | `src/rating/controller/` | `isStart_`, the ingest thread | `StartIngestion`, `doIngestion`, `Stop`, `Get`, `Put` | ingester, repository |
| PostgreSQL repository | `src/rating/repository/postgresql/` | one connection, its transaction | `Get`, `Put` | database, gRPC threads, ingest thread |
| rating gRPC service | `src/rating/service/grpc/` | server, shutdown thread | `GetAggregatedRating`, `PutRating`, `start`, `stop` | controller |
| runners | `src/*/runner.cpp` | service id, health check loop | `run` | registry, gRPC service |
| Consul registry | `src/discovery/consul.cpp`, `registry.cpp` | none of its own; the agent's services and TTL checks | `Register`, `ReportHealthyState`, `ServiceAddress`, `GenerateServiceID` | runners, gateways |
| memory registry | `src/discovery/memory.cpp` | entries with an expiration, a mutex | the same, `Deregister` | created by no application |
| movie service | `src/movie/` (gRPC part) | none | `GetMovieDetails`, gateways, `ServiceConnection` | registry, metadata, rating |
| metadata service | `src/metadata/` (gRPC part) | one connection | `GetMetadata`, `PutMetadata` | database |
| HTTP services and gateways | `src/*/service/http`, `src/movie/gateway/*/http` | none | `handle_get`, `handle_put`, `Get`, `GetAggretatedRating`, `PutRating` | registry, each other; created by no application |
| memory repositories | `src/*/repository/memory` | maps without a lock | `Get`, `Put` | HTTP handlers, ingest thread, tests |
| configuration | `src/config` | one static YAML tree | `Create`, `Load`, `get` | everything that starts |
| applications | `src/*/application.cpp` | a container of factories | logging, wiring | runners, configuration |

How they interact. Producers publish arrays of rating events to the topic `ratings`. Each rating
process runs one ingest thread, which polls the consumer, commits the message's offset and then
inserts its events, and a pool of gRPC threads, which call the same repository: all of them share
one `pqxx::connection`. The runner of each service registers with Consul before the server
listens, and a coroutine reports health every 3 seconds against a TTL of 5. The movie service
looks both other services up in Consul for each request and calls them in turn.

What is hard here, and what would make it correct:

* *Delivery.* The offset is committed before the events are stored, instances leave and join the
  group at any time, and an evicted instance goes on for a while. Correct: no event stored twice,
  commits in order, a loss only through a fault that one can name.
* *Parsing and de-duplication.* One malformed item discards its message; two events of one record
  meet in a set. Correct: what `Poll` yields is a function of the message alone.
* *One connection, many threads.* A second transaction is refused outside the `try` block, or, in
  a race, let into the same session. Correct: the connection is released on every path, and an
  undisturbed call stores and reads what it answers.
* *Discovery.* Two reads of the agent that are not atomic, ids made of the current second, a
  health loop that an exception ends. Correct: addresses are fresh, healthy instances are found,
  checks of reporting instances do not expire and those of dead ones do.
* *Start and stop.* A stop that runs before `start` has assigned `thread_` returns with nothing
  stopped, `start` waits on the null server it gets when the port is taken, and threads refer to
  objects that the owner destroys. Correct: a stop that is not too early ends server, `start` and
  `stop`; a process without a server does not stay; nothing outlives what it refers to.
* *Configuration.* One tree that every `get` walks, keys that are read at many moments up to the
  registration. Correct: a service that is registered has all that it needs, and one `get` does
  not disturb the next.
* *Expiration.* A list whose lookups do not look at the clock, and reports that erase what is
  late, the reporter included. Correct: an instance that reports in time stays listed, a dead one
  does not, and an address is stale only as long as nobody reports.
* *HTTP.* Handlers and the ingest thread in maps without a lock, gateways that look at no status,
  a handler that uses details which may be absent. Correct: every request is answered, none OK for
  an unknown movie; without an overlap an acknowledged rating stays stored.
* *Fan-out.* Two lookups and two calls without deadlines, whose failures are answered differently.
  Correct: details belong to the movie that was asked for, a request that meets no fault is
  answered, and nothing but a hung instance holds one up.

`hazards` in `PROJECT.json` names each of these at its line.

## 2. Modules

`RatingModel` — events of `rating.h`. An event is a record of record id, record type, user, event
type and value. `SameKey` is the C++ `operator==` (record id and type only), `Inserted` what
`unordered_set::insert` does with it, `ParsedEvents(m)` what `Poll` makes of the payload `m`.
A payload is a sequence of events and of `Malformed`, an item that `FromJSON` rejects. JSON text
is abstracted to that: a payload that is no array is its own only item, an event or not, and one
that is no JSON at all is a single `Malformed`.

`EventBatch` — the loops of `parseRatingEvents` and of the copy in `Poll`, item by item; the
detailed form of `ParsedEvents`. One action per turn of a loop, and `ParseSingle` for the payload
that is no array. That of each key the first event of a message stays is part of `ParsedEvents`.

`RatingIngestion` — the group of rating processes. State: the broker's `log`, `committed` and
`owner` (external), each consumer's `position`, each ingest thread's `pc`, `held` message,
`events`, `todo` and `stopping`, and the `table`. Actions: `PollNothing`, `PollMessage`
(`Ingester::Poll` up to the commit), `CommitOffset` and `CommitFails` (the commit of
ingester.cpp:111, whose exception leaves the thread and so ends the process), `Insert`,
`InsertFails`, `PutThrows`, `SkipEvent` (one turn of the loop of `doIngestion`), `EndOfBatch` (the
look at the stop token), `Start`, `Stop`, `Exit` (the destructor's stop or a crash), and the
broker's `Produce`, `Assign`, `Evict`, `Revoked`, `TimerCommits`. `OffsetReset` and
`AutoCommit` are the two settings in which `NewIngester` ("earliest", off) and the production
constructor (the defaults "latest", on) differ.

`EventDelivery` — the abstract promise: every message is taken once at most, and each of its
events is applied or lost once. `RatingIngestion` refines it (run `ingestion_delivery`).

`RatingServer` — one process: gRPC threads and the ingest thread on one connection. `current` is
libpqxx's `m_trans`, `session` the transaction block of the database session. The constructor of
`pqxx::work` is three steps (look at `m_trans`; set it and send BEGIN; or fail), because
nothing makes them atomic; then one statement, COMMIT or ROLLBACK. A Get whose transaction has met
another one may take the result of that one's statement (`Selected`), so that `disturbed`, which
says so, is part of the model; `failed` and `known` only observe.

`RatingService` — the abstract promise of that process to its callers: a table that only grows, a
set `open` of rows that are written and not durable yet, and calls that are asked, begun, done and
answered. A call that is served alone is exact: a Put writes its row once, into rows that nobody may
lose before its answer, and a Get reads the table at one moment. Calls that are served together, or
that fail, are `spoilt`: they may read open rows or those of another call, and lose what they wrote,
but they too write once at most. A call is refused only if another one has begun or the database is
cut off; the process ends only by an event that is refused or a Get that found nothing.
`RatingServer` implements it (property `RatingServiceSpec`): `open` is the block of the session, a
call is asked up to the registration of its transaction and begun up to its statement, and it is
spoilt when it is disturbed or failed.

`Discovery` — runners, the Consul agent, and a client. `StartAndRegister`, `Serve`,
`ReportHealthyState`, `ReportFails` and `Crash` are the runner; `ReadServices`, `ReadChecks` and
`ReadFails` are the two requests of `ServiceAddress`, with `AnswerFor` its range pipeline; `Tick`
and `AgentForgets` are the agent. No runner calls `Deregister`, so there is no such action.
`Register` gives the agent the port alone (consul.cpp:60-65), and the host is the agent's own: the
module has an entry lead to its instance, which is so as long as the instances run on that host with
a port each. `users`, `recent` and `healthy` only observe.

`ServiceRegistry` — the abstract promise of service discovery: a list of instances that changes
one action at a time, and lookups that see it at one moment, throw, fail, or say that there is no
instance. `Discovery` implements it (property `RegistrySpec`): the list is what the passing
checks stand for, and a lookup sees it as it is at the second of its two reads. The exception are
instances whose ids have coincided, of which nothing is promised. `MovieDetails` is built on it:
its lookups are `Registry!Answers`, its list changes by the actions of `ServiceRegistry`.

`MovieDetails` — the movie service's handlers between the two other services. `FindMetadata`,
`FindNoMetadata`, `FindRating`, `FindNoRating` and `LookupThrows` are `ServiceConnection` with its
three outcomes; `BeginTransaction`, `BeginRefused`, `BeginFails`, `SendSelect`, `SelectMetadata`,
`SelectNothing` and `SelectFails` are `GetMetadata` at an instance of the metadata service, whose
repository has one connection for all handlers. `unread` holds the results that the connection has
received: `PQexec` reads the left ones away before it sends a command, all of them unless another
thread is in the middle of its own (`Left`), and then takes a result, which need not be its own when
two transactions have met (`SelectMetadata`, `SelectNothing`). What is received is the row's movie,
not the request's. A thread whose result another one has taken fails (`SelectFails`).
`RatingAnswers`, `RatingUnstored`, `RatingNotFound` and `RatingBusy` are what `RatingService` allows
a Get to answer (a row of the table; a row that is open, for a spoilt call; none, or no database; a
refusal or a failure), and `CallBreaks` an instance that is dead or has registered without listening
yet (`Restart`, then `Listen`). Instances crash, hang, lose their database, and are listed and
unlisted by the registry as `ServiceRegistry` allows. The rows of table movies are chosen in `Init`:
docker/data.sql is empty and `PutMetadata` stores nothing, so they come from outside. `steady`,
`unlisted` and `excused` only observe.

`MemoryRegistry` — the in-memory registry under its mutex: one action per operation, the processes
that register, report and end (with `Deregister` or without a word), a second of the clock
(`Tick`), and `ServiceConnection` on top of it, with the division by zero as an action of its own.
An entry's expiration is kept as the seconds that are left. `since`, `gone` and `quiet` only
observe.

`ServiceProcess` — one process from its configuration file to the end of its server. The startup
is a chain of steps, each of which reads sections of the file and ends the process when one is not
there; `owner` tells a runner, which never stops, from a test, which starts the service in a
thread, stops it at any time and destroys it. `start`, the shutdown thread, the handlers, `stop`
and the ingest thread then run side by side: `request_stop`, `joinable` and `join` are three looks
at a `thread_` that `start` may assign in between. The three services have this code in
common; the map names the lines of one of them for each definition. `early` only observes.

`HttpDetails` — the HTTP side: a request of the movie service through both gateways, the metadata
and the rating service, and the writers of ratings (a PUT through the gateway, an event of the
ingest thread) at the memory repository. Nothing locks it, so each access has a beginning and an
end, and accesses that overlap set `torn`: from then on, until the process ends, reads may give
anything and Puts be lost. `reading` are the copies under way, of requests that may have given up.
Rating's keys are there as far as they differ: doIngestion leaves the record type empty. The
gateways put an id into a query as it is and the services decode it (`Decoded`), after the movie
service has decoded it once already; an event's id is not decoded (`Rated`). Ids that set another
parameter, as "x&type=y", are left out. The classes are created by no application and are modelled
as their constructors let them be used, with either registry. `settled`, `acked`, `calm`, `floor`
and `missed` only observe.

`FiniteDescent` — one formula of temporal logic, `ComesToRest`, which the proofs of liveness take
as a hypothesis (section 5).

`MC*` modules hold the values of constants; `*Proofs` modules the theorems. A definition named
`X_Something` in front of `X` is a mutant of `X`: a plausible bug, which the property named in
`PROJECT.json` must reject. No specification uses one.

## 3. Runs

| run | question | result |
|---|---|---|
| `event_batch` | do the loops compute `ParsedEvents`? | holds |
| `ingestion_group` | are ratings stored once, commits in order, losses explained, with `NewIngester`'s settings? | holds |
| `ingestion_delivery` | does ingestion implement `EventDelivery`, with the production constructor's settings? | holds |
| `ingestion_liveness` | does a stop end the thread, does a lasting owner drain its partition? | holds |
| `server_calls` | is the connection always released, do undisturbed calls do what they say, is `RatingService` implemented? | holds |
| `server_answers` | does every call end? | holds |
| `server_average` | is the average over all ratings of the movie? (rating_service.cpp:44) | violated: two users |
| `discovery` | fresh addresses, healthy instances found, reports in time, throws explained, dead services expire, `ServiceRegistry` implemented? | holds |
| `movie_details` | are details of the movie asked for, undisturbed requests answered, and only held up by a hung instance? | holds |
| `memory_registry` | who is listed, for how long after its end, and when does the modulus become zero? | holds |
| `service_process` | does a service start only as configured, and end as a whole? | holds |
| `http_details` | are HTTP requests answered, from what was stored? | holds |

The type invariants are theorems (section 5) and are not checked again by the runs, except for
those that are part of an invariant; `ingestion_delivery` checks the refinement alone.

Bounds, all named constants, and why they are enough:

* `MaxItems = 3` items of a message: the smallest in which an item before and one after the
  malformed or the duplicate one exist.
* `MaxLog` 2 messages of a partition (1 where two partitions are there): an instance can hold one
  message while another, or itself after a restart, reads the next. Two instances: the owner and
  the evicted one. The proofs remove these bounds.
* `MaxRows` rows in all transactions, 2 handlers and the ingest thread: two threads race into the
  constructor while the third closes their block. One key more than needed for one row, so that
  a read of the wrong key shows.
* `TTL = 3`, `Period = 2` stand for 5 and 3 seconds: the smallest pair in which one report can be
  late without being too late. `MaxSecond` bounds the seconds in which instances start; time goes
  on after it, and the counters `since` and `age` stop at `TTL`.
* `MovieDetails`: two handlers, two movies, one instance of each service: two requests meet at one
  connection, which is what handlers can do to each other, and the row that one takes may be the
  other movie's, or none. One rating value, 5, so that the 0 of a missing rating service shows. The
  rating instance is in `Shared`: its id was another one's too, and lookups may miss it or find it
  when it is down. The proofs remove these bounds.
* `MemoryRegistry`: two processes of one service and one of another, which erases their entries;
  `TTL = 3` is more than two reports apart; `MaxQuiet = 2` seconds past the expiration, at which the
  clocks stop. The proofs remove all of these.
* `ServiceProcess`: `MaxCalls = 2` handlers, so that one can go on while another ends; every
  service, owner, file and set of missing sections is an initial state.
* `HttpDetails`: two requests, of which one comes after the other's answer; a Put and an event
  about one movie, the two keys that can meet. Two ids, "m%", which the catalog has and no service
  can decode, and "m%25", which the services read as "m%": one that the metadata service does not
  find although it is there, one that it finds under another name. Proved for any number.

Deadlock is checked wherever the system goes on for ever; the loops of `EventBatch` and the
processes of `ServiceProcess` end. Symmetry is used for safety only.

## 4. Fairness

* `RatingIngestion`: weak fairness of the thread's steps, because the ingest thread is scheduled;
  strong fairness of `PollMessage` for each instance and partition, because `poll` blocks for a
  second and the consumer's fetch queue hands out an available message sooner or later even though
  empty polls come between. None for the broker's rebalances, producers, faults or stop requests.
* `RatingServer`: weak fairness of each thread's next step. libpqxx waits for the answer of the
  database; that it comes, or the connection breaks, is assumed.
* `Discovery`: weak fairness of `Tick` and of each loop's report (it succeeds or throws). `Tick`
  does not pass the moment a report is due, `Period` after the last one: three seconds of sleep
  and a request that returns within the rest of the TTL.
* `MovieDetails`: none in the run. That requests end is the invariant `OnlyHungHoldsUp` (some
  step of the request is enabled, or its instance hangs) and the order of the steps, which never
  goes back; the theorem `RequestsEndUnlessHung` draws the conclusion, with weak fairness of each
  request's next step, and `RequestsCanGoOn` proves the invariant with the guards written out.
  No fairness makes a hung instance resume: the calls have no deadline.
* `MemoryRegistry`: weak fairness of `Tick`, time goes on. Nobody has to report.
* `ServiceProcess`: weak fairness of the steps of `start`, of the shutdown thread, of `stop` and
  of the ingest thread's end, which are threads of the process; and of `CallReturns`: that a call
  in a handler ends is an assumption, which a hung service behind it can break (see
  `OnlyHungHoldsUp`), because `Shutdown` is called without a deadline. None for the startup, which
  may wait for the database, nor for calls or a stop to come.
* `HttpDetails`: weak fairness of each request's next step. cpprest's client has a timeout, so a
  call returns, breaks or times out. That a handler gets a thread to run on is assumed too:
  cpprest's listener and client share a pool, and handlers that all block in `get()` leave no thread
  for the answers that they wait for. `RequestsEnd` speaks of fewer requests at a time than that.
  None for writers, crashes, restarts and the registry.

## 5. Proofs

For all values of the constants that satisfy the modules' assumptions:

* `EventBatchProofs!BatchTyped`, `PollCorrect`: `Spec => []TypeOK` and `Spec =>
  []PollYieldsParsedEvents` for messages of every length. The loop invariant says that the items
  before the index are well formed and that the set holds, for each of their keys, the first event
  (`KeysCovered`).
* `RatingIngestionProofs!IngestionInvariant`: `Spec => []IngestionInv`, and from it
  `InsertedAtMostOnce` (`Spec => []AtMostOnce`) and `CommittedInOrder` (`Spec => CommitsInOrder`),
  and `IngestionTyped`.

The argument for at-most-once. `AtMostOnce` alone is not inductive: nothing in it prevents a
thread from holding a message whose rows are there already. `IngestionInv` adds that a row's
message is committed (`RowsCommitted`), that the message being applied is committed
(`ApplyingCommitted`), that the events still to do have no row yet (`ApplyingFresh`), that no two
threads apply one message (`ApplyingApart`), that the owner's position and held message follow
the committed offset (`OwnerInStep`), and that a held message of the current owner is not
committed (`HeldIsNew`). A commit then moves `committed` past the message before the first
`Insert`, and only the owner can make it, so no other thread takes the message up. One lemma per
action; `QuietStep` covers the actions that leave rows, commits and threads alone.

* `RatingIngestionProofs!DeliversEvents` (`Spec => EventDeliverySpec`) and `LossIsOfFaults`
  (`Spec => LossNeedsFault`), with both settings of the reset and of the timer.

The argument for the refinement. To `IngestionInv` it adds that nothing is committed that is not
in the log (`CommitsInLog`), that what a thread commits or applies is what it parsed of a message
in the log (`HeldIsParsed`), and that only the timer commits ahead of its thread
(`HeldIsUncommitted`). A published rating then waits past the committed offset or in one hand, is
stored or is lost (`LostIs`), and each step is `Publish`, `Store`, or takes from one hand
(`HandLoses`) or moves one offset (`CommitLoses`), which is `Lose`, or `JoinLate` for the group's
first commit with the reset "latest". The same two lemmas bound what becomes lost, which is
`LossNeedsFault`.

* `RatingServerProofs!ConnectionIsReleased` (`Spec => []ConnectionReleased`), `CleanPutIsStored`
  (`Spec => []CleanPutStored`) and `RowsOnlyAdded` (`Spec => OnlyAcceptedRowsAdded`), for any
  number of handlers, keys and users.

The argument for the connection. `CleanPutStored` speaks of the moment after a call; to reach it
through the call, `ServerInv` adds what holds inside: an undisturbed transaction is the only one
(`Alone`), so the session's block is the one it opened (`BlockOpen`), and the row that its INSERT
made waits in that block for the COMMIT (`RowWaits`). A thread on its way to ROLLBACK is marked as
failed (`RollbackFailed`), and no thread of an ended process is at work (`EndedIsIdle`). Another
thread that enters the constructor marks every open transaction as disturbed in the same step, which
is why no other step can break a clean one. The steps are grouped by what they do to the
transaction: outside it, entering, inside, leaving, and the end of the process, with one lemma for
each group.

* `RatingServerProofs!CleanGetIsCurrent` (`Spec => []CleanGetCurrent`) and `ServerTyped`.

What a clean Get answers is a second invariant, `GetInv`, relative to `ServerInv`: rows that are
not committed have a thread between its INSERT and its COMMIT or ROLLBACK (`RowsHaveOwner`), so a
SELECT in a transaction that is alone sees the table only; and what it found, and the keys that
were known as the call came in, stay in the table, which only grows (`ReadsCurrent`).

* `MovieDetailsProofs!DetailsBelongTogether` (`Spec => DetailsAreOfTheMovie`) and
  `UndisturbedAreAnswered` (`Spec => UndisturbedIsAnswered`), two properties of steps, for any
  number of requests, movies and instances. `DetailsTyped` is the type invariant.

The argument for the details. That what `h` received is of the movie it asked for is false for
transactions that have met, so the invariant (`DetailsInv`) says who has met: two transactions on
one connection both know it (`OverlapsAreNoted`). A transaction that has met none therefore finds
only its own result there (`AloneReadsItsOwn`), because its BEGIN read away what others had left.
Every result, whosoever takes it, is a row of the table or tells that its sender's movie has none
(`UnreadIsStored`), and what is received before the rating is looked up is a row of the table, that
of the request unless its transaction met another one (`ReceivedIsOfTheMovie`). A service that has
no listed instance at a moment of the request has been noticed (`UnlistedIsNoticed`), which is what
allows the rating 0. For `UndisturbedIsAnswered`, an instance without a fault since it was found is
connected (`SteadyIsUp`), so that each answer other than OK has a reason that `Undisturbed` rules
out.

* `MemoryRegistryProofs`: `PunctualStaysListed`, `StaleEntriesAreYoung`, `LateStaysUnlisted`,
  `RegistryTyped` and `ZeroNeedsAbsence` (a property of steps), for any number of processes and
  services and any TTL. The parts are inductive only together: the seconds left of an entry and
  those since the reports began add up to the TTL, as long as the reports are in time.

* `ServiceProcessProofs`: `ProcessTyped`, `RegistersConfigured`, `FileIsToBlame`,
  `StartOutlivesHandlers` and `ThreadsEndFirst`, for any number of calls. The invariant says what
  a runner has found in its file at each step (`StartupFound`), that `start` and the server move in
  step (`StartInStep`), that a server is shut down only by a stop that reached `thread_`
  (`StopInStep`), and who is gone when the owner lets go of the service (`DestroyInOrder`).

* `HttpDetailsProofs`: `HttpTyped`, `AnsweredIsKnown`, `AbsenceIsExcused`, `AckedStaysStored` and
  `AnswersGrow`, for any number of requests, Puts, events and movies, and any way to decode an id.
  A request past the metadata service has an id that is read as a movie of the catalog
  (`PastMetadata`), a request under way has noticed a missing rating service (`UnlistedIsNoticed`),
  and no writer has an id that could not be read (`RatedIsAMovie`). For the repository: a torn one
  claims nothing (`TornIsDisturbed`); what was averaged once would be averaged again
  (`SettledIsCopied`), because Put at the end of a vector takes nothing away from its copy
  (`CopyGrows`); with a Put in a vector one is in the copy (`PutIsCopied`); and what a request found
  as it began is still there (`FloorIsKept`).

* `DiscoveryProofs`: `DiscoveryTyped`, `ReportsKeepPassing`, `AddressesAreFresh`, `HealthyAreFound`
  and `ThrowsAreRaces`, for any number of instances and any reporting period shorter than the TTL,
  whatever the agent forgets. A check is renewed at least as late as the last report of each
  instance behind it (`BeatInStep`) and, with an id of its own, not later (`PassingIsRecent`); what
  a client has read was registered by an instance (`ReadIsUsed`), what it has missed came after
  the read (`UnreadIsRecent`), and what stayed healthy is still behind its id (`HealthyIsKnown`).

The refinement of `RatingService`:

* `RatingServerProofs!ServerImplements` (`Spec => RatingServiceSpec`), relative to `ServerInv`,
  `GetInv` and one more part, that a process which has ended has no connection (`EndedIsCutOff`).
  Each action of the server is one action of the service or, for `CheckFree`, none of its steps.
  Four facts carry the proof. A registered transaction means that somebody is in a transaction
  (`ConnectionReleased`), so that no refusal is without a reason (`RefusedImplements`). A COMMIT
  outside an open block, or a ROLLBACK, takes rows away only from calls that were not alone or have
  failed (`BlockOpen`, `Alone`: `NoneReliesOn`, `CommitSettles`). An INSERT outside a block is that
  of a disturbed call (`InsertImplements`). And a SELECT of an undisturbed call finds no row in the
  block (`RowsHaveOwner`: `SelectImplements`), which makes its Get atomic.

The refinement of `ServiceRegistry`:

* `DiscoveryProofs!DiscoveryImplements` (`Spec => RegistrySpec`). The invariant gains one part: the
  instances that registered under an id are those of the id's name (`UsersOfName`). A registration
  may take another instance's id; then both are shared from that step on. A report lists the
  instance that its id stands for, which runs or is shared. The second read is the one that
  counts: what passes then and was registered at the first read is found, what came in between
  makes the lookup throw, and what went is not among the checks.

### Liveness

Every liveness property of a run is a theorem for all values of the constants:

| theorem | property | fairness it takes |
|---|---|---|
| `RatingServerProofs!CallsEnd` | `CallsAnswered` | each thread's next step |
| `RatingIngestionProofs!StopEndsIngestion` | `StopReturns` | the ingest thread's steps |
| `RatingIngestionProofs!OwnersDrain` | `OwnerDrains` | the same, and strong fairness of `PollMessage` |
| `DiscoveryProofs!DownServicesExpire` | `DownExpires` | `Tick`, and each loop's report |
| `MemoryRegistryProofs!DeadAreUnlisted` | `DeadIsUnlisted` | `Tick` |
| `ServiceProcessProofs!NoServerEndsProcess` | `NoServerNoProcess` | `start` |
| `ServiceProcessProofs!StopEnds` | `StopEndsService` | `start`, shutdown thread, `stop`, `CallReturns` |
| `HttpDetailsProofs!AllRequestsEnd` | `RequestsEnd` | each request's next step |
| `MovieDetailsProofs!RequestsEndUnlessHung` | `RequestsEnd` of that module | each request's next step |

The hypotheses, apart from `Spec`:

* *Fairness.* tlapm reads neither `WF_`, `SF_` nor `ENABLED`, so that a theorem states fairness
  with the enabling condition written out: `[]<>~Can \/ []<><<A>>_vars` is weak fairness of `A` if
  `Can` is `ENABLED <<A>>_vars`, and `<>[]~Can \/ []<><<A>>_vars` strong fairness. Each condition
  was compared with `ENABLED` by TLC in every reachable state of the instances of section 3; that
  the two are equal in general is not proved. The names are `Scheduled`, `FairThreads`,
  `TimePasses`, `LoopsRun`, `StartScheduled`, `ShutdownScheduled`, `StopScheduled`, `CallsReturn`.
* *Descent.* Loops whose length is not fixed end because a finite set shrinks: the events of a
  batch and the messages ahead of a position (`RatingIngestion`), the seconds that an entry has
  left (`MemoryRegistry`), the late instances and the seconds of a check (`Discovery`), the calls
  under way (`ServiceProcess`). `ComesToRest(S, v)` of module `FiniteDescent` says that a finite
  set which gains no element any more does at some time stay the same. That is so in every behavior
  of any system, but its proof is an induction over a temporal formula, for which the prover has no
  rule; it is a hypothesis for that reason and excludes no behavior.
* `DownServicesExpire` assumes that the instances are finitely many (`IsFiniteSet(Instances)`).
  Its `[]LoopsRun` is `LoopsRun`, as fairness holds at every moment when it holds at the first; the
  box lets the prover use it from a later moment on.

The arguments. In `RatingServer`, `HttpDetails` and `MovieDetails` a call has finitely many stages
and each step takes it to a later one. `StopEndsIngestion` needs that a batch is finite
(`BatchesFinite`): the thread looks at the stop token at its end. `OwnersDrain` needs also that only
a process that runs owns partitions (`OwnersRun`) and that its position is within the log
(`PositionsInLog`; the three are `RunInv`). A log holds `MaxLog` messages at most, whatever `MaxLog`
is, so that from some time on the messages ahead of the owner only become fewer.
`DownServicesExpire` first shows that the clock passes each second although it waits for late
reports, because each loop reports or throws; the seconds of a check which nobody renews then run
out. `DeadAreUnlisted` does the same with the seconds of an entry, and the next report of any
process erases it. `StopEnds` goes through the stages of a shutdown: the server drains, the calls
under way become fewer, the thread ends, `stop` and `Wait` return. The invariant of `ServiceProcess`
says why none of these waits for another that waits for it: a stop that was requested has reached a
`thread_` (`StopInStep`) that runs until the server is down (`StartInStep`).

`OnlyHungHoldsUp` of `MovieDetails` speaks of `ENABLED` and is model-checked in that form. It is
what makes the fairness of `RequestsEndUnlessHung` that of the scheduler: a request that is not held
up by a hung instance has a step that it can take. `MovieDetailsProofs!RequestsCanGoOn` proves it
for any number of requests and instances with `CanHandle`, the guards of the steps of `Handle`, in
the place of `ENABLED`. The invariant behind it is that a request which calls has an instance to
call (`CallsAnInstance`); `HandleNeedsGuard` proves that no step is taken where the guards do not
hold, and TLC compared `CanHandle` with `ENABLED <<Handle(h)>>_vars` in every state of
`movie_details`. `RequestsEndUnlessHung` takes the fairness with `CanHandle`, and `RequestsCanGoOn`
to conclude.

## 6. Findings

* `GetAggregatedRating` averages one row (`server_average`): the rows of a key go into a set whose
  equality ignores user and value, while rating_service.cpp:44 speaks of the average of the ratings.

Met while modelling, and part of the models:

* An event whose record occurs twice in a message is dropped, though ingester.h:37 says that the
  data is inserted (`ParsedEvents` is what holds).
* One failed report ends the health check for the life of the process, which goes on serving;
  registry.h:31 speaks of a call at every interval (`ReportFails` of `Discovery`).
* Of two requests at a time for a known movie one can be answered NOT_FOUND: the second
  transaction on the metadata repository's connection is refused (`BeginRefused` of `MovieDetails`).
* The other one's result may be taken instead of one's own: the details answered are then another
  movie's, or NOT_FOUND for a movie that has them (`Left` and `SelectMetadata` of `MovieDetails`).
* An id is decoded twice on its way to the metadata service: GET `id=m%2531` asks for the movie
  "m%31" (movie_service.cpp:16), is sent as such by the gateway (metadata/http/metadata.cpp:36-38),
  looked up as "m1" (metadata_service.cpp:21) and answered OK with its details. A movie whose id
  holds a "%" cannot be asked for by that id (`Decoded` of `HttpDetails`).
* `PutRating` answers OK when the INSERT failed (`Rollback` of `RatingServer`).
* A Get that has slipped into the transaction of a Put can answer a rating which is then stored
  nowhere: another thread's statement aborts the block, and the COMMIT of the Get rolls it back
  without an error (`Read` and `Settle` of `RatingService`, `RatingUnstored` of `MovieDetails`).
* Instances that start in one second share an id (`GenerateServiceID`).
* A missing rating service gives the rating 0, a movie without ratings NOT_FOUND.
* A stop before `thread_` is assigned does nothing, and the test's join then waits for ever
  (`early` of `ServiceProcess`); a process whose port is taken registers first and then calls
  `Wait` through a null pointer (`WaitOnNull`).
* The memory registry hands out entries that have expired, registry.h:37 speaks of available
  services; an instance that reports too late is never listed again; an empty list makes
  `rand() % addrs.size()` a division by zero (`MemoryRegistry`).
* `handle_get` of the movie's HTTP service reads details that are absent when the memory registry
  has no rating service (`Absent` of `HttpDetails`), and replies without the details.
* `Rating::FromJSON` reads the value from `userId`; nothing calls it.

## 7. Not modelled

Memory-level races of libpq inside a shared connection are represented by their effects on the
session (`disturbed` calls may fail or meet a foreign block), not by the corruption of its buffers.
Races of the memory repository are represented by `torn`, after which nothing is claimed. That a
thread whose result another one has taken may wait for it for ever, instead of failing, is not
modelled; `OnlyHungHoldsUp` and `CallsAnswered` leave it out. A BEGIN or COMMIT that fails on the client's
side, while the connection stays up, is not modelled: `BeginFails`, `CommitFails` and `Rollback`
fail by what the database says. Nor is cpprest's thread pool, nor are ids of a query that set
another of its parameters, or the hosts of instances in Consul. Requests that are rejected for empty
fields or missing parameters, other than the id of an HTTP request, never reach the state and are
left out, as are opening and closing an HTTP listener. `PutMetadata` does nothing, `Put` of the
metadata repositories and `PutRating` of the gRPC gateway are called by tests or by nothing. Types
and contents of configuration values, log levels, Hypodermic, the generated protocol code and the
type aliases of `common/expected.h` have no state that changes.

## 8. What could follow

The abstract promises are used one way: `MovieDetails` is built on `ServiceRegistry` by `INSTANCE`
and follows `RatingService` in its actions, which carry the values of one movie and not the table of
ratings. A `RatingService` without the rows, of which both are instances, would join the two.
`MemoryRegistry` needs no abstract form: its lookup is one read under the mutex, so it sees the list
at one moment by construction. `ComesToRest` and the equality of the written-out guards with
`ENABLED` are what is left to a prover with induction over temporal formulas and with `ENABLED`.
