# Rules enrichment daemon: specification, model checking, proofs

The daemon (`src/src/app`) polls a warehouse management system (WMS) for orders
that are ready for enrichment, evaluates rules on each of them, submits the
result to the WMS and records what it did: attempts, an idempotency record per
order, and integration events in a transactional outbox that a publisher sends
to a sink. The interesting behaviour lies between the steps. Each `with uow`
block is a transaction of its own, the WMS is called between two of them, a
process can die anywhere, and the OpenShift deployment overlaps two daemons
during a rolling update (`09-rules-daemon-d-dev.yaml` names no strategy), next
to which the `publish-outbox` command may run.

Paths below are relative to `src/src/app` unless they start with `src/`.

## Inventory

| Component | State | Operations | What must hold |
|---|---|---|---|
| Order processing (`application/use_cases/process_order.py`, `persist_processing_result.py`, `move_dead_letter.py`) | local variables of one `execute()` | number the attempt, evaluate, compare with the idempotency record, submit, record success or failure, dead letter | one consistent record per run; no success without an enrichment in the WMS; no repeated submission |
| Repositories and unit of work (`infrastructure/repositories`, `infrastructure/unit_of_work`) | tables `processing_attempts`, `processed_orders`, `outbox_messages`, `dead_letter_items`, `enrichment_rules` | reads, saves, commit, rollback | all or nothing per transaction; keys refuse doubles |
| Outbox publisher (`publish_outbox.py`, `outbox_publisher_worker.py`, sinks) | one session per call | list pending, send, mark, commit | at least once, oldest first, nothing marked that was not sent, every event settled |
| Polling and watermark (`enrichment_facade.py`, `polling_worker.py`) | `_updated_since`, in memory | poll, handle the batch, move the watermark | no order that awaits enrichment is skipped |
| Daemon loop (`interfaces/cli/main.py`) | none | poll, publish, sleep; no exception is caught | work goes on; a restart loses nothing |
| Rule engine (`domain/services`, `domain/specifications`) | none | validity, priority, and/or trees, merge of fields | every valid satisfied rule counts, the greatest priority wins, a broken rule stops only the orders it applies to |
| Rule cache (`refresh_rules_cache.py`) | scope -> (time, rules) | get, refresh after the TTL | bounded staleness, nothing of another scope |
| Rule store and `seed-rules` (`rule_repository_sqlalchemy.py`, `interfaces/cli/main.py`) | table `enrichment_rules` | active rules of a scope, upsert, seeding | one row per rule, baseline rules come together |
| HTTP client and retry policy (`infrastructure/http`) | loop variables of one call | up to three requests with backoff | an answer means that the enrichment was taken in; the call ends |
| Payload building (`enrichment_payload_builder.py`) | none | payload of a decision | says what was decided |
| Schema migrations (`src/migrations`) | the schema, 6000 seeded rules | create, seed | the seeded rules never raise |
| Health checks, settings, logging, wiring | none | - | - |

Interactions. `run_daemon` calls the polling worker and then the publisher, for
ever. The polling worker calls the facade, which polls the WMS, refreshes the
rules of every order's scope (rule cache, rule store) and calls order
processing. Order processing calls the rule engine and the WMS and writes the
tables; the publisher reads and updates the outbox. Daemons and publishers share
nothing but the database and the WMS.

The behaviours that are hard to test are listed as `hazards` in `PROJECT.json`,
each at the line where it bites, with the properties that watch over it.

## Modules

| Module | Models | Composed from |
|---|---|---|
| `Repositories` | rows, reads and saves of the processing tables, key conflicts, JSON encoding | - |
| `OrderProcessing` | `ProcessOrderForEnrichmentUseCase.execute` with persist and dead-letter use cases, daemons, WMS, crashes | EXTENDS `Repositories` |
| `RunLedger` | abstract: what order processing promises to readers of its tables | `OrderProcessing` implements it |
| `OutboxPublisher` | `PublishOutboxMessagesUseCase` for several publishers, sink, producers | - |
| `EventDelivery` | abstract: what the outbox promises to consumers of the events | `OutboxPublisher` implements it |
| `Polling` | `run_once` of facade and worker, the watermark, the list of the WMS | - |
| `Daemon` | `run_daemon`: polling, processing and publishing in one process, with restarts | EXTENDS `Polling` |
| `HttpRetry` | one call of the HTTP client with its retry policy, and the network | - |
| `SubmitCall` | abstract: the submit call as order processing uses it | `HttpRetry` implements it |
| `Conditions` | the condition language: specification factory, predicate, and/or | - |
| `SeedRules` | the rules of migrations 0002 and 0003 and the baseline rules of `seed-rules` | EXTENDS `RuleRepository`, `Conditions` |
| `RuleRepository` | rows of `enrichment_rules`, `list_active_rules`, `upsert_many` | - |
| `RuleEvaluation` | `RuleEvaluationService.evaluate` and the payload of a decision | EXTENDS `RuleRepository` |
| `RuleEngine` | the evaluation loop asking the condition language; what conditions mean there | EXTENDS `RuleEvaluation`, `Conditions` |
| `SeedEngine` | the rule engine on the seeded rules | EXTENDS `RuleEngine`, `SeedRules` |
| `RuleSeeding` | writers of `enrichment_rules`: overlapping `seed-rules` commands and maintainers | EXTENDS `RuleRepository` |
| `RuleCache` | `RefreshRulesCacheUseCase` in front of that table | EXTENDS `RuleSeeding` |
| `MC*` | symmetry sets, and the values of constants that are too large for a cfg | the module they are named after |
| `*Proofs` | the theorems: `OrderProcessingProofs`, `RunLedgerProofs`, `OutboxPublisherProofs`, `PollingProofs`, `DaemonProofs`, `HttpRetryProofs`, `RuleEvaluationProofs`, `RuleStoreProofs` | the module they are about |

Definitions named `X_Something` and commented as mutants are wrong variants of
the definition `X` that follows them. They are used by no specification; they
are there to test that the properties can tell them from the code.

### OrderProcessing

The variables are the WMS (`version`, `applied`, `late`), the tables
(`attempts`, `processed`, `outbox`, `deadLetters`), each daemon's memory (`pc`,
`batch`, `job`) and counters that bound the model (`runs` also hands out the
correlation ids). `job[d]` holds the local variables of `execute()`; it exists
exactly while `pc[d] # "idle"`.

| Label | Code | Actions |
|---|---|---|
| `idle` | between two orders | `Fetch`, `Start` (lines 40-43) |
| `evaluate` | 45-52 | `RaiseBeforeSubmit`, `SkipDuplicate`, `DecideNoMatch`, `DecideMatch` |
| `submit` | 66-69 | `SubmitReturns`, `SubmitRaises` |
| `stage` | persist, success: `session.get` of the idempotency row | `StageSuccess` |
| `commit_success` | persist, success: flush and commit | `CommitSuccess` |
| `persist_failure` | 84-97 | `PersistFailure` |
| `dead_letter` | 98-105 | `MoveOrderToDeadLetter` |

How a commit ends is `CommitOutcomes`: it returns; it raises and nothing is
stored; it raises although everything is stored. A key conflict, or a value
that JSON cannot encode, always rolls back. The success transaction has two
steps because `processed_orders.save` reads the row before it decides between
INSERT and UPDATE; `loaded` is what it read, and SQLAlchemy's UPDATE names only
the columns that differ from it.

A submission that raises says nothing about the WMS: the request is put into
`late` or not, and `LateArrival` may deliver it at any later time. An
enrichment in `applied` is identified by order, run and hash, so that several
deliveries of one run's request (the retry policy sends up to three) are one
element.

Rules are not part of this module: an evaluation yields any decision (which
covers rules that change between cycles), or raises. Polling is `Fetch`: the
current version of any set of orders.

`LongIds` are orders whose id is too long for the column `message_id`
(`infrastructure/db/models.py:52`): on a database that enforces lengths no
transaction that adds one of their events can be stored.

`ImplementsRunLedger` is the refinement
`INSTANCE RunLedger WITH events <- outbox, records <- processed` (the other
variables keep their names). `RunLedger` has three steps: the WMS takes in an
enrichment, a run's success is entered, a run's failure is entered. That a run's
attempt, event and record appear in one step, once, under the number that is
due, and a success only with the enrichment in the WMS, is what readers of the
tables may rely on with any number of daemons, crashes and failing commits.

### OutboxPublisher

`row` is the status column, `created` the time stamp by which messages are
listed. A call of the use case is one open transaction: `ListPending`, one
`PublishReturns` or `PublishRaises` per message (the sink is called, and the
status is staged in the session after the row has been loaded again), `Commit`.
A staged status reaches the row at the commit only, so two publishers overwrite
each other. `Abort` is a crash or an uncaught database error, before the commit
or when it is stored and raises. `Skew` says how far `created_at` may lie behind
the newest one: it is taken when the order's turn begins, not at the commit.

`ImplementsEventDelivery` is the refinement `INSTANCE EventDelivery` over `row`
and `accepted`: an event stays once committed, is taken in only after that, and
leaves PENDING for good; sessions, batches and clocks are gone.

### Polling

One daemon. `since` is `_updated_since`; a cycle reads the clock (`BeginCycle`),
polls (`PollReturns`), handles the orders one by one (`HandleOrder`, where each
one succeeds or fails and may leave the list of the WMS), and returns
(`EndCycle`). `PollRaises` is an answer with an order that `_to_order` cannot
make an `ExternalOrder` of (`Unparsable`): nobody catches the exception, and the
process restarts. `Crash` is any other end; both forget the watermark. `Pages`
is the answer of the WMS, modelled from how the code uses it: at most `limit`
candidates, and all of them when they fit; whether it lists the oldest first is
the constant `SortedByAge`. That `updated_since` includes that very time
(`Candidates`) is an assumption about the WMS: the client only passes the value
on, and two orders of one time would be lost to a WMS that excludes it.

### Daemon

`run_daemon` as one process: `turn` says whether the loop is at the polling
worker or at the publisher. The variables of `Polling` are joined by the tables,
reduced to what the composition is about (largest attempt number, idempotency
record, queue of pending events), what the rules make of each order now
(`decision`: whether any matches, and the enriched fields), and what the WMS has
taken in of each order's present version (`applied` counts, `taken` has the
fields). The hash is the pair of the snapshot's `updated_at` and the decision's
fields (`Compute`), and `processed_orders` holds such a pair.

`Poll` and `EndPolling` are the cycle of `Polling`. `Process` handles one order
of the batch in one step (`Run`), since the daemon is alone with its database
and the interleavings inside `execute()` are `OrderProcessing`'s:

| Action | Code (`process_order.py`) |
|---|---|
| `RaiseEvaluation` | 45: a rule of an `Unevaluable` order raises, at times |
| `SkipDuplicate` | 51-52: the hash is on record |
| `SucceedWithoutMatch` | 54-64: nothing is sent; attempt, event and hash are stored |
| `Succeed` | 66-83 |
| `Fail`, `FailRefused` | 84-106: the failure is stored; the WMS refuses each enrichment of a `Refused` order |
| `FailUnrecorded` | 42, 48, 55, 85: a transaction raises, and nothing of the run is stored |

`ChangeDecision` is all that makes the rules come to something else for the same
version: an edit, the end of a rule's validity, the end of the cache's TTL,
another order of rules of equal priority. An update of the WMS (`Update`) makes
a new version with a decision of its own (`NewVersion`); one that comes with the
`updated_at` of the one before is not told from it by the daemon, and changes
the decision, if at all, by a `ChangeDecision`. `Publish` settles up to a batch
of pending events; `CrashAnywhere` ends the process, possibly between the answer
of the WMS and the commit. Requests that arrive late are `OrderProcessing`'s.

### HttpRetry

Requests are named by their attempt number. `Send` puts one on the `wire`,
`Arrive` loses it or has the WMS take it in, at any time, also after the call
has given up on it. A call ends by `Succeed`, `Refuse` (3xx and 4xx are not
tried again) or `BrokenAnswer`; `ServerError` and `NoAnswer` go through
`RetryOrRaise`, which sleeps and counts. `ImplementsSubmitCall` is the
refinement `INSTANCE SubmitCall WITH Requests <- 1 .. MaxAttempts,
outcome <- Outcome, sent <- Sent, loose <- wire, taken <- taken`. What
`OrderProcessing` does with a submission (`SubmitReturns`, `SubmitRaises`,
`LateArrival`) is `SubmitCall` with the requests of a run seen as one.

### Conditions, SeedRules

Python values are records with a kind, texts are sequences of words, an
attribute that is missing is `None`. `ConditionOutcome` is `Builds` (the factory)
before `IsSatisfied` (the specification), because an ill-formed part raises when
the tree is built, wherever it stands, whereas a comparison that raises does so
only when it is reached. Lists are compared item by item, as Python does: they raise
only when the items that decide cannot be compared. `in` looks for an item of a
list, a part of a text or a key of a dictionary. What a regex finds, and whether
it has an error in it, are constants (`Found`, `Compiles`), as Python's `re` is
no part of this code. Lists contain no lists. Both recurse over the tree. `Trees` is any set of conditions that has
the parts of its members, `Height` any measure by which a part is lower than its
whole (JSON has no other conditions), and `Builds` and `IsSatisfied` are
functions on `Trees`. `SeedRules` computes the 3200 bulk and 2800 long-tail rules from
their numbers as the migrations do.

### RuleEvaluation, RuleEngine, SeedEngine

Call after call of `evaluate`: `Begin` filters the list by validity, then the
rules are tried in the order of a stable sort by priority (`TurnMatches`,
`TurnFails`, `TurnRaises`), and `Decide` ends the loop and builds the payload.
The outcome of a rule's conditions is a constant, so that the theorems about the
loop hold for any condition language; `RuleEngine` assumes that it is that of
`Conditions`, and says what a decision means for the predicates the rules are
built from. `SeedEngine` says what the seeded rules decide and when they raise.

### RuleSeeding, RuleCache

A run of `seed-rules` is two transactions: `CountActive`, and `Load` and
`Commit` (split, as `session.get` decides between INSERT and UPDATE before the
flush); a commit that raises may have been stored (`CommitRaises`). Maintainers write rows at any time (`Edit`). The cache answers from its
entry (`Hit`) or the table (`Refresh`); the engine's own test of validity is
applied to what it returns. The daemon's clock may be set back. `tables` keeps
the tables there were at each time, for `BoundedStaleness` to speak of.

## Runs

| Run | Instance | Shows |
|---|---|---|
| `OrderProcessing_overlap` | 2 daemons, 1 order, 2 versions, 3 fetched snapshots, 1 crash, 1 database fault | `TypeOK`, `RunRecordedOnce`, `NoAttemptGaps`, `NumbersShared`, `SuccessWasApplied`, `IdempotencyRecordBacked`, `AppliedIsAccounted`, `ImplementsRunLedger` |
| `OrderProcessing_single` | 1 daemon, 2 orders, one with a long id, 2 versions, 4 fetched snapshots, 1 crash, 1 fault | `NoRepeatSubmission`, `ProcessedNeverRegresses` |
| `OrderProcessing_dead_letter` | 1 daemon, 1 order, no crash, no fault | violated: `DeadLetterAfterMaxAttempts` |
| `OutboxPublisher_overlap` | 2 publishers, 3 messages, batches of 2, 1 abort, 1 sink fault | `TypeOK`, `PublishedWasAccepted`, `BoundedRedelivery`, `OldestFirst`, `ImplementsEventDelivery` |
| `OutboxPublisher_single` | 1 publisher, clock skew, fairness | `SettledIsFinal`, `EveryMessageSettles` |
| `OutboxPublisher_unpublished` | 1 publisher, 1 message, 1 sink fault, fairness | violated: `EveryMessageIsPublished` |
| `Polling_small_batch` | 3 orders, one unparsable, batches of 1, daemon's clock ahead, 3 updates, 1 crash | `TypeOK`, `OnlyBacklogIsLost` |
| `Polling_backlog` | 2 waiting orders, batches of 1, fairness | violated: `ReadyOrdersAreFetched` |
| `Daemon_loop` | 2 orders that fit into a batch, one with rules that come and go, the other refused and at times not evaluable, 1 event per publishing cycle, 1 update, 2 mishaps (crashes, failed runs, changed decisions), fairness | `DaemonTypeOK`, `NothingIsLost`, `EnrichedOnce`, `RecordIsOfPresentVersion`, `ReadyOrdersAreProcessed`, `EventsAreSettled` |
| `HttpRetry` | 1 call, 5 attempts, pauses of at most 4 units, fairness | `TypeOK`, `ImplementsSubmitCall`, `CallEnds` |
| `RuleEvaluation` | 9 orders: one rule with any predicate over their attributes, or a tree of up to 3 levels; lists of up to 3 of 6 rules at 3 times; 4 orders with the seeded rules listed for clients 1, 4 and 12 | `MatchedInOrder`, `GreatestPriorityWins`, `BadRuleStopsOrder`, `IllFormedRaises`, `MeansItsClauses`, `OppositesDisagree`, `SeededRulesNeverRaise`, `LongTailDecides` |
| `RuleCache` | orders of a zone and of none, 2 runs of `seed-rules`, one forced, 1 edit, TTL 1, clock set back once | `BoundedStaleness`, `OneRowPerRule`, `SeedingIsAtomic` |

Bounds. `MaxVersion`, `MaxFetched`, `MaxCrashes`, `MaxFaults`, `MaxClock`,
`MaxAborts`, `MaxSinkFaults`, `MaxTime`, `MaxUpdates`, `MaxMishaps`, `MaxEdits`
and `MaxSetBack` only limit how often the environment acts: updates, fetched
snapshots, crashes, commits, submissions and sink calls that raise for no reason
of the code's own, changed decisions, ticks and corrections of a clock, edits of
the rules.

- Three snapshots let an order fail, reach the attempt limit of 2, succeed, be
  skipped and be updated, and let both daemons have one under way while a third
  comes later. One crash and one fault are enough for each place a process can
  be cut off; the theorems below need no bound on any of them.
- Two publishers with batches of two over three messages make batches overlap in
  part, and a batch leave a message behind.
- In `Daemon_loop` the update may come before, in the middle of or after the
  cycle that processes the order. The two mishaps, of any two kinds, let the
  rules drop an order and match it again, a submission fail before or after
  they do, and the process end in between; `DaemonProofs` needs no bound.
  Attempt numbers of `AttemptCap` and more are merged, so that an order which is
  refused for ever has a finite model; `EventsAreSettled` speaks of the events
  with numbers below it, each of which is one event: with the cap of 2 that is
  the first event of each order, while later ones go on coming. One order is
  refused and one event is published per cycle, so the queue of pending events
  stays finite without a bound.
- `MaxAttempts` is 3 in `bootstrap.py`; the run takes 5 so that the pause
  reaches its limit and stays there. The code never gets that far: its limit is
  2 s, 8 units of 0.25 s, and its two pauses are at most 2 and 3 units.
- In `RuleEvaluation`, the leaves of trees are true, false, raising or
  ill-formed, each in each place of a pair, and pairs stand beside another leaf.
  The six rules have two of equal priority whose validity
  intervals touch, one that raises and is valid on one day only, rules that come
  before and after it, and an inactive ill-formed one.
- `RuleCache`: with a TTL of 1 and two ticks an entry is used fresh, at its last
  moment and too late.

What one daemon guarantees and two do not: with two, an attempt number can be
given twice (by each daemon once at most, `NumbersShared`), an enrichment can be
submitted again after the other daemon has recorded it, the idempotency record
can go back to an older version, and two publishers can turn PUBLISHED into
FAILED and back. Except for the numbers, these properties are checked with a
single process for that reason.

Deadlock is checked wherever the system does not come to rest: a daemon can
always poll, the engine can always be called, a cache can always be used. The
publisher runs say `CHECK_DEADLOCK FALSE`, because a call of the use case that
lists nothing changes nothing, so the model has no step left when every message
is settled; and so does `HttpRetry`, because a call ends.

Fairness. `run_daemon` calls `poll_worker.run_once()` and
`outbox_worker.run_once()` in an endless loop (`interfaces/cli/main.py:24-27`)
and OpenShift restarts a process that ends, so a step of the process is taken
when one stays possible: weak fairness of `DaemonStep` (`Polling`), of the
publisher's steps, of `LoopStep` (`Daemon`) and of `ClientStep` (`HttpRetry`).
The sink's and the WMS's calls end, by timeout at the latest, which is a step of
the client. Neither crashes, updates, clocks, the network nor the outcome of a
call are assumed to be fair; in particular no request is assumed to succeed.

### Findings

- `OrderProcessing_dead_letter`: no dead letter can be stored. The payload is
  `asdict(order)`, and its datetimes cannot be encoded by the JSON columns
  (`process_order.py:103`). The order fails with the failure recorded and no
  row of `dead_letter_items`. For the same reason `TypeOK` says
  `deadLetters = {}`.
- `OutboxPublisher_unpublished`: a message whose sink call raised once is FAILED,
  and FAILED messages are never listed again (`publish_outbox.py:21`), whereas
  `src/README.md:18` speaks of reliable publishing.
- `Polling_backlog`: the first cycle's watermark starts from the time of the poll
  (`enrichment_facade.py:84`), so waiting orders that did not fit into the first
  batch are not asked for again until the process restarts or they are updated.
  `OnlyBacklogIsLost` shows that this is the only way to lose one. The default
  of `poll_batch_size` is 25.

### Limits

What the code does, is part of the models, and a reader of the documentation may
not expect:

1. An order id of 77 characters or more makes a `message_id` of over 120
   (`models.py:52`, whereas `order_id` may have 80). Where the database enforces
   lengths nothing of such an order's runs can be stored, and it is enriched
   again each time it is fetched.
2. An evaluation that raises stands outside the `try` of `execute()`
   (`process_order.py:45`): the order leaves no attempt, no event and no record,
   and never comes near the attempt limit.
3. One order that cannot be parsed makes the whole poll raise
   (`manhattan_simulator_client.py:44`). The process restarts and asks for the
   same page, so the other orders on it are not fetched either.
4. An order that fails and is older than the watermark is not tried again
   (`enrichment_facade.py:156`) before it is updated or the process restarts.
5. `MAX_PROCESSING_ATTEMPTS` does not limit attempts; it only decides about the
   dead letter (`process_order.py:98`). If the WMS includes `updated_since` itself,
   the newest order is submitted again with every cycle while the WMS refuses it.
6. Among rules of equal priority the order of the database's rows decides
   (`rule_repository_sqlalchemy.py:33` sorts by priority alone), while
   `src/README.md:14` calls the engine deterministic. The seeded rules
   BULK-RULE-00001 and BULK-RULE-01501 are such a pair.
7. `seed-rules` without `--force` counts the active rules only (`main.py:41`, `:49`), so
   it overwrites, and activates again, baseline rules that were deactivated when
   no other rule is active. As the migrations seed active rules, it does nothing
   after `alembic upgrade head`.
8. The hash is over the version and the enriched fields, not over what was sent
   (`process_order.py:46`). When the rules come to other fields, an order that is
   polled again is submitted again in the same version; when they match it no
   more, it is put on record as done (`process_order.py:54`) and the WMS keeps
   the enrichment it had.
9. A request that arrives after the client has given up on it is applied although
   its run is recorded as failed, possibly after a newer enrichment; nothing
   corrects it.
10. Orders without a zone (a facility, a client) get the rules of all zones (of
   all facilities, of all clients): the filter is left out
   (`rule_repository_sqlalchemy.py`).

## Theorems

All of them hold for any number of daemons, orders, publishers, messages,
requests, rules and seeders, for conditions of any depth, and for all values of the bounds. They
rest on the named ASSUMEs of the modules and on the hypotheses the table names.

- `ConstantsAssumption`, `PublisherAssumption`, `PollingAssumption`,
  `DaemonAssumption`, `RetryAssumption`, `EvaluationAssumption`,
  `SeedingAssumption`, `CacheAssumption`: sets are finite where they are, bounds
  are natural, null values are no values, and the table and the baseline have
  one row per rule to begin with.
- `WordsAssumption`, `TreesAssumption`: the alphabet orders any two words, a leaf
  is a field, an operator and a value, and parts are lower than their whole.
- `EngineAssumption`: the outcome of a rule is that of its conditions, and what
  the four orderings compare are whole numbers, texts of words in the alphabet or
  lists of such, if numbers, texts or lists at all. (Numbers of the model are integers; an
  ordering of the code is one of floats, without NaN, which JSON does not have.)
- `SeedAssumption`: what a long-tail rule says is not the model's value for
  saying nothing.

| Module | Theorem | Statement |
|---|---|---|
| `OrderProcessingProofs` | `TypeCorrect` | `Spec => []TypeOK` |
| | `RunsRecordedOnce` | `Spec => []RunRecordedOnce` |
| | `SuccessesWereApplied` | `Spec => []SuccessWasApplied` |
| | `RecordsAreBacked` | `Spec => []IdempotencyRecordBacked` |
| | `AttemptsHaveNoGaps` | `Spec => []NoAttemptGaps` |
| | `Invariance` | `Spec => []InductiveInvariant` |
| | `NumbersAreShared` | finitely many daemons: `Spec => []NumbersShared` |
| | `NumbersAreUnique` | at most one daemon: `Spec => []UniqueAttemptNumbers` |
| | `NothingIsRepeated` | at most one daemon: `Spec => NoRepeatSubmission` |
| | `RecordMovesForward` | at most one daemon: `Spec => ProcessedNeverRegresses` |
| `RunLedgerProofs` | `LedgerImplemented` | `Spec => ImplementsRunLedger` |
| | `AppliedAreAccounted` | `Spec => []AppliedIsAccounted` |
| `OutboxPublisherProofs` | `TypeCorrect` | `Spec => []TypeOK` |
| | `Backed` | `Spec => []SessionsBacked` |
| | `PublishedAreAccepted` | `Spec => []PublishedWasAccepted` |
| | `DeliveryImplemented` | `Spec => ImplementsEventDelivery` |
| | `OldestIsFirst` | `Skew = 0`: `Spec => []OldestFirst` |
| | `RedeliveryIsBounded` | finitely many publishers: `Spec => []BoundedRedelivery` |
| | `SettledStays` | at most one publisher: `Spec => SettledIsFinal` |
| `PollingProofs` | `TypeCorrect` | `Spec => []TypeOK` |
| | `OnlyBacklogLost` | `SortedByAge`: `Spec => []OnlyBacklogIsLost` |
| | `NothingLost` | room for all orders in a batch, clocks that agree: `Spec => []NothingIsLost` |
| `DaemonProofs` | `DaemonPolls` | `DaemonSpec => Spec` of `Polling` |
| | `DaemonLosesNothing` | room for all orders in a batch, clocks that agree: `DaemonSpec => []NothingIsLost` |
| | `DaemonInvariance` | `DaemonSpec => []DaemonInvariant` |
| | `DaemonTypeCorrect` | `DaemonSpec => []DaemonTypeOK` |
| | `EachVersionOnce` | `DaemonSpec => []EnrichedOnce` |
| | `RecordIsOfPresent` | `DaemonSpec => []RecordIsOfPresentVersion` |
| `HttpRetryProofs` | `CallImplemented` | `Spec => ImplementsSubmitCall` |
| | `TypeCorrect` | `Spec => []TypeOK` |
| `RuleEvaluationProofs` | `LoopCorrect` | `Spec => []LoopInvariant` |
| | `MatchesAreInOrder` | `Spec => []MatchedInOrder` |
| | `FieldsAreByPriority` | `Spec => []GreatestPriorityWins` |
| | `OnlyBadRulesStop` | `Spec => []BadRuleStopsOrder` |
| | `BrokenRulesShow` | `Spec => []IllFormedRaises` |
| | `RulesMeanTheirClauses` | `Spec => []MeansItsClauses` |
| | `OppositesNeverAgree` | `Spec => []OppositesDisagree` |
| | `SeededRulesAreHarmless` | `Spec => []SeededRulesNeverRaise` |
| | `LongTailRulesDecide` | `Spec => []LongTailDecides` |
| `RuleStoreProofs` | `CacheSound` | `Spec => []CacheInvariant` |
| | `StalenessIsBounded` | `Spec => []BoundedStaleness` |
| | `OneRowEach` | `Spec => []OneRowPerRule` |
| | `SeedsComeTogether` | only `seed-rules` writes baseline rules: `Spec => []SeedingIsAtomic` |

Order processing. None of the properties is inductive, because each follows from
what a run holds in memory between its transactions. `InductiveInvariant` adds

- `CorrelationIds`: the ids of attempts and of runs under way are in `1 .. runs`,
  no two runs under way share one, and attempts with a run's id are of its order.
  `RunRecordedOnce` needs it: a new attempt row can only meet an old one of its
  own run, and then the outbox key of that run is taken and nothing is stored;
- `AttemptNumbersInterval`: an order's attempt numbers are `1 .. k`, and the
  number a run has read is 1 or the successor of a number that is stored.
  `NoAttemptGaps` follows; it survives overlaps because the table only grows;
- `SuccessJustified`: at the labels from which a success is recorded, the WMS
  has the enrichment or there is nothing to send, and a row that was loaded is
  still there. `SuccessWasApplied` and `IdempotencyRecordBacked` need it at
  `CommitSuccess`. The hard case is the UPDATE that leaves the hash column
  alone while another daemon has changed it: the row then names this run next
  to the other one's hash, and is backed all the same.

There is one lemma per part (`TypeStep`, `CorrelationIdsStep`,
`AttemptNumbersStep`, `RunRecordedOnceStep`, `SuccessJustifiedStep`,
`SuccessWasAppliedStep`, `IdempotencyRecordBackedStep`), each with a step per
action that can disturb it.

Shared numbers. The next attempt number is read and stored in different
transactions and is no key, so daemons that overlap give it twice.
`SharesAreCounted` says that the attempts with a number and the daemons that
hold it and have not stored their attempt yet are no more than there are daemons:
a number that has just been read is in no attempt, and a run that stores its
attempt holds the number no more (`NoAttemptYet`).

The ledger. Under `InductiveInvariant` every step of `OrderProcessing` is a step
of `RunLedger` or leaves its variables alone (`LedgerStep`). The two commits are
the steps that enter something; `RunIsDue` says that a run whose result can
still be stored has not been entered and has a number that is due, from
`CorrelationIds` and `AttemptNumbersInterval`, and `SuccessJustified` gives
`Backed`.

What the ledger may miss. `Gone` are the runs that have a request, in the WMS or
still on its way, have ended and have left no attempt; `AppliedIsAccounted`
follows from `Cardinality(Gone) <= crashes + faults`. `RequestsOwned` says whose
a request is: of a run that has got to its submission, and of its order. Then a
run that ends by an exception before it, or as a duplicate, has none; one that
cannot be stored for its key has an attempt already (`RunRecordedOnce`); one that
cannot be stored for its length is not counted; and what is left is a crash or a
fault (`GoneStep`).

One daemon. `Alone` says that two daemons are the same one. Then `NumbersShared`
says that numbers are unique. And nothing comes
between a read and the write that follows it, which two invariants turn into
states: what is about to be submitted is not what the record says
(`SubmissionIsNew`), and snapshots of an order are no older than its record
(`SnapshotsAreNewer`).

Publisher. `SessionsBacked` says that what a session has listed is committed and
what it has staged as PUBLISHED has been taken in by the sink; the commit then
keeps `PublishedWasAccepted`, whoever else commits first. `SettledStays` needs
that the only publisher stages nothing but what is still PENDING.
`ListsAreOldest` says that whatever precedes a listed message was sent or is in
the same list, and that settled and staged messages were sent. It gives
`OldestFirst`, for a new message is no older than the ones there are.
`SendsAreCounted` counts the calls of the sink for a message: while it is
PENDING, by the sessions that have staged it and the calls that were cut off;
once it is settled, those publishers that still have it listed are to be added,
and each publisher is in one of the two groups at most.

Polling. `InReach` adds to `TypeOK` that the watermark is the start of the first
cycle or a time the WMS has seen (`WatermarkIsPast`), and that the orders not
fetched yet in their present version are not behind it, unless they are older
than the first cycle (`UnseenIsAhead`). The step that needs the order of the list is
`PollReturns`: what a full page leaves out is no older than what is on it.

Daemon. A step of the daemon is one of `Polling` or leaves its variables alone
(`DaemonStepPolls`), so what is proved of polling holds of the loop. To its
tables, the daemon is about an order that comes back, under rules that may have
changed. Every run is one of a few effects (`RunEffects`): nothing, or an attempt
with its event, and with them a hash that was not on record. `BatchIsAhead` says
that a batch has one snapshot of an order, no older than the record of it: then a
success moves the record forward only, and a snapshot whose hash is not on
record does not find the present hash there either (`NewHash`).
`EnrichmentsCounted` is `EnrichedOnce` with that in it: unless the hash of the
present version under the present rules is on record, all the WMS has of the
version is accounted for by processes that ended, runs that failed and decisions
that changed. A run without a match puts a hash on record and adds nothing; a
changed decision makes the hash another one, and pays for the enrichment that
was on record. An update in the middle of a batch makes the rest of it old, and
what is enriched from it counts for no present version.

Retry. `RequestsTyped` places the requests among those sent, so that a new
attempt is a new request and `Send` maps to `SubmitCall`'s; a retry maps to a
stutter. `PausesBounded` says that there was a pause before each attempt but the
first, none longer than the limit, and that a request on its way has not been
taken in.
That `2 ^ (attempt - 1)` is a natural number (`PowerIsNatural`) follows from the
number of subsets of a set.

Evaluation. `LoopInvariant` says that what was tried precedes what was not, in
the order of the stable sort, and did not raise. So the next rule goes behind all
that matched, and what it says under a key is what the greatest priority says.

Conditions. That `Builds`, `IsSatisfied`, `Leaves` and `Clauses` are what their
recursive definitions say needs a function that solves the recursion. The
theorems of the library that give one, and its induction, are about an operator,
which the provers cannot put in; `Recursion` is the same about a function
(`DependsOnLower`), by the least height up to which no solution exists
(`LeastNatural`). Induction over trees is likewise by the lowest tree
that has not the property (`LowestTree`). Then `BuildsMeans` says that a tree
builds when all its predicates are well formed, and `SatisfiedMeans` that a tree
whose predicates do not raise is satisfied when those of a clause are; "and" needs
a choice of one clause for each part at once (`ChosenTogether`), and both use what `all()` and
`any()` stop at (`FirstUnlikeOf`). For opposites the hard case are texts and lists: two sequences agree up to some
place (`AgreementOf`), and what stands there, or the end of one of them, decides
in one direction (`BeforeOrAfter`), for words by the alphabet
(`ScalarTrichotomy`), for items of lists by the order of numbers and texts
(`Trichotomy`). Whether two values can be compared does not depend on which of
them is on the left (`CanCompareBoth`).

Seeded rules. A tree is `Tame` for an order when no predicate of it raises, and
the conditions of the bulk, long-tail and baseline rules are, on an order whose
measures are numbers or missing, one predicate after the other. `LongTailIsLast`
compares priorities, 300 or more against 250 or less, so of what matched the last
one is a long-tail rule if any is; it has all four keys, and `GreatestPriorityWins`
gives them. `DecisionKept` carries the priorities and fields from the end of the loop
to the payload.

Rule store. `CacheInvariant` gives every cached entry a source: a time, a table
of that time (`tables` only grows) and how far the clock was set back by then.
As the clock only goes back, an entry that is fresh by the clock is no older
than the TTL and all that was set back. `StoreInvariant` says that a seeder
holds baseline rules only, all of them once it has counted, and that the rows it
has loaded are still there: ids only join the table. `UpsertKeepsKey` is what an
upsert does to the ids, and `SeedsComeTogether` follows by three cases: the
maintainers add an id that is none of the baseline, nothing changes, or all of
the baseline is there.

Only model-checked: liveness (`EveryMessageSettles`, `CallEnds`,
`ReadyOrdersAreProcessed`, `EventsAreSettled`), which is out of the provers'
reach with the fairness it rests on. The three properties that the code violates
have TLC's counterexamples.

## Not modelled

- `health-check` and `validate-rules` of the command line keep no state and print
  one answer; `replay-dead-letter` is a placeholder
  (`src/README.md:91`).
- Settings, logging and wiring (`bootstrap.py`) have no behaviour beyond the
  constants of the models and one unit of work per use case.
- `run_forever` and `stop` of the workers and `get_order_by_id` of the client are
  called by nobody. `OUTBOX_PUBLISH_INTERVAL_SECONDS` is not used by
  `run_daemon`.
- `daemon_checkpoints` and `rule_audit_entries` are tables no code writes, though
  `src/README.md:17` speaks of audit records.
- Of the schema, indexes, `downgrade` and column types; of the lengths only that
  of `message_id` appears.
- The growth of the rule cache, which has an entry per scope and removes none.
- The constants `source_system` and `enrichment_version` of the payload; the
  characters of names and texts.
