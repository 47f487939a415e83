# Formal models of product_system

TLA+ models of `product_system`, the service that keeps one stock ledger for goods
sold on Shopify and Rakuten: the ledger and everything that writes to it, how orders
reach it and stock leaves it, how channel SKUs and masters are tied together, and what
the reports say of it. They cover what concurrent sessions, crashes, repeated and late
deliveries, repeated runs of tools and operators on several screens can do. TLC checks
small instances; for every value of the constants, TLAPS proves that the ledger
implements a book of whole transactions, what the life of an order guarantees alone and
beside others, and the safety of the repair, count approval, order intake, export,
rollup and pushes. Paths below are relative to `src/app/` unless they start
with another directory.

## 1. Inventory of the system

A FastAPI process (webhooks, Cloud Tasks handlers, admin screens), some fifty CLIs run
by Cloud Scheduler or by hand, one PostgreSQL database reached through async
SQLAlchemy (READ COMMITTED, one session per request or job), the two channels'
HTTP APIs, and BigQuery. Concurrency comes from Cloud Run running several requests
and jobs at once against one database; inside the process there is one event loop.

| Component | State | Operations | Interacts with |
|---|---|---|---|
| Inventory ledger (`services/inventory.py`, `models/inventory.py`) | `inventory_events` (append-only), `inventory_snapshots` | consume / cancel an order line, manual adjust, stocktake write | called by ingestion, replay, count approval, adjust screen, one-off CLIs |
| Snapshot repair (`cli/recompute_snapshots.py`) | the same rows | sum the log, overwrite the snapshot | races with every ledger writer |
| Order ingestion (`services/ingest.py`) | `orders`, `order_items` | insert an order, apply a newer status, compensate a cancellation | reads mappings, writes alerts, calls the ledger |
| Mapping and replay (`services/mapping.py`, alert and mapping screens, `reprocess_pending_orders`, `reresolve_order_items`, the worksheet CLIs) | `channel_sku_mappings`, `mapping_alerts` | resolve an alert and replay parked lines, re-resolve unmapped lines, settle orders, add, delete, import mappings, re-key lines | writes the order items ingestion wrote, calls the ledger |
| Mapping sheets (`cli/build_channel_mapping.py`, `import_variant_mappings.py`, `import_mappings.py`) | files | match three exports, plan masters, mappings and sets | feed the mapping tables |
| Count approval (`services/reconcile.py`, reconcile and stocktake screens, `scripts/reconcile_admin.py`) | `reconcile_runs`, `reconcile_diffs` | start a run, approve, skip, finalize, cancel | approval is the only deliberate overwrite of a snapshot |
| Count sources (`services/stocktake.py`, `csv_intake.py`, `cli/reconcile_inventory.py`, `cli/audit_shopify_stock.py`) | none of their own | read a sheet or a channel, compute differences | start runs |
| Order intake (`api/webhooks.py`, `services/handlers.py`, `queue/`, `cli/poll_channels.py`, `api/internal_jobs.py`) | `webhook_logs`, Cloud Tasks, the schedule of the polls | verify, log, enqueue, handle, retry; search a window of orders and ingest it | calls ingestion |
| Channel push (`services/inventory_push.py`, `services/bundle_push.py`) | `sync_attempts` | push on-hand or bundle availability, retry | reads snapshots, writes to a channel |
| Channel adapters (`adapters/`, `cli/backfill_rakuten_orders.py`) | token buckets, a cached location | paged reads, writes of one item or of batches, retries | used by polls, pushes, audits |
| Catalogue and scope (`services/sku_scope.py`, `services/categories.py`, link, mark, archive, zero, sync CLIs) | `master_skus`, `bundle_components`, `product_categories` | link to a pool, exempt, archive, cut over, file under categories | decides what an order consumes and what a screen counts |
| Rakuten variants (`services/rakuten_catalogue.py`, `cli/create_rakuten_variant_masters.py`) | masters and variant rows, decision files | fold an export into variants, assign masters, write | rerun between manual repairs |
| BigQuery export (`services/bigquery_export.py`, `bigquery/`) | `bigquery_export_runs` | export windows of changed rows | reads every table |
| Analytics rollup (`services/analytics_rollup.py`, `cli/rebuild_daily_metrics.py`) | daily tables, watermark, velocities | detect stale days, rebuild them | reads orders and events |
| Queries and audits (`services/analytics_query.py`, `analytics_audit.py`, `velocity.py`, `stock_status.py`, `timeframe.py`) | none | aggregate over a period, compare with the orders, classify stock | read the rollup and the snapshots |
| Job alerts, inspection CLIs, other screens, application frame, schema, Terraform | - | - | - |

`PROJECT.json` lists every component with its sources and status, and the hazards
with their lines.

### What is hard here

* **Row locks are the only synchronisation.** A snapshot row is locked
  `FOR UPDATE`; orders, order items, alerts and masters are not locked before they are
  read. Whatever is decided from a plain SELECT may be out of date at commit.
* **Lock order.** Orders lock SKUs in the order of their lines; deadlocks
  are possible and PostgreSQL resolves them by aborting one transaction.
* **Idempotency by unique index.** `uq_inventory_event_source` and a savepoint turn
  a repeated append into a no-op; without a row yet for a SKU, the insert race is
  *not* under a savepoint and aborts the whole transaction.
* **Stale ORM objects.** `SELECT ... FOR UPDATE` without `populate_existing` locks
  the row and returns the object in the identity map with its old columns.
* **Redelivery.** Webhooks are retried and reordered, the poll re-reads an
  overlapping window, operators double-click, a request that is not answered may have
  taken effect.
* **Fixed windows and watermarks.** The polls keep no watermark; the export and the
  rollup keep one, over stamps that are given before they become visible.
* **Two-step repairs.** Attribution of an unmapped line, stock and status are
  repaired later by other jobs, which may overlap with a cancellation.
* **Definitions that change under the data.** What a SKU expands to, whether it holds
  stock, which category it is in, which master a key means: all are read again when an
  order is cancelled, a day rebuilt, a count approved or a tool rerun.
* **Round trips through people.** Sheets are read, answered and imported days later.

### What makes each component correct

* *Ledger*: on-hand is the sum of the events in every committed state; a source is
  booked once; credits follow consumptions; an adjustment never goes below zero; a
  transaction happens as a whole, as if alone; every transaction ends.
* *Repair*: an undisturbed repair heals drift and later writers keep it healed.
* *Orders and mapping*: stock follows attribution and status: a cancelled order
  holds none, a live order holds that of every line it can attribute; no order is
  parked for nothing; an unmapped line stays within reach of an operator; no sheet
  confirms what is in doubt or undoes a decision.
* *Counts*: a diff moves stock exactly when it is approved; closed is closed; what a
  sheet does not say is not zero; an approved count stands.
* *Order intake*: no change falls between two polls; a webhook is queued once and
  settled in the end.
* *Channel push and calls*: the channel never shows what could not be made, and the
  right number wins in the end; the rate is kept; a read misses nothing; what a write
  changed is known.
* *Catalogue*: what is credited is what was taken; what is archived or shared holds
  nothing hidden; two variants have two masters, and a repair restores them.
* *Export*: no visible change is skipped; a copy has an excuse; every change arrives.
* *Figures*: a stale day has a known reason and is healed; parts add up to totals; the
  audit accuses stale days only; screens agree.

## 2. Modules

| Module | Models | How it corresponds to the code |
|---|---|---|
| `InventoryLedger` | `services/inventory.py`, the write of `approve_diff` | `log`, `hasRow`, `onHand` are the two tables; a session's `todo` is the rest of its ledger calls, `held` its row locks, `work` and `rows` its uncommitted view. One action per database step: take the lock, miss the row, insert it, lose the insert, check the consumption, append under the savepoint, commit, fail, deadlock. |
| `StockBook` | what the ledger promises its callers | The abstract specification: per SKU a quantity and the lines that took and got back stock; one step is one whole transaction. `InventoryLedger` implements it (`ImplementsBook`, with `book` computed from the log by `Accounts`): every step but `Commit` stutters. |
| `SnapshotRepair` | `cli/recompute_snapshots.py` composed with the ledger | Extends `InventoryLedger`; `target`, `SumEvents`, `LockAndOverwrite`, `MissRow`, `InsertRow` are the statements of `recompute`, `Beside` carries the steps of the ledger over, `CycleVictim` resolves deadlocks between the two. `RepairInit` admits drifted snapshots, the reason the CLI exists. |
| `OrderLifecycle` | `services/ingest.py`, `services/mapping.py` and the transactions around them | Tables are variables; `tx[p]` is the state of an open transaction: what it loaded (`was`, `lines`) and what its commit will write (`put`, `fills`, `parked`, `reopened`, `events`). The channel is the environment and redelivers anything it has reported. |
| `MappingGap` | order lines without a master, mapping rows, alerts, the keys of a channel | `mapping` and `alerts` are the tables by channel and key, `keyOf` and `masterOf` the columns of a line. What a key leads to, which lines wait, and what the round promises of both. |
| `MappingRound` | the worksheet CLIs, the alert and mapping screens, `backfill_blank_channel_sku`, `deactivate_legacy_mappings` | Extends `MappingGap`. `sheet` is the worksheet the client has, `checked` the answers that passed. One action per transaction; `confirmed` and `unseen` are history. |
| `ChannelSheets` | `build_channel_mapping`, `import_variant_mappings`, `import_mappings` | Functions from files to sheets to a plan. A text is the sequence of the words the extraction looks for. `Build`, `Plan`, `ImportProducts` are the three tools. |
| `ReconcileApproval` | `services/reconcile.py` and its three callers | `seen[p]` is the ORM object of the run: filled by the caller's `session.get` where there is one (`Preloads`), otherwise by the locked SELECT, and never refreshed. `held` are row locks, `put` the decisions to be committed. |
| `CountSheets` | `services/stocktake.py`, `csv_intake.py`, `reconcile_inventory`, `audit_shopify_stock` | A file is a sequence of rows; `Diffs` is what each tool makes of it, given stock, mappings and flags; a cell that a CROSS MALL export cannot be read in enters its key with 0, as in `reconcile_inventory`. What the runs they become promise. |
| `Worksheets` | the screens and commands around them, `start_run`, `approve_diff` | Extends `CountSheets`. `desk` is the sheet being handled, between preview and execution; a run keeps its diffs while stock, mappings and flags change. |
| `OrderIntake` | `api/webhooks.py`, `services/handlers.py`, `queue/cloud_tasks.py`, `cli/poll_channels.py`, the schedules | `row` is `webhook_logs`, `open` the requests between their commit and the enqueue, `tasks` and `attempts` Cloud Tasks; `due`, `polling`, `got` the scheduled polls of each channel; `change`, `age`, `placed` the orders on the channel. A payload is an order as of one of its changes. |
| `ChannelPush` | `services/bundle_push.py`, `services/inventory_push.py`, `cli/push_bundle_availability.py`, the retry of `ui/routes/sync_errors.py`, `compute_bundle_available` | `push[p]` is an open transaction: the bundles still to push and the rows it has flushed, of which a pending one is the call in hand; `audit` the failed rows, which are what a retry starts from; `shown` the channel. |
| `RateLimit` | `adapters/rate_limit.py` | `bucket` is a token bucket of each endpoint with the queue of its lock; `excess` is history. |
| `AdapterCalls` | `adapters/` | Extends `RateLimit`. What the adapters keep of a row, how either feed tells an order, and what a call that ended promises: the shop, the orders, the displayed quantities and the calls. |
| `ChannelCalls` | `adapters/`, `cli/backfill_rakuten_orders.py` | Extends `AdapterCalls`. `call[t]` is a chain of requests, each queued, sent, answered or sent again. The shop and the orders change between requests. |
| `SkuRoles` | `models/master_sku.py`, `resolve_consumption`, `archive_blockers` | What a master is to an order and to an archiving, and what that promises of stock and orders. |
| `Catalogue` | `sku_scope`, `link_shared_stock`, `mark_non_inventory`, archiving, the cutover CLIs, the expansion of an order | Extends `SkuRoles`. Each session reads in one step and commits in a later one; a step that locks what it decides on is one action. `taken`, `returned`, `recast`, `overtaken`, `hand`, `late` are history. |
| `VariantPlan` | `services/rakuten_catalogue.py`, `build_plan` of `cli/create_rakuten_variant_masters.py` | `Variants`, `Assigned` and `Target` are the grouping, the assignment and the plan as functions of the export and the tables. A code is a stem and attributes, so that spellings can differ; the code made up for a variant (`CodeOf`) may be that of another one, and is taken within a run by the first of them (`Unplaced`, `FirstOf`). What a plan and its repetition promise. |
| `RakutenVariants` | the rest of `cli/create_rakuten_variant_masters.py` and what people do between its runs | Extends `VariantPlan`. `Assign`, `Plan`, `Apply` are one run; what people do to its inputs in between are the other actions. |
| `BigQueryExport` | `services/bigquery_export.py`, `cli/export_to_bq.py`, `bigquery/` | `runs` is `bigquery_export_runs`; `copies` what BigQuery holds, outside of any transaction; `stamp` and `open` separate when a change is stamped from when it is visible. |
| `DailyRollup` | `cli/rebuild_daily_metrics.py`, the day detection of `services/analytics_rollup.py` | A day's rows are the sets of lines they count; two reads per day, one commit; `watermark`, lock, cap and failures of the jobs. `updated` and `booked` are the stamps of what is committed: of when its transaction began, any time before `now`. |
| `SalesFigures` | the sales half of `analytics_rollup`, `analytics_query`, `analytics_audit`, `timeframe`, `categories` | The rollup tables are variables, a rebuild is one step, every query an operator over them. |
| `StockScreens` | the stock half of `analytics_rollup`, `velocity`, `stock_status`, the inventory list | `moved` is the event log summed by day; `grid`, `kpi`, `velocity` are the derived tables, the screens operators over them. What the tables and the screens promise. |
| `StockFigures` | the jobs that rebuild these tables, stock events, the calendar | Extends `StockScreens`. One action per event, change of population, day and run. |
| `InventoryLedgerProofs`, `OrderLifecycleProofs`, `OrderIntakeProofs`, `ReconcileApprovalProofs`, `DailyRollupProofs` | - | Theorems about the module they are named after, with their lemmas. `ReconcileApprovalProofs` also has those about `CountSheets` under `Worksheets`, and about `RateLimit` and `AdapterCalls` under `ChannelCalls`; `DailyRollupProofs` those about `StockScreens` under `StockFigures`. |
| `ReportingProofs` | - | Theorems about `BigQueryExport` and `SalesFigures`, what is derived from the books for others to read. |
| `CatalogueProofs` | - | Theorems about `ChannelPush`, and about `SkuRoles`, `MappingGap` and `VariantPlan` for any step of `Catalogue`, `MappingRound` and `RakutenVariants`. |
| `NumberLemmas` | - | Induction over naturals and over finite sets without an operator parameter; least and greatest elements, quotients, sums over finite sets and over their groups. |
| `MC...` | - | Values of the constants for TLC. |

Three runs put modules side by side that share no state, in one behaviour space with a
constant variable `part` that says which of them moves: `MCReconcileApproval`
(`ReconcileApproval`, `Worksheets`, `ChannelCalls`), `MCCatalogue` and `MCMappings`
(`RakutenVariants`, `Catalogue`; `ChannelSheets`, `MappingRound`) and `MCFigures`
(`SalesFigures`, `StockFigures`). They interleave nothing that the modules
alone would not: a behaviour is one of the parts, the others stay as they start.

Choices that matter:

* The ledger's log is kept **per SKU** in id order: ids are drawn while the SKU's
  snapshot row is locked, so id order and commit order agree.
* `OrderLifecycle` keeps only *which* events a line has left; the quantities are
  the ledger's. `ReconcileApproval` likewise counts stocktake events per diff and
  leaves the delta to `ApplyCount` of the ledger, and the figures to `Worksheets`.
* A payload's effect is a plain overwrite of `orders.status`; the ORM emits the
  column only if it differs from the value *loaded*, and the models keep that.
* `OrderIntake` says whether a payload is ingested, `OrderLifecycle` what ingestion
  then does with it, at whatever time and however often it comes.
* Time in `OrderIntake` passes in ticks of five minutes. No tick passes while a poll
  is due or running: schedulers are punctual to the tick. The five minutes by which
  each window exceeds the period of its schedule are what absorbs the rest.
* `DailyRollup` has the interleavings of the rollup jobs and no numbers, `SalesFigures`
  and `StockFigures` the numbers with a rebuild in one step. `RakutenVariants` has the
  rows of variants, `MappingRound` and `OrderLifecycle` rows by key alone.
* History variables (named so where they are declared) are read by properties only.

Operators marked *faulty variant* are plausible bugs: substituted for the definition
that follows it, each makes a property of its run fail. `PROJECT.json` names one for
every property.

## 3. Runs

| Run | Checks | Shows |
|---|---|---|
| `ledger` | `SnapshotMatchesLog`, `SourcedOnce`, `ReturnsFollowConsumption`, `AdjustNeverBelowZero`, `WritersAreIsolated`, `ImplementsBook` | Two sessions, a two-component bundle, an order with the opposite lock order, its cancellation, adjustments of +1 and -1, a stocktake, snapshot rows that do not exist yet, crashes and deadlocks: the ledger is a book of whole transactions. |
| `repair_heals` | `HealedAgrees`, `TransactionsEnd` | Rows repaired with nothing committed in between stay right. No transaction, of a writer or of a repair, stays open for ever, although orders, counts and repairs lock the SKUs in different orders and race to create their rows. |
| `order_serial` | `StatusIsTrue` | One transaction at a time, but crashes, late payloads, deleted mappings, the historical pass and any order of jobs: a cancelled order holds no stock, a live one holds that of its attributed lines, a parked one has an unmapped line, and an alert is outstanding for each of them. |
| `order_race` | `ConsumptionIsAttributed`, `UnmappedIsReachable` | What survives two overlapping transactions, with one ordinary channel SKU and a blank one. |
| `order_cancel_race` | `CancelledHoldsNoStock` - **violated** | The finding (section 5). |
| `reconcile` | `AppliedIffApproved`, `ClosedStaysClosed`; `AbsentIsNotZero`, `ApprovedCountStands`; `RateIsKept`, `ReadsMissNothing`, `WritesAreKnown` | Every pair of overlapping requests of both screens and the script. Sheets and exports whose mappings and stock change between preview, execution and approval. Calls of the adapters, two at a time, with a shop that changes between two requests, and two upserts of one SKU. |
| `intake` | `EnqueuedOnce`, `UpdatedOrdersAreFound`, `ChangesArrive`, `AcceptedIsSettled` | Shopify: redelivered, refused and lost webhooks, tasks that fail, are repeated or dropped, polls that fail, changes that meet a running poll. |
| `push` | `ShownCouldBeMade`, `ShownIsRight` | The hourly job crosses retries of old failures while stock and catalogue change, calls fail before or after they take effect and processes die. |
| `export` | `NothingIsSkipped`, `CopiesAreExcused`, `ChangesArrive` | Two runs of the job, windows capped, loads refused, containers killed, transactions that commit late. |
| `rollup` | `RowsTellOrders`, `RepairHeals` | Hourly, nightly and manual rebuilds exclude each other, are capped and fail, while lines are sold, cancelled and attributed by transactions that began before, during or after a run and commit at any time. |
| `catalogue` | `CancelMirrorsConsumption`, `SharesHoldNothing`, `ArchivedWasFree`; `VariantsShareNoMaster`, `RepairRestoresMaster`; `SheetsAreSound`; `RoundIsSound` | An order beside sessions that link, exempt, archive, zero and remap. The variant tool run again and again while people repair its rows. Sheets: 10 selections of a live shop, 2 Rakuten files, 2 CROSS MALL files, 5 of scope and stock, 3 of groups, all combined. Round: a worksheet crosses arrivals, operators, the re-keying and the archiving. |
| `figures` | `PartsSumToTotals`, `AuditFindsOnlyStaleDays`; `RowsLagForAReason`, `ScreensAgree` | Sales and the category tree; stock events, backdated ones too, and the screens. |

`order_serial` and `order_cancel_race` belong together: the first holds with one
session, and it takes a second one to break `CancelledHoldsNoStock`: the race, and not
the sequential logic, is to blame.

### Bounds

* `ledger`, `repair_heals`. `MaxEvents` (2 and 1): no *unsourced* event is started on a
  SKU that already has that many. Sourced events are bounded by the unique index. Two
  are enough for an adjustment or a count to meet a log with history on both sides of
  it. The repair run needs one count, for a lock order opposite to that of the order;
  `MaxDrift` (1) is how far a snapshot may be off initially. Two SKUs, two order lines,
  two sessions: lock cycles, insert races, lost updates and partial bundles all need
  two; nothing in the code counts sessions.
* `order_*`. One order of two lines, with a channel SKU each or a common one
  (`order_cancel_race`). Orders share only alerts and mappings. Two masters where the
  choice of attribution matters; `order_race` has one, because with two an overlap can
  book a line twice (section 5), and no deletions of mappings or historical pass.
  `LateDelivery`, `Unmap`, `HistoryPass` switch moves of the environment off where the
  counterexample of `order_cancel_race` does not need them.
* `MappingRound`: two lines stored under a blank key, one without any variant and one
  of another channel, of two products, one of which was renamed and one of which holds
  no stock; one worksheet, two moves of operators.
* `reconcile`. One run of two diffs over two SKUs, both kinds; `finalize` and `cancel`
  of the script behave like those of the reconcile screen (neither loads the run
  first). `Worksheets`: two masters, one without a stock row, two runs, three changes.
  `ChannelCalls`: four variants on two pages, five orders, a bucket of two and of one,
  two attempts, one edit of the shop at any moment.
* `intake`: one order with two changes (orders of a channel meet only in the poll's
  transaction, and `PollFail` is what that does to an order), two attempts per
  task, one that fails and the last; the schedule of Shopify in ticks, three to a
  period and four to a window. The theorems are about both channels and any number
  of orders.
* `push`: a set of two components, one of them a SKU that is flagged as a bundle
  itself, so that one change of stock moves both bundles; quantities -1, 1 and 3
  (short, less than one set, one set); one job and one retry. `MaxMoves` is 1: one
  change of stock, of the catalogue or of a mapping, at any moment, is what makes a
  push stale; jobs, retries, failures and crashes are not bounded.
* `export`: one row and two runs, three ticks, windows of one tick, two to a run, one
  fault. Rows meet only in their windows; two runs are what overlaps.
* `rollup`: two lines on two days, one outside of the nightly repair, two jobs, one day
  per run, two commits of writes, each stamped with any moment up to its own, one
  failure: a cap that leaves a day, a write during a run, one that is committed behind
  the watermark and a missed watermark all happen, and it takes one write before a run
  and one beside or after it.
* `catalogue`: three masters (a pool, its share, and the pool as a share), one order,
  two sessions, which may cancel it at the same time. `RakutenVariants`: four pages with
  nine lines, two possible pairs, masters that spell one product in two ways, two choices
  of one page that make one code, a line whose number spells what the tool would name the
  variant of another page, two steps of people.
* `figures`: sales on two days and two channels, three orders, four lines, three edits;
  three days and three events of two SKUs.

Bounded runs that come to rest at their bounds have `CHECK_DEADLOCK FALSE`
(`reconcile`, `catalogue`, `figures`), as the bound stops them and not the system;
deadlock checking is on in the others. `SYMMETRY` is used for sessions only, and never
with liveness.

### Fairness

`FairRepairSpec` of `SnapshotRepair` (writers and repairs together) assumes, for each
session: weak fairness of its statements (what can proceed is executed: the event
loop and the database keep running), strong fairness of taking a lock or inserting
a row (PostgreSQL queues the waiters of a row lock or of an uncommitted unique key
and serves them, although newcomers keep taking and releasing the row) and weak
fairness of `CycleVictim` (the deadlock detector runs after `deadlock_timeout`).
Nothing is assumed about beginning a transaction, about `Fail`, or that a caller
retries.

`FairSpec` of `OrderIntake` assumes that time passes, that a poll that is due is
made, that a request with a committed row goes on to the enqueue or dies, and that
Cloud Tasks attempts what is queued (all weak fairness; these are Cloud
Scheduler, Cloud Run and Cloud Tasks). It does not assume that any poll, enqueue or
attempt succeeds: the liveness properties say what a failure costs.

`FairSpec` of `ChannelPush` assumes that Cloud Scheduler starts the job again and
again (`infra/terraform/scheduler.tf:99`), that a transaction goes on or dies (weak
fairness), and, strongly, that not every run of the job dies before it reaches a given
bundle and that the channel does not refuse a bundle for ever. Without the last two
the code promises nothing; retries may run for ever and are owed nothing.

`FairSpec` of `BigQueryExport`: the clock goes on, open transactions end, a run that
has begun goes on (a refused load or a kill is another step, and there are at most
`MaxFaults` of them), and the daily job is started again (weak fairness).

`FairSpec` of `DailyRollup`: a run that has begun goes on, and the nightly job now and
then finds the lock free (strong fairness of its start: the hourly job may hold the
lock on any one night). Nothing is assumed of the hourly and manual runs.

## 4. Proofs

The proofs are first-order and checked by SMT and Zenon, with the temporal steps by
LS4. Every theorem is of the form `Spec => []P` or `Spec => [][A]_vars`, or the
refinement; each rests on one inductive invariant, which is proved with one lemma per
action. The bounds of the models
(`MaxEvents`, `MaxTime`, ...) are constants, so the theorems hold for all of them; the
assumptions named below are those the code justifies, and TLC evaluates them on each run.

### The ledger

`InventoryLedgerProofs` proves, for any sets of SKUs, lines and sessions, any
transactions in `Work` and any bound `MaxEvents`:

| Theorem | Property |
|---|---|
| `TypeCorrect` | `[]TypeOK` |
| `WritersIsolated` | `[]WritersAreIsolated` |
| `SnapshotIsProjection` | `[]SnapshotMatchesLog` |
| `SourcedOnceHolds` | `[]SourcedOnce` |
| `ReturnsFollow` | `[]ReturnsFollowConsumption` |
| `AdjustmentsCovered` | `[]AdjustNeverBelowZero` |

Assumptions: `LineAssumption` (the NULL source is no line), `WorkAssumption`
(callers respect the argument checks), `MaxEventsAssumption`.

**The inductive invariant.** None of the properties is inductive alone: whether a
commit keeps `SnapshotMatchesLog` depends on what the session wrote while it was
open. `LedgerInv` adds `WritersAreIsolated`: row locks exclude each other; a
session's view of a row it holds is the total of the log *with its own events
appended*, and it has appended nothing elsewhere; that log is in order (once per
source, credits after consumptions, adjustments covered); a call past its lock
holds its row. A commit then replaces a committed log by the session's view. The
rows of other sessions are disjoint, so their views stay exact. `ledger` checks
the same parts with TLC.

Most actions change one session and are discharged through one lemma about such steps
(`LocalStep`: other sessions unchanged, new view exact, new log in order).

**Sums.** `Total` is a recursive function over the positions of a log. That it
adds up under concatenation and append is induction over naturals, which the
library states with an operator parameter; `NumberLemmas` uses the least
element of a set of naturals instead (`LeastNat`, `SetInduction`).

### The ledger implements the book

`InventoryLedgerProofs` also proves `LedgerImplementsBook`: `Spec => ImplementsBook`, under
the same assumptions. `Commit` of a session is one step of `StockBook` - the whole
transaction, done at once and alone on the committed book - and every other action
leaves the book as it is.

**The argument.** The difficulty is that a transaction starts on an older book than it
commits on, and that it makes its calls one after the other in between. `SerialInv`
adds to `LedgerInv`, for each open session, `Progress`: the calls it has made so far are
a run of the book's operations from the book *as it is now* to the session's own view,
and this run changes only rows the session holds. Each call extends the run by one
operation of the book (`ConsumeOutcome`, `ReturnOutcome`, `AdjustOutcome`,
`CountOutcome`). When another session commits, it commits rows this one does not hold, so
the same run can be replayed on the new book (`CommitOtherProgress`). The
only calls that hold no row are cancellations that found no consumption; the book lets a
cancellation change nothing, so it may be replayed as that, whatever was committed since.
At its own commit the run is complete and ends in what is committed. `SessionsAreSerial`
states `[]SerialInv`.

### Snapshot repair

The last part of `InventoryLedgerProofs` proves, for any sessions, transactions, repairs
and any drift the snapshots start with:

| Theorem | Property |
|---|---|
| `RepairsAreSound` | `[]RepairInv` |
| `RepairsHeal` | `[]HealedAgrees` |

Assumptions: the ledger's, `TargetsAssumption` and `DriftAssumption`.

**The inductive invariant.** `LedgerInv` does not hold here, because a snapshot may
disagree with its log. `RepairInv` says what does: a writer's view of a row is off by
exactly what the committed row is off by (`ViewKeepsDrift`), so it neither makes
nor heals drift; the log a repair has summed is a prefix of the log as it is now
(`SumIsOfPrefix`), so that equal lengths mean an equal sum; and a row that counts as
clean is held by the repair and has the total of its log (`CleanIsExact`), so that no one
can overtake it before the commit.

### The life of an order

`OrderLifecycleProofs` proves, for any orders, lines, channel SKUs, masters, sessions,
with and without late deliveries and the historical pass:

| Theorem | Property | If |
|---|---|---|
| `UnmappedStaysReachable` | `[]UnmappedIsReachable` | `~Unmap`: nobody deletes a mapping |
| `StockFollowsLines` | `[]ConsumptionIsAttributed` | `FixedChoice`: a channel SKU means one master |
| `StatusIsTrueOneAtATime` | `[]StatusIsTrue` | `Alone`: one session |

Assumptions: `LineAssumption` and `KeyAssumption` (of which order and channel SKU a line
is, which masters an operator may pick), `NullAssumption`.

**The conditions** are hypotheses of the theorems and not assumptions of the module, and
each is needed. Nothing locks the rows an open transaction has loaded, so without
`Alone` the run `order_cancel_race` breaks `StatusIsTrue`, and without `FixedChoice` two
passes fill one line with two masters (section 5). Without `~Unmap`, the line of an order
that a payload took out of `pending_mapping` is left behind when its alert is resolved,
and lost from sight when the mapping is deleted. The first two theorems hold for any
number of sessions at once.

**The inductive invariants.** `ReachInv`: a resolved alert has left a mapping and is
never that of a blank key (`ResolvedIsMapped`), and an open insert has filled or parked
each line it has visited (`ReachTx`). What makes it stand beside other sessions is that
an insert which read an alert as outstanding may find it resolved at its commit, but
then the mapping is there. `AttributionInv`: what a transaction has taken, or is about to
take while it waits for the row lock, it attributes, or the line is attributed
already (`AttributionTx`); every master in a line, a mapping or a pass is one of the
choices of its channel SKU, so whichever commits last writes the same. `SerialInv` says
for each kind of transaction what it knows when it commits: an insert (`Inserts`) has
dealt with every line of an order that has no events; an update (`Updates`) has credited
what was consumed, if it cancels; a pass (`Fills`) has filled lines that were unmapped,
consumed those that are live, and confirms what nothing is left of. `OrdersFollow` ties
statuses to the channel, as far as no late payload reached the order: a credit is
followed by no live status. Each invariant was checked with TLC before it was proved.

### The order intake

`OrderIntakeProofs` proves, for any channels, orders, bounds, periods and windows:

| Theorem | Property |
|---|---|
| `IntakeTypeCorrect` | `[]TypeOK` |
| `QueuedOnce` | `[]EnqueuedOnce` |
| `UpdatesFound` | `[]UpdatedOrdersAreFound` |
| `NewOrdersFound` | `[]PlacedOrdersAreFound` |

Assumptions: `ChannelAssumption` (every order is of one channel), `BoundAssumption`,
and `WindowAssumption`: no window is shorter than its period. That is a fact of two
files nothing ties together, `api/internal_jobs.py` and `infra/terraform/scheduler.tf`.

**The inductive invariant.** "Settled, or young enough for the next poll" is not
inductive: while a poll is between its search and its commit, nothing says that
what it is going to ingest is what was in reach. `WindowInv` adds `PollInHand`: for
each order of a channel being polled, its latest payload is in the poll's hand or
settled, or it has changed since the search, and then, no tick having passed,
its age is zero. A poll that ends sets the next one a period away, which the window
covers. `AgesAgree` (the last change is not older than the first) carries the
same argument to `PlacedOrdersAreFound`, whichever time a search goes by. `QueueInv`
says that an id that is open has a row and was not queued.

`TypeOK` of these two modules and `PlacedOrdersAreFound` are proved and not run: the
first is part of the invariants, the second is what remains of a channel that is not
searched by update time.

### Count approval

`ReconcileApprovalProofs` proves, for any runs, diffs, SKUs, sessions and requests:

| Theorem | Property |
|---|---|
| `ApprovalCorrect` | `[]ApprovalInv` |
| `ApprovalMovesStockOnce` | `[]AppliedIffApproved` |
| `ClosedRunsStayClosed` | `ClosedStaysClosed` |

Assumptions: `DiffAssumption` (a diff is of one run and one SKU), `RequestAssumption`
(what the three callers may ask for), `RowAssumption` (rows of different tables are
different locks).

**The inductive invariant.** `AppliedIffApproved` relates two tables that one commit
writes together, so it depends on what the commit is about to write. `SessionInv` says
what a request knows while it is open: which rows it has locked by where it is
(`RequestInPlace`); each decision it will commit is about a diff it has locked, and
what it will approve is still pending (`PutIsSound`); a request that closes a run of the
reconcile screen knows the run as it is, because it was loaded under the lock, while the
stocktake screen knows a status from before it (`ClosingKnows`). Lock exclusion keeps
this true while others commit. `TablesAgree` carries what is left of the tally: it may be
too small, because a stale one overwrites it, but it is above zero once something was
approved, which is what cancelling a run asks.

### Count sheets

The second part of `ReconcileApprovalProofs` proves, for any sheets, channels, masters,
mappings, runs and interleaving of previews, executions, approvals and sales:

| Theorem | Property | Condition |
|---|---|---|
| `AbsentStaysUntouched` | `[]AbsentIsNotZero` | no sheet has a negative figure (`Countable`) |
| `CountsStand` | `[]ApprovedCountStands` | none |

The condition is needed: every tool reads a figure with `int` and accepts a negative one
(Shopify reports oversold levels as such), and figures of one key, and of the keys of one
master, are added up (`audit_shopify_stock.py:79`, `reconcile_inventory.py:126`), so that
-1 and 1 would be an empty shelf that no row speaks of. A finite number of rows is the rest
of `Countable`.

**The inductive invariant.** A difference is worked out by one step, executed by another
and approved by a third, with mappings and stock that have changed since. `SheetInv` says
that what a difference was when it was found it still is in the run (`SoundDiffs`: named by
a row, zero only if a cell says so, the counted figure for a stocktake), and that an approved
target is the stock until something moves it. Underneath, `QuantityNamesZero` and
`TargetNamesZero` say that a sum of figures, over the rows of a key and over the keys of a
master, is zero only if one of them is, or if a cell of a CROSS MALL export is unreadable
(`SaysZero`).

### The calls of the adapters

The last part of `ReconcileApprovalProofs` proves, for any calls at a time, items, orders,
pages, batches, capacities, rates and attempts, whatever the channels answer and whoever
changes the shop meanwhile:

| Theorem | Property |
|---|---|
| `RequestsKeepTheRate` | `[]RateIsKept` |
| `WritesStayKnown` | `[]WritesAreKnown` |
| `ReadsLoseNothing` | `[]ReadsMissNothing` |

Assumptions: `RateAssumption` (capacities and rates are positive) and `CallsAssumption`
(sizes of requests are positive, variants and orders are numbered and finite in number,
and a call is given what its kind needs: a row list, a quantity, a time to read from).

**The buckets.** `RateIsKept` alone is not inductive. `Covered` adds the tokens that are
there and those that time has brought since the last refill: together with the excess
they are no more than a full bucket. All that a call does besides is to join a
queue (`CallsTouchQueues`).

**The writes.** A property of calls that ended follows from what a call knows while it
goes on. What a set has taken is the one item a lookup named (`SetInPlace`); what an
upsert has taken is among the rows that were acknowledged and those of the batch in hand,
and the rows that were acknowledged and those still to send are the rows it was given
(`UpsertInPlace`). `DisplayInPlace` says of all calls together that Rakuten displays a
number that one of them sent: each request writes only rows that its call has then taken.

**The reads.** `ReadsInv` adds what a read has behind it. In a listing that follows the
number of a variant, whatever stayed and is not ahead of the cursor has been read once
(`ListInPlace`); an order of a poll's window has been read or is ahead of the cursor,
because a change only takes it further ahead (`PollInPlace`, `Latest`). That a page
leaves out nothing up to its last entry (`PageIsFirst`) keeps both. A backfill has
settled the days behind it (`Settled`); of those in hand it knows after the first
search that there are fewer orders than a page holds, unless one was placed since
(`SearchInPlace`), so that the second search has them all (`GetInPlace`). That poll and
webhook tell the same of an order (`FeedsAgree`) needs no invariant.

### BigQuery export

The first part of `ReportingProofs` proves, for any rows, processes, window length, number of windows
per run and bounds:

| Theorem | Property |
|---|---|
| `ExportCorrect` | `[]ExportInv` |
| `NoChangeIsSkipped` | `[]NothingIsSkipped` |
| `DuplicatesAreExcused` | `[]CopiesAreExcused` |

Assumptions: `WindowAssumption` (a window and the number per run are not zero),
`BoundAssumption`.

**The inductive invariant.** There is no record of single rows, so that none was skipped
has to follow from what a process knows of its window: it starts no later than the
watermark, which only moves forward (`WatermarkGrows`); once it is loaded, every
change stamped in it is in BigQuery or was noted as late (`JobInv`); and a change that is in BigQuery is
behind the watermark or in some process's hand, unless a crash or an overlap excuses it
(`SentAreKnown`). The unique key of `bigquery_export_runs` gives `ClaimsExclude`.

### Daily rollup

`DailyRollupProofs` proves, for any order lines, days, choice of recent days and jobs:

| Theorem | Property |
|---|---|
| `RollupCorrect` | `[]RollupInv` |
| `RollupTellsOrders` | `[]RowsTellOrders` |

Assumptions: `DayAssumption`, `BoundAssumption`, `RepairFits` (the days the nightly
repair goes over fit into one run), `NoneAssumption` (no job is the free lock).

**The inductive invariant.** A run moves the watermark past everything that was written
before it ends, so "stale days are ahead of the watermark" is lost at each success.
`RunInv` says what a run has seen to by then: every day it does not still have to do is
fresh or on record as raced or passed over, and what it has read of the day it is
building is what the orders say of it, or that day is on record. `raced` holds the days
written to by a transaction that overlapped a run: one that was committed while the run was
under way, or that had begun before its `completed_at` and was committed after it, with a
stamp that no later run looks for. `Changed` covers the
days whose change the next run will still see. `LockHeld` keeps two runs from
building at once; a run that has unlocked and not recorded its success may overlap the
next one.

### Daily stock and the stock screens

The last part of `DailyRollupProofs` proves, for any SKUs, number of days, stock to start
with, counts and length of the nightly repair:

| Theorem | Property | Condition |
|---|---|---|
| `RowsLag` | `[]RowsLagForAReason` | the calendar has a day, quantities are integers |
| `ScreensTellTheSame` | `[]ScreensAgree` | also: finitely many SKUs, and thresholds of at least 1 (`ThresholdsFit`) |

`MIN_THRESHOLD` is 3; the fallback is `settings.low_stock_threshold`, which is configured
and validated nowhere (`config.py`). With 0 or less, an SKU with nothing in stock would
not count as low, and the badges would part.

**The inductive invariant.** `StockInv` is the property itself with the types: an event for
a day makes the day changed and the days after it shadowed, and a run rebuilds a day from
the walk of all days before it (`BalanceWalks`, an induction over days). `ScreenInv` adds
that the KPI row of a day counts and sums the very rows of the grid that the same run wrote,
so that the two can only lag together, and that no threshold a refresh has left is below 1
(`Threshold` is what `MIN_THRESHOLD` or the fallback allows). The screens then agree because the statuses partition the
population (`SumUnion`, `DisjointUnion`) and because closing balances are what a fresh day
tells.

### The sales figures

The second part of `ReportingProofs` proves, for any orders, lines, SKUs, channels,
calendars, category trees and sequences of sales, cancellations, attributions, rebuilds,
re-filings and deletions:

| Theorem | Property |
|---|---|
| `AuditIsFair` | `[]AuditFindsOnlyStaleDays` |
| `PartsAddUp` | `[]PartsSumToTotals` |

Hypotheses: orders, lines, channels, masters and categories are finitely many
(`SalesFinite`), and an assignment sheet is a sequence of rows (`SheetsFit`). Assumptions:
`ShapeAssumption` (quantities are above zero, which `ck_order_items_qty_positive` of
`0001_initial_schema.py` sees to), `NullAssumption`, and `TreeAssumption`: the tree that is
there to begin with has two levels, as `assert_valid_parent` keeps it.

**The inductive invariant.** `SalesInv` separates what always holds of the rollup tables
from what holds of a day that is up to date. Always: the rows have their unique keys
(`KeysOK`), the KPIs of a day are the totals of the very rows of that day, because one
rebuild writes them together and a category that is deleted takes no row with it
(`TotalsOK`), and no SKU, row or category hangs from a category that is gone (`FiledOK`,
which `assert_can_delete` and the foreign key of the rows keep between them). Of a day that
nothing was written to since its rebuild: each row is the sum of the lines of its key as
they are now, and every line that counts has a row (`Fresh`).

**From rows to screens.** Every screen divides the same rows into groups: by channel, by SKU
and category, by bucket, by the top category over theirs. `SumByFibres` says that the
groups of a function add up to the whole, `RolledUp` the same for a tree of two levels;
`CategoriesAddUp` has to show that a category which sold nothing and is there only to hold
those under it is the root of its group. The audit divides the lines by day instead, and
`FreshDay` divides the lines of a day by the row they are in. `CategoryOrders` relates the
counts of orders to the sales: it is where a quantity of zero would part them.

### What reaches a channel

`CatalogueProofs` proves, for any bundles, components, jobs and retries:

| Theorem | Property |
|---|---|
| `PushesAreCurrent` | `[]PushInv` |
| `ChannelShowsWhatCouldBeMade` | `ShownCouldBeMade` |

Assumptions: `BundleAssumption` (a component of a set is no set of others),
`QuantityAssumption`.

**The pushes.** The code computes availability as a minimum of quotients;
`CanMake` is what it is meant to be, the most that can be made with the stock there is.
`AvailableIsCanMake` shows that they are one number unless it is negative, from
`QuotientIsMost` and the existence of minima of bounded sets. `PushInv` then says that an
open transaction has seen what can be made now, and that the rows it has flushed carry
numbers it has seen, or negative ones, which the adapter does not send.

### The roles of a SKU

`CatalogueProofs` also proves, for any masters, orders, sessions, links,
legacy and counted masters, and with no assumption on them:

| Theorem | Property |
|---|---|
| `CancellationsMirrorSales` | `[]CancelMirrorsConsumption` |
| `SharesStayEmpty` | `[]SharesHoldNothing` |
| `ArchivingIsSafe` | `[]ArchivedWasFree` |

**The inductive invariant.** Each session decides on what it has read and commits later,
and only some of them lock what they have read. `RoleInv` says what is left of a reading
at the commit (`RoleTxInv`): the targets an order was expanded to are still its targets,
or the order is in `recast`; a share that a link has found empty is still empty, or is in
`overtaken`; a master found free to archive is free, or in `late` (`FoundFree`). For the
orders it says what both of the sale and the credit are of (`OrderInv`), and that no two
sessions handle one order (`OneHandler`).

### The mapping round

`CatalogueProofs` also proves `RoundLosesNothing` (`[]RoundIsSound`), for any lines,
channels, keys, masters, old codes, worksheets and moves of operators. Assumptions:
`KeyAssumption` (a key of a channel names one product, and a key that stands for a variant
looks like no SKU: `adapters/shopify.py:43-45`) and `ProductAssumption` (masters are
masters).

**The inductive invariant.** `RoundInv` says where each kind of key can be: a line that was
sold under an SKU and has no master waits on an open alert (`LinesAwait`), so the next
worksheet asks for it; a key that stands for a variant is in its channel only
(`PairsInPlace`), so that no row but its own hides it. A row has the master of the lines it
is for, under its present or its old code (`RowsInPlace`), which new lines, answers and the
re-keying all keep. The answers that have passed the check are kept in another step than
they are checked in: they are still sound, or their master was retired meanwhile and the
property excuses it (`CheckedInPlace`).

### The variants of Rakuten

Its last part proves, for any export, pair table, decision files, codes and sequences of
runs, deletions, imports and sales:

| Theorem | Property |
|---|---|
| `VariantsAreOne` | `[]VariantsShareNoMaster` |
| `RepairsComeBack` | `[]RepairRestoresMaster` |

Assumption: `ExportAssumption` (the export is a sequence of lines). Nothing is assumed of
codes or pages; two variants may have one. That the tool's masters stand apart is a
condition of the second property itself, and the first names the three ways in which it is
broken: a split, a master that something else names (`Usurps`), and a code of two variants
whose master an earlier run made (`OneName`). Within one run a code goes to one variant.

**The inductive invariant.** `ToolInv` relates the rows that were written to a plan nobody
has made yet: if a run were started now (`Answers`), then, as long as the tool's masters
stand apart, it would give each variant with such a row the master of the row. All that
people do resets what was written, except the deletion of a row. Rows decide only who takes a
code that is not there yet, and the master of a row that was written is there
(`RowsNameMasters`), so that a deletion moves none of these variants (`PlanStays`). What remains
is that a run does not change its own plan by what it makes (`PlanOutlivesMade`): no line
spells the new masters, so the answers stay; they can only add to the candidates of the variant
they were made for, which had none and now has its own.

### Only model-checked

* Liveness, because fairness and `ENABLED` are out of the prover's reach:
  `TransactionsEnd`, `ChangesArrive`, `AcceptedIsSettled`, `ShownIsRight`, `RepairHeals`.
* The safety property of `ChannelSheets`: it rests on what recursive definitions make of a
  sheet, row after row.
* What a recursive definition computes in general. Sums over finite sets and walks over days
  are within reach, because `NumberLemmas` states their laws for the set at hand
  (`SubsetInduction`, `SumOver`).

## 5. Where the code and its documentation differ

**Finding, with a run.** `order_cancel_race` - a cancellation overlapping a replay
leaves a cancelled order holding stock: the cancellation loads the mapped lines
(`services/ingest.py:175`), the replay the parked ones (`services/mapping.py:232`), and
neither locks the order, against `services/ingest.py:11-12` and
`services/mapping.py:39`.

Observed while modelling, without a run of their own:

*Ledger, orders, counts*

* A later payload of a parked order overwrites `pending_mapping`
  (`services/ingest.py:162`, against its lines 9-10): its line is then outside of what
  `resolve_alert` replays; only `reprocess_pending_orders` still finds it
  (which is what `UnmappedIsReachable` says).
* Two alerts of one order resolved at the same time leave it parked with every line
  mapped: each `_settle_orders` reads the other's line as still NULL
  (`services/mapping.py:469`). `StatusIsTrue` of `order_serial` fails with a
  second session.
* A line filled by two overlapping passes with different masters is consumed twice:
  the unique index includes `master_sku_id` (`models/inventory.py:38`), unlike what
  `cli/reprocess_pending_orders.py:16` says of it. `ConsumptionIsAttributed` of
  `order_race` fails with a second master.
* `recompute` sums before it locks (`cli/recompute_snapshots.py:117`, against its lines
  14-15): a sale that commits in between is overwritten. `HealedAgrees` says what is
  left of the promise.
* The stocktake screen cancels a run by the tally it loaded before the lock
  (`ui/routes/stocktake.py:410`, against `services/reconcile.py:404`). The same stale
  object loses a tally when two approvals overlap, so `applied_count` is only a lower
  bound.
* `approve_diff` and `skip_diff` never look at the run's status, so a diff of a
  cancelled run can still move stock; bulk approvals lock snapshot rows in form order
  after the diff of an earlier row, so two of them can deadlock, against the lock
  order `services/reconcile.py:232` claims (PostgreSQL resolves it and the request is
  undone).
* `services/reconcile.py:20-23` has finalize push what was approved; nothing there
  calls the push.

*Sheets of counts*

* A master with several keys on a channel, of which one row has no figure, is compared
  with the sum of the others. Of two pending runs on one SKU, the last approved wins.
* The reconcile screen inspects a CSV with header aliases and comment lines;
  `aggregate_csv_variants` needs the exact names on line 1, and the request fails. Rows
  that are too short are dropped silently (`csv_intake.py:19`).
* The stocktake plan does not leave out sets and archived masters, and a list of SKUs
  that is empty prints the whole catalogue.

*Intake and push*

* A webhook whose enqueue failed, or whose first delivery was refused while the
  shared secret was being rotated, has a row: its redelivery is acknowledged with 200
  and never queued, against `api/webhooks.py:6-8`. `ChangesArrive` shows that a poll
  brings the change nevertheless.
* The status FAILED of a webhook is never stored: it is written in the transaction
  the exception undoes (`services/handlers.py:71-80`).
* Rakuten's orders are searched by order date, ten minutes back
  (`adapters/rakuten.py:305-316`, `api/internal_jobs.py:237`), and Rakuten sends no
  webhooks: a shipment or a cancellation later than that is never ingested, and a
  cancellation's stock never credited.
* `cli/poll_channels.py:1` speaks of the last successful poll. The window is fixed,
  so an outage of a poll longer than the slack loses what it would have found
  (`missed` in `OrderIntake`), on a channel without webhooks until someone runs a
  backfill.
* A crash of the push job in the middle of a call leaves no audit row of it, nor of
  the bundles pushed before it, although the channel has taken them: the pending row
  is flushed and not committed (`services/inventory_push.py:79`, against its lines
  5-6). `Crash` of `ChannelPush` does just that.
* Two overlapping pushes can leave the older number on the channel until the next
  job; `ShownIsRight` is about the end of it. A bundle without components is pushed
  its own stock, which is not clamped: while that is negative the adapter refuses it
  and the channel goes on showing the old number.
* A retry pushes to the listing in the failed row, also after it was mapped to
  another SKU, and also for a bundle that was retired since
  (`ui/routes/sync_errors.py:208`). A bundle with several active listings on
  a channel is pushed to one of them (`services/bundle_push.py:76`).

*Adapters*

* Each adapter has a bucket of its own, so the rate holds per instance and not per
  channel. A SKU may be given to another item between `_lookup_inventory_item_id` and
  the write.
* A line of quantity zero is refused by `NormalizedOrderLine` (`adapters/base.py:34`)
  and with it the whole read: every poll of a window with such an order fails. A
  Shopify poll reads the first 50 lines of an order; a Rakuten search the first 1000
  orders, and the second search of a backfill may be cut off although the first was not.
* A batch with one invalid row is refused as a whole and later batches are not sent;
  rows of a pair that does not exist are acknowledged; when 5xx answers or transport
  errors use up the attempts, no row is named for reading back. `push_single` gives no
  variant key, which `RakutenAdapter.push_inventory` demands; `push_inventory_batch`
  has no caller.

*Catalogue and mapping*

* `link_shared_stock` looks at the pool only, so sets can be nested; a component is
  consumed although it is exempt itself (`services/sku_scope.py:20-21`). What a sale
  took of a set that was changed since stays with the cancelled order (`recast`).
* A second marking as 在庫管理対象外 does not zero the stock, as its source key is the
  same; `zero_legacy_stock` books a quantity it read without a lock. Archived masters
  can be mapped again.
* `import_mappings.py:307` and `import_variant_mappings.py:310` name three columns in
  ON CONFLICT where `models/channel_sku_mapping.py:38-45` has a constraint on four:
  the statement fails and the whole import is undone. `import_variant_mappings` would
  also reset `is_bundle`.
* `_upsert_mapping` (`services/mapping.py:172`) does not pin the variant key: with
  several variant rows of a page it fails, with one it remaps that variant.
* Mapping sheets: variants of one product, colour and size are merged silently, first
  source and last quantity; several sizes may fall back to one Shopify SKU without a
  size; the branch for the colour and size among several
  (`build_channel_mapping.py:170-173`) cannot be reached; rows of the sheet of questions
  are imported too if they have an SKU.
* Mapping round: `services/ingest.py:225` looks a blank key up, and the worksheet and
  its import accept one, which the alert screen refuses (`services/mapping.py:116-125`):
  later lines without an SKU are then all attributed to one master. A key that is
  mapped on another channel under the same spelling is not asked for. The answer for a
  key with an inactive row is skipped at import. A line that was given a key gets no
  alert, and the blank alert is dismissed although unidentifiable lines remain.
* `dedupe_shopify_orders`: a SKU left without events is not recomputed.
* Rakuten variants: one candidate may be split off for two variants
  (`rakuten_catalogue.py:529-537`) and archived masters are candidates (599-605). A SKU
  sold through the row of its page between the deletion of its own row and the next run
  gets the master of the page. A partly mapped variant stops the whole run on the unique
  key. Codes are compared exactly when a new one is made up: A-gold beside Agold.
  The master that the tool made for one variant is given to another as well if the number of
  that one spells its code or its orders name it (`rakuten_catalogue.py:515-519`;
  `create_rakuten_variant_masters.py:394` does not ask who else claims it): two variants
  have one master, against `rakuten_catalogue.py:534-537`, and a row deleted for repair may
  come back with another master. `VariantsShareNoMaster` and `RepairRestoresMaster` say so.
* Codes made up for Rakuten variants: `variant_sku_code`
  (`create_rakuten_variant_masters.py:169-194`) drops characters and joins the rest, so that
  choices "a/b" and "ab" have one code. The run that makes the master for one of them holds
  the other back (line 406); the next run finds the code among the tool's own masters (line
  394) and maps the other to it as well, against lines 31-33, which promise that it is
  reported and skipped. `tests/test_rakuten_variant_masters.py:205-215` looks at one run.
  `OneName` in `VariantsShareNoMaster` says so.

*Count sheets*

* A CROSS MALL cell that cannot be read is logged as a warning and skipped, but
  `agg[key] += int(raw)` has entered the key with 0 by then
  (`reconcile_inventory.py:125-128`): a variant without another cell is proposed as an empty
  shelf. `AbsentIsNotZero` says so (`SaysZero`).

*Export and figures*

* A change that commits after its window was read, with a stamp inside of it, is never
  exported (`services/bigquery_export.py:9`). A failed window keeps its (table, until)
  key: after as many failures as a run takes windows, the export stays behind for good
  (against lines 14-16). Overlapping runs with different ends export rows twice.
* The rollup's watermark is `completed_at` (`services/analytics_rollup.py:482-494`): what
  was written while a run was in flight is before it, although the comment there says
  the opposite choice would lose it; the nightly repair finds it if it is recent. The stamps
  are `func.now()`, the start of the transaction (`models/base.py:18-28`,
  `models/inventory.py:82-86`): a write that has begun before `completed_at` and is committed
  after it is seen by no hourly run either, which the comment does not consider.
* A backdated event makes the hourly job rebuild its own day only: the balances of the
  later days stay wrong until the nightly repair, beyond its days for ever
  (against `services/analytics_rollup.py:18-22`). A day on which nothing happened gets
  no row from the hourly job.
* The category of a sale is rewritten by a rebuild and nulled by a deletion
  (`models/analytics.py:106-107`). A child category can be enabled or made under a
  disabled parent, and sheets may file SKUs under disabled ones.
* `sku_daily_sales.order_count` counts cancelled orders. The audit of a whole period can
  agree while its days disagree; `DayRow.agrees` ignores unmapped sales and the CSV has
  12 values under 11 headers. `overview_deltas` asks for a complete baseline only.
* A SKU without a row of yesterday counts as out of stock on the risk list.

## 6. Not modelled

* `data_quality.py`, the heat map, charts, inspection CLIs, rendering, logging,
  authentication, HTTP transport, migrations and Terraform: they decide nothing.
* The tables that are exported as a whole. (An empty one leaves the old rows in
  BigQuery: `bigquery/google_client.py:55-57`.)
* The in-memory queue, the 400 answers of the task endpoint and the damper of alerts:
  for tests, for malformed requests, and for people.
* `get_on_hand`, marketplaces, the channel and limit filters of the CLIs, the dismissal
  of an alert by hand, `sku_links.py`, images: narrow or cosmetic variants of what is
  modelled.
* The amounts of an order in `OrderLifecycle`, and what a payload says besides its
  status and lines.
* `seed_variant_stock`, `import_categories`, `dedupe_shopify_orders`: ran once.
* The moment between loading and taking an alert (`ui/routes/alerts.py:167-173`): a late
  take can only set a resolved alert back to 対応中, so that more alerts are outstanding.
* The refusal of an order with a line of quantity zero (section 5): the read fails as a
  whole, which `ChannelCalls` has for other reasons.
