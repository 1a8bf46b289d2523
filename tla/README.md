# Formal models of CryptoAnal

CryptoAnal researches, validates and dry-runs crypto trading strategies. Its worker follows the
public Bybit trade stream, keeps a journal of prices in PostgreSQL, raises signals on closed candles,
and carries each signal through an entry order, a position and a trade. Several loops of several
worker processes, operators, the API and the exchange act on the same rows at the same time, and
nothing but row versions, advisory locks, conditional updates and a lease stands between them. This
directory holds TLA+ models of that system, the TLC configurations that check them and TLAPS proofs
about them.

Paths below are relative to `src/`. *RR* is `packages/persistence/src/runtime-repository.ts`, *W* is
`apps/worker/src/worker.ts`.

Contents: [inventory](#inventory) · [modules](#modules) · [correspondence](#correspondence-to-the-code) ·
[runs](#runs-and-bounds) · [fairness](#fairness) · [proofs](#proofs) ·
[only model-checked](#only-model-checked) · [disagreements](#disagreements-found) ·
[not modelled](#what-is-not-modelled) · [plan](#plan) · [running](#running-the-checks)

## Inventory

| component | state it keeps | operations | what makes it correct |
|---|---|---|---|
| Runtime ledger (*RR*, `runtime-lock.ts`, `runtime-signal.ts`) | deployment, run, cursor, entry order, position, trade, decisions | persistCycle, submitRealtimeEntryOrder, persistRealtimeEntry, advancePendingEntry, cancelInactiveEntryOrders, persistRealtimeQuote, manual close | one claim per symbol, one decision per signal, one trade per position, limits hold, protection never loosens |
| Orders and receipts of an account (`execution-entry-liquidity.ts`, `entry-execution-proof.ts`, `scripts/verify-execution-ledger.ts`) | orders, fills with the liquidity they took | submit, fill, cancel, verify | every row can be verified again from the rows alone |
| Account money (`runtime-account-proof.ts`, `realized-cash.ts`, `account-snapshot-repository.ts`, `dashboard-repository.ts`) | cash columns of positions, fills, trades, payments | enter, partial exits, settle, close | two ways of counting agree |
| Liquidity exit (`liquidity-exit-*.ts`) | exit state, exit orders, fills | latch, submit, scan, fill, cancel, expire, finalize | quantity and money conserved, fills causal, the exit ends |
| Funding (`funding-repository.ts`, `execution-funding.ts`) | market state, payments, position columns | saveMarket, synchronizePosition, markUnavailable | charged once, on what was held; no trade without it |
| Deployments, connections, markets (`deployment-repository.ts`, `exchange-connection-repository.ts`, `market-universe-repository.ts`) | deployment and run status, connection revision and state, market list | create, START, PAUSE, RESUME, STOP, verify, rotate, revoke, instrument loop | trades only on verified credentials; an open position is supervised; a closed market pauses |
| Validation jobs (`validation-repository.ts`) | runs and jobs with leases, pinned inputs | queue, claim, heartbeat, pin, complete, fail | the report is of what is pinned; a run ends |
| Price journal (`price-journal.ts`, `price-event-repository.ts`) | queue, writer lease, price rows | claim, renew, release, enqueue, flush, append, read after | one writer, ids in commit order, no gap a reader cannot see |
| Price archive (`price-archive-repository.ts`) | chunks of old events | archive, prune, clean up, merged reads | no reader misses a row it needs |
| Position pricing and recovery (`runtime-price-processor.ts`, `causal-recovery.ts`, …) | checkpoint of a position | batches, recovery of missed prices, protection | priced as on the whole tape |
| Candles and indicators (`market-data-repository.ts`, `runtime-indicator-*.ts`) | candles, checkpoints | save, revise, restore, advance | the indicators are those of the stored candles |
| Runtime risk (`runtime-risk.ts`, `execution-account.ts`) | daily halt, kill switch, failure counters | assess, admit, guard | no entry past a halt; the limit bounds the loss |
| Execution engine, simulation (`execution-engine.ts`, `execution-policy-simulation.ts`) | a simulated account | entry, stops, trailing, funding, limits | money adds up |
| Trade audits (`scripts/lib/trade-audit-monitor.ts`, `liquidity-trace-replay.ts`, `closed-trade-audit.ts`) | state file, receipts, traces | discover, run, record; replay; verdict | every trade is audited, an audit agrees with what happened and with other audits |
| Accounts and access (`auth-repository.ts`, `apps/api/src/app.ts`) | users, sessions, memberships, invitations, recovery links | login, password, recovery, invite, accept, roles, removal | nobody acts on credentials or memberships that are gone |
| Settings, playbooks (`settings-repository.ts`, `playbook-repository.ts`, `SettingsPage.tsx`) | one record, pages that show it | load, save, turn the switch | the switch is turned as it was shown |
| Health (`health-monitor.ts`, `health-repository.ts`) | incidents | pass of a watchdog | incidents follow the conditions |
| Feeds (`activity-`, `journal-`, `system-log-repository.ts`) | rows, pages in the browser | write, page, refetch | no row is passed over |
| Decisions (`decision-engine.ts`, `decision-repository.ts`) | decision rows with their context, shadow rows | decide, ask shadow providers, record their answers, replay a decision | a finished replay never changes; nothing is judged by what it saw; a shadow opens nothing risk forbids |
| Analytics (`performance-analytics.ts`, `experiment-ranking.ts`) | none | reports, ranking | reports of one set of trades agree |
| Bybit client, contracts, dashboard, research, scripts | – | I/O, schemas, rendering, studies | outside the models except where a module says so |

How they interact. The stream loop of the worker that holds the writer lease queues trades; the
journal loop appends them. The candle loop (persistCycle) leaves a pending signal in a cursor. The
entry loop replays journal events for that signal and submits, fills, advances or cancels. The quote
and protection loops both replay events for open positions and write the row under its
`runtimeVersion`. Positions of order-book policies do not close at once: an exit is latched and
advanced on later events, while the funding loop charges settlements to the same row. The risk guard
closes positions when a limit is passed, the instrument loop pauses deployments, commands come from
the API at any time. When a trade is closed, the monitor audits it from its traces, which the archive
keeps. All writes of one run take the PostgreSQL advisory lock `runtime:{run}`.

What is hard: a loop reads a row, computes for a while, and writes; transactions run at READ COMMITTED
and read with several statements; trades arrive late, in another stream session, or not at all; a
process dies between two steps; a commit succeeds and its answer is lost; the exchange publishes a
funding rate after the position was sold and revises candles after they were used; decimal rounding
must lose nothing. `PROJECT.json` lists these hazards at the line where each bites, with the
properties that cover them.

## Modules

| module | what it models |
|---|---|
| `SignalLifecycle` | abstract promise: the life of a signal, without database or worker |
| `RuntimeLedger` | the ledger's transactions, the worker's lanes, the deployment commands; implements `SignalLifecycle` |
| `LiquidityExit` | one funded position sold through the order book, with funding |
| `ExitReplay` | `LiquidityExit` writing its trace, and the audit that replays it |
| `TradeLedger` | orders, fills and receipts of runs on the same books, and their verifiers |
| `AccountBooks` | the money columns of five handlers, counted in two ways |
| `PriceJournal` | lease, queue, append and a reader of the price journal |
| `PriceArchive` | retention, chunks and the readers of the merged history |
| `ExecutionEngine` | pricing rules as operators |
| `PositionPricing` | one position priced through a journal with gaps |
| `IndicatorHistory` | candles, revisions and indicator checkpoints |
| `DecisionReplay` | recorded decisions, shadow providers, replay of a decision |
| `CandleSimulation` | the simulation behind a validation run |
| `ValidationJobs` | versions, validation runs and jobs, workers with leases |
| `DeploymentControl` | extends `ValidationJobs` by connections, deployments, markets and the instrument loop |
| `RiskGate` | daily limit, kill switch, admission and guard |
| `TradeAudits` | the monitor of trade audits |
| `AuditVerdict` | checks, cases and verdict of an audit by the evidence it can read |
| `WorkspaceAccess` | users, sessions, memberships, invitations, recovery |
| `RecordEditing` | pages that edit one record |
| `HealthWatch` | watchdogs and incidents |
| `FeedPages` | feeds read page by page |
| `PerformanceReports` | reports and ranking of one set of trades |

Composition. `ExitReplay` EXTENDS `LiquidityExit`; `DeploymentControl` EXTENDS `ValidationJobs`;
`PositionPricing` and `CandleSimulation` EXTEND `ExecutionEngine`; `RuntimeLedger` states its
refinement by an INSTANCE of `SignalLifecycle`. The modules whose name begins with MC are the instances
for TLC. Several of them hold systems that share nothing: a variable (`part`, `subject`) chooses in
the initial state which one a behaviour is about, and the variables of the others keep their initial
values. It saves runs, not questions: every property is stated of its own part. `MCControl` holds
`DeploymentControl` (research, control, market) and `HealthWatch`; `MCEntries` holds `RuntimeLedger`
and `TradeLedger`; `MCAccess` holds `WorkspaceAccess` and `PositionPricing`; `MCOperations` holds
`RiskGate`, `TradeAudits`, and instances of `PriceJournal` and `RuntimeLedger` under fairness;
`MCRecords` holds ten: `RecordEditing`, `PriceJournal`, `PriceArchive`, `CandleSimulation`,
`AccountBooks`, `PerformanceReports`, `FeedPages`, `IndicatorHistory`, `AuditVerdict` and
`DecisionReplay`.

`PROJECT.json` ("map") names the lines of every definition. A definition named `X_Something` is `X`
with a plausible bug; nothing in a specification uses it. It exists to show that a property would
notice.

## Correspondence to the code

A transaction that locks what it decides on before it reads it is one action. One that reads without
a lock at READ COMMITTED and then writes is two or more. A loop of the worker or a request of the API
holds what it has read in a variable (`snap`, `call`, `worker`, `check`, `request`, …) and everybody may act
before it writes. Prices, sizes and times are reduced to what decides something; each module's head
says how.

### RuntimeLedger and SignalLifecycle

| action | code |
|---|---|
| `Start`, `Pause`, `Resume`, `Stop` | `DeploymentRepository.applyCommand`; STOP is refused with an open position |
| `ReceiveEvent`, `Expire` | the environment: an event is stored, `expiresAt` passes |
| `LoadCycle`, `PersistCycle` | candle loop, `persistCycle` |
| `LoadEntry`, `SubmitEntryOrder`, `FillEntry`, `AdvancePendingEntry` | entry loop, `listRealtimePendingEntries`, `submitRealtimeEntryOrder`, `persistRealtimeEntry`, `advancePendingEntry` |
| `CancelInactiveOrder` | `cancelInactiveEntryOrders`, one candidate, rechecked under the lock |
| `LoadPosition`, `UpdatePosition`, `ExitPosition` | quote and protection loops, `persistRealtimeQuote` |
| `AdvanceExit` | one step of `advanceLiquidityPosition` as the ledger sees it (its inside is `LiquidityExit`) |
| `RequestManualExit`, `CloseManually` | the manual close of a position under its idempotency key |

Whether a candle raises a signal, an event crosses a limit or a stop, is any choice. A price event is
its index in the journal and its stream; the signal id is `(run, symbol, candle)`. Guards that only
postpone are stutters or the `rejected` choice. Two entry lanes may follow one deployment because the
worker that loses the writer lease may still be inside its loop when its successor starts. A partially
filled entry order is CANCELLED in the code with a position behind it; the model calls every order
with a fill FILLED. The worker always passes `positionAction: "none"` to persistCycle and always an
entry order id to persistRealtimeEntry, so the branches behind other arguments are not reached. A
manual close does not increment `runtimeVersion`; the version check of a lane is on an OPEN row, which
is why this is safe. A pending signal without an order of a stopped run keeps its cursor entry for
ever, without a terminal decision; no later run uses that cursor. START of a STOPPED deployment looks
neither at the strategy's status nor at the market list (`deployment-repository.ts:246`), and so does
the model.

### LiquidityExit and ExitReplay

`SubmitOrder`, `BlockOrder`, `FillOrder`, `CancelOrder`, `WaitOrExpire` and `Finalize` are the branches
of `advanceLiquidityExit`, which takes the risk and run locks and reads what it decides on inside;
`Synchronize` and `MarkPending` are `synchronizePosition` and `markUnavailable`; `RefreshMarket` is one
turn of the funding loop with the history it may reuse. `Checkpoint` and `RequestExit` are the quote
loop before and at the latch. Money and quantity are whole numbers of the last digit, so
`EntryFeeShare` (half up), `FundingShare` and `KeptCost` (truncated) round as the decimal code does.
What a book still holds after earlier fills is a nondeterministic `q` (computed in `TradeLedger`).
Assumed: event times do not decrease with ids, the market row was checked before the position opened,
the policy charges funding. Dataset validation and checksums, which can only refuse, are left out.

`ExitReplay` writes the trace record of each step in the step and replays it as
`replayLiquidityRuntimeTrace` does. The scan is two statements (`LookAtLatest`, `Scan`). The order of
the fills by time is assumed; the replay of the prices before the trigger follows other rules and is
not modelled; archive and hash checks are abstracted.

### TradeLedger

`PriceEvent` and `Pass` are the tape and the clock; `Detect` a persisted signal; `SubmitEntry`,
`RejectEntry`, `EnterByFill` the entry transactions with `evaluateExecutionEntryOrder` over book and
public trades; `CloseWhole`, `RequestExit`, `SubmitExit`, `StepExit` the exits. Each fill keeps a
receipt: the book or trades it used and what others had consumed of them (`ownConsumed`,
`publicConsumed`). `RowsVerify` evaluates every row again with the operators of
`verify-execution-ledger.ts` and `closed-trade-audit.ts` (bindings, fill ledger, entry fill, exit fill,
entry timing, entry finality, balances, counts, sources not used twice).

Long positions only. Prices are left out: a Buy reaches the ask, a Sell the bid and every resting
buy; failures of spread and slippage are part of "no usable book"; the observed and received time of
a book are one; the maker share is a constant; money is `AccountBooks`. Price events are assumed to be
in the order of their time: an event out of order would break the audit's check at the end point.
Processing an earlier event late may use more of a book than the public trades after it left, so
`BookHeld` counts up to the fill's event only; trades observed in the very millisecond of a book are
not counted, and the `publicConsumed` of an exit order is always 0, both as in the code. Entry
finality of the audit compares with the recorded `decisionAt` while the guards of the entry use
`availableAt`; the two agree because a fill needs receivedAt ≥ submittedAt ≥ decisionAt. The key of a
source carries the stream.

### AccountBooks

`EnterPosition`, `Reprice`, `RequestExit`, `AdvanceExit`, `Charge`, `Finalize`, `CloseWhole` write the money
columns as five handlers do; `BooksAgree` compares the sums that dashboard, snapshot and ranking make
with those of the daily limit and the account proofs. Fees are one unit per unit held; funded
positions exit through the book (enforced at *RR* 238 and `execution-entry-liquidity.ts:145`).

### PriceJournal and PriceArchive

`Claim`, `ExpireLease`, `Release` act on the lease row; `Connect`, `Disconnect` on the stream session
(`beginStream`); `ExecuteTrade` hands the trade to every connected worker's bounded queue;
`BeginAppend` / `Commit` / `Rollback` are the append transaction in two steps, because ids are handed
out before the commit and the lock is what keeps them in order. `Commit(w, FALSE)` is a commit whose
answer is lost: the batch is sent again, `ON CONFLICT DO NOTHING` drops it and burns its ids ("void"
rows). `Stop` and `Release` are the shutdown; a claim under way may outlive `Stop`, and the shutdown
waits for it. `Crash` is final: a restarted process has another worker id. `OpenReader` and `ReadNext`
are a position that follows the rows in id order and recovers at a change of stream.

Assumed: one symbol; a connected stream delivers every trade in order. `OpenReader` takes a row only
if no newer trade was stored before it, which the maximum quote age of an entry gives as long as it
is shorter than the time in which the lease can go from one worker to another and back (seconds
against a 30 s lease). Without that TLC finds `NothingUnseen` violated by a queue that survives
two takeovers; the assumption is therefore a guard of the model and stated here.

`PriceArchive` has the pass in its statements (`ReadPositions`, `ReadPending`, `ReadOrders`,
`ReadBatch`, `Prune`, `Abort`, `Cleanup`) between which positions enter, wait, fill, exit, close and
expire, and readers page through chunks and rows (`Manage`, `ReplayPage`). A chunk is the set of ids it
holds: the codec restores it or refuses.

### PositionPricing and ExecutionEngine

`Trade` is a trade that the journal keeps, misses, or gets on a new stream. `Load`, `Advance`,
`Recover`, `GiveUp` are a batch of `processRuntimePriceEvents` with `causal-recovery.ts`;
`ProtectWaiting` and `ProtectListed` the protection lane and the priority exit. Trades come in the order
of time; one long position, one quote lane (races of lanes are `RuntimeLedger`'s); signal exits, the
request cache and profit protection are left out of the instance. `PricedAsTape` compares with the whole
tape, but for missed trades in the very millisecond in which the next stream begins (`Unordered`): the
reconnection leaves them out because nothing orders them, a later minute that begins there includes
them, and both are allowed. With the account's profit protection it holds of `strict` only: the older
`recoverRuntimeGap` does not apply it to the minutes of a gap. The repository refuses a priority exit
at an event before the saved one for positions with an exit policy; without that guard `PricedAsTape`
fails. The refusal is an exception and can mask a later exit until the history is complete. The wall
clock is unbounded, so a position is overdue as soon as a holding time is configured.

### IndicatorHistory

`CloseCandle`, `Revise` are the exchange; `PollCandles`, `SaveArrived`, `Backfill` the ways into the
store; `Reader` the loop of a run or the lane of a position, in its statements: candles, revision,
restore, advance, save. An indicator is the sequence of candles it has folded; a candle is one close.
One symbol, interval and breakout family; checkpoints are anchored in the validated data set, whose
`availableAt` is the time of reading (the cache is ignored). Answers are saved row by row with stamps in
commit order. With four candles and a tail of one the exemption of candles that were missed from the
start is hardly used.

### CandleSimulation and PerformanceReports

Each bar is walked open, adverse extreme, favorable extreme, close; at each instant funding settles,
positions leave, the account is assessed and, past the daily limit, closed out. Exposure limits are
abstracted in `MaxQuantity`; the strategy's day is the UTC day; the shorter life of market order
signals is left out. `PerformanceReports` computes metrics, equity, drawdown, buckets, breakdowns and
ranking of one set of trades and compares their totals; percentages are whole, ticks are minutes.

### ValidationJobs and DeploymentControl

A worker goes from claim through dataset, rules, history, funding, policy to completion, each a
statement or transaction under the lease condition, and may crash, throw or lose the lease anywhere;
what it computes from is numbered by when it was taken. `DeploymentControl` adds connections
(`Verification` asks outside the database and records the answer in a transaction whose statements
are two steps), deployments with their commands, manual transitions, the market list, and
`InstrumentLoop`. Each strategy has an account of its own. Validation attempts are unlimited, as in
the code. When PostgreSQL
ends a deadlock, the request is rolled back and nothing has happened.

### RiskGate and TradeAudits

`EntryAssess` and `PersistEntry` are the two moments at which an entry is checked, `Guard` and its
closings the risk guard, `SetControl` the switch, `NewDay` the day. What only refuses an entry is a
choice; the exposure of a symbol group and the limit on the number of trades are abstracted.

`TradeAudits` has the monitor's loop (recover, verify, discover, pick, check) with a state file that is
replaced as a whole, one directory per attempt, child processes that outlive it, receipts that are
created once, a session lock that can be lost unnoticed. A trade becomes visible when its transaction
commits, which need not be in the order of `createdAt`.

### AuditVerdict

`closed` is what the rows say, `defects` the checks that would fail if everything could be read,
`kept` the evidence that can be read; `Lose` and `Return` change only that. `Checked`, `Outcome`,
`Applies`, `Assess` and `Verdict` are the three layers of the audit. The overall "confirmed" is not
reachable, because whether the restart case applies is always unknown (the documents call the
acceptance incomplete). instrument-rules belongs to no case. Errors whose message reads like missing
evidence count as unknown. References are abstracted; an expired or unfinished trace is missing
"prices"; receipts and `newEntries` are one piece of evidence; the whole-trade verdict of the base audit
is the one without account proofs; of the exit's source only the row's exit state is used.

### DecisionReplay

`Decide` is the candle loop's decision with its frame, memory and risk; `Ask`, `AbortSignal`, `Settle`,
`Throw` are `runShadowDecisionProviders`, `Persist` the repository's row of an answer, `Replay` is
`evaluateRecordedDecisionCandidate`. The last two functions of the application are called only by tests
so far. A provider that ignores its abort signal may still be accepted after the timeout: the code does
not look at the timer again. Candles are neither revised nor filled in late here (that is
`IndicatorHistory`), so what is stored at a time is what had closed by then.

### WorkspaceAccess

A `call` is an HTTP request: the context the hook resolved and what its handler or open transaction has
read. `ResolveContext`, `PasswordSteps`, `MemberSteps`, `Answer` are its steps. createWorkspace counts
without a lock and acceptInvitation's upsert may lower an owner; only the loss of the last owner
contradicts something the repository says.

### RecordEditing, HealthWatch, FeedPages

`RecordEditing`: saves that compare `updatedAt` in one statement and write in the next, the kill switch
with its expected version, a playbook's status. `HealthWatch`: a `Pass` reads its facts one after
another and then synchronises incidents; ages are "fresh" or "late"; one workspace; the row locks of
one upsert are partly taken together. The heartbeat of a watchdog is written even if every workspace's
pass failed. `FeedPages`: rows are immutable and never deleted; the browser's library refetches all
pages, and a failed request keeps the old ones (modelled from its use).

## Runs and bounds

| run | instance | shows |
|---|---|---|
| `entries` | one symbol with 2 candles, 3 events over changing streams, 2 entry lanes, 1 manual close (or 1 candle and 3 events); 2 symbols with a limit of 1; and two runs on the same books and public trades, a quantity of 2 from a depth of 3, on 6 tapes | `OneClaimPerSymbol`, `SignalAccounted`, `PositionBackedByFill`, `CapacityRespected`, `RowsVerify` |
| `restart` | 2 runs (the first exits through the book), quote and protection lane, 3 events, 1 stop, 2 versions | `StoppedRunIsFlat`, `TradeIffClosed`, `ProtectionNeverLoosens`, `ImplementsLifecycle` |
| `exit` | quantity 3, fee 4, orders of at most 2, scans of 1 event, 3 events, 2 funding boundaries of rates -3 and 1, fair | `BalancesAgree`, `CashFlows`, `ReplayAgrees`, `FillCausal`, `LateScanIsFair`, `SettlementCompletes` |
| `takeover` | 2 workers, queue 2, batch 2, 3 trades, a reader | `NothingAppearsBehind`, `NothingUnseen` |
| `sessions` | 2 users, 2 workspaces, 2 invitations, 2 links, 2 sessions and 2 calls, from two initial states; and a position of entry 10 over prices 9, 10 and 12, a trailing distance of 3, minutes of length 2, holding 4, at most 3 further trades, times up to 5 | `CredentialsCurrent`, `AdmittedByInvitation`, `PricedAsTape` |
| `control` | 2 workers, 2 runs, 2 versions, 2 feeds, 2 attempts; 1 connection with 2 revisions, 2 deployments; 2 watchdogs and 2 changes | `ReproducibleResult`, `RunsOnVerifiedCredentials`, `PositionSupervised`, `RunEnds`, `ClosedMarketPauses`, `IncidentsFollow` |
| `operations` | 2 symbols at 3 prices, 2 trades, 2 days; 2 monitors, 2 trades, pages of 1, 1 fault; a queue of 1; an entry with 2 candles and 2 events; fair | `StopsWithinDailyLimit`, `OutcomeIsReceipt`, `HaltOutlivesRecovery`, `ForcedPositionsClose`, `TradeGetsAudited`, `QueueDrains`, `EntriesEnd` |
| `records` | ten small systems: a queue of 1 and 5 trades; 4 events archived in batches of 1, pages of 2, chunks of 1; 5 bars in two windows; 3 positions' books; 3 trades' reports; 2 pages; feed of 3 rows; 4 candles; 2 decisions over 4 candles, 1 provider; 22 closed trades with at most one defect and two missing pieces of evidence | `NoHiddenGap`, `ArchiveLossless`, `BooksAgree`, `ComputedAlike`, `SwitchTurnedAsShown`, `NothingPassedOver`, `EvidenceOnlyDecides` |
| `revision`, `funding`, `audit`, `owners` | small instances | each a disagreement, see below |

Why the bounds are enough for what they ask. Two candles are a signal and its replacement. Three
events are a submission, a fillable event and one of another stream. Two entry lanes and two
position lanes give every pair of racing writers; the compare-and-set refers to one row, so a third
writer meets what a second meets. Two runs are a run and its successor. Three quantity steps in
orders of two force a partial fill, a second order and a last fill; the fee of 4 over 3 and the rates
-3 and 1 divide evenly nowhere, so both roundings happen with both signs. A scan of one event makes
every backlog longer than a scan. Five trades through a queue of one give two separate overflow
episodes. Two calls are any pair of requests between whose check and write the other commits. Two
watchdogs with two changes let a pass that read early commit late. Pages, batches and chunks of one or
two meet every limit with the fewest rows. In `TradeLedger` market entries are always for the whole
size, rejections come at the end, and there is one signal per run. The bounds that are not of the
system are marked "bound" where they are declared. Because of them every instance stops somewhere,
hence `CHECK_DEADLOCK FALSE` in all configurations; that a part of the system does not get stuck is
what the liveness properties say. Symmetry (lanes, workers, calls, symbols) is used only in runs
without liveness properties.

Each property has a mutant in `PROJECT.json`: a dropped check, an off-by-one, a missing reset of a
mapped definition under which TLC reports the property violated in the same run; `ComputedAlike`,
which speaks of four modules (`CandleSimulation`, `PerformanceReports`, `IndicatorHistory`,
`DecisionReplay`), has one in each.

## Fairness

* Entries: weak fairness of the cancellation, of `LoadEntry` and of the non-rejecting
  `AdvancePendingEntry` per entry lane. The entry loop polls as long as the worker runs and visits
  every open order and pending signal in each turn. Nothing is assumed of candles, events or
  commands, so `EntriesEnd` holds without a further price event.
* Exit: the clock runs, the exchange publishes every settled rate in the end, the funding loop turns
  (every 15 s), the protection loop advances a latched exit (about every second). The final
  settlement has strong fairness: a failing refresh may set the position pending again and again,
  but the protection loop comes between two turns of the funding loop. Fills are never assumed:
  `SettlementCompletes` starts when everything is sold.
* Journal: a worker that runs keeps flushing (`BeginAppend`), and the database does not fail or lose
  the answer of every append for ever (strong fairness of `Commit(w, TRUE)`). `QueueDrains` speaks of a
  worker that keeps the lease.
* Risk: the guard goes round, and it does not find the quote of a position stale for ever (strong
  fairness of its closing).
* Validation: workers that have not crashed go on, and the lease of a silent one ages (five minutes).
  `RunEnds` assumes what `Survivor` stands for: one worker lives on.
* Control: the instrument loop turns; when it fails it turns again. Health: each watchdog's pass is
  weakly fair, failures are bounded.
* Audits: a transaction that created a trade commits, a monitor is started again (the process manager),
  a running one works, a child writes its result. Crashes and losses are bounded by `MaxFaults`.

## Proofs

The theorems hold for every value of the constants that satisfies the ASSUMEs of the modules
(`LedgerAssumption`, `ExitAssumption`, `SizesArePositive`, `NoneIsNoWorker`, `FollowOrNot`,
`AccessAssumption`, `ValidationAssumption`, `ControlAssumption`, `RiskAssumption`, `AuditAssumption`,
`TradeParameters`, `EditAssumption`, `LimitsAssumption`, `BooksAssumption`, `FeedAssumption`,
`DecisionAssumption`, `PricingAssumption`, `SimulationAssumption`, `EngineAssumption`), which TLC evaluates in the runs. Three of them, `NothingIsNoRow`, `NothingIsNoRun`
and `NothingIsNoDeployment`, say that null is no row, id or role; TLC takes that for granted of model
values, a prover does not.

| module | theorems | argument |
|---|---|---|
| `RuntimeLedger_proofs` | `Typing`, `BooksInvariant`, `SignalsAccounted`, `OpenOrdersPending`, `OneClaim`, `CapacityHolds`, `TradesMatchClosings`, `StopLeavesNothingOpen`, `ReceiptsBacked`, `FillsBacked`, `LateLanesCannotLoosen`, `LedgerImplementsLifecycle` | see below |
| `LiquidityExit_proofs` | `BooksInvariant`, `BalancesHold`, `OneTradePerExit`, `ScansAreFair`, `FillsAreCausal`, `CashFlowsAgree`, `ReplaysAgree` | the order's quantity is tied to what is held: without it the fill's `Held - q` could leave the naturals; the fee's halves are rounded within what is left; for cash flows and replay see below |
| `PriceJournal_proofs` | `Typing`, `LocksInvariant`, `FlowInvariant`, `IdsInCommitOrder`, `AppendsEndUnderLease`, `HandoverIsClean`, `StreamsWhole`, `EveryTradeSeen`, `PricesFollowTheTape` | see below |
| `WorkspaceAccess_proofs` | `CallsKeepTheirRows`, `CredentialsStayCurrent`, `AdmissionByInvitation` | see below |
| `DeploymentControl_proofs` | `ControlHolds`, `ControlTypes`, `ReportsReproducible`, `VerifiedCredentials`, `PositionsSupervised`, `SimulationBooksAgree` | see below |
| `Operations_proofs` | `HaltsHold`, `StopsCovered`, `OutcomesHaveReceipts`, `TradeRowsVerify` | a breach is stored with the halt of its day; a state file names only receipts that exist, and a receipt that was written whole is never written again; for the stops and the rows see below |
| `FiniteSums` | lemmas only | what a sum over a finite set of rows does when rows come, go or change, see below |
| `Records_proofs` | `AuditsNeverContradict`, `SwitchNeverSlips`, `HistoryIsWhole`, `BooksBalance`, `FeedsPassNothingOver`, `DecisionsStand` | see below |

**Signals and orders.** `SignalAccounted` is not inductive: that a decision is written once needs that a
pending signal was stored and that a candle the cursor has not reached has neither order nor decision;
that an order is open exactly while it is pending needs that a signal not yet ordered has no order row;
and a position must exist exactly for a filled order, so that no fill is repeated. `Books` is these
facts together for every signal. A lane's compare-and-set enters only as its guard, so any stale
snapshot is harmless there. `OneClaim` uses `Books`; `CapacityHolds` is about the cardinality of the
open set, which only a fill enlarges, by one; `ReceiptsBacked` is strengthened with the existence of
the named position. `FillsBacked` needs that the journal only grows and that orders name events of it.
`LateLanesCannotLoosen` is the one that speaks of what lanes have loaded: `PositionBooks` says that no
row has processed an event that is not stored, and that a snapshot with the row's present version
is the row (`SnapFresh`), which versions that only grow preserve.

**The lifecycle.** `LedgerImplementsLifecycle` reads the rows as stages of signals (`StageOf`) and shows that
every action is one legal step of `SignalLifecycle` or leaves all stages alone: lemmas say what each
abstract action asks in terms of stages, which stages a step leaves alone, and then, action by
action, which abstract step is taken. It rests on `Books`, `OneClaim`, `TradesMatchClosings` and the
fact that at most one run of a deployment is active (`OneRun`).

**Sums.** The library's induction theorems cannot be instantiated here, but a set of numbers can be:
`SetInduction` says that a set of finite sets which has the empty one and, with each of its members,
every set one element larger, has them all. From it `FiniteSums` derives, for the sum over a finite set
(`SumFunctionOnSet`), that it is a number, does not depend on the order in which it is taken, and
grows by what is added (`SumTakes`, `SumAlike`, `SumsBelow`, `SumsAdd`, `SumOfPart`, `SumRaised`).

**The daily limit.** `StopsCovered`: what is realised today, less what the stops of all open positions can
still cost, never passes the daily limit, nor does it use up the account. The invariant itself is
inductive over well-typed rows (`RiskRows`). An admission leaves enough because the reserve of an open
position is exactly the part of its stop risk that its present loss does not show yet
(`BudgetCovers`): added over all positions, loss and reserve together are at least the stop risk.
Quotes therefore need no case; a stop that trails only lowers its risk; an exit at or above the stop
realises no more than was reserved; and a loss the budget cannot foresee (the guard closing at a quote
below the stop, or positions taken over the end of the day) is what `excused` stands for.

**The rows.** `TradeRowsVerify` says that the verifiers find nothing wrong in any state, for every number of
runs, every quantity, depth, trade size and age limit. Its invariant (`LedgerInv`) has four parts. *Orders*: the
only order of a run at work is the one its pending signal or its position names; an order that is not
open was ended by its one fill or by none. *Positions*: each is in one of three stages (`NotEntered`,
`HoldingEntered` while open, closed), which fixes its counts and balances. *Receipts* (`ReceiptHolds`): what an
event yields does not change afterwards, because events, books and the trades before them are only appended
to; so evaluating a fill again gives what was seen. *Sources* (`SourceHolds`): what fills took from one book
or public trade is what a later receipt names as consumed, and since a fill takes no more than what is
left, the last one's capacity covers all. `BookHeld` needs that public trades which followed a book count as
consumed when a fill comes after them. Entry finality needs one fact nobody checks: a decision is recorded
no later than the clock. `LedgerKept` and `RunsKept` say once what every step keeps; each action then
shows only what it writes.

**Cash flows.** `CashFlowsAgree` rests on `Moneys`: funding accrued is the sum of what the settlements
were paid (`Fundings`); while something is held, no settlement later than the position's event has
been charged (`Timeline`), so a fill never comes before a settlement that counted its quantity;
every fill takes its share of fee and funding from what remains, and the last takes the rest.

**The replay.** `ReplaysAgree` says that an accepting replay *is* the rows (`Rebuilt`), from the records alone.
Each check of the replay then has a reason: an order is cancelled or filled only after a scan in which every
earlier event let it wait (`NoneSkipped`); the shares of a fill are computed from the same balances; what was
held over a boundary is never negative (`NoneOversold`), so what the replay finds uncharged is what was
due; and a sold position was closed by its last fill (`LastSale`). What a record says of its own scan is
left to the verdict "scan", see the third disagreement.

**The books.** `BooksBalance` compares sums over different sets: trades and open positions on one side,
closed whole positions, fills and settlements on the other. `Fits` says how the columns of one position hang
together, whether it is still empty, open or closed, and that makes each position count the same on
both sides; `FiniteSums` adds them up. That a sale of nothing leaves no new proof is harmless because
such a step never closes a position: what is left of one that is not yet filled is not zero.

**The journal.** `Locks`: one append at a time; its worker owns the lease; its rows are the last ones; a
worker queues events of its own streams only, so an open row names the worker whose append holds the
locks; the reader stands on a committed row; a released worker has no claim under way. `Flow` adds what
makes a stream whole: queue and rows of a stream are in the order of the tape; between a stored trade
and a queued one of its stream everything is stored or queued; a batch under way is the head of the
queue of a process that still runs; and a session that began with a dropped trade has nothing in
it yet. `StreamsWhole` follows. `EveryTradeSeen` adds `ReaderInStream`, that the position stands on
the stream of a row it has read.

**Prices.** `PricesFollowTheTape` says that a position stands where the whole tape puts it. What the
protection has become depends on the highest price seen alone (`Shape`, `ProtectedShape`), and both stops
rise with it (`StopsRise`); so a checkpoint need not have seen every trade, only trades that give the same
stops and, before each, let the position live (`Tracks`), or end at one that does not (`Ended`). A gap
is a set of trades none of which exceeds some price h and each of which is passed with the stops that h
gives (`GroupPasses`): one group of trades of the same time, or one minute with its high as h and its low as
the worst. A minute the position was not held in from its start is only accepted if it changes no
stop, hence need not be attributed to either side. That a minute of a gap holds just its trades, in order, is
`MinuteOrder`; that the tape is sorted makes the first event of the new stream come after all of
them but for those at its very time. Folds are handled by the set of all replays of parts of
a set of trades (`RepricedRuns`, `GroupsRun`, `MinutesRun`). The batch at work and the stored row satisfy the same
condition, which survives every growth of the tape (`Grows`), and the priority exit needs only
that it acts on the row it has read (`PriorityKeeps`).

A stop that the first price sets only after that price was judged is the hard case: a trailing stop
without an activation distance (`trailingActivationR` 0, the contract's default, `contracts/src/index.ts:713`).
Until its first price a position has none (`AtEntry`), and a position that has passed only trades at
the entry price may differ from the tape in it (`Like`). `LineFollows` and `LikeFirst` show that the first
event is judged alike with and without that stop, provided it lies above it.

The theorem speaks of every `trailingActivationR` and has three conditions. `FirstPriceAbove`: where there is no
activation distance, the first event after the entry lies above the trailing stop that the entry price sets;
without it the property fails (5 under "Disagreements found"), and it says nothing where
there is a distance. `EntryHolds`: a market entry slips by less than its stop, and its trailing stop without
activation, is away. `Decided`: the position pins the strict model, or the account has no profit
protection, which the older `recoverRuntimeGap` leaves out (`causal-recovery.ts:181`). The first and the last are
premises inside the temporal formula, since they speak of the tape and of the position's model.

**Access.** What makes credentials current is what open calls hold: an acceptance that locked its user
still has the password it compared, and what a call has found (session, link, invitation) keeps its
user, workspace and address. `CallOK` says it of one call, and the steps of all others are shown to
leave its rows alone.

**Validation and deployments.** A worker that still holds the lease has in hand exactly what is pinned so
far (`InHand`); one that lost it may have anything, since every write asks for the lease. An active
connection is proven at its revision, and a refusal about to be recorded has read every deployment it
must suspend, because the lock it holds keeps others from starting (`CheckOK`).

**Audits.** Outcomes of an audit are functions of the evidence. Each layer is shown to be monotone:
what can be verified stays verified with more evidence, hence an outcome that is decided stays what
it is, hence a case, hence a proven violation. Two audits of one trade are compared with the union
of what they could read. The theorem covers every trade, every set of defects and any loss, where
the run bounds all three.

**The switch.** A page that shows the kill switch with its present number of turns shows it as it is;
a request to change a playbook's status is never one about the kill switch.

**The archive.** `HistoryIsWhole` rests on an order nobody wrote down: a batch is the oldest part of the
hot journal, so everything removed is older than everything hot (`HotIsNewest`), and the chunks of a
market follow one another without overlap (`ChunksApart`). A running pass has read a cursor of every
open position, or the position was filled since by an event younger than the retention (`PassSafe`),
so nothing an open position has still to read is removed. What a retained trace needs was packed,
since the traces are read last. `AfterIsLossless` is about the reader: when not every chunk is loaded,
the most that may be loaded are, and they end before the first that is not (`LoadedAreFirst`), so a
page that stops there leaves nothing out, and a page is empty only at the end. Cardinalities are
compared by a least element, which `Least` obtains from the well-foundedness of the naturals.

**The feeds.** `FeedsPassNothingOver`: a page is the rows that fewer than a page's number precede, so what it
leaves out is older than its last row (`PageOfRows`, by cardinalities); an answer that begins where
the pages end continues them (`AnswerGoesOn`); and a row that is written, or a period that moves on, only
takes rows out of what must be shown. `FeedInv` says it of the pages shown and of those a refetch
has collected so far.

**Decisions.** The candles an earlier replay knew are a prefix of those a later one knows (`JudgedIsPrefix`): the
market only appends. A replay that was complete has therefore the same first hit, or had all candles of
its horizon already (`ReplayStays`). The frame of a decision, and the frames of those it remembers, hold
what had closed when it was taken. A shadow row is written once for a provider and a decision, and it
opens a position only if the risk of the decision allowed an entry. The theorem does not say when the
provider answered: a late answer is accepted, in the code and in the model, if the provider ignores the
abort signal.

**The simulation.** `SimulationBooksAgree` says that at every instant each trade has paid exactly the settlements
between its entry and its exit, a day's cash is what its trades and settlements moved, and the
capital handed on counts each net result once, for every set of symbols, candles, windows, settlement times
and sizes. Its invariant ties the instant up to which funding is settled to the step of the walk
(`Settled`), lets positions open only before the next settlement and a symbol's trades follow one another
(`Ordered`, hence no trade is booked over another), and says what an open position has paid so far
(`HeldPaid`). Whatever makes positions leave, an exit, a limit, the end of the data, one lemma books them
(`LeavesBooked`, `LeavingKeeps`); `ChargesGrow` moves the settled instant. The theorem stands in
`DeploymentControl_proofs`, with the validation jobs whose engine the simulation is.

## Only model-checked

* Liveness (`SettlementCompletes`, `RunEnds`, `ClosedMarketPauses`, `IncidentsFollow`, `TradeGetsAudited`,
  `ForcedPositionsClose`, `QueueDrains`, `EntriesEnd`): fairness and ENABLED are out of the prover's
  reach.
* Of `ComputedAlike` the parts about reports and indicator histories, which compare folds over trades and
  candles in their order. Those about the simulation and about decisions are proved
  (`SimulationBooksAgree`, `DecisionsStand`).

`OpenOrderIsPending`, `ReceiptBacked`, `CommitUnderLease`, `CleanHandover` and `OneTrade` are proved; no
run repeats them.

## Disagreements found

1. **Checkpoint that hides a revision** (run `revision`). `docs/engine-improvement-plan-2026-10-03.md`
   520-521 says that revisions after the seed are taken into account, outside the tail as well. *W* reads
   the candles first and the latest revision of those folded before afterwards. Two saves in between
   hide the second of them behind the first, and once the candle is older than the tail nothing
   notices.
2. **A funding settlement left out of the trade** (run `funding`). `synchronizePosition` decides
   whether a settlement is missing by the position's own progress and then takes over the market's
   next boundary (`funding-repository.ts` 202-216). If the market row moves past a boundary before the
   position has processed an event at it, the boundary is no longer awaited although the state is
   ready. An exit filled at or after it is booked as a trade, and a closed position is not
   synchronised again. `docs/funding-cashflows-2026-10-15.md:30` says that net PnL subtracts the full
   cost.
3. **An audit that refuses a correct trade** (run `audit`). The latest event id and the events of a scan
   are read by two statements (`liquidity-exit-repository.ts` 352, 421). An append between them makes
   an event of the scan younger than the scan's latest id, which the replay refuses
   (`liquidity-trace-replay.ts` 178-184), although `README.md` 189-191 says that it reproduces the exit.
4. **A workspace without an owner** (run `owners`). Two owners who lower or remove each other at the same
   time both count another owner (`auth-repository.ts` 652); `app.ts:4189` says that a workspace must
   keep one.
5. **A first price behind its own trailing stop** (no run: the runs' instance has an activation distance).
   With `trailingActivationR` 0, entry 10 and a trailing distance of 1, the journal keeps a trade at 8, then
   a new stream begins. The quote lane judges the 8 against the stop loss alone, keeps the position open and
   sets the trailing stop to 9. While it waits for history, the protection lane looks through the
   batch from its base on; `runtime-priority-exit.ts` 20-21 leaves out only events before `through`, so it judges
   the 8 again, with the stop 9, and closes. TLC violates `PricedAsTape` with it in five steps (`Trade`, `Trade`, `Load`,
   `Advance`, `ProtectWaiting`; prices 8, 9, 10, stop distance 4). In a second form the trade in the very
   millisecond of the entry is missed: the tape sets the stop with it and ends at 8, the reconstruction does not
   count it and stays open. With `FirstPriceAbove` as a premise the same instance has no violation in its
   449 870 states.

Also met, without a run of their own: `README.md:123` says that orders are cancelled on pause; only the
entry loop cancels them, so a quick RESUME keeps the order. The number of attempts of a validation run
is not limited. The data set of analytics is read by two queries outside a transaction.

## What is not modelled

* `recordFailure`, `clearRecoveredCursor`; command receipts of deployments; segment metadata of the
  journal (`recordStream`, `closeStream`).
* Four hazards have no property (`PROJECT.json` says why): the order of locks across repositories, a
  manual status change against a run that starts, the save lost between two statements, and the
  receipt of a manual close, which is proved only. Membership races of createWorkspace and
  acceptInvitation are modelled without a property.
* Candle gap reconciliation, latency bookkeeping, the replay of prices before an exit's trigger.
* Indicator arithmetic (also that of a decision's frame), the summary over many replays, research
  studies, annual backtests: numeric and sequential.
* Routes' schemas and error texts, `packages/contracts`, the Bybit client's parsing, the dashboard
  besides settings, playbooks and feeds, migration scripts: I/O.

## Plan

Done: all modules above, their runs, and the proofs of 31 of the 40 properties the runs check. Left:

1. Further abstract specifications: the exit of `LiquidityExit` as what `AdvanceExit` of
   `RuntimeLedger` promises.

## Running the checks

    tlc -workers 2 -config MCLedger_restart.cfg MCLedger
    tlapm PriceJournal_proofs.tla

A configuration `MC<module>_<run>.cfg` belongs to the module `MC<module>`. The longest runs take about
three minutes; a proof module up to about ten, `Operations_proofs` up to fifteen.
