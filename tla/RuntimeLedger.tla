---------------------------- MODULE RuntimeLedger ----------------------------
(***************************************************************************)
(* The durable state of one dry-run deployment: its execution runs, the    *)
(* candle cursor of every (run, symbol), the entry order a pending signal  *)
(* has placed, the position it became and the trade that closed it.        *)
(*                                                                         *)
(* Every write of RuntimeRepository is one PostgreSQL transaction that     *)
(* first takes the advisory lock `runtime:{run}`, so a transaction is one  *)
(* action here.  What is not atomic is the worker: each of its loops loads *)
(* a row, computes outside the database, and later presents what it saw as *)
(* the expectation of a compare-and-set.  `snap` holds what each loop saw; *)
(* every other actor may act in between.                                   *)
(*                                                                         *)
(* Prices, sizes and times are abstracted: a price event is its position   *)
(* in the journal of its symbol together with the stream that delivered    *)
(* it, a signal is named by the candle that raised it, and the clock is    *)
(* only what it decides, whether the signal has expired.                   *)
(***************************************************************************)
EXTENDS Naturals, FiniteSets, Sequences

CONSTANTS
  MaxRun,            \* execution runs are numbered 1..MaxRun in START order
  Symbols,           \* symbols of the strategy universe
  MaxCandle,         \* closed candles are numbered 1..MaxCandle
  MaxEvent,          \* bound: price events per symbol
  MaxStop,           \* protection levels of a position, 0 is the initial stop
  MaxVersion,        \* bound: versions of a position a worker may produce
  MaxOpenPositions,  \* strategyConfig.risk.maxOpenPositions
  LiquidityRuns,     \* runs whose pinned policy exits through the order book
  CycleLanes,        \* the loops that run processRuntimeTarget
  EntryLanes,        \* the loops that run processRealtimeEntry
  PositionLanes,     \* the quote loop and the protection loop
  CommandKeys        \* idempotency keys of manual close commands

ASSUME LedgerAssumption ==
  /\ IsFiniteSet(Symbols)
  /\ MaxRun \in Nat /\ MaxCandle \in Nat /\ MaxEvent \in Nat
  /\ MaxStop \in Nat /\ MaxVersion \in Nat /\ MaxOpenPositions \in Nat
  /\ LiquidityRuns \subseteq 1..MaxRun
  /\ CycleLanes \cap EntryLanes = {}
  /\ CycleLanes \cap PositionLanes = {}
  /\ EntryLanes \cap PositionLanes = {}

Runs == 1..MaxRun
Candles == 1..MaxCandle
Signals == Runs \X Symbols \X Candles   \* signalId: run, symbol, signal candle
Lanes == CycleLanes \cup EntryLanes \cup PositionLanes

VARIABLES
  deployment,  \* Deployment.status
  runStatus,   \* ExecutionRun.status per run
  journal,     \* per symbol, the stream of every MarketPriceEvent in id order
  cursor,      \* RuntimeCursor row per (run, symbol)
  order,       \* the entry Order row of each signal
  position,    \* the Position row of each signal
  trades,      \* number of Trade rows of the signal's position
  observed,    \* signals stored as pending (AuditEvent runtime.signal.observed)
  ended,       \* number of terminal decisions (FILLED/REJECTED/EXPIRED) per signal
  late,        \* signals whose expiresAt has passed
  receipts,    \* CommandReceipt per idempotency key: the signal it closed
  snap         \* what each worker loop loaded last

vars == <<deployment, runStatus, journal, cursor, order, position, trades,
          observed, ended, late, receipts, snap>>

DeploymentStatus == {"READY", "RUNNING", "PAUSED", "STOPPED"}
RunStatus == {"ABSENT", "RUNNING", "COMPLETED"}
PendingState == {"NONE", "SIGNAL", "ORDERED"}
Cursor == [evaluated : Nat, pending : PendingState, event : Nat]
Order == [status : {"ABSENT", "OPEN", "FILLED", "CANCELLED"}, submit : Nat, fill : Nat]
Position == [status : {"ABSENT", "OPEN", "CLOSED"}, exiting : BOOLEAN,
             version : Nat, event : Nat, stop : Nat]

NoReceipt == <<>>
Idle == [lane |-> "idle"]
CycleSnap == [lane : {"cycle"}, run : Runs, symbol : Symbols,
              status : {"RUNNING", "PAUSED"}, evaluated : Nat]
EntrySnap == [lane : {"entry"}, run : Runs, symbol : Symbols,
              candle : Candles, event : Nat, ordered : BOOLEAN]
PositionSnap == [lane : {"position"}, run : Runs, symbol : Symbols,
                 candle : Candles, row : Position]

(***************************************************************************)
(* State functions.  A definition whose name carries a suffix (Name_Defect)*)
(* is not part of the model: it is Name with a plausible bug, and replaces *)
(* Name only to show that a property would notice.                         *)
(***************************************************************************)
Managed(r) == runStatus[r] = "RUNNING" /\ deployment \in {"RUNNING", "PAUSED"}
EntriesAllowed_ByDeployment(r) == deployment = "RUNNING"
EntriesAllowed(r) == runStatus[r] = "RUNNING" /\ deployment = "RUNNING"
IsOpen(r, s, c) == position[<<r, s, c>>].status = "OPEN"
HasOpen(r, s) == \E c \in Candles : IsOpen(r, s, c)
OpenOf(r) == {k \in Signals : k[1] = r /\ position[k].status = "OPEN"}
IsPending(r, s, c) == cursor[<<r, s>>].pending # "NONE" /\ cursor[<<r, s>>].evaluated = c
LastEvent(s) == Len(journal[s])
IsFlat(r) == OpenOf(r) = {}
SymbolFree_Unchecked(r, s) == TRUE
SymbolFree(r, s) == ~HasOpen(r, s)
CapacityLeft_OffByOne(r) == Cardinality(OpenOf(r)) <= MaxOpenPositions
CapacityLeft(r) == Cardinality(OpenOf(r)) < MaxOpenPositions
EventsAfter(s, e) == {i \in 1..MaxEvent : e < i /\ i <= Len(journal[s])}

TypeOK ==
  /\ deployment \in DeploymentStatus
  /\ runStatus \in [Runs -> RunStatus]
  /\ journal \in [Symbols -> Seq(Nat)]
  /\ cursor \in [Runs \X Symbols -> Cursor]
  /\ \A l \in Runs \X Symbols : cursor[l].pending # "NONE" => cursor[l].evaluated \in Candles
  /\ order \in [Signals -> Order]
  /\ position \in [Signals -> Position]
  /\ trades \in [Signals -> Nat]
  /\ observed \subseteq Signals
  /\ ended \in [Signals -> Nat]
  /\ late \subseteq Signals
  /\ receipts \in [CommandKeys -> Signals \cup {NoReceipt}]
  /\ snap \in [Lanes -> {Idle} \cup CycleSnap \cup EntrySnap \cup PositionSnap]

CursorAt(c, pending, e) == [evaluated |-> c, pending |-> pending, event |-> e]
OrderRow(status, submit, fill) == [status |-> status, submit |-> submit, fill |-> fill]
PositionRow(status, exiting, version, e, stop) ==
  [status |-> status, exiting |-> exiting, version |-> version, event |-> e, stop |-> stop]

NoOrder == OrderRow("ABSENT", 0, 0)
NoPosition == PositionRow("ABSENT", FALSE, 0, 0, 0)

Init ==
  /\ deployment = "READY"
  /\ runStatus = [r \in Runs |-> "ABSENT"]
  /\ journal = [s \in Symbols |-> <<>>]
  /\ cursor = [l \in Runs \X Symbols |-> CursorAt(0, "NONE", 0)]
  /\ order = [k \in Signals |-> NoOrder]
  /\ position = [k \in Signals |-> NoPosition]
  /\ trades = [k \in Signals |-> 0]
  /\ observed = {}
  /\ ended = [k \in Signals |-> 0]
  /\ late = {}
  /\ receipts = [k \in CommandKeys |-> NoReceipt]
  /\ snap = [w \in Lanes |-> Idle]

(***************************************************************************)
(* Deployment commands.  STOP is refused while the run has an open         *)
(* position; a waiting entry order does not stand in its way.              *)
(***************************************************************************)
StartAllowed == deployment \in {"READY", "STOPPED"}

Start(r) ==
  /\ StartAllowed
  /\ runStatus[r] = "ABSENT"
  /\ \A q \in Runs : q < r => runStatus[q] # "ABSENT"
  /\ deployment' = "RUNNING"
  /\ runStatus' = [runStatus EXCEPT ![r] = "RUNNING"]
  /\ UNCHANGED <<journal, cursor, order, position, trades, observed, ended, late, receipts, snap>>

Pause ==
  /\ deployment = "RUNNING"
  /\ \E r \in Runs : runStatus[r] = "RUNNING"
  /\ deployment' = "PAUSED"
  /\ UNCHANGED <<runStatus, journal, cursor, order, position, trades, observed, ended, late,
                 receipts, snap>>

Resume ==
  /\ deployment = "PAUSED"
  /\ \E r \in Runs : runStatus[r] = "RUNNING"
  /\ deployment' = "RUNNING"
  /\ UNCHANGED <<runStatus, journal, cursor, order, position, trades, observed, ended, late,
                 receipts, snap>>

Stop(r) ==
  /\ deployment \in {"RUNNING", "PAUSED"}
  /\ runStatus[r] = "RUNNING"
  /\ IsFlat(r)
  /\ deployment' = "STOPPED"
  /\ runStatus' = [runStatus EXCEPT ![r] = "COMPLETED"]
  /\ UNCHANGED <<journal, cursor, order, position, trades, observed, ended, late, receipts, snap>>

(***************************************************************************)
(* The world outside: a trade reaches the journal, possibly as the first   *)
(* of a new stream session, and the deadline of a pending signal passes.   *)
(***************************************************************************)
ReceiveEvent(s, reconnected) ==
  /\ Len(journal[s]) < MaxEvent
  /\ journal' = [journal EXCEPT ![s] =
       Append(@, (IF @ = <<>> THEN 0 ELSE @[Len(@)]) + (IF reconnected THEN 1 ELSE 0))]
  /\ UNCHANGED <<deployment, runStatus, cursor, order, position, trades, observed, ended, late,
                 receipts, snap>>

Expire(r, s, c) ==
  /\ IsPending(r, s, c) \/ order[<<r, s, c>>].status = "OPEN"
  /\ <<r, s, c>> \notin late
  /\ late' = late \cup {<<r, s, c>>}
  /\ UNCHANGED <<deployment, runStatus, journal, cursor, order, position, trades, observed, ended,
                 receipts, snap>>

(***************************************************************************)
(* The candle loop.  It leaves a symbol with an open position alone, so    *)
(* what it commits is the evaluation of a candle, with or without a new    *)
(* pending signal.  The signal the cursor still held is finished first.    *)
(***************************************************************************)
LoadCycle(w, r, s) ==
  /\ Managed(r)
  /\ ~HasOpen(r, s)
  /\ snap' = [snap EXCEPT ![w] = [lane |-> "cycle", run |-> r, symbol |-> s,
                                  status |-> deployment, evaluated |-> cursor[<<r, s>>].evaluated]]
  /\ UNCHANGED <<deployment, runStatus, journal, cursor, order, position, trades, observed, ended,
                 late, receipts>>

CancelIfOpen(o) == IF o.status = "OPEN" THEN OrderRow("CANCELLED", o.submit, o.fill) ELSE o

FinishPrevious(r, s) ==
  LET k == <<r, s, cursor[<<r, s>>].evaluated>> IN
  IF cursor[<<r, s>>].pending = "NONE" THEN UNCHANGED <<order, ended>>
  ELSE /\ order' = [order EXCEPT ![k] = CancelIfOpen(@)]
       /\ ended' = [ended EXCEPT ![k] = @ + 1]

PersistCycle(w, c, detected) ==
  LET q == snap[w]  r == q.run  s == q.symbol IN
  /\ q.lane = "cycle"
  /\ deployment = q.status
  /\ runStatus[r] = "RUNNING"
  /\ cursor[<<r, s>>].evaluated = q.evaluated
  /\ c > q.evaluated
  /\ SymbolFree(r, s)
  /\ detected => EntriesAllowed(r)
  /\ FinishPrevious(r, s)
  /\ cursor' = [cursor EXCEPT ![<<r, s>>] = CursorAt(c, IF detected THEN "SIGNAL" ELSE "NONE", 0)]
  /\ observed' = IF detected THEN observed \cup {<<r, s, c>>} ELSE observed
  /\ snap' = [snap EXCEPT ![w] = Idle]
  /\ UNCHANGED <<deployment, runStatus, journal, position, trades, late, receipts>>

(***************************************************************************)
(* The entry loop: submit an order for the pending signal, fill it, or     *)
(* move the cursor past the events that did not, ending the signal when it *)
(* has expired or was rejected.                                            *)
(***************************************************************************)
LoadEntry(w, r, s) ==
  /\ EntriesAllowed(r)
  /\ cursor[<<r, s>>].pending # "NONE"
  /\ snap' = [snap EXCEPT ![w] =
       [lane |-> "entry", run |-> r, symbol |-> s, candle |-> cursor[<<r, s>>].evaluated,
        event |-> cursor[<<r, s>>].event, ordered |-> cursor[<<r, s>>].pending = "ORDERED"]]
  /\ UNCHANGED <<deployment, runStatus, journal, cursor, order, position, trades, observed, ended,
                 late, receipts>>

CursorAsLoaded_EvenIfFinished(q) ==
  cursor[<<q.run, q.symbol>>].evaluated = q.candle
CursorAsLoaded(q) ==
  LET row == cursor[<<q.run, q.symbol>>] IN
  row.pending # "NONE" /\ row.evaluated = q.candle /\ row.event = q.event

SubmitEntryOrder(w, e, crosses) ==
  LET q == snap[w]  r == q.run  s == q.symbol  c == q.candle IN
  /\ q.lane = "entry" /\ ~q.ordered
  /\ CursorAsLoaded(q)
  /\ cursor[<<r, s>>].pending = "SIGNAL"
  /\ e \in EventsAfter(s, q.event)
  /\ EntriesAllowed(r)
  /\ <<r, s, c>> \notin late
  /\ SymbolFree(r, s)
  /\ order' = [order EXCEPT ![<<r, s, c>>] =
                  OrderRow(IF crosses THEN "CANCELLED" ELSE "OPEN", e, 0)]
  /\ cursor' = [cursor EXCEPT ![<<r, s>>] = CursorAt(c, IF crosses THEN "NONE" ELSE "ORDERED", e)]
  /\ ended' = IF crosses THEN [ended EXCEPT ![<<r, s, c>>] = @ + 1] ELSE ended
  /\ snap' = [snap EXCEPT ![w] = Idle]
  /\ UNCHANGED <<deployment, runStatus, journal, position, trades, observed, late, receipts>>

(* A stop or target the fill itself has crossed is acted on at once: an    *)
(* order-book run latches the exit, the others close in the transaction.   *)
FilledPosition(r, e, crossed) ==
  LET latched == crossed /\ r \in LiquidityRuns IN
  PositionRow(IF crossed /\ ~latched THEN "CLOSED" ELSE "OPEN", latched,
              IF latched THEN 1 ELSE 0, e, 0)

FillableEvent_AnyStream(k, e) ==
  order[k].status = "OPEN" /\ e > order[k].submit
FillableEvent(k, e) ==
  /\ order[k].status = "OPEN"
  /\ e > order[k].submit
  /\ journal[k[2]][e] = journal[k[2]][order[k].submit]
  /\ journal[k[2]][e] = journal[k[2]][LastEvent(k[2])]

FillEntry(w, e, crossed) ==
  LET q == snap[w]  r == q.run  s == q.symbol  c == q.candle IN
  /\ q.lane = "entry" /\ q.ordered
  /\ CursorAsLoaded(q)
  /\ EntriesAllowed(r)
  /\ e \in EventsAfter(s, q.event)
  /\ SymbolFree(r, s)
  /\ <<r, s, c>> \notin late
  /\ FillableEvent(<<r, s, c>>, e)
  /\ CapacityLeft(r)
  /\ order' = [order EXCEPT ![<<r, s, c>>] = OrderRow("FILLED", @.submit, e)]
  /\ position' = [position EXCEPT ![<<r, s, c>>] = FilledPosition(r, e, crossed)]
  /\ trades' = IF FilledPosition(r, e, crossed).status = "CLOSED"
               THEN [trades EXCEPT ![<<r, s, c>>] = @ + 1] ELSE trades
  /\ ended' = [ended EXCEPT ![<<r, s, c>>] = @ + 1]
  /\ cursor' = [cursor EXCEPT ![<<r, s>>] = CursorAt(c, "NONE", e)]
  /\ snap' = [snap EXCEPT ![w] = Idle]
  /\ UNCHANGED <<deployment, runStatus, journal, observed, late, receipts>>

(* The deadline ends a signal even when no further price event arrives.    *)
EntryOver_OnEventOnly(k, rejected, e, seen) == rejected \/ (k \in late /\ e # seen)
EntryOver(k, rejected, e, seen) == rejected \/ k \in late

AdvancePendingEntry(w, e, rejected) ==
  LET q == snap[w]  r == q.run  s == q.symbol  c == q.candle
      over == EntryOver(<<r, s, c>>, rejected, e, q.event) IN
  /\ q.lane = "entry"
  /\ CursorAsLoaded(q)
  /\ EntriesAllowed(r)
  /\ e \in {q.event} \cup EventsAfter(s, q.event)
  /\ over \/ e # q.event
  /\ cursor' = [cursor EXCEPT ![<<r, s>>] = CursorAt(c, IF over THEN "NONE" ELSE @.pending, e)]
  /\ IF over
     THEN /\ order' = [order EXCEPT ![<<r, s, c>>] = CancelIfOpen(@)]
          /\ ended' = [ended EXCEPT ![<<r, s, c>>] = @ + 1]
     ELSE UNCHANGED <<order, ended>>
  /\ snap' = [snap EXCEPT ![w] = Idle]
  /\ UNCHANGED <<deployment, runStatus, journal, position, trades, observed, late, receipts>>

(* cancelInactiveEntryOrders: the candidate is rechecked under the run's   *)
(* lock, and the cursor is cleared only if it still names this order.      *)
Inactive(r, s, c) == <<r, s, c>> \in late \/ ~EntriesAllowed(r)

CancelInactiveOrder(r, s, c) ==
  LET owner == cursor[<<r, s>>].pending = "ORDERED" /\ cursor[<<r, s>>].evaluated = c IN
  /\ order[<<r, s, c>>].status = "OPEN"
  /\ Inactive(r, s, c)
  /\ order' = [order EXCEPT ![<<r, s, c>>] = CancelIfOpen(@)]
  /\ cursor' = IF owner THEN [cursor EXCEPT ![<<r, s>>] = CursorAt(c, "NONE", @.event)]
             ELSE cursor
  /\ ended' = IF owner THEN [ended EXCEPT ![<<r, s, c>>] = @ + 1] ELSE ended
  /\ UNCHANGED <<deployment, runStatus, journal, position, trades, observed, late, receipts, snap>>

(***************************************************************************)
(* The position lanes.  Every write carries the runtimeVersion the lane    *)
(* loaded; a lane that has checkpointed goes on with its own new version.  *)
(***************************************************************************)
LoadPosition(w, r, s, c) ==
  /\ Managed(r)
  /\ IsOpen(r, s, c)
  /\ snap' = [snap EXCEPT ![w] = [lane |-> "position", run |-> r, symbol |-> s, candle |-> c,
                                  row |-> position[<<r, s, c>>]]]
  /\ UNCHANGED <<deployment, runStatus, journal, cursor, order, position, trades, observed, ended,
                 late, receipts>>

VersionAsLoaded_AnyVersion(q) == IsOpen(q.run, q.symbol, q.candle)
VersionAsLoaded_EvenIfClosed(q) == position[<<q.run, q.symbol, q.candle>>].version = q.row.version
VersionAsLoaded(q) ==
  LET row == position[<<q.run, q.symbol, q.candle>>] IN
  row.status = "OPEN" /\ row.version = q.row.version

(* A checkpoint of the price events after the loaded row: the protection   *)
(* computed from that row may tighten the stop and never loosens it.       *)
UpdatePosition(w, e, stop) ==
  LET q == snap[w]  r == q.run  s == q.symbol  c == q.candle
      row == PositionRow("OPEN", FALSE, q.row.version + 1, e, stop) IN
  /\ q.lane = "position" /\ ~q.row.exiting
  /\ VersionAsLoaded(q)
  /\ Managed(r)
  /\ q.row.version < MaxVersion
  /\ e \in EventsAfter(s, q.row.event)
  /\ stop >= q.row.stop
  /\ position' = [position EXCEPT ![<<r, s, c>>] =
                    PositionRow(@.status, @.exiting, @.version + 1, e, stop)]
  /\ snap' = [snap EXCEPT ![w] = [lane |-> "position", run |-> r, symbol |-> s, candle |-> c,
                                  row |-> row]]
  /\ UNCHANGED <<deployment, runStatus, journal, cursor, order, trades, observed, ended, late,
                 receipts>>

(* A stop, target, signal, holding limit or risk guard closes the position *)
(* on an event the loaded row has not passed; an order-book run latches    *)
(* the exit instead and leaves the position open.                          *)
ExitPosition(w, e) ==
  LET q == snap[w]  r == q.run  s == q.symbol  c == q.candle IN
  /\ q.lane = "position" /\ ~q.row.exiting
  /\ VersionAsLoaded(q)
  /\ Managed(r)
  /\ e \in {q.row.event} \cup EventsAfter(s, q.row.event)
  /\ position' = [position EXCEPT ![<<r, s, c>>] =
                    PositionRow(IF r \in LiquidityRuns THEN @.status ELSE "CLOSED",
                                r \in LiquidityRuns, @.version + 1, e, @.stop)]
  /\ trades' = IF r \in LiquidityRuns THEN trades ELSE [trades EXCEPT ![<<r, s, c>>] = @ + 1]
  /\ snap' = [snap EXCEPT ![w] = Idle]
  /\ UNCHANGED <<deployment, runStatus, journal, cursor, order, observed, ended, late, receipts>>

AfterExitStep_PriceReturned(row, e, done) ==
  PositionRow(IF done THEN "CLOSED" ELSE row.status, done, row.version + 1, e, row.stop)
AfterExitStep(row, e, done) ==
  PositionRow(IF done THEN "CLOSED" ELSE row.status, row.exiting, row.version + 1, e, row.stop)

(* One step of a latched exit: place, scan, fill or cancel an IOC order,   *)
(* and, when the whole quantity has left, close with its trade.            *)
AdvanceExit(w, e, done) ==
  LET q == snap[w]  r == q.run  s == q.symbol  c == q.candle IN
  /\ q.lane = "position" /\ q.row.exiting
  /\ VersionAsLoaded(q)
  /\ Managed(r)
  /\ q.row.version < MaxVersion \/ done
  /\ e \in {q.row.event} \cup EventsAfter(s, q.row.event)
  /\ position' = [position EXCEPT ![<<r, s, c>>] = AfterExitStep(@, e, done)]
  /\ trades' = IF done THEN [trades EXCEPT ![<<r, s, c>>] = @ + 1] ELSE trades
  /\ snap' = [snap EXCEPT ![w] = Idle]
  /\ UNCHANGED <<deployment, runStatus, journal, cursor, order, observed, ended, late, receipts>>

(***************************************************************************)
(* Manual close.  A key that already has a receipt is replayed or refused  *)
(* and changes nothing.  It carries no version: the row lock is enough.    *)
(***************************************************************************)
RequestManualExit(k, r, s, c) ==
  /\ receipts[k] = NoReceipt
  /\ r \in LiquidityRuns /\ IsOpen(r, s, c) /\ Managed(r)
  /\ position' = IF position[<<r, s, c>>].exiting THEN position
                 ELSE [position EXCEPT ![<<r, s, c>>] =
                         PositionRow(@.status, TRUE, @.version + 1, LastEvent(s), @.stop)]
  /\ receipts' = [receipts EXCEPT ![k] = <<r, s, c>>]
  /\ UNCHANGED <<deployment, runStatus, journal, cursor, order, trades, observed, ended, late,
                 snap>>

CloseManually(k, r, s, c) ==
  /\ receipts[k] = NoReceipt
  /\ r \notin LiquidityRuns /\ IsOpen(r, s, c) /\ Managed(r)
  /\ position' = [position EXCEPT ![<<r, s, c>>] =
                    PositionRow("CLOSED", @.exiting, @.version, @.event, @.stop)]
  /\ trades' = [trades EXCEPT ![<<r, s, c>>] = @ + 1]
  /\ receipts' = [receipts EXCEPT ![k] = <<r, s, c>>]
  /\ UNCHANGED <<deployment, runStatus, journal, cursor, order, observed, ended, late, snap>>

(***************************************************************************)
(* The specification.                                                      *)
(***************************************************************************)
Commands ==
  \/ Pause
  \/ Resume
  \/ \E r \in Runs : Start(r) \/ Stop(r)
  \/ \E k \in CommandKeys, r \in Runs, s \in Symbols, c \in Candles :
       RequestManualExit(k, r, s, c) \/ CloseManually(k, r, s, c)

World ==
  \/ \E s \in Symbols, reconnected \in BOOLEAN : ReceiveEvent(s, reconnected)
  \/ \E r \in Runs, s \in Symbols, c \in Candles : Expire(r, s, c)

CycleStep(w) ==
  \/ \E r \in Runs, s \in Symbols : LoadCycle(w, r, s)
  \/ \E c \in Candles, detected \in BOOLEAN : PersistCycle(w, c, detected)

EntryStep(w) ==
  \/ \E r \in Runs, s \in Symbols : LoadEntry(w, r, s)
  \/ \E e \in 0..MaxEvent, flag \in BOOLEAN :
       SubmitEntryOrder(w, e, flag) \/ FillEntry(w, e, flag) \/ AdvancePendingEntry(w, e, flag)

CancelStep == \E r \in Runs, s \in Symbols, c \in Candles : CancelInactiveOrder(r, s, c)

PositionStep(w) ==
  \/ \E r \in Runs, s \in Symbols, c \in Candles : LoadPosition(w, r, s, c)
  \/ \E e \in 0..MaxEvent, stop \in 0..MaxStop : UpdatePosition(w, e, stop)
  \/ \E e \in 0..MaxEvent : ExitPosition(w, e)
  \/ \E e \in 0..MaxEvent, done \in BOOLEAN : AdvanceExit(w, e, done)

Next ==
  \/ Commands
  \/ World
  \/ CancelStep
  \/ \E w \in CycleLanes : CycleStep(w)
  \/ \E w \in EntryLanes : EntryStep(w)
  \/ \E w \in PositionLanes : PositionStep(w)

Spec == Init /\ [][Next]_vars

(* The entry loop never stops polling: every turn cancels what has become  *)
(* inactive and then visits every pending signal.                          *)
Fairness ==
  /\ WF_vars(CancelStep)
  /\ \A w \in EntryLanes :
       /\ WF_vars(\E r \in Runs, s \in Symbols : LoadEntry(w, r, s))
       /\ WF_vars(\E e \in 0..MaxEvent : AdvancePendingEntry(w, e, FALSE))

FairSpec == Spec /\ Fairness

(***************************************************************************)
(* Safety.                                                                 *)
(***************************************************************************)

(* A symbol of a run is claimed at most once: by its pending signal or by  *)
(* one open position, never by two positions nor by a signal that could    *)
(* still fill beside an open position.                                     *)
OneClaimPerSymbol == \A r \in Runs, s \in Symbols :
  /\ \A c, d \in Candles : IsOpen(r, s, c) /\ IsOpen(r, s, d) => c = d
  /\ HasOpen(r, s) => cursor[<<r, s>>].pending = "NONE"

(* Every stored signal is still pending in its cursor, or exactly one      *)
(* terminal decision was written for it; nothing else was ever decided.    *)
(* Submission, fill, rejection, expiry, replacement and cancellation race. *)
SignalAccounted == \A r \in Runs, s \in Symbols, c \in Candles :
  ended[<<r, s, c>>] = IF <<r, s, c>> \in observed /\ ~IsPending(r, s, c) THEN 1 ELSE 0

(* An entry order is open exactly as long as the cursor's pending signal   *)
(* carries its id: no orphan order can fill, no signal waits for a dead    *)
(* order.                                                                  *)
OpenOrderIsPending == \A r \in Runs, s \in Symbols, c \in Candles :
  order[<<r, s, c>>].status = "OPEN"
    <=> cursor[<<r, s>>].pending = "ORDERED" /\ cursor[<<r, s>>].evaluated = c

(* A position exists exactly for an order that filled, on an event after   *)
(* the submission and of the same stream session.                          *)
PositionBackedByFill == \A r \in Runs, s \in Symbols, c \in Candles :
  LET o == order[<<r, s, c>>] IN
  /\ position[<<r, s, c>>].status # "ABSENT" <=> o.status = "FILLED"
  /\ o.status = "FILLED" => /\ o.submit < o.fill
                            /\ journal[s][o.submit] = journal[s][o.fill]

(* A run that is not RUNNING holds no open position: STOP looks, a fill    *)
(* already decided outside the transaction must not slip in behind it.     *)
StoppedRunIsFlat == \A r \in Runs : runStatus[r] # "RUNNING" => IsFlat(r)

(* A position has its one trade when it is closed and none before, however *)
(* many lanes, retries and operators try to close it.                      *)
TradeIffClosed == \A k \in Signals :
  trades[k] = IF position[k].status = "CLOSED" THEN 1 ELSE 0

(* The strategy's limit on open positions holds across symbols whose       *)
(* fills were decided independently.                                       *)
CapacityRespected == \A r \in Runs : Cardinality(OpenOf(r)) <= MaxOpenPositions

(* A receipt of a manual close names a position whose close is done or     *)
(* irrevocably requested.                                                  *)
ReceiptBacked == \A k \in CommandKeys : receipts[k] # NoReceipt =>
  position[receipts[k]].status = "CLOSED" \/ position[receipts[k]].exiting

(***************************************************************************)
(* Action properties.                                                      *)
(***************************************************************************)

(* A late handler cannot weaken protection: of a live position the stop    *)
(* and the processed event never go back, the version moves with every     *)
(* change of them, a latched exit stays latched and a closed row is final. *)
RowAdvances(old, new) ==
  /\ old.event <= new.event
  /\ old.stop <= new.stop
  /\ old.exiting => new.exiting
  /\ \/ new.version = old.version + 1
     \/ new = old
     \/ new = PositionRow("CLOSED", old.exiting, old.version, old.event, old.stop)  \* by hand
ProtectionNeverLoosens ==
  [][\A k \in Signals :
       /\ position[k].status = "OPEN" => RowAdvances(position[k], position'[k])
       /\ position[k].status = "CLOSED" => position'[k] = position[k]]_vars

(***************************************************************************)
(* The ledger implements the lifecycle of a signal.                        *)
(***************************************************************************)
WaitingStage(k) ==
  IF IsPending(k[1], k[2], k[3])
  THEN IF cursor[<<k[1], k[2]>>].pending = "ORDERED" THEN "ordered" ELSE "pending"
  ELSE IF ended[k] > 0 THEN "ended" ELSE "unseen"

HeldStage(row) ==
  IF row.status = "CLOSED" THEN "closed" ELSE IF row.exiting THEN "exiting" ELSE "open"

StageOf(k) == IF position[k].status = "ABSENT" THEN WaitingStage(k) ELSE HeldStage(position[k])

Life == INSTANCE SignalLifecycle WITH
  Capacity <- MaxOpenPositions,
  stage <- [k \in Signals |-> StageOf(k)],
  traded <- {k \in Signals : trades[k] > 0},
  active <- {r \in Runs : runStatus[r] = "RUNNING"},
  finished <- {r \in Runs : runStatus[r] = "COMPLETED"}

(* Every behaviour of the ledger is, seen through its rows, a behaviour of *)
(* the lifecycle: no signal skips a stage, goes back, or trades twice.     *)
ImplementsLifecycle == Life!LifeSpec

(***************************************************************************)
(* Liveness.                                                               *)
(***************************************************************************)

(* An order whose signal expired, or whose run was stopped, is eventually  *)
(* terminal: nothing later can fill it.                                    *)
InactiveOrderEnds == \A r \in Runs, s \in Symbols, c \in Candles :
  order[<<r, s, c>>].status = "OPEN" /\ (<<r, s, c>> \in late \/ runStatus[r] = "COMPLETED")
    ~> order[<<r, s, c>>].status # "OPEN"

(* A pending signal that has expired is eventually decided, unless the     *)
(* deployment leaves RUNNING.                                              *)
ExpiredSignalIsDecided == \A r \in Runs, s \in Symbols, c \in Candles :
  IsPending(r, s, c) /\ <<r, s, c>> \in late
    ~> ended[<<r, s, c>>] = 1 \/ deployment # "RUNNING"

(* Neither an order nor a signal stays undecided for ever, though no price *)
(* event may arrive any more (refreshPending, cancelInactiveEntryOrders).  *)
EntriesEnd == InactiveOrderEnds /\ ExpiredSignalIsDecided
=============================================================================
