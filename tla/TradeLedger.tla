----------------------------- MODULE TradeLedger -----------------------------
(***************************************************************************)
(* The rows that the trades of one exchange account leave behind: orders,  *)
(* fills with the receipts of the liquidity they took, positions, OPEN and *)
(* CLOSE decisions, trades.  Each row is checked afterwards, from the rows *)
(* alone, by scripts/verify-execution-ledger.ts and by auditClosedTrade:   *)
(* every fill is evaluated again on the price event it names.              *)
(*                                                                         *)
(* The runs trade the same symbol, so they take from the same books and    *)
(* the same public trades.  Every writer holds the workspace's risk lock,  *)
(* so a transaction is one action; what races is which of them commits     *)
(* first, how old the events are that they work on, and the clock, which   *)
(* may also pass a tick inside a transaction.                              *)
(*                                                                         *)
(* Positions are long.  Prices are left out: a Buy trade reaches the ask,  *)
(* a Sell trade the bid and every resting buy order; whether a protection  *)
(* is reached is any choice.  Money is AccountBooks', funding and the      *)
(* replay of the exit's trace are LiquidityExit's and ExitReplay's, the    *)
(* cursor with its candles is RuntimeLedger's.                             *)
(***************************************************************************)
EXTENDS Integers, Sequences, FiniteSetsExt, Functions

CONSTANTS
  AccountRuns,        \* execution runs of the account, one entry signal each
  Market,      \* runs that enter at market (IOC); the others rest a PostOnly order
  ByBook,      \* runs whose exit policy is l1-ioc@1; the others close whole
  Wanted,      \* quantity of an entry order
  Depth,       \* quantity on either side of a book
  Size,        \* quantity of a public trade
  MakerShare,  \* what of it a resting order may take (makerParticipationBps)
  EntryTtl,    \* from detectedAt to expiresAt of a signal
  ExitTtl,     \* exit policy orderTtlMs
  BookAge,     \* maximumBookAgeMs
  MaxTick,     \* bound: price events
  MaxClock     \* bound: the clock

TradeAssumption ==
  /\ Market \subseteq AccountRuns /\ ByBook \subseteq AccountRuns
  /\ {Wanted, Depth, Size, MakerShare, EntryTtl, ExitTtl, BookAge} \subseteq Nat \ {0}
  /\ MaxTick \in Nat \ {0} /\ MaxClock \in Nat

ASSUME TradeParameters == TradeAssumption

VARIABLES
  clock,      \* the database clock
  ticks,      \* MarketPriceEvent rows of the symbol
  signals,    \* RuntimeCursor.pendingSignal of a run, and its recorded SIGNAL event
  orders,     \* Order rows with their execution snapshot and terminal
  fills,      \* Fill rows with their receipt
  positions,  \* the Position row of a run
  decisions,  \* OPEN decisions (decidedAt) and number of CLOSE decisions of a run
  booked      \* Trade rows of a run

tradeVars == <<clock, ticks, signals, orders, fills, positions, decisions, booked>>

Events == 1..Len(ticks)
LastTick == Len(ticks)
NoHolding == [status |-> "NONE", quantity |-> 0, remaining |-> 0, openedAt |-> 0,
               closedAt |-> 0, event |-> 0, requested |-> FALSE, order |-> 0]

(* The first event carries the first book.                                 *)
TradeInit ==
  /\ clock = 0
  /\ ticks = <<[at |-> 0, received |-> 0, stream |-> 1, book |-> 1, bookAt |-> 0,
                taker |-> "none"]>>
  /\ signals = [r \in AccountRuns |-> [status |-> "none", detected |-> 0, decided |-> 0,
                                event |-> 0, order |-> 0]]
  /\ orders = <<>>
  /\ fills = <<>>
  /\ positions = [r \in AccountRuns |-> NoHolding]
  /\ decisions = [r \in AccountRuns |-> [opens |-> <<>>, closes |-> 0]]
  /\ booked = [r \in AccountRuns |-> <<>>]

-----------------------------------------------------------------------------
(***************************************************************************)
(* The evaluation of an order on an event, shared by writers and verifiers.*)
(***************************************************************************)
Side(o) == IF o.kind = "entry" THEN "Buy" ELSE "Sell"

BookFresh(e) ==
  /\ ticks[e].book # 0
  /\ ticks[e].bookAt <= ticks[e].at
  /\ ticks[e].received - ticks[e].bookAt <= BookAge

Over(o, e) ==
  /\ e > o.event
  /\ \/ ticks[e].received >= o.expires
     \/ ticks[e].stream # o.stream

AfterSubmission(o, e) == e > o.event /\ ticks[e].at >= o.at

BookAfterSubmission(o, e) == ticks[e].bookAt >= o.at

Reached(o, e) ==
  IF o.tif = "IOC" THEN BookAfterSubmission(o, e) ELSE ticks[e].taker = "Sell"

(* A public trade may have taken from the book that its event still shows. *)
Capacity(o, e) ==
  CASE o.tif = "PostOnly" -> MakerShare
    [] o.tif = "IOC" -> Depth - (IF ticks[e].taker = Side(o) THEN Size ELSE 0)

Offered(o, e) ==
  ~Over(o, e) /\ AfterSubmission(o, e) /\ BookFresh(e) /\ Reached(o, e)

Available(o, e, consumed) == Min({o.quantity, Capacity(o, e) - consumed})

Evaluate(o, e, consumed) ==
  IF \/ Over(o, e)
     \/ /\ o.tif = "IOC" /\ AfterSubmission(o, e)
        /\ ~BookFresh(e) \/ (Reached(o, e) /\ Available(o, e, consumed) <= 0)
  THEN "cancel"
  ELSE IF Offered(o, e) /\ Available(o, e, consumed) > 0 THEN "fill" ELSE "wait"

SourceKey(o, e) ==
  IF o.tif = "PostOnly" THEN <<"trade", e, "Sell">>
  ELSE <<"book", <<ticks[e].stream, ticks[e].book>>, Side(o)>>

FromSource(key) ==
  {f \in 1..Len(fills) : /\ orders[fills[f].order].tif # "whole"
                         /\ SourceKey(orders[fills[f].order], fills[f].event) = key}

FillQuantities == [f \in 1..Len(fills) |-> fills[f].quantity]
Own(o, e) == SumFunctionOnSet(FillQuantities, FromSource(SourceKey(o, e)))
PublicConsumed(o, e) ==
  IF o.tif = "PostOnly" THEN 0
  ELSE Size * Cardinality({i \in (o.event + 1)..(e - 1) :
                             /\ ticks[i].stream = ticks[e].stream
                             /\ ticks[i].book = ticks[e].book
                             /\ ticks[i].at >= ticks[e].bookAt
                             /\ ticks[i].received <= ticks[e].received
                             /\ ticks[i].taker = Side(o)})

-----------------------------------------------------------------------------
(***************************************************************************)
(* The world: the clock, and trades with the book last known.  A trade may *)
(* be received a tick after it happened, with a book that is younger; its  *)
(* spread may be over the limit (book 0); block trades take nothing.       *)
(***************************************************************************)
Pass ==
  /\ clock < MaxClock
  /\ clock' = clock + 1
  /\ UNCHANGED <<ticks, signals, orders, fills, positions, decisions, booked>>

PriceEvent(taker, delay, book, reconnected) ==
  LET last == ticks[LastTick]
      kept == Max({i \in Events : ticks[i].book # 0})
  IN
  /\ LastTick < MaxTick
  /\ clock - delay >= last.at
  /\ ticks' = Append(ticks,
       [at |-> clock - delay, received |-> clock,
        stream |-> last.stream + (IF reconnected THEN 1 ELSE 0),
        book |-> CASE book = "none" -> 0
                   [] book = "same" -> ticks[kept].book
                   [] book = "new" -> ticks[kept].book + 1,
        bookAt |-> CASE book = "none" -> clock
                     [] book = "same" -> ticks[kept].bookAt
                     [] book = "new" -> clock,
        taker |-> taker])
  /\ UNCHANGED <<clock, signals, orders, fills, positions, decisions, booked>>

-----------------------------------------------------------------------------
(***************************************************************************)
(* The entry: a signal, its order, its end.                                *)
(***************************************************************************)
Detect(r, delay) ==
  /\ signals[r].status = "none"
  /\ delay <= clock
  /\ signals' = [signals EXCEPT ![r] = [@ EXCEPT !.status = "pending",
                                          !.detected = clock - delay, !.decided = clock]]
  /\ UNCHANGED <<clock, ticks, orders, fills, positions, decisions, booked>>

Expires(r) == signals[r].detected + EntryTtl
Usable(r, e) ==
  /\ signals[r].status = "pending"
  /\ e > signals[r].event
  /\ clock < Expires(r)
  /\ ticks[e].at >= signals[r].detected
  /\ positions[r].status = "NONE"

SubmitEntry(r, e, crosses) ==
  /\ Usable(r, e)
  /\ signals[r].order = 0
  /\ BookFresh(e)
  /\ clock - ticks[e].bookAt <= BookAge
  /\ crosses => r \notin Market
  /\ orders' = Append(orders,
       [run |-> r, kind |-> "entry", tif |-> IF r \in Market THEN "IOC" ELSE "PostOnly",
        quantity |-> Wanted, event |-> e, stream |-> ticks[e].stream, at |-> clock,
        expires |-> Expires(r), status |-> IF crosses THEN "CANCELLED" ELSE "OPEN",
        filled |-> 0, cancelled |-> IF crosses THEN Wanted ELSE 0])
  /\ signals' = [signals EXCEPT ![r].event = e, ![r].order = Len(orders) + 1,
                                ![r].status = IF crosses THEN "done" ELSE "pending"]
  /\ UNCHANGED <<clock, ticks, fills, positions, decisions, booked>>

Terminal(o, quantity) ==
  [o EXCEPT !.status = IF quantity = o.quantity THEN "FILLED" ELSE "CANCELLED",
            !.filled = quantity, !.cancelled = o.quantity - quantity]

(* A signal that expires or is rejected takes its order with it.           *)
RejectEntry(r) ==
  /\ signals[r].status = "pending"
  /\ signals' = [signals EXCEPT ![r].status = "done"]
  /\ orders' = IF signals[r].order = 0 THEN orders
               ELSE [orders EXCEPT ![signals[r].order] = Terminal(@, 0)]
  /\ UNCHANGED <<clock, ticks, fills, positions, decisions, booked>>

Receipt(id, o, e, quantity) ==
  [order |-> id, event |-> e, at |-> ticks[e].at, quantity |-> quantity,
   capacity |-> Capacity(o, e), own |-> Own(o, e), public |-> PublicConsumed(o, e)]

(* persistClosedPosition: an order that is filled as it is written.        *)
WholeOrder(r, e, quantity) ==
  [run |-> r, kind |-> "exit", tif |-> "whole", quantity |-> quantity, event |-> e,
   stream |-> ticks[e].stream, at |-> clock, expires |-> clock, status |-> "FILLED",
   filled |-> quantity, cancelled |-> 0]
WholeFill(id, e, quantity) ==
  [order |-> id, event |-> e, at |-> ticks[e].at, quantity |-> quantity,
   capacity |-> 0, own |-> 0, public |-> 0]
TradeOf(p) == [quantity |-> p.quantity, openedAt |-> p.openedAt, closedAt |-> p.closedAt]

RecentlyReceived(e) == clock - ticks[e].received <= BookAge
EntryLeft_AsOffered(o, e) == Available(o, e, PublicConsumed(o, e))
EntryLeft(o, e) == Available(o, e, Own(o, e) + PublicConsumed(o, e))

(* persistRealtimeEntry: the worker may have sized the position below what *)
(* the event offers, the rest is cancelled; a protection that the entry    *)
(* event itself reaches closes the position whole or requests its exit.    *)
EnterByFill(r, e, quantity, wait, hit) ==
  LET id == signals[r].order
      o == orders[id]
      whole == hit /\ r \notin ByBook
      entered == [status |-> IF whole THEN "CLOSED" ELSE "OPEN", quantity |-> quantity,
                  remaining |-> IF whole THEN 0 ELSE quantity, openedAt |-> ticks[e].at,
                  closedAt |-> IF whole THEN ticks[e].at ELSE 0, event |-> e,
                  requested |-> hit /\ r \in ByBook, order |-> 0]
  IN
  /\ Usable(r, e)
  /\ id # 0
  /\ o.status = "OPEN"
  /\ RecentlyReceived(e)
  /\ Offered(o, e)
  /\ ticks[e].stream = ticks[LastTick].stream
  /\ quantity <= EntryLeft(o, e)
  /\ clock + wait < Expires(r)
  /\ clock' = clock + wait
  /\ positions' = [positions EXCEPT ![r] = entered]
  /\ orders' = LET ended == [orders EXCEPT ![id] = Terminal(@, quantity)]
               IN IF whole THEN Append(ended, WholeOrder(r, e, quantity)) ELSE ended
  /\ fills' = fills \o <<Receipt(id, o, e, quantity)>>
                    \o (IF whole THEN <<WholeFill(Len(orders) + 1, e, quantity)>> ELSE <<>>)
  /\ decisions' = [decisions EXCEPT ![r].opens = Append(@, clock + wait),
                                    ![r].closes = @ + (IF whole THEN 1 ELSE 0)]
  /\ booked' = IF whole THEN [booked EXCEPT ![r] = Append(@, TradeOf(entered))] ELSE booked
  /\ signals' = [signals EXCEPT ![r].status = "done", ![r].event = e]
  /\ UNCHANGED ticks

-----------------------------------------------------------------------------
(***************************************************************************)
(* The exit: whole at the price of an event, or requested and worked off   *)
(* through the book by IOC orders, one at a time.                          *)
(***************************************************************************)
Held(r) == positions[r].status = "OPEN" /\ ~positions[r].requested

CloseWhole(r, e) ==
  LET closed == [positions[r] EXCEPT !.status = "CLOSED", !.remaining = 0,
                                     !.closedAt = ticks[e].at, !.event = e]
  IN
  /\ Held(r) /\ r \notin ByBook
  /\ e >= positions[r].event
  /\ positions' = [positions EXCEPT ![r] = closed]
  /\ orders' = Append(orders, WholeOrder(r, e, closed.quantity))
  /\ fills' = Append(fills, WholeFill(Len(orders) + 1, e, closed.quantity))
  /\ decisions' = [decisions EXCEPT ![r].closes = @ + 1]
  /\ booked' = [booked EXCEPT ![r] = Append(@, TradeOf(closed))]
  /\ UNCHANGED <<clock, ticks, signals>>

RequestExit(r, e) ==
  /\ Held(r) /\ r \in ByBook
  /\ e >= positions[r].event
  /\ positions' = [positions EXCEPT ![r].requested = TRUE, ![r].event = e]
  /\ UNCHANGED <<clock, ticks, signals, orders, fills, decisions, booked>>

(* Without an order: the latest event carries a book to place one on, or   *)
(* it is recorded why it does not.                                         *)
Exiting(r) == positions[r].status = "OPEN" /\ positions[r].requested
Placeable == /\ BookFresh(LastTick)
             /\ clock - ticks[LastTick].at <= BookAge
             /\ clock - ticks[LastTick].bookAt <= BookAge

SubmitExit(r) ==
  /\ Exiting(r) /\ positions[r].order = 0
  /\ IF Placeable
     THEN /\ orders' = Append(orders,
                 [run |-> r, kind |-> "exit", tif |-> "IOC", quantity |-> positions[r].remaining,
                  event |-> LastTick, stream |-> ticks[LastTick].stream, at |-> clock,
                  expires |-> clock + ExitTtl, status |-> "OPEN", filled |-> 0,
                  cancelled |-> 0])
          /\ positions' = [positions EXCEPT ![r].event = LastTick, ![r].order = Len(orders) + 1]
     ELSE /\ positions' = [positions EXCEPT ![r].event = LastTick]
          /\ UNCHANGED orders
  /\ UNCHANGED <<clock, ticks, signals, fills, decisions, booked>>

(* With an order: the events after the position's are tried in order up to *)
(* the first that does not leave it waiting.                               *)
Tried(r) == LET o == orders[positions[r].order] IN
  {e \in (positions[r].event + 1)..LastTick : Evaluate(o, e, 0) # "wait"}
ExitEvent(r) == IF Tried(r) = {} THEN LastTick ELSE Min(Tried(r))

ExitLeft(o, e) == Available(o, e, Own(o, e) + PublicConsumed(o, e))
ExitOutcome(r) ==
  LET o == orders[positions[r].order]
      e == ExitEvent(r)
  IN IF Tried(r) = {} THEN IF clock >= o.expires THEN "cancel" ELSE "wait"
     ELSE Evaluate(o, e, IF Evaluate(o, e, 0) = "fill" THEN Own(o, e) + PublicConsumed(o, e) ELSE 0)

StepExit(r) ==
  LET id == positions[r].order
      o == orders[id]
      e == ExitEvent(r)
      sold == IF ExitOutcome(r) = "fill" THEN ExitLeft(o, e) ELSE 0
      left == positions[r].remaining - sold
      stepped == [positions[r] EXCEPT !.event = e, !.remaining = left,
                    !.order = IF ExitOutcome(r) = "wait" THEN @ ELSE 0,
                    !.status = IF left = 0 THEN "CLOSED" ELSE @,
                    !.closedAt = IF left = 0 THEN ticks[e].at ELSE @]
  IN
  /\ Exiting(r) /\ id # 0
  /\ ExitOutcome(r) = "wait" => e > positions[r].event
  /\ positions' = [positions EXCEPT ![r] = stepped]
  /\ orders' = IF ExitOutcome(r) = "wait" THEN orders ELSE [orders EXCEPT ![id] = Terminal(@, sold)]
  /\ fills' = IF sold = 0 THEN fills ELSE Append(fills, Receipt(id, o, e, sold))
  /\ decisions' = [decisions EXCEPT ![r].closes = @ + (IF left = 0 THEN 1 ELSE 0)]
  /\ booked' = IF left = 0 THEN [booked EXCEPT ![r] = Append(@, TradeOf(stepped))] ELSE booked
  /\ UNCHANGED <<clock, ticks, signals>>

TradeNext ==
  \/ Pass
  \/ \E taker \in {"Buy", "Sell", "block"}, delay \in {0, 1},
        book \in {"same", "new", "none"}, reconnected \in BOOLEAN :
       PriceEvent(taker, delay, book, reconnected)
  \/ \E r \in AccountRuns, delay \in {0, 1} : Detect(r, delay)
  \/ \E r \in AccountRuns, e \in Events, crosses \in BOOLEAN : SubmitEntry(r, e, crosses)
  \/ \E r \in AccountRuns : RejectEntry(r)
  \/ \E r \in AccountRuns, e \in Events, quantity \in 1..Wanted, wait \in {0, 1},
        hit \in BOOLEAN :
       EnterByFill(r, e, quantity, wait, hit)
  \/ \E r \in AccountRuns, e \in Events : CloseWhole(r, e) \/ RequestExit(r, e)
  \/ \E r \in AccountRuns : SubmitExit(r) \/ StepExit(r)

TradeSpec == TradeInit /\ [][TradeNext]_tradeVars

-----------------------------------------------------------------------------
(***************************************************************************)
(* What the verifiers read off the rows.                                   *)
(***************************************************************************)
FillsOf(id) == {f \in 1..Len(fills) : fills[f].order = id}
OrdersOf(r, kind) == {i \in 1..Len(orders) : orders[i].run = r /\ orders[i].kind = kind}
FillsOfRun(r, kind) == UNION {FillsOf(i) : i \in OrdersOf(r, kind)}
Sold(r) == SumFunctionOnSet(FillQuantities, FillsOfRun(r, "exit"))

(* verifyEntryExecutionProof and verifyLiquidityExitFill: the event named  *)
(* by a receipt yields, with what the receipt says was consumed, at least  *)
(* (entry) or exactly (exit) the quantity of the fill.                     *)
OfReceipt(f) == Available(orders[fills[f].order], fills[f].event, fills[f].own + fills[f].public)
Reproduced(f) ==
  LET row == fills[f]
      o == orders[row.order]
  IN /\ Evaluate(o, row.event, row.own + row.public) = "fill"
     /\ row.capacity = Capacity(o, row.event)
     /\ row.at = ticks[row.event].at

EntryFillVerified(f) == Reproduced(f) /\ fills[f].quantity \in 1..OfReceipt(f)
ExitFillVerified(f) == Reproduced(f) /\ fills[f].quantity = OfReceipt(f)

(* What a terminal says was filled and cancelled is what was.              *)
TerminalVerified(id) ==
  LET o == orders[id] IN
  /\ Cardinality(FillsOf(id)) <= 1
  /\ o.status = "OPEN" => FillsOf(id) = {} /\ o.filled = 0 /\ o.cancelled = 0
  /\ o.status # "OPEN" => /\ o.filled = SumFunctionOnSet(FillQuantities, FillsOf(id))
                          /\ o.filled + o.cancelled = o.quantity
                          /\ (o.status = "FILLED") <=> (o.filled = o.quantity)

(* No source gives more than the greatest capacity seen of it.             *)
SourceNotReused(key) ==
  LET taken == SumFunctionOnSet(FillQuantities, FromSource(key)) IN
  \E f \in FromSource(key) : taken <= fills[f].capacity

(* The counts of one position.                                             *)
CountsVerified(r) ==
  LET p == positions[r] IN
  /\ Cardinality(FillsOfRun(r, "entry")) = (IF p.status = "NONE" THEN 0 ELSE 1)
  /\ Len(decisions[r].opens) = (IF p.status = "NONE" THEN 0 ELSE 1)
  /\ decisions[r].closes = (IF p.status = "CLOSED" THEN 1 ELSE 0)
  /\ Len(booked[r]) = decisions[r].closes
  /\ r \notin ByBook => Cardinality(FillsOfRun(r, "exit")) = decisions[r].closes

(* The balances of a position, its open exit order being the one it names. *)
BalancesVerified(r) ==
  LET p == positions[r] IN
  /\ SumFunctionOnSet(FillQuantities, FillsOfRun(r, "entry")) = p.quantity
  /\ Sold(r) + p.remaining = p.quantity
  /\ p.status = "CLOSED" => p.remaining = 0
  /\ {i \in OrdersOf(r, "exit") : orders[i].status = "OPEN"} = {p.order} \ {0}

(* auditClosedTrade on the trade of a run: its position, its fills, and    *)
(* the timing and finality of its entry against what was recorded apart    *)
(* from the order.                                                         *)
Bindings(r, t) ==
  positions[r].status = "CLOSED" /\ t = TradeOf(positions[r]) /\ t.closedAt >= t.openedAt

FillLedger(r, t) ==
  /\ Sold(r) = t.quantity
  /\ {fills[f].at : f \in FillsOfRun(r, "entry")} = {t.openedAt}
  /\ Max({fills[f].at : f \in FillsOfRun(r, "exit")}) = t.closedAt

EntryTiming(r) ==
  LET decidedAt == decisions[r].opens[1] IN
  \A f \in FillsOfRun(r, "entry") :
    /\ decidedAt < orders[fills[f].order].expires
    /\ decidedAt >= ticks[fills[f].event].received
    /\ r \in Market => decidedAt - ticks[fills[f].event].at <= EntryTtl

EntryFinality(r) ==
  \A f \in FillsOfRun(r, "entry") : ticks[fills[f].event].received >= signals[r].decided

(* Own fills and the public trades that followed the book, up to the event *)
(* of a fill, never add up to more than the book held.                     *)
BookHeld(f) ==
  LET row == fills[f]
      o == orders[row.order]
      after == {i \in 1..row.event : /\ ticks[i].stream = ticks[row.event].stream
                                     /\ ticks[i].book = ticks[row.event].book
                                     /\ ticks[i].at > ticks[row.event].bookAt
                                     /\ ticks[i].taker = Side(o)}
  IN row.own + row.quantity + Size * Cardinality(after) <= Depth

(* The verifiers find nothing to report in any state, whichever run took   *)
(* from a book or a trade first and however late its events were processed.*)
RowsVerify ==
  /\ \A f \in 1..Len(fills) :
       LET o == orders[fills[f].order] IN
       /\ o.kind = "entry" => EntryFillVerified(f)
       /\ o.kind = "exit" /\ o.tif # "whole" => ExitFillVerified(f)
       /\ o.tif # "whole" => SourceNotReused(SourceKey(o, fills[f].event))
       /\ o.tif = "IOC" => BookHeld(f)
  /\ \A id \in 1..Len(orders) : TerminalVerified(id)
  /\ \A r \in AccountRuns : CountsVerified(r) /\ BalancesVerified(r)
  /\ \A r \in AccountRuns : \A i \in 1..Len(booked[r]) :
       /\ Bindings(r, booked[r][i]) /\ FillLedger(r, booked[r][i])
       /\ EntryTiming(r) /\ EntryFinality(r)
=============================================================================
