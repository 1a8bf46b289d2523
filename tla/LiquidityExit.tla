---------------------------- MODULE LiquidityExit ----------------------------
(***************************************************************************)
(* The exit of one funded position through the order book, from the events *)
(* that follow its entry to its trade: a latched intent, IOC orders placed *)
(* one after another on durable price events, partial fills, and the       *)
(* funding payments that settle while it is held or still being closed.    *)
(*                                                                         *)
(* advanceLiquidityExit and synchronizePosition each run in a transaction  *)
(* under the risk and run locks and read every row they decide on inside   *)
(* it, so each is one action; a stale runtimeVersion only makes the former *)
(* a no-op.  What races is outside: trades arrive, the clock passes a      *)
(* funding boundary, the exchange publishes its rate some time later, and  *)
(* the funding loop refreshes the market row at its own pace.              *)
(*                                                                         *)
(* Money and quantities are whole numbers of their smallest unit, so that  *)
(* the rounding of the decimal code is kept.  Prices are left out: whether *)
(* a book can fill, and how much, is any choice the code could meet.       *)
(***************************************************************************)
EXTENDS Integers, Sequences, FiniteSetsExt

CONSTANTS
  Quantity,     \* Position.quantity, in quantity steps
  EntryFee,     \* Position.entryFee
  MaxOrder,     \* instrumentRules.maxMarketOrderQty
  OrderTtl,     \* exit policy orderTtlMs
  BookAge,      \* exit policy maximumBookAgeMs
  ScanLimit,    \* `take` of the event scan, 2000 in the code
  Boundaries,   \* times at which the exchange settles funding
  Rate,         \* funding cost of one quantity step at a boundary, of any sign
  MarketAge,    \* how old a funding market row may be, 120 s in the code
  MaxTime,      \* bound: the clock
  MaxEvent      \* bound: price events

ASSUME ExitAssumption ==
  /\ Quantity \in Nat \ {0} /\ EntryFee \in Nat /\ MaxOrder \in Nat \ {0}
  /\ OrderTtl \in Nat \ {0} /\ BookAge \in Nat /\ ScanLimit \in Nat \ {0}
  /\ MaxTime \in Nat /\ MaxEvent \in Nat \ {0} /\ MarketAge \in Nat
  /\ Boundaries \subseteq 1..MaxTime
  /\ Rate \in [Boundaries -> Int]

VARIABLES
  now,        \* the database clock; the position was opened at time 0
  journal,    \* MarketPriceEvent rows of the symbol: observedAt and stream
  published,  \* boundaries whose rate the exchange's history shows
  market,     \* FundingMarketState with the events of its snapshot
  position,   \* the Position row without its money columns
  balance,    \* Position.remainingQuantity and remainingEntryFee
  exit,       \* LiquidityExitState: intent, closedQuantity, entryFeesAllocated, waitingReason
  order,      \* LiquidityExitState.order with its OPEN Order row
  funding,    \* fundingState, fundingAccrued, fundingRemaining
  paid,       \* PositionFundingPayment per boundary: quantity (0: none) and remainingApplied
  fills,      \* exit Fill rows
  trades      \* Trade rows of the position

vars == <<now, journal, published, market, position, balance, exit, order, funding, paid, fills,
          trades>>

Order == [quantity : Nat, submit : Nat, at : Nat, stream : Nat]
NoOrder == [quantity |-> 0, submit |-> 0, at |-> 0, stream |-> 0]
Waiting == {"none", "blocked", "cancelled", "expired", "funding"}

Working == order # NoOrder
Expires == order.at + OrderTtl
Latest == Len(journal)
Held == balance.quantity
NextBoundary(t) == Min({b \in Boundaries : b > t} \cup {MaxTime + 1})
Later(t, e) == IF journal[e].at > t THEN journal[e].at ELSE t

(* Rounding of the decimal code at its last digit.                         *)
Truncated(n, d) == IF n >= 0 THEN n \div d ELSE -((-n) \div d)
HalfUp(n, d) == (2 * n + d) \div (2 * d)

TypeOK ==
  /\ now \in 0..MaxTime
  /\ journal \in Seq([at : Nat, stream : Nat])
  /\ published \subseteq Boundaries
  /\ market \in [observed : Nat, next : Nat, through : Nat, known : SUBSET Boundaries]
  /\ position \in [status : {"OPEN", "CLOSED"}, event : Nat, through : Nat, closedAt : Nat]
  /\ balance \in [quantity : Nat, fee : Nat]
  /\ exit \in [intent : BOOLEAN, closed : Nat, feeUsed : Nat, waiting : Waiting]
  /\ order \in Order
  /\ funding \in [ready : BOOLEAN, next : Nat, through : Nat, accrued : Int, remaining : Int]
  /\ paid \in [Boundaries -> [quantity : Nat, kept : Int]]
  /\ fills \in Seq([at : Nat, quantity : Nat, fee : Nat, funding : Int])
  /\ trades \in Seq([quantity : Nat, fee : Nat, funding : Int])

Init ==
  /\ now = 0
  /\ journal = <<[at |-> 0, stream |-> 0]>>
  /\ published = {}
  /\ market = [observed |-> 0, next |-> NextBoundary(0), through |-> 0, known |-> {}]
  /\ position = [status |-> "OPEN", event |-> 1, through |-> 0, closedAt |-> 0]
  /\ balance = [quantity |-> Quantity, fee |-> EntryFee]
  /\ exit = [intent |-> FALSE, closed |-> 0, feeUsed |-> 0, waiting |-> "none"]
  /\ order = NoOrder
  /\ funding = [ready |-> TRUE, next |-> NextBoundary(0), through |-> 0,
                accrued |-> 0, remaining |-> 0]
  /\ paid = [b \in Boundaries |-> [quantity |-> 0, kept |-> 0]]
  /\ fills = <<>>
  /\ trades = <<>>

(***************************************************************************)
(* The world: time, trades, and the exchange's funding history.            *)
(***************************************************************************)
Tick ==
  /\ now < MaxTime
  /\ now' = now + 1
  /\ UNCHANGED <<journal, published, market, position, balance, exit, order, funding, paid, fills,
                 trades>>

ReceiveEvent(reconnected) ==
  /\ Latest < MaxEvent
  /\ journal' = Append(journal, [at |-> now, stream |-> journal[Latest].stream +
                                                        (IF reconnected THEN 1 ELSE 0)])
  /\ UNCHANGED <<now, published, market, position, balance, exit, order, funding, paid, fills,
                 trades>>

Publish(b) ==
  /\ b <= now
  /\ b \notin published
  /\ published' = published \cup {b}
  /\ UNCHANGED <<now, journal, market, position, balance, exit, order, funding, paid, fills, trades>>

(***************************************************************************)
(* Before the exit: the quote loop checkpoints events, and an event (also  *)
(* the one last checkpointed) triggers the close, which latches the intent.*)
(***************************************************************************)
MovePosition(e) == [position EXCEPT !.event = e, !.through = Later(@, e)]

Checkpoint(e) ==
  /\ ~exit.intent
  /\ position.event < e /\ e <= Latest
  /\ position' = MovePosition(e)
  /\ UNCHANGED <<now, journal, published, market, balance, exit, order, funding, paid, fills, trades>>

RequestExit(e) ==
  /\ ~exit.intent
  /\ position.event <= e /\ e <= Latest
  /\ position' = MovePosition(e)
  /\ exit' = [exit EXCEPT !.intent = TRUE]
  /\ UNCHANGED <<now, journal, published, market, balance, order, funding, paid, fills, trades>>

(***************************************************************************)
(* advanceLiquidityExit.                                                   *)
(***************************************************************************)
Exiting == exit.intent /\ position.status = "OPEN" /\ Held > 0

(* Without an order, the latest event either carries a book fit to place   *)
(* one on or records why it does not.                                      *)
BookFresh == now - journal[Latest].at <= BookAge

OrderQuantity == Min({Held, MaxOrder})

SubmitOrder ==
  /\ Exiting /\ ~Working
  /\ BookFresh
  /\ order' = [quantity |-> OrderQuantity, submit |-> Latest, at |-> now,
               stream |-> journal[Latest].stream]
  /\ exit' = [exit EXCEPT !.waiting = "none"]
  /\ position' = MovePosition(Latest)
  /\ UNCHANGED <<now, journal, published, market, balance, funding, paid, fills, trades>>

BlockOrder ==
  /\ Exiting /\ ~Working
  /\ ~(position.event = Latest /\ exit.waiting = "blocked")
  /\ exit' = [exit EXCEPT !.waiting = "blocked"]
  /\ position' = MovePosition(Latest)
  /\ UNCHANGED <<now, journal, published, market, balance, order, funding, paid, fills, trades>>

(* With an order, the events after the position's are scanned in order, at *)
(* most ScanLimit of them, up to the first that does not leave it waiting. *)
Scanned == {e \in 1..MaxEvent : position.event < e /\ e <= Latest /\ e <= position.event + ScanLimit}
SameStream_Ignored(e) == TRUE
SameStream(e) == journal[e].stream = order.stream
InTime(e) == journal[e].at < Expires
MustCancel(e) == ~SameStream(e) \/ (~InTime(e) /\ e > order.submit)
MayWait(e) == ~MustCancel(e) /\ (e <= order.submit \/ journal[e].at < order.at + BookAge)
MayTrade(e) == ~MustCancel(e) /\ e > order.submit /\ journal[e].at >= order.at
WaitedUntil(e) == \A d \in Scanned : d < e => MayWait(d)

(* fundingSettlementReady: what would settle until t is known and charged. *)
Ready(t) ==
  /\ funding.ready
  /\ funding.through >= t \/ funding.next > t
  /\ funding.next = market.next
  /\ now - market.observed <= MarketAge

(* applyLiquidityExitFill: the last fill takes what is left of the entry   *)
(* fee and of the funding, an earlier one its rounded share.               *)
EntryFeeShare_RoundedDown(q) == (EntryFee * q) \div Quantity
EntryFeeShare(q) ==
  IF q = Held THEN balance.fee ELSE Min({balance.fee, HalfUp(EntryFee * q, Quantity)})
FundingShare_OfQuantity(q) == Truncated(funding.remaining * q, Quantity)
FundingShare(q) ==
  IF q = Held THEN funding.remaining ELSE Truncated(funding.remaining * q, Held)

Booked == [quantity |-> exit'.closed, fee |-> exit'.feeUsed, funding |-> funding'.accrued]

(* The code throws when q exceeds what is held: Books, proved, excludes it. *)
FillOrder(e, q) ==
  LET fee == EntryFeeShare(q)  cost == FundingShare(q)
      emptied == q = Held  closes == emptied /\ Ready(journal[e].at) IN
  /\ Exiting /\ Working
  /\ e \in Scanned /\ WaitedUntil(e) /\ MayTrade(e)
  /\ q <= order.quantity
  /\ fills' = Append(fills, [at |-> journal[e].at, quantity |-> q, fee |-> fee, funding |-> cost])
  /\ exit' = [intent |-> TRUE, closed |-> exit.closed + q, feeUsed |-> exit.feeUsed + fee,
              waiting |-> IF emptied /\ ~closes THEN "funding" ELSE "none"]
  /\ balance' = [quantity |-> Held - q, fee |-> balance.fee - fee]
  /\ funding' = [funding EXCEPT !.remaining = @ - cost]
  /\ order' = NoOrder
  /\ position' = [MovePosition(e) EXCEPT !.status = IF closes THEN "CLOSED" ELSE "OPEN",
                                         !.closedAt = IF emptied THEN journal[e].at ELSE @]
  /\ trades' = IF closes THEN Append(trades, Booked) ELSE trades
  /\ UNCHANGED <<now, journal, published, market, paid>>

CancelOrder(e) ==
  /\ Exiting /\ Working
  /\ e \in Scanned /\ WaitedUntil(e) /\ (MustCancel(e) \/ MayTrade(e))
  /\ order' = NoOrder
  /\ exit' = [exit EXCEPT !.waiting = "cancelled"]
  /\ position' = MovePosition(e)
  /\ UNCHANGED <<now, journal, published, market, balance, funding, paid, fills, trades>>

(* The clock ends an order only when the scan was not cut off by its limit.*)
ScanComplete_Assumed == TRUE
ScanComplete == Cardinality(Scanned) < ScanLimit

WaitOrExpire ==
  LET expires == ScanComplete /\ now >= Expires
      last == IF Scanned = {} THEN Latest ELSE Max(Scanned) IN
  /\ Exiting /\ Working
  /\ \A e \in Scanned : MayWait(e)
  /\ expires \/ Scanned # {}
  /\ order' = IF expires THEN NoOrder ELSE order
  /\ exit' = IF expires THEN [exit EXCEPT !.waiting = "expired"] ELSE exit
  /\ position' = MovePosition(last)
  /\ UNCHANGED <<now, journal, published, market, balance, funding, paid, fills, trades>>

(* Everything is sold; the trade waited for funding.                       *)
Finalize ==
  /\ exit.intent /\ position.status = "OPEN" /\ Held = 0
  /\ Ready(position.closedAt)
  /\ position' = [position EXCEPT !.status = "CLOSED"]
  /\ exit' = [exit EXCEPT !.waiting = "none"]
  /\ trades' = Append(trades, [quantity |-> exit.closed, fee |-> exit.feeUsed,
                               funding |-> funding.accrued])
  /\ UNCHANGED <<now, journal, published, market, balance, order, funding, paid, fills>>

(***************************************************************************)
(* The funding loop: refresh the market row, reusing the stored history    *)
(* while the schedule has not moved and no held position is pending, then  *)
(* synchronise the position with it.                                       *)
(***************************************************************************)
Reusable_EvenIfPending == market.next = NextBoundary(now)
Reusable == /\ market.next = NextBoundary(now)
            /\ ~(position.status = "OPEN" /\ ~funding.ready)

RefreshMarket ==
  /\ market' = [observed |-> now, next |-> NextBoundary(now),
                through |-> IF Reusable THEN market.through ELSE now,
                known |-> IF Reusable THEN market.known ELSE published]
  /\ UNCHANGED <<now, journal, published, position, balance, exit, order, funding, paid, fills,
                 trades>>

Exposure(b) ==
  Quantity - SumFunctionOnSet([i \in DOMAIN fills |-> fills[i].quantity],
                              {i \in DOMAIN fills : fills[i].at < b})

(* The time the position has been carried to: what settled later is not    *)
(* charged yet, fills before it could still be found.                      *)
Target == IF position.closedAt > 0 THEN position.closedAt ELSE position.through

ExpectedMissing ==
  /\ funding.next <= Target
  /\ Exposure(funding.next) # 0
  /\ funding.next \notin market.known
Covered_IgnoringExpected == market.through >= Target \/ market.next > Target
Covered == ~ExpectedMissing /\ (market.through >= Target \/ market.next > Target)

Due == {b \in market.known : b <= Target /\ paid[b].quantity = 0 /\ Exposure(b) > 0}
Cost(b) == Rate[b] * Exposure(b)
KeptCost(b) == Truncated(Cost(b) * Held, Exposure(b))
SumOver(S, f) == SumFunctionOnSet(f, S)

Synchronize ==
  LET next == IF ExpectedMissing THEN funding.next ELSE market.next
      due == Due IN
  /\ position.status = "OPEN"
  /\ now - market.observed <= MarketAge
  /\ \/ due # {} \/ funding.ready # Covered \/ funding.next # next
     \/ position.closedAt > 0 /\ Covered /\ funding.through # Target
  /\ paid' = [b \in Boundaries |->
                IF b \in due THEN [quantity |-> Exposure(b), kept |-> KeptCost(b)] ELSE paid[b]]
  /\ funding' = [ready |-> Covered, next |-> next,
                 through |-> IF Covered THEN Target ELSE funding.through,
                 accrued |-> funding.accrued + SumOver(due, [b \in due |-> Cost(b)]),
                 remaining |-> funding.remaining + SumOver(due, [b \in due |-> KeptCost(b)])]
  /\ UNCHANGED <<now, journal, published, market, position, balance, exit, order, fills, trades>>

(* The source failed or its row is stale.                                  *)
MarkPending ==
  /\ position.status = "OPEN"
  /\ funding.ready
  /\ funding' = [funding EXCEPT !.ready = FALSE]
  /\ UNCHANGED <<now, journal, published, market, position, balance, exit, order, paid, fills, trades>>

(***************************************************************************)
(* The specification.                                                      *)
(***************************************************************************)
AdvanceExit ==
  \/ SubmitOrder \/ BlockOrder \/ WaitOrExpire \/ Finalize
  \/ \E e \in 1..MaxEvent : CancelOrder(e)
  \/ \E e \in 1..MaxEvent, q \in 1..Quantity : FillOrder(e, q)

Next ==
  \/ Tick
  \/ \E reconnected \in BOOLEAN : ReceiveEvent(reconnected)
  \/ \E b \in Boundaries : Publish(b)
  \/ \E e \in 1..MaxEvent : Checkpoint(e) \/ RequestExit(e)
  \/ AdvanceExit
  \/ RefreshMarket \/ Synchronize \/ MarkPending

Spec == Init /\ [][Next]_vars

(***************************************************************************)
(* Properties.                                                             *)
(***************************************************************************)
Filled(column(_)) == SumFunctionOnSet([i \in DOMAIN fills |-> column(fills[i])], DOMAIN fills)
FilledQuantity == LET quantity(f) == f.quantity IN Filled(quantity)
FilledFee == LET fee(f) == f.fee IN Filled(fee)
FilledFunding == LET cost(f) == f.funding IN Filled(cost)
Payment(b) == Rate[b] * paid[b].quantity
Payments == SumFunctionOnSet([b \in Boundaries |-> Payment(b)], Boundaries)
KeptPayments == SumFunctionOnSet([b \in Boundaries |-> paid[b].kept], Boundaries)

(* What the exit state allocated and what the position's row has left are   *)
(* two parts of the original quantity and entry fee, after every rounding, *)
(* and the fee is used up with the quantity: the check that                *)
(* advanceLiquidityExit makes first (287-297) never throws.                *)
BalancesAgree ==
  /\ exit.closed + Held = Quantity
  /\ exit.feeUsed + balance.fee = EntryFee
  /\ Held = 0 => balance.fee = 0

(* Whatever the sequence of partial fills, roundings and late settlements, *)
(* the fills add up to the exit state, and the funding not yet allocated to*)
(* a fill is what the payments left to the held quantity: no unit is       *)
(* counted twice or lost (applyLiquidityExitFill, allocateFunding).        *)
MoneyAllocated ==
  /\ FilledQuantity = exit.closed
  /\ FilledFee = exit.feeUsed
  /\ funding.remaining = KeptPayments - FilledFunding
  /\ Held = 0 => funding.remaining = 0

(* A settlement is charged on exactly the quantity still held when it      *)
(* happened, though exits may be filled late: no fill booked after the     *)
(* charge turns out to precede it (fundingExposure, target at 147).        *)
ChargedAsHeld == \A b \in Boundaries : paid[b].quantity \in {0, Exposure(b)}

(* A closed position has one trade, an open one none, and the trade is of  *)
(* the whole quantity with the whole entry fee, whether the last fill or   *)
(* the later finalize step books it (completeLiquidityExit).               *)
OneTrade ==
  /\ Len(trades) = (IF position.status = "CLOSED" THEN 1 ELSE 0)
  /\ \A i \in DOMAIN trades : trades[i].quantity = Quantity /\ trades[i].fee = EntryFee

(* The trade carries each charged settlement once, also those charged after*)
(* the quantity was sold (fundingAccrued, completeLiquidityExit).          *)
TradeCarriesPayments == \A i \in DOMAIN trades : trades[i].funding = Payments

(* No trade is booked while a settlement awaited for its position was due: *)
(* the one that it expects next lies after its last fill                   *)
(* (fundingSettlementReady in both closing paths).                         *)
NothingAwaited == position.status = "CLOSED" => funding.next > position.closedAt

(* The four together: the cash flows of fills, settlements and trade are    *)
(* one account, whatever the order of fills and settlements.               *)
CashFlows == MoneyAllocated /\ ChargedAsHeld /\ TradeCarriesPayments /\ NothingAwaited

(* However late the scan runs, a fill comes from an event that followed the*)
(* order's submission on its stream and within its term                    *)
(* (evaluateLiquidityExitOrder).                                           *)
FillCausal ==
  [][fills' # fills =>
       LET e == position'.event IN
         /\ order.submit < e /\ journal[e].stream = order.stream
         /\ order.at <= journal[e].at /\ journal[e].at < Expires]_vars

(* The clock does not expire an order over events of its term that were    *)
(* received but not yet examined, even when the backlog exceeds one scan   *)
(* ("delayed processing does not replace the order's term by the current   *)
(* clock", docs/exit-liquidity).                                           *)
LateScanIsFair ==
  [][Working /\ order' = NoOrder /\ exit'.waiting = "expired" =>
       \A e \in 1..Latest : position'.event < e => ~(SameStream(e) /\ InTime(e))]_vars

(* What is sold is settled: a position with nothing left becomes a trade,  *)
(* however late the exchange publishes and although refreshes fail at times*)
(* (finalize branch, reusable at worker.ts 500-507).                       *)
SettlementCompletes == Held = 0 ~> position.status = "CLOSED"

(* What the documentation promises: the trade contains every settlement    *)
(* that came while quantity was held, its own last moment included.        *)
FundingComplete ==
  trades # <<>> =>
    \A b \in Boundaries : b <= position.closedAt /\ Exposure(b) > 0 => paid[b].quantity > 0
=============================================================================
