--------------------------- MODULE ExecutionEngine ---------------------------
(***************************************************************************)
(* The pricing rules the runtime and the validation share                  *)
(* (packages/application/src/execution-engine.ts, execution-position-      *)
(* exit.ts, execution-risk.ts), as operators on a position.  Prices are    *)
(* ticks; the percentages of a strategy are distances in ticks, and a fee  *)
(* is an amount per unit and side.  A position is a record                 *)
(*   side, entry, quantity, stop, take, trailing (0: none), best,          *)
(*   entryFee, funding (paid so far), openedAt.                            *)
(***************************************************************************)
EXTENDS Integers, FiniteSetsExt

CONSTANTS StopDistance, TakeDistance,     \* exit.stopLossPercent, takeProfitPercent
          BreakEvenMove,                  \* breakEvenActivationR as a move; 0: off
          TrailDistance, TrailMove,       \* trailing stop and its activation; 0: off
          GuardEvenMove, GuardTrailMove, GuardDistance, \* the account's profit protection
          HoldingTime,                    \* maxHoldingMinutes; 0: none
          Fee, Slip,                      \* costs
          LimitOffset, MarketEntry        \* entry.orderType and limitOffsetBps

EngineAssumption ==
  /\ {StopDistance, TakeDistance} \subseteq Nat \ {0}
  /\ {BreakEvenMove, TrailDistance, TrailMove, GuardEvenMove, GuardTrailMove,
      GuardDistance, HoldingTime, Fee, Slip, LimitOffset} \subseteq Nat
  /\ MarketEntry \in BOOLEAN

Direction(side) == IF side = "long" THEN 1 ELSE -1

\* How much better price x is than price y for a position on this side.
Better(side, x, y) == Direction(side) * (x - y)
Best(side, x, y) == IF Better(side, x, y) >= 0 THEN x ELSE y
CeilDiv(a, n) == -((-a) \div n)

----------------------------------------------------------------------------
(* Entries *)

\* A signal is [side, price]; a candle [open, high, low, close, signal].
LimitPrice(signal) == signal.price - Direction(signal.side) * LimitOffset

Reached(signal, candle) ==
  \/ MarketEntry
  \/ IF signal.side = "long" THEN candle.low <= LimitPrice(signal)
     ELSE candle.high >= LimitPrice(signal)

\* openExecutionPosition
OpenPosition(signal, candle, quantity, at) ==
  LET d == Direction(signal.side)
      entry == IF MarketEntry THEN candle.open + d * Slip ELSE LimitPrice(signal)
  IN  [side |-> signal.side, entry |-> entry, quantity |-> quantity,
       stop |-> entry - d * StopDistance, take |-> entry + d * TakeDistance,
       trailing |-> 0, best |-> entry, entryFee |-> quantity * Fee,
       funding |-> 0, openedAt |-> at]

\* executionEntryCandleRange: after an intrabar limit fill only the adverse
\* extreme, and the close, are known to follow the fill.
RangeAfterEntry(p, candle) ==
  IF MarketEntry \/ Better(p.side, candle.open, p.entry) <= 0 THEN candle
  ELSE [candle EXCEPT
          !.open = p.entry,
          !.high = IF p.side = "long" THEN Max({p.entry, candle.close}) ELSE @,
          !.low  = IF p.side = "short" THEN Min({p.entry, candle.close}) ELSE @]

----------------------------------------------------------------------------
(* Exits.  An exit is [at: price before slippage, reason]; NoExit else.    *)

NoExit == [at |-> 0, reason |-> "none"]
Protection(p) ==
  IF p.trailing # 0 /\ Better(p.side, p.trailing, p.stop) > 0
  THEN [at |-> p.trailing, reason |-> "trailing-stop"]
  ELSE [at |-> p.stop, reason |-> "stop-loss"]

Protective == {"stop-loss", "trailing-stop"}

\* evaluateExecutionPriceExit: a stop fills at the price seen, a target at itself.
PriceExit(p, price) ==
  IF Better(p.side, price, Protection(p).at) <= 0
  THEN [at |-> price, reason |-> Protection(p).reason]
  ELSE IF Better(p.side, price, p.take) >= 0
  THEN [at |-> p.take, reason |-> "take-profit"]
  ELSE NoExit

\* evaluateExecutionExit, as far as the adverse extreme decides it.
AdverseExit(p, candle) ==
  LET opening == PriceExit(p, candle.open)
      worst == IF p.side = "long" THEN candle.low ELSE candle.high
  IN  IF opening # NoExit THEN opening
      ELSE IF Better(p.side, worst, Protection(p).at) <= 0 THEN Protection(p)
      ELSE NoExit

HoldingExit(p, price, now) ==
  IF HoldingTime # 0 /\ now >= p.openedAt + HoldingTime
  THEN [at |-> price, reason |-> "holding-timeout"] ELSE NoExit

\* evaluateExecutionSignalExit of a crossover family: the opposite signal.
SignalExit(p, candle) ==
  IF candle.signal \notin {"none", p.side}
  THEN [at |-> candle.close, reason |-> "signal-exit"] ELSE NoExit

First(exit, other) == IF exit # NoExit THEN exit ELSE other

\* settleExecutionPosition
ExitPrice(p, at) == at - Direction(p.side) * Slip
Gross(p, at) == Better(p.side, ExitPrice(p, at), p.entry) * p.quantity
NetPnl(p, at) == Gross(p, at) - p.entryFee - p.quantity * Fee - p.funding

----------------------------------------------------------------------------
(* Protection of an open position.                                         *)

BreakEvenPrice(p) ==
  p.entry + Direction(p.side)
            * (CeilDiv(p.entryFee + p.funding + p.quantity * Fee, p.quantity) + Slip)

\* One policy: break even from the move `even` on, trailing from the move
\* `active` on; a trailing stop that must pay keeps at least the costs.
Protect(p, price, even, active, distance, pays) ==
  LET best  == Best(p.side, p.best, price)
      moved == Better(p.side, best, p.entry)
      level == BreakEvenPrice(p)
      trail == best - Direction(p.side) * distance
      trails == /\ distance # 0 /\ moved >= active
                /\ pays => Better(p.side, trail, level) >= 0
  IN  [p EXCEPT
        !.best = best,
        !.stop = IF even # 0 /\ moved >= even /\ Better(p.side, best, level) >= 1
                 THEN Best(p.side, @, level) ELSE @,
        !.trailing = IF ~trails THEN @
                     ELSE IF @ = 0 THEN trail ELSE Best(p.side, @, trail)]

\* advanceExecutionQuoteProtection: the strategy's policy, then the account's.
Protected(p, price) ==
  Protect(Protect(p, price, BreakEvenMove, TrailMove, TrailDistance, FALSE),
          price, GuardEvenMove, GuardTrailMove, GuardDistance, TRUE)

\* executionStopRisk of a position that leaves at its present protection.
StopRisk(p) ==
  LET out == ExitPrice(p, Protection(p).at)
  IN  Max({0, -Better(p.side, out, p.entry)}) * p.quantity + p.entryFee + p.quantity * Fee
=============================================================================
