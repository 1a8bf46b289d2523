-------------------------- MODULE CandleSimulation --------------------------
(***************************************************************************)
(* The candle simulation behind a validation run: runExecutionPolicy-      *)
(* Simulation (packages/application/src/execution-policy-simulation.ts)    *)
(* under the windows of runWalkForward (validation-engine.ts).  Each bar   *)
(* is walked open, adverse extreme, favorable extreme, close; at each of   *)
(* the four instants funding settles first, then positions leave, then the *)
(* account is assessed and, past the daily loss limit, closed out.         *)
(*                                                                         *)
(* Time counts thirds of a bar, so bar b opens at 3b and closes at 3b + 3. *)
(* The data set is drawn bar by bar from Candles, and a bar read by two    *)
(* windows is the same bar.                                                *)
(***************************************************************************)
EXTENDS ExecutionEngine, FiniteSets, Sequences

CONSTANTS Symbols, Candles,
          Bars,                     \* length of the data set
          Training, Test,           \* walk-forward windows, in bars
          BarsPerDay,
          Settlements, Rate,        \* funding: the instants, the amount per unit
          Capital, RiskPerTrade, DailyLimit, MaxPositions, MaxQuantity,
          MaxDeviation              \* marketEntry.maxDeviationBps, in ticks

SimulationAssumption ==
  /\ IsFiniteSet(Symbols)
  /\ Candles \subseteq [open : Nat, high : Nat, low : Nat, close : Nat,
                        signal : {"none", "long", "short"}]
  /\ {Bars, Test, BarsPerDay, Capital, MaxPositions, MaxQuantity} \subseteq Nat \ {0}
  /\ Training \in Nat /\ Settlements \subseteq Nat /\ Rate \in Int
  /\ {RiskPerTrade, DailyLimit, MaxDeviation} \subseteq Nat

VARIABLES data,       \* bar -> symbol -> candle, as far as drawn
          window,     \* number of the walk-forward window
          bar, step,  \* where the simulation stands
          waiting,    \* symbols whose pending signal is still to be considered
          range,      \* the candle of each symbol, cut by an intrabar entry
          position, pending, mark,
          settled,    \* funding up to this instant has been accrued
          cash,       \* day -> cash result of the day
          latched,    \* days halted by the loss limit
          realized,   \* net result of the window's closed trades
          capital,    \* capital the window started with
          trades      \* every settled trade

drawn == <<data, window, bar>>
account == <<position, cash, realized, trades, settled>>
vars == <<drawn, account, step, waiting, range, pending, mark, latched, capital>>

Blank == [side |-> "none"]
Open == {s \in Symbols : position[s] # Blank}
Total(S, f(_)) == SumFunctionOnSet([x \in S |-> f(x)], S)

Day(t) == t \div (3 * BarsPerDay)
Days == 0 .. Day(3 * Bars)
WindowStart == window * Test
TestStart == WindowStart + Training
WindowEnd == TestStart + Test          \* first bar after the window
Fits(k) == k * Test + Training + Test <= Bars

Now == 3 * bar + CASE step \in {"open", "force-open", "enter"} -> 0
                   [] step \in {"adverse", "force-adverse"} -> 1
                   [] step \in {"favorable", "assess"} -> 2
                   [] OTHER -> 3

Init ==
  /\ data = <<>> /\ window = 0 /\ bar = 0 /\ step = "candles" /\ waiting = {}
  /\ range = <<>> /\ position = [s \in Symbols |-> Blank]
  /\ pending = [s \in Symbols |-> Blank] /\ mark = [s \in Symbols |-> 0]
  /\ settled = 0 /\ cash = [d \in Days |-> 0] /\ latched = {} /\ realized = 0
  /\ capital = Capital /\ trades = {}
  /\ Fits(0)

----------------------------------------------------------------------------
(* assessExecutionAccount, on the marks of the moment.                     *)

Pnl(s) == Better(position[s].side, mark[s], position[s].entry) * position[s].quantity
ExitCosts(s) == position[s].quantity * (Fee + Slip)
Carried(s) == position[s].entryFee + ExitCosts(s)
Reserve(s) == Max({0, StopRisk(position[s]) - (Max({0, -Pnl(s)}) + Carried(s))})

Equity == capital + realized + Total(Open, LAMBDA s : Pnl(s) - Carried(s) - position[s].funding)
DailyPnl == cash[Day(Now)] + Total(Open, LAMBDA s : Min({0, Pnl(s)}) - Carried(s))
ShouldLatch == Equity <= 0 \/ DailyPnl <= -DailyLimit
Halted == Day(Now) \in latched \/ ShouldLatch
Latch == latched' = IF ShouldLatch THEN latched \cup {Day(Now)} ELSE latched

RemainingRisk ==
  Max({0, Min({DailyLimit + DailyPnl, Equity - Total(Open, LAMBDA s : Max({0, Pnl(s)}))})
          - Total(Open, Reserve)})

----------------------------------------------------------------------------
(* accrue: every settlement up to the instant, of the positions then open. *)

Due(p, from, to) == {t \in Settlements : from < t /\ t <= to /\ p.openedAt < t}
Charge(p, instants) == Direction(p.side) * p.quantity * Rate * Cardinality(instants)

Accrued ==
  [s \in Symbols |-> IF s \notin Open THEN Blank
     ELSE [position[s] EXCEPT !.funding = @ + Charge(position[s], Due(position[s], settled, Now))]]

ChargedOn(d) ==
  Total(Open, LAMBDA s : Charge(position[s],
                    {t \in Due(position[s], settled, Now) : Day(t) = d}))

\* close: the trade, the realized result, the cash of the day and the position.
Booked_Net(p, at) == NetPnl(p, at)
Booked(p, at) == NetPnl(p, at) + p.funding

Trade(s, p, exit) ==
  [symbol |-> s, window |-> window, side |-> p.side, quantity |-> p.quantity,
   openedAt |-> p.openedAt, closedAt |-> Now, net |-> NetPnl(p, exit.at),
   funding |-> p.funding, reason |-> exit.reason]

\* Positions `held` leave by exit[s]; what stays is kept[s].
Leave(held, exit, kept) ==
  LET out == {s \in Symbols : held[s] # Blank /\ exit[s] # NoExit} IN
  /\ position' = [s \in Symbols |-> IF s \in out \/ held[s] = Blank THEN Blank ELSE kept[s]]
  /\ realized' = realized + Total(out, LAMBDA s : NetPnl(held[s], exit[s].at))
  /\ cash' = [d \in Days |-> cash[d] - ChargedOn(d)
                + IF d = Day(Now) THEN Total(out, LAMBDA s : Booked(held[s], exit[s].at)) ELSE 0]
  /\ trades' = trades \cup {Trade(s, held[s], exit[s]) : s \in out}
  /\ settled' = Now

Phase(from, to, exit(_, _), kept(_, _)) ==
  /\ step = from /\ step' = to
  /\ Leave(Accrued,
           [s \in Symbols |-> IF s \in Open THEN exit(s, Accrued[s]) ELSE NoExit],
           [s \in Symbols |-> kept(s, Accrued[s])])
  /\ UNCHANGED <<drawn, range, pending, latched, capital>>

Marked(price(_)) == mark' = [s \in Symbols |-> price(s)]

----------------------------------------------------------------------------
Candle ==
  /\ step = "candles" /\ bar < WindowEnd
  /\ IF bar < Len(data) THEN UNCHANGED data
     ELSE \E c \in [Symbols -> Candles] : data' = data \o <<c>>
  /\ range' = data'[bar + 1]
  /\ Marked(LAMBDA s : data'[bar + 1][s].open)
  /\ step' = "open"
  /\ UNCHANGED <<window, bar, account, waiting, pending, latched, capital>>

OpenOfBar ==
  /\ Phase("open", "force-open",
           LAMBDA s, p : First(PriceExit(p, range[s].open), HoldingExit(p, range[s].open, Now)),
           LAMBDA s, p : p)
  /\ UNCHANGED <<waiting, mark>>

\* force: past the loss limit everything open leaves at its mark.
CloseOut(from, to) ==
  /\ step = from /\ step' = to
  /\ Leave(position,
           [s \in Symbols |-> IF Halted /\ s \in Open
                              THEN [at |-> mark[s], reason |-> "daily-loss-limit"] ELSE NoExit],
           position)
  /\ Latch
  /\ waiting' = IF to = "enter" THEN {s \in Symbols : pending[s] # Blank} ELSE {}
  /\ UNCHANGED <<drawn, range, pending, mark, capital>>

ForceOpen == CloseOut("force-open", "enter")
ForceAdverse == CloseOut("force-adverse", "favorable")
ForceClose == CloseOut("force-close", "signal")

\* One pending signal: admitted by the account of the moment, or dropped.
Candidate(s, quantity) == OpenPosition(pending[s], range[s], quantity, Now)
Fitting(s) ==
  {q \in 1 .. MaxQuantity :
     StopRisk(Candidate(s, q)) <= Min({RiskPerTrade, RemainingRisk})}
Admitted(s) ==
  /\ TestStart <= bar /\ s \notin Open
  /\ ~Halted /\ RemainingRisk > 0 /\ Now < pending[s].expires
  /\ MarketEntry => Max({range[s].open - pending[s].price, pending[s].price - range[s].open}) <= MaxDeviation
  /\ Cardinality(Open) < MaxPositions
  /\ Reached(pending[s], range[s]) /\ Fitting(s) # {}

Enter(s) ==
  /\ step = "enter" /\ s \in waiting
  /\ waiting' = waiting \ {s}
  /\ pending' = [pending EXCEPT ![s] = Blank]
  /\ IF Admitted(s)
     THEN LET p == Candidate(s, Max(Fitting(s))) IN
            /\ position' = [position EXCEPT ![s] = p]
            /\ range' = [range EXCEPT ![s] = RangeAfterEntry(p, @)]
     ELSE UNCHANGED <<position, range>>
  /\ IF TestStart <= bar /\ s \notin Open THEN Latch ELSE UNCHANGED latched
  /\ UNCHANGED <<drawn, step, mark, settled, cash, realized, capital, trades>>

Entered ==
  /\ step = "enter" /\ waiting = {} /\ step' = "adverse"
  /\ UNCHANGED <<drawn, account, waiting, range, pending, mark, latched, capital>>

Adverse ==
  /\ Phase("adverse", "force-adverse",
           LAMBDA s, p : LET exit == AdverseExit(p, range[s])
                         IN  IF exit.reason \in Protective THEN exit ELSE NoExit,
           LAMBDA s, p : p)
  /\ Marked(LAMBDA s : IF position'[s] = Blank THEN mark[s]
                       ELSE IF position[s].side = "long" THEN range[s].low ELSE range[s].high)
  /\ UNCHANGED waiting

Extreme(s) == IF position[s].side = "long" THEN range[s].high ELSE range[s].low

Favorable ==
  /\ Phase("favorable", "assess",
           LAMBDA s, p : IF Better(p.side, Extreme(s), p.take) >= 0
                         THEN [at |-> p.take, reason |-> "take-profit"] ELSE NoExit,
           LAMBDA s, p : Protected(p, Extreme(s)))
  /\ Marked(LAMBDA s : IF s \in Open THEN Extreme(s) ELSE mark[s])
  /\ UNCHANGED waiting

\* The favorable extreme is assessed, never forced.
AssessFavorable ==
  /\ step = "assess" /\ step' = "close" /\ Latch
  /\ UNCHANGED <<drawn, account, waiting, range, pending, mark, capital>>

CloseOfBar ==
  /\ Phase("close", "force-close",
           LAMBDA s, p : First(PriceExit(p, range[s].close),
                          First(HoldingExit(p, range[s].close, Now), SignalExit(p, range[s]))),
           LAMBDA s, p : Protected(p, range[s].close))
  /\ Marked(LAMBDA s : range[s].close)
  /\ UNCHANGED waiting

\* A signal of the closed candle waits for the next bar, and for it alone.
Signal ==
  /\ step = "signal" /\ step' = "candles" /\ bar' = bar + 1
  /\ pending' = [s \in Symbols |->
       IF s \in Open \/ range[s].signal = "none" THEN pending[s]
       ELSE [side |-> range[s].signal, price |-> range[s].close, expires |-> Now + 3]]
  /\ UNCHANGED <<data, window, account, waiting, range, mark, latched, capital>>

\* The window's data ended: what is open is settled at its mark.
EndOfData ==
  /\ step = "candles" /\ bar = WindowEnd /\ step' = "ended"
  /\ LET end == [s \in Symbols |-> IF s \in Open THEN [at |-> mark[s], reason |-> "end-of-data"]
                                   ELSE NoExit]
         out == Open
     IN  /\ realized' = realized + Total(out, LAMBDA s : NetPnl(position[s], mark[s]))
         /\ trades' = trades \cup
              {[Trade(s, position[s], end[s]) EXCEPT !.closedAt = 3 * bar] : s \in out}
         /\ cash' = [cash EXCEPT ![Day(3 * bar)] =
                       @ + Total(out, LAMBDA s : Booked(position[s], mark[s]))]
  /\ position' = [s \in Symbols |-> Blank]
  /\ UNCHANGED <<drawn, settled, waiting, range, pending, mark, latched, capital>>

\* runWalkForward: the next window starts from the capital this one left.
NextWindow ==
  /\ step = "ended" /\ Fits(window + 1)
  /\ window' = window + 1 /\ bar' = (window + 1) * Test
  /\ capital' = capital + realized
  /\ step' = "candles" /\ realized' = 0 /\ cash' = [d \in Days |-> 0]
  /\ latched' = {} /\ settled' = 0 /\ pending' = [s \in Symbols |-> Blank]
  /\ mark' = [s \in Symbols |-> 0] /\ range' = <<>>
  /\ UNCHANGED <<data, position, trades, waiting>>

SimulationNext ==
  \/ Candle \/ OpenOfBar \/ ForceOpen \/ (\E s \in Symbols : Enter(s)) \/ Entered
  \/ Adverse \/ ForceAdverse \/ Favorable \/ AssessFavorable
  \/ CloseOfBar \/ ForceClose \/ Signal \/ EndOfData \/ NextWindow

SimulationSpec == Init /\ [][SimulationNext]_vars

----------------------------------------------------------------------------
Charges(x, until, d) ==
  Charge(x, {t \in Settlements : x.openedAt < t /\ t <= until /\ Day(t) = d})

(* The books of a simulation agree at every instant: each trade has paid   *)
(* exactly the settlements between its entry and its exit; the cash of a   *)
(* day, which the daily loss limit reads, is what its trades and           *)
(* settlements moved; and the capital handed from window to window is the  *)
(* initial one and the net results, each counted once.                     *)
SimulationBalances ==
  LET here == {t \in trades : t.window = window} IN
  /\ \A t \in trades : t.funding = Total(Days, LAMBDA d : Charges(t, t.closedAt, d))
  /\ \A d \in Days :
       cash[d] = Total({t \in here : Day(t.closedAt) = d}, LAMBDA t : t.net + t.funding)
                 - Total(here, LAMBDA t : Charges(t, t.closedAt, d))
                 - Total(Open, LAMBDA s : Charges(position[s], settled, d))
  /\ realized = Total(here, LAMBDA t : t.net)
  /\ capital = Capital + Total(trades \ here, LAMBDA t : t.net)
=============================================================================
