------------------------------ MODULE RiskGate ------------------------------
(***************************************************************************)
(* The account's risk: assessRuntimeRisk and checkRuntimeEntry of           *)
(* packages/persistence/src/runtime-risk.ts with the arithmetic of          *)
(* packages/application/src/execution-account.ts and execution-risk.ts,     *)
(* called by the entry loop (processRealtimeEntry, persistRealtimeEntry)    *)
(* and by the risk guard (enforceRuntimeRisk) of apps/worker/src/worker.ts. *)
(*                                                                          *)
(* One account and one strategy, long positions (a short one mirrors them). *)
(* Prices and amounts are whole numbers.  Cost is what a unit pays in fees  *)
(* and slippage, taken for its entry and its exit at once.  Every           *)
(* transaction here holds the risk lock of the workspace to its end, so it  *)
(* is one step.  What only refuses an entry (instrument rules, the age of   *)
(* the quote, funding and market data that are not ready) is the choice to  *)
(* refuse.  The price moves by ticks, and a stop fills at the first event   *)
(* that reaches it, however late that event is processed.                   *)
(***************************************************************************)
EXTENDS Integers, FiniteSets, Functions

CONSTANTS Symbols, Prices, Quantities,
          Distance,        \* from entry to stop
          Cost, InitialBalance,
          DailyLimit,      \* the smaller of the policy's and the strategy's
          MaxPositions,
          MaxTrades, MaxDay,   \* bounds
          Nothing

ASSUME RiskAssumption ==
    /\ IsFiniteSet(Symbols)
    /\ Prices \subseteq Nat /\ Quantities \subseteq Nat \ {0}
    /\ Distance \in Nat \ {0} /\ Cost \in Nat
    /\ InitialBalance \in Nat /\ DailyLimit \in Nat
    /\ MaxPositions \in Nat /\ MaxTrades \in Nat /\ MaxDay \in Nat
    /\ Nothing \notin [id : Nat, entry : Nat, stop : Int, quantity : Nat]

VARIABLES price,      \* the last quote of a symbol
          position,   \* the open position of a symbol
          trades,     \* positions opened so far
          cash,       \* what was realised on this UTC day
          realized,   \* what was realised before it
          halted,     \* RuntimeRiskDay: the days with a halt
          kill,       \* WorkspaceSettings.runtimeKillSwitch
          lane,       \* the entry loop of a symbol
          guard,      \* the risk guard
          day,
          breached,   \* history: days whose loss an assessment found too large
          excused     \* history: a loss the budget cannot foresee

riskVars == <<price, position, trades, cash, realized, halted, kill, lane,
              guard, day, breached, excused>>

Greatest(a, b) == IF a > b THEN a ELSE b
Least(a, b) == IF a < b THEN a ELSE b
Open == {s \in Symbols : position[s] # Nothing}
Total(column) == SumFunctionOnSet(column, Open)

Row(entry, quantity) == [id |-> trades + 1, entry |-> entry,
                         stop |-> entry - Distance, quantity |-> quantity]
NoLane == [step |-> "idle", entry |-> 0, quantity |-> 0]

RiskInit ==
    /\ price \in [Symbols -> Prices]
    /\ position = [s \in Symbols |-> Nothing]
    /\ trades = 0 /\ cash = 0 /\ realized = 0
    /\ halted = {} /\ kill = FALSE
    /\ lane = [s \in Symbols |-> NoLane]
    /\ guard = [step |-> "list", listed |-> {}]
    /\ day = 1 /\ breached = {} /\ excused = FALSE

-----------------------------------------------------------------------------
(* assessExecutionAccount *)

ExitCosts(s) == position[s].quantity * Cost
Pnl(s) == (price[s] - position[s].entry) * position[s].quantity
(* executionStopRisk: the loss of a position that leaves at its stop.       *)
StopRisk(p) == Greatest(0, p.entry - p.stop) * p.quantity + p.quantity * Cost
Reserve(s) ==
    Greatest(0, StopRisk(position[s]) - (Greatest(0, -Pnl(s)) + ExitCosts(s)))

Net == [s \in Open |-> Pnl(s) - ExitCosts(s)]
Loss == [s \in Open |-> Least(0, Pnl(s)) - ExitCosts(s)]
Gain == [s \in Open |-> Greatest(0, Pnl(s))]
Reserves == [s \in Open |-> Reserve(s)]
Notional == [s \in Open |-> price[s] * position[s].quantity]

Equity == InitialBalance + realized + cash + Total(Net)
DailyPnl == cash + Total(Loss)
(* remainingExecutionStopBudget *)
RemainingStopRisk ==
    Greatest(0, Least(DailyLimit + DailyPnl, Equity - Total(Gain)) - Total(Reserves))

ShouldLatch == Equity <= 0 \/ DailyPnl <= -DailyLimit
Latched == IF ShouldLatch THEN halted \cup {day} ELSE halted
ForceClose == kill \/ day \in Latched

(* An assessment stores the halt it finds.                                  *)
Breach == breached' = IF ShouldLatch THEN breached \cup {day} ELSE breached
Assess_NotStored == UNCHANGED halted /\ Breach
Assess == halted' = Latched /\ Breach

-----------------------------------------------------------------------------
(* The entry loop sizes a position with an assessment of its own ...        *)
EntryAssess(s) ==
    /\ lane[s].step = "idle" /\ position[s] = Nothing /\ trades < MaxTrades
    /\ Assess
    /\ \/ UNCHANGED lane
       \/ \E q \in Quantities :
             /\ ~ForceClose
             /\ StopRisk(Row(price[s], q)) <= RemainingStopRisk
             /\ lane' = [lane EXCEPT ![s] = [step |-> "sized", entry |-> price[s],
                                             quantity |-> q]]
    /\ UNCHANGED <<price, position, trades, cash, realized, kill, guard, day, excused>>

(* ... and checkRuntimeEntry assesses again in the transaction that fills.  *)
Admitted_AsSized(p) == ~ForceClose /\ Cardinality(Open) < MaxPositions
Admitted(p) ==
    /\ ~ForceClose /\ RemainingStopRisk > 0
    /\ Cardinality(Open) < MaxPositions
    /\ Total(Notional) + p.quantity * p.entry <= Greatest(0, Equity)
    /\ StopRisk(p) <= RemainingStopRisk
PersistEntry(s) ==
    /\ lane[s].step = "sized" /\ position[s] = Nothing /\ trades < MaxTrades
    /\ LET p == Row(lane[s].entry, lane[s].quantity) IN
          \/ /\ Admitted(p)
             /\ position' = [position EXCEPT ![s] = p]
             /\ trades' = trades + 1
          \/ UNCHANGED <<position, trades>>
    /\ Assess
    /\ lane' = [lane EXCEPT ![s] = NoLane]
    /\ UNCHANGED <<price, cash, realized, kill, guard, day, excused>>

-----------------------------------------------------------------------------
(* Exits, and what they realise *)

Settle(s, at) ==
    /\ position' = [position EXCEPT ![s] = Nothing]
    /\ cash' = cash + (at - position[s].entry) * position[s].quantity - ExitCosts(s)
    /\ UNCHANGED <<price, trades, realized, halted, kill, lane, day, breached>>

StopFills(s) ==
    /\ s \in Open /\ price[s] <= position[s].stop
    /\ Settle(s, position[s].stop)
    /\ UNCHANGED <<guard, excused>>

(* Target, holding time or an operator, at a price the stop has not reached.*)
OtherExit(s) ==
    /\ s \in Open /\ price[s] > position[s].stop
    /\ Settle(s, price[s])
    /\ UNCHANGED <<guard, excused>>

Trail(s) ==
    /\ s \in Open /\ price[s] - Distance > position[s].stop
    /\ position' = [position EXCEPT ![s].stop = price[s] - Distance]
    /\ UNCHANGED <<price, trades, cash, realized, halted, kill, lane, guard, day,
                   breached, excused>>

-----------------------------------------------------------------------------
(* enforceRuntimeRisk lists the positions, assesses the account and closes  *)
(* what it listed, at the present quote if that is fresh.                   *)

GuardOnly == UNCHANGED <<price, position, trades, cash, realized, kill, lane, day, excused>>
GuardLists ==
    /\ guard.step = "list"
    /\ guard' = [step |-> "assess", listed |-> {position[s].id : s \in Open}]
    /\ UNCHANGED <<halted, breached>> /\ GuardOnly

Forced_KillOnly == kill
Forced == ForceClose
GuardAssesses ==
    /\ guard.step = "assess"
    /\ IF guard.listed = {} THEN UNCHANGED <<halted, breached>> ELSE Assess
    /\ guard' = IF guard.listed # {} /\ Forced THEN [guard EXCEPT !.step = "close"]
                ELSE [step |-> "list", listed |-> {}]
    /\ GuardOnly

Listed(s) == s \in Open /\ position[s].id \in guard.listed
GuardCloses ==
    /\ guard.step = "close"
    /\ \E s \in Symbols :
          /\ Listed(s)
          /\ Settle(s, price[s])
          /\ guard' = [guard EXCEPT !.listed = @ \ {position[s].id}]
          /\ excused' = (excused \/ price[s] < position[s].stop)

(* No fresh quote, or another lane has changed the position meanwhile.      *)
GuardEnds ==
    /\ guard.step = "close"
    /\ guard' = [step |-> "list", listed |-> {}]
    /\ UNCHANGED <<halted, breached>> /\ GuardOnly

Guard == GuardLists \/ GuardAssesses \/ GuardCloses \/ GuardEnds

-----------------------------------------------------------------------------
SetControl ==
    /\ kill' = ~kill
    /\ UNCHANGED <<price, position, trades, cash, realized, halted, lane, guard,
                   day, breached, excused>>

PriceMoves(s) ==
    /\ \E p \in Prices : /\ p \in {price[s] - 1, price[s] + 1}
                         /\ price' = [price EXCEPT ![s] = p]
    /\ UNCHANGED <<position, trades, cash, realized, halted, kill, lane, guard,
                   day, breached, excused>>

(* At midnight UTC the day's cash starts from nothing; what open positions  *)
(* may lose was admitted against the budget of the day before.              *)
NewDay ==
    /\ day < MaxDay
    /\ day' = day + 1 /\ cash' = 0 /\ realized' = realized + cash
    /\ excused' = (excused \/ Open # {})
    /\ UNCHANGED <<price, position, trades, halted, kill, lane, guard, breached>>

RiskNext ==
    \/ \E s \in Symbols :
          \/ EntryAssess(s) \/ PersistEntry(s)
          \/ StopFills(s) \/ OtherExit(s) \/ Trail(s) \/ PriceMoves(s)
    \/ Guard \/ SetControl \/ NewDay

(* The guard goes round, and it does not find every quote stale for ever.   *)
RiskFairness == WF_riskVars(Guard) /\ SF_riskVars(GuardCloses)
RiskSpec == RiskInit /\ [][RiskNext]_riskVars /\ RiskFairness

-----------------------------------------------------------------------------
(* If every open position left at its stop now, the day's loss would stay   *)
(* within its limit and the account would keep its balance, whatever entries*)
(* were sized at the same time; a price that fell through a stop before the *)
(* guard sold, and positions taken over midnight, are excused.              *)
StopRisks == [s \in Open |-> StopRisk(position[s])]
StopsWithinDailyLimit ==
    ~excused => /\ cash - Total(StopRisks) >= -DailyLimit
                /\ InitialBalance + realized + cash - Total(StopRisks) >= 0

(* On a day whose loss was once found to reach the limit nothing is entered *)
(* any more, although prices recover or the kill switch goes on and off, and*)
(* nothing is entered while the switch is on.                               *)
HaltOutlivesRecovery ==
    [][trades' # trades => day \notin breached' /\ ~kill]_riskVars

(* While the kill switch is on or the day is halted, open positions are     *)
(* closed.                                                                  *)
ForcedOut == kill \/ day \in halted
ForcedPositionsClose ==
    \A s \in Symbols : (s \in Open /\ ForcedOut) ~> (s \notin Open \/ ~ForcedOut)
=============================================================================
