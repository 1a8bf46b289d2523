------------------------- MODULE Operations_proofs -------------------------
(***************************************************************************)
(* Theorems about three modules that watch over the trading: the halts and *)
(* the loss limit of RiskGate, the receipts of TradeAudits, and the rows   *)
(* of TradeLedger, which the execution ledger's verifier reads.  The       *)
(* modules share nothing; each theorem is about the specification of one   *)
(* of them.                                                                *)
(***************************************************************************)
EXTENDS RiskGate, TradeAudits, TradeLedger, FiniteSums, SequenceTheorems, TLAPS

(* The halt of a day is stored with the assessment that finds it.          *)
BreachesHalted == breached \subseteq halted

(* An assessment that finds a loss too large also stores the halt.         *)
LEMMA AssessHalts ==
  ASSUME BreachesHalted, Assess
  PROVE  BreachesHalted'
<1>1. CASE ShouldLatch
  BY <1>1 DEF BreachesHalted, Assess, Breach, Latched
<1>2. CASE ~ShouldLatch
  BY <1>2 DEF BreachesHalted, Assess, Breach, Latched
<1> QED
  BY <1>1, <1>2

(* Every step assesses, or leaves halts and breaches alone.                *)
LEMMA HaltOutcome ==
  ASSUME RiskNext
  PROVE  Assess \/ UNCHANGED <<halted, breached>>
<1>1. ASSUME NEW s \in Symbols,
             \/ EntryAssess(s) \/ PersistEntry(s)
             \/ StopFills(s) \/ OtherExit(s) \/ Trail(s) \/ PriceMoves(s)
      PROVE  Assess \/ UNCHANGED <<halted, breached>>
  BY <1>1 DEF EntryAssess, PersistEntry, StopFills, OtherExit, Settle, Trail, PriceMoves
<1>2. CASE Guard
  BY <1>2 DEF Guard, GuardLists, GuardAssesses, GuardCloses, GuardEnds, Settle
<1>3. CASE SetControl \/ NewDay
  BY <1>3 DEF SetControl, NewDay
<1> QED
  BY <1>1, <1>2, <1>3 DEF RiskNext

(* A position is only entered by the transaction that assesses and admits. *)
LEMMA EntryOutcome ==
  ASSUME RiskNext, trades' # trades
  PROVE  Assess /\ ~ForceClose
<1>1. ASSUME NEW s \in Symbols,
             \/ EntryAssess(s) \/ PersistEntry(s)
             \/ StopFills(s) \/ OtherExit(s) \/ Trail(s) \/ PriceMoves(s)
      PROVE  Assess /\ ~ForceClose
  BY <1>1 DEF EntryAssess, PersistEntry, Admitted, StopFills, OtherExit, Settle, Trail, PriceMoves
<1>2. CASE Guard
  BY <1>2 DEF Guard, GuardLists, GuardAssesses, GuardCloses, GuardEnds, Settle, GuardOnly
<1>3. CASE SetControl \/ NewDay
  BY <1>3 DEF SetControl, NewDay
<1> QED
  BY <1>1, <1>2, <1>3 DEF RiskNext

(* On a day whose loss was once found to reach the limit nothing is entered*)
(* any more, and nothing is entered while the kill switch is on, for every *)
(* number of symbols, prices, positions and days (checkRuntimeEntry).      *)
THEOREM HaltsHold == RiskSpec => HaltOutlivesRecovery
<1> DEFINE Step == trades' # trades => day \notin breached' /\ ~kill
<1>1. RiskInit => BreachesHalted
  BY DEF RiskInit, BreachesHalted
<1>2. BreachesHalted /\ [RiskNext]_riskVars => BreachesHalted'
  <2> SUFFICES ASSUME BreachesHalted, [RiskNext]_riskVars PROVE BreachesHalted'
    OBVIOUS
  <2>1. Assess \/ UNCHANGED <<halted, breached>>
    BY HaltOutcome DEF riskVars
  <2> QED
    BY <2>1, AssessHalts DEF BreachesHalted
<1>3. RiskSpec => []BreachesHalted
  BY <1>1, <1>2, PTL DEF RiskSpec
<1>4. BreachesHalted /\ [RiskNext]_riskVars => [Step]_riskVars
  <2> SUFFICES ASSUME BreachesHalted, RiskNext, trades' # trades
               PROVE  day \notin breached' /\ ~kill
    BY DEF riskVars
  <2>1. Assess /\ ~ForceClose
    BY EntryOutcome
  <2>2. ~ShouldLatch /\ day \notin halted /\ ~kill
    BY <2>1 DEF ForceClose, Latched
  <2> QED
    BY <2>1, <2>2 DEF Assess, Breach, BreachesHalted
<1>5. RiskSpec => [][Step]_riskVars
  BY <1>3, <1>4, PTL DEF RiskSpec
<1> QED
  BY <1>5, PTL DEF HaltOutlivesRecovery

-----------------------------------------------------------------------------
(* The rows of RiskGate.                                                   *)
Position == [id : Nat, entry : Nat, stop : Int, quantity : Nat]
RiskRows ==
  /\ price \in [Symbols -> Nat]
  /\ position \in [Symbols -> {Nothing} \cup Position]
  /\ lane \in [Symbols -> [step : {"idle", "sized"}, entry : Nat, quantity : Nat]]
  /\ trades \in Nat /\ cash \in Int /\ realized \in Int /\ excused \in BOOLEAN

(* Products with a quantity keep an order.                                 *)
LEMMA TimesQuantity ==
  ASSUME NEW a \in Int, NEW b \in Int, NEW q \in Nat, a <= b
  PROVE  a * q \in Int /\ b * q \in Int /\ a * q <= b * q
<1>1. a * q \in Int /\ b * q \in Int /\ (b - a) * q >= 0
  OBVIOUS
<1>2. (b - a) * q = b * q - a * q
  OBVIOUS
<1> QED
  BY <1>1, <1>2

(* What a position loses at its stop, at worst, and what of it the account *)
(* has not yet lost by its mark.                                           *)
LEMMA OfPosition ==
  ASSUME RiskRows, NEW s \in Open
  PROVE  /\ Pnl(s) \in Int /\ ExitCosts(s) \in Int /\ StopRisk(position[s]) \in Int
         /\ Net[s] \in Int /\ Loss[s] \in Int /\ Gain[s] \in Int /\ Reserves[s] \in Int
         /\ StopRisks[s] = StopRisk(position[s])
         /\ Net[s] = Gain[s] + Loss[s]
         /\ Loss[s] + StopRisks[s] <= Reserves[s]
<1> DEFINE p == position[s]
<1>1. s \in Symbols /\ p \in Position /\ price[s] \in Nat
  BY DEF RiskRows, Open
<1>2. p.entry \in Int /\ p.stop \in Int /\ p.quantity \in Nat
  BY <1>1 DEF Position
<1>3. Cost \in Nat
  BY RiskAssumption
<1>4. p.quantity * Cost \in Int
  BY <1>2, <1>3
<1>5. (price[s] - p.entry) * p.quantity \in Int
  BY <1>1, <1>2
<1>6. Greatest(0, p.entry - p.stop) \in Int
  BY <1>2 DEF Greatest
<1>7. Greatest(0, p.entry - p.stop) * p.quantity \in Int
  BY <1>2, <1>6
<1> DEFINE e == ExitCosts(s)  n == Pnl(s)  r == StopRisk(p)
<1>8. e \in Int /\ n \in Int /\ r \in Int
  BY <1>4, <1>5, <1>7 DEF ExitCosts, Pnl, StopRisk
<1>9. /\ Net[s] = n - e /\ Loss[s] = Least(0, n) - e /\ Gain[s] = Greatest(0, n)
      /\ Reserves[s] = Greatest(0, r - (Greatest(0, -n) + e)) /\ StopRisks[s] = r
  BY DEF Net, Loss, Gain, Reserves, Reserve, StopRisks
<1> HIDE DEF e, n, r, p
<1>10. /\ n - e \in Int /\ Least(0, n) - e \in Int /\ Greatest(0, n) \in Int
       /\ Greatest(0, r - (Greatest(0, -n) + e)) \in Int
       /\ n - e = Greatest(0, n) + (Least(0, n) - e)
       /\ (Least(0, n) - e) + r <= Greatest(0, r - (Greatest(0, -n) + e))
  BY <1>8 DEF Least, Greatest
<1> QED
  BY <1>8, <1>9, <1>10 DEF e, n, r, p

(* The open positions and what they add up to.                             *)
LEMMA Totals ==
  ASSUME RiskRows
  PROVE  /\ IsFiniteSet(Open)
         /\ Total(StopRisks) \in Int /\ Total(Net) \in Int /\ Total(Loss) \in Int
         /\ Total(Gain) \in Int /\ Total(Reserves) \in Int
         /\ Total(Net) = Total(Gain) + Total(Loss)
         /\ Total(Loss) + Total(StopRisks) <= Total(Reserves)
<1>1. IsFiniteSet(Open)
  BY RiskAssumption, FS_Subset DEF Open
<1>2. \A s \in Open : /\ Net[s] \in Int /\ Loss[s] \in Int /\ Gain[s] \in Int
                      /\ Reserves[s] \in Int /\ StopRisks[s] \in Int
                      /\ Net[s] = Gain[s] + Loss[s]
                      /\ Loss[s] + StopRisks[s] <= Reserves[s]
  BY OfPosition
<1>3. /\ Total(StopRisks) \in Int /\ Total(Net) \in Int /\ Total(Loss) \in Int
      /\ Total(Gain) \in Int /\ Total(Reserves) \in Int
  BY <1>1, <1>2, SumType DEF Total
<1>4. Total(Net) = Total(Gain) + Total(Loss)
  BY <1>1, <1>2, SumsAdd DEF Total
<1>5. Total(Loss) + Total(StopRisks) <= Total(Reserves)
  BY <1>1, <1>2, SumsBelow DEF Total
<1> QED
  BY <1>1, <1>3, <1>4, <1>5

(* remainingExecutionStopBudget: what it leaves is covered by the day's    *)
(* limit and by the balance after every open position left at its stop.    *)
LEMMA BudgetCovers ==
  ASSUME RiskRows, NEW r \in Int, RemainingStopRisk > 0, r <= RemainingStopRisk
  PROVE  /\ r <= DailyLimit + cash - Total(StopRisks)
         /\ r <= InitialBalance + realized + cash - Total(StopRisks)
<1>1. DailyLimit \in Int /\ InitialBalance \in Int /\ cash \in Int /\ realized \in Int
  BY RiskAssumption DEF RiskRows
<1> DEFINE n == Total(Net)  l == Total(Loss)  g == Total(Gain)  v == Total(Reserves)
           k == Total(StopRisks)
<1>2. /\ n \in Int /\ l \in Int /\ g \in Int /\ v \in Int /\ k \in Int
      /\ n = g + l /\ l + k <= v
  BY Totals
<1>3. RemainingStopRisk =
        Greatest(0, Least(DailyLimit + (cash + l), (InitialBalance + realized + cash + n) - g) - v)
  <2>1. DailyPnl = cash + l /\ Equity = InitialBalance + realized + cash + n
    BY DEF DailyPnl, Equity
  <2>2. RemainingStopRisk = Greatest(0, Least(DailyLimit + DailyPnl, Equity - g) - v)
    BY DEF RemainingStopRisk
  <2> HIDE DEF n, l, g, v
  <2> QED
    BY <2>1, <2>2
<1> HIDE DEF n, l, g, v, k
<1>4. /\ r <= DailyLimit + (cash + l) - v
      /\ r <= (InitialBalance + realized + cash + n) - g - v
  BY <1>1, <1>2, <1>3 DEF Least, Greatest
<1>5. /\ r <= DailyLimit + cash - k
      /\ r <= InitialBalance + realized + cash - k
  BY <1>1, <1>2, <1>4
<1> QED
  BY <1>5 DEF k

(* A position that leaves at a price no worse than its stop costs no more  *)
(* than was set aside for it.                                              *)
LEMMA LeavesWithin ==
  ASSUME RiskRows, StopsWithinDailyLimit, NEW s \in Open, NEW at \in Int,
         Settle(s, at), at >= position[s].stop, excused' = excused
  PROVE  StopsWithinDailyLimit'
<1> DEFINE p == position[s]
           k == Total(StopRisks)
           rest == SumFunctionOnSet(StopRisks, Open \ {s})
           gain == (at - p.entry) * p.quantity
           costs == p.quantity * Cost
           risk == StopRisk(p)
<1>1. s \in Symbols /\ p.entry \in Int /\ p.stop \in Int /\ p.quantity \in Nat /\ Cost \in Nat
  BY RiskAssumption DEF RiskRows, Open, Position
<1>2. Open' = Open \ {s} /\ \A x \in Open' : StopRisks'[x] = StopRisks[x]
  BY <1>1 DEF Settle, RiskRows, Open, StopRisks
<1>3. IsFiniteSet(Open) /\ IsFiniteSet(Open') /\ \A x \in Open : StopRisks[x] \in Int
  BY <1>2, Totals, OfPosition, FS_Subset
<1>4. k = StopRisks[s] + rest
  BY <1>3, SumTakes DEF Total
<1>5. Total(StopRisks)' = rest
  <2>1. SumFunctionOnSet(StopRisks', Open') = SumFunctionOnSet(StopRisks, Open')
    BY <1>2, <1>3, SumAlike
  <2> QED
    BY <1>2, <2>1 DEF Total
<1>6. rest \in Int /\ risk \in Int /\ StopRisks[s] = risk
  <2>1. rest \in Int
    BY <1>2, <1>3, SumType
  <2> QED
    BY <2>1, OfPosition
<1>7. gain \in Int /\ costs \in Int
  BY <1>1
<1>8. gain - costs >= -risk
  <2> DEFINE d == Greatest(0, p.entry - p.stop)
  <2>1. d \in Int /\ -d <= at - p.entry /\ -d \in Int /\ at - p.entry \in Int
    BY <1>1 DEF Greatest
  <2>2. risk = d * p.quantity + costs
    BY DEF StopRisk
  <2> HIDE DEF d
  <2>3. (-d) * p.quantity <= gain /\ (-d) * p.quantity \in Int
    BY <1>1, <2>1, TimesQuantity
  <2>4. (-d) * p.quantity = -(d * p.quantity) /\ d * p.quantity \in Int
    BY <1>1, <2>1
  <2> DEFINE m == d * p.quantity
  <2>5. m \in Int /\ -m <= gain /\ risk = m + costs
    BY <2>2, <2>3, <2>4
  <2> HIDE DEF m, gain, costs, risk
  <2> QED
    BY <1>7, <2>5
<1>9. cash' = cash + (gain - costs) /\ realized' = realized
  BY DEF Settle, ExitCosts
<1>10. /\ DailyLimit \in Int /\ InitialBalance \in Int /\ cash \in Int /\ realized \in Int
  BY RiskAssumption DEF RiskRows
<1>11. ~excused => cash - k >= -DailyLimit /\ InitialBalance + realized + cash - k >= 0
  BY DEF StopsWithinDailyLimit
<1>12. ~excused => /\ (cash + (gain - costs)) - rest >= -DailyLimit
                   /\ InitialBalance + realized + ((cash + (gain - costs)) - rest) >= 0
  <2> HIDE DEF k, rest, gain, costs, risk
  <2> QED
    BY <1>4, <1>6, <1>7, <1>8, <1>10, <1>11
<1> HIDE DEF k, rest, gain, costs, risk
<1>13. ~excused' => /\ cash' - Total(StopRisks)' >= -DailyLimit
                    /\ InitialBalance + realized' + cash' - Total(StopRisks)' >= 0
  BY <1>5, <1>9, <1>12
<1> QED
  BY <1>13 DEF StopsWithinDailyLimit

(* A step that changes neither cash nor position.                          *)
LEMMA NothingBooked ==
  ASSUME StopsWithinDailyLimit, UNCHANGED <<position, cash, realized, excused>>
  PROVE  StopsWithinDailyLimit'
  BY DEF StopsWithinDailyLimit, Total, StopRisks, Open, StopRisk

(* The rows of a position that is entered, moved or taken away.            *)
LEMMA RowsKept ==
  ASSUME RiskRows, NEW s \in Symbols, NEW p \in {Nothing} \cup Position,
         position' = [position EXCEPT ![s] = p]
  PROVE  position' \in [Symbols -> {Nothing} \cup Position]
  BY DEF RiskRows

(* One position is entered, or its stop moved: what is set aside for it is *)
(* the only part of the sum that changes.                                  *)
LEMMA RiskReplaced ==
  ASSUME RiskRows, NEW s \in Symbols, NEW p \in Position, p # Nothing,
         position' = [position EXCEPT ![s] = p], StopRisk(p) \in Int
  PROVE  /\ s \notin Open => Total(StopRisks)' = StopRisk(p) + Total(StopRisks)
         /\ s \in Open => Total(StopRisks)' =
                            StopRisk(p) + (Total(StopRisks) - StopRisk(position[s]))
<1> DEFINE rest == SumFunctionOnSet(StopRisks, Open \ {s})
<1>1. Open' = Open \cup {s} /\ StopRisks'[s] = StopRisk(p)
        /\ \A x \in Open' \ {s} : StopRisks'[x] = StopRisks[x]
  BY DEF RiskRows, Open, StopRisks, StopRisk
<1>2. /\ IsFiniteSet(Open) /\ IsFiniteSet(Open') /\ IsFiniteSet(Open \ {s})
      /\ \A x \in Open : StopRisks[x] \in Int
  BY <1>1, Totals, OfPosition, FS_Subset, FS_AddElement
<1>3. \A x \in Open' : StopRisks'[x] \in Int
  BY <1>1, <1>2
<1>4. SumFunctionOnSet(StopRisks', Open') =
        StopRisks'[s] + SumFunctionOnSet(StopRisks', Open' \ {s})
  <2>1. s \in Open'
    BY <1>1
  <2> QED
    BY <1>2, <1>3, <2>1, SumTakes
<1>5. Open' \ {s} = Open \ {s}
  BY <1>1
<1>6. SumFunctionOnSet(StopRisks', Open \ {s}) = rest
  BY <1>1, <1>2, <1>5, SumAlike
<1>7. Total(StopRisks)' = StopRisk(p) + rest
  BY <1>1, <1>4, <1>5, <1>6 DEF Total
<1>8. ASSUME s \notin Open PROVE rest = Total(StopRisks)
  <2>1. Open \ {s} = Open
    BY <1>8
  <2> QED
    BY <2>1 DEF Total
<1>9. ASSUME s \in Open PROVE rest = Total(StopRisks) - StopRisk(position[s])
  <2>1. Total(StopRisks) = StopRisks[s] + rest
    BY <1>2, <1>9, SumTakes DEF Total
  <2>2. StopRisks[s] = StopRisk(position[s]) /\ StopRisk(position[s]) \in Int
    BY <1>9, OfPosition
  <2>3. rest \in Int
    BY <1>2, SumType
  <2> HIDE DEF rest
  <2> QED
    BY <2>1, <2>2, <2>3
<1> HIDE DEF rest
<1> QED
  BY <1>7, <1>8, <1>9

(* The risk of a row is a whole number.                                    *)
LEMMA StopRiskType ==
  ASSUME NEW p, p.entry \in Int, p.stop \in Int, p.quantity \in Nat
  PROVE  StopRisk(p) \in Int
<1> DEFINE d == Greatest(0, p.entry - p.stop)
<1>1. d \in Int
  BY DEF Greatest
<1>2. StopRisk(p) = d * p.quantity + p.quantity * Cost
  BY DEF StopRisk
<1>3. Cost \in Nat
  BY RiskAssumption
<1> HIDE DEF d
<1>4. d * p.quantity \in Int /\ p.quantity * Cost \in Int
  BY <1>1, <1>3
<1> QED
  BY <1>2, <1>4

(* checkRuntimeEntry: what is entered fits into what the stops leave.      *)
LEMMA EntryWithin ==
  ASSUME RiskRows, StopsWithinDailyLimit, NEW s \in Symbols, PersistEntry(s)
  PROVE  RiskRows' /\ StopsWithinDailyLimit'
<1> DEFINE p == Row(lane[s].entry, lane[s].quantity)
<1>1. /\ lane[s].entry \in Nat /\ lane[s].quantity \in Nat /\ Distance \in Nat /\ trades \in Nat
  BY RiskAssumption DEF RiskRows
<1>2. p \in Position
  BY <1>1 DEF Row, Position
<1>3. lane' \in [Symbols -> [step : {"idle", "sized"}, entry : Nat, quantity : Nat]]
  BY DEF RiskRows, PersistEntry, NoLane
<1>4. /\ price' = price /\ cash' = cash /\ realized' = realized /\ excused' = excused
      /\ s \notin Open
  BY DEF PersistEntry, Open
<1>5. CASE UNCHANGED <<position, trades>>
  BY <1>3, <1>4, <1>5, NothingBooked DEF RiskRows
<1>6. CASE Admitted(p) /\ position' = [position EXCEPT ![s] = p] /\ trades' = trades + 1
  <2>1. RiskRows'
    BY <1>1, <1>2, <1>3, <1>4, <1>6, RowsKept DEF RiskRows
  <2>2. StopRisk(p) \in Int /\ p # Nothing
    BY <1>2, StopRiskType, RiskAssumption DEF Position
  <2> HIDE DEF p
  <2>3. Total(StopRisks)' = StopRisk(p) + Total(StopRisks)
    BY <1>2, <1>4, <1>6, <2>2, RiskReplaced
  <2>4. /\ StopRisk(p) <= DailyLimit + cash - Total(StopRisks)
        /\ StopRisk(p) <= InitialBalance + realized + cash - Total(StopRisks)
    BY <1>6, <2>2, BudgetCovers DEF Admitted
  <2>5. Total(StopRisks) \in Int /\ cash \in Int /\ realized \in Int
          /\ DailyLimit \in Int /\ InitialBalance \in Int
    BY Totals, RiskAssumption DEF RiskRows
  <2>6. /\ cash' - Total(StopRisks)' >= -DailyLimit
        /\ InitialBalance + realized' + cash' - Total(StopRisks)' >= 0
    BY <1>4, <2>2, <2>3, <2>4, <2>5
  <2> QED
    BY <2>1, <2>6 DEF StopsWithinDailyLimit
<1> QED
  BY <1>5, <1>6 DEF PersistEntry

(* Whatever a position leaves at, its row is gone and its cash is whole.   *)
LEMMA SettleRows ==
  ASSUME RiskRows, NEW s \in Open, NEW at \in Int, Settle(s, at), excused' \in BOOLEAN
  PROVE  RiskRows'
<1>1. s \in Symbols /\ position[s] \in Position /\ Cost \in Nat
  BY RiskAssumption DEF RiskRows, Open
<1> DEFINE p == position[s]
<1>2. p.entry \in Int /\ p.quantity \in Int /\ cash \in Int
  BY <1>1 DEF Position, RiskRows
<1>3. (at - p.entry) * p.quantity \in Int /\ p.quantity * Cost \in Int
  BY <1>1, <1>2
<1>4. cash' \in Int
  BY <1>2, <1>3 DEF Settle, ExitCosts
<1>5. position' \in [Symbols -> {Nothing} \cup Position]
  BY <1>1, RowsKept DEF Settle
<1> QED
  BY <1>4, <1>5 DEF Settle, RiskRows

(* Exits at the stop and above it.                                         *)
LEMMA ExitWithin ==
  ASSUME RiskRows, StopsWithinDailyLimit, NEW s \in Symbols,
         StopFills(s) \/ OtherExit(s)
  PROVE  RiskRows' /\ StopsWithinDailyLimit'
<1>1. s \in Open
  BY DEF StopFills, OtherExit
<1>2. position[s].stop \in Int /\ price[s] \in Int
  BY <1>1 DEF RiskRows, Open, Position
<1>3. CASE StopFills(s)
  <2>1. Settle(s, position[s].stop) /\ excused' = excused /\ excused' \in BOOLEAN
    BY <1>3 DEF StopFills, RiskRows
  <2> QED
    BY <1>1, <1>2, <2>1, SettleRows, LeavesWithin
<1>4. CASE OtherExit(s)
  <2>1. /\ Settle(s, price[s]) /\ excused' = excused /\ excused' \in BOOLEAN
        /\ price[s] >= position[s].stop
    BY <1>2, <1>4 DEF OtherExit, RiskRows
  <2> QED
    BY <1>1, <1>2, <2>1, SettleRows, LeavesWithin
<1> QED
  BY <1>3, <1>4

(* The guard sells at the present quote; below the stop it is excused.     *)
LEMMA GuardWithin ==
  ASSUME RiskRows, StopsWithinDailyLimit, GuardCloses
  PROVE  RiskRows' /\ StopsWithinDailyLimit'
<1>1. PICK s \in Symbols : /\ s \in Open /\ Settle(s, price[s])
                           /\ excused' = (excused \/ price[s] < position[s].stop)
  BY DEF GuardCloses, Listed
<1>2. position[s].stop \in Int /\ price[s] \in Int /\ s \in Open
  BY <1>1 DEF RiskRows, Open, Position
<1>3. RiskRows'
  <2>1. excused' \in BOOLEAN
    BY <1>1, Zenon
  <2> QED
    BY <1>1, <1>2, <2>1, SettleRows
<1>4. CASE excused'
  BY <1>3, <1>4 DEF StopsWithinDailyLimit
<1>5. CASE ~excused'
  <2>1. ~excused /\ ~(price[s] < position[s].stop)
    BY <1>1, <1>5, Zenon
  <2>2. excused' = excused
    BY <1>1, <1>5, <2>1, Zenon DEF RiskRows
  <2>3. price[s] >= position[s].stop
    BY <1>2, <2>1
  <2> QED
    BY <1>1, <1>2, <1>3, <2>2, <2>3, LeavesWithin
<1> QED
  BY <1>4, <1>5

(* A stop that trails the price only comes nearer to it.                   *)
LEMMA TrailWithin ==
  ASSUME RiskRows, StopsWithinDailyLimit, NEW s \in Symbols, Trail(s)
  PROVE  RiskRows' /\ StopsWithinDailyLimit'
<1> DEFINE old == position[s]
           p == [old EXCEPT !.stop = price[s] - Distance]
<1>1. /\ s \in Open /\ old \in Position /\ price[s] \in Nat
      /\ Distance \in Nat /\ Cost \in Nat /\ cash \in Int /\ realized \in Int
      /\ DailyLimit \in Int /\ InitialBalance \in Int
  BY RiskAssumption DEF Trail, RiskRows, Open
<1>2. /\ p \in Position /\ p.entry = old.entry /\ p.quantity = old.quantity
      /\ p.stop = price[s] - Distance
      /\ old.entry \in Nat /\ old.quantity \in Nat /\ old.stop \in Int
  BY <1>1 DEF Position
<1>3. position' = [position EXCEPT ![s] = p] /\ p.stop > old.stop
  BY <1>2 DEF Trail
<1>4. /\ UNCHANGED <<price, trades, cash, realized, lane, excused>>
  BY DEF Trail
<1>5. RiskRows'
  BY <1>2, <1>3, <1>4, RowsKept DEF RiskRows
<1>6. p # Nothing
  BY <1>2, RiskAssumption DEF Position
<1>7. p.entry \in Int /\ p.stop \in Int /\ p.quantity \in Nat
  BY <1>1, <1>2
<1>8. StopRisk(p) \in Int /\ StopRisk(old) \in Int
  <2> HIDE DEF old, p
  <2> QED
    BY <1>2, <1>7, StopRiskType
<1>9. StopRisk(p) <= StopRisk(old)
  <2> DEFINE d == Greatest(0, old.entry - old.stop)
             n == Greatest(0, p.entry - p.stop)
  <2>1. StopRisk(p) = n * p.quantity + p.quantity * Cost
          /\ StopRisk(old) = d * old.quantity + old.quantity * Cost
    BY DEF StopRisk
  <2> HIDE DEF old, p
  <2>2. d \in Int /\ n \in Int /\ n <= d
    BY <1>2, <1>3, <1>7 DEF Greatest
  <2> HIDE DEF d, n
  <2>3. /\ n * old.quantity \in Int /\ d * old.quantity \in Int
        /\ n * old.quantity <= d * old.quantity
    BY <1>2, <2>2, TimesQuantity
  <2>4. old.quantity * Cost \in Int
    BY <1>1, <1>2
  <2>5. StopRisk(p) = n * old.quantity + old.quantity * Cost
    BY <1>2, <2>1
  <2> QED
    BY <2>1, <2>3, <2>4, <2>5
<1> HIDE DEF p
<1>10. Total(StopRisks)' = StopRisk(p) + (Total(StopRisks) - StopRisk(old))
  BY <1>1, <1>2, <1>3, <1>6, <1>8, RiskReplaced
<1> HIDE DEF old
<1>11. Total(StopRisks) \in Int
  BY Totals
<1>12. ~excused => /\ cash - Total(StopRisks) >= -DailyLimit
                   /\ InitialBalance + realized + cash - Total(StopRisks) >= 0
  BY DEF StopsWithinDailyLimit
<1>13. ~excused' => /\ cash' - Total(StopRisks)' >= -DailyLimit
                    /\ InitialBalance + realized' + cash' - Total(StopRisks)' >= 0
  BY <1>1, <1>4, <1>8, <1>9, <1>10, <1>11, <1>12
<1> QED
  BY <1>5, <1>13 DEF StopsWithinDailyLimit

(* A new day starts without positions, or with an excuse.                  *)
LEMMA DayWithin ==
  ASSUME RiskRows, StopsWithinDailyLimit, NewDay
  PROVE  RiskRows' /\ StopsWithinDailyLimit'
<1>1. /\ cash \in Int /\ realized \in Int /\ DailyLimit \in Nat /\ InitialBalance \in Int
  BY RiskAssumption DEF RiskRows
<1>2. RiskRows'
  BY <1>1 DEF NewDay, RiskRows
<1>3. SUFFICES ASSUME ~excused' PROVE StopsWithinDailyLimit'
  BY <1>2 DEF StopsWithinDailyLimit
<1>4. ~excused /\ Open = {} /\ Open' = {}
  BY <1>3 DEF NewDay, Open
<1>5. Total(StopRisks) = 0 /\ Total(StopRisks)' = 0
  BY <1>4, SumEmpty DEF Total
<1>6. InitialBalance + realized + cash - Total(StopRisks) >= 0
  BY <1>4 DEF StopsWithinDailyLimit
<1>7. cash' = 0 /\ realized' = realized + cash
  BY DEF NewDay
<1>8. /\ cash' - Total(StopRisks)' >= -DailyLimit
      /\ InitialBalance + realized' + cash' - Total(StopRisks)' >= 0
  BY <1>1, <1>5, <1>6, <1>7
<1> QED
  BY <1>8 DEF StopsWithinDailyLimit

(* Steps that book nothing.                                                *)
LEMMA OthersKeep ==
  ASSUME RiskRows, StopsWithinDailyLimit,
         \/ \E s \in Symbols : EntryAssess(s) \/ PriceMoves(s)
         \/ GuardLists \/ GuardAssesses \/ GuardEnds \/ SetControl
         \/ UNCHANGED riskVars
  PROVE  RiskRows' /\ StopsWithinDailyLimit'
<1>1. UNCHANGED <<position, cash, realized, excused, trades>>
  BY DEF EntryAssess, PriceMoves, GuardLists, GuardAssesses, GuardEnds, GuardOnly, SetControl,
         riskVars
<1>2. price' \in [Symbols -> Nat]
  BY RiskAssumption DEF EntryAssess, PriceMoves, GuardLists, GuardAssesses, GuardEnds, GuardOnly,
         SetControl, riskVars, RiskRows
<1>3. lane' \in [Symbols -> [step : {"idle", "sized"}, entry : Nat, quantity : Nat]]
  <2>1. ASSUME NEW s \in Symbols, EntryAssess(s)
        PROVE  lane' \in [Symbols -> [step : {"idle", "sized"}, entry : Nat, quantity : Nat]]
    <3>1. CASE lane' = lane
      BY <3>1 DEF RiskRows
    <3>2. CASE lane' # lane
      <4>1. PICK q \in Quantities : lane' = [lane EXCEPT ![s] = [step |-> "sized",
                                                entry |-> price[s], quantity |-> q]]
        BY <2>1, <3>2 DEF EntryAssess
      <4>2. q \in Nat /\ price[s] \in Nat
        BY RiskAssumption DEF RiskRows
      <4> QED
        BY <4>1, <4>2 DEF RiskRows
    <3> QED
      BY <3>1, <3>2
  <2>2. CASE ~\E s \in Symbols : EntryAssess(s)
    BY <2>2 DEF PriceMoves, GuardLists, GuardAssesses, GuardEnds, GuardOnly,
         SetControl, riskVars, RiskRows
  <2> QED
    BY <2>1, <2>2
<1> QED
  BY <1>1, <1>2, <1>3, NothingBooked DEF RiskRows

(* If every open position left at its stop, the day's loss would stay      *)
(* within its limit and the account would keep its balance, for every      *)
(* number of symbols and every limit, price, quantity, distance and cost   *)
(* (assessExecutionAccount, remainingExecutionStopBudget, checkRuntimeEntry).*)
THEOREM StopsCovered == RiskSpec => []StopsWithinDailyLimit
<1>1. RiskInit => RiskRows /\ StopsWithinDailyLimit
  <2> SUFFICES ASSUME RiskInit PROVE RiskRows /\ StopsWithinDailyLimit
    OBVIOUS
  <2>1. RiskRows
    <3>1. price \in [Symbols -> Nat] /\ lane = [s \in Symbols |-> NoLane]
      BY RiskAssumption DEF RiskInit
    <3>2. NoLane \in [step : {"idle", "sized"}, entry : Nat, quantity : Nat]
      BY DEF NoLane
    <3>3. lane \in [Symbols -> [step : {"idle", "sized"}, entry : Nat, quantity : Nat]]
      <4> HIDE DEF NoLane
      <4> QED
        BY <3>1, <3>2
    <3>4. position \in [Symbols -> {Nothing} \cup Position]
      <4>1. position = [s \in Symbols |-> Nothing]
        BY DEF RiskInit
      <4> QED
        BY <4>1
    <3>5. trades \in Nat /\ cash \in Int /\ realized \in Int
      BY DEF RiskInit
    <3>6. excused \in BOOLEAN
      BY DEF RiskInit
    <3> QED
      BY <3>1, <3>3, <3>4, <3>5, <3>6, Zenon DEF RiskRows
  <2>2. Open = {}
    BY DEF RiskInit, Open
  <2>3. Total(StopRisks) = 0
    BY <2>2, SumEmpty DEF Total
  <2>4. cash = 0 /\ realized = 0 /\ DailyLimit \in Nat /\ InitialBalance \in Nat
    BY RiskAssumption DEF RiskInit
  <2>5. /\ cash - Total(StopRisks) >= -DailyLimit
        /\ InitialBalance + realized + cash - Total(StopRisks) >= 0
    BY <2>3, <2>4
  <2> QED
    BY <2>1, <2>5 DEF StopsWithinDailyLimit
<1>2. RiskRows /\ StopsWithinDailyLimit /\ [RiskNext]_riskVars
        => RiskRows' /\ StopsWithinDailyLimit'
  <2> SUFFICES ASSUME RiskRows, StopsWithinDailyLimit, [RiskNext]_riskVars
               PROVE  RiskRows' /\ StopsWithinDailyLimit'
    OBVIOUS
  <2>1. ASSUME NEW s \in Symbols, EntryAssess(s) \/ PriceMoves(s)
        PROVE  RiskRows' /\ StopsWithinDailyLimit'
    BY <2>1, OthersKeep
  <2>2. ASSUME NEW s \in Symbols, PersistEntry(s)
        PROVE  RiskRows' /\ StopsWithinDailyLimit'
    BY <2>2, EntryWithin
  <2>3. ASSUME NEW s \in Symbols, StopFills(s) \/ OtherExit(s)
        PROVE  RiskRows' /\ StopsWithinDailyLimit'
    BY <2>3, ExitWithin
  <2>4. ASSUME NEW s \in Symbols, Trail(s)
        PROVE  RiskRows' /\ StopsWithinDailyLimit'
    BY <2>4, TrailWithin
  <2>5. CASE GuardCloses
    BY <2>5, GuardWithin
  <2>6. CASE NewDay
    BY <2>6, DayWithin
  <2>7. CASE GuardLists \/ GuardAssesses \/ GuardEnds \/ SetControl \/ UNCHANGED riskVars
    BY <2>7, OthersKeep
  <2> QED
    BY <2>1, <2>2, <2>3, <2>4, <2>5, <2>6, <2>7 DEF RiskNext, Guard
<1> QED
  BY <1>1, <1>2, PTL DEF RiskSpec

-----------------------------------------------------------------------------
(* The trade audits.  A job, what a process does, and a state.json whose   *)
(* latest outcomes are those of their receipts.                            *)
Job == [attempts : {0} \cup Numbers, active : {0} \cup Numbers,
        latest : {None} \cup [number : Numbers, outcome : Outcomes], due : BOOLEAN]
Activity == [step : {"none", "start", "restart", "run", "complete", "save"},
             trade : {0} \cup AuditedTrades, outcome : {"none"} \cup Outcomes]
Process ==
  {p \in [phase : {"down", "recover", "verify", "discover", "pick", "check"},
          verify : SUBSET AuditedTrades, task : Activity] :
     p.phase = "down" => p.task.step = "none"}
Receipts == [Attempts -> {"none", "torn"} \cup Outcomes]

Witnessed(t, job, files) ==
  job.latest # None => files[<<t, job.latest.number>>] = job.latest.outcome

Fields == {"job", "known", "cursor", "asOf", "seen", "missing"}
GoodState(state, files) ==
  /\ state = [f \in Fields |-> state[f]]
  /\ state.job \in [AuditedTrades -> Job]
  /\ state.known \subseteq AuditedTrades
  /\ \A t \in AuditedTrades : Witnessed(t, state.job[t], files)

(* An attempt that is being settled has its receipt before the job says so.*)
GoodTask(task, state, files) ==
  /\ task.step # "none" => task.trade \in AuditedTrades
  /\ task.step \in {"run", "complete", "save"} => state.job[task.trade].active \in Numbers
  /\ task.step \in {"complete", "save"} => task.outcome \in Outcomes
  /\ task.step = "save" => files[<<task.trade, state.job[task.trade].active>>] = task.outcome

AuditBooks ==
  /\ inventory \in [created : Nat, committed : SUBSET AuditedTrades]
  /\ receipt \in Receipts
  /\ process \in [Monitors -> Process]
  /\ memory = [m \in Monitors |-> memory[m]]
  /\ GoodState(disk, receipt)
  /\ \A m \in Monitors : /\ GoodState(memory[m], receipt)
                         /\ GoodTask(process[m].task, memory[m], receipt)

(* A receipt that was written whole is never written again.                *)
Lasting(files, later) ==
  /\ later \in Receipts
  /\ \A a \in Attempts : files[a] \in Outcomes => later[a] = files[a]

(* A state stays good while receipts are added.                            *)
LEMMA StateLasts ==
  ASSUME NEW state, NEW files, NEW later, GoodState(state, files), Lasting(files, later)
  PROVE  GoodState(state, later)
<1> SUFFICES ASSUME NEW t \in AuditedTrades PROVE Witnessed(t, state.job[t], later)
  BY DEF GoodState
<1>1. Witnessed(t, state.job[t], files) /\ state.job[t] \in Job
  BY DEF GoodState
<1>2. CASE state.job[t].latest = None
  BY <1>2 DEF Witnessed
<1>3. CASE state.job[t].latest # None
  <2>1. state.job[t].latest.number \in Numbers /\ state.job[t].latest.outcome \in Outcomes
    BY <1>1, <1>3 DEF Job
  <2>2. <<t, state.job[t].latest.number>> \in Attempts
    BY <2>1 DEF Attempts
  <2> QED
    BY <1>1, <2>1, <2>2 DEF Witnessed, Lasting
<1> QED
  BY <1>2, <1>3

(* So does a task.                                                         *)
LEMMA TaskLasts ==
  ASSUME NEW task, NEW state, NEW files, NEW later, GoodTask(task, state, files),
         Lasting(files, later)
  PROVE  GoodTask(task, state, later)
<1>1. task.step = "save" => <<task.trade, state.job[task.trade].active>> \in Attempts
  BY DEF GoodTask, Attempts
<1> QED
  BY <1>1 DEF GoodTask, Lasting

(* The job of one trade is replaced by one whose latest outcome has its    *)
(* receipt.                                                                *)
LEMMA JobReplaced ==
  ASSUME NEW state, NEW files, GoodState(state, files), NEW t \in AuditedTrades,
         NEW job \in Job, Witnessed(t, job, files)
  PROVE  /\ GoodState([state EXCEPT !.job[t] = job], files)
         /\ [state EXCEPT !.job[t] = job].job[t] = job
<1> DEFINE next == [state EXCEPT !.job[t] = job]
<1>1. /\ next.job = [state.job EXCEPT ![t] = job] /\ next.known = state.known
      /\ next = [f \in Fields |-> next[f]]
  BY DEF GoodState, Fields
<1> HIDE DEF next
<1>2. next.job \in [AuditedTrades -> Job] /\ next.job[t] = job
        /\ \A x \in AuditedTrades : x # t => next.job[x] = state.job[x]
  BY <1>1 DEF GoodState
<1>3. GoodState(next, files)
  BY <1>1, <1>2 DEF GoodState
<1> QED
  BY <1>2, <1>3 DEF next

(* A step of one monitor, and of what it saves.                            *)
LEMMA MonitorStep ==
  ASSUME AuditBooks, NEW m \in Monitors, NEW p \in Process, NEW state,
         process' = [process EXCEPT ![m] = p], memory' = [memory EXCEPT ![m] = state],
         disk' = disk \/ disk' = state, inventory' = inventory,
         Lasting(receipt, receipt'), GoodState(state, receipt'),
         GoodTask(p.task, state, receipt')
  PROVE  AuditBooks'
<1>1. process' \in [Monitors -> Process] /\ receipt' \in Receipts
  BY DEF AuditBooks, Lasting
<1>2. memory' = [i \in Monitors |-> memory'[i]] /\ memory'[m] = state /\ process'[m] = p
  BY DEF AuditBooks
<1>3. GoodState(disk', receipt')
  BY StateLasts DEF AuditBooks
<1>4. ASSUME NEW i \in Monitors
      PROVE  GoodState(memory'[i], receipt') /\ GoodTask(process'[i].task, memory'[i], receipt')
  <2>1. CASE i = m
    BY <1>2, <2>1
  <2>2. CASE i # m
    <3>1. memory'[i] = memory[i] /\ process'[i] = process[i]
      BY <2>2 DEF AuditBooks
    <3>2. GoodState(memory[i], receipt) /\ GoodTask(process[i].task, memory[i], receipt)
      BY DEF AuditBooks
    <3> QED
      BY <3>1, <3>2, StateLasts, TaskLasts
  <2> QED
    BY <2>1, <2>2
<1> QED
  BY <1>1, <1>2, <1>3, <1>4 DEF AuditBooks

(* A step that touches neither the states nor the tasks.                   *)
LEMMA WorldStep ==
  ASSUME AuditBooks, process' = process, memory' = memory, disk' = disk, receipt' = receipt,
         inventory' \in [created : Nat, committed : SUBSET AuditedTrades]
  PROVE  AuditBooks'
  BY DEF AuditBooks

(* What a monitor does next is set, and its phase is kept.                 *)
LEMMA TaskSet ==
  ASSUME NEW p \in Process, NEW task \in Activity, p.phase # "down"
  PROVE  [p EXCEPT !.task = task] \in Process /\ [p EXCEPT !.task = task].task = task
  BY DEF Process

(* A step of one monitor that saves nothing new and writes no receipt.     *)
LEMMA ProcessStep ==
  ASSUME AuditBooks, NEW m \in Monitors, NEW p \in Process,
         process' = [process EXCEPT ![m] = p], GoodTask(p.task, memory[m], receipt),
         disk' = disk \/ disk' = memory[m],
         UNCHANGED <<inventory, receipt, memory>>
  PROVE  AuditBooks'
<1>1. memory' = [memory EXCEPT ![m] = memory[m]] /\ GoodState(memory[m], receipt)
  BY DEF AuditBooks
<1>2. Lasting(receipt, receipt')
  BY DEF AuditBooks, Lasting
<1> QED
  BY <1>1, <1>2, MonitorStep

(* A task that follows from what the monitor has in memory.                *)
LEMMA TaskStep ==
  ASSUME AuditBooks, NEW m \in Monitors, NEW task \in Activity,
         process[m].phase # "down", process' = [process EXCEPT ![m].task = task],
         GoodTask(task, memory[m], receipt),
         disk' = disk, UNCHANGED <<inventory, receipt, memory>>
  PROVE  AuditBooks'
<1> DEFINE p == [process[m] EXCEPT !.task = task]
<1>1. process' = [process EXCEPT ![m] = p]
  OBVIOUS
<1>2. p \in Process /\ p.task = task
  BY TaskSet DEF AuditBooks
<1> HIDE DEF p
<1> QED
  BY <1>1, <1>2, ProcessStep

(* A step that saves one job and writes no receipt.                        *)
LEMMA SaveStep ==
  ASSUME AuditBooks, NEW m \in Monitors, NEW t \in AuditedTrades, NEW job \in Job,
         Witnessed(t, job, receipt), SaveJob(m, t, job), NEW task \in Activity,
         process[m].phase # "down", process' = [process EXCEPT ![m].task = task],
         UNCHANGED <<inventory, receipt>>,
         task.step # "none" => task.trade = t, task.step # "save",
         task.step \in {"run", "complete"} => job.active \in Numbers,
         task.step = "complete" => task.outcome \in Outcomes
  PROVE  AuditBooks'
<1> DEFINE p == [process[m] EXCEPT !.task = task]
           state == [memory[m] EXCEPT !.job[t] = job]
<1>1. process' = [process EXCEPT ![m] = p] /\ memory' = [memory EXCEPT ![m] = state]
        /\ disk' = state /\ inventory' = inventory
  BY DEF SaveJob, Save
<1>2. p \in Process /\ p.task = task
  BY TaskSet DEF AuditBooks
<1>3. GoodState(memory[m], receipt)
  BY DEF AuditBooks
<1>4. GoodState(state, receipt) /\ state.job[t] = job
  BY <1>3, JobReplaced
<1>5. Lasting(receipt, receipt') /\ receipt' = receipt
  BY DEF AuditBooks, Lasting
<1> HIDE DEF p, state
<1>6. GoodTask(p.task, state, receipt') /\ GoodState(state, receipt')
  BY <1>2, <1>4, <1>5 DEF GoodTask, Activity
<1> QED
  BY <1>1, <1>2, <1>5, <1>6, MonitorStep

(* The attempt a monitor has in hand is of a trade of the inventory.       *)
LEMMA TaskInHand ==
  ASSUME AuditBooks, NEW m \in Monitors, process[m].task.step # "none"
  PROVE  /\ Trade(m) \in AuditedTrades /\ JobOf(m) \in Job /\ process[m].phase # "down"
         /\ Witnessed(Trade(m), JobOf(m), receipt)
         /\ GoodTask(process[m].task, memory[m], receipt)
<1>1. GoodTask(process[m].task, memory[m], receipt) /\ GoodState(memory[m], receipt)
  BY DEF AuditBooks
<1>2. Trade(m) \in AuditedTrades
  BY <1>1 DEF GoodTask, Trade
<1>3. process[m].phase # "down"
  BY DEF AuditBooks, Process
<1> QED
  BY <1>1, <1>2, <1>3 DEF GoodState, JobOf

(* start: the attempt is numbered before anything is run.                  *)
LEMMA StartKeeps ==
  ASSUME AuditBooks, NEW m \in Monitors, Start(m)
  PROVE  AuditBooks'
<1> DEFINE t == Trade(m)
           n == JobOf(m).attempts + 1
           job == [JobOf(m) EXCEPT !.attempts = n, !.active = n]
<1>1. t \in AuditedTrades /\ JobOf(m) \in Job /\ Witnessed(t, JobOf(m), receipt)
        /\ process[m].phase # "down"
  BY TaskInHand DEF Start
<1>2. n \in Numbers /\ SaveJob(m, t, job) /\ inventory' = inventory /\ receipt' = receipt
  BY DEF Start
<1>3. job \in Job /\ job.active = n /\ job.latest = JobOf(m).latest
  BY <1>1, <1>2 DEF Job
<1>4. PICK task \in Activity :
         /\ process' = [process EXCEPT ![m].task = task]
         /\ task.step \in {"run", "complete"} /\ task.trade = t
         /\ task.step = "complete" => task.outcome \in Outcomes
  <2>1. CASE process[m].task.step = "start"
    <3> DEFINE task == [step |-> "run", trade |-> t, outcome |-> "none"]
    <3>1. task \in Activity /\ process' = [process EXCEPT ![m].task = task]
      BY <1>1, <2>1 DEF Start, Task, Activity
    <3> QED
      BY <3>1
  <2>2. CASE process[m].task.step # "start"
    <3> DEFINE task == [step |-> "complete", trade |-> t, outcome |-> "error"]
    <3>1. task \in Activity /\ process' = [process EXCEPT ![m].task = task]
      BY <1>1, <2>2 DEF Start, Task, Activity, Outcomes
    <3> QED
      BY <3>1 DEF Outcomes
  <2> QED
    BY <2>1, <2>2
<1>5. Witnessed(t, job, receipt)
  BY <1>1, <1>3 DEF Witnessed
<1> HIDE DEF job, n, t
<1> QED
  BY <1>1, <1>2, <1>3, <1>4, <1>5, SaveStep

(* processJob: the result of the child that exited is read back.           *)
LEMMA RunEndedKeeps ==
  ASSUME AuditBooks, NEW m \in Monitors, RunEnded(m)
  PROVE  AuditBooks'
<1> DEFINE a == <<Trade(m), JobOf(m).active>>
           task == [step |-> "complete", trade |-> Trade(m), outcome |-> Outcome(a)]
<1>1. /\ Trade(m) \in AuditedTrades /\ GoodTask(process[m].task, memory[m], receipt)
      /\ process[m].task.step = "run" /\ process[m].phase # "down"
  BY TaskInHand DEF RunEnded
<1>2. Outcome(a) \in Outcomes
  BY DEF Outcome, Outcomes
<1> HIDE DEF a
<1>3. task \in Activity
  BY <1>1, <1>2 DEF Activity
<1>4. GoodTask(task, memory[m], receipt)
  BY <1>1, <1>2 DEF GoodTask, Trade
<1>5. process' = [process EXCEPT ![m].task = task] /\ disk' = disk
        /\ UNCHANGED <<inventory, receipt, memory>>
  BY DEF RunEnded, Task, Files, a
<1> HIDE DEF task
<1> QED
  BY <1>1, <1>3, <1>4, <1>5, TaskStep

(* A process that ends loses its memory and its task.                      *)
LEMMA EndKeeps ==
  ASSUME AuditBooks, NEW m \in Monitors, process' = [process EXCEPT ![m] = Down],
         memory' = [memory EXCEPT ![m] = EmptyState], disk' = disk, inventory' = inventory,
         Lasting(receipt, receipt')
  PROVE  AuditBooks'
<1>1. Down \in Process /\ GoodTask(Down.task, EmptyState, receipt')
  BY DEF Down, Resting, Process, Activity, GoodTask
<1>2. GoodState(EmptyState, receipt')
  <2>1. Unknown \in Job /\ Unknown.latest = None
    BY DEF Unknown, NewJob, Job, None
  <2> HIDE DEF Unknown
  <2> QED
    BY <2>1 DEF EmptyState, GoodState, Fields, Witnessed
<1> QED
  BY <1>1, <1>2, MonitorStep

(* complete: the receipt is written if there is none; otherwise the process*)
(* ends.                                                                   *)
LEMMA ReceiptKeeps ==
  ASSUME AuditBooks, NEW m \in Monitors, WriteReceipt(m)
  PROVE  AuditBooks'
<1>0. /\ Trade(m) \in AuditedTrades /\ GoodTask(process[m].task, memory[m], receipt)
      /\ process[m].task.step = "complete" /\ process[m].phase # "down"
  BY TaskInHand DEF WriteReceipt
<1>1. PICK a \in Attempts : a = <<Trade(m), JobOf(m).active>>
  BY <1>0 DEF GoodTask, JobOf, Trade, Attempts
<1>2. disk' = disk /\ inventory' = inventory
  BY DEF WriteReceipt
<1>3. CASE Fresh(a)
  <2> DEFINE task == [process[m].task EXCEPT !.step = "save"]
             p == [process[m] EXCEPT !.task = task]
  <2>1. /\ receipt' = [receipt EXCEPT ![a] = process[m].task.outcome]
        /\ process' = [process EXCEPT ![m].task.step = "save"] /\ memory' = memory
    BY <1>1, <1>3 DEF WriteReceipt
  <2>2. process' = [process EXCEPT ![m] = p]
    BY <2>1
  <2>3. process[m] \in Process /\ process[m].task \in Activity
    BY DEF AuditBooks, Process
  <2>4. task \in Activity /\ task.step = "save" /\ task.trade = Trade(m)
          /\ task.outcome = process[m].task.outcome
    BY <2>3 DEF Activity, Trade
  <2>5. p \in Process /\ p.task = task
    BY <1>0, <2>3, <2>4, TaskSet
  <2>6. process[m].task.outcome \in Outcomes
    BY <1>0 DEF GoodTask
  <2>7. Lasting(receipt, receipt') /\ receipt'[a] = process[m].task.outcome
    BY <1>3, <2>1, <2>6 DEF Lasting, AuditBooks, Receipts, Fresh, Outcomes
  <2>8. GoodState(memory[m], receipt') /\ memory' = [memory EXCEPT ![m] = memory[m]]
    BY <2>1, <2>7, StateLasts DEF AuditBooks
  <2> HIDE DEF task, p
  <2>9. GoodTask(task, memory[m], receipt')
    BY <1>0, <1>1, <2>4, <2>6, <2>7 DEF GoodTask, JobOf, Trade
  <2> QED
    BY <1>2, <2>2, <2>5, <2>7, <2>8, <2>9, MonitorStep
<1>4. CASE ~Fresh(a)
  <2>1. /\ process' = [process EXCEPT ![m] = Down] /\ receipt' = receipt
        /\ memory' = [memory EXCEPT ![m] = EmptyState]
    BY <1>1, <1>4 DEF WriteReceipt
  <2>2. Lasting(receipt, receipt')
    BY <2>1 DEF Lasting, AuditBooks
  <2> QED
    BY <1>2, <2>1, <2>2, EndKeeps
<1> QED
  BY <1>3, <1>4

(* The job that is settled says what the receipt of its attempt says.      *)
LEMMA SettledJob ==
  ASSUME NEW t \in AuditedTrades, NEW job \in Job, job.active \in Numbers,
         NEW outcome \in Outcomes, NEW files, files[<<t, job.active>>] = outcome
  PROVE  /\ Settled(job, outcome) \in Job /\ Witnessed(t, Settled(job, outcome), files)
         /\ Settled(job, outcome).active = 0
<1> DEFINE latest == [number |-> job.active, outcome |-> outcome]
           next == Settled(job, outcome)
<1>1. latest \in [number : Numbers, outcome : Outcomes]
  OBVIOUS
<1>2. next \in Job /\ next.latest = latest /\ next.active = 0
  BY <1>1 DEF Settled, Job
<1> QED
  BY <1>2 DEF Witnessed

(* ... then the job.                                                       *)
LEMMA SaveLatestKeeps ==
  ASSUME AuditBooks, NEW m \in Monitors, SaveLatest(m)
  PROVE  AuditBooks'
<1> DEFINE job == Settled(JobOf(m), process[m].task.outcome)
<1>1. /\ Trade(m) \in AuditedTrades /\ JobOf(m) \in Job
      /\ GoodTask(process[m].task, memory[m], receipt) /\ process[m].task.step = "save"
      /\ process[m].phase # "down"
  BY TaskInHand DEF SaveLatest
<1>2. /\ JobOf(m).active \in Numbers /\ process[m].task.outcome \in Outcomes
      /\ receipt[<<Trade(m), JobOf(m).active>>] = process[m].task.outcome
  BY <1>1 DEF GoodTask, JobOf, Trade
<1>3. job \in Job /\ Witnessed(Trade(m), job, receipt)
  BY <1>1, <1>2, SettledJob
<1>4. /\ SaveJob(m, Trade(m), job) /\ process' = [process EXCEPT ![m].task = Resting]
      /\ UNCHANGED <<inventory, receipt>>
  BY DEF SaveLatest, Files
<1>5. Resting \in Activity /\ Resting.step = "none"
  BY DEF Resting, Activity
<1> HIDE DEF job
<1> QED
  BY <1>1, <1>3, <1>4, <1>5, SaveStep

(* A monitor that opens reads what was saved last.                         *)
LEMMA OpenKeeps ==
  ASSUME AuditBooks, NEW m \in Monitors, OpenMonitor(m)
  PROVE  AuditBooks'
<1> DEFINE p == [process[m] EXCEPT !.phase = "recover"]
<1>1. /\ process' = [process EXCEPT ![m] = p] /\ memory' = [memory EXCEPT ![m] = disk]
      /\ disk' = disk /\ inventory' = inventory /\ receipt' = receipt
      /\ process[m].phase = "down"
  BY DEF OpenMonitor
<1>2. p \in Process /\ p.task = process[m].task /\ p.task.step = "none"
  BY <1>1 DEF AuditBooks, Process
<1> HIDE DEF p
<1>3. Lasting(receipt, receipt') /\ GoodState(disk, receipt')
  BY <1>1 DEF AuditBooks, Lasting
<1> SUFFICES GoodTask(p.task, disk, receipt')
  BY <1>1, <1>2, <1>3, MonitorStep
<1> QED
  BY <1>2 DEF GoodTask

(* recover: an interrupted attempt is settled by its receipt, gives way to *)
(* another one, or gets the receipt it lacks.                              *)
LEMMA RecoverKeeps ==
  ASSUME AuditBooks, NEW m \in Monitors, Recover(m)
  PROVE  AuditBooks'
<1>1. GoodState(memory[m], receipt)
  BY DEF AuditBooks
<1>2. PICK t \in Interrupted(m) :
        LET job == memory[m].job[t]
            a == <<t, job.active>>
        IN  \/ /\ receipt[a] \in Outcomes
               /\ SaveJob(m, t, Settled(job, receipt[a]))
               /\ UNCHANGED process
            \/ /\ receipt[a] = "torn"
               /\ SaveJob(m, t, [job EXCEPT !.active = 0])
               /\ Task(m, "restart", t, "error")
            \/ /\ receipt[a] = "none"
               /\ Task(m, "complete", t, Outcome(a))
               /\ UNCHANGED <<memory, disk>>
  BY DEF Recover
<1> DEFINE job == memory[m].job[t]
           a == <<t, job.active>>
<1>3. t \in AuditedTrades /\ job \in Job /\ Witnessed(t, job, receipt) /\ job.active # 0
  BY <1>1 DEF Interrupted, GoodState
<1>4. job.active \in Numbers
  BY <1>3 DEF Job
<1>5. inventory' = inventory /\ receipt' = receipt
  BY DEF Recover, Files
<1>6. process[m].task.step = "none" /\ process[m].task \in Activity /\ process[m].phase # "down"
  BY DEF Recover, At, AuditBooks, Process
<1>7. CASE receipt[a] \in Outcomes /\ SaveJob(m, t, Settled(job, receipt[a])) /\ UNCHANGED process
  <2> DEFINE next == Settled(job, receipt[a])
             task == process[m].task
  <2>1. next \in Job /\ Witnessed(t, next, receipt)
    BY <1>3, <1>4, <1>7, SettledJob
  <2>2. process' = [process EXCEPT ![m].task = task]
    BY <1>7 DEF AuditBooks, Process
  <2>3. SaveJob(m, t, next) /\ task \in Activity /\ task.step = "none"
    BY <1>6, <1>7
  <2> HIDE DEF next, task
  <2> QED
    BY <1>3, <1>5, <1>6, <2>1, <2>2, <2>3, SaveStep
<1>8. CASE SaveJob(m, t, [job EXCEPT !.active = 0]) /\ Task(m, "restart", t, "error")
  <2> DEFINE next == [job EXCEPT !.active = 0]
             task == [step |-> "restart", trade |-> t, outcome |-> "error"]
  <2>1. next \in Job /\ next.latest = job.latest
    BY <1>3 DEF Job
  <2>2. process' = [process EXCEPT ![m].task = task] /\ task \in Activity
    BY <1>3, <1>8 DEF Task, Activity, Outcomes
  <2>3. Witnessed(t, next, receipt)
    BY <1>3, <2>1 DEF Witnessed
  <2>4. SaveJob(m, t, next) /\ task.step = "restart" /\ task.trade = t
    BY <1>8
  <2> HIDE DEF next, task
  <2> QED
    BY <1>3, <1>5, <1>6, <2>1, <2>2, <2>3, <2>4, SaveStep
<1>9. CASE Task(m, "complete", t, Outcome(a)) /\ UNCHANGED <<memory, disk>>
  <2> DEFINE task == [step |-> "complete", trade |-> t, outcome |-> Outcome(a)]
  <2>1. Outcome(a) \in Outcomes
    BY DEF Outcome, Outcomes
  <2>2. task \in Activity /\ GoodTask(task, memory[m], receipt)
    BY <1>3, <1>4, <2>1 DEF Activity, GoodTask
  <2>3. process' = [process EXCEPT ![m].task = task]
    BY <1>9 DEF Task
  <2> HIDE DEF task
  <2> QED
    BY <1>5, <1>6, <1>9, <2>2, <2>3, TaskStep
<1> HIDE DEF job, a
<1> QED
  BY <1>2, <1>7, <1>8, <1>9 DEF job, a

(* A step that sets a phase and a task and keeps what is remembered.       *)
LEMMA RoundStep ==
  ASSUME AuditBooks, NEW m \in Monitors, NEW p \in Process, process' = [process EXCEPT ![m] = p],
         p.task.step \in {"none", "start", "restart"},
         p.task.step # "none" => p.task.trade \in AuditedTrades,
         disk' = disk \/ disk' = memory[m], UNCHANGED memory, Files
  PROVE  AuditBooks'
<1>1. GoodTask(p.task, memory[m], receipt)
  BY DEF GoodTask
<1> QED
  BY <1>1, ProcessStep DEF Files

(* The rounds of the loop that save nothing new.                           *)
LEMMA RoundKeeps ==
  ASSUME AuditBooks, NEW m \in Monitors,
         Recovered(m) \/ VerifyLatest(m) \/ PickJob(m) \/ VerifyStorage(m)
  PROVE  AuditBooks'
<1>1. process[m] \in Process /\ memory[m].known \subseteq AuditedTrades
  BY DEF AuditBooks, GoodState
<1>2. Resting \in Activity /\ Resting.step = "none"
  BY DEF Resting, Activity
<1>3. CASE Recovered(m)
  <2> DEFINE p == [process[m] EXCEPT !.phase = "verify",
                                     !.verify = {t \in memory[m].known : Backed(m, t)}]
  <2>1. process' = [process EXCEPT ![m] = p]
    BY <1>3 DEF Recovered
  <2>2. p \in Process /\ p.task.step = "none"
    BY <1>1, <1>3 DEF Recovered, At, Process
  <2>3. disk' = disk /\ UNCHANGED memory /\ Files
    BY <1>3 DEF Recovered
  <2> HIDE DEF p
  <2> QED
    BY <2>1, <2>2, <2>3, RoundStep
<1>4. CASE VerifyLatest(m)
  <2>1. CASE process[m].verify = {}
    <3> DEFINE p == [process[m] EXCEPT !.phase = "discover"]
    <3>1. process' = [process EXCEPT ![m] = p] /\ disk' = memory[m]
      BY <1>4, <2>1 DEF VerifyLatest
    <3>2. p \in Process /\ p.task.step = "none"
      BY <1>1, <1>4 DEF VerifyLatest, At, Process
    <3>3. UNCHANGED memory /\ Files
      BY <1>4 DEF VerifyLatest
    <3> HIDE DEF p
    <3> QED
      BY <3>1, <3>2, <3>3, RoundStep
  <2>2. CASE process[m].verify # {}
    <3>1. PICK t \in process[m].verify :
             process' = [process EXCEPT ![m].verify = @ \ {t},
               ![m].task = IF ~Spoiled(m, t) THEN Resting
                           ELSE [step |-> "restart", trade |-> t, outcome |-> "error"]]
      BY <1>4, <2>2 DEF VerifyLatest
    <3> DEFINE task == IF ~Spoiled(m, t) THEN Resting
                       ELSE [step |-> "restart", trade |-> t, outcome |-> "error"]
               p == [process[m] EXCEPT !.verify = @ \ {t}, !.task = task]
    <3>2. process' = [process EXCEPT ![m] = p]
      BY <3>1
    <3>3. t \in AuditedTrades
      BY <1>1 DEF Process
    <3>4. /\ task \in Activity /\ task.step \in {"none", "restart"}
          /\ task.step # "none" => task.trade \in AuditedTrades
      BY <1>2, <3>3 DEF Activity, Outcomes
    <3> HIDE DEF task
    <3>5. p \in Process /\ p.task = task
      BY <1>1, <1>4, <3>4 DEF VerifyLatest, At, Process
    <3>6. disk' = disk /\ UNCHANGED memory /\ Files
      BY <1>4, <2>2 DEF VerifyLatest
    <3> HIDE DEF p
    <3> QED
      BY <3>2, <3>4, <3>5, <3>6, RoundStep
  <2> QED
    BY <2>1, <2>2
<1>5. ASSUME NEW phase \in {"discover", "check"}, NEW task \in Activity,
             task.step \in {"none", "start", "restart"},
             task.step # "none" => task.trade \in AuditedTrades, NextRound(m, phase, task)
      PROVE  AuditBooks'
  <2> DEFINE p == [process[m] EXCEPT !.phase = phase, !.task = task]
  <2>1. process' = [process EXCEPT ![m] = p] /\ disk' = disk /\ UNCHANGED memory /\ Files
    BY <1>5 DEF NextRound
  <2>2. p \in Process /\ p.task = task
    BY <1>1 DEF Process
  <2> HIDE DEF p
  <2> QED
    BY <1>5, <2>1, <2>2, RoundStep
<1>6. ASSUME NEW t \in memory[m].known,
             NextRound(m, "discover", [step |-> "restart", trade |-> t, outcome |-> "error"])
      PROVE  AuditBooks'
  <2> DEFINE task == [step |-> "restart", trade |-> t, outcome |-> "error"]
  <2>1. task \in Activity /\ task.step = "restart" /\ task.trade \in AuditedTrades
    BY <1>1 DEF Activity, Outcomes
  <2>2. NextRound(m, "discover", task)
    BY <1>6
  <2> HIDE DEF task
  <2> QED
    BY <1>5, <2>1, <2>2
<1>7. CASE PickJob(m)
  <2>1. ASSUME NEW t \in Due(m), NextRound(m, "discover", [Resting EXCEPT !.step = "start", !.trade = t])
        PROVE  AuditBooks'
    <3> DEFINE task == [Resting EXCEPT !.step = "start", !.trade = t]
    <3>1. t \in AuditedTrades
      BY <1>1 DEF Due
    <3>2. task \in Activity /\ task.step = "start" /\ task.trade = t
      BY <1>2, <3>1 DEF Activity
    <3> HIDE DEF task
    <3> QED
      BY <1>5, <2>1, <3>1, <3>2 DEF task
  <2> QED
    BY <1>2, <1>5, <1>7, <2>1 DEF PickJob
<1>8. CASE VerifyStorage(m)
  BY <1>2, <1>5, <1>6, <1>8 DEF VerifyStorage
<1> QED
  BY <1>3, <1>4, <1>7, <1>8

(* discover: trades of a page that are new get a job without outcome.      *)
LEMMA DiscoverKeeps ==
  ASSUME AuditBooks, NEW m \in Monitors, Discover(m)
  PROVE  AuditBooks'
<1>1. GoodState(memory[m], receipt) /\ process[m] \in Process
        /\ inventory.committed \subseteq AuditedTrades
  BY DEF AuditBooks
<1> DEFINE p == [process[m] EXCEPT !.phase = "pick"]
<1>2. PICK page, state :
         /\ page \in SUBSET AuditedTrades
         /\ memory' = [memory EXCEPT ![m] = state] /\ disk' = state
         /\ state = [f \in Fields |-> state[f]]
         /\ state.known = memory[m].known \cup page
         /\ state.job = [t \in AuditedTrades |->
                          IF t \in page \ memory[m].known THEN NewJob ELSE memory[m].job[t]]
  <2> DEFINE old == memory[m]
             asOf == IF old.asOf = 0 THEN inventory.created ELSE old.asOf
             page == Page(m, asOf)
             done == Cardinality(page) < PageSize
             seen == old.seen \cup page
             known == old.known \cup page
             job == [t \in AuditedTrades |-> IF t \in page \ old.known THEN NewJob
                                      ELSE old.job[t]]
             nextSeen == IF done THEN {} ELSE seen
             cursor == IF done THEN 0 ELSE CHOOSE t \in page : \A x \in page : x <= t
             nextAsOf == IF done THEN 0 ELSE asOf
             missing == done /\ \E t \in known : t <= asOf /\ t \notin seen
             state == [old EXCEPT !.known = known, !.job = job, !.seen = nextSeen,
                                  !.cursor = cursor, !.asOf = nextAsOf, !.missing = missing]
  <2>1. memory' = [memory EXCEPT ![m] = state] /\ disk' = state
    BY DEF Discover, Save
  <2>2. page \in SUBSET AuditedTrades
    BY <1>1 DEF Page
  <2> HIDE DEF page, seen, nextSeen, cursor, nextAsOf, asOf, missing, done
  <2>3. state = [f \in Fields |-> state[f]] /\ state.job = job /\ state.known = known
    <3> HIDE DEF job, known
    <3> QED
      BY <1>1 DEF GoodState, Fields
  <2> HIDE DEF state
  <2> QED
    BY <2>1, <2>2, <2>3
<1>3. memory' = [memory EXCEPT ![m] = state] /\ disk' = state
  BY <1>2
<1>4. NewJob \in Job /\ NewJob.latest = None
  BY DEF NewJob, Job
<1>5. ASSUME NEW t \in AuditedTrades
      PROVE  state.job[t] \in Job /\ Witnessed(t, state.job[t], receipt)
  <2>1. memory[m].job[t] \in Job /\ Witnessed(t, memory[m].job[t], receipt)
    BY <1>1 DEF GoodState
  <2>2. state.job[t] = IF t \in page \ memory[m].known THEN NewJob ELSE memory[m].job[t]
    BY <1>2
  <2> HIDE DEF NewJob
  <2> QED
    BY <1>4, <2>1, <2>2 DEF Witnessed
<1>6. state.job \in [AuditedTrades -> Job]
  <2>1. state.job = [t \in AuditedTrades |-> state.job[t]]
    BY <1>2
  <2> QED
    BY <1>5, <2>1
<1>7. GoodState(state, receipt)
  <2>1. state = [f \in Fields |-> state[f]] /\ state.known \subseteq AuditedTrades
    BY <1>1, <1>2 DEF GoodState
  <2> QED
    BY <1>5, <1>6, <2>1 DEF GoodState
<1>8. process' = [process EXCEPT ![m] = p] /\ inventory' = inventory /\ receipt' = receipt
  BY DEF Discover, Files
<1>9. p \in Process /\ p.task.step = "none"
  BY <1>1 DEF Discover, At, Process
<1> HIDE DEF p
<1>10. Lasting(receipt, receipt') /\ GoodState(state, receipt') /\ GoodTask(p.task, state, receipt')
  BY <1>7, <1>8, <1>9 DEF AuditBooks, Lasting, GoodTask
<1> QED
  BY <1>3, <1>8, <1>9, <1>10, MonitorStep

(* A process may end at any moment, or while it writes a receipt.          *)
LEMMA CrashKeeps ==
  ASSUME AuditBooks, NEW m \in Monitors, Crash(m) \/ Notice(m)
  PROVE  AuditBooks'
<1>1. /\ process' = [process EXCEPT ![m] = Down]
      /\ memory' = [memory EXCEPT ![m] = EmptyState]
      /\ disk' = disk /\ inventory' = inventory
  BY DEF Crash, Notice, Ends
<1>2. Lasting(receipt, receipt')
  <2>1. CASE receipt' = receipt
    BY <2>1 DEF Lasting, AuditBooks
  <2>2. CASE receipt' # receipt
    <3> DEFINE a == <<Trade(m), JobOf(m).active>>
    <3>1. /\ process[m].task.step = "complete" /\ receipt[a] = "none"
          /\ receipt' = [receipt EXCEPT ![a] = "torn"]
      BY <2>2 DEF Crash, Notice
    <3> HIDE DEF a
    <3> QED
      BY <3>1 DEF Lasting, AuditBooks, Receipts, Outcomes
  <2> QED
    BY <2>1, <2>2
<1> QED
  BY <1>1, <1>2, EndKeeps

(* The books of the audits in the first state.                             *)
LEMMA AuditBooksInit == AuditInit => AuditBooks
<1> SUFFICES ASSUME AuditInit PROVE AuditBooks
  OBVIOUS
<1>1. Unknown \in Job /\ Unknown.latest = None
  BY DEF Unknown, NewJob, Job, None
<1>2. GoodState(EmptyState, receipt)
  <2> HIDE DEF Unknown
  <2> QED
    BY <1>1 DEF EmptyState, GoodState, Fields, Witnessed
<1>3. Down \in Process /\ Down.task.step = "none"
  BY DEF Down, Resting, Process, Activity
<1>4. \A m \in Monitors : process[m] = Down /\ memory[m] = EmptyState
  BY DEF AuditInit
<1>5. \A m \in Monitors : GoodTask(process[m].task, memory[m], receipt)
  BY <1>3, <1>4 DEF GoodTask
<1>6. disk = EmptyState /\ receipt \in Receipts
        /\ memory = [m \in Monitors |-> memory[m]] /\ process \in [Monitors -> Process]
        /\ inventory \in [created : Nat, committed : SUBSET AuditedTrades]
  BY <1>3 DEF AuditInit, Receipts
<1> QED
  BY <1>2, <1>4, <1>5, <1>6 DEF AuditBooks

(* Every step keeps the books of the audits.                               *)
LEMMA AuditBooksStep ==
  ASSUME AuditBooks, [AuditNext]_auditVars
  PROVE  AuditBooks'
<1>1. CASE UNCHANGED auditVars
  BY <1>1, WorldStep DEF auditVars, AuditBooks
<1>2. ASSUME CreateTrade \/ CommitTrade PROVE AuditBooks'
  <2>1. inventory' \in [created : Nat, committed : SUBSET AuditedTrades]
    BY <1>2, AuditAssumption DEF CreateTrade, CommitTrade, AuditBooks
  <2> QED
    BY <1>2, <2>1, WorldStep DEF CreateTrade, CommitTrade
<1>3. ASSUME NEW a \in Attempts, ChildWrites(a) \/ ChildFails(a) \/ ResultSpoiled(a)
      PROVE  AuditBooks'
  BY <1>3, WorldStep DEF ChildWrites, ChildFails, ResultSpoiled, AuditBooks
<1>4. ASSUME NEW m \in Monitors, SessionLost(m) PROVE AuditBooks'
  BY <1>4, WorldStep DEF SessionLost, AuditBooks
<1>5. ASSUME NEW m \in Monitors, Work(m) PROVE AuditBooks'
  BY <1>5, StartKeeps, RunEndedKeeps, ReceiptKeeps, SaveLatestKeeps, RecoverKeeps, RoundKeeps,
     DiscoverKeeps DEF Work
<1> QED
  BY <1>1, <1>2, <1>3, <1>4, <1>5, OpenKeeps, CrashKeeps DEF AuditNext

(* The outcome a trade is shown with is the one of its receipt, for every  *)
(* number of monitors, trades, attempts and faults: processes end between  *)
(* any two writes or while they write a receipt, lose their session and go *)
(* on, and their children run after them (TradeAuditMonitor).              *)
THEOREM OutcomesHaveReceipts == AuditSpec => []OutcomeIsReceipt
<1>1. AuditBooks => OutcomeIsReceipt
  <2> SUFFICES ASSUME AuditBooks, NEW t \in AuditedTrades,
                      NEW state \in {disk} \cup {memory[m] : m \in Monitors},
                      state.job[t].latest # None
               PROVE  receipt[<<t, state.job[t].latest.number>>] = state.job[t].latest.outcome
    BY DEF OutcomeIsReceipt
  <2>1. GoodState(state, receipt)
    BY DEF AuditBooks
  <2> QED
    BY <2>1 DEF GoodState, Witnessed
<1>2. AuditBooks /\ [AuditNext]_auditVars => AuditBooks'
  BY AuditBooksStep
<1> QED
  BY <1>1, <1>2, AuditBooksInit, PTL DEF AuditSpec

-----------------------------------------------------------------------------
(***************************************************************************)
(* TradeLedger.  LedgerInv relates the rows of the account to each other,  *)
(* RowsVerify follows from it.  A step keeps what was stored (LedgerKept)  *)
(* and what was decided of a run (RunsKept); so the rows that it does not  *)
(* touch keep their part of the invariant, and every action only has to    *)
(* show its own part for the rows that it writes.                          *)
(***************************************************************************)

(* The rows of the ledger.                                                 *)
TickRow == [at : Nat, received : Nat, stream : Nat, book : Nat, bookAt : Nat,
            taker : {"none", "Buy", "Sell", "block"}]
SignalRow == [status : {"none", "pending", "done"}, detected : Nat, decided : Nat,
              event : Nat, order : Nat]
OrderRow == [run : AccountRuns, kind : {"entry", "exit"}, tif : {"IOC", "PostOnly", "whole"},
             quantity : Nat, event : Nat, stream : Nat, at : Nat, expires : Nat,
             status : {"OPEN", "FILLED", "CANCELLED"}, filled : Nat, cancelled : Nat]
FillRow == [order : Nat, event : Nat, at : Nat, quantity : Nat, capacity : Int,
            own : Nat, public : Nat]
HoldingRow == [status : {"NONE", "OPEN", "CLOSED"}, quantity : Nat, remaining : Nat,
               openedAt : Nat, closedAt : Nat, event : Nat, requested : BOOLEAN, order : Nat]
BookedRow == [quantity : Nat, openedAt : Nat, closedAt : Nat]
LedgerType ==
  /\ clock \in Nat
  /\ ticks \in Seq(TickRow) /\ Len(ticks) >= 1 /\ ticks[1].book # 0
  /\ signals \in [AccountRuns -> SignalRow]
  /\ orders \in Seq(OrderRow)
  /\ fills \in Seq(FillRow)
  /\ positions \in [AccountRuns -> HoldingRow]
  /\ decisions \in [AccountRuns -> [opens : Seq(Nat), closes : Nat]]
  /\ booked \in [AccountRuns -> Seq(BookedRow)]

(* Events are stored in the order of their times, before the clock.        *)
TicksInOrder ==
  /\ \A i \in Events : ticks[i].at <= ticks[i].received /\ ticks[i].received <= clock
  /\ \A i, j \in Events : i <= j => /\ ticks[i].at <= ticks[j].at
                                    /\ ticks[i].received <= ticks[j].received

(* What an order was placed with.                                          *)
EntryPlaced(o) ==
  /\ o.quantity = Wanted
  /\ o.expires = Expires(o.run)
  /\ signals[o.run].status # "none" /\ signals[o.run].decided <= o.at
  /\ o.tif = IF o.run \in Market THEN "IOC" ELSE "PostOnly"
ExitPlaced(o) ==
  /\ o.tif # "PostOnly"
  /\ o.tif = "IOC" => o.run \in ByBook
  /\ positions[o.run].status # "NONE"
OrderPlaced(o) ==
  /\ o.event \in Events /\ ticks[o.event].received <= o.at /\ o.at <= clock
  /\ o.quantity >= 1
  /\ o.kind = "entry" => EntryPlaced(o)
  /\ o.kind = "exit" => ExitPlaced(o)
OrderEnded(o) ==
  /\ o.status = "OPEN" => o.filled = 0 /\ o.cancelled = 0
  /\ o.status # "OPEN" => /\ o.filled + o.cancelled = o.quantity
                          /\ (o.status = "FILLED") <=> (o.filled = o.quantity)

(* A fill belongs to an order that it ended, and is its only one.          *)
FillPlaced(f) ==
  LET row == fills[f] IN
  /\ row.order \in 1..Len(orders)
  /\ row.event \in Events /\ row.at = ticks[row.event].at
  /\ row.quantity >= 1
  /\ orders[row.order].status # "OPEN" /\ orders[row.order].filled = row.quantity
  /\ row.event <= positions[orders[row.order].run].event
OnlyFills ==
  /\ \A f, g \in 1..Len(fills) : fills[f].order = fills[g].order => f = g
  /\ \A id \in 1..Len(orders) :
       orders[id].filled # 0 => \E f \in 1..Len(fills) : fills[f].order = id

(* What is read off a receipt, and of its source.                          *)
ReceiptHolds(f) ==
  LET o == orders[fills[f].order] IN
  o.tif # "whole" =>
    /\ Reproduced(f)
    /\ fills[f].quantity <= OfReceipt(f)
    /\ o.kind = "exit" => fills[f].quantity = OfReceipt(f)
    /\ o.tif = "IOC" => BookHeld(f)
SourceHolds(f) ==
  LET o == orders[fills[f].order] IN
  o.tif # "whole" => \A key \in {SourceKey(o, fills[f].event)} : SourceNotReused(key)

(* The order that a signal or a position names is the one that is at work. *)
EntryAtWork(r) ==
  LET s == signals[r] IN
  /\ s.order # 0 => /\ s.order \in 1..Len(orders)
                    /\ orders[s.order].run = r /\ orders[s.order].kind = "entry"
                    /\ s.status = "pending" => orders[s.order].status = "OPEN"
  /\ s.status = "none" => s.order = 0
  /\ s.decided <= clock
  /\ s.status # "done" => positions[r] = NoHolding
ExitAtWork(r) ==
  LET p == positions[r] IN
  p.order # 0 => /\ p.status = "OPEN"
                 /\ p.order \in 1..Len(orders)
                 /\ orders[p.order].run = r /\ orders[p.order].kind = "exit"
                 /\ orders[p.order].tif = "IOC" /\ orders[p.order].status = "OPEN"
                 /\ orders[p.order].quantity = p.remaining
OrderAtWork(id) ==
  LET o == orders[id] IN
  /\ o.kind = "entry" => /\ signals[o.run].order = id
                         /\ o.status = "OPEN" => signals[o.run].status = "pending"
  /\ o.kind = "exit" /\ o.status = "OPEN" => positions[o.run].order = id

(* The fills of a run.                                                     *)
OfRun(r, kind) ==
  {f \in 1..Len(fills) : orders[fills[f].order].run = r /\ orders[fills[f].order].kind = kind}
Entered(r, f) ==
  LET d == decisions[r].opens[1]
      row == fills[f]
  IN /\ row.quantity = positions[r].quantity /\ row.at = positions[r].openedAt
     /\ d < orders[row.order].expires /\ d >= ticks[row.event].received
     /\ r \in Market => d - row.at <= EntryTtl
     /\ row.at >= signals[r].decided

(* The stages of a position.                                               *)
NotEntered(r) ==
  /\ positions[r] = NoHolding
  /\ decisions[r].opens = <<>> /\ decisions[r].closes = 0 /\ booked[r] = <<>>
  /\ OfRun(r, "entry") = {} /\ OfRun(r, "exit") = {}
HoldingEntered(r) ==
  LET p == positions[r] IN
  /\ p.status # "NONE"
  /\ p.quantity >= 1 /\ p.event \in Events /\ p.openedAt <= ticks[p.event].at
  /\ Len(decisions[r].opens) = 1
  /\ \E f \in OfRun(r, "entry") : Entered(r, f)
HoldingOpen(r) ==
  LET p == positions[r] IN
  /\ p.status = "OPEN" /\ p.remaining >= 1
  /\ decisions[r].closes = 0 /\ booked[r] = <<>>
  /\ r \notin ByBook => ~p.requested /\ OfRun(r, "exit") = {}
HoldingClosed(r) ==
  LET p == positions[r] IN
  /\ p.status = "CLOSED" /\ p.remaining = 0
  /\ decisions[r].closes = 1 /\ booked[r] = <<TradeOf(p)>>
  /\ p.closedAt = ticks[p.event].at
  /\ \E f \in OfRun(r, "exit") : fills[f].event = p.event
  /\ r \notin ByBook => \A f, g \in OfRun(r, "exit") : f = g
Stages(r) ==
  \/ NotEntered(r)
  \/ HoldingEntered(r) /\ (HoldingOpen(r) \/ HoldingClosed(r))
SoldByFills(r) == SumFunctionOnSet(FillQuantities, OfRun(r, "exit"))
Balance(r) == SoldByFills(r) + positions[r].remaining = positions[r].quantity

LedgerInv ==
  /\ LedgerType /\ TicksInOrder /\ OnlyFills
  /\ \A id \in 1..Len(orders) : OrderPlaced(orders[id]) /\ OrderEnded(orders[id]) /\ OrderAtWork(id)
  /\ \A f \in 1..Len(fills) : FillPlaced(f) /\ ReceiptHolds(f) /\ SourceHolds(f)
  /\ \A r \in AccountRuns : EntryAtWork(r) /\ ExitAtWork(r) /\ Stages(r) /\ Balance(r)

(* The fields of a row.                                                    *)
LEMMA TickFields ==
  ASSUME LedgerType, NEW e \in Events
  PROVE  /\ ticks[e].at \in Nat /\ ticks[e].received \in Nat /\ ticks[e].stream \in Nat
         /\ ticks[e].book \in Nat /\ ticks[e].bookAt \in Nat
<1>1. ticks[e] \in TickRow
  BY ElementOfSeq DEF LedgerType, Events
<1> QED
  BY <1>1 DEF TickRow

(* The fields of an order.                                                 *)
LEMMA OrderFields ==
  ASSUME LedgerType, NEW id \in 1..Len(orders)
  PROVE  /\ orders[id] \in OrderRow
         /\ orders[id].run \in AccountRuns /\ orders[id].kind \in {"entry", "exit"}
         /\ orders[id].tif \in {"IOC", "PostOnly", "whole"}
         /\ orders[id].status \in {"OPEN", "FILLED", "CANCELLED"}
         /\ orders[id].quantity \in Nat /\ orders[id].event \in Nat
         /\ orders[id].stream \in Nat /\ orders[id].at \in Nat /\ orders[id].expires \in Nat
         /\ orders[id].filled \in Nat /\ orders[id].cancelled \in Nat
<1>1. orders[id] \in OrderRow
  BY ElementOfSeq DEF LedgerType
<1> QED
  BY <1>1 DEF OrderRow

(* The fields of a fill.                                                   *)
LEMMA FillFields ==
  ASSUME LedgerType, NEW f \in 1..Len(fills)
  PROVE  /\ fills[f].order \in Nat /\ fills[f].event \in Nat /\ fills[f].at \in Nat
         /\ fills[f].quantity \in Nat /\ fills[f].capacity \in Int
         /\ fills[f].own \in Nat /\ fills[f].public \in Nat
<1>1. fills[f] \in FillRow
  BY ElementOfSeq DEF LedgerType
<1> QED
  BY <1>1 DEF FillRow

(* Rows are numbered from one.                                             *)
LEMMA Lengths ==
  ASSUME LedgerType
  PROVE  /\ Len(ticks) \in Nat /\ Len(orders) \in Nat /\ Len(fills) \in Nat
         /\ Events = 1..Len(ticks) /\ 1 \in Events /\ LastTick \in Events
<1>1. Len(ticks) \in Nat /\ Len(orders) \in Nat /\ Len(fills) \in Nat
  BY LenProperties DEF LedgerType
<1> QED
  BY <1>1 DEF LedgerType, Events, LastTick

(* The quantity that is left of an order and a capacity.                   *)
LEMMA LesserOfTwo ==
  ASSUME NEW a \in Int, NEW b \in Int
  PROVE  /\ Min({a, b}) \in Int /\ Min({a, b}) <= a /\ Min({a, b}) <= b
         /\ Min({a, b}) = a \/ Min({a, b}) = b
<1>1. \E x \in {a, b} : \A y \in {a, b} : x <= y
  BY a <= b \/ b <= a
<1>2. Min({a, b}) \in {a, b} /\ \A y \in {a, b} : Min({a, b}) <= y
  BY <1>1 DEF Min
<1> QED
  BY <1>2

(* What an event offers an order is a whole number.                        *)
LEMMA CapacityType ==
  ASSUME TradeAssumption, NEW o, NEW e, o.tif \in {"IOC", "PostOnly"}
  PROVE  Capacity(o, e) \in Int
<1>1. MakerShare \in Int /\ Depth \in Int /\ Size \in Int
  BY DEF TradeAssumption
<1>2. CASE o.tif = "PostOnly"
  BY <1>1, <1>2 DEF Capacity
<1>3. CASE o.tif = "IOC"
  BY <1>1, <1>3 DEF Capacity
<1> QED
  BY <1>2, <1>3

(* What is left of it is never more than is offered less what was taken.   *)
LEMMA AvailableWithin ==
  ASSUME TradeAssumption, NEW o, NEW e, o.tif \in {"IOC", "PostOnly"}, o.quantity \in Int,
         NEW c \in Int
  PROVE  /\ Available(o, e, c) \in Int /\ Available(o, e, c) <= o.quantity
         /\ Available(o, e, c) <= Capacity(o, e) - c
<1> DEFINE room == Capacity(o, e) - c
<1>1. room \in Int
  BY CapacityType
<1> HIDE DEF room
<1>2. /\ Min({o.quantity, room}) \in Int /\ Min({o.quantity, room}) <= o.quantity
      /\ Min({o.quantity, room}) <= room
  BY <1>1, LesserOfTwo
<1> QED
  BY <1>2 DEF Available, room

-----------------------------------------------------------------------------
(* What every step keeps: stored events and fills, and the terms of every  *)
(* order.                                                                  *)
SameTerms(o, p) ==
  /\ p.run = o.run /\ p.kind = o.kind /\ p.tif = o.tif /\ p.quantity = o.quantity
  /\ p.event = o.event /\ p.stream = o.stream /\ p.at = o.at /\ p.expires = o.expires
LedgerKept ==
  /\ Len(ticks) <= Len(ticks') /\ \A e \in 1..Len(ticks) : ticks'[e] = ticks[e]
  /\ Len(orders) <= Len(orders')
  /\ \A id \in 1..Len(orders) : SameTerms(orders[id], orders'[id])
  /\ Len(fills) <= Len(fills') /\ \A f \in 1..Len(fills) : fills'[f] = fills[f]

(* A receipt is read again as it was.                                      *)
LEMMA ReceiptKept ==
  ASSUME LedgerType, LedgerKept, NEW f \in 1..Len(fills), FillPlaced(f)
  PROVE  /\ Reproduced(f) => Reproduced(f)'
         /\ OfReceipt(f)' = OfReceipt(f)
         /\ BookHeld(f) => BookHeld(f)'
<1> DEFINE id == fills[f].order
           e == fills[f].event
<1>1. /\ id \in 1..Len(orders) /\ e \in 1..Len(ticks)
      /\ fills'[f] = fills[f] /\ ticks'[e] = ticks[e] /\ SameTerms(orders[id], orders'[id])
  BY DEF FillPlaced, LedgerKept, Events
<1>2. Reproduced(f) => Reproduced(f)'
  BY <1>1 DEF Reproduced, Evaluate, Over, AfterSubmission, BookFresh, Reached, Offered,
              BookAfterSubmission, Available, Capacity, Side, SameTerms
<1>3. OfReceipt(f)' = OfReceipt(f)
  BY <1>1 DEF OfReceipt, Available, Capacity, Side, SameTerms
<1>4. BookHeld(f) => BookHeld(f)'
  <2>1. \A i \in 1..e : ticks'[i] = ticks[i]
    <3>1. Len(ticks) \in Nat /\ e \in 1..Len(ticks)
      BY <1>1, Lengths
    <3> HIDE DEF e
    <3>2. \A i \in 1..e : i \in 1..Len(ticks)
      BY <3>1
    <3> QED
      BY <3>2 DEF LedgerKept
  <2>2. Side(orders[id])' = Side(orders[id])
    BY <1>1 DEF Side, SameTerms
  <2>3. {i \in 1..e : /\ ticks'[i].stream = ticks'[e].stream /\ ticks'[i].book = ticks'[e].book
                      /\ ticks'[i].at > ticks'[e].bookAt /\ ticks'[i].taker = Side(orders[id])'}
        = {i \in 1..e : /\ ticks[i].stream = ticks[e].stream /\ ticks[i].book = ticks[e].book
                        /\ ticks[i].at > ticks[e].bookAt /\ ticks[i].taker = Side(orders[id])}
    BY <1>1, <2>1, <2>2
  <2> QED
    BY <1>1, <2>3 DEF BookHeld
<1> QED
  BY <1>2, <1>3, <1>4

-----------------------------------------------------------------------------
(* Sums of the quantities of fills.                                        *)
LEMMA QuantityTypes ==
  ASSUME LedgerType
  PROVE  \A f \in 1..Len(fills) : FillQuantities[f] = fills[f].quantity /\ FillQuantities[f] \in Nat
BY FillFields DEF FillQuantities

(* A set of fills is finite.                                               *)
LEMMA SomeFills ==
  ASSUME LedgerType, NEW S \in SUBSET (1..Len(fills))
  PROVE  IsFiniteSet(S) /\ SumFunctionOnSet(FillQuantities, S) \in Nat
<1>1. IsFiniteSet(S)
  <2>1. IsFiniteSet(1..Len(fills))
    BY Lengths, FS_Interval
  <2> QED
    BY <2>1, FS_Subset
<1>2. \A f \in S : FillQuantities[f] \in Nat
  BY QuantityTypes
<1> QED
  BY <1>1, <1>2, SumNat

(* What old fills took stays what it was.                                  *)
LEMMA SumStays ==
  ASSUME LedgerType, LedgerType', LedgerKept, NEW S \in SUBSET (1..Len(fills))
  PROVE  SumFunctionOnSet(FillQuantities', S) = SumFunctionOnSet(FillQuantities, S)
<1>1. Len(fills) \in Nat /\ Len(fills') \in Nat /\ Len(fills) <= Len(fills')
  BY Lengths DEF LedgerType, LedgerKept
<1>2. \A f \in S : f \in 1..Len(fills) /\ f \in 1..Len(fills')
  BY <1>1
<1>3. \A f \in S : FillQuantities'[f] = FillQuantities[f]
  BY <1>2 DEF FillQuantities, LedgerKept
<1> QED
  BY <1>3, SomeFills, SumAlike

(* A new fill adds its quantity.                                           *)
LEMMA SumWithNew ==
  ASSUME LedgerType, LedgerType', LedgerKept, NEW S \in SUBSET (1..Len(fills)),
         NEW n, n \in 1..Len(fills'), n \notin 1..Len(fills)
  PROVE  /\ SumFunctionOnSet(FillQuantities', S \cup {n})
              = SumFunctionOnSet(FillQuantities, S) + fills'[n].quantity
         /\ fills'[n].quantity \in Nat
<1>1. Len(fills) \in Nat /\ Len(fills') \in Nat /\ Len(fills) <= Len(fills')
  BY Lengths DEF LedgerType, LedgerKept
<1>2. FillQuantities'[n] = fills'[n].quantity /\ fills'[n].quantity \in Nat
  <2>1. fills'[n] \in FillRow
    BY <1>1, ElementOfSeq DEF LedgerType
  <2> QED
    BY <2>1 DEF FillQuantities, FillRow
<1>3. \A f \in S : FillQuantities[f] \in Int /\ FillQuantities'[f] = FillQuantities[f]
  <2>1. \A f \in S : f \in 1..Len(fills) /\ f \in 1..Len(fills')
    BY <1>1
  <2> QED
    BY <2>1, QuantityTypes DEF FillQuantities, LedgerKept
<1>4. IsFiniteSet(S) /\ n \notin S
  BY SomeFills
<1>5. FillQuantities'[n] \in Int
  BY <1>2
<1>6. \A U, e : /\ IsFiniteSet(U) /\ e \notin U /\ FillQuantities'[e] \in Int
                /\ \A f \in U : FillQuantities[f] \in Int /\ FillQuantities'[f] = FillQuantities[f]
                => SumFunctionOnSet(FillQuantities', U \cup {e})
                     = SumFunctionOnSet(FillQuantities, U) + FillQuantities'[e]
  BY SumGrows
<1>7. SumFunctionOnSet(FillQuantities', S \cup {n}) = SumFunctionOnSet(FillQuantities, S) + FillQuantities'[n]
  BY <1>3, <1>4, <1>5, <1>6, Zenon
<1> QED
  BY <1>2, <1>7

(* The fills of a source in the next state that were there before.         *)
LEMMA SourceKept ==
  ASSUME LedgerType, LedgerType', LedgerKept, \A f \in 1..Len(fills) : FillPlaced(f), NEW key
  PROVE  /\ FromSource(key) \in SUBSET (1..Len(fills))
         /\ FromSource(key)' \in SUBSET (1..Len(fills'))
         /\ {f \in FromSource(key)' : f \in 1..Len(fills)} = FromSource(key)
<1>1. ASSUME NEW f \in 1..Len(fills)
      PROVE  f \in 1..Len(fills') /\ (f \in FromSource(key)' <=> f \in FromSource(key))
  <2> DEFINE id == fills[f].order
             e == fills[f].event
  <2>1. /\ id \in 1..Len(orders) /\ e \in 1..Len(ticks)
        /\ fills'[f] = fills[f] /\ ticks'[e] = ticks[e] /\ SameTerms(orders[id], orders'[id])
    BY <1>1 DEF FillPlaced, LedgerKept, Events
  <2>2. f \in 1..Len(fills')
    BY <1>1, Lengths DEF LedgerType, LedgerKept
  <2>3. SourceKey(orders[id], e)' = SourceKey(orders[id], e)
    BY <2>1 DEF SourceKey, Side, SameTerms
  <2> QED
    BY <1>1, <2>1, <2>2, <2>3 DEF FromSource, SameTerms
<1> QED
  BY <1>1 DEF FromSource

(* A source that a step does not take from gives no more than before.      *)
LEMMA SourceUntouched ==
  ASSUME LedgerType, LedgerType', LedgerKept, \A f \in 1..Len(fills) : FillPlaced(f),
         NEW key, FromSource(key)' \in SUBSET (1..Len(fills)), SourceNotReused(key)
  PROVE  SourceNotReused(key)'
<1>1. FromSource(key)' = FromSource(key) /\ FromSource(key) \in SUBSET (1..Len(fills))
  BY SourceKept
<1>2. SumFunctionOnSet(FillQuantities', FromSource(key)') = SumFunctionOnSet(FillQuantities, FromSource(key))
  BY <1>1, SumStays
<1>3. \A f \in FromSource(key) : fills'[f] = fills[f]
  BY <1>1 DEF LedgerKept
<1> QED
  BY <1>1, <1>2, <1>3 DEF SourceNotReused

(* A fill that names all earlier takings of its source and fits.           *)
LEMMA SourceTaken ==
  ASSUME LedgerType, LedgerType', LedgerKept, \A f \in 1..Len(fills) : FillPlaced(f),
         NEW key, NEW n, n \in 1..Len(fills'), n \notin 1..Len(fills), n \in FromSource(key)',
         \A f \in FromSource(key)' : f \in 1..Len(fills) \/ f = n,
         fills'[n].own = SumFunctionOnSet(FillQuantities, FromSource(key)),
         fills'[n].own + fills'[n].quantity <= fills'[n].capacity
  PROVE  SourceNotReused(key)'
<1>1. FromSource(key)' = FromSource(key) \cup {n} /\ FromSource(key) \in SUBSET (1..Len(fills))
  BY SourceKept
<1>2. SumFunctionOnSet(FillQuantities', FromSource(key)')
        = SumFunctionOnSet(FillQuantities, FromSource(key)) + fills'[n].quantity
  BY <1>1, SumWithNew
<1>3. SumFunctionOnSet(FillQuantities', FromSource(key)') <= fills'[n].capacity
  BY <1>2
<1> QED
  BY <1>3 DEF SourceNotReused

(* Steps whose new fills, if any, are those of whole orders.               *)
LEMMA SourcesStay ==
  ASSUME LedgerType, LedgerType', LedgerKept,
         \A f \in 1..Len(fills) : FillPlaced(f) /\ SourceHolds(f),
         \A f \in 1..Len(fills') : f \in 1..Len(fills) \/ orders'[fills'[f].order].tif = "whole"
  PROVE  \A f \in 1..Len(fills') : SourceHolds(f)'
<1> SUFFICES ASSUME NEW f \in 1..Len(fills'), orders'[fills'[f].order].tif # "whole",
                    NEW key, key = SourceKey(orders[fills[f].order], fills[f].event)'
             PROVE  SourceNotReused(key)'
  BY DEF SourceHolds
<1>1. f \in FromSource(key)'
  BY DEF FromSource
<1>2. FromSource(key)' \in SUBSET (1..Len(fills))
  BY DEF FromSource
<1>3. f \in FromSource(key)
  BY <1>1, <1>2, SourceKept
<1>4. SourceNotReused(key)
  BY <1>3 DEF FromSource, SourceHolds
<1> QED
  BY <1>2, <1>4, SourceUntouched

(* Steps with one more fill that has a receipt.                            *)
LEMMA SourcesTaken ==
  ASSUME LedgerType, LedgerType', LedgerKept,
         \A f \in 1..Len(fills) : FillPlaced(f) /\ SourceHolds(f),
         NEW n, n \in 1..Len(fills'), n \notin 1..Len(fills),
         \A f \in 1..Len(fills') :
            f \in 1..Len(fills) \/ f = n \/ orders'[fills'[f].order].tif = "whole",
         NEW source, source = SourceKey(orders[fills[n].order], fills[n].event)',
         fills'[n].own = SumFunctionOnSet(FillQuantities, FromSource(source)),
         fills'[n].own + fills'[n].quantity <= fills'[n].capacity
  PROVE  \A f \in 1..Len(fills') : SourceHolds(f)'
<1> SUFFICES ASSUME NEW f \in 1..Len(fills'), orders'[fills'[f].order].tif # "whole",
                    NEW key, key = SourceKey(orders[fills[f].order], fills[f].event)'
             PROVE  SourceNotReused(key)'
  BY DEF SourceHolds
<1>1. f \in FromSource(key)'
  BY DEF FromSource
<1>2. \A g \in FromSource(key)' : g \in 1..Len(fills) \/ g = n
  BY DEF FromSource
<1>3. CASE n \in FromSource(key)'
  <2>1. key = source
    BY <1>3 DEF FromSource
  <2> QED
    BY <1>2, <1>3, <2>1, SourceTaken
<1>4. CASE n \notin FromSource(key)'
  <2>1. FromSource(key)' \in SUBSET (1..Len(fills)) /\ f \in 1..Len(fills)
    BY <1>1, <1>2, <1>4
  <2>2. f \in FromSource(key)
    BY <1>1, <2>1, SourceKept
  <2>3. SourceNotReused(key)
    BY <2>2 DEF FromSource, SourceHolds
  <2> QED
    BY <2>1, <2>3, SourceUntouched
<1> QED
  BY <1>3, <1>4

-----------------------------------------------------------------------------
(* What a step may change of a run: its signal is not detected anew, an    *)
(* ended order stays as it is, a position does not go back.                *)
RunsKept ==
  /\ clock <= clock'
  /\ \A id \in 1..Len(orders) : orders[id].status # "OPEN" => orders'[id] = orders[id]
  /\ \A r \in AccountRuns :
       /\ signals[r].status # "none" => /\ signals'[r].status # "none"
                                        /\ signals'[r].decided = signals[r].decided
                                        /\ signals'[r].detected = signals[r].detected
       /\ positions[r].status # "NONE" => positions'[r].status # "NONE"
       /\ positions[r].event <= positions'[r].event

(* The fields of a signal.                                                 *)
LEMMA SignalFields ==
  ASSUME LedgerType, NEW r \in AccountRuns
  PROVE  /\ signals[r].status \in {"none", "pending", "done"} /\ signals[r].detected \in Nat
         /\ signals[r].decided \in Nat /\ signals[r].event \in Nat /\ signals[r].order \in Nat
<1>1. signals[r] \in SignalRow
  BY DEF LedgerType
<1> QED
  BY <1>1 DEF SignalRow

(* The fields of a position.                                               *)
LEMMA HoldingFields ==
  ASSUME LedgerType, NEW r \in AccountRuns
  PROVE  /\ positions[r] \in HoldingRow
         /\ positions[r].status \in {"NONE", "OPEN", "CLOSED"} /\ positions[r].quantity \in Nat
         /\ positions[r].remaining \in Nat /\ positions[r].openedAt \in Nat
         /\ positions[r].closedAt \in Nat /\ positions[r].event \in Nat
         /\ positions[r].requested \in BOOLEAN /\ positions[r].order \in Nat
<1>1. positions[r] \in HoldingRow
  BY DEF LedgerType
<1> QED
  BY <1>1 DEF HoldingRow

(* Stored events stay as they are.                                         *)
LEMMA TicksStay ==
  ASSUME LedgerType, LedgerType', TicksInOrder, ticks' = ticks, clock <= clock'
  PROVE  TicksInOrder'
<1>1. Events' = Events
  BY DEF Events
<1>2. ASSUME NEW i \in Events
      PROVE  ticks[i].received <= clock'
  <2>1. ticks[i].received \in Nat /\ clock \in Nat /\ clock' \in Nat
    BY <1>2, TickFields DEF LedgerType
  <2>2. ticks[i].received <= clock
    BY <1>2 DEF TicksInOrder
  <2> QED
    BY <2>1, <2>2
<1> QED
  BY <1>1, <1>2 DEF TicksInOrder

(* Tables only grow.                                                       *)
LEMMA LengthsAfter ==
  ASSUME LedgerType, LedgerType', LedgerKept
  PROVE  /\ Len(ticks') \in Nat /\ Len(orders') \in Nat /\ Len(fills') \in Nat
         /\ \A e \in Events : e \in Events'
         /\ \A id \in 1..Len(orders) : id \in 1..Len(orders')
         /\ \A f \in 1..Len(fills) : f \in 1..Len(fills')
<1>1. /\ Len(ticks) \in Nat /\ Len(ticks') \in Nat /\ Len(orders) \in Nat /\ Len(orders') \in Nat
      /\ Len(fills) \in Nat /\ Len(fills') \in Nat
      /\ Len(ticks) <= Len(ticks') /\ Len(orders) <= Len(orders') /\ Len(fills) <= Len(fills')
  BY Lengths, SMTT(60) DEF LedgerType, LedgerKept
<1> QED
  BY <1>1 DEF Events

(* An old order stays placed and ended.                                    *)
LEMMA OrdersStay ==
  ASSUME LedgerInv, LedgerType', LedgerKept, RunsKept, NEW id \in 1..Len(orders)
  PROVE  OrderPlaced(orders[id])'
<1> DEFINE o == orders[id]
<1>1. /\ LedgerType /\ o \in OrderRow /\ o.run \in AccountRuns /\ o.event \in Events
      /\ o.at \in Nat /\ o.at <= clock /\ OrderPlaced(o) /\ SameTerms(o, orders'[id])
  BY OrderFields DEF LedgerInv, OrderPlaced, LedgerKept
<1>2. ticks'[o.event] = ticks[o.event] /\ o.event \in Events'
  <2>1. o.event \in Events' /\ o.event \in 1..Len(ticks)
    BY <1>1, LengthsAfter DEF Events
  <2> QED
    BY <2>1 DEF LedgerKept
<1>3. o.at <= clock'
  <2>1. clock \in Nat /\ clock' \in Nat /\ clock <= clock'
    BY DEF LedgerInv, LedgerType, RunsKept
  <2> QED
    BY <1>1, <2>1
<1>4. o.kind = "entry" => EntryPlaced(orders[id])'
  BY <1>1 DEF OrderPlaced, EntryPlaced, SameTerms, RunsKept, Expires
<1>5. o.kind = "exit" => ExitPlaced(orders[id])'
  BY <1>1 DEF OrderPlaced, ExitPlaced, SameTerms, RunsKept
<1> QED
  BY <1>1, <1>2, <1>3, <1>4, <1>5 DEF OrderPlaced, SameTerms

(* An old fill stays placed, and its receipt stays true.                   *)
LEMMA FillsStay ==
  ASSUME LedgerInv, LedgerType', LedgerKept, RunsKept, NEW f \in 1..Len(fills)
  PROVE  /\ f \in 1..Len(fills') /\ FillPlaced(f)' /\ ReceiptHolds(f)'
<1> DEFINE id == fills[f].order
           e == fills[f].event
<1>1. LedgerType /\ FillPlaced(f) /\ ReceiptHolds(f)
  BY DEF LedgerInv
<1>2. /\ id \in 1..Len(orders) /\ e \in 1..Len(ticks) /\ orders[id].run \in AccountRuns
      /\ fills'[f] = fills[f] /\ ticks'[e] = ticks[e] /\ orders'[id] = orders[id]
      /\ SameTerms(orders[id], orders'[id])
  BY <1>1, OrderFields DEF FillPlaced, LedgerKept, Events, RunsKept
<1>3. /\ Len(ticks) \in Nat /\ Len(ticks') \in Nat /\ Len(orders) \in Nat /\ Len(orders') \in Nat
      /\ Len(fills) \in Nat /\ Len(fills') \in Nat
      /\ Len(ticks) <= Len(ticks') /\ Len(orders) <= Len(orders') /\ Len(fills) <= Len(fills')
  BY <1>1, Lengths DEF LedgerType, LedgerKept
<1>4. f \in 1..Len(fills') /\ id \in 1..Len(orders') /\ e \in 1..Len(ticks')
  <2> HIDE DEF id, e
  <2> QED
    BY <1>2, <1>3
<1>5. e <= positions'[orders[id].run].event
  <2>1. /\ e <= positions[orders[id].run].event
        /\ positions[orders[id].run].event <= positions'[orders[id].run].event
    BY <1>1, <1>2 DEF FillPlaced, RunsKept
  <2>2. e \in Nat /\ positions[orders[id].run].event \in Nat /\ positions'[orders[id].run].event \in Nat
    BY <1>1, <1>2, FillFields, HoldingFields DEF LedgerType, HoldingRow
  <2> QED
    BY <2>1, <2>2
<1>6. FillPlaced(f)'
  BY <1>1, <1>2, <1>4, <1>5 DEF FillPlaced, Events
<1>7. ReceiptHolds(f)'
  BY <1>1, <1>2, ReceiptKept DEF ReceiptHolds
<1> QED
  BY <1>4, <1>6, <1>7

(* An order that is ended without a fill does not disturb what is said of fills. *)
LEMMA FillsStayOnly ==
  ASSUME LedgerInv, LedgerType', LedgerKept,
         \A f, g \in 1..Len(fills') :
            f \notin 1..Len(fills) /\ g \notin 1..Len(fills) /\ fills'[f].order = fills'[g].order
              => f = g,
         \A f \in 1..Len(fills') : \A g \in 1..Len(fills) :
            f \notin 1..Len(fills) => fills'[f].order # fills[g].order,
         \A id \in 1..Len(orders') :
            orders'[id].filled # 0 =>
              \/ id \in 1..Len(orders) /\ orders[id].filled # 0
              \/ \E f \in 1..Len(fills') : fills'[f].order = id
  PROVE  OnlyFills'
<1>1. OnlyFills /\ LedgerType
  BY DEF LedgerInv
<1>2. \A f \in 1..Len(fills) : f \in 1..Len(fills') /\ fills'[f] = fills[f]
  BY <1>1, Lengths DEF LedgerType, LedgerKept
<1>3. ASSUME NEW f \in 1..Len(fills'), NEW g \in 1..Len(fills'), fills'[f].order = fills'[g].order
      PROVE  f = g
  BY <1>1, <1>2, <1>3 DEF OnlyFills
<1>4. ASSUME NEW id \in 1..Len(orders'), orders'[id].filled # 0
      PROVE  \E f \in 1..Len(fills') : fills'[f].order = id
  BY <1>1, <1>2, <1>4 DEF OnlyFills
<1> QED
  BY <1>3, <1>4 DEF OnlyFills

(* The fills of a run that gets no new ones.                               *)
LEMMA OfRunStays ==
  ASSUME LedgerInv, LedgerType', LedgerKept, RunsKept, NEW r \in AccountRuns, NEW kind,
         \A f \in 1..Len(fills') :
            f \notin 1..Len(fills) /\ orders'[fills'[f].order].run = r
              => orders'[fills'[f].order].kind # kind
  PROVE  /\ OfRun(r, kind)' = OfRun(r, kind)
         /\ SumFunctionOnSet(FillQuantities', OfRun(r, kind)') = SumFunctionOnSet(FillQuantities, OfRun(r, kind))
<1>1. LedgerType /\ \A f \in 1..Len(fills) : f \in 1..Len(fills')
  BY FillsStay DEF LedgerInv
<1>2. \A f \in 1..Len(fills) : fills'[f] = fills[f] /\ orders'[fills[f].order] = orders[fills[f].order]
  BY DEF LedgerInv, FillPlaced, LedgerKept, RunsKept
<1>3. OfRun(r, kind)' = OfRun(r, kind)
  BY <1>1, <1>2 DEF OfRun
<1>4. OfRun(r, kind) \in SUBSET (1..Len(fills))
  BY DEF OfRun
<1> QED
  BY <1>1, <1>3, <1>4, SumStays

(* What was recorded of an entry stays so.                                 *)
LEMMA EnteredStays ==
  ASSUME LedgerInv, LedgerType', LedgerKept, RunsKept, NEW r \in AccountRuns,
         NEW f \in OfRun(r, "entry"), Entered(r, f), signals[r].status # "none",
         positions'[r].quantity = positions[r].quantity,
         positions'[r].openedAt = positions[r].openedAt, decisions'[r].opens = decisions[r].opens
  PROVE  f \in OfRun(r, "entry")' /\ Entered(r, f)'
<1>1. f \in 1..Len(fills) /\ f \in 1..Len(fills')
  BY FillsStay DEF OfRun
<1>2. /\ fills'[f] = fills[f] /\ orders'[fills[f].order] = orders[fills[f].order]
      /\ ticks'[fills[f].event] = ticks[fills[f].event]
  BY <1>1 DEF LedgerInv, FillPlaced, LedgerKept, RunsKept, Events
<1>3. signals'[r].decided = signals[r].decided
  BY DEF RunsKept
<1> QED
  BY <1>1, <1>2, <1>3 DEF OfRun, Entered

(* A run whose rows a step leaves alone keeps its stage and its balance.   *)
LEMMA StageStays ==
  ASSUME LedgerInv, LedgerType', LedgerKept, RunsKept, NEW r \in AccountRuns,
         positions'[r] = positions[r], decisions'[r] = decisions[r], booked'[r] = booked[r],
         \A f \in 1..Len(fills') :
            f \notin 1..Len(fills) => orders'[fills'[f].order].run # r
  PROVE  Stages(r)' /\ Balance(r)'
<1>1. /\ LedgerType /\ Stages(r) /\ Balance(r) /\ EntryAtWork(r)
  BY DEF LedgerInv
<1>2. /\ OfRun(r, "exit")' = OfRun(r, "exit") /\ OfRun(r, "entry")' = OfRun(r, "entry")
      /\ SumFunctionOnSet(FillQuantities', OfRun(r, "exit")')
           = SumFunctionOnSet(FillQuantities, OfRun(r, "exit"))
  BY OfRunStays
<1>3. Balance(r)'
  BY <1>1, <1>2 DEF Balance, SoldByFills
<1>4. ASSUME NotEntered(r)
      PROVE  NotEntered(r)'
  BY <1>2, <1>4 DEF NotEntered, NoHolding
<1>5. ASSUME HoldingEntered(r)
      PROVE  HoldingEntered(r)'
  <2>1. signals[r].status # "none"
    BY <1>1, <1>5 DEF EntryAtWork, HoldingEntered, NoHolding
  <2>2. PICK f \in OfRun(r, "entry") : Entered(r, f)
    BY <1>5 DEF HoldingEntered
  <2>3. f \in OfRun(r, "entry")' /\ Entered(r, f)'
    BY <2>1, <2>2, EnteredStays
  <2>4. positions[r].event \in Events /\ positions[r].event \in Events'
    BY <1>1, <1>5, LengthsAfter DEF HoldingEntered
  <2>5. ticks'[positions[r].event] = ticks[positions[r].event]
    BY <2>4 DEF LedgerKept, Events
  <2> QED
    BY <1>5, <2>3, <2>4, <2>5 DEF HoldingEntered
<1>6. ASSUME HoldingOpen(r)
      PROVE  HoldingOpen(r)'
  BY <1>2, <1>6 DEF HoldingOpen
<1>7. ASSUME HoldingEntered(r), HoldingClosed(r)
      PROVE  HoldingClosed(r)'
  <2>1. positions[r].event \in 1..Len(ticks) /\ ticks'[positions[r].event] = ticks[positions[r].event]
    BY <1>7 DEF HoldingEntered, LedgerKept, Events
  <2>2. \A f \in OfRun(r, "exit") : fills'[f] = fills[f]
    BY DEF OfRun, LedgerKept
  <2> QED
    BY <1>2, <1>7, <2>1, <2>2 DEF HoldingClosed, TradeOf
<1> QED
  BY <1>1, <1>3, <1>4, <1>5, <1>6, <1>7 DEF Stages

(* An open position that only looks at a later event keeps its stage.      *)
LEMMA StageMoves ==
  ASSUME LedgerInv, LedgerType', LedgerKept, RunsKept, NEW r \in AccountRuns,
         positions[r].status = "OPEN", r \in ByBook,
         positions'[r].status = "OPEN", positions'[r].quantity = positions[r].quantity,
         positions'[r].remaining = positions[r].remaining,
         positions'[r].openedAt = positions[r].openedAt,
         positions'[r].event \in Events', positions[r].openedAt <= ticks'[positions'[r].event].at,
         decisions'[r] = decisions[r], booked'[r] = booked[r],
         \A f \in 1..Len(fills') :
            f \notin 1..Len(fills) => orders'[fills'[f].order].run # r
  PROVE  Stages(r)' /\ Balance(r)'
<1>1. /\ LedgerType /\ Stages(r) /\ Balance(r) /\ EntryAtWork(r)
  BY DEF LedgerInv
<1>2. /\ OfRun(r, "exit")' = OfRun(r, "exit") /\ OfRun(r, "entry")' = OfRun(r, "entry")
      /\ SumFunctionOnSet(FillQuantities', OfRun(r, "exit")')
           = SumFunctionOnSet(FillQuantities, OfRun(r, "exit"))
  BY OfRunStays
<1>3. Balance(r)'
  BY <1>1, <1>2 DEF Balance, SoldByFills
<1>4. HoldingEntered(r) /\ HoldingOpen(r)
  BY <1>1 DEF Stages, NotEntered, NoHolding, HoldingClosed
<1>5. HoldingEntered(r)'
  <2>1. signals[r].status # "none"
    BY <1>1, <1>4 DEF EntryAtWork, HoldingEntered, NoHolding
  <2>2. PICK f \in OfRun(r, "entry") : Entered(r, f)
    BY <1>4 DEF HoldingEntered
  <2>3. f \in OfRun(r, "entry")' /\ Entered(r, f)'
    BY <2>1, <2>2, EnteredStays
  <2> QED
    BY <1>4, <2>3 DEF HoldingEntered
<1>6. HoldingOpen(r)'
  BY <1>4 DEF HoldingOpen
<1> QED
  BY <1>3, <1>5, <1>6 DEF Stages

(* A run that a step leaves alone.                                         *)
LEMMA OtherRuns ==
  ASSUME LedgerInv, LedgerType', LedgerKept, RunsKept, NEW r \in AccountRuns,
         signals'[r] = signals[r], positions'[r] = positions[r],
         decisions'[r] = decisions[r], booked'[r] = booked[r],
         \A id \in 1..Len(orders) : orders[id].run = r => orders'[id] = orders[id],
         \A f \in 1..Len(fills') :
            f \notin 1..Len(fills) => orders'[fills'[f].order].run # r
  PROVE  EntryAtWork(r)' /\ ExitAtWork(r)' /\ Stages(r)' /\ Balance(r)'
<1>1. LedgerType /\ EntryAtWork(r) /\ ExitAtWork(r)
  BY DEF LedgerInv
<1>2. EntryAtWork(r)'
  <2>1. signals[r].decided <= clock'
    <3>1. signals[r].decided \in Nat /\ clock \in Nat /\ clock' \in Nat
      BY <1>1, SignalFields DEF LedgerType
    <3> QED
      BY <1>1, <3>1 DEF EntryAtWork, RunsKept
  <2> QED
    BY <1>1, <2>1, LengthsAfter DEF EntryAtWork, NoHolding
<1>3. ExitAtWork(r)'
  BY <1>1, LengthsAfter DEF ExitAtWork
<1> QED
  BY <1>2, <1>3, StageStays

(* The orders of other runs stay at work.                                  *)
LEMMA OtherOrders ==
  ASSUME LedgerInv, NEW id \in 1..Len(orders), orders'[id] = orders[id],
         \A r \in {orders[id].run} : signals'[r] = signals[r] /\ positions'[r] = positions[r]
  PROVE  OrderEnded(orders[id])' /\ OrderAtWork(id)'
<1>1. OrderEnded(orders[id]) /\ OrderAtWork(id)
  BY DEF LedgerInv
<1>2. OrderEnded(orders[id])'
  BY <1>1 DEF OrderEnded
<1> QED
  BY <1>1, <1>2 DEF OrderAtWork

(* A set of events has a latest one.                                       *)
LEMMA LatestOf ==
  ASSUME NEW S \in SUBSET Nat, S # {}, NEW n \in Nat, \A x \in S : x <= n
  PROVE  Max(S) \in S /\ \A x \in S : x <= Max(S)
<1> DEFINE T == {n - x : x \in S}
<1>1. \A x \in S : x \in Nat /\ n - x \in Nat
  OBVIOUS
<1>2. T \in SUBSET Nat /\ T # {}
  BY <1>1
<1>6. PICK t \in T : \A u \in T : t <= u
  BY <1>2, LeastElement
<1>3. PICK m \in S : t = n - m
  OBVIOUS
<1>4. \A x \in S : n - m <= n - x
  BY <1>6, <1>3
<1>5. \A x \in S : m >= x
  BY <1>4
<1> QED
  BY <1>5 DEF Max

(* The first of some events is one of them.                                *)
LEMMA FirstOfEvents ==
  ASSUME NEW S \in SUBSET Nat, S # {}
  PROVE  Min(S) \in S
BY LeastElement DEF Min

-----------------------------------------------------------------------------
(* Steps without a new fill.                                               *)
LEMMA NoNewFills ==
  ASSUME LedgerInv, LedgerType', LedgerKept, RunsKept, fills' = fills,
         \A id \in 1..Len(orders') :
            orders'[id].filled # 0 => id \in 1..Len(orders) /\ orders[id].filled # 0
  PROVE  /\ OnlyFills'
         /\ \A f \in 1..Len(fills') : FillPlaced(f)' /\ ReceiptHolds(f)' /\ SourceHolds(f)'
<1>1. LedgerType /\ \A f \in 1..Len(fills) : FillPlaced(f) /\ SourceHolds(f)
  BY DEF LedgerInv
<1>2. \A f \in 1..Len(fills') : SourceHolds(f)'
  BY <1>1, SourcesStay
<1>3. OnlyFills'
  <2>1. \A f \in 1..Len(fills') : f \in 1..Len(fills)
    OBVIOUS
  <2> QED
    BY <2>1, FillsStayOnly
<1> QED
  BY <1>2, <1>3, FillsStay

(* A step that only moves the clock or adds an event.                      *)
LEMMA RowsUntouched ==
  ASSUME LedgerInv, LedgerType', LedgerKept, clock <= clock', TicksInOrder',
         UNCHANGED <<signals, orders, fills, positions, decisions, booked>>
  PROVE  LedgerInv'
<1>1. RunsKept
  BY HoldingFields DEF RunsKept, LedgerInv
<1>2. OnlyFills' /\ \A f \in 1..Len(fills') : FillPlaced(f)' /\ ReceiptHolds(f)' /\ SourceHolds(f)'
  BY <1>1, NoNewFills
<1>3. \A r \in AccountRuns : EntryAtWork(r)' /\ ExitAtWork(r)' /\ Stages(r)' /\ Balance(r)'
  BY <1>1, OtherRuns
<1>4. ASSUME NEW id \in 1..Len(orders')
      PROVE  OrderPlaced(orders[id])' /\ OrderEnded(orders[id])' /\ OrderAtWork(id)'
  BY <1>1, OrdersStay, OtherOrders
<1> QED
  BY <1>2, <1>3, <1>4 DEF LedgerInv

(* Time passes.                                                            *)
LEMMA PassKeeps ==
  ASSUME LedgerInv, Pass
  PROVE  LedgerInv'
<1>1. LedgerType /\ clock \in Nat /\ clock' \in Nat /\ clock <= clock'
  BY DEF LedgerInv, LedgerType, Pass
<1>2. LedgerType'
  BY <1>1 DEF LedgerType, Pass
<1>3. LedgerKept
  BY <1>1, Lengths DEF LedgerKept, SameTerms, Pass
<1>4. TicksInOrder'
  BY <1>1, <1>2, TicksStay DEF Pass, LedgerInv
<1> QED
  BY <1>1, <1>2, <1>3, <1>4, RowsUntouched DEF Pass

(* A price event is stored after all others and received last.             *)
LEMMA PriceEventKeeps ==
  ASSUME LedgerInv, NEW taker \in {"Buy", "Sell", "block"}, NEW delay \in {0, 1},
         NEW book \in {"same", "new", "none"}, NEW reconnected \in BOOLEAN,
         PriceEvent(taker, delay, book, reconnected)
  PROVE  LedgerInv'
<1> DEFINE last == ticks[LastTick]
           known == {i \in Events : ticks[i].book # 0}
           kept == Max(known)
           row == [at |-> clock - delay, received |-> clock,
                   stream |-> last.stream + (IF reconnected THEN 1 ELSE 0),
                   book |-> CASE book = "none" -> 0
                              [] book = "same" -> ticks[kept].book
                              [] book = "new" -> ticks[kept].book + 1,
                   bookAt |-> CASE book = "none" -> clock
                                [] book = "same" -> ticks[kept].bookAt
                                [] book = "new" -> clock,
                   taker |-> taker]
<1>1. LedgerType /\ clock \in Nat /\ clock' = clock /\ TicksInOrder
  BY DEF LedgerInv, LedgerType, PriceEvent
<1>2. ticks' = Append(ticks, row) /\ clock - delay >= last.at
  BY DEF PriceEvent
<1>3. kept \in Events
  <2>1. known \in SUBSET Nat /\ known # {} /\ Len(ticks) \in Nat /\ \A i \in known : i <= Len(ticks)
    BY <1>1, Lengths DEF LedgerType
  <2> HIDE DEF known
  <2>2. Max(known) \in known
    BY <2>1, LatestOf
  <2> QED
    BY <2>2 DEF known
<1>4. row.at \in Nat /\ row.received \in Nat /\ row.stream \in Nat /\ row.book \in Nat
      /\ row.bookAt \in Nat /\ row.taker \in {"none", "Buy", "Sell", "block"}
      /\ row.received = clock /\ row.at <= clock /\ row.at >= last.at
  <2>1. /\ last.at \in Nat /\ last.stream \in Nat /\ ticks[kept].book \in Nat
        /\ ticks[kept].bookAt \in Nat
    BY <1>1, <1>3, TickFields, Lengths
  <2>2. clock - delay \in Nat /\ clock - delay <= clock
    BY <1>1, <1>2, <2>1
  <2> HIDE DEF last, kept
  <2> QED
    BY <1>1, <1>2, <2>1, <2>2
<1>5. row \in TickRow
  BY <1>4 DEF TickRow
<1> HIDE DEF row
<1>6. /\ Len(ticks) \in Nat /\ Len(ticks') = Len(ticks) + 1 /\ ticks' \in Seq(TickRow)
      /\ \A i \in 1..Len(ticks) : ticks'[i] = ticks[i]
      /\ ticks'[Len(ticks) + 1] = row
  BY <1>1, <1>2, <1>5, Lengths, AppendProperties DEF LedgerType
<1>10. /\ signals' = signals /\ orders' = orders /\ fills' = fills /\ positions' = positions
       /\ decisions' = decisions /\ booked' = booked
  BY DEF PriceEvent
<1>7. LedgerType'
  <2>1. ticks'[1] = ticks[1] /\ Len(ticks') >= 1
    BY <1>1, <1>6 DEF LedgerType
  <2> QED
    BY <1>1, <1>6, <1>10, <2>1 DEF LedgerType
<1>8. LedgerKept
  <2>1. Len(ticks) <= Len(ticks') /\ Len(orders) <= Len(orders) /\ Len(fills) <= Len(fills)
    BY <1>1, <1>6, Lengths
  <2> QED
    BY <1>6, <1>10, <2>1 DEF LedgerKept, SameTerms
<1>9. TicksInOrder'
  <2>1. ASSUME NEW i \in Events
        PROVE  /\ ticks[i].at \in Nat /\ ticks[i].received \in Nat
               /\ ticks[i].at <= last.at /\ ticks[i].received <= clock
    <3>1. LastTick \in Events /\ i <= LastTick
      BY <1>1, Lengths DEF LastTick
    <3> QED
      BY <1>1, <2>1, <3>1, TickFields DEF TicksInOrder
  <2>2. \A i \in Events' : (i \in Events /\ ticks'[i] = ticks[i]) \/ i = Len(ticks) + 1
    BY <1>6 DEF Events
  <2>3. \A i, j \in Events' : i <= j /\ j \in Events => i \in Events
    BY <1>6 DEF Events
  <2>4. last.at \in Nat
    BY <1>1, TickFields, Lengths
  <2> HIDE DEF last
  <2>5. \A i \in Events' : ticks'[i].at <= ticks'[i].received /\ ticks'[i].received <= clock'
    BY <1>1, <1>4, <1>6, <2>1, <2>2 DEF TicksInOrder
  <2>6. ASSUME NEW i \in Events', NEW j \in Events', i <= j
        PROVE  ticks'[i].at <= ticks'[j].at /\ ticks'[i].received <= ticks'[j].received
    <3>1. CASE j \in Events
      BY <1>1, <1>6, <2>3, <2>6, <3>1 DEF TicksInOrder, Events
    <3>2. CASE j = Len(ticks) + 1 /\ i \in Events
      <4>1. ticks'[j] = row /\ ticks'[i] = ticks[i]
        BY <1>6, <3>2 DEF Events
      <4> QED
        BY <1>4, <2>1, <2>4, <3>2, <4>1
    <3>3. CASE j = Len(ticks) + 1 /\ i = Len(ticks) + 1
      BY <1>4, <1>6, <3>3
    <3> QED
      BY <2>2, <3>1, <3>2, <3>3
  <2> QED
    BY <2>5, <2>6 DEF TicksInOrder
<1> QED
  BY <1>1, <1>7, <1>8, <1>9, RowsUntouched DEF PriceEvent

-----------------------------------------------------------------------------
(* A run whose signal is not done holds nothing, and has no other order    *)
(* than the one its signal names.                                          *)
LEMMA WaitingRun ==
  ASSUME LedgerInv, NEW r \in AccountRuns, signals[r].status # "done"
  PROVE  /\ positions[r] = NoHolding
         /\ \A id \in 1..Len(orders) :
              orders[id].run = r => signals[r].order = id /\ signals[r].status = "pending"
<1>1. LedgerType /\ EntryAtWork(r) /\ positions[r] = NoHolding
  BY DEF LedgerInv, EntryAtWork
<1>2. ASSUME NEW id \in 1..Len(orders), orders[id].run = r
      PROVE  signals[r].order = id /\ signals[r].status = "pending"
  <2>1. orders[id].kind \in {"entry", "exit"} /\ OrderPlaced(orders[id]) /\ OrderAtWork(id)
    BY <1>1, OrderFields DEF LedgerInv
  <2>2. CASE orders[id].kind = "exit"
    BY <1>1, <1>2, <2>1, <2>2 DEF OrderPlaced, ExitPlaced, NoHolding
  <2>3. CASE orders[id].kind = "entry"
    <3>1. signals[r].status # "none" /\ signals[r].status \in {"none", "pending", "done"}
      BY <1>1, <1>2, <2>1, <2>3, SignalFields DEF OrderPlaced, EntryPlaced
    <3> QED
      BY <1>2, <2>1, <2>3, <3>1 DEF OrderAtWork
  <2> QED
    BY <2>1, <2>2, <2>3
<1> QED
  BY <1>1, <1>2

(* A signal is stored before anything of its run.                          *)
LEMMA DetectKeeps ==
  ASSUME LedgerInv, NEW r \in AccountRuns, NEW delay \in {0, 1}, Detect(r, delay)
  PROVE  LedgerInv'
<1>1. /\ LedgerType /\ signals[r].status = "none" /\ signals[r] \in SignalRow
      /\ clock \in Nat /\ clock' = clock /\ clock - delay \in Nat
      /\ positions[r] = NoHolding /\ signals[r].order = 0
      /\ \A id \in 1..Len(orders) : orders[id].run # r
  BY WaitingRun, SMTT(60) DEF LedgerInv, LedgerType, EntryAtWork, Detect
<1>2. /\ signals'[r].status = "pending" /\ signals'[r].decided = clock /\ signals'[r].order = 0
      /\ \A q \in AccountRuns : q # r => signals'[q] = signals[q]
      /\ signals' \in [AccountRuns -> SignalRow]
  BY <1>1 DEF Detect, LedgerType, SignalRow
<1>3. LedgerType'
  BY <1>1, <1>2 DEF LedgerType, Detect
<1>4. LedgerKept
  BY <1>1, Lengths DEF LedgerKept, SameTerms, Detect
<1>5. RunsKept
  BY <1>1, <1>2, HoldingFields DEF RunsKept, Detect
<1>6. TicksInOrder'
  BY <1>1, <1>3, TicksStay DEF Detect, LedgerInv
<1>7. OnlyFills' /\ \A f \in 1..Len(fills') : FillPlaced(f)' /\ ReceiptHolds(f)' /\ SourceHolds(f)'
  BY <1>3, <1>4, <1>5, NoNewFills DEF Detect
<1>8. ASSUME NEW id \in 1..Len(orders')
      PROVE  OrderPlaced(orders[id])' /\ OrderEnded(orders[id])' /\ OrderAtWork(id)'
  <2>1. id \in 1..Len(orders) /\ orders'[id] = orders[id] /\ positions' = positions
    BY DEF Detect
  <2>2. \A q \in {orders[id].run} : signals'[q] = signals[q]
    BY <1>1, <1>2, <2>1, OrderFields
  <2> QED
    BY <1>3, <1>4, <1>5, <2>1, <2>2, OrdersStay, OtherOrders
<1>9. ASSUME NEW q \in AccountRuns
      PROVE  EntryAtWork(q)' /\ ExitAtWork(q)' /\ Stages(q)' /\ Balance(q)'
  <2>1. CASE q # r
    BY <1>2, <1>3, <1>4, <1>5, <2>1, OtherRuns DEF Detect
  <2>2. CASE q = r
    <3>1. Stages(r)' /\ Balance(r)'
      BY <1>3, <1>4, <1>5, StageStays DEF Detect
    <3>2. ExitAtWork(r)'
      BY <1>1 DEF ExitAtWork, Detect, NoHolding
    <3>3. EntryAtWork(r)'
      BY <1>1, <1>2 DEF EntryAtWork, Detect, NoHolding
    <3> QED
      BY <2>2, <3>1, <3>2, <3>3
  <2> QED
    BY <2>1, <2>2
<1> QED
  BY <1>3, <1>6, <1>7, <1>8, <1>9 DEF LedgerInv

(* A new entry order is the only one its signal names.                     *)
LEMMA SubmitEntryKeeps ==
  ASSUME TradeAssumption, LedgerInv, NEW r \in AccountRuns, NEW e \in Events,
         NEW crosses \in BOOLEAN, SubmitEntry(r, e, crosses)
  PROVE  LedgerInv'
<1> DEFINE n == Len(orders) + 1
           row == [run |-> r, kind |-> "entry",
                   tif |-> IF r \in Market THEN "IOC" ELSE "PostOnly", quantity |-> Wanted,
                   event |-> e, stream |-> ticks[e].stream, at |-> clock,
                   expires |-> Expires(r), status |-> IF crosses THEN "CANCELLED" ELSE "OPEN",
                   filled |-> 0, cancelled |-> IF crosses THEN Wanted ELSE 0]
<1>1. /\ LedgerType /\ signals[r].status = "pending" /\ signals[r] \in SignalRow
      /\ clock \in Nat /\ clock' = clock /\ EntryAtWork(r) /\ TicksInOrder
      /\ positions[r] = NoHolding /\ signals[r].order = 0
      /\ \A id \in 1..Len(orders) : orders[id].run # r
  BY WaitingRun, SMTT(60) DEF LedgerInv, LedgerType, SubmitEntry, Usable
<1>2. /\ Len(orders) \in Nat /\ n \in Nat /\ e \in Nat /\ ticks[e].stream \in Nat
      /\ Expires(r) \in Nat /\ Wanted \in Nat /\ Wanted >= 1
  <2>1. EntryTtl \in Nat /\ Wanted \in Nat /\ Wanted >= 1
    BY DEF TradeAssumption
  <2> QED
    BY <1>1, <2>1, Lengths, TickFields, SignalFields DEF Events, Expires
<1>3. row \in OrderRow
  BY <1>1, <1>2 DEF OrderRow
<1>4. orders' = Append(orders, row)
  BY DEF SubmitEntry
<1> DEFINE named == [signals[r] EXCEPT !.event = e, !.order = n,
                                       !.status = IF crosses THEN "done" ELSE "pending"]
<1>5. signals' = [signals EXCEPT ![r] = named]
  BY <1>1 DEF SubmitEntry, LedgerType, SignalRow
<1> DEFINE terms == /\ row.run = r /\ row.kind = "entry" /\ row.quantity = Wanted /\ row.event = e
                    /\ row.tif = (IF r \in Market THEN "IOC" ELSE "PostOnly")
                    /\ row.at = clock /\ row.expires = Expires(r) /\ row.filled = 0
                    /\ row.status = (IF crosses THEN "CANCELLED" ELSE "OPEN")
                    /\ row.cancelled = (IF crosses THEN Wanted ELSE 0)
<1>6. terms
  OBVIOUS
<1> HIDE DEF row
<1>7. /\ Len(orders') = n /\ orders' \in Seq(OrderRow) /\ orders'[n] = row
      /\ \A id \in 1..Len(orders) : orders'[id] = orders[id]
      /\ \A id \in 1..Len(orders') : id \in 1..Len(orders) \/ id = n
  BY <1>1, <1>2, <1>3, <1>4, AppendProperties DEF LedgerType
<1>8. /\ signals'[r].order = n /\ signals'[r].decided = signals[r].decided
      /\ signals'[r].detected = signals[r].detected
      /\ signals'[r].status = (IF crosses THEN "done" ELSE "pending")
      /\ signals' \in [AccountRuns -> SignalRow]
      /\ \A q \in AccountRuns : q # r => signals'[q] = signals[q]
  <2>1. /\ named.order = n /\ named.decided = signals[r].decided
        /\ named.detected = signals[r].detected
        /\ named.status = (IF crosses THEN "done" ELSE "pending")
        /\ named \in SignalRow
    BY <1>1, <1>2 DEF SignalRow
  <2> HIDE DEF named
  <2> QED
    BY <1>1, <1>5, <2>1 DEF LedgerType
<1> HIDE DEF named
<1>9. LedgerType'
  BY <1>1, <1>7, <1>8 DEF LedgerType, SubmitEntry
<1>10. LedgerKept
  BY <1>1, <1>2, <1>7, Lengths DEF LedgerKept, SameTerms, SubmitEntry
<1>11. RunsKept
  BY <1>1, <1>7, <1>8, HoldingFields DEF RunsKept, SubmitEntry
<1>12. TicksInOrder'
  BY <1>1, <1>9, TicksStay DEF SubmitEntry, LedgerInv
<1>13. OnlyFills' /\ \A f \in 1..Len(fills') : FillPlaced(f)' /\ ReceiptHolds(f)' /\ SourceHolds(f)'
  <2>1. fills' = fills
    BY DEF SubmitEntry
  <2>2. \A id \in 1..Len(orders') :
          orders'[id].filled # 0 => id \in 1..Len(orders) /\ orders[id].filled # 0
    BY <1>6, <1>7
  <2> QED
    BY <1>9, <1>10, <1>11, <2>1, <2>2, NoNewFills
<1>14. ASSUME NEW id \in 1..Len(orders')
       PROVE  OrderPlaced(orders[id])' /\ OrderEnded(orders[id])' /\ OrderAtWork(id)'
  <2>1. CASE id \in 1..Len(orders)
    <3>1. \A q \in {orders[id].run} : signals'[q] = signals[q] /\ positions'[q] = positions[q]
      BY <1>1, <1>8, <2>1, OrderFields DEF SubmitEntry
    <3> QED
      BY <1>7, <1>9, <1>10, <1>11, <2>1, <3>1, OrdersStay, OtherOrders
  <2>2. CASE id = n
    <3>1. orders'[id] = row
      BY <1>7, <2>2
    <3>2. OrderPlaced(orders[id])'
      <4>1. /\ orders'[id].event \in Events' /\ ticks'[orders'[id].event].received <= orders'[id].at
            /\ orders'[id].at <= clock' /\ orders'[id].quantity >= 1
        BY <1>1, <1>2, <1>6, <3>1 DEF Events, SubmitEntry, TicksInOrder
      <4>2. EntryPlaced(orders[id])'
        <5>1. Expires(r)' = Expires(r)
          BY <1>8 DEF Expires
        <5> QED
          BY <1>1, <1>6, <1>8, <3>1, <5>1 DEF EntryPlaced, EntryAtWork
      <4> QED
        BY <1>6, <3>1, <4>1, <4>2 DEF OrderPlaced
    <3>3. OrderEnded(orders[id])'
      BY <1>2, <1>6, <3>1 DEF OrderEnded
    <3>4. OrderAtWork(id)'
      BY <1>6, <1>8, <2>2, <3>1 DEF OrderAtWork
    <3> QED
      BY <3>2, <3>3, <3>4
  <2> QED
    BY <1>7, <2>1, <2>2
<1>15. ASSUME NEW q \in AccountRuns
       PROVE  EntryAtWork(q)' /\ ExitAtWork(q)' /\ Stages(q)' /\ Balance(q)'
  <2>1. CASE q # r
    BY <1>7, <1>8, <1>9, <1>10, <1>11, <2>1, OtherRuns DEF SubmitEntry
  <2>2. CASE q = r
    <3>1. Stages(r)' /\ Balance(r)'
      BY <1>9, <1>10, <1>11, StageStays DEF SubmitEntry
    <3>2. ExitAtWork(r)'
      BY <1>1 DEF ExitAtWork, SubmitEntry, NoHolding
    <3>3. EntryAtWork(r)'
      BY <1>1, <1>2, <1>6, <1>7, <1>8 DEF EntryAtWork, SubmitEntry, NoHolding
    <3> QED
      BY <2>2, <3>1, <3>2, <3>3
  <2> QED
    BY <2>1, <2>2
<1> QED
  BY <1>9, <1>12, <1>13, <1>14, <1>15 DEF LedgerInv

(* An order ends with what of it was filled.                               *)
LEMMA OrderEnds ==
  ASSUME LedgerType, NEW id \in 1..Len(orders), NEW quantity \in Nat,
         quantity <= orders[id].quantity, NEW ended, ended = Terminal(orders[id], quantity),
         NEW rows, rows = [orders EXCEPT ![id] = ended]
  PROVE  /\ rows \in Seq(OrderRow) /\ Len(rows) = Len(orders)
         /\ \A i \in 1..Len(orders) : i # id => rows[i] = orders[i]
         /\ SameTerms(orders[id], rows[id]) /\ rows[id] \in OrderRow
         /\ rows[id].status # "OPEN" /\ rows[id].filled = quantity
         /\ rows[id].filled + rows[id].cancelled = orders[id].quantity
         /\ (rows[id].status = "FILLED") <=> (rows[id].filled = orders[id].quantity)
<1> DEFINE o == orders[id]
<1>1. o \in OrderRow /\ o.quantity \in Nat
  BY OrderFields
<1>2. o.quantity - quantity \in Nat /\ quantity + (o.quantity - quantity) = o.quantity
  BY <1>1
<1>3. ended = [o EXCEPT !.status = IF quantity = o.quantity THEN "FILLED" ELSE "CANCELLED",
                        !.filled = quantity, !.cancelled = o.quantity - quantity]
  BY DEF Terminal
<1>4. ended \in OrderRow /\ SameTerms(o, ended)
  BY <1>1, <1>2, <1>3 DEF OrderRow, SameTerms
<1>5. /\ ended.status # "OPEN" /\ ended.filled = quantity
      /\ ended.cancelled = o.quantity - quantity
      /\ (ended.status = "FILLED") <=> (quantity = o.quantity)
  BY <1>1, <1>3 DEF OrderRow
<1>6. orders \in Seq(OrderRow)
  BY DEF LedgerType
<1>8. rows \in Seq(OrderRow) /\ Len(rows) = Len(orders)
  BY <1>4, <1>6, ExceptSeq
<1>9. rows[id] = ended /\ \A i \in 1..Len(orders) : i # id => rows[i] = orders[i]
  BY <1>6
<1> QED
  BY <1>2, <1>4, <1>5, <1>8, <1>9

(* A rejected signal ends its order without a fill.                        *)
LEMMA RejectEntryKeeps ==
  ASSUME LedgerInv, NEW r \in AccountRuns, RejectEntry(r)
  PROVE  LedgerInv'
<1> DEFINE n == signals[r].order
           done == [signals[r] EXCEPT !.status = "done"]
<1>1. /\ LedgerType /\ signals[r].status = "pending" /\ signals[r] \in SignalRow
      /\ clock \in Nat /\ clock' = clock /\ EntryAtWork(r) /\ TicksInOrder
      /\ positions[r] = NoHolding /\ n \in Nat
      /\ \A id \in 1..Len(orders) : orders[id].run = r => id = n
  BY WaitingRun, SignalFields DEF LedgerInv, LedgerType, RejectEntry
<1>2. /\ n # 0 => /\ n \in 1..Len(orders) /\ orders[n].run = r /\ orders[n].kind = "entry"
                  /\ orders[n].status = "OPEN"
      /\ 0 \notin 1..Len(orders)
  BY <1>1, Lengths DEF EntryAtWork
<1>3. /\ signals'[r].status = "done" /\ signals'[r].decided = signals[r].decided
      /\ signals'[r].order = n
      /\ signals'[r].detected = signals[r].detected
      /\ signals' \in [AccountRuns -> SignalRow]
      /\ \A q \in AccountRuns : q # r => signals'[q] = signals[q]
  <2>1. /\ done.status = "done" /\ done.decided = signals[r].decided /\ done.order = n
        /\ done.detected = signals[r].detected /\ done \in SignalRow
    BY <1>1 DEF SignalRow
  <2>2. signals' = [signals EXCEPT ![r] = done]
    BY <1>1 DEF RejectEntry, LedgerType, SignalRow
  <2> HIDE DEF done
  <2> QED
    BY <1>1, <2>1, <2>2 DEF LedgerType
<1> HIDE DEF done
<1>4. /\ orders' \in Seq(OrderRow) /\ Len(orders') = Len(orders)
      /\ \A id \in 1..Len(orders) : id # n => orders'[id] = orders[id]
      /\ n # 0 => /\ SameTerms(orders[n], orders'[n]) /\ orders'[n].status # "OPEN"
                  /\ orders'[n].filled = 0
                  /\ orders'[n].filled + orders'[n].cancelled = orders'[n].quantity
                  /\ (orders'[n].status = "FILLED") <=> (orders'[n].filled = orders'[n].quantity)
  <2>1. CASE n = 0
    BY <1>1, <1>2, <2>1 DEF RejectEntry, LedgerType
  <2>2. CASE n # 0
    <3>1. orders[n].quantity \in Nat /\ 0 <= orders[n].quantity
      BY <1>1, <1>2, <2>2, OrderFields
    <3> DEFINE ended == Terminal(orders[n], 0)
    <3>2. orders' = [orders EXCEPT ![n] = ended]
      BY <2>2 DEF RejectEntry
    <3>3. n \in 1..Len(orders) /\ ended = Terminal(orders[n], 0)
      BY <1>2, <2>2
    <3> HIDE DEF n, ended
    <3>4. orders' \in Seq(OrderRow)
      BY <1>1, <3>1, <3>2, <3>3, OrderEnds
    <3>5. Len(orders') = Len(orders)
      BY <1>1, <3>1, <3>2, <3>3, OrderEnds
    <3>6. \A id \in 1..Len(orders) : id # n => orders'[id] = orders[id]
      BY <1>1, <3>1, <3>2, <3>3, OrderEnds
    <3>7. SameTerms(orders[n], orders'[n])
      BY <1>1, <3>1, <3>2, <3>3, OrderEnds
    <3>8. orders'[n].status # "OPEN"
      BY <1>1, <3>1, <3>2, <3>3, OrderEnds
    <3>9. orders'[n].filled = 0
      BY <1>1, <3>1, <3>2, <3>3, OrderEnds
    <3>10. orders'[n].filled + orders'[n].cancelled = orders[n].quantity
      BY <1>1, <3>1, <3>2, <3>3, OrderEnds
    <3>11. (orders'[n].status = "FILLED") <=> (orders'[n].filled = orders[n].quantity)
      BY <1>1, <3>1, <3>2, <3>3, OrderEnds
    <3> QED
      BY <3>4, <3>5, <3>6, <3>7, <3>8, <3>9, <3>10, <3>11 DEF SameTerms
  <2> QED
    BY <2>1, <2>2
<1>5. LedgerType'
  BY <1>1, <1>3, <1>4 DEF LedgerType, RejectEntry
<1>6. \A id \in 1..Len(orders) : SameTerms(orders[id], orders'[id])
  BY <1>2, <1>4 DEF SameTerms
<1>7. LedgerKept
  BY <1>1, <1>4, <1>6, Lengths DEF LedgerKept, RejectEntry
<1>8. RunsKept
  BY <1>1, <1>2, <1>3, <1>4, HoldingFields DEF RunsKept, RejectEntry
<1>9. TicksInOrder'
  BY <1>1, <1>5, TicksStay DEF RejectEntry
<1>10. OnlyFills' /\ \A f \in 1..Len(fills') : FillPlaced(f)' /\ ReceiptHolds(f)' /\ SourceHolds(f)'
  <2>1. fills' = fills
    BY DEF RejectEntry
  <2>2. \A id \in 1..Len(orders') :
          orders'[id].filled # 0 => id \in 1..Len(orders) /\ orders[id].filled # 0
    BY <1>2, <1>4
  <2> QED
    BY <1>5, <1>7, <1>8, <2>1, <2>2, NoNewFills
<1>11. ASSUME NEW id \in 1..Len(orders')
       PROVE  OrderPlaced(orders[id])' /\ OrderEnded(orders[id])' /\ OrderAtWork(id)'
  <2>1. id \in 1..Len(orders) /\ OrderPlaced(orders[id])'
    BY <1>4, <1>5, <1>7, <1>8, OrdersStay
  <2>2. CASE id # n
    <3>1. \A q \in {orders[id].run} : signals'[q] = signals[q] /\ positions'[q] = positions[q]
      BY <1>1, <1>3, <2>1, <2>2, OrderFields DEF RejectEntry
    <3> QED
      BY <1>4, <2>1, <2>2, <3>1, OtherOrders
  <2>3. CASE id = n
    <3>1. n # 0 /\ orders'[id].run = r /\ orders'[id].kind = "entry"
      BY <1>2, <1>4, <2>1, <2>3 DEF SameTerms
    <3>2. OrderEnded(orders[id])'
      BY <1>4, <2>3, <3>1 DEF OrderEnded
    <3>3. OrderAtWork(id)'
      BY <1>3, <1>4, <2>3, <3>1 DEF OrderAtWork
    <3> QED
      BY <2>1, <3>2, <3>3
  <2> QED
    BY <2>2, <2>3
<1>12. ASSUME NEW q \in AccountRuns
       PROVE  EntryAtWork(q)' /\ ExitAtWork(q)' /\ Stages(q)' /\ Balance(q)'
  <2>1. CASE q # r
    <3>1. \A id \in 1..Len(orders) : orders[id].run = q => orders'[id] = orders[id]
      BY <1>2, <1>4, <2>1
    <3> QED
      BY <1>3, <1>5, <1>7, <1>8, <2>1, <3>1, OtherRuns DEF RejectEntry
  <2>2. CASE q = r
    <3>1. Stages(r)' /\ Balance(r)'
      BY <1>5, <1>7, <1>8, StageStays DEF RejectEntry
    <3>2. ExitAtWork(r)'
      BY <1>1 DEF ExitAtWork, RejectEntry, NoHolding
    <3>3. EntryAtWork(r)'
      BY <1>1, <1>2, <1>3, <1>4 DEF EntryAtWork, SameTerms
    <3> QED
      BY <2>2, <3>1, <3>2, <3>3
  <2> QED
    BY <2>1, <2>2
<1> QED
  BY <1>5, <1>9, <1>10, <1>11, <1>12 DEF LedgerInv

(* A requested exit changes no row but the position's.                     *)
LEMMA RequestExitKeeps ==
  ASSUME LedgerInv, NEW r \in AccountRuns, NEW e \in Events, RequestExit(r, e)
  PROVE  LedgerInv'
<1> DEFINE p == positions[r]
           asked == [p EXCEPT !.requested = TRUE, !.event = e]
<1>1. /\ LedgerType /\ p \in HoldingRow /\ p.status = "OPEN" /\ ~p.requested /\ r \in ByBook
      /\ p.event <= e /\ EntryAtWork(r) /\ ExitAtWork(r) /\ Stages(r) /\ TicksInOrder
      /\ e \in Nat /\ p.event \in Nat /\ clock' = clock /\ clock \in Nat
  <2>1. LedgerType /\ clock \in Nat /\ EntryAtWork(r) /\ ExitAtWork(r) /\ Stages(r) /\ TicksInOrder
    BY DEF LedgerInv, LedgerType
  <2>2. p \in HoldingRow /\ p.event \in Nat /\ e \in Nat
    BY <2>1, HoldingFields, Lengths
  <2>3. /\ p.status = "OPEN" /\ ~p.requested /\ r \in ByBook /\ e >= p.event
        /\ clock' = clock
    BY DEF RequestExit, Held
  <2> QED
    BY <2>1, <2>2, <2>3
<1>2. /\ positions'[r].status = "OPEN" /\ positions'[r].quantity = p.quantity
      /\ positions'[r].remaining = p.remaining /\ positions'[r].openedAt = p.openedAt
      /\ positions'[r].event = e /\ positions'[r].order = p.order
      /\ positions' \in [AccountRuns -> HoldingRow]
      /\ \A q \in AccountRuns : q # r => positions'[q] = positions[q]
  <2>1. /\ asked.status = "OPEN" /\ asked.quantity = p.quantity /\ asked.remaining = p.remaining
        /\ asked.openedAt = p.openedAt /\ asked.event = e /\ asked.order = p.order
        /\ asked \in HoldingRow
    BY <1>1 DEF HoldingRow
  <2>2. positions' = [positions EXCEPT ![r] = asked]
    BY <1>1 DEF RequestExit, LedgerType, HoldingRow
  <2> HIDE DEF asked
  <2> QED
    BY <1>1, <2>1, <2>2 DEF LedgerType
<1> HIDE DEF asked, p
<1>3. LedgerType'
  BY <1>1, <1>2 DEF LedgerType, RequestExit
<1>4. LedgerKept
  BY <1>1, Lengths DEF LedgerKept, SameTerms, RequestExit
<1>5. RunsKept
  BY <1>1, <1>2, HoldingFields DEF RunsKept, RequestExit, p
<1>6. TicksInOrder'
  BY <1>1, <1>3, TicksStay DEF RequestExit
<1>7. OnlyFills' /\ \A f \in 1..Len(fills') : FillPlaced(f)' /\ ReceiptHolds(f)' /\ SourceHolds(f)'
  BY <1>3, <1>4, <1>5, NoNewFills DEF RequestExit
<1>8. ASSUME NEW id \in 1..Len(orders')
      PROVE  OrderPlaced(orders[id])' /\ OrderEnded(orders[id])' /\ OrderAtWork(id)'
  <2>1. id \in 1..Len(orders) /\ orders'[id] = orders[id] /\ signals' = signals
    BY DEF RequestExit
  <2>2. OrderEnded(orders[id])'
    BY <2>1 DEF LedgerInv, OrderEnded
  <2>3. OrderAtWork(id)'
    <3>1. OrderAtWork(id) /\ orders[id].run \in AccountRuns
      BY <1>1, <2>1, OrderFields DEF LedgerInv
    <3>2. positions'[orders[id].run].order = positions[orders[id].run].order
      BY <1>2, <3>1 DEF p
    <3> QED
      BY <2>1, <3>1, <3>2 DEF OrderAtWork
  <2> QED
    BY <1>3, <1>4, <1>5, <2>1, <2>2, <2>3, OrdersStay
<1>9. ASSUME NEW q \in AccountRuns
      PROVE  EntryAtWork(q)' /\ ExitAtWork(q)' /\ Stages(q)' /\ Balance(q)'
  <2>1. CASE q # r
    BY <1>2, <1>3, <1>4, <1>5, <2>1, OtherRuns DEF RequestExit
  <2>2. CASE q = r
    <3>1. e \in Events' /\ p.openedAt <= ticks'[e].at
      <4>1. p.event \in Events /\ p.openedAt <= ticks[p.event].at
        BY <1>1 DEF Stages, NotEntered, NoHolding, HoldingEntered, p
      <4>2. ticks[p.event].at <= ticks[e].at
        BY <1>1, <4>1 DEF TicksInOrder
      <4>3. ticks[p.event].at \in Nat /\ ticks[e].at \in Nat /\ p.openedAt \in Nat
        BY <1>1, <4>1, TickFields, HoldingFields DEF p
      <4> QED
        BY <4>1, <4>2, <4>3 DEF RequestExit, Events
    <3>2. Stages(r)' /\ Balance(r)'
      BY <1>1, <1>2, <1>3, <1>4, <1>5, <3>1, StageMoves DEF RequestExit, p
    <3>3. ExitAtWork(r)'
      BY <1>1, <1>2 DEF ExitAtWork, RequestExit, p
    <3>4. EntryAtWork(r)'
      BY <1>1 DEF EntryAtWork, RequestExit, NoHolding, p
    <3> QED
      BY <2>2, <3>2, <3>3, <3>4
  <2> QED
    BY <2>1, <2>2
<1> QED
  BY <1>3, <1>6, <1>7, <1>8, <1>9 DEF LedgerInv

(* A new exit order is for all that remains.                               *)
LEMMA SubmitExitKeeps ==
  ASSUME TradeAssumption, LedgerInv, NEW r \in AccountRuns, SubmitExit(r)
  PROVE  LedgerInv'
<1> DEFINE p == positions[r]
           n == Len(orders) + 1
           e == LastTick
           row == [run |-> r, kind |-> "exit", tif |-> "IOC", quantity |-> p.remaining,
                   event |-> e, stream |-> ticks[e].stream, at |-> clock,
                   expires |-> clock + ExitTtl, status |-> "OPEN", filled |-> 0, cancelled |-> 0]
           moved == [p EXCEPT !.event = e]
           ordered == [p EXCEPT !.event = e, !.order = n]
<1>1. /\ LedgerType /\ clock \in Nat /\ EntryAtWork(r) /\ ExitAtWork(r) /\ Stages(r) /\ TicksInOrder
      /\ p \in HoldingRow /\ p.event \in Nat /\ p.remaining \in Nat /\ p.openedAt \in Nat
      /\ e \in Events /\ e \in Nat /\ n \in Nat /\ ticks[e].stream \in Nat
      /\ Len(orders) \in Nat
  <2>1. LedgerType /\ clock \in Nat /\ EntryAtWork(r) /\ ExitAtWork(r) /\ Stages(r) /\ TicksInOrder
    BY DEF LedgerInv, LedgerType
  <2> QED
    BY <2>1, HoldingFields, Lengths, TickFields DEF Events
<1>2. /\ p.status = "OPEN" /\ p.requested /\ p.order = 0 /\ clock' = clock /\ ticks' = ticks
      /\ signals' = signals /\ fills' = fills /\ decisions' = decisions /\ booked' = booked
  BY DEF SubmitExit, Exiting
<1>3. HoldingEntered(r) /\ HoldingOpen(r)
  BY <1>1, <1>2 DEF Stages, NotEntered, NoHolding, HoldingClosed
<1>4. /\ r \in ByBook /\ p.remaining >= 1 /\ p.event \in Events
      /\ p.openedAt <= ticks[p.event].at
  BY <1>2, <1>3 DEF HoldingOpen, HoldingEntered
<1>5. p.event <= e /\ p.openedAt <= ticks[e].at
  <2>1. p.event <= e
    BY <1>1, <1>4, Lengths DEF LastTick
  <2>2. ticks[p.event].at <= ticks[e].at
    BY <1>1, <1>4, <2>1 DEF TicksInOrder
  <2>3. ticks[p.event].at \in Nat /\ ticks[e].at \in Nat
    BY <1>1, <1>4, TickFields
  <2> QED
    BY <1>1, <1>4, <2>1, <2>2, <2>3
<1>6. row \in OrderRow
  <2>1. clock + ExitTtl \in Nat
    BY <1>1, SMTT(60) DEF TradeAssumption
  <2> QED
    BY <1>1, <2>1 DEF OrderRow
<1>7. /\ row.run = r /\ row.kind = "exit" /\ row.tif = "IOC" /\ row.quantity = p.remaining
      /\ row.event = e /\ row.at = clock /\ row.status = "OPEN" /\ row.filled = 0
      /\ row.cancelled = 0
  OBVIOUS
<1>8. \/ /\ orders' = Append(orders, row) /\ positions' = [positions EXCEPT ![r] = ordered]
      \/ /\ orders' = orders /\ positions' = [positions EXCEPT ![r] = moved]
  BY <1>1 DEF SubmitExit, LedgerType, HoldingRow
<1>9. /\ moved \in HoldingRow /\ moved.status = "OPEN" /\ moved.quantity = p.quantity
      /\ moved.remaining = p.remaining /\ moved.openedAt = p.openedAt /\ moved.event = e
      /\ moved.order = 0
  BY <1>1, <1>2 DEF HoldingRow
<1>10. /\ ordered \in HoldingRow /\ ordered.status = "OPEN" /\ ordered.quantity = p.quantity
       /\ ordered.remaining = p.remaining /\ ordered.openedAt = p.openedAt /\ ordered.event = e
       /\ ordered.order = n
  BY <1>1, <1>2 DEF HoldingRow
<1> HIDE DEF row, moved, ordered
<1>11. /\ positions'[r].status = "OPEN" /\ positions'[r].quantity = p.quantity
       /\ positions'[r].remaining = p.remaining /\ positions'[r].openedAt = p.openedAt
       /\ positions'[r].event = e /\ positions' \in [AccountRuns -> HoldingRow]
       /\ \A q \in AccountRuns : q # r => positions'[q] = positions[q]
  BY <1>1, <1>8, <1>9, <1>10 DEF LedgerType
<1>12. /\ orders' \in Seq(OrderRow) /\ Len(orders) <= Len(orders')
       /\ \A id \in 1..Len(orders) : id \in 1..Len(orders') /\ orders'[id] = orders[id]
       /\ \A id \in 1..Len(orders') :
            id \in 1..Len(orders) \/ (id = n /\ orders'[id] = row /\ positions'[r].order = id)
       /\ positions'[r].order = 0 \/ (positions'[r].order = n /\ n \in 1..Len(orders'))
  <2>1. CASE orders' = orders /\ positions' = [positions EXCEPT ![r] = moved]
    BY <1>1, <1>9, <2>1 DEF LedgerType
  <2>2. CASE orders' = Append(orders, row) /\ positions' = [positions EXCEPT ![r] = ordered]
    <3>1. /\ orders' \in Seq(OrderRow) /\ Len(orders') = n /\ orders'[n] = row
          /\ \A id \in 1..Len(orders) : orders'[id] = orders[id]
      BY <1>1, <1>6, <2>2, AppendProperties DEF LedgerType
    <3>2. positions'[r].order = n
      BY <1>1, <1>10, <2>2 DEF LedgerType
    <3> QED
      BY <1>1, <3>1, <3>2
  <2> QED
    BY <1>8, <2>1, <2>2
<1>13. LedgerType'
  BY <1>1, <1>2, <1>11, <1>12 DEF LedgerType
<1>14. LedgerKept
  BY <1>1, <1>2, <1>12, Lengths DEF LedgerKept, SameTerms
<1>15. RunsKept
  <2>1. \A id \in 1..Len(orders) : orders[id].status # "OPEN" => orders'[id] = orders[id]
    BY <1>12
  <2>2. ASSUME NEW q \in AccountRuns
        PROVE  /\ positions[q].status # "NONE" => positions'[q].status # "NONE"
               /\ positions[q].event <= positions'[q].event
    <3>1. CASE q = r
      BY <1>5, <1>11, <3>1
    <3>2. CASE q # r
      BY <1>1, <1>11, <3>2, HoldingFields
    <3> QED
      BY <3>1, <3>2
  <2> QED
    BY <1>1, <1>2, <2>1, <2>2 DEF RunsKept
<1>16. TicksInOrder'
  BY <1>1, <1>2, <1>13, TicksStay
<1>17. OnlyFills' /\ \A f \in 1..Len(fills') : FillPlaced(f)' /\ ReceiptHolds(f)' /\ SourceHolds(f)'
  <2>1. \A id \in 1..Len(orders') :
          orders'[id].filled # 0 => id \in 1..Len(orders) /\ orders[id].filled # 0
    BY <1>7, <1>12
  <2> QED
    BY <1>2, <1>13, <1>14, <1>15, <2>1, NoNewFills
<1>18. ASSUME NEW id \in 1..Len(orders')
       PROVE  OrderPlaced(orders[id])' /\ OrderEnded(orders[id])' /\ OrderAtWork(id)'
  <2>1. CASE id \in 1..Len(orders)
    <3>1. orders'[id] = orders[id] /\ OrderEnded(orders[id]) /\ OrderAtWork(id)
          /\ orders[id].run \in AccountRuns
      BY <1>1, <1>12, <2>1, OrderFields DEF LedgerInv
    <3>2. OrderEnded(orders[id])'
      BY <3>1 DEF OrderEnded
    <3>3. orders[id].kind = "exit" /\ orders[id].status = "OPEN" => orders[id].run # r
      BY <1>1, <1>2, <2>1, <3>1 DEF OrderAtWork
    <3>4. OrderAtWork(id)'
      BY <1>2, <1>11, <3>1, <3>3 DEF OrderAtWork
    <3> QED
      BY <1>13, <1>14, <1>15, <2>1, <3>2, <3>4, OrdersStay
  <2>2. CASE orders'[id] = row /\ positions'[r].order = id
    <3>1. OrderPlaced(orders[id])'
      BY <1>1, <1>2, <1>4, <1>7, <1>11, <2>2, SMTT(60)
      DEF OrderPlaced, ExitPlaced, TicksInOrder, Events
    <3>2. OrderEnded(orders[id])'
      BY <1>7, <2>2 DEF OrderEnded
    <3>3. OrderAtWork(id)'
      BY <1>7, <2>2 DEF OrderAtWork
    <3> QED
      BY <3>1, <3>2, <3>3
  <2> QED
    BY <1>12, <2>1, <2>2
<1>19. ASSUME NEW q \in AccountRuns
       PROVE  EntryAtWork(q)' /\ ExitAtWork(q)' /\ Stages(q)' /\ Balance(q)'
  <2>1. CASE q # r
    BY <1>2, <1>11, <1>12, <1>13, <1>14, <1>15, <2>1, OtherRuns
  <2>2. CASE q = r
    <3>1. e \in Events' /\ p.openedAt <= ticks'[e].at
      BY <1>1, <1>2, <1>5 DEF Events
    <3>2. Stages(r)' /\ Balance(r)'
      BY <1>2, <1>4, <1>11, <1>13, <1>14, <1>15, <3>1, StageMoves
    <3>3. ExitAtWork(r)'
      BY <1>1, <1>7, <1>11, <1>12 DEF ExitAtWork
    <3>4. EntryAtWork(r)'
      BY <1>1, <1>2, <1>12 DEF EntryAtWork, NoHolding
    <3> QED
      BY <2>2, <3>2, <3>3, <3>4
  <2> QED
    BY <2>1, <2>2
<1> QED
  BY <1>13, <1>16, <1>17, <1>18, <1>19 DEF LedgerInv

-----------------------------------------------------------------------------
(* What a fill takes of an order's source: with what is already consumed   *)
(* it stays within the capacity, and what followed the book is counted.    *)
LEMMA TimesTrades ==
  ASSUME NEW m \in Nat, NEW n \in Nat, NEW s \in Nat, m <= n
  PROVE  /\ s * m \in Nat /\ s * n \in Nat /\ s * m <= s * n /\ s * (n + 1) = s * n + s
<1>1. s * m \in Nat /\ s * n \in Nat /\ (n - m) * s >= 0 /\ s * (n + 1) = s * n + s
  OBVIOUS
<1>2. (n - m) * s = s * n - s * m
  OBVIOUS
<1> QED
  BY <1>1, <1>2

FollowedBook(o, e) ==
  {i \in 1..e : /\ ticks[i].stream = ticks[e].stream
                /\ ticks[i].book = ticks[e].book
                /\ ticks[i].at > ticks[e].bookAt
                /\ ticks[i].taker = Side(o)}
CountedTrades(o, e) ==
  {i \in (o.event + 1)..(e - 1) : /\ ticks[i].stream = ticks[e].stream
                                  /\ ticks[i].book = ticks[e].book
                                  /\ ticks[i].at >= ticks[e].bookAt
                                  /\ ticks[i].received <= ticks[e].received
                                  /\ ticks[i].taker = Side(o)}

(* What others took is a whole number.                                     *)
LEMMA ConsumedType ==
  ASSUME TradeAssumption, LedgerType, NEW o, o.event \in Nat, NEW e \in Events
  PROVE  /\ Own(o, e) \in Nat /\ PublicConsumed(o, e) \in Nat
         /\ IsFiniteSet(CountedTrades(o, e)) /\ Cardinality(CountedTrades(o, e)) \in Nat
         /\ o.tif = "IOC" => PublicConsumed(o, e) = Size * Cardinality(CountedTrades(o, e))
<1>1. Own(o, e) \in Nat
  <2> DEFINE S == FromSource(SourceKey(o, e))
  <2>1. S \in SUBSET (1..Len(fills))
    BY DEF FromSource
  <2> HIDE DEF S
  <2>2. SumFunctionOnSet(FillQuantities, S) \in Nat
    BY <2>1, SomeFills
  <2> QED
    BY <2>2 DEF Own, S
<1>2. IsFiniteSet(CountedTrades(o, e)) /\ Cardinality(CountedTrades(o, e)) \in Nat
  <2>1. o.event + 1 \in Int /\ e - 1 \in Int
    BY Lengths
  <2>2. IsFiniteSet((o.event + 1)..(e - 1))
    BY <2>1, FS_Interval
  <2>3. CountedTrades(o, e) \subseteq (o.event + 1)..(e - 1)
    BY DEF CountedTrades
  <2> QED
    BY <2>2, <2>3, FS_Subset, FS_CardinalityType
<1>3. o.tif # "PostOnly" => PublicConsumed(o, e) = Size * Cardinality(CountedTrades(o, e))
  BY DEF PublicConsumed, CountedTrades
<1>4. PublicConsumed(o, e) \in Nat
  <2>1. CASE o.tif = "PostOnly"
    BY <2>1 DEF PublicConsumed
  <2>2. CASE o.tif # "PostOnly"
    <3>1. Size \in Nat
      BY DEF TradeAssumption
    <3> QED
      BY <1>2, <1>3, <2>2, <3>1, TimesTrades
  <2> QED
    BY <2>1, <2>2
<1> QED
  BY <1>1, <1>2, <1>3, <1>4

(* Trades that followed a book count as consumed, but for the one in hand. *)
LEMMA BookCounted ==
  ASSUME TradeAssumption, LedgerType, TicksInOrder, NEW o, o.event \in Events, o.at \in Nat,
         ticks[o.event].received <= o.at, NEW e \in Events, ticks[e].bookAt >= o.at
  PROVE  /\ Cardinality(FollowedBook(o, e)) \in Nat
         /\ Size * Cardinality(FollowedBook(o, e))
              <= Size * Cardinality(CountedTrades(o, e))
                   + (IF ticks[e].taker = Side(o) THEN Size ELSE 0)
<1> DEFINE F == FollowedBook(o, e)
           C == CountedTrades(o, e)
<1>1. o.event \in Nat /\ e \in Nat /\ e >= 1 /\ e \in 1..Len(ticks) /\ Len(ticks) \in Nat
  BY Lengths
<1>2. IsFiniteSet(C) /\ Cardinality(C) \in Nat /\ e \notin C
  BY <1>1, ConsumedType DEF CountedTrades
<1>3. ASSUME NEW i \in F, i # e
      PROVE  i \in C
  <2>1. /\ i \in 1..e /\ ticks[i].stream = ticks[e].stream /\ ticks[i].book = ticks[e].book
        /\ ticks[i].at > ticks[e].bookAt /\ ticks[i].taker = Side(o)
    BY <1>3 DEF FollowedBook
  <2>2. i \in Nat /\ i <= e - 1 /\ i \in Events
    BY <1>1, <1>3, <2>1, Lengths
  <2>3. /\ ticks[i].at \in Nat /\ ticks[i].received \in Nat /\ ticks[e].bookAt \in Nat
        /\ ticks[o.event].received \in Nat
    BY <2>2, TickFields
  <2>4. ticks[i].received <= ticks[e].received /\ ticks[i].at <= ticks[i].received
    BY <2>2, <1>1 DEF TicksInOrder
  <2>5. i > o.event
    <3>1. CASE i <= o.event
      <4>1. ticks[i].received <= ticks[o.event].received
        BY <2>2, <3>1 DEF TicksInOrder
      <4> QED
        BY <2>1, <2>3, <2>4, <4>1
    <3> QED
      BY <1>1, <2>2, <3>1
  <2>6. i \in (o.event + 1)..(e - 1) /\ ticks[i].at >= ticks[e].bookAt
    BY <1>1, <2>1, <2>2, <2>3, <2>5
  <2> QED
    BY <2>1, <2>4, <2>6 DEF CountedTrades
<1>4. Size \in Nat
  BY DEF TradeAssumption
<1>5. CASE ticks[e].taker = Side(o)
  <2>1. IsFiniteSet(C \cup {e}) /\ Cardinality(C \cup {e}) = Cardinality(C) + 1
    BY <1>2, FS_AddElement
  <2>2. F \subseteq C \cup {e}
    BY <1>3
  <2>3. Cardinality(F) \in Nat /\ Cardinality(F) <= Cardinality(C) + 1
    BY <2>1, <2>2, FS_Subset, FS_CardinalityType
  <2>4. Cardinality(C) + 1 \in Nat
    BY <1>2
  <2> HIDE DEF F, C
  <2>5. Size * Cardinality(F) <= Size * (Cardinality(C) + 1)
    BY <1>4, <2>3, <2>4, TimesTrades
  <2>6. Size * (Cardinality(C) + 1) = Size * Cardinality(C) + Size
    BY <1>2, <1>4, TimesTrades
  <2>7. Size * Cardinality(F) <= Size * Cardinality(C) + Size
    BY <2>5, <2>6
  <2> QED
    BY <1>5, <2>3, <2>7 DEF F, C
<1>6. CASE ticks[e].taker # Side(o)
  <2>1. F \subseteq C
    BY <1>3, <1>6 DEF FollowedBook
  <2>2. Cardinality(F) \in Nat /\ Cardinality(F) <= Cardinality(C)
    BY <1>2, <2>1, FS_Subset, FS_CardinalityType
  <2> HIDE DEF F, C
  <2>3. Size * Cardinality(F) <= Size * Cardinality(C) /\ Size * Cardinality(C) \in Nat
    BY <1>2, <1>4, <2>2, TimesTrades
  <2>4. Size * Cardinality(F) <= Size * Cardinality(C) + 0
    BY <2>3
  <2> QED
    BY <1>6, <2>2, <2>4 DEF F, C
<1> QED
  BY <1>5, <1>6

(* A fill within what is left, and within the book.                        *)
LEMMA OfferTaken ==
  ASSUME TradeAssumption, LedgerType, TicksInOrder, NEW id \in 1..Len(orders),
         OrderPlaced(orders[id]), orders[id].tif # "whole", NEW e \in Events,
         Offered(orders[id], e), NEW quantity \in Nat, quantity >= 1,
         NEW own, own = Own(orders[id], e), NEW public, public = PublicConsumed(orders[id], e),
         quantity <= Available(orders[id], e, own + public)
  PROVE  /\ own \in Nat /\ public \in Nat /\ Capacity(orders[id], e) \in Int
         /\ Evaluate(orders[id], e, own + public) = "fill"
         /\ own + quantity <= Capacity(orders[id], e)
         /\ orders[id].tif = "IOC" =>
              own + quantity + Size * Cardinality(FollowedBook(orders[id], e)) <= Depth
<1> DEFINE o == orders[id]
           left == Available(o, e, own + public)
           held == Capacity(o, e)
<1>1. /\ o.tif \in {"IOC", "PostOnly"} /\ o.quantity \in Nat /\ o.at \in Nat /\ o.event \in Nat
      /\ o.event \in Events /\ ticks[o.event].received <= o.at
  BY OrderFields DEF OrderPlaced
<1>2. own \in Nat /\ public \in Nat
  BY <1>1, ConsumedType
<1>3. own + public \in Int
  BY <1>2
<1>4. held \in Int /\ left \in Int /\ left <= held - (own + public)
  <2>1. held \in Int
    BY <1>1, CapacityType
  <2>2. o.quantity \in Int
    BY <1>1
  <2>3. left \in Int
    <3> DEFINE room == held - (own + public)
    <3>1. room \in Int
      BY <1>3, <2>1
    <3> HIDE DEF room
    <3>2. Min({o.quantity, room}) \in Int
      BY <2>2, <3>1, LesserOfTwo
    <3> QED
      BY <3>2 DEF Available, room
  <2>4. left <= Capacity(o, e) - (own + public)
    BY <1>1, <1>3, <2>2, AvailableWithin
  <2> QED
    BY <2>1, <2>3, <2>4
<1>5. quantity <= left
  OBVIOUS
<1>6. Evaluate(o, e, own + public) = "fill"
  <2>1. ~(left <= 0) /\ left > 0
    <3> HIDE DEF left
    <3> QED
      BY <1>4, <1>5
  <2>2. ~Over(o, e) /\ AfterSubmission(o, e) /\ BookFresh(e) /\ Reached(o, e)
    BY DEF Offered
  <2> QED
    BY <2>1, <2>2 DEF Evaluate
<1>7. own + quantity <= held
  <2> HIDE DEF left, held
  <2> QED
    BY <1>2, <1>4, <1>5
<1>8. ASSUME o.tif = "IOC"
      PROVE  own + quantity + Size * Cardinality(FollowedBook(o, e)) <= Depth
  <2> DEFINE a == Size * Cardinality(FollowedBook(o, e))
             b == Size * Cardinality(CountedTrades(o, e))
             k == IF ticks[e].taker = Side(o) THEN Size ELSE 0
  <2>1. ticks[e].bookAt >= o.at
    BY <1>8 DEF Offered, Reached, BookAfterSubmission
  <2>2. Cardinality(FollowedBook(o, e)) \in Nat /\ a <= b + k
    BY <1>1, <2>1, BookCounted
  <2>3. public = b /\ Cardinality(CountedTrades(o, e)) \in Nat
    BY <1>1, <1>8, ConsumedType
  <2>4. held = Depth - k
    BY <1>8 DEF Capacity
  <2>5. Size \in Nat /\ Depth \in Nat
    BY DEF TradeAssumption
  <2>6. a \in Nat /\ b \in Nat /\ k \in Nat
    BY <2>2, <2>3, <2>5, TimesTrades
  <2> HIDE DEF a, b, k, held, left
  <2>7. left <= Depth - k - (own + b) /\ own \in Nat
    BY <1>2, <1>4, <2>3, <2>4
  <2>8. quantity <= Depth - k - (own + b)
    BY <1>2, <1>4, <1>5, <2>5, <2>6, <2>7, SMTT(60)
  <2>9. own + quantity + a <= Depth
    BY <2>2, <2>5, <2>6, <2>7, <2>8, SMTT(60)
  <2> QED
    BY <2>9 DEF a
<1> QED
  BY <1>2, <1>4, <1>6, <1>7, <1>8

(* The receipt of a new fill can be verified, and no source is used twice. *)
LEMMA NewReceipt ==
  ASSUME TradeAssumption, LedgerInv, LedgerType', LedgerKept, ticks' = ticks,
         NEW id \in 1..Len(orders), orders[id].tif # "whole", NEW e \in Events,
         Offered(orders[id], e), NEW quantity \in Nat, quantity >= 1,
         quantity <= Available(orders[id], e, Own(orders[id], e) + PublicConsumed(orders[id], e)),
         orders[id].kind = "exit" => quantity =
           Available(orders[id], e, Own(orders[id], e) + PublicConsumed(orders[id], e)),
         NEW n, n \in 1..Len(fills'), n \notin 1..Len(fills),
         fills'[n] = Receipt(id, orders[id], e, quantity),
         \A f \in 1..Len(fills') :
            f \in 1..Len(fills) \/ f = n \/ orders'[fills'[f].order].tif = "whole"
  PROVE  /\ ReceiptHolds(n)'
         /\ \A f \in 1..Len(fills') : SourceHolds(f)'
<1> DEFINE o == orders[id]
           own == Own(o, e)
           public == PublicConsumed(o, e)
           source == SourceKey(o, e)
<1>1. LedgerType /\ TicksInOrder /\ OrderPlaced(o)
      /\ \A f \in 1..Len(fills) : FillPlaced(f) /\ SourceHolds(f)
  BY DEF LedgerInv
<1>2. /\ own \in Nat /\ public \in Nat /\ Evaluate(o, e, own + public) = "fill"
      /\ own + quantity <= Capacity(o, e)
      /\ o.tif = "IOC" => own + quantity + Size * Cardinality(FollowedBook(o, e)) <= Depth
  BY <1>1, OfferTaken
<1>3. SameTerms(o, orders'[id])
  BY DEF LedgerKept
<1>4. /\ fills'[n].order = id /\ fills'[n].event = e /\ fills'[n].at = ticks[e].at
      /\ fills'[n].quantity = quantity /\ fills'[n].capacity = Capacity(o, e)
      /\ fills'[n].own = own /\ fills'[n].public = public
  BY DEF Receipt
<1>5. Side(orders'[id]) = Side(o) /\ Capacity(orders[id], e)' = Capacity(o, e)
  BY <1>3 DEF Side, Capacity, SameTerms
<1>6. Reproduced(n)'
  BY <1>2, <1>3, <1>4, ZenonT(60) DEF Reproduced, Evaluate, Over, AfterSubmission, BookFresh, Reached,
              Offered, BookAfterSubmission, Available, Capacity, Side, SameTerms
<1>7. OfReceipt(n)' = Available(o, e, own + public)
  BY <1>3, <1>4 DEF OfReceipt, Available, Capacity, Side, SameTerms
<1>8. o.tif = "IOC" => BookHeld(n)'
  <2> DEFINE F == {i \in 1..e : /\ ticks'[i].stream = ticks'[e].stream
                                /\ ticks'[i].book = ticks'[e].book
                                /\ ticks'[i].at > ticks'[e].bookAt
                                /\ ticks'[i].taker = Side(orders[id])'}
  <2>1. F = FollowedBook(o, e)
    BY <1>5 DEF FollowedBook, Side
  <2>2. BookHeld(n)' <=> own + quantity + Size * Cardinality(F) <= Depth
    BY <1>4 DEF BookHeld
  <2> QED
    BY <1>2, <2>1, <2>2
<1>9. ReceiptHolds(n)'
  BY <1>3, <1>4, <1>6, <1>7, <1>8 DEF ReceiptHolds, SameTerms
<1>10. source = SourceKey(orders[fills[n].order], fills[n].event)'
  BY <1>3, <1>4, <1>5 DEF SourceKey, Side, SameTerms
<1>11. own = SumFunctionOnSet(FillQuantities, FromSource(source))
  BY DEF Own
<1>12. fills'[n].own + fills'[n].quantity <= fills'[n].capacity
  BY <1>2, <1>4
<1>13. fills'[n].own = SumFunctionOnSet(FillQuantities, FromSource(source))
  BY <1>4, <1>11
<1> HIDE DEF own, public, source, o
<1>14. \A f \in 1..Len(fills') : SourceHolds(f)'
  BY <1>1, <1>10, <1>12, <1>13, SourcesTaken
<1> QED
  BY <1>9, <1>14

(* The fills of a run that gets one more.                                  *)
LEMMA OfRunGrows ==
  ASSUME LedgerInv, LedgerType', LedgerKept, RunsKept, NEW r \in AccountRuns, NEW kind,
         NEW n, n \in 1..Len(fills'), n \notin 1..Len(fills),
         orders'[fills'[n].order].run = r, orders'[fills'[n].order].kind = kind,
         \A f \in 1..Len(fills') :
            f \notin 1..Len(fills) /\ f # n /\ orders'[fills'[f].order].run = r
              => orders'[fills'[f].order].kind # kind
  PROVE  /\ OfRun(r, kind)' = OfRun(r, kind) \cup {n}
         /\ SumFunctionOnSet(FillQuantities', OfRun(r, kind)')
              = SumFunctionOnSet(FillQuantities, OfRun(r, kind)) + fills'[n].quantity
         /\ fills'[n].quantity \in Nat
<1>1. LedgerType /\ \A f \in 1..Len(fills) : f \in 1..Len(fills')
  BY FillsStay DEF LedgerInv
<1>2. \A f \in 1..Len(fills) : fills'[f] = fills[f] /\ orders'[fills[f].order] = orders[fills[f].order]
  BY DEF LedgerInv, FillPlaced, LedgerKept, RunsKept
<1>3. OfRun(r, kind)' = OfRun(r, kind) \cup {n}
  BY <1>1, <1>2 DEF OfRun
<1>4. OfRun(r, kind) \in SUBSET (1..Len(fills))
  BY DEF OfRun
<1> QED
  BY <1>1, <1>3, <1>4, SumWithNew

(* The latest event that a position was moved to, and a later one.         *)
LEMMA LaterEvent ==
  ASSUME LedgerInv, NEW r \in AccountRuns, HoldingEntered(r), NEW e \in Events,
         positions[r].event <= e
  PROVE  ticks[e].at \in Nat /\ positions[r].openedAt <= ticks[e].at
<1> DEFINE p == positions[r]
<1>1. LedgerType /\ TicksInOrder /\ p.event \in Events /\ p.openedAt <= ticks[p.event].at
  BY DEF LedgerInv, HoldingEntered
<1>2. ticks[p.event].at <= ticks[e].at
  BY <1>1 DEF TicksInOrder
<1>3. ticks[p.event].at \in Nat /\ ticks[e].at \in Nat /\ p.openedAt \in Nat
  BY <1>1, TickFields, HoldingFields
<1> QED
  BY <1>1, <1>2, <1>3

(* One more CLOSE decision.                                                *)
LEMMA OneMoreClose ==
  ASSUME NEW S, NEW x \in [opens : S, closes : Nat], NEW d, d = [x EXCEPT !.closes = @ + 1]
  PROVE  d \in [opens : S, closes : Nat] /\ d.opens = x.opens /\ d.closes = x.closes + 1
OBVIOUS

(* A whole close writes an order, its fill and the trade at once.          *)
LEMMA CloseWholeKeeps ==
  ASSUME LedgerInv, NEW r \in AccountRuns, NEW e \in Events, CloseWhole(r, e)
  PROVE  LedgerInv'
<1> DEFINE p == positions[r]
           n == Len(orders) + 1
           m == Len(fills) + 1
           closed == [p EXCEPT !.status = "CLOSED", !.remaining = 0,
                               !.closedAt = ticks[e].at, !.event = e]
           row == WholeOrder(r, e, closed.quantity)
           fill == WholeFill(n, e, closed.quantity)
           d == [decisions[r] EXCEPT !.closes = @ + 1]
<1>1. /\ LedgerType /\ clock \in Nat /\ EntryAtWork(r) /\ ExitAtWork(r) /\ Stages(r) /\ TicksInOrder
      /\ p \in HoldingRow /\ p.event \in Nat /\ p.quantity \in Nat /\ p.openedAt \in Nat
      /\ e \in Nat /\ Len(orders) \in Nat /\ Len(fills) \in Nat /\ n \in Nat /\ m \in Nat
      /\ ticks[e].stream \in Nat /\ ticks[e].at \in Nat
      /\ decisions[r] \in [opens : Seq(Nat), closes : Nat] /\ booked[r] \in Seq(BookedRow)
  <2>1. LedgerType /\ clock \in Nat /\ EntryAtWork(r) /\ ExitAtWork(r) /\ Stages(r) /\ TicksInOrder
    BY DEF LedgerInv, LedgerType
  <2>2. /\ p \in HoldingRow /\ p.event \in Nat /\ p.quantity \in Nat /\ p.openedAt \in Nat
    BY <2>1, HoldingFields
  <2>3. e \in Nat /\ Len(orders) \in Nat /\ Len(fills) \in Nat
    BY <2>1, Lengths
  <2>4. ticks[e].stream \in Nat /\ ticks[e].at \in Nat
    BY <2>1, TickFields
  <2>5. decisions[r] \in [opens : Seq(Nat), closes : Nat] /\ booked[r] \in Seq(BookedRow)
    BY <2>1 DEF LedgerType
  <2> QED
    BY <2>1, <2>2, <2>3, <2>4, <2>5
<1>26. /\ Len(orders) \in Nat /\ Len(fills) \in Nat /\ orders \in Seq(OrderRow)
       /\ fills \in Seq(FillRow)
  BY <1>1 DEF LedgerType
<1>2. /\ p.status = "OPEN" /\ r \notin ByBook /\ e >= p.event
      /\ clock' = clock /\ ticks' = ticks /\ signals' = signals
  BY DEF CloseWhole, Held
<1>3. HoldingEntered(r) /\ HoldingOpen(r)
  BY <1>1, <1>2 DEF Stages, NotEntered, NoHolding, HoldingClosed
<1>4. /\ p.openedAt <= ticks[e].at /\ p.quantity >= 1 /\ OfRun(r, "exit") = {}
      /\ decisions[r].closes = 0 /\ booked[r] = <<>> /\ Len(decisions[r].opens) = 1
  BY <1>1, <1>2, <1>3, LaterEvent DEF HoldingOpen, HoldingEntered
<1>5. p.order = 0
  <2>1. p.order # 0 => /\ p.order \in 1..Len(orders) /\ orders[p.order].run = r
                       /\ orders[p.order].kind = "exit" /\ orders[p.order].tif = "IOC"
    BY <1>1 DEF ExitAtWork
  <2> QED
    BY <1>2, <2>1 DEF LedgerInv, OrderPlaced, ExitPlaced
<1>6. /\ closed \in HoldingRow /\ closed.status = "CLOSED" /\ closed.quantity = p.quantity
      /\ closed.remaining = 0 /\ closed.openedAt = p.openedAt /\ closed.closedAt = ticks[e].at
      /\ closed.event = e /\ closed.order = 0
  BY <1>1, <1>5 DEF HoldingRow
<1>7. /\ row.run = r /\ row.kind = "exit" /\ row.tif = "whole" /\ row.quantity = p.quantity
      /\ row.event = e /\ row.at = clock /\ row.status = "FILLED" /\ row.filled = p.quantity
      /\ row.cancelled = 0 /\ row \in OrderRow
  BY <1>1, <1>6 DEF WholeOrder, OrderRow
<1>8. /\ fill.order = n /\ fill.event = e /\ fill.at = ticks[e].at /\ fill.quantity = p.quantity
      /\ fill \in FillRow
  BY <1>1, <1>6 DEF WholeFill, FillRow
<1>9. /\ d \in [opens : Seq(Nat), closes : Nat] /\ d.opens = decisions[r].opens /\ d.closes = 1
  <2>1. d = [decisions[r] EXCEPT !.closes = @ + 1] /\ decisions[r].closes + 1 = 1
    BY <1>4
  <2> HIDE DEF d
  <2> QED
    BY <1>1, <2>1, OneMoreClose
<1>10. TradeOf(closed) \in BookedRow
  BY <1>1, <1>6 DEF TradeOf, BookedRow
<1>11. /\ positions' = [positions EXCEPT ![r] = closed]
       /\ orders' = Append(orders, row) /\ fills' = Append(fills, fill)
       /\ decisions' = [decisions EXCEPT ![r] = d]
       /\ booked' = [booked EXCEPT ![r] = Append(booked[r], TradeOf(closed))]
  BY <1>1 DEF CloseWhole, LedgerType
<1> HIDE DEF closed, row, fill, d
<1>12. /\ positions'[r] = closed /\ positions' \in [AccountRuns -> HoldingRow]
       /\ \A q \in AccountRuns : q # r => positions'[q] = positions[q]
  BY <1>1, <1>6, <1>11 DEF LedgerType
<1>13. /\ orders' \in Seq(OrderRow) /\ Len(orders') = n /\ orders'[n] = row
       /\ \A id \in 1..Len(orders) : orders'[id] = orders[id]
       /\ \A id \in 1..Len(orders') : id \in 1..Len(orders) \/ id = n
  BY <1>7, <1>11, <1>26, AppendProperties
<1>14. /\ fills' \in Seq(FillRow) /\ Len(fills') = m /\ fills'[m] = fill
       /\ \A f \in 1..Len(fills) : fills'[f] = fills[f]
       /\ \A f \in 1..Len(fills') : f \in 1..Len(fills) \/ f = m
       /\ m \in 1..Len(fills') /\ m \notin 1..Len(fills)
  BY <1>8, <1>11, <1>26, AppendProperties
<1>15. /\ decisions'[r] = d /\ decisions' \in [AccountRuns -> [opens : Seq(Nat), closes : Nat]]
       /\ \A q \in AccountRuns : q # r => decisions'[q] = decisions[q]
  BY <1>1, <1>9, <1>11 DEF LedgerType
<1>16. /\ booked'[r] = <<TradeOf(closed)>> /\ booked' \in [AccountRuns -> Seq(BookedRow)]
       /\ \A q \in AccountRuns : q # r => booked'[q] = booked[q]
  <2>1. Append(booked[r], TradeOf(closed)) \in Seq(BookedRow)
    BY <1>1, <1>10, AppendProperties
  <2>2. Append(booked[r], TradeOf(closed)) = <<TradeOf(closed)>>
    BY <1>4
  <2> QED
    BY <1>11, <2>1, <2>2 DEF LedgerInv, LedgerType
<1>17. LedgerType'
  BY <1>1, <1>2, <1>12, <1>13, <1>14, <1>15, <1>16 DEF LedgerType
<1>18. LedgerKept
  <2>1. Len(ticks) \in Nat
    BY <1>1, Lengths
  <2> QED
    BY <1>2, <1>13, <1>14, <1>26, <2>1 DEF LedgerKept, SameTerms
<1>19. RunsKept
  <2>1. ASSUME NEW q \in AccountRuns
        PROVE  /\ positions[q].status # "NONE" => positions'[q].status # "NONE"
               /\ positions[q].event <= positions'[q].event
    <3>1. CASE q = r
      BY <1>1, <1>2, <1>6, <1>12, <3>1
    <3>2. CASE q # r
      BY <1>1, <1>12, <3>2, HoldingFields
    <3> QED
      BY <3>1, <3>2
  <2> QED
    BY <1>1, <1>2, <1>13, <2>1 DEF RunsKept
<1>20. TicksInOrder'
  BY <1>1, <1>2, <1>17, TicksStay
<1>21. \A f \in 1..Len(fills) : fills[f].order # n
  <2>1. \A f \in 1..Len(fills) : fills[f].order \in 1..Len(orders)
    BY DEF LedgerInv, FillPlaced
  <2>2. n \notin 1..Len(orders)
    BY <1>26
  <2> QED
    BY <2>1, <2>2
<1>22. OnlyFills'
  <2>1. \A f, g \in 1..Len(fills') :
          f \notin 1..Len(fills) /\ g \notin 1..Len(fills) /\ fills'[f].order = fills'[g].order
            => f = g
    BY <1>14
  <2>2. \A f \in 1..Len(fills') : \A g \in 1..Len(fills) :
          f \notin 1..Len(fills) => fills'[f].order # fills[g].order
    BY <1>8, <1>14, <1>21
  <2>3. \A id \in 1..Len(orders') :
          orders'[id].filled # 0 =>
            \/ id \in 1..Len(orders) /\ orders[id].filled # 0
            \/ \E f \in 1..Len(fills') : fills'[f].order = id
    BY <1>8, <1>13, <1>14
  <2> QED
    BY <1>17, <1>18, <2>1, <2>2, <2>3, FillsStayOnly
<1>23. ASSUME NEW f \in 1..Len(fills')
       PROVE  FillPlaced(f)' /\ ReceiptHolds(f)' /\ SourceHolds(f)'
  <2>1. \A g \in 1..Len(fills') : g \in 1..Len(fills) \/ orders'[fills'[g].order].tif = "whole"
    BY <1>7, <1>8, <1>13, <1>14
  <2>2. SourceHolds(f)'
    BY <1>17, <1>18, <2>1, SourcesStay DEF LedgerInv
  <2>3. CASE f \in 1..Len(fills)
    BY <1>17, <1>18, <1>19, <2>2, <2>3, FillsStay
  <2>4. CASE f = m
    <3>1. /\ fills'[f] = fill /\ orders'[n] = row /\ n \in 1..Len(orders') /\ e \in Events'
      BY <1>1, <1>2, <1>13, <1>14, <2>4 DEF Events
    <3>2. e <= positions'[r].event
      BY <1>1, <1>6, <1>12
    <3>3. FillPlaced(f)'
      BY <1>2, <1>4, <1>7, <1>8, <3>1, <3>2 DEF FillPlaced
    <3>4. ReceiptHolds(f)'
      BY <1>7, <1>8, <3>1 DEF ReceiptHolds
    <3> QED
      BY <2>2, <3>3, <3>4
  <2> QED
    BY <1>14, <2>3, <2>4
<1>24. ASSUME NEW id \in 1..Len(orders')
       PROVE  OrderPlaced(orders[id])' /\ OrderEnded(orders[id])' /\ OrderAtWork(id)'
  <2>1. CASE id \in 1..Len(orders)
    <3>1. orders'[id] = orders[id] /\ OrderEnded(orders[id]) /\ OrderAtWork(id)
          /\ orders[id].run \in AccountRuns
      BY <1>1, <1>13, <2>1, OrderFields DEF LedgerInv
    <3>2. OrderEnded(orders[id])'
      BY <3>1 DEF OrderEnded
    <3>3. orders[id].kind = "exit" /\ orders[id].status = "OPEN" => orders[id].run # r
      BY <1>1, <1>5, <2>1, <3>1 DEF OrderAtWork
    <3>4. OrderAtWork(id)'
      BY <1>2, <1>12, <3>1, <3>3 DEF OrderAtWork
    <3> QED
      BY <1>17, <1>18, <1>19, <2>1, <3>2, <3>4, OrdersStay
  <2>2. CASE id = n
    <3>1. orders'[id] = row
      BY <1>13, <2>2
    <3>2. ticks'[e].received <= clock' /\ e \in Events' /\ clock <= clock'
      BY <1>1, <1>2, SMTT(60) DEF TicksInOrder, Events
    <3>3. OrderPlaced(orders[id])'
      BY <1>2, <1>4, <1>6, <1>7, <1>12, <3>1, <3>2 DEF OrderPlaced, ExitPlaced
    <3>4. OrderEnded(orders[id])'
      BY <1>1, <1>7, <3>1, SMTT(60) DEF OrderEnded
    <3>5. OrderAtWork(id)'
      BY <1>7, <3>1 DEF OrderAtWork
    <3> QED
      BY <3>3, <3>4, <3>5
  <2> QED
    BY <1>13, <2>1, <2>2
<1>25. ASSUME NEW q \in AccountRuns
       PROVE  EntryAtWork(q)' /\ ExitAtWork(q)' /\ Stages(q)' /\ Balance(q)'
  <2>1. CASE q # r
    <3>1. \A f \in 1..Len(fills') : f \notin 1..Len(fills) => orders'[fills'[f].order].run # q
      BY <1>7, <1>8, <1>13, <1>14, <2>1
    <3> QED
      BY <1>2, <1>12, <1>13, <1>15, <1>16, <1>17, <1>18, <1>19, <2>1, <3>1, OtherRuns
  <2>2. CASE q = r
    <3>1. orders'[fills'[m].order].run = r /\ orders'[fills'[m].order].kind = "exit"
      BY <1>7, <1>8, <1>13, <1>14
    <3>2. /\ OfRun(r, "exit")' = {m}
          /\ SumFunctionOnSet(FillQuantities', OfRun(r, "exit")') = p.quantity
      <4>1. /\ OfRun(r, "exit")' = OfRun(r, "exit") \cup {m}
            /\ SumFunctionOnSet(FillQuantities', OfRun(r, "exit")')
                 = SumFunctionOnSet(FillQuantities, OfRun(r, "exit")) + fills'[m].quantity
        BY <1>14, <1>17, <1>18, <1>19, <3>1, OfRunGrows, SMTT(60)
      <4>2. SumFunctionOnSet(FillQuantities, {}) = 0
        BY SumEmpty
      <4>3. SumFunctionOnSet(FillQuantities', OfRun(r, "exit")') = 0 + p.quantity
        BY <1>4, <1>8, <1>14, <4>1, <4>2
      <4> QED
        BY <1>1, <1>4, <4>1, <4>3
    <3>3. Balance(r)'
      BY <1>1, <1>6, <1>12, <3>2 DEF Balance, SoldByFills
    <3>4. HoldingEntered(r)'
      <4>1. PICK f \in OfRun(r, "entry") : Entered(r, f)
        BY <1>3 DEF HoldingEntered
      <4>2. signals[r].status # "none"
        BY <1>1, <1>2 DEF EntryAtWork, NoHolding
      <4>3. f \in OfRun(r, "entry")' /\ Entered(r, f)'
        BY <1>6, <1>9, <1>12, <1>15, <1>17, <1>18, <1>19, <4>1, <4>2, EnteredStays
      <4>4. e \in Events' /\ p.openedAt <= ticks'[e].at
        BY <1>2, <1>4 DEF Events
      <4> QED
        BY <1>4, <1>6, <1>9, <1>12, <1>15, <4>3, <4>4 DEF HoldingEntered
    <3>5. HoldingClosed(r)'
      <4>1. TradeOf(positions[r])' = TradeOf(closed)
        BY <1>12 DEF TradeOf
      <4>2. \E f \in OfRun(r, "exit")' : fills'[f].event = e
        BY <1>8, <1>14, <3>2
      <4> QED
        BY <1>2, <1>6, <1>9, <1>12, <1>15, <1>16, <3>2, <4>1, <4>2 DEF HoldingClosed
    <3>6. ExitAtWork(r)'
      BY <1>6, <1>12 DEF ExitAtWork
    <3>7. EntryAtWork(r)'
      <4>1. signals[r].status = "done"
        BY <1>1, <1>2, SignalFields, SMTT(60) DEF EntryAtWork, NoHolding
      <4>2. \A id \in 1..Len(orders) : id \in 1..Len(orders') /\ orders'[id] = orders[id]
        BY <1>13, <1>26
      <4> QED
        BY <1>1, <1>2, <4>1, <4>2 DEF EntryAtWork
    <3> QED
      BY <2>2, <3>3, <3>4, <3>5, <3>6, <3>7 DEF Stages
  <2> QED
    BY <2>1, <2>2
<1> QED
  BY <1>17, <1>20, <1>22, <1>23, <1>24, <1>25 DEF LedgerInv

-----------------------------------------------------------------------------
(* An exit order at work, and the event that its position is stepped to.   *)
LEMMA ExitStepped ==
  ASSUME LedgerInv, NEW r \in AccountRuns, StepExit(r)
  PROVE  /\ positions[r].status = "OPEN" /\ positions[r].requested /\ r \in ByBook
         /\ positions[r].order \in 1..Len(orders) /\ orders[positions[r].order].run = r
         /\ orders[positions[r].order].kind = "exit" /\ orders[positions[r].order].tif = "IOC"
         /\ orders[positions[r].order].status = "OPEN"
         /\ orders[positions[r].order].quantity = positions[r].remaining
         /\ HoldingEntered(r) /\ HoldingOpen(r)
         /\ ExitEvent(r) \in Events /\ positions[r].event <= ExitEvent(r)
<1> DEFINE p == positions[r]
           o == orders[p.order]
<1>1. LedgerType /\ ExitAtWork(r) /\ Stages(r)
  BY DEF LedgerInv
<1>2. p.status = "OPEN" /\ p.requested /\ p.order # 0
  BY DEF StepExit, Exiting
<1>3. /\ p.order \in 1..Len(orders) /\ o.run = r /\ o.kind = "exit" /\ o.tif = "IOC"
      /\ o.status = "OPEN" /\ o.quantity = p.remaining
  BY <1>1, <1>2 DEF ExitAtWork
<1>4. r \in ByBook
  BY <1>3 DEF LedgerInv, OrderPlaced, ExitPlaced
<1>5. HoldingEntered(r) /\ HoldingOpen(r)
  BY <1>1, <1>2 DEF Stages, NotEntered, NoHolding, HoldingClosed
<1>6. p.event \in Events /\ p.event \in Nat
  BY <1>1, <1>5, HoldingFields DEF HoldingEntered
<1>7. ExitEvent(r) \in Events /\ p.event <= ExitEvent(r)
  <2>1. LastTick \in Events /\ p.event <= LastTick /\ LastTick \in Nat /\ Events = 1..LastTick
    BY <1>1, <1>6, Lengths DEF LastTick
  <2>2. CASE Tried(r) = {}
    BY <2>1, <2>2 DEF ExitEvent
  <2>3. CASE Tried(r) # {}
    <3>1. Tried(r) \in SUBSET ((p.event + 1)..LastTick)
      BY DEF Tried
    <3>2. Tried(r) \in SUBSET Nat /\ \A i \in Tried(r) : i \in Events /\ p.event <= i
      BY <1>6, <2>1, <3>1
    <3>3. Min(Tried(r)) \in Tried(r)
      BY <2>3, <3>2, FirstOfEvents
    <3>4. ExitEvent(r) = Min(Tried(r))
      BY <2>3 DEF ExitEvent
    <3> QED
      BY <3>2, <3>3, <3>4
  <2> QED
    BY <2>2, <2>3
<1> QED
  BY <1>2, <1>3, <1>4, <1>5, <1>7

(* An order is only filled by an event that offers something with what is  *)
(* consumed of it.                                                         *)
LEMMA ExitOffered ==
  ASSUME NEW r \in AccountRuns, ExitOutcome(r) = "fill"
  PROVE  LET o == orders[positions[r].order]
             e == ExitEvent(r)
         IN Offered(o, e) /\ ExitLeft(o, e) > 0
<1> DEFINE o == orders[positions[r].order]
           e == ExitEvent(r)
           c == Own(o, e) + PublicConsumed(o, e)
<1>1. Tried(r) # {}
  BY DEF ExitOutcome
<1>2. Evaluate(o, e, IF Evaluate(o, e, 0) = "fill" THEN c ELSE 0) = "fill"
  BY <1>1 DEF ExitOutcome
<1>3. Evaluate(o, e, c) = "fill"
  BY <1>2
<1>4. Offered(o, e) /\ Available(o, e, c) > 0
  BY <1>3 DEF Evaluate
<1> QED
  BY <1>4 DEF ExitLeft

(* An exit step that sells nothing.                                        *)
LEMMA StepExitWaits ==
  ASSUME LedgerInv, NEW r \in AccountRuns, StepExit(r), ExitOutcome(r) # "fill"
  PROVE  LedgerInv'
<1> DEFINE p == positions[r]
           n == p.order
           e == ExitEvent(r)
           moved == [p EXCEPT !.event = e, !.order = IF ExitOutcome(r) = "wait" THEN n ELSE 0]
           ended == Terminal(orders[n], 0)
<1>1. /\ p.status = "OPEN" /\ r \in ByBook /\ n \in 1..Len(orders) /\ orders[n].run = r
      /\ orders[n].kind = "exit" /\ orders[n].tif = "IOC" /\ orders[n].status = "OPEN"
      /\ orders[n].quantity = p.remaining /\ HoldingEntered(r) /\ HoldingOpen(r)
      /\ e \in Events /\ p.event <= e
  BY ExitStepped
<1>2. /\ LedgerType /\ clock \in Nat /\ EntryAtWork(r) /\ ExitAtWork(r) /\ TicksInOrder
      /\ p \in HoldingRow /\ p.event \in Nat /\ p.remaining \in Nat /\ p.remaining >= 1
      /\ e \in Nat /\ n \in Nat
  <2>1. LedgerType /\ clock \in Nat /\ EntryAtWork(r) /\ ExitAtWork(r) /\ TicksInOrder
    BY DEF LedgerInv, LedgerType
  <2>2. p \in HoldingRow /\ p.event \in Nat /\ p.remaining \in Nat /\ n \in Nat
    BY <2>1, HoldingFields
  <2>3. e \in Nat
    BY <1>1, <2>1, Lengths
  <2> QED
    BY <1>1, <2>1, <2>2, <2>3 DEF HoldingOpen
<1>3. p.openedAt <= ticks[e].at
  BY <1>1, LaterEvent
<1>4. /\ moved \in HoldingRow /\ moved.status = "OPEN" /\ moved.quantity = p.quantity
      /\ moved.remaining = p.remaining /\ moved.openedAt = p.openedAt /\ moved.event = e
      /\ moved.order = IF ExitOutcome(r) = "wait" THEN n ELSE 0
  BY <1>1, <1>2 DEF HoldingRow
<1>5. /\ clock' = clock /\ ticks' = ticks /\ signals' = signals /\ fills' = fills
      /\ orders' = IF ExitOutcome(r) = "wait" THEN orders
                   ELSE [orders EXCEPT ![n] = ended]
  BY DEF StepExit
<1>6. positions' = [positions EXCEPT ![r] = moved] /\ decisions' = decisions /\ booked' = booked
  <2>1. p.remaining - 0 = p.remaining /\ ~(p.remaining = 0)
    BY <1>2
  <2>2. /\ positions' = [positions EXCEPT ![r] =
              [p EXCEPT !.event = e, !.remaining = p.remaining,
                        !.order = IF ExitOutcome(r) = "wait" THEN @ ELSE 0,
                        !.status = @, !.closedAt = @]]
        /\ booked' = booked
        /\ decisions' = [decisions EXCEPT ![r].closes = @ + 0]
    BY <2>1 DEF StepExit
  <2>3. decisions' = decisions
    <3>1. decisions[r] \in [opens : Seq(Nat), closes : Nat]
      BY <1>2 DEF LedgerType
    <3>2. [decisions[r] EXCEPT !.closes = @ + 0] = decisions[r]
      BY <3>1
    <3> QED
      BY <1>2, <2>2, <3>2 DEF LedgerType
  <2>4. [p EXCEPT !.event = e, !.remaining = p.remaining,
                  !.order = IF ExitOutcome(r) = "wait" THEN @ ELSE 0,
                  !.status = @, !.closedAt = @] = moved
    BY <1>2 DEF HoldingRow
  <2> QED
    BY <2>2, <2>3, <2>4
<1> HIDE DEF moved, ended
<1>7. /\ positions'[r] = moved /\ positions' \in [AccountRuns -> HoldingRow]
      /\ \A q \in AccountRuns : q # r => positions'[q] = positions[q]
  BY <1>2, <1>4, <1>6 DEF LedgerType
<1>8. /\ orders' \in Seq(OrderRow) /\ Len(orders') = Len(orders)
      /\ \A id \in 1..Len(orders) : id # n => orders'[id] = orders[id]
      /\ SameTerms(orders[n], orders'[n])
      /\ orders'[n].filled = 0
      /\ ExitOutcome(r) = "wait" => orders'[n] = orders[n]
      /\ ExitOutcome(r) # "wait" =>
           /\ orders'[n].status # "OPEN"
           /\ orders'[n].filled + orders'[n].cancelled = orders'[n].quantity
           /\ (orders'[n].status = "FILLED") <=> (orders'[n].filled = orders'[n].quantity)
  <2>1. CASE ExitOutcome(r) = "wait"
    <3>1. orders[n].filled = 0
      BY <1>1 DEF LedgerInv, OrderEnded
    <3> QED
      BY <1>2, <1>5, <2>1, <3>1 DEF LedgerType, SameTerms
  <2>2. CASE ExitOutcome(r) # "wait"
    <3>1. orders[n].quantity \in Nat /\ 0 <= orders[n].quantity
      BY <1>1, <1>2
    <3>2. orders' = [orders EXCEPT ![n] = ended]
      BY <1>5, <2>2
    <3>3. n \in 1..Len(orders) /\ ended = Terminal(orders[n], 0)
      BY <1>1 DEF ended
    <3> HIDE DEF n
    <3>4. orders' \in Seq(OrderRow)
      BY <1>2, <3>1, <3>2, <3>3, OrderEnds
    <3>5. Len(orders') = Len(orders)
      BY <1>2, <3>1, <3>2, <3>3, OrderEnds
    <3>6. \A id \in 1..Len(orders) : id # n => orders'[id] = orders[id]
      BY <1>2, <3>1, <3>2, <3>3, OrderEnds
    <3>7. SameTerms(orders[n], orders'[n])
      BY <1>2, <3>1, <3>2, <3>3, OrderEnds
    <3>8. orders'[n].status # "OPEN"
      BY <1>2, <3>1, <3>2, <3>3, OrderEnds
    <3>9. orders'[n].filled = 0
      BY <1>2, <3>1, <3>2, <3>3, OrderEnds
    <3>10. orders'[n].filled + orders'[n].cancelled = orders[n].quantity
      BY <1>2, <3>1, <3>2, <3>3, OrderEnds
    <3>11. (orders'[n].status = "FILLED") <=> (orders'[n].filled = orders[n].quantity)
      BY <1>2, <3>1, <3>2, <3>3, OrderEnds
    <3> QED
      BY <2>2, <3>4, <3>5, <3>6, <3>7, <3>8, <3>9, <3>10, <3>11 DEF SameTerms
  <2> QED
    BY <2>1, <2>2
<1>9. LedgerType'
  BY <1>2, <1>5, <1>6, <1>7, <1>8 DEF LedgerType
<1>10. \A id \in 1..Len(orders) : SameTerms(orders[id], orders'[id])
  BY <1>8 DEF SameTerms
<1>11. LedgerKept
  BY <1>2, <1>5, <1>8, <1>10, Lengths DEF LedgerKept
<1>12. RunsKept
  <2>1. ASSUME NEW q \in AccountRuns
        PROVE  /\ positions[q].status # "NONE" => positions'[q].status # "NONE"
               /\ positions[q].event <= positions'[q].event
    <3>1. CASE q = r
      BY <1>1, <1>4, <1>7, <3>1
    <3>2. CASE q # r
      BY <1>2, <1>7, <3>2, HoldingFields
    <3> QED
      BY <3>1, <3>2
  <2>2. \A id \in 1..Len(orders) : orders[id].status # "OPEN" => orders'[id] = orders[id]
    BY <1>1, <1>8
  <2> QED
    BY <1>2, <1>5, <2>1, <2>2 DEF RunsKept
<1>13. TicksInOrder'
  BY <1>2, <1>5, <1>9, TicksStay
<1>14. OnlyFills' /\ \A f \in 1..Len(fills') : FillPlaced(f)' /\ ReceiptHolds(f)' /\ SourceHolds(f)'
  <2>1. \A id \in 1..Len(orders') :
          orders'[id].filled # 0 => id \in 1..Len(orders) /\ orders[id].filled # 0
    BY <1>8
  <2> QED
    BY <1>5, <1>9, <1>11, <1>12, <2>1, NoNewFills
<1>15. ASSUME NEW id \in 1..Len(orders')
       PROVE  OrderPlaced(orders[id])' /\ OrderEnded(orders[id])' /\ OrderAtWork(id)'
  <2>1. /\ id \in 1..Len(orders) /\ OrderPlaced(orders[id])' /\ OrderAtWork(id)
        /\ OrderEnded(orders[id]) /\ orders[id].run \in AccountRuns
    BY <1>2, <1>8, <1>9, <1>11, <1>12, OrdersStay, OrderFields DEF LedgerInv
  <2>2. CASE id # n
    <3>1. orders'[id] = orders[id]
      BY <1>8, <2>1, <2>2
    <3>2. OrderEnded(orders[id])'
      BY <2>1, <3>1 DEF OrderEnded
    <3>3. orders[id].kind = "exit" /\ orders[id].status = "OPEN" => orders[id].run # r
      BY <2>1, <2>2 DEF OrderAtWork
    <3>4. OrderAtWork(id)'
      BY <1>5, <1>7, <2>1, <3>1, <3>3 DEF OrderAtWork
    <3> QED
      BY <2>1, <3>2, <3>4
  <2>3. CASE id = n
    <3>1. orders'[id].run = r /\ orders'[id].kind = "exit"
      BY <1>1, <1>8, <2>3 DEF SameTerms
    <3>2. OrderEnded(orders[id])'
      BY <1>8, <2>1, <2>3 DEF OrderEnded
    <3>3. OrderAtWork(id)'
      BY <1>4, <1>7, <1>8, <2>3, <3>1 DEF OrderAtWork
    <3> QED
      BY <2>1, <3>2, <3>3
  <2> QED
    BY <2>2, <2>3
<1>16. ASSUME NEW q \in AccountRuns
       PROVE  EntryAtWork(q)' /\ ExitAtWork(q)' /\ Stages(q)' /\ Balance(q)'
  <2>1. CASE q # r
    <3>1. \A id \in 1..Len(orders) : orders[id].run = q => orders'[id] = orders[id]
      BY <1>1, <1>8, <2>1
    <3> QED
      BY <1>5, <1>6, <1>7, <1>9, <1>11, <1>12, <2>1, <3>1, OtherRuns
  <2>2. CASE q = r
    <3>1. e \in Events' /\ p.openedAt <= ticks'[e].at
      BY <1>1, <1>3, <1>5 DEF Events
    <3>2. Stages(r)' /\ Balance(r)'
      BY <1>1, <1>4, <1>5, <1>6, <1>7, <1>9, <1>11, <1>12, <3>1, StageMoves
    <3>3. ExitAtWork(r)'
      <4>1. CASE ExitOutcome(r) = "wait"
        BY <1>1, <1>4, <1>7, <1>8, <4>1 DEF ExitAtWork
      <4>2. CASE ExitOutcome(r) # "wait"
        BY <1>4, <1>7, <4>2 DEF ExitAtWork
      <4> QED
        BY <4>1, <4>2
    <3>4. EntryAtWork(r)'
      <4>1. signals[r].status = "done"
        BY <1>1, <1>2, SignalFields DEF EntryAtWork, NoHolding
      <4>2. signals[r].order # 0 => orders'[signals[r].order].run = r
                                    /\ orders'[signals[r].order].kind = "entry"
        BY <1>2, <1>10 DEF EntryAtWork, SameTerms
      <4> QED
        BY <1>2, <1>5, <1>8, <4>1, <4>2 DEF EntryAtWork
    <3> QED
      BY <2>2, <3>2, <3>3, <3>4
  <2> QED
    BY <2>1, <2>2
<1> QED
  BY <1>9, <1>13, <1>14, <1>15, <1>16 DEF LedgerInv

(* An exit step that sells, some or all of what remains.                   *)
LEMMA StepExitSells ==
  ASSUME TradeAssumption, LedgerInv, NEW r \in AccountRuns, StepExit(r), ExitOutcome(r) = "fill"
  PROVE  LedgerInv'
<1> DEFINE p == positions[r]
           n == p.order
           e == ExitEvent(r)
           sold == ExitLeft(orders[n], e)
           left == p.remaining - sold
           m == Len(fills) + 1
           stepped == [p EXCEPT !.event = e, !.remaining = left, !.order = 0,
                                !.status = IF left = 0 THEN "CLOSED" ELSE @,
                                !.closedAt = IF left = 0 THEN ticks[e].at ELSE @]
           ended == Terminal(orders[n], sold)
           fill == Receipt(n, orders[n], e, sold)
           d == [decisions[r] EXCEPT !.closes = @ + 1]
<1>1. /\ p.status = "OPEN" /\ r \in ByBook /\ n \in 1..Len(orders) /\ orders[n].run = r
      /\ orders[n].kind = "exit" /\ orders[n].tif = "IOC" /\ orders[n].status = "OPEN"
      /\ orders[n].quantity = p.remaining /\ HoldingEntered(r) /\ HoldingOpen(r)
      /\ e \in Events /\ p.event <= e
  BY ExitStepped
<1>2. LedgerType /\ clock \in Nat /\ EntryAtWork(r) /\ ExitAtWork(r) /\ TicksInOrder
  BY DEF LedgerInv, LedgerType
<1>3. /\ p \in HoldingRow /\ p.event \in Nat /\ p.remaining \in Nat /\ n \in Nat
      /\ p.quantity \in Nat
  BY <1>2, HoldingFields
<1>4. /\ e \in Nat /\ Len(orders) \in Nat /\ Len(fills) \in Nat /\ ticks[e].at \in Nat
      /\ orders \in Seq(OrderRow) /\ fills \in Seq(FillRow)
  BY <1>1, <1>2, Lengths, TickFields, SMTT(60) DEF LedgerType
<1>5. Offered(orders[n], e) /\ sold > 0
  BY ExitOffered
<1>6. sold \in Nat /\ sold >= 1 /\ sold <= p.remaining
  <2>1. /\ orders[n].tif \in {"IOC", "PostOnly"} /\ orders[n].quantity \in Int
        /\ orders[n].event \in Nat
    BY <1>1, <1>2, OrderFields
  <2>2. Own(orders[n], e) \in Nat /\ PublicConsumed(orders[n], e) \in Nat
    BY <1>1, <1>2, <2>1, ConsumedType
  <2>3. Own(orders[n], e) + PublicConsumed(orders[n], e) \in Int
    BY <2>2
  <2> DEFINE room == Capacity(orders[n], e) - (Own(orders[n], e) + PublicConsumed(orders[n], e))
  <2>4. room \in Int
    BY <1>1, <2>3, CapacityType
  <2> HIDE DEF room
  <2>5. Min({orders[n].quantity, room}) \in Int /\ Min({orders[n].quantity, room}) <= orders[n].quantity
    BY <2>1, <2>4, LesserOfTwo
  <2>6. sold \in Int /\ sold <= orders[n].quantity
    BY <2>5 DEF ExitLeft, Available, room
  <2> HIDE DEF sold
  <2> QED
    BY <1>1, <1>3, <1>5, <2>6
<1>7. p.openedAt <= ticks[e].at
  BY <1>1, LaterEvent
<1>8. decisions[r].closes = 0 /\ booked[r] = <<>>
  BY <1>1 DEF HoldingOpen
<1>9. /\ clock' = clock /\ ticks' = ticks /\ signals' = signals
      /\ orders' = [orders EXCEPT ![n] = ended]
      /\ fills' = Append(fills, fill)
  <2>1. ~(sold = 0)
    BY <1>6
  <2>2. /\ clock' = clock /\ ticks' = ticks /\ signals' = signals
        /\ orders' = [orders EXCEPT ![n] = ended]
        /\ fills' = IF sold = 0 THEN fills ELSE Append(fills, fill)
    BY DEF StepExit
  <2> QED
    BY <2>1, <2>2
<1>10. /\ positions' = [positions EXCEPT ![r] = stepped]
       /\ decisions' = [decisions EXCEPT ![r].closes = @ + (IF left = 0 THEN 1 ELSE 0)]
       /\ booked' = IF left = 0 THEN [booked EXCEPT ![r] = Append(@, TradeOf(stepped))] ELSE booked
  BY DEF StepExit
<1>11. left \in Nat /\ sold + left = p.remaining
  <2> HIDE DEF sold
  <2> QED
    BY <1>3, <1>6
<1> HIDE DEF sold, left
<1>12. /\ stepped \in HoldingRow /\ stepped.quantity = p.quantity /\ stepped.remaining = left
       /\ stepped.openedAt = p.openedAt /\ stepped.event = e /\ stepped.order = 0
       /\ stepped.status = IF left = 0 THEN "CLOSED" ELSE "OPEN"
       /\ left = 0 => stepped.closedAt = ticks[e].at
  BY <1>1, <1>3, <1>4, <1>11 DEF HoldingRow
<1>13. /\ fill.order = n /\ fill.event = e /\ fill.at = ticks[e].at /\ fill.quantity = sold
       /\ fill \in FillRow
  <2>1. orders[n].event \in Nat
    BY <1>1, <1>2, OrderFields
  <2>2. Own(orders[n], e) \in Nat /\ PublicConsumed(orders[n], e) \in Nat
    BY <1>1, <1>2, <2>1, ConsumedType
  <2>3. Capacity(orders[n], e) \in Int
    BY <1>1, CapacityType
  <2> QED
    BY <1>3, <1>4, <1>6, <2>2, <2>3 DEF Receipt, FillRow
<1>14. d \in [opens : Seq(Nat), closes : Nat] /\ d.opens = decisions[r].opens /\ d.closes = 1
  <2>1. d = [decisions[r] EXCEPT !.closes = @ + 1] /\ decisions[r].closes + 1 = 1
    BY <1>8
  <2>2. decisions[r] \in [opens : Seq(Nat), closes : Nat]
    BY <1>2 DEF LedgerType
  <2> HIDE DEF d
  <2> QED
    BY <2>1, <2>2, OneMoreClose
<1>15. decisions' = IF left = 0 THEN [decisions EXCEPT ![r] = d] ELSE decisions
  <2>1. CASE left = 0
    BY <1>2, <1>10, <2>1 DEF LedgerType
  <2>2. CASE left # 0
    <3>1. decisions[r] \in [opens : Seq(Nat), closes : Nat]
      BY <1>2 DEF LedgerType
    <3>2. [decisions[r] EXCEPT !.closes = @ + 0] = decisions[r]
      BY <3>1
    <3>3. decisions' = [decisions EXCEPT ![r].closes = @ + 0]
      BY <1>10, <2>2
    <3> QED
      BY <1>2, <2>2, <3>2, <3>3 DEF LedgerType
  <2> QED
    BY <2>1, <2>2
<1>16. ended = Terminal(orders[n], sold) /\ n \in 1..Len(orders)
       /\ sold \in Nat /\ sold <= orders[n].quantity
  BY <1>1, <1>6
<1> HIDE DEF stepped, fill, d, ended
<1>17. /\ positions'[r] = stepped /\ positions' \in [AccountRuns -> HoldingRow]
       /\ \A q \in AccountRuns : q # r => positions'[q] = positions[q]
  BY <1>2, <1>10, <1>12 DEF LedgerType
<1>18. /\ orders' \in Seq(OrderRow) /\ Len(orders') = Len(orders)
       /\ \A id \in 1..Len(orders) : id # n => orders'[id] = orders[id]
       /\ SameTerms(orders[n], orders'[n]) /\ orders'[n].filled = sold
       /\ orders'[n].status # "OPEN"
       /\ orders'[n].filled + orders'[n].cancelled = orders'[n].quantity
       /\ (orders'[n].status = "FILLED") <=> (orders'[n].filled = orders'[n].quantity)
  <2>1. orders' = [orders EXCEPT ![n] = ended]
    BY <1>9
  <2> HIDE DEF n
  <2>4. orders' \in Seq(OrderRow)
    BY <1>2, <1>16, <2>1, OrderEnds
  <2>5. Len(orders') = Len(orders)
    BY <1>2, <1>16, <2>1, OrderEnds
  <2>6. \A id \in 1..Len(orders) : id # n => orders'[id] = orders[id]
    BY <1>2, <1>16, <2>1, OrderEnds
  <2>7. SameTerms(orders[n], orders'[n])
    BY <1>2, <1>16, <2>1, OrderEnds
  <2>8. orders'[n].status # "OPEN"
    BY <1>2, <1>16, <2>1, OrderEnds
  <2>9. orders'[n].filled = sold
    BY <1>2, <1>16, <2>1, OrderEnds
  <2>10. orders'[n].filled + orders'[n].cancelled = orders[n].quantity
    BY <1>2, <1>16, <2>1, OrderEnds
  <2>11. (orders'[n].status = "FILLED") <=> (orders'[n].filled = orders[n].quantity)
    BY <1>2, <1>16, <2>1, OrderEnds
  <2> QED
    BY <2>4, <2>5, <2>6, <2>7, <2>8, <2>9, <2>10, <2>11 DEF SameTerms
<1>19. /\ fills' \in Seq(FillRow) /\ Len(fills') = m /\ fills'[m] = fill
       /\ \A f \in 1..Len(fills) : fills'[f] = fills[f]
       /\ \A f \in 1..Len(fills') : f \in 1..Len(fills) \/ f = m
       /\ m \in 1..Len(fills') /\ m \notin 1..Len(fills)
  BY <1>4, <1>9, <1>13, AppendProperties
<1>20. /\ decisions' \in [AccountRuns -> [opens : Seq(Nat), closes : Nat]]
       /\ decisions'[r].opens = decisions[r].opens
       /\ decisions'[r].closes = IF left = 0 THEN 1 ELSE 0
       /\ \A q \in AccountRuns : q # r => decisions'[q] = decisions[q]
  <2>1. CASE left = 0
    BY <1>2, <1>14, <1>15, <2>1 DEF LedgerType
  <2>2. CASE left # 0
    BY <1>2, <1>8, <1>15, <2>2 DEF LedgerType
  <2> QED
    BY <2>1, <2>2
<1>21. /\ booked' \in [AccountRuns -> Seq(BookedRow)]
       /\ booked'[r] = IF left = 0 THEN <<TradeOf(stepped)>> ELSE <<>>
       /\ \A q \in AccountRuns : q # r => booked'[q] = booked[q]
  <2>1. CASE left = 0
    <3>1. TradeOf(stepped) \in BookedRow
      BY <1>4, <1>12, <2>1 DEF TradeOf, BookedRow, HoldingRow
    <3>2. booked \in [AccountRuns -> Seq(BookedRow)]
      BY <1>2 DEF LedgerType
    <3>3. booked[r] \in Seq(BookedRow)
      BY <3>2
    <3>4. /\ Append(booked[r], TradeOf(stepped)) \in Seq(BookedRow)
          /\ Append(booked[r], TradeOf(stepped)) = <<TradeOf(stepped)>>
      BY <1>8, <3>1, <3>3, AppendProperties
    <3>5. booked' = [booked EXCEPT ![r] = Append(booked[r], TradeOf(stepped))]
      BY <1>10, <2>1
    <3> QED
      BY <2>1, <3>2, <3>4, <3>5
  <2>2. CASE left # 0
    BY <1>2, <1>8, <1>10, <2>2 DEF LedgerType
  <2> QED
    BY <2>1, <2>2
<1>22. LedgerType'
  BY <1>2, <1>9, <1>17, <1>18, <1>19, <1>20, <1>21 DEF LedgerType
<1>23. \A id \in 1..Len(orders) : SameTerms(orders[id], orders'[id])
  BY <1>18 DEF SameTerms
<1>24. LedgerKept
  <2>1. Len(ticks) \in Nat
    BY <1>2, Lengths
  <2> QED
    BY <1>4, <1>9, <1>18, <1>19, <1>23, <2>1 DEF LedgerKept
<1>25. RunsKept
  <2>1. ASSUME NEW q \in AccountRuns
        PROVE  /\ positions[q].status # "NONE" => positions'[q].status # "NONE"
               /\ positions[q].event <= positions'[q].event
    <3>1. CASE q = r
      BY <1>1, <1>12, <1>17, <3>1
    <3>2. CASE q # r
      BY <1>2, <1>17, <3>2, HoldingFields
    <3> QED
      BY <3>1, <3>2
  <2>2. \A id \in 1..Len(orders) : orders[id].status # "OPEN" => orders'[id] = orders[id]
    BY <1>1, <1>18
  <2> QED
    BY <1>2, <1>9, <2>1, <2>2 DEF RunsKept
<1>26. TicksInOrder'
  BY <1>2, <1>9, <1>22, TicksStay
<1>27. \A f \in 1..Len(fills) : fills[f].order # n
  BY <1>1 DEF LedgerInv, FillPlaced
<1>28. OnlyFills'
  <2>1. \A f, g \in 1..Len(fills') :
          f \notin 1..Len(fills) /\ g \notin 1..Len(fills) /\ fills'[f].order = fills'[g].order
            => f = g
    BY <1>19
  <2>2. \A f \in 1..Len(fills') : \A g \in 1..Len(fills) :
          f \notin 1..Len(fills) => fills'[f].order # fills[g].order
    BY <1>13, <1>19, <1>27
  <2>3. \A id \in 1..Len(orders') :
          orders'[id].filled # 0 =>
            \/ id \in 1..Len(orders) /\ orders[id].filled # 0
            \/ \E f \in 1..Len(fills') : fills'[f].order = id
    BY <1>13, <1>18, <1>19
  <2> QED
    BY <1>22, <1>24, <2>1, <2>2, <2>3, FillsStayOnly
<1>29. ASSUME NEW f \in 1..Len(fills')
       PROVE  SourceHolds(f)' /\ (f = m => ReceiptHolds(f)')
  <2>1. fills'[m] = Receipt(n, orders[n], e, sold)
    BY <1>19 DEF fill
  <2>2. sold = Available(orders[n], e, Own(orders[n], e) + PublicConsumed(orders[n], e))
    BY DEF sold, ExitLeft
  <2>3. sold <= Available(orders[n], e, Own(orders[n], e) + PublicConsumed(orders[n], e))
    BY <1>6, <2>2
  <2>4. \A g \in 1..Len(fills') :
          g \in 1..Len(fills) \/ g = m \/ orders'[fills'[g].order].tif = "whole"
    BY <1>19
  <2>5. orders[n].tif # "whole" /\ sold \in Nat /\ sold >= 1
    BY <1>1, <1>6
  <2>6. PICK k : k = m
    OBVIOUS
  <2>7. /\ k \in 1..Len(fills') /\ k \notin 1..Len(fills) /\ fills'[k] = Receipt(n, orders[n], e, sold)
        /\ \A g \in 1..Len(fills') :
             g \in 1..Len(fills) \/ g = k \/ orders'[fills'[g].order].tif = "whole"
    BY <1>19, <2>1, <2>4, <2>6
  <2> HIDE DEF n, e, m
  <2>8. ReceiptHolds(k)'
    BY <1>1, <1>5, <1>9, <1>22, <1>24, <2>2, <2>3, <2>5, <2>7, NewReceipt
  <2>9. SourceHolds(f)'
    BY <1>1, <1>5, <1>9, <1>22, <1>24, <2>2, <2>3, <2>5, <2>7, NewReceipt
  <2>10. f = m => f = k
    BY <2>6
  <2> QED
    BY <2>8, <2>9, <2>10
<1>30. ASSUME NEW f \in 1..Len(fills')
       PROVE  FillPlaced(f)' /\ ReceiptHolds(f)' /\ SourceHolds(f)'
  <2>1. CASE f \in 1..Len(fills)
    BY <1>22, <1>24, <1>25, <1>29, <2>1, FillsStay
  <2>2. CASE f = m
    <3>1. fills'[f] = fill /\ n \in 1..Len(orders') /\ e \in Events' /\ orders'[n].run = r
      BY <1>1, <1>9, <1>18, <1>19, <2>2 DEF Events, SameTerms
    <3>2. e <= positions'[r].event
      BY <1>4, <1>12, <1>17
    <3>3. FillPlaced(f)'
      BY <1>6, <1>9, <1>13, <1>18, <3>1, <3>2 DEF FillPlaced
    <3>4. ReceiptHolds(f)'
      BY <1>29, <2>2
    <3> QED
      BY <1>29, <3>3, <3>4
  <2> QED
    BY <1>19, <2>1, <2>2
<1>31. ASSUME NEW id \in 1..Len(orders')
       PROVE  OrderPlaced(orders[id])' /\ OrderEnded(orders[id])' /\ OrderAtWork(id)'
  <2>1. /\ id \in 1..Len(orders) /\ OrderPlaced(orders[id])' /\ OrderAtWork(id)
        /\ OrderEnded(orders[id]) /\ orders[id].run \in AccountRuns
    BY <1>2, <1>18, <1>22, <1>24, <1>25, OrdersStay, OrderFields DEF LedgerInv
  <2>2. CASE id # n
    <3>1. orders'[id] = orders[id]
      BY <1>18, <2>1, <2>2
    <3>2. OrderEnded(orders[id])'
      BY <2>1, <3>1 DEF OrderEnded
    <3>3. orders[id].kind = "exit" /\ orders[id].status = "OPEN" => orders[id].run # r
      BY <2>1, <2>2 DEF OrderAtWork
    <3>4. OrderAtWork(id)'
      BY <1>9, <1>17, <2>1, <3>1, <3>3 DEF OrderAtWork
    <3> QED
      BY <2>1, <3>2, <3>4
  <2>3. CASE id = n
    <3>1. orders'[id].run = r /\ orders'[id].kind = "exit"
      BY <1>1, <1>18, <2>3 DEF SameTerms
    <3>2. OrderEnded(orders[id])'
      BY <1>18, <2>3 DEF OrderEnded
    <3>3. OrderAtWork(id)'
      BY <1>18, <2>3, <3>1 DEF OrderAtWork
    <3> QED
      BY <2>1, <3>2, <3>3
  <2> QED
    BY <2>2, <2>3
<1>32. ASSUME NEW q \in AccountRuns
       PROVE  EntryAtWork(q)' /\ ExitAtWork(q)' /\ Stages(q)' /\ Balance(q)'
  <2>1. CASE q # r
    <3>1. \A id \in 1..Len(orders) : orders[id].run = q => orders'[id] = orders[id]
      BY <1>1, <1>18, <2>1
    <3>2. \A f \in 1..Len(fills') : f \notin 1..Len(fills) => orders'[fills'[f].order].run # q
      BY <1>1, <1>13, <1>18, <1>19, <2>1 DEF SameTerms
    <3> QED
      BY <1>9, <1>17, <1>20, <1>21, <1>22, <1>24, <1>25, <2>1, <3>1, <3>2, OtherRuns
  <2>2. CASE q = r
    <3>1. orders'[fills'[m].order].run = r /\ orders'[fills'[m].order].kind = "exit"
      BY <1>1, <1>13, <1>18, <1>19 DEF SameTerms
    <3>2. /\ OfRun(r, "exit")' = OfRun(r, "exit") \cup {m}
          /\ SumFunctionOnSet(FillQuantities', OfRun(r, "exit")')
               = SumFunctionOnSet(FillQuantities, OfRun(r, "exit")) + sold
      <4>1. /\ OfRun(r, "exit")' = OfRun(r, "exit") \cup {m}
            /\ SumFunctionOnSet(FillQuantities', OfRun(r, "exit")')
                 = SumFunctionOnSet(FillQuantities, OfRun(r, "exit")) + fills'[m].quantity
        BY <1>19, <1>22, <1>24, <1>25, <3>1, OfRunGrows, SMTT(60)
      <4> QED
        BY <1>13, <1>19, <4>1
    <3>3. Balance(r)'
      <4> DEFINE S == SumFunctionOnSet(FillQuantities, OfRun(r, "exit"))
      <4>1. S + p.remaining = p.quantity
        BY DEF LedgerInv, Balance, SoldByFills
      <4>2. S \in Nat
        <5>1. OfRun(r, "exit") \in SUBSET (1..Len(fills))
          BY DEF OfRun
        <5> QED
          BY <1>2, <5>1, SomeFills
      <4> HIDE DEF S
      <4>3. (S + sold) + left = p.quantity
        BY <1>3, <1>6, <1>11, <4>1, <4>2
      <4> QED
        BY <1>12, <1>17, <3>2, <4>3 DEF Balance, SoldByFills, S
    <3>4. HoldingEntered(r)'
      <4>1. PICK f \in OfRun(r, "entry") : Entered(r, f)
        BY <1>1 DEF HoldingEntered
      <4>2. signals[r].status # "none"
        BY <1>1, <1>2 DEF EntryAtWork, NoHolding
      <4>3. f \in OfRun(r, "entry")' /\ Entered(r, f)'
        BY <1>12, <1>17, <1>20, <1>22, <1>24, <1>25, <4>1, <4>2, EnteredStays
      <4>4. e \in Events' /\ p.openedAt <= ticks'[e].at
        BY <1>1, <1>7, <1>9 DEF Events
      <4>5. positions'[r].status # "NONE"
        BY <1>12, <1>17
      <4> QED
        BY <1>1, <1>12, <1>17, <1>20, <4>3, <4>4, <4>5 DEF HoldingEntered
    <3>5. ASSUME left = 0
          PROVE  Stages(r)'
      <4>1. TradeOf(positions[r])' = TradeOf(stepped)
        BY <1>17 DEF TradeOf
      <4>2. \E f \in OfRun(r, "exit")' : fills'[f].event = e
        BY <1>13, <1>19, <3>2
      <4>3. HoldingClosed(r)'
        BY <1>1, <1>9, <1>12, <1>17, <1>20, <1>21, <3>5, <4>1, <4>2 DEF HoldingClosed
      <4> QED
        BY <3>4, <4>3 DEF Stages
    <3>6. ASSUME left # 0
          PROVE  Stages(r)'
      <4>1. HoldingOpen(r)'
        BY <1>1, <1>11, <1>12, <1>17, <1>20, <1>21, <3>6 DEF HoldingOpen
      <4> QED
        BY <3>4, <4>1 DEF Stages
    <3>7. ExitAtWork(r)'
      BY <1>12, <1>17 DEF ExitAtWork
    <3>8. EntryAtWork(r)'
      <4>1. signals[r].status = "done"
        BY <1>1, <1>2, SignalFields DEF EntryAtWork, NoHolding
      <4>2. signals[r].order # 0 => orders'[signals[r].order].run = r
                                    /\ orders'[signals[r].order].kind = "entry"
        BY <1>2, <1>23 DEF EntryAtWork, SameTerms
      <4> QED
        BY <1>2, <1>9, <1>18, <4>1, <4>2 DEF EntryAtWork
    <3> QED
      BY <2>2, <3>3, <3>5, <3>6, <3>7, <3>8
  <2> QED
    BY <2>1, <2>2
<1> QED
  BY <1>22, <1>26, <1>28, <1>30, <1>31, <1>32 DEF LedgerInv

-----------------------------------------------------------------------------
(* The entry that a fill makes, with the exit of a protection that the     *)
(* same event reaches.                                                     *)
(* The first OPEN decision of a run.                                       *)
LEMMA FirstOpen ==
  ASSUME NEW x \in [opens : Seq(Nat), closes : Nat], x.opens = <<>>, x.closes = 0,
         NEW at \in Nat, NEW k \in Nat,
         NEW d, d = [x EXCEPT !.opens = Append(@, at), !.closes = @ + k]
  PROVE  d \in [opens : Seq(Nat), closes : Nat]
<1>1. Append(x.opens, at) \in Seq(Nat) /\ x.closes + k \in Nat
  OBVIOUS
<1> QED
  BY <1>1

(* An entry's fill opens the position, and may close it at once.           *)
LEMMA EnterByFillKeeps ==
  ASSUME TradeAssumption, LedgerInv, NEW r \in AccountRuns, NEW e \in Events,
         NEW quantity \in 1..Wanted, NEW wait \in {0, 1}, NEW hit \in BOOLEAN,
         EnterByFill(r, e, quantity, wait, hit)
  PROVE  LedgerInv'
<1> DEFINE n == signals[r].order
           o == orders[n]
           x == Len(orders) + 1
           m == Len(fills) + 1
           w == Len(fills) + 2
           whole == hit /\ r \notin ByBook
           entered == [status |-> IF whole THEN "CLOSED" ELSE "OPEN", quantity |-> quantity,
                       remaining |-> IF whole THEN 0 ELSE quantity, openedAt |-> ticks[e].at,
                       closedAt |-> IF whole THEN ticks[e].at ELSE 0, event |-> e,
                       requested |-> hit /\ r \in ByBook, order |-> 0]
           ended == Terminal(o, quantity)
           endedOrders == [orders EXCEPT ![n] = ended]
           row == WholeOrder(r, e, quantity)
           fill == Receipt(n, o, e, quantity)
           wholeFill == WholeFill(x, e, quantity)
           d == [decisions[r] EXCEPT !.opens = Append(@, clock + wait),
                                     !.closes = @ + (IF whole THEN 1 ELSE 0)]
           named == [signals[r] EXCEPT !.status = "done", !.event = e]
<1>1. LedgerType /\ clock \in Nat /\ EntryAtWork(r) /\ Stages(r) /\ TicksInOrder
  BY DEF LedgerInv, LedgerType
<1>2. /\ signals[r].status = "pending" /\ ticks[e].at >= signals[r].detected /\ n # 0
      /\ o.status = "OPEN" /\ Offered(o, e) /\ quantity <= EntryLeft(o, e)
      /\ clock + wait < Expires(r) /\ clock' = clock + wait /\ ticks' = ticks
  BY DEF EnterByFill, Usable
<1>3. positions[r] = NoHolding /\ \A id \in 1..Len(orders) : orders[id].run = r => id = n
  BY <1>2, WaitingRun
<1>4. n \in 1..Len(orders) /\ o.run = r /\ o.kind = "entry"
  BY <1>1, <1>2 DEF EntryAtWork
<1>5. NotEntered(r)
  BY <1>1, <1>3 DEF Stages, HoldingEntered, NoHolding
<1>6. /\ decisions[r].opens = <<>> /\ decisions[r].closes = 0 /\ booked[r] = <<>>
      /\ OfRun(r, "entry") = {} /\ OfRun(r, "exit") = {}
  BY <1>5 DEF NotEntered
<1>7. /\ OrderPlaced(o) /\ o.quantity = Wanted /\ o.expires = Expires(r)
      /\ signals[r].decided <= o.at /\ o.tif = IF r \in Market THEN "IOC" ELSE "PostOnly"
  BY <1>4 DEF LedgerInv, OrderPlaced, EntryPlaced
<1>8. /\ Wanted \in Nat /\ quantity \in Nat /\ quantity >= 1 /\ quantity <= Wanted
      /\ EntryTtl \in Nat
  BY DEF TradeAssumption
<1>9. /\ e \in Nat /\ Len(orders) \in Nat /\ Len(fills) \in Nat /\ ticks[e].at \in Nat
      /\ ticks[e].received \in Nat /\ ticks[e].stream \in Nat
      /\ orders \in Seq(OrderRow) /\ fills \in Seq(FillRow) /\ n \in Nat /\ x \in Nat /\ x \notin 1..Len(orders)
  <2>1. /\ e \in Nat /\ Len(orders) \in Nat /\ Len(fills) \in Nat /\ n \in Nat
    BY <1>1, <1>4, Lengths
  <2>2. ticks[e].at \in Nat /\ ticks[e].received \in Nat /\ ticks[e].stream \in Nat
    BY <1>1, TickFields
  <2> QED
    BY <1>1, <2>1, <2>2, SMTT(60) DEF LedgerType
<1>10. /\ clock + wait \in Nat /\ clock <= clock + wait
       /\ ticks[e].received <= clock /\ ticks[e].at >= o.at
  <2>1. ticks[e].received <= clock
    BY <1>1 DEF TicksInOrder
  <2>2. ticks[e].at >= o.at
    BY <1>2 DEF Offered, AfterSubmission
  <2> QED
    BY <1>1, <2>1, <2>2
<1>11. whole \in BOOLEAN
  OBVIOUS
<1>12. /\ entered \in HoldingRow /\ entered.quantity = quantity /\ entered.event = e
       /\ entered.openedAt = ticks[e].at /\ entered.order = 0
       /\ entered.status = (IF whole THEN "CLOSED" ELSE "OPEN")
       /\ entered.remaining = (IF whole THEN 0 ELSE quantity)
       /\ whole => entered.closedAt = ticks[e].at
       /\ r \notin ByBook => ~entered.requested
  BY <1>8, <1>9 DEF HoldingRow
<1>13. /\ fill.order = n /\ fill.event = e /\ fill.at = ticks[e].at /\ fill.quantity = quantity
       /\ fill \in FillRow
  <2>1. o.event \in Nat /\ o.tif \in {"IOC", "PostOnly"}
    BY <1>1, <1>4, <1>7, OrderFields
  <2>2. Own(o, e) \in Nat /\ PublicConsumed(o, e) \in Nat
    BY <1>1, <2>1, ConsumedType
  <2>3. Capacity(o, e) \in Int
    BY <2>1, CapacityType
  <2> QED
    BY <1>8, <1>9, <2>2, <2>3 DEF Receipt, FillRow
<1>14. /\ wholeFill.order = x /\ wholeFill.event = e /\ wholeFill.at = ticks[e].at
       /\ wholeFill.quantity = quantity /\ wholeFill \in FillRow
  BY <1>8, <1>9 DEF WholeFill, FillRow
<1>15. /\ row.run = r /\ row.kind = "exit" /\ row.tif = "whole" /\ row.quantity = quantity
       /\ row.event = e /\ row.at = clock /\ row.status = "FILLED" /\ row.filled = quantity
       /\ row.cancelled = 0 /\ row \in OrderRow
  BY <1>1, <1>8, <1>9 DEF WholeOrder, OrderRow
<1>16. /\ d \in [opens : Seq(Nat), closes : Nat] /\ Len(d.opens) = 1
       /\ d.opens[1] = clock + wait /\ d.closes = (IF whole THEN 1 ELSE 0)
  <2> DEFINE k == IF whole THEN 1 ELSE 0
             at == clock + wait
  <2>1. decisions[r] \in [opens : Seq(Nat), closes : Nat]
    BY <1>1 DEF LedgerType
  <2>2. k \in Nat /\ at \in Nat
    BY <1>10
  <2>3. d = [decisions[r] EXCEPT !.opens = Append(@, at), !.closes = @ + k]
    OBVIOUS
  <2>4. d.opens = Append(<<>>, at) /\ d.closes = 0 + (IF whole THEN 1 ELSE 0)
    BY <1>6, <2>1
  <2>5. at \in Nat => Len(Append(<<>>, at)) = 1 /\ Append(<<>>, at)[1] = at
    <3> HIDE DEF at
    <3> QED
      OBVIOUS
  <2> HIDE DEF d, k, at
  <2>6. d \in [opens : Seq(Nat), closes : Nat]
    BY <1>6, <2>1, <2>2, <2>3, FirstOpen
  <2>7. Len(d.opens) = 1 /\ d.opens[1] = at
    BY <2>2, <2>4, <2>5
  <2> QED
    BY <2>4, <2>6, <2>7 DEF at
<1>17. /\ named.status = "done" /\ named.decided = signals[r].decided /\ named.order = n
       /\ named.detected = signals[r].detected /\ named \in SignalRow
  <2>1. signals[r] \in SignalRow
    BY <1>1 DEF LedgerType
  <2> QED
    BY <1>9, <2>1 DEF SignalRow
<1>18. /\ positions' = [positions EXCEPT ![r] = entered]
       /\ orders' = IF whole THEN Append(endedOrders, row) ELSE endedOrders
       /\ fills' = (fills \o <<fill>>) \o (IF whole THEN <<wholeFill>> ELSE <<>>)
       /\ booked' = IF whole THEN [booked EXCEPT ![r] = Append(booked[r], TradeOf(entered))]
                    ELSE booked
  BY <1>1 DEF EnterByFill, LedgerType
<1>19. decisions' = [decisions EXCEPT ![r] = d]
  BY <1>1 DEF EnterByFill, LedgerType
<1>20. signals' = [signals EXCEPT ![r] = named]
  BY <1>1 DEF EnterByFill, LedgerType
<1>21. ended = Terminal(orders[n], quantity) /\ endedOrders = [orders EXCEPT ![n] = ended]
  OBVIOUS
<1> HIDE DEF entered, ended, endedOrders, row, fill, wholeFill, d, named, whole
<1>22. /\ positions'[r] = entered /\ positions' \in [AccountRuns -> HoldingRow]
       /\ \A q \in AccountRuns : q # r => positions'[q] = positions[q]
  BY <1>1, <1>12, <1>18 DEF LedgerType
<1>23. /\ signals'[r] = named /\ signals' \in [AccountRuns -> SignalRow]
       /\ \A q \in AccountRuns : q # r => signals'[q] = signals[q]
  BY <1>1, <1>17, <1>20 DEF LedgerType
<1>24. /\ decisions'[r] = d /\ decisions' \in [AccountRuns -> [opens : Seq(Nat), closes : Nat]]
       /\ \A q \in AccountRuns : q # r => decisions'[q] = decisions[q]
  BY <1>1, <1>16, <1>19 DEF LedgerType
<1>25. /\ booked' \in [AccountRuns -> Seq(BookedRow)]
       /\ booked'[r] = IF whole THEN <<TradeOf(entered)>> ELSE <<>>
       /\ \A q \in AccountRuns : q # r => booked'[q] = booked[q]
  <2>1. CASE whole
    <3>1. TradeOf(entered) \in BookedRow
      BY <1>12 DEF TradeOf, BookedRow, HoldingRow
    <3>2. booked \in [AccountRuns -> Seq(BookedRow)]
      BY <1>1 DEF LedgerType
    <3>3. booked[r] \in Seq(BookedRow)
      BY <3>2
    <3>4. /\ Append(booked[r], TradeOf(entered)) \in Seq(BookedRow)
          /\ Append(booked[r], TradeOf(entered)) = <<TradeOf(entered)>>
      BY <1>6, <3>1, <3>3, AppendProperties
    <3>5. booked' = [booked EXCEPT ![r] = Append(booked[r], TradeOf(entered))]
      BY <1>18, <2>1
    <3> QED
      BY <2>1, <3>2, <3>4, <3>5
  <2>2. CASE ~whole
    BY <1>1, <1>6, <1>18, <2>2 DEF LedgerType
  <2> QED
    BY <2>1, <2>2
<1>26. /\ endedOrders \in Seq(OrderRow) /\ Len(endedOrders) = Len(orders)
       /\ \A id \in 1..Len(orders) : id # n => endedOrders[id] = orders[id]
       /\ SameTerms(o, endedOrders[n]) /\ endedOrders[n].filled = quantity
       /\ endedOrders[n].status # "OPEN"
       /\ endedOrders[n].filled + endedOrders[n].cancelled = o.quantity
       /\ (endedOrders[n].status = "FILLED") <=> (endedOrders[n].filled = o.quantity)
  <2>1. quantity <= orders[n].quantity
    BY <1>7, <1>8
  <2> HIDE DEF n
  <2>2. endedOrders \in Seq(OrderRow)
    BY <1>1, <1>4, <1>8, <1>21, <2>1, OrderEnds
  <2>3. Len(endedOrders) = Len(orders)
    BY <1>1, <1>4, <1>8, <1>21, <2>1, OrderEnds
  <2>4. \A id \in 1..Len(orders) : id # n => endedOrders[id] = orders[id]
    BY <1>1, <1>4, <1>8, <1>21, <2>1, OrderEnds
  <2>5. SameTerms(orders[n], endedOrders[n])
    BY <1>1, <1>4, <1>8, <1>21, <2>1, OrderEnds
  <2>6. endedOrders[n].filled = quantity
    BY <1>1, <1>4, <1>8, <1>21, <2>1, OrderEnds
  <2>7. endedOrders[n].status # "OPEN"
    BY <1>1, <1>4, <1>8, <1>21, <2>1, OrderEnds
  <2>8. endedOrders[n].filled + endedOrders[n].cancelled = orders[n].quantity
    BY <1>1, <1>4, <1>8, <1>21, <2>1, OrderEnds
  <2>9. (endedOrders[n].status = "FILLED") <=> (endedOrders[n].filled = orders[n].quantity)
    BY <1>1, <1>4, <1>8, <1>21, <2>1, OrderEnds
  <2> QED
    BY <2>2, <2>3, <2>4, <2>5, <2>6, <2>7, <2>8, <2>9
<1>27. /\ orders' \in Seq(OrderRow) /\ Len(orders) <= Len(orders')
       /\ \A id \in 1..Len(orders) : id \in 1..Len(orders') /\ orders'[id] = endedOrders[id]
       /\ \A id \in 1..Len(orders') :
            id \in 1..Len(orders) \/ (id = x /\ whole /\ orders'[id] = row)
       /\ whole => x \in 1..Len(orders') /\ orders'[x] = row
  <2>1. CASE whole
    <3>1. orders' = Append(endedOrders, row)
      BY <1>18, <2>1
    <3>2. /\ orders' \in Seq(OrderRow) /\ Len(orders') = x /\ orders'[x] = row
          /\ \A id \in 1..Len(orders) : orders'[id] = endedOrders[id]
      BY <1>15, <1>26, <3>1, AppendProperties
    <3> QED
      BY <1>9, <2>1, <3>2
  <2>2. CASE ~whole
    BY <1>9, <1>18, <1>26, <2>2
  <2> QED
    BY <2>1, <2>2
<1>28. /\ fills' \in Seq(FillRow) /\ Len(fills) <= Len(fills')
       /\ m \in 1..Len(fills') /\ m \notin 1..Len(fills) /\ fills'[m] = fill
       /\ w \notin 1..Len(fills) /\ w # m
       /\ \A f \in 1..Len(fills) : f \in 1..Len(fills') /\ fills'[f] = fills[f]
       /\ \A f \in 1..Len(fills') :
            f \in 1..Len(fills) \/ f = m \/ (f = w /\ whole /\ fills'[f] = wholeFill)
       /\ whole => w \in 1..Len(fills') /\ fills'[w] = wholeFill
  <2> DEFINE once == Append(fills, fill)
  <2>1. fills \o <<fill>> = once
    BY <1>9, <1>13, AppendIsConcat
  <2>2. /\ once \in Seq(FillRow) /\ Len(once) = m /\ once[m] = fill
        /\ \A f \in 1..Len(fills) : once[f] = fills[f]
    BY <1>9, <1>13, AppendProperties
  <2> HIDE DEF once
  <2>3. CASE whole
    <3>1. fills' = Append(once, wholeFill)
      BY <1>14, <1>18, <2>1, <2>2, <2>3, AppendIsConcat
    <3>2. /\ fills' \in Seq(FillRow) /\ Len(fills') = Len(once) + 1
          /\ fills'[Len(once) + 1] = wholeFill
          /\ \A f \in 1..Len(once) : fills'[f] = once[f]
      BY <1>14, <2>2, <3>1, AppendProperties
    <3>3. Len(fills') = Len(fills) + 2 /\ Len(once) = Len(fills) + 1
      BY <1>9, <2>2, <3>2
    <3>4. \A f \in 1..Len(fills) : f \in 1..Len(once) /\ f \in 1..Len(fills')
      BY <1>9, <3>3
    <3>5. \A f \in 1..Len(fills') : f \in 1..Len(fills) \/ f = m \/ f = w
      BY <1>9, <3>3, SMTT(60)
    <3>6. /\ Len(fills) <= Len(fills') /\ m \in 1..Len(once) /\ m \in 1..Len(fills')
          /\ m \notin 1..Len(fills) /\ w \notin 1..Len(fills) /\ w # m /\ w \in 1..Len(fills')
      BY <1>9, <3>3
    <3>7. Len(once) + 1 = w
      BY <1>9, <3>3
    <3> HIDE DEF m, w
    <3>8. fills'[m] = fill /\ fills'[w] = wholeFill
      BY <2>2, <3>2, <3>6, <3>7
    <3>9. \A f \in 1..Len(fills) : f \in 1..Len(fills') /\ fills'[f] = fills[f]
      BY <2>2, <3>2, <3>4
    <3> QED
      BY <2>3, <3>2, <3>5, <3>6, <3>8, <3>9
  <2>4. CASE ~whole
    <3>1. fills' = once \o <<>>
      BY <1>18, <2>1, <2>4
    <3>2. fills' = once
      BY <2>2, <3>1, ConcatEmptySeq
    <3> QED
      BY <1>9, <2>2, <2>4, <3>2
  <2> QED
    BY <2>3, <2>4
<1>29. LedgerType'
  BY <1>1, <1>2, <1>10, <1>22, <1>23, <1>24, <1>25, <1>27, <1>28 DEF LedgerType
<1>30. \A id \in 1..Len(orders) : SameTerms(orders[id], orders'[id])
  BY <1>4, <1>26, <1>27 DEF SameTerms
<1>31. LedgerKept
  <2>1. Len(ticks) \in Nat
    BY <1>1, Lengths
  <2> QED
    BY <1>2, <1>27, <1>28, <1>30, <2>1 DEF LedgerKept
<1>32. RunsKept
  <2>1. ASSUME NEW q \in AccountRuns
        PROVE  /\ positions[q].status # "NONE" => positions'[q].status # "NONE"
               /\ positions[q].event <= positions'[q].event
               /\ signals[q].status # "none" => /\ signals'[q].status # "none"
                                                /\ signals'[q].decided = signals[q].decided
                                                /\ signals'[q].detected = signals[q].detected
    <3>1. CASE q = r
      BY <1>3, <1>9, <1>12, <1>17, <1>22, <1>23, <3>1 DEF NoHolding
    <3>2. CASE q # r
      BY <1>1, <1>22, <1>23, <3>2, HoldingFields
    <3> QED
      BY <3>1, <3>2
  <2>2. \A id \in 1..Len(orders) : orders[id].status # "OPEN" => orders'[id] = orders[id]
    BY <1>2, <1>26, <1>27
  <2> QED
    BY <1>2, <1>10, <2>1, <2>2 DEF RunsKept
<1>33. TicksInOrder'
  BY <1>1, <1>2, <1>10, <1>29, TicksStay
<1>34. \A f \in 1..Len(fills) : fills[f].order # n /\ fills[f].order # x
  <2>1. \A f \in 1..Len(fills) : fills[f].order \in 1..Len(orders) /\ orders[fills[f].order].status # "OPEN"
    BY DEF LedgerInv, FillPlaced
  <2> QED
    BY <1>2, <1>9, <2>1
<1>35. n # x
  BY <1>4, <1>9
<1> HIDE DEF n, x, m, w
<1>36. OnlyFills'
  <2>1. \A f, g \in 1..Len(fills') :
          f \notin 1..Len(fills) /\ g \notin 1..Len(fills) /\ fills'[f].order = fills'[g].order
            => f = g
    BY <1>13, <1>14, <1>28, <1>35
  <2>2. \A f \in 1..Len(fills') : \A g \in 1..Len(fills) :
          f \notin 1..Len(fills) => fills'[f].order # fills[g].order
    BY <1>13, <1>14, <1>28, <1>34
  <2>3. \A id \in 1..Len(orders') :
          orders'[id].filled # 0 =>
            \/ id \in 1..Len(orders) /\ orders[id].filled # 0
            \/ \E f \in 1..Len(fills') : fills'[f].order = id
    BY <1>13, <1>14, <1>26, <1>27, <1>28
  <2> QED
    BY <1>29, <1>31, <2>1, <2>2, <2>3, FillsStayOnly
<1>37. ASSUME NEW f \in 1..Len(fills')
       PROVE  SourceHolds(f)' /\ (f = m => ReceiptHolds(f)')
  <2>1. fills'[m] = Receipt(n, orders[n], e, quantity)
    BY <1>28 DEF fill
  <2>2. quantity <= Available(orders[n], e, Own(orders[n], e) + PublicConsumed(orders[n], e))
    BY <1>2 DEF EntryLeft
  <2>3. \A g \in 1..Len(fills') :
          g \in 1..Len(fills) \/ g = m \/ orders'[fills'[g].order].tif = "whole"
    BY <1>14, <1>15, <1>27, <1>28
  <2>4. orders[n].tif # "whole" /\ orders[n].kind # "exit"
    BY <1>4, <1>7
  <2>5. PICK k : k = m
    OBVIOUS
  <2>6. /\ k \in 1..Len(fills') /\ k \notin 1..Len(fills)
        /\ fills'[k] = Receipt(n, orders[n], e, quantity)
        /\ \A g \in 1..Len(fills') :
             g \in 1..Len(fills) \/ g = k \/ orders'[fills'[g].order].tif = "whole"
    BY <1>28, <2>1, <2>3, <2>5
  <2>7. ReceiptHolds(k)'
    BY <1>2, <1>4, <1>8, <1>29, <1>31, <2>2, <2>4, <2>6, NewReceipt
  <2>8. SourceHolds(f)'
    BY <1>2, <1>4, <1>8, <1>29, <1>31, <2>2, <2>4, <2>6, NewReceipt
  <2>9. f = m => f = k
    BY <2>5
  <2> QED
    BY <2>7, <2>8, <2>9
<1>38. ASSUME NEW f \in 1..Len(fills')
       PROVE  FillPlaced(f)' /\ ReceiptHolds(f)' /\ SourceHolds(f)'
  <2>1. CASE f \in 1..Len(fills)
    BY <1>29, <1>31, <1>32, <1>37, <2>1, FillsStay
  <2>2. CASE f = m
    <3>1. /\ fills'[f] = fill /\ n \in 1..Len(orders') /\ e \in Events' /\ orders'[n].run = r
          /\ orders'[n].status # "OPEN" /\ orders'[n].filled = quantity
      BY <1>2, <1>4, <1>26, <1>27, <1>28, <2>2 DEF Events, SameTerms
    <3>2. e <= positions'[r].event
      BY <1>9, <1>12, <1>22
    <3>3. FillPlaced(f)'
      BY <1>2, <1>8, <1>13, <3>1, <3>2 DEF FillPlaced
    <3> QED
      BY <1>37, <2>2, <3>3
  <2>3. CASE f = w /\ whole /\ fills'[f] = wholeFill
    <3>1. /\ x \in 1..Len(orders') /\ e \in Events' /\ orders'[x] = row
      BY <1>2, <1>27, <2>3 DEF Events
    <3>2. e <= positions'[r].event
      BY <1>9, <1>12, <1>22
    <3>3. FillPlaced(f)'
      BY <1>2, <1>8, <1>14, <1>15, <2>3, <3>1, <3>2 DEF FillPlaced
    <3>4. ReceiptHolds(f)'
      BY <1>14, <1>15, <2>3, <3>1 DEF ReceiptHolds
    <3> QED
      BY <1>37, <3>3, <3>4
  <2> QED
    BY <1>28, <2>1, <2>2, <2>3
<1>39. ASSUME NEW id \in 1..Len(orders')
       PROVE  OrderPlaced(orders[id])' /\ OrderEnded(orders[id])' /\ OrderAtWork(id)'
  <2>1. CASE id \in 1..Len(orders) /\ id # n
    <3>1. orders'[id] = orders[id] /\ orders[id].run \in AccountRuns /\ orders[id].run # r
      BY <1>1, <1>3, <1>26, <1>27, <2>1, OrderFields
    <3>2. \A q \in {orders[id].run} : signals'[q] = signals[q] /\ positions'[q] = positions[q]
      BY <1>22, <1>23, <3>1
    <3> QED
      BY <1>29, <1>31, <1>32, <2>1, <3>1, <3>2, OrdersStay, OtherOrders
  <2>2. CASE id = n
    <3>1. OrderPlaced(orders[id])'
      BY <1>4, <1>29, <1>31, <1>32, <2>2, OrdersStay
    <3>2. /\ orders'[id].run = r /\ orders'[id].kind = "entry" /\ orders'[id].status # "OPEN"
          /\ orders'[id].filled + orders'[id].cancelled = orders'[id].quantity
          /\ (orders'[id].status = "FILLED") <=> (orders'[id].filled = orders'[id].quantity)
      BY <1>4, <1>26, <1>27, <2>2 DEF SameTerms
    <3>3. OrderEnded(orders[id])'
      BY <3>2 DEF OrderEnded
    <3>4. signals'[r].order = id
      BY <1>17, <1>23, <2>2
    <3>5. OrderAtWork(id)'
      BY <3>2, <3>4 DEF OrderAtWork
    <3> QED
      BY <3>1, <3>3, <3>5
  <2>3. CASE id = x /\ whole /\ orders'[id] = row
    <3>1. ticks'[e].received <= clock /\ clock <= clock' /\ e \in Events'
          /\ positions'[r].status # "NONE"
      BY <1>2, <1>10, <1>12, <1>22 DEF Events
    <3>2. OrderPlaced(orders[id])'
      BY <1>8, <1>15, <2>3, <3>1 DEF OrderPlaced, ExitPlaced
    <3>3. OrderEnded(orders[id])'
      BY <1>8, <1>15, <2>3 DEF OrderEnded
    <3>4. OrderAtWork(id)'
      BY <1>15, <2>3 DEF OrderAtWork
    <3> QED
      BY <3>2, <3>3, <3>4
  <2> QED
    BY <1>27, <2>1, <2>2, <2>3
<1>40. ASSUME NEW q \in AccountRuns
       PROVE  EntryAtWork(q)' /\ ExitAtWork(q)' /\ Stages(q)' /\ Balance(q)'
  <2>1. CASE q # r
    <3>1. \A id \in 1..Len(orders) : orders[id].run = q => orders'[id] = orders[id]
      BY <1>4, <1>26, <1>27, <2>1
    <3>2. orders'[n].run = r
      BY <1>4, <1>26, <1>27 DEF SameTerms
    <3>3. \A f \in 1..Len(fills') : f \notin 1..Len(fills) => orders'[fills'[f].order].run # q
      BY <1>13, <1>14, <1>15, <1>27, <1>28, <2>1, <3>2
    <3> QED
      BY <1>22, <1>23, <1>24, <1>25, <1>29, <1>31, <1>32, <2>1, <3>1, <3>3, OtherRuns
  <2>2. CASE q = r
    <3>1. /\ orders'[fills'[m].order].run = r /\ orders'[fills'[m].order].kind = "entry"
          /\ orders'[n].expires = Expires(r)
      BY <1>4, <1>7, <1>13, <1>26, <1>27, <1>28 DEF SameTerms
    <3>2. whole => orders'[fills'[w].order].run = r /\ orders'[fills'[w].order].kind = "exit"
      BY <1>14, <1>15, <1>27, <1>28
    <3>3. OfRun(r, "entry")' = {m}
      <4>1. \A f \in 1..Len(fills') :
              f \notin 1..Len(fills) /\ f # m /\ orders'[fills'[f].order].run = r
                => orders'[fills'[f].order].kind # "entry"
        BY <1>28, <3>2
      <4>2. OfRun(r, "entry")' = OfRun(r, "entry") \cup {m}
        <5>1. PICK k : k = m
          OBVIOUS
        <5>2. /\ k \in 1..Len(fills') /\ k \notin 1..Len(fills)
              /\ orders'[fills'[k].order].run = r /\ orders'[fills'[k].order].kind = "entry"
              /\ \A f \in 1..Len(fills') :
                   f \notin 1..Len(fills) /\ f # k /\ orders'[fills'[f].order].run = r
                     => orders'[fills'[f].order].kind # "entry"
          BY <1>28, <3>1, <4>1, <5>1
        <5>3. OfRun(r, "entry")' = OfRun(r, "entry") \cup {k}
          BY <1>29, <1>31, <1>32, <5>2, OfRunGrows, SMTT(60)
        <5> QED
          BY <5>1, <5>3
      <4> QED
        BY <1>6, <4>2
    <3>4. HoldingEntered(r)'
      <4>1. ASSUME NEW f, f = m
            PROVE  Entered(r, f)'
        <5>1. decisions'[r].opens[1] = clock + wait
          BY <1>16, <1>24
        <5>2. /\ fills'[f].quantity = positions'[r].quantity
              /\ fills'[f].at = positions'[r].openedAt /\ fills'[f].at = ticks[e].at
              /\ fills'[f].order = n /\ fills'[f].event = e
          BY <1>12, <1>13, <1>22, <1>28, <4>1
        <5>3. clock + wait < orders'[n].expires
          BY <1>2, <3>1
        <5>4. clock + wait >= ticks[e].received
          BY <1>1, <1>9, <1>10
        <5>5. (clock + wait) - ticks[e].at <= EntryTtl
          <6>1. signals[r].detected \in Nat
            BY <1>1, SignalFields
          <6>2. clock + wait < signals[r].detected + EntryTtl /\ ticks[e].at >= signals[r].detected
            BY <1>2 DEF Expires
          <6>3. \A a, b, c \in Nat : \A t \in Nat : a < b + t /\ c >= b => a - c <= t
            OBVIOUS
          <6> QED
            BY <1>8, <1>9, <1>10, <6>1, <6>2, <6>3
        <5>6. ticks[e].at >= signals'[r].decided
          <6>1. signals[r].decided \in Nat /\ o.at \in Nat
            BY <1>1, <1>4, SignalFields, OrderFields
          <6>2. ticks[e].at >= signals[r].decided
            BY <1>7, <1>9, <1>10, <6>1, SMTT(60)
          <6> QED
            BY <1>17, <1>23, <6>2
        <5>7. /\ decisions'[r].opens[1] < orders'[fills'[f].order].expires
              /\ decisions'[r].opens[1] >= ticks'[fills'[f].event].received
          BY <1>2, <5>1, <5>2, <5>3, <5>4
        <5> QED
          BY <5>1, <5>2, <5>5, <5>6, <5>7 DEF Entered
      <4>2. positions'[r].status # "NONE" /\ positions'[r].quantity >= 1
            /\ positions'[r].event \in Events'
            /\ positions'[r].openedAt <= ticks'[positions'[r].event].at
        BY <1>2, <1>8, <1>9, <1>12, <1>22 DEF Events
      <4>3. Len(decisions'[r].opens) = 1
        BY <1>16, <1>24
      <4>4. \E f \in OfRun(r, "entry")' : Entered(r, f)'
        BY <3>3, <4>1
      <4> QED
        BY <4>2, <4>3, <4>4 DEF HoldingEntered
    <3>5. ASSUME whole
          PROVE  Stages(r)' /\ Balance(r)'
      <4>1. /\ OfRun(r, "exit")' = OfRun(r, "exit") \cup {w}
            /\ SumFunctionOnSet(FillQuantities', OfRun(r, "exit")')
                 = SumFunctionOnSet(FillQuantities, OfRun(r, "exit")) + fills'[w].quantity
        <5>1. \A f \in 1..Len(fills') :
                f \notin 1..Len(fills) /\ f # w /\ orders'[fills'[f].order].run = r
                  => orders'[fills'[f].order].kind # "exit"
          BY <1>28, <3>1
        <5>2. PICK k : k = w
          OBVIOUS
        <5>3. /\ k \in 1..Len(fills') /\ k \notin 1..Len(fills)
              /\ orders'[fills'[k].order].run = r /\ orders'[fills'[k].order].kind = "exit"
              /\ \A f \in 1..Len(fills') :
                   f \notin 1..Len(fills) /\ f # k /\ orders'[fills'[f].order].run = r
                     => orders'[fills'[f].order].kind # "exit"
          BY <1>28, <3>2, <3>5, <5>1, <5>2
        <5>4. OfRun(r, "exit")' = OfRun(r, "exit") \cup {k}
          BY <1>29, <1>31, <1>32, <5>3, OfRunGrows, SMTT(60)
        <5>5. SumFunctionOnSet(FillQuantities', OfRun(r, "exit")')
                = SumFunctionOnSet(FillQuantities, OfRun(r, "exit")) + fills'[k].quantity
          BY <1>29, <1>31, <1>32, <5>3, OfRunGrows, SMTT(60)
        <5> QED
          BY <5>2, <5>4, <5>5
      <4>2. OfRun(r, "exit")' = {w}
        BY <1>6, <4>1
      <4>3. SumFunctionOnSet(FillQuantities, {}) = 0
        BY SumEmpty
      <4>4. SumFunctionOnSet(FillQuantities', OfRun(r, "exit")') = 0 + quantity
        BY <1>6, <1>14, <1>28, <3>5, <4>1, <4>3
      <4>5. Balance(r)'
        BY <1>8, <1>12, <1>22, <3>5, <4>4 DEF Balance, SoldByFills
      <4>6. TradeOf(positions[r])' = TradeOf(entered)
        BY <1>22 DEF TradeOf
      <4>7. \E f \in OfRun(r, "exit")' : fills'[f].event = e
        BY <1>14, <1>28, <3>5, <4>2
      <4>8. HoldingClosed(r)'
        BY <1>2, <1>12, <1>16, <1>22, <1>24, <1>25, <3>5, <4>2, <4>6, <4>7 DEF HoldingClosed
      <4> QED
        BY <3>4, <4>5, <4>8 DEF Stages
    <3>6. ASSUME ~whole
          PROVE  Stages(r)' /\ Balance(r)'
      <4>1. \A f \in 1..Len(fills') :
              f \notin 1..Len(fills) /\ orders'[fills'[f].order].run = r
                => orders'[fills'[f].order].kind # "exit"
        BY <1>28, <3>1, <3>6
      <4>2. /\ OfRun(r, "exit")' = {}
            /\ SumFunctionOnSet(FillQuantities', OfRun(r, "exit")')
                 = SumFunctionOnSet(FillQuantities, {})
        BY <1>6, <1>29, <1>31, <1>32, <4>1, OfRunStays
      <4>3. SumFunctionOnSet(FillQuantities, {}) = 0
        BY SumEmpty
      <4>4. Balance(r)'
        BY <1>8, <1>12, <1>22, <3>6, <4>2, <4>3 DEF Balance, SoldByFills
      <4>5. HoldingOpen(r)'
        BY <1>8, <1>12, <1>16, <1>22, <1>24, <1>25, <3>6, <4>2 DEF HoldingOpen
      <4> QED
        BY <3>4, <4>4, <4>5 DEF Stages
    <3>7. ExitAtWork(r)'
      BY <1>12, <1>22 DEF ExitAtWork
    <3>8. EntryAtWork(r)'
      <4>1. signals'[r].status = "done" /\ signals'[r].order = n
        BY <1>17, <1>23
      <4>2. n \in 1..Len(orders') /\ orders'[n].run = r /\ orders'[n].kind = "entry"
        BY <1>4, <1>26, <1>27 DEF SameTerms
      <4>3. signals'[r].decided <= clock'
        <5>1. signals[r].decided \in Nat /\ signals[r].decided <= clock
          BY <1>1, SignalFields DEF EntryAtWork
        <5> QED
          BY <1>1, <1>2, <1>10, <1>17, <1>23, <5>1
      <4> QED
        BY <4>1, <4>2, <4>3 DEF EntryAtWork
    <3> QED
      BY <2>2, <3>5, <3>6, <3>7, <3>8
  <2> QED
    BY <2>1, <2>2
<1> QED
  BY <1>29, <1>33, <1>36, <1>38, <1>39, <1>40 DEF LedgerInv

-----------------------------------------------------------------------------
(* The account before anything was traded.                                 *)
LEMMA LedgerStarts ==
  ASSUME TradeInit
  PROVE  LedgerInv
<1> DEFINE first == [at |-> 0, received |-> 0, stream |-> 1, book |-> 1, bookAt |-> 0,
                     taker |-> "none"]
           waiting == [status |-> "none", detected |-> 0, decided |-> 0, event |-> 0, order |-> 0]
           undecided == [opens |-> <<>>, closes |-> 0]
<1>1. /\ clock = 0 /\ ticks = <<first>> /\ orders = <<>> /\ fills = <<>>
      /\ signals = [r \in AccountRuns |-> waiting]
      /\ positions = [r \in AccountRuns |-> NoHolding]
      /\ decisions = [r \in AccountRuns |-> undecided]
      /\ booked = [r \in AccountRuns |-> <<>>]
  BY DEF TradeInit
<1>2. first \in TickRow /\ first.book = 1 /\ first.at = 0 /\ first.received = 0
  BY DEF TickRow
<1>3. /\ waiting \in SignalRow /\ waiting.status = "none" /\ waiting.order = 0
      /\ waiting.decided = 0
  BY DEF SignalRow
<1>4. undecided \in [opens : Seq(Nat), closes : Nat] /\ undecided.opens = <<>> /\ undecided.closes = 0
  OBVIOUS
<1>5. NoHolding \in HoldingRow /\ NoHolding.order = 0 /\ NoHolding.remaining = 0 /\ NoHolding.quantity = 0
  BY DEF NoHolding, HoldingRow
<1> HIDE DEF first, waiting, undecided
<1>6. ticks \in Seq(TickRow) /\ Len(ticks) = 1 /\ ticks[1] = first
  BY <1>1, <1>2
<1>7. /\ orders \in Seq(OrderRow) /\ fills \in Seq(FillRow) /\ <<>> \in Seq(BookedRow)
      /\ 1..Len(orders) = {} /\ 1..Len(fills) = {}
  <2>1. Len(<<>>) = 0 /\ 1..0 = {}
    OBVIOUS
  <2> QED
    BY <1>1, <2>1, EmptySeq
<1>8. LedgerType
  BY <1>1, <1>2, <1>3, <1>4, <1>5, <1>6, <1>7 DEF LedgerType
<1>9. TicksInOrder
  <2>1. Events = {1}
    BY <1>6 DEF Events
  <2> QED
    BY <1>1, <1>2, <1>6, <2>1 DEF TicksInOrder
<1>10. OnlyFills
  BY <1>7 DEF OnlyFills
<1>11. ASSUME NEW r \in AccountRuns
       PROVE  EntryAtWork(r) /\ ExitAtWork(r) /\ Stages(r) /\ Balance(r)
  <2>1. /\ signals[r] = waiting /\ positions[r] = NoHolding /\ decisions[r] = undecided
        /\ booked[r] = <<>>
    BY <1>1
  <2>2. OfRun(r, "entry") = {} /\ OfRun(r, "exit") = {}
    BY <1>7 DEF OfRun
  <2>3. EntryAtWork(r) /\ ExitAtWork(r)
    BY <1>1, <1>3, <1>5, <2>1 DEF EntryAtWork, ExitAtWork
  <2>4. Stages(r)
    BY <1>4, <2>1, <2>2 DEF Stages, NotEntered
  <2>5. Balance(r)
    <3>1. SumFunctionOnSet(FillQuantities, {}) = 0
      BY SumEmpty
    <3>2. SoldByFills(r) = 0
      BY <2>2, <3>1 DEF SoldByFills
    <3>3. positions[r].remaining = 0 /\ positions[r].quantity = 0
      BY <1>5, <2>1
    <3> QED
      BY <3>2, <3>3 DEF Balance
  <2> QED
    BY <2>3, <2>4, <2>5
<1> QED
  BY <1>7, <1>8, <1>9, <1>10, <1>11 DEF LedgerInv

(* An exit step, whatever it does.                                         *)
LEMMA StepExitKeeps ==
  ASSUME TradeAssumption, LedgerInv, NEW r \in AccountRuns, StepExit(r)
  PROVE  LedgerInv'
<1>1. CASE ExitOutcome(r) = "fill"
  BY <1>1, StepExitSells
<1>2. CASE ExitOutcome(r) # "fill"
  BY <1>2, StepExitWaits
<1> QED
  BY <1>1, <1>2

(* Every step keeps the invariant.                                         *)
LEMMA LedgerSteps ==
  ASSUME TradeAssumption, LedgerInv, [TradeNext]_tradeVars
  PROVE  LedgerInv'
<1>1. CASE Pass
  BY <1>1, PassKeeps
<1>2. ASSUME NEW taker \in {"Buy", "Sell", "block"}, NEW delay \in {0, 1},
             NEW book \in {"same", "new", "none"}, NEW reconnected \in BOOLEAN,
             PriceEvent(taker, delay, book, reconnected)
      PROVE  LedgerInv'
  BY <1>2, PriceEventKeeps
<1>3. ASSUME NEW r \in AccountRuns, NEW delay \in {0, 1}, Detect(r, delay)
      PROVE  LedgerInv'
  BY <1>3, DetectKeeps
<1>4. ASSUME NEW r \in AccountRuns, NEW e \in Events, NEW crosses \in BOOLEAN,
             SubmitEntry(r, e, crosses)
      PROVE  LedgerInv'
  BY <1>4, SubmitEntryKeeps
<1>5. ASSUME NEW r \in AccountRuns, RejectEntry(r)
      PROVE  LedgerInv'
  BY <1>5, RejectEntryKeeps
<1>6. ASSUME NEW r \in AccountRuns, NEW e \in Events, NEW quantity \in 1..Wanted,
             NEW wait \in {0, 1}, NEW hit \in BOOLEAN, EnterByFill(r, e, quantity, wait, hit)
      PROVE  LedgerInv'
  BY <1>6, EnterByFillKeeps
<1>7. ASSUME NEW r \in AccountRuns, NEW e \in Events, CloseWhole(r, e)
      PROVE  LedgerInv'
  BY <1>7, CloseWholeKeeps
<1>8. ASSUME NEW r \in AccountRuns, NEW e \in Events, RequestExit(r, e)
      PROVE  LedgerInv'
  BY <1>8, RequestExitKeeps
<1>9. ASSUME NEW r \in AccountRuns, SubmitExit(r)
      PROVE  LedgerInv'
  BY <1>9, SubmitExitKeeps
<1>10. ASSUME NEW r \in AccountRuns, StepExit(r)
       PROVE  LedgerInv'
  BY <1>10, StepExitKeeps
<1>11. CASE UNCHANGED tradeVars
  <2>1. /\ clock' = clock /\ ticks' = ticks /\ signals' = signals /\ orders' = orders
        /\ fills' = fills /\ positions' = positions /\ decisions' = decisions /\ booked' = booked
    BY <1>11 DEF tradeVars
  <2>2. LedgerType /\ TicksInOrder
    BY DEF LedgerInv
  <2>3. LedgerType'
    BY <2>1, <2>2 DEF LedgerType
  <2>4. LedgerKept
    BY <2>1, <2>2, Lengths DEF LedgerKept, SameTerms
  <2>5. clock <= clock'
    BY <2>1, <2>2 DEF LedgerType
  <2>6. TicksInOrder'
    BY <2>1, <2>2, <2>3, <2>5, TicksStay
  <2> QED
    BY <2>1, <2>3, <2>4, <2>5, <2>6, RowsUntouched
<1> QED
  BY <1>1, <1>2, <1>3, <1>4, <1>5, <1>6, <1>7, <1>8, <1>9, <1>10, <1>11 DEF TradeNext

-----------------------------------------------------------------------------
(* What the verifiers read off rows that the invariant describes.          *)
LEMMA SumOfOne ==
  ASSUME NEW g, NEW f, g[f] \in Int
  PROVE  SumFunctionOnSet(g, {f}) = g[f]
<1>1. IsFiniteSet({f}) /\ {f} \ {f} = {}
  BY FS_Singleton
<1>2. SumFunctionOnSet(g, {f}) = g[f] + SumFunctionOnSet(g, {f} \ {f})
  BY <1>1, SumTakes
<1> QED
  BY <1>1, <1>2, SumEmpty

(* The sum over one fill.                                                  *)
LEMMA SumOfFill ==
  ASSUME LedgerType, NEW f \in 1..Len(fills)
  PROVE  SumFunctionOnSet(FillQuantities, {f}) = fills[f].quantity
<1>1. FillQuantities[f] = fills[f].quantity /\ FillQuantities[f] \in Int
  BY QuantityTypes
<1> QED
  BY <1>1, SumOfOne

(* The greatest of some numbers.                                           *)
LEMMA GreatestIs ==
  ASSUME NEW S \in SUBSET Nat, NEW c \in S, \A x \in S : x <= c
  PROVE  Max(S) = c
<1>1. Max(S) \in S /\ \A x \in S : x <= Max(S)
  BY LatestOf
<1>2. Max(S) \in Nat /\ c \in Nat /\ Max(S) <= c /\ c <= Max(S)
  BY <1>1
<1> QED
  BY <1>2

(* The fills of a run as the verifiers collect them.                       *)
LEMMA RunFills ==
  ASSUME LedgerInv, NEW r, NEW kind
  PROVE  FillsOfRun(r, kind) = OfRun(r, kind)
<1>1. \A f \in 1..Len(fills) : fills[f].order \in 1..Len(orders)
  BY DEF LedgerInv, FillPlaced
<1> QED
  BY <1>1 DEF FillsOfRun, FillsOf, OrdersOf, OfRun

(* What the verifiers check of fills.                                      *)
LEMMA FillsVerified ==
  ASSUME TradeAssumption, LedgerInv, NEW f \in 1..Len(fills)
  PROVE  LET o == orders[fills[f].order] IN
         /\ o.kind = "entry" => EntryFillVerified(f)
         /\ o.kind = "exit" /\ o.tif # "whole" => ExitFillVerified(f)
         /\ o.tif # "whole" => SourceNotReused(SourceKey(o, fills[f].event))
         /\ o.tif = "IOC" => BookHeld(f)
<1> DEFINE o == orders[fills[f].order]
<1>1. /\ LedgerType /\ FillPlaced(f) /\ ReceiptHolds(f) /\ SourceHolds(f)
      /\ fills[f].order \in 1..Len(orders) /\ OrderPlaced(o)
  BY DEF LedgerInv, FillPlaced
<1>2. o.kind = "entry" => o.tif \in {"IOC", "PostOnly"}
  BY <1>1 DEF OrderPlaced, EntryPlaced
<1>3. o.tif # "whole" => OfReceipt(f) \in Int
  <2>1. fills[f].own + fills[f].public \in Int
    BY <1>1, FillFields
  <2>2. o.quantity \in Int /\ o.tif \in {"IOC", "PostOnly", "whole"}
    BY <1>1, OrderFields
  <2>3. ASSUME o.tif # "whole"
        PROVE  OfReceipt(f) \in Int
    <3> DEFINE room == Capacity(o, fills[f].event) - (fills[f].own + fills[f].public)
    <3>1. room \in Int
      BY <2>1, <2>2, <2>3, CapacityType
    <3> HIDE DEF room
    <3>2. Min({o.quantity, room}) \in Int
      BY <2>2, <3>1, LesserOfTwo
    <3> QED
      BY <3>2 DEF OfReceipt, Available, room
  <2> QED
    BY <2>3
<1>4. o.kind = "entry" => EntryFillVerified(f)
  <2> SUFFICES ASSUME o.kind = "entry" PROVE EntryFillVerified(f)
    OBVIOUS
  <2>1. o.tif # "whole"
    BY <1>2
  <2>2. Reproduced(f) /\ fills[f].quantity <= OfReceipt(f)
    BY <1>1, <2>1 DEF ReceiptHolds
  <2>3. OfReceipt(f) \in Int /\ fills[f].quantity \in Nat /\ fills[f].quantity >= 1
    BY <1>1, <1>3, <2>1, FillFields DEF FillPlaced
  <2>4. fills[f].quantity \in 1..OfReceipt(f)
    BY <2>2, <2>3
  <2> QED
    BY <2>2, <2>4 DEF EntryFillVerified
<1>5. o.kind = "exit" /\ o.tif # "whole" => ExitFillVerified(f)
  BY <1>1 DEF ReceiptHolds, ExitFillVerified
<1>6. o.tif # "whole" => SourceNotReused(SourceKey(o, fills[f].event))
  BY <1>1 DEF SourceHolds
<1>7. o.tif = "IOC" => BookHeld(f)
  BY <1>1 DEF ReceiptHolds
<1> QED
  BY <1>4, <1>5, <1>6, <1>7

(* What they check of ended orders.                                        *)
LEMMA TerminalsVerified ==
  ASSUME LedgerInv, NEW id \in 1..Len(orders)
  PROVE  TerminalVerified(id)
<1> DEFINE o == orders[id]
<1>1. LedgerType /\ OrderEnded(o) /\ OnlyFills
  BY DEF LedgerInv
<1>2. \A f \in FillsOf(id) : /\ f \in 1..Len(fills) /\ o.status # "OPEN"
                             /\ o.filled = fills[f].quantity /\ o.filled >= 1
  BY DEF LedgerInv, FillPlaced, FillsOf
<1>3. CASE FillsOf(id) = {}
  <2>1. Cardinality(FillsOf(id)) = 0 /\ SumFunctionOnSet(FillQuantities, FillsOf(id)) = 0
    BY <1>3, FS_EmptySet, SumEmpty
  <2>2. o.filled = 0
    BY <1>1, <1>3 DEF OnlyFills, FillsOf
  <2> QED
    BY <1>1, <1>3, <2>1, <2>2 DEF OrderEnded, TerminalVerified
<1>4. CASE FillsOf(id) # {}
  <2>1. PICK f : f \in FillsOf(id)
    BY <1>4
  <2>2. FillsOf(id) = {f}
    BY <1>1, <2>1 DEF OnlyFills, FillsOf
  <2>3. Cardinality(FillsOf(id)) = 1
    BY <2>2, FS_Singleton
  <2>4. SumFunctionOnSet(FillQuantities, FillsOf(id)) = o.filled
    BY <1>1, <1>2, <2>1, <2>2, SumOfFill
  <2>5. o.status # "OPEN"
    BY <1>2, <2>1
  <2> QED
    BY <1>1, <2>3, <2>4, <2>5 DEF OrderEnded, TerminalVerified
<1> QED
  BY <1>3, <1>4

(* A run that entered has one entry fill.                                  *)
LEMMA OneEntry ==
  ASSUME LedgerInv, NEW r \in AccountRuns, HoldingEntered(r)
  PROVE  \E f \in 1..Len(fills) : Entered(r, f) /\ OfRun(r, "entry") = {f}
<1>1. PICK f \in OfRun(r, "entry") : Entered(r, f)
  BY DEF HoldingEntered
<1>2. \A g \in OfRun(r, "entry") : g \in 1..Len(fills) /\ signals[r].order = fills[g].order
  BY DEF OfRun, LedgerInv, FillPlaced, OrderAtWork
<1>3. \A g \in OfRun(r, "entry") : g = f
  BY <1>1, <1>2 DEF LedgerInv, OnlyFills
<1> QED
  BY <1>1, <1>2, <1>3

(* What they check of a run's counts and balances.                         *)
LEMMA RunVerified ==
  ASSUME LedgerInv, NEW r \in AccountRuns
  PROVE  CountsVerified(r) /\ BalancesVerified(r)
<1> DEFINE p == positions[r]
<1>1. /\ LedgerType /\ ExitAtWork(r) /\ Stages(r) /\ Balance(r)
      /\ FillsOfRun(r, "entry") = OfRun(r, "entry") /\ FillsOfRun(r, "exit") = OfRun(r, "exit")
  BY RunFills DEF LedgerInv
<1>2. Cardinality({}) = 0 /\ SumFunctionOnSet(FillQuantities, {}) = 0 /\ Len(<<>>) = 0
  BY FS_EmptySet, SumEmpty
<1>3. Sold(r) + p.remaining = p.quantity
  BY <1>1 DEF Sold, Balance, SoldByFills
<1>4. {i \in OrdersOf(r, "exit") : orders[i].status = "OPEN"} = {p.order} \ {0}
  <2>1. \A i \in 1..Len(orders) : i # 0
    BY <1>1, Lengths
  <2>2. ASSUME NEW i \in OrdersOf(r, "exit"), orders[i].status = "OPEN"
        PROVE  i = p.order /\ i # 0
    BY <2>1, <2>2 DEF OrdersOf, LedgerInv, OrderAtWork
  <2>3. ASSUME p.order # 0
        PROVE  p.order \in OrdersOf(r, "exit") /\ orders[p.order].status = "OPEN"
    BY <1>1, <2>3 DEF ExitAtWork, OrdersOf
  <2> QED
    BY <2>2, <2>3
<1>5. CASE NotEntered(r)
  <2>1. p.status = "NONE" /\ p.quantity = 0
    BY <1>5 DEF NotEntered, NoHolding
  <2>2. CountsVerified(r)
    BY <1>1, <1>2, <1>5, <2>1 DEF CountsVerified, NotEntered
  <2>3. BalancesVerified(r)
    BY <1>1, <1>2, <1>3, <1>4, <1>5, <2>1 DEF BalancesVerified, NotEntered
  <2> QED
    BY <2>2, <2>3
<1>6. CASE HoldingEntered(r) /\ (HoldingOpen(r) \/ HoldingClosed(r))
  <2>1. PICK f \in 1..Len(fills) : Entered(r, f) /\ OfRun(r, "entry") = {f}
    BY <1>6, OneEntry
  <2>2. Cardinality(OfRun(r, "entry")) = 1
    BY <2>1, FS_Singleton
  <2>3. SumFunctionOnSet(FillQuantities, OfRun(r, "entry")) = p.quantity
    <3>1. SumFunctionOnSet(FillQuantities, {f}) = fills[f].quantity
      BY <1>1, SumOfFill
    <3> QED
      BY <2>1, <3>1 DEF Entered
  <2>4. p.status # "NONE" /\ Len(decisions[r].opens) = 1
    BY <1>6 DEF HoldingEntered
  <2>5. /\ decisions[r].closes = (IF p.status = "CLOSED" THEN 1 ELSE 0)
        /\ Len(booked[r]) = decisions[r].closes
        /\ p.status = "CLOSED" => p.remaining = 0
    <3>1. CASE HoldingOpen(r)
      BY <1>2, <3>1 DEF HoldingOpen
    <3>2. CASE HoldingClosed(r)
      BY <3>2 DEF HoldingClosed
    <3> QED
      BY <1>6, <3>1, <3>2
  <2>6. ASSUME r \notin ByBook
        PROVE  Cardinality(OfRun(r, "exit")) = decisions[r].closes
    <3>1. CASE HoldingOpen(r)
      BY <1>2, <2>6, <3>1 DEF HoldingOpen
    <3>2. CASE HoldingClosed(r)
      <4>1. PICK g : g \in OfRun(r, "exit")
        BY <3>2 DEF HoldingClosed
      <4>2. OfRun(r, "exit") = {g}
        BY <2>6, <3>2, <4>1 DEF HoldingClosed
      <4>3. Cardinality(OfRun(r, "exit")) = 1
        BY <4>2, FS_Singleton
      <4> QED
        BY <3>2, <4>3 DEF HoldingClosed
    <3> QED
      BY <1>6, <3>1, <3>2
  <2>7. CountsVerified(r)
    BY <1>1, <2>2, <2>4, <2>5, <2>6 DEF CountsVerified
  <2>8. BalancesVerified(r)
    BY <1>1, <1>3, <1>4, <2>3, <2>5 DEF BalancesVerified
  <2> QED
    BY <2>7, <2>8
<1> QED
  BY <1>1, <1>5, <1>6 DEF Stages

(* What the audit checks of a closed trade.                                *)
LEMMA TradeVerified ==
  ASSUME LedgerInv, NEW r \in AccountRuns, NEW i \in 1..Len(booked[r])
  PROVE  /\ Bindings(r, booked[r][i]) /\ FillLedger(r, booked[r][i])
         /\ EntryTiming(r) /\ EntryFinality(r)
<1> DEFINE p == positions[r]
           t == booked[r][i]
<1>1. /\ LedgerType /\ Stages(r) /\ Balance(r) /\ TicksInOrder
      /\ FillsOfRun(r, "entry") = OfRun(r, "entry") /\ FillsOfRun(r, "exit") = OfRun(r, "exit")
  BY RunFills DEF LedgerInv
<1>2. HoldingEntered(r) /\ HoldingClosed(r)
  <2>1. booked[r] # <<>>
    <3>1. 1..Len(<<>>) = {}
      OBVIOUS
    <3> QED
      BY <3>1
  <2> QED
    BY <1>1, <2>1 DEF Stages, NotEntered, HoldingOpen
<1>3. t = TradeOf(p)
  <2>1. booked[r] = <<TradeOf(p)>>
    BY <1>2 DEF HoldingClosed
  <2> QED
    BY <2>1
<1>4. /\ t.quantity = p.quantity /\ t.openedAt = p.openedAt /\ t.closedAt = p.closedAt
      /\ p.status = "CLOSED" /\ p.remaining = 0 /\ p.closedAt = ticks[p.event].at
      /\ p.event \in Events /\ p.openedAt <= ticks[p.event].at
  BY <1>2, <1>3 DEF TradeOf, HoldingClosed, HoldingEntered
<1>5. p.openedAt \in Nat /\ ticks[p.event].at \in Nat /\ p.quantity \in Nat
  BY <1>1, <1>4, HoldingFields, TickFields
<1>6. Bindings(r, t)
  BY <1>3, <1>4, <1>5 DEF Bindings
<1>7. PICK f \in 1..Len(fills) : Entered(r, f) /\ OfRun(r, "entry") = {f}
  BY <1>2, OneEntry
<1>8. FillLedger(r, t)
  <2>1. Sold(r) = t.quantity
    <3>1. SoldByFills(r) \in Nat
      BY <1>1, SomeFills DEF SoldByFills, OfRun
    <3>2. Sold(r) = SoldByFills(r)
      BY <1>1 DEF Sold, SoldByFills
    <3>3. SoldByFills(r) + 0 = p.quantity
      BY <1>1, <1>4 DEF Balance
    <3> QED
      BY <1>4, <3>1, <3>2, <3>3
  <2>2. {fills[g].at : g \in FillsOfRun(r, "entry")} = {t.openedAt}
    BY <1>1, <1>4, <1>7 DEF Entered
  <2> DEFINE ends == {fills[g].at : g \in OfRun(r, "exit")}
  <2>3. \A g \in OfRun(r, "exit") : /\ fills[g].at \in Nat
                                   /\ fills[g].at <= ticks[p.event].at
    <3>1. ASSUME NEW g \in OfRun(r, "exit")
          PROVE  fills[g].at \in Nat /\ fills[g].at <= ticks[p.event].at
      <4>1. /\ g \in 1..Len(fills) /\ fills[g].event \in Events
            /\ fills[g].at = ticks[fills[g].event].at /\ fills[g].event <= p.event
        BY <3>1 DEF OfRun, LedgerInv, FillPlaced
      <4>2. ticks[fills[g].event].at <= ticks[p.event].at
        BY <1>1, <1>4, <4>1 DEF TicksInOrder
      <4>3. fills[g].at \in Nat
        BY <1>1, <4>1, FillFields
      <4> QED
        BY <4>1, <4>2, <4>3
    <3> QED
      BY <3>1
  <2>4. ticks[p.event].at \in ends
    <3>1. PICK g \in OfRun(r, "exit") : fills[g].event = p.event
      BY <1>2 DEF HoldingClosed
    <3>2. fills[g].at = ticks[p.event].at
      BY <3>1 DEF OfRun, LedgerInv, FillPlaced
    <3> QED
      BY <3>2
  <2>5. ends \in SUBSET Nat /\ \A x \in ends : x <= ticks[p.event].at
    BY <2>3
  <2> HIDE DEF ends
  <2>6. Max(ends) = ticks[p.event].at
    BY <2>4, <2>5, GreatestIs
  <2> QED
    BY <1>1, <1>4, <2>1, <2>2, <2>6 DEF FillLedger, ends
<1>9. fills[f].event \in Events /\ fills[f].at = ticks[fills[f].event].at
  BY <1>7 DEF LedgerInv, FillPlaced
<1>10. EntryTiming(r)
  BY <1>1, <1>7, <1>9 DEF EntryTiming, Entered
<1>11. EntryFinality(r)
  <2>1. fills[f].at >= signals[r].decided
    BY <1>7 DEF Entered
  <2>2. ticks[fills[f].event].at <= ticks[fills[f].event].received
    BY <1>1, <1>9 DEF TicksInOrder
  <2>3. /\ ticks[fills[f].event].at \in Nat /\ ticks[fills[f].event].received \in Nat
        /\ signals[r].decided \in Nat
    BY <1>1, <1>9, TickFields, SignalFields
  <2>4. ticks[fills[f].event].received >= signals[r].decided
    BY <1>9, <2>1, <2>2, <2>3
  <2> QED
    BY <1>1, <1>7, <2>4 DEF EntryFinality
<1> QED
  BY <1>6, <1>8, <1>10, <1>11

(* All of it follows from the invariant.                                   *)
LEMMA LedgerVerified ==
  ASSUME TradeAssumption, LedgerInv
  PROVE  RowsVerify
<1>1. \A f \in 1..Len(fills) :
        LET o == orders[fills[f].order] IN
        /\ o.kind = "entry" => EntryFillVerified(f)
        /\ o.kind = "exit" /\ o.tif # "whole" => ExitFillVerified(f)
        /\ o.tif # "whole" => SourceNotReused(SourceKey(o, fills[f].event))
        /\ o.tif = "IOC" => BookHeld(f)
  BY FillsVerified
<1> QED
  BY <1>1, TerminalsVerified, RunVerified, TradeVerified DEF RowsVerify

(* The rows that the trades of an account leave behind verify in every     *)
(* state, for any number of runs, events and quantities: the checks of     *)
(* verify-execution-ledger.ts and of auditClosedTrade find nothing.  What  *)
(* makes it inductive is LedgerInv: the order that a signal or a position  *)
(* names is the only one at work, a fill ended its order and is its only   *)
(* one, and an event is stored no earlier than those before it.            *)
THEOREM TradeRowsVerify == TradeSpec => []RowsVerify
<1>1. TradeInit => LedgerInv
  BY LedgerStarts
<1>2. LedgerInv /\ [TradeNext]_tradeVars => LedgerInv'
  BY LedgerSteps, TradeParameters
<1>3. LedgerInv => RowsVerify
  BY LedgerVerified, TradeParameters
<1> QED
  BY <1>1, <1>2, <1>3, PTL DEF TradeSpec

=============================================================================
