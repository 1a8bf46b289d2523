------------------------------ MODULE MCRecords ------------------------------
(***************************************************************************)
(* Ten small systems that share nothing with each other, in one run: the   *)
(* queue of the price journal, the price archive, the candle simulation,   *)
(* the books of an account, the reports, the editing of records, the       *)
(* feeds, the indicators of a strategy, the replay of decisions and the    *)
(* verdict on a closed trade.  A behaviour is about one `subject`; the     *)
(* variables of the others keep one initial value.                         *)
(***************************************************************************)
EXTENDS PriceJournal, PriceArchive, RecordEditing, AuditVerdict, AccountBooks, FeedPages

CONSTANTS btc, Lot, w1, l1, Nobody
VARIABLE subject
OneMarket == {btc}
OneLot == {Lot}

(* The tape has one worker that keeps one trade at a time, long enough for *)
(* two overflows; the archive one market, one position, pages and batches  *)
(* so small that every limit is met.                                       *)

(* The simulation: five bars drawn from five candles that reach stops,     *)
(* targets and limits, two windows, settlements inside and between days.   *)
VARIABLES data, window, bar, step, waiting, range, simulated, pending, mark,
          settled, cash, latched, realized, capital, trades
simulationVars == <<data, window, bar, step, waiting, range, simulated, pending,
                    mark, settled, cash, latched, realized, capital, trades>>
Bar(open, high, low, close, signal) ==
    [open |-> open, high |-> high, low |-> low, close |-> close, signal |-> signal]
Shapes == {Bar(10, 13, 9, 12, "short"), Bar(12, 14, 11, 13, "none"),
           Bar(9, 12, 9, 11, "long"), Bar(12, 12, 8, 9, "none"),
           Bar(11, 11, 10, 11, "long")}
FundingTimes == {1, 4, 8}
Simulation == INSTANCE CandleSimulation
    WITH Symbols <- OneMarket, position <- simulated, Candles <- Shapes,
         Bars <- 5, Training <- 1, Test <- 2,
         BarsPerDay <- 2, Settlements <- FundingTimes, Rate <- 2, Capital <- 30,
         RiskPerTrade <- 10, DailyLimit <- 10, MaxPositions <- 1, MaxQuantity <- 2,
         MaxDeviation <- 2, StopDistance <- 3, TakeDistance <- 4,
         BreakEvenMove <- 2, TrailDistance <- 3, TrailMove <- 2,
         GuardEvenMove <- 3, GuardTrailMove <- 3, GuardDistance <- 1,
         HoldingTime <- 5, Fee <- 1, Slip <- 0, LimitOffset <- 1,
         MarketEntry <- FALSE

(* The books: of three positions one is closed whole and two through the   *)
(* book, of which one is charged funding.                                  *)
TwoAmounts == {-1, 2}

(* The reports: three results, so that buckets, peaks and falls differ.    *)
VARIABLE tradeRows
ReportNets == {-4, 0, 7}
ReportKeys == {"a", "b"}
ReportHoldings == {1, 4}
ReportEdges == <<0, 2, 4>>
ReportTargets == <<1, 2, 4>>
Reports == INSTANCE PerformanceReports
             WITH rows <- tradeRows, Nets <- ReportNets, Keys <- ReportKeys,
                  Holdings <- ReportHoldings, HoldingEdges <- ReportEdges,
                  MaxBuckets <- 2, Targets <- ReportTargets, Capital <- 10,
                  MaxTrades <- 3

(* The feeds: ids that are not in the order of writing, two times, pages   *)
(* of one row.                                                             *)
FeedKinds == [i \in RowIds |-> IF i % 2 = 1 THEN "open" ELSE "skip"]

(* The indicators: three candles after the data set, of which two are      *)
(* revised.  A position is looked at with one of them revised.             *)
VARIABLES time, revised, arriving, candles, clock, cursor, held, walk
indicatorVars == <<time, revised, arriving, candles, clock, cursor, held, walk>>
OneLoop == {l1}
OneSnapshot == <<2>>
Closes == <<<<2, 1>>, <<3, 4>>, <<2, 1>>, <<1, 2>>>>
TwoRevisable == {2, 3}
Indicators == INSTANCE IndicatorHistory
    WITH Loops <- OneLoop, Lanes <- OneLot, Snapshot <- OneSnapshot, Price <- Closes,
         TailLimit <- 1, Lookback <- 1, Revisable <- TwoRevisable, MaxArriving <- 1,
         MaxWrites <- 5, None <- Nobody, rows <- candles, position <- held, pass <- walk
FewChanges == /\ held # Nobody => clock <= 4 /\ Cardinality(revised) <= 1
              /\ walk[Lot].phase # "none" => held # Nobody

(* The decisions: a first candle and three of which some may be missing;   *)
(* two complete a replay without a stop or a target.  One provider, asked  *)
(* soon after the first decision or not at all.                            *)
VARIABLES now, market, decisions, shadow, shadowRows
decisionVars == <<now, market, decisions, shadow, shadowRows>>
Candle(open, high, low, close) == [open |-> open, high |-> high, low |-> low, close |-> close]
DecisionShapes == {Candle(10, 13, 9, 12), Candle(9, 11, 7, 8)}
DecisionTimes == {0, 2, 4, 6}
Decisions == INSTANCE DecisionReplay
    WITH OpenTimes <- DecisionTimes, Shapes <- DecisionShapes, Interval <- 2, FrameSize <- 1,
         MemorySize <- 1, Horizon <- 2, StopAway <- 3, TakeAway <- 3, Providers <- {w1},
         MaxTime <- 8, MaxDecisions <- 2

FirstCandle == 0 \in DOMAIN market /\ market[0] = Candle(9, 11, 7, 8)
FewAsked ==
    /\ Len(decisions) = 1 => decisions[1].availableAt <= 3
    /\ Len(decisions) = 2 => /\ shadow[w1].status = "unasked"
                           /\ decisions[2].allowed /\ decisions[2].side = "short"
    /\ shadow[w1].status # "unasked" => now <= decisions[1].availableAt + 1

(* The verdicts: an ordinary trade and those that differ from it in one    *)
(* field, with at most one defect and two pieces of evidence missing.      *)
Ordinary ==
    [type |-> "LIMIT", partial |-> FALSE, reason |-> "stop-loss", exits |-> 1,
     timed |-> FALSE, funded |-> TRUE, latched |-> TRUE, fromEntry |-> TRUE,
     path |-> "continuous", streams |-> 1, armed |-> FALSE, trailed |-> FALSE,
     proofs |-> "all"]
Flags == {"partial", "timed", "funded", "latched", "fromEntry", "armed", "trailed"}
ClosedTrades ==
    {Ordinary, [Ordinary EXCEPT !.type = "MARKET"], [Ordinary EXCEPT !.exits = 2],
     [Ordinary EXCEPT !.streams = 2]}
    \cup {[Ordinary EXCEPT ![flag] = ~@] : flag \in Flags}
    \cup {[Ordinary EXCEPT !.path = p] : p \in {"recovered", "gap"}}
    \cup {[Ordinary EXCEPT !.proofs = p] : p \in {"none", "late", "partial"}}
    \cup {[Ordinary EXCEPT !.reason = r] :
             r \in {"take-profit", "trailing-stop", "signal-exit", "holding-timeout",
                    "recovery-exit", "manual"}}
MuchKept == Cardinality(kept) >= Cardinality(Evidence) - 2

ASSUME SmallInstances ==
    /\ Indicators!IndicatorAssumption
    /\ Simulation!SimulationAssumption /\ Simulation!EngineAssumption
    /\ Decisions!DecisionAssumption

recordsVars == <<subject, editVars, vars, archiveVars, simulationVars,
                 bookVars, tradeRows, feedVars, indicatorVars, decisionVars, verdictVars>>

RecordsInit ==
    /\ subject \in {"editing", "tape", "archive", "simulation",
                    "books", "reports", "feed", "indicators", "decisions", "verdict"}
    /\ EditInit /\ Init /\ ArchiveInit /\ Simulation!Init
    /\ BooksInit /\ Reports!ReportsInit
    /\ FeedInit /\ Indicators!HistoryInit /\ Decisions!DecisionInit
    /\ IF subject = "decisions" THEN FirstCandle ELSE market = <<>>
    /\ closed \in (IF subject = "verdict" THEN ClosedTrades ELSE {Ordinary})
    /\ defects \in {{}} \cup (IF subject = "verdict" THEN {{id} : id \in DOMAIN Needs} ELSE {})
    /\ kept = Evidence /\ VerdictInit
    /\ subject # "feed" => startsAt = 0
    /\ subject # "editing" => \A p \in Pages : page[p].record = KillSwitch

RecordsNext ==
    /\ UNCHANGED subject
    /\ \/ /\ subject = "editing" /\ EditNext
          /\ UNCHANGED <<vars, archiveVars, simulationVars, bookVars,
                         tradeRows, feedVars, indicatorVars, decisionVars, verdictVars>>
       \/ /\ subject = "tape" /\ Next
          /\ UNCHANGED <<editVars, archiveVars, simulationVars, bookVars,
                         tradeRows, feedVars, indicatorVars, decisionVars, verdictVars>>
       \/ /\ subject = "archive" /\ ArchiveNext
          /\ UNCHANGED <<editVars, vars, simulationVars, bookVars,
                         tradeRows, feedVars, indicatorVars, decisionVars, verdictVars>>
       \/ /\ subject = "simulation" /\ Simulation!SimulationNext
          /\ UNCHANGED <<editVars, vars, archiveVars, bookVars,
                         tradeRows, feedVars, indicatorVars, decisionVars, verdictVars>>
       \/ /\ subject = "books" /\ BooksNext
          /\ UNCHANGED <<editVars, vars, archiveVars, simulationVars,
                         tradeRows, feedVars, indicatorVars, decisionVars, verdictVars>>
       \/ /\ subject = "reports" /\ Reports!ReportsNext
          /\ UNCHANGED <<editVars, vars, archiveVars, simulationVars,
                         bookVars, feedVars, indicatorVars, decisionVars, verdictVars>>
       \/ /\ subject = "feed" /\ FeedNext
          /\ UNCHANGED <<editVars, vars, archiveVars, simulationVars,
                         bookVars, tradeRows, indicatorVars, decisionVars, verdictVars>>
       \/ /\ subject = "indicators" /\ Indicators!HistoryNext /\ FewChanges'
          /\ UNCHANGED <<editVars, vars, archiveVars, simulationVars,
                         bookVars, tradeRows, feedVars, decisionVars, verdictVars>>
       \/ /\ subject = "verdict" /\ VerdictNext /\ MuchKept'
          /\ UNCHANGED <<editVars, vars, archiveVars, simulationVars,
                         bookVars, tradeRows, feedVars, indicatorVars, decisionVars>>
       \/ /\ subject = "decisions" /\ Decisions!DecisionNext /\ FewAsked'
          /\ UNCHANGED <<editVars, vars, archiveVars, simulationVars, bookVars,
                         tradeRows, feedVars, indicatorVars, verdictVars>>

RecordsSpec == RecordsInit /\ [][RecordsNext]_recordsVars

-----------------------------------------------------------------------------
(* What is computed twice comes out the same: the money of the simulation  *)
(* and the sums over its trades (CandleSimulation), every report made of   *)
(* one set of trades (PerformanceReports), the indicators of a lane and    *)
(* those of the candles that are stored (IndicatorHistory), the replay of  *)
(* a decision when it was complete and later, and what is kept of the      *)
(* answers of a provider that is asked twice (DecisionReplay).             *)
ComputedAlike ==
    /\ subject = "simulation" => Simulation!SimulationBalances
    /\ subject = "reports" => Reports!ReportsAgree
    /\ subject = "indicators" => Indicators!IndicatorsAgree
    /\ subject = "decisions" => Decisions!ReplayFinal /\ Decisions!JudgedUnseen
                              /\ Decisions!ShadowRowsSound
=============================================================================
