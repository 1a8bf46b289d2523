---------------------------- MODULE MCIndicators ----------------------------
(***************************************************************************)
(* The indicators of a strategy with one loop, one lane and three candles  *)
(* after the data set, two of which the exchange revises.                  *)
(***************************************************************************)
EXTENDS IndicatorHistory

OneClose == <<2>>
TwoCloses == <<<<2, 1>>, <<3, 4>>, <<2, 1>>, <<1, 2>>>>

HistorySpec == HistoryInit /\ [][HistoryNext]_historyVars
=============================================================================
