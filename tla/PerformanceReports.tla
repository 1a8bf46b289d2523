-------------------------- MODULE PerformanceReports --------------------------
(***************************************************************************)
(* What the analytics page and the ranking of experiments compute from the *)
(* Trade rows of a period.  Trades are inserted in commit order, but a     *)
(* trade whose funding was awaited is inserted after trades that closed    *)
(* later, so every report orders the rows by closedAt first.               *)
(*                                                                         *)
(* Percentages are whole numbers here, floats rounded to 8 digits in the   *)
(* code, and times are ticks instead of minutes.                           *)
(***************************************************************************)
EXTENDS Integers, Sequences, SequencesExt, FiniteSets, FiniteSetsExt

CONSTANTS Nets, Keys, Holdings,   \* results, breakdown keys, holding times
          HoldingEdges,           \* lower bounds of the holding time buckets
          MaxBuckets,             \* 10 in the code
          Targets,                \* checkpointTargets: 30, 100, 200
          Capital, MaxTrades      \* a bound on the number of trades

VARIABLE rows                     \* the Trade rows
reportVars == rows

Clock == Cardinality(rows) + 3

ReportsInit == rows = {}

(* trade.create of both ways to close.  `late` ticks ago the position sold *)
(* its last quantity.                                                      *)
CloseTrade(net, key, held, late) ==
    /\ Cardinality(rows) < MaxTrades
    /\ rows' = rows \cup {[id |-> Cardinality(rows) + 1, net |-> net, key |-> key,
                           closedAt |-> Clock - late, openedAt |-> Clock - late - held]}

ReportsNext == \E net \in Nets, key \in Keys, held \in Holdings, late \in 0 .. 1 :
                  CloseTrade(net, key, held, late)

-----------------------------------------------------------------------------
Within(startsAt) == {t \in rows : t.closedAt >= startsAt}

ByClose(trades) ==
    SetToSortSeq(trades, LAMBDA a, b : \/ a.closedAt < b.closedAt
                                       \/ a.closedAt = b.closedAt /\ a.id < b.id)

NetOf(trades) == MapThenSumSet(LAMBDA t : t.net, trades)
Wins(trades) == {t \in trades : t.net > 0}
Losses(trades) == {t \in trades : t.net < 0}
GrossProfit(trades) == NetOf(Wins(trades))
GrossLoss(trades) == -NetOf(Losses(trades))

DrawdownPercent(peak, equity) ==
    IF peak > 0 THEN (100 * (peak - equity)) \div peak ELSE 0

(* One trade after another: the equity, its peak and the deepest fall.     *)
Walk(sorted) ==
    FoldLeft(LAMBDA w, t :
               LET equity == w.equity + t.net
                   peak == Max({equity, w.peak})
                   fall == DrawdownPercent(peak, equity)
               IN  [equity |-> equity, peak |-> peak, deepest |-> Max({fall, w.deepest}),
                    series |-> Append(w.series, [at |-> t.closedAt, equity |-> equity,
                                                 drawdown |-> fall])],
             [equity |-> Capital, peak |-> Capital, deepest |-> 0, series |-> << >>],
             sorted)

(* The series starts before the first trade and is drawn on to the end of  *)
(* the range; a range without trades and without a start has no series.    *)
EquitySeries(sorted, startsAt, endsAt) ==
    LET first == [at |-> IF startsAt > 0 THEN startsAt ELSE sorted[1].openedAt - 1,
                  equity |-> Capital, drawdown |-> 0]
        points == <<first>> \o Walk(sorted).series
    IN  IF startsAt = 0 /\ sorted = << >> THEN << >>
        ELSE IF Last(points).at = endsAt THEN points
        ELSE Append(points, [Last(points) EXCEPT !.at = endsAt])

(* createBreakdown, and the daily groups, which are keyed by closedAt.     *)
Breakdown(trades, key) ==
    {[key |-> k, trades |-> {t \in trades : key[t] = k}] : k \in {key[t] : t \in trades}}

(* createPnlDistribution: Ceil(Sqrt(trades)) buckets of equal width.       *)
BucketCount(trades) ==
    CHOOSE n \in 1 .. MaxBuckets :
        /\ n * n >= Cardinality(trades) \/ n = MaxBuckets
        /\ \A m \in 1 .. n - 1 : m * m < Cardinality(trades)

Lowest(trades) == Min({t.net : t \in trades})
Spread(trades) == Max({t.net : t \in trades}) - Lowest(trades)

(* A slip: the greatest result falls past the last bucket.                 *)
BucketOf_Unclamped(t, trades) ==
    ((t.net - Lowest(trades)) * BucketCount(trades)) \div Spread(trades)

BucketOf(t, trades) ==
    LET place == ((t.net - Lowest(trades)) * BucketCount(trades)) \div Spread(trades)
    IN  Min({BucketCount(trades) - 1, place})

PnlDistribution(trades) ==
    IF trades = {} THEN << >>
    ELSE IF Spread(trades) = 0 THEN <<trades>>
    ELSE [i \in 1 .. BucketCount(trades) |-> {t \in trades : BucketOf(t, trades) = i - 1}]

HoldingDistribution(trades) ==
    [i \in DOMAIN HoldingEdges |->
        {t \in trades : /\ t.closedAt - t.openedAt >= HoldingEdges[i]
                        /\ i < Len(HoldingEdges) =>
                               t.closedAt - t.openedAt < HoldingEdges[i + 1]}]

(* buildPerformanceAnalytics.                                              *)
Analytics(startsAt, endsAt) ==
    LET trades == Within(startsAt)
    IN  [trades |-> Cardinality(trades), net |-> NetOf(trades),
         wins |-> Cardinality(Wins(trades)), losses |-> Cardinality(Losses(trades)),
         profit |-> GrossProfit(trades), loss |-> GrossLoss(trades),
         deepest |-> Walk(ByClose(trades)).deepest,
         series |-> EquitySeries(ByClose(trades), startsAt, endsAt),
         days |-> Breakdown(trades, [t \in trades |-> t.closedAt]),
         groups |-> Breakdown(trades, [t \in trades |-> t.key]),
         results |-> PnlDistribution(trades),
         holding |-> HoldingDistribution(trades)]

(* buildSample and buildCheckpoint.                                        *)
NextTargets(n) == {i \in DOMAIN Targets : n < Targets[i]}
Stage(n) == IF NextTargets(n) = {} THEN Len(Targets) + 1 ELSE Min(NextTargets(n))
Progress(n) ==
    LET i == Stage(n)
        from == IF i = 1 THEN 0 ELSE Targets[i - 1]
    IN  IF i > Len(Targets) THEN 100 ELSE (100 * (n - from)) \div (Targets[i] - from)

Checkpoint(sorted, target) ==
    IF Len(sorted) < target THEN [reached |-> FALSE, net |-> 0, deepest |-> 0]
    ELSE LET taken == SubSeq(sorted, 1, target)
         IN  [reached |-> TRUE, net |-> NetOf(ToSet(taken)), deepest |-> Walk(taken).deepest]

(* buildExperimentRanking: the period limits the results, not the sample.  *)
RankingItem(startsAt) ==
    LET trades == Within(startsAt)
    IN  [trades |-> Cardinality(trades), net |-> NetOf(trades),
         wins |-> Cardinality(Wins(trades)), losses |-> Cardinality(Losses(trades)),
         profit |-> GrossProfit(trades), loss |-> GrossLoss(trades),
         deepest |-> Walk(ByClose(trades)).deepest,
         stage |-> Stage(Cardinality(rows)), progress |-> Progress(Cardinality(rows)),
         checkpoints |-> [i \in DOMAIN Targets |-> Checkpoint(ByClose(rows), Targets[i])]]

-----------------------------------------------------------------------------
(* No start, or that of a period that ends now.                            *)
Starts == {0, Clock - 1, Clock - 2}

(* The deepest fall said without a walk: from the best point before.       *)
DeepestFall(series) ==
    Max({DrawdownPercent(Max({series[i].equity : i \in 1 .. j}), series[j].equity) :
            j \in DOMAIN series})

Each(parts, trades) ==
    \A t \in trades : Cardinality({i \in DOMAIN parts : t \in parts[i]}) = 1

(* Every report of the same rows tells the same story: the curve is in the *)
(* order of time, ends at the capital plus the result, and its deepest     *)
(* fall is the drawdown shown; each breakdown and each distribution counts *)
(* every trade once; the ranking shows the figures of the analytics page;  *)
(* and a checkpoint is reached exactly when the stage says so.             *)
ReportsAgree ==
    \A startsAt \in Starts :
        LET shown == Analytics(startsAt, Clock)
            item == RankingItem(startsAt)
            curve == shown.series
        IN  /\ curve # << >> =>
                 /\ Last(curve).equity = Capital + shown.net
                 /\ \A i \in 1 .. Len(curve) - 1 : curve[i].at <= curve[i + 1].at
                 /\ shown.deepest = DeepestFall(curve)
            /\ shown.net = shown.profit - shown.loss
            /\ MapThenSumSet(LAMBDA g : NetOf(g.trades), shown.days) = shown.net
            /\ MapThenSumSet(LAMBDA g : NetOf(g.trades), shown.groups) = shown.net
            /\ Each(shown.results, Within(startsAt))
            /\ Each(shown.holding, Within(startsAt))
            /\ \A field \in {"trades", "net", "wins", "losses", "profit", "loss", "deepest"} :
                 item[field] = shown[field]
            /\ item.progress \in 0 .. 100
            /\ \A i \in DOMAIN Targets : item.checkpoints[i].reached <=> i < item.stage
=============================================================================
