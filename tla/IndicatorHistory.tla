--------------------------- MODULE IndicatorHistory ---------------------------
(***************************************************************************)
(* The indicators of one strategy on one symbol.  They are carried from    *)
(* candle to candle in a checkpoint: recursive values, a short tail of     *)
(* candles and the time from which they were known.  The cursor of the run *)
(* has one, an open position has its own, and both start from the data set *)
(* the strategy was validated on.  Meanwhile candles reach the store from  *)
(* a stream that may lose them, from answers that may come late, and the   *)
(* exchange revises candles that have been folded into a checkpoint.       *)
(***************************************************************************)
EXTENDS Integers, Sequences, FiniteSets, FiniteSetsExt, SequencesExt

CONSTANTS Loops,        \* the workers' loops over the strategies' candles
          Lanes,        \* the workers' lanes of the open position
          Snapshot,     \* the closes of the data set, the candles 1..SeededThrough
          Price,        \* [candles -> <<close, revised close>>]
          TailLimit,    \* minimumExecutionCandleCount
          Lookback,     \* the candles a breakout looks back on
          Revisable,    \* bounds: the candles the exchange revises,
          MaxArriving,  \* what is under way from polls
          MaxWrites,    \* and the saves that change the store
          None

SeededThrough == Len(Snapshot)
Candles == DOMAIN Price
IndicatorAssumption ==
    /\ Lookback \in 1..TailLimit /\ TailLimit <= SeededThrough
    /\ SeededThrough \in Candles
Readers == Loops \cup Lanes

VARIABLES time,         \* the last candle that has closed
          revised,      \* the candles the exchange has revised
          arriving,     \* what stream and polls say of candles, under way
          rows,         \* the store
          clock,        \* the time of its last change
          cursor,       \* the checkpoint of the run and its last signal
          position,     \* the checkpoint of the open position
          pass          \* what each loop and lane holds
historyVars == <<time, revised, arriving, rows, clock, cursor, position, pass>>

-----------------------------------------------------------------------------
(* The exchange and what it says of a candle.                              *)
Published(c) == Price[c][IF c \in revised THEN 2 ELSE 1]

(* The answer to a request for candles: one is closed if it had ended when *)
(* the request was made, whatever its close by the time of the answer.     *)
Klines(range, asked) == [c \in range |-> [close |-> Published(c), closed |-> c <= asked]]

(* saveCandles: what a row becomes, stamped with the time of the write.  A *)
(* row that is closed stays so.                                            *)
Written(old, new, now) ==
    [close |-> new.close, closed |-> new.closed,
     finalizedAt |-> IF old # None /\ old.finalizedAt # 0 THEN old.finalizedAt
                     ELSE IF new.closed THEN now ELSE 0,
     revisedAt |-> IF old = None THEN 0
                   ELSE IF old.closed /\ new.closed /\ old.close # new.close THEN now
                   ELSE old.revisedAt]

Changes(old, new) ==
    \/ old = None
    \/ /\ old.closed => new.closed
       /\ \/ old.finalizedAt = 0 /\ new.closed
          \/ old.close # new.close \/ old.closed # new.closed

SaveCandles(batch) ==
    LET changed == {c \in DOMAIN batch : Changes(rows[c], batch[c])}
        Now(c) == clock + Cardinality({d \in changed : d <= c})
    IN  /\ rows' = [c \in Candles |-> IF c \in changed
                                      THEN Written(rows[c], batch[c], Now(c)) ELSE rows[c]]
        /\ clock' = clock + Cardinality(changed)

Stored(c) == rows[c] # None /\ rows[c].closed
RowsOf(range) == [c \in {c \in range : Stored(c)} |-> rows[c]]

(* From when on the row is known as it is: signalAvailabilityTimes.        *)
KnownFrom(row) == Max({row.finalizedAt, row.revisedAt})

-----------------------------------------------------------------------------
(* Checkpoints.  `folded` is every close since the data set began: all     *)
(* recursive values are functions of it, and equal for all practical       *)
(* purposes only when it is.                                               *)
SeedCheckpoint == [folded |-> Snapshot, revision |-> 0, availableAt |-> clock,
                   missed |-> {}]
At(checkpoint) == Len(checkpoint.folded)
TailOf(checkpoint) == (At(checkpoint) - TailLimit + 1)..At(checkpoint)

(* The rows a reader needs: the tail and everything after it.              *)
Needed(checkpoint, through) == (At(checkpoint) - TailLimit + 1)..through

Fold(checkpoint, window, through) ==
    checkpoint.folded \o [i \in 1..(through - At(checkpoint)) |->
                              window[At(checkpoint) + i].close]

(* A breakout: the close is above or below all of the Lookback candles     *)
(* before; no signal without so many.                                      *)
Before(folded) == SubSeq(folded, Len(folded) - Lookback, Len(folded) - 1)
Signal(folded) ==
    LET close == folded[Len(folded)]
    IN  CASE Len(folded) <= Lookback -> "none"
          [] close > Max(ToSet(Before(folded))) -> "long"
          [] close < Min(ToSet(Before(folded))) -> "short"
          [] OTHER -> "none"

(* assertExecutionIndicatorHistory: a row since the seed disagrees with    *)
(* the tail.                                                               *)
TailRevised(checkpoint, window) ==
    \E c \in TailOf(checkpoint) \cap DOMAIN window :
        c > SeededThrough /\ window[c].close # checkpoint.folded[c]

-----------------------------------------------------------------------------
NoPass == [phase |-> "none"]

HistoryInit ==
    /\ time = SeededThrough /\ revised = {}
    /\ arriving = {}
    /\ rows = [c \in Candles |-> IF c > SeededThrough THEN None ELSE
                  [close |-> Price[c][1], closed |-> TRUE, finalizedAt |-> 1, revisedAt |-> 0]]
    /\ clock = 1
    /\ cursor = None /\ position = None
    /\ pass = [r \in Readers |-> NoPass]

Says(c, asked) == [candle |-> c, close |-> Published(c), closed |-> c <= asked]

(* A candle ends; the stream says so.                                      *)
CloseCandle ==
    /\ time + 1 \in Candles
    /\ time' = time + 1
    /\ IF Cardinality(arriving) < MaxArriving
       THEN arriving' = arriving \cup {Says(time + 1, time + 1)} ELSE UNCHANGED arriving
    /\ UNCHANGED <<revised, rows, clock, cursor, position, pass>>

Revise(c) ==
    /\ c \in Revisable \ revised /\ c <= time
    /\ revised' = revised \cup {c}
    /\ UNCHANGED <<time, arriving, rows, clock, cursor, position, pass>>

(* candleDataLoop: one of the latest candles, as many as any strategy asks *)
(* for; the request was made now or before the last candle ended.          *)
PollCandles ==
    /\ Cardinality(arriving) < MaxArriving
    /\ \E c \in (SeededThrough + 1)..time, asked \in {time - 1, time} :
           arriving' = arriving \cup {Says(c, asked)}
    /\ UNCHANGED <<time, revised, rows, clock, cursor, position, pass>>

(* onClosedCandle and the answers to polls: in any order, perhaps never.   *)
SaveArrived ==
    /\ \E m \in arriving :
          /\ SaveCandles([c \in {m.candle} |-> [close |-> m.close, closed |-> m.closed]])
          /\ arriving' = arriving \ {m}
    /\ UNCHANGED <<time, revised, cursor, position, pass>>

-----------------------------------------------------------------------------
(* The checkpoint a reader starts from.                                    *)
Origin(r) ==
    CASE r \in Lanes -> position.checkpoint
      [] cursor # None /\ r \in Loops -> cursor.checkpoint
      [] OTHER -> SeedCheckpoint

(* How far the cursor or the position has come, and is expected to be when *)
(* the reader commits.                                                     *)
Progress(r) ==
    CASE r \in Lanes -> IF position = None THEN 0 ELSE At(position.checkpoint)
      [] r \in Loops -> IF cursor = None THEN 0 ELSE At(cursor.checkpoint)

(* What is read, or the request for what is missing.                       *)
Reading(r, through) ==
    LET start == Origin(r)
        window == RowsOf(Needed(start, through))
    IN  IF DOMAIN window = Needed(start, through)
        THEN [phase |-> "read", start |-> start, through |-> through,
              window |-> window, readAt |-> clock, expects |-> Progress(r),
              opened |-> IF position = None THEN 0 ELSE position.opened]
        ELSE [phase |-> "backfill", start |-> start, through |-> through,
              batch |-> Klines(Needed(start, through), time)]

(* processRuntimeTarget: no position is open and the last closed candle    *)
(* has not been evaluated.                                                 *)
ReadCycle(r) ==
    /\ pass[r].phase = "none" /\ position = None
    /\ cursor # None => At(cursor.checkpoint) < time
    /\ pass' = [pass EXCEPT ![r] = Reading(r, time)]
    /\ UNCHANGED <<time, revised, arriving, rows, clock, cursor, position>>

(* loadPositionSignals, up to the candle the prices have reached.          *)
ReadPosition(r) ==
    /\ pass[r].phase = "none" /\ position # None
    /\ \E through \in (At(position.checkpoint) + 1)..time :
           pass' = [pass EXCEPT ![r] = Reading(r, through)]
    /\ UNCHANGED <<time, revised, arriving, rows, clock, cursor, position>>

(* The missing candles have been asked for, come and are saved.            *)
Backfill(r) ==
    /\ pass[r].phase = "backfill"
    /\ SaveCandles(pass[r].batch)
    /\ pass' = [pass EXCEPT ![r].phase = "reread"]
    /\ UNCHANGED <<time, revised, arriving, cursor, position>>

(* What is still missing now ends the pass.  A cycle reads its cursor and  *)
(* the position again, a lane goes on with the position it had.            *)
Reread(r) ==
    LET p == pass[r] IN
    /\ p.phase = "reread"
    /\ pass' = [pass EXCEPT ![r] =
           IF \/ r \in Loops /\ (position # None \/ Progress(r) >= p.through)
              \/ r \in Lanes /\ (position = None \/ Progress(r) # At(p.start))
              \/ Reading(r, p.through).phase = "backfill"
           THEN NoPass ELSE Reading(r, p.through)]
    /\ UNCHANGED <<time, revised, arriving, rows, clock, cursor, position>>

(* restoreRuntimeIndicators: the latest revision among the rows folded.    *)
(* A slip: only the tail is looked at.                                     *)
RevisionAt_Tail(checkpoint) ==
    Max({0} \cup {rows[c].revisedAt :
                    c \in {c \in TailOf(checkpoint) : c > SeededThrough /\ Stored(c)}})
RevisionAt(checkpoint) ==
    Max({0} \cup {rows[c].revisedAt :
                    c \in {c \in (SeededThrough + 1)..At(checkpoint) : Stored(c)}})

ReadRevision(r) ==
    LET p == pass[r]
        at == RevisionAt(p.start)
        stale == {c \in DOMAIN p.window : /\ c > At(p.start)
                                          /\ rows[c].close # p.window[c].close
                                          /\ rows[c].revisedAt <= at}
    IN  /\ p.phase = "read"
        /\ pass' = [pass EXCEPT ![r] =
             [phase |-> IF at > p.start.revision \/ TailRevised(p.start, p.window)
                        THEN "restore" ELSE "fold",
              start |-> p.start, through |-> p.through, window |-> p.window,
              readAt |-> p.readAt, expects |-> p.expects, opened |-> p.opened,
              revision |-> at, now |-> clock, stale |-> stale]]
        /\ UNCHANGED <<time, revised, arriving, rows, clock, cursor, position>>

(* restoreRevisedIndicators: the seed and, read now, all rows since.       *)
Restore(r) ==
    LET p == pass[r]
        history == (SeededThrough + 1)..At(p.start)
        restored == [folded |-> Snapshot \o [i \in 1..Cardinality(history) |->
                                                rows[SeededThrough + i].close],
                     revision |-> IF p.revision # 0 THEN p.revision ELSE p.start.revision,
                     availableAt |-> Max({p.now, p.revision, p.start.availableAt}),
                     missed |-> p.stale]
    IN  /\ p.phase = "restore"
        /\ \A c \in history : Stored(c)
        /\ pass' = [pass EXCEPT ![r].phase = "fold", ![r].start = restored]
        /\ UNCHANGED <<time, revised, arriving, rows, clock, cursor, position>>

(* advanceExecutionIndicators.  A candle of the past is missed for good if *)
(* it was overtaken while read, is older than the tail, and the revision   *)
(* of it is not younger than the one remembered.                           *)
Advanced(r, through) ==
    LET p == pass[r]
        window == p.window
        used == {c \in DOMAIN window : c <= through /\ (r \in Lanes => c > At(p.start))}
    IN
    [folded |-> Fold(p.start, window, through),
     revision |-> p.start.revision,
     availableAt |-> Max({p.start.availableAt} \cup
                         {KnownFrom(window[c]) : c \in used}),
     missed |-> {c \in p.start.missed : c <= through - TailLimit}]

(* persistCycle: no position, and the cursor where it was.                 *)
CommitCycle(r) ==
    LET p == pass[r]
        checkpoint == Advanced(r, p.through)
    IN  /\ p.phase = "fold" /\ r \in Loops
        /\ pass' = [pass EXCEPT ![r] = NoPass]
        /\ IF /\ position = None
              /\ Progress(r) = p.expects
           THEN cursor' = [checkpoint |-> checkpoint, signal |-> Signal(checkpoint.folded)]
           ELSE UNCHANGED cursor
        /\ UNCHANGED <<time, revised, arriving, rows, clock, position>>

(* persistRealtimeEntry: a position opened on a signal takes a copy.       *)
OpenPosition ==
    /\ position = None /\ cursor # None /\ cursor.signal # "none"
    /\ position' = [opened |-> At(cursor.checkpoint), checkpoint |-> cursor.checkpoint]
    /\ cursor' = [cursor EXCEPT !.signal = "none"]
    /\ UNCHANGED <<time, revised, arriving, rows, clock, pass>>

(* persistRealtimeQuote: the signals up to a candle have been processed;   *)
(* the position is the one read, and the lane goes on with the rest.       *)
CommitPosition(r) ==
    LET p == pass[r] IN
    /\ p.phase = "fold" /\ r \in Lanes
    /\ position # None /\ position.opened = p.opened /\ Progress(r) = p.expects
    /\ \E k \in (p.expects + 1)..p.through :
          /\ position' = [position EXCEPT !.checkpoint = Advanced(r, k)]
          /\ pass' = [pass EXCEPT ![r] = IF k = p.through THEN NoPass
                                        ELSE [p EXCEPT !.expects = k]]
    /\ UNCHANGED <<time, revised, arriving, rows, clock, cursor>>

ClosePosition ==
    /\ position # None
    /\ position' = None
    /\ UNCHANGED <<time, revised, arriving, rows, clock, cursor, pass>>

(* A request fails, a transaction is refused, a worker stops.              *)
GiveUp(r) ==
    /\ pass[r].phase # "none"
    /\ pass' = [pass EXCEPT ![r] = NoPass]
    /\ UNCHANGED <<time, revised, arriving, rows, clock, cursor, position>>

Reader(r) == \/ r \in Loops /\ ReadCycle(r)
             \/ r \in Lanes /\ ReadPosition(r)
             \/ Reread(r) \/ ReadRevision(r) \/ Restore(r)
             \/ CommitCycle(r) \/ CommitPosition(r) \/ GiveUp(r)

HistoryNext ==
    \/ CloseCandle \/ PollCandles \/ OpenPosition \/ ClosePosition
    \/ \E c \in Candles : Revise(c)
    \/ clock < MaxWrites /\ SaveArrived
    \/ \E r \in Readers : Reader(r) \/ (clock < MaxWrites /\ Backfill(r))

-----------------------------------------------------------------------------
(* A fold for which nothing has been stored since the rows were read.      *)
Undisturbed(r) == pass[r].phase = "fold" /\ pass[r].readAt = clock

(* A fold that nothing disturbed has the data set's closes and, since then, *)
(* the store's, however rows were revised, saved late or read by pieces    *)
(* before: a revision is found by its time or in the tail and everything   *)
(* is read again.  Left out are candles known to be missed for good.  No   *)
(* signal is dated before an input of it was known (restoreRevisedIndicators, *)
(* signalAvailabilityTimes, saveCandles).                                  *)
IndicatorsAgree ==
    \A r \in Readers : Undisturbed(r) =>
        LET done == Advanced(r, pass[r].through)
        IN  /\ \A c \in 1..SeededThrough : done.folded[c] = Snapshot[c]
            /\ \A c \in (SeededThrough + 1)..At(done) \ pass[r].start.missed :
                  /\ done.folded[c] = rows[c].close
                  /\ KnownFrom(rows[c]) <= done.availableAt

(* What the plan of the improvements says of the same code: a change after *)
(* the seed is taken into account, outside the tail as well.  So a row     *)
(* older than the tail that a checkpoint has not as it is was revised      *)
(* after the revision the checkpoint remembers.                            *)
Noticeable(checkpoint) ==
    \A c \in (SeededThrough + 1)..At(checkpoint) \ TailOf(checkpoint) :
        \/ checkpoint.folded[c] = rows[c].close
        \/ rows[c].revisedAt > checkpoint.revision
RevisionsNoticed ==
    /\ cursor # None => Noticeable(cursor.checkpoint)
    /\ position # None => Noticeable(position.checkpoint)
=============================================================================
