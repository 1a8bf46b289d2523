--------------------------- MODULE PositionPricing ---------------------------
(***************************************************************************)
(* The prices of one open position.  The exchange's tape is complete; the  *)
(* journal misses trades while its stream is interrupted, and a new stream *)
(* begins with the next trade it keeps.  The quote lane replays the        *)
(* journal event by event; at a new stream it reconstructs the gap from    *)
(* the exchange's recent trades or from minute candles, and where these    *)
(* do not decide what happened it leaves the position at the quote         *)
(* ("recovery-exit").  Meanwhile the protection lane may close it at an    *)
(* event that the quote lane has not reached.                              *)
(* runtime-price-processor.ts, causal-recovery.ts, runtime-recovery.ts,    *)
(* runtime-priority-exit.ts, runtime-protection-watch.ts, worker.ts.       *)
(***************************************************************************)
EXTENDS ExecutionEngine, Sequences, Folds

CONSTANTS Prices, EntryPrice,
          MinuteLength,    \* a minute, in the units of the times
          MaxTrades,       \* a bound on the tape
          MaxTime          \* a bound on their times

\* trailingStopPercent is at most 100.
PricingAssumption ==
  /\ EngineAssumption
  /\ Prices \subseteq Nat /\ {EntryPrice, MaxTrades, MaxTime} \subseteq Nat
  /\ MinuteLength \in Nat \ {0}
  /\ TrailDistance <= EntryPrice

ASSUME PricesAreTicks == PricingAssumption

(* tape[i] is a trade [at, price, stream]: i is its event id in the        *)
(* journal, stream 0 says the journal missed it.  A checkpoint is          *)
(* [p, exit, through, event, stream]; `saved` is the one stored with the   *)
(* position, and runtimeVersion tells it from every other.                 *)
VARIABLES tape, recoveryModel, saved, work
pricingVars == <<tape, recoveryModel, saved, work>>

Events == {i \in DOMAIN tape : tape[i].stream # 0}
Open == saved.exit = NoExit

\* An entry in the middle of a minute.
Entered == [p |-> OpenPosition([side |-> "long", price |-> EntryPrice + LimitOffset],
                               [open |-> EntryPrice], 1, 1),
            exit |-> NoExit, through |-> 1, event |-> 2, stream |-> 1]

NoWork == [step |-> "idle"]

PricingInit ==
  /\ \E before \in Prices :
        tape = <<[at |-> 0, price |-> before, stream |-> 1],
                 [at |-> 1, price |-> EntryPrice, stream |-> 1]>>
  /\ recoveryModel \in {"strict", "legacy"}
  /\ saved = Entered
  /\ work = NoWork

-----------------------------------------------------------------------------
(* The tape, in the order of its times, for as long as the position is     *)
(* open.                                                                   *)
Trade(price, at, how) ==
  LET last == tape[Len(tape)]
      stream == Max({tape[i].stream : i \in DOMAIN tape})
  IN  /\ Open /\ Len(tape) < MaxTrades /\ at >= last.at
      /\ how = "kept" => last.stream # 0
      /\ tape' = Append(tape,
            [at |-> at, price |-> price,
             stream |-> CASE how = "missed" -> 0 [] how = "kept" -> stream
                          [] how = "reconnected" -> stream + 1])
      /\ UNCHANGED <<recoveryModel, saved, work>>

-----------------------------------------------------------------------------
(* The replay of events, one by one.                                       *)

EventExit(p, i, now) ==
  First(PriceExit(p, tape[i].price), HoldingExit(p, tape[i].price, now))

Reprice(s, i) ==
  LET now == Max({tape[i].at, s.through})
      exit == EventExit(s.p, i, now)
  IN  IF s.exit # NoExit THEN s
      ELSE [p |-> IF exit = NoExit THEN Protected(s.p, tape[i].price) ELSE s.p,
            exit |-> exit, through |-> now, event |-> i, stream |-> tape[i].stream]

\* What becomes of r when the numbers are taken one by one, the least first.
InOrder(step(_, _), r, numbers) ==
  MapThenFoldSet(LAMBDA n, q : step(q, n), r, LAMBDA n : n, LAMBDA S : Max(S), numbers)

Repriced(s, trades) == InOrder(Reprice, s, trades)

Leaving(s, i, exit, now) ==
  [s EXCEPT !.exit = exit, !.through = now, !.event = i, !.stream = tape[i].stream]

\* Events at which a position would leave with the protection it has now.
Leaves(s, events) ==
  {i \in events : /\ tape[i].at >= s.through /\ tape[i].at >= s.p.openedAt
                  /\ EventExit(s.p, i, tape[i].at) # NoExit}

FirstLeaving(s, events) ==
  LET i == Min(Leaves(s, events))
  IN  Leaving(s, i, EventExit(s.p, i, tape[i].at), tape[i].at)

-----------------------------------------------------------------------------
(* recoverCausalRuntimeGap: what a gap between the position at s and event *)
(* e allows to say.  A judgement is [p, sure].                             *)

TradesAt(at) == {i \in DOMAIN tape : tape[i].at = at}
HighOf(trades) == Max({tape[i].price : i \in trades})
LowOf(trades) == Min({tape[i].price : i \in trades})
QuoteTime(s, e) == Max({tape[e].at, s.through})
Unsure(r) == [r EXCEPT !.sure = FALSE]

\* selectRecoveryTrades: both ends found, and no other price at their times.
Covered(s, e) ==
  /\ tape[s.event].at = s.through /\ tape[e].at = QuoteTime(s, e)
  /\ \A i \in TradesAt(s.through) : tape[i].price = tape[s.event].price
  /\ \A i \in TradesAt(tape[e].at) : tape[i].price = tape[e].price

AnyExit(p, trades) == \E i \in trades : PriceExit(p, tape[i].price) # NoExit

ThroughGroup(r, at) ==
  LET group == TradesAt(at)
      moved == Protected(r.p, IF r.p.side = "long" THEN HighOf(group) ELSE LowOf(group))
  IN  IF ~r.sure \/ AnyExit(r.p, group) \/ AnyExit(moved, group)
      THEN Unsure(r) ELSE [r EXCEPT !.p = moved]

ByTrades(s, e) ==
  InOrder(ThroughGroup, [p |-> s.p, sure |-> TRUE],
          {at \in {tape[i].at : i \in DOMAIN tape} : at > s.through /\ at < tape[e].at})

\* The exchange's candle of minute k; flat when nothing traded.
Minute(k) ==
  LET inside == {i \in DOMAIN tape : tape[i].at \div MinuteLength = k}
      before == tape[Max({i \in DOMAIN tape : tape[i].at < k * MinuteLength})].price
  IN  IF inside = {} THEN [open |-> before, high |-> before, low |-> before, close |-> before]
      ELSE [open |-> tape[Min(inside)].price, close |-> tape[Max(inside)].price,
            high |-> HighOf(inside), low |-> LowOf(inside)]

BestOf(p, c) == IF p.side = "long" THEN c.high ELSE c.low
WorstOf(p, c) == IF p.side = "long" THEN c.low ELSE c.high

CandleExit(p, c) ==
  First(AdverseExit(p, c),
        IF Better(p.side, BestOf(p, c), p.take) >= 0
        THEN [at |-> p.take, reason |-> "take-profit"] ELSE NoExit)

Changed(p, q) == q.stop # p.stop \/ q.trailing # p.trailing

\* A minute the position was not held in from its start on only bounds.
ThroughPartial_Adopted(r, q) == [r EXCEPT !.p = q]
ThroughPartial(r, q) == IF Changed(r.p, q) THEN Unsure(r) ELSE r

ThroughMinute(r, k, since, until) ==
  LET c == Minute(k)
      q == Protected(r.p, BestOf(r.p, c))
  IN  IF ~r.sure \/ (k + 1) * MinuteLength > until \/ CandleExit(r.p, c) # NoExit
      THEN Unsure(r)
      ELSE IF k * MinuteLength < since THEN ThroughPartial(r, q)
      ELSE IF PriceExit(q, WorstOf(q, c)) # NoExit THEN Unsure(r)
      ELSE [r EXCEPT !.p = Protected(q, c.close)]

\* recoverRuntimeGap: positions that pinned no recovery model.
ThroughLegacyMinute(r, k, since, until) ==
  LET c == Minute(k)
      complete == k * MinuteLength >= since /\ (k + 1) * MinuteLength <= until
      q == Protect(r.p, BestOf(r.p, c), BreakEvenMove, TrailMove, TrailDistance, FALSE)
  IN  IF \/ ~r.sure \/ CandleExit(r.p, c) # NoExit
         \/ ~complete /\ Changed(r.p, q)
         \/ PriceExit(q, WorstOf(q, c)) # NoExit
      THEN Unsure(r)
      ELSE IF complete THEN [r EXCEPT !.p = q] ELSE r

ByMinutes(s, e) ==
  LET until == QuoteTime(s, e)
      through(r, k) == IF recoveryModel = "strict"
                       THEN ThroughMinute(r, k, s.through, until)
                       ELSE ThroughLegacyMinute(r, k, s.through, until)
  IN  IF until = s.through THEN [p |-> s.p, sure |-> recoveryModel = "legacy"]
      ELSE InOrder(through, [p |-> s.p, sure |-> TRUE],
                   (s.through \div MinuteLength)..((until - 1) \div MinuteLength))

-----------------------------------------------------------------------------
(* The quote lane: processRealtimePosition, processRuntimePriceEvents.     *)

\* persistRealtimeQuote: refused when the position is not the one read.
Checkpoint(s, of) == saved' = IF saved = of THEN s ELSE saved

Load ==
  /\ work.step = "idle" /\ Open
  /\ \E upto \in {i \in Events : i > saved.event} :
        \E latest \in {0} \cup {i \in {Max(Events)} : i > upto} :
          work' = [step |-> "run", s |-> saved, confirmed |-> saved,
                   base |-> saved.event, upto |-> upto, latest |-> latest]
  /\ UNCHANGED <<tape, recoveryModel, saved>>

Todo == {i \in Events : i > work.s.event /\ i <= work.upto}
Foreign == {i \in Todo : tape[i].stream # work.s.stream}
OfStream == {i \in Todo : \A f \in Foreign : i < f}

\* Events from the new stream on, and the latest one if it is fresh and
\* beyond the page that was loaded.
Candidates ==
  (Todo \ OfStream) \cup ({work.latest} \ {0})

\* All events are of the known stream, or one of them ends the position.
ProcessStream(s) ==
  /\ Foreign = {} \/ s.exit # NoExit
  /\ Checkpoint(s, work.confirmed)
  /\ work' = NoWork

\* A new stream, whose prices end the position as it is.
ProtectJournal(s) ==
  /\ Foreign # {} /\ s.exit = NoExit /\ Leaves(s, Candidates) # {}
  /\ Checkpoint(FirstLeaving(s, Candidates), work.confirmed)
  /\ work' = NoWork

\* A new stream: the known prefix is stored before history is awaited.
AwaitHistory(s) ==
  LET fresh == s # work.confirmed
  IN  /\ Foreign # {} /\ s.exit = NoExit /\ Leaves(s, Candidates) = {}
      /\ fresh => Checkpoint(s, work.confirmed)
      /\ ~fresh => UNCHANGED saved
      /\ work' = IF fresh /\ saved # work.confirmed THEN NoWork
                 ELSE [work EXCEPT !.step = "waiting", !.s = s, !.confirmed = s]

Advance ==
  /\ work.step = "run"
  /\ LET s == Repriced(work.s, OfStream)
     IN  ProcessStream(s) \/ ProtectJournal(s) \/ AwaitHistory(s)
  /\ UNCHANGED <<tape, recoveryModel>>

\* The gap is judged and the first event of the new stream processed.
Recover ==
  /\ work.step = "waiting"
  /\ LET e == Min(Foreign)
     IN  \E r \in {ByMinutes(work.s, e)}
                    \cup (IF Covered(work.s, e) THEN {ByTrades(work.s, e)} ELSE {}) :
           LET s == IF r.sure THEN Reprice([work.s EXCEPT !.p = r.p], e)
                    ELSE Leaving(work.s, e, [at |-> tape[e].price, reason |-> "recovery-exit"],
                                 QuoteTime(work.s, e))
           IN  IF s.exit # NoExit
               THEN Checkpoint(s, work.confirmed) /\ work' = NoWork
               ELSE UNCHANGED saved /\ work' = [work EXCEPT !.step = "run", !.s = s]
  /\ UNCHANGED <<tape, recoveryModel>>

\* A deadline, incomplete history, an interrupted wait, a crash.
GiveUp ==
  /\ work.step # "idle" /\ work' = NoWork
  /\ UNCHANGED <<tape, recoveryModel, saved>>

-----------------------------------------------------------------------------
(* The protection lane: protectWaitingPosition of a position that waits    *)
(* for history, with the events since the lane loaded it, or of one of the *)
(* list whose stream is not the latest one or that is overdue.             *)

\* The clock is past the end of the tape, nobody knows how far.
Overdue == HoldingTime # 0

PriorityExit(s, base) ==
  LET latest == Max(Events)
      found == Leaves(s, {i \in Events : i > base})
  IN  /\ saved = s /\ Open
      /\ latest > base /\ tape[latest].at >= s.through
      /\ found # {} /\ Min(found) >= s.event
      /\ saved' = FirstLeaving(s, found)
      /\ UNCHANGED <<tape, recoveryModel>>

ProtectWaiting ==
  /\ work.step = "waiting"
  /\ PriorityExit(work.confirmed, work.base)
  /\ work' = NoWork

ProtectListed ==
  /\ \/ Overdue \/ work.step = "waiting"
     \/ tape[Max(Events)].stream # saved.stream
  /\ PriorityExit(saved, saved.event)
  /\ UNCHANGED work

PricingNext ==
  \/ \E price \in Prices, at \in 1..MaxTime, how \in {"kept", "missed", "reconnected"} :
        Trade(price, at, how)
  \/ Load \/ Advance \/ Recover \/ GiveUp
  \/ ProtectWaiting \/ ProtectListed

PricingSpec == PricingInit /\ [][PricingNext]_pricingVars

-----------------------------------------------------------------------------
(* What the position would be had every trade of the tape but those left   *)
(* out been processed when it came.  Only a missed trade of the very time  *)
(* at which the next stream begins may be left out: the code says of such  *)
(* trades that nothing orders them, and a later candle that begins at that *)
(* time may still show them.                                               *)
Unordered(i) ==
  /\ i \notin Events
  /\ \E e \in Events : /\ e > i /\ tape[e].at = tape[i].at
                       /\ \A f \in Events : f > i => f >= e

OnTape(n, left) == Repriced(Entered, (3..n) \ left)

(* A position that is open has not missed an exit, and its stop and        *)
(* trailing stop are where the whole tape puts them, although trades were  *)
(* missed, the gap was reconstructed from candles that begin before and    *)
(* end after it, batches were given up and repeated, and another lane took *)
(* part; and one that was closed for a reason of its own, not because a    *)
(* gap was undecided, would be closed by then on the whole tape too        *)
(* (processRuntimePriceEvents, recoverCausalRuntimeGap).                   *)
PricedAsTape ==
  \E left \in SUBSET {i \in 3..saved.event : Unordered(i)} :
    LET t == OnTape(saved.event, left)
    IN  IF Open THEN t.exit = NoExit /\ ~Changed(saved.p, t.p)
        ELSE saved.exit.reason # "recovery-exit" => t.exit # NoExit
=============================================================================
