---------------------------- MODULE DecisionReplay ----------------------------
(***************************************************************************)
(* The decisions that the candle loop of a run records, the shadow         *)
(* providers that are asked about the same context, and the replay that    *)
(* says later how a recorded decision would have fared:                    *)
(* packages/application/src/decision-engine.ts, as apps/worker/src/        *)
(* worker.ts feeds it and persistence/src/decision-repository.ts keeps it. *)
(*                                                                         *)
(* A candle is named by its openTime; some may be missing.  A decision is  *)
(* made at any time after the candle it evaluates has closed, so within a  *)
(* candle that is still open.  Percentages of the entry price are          *)
(* distances from it, and the indicators of a frame are left out.          *)
(***************************************************************************)
EXTENDS Integers, Sequences, FiniteSetsExt

CONSTANTS
  OpenTimes,     \* openTime of every candle the market may have
  Shapes,        \* [open, high, low, close] of a candle
  Interval,      \* intervalMs
  FrameSize,     \* maxCandles of a frame
  MemorySize,    \* defaultDecisionMemoryLimit
  Horizon,       \* horizonCandles, or the fallback of 12
  StopAway, TakeAway,    \* stopLossPercent and takeProfitPercent of the candidate
  Providers,     \* shadow providers
  MaxTime,       \* bound: the clock
  MaxDecisions   \* bound: recorded decisions

DecisionAssumption ==
  /\ OpenTimes \subseteq Nat /\ IsFiniteSet(OpenTimes)
  /\ Shapes \subseteq [open : Int, high : Int, low : Int, close : Int]
  /\ {Interval, FrameSize, MemorySize, Horizon, StopAway, TakeAway} \subseteq Nat \ {0}
  /\ MaxTime \in Nat /\ MaxDecisions \in Nat

VARIABLES
  now,        \* the clock
  market,     \* the candles by openTime; those that are closed are stored
  decisions,  \* Decision rows with their context snapshot and candidate
  shadow,     \* answer of a provider about the latest decision
  shadowRows  \* Decision rows of mode SHADOW

decisionVars == <<now, market, decisions, shadow, shadowRows>>
Sides == {"long", "short", "none"}
Unasked == [status |-> "unasked", aborted |-> FALSE]

DecisionInit ==
  /\ now = 0
  /\ market \in UNION {[stored -> Shapes] : stored \in SUBSET OpenTimes}
  /\ decisions = <<>>
  /\ shadow = [p \in Providers |-> Unasked]
  /\ shadowRows = {}

-----------------------------------------------------------------------------
(***************************************************************************)
(* What a decision sees and what it is judged by.                          *)
(***************************************************************************)
Closed(at) == {t \in DOMAIN market : t + Interval <= at}

(* buildDecisionMarketFrame: the latest candles that are closed.           *)
Frame(at) == {t \in Closed(at) : Cardinality({k \in Closed(at) : k > t}) < FrameSize}

(* evaluateRecordedDecisionCandidate: the first candles that opened with   *)
(* the decision or later and were closed at `asOf`.                        *)
Later(d, asOf) == {t \in Closed(asOf) : t >= d.availableAt}
Judged_Latest(d, asOf) ==
  {t \in Later(d, asOf) : Cardinality({k \in Later(d, asOf) : k > t}) < Horizon}
Judged(d, asOf) ==
  {t \in Later(d, asOf) : Cardinality({k \in Later(d, asOf) : k < t}) < Horizon}

Signed(d, change) == IF d.side = "long" THEN change ELSE -change
Favorable(d, t) == IF d.side = "long" THEN market[t].high ELSE market[t].low
Adverse(d, t) == IF d.side = "long" THEN market[t].low ELSE market[t].high

StopTouched(d, entry, t) == Signed(d, Adverse(d, t) - entry) <= -StopAway
TakeTouched(d, entry, t) == Signed(d, Favorable(d, t) - entry) >= TakeAway

Unfinished(status) ==
  [status |-> status, reason |-> "none", gain |-> 0, observed |-> {}]

(* The stop is looked at first in every candle; the candles observed end   *)
(* with the one that decides.                                              *)
Replay(d, asOf) ==
  LET judged == Judged(d, asOf)
      entry == market[Min(judged)].open
      hits == {t \in judged : StopTouched(d, entry, t) \/ TakeTouched(d, entry, t)}
      last == IF hits = {} THEN Max(judged) ELSE Min(hits)
      observed == {t \in judged : t <= last}
      reason == IF hits = {} THEN "horizon"
                ELSE IF StopTouched(d, entry, last) THEN "stop-loss" ELSE "take-profit"
  IN IF d.side = "none" THEN Unfinished("no-trade")
     ELSE IF judged = {} \/ (hits = {} /\ Cardinality(judged) # Horizon)
     THEN [Unfinished("insufficient-data") EXCEPT !.observed = judged]
     ELSE [status |-> "completed", reason |-> reason, observed |-> observed,
           gain |-> CASE reason = "stop-loss" -> -StopAway
                      [] reason = "take-profit" -> TakeAway
                      [] reason = "horizon" -> Signed(d, market[last].close - entry)]

-----------------------------------------------------------------------------
Tick ==
  /\ now < MaxTime
  /\ now' = now + 1
  /\ UNCHANGED <<market, decisions, shadow, shadowRows>>

(* processRuntimeTarget on the latest closed candle: the context, the      *)
(* candidate of the rules and the memory are stored with the decision.     *)
Evaluated == IF decisions = <<>> THEN -1 ELSE decisions[Len(decisions)].candle
Memory == {i \in 1..Len(decisions) : i > Len(decisions) - MemorySize}

Decide(side, allowed) ==
  /\ Len(decisions) < MaxDecisions
  /\ Closed(now) # {}
  /\ Max(Closed(now)) > Evaluated
  /\ decisions' = Append(decisions,
       [candle |-> Max(Closed(now)), availableAt |-> now, side |-> side, allowed |-> allowed,
        frame |-> Frame(now), memory |-> Memory, validUntil |-> now + Interval])
  /\ shadow' = [p \in Providers |-> Unasked]
  /\ UNCHANGED <<now, market, shadowRows>>

(* runShadowDecisionProviders: all are asked about one context; a timer    *)
(* aborts the signal of each, which a provider may ignore.  `readAt` is    *)
(* the time at which the answers are validated: the one of the question.   *)
LastDecision == decisions[Len(decisions)]
Ask ==
  /\ decisions # <<>>
  /\ \A p \in Providers : shadow[p].status # "asked"
  /\ shadow' = [p \in Providers |-> [status |-> "asked", aborted |-> FALSE, readAt |-> now]]
  /\ UNCHANGED <<now, market, decisions, shadowRows>>

AbortSignal(p) ==
  /\ shadow[p].status = "asked" /\ ~shadow[p].aborted
  /\ shadow' = [shadow EXCEPT ![p].aborted = TRUE]
  /\ UNCHANGED <<now, market, decisions, shadowRows>>

(* validateDecisionCandidate of a candidate whose numbers and texts are    *)
(* within their ranges or not, with a side and an end of its own.          *)
Admissible(side, sound, validUntil, readAt) ==
  /\ sound
  /\ validUntil >= readAt
  /\ side # "none" => LastDecision.allowed

Settle(p, side, sound, validUntil) ==
  /\ shadow[p].status = "asked"
  /\ shadow' = [shadow EXCEPT ![p] =
       [status |-> IF Admissible(side, sound, validUntil, @.readAt) THEN "accepted" ELSE "rejected",
        aborted |-> @.aborted, side |-> side]]
  /\ UNCHANGED <<now, market, decisions, shadowRows>>

Throw(p) ==
  /\ shadow[p].status = "asked"
  /\ shadow' = [shadow EXCEPT ![p] =
       [status |-> IF @.aborted THEN "timeout" ELSE "error", aborted |-> @.aborted]]
  /\ UNCHANGED <<now, market, decisions, shadowRows>>

(* persistShadowDecision: one row for a provider and a context, whatever   *)
(* it answers when it is asked again.                                      *)
RowOf(p) == {row \in shadowRows : row.decision = Len(decisions) /\ row.provider = p}
ShadowAction(answer) ==
  CASE answer.status \in {"error", "timeout"} -> "ERROR"
    [] answer.status = "rejected" -> "SKIP"
    [] answer.status = "accepted" -> IF answer.side = "none" THEN "HOLD" ELSE "OPEN"

Persist(p) ==
  /\ shadow[p].status \notin {"unasked", "asked"}
  /\ RowOf(p) = {}
  /\ shadowRows' = shadowRows \cup
       {[decision |-> Len(decisions), provider |-> p, action |-> ShadowAction(shadow[p])]}
  /\ UNCHANGED <<now, market, decisions, shadow>>

DecisionNext ==
  \/ Tick
  \/ \E side \in Sides, allowed \in BOOLEAN : Decide(side, allowed)
  \/ Ask
  \/ \E p \in Providers : AbortSignal(p) \/ Throw(p) \/ Persist(p)
  \/ \E p \in Providers, side \in Sides, sound \in BOOLEAN, validUntil \in {now - 1, now} :
       Settle(p, side, sound, validUntil)

DecisionSpec == DecisionInit /\ [][DecisionNext]_decisionVars

-----------------------------------------------------------------------------
(* Once the replay of a decision is complete, no candle that closes later  *)
(* changes it: whenever it is computed, it comes out the same.             *)
ReplayFinal ==
  \A i \in 1..Len(decisions) : \A asOf \in 0..now :
    Replay(decisions[i], asOf).status = "completed" =>
      Replay(decisions[i], now) = Replay(decisions[i], asOf)

(* A decision is not judged by anything it could see: no candle is both in *)
(* the replay and in the frame of the decision or of an earlier one that   *)
(* it remembers, and a candle that was open at the time is in none.        *)
Seen(d) == d.frame \cup UNION {decisions[j].frame : j \in d.memory}
JudgedUnseen ==
  \A i \in 1..Len(decisions) : \A t \in DOMAIN market :
    LET d == decisions[i] IN
    /\ t \in Judged(d, now) => t \notin Seen(d)
    /\ t < d.availableAt /\ d.availableAt < t + Interval =>
         t \notin Seen(d) /\ t \notin Judged(d, now)

(* A provider that is asked again about a context leaves one row, and none *)
(* that opens a position where the risk of its context allowed no entry.   *)
ShadowRowsSound ==
  \A row \in shadowRows :
    /\ row.action = "OPEN" => decisions[row.decision].allowed
    /\ \A other \in shadowRows :
         other.decision = row.decision /\ other.provider = row.provider => other = row
=============================================================================
