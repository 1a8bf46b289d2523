----------------------------- MODULE HealthWatch -----------------------------
(***************************************************************************)
(* The watchdogs: each worker runs one.  A pass reads what the system      *)
(* knows about itself with many statements, none of which waits for the    *)
(* others, turns it into conditions and brings the table of incidents in   *)
(* line with them in one transaction.  Two passes of two workers overlap   *)
(* while the facts go on changing.                                         *)
(*                                                                         *)
(* An age is told apart only by whether it exceeds its threshold: "late".  *)
(***************************************************************************)
EXTENDS Integers, FiniteSets

CONSTANTS Watchers,
          Healthy,        \* the facts of a system in order, per source
          Troubles,       \* Troubles[source]: what may be read there besides
          Null,           \* a delta against a baseline that has no value
          MaxEvent        \* a bound on changes of the facts and on failures

VARIABLES facts, watcher, incident, events
healthVars == <<facts, watcher, incident, events>>

-----------------------------------------------------------------------------
(* evaluateHealth.                                                         *)

When(test, fingerprint, domain, severity) ==
    IF test THEN {[at |-> fingerprint, domain |-> domain, severity |-> severity]} ELSE {}

(* A market is "fresh", "stale" or "closed": not enabled or not Trading.   *)
MarketsThat(f, state) == {s \in DOMAIN f.markets : f.markets[s] = state}

MarketConditions(f) ==
    When(DOMAIN f.markets = {}, <<"catalog-empty">>, "market-data", "critical")
      \cup When(MarketsThat(f, "closed") # {}, <<"instrument-status">>, "market-data", "critical")
      \cup When(MarketsThat(f, "stale") # {}, <<"freshness">>, "market-data",
                IF MarketsThat(f, "fresh") = {} THEN "critical" ELSE "warning")

ServiceConditions(f) ==
    When(f.worker = "late", <<"heartbeat">>, "worker", "critical")
      \cup When(f.account = "late", <<"snapshot">>, "account", "warning")
      \cup When(f.queue = "late", <<"lag">>, "queue", "warning")
      \cup When(f.jobs = "failed", <<"failed">>, "queue", "warning")
      \cup When(f.orders = "rejected", <<"rejected">>, "execution", "critical")
      \cup When(f.outbox = "late", <<"outbox">>, "outbox", "warning")

(* Consecutive failures per runtime cursor.                                *)
CursorConditions(f) ==
    UNION {When(f.failures[c] > 0, <<"runtime", c>>, "execution",
                IF f.failures[c] >= 3 THEN "critical" ELSE "warning") :
             c \in DOMAIN f.failures}

(* An open position: its holding deadline passed, its price is old, events *)
(* wait for it, its stream is not the latest one.                          *)
PositionConditions(f) ==
    UNION {    When(p.overdue, <<"deadline", p.id>>, "execution", "critical")
          \cup When(p.price = "late", <<"price", p.symbol>>, "execution", "warning")
          \cup When(p.pending = "late", <<"backlog", p.id>>, "execution", "critical")
          \cup When(~p.streamMatches, <<"stream", p.id>>, "execution", "critical") :
             p \in f.positions}

ConnectionConditions(f) ==
    UNION {    When(c.status = "INVALID", <<"invalid", c.id>>, "exchange-private",
                    IF c.deployed THEN "critical" ELSE "warning")
          \cup When(c.status = "ACTIVE" /\ c.code # "VERIFIED", <<"retry", c.id>>,
                    "exchange-private", "warning")
          \cup When(c.status = "ACTIVE" /\ c.code = "VERIFIED" /\ c.next = "late",
                    <<"overdue", c.id>>, "exchange-private", "warning") :
             c \in f.connections}

MinimumSample == 20
Fell(delta, by) == delta # Null /\ delta <= -by

DriftStatus(d) ==
    IF ~d.comparable THEN "incomparable"
    ELSE IF d.trades < MinimumSample THEN "insufficient-data"
    ELSE IF \/ d.winRate <= -20 \/ Fell(d.expectancy, 50) \/ Fell(d.profitFactor, 50)
            \/ d.lossMaking
         THEN "critical"
    ELSE IF \/ d.winRate <= -10 \/ Fell(d.expectancy, 30) \/ Fell(d.profitFactor, 30)
            \/ d.drawdown >= 5
         THEN "warning" ELSE "within-range"

Drifting(f, status) == {d \in f.drift : DriftStatus(d) = status}

DriftConditions(f) ==
    UNION {When(DriftStatus(d) \in {"warning", "critical"}, <<"drift", d.run>>, "drift",
                DriftStatus(d)) : d \in f.drift}

Conditions(f) ==
    MarketConditions(f) \cup ServiceConditions(f) \cup CursorConditions(f)
      \cup PositionConditions(f) \cup ConnectionConditions(f) \cup DriftConditions(f)

Domains == {"worker", "market-data", "exchange", "exchange-private", "account",
            "queue", "execution", "outbox", "drift"}

(* A slip: the order of the two tests is swapped.                          *)
Level_AnyFirst(severities) ==
    IF severities # {} THEN "degraded"
    ELSE IF "critical" \in severities THEN "critical" ELSE "healthy"
Level(severities) ==
    IF "critical" \in severities THEN "critical"
    ELSE IF severities # {} THEN "degraded" ELSE "healthy"

ExchangeLevel(f) ==
    LET stale == MarketsThat(f, "stale")
    IN  IF DOMAIN f.markets = {} THEN "unknown"
        ELSE IF stale = DOMAIN f.markets THEN "critical"
        ELSE IF stale # {} THEN "degraded" ELSE "healthy"

DriftLevel(f) ==
    IF Drifting(f, "critical") # {} THEN "critical"
    ELSE IF Drifting(f, "warning") # {} THEN "degraded"
    ELSE IF Drifting(f, "within-range") = {} THEN "unknown" ELSE "healthy"

DomainLevel(d, f) ==
    CASE d = "exchange" -> ExchangeLevel(f)
      [] d = "drift" -> DriftLevel(f)
      [] OTHER -> Level({c.severity : c \in {x \in Conditions(f) : x.domain = d}})

OverallLevel(f) ==
    LET levels == {DomainLevel(d, f) : d \in Domains}
    IN  IF "critical" \in levels THEN "critical"
        ELSE IF "degraded" \in levels THEN "degraded" ELSE "healthy"

-----------------------------------------------------------------------------
(* The table of incidents: a row per fingerprint that ever occurred.       *)

At(conditions) == {c.at : c \in conditions}
Rows == DOMAIN incident
OpenRows == {r \in Rows : incident[r].status = "OPEN"}

Idle == [step |-> "idle", seen |-> Healthy, found |-> {}]

HealthInit ==
    /\ facts = Healthy
    /\ watcher = [w \in Watchers |-> Idle]
    /\ incident = [r \in {} |-> Idle]
    /\ events = 0

(* Something gets worse or better.  The statements of a pass under way     *)
(* have read this source already or read it later.                         *)
Change(source, value) ==
    /\ events < MaxEvent /\ events' = events + 1
    /\ value # facts[source]
    /\ facts' = [facts EXCEPT ![source] = value]
    /\ \E late \in SUBSET {w \in Watchers : watcher[w].step = "reading"} :
           watcher' = [w \in Watchers |->
                         IF w \in late THEN [watcher[w] EXCEPT !.seen[source] = value]
                         ELSE watcher[w]]
    /\ UNCHANGED incident

(* watchdogLoop, getSignals.                                               *)
GetSignals(w) ==
    /\ watcher[w].step = "idle"
    /\ watcher' = [watcher EXCEPT ![w] = [Idle EXCEPT !.step = "reading", !.seen = facts]]
    /\ UNCHANGED <<facts, incident, events>>

(* syncIncidents, first half.  The rows written stay locked, and a new row *)
(* with the same fingerprint waits too.                                    *)
Locked(w) == UNION {At(watcher[u].found) : u \in Watchers \ {w}}

Upsert(w) ==
    LET found == Conditions(watcher[w].seen)
    IN  /\ watcher[w].step = "reading"
        /\ At(found) \cap Locked(w) = {}
        /\ watcher' = [watcher EXCEPT ![w].step = "writing", ![w].found = found]
        /\ UNCHANGED <<facts, incident, events>>

(* What the second half resolves: open rows that were not found.  A row    *)
(* another transaction has inserted and not committed is not there yet.    *)
(* A slip: a pass without conditions leaves the table alone.               *)
Gone_UnlessEmpty(w) ==
    IF watcher[w].found = {} THEN {} ELSE OpenRows \ At(watcher[w].found)
Gone(w) == OpenRows \ At(watcher[w].found)

AfterFinding(row, c) ==
    [status |-> "OPEN", severity |-> c.severity,
     episodes |-> IF row.status = "RESOLVED" THEN row.episodes + 1 ELSE row.episodes]

Unheard == [status |-> "OPEN", severity |-> "warning", episodes |-> 1]

Resolve(w) ==
    /\ watcher[w].step = "writing"
    /\ Gone(w) \cap Locked(w) = {}
    /\ incident' = [r \in Rows \cup At(watcher[w].found) |->
          IF r \in At(watcher[w].found)
          THEN AfterFinding(IF r \in Rows THEN incident[r] ELSE Unheard,
                            CHOOSE c \in watcher[w].found : c.at = r)
          ELSE IF r \in Gone(w) THEN [incident[r] EXCEPT !.status = "RESOLVED"]
          ELSE incident[r]]
    /\ watcher' = [watcher EXCEPT ![w] = Idle]
    /\ UNCHANGED <<facts, events>>

(* Two transactions wait for rows of each other: the database ends one.    *)
Victim(w) ==
    /\ watcher[w].step = "writing"
    /\ \E u \in Watchers \ {w} :
          /\ watcher[u].step = "writing"
          /\ Gone(w) \cap At(watcher[u].found) # {}
          /\ Gone(u) \cap At(watcher[w].found) # {}
    /\ watcher' = [watcher EXCEPT ![w] = Idle]
    /\ UNCHANGED <<facts, incident, events>>

(* A pass that fails is logged; the loop goes on after its delay.          *)
Fail(w) ==
    /\ events < MaxEvent /\ events' = events + 1
    /\ watcher[w].step # "idle"
    /\ watcher' = [watcher EXCEPT ![w] = Idle]
    /\ UNCHANGED <<facts, incident>>

Pass(w) == GetSignals(w) \/ Upsert(w) \/ Resolve(w) \/ Victim(w)

HealthNext ==
    \/ \E source \in DOMAIN Troubles :
          \E value \in Troubles[source] \cup {Healthy[source]} : Change(source, value)
    \/ \E w \in Watchers : Pass(w) \/ Fail(w)

(* The loop of each worker goes on.                                        *)
HealthFairness == \A w \in Watchers : WF_healthVars(Pass(w))

(* GET /health: the present conditions, each with what its row says of it, *)
(* and the rows of incidents that are over.                                *)
HealthPage ==
    [overall |-> OverallLevel(facts),
     active |-> {[at |-> c.at,
                  severity |-> IF c.at \in Rows THEN incident[c.at].severity ELSE c.severity] :
                   c \in Conditions(facts)},
     resolved |-> Rows \ OpenRows]

-----------------------------------------------------------------------------
(* When the facts stay what they are, the open incidents become exactly    *)
(* the present conditions and stay so, whatever passes overlapped, failed  *)
(* or were ended before; the health page then shows no incident both as    *)
(* present and as over, and the worst one it shows is the state it shows   *)
(* of the whole system (syncIncidents, evaluateHealth).  Changes and       *)
(* failures end because of MaxEvent.                                       *)
IncidentsFollow ==
    <>[](LET page == HealthPage
         IN  /\ OpenRows = At(Conditions(facts))
             /\ At(page.active) \cap page.resolved = {}
             /\ Level({i.severity : i \in page.active}) = page.overall)
=============================================================================
