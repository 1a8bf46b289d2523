------------------------------ MODULE MCControl ------------------------------
(* Small instances of DeploymentControl and, as a system of its own, of the   *)
(* watchdogs that look at all of it.  "part" keeps four questions apart:      *)
(* validation, versions and manual transitions from a draft that has been     *)
(* validated before, with workers that crash and lose leases; and connections,*)
(* deployments and the instrument loop from an approved strategy whose        *)
(* validations are over; and the market list with deployments on a verified   *)
(* connection; and the health, with two watchdogs and two changes or          *)
(* failures, while nothing else happens.                                      *)
EXTENDS DeploymentControl
CONSTANTS FirstWorker, FirstRun
VARIABLE part

VARIABLES facts, watcher, incident, events
healthVars == <<facts, watcher, incident, events>>
Watchdogs == {"first", "second"}

ConnectionFact(state, code, next, deployed) ==
    [id |-> "key", status |-> state, code |-> code, next |-> next, deployed |-> deployed]
PositionFact(id, overdue, price, pending, matches) ==
    [id |-> id, symbol |-> "btc", overdue |-> overdue, price |-> price,
     pending |-> pending, streamMatches |-> matches]
DriftFact(trades, comparable, winRate, expectancy, drawdown) ==
    [run |-> "run", trades |-> trades, comparable |-> comparable, winRate |-> winRate,
     expectancy |-> expectancy, profitFactor |-> Nothing, lossMaking |-> FALSE,
     drawdown |-> drawdown]

\* Everything in order, and what the watchdogs may find per source instead.
InOrder ==
    [worker |-> "fresh", markets |-> [s \in {"btc", "eth"} |-> "fresh"],
     account |-> "fresh", queue |-> "fresh", jobs |-> "done", orders |-> "filled",
     outbox |-> "fresh", failures |-> [c \in {"cursor"} |-> 0],
     positions |-> {PositionFact("a", FALSE, "fresh", "fresh", TRUE)},
     connections |-> {ConnectionFact("ACTIVE", "VERIFIED", "fresh", TRUE)},
     drift |-> {DriftFact(20, TRUE, 0, Nothing, 0)}]
Trouble ==
    [worker |-> {"late"}, jobs |-> {"failed"},
     markets |-> {[s \in {} |-> "fresh"], [s \in {"btc", "eth"} |-> "stale"],
                  [InOrder.markets EXCEPT !["btc"] = "stale"],
                  [InOrder.markets EXCEPT !["eth"] = "closed"]},
     failures |-> {[c \in {"cursor"} |-> 1], [c \in {"cursor"} |-> 3]},
     positions |-> {{}, {PositionFact("a", FALSE, "late", "fresh", TRUE),
                         PositionFact("b", TRUE, "late", "late", FALSE)}},
     connections |-> {{ConnectionFact("INVALID", "REFUSED", "fresh", FALSE)},
                      {ConnectionFact("ACTIVE", "TIMEOUT", "late", TRUE)}},
     drift |-> {{DriftFact(20, TRUE, -10, Nothing, 0)}, {DriftFact(20, TRUE, 0, -50, 5)},
                {DriftFact(19, TRUE, -30, Nothing, 9)},
                {DriftFact(30, FALSE, -30, Nothing, 9)}}]
Health == INSTANCE HealthWatch
            WITH Watchers <- Watchdogs, Healthy <- InOrder, Troubles <- Trouble,
                 Null <- Nothing, MaxEvent <- 2

Used == [dataset |-> 1, rules |-> 1, funding |-> 1, policy |-> FirstWorker]
Passed == [version |-> 1, state |-> "PASSED", pinned |-> Used, basis |-> Used,
           owner |-> Nothing, stale |-> FALSE, attempts |-> 1]

Verified == [state |-> "ACTIVE", revoked |-> FALSE, revision |-> 1,
             proven |-> 1, lease |-> Nothing]
ControlsAtRest ==
    /\ connection = [c \in Connections |-> IF part = "market" THEN Verified ELSE Nothing]
    /\ check = [p \in Checkers |-> NoCheck]
    /\ deployment = [d \in Deployments |-> Nothing]
    /\ transition = [t \in Transitions |-> NoTransition]
    /\ exchange = TRUE /\ instrument = TRUE
    /\ market = [listed |-> TRUE, removing |-> FALSE]
    /\ sync = [step |-> "sync", blocked |-> FALSE, affected |-> {}]

Research ==
    /\ part = "research" /\ ControlsAtRest
    /\ status = "DRAFT" /\ activeVersion = 0 /\ versions = 1
    /\ run = [r \in Runs |-> IF r = FirstRun THEN Passed ELSE Nothing]
    /\ worker = [w \in Workers |-> Idle]
    /\ feed = 1
Approved ==
    /\ part \in {"control", "market", "health"} /\ ControlsAtRest
    /\ status = "APPROVED" /\ activeVersion = 1 /\ versions = 1
    /\ run = [r \in Runs |-> Passed]
    /\ worker = [w \in Workers |-> IF w = FirstWorker THEN Idle
                                   ELSE [Idle EXCEPT !.step = "dead"]]
    /\ feed = MaxFeed

partVars == <<allVars, healthVars, part>>
ResearchOnly == UNCHANGED <<connection, check, deployment, exchange, instrument,
                           market, sync>>
MCControlNext ==
    /\ UNCHANGED part
    /\ \/ /\ part = "research" /\ ResearchOnly
          /\ \/ ValidationNext /\ UNCHANGED transition
             \/ \E t \in Transitions : TransitionRead(t) \/ TransitionCommit(t)
          /\ UNCHANGED healthVars
       \/ /\ part = "control" /\ ControlNext
          /\ UNCHANGED <<transition, market, healthVars>>
       \/ /\ part = "market" /\ ControlNext
          /\ UNCHANGED <<transition, connection, check, healthVars>>
       \/ /\ part = "health" /\ Health!HealthNext /\ UNCHANGED allVars

MCControlInit == (Research \/ Approved) /\ Health!HealthInit

MCControlSpec ==
    /\ MCControlInit /\ [][MCControlNext]_partVars
    /\ WF_partVars(/\ part \in {"control", "market"}
                   /\ InstrumentLoop /\ UNCHANGED <<healthVars, part>>)
    /\ \A w \in Workers :
          WF_partVars(part = "research" /\ WorkerStep(w)
                         /\ UNCHANGED <<controlVars, healthVars, part>>)
    /\ \A r \in Runs :
          WF_partVars(part = "research" /\ LeaseAges(r)
                         /\ UNCHANGED <<controlVars, healthVars, part>>)
    /\ \A w \in Watchdogs :
          WF_partVars(part = "health" /\ Health!Pass(w) /\ UNCHANGED <<allVars, part>>)

-----------------------------------------------------------------------------
(* The incidents become and stay the present conditions: HealthWatch.      *)
IncidentsFollow == part = "health" => Health!IncidentsFollow
=============================================================================
