------------------------- MODULE DeploymentControl -------------------------
(***************************************************************************)
(* Who may run a strategy, and on which exchange credentials: manual status *)
(* transitions, exchange connections and their verification, deployments    *)
(* and their commands, and the instrument loop that pauses deployments      *)
(* whose market has closed.  Composed with ValidationJobs, whose runs       *)
(* decide what may be approved and deployed.                                *)
(*                                                                          *)
(* Every strategy has an account of its own (app.ts gives the account the   *)
(* strategy's id), so the deployments here are those of one strategy and of *)
(* one account.  Transactions run at READ COMMITTED.  One that locks what   *)
(* it decides on before it reads it is one step; the others are two.  Locks *)
(* that a step may have to wait for are its guard.                          *)
(*                                                                          *)
(* A connection proves its credentials: "proven" is the revision that the   *)
(* last recorded verification was about.  When credentials are rotated the  *)
(* revision grows.  An active connection always has a next verification     *)
(* time, so it may come due at any moment, as a lease may expire.           *)
(* "holding" says that the run of the deployment has an open position; how  *)
(* positions open and close is RuntimeLedger's subject.                     *)
(*                                                                          *)
(* Left out: receipts (a command repeated with its key returns the stored   *)
(* result and changes nothing), a client's outdated expectedStatus (refused *)
(* under the row lock) and audit rows.                                      *)
(***************************************************************************)
EXTENDS ValidationJobs

CONSTANTS Connections, Deployments,
          Requests,      \* verify requests of the API in progress
          Transitions,   \* status requests of the API in progress
          MaxRevision    \* bound: rotations of a connection

ASSUME ControlAssumption ==
    /\ Requests \cap Workers = {} /\ MaxRevision \in Nat \ {0}
    /\ Nothing \notin Connections \cup Deployments

VARIABLES connection,   \* ExchangeConnection
          check,        \* verifications in progress, by request or worker
          deployment,   \* Deployment with its running ExecutionRun
          transition,   \* what a status request has read
          exchange,     \* TRUE while the exchange trades the symbol
          instrument,   \* MarketInstrument.enabled
          market,       \* the symbol in the market list of the workspace
          sync          \* the instrument loop

controlVars == <<connection, check, deployment, transition, exchange,
                 instrument, market, sync>>
allVars == <<validationVars, controlVars>>

Checkers == Requests \cup Workers
ConnectionRow == [state: {"UNVERIFIED", "ACTIVE", "INVALID"}, revoked: BOOLEAN,
                  revision: 1..MaxRevision, proven: 0..MaxRevision,
                  lease: Workers \cup {Nothing}]
CheckState == [step: {"idle", "asked", "recording"},
               connection: Connections \cup {Nothing},
               revision: 0..MaxRevision,
               ready: SUBSET Deployments, running: SUBSET Deployments]
DeploymentRow == [state: {"READY", "RUNNING", "PAUSED", "STOPPED", "FAILED"},
                  connection: Connections, version: Versions,
                  run: BOOLEAN, holding: BOOLEAN]

(* null is no row. *)
ASSUME NothingIsNoDeployment == Nothing \notin ConnectionRow \cup DeploymentRow

NoCheck == [step |-> "idle", connection |-> Nothing, revision |-> 0,
            ready |-> {}, running |-> {}]
NoTransition == [from |-> Nothing, to |-> Nothing]

Live == {"READY", "RUNNING", "PAUSED"}
Made(d) == deployment[d] # Nothing
In(d, states) == Made(d) /\ deployment[d].state \in states
LiveDeployments == {d \in Deployments : In(d, Live)}
Using(c) == {d \in LiveDeployments : deployment[d].connection = c}

(* SELECT ... FOR UPDATE of a connection waits for a verification that is   *)
(* being recorded.                                                          *)
Locked(c) == \E p \in Checkers :
                check[p].step = "recording" /\ check[p].connection = c

ControlInit ==
    /\ ValidationInit
    /\ connection = [c \in Connections |-> Nothing]
    /\ check = [p \in Checkers |-> NoCheck]
    /\ deployment = [d \in Deployments |-> Nothing]
    /\ transition = [t \in Transitions |-> NoTransition]
    /\ exchange = TRUE /\ instrument = TRUE
    /\ market = [listed |-> TRUE, removing |-> FALSE]
    /\ sync = [step |-> "sync", blocked |-> FALSE, affected |-> {}]

-----------------------------------------------------------------------------
(* Manual transitions of the strategy *)

strategyStatusTransitions ==
    ({"DRAFT"} \X {"ARCHIVED"}) \cup ({"VALIDATING"} \X {"DRAFT", "APPROVED", "ARCHIVED"})
    \cup ({"APPROVED"} \X {"DRAFT", "ARCHIVED"}) \cup ({"DEPLOYED"} \X {"APPROVED"})
    \cup ({"PAUSED"} \X {"APPROVED", "ARCHIVED"}) \cup ({"ARCHIVED"} \X {"DRAFT"})

(* evaluateStrategyLifecycle *)
Allowed(target) ==
    /\ target \in {"APPROVED", "ARCHIVED"} => LiveDeployments = {}
    /\ target = "APPROVED" => versions \in PassedVersions
    /\ target \in {"DRAFT", "ARCHIVED"} => ActiveRuns = {}

TransitionRead(t) ==
    /\ transition[t] = NoTransition
    /\ \E target \in StrategyStatuses :
          /\ <<status, target>> \in strategyStatusTransitions /\ Allowed(target)
          /\ transition' = [transition EXCEPT ![t] = [from |-> status, to |-> target]]
    /\ UNCHANGED <<validationVars, connection, check, deployment, exchange,
                   instrument, market, sync>>

(* transitionStatus checks the status again, and nothing else.              *)
TransitionCommit(t) ==
    /\ transition[t] # NoTransition
    /\ transition' = [transition EXCEPT ![t] = NoTransition]
    /\ IF status = transition[t].from
       THEN /\ status' = transition[t].to
            /\ activeVersion' = IF transition[t].to = "APPROVED" THEN versions ELSE 0
       ELSE UNCHANGED <<status, activeVersion>>
    /\ UNCHANGED <<versions, run, worker, feed, connection, check, deployment,
                   exchange, instrument, market, sync>>

-----------------------------------------------------------------------------
(* Exchange connections *)

ConnectionsOnly == UNCHANGED <<validationVars, deployment, transition,
                               exchange, instrument, market, sync>>
Usable(c) == connection[c] # Nothing /\ ~connection[c].revoked
Finished(p) == check' = [check EXCEPT ![p] = NoCheck]

CreateConnection(c) ==
    /\ connection[c] = Nothing
    /\ connection' = [connection EXCEPT ![c] =
          [state |-> "UNVERIFIED", revoked |-> FALSE, revision |-> 1,
           proven |-> 0, lease |-> Nothing]]
    /\ UNCHANGED check /\ ConnectionsOnly

(* deploymentBlocksCredentialRotation *)
SafeToRotate(c) ==
    \A d \in Using(c) : deployment[d].state = "PAUSED" /\ connection[c].state = "INVALID"
RotateCredentials(c) ==
    /\ Usable(c) /\ ~Locked(c) /\ SafeToRotate(c)
    /\ connection[c].revision < MaxRevision
    /\ connection' = [connection EXCEPT ![c].state = "UNVERIFIED",
                          ![c].revision = @ + 1, ![c].lease = Nothing]
    /\ UNCHANGED check /\ ConnectionsOnly

Revoke(c) ==
    /\ Usable(c) /\ ~Locked(c) /\ Using(c) = {}
    /\ connection' = [connection EXCEPT ![c].revoked = TRUE]
    /\ UNCHANGED check /\ ConnectionsOnly

(* The verify route reads the credentials and asks the exchange ...         *)
VerifyRead(p) ==
    /\ p \in Requests /\ check[p].step = "idle"
    /\ \E c \in Connections :
          /\ Usable(c)
          /\ check' = [check EXCEPT ![p] = [NoCheck EXCEPT !.step = "asked",
                          !.connection = c, !.revision = connection[c].revision]]
    /\ UNCHANGED connection /\ ConnectionsOnly

(* ... and so does a worker that claims a connection whose time has come.   *)
ClaimDueVerification(p) ==
    /\ p \in Workers /\ worker[p].step # "dead" /\ check[p].step = "idle"
    /\ \E c \in Connections :
          /\ Usable(c) /\ ~Locked(c) /\ connection[c].state = "ACTIVE"
          /\ connection' = [connection EXCEPT ![c].lease = p]
          /\ check' = [check EXCEPT ![p] = [NoCheck EXCEPT !.step = "asked",
                          !.connection = c, !.revision = connection[c].revision]]
    /\ ConnectionsOnly

(* assertVerificationOwnership, after the row was found unrevoked and locked*)
VerificationOwned_AnyRevision(p) ==
    LET c == check[p].connection
    IN  Usable(c) /\ (p \in Workers => connection[c].lease = p)
VerificationOwned(p) ==
    LET c == check[p].connection
    IN  /\ Usable(c) /\ connection[c].revision = check[p].revision
        /\ p \in Workers => connection[c].lease = p

Asked(p) == check[p].step = "asked" /\ ~Locked(check[p].connection)

VerificationConflict(p) ==
    /\ Asked(p) /\ ~VerificationOwned(p)
    /\ Finished(p) /\ UNCHANGED connection /\ ConnectionsOnly

RecordActive(p) ==
    /\ Asked(p) /\ VerificationOwned(p)
    /\ connection' = [connection EXCEPT ![check[p].connection] =
          [@ EXCEPT !.state = "ACTIVE", !.proven = check[p].revision,
                    !.lease = Nothing]]
    /\ Finished(p) /\ ConnectionsOnly

RecordUnavailable(p) ==
    /\ Asked(p) /\ VerificationOwned(p)
    /\ connection' = [connection EXCEPT ![check[p].connection].lease = Nothing]
    /\ Finished(p) /\ ConnectionsOnly

(* Refused credentials: the transaction locks the connection, reads the     *)
(* deployments it affects, and then writes, deployments before the strategy.*)
RecordInvalidRead(p) ==
    /\ Asked(p) /\ VerificationOwned(p)
    /\ LET affected(state) == {d \in Using(check[p].connection) : In(d, {state})}
       IN  check' = [check EXCEPT ![p].step = "recording",
                         ![p].ready = affected("READY"),
                         ![p].running = affected("RUNNING")]
    /\ UNCHANGED connection /\ ConnectionsOnly

Suspend(p) ==
    [d \in Deployments |->
        CASE d \in check[p].ready /\ In(d, {"READY"}) ->
                [deployment[d] EXCEPT !.state = "FAILED"]
          [] d \in check[p].running /\ In(d, {"RUNNING"}) ->
                [deployment[d] EXCEPT !.state = "PAUSED"]
          [] OTHER -> deployment[d]]
RecordInvalidCommit(p) ==
    /\ check[p].step = "recording"
    /\ connection' = [connection EXCEPT ![check[p].connection] =
          [@ EXCEPT !.state = "INVALID", !.proven = check[p].revision,
                    !.lease = Nothing]]
    /\ deployment' = Suspend(p)
    /\ status' = IF check[p].running # {} /\ status = "DEPLOYED"
                 THEN "PAUSED" ELSE status
    /\ Finished(p)
    /\ UNCHANGED <<activeVersion, versions, run, worker, feed, transition,
                   exchange, instrument, market, sync>>

-----------------------------------------------------------------------------
(* Deployments *)

DeploymentsOnly == UNCHANGED <<activeVersion, versions, run, worker, feed,
                               connection, check, transition, exchange,
                               instrument, market, sync>>

(* lockActiveExchangeConnection *)
ConnectionReady(c) == Usable(c) /\ ~Locked(c) /\ connection[c].state = "ACTIVE"

(* assertNoActiveDeployment, under the lock of the account                  *)
NoOtherActive(d) == LiveDeployments \subseteq {d}

Deployable == status = "APPROVED" /\ activeVersion \in PassedVersions
CreateDeployment(d) ==
    /\ ~Made(d) /\ Deployable /\ NoOtherActive(d)
    /\ \E c \in Connections :
          /\ ConnectionReady(c)
          /\ deployment' = [deployment EXCEPT ![d] =
                [state |-> "READY", connection |-> c, version |-> activeVersion,
                 run |-> FALSE, holding |-> FALSE]]
    /\ UNCHANGED status /\ DeploymentsOnly

Command(d, state, strategyStatus, running) ==
    /\ deployment' = [deployment EXCEPT ![d].state = state, ![d].run = running]
    /\ status' = strategyStatus
    /\ DeploymentsOnly

Start(d) ==
    /\ In(d, {"READY", "STOPPED"}) /\ ConnectionReady(deployment[d].connection)
    /\ NoOtherActive(d) /\ deployment[d].version \in PassedVersions
    /\ Command(d, "RUNNING", "DEPLOYED", TRUE)

Pause(d) ==
    /\ In(d, {"RUNNING"}) /\ deployment[d].run
    /\ Command(d, "PAUSED", "PAUSED", TRUE)

Resume(d) ==
    /\ In(d, {"PAUSED"}) /\ deployment[d].run
    /\ ConnectionReady(deployment[d].connection) /\ NoOtherActive(d)
    /\ Command(d, "RUNNING", "DEPLOYED", TRUE)

Flat_Unchecked(d) == TRUE
Flat(d) == ~deployment[d].holding
Stop(d) ==
    /\ In(d, {"RUNNING", "PAUSED"}) /\ deployment[d].run /\ Flat(d)
    /\ Command(d, "STOPPED", "APPROVED", FALSE)

(* Entries are made by a running deployment; a position may end at any time.*)
PositionChanges(d) ==
    /\ In(d, {"RUNNING", "PAUSED"})
    /\ deployment[d].holding \/ deployment[d].state = "RUNNING"
    /\ deployment' = [deployment EXCEPT ![d].holding = ~@]
    /\ UNCHANGED status /\ DeploymentsOnly

-----------------------------------------------------------------------------
(* The instrument loop *)

ExchangeChanges ==
    /\ exchange' = ~exchange
    /\ UNCHANGED <<validationVars, connection, check, deployment, transition,
                   instrument, market, sync>>

LoopOnly == UNCHANGED <<activeVersion, versions, run, worker, feed, connection,
                        check, transition, exchange, market>>

(* A market that is closed, or missing from what the exchange lists, is not *)
(* enabled; only markets on the list of a workspace are kept up to date.    *)
Synced_KnownOnly == exchange \/ instrument
Synced == IF market.listed THEN exchange ELSE instrument
SyncTrackedInstruments ==
    /\ sync.step = "sync"
    /\ instrument' = Synced
    /\ sync' = [sync EXCEPT !.step = "list"]
    /\ UNCHANGED <<status, deployment>> /\ LoopOnly

(* The row is read again: a pass that failed after it was written leaves    *)
(* the pause to the next one.                                               *)
Unavailable == market.listed /\ ~instrument
ListUnavailable ==
    /\ sync.step = "list"
    /\ sync' = [sync EXCEPT !.step = "read", !.blocked = Unavailable]
    /\ UNCHANGED <<status, deployment, instrument>> /\ LoopOnly

PauseRead ==
    /\ sync.step = "read"
    /\ sync' = [sync EXCEPT !.step = "pause",
          !.affected = IF sync.blocked THEN {d \in Deployments : In(d, {"RUNNING"})}
                       ELSE {}]
    /\ UNCHANGED <<status, deployment, instrument>> /\ LoopOnly

PauseDeployments ==
    /\ sync.step = "pause"
    /\ LET hit == {d \in sync.affected : In(d, {"RUNNING"})} IN
          /\ deployment' = [d \in Deployments |->
                IF d \in hit THEN [deployment[d] EXCEPT !.state = "PAUSED"]
                ELSE deployment[d]]
          /\ status' = IF hit # {} /\ status = "DEPLOYED" THEN "PAUSED" ELSE status
    /\ sync' = [sync EXCEPT !.step = "sync", !.affected = {}]
    /\ UNCHANGED instrument /\ LoopOnly

(* The market list: addMarkets takes what the exchange says, removeMarket   *)
(* looks for open positions and active deployments before it deletes.       *)
MarketOnly == UNCHANGED <<validationVars, connection, check, deployment,
                          transition, exchange, sync>>
AddMarket ==
    /\ ~market.listed
    /\ market' = [market EXCEPT !.listed = TRUE] /\ instrument' = exchange
    /\ MarketOnly

RemoveMarketRead ==
    /\ market = [listed |-> TRUE, removing |-> FALSE]
    /\ LiveDeployments = {} /\ \A d \in Deployments : Made(d) => ~deployment[d].holding
    /\ market' = [market EXCEPT !.removing = TRUE]
    /\ UNCHANGED instrument /\ MarketOnly

RemoveMarket ==
    /\ market.removing
    /\ market' = [listed |-> FALSE, removing |-> FALSE]
    /\ UNCHANGED instrument /\ MarketOnly

InstrumentLoop ==
    SyncTrackedInstruments \/ ListUnavailable \/ PauseRead \/ PauseDeployments

-----------------------------------------------------------------------------
Verification(p) ==
    \/ VerifyRead(p) \/ ClaimDueVerification(p) \/ VerificationConflict(p)
    \/ RecordActive(p) \/ RecordUnavailable(p)
    \/ RecordInvalidRead(p) \/ RecordInvalidCommit(p)

(* A worker that ends loses what it verifies and what it validates; an open *)
(* transaction is rolled back.                                              *)
WorkerEnds(w) ==
    /\ Crash(w) /\ Finished(w)
    /\ UNCHANGED <<connection, deployment, transition, exchange, instrument,
                   market, sync>>

ControlNext ==
    \/ /\ \/ CreateVersion /\ market.listed
          \/ QueueRun \/ FeedMoves
          \/ \E w \in Workers : WorkerStep(w)
          \/ \E r \in Runs : LeaseAges(r)
       /\ UNCHANGED controlVars
    \/ \E w \in Workers : WorkerEnds(w)
    \/ \E t \in Transitions : TransitionRead(t) \/ TransitionCommit(t)
    \/ \E c \in Connections :
          CreateConnection(c) \/ RotateCredentials(c) \/ Revoke(c)
    \/ \E p \in Checkers : Verification(p)
    \/ \E d \in Deployments :
          \/ CreateDeployment(d) \/ Start(d) \/ Pause(d) \/ Resume(d) \/ Stop(d)
          \/ PositionChanges(d)
    \/ ExchangeChanges \/ InstrumentLoop
    \/ AddMarket \/ RemoveMarketRead \/ RemoveMarket

ControlSpec == ControlInit /\ [][ControlNext]_allVars

(* The instrument loop of a worker goes on.                                 *)
ControlFairness == WF_allVars(InstrumentLoop)

-----------------------------------------------------------------------------
(* The types of the rows and of what requests and loops hold.               *)
ControlTypeOK ==
    /\ ValidationTypeOK
    /\ connection \in [Connections -> ConnectionRow \cup {Nothing}]
    /\ check \in [Checkers -> CheckState]
    /\ deployment \in [Deployments -> DeploymentRow \cup {Nothing}]
    /\ transition \in [Transitions -> {NoTransition} \cup
                          [from: StrategyStatuses, to: StrategyStatuses]]
    /\ exchange \in BOOLEAN /\ instrument \in BOOLEAN
    /\ market \in [listed: BOOLEAN, removing: BOOLEAN]
    /\ sync \in [step: {"sync", "list", "read", "pause"}, blocked: BOOLEAN,
                 affected: SUBSET Deployments]

(* A deployment runs only on a connection that is active, not revoked, and  *)
(* whose present credentials are those that were verified: no verification  *)
(* that answers late, no rotation and no revocation gets in between.        *)
RunsOnVerifiedCredentials ==
    \A d \in Deployments : In(d, {"READY", "RUNNING"}) =>
        LET c == deployment[d].connection
        IN  /\ Usable(c) /\ connection[c].state = "ACTIVE"
            /\ connection[c].proven = connection[c].revision

(* An open position belongs to a run that has not been completed, so that   *)
(* it is still looked after.                                                *)
PositionSupervised ==
    \A d \in Deployments : Made(d) /\ deployment[d].holding
        => deployment[d].run /\ In(d, {"RUNNING", "PAUSED"})

(* When the exchange stops trading a market of the list, the deployments    *)
(* that run on it are paused, unless it trades again or leaves the list.    *)
ClosedMarketPauses ==
    \A d \in Deployments :
        (In(d, {"RUNNING"}) /\ market.listed /\ ~exchange)
            ~> (exchange \/ ~market.listed \/ ~In(d, {"RUNNING"}))
=============================================================================
