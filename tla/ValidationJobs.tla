--------------------------- MODULE ValidationJobs ---------------------------
(***************************************************************************)
(* A strategy, its versions and their validation runs:                      *)
(* StrategyRepository.createVersion, ValidationRepository and the           *)
(* validation loop of apps/worker/src/worker.ts.                            *)
(*                                                                          *)
(* A run and its job are created together and their statuses are always     *)
(* written together, so they are one row here.  A lease is the pair         *)
(* lockedBy, lockedAt: "stale" says that lockedAt is more than five minutes *)
(* old.  A worker is a process: it has a random id, so a restarted one is   *)
(* another member of Workers.                                               *)
(*                                                                          *)
(* What a worker computes from is numbered by the moment it was taken from  *)
(* the outside: candles, instrument rules and funding history by "feed", the*)
(* execution policy by the process whose settings it came from.  Repeating  *)
(* the queue request with its idempotency key returns the job it made, so a *)
(* repeat is no step.                                                       *)
(***************************************************************************)
EXTENDS Integers, FiniteSets

CONSTANTS Workers,
          Survivor,      \* a worker that keeps running
          Runs,          \* ids of validation runs
          MaxVersions,   \* bound: versions of the strategy
          MaxFeed,       \* bound: changes of the outside data
          MaxAttempts,   \* bound: claims after which a live lease is kept
          Nothing

ASSUME ValidationAssumption ==
    /\ Survivor \in Workers /\ Nothing \notin Workers \cup Runs
    /\ MaxVersions \in Nat \ {0} /\ MaxFeed \in Nat \ {0} /\ MaxAttempts \in Nat

VARIABLES status,         \* Strategy.status
          activeVersion,  \* Strategy.activeVersion, 0 for null
          versions,       \* number of the latest version
          run,            \* ValidationRun with its Job
          worker,         \* what each process has in hand
          feed

strategyVars == <<status, activeVersion, versions>>
validationVars == <<status, activeVersion, versions, run, worker, feed>>

StrategyStatuses ==
    {"DRAFT", "VALIDATING", "APPROVED", "DEPLOYED", "PAUSED", "ARCHIVED"}
Versions == 1..MaxVersions
Feeds == 0..MaxFeed   \* 0: not taken yet
Active == {"QUEUED", "RUNNING"}

(* The inputs of a computation. *)
Inputs == [dataset: Feeds, rules: Feeds, funding: Feeds,
           policy: Workers \cup {Nothing}]
NoInputs == [dataset |-> 0, rules |-> 0, funding |-> 0, policy |-> Nothing]

RunRow == [version: Versions,
           state: Active \cup {"PASSED", "REJECTED", "FAILED"},
           pinned: Inputs,    \* snapshots stored with the run
           basis: Inputs,     \* what its metrics were computed from
           owner: Workers \cup {Nothing},
           stale: BOOLEAN, attempts: 0..MaxAttempts]
Steps == {"idle", "claimed", "fetched", "dataset", "rules", "history",
          "funding", "ready", "failing", "dead"}

(* null is no row. *)
ASSUME NothingIsNoRun == Nothing \notin RunRow

Idle == [step |-> "idle", run |-> Nothing, has |-> NoInputs]

Created(r) == run[r] # Nothing
ActiveRuns == {r \in Runs : Created(r) /\ run[r].state \in Active}
PassedVersions == {run[r].version : r \in {x \in Runs :
                       Created(x) /\ run[x].state = "PASSED"}}

ValidationInit ==
    /\ status = "DRAFT" /\ activeVersion = 0 /\ versions = 1
    /\ run = [r \in Runs |-> Nothing]
    /\ worker = [w \in Workers |-> Idle]
    /\ feed = 1

-----------------------------------------------------------------------------
(* Requests *)

CreateVersion ==
    /\ status \in {"DRAFT", "APPROVED"} /\ versions < MaxVersions
    /\ versions' = versions + 1
    /\ status' = "DRAFT" /\ activeVersion' = 0
    /\ UNCHANGED <<run, worker, feed>>

(* A reusable snapshot of the same candles may be given to the run at once. *)
QueueRun ==
    /\ status \notin {"VALIDATING", "ARCHIVED"}
    /\ status # "DRAFT" => activeVersion = versions
    /\ ActiveRuns = {}
    /\ \E r \in Runs : \E known \in {0} \cup {run[x].pinned.dataset :
                                       x \in {y \in Runs : Created(y)}} :
          /\ ~Created(r)
          /\ run' = [run EXCEPT ![r] =
                [version |-> versions, state |-> "QUEUED",
                 pinned |-> [NoInputs EXCEPT !.dataset = known],
                 basis |-> NoInputs, owner |-> Nothing, stale |-> FALSE,
                 attempts |-> 0]]
    /\ status' = IF status = "DRAFT" THEN "VALIDATING" ELSE status
    /\ UNCHANGED <<activeVersion, versions, worker, feed>>

-----------------------------------------------------------------------------
(* The worker *)

(* Every write of a worker first renews its lease: the job must still be    *)
(* running and locked by it.                                                *)
Leased(w) ==
    LET r == worker[w].run IN run[r].state = "RUNNING" /\ run[r].owner = w
Renewed(w) == [run EXCEPT ![worker[w].run].stale = FALSE]
Pinned(w) == run[worker[w].run].pinned
Has(w) == worker[w].has
Pinning(w, pinned) ==
    run' = [run EXCEPT ![worker[w].run].stale = FALSE,
                       ![worker[w].run].pinned = pinned]
Go(w, step) == worker' = [worker EXCEPT ![w].step = step]
GoWith(w, step, has) ==
    worker' = [worker EXCEPT ![w].step = step, ![w].has = has]

(* What processValidationJob throws ends in its catch block. *)
Throws(w) == Go(w, "failing") /\ UNCHANGED <<run, status, activeVersion, versions, feed>>

Claimable_QueuedOnly(r) == Created(r) /\ run[r].state = "QUEUED"
Claimable(r) == Created(r) /\ (run[r].state = "QUEUED" \/
                               (run[r].state = "RUNNING" /\ run[r].stale))
ClaimNext(w) ==
    /\ worker[w].step = "idle"
    /\ \E r \in {x \in Runs : Claimable(x)} :
          /\ run' = [run EXCEPT ![r].state = "RUNNING", ![r].owner = w,
                ![r].stale = FALSE,
                ![r].attempts = IF @ < MaxAttempts THEN @ + 1 ELSE @]
          /\ worker' = [worker EXCEPT ![w] = [step |-> "claimed", run |-> r,
                has |-> [NoInputs EXCEPT !.dataset = run[r].pinned.dataset]]]
    /\ UNCHANGED <<status, activeVersion, versions, feed>>

(* prepareValidationDataset: a run that has a snapshot keeps it, otherwise  *)
(* the candles are fetched; either may fail.                                *)
PrepareDataset(w) ==
    /\ worker[w].step = "claimed"
    /\ \/ /\ Leased(w)
          /\ IF Has(w).dataset # 0
             THEN Go(w, "dataset")
             ELSE GoWith(w, "fetched", [Has(w) EXCEPT !.dataset = feed])
          /\ run' = Renewed(w)
          /\ UNCHANGED <<status, activeVersion, versions, feed>>
       \/ Throws(w)

(* materializeDataset links the snapshot unless another is linked.          *)
Linkable(w) == Pinned(w).dataset \in {0, Has(w).dataset}
MaterializeDataset(w) ==
    /\ worker[w].step = "fetched"
    /\ IF Leased(w) /\ Linkable(w)
       THEN /\ Pinning(w, [Pinned(w) EXCEPT !.dataset = Has(w).dataset])
            /\ Go(w, "dataset")
            /\ UNCHANGED <<status, activeVersion, versions, feed>>
       ELSE Throws(w)

(* pinInstrumentRules reads what is pinned without a lease.                 *)
PinInstrumentRules(w) ==
    /\ worker[w].step = "dataset"
    /\ \/ /\ run[worker[w].run].state = "RUNNING" /\ Pinned(w).rules # 0
          /\ GoWith(w, "rules", [Has(w) EXCEPT !.rules = Pinned(w).rules])
          /\ UNCHANGED run
          /\ UNCHANGED <<status, activeVersion, versions, feed>>
       \/ /\ Pinned(w).rules = 0 /\ Leased(w)
          /\ Pinning(w, [Pinned(w) EXCEPT !.rules = feed])
          /\ GoWith(w, "rules", [Has(w) EXCEPT !.rules = feed])
          /\ UNCHANGED <<status, activeVersion, versions, feed>>
       \/ Throws(w)   \* no rules, stale rules, or no lease

(* Pinned funding is read without a lease, missing funding is loaded from   *)
(* the exchange under one.                                                  *)
GetFundingSnapshot_Unpinned(w) ==
    /\ worker[w].step = "rules" /\ Leased(w)
    /\ run' = Renewed(w)
    /\ GoWith(w, "funding", [Has(w) EXCEPT !.funding = feed])
    /\ UNCHANGED <<status, activeVersion, versions, feed>>
GetFundingSnapshot(w) ==
    /\ worker[w].step = "rules"
    /\ \/ /\ Pinned(w).funding # 0
          /\ GoWith(w, "funding", [Has(w) EXCEPT !.funding = Pinned(w).funding])
          /\ UNCHANGED run
          /\ UNCHANGED <<status, activeVersion, versions, feed>>
       \/ /\ Pinned(w).funding = 0 /\ Leased(w)
          /\ run' = Renewed(w)
          /\ GoWith(w, "history", [Has(w) EXCEPT !.funding = feed])
          /\ UNCHANGED <<status, activeVersion, versions, feed>>
       \/ Pinned(w).funding = 0 /\ Throws(w)

(* What a transaction that pins leaves: the value already pinned, if any.   *)
Kept(pinned, none, value) == IF pinned = none THEN value ELSE pinned
PinFundingSnapshot(w) ==
    /\ worker[w].step = "history"
    /\ IF Leased(w)
       THEN LET kept == Kept(Pinned(w).funding, 0, Has(w).funding)
            IN  /\ Pinning(w, [Pinned(w) EXCEPT !.funding = kept])
                /\ GoWith(w, "funding", [Has(w) EXCEPT !.funding = kept])
                /\ UNCHANGED <<status, activeVersion, versions, feed>>
       ELSE Throws(w)

PinValidation(w) ==
    /\ worker[w].step = "funding"
    /\ IF Leased(w)
       THEN LET kept == Kept(Pinned(w).policy, Nothing, w)
            IN  /\ Pinning(w, [Pinned(w) EXCEPT !.policy = kept])
                /\ GoWith(w, "ready", [Has(w) EXCEPT !.policy = kept])
                /\ UNCHANGED <<status, activeVersion, versions, feed>>
       ELSE Throws(w)

(* runValidationEngine, then complete: the run must have the dataset the    *)
(* worker used.                                                             *)
Completable(w) ==
    Leased(w) /\ Pinned(w).dataset = Has(w).dataset
Complete(w) ==
    /\ worker[w].step = "ready"
    /\ IF Completable(w)
       THEN /\ \E verdict \in {"PASSED", "REJECTED"} :
                  run' = [run EXCEPT ![worker[w].run] =
                     [@ EXCEPT !.state = verdict, !.owner = Nothing,
                               !.stale = FALSE, !.basis = Has(w)]]
            /\ worker' = [worker EXCEPT ![w] = Idle]
            /\ UNCHANGED <<status, activeVersion, versions, feed>>
       ELSE Throws(w)

(* The catch block: a failure is stored under the lease or not at all.      *)
Fail(w) ==
    /\ worker[w].step = "failing"
    /\ IF Leased(w)
       THEN /\ run' = [run EXCEPT ![worker[w].run] =
                  [@ EXCEPT !.state = "FAILED", !.owner = Nothing, !.stale = FALSE]]
            /\ status' = IF status = "VALIDATING" THEN "DRAFT" ELSE status
       ELSE UNCHANGED <<run, status>>
    /\ worker' = [worker EXCEPT ![w] = Idle]
    /\ UNCHANGED <<activeVersion, versions, feed>>

WorkerStep(w) ==
    \/ ClaimNext(w) \/ PrepareDataset(w) \/ MaterializeDataset(w)
    \/ PinInstrumentRules(w) \/ GetFundingSnapshot(w) \/ PinFundingSnapshot(w)
    \/ PinValidation(w) \/ Complete(w) \/ Fail(w)

(* A process ends at any moment; its jobs stay locked until the lease is old.*)
Crash(w) ==
    /\ w # Survivor /\ worker[w].step # "dead"
    /\ worker' = [worker EXCEPT ![w] = [Idle EXCEPT !.step = "dead"]]
    /\ UNCHANGED <<status, activeVersion, versions, run, feed>>

(* Five minutes without a renewal.  A live worker that is this slow is met  *)
(* only while the attempts are below the bound.                             *)
LeaseAges(r) ==
    /\ Created(r) /\ run[r].state = "RUNNING" /\ ~run[r].stale
    /\ worker[run[r].owner].step = "dead" \/ run[r].attempts < MaxAttempts
    /\ run' = [run EXCEPT ![r].stale = TRUE]
    /\ UNCHANGED <<status, activeVersion, versions, worker, feed>>

FeedMoves ==
    /\ feed < MaxFeed
    /\ feed' = feed + 1
    /\ UNCHANGED <<status, activeVersion, versions, run, worker>>

ValidationNext ==
    \/ CreateVersion \/ QueueRun \/ FeedMoves
    \/ \E w \in Workers : WorkerStep(w) \/ Crash(w)
    \/ \E r \in Runs : LeaseAges(r)

(* The loop of a process takes its next step while the process runs, and     *)
(* time passes.                                                             *)
ValidationFairness ==
    /\ \A w \in Workers : WF_validationVars(WorkerStep(w))
    /\ \A r \in Runs : WF_validationVars(LeaseAges(r))

ValidationSpec == ValidationInit /\ [][ValidationNext]_validationVars
FairValidation == ValidationSpec /\ ValidationFairness

-----------------------------------------------------------------------------
(* The types of the rows and of what a worker has in hand.                  *)
ValidationTypeOK ==
    /\ status \in StrategyStatuses
    /\ activeVersion \in 0..MaxVersions /\ versions \in Versions
    /\ run \in [Runs -> RunRow \cup {Nothing}]
    /\ worker \in [Workers -> [step: Steps, run: Runs \cup {Nothing}, has: Inputs]]
    /\ feed \in 1..MaxFeed

(* The metrics of a finished run are the result of exactly the snapshots    *)
(* stored with it, whoever claimed it before and whatever a worker that     *)
(* lost its lease had in hand: its report can be computed again.            *)
ReproducibleResult ==
    \A r \in Runs :
        Created(r) /\ run[r].state \in {"PASSED", "REJECTED"}
            => run[r].basis = run[r].pinned /\ run[r].pinned.policy # Nothing

(* At most one validation of the strategy is queued or running.             *)
OneActiveRun == Cardinality(ActiveRuns) <= 1

(* A queued validation ends although workers crash and lose leases.         *)
RunEnds == \A r \in Runs : r \in ActiveRuns ~> r \notin ActiveRuns
=============================================================================
