---------------------- MODULE DeploymentControl_proofs ----------------------
(***************************************************************************)
(* Theorems about DeploymentControl and the validation jobs it is composed  *)
(* with, for every number of workers, runs, connections, deployments,       *)
(* requests and versions.                                                   *)
(*                                                                          *)
(* ReproducibleResult is not inductive: what matters is what a worker has   *)
(* in hand while it holds the lease.  InHand says that it then agrees with  *)
(* what is pinned, part by part as the worker goes on; a worker that lost   *)
(* its lease may have anything in hand, for Leased is in the way of what it *)
(* could write.  RunsOnVerifiedCredentials needs that an active connection  *)
(* is proven and that a verification that is being recorded has read every  *)
(* deployment it has to suspend, as the lock it holds keeps others from     *)
(* starting.                                                                *)
(*                                                                          *)
(* The second part is about CandleSimulation, the engine of the validation  *)
(* jobs: SimulationBalances needs the instant up to which every step of the *)
(* walk has settled (Settled), and the order of a symbol's trades.          *)
(***************************************************************************)
EXTENDS DeploymentControl, CandleSimulation, FiniteSums, TLAPS

(* What the assumptions say of the constants, part by part.                 *)
LEMMA Constants ==
  /\ MaxVersions \in Nat /\ MaxVersions # 0 /\ MaxFeed \in Nat /\ MaxFeed # 0
  /\ MaxAttempts \in Nat /\ MaxRevision \in Nat /\ MaxRevision # 0
  /\ Nothing \notin Workers /\ Nothing \notin Runs /\ Nothing \notin RunRow
  /\ Nothing \notin Connections /\ Nothing \notin Deployments
  /\ Nothing \notin ConnectionRow /\ Nothing \notin DeploymentRow
  BY ValidationAssumption, ControlAssumption, NothingIsNoRun, NothingIsNoDeployment

(* The parts a worker at a step has already taken, and that it must have    *)
(* taken as they are pinned.                                                *)
HasDataset == {"claimed", "dataset", "rules", "history", "funding", "ready"}
HasRules == {"rules", "history", "funding", "ready"}
HasFunding == {"funding", "ready"}
AgreeAt(stage, has, pinned) ==
    /\ stage \in HasDataset => has.dataset = pinned.dataset
    /\ stage \in HasRules => has.rules = pinned.rules
    /\ stage \in HasFunding => has.funding = pinned.funding
    /\ stage = "ready" => has.policy = pinned.policy /\ pinned.policy # Nothing
Agrees(w) == AgreeAt(worker[w].step, Has(w), Pinned(w))
InHand(w) ==
    worker[w].step \notin {"idle", "dead"} =>
        /\ worker[w].run \in Runs /\ Created(worker[w].run)
        /\ Leased(w) => Agrees(w)

ValidationInv ==
    /\ ValidationTypeOK
    /\ \A w \in Workers : InHand(w)
    /\ ReproducibleResult

Reproducible(row) ==
    row.state \in {"PASSED", "REJECTED"} => row.basis = row.pinned /\ row.pinned.policy # Nothing

(* What a step of worker w leaves to the others: their hands, every row,    *)
(* and what is pinned under their leases.                                   *)
OthersKeep(w) ==
    /\ \A x \in Workers : x # w => worker'[x] = worker[x]
    /\ \A r \in Runs : Created(r) =>
          /\ Created(r)'
          /\ \A x \in Workers : x # w /\ run'[r].state = "RUNNING" /\ run'[r].owner = x =>
                /\ run[r].state = "RUNNING" /\ run[r].owner = x
                /\ run'[r].pinned = run[r].pinned

(* The new row gives no other worker a lease it did not have, and pins      *)
(* nothing under the lease of another.                                      *)
Undisturbed(w, r, row) ==
    Created(r) => \A x \in Workers :
        x # w /\ row.state = "RUNNING" /\ row.owner = x =>
            run[r].state = "RUNNING" /\ run[r].owner = x /\ row.pinned = run[r].pinned

(* Two inputs with the same parts are the same.                             *)
LEMMA InputsEqual ==
  ASSUME NEW a \in Inputs, NEW b \in Inputs,
         a.dataset = b.dataset, a.rules = b.rules, a.funding = b.funding, a.policy = b.policy
  PROVE  a = b
  BY DEF Inputs

(* A worker that has taken nothing has no dataset and no policy.            *)
LEMMA NoInputsType == NoInputs \in Inputs /\ NoInputs.dataset = 0 /\ NoInputs.policy = Nothing
  BY Constants DEF NoInputs, Inputs, Feeds

(* A step that replaces at most one row and one hand.                       *)
LEMMA OneRow ==
  ASSUME ValidationInv, NEW w, NEW r \in Runs, NEW row \in RunRow,
         run' = [run EXCEPT ![r] = row],
         \A x \in Workers : x # w => worker'[x] = worker[x],
         Undisturbed(w, r, row), Reproducible(row)
  PROVE  /\ run' \in [Runs -> RunRow \cup {Nothing}]
         /\ OthersKeep(w) /\ ReproducibleResult'
<1>1. run \in [Runs -> RunRow \cup {Nothing}]
  BY DEF ValidationInv, ValidationTypeOK
<1>2. run' \in [Runs -> RunRow \cup {Nothing}]
  BY <1>1
<1>3. \A x \in Runs : run'[x] = run[x] \/ (x = r /\ run'[x] = row)
  BY <1>1
<1>4. OthersKeep(w)
  BY <1>3, Constants DEF OthersKeep, Created, Undisturbed
<1>5. ReproducibleResult'
  BY <1>3 DEF ReproducibleResult, ValidationInv, Created, Reproducible
<1> QED
  BY <1>2, <1>4, <1>5

(* What others keep is enough for their hands.                              *)
LEMMA Hands ==
  ASSUME ValidationInv, NEW w, OthersKeep(w), ValidationTypeOK', ReproducibleResult',
         w \in Workers => InHand(w)'
  PROVE  ValidationInv'
<1>1. ASSUME NEW x \in Workers, x # w PROVE InHand(x)'
  <2> SUFFICES ASSUME worker'[x].step \notin {"idle", "dead"}
               PROVE  /\ worker'[x].run \in Runs /\ run'[worker'[x].run] # Nothing
                      /\ Leased(x)' => Agrees(x)'
    BY DEF InHand, Created
  <2> DEFINE r == worker[x].run
  <2>1. worker'[x] = worker[x]
    BY <1>1 DEF OthersKeep
  <2>2. /\ r \in Runs /\ Created(r)
        /\ Leased(x) => Agrees(x)
    BY <2>1 DEF ValidationInv, InHand
  <2>3. run'[r] # Nothing
    BY <2>2 DEF OthersKeep, Created
  <2>4. Leased(x)' => Leased(x) /\ run'[r].pinned = run[r].pinned
    BY <1>1, <2>1, <2>2 DEF OthersKeep, Leased
  <2> QED
    BY <2>1, <2>2, <2>3, <2>4 DEF Agrees, Has, Pinned, Created
<1> QED
  BY <1>1 DEF ValidationInv

(* A worker that goes on to "failing", or forgets what it had.              *)
LEMMA Forgets ==
  ASSUME ValidationInv, NEW w \in Workers, worker' \in [Workers -> [step: Steps, run: Runs \cup {Nothing}, has: Inputs]],
         worker'[w].step \in {"idle", "dead"}
  PROVE  InHand(w)'
  BY DEF InHand

(* A worker that throws keeps what it has, and may write it no more.        *)
LEMMA Throwing ==
  ASSUME ValidationInv, NEW w \in Workers, worker[w].step \notin {"idle", "dead"}, Throws(w)
  PROVE  ValidationInv'
<1>1. /\ worker' = [worker EXCEPT ![w].step = "failing"]
      /\ UNCHANGED <<run, status, activeVersion, versions, feed>>
  BY DEF Throws, Go
<1>2. worker[w] \in [step: Steps, run: Runs \cup {Nothing}, has: Inputs]
  BY DEF ValidationInv, ValidationTypeOK
<1>3. worker'[w].step = "failing" /\ worker'[w].run = worker[w].run
  BY <1>1, <1>2 DEF ValidationInv, ValidationTypeOK
<1>4. ValidationTypeOK'
  BY <1>1 DEF ValidationInv, ValidationTypeOK, Steps
<1>5. OthersKeep(w) /\ ReproducibleResult'
  BY <1>1 DEF OthersKeep, Created, ReproducibleResult, ValidationInv, ValidationTypeOK
<1>6. InHand(w)'
  BY <1>1, <1>3 DEF InHand, ValidationInv, Agrees, AgreeAt, HasDataset, HasRules, HasFunding, Created
<1> QED
  BY <1>4, <1>5, <1>6, Hands
-----------------------------------------------------------------------------
Pins(w, p) ==
    \/ UNCHANGED run /\ p = Pinned(w)
    \/ /\ Leased(w)
       /\ run' = [run EXCEPT ![worker[w].run].stale = FALSE, ![worker[w].run].pinned = p]

(* A worker takes something and, if it holds the lease, may pin something;  *)
(* it stays in order if what it has then agrees with what is then pinned.   *)
LEMMA Advance ==
  ASSUME ValidationInv, NEW w \in Workers, worker[w].step \notin {"idle", "dead"},
         NEW stage \in Steps \ {"idle", "dead"}, NEW has \in Inputs, NEW p \in Inputs,
         worker' = [worker EXCEPT ![w].step = stage, ![w].has = has],
         Pins(w, p),
         UNCHANGED <<status, activeVersion, versions, feed>>,
         Leased(w) => AgreeAt(stage, has, p)
  PROVE  ValidationInv'
<1> DEFINE r == worker[w].run
           row == [run[r] EXCEPT !.stale = FALSE, !.pinned = p]
<1>1. /\ worker \in [Workers -> [step: Steps, run: Runs \cup {Nothing}, has: Inputs]]
      /\ run \in [Runs -> RunRow \cup {Nothing}]
      /\ r \in Runs /\ run[r] \in RunRow /\ Created(r)
  BY DEF ValidationInv, ValidationTypeOK, InHand, Created
<1>2. /\ worker' \in [Workers -> [step: Steps, run: Runs \cup {Nothing}, has: Inputs]]
      /\ worker'[w].step = stage /\ worker'[w].run = r /\ worker'[w].has = has
      /\ \A x \in Workers : x # w => worker'[x] = worker[x]
  BY <1>1
<1>3. /\ row \in RunRow /\ row.state = run[r].state /\ row.owner = run[r].owner
      /\ row.pinned = p
  BY <1>1 DEF RunRow
<1>4. \/ UNCHANGED run /\ p = Pinned(w)
      \/ Leased(w) /\ run' = [run EXCEPT ![r] = row]
  BY <1>1 DEF Pins
<1> HIDE DEF row
<1>5. CASE UNCHANGED run /\ p = Pinned(w)
  <2>1. ValidationTypeOK'
    BY <1>2, <1>5 DEF ValidationInv, ValidationTypeOK
  <2>2. OthersKeep(w) /\ ReproducibleResult'
    BY <1>2, <1>5 DEF OthersKeep, Created, ReproducibleResult, ValidationInv
  <2>3. InHand(w)'
    BY <1>1, <1>2, <1>5 DEF InHand, Agrees, Has, Pinned, Leased, Created
  <2> QED
    BY <2>1, <2>2, <2>3, Hands
<1>6. CASE Leased(w) /\ run' = [run EXCEPT ![r] = row]
  <2>1. row.state = "RUNNING" /\ row.owner = w
    BY <1>3, <1>6 DEF Leased
  <2>2. Reproducible(row)
    BY <2>1 DEF Reproducible
  <2> HIDE DEF r
  <2>3. /\ run' \in [Runs -> RunRow \cup {Nothing}]
        /\ OthersKeep(w) /\ ReproducibleResult'
    <3>1. Undisturbed(w, r, row)
      BY <2>1 DEF Undisturbed
    <3>2. r \in Runs /\ row \in RunRow /\ run' = [run EXCEPT ![r] = row]
      BY <1>1, <1>3, <1>6
    <3>3. \A x \in Workers : x # w => worker'[x] = worker[x]
      BY <1>2
    <3> QED
      BY <2>2, <3>1, <3>2, <3>3, OneRow
  <2>4. ValidationTypeOK'
    BY <1>2, <2>3 DEF ValidationInv, ValidationTypeOK
  <2>5. run'[r] = row /\ row # Nothing
    BY <1>1, <1>3, <1>6, Constants
  <2>6. InHand(w)'
    BY <1>1, <1>2, <1>3, <1>6, <2>5 DEF InHand, Agrees, Has, Pinned, Created
  <2> QED
    BY <2>3, <2>4, <2>6, Hands
<1> QED
  BY <1>4, <1>5, <1>6

(* What a worker that has a run in hand may rely on. *)
LEMMA InProgress ==
  ASSUME ValidationInv, NEW w \in Workers, worker[w].step \notin {"idle", "dead"}
  PROVE  /\ worker[w].run \in Runs /\ Created(worker[w].run)
         /\ run[worker[w].run] \in RunRow /\ Pinned(w) \in Inputs /\ Has(w) \in Inputs
         /\ worker[w] \in [step: Steps, run: Runs \cup {Nothing}, has: Inputs]
         /\ feed \in Feeds
         /\ Leased(w) => Agrees(w)
  BY Constants DEF ValidationInv, ValidationTypeOK, InHand, Created, Pinned, Has, RunRow, Feeds

(* The steps of a worker, spelled out.                                      *)
LEMMA StepsApart ==
  /\ HasDataset = {"claimed", "dataset", "rules", "history", "funding", "ready"}
  /\ HasRules = {"rules", "history", "funding", "ready"} /\ HasFunding = {"funding", "ready"}
  /\ Steps = {"idle", "claimed", "fetched", "dataset", "rules", "history", "funding", "ready",
              "failing", "dead"}
  BY DEF HasDataset, HasRules, HasFunding, Steps

(* The dataset is taken from the run, or fetched and pinned.                *)
LEMMA DatasetStep ==
  ASSUME ValidationInv, NEW w \in Workers, PrepareDataset(w) \/ MaterializeDataset(w)
  PROVE  ValidationInv'
<1>1. /\ worker[w].step \in {"claimed", "fetched"} /\ Has(w) \in Inputs /\ Pinned(w) \in Inputs
      /\ feed \in Feeds
      /\ worker[w].step = "claimed" /\ Leased(w) => Has(w).dataset = Pinned(w).dataset
  BY InProgress, StepsApart DEF PrepareDataset, MaterializeDataset, Agrees, AgreeAt
<1>2. CASE Throws(w)
  BY <1>1, <1>2, Throwing
<1>3. CASE PrepareDataset(w) /\ ~Throws(w)
  <2> DEFINE has == IF Has(w).dataset # 0 THEN Has(w) ELSE [Has(w) EXCEPT !.dataset = feed]
             stage == IF Has(w).dataset # 0 THEN "dataset" ELSE "fetched"
  <2>1. /\ Leased(w) /\ run' = Renewed(w) /\ UNCHANGED <<status, activeVersion, versions, feed>>
        /\ worker[w].step = "claimed"
    BY <1>3 DEF PrepareDataset
  <2>2. worker' = [worker EXCEPT ![w].step = stage, ![w].has = has]
    BY <1>1, <1>3, InProgress DEF PrepareDataset, Go, GoWith, Has, ValidationInv, ValidationTypeOK
  <2>3. has \in Inputs
    BY <1>1 DEF Inputs
  <2>4. Pins(w, Pinned(w))
    BY <1>1, <2>1, InProgress DEF Pins, Renewed, Pinned, RunRow, ValidationInv, ValidationTypeOK
  <2>5. AgreeAt(stage, has, Pinned(w))
    BY <1>1, <2>1, StepsApart DEF AgreeAt
  <2>6. stage \in Steps \ {"idle", "dead"}
    BY StepsApart
  <2> HIDE DEF has, stage
  <2> QED
    BY <1>1, <2>1, <2>2, <2>3, <2>4, <2>5, <2>6, Advance
<1>4. CASE MaterializeDataset(w) /\ ~Throws(w)
  <2> DEFINE p == [Pinned(w) EXCEPT !.dataset = Has(w).dataset]
  <2>1. Leased(w) /\ Pinning(w, p) /\ Go(w, "dataset")
        /\ UNCHANGED <<status, activeVersion, versions, feed>>
    BY <1>4 DEF MaterializeDataset
  <2>2. worker' = [worker EXCEPT ![w].step = "dataset", ![w].has = Has(w)]
    BY <1>1, <2>1, InProgress DEF Go, Has, ValidationInv, ValidationTypeOK
  <2>3. p \in Inputs /\ p.dataset = Has(w).dataset
    BY <1>1 DEF Inputs
  <2>4. Pins(w, p)
    BY <2>1 DEF Pinning, Pins
  <2>5. AgreeAt("dataset", Has(w), p)
    BY <2>3, StepsApart DEF AgreeAt
  <2>6. "dataset" \in Steps \ {"idle", "dead"}
    BY StepsApart
  <2> HIDE DEF p
  <2> QED
    BY <1>1, <2>1, <2>2, <2>3, <2>4, <2>5, <2>6, Advance
<1> QED
  BY <1>2, <1>3, <1>4

(* Instrument rules: those pinned, or fresh ones pinned at once.            *)
LEMMA RulesStep ==
  ASSUME ValidationInv, NEW w \in Workers, PinInstrumentRules(w)
  PROVE  ValidationInv'
<1>1. /\ worker[w].step = "dataset" /\ Has(w) \in Inputs /\ Pinned(w) \in Inputs
      /\ feed \in Feeds /\ (Leased(w) => Has(w).dataset = Pinned(w).dataset)
  BY InProgress, StepsApart DEF PinInstrumentRules, Agrees, AgreeAt
<1>2. CASE Throws(w)
  BY <1>1, <1>2, Throwing
<1> "rules" \in Steps \ {"idle", "dead"}
  BY StepsApart
<1>3. CASE /\ GoWith(w, "rules", [Has(w) EXCEPT !.rules = Pinned(w).rules]) /\ UNCHANGED run
           /\ UNCHANGED <<status, activeVersion, versions, feed>>
  <2> DEFINE has == [Has(w) EXCEPT !.rules = Pinned(w).rules]
  <2>1. has \in Inputs /\ has.rules = Pinned(w).rules /\ has.dataset = Has(w).dataset
    BY <1>1 DEF Inputs
  <2>2. worker' = [worker EXCEPT ![w].step = "rules", ![w].has = has] /\ Pins(w, Pinned(w))
    BY <1>3 DEF GoWith, Pins
  <2> HIDE DEF has
  <2>3. Leased(w) => AgreeAt("rules", has, Pinned(w))
    BY <1>1, <2>1, StepsApart DEF AgreeAt
  <2> QED
    BY <1>1, <1>3, <2>1, <2>2, <2>3, Advance
<1>4. CASE /\ Leased(w) /\ Pinning(w, [Pinned(w) EXCEPT !.rules = feed])
           /\ GoWith(w, "rules", [Has(w) EXCEPT !.rules = feed])
           /\ UNCHANGED <<status, activeVersion, versions, feed>>
  <2> DEFINE has == [Has(w) EXCEPT !.rules = feed]
             p == [Pinned(w) EXCEPT !.rules = feed]
  <2>1. has \in Inputs /\ has.rules = feed /\ has.dataset = Has(w).dataset
    BY <1>1 DEF Inputs
  <2>2. p \in Inputs /\ p.rules = feed /\ p.dataset = Pinned(w).dataset
    BY <1>1 DEF Inputs
  <2>3. worker' = [worker EXCEPT ![w].step = "rules", ![w].has = has] /\ Pins(w, p)
    BY <1>4 DEF GoWith, Pinning, Pins
  <2> HIDE DEF has, p
  <2>4. AgreeAt("rules", has, p)
    BY <1>1, <1>4, <2>1, <2>2, StepsApart DEF AgreeAt
  <2> QED
    BY <1>1, <1>4, <2>1, <2>2, <2>3, <2>4, Advance
<1> QED
  BY <1>2, <1>3, <1>4 DEF PinInstrumentRules

(* Funding history: the one pinned, or a fresh one not pinned yet.          *)
LEMMA FundingStep ==
  ASSUME ValidationInv, NEW w \in Workers, GetFundingSnapshot(w)
  PROVE  ValidationInv'
<1>1. /\ worker[w].step = "rules" /\ Has(w) \in Inputs /\ Pinned(w) \in Inputs /\ feed \in Feeds
      /\ (Leased(w) => Has(w).dataset = Pinned(w).dataset /\ Has(w).rules = Pinned(w).rules)
  BY InProgress, StepsApart DEF GetFundingSnapshot, Agrees, AgreeAt
<1>2. CASE Throws(w)
  BY <1>1, <1>2, Throwing
<1> {"funding", "history"} \subseteq Steps \ {"idle", "dead"}
  BY StepsApart
<1>3. CASE /\ GoWith(w, "funding", [Has(w) EXCEPT !.funding = Pinned(w).funding]) /\ UNCHANGED run
           /\ UNCHANGED <<status, activeVersion, versions, feed>>
  <2> DEFINE has == [Has(w) EXCEPT !.funding = Pinned(w).funding]
  <2>1. has \in Inputs /\ has.funding = Pinned(w).funding /\ has.dataset = Has(w).dataset
        /\ has.rules = Has(w).rules
    BY <1>1 DEF Inputs
  <2>2. worker' = [worker EXCEPT ![w].step = "funding", ![w].has = has] /\ Pins(w, Pinned(w))
    BY <1>3 DEF GoWith, Pins
  <2> HIDE DEF has
  <2>3. Leased(w) => AgreeAt("funding", has, Pinned(w))
    BY <1>1, <2>1, StepsApart DEF AgreeAt
  <2> QED
    BY <1>1, <1>3, <2>1, <2>2, <2>3, Advance
<1>4. CASE /\ Leased(w) /\ run' = Renewed(w)
           /\ GoWith(w, "history", [Has(w) EXCEPT !.funding = feed])
           /\ UNCHANGED <<status, activeVersion, versions, feed>>
  <2> DEFINE has == [Has(w) EXCEPT !.funding = feed]
  <2>1. has \in Inputs /\ has.dataset = Has(w).dataset /\ has.rules = Has(w).rules
    BY <1>1 DEF Inputs
  <2>2. worker' = [worker EXCEPT ![w].step = "history", ![w].has = has]
    BY <1>4 DEF GoWith
  <2>3. Pins(w, Pinned(w))
    BY <1>1, <1>4, InProgress DEF Pins, Renewed, Pinned, RunRow, ValidationInv, ValidationTypeOK
  <2> HIDE DEF has
  <2>4. AgreeAt("history", has, Pinned(w))
    BY <1>1, <1>4, <2>1, StepsApart DEF AgreeAt
  <2> QED
    BY <1>1, <1>4, <2>1, <2>2, <2>3, <2>4, Advance
<1> QED
  BY <1>2, <1>3, <1>4 DEF GetFundingSnapshot

(* What is already pinned wins over what the worker brings.                 *)
LEMMA PinningSteps ==
  ASSUME ValidationInv, NEW w \in Workers, PinFundingSnapshot(w) \/ PinValidation(w)
  PROVE  ValidationInv'
<1>1. /\ worker[w].step \in {"history", "funding"} /\ Has(w) \in Inputs /\ Pinned(w) \in Inputs
      /\ (Leased(w) => Has(w).dataset = Pinned(w).dataset /\ Has(w).rules = Pinned(w).rules)
      /\ (Leased(w) /\ worker[w].step = "funding" => Has(w).funding = Pinned(w).funding)
  BY InProgress, StepsApart DEF PinFundingSnapshot, PinValidation, Agrees, AgreeAt
<1>2. CASE Throws(w)
  BY <1>1, <1>2, Throwing
<1> {"funding", "ready"} \subseteq Steps \ {"idle", "dead"}
  BY StepsApart
<1>3. CASE PinFundingSnapshot(w) /\ ~Throws(w)
  <2> DEFINE kept == Kept(Pinned(w).funding, 0, Has(w).funding)
             has == [Has(w) EXCEPT !.funding = kept]
             p == [Pinned(w) EXCEPT !.funding = kept]
  <2>1. kept \in Feeds
    BY <1>1 DEF Kept, Inputs
  <2> HIDE DEF kept
  <2>2. /\ has \in Inputs /\ has.funding = kept /\ has.dataset = Has(w).dataset
        /\ has.rules = Has(w).rules
    BY <1>1, <2>1 DEF Inputs
  <2>3. /\ p \in Inputs /\ p.funding = kept /\ p.dataset = Pinned(w).dataset
        /\ p.rules = Pinned(w).rules
    BY <1>1, <2>1 DEF Inputs
  <2>4. /\ Leased(w) /\ UNCHANGED <<status, activeVersion, versions, feed>>
        /\ worker' = [worker EXCEPT ![w].step = "funding", ![w].has = has] /\ Pins(w, p)
    BY <1>3 DEF PinFundingSnapshot, GoWith, Pinning, Pins, kept
  <2> HIDE DEF has, p
  <2>5. AgreeAt("funding", has, p)
    BY <1>1, <2>2, <2>3, <2>4, StepsApart DEF AgreeAt
  <2> QED
    BY <1>1, <2>2, <2>3, <2>4, <2>5, Advance
<1>4. CASE PinValidation(w) /\ ~Throws(w)
  <2> DEFINE kept == Kept(Pinned(w).policy, Nothing, w)
             has == [Has(w) EXCEPT !.policy = kept]
             p == [Pinned(w) EXCEPT !.policy = kept]
  <2>1. kept \in Workers /\ kept # Nothing
    BY <1>1, Constants DEF Kept, Inputs
  <2> HIDE DEF kept
  <2>2. /\ has \in Inputs /\ has.policy = kept /\ has.dataset = Has(w).dataset
        /\ has.rules = Has(w).rules /\ has.funding = Has(w).funding
    BY <1>1, <2>1 DEF Inputs
  <2>3. /\ p \in Inputs /\ p.policy = kept /\ p.dataset = Pinned(w).dataset
        /\ p.rules = Pinned(w).rules /\ p.funding = Pinned(w).funding
    BY <1>1, <2>1 DEF Inputs
  <2>4. /\ Leased(w) /\ UNCHANGED <<status, activeVersion, versions, feed>>
        /\ worker[w].step = "funding"
        /\ worker' = [worker EXCEPT ![w].step = "ready", ![w].has = has] /\ Pins(w, p)
    BY <1>4 DEF PinValidation, GoWith, Pinning, Pins, kept
  <2> HIDE DEF has, p
  <2>5. AgreeAt("ready", has, p)
    BY <1>1, <2>1, <2>2, <2>3, <2>4, StepsApart DEF AgreeAt
  <2> QED
    BY <1>1, <2>2, <2>3, <2>4, <2>5, Advance
<1> QED
  BY <1>2, <1>3, <1>4
-----------------------------------------------------------------------------
(* A claim takes the lease from whoever had it.                             *)
LEMMA ClaimStep ==
  ASSUME ValidationInv, NEW w \in Workers, ClaimNext(w) PROVE ValidationInv'
<1>1. PICK r \in Runs :
        /\ Claimable(r)
        /\ run' = [run EXCEPT ![r].state = "RUNNING", ![r].owner = w, ![r].stale = FALSE,
                       ![r].attempts = IF @ < MaxAttempts THEN @ + 1 ELSE @]
        /\ worker' = [worker EXCEPT ![w] = [step |-> "claimed", run |-> r,
                          has |-> [NoInputs EXCEPT !.dataset = run[r].pinned.dataset]]]
  BY DEF ClaimNext
<1> DEFINE n == IF run[r].attempts < MaxAttempts THEN run[r].attempts + 1 ELSE run[r].attempts
           row == [run[r] EXCEPT !.state = "RUNNING", !.owner = w, !.stale = FALSE, !.attempts = n]
           has == [NoInputs EXCEPT !.dataset = run[r].pinned.dataset]
           hand == [step |-> "claimed", run |-> r, has |-> has]
<1>2. /\ worker \in [Workers -> [step: Steps, run: Runs \cup {Nothing}, has: Inputs]]
      /\ run \in [Runs -> RunRow \cup {Nothing}] /\ run[r] \in RunRow /\ Created(r)
  BY <1>1 DEF ValidationInv, ValidationTypeOK, Claimable, Created
<1>3. /\ row \in RunRow /\ row.state = "RUNNING" /\ row.owner = w /\ row.pinned = run[r].pinned
  <2>1. n \in 0..MaxAttempts
    BY <1>2, Constants DEF RunRow
  <2> HIDE DEF n
  <2> QED
    BY <1>2, <2>1 DEF RunRow, Active
<1>4. run' = [run EXCEPT ![r] = row]
  BY <1>1, <1>2
<1>5. has \in Inputs /\ has.dataset = row.pinned.dataset
  <2>1. run[r].pinned \in Inputs
    BY <1>2 DEF RunRow
  <2> QED
    BY <1>3, <2>1, NoInputsType DEF Inputs
<1> HIDE DEF row, has
<1>6. hand \in [step: Steps, run: Runs \cup {Nothing}, has: Inputs]
  BY <1>5, StepsApart
<1>7. worker' = [worker EXCEPT ![w] = hand]
  BY <1>1 DEF has
<1>8. /\ worker' \in [Workers -> [step: Steps, run: Runs \cup {Nothing}, has: Inputs]]
      /\ worker'[w] = hand /\ \A x \in Workers : x # w => worker'[x] = worker[x]
  BY <1>2, <1>6, <1>7
<1>9. /\ run' \in [Runs -> RunRow \cup {Nothing}]
      /\ OthersKeep(w) /\ ReproducibleResult'
  <2>1. Undisturbed(w, r, row) /\ Reproducible(row)
    BY <1>3 DEF Undisturbed, Reproducible
  <2> QED
    BY <1>3, <1>4, <1>8, <2>1, OneRow
<1>10. ValidationTypeOK'
  BY <1>8, <1>9 DEF ClaimNext, ValidationInv, ValidationTypeOK
<1>11. InHand(w)'
  <2>1. run'[r] = row /\ row # Nothing
    BY <1>2, <1>3, <1>4, Constants
  <2>2. worker'[w].step = "claimed" /\ worker'[w].run = r /\ worker'[w].has = has
    BY <1>8
  <2> QED
    BY <1>5, <2>1, <2>2, StepsApart DEF InHand, Agrees, AgreeAt, Has, Pinned, Created
<1> QED
  BY <1>9, <1>10, <1>11, Hands

(* The result is stored with what it was computed from, under the lease.    *)
LEMMA CompleteStep ==
  ASSUME ValidationInv, NEW w \in Workers, Complete(w) PROVE ValidationInv'
<1>1. /\ worker[w].step = "ready" /\ Has(w) \in Inputs /\ Pinned(w) \in Inputs
      /\ worker[w].run \in Runs /\ Created(worker[w].run) /\ run[worker[w].run] \in RunRow
      /\ Leased(w) => Agrees(w)
  BY InProgress DEF Complete
<1>2. CASE ~Completable(w)
  BY <1>1, <1>2, Throwing DEF Complete
<1>3. CASE Completable(w)
  <2>1. PICK verdict \in {"PASSED", "REJECTED"} :
          /\ run' = [run EXCEPT ![worker[w].run] =
                [@ EXCEPT !.state = verdict, !.owner = Nothing, !.stale = FALSE, !.basis = Has(w)]]
          /\ worker' = [worker EXCEPT ![w] = Idle]
          /\ UNCHANGED <<status, activeVersion, versions, feed>>
    BY <1>3 DEF Complete
  <2> DEFINE r == worker[w].run
             row == [run[r] EXCEPT !.state = verdict, !.owner = Nothing, !.stale = FALSE,
                                   !.basis = Has(w)]
  <2>2. /\ row \in RunRow /\ row.state = verdict /\ row.basis = Has(w) /\ row.pinned = Pinned(w)
    BY <1>1 DEF RunRow, Pinned
  <2>3. Has(w) = Pinned(w) /\ Pinned(w).policy # Nothing
    BY <1>1, <1>3, StepsApart, InputsEqual DEF Completable, Agrees, AgreeAt
  <2>4. run' = [run EXCEPT ![r] = row]
    BY <2>1
  <2> HIDE DEF row
  <2>5. /\ worker' \in [Workers -> [step: Steps, run: Runs \cup {Nothing}, has: Inputs]]
        /\ worker'[w].step = "idle" /\ \A x \in Workers : x # w => worker'[x] = worker[x]
    BY <2>1, NoInputsType, StepsApart DEF Idle, ValidationInv, ValidationTypeOK
  <2>6. Reproducible(row) /\ Undisturbed(w, r, row)
    BY <2>2, <2>3 DEF Reproducible, Undisturbed
  <2>7. r \in Runs
    BY <1>1
  <2> HIDE DEF r
  <2>8. /\ run' \in [Runs -> RunRow \cup {Nothing}]
        /\ OthersKeep(w) /\ ReproducibleResult'
    BY <2>2, <2>4, <2>5, <2>6, <2>7, OneRow
  <2>9. ValidationTypeOK'
    BY <2>1, <2>5, <2>8 DEF ValidationInv, ValidationTypeOK
  <2> QED
    BY <2>5, <2>8, <2>9, Hands DEF InHand
<1> QED
  BY <1>2, <1>3

(* A failure is stored under the lease, or forgotten.                       *)
LEMMA FailStep ==
  ASSUME ValidationInv, NEW w \in Workers, Fail(w) PROVE ValidationInv'
<1>1. /\ worker[w].step = "failing" /\ worker[w].run \in Runs
      /\ run[worker[w].run] \in RunRow
  BY InProgress DEF Fail
<1>2. /\ worker' \in [Workers -> [step: Steps, run: Runs \cup {Nothing}, has: Inputs]]
      /\ worker'[w].step = "idle" /\ \A x \in Workers : x # w => worker'[x] = worker[x]
  BY NoInputsType, StepsApart DEF Fail, Idle, ValidationInv, ValidationTypeOK
<1>3. /\ run' \in [Runs -> RunRow \cup {Nothing}]
      /\ OthersKeep(w) /\ ReproducibleResult'
  <2>1. CASE Leased(w)
    <3> DEFINE r == worker[w].run
               row == [run[r] EXCEPT !.state = "FAILED", !.owner = Nothing, !.stale = FALSE]
    <3>1. row \in RunRow /\ row.state = "FAILED"
      BY <1>1 DEF RunRow
    <3>2. run' = [run EXCEPT ![r] = row] /\ r \in Runs
      BY <1>1, <2>1 DEF Fail
    <3> HIDE DEF row, r
    <3>3. Reproducible(row) /\ Undisturbed(w, r, row)
      BY <3>1 DEF Reproducible, Undisturbed
    <3> QED
      BY <1>2, <3>1, <3>2, <3>3, OneRow
  <2>2. CASE ~Leased(w)
    <3>1. UNCHANGED run
      BY <2>2 DEF Fail
    <3> QED
      BY <1>2, <3>1 DEF OthersKeep, ReproducibleResult, Created, ValidationInv, ValidationTypeOK
  <2> QED
    BY <2>1, <2>2
<1>4. ValidationTypeOK'
  BY <1>2, <1>3 DEF Fail, ValidationInv, ValidationTypeOK, StrategyStatuses
<1> QED
  BY <1>2, <1>3, <1>4, Hands DEF InHand

(* A process that ends has nothing in hand.                                 *)
LEMMA CrashStep ==
  ASSUME ValidationInv, NEW w \in Workers, Crash(w) PROVE ValidationInv'
<1>1. /\ worker' \in [Workers -> [step: Steps, run: Runs \cup {Nothing}, has: Inputs]]
      /\ worker'[w].step = "dead" /\ \A x \in Workers : x # w => worker'[x] = worker[x]
  BY NoInputsType, StepsApart DEF Crash, Idle, ValidationInv, ValidationTypeOK
<1>2. OthersKeep(w) /\ ReproducibleResult'
  BY <1>1 DEF Crash, OthersKeep, ReproducibleResult, Created, ValidationInv
<1>3. ValidationTypeOK'
  BY <1>1 DEF Crash, ValidationInv, ValidationTypeOK
<1> QED
  BY <1>1, <1>2, <1>3, Hands DEF InHand

-----------------------------------------------------------------------------
(* Steps of no worker. *)
LEMMA NoHand ==
  ASSUME ValidationInv, UNCHANGED worker, NEW w, OthersKeep(w), w \notin Workers,
         ValidationTypeOK', ReproducibleResult'
  PROVE  ValidationInv'
  BY Hands

(* A new run is in nobody's hand.                                           *)
LEMMA QueueStep ==
  ASSUME ValidationInv, QueueRun PROVE ValidationInv'
<1>1. PICK r \in Runs, known \in {0} \cup {run[x].pinned.dataset : x \in {y \in Runs : Created(y)}} :
        /\ ~Created(r)
        /\ run' = [run EXCEPT ![r] =
              [version |-> versions, state |-> "QUEUED",
               pinned |-> [NoInputs EXCEPT !.dataset = known], basis |-> NoInputs,
               owner |-> Nothing, stale |-> FALSE, attempts |-> 0]]
  BY DEF QueueRun
<1> DEFINE pinned == [NoInputs EXCEPT !.dataset = known]
           row == [version |-> versions, state |-> "QUEUED", pinned |-> pinned,
                   basis |-> NoInputs, owner |-> Nothing, stale |-> FALSE, attempts |-> 0]
<1>2. known \in Feeds
  <2>1. \A x \in Runs : Created(x) => run[x].pinned \in Inputs
    BY DEF Created, RunRow, ValidationInv, ValidationTypeOK
  <2> QED
    BY <1>1, <2>1, Constants DEF Inputs, Feeds
<1>3. pinned \in Inputs
  BY <1>2, NoInputsType DEF Inputs
<1> HIDE DEF pinned
<1>4. row \in RunRow /\ row.state = "QUEUED"
  BY <1>3, NoInputsType, Constants DEF RunRow, Active, ValidationInv, ValidationTypeOK
<1>5. run' = [run EXCEPT ![r] = row] /\ ~Created(r)
  BY <1>1 DEF pinned
<1> HIDE DEF row
<1>6. Reproducible(row) /\ Undisturbed(Nothing, r, row)
  BY <1>4, <1>5 DEF Reproducible, Undisturbed
<1>7. UNCHANGED worker
  BY DEF QueueRun
<1>8. /\ run' \in [Runs -> RunRow \cup {Nothing}]
      /\ OthersKeep(Nothing) /\ ReproducibleResult'
  BY <1>4, <1>5, <1>6, <1>7, OneRow
<1>9. ValidationTypeOK'
  BY <1>8 DEF QueueRun, ValidationInv, ValidationTypeOK, StrategyStatuses
<1> QED
  BY <1>7, <1>8, <1>9, Constants, NoHand

(* A lease that ages is still the lease of its owner.                       *)
LEMMA AgeStep ==
  ASSUME ValidationInv, NEW r \in Runs, LeaseAges(r) PROVE ValidationInv'
<1> DEFINE row == [run[r] EXCEPT !.stale = TRUE]
<1>1. run[r] \in RunRow
  BY DEF LeaseAges, Created, ValidationInv, ValidationTypeOK
<1>2. /\ row \in RunRow /\ row.state = run[r].state /\ row.owner = run[r].owner
      /\ row.pinned = run[r].pinned /\ run[r].state = "RUNNING"
  BY <1>1 DEF RunRow, LeaseAges
<1>3. run' = [run EXCEPT ![r] = row]
  BY DEF LeaseAges
<1> HIDE DEF row
<1>4. Reproducible(row) /\ Undisturbed(Nothing, r, row)
  BY <1>2 DEF Reproducible, Undisturbed
<1>5. UNCHANGED worker
  BY DEF LeaseAges
<1>6. /\ run' \in [Runs -> RunRow \cup {Nothing}]
      /\ OthersKeep(Nothing) /\ ReproducibleResult'
  BY <1>2, <1>3, <1>4, <1>5, OneRow
<1>7. ValidationTypeOK'
  BY <1>6 DEF LeaseAges, ValidationInv, ValidationTypeOK
<1> QED
  BY <1>5, <1>6, <1>7, Constants, NoHand

(* The status of the strategy, its versions and the outside data are in no  *)
(* hand.                                                                    *)
LEMMA StatusStep ==
  ASSUME ValidationInv, UNCHANGED <<run, worker>>, status' \in StrategyStatuses,
         activeVersion' \in 0..MaxVersions, versions' \in Versions, feed' \in 1..MaxFeed
  PROVE  ValidationInv'
  BY DEF ValidationInv, ValidationTypeOK, InHand, ReproducibleResult, Created, Leased,
         Agrees, Has, Pinned
-----------------------------------------------------------------------------
(* Connections, verifications and deployments. *)
ControlRows ==
    /\ connection \in [Connections -> ConnectionRow \cup {Nothing}]
    /\ check \in [Checkers -> CheckState]
    /\ deployment \in [Deployments -> DeploymentRow \cup {Nothing}]
    /\ transition \in [Transitions -> {NoTransition} \cup
                          [from: StrategyStatuses, to: StrategyStatuses]]
    /\ exchange \in BOOLEAN /\ instrument \in BOOLEAN
    /\ market \in [listed: BOOLEAN, removing: BOOLEAN]
    /\ sync \in [step: {"sync", "list", "read", "pause"}, blocked: BOOLEAN,
                 affected: SUBSET Deployments]

Proven(row) == row.state = "ACTIVE" => row.proven = row.revision
ConnectionsProven == \A c \in Connections : connection[c] # Nothing => Proven(connection[c])

(* Who records a refusal has read every deployment it is to suspend.        *)
Covers(p, d) ==
    Made(d) /\ deployment[d].connection = check[p].connection =>
        /\ deployment[d].state = "READY" => d \in check[p].ready
        /\ deployment[d].state = "RUNNING" => d \in check[p].running
CheckOK(p) ==
    check[p].step # "idle" =>
        /\ check[p].connection \in Connections /\ connection[check[p].connection] # Nothing
        /\ check[p].step = "recording" => \A d \in Deployments : Covers(p, d)

(* A deployment that runs or pauses has its run, and so has a position.     *)
Supervised(d) == Made(d) =>
    /\ deployment[d].state \in {"RUNNING", "PAUSED"} => deployment[d].run
    /\ deployment[d].holding => deployment[d].state \in {"RUNNING", "PAUSED"}

(* A deployment that may trade is on a connection in order. *)
OnVerified(d) ==
    Made(d) /\ deployment[d].state \in {"READY", "RUNNING"} =>
        LET c == deployment[d].connection
        IN  /\ connection[c] # Nothing /\ ~connection[c].revoked
            /\ connection[c].state = "ACTIVE"

ControlInv ==
    /\ ControlRows
    /\ ConnectionsProven
    /\ \A p \in Checkers : CheckOK(p)
    /\ \A d \in Deployments : Supervised(d) /\ OnVerified(d)

(* The rows a step does not write.                                          *)
LEMMA ControlUntouched ==
  ASSUME ControlInv, UNCHANGED <<connection, check, deployment>>,
         transition' \in [Transitions -> {NoTransition} \cup
                             [from: StrategyStatuses, to: StrategyStatuses]],
         exchange' \in BOOLEAN, instrument' \in BOOLEAN,
         market' \in [listed: BOOLEAN, removing: BOOLEAN],
         sync' \in [step: {"sync", "list", "read", "pause"}, blocked: BOOLEAN,
                    affected: SUBSET Deployments]
  PROVE  ControlInv'
<1>1. ControlRows'
  BY DEF ControlInv, ControlRows
<1> QED
  BY <1>1 DEF ControlInv, ConnectionsProven, CheckOK, Covers, Supervised, OnVerified, Made

(* A connection changes, and perhaps ends a verification of it.             *)
LEMMA ConnectionChanges ==
  ASSUME ControlInv, NEW c \in Connections, NEW row \in ConnectionRow,
         connection' = [connection EXCEPT ![c] = row], Proven(row),
         UNCHANGED <<deployment, transition, exchange, instrument, market, sync>>,
         \A d \in Deployments :
            Made(d) /\ deployment[d].state \in {"READY", "RUNNING"} /\ deployment[d].connection = c =>
                ~row.revoked /\ row.state = "ACTIVE",
         check' \in [Checkers -> CheckState],
         \A p \in Checkers : CheckOK(p)'
  PROVE  ControlInv'
<1>1. /\ connection' \in [Connections -> ConnectionRow \cup {Nothing}]
      /\ connection'[c] = row /\ \A x \in Connections : x # c => connection'[x] = connection[x]
  BY DEF ControlInv, ControlRows
<1>2. ControlRows'
  BY <1>1 DEF ControlInv, ControlRows
<1>3. ConnectionsProven'
  BY <1>1 DEF ControlInv, ConnectionsProven
<1>4. ASSUME NEW d \in Deployments PROVE Supervised(d)' /\ OnVerified(d)'
  <2>1. Supervised(d) /\ OnVerified(d)
    BY DEF ControlInv
  <2>2. Made(d) => deployment[d].connection \in Connections
    BY DEF Made, DeploymentRow, ControlInv, ControlRows
  <2>3. Supervised(d)'
    BY <2>1 DEF Supervised, Made
  <2>4. OnVerified(d)'
    BY <1>1, <2>1, <2>2, Constants DEF OnVerified, Made
  <2> QED
    BY <2>3, <2>4
<1> QED
  BY <1>2, <1>3, <1>4 DEF ControlInv

(* Verifications that do not change while connections stay.                 *)
LEMMA ChecksKept ==
  ASSUME ControlInv, UNCHANGED deployment, NEW p,
         \A x \in Checkers : x # p => check'[x] = check[x],
         \A c \in Connections : connection[c] # Nothing => connection'[c] # Nothing,
         p \in Checkers => CheckOK(p)'
  PROVE  \A x \in Checkers : CheckOK(x)'
<1> SUFFICES ASSUME NEW x \in Checkers, x # p PROVE CheckOK(x)'
  OBVIOUS
<1> QED
  BY DEF ControlInv, CheckOK, Covers, Made

(* A connection row changes, no verification does.                          *)
LEMMA ChecksUnchanged ==
  ASSUME ControlInv, UNCHANGED <<deployment, check>>, NEW c, NEW row \in ConnectionRow,
         connection' = [connection EXCEPT ![c] = row]
  PROVE  \A x \in Checkers : CheckOK(x)'
<1>1. \A x \in Connections : connection[x] # Nothing => connection'[x] # Nothing
  BY Constants DEF ControlInv, ControlRows
<1> QED
  BY <1>1 DEF ControlInv, CheckOK, Covers, Made

(* A verification that ends holds nothing.                                  *)
LEMMA CheckEnds ==
  ASSUME ControlInv, NEW p \in Checkers, Finished(p)
  PROVE  /\ check' \in [Checkers -> CheckState] /\ check'[p].step = "idle"
         /\ \A x \in Checkers : x # p => check'[x] = check[x]
         /\ CheckOK(p)'
<1>1. NoCheck \in CheckState /\ NoCheck.step = "idle"
  BY Constants DEF NoCheck, CheckState
<1>2. check \in [Checkers -> CheckState] /\ check' = [check EXCEPT ![p] = NoCheck]
  BY DEF Finished, ControlInv, ControlRows
<1>3. check'[p].step = "idle"
  BY <1>1, <1>2
<1> QED
  BY <1>1, <1>2, <1>3 DEF CheckOK

(* Creation, rotation and revocation of a connection.                       *)
LEMMA ManageConnections ==
  ASSUME ControlInv, NEW c \in Connections, CreateConnection(c) \/ RotateCredentials(c) \/ Revoke(c)
  PROVE  ControlInv'
<1>0. /\ UNCHANGED <<check, deployment, transition, exchange, instrument, market, sync>>
      /\ check' \in [Checkers -> CheckState]
      /\ connection \in [Connections -> ConnectionRow \cup {Nothing}]
  BY DEF CreateConnection, RotateCredentials, Revoke, ConnectionsOnly, ControlInv, ControlRows
<1>1. CASE CreateConnection(c)
  <2> DEFINE row == [state |-> "UNVERIFIED", revoked |-> FALSE, revision |-> 1,
                     proven |-> 0, lease |-> Nothing]
  <2>1. row \in ConnectionRow /\ row.state = "UNVERIFIED"
    <3>1. 1 \in 1..MaxRevision /\ 0 \in 0..MaxRevision
      BY Constants
    <3> QED
      BY <3>1 DEF ConnectionRow
  <2>2. connection' = [connection EXCEPT ![c] = row] /\ connection[c] = Nothing
    BY <1>1 DEF CreateConnection
  <2> HIDE DEF row
  <2>3. \A p \in Checkers : CheckOK(p)'
    BY <1>0, <2>1, <2>2, ChecksUnchanged
  <2>4. \A d \in Deployments :
            Made(d) /\ deployment[d].state \in {"READY", "RUNNING"} => deployment[d].connection # c
    BY <2>2 DEF ControlInv, OnVerified
  <2> QED
    BY <1>0, <2>1, <2>2, <2>3, <2>4, ConnectionChanges DEF Proven
<1>2. CASE RotateCredentials(c)
  <2> DEFINE row == [connection[c] EXCEPT !.state = "UNVERIFIED", !.revision = @ + 1, !.lease = Nothing]
  <2>1. connection[c] \in ConnectionRow /\ connection[c].revision < MaxRevision
    BY <1>0, <1>2 DEF RotateCredentials, Usable
  <2>2. row \in ConnectionRow /\ row.state = "UNVERIFIED"
    <3>1. connection[c].revision + 1 \in 1..MaxRevision
      BY <2>1, Constants DEF ConnectionRow
    <3> QED
      BY <2>1, <3>1 DEF ConnectionRow
  <2>3. connection' = [connection EXCEPT ![c] = row]
    BY <1>2 DEF RotateCredentials
  <2> HIDE DEF row
  <2>4. \A p \in Checkers : CheckOK(p)'
    BY <1>0, <2>2, <2>3, ChecksUnchanged
  <2>5. \A d \in Deployments :
            Made(d) /\ deployment[d].state \in {"READY", "RUNNING"} => deployment[d].connection # c
    BY <1>2 DEF RotateCredentials, SafeToRotate, Using, LiveDeployments, In, Live
  <2> QED
    BY <1>0, <2>2, <2>3, <2>4, <2>5, ConnectionChanges DEF Proven
<1>3. CASE Revoke(c)
  <2> DEFINE row == [connection[c] EXCEPT !.revoked = TRUE]
  <2>1. connection[c] \in ConnectionRow /\ Proven(connection[c])
    BY <1>0, <1>3 DEF Revoke, Usable, ControlInv, ConnectionsProven
  <2>2. row \in ConnectionRow /\ Proven(row)
    BY <2>1 DEF ConnectionRow, Proven
  <2>3. connection' = [connection EXCEPT ![c] = row]
    BY <1>3 DEF Revoke
  <2> HIDE DEF row
  <2>4. \A p \in Checkers : CheckOK(p)'
    BY <1>0, <2>2, <2>3, ChecksUnchanged
  <2>5. \A d \in Deployments :
            Made(d) /\ deployment[d].state \in {"READY", "RUNNING"} => deployment[d].connection # c
    BY <1>3 DEF Revoke, Using, LiveDeployments, In, Live
  <2> QED
    BY <1>0, <2>2, <2>3, <2>4, <2>5, ConnectionChanges
<1> QED
  BY <1>1, <1>2, <1>3

(* Verifications that only ask, or are given up. *)
LEMMA ChecksOnly ==
  ASSUME ControlInv, NEW p \in Checkers, NEW k \in CheckState, check' = [check EXCEPT ![p] = k],
         UNCHANGED <<connection, deployment, transition, exchange, instrument, market, sync>>,
         CheckOK(p)'
  PROVE  ControlInv'
<1>1. /\ check' \in [Checkers -> CheckState]
      /\ \A x \in Checkers : x # p => check'[x] = check[x]
  BY DEF ControlInv, ControlRows
<1>2. \A x \in Checkers : CheckOK(x)'
  BY <1>1, ChecksKept
<1> QED
  BY <1>1, <1>2 DEF ControlInv, ControlRows, ConnectionsProven, Supervised, OnVerified, Made

(* A request or a worker reads the credentials and asks the exchange.       *)
LEMMA AskSteps ==
  ASSUME ControlInv, NEW p \in Checkers, VerifyRead(p) \/ ClaimDueVerification(p)
  PROVE  ControlInv'
<1>1. /\ UNCHANGED <<deployment, transition, exchange, instrument, market, sync>>
      /\ connection \in [Connections -> ConnectionRow \cup {Nothing}]
      /\ check \in [Checkers -> CheckState]
  BY DEF VerifyRead, ClaimDueVerification, ConnectionsOnly, ControlInv, ControlRows
<1>2. PICK c \in Connections :
        /\ Usable(c)
        /\ check' = [check EXCEPT ![p] = [NoCheck EXCEPT !.step = "asked", !.connection = c,
                                              !.revision = connection[c].revision]]
        /\ \/ UNCHANGED connection
           \/ p \in Workers /\ connection' = [connection EXCEPT ![c].lease = p]
  BY DEF VerifyRead, ClaimDueVerification
<1> DEFINE k == [NoCheck EXCEPT !.step = "asked", !.connection = c,
                                !.revision = connection[c].revision]
<1>3. connection[c] \in ConnectionRow /\ connection[c] # Nothing /\ ~connection[c].revoked
      /\ Proven(connection[c])
  BY <1>1, <1>2 DEF Usable, ControlInv, ConnectionsProven
<1>4. k \in CheckState /\ k.step = "asked" /\ k.connection = c
  <2>1. connection[c].revision \in 0..MaxRevision /\ 0 \in 0..MaxRevision
    BY <1>3, Constants DEF ConnectionRow
  <2> HIDE <1>3
  <2> QED
    BY <2>1 DEF NoCheck, CheckState
<1>5. check' = [check EXCEPT ![p] = k]
  BY <1>2
<1> HIDE DEF k
<1>6. check' \in [Checkers -> CheckState] /\ check'[p] = k
      /\ \A x \in Checkers : x # p => check'[x] = check[x]
  BY <1>1, <1>4, <1>5
<1>7. CASE UNCHANGED connection
  <2>1. CheckOK(p)'
    BY <1>3, <1>4, <1>6, <1>7 DEF CheckOK
  <2> QED
    BY <1>1, <1>4, <1>5, <1>7, <2>1, ChecksOnly
<1>8. CASE p \in Workers /\ connection' = [connection EXCEPT ![c].lease = p]
  <2> DEFINE row == [connection[c] EXCEPT !.lease = p]
  <2>1. row \in ConnectionRow /\ Proven(row) /\ row.state = connection[c].state
        /\ row.revoked = connection[c].revoked
    BY <1>3, <1>8 DEF ConnectionRow, Proven
  <2>2. connection' = [connection EXCEPT ![c] = row]
    BY <1>8
  <2> HIDE DEF row
  <2>3. \A x \in Connections : connection[x] # Nothing => connection'[x] # Nothing
    BY <1>1, <2>1, <2>2, Constants
  <2>4. CheckOK(p)'
    BY <1>3, <1>4, <1>6, <2>3 DEF CheckOK
  <2>5. \A x \in Checkers : CheckOK(x)'
    BY <1>1, <1>6, <2>3, <2>4, ChecksKept
  <2>6. \A d \in Deployments :
            Made(d) /\ deployment[d].state \in {"READY", "RUNNING"} /\ deployment[d].connection = c =>
                ~row.revoked /\ row.state = "ACTIVE"
    BY <2>1 DEF ControlInv, OnVerified
  <2> QED
    BY <1>1, <1>6, <2>1, <2>2, <2>5, <2>6, ConnectionChanges
<1> QED
  BY <1>2, <1>7, <1>8

(* The answer of the exchange is recorded, or comes too late.               *)
LEMMA AnswerSteps ==
  ASSUME ControlInv, NEW p \in Checkers,
         VerificationConflict(p) \/ RecordActive(p) \/ RecordUnavailable(p)
  PROVE  ControlInv'
<1> DEFINE c == check[p].connection
<1>1. /\ UNCHANGED <<deployment, transition, exchange, instrument, market, sync>>
      /\ Finished(p) /\ c \in Connections
      /\ connection \in [Connections -> ConnectionRow \cup {Nothing}]
      /\ check[p] \in CheckState
  BY DEF VerificationConflict, RecordActive, RecordUnavailable, ConnectionsOnly, Asked,
         ControlInv, ControlRows, CheckOK
<1>2. CASE VerificationConflict(p)
  <2>1. NoCheck \in CheckState
    BY Constants DEF NoCheck, CheckState
  <2> QED
    BY <1>1, <1>2, <2>1, CheckEnds, ChecksOnly DEF VerificationConflict, Finished
<1>3. CASE RecordActive(p) \/ RecordUnavailable(p)
  <2>1. /\ connection[c] # Nothing /\ ~connection[c].revoked
        /\ connection[c].revision = check[p].revision /\ connection[c] \in ConnectionRow
        /\ Proven(connection[c])
    BY <1>1, <1>3 DEF RecordActive, RecordUnavailable, VerificationOwned, Usable,
                      ControlInv, ConnectionsProven
  <2>2. PICK row \in ConnectionRow :
          /\ connection' = [connection EXCEPT ![c] = row] /\ Proven(row) /\ ~row.revoked
          /\ row.state = "ACTIVE" \/ row.state = connection[c].state
    <3>1. CASE RecordActive(p)
      <4> DEFINE new == [connection[c] EXCEPT !.state = "ACTIVE", !.proven = check[p].revision,
                                              !.lease = Nothing]
      <4>1. new \in ConnectionRow /\ Proven(new) /\ ~new.revoked /\ new.state = "ACTIVE"
        <5>1. check[p].revision \in 0..MaxRevision
          BY <1>1 DEF CheckState
        <5> QED
          BY <2>1, <5>1 DEF ConnectionRow, Proven
      <4>2. connection' = [connection EXCEPT ![c] = new]
        BY <3>1 DEF RecordActive
      <4> QED
        BY <4>1, <4>2
    <3>2. CASE RecordUnavailable(p)
      <4> DEFINE new == [connection[c] EXCEPT !.lease = Nothing]
      <4>1. new \in ConnectionRow /\ Proven(new) /\ ~new.revoked /\ new.state = connection[c].state
        BY <2>1 DEF ConnectionRow, Proven
      <4>2. connection' = [connection EXCEPT ![c] = new]
        BY <3>2 DEF RecordUnavailable
      <4> QED
        BY <4>1, <4>2
    <3> QED
      BY <1>3, <3>1, <3>2
  <2>3. \A x \in Connections : connection[x] # Nothing => connection'[x] # Nothing
    BY <1>1, <2>2, Constants
  <2>4. /\ check' \in [Checkers -> CheckState]
        /\ \A x \in Checkers : CheckOK(x)'
    BY <1>1, <2>3, CheckEnds, ChecksKept
  <2>5. \A d \in Deployments :
            Made(d) /\ deployment[d].state \in {"READY", "RUNNING"} /\ deployment[d].connection = c =>
                ~row.revoked /\ row.state = "ACTIVE"
    BY <2>2 DEF ControlInv, OnVerified
  <2> HIDE DEF c
  <2> QED
    BY <1>1, <2>2, <2>4, <2>5, ConnectionChanges
<1> QED
  BY <1>2, <1>3

(* The transaction that records a refusal has locked the connection.        *)
LEMMA RefusalReads ==
  ASSUME ControlInv, NEW p \in Checkers, RecordInvalidRead(p) PROVE ControlInv'
<1> DEFINE c == check[p].connection
           affected(state) == {d \in Using(c) : In(d, {state})}
           k == [check[p] EXCEPT !.step = "recording", !.ready = affected("READY"),
                                 !.running = affected("RUNNING")]
<1>1. /\ UNCHANGED <<connection, deployment, transition, exchange, instrument, market, sync>>
      /\ c \in Connections /\ connection[c] # Nothing /\ check[p] \in CheckState
      /\ check \in [Checkers -> CheckState]
  BY DEF RecordInvalidRead, ConnectionsOnly, Asked, ControlInv, ControlRows, CheckOK
<1>2. affected("READY") \in SUBSET Deployments /\ affected("RUNNING") \in SUBSET Deployments
  BY DEF Using, LiveDeployments
<1>3. \A d \in Deployments : Made(d) /\ deployment[d].connection = c =>
        /\ deployment[d].state = "READY" => d \in affected("READY")
        /\ deployment[d].state = "RUNNING" => d \in affected("RUNNING")
  BY DEF Using, LiveDeployments, In, Live
<1>4. check' = [check EXCEPT ![p] = k]
  BY DEF RecordInvalidRead
<1> HIDE DEF affected
<1>5. k \in CheckState /\ k.connection = c /\ k.step = "recording"
      /\ k.ready = affected("READY") /\ k.running = affected("RUNNING")
  BY <1>1, <1>2 DEF CheckState
<1>6. check'[p] = k
  BY <1>1, <1>4
<1> HIDE DEF k, c
<1>7. CheckOK(p)'
  BY <1>1, <1>3, <1>5, <1>6 DEF CheckOK, Covers, Made
<1> QED
  BY <1>1, <1>4, <1>5, <1>7, ChecksOnly

(* Refused credentials: what runs on them is suspended with the connection. *)
LEMMA RefusalCommits ==
  ASSUME ControlInv, NEW p \in Checkers, RecordInvalidCommit(p) PROVE ControlInv'
<1> DEFINE c == check[p].connection
           row == [connection[c] EXCEPT !.state = "INVALID", !.proven = check[p].revision,
                                        !.lease = Nothing]
<1>1. /\ UNCHANGED <<transition, exchange, instrument, market, sync>>
      /\ Finished(p) /\ check[p].step = "recording" /\ c \in Connections
      /\ connection[c] \in ConnectionRow /\ check[p].revision \in 0..MaxRevision
      /\ connection \in [Connections -> ConnectionRow \cup {Nothing}]
      /\ deployment \in [Deployments -> DeploymentRow \cup {Nothing}]
      /\ \A d \in Deployments : Covers(p, d)
  BY DEF RecordInvalidCommit, ControlInv, ControlRows, CheckOK, CheckState
<1>2. row \in ConnectionRow /\ row.state = "INVALID"
  BY <1>1 DEF ConnectionRow
<1>3. connection' = [connection EXCEPT ![c] = row]
  BY DEF RecordInvalidCommit
<1>4. deployment' = Suspend(p)
  BY DEF RecordInvalidCommit
<1> HIDE DEF row, c
<1>5. /\ connection' \in [Connections -> ConnectionRow \cup {Nothing}]
      /\ connection'[c] = row /\ \A x \in Connections : x # c => connection'[x] = connection[x]
      /\ \A x \in Connections : connection[x] # Nothing => connection'[x] # Nothing
  BY <1>1, <1>2, <1>3, Constants
<1>6. ConnectionsProven'
  BY <1>2, <1>5 DEF ControlInv, ConnectionsProven, Proven
<1>7. ASSUME NEW d \in Deployments
      PROVE  \/ deployment'[d] = deployment[d]
             \/ /\ deployment[d] \in DeploymentRow /\ deployment[d].state = "READY"
                /\ deployment'[d] = [deployment[d] EXCEPT !.state = "FAILED"]
             \/ /\ deployment[d] \in DeploymentRow /\ deployment[d].state = "RUNNING"
                /\ deployment'[d] = [deployment[d] EXCEPT !.state = "PAUSED"]
  BY <1>1, <1>4 DEF Suspend, In, Made
<1>8. ASSUME NEW d \in Deployments
      PROVE  /\ deployment'[d] \in DeploymentRow \cup {Nothing}
             /\ Supervised(d)'
             /\ Made(d)' => Made(d) /\ deployment'[d].connection = deployment[d].connection
             /\ Made(d)' /\ deployment'[d].state \in {"READY", "RUNNING"}
                   => deployment'[d] = deployment[d]
  <2>1. Supervised(d)
    BY DEF ControlInv
  <2>2. CASE deployment'[d] = deployment[d]
    BY <1>1, <2>1, <2>2 DEF Supervised, Made
  <2>3. CASE deployment'[d] # deployment[d]
    <3>1. /\ deployment[d] \in DeploymentRow /\ deployment'[d] \in DeploymentRow
          /\ deployment'[d].connection = deployment[d].connection
          /\ deployment'[d].holding = deployment[d].holding
          /\ deployment'[d].run = deployment[d].run
          /\ \/ deployment[d].state = "READY" /\ deployment'[d].state = "FAILED"
             \/ deployment[d].state = "RUNNING" /\ deployment'[d].state = "PAUSED"
      BY <1>7, <2>3 DEF DeploymentRow
    <3> QED
      BY <2>1, <3>1, Constants DEF Supervised, Made
  <2> QED
    BY <2>2, <2>3
<1>9. \A d \in Deployments : Made(d) /\ deployment[d].connection = c
          /\ deployment[d].state \in {"READY", "RUNNING"} => deployment'[d] # deployment[d]
  <2> SUFFICES ASSUME NEW d \in Deployments, Made(d), deployment[d].connection = c,
                      deployment[d].state \in {"READY", "RUNNING"}
               PROVE  deployment'[d].state # deployment[d].state
    OBVIOUS
  <2>1. /\ deployment[d].state = "READY" => d \in check[p].ready
        /\ deployment[d].state = "RUNNING" => d \in check[p].running
    BY <1>1 DEF Covers, c
  <2>2. deployment[d] \in DeploymentRow
    BY <1>1 DEF Made
  <2>3. CASE deployment[d].state = "READY"
    <3>1. deployment'[d] = [deployment[d] EXCEPT !.state = "FAILED"]
      BY <1>4, <2>1, <2>3 DEF Suspend, In, Made
    <3> QED
      BY <2>2, <2>3, <3>1 DEF DeploymentRow
  <2>4. CASE deployment[d].state = "RUNNING"
    <3>1. deployment'[d] = [deployment[d] EXCEPT !.state = "PAUSED"]
      BY <1>4, <2>1, <2>4 DEF Suspend, In, Made
    <3> QED
      BY <2>2, <2>4, <3>1 DEF DeploymentRow
  <2> QED
    BY <2>3, <2>4
<1>10. ASSUME NEW d \in Deployments PROVE OnVerified(d)'
  <2>1. OnVerified(d) /\ (Made(d) => deployment[d].connection \in Connections)
    BY <1>1 DEF ControlInv, Made, DeploymentRow
  <2> SUFFICES ASSUME Made(d)', deployment'[d].state \in {"READY", "RUNNING"}
               PROVE  OnVerified(d)'
    BY DEF OnVerified
  <2>2. Made(d) /\ deployment'[d] = deployment[d]
    BY <1>8
  <2>3. deployment[d].connection # c
    BY <1>9, <2>2
  <2> QED
    BY <1>5, <2>1, <2>2, <2>3 DEF OnVerified, Made
<1>11. ASSUME NEW x \in Checkers PROVE CheckOK(x)'
  <2>1. CASE x = p
    BY <1>1, <2>1, CheckEnds
  <2>2. CASE x # p
    <3>1. check'[x] = check[x] /\ CheckOK(x)
      BY <1>1, <2>2, CheckEnds DEF ControlInv
    <3>2. \A d \in Deployments : Covers(x, d) => Covers(x, d)'
      BY <1>8, <3>1 DEF Covers, Made
    <3> QED
      BY <1>5, <3>1, <3>2 DEF CheckOK
  <2> QED
    BY <2>1, <2>2
<1>12. deployment' \in [Deployments -> DeploymentRow \cup {Nothing}]
  BY <1>4, <1>8 DEF Suspend
<1>13. ControlRows'
  BY <1>1, <1>5, <1>12, CheckEnds DEF ControlInv, ControlRows
<1> QED
  BY <1>6, <1>8, <1>10, <1>11, <1>13 DEF ControlInv

-----------------------------------------------------------------------------
(* Deployments change; one that is put to work is on a connection in order  *)
(* that nobody holds locked.                                                *)
LEMMA DeploymentsChange ==
  ASSUME ControlInv, UNCHANGED <<connection, check, transition, exchange, instrument, market>>,
         deployment' \in [Deployments -> DeploymentRow \cup {Nothing}],
         sync' \in [step: {"sync", "list", "read", "pause"}, blocked: BOOLEAN,
                    affected: SUBSET Deployments],
         \A d \in Deployments :
            /\ Supervised(d)'
            /\ Made(d)' /\ deployment'[d].state \in {"READY", "RUNNING"} =>
                  \/ /\ Made(d) /\ deployment[d].state = deployment'[d].state
                     /\ deployment[d].connection = deployment'[d].connection
                  \/ ConnectionReady(deployment'[d].connection)
  PROVE  ControlInv'
<1>1. ControlRows'
  BY DEF ControlInv, ControlRows
<1>2. ASSUME NEW d \in Deployments PROVE OnVerified(d)'
  BY DEF OnVerified, Made, ControlInv, ConnectionReady, Usable
<1>3. ASSUME NEW p \in Checkers PROVE CheckOK(p)'
  <2>1. ASSUME check[p].step = "recording", NEW d \in Deployments PROVE Covers(p, d)'
    <3>1. CheckOK(p) /\ Locked(check[p].connection)
      BY <2>1 DEF Locked, ControlInv
    <3>2. Covers(p, d)
      BY <2>1, <3>1 DEF CheckOK
    <3> QED
      BY <2>1, <3>1, <3>2 DEF Covers, Made, ConnectionReady
  <2> QED
    BY <2>1 DEF CheckOK, ControlInv
<1> QED
  BY <1>1, <1>2, <1>3 DEF ControlInv, ConnectionsProven

(* The commands of one deployment.                                          *)
LEMMA OneDeployment ==
  ASSUME ControlInv, UNCHANGED <<connection, check, transition, exchange, instrument, market, sync>>,
         NEW d \in Deployments, NEW row \in DeploymentRow,
         deployment' = [deployment EXCEPT ![d] = row],
         row.state \in {"RUNNING", "PAUSED"} => row.run,
         row.holding => row.state \in {"RUNNING", "PAUSED"},
         row.state \in {"READY", "RUNNING"} =>
            \/ /\ Made(d) /\ deployment[d].state = row.state
               /\ deployment[d].connection = row.connection
            \/ ConnectionReady(row.connection)
  PROVE  ControlInv'
<1>1. /\ deployment' \in [Deployments -> DeploymentRow \cup {Nothing}]
      /\ deployment'[d] = row /\ \A x \in Deployments : x # d => deployment'[x] = deployment[x]
  BY DEF ControlInv, ControlRows
<1>2. ASSUME NEW x \in Deployments
      PROVE  /\ Supervised(x)'
             /\ Made(x)' /\ deployment'[x].state \in {"READY", "RUNNING"} =>
                  \/ /\ Made(x) /\ deployment[x].state = deployment'[x].state
                     /\ deployment[x].connection = deployment'[x].connection
                  \/ ConnectionReady(deployment'[x].connection)
  BY <1>1 DEF Supervised, Made, ControlInv
<1>3. sync' \in [step: {"sync", "list", "read", "pause"}, blocked: BOOLEAN,
                 affected: SUBSET Deployments]
  BY DEF ControlInv, ControlRows
<1> QED
  BY <1>1, <1>2, <1>3, DeploymentsChange

(* A deployment is made from the version that was approved.                 *)
LEMMA CreateStep ==
  ASSUME ControlInv, ValidationInv, NEW d \in Deployments, CreateDeployment(d) PROVE ControlInv'
<1>1. PICK c \in Connections :
        /\ ConnectionReady(c)
        /\ deployment' = [deployment EXCEPT ![d] =
              [state |-> "READY", connection |-> c, version |-> activeVersion,
               run |-> FALSE, holding |-> FALSE]]
  BY DEF CreateDeployment
<1> DEFINE row == [state |-> "READY", connection |-> c, version |-> activeVersion,
                   run |-> FALSE, holding |-> FALSE]
<1>2. activeVersion \in Versions
  <2>1. PICK r \in Runs : Created(r) /\ activeVersion = run[r].version
    BY DEF CreateDeployment, Deployable, PassedVersions
  <2> QED
    BY <2>1 DEF ValidationInv, ValidationTypeOK, Created, RunRow
<1>3. row \in DeploymentRow
  BY <1>2 DEF DeploymentRow
<1>4. /\ row.state = "READY" /\ row.connection = c /\ ~row.holding
      /\ deployment' = [deployment EXCEPT ![d] = row]
  BY <1>1
<1> HIDE DEF row
<1> QED
  BY <1>1, <1>3, <1>4, OneDeployment DEF CreateDeployment, DeploymentsOnly

(* Start, pause, resume and stop.                                           *)
LEMMA CommandStep ==
  ASSUME ControlInv, NEW d \in Deployments, Start(d) \/ Pause(d) \/ Resume(d) \/ Stop(d)
  PROVE  ControlInv'
<1>1. PICK state \in {"RUNNING", "PAUSED", "STOPPED"}, running \in BOOLEAN :
        /\ deployment' = [deployment EXCEPT ![d].state = state, ![d].run = running]
        /\ DeploymentsOnly /\ Made(d)
        /\ state \in {"RUNNING", "PAUSED"} => running
        /\ state = "STOPPED" => ~deployment[d].holding
        /\ state = "RUNNING" => ConnectionReady(deployment[d].connection)
  BY DEF Start, Pause, Resume, Stop, Command, Flat, In
<1> DEFINE row == [deployment[d] EXCEPT !.state = state, !.run = running]
<1>2. deployment[d] \in DeploymentRow
  BY <1>1 DEF Made, ControlInv, ControlRows
<1>3. row \in DeploymentRow /\ row.state = state /\ row.run = running
      /\ row.holding = deployment[d].holding /\ row.connection = deployment[d].connection
  BY <1>2 DEF DeploymentRow
<1>4. deployment' = [deployment EXCEPT ![d] = row]
  BY <1>1
<1> HIDE DEF row
<1> QED
  BY <1>1, <1>3, <1>4, OneDeployment DEF DeploymentsOnly

(* A position opens or ends.                                                *)
LEMMA PositionStep ==
  ASSUME ControlInv, NEW d \in Deployments, PositionChanges(d) PROVE ControlInv'
<1> DEFINE row == [deployment[d] EXCEPT !.holding = ~@]
<1>1. /\ deployment[d] \in DeploymentRow /\ deployment[d].state \in {"RUNNING", "PAUSED"}
      /\ DeploymentsOnly /\ Made(d) /\ deployment[d].run
  BY DEF PositionChanges, In, Made, ControlInv, ControlRows, Supervised
<1>2. row \in DeploymentRow /\ row.state = deployment[d].state /\ row.run = deployment[d].run
      /\ row.connection = deployment[d].connection
  BY <1>1 DEF DeploymentRow
<1>3. deployment' = [deployment EXCEPT ![d] = row]
  BY DEF PositionChanges
<1> HIDE DEF row
<1> QED
  BY <1>1, <1>2, <1>3, OneDeployment DEF DeploymentsOnly

(* The instrument loop pauses what still runs of what it had read.          *)
LEMMA PauseStep ==
  ASSUME ControlInv, PauseDeployments PROVE ControlInv'
<1>1. /\ UNCHANGED <<connection, check, transition, exchange, instrument, market>>
      /\ sync \in [step: {"sync", "list", "read", "pause"}, blocked: BOOLEAN,
                   affected: SUBSET Deployments]
      /\ sync' = [sync EXCEPT !.step = "sync", !.affected = {}]
      /\ deployment \in [Deployments -> DeploymentRow \cup {Nothing}]
  BY DEF PauseDeployments, LoopOnly, ControlInv, ControlRows
<1>2. sync' \in [step: {"sync", "list", "read", "pause"}, blocked: BOOLEAN,
                 affected: SUBSET Deployments]
  BY <1>1
<1>3. deployment' = [d \in Deployments |->
         IF d \in {x \in sync.affected : In(x, {"RUNNING"})}
         THEN [deployment[d] EXCEPT !.state = "PAUSED"] ELSE deployment[d]]
  BY DEF PauseDeployments
<1>4. ASSUME NEW d \in Deployments
      PROVE  /\ deployment'[d] \in DeploymentRow \cup {Nothing}
             /\ Supervised(d)'
             /\ Made(d)' /\ deployment'[d].state \in {"READY", "RUNNING"} =>
                  /\ Made(d) /\ deployment[d].state = deployment'[d].state
                  /\ deployment[d].connection = deployment'[d].connection
  <2>1. Supervised(d)
    BY DEF ControlInv
  <2>2. CASE deployment'[d] = deployment[d]
    BY <1>1, <2>1, <2>2 DEF Supervised, Made
  <2>3. CASE deployment'[d] # deployment[d]
    <3>1. Made(d) /\ deployment[d].state = "RUNNING" /\ deployment[d] \in DeploymentRow
          /\ deployment'[d] = [deployment[d] EXCEPT !.state = "PAUSED"]
      BY <1>1, <1>3, <2>3 DEF In, Made
    <3>2. /\ deployment'[d] \in DeploymentRow /\ deployment'[d].state = "PAUSED"
          /\ deployment'[d].run = deployment[d].run /\ deployment'[d].holding = deployment[d].holding
      BY <3>1 DEF DeploymentRow
    <3> QED
      BY <2>1, <3>1, <3>2 DEF Supervised, Made
  <2> QED
    BY <2>2, <2>3
<1>5. deployment' \in [Deployments -> DeploymentRow \cup {Nothing}]
  BY <1>3, <1>4
<1> QED
  BY <1>1, <1>2, <1>4, <1>5, DeploymentsChange

(* Status requests, the exchange, the rest of the instrument loop and the   *)
(* market list write no connection, no verification and no deployment.      *)
LEMMA OtherSteps ==
  ASSUME ControlInv, ValidationInv,
         \/ \E t \in Transitions : TransitionRead(t) \/ TransitionCommit(t)
         \/ ExchangeChanges \/ SyncTrackedInstruments \/ ListUnavailable \/ PauseRead
         \/ AddMarket \/ RemoveMarketRead \/ RemoveMarket
  PROVE  ControlInv'
<1>1. ControlRows /\ status \in StrategyStatuses
  BY DEF ControlInv, ValidationInv, ValidationTypeOK
<1>2. CASE \E t \in Transitions : TransitionRead(t)
  <2>1. PICK t \in Transitions : TransitionRead(t)
    BY <1>2
  <2>2. PICK target \in StrategyStatuses :
          transition' = [transition EXCEPT ![t] = [from |-> status, to |-> target]]
    BY <2>1 DEF TransitionRead
  <2>3. transition' \in [Transitions -> {NoTransition} \cup [from: StrategyStatuses, to: StrategyStatuses]]
    BY <1>1, <2>2 DEF ControlRows
  <2> QED
    BY <1>1, <2>1, <2>3, ControlUntouched DEF TransitionRead, ControlRows
<1>3. CASE \E t \in Transitions : TransitionCommit(t)
  <2>1. PICK t \in Transitions : TransitionCommit(t)
    BY <1>3
  <2>2. transition' \in [Transitions -> {NoTransition} \cup [from: StrategyStatuses, to: StrategyStatuses]]
    BY <1>1, <2>1 DEF TransitionCommit, ControlRows
  <2> QED
    BY <1>1, <2>1, <2>2, ControlUntouched DEF TransitionCommit, ControlRows
<1>4. CASE ExchangeChanges
  BY <1>1, <1>4, ControlUntouched DEF ExchangeChanges, ControlRows
<1>5. CASE SyncTrackedInstruments \/ ListUnavailable \/ PauseRead
  <2>1. sync' \in [step: {"sync", "list", "read", "pause"}, blocked: BOOLEAN,
                   affected: SUBSET Deployments]
    <3>1. Unavailable \in BOOLEAN
      BY <1>1 DEF Unavailable, ControlRows
    <3>2. /\ {d \in Deployments : In(d, {"RUNNING"})} \in SUBSET Deployments
          /\ {} \in SUBSET Deployments
      OBVIOUS
    <3>3. sync \in [step: {"sync", "list", "read", "pause"}, blocked: BOOLEAN,
                    affected: SUBSET Deployments]
      BY <1>1 DEF ControlRows
    <3> QED
      BY <1>5, <3>1, <3>2, <3>3 DEF SyncTrackedInstruments, ListUnavailable, PauseRead
  <2>2. instrument' \in BOOLEAN
    BY <1>1, <1>5 DEF SyncTrackedInstruments, ListUnavailable, PauseRead, Synced, ControlRows
  <2> QED
    BY <1>1, <1>5, <2>1, <2>2, ControlUntouched
       DEF SyncTrackedInstruments, ListUnavailable, PauseRead, LoopOnly, ControlRows
<1>6. CASE AddMarket \/ RemoveMarketRead \/ RemoveMarket
  <2>1. market' \in [listed: BOOLEAN, removing: BOOLEAN] /\ instrument' \in BOOLEAN
    <3>1. /\ market \in [listed: BOOLEAN, removing: BOOLEAN]
          /\ exchange \in BOOLEAN /\ instrument \in BOOLEAN
      BY <1>1 DEF ControlRows
    <3>2. CASE AddMarket
      BY <3>1, <3>2 DEF AddMarket
    <3>3. CASE RemoveMarketRead
      BY <3>1, <3>3 DEF RemoveMarketRead
    <3>4. CASE RemoveMarket
      BY <3>1, <3>4 DEF RemoveMarket
    <3> QED
      BY <1>6, <3>2, <3>3, <3>4
  <2> QED
    BY <1>1, <1>6, <2>1, ControlUntouched
       DEF AddMarket, RemoveMarketRead, RemoveMarket, MarketOnly, ControlRows
<1> QED
  BY <1>2, <1>3, <1>4, <1>5, <1>6

(* A worker that ends loses its verification with its validation.           *)
LEMMA EndStep ==
  ASSUME ControlInv, NEW w \in Workers, WorkerEnds(w) PROVE ControlInv'
<1>1. /\ w \in Checkers /\ Finished(w)
      /\ UNCHANGED <<connection, deployment, transition, exchange, instrument, market, sync>>
  BY DEF WorkerEnds, Checkers
<1>2. NoCheck \in CheckState
  BY Constants DEF NoCheck, CheckState
<1> QED
  BY <1>1, <1>2, CheckEnds, ChecksOnly DEF Finished

-----------------------------------------------------------------------------
(* What a step of the control side leaves of the validations.               *)
LEMMA ValidationAside ==
  ASSUME ValidationInv, ControlInv, UNCHANGED <<run, worker, feed, versions>>,
         UNCHANGED <<status, activeVersion>>
         \/ (UNCHANGED activeVersion /\ status' \in StrategyStatuses)
         \/ \E t \in Transitions : TransitionCommit(t)
  PROVE  ValidationInv'
<1>1. status' \in StrategyStatuses /\ activeVersion' \in 0..MaxVersions
  <2>1. CASE \E t \in Transitions : TransitionCommit(t)
    <3>1. PICK t \in Transitions : TransitionCommit(t)
      BY <2>1
    <3>2. /\ transition[t] \in [from: StrategyStatuses, to: StrategyStatuses]
          /\ versions \in Versions /\ activeVersion \in 0..MaxVersions
          /\ status \in StrategyStatuses
      BY <3>1 DEF TransitionCommit, ControlInv, ControlRows, ValidationInv, ValidationTypeOK
    <3>3. versions \in 0..MaxVersions /\ 0 \in 0..MaxVersions
      BY <3>2, Constants DEF Versions
    <3> QED
      BY <3>1, <3>2, <3>3 DEF TransitionCommit
  <2> QED
    BY <2>1 DEF ValidationInv, ValidationTypeOK
<1> QED
  BY <1>1, StatusStep DEF ValidationInv, ValidationTypeOK

(* A step of the validations.                                               *)
LEMMA ValidationStep ==
  ASSUME ValidationInv,
         \/ CreateVersion \/ QueueRun \/ FeedMoves
         \/ \E w \in Workers : WorkerStep(w) \/ Crash(w)
         \/ \E r \in Runs : LeaseAges(r)
  PROVE  ValidationInv'
<1>1. CASE CreateVersion
  <2>1. status' \in StrategyStatuses /\ activeVersion' \in 0..MaxVersions /\ versions' \in Versions
    BY <1>1, Constants DEF CreateVersion, StrategyStatuses, Versions, ValidationInv, ValidationTypeOK
  <2> QED
    BY <1>1, <2>1, StatusStep DEF CreateVersion, ValidationInv, ValidationTypeOK
<1>2. CASE FeedMoves
  <2>1. feed' \in 1..MaxFeed
    BY <1>2, Constants DEF FeedMoves, ValidationInv, ValidationTypeOK
  <2> QED
    BY <1>2, <2>1, StatusStep DEF FeedMoves, ValidationInv, ValidationTypeOK
<1>3. ASSUME NEW w \in Workers, WorkerStep(w) PROVE ValidationInv'
  BY <1>3, ClaimStep, DatasetStep, RulesStep, FundingStep, PinningSteps, CompleteStep, FailStep
     DEF WorkerStep
<1> QED
  BY <1>1, <1>2, <1>3, QueueStep, CrashStep, AgeStep

(* The composition keeps both invariants, action by action.                 *)
LEMMA ControlStep ==
  ASSUME ValidationInv, ControlInv, [ControlNext]_allVars PROVE (ValidationInv /\ ControlInv)'
<1>1. CASE UNCHANGED allVars
  <2>1. UNCHANGED <<status, activeVersion, versions, run, worker, feed>>
        /\ UNCHANGED <<connection, check, deployment, transition, exchange, instrument, market, sync>>
    BY <1>1 DEF allVars, validationVars, controlVars
  <2> QED
    BY <2>1, StatusStep, ControlUntouched DEF ValidationInv, ValidationTypeOK, ControlInv, ControlRows
<1>2. CASE /\ \/ CreateVersion /\ market.listed
              \/ QueueRun \/ FeedMoves
              \/ \E w \in Workers : WorkerStep(w)
              \/ \E r \in Runs : LeaseAges(r)
           /\ UNCHANGED controlVars
  <2>1. ValidationInv'
    BY <1>2, ValidationStep
  <2>2. ControlInv'
    BY <1>2, ControlUntouched DEF controlVars, ControlInv, ControlRows
  <2> QED
    BY <2>1, <2>2
<1>3. ASSUME NEW w \in Workers, WorkerEnds(w) PROVE (ValidationInv /\ ControlInv)'
  BY <1>3, EndStep, CrashStep DEF WorkerEnds
<1>4. ASSUME NEW t \in Transitions, TransitionRead(t) \/ TransitionCommit(t)
      PROVE  (ValidationInv /\ ControlInv)'
  <2>1. ValidationInv'
    BY <1>4, ValidationAside DEF TransitionRead, TransitionCommit, validationVars
  <2> QED
    BY <1>4, <2>1, OtherSteps
<1>5. ASSUME NEW c \in Connections, CreateConnection(c) \/ RotateCredentials(c) \/ Revoke(c)
      PROVE  (ValidationInv /\ ControlInv)'
  <2>1. ValidationInv'
    BY <1>5, ValidationAside
       DEF CreateConnection, RotateCredentials, Revoke, ConnectionsOnly, validationVars
  <2> QED
    BY <1>5, <2>1, ManageConnections
<1>6. ASSUME NEW p \in Checkers, Verification(p) PROVE (ValidationInv /\ ControlInv)'
  <2>1. CASE VerifyRead(p) \/ ClaimDueVerification(p)
    <3>1. ValidationInv'
      BY <2>1, ValidationAside DEF VerifyRead, ClaimDueVerification, ConnectionsOnly, validationVars
    <3> QED
      BY <2>1, <3>1, AskSteps
  <2>2. CASE VerificationConflict(p) \/ RecordActive(p) \/ RecordUnavailable(p)
    <3>1. ValidationInv'
      BY <2>2, ValidationAside
         DEF VerificationConflict, RecordActive, RecordUnavailable, ConnectionsOnly, validationVars
    <3> QED
      BY <2>2, <3>1, AnswerSteps
  <2>3. CASE RecordInvalidRead(p)
    <3>1. ValidationInv'
      BY <2>3, ValidationAside DEF RecordInvalidRead, ConnectionsOnly, validationVars
    <3> QED
      BY <2>3, <3>1, RefusalReads
  <2>4. CASE RecordInvalidCommit(p)
    <3>1. status' \in StrategyStatuses
      BY <2>4 DEF RecordInvalidCommit, StrategyStatuses, ValidationInv, ValidationTypeOK
    <3>2. ValidationInv'
      BY <2>4, <3>1, ValidationAside DEF RecordInvalidCommit
    <3> QED
      BY <2>4, <3>2, RefusalCommits
  <2> QED
    BY <1>6, <2>1, <2>2, <2>3, <2>4 DEF Verification
<1>7. ASSUME NEW d \in Deployments,
             \/ CreateDeployment(d) \/ Start(d) \/ Pause(d) \/ Resume(d) \/ Stop(d)
             \/ PositionChanges(d)
      PROVE  (ValidationInv /\ ControlInv)'
  <2>1. ControlInv'
    BY <1>7, CreateStep, CommandStep, PositionStep
  <2>2. DeploymentsOnly /\ status' \in StrategyStatuses
    BY <1>7 DEF CreateDeployment, Start, Pause, Resume, Stop, PositionChanges, Command,
                StrategyStatuses, ValidationInv, ValidationTypeOK
  <2> QED
    BY <2>1, <2>2, ValidationAside DEF DeploymentsOnly
<1>8. CASE ExchangeChanges \/ AddMarket \/ RemoveMarketRead \/ RemoveMarket
           \/ SyncTrackedInstruments \/ ListUnavailable \/ PauseRead
  <2>1. ValidationInv'
    BY <1>8, ValidationAside
       DEF ExchangeChanges, AddMarket, RemoveMarketRead, RemoveMarket, MarketOnly,
           SyncTrackedInstruments, ListUnavailable, PauseRead, LoopOnly, validationVars
  <2> QED
    BY <1>8, <2>1, OtherSteps
<1>9. CASE PauseDeployments
  <2>1. status' \in StrategyStatuses
    BY <1>9 DEF PauseDeployments, StrategyStatuses, ValidationInv, ValidationTypeOK
  <2>2. ValidationInv'
    BY <1>9, <2>1, ValidationAside DEF PauseDeployments, LoopOnly
  <2> QED
    BY <1>9, <2>2, PauseStep
<1> QED
  BY <1>1, <1>2, <1>3, <1>4, <1>5, <1>6, <1>7, <1>8, <1>9 DEF ControlNext, InstrumentLoop

(* Nothing is created, nobody has anything in hand.                         *)
LEMMA InitInv == ControlInit => ValidationInv /\ ControlInv
<1> SUFFICES ASSUME ControlInit PROVE ValidationInv /\ ControlInv
  OBVIOUS
<1>1. ValidationTypeOK
  <2>1. 1 \in Versions /\ 1 \in 1..MaxFeed /\ 0 \in 0..MaxVersions /\ "DRAFT" \in StrategyStatuses
    BY Constants DEF Versions, StrategyStatuses
  <2>2. Idle \in [step: Steps, run: Runs \cup {Nothing}, has: Inputs]
    BY NoInputsType, StepsApart DEF Idle
  <2> QED
    BY <2>1, <2>2 DEF ControlInit, ValidationInit, ValidationTypeOK
<1>2. ValidationInv
  BY <1>1 DEF ValidationInv, ControlInit, ValidationInit, InHand, Idle, ReproducibleResult, Created
<1>3. ControlRows
  <2>1. NoCheck \in CheckState
    BY Constants DEF NoCheck, CheckState
  <2> QED
    BY <2>1 DEF ControlInit, ControlRows
<1>4. ControlInv
  BY <1>3, Constants DEF ControlInv, ControlInit, ConnectionsProven, CheckOK, NoCheck, Supervised,
                         OnVerified, Made
<1> QED
  BY <1>2, <1>4

(* The two invariants together, for the composition of the control side     *)
(* with the validation jobs.                                                *)
THEOREM ControlHolds == ControlSpec => [](ValidationInv /\ ControlInv)
<1>1. ControlInit => ValidationInv /\ ControlInv
  BY InitInv
<1>2. (ValidationInv /\ ControlInv) /\ [ControlNext]_allVars => (ValidationInv /\ ControlInv)'
  BY ControlStep
<1> QED
  BY <1>1, <1>2, PTL DEF ControlSpec

(* The rows of validation runs, connections, verifications and deployments, *)
(* and what loops and requests hold, keep their types.                      *)
THEOREM ControlTypes == ControlSpec => []ControlTypeOK
<1>1. ValidationInv /\ ControlInv => ControlTypeOK
  BY DEF ValidationInv, ControlInv, ControlRows, ControlTypeOK
<1> QED
  BY <1>1, ControlHolds, PTL

(* The report of a finished validation is the result of the snapshots that  *)
(* are stored with it: whoever renewed, lost or took over the lease, only   *)
(* what agrees with the pinned inputs is ever written (processValidationJob,*)
(* ValidationRepository.complete).                                          *)
THEOREM ReportsReproducible == ControlSpec => []ReproducibleResult
<1>1. ValidationInv /\ ControlInv => ReproducibleResult
  BY DEF ValidationInv
<1> QED
  BY <1>1, ControlHolds, PTL

(* A deployment that is ready or running has its connection active and not  *)
(* revoked, and the credentials it has now are the ones that were verified  *)
(* (recordVerification, rotateCredentials, lockActiveExchangeConnection).   *)
THEOREM VerifiedCredentials == ControlSpec => []RunsOnVerifiedCredentials
<1>1. ValidationInv /\ ControlInv => RunsOnVerifiedCredentials
  BY DEF ControlInv, ControlRows, ConnectionsProven, Proven, OnVerified, Made, In, Usable,
         DeploymentRow, RunsOnVerifiedCredentials
<1> QED
  BY <1>1, ControlHolds, PTL

(* An open position is always that of a run that has not been completed, of *)
(* a deployment that runs or is paused (applyCommand, recordVerification,   *)
(* pauseDeploymentsUsingSymbols).                                           *)
THEOREM PositionsSupervised == ControlSpec => []PositionSupervised
<1>1. ValidationInv /\ ControlInv => PositionSupervised
  BY DEF ControlInv, Supervised, Made, In, PositionSupervised
<1> QED
  BY <1>1, ControlHolds, PTL

-----------------------------------------------------------------------------
(* Days and settlements.                                                   *)

Given == SimulationAssumption /\ EngineAssumption

(* What the assumptions say of the numbers.                                *)
LEMMA Figures ==
  ASSUME Given
  PROVE  /\ IsFiniteSet(Symbols)
         /\ Bars \in Nat /\ Bars > 0 /\ Test \in Nat /\ Test > 0 /\ Training \in Nat
         /\ BarsPerDay \in Nat /\ BarsPerDay > 0 /\ Capital \in Nat /\ MaxQuantity \in Nat
         /\ Settlements \in SUBSET Nat /\ Rate \in Int
         /\ StopDistance \in Nat /\ TakeDistance \in Nat /\ BreakEvenMove \in Nat
         /\ TrailDistance \in Nat /\ TrailMove \in Nat /\ GuardEvenMove \in Nat
         /\ GuardTrailMove \in Nat /\ GuardDistance \in Nat /\ HoldingTime \in Nat
         /\ Fee \in Nat /\ Slip \in Nat /\ LimitOffset \in Nat /\ MarketEntry \in BOOLEAN
BY DEF Given, SimulationAssumption, EngineAssumption

(* A day begins before its instants and ends after them.                   *)
LEMMA DayBounds ==
  ASSUME Given, NEW t \in Nat
  PROVE  /\ Day(t) \in Nat
         /\ Day(t) * (3 * BarsPerDay) <= t
         /\ t < (Day(t) + 1) * (3 * BarsPerDay)
<1> DEFINE L == 3 * BarsPerDay
           q == t \div L
<1>1. L \in Nat /\ L > 0
  BY Figures
<1> HIDE DEF L
<1>2. t = L * q + (t % L) /\ t % L >= 0 /\ t % L < L /\ q \in Int
  BY <1>1
<1>3. q >= 0
  BY <1>1
<1>4. q \in Nat /\ t % L \in Nat
  BY <1>1, <1>2, <1>3
<1> HIDE DEF q
<1>5. L * q = q * L /\ (q + 1) * L = q * L + L /\ q * L \in Nat
  BY <1>1, <1>4
<1>6. q * L <= t /\ t < (q + 1) * L
  BY <1>1, <1>2, <1>4, <1>5
<1> QED
  BY <1>4, <1>6 DEF q, L, Day

(* Days follow one another, and every instant of the data set is in one.   *)
LEMMA DayIs ==
  ASSUME Given, NEW t \in Nat, t <= 3 * Bars
  PROVE  /\ Day(t) \in Days
         /\ IsFiniteSet(Days)
<1> DEFINE L == 3 * BarsPerDay
           a == Day(t)
           b == Day(3 * Bars)
<1>1. L \in Nat /\ L > 0 /\ 3 * Bars \in Nat
  BY Figures
<1>2. a \in Nat /\ a * L <= t
  BY DayBounds
<1>3. b \in Nat /\ 3 * Bars < (b + 1) * L
  BY <1>1, DayBounds
<1> HIDE DEF L, a, b
<1>4. a <= b
  <2> SUFFICES ASSUME b + 1 <= a PROVE FALSE
    BY <1>2, <1>3
  <2>1. (b + 1) * L <= a * L
    BY <1>1, <1>2, <1>3
  <2>2. (b + 1) * L \in Nat /\ a * L \in Nat
    BY <1>1, <1>2, <1>3
  <2> QED BY <1>1, <1>2, <1>3, <2>1, <2>2
<1>5. a \in 0 .. b /\ IsFiniteSet(0 .. b)
  BY <1>2, <1>3, <1>4, FS_Interval
<1> QED
  BY <1>5 DEF a, b, Days

(* What a position pays at each settlement.                                *)
Units(x) == Direction(x.side) * x.quantity * Rate
Payer(x) == x.quantity \in Nat /\ x.openedAt \in Nat

(* What a position pays at a settlement is a number.                       *)
LEMMA UnitsType ==
  ASSUME Given, NEW x, Payer(x)
  PROVE  Units(x) \in Int
BY Figures DEF Units, Payer, Direction

(* Finitely many settlements lie before an instant.                        *)
LEMMA FewInstants ==
  ASSUME Given, NEW until \in Nat, NEW I \in SUBSET Settlements, \A t \in I : t <= until
  PROVE  IsFiniteSet(I) /\ Cardinality(I) \in Nat
<1>1. I \in SUBSET (0 .. until)
  BY Figures
<1>2. IsFiniteSet(0 .. until)
  BY FS_Interval
<1> QED
  BY <1>1, <1>2, FS_Subset, FS_CardinalityType

(* A charge is a number, nothing for no settlement, and adds up.           *)
LEMMA ChargeIs ==
  ASSUME Given, NEW x, Payer(x)
  PROVE  /\ \A I : Charge(x, I) = Units(x) * Cardinality(I)
         /\ \A I : IsFiniteSet(I) => Charge(x, I) \in Int
         /\ Charge(x, {}) = 0
<1>1. Units(x) \in Int
  BY UnitsType
<1>2. \A I : Charge(x, I) = Units(x) * Cardinality(I)
  BY DEF Charge, Units
<1>3. \A I : IsFiniteSet(I) => Cardinality(I) \in Nat
  BY FS_CardinalityType
<1>4. Cardinality({}) = 0
  BY FS_EmptySet
<1> HIDE DEF Units
<1>5. Units(x) * 0 = 0
  BY <1>1
<1>6. \A n \in Nat : Units(x) * n \in Int
  BY <1>1
<1> QED
  BY <1>2, <1>3, <1>4, <1>5, <1>6

(* Two sets of settlements that share none are charged one after the other.*)
LEMMA ChargeAdds ==
  ASSUME Given, NEW x, Payer(x), NEW I, NEW J, IsFiniteSet(I), IsFiniteSet(J), I \cap J = {}
  PROVE  Charge(x, I \cup J) = Charge(x, I) + Charge(x, J)
<1>1. Cardinality(I \cup J) = Cardinality(I) + Cardinality(J) - Cardinality(I \cap J)
  BY FS_Union
<1>2. Cardinality(I \cap J) = 0
  BY FS_EmptySet
<1>3. Cardinality(I) \in Nat /\ Cardinality(J) \in Nat
  BY FS_CardinalityType
<1>4. Units(x) \in Int
  BY UnitsType
<1> DEFINE k == Units(x)
           m == Cardinality(I)
           n == Cardinality(J)
<1>5. Cardinality(I \cup J) = m + n
  BY <1>1, <1>2, <1>3
<1>6. k \in Int /\ m \in Nat /\ n \in Nat
  BY <1>3, <1>4
<1> HIDE DEF k, m, n
<1>7. k * (m + n) = k * m + k * n
  BY <1>6
<1> QED
  BY <1>5, <1>7, ChargeIs DEF k, m, n

(* The charges of a day, as time goes on.                                  *)
DueOn(x, from, to, d) == {t \in Due(x, from, to) : Day(t) = d}

(* From one instant to a later one the charges of a day grow by what falls *)
(* due in between.                                                         *)
LEMMA ChargesGrow ==
  ASSUME Given, NEW x, Payer(x), NEW a \in Nat, NEW b \in Nat, a <= b, NEW d
  PROVE  /\ Charges(x, b, d) = Charges(x, a, d) + Charge(x, DueOn(x, a, b, d))
         /\ Charges(x, a, d) \in Int /\ Charges(x, b, d) \in Int
         /\ Charge(x, DueOn(x, a, b, d)) \in Int
<1> DEFINE I(u) == {t \in Settlements : x.openedAt < t /\ t <= u /\ Day(t) = d}
           J == DueOn(x, a, b, d)
<1>1. IsFiniteSet(I(a)) /\ IsFiniteSet(I(b))
  BY FewInstants
<1>2. IsFiniteSet(J)
  <2>1. J \in SUBSET Settlements /\ \A t \in J : t <= b
    BY DEF Due, DueOn
  <2> QED BY <2>1, FewInstants
<1>3. I(b) = I(a) \cup J /\ I(a) \cap J = {}
  <2>1. \A t \in Settlements : t \in Nat
    BY Figures
  <2>2. x.openedAt \in Nat
    BY DEF Payer
  <2> QED BY <2>1, <2>2 DEF Due, DueOn
<1>4. Charges(x, a, d) = Charge(x, I(a)) /\ Charges(x, b, d) = Charge(x, I(b))
  BY DEF Charges
<1> HIDE DEF I, J
<1>5. Charge(x, I(b)) = Charge(x, I(a)) + Charge(x, J)
  BY <1>1, <1>2, <1>3, ChargeAdds
<1>6. Charge(x, I(a)) \in Int /\ Charge(x, I(b)) \in Int /\ Charge(x, J) \in Int
  BY <1>1, <1>2, ChargeIs
<1> QED
  BY <1>4, <1>5, <1>6 DEF J

(* What is due by an instant is what is due on the days up to it.          *)
LEMMA DueByDays ==
  ASSUME Given, NEW x, Payer(x), NEW a \in Nat, NEW b \in Nat, b <= 3 * Bars,
         NEW f, \A d \in Days : f[d] = Charge(x, DueOn(x, a, b, d))
  PROVE  Charge(x, Due(x, a, b)) = SumFunctionOnSet(f, Days)
<1> DEFINE D == Due(x, a, b)
           part == [t \in D |-> Day(t)]
           n == [d \in Days |-> Cardinality({t \in D : part[t] = d})]
<1>1. D \in SUBSET Settlements /\ \A t \in D : t \in Nat /\ t <= b
  BY Figures DEF Due
<1>2. IsFiniteSet(D)
  BY <1>1, FewInstants
<1>3. \A t \in D : part[t] \in Days
  <2>1. \A t \in D : t <= 3 * Bars
    BY <1>1, Figures
  <2> QED BY <1>1, <2>1, DayIs
<1>4. IsFiniteSet(Days)
  BY DayIs, Figures
<1>5. \A d \in Days : {t \in D : part[t] = d} = DueOn(x, a, b, d)
  BY DEF DueOn
<1>6. Cardinality(D) = SumFunctionOnSet(n, Days)
  <2> HIDE DEF part, D
  <2> SUFFICES Cardinality(D)
        = SumFunctionOnSet([d \in Days |-> Cardinality({t \in D : part[t] = d})], Days)
    OBVIOUS
  <2> HIDE DEF n
  <2>1. \A t \in D : part[t] \in Days
    BY <1>3
  <2> QED BY <1>2, <1>4, <2>1, CountedByParts
<1>7. \A d \in Days : n[d] \in Int /\ f[d] = Units(x) * n[d]
  <2>1. \A d \in Days : IsFiniteSet(DueOn(x, a, b, d))
    <3>1. \A d \in Days : DueOn(x, a, b, d) \in SUBSET D
      BY DEF DueOn
    <3> HIDE DEF D
    <3> QED BY <1>2, <3>1, FS_Subset
  <2>2. \A d \in Days : n[d] = Cardinality(DueOn(x, a, b, d))
    BY <1>5
  <2> HIDE DEF n
  <2> QED BY <2>1, <2>2, FS_CardinalityType, ChargeIs
<1>8. Units(x) \in Int
  BY UnitsType
<1>9. Charge(x, D) = Units(x) * Cardinality(D)
  BY ChargeIs
<1> HIDE DEF n, D
<1>10. SumFunctionOnSet(f, Days) = Units(x) * SumFunctionOnSet(n, Days)
  BY <1>4, <1>7, <1>8, SumScaled
<1> QED
  BY <1>6, <1>9, <1>10 DEF D

(* What a position has paid up to an instant.                              *)
Paid(x, until) == Total(Days, LAMBDA d : Charges(x, until, d))

(* It grows by the charge of the settlements in between.                   *)
LEMMA PaidGrows ==
  ASSUME Given, NEW x, Payer(x), NEW a \in Nat, NEW b \in Nat, a <= b, b <= 3 * Bars
  PROVE  /\ Paid(x, b) = Paid(x, a) + Charge(x, Due(x, a, b))
         /\ Paid(x, a) \in Int /\ Charge(x, Due(x, a, b)) \in Int
<1> DEFINE f == [d \in Days |-> Charges(x, a, d)]
           g == [d \in Days |-> Charge(x, DueOn(x, a, b, d))]
           h == [d \in Days |-> Charges(x, b, d)]
<1>1. \A d \in Days : f[d] \in Int /\ g[d] \in Int /\ h[d] \in Int /\ h[d] = f[d] + g[d]
  BY ChargesGrow
<1>2. IsFiniteSet(Days)
  BY DayIs, Figures
<1>3. Paid(x, a) = SumFunctionOnSet(f, Days) /\ Paid(x, b) = SumFunctionOnSet(h, Days)
  BY DEF Paid, Total
<1>4. Charge(x, Due(x, a, b)) = SumFunctionOnSet(g, Days)
  <2>1. \A d \in Days : g[d] = Charge(x, DueOn(x, a, b, d))
    OBVIOUS
  <2> HIDE DEF g
  <2> QED BY <2>1, DueByDays
<1> HIDE DEF f, g, h
<1>5. SumFunctionOnSet(h, Days) = SumFunctionOnSet(f, Days) + SumFunctionOnSet(g, Days)
  BY <1>1, <1>2, SumsAdd
<1>6. SumFunctionOnSet(f, Days) \in Int /\ SumFunctionOnSet(g, Days) \in Int
  BY <1>1, <1>2, SumType
<1> QED
  BY <1>3, <1>4, <1>5, <1>6

(* A position that has just been opened has paid nothing.                  *)
LEMMA NothingPaid ==
  ASSUME Given, NEW x, Payer(x), NEW a \in Nat, a <= x.openedAt
  PROVE  /\ \A d : Charges(x, a, d) = 0
         /\ Paid(x, a) = 0
<1>1. \A d : {t \in Settlements : x.openedAt < t /\ t <= a /\ Day(t) = d} = {}
  BY Figures DEF Payer
<1>2. \A d : Charges(x, a, d) = 0
  BY <1>1, ChargeIs DEF Charges
<1> DEFINE f == [d \in Days |-> Charges(x, a, d)]
<1>3. \A d \in Days : f[d] = 0
  BY <1>2
<1>4. IsFiniteSet(Days)
  BY DayIs, Figures
<1>5. Paid(x, a) = SumFunctionOnSet(f, Days)
  BY DEF Paid, Total
<1> HIDE DEF f
<1>6. SumFunctionOnSet(f, Days) = SumFunctionOnSet(f, {})
  <2>1. \A d \in Days : f[d] \in Int
    BY <1>3
  <2> QED BY <1>3, <1>4, <2>1, SumOfPart
<1> QED
  BY <1>2, <1>5, <1>6, SumEmpty

-----------------------------------------------------------------------------
(* What the engine's operators return.                                     *)

Sides == {"long", "short"}
Priced == [side : Sides, entry : Int, quantity : Nat \ {0}, stop : Int, take : Int,
           trailing : Int, best : Int, entryFee : Int, funding : Int, openedAt : Nat]
Bar == [open : Int, high : Int, low : Int, close : Int, signal : {"none", "long", "short"}]
Announced == [side : Sides, price : Int, expires : Int]

(* A change that touches the protection only.                              *)
Unmoved(p, q) ==
  /\ q \in Priced /\ q.side = p.side /\ q.quantity = p.quantity
  /\ q.openedAt = p.openedAt /\ q.funding = p.funding

(* A position is not the blank of a symbol without one.                    *)
LEMMA PricedIsNotBlank ==
  ASSUME NEW p \in Priced
  PROVE  p # Blank /\ Payer(p)
<1>1. p.side \in Sides /\ p.quantity \in Nat /\ p.openedAt \in Nat
  BY DEF Priced
<1>2. Blank.side = "none"
  BY DEF Blank
<1> QED
  BY <1>1, <1>2 DEF Sides, Payer

(* The larger and the smaller of two numbers.                              *)
LEMMA MaxMin ==
  ASSUME NEW a \in Int, NEW b \in Int
  PROVE  /\ Max({a, b}) \in {a, b} /\ Min({a, b}) \in {a, b}
         /\ Max({a, b}) \in Int /\ Min({a, b}) \in Int
<1>1. CASE a >= b
  <2>1. a \in {a, b} /\ \A y \in {a, b} : a >= y
    BY <1>1
  <2>2. b \in {a, b} /\ \A y \in {a, b} : b <= y
    BY <1>1
  <2> QED BY <2>1, <2>2 DEF Max, Min
<1>2. CASE b >= a
  <2>1. b \in {a, b} /\ \A y \in {a, b} : b >= y
    BY <1>2
  <2>2. a \in {a, b} /\ \A y \in {a, b} : a <= y
    BY <1>2
  <2> QED BY <2>1, <2>2 DEF Max, Min
<1> QED
  BY <1>1, <1>2

(* A side is worth one or minus one.                                       *)
LEMMA DirectionIs ==
  ASSUME NEW s
  PROVE  Direction(s) \in Int /\ Direction(s) \in {1, -1}
BY DEF Direction

(* A comparison of prices is a number, and so is the better of two.        *)
LEMMA BetterIs ==
  ASSUME NEW s, NEW x \in Int, NEW y \in Int
  PROVE  Better(s, x, y) \in Int /\ Best(s, x, y) \in Int
BY DEF Better, Best, Direction

(* The price a position leaves at, and the result it leaves with.          *)
LEMMA NetIs ==
  ASSUME Given, NEW p \in Priced, NEW at \in Int
  PROVE  NetPnl(p, at) \in Int /\ NetPnl(p, at) + p.funding \in Int
<1>1. /\ p.entry \in Int /\ p.quantity \in Nat /\ p.entryFee \in Int /\ p.funding \in Int
  BY DEF Priced
<1>2. Fee \in Nat /\ Slip \in Nat
  BY Figures
<1>3. ExitPrice(p, at) \in Int
  BY <1>2 DEF ExitPrice, Direction
<1>4. Better(p.side, ExitPrice(p, at), p.entry) \in Int
  BY <1>1, <1>3, BetterIs
<1>5. Gross(p, at) \in Int
  BY <1>1, <1>4 DEF Gross
<1>6. p.quantity * Fee \in Int
  BY <1>1, <1>2
<1> QED
  BY <1>1, <1>5, <1>6 DEF NetPnl

(* Where the protection of a position stands.                              *)
LEMMA ProtectionIs ==
  ASSUME NEW p \in Priced
  PROVE  Protection(p).at \in Int
BY DEF Protection, Priced

(* Exits of a position at a number leave it at a number.                   *)
LEMMA ExitsAre ==
  ASSUME NEW p \in Priced, NEW price \in Int, NEW now, NEW candle \in Bar
  PROVE  /\ PriceExit(p, price).at \in Int
         /\ HoldingExit(p, price, now).at \in Int
         /\ AdverseExit(p, candle).at \in Int
         /\ SignalExit(p, candle).at \in Int
         /\ NoExit.at \in Int
<1>1. Protection(p).at \in Int /\ p.take \in Int
  BY ProtectionIs DEF Priced
<1>2. \A x \in Int : PriceExit(p, x).at \in Int
  BY <1>1 DEF PriceExit, NoExit
<1>3. candle.open \in Int /\ candle.close \in Int
  BY DEF Bar
<1>4. AdverseExit(p, candle).at \in Int
  BY <1>1, <1>2, <1>3 DEF AdverseExit, NoExit
<1> QED
  BY <1>2, <1>3, <1>4 DEF HoldingExit, SignalExit, NoExit

(* The first of two exits that leave at a number does.                     *)
LEMMA FirstIs ==
  ASSUME NEW x, NEW y, x.at \in Int, y.at \in Int
  PROVE  First(x, y).at \in Int
BY DEF First

(* One protection policy changes best, stop and trailing, to numbers.      *)
LEMMA ProtectKeeps ==
  ASSUME Given, NEW p \in Priced, NEW price \in Int, NEW even, NEW active,
         NEW distance \in Int, NEW pays
  PROVE  Unmoved(p, Protect(p, price, even, active, distance, pays))
<1> DEFINE best  == Best(p.side, p.best, price)
           moved == Better(p.side, best, p.entry)
           level == BreakEvenPrice(p)
           trail == best - Direction(p.side) * distance
           trails == /\ distance # 0 /\ moved >= active
                     /\ pays => Better(p.side, trail, level) >= 0
           stop == IF even # 0 /\ moved >= even /\ Better(p.side, best, level) >= 1
                   THEN Best(p.side, p.stop, level) ELSE p.stop
           trailing == IF ~trails THEN p.trailing
                       ELSE IF p.trailing = 0 THEN trail ELSE Best(p.side, p.trailing, trail)
<1>1. /\ p.best \in Int /\ p.stop \in Int /\ p.trailing \in Int /\ p.entry \in Int
      /\ p.entryFee \in Int /\ p.funding \in Int /\ p.quantity \in Nat /\ p.quantity > 0
  BY DEF Priced
<1>2. best \in Int
  BY <1>1, BetterIs
<1>3. level \in Int
  <2>1. Fee \in Nat /\ Slip \in Nat
    BY Figures
  <2> DEFINE a == p.entryFee + p.funding + p.quantity * Fee
             n == p.quantity
             k == Direction(p.side)
             e == p.entry
  <2>2. a \in Int /\ n \in Nat /\ n > 0 /\ k \in Int /\ e \in Int
    BY <1>1, <2>1, DirectionIs
  <2> HIDE DEF a, n, k, e
  <2>3. CeilDiv(a, n) \in Int
    BY <2>2 DEF CeilDiv
  <2>4. e + k * (CeilDiv(a, n) + Slip) \in Int
    BY <2>1, <2>2, <2>3
  <2> QED
    BY <2>4 DEF BreakEvenPrice, a, n, k, e
<1> HIDE DEF best, level
<1>4. trail \in Int
  BY <1>2 DEF Direction
<1> HIDE DEF trail, moved, trails
<1>5. stop \in Int /\ trailing \in Int
  BY <1>1, <1>3, <1>4, BetterIs
<1>6. Protect(p, price, even, active, distance, pays)
        = [p EXCEPT !.best = best, !.stop = stop, !.trailing = trailing]
  BY DEF Protect, best, moved, level, trail, trails
<1> HIDE DEF stop, trailing
<1> DEFINE q == [p EXCEPT !.best = best, !.stop = stop, !.trailing = trailing]
<1>7. q \in Priced
  BY <1>2, <1>5 DEF Priced
<1>8. q.side = p.side /\ q.quantity = p.quantity /\ q.openedAt = p.openedAt /\ q.funding = p.funding
  BY DEF Priced
<1> HIDE DEF q
<1>9. Protect(p, price, even, active, distance, pays) = q
  BY <1>6 DEF q
<1> QED
  BY <1>7, <1>8, <1>9 DEF Unmoved

(* So do both policies, the strategy's and the account's, one after the other.*)
LEMMA ProtectedKeeps ==
  ASSUME Given, NEW p \in Priced, NEW price \in Int
  PROVE  Unmoved(p, Protected(p, price))
<1> DEFINE q == Protect(p, price, BreakEvenMove, TrailMove, TrailDistance, FALSE)
           r == Protect(q, price, GuardEvenMove, GuardTrailMove, GuardDistance, TRUE)
<1>1. TrailDistance \in Int /\ GuardDistance \in Int
  BY Figures
<1>2. Unmoved(p, q)
  BY <1>1, ProtectKeeps
<1>3. q \in Priced
  BY <1>2 DEF Unmoved
<1> HIDE DEF q
<1>4. Unmoved(q, r)
  BY <1>1, <1>3, ProtectKeeps
<1>5. Protected(p, price) = r
  BY DEF Protected, q
<1> HIDE DEF r
<1> QED
  BY <1>2, <1>4, <1>5 DEF Unmoved

(* A position that opens: it has paid its fee and no funding.              *)
LEMMA OpensPriced ==
  ASSUME Given, NEW signal \in Announced, NEW candle \in Bar, NEW quantity \in Nat \ {0},
         NEW at \in Nat
  PROVE  /\ OpenPosition(signal, candle, quantity, at) \in Priced
         /\ OpenPosition(signal, candle, quantity, at).openedAt = at
         /\ OpenPosition(signal, candle, quantity, at).funding = 0
<1> DEFINE d == Direction(signal.side)
           entry == IF MarketEntry THEN candle.open + d * Slip ELSE LimitPrice(signal)
<1>1. /\ signal.side \in Sides /\ signal.price \in Int /\ candle.open \in Int
  BY DEF Announced, Bar
<1>2. /\ Fee \in Nat /\ Slip \in Nat /\ LimitOffset \in Nat
      /\ StopDistance \in Nat /\ TakeDistance \in Nat
  BY Figures
<1>3. d \in {1, -1}
  BY DirectionIs
<1>4. entry \in Int
  BY <1>1, <1>2, <1>3 DEF LimitPrice
<1> HIDE DEF entry, d
<1>5. /\ entry - d * StopDistance \in Int /\ entry + d * TakeDistance \in Int
      /\ quantity * Fee \in Int
  BY <1>2, <1>3, <1>4
<1>6. OpenPosition(signal, candle, quantity, at)
        = [side |-> signal.side, entry |-> entry, quantity |-> quantity,
           stop |-> entry - d * StopDistance, take |-> entry + d * TakeDistance,
           trailing |-> 0, best |-> entry, entryFee |-> quantity * Fee,
           funding |-> 0, openedAt |-> at]
  BY DEF OpenPosition, entry, d
<1> QED
  BY <1>1, <1>4, <1>5, <1>6 DEF Priced

(* What is left of the candle of an intrabar entry is a candle.            *)
LEMMA RangeIs ==
  ASSUME NEW p \in Priced, NEW candle \in Bar
  PROVE  RangeAfterEntry(p, candle) \in Bar
<1>1. p.entry \in Int /\ candle.close \in Int /\ candle.high \in Int /\ candle.low \in Int
  BY DEF Priced, Bar
<1> DEFINE high == IF p.side = "long" THEN Max({p.entry, candle.close}) ELSE candle.high
           low == IF p.side = "short" THEN Min({p.entry, candle.close}) ELSE candle.low
<1>2. high \in Int /\ low \in Int
  BY <1>1, MaxMin
<1>3. RangeAfterEntry(p, candle) \in
        {candle, [candle EXCEPT !.open = p.entry, !.high = high, !.low = low]}
  BY DEF RangeAfterEntry
<1> HIDE DEF high, low
<1>4. [candle EXCEPT !.open = p.entry, !.high = high, !.low = low] \in Bar
  BY <1>1, <1>2 DEF Bar
<1> QED
  BY <1>3, <1>4

(* The largest quantity that fits is one that fits.                        *)
LEMMA LargestIs ==
  ASSUME NEW n \in Nat, NEW F \in SUBSET (1 .. n), F # {}
  PROVE  Max(F) \in F
<1> DEFINE G == {n - q : q \in F}
<1>1. G \in SUBSET Nat /\ G # {}
  <2>1. \A q \in F : q \in Nat /\ q <= n
    OBVIOUS
  <2>2. \A q \in F : n - q \in Nat
    BY <2>1
  <2> QED BY <2>2, Zenon
<1>2. PICK g \in G : \A y \in G : g <= y
  <2> HIDE DEF G
  <2> QED BY <1>1, LeastElement
<1>3. PICK q \in F : g = n - q
  BY <1>2
<1>4. \A y \in F : q >= y
  <2> TAKE y \in F
  <2>1. n - y \in G
    OBVIOUS
  <2> HIDE DEF G
  <2>2. g <= n - y
    BY <1>2, <2>1
  <2>3. q \in Int /\ y \in Int
    OBVIOUS
  <2> QED BY <1>3, <2>2, <2>3
<1>5. \E x \in F : \A y \in F : x >= y
  BY <1>3, <1>4
<1> QED
  BY <1>5, Zenon DEF Max

-----------------------------------------------------------------------------
(* The inductive invariant of the simulation.                              *)

Here == {t \in trades : t.window = window}
Walking == step \notin {"candles", "ended"}
Stages == {"candles", "open", "force-open", "enter", "adverse", "force-adverse", "favorable",
          "assess", "close", "force-close", "signal", "ended"}

\* The window lies in the data set, and the bar being walked has been drawn.
OnData ==
  /\ data \in Seq([Symbols -> Candles]) /\ window \in Nat /\ bar \in Nat /\ Fits(window)
  /\ bar <= WindowEnd /\ bar <= Len(data)
  /\ Walking => bar < WindowEnd /\ bar < Len(data) /\ range \in [Symbols -> Bar]
  /\ step = "ended" => bar = WindowEnd /\ Open = {}

\* What is held, announced and booked.
Row(t) == Payer(t) /\ t.closedAt \in Nat /\ t.net \in Int /\ t.funding \in Int
Holding ==
  /\ step \in Stages
  /\ position \in [Symbols -> Priced \cup {Blank}]
  /\ pending \in [Symbols -> Announced \cup {Blank}]
  /\ waiting \subseteq Symbols /\ (step = "enter" => \A s \in waiting : pending[s] # Blank)
  /\ mark \in [Symbols -> Int]

Booking ==
  /\ cash \in [Days -> Int] /\ realized \in Int /\ capital \in Int
  /\ IsFiniteSet(trades) /\ \A t \in trades : Row(t)

\* Funding is settled up to the instant the walk has reached ...
Settled ==
  /\ settled \in Nat
  /\ step \in {"candles", "open"} => settled = 3 * bar \/ (Open = {} /\ settled <= 3 * bar)
  /\ step \in {"force-open", "enter", "adverse"} => settled = 3 * bar
  /\ step \in {"force-adverse", "favorable"} => settled = 3 * bar + 1
  /\ step \in {"assess", "close"} => settled = 3 * bar + 2
  /\ step \in {"force-close", "signal"} => settled = 3 * bar + 3

\* ... positions open before it, and a symbol's trades one after the other.
Ordered ==
  /\ \A s \in Open : position[s].openedAt <= settled /\ position[s].openedAt <= 3 * bar
  /\ step \in {"candles", "open", "force-open"} => \A s \in Open : position[s].openedAt < 3 * bar
  /\ \A t \in trades : t.window <= window /\ t.window \in Nat
  /\ \A t \in Here : t.openedAt < t.closedAt /\ t.closedAt <= settled
  /\ \A t \in Here : \A s \in Open : t.symbol = s => t.closedAt <= position[s].openedAt

\* What an open position has paid so far.
HeldPaid == \A s \in Open : position[s].funding = Paid(position[s], settled)

SimulationInv == OnData /\ Holding /\ Booking /\ Settled /\ Ordered /\ HeldPaid /\ SimulationBalances

-----------------------------------------------------------------------------
(* Positions leave.                                                        *)

(* A sum over a set and the images of another, none of which it holds.     *)
LEMMA SumWithNew ==
  ASSUME NEW H, IsFiniteSet(H), NEW S, IsFiniteSet(S), NEW m,
         \A x, y \in S : m[x] = m[y] => x = y, \A x \in S : m[x] \notin H,
         NEW f, NEW g, NEW h,
         \A t \in H : f[t] \in Int /\ h[t] = f[t],
         \A s \in S : g[s] \in Int /\ h[m[s]] = g[s]
  PROVE  /\ IsFiniteSet(H \cup {m[s] : s \in S})
         /\ SumFunctionOnSet(h, H \cup {m[s] : s \in S}) = SumFunctionOnSet(f, H) + SumFunctionOnSet(g, S)
<1> DEFINE M == {m[s] : s \in S}
<1>1. IsFiniteSet(M) /\ SumFunctionOnSet(h, M) = SumFunctionOnSet(g, S)
  BY SumMoved
<1> DEFINE W == H \cup M
<1>2. IsFiniteSet(W) /\ M \in SUBSET W /\ W \ M = H
  BY <1>1, FS_Union
<1>3. \A t \in W : h[t] \in Int
  OBVIOUS
<1>4. SumFunctionOnSet(h, H) = SumFunctionOnSet(f, H)
  BY SumAlike
<1> HIDE DEF M, W
<1>5. SumFunctionOnSet(h, W) = SumFunctionOnSet(h, W \ M) + SumFunctionOnSet(h, M)
  BY <1>2, <1>3, SumSplit
<1> QED
  BY <1>1, <1>2, <1>4, <1>5 DEF M, W

\* What falls due by `now` on a day, and what the trades m[s] of `out` carry.
DueBy(now, d) ==
  SumFunctionOnSet([s \in Open |-> Charge(position[s], DueOn(position[s], settled, now, d))], Open)
NetLeft(m, out) == SumFunctionOnSet([s \in out |-> m[s].net], out)
CashLeft(m, out) == SumFunctionOnSet([s \in out |-> m[s].net + m[s].funding], out)
OweLeft(m, out, now, d) == SumFunctionOnSet([s \in out |-> Charges(m[s], now, d)], out)

\* By `now` the positions held[s] have paid what was due; those of `out` leave
\* at at[s] as the trades m[s], and the others stay as stay[s].
Leaves(now, out, held, at, stay, m) ==
  /\ now \in Nat /\ settled <= now /\ now <= 3 * Bars /\ out \in SUBSET Open
  /\ \A s \in Open : /\ held[s] \in Priced /\ held[s].side = position[s].side
                     /\ held[s].quantity = position[s].quantity
                     /\ held[s].openedAt = position[s].openedAt
                     /\ held[s].funding = Paid(position[s], now)
  /\ \A s \in out : position[s].openedAt < now /\ at[s] \in Int
  /\ \A s \in Open \ out : Unmoved(held[s], stay[s])
  /\ \A s \in out : /\ m[s].symbol = s /\ m[s].window = window /\ m[s].side = position[s].side
                    /\ m[s].quantity = position[s].quantity
                    /\ m[s].openedAt = position[s].openedAt /\ m[s].closedAt = now
                    /\ m[s].net = NetPnl(held[s], at[s]) /\ m[s].funding = held[s].funding
  /\ position' = [s \in Symbols |-> IF s \in Open \ out THEN stay[s] ELSE Blank]
  /\ realized' = realized + NetLeft(m, out)
  /\ cash' = [d \in Days |-> cash[d] - DueBy(now, d)
                              + IF d = Day(now) THEN CashLeft(m, out) ELSE 0]
  /\ trades' = trades \cup {m[s] : s \in out}
  /\ settled' = now \/ (Open = {} /\ settled' = settled)
  /\ window' = window /\ capital' = capital

(* What is open is priced, and there are finitely many.                    *)
LEMMA OpenIs ==
  ASSUME Given, Holding
  PROVE  /\ Open \in SUBSET Symbols /\ IsFiniteSet(Open)
         /\ \A s \in Open : position[s] \in Priced /\ Payer(position[s])
<1>1. Open \in SUBSET Symbols /\ IsFiniteSet(Open)
  BY Figures, FS_Subset DEF Open
<1>2. \A s \in Open : position[s] \in Priced
  BY DEF Open, Holding
<1> QED
  BY <1>1, <1>2, PricedIsNotBlank

(* What is open afterwards: those that stay, unchanged but for protection. *)
LEMMA StaysOpen ==
  ASSUME Given, SimulationInv, NEW now, NEW out, NEW held, NEW at, NEW stay, NEW m,
         Leaves(now, out, held, at, stay, m)
  PROVE  /\ Open' = Open \ out
         /\ position' \in [Symbols -> Priced \cup {Blank}]
         /\ \A s \in Open \ out : /\ position[s]' \in Priced
                                  /\ position[s]'.side = position[s].side
                                  /\ position[s]'.quantity = position[s].quantity
                                  /\ position[s]'.openedAt = position[s].openedAt
                                  /\ position[s]'.funding = held[s].funding
<1>1. Open \in SUBSET Symbols
  BY OpenIs DEF SimulationInv
<1>2. position' = [s \in Symbols |-> IF s \in Open \ out THEN stay[s] ELSE Blank]
  BY DEF Leaves
<1>3. \A s \in Open \ out : position[s]' = stay[s] /\ Unmoved(held[s], stay[s])
  BY <1>1, <1>2 DEF Leaves
<1>4. \A s \in Open \ out : stay[s] \in Priced
  BY <1>3 DEF Unmoved
<1>5. \A s \in Open \ out : position[s]' # Blank
  BY <1>3, <1>4, PricedIsNotBlank
<1>6. \A s \in Symbols : s \notin Open \ out => position[s]' = Blank
  BY <1>2
<1>7. Open' = {s \in Symbols : position[s]' # Blank}
  BY DEF Open
<1>8. Open' = Open \ out
  BY <1>1, <1>5, <1>6, <1>7
<1>9. position' \in [Symbols -> Priced \cup {Blank}]
  BY <1>2, <1>4
<1>10. \A s \in Open \ out : /\ stay[s].side = held[s].side /\ stay[s].quantity = held[s].quantity
                             /\ stay[s].openedAt = held[s].openedAt /\ stay[s].funding = held[s].funding
  BY <1>3 DEF Unmoved
<1>11. \A s \in Open \ out : /\ held[s].side = position[s].side /\ held[s].quantity = position[s].quantity
                             /\ held[s].openedAt = position[s].openedAt
  BY DEF Leaves
<1> QED
  BY <1>3, <1>4, <1>8, <1>9, <1>10, <1>11

(* The trades that are added are rows of this window, and none was there.  *)
LEMMA TradesAreNew ==
  ASSUME Given, SimulationInv, NEW now, NEW out, NEW held, NEW at, NEW stay, NEW m,
         Leaves(now, out, held, at, stay, m)
  PROVE  /\ IsFiniteSet(out) /\ IsFiniteSet(Here) /\ IsFiniteSet(trades')
         /\ \A s \in out : Row(m[s]) /\ m[s] \notin trades
         /\ \A r, s \in out : m[r] = m[s] => r = s
         /\ \A t \in trades' : Row(t)
         /\ Here' = Here \cup {m[s] : s \in out}
         /\ (trades \ Here)' = trades \ Here
<1>1. /\ out \in SUBSET Open /\ trades' = trades \cup {m[s] : s \in out} /\ window' = window
      /\ \A s \in out : m[s].symbol = s /\ m[s].window = window /\ now \in Nat
      /\ \A s \in out : m[s].closedAt = now /\ m[s].openedAt = position[s].openedAt
      /\ \A s \in out : position[s].openedAt < now
  BY DEF Leaves
<1>2. IsFiniteSet(out)
  BY <1>1, OpenIs, FS_Subset DEF SimulationInv
<1>3. IsFiniteSet(trades) /\ \A t \in trades : Row(t)
  BY DEF SimulationInv, Booking
<1>4. IsFiniteSet(Here)
  BY <1>3, FS_Subset DEF Here
<1>5. IsFiniteSet(trades')
  <2>1. IsFiniteSet({m[s] : s \in out})
    <3> DEFINE z == [x \in {m[s] : s \in out} \cup out |-> 0]
    <3>1. \A x, y \in out : m[x] = m[y] => x = y
      BY <1>1
    <3>2. \A x \in out : 0 \in Int /\ z[m[x]] = 0 /\ z[x] \in Int /\ z[m[x]] = z[x]
      OBVIOUS
    <3> HIDE DEF z
    <3> QED BY <1>2, <3>1, <3>2, SumMoved
  <2> QED BY <1>1, <1>3, <2>1, FS_Union
<1>6. \A s \in out : Row(m[s])
  <2> TAKE s \in out
  <2>1. held[s] \in Priced /\ at[s] \in Int /\ m[s].quantity = position[s].quantity
    BY <1>1 DEF Leaves
  <2>2. m[s].net \in Int
    BY <2>1, NetIs DEF Leaves
  <2>3. m[s].funding \in Int
    BY <2>1 DEF Leaves, Priced
  <2>4. Payer(position[s])
    BY <1>1, OpenIs DEF SimulationInv
  <2> QED
    BY <1>1, <2>1, <2>2, <2>3, <2>4 DEF Row, Payer
<1>7. \A s \in out : m[s] \notin trades
  <2> SUFFICES ASSUME NEW s \in out, m[s] \in trades PROVE FALSE
    OBVIOUS
  <2> DEFINE t == m[s]
  <2>1. t \in Here /\ t.symbol = s /\ s \in Open /\ t.openedAt = position[s].openedAt
    BY <1>1 DEF Here
  <2>2. Row(t)
    BY <1>3
  <2> HIDE DEF t
  <2>3. t.openedAt < t.closedAt /\ t.closedAt <= position[s].openedAt
    BY <2>1 DEF SimulationInv, Ordered
  <2> QED
    BY <2>1, <2>2, <2>3 DEF Row, Payer
<1>8. Here' = Here \cup {m[s] : s \in out}
  <2>1. Here' = {t \in trades' : t.window = window'}
    BY DEF Here
  <2> QED BY <1>1, <2>1 DEF Here
<1>9. (trades \ Here)' = trades \ Here
  BY <1>1, <1>7, <1>8
<1>10. \A t \in trades' : Row(t)
  BY <1>1, <1>3, <1>6
<1> QED
  BY <1>1, <1>2, <1>4, <1>5, <1>6, <1>7, <1>8, <1>9, <1>10

(* What is paid depends on side, quantity and entry alone.                 *)
LEMMA PaidAlike ==
  ASSUME NEW x, NEW y, x.side = y.side, x.quantity = y.quantity, x.openedAt = y.openedAt
  PROVE  /\ \A u, d : Charges(x, u, d) = Charges(y, u, d)
         /\ \A u : Paid(x, u) = Paid(y, u)
<1>1. \A u, d : Charges(x, u, d) = Charges(y, u, d)
  BY DEF Charges, Charge
<1>2. ASSUME NEW u PROVE Paid(x, u) = Paid(y, u)
  <2> DEFINE f == [d \in Days |-> Charges(x, u, d)]
             g == [d \in Days |-> Charges(y, u, d)]
  <2>1. f = g
    BY <1>1
  <2>2. Paid(x, u) = SumFunctionOnSet(f, Days) /\ Paid(y, u) = SumFunctionOnSet(g, Days)
    BY DEF Paid, Total
  <2> HIDE DEF f, g
  <2> QED BY <2>1, <2>2
<1> QED
  BY <1>1, <1>2

(* Trades stay one after the other, and before what is open.               *)
LEMMA LeavesOrdered ==
  ASSUME Given, SimulationInv, NEW now, NEW out, NEW held, NEW at, NEW stay, NEW m,
         Leaves(now, out, held, at, stay, m)
  PROVE  /\ \A s \in Open' : s \in Open /\ position[s]'.openedAt = position[s].openedAt
                             /\ settled' = now
         /\ (\A t \in trades : t.window <= window /\ t.window \in Nat)'
         /\ (\A t \in Here : t.openedAt < t.closedAt /\ t.closedAt <= settled)'
         /\ (\A t \in Here : \A s \in Open : t.symbol = s => t.closedAt <= position[s].openedAt)'
<1> DEFINE M == {m[s] : s \in out}
<1>1. /\ Open' = Open \ out
      /\ \A s \in Open \ out : position[s]'.openedAt = position[s].openedAt
  BY StaysOpen
<1>2. /\ out \in SUBSET Open /\ trades' = trades \cup M /\ window' = window
      /\ now \in Nat /\ settled <= now
      /\ settled' = now \/ (Open = {} /\ settled' = settled)
      /\ \A s \in out : m[s].symbol = s /\ m[s].window = window
      /\ \A s \in out : m[s].closedAt = now /\ m[s].openedAt = position[s].openedAt
      /\ \A s \in out : position[s].openedAt < now
  BY DEF Leaves
<1>3. /\ \A t \in trades : t.window <= window /\ t.window \in Nat
      /\ \A t \in Here : t.openedAt < t.closedAt /\ t.closedAt <= settled
      /\ \A t \in Here : \A s \in Open : t.symbol = s => t.closedAt <= position[s].openedAt
      /\ settled \in Nat /\ window \in Nat
  BY DEF SimulationInv, Ordered, Settled, OnData
<1>4. Here' = Here \cup M
  BY TradesAreNew
<1>5. \A t \in Here : t.closedAt \in Nat
  BY DEF SimulationInv, Booking, Here, Row
<1>6. \A s \in Open' : s \in Open /\ position[s]'.openedAt = position[s].openedAt /\ settled' = now
  BY <1>1, <1>2
<1>7. \A t \in M : t.window = window /\ t.openedAt < t.closedAt /\ t.closedAt <= settled'
  <2> SUFFICES ASSUME NEW s \in out
               PROVE  m[s].window = window /\ m[s].openedAt < m[s].closedAt /\ m[s].closedAt <= settled'
    OBVIOUS
  <2>1. settled' = now
    BY <1>2
  <2> QED BY <1>2, <2>1
<1>8. \A t \in M : \A s \in Open \ out : t.symbol # s
  BY <1>2
<1>9. settled <= settled' /\ settled' \in Nat
  BY <1>2, <1>3
<1> HIDE DEF M
<1>10. \A t \in trades' : t.window <= window' /\ t.window \in Nat
  BY <1>2, <1>3, <1>7
<1>11. \A t \in Here' : t.openedAt < t.closedAt /\ t.closedAt <= settled'
  <2> TAKE t \in Here'
  <2>1. CASE t \in M
    BY <1>7, <2>1
  <2>2. CASE t \in Here
    <3>1. t.openedAt < t.closedAt /\ t.closedAt <= settled /\ t.closedAt \in Nat
      BY <1>3, <1>5, <2>2
    <3> QED BY <1>3, <1>9, <3>1
  <2> QED BY <1>4, <2>1, <2>2
<1>12. \A t \in Here' : \A s \in Open' : t.symbol = s => t.closedAt <= position[s]'.openedAt
  BY <1>1, <1>3, <1>4, <1>8
<1> QED
  BY <1>6, <1>10, <1>11, <1>12

(* Who stays has paid up to now, and every trade what was due on its way.  *)
LEMMA LeavesPaid ==
  ASSUME Given, SimulationInv, NEW now, NEW out, NEW held, NEW at, NEW stay, NEW m,
         Leaves(now, out, held, at, stay, m)
  PROVE  /\ HeldPaid'
         /\ \A t \in trades' : t.funding = Paid(t, t.closedAt)
<1>1. /\ Open' = Open \ out
      /\ \A s \in Open \ out : /\ position[s]'.side = position[s].side
                               /\ position[s]'.quantity = position[s].quantity
                               /\ position[s]'.openedAt = position[s].openedAt
                               /\ position[s]'.funding = held[s].funding
  BY StaysOpen
<1>2. /\ out \in SUBSET Open /\ trades' = trades \cup {m[s] : s \in out}
      /\ \A s \in Open : held[s].funding = Paid(position[s], now)
      /\ \A s \in out : /\ m[s].side = position[s].side /\ m[s].quantity = position[s].quantity
                        /\ m[s].openedAt = position[s].openedAt
                        /\ m[s].closedAt = now /\ m[s].funding = held[s].funding
  BY DEF Leaves
<1>3. \A s \in Open' : settled' = now
  BY LeavesOrdered
<1>4. ASSUME NEW s \in Open'
      PROVE  position[s]'.funding = Paid(position[s]', settled')
  <2> DEFINE q == position[s]'
             p == position[s]
  <2>1. s \in Open \ out
    BY <1>1
  <2>2. q.side = p.side /\ q.quantity = p.quantity /\ q.openedAt = p.openedAt
    BY <1>1, <2>1
  <2>3. q.funding = Paid(p, now)
    BY <1>1, <1>2, <2>1
  <2> HIDE DEF q, p
  <2>4. Paid(q, now) = Paid(p, now)
    BY <2>2, PaidAlike
  <2> QED
    BY <1>3, <2>3, <2>4 DEF q
<1>5. HeldPaid'
  BY <1>4 DEF HeldPaid, Paid, Total, Charges, Charge, Days, Day
<1>6. \A t \in trades : t.funding = Paid(t, t.closedAt)
  BY DEF SimulationInv, SimulationBalances, Paid
<1>7. ASSUME NEW s \in out
      PROVE  m[s].funding = Paid(m[s], m[s].closedAt)
  <2> DEFINE q == m[s]
             p == position[s]
  <2>1. q.side = p.side /\ q.quantity = p.quantity /\ q.openedAt = p.openedAt
    BY <1>2
  <2>2. q.funding = Paid(p, now) /\ q.closedAt = now
    BY <1>2
  <2> HIDE DEF q, p
  <2>3. Paid(q, now) = Paid(p, now)
    BY <2>1, PaidAlike
  <2> QED
    BY <2>2, <2>3 DEF q
<1> QED
  BY <1>2, <1>5, <1>6, <1>7

\* The four columns of the books.
NetOf(H) == Total(H, LAMBDA t : t.net)
ClosedOn(H, d) == Total({t \in H : Day(t.closedAt) = d}, LAMBDA t : t.net + t.funding)
TradesOwe(H, d) == Total(H, LAMBDA t : Charges(t, t.closedAt, d))
OpenOwe(d) == Total(Open, LAMBDA s : Charges(position[s], settled, d))

(* The balances in these terms.                                            *)
LEMMA BalancesAre ==
  SimulationBalances <=>
    /\ \A t \in trades : t.funding = Paid(t, t.closedAt)
    /\ \A d \in Days : cash[d] = ClosedOn(Here, d) - TradesOwe(Here, d) - OpenOwe(d)
    /\ realized = NetOf(Here)
    /\ capital = Capital + NetOf(trades \ Here)
BY DEF SimulationBalances, Paid, ClosedOn, TradesOwe, OpenOwe, NetOf, Here

(* They are numbers.                                                       *)
LEMMA ColumnsAre ==
  ASSUME Given, NEW H, IsFiniteSet(H), \A t \in H : Row(t), NEW d
  PROVE  NetOf(H) \in Int /\ ClosedOn(H, d) \in Int /\ TradesOwe(H, d) \in Int
<1> DEFINE f == [t \in H |-> t.net]
           C == {t \in H : Day(t.closedAt) = d}
           g == [t \in C |-> t.net + t.funding]
           h == [t \in H |-> Charges(t, t.closedAt, d)]
<1>1. /\ \A t \in H : f[t] \in Int
      /\ \A t \in C : g[t] \in Int
  BY DEF Row
<1>2. \A t \in H : h[t] \in Int
  BY ChargesGrow DEF Row
<1>3. IsFiniteSet(C)
  BY FS_Subset
<1>4. NetOf(H) = SumFunctionOnSet(f, H) /\ ClosedOn(H, d) = SumFunctionOnSet(g, C)
      /\ TradesOwe(H, d) = SumFunctionOnSet(h, H)
  BY DEF NetOf, ClosedOn, TradesOwe, Total
<1> HIDE DEF f, g, h, C
<1> QED
  BY <1>1, <1>2, <1>3, <1>4, SumType

\* N is H and the trades m[s] of `out`, none of which was there.
Added(H, out, m, now, N) ==
  /\ IsFiniteSet(H) /\ (\A t \in H : Row(t)) /\ IsFiniteSet(out) /\ now \in Nat
  /\ \A s \in out : Row(m[s]) /\ m[s] \notin H /\ m[s].closedAt = now
  /\ \A r, s \in out : m[r] = m[s] => r = s
  /\ N = H \cup {m[s] : s \in out}

(* New trades add what they carry.                                         *)
LEMMA ColumnsGrow ==
  ASSUME Given, NEW H, NEW out, NEW m, NEW now, NEW N, Added(H, out, m, now, N), NEW d
  PROVE  /\ NetOf(N) = NetOf(H) + NetLeft(m, out)
         /\ TradesOwe(N, d) = TradesOwe(H, d) + OweLeft(m, out, now, d)
         /\ ClosedOn(N, d) = ClosedOn(H, d) + IF d = Day(now) THEN CashLeft(m, out) ELSE 0
<1> DEFINE M == {m[s] : s \in out}
<1> USE DEF Added
<1>1. NetOf(N) = NetOf(H) + NetLeft(m, out)
  <2> DEFINE f == [t \in H |-> t.net]
             g == [s \in out |-> m[s].net]
             h == [t \in N |-> t.net]
  <2>1. \A t \in H : f[t] \in Int /\ h[t] = f[t]
    BY DEF Row
  <2>2. \A s \in out : g[s] \in Int /\ h[m[s]] = g[s]
    BY DEF Row
  <2>3. NetOf(N) = SumFunctionOnSet(h, N) /\ NetOf(H) = SumFunctionOnSet(f, H)
    BY DEF NetOf, Total
  <2> HIDE DEF f, h, g
  <2>4. SumFunctionOnSet(h, N) = SumFunctionOnSet(f, H) + SumFunctionOnSet(g, out)
    BY <2>1, <2>2, SumWithNew
  <2> QED BY <2>3, <2>4 DEF g, NetLeft
<1>2. TradesOwe(N, d) = TradesOwe(H, d) + OweLeft(m, out, now, d)
  <2> DEFINE f == [t \in H |-> Charges(t, t.closedAt, d)]
             g == [s \in out |-> Charges(m[s], now, d)]
             h == [t \in N |-> Charges(t, t.closedAt, d)]
  <2>1. \A t \in H : Charges(t, t.closedAt, d) \in Int
    BY ChargesGrow DEF Row
  <2>2. \A s \in out : Charges(m[s], now, d) \in Int
    BY ChargesGrow DEF Row
  <2>3. \A t \in H : f[t] \in Int /\ h[t] = f[t]
    BY <2>1
  <2>4. \A s \in out : g[s] \in Int /\ h[m[s]] = g[s]
    BY <2>2
  <2>5. TradesOwe(N, d) = SumFunctionOnSet(h, N) /\ TradesOwe(H, d) = SumFunctionOnSet(f, H)
    BY DEF TradesOwe, Total
  <2> HIDE DEF f, h, g
  <2>6. SumFunctionOnSet(h, N) = SumFunctionOnSet(f, H) + SumFunctionOnSet(g, out)
    BY <2>3, <2>4, SumWithNew
  <2> QED BY <2>5, <2>6 DEF g, OweLeft
<1>3. ClosedOn(N, d) = ClosedOn(H, d) + IF d = Day(now) THEN CashLeft(m, out) ELSE 0
  <2> DEFINE C == {t \in H : Day(t.closedAt) = d}
             D == {t \in N : Day(t.closedAt) = d}
             f == [t \in C |-> t.net + t.funding]
             g == [s \in out |-> m[s].net + m[s].funding]
             h == [t \in D |-> t.net + t.funding]
  <2>1. ClosedOn(N, d) = SumFunctionOnSet(h, D) /\ ClosedOn(H, d) = SumFunctionOnSet(f, C)
    BY DEF ClosedOn, Total
  <2>2. IsFiniteSet(C) /\ \A t \in C : f[t] \in Int
    BY FS_Subset DEF Row
  <2>3. CASE d = Day(now)
    <3>1. D = C \cup M
      BY <2>3
    <3>2. \A t \in C : f[t] \in Int /\ h[t] = f[t]
      BY <2>2
    <3>3. \A s \in out : g[s] \in Int /\ h[m[s]] = g[s]
      BY <3>1 DEF Row
    <3>4. \A s \in out : m[s] \notin C
      OBVIOUS
    <3> HIDE DEF f, h, g, C, D
    <3>5. SumFunctionOnSet(h, D) = SumFunctionOnSet(f, C) + SumFunctionOnSet(g, out)
      BY <2>2, <3>1, <3>2, <3>3, <3>4, SumWithNew
    <3> QED BY <2>1, <2>3, <3>5 DEF g, CashLeft
  <2>4. CASE d # Day(now)
    <3>1. D = C
      BY <2>4
    <3>2. SumFunctionOnSet(h, D) = SumFunctionOnSet(f, C)
      BY <3>1
    <3>3. SumFunctionOnSet(f, C) \in Int
      <4> HIDE DEF f, C
      <4> QED BY <2>2, SumType
    <3>4. ClosedOn(N, d) = ClosedOn(H, d) /\ ClosedOn(H, d) \in Int
      BY <2>1, <3>2, <3>3
    <3> QED BY <2>4, <3>4
  <2> QED BY <2>3, <2>4
<1> QED
  BY <1>1, <1>2, <1>3

(* What the open positions owe, when time goes on and some of them leave.  *)
LEMMA OwedMoves ==
  ASSUME Given, SimulationInv, NEW now, NEW out, NEW held, NEW at, NEW stay, NEW m,
         Leaves(now, out, held, at, stay, m), NEW d
  PROVE  /\ OpenOwe(d) \in Int /\ DueBy(now, d) \in Int /\ OweLeft(m, out, now, d) \in Int
         /\ OpenOwe(d)' = OpenOwe(d) + DueBy(now, d) - OweLeft(m, out, now, d)
<1> DEFINE f == [s \in Open |-> Charges(position[s], settled, d)]
           g == [s \in Open |-> Charge(position[s], DueOn(position[s], settled, now, d))]
           h == [s \in Open |-> Charges(position[s], now, d)]
           k == [s \in out |-> Charges(m[s], now, d)]
           e == [s \in Open \ out |-> Charges(position[s]', settled', d)]
<1>1. IsFiniteSet(Open) /\ \A s \in Open : Payer(position[s])
  BY OpenIs DEF SimulationInv
<1>2. settled \in Nat /\ now \in Nat /\ settled <= now /\ out \in SUBSET Open
  BY DEF SimulationInv, Settled, Leaves
<1>3. \A s \in Open : f[s] \in Int /\ g[s] \in Int /\ h[s] \in Int /\ h[s] = f[s] + g[s]
  BY <1>1, <1>2, ChargesGrow
<1>4. \A s \in out : k[s] = h[s]
  <2> TAKE s \in out
  <2>1. m[s].side = position[s].side /\ m[s].quantity = position[s].quantity
        /\ m[s].openedAt = position[s].openedAt
    BY DEF Leaves
  <2>2. Charges(m[s], now, d) = Charges(position[s], now, d)
    BY <2>1, PaidAlike
  <2> QED BY <1>2, <2>2
<1>5. \A s \in Open \ out : e[s] = h[s]
  <2> TAKE s \in Open \ out
  <2>1. /\ position[s]'.side = position[s].side /\ position[s]'.quantity = position[s].quantity
        /\ position[s]'.openedAt = position[s].openedAt
    BY StaysOpen
  <2>2. settled' = now
    BY StaysOpen, LeavesOrdered
  <2>3. Charges(position[s]', now, d) = Charges(position[s], now, d)
    BY <2>1, PaidAlike
  <2> QED BY <2>2, <2>3
<1>6. OpenOwe(d) = SumFunctionOnSet(f, Open)
  BY DEF OpenOwe, Total
<1>7. OpenOwe(d)' = SumFunctionOnSet(e, Open \ out)
  <2>1. Open' = Open \ out
    BY StaysOpen
  <2> QED
    BY <2>1 DEF OpenOwe, Total, Charges, Charge, Day
<1>8. IsFiniteSet(out) /\ IsFiniteSet(Open \ out)
  BY <1>1, <1>2, FS_Subset
<1> HIDE DEF f, g, h, k, e
<1>9. SumFunctionOnSet(h, Open) = SumFunctionOnSet(f, Open) + SumFunctionOnSet(g, Open)
  BY <1>1, <1>3, SumsAdd
<1>10. SumFunctionOnSet(k, out) = SumFunctionOnSet(h, out)
  BY <1>4, <1>8, SumAlike
<1>11. SumFunctionOnSet(e, Open \ out) = SumFunctionOnSet(h, Open \ out)
  BY <1>5, <1>8, SumAlike
<1>12. SumFunctionOnSet(h, Open) = SumFunctionOnSet(h, Open \ out) + SumFunctionOnSet(h, out)
  BY <1>1, <1>2, <1>3, SumSplit
<1>13. /\ SumFunctionOnSet(f, Open) \in Int /\ SumFunctionOnSet(g, Open) \in Int
       /\ SumFunctionOnSet(h, out) \in Int /\ SumFunctionOnSet(h, Open \ out) \in Int
  <2>1. (\A s \in out : h[s] \in Int) /\ (\A s \in Open \ out : h[s] \in Int)
    BY <1>2, <1>3
  <2> QED BY <1>1, <1>3, <1>8, <2>1, SumType
<1>14. OpenOwe(d)' = OpenOwe(d) + SumFunctionOnSet(g, Open) - SumFunctionOnSet(k, out)
  BY <1>6, <1>7, <1>9, <1>10, <1>11, <1>12, <1>13
<1> QED
  BY <1>6, <1>10, <1>13, <1>14 DEF g, k, DueBy, OweLeft

(* The same of the state after a step.                                     *)
LEMMA BalancesLater ==
  ASSUME /\ \A t \in trades' : t.funding = Paid(t, t.closedAt)
         /\ \A d \in Days : cash'[d] = ClosedOn(Here', d) - TradesOwe(Here', d) - OpenOwe(d)'
         /\ realized' = NetOf(Here')
         /\ capital' = Capital + NetOf((trades \ Here)')
  PROVE  SimulationBalances'
BY DEF SimulationBalances, Paid, ClosedOn, TradesOwe, OpenOwe, NetOf, Here, Total, Charges, Charge,
       Day, Days, Due

(* The books agree after positions have left.                              *)
LEMMA LeavesBooked ==
  ASSUME Given, SimulationInv, NEW now, NEW out, NEW held, NEW at, NEW stay, NEW m,
         Leaves(now, out, held, at, stay, m)
  PROVE  Booking' /\ SimulationBalances'
<1> DEFINE net == NetLeft(m, out)
           booked == CashLeft(m, out)
           due(d) == DueBy(now, d)
           left(d) == OweLeft(m, out, now, d)
<1>1. /\ IsFiniteSet(out) /\ IsFiniteSet(Here) /\ IsFiniteSet(trades')
      /\ \A s \in out : Row(m[s]) /\ m[s] \notin trades
      /\ \A r, s \in out : m[r] = m[s] => r = s
      /\ \A t \in trades' : Row(t)
      /\ Here' = Here \cup {m[s] : s \in out}
      /\ (trades \ Here)' = trades \ Here
  BY TradesAreNew
<1>2. (\A t \in Here : Row(t)) /\ Here \in SUBSET trades
  BY DEF SimulationInv, Booking, Here
<1>3. /\ now \in Nat /\ \A s \in out : m[s].closedAt = now
      /\ realized' = realized + net
      /\ cash' = [d \in Days |-> cash[d] - due(d) + IF d = Day(now) THEN booked ELSE 0]
      /\ capital' = capital
  BY DEF Leaves
<1>4. /\ NetOf(Here') = NetOf(Here) + net
      /\ \A d : TradesOwe(Here', d) = TradesOwe(Here, d) + left(d)
      /\ \A d : ClosedOn(Here', d) = ClosedOn(Here, d) + IF d = Day(now) THEN booked ELSE 0
  <2>1. \A s \in out : Row(m[s]) /\ m[s] \notin Here
    BY <1>1, <1>2
  <2>2. IsFiniteSet(out) /\ IsFiniteSet(Here) /\ \A t \in Here : Row(t)
    BY <1>1, <1>2
  <2>3. now \in Nat /\ (\A s \in out : m[s].closedAt = now) /\ \A r, s \in out : m[r] = m[s] => r = s
    BY <1>1, <1>3
  <2>4. Here' = Here \cup {m[s] : s \in out}
    BY <1>1
  <2>5. Added(Here, out, m, now, Here')
    BY <2>1, <2>2, <2>3, <2>4 DEF Added
  <2> QED BY <2>5, ColumnsGrow
<1>5. \A d : /\ OpenOwe(d) \in Int /\ due(d) \in Int /\ left(d) \in Int
             /\ OpenOwe(d)' = OpenOwe(d) + due(d) - left(d)
  BY OwedMoves
<1>6. \A d : NetOf(Here) \in Int /\ ClosedOn(Here, d) \in Int /\ TradesOwe(Here, d) \in Int
  BY <1>1, <1>2, ColumnsAre
<1>7. net \in Int /\ booked \in Int
  <2> DEFINE f == [s \in out |-> m[s].net]
             g == [s \in out |-> m[s].net + m[s].funding]
  <2>1. \A s \in out : f[s] \in Int /\ g[s] \in Int
    BY <1>1 DEF Row
  <2> HIDE DEF f, g
  <2>2. SumFunctionOnSet(f, out) \in Int /\ SumFunctionOnSet(g, out) \in Int
    BY <1>1, <2>1, SumType
  <2> QED BY <2>2 DEF f, g, NetLeft, CashLeft
<1>8. /\ \A d \in Days : cash[d] = ClosedOn(Here, d) - TradesOwe(Here, d) - OpenOwe(d)
      /\ realized = NetOf(Here)
      /\ capital = Capital + NetOf(trades \ Here)
  BY BalancesAre DEF SimulationInv
<1>9. cash \in [Days -> Int] /\ realized \in Int /\ capital \in Int
  BY DEF SimulationInv, Booking
<1> HIDE DEF net, booked, due, left
<1>10. ASSUME NEW d \in Days
       PROVE  /\ cash'[d] \in Int
              /\ cash'[d] = ClosedOn(Here', d) - TradesOwe(Here', d) - OpenOwe(d)'
  <2> DEFINE b == IF d = Day(now) THEN booked ELSE 0
             c == ClosedOn(Here, d)
             o == TradesOwe(Here, d)
             w == OpenOwe(d)
  <2>1. b \in Int /\ c \in Int /\ o \in Int /\ w \in Int /\ due(d) \in Int /\ left(d) \in Int /\ cash[d] \in Int
    BY <1>5, <1>6, <1>7, <1>9
  <2>2. cash'[d] = cash[d] - due(d) + b
    BY <1>3
  <2>3. cash[d] = c - o - w
    BY <1>8
  <2>4. ClosedOn(Here', d) = c + b /\ TradesOwe(Here', d) = o + left(d)
    BY <1>4
  <2>5. OpenOwe(d)' = w + due(d) - left(d)
    BY <1>5
  <2> HIDE DEF b, c, o, w
  <2> QED BY <2>1, <2>2, <2>3, <2>4, <2>5
<1>11. realized' = NetOf(Here') /\ realized' \in Int
  BY <1>3, <1>4, <1>7, <1>8, <1>9
<1>12. capital' = Capital + NetOf((trades \ Here)') /\ capital' \in Int
  BY <1>1, <1>3, <1>8, <1>9
<1>13. cash' \in [Days -> Int]
  <2>1. cash' = [d \in Days |-> cash'[d]]
    BY <1>3
  <2> QED BY <1>10, <2>1
<1>14. Booking'
  BY <1>1, <1>11, <1>12, <1>13 DEF Booking, Row, Payer, Days, Day
<1>15. \A t \in trades' : t.funding = Paid(t, t.closedAt)
  BY LeavesPaid
<1>16. SimulationBalances'
  BY <1>10, <1>11, <1>12, <1>15, BalancesLater
<1> QED
  BY <1>14, <1>16

-----------------------------------------------------------------------------
(* The steps of the walk.                                                  *)

(* The window, in numbers.                                                 *)
LEMMA WindowIs ==
  ASSUME Given, OnData
  PROVE  /\ window * Test \in Nat /\ WindowEnd = window * Test + Training + Test
         /\ WindowEnd \in Nat /\ WindowEnd <= Bars /\ bar \in Nat /\ bar <= WindowEnd
         /\ window \in Nat /\ Len(data) \in Nat /\ bar <= Len(data)
<1>1. /\ data \in Seq([Symbols -> Candles]) /\ window \in Nat /\ bar \in Nat /\ Fits(window)
      /\ bar <= WindowEnd /\ bar <= Len(data)
  BY DEF OnData
<1>2. Test \in Nat /\ Training \in Nat /\ Bars \in Nat
  BY Figures
<1>3. window * Test \in Nat
  BY <1>1, <1>2
<1>4. WindowEnd = window * Test + Training + Test /\ window * Test + Training + Test <= Bars
  BY <1>1 DEF WindowEnd, TestStart, WindowStart, Fits
<1>5. Len(data) \in Nat
  BY <1>1
<1> DEFINE k == window * Test
<1> HIDE DEF k
<1>6. k \in Nat /\ WindowEnd = k + Training + Test /\ k + Training + Test <= Bars
  BY <1>3, <1>4 DEF k
<1>7. WindowEnd \in Nat /\ WindowEnd <= Bars
  BY <1>2, <1>6
<1> QED
  BY <1>1, <1>3, <1>4, <1>5, <1>7

(* Where the walk stands in time, while a bar is walked.                   *)
LEMMA NowIs ==
  ASSUME Given, SimulationInv, Walking
  PROVE  /\ Now \in Nat /\ Now <= 3 * Bars /\ 3 * bar <= Now /\ bar \in Nat
         /\ settled \in Nat /\ settled <= Now
         /\ step \in {"open", "force-open", "enter"} => Now = 3 * bar
         /\ step \in {"adverse", "force-adverse"} => Now = 3 * bar + 1
         /\ step \in {"favorable", "assess"} => Now = 3 * bar + 2
         /\ step \in {"close", "force-close", "signal"} => Now = 3 * bar + 3
<1>1. /\ window \in Nat /\ bar \in Nat /\ bar < WindowEnd /\ Fits(window)
      /\ settled \in Nat /\ step \in Stages /\ Bars \in Nat /\ Test \in Nat /\ Training \in Nat
  BY Figures DEF SimulationInv, OnData, Settled, Holding
<1>2. bar < Bars
  BY <1>1, WindowIs DEF SimulationInv
<1>3. /\ step \in {"open", "force-open", "enter"} => Now = 3 * bar
      /\ step \in {"adverse", "force-adverse"} => Now = 3 * bar + 1
      /\ step \in {"favorable", "assess"} => Now = 3 * bar + 2
      /\ step \in {"close", "force-close", "signal"} => Now = 3 * bar + 3
  BY <1>1 DEF Now
<1>4. step \in {"open", "force-open", "enter", "adverse", "force-adverse", "favorable", "assess",
                "close", "force-close", "signal"}
  BY <1>1 DEF Stages, Walking
<1>5. Now \in 3 * bar .. 3 * bar + 3
  BY <1>1, <1>3, <1>4
<1>6. settled <= Now
  BY <1>1, <1>3, <1>4 DEF SimulationInv, Settled
<1> QED
  BY <1>1, <1>2, <1>3, <1>5, <1>6

(* What is held when the funding that is due has been settled.             *)
LEMMA AccruedIs ==
  ASSUME Given, SimulationInv, Walking
  PROVE  /\ \A s \in Open : /\ Accrued[s] \in Priced /\ Accrued[s].side = position[s].side
                            /\ Accrued[s].quantity = position[s].quantity
                            /\ Accrued[s].openedAt = position[s].openedAt
                            /\ Accrued[s].funding = Paid(position[s], Now)
         /\ \A s \in Symbols \ Open : Accrued[s] = Blank
         /\ settled = Now => Accrued = position
<1>1. /\ Open \in SUBSET Symbols
      /\ \A s \in Open : position[s] \in Priced /\ Payer(position[s])
  BY OpenIs DEF SimulationInv
<1>2. Now \in Nat /\ Now <= 3 * Bars /\ settled \in Nat /\ settled <= Now
  BY NowIs
<1>3. \A s \in Symbols \ Open : Accrued[s] = Blank
  BY DEF Accrued
<1>4. ASSUME NEW s \in Open
      PROVE  /\ Accrued[s] \in Priced /\ Accrued[s].side = position[s].side
             /\ Accrued[s].quantity = position[s].quantity
             /\ Accrued[s].openedAt = position[s].openedAt
             /\ Accrued[s].funding = Paid(position[s], Now)
             /\ settled = Now => Accrued[s] = position[s]
  <2> DEFINE p == position[s]
             c == Charge(position[s], Due(position[s], settled, Now))
             q == [p EXCEPT !.funding = p.funding + c]
  <2>1. p \in Priced /\ Payer(p)
    BY <1>1
  <2>2. Paid(p, Now) = Paid(p, settled) + c /\ c \in Int
    BY <1>2, <2>1, PaidGrows
  <2>3. p.funding = Paid(p, settled) /\ p.funding \in Int
    BY <2>1 DEF SimulationInv, HeldPaid, Priced
  <2>4. Accrued[s] = q
    BY <1>1 DEF Accrued
  <2>5. settled = Now => c = 0
    <3>1. settled = Now => Due(p, settled, Now) = {}
      <4>1. \A t \in Settlements : t \in Nat
        BY Figures
      <4> QED BY <1>2, <4>1 DEF Due
    <3> QED BY <2>1, <3>1, ChargeIs
  <2> HIDE DEF c, p
  <2>6. q \in Priced
    BY <2>1, <2>2, <2>3 DEF Priced
  <2>7. /\ q.side = p.side /\ q.quantity = p.quantity /\ q.openedAt = p.openedAt
        /\ q.funding = p.funding + c
    BY <2>1 DEF Priced
  <2>8. c = 0 => q = p
    <3>1. c = 0 => p.funding + c = p.funding
      BY <2>3
    <3> QED BY <2>1, <3>1 DEF Priced
  <2> HIDE DEF q
  <2> QED
    BY <2>2, <2>3, <2>4, <2>5, <2>6, <2>7, <2>8 DEF p
<1>5. settled = Now => Accrued = position
  <2> SUFFICES ASSUME settled = Now PROVE Accrued = position
    OBVIOUS
  <2>1. \A s \in Symbols : Accrued[s] = position[s]
    BY <1>3, <1>4 DEF Open
  <2>2. Accrued = [s \in Symbols |-> Accrued[s]]
    BY DEF Accrued
  <2>3. position = [s \in Symbols |-> position[s]]
    BY DEF SimulationInv, Holding
  <2> HIDE DEF Accrued
  <2> QED BY <2>1, <2>2, <2>3
<1> QED
  BY <1>3, <1>4, <1>5

(* Leave, as the lemmas above speak of it.                                 *)
LEMMA LeaveIs ==
  ASSUME Given, SimulationInv, Walking, NEW e, NEW k, Leave(Accrued, e, k),
         \A s \in Open : e[s] # NoExit => position[s].openedAt < Now /\ e[s].at \in Int,
         \A s \in Open : e[s] = NoExit => Unmoved(Accrued[s], k[s]),
         window' = window, capital' = capital
  PROVE  \E out, at, m : Leaves(Now, out, Accrued, at, k, m)
<1> DEFINE out == {s \in Symbols : Accrued[s] # Blank /\ e[s] # NoExit}
           m == [s \in out |-> Trade(s, Accrued[s], e[s])]
           at == [s \in out |-> e[s].at]
<1>1. /\ \A s \in Open : /\ Accrued[s] \in Priced /\ Accrued[s].side = position[s].side
                         /\ Accrued[s].quantity = position[s].quantity
                         /\ Accrued[s].openedAt = position[s].openedAt
                         /\ Accrued[s].funding = Paid(position[s], Now)
      /\ \A s \in Symbols \ Open : Accrued[s] = Blank
  BY AccruedIs
<1>2. /\ position' = [s \in Symbols |-> IF s \in out \/ Accrued[s] = Blank THEN Blank ELSE k[s]]
      /\ realized' = realized + Total(out, LAMBDA s : NetPnl(Accrued[s], e[s].at))
      /\ cash' = [d \in Days |-> cash[d] - ChargedOn(d)
                + IF d = Day(Now) THEN Total(out, LAMBDA s : Booked(Accrued[s], e[s].at)) ELSE 0]
      /\ trades' = trades \cup {Trade(s, Accrued[s], e[s]) : s \in out}
      /\ settled' = Now
  BY DEF Leave
<1>3. \A s \in Open : Accrued[s] # Blank
  BY <1>1, PricedIsNotBlank
<1>4. Open \in SUBSET Symbols
  BY DEF Open
<1> HIDE DEF Accrued
<1>5. out \in SUBSET Open /\ \A s \in Open : s \in out <=> e[s] # NoExit
  BY <1>1, <1>3, <1>4
<1>6. Now \in Nat /\ settled <= Now /\ Now <= 3 * Bars
  BY NowIs
<1>7. \A s \in out : position[s].openedAt < Now /\ at[s] \in Int
  BY <1>5
<1>8. \A s \in Open \ out : Unmoved(Accrued[s], k[s])
  BY <1>5
<1>9. \A s \in out : /\ m[s].symbol = s /\ m[s].window = window /\ m[s].side = position[s].side
                     /\ m[s].quantity = position[s].quantity
                     /\ m[s].openedAt = position[s].openedAt /\ m[s].closedAt = Now
                     /\ m[s].net = NetPnl(Accrued[s], at[s]) /\ m[s].funding = Accrued[s].funding
  BY <1>1, <1>5 DEF Trade
<1>10. position' = [s \in Symbols |-> IF s \in Open \ out THEN k[s] ELSE Blank]
  <2>1. \A s \in Symbols : (s \in out \/ Accrued[s] = Blank) <=> s \notin Open \ out
    BY <1>1, <1>3, <1>5
  <2> HIDE DEF out
  <2> QED BY <1>2, <2>1
<1>11. realized' = realized + NetLeft(m, out)
  <2>1. [s \in out |-> NetPnl(Accrued[s], e[s].at)] = [s \in out |-> m[s].net]
    <3>1. \A s \in out : m[s].net = NetPnl(Accrued[s], e[s].at)
      BY DEF Trade
    <3> HIDE DEF m, out
    <3> QED BY <3>1
  <2> HIDE DEF m, out
  <2> QED BY <1>2, <2>1 DEF Total, NetLeft
<1>12. cash' = [d \in Days |-> cash[d] - DueBy(Now, d)
                                + IF d = Day(Now) THEN CashLeft(m, out) ELSE 0]
  <2>1. [s \in out |-> Booked(Accrued[s], e[s].at)] = [s \in out |-> m[s].net + m[s].funding]
    <3>1. \A s \in out : m[s].net = NetPnl(Accrued[s], e[s].at) /\ m[s].funding = Accrued[s].funding
      BY DEF Trade
    <3> HIDE DEF m, out
    <3> QED BY <3>1 DEF Booked
  <2> HIDE DEF m, out
  <2>2. Total(out, LAMBDA s : Booked(Accrued[s], e[s].at)) = CashLeft(m, out)
    BY <2>1 DEF Total, CashLeft
  <2>3. \A d \in Days : ChargedOn(d) = DueBy(Now, d)
    BY DEF ChargedOn, Total, DueBy, DueOn
  <2> QED BY <1>2, <2>2, <2>3
<1>13. trades' = trades \cup {m[s] : s \in out}
  BY <1>2
<1> HIDE DEF out, m, at
<1>14. Leaves(Now, out, Accrued, at, k, m)
  BY <1>1, <1>2, <1>5, <1>6, <1>7, <1>8, <1>9, <1>10, <1>11, <1>12, <1>13 DEF Leaves
<1> QED
  BY <1>14

(* Leaving keeps the invariant, whatever takes the positions out.          *)
LEMMA LeavingKeeps ==
  ASSUME Given, SimulationInv, Walking, NEW e, NEW k, Leave(Accrued, e, k),
         \A s \in Open : e[s] # NoExit => position[s].openedAt < Now /\ e[s].at \in Int,
         \A s \in Open : e[s] = NoExit => Unmoved(Accrued[s], k[s]),
         UNCHANGED <<drawn, range, pending, capital>>,
         step' \in Stages \ {"candles", "open", "ended"}, step' = "force-open" => step = "open",
         Settled', mark' \in [Symbols -> Int], waiting' \subseteq Symbols,
         step' = "enter" => \A s \in waiting' : pending[s] # Blank
  PROVE  SimulationInv'
<1>1. /\ data' = data /\ window' = window /\ bar' = bar /\ range' = range
      /\ pending' = pending /\ capital' = capital
  BY DEF drawn
<1>2. PICK out, at, m : Leaves(Now, out, Accrued, at, k, m)
  BY <1>1, LeaveIs
<1>3. /\ Open' = Open \ out /\ position' \in [Symbols -> Priced \cup {Blank}]
  BY <1>2, StaysOpen
<1>4. /\ \A s \in Open' : s \in Open /\ position[s]'.openedAt = position[s].openedAt
                          /\ settled' = Now
      /\ (\A t \in trades : t.window <= window /\ t.window \in Nat)'
      /\ (\A t \in Here : t.openedAt < t.closedAt /\ t.closedAt <= settled)'
      /\ (\A t \in Here : \A s \in Open : t.symbol = s => t.closedAt <= position[s].openedAt)'
  BY <1>2, LeavesOrdered
<1>5. HeldPaid'
  BY <1>2, LeavesPaid
<1>6. Booking' /\ SimulationBalances'
  BY <1>2, LeavesBooked
<1>7. OnData'
  <2>1. OnData
    BY DEF SimulationInv
  <2> QED
    BY <1>1, <2>1 DEF OnData, Walking, Fits, WindowEnd, TestStart, WindowStart
<1>8. Holding'
  <2>1. pending \in [Symbols -> Announced \cup {Blank}]
    BY DEF SimulationInv, Holding
  <2> QED
    BY <1>1, <1>3, <2>1 DEF Holding
<1>9. Ordered'
  <2>1. /\ \A s \in Open : position[s].openedAt <= settled /\ position[s].openedAt <= 3 * bar
        /\ step = "open" => \A s \in Open : position[s].openedAt < 3 * bar
        /\ \A s \in Open : position[s].openedAt \in Nat
    BY OpenIs DEF SimulationInv, Ordered, Payer
  <2>2. settled \in Nat /\ settled <= Now /\ Now \in Nat /\ bar \in Nat
    BY NowIs
  <2>3. \A s \in Open' : position[s]'.openedAt <= settled' /\ position[s]'.openedAt <= 3 * bar'
    BY <1>1, <1>4, <2>1, <2>2
  <2>4. step' \in {"candles", "open", "force-open"} => \A s \in Open' : position[s]'.openedAt < 3 * bar'
    BY <1>1, <1>4, <2>1
  <2> QED
    BY <1>4, <2>3, <2>4 DEF Ordered
<1> QED
  BY <1>5, <1>6, <1>7, <1>8, <1>9 DEF SimulationInv

(* Prices in the candles of the bar.                                       *)
LEMMA RangeHas ==
  ASSUME SimulationInv, Walking, NEW s \in Symbols
  PROVE  /\ range[s] \in Bar /\ range[s].open \in Int /\ range[s].high \in Int
         /\ range[s].low \in Int /\ range[s].close \in Int
BY DEF SimulationInv, OnData, Bar

(* At the open: stops and targets by the open price, and the holding time. *)
LEMMA OpenOfBarKeeps ==
  ASSUME Given, SimulationInv, OpenOfBar
  PROVE  SimulationInv'
<1> DEFINE exit(s) == First(PriceExit(Accrued[s], range[s].open),
                            HoldingExit(Accrued[s], range[s].open, Now))
           e == [s \in Symbols |-> IF s \in Open THEN exit(s) ELSE NoExit]
           k == [s \in Symbols |-> Accrued[s]]
<1>1. step = "open" /\ step' = "force-open" /\ Walking
  BY DEF OpenOfBar, Phase, Walking
<1>2. Leave(Accrued, e, k) /\ UNCHANGED <<drawn, range, pending, latched, capital>> /\ UNCHANGED <<waiting, mark>>
  BY DEF OpenOfBar, Phase
<1>3. Open \in SUBSET Symbols /\ \A s \in Open : Accrued[s] \in Priced
  BY <1>1, AccruedIs, OpenIs DEF SimulationInv
<1>4. ASSUME NEW s \in Open PROVE e[s].at \in Int /\ Unmoved(Accrued[s], k[s])
  <2>1. s \in Symbols /\ Accrued[s] \in Priced /\ range[s].open \in Int /\ range[s] \in Bar
    BY <1>1, <1>3, RangeHas
  <2>2. exit(s).at \in Int
    <3>1. /\ PriceExit(Accrued[s], range[s].open).at \in Int
          /\ HoldingExit(Accrued[s], range[s].open, Now).at \in Int
      BY <2>1, ExitsAre
    <3> QED BY <3>1, FirstIs
  <2> QED BY <2>1, <2>2 DEF Unmoved
<1>5. \A s \in Open : position[s].openedAt < Now
  <2>1. Now = 3 * bar
    BY <1>1, NowIs
  <2> QED BY <1>1, <2>1 DEF SimulationInv, Ordered
<1>6. Settled'
  <2>1. settled' = Now /\ Now = 3 * bar /\ Now \in Nat /\ bar' = bar
    BY <1>1, <1>2, NowIs DEF Leave, drawn
  <2> QED BY <1>1, <2>1 DEF Settled
<1>7. /\ step' \in Stages \ {"candles", "open", "ended"} /\ mark' \in [Symbols -> Int]
      /\ waiting' \subseteq Symbols
  BY <1>1, <1>2 DEF SimulationInv, Holding, Stages
<1> HIDE DEF e, k, exit
<1> QED
  BY <1>1, <1>2, <1>4, <1>5, <1>6, <1>7, LeavingKeeps

(* Past the daily loss limit everything leaves at its mark.                *)
LEMMA CloseOutKeeps ==
  ASSUME Given, SimulationInv, NEW from, NEW to, CloseOut(from, to),
         <<from, to>> \in {<<"force-open", "enter">>, <<"force-adverse", "favorable">>,
                           <<"force-close", "signal">>}
  PROVE  SimulationInv'
<1> DEFINE e == [s \in Symbols |-> IF Halted /\ s \in Open
                              THEN [at |-> mark[s], reason |-> "daily-loss-limit"] ELSE NoExit]
           k == position
<1>1. step = from /\ step' = to /\ Walking
  BY DEF CloseOut, Walking
<1>2. /\ Leave(position, e, k) /\ UNCHANGED <<drawn, range, pending, mark, capital>>
      /\ waiting' = IF to = "enter" THEN {s \in Symbols : pending[s] # Blank} ELSE {}
  BY DEF CloseOut
<1>3. settled = Now
  <2>1. settled = 3 * bar + (IF step = "force-open" THEN 0 ELSE IF step = "force-adverse" THEN 1 ELSE 3)
    BY <1>1 DEF SimulationInv, Settled, OnData
  <2> QED BY <1>1, <2>1, NowIs
<1>4. Accrued = position /\ (\A s \in Open : Accrued[s] \in Priced) /\ Open \in SUBSET Symbols
  BY <1>1, <1>3, AccruedIs, OpenIs DEF SimulationInv
<1>5. ASSUME NEW s \in Open PROVE e[s].at \in Int /\ Unmoved(Accrued[s], k[s])
  <2>1. s \in Symbols /\ mark[s] \in Int /\ Accrued[s] \in Priced /\ Accrued[s] = position[s]
    BY <1>4 DEF SimulationInv, Holding
  <2> HIDE DEF Accrued
  <2> QED BY <2>1 DEF Unmoved, NoExit
<1>6. \A s \in Open : position[s].openedAt < Now
  <2>1. \A s \in Open : position[s].openedAt <= 3 * bar /\ position[s].openedAt \in Nat
    BY OpenIs DEF SimulationInv, Ordered, Payer
  <2>2. step = "force-open" => \A s \in Open : position[s].openedAt < 3 * bar
    BY DEF SimulationInv, Ordered
  <2>3. Now = 3 * bar + (IF step = "force-open" THEN 0 ELSE IF step = "force-adverse" THEN 1 ELSE 3)
        /\ bar \in Nat
    BY <1>1, NowIs
  <2> QED BY <1>1, <2>1, <2>2, <2>3
<1>7. Settled'
  <2>1. settled' = Now /\ bar' = bar
    BY <1>2 DEF Leave, drawn
  <2>2. Now = 3 * bar + (IF step = "force-open" THEN 0 ELSE IF step = "force-adverse" THEN 1 ELSE 3)
        /\ bar \in Nat /\ Now \in Nat
    BY <1>1, NowIs
  <2> QED BY <1>1, <2>1, <2>2 DEF Settled
<1>8. /\ step' \in Stages \ {"candles", "open", "ended", "force-open"} /\ mark' \in [Symbols -> Int]
      /\ waiting' \subseteq Symbols /\ (step' = "enter" => \A s \in waiting' : pending[s] # Blank)
  BY <1>1, <1>2 DEF SimulationInv, Holding, Stages
<1>9. Leave(Accrued, e, k)
  BY <1>2, <1>4
<1> HIDE DEF e, k
<1> QED
  BY <1>1, <1>2, <1>5, <1>6, <1>8, <1>7, <1>9, LeavingKeeps

(* At the adverse extreme: protective exits only.                          *)
LEMMA AdverseKeeps ==
  ASSUME Given, SimulationInv, Adverse
  PROVE  SimulationInv'
<1> DEFINE seen(s) == AdverseExit(Accrued[s], range[s])
           e == [s \in Symbols |-> IF s \in Open
                   THEN IF seen(s).reason \in Protective THEN seen(s) ELSE NoExit ELSE NoExit]
           k == [s \in Symbols |-> Accrued[s]]
<1>1. step = "adverse" /\ step' = "force-adverse" /\ Walking
  BY DEF Adverse, Phase, Walking
<1>2. /\ Leave(Accrued, e, k) /\ UNCHANGED <<drawn, range, pending, latched, capital>>
      /\ UNCHANGED waiting
      /\ mark' = [s \in Symbols |-> IF position'[s] = Blank THEN mark[s]
                    ELSE IF position[s].side = "long" THEN range[s].low ELSE range[s].high]
  BY DEF Adverse, Phase, Marked
<1>3. Open \in SUBSET Symbols /\ \A s \in Open : Accrued[s] \in Priced
  BY <1>1, AccruedIs, OpenIs DEF SimulationInv
<1>4. ASSUME NEW s \in Open PROVE e[s].at \in Int /\ Unmoved(Accrued[s], k[s])
  <2>1. s \in Symbols /\ Accrued[s] \in Priced /\ range[s] \in Bar
    BY <1>1, <1>3, RangeHas
  <2>2. seen(s).at \in Int /\ NoExit.at \in Int
    <3> HIDE DEF e, k
    <3>1. \A p \in Priced, c \in Bar : AdverseExit(p, c).at \in Int
      BY ExitsAre
    <3>2. NoExit.at \in Int
      BY DEF NoExit
    <3> QED BY ONLY <2>1, <3>1, <3>2
  <2>3. e[s] \in {seen(s), NoExit} /\ k[s] = Accrued[s]
    BY <2>1
  <2>4. Unmoved(Accrued[s], Accrued[s])
    BY <2>1 DEF Unmoved
  <2> QED BY <2>2, <2>3, <2>4
<1>5. \A s \in Open : position[s].openedAt < Now
  <2>1. Now = 3 * bar + 1 /\ bar \in Nat
    BY <1>1, NowIs
  <2>2. \A s \in Open : position[s].openedAt <= 3 * bar /\ position[s].openedAt \in Nat
    BY OpenIs DEF SimulationInv, Ordered, Payer
  <2> QED BY <2>1, <2>2
<1>6. Settled'
  <2>1. settled' = Now /\ Now = 3 * bar + 1 /\ Now \in Nat /\ bar' = bar
    BY <1>1, <1>2, NowIs DEF Leave, drawn
  <2> QED BY <1>1, <2>1 DEF Settled
<1>7. mark' \in [Symbols -> Int]
  <2>1. \A s \in Symbols : mark[s] \in Int /\ range[s].low \in Int /\ range[s].high \in Int
    BY <1>1, RangeHas DEF SimulationInv, Holding
  <2> HIDE DEF e, k
  <2> QED BY <1>2, <2>1
<1>8. step' \in Stages \ {"candles", "open", "ended", "force-open", "enter"} /\ waiting' \subseteq Symbols
  BY <1>1, <1>2 DEF SimulationInv, Holding, Stages
<1> HIDE DEF e, k, seen
<1> QED
  BY <1>1, <1>2, <1>4, <1>5, <1>6, <1>7, <1>8, LeavingKeeps

(* At the favorable extreme: the target, and protection for who stays.     *)
LEMMA FavorableKeeps ==
  ASSUME Given, SimulationInv, Favorable
  PROVE  SimulationInv'
<1> DEFINE e == [s \in Symbols |-> IF s \in Open
                   THEN IF Better(Accrued[s].side, Extreme(s), Accrued[s].take) >= 0
                        THEN [at |-> Accrued[s].take, reason |-> "take-profit"] ELSE NoExit
                   ELSE NoExit]
           k == [s \in Symbols |-> Protected(Accrued[s], Extreme(s))]
<1>1. step = "favorable" /\ step' = "assess" /\ Walking
  BY DEF Favorable, Phase, Walking
<1>2. /\ Leave(Accrued, e, k) /\ UNCHANGED <<drawn, range, pending, latched, capital>>
      /\ UNCHANGED waiting
      /\ mark' = [s \in Symbols |-> IF s \in Open THEN Extreme(s) ELSE mark[s]]
  BY DEF Favorable, Phase, Marked
<1>3. Open \in SUBSET Symbols /\ \A s \in Open : Accrued[s] \in Priced
  BY <1>1, AccruedIs, OpenIs DEF SimulationInv
<1>a. \A s \in Symbols : Extreme(s) \in Int
  BY <1>1, RangeHas DEF Extreme
<1>4. ASSUME NEW s \in Open PROVE e[s].at \in Int /\ Unmoved(Accrued[s], k[s])
  <2>1. s \in Symbols /\ Accrued[s] \in Priced /\ Extreme(s) \in Int
    BY <1>3, <1>a
  <2>2. Unmoved(Accrued[s], Protected(Accrued[s], Extreme(s)))
    BY <2>1, ProtectedKeeps
  <2>3. Accrued[s].take \in Int
    BY <2>1 DEF Priced
  <2> QED BY <2>1, <2>2, <2>3 DEF NoExit
<1>5. \A s \in Open : position[s].openedAt < Now
  <2>1. Now = 3 * bar + 2 /\ bar \in Nat
    BY <1>1, NowIs
  <2>2. \A s \in Open : position[s].openedAt <= 3 * bar /\ position[s].openedAt \in Nat
    BY OpenIs DEF SimulationInv, Ordered, Payer
  <2> QED BY <2>1, <2>2
<1>6. Settled'
  <2>1. settled' = Now /\ Now = 3 * bar + 2 /\ Now \in Nat /\ bar' = bar
    BY <1>1, <1>2, NowIs DEF Leave, drawn
  <2> QED BY <1>1, <2>1 DEF Settled
<1>7. mark' \in [Symbols -> Int]
  BY <1>2, <1>a DEF SimulationInv, Holding
<1>8. step' \in Stages \ {"candles", "open", "ended", "force-open", "enter"} /\ waiting' \subseteq Symbols
  BY <1>1, <1>2 DEF SimulationInv, Holding, Stages
<1> HIDE DEF e, k
<1> QED
  BY <1>1, <1>2, <1>4, <1>5, <1>6, <1>7, <1>8, LeavingKeeps

(* At the close: price, holding time and opposite signal.                  *)
LEMMA CloseOfBarKeeps ==
  ASSUME Given, SimulationInv, CloseOfBar
  PROVE  SimulationInv'
<1> DEFINE exit(s) == First(PriceExit(Accrued[s], range[s].close),
                            First(HoldingExit(Accrued[s], range[s].close, Now),
                                  SignalExit(Accrued[s], range[s])))
           e == [s \in Symbols |-> IF s \in Open THEN exit(s) ELSE NoExit]
           k == [s \in Symbols |-> Protected(Accrued[s], range[s].close)]
<1>1. step = "close" /\ step' = "force-close" /\ Walking
  BY DEF CloseOfBar, Phase, Walking
<1>2. /\ Leave(Accrued, e, k) /\ UNCHANGED <<drawn, range, pending, latched, capital>>
      /\ UNCHANGED waiting
      /\ mark' = [s \in Symbols |-> range[s].close]
  BY DEF CloseOfBar, Phase, Marked
<1>3. Open \in SUBSET Symbols /\ \A s \in Open : Accrued[s] \in Priced
  BY <1>1, AccruedIs, OpenIs DEF SimulationInv
<1>4. ASSUME NEW s \in Open PROVE e[s].at \in Int /\ Unmoved(Accrued[s], k[s])
  <2>1. s \in Symbols /\ Accrued[s] \in Priced /\ range[s].close \in Int /\ range[s] \in Bar
    BY <1>1, <1>3, RangeHas
  <2>2. Unmoved(Accrued[s], Protected(Accrued[s], range[s].close))
    BY <2>1, ProtectedKeeps
  <2>3. exit(s).at \in Int
    <3>1. /\ PriceExit(Accrued[s], range[s].close).at \in Int
          /\ HoldingExit(Accrued[s], range[s].close, Now).at \in Int
          /\ SignalExit(Accrued[s], range[s]).at \in Int
      BY <2>1, ExitsAre
    <3> QED BY <3>1, FirstIs
  <2> QED BY <2>1, <2>2, <2>3
<1>5. \A s \in Open : position[s].openedAt < Now
  <2>1. Now = 3 * bar + 3 /\ bar \in Nat
    BY <1>1, NowIs
  <2>2. \A s \in Open : position[s].openedAt <= 3 * bar /\ position[s].openedAt \in Nat
    BY OpenIs DEF SimulationInv, Ordered, Payer
  <2> QED BY <2>1, <2>2
<1>6. Settled'
  <2>1. settled' = Now /\ Now = 3 * bar + 3 /\ Now \in Nat /\ bar' = bar
    BY <1>1, <1>2, NowIs DEF Leave, drawn
  <2> QED BY <1>1, <2>1 DEF Settled
<1>7. mark' \in [Symbols -> Int]
  BY <1>1, <1>2, RangeHas
<1>8. step' \in Stages \ {"candles", "open", "ended", "force-open", "enter"} /\ waiting' \subseteq Symbols
  BY <1>1, <1>2 DEF SimulationInv, Holding, Stages
<1> HIDE DEF e, k, exit
<1> QED
  BY <1>1, <1>2, <1>4, <1>5, <1>6, <1>7, <1>8, LeavingKeeps

(* The books stay when nothing leaves and nothing more is owed.            *)
LEMMA BooksStay ==
  ASSUME SimulationInv, UNCHANGED <<window, trades, cash, realized, capital>>,
         \A d \in Days : OpenOwe(d)' = OpenOwe(d)
  PROVE  Booking' /\ SimulationBalances'
<1>1. /\ window' = window /\ trades' = trades /\ cash' = cash /\ realized' = realized
      /\ capital' = capital
  OBVIOUS
<1>2. Booking'
  BY <1>1 DEF SimulationInv, Booking, Row, Payer, Days, Day
<1>3. Here' = Here /\ (trades \ Here)' = trades \ Here
  BY <1>1 DEF Here
<1>4. /\ \A t \in trades : t.funding = Paid(t, t.closedAt)
      /\ \A d \in Days : cash[d] = ClosedOn(Here, d) - TradesOwe(Here, d) - OpenOwe(d)
      /\ realized = NetOf(Here)
      /\ capital = Capital + NetOf(trades \ Here)
  BY BalancesAre DEF SimulationInv
<1>5. /\ \A t \in trades' : t.funding = Paid(t, t.closedAt)
      /\ \A d \in Days : cash'[d] = ClosedOn(Here', d) - TradesOwe(Here', d) - OpenOwe(d)'
      /\ realized' = NetOf(Here')
      /\ capital' = Capital + NetOf((trades \ Here)')
  BY <1>1, <1>3, <1>4
<1>6. SimulationBalances'
  BY <1>5, BalancesLater
<1> QED
  BY <1>2, <1>6

(* Nothing about the account changes: what a step that only walks keeps.   *)
LEMMA WalkingOn ==
  ASSUME SimulationInv, UNCHANGED <<window, account, capital>>
  PROVE  /\ Booking' /\ SimulationBalances' /\ HeldPaid' /\ Open' = Open
         /\ position' = position /\ settled' = settled
         /\ (\A t \in trades : t.window <= window /\ t.window \in Nat)'
         /\ (\A t \in Here : t.openedAt < t.closedAt /\ t.closedAt <= settled)'
         /\ (\A t \in Here : \A s \in Open : t.symbol = s => t.closedAt <= position[s].openedAt)'
<1>1. /\ window' = window /\ position' = position /\ cash' = cash /\ realized' = realized
      /\ trades' = trades /\ settled' = settled /\ capital' = capital
  BY DEF account
<1>2. Open' = Open /\ Here' = Here
  BY <1>1 DEF Open, Here
<1>3. \A d \in Days : OpenOwe(d)' = OpenOwe(d)
  BY <1>1, <1>2 DEF OpenOwe, Total, Charges, Charge, Day
<1>4. Booking' /\ SimulationBalances'
  BY <1>1, <1>3, BooksStay
<1>5. HeldPaid'
  <2>1. \A s \in Open : position[s].funding = Paid(position[s], settled)
    BY DEF SimulationInv, HeldPaid
  <2> QED
    BY <1>1, <1>2, <2>1 DEF HeldPaid, Paid, Total, Charges, Charge, Days, Day
<1>6. /\ \A t \in trades : t.window <= window /\ t.window \in Nat
      /\ \A t \in Here : t.openedAt < t.closedAt /\ t.closedAt <= settled
      /\ \A t \in Here : \A s \in Open : t.symbol = s => t.closedAt <= position[s].openedAt
  BY DEF SimulationInv, Ordered
<1> QED
  BY <1>1, <1>2, <1>4, <1>5, <1>6

(* A bar is drawn, or read again by the next window.                       *)
LEMMA CandleKeeps ==
  ASSUME Given, SimulationInv, Candle
  PROVE  SimulationInv'
<1>1. /\ step = "candles" /\ bar < WindowEnd /\ step' = "open"
      /\ range' = data'[bar + 1] /\ mark' = [s \in Symbols |-> data'[bar + 1][s].open]
      /\ window' = window /\ bar' = bar /\ UNCHANGED account /\ waiting' = waiting
      /\ pending' = pending /\ capital' = capital
  BY DEF Candle, Marked
<1>2. /\ data \in Seq([Symbols -> Candles]) /\ bar \in Nat /\ bar <= Len(data)
      /\ window \in Nat /\ Fits(window) /\ bar <= WindowEnd
  BY DEF SimulationInv, OnData
<1>3. \/ bar < Len(data) /\ data' = data
      \/ bar = Len(data) /\ \E c \in [Symbols -> Candles] : data' = data \o <<c>>
  <2>1. ~(bar < Len(data)) => bar = Len(data)
    BY <1>2
  <2> QED BY <2>1 DEF Candle
<1>4. data' \in Seq([Symbols -> Candles]) /\ bar < Len(data') /\ data'[bar + 1] \in [Symbols -> Candles]
  <2> DEFINE S == [Symbols -> Candles]
  <2> HIDE DEF S
  <2>0. data \in Seq(S) /\ Len(data) \in Nat
    BY <1>2 DEF S
  <2>1. CASE bar < Len(data) /\ data' = data
    BY <1>2, <2>0, <2>1 DEF S
  <2>2. CASE bar = Len(data) /\ \E c \in S : data' = data \o <<c>>
    <3>1. PICK c \in S : data' = data \o <<c>>
      BY <2>2
    <3>2. data' \in Seq(S) /\ Len(data') = Len(data) + 1 /\ data'[Len(data) + 1] = c
      BY <2>0, <3>1
    <3> QED BY <1>2, <2>2, <3>2 DEF S
  <2> QED BY <1>3, <2>1, <2>2 DEF S
<1>5. range' \in [Symbols -> Bar]
  <2>1. Candles \subseteq Bar
    BY DEF Given, SimulationAssumption, Bar
  <2> QED BY <1>1, <1>4, <2>1
<1>6. mark' \in [Symbols -> Int]
  <2>1. \A s \in Symbols : range'[s] \in Bar
    BY <1>5
  <2> QED BY <1>1, <2>1 DEF Bar
<1>7. /\ Booking' /\ SimulationBalances' /\ HeldPaid' /\ Open' = Open
      /\ position' = position /\ settled' = settled
      /\ (\A t \in trades : t.window <= window /\ t.window \in Nat)'
      /\ (\A t \in Here : t.openedAt < t.closedAt /\ t.closedAt <= settled)'
      /\ (\A t \in Here : \A s \in Open : t.symbol = s => t.closedAt <= position[s].openedAt)'
  BY <1>1, WalkingOn
<1>8. OnData'
  BY <1>1, <1>2, <1>4, <1>5 DEF OnData, Walking, Fits, WindowEnd, TestStart, WindowStart
<1>9. Holding'
  BY <1>1, <1>6, <1>7 DEF SimulationInv, Holding, Stages
<1>10. Settled'
  BY <1>1, <1>7 DEF SimulationInv, Settled
<1>11. Ordered'
  <2>1. \A s \in Open : position[s].openedAt <= settled /\ position[s].openedAt <= 3 * bar
                        /\ position[s].openedAt < 3 * bar
    BY <1>1 DEF SimulationInv, Ordered
  <2> QED BY <1>1, <1>7, <2>1 DEF Ordered
<1> QED
  BY <1>7, <1>8, <1>9, <1>10, <1>11 DEF SimulationInv

(* Stages that only walk on.                                                *)
LEMMA EnteredKeeps ==
  ASSUME Given, SimulationInv, Entered \/ AssessFavorable
  PROVE  SimulationInv'
<1>1. /\ step \in {"enter", "assess"} /\ step' = (IF step = "enter" THEN "adverse" ELSE "close")
      /\ data' = data /\ window' = window /\ bar' = bar /\ UNCHANGED account /\ waiting' = waiting
      /\ range' = range /\ pending' = pending /\ mark' = mark /\ capital' = capital
  BY DEF Entered, AssessFavorable, drawn
<1>2. /\ Booking' /\ SimulationBalances' /\ HeldPaid' /\ Open' = Open
      /\ position' = position /\ settled' = settled
      /\ (\A t \in trades : t.window <= window /\ t.window \in Nat)'
      /\ (\A t \in Here : t.openedAt < t.closedAt /\ t.closedAt <= settled)'
      /\ (\A t \in Here : \A s \in Open : t.symbol = s => t.closedAt <= position[s].openedAt)'
  BY <1>1, WalkingOn
<1>3. OnData'
  BY <1>1 DEF SimulationInv, OnData, Walking, Fits, WindowEnd, TestStart, WindowStart
<1>4. Holding'
  BY <1>1, <1>2 DEF SimulationInv, Holding, Stages
<1>5. Settled'
  BY <1>1, <1>2 DEF SimulationInv, Settled
<1>6. Ordered'
  <2>1. \A s \in Open : position[s].openedAt <= settled /\ position[s].openedAt <= 3 * bar
    BY DEF SimulationInv, Ordered
  <2> QED BY <1>1, <1>2, <2>1 DEF Ordered
<1> QED
  BY <1>2, <1>3, <1>4, <1>5, <1>6 DEF SimulationInv

(* The signals of the bar, and the next bar.                               *)
LEMMA SignalKeeps ==
  ASSUME Given, SimulationInv, Signal
  PROVE  SimulationInv'
<1>1. /\ step = "signal" /\ step' = "candles" /\ bar' = bar + 1 /\ Walking
      /\ data' = data /\ window' = window /\ UNCHANGED account /\ waiting' = waiting
      /\ range' = range /\ mark' = mark /\ capital' = capital
      /\ pending' = [s \in Symbols |->
           IF s \in Open \/ range[s].signal = "none" THEN pending[s]
           ELSE [side |-> range[s].signal, price |-> range[s].close, expires |-> Now + 3]]
  BY DEF Signal, Walking
<1>2. /\ Booking' /\ SimulationBalances' /\ HeldPaid' /\ Open' = Open
      /\ position' = position /\ settled' = settled
      /\ (\A t \in trades : t.window <= window /\ t.window \in Nat)'
      /\ (\A t \in Here : t.openedAt < t.closedAt /\ t.closedAt <= settled)'
      /\ (\A t \in Here : \A s \in Open : t.symbol = s => t.closedAt <= position[s].openedAt)'
  BY <1>1, WalkingOn
<1>3. /\ OnData /\ bar \in Nat /\ bar < WindowEnd /\ bar < Len(data) /\ Len(data) \in Nat
      /\ WindowEnd \in Nat
  <2>1. OnData
    BY DEF SimulationInv
  <2>2. data \in Seq([Symbols -> Candles]) /\ bar \in Nat /\ bar < WindowEnd /\ bar < Len(data)
        /\ window \in Nat
    BY <1>1, <2>1 DEF OnData
  <2>3. WindowEnd \in Nat
    BY <2>1, WindowIs
  <2>4. Len(data) \in Nat
    BY <2>2
  <2> QED BY <2>1, <2>2, <2>3, <2>4
<1>4. OnData'
  <2>1. bar + 1 <= WindowEnd /\ bar + 1 <= Len(data) /\ bar + 1 \in Nat
    BY <1>3
  <2> QED
    BY <1>1, <1>3, <2>1 DEF OnData, Walking, Fits, WindowEnd, TestStart, WindowStart
<1>5. Holding'
  <2>1. \A s \in Symbols : /\ range[s].close \in Int /\ range[s].signal \in {"none", "long", "short"}
                           /\ pending[s] \in Announced \cup {Blank}
    BY <1>1, RangeHas DEF SimulationInv, Holding, Bar
  <2>2. Now \in Int
    BY <1>1, NowIs
  <2>3. pending' \in [Symbols -> Announced \cup {Blank}]
    <3>1. ASSUME NEW s \in Symbols PROVE pending'[s] \in Announced \cup {Blank}
      <4>1. CASE s \in Open \/ range[s].signal = "none"
        BY <1>1, <2>1, <4>1
      <4>2. CASE ~(s \in Open \/ range[s].signal = "none")
        <5>1. pending'[s] = [side |-> range[s].signal, price |-> range[s].close, expires |-> Now + 3]
          BY <1>1, <4>2
        <5>2. range[s].signal \in Sides /\ range[s].close \in Int /\ Now + 3 \in Int
          BY <2>1, <2>2, <4>2 DEF Sides
        <5> QED BY <5>1, <5>2 DEF Announced
      <4> QED BY <4>1, <4>2
    <3> QED BY <1>1, <3>1
  <2> QED
    BY <1>1, <1>2, <2>3 DEF SimulationInv, Holding, Stages
<1>6. Settled'
  <2>1. settled = 3 * bar + 3
    BY <1>1 DEF SimulationInv, Settled
  <2> QED BY <1>1, <1>2, <1>3, <2>1 DEF Settled
<1>7. Ordered'
  <2>1. \A s \in Open : /\ position[s].openedAt <= settled /\ position[s].openedAt <= 3 * bar
                        /\ position[s].openedAt \in Nat
    BY OpenIs DEF SimulationInv, Ordered, Payer
  <2>2. \A s \in Open' : /\ position[s]'.openedAt <= settled' /\ position[s]'.openedAt < 3 * bar'
                         /\ position[s]'.openedAt <= 3 * bar'
    BY <1>1, <1>2, <1>3, <2>1
  <2> QED BY <1>2, <2>2 DEF Ordered
<1> QED
  BY <1>2, <1>4, <1>5, <1>6, <1>7 DEF SimulationInv

(* A signal is considered: a position that opens owes nothing yet.         *)
LEMMA EnterKeeps ==
  ASSUME Given, SimulationInv, NEW s \in Symbols, Enter(s)
  PROVE  SimulationInv'
<1> DEFINE p == Candidate(s, Max(Fitting(s)))
<1>1. /\ step = "enter" /\ step' = "enter" /\ s \in waiting /\ waiting' = waiting \ {s} /\ Walking
      /\ data' = data /\ window' = window /\ bar' = bar /\ mark' = mark /\ settled' = settled
      /\ cash' = cash /\ realized' = realized /\ capital' = capital /\ trades' = trades
      /\ pending' = [pending EXCEPT ![s] = Blank]
  BY DEF Enter, drawn, Walking
<1>2. \/ Admitted(s) /\ position' = [position EXCEPT ![s] = p]
         /\ range' = [range EXCEPT ![s] = RangeAfterEntry(p, range[s])]
      \/ position' = position /\ range' = range
  BY DEF Enter
<1>3. Now = 3 * bar /\ settled = Now /\ Now \in Nat /\ bar \in Nat
  BY <1>1, NowIs DEF SimulationInv, Settled
<1>4. /\ pending \in [Symbols -> Announced \cup {Blank}] /\ pending[s] # Blank
      /\ position \in [Symbols -> Priced \cup {Blank}] /\ waiting \subseteq Symbols
      /\ \A r \in waiting : pending[r] # Blank
  BY <1>1 DEF SimulationInv, Holding
<1>5. range \in [Symbols -> Bar]
  BY <1>1 DEF SimulationInv, OnData
<1>6. ASSUME Admitted(s)
      PROVE  /\ s \notin Open /\ p \in Priced /\ p.openedAt = Now /\ p.funding = 0
             /\ RangeAfterEntry(p, range[s]) \in Bar
  <2>1. s \notin Open /\ Fitting(s) # {}
    BY <1>6 DEF Admitted
  <2>2. Fitting(s) \in SUBSET (1 .. MaxQuantity) /\ MaxQuantity \in Nat
    BY Figures DEF Fitting
  <2>3. Max(Fitting(s)) \in Nat \ {0}
    <3>1. Max(Fitting(s)) \in 1 .. MaxQuantity
      BY <2>1, <2>2, LargestIs
    <3> QED BY <2>2, <3>1
  <2>4. pending[s] \in Announced /\ range[s] \in Bar
    BY <1>4, <1>5
  <2> DEFINE q == Max(Fitting(s))
  <2> HIDE DEF q
  <2>5. /\ Candidate(s, q) \in Priced /\ Candidate(s, q).openedAt = Now /\ Candidate(s, q).funding = 0
    BY <1>3, <2>3, <2>4, OpensPriced DEF Candidate, q
  <2> QED
    BY <2>1, <2>4, <2>5, RangeIs DEF q
<1> HIDE DEF p
<1>7. OnData'
  <2>1. range' \in [Symbols -> Bar]
    BY <1>2, <1>5, <1>6
  <2> QED
    BY <1>1, <2>1 DEF SimulationInv, OnData, Walking, Fits, WindowEnd, TestStart, WindowStart
<1>8. position' \in [Symbols -> Priced \cup {Blank}]
  BY <1>2, <1>4, <1>6
<1>9. Holding'
  <2>1. pending' \in [Symbols -> Announced \cup {Blank}]
    BY <1>1, <1>4
  <2>2. \A r \in waiting' : pending'[r] # Blank
    BY <1>1, <1>4
  <2> QED
    BY <1>1, <1>8, <2>1, <2>2 DEF SimulationInv, Holding, Stages
<1>10. Settled'
  BY <1>1 DEF SimulationInv, Settled
<1>11. Here' = Here
  BY <1>1 DEF Here
<1>12. CASE position' = position
  <2>1. UNCHANGED <<window, account, capital>>
    BY <1>1, <1>12 DEF account
  <2>2. /\ Booking' /\ SimulationBalances' /\ HeldPaid' /\ Open' = Open
        /\ position' = position /\ settled' = settled
        /\ (\A t \in trades : t.window <= window /\ t.window \in Nat)'
        /\ (\A t \in Here : t.openedAt < t.closedAt /\ t.closedAt <= settled)'
        /\ (\A t \in Here : \A r \in Open : t.symbol = r => t.closedAt <= position[r].openedAt)'
    BY <2>1, WalkingOn
  <2>3. Ordered'
    <3>1. \A r \in Open : position[r].openedAt <= settled /\ position[r].openedAt <= 3 * bar
      BY DEF SimulationInv, Ordered
    <3> QED BY <1>1, <2>2, <3>1 DEF Ordered
  <2> QED BY <1>7, <1>9, <1>10, <2>2, <2>3 DEF SimulationInv
<1>13. CASE Admitted(s) /\ position' = [position EXCEPT ![s] = p]
  <2>1. s \notin Open /\ p \in Priced /\ p.openedAt = Now /\ p.funding = 0 /\ p # Blank /\ Payer(p)
    BY <1>6, <1>13, PricedIsNotBlank
  <2>2. position'[s] = p /\ \A r \in Symbols \ {s} : position'[r] = position[r]
    BY <1>4, <1>13
  <2>3. Open' = Open \cup {s} /\ Open \in SUBSET Symbols
    BY <2>1, <2>2 DEF Open
  <2>4. (\A u : Charges(p, settled, u) = 0) /\ Paid(p, settled) = 0
    BY <1>3, <2>1, NothingPaid
  <2>5. \A r \in Open : position'[r] = position[r]
    BY <2>1, <2>2, <2>3
  <2>6. ASSUME NEW d PROVE OpenOwe(d)' = OpenOwe(d)
    <3> DEFINE f == [r \in Open |-> Charges(position[r], settled, d)]
               g == [r \in Open \cup {s} |-> Charges(position'[r], settled, d)]
    <3>1. IsFiniteSet(Open) /\ \A r \in Open : Payer(position[r])
      BY OpenIs DEF SimulationInv
    <3>2. \A r \in Open : f[r] \in Int /\ g[r] = f[r]
      BY <1>3, <2>5, <3>1, ChargesGrow
    <3>3. g[s] = 0
      BY <2>2, <2>4
    <3>4. OpenOwe(d) = SumFunctionOnSet(f, Open)
      BY DEF OpenOwe, Total
    <3>5. OpenOwe(d)' = SumFunctionOnSet(g, Open \cup {s})
      BY <1>1, <2>3 DEF OpenOwe, Total, Charges, Charge, Day
    <3> HIDE DEF f, g
    <3>6. SumFunctionOnSet(g, Open \cup {s}) = SumFunctionOnSet(f, Open) + g[s]
      BY <2>1, <3>1, <3>2, <3>3, SumGrows
    <3>7. SumFunctionOnSet(f, Open) \in Int
      BY <3>1, <3>2, SumType
    <3> QED BY <3>3, <3>4, <3>5, <3>6, <3>7
  <2>7. Booking' /\ SimulationBalances'
    BY <1>1, <2>6, BooksStay
  <2>8. HeldPaid'
    <3>1. \A r \in Open' : position'[r].funding = Paid(position'[r], settled)
      BY <2>1, <2>2, <2>3, <2>4, <2>5 DEF SimulationInv, HeldPaid
    <3> QED
      BY <1>1, <3>1 DEF HeldPaid, Paid, Total, Charges, Charge, Days, Day
  <2>9. Ordered'
    <3>1. /\ \A r \in Open : position[r].openedAt <= settled /\ position[r].openedAt <= 3 * bar
          /\ \A t \in trades : t.window <= window /\ t.window \in Nat
          /\ \A t \in Here : t.openedAt < t.closedAt /\ t.closedAt <= settled
          /\ \A t \in Here : \A r \in Open : t.symbol = r => t.closedAt <= position[r].openedAt
      BY DEF SimulationInv, Ordered
    <3>2. \A r \in Open' : position'[r].openedAt <= settled /\ position'[r].openedAt <= 3 * bar
      BY <1>3, <2>1, <2>2, <2>3, <2>5, <3>1
    <3>3. \A t \in Here : \A r \in Open' : t.symbol = r => t.closedAt <= position'[r].openedAt
      BY <1>3, <2>1, <2>2, <2>3, <2>5, <3>1
    <3> QED
      BY <1>1, <1>11, <3>1, <3>2, <3>3 DEF Ordered
  <2> QED BY <1>7, <1>9, <1>10, <2>7, <2>8, <2>9 DEF SimulationInv
<1> QED
  BY <1>2, <1>12, <1>13

(* The data of the window has ended: everything leaves at its mark.        *)
LEMMA EndOfDataKeeps ==
  ASSUME Given, SimulationInv, EndOfData
  PROVE  SimulationInv'
<1> DEFINE now == 3 * bar
           end == [s \in Symbols |-> IF s \in Open THEN [at |-> mark[s], reason |-> "end-of-data"]
                                     ELSE NoExit]
           m == [s \in Open |-> [Trade(s, position[s], end[s]) EXCEPT !.closedAt = 3 * bar]]
<1>1. /\ step = "candles" /\ bar = WindowEnd /\ step' = "ended"
      /\ realized' = realized + Total(Open, LAMBDA s : NetPnl(position[s], mark[s]))
      /\ trades' = trades \cup {[Trade(s, position[s], end[s]) EXCEPT !.closedAt = 3 * bar] : s \in Open}
      /\ cash' = [cash EXCEPT ![Day(3 * bar)] =
                       @ + Total(Open, LAMBDA s : Booked(position[s], mark[s]))]
      /\ position' = [s \in Symbols |-> Blank]
      /\ data' = data /\ window' = window /\ bar' = bar /\ settled' = settled /\ waiting' = waiting
      /\ pending' = pending /\ mark' = mark /\ capital' = capital
  BY DEF EndOfData, drawn
<1>2. /\ settled \in Nat /\ bar \in Nat /\ (settled = now \/ (Open = {} /\ settled <= now))
  BY <1>1 DEF SimulationInv, Settled, OnData
<1>3. bar <= Bars
  BY <1>1, WindowIs DEF SimulationInv
<1>4. now \in Nat /\ settled <= now /\ now <= 3 * Bars
  BY <1>2, <1>3, Figures
<1>5. /\ Open \in SUBSET Symbols /\ IsFiniteSet(Open)
      /\ \A s \in Open : position[s] \in Priced /\ Payer(position[s])
  BY OpenIs DEF SimulationInv
<1>6. \A s \in Open : position[s].funding = Paid(position[s], now)
  BY <1>2 DEF SimulationInv, HeldPaid
<1>7. \A s \in Open : position[s].openedAt < now /\ mark[s] \in Int
  BY <1>1, <1>5 DEF SimulationInv, Ordered, Holding
<1>8. \A s \in Open : /\ m[s].symbol = s /\ m[s].window = window /\ m[s].side = position[s].side
                      /\ m[s].quantity = position[s].quantity
                      /\ m[s].openedAt = position[s].openedAt /\ m[s].closedAt = now
                      /\ m[s].net = NetPnl(position[s], mark[s]) /\ m[s].funding = position[s].funding
  BY <1>5 DEF Trade
<1>9. trades' = trades \cup {m[s] : s \in Open}
  BY <1>1
<1> HIDE DEF m, end
<1>10. realized' = realized + NetLeft(m, Open)
  <2>1. [s \in Open |-> NetPnl(position[s], mark[s])] = [s \in Open |-> m[s].net]
    BY <1>8
  <2> QED BY <1>1, <2>1 DEF Total, NetLeft
<1>11. \A d \in Days : DueBy(now, d) = 0
  <2> TAKE d \in Days
  <2> DEFINE f == [s \in Open |-> Charge(position[s], DueOn(position[s], settled, now, d))]
  <2>1. ASSUME NEW s \in Open PROVE f[s] = 0
    <3>1. settled = now
      BY <1>2, <2>1
    <3>2. DueOn(position[s], settled, now, d) = {}
      <4>1. \A t \in Settlements : t \in Nat
        BY Figures
      <4> QED BY <1>2, <3>1, <4>1 DEF DueOn, Due
    <3> QED BY <1>5, <2>1, <3>2, ChargeIs
  <2>2. DueBy(now, d) = SumFunctionOnSet(f, Open)
    BY DEF DueBy
  <2> HIDE DEF f
  <2>3. SumFunctionOnSet(f, Open) = SumFunctionOnSet(f, {})
    <3>1. \A s \in Open : f[s] \in Int
      BY <2>1
    <3> QED BY <1>5, <2>1, <3>1, SumOfPart
  <2> QED BY <2>2, <2>3, SumEmpty
<1>12. Total(Open, LAMBDA s : Booked(position[s], mark[s])) = CashLeft(m, Open)
  <2>1. [s \in Open |-> Booked(position[s], mark[s])] = [s \in Open |-> m[s].net + m[s].funding]
    BY <1>8 DEF Booked
  <2> QED BY <2>1 DEF Total, CashLeft
<1>13. cash' = [d \in Days |-> cash[d] - DueBy(now, d)
                                + IF d = Day(now) THEN CashLeft(m, Open) ELSE 0]
  <2> DEFINE c == CashLeft(m, Open)
             e == Day(now)
             h == [d \in Days |-> cash[d] - DueBy(now, d) + IF d = e THEN c ELSE 0]
  <2>1. cash' = [cash EXCEPT ![e] = @ + c] /\ cash \in [Days -> Int]
    BY <1>1, <1>12 DEF SimulationInv, Booking
  <2>2. c \in Int
    <3> DEFINE f == [s \in Open |-> m[s].net + m[s].funding]
    <3>1. \A s \in Open : NetPnl(position[s], mark[s]) + position[s].funding \in Int
      BY <1>5, <1>7, NetIs
    <3>2. \A s \in Open : f[s] \in Int
      BY <1>8, <3>1
    <3> HIDE DEF f
    <3>3. SumFunctionOnSet(f, Open) \in Int
      BY <1>5, <3>2, SumType
    <3> QED BY <3>3 DEF f, CashLeft
  <2> HIDE DEF c, e
  <2>3. \A d \in Days : cash'[d] = h[d]
    <3>1. \A d \in Days : cash[d] \in Int /\ cash'[d] = IF d = e THEN cash[d] + c ELSE cash[d]
      BY <2>1
    <3>2. \A d \in Days : h[d] = cash[d] - 0 + IF d = e THEN c ELSE 0
      BY <1>11
    <3> HIDE DEF h
    <3> QED BY <2>2, <3>1, <3>2
  <2>4. cash' = [d \in Days |-> cash'[d]]
    BY <2>1
  <2>5. cash' = h
    BY <2>3, <2>4
  <2> QED BY <2>5 DEF c, e
<1>14. position' = [s \in Symbols |-> IF s \in Open \ Open THEN position[s] ELSE Blank]
  BY <1>1
<1>15. settled' = now \/ (Open = {} /\ settled' = settled)
  BY <1>1, <1>2
<1>16. \A s \in Open \ Open : Unmoved(position[s], position[s])
  OBVIOUS
<1> HIDE DEF now
<1>17. Leaves(now, Open, position, mark, position, m)
  BY <1>1, <1>4, <1>5, <1>6, <1>7, <1>8, <1>9, <1>10, <1>13, <1>14, <1>15, <1>16 DEF Leaves
<1>18. Open' = {} /\ position' \in [Symbols -> Priced \cup {Blank}]
  BY <1>17, StaysOpen
<1>19. /\ (\A t \in trades : t.window <= window /\ t.window \in Nat)'
       /\ (\A t \in Here : t.openedAt < t.closedAt /\ t.closedAt <= settled)'
  BY <1>17, LeavesOrdered
<1>20. HeldPaid'
  BY <1>17, LeavesPaid
<1>21. Booking' /\ SimulationBalances'
  BY <1>17, LeavesBooked
<1>22. OnData'
  <2>1. OnData
    BY DEF SimulationInv
  <2> QED
    BY <1>1, <1>18, <2>1 DEF OnData, Walking, Fits, WindowEnd, TestStart, WindowStart
<1>23. Holding'
  BY <1>1, <1>18 DEF SimulationInv, Holding, Stages
<1>24. Settled'
  BY <1>1, <1>2 DEF Settled
<1>25. Ordered'
  BY <1>1, <1>18, <1>19 DEF Ordered
<1> QED
  BY <1>20, <1>21, <1>22, <1>23, <1>24, <1>25 DEF SimulationInv

(* The next window starts from the capital this one left, with empty books.*)
LEMMA NextWindowKeeps ==
  ASSUME Given, SimulationInv, NextWindow
  PROVE  SimulationInv'
<1>1. /\ step = "ended" /\ step' = "candles" /\ Fits(window + 1)
      /\ window' = window + 1 /\ bar' = (window + 1) * Test /\ capital' = capital + realized
      /\ realized' = 0 /\ cash' = [d \in Days |-> 0] /\ settled' = 0
      /\ pending' = [s \in Symbols |-> Blank] /\ mark' = [s \in Symbols |-> 0]
      /\ data' = data /\ position' = position /\ trades' = trades /\ waiting' = waiting
  BY DEF NextWindow
<1>2. /\ window * Test \in Nat /\ WindowEnd = window * Test + Training + Test
      /\ window \in Nat /\ Len(data) \in Nat /\ bar <= Len(data)
  BY WindowIs DEF SimulationInv
<1>3. /\ Open = {} /\ bar = WindowEnd /\ data \in Seq([Symbols -> Candles])
  BY <1>1 DEF SimulationInv, OnData
<1>4. Test \in Nat /\ Training \in Nat
  BY Figures
<1>5. Open' = {}
  BY <1>1, <1>3 DEF Open
<1>6. OnData'
  <2> DEFINE w == window * Test
             b == (window + 1) * Test
  <2>1. b = w + Test
    BY <1>2, <1>4
  <2>2. w \in Nat /\ bar = w + Training + Test /\ bar' = b
    BY <1>1, <1>2, <1>3
  <2>3. WindowEnd' = b + Training + Test
    BY <1>1 DEF WindowEnd, TestStart, WindowStart
  <2> HIDE DEF w, b
  <2>4. bar' \in Nat /\ bar' <= WindowEnd' /\ bar' <= Len(data) /\ window' \in Nat
    BY <1>1, <1>2, <1>4, <2>1, <2>2, <2>3
  <2>5. Fits(window)'
    BY <1>1 DEF Fits
  <2> QED
    BY <1>1, <1>3, <2>4, <2>5 DEF OnData, Walking
<1>7. Holding'
  <2>1. 0 \in Int
    OBVIOUS
  <2> QED
    BY <1>1, <2>1 DEF SimulationInv, Holding, Stages
<1>8. Settled'
  <2>1. bar' \in Nat
    BY <1>6 DEF OnData
  <2> QED BY <1>1, <1>5, <2>1 DEF Settled
<1>9. \A t \in trades : t.window <= window /\ t.window \in Nat
  BY DEF SimulationInv, Ordered
<1>10. Here' = {} /\ (trades \ Here)' = trades
  <2>1. \A t \in trades : t.window # window + 1
    BY <1>2, <1>9
  <2>2. Here' = {}
    BY <1>1, <2>1 DEF Here
  <2> QED BY <1>1, <2>2
<1>11. Ordered'
  <2>1. \A t \in trades : t.window <= window + 1
    BY <1>2, <1>9
  <2> QED BY <1>1, <1>5, <1>9, <1>10, <2>1 DEF Ordered
<1>12. IsFiniteSet(trades) /\ (\A t \in trades : Row(t)) /\ realized \in Int /\ capital \in Int
  BY DEF SimulationInv, Booking
<1>13. Booking'
  <2>1. capital' \in Int /\ realized' \in Int
    BY <1>1, <1>12
  <2>2. cash' \in [Days -> Int]
    BY <1>1
  <2> QED BY <1>1, <1>12, <2>1, <2>2 DEF Booking, Row, Payer, Days, Day
<1>14. HeldPaid'
  BY <1>5 DEF HeldPaid
<1>15. /\ \A t \in trades : t.funding = Paid(t, t.closedAt)
       /\ realized = NetOf(Here)
       /\ capital = Capital + NetOf(trades \ Here)
  BY BalancesAre DEF SimulationInv
<1>16. NetOf(trades) = NetOf(trades \ Here) + NetOf(Here)
       /\ NetOf(trades \ Here) \in Int /\ NetOf(Here) \in Int
  <2> DEFINE f == [t \in trades |-> t.net]
             T == trades \ Here
             g == [t \in T |-> t.net]
             h == [t \in Here |-> t.net]
  <2>1. \A t \in trades : f[t] \in Int
    BY <1>12 DEF Row
  <2>2. Here \in SUBSET trades /\ T \in SUBSET trades
    BY DEF Here
  <2>3. IsFiniteSet(Here) /\ IsFiniteSet(T)
    BY <1>12, <2>2, FS_Subset
  <2>4. (\A t \in T : g[t] = f[t]) /\ (\A t \in Here : h[t] = f[t])
    BY <2>2
  <2>5. NetOf(trades) = SumFunctionOnSet(f, trades) /\ NetOf(T) = SumFunctionOnSet(g, T)
        /\ NetOf(Here) = SumFunctionOnSet(h, Here)
    BY DEF NetOf, Total
  <2> HIDE DEF f, g, h
  <2>6. SumFunctionOnSet(f, trades) = SumFunctionOnSet(f, trades \ Here) + SumFunctionOnSet(f, Here)
    BY <1>12, <2>1, <2>2, SumSplit
  <2>7. /\ SumFunctionOnSet(g, T) = SumFunctionOnSet(f, T)
        /\ SumFunctionOnSet(h, Here) = SumFunctionOnSet(f, Here)
    BY <2>3, <2>4, SumAlike
  <2>8. SumFunctionOnSet(f, T) \in Int /\ SumFunctionOnSet(f, Here) \in Int
    BY <2>1, <2>2, <2>3, SumType
  <2> QED BY <2>5, <2>6, <2>7, <2>8
<1>17. capital' = Capital + NetOf((trades \ Here)')
  <2> DEFINE a == NetOf(trades \ Here)
             b == NetOf(Here)
             c == NetOf(trades)
  <2>1. a \in Int /\ b \in Int /\ c = a + b /\ realized = b /\ capital = Capital + a
    BY <1>15, <1>16
  <2>2. capital' = capital + realized /\ (trades \ Here)' = trades /\ Capital \in Int
    BY <1>1, <1>10, Figures
  <2>3. NetOf((trades \ Here)') = c
    BY <2>2
  <2> HIDE DEF a, b, c
  <2> QED BY <2>1, <2>2, <2>3
<1>18. /\ NetOf(Here') = 0
       /\ \A d : ClosedOn(Here', d) = 0 /\ TradesOwe(Here', d) = 0 /\ OpenOwe(d)' = 0
  <2>1. NetOf({}) = 0
    BY SumEmpty DEF NetOf, Total
  <2>2. \A d : TradesOwe({}, d) = 0
    BY SumEmpty DEF TradesOwe, Total
  <2>3. ASSUME NEW d PROVE ClosedOn({}, d) = 0
    <3>1. {t \in {} : Day(t.closedAt) = d} = {}
      OBVIOUS
    <3> QED BY <3>1, SumEmpty DEF ClosedOn, Total
  <2>4. \A d : OpenOwe(d)' = 0
    BY <1>5, SumEmpty DEF OpenOwe, Total, Charges, Charge, Day
  <2> QED BY <1>10, <2>1, <2>2, <2>3, <2>4
<1>19. SimulationBalances'
  <2>1. \A d \in Days : cash'[d] = ClosedOn(Here', d) - TradesOwe(Here', d) - OpenOwe(d)'
    BY <1>1, <1>18
  <2>2. realized' = NetOf(Here')
    BY <1>1, <1>18
  <2>3. \A t \in trades' : t.funding = Paid(t, t.closedAt)
    BY <1>1, <1>15
  <2> QED BY <1>17, <2>1, <2>2, <2>3, BalancesLater
<1> QED
  BY <1>6, <1>7, <1>8, <1>11, <1>13, <1>14, <1>19 DEF SimulationInv

(* The first instant: nothing is held and nothing is owed.                 *)
LEMMA SimulationBegins ==
  ASSUME Given, Init
  PROVE  SimulationInv
<1>1. /\ data = <<>> /\ window = 0 /\ bar = 0 /\ step = "candles" /\ waiting = {}
      /\ position = [s \in Symbols |-> Blank] /\ pending = [s \in Symbols |-> Blank]
      /\ mark = [s \in Symbols |-> 0] /\ settled = 0 /\ cash = [d \in Days |-> 0]
      /\ realized = 0 /\ capital = Capital /\ trades = {} /\ Fits(0)
  BY DEF Init
<1>2. Open = {} /\ Here = {} /\ trades \ Here = {}
  BY <1>1 DEF Open, Here
<1>3. Test \in Nat /\ Training \in Nat /\ Capital \in Nat
  BY Figures
<1>4. OnData
  <2>1. 0 * Test = 0
    BY <1>3
  <2>2. bar <= WindowEnd
    BY <1>1, <1>3, <2>1 DEF WindowEnd, TestStart, WindowStart
  <2>3. data \in Seq([Symbols -> Candles]) /\ Len(data) = 0
    BY <1>1
  <2> QED BY <1>1, <2>2, <2>3 DEF OnData, Walking
<1>5. Holding
  BY <1>1 DEF Holding, Stages
<1>6. Booking
  BY <1>1, <1>3, FS_EmptySet DEF Booking
<1>7. Settled /\ Ordered /\ HeldPaid
  BY <1>1, <1>2 DEF Settled, Ordered, HeldPaid
<1>8. NetOf({}) = 0 /\ \A d : TradesOwe({}, d) = 0
  BY SumEmpty DEF NetOf, TradesOwe, Total
<1>9. ASSUME NEW d PROVE ClosedOn({}, d) = 0
  <2>1. {t \in {} : Day(t.closedAt) = d} = {}
    OBVIOUS
  <2> QED BY <2>1, SumEmpty DEF ClosedOn, Total
<1>10. \A d : OpenOwe(d) = 0
  BY <1>2, SumEmpty DEF OpenOwe, Total
<1>11. SimulationBalances
  <2>1. \A d \in Days : cash[d] = ClosedOn(Here, d) - TradesOwe(Here, d) - OpenOwe(d)
    BY <1>1, <1>2, <1>8, <1>9, <1>10
  <2>2. realized = NetOf(Here) /\ capital = Capital + NetOf(trades \ Here)
    BY <1>1, <1>2, <1>3, <1>8
  <2> QED BY <1>1, <2>1, <2>2, BalancesAre
<1> QED
  BY <1>4, <1>5, <1>6, <1>7, <1>11 DEF SimulationInv

(* A step in which nothing happens.                                        *)
LEMMA SimulationRests ==
  ASSUME SimulationInv, UNCHANGED vars
  PROVE  SimulationInv'
<1>1. /\ data' = data /\ window' = window /\ bar' = bar /\ UNCHANGED account /\ step' = step
      /\ waiting' = waiting /\ range' = range /\ pending' = pending /\ mark' = mark
      /\ capital' = capital
  BY DEF vars, drawn
<1>2. /\ Booking' /\ SimulationBalances' /\ HeldPaid' /\ Open' = Open
      /\ position' = position /\ settled' = settled
      /\ (\A t \in trades : t.window <= window /\ t.window \in Nat)'
      /\ (\A t \in Here : t.openedAt < t.closedAt /\ t.closedAt <= settled)'
      /\ (\A t \in Here : \A s \in Open : t.symbol = s => t.closedAt <= position[s].openedAt)'
  BY <1>1, WalkingOn
<1>3. OnData'
  BY <1>1, <1>2 DEF SimulationInv, OnData, Walking, Fits, WindowEnd, TestStart, WindowStart
<1>4. Holding'
  BY <1>1, <1>2 DEF SimulationInv, Holding
<1>5. Settled'
  BY <1>1, <1>2 DEF SimulationInv, Settled
<1>6. Ordered'
  BY <1>1, <1>2 DEF SimulationInv, Ordered
<1> QED
  BY <1>2, <1>3, <1>4, <1>5, <1>6 DEF SimulationInv

(* The money of a validation run, runExecutionPolicySimulation under the   *)
(* windows of runWalkForward: every trade has paid exactly the settlements *)
(* between its entry and its exit, the cash of a day is what its trades    *)
(* and settlements moved, and the capital that goes from window to window  *)
(* is the initial one and the net results, each counted once.              *)
THEOREM SimulationBooksAgree ==
  ASSUME Given
  PROVE  SimulationSpec => []SimulationBalances
<1>1. Init => SimulationInv
  BY SimulationBegins
<1>2. SimulationInv /\ [SimulationNext]_vars => SimulationInv'
  <2> SUFFICES ASSUME SimulationInv, [SimulationNext]_vars PROVE SimulationInv'
    OBVIOUS
  <2>1. CASE Candle
    BY <2>1, CandleKeeps
  <2>2. CASE OpenOfBar
    BY <2>2, OpenOfBarKeeps
  <2>3. CASE ForceOpen
    BY <2>3, CloseOutKeeps DEF ForceOpen
  <2>4. CASE \E s \in Symbols : Enter(s)
    BY <2>4, EnterKeeps
  <2>5. CASE Entered \/ AssessFavorable
    BY <2>5, EnteredKeeps
  <2>6. CASE Adverse
    BY <2>6, AdverseKeeps
  <2>7. CASE ForceAdverse
    BY <2>7, CloseOutKeeps DEF ForceAdverse
  <2>8. CASE Favorable
    BY <2>8, FavorableKeeps
  <2>9. CASE CloseOfBar
    BY <2>9, CloseOfBarKeeps
  <2>10. CASE ForceClose
    BY <2>10, CloseOutKeeps DEF ForceClose
  <2>11. CASE Signal
    BY <2>11, SignalKeeps
  <2>12. CASE EndOfData
    BY <2>12, EndOfDataKeeps
  <2>13. CASE NextWindow
    BY <2>13, NextWindowKeeps
  <2>14. CASE UNCHANGED vars
    BY <2>14, SimulationRests
  <2> QED
    BY <2>1, <2>2, <2>3, <2>4, <2>5, <2>6, <2>7, <2>8, <2>9, <2>10, <2>11, <2>12, <2>13, <2>14, Zenon
    DEF SimulationNext
<1>3. SimulationInv => SimulationBalances
  BY DEF SimulationInv
<1> QED
  BY <1>1, <1>2, <1>3, PTL DEF SimulationSpec
=============================================================================
