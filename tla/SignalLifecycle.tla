--------------------------- MODULE SignalLifecycle ---------------------------
(***************************************************************************)
(* What the runtime ledger promises of a trading signal, with no database, *)
(* no worker and no compare-and-set in sight.  A signal of an active run   *)
(* is observed, perhaps placed as an order, and then either ends without a *)
(* trade or becomes one position, which closes with exactly one trade.  A  *)
(* newer signal of the same symbol ends its predecessor in the same step,  *)
(* a run finishes only when it holds nothing, and a finished run can only  *)
(* let its remaining signals end.                                          *)
(***************************************************************************)
EXTENDS Naturals, FiniteSets

CONSTANTS Runs, Symbols, Candles, Capacity

Signals == Runs \X Symbols \X Candles

VARIABLES stage, traded, active, finished

lifeVars == <<stage, traded, active, finished>>

Waiting == {"pending", "ordered"}
Live == {"open", "exiting"}
Stages == {"unseen", "ended", "closed"} \cup Waiting \cup Live

LifeTypeOK ==
  /\ stage \in [Signals -> Stages]
  /\ traded \subseteq Signals
  /\ active \subseteq Runs
  /\ finished \subseteq Runs

HeldBy(r) == {k \in Signals : k[1] = r /\ stage[k] \in Live}
WaitingOf(r, s) == {<<r, s, c>> : c \in {d \in Candles : stage[<<r, s, d>>] \in Waiting}}
SeenOf(r, s) == {c \in Candles : stage[<<r, s, c>>] # "unseen"}

LifeInit ==
  /\ stage = [k \in Signals |-> "unseen"]
  /\ traded = {}
  /\ active = {}
  /\ finished = {}

Begin(r) ==
  /\ active = {}
  /\ r \notin finished
  /\ active' = {r}
  /\ UNCHANGED <<stage, traded, finished>>

Finish(r) ==
  /\ r \in active
  /\ HeldBy(r) = {}
  /\ active' = {}
  /\ finished' = finished \cup {r}
  /\ UNCHANGED <<stage, traded>>

Observe(r, s, c) ==
  /\ r \in active
  /\ \A d \in SeenOf(r, s) : d < c
  /\ \A k \in HeldBy(r) : k[2] # s
  /\ stage' = [k \in Signals |-> IF k = <<r, s, c>> THEN "pending"
                                 ELSE IF k \in WaitingOf(r, s) THEN "ended" ELSE stage[k]]
  /\ UNCHANGED <<traded, active, finished>>

Place(k) ==
  /\ k[1] \in active
  /\ stage[k] = "pending"
  /\ stage' = [stage EXCEPT ![k] = "ordered"]
  /\ UNCHANGED <<traded, active, finished>>

EndWithoutTrade(k) ==
  /\ stage[k] \in Waiting
  /\ stage' = [stage EXCEPT ![k] = "ended"]
  /\ UNCHANGED <<traded, active, finished>>

Enter(k, to) ==
  /\ k[1] \in active
  /\ stage[k] = "ordered"
  /\ Cardinality(HeldBy(k[1])) < Capacity
  /\ stage' = [stage EXCEPT ![k] = to]
  /\ traded' = IF to = "closed" THEN traded \cup {k} ELSE traded
  /\ UNCHANGED <<active, finished>>

Latch(k) ==
  /\ stage[k] = "open"
  /\ stage' = [stage EXCEPT ![k] = "exiting"]
  /\ UNCHANGED <<traded, active, finished>>

Close(k) ==
  /\ stage[k] \in Live
  /\ k \notin traded
  /\ stage' = [stage EXCEPT ![k] = "closed"]
  /\ traded' = traded \cup {k}
  /\ UNCHANGED <<active, finished>>

LifeNext ==
  \/ \E r \in Runs : Begin(r) \/ Finish(r)
  \/ \E r \in Runs, s \in Symbols, c \in Candles : Observe(r, s, c)
  \/ \E k \in Signals : Place(k) \/ EndWithoutTrade(k) \/ Latch(k) \/ Close(k)
  \/ \E k \in Signals, to \in Live \cup {"closed"} : Enter(k, to)

LifeSpec == LifeInit /\ [][LifeNext]_lifeVars
=============================================================================
