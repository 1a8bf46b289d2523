---------------------------- MODULE TradeAudits ----------------------------
(***************************************************************************)
(* The monitor that audits every closed trade: TradeAuditMonitor of         *)
(* scripts/lib/trade-audit-monitor.ts and its process,                      *)
(* scripts/watch-trade-audits.ts.                                           *)
(*                                                                          *)
(* It keeps its jobs in state.json, replaced as a whole, and a directory for*)
(* each attempt: result.json, written by a child process, and receipt.json, *)
(* created once and never replaced.  A process may end between any two of   *)
(* these writes, or while it writes a receipt, and its child then runs on.  *)
(* A lock of a database session makes one process the monitor of a          *)
(* workspace; one whose session was lost goes on until it notices.          *)
(*                                                                          *)
(* Trades are numbered by (createdAt, id); they become visible when their   *)
(* transaction commits, in any order.  A page of the inventory is PageSize  *)
(* trades.  Delays are not modelled: each round of the loop looks for trades,*)
(* and a job that is due may be picked before its backoff is over.          *)
(* Left out: the seed report, budgets of disk space and jobs, a source row  *)
(* that changed its identity, and the report.                               *)
(***************************************************************************)
EXTENDS Integers, FiniteSets

CONSTANTS Monitors, NoMonitor,
          AuditedTrades, \* 1..n in the order of the inventory
          PageSize,
          MaxFaults,   \* bound: crashes, lost sessions, failed or lost results
          MaxAttempts  \* bound: attempts of a trade

ASSUME AuditAssumption ==
    /\ NoMonitor \notin Monitors /\ PageSize \in Nat \ {0}
    /\ AuditedTrades \subseteq Nat \ {0} /\ IsFiniteSet(AuditedTrades)

VARIABLES inventory,  \* created: up to this trade, committed: visible trades
          disk,       \* state.json
          receipt,    \* receipt.json of each attempt
          result,     \* result.json with its evidence
          child,      \* child processes that run
          lease,      \* whose session holds the lock
          process,    \* what each process does
          memory,     \* MonitorState of each process
          faults

auditVars == <<inventory, disk, receipt, result, child, lease, process, memory, faults>>

Numbers == 1..MaxAttempts
Attempts == AuditedTrades \X Numbers
Outcomes == {"confirmed", "incomplete", "error"}
None == [number |-> 0, outcome |-> "none"]
NewJob == [attempts |-> 0, active |-> 0, latest |-> None, due |-> TRUE]
Unknown == [NewJob EXCEPT !.due = FALSE]
EmptyState == [job |-> [t \in AuditedTrades |-> Unknown], known |-> {}, cursor |-> 0,
               asOf |-> 0, seen |-> {}, missing |-> FALSE]
Resting == [step |-> "none", trade |-> 0, outcome |-> "none"]
Down == [phase |-> "down", verify |-> {}, task |-> Resting]

AuditInit ==
    /\ inventory = [created |-> 0, committed |-> {}]
    /\ disk = EmptyState
    /\ receipt = [a \in Attempts |-> "none"] /\ result = [a \in Attempts |-> "none"]
    /\ child = {} /\ lease = NoMonitor /\ faults = 0
    /\ process = [m \in Monitors |-> Down]
    /\ memory = [m \in Monitors |-> EmptyState]

Trade(m) == process[m].task.trade
JobOf(m) == memory[m].job[Trade(m)]
At(m, phase, step) == process[m].phase = phase /\ process[m].task.step = step
Fault == faults < MaxFaults /\ faults' = faults + 1

(* save replaces the file by what the process has in memory.                *)
Save(m, state) == memory' = [memory EXCEPT ![m] = state] /\ disk' = state
SaveJob(m, t, job) == Save(m, [memory[m] EXCEPT !.job[t] = job])
Task(m, step, t, outcome) ==
    process' = [process EXCEPT ![m].task =
                   [step |-> step, trade |-> t, outcome |-> outcome]]
Files == UNCHANGED <<inventory, receipt, result, child, lease, faults>>

-----------------------------------------------------------------------------
(* The source *)

CreateTrade ==
    /\ inventory.created + 1 \in AuditedTrades
    /\ inventory' = [inventory EXCEPT !.created = @ + 1]
    /\ UNCHANGED <<disk, receipt, result, child, lease, process, memory, faults>>

CommitTrade ==
    /\ \E t \in AuditedTrades \ inventory.committed :
          /\ t <= inventory.created
          /\ inventory' = [inventory EXCEPT !.committed = @ \cup {t}]
    /\ UNCHANGED <<disk, receipt, result, child, lease, process, memory, faults>>

-----------------------------------------------------------------------------
(* One attempt *)

(* start: the attempt is numbered and saved before anything is run.         *)
Start(m) ==
    /\ process[m].task.step \in {"start", "restart"}
    /\ LET n == JobOf(m).attempts + 1 IN
          /\ n \in Numbers
          /\ SaveJob(m, Trade(m), [JobOf(m) EXCEPT !.attempts = n, !.active = n])
          /\ IF process[m].task.step = "start"
             THEN /\ Task(m, "run", Trade(m), "none")
                  /\ child' = child \cup {<<Trade(m), n>>}
             ELSE Task(m, "complete", Trade(m), "error") /\ UNCHANGED child
    /\ UNCHANGED <<inventory, receipt, result, lease, faults>>

(* What a verified result.json says; a result that could not read all of    *)
(* its sources is incomplete and is retried.                                *)
Outcome(a) == CASE result[a] = "intact" -> "confirmed"
                [] result[a] = "partial" -> "incomplete"
                [] OTHER -> "error"

(* processJob: the child has exited and its result is read back.            *)
RunEnded(m) ==
    /\ process[m].task.step = "run"
    /\ LET a == <<Trade(m), JobOf(m).active>> IN
          a \notin child /\ Task(m, "complete", Trade(m), Outcome(a))
    /\ UNCHANGED <<memory, disk>> /\ Files

(* complete: first the receipt, which must not exist ...                    *)
Fresh_Replaced(a) == TRUE
Fresh(a) == receipt[a] = "none"
WriteReceipt(m) ==
    /\ process[m].task.step = "complete"
    /\ LET a == <<Trade(m), JobOf(m).active>> IN
       IF Fresh(a)
       THEN /\ receipt' = [receipt EXCEPT ![a] = process[m].task.outcome]
            /\ process' = [process EXCEPT ![m].task.step = "save"]
            /\ UNCHANGED <<lease, memory>>
       ELSE /\ process' = [process EXCEPT ![m] = Down]    \* EEXIST is thrown
            /\ memory' = [memory EXCEPT ![m] = EmptyState]
            /\ lease' = IF lease = m THEN NoMonitor ELSE lease
            /\ UNCHANGED receipt
    /\ UNCHANGED <<inventory, disk, result, child, faults>>

Settled(job, outcome) ==
    [job EXCEPT !.latest = [number |-> job.active, outcome |-> outcome],
                !.active = 0, !.due = outcome # "confirmed"]
(* ... then the job.                                                        *)
SaveLatest(m) ==
    /\ process[m].task.step = "save"
    /\ SaveJob(m, Trade(m), Settled(JobOf(m), process[m].task.outcome))
    /\ process' = [process EXCEPT ![m].task = Resting] /\ Files

-----------------------------------------------------------------------------
(* The process *)

OpenMonitor(m) ==
    /\ process[m].phase = "down" /\ lease = NoMonitor
    /\ lease' = m
    /\ memory' = [memory EXCEPT ![m] = disk]
    /\ process' = [process EXCEPT ![m].phase = "recover"]
    /\ UNCHANGED <<inventory, disk, receipt, result, child, faults>>

Interrupted_Ignored(m) == {}
Interrupted(m) == {t \in memory[m].known : memory[m].job[t].active # 0}
Latest(m, t) == memory[m].job[t].latest
Backed(m, t) == Latest(m, t).outcome \in {"confirmed", "incomplete"}
(* The stored result no longer says what its receipt does.                  *)
Spoiled(m, t) == Outcome(<<t, Latest(m, t).number>>) # Latest(m, t).outcome

(* recover: a receipt that can be read counts, one that cannot is replaced  *)
(* by another attempt, and without a receipt a verified result does.        *)
Recover(m) ==
    /\ At(m, "recover", "none")
    /\ \E t \in Interrupted(m) :
       LET job == memory[m].job[t]
           a == <<t, job.active>>
       IN  \/ /\ receipt[a] \in Outcomes
              /\ SaveJob(m, t, Settled(job, receipt[a]))
              /\ UNCHANGED process
           \/ /\ receipt[a] = "torn"
              /\ SaveJob(m, t, [job EXCEPT !.active = 0])
              /\ Task(m, "restart", t, "error")
           \/ /\ receipt[a] = "none"
              /\ Task(m, "complete", t, Outcome(a))
              /\ UNCHANGED <<memory, disk>>
    /\ Files

Recovered(m) ==
    /\ At(m, "recover", "none") /\ Interrupted(m) = {}
    /\ process' = [process EXCEPT ![m].phase = "verify",
          ![m].verify = {t \in memory[m].known : Backed(m, t)}]
    /\ UNCHANGED <<memory, disk>> /\ Files

(* verifyLatest: a result that is spoiled is given another attempt.         *)
VerifyLatest(m) ==
    /\ At(m, "verify", "none")
    /\ IF process[m].verify = {}
       THEN /\ process' = [process EXCEPT ![m].phase = "discover"]
            /\ disk' = memory[m]
       ELSE /\ \E t \in process[m].verify :
                  process' = [process EXCEPT ![m].verify = @ \ {t},
                     ![m].task = IF ~Spoiled(m, t) THEN Resting
                                 ELSE [step |-> "restart", trade |-> t, outcome |-> "error"]]
            /\ UNCHANGED disk
    /\ UNCHANGED memory /\ Files

(* discover: a page after the cursor, up to the moment the scan began.      *)
Page(m, asOf) ==
    {t \in inventory.committed : t <= asOf /\ t > memory[m].cursor
        /\ Cardinality({x \in inventory.committed : x > memory[m].cursor /\ x < t}) < PageSize}
Discover(m) ==
    /\ At(m, "discover", "none")
    /\ LET state == memory[m]
           asOf == IF state.asOf = 0 THEN inventory.created ELSE state.asOf
           page == Page(m, asOf)
           done == Cardinality(page) < PageSize
           seen == state.seen \cup page
           known == state.known \cup page
       IN  Save(m, [state EXCEPT
              !.known = known,
              !.job = [t \in AuditedTrades |-> IF t \in page \ state.known THEN NewJob
                                        ELSE state.job[t]],
              !.seen = IF done THEN {} ELSE seen,
              !.cursor = IF done THEN 0 ELSE CHOOSE t \in page : \A x \in page : x <= t,
              !.asOf = IF done THEN 0 ELSE asOf,
              !.missing = done /\ \E t \in known : t <= asOf /\ t \notin seen])
    /\ process' = [process EXCEPT ![m].phase = "pick"] /\ Files

(* nextJob and runOne *)
NextRound(m, phase, task) ==
    /\ process' = [process EXCEPT ![m].phase = phase, ![m].task = task]
    /\ UNCHANGED <<memory, disk>> /\ Files
Due(m) == {t \in memory[m].known : memory[m].job[t].due /\ memory[m].job[t].active = 0}
PickJob(m) ==
    /\ At(m, "pick", "none")
    /\ \/ \E t \in Due(m) : NextRound(m, "discover", [Resting EXCEPT !.step = "start", !.trade = t])
       \/ Due(m) = {} /\ NextRound(m, "check", Resting)

(* When no job is due, stored results are verified again, oldest first: a   *)
(* spoiled one is found sooner or later.                                    *)
VerifyStorage(m) ==
    /\ At(m, "check", "none")
    /\ LET suspects == {t \in memory[m].known : Backed(m, t) /\ Spoiled(m, t)} IN
       \/ \E t \in suspects :
             NextRound(m, "discover", [step |-> "restart", trade |-> t, outcome |-> "error"])
       \/ suspects = {} /\ NextRound(m, "discover", Resting)

Work(m) ==
    \/ Start(m) \/ RunEnded(m) \/ WriteReceipt(m) \/ SaveLatest(m)
    \/ Recover(m) \/ Recovered(m) \/ VerifyLatest(m)
    \/ Discover(m) \/ PickJob(m) \/ VerifyStorage(m)

-----------------------------------------------------------------------------
(* The child, and what goes wrong *)

ChildWrites(a) ==
    /\ a \in child
    /\ child' = child \ {a} /\ result' = [result EXCEPT ![a] = "intact"]
    /\ UNCHANGED <<inventory, disk, receipt, lease, process, memory, faults>>

ChildFails(a) ==
    /\ a \in child /\ Fault
    /\ child' = child \ {a}
    /\ result' \in {result, [result EXCEPT ![a] = "partial"]}
    /\ UNCHANGED <<inventory, disk, receipt, lease, process, memory>>

ResultSpoiled(a) ==
    /\ result[a] \in {"intact", "partial"} /\ Fault
    /\ result' = [result EXCEPT ![a] = "spoiled"]
    /\ UNCHANGED <<inventory, disk, receipt, child, lease, process, memory>>

Ends(m) ==
    /\ process' = [process EXCEPT ![m] = Down]
    /\ memory' = [memory EXCEPT ![m] = EmptyState]

Crash(m) ==
    /\ process[m].phase # "down" /\ Fault
    /\ Ends(m) /\ lease' = IF lease = m THEN NoMonitor ELSE lease
    /\ receipt' \in {receipt} \cup
          (IF process[m].task.step = "complete"
              /\ receipt[<<Trade(m), JobOf(m).active>>] = "none"
           THEN {[receipt EXCEPT ![<<Trade(m), JobOf(m).active>>] = "torn"]} ELSE {})
    /\ UNCHANGED <<inventory, disk, result, child>>

SessionLost(m) ==
    /\ lease = m /\ Fault
    /\ lease' = NoMonitor
    /\ UNCHANGED <<inventory, disk, receipt, result, child, process, memory>>

Notice(m) ==
    /\ process[m].phase # "down" /\ lease # m
    /\ Ends(m)
    /\ UNCHANGED <<inventory, disk, receipt, result, child, lease, faults>>

AuditNext ==
    \/ CreateTrade \/ CommitTrade
    \/ \E m \in Monitors :
          OpenMonitor(m) \/ Work(m) \/ Crash(m) \/ SessionLost(m) \/ Notice(m)
    \/ \E a \in Attempts : ChildWrites(a) \/ ChildFails(a) \/ ResultSpoiled(a)

AuditSpec == AuditInit /\ [][AuditNext]_auditVars

(* A monitor that ended is started again, its loop goes on, and a child     *)
(* comes to its end.                                                        *)
AuditFairness ==
    /\ WF_auditVars(CommitTrade)
    /\ WF_auditVars(\E m \in Monitors : OpenMonitor(m))
    /\ \A m \in Monitors : WF_auditVars(Work(m) \/ Notice(m))
    /\ WF_auditVars(\E a \in Attempts : ChildWrites(a))

-----------------------------------------------------------------------------
(* The outcome a trade is shown with is the one of its receipt, whatever    *)
(* process wrote it and wherever one ended.                                 *)
OutcomeIsReceipt ==
    \A t \in AuditedTrades : \A state \in {disk} \cup {memory[m] : m \in Monitors} :
        LET latest == state.job[t].latest
        IN  latest # None => receipt[<<t, latest.number>>] = latest.outcome

(* Every closed trade is in the end audited, with a result that is intact.  *)
TradeGetsAudited ==
    \A t \in AuditedTrades : t \in inventory.committed ~>
        /\ disk.job[t].latest.outcome = "confirmed"
        /\ result[<<t, disk.job[t].latest.number>>] = "intact"
=============================================================================
