---------------------------- MODULE MCOperations ----------------------------
(***************************************************************************)
(* Four small systems that share nothing with each other, in one run: the *)
(* risk gate, the trade audits, the queue of the price journal and the     *)
(* entries of a run whose entry loop polls.  A behaviour is about one      *)
(* `subject`; the variables of the others keep one initial value.          *)
(***************************************************************************)
EXTENDS RiskGate, TradeAudits, Sequences

CONSTANTS btc, eth, w1, w2
VARIABLE subject

(* The tape: one worker that keeps one trade at a time.                    *)
VARIABLES trade, tapeWorker, tapeLease, rows, append, reader
tapeVars == <<trade, tapeWorker, tapeLease, rows, append, reader>>
Tape == INSTANCE PriceJournal
          WITH Workers <- {w1}, None <- Nothing, Capacity <- 1, BatchSize <- 1,
               Follow <- FALSE, MaxTrade <- 4, MaxVoid <- 0, MaxSession <- 2,
               worker <- tapeWorker, lease <- tapeLease

(* The entries: one symbol, two candles, one worker in each loop.          *)
VARIABLES deployment, runStatus, journal, cursor, order, holding, tradeRows,
          observed, ended, late, receipts, snap
entryVars == <<deployment, runStatus, journal, cursor, order, holding, tradeRows,
               observed, ended, late, receipts, snap>>
OneSymbol == {btc}
CycleLoop == {w1}
EntryLoop == {w2}
Entries == INSTANCE RuntimeLedger
             WITH Symbols <- OneSymbol, LiquidityRuns <- {}, MaxRun <- 1, MaxCandle <- 2,
                  MaxEvent <- 2, MaxStop <- 0, MaxVersion <- 1, MaxOpenPositions <- 1,
                  CycleLanes <- CycleLoop, EntryLanes <- EntryLoop, PositionLanes <- {},
                  CommandKeys <- {"key"}, position <- holding, trades <- tradeRows

ASSUME LedgerInstance == Entries!LedgerAssumption

operationsVars == <<subject, riskVars, auditVars, tapeVars, entryVars>>

OperationsInit ==
    /\ subject \in {"risk", "audits", "tape", "entries"}
    /\ RiskInit /\ price = [s \in Symbols |-> 10]
    /\ AuditInit /\ Tape!Init /\ Entries!Init

(* The price of one symbol moves.                                          *)
OperationsNext ==
    /\ UNCHANGED subject
    /\ \/ /\ subject = "risk" /\ RiskNext /\ price'[eth] = price[eth]
          /\ UNCHANGED <<auditVars, tapeVars, entryVars>>
       \/ /\ subject = "audits" /\ AuditNext
          /\ UNCHANGED <<riskVars, tapeVars, entryVars>>
       \/ /\ subject = "tape" /\ Tape!Next
          /\ UNCHANGED <<riskVars, auditVars, entryVars>>
       \/ /\ subject = "entries" /\ Entries!Next
          /\ UNCHANGED <<riskVars, auditVars, tapeVars>>

(* RiskFairness, AuditFairness and the Fairness of the tape and of the     *)
(* entries, each of its own subject.                                       *)
OperationsFairness ==
    /\ WF_riskVars(subject = "risk" /\ Guard)
    /\ SF_riskVars(subject = "risk" /\ GuardCloses)
    /\ WF_auditVars(subject = "audits" /\ CommitTrade)
    /\ WF_auditVars(subject = "audits" /\ \E m \in Monitors : OpenMonitor(m))
    /\ \A m \in Monitors : WF_auditVars(subject = "audits" /\ (Work(m) \/ Notice(m)))
    /\ WF_auditVars(subject = "audits" /\ \E a \in Attempts : ChildWrites(a))
    /\ WF_tapeVars(subject = "tape" /\ Tape!BeginAppend(w1))
    /\ SF_tapeVars(subject = "tape" /\ Tape!Commit(w1, TRUE))
    /\ WF_entryVars(subject = "entries" /\ Entries!CancelStep)
    /\ \A w \in EntryLoop :
          /\ WF_entryVars(/\ subject = "entries"
                          /\ \E r \in {1}, s \in OneSymbol : Entries!LoadEntry(w, r, s))
          /\ WF_entryVars(/\ subject = "entries"
                          /\ \E e \in 0..2 : Entries!AdvancePendingEntry(w, e, FALSE))

OperationsSpec ==
    OperationsInit /\ [][OperationsNext]_operationsVars /\ OperationsFairness

-----------------------------------------------------------------------------
(* A worker that keeps the lease drains its queue: PriceJournal.           *)
QueueDrains == Tape!QueueDrains

(* Orders end and signals are decided: RuntimeLedger.                      *)
EntriesEnd == Entries!EntriesEnd
=============================================================================
