----------------------------- MODULE ExitReplay -----------------------------
(***************************************************************************)
(* The trace of an exit and its replay.  Each step of LiquidityExit that   *)
(* changes the position writes a PositionTraceRecord in its transaction;   *)
(* replayLiquidityRuntimeTrace later goes through the records, rebuilds    *)
(* state, balances and exits from them alone and throws at the first one   *)
(* that does not follow.  Here it reads along, each record when written.   *)
(*                                                                         *)
(* The scan with an order is read in two statements, first the latest      *)
(* event, then those after the position's, and READ COMMITTED gives each   *)
(* its own view: an append may commit in between.  The locks keep out every*)
(* other writer of the position, and the clock's unit is far longer.       *)
(***************************************************************************)
EXTENDS LiquidityExit

VARIABLES
  seen,       \* the latest event as the transaction under way read it, 0: none
  replay      \* what the replay made of the records so far, and its verdict:
              \* "accepted", or why it threw: "scan" (its cursor or latest event)
              \* or "mismatch" (anything else)

replayVars == <<seen, replay>>

ReplayInit ==
  /\ Init
  /\ seen = 0
  /\ replay = [verdict |-> "accepted", cursor |-> 1, exit |-> exit, order |-> NoOrder,
               funding |-> funding, paid |-> paid, exits |-> <<>>]

(* A thrown error ends the replay; what it rebuilt no longer matters.      *)
Continue(scanAgrees, agrees, rebuilt) ==
  replay' = IF replay.verdict # "accepted" THEN replay
            ELSE IF ~scanAgrees THEN [replay EXCEPT !.verdict = "scan"]
            ELSE IF ~agrees THEN [replay EXCEPT !.verdict = "mismatch"]
            ELSE rebuilt

(***************************************************************************)
(* A liquidity step.                                                       *)
(***************************************************************************)
Filling == fills' # fills
NewFill == fills'[Len(fills')]
Unsold == Quantity - replay.exit.closed
FeeLeft == EntryFee - replay.exit.feeUsed
ReplayedFee(q) == IF q = Unsold THEN FeeLeft ELSE Min({FeeLeft, HalfUp(EntryFee * q, Quantity)})
ReplayedShare(q) ==
  IF q = Unsold THEN replay.funding.remaining ELSE Truncated(replay.funding.remaining * q, Unsold)

(* The step's own account of its scan: where it began, the latest event it *)
(* knew of and whether it saw all; an expiry must have seen the latest.    *)
ScanAgrees(latest) ==
  LET expired == Working /\ order' = NoOrder /\ exit'.waiting = "expired" IN
  /\ position.event = replay.cursor
  /\ replay.cursor <= position'.event /\ position'.event <= latest
  /\ ~Working \/ expired => latest = position'.event
  /\ expired => ScanComplete

(* verifyLiquidityExitStep and verifyFundingAllocation: the step starts    *)
(* from the rebuilt state, skipped no event that had to end the order, and *)
(* a fill follows from the rebuilt balances by the same arithmetic.        *)
StepAgrees ==
  /\ replay.exit = exit /\ replay.order = order
  /\ Working => \A e \in replay.cursor + 1..position'.event - 1 : ~MustCancel(e)
  /\ Filling =>
       /\ NewFill.quantity <= Unsold /\ NewFill.fee = ReplayedFee(NewFill.quantity)
       /\ exit'.closed = replay.exit.closed + NewFill.quantity
       /\ exit'.feeUsed = replay.exit.feeUsed + NewFill.fee
       /\ NewFill.funding = ReplayedShare(NewFill.quantity)
       /\ replay.funding.accrued = funding.accrued

AfterStep ==
  [replay EXCEPT !.cursor = position'.event, !.exit = exit', !.order = order',
                 !.funding.remaining = @ - (IF Filling THEN NewFill.funding ELSE 0),
                 !.exits = IF Filling THEN Append(@, [at |-> NewFill.at, quantity |-> NewFill.quantity])
                                      ELSE @]

(* A trade is compared with what was rebuilt: nothing left unsold, and the *)
(* same fee and funding.                                                   *)
TradeAgrees(rebuilt) ==
  trades' # trades =>
    LET trade == trades'[Len(trades')] IN
      /\ rebuilt.exit.closed = Quantity /\ trade.quantity = Quantity
      /\ trade.fee = rebuilt.exit.feeUsed /\ trade.funding = rebuilt.funding.accrued

RecordStep(latest) == Continue(ScanAgrees(latest), StepAgrees /\ TradeAgrees(AfterStep), AfterStep)

(* A finalization: all is sold and the rebuilt funding covers the last fill.*)
AfterFinalize == [replay EXCEPT !.exit = exit']
FinalizeAgrees ==
  /\ position.event = replay.cursor
  /\ replay.exit = exit /\ Unsold = 0
  /\ replay.funding.ready
  /\ replay.funding.through >= position.closedAt \/ replay.funding.next > position.closedAt
  /\ position.closedAt = replay.exits[Len(replay.exits)].at

(***************************************************************************)
(* A funding record (verifyFundingRecord).                                 *)
(***************************************************************************)
ReplayedExposure(b) ==
  Quantity - SumFunctionOnSet([i \in DOMAIN replay.exits |-> replay.exits[i].quantity],
                              {i \in DOMAIN replay.exits : replay.exits[i].at < b})
Uncharged(source) ==
  {b \in source : b <= Target /\ ReplayedExposure(b) # 0 /\ replay.paid[b].quantity = 0}
NewPayments == {b \in Boundaries : paid'[b] # paid[b]}
PaymentAgrees(b) ==
  /\ paid'[b].quantity = ReplayedExposure(b)
  /\ paid'[b].kept = Truncated(Rate[b] * ReplayedExposure(b) * Unsold, ReplayedExposure(b))

(* Being ready must follow from the snapshot and schedule of the market.   *)
Confirmed(source) ==
  /\ source = market.known
  /\ funding'.through = Target /\ funding'.next = market.next
  /\ now - market.observed <= MarketAge
  /\ market.through >= Target \/ market.next > Target
  /\ replay.funding.next <= Target =>
       ReplayedExposure(replay.funding.next) = 0 \/ replay.funding.next \in source

(* source: the history the record names, none for a failed one.            *)
FundingAgrees(source) ==
  /\ exit.intent => position.event = replay.cursor
  /\ replay.funding = funding
  /\ [i \in DOMAIN fills |-> [at |-> fills[i].at, quantity |-> fills[i].quantity]] = replay.exits
  /\ NewPayments = Uncharged(source)
  /\ \A b \in NewPayments : PaymentAgrees(b)
  /\ funding'.accrued = replay.funding.accrued + SumOver(NewPayments, [b \in NewPayments |-> Cost(b)])
  /\ funding'.remaining =
       replay.funding.remaining + SumOver(NewPayments, [b \in NewPayments |-> paid'[b].kept])
  /\ funding'.ready => Confirmed(source)

AfterFunding == [replay EXCEPT !.funding = funding', !.paid = paid']
RecordFunding(source) == Continue(TRUE, FundingAgrees(source), AfterFunding)

(***************************************************************************)
(* The steps of LiquidityExit with their records.                          *)
(***************************************************************************)
Between == seen = 0 /\ UNCHANGED seen

World ==
  \/ (Tick \/ RefreshMarket \/ \E b \in Boundaries : Publish(b)) /\ Between
  \/ \E reconnected \in BOOLEAN : ReceiveEvent(reconnected) /\ UNCHANGED seen

(* Price processing up to the trigger is replayed by other rules.          *)
Managed ==
  /\ Between
  /\ \E e \in 1..MaxEvent : Checkpoint(e) \/ RequestExit(e)
  /\ Continue(TRUE, TRUE, [replay EXCEPT !.cursor = position'.event, !.exit = exit'])

(* The transaction reads the latest event; one that would find nothing to  *)
(* do changes nothing and is left out.                                     *)
LookAtLatest ==
  /\ Exiting /\ Working /\ seen = 0
  /\ Scanned # {} \/ now >= Expires
  /\ seen' = Latest
  /\ UNCHANGED <<vars, replay>>

Scan ==
  /\ seen # 0
  /\ WaitOrExpire \/ \E e \in 1..MaxEvent : CancelOrder(e) \/ \E q \in 1..Quantity : FillOrder(e, q)
  /\ RecordStep(seen)
  /\ seen' = 0

Place == Between /\ (SubmitOrder \/ BlockOrder) /\ RecordStep(Latest)

FinalizeRecorded ==
  /\ Between /\ Finalize
  /\ Continue(TRUE, FinalizeAgrees /\ TradeAgrees(AfterFinalize), AfterFinalize)

Charge ==
  /\ Between
  /\ \/ Synchronize /\ RecordFunding(market.known)
     \/ MarkPending /\ RecordFunding({})

ReplayNext ==
  \/ World /\ UNCHANGED replay
  \/ Managed \/ LookAtLatest \/ Scan \/ Place \/ FinalizeRecorded \/ Charge

allVars == <<vars, replayVars>>
ReplaySpec == ReplayInit /\ [][ReplayNext]_allVars

(* The exchange publishes every settled rate in the end and the funding    *)
(* loop turns every 15 s; the protection loop advances latched exits about *)
(* every second, so it comes between a refreshed and the next failing pass *)
(* of the funding loop, hence the strong fairness of the finalization.     *)
ReplayFairness ==
  /\ WF_allVars(Tick /\ Between /\ UNCHANGED replay)
  /\ \A b \in Boundaries : WF_allVars(Publish(b) /\ Between /\ UNCHANGED replay)
  /\ WF_allVars(RefreshMarket /\ Between /\ UNCHANGED replay)
  /\ WF_allVars(Charge)
  /\ WF_allVars(LookAtLatest) /\ WF_allVars(Scan) /\ WF_allVars(Place)
  /\ SF_allVars(FinalizeRecorded)

ReplayFairSpec == ReplaySpec /\ ReplayFairness

(***************************************************************************)
(* Properties.                                                             *)
(***************************************************************************)
(* Apart from what a record says of its scan, the replay of the trace never*)
(* refuses a step, and it rebuilds from the records alone the trade, the   *)
(* balances and the charged settlements that the rows hold, whatever order *)
(* of partial fills, late settlements and failed refreshes wrote them      *)
(* (replayLiquidityRuntimeTrace, verifyFundingRecord).                     *)
ReplayAgrees ==
  /\ replay.verdict # "mismatch"
  /\ replay.verdict = "accepted" =>
       /\ replay.exit = exit /\ replay.order = order
       /\ replay.funding = funding /\ replay.paid = paid

(* What the documentation says of the audit: it reproduces the exit from   *)
(* the archive, so it accepts every trade the worker booked.               *)
AuditAcceptsTrade == trades # <<>> => replay.verdict = "accepted"
=============================================================================
