----------------------------- MODULE AccountBooks -----------------------------
(***************************************************************************)
(* The money of one DRY_RUN account is written by five handlers and read   *)
(* from two sets of books.  Dashboard, ledger, snapshot and ranking add    *)
(* the net results of Trade rows to what open positions say they realized. *)
(* The daily limit and the account proofs add closed trades of whole exits *)
(* to the results of single Fill rows and subtract the FundingPayment      *)
(* rows.  The two agree only while every handler keeps the columns of      *)
(* Position in step with the rows it inserts.                              *)
(*                                                                         *)
(* A handler is one transaction.  Fees and settlements are the exact       *)
(* shares of LiquidityExit, here one unit of entry fee per unit held.      *)
(***************************************************************************)
EXTENDS Integers, FiniteSets, Functions

CONSTANTS Holdings, Liquidity,  \* exitPolicy.fillModel = "l1-ioc@1"
          Funded,                \* fundingPolicy is set
          Quantity, EntryPrice, Prices, Amounts, ExitFee,
          InitialBalance,
          MaxPaid,               \* a bound on the funding of one position
          Null                   \* a column or a row that is not there

ASSUME BooksAssumption ==
    /\ IsFiniteSet(Holdings)
    /\ Funded \subseteq Liquidity /\ Liquidity \subseteq Holdings
    /\ Quantity \in Nat \ {0} /\ EntryPrice \in Int /\ Prices \subseteq Int
    /\ Amounts \subseteq Int /\ ExitFee \in Nat /\ InitialBalance \in Int
    /\ MaxPaid \in Nat /\ Null \notin Int

VARIABLES account,      \* the Position rows
          fillNet,      \* the sum of Fill.realizedNetPnl per position
          paid,         \* the sum of PositionFundingPayment.amount per position
          tradeNet,     \* Trade.netPnl per closed position
          proven        \* the cashPnl of the last account proof

bookVars == <<account, fillNet, paid, tradeNet, proven>>

OrElse(value, other) == IF value = Null THEN other ELSE value

StillOpen == {p \in Holdings : account[p].status = "open"}
SumOver(S, f) == SumFunctionOnSet(f, S)

-----------------------------------------------------------------------------
(* The books.                                                              *)

Traded == {p \in Holdings : tradeNet[p] # Null}

(* One row of the position list of captureRuntimeAccountState.             *)
Remaining(p) == OrElse(account[p].remaining, Quantity)
RemainingFee(p) == OrElse(account[p].remainingFee, account[p].fee)

OpenSum(column) == SumOver(StillOpen, [p \in Holdings |-> account[p][column]])
TradesNet == SumOver(Traded, tradeNet)

TotalPnl == TradesNet + OpenSum("realized")

(* getDryRunEquity and captureDryRunSnapshot.                              *)
Equity == InitialBalance + TotalPnl + OpenSum("unrealized")
             - SumOver(StillOpen, [p \in Holdings |-> RemainingFee(p)])

(* Trades of whole exits, fills of partial ones, and funding.              *)
RealizedCash(trades, fills, payments) ==
    SumOver({p \in Holdings \ Liquidity : trades[p] # Null}, trades)
      + SumOver(Holdings, fills) - SumOver(Holdings, payments)

CashPnl == RealizedCash(tradeNet, fillNet, paid)
             - SumOver(StillOpen, [p \in Holdings |-> RemainingFee(p)])

Unrealized(position, price, quantity) ==
    (price - EntryPrice) * quantity * position.side

MarkEquity ==
    InitialBalance + CashPnl
      + SumOver(StillOpen, [p \in Holdings |->
                         Unrealized(account[p], account[p].mark, Remaining(p))])

(* recordRuntimeAccountProof: what the transaction leaves is the account   *)
(* that its proof says it left.                                            *)
Prove == proven' = CashPnl'

-----------------------------------------------------------------------------
NoPosition == [status |-> "none", side |-> 1, remaining |-> Null, fee |-> 0,
               remainingFee |-> Null, mark |-> EntryPrice, net |-> 0,
               realized |-> 0, unrealized |-> 0, accrued |-> 0,
               latched |-> FALSE, filled |-> FALSE]

BooksInit ==
    /\ account = [p \in Holdings |-> NoPosition]
    /\ fillNet = [p \in Holdings |-> 0]
    /\ paid = [p \in Holdings |-> 0]
    /\ tradeNet = [p \in Holdings |-> Null]
    /\ proven = 0

(* persistRealtimeEntry: only an exit through the book gets columns for    *)
(* what remains.                                                           *)
EnterPosition(p, side, price) ==
    /\ account[p].status = "none"
    /\ account' = [account EXCEPT ![p] =
          [NoPosition EXCEPT
             !.status = "open", !.side = side, !.fee = Quantity, !.mark = price,
             !.remaining = IF p \in Liquidity THEN Quantity ELSE Null,
             !.remainingFee = IF p \in Liquidity THEN Quantity ELSE Null,
             !.unrealized = Unrealized([side |-> side], price, Quantity)]]
    /\ UNCHANGED <<fillNet, paid, tradeNet>>
    /\ Prove

(* The quote and protection lanes move the mark of a position that is not  *)
(* leaving yet.                                                            *)
Reprice(p, price) ==
    /\ p \in StillOpen /\ ~account[p].latched
    /\ account' = [account EXCEPT ![p].mark = price,
          ![p].unrealized = Unrealized(account[p], price, Quantity)]
    /\ UNCHANGED <<fillNet, paid, tradeNet, proven>>

(* The exit is latched.  No money moves.                                   *)
RequestExit(p, price) ==
    /\ p \in StillOpen \cap Liquidity /\ ~account[p].latched
    /\ account' = [account EXCEPT
          ![p].latched = TRUE,
          ![p].remaining = Remaining(p), ![p].remainingFee = RemainingFee(p),
          ![p].mark = price,
          ![p].unrealized = Unrealized(account[p], price, Remaining(p))]
    /\ UNCHANGED <<fillNet, paid, tradeNet, proven>>

(* A slip: the trade reports the result before funding is taken off.       *)
TradeOf_BeforeFunding(position) == position.net

(* completeLiquidityExit: the trade carries the result less the funding.   *)
TradeOf(position) == position.net - position.accrued

(* One step of the exit at `price`: nothing sold, or `quantity` sold, and  *)
(* the last sale closes the position unless its funding is still awaited.  *)
AdvanceExit(p, price, quantity, awaited) ==
    LET before == account[p]
        net == Unrealized(before, price, quantity) - quantity - ExitFee * quantity
        left == before.remaining - quantity
        closed == left = 0 /\ ~awaited
    IN  /\ p \in StillOpen /\ before.latched /\ ~before.filled
        /\ quantity <= before.remaining
        /\ awaited => p \in Funded
        /\ account' = [account EXCEPT ![p] =
              [before EXCEPT
                 !.remaining = left, !.remainingFee = before.remainingFee - quantity,
                 !.net = before.net + net,
                 !.realized = before.net + net - before.accrued,
                 !.unrealized = IF closed THEN 0 ELSE Unrealized(before, price, left),
                 !.mark = price, !.filled = left = 0,
                 !.status = IF closed THEN "closed" ELSE "open"]]
        /\ fillNet' = [fillNet EXCEPT ![p] = @ + net]
        /\ tradeNet' = IF closed THEN [tradeNet EXCEPT ![p] = TradeOf(account'[p])]
                       ELSE tradeNet
        /\ UNCHANGED paid
        /\ IF quantity > 0 THEN Prove ELSE UNCHANGED proven

(* synchronizePosition applies one settlement, before the position closes. *)
Charge(p, amount) ==
    /\ p \in StillOpen \cap Funded
    /\ paid' = [paid EXCEPT ![p] = @ + amount]
    /\ account' = [account EXCEPT ![p].accrued = @ + amount,
                                  ![p].realized = @ - amount]
    /\ UNCHANGED <<fillNet, tradeNet>>
    /\ Prove

(* The awaited settlement has come.                                        *)
Finalize(p) ==
    /\ p \in StillOpen /\ account[p].filled
    /\ account' = [account EXCEPT ![p].status = "closed",
                                  ![p].realized = TradeOf(account[p])]
    /\ tradeNet' = [tradeNet EXCEPT ![p] = TradeOf(account[p])]
    /\ UNCHANGED <<fillNet, paid>>
    /\ Prove

(* persistClosedPosition: the whole quantity at one price, both fees.      *)
CloseWhole(p, price) ==
    LET net == Unrealized(account[p], price, Quantity)
                 - account[p].fee - ExitFee * Quantity
    IN  /\ p \in StillOpen \ Liquidity
        /\ account' = [account EXCEPT ![p].status = "closed", ![p].mark = price,
                          ![p].realized = net, ![p].unrealized = 0]
        /\ tradeNet' = [tradeNet EXCEPT ![p] = net]
        /\ UNCHANGED <<fillNet, paid>>
        /\ Prove

BooksNext ==
    \E p \in Holdings :
        \/ \E side \in {-1, 1}, price \in Prices : EnterPosition(p, side, price)
        \/ \E price \in Prices : Reprice(p, price) \/ RequestExit(p, price)
        \/ \E price \in Prices, quantity \in 0 .. Quantity, awaited \in BOOLEAN :
               AdvanceExit(p, price, quantity, awaited)
        \/ \E amount \in Amounts : paid[p] + amount \in -MaxPaid .. MaxPaid /\ Charge(p, amount)
        \/ Finalize(p)
        \/ \E price \in Prices : CloseWhole(p, price)

BooksSpec == BooksInit /\ [][BooksNext]_bookVars

-----------------------------------------------------------------------------
(* In every state the two books give the same realized result, the two     *)
(* ways to compute equity the same equity, and the cash of the account is  *)
(* the one the last account proof ended with: no handler moves money       *)
(* without leaving a proof.                                                *)
BooksAgree ==
    /\ TotalPnl = RealizedCash(tradeNet, fillNet, paid)
    /\ Equity = MarkEquity
    /\ proven = CashPnl
=============================================================================
