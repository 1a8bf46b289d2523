------------------------ MODULE LiquidityExit_proofs ------------------------
(***************************************************************************)
(* Theorems about LiquidityExit for every quantity, fee, term, scan limit, *)
(* schedule and rate: first what needs only the rows themselves, then what *)
(* the fills and payments add up to, with the lemmas of FiniteSums, and    *)
(* last that the replay of ExitReplay agrees with the rows.                *)
(***************************************************************************)
EXTENDS ExitReplay, FiniteSums, FiniteSetTheorems, SequenceTheorems, TLAPS

(* The rows without their funding columns.                                 *)
Rows ==
  /\ now \in Nat
  /\ journal \in Seq([at : Nat, stream : Nat])
  /\ position \in [status : {"OPEN", "CLOSED"}, event : Nat, through : Nat, closedAt : Nat]
  /\ balance \in [quantity : Nat, fee : Nat]
  /\ exit \in [intent : BOOLEAN, closed : Nat, feeUsed : Nat, waiting : Waiting]
  /\ order \in Order
  /\ Latest \in 1..MaxEvent
  /\ position.event \in 1..Latest

(* An order never asks for more than is held.                              *)
Backed == order.quantity <= Held

Books == Rows /\ Backed /\ BalancesAgree

(* The smaller of two numbers.                                              *)
LEMMA MinOfTwo ==
  ASSUME NEW a \in Nat, NEW b \in Nat
  PROVE  Min({a, b}) \in Nat /\ Min({a, b}) <= a /\ Min({a, b}) <= b
<1>1. \E x \in {a, b} : \A y \in {a, b} : x <= y
  OBVIOUS
<1>2. Min({a, b}) \in {a, b} /\ \A y \in {a, b} : Min({a, b}) <= y
  BY <1>1 DEF Min
<1> QED
  BY <1>2

(* An element that is no smaller than any other is the maximum.             *)
LEMMA MaxOfBounded ==
  ASSUME NEW S \in SUBSET Int, NEW top \in S, \A y \in S : top >= y
  PROVE  Max(S) = top
<1>1. \E x \in S : \A y \in S : x >= y
  OBVIOUS
<1>2. Max(S) \in S /\ \A y \in S : Max(S) >= y
  BY <1>1 DEF Max
<1>3. Max(S) >= top /\ top >= Max(S) /\ Max(S) \in Int /\ top \in Int
  BY <1>2
<1> QED
  BY <1>3

(* Rounding half up stays within the natural numbers.                       *)
LEMMA HalfUpNat ==
  ASSUME NEW n \in Nat, NEW d \in Nat \ {0}
  PROVE  HalfUp(n, d) \in Nat
<1> DEFINE m == 2 * n + d
           k == 2 * d
<1>1. m \in Nat /\ k \in Nat \ {0}
  OBVIOUS
<1> HIDE DEF m, k
<1>2. m \div k \in Nat
  BY <1>1
<1> QED
  BY <1>2 DEF HalfUp, m, k

(* The share of the entry fee never exceeds what is left of it, and the    *)
(* last fill takes all of it.                                              *)
LEMMA FeeShare ==
  ASSUME Rows, NEW q \in 1..Quantity
  PROVE  /\ EntryFeeShare(q) \in Nat /\ EntryFeeShare(q) <= balance.fee
         /\ q = Held => EntryFeeShare(q) = balance.fee
<1>1. EntryFee * q \in Nat /\ Quantity \in Nat \ {0} /\ balance.fee \in Nat
  BY ExitAssumption DEF Rows
<1>2. HalfUp(EntryFee * q, Quantity) \in Nat
  BY <1>1, HalfUpNat
<1>3. LET m == Min({balance.fee, HalfUp(EntryFee * q, Quantity)}) IN m \in Nat /\ m <= balance.fee
  BY <1>1, <1>2, MinOfTwo
<1> QED
  BY <1>1, <1>3 DEF EntryFeeShare

(* A row moved to a received event stays a row, and its cursor received.   *)
LEMMA Moving ==
  ASSUME Rows, NEW e \in 1..Latest
  PROVE  /\ MovePosition(e) \in [status : {"OPEN", "CLOSED"}, event : Nat, through : Nat,
                                 closedAt : Nat]
         /\ MovePosition(e).event = e
         /\ MovePosition(e).status = position.status
         /\ journal[e].at \in Nat
<1> DEFINE Event == [at : Nat, stream : Nat]
<1>0. journal \in Seq(Event) /\ e \in 1..Len(journal)
  BY DEF Rows, Latest
<1> HIDE DEF Event
<1>e. journal[e] \in Event
  BY <1>0
<1>1. journal[e] \in [at : Nat, stream : Nat]
  BY <1>e DEF Event
<1>2. Later(position.through, e) \in Nat
  BY <1>1 DEF Rows, Later
<1>3. e \in Nat
  BY DEF Rows, Latest
<1> QED
  BY <1>1, <1>2, <1>3 DEF Rows, MovePosition

(* The events of a scan are consecutive; what a scan short of its limit    *)
(* leaves unread has not been received.                                    *)
LEMMA ScanEnd ==
  ASSUME Rows
  PROVE  /\ Scanned # {} => Max(Scanned) \in Scanned
         /\ Scanned # {} /\ ScanComplete => Max(Scanned) = Latest
         /\ Scanned = {} => position.event = Latest
<1> DEFINE bound == position.event + ScanLimit
           top == IF Latest <= bound THEN Latest ELSE bound
<1>1. /\ position.event \in Nat \ {0} /\ Latest \in Nat \ {0} /\ ScanLimit \in Nat \ {0}
      /\ MaxEvent \in Nat \ {0} /\ Latest <= MaxEvent /\ position.event <= Latest
  BY ExitAssumption DEF Rows
<1>2. Scanned = (position.event + 1)..top
  BY <1>1 DEF Scanned
<1>t. /\ top \in Nat
      /\ ScanLimit <= top - position.event \/ top = Latest
  BY <1>1
<1> HIDE DEF top
<1>3. Scanned # {} => Max(Scanned) = top /\ top \in Scanned
  <2>1. SUFFICES ASSUME Scanned # {} PROVE Max(Scanned) = top /\ top \in Scanned
    OBVIOUS
  <2>2. top \in Scanned /\ \A y \in Scanned : y \in Int /\ top >= y
    BY <1>1, <1>t, <1>2, <2>1
  <2>3. Scanned \in SUBSET Int /\ \A y \in Scanned : top >= y
    BY <2>2
  <2>4. Max(Scanned) = top
    BY ONLY <2>2, <2>3, MaxOfBounded
  <2> QED
    BY <2>2, <2>4
<1>4. Cardinality(Scanned) = IF position.event + 1 > top THEN 0 ELSE top - (position.event + 1) + 1
  <2>1. position.event + 1 \in Int /\ top \in Int
    BY <1>1, <1>t
  <2>2. Cardinality((position.event + 1)..top)
          = IF position.event + 1 > top THEN 0 ELSE top - (position.event + 1) + 1
    BY ONLY <2>1, FS_Interval
  <2> QED
    BY <1>2, <2>2
<1>5. ScanComplete => top = Latest
  BY <1>1, <1>t, <1>4 DEF ScanComplete
<1>6. Scanned = {} => position.event = Latest
  BY <1>1 DEF Scanned
<1> QED
  BY <1>1, <1>2, <1>3, <1>5, <1>6

(* An action property: however late the scan runs, the clock expires no    *)
(* order over a received event of its term.                                *)
LEMMA ExpiresAfterScan ==
  ASSUME Books, Next, Working, order' = NoOrder, exit'.waiting = "expired", NEW e \in 1..Latest
  PROVE  e <= position'.event
<1>1. CASE WaitOrExpire
  <2> DEFINE last == IF Scanned = {} THEN Latest ELSE Max(Scanned)
  <2>1. ScanComplete /\ position' = MovePosition(last)
    BY <1>1 DEF WaitOrExpire, Working
  <2>2. last = Latest
    BY <2>1, ScanEnd DEF Books
  <2>3. position'.event = Latest
    BY <2>1, <2>2, Moving DEF Books, Rows
  <2> QED
    BY <2>3 DEF Books, Rows, Latest
<1>2. ASSUME NEW d \in 1..MaxEvent, CancelOrder(d)
      PROVE  FALSE
  <2>1. exit'.waiting = "cancelled"
    BY <1>2 DEF CancelOrder, Books, Rows
  <2> QED
    BY <2>1
<1>3. ASSUME NEW d \in 1..MaxEvent, NEW q \in 1..Quantity, FillOrder(d, q)
      PROVE  FALSE
  <2>1. exit'.waiting \in {"funding", "none"}
    BY <1>3 DEF FillOrder, Books, Rows
  <2> QED
    BY <2>1
<1>4. CASE SubmitOrder \/ BlockOrder
  BY <1>4 DEF SubmitOrder, BlockOrder
<1>5. CASE UNCHANGED order
  BY <1>5 DEF Working
<1>6. Tick \/ RefreshMarket \/ Synchronize \/ MarkPending \/ Finalize => UNCHANGED order
  BY DEF Tick, RefreshMarket, Synchronize, MarkPending, Finalize
<1>7. (\E reconnected \in BOOLEAN : ReceiveEvent(reconnected)) \/ (\E b \in Boundaries : Publish(b))
      \/ (\E d \in 1..MaxEvent : Checkpoint(d) \/ RequestExit(d)) => UNCHANGED order
  BY DEF ReceiveEvent, Publish, Checkpoint, RequestExit
<1> QED
  BY <1>1, <1>2, <1>3, <1>4, <1>5, <1>6, <1>7 DEF Next, AdvanceExit

(* Initially the rows agree.                                               *)
LEMMA BooksInit == Init => Books
<1> SUFFICES ASSUME Init PROVE Books
  OBVIOUS
<1>1. Latest = 1 /\ Held = Quantity /\ balance.fee = EntryFee /\ exit.closed = 0 /\ exit.feeUsed = 0
  BY DEF Init, Latest, Held
<1>2. journal \in Seq([at : Nat, stream : Nat])
  BY DEF Init
<1>3. Rows
  BY <1>1, <1>2, ExitAssumption DEF Init, Rows, Waiting, Order, NoOrder
<1> QED
  BY <1>1, <1>3, ExitAssumption DEF Init, Books, Backed, BalancesAgree, NoOrder

(* A fill books what the order asked for at most, so what is held stays    *)
(* non-negative, and its fee is taken from what is left of the entry fee.  *)
LEMMA FillKeepsBooks ==
  ASSUME Books, NEW e \in 1..MaxEvent, NEW q \in 1..Quantity, FillOrder(e, q)
  PROVE  Books'
<1> DEFINE fee == EntryFeeShare(q)
           waits == IF q = Held /\ ~(q = Held /\ Ready(journal[e].at)) THEN "funding" ELSE "none"
           status == IF q = Held /\ Ready(journal[e].at) THEN "CLOSED" ELSE "OPEN"
           closed == IF q = Held THEN journal[e].at ELSE MovePosition(e).closedAt
<1>1. e \in 1..Latest /\ q \in Nat \ {0} /\ q <= Held
  <2>1. order.quantity \in Nat /\ Held \in Nat /\ order.quantity <= Held
    BY DEF Books, Rows, Backed, Order, Held
  <2>2. q <= order.quantity /\ e \in Scanned
    BY DEF FillOrder
  <2>3. e \in 1..Latest
    BY <2>2 DEF Scanned, Books, Rows
  <2> QED
    BY <2>1, <2>2, <2>3
<1>2. fee \in Nat /\ fee <= balance.fee /\ (q = Held => fee = balance.fee)
  BY FeeShare DEF Books
<1>3. /\ exit' = [intent |-> TRUE, closed |-> exit.closed + q, feeUsed |-> exit.feeUsed + fee,
                  waiting |-> waits]
      /\ balance' = [quantity |-> Held - q, fee |-> balance.fee - fee]
      /\ order' = NoOrder
      /\ position' = [MovePosition(e) EXCEPT !.status = status, !.closedAt = closed]
      /\ UNCHANGED <<now, journal>>
  BY DEF FillOrder
<1>4. waits \in Waiting /\ status \in {"OPEN", "CLOSED"}
  BY DEF Waiting
<1>5. closed \in Nat /\ MovePosition(e).event = e
      /\ MovePosition(e) \in [status : {"OPEN", "CLOSED"}, event : Nat, through : Nat, closedAt : Nat]
  BY <1>1, Moving DEF Books
<1> HIDE DEF fee, waits, status, closed
<1>6. position' \in [status : {"OPEN", "CLOSED"}, event : Nat, through : Nat, closedAt : Nat]
      /\ position'.event = e
  BY <1>3, <1>4, <1>5
<1>7. /\ exit.closed \in Nat /\ exit.feeUsed \in Nat
      /\ exit \in [intent : BOOLEAN, closed : Nat, feeUsed : Nat, waiting : Waiting]
      /\ Held \in Nat /\ balance.fee \in Nat
  BY DEF Books, Rows, Held
<1>8. /\ exit' \in [intent : BOOLEAN, closed : Nat, feeUsed : Nat, waiting : Waiting]
      /\ exit'.closed = exit.closed + q /\ exit'.feeUsed = exit.feeUsed + fee
  BY <1>1, <1>2, <1>3, <1>4, <1>7
<1>9. /\ balance' \in [quantity : Nat, fee : Nat]
      /\ balance'.quantity = Held - q /\ balance'.fee = balance.fee - fee
  BY <1>1, <1>2, <1>3, <1>7
<1>10. Held' = Held - q /\ order' = NoOrder /\ NoOrder \in Order /\ NoOrder.quantity = 0
  BY <1>3, <1>9 DEF Held, NoOrder, Order
<1>11. Backed' /\ BalancesAgree'
  BY <1>1, <1>2, <1>7, <1>8, <1>9, <1>10 DEF Books, BalancesAgree, Backed
<1>12. Rows'
  BY <1>1, <1>3, <1>6, <1>8, <1>9, <1>10 DEF Books, Rows, Latest
<1> QED
  BY <1>11, <1>12 DEF Books

(* Every other step of the exit leaves the balances alone.                 *)
LEMMA AdvanceKeepsBooks ==
  ASSUME Books, SubmitOrder \/ BlockOrder \/ WaitOrExpire \/ Finalize
                \/ \E e \in 1..MaxEvent : CancelOrder(e)
  PROVE  Books'
<1> DEFINE Position == [status : {"OPEN", "CLOSED"}, event : Nat, through : Nat, closedAt : Nat]
<1>0. /\ Rows /\ Latest \in 1..Latest /\ position \in Position
      /\ UNCHANGED <<now, journal, balance>>
  BY DEF Books, Rows, SubmitOrder, BlockOrder, WaitOrExpire, Finalize, CancelOrder
<1>1. position' \in Position /\ position'.event \in 1..Latest
  <2>1. CASE \E e \in 1..Latest : position' = MovePosition(e)
    BY <1>0, <2>1, Moving
  <2>2. CASE SubmitOrder \/ BlockOrder
    BY <1>0, <2>1, <2>2 DEF SubmitOrder, BlockOrder
  <2>3. CASE WaitOrExpire
    <3>1. \/ Scanned = {} /\ position' = MovePosition(Latest)
          \/ Scanned # {} /\ position' = MovePosition(Max(Scanned))
      BY <2>3 DEF WaitOrExpire
    <3>2. Scanned # {} => Max(Scanned) \in 1..Latest
      BY <1>0, ScanEnd DEF Scanned, Rows
    <3> QED
      BY <1>0, <2>1, <3>1, <3>2
  <2>4. CASE Finalize
    <3>1. position' = [position EXCEPT !.status = "CLOSED"]
      BY <2>4 DEF Finalize
    <3> QED
      BY <1>0, <3>1 DEF Rows
  <2>5. ASSUME NEW e \in 1..MaxEvent, CancelOrder(e)
        PROVE  position' \in Position /\ position'.event \in 1..Latest
    <3>1. e \in 1..Latest /\ position' = MovePosition(e)
      BY <1>0, <2>5 DEF CancelOrder, Scanned, Rows
    <3> QED
      BY <2>1, <3>1
  <2> QED
    BY <2>2, <2>3, <2>4, <2>5
<1>2. /\ exit' \in [intent : BOOLEAN, closed : Nat, feeUsed : Nat, waiting : Waiting]
      /\ exit'.closed = exit.closed /\ exit'.feeUsed = exit.feeUsed
  <2> DEFINE Exit == [intent : BOOLEAN, closed : Nat, feeUsed : Nat, waiting : Waiting]
  <2>1. exit \in Exit
    BY <1>0 DEF Rows
  <2>2. \/ exit' = exit
        \/ \E reason \in Waiting : exit' = [exit EXCEPT !.waiting = reason]
    <3>1. {"none", "blocked", "cancelled", "expired"} \subseteq Waiting
      BY DEF Waiting
    <3>2. CASE SubmitOrder \/ BlockOrder
      BY <3>1, <3>2 DEF SubmitOrder, BlockOrder
    <3>3. CASE WaitOrExpire \/ Finalize
      BY <3>1, <3>3 DEF WaitOrExpire, Finalize
    <3>4. ASSUME NEW e \in 1..MaxEvent, CancelOrder(e)
          PROVE  exit' = [exit EXCEPT !.waiting = "cancelled"]
      BY <3>4 DEF CancelOrder
    <3> QED
      BY <1>0, <3>1, <3>2, <3>3, <3>4
  <2> QED
    BY <2>1, <2>2
<1>3. order' \in Order /\ order'.quantity <= Held
  <2>1. NoOrder \in Order /\ NoOrder.quantity <= Held
    BY <1>0 DEF Rows, NoOrder, Order, Held
  <2>2. CASE SubmitOrder
    <3>1. OrderQuantity \in Nat /\ OrderQuantity <= Held
      BY <1>0, MinOfTwo, ExitAssumption DEF Rows, OrderQuantity, Held
    <3>2. journal[Latest].stream \in Nat /\ now \in Nat /\ Latest \in Nat
      <4> DEFINE Event == [at : Nat, stream : Nat]
      <4>1. journal \in Seq(Event) /\ Latest \in 1..Len(journal)
        BY <1>0 DEF Rows, Latest
      <4> HIDE DEF Event
      <4>2. journal[Latest] \in Event
        BY <4>1
      <4> QED
        BY <1>0, <4>2 DEF Event, Rows
    <3>3. order' = [quantity |-> OrderQuantity, submit |-> Latest, at |-> now,
                    stream |-> journal[Latest].stream]
      BY <2>2 DEF SubmitOrder
    <3> QED
      BY <3>1, <3>2, <3>3 DEF Order
  <2>3. order' \in {order, NoOrder} \/ SubmitOrder
    BY DEF BlockOrder, WaitOrExpire, Finalize, CancelOrder
  <2> QED
    BY <1>0, <2>1, <2>2, <2>3 DEF Books, Rows, Backed
<1>4. Held' = Held /\ Latest' = Latest
  BY <1>0 DEF Held, Latest
<1>5. Backed' /\ BalancesAgree'
  BY <1>0, <1>2, <1>3, <1>4 DEF Books, Backed, BalancesAgree
<1>6. Rows'
  BY <1>0, <1>1, <1>2, <1>3, <1>4 DEF Rows
<1> QED
  BY <1>5, <1>6 DEF Books

(* The world and the funding loop leave the exit's rows alone, or extend   *)
(* the journal, or move the cursor of a position not yet exiting.          *)
LEMMA WorldKeepsBooks ==
  ASSUME Books, Tick \/ (\E reconnected \in BOOLEAN : ReceiveEvent(reconnected))
                \/ (\E b \in Boundaries : Publish(b))
                \/ (\E e \in 1..MaxEvent : Checkpoint(e) \/ RequestExit(e))
                \/ RefreshMarket \/ Synchronize \/ MarkPending
  PROVE  Books'
<1>0. Rows /\ position.event \in Nat
  BY DEF Books, Rows
<1>1. CASE UNCHANGED <<journal, position, balance, exit, order>> /\ now' \in Nat
  BY <1>1 DEF Books, Rows, Backed, BalancesAgree, Held, Latest
<1>2. Tick \/ (\E b \in Boundaries : Publish(b)) \/ RefreshMarket \/ Synchronize \/ MarkPending =>
        UNCHANGED <<journal, position, balance, exit, order>> /\ now' \in Nat
  BY <1>0 DEF Rows, Tick, Publish, RefreshMarket, Synchronize, MarkPending
<1>3. ASSUME NEW reconnected \in BOOLEAN, ReceiveEvent(reconnected)
      PROVE  Books'
  <2> DEFINE Event == [at : Nat, stream : Nat]
             new == [at |-> now, stream |-> journal[Latest].stream + (IF reconnected THEN 1 ELSE 0)]
  <2>1. journal \in Seq(Event) /\ Latest \in 1..Len(journal) /\ now \in Nat
    BY <1>0 DEF Rows, Latest
  <2>2. journal[Latest] \in Event
    <3> HIDE DEF Event
    <3> QED
      BY <2>1
  <2>3. new \in Event
    BY <2>1, <2>2
  <2>4. journal' = Append(journal, new) /\ Latest < MaxEvent
    BY <1>3 DEF ReceiveEvent
  <2> HIDE DEF new, Event
  <2>5. journal' \in Seq(Event) /\ Latest' = Latest + 1
    BY <2>1, <2>3, <2>4 DEF Latest
  <2>6. UNCHANGED <<now, position, balance, exit, order>>
    BY <1>3 DEF ReceiveEvent
  <2>7. Latest' \in 1..MaxEvent /\ position'.event \in 1..Latest'
    BY <1>0, <2>4, <2>5, <2>6, ExitAssumption DEF Rows
  <2>8. Rows'
    BY <1>0, <2>5, <2>6, <2>7 DEF Rows, Event
  <2> QED
    BY <2>6, <2>8 DEF Books, Backed, BalancesAgree, Held
<1>4. ASSUME NEW e \in 1..MaxEvent, Checkpoint(e) \/ RequestExit(e)
      PROVE  Books'
  <2>1. e \in 1..Latest /\ position' = MovePosition(e) /\ UNCHANGED <<now, journal, balance, order>>
    BY <1>0, <1>4 DEF Checkpoint, RequestExit, Rows
  <2>2. /\ position' \in [status : {"OPEN", "CLOSED"}, event : Nat, through : Nat, closedAt : Nat]
        /\ position'.event = e
    BY <1>0, <2>1, Moving
  <2>3. exit' = exit \/ exit' = [exit EXCEPT !.intent = TRUE]
    BY <1>4 DEF Checkpoint, RequestExit
  <2>4. /\ exit' \in [intent : BOOLEAN, closed : Nat, feeUsed : Nat, waiting : Waiting]
        /\ exit'.closed = exit.closed /\ exit'.feeUsed = exit.feeUsed
    BY <1>0, <2>3 DEF Rows
  <2>5. Rows'
    BY <1>0, <2>1, <2>2, <2>4 DEF Rows, Latest
  <2> QED
    BY <2>1, <2>4, <2>5 DEF Books, Backed, BalancesAgree, Held
<1> QED
  BY <1>1, <1>2, <1>3, <1>4

(* Every step keeps the books.                                              *)
LEMMA BooksStep == Books /\ [Next]_vars => Books'
<1> SUFFICES ASSUME Books, [Next]_vars PROVE Books'
  OBVIOUS
<1>1. CASE UNCHANGED vars
  BY <1>1 DEF vars, Books, Rows, Backed, BalancesAgree, Held, Latest
<1>2. CASE \E e \in 1..MaxEvent, q \in 1..Quantity : FillOrder(e, q)
  BY <1>2, FillKeepsBooks
<1> QED
  BY <1>1, <1>2, AdvanceKeepsBooks, WorldKeepsBooks DEF Next, AdvanceExit

(* The typed rows and the books of every exit, always.                      *)
THEOREM BooksInvariant == Spec => []Books
<1> QED
  BY BooksInit, BooksStep, PTL DEF Spec

(* However the exit is split, the quantity and the entry fee are divided   *)
(* between the exit state and the position's row and nothing is left over. *)
THEOREM BalancesHold == Spec => []BalancesAgree
<1>1. Books => BalancesAgree
  BY DEF Books
<1> QED
  BY <1>1, BooksInvariant, PTL

(* However late and in however many scans events are examined, an order of *)
(* whose term an event was received is not expired by the clock first.     *)
THEOREM ScansAreFair == Spec => LateScanIsFair
<1> DEFINE Fair == Working /\ order' = NoOrder /\ exit'.waiting = "expired" =>
                     \A e \in 1..Latest : position'.event < e => ~(SameStream(e) /\ InTime(e))
<1>1. Books /\ [Next]_vars => [Fair]_vars
  <2>1. SUFFICES ASSUME Books, Next PROVE Fair
    OBVIOUS
  <2>2. SUFFICES ASSUME Working, order' = NoOrder, exit'.waiting = "expired", NEW e \in 1..Latest,
                        position'.event < e
                 PROVE  FALSE
    OBVIOUS
  <2>3. e <= position'.event
    BY <2>1, <2>2, ExpiresAfterScan
  <2>4. position'.event \in Nat /\ e \in Nat
    BY <2>1, BooksStep DEF Books, Rows
  <2> QED
    BY <2>2, <2>3, <2>4
<1> QED
  BY <1>1, BooksInvariant, PTL DEF Spec, LateScanIsFair

(* A fill's event followed the order's submission, on its stream and within*)
(* its term.                                                               *)
THEOREM FillsAreCausal == Spec => FillCausal
<1> DEFINE Causal == fills' # fills =>
                       LET e == position'.event IN
                         /\ order.submit < e /\ journal[e].stream = order.stream
                         /\ order.at <= journal[e].at /\ journal[e].at < Expires
<1>1. Books /\ [Next]_vars => [Causal]_vars
  <2>1. SUFFICES ASSUME Books, Next, fills' # fills PROVE Causal
    OBVIOUS
  <2>2. PICK e \in 1..MaxEvent, q \in 1..Quantity : FillOrder(e, q)
    BY <2>1 DEF Next, AdvanceExit, Tick, ReceiveEvent, Publish, Checkpoint, RequestExit, SubmitOrder,
             BlockOrder, WaitOrExpire, Finalize, CancelOrder, RefreshMarket, Synchronize, MarkPending
  <2>3. e \in 1..Latest /\ MayTrade(e)
    BY <2>1, <2>2 DEF FillOrder, Scanned, Books, Rows
  <2>4. position'.event = e
    BY <2>1, <2>2, <2>3, Moving DEF FillOrder, Books
  <2>5. journal[e].at \in Nat /\ order.at \in Nat /\ order.submit \in Nat /\ e \in Nat
    BY <2>1, <2>3, Moving DEF Books, Rows, Order
  <2> QED
    BY <2>3, <2>4, <2>5 DEF MayTrade, MustCancel, SameStream, InTime
<1> QED
  BY <1>1, BooksInvariant, PTL DEF Spec, FillCausal

(* With nothing held, everything has been allocated.                       *)
LEMMA AllAllocated ==
  ASSUME Books, Held = 0
  PROVE  exit.closed = Quantity /\ exit.feeUsed = EntryFee
<1>1. exit.closed \in Nat /\ exit.feeUsed \in Nat /\ Quantity \in Nat /\ EntryFee \in Nat
  BY ExitAssumption DEF Books, Rows
<1>2. exit.closed + 0 = Quantity /\ exit.feeUsed + 0 = EntryFee
  BY DEF Books, BalancesAgree
<1> QED
  BY <1>1, <1>2

(* What the trades of a position look like in each of its statuses.        *)
TradeOf(f) == [quantity |-> Quantity, fee |-> EntryFee, funding |-> f]
Settled ==
  \/ position.status = "OPEN" /\ trades = <<>>
  \/ position.status = "CLOSED" /\ \E f : trades = <<TradeOf(f)>>

(* Every step keeps what has been settled.                                  *)
LEMMA SettledStep == Books /\ Settled /\ [Next]_vars => Settled'
<1> SUFFICES ASSUME Books, Settled, [Next]_vars PROVE Settled'
  OBVIOUS
<1>1. CASE UNCHANGED trades /\ position'.status = position.status
  BY <1>1 DEF Settled
<1>2. ASSUME position.status = "OPEN", position'.status = "CLOSED",
             NEW f, trades' = Append(trades, TradeOf(f))
      PROVE  Settled'
  <2>1. trades = <<>>
    BY <1>2 DEF Settled
  <2>2. trades' = <<TradeOf(f)>>
    BY <1>2, <2>1
  <2> QED
    BY <1>2, <2>2 DEF Settled
<1>3. CASE Finalize
  <2>1. exit.closed = Quantity /\ exit.feeUsed = EntryFee
    BY <1>3, AllAllocated DEF Finalize
  <2>2. position.status = "OPEN" /\ position'.status = "CLOSED"
    BY <1>3 DEF Finalize, Books, Rows
  <2>3. trades' = Append(trades, TradeOf(funding.accrued))
    BY <1>3, <2>1 DEF Finalize, TradeOf
  <2> QED
    BY <1>2, <2>2, <2>3
<1>4. ASSUME NEW e \in 1..MaxEvent, NEW q \in 1..Quantity, FillOrder(e, q)
      PROVE  Settled'
  <2> DEFINE closes == q = Held /\ Ready(journal[e].at)
  <2>1. /\ position.status = "OPEN"
        /\ position'.status = IF closes THEN "CLOSED" ELSE "OPEN"
        /\ trades' = IF closes THEN Append(trades, Booked) ELSE trades
    BY <1>4 DEF FillOrder, Exiting, MovePosition, Books, Rows
  <2>2. CASE ~closes
    BY <1>1, <2>1, <2>2
  <2>3. CASE closes
    <3>1. Books'
      BY <1>4, FillKeepsBooks
    <3>2. Held' = 0
      <4>1. balance'.quantity = Held - q
        BY <1>4 DEF FillOrder
      <4> QED
        BY <2>3, <4>1 DEF Held
    <3>3. exit'.closed = Quantity /\ exit'.feeUsed = EntryFee
      <4>1. /\ exit'.closed \in Nat /\ exit'.feeUsed \in Nat
            /\ Quantity \in Nat /\ EntryFee \in Nat
        BY <3>1, ExitAssumption DEF Books, Rows
      <4>2. exit'.closed + 0 = Quantity /\ exit'.feeUsed + 0 = EntryFee
        BY <3>1, <3>2 DEF Books, BalancesAgree
      <4> QED
        BY <4>1, <4>2
    <3> QED
      BY <1>2, <2>1, <2>3, <3>3 DEF Booked, TradeOf
  <2> QED
    BY <2>2, <2>3
<1>5. ASSUME NEW e, Checkpoint(e) \/ RequestExit(e) \/ CancelOrder(e)
      PROVE  UNCHANGED trades /\ position'.status = position.status
  BY <1>5 DEF Checkpoint, RequestExit, CancelOrder, MovePosition, Books, Rows
<1>6. SubmitOrder \/ BlockOrder \/ WaitOrExpire =>
        UNCHANGED trades /\ position'.status = position.status
  BY DEF SubmitOrder, BlockOrder, WaitOrExpire, MovePosition, Books, Rows
<1>7. ASSUME NEW x, Tick \/ ReceiveEvent(x) \/ Publish(x) \/ RefreshMarket \/ Synchronize
                    \/ MarkPending \/ UNCHANGED vars
      PROVE  UNCHANGED trades /\ position'.status = position.status
  BY <1>7 DEF Tick, ReceiveEvent, Publish, RefreshMarket, Synchronize, MarkPending, vars
<1> QED
  BY <1>1, <1>3, <1>4, <1>5, <1>6, <1>7 DEF Next, AdvanceExit

(* A closed position has exactly one trade, of its whole quantity and entry*)
(* fee, whichever of the two closing paths booked it.                      *)
THEOREM OneTradePerExit == Spec => []OneTrade
<1>1. Init => Settled
  BY DEF Init, Settled
<1>2. Settled => OneTrade
  BY DEF Settled, OneTrade, TradeOf
<1> QED
  BY <1>1, <1>2, SettledStep, BooksInvariant, PTL DEF Spec

-----------------------------------------------------------------------------
(* The rows with their funding columns.                                    *)
FillRow == [at : Nat, quantity : Nat, fee : Nat, funding : Int]
MoneyRows ==
  /\ now \in 0..MaxTime
  /\ published \subseteq Boundaries
  /\ market \in [observed : Nat, next : Nat, through : Nat, known : SUBSET Boundaries]
  /\ funding \in [ready : BOOLEAN, next : Nat, through : Nat, accrued : Int, remaining : Int]
  /\ paid \in [Boundaries -> [quantity : Nat, kept : Int]]
  /\ fills \in Seq(FillRow)

(* Events are stored in the order of their times, the position has been    *)
(* carried no further than its event, and while quantity is held no later  *)
(* settlement has been charged: a fill still to come is not before one.    *)
Ordered == \A i, j \in 1..Latest : i <= j => journal[i].at <= journal[j].at
Timeline ==
  /\ Ordered
  /\ \A i \in 1..Latest : journal[i].at <= now
  /\ position.through <= journal[position.event].at
  /\ Held > 0 => position.closedAt = 0
  /\ Held > 0 => \A b \in Boundaries : paid[b].quantity > 0 => b <= position.through

(* What the funding columns add up to, and that a position which is ready  *)
(* has been carried up to, but not over, the settlement it expects next.   *)
Fundings ==
  /\ market.through < market.next
  /\ funding.ready => funding.through < funding.next
  /\ funding.accrued = Payments
  /\ \A b \in Boundaries : paid[b].quantity = 0 => paid[b].kept = 0

Moneys == Books /\ Settled /\ MoneyRows /\ Timeline /\ Fundings /\ CashFlows

(* Sums over rows that do not change.                                      *)
LEMMA SumsSame ==
  ASSUME UNCHANGED <<fills, paid>>
  PROVE  /\ UNCHANGED <<FilledQuantity, FilledFee, FilledFunding, Payments, KeptPayments>>
         /\ \A b : Exposure(b)' = Exposure(b)
<1>1. FilledQuantity' = FilledQuantity
  BY DEF FilledQuantity, Filled
<1>2. FilledFee' = FilledFee
  BY DEF FilledFee, Filled
<1>3. FilledFunding' = FilledFunding
  BY DEF FilledFunding, Filled
<1>4. Payments' = Payments
  BY DEF Payments, Payment
<1>5. KeptPayments' = KeptPayments
  BY DEF KeptPayments
<1>6. \A b : Exposure(b)' = Exposure(b)
  BY DEF Exposure
<1> QED
  BY <1>1, <1>2, <1>3, <1>4, <1>5, <1>6

(* A step that books nothing keeps the money.                              *)
LEMMA MoneySame ==
  ASSUME CashFlows, UNCHANGED <<fills, paid, balance, trades>>,
         exit'.closed = exit.closed, exit'.feeUsed = exit.feeUsed,
         funding'.remaining = funding.remaining,
         NothingAwaited'
  PROVE  CashFlows'
<1>1. /\ UNCHANGED <<FilledQuantity, FilledFee, FilledFunding, Payments, KeptPayments>>
      /\ \A b : Exposure(b)' = Exposure(b)
  BY SumsSame
<1>2. MoneyAllocated'
  BY <1>1 DEF CashFlows, MoneyAllocated, Held
<1>3. ChargedAsHeld'
  BY <1>1 DEF CashFlows, ChargedAsHeld
<1>4. TradeCarriesPayments'
  BY <1>1 DEF CashFlows, TradeCarriesPayments
<1> QED
  BY <1>2, <1>3, <1>4 DEF CashFlows

(* A moved position lies at the time of its event, not before where it was.*)
LEMMA MovedOn ==
  ASSUME Books, Timeline, NEW e \in 1..Latest, position.event <= e
  PROVE  /\ MovePosition(e).through <= journal[e].at
         /\ position.through <= MovePosition(e).through
         /\ position.through <= journal[e].at
         /\ MovePosition(e).closedAt = position.closedAt
<1>1. /\ position.event \in 1..Latest /\ position.through \in Nat /\ e \in Nat
      /\ position \in [status : {"OPEN", "CLOSED"}, event : Nat, through : Nat, closedAt : Nat]
  BY DEF Books, Rows, Latest
<1>2. journal[e].at \in Nat /\ journal[position.event].at \in Nat
  BY <1>1, Moving DEF Books
<1>3. position.through <= journal[position.event].at /\ journal[position.event].at <= journal[e].at
  BY <1>1 DEF Timeline, Ordered
<1>4. /\ MovePosition(e).through = Later(position.through, e)
      /\ MovePosition(e).closedAt = position.closedAt
  BY <1>1 DEF MovePosition
<1> QED
  BY <1>1, <1>2, <1>3, <1>4 DEF Later

(* A step that moves the position along the journal and books nothing.     *)
LEMMA MoveKeepsMoney ==
  ASSUME Moneys, Next, NEW e \in 1..Latest, position.event <= e, position' = MovePosition(e),
         UNCHANGED <<now, journal, published, market, balance, funding, paid, fills, trades>>,
         exit'.closed = exit.closed, exit'.feeUsed = exit.feeUsed
  PROVE  Moneys'
<1>1. Books' /\ Settled'
  BY BooksStep, SettledStep DEF Moneys
<1>2. MoneyRows'
  BY DEF Moneys, MoneyRows
<1>3. Fundings'
  BY SumsSame DEF Moneys, Fundings
<1>4. /\ position'.event = e /\ position'.status = position.status
      /\ position'.closedAt = position.closedAt
      /\ position'.through <= journal[e].at /\ position.through <= position'.through
  BY Moving, MovedOn DEF Moneys, Books
<1>5. position.through \in Nat /\ position'.through \in Nat /\ Boundaries \subseteq Nat
  BY <1>1, ExitAssumption DEF Moneys, Books, Rows
<1>6. Timeline'
  <2>1. Latest' = Latest /\ Held' = Held
    BY DEF Latest, Held
  <2>2. Ordered' /\ \A i \in 1..Latest' : journal'[i].at <= now'
    BY <2>1 DEF Moneys, Timeline, Ordered
  <2>3. Held' > 0 => \A b \in Boundaries : paid'[b].quantity > 0 => b <= position'.through
    <3> SUFFICES ASSUME Held > 0, NEW b \in Boundaries, paid[b].quantity > 0
                 PROVE  b <= position'.through
      BY <2>1
    <3>1. b <= position.through /\ b \in Nat
      BY <1>5 DEF Moneys, Timeline
    <3> QED
      BY <1>4, <1>5, <3>1
  <2> QED
    BY <1>4, <2>1, <2>2, <2>3 DEF Moneys, Timeline
<1>7. NothingAwaited'
  BY <1>4 DEF Moneys, CashFlows, NothingAwaited
<1>8. CashFlows'
  BY <1>7, MoneySame DEF Moneys
<1> QED
  BY <1>1, <1>2, <1>3, <1>6, <1>8 DEF Moneys

(* The steps of the exit, and those before it, that only move the position.*)
LEMMA MoversKeepMoney ==
  ASSUME Moneys, Next,
         \/ SubmitOrder \/ BlockOrder \/ WaitOrExpire
         \/ \E e \in 1..MaxEvent : CancelOrder(e) \/ Checkpoint(e) \/ RequestExit(e)
  PROVE  Moneys'
<1>0. /\ Rows /\ position.event \in 1..Latest /\ Latest \in Nat \ {0} /\ Latest \in 1..Latest
      /\ exit \in [intent : BOOLEAN, closed : Nat, feeUsed : Nat, waiting : Waiting]
  BY DEF Moneys, Books, Rows
<1>1. CASE SubmitOrder \/ BlockOrder
  <2>1. /\ position' = MovePosition(Latest) /\ position.event <= Latest
        /\ UNCHANGED <<now, journal, published, market, balance, funding, paid, fills, trades>>
        /\ exit'.closed = exit.closed /\ exit'.feeUsed = exit.feeUsed
    BY <1>0, <1>1 DEF SubmitOrder, BlockOrder
  <2> QED
    BY <1>0, <2>1, MoveKeepsMoney
<1>2. CASE WaitOrExpire
  <2>1. PICK e \in 1..Latest : position' = MovePosition(e) /\ position.event <= e
    <3>1. CASE Scanned = {}
      BY <1>0, <1>2, <3>1 DEF WaitOrExpire
    <3>2. CASE Scanned # {}
      <4>1. Max(Scanned) \in Scanned /\ position' = MovePosition(Max(Scanned))
        BY <1>0, <1>2, <3>2, ScanEnd DEF WaitOrExpire
      <4>2. Max(Scanned) \in 1..Latest /\ position.event <= Max(Scanned)
        BY <1>0, <4>1 DEF Scanned
      <4> QED
        BY <4>1, <4>2
    <3> QED
      BY <3>1, <3>2
  <2>2. /\ UNCHANGED <<now, journal, published, market, balance, funding, paid, fills, trades>>
        /\ exit'.closed = exit.closed /\ exit'.feeUsed = exit.feeUsed
    BY <1>0, <1>2 DEF WaitOrExpire
  <2> QED
    BY <2>1, <2>2, MoveKeepsMoney
<1>3. ASSUME NEW e \in 1..MaxEvent, CancelOrder(e) \/ Checkpoint(e) \/ RequestExit(e)
      PROVE  Moneys'
  <2>1. e \in 1..Latest /\ position.event <= e
    BY <1>0, <1>3 DEF CancelOrder, Checkpoint, RequestExit, Scanned
  <2>2. /\ position' = MovePosition(e)
        /\ UNCHANGED <<now, journal, published, market, balance, funding, paid, fills, trades>>
        /\ exit'.closed = exit.closed /\ exit'.feeUsed = exit.feeUsed
    BY <1>0, <1>3 DEF CancelOrder, Checkpoint, RequestExit
  <2> QED
    BY <2>1, <2>2, MoveKeepsMoney
<1> QED
  BY <1>1, <1>2, <1>3

(* The next boundary lies ahead.                                           *)
LEMMA BoundaryAhead ==
  ASSUME NEW t \in 0..MaxTime
  PROVE  NextBoundary(t) \in Nat /\ NextBoundary(t) > t
<1> DEFINE S == {b \in Boundaries : b > t} \cup {MaxTime + 1}
<1>0. Boundaries \subseteq 1..MaxTime /\ MaxTime \in Nat /\ t \in Nat /\ t <= MaxTime
  BY ExitAssumption
<1>1. ASSUME NEW x \in S
      PROVE  x \in Nat /\ x > t
  <2>1. CASE x \in Boundaries /\ x > t
    BY <1>0, <2>1
  <2>2. CASE x = MaxTime + 1
    BY <1>0, <2>2
  <2> QED
    BY <2>1, <2>2
<1>s. S # {}
  OBVIOUS
<1> HIDE DEF S
<1>2. \E x \in S : \A y \in S : x <= y
  BY <1>1, <1>s, LeastElement
<1>3. Min(S) \in S
  BY <1>2 DEF Min
<1> QED
  BY <1>1, <1>3 DEF NextBoundary, S

(* The world leaves the money alone; events are stored at the present time,*)
(* and a market row is refreshed up to, but not over, its next boundary.   *)
LEMMA WorldKeepsMoney ==
  ASSUME Moneys, Next,
         \/ Tick \/ RefreshMarket \/ MarkPending
         \/ \E reconnected \in BOOLEAN : ReceiveEvent(reconnected)
         \/ \E b \in Boundaries : Publish(b)
  PROVE  Moneys'
<1>1. Books' /\ Settled'
  BY BooksStep, SettledStep DEF Moneys
<1>2. UNCHANGED <<position, balance, exit, paid, fills, trades>>
  BY DEF Tick, RefreshMarket, MarkPending, ReceiveEvent, Publish
<1>3. /\ funding' \in [ready : BOOLEAN, next : Nat, through : Nat, accrued : Int, remaining : Int]
      /\ funding'.next = funding.next /\ funding'.through = funding.through
      /\ funding'.accrued = funding.accrued /\ funding'.remaining = funding.remaining
      /\ funding'.ready => funding.ready
  <2>1. funding' = funding \/ funding' = [funding EXCEPT !.ready = FALSE]
    BY DEF Tick, RefreshMarket, MarkPending, ReceiveEvent, Publish
  <2> QED
    BY <2>1 DEF Moneys, MoneyRows
<1>4. now' \in 0..MaxTime /\ now <= now'
  <2>1. now \in 0..MaxTime /\ MaxTime \in Nat
    BY ExitAssumption DEF Moneys, MoneyRows
  <2>2. now' = now \/ (now < MaxTime /\ now' = now + 1)
    BY DEF Tick, RefreshMarket, MarkPending, ReceiveEvent, Publish
  <2> QED
    BY <2>1, <2>2
<1>5. /\ market' \in [observed : Nat, next : Nat, through : Nat, known : SUBSET Boundaries]
      /\ market'.through < market'.next
  <2>1. CASE market' = market
    BY <2>1 DEF Moneys, MoneyRows, Fundings
  <2>2. CASE RefreshMarket
    <3>1. now \in 0..MaxTime /\ published \subseteq Boundaries
            /\ market \in [observed : Nat, next : Nat, through : Nat, known : SUBSET Boundaries]
      BY DEF Moneys, MoneyRows
    <3>2. NextBoundary(now) \in Nat /\ NextBoundary(now) > now
      BY <3>1, BoundaryAhead
    <3>3. market' = [observed |-> now, next |-> NextBoundary(now),
                     through |-> IF Reusable THEN market.through ELSE now,
                     known |-> IF Reusable THEN market.known ELSE published]
      BY <2>2 DEF RefreshMarket
    <3>4. Reusable => market.next = NextBoundary(now)
      BY DEF Reusable
    <3>5. market.through < market.next
      BY DEF Moneys, Fundings
    <3> QED
      BY <3>1, <3>2, <3>3, <3>4, <3>5
  <2> QED
    BY <2>1, <2>2 DEF Tick, MarkPending, ReceiveEvent, Publish
<1>6. published' \subseteq Boundaries
  BY DEF Moneys, MoneyRows, Tick, RefreshMarket, MarkPending, ReceiveEvent, Publish
<1>7. MoneyRows'
  BY <1>2, <1>3, <1>4, <1>5, <1>6 DEF Moneys, MoneyRows
<1>8. Fundings'
  BY <1>2, <1>3, <1>5, SumsSame DEF Moneys, Fundings
<1>9. NothingAwaited'
  BY <1>2, <1>3 DEF Moneys, CashFlows, NothingAwaited
<1>10. CashFlows'
  BY <1>2, <1>3, <1>9, MoneySame DEF Moneys
<1>11. Timeline'
  <2>1. /\ Latest \in Nat /\ position.event \in 1..Latest /\ now \in Nat /\ now' \in Nat
        /\ \A i \in 1..Latest : journal[i].at \in Nat
    BY <1>1, <1>4, Moving DEF Moneys, Books, Rows, MoneyRows
  <2>2. /\ \A i \in 1..Latest : journal'[i] = journal[i]
        /\ \/ Latest' = Latest
           \/ Latest' = Latest + 1 /\ journal'[Latest + 1].at = now
    <3>1. CASE journal' = journal
      BY <3>1 DEF Latest
    <3>2. ASSUME NEW new, journal' = Append(journal, new), new.at = now
          PROVE  /\ \A i \in 1..Latest : journal'[i] = journal[i]
                 /\ Latest' = Latest + 1 /\ journal'[Latest + 1].at = now
      <4> DEFINE Event == [at : Nat, stream : Nat]
      <4>1. journal \in Seq(Event)
        BY DEF Moneys, Books, Rows
      <4> HIDE DEF Event
      <4> QED
        BY <3>2, <4>1 DEF Latest
    <3>3. journal' = journal \/ \E new : journal' = Append(journal, new) /\ new.at = now
      <4>1. ASSUME NEW reconnected \in BOOLEAN, ReceiveEvent(reconnected)
            PROVE  \E new : journal' = Append(journal, new) /\ new.at = now
        <5> DEFINE new == [at |-> now, stream |-> journal[Latest].stream +
                                                   (IF reconnected THEN 1 ELSE 0)]
        <5>1. journal' = Append(journal, new) /\ new.at = now
          BY <4>1 DEF ReceiveEvent
        <5> QED
          BY <5>1
      <4> QED
        BY <4>1 DEF Tick, RefreshMarket, MarkPending, Publish
    <3> QED
      BY <3>1, <3>2, <3>3
  <2>3. \A i \in 1..Latest' : journal'[i].at <= now' /\ journal'[i].at \in Nat
    BY <1>4, <2>1, <2>2 DEF Moneys, Timeline
  <2>4. Ordered'
    <3> SUFFICES ASSUME NEW i \in 1..Latest', NEW j \in 1..Latest', i <= j
                 PROVE  journal'[i].at <= journal'[j].at
      BY DEF Ordered
    <3>1. CASE j \in 1..Latest
      <4>1. i \in 1..Latest
        BY <2>1, <2>2, <3>1
      <4>2. journal[i].at <= journal[j].at
        BY <3>1, <4>1 DEF Moneys, Timeline, Ordered
      <4> QED
        BY <2>2, <3>1, <4>1, <4>2
    <3>2. CASE j \notin 1..Latest
      <4>1. j = Latest + 1 /\ journal'[j].at = now
        BY <2>1, <2>2, <3>2
      <4>2. CASE i = j
        BY <2>3, <4>2
      <4>3. CASE i # j
        <5>1. i \in 1..Latest
          BY <2>1, <2>2, <4>1, <4>3
        <5> QED
          BY <2>2, <4>1, <5>1 DEF Moneys, Timeline
      <4> QED
        BY <4>2, <4>3
    <3> QED
      BY <3>1, <3>2
  <2>5. position'.through <= journal'[position'.event].at
    BY <1>2, <2>1, <2>2 DEF Moneys, Timeline
  <2>6. Held' = Held
    BY <1>2 DEF Held
  <2> QED
    BY <1>2, <2>3, <2>4, <2>5, <2>6 DEF Moneys, Timeline
<1> QED
  BY <1>1, <1>7, <1>8, <1>10, <1>11 DEF Moneys

(* Sums over the fills are whole numbers.                                  *)
LEMMA FilledType ==
  ASSUME MoneyRows
  PROVE  /\ IsFiniteSet(DOMAIN fills) /\ DOMAIN fills = 1..Len(fills) /\ Len(fills) \in Nat
         /\ \A i \in DOMAIN fills : fills[i] \in FillRow
         /\ FilledQuantity \in Int /\ FilledFee \in Int /\ FilledFunding \in Int
<1>1. /\ DOMAIN fills = 1..Len(fills) /\ Len(fills) \in Nat
      /\ \A i \in DOMAIN fills : fills[i] \in FillRow
  BY DEF MoneyRows
<1>2. IsFiniteSet(DOMAIN fills)
  <2>1. IsFiniteSet(1..Len(fills))
    BY <1>1, FS_Interval
  <2> QED
    BY <1>1, <2>1
<1>3. \A i \in DOMAIN fills : /\ fills[i].quantity \in Int /\ fills[i].fee \in Int
                              /\ fills[i].funding \in Int
  BY <1>1 DEF FillRow
<1>4. FilledQuantity \in Int
  BY <1>2, <1>3, SumType DEF FilledQuantity, Filled
<1>5. FilledFee \in Int
  BY <1>2, <1>3, SumType DEF FilledFee, Filled
<1>6. FilledFunding \in Int
  BY <1>2, <1>3, SumType DEF FilledFunding, Filled
<1> QED
  BY <1>1, <1>2, <1>4, <1>5, <1>6

(* A fill adds its columns to the sums, and changes no exposure before it. *)
LEMMA FillAdds ==
  ASSUME MoneyRows, NEW row \in FillRow, fills' = Append(fills, row)
  PROVE  /\ FilledQuantity' = FilledQuantity + row.quantity
         /\ FilledFee' = FilledFee + row.fee
         /\ FilledFunding' = FilledFunding + row.funding
         /\ \A b \in Nat : row.at >= b => Exposure(b)' = Exposure(b)
         /\ fills' \in Seq(FillRow)
<1> DEFINE D == DOMAIN fills
           n == Len(fills) + 1
<1>1. /\ IsFiniteSet(D) /\ D = 1..Len(fills) /\ Len(fills) \in Nat
      /\ \A i \in D : fills[i] \in FillRow
  BY FilledType
<1>2. /\ DOMAIN fills' = D \cup {n} /\ n \notin D /\ fills'[n] = row
      /\ \A i \in D : fills'[i] = fills[i]
      /\ fills' \in Seq(FillRow)
  <2> HIDE DEF FillRow
  <2>1. fills \in Seq(FillRow)
    BY DEF MoneyRows
  <2>2. fills' \in Seq(FillRow) /\ Len(fills') = n /\ fills'[n] = row
          /\ \A i \in 1..Len(fills) : fills'[i] = fills[i]
    BY <1>1, <2>1
  <2>3. DOMAIN fills' = 1..n
    BY <2>2
  <2> QED
    BY <1>1, <2>2, <2>3
<1>3. /\ \A i \in D : /\ fills[i].quantity \in Int /\ fills[i].fee \in Int
                      /\ fills[i].funding \in Int /\ fills[i].at \in Nat
      /\ row.quantity \in Int /\ row.fee \in Int /\ row.funding \in Int /\ row.at \in Nat
  BY <1>1 DEF FillRow
<1> HIDE DEF D, n
<1>4. FilledQuantity' = FilledQuantity + row.quantity
  <2> DEFINE f == [i \in D |-> fills[i].quantity]
             g == [i \in D \cup {n} |-> fills'[i].quantity]
  <2>1. \A i \in D : f[i] \in Int /\ g[i] = f[i]
    BY <1>2, <1>3
  <2>2. g[n] = row.quantity /\ g[n] \in Int
    BY <1>2, <1>3
  <2>3. FilledQuantity = SumFunctionOnSet(f, D)
    BY DEF FilledQuantity, Filled, D
  <2>4. FilledQuantity' = SumFunctionOnSet(g, D \cup {n})
    BY <1>2 DEF FilledQuantity, Filled
  <2> HIDE DEF f, g
  <2>5. SumFunctionOnSet(g, D \cup {n}) = SumFunctionOnSet(f, D) + g[n]
    BY <1>1, <1>2, <2>1, <2>2, SumGrows
  <2> QED
    BY <2>2, <2>3, <2>4, <2>5
<1>5. FilledFee' = FilledFee + row.fee
  <2> DEFINE f == [i \in D |-> fills[i].fee]
             g == [i \in D \cup {n} |-> fills'[i].fee]
  <2>1. \A i \in D : f[i] \in Int /\ g[i] = f[i]
    BY <1>2, <1>3
  <2>2. g[n] = row.fee /\ g[n] \in Int
    BY <1>2, <1>3
  <2>3. FilledFee = SumFunctionOnSet(f, D)
    BY DEF FilledFee, Filled, D
  <2>4. FilledFee' = SumFunctionOnSet(g, D \cup {n})
    BY <1>2 DEF FilledFee, Filled
  <2> HIDE DEF f, g
  <2>5. SumFunctionOnSet(g, D \cup {n}) = SumFunctionOnSet(f, D) + g[n]
    BY <1>1, <1>2, <2>1, <2>2, SumGrows
  <2> QED
    BY <2>2, <2>3, <2>4, <2>5
<1>6. FilledFunding' = FilledFunding + row.funding
  <2> DEFINE f == [i \in D |-> fills[i].funding]
             g == [i \in D \cup {n} |-> fills'[i].funding]
  <2>1. \A i \in D : f[i] \in Int /\ g[i] = f[i]
    BY <1>2, <1>3
  <2>2. g[n] = row.funding /\ g[n] \in Int
    BY <1>2, <1>3
  <2>3. FilledFunding = SumFunctionOnSet(f, D)
    BY DEF FilledFunding, Filled, D
  <2>4. FilledFunding' = SumFunctionOnSet(g, D \cup {n})
    BY <1>2 DEF FilledFunding, Filled
  <2> HIDE DEF f, g
  <2>5. SumFunctionOnSet(g, D \cup {n}) = SumFunctionOnSet(f, D) + g[n]
    BY <1>1, <1>2, <2>1, <2>2, SumGrows
  <2> QED
    BY <2>2, <2>3, <2>4, <2>5
<1>7. ASSUME NEW b \in Nat, row.at >= b
      PROVE  Exposure(b)' = Exposure(b)
  <2> DEFINE f == [i \in D |-> fills[i].quantity]
             g == [i \in D \cup {n} |-> fills'[i].quantity]
             before == {i \in D : fills[i].at < b}
  <2>1. {i \in DOMAIN fills' : fills'[i].at < b} = before
    BY <1>2, <1>3, <1>7
  <2>2. IsFiniteSet(before) /\ \A i \in before : g[i] = f[i]
    BY <1>1, <1>2, FS_Subset
  <2>3. SumFunctionOnSet(g, before) = SumFunctionOnSet(f, before)
    <3> HIDE DEF f, g, before
    <3> QED
      BY <2>2, SumAlike
  <2>4. Exposure(b) = Quantity - SumFunctionOnSet(f, before)
    BY DEF Exposure, D
  <2>5. Exposure(b)' = Quantity - SumFunctionOnSet(g, before)
    BY <1>2, <2>1 DEF Exposure
  <2> QED
    BY <2>3, <2>4, <2>5
<1> QED
  BY <1>2, <1>4, <1>5, <1>6, <1>7

(* Rounding towards zero gives whole numbers, and nothing of nothing.      *)
LEMMA TruncatedInt ==
  ASSUME NEW n \in Int, NEW d \in Nat \ {0}
  PROVE  Truncated(n, d) \in Int /\ (n = 0 => Truncated(n, d) = 0)
<1>1. n \div d \in Int /\ (-n) \div d \in Int /\ 0 \div d = 0
  OBVIOUS
<1> QED
  BY <1>1 DEF Truncated

(* A fill of the order books its columns, wherever its rounding falls; the *)
(* charged settlements lie before it, and the last fill takes what is left.*)
LEMMA FillKeepsMoney ==
  ASSUME Moneys, Next, NEW e \in 1..MaxEvent, NEW q \in 1..Quantity, FillOrder(e, q)
  PROVE  Moneys'
<1> DEFINE fee == EntryFeeShare(q)
           cost == FundingShare(q)
           closes == q = Held /\ Ready(journal[e].at)
           row == [at |-> journal[e].at, quantity |-> q, fee |-> fee, funding |-> cost]
<1>1. /\ Books' /\ Settled' /\ Books /\ MoneyRows /\ Rows
      /\ position \in [status : {"OPEN", "CLOSED"}, event : Nat, through : Nat, closedAt : Nat]
  BY BooksStep, SettledStep DEF Moneys, Books, Rows
<1>2. /\ e \in 1..Latest /\ position.event <= e /\ q \in Nat \ {0} /\ q <= Held /\ Held \in Nat \ {0}
      /\ position.status = "OPEN" /\ trades = <<>>
  <2>1. /\ order.quantity \in Nat /\ Held \in Nat /\ order.quantity <= Held
        /\ position.event \in Nat /\ Quantity \in Nat
    BY <1>1, ExitAssumption DEF Books, Rows, Backed, Order, Held
  <2>2. q <= order.quantity /\ e \in Scanned /\ position.status = "OPEN"
    BY DEF FillOrder, Exiting
  <2>3. e \in 1..Latest /\ position.event <= e
    BY <2>1, <2>2 DEF Scanned
  <2>4. trades = <<>>
    BY <2>2 DEF Moneys, Settled
  <2> QED
    BY <2>1, <2>2, <2>3, <2>4
<1>3. /\ fee \in Nat /\ journal[e].at \in Nat
      /\ funding.remaining \in Int /\ funding.accrued \in Int
      /\ funding \in [ready : BOOLEAN, next : Nat, through : Nat, accrued : Int, remaining : Int]
  BY <1>1, <1>2, FeeShare, Moving DEF MoneyRows
<1>4. cost \in Int /\ (q = Held => cost = funding.remaining)
  <2>1. funding.remaining * q \in Int
    BY <1>2, <1>3
  <2>2. Truncated(funding.remaining * q, Held) \in Int
    BY <1>2, <2>1, TruncatedInt
  <2> QED
    BY <1>3, <2>2 DEF FundingShare
<1>5. row \in FillRow
  BY <1>2, <1>3, <1>4 DEF FillRow
<1>6. /\ fills' = Append(fills, row)
      /\ exit'.closed = exit.closed + q /\ exit'.feeUsed = exit.feeUsed + fee
      /\ balance' = [quantity |-> Held - q, fee |-> balance.fee - fee]
      /\ funding' = [funding EXCEPT !.remaining = @ - cost]
      /\ position' = [MovePosition(e) EXCEPT
                        !.status = IF closes THEN "CLOSED" ELSE "OPEN",
                        !.closedAt = IF q = Held THEN journal[e].at ELSE @]
      /\ trades' = IF closes THEN Append(trades, Booked) ELSE trades
      /\ UNCHANGED <<now, journal, published, market, paid>>
  BY DEF FillOrder
<1> HIDE DEF fee, cost
<1>7. /\ funding' \in [ready : BOOLEAN, next : Nat, through : Nat, accrued : Int, remaining : Int]
      /\ funding'.remaining = funding.remaining - cost /\ funding'.accrued = funding.accrued
      /\ funding'.ready = funding.ready /\ funding'.next = funding.next
      /\ funding'.through = funding.through
  BY <1>3, <1>4, <1>6
<1>8. Held' = Held - q /\ Latest' = Latest
  BY <1>6 DEF Held, Latest
<1>9. /\ FilledQuantity' = FilledQuantity + q
      /\ FilledFee' = FilledFee + fee
      /\ FilledFunding' = FilledFunding + cost
      /\ \A b \in Nat : journal[e].at >= b => Exposure(b)' = Exposure(b)
      /\ fills' \in Seq(FillRow)
  <2>1. row.quantity = q /\ row.fee = fee /\ row.funding = cost /\ row.at = journal[e].at
    OBVIOUS
  <2> HIDE DEF row
  <2> QED
    BY <1>1, <1>5, <1>6, <2>1, FillAdds
<1>10. Payments' = Payments /\ KeptPayments' = KeptPayments
  BY <1>6 DEF Payments, Payment, KeptPayments
<1>11. /\ position'.event = e /\ position'.through = MovePosition(e).through
       /\ position'.status = (IF closes THEN "CLOSED" ELSE "OPEN")
       /\ position'.closedAt = (IF q = Held THEN journal[e].at ELSE position.closedAt)
  BY <1>1, <1>2, <1>6, Moving, MovedOn DEF Moneys
<1>12. /\ position'.through <= journal[e].at /\ position.through <= position'.through
       /\ position.through <= journal[e].at
       /\ position.through \in Nat /\ position'.through \in Nat
  BY <1>1, <1>2, <1>11, MovedOn DEF Moneys, Books, Rows
<1>13. ASSUME NEW b \in Boundaries, paid[b].quantity > 0
       PROVE  b \in Nat /\ b <= position.through
  BY <1>2, <1>13, ExitAssumption DEF Moneys, Timeline
<1>14. MoneyRows'
  BY <1>1, <1>6, <1>7, <1>9 DEF MoneyRows
<1>15. Fundings'
  BY <1>6, <1>7, <1>10 DEF Moneys, Fundings
<1>16. Timeline'
  <2>1. Ordered' /\ \A i \in 1..Latest' : journal'[i].at <= now'
    BY <1>6, <1>8 DEF Moneys, Timeline, Ordered
  <2>2. Held' > 0 => position'.closedAt = 0
    BY <1>2, <1>8, <1>11 DEF Moneys, Timeline
  <2>3. ASSUME NEW b \in Boundaries, paid'[b].quantity > 0
        PROVE  b <= position'.through
    BY <1>6, <1>12, <1>13, <2>3
  <2>4. position'.through <= journal'[position'.event].at
    BY <1>6, <1>11, <1>12
  <2> QED
    BY <2>1, <2>2, <2>3, <2>4 DEF Timeline
<1>17. MoneyAllocated'
  <2>1. /\ FilledQuantity \in Int /\ FilledFee \in Int /\ FilledFunding \in Int
        /\ KeptPayments = funding.remaining + FilledFunding
        /\ FilledQuantity = exit.closed /\ FilledFee = exit.feeUsed
    <3>1. FilledFunding \in Int /\ FilledQuantity \in Int /\ FilledFee \in Int
      BY <1>1, FilledType
    <3>2. KeptPayments \in Int
      <4>1. IsFiniteSet(Boundaries)
        <5>1. Boundaries \subseteq 1..MaxTime /\ MaxTime \in Nat
          BY ExitAssumption
        <5>2. IsFiniteSet(1..MaxTime)
          BY <5>1, FS_Interval
        <5> QED
          BY <5>1, <5>2, FS_Subset
      <4>2. \A b \in Boundaries : paid[b].kept \in Int
        BY <1>1 DEF MoneyRows
      <4> QED
        BY <4>1, <4>2, SumType DEF KeptPayments
    <3>3. /\ funding.remaining = KeptPayments - FilledFunding
          /\ FilledQuantity = exit.closed /\ FilledFee = exit.feeUsed
      BY DEF Moneys, CashFlows, MoneyAllocated
    <3> QED
      BY <3>1, <3>2, <3>3
  <2>2. FilledQuantity' = exit'.closed /\ FilledFee' = exit'.feeUsed
    BY <1>6, <1>9, <2>1
  <2>3. funding'.remaining = KeptPayments' - FilledFunding'
    BY <1>3, <1>4, <1>7, <1>9, <1>10, <2>1
  <2>4. Held' = 0 => funding'.remaining = 0
    BY <1>2, <1>3, <1>4, <1>7, <1>8
  <2> QED
    BY <2>2, <2>3, <2>4 DEF MoneyAllocated
<1>18. ChargedAsHeld'
  <2> SUFFICES ASSUME NEW b \in Boundaries, paid'[b].quantity # 0
               PROVE  paid'[b].quantity = Exposure(b)'
    BY DEF ChargedAsHeld
  <2>1. paid[b].quantity \in Nat /\ paid'[b].quantity = paid[b].quantity
    BY <1>1, <1>6 DEF MoneyRows
  <2>2. b \in Nat /\ b <= position.through
    BY <1>13, <2>1
  <2>3. Exposure(b)' = Exposure(b)
    BY <1>3, <1>9, <1>12, <2>2
  <2>4. paid[b].quantity = Exposure(b)
    BY <2>1 DEF Moneys, CashFlows, ChargedAsHeld
  <2> QED
    BY <2>1, <2>3, <2>4
<1>19. TradeCarriesPayments'
  <2>1. funding'.accrued = Payments'
    BY <1>7, <1>10 DEF Moneys, Fundings
  <2>2. trades' = <<>> \/ trades' = <<Booked>>
    BY <1>2, <1>6
  <2>3. CASE trades' = <<>>
    BY <2>3 DEF TradeCarriesPayments
  <2>4. CASE trades' = <<Booked>>
    <3>1. Booked.funding = funding'.accrued
      BY DEF Booked
    <3> HIDE DEF Booked
    <3> QED
      BY <2>1, <2>4, <3>1 DEF TradeCarriesPayments
  <2> QED
    BY <2>2, <2>3, <2>4
<1>20. NothingAwaited'
  <2> SUFFICES ASSUME closes PROVE funding'.next > position'.closedAt
    BY <1>11 DEF NothingAwaited
  <2>1. funding.ready /\ (funding.through >= journal[e].at \/ funding.next > journal[e].at)
    BY DEF Ready
  <2>2. funding.through < funding.next /\ funding.through \in Nat /\ funding.next \in Nat
    BY <1>3, <2>1 DEF Moneys, Fundings
  <2>3. funding.next > journal[e].at
    BY <1>3, <2>1, <2>2
  <2> QED
    BY <1>7, <1>11, <2>3
<1> QED
  BY <1>1, <1>14, <1>15, <1>16, <1>17, <1>18, <1>19, <1>20 DEF Moneys, CashFlows

(* The boundaries are finitely many, and what was held over each is a      *)
(* whole number.                                                           *)
LEMMA BoundaryType ==
  ASSUME MoneyRows
  PROVE  IsFiniteSet(Boundaries) /\ Boundaries \subseteq Nat /\ \A b : Exposure(b) \in Int
<1>1. Boundaries \subseteq 1..MaxTime /\ MaxTime \in Nat /\ Quantity \in Nat
  BY ExitAssumption
<1>2. IsFiniteSet(1..MaxTime)
  BY <1>1, FS_Interval
<1>3. IsFiniteSet(Boundaries) /\ Boundaries \subseteq Nat
  <2>1. Boundaries \subseteq Nat
    BY <1>1
  <2> QED
    BY <1>1, <1>2, <2>1, FS_Subset
<1>4. ASSUME NEW b PROVE Exposure(b) \in Int
  <2> DEFINE f == [i \in DOMAIN fills |-> fills[i].quantity]
             before == {i \in DOMAIN fills : fills[i].at < b}
  <2>1. IsFiniteSet(before) /\ \A i \in before : f[i] \in Int
    BY FilledType, FS_Subset DEF FillRow
  <2>2. Exposure(b) = Quantity - SumFunctionOnSet(f, before)
    BY DEF Exposure
  <2> HIDE DEF f, before
  <2>3. SumFunctionOnSet(f, before) \in Int
    BY <2>1, SumType
  <2> QED
    BY <1>1, <2>2, <2>3
<1> QED
  BY <1>3, <1>4

(* A settlement that is charged costs a whole number, of which a whole     *)
(* number stays with what is still held: nothing if nothing is.            *)
LEMMA DueType ==
  ASSUME MoneyRows, Rows, NEW b \in Due
  PROVE  /\ b \in Boundaries /\ b \in Nat /\ b <= Target /\ paid[b].quantity = 0
         /\ Exposure(b) \in Nat \ {0} /\ Cost(b) \in Int /\ KeptCost(b) \in Int
         /\ Held = 0 => KeptCost(b) = 0
<1>1. b \in Boundaries /\ b <= Target /\ paid[b].quantity = 0 /\ Exposure(b) > 0
  BY DEF Due, MoneyRows
<1>2. b \in Nat /\ Exposure(b) \in Nat \ {0}
  BY <1>1, BoundaryType
<1>3. Rate[b] \in Int /\ Held \in Nat
  BY <1>1, ExitAssumption DEF Rows, Held
<1>4. Cost(b) \in Int
  BY <1>2, <1>3 DEF Cost
<1>5. Cost(b) * Held \in Int /\ (Held = 0 => Cost(b) * Held = 0)
  BY <1>3, <1>4
<1>6. KeptCost(b) \in Int /\ (Held = 0 => KeptCost(b) = 0)
  BY <1>2, <1>5, TruncatedInt DEF KeptCost
<1> QED
  BY <1>1, <1>2, <1>4, <1>6

(* The funding loop charges what is due on what was held then.             *)
LEMMA SynchronizeKeepsMoney ==
  ASSUME Moneys, Next, Synchronize
  PROVE  Moneys'
<1> DEFINE due == Due
           costs == [b \in due |-> Cost(b)]
           kept == [b \in due |-> KeptCost(b)]
           next == IF ExpectedMissing THEN funding.next ELSE market.next
<1>1. Books' /\ Settled' /\ Rows /\ MoneyRows
  BY BooksStep, SettledStep DEF Moneys, Books
<1>2. /\ IsFiniteSet(Boundaries) /\ Boundaries \subseteq Nat /\ \A b : Exposure(b) \in Int
  BY <1>1, BoundaryType
<1>3. \A b \in due : /\ b \in Boundaries /\ b \in Nat /\ b <= Target /\ paid[b].quantity = 0
                     /\ Exposure(b) \in Nat \ {0} /\ Cost(b) \in Int /\ KeptCost(b) \in Int
                     /\ (Held = 0 => KeptCost(b) = 0)
  BY <1>1, DueType
<1>4. /\ position.status = "OPEN" /\ trades = <<>>
      /\ UNCHANGED <<now, journal, published, market, position, balance, exit, order, fills, trades>>
  BY DEF Synchronize, Moneys, Settled
<1>5. /\ paid' = [b \in Boundaries |->
                    IF b \in due THEN [quantity |-> Exposure(b), kept |-> KeptCost(b)] ELSE paid[b]]
      /\ funding' = [ready |-> Covered, next |-> next,
                     through |-> IF Covered THEN Target ELSE funding.through,
                     accrued |-> funding.accrued + SumFunctionOnSet(costs, due),
                     remaining |-> funding.remaining + SumFunctionOnSet(kept, due)]
  BY DEF Synchronize, SumOver
<1>6. /\ funding \in [ready : BOOLEAN, next : Nat, through : Nat, accrued : Int, remaining : Int]
      /\ paid \in [Boundaries -> [quantity : Nat, kept : Int]]
      /\ market \in [observed : Nat, next : Nat, through : Nat, known : SUBSET Boundaries]
      /\ Target \in Nat /\ Held \in Nat
  BY <1>1 DEF MoneyRows, Rows, Target, Held
<1>7. /\ IsFiniteSet(due) /\ due \subseteq Boundaries
      /\ \A b \in due : /\ costs[b] = Cost(b) /\ kept[b] = KeptCost(b)
                        /\ costs[b] \in Int /\ kept[b] \in Int
  <2>1. due \subseteq Boundaries
    BY <1>3
  <2> QED
    BY <1>2, <1>3, <2>1, FS_Subset
<1> HIDE DEF due, costs, kept, next
<1>8. SumFunctionOnSet(costs, due) \in Int /\ SumFunctionOnSet(kept, due) \in Int
  BY <1>7, SumType
<1>9. /\ \A b \in due : paid'[b].quantity = Exposure(b) /\ paid'[b].kept = KeptCost(b)
      /\ \A b \in Boundaries \ due : paid'[b] = paid[b]
  BY <1>5, <1>7
<1>10. paid' \in [Boundaries -> [quantity : Nat, kept : Int]]
  <2>1. ASSUME NEW b \in Boundaries
        PROVE  paid'[b] \in [quantity : Nat, kept : Int]
    <3>1. CASE b \in due
      BY <1>3, <1>5, <3>1
    <3>2. CASE b \notin due
      BY <1>6, <1>9, <3>2
    <3> QED
      BY <3>1, <3>2
  <2>2. paid' = [b \in Boundaries |-> paid'[b]]
    BY <1>5
  <2> QED
    BY <2>1, <2>2
<1>11. Payments' = Payments + SumFunctionOnSet(costs, due)
  <2> DEFINE f == [b \in Boundaries |-> Payment(b)]
             h == [b \in Boundaries |-> Payment(b)']
  <2>1. \A b \in Boundaries : f[b] = Rate[b] * paid[b].quantity
                                /\ h[b] = Rate[b] * paid'[b].quantity
    BY DEF Payment
  <2>2. \A b \in Boundaries : Rate[b] \in Int /\ paid[b].quantity \in Nat
    BY <1>6, ExitAssumption
  <2>3. \A b \in Boundaries : f[b] \in Int
    BY <2>1, <2>2
  <2>4. \A b \in Boundaries \ due : h[b] = f[b]
    BY <1>9, <2>1
  <2>5. \A b \in due : h[b] = f[b] + costs[b]
    <3> SUFFICES ASSUME NEW b \in due PROVE h[b] = f[b] + costs[b]
      OBVIOUS
    <3>1. f[b] = 0
      BY <1>3, <1>7, <2>1, <2>2
    <3>2. h[b] = Cost(b)
      BY <1>7, <1>9, <2>1 DEF Cost
    <3> QED
      BY <1>7, <3>1, <3>2
  <2>6. Payments = SumFunctionOnSet(f, Boundaries) /\ Payments' = SumFunctionOnSet(h, Boundaries)
    BY DEF Payments, Payment
  <2> HIDE DEF f, h
  <2>7. due \in SUBSET Boundaries /\ IsFiniteSet(Boundaries) /\ \A b \in due : costs[b] \in Int
    BY <1>2, <1>7
  <2>8. SumFunctionOnSet(h, Boundaries) = SumFunctionOnSet(f, Boundaries)
                                          + SumFunctionOnSet(costs, due)
    BY <2>3, <2>4, <2>5, <2>7, SumRaised
  <2> QED
    BY <2>6, <2>8
<1>12. KeptPayments' = KeptPayments + SumFunctionOnSet(kept, due) /\ KeptPayments \in Int
  <2> DEFINE f == [b \in Boundaries |-> paid[b].kept]
             h == [b \in Boundaries |-> paid'[b].kept]
  <2>1. \A b \in Boundaries : f[b] \in Int
    BY <1>6
  <2>2. \A b \in Boundaries \ due : h[b] = f[b]
    BY <1>9
  <2>3. \A b \in due : h[b] = f[b] + kept[b]
    <3> SUFFICES ASSUME NEW b \in due PROVE h[b] = f[b] + kept[b]
      OBVIOUS
    <3>1. f[b] = 0
      BY <1>3, <1>7 DEF Moneys, Fundings
    <3>2. h[b] = kept[b]
      BY <1>7, <1>9
    <3> QED
      BY <1>7, <3>1, <3>2
  <2>4. /\ KeptPayments = SumFunctionOnSet(f, Boundaries)
        /\ KeptPayments' = SumFunctionOnSet(h, Boundaries)
    BY DEF KeptPayments
  <2> HIDE DEF f, h
  <2>5. SumFunctionOnSet(h, Boundaries) = SumFunctionOnSet(f, Boundaries)
                                          + SumFunctionOnSet(kept, due)
    <3>1. due \in SUBSET Boundaries /\ IsFiniteSet(Boundaries) /\ \A b \in due : kept[b] \in Int
      BY <1>2, <1>7
    <3> QED
      BY <2>1, <2>2, <2>3, <3>1, SumRaised
  <2> QED
    BY <1>2, <2>1, <2>4, <2>5, SumType
<1>13. Held = 0 => SumFunctionOnSet(kept, due) = 0
  <2> SUFFICES ASSUME Held = 0 PROVE SumFunctionOnSet(kept, due) = 0
    OBVIOUS
  <2>1. \A b \in due \ {} : kept[b] = 0
    BY <1>3, <1>7
  <2>2. SumFunctionOnSet(kept, due) = SumFunctionOnSet(kept, {})
    BY <1>7, <2>1, SumOfPart
  <2> QED
    BY <2>2, SumEmpty
<1>14. /\ funding'.ready = Covered /\ funding'.next = next
       /\ funding'.through = (IF Covered THEN Target ELSE funding.through)
       /\ funding'.accrued = funding.accrued + SumFunctionOnSet(costs, due)
       /\ funding'.remaining = funding.remaining + SumFunctionOnSet(kept, due)
  BY <1>5
<1>15. funding' \in [ready : BOOLEAN, next : Nat, through : Nat, accrued : Int, remaining : Int]
  <2>1. Covered \in BOOLEAN
    BY DEF Covered
  <2>2. next \in Nat
    BY <1>6 DEF next
  <2> HIDE DEF Covered
  <2> QED
    BY <1>5, <1>6, <1>8, <2>1, <2>2
<1>16. MoneyRows'
  BY <1>1, <1>4, <1>10, <1>15 DEF MoneyRows
<1>17. Fundings'
  <2>1. funding'.ready => funding'.through < funding'.next
    <3> SUFFICES ASSUME Covered PROVE funding'.through < funding'.next
      BY <1>14
    <3>1. funding'.through = Target /\ funding'.next = market.next
      BY <1>14 DEF Covered, next
    <3>2. (market.through >= Target \/ market.next > Target) /\ market.through < market.next
            /\ market.through \in Nat /\ market.next \in Nat
      BY <1>6 DEF Covered, Moneys, Fundings
    <3> QED
      BY <1>6, <3>1, <3>2
  <2>2. funding'.accrued = Payments'
    BY <1>11, <1>14 DEF Moneys, Fundings
  <2>3. \A b \in Boundaries : paid'[b].quantity = 0 => paid'[b].kept = 0
    <3> SUFFICES ASSUME NEW b \in Boundaries, paid'[b].quantity = 0 PROVE paid'[b].kept = 0
      OBVIOUS
    <3>1. b \notin due
      BY <1>3, <1>9
    <3> QED
      BY <1>9, <3>1 DEF Moneys, Fundings
  <2>4. market'.through < market'.next
    BY <1>4 DEF Moneys, Fundings
  <2> QED
    BY <2>1, <2>2, <2>3, <2>4 DEF Fundings
<1>18. Timeline'
  <2>1. Latest' = Latest /\ Held' = Held
    BY <1>4 DEF Latest, Held
  <2>2. Ordered' /\ \A i \in 1..Latest' : journal'[i].at <= now'
    BY <1>4, <2>1 DEF Moneys, Timeline, Ordered
  <2>3. ASSUME Held > 0, NEW b \in Boundaries, paid'[b].quantity > 0
        PROVE  b <= position.through
    <3>1. CASE b \in due
      <4>1. position.closedAt = 0
        BY <2>3 DEF Moneys, Timeline
      <4>2. Target = position.through
        BY <4>1 DEF Target
      <4> QED
        BY <1>3, <3>1, <4>2
    <3>2. CASE b \notin due
      BY <1>9, <2>3, <3>2 DEF Moneys, Timeline
    <3> QED
      BY <3>1, <3>2
  <2> QED
    BY <1>4, <2>1, <2>2, <2>3 DEF Moneys, Timeline
<1>19. MoneyAllocated'
  <2>1. /\ FilledQuantity' = FilledQuantity /\ FilledFee' = FilledFee
        /\ FilledFunding' = FilledFunding /\ Held' = Held
    BY <1>4 DEF FilledQuantity, FilledFee, FilledFunding, Filled, Held
  <2>2. /\ FilledQuantity = exit.closed /\ FilledFee = exit.feeUsed
        /\ funding.remaining = KeptPayments - FilledFunding
        /\ Held = 0 => funding.remaining = 0
    BY DEF Moneys, CashFlows, MoneyAllocated
  <2>3. FilledFunding \in Int
    BY <1>1, FilledType
  <2>4. funding'.remaining = KeptPayments' - FilledFunding'
    BY <1>8, <1>12, <1>14, <2>1, <2>2, <2>3
  <2>5. Held' = 0 => funding'.remaining = 0
    BY <1>13, <1>14, <2>1, <2>2
  <2> QED
    BY <1>4, <2>1, <2>2, <2>4, <2>5 DEF MoneyAllocated
<1>20. ChargedAsHeld'
  <2> SUFFICES ASSUME NEW b \in Boundaries PROVE paid'[b].quantity \in {0, Exposure(b)'}
    BY DEF ChargedAsHeld
  <2>1. Exposure(b)' = Exposure(b)
    BY <1>4 DEF Exposure
  <2>2. paid[b].quantity \in {0, Exposure(b)}
    BY DEF Moneys, CashFlows, ChargedAsHeld
  <2> QED
    BY <1>9, <2>1, <2>2
<1>21. TradeCarriesPayments' /\ NothingAwaited'
  BY <1>4 DEF TradeCarriesPayments, NothingAwaited
<1> QED
  BY <1>1, <1>16, <1>17, <1>18, <1>19, <1>20, <1>21 DEF Moneys, CashFlows

(* The finalize step books what the position accrued.                      *)
LEMMA FinalizeKeepsMoney ==
  ASSUME Moneys, Next, Finalize
  PROVE  Moneys'
<1>1. Books' /\ Settled' /\ Rows /\ MoneyRows
  BY BooksStep, SettledStep DEF Moneys, Books
<1>2. /\ position.status = "OPEN" /\ trades = <<>>
      /\ position' = [position EXCEPT !.status = "CLOSED"]
      /\ exit' = [exit EXCEPT !.waiting = "none"]
      /\ trades' = Append(trades, [quantity |-> exit.closed, fee |-> exit.feeUsed,
                                   funding |-> funding.accrued])
      /\ UNCHANGED <<now, journal, published, market, balance, order, funding, paid, fills>>
  BY DEF Finalize, Moneys, Settled
<1>3. /\ position'.event = position.event /\ position'.through = position.through
      /\ position'.closedAt = position.closedAt
      /\ exit'.closed = exit.closed /\ exit'.feeUsed = exit.feeUsed
  BY <1>1, <1>2 DEF Rows
<1>4. /\ UNCHANGED <<FilledQuantity, FilledFee, FilledFunding, Payments, KeptPayments>>
      /\ \A b : Exposure(b)' = Exposure(b)
  BY <1>2, SumsSame
<1>5. MoneyRows'
  BY <1>1, <1>2 DEF MoneyRows
<1>6. Fundings'
  BY <1>2, <1>4 DEF Moneys, Fundings
<1>7. Timeline'
  <2>1. Latest' = Latest /\ Held' = Held
    BY <1>2 DEF Latest, Held
  <2> QED
    BY <1>2, <1>3, <2>1 DEF Moneys, Timeline, Ordered
<1>8. MoneyAllocated'
  BY <1>2, <1>3, <1>4 DEF Moneys, CashFlows, MoneyAllocated, Held
<1>9. ChargedAsHeld'
  BY <1>2, <1>4 DEF Moneys, CashFlows, ChargedAsHeld
<1>10. TradeCarriesPayments'
  <2> DEFINE trade == [quantity |-> exit.closed, fee |-> exit.feeUsed, funding |-> funding.accrued]
  <2>1. trades' = <<trade>> /\ trade.funding = funding.accrued
    BY <1>2
  <2>2. trade.funding = Payments'
    BY <1>4, <2>1 DEF Moneys, Fundings
  <2> HIDE DEF trade
  <2> QED
    BY <2>1, <2>2 DEF TradeCarriesPayments
<1>11. NothingAwaited'
  <2>1. funding.ready /\ (funding.through >= position.closedAt \/ funding.next > position.closedAt)
    BY DEF Finalize, Ready
  <2>2. /\ funding.through < funding.next /\ funding.through \in Nat /\ funding.next \in Nat
        /\ position.closedAt \in Nat
    BY <1>1, <2>1 DEF Moneys, Fundings, MoneyRows, Rows
  <2>3. funding.next > position.closedAt
    BY <2>1, <2>2
  <2> QED
    BY <1>2, <1>3, <2>3 DEF NothingAwaited
<1> QED
  BY <1>1, <1>5, <1>6, <1>7, <1>8, <1>9, <1>10, <1>11 DEF Moneys, CashFlows

(* Initially nothing is booked and nothing is charged.                     *)
LEMMA MoneysInit == Init => Moneys
<1> SUFFICES ASSUME Init PROVE Moneys
  OBVIOUS
<1>1. Books /\ Settled
  BY BooksInit DEF Init, Settled
<1>2. /\ now = 0 /\ fills = <<>> /\ trades = <<>> /\ position.status = "OPEN"
      /\ position.through = 0 /\ position.closedAt = 0 /\ position.event = 1
      /\ journal = <<[at |-> 0, stream |-> 0]>> /\ published = {}
      /\ exit.closed = 0 /\ exit.feeUsed = 0 /\ Held = Quantity
  BY DEF Init, Held
<1>3. paid = [b \in Boundaries |-> [quantity |-> 0, kept |-> 0]]
  BY DEF Init
<1>4. 0 \in 0..MaxTime /\ Quantity \in Nat \ {0}
  BY ExitAssumption
<1>5. NextBoundary(0) \in Nat /\ NextBoundary(0) > 0
  BY <1>4, BoundaryAhead
<1>6. /\ market = [observed |-> 0, next |-> NextBoundary(0), through |-> 0, known |-> {}]
      /\ funding = [ready |-> TRUE, next |-> NextBoundary(0), through |-> 0,
                    accrued |-> 0, remaining |-> 0]
  BY DEF Init
<1>7. MoneyRows
  <2>1. market \in [observed : Nat, next : Nat, through : Nat, known : SUBSET Boundaries]
    BY <1>5, <1>6
  <2>2. funding \in [ready : BOOLEAN, next : Nat, through : Nat, accrued : Int, remaining : Int]
    BY <1>5, <1>6
  <2>3. paid \in [Boundaries -> [quantity : Nat, kept : Int]]
    BY <1>3
  <2>4. fills \in Seq(FillRow)
    BY <1>2
  <2> QED
    BY <1>2, <1>4, <2>1, <2>2, <2>3, <2>4 DEF MoneyRows
<1>8. DOMAIN fills = {}
  BY <1>2
<1>9. FilledQuantity = 0 /\ FilledFee = 0 /\ FilledFunding = 0
  BY <1>8, SumEmpty DEF FilledQuantity, FilledFee, FilledFunding, Filled
<1>10. IsFiniteSet(Boundaries)
  BY <1>7, BoundaryType
<1>11. Payments = 0
  <2> DEFINE f == [b \in Boundaries |-> Payment(b)]
  <2>1. ASSUME NEW b \in Boundaries
        PROVE  f[b] = 0
    <3>1. Rate[b] \in Int /\ paid[b].quantity = 0
      BY <1>3, ExitAssumption
    <3> QED
      BY <3>1 DEF Payment
  <2>2. Payments = SumFunctionOnSet(f, Boundaries)
    BY DEF Payments
  <2> HIDE DEF f
  <2>3. (\A b \in Boundaries : f[b] \in Int) /\ \A b \in Boundaries \ {} : f[b] = 0
    BY <2>1
  <2>4. SumFunctionOnSet(f, Boundaries) = SumFunctionOnSet(f, {})
    BY <1>10, <2>3, SumOfPart
  <2> QED
    BY <2>2, <2>4, SumEmpty
<1>12. KeptPayments = 0
  <2> DEFINE f == [b \in Boundaries |-> paid[b].kept]
  <2>1. \A b \in Boundaries : f[b] = 0
    BY <1>3
  <2>2. KeptPayments = SumFunctionOnSet(f, Boundaries)
    BY DEF KeptPayments
  <2> HIDE DEF f
  <2>3. (\A b \in Boundaries : f[b] \in Int) /\ \A b \in Boundaries \ {} : f[b] = 0
    BY <2>1
  <2>4. SumFunctionOnSet(f, Boundaries) = SumFunctionOnSet(f, {})
    BY <1>10, <2>3, SumOfPart
  <2> QED
    BY <2>2, <2>4, SumEmpty
<1>13. Timeline
  <2>1. Latest = 1 /\ journal[1].at = 0
    BY <1>2 DEF Latest
  <2>2. \A b \in Boundaries : paid[b].quantity = 0
    BY <1>3
  <2> QED
    BY <1>2, <2>1, <2>2 DEF Timeline, Ordered
<1>14. Fundings
  <2>1. \A b \in Boundaries : paid[b].kept = 0
    BY <1>3
  <2> QED
    BY <1>5, <1>6, <1>11, <2>1 DEF Fundings
<1>15. MoneyAllocated
  <2>1. funding.remaining = 0
    BY <1>6
  <2> QED
    BY <1>2, <1>9, <1>12, <2>1 DEF MoneyAllocated
<1>16. ChargedAsHeld /\ TradeCarriesPayments /\ NothingAwaited
  BY <1>2, <1>3 DEF ChargedAsHeld, TradeCarriesPayments, NothingAwaited
<1> QED
  BY <1>1, <1>7, <1>13, <1>14, <1>15, <1>16 DEF Moneys, CashFlows

(* Every step keeps the money.                                             *)
LEMMA MoneysStep == Moneys /\ [Next]_vars => Moneys'
<1> SUFFICES ASSUME Moneys, [Next]_vars PROVE Moneys'
  OBVIOUS
<1>1. ASSUME UNCHANGED vars PROVE Moneys'
  <2>1. UNCHANGED <<now, journal, published, market, position, balance, exit, order, funding, paid,
                    fills, trades>>
    BY <1>1 DEF vars
  <2>2. Books' /\ Settled'
    BY <1>1, BooksStep, SettledStep DEF Moneys
  <2>3. MoneyRows'
    BY <2>1 DEF Moneys, MoneyRows
  <2>4. Fundings'
    BY <2>1, SumsSame DEF Moneys, Fundings
  <2>5. Timeline'
    BY <2>1 DEF Moneys, Timeline, Ordered, Latest, Held
  <2>6. NothingAwaited'
    BY <2>1 DEF Moneys, CashFlows, NothingAwaited
  <2>7. CashFlows'
    BY <2>1, <2>6, MoneySame DEF Moneys
  <2> QED
    BY <2>2, <2>3, <2>4, <2>5, <2>7 DEF Moneys
<1>2. ASSUME Next, NEW e \in 1..MaxEvent, NEW q \in 1..Quantity, FillOrder(e, q)
      PROVE  Moneys'
  BY <1>2, FillKeepsMoney
<1>3. ASSUME Next PROVE Moneys'
  BY <1>2, <1>3, MoversKeepMoney, WorldKeepsMoney, SynchronizeKeepsMoney, FinalizeKeepsMoney
     DEF Next, AdvanceExit
<1> QED
  BY <1>1, <1>3

(* The cash flows of fills, settlements and trade are one account, for     *)
(* every quantity, fee, rate, schedule, term and scan limit, whatever the  *)
(* order of fills, settlements and refreshes (applyLiquidityExitFill,      *)
(* synchronizePosition, completeLiquidityExit).                            *)
THEOREM CashFlowsAgree == Spec => []CashFlows
<1>1. Moneys => CashFlows
  BY DEF Moneys
<1> QED
  BY <1>1, MoneysInit, MoneysStep, PTL DEF Spec

-----------------------------------------------------------------------------
(* The replay.  While it accepts, it has rebuilt the rows: every variable  *)
(* of it, from the records alone.                                          *)
Sales == [i \in DOMAIN fills |-> [at |-> fills[i].at, quantity |-> fills[i].quantity]]
Rebuilt == [verdict |-> "accepted", cursor |-> position.event, exit |-> exit, order |-> order,
            funding |-> funding, paid |-> paid, exits |-> Sales]
Replayed == replay = Rebuilt \/ replay.verdict = "scan"

(* A position that is sold was closed by its last fill.                    *)
LastSale == Held = 0 => Len(fills) > 0 /\ position.closedAt = fills[Len(fills)].at

(* Every step of the replayed exit is a step of the exit.                  *)
LEMMA ReplayedSteps == [ReplayNext]_allVars => [Next]_vars
<1>1. World => Next
  BY DEF World, Next
<1>2. Managed => Next
  BY DEF Managed, Next
<1>3. LookAtLatest => UNCHANGED vars
  BY DEF LookAtLatest
<1>4. Scan => Next
  <2> SUFFICES ASSUME Scan PROVE AdvanceExit
    BY DEF Next
  <2>1. WaitOrExpire \/ \E e \in 1..MaxEvent : CancelOrder(e) \/ \E q \in 1..Quantity : FillOrder(e, q)
    BY DEF Scan
  <2> QED
    BY <2>1 DEF AdvanceExit
<1>5. Place => Next
  BY DEF Place, Next, AdvanceExit
<1>6. FinalizeRecorded => Next
  BY DEF FinalizeRecorded, Next, AdvanceExit
<1>7. Charge => Next
  BY DEF Charge, Next
<1>8. UNCHANGED allVars => UNCHANGED vars
  BY DEF allVars
<1> QED
  BY <1>1, <1>2, <1>3, <1>4, <1>5, <1>6, <1>7, <1>8 DEF ReplayNext

(* The balances of the rebuilt state are those of the rows.                *)
LEMMA Balances ==
  ASSUME Moneys, replay = Rebuilt
  PROVE  /\ Unsold = Held /\ FeeLeft = balance.fee
         /\ Held \in Nat /\ balance.fee \in Nat /\ exit.closed \in Nat /\ exit.feeUsed \in Nat
<1>1. /\ Held \in Nat /\ balance.fee \in Nat /\ exit.closed \in Nat /\ exit.feeUsed \in Nat
      /\ Quantity \in Nat /\ EntryFee \in Nat
  BY ExitAssumption DEF Moneys, Books, Rows, Held
<1>2. exit.closed + Held = Quantity /\ exit.feeUsed + balance.fee = EntryFee
  BY DEF Moneys, Books, BalancesAgree
<1>3. Unsold = Quantity - exit.closed /\ FeeLeft = EntryFee - exit.feeUsed
  BY DEF Unsold, FeeLeft, Rebuilt
<1> QED
  BY <1>1, <1>2, <1>3

(* The events between the position's and the one that ends the scan left   *)
(* the order waiting.                                                      *)
LEMMA NoneSkipped ==
  ASSUME Books, NEW last \in 1..Latest,
         \A d \in Scanned : d < last => MayWait(d),
         last \in Scanned \/ last = position.event
  PROVE  \A d \in position.event + 1 .. last - 1 : ~MustCancel(d)
<1> SUFFICES ASSUME NEW d \in position.event + 1 .. last - 1 PROVE ~MustCancel(d)
  OBVIOUS
<1>1. /\ position.event \in Nat /\ last \in Nat /\ d \in Nat /\ Latest \in Nat /\ MaxEvent \in Nat
      /\ ScanLimit \in Nat /\ Latest <= MaxEvent /\ d < last /\ position.event < d /\ 1 <= d
      /\ last <= Latest
  BY ExitAssumption DEF Books, Rows
<1>2. last <= position.event + ScanLimit
  BY <1>1 DEF Scanned
<1>3. d \in Scanned
  BY <1>1, <1>2 DEF Scanned
<1> QED
  BY <1>1, <1>3 DEF MayWait

(* A step that fills nothing: the record says what the rows say.           *)
LEMMA StepRecorded ==
  ASSUME Moneys, replay = Rebuilt, NEW latest, RecordStep(latest),
         UNCHANGED <<fills, trades, funding, paid>>,
         Working => \A d \in position.event + 1 .. position'.event - 1 : ~MustCancel(d)
  PROVE  Replayed'
<1>1. StepAgrees
  BY DEF StepAgrees, Filling, Rebuilt
<1>2. TradeAgrees(AfterStep)
  BY DEF TradeAgrees
<1>3. AfterStep = Rebuilt'
  <2>1. funding \in [ready : BOOLEAN, next : Nat, through : Nat, accrued : Int, remaining : Int]
    BY DEF Moneys, MoneyRows
  <2>2. [funding EXCEPT !.remaining = @ - 0] = funding
    BY <2>1
  <2>3. AfterStep = [verdict |-> "accepted", cursor |-> position'.event, exit |-> exit',
                     order |-> order', funding |-> [funding EXCEPT !.remaining = @ - 0],
                     paid |-> paid, exits |-> Sales]
    <3>1. ~Filling
      BY DEF Filling
    <3>2. AfterStep = [replay EXCEPT !.cursor = position'.event, !.exit = exit', !.order = order',
                         !.funding.remaining = @ - 0, !.exits = @]
      BY <3>1 DEF AfterStep
    <3> QED
      BY <3>2 DEF Rebuilt
  <2>4. Sales' = Sales
    BY DEF Sales
  <2> QED
    BY <2>2, <2>3, <2>4 DEF Rebuilt
<1>4. replay' = AfterStep \/ replay' = [replay EXCEPT !.verdict = "scan"]
  <2>1. replay.verdict = "accepted"
    BY DEF Rebuilt
  <2> QED
    BY <1>1, <1>2, <2>1 DEF RecordStep, Continue
<1>5. [replay EXCEPT !.verdict = "scan"].verdict = "scan"
  BY DEF Rebuilt
<1> QED
  BY <1>3, <1>4, <1>5 DEF Replayed

(* A position that moves to an event of its scan, or to the latest one.    *)
LEMMA MovesRecorded ==
  ASSUME Moneys, replay = Rebuilt, NEW latest, RecordStep(latest),
         SubmitOrder \/ BlockOrder \/ WaitOrExpire \/ \E e \in 1..MaxEvent : CancelOrder(e)
  PROVE  Replayed'
<1>1. UNCHANGED <<fills, trades, funding, paid>>
  BY DEF SubmitOrder, BlockOrder, WaitOrExpire, CancelOrder
<1>2. CASE SubmitOrder \/ BlockOrder
  BY <1>1, <1>2, StepRecorded DEF SubmitOrder, BlockOrder
<1>3. CASE WaitOrExpire
  <2> DEFINE last == IF Scanned = {} THEN Latest ELSE Max(Scanned)
  <2>1. position' = MovePosition(last) /\ \A e \in Scanned : MayWait(e)
    BY <1>3 DEF WaitOrExpire
  <2>2. last \in 1..Latest /\ (last \in Scanned \/ last = position.event)
    BY ScanEnd DEF Moneys, Books, Rows, Scanned
  <2> HIDE DEF last
  <2>3. position'.event = last
    BY <2>1, <2>2, Moving DEF Moneys, Books
  <2> QED
    BY <1>1, <2>1, <2>2, <2>3, NoneSkipped, StepRecorded DEF Moneys
<1>4. ASSUME NEW e \in 1..MaxEvent, CancelOrder(e)
      PROVE  Replayed'
  <2>1. position' = MovePosition(e) /\ e \in Scanned /\ WaitedUntil(e)
    BY <1>4 DEF CancelOrder
  <2>2. e \in 1..Latest
    BY <2>1 DEF Scanned, Moneys, Books, Rows
  <2>3. position'.event = e
    BY <2>1, <2>2, Moving DEF Moneys, Books
  <2> QED
    BY <1>1, <2>1, <2>2, <2>3, NoneSkipped, StepRecorded DEF Moneys, WaitedUntil
<1> QED
  BY <1>2, <1>3, <1>4

(* What a fill appends.                                                    *)
LEMMA SaleAppended ==
  ASSUME MoneyRows, NEW row \in FillRow, fills' = Append(fills, row)
  PROVE  /\ Sales' = Append(Sales, [at |-> row.at, quantity |-> row.quantity])
         /\ fills' # fills /\ Len(fills') = Len(fills) + 1 /\ fills'[Len(fills')] = row
<1> DEFINE n == Len(fills)
           sale == [at |-> row.at, quantity |-> row.quantity]
           Sale == [at : Nat, quantity : Nat]
<1>1. fills \in Seq(FillRow) /\ n \in Nat /\ DOMAIN fills = 1..n
      /\ \A i \in 1..n : fills[i] \in FillRow
  BY FilledType DEF MoneyRows
<1>2. fills' \in Seq(FillRow) /\ Len(fills') = n + 1 /\ DOMAIN fills' = 1..n + 1
      /\ fills'[n + 1] = row /\ \A i \in 1..n : fills'[i] = fills[i]
  BY <1>1
<1>3. Sales = [i \in 1..n |-> [at |-> fills[i].at, quantity |-> fills[i].quantity]]
      /\ \A i \in 1..n : Sales[i] = [at |-> fills[i].at, quantity |-> fills[i].quantity]
  BY <1>1 DEF Sales
<1>4. Sales' = [i \in 1..n + 1 |-> [at |-> fills'[i].at, quantity |-> fills'[i].quantity]]
      /\ \A i \in 1..n + 1 : Sales'[i] = [at |-> fills'[i].at, quantity |-> fills'[i].quantity]
  BY <1>2 DEF Sales
<1>n. n = Len(fills) /\ n + 1 # n
  <2>1. n \in Nat
    BY <1>1
  <2>2. n = Len(fills)
    OBVIOUS
  <2> HIDE DEF n
  <2> QED
    BY <2>1, <2>2
<1>5. sale \in Sale /\ \A i \in 1..n : [at |-> fills[i].at, quantity |-> fills[i].quantity] \in Sale
  BY <1>1 DEF FillRow
<1> HIDE DEF n, Sale
<1>6. Sales \in Seq(Sale) /\ Len(Sales) = n
  BY <1>1, <1>3, <1>5
<1>7. \A i \in 1..n + 1 : Sales'[i] = IF i = n + 1 THEN sale ELSE Sales[i]
  BY <1>1, <1>2, <1>3, <1>4
<1>8. Sales' \in Seq(Sale) /\ Len(Sales') = n + 1
  <2>1. \A i \in 1..n + 1 : Sales'[i] \in Sale
    <3>1. \A i \in 1..n : Sales[i] \in Sale
      BY <1>3, <1>5
    <3> HIDE DEF sale
    <3> QED
      BY <1>1, <1>5, <1>7, <3>1
  <2> QED
    BY <1>1, <1>4, <2>1
<1>9. /\ Append(Sales, sale) \in Seq(Sale) /\ Len(Append(Sales, sale)) = n + 1
      /\ \A i \in 1..n + 1 : Append(Sales, sale)[i] = IF i = n + 1 THEN sale ELSE Sales[i]
  <2> HIDE DEF sale
  <2> QED
    BY <1>1, <1>5, <1>6
<1>10. Sales' = Append(Sales, sale)
  BY <1>1, <1>7, <1>8, <1>9, SeqEqual
<1>11. Len(fills') = Len(fills) + 1 /\ fills'[Len(fills')] = row /\ Len(fills') # Len(fills)
  BY <1>2, <1>n
<1> QED
  BY <1>10, <1>11

(* The sum of the columns of a part of the fills is no more than all.      *)
LEMMA NoneOversold ==
  ASSUME Moneys, NEW b
  PROVE  Exposure(b) \in Nat
<1> DEFINE D == DOMAIN fills
           f == [i \in D |-> fills[i].quantity]
           before == {i \in D : fills[i].at < b}
           part == [i \in D |-> IF i \in before THEN f[i] ELSE 0]
           rest == [i \in D |-> IF i \in before THEN 0 ELSE f[i]]
<1>1. IsFiniteSet(D) /\ before \in SUBSET D /\ IsFiniteSet(before)
  BY FilledType, FS_Subset DEF Moneys
<1>2. \A i \in D : f[i] \in Nat
  BY FilledType DEF Moneys, FillRow
<1>3. Exposure(b) = Quantity - SumFunctionOnSet(f, before)
  BY DEF Exposure
<1>4. FilledQuantity = SumFunctionOnSet(f, D)
  BY DEF FilledQuantity, Filled
<1>5. FilledQuantity <= Quantity /\ FilledQuantity \in Int /\ Quantity \in Nat
  <2>1. FilledQuantity = exit.closed /\ exit.closed + Held = Quantity
    BY DEF Moneys, CashFlows, MoneyAllocated, Books, BalancesAgree
  <2>2. exit.closed \in Nat /\ Held \in Nat /\ Quantity \in Nat
    BY ExitAssumption DEF Moneys, Books, Rows, Held
  <2> QED
    BY <2>1, <2>2
<1> HIDE DEF D, before, f
<1>6. \A i \in D : /\ part[i] \in Int /\ rest[i] \in Int /\ f[i] \in Int /\ f[i] = part[i] + rest[i]
                  /\ rest[i] \in Nat
  BY <1>2
<1>7. (\A i \in D \ before : part[i] = 0) /\ \A i \in before : part[i] = f[i]
  BY <1>1
<1> HIDE DEF part, rest
<1>8. SumFunctionOnSet(f, D) = SumFunctionOnSet(part, D) + SumFunctionOnSet(rest, D)
  BY <1>1, <1>6, SumsAdd
<1>9. SumFunctionOnSet(rest, D) \in Nat
  BY <1>1, <1>6, SumNat
<1>10. SumFunctionOnSet(part, D) = SumFunctionOnSet(part, before)
  BY <1>1, <1>6, <1>7, SumOfPart
<1>11. SumFunctionOnSet(part, before) = SumFunctionOnSet(f, before)
  BY <1>1, <1>7, SumAlike
<1>12. SumFunctionOnSet(f, before) \in Int
  <2>1. \A i \in before : f[i] \in Int
    BY <1>1, <1>6
  <2> QED
    BY <1>1, <2>1, SumType
<1> DEFINE all == SumFunctionOnSet(f, D)
           some == SumFunctionOnSet(f, before)
           others == SumFunctionOnSet(rest, D)
<1>13. all = some + others /\ others \in Nat /\ some \in Int /\ all <= Quantity /\ Quantity \in Nat
  BY <1>4, <1>5, <1>8, <1>9, <1>10, <1>11, <1>12
<1>14. Exposure(b) = Quantity - some
  BY <1>3
<1> HIDE DEF all, some, others
<1> QED
  BY <1>13, <1>14

(* A fill follows from the rebuilt balances, and so does a trade it books. *)
LEMMA FillRecorded ==
  ASSUME Moneys, Next, replay = Rebuilt, NEW latest, RecordStep(latest),
         NEW e \in 1..MaxEvent, NEW q \in 1..Quantity, FillOrder(e, q)
  PROVE  Replayed'
<1> DEFINE fee == EntryFeeShare(q)
           cost == FundingShare(q)
           closes == q = Held /\ Ready(journal[e].at)
           row == [at |-> journal[e].at, quantity |-> q, fee |-> fee, funding |-> cost]
<1>1. /\ Books /\ MoneyRows /\ Books'
      /\ funding \in [ready : BOOLEAN, next : Nat, through : Nat, accrued : Int, remaining : Int]
  BY BooksStep DEF Moneys, MoneyRows
<1>2. /\ e \in 1..Latest /\ q \in Nat \ {0} /\ q <= Held /\ Held \in Nat \ {0}
      /\ e \in Scanned /\ WaitedUntil(e)
  <2>1. /\ order.quantity \in Nat /\ Held \in Nat /\ order.quantity <= Held
        /\ position.event \in Nat /\ Quantity \in Nat
    BY <1>1, ExitAssumption DEF Books, Rows, Backed, Order, Held
  <2>2. q <= order.quantity /\ e \in Scanned /\ WaitedUntil(e)
    BY DEF FillOrder
  <2>3. e \in 1..Latest
    BY <2>1, <2>2 DEF Scanned
  <2> QED
    BY <2>1, <2>2, <2>3
<1>3. fee \in Nat /\ journal[e].at \in Nat /\ funding.remaining \in Int
  BY <1>1, <1>2, FeeShare, Moving DEF Books
<1>4. cost \in Int
  <2>1. funding.remaining * q \in Int
    BY <1>2, <1>3
  <2>2. Truncated(funding.remaining * q, Held) \in Int
    BY <1>2, <2>1, TruncatedInt
  <2> QED
    BY <1>3, <2>2 DEF FundingShare
<1>5. row \in FillRow
  BY <1>2, <1>3, <1>4 DEF FillRow
<1>6. /\ fills' = Append(fills, row)
      /\ exit'.closed = exit.closed + q /\ exit'.feeUsed = exit.feeUsed + fee
      /\ funding' = [funding EXCEPT !.remaining = @ - cost]
      /\ position'.event = MovePosition(e).event
      /\ trades' = IF closes THEN Append(trades, Booked) ELSE trades
      /\ UNCHANGED paid
  <2>1. position' = [MovePosition(e) EXCEPT !.status = IF closes THEN "CLOSED" ELSE "OPEN",
                                            !.closedAt = IF q = Held THEN journal[e].at ELSE @]
    BY DEF FillOrder
  <2>2. position'.event = MovePosition(e).event
    BY <1>1, <1>2, <2>1, Moving DEF Books
  <2> QED
    BY <2>2 DEF FillOrder
<1>7. position'.event = e
  BY <1>1, <1>2, <1>6, Moving DEF Books
<1>8. Working => \A d \in position.event + 1 .. position'.event - 1 : ~MustCancel(d)
  BY <1>1, <1>2, <1>7, NoneSkipped DEF WaitedUntil
<1>9. row.quantity = q /\ row.fee = fee /\ row.funding = cost /\ row.at = journal[e].at
  OBVIOUS
<1>10. /\ Sales' = Append(Sales, [at |-> row.at, quantity |-> row.quantity])
       /\ fills' # fills /\ NewFill = row
  <2> HIDE DEF row
  <2> QED
    BY <1>1, <1>5, <1>6, SaleAppended DEF NewFill
<1>11. /\ Unsold = Held /\ FeeLeft = balance.fee
       /\ replay.exit = exit /\ replay.order = order /\ replay.funding = funding
       /\ replay.cursor = position.event /\ replay.verdict = "accepted"
  BY Balances DEF Rebuilt
<1>12. ReplayedFee(q) = fee /\ ReplayedShare(q) = cost
  BY <1>11 DEF ReplayedFee, ReplayedShare, EntryFeeShare, FundingShare
<1> HIDE DEF fee, cost, row
<1>13. StepAgrees
  BY <1>2, <1>6, <1>8, <1>9, <1>10, <1>11, <1>12 DEF StepAgrees
<1>14. AfterStep = Rebuilt'
  <2>1. AfterStep = [replay EXCEPT !.cursor = position'.event, !.exit = exit', !.order = order',
                       !.funding.remaining = @ - cost,
                       !.exits = Append(@, [at |-> row.at, quantity |-> row.quantity])]
    BY <1>9, <1>10 DEF AfterStep, Filling
  <2> QED
    BY <1>6, <1>10, <2>1 DEF Rebuilt
<1>15. TradeAgrees(AfterStep)
  <2> SUFFICES ASSUME trades' # trades
               PROVE  LET trade == trades'[Len(trades')] IN
                        /\ AfterStep.exit.closed = Quantity /\ trade.quantity = Quantity
                        /\ trade.fee = AfterStep.exit.feeUsed
                        /\ trade.funding = AfterStep.funding.accrued
    BY DEF TradeAgrees
  <2>1. closes /\ trades' = Append(trades, Booked)
    BY <1>6
  <2>2. trades'[Len(trades')] = Booked
    <3>1. trades = <<>>
      BY DEF Moneys, Settled, FillOrder, Exiting
    <3> QED
      BY <2>1, <3>1
  <2>3. exit'.closed = Quantity
    <3>1. balance'.quantity = Held - q
      BY DEF FillOrder
    <3>2. Held' = 0
      BY <1>2, <2>1, <3>1 DEF Held
    <3>3. exit'.closed \in Nat /\ Quantity \in Nat /\ exit'.closed + Held' = Quantity
      BY <1>1, ExitAssumption DEF Books, Rows, BalancesAgree
    <3> QED
      BY <3>2, <3>3
  <2>4. AfterStep.exit = exit' /\ AfterStep.funding = funding'
    BY <1>14 DEF Rebuilt
  <2> QED
    BY <2>2, <2>3, <2>4 DEF Booked
<1>16. replay' = AfterStep \/ replay' = [replay EXCEPT !.verdict = "scan"]
  BY <1>11, <1>13, <1>15 DEF RecordStep, Continue
<1>17. [replay EXCEPT !.verdict = "scan"].verdict = "scan"
  BY DEF Rebuilt
<1> QED
  BY <1>14, <1>16, <1>17 DEF Replayed
(* A finalization finds everything sold, and the trade of it.              *)
LEMMA FinalizeAgreed ==
  ASSUME Moneys, LastSale, replay = Rebuilt, FinalizeRecorded
  PROVE  Replayed'
<1>1. /\ exit.intent /\ position.status = "OPEN" /\ Held = 0 /\ Ready(position.closedAt)
      /\ position' = [position EXCEPT !.status = "CLOSED"]
      /\ exit' = [exit EXCEPT !.waiting = "none"]
      /\ trades' = Append(trades, [quantity |-> exit.closed, fee |-> exit.feeUsed,
                                   funding |-> funding.accrued])
      /\ UNCHANGED <<order, funding, paid, fills>>
  BY DEF FinalizeRecorded, Finalize
<1>2. /\ Unsold = Held
      /\ replay.exit = exit /\ replay.order = order /\ replay.funding = funding
      /\ replay.cursor = position.event /\ replay.verdict = "accepted" /\ replay.exits = Sales
  BY Balances DEF Rebuilt
<1>3. position.closedAt = Sales[Len(Sales)].at
  <2> DEFINE n == Len(fills)
  <2>1. n \in Nat \ {0} /\ DOMAIN fills = 1..n /\ position.closedAt = fills[n].at
    BY <1>1, FilledType DEF LastSale, Moneys
  <2>2. Sales = [i \in 1..n |-> [at |-> fills[i].at, quantity |-> fills[i].quantity]]
    BY <2>1 DEF Sales
  <2>3. \A i \in 1..n : fills[i].at \in Nat /\ fills[i].quantity \in Nat
    BY <2>1, FilledType DEF Moneys, FillRow
  <2> HIDE DEF n
  <2>4. Sales \in Seq([at : Nat, quantity : Nat]) /\ Len(Sales) = n
    BY <2>1, <2>2, <2>3
  <2> QED
    BY <2>1, <2>2, <2>4
<1>4. FinalizeAgrees
  BY <1>1, <1>2, <1>3 DEF FinalizeAgrees, Ready
<1>5. AfterFinalize = Rebuilt'
  <2>1. position'.event = position.event
    BY <1>1 DEF Moneys, Books, Rows
  <2>2. Sales' = Sales
    BY <1>1 DEF Sales
  <2> QED
    BY <1>1, <2>1, <2>2 DEF AfterFinalize, Rebuilt
<1>6. TradeAgrees(AfterFinalize)
  <2>1. trades = <<>>
    BY <1>1 DEF Moneys, Settled
  <2>2. trades'[Len(trades')] = [quantity |-> exit.closed, fee |-> exit.feeUsed,
                                 funding |-> funding.accrued]
    BY <1>1, <2>1
  <2>3. exit.closed = Quantity
    BY <1>1, AllAllocated DEF Moneys
  <2>4. exit'.closed = exit.closed /\ exit'.feeUsed = exit.feeUsed
    BY <1>1 DEF Moneys, Books, Rows
  <2>5. AfterFinalize.exit = exit' /\ AfterFinalize.funding = funding
    BY <1>1, <1>5 DEF Rebuilt
  <2> QED
    BY <2>2, <2>3, <2>4, <2>5 DEF TradeAgrees
<1>7. replay' = AfterFinalize
  <2>1. Continue(TRUE, FinalizeAgrees /\ TradeAgrees(AfterFinalize), AfterFinalize)
    BY DEF FinalizeRecorded
  <2> QED
    BY <1>2, <1>4, <1>6, <2>1 DEF Continue
<1> QED
  BY <1>5, <1>7 DEF Replayed

(* What was held over a boundary is rebuilt from the sales.                *)
LEMMA ExposureRebuilt ==
  ASSUME replay = Rebuilt, NEW b
  PROVE  ReplayedExposure(b) = Exposure(b)
<1>1. replay.exits = Sales /\ DOMAIN Sales = DOMAIN fills
      /\ \A i \in DOMAIN fills : Sales[i].at = fills[i].at /\ Sales[i].quantity = fills[i].quantity
  BY DEF Rebuilt, Sales
<1>2. [i \in DOMAIN replay.exits |-> replay.exits[i].quantity]
        = [i \in DOMAIN fills |-> fills[i].quantity]
  BY <1>1
<1>3. {i \in DOMAIN replay.exits : replay.exits[i].at < b} = {i \in DOMAIN fills : fills[i].at < b}
  BY <1>1
<1> QED
  BY <1>2, <1>3 DEF ReplayedExposure, Exposure

(* A refreshed market charges what the replay finds uncharged, and is ready*)
(* for the reason the record gives.                                        *)
LEMMA SynchronizeAgreed ==
  ASSUME Moneys, replay = Rebuilt, Synchronize
  PROVE  FundingAgrees(market.known)
<1> DEFINE due == Due
           next == IF ExpectedMissing THEN funding.next ELSE market.next
<1>1. /\ replay.exit = exit /\ replay.funding = funding /\ replay.paid = paid
      /\ replay.cursor = position.event /\ replay.exits = Sales
  BY DEF Rebuilt
<1>2. /\ Unsold = Held /\ Held \in Nat
      /\ \A b : ReplayedExposure(b) = Exposure(b) /\ Exposure(b) \in Nat
  BY Balances, ExposureRebuilt, NoneOversold
<1>3. /\ paid' = [b \in Boundaries |->
                    IF b \in due THEN [quantity |-> Exposure(b), kept |-> KeptCost(b)] ELSE paid[b]]
      /\ funding' = [ready |-> Covered, next |-> next,
                     through |-> IF Covered THEN Target ELSE funding.through,
                     accrued |-> funding.accrued + SumOver(due, [b \in due |-> Cost(b)]),
                     remaining |-> funding.remaining + SumOver(due, [b \in due |-> KeptCost(b)])]
      /\ now - market.observed <= MarketAge
  BY DEF Synchronize
<1>4. \A b \in due : b \in Boundaries /\ paid[b].quantity = 0 /\ Exposure(b) # 0
  BY DueType DEF Moneys, Books
<1>5. NewPayments = due
  <2> HIDE DEF due
  <2>1. ASSUME NEW b \in due PROVE paid'[b] # paid[b] /\ b \in Boundaries
    <3>1. paid'[b].quantity = Exposure(b)
      BY <1>3, <1>4
    <3> QED
      BY <1>4, <3>1
  <2>2. ASSUME NEW b \in Boundaries, b \notin due PROVE paid'[b] = paid[b]
    BY <1>3, <2>2
  <2> QED
    BY <2>1, <2>2 DEF NewPayments
<1>6. Uncharged(market.known) = due
  <2>1. \A b : (Exposure(b) > 0) <=> (ReplayedExposure(b) # 0)
    BY <1>2
  <2> QED
    BY <1>1, <2>1 DEF Uncharged, Due
<1>7. ASSUME NEW b \in due PROVE PaymentAgrees(b) /\ paid'[b].kept = KeptCost(b)
  <2>1. paid'[b] = [quantity |-> Exposure(b), kept |-> KeptCost(b)]
    <3> HIDE DEF due
    <3> QED
      BY <1>3, <1>4
  <2>2. KeptCost(b) = Truncated(Rate[b] * ReplayedExposure(b) * Unsold, ReplayedExposure(b))
    BY <1>2 DEF KeptCost, Cost
  <2> QED
    BY <1>2, <2>1, <2>2 DEF PaymentAgrees
<1>8. [b \in NewPayments |-> paid'[b].kept] = [b \in due |-> KeptCost(b)]
  <2> HIDE DEF due
  <2> QED
    BY <1>5, <1>7
<1>9. [b \in NewPayments |-> Cost(b)] = [b \in due |-> Cost(b)]
  <2> HIDE DEF due
  <2> QED
    BY <1>5
<1> HIDE DEF due
<1>10. Covered => Confirmed(market.known)
  <2> SUFFICES ASSUME Covered PROVE Confirmed(market.known)
    OBVIOUS
  <2>1. ~ExpectedMissing /\ (market.through >= Target \/ market.next > Target)
    BY DEF Covered
  <2>2. funding'.through = Target /\ funding'.next = market.next
    BY <1>3, <2>1
  <2>3. funding.next <= Target => Exposure(funding.next) = 0 \/ funding.next \in market.known
    BY <2>1 DEF ExpectedMissing
  <2> QED
    BY <1>1, <1>2, <1>3, <2>1, <2>2, <2>3 DEF Confirmed
<1>11. /\ funding'.accrued = funding.accrued + SumOver(NewPayments, [b \in NewPayments |-> Cost(b)])
       /\ funding'.remaining
            = funding.remaining + SumOver(NewPayments, [b \in NewPayments |-> paid'[b].kept])
       /\ funding'.ready = Covered
  BY <1>3, <1>5, <1>8, <1>9
<1> QED
  BY <1>1, <1>5, <1>6, <1>7, <1>10, <1>11 DEF FundingAgrees, Sales

(* A failed refresh charges nothing and waits.                             *)
LEMMA PendingAgreed ==
  ASSUME Moneys, replay = Rebuilt, MarkPending
  PROVE  FundingAgrees({})
<1>1. /\ replay.exit = exit /\ replay.funding = funding /\ replay.paid = paid
      /\ replay.cursor = position.event /\ replay.exits = Sales
  BY DEF Rebuilt
<1>2. /\ funding \in [ready : BOOLEAN, next : Nat, through : Nat, accrued : Int, remaining : Int]
      /\ funding' = [funding EXCEPT !.ready = FALSE] /\ paid' = paid
  BY DEF Moneys, MoneyRows, MarkPending
<1>3. NewPayments = {} /\ Uncharged({}) = {}
  BY <1>2 DEF NewPayments, Uncharged
<1>4. /\ SumOver(NewPayments, [b \in NewPayments |-> Cost(b)]) = 0
      /\ SumOver(NewPayments, [b \in NewPayments |-> paid'[b].kept]) = 0
  <2> DEFINE f == [b \in NewPayments |-> Cost(b)]
             g == [b \in NewPayments |-> paid'[b].kept]
  <2>1. SumOver(NewPayments, f) = SumFunctionOnSet(f, {})
    BY <1>3 DEF SumOver
  <2>2. SumOver(NewPayments, g) = SumFunctionOnSet(g, {})
    BY <1>3 DEF SumOver
  <2> HIDE DEF f, g
  <2>3. SumOver(NewPayments, f) = 0 /\ SumOver(NewPayments, g) = 0
    BY <2>1, <2>2, SumEmpty
  <2> QED
    BY <2>3 DEF f, g
<1>5. /\ funding'.accrued = funding.accrued + 0 /\ funding'.remaining = funding.remaining + 0
      /\ ~funding'.ready
  BY <1>2
<1> QED
  BY <1>1, <1>3, <1>4, <1>5 DEF FundingAgrees, Sales

(* A funding record is accepted.                                           *)
LEMMA ChargeAgreed ==
  ASSUME Moneys, replay = Rebuilt, Charge
  PROVE  Replayed'
<1>1. UNCHANGED <<position, exit, order, fills>>
  BY DEF Charge, Synchronize, MarkPending
<1>2. replay' = AfterFunding
  <2>1. replay.verdict = "accepted"
    BY DEF Rebuilt
  <2>2. CASE Synchronize /\ RecordFunding(market.known)
    BY <2>1, <2>2, SynchronizeAgreed DEF RecordFunding, Continue
  <2>3. CASE MarkPending /\ RecordFunding({})
    BY <2>1, <2>3, PendingAgreed DEF RecordFunding, Continue
  <2> QED
    BY <2>2, <2>3 DEF Charge
<1>3. AfterFunding = Rebuilt'
  <2>1. Sales' = Sales
    BY <1>1 DEF Sales
  <2>2. AfterFunding = [verdict |-> "accepted", cursor |-> position.event, exit |-> exit,
                        order |-> order, funding |-> funding', paid |-> paid', exits |-> Sales]
    <3>1. AfterFunding = [replay EXCEPT !.funding = funding', !.paid = paid']
      BY DEF AfterFunding
    <3> QED
      BY <3>1 DEF Rebuilt
  <2>3. position' = position /\ exit' = exit /\ order' = order
    BY <1>1
  <2> QED
    BY <2>1, <2>2, <2>3 DEF Rebuilt
<1> QED
  BY <1>2, <1>3 DEF Replayed
(* Before the exit the replay follows the position.                        *)
LEMMA ManagedAgreed ==
  ASSUME replay = Rebuilt, Managed
  PROVE  Replayed'
<1>1. UNCHANGED <<order, funding, paid, fills>>
  BY DEF Managed, Checkpoint, RequestExit
<1>2. replay' = [replay EXCEPT !.cursor = position'.event, !.exit = exit']
  <2>1. replay.verdict = "accepted"
    BY DEF Rebuilt
  <2>2. Continue(TRUE, TRUE, [replay EXCEPT !.cursor = position'.event, !.exit = exit'])
    BY DEF Managed
  <2> QED
    BY <2>1, <2>2 DEF Continue
<1>3. Sales' = Sales
  BY <1>1 DEF Sales
<1>4. replay' = [verdict |-> "accepted", cursor |-> position'.event, exit |-> exit',
                 order |-> order, funding |-> funding, paid |-> paid, exits |-> Sales]
  BY <1>2 DEF Rebuilt
<1>5. replay' = Rebuilt'
  <2>1. order' = order /\ funding' = funding /\ paid' = paid
    BY <1>1
  <2> QED
    BY <1>3, <1>4, <2>1 DEF Rebuilt
<1> QED
  BY <1>5 DEF Replayed

(* Every step keeps what is replayed the same as what is stored.           *)
LEMMA ReplayedStep == Moneys /\ LastSale /\ Replayed /\ [ReplayNext]_allVars => Replayed'
<1> SUFFICES ASSUME Moneys, LastSale, Replayed, [ReplayNext]_allVars PROVE Replayed'
  OBVIOUS
<1>1. ASSUME UNCHANGED replay, UNCHANGED <<position, exit, order, funding, paid, fills>>
      PROVE  Replayed'
  <2>1. Sales' = Sales
    BY <1>1 DEF Sales
  <2>2. Rebuilt' = Rebuilt
    BY <1>1, <2>1 DEF Rebuilt
  <2> QED
    BY <1>1, <2>2 DEF Replayed
<1>2. CASE UNCHANGED allVars
  BY <1>1, <1>2 DEF allVars, vars, replayVars
<1>3. CASE World /\ UNCHANGED replay
  BY <1>1, <1>3 DEF World, Tick, RefreshMarket, Publish, ReceiveEvent
<1>4. CASE LookAtLatest
  BY <1>1, <1>4 DEF LookAtLatest, vars
<1>5. ASSUME Managed \/ Scan \/ Place \/ FinalizeRecorded \/ Charge, replay.verdict = "scan"
      PROVE  Replayed'
  <2>1. replay.verdict # "accepted"
    BY <1>5
  <2>2. Managed => replay' = replay
    BY <2>1 DEF Managed, Continue
  <2>3. Scan \/ Place => replay' = replay
    BY <2>1 DEF Scan, Place, RecordStep, Continue
  <2>4. FinalizeRecorded => replay' = replay
    BY <2>1 DEF FinalizeRecorded, Continue
  <2>5. Charge => replay' = replay
    BY <2>1 DEF Charge, RecordFunding, Continue
  <2>6. replay' = replay
    BY <1>5, <2>2, <2>3, <2>4, <2>5
  <2> QED
    BY <1>5, <2>6 DEF Replayed
<1>6. ASSUME replay = Rebuilt, Scan \/ Place
      PROVE  Replayed'
  <2>1. PICK latest : RecordStep(latest)
    BY <1>6 DEF Scan, Place
  <2>2. CASE SubmitOrder \/ BlockOrder \/ WaitOrExpire \/ \E e \in 1..MaxEvent : CancelOrder(e)
    BY <1>6, <2>1, <2>2, MovesRecorded
  <2>3. ASSUME NEW e \in 1..MaxEvent, NEW q \in 1..Quantity, FillOrder(e, q)
        PROVE  Replayed'
    <3>1. Next
      BY <2>3 DEF Next, AdvanceExit
    <3> QED
      BY <1>6, <2>1, <2>3, <3>1, FillRecorded
  <2> QED
    BY <1>6, <2>2, <2>3 DEF Scan, Place
<1> QED
  BY <1>2, <1>3, <1>4, <1>5, <1>6, ManagedAgreed, FinalizeAgreed, ChargeAgreed
     DEF ReplayNext, Replayed

(* The last fill closes what it leaves empty; nothing else empties it.     *)
LEMMA LastSaleStep == Moneys /\ LastSale /\ [Next]_vars => LastSale'
<1> SUFFICES ASSUME Moneys, LastSale, [Next]_vars PROVE LastSale'
  OBVIOUS
<1>1. ASSUME UNCHANGED <<balance, fills>>, position'.closedAt = position.closedAt
      PROVE  LastSale'
  BY <1>1 DEF LastSale, Held
<1>2. CASE UNCHANGED vars
  BY <1>1, <1>2 DEF vars
<1>3. ASSUME NEW e \in 1..MaxEvent, NEW q \in 1..Quantity, FillOrder(e, q)
      PROVE  LastSale'
  <2> DEFINE at == journal[e].at
             row == [at |-> at, quantity |-> q, fee |-> EntryFeeShare(q), funding |-> FundingShare(q)]
  <2>1. /\ fills' = Append(fills, row) /\ balance'.quantity = Held - q
        /\ position' = [MovePosition(e) EXCEPT
                          !.status = IF q = Held /\ Ready(at) THEN "CLOSED" ELSE "OPEN",
                          !.closedAt = IF q = Held THEN at ELSE @]
    BY <1>3 DEF FillOrder
  <2>2. row.at = at
    OBVIOUS
  <2> HIDE DEF row
  <2>3. fills \in Seq(FillRow) /\ Len(fills) \in Nat
    BY FilledType DEF Moneys, MoneyRows
  <2>4. Len(fills') = Len(fills) + 1 /\ fills'[Len(fills) + 1] = row
    BY <2>1, <2>3
  <2>5. Held \in Nat /\ q \in Nat
    BY ExitAssumption DEF Moneys, Books, Rows, Held
  <2>6. Held' = 0 => q = Held
    BY <2>1, <2>5 DEF Held
  <2>7. e \in 1..Latest
    BY <1>3 DEF FillOrder, Scanned, Moneys, Books, Rows
  <2>8. q = Held => position'.closedAt = at
    BY <2>1, <2>7, Moving DEF Moneys, Books
  <2> QED
    BY <2>2, <2>3, <2>4, <2>6, <2>8 DEF LastSale
<1>4. CASE Finalize
  BY <1>1, <1>4 DEF Finalize, Moneys, Books, Rows
<1>5. ASSUME NEW e, Checkpoint(e) \/ RequestExit(e) \/ CancelOrder(e)
      PROVE  LastSale'
  BY <1>1, <1>5 DEF Checkpoint, RequestExit, CancelOrder, MovePosition, Moneys, Books, Rows
<1>6. CASE SubmitOrder \/ BlockOrder \/ WaitOrExpire
  BY <1>1, <1>6 DEF SubmitOrder, BlockOrder, WaitOrExpire, MovePosition, Moneys, Books, Rows
<1>7. ASSUME NEW x, Tick \/ ReceiveEvent(x) \/ Publish(x) \/ RefreshMarket \/ Synchronize
                    \/ MarkPending
      PROVE  LastSale'
  BY <1>1, <1>7 DEF Tick, ReceiveEvent, Publish, RefreshMarket, Synchronize, MarkPending
<1> QED
  BY <1>2, <1>3, <1>4, <1>5, <1>6, <1>7 DEF Next, AdvanceExit

(* The replay starts from the rows of the opened position.                 *)
LEMMA ReplayedInit == ReplayInit => Moneys /\ LastSale /\ Replayed
<1> SUFFICES ASSUME ReplayInit PROVE Moneys /\ LastSale /\ Replayed
  OBVIOUS
<1>1. Init
  BY DEF ReplayInit
<1>2. Sales = <<>>
  BY <1>1 DEF Init, Sales
<1>3. replay = Rebuilt
  BY <1>1, <1>2 DEF Init, ReplayInit, Rebuilt
<1>4. Held = Quantity /\ Quantity # 0
  BY <1>1, ExitAssumption DEF Init, Held
<1> QED
  BY <1>1, <1>3, <1>4, MoneysInit DEF LastSale, Replayed

(* Whatever partial fills, late settlements, failed refreshes and scans a  *)
(* trace records, its replay never refuses a step but for what the record  *)
(* says of its scan, and rebuilds state, balances, funding and settlements *)
(* of the rows (replayLiquidityRuntimeTrace, verifyFundingRecord).         *)
THEOREM ReplaysAgree == ReplaySpec => []ReplayAgrees
<1> DEFINE Whole == Moneys /\ LastSale /\ Replayed
<1>1. ReplayInit => Whole
  BY ReplayedInit
<1>2. Whole /\ [ReplayNext]_allVars => Whole'
  <2> SUFFICES ASSUME Whole, [ReplayNext]_allVars PROVE Whole'
    OBVIOUS
  <2>1. [Next]_vars
    BY ReplayedSteps
  <2> QED
    BY <2>1, MoneysStep, LastSaleStep, ReplayedStep
<1>3. Whole => ReplayAgrees
  BY DEF Replayed, Rebuilt, ReplayAgrees
<1> QED
  BY <1>1, <1>2, <1>3, PTL DEF ReplaySpec
=============================================================================
