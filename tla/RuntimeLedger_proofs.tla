------------------------ MODULE RuntimeLedger_proofs ------------------------
(***************************************************************************)
(* Theorems about RuntimeLedger for every number of runs, symbols, candles,*)
(* events, worker loops and command keys.                                  *)
(***************************************************************************)
EXTENDS RuntimeLedger, FiniteSetTheorems, TLAPS

(* What a loop loaded is a snapshot of the kind its lane field names.      *)
LEMMA SnapKind ==
  ASSUME TypeOK, NEW w \in Lanes
  PROVE  /\ snap[w].lane = "cycle" => snap[w] \in CycleSnap
         /\ snap[w].lane = "entry" => snap[w] \in EntrySnap
         /\ snap[w].lane = "position" => snap[w] \in PositionSnap
  BY DEF TypeOK, Idle, CycleSnap, EntrySnap, PositionSnap

(* Every event after a cursor is a journal position.                       *)
LEMMA EventsAfterNat ==
  ASSUME TypeOK, NEW s \in Symbols, NEW e, NEW i \in EventsAfter(s, e)
  PROVE  i \in Nat /\ e < i /\ i <= Len(journal[s])
  BY DEF EventsAfter

(* A counter per signal that did not change or gained one stays a counter. *)
LEMMA CountBumped ==
  ASSUME NEW f \in [Signals -> Nat], NEW g, NEW k \in Signals,
         g = f \/ g = [f EXCEPT ![k] = @ + 1]
  PROVE  g \in [Signals -> Nat]
  OBVIOUS

(* A table with one row replaced, or not, keeps the type of its rows.      *)
LEMMA RowReplaced ==
  ASSUME NEW S, NEW T, NEW f \in [S -> T], NEW g, NEW k \in S, NEW row \in T,
         g = f \/ g = [f EXCEPT ![k] = row]
  PROVE  g \in [S -> T]
  OBVIOUS

(* Cancelling an order that may be open leaves a well-typed order.         *)
LEMMA CancelIfOpenType ==
  ASSUME NEW o \in Order
  PROVE  CancelIfOpen(o) \in Order
  BY DEF CancelIfOpen, OrderRow, Order

(* The rows and snapshots keep their types.                                *)
THEOREM Typing == Spec => []TypeOK
<1>1. Init => TypeOK
  BY DEF Init, TypeOK, DeploymentStatus, RunStatus, Cursor, PendingState, Order, Position,
         CursorAt, OrderRow, PositionRow, NoOrder, NoPosition, NoReceipt
<1>2. TypeOK /\ [Next]_vars => TypeOK'
  <2> SUFFICES ASSUME TypeOK, [Next]_vars PROVE TypeOK'
    OBVIOUS
  <2>1. ASSUME NEW r \in Runs, Start(r) PROVE TypeOK'
    BY <2>1 DEF Start, TypeOK, DeploymentStatus, RunStatus
  <2>2. CASE Pause
    BY <2>2 DEF Pause, TypeOK, DeploymentStatus
  <2>3. CASE Resume
    BY <2>3 DEF Resume, TypeOK, DeploymentStatus
  <2>4. ASSUME NEW r \in Runs, Stop(r) PROVE TypeOK'
    BY <2>4 DEF Stop, TypeOK, DeploymentStatus, RunStatus
  <2>5. ASSUME NEW s \in Symbols, NEW reconnected \in BOOLEAN, ReceiveEvent(s, reconnected)
        PROVE  TypeOK'
    BY <2>5 DEF ReceiveEvent, TypeOK
  <2>6. ASSUME NEW r \in Runs, NEW s \in Symbols, NEW c \in Candles, Expire(r, s, c)
        PROVE  TypeOK'
    BY <2>6 DEF Expire, TypeOK, Signals
  <2>7. ASSUME NEW w \in CycleLanes, NEW r \in Runs, NEW s \in Symbols, LoadCycle(w, r, s)
        PROVE  TypeOK'
    BY <2>7 DEF LoadCycle, Managed, TypeOK, CycleSnap, Lanes, Cursor, DeploymentStatus
  <2>8. ASSUME NEW w \in CycleLanes, NEW c \in Candles, NEW detected \in BOOLEAN,
               PersistCycle(w, c, detected)
        PROVE  TypeOK'
    <3>1. w \in Lanes
      BY DEF Lanes
    <3>2. snap[w] \in CycleSnap
      BY <2>8, <3>1, SnapKind DEF PersistCycle
    <3> DEFINE r == snap[w].run
               s == snap[w].symbol
    <3>3. r \in Runs /\ s \in Symbols /\ <<r, s>> \in Runs \X Symbols /\ <<r, s, c>> \in Signals
      BY <3>2 DEF CycleSnap, Signals
    <3>4. order' \in [Signals -> Order] /\ ended' \in [Signals -> Nat]
      <4> DEFINE k == <<r, s, cursor[<<r, s>>].evaluated>>
      <4>1. CASE cursor[<<r, s>>].pending = "NONE"
        BY <2>8, <4>1 DEF PersistCycle, FinishPrevious, TypeOK
      <4>2. CASE cursor[<<r, s>>].pending # "NONE"
        <5>1. k \in Signals
          BY <3>3, <4>2 DEF TypeOK, Signals
        <5>2. CancelIfOpen(order[k]) \in Order
          BY <5>1, CancelIfOpenType DEF TypeOK
        <5>3. order' = [order EXCEPT ![k] = CancelIfOpen(order[k])]
              /\ ended' = [ended EXCEPT ![k] = @ + 1]
          BY <2>8, <4>2 DEF PersistCycle, FinishPrevious
        <5> QED
          BY <5>1, <5>2, <5>3, CountBumped DEF TypeOK
      <4> QED
        BY <4>1, <4>2
    <3>5. /\ cursor' \in [Runs \X Symbols -> Cursor]
          /\ \A l \in Runs \X Symbols : cursor'[l].pending # "NONE" => cursor'[l].evaluated \in Candles
      BY <2>8, <3>3 DEF PersistCycle, CursorAt, TypeOK, Cursor, PendingState, Candles
    <3>6. observed' \subseteq Signals
      BY <2>8, <3>3 DEF PersistCycle, TypeOK
    <3> QED
      BY <2>8, <3>1, <3>4, <3>5, <3>6 DEF PersistCycle, TypeOK
  <2>9. ASSUME NEW w \in EntryLanes, NEW r \in Runs, NEW s \in Symbols, LoadEntry(w, r, s)
        PROVE  TypeOK'
    <3>1. cursor[<<r, s>>].evaluated \in Candles
      BY <2>9 DEF LoadEntry, TypeOK
    <3> QED
      BY <2>9, <3>1 DEF LoadEntry, TypeOK, EntrySnap, Lanes, Cursor
  <2>10. ASSUME NEW w \in EntryLanes, NEW e \in 0..MaxEvent, NEW crosses \in BOOLEAN,
                SubmitEntryOrder(w, e, crosses)
         PROVE  TypeOK'
    <3>1. w \in Lanes
      BY DEF Lanes
    <3>2. snap[w] \in EntrySnap
      BY <2>10, <3>1, SnapKind DEF SubmitEntryOrder
    <3> DEFINE r == snap[w].run
               s == snap[w].symbol
               c == snap[w].candle
    <3>3. /\ r \in Runs /\ s \in Symbols /\ c \in Candles
          /\ <<r, s>> \in Runs \X Symbols /\ <<r, s, c>> \in Signals /\ e \in Nat
      BY <3>2 DEF EntrySnap, Signals
    <3>4. order' \in [Signals -> Order] /\ ended' \in [Signals -> Nat]
      <4> DEFINE row == OrderRow(IF crosses THEN "CANCELLED" ELSE "OPEN", e, 0)
      <4>1. row \in Order
        BY <3>3 DEF OrderRow, Order
      <4>2. /\ order' = [order EXCEPT ![<<r, s, c>>] = row]
            /\ \/ ended' = ended
               \/ ended' = [ended EXCEPT ![<<r, s, c>>] = @ + 1]
        BY <2>10 DEF SubmitEntryOrder
      <4> HIDE DEF row
      <4>3. order' \in [Signals -> Order]
        BY <3>3, <4>1, <4>2 DEF TypeOK
      <4>4. ended' \in [Signals -> Nat]
        BY <3>3, <4>2, CountBumped DEF TypeOK
      <4> QED
        BY <4>3, <4>4
    <3>5. /\ cursor' \in [Runs \X Symbols -> Cursor]
          /\ \A l \in Runs \X Symbols : cursor'[l].pending # "NONE" => cursor'[l].evaluated \in Candles
      <4> DEFINE row == CursorAt(c, IF crosses THEN "NONE" ELSE "ORDERED", e)
      <4>1. row \in Cursor /\ row.evaluated \in Candles
        BY <3>3 DEF CursorAt, Cursor, PendingState, Candles
      <4>2. cursor' = [cursor EXCEPT ![<<r, s>>] = row]
        BY <2>10 DEF SubmitEntryOrder
      <4> HIDE DEF row
      <4> QED
        BY <3>3, <4>1, <4>2 DEF TypeOK
    <3> QED
      BY <2>10, <3>1, <3>4, <3>5 DEF SubmitEntryOrder, TypeOK
  <2>11. ASSUME NEW w \in EntryLanes, NEW e \in 0..MaxEvent, NEW crossed \in BOOLEAN,
                FillEntry(w, e, crossed)
         PROVE  TypeOK'
    <3>1. w \in Lanes
      BY DEF Lanes
    <3>2. snap[w] \in EntrySnap
      BY <2>11, <3>1, SnapKind DEF FillEntry
    <3> DEFINE r == snap[w].run
               s == snap[w].symbol
               c == snap[w].candle
    <3>3. /\ r \in Runs /\ s \in Symbols /\ c \in Candles
          /\ <<r, s>> \in Runs \X Symbols /\ <<r, s, c>> \in Signals /\ e \in Nat
      BY <3>2 DEF EntrySnap, Signals
    <3>4. order' \in [Signals -> Order] /\ ended' \in [Signals -> Nat]
      <4> DEFINE row == OrderRow("FILLED", order[<<r, s, c>>].submit, e)
      <4>1. row \in Order
        BY <3>3 DEF OrderRow, Order, TypeOK
      <4>2. /\ order' = [order EXCEPT ![<<r, s, c>>] = row]
            /\ ended' = [ended EXCEPT ![<<r, s, c>>] = @ + 1]
        BY <2>11 DEF FillEntry
      <4> HIDE DEF row
      <4>3. order' \in [Signals -> Order]
        BY <3>3, <4>1, <4>2 DEF TypeOK
      <4>4. ended' \in [Signals -> Nat]
        BY <3>3, <4>2, CountBumped DEF TypeOK
      <4> QED
        BY <4>3, <4>4
    <3>5. /\ cursor' \in [Runs \X Symbols -> Cursor]
          /\ \A l \in Runs \X Symbols : cursor'[l].pending # "NONE" => cursor'[l].evaluated \in Candles
      <4> DEFINE row == CursorAt(c, "NONE", e)
      <4>1. row \in Cursor /\ row.evaluated \in Candles
        BY <3>3 DEF CursorAt, Cursor, PendingState, Candles
      <4>2. cursor' = [cursor EXCEPT ![<<r, s>>] = row]
        BY <2>11 DEF FillEntry
      <4> HIDE DEF row
      <4> QED
        BY <3>3, <4>1, <4>2 DEF TypeOK
    <3>6. position' \in [Signals -> Position] /\ trades' \in [Signals -> Nat]
      <4> DEFINE row == FilledPosition(r, e, crossed)
      <4>1. row \in Position
        <5>1. CASE crossed /\ r \in LiquidityRuns
          BY <3>3, <5>1 DEF FilledPosition, PositionRow, Position
        <5>2. CASE ~(crossed /\ r \in LiquidityRuns)
          BY <3>3, <5>2 DEF FilledPosition, PositionRow, Position
        <5> QED
          BY <5>1, <5>2
      <4>2. position' = [position EXCEPT ![<<r, s, c>>] = row]
            /\ \/ trades' = trades
               \/ trades' = [trades EXCEPT ![<<r, s, c>>] = @ + 1]
        BY <2>11 DEF FillEntry
      <4> HIDE DEF row
      <4>3. position' \in [Signals -> Position]
        BY <3>3, <4>1, <4>2 DEF TypeOK
      <4>4. trades' \in [Signals -> Nat]
        BY <3>3, <4>2, CountBumped DEF TypeOK
      <4> QED
        BY <4>3, <4>4
    <3> QED
      BY <2>11, <3>1, <3>4, <3>5, <3>6 DEF FillEntry, TypeOK
  <2>12. ASSUME NEW w \in EntryLanes, NEW e \in 0..MaxEvent, NEW rejected \in BOOLEAN,
                AdvancePendingEntry(w, e, rejected)
         PROVE  TypeOK'
    <3>1. w \in Lanes
      BY DEF Lanes
    <3>2. snap[w] \in EntrySnap
      BY <2>12, <3>1, SnapKind DEF AdvancePendingEntry
    <3> DEFINE r == snap[w].run
               s == snap[w].symbol
               c == snap[w].candle
    <3>3. /\ r \in Runs /\ s \in Symbols /\ c \in Candles
          /\ <<r, s>> \in Runs \X Symbols /\ <<r, s, c>> \in Signals /\ e \in Nat
      BY <3>2 DEF EntrySnap, Signals
    <3>4. order' \in [Signals -> Order] /\ ended' \in [Signals -> Nat]
      <4>1. CancelIfOpen(order[<<r, s, c>>]) \in Order
        BY <3>3, CancelIfOpenType DEF TypeOK
      <4>2. \/ UNCHANGED <<order, ended>>
            \/ /\ order' = [order EXCEPT ![<<r, s, c>>] = CancelIfOpen(order[<<r, s, c>>])]
               /\ ended' = [ended EXCEPT ![<<r, s, c>>] = @ + 1]
        BY <2>12 DEF AdvancePendingEntry
      <4>3. order' \in [Signals -> Order]
        <5>1. order \in [Signals -> Order]
          BY DEF TypeOK
        <5> QED
          BY <3>3, <4>1, <4>2, <5>1, RowReplaced
      <4>4. ended' \in [Signals -> Nat]
        BY <3>3, <4>2, CountBumped DEF TypeOK
      <4> QED
        BY <4>3, <4>4
    <3>5. /\ cursor' \in [Runs \X Symbols -> Cursor]
          /\ \A l \in Runs \X Symbols : cursor'[l].pending # "NONE" => cursor'[l].evaluated \in Candles
      <4> DEFINE over == EntryOver(<<r, s, c>>, rejected, e, snap[w].event)
                 row == CursorAt(c, IF over THEN "NONE" ELSE cursor[<<r, s>>].pending, e)
      <4>1. cursor[<<r, s>>].pending \in PendingState
        BY <3>3 DEF TypeOK, Cursor
      <4>2. row \in Cursor /\ row.evaluated \in Candles
        BY <3>3, <4>1 DEF CursorAt, Cursor, PendingState, Candles
      <4>3. cursor' = [cursor EXCEPT ![<<r, s>>] = row]
        BY <2>12 DEF AdvancePendingEntry
      <4> HIDE DEF row
      <4> QED
        BY <3>3, <4>2, <4>3 DEF TypeOK
    <3> QED
      BY <2>12, <3>1, <3>4, <3>5 DEF AdvancePendingEntry, TypeOK
  <2>13. ASSUME NEW r \in Runs, NEW s \in Symbols, NEW c \in Candles, CancelInactiveOrder(r, s, c)
         PROVE  TypeOK'
    <3>1. order' \in [Signals -> Order] /\ ended' \in [Signals -> Nat]
      <4>1. <<r, s, c>> \in Signals /\ order \in [Signals -> Order] /\ ended \in [Signals -> Nat]
        BY DEF Signals, TypeOK
      <4>2. CancelIfOpen(order[<<r, s, c>>]) \in Order
        BY <4>1, CancelIfOpenType
      <4>3. /\ order' = [order EXCEPT ![<<r, s, c>>] = CancelIfOpen(order[<<r, s, c>>])]
            /\ ended' = ended \/ ended' = [ended EXCEPT ![<<r, s, c>>] = @ + 1]
        BY <2>13 DEF CancelInactiveOrder
      <4>4. order' \in [Signals -> Order]
        BY <4>1, <4>2, <4>3, RowReplaced
      <4>5. ended' \in [Signals -> Nat]
        BY <4>1, <4>3, CountBumped
      <4> QED
        BY <4>4, <4>5
    <3>2. /\ cursor' \in [Runs \X Symbols -> Cursor]
          /\ \A l \in Runs \X Symbols : cursor'[l].pending # "NONE" => cursor'[l].evaluated \in Candles
      BY <2>13 DEF CancelInactiveOrder, CursorAt, TypeOK, Cursor, PendingState, Candles
    <3> QED
      BY <2>13, <3>1, <3>2 DEF CancelInactiveOrder, TypeOK
  <2>14. ASSUME NEW w \in PositionLanes, NEW r \in Runs, NEW s \in Symbols, NEW c \in Candles,
                LoadPosition(w, r, s, c)
         PROVE  TypeOK'
    BY <2>14 DEF LoadPosition, TypeOK, PositionSnap, Lanes, Signals
  <2>15. ASSUME NEW w \in PositionLanes, NEW e \in 0..MaxEvent, NEW stop \in 0..MaxStop,
                UpdatePosition(w, e, stop)
         PROVE  TypeOK'
    <3>1. w \in Lanes
      BY DEF Lanes
    <3>2. snap[w] \in PositionSnap
      BY <2>15, <3>1, SnapKind DEF UpdatePosition
    <3> DEFINE q == snap[w]
               k == <<q.run, q.symbol, q.candle>>
    <3>3. k \in Signals /\ e \in Nat /\ q.row \in Position /\ position[k] \in Position
      BY <3>2 DEF PositionSnap, Signals, TypeOK
    <3>4. position' \in [Signals -> Position]
      <4> DEFINE row == PositionRow(position[k].status, position[k].exiting,
                                    position[k].version + 1, e, stop)
      <4>1. row \in Position
        BY <3>3 DEF PositionRow, Position
      <4>2. position' = [position EXCEPT ![k] = row] /\ position \in [Signals -> Position]
        BY <2>15 DEF UpdatePosition, TypeOK
      <4> HIDE DEF row, k
      <4> QED
        BY <3>3, <4>1, <4>2, RowReplaced
    <3>5. PositionRow("OPEN", FALSE, q.row.version + 1, e, stop) \in Position
      BY <3>3 DEF PositionRow, Position
    <3> QED
      BY <2>15, <3>1, <3>2, <3>4, <3>5 DEF UpdatePosition, PositionSnap, TypeOK
  <2>16. ASSUME NEW w \in PositionLanes, NEW e \in 0..MaxEvent, ExitPosition(w, e)
         PROVE  TypeOK'
    <3>1. w \in Lanes
      BY DEF Lanes
    <3>2. snap[w] \in PositionSnap
      BY <2>16, <3>1, SnapKind DEF ExitPosition
    <3> DEFINE q == snap[w]
               k == <<q.run, q.symbol, q.candle>>
    <3>3. k \in Signals /\ e \in Nat /\ q.row \in Position /\ position[k] \in Position
      BY <3>2 DEF PositionSnap, Signals, TypeOK
    <3>4. position' \in [Signals -> Position] /\ trades' \in [Signals -> Nat]
      <4> DEFINE row == PositionRow(IF q.run \in LiquidityRuns THEN position[k].status ELSE "CLOSED",
                         q.run \in LiquidityRuns, position[k].version + 1, e, position[k].stop)
      <4>1. row \in Position
        <5>1. CASE q.run \in LiquidityRuns
          BY <3>3, <5>1 DEF PositionRow, Position
        <5>2. CASE ~(q.run \in LiquidityRuns)
          BY <3>3, <5>2 DEF PositionRow, Position
        <5> QED
          BY <5>1, <5>2
      <4>2. position' = [position EXCEPT ![k] = row]
            /\ \/ trades' = trades
               \/ trades' = [trades EXCEPT ![k] = @ + 1]
        BY <2>16 DEF ExitPosition
      <4> HIDE DEF row
      <4>3. position' \in [Signals -> Position]
        BY <3>3, <4>1, <4>2 DEF TypeOK
      <4>4. trades' \in [Signals -> Nat]
        BY <3>3, <4>2, CountBumped DEF TypeOK
      <4> QED
        BY <4>3, <4>4
    <3> QED
      BY <2>16, <3>1, <3>4 DEF ExitPosition, TypeOK
  <2>17. ASSUME NEW w \in PositionLanes, NEW e \in 0..MaxEvent, NEW done \in BOOLEAN,
                AdvanceExit(w, e, done)
         PROVE  TypeOK'
    <3>1. w \in Lanes
      BY DEF Lanes
    <3>2. snap[w] \in PositionSnap
      BY <2>17, <3>1, SnapKind DEF AdvanceExit
    <3> DEFINE q == snap[w]
               k == <<q.run, q.symbol, q.candle>>
    <3>3. k \in Signals /\ e \in Nat /\ q.row \in Position /\ position[k] \in Position
      BY <3>2 DEF PositionSnap, Signals, TypeOK
    <3>4. position' \in [Signals -> Position] /\ trades' \in [Signals -> Nat]
      <4> DEFINE row == AfterExitStep(position[k], e, done)
      <4>1. row \in Position
        <5>1. CASE done
          BY <3>3, <5>1 DEF AfterExitStep, PositionRow, Position
        <5>2. CASE ~(done)
          BY <3>3, <5>2 DEF AfterExitStep, PositionRow, Position
        <5> QED
          BY <5>1, <5>2
      <4>2. position' = [position EXCEPT ![k] = row]
            /\ \/ trades' = trades
               \/ trades' = [trades EXCEPT ![k] = @ + 1]
        BY <2>17 DEF AdvanceExit
      <4> HIDE DEF row
      <4>3. position' \in [Signals -> Position]
        BY <3>3, <4>1, <4>2 DEF TypeOK
      <4>4. trades' \in [Signals -> Nat]
        BY <3>3, <4>2, CountBumped DEF TypeOK
      <4> QED
        BY <4>3, <4>4
    <3> QED
      BY <2>17, <3>1, <3>4 DEF AdvanceExit, TypeOK
  <2>18. ASSUME NEW k \in CommandKeys, NEW r \in Runs, NEW s \in Symbols, NEW c \in Candles,
                RequestManualExit(k, r, s, c)
         PROVE  TypeOK'
    <3> DEFINE j == <<r, s, c>>
               row == PositionRow(position[j].status, TRUE, position[j].version + 1, LastEvent(s),
                                  position[j].stop)
    <3>0. j \in Signals /\ position[j] \in Position /\ LastEvent(s) \in Nat
      BY DEF Signals, TypeOK, LastEvent
    <3>1. row \in Position
      BY <3>0 DEF PositionRow, Position
    <3>2. position' = position \/ position' = [position EXCEPT ![j] = row]
      BY <2>18 DEF RequestManualExit
    <3> HIDE DEF row
    <3>3. position' \in [Signals -> Position]
      BY <3>0, <3>1, <3>2 DEF TypeOK
    <3> QED
      BY <2>18, <3>3 DEF RequestManualExit, TypeOK, Signals
  <2>19. ASSUME NEW k \in CommandKeys, NEW r \in Runs, NEW s \in Symbols, NEW c \in Candles,
                CloseManually(k, r, s, c)
         PROVE  TypeOK'
    <3>1. position' \in [Signals -> Position] /\ trades' \in [Signals -> Nat]
      BY <2>19 DEF CloseManually, PositionRow, TypeOK, Position, Signals
    <3> QED
      BY <2>19, <3>1 DEF CloseManually, TypeOK, Signals
  <2>20. CASE UNCHANGED vars
    BY <2>20 DEF vars, TypeOK
  <2> QED
    BY <2>1, <2>2, <2>3, <2>4, <2>5, <2>6, <2>7, <2>8, <2>9, <2>10, <2>11, <2>12, <2>13, <2>14,
       <2>15, <2>16, <2>17, <2>18, <2>19, <2>20
       DEF Next, Commands, World, CycleStep, EntryStep, CancelStep, PositionStep
<1> QED
  BY <1>1, <1>2, PTL DEF Spec

(***************************************************************************)
(* The books of one signal.  SignalAccounted and OpenOrderIsPending are    *)
(* not inductive alone: a candle the cursor has not reached must be        *)
(* untouched, a pending signal must have been stored, and a signal without *)
(* an order id must not have an order row.                                 *)
(***************************************************************************)
SignalBooks(r, s, c) ==
  LET k == <<r, s, c>>  row == cursor[<<r, s>>]  pends == row.pending # "NONE" /\ row.evaluated = c
  IN
  /\ c > row.evaluated => order[k].status = "ABSENT" /\ ended[k] = 0 /\ k \notin observed
  /\ pends => k \in observed
  /\ pends /\ row.pending = "SIGNAL" => order[k].status = "ABSENT"
  /\ ended[k] = IF k \in observed /\ ~pends THEN 1 ELSE 0
  /\ order[k].status = "OPEN" <=> row.pending = "ORDERED" /\ row.evaluated = c
  /\ position[k].status # "ABSENT" <=> order[k].status = "FILLED"

Books == \A r \in Runs, s \in Symbols, c \in Candles : SignalBooks(r, s, c)

(* The books only look at the order status, the cursor, the decisions, the *)
(* stored signals and whether a position exists.                           *)
LEMMA BooksUntouched ==
  ASSUME Books, order' = order, cursor' = cursor, ended' = ended, observed' = observed,
         \A k \in Signals : position'[k].status # "ABSENT" <=> position[k].status # "ABSENT"
  PROVE  Books'
<1> SUFFICES ASSUME NEW r \in Runs, NEW s \in Symbols, NEW c \in Candles
             PROVE  SignalBooks(r, s, c)'
  BY DEF Books
<1>1. SignalBooks(r, s, c) /\ <<r, s, c>> \in Signals
  BY DEF Books, Signals
<1> QED
  BY <1>1 DEF SignalBooks

(* The books balance in every reachable state, whatever the candle loop,   *)
(* the entry loops and the cancellation of inactive orders interleave.     *)
THEOREM BooksInvariant == Spec => []Books
<1>1. Init => Books
  <2> SUFFICES ASSUME Init, NEW r \in Runs, NEW s \in Symbols, NEW c \in Candles
               PROVE  SignalBooks(r, s, c)
    BY DEF Books
  <2>1. <<r, s, c>> \in Signals /\ <<r, s>> \in Runs \X Symbols /\ c > 0
    BY DEF Signals, Candles
  <2>2. cursor[<<r, s>>] = CursorAt(0, "NONE", 0) /\ order[<<r, s, c>>] = NoOrder
        /\ position[<<r, s, c>>] = NoPosition /\ ended[<<r, s, c>>] = 0 /\ observed = {}
    BY <2>1 DEF Init
  <2> QED
    BY <2>1, <2>2 DEF SignalBooks, NoOrder, NoPosition, OrderRow, PositionRow, CursorAt
<1>2. TypeOK /\ Books /\ [Next]_vars => Books'
  <2> SUFFICES ASSUME TypeOK, Books, [Next]_vars PROVE Books'
    OBVIOUS
  <2>1. ASSUME NEW w \in CycleLanes, NEW c \in Candles, NEW detected \in BOOLEAN,
               PersistCycle(w, c, detected)
        PROVE  Books'
    <3>1. snap[w] \in CycleSnap
      BY <2>1, SnapKind DEF PersistCycle, Lanes
    <3> DEFINE r == snap[w].run
               s == snap[w].symbol
               l == <<r, s>>
               old == <<r, s, cursor[l].evaluated>>
               new == CursorAt(c, IF detected THEN "SIGNAL" ELSE "NONE", 0)
    <3>2. r \in Runs /\ s \in Symbols /\ l \in Runs \X Symbols
      BY <3>1 DEF CycleSnap
    <3>3. cursor' = [cursor EXCEPT ![l] = new] /\ c > cursor[l].evaluated
      BY <2>1 DEF PersistCycle
    <3>4. observed' = IF detected THEN observed \cup {<<r, s, c>>} ELSE observed
      BY <2>1 DEF PersistCycle
    <3>5. position' = position
      BY <2>1 DEF PersistCycle
    <3>6. \/ cursor[l].pending = "NONE" /\ order' = order /\ ended' = ended
          \/ /\ cursor[l].pending # "NONE"
             /\ order' = [order EXCEPT ![old] = CancelIfOpen(order[old])]
             /\ ended' = [ended EXCEPT ![old] = @ + 1]
      BY <2>1 DEF PersistCycle, FinishPrevious
    <3> HIDE DEF r, s
    <3> SUFFICES ASSUME NEW a \in Runs, NEW b \in Symbols, NEW d \in Candles
                 PROVE  SignalBooks(a, b, d)'
      BY DEF Books
    <3>7. SignalBooks(a, b, d)
      BY DEF Books
    <3>8. CASE <<a, b>> # l
      BY <3>2, <3>3, <3>4, <3>5, <3>6, <3>7, <3>8 DEF SignalBooks, TypeOK, Signals
    <3>9. CASE <<a, b>> = l
      <4>1. a = r /\ b = s
        BY <3>9
      <4>2. cursor'[<<a, b>>] = new /\ cursor[l].evaluated \in Nat /\ c \in Nat /\ d \in Nat
        BY <3>2, <3>3, <3>9 DEF TypeOK, Cursor, Candles
      <4>3. new.evaluated = c /\ new.pending = IF detected THEN "SIGNAL" ELSE "NONE"
        BY DEF CursorAt
      <4> DEFINE k == <<a, b, d>>
      <4>4. k \in Signals /\ (k \in observed' <=> k \in observed \/ (detected /\ d = c))
        BY <3>4, <4>1 DEF Signals
      <4>5. CASE cursor[l].pending # "NONE" /\ d = cursor[l].evaluated
        <5>1. old = k /\ order[k] \in Order /\ ended[k] = 0
          BY <3>7, <4>1, <4>4, <4>5 DEF SignalBooks, TypeOK
        <5>2. order'[k] = CancelIfOpen(order[k]) /\ ended'[k] = 1
          BY <3>6, <4>4, <4>5, <5>1 DEF TypeOK
        <5>3. order'[k].status # "OPEN" /\ (order'[k].status = "FILLED" <=> order[k].status = "FILLED")
          BY <5>1, <5>2 DEF CancelIfOpen, OrderRow
        <5> QED
          BY <3>3, <3>5, <3>7, <4>1, <4>2, <4>3, <4>4, <4>5, <5>2, <5>3 DEF SignalBooks
      <4>6. CASE ~(cursor[l].pending # "NONE" /\ d = cursor[l].evaluated)
        <5>1. order'[k] = order[k] /\ ended'[k] = ended[k]
          BY <3>6, <4>1, <4>4, <4>6 DEF TypeOK
        <5> QED
          BY <3>3, <3>5, <3>7, <3>9, <4>1, <4>2, <4>3, <4>4, <4>6, <5>1 DEF SignalBooks
      <4> QED
        BY <4>5, <4>6
    <3> QED
      BY <3>8, <3>9
  <2>2. ASSUME NEW w \in EntryLanes, NEW e \in 0..MaxEvent, NEW crosses \in BOOLEAN,
               SubmitEntryOrder(w, e, crosses)
        PROVE  Books'
    <3>1. snap[w] \in EntrySnap
      BY <2>2, SnapKind DEF SubmitEntryOrder, Lanes
    <3> DEFINE r == snap[w].run
               s == snap[w].symbol
               c == snap[w].candle
               l == <<r, s>>
               k == <<r, s, c>>
               new == CursorAt(c, IF crosses THEN "NONE" ELSE "ORDERED", e)
               placed == OrderRow(IF crosses THEN "CANCELLED" ELSE "OPEN", e, 0)
    <3>2. r \in Runs /\ s \in Symbols /\ c \in Candles /\ l \in Runs \X Symbols /\ k \in Signals
      BY <3>1 DEF EntrySnap, Signals
    <3>3. cursor[l].pending = "SIGNAL" /\ cursor[l].evaluated = c /\ cursor' = [cursor EXCEPT ![l] = new]
      BY <2>2 DEF SubmitEntryOrder, CursorAsLoaded
    <3>4. order' = [order EXCEPT ![k] = placed] /\ position' = position /\ observed' = observed
      BY <2>2 DEF SubmitEntryOrder
    <3>5. ended' = IF crosses THEN [ended EXCEPT ![k] = @ + 1] ELSE ended
      BY <2>2 DEF SubmitEntryOrder
    <3>6. /\ new.evaluated = c /\ new.pending = IF crosses THEN "NONE" ELSE "ORDERED"
          /\ placed.status = IF crosses THEN "CANCELLED" ELSE "OPEN"
      BY DEF CursorAt, OrderRow
    <3> HIDE DEF new, placed
    <3> HIDE DEF r, s, c
    <3> SUFFICES ASSUME NEW a \in Runs, NEW b \in Symbols, NEW d \in Candles
                 PROVE  SignalBooks(a, b, d)'
      BY DEF Books
    <3>7. SignalBooks(a, b, d) /\ SignalBooks(r, s, c) /\ <<a, b, d>> \in Signals /\ d \in Nat
      BY <3>2 DEF Books, Signals, Candles
    <3>8. CASE <<a, b, d>> = k
      BY <3>2, <3>3, <3>4, <3>5, <3>6, <3>7, <3>8 DEF SignalBooks, TypeOK
    <3>9. CASE <<a, b, d>> # k
      <4>1. order'[<<a, b, d>>] = order[<<a, b, d>>] /\ ended'[<<a, b, d>>] = ended[<<a, b, d>>]
        BY <3>4, <3>5, <3>7, <3>9 DEF TypeOK
      <4> QED
        BY <3>2, <3>3, <3>4, <3>6, <3>7, <3>9, <4>1 DEF SignalBooks, TypeOK
    <3> QED
      BY <3>8, <3>9
  <2>3. ASSUME NEW w \in EntryLanes, NEW e \in 0..MaxEvent, NEW crossed \in BOOLEAN,
               FillEntry(w, e, crossed)
        PROVE  Books'
    <3>1. snap[w] \in EntrySnap
      BY <2>3, SnapKind DEF FillEntry, Lanes
    <3> DEFINE r == snap[w].run
               s == snap[w].symbol
               c == snap[w].candle
               l == <<r, s>>
               k == <<r, s, c>>
               new == CursorAt(c, "NONE", e)
               filled == OrderRow("FILLED", order[k].submit, e)
               row == FilledPosition(r, e, crossed)
    <3>2. r \in Runs /\ s \in Symbols /\ c \in Candles /\ l \in Runs \X Symbols /\ k \in Signals
      BY <3>1 DEF EntrySnap, Signals
    <3>3. cursor[l].pending # "NONE" /\ cursor[l].evaluated = c /\ cursor' = [cursor EXCEPT ![l] = new]
      BY <2>3 DEF FillEntry, CursorAsLoaded
    <3>4. /\ order[k].status = "OPEN"
          /\ order' = [order EXCEPT ![k] = filled]
          /\ position' = [position EXCEPT ![k] = row]
          /\ ended' = [ended EXCEPT ![k] = @ + 1]
          /\ observed' = observed
      BY <2>3 DEF FillEntry, FillableEvent
    <3>5. row.status # "ABSENT" /\ filled.status = "FILLED" /\ new.evaluated = c /\ new.pending = "NONE"
      BY DEF FilledPosition, PositionRow, OrderRow, CursorAt
    <3> HIDE DEF new, filled, row
    <3> HIDE DEF r, s, c
    <3> SUFFICES ASSUME NEW a \in Runs, NEW b \in Symbols, NEW d \in Candles
                 PROVE  SignalBooks(a, b, d)'
      BY DEF Books
    <3>6. SignalBooks(a, b, d) /\ SignalBooks(r, s, c) /\ <<a, b, d>> \in Signals /\ d \in Nat
      BY <3>2 DEF Books, Signals, Candles
    <3>7. CASE <<a, b, d>> = k
      BY <3>2, <3>3, <3>4, <3>5, <3>6, <3>7 DEF SignalBooks, TypeOK
    <3>8. CASE <<a, b, d>> # k
      BY <3>2, <3>3, <3>4, <3>5, <3>6, <3>8 DEF SignalBooks, TypeOK
    <3> QED
      BY <3>7, <3>8
  <2>4. ASSUME NEW w \in EntryLanes, NEW e \in 0..MaxEvent, NEW rejected \in BOOLEAN,
               AdvancePendingEntry(w, e, rejected)
        PROVE  Books'
    <3>1. snap[w] \in EntrySnap
      BY <2>4, SnapKind DEF AdvancePendingEntry, Lanes
    <3> DEFINE r == snap[w].run
               s == snap[w].symbol
               c == snap[w].candle
               l == <<r, s>>
               k == <<r, s, c>>
               over == EntryOver(k, rejected, e, snap[w].event)
               new == CursorAt(c, IF over THEN "NONE" ELSE cursor[l].pending, e)
    <3>2. r \in Runs /\ s \in Symbols /\ c \in Candles /\ l \in Runs \X Symbols /\ k \in Signals
      BY <3>1 DEF EntrySnap, Signals
    <3>3. cursor[l].pending # "NONE" /\ cursor[l].evaluated = c /\ cursor' = [cursor EXCEPT ![l] = new]
      BY <2>4 DEF AdvancePendingEntry, CursorAsLoaded
    <3>4. position' = position /\ observed' = observed
      BY <2>4 DEF AdvancePendingEntry
    <3>5. new.evaluated = c /\ new.pending = IF over THEN "NONE" ELSE cursor[l].pending
      BY DEF CursorAt
    <3>6. \/ over /\ order' = [order EXCEPT ![k] = CancelIfOpen(order[k])]
               /\ ended' = [ended EXCEPT ![k] = @ + 1]
          \/ ~over /\ order' = order /\ ended' = ended
      BY <2>4 DEF AdvancePendingEntry
    <3> HIDE DEF new, over
    <3> HIDE DEF r, s, c
    <3> SUFFICES ASSUME NEW a \in Runs, NEW b \in Symbols, NEW d \in Candles
                 PROVE  SignalBooks(a, b, d)'
      BY DEF Books
    <3>7. SignalBooks(a, b, d) /\ SignalBooks(r, s, c) /\ <<a, b, d>> \in Signals /\ d \in Nat
      BY <3>2 DEF Books, Signals, Candles
    <3>8. CASE <<a, b, d>> = k
      <4>1. CASE over
        <5>1. order'[k] = CancelIfOpen(order[k]) /\ ended'[k] = ended[k] + 1
          BY <3>2, <3>6, <4>1 DEF TypeOK
        <5>2. order'[k].status # "OPEN" /\ (order'[k].status = "FILLED" <=> order[k].status = "FILLED")
          BY <5>1 DEF CancelIfOpen, OrderRow
        <5> QED
          BY <3>2, <3>3, <3>4, <3>5, <3>7, <3>8, <4>1, <5>1, <5>2 DEF SignalBooks, TypeOK
      <4>2. CASE ~over
        BY <3>2, <3>3, <3>4, <3>5, <3>6, <3>7, <3>8, <4>2 DEF SignalBooks, TypeOK
      <4> QED
        BY <4>1, <4>2
    <3>9. CASE <<a, b, d>> # k
      <4>1. order'[<<a, b, d>>] = order[<<a, b, d>>] /\ ended'[<<a, b, d>>] = ended[<<a, b, d>>]
        BY <3>6, <3>7, <3>9 DEF TypeOK
      <4> QED
        BY <3>2, <3>3, <3>4, <3>5, <3>7, <3>9, <4>1 DEF SignalBooks, TypeOK
    <3> QED
      BY <3>8, <3>9
  <2>5. ASSUME NEW r \in Runs, NEW s \in Symbols, NEW c \in Candles, CancelInactiveOrder(r, s, c)
        PROVE  Books'
    <3> DEFINE l == <<r, s>>
               k == <<r, s, c>>
               new == CursorAt(c, "NONE", cursor[l].event)
    <3>1. l \in Runs \X Symbols /\ k \in Signals
      BY DEF Signals
    <3>2. SignalBooks(r, s, c)
      BY DEF Books
    <3>3. order[k].status = "OPEN" /\ cursor[l].pending = "ORDERED" /\ cursor[l].evaluated = c
      BY <2>5, <3>2 DEF CancelInactiveOrder, SignalBooks
    <3>4. /\ order' = [order EXCEPT ![k] = CancelIfOpen(order[k])]
          /\ cursor' = [cursor EXCEPT ![l] = new]
          /\ ended' = [ended EXCEPT ![k] = @ + 1]
          /\ position' = position /\ observed' = observed
      BY <2>5, <3>3 DEF CancelInactiveOrder
    <3>5. /\ CancelIfOpen(order[k]).status = "CANCELLED"
          /\ new.evaluated = c /\ new.pending = "NONE"
      BY <3>3 DEF CancelIfOpen, OrderRow, CursorAt
    <3> HIDE DEF new
    <3> SUFFICES ASSUME NEW a \in Runs, NEW b \in Symbols, NEW d \in Candles
                 PROVE  SignalBooks(a, b, d)'
      BY DEF Books
    <3>6. SignalBooks(a, b, d) /\ <<a, b, d>> \in Signals /\ d \in Nat
      BY DEF Books, Signals, Candles
    <3>7. CASE <<a, b, d>> = k
      BY <3>1, <3>2, <3>3, <3>4, <3>5, <3>6, <3>7 DEF SignalBooks, TypeOK
    <3>8. CASE <<a, b, d>> # k
      BY <3>1, <3>2, <3>3, <3>4, <3>5, <3>6, <3>8 DEF SignalBooks, TypeOK
    <3> QED
      BY <3>7, <3>8
  <2>6. ASSUME NEW w \in PositionLanes, NEW e \in 0..MaxEvent, NEW stop \in 0..MaxStop,
               UpdatePosition(w, e, stop)
        PROVE  Books'
    BY <2>6, BooksUntouched DEF UpdatePosition, PositionRow, TypeOK
  <2>7. ASSUME NEW w \in PositionLanes, NEW e \in 0..MaxEvent, ExitPosition(w, e)
        PROVE  Books'
    BY <2>7, BooksUntouched DEF ExitPosition, VersionAsLoaded, PositionRow, TypeOK
  <2>8. ASSUME NEW w \in PositionLanes, NEW e \in 0..MaxEvent, NEW done \in BOOLEAN,
               AdvanceExit(w, e, done)
        PROVE  Books'
    BY <2>8, BooksUntouched DEF AdvanceExit, AfterExitStep, VersionAsLoaded, PositionRow, TypeOK
  <2>9. ASSUME NEW k \in CommandKeys, NEW r \in Runs, NEW s \in Symbols, NEW c \in Candles,
               RequestManualExit(k, r, s, c)
        PROVE  Books'
    BY <2>9, BooksUntouched DEF RequestManualExit, PositionRow, TypeOK
  <2>10. ASSUME NEW k \in CommandKeys, NEW r \in Runs, NEW s \in Symbols, NEW c \in Candles,
                CloseManually(k, r, s, c)
         PROVE  Books'
    BY <2>10, BooksUntouched DEF CloseManually, IsOpen, PositionRow, TypeOK
  <2>11. CASE UNCHANGED <<cursor, order, position, ended, observed>>
    BY <2>11, BooksUntouched
  <2> QED
    BY <2>1, <2>2, <2>3, <2>4, <2>5, <2>6, <2>7, <2>8, <2>9, <2>10, <2>11
       DEF Next, Commands, World, CycleStep, EntryStep, CancelStep, PositionStep, vars, Start, Stop,
           Pause, Resume, ReceiveEvent, Expire, LoadCycle, LoadEntry, LoadPosition
<1> QED
  BY <1>1, <1>2, Typing, PTL DEF Spec

(* Every stored signal is pending or has exactly one terminal decision.    *)
THEOREM SignalsAccounted == Spec => []SignalAccounted
<1>1. Books => SignalAccounted
  <2> SUFFICES ASSUME Books, NEW r \in Runs, NEW s \in Symbols, NEW c \in Candles
               PROVE  ended[<<r, s, c>>]
                        = IF <<r, s, c>> \in observed /\ ~IsPending(r, s, c) THEN 1 ELSE 0
    BY DEF SignalAccounted
  <2>1. SignalBooks(r, s, c)
    BY DEF Books
  <2> QED
    BY <2>1 DEF SignalBooks, IsPending
<1> QED
  BY <1>1, BooksInvariant, PTL

(* An entry order is open exactly while the cursor's signal carries it.    *)
THEOREM OpenOrdersPending == Spec => []OpenOrderIsPending
<1>1. Books => OpenOrderIsPending
  BY DEF Books, SignalBooks, OpenOrderIsPending
<1> QED
  BY <1>1, BooksInvariant, PTL

-----------------------------------------------------------------------------
(* The positions: a signal whose order is open has no position yet, so a   *)
(* fill always creates one.                                                *)

(* What a step may do to the position and the trades of one signal.        *)
Kept(k) == position'[k] = position[k] /\ trades'[k] = trades[k]

Entered(k) ==
  /\ position[k].status = "ABSENT"
  /\ position'[k].status \in {"OPEN", "CLOSED"}
  /\ trades'[k] = IF position'[k].status = "CLOSED" THEN trades[k] + 1 ELSE trades[k]
  /\ EntriesAllowed(k[1]) /\ SymbolFree(k[1], k[2]) /\ CapacityLeft(k[1])
  /\ \A j \in Signals : j # k => position'[j] = position[j]
  /\ cursor'[<<k[1], k[2]>>].pending = "NONE"
  /\ UNCHANGED <<runStatus, receipts>>

Moved(k) ==
  /\ position[k].status = "OPEN" /\ position'[k].status = "OPEN"
  /\ position[k].exiting => position'[k].exiting
  /\ trades'[k] = trades[k]

Closed(k) ==
  /\ position[k].status = "OPEN" /\ position'[k].status = "CLOSED"
  /\ trades'[k] = trades[k] + 1

(* Every step keeps, enters, moves or closes the position of a signal.     *)
LEMMA PositionOutcome ==
  ASSUME TypeOK, Books, [Next]_vars, NEW k \in Signals
  PROVE  Kept(k) \/ Entered(k) \/ Moved(k) \/ Closed(k)
<1> DEFINE Goal == Kept(k) \/ Entered(k) \/ Moved(k) \/ Closed(k)
<1>1. CASE UNCHANGED <<position, trades>>
  BY <1>1 DEF Kept
<1>2. ASSUME NEW w \in EntryLanes, NEW e \in 0..MaxEvent, NEW crossed \in BOOLEAN,
             FillEntry(w, e, crossed)
      PROVE  Goal
  <2>1. snap[w] \in EntrySnap
    BY <1>2, SnapKind DEF FillEntry, Lanes
  <2> DEFINE r == snap[w].run
             s == snap[w].symbol
             c == snap[w].candle
             j == <<r, s, c>>
             row == FilledPosition(r, e, crossed)
  <2>2. r \in Runs /\ s \in Symbols /\ c \in Candles /\ <<r, s>> \in Runs \X Symbols /\ j \in Signals
    BY <2>1 DEF EntrySnap, Signals
  <2>3. /\ position' = [position EXCEPT ![j] = row]
        /\ trades' = IF row.status = "CLOSED" THEN [trades EXCEPT ![j] = @ + 1] ELSE trades
    BY <1>2 DEF FillEntry
  <2>4. CASE k # j
    BY <2>2, <2>3, <2>4 DEF TypeOK, Kept
  <2>5. CASE k = j
    <3>1. k[1] = r /\ k[2] = s
      BY <2>5
    <3>2. position[k].status = "ABSENT"
      <4>1. order[k].status = "OPEN"
        BY <1>2, <2>5 DEF FillEntry, FillableEvent
      <4>2. SignalBooks(r, s, c)
        BY <2>2 DEF Books
      <4>3. position[k] \in Position
        BY DEF TypeOK
      <4> QED
        BY <2>5, <4>1, <4>2 DEF SignalBooks
    <3>3. row.status \in {"OPEN", "CLOSED"}
      BY DEF FilledPosition, PositionRow
    <3>4. cursor'[<<r, s>>].pending = "NONE"
      BY <1>2, <2>2 DEF FillEntry, TypeOK, CursorAt
    <3>5. /\ EntriesAllowed(r) /\ SymbolFree(r, s) /\ CapacityLeft(r)
          /\ UNCHANGED <<runStatus, receipts>>
      BY <1>2 DEF FillEntry
    <3> HIDE DEF row
    <3>6. position'[k] = row /\ \A i \in Signals : i # k => position'[i] = position[i]
      BY <2>2, <2>3, <2>5 DEF TypeOK
    <3>7. trades'[k] = IF row.status = "CLOSED" THEN trades[k] + 1 ELSE trades[k]
      BY <2>2, <2>3, <2>5 DEF TypeOK
    <3> QED
      BY <3>1, <3>2, <3>3, <3>4, <3>5, <3>6, <3>7 DEF Entered
  <2> QED
    BY <2>4, <2>5
<1>3. ASSUME NEW w \in PositionLanes, NEW e \in 0..MaxEvent, NEW stop \in 0..MaxStop,
             UpdatePosition(w, e, stop)
      PROVE  Goal
  <2> DEFINE j == <<snap[w].run, snap[w].symbol, snap[w].candle>>
             row == PositionRow(position[j].status, position[j].exiting,
                                position[j].version + 1, e, stop)
  <2>1. /\ position[j].status = "OPEN"
        /\ position' = [position EXCEPT ![j] = row]
        /\ trades' = trades
    BY <1>3 DEF UpdatePosition, VersionAsLoaded
  <2>2. row.status = position[j].status /\ row.exiting = position[j].exiting
    BY DEF PositionRow
  <2> HIDE DEF j, row
  <2> QED
    BY <2>1, <2>2 DEF TypeOK, Kept, Moved
<1>4. ASSUME NEW w \in PositionLanes, NEW e \in 0..MaxEvent, ExitPosition(w, e)
      PROVE  Goal
  <2> DEFINE r == snap[w].run
             j == <<r, snap[w].symbol, snap[w].candle>>
             row == PositionRow(IF r \in LiquidityRuns THEN position[j].status ELSE "CLOSED",
                                r \in LiquidityRuns, position[j].version + 1, e, position[j].stop)
  <2>1. /\ position[j].status = "OPEN"
        /\ position' = [position EXCEPT ![j] = row]
        /\ trades' = IF r \in LiquidityRuns THEN trades ELSE [trades EXCEPT ![j] = @ + 1]
    BY <1>4 DEF ExitPosition, VersionAsLoaded
  <2>2. /\ row.status = IF r \in LiquidityRuns THEN position[j].status ELSE "CLOSED"
        /\ row.exiting = (r \in LiquidityRuns)
    BY DEF PositionRow
  <2> HIDE DEF r, j, row
  <2>3. CASE r \in LiquidityRuns
    BY <2>1, <2>2, <2>3 DEF TypeOK, Kept, Moved
  <2>4. CASE r \notin LiquidityRuns
    BY <2>1, <2>2, <2>4 DEF TypeOK, Kept, Closed
  <2> QED
    BY <2>3, <2>4
<1>5. ASSUME NEW w \in PositionLanes, NEW e \in 0..MaxEvent, NEW done \in BOOLEAN,
             AdvanceExit(w, e, done)
      PROVE  Goal
  <2> DEFINE j == <<snap[w].run, snap[w].symbol, snap[w].candle>>
             row == AfterExitStep(position[j], e, done)
  <2>1. /\ position[j].status = "OPEN"
        /\ position' = [position EXCEPT ![j] = row]
        /\ trades' = IF done THEN [trades EXCEPT ![j] = @ + 1] ELSE trades
    BY <1>5 DEF AdvanceExit, VersionAsLoaded
  <2>2. /\ row.status = IF done THEN "CLOSED" ELSE position[j].status
        /\ row.exiting = position[j].exiting
    BY DEF AfterExitStep, PositionRow
  <2> HIDE DEF j, row
  <2>3. CASE ~done
    BY <2>1, <2>2, <2>3 DEF TypeOK, Kept, Moved
  <2>4. CASE done
    BY <2>1, <2>2, <2>4 DEF TypeOK, Kept, Closed
  <2> QED
    BY <2>3, <2>4
<1>6. ASSUME NEW i \in CommandKeys, NEW r \in Runs, NEW s \in Symbols, NEW c \in Candles,
             RequestManualExit(i, r, s, c)
      PROVE  Goal
  <2> DEFINE j == <<r, s, c>>
             row == PositionRow(position[j].status, TRUE, position[j].version + 1, LastEvent(s),
                                position[j].stop)
  <2>1. /\ position[j].status = "OPEN"
        /\ position' = position \/ position' = [position EXCEPT ![j] = row]
        /\ trades' = trades
    BY <1>6 DEF RequestManualExit, IsOpen
  <2>2. row.status = position[j].status /\ row.exiting = TRUE
    BY DEF PositionRow
  <2> HIDE DEF j, row
  <2> QED
    BY <2>1, <2>2 DEF TypeOK, Kept, Moved
<1>7. ASSUME NEW i \in CommandKeys, NEW r \in Runs, NEW s \in Symbols, NEW c \in Candles,
             CloseManually(i, r, s, c)
      PROVE  Goal
  <2> DEFINE j == <<r, s, c>>
             row == PositionRow("CLOSED", position[j].exiting, position[j].version,
                                position[j].event, position[j].stop)
  <2>1. /\ position[j].status = "OPEN"
        /\ position' = [position EXCEPT ![j] = row]
        /\ trades' = [trades EXCEPT ![j] = @ + 1]
    BY <1>7 DEF CloseManually, IsOpen
  <2>2. row.status = "CLOSED"
    BY DEF PositionRow
  <2> HIDE DEF j, row
  <2> QED
    BY <2>1, <2>2 DEF TypeOK, Kept, Closed
<1>8. CASE CancelStep
  BY <1>1, <1>8 DEF CancelStep, CancelInactiveOrder
<1>9. CASE World
  BY <1>1, <1>9 DEF World, ReceiveEvent, Expire
<1>10. CASE Commands
  BY <1>1, <1>6, <1>7, <1>10 DEF Commands, Start, Stop, Pause, Resume
<1>11. ASSUME NEW w \in CycleLanes, CycleStep(w) PROVE Goal
  BY <1>1, <1>11 DEF CycleStep, LoadCycle, PersistCycle
<1>12. ASSUME NEW w \in EntryLanes, EntryStep(w) PROVE Goal
  BY <1>1, <1>2, <1>12 DEF EntryStep, LoadEntry, SubmitEntryOrder, AdvancePendingEntry
<1>13. ASSUME NEW w \in PositionLanes, PositionStep(w) PROVE Goal
  BY <1>1, <1>3, <1>4, <1>5, <1>13 DEF PositionStep, LoadPosition
<1> QED
  BY <1>1, <1>8, <1>9, <1>10, <1>11, <1>12, <1>13 DEF Next, vars

(* A position has its one trade when it is closed and none before.         *)
THEOREM TradesMatchClosings == Spec => []TradeIffClosed
<1>1. Init => TradeIffClosed
  BY DEF Init, TradeIffClosed, NoPosition, PositionRow
<1>2. TypeOK /\ Books /\ TradeIffClosed /\ [Next]_vars => TradeIffClosed'
  <2> SUFFICES ASSUME TypeOK, Books, TradeIffClosed, [Next]_vars, NEW k \in Signals
               PROVE  trades'[k] = IF position'[k].status = "CLOSED" THEN 1 ELSE 0
    BY DEF TradeIffClosed
  <2>1. Kept(k) \/ Entered(k) \/ Moved(k) \/ Closed(k)
    BY PositionOutcome
  <2>2. trades[k] = IF position[k].status = "CLOSED" THEN 1 ELSE 0
    BY DEF TradeIffClosed
  <2> QED
    BY <2>1, <2>2 DEF Kept, Entered, Moved, Closed
<1> QED
  BY <1>1, <1>2, Typing, BooksInvariant, PTL DEF Spec

(* A step of an entry lane leaves runs and receipts alone.                 *)
LEMMA EntryLaneFrame ==
  ASSUME NEW w \in EntryLanes, EntryStep(w)
  PROVE  runStatus' = runStatus /\ receipts' = receipts
<1>1. ASSUME NEW r \in Runs, NEW s \in Symbols, LoadEntry(w, r, s)
      PROVE  runStatus' = runStatus /\ receipts' = receipts
  BY <1>1 DEF LoadEntry
<1>2. ASSUME NEW e \in 0..MaxEvent, NEW flag \in BOOLEAN, SubmitEntryOrder(w, e, flag)
      PROVE  runStatus' = runStatus /\ receipts' = receipts
  BY <1>2 DEF SubmitEntryOrder
<1>3. ASSUME NEW e \in 0..MaxEvent, NEW flag \in BOOLEAN, FillEntry(w, e, flag)
      PROVE  runStatus' = runStatus /\ receipts' = receipts
  BY <1>3 DEF FillEntry
<1>4. ASSUME NEW e \in 0..MaxEvent, NEW flag \in BOOLEAN, AdvancePendingEntry(w, e, flag)
      PROVE  runStatus' = runStatus /\ receipts' = receipts
  BY <1>4 DEF AdvancePendingEntry
<1> QED
  BY <1>1, <1>2, <1>3, <1>4 DEF EntryStep

(* Only Start and Stop touch the status of a run.                          *)
LEMMA RunStatusOutcome ==
  ASSUME TypeOK, [Next]_vars
  PROVE  \/ runStatus' = runStatus
         \/ \E r \in Runs : /\ runStatus' = [runStatus EXCEPT ![r] = "RUNNING"]
                           /\ runStatus[r] = "ABSENT"
                           /\ position' = position
         \/ \E r \in Runs : /\ runStatus' = [runStatus EXCEPT ![r] = "COMPLETED"]
                           /\ IsFlat(r)
                           /\ position' = position
<1> DEFINE Same == runStatus' = runStatus
<1>1. ASSUME NEW r \in Runs, Start(r)
      PROVE  /\ runStatus' = [runStatus EXCEPT ![r] = "RUNNING"]
             /\ runStatus[r] = "ABSENT" /\ position' = position
  BY <1>1 DEF Start
<1>2. ASSUME NEW r \in Runs, Stop(r)
      PROVE  /\ runStatus' = [runStatus EXCEPT ![r] = "COMPLETED"]
             /\ IsFlat(r) /\ position' = position
  BY <1>2 DEF Stop
<1>3. CASE Commands
  <2>1. ASSUME NEW k \in CommandKeys, NEW r \in Runs, NEW s \in Symbols, NEW c \in Candles,
               RequestManualExit(k, r, s, c) \/ CloseManually(k, r, s, c)
        PROVE  Same
    BY <2>1 DEF RequestManualExit, CloseManually
  <2>2. Pause \/ Resume => Same
    BY DEF Pause, Resume
  <2> QED
    BY <1>1, <1>2, <1>3, <2>1, <2>2 DEF Commands
<1>4. CASE World
  BY <1>4 DEF World, ReceiveEvent, Expire
<1>5. CASE CancelStep
  BY <1>5 DEF CancelStep, CancelInactiveOrder
<1>6. ASSUME NEW w \in CycleLanes, CycleStep(w) PROVE Same
  BY <1>6 DEF CycleStep, LoadCycle, PersistCycle
<1>7. ASSUME NEW w \in EntryLanes, EntryStep(w) PROVE Same
  BY <1>7, EntryLaneFrame
<1>8. ASSUME NEW w \in PositionLanes, PositionStep(w) PROVE Same
  BY <1>8 DEF PositionStep, LoadPosition, UpdatePosition, ExitPosition, AdvanceExit
<1> QED
  BY <1>3, <1>4, <1>5, <1>6, <1>7, <1>8 DEF Next, vars

(* A run that is not RUNNING holds no open position: STOP looks before it  *)
(* completes the run, and a fill decided earlier needs a RUNNING run.      *)
THEOREM StopLeavesNothingOpen == Spec => []StoppedRunIsFlat
<1>1. Init => StoppedRunIsFlat
  BY DEF Init, StoppedRunIsFlat, IsFlat, OpenOf, NoPosition, PositionRow
<1>2. TypeOK /\ Books /\ StoppedRunIsFlat /\ [Next]_vars => StoppedRunIsFlat'
  <2> SUFFICES ASSUME TypeOK, Books, StoppedRunIsFlat, [Next]_vars,
                      NEW r \in Runs, runStatus'[r] # "RUNNING",
                      NEW k \in Signals, k[1] = r
               PROVE  position'[k].status # "OPEN"
    BY DEF StoppedRunIsFlat, IsFlat, OpenOf
  <2>1. CASE runStatus' = runStatus
    <3>1. position[k].status # "OPEN"
      BY <2>1 DEF StoppedRunIsFlat, IsFlat, OpenOf
    <3>2. Kept(k) \/ Entered(k) \/ Moved(k) \/ Closed(k)
      BY PositionOutcome
    <3> QED
      BY <2>1, <3>1, <3>2 DEF Kept, Entered, Moved, Closed, EntriesAllowed
  <2>2. ASSUME NEW q \in Runs, runStatus' = [runStatus EXCEPT ![q] = "RUNNING"],
               position' = position
        PROVE  position'[k].status # "OPEN"
    BY <2>2 DEF StoppedRunIsFlat, IsFlat, OpenOf, TypeOK
  <2>3. ASSUME NEW q \in Runs, runStatus' = [runStatus EXCEPT ![q] = "COMPLETED"],
               IsFlat(q), position' = position
        PROVE  position'[k].status # "OPEN"
    BY <2>3 DEF StoppedRunIsFlat, IsFlat, OpenOf, TypeOK
  <2> QED
    BY <2>1, <2>2, <2>3, RunStatusOutcome
<1> QED
  BY <1>1, <1>2, Typing, BooksInvariant, PTL DEF Spec

(* A cursor gains a pending signal only while its symbol has no open       *)
(* position, and only its own loops change it.                             *)
LEMMA PendingOutcome ==
  ASSUME TypeOK, [Next]_vars, NEW r \in Runs, NEW s \in Symbols
  PROVE  \/ cursor'[<<r, s>>].pending = "NONE"
         \/ cursor[<<r, s>>].pending # "NONE"
         \/ SymbolFree(r, s) /\ position' = position
<1> DEFINE l == <<r, s>>
           Goal == \/ cursor'[l].pending = "NONE"
                   \/ cursor[l].pending # "NONE"
                   \/ SymbolFree(r, s) /\ position' = position
<1>0. l \in Runs \X Symbols
  OBVIOUS
<1>1. CASE cursor' = cursor
  BY <1>1
<1>2. ASSUME NEW w \in CycleLanes, NEW c \in Candles, NEW detected \in BOOLEAN,
             PersistCycle(w, c, detected)
      PROVE  Goal
  <2> DEFINE m == <<snap[w].run, snap[w].symbol>>
             row == CursorAt(c, IF detected THEN "SIGNAL" ELSE "NONE", 0)
  <2>1. /\ cursor' = [cursor EXCEPT ![m] = row]
        /\ SymbolFree(snap[w].run, snap[w].symbol) /\ position' = position
    BY <1>2 DEF PersistCycle
  <2>2. CASE l # m
    BY <1>0, <2>1, <2>2 DEF TypeOK
  <2>3. CASE l = m
    BY <2>1, <2>3
  <2> QED
    BY <2>2, <2>3
<1>3. ASSUME NEW w \in EntryLanes, NEW e \in 0..MaxEvent, NEW crosses \in BOOLEAN,
             SubmitEntryOrder(w, e, crosses)
      PROVE  Goal
  <2> DEFINE m == <<snap[w].run, snap[w].symbol>>
  <2>1. cursor[m].pending # "NONE"
    BY <1>3 DEF SubmitEntryOrder
  <2>2. \E row : cursor' = [cursor EXCEPT ![m] = row]
    BY <1>3 DEF SubmitEntryOrder
  <2> HIDE DEF m
  <2> QED
    BY <1>0, <2>1, <2>2 DEF TypeOK
<1>4. ASSUME NEW w \in EntryLanes, NEW e \in 0..MaxEvent, NEW crossed \in BOOLEAN,
             FillEntry(w, e, crossed)
      PROVE  Goal
  <2> DEFINE m == <<snap[w].run, snap[w].symbol>>
  <2>1. cursor[m].pending # "NONE"
    BY <1>4 DEF FillEntry, CursorAsLoaded
  <2>2. \E row : cursor' = [cursor EXCEPT ![m] = row]
    BY <1>4 DEF FillEntry
  <2> HIDE DEF m
  <2> QED
    BY <1>0, <2>1, <2>2 DEF TypeOK
<1>5. ASSUME NEW w \in EntryLanes, NEW e \in 0..MaxEvent, NEW rejected \in BOOLEAN,
             AdvancePendingEntry(w, e, rejected)
      PROVE  Goal
  <2> DEFINE m == <<snap[w].run, snap[w].symbol>>
  <2>1. cursor[m].pending # "NONE"
    BY <1>5 DEF AdvancePendingEntry, CursorAsLoaded
  <2>2. \E row : cursor' = [cursor EXCEPT ![m] = row]
    BY <1>5 DEF AdvancePendingEntry
  <2> HIDE DEF m
  <2> QED
    BY <1>0, <2>1, <2>2 DEF TypeOK
<1>6. ASSUME NEW q \in Runs, NEW y \in Symbols, NEW c \in Candles, CancelInactiveOrder(q, y, c)
      PROVE  Goal
  <2> DEFINE m == <<q, y>>
             row == CursorAt(c, "NONE", cursor[m].event)
  <2>1. \/ cursor' = cursor
        \/ cursor[m].pending = "ORDERED" /\ cursor' = [cursor EXCEPT ![m] = row]
    BY <1>6 DEF CancelInactiveOrder
  <2> HIDE DEF m, row
  <2> QED
    BY <1>0, <2>1 DEF TypeOK
<1>7. CASE CancelStep
  BY <1>6, <1>7 DEF CancelStep
<1>8. CASE World
  BY <1>1, <1>8 DEF World, ReceiveEvent, Expire
<1>9. CASE Commands
  <2>1. ASSUME NEW k \in CommandKeys, NEW q \in Runs, NEW y \in Symbols, NEW c \in Candles,
               RequestManualExit(k, q, y, c) \/ CloseManually(k, q, y, c)
        PROVE  Goal
    BY <1>1, <2>1 DEF RequestManualExit, CloseManually
  <2>2. ASSUME NEW q \in Runs, Start(q) \/ Stop(q) PROVE Goal
    BY <1>1, <2>2 DEF Start, Stop
  <2>3. Pause \/ Resume => Goal
    BY <1>1 DEF Pause, Resume
  <2> QED
    BY <1>9, <2>1, <2>2, <2>3 DEF Commands
<1>10. ASSUME NEW w \in CycleLanes, CycleStep(w) PROVE Goal
  BY <1>1, <1>2, <1>10 DEF CycleStep, LoadCycle
<1>11. ASSUME NEW w \in EntryLanes, EntryStep(w) PROVE Goal
  BY <1>1, <1>3, <1>4, <1>5, <1>11 DEF EntryStep, LoadEntry
<1>12. ASSUME NEW w \in PositionLanes, PositionStep(w) PROVE Goal
  BY <1>1, <1>12 DEF PositionStep, LoadPosition, UpdatePosition, ExitPosition, AdvanceExit
<1> QED
  BY <1>1, <1>7, <1>8, <1>9, <1>10, <1>11, <1>12 DEF Next, vars

(* A symbol of a run is claimed at most once, by its pending signal or by  *)
(* one open position.                                                      *)
THEOREM OneClaim == Spec => []OneClaimPerSymbol
<1>1. Init => OneClaimPerSymbol
  <2>1. ASSUME Init, NEW r \in Runs, NEW s \in Symbols, NEW c \in Candles
        PROVE  ~IsOpen(r, s, c)
    <3>1. <<r, s, c>> \in Signals
      BY DEF Signals
    <3>2. position[<<r, s, c>>] = NoPosition
      BY <2>1, <3>1 DEF Init
    <3> QED
      BY <3>2 DEF IsOpen, NoPosition, PositionRow
  <2> QED
    BY <2>1 DEF OneClaimPerSymbol, HasOpen
<1>2. TypeOK /\ Books /\ OneClaimPerSymbol /\ [Next]_vars => OneClaimPerSymbol'
  <2> SUFFICES ASSUME TypeOK, Books, OneClaimPerSymbol, [Next]_vars,
                      NEW r \in Runs, NEW s \in Symbols
               PROVE  /\ \A c, d \in Candles : IsOpen(r, s, c)' /\ IsOpen(r, s, d)' => c = d
                      /\ HasOpen(r, s)' => cursor'[<<r, s>>].pending = "NONE"
    BY DEF OneClaimPerSymbol
  <2>1. ASSUME NEW c \in Candles, IsOpen(r, s, c)'
        PROVE  IsOpen(r, s, c) \/ Entered(<<r, s, c>>)
    BY <2>1, PositionOutcome DEF IsOpen, Kept, Moved, Closed, Signals
  <2>2. ASSUME NEW c \in Candles, NEW d \in Candles, c # d, Entered(<<r, s, c>>)
        PROVE  ~IsOpen(r, s, d)'
    BY <2>2 DEF Entered, SymbolFree, HasOpen, IsOpen, Signals
  <2>3. ASSUME NEW c \in Candles, NEW d \in Candles, IsOpen(r, s, c)', IsOpen(r, s, d)'
        PROVE  c = d
    BY <2>1, <2>2, <2>3 DEF OneClaimPerSymbol
  <2>4. ASSUME NEW c \in Candles, IsOpen(r, s, c)'
        PROVE  cursor'[<<r, s>>].pending = "NONE"
    <3>1. CASE Entered(<<r, s, c>>)
      BY <3>1 DEF Entered
    <3>2. CASE IsOpen(r, s, c)
      BY <3>2, PendingOutcome DEF OneClaimPerSymbol, SymbolFree, HasOpen
    <3> QED
      BY <2>1, <2>4, <3>1, <3>2
  <2> QED
    BY <2>3, <2>4 DEF HasOpen
<1> QED
  BY <1>1, <1>2, Typing, BooksInvariant, PTL DEF Spec

(* The limit on open positions, with what makes it inductive: the set of   *)
(* open positions is finite, so that adding one adds one to its size.      *)
CapacityBooks == \A r \in Runs :
  IsFiniteSet(OpenOf(r)) /\ Cardinality(OpenOf(r)) <= MaxOpenPositions

(* The open positions of a run never exceed the strategy's limit.          *)
THEOREM CapacityHolds == Spec => []CapacityRespected
<1>1. Init => CapacityBooks
  <2> SUFFICES ASSUME Init, NEW r \in Runs
               PROVE  IsFiniteSet(OpenOf(r)) /\ Cardinality(OpenOf(r)) <= MaxOpenPositions
    BY DEF CapacityBooks
  <2>1. OpenOf(r) = {}
    BY DEF Init, OpenOf, NoPosition, PositionRow
  <2> QED
    BY <2>1, FS_EmptySet, LedgerAssumption
<1>2. TypeOK /\ Books /\ CapacityBooks /\ [Next]_vars => CapacityBooks'
  <2> SUFFICES ASSUME TypeOK, Books, CapacityBooks, [Next]_vars, NEW r \in Runs
               PROVE  IsFiniteSet(OpenOf(r)') /\ Cardinality(OpenOf(r)') <= MaxOpenPositions
    BY DEF CapacityBooks
  <2>1. IsFiniteSet(OpenOf(r)) /\ Cardinality(OpenOf(r)) <= MaxOpenPositions
        /\ Cardinality(OpenOf(r)) \in Nat
    BY FS_CardinalityType DEF CapacityBooks
  <2>2. CASE \E k \in Signals : Entered(k) /\ k[1] = r
    <3> PICK k \in Signals : Entered(k) /\ k[1] = r
      BY <2>2
    <3>1. OpenOf(r)' \subseteq OpenOf(r) \cup {k}
      BY DEF Entered, OpenOf
    <3>2. k \notin OpenOf(r) /\ Cardinality(OpenOf(r)) < MaxOpenPositions
      BY DEF Entered, CapacityLeft, OpenOf
    <3>3. /\ IsFiniteSet(OpenOf(r) \cup {k})
          /\ Cardinality(OpenOf(r) \cup {k}) = Cardinality(OpenOf(r)) + 1
      BY <2>1, <3>2, FS_AddElement
    <3>4. /\ IsFiniteSet(OpenOf(r)')
          /\ Cardinality(OpenOf(r)') <= Cardinality(OpenOf(r) \cup {k})
      BY <3>1, <3>3, FS_Subset
    <3>5. Cardinality(OpenOf(r)') \in Nat
      BY <3>4, FS_CardinalityType
    <3> QED
      BY <2>1, <3>2, <3>3, <3>4, <3>5, LedgerAssumption
  <2>3. CASE ~ \E k \in Signals : Entered(k) /\ k[1] = r
    <3>1. OpenOf(r)' \subseteq OpenOf(r)
      BY <2>3, PositionOutcome DEF OpenOf, Kept, Moved, Closed
    <3>2. /\ IsFiniteSet(OpenOf(r)')
          /\ Cardinality(OpenOf(r)') <= Cardinality(OpenOf(r))
      BY <2>1, <3>1, FS_Subset
    <3>3. Cardinality(OpenOf(r)') \in Nat
      BY <3>2, FS_CardinalityType
    <3> QED
      BY <2>1, <3>2, <3>3, LedgerAssumption
  <2> QED
    BY <2>2, <2>3
<1>3. CapacityBooks => CapacityRespected
  BY DEF CapacityBooks, CapacityRespected
<1> QED
  BY <1>1, <1>2, <1>3, Typing, BooksInvariant, PTL DEF Spec

(* A receipt is written with the close or the latched exit it names.       *)
LEMMA ReceiptOutcome ==
  ASSUME TypeOK, [Next]_vars
  PROVE  \/ receipts' = receipts
         \/ \E k \in CommandKeys, j \in Signals :
              /\ receipts' = [receipts EXCEPT ![k] = j]
              /\ position'[j].status \in {"OPEN", "CLOSED"}
              /\ position'[j].status = "CLOSED" \/ position'[j].exiting
<1> DEFINE Same == receipts' = receipts
           Goal == \E k \in CommandKeys, j \in Signals :
              /\ receipts' = [receipts EXCEPT ![k] = j]
              /\ position'[j].status \in {"OPEN", "CLOSED"}
              /\ position'[j].status = "CLOSED" \/ position'[j].exiting
<1>1. ASSUME NEW k \in CommandKeys, NEW r \in Runs, NEW s \in Symbols, NEW c \in Candles,
             RequestManualExit(k, r, s, c)
      PROVE  Goal
  <2> DEFINE j == <<r, s, c>>
             row == PositionRow(position[j].status, TRUE, position[j].version + 1, LastEvent(s),
                                position[j].stop)
  <2>1. /\ receipts' = [receipts EXCEPT ![k] = j]
        /\ position[j].status = "OPEN"
        /\ \/ position[j].exiting /\ position' = position
           \/ position' = [position EXCEPT ![j] = row]
    BY <1>1 DEF RequestManualExit, IsOpen
  <2>2. j \in Signals /\ row.status = position[j].status /\ row.exiting = TRUE
    BY DEF Signals, PositionRow
  <2> HIDE DEF j, row
  <2>3. position'[j].status = "OPEN" /\ position'[j].exiting
    BY <2>1, <2>2 DEF TypeOK
  <2> QED
    BY <2>1, <2>2, <2>3
<1>2. ASSUME NEW k \in CommandKeys, NEW r \in Runs, NEW s \in Symbols, NEW c \in Candles,
             CloseManually(k, r, s, c)
      PROVE  Goal
  <2> DEFINE j == <<r, s, c>>
             row == PositionRow("CLOSED", position[j].exiting, position[j].version,
                                position[j].event, position[j].stop)
  <2>1. /\ receipts' = [receipts EXCEPT ![k] = j]
        /\ position' = [position EXCEPT ![j] = row]
    BY <1>2 DEF CloseManually
  <2>2. j \in Signals /\ row.status = "CLOSED"
    BY DEF Signals, PositionRow
  <2> HIDE DEF j, row
  <2>3. position'[j].status = "CLOSED"
    BY <2>1, <2>2 DEF TypeOK
  <2> QED
    BY <2>1, <2>2, <2>3
<1>3. CASE Commands
  <2>1. ASSUME NEW q \in Runs, Start(q) \/ Stop(q) PROVE Same
    BY <2>1 DEF Start, Stop
  <2>2. Pause \/ Resume => Same
    BY DEF Pause, Resume
  <2> QED
    BY <1>1, <1>2, <1>3, <2>1, <2>2 DEF Commands
<1>4. CASE World
  BY <1>4 DEF World, ReceiveEvent, Expire
<1>5. CASE CancelStep
  BY <1>5 DEF CancelStep, CancelInactiveOrder
<1>6. ASSUME NEW w \in CycleLanes, CycleStep(w) PROVE Same
  BY <1>6 DEF CycleStep, LoadCycle, PersistCycle
<1>7. ASSUME NEW w \in EntryLanes, EntryStep(w) PROVE Same
  BY <1>7, EntryLaneFrame
<1>8. ASSUME NEW w \in PositionLanes, PositionStep(w) PROVE Same
  BY <1>8 DEF PositionStep, LoadPosition, UpdatePosition, ExitPosition, AdvanceExit
<1> QED
  BY <1>3, <1>4, <1>5, <1>6, <1>7, <1>8 DEF Next, vars

(* The receipts with what makes their claim inductive: the position they   *)
(* name exists, so no later fill can put a fresh row in its place.         *)
ReceiptBooks == \A k \in CommandKeys : receipts[k] # NoReceipt =>
  LET row == position[receipts[k]] IN
  row.status \in {"OPEN", "CLOSED"} /\ (row.status = "CLOSED" \/ row.exiting)

(* A manual close that was acknowledged is done or irrevocably requested.  *)
THEOREM ReceiptsBacked == Spec => []ReceiptBacked
<1>1. Init => ReceiptBooks
  BY DEF Init, ReceiptBooks
<1>2. TypeOK /\ Books /\ ReceiptBooks /\ [Next]_vars => ReceiptBooks'
  <2> SUFFICES ASSUME TypeOK, Books, ReceiptBooks, [Next]_vars,
                      NEW k \in CommandKeys, receipts'[k] # NoReceipt
               PROVE  /\ position'[receipts'[k]].status \in {"OPEN", "CLOSED"}
                      /\ \/ position'[receipts'[k]].status = "CLOSED"
                         \/ position'[receipts'[k]].exiting
    BY DEF ReceiptBooks
  <2>1. CASE receipts'[k] = receipts[k]
    <3>1. receipts[k] \in Signals
      BY <2>1 DEF TypeOK
    <3>2. \/ Kept(receipts[k]) \/ Entered(receipts[k]) \/ Moved(receipts[k]) \/ Closed(receipts[k])
      BY <3>1, PositionOutcome
    <3>3. /\ position[receipts[k]].status \in {"OPEN", "CLOSED"}
          /\ position[receipts[k]].status = "CLOSED" \/ position[receipts[k]].exiting
      BY <2>1 DEF ReceiptBooks
    <3> QED
      BY <2>1, <3>2, <3>3 DEF Kept, Entered, Moved, Closed
  <2>2. CASE receipts'[k] # receipts[k]
    <3>1. PICK i \in CommandKeys, j \in Signals :
             /\ receipts' = [receipts EXCEPT ![i] = j]
             /\ position'[j].status \in {"OPEN", "CLOSED"}
             /\ position'[j].status = "CLOSED" \/ position'[j].exiting
      BY <2>2, ReceiptOutcome
    <3>2. receipts'[k] = j
      BY <2>2, <3>1 DEF TypeOK
    <3> QED
      BY <3>1, <3>2
  <2> QED
    BY <2>1, <2>2
<1>3. ReceiptBooks => ReceiptBacked
  BY DEF ReceiptBooks, ReceiptBacked
<1> QED
  BY <1>1, <1>2, <1>3, Typing, BooksInvariant, PTL DEF Spec
-----------------------------------------------------------------------------
(* The journal only grows, and its events stay what they are.              *)
JournalGrows == \A s \in Symbols :
  /\ Len(journal[s]) \in Nat /\ Len(journal'[s]) \in Nat
  /\ Len(journal[s]) <= Len(journal'[s])
  /\ \A i \in 1..Len(journal[s]) : journal'[s][i] = journal[s][i]

(* Whatever a step does, the journal only grows.                           *)
LEMMA JournalOutcome ==
  ASSUME TypeOK, [Next]_vars
  PROVE  JournalGrows
<1>0. \A s \in Symbols : journal[s] \in Seq(Nat)
  BY DEF TypeOK
<1>1. CASE journal' = journal
  BY <1>0, <1>1 DEF JournalGrows
<1>2. ASSUME NEW s \in Symbols, NEW reconnected \in BOOLEAN, ReceiveEvent(s, reconnected)
      PROVE  JournalGrows
  <2> DEFINE n == (IF journal[s] = <<>> THEN 0 ELSE journal[s][Len(journal[s])])
                  + (IF reconnected THEN 1 ELSE 0)
  <2>1. journal' = [journal EXCEPT ![s] = Append(@, n)]
    BY <1>2 DEF ReceiveEvent
  <2>2. n \in Nat
    <3>1. journal[s] # <<>> => journal[s][Len(journal[s])] \in Nat
      BY <1>0
    <3> QED
      BY <3>1
  <2> HIDE DEF n
  <2>3. \A y \in Symbols : journal'[y] = IF y = s THEN Append(journal[s], n) ELSE journal[y]
    BY <2>1 DEF TypeOK
  <2>4. ASSUME NEW q \in Seq(Nat)
        PROVE  /\ Len(q) \in Nat /\ Len(Append(q, n)) = Len(q) + 1
               /\ \A i \in 1..Len(q) : Append(q, n)[i] = q[i]
    BY <2>2
  <2>5. ASSUME NEW y \in Symbols
        PROVE  /\ Len(journal[y]) \in Nat /\ Len(journal'[y]) \in Nat
               /\ Len(journal[y]) <= Len(journal'[y])
               /\ \A i \in 1..Len(journal[y]) : journal'[y][i] = journal[y][i]
    <3>1. journal[y] \in Seq(Nat) /\ Len(journal[y]) \in Nat
      BY <1>0
    <3>2. CASE y = s
      <4>1. journal'[y] = Append(journal[y], n)
        BY <2>3, <3>2
      <4> QED
        BY <2>4, <3>1, <4>1
    <3>3. CASE y # s
      BY <2>3, <3>1, <3>3
    <3> QED
      BY <3>2, <3>3
  <2> QED
    BY <2>5 DEF JournalGrows
<1>3. ASSUME NEW w \in EntryLanes, EntryStep(w) PROVE journal' = journal
  BY <1>3 DEF EntryStep, LoadEntry, SubmitEntryOrder, FillEntry, AdvancePendingEntry
<1>4. ASSUME NEW w \in CycleLanes, CycleStep(w) PROVE journal' = journal
  BY <1>4 DEF CycleStep, LoadCycle, PersistCycle
<1>5. ASSUME NEW w \in PositionLanes, PositionStep(w) PROVE journal' = journal
  BY <1>5 DEF PositionStep, LoadPosition, UpdatePosition, ExitPosition, AdvanceExit
<1>6. CASE Commands
  <2>1. ASSUME NEW r \in Runs, Start(r) \/ Stop(r) PROVE journal' = journal
    BY <2>1 DEF Start, Stop
  <2>2. Pause \/ Resume => journal' = journal
    BY DEF Pause, Resume
  <2>3. ASSUME NEW k \in CommandKeys, NEW r \in Runs, NEW s \in Symbols, NEW c \in Candles,
               RequestManualExit(k, r, s, c) \/ CloseManually(k, r, s, c)
        PROVE  journal' = journal
    BY <2>3 DEF RequestManualExit, CloseManually
  <2> QED
    BY <1>1, <1>6, <2>1, <2>2, <2>3 DEF Commands
<1>7. CASE World
  BY <1>1, <1>2, <1>7 DEF World, Expire
<1>8. CASE CancelStep
  BY <1>1, <1>8 DEF CancelStep, CancelInactiveOrder
<1> QED
  BY <1>1, <1>3, <1>4, <1>5, <1>6, <1>7, <1>8 DEF Next, vars

(* What a step may do to the entry order of one signal.                    *)
OrderSame(k) == order'[k] = order[k]
Submitted(k) ==
  /\ order[k].status # "FILLED"
  /\ order'[k].status # "FILLED" /\ order'[k].submit \in 1..Len(journal[k[2]])
Cancelled(k) ==
  /\ order[k].status = "OPEN"
  /\ order'[k].status # "FILLED" /\ order'[k].submit = order[k].submit
Filled(k) ==
  /\ order[k].status = "OPEN" /\ order'[k].submit = order[k].submit
  /\ order'[k].fill \in 1..Len(journal[k[2]]) /\ order[k].submit < order'[k].fill
  /\ journal[k[2]][order'[k].fill] = journal[k[2]][order[k].submit]
  /\ order'[k].status = "FILLED"

(* Cancelling what may be open leaves any other order as it is.            *)
LEMMA CancelOutcome ==
  ASSUME TypeOK, NEW j \in Signals, order' = [order EXCEPT ![j] = CancelIfOpen(@)],
         NEW k \in Signals
  PROVE  OrderSame(k) \/ Cancelled(k)
<1>1. order[j].status = "OPEN" => /\ CancelIfOpen(order[j]).status = "CANCELLED"
                                  /\ CancelIfOpen(order[j]).submit = order[j].submit
  BY DEF CancelIfOpen, OrderRow
<1>2. order[j].status # "OPEN" => CancelIfOpen(order[j]) = order[j]
  BY DEF CancelIfOpen
<1> QED
  BY <1>1, <1>2 DEF TypeOK, OrderSame, Cancelled

(* Every step keeps, submits, cancels or fills the order of a signal.      *)
LEMMA OrderOutcome ==
  ASSUME TypeOK, Books, [Next]_vars, NEW k \in Signals
  PROVE  OrderSame(k) \/ Submitted(k) \/ Cancelled(k) \/ Filled(k)
<1> DEFINE Goal == OrderSame(k) \/ Submitted(k) \/ Cancelled(k) \/ Filled(k)
<1>1. CASE order' = order
  BY <1>1 DEF OrderSame
<1>2. ASSUME NEW w \in CycleLanes, NEW c \in Candles, NEW detected \in BOOLEAN,
             PersistCycle(w, c, detected)
      PROVE  Goal
  <2> DEFINE r == snap[w].run
             s == snap[w].symbol
             j == <<r, s, cursor[<<r, s>>].evaluated>>
  <2>1. CASE cursor[<<r, s>>].pending = "NONE"
    BY <1>1, <1>2, <2>1 DEF PersistCycle, FinishPrevious
  <2>2. CASE cursor[<<r, s>>].pending # "NONE"
    <3>1. snap[w] \in CycleSnap
      BY <1>2, SnapKind DEF PersistCycle, Lanes
    <3>2. <<r, s>> \in Runs \X Symbols
      BY <3>1 DEF CycleSnap
    <3>3. j \in Signals
      BY <2>2, <3>2 DEF TypeOK, Signals
    <3>4. order' = [order EXCEPT ![j] = CancelIfOpen(@)]
      BY <1>2, <2>2 DEF PersistCycle, FinishPrevious
    <3> HIDE DEF j
    <3> QED
      BY <3>3, <3>4, CancelOutcome
  <2> QED
    BY <2>1, <2>2
<1>3. ASSUME NEW w \in EntryLanes, snap[w].lane = "entry"
      PROVE  <<snap[w].run, snap[w].symbol, snap[w].candle>> \in Signals
  BY <1>3, SnapKind DEF Lanes, EntrySnap, Signals
<1>4. ASSUME NEW w \in EntryLanes, NEW e \in 0..MaxEvent, NEW crosses \in BOOLEAN,
             SubmitEntryOrder(w, e, crosses)
      PROVE  Goal
  <2> DEFINE j == <<snap[w].run, snap[w].symbol, snap[w].candle>>
             row == OrderRow(IF crosses THEN "CANCELLED" ELSE "OPEN", e, 0)
  <2>1. /\ order' = [order EXCEPT ![j] = row] /\ j \in Signals
        /\ e \in EventsAfter(j[2], snap[w].event)
        /\ cursor[<<j[1], j[2]>>].pending = "SIGNAL" /\ cursor[<<j[1], j[2]>>].evaluated = j[3]
    BY <1>3, <1>4 DEF SubmitEntryOrder, CursorAsLoaded
  <2>2. row.status # "FILLED" /\ row.submit = e
    BY DEF OrderRow
  <2> HIDE DEF row
  <2>3. order[j].status = "ABSENT"
    <3>1. SignalBooks(j[1], j[2], j[3])
      BY <2>1 DEF Books, Signals
    <3> QED
      BY <2>1, <3>1 DEF SignalBooks
  <2>4. e \in 1..Len(journal[j[2]])
    <3>1. j[2] \in Symbols /\ Len(journal[j[2]]) \in Nat
      BY <2>1 DEF Signals, TypeOK
    <3> QED
      BY <2>1, <3>1 DEF EventsAfter
  <2> HIDE DEF j
  <2>5. CASE k = j
    BY <2>1, <2>2, <2>3, <2>4, <2>5 DEF TypeOK, Submitted
  <2>6. CASE k # j
    BY <2>1, <2>6 DEF TypeOK, OrderSame
  <2> QED
    BY <2>5, <2>6
<1>5. ASSUME NEW w \in EntryLanes, NEW e \in 0..MaxEvent, NEW crossed \in BOOLEAN,
             FillEntry(w, e, crossed)
      PROVE  Goal
  <2> DEFINE j == <<snap[w].run, snap[w].symbol, snap[w].candle>>
             row == OrderRow("FILLED", order[j].submit, e)
  <2>1. /\ order' = [order EXCEPT ![j] = row] /\ j \in Signals
        /\ e \in EventsAfter(j[2], snap[w].event) /\ FillableEvent(j, e)
    BY <1>3, <1>5 DEF FillEntry
  <2>2. row.status = "FILLED" /\ row.submit = order[j].submit /\ row.fill = e
    BY DEF OrderRow
  <2> HIDE DEF row
  <2>3. e \in 1..Len(journal[j[2]])
    <3>1. j[2] \in Symbols /\ Len(journal[j[2]]) \in Nat
      BY <2>1 DEF Signals, TypeOK
    <3> QED
      BY <2>1, <3>1 DEF EventsAfter
  <2> HIDE DEF j
  <2>4. CASE k = j
    BY <2>1, <2>2, <2>3, <2>4 DEF TypeOK, FillableEvent, Filled
  <2>5. CASE k # j
    BY <2>1, <2>5 DEF TypeOK, OrderSame
  <2> QED
    BY <2>4, <2>5
<1>6. ASSUME NEW w \in EntryLanes, NEW e \in 0..MaxEvent, NEW rejected \in BOOLEAN,
             AdvancePendingEntry(w, e, rejected)
      PROVE  Goal
  <2> DEFINE j == <<snap[w].run, snap[w].symbol, snap[w].candle>>
  <2>1. /\ j \in Signals
        /\ order' = order \/ order' = [order EXCEPT ![j] = CancelIfOpen(@)]
    BY <1>3, <1>6 DEF AdvancePendingEntry
  <2> HIDE DEF j
  <2> QED
    BY <1>1, <2>1, CancelOutcome
<1>7. CASE CancelStep
  <2>1. PICK r \in Runs, s \in Symbols, c \in Candles : CancelInactiveOrder(r, s, c)
    BY <1>7 DEF CancelStep
  <2> DEFINE j == <<r, s, c>>
  <2>2. j \in Signals /\ order' = [order EXCEPT ![j] = CancelIfOpen(@)]
    BY <2>1 DEF CancelInactiveOrder, Signals
  <2> HIDE DEF j
  <2> QED
    BY <2>2, CancelOutcome
<1>8. CASE World
  BY <1>1, <1>8 DEF World, ReceiveEvent, Expire
<1>9. CASE Commands
  <2>1. ASSUME NEW r \in Runs, Start(r) \/ Stop(r) PROVE order' = order
    BY <2>1 DEF Start, Stop
  <2>2. Pause \/ Resume => order' = order
    BY DEF Pause, Resume
  <2>3. ASSUME NEW i \in CommandKeys, NEW r \in Runs, NEW s \in Symbols, NEW c \in Candles,
               RequestManualExit(i, r, s, c) \/ CloseManually(i, r, s, c)
        PROVE  order' = order
    BY <2>3 DEF RequestManualExit, CloseManually
  <2> QED
    BY <1>1, <1>9, <2>1, <2>2, <2>3 DEF Commands
<1>10. ASSUME NEW w \in CycleLanes, CycleStep(w) PROVE Goal
  BY <1>1, <1>2, <1>10 DEF CycleStep, LoadCycle
<1>11. ASSUME NEW w \in EntryLanes, EntryStep(w) PROVE Goal
  BY <1>1, <1>4, <1>5, <1>6, <1>11 DEF EntryStep, LoadEntry
<1>12. ASSUME NEW w \in PositionLanes, PositionStep(w) PROVE Goal
  BY <1>1, <1>12 DEF PositionStep, LoadPosition, UpdatePosition, ExitPosition, AdvanceExit
<1> QED
  BY <1>1, <1>7, <1>8, <1>9, <1>10, <1>11, <1>12 DEF Next, vars

(* Orders name events of the journal, and a fill is causal.                *)
FillBooks == \A k \in Signals : order[k].status # "ABSENT" =>
  /\ order[k].submit \in 1..Len(journal[k[2]])
  /\ order[k].status = "FILLED" =>
       /\ order[k].fill \in 1..Len(journal[k[2]]) /\ order[k].submit < order[k].fill
       /\ journal[k[2]][order[k].submit] = journal[k[2]][order[k].fill]

(* A position exists exactly for an order that filled, on an event after   *)
(* the submission and of the same stream session, although the journal goes*)
(* on and streams reconnect between the decision and the write             *)
(* (processRealtimeEntry, persistRealtimeEntry).                           *)
THEOREM FillsBacked == Spec => []PositionBackedByFill
<1>1. Init => FillBooks
  BY DEF Init, FillBooks, NoOrder, OrderRow
<1>2. TypeOK /\ Books /\ FillBooks /\ [Next]_vars => FillBooks'
  <2> SUFFICES ASSUME TypeOK, Books, FillBooks, [Next]_vars, NEW k \in Signals,
                      order'[k].status # "ABSENT"
               PROVE  /\ order'[k].submit \in 1..Len(journal'[k[2]])
                      /\ order'[k].status = "FILLED" =>
                           /\ order'[k].fill \in 1..Len(journal'[k[2]])
                           /\ order'[k].submit < order'[k].fill
                           /\ journal'[k[2]][order'[k].submit] = journal'[k[2]][order'[k].fill]
    BY DEF FillBooks
  <2>1. k[2] \in Symbols
    BY DEF Signals
  <2>2. /\ Len(journal[k[2]]) \in Nat /\ Len(journal'[k[2]]) \in Nat
        /\ 1..Len(journal[k[2]]) \subseteq 1..Len(journal'[k[2]])
        /\ \A i \in 1..Len(journal[k[2]]) : journal'[k[2]][i] = journal[k[2]][i]
    BY <2>1, JournalOutcome DEF JournalGrows
  <2>3. OrderSame(k) \/ Submitted(k) \/ Cancelled(k) \/ Filled(k)
    BY OrderOutcome
  <2>4. CASE OrderSame(k)
    BY <2>2, <2>4 DEF OrderSame, FillBooks
  <2>5. CASE Submitted(k)
    BY <2>2, <2>5 DEF Submitted
  <2>6. CASE Cancelled(k)
    BY <2>2, <2>6 DEF Cancelled, FillBooks
  <2>7. CASE Filled(k)
    BY <2>2, <2>7 DEF Filled, FillBooks
  <2> QED
    BY <2>3, <2>4, <2>5, <2>6, <2>7
<1>3. Books /\ FillBooks => PositionBackedByFill
  <2> SUFFICES ASSUME Books, FillBooks, NEW r \in Runs, NEW s \in Symbols, NEW c \in Candles
               PROVE  LET o == order[<<r, s, c>>] IN
                        /\ position[<<r, s, c>>].status # "ABSENT" <=> o.status = "FILLED"
                        /\ o.status = "FILLED" => /\ o.submit < o.fill
                                                  /\ journal[s][o.submit] = journal[s][o.fill]
    BY DEF PositionBackedByFill
  <2>1. SignalBooks(r, s, c) /\ <<r, s, c>> \in Signals
    BY DEF Books, Signals
  <2> QED
    BY <2>1 DEF SignalBooks, FillBooks
<1> QED
  BY <1>1, <1>2, <1>3, Typing, BooksInvariant, PTL DEF Spec
-----------------------------------------------------------------------------
(* What a position lane loaded is the row itself as long as the row is open*)
(* and has the version the lane saw; an open row that went on has a greater*)
(* version.                                                                *)
SnapFresh(w) == snap[w].lane = "position" =>
  LET row == position[<<snap[w].run, snap[w].symbol, snap[w].candle>>] IN
  /\ row.status # "ABSENT" /\ snap[w].row.version <= row.version
  /\ row.status = "OPEN" /\ row.version = snap[w].row.version => row = snap[w].row

(* No position has processed an event that is not in the journal.          *)
PositionBooks ==
  /\ \A k \in Signals : position[k].event <= Len(journal[k[2]])
  /\ \A w \in PositionLanes : SnapFresh(w)

(* What may take the place of the row of a signal.                         *)
Succeeds(k, row) ==
  \/ row = position[k]
  \/ /\ position[k].status = "ABSENT" \/ (position[k].status = "OPEN" /\ RowAdvances(position[k], row))
     /\ row.event <= Len(journal[k[2]])

(* A step that replaces the row of one signal.                             *)
LEMMA OneSuccessor ==
  ASSUME TypeOK, NEW j \in Signals, NEW row, position' = [position EXCEPT ![j] = row],
         Succeeds(j, row), NEW k \in Signals
  PROVE  Succeeds(k, position'[k])
  BY DEF TypeOK, Succeeds

(* Events a lane looks at are in the journal, and not before what it saw.  *)
LEMMA EventsJournaled ==
  ASSUME TypeOK, NEW s \in Symbols, NEW from \in Nat, from <= Len(journal[s]),
         NEW e \in {from} \cup EventsAfter(s, from)
  PROVE  e \in Nat /\ from <= e /\ e <= Len(journal[s])
<1>1. Len(journal[s]) \in Nat
  BY DEF TypeOK
<1> QED
  BY <1>1 DEF EventsAfter

(* A lane that writes under the version it loaded has loaded the row.      *)
LEMMA LoadedRow ==
  ASSUME TypeOK, PositionBooks, NEW w \in PositionLanes, snap[w].lane = "position",
         VersionAsLoaded(snap[w])
  PROVE  LET j == <<snap[w].run, snap[w].symbol, snap[w].candle>> IN
         /\ j \in Signals /\ position[j] = snap[w].row /\ position[j].status = "OPEN"
         /\ position[j] \in Position /\ position[j].event <= Len(journal[snap[w].symbol])
         /\ snap[w].symbol \in Symbols
<1> DEFINE j == <<snap[w].run, snap[w].symbol, snap[w].candle>>
<1>1. snap[w] \in PositionSnap
  BY SnapKind DEF Lanes
<1>2. j \in Signals /\ snap[w].symbol \in Symbols
  BY <1>1 DEF PositionSnap, Signals
<1>3. position[j] = snap[w].row /\ position[j].status = "OPEN"
  BY DEF PositionBooks, SnapFresh, VersionAsLoaded
<1>4. position[j] \in Position
  BY <1>2 DEF TypeOK
<1>5. position[j].event <= Len(journal[j[2]]) /\ j[2] = snap[w].symbol
  BY <1>2 DEF PositionBooks
<1> QED
  BY <1>2, <1>3, <1>4, <1>5

(* A row made by a newer version of an open one.                           *)
LEMMA NewerRow ==
  ASSUME TypeOK, NEW j \in Signals, position[j].status = "OPEN", NEW status, NEW exiting,
         NEW e \in Nat, NEW stop \in Nat,
         position[j].event <= e, e <= Len(journal[j[2]]), position[j].stop <= stop,
         position[j].exiting => exiting
  PROVE  Succeeds(j, PositionRow(status, exiting, position[j].version + 1, e, stop))
  BY DEF Succeeds, RowAdvances, PositionRow

(* Every step replaces a row by one that may take its place.               *)
LEMMA RowOutcome ==
  ASSUME TypeOK, Books, PositionBooks, [Next]_vars, NEW k \in Signals
  PROVE  Succeeds(k, position'[k])
<1> DEFINE Goal == Succeeds(k, position'[k])
<1>0. \A j \in Signals : /\ position[j] \in Position
                         /\ position[j].event \in Nat /\ position[j].stop \in Nat
  BY DEF TypeOK, Position
<1>1. CASE position' = position
  BY <1>1 DEF Succeeds
<1>2. ASSUME NEW w \in EntryLanes, NEW e \in 0..MaxEvent, NEW crossed \in BOOLEAN,
             FillEntry(w, e, crossed)
      PROVE  Goal
  <2> DEFINE j == <<snap[w].run, snap[w].symbol, snap[w].candle>>
             row == FilledPosition(snap[w].run, e, crossed)
  <2>1. j \in Signals
    BY <1>2, SnapKind DEF FillEntry, Lanes, EntrySnap, Signals
  <2>2. position' = [position EXCEPT ![j] = row] /\ e \in EventsAfter(j[2], snap[w].event)
        /\ order[j].status = "OPEN"
    BY <1>2 DEF FillEntry, FillableEvent
  <2>3. position[j].status = "ABSENT"
    <3>1. SignalBooks(j[1], j[2], j[3])
      BY <2>1 DEF Books, Signals
    <3>2. position[j] \in Position /\ j = <<j[1], j[2], j[3]>>
      BY <1>0, <2>1
    <3> QED
      BY <2>2, <3>1, <3>2 DEF SignalBooks
  <2>4. row.event <= Len(journal[j[2]])
    BY <2>2 DEF FilledPosition, PositionRow, EventsAfter
  <2> HIDE DEF row, j
  <2> QED
    BY <2>1, <2>2, <2>3, <2>4, OneSuccessor DEF Succeeds
<1>3. ASSUME NEW w \in PositionLanes, NEW e \in 0..MaxEvent, NEW stop \in 0..MaxStop,
             UpdatePosition(w, e, stop)
      PROVE  Goal
  <2> DEFINE j == <<snap[w].run, snap[w].symbol, snap[w].candle>>
             row == PositionRow(position[j].status, position[j].exiting, position[j].version + 1,
                                e, stop)
  <2>1. /\ j \in Signals /\ position[j] = snap[w].row /\ position[j].status = "OPEN"
        /\ position[j].event <= Len(journal[snap[w].symbol]) /\ snap[w].symbol \in Symbols
    BY <1>3, LoadedRow DEF UpdatePosition
  <2>2. /\ position' = [position EXCEPT ![j] = row] /\ stop >= snap[w].row.stop
        /\ e \in EventsAfter(snap[w].symbol, snap[w].row.event)
    BY <1>3 DEF UpdatePosition
  <2>3. position[j].event <= e /\ e <= Len(journal[snap[w].symbol]) /\ e \in Nat
    BY <1>0, <2>1, <2>2, EventsJournaled
  <2>4. stop \in Nat /\ position[j].stop <= stop
    BY <1>0, <2>1, <2>2, LedgerAssumption
  <2>5. Succeeds(j, row)
    BY <2>1, <2>3, <2>4, NewerRow
  <2> HIDE DEF row, j
  <2> QED
    BY <2>1, <2>2, <2>5, OneSuccessor
<1>4. ASSUME NEW w \in PositionLanes, NEW e \in 0..MaxEvent, ExitPosition(w, e)
      PROVE  Goal
  <2> DEFINE r == snap[w].run
             j == <<r, snap[w].symbol, snap[w].candle>>
             status == IF r \in LiquidityRuns THEN position[j].status ELSE "CLOSED"
             row == PositionRow(status, r \in LiquidityRuns, position[j].version + 1, e,
                                position[j].stop)
  <2>1. /\ j \in Signals /\ position[j] = snap[w].row /\ position[j].status = "OPEN"
        /\ position[j].event <= Len(journal[snap[w].symbol]) /\ snap[w].symbol \in Symbols
    BY <1>4, LoadedRow DEF ExitPosition
  <2>2. /\ position' = [position EXCEPT ![j] = row] /\ ~snap[w].row.exiting
        /\ e \in {snap[w].row.event} \cup EventsAfter(snap[w].symbol, snap[w].row.event)
    BY <1>4 DEF ExitPosition
  <2>3. position[j].event <= e /\ e <= Len(journal[snap[w].symbol]) /\ e \in Nat
    BY <1>0, <2>1, <2>2, EventsJournaled
  <2>4. position[j].stop \in Nat /\ position[j].stop <= position[j].stop
    BY <1>0, <2>1
  <2> HIDE DEF status
  <2>5. Succeeds(j, row)
    BY <2>1, <2>2, <2>3, <2>4, NewerRow
  <2> HIDE DEF row, j, r
  <2> QED
    BY <2>1, <2>2, <2>5, OneSuccessor
<1>5. ASSUME NEW w \in PositionLanes, NEW e \in 0..MaxEvent, NEW done \in BOOLEAN,
             AdvanceExit(w, e, done)
      PROVE  Goal
  <2> DEFINE j == <<snap[w].run, snap[w].symbol, snap[w].candle>>
             status == IF done THEN "CLOSED" ELSE position[j].status
             row == PositionRow(status, position[j].exiting, position[j].version + 1, e,
                                position[j].stop)
  <2>1. /\ j \in Signals /\ position[j] = snap[w].row /\ position[j].status = "OPEN"
        /\ position[j].event <= Len(journal[snap[w].symbol]) /\ snap[w].symbol \in Symbols
    BY <1>5, LoadedRow DEF AdvanceExit
  <2>2. /\ position' = [position EXCEPT ![j] = row]
        /\ e \in {snap[w].row.event} \cup EventsAfter(snap[w].symbol, snap[w].row.event)
    BY <1>5 DEF AdvanceExit, AfterExitStep
  <2>3. position[j].event <= e /\ e <= Len(journal[snap[w].symbol]) /\ e \in Nat
    BY <1>0, <2>1, <2>2, EventsJournaled
  <2>4. position[j].stop \in Nat /\ position[j].stop <= position[j].stop
    BY <1>0, <2>1
  <2> HIDE DEF status
  <2>5. Succeeds(j, row)
    BY <2>1, <2>3, <2>4, NewerRow
  <2> HIDE DEF row, j
  <2> QED
    BY <2>1, <2>2, <2>5, OneSuccessor
<1>6. ASSUME NEW i \in CommandKeys, NEW r \in Runs, NEW s \in Symbols, NEW c \in Candles,
             RequestManualExit(i, r, s, c)
      PROVE  Goal
  <2> DEFINE j == <<r, s, c>>
             row == PositionRow(position[j].status, TRUE, position[j].version + 1, LastEvent(s),
                                position[j].stop)
  <2>1. /\ j \in Signals /\ position[j].status = "OPEN"
        /\ position' = position \/ position' = [position EXCEPT ![j] = row]
    BY <1>6 DEF RequestManualExit, IsOpen, Signals
  <2>2. /\ LastEvent(s) \in Nat /\ position[j].event <= LastEvent(s)
        /\ LastEvent(s) <= Len(journal[j[2]])
    <3>1. Len(journal[s]) \in Nat
      BY DEF TypeOK
    <3> QED
      BY <2>1, <3>1 DEF PositionBooks, LastEvent
  <2>3. position[j].stop \in Nat /\ position[j].stop <= position[j].stop
    BY <1>0, <2>1
  <2>4. Succeeds(j, row)
    BY <2>1, <2>2, <2>3, NewerRow
  <2> HIDE DEF row, j
  <2> QED
    BY <1>1, <2>1, <2>4, OneSuccessor
<1>7. ASSUME NEW i \in CommandKeys, NEW r \in Runs, NEW s \in Symbols, NEW c \in Candles,
             CloseManually(i, r, s, c)
      PROVE  Goal
  <2> DEFINE j == <<r, s, c>>
             row == PositionRow("CLOSED", position[j].exiting, position[j].version,
                                position[j].event, position[j].stop)
  <2>1. /\ j \in Signals /\ position[j].status = "OPEN"
        /\ position' = [position EXCEPT ![j] = row]
    BY <1>7 DEF CloseManually, IsOpen, Signals
  <2>2. /\ position[j].event \in Nat /\ position[j].stop \in Nat
        /\ position[j].event <= Len(journal[j[2]])
    BY <1>0, <2>1 DEF PositionBooks
  <2>3. row.event = position[j].event /\ row.stop = position[j].stop
        /\ row.exiting = position[j].exiting
    BY DEF PositionRow
  <2>4. Succeeds(j, row)
    BY <2>1, <2>2, <2>3 DEF Succeeds, RowAdvances
  <2> HIDE DEF row, j
  <2> QED
    BY <2>1, <2>4, OneSuccessor
<1>8. CASE CancelStep
  BY <1>1, <1>8 DEF CancelStep, CancelInactiveOrder
<1>9. CASE World
  BY <1>1, <1>9 DEF World, ReceiveEvent, Expire
<1>10. CASE Commands
  BY <1>1, <1>6, <1>7, <1>10 DEF Commands, Start, Stop, Pause, Resume
<1>11. ASSUME NEW w \in CycleLanes, CycleStep(w) PROVE Goal
  BY <1>1, <1>11 DEF CycleStep, LoadCycle, PersistCycle
<1>12. ASSUME NEW w \in EntryLanes, EntryStep(w) PROVE Goal
  BY <1>1, <1>2, <1>12 DEF EntryStep, LoadEntry, SubmitEntryOrder, AdvancePendingEntry
<1>13. ASSUME NEW w \in PositionLanes, PositionStep(w) PROVE Goal
  BY <1>1, <1>3, <1>4, <1>5, <1>13 DEF PositionStep, LoadPosition
<1> QED
  BY <1>1, <1>8, <1>9, <1>10, <1>11, <1>12, <1>13 DEF Next, vars

(* What a position lane may have in hand after a step: what it had, no     *)
(* position, or the open row as it then is.                                *)
HandSame(w) == snap'[w] = snap[w]
HandEmpty(w) == snap'[w].lane # "position"
HandCurrent(w) ==
  LET row == position'[<<snap'[w].run, snap'[w].symbol, snap'[w].candle>>] IN
  /\ row = snap'[w].row /\ row.status = "OPEN"

(* The hand of one lane is replaced.                                       *)
LEMMA OneHand ==
  ASSUME TypeOK, NEW v, NEW new, snap' = [snap EXCEPT ![v] = new], NEW w \in PositionLanes
  PROVE  HandSame(w) \/ (w = v /\ snap'[w] = new)
  BY DEF TypeOK, HandSame, Lanes

(* Every step leaves a position lane with one of the three.                *)
LEMMA HandOutcome ==
  ASSUME TypeOK, Books, PositionBooks, [Next]_vars, NEW w \in PositionLanes
  PROVE  HandSame(w) \/ HandEmpty(w) \/ HandCurrent(w)
<1> DEFINE Goal == HandSame(w) \/ HandEmpty(w) \/ HandCurrent(w)
<1>1. CASE snap' = snap
  BY <1>1 DEF HandSame
<1>2. Idle.lane # "position"
  BY DEF Idle
<1>3. ASSUME NEW v, snap' = [snap EXCEPT ![v] = Idle] PROVE Goal
  BY <1>2, <1>3, OneHand DEF HandEmpty
<1>4. ASSUME NEW v \in CycleLanes, CycleStep(v) PROVE Goal
  <2>1. ASSUME NEW r \in Runs, NEW s \in Symbols, LoadCycle(v, r, s) PROVE Goal
    <3> DEFINE new == [lane |-> "cycle", run |-> r, symbol |-> s, status |-> deployment,
                       evaluated |-> cursor[<<r, s>>].evaluated]
    <3>1. snap' = [snap EXCEPT ![v] = new] /\ new.lane # "position"
      BY <2>1 DEF LoadCycle
    <3> HIDE DEF new
    <3> QED
      BY <3>1, OneHand DEF HandEmpty
  <2>2. ASSUME NEW c \in Candles, NEW detected \in BOOLEAN, PersistCycle(v, c, detected) PROVE Goal
    BY <1>3, <2>2 DEF PersistCycle
  <2> QED
    BY <1>4, <2>1, <2>2 DEF CycleStep
<1>5. ASSUME NEW v \in EntryLanes, EntryStep(v) PROVE Goal
  <2>1. ASSUME NEW r \in Runs, NEW s \in Symbols, LoadEntry(v, r, s) PROVE Goal
    <3> DEFINE new == [lane |-> "entry", run |-> r, symbol |-> s,
                       candle |-> cursor[<<r, s>>].evaluated, event |-> cursor[<<r, s>>].event,
                       ordered |-> cursor[<<r, s>>].pending = "ORDERED"]
    <3>1. snap' = [snap EXCEPT ![v] = new] /\ new.lane # "position"
      BY <2>1 DEF LoadEntry
    <3> HIDE DEF new
    <3> QED
      BY <3>1, OneHand DEF HandEmpty
  <2>2. ASSUME NEW e \in 0..MaxEvent, NEW flag \in BOOLEAN,
               SubmitEntryOrder(v, e, flag) \/ FillEntry(v, e, flag) \/ AdvancePendingEntry(v, e, flag)
        PROVE  Goal
    BY <1>3, <2>2 DEF SubmitEntryOrder, FillEntry, AdvancePendingEntry
  <2> QED
    BY <1>5, <2>1, <2>2 DEF EntryStep
<1>6. ASSUME NEW v \in PositionLanes, NEW r \in Runs, NEW s \in Symbols, NEW c \in Candles,
             LoadPosition(v, r, s, c)
      PROVE  Goal
  <2> DEFINE new == [lane |-> "position", run |-> r, symbol |-> s, candle |-> c,
                     row |-> position[<<r, s, c>>]]
  <2>1. /\ snap' = [snap EXCEPT ![v] = new] /\ position' = position
        /\ position[<<r, s, c>>].status = "OPEN"
    BY <1>6 DEF LoadPosition, IsOpen
  <2>2. new.run = r /\ new.symbol = s /\ new.candle = c /\ new.row = position[<<r, s, c>>]
    OBVIOUS
  <2> HIDE DEF new
  <2> QED
    BY <2>1, <2>2, OneHand DEF HandCurrent
<1>7. ASSUME NEW v \in PositionLanes, NEW e \in 0..MaxEvent, NEW stop \in 0..MaxStop,
             UpdatePosition(v, e, stop)
      PROVE  Goal
  <2> DEFINE r == snap[v].run
             s == snap[v].symbol
             c == snap[v].candle
             j == <<r, s, c>>
             row == PositionRow("OPEN", FALSE, snap[v].row.version + 1, e, stop)
             new == [lane |-> "position", run |-> r, symbol |-> s, candle |-> c, row |-> row]
  <2>1. /\ j \in Signals /\ position[j] = snap[v].row /\ position[j].status = "OPEN"
        /\ position[j] \in Position
    BY <1>7, LoadedRow DEF UpdatePosition
  <2>2. snap[v].row.exiting = FALSE
    BY <1>7, <2>1 DEF UpdatePosition, Position
  <2>3. snap' = [snap EXCEPT ![v] = new]
    BY <1>7 DEF UpdatePosition
  <2>4. position' = [position EXCEPT ![j] =
           PositionRow(position[j].status, position[j].exiting, position[j].version + 1, e, stop)]
    BY <1>7 DEF UpdatePosition
  <2>5. position' = [position EXCEPT ![j] = row]
    BY <2>1, <2>2, <2>4
  <2>6. new.run = r /\ new.symbol = s /\ new.candle = c /\ new.row = row /\ row.status = "OPEN"
    BY DEF PositionRow
  <2> HIDE DEF row
  <2>7. position'[j] = row
    BY <2>1, <2>5 DEF TypeOK
  <2> HIDE DEF new, r, s, c
  <2> QED
    BY <2>3, <2>6, <2>7, OneHand DEF HandCurrent
<1>8. ASSUME NEW v \in PositionLanes, PositionStep(v) PROVE Goal
  <2>1. ASSUME NEW e \in 0..MaxEvent, ExitPosition(v, e) PROVE Goal
    BY <1>3, <2>1 DEF ExitPosition
  <2>2. ASSUME NEW e \in 0..MaxEvent, NEW done \in BOOLEAN, AdvanceExit(v, e, done) PROVE Goal
    BY <1>3, <2>2 DEF AdvanceExit
  <2> QED
    BY <1>6, <1>7, <1>8, <2>1, <2>2 DEF PositionStep
<1>9. CASE CancelStep
  BY <1>1, <1>9 DEF CancelStep, CancelInactiveOrder
<1>10. CASE World
  BY <1>1, <1>10 DEF World, ReceiveEvent, Expire
<1>11. CASE Commands
  <2>1. ASSUME NEW r \in Runs, Start(r) \/ Stop(r) PROVE snap' = snap
    BY <2>1 DEF Start, Stop
  <2>2. Pause \/ Resume => snap' = snap
    BY DEF Pause, Resume
  <2>3. ASSUME NEW i \in CommandKeys, NEW r \in Runs, NEW s \in Symbols, NEW c \in Candles,
               RequestManualExit(i, r, s, c) \/ CloseManually(i, r, s, c)
        PROVE  snap' = snap
    BY <2>3 DEF RequestManualExit, CloseManually
  <2> QED
    BY <1>1, <1>11, <2>1, <2>2, <2>3 DEF Commands
<1> QED
  BY <1>1, <1>4, <1>5, <1>8, <1>9, <1>10, <1>11 DEF Next, vars

(* What lanes have in hand stays in order, and so do processed events.     *)
LEMMA PositionBooksStep ==
  TypeOK /\ TypeOK' /\ Books /\ PositionBooks /\ [Next]_vars => PositionBooks'
<1> SUFFICES ASSUME TypeOK, TypeOK', Books, PositionBooks, [Next]_vars PROVE PositionBooks'
  OBVIOUS
<1>1. ASSUME NEW k \in Signals PROVE position'[k].event <= Len(journal'[k[2]])
  <2>1. /\ k[2] \in Symbols /\ Len(journal[k[2]]) \in Nat /\ Len(journal'[k[2]]) \in Nat
        /\ Len(journal[k[2]]) <= Len(journal'[k[2]])
    BY JournalOutcome DEF JournalGrows, Signals
  <2>2. position'[k].event \in Nat
    BY DEF TypeOK, Position
  <2>3. Succeeds(k, position'[k]) /\ position[k].event <= Len(journal[k[2]])
        /\ position[k].event \in Nat
    BY RowOutcome DEF PositionBooks, TypeOK, Position
  <2> QED
    BY <2>1, <2>2, <2>3 DEF Succeeds
<1>2. ASSUME NEW w \in PositionLanes PROVE SnapFresh(w)'
  <2> SUFFICES ASSUME snap'[w].lane = "position"
               PROVE  LET row == position'[<<snap'[w].run, snap'[w].symbol, snap'[w].candle>>] IN
                      /\ row.status # "ABSENT" /\ snap'[w].row.version <= row.version
                      /\ row.status = "OPEN" /\ row.version = snap'[w].row.version
                            => row = snap'[w].row
    BY DEF SnapFresh
  <2>1. CASE HandCurrent(w)
    <3>1. w \in Lanes
      BY DEF Lanes
    <3>2. snap'[w] \in PositionSnap
      BY <3>1 DEF TypeOK, Idle, CycleSnap, EntrySnap, PositionSnap
    <3>3. snap'[w].row.version \in Nat
      BY <3>2 DEF PositionSnap, Position
    <3> QED
      BY <2>1, <3>3 DEF HandCurrent
  <2>2. CASE HandSame(w)
    <3> DEFINE k == <<snap[w].run, snap[w].symbol, snap[w].candle>>
    <3>1. snap[w] \in PositionSnap
      BY <2>2, SnapKind DEF HandSame, Lanes
    <3>2. k \in Signals /\ snap[w].row.version \in Nat
      BY <3>1 DEF PositionSnap, Signals, Position
    <3>3. /\ position[k].status # "ABSENT" /\ snap[w].row.version <= position[k].version
          /\ position[k].status = "OPEN" /\ position[k].version = snap[w].row.version
                => position[k] = snap[w].row
      BY <2>2, <3>1 DEF PositionBooks, SnapFresh, HandSame
    <3>4. Succeeds(k, position'[k]) /\ position[k].version \in Nat
      BY <3>2, RowOutcome DEF TypeOK, Position
    <3>5. Kept(k) \/ Entered(k) \/ Moved(k) \/ Closed(k)
      BY <3>2, PositionOutcome
    <3>6. position'[k].status # "ABSENT"
      BY <3>3, <3>5 DEF Kept, Entered, Moved, Closed
    <3>7. CASE position'[k] = position[k]
      BY <2>2, <3>3, <3>7 DEF HandSame
    <3>8. CASE position'[k] # position[k] /\ RowAdvances(position[k], position'[k])
      <4>1. position'[k].version = position[k].version + 1
            \/ (position'[k].status = "CLOSED" /\ position'[k].version = position[k].version)
        BY <3>8 DEF RowAdvances, PositionRow
      <4> QED
        BY <2>2, <3>2, <3>3, <3>4, <3>6, <4>1 DEF HandSame
    <3> QED
      BY <3>3, <3>4, <3>7, <3>8 DEF Succeeds
  <2> QED
    BY <2>1, <2>2, HandOutcome DEF HandEmpty
<1> QED
  BY <1>1, <1>2 DEF PositionBooks

(* Of a live position the stop and the processed event never go back, the  *)
(* version moves with every change, a latched exit stays latched, and a    *)
(* closed row is final: a late lane cannot write what it computed from an  *)
(* older row (persistRealtimeQuote, advanceLiquidityPosition).             *)
THEOREM LateLanesCannotLoosen == Spec => ProtectionNeverLoosens
<1> DEFINE Step == \A k \in Signals :
       /\ position[k].status = "OPEN" => RowAdvances(position[k], position'[k])
       /\ position[k].status = "CLOSED" => position'[k] = position[k]
<1>1. Init => PositionBooks
  <2> SUFFICES ASSUME Init PROVE PositionBooks
    OBVIOUS
  <2>1. \A k \in Signals : position[k].event <= Len(journal[k[2]])
    BY DEF Init, NoPosition, PositionRow, Signals
  <2>2. \A w \in PositionLanes : snap[w].lane # "position"
    BY DEF Init, Idle, Lanes
  <2> QED
    BY <2>1, <2>2 DEF PositionBooks, SnapFresh
<1>2. TypeOK /\ Books /\ PositionBooks /\ [Next]_vars => Step
  <2> SUFFICES ASSUME TypeOK, Books, PositionBooks, [Next]_vars, NEW k \in Signals
               PROVE  /\ position[k].status = "OPEN" => RowAdvances(position[k], position'[k])
                      /\ position[k].status = "CLOSED" => position'[k] = position[k]
    OBVIOUS
  <2>1. Succeeds(k, position'[k])
    BY RowOutcome
  <2>2. RowAdvances(position[k], position[k])
    BY DEF RowAdvances, TypeOK, Position
  <2> QED
    BY <2>1, <2>2 DEF Succeeds
<1>3. Spec => []PositionBooks
  BY <1>1, PositionBooksStep, Typing, BooksInvariant, PTL DEF Spec
<1>4. Spec => [][Step]_vars
  <2>1. TypeOK /\ Books /\ PositionBooks /\ [Next]_vars => [Step]_vars
    BY <1>2
  <2> QED
    BY <1>3, <2>1, Typing, BooksInvariant, PTL DEF Spec
<1> QED
  BY <1>4, PTL DEF ProtectionNeverLoosens

-----------------------------------------------------------------------------
(***************************************************************************)
(* RuntimeLedger implements SignalLifecycle: every behaviour of its rows,  *)
(* read through StageOf, is one of the lifecycle of a signal, for every    *)
(* number of runs, symbols, candles, events, worker loops and commands.    *)
(*                                                                         *)
(* The proof has three parts: what the abstract actions ask of the stages, *)
(* in terms of StageOf; which stages a step leaves alone; and, action by   *)
(* action, which abstract step it takes.  It rests on the invariants above.*)
(***************************************************************************)
Stage == [k \in Signals |-> StageOf(k)]
Traded == {k \in Signals : trades[k] > 0}
ActiveRuns == {r \in Runs : runStatus[r] = "RUNNING"}
FinishedRuns == {r \in Runs : runStatus[r] = "COMPLETED"}

SameRuns == ActiveRuns' = ActiveRuns /\ FinishedRuns' = FinishedRuns
OnlyStage(j) == \A k \in Signals : k # j => StageOf(k)' = StageOf(k)

(* A stage that changes alone.                                             *)
LEMMA OneStage ==
  ASSUME NEW j \in Signals, OnlyStage(j)
  PROVE  Stage' = [Stage EXCEPT ![j] = StageOf(j)']
  BY DEF Stage, OnlyStage

(* No stage changes.                                                       *)
LEMMA NoStage ==
  ASSUME \A k \in Signals : StageOf(k)' = StageOf(k)
  PROVE  Stage' = Stage
  BY DEF Stage

(* A signal without a position is waiting, ended or unseen.                *)
LEMMA WaitingStages ==
  ASSUME NEW k
  PROVE  /\ WaitingStage(k) \in {"pending", "ordered", "ended", "unseen"}
         /\ IsPending(k[1], k[2], k[3]) <=> WaitingStage(k) \in {"pending", "ordered"}
  BY DEF WaitingStage

(* A signal whose rows do not change keeps its stage.                      *)
LEMMA StageSame ==
  ASSUME NEW k \in Signals, position'[k] = position[k], ended'[k] = ended[k],
         cursor'[<<k[1], k[2]>>] = cursor[<<k[1], k[2]>>]
  PROVE  StageOf(k)' = StageOf(k)
  BY DEF StageOf, WaitingStage, HeldStage, IsPending

(* Once it has a position, the cursor and the decisions no longer matter.  *)
LEMMA StageHeld ==
  ASSUME NEW k \in Signals, position[k].status # "ABSENT", position'[k] = position[k]
  PROVE  StageOf(k)' = StageOf(k)
  BY DEF StageOf, HeldStage

(* A step on the cursor of the signal it names leaves the stages of all    *)
(* other signals alone, those of the same symbol included.                 *)
LEMMA OthersSame ==
  ASSUME NEW j \in Signals,
         cursor[<<j[1], j[2]>>].evaluated = j[3], cursor'[<<j[1], j[2]>>].evaluated = j[3],
         \A l \in Runs \X Symbols : l # <<j[1], j[2]>> => cursor'[l] = cursor[l],
         \A k \in Signals : k # j => position'[k] = position[k] /\ ended'[k] = ended[k]
  PROVE  OnlyStage(j)
<1> SUFFICES ASSUME NEW k \in Signals, k # j PROVE StageOf(k)' = StageOf(k)
  BY DEF OnlyStage
<1>1. position'[k] = position[k] /\ ended'[k] = ended[k]
  OBVIOUS
<1>2. CASE <<k[1], k[2]>> # <<j[1], j[2]>>
  <2>1. cursor'[<<k[1], k[2]>>] = cursor[<<k[1], k[2]>>]
    BY <1>2 DEF Signals
  <2> QED
    BY <1>1, <2>1, StageSame
<1>3. CASE <<k[1], k[2]>> = <<j[1], j[2]>>
  <2>1. k[3] # j[3] /\ k[1] = j[1] /\ k[2] = j[2]
    BY <1>3 DEF Signals
  <2>2. ~IsPending(k[1], k[2], k[3]) /\ ~IsPending(k[1], k[2], k[3])'
    BY <2>1 DEF IsPending
  <2>3. WaitingStage(k)' = WaitingStage(k)
    BY <1>1, <2>2 DEF WaitingStage
  <2> QED
    BY <1>1, <2>3 DEF StageOf, HeldStage
<1> QED
  BY <1>2, <1>3

(* A waiting signal ends without a trade.                                  *)
LEMMA LifeEnds ==
  ASSUME NEW j \in Signals, StageOf(j) \in {"pending", "ordered"}, StageOf(j)' = "ended",
         OnlyStage(j), SameRuns, Traded' = Traded
  PROVE  Life!LifeNext
<1>1. Stage[j] \in {"pending", "ordered"} /\ Stage' = [Stage EXCEPT ![j] = "ended"]
  BY OneStage DEF Stage
<1>2. Life!EndWithoutTrade(j)
  BY <1>1 DEF Life!EndWithoutTrade, Life!Waiting, SameRuns, Stage, Traded, ActiveRuns, FinishedRuns
<1>3. j \in Life!Signals
  BY DEF Signals, Life!Signals
<1> QED
  BY <1>2, <1>3 DEF Life!LifeNext

(* A pending signal is placed as an order.                                 *)
LEMMA LifePlaces ==
  ASSUME NEW j \in Signals, StageOf(j) = "pending", StageOf(j)' = "ordered",
         j[1] \in ActiveRuns, OnlyStage(j), SameRuns, Traded' = Traded
  PROVE  Life!LifeNext
<1>1. Stage[j] = "pending" /\ Stage' = [Stage EXCEPT ![j] = "ordered"]
  BY OneStage DEF Stage
<1>2. Life!Place(j)
  BY <1>1 DEF Life!Place, SameRuns, Stage, Traded, ActiveRuns, FinishedRuns
<1>3. j \in Life!Signals
  BY DEF Signals, Life!Signals
<1> QED
  BY <1>2, <1>3 DEF Life!LifeNext

(* The exit of an open position is latched.                                *)
LEMMA LifeLatches ==
  ASSUME NEW j \in Signals, StageOf(j) = "open", StageOf(j)' = "exiting",
         OnlyStage(j), SameRuns, Traded' = Traded
  PROVE  Life!LifeNext
<1>1. Stage[j] = "open" /\ Stage' = [Stage EXCEPT ![j] = "exiting"]
  BY OneStage DEF Stage
<1>2. Life!Latch(j)
  BY <1>1 DEF Life!Latch, SameRuns, Stage, Traded, ActiveRuns, FinishedRuns
<1>3. j \in Life!Signals
  BY DEF Signals, Life!Signals
<1> QED
  BY <1>2, <1>3 DEF Life!LifeNext

(* A position closes with its one trade.                                   *)
LEMMA LifeCloses ==
  ASSUME NEW j \in Signals, StageOf(j) \in {"open", "exiting"}, StageOf(j)' = "closed",
         j \notin Traded, Traded' = Traded \cup {j}, OnlyStage(j), SameRuns
  PROVE  Life!LifeNext
<1>1. Stage[j] \in {"open", "exiting"} /\ Stage' = [Stage EXCEPT ![j] = "closed"]
  BY OneStage DEF Stage
<1>2. Life!Close(j)
  BY <1>1 DEF Life!Close, Life!Live, SameRuns, Stage, Traded, ActiveRuns, FinishedRuns
<1>3. j \in Life!Signals
  BY DEF Signals, Life!Signals
<1> QED
  BY <1>2, <1>3 DEF Life!LifeNext

(* What a run holds is what is open in it.                                 *)
LEMMA HeldIsOpen ==
  ASSUME TypeOK, NEW r \in Runs
  PROVE  Life!HeldBy(r) = OpenOf(r)
<1>1. ASSUME NEW k \in Signals
      PROVE  StageOf(k) \in {"open", "exiting"} <=> position[k].status = "OPEN"
  <2>1. position[k].status \in {"ABSENT", "OPEN", "CLOSED"}
    BY DEF TypeOK, Position
  <2> QED
    BY <2>1, WaitingStages DEF StageOf, HeldStage
<1> QED
  BY <1>1 DEF Life!HeldBy, Life!Live, Life!Signals, Signals, OpenOf

(* The abstract module counts as this one does.                            *)
LEMMA SameCount ==
  ASSUME NEW S
  PROVE  Life!Cardinality(S) = Cardinality(S)
  BY DEF Life!Cardinality, Cardinality

(* An order becomes a position, which may be latched or closed at once.    *)
LEMMA LifeEnters ==
  ASSUME TypeOK, NEW j \in Signals, NEW to \in {"open", "exiting", "closed"},
         StageOf(j) = "ordered", StageOf(j)' = to, j[1] \in ActiveRuns,
         CapacityLeft(j[1]), Traded' = IF to = "closed" THEN Traded \cup {j} ELSE Traded,
         OnlyStage(j), SameRuns
  PROVE  Life!LifeNext
<1>1. Stage[j] = "ordered" /\ Stage' = [Stage EXCEPT ![j] = to]
  BY OneStage DEF Stage
<1>2. Life!Cardinality(Life!HeldBy(j[1])) < MaxOpenPositions
  BY HeldIsOpen, SameCount DEF CapacityLeft, Signals
<1>3. Life!Enter(j, to)
  <2>1. CASE to = "closed"
    <3>1. Traded' = Traded \cup {j}
      BY <2>1
    <3> QED
      BY <1>1, <1>2, <2>1, <3>1 DEF Life!Enter, SameRuns, Stage, Traded, ActiveRuns, FinishedRuns
  <2>2. CASE to # "closed"
    <3>1. Traded' = Traded
      BY <2>2
    <3> QED
      BY <1>1, <1>2, <2>2, <3>1 DEF Life!Enter, SameRuns, Stage, Traded, ActiveRuns, FinishedRuns
  <2> QED
    BY <2>1, <2>2
<1>4. j \in Life!Signals /\ to \in Life!Live \cup {"closed"}
  BY DEF Signals, Life!Signals, Life!Live
<1> QED
  BY <1>3, <1>4 DEF Life!LifeNext

(* A signal is observed, and the one of its symbol that waited ends.       *)
LEMMA LifeObserves ==
  ASSUME TypeOK, NEW r \in Runs, NEW s \in Symbols, NEW c \in Candles, r \in ActiveRuns,
         \A d \in Candles : StageOf(<<r, s, d>>) # "unseen" => d < c,
         SymbolFree(r, s),
         StageOf(<<r, s, c>>)' = "pending",
         \A k \in Signals : k # <<r, s, c>> => StageOf(k)' =
            IF k[1] = r /\ k[2] = s /\ StageOf(k) \in {"pending", "ordered"} THEN "ended"
            ELSE StageOf(k),
         SameRuns, Traded' = Traded
  PROVE  Life!LifeNext
<1>1. \A k \in Life!HeldBy(r) : k[2] # s
  BY HeldIsOpen DEF SymbolFree, HasOpen, IsOpen, OpenOf, Signals
<1>2. \A d \in Life!SeenOf(r, s) : d < c
  BY DEF Life!SeenOf, Signals
<1>3. \A k \in Signals : k \in Life!WaitingOf(r, s) <=>
         k[1] = r /\ k[2] = s /\ StageOf(k) \in {"pending", "ordered"}
  <2> SUFFICES ASSUME NEW k \in Signals
               PROVE  k \in Life!WaitingOf(r, s) <=>
                         k[1] = r /\ k[2] = s /\ StageOf(k) \in {"pending", "ordered"}
    OBVIOUS
  <2>1. k = <<k[1], k[2], k[3]>> /\ k[3] \in Candles
    BY DEF Signals
  <2>2. Life!WaitingOf(r, s) =
          {<<r, s, d>> : d \in {x \in Candles : Stage[<<r, s, x>>] \in {"pending", "ordered"}}}
    BY DEF Life!WaitingOf, Life!Waiting, Stage
  <2>3. \A d \in Candles : Stage[<<r, s, d>>] = StageOf(<<r, s, d>>)
    BY DEF Stage, Signals
  <2>4. ASSUME k \in Life!WaitingOf(r, s)
        PROVE  k[1] = r /\ k[2] = s /\ StageOf(k) \in {"pending", "ordered"}
    <3>1. PICK d \in Candles : k = <<r, s, d>> /\ Stage[<<r, s, d>>] \in {"pending", "ordered"}
      BY <2>2, <2>4
    <3> QED
      BY <2>3, <3>1
  <2>5. ASSUME k[1] = r, k[2] = s, StageOf(k) \in {"pending", "ordered"}
        PROVE  k \in Life!WaitingOf(r, s)
    BY <2>1, <2>2, <2>3, <2>5
  <2> QED
    BY <2>4, <2>5
<1>4. Stage' = [k \in Signals |-> IF k = <<r, s, c>> THEN "pending"
                                 ELSE IF k \in Life!WaitingOf(r, s) THEN "ended" ELSE Stage[k]]
  BY <1>3 DEF Stage
<1>5. Life!Observe(r, s, c)
  BY <1>1, <1>2, <1>4 DEF Life!Observe, SameRuns, Stage, Traded, ActiveRuns, FinishedRuns,
                          Life!Signals, Signals
<1> QED
  BY <1>5 DEF Life!LifeNext

(* Nothing of the lifecycle changes.                                       *)
LEMMA LifeStutters ==
  ASSUME \A k \in Signals : StageOf(k)' = StageOf(k), SameRuns, Traded' = Traded
  PROVE  UNCHANGED Life!lifeVars
<1>1. Stage' = Stage
  BY NoStage
<1> QED
  BY <1>1 DEF Life!lifeVars, SameRuns, Stage, Traded, ActiveRuns, FinishedRuns

(* A step on one position leaves the stages of the other signals alone.    *)
LEMMA OnlyPosition ==
  ASSUME NEW j \in Signals, cursor' = cursor, ended' = ended,
         \A k \in Signals : k # j => position'[k] = position[k]
  PROVE  OnlyStage(j)
  BY StageSame DEF OnlyStage

(* At most one run is active, and only while its deployment is RUNNING or  *)
(* PAUSED.                                                                 *)
OneRun == \A r \in Runs : runStatus[r] = "RUNNING" =>
  /\ deployment \in {"RUNNING", "PAUSED"}
  /\ \A q \in Runs : runStatus[q] = "RUNNING" => q = r

(* Only the deployment commands start, pause, resume and stop a run.       *)
LEMMA OneRunStep ==
  TypeOK /\ OneRun /\ [Next]_vars => OneRun'
<1> SUFFICES ASSUME TypeOK, OneRun, [Next]_vars PROVE OneRun'
  OBVIOUS
<1> DEFINE Same == deployment' = deployment /\ runStatus' = runStatus
<1>1. CASE Same
  BY <1>1 DEF OneRun
<1>2. CASE Commands
  <2>1. ASSUME NEW r \in Runs, Start(r) PROVE OneRun'
    BY <2>1 DEF Start, StartAllowed, OneRun, TypeOK
  <2>2. ASSUME NEW r \in Runs, Stop(r) PROVE OneRun'
    BY <2>2 DEF Stop, OneRun, TypeOK
  <2>3. Pause \/ Resume => OneRun'
    BY DEF Pause, Resume, OneRun
  <2>4. ASSUME NEW i \in CommandKeys, NEW r \in Runs, NEW s \in Symbols, NEW c \in Candles,
               RequestManualExit(i, r, s, c) \/ CloseManually(i, r, s, c)
        PROVE  Same
    BY <2>4 DEF RequestManualExit, CloseManually
  <2> QED
    BY <1>1, <1>2, <2>1, <2>2, <2>3, <2>4 DEF Commands
<1>3. CASE World
  BY <1>1, <1>3 DEF World, ReceiveEvent, Expire
<1>4. CASE CancelStep
  BY <1>1, <1>4 DEF CancelStep, CancelInactiveOrder
<1>5. ASSUME NEW w \in CycleLanes, CycleStep(w) PROVE Same
  BY <1>5 DEF CycleStep, LoadCycle, PersistCycle
<1>6. ASSUME NEW w \in EntryLanes, EntryStep(w) PROVE Same
  <2>1. ASSUME NEW e \in 0..MaxEvent, NEW flag \in BOOLEAN, SubmitEntryOrder(w, e, flag)
        PROVE  Same
    BY <2>1 DEF SubmitEntryOrder
  <2>2. ASSUME NEW e \in 0..MaxEvent, NEW flag \in BOOLEAN, FillEntry(w, e, flag)
        PROVE  Same
    BY <2>2 DEF FillEntry
  <2>3. ASSUME NEW e \in 0..MaxEvent, NEW flag \in BOOLEAN, AdvancePendingEntry(w, e, flag)
        PROVE  Same
    BY <2>3 DEF AdvancePendingEntry
  <2> QED
    BY <1>6, <2>1, <2>2, <2>3 DEF EntryStep, LoadEntry
<1>7. ASSUME NEW w \in PositionLanes, PositionStep(w) PROVE Same
  BY <1>7 DEF PositionStep, LoadPosition, UpdatePosition, ExitPosition, AdvanceExit
<1> QED
  BY <1>1, <1>2, <1>3, <1>4, <1>5, <1>6, <1>7 DEF Next, vars

(* START and STOP begin and finish the run; PAUSE and RESUME are not seen. *)
LEMMA CommandImplements ==
  ASSUME TypeOK, OneRun, NEW r \in Runs, Start(r) \/ Stop(r) \/ Pause \/ Resume
  PROVE  Life!LifeNext \/ UNCHANGED Life!lifeVars
<1>1. Stage' = Stage /\ Traded' = Traded
  <2>1. position' = position /\ ended' = ended /\ cursor' = cursor /\ trades' = trades
    BY DEF Start, Stop, Pause, Resume
  <2>2. \A k \in Signals : StageOf(k)' = StageOf(k)
    BY <2>1, StageSame
  <2> QED
    BY <2>1, <2>2, NoStage DEF Traded
<1>2. CASE Start(r)
  <2>1. ActiveRuns = {} /\ ActiveRuns' = {r} /\ FinishedRuns' = FinishedRuns /\ r \notin FinishedRuns
    BY <1>2 DEF Start, StartAllowed, OneRun, TypeOK, ActiveRuns, FinishedRuns
  <2>2. Life!Begin(r)
    BY <1>1, <2>1 DEF Life!Begin, Stage, Traded, ActiveRuns, FinishedRuns
  <2> QED
    BY <2>2 DEF Life!LifeNext
<1>3. CASE Stop(r)
  <2>1. r \in ActiveRuns /\ ActiveRuns' = {} /\ FinishedRuns' = FinishedRuns \cup {r}
    BY <1>3 DEF Stop, OneRun, TypeOK, ActiveRuns, FinishedRuns
  <2>2. Life!HeldBy(r) = {}
    BY <1>3, HeldIsOpen DEF Stop, IsFlat
  <2>3. Life!Finish(r)
    BY <1>1, <2>1, <2>2 DEF Life!Finish, Stage, Traded, ActiveRuns, FinishedRuns
  <2> QED
    BY <2>3 DEF Life!LifeNext
<1>4. CASE Pause \/ Resume
  <2>1. SameRuns
    BY <1>4 DEF Pause, Resume, SameRuns, ActiveRuns, FinishedRuns
  <2> QED
    BY <1>1, <2>1 DEF Life!lifeVars, SameRuns, Stage, Traded, ActiveRuns, FinishedRuns
<1> QED
  BY <1>2, <1>3, <1>4

(* What the rows of a pending signal say of its stage.                     *)
LEMMA PendingStage ==
  ASSUME TypeOK, Books, NEW j \in Signals, IsPending(j[1], j[2], j[3])
  PROVE  /\ position[j].status = "ABSENT"
         /\ cursor[<<j[1], j[2]>>].pending = "SIGNAL" => StageOf(j) = "pending"
         /\ cursor[<<j[1], j[2]>>].pending = "ORDERED" => StageOf(j) = "ordered"
         /\ StageOf(j) \in {"pending", "ordered"}
<1>1. SignalBooks(j[1], j[2], j[3]) /\ j = <<j[1], j[2], j[3]>>
  BY DEF Books, Signals
<1>2. cursor[<<j[1], j[2]>>].pending \in {"SIGNAL", "ORDERED"}
  <2>1. cursor[<<j[1], j[2]>>] \in Cursor
    BY DEF TypeOK, Signals
  <2> QED
    BY <2>1 DEF Cursor, PendingState, IsPending
<1>3. position[j].status = "ABSENT"
  <2>1. order[j].status # "FILLED"
    BY <1>1, <1>2 DEF SignalBooks, IsPending
  <2> QED
    BY <1>1, <2>1 DEF SignalBooks
<1> QED
  BY <1>2, <1>3 DEF StageOf, WaitingStage, IsPending

(* A signal that was waiting and was decided has ended.                    *)
LEMMA DecidedStage ==
  ASSUME TypeOK, NEW j \in Signals, position'[j].status = "ABSENT",
         ~IsPending(j[1], j[2], j[3])', ended'[j] = ended[j] + 1
  PROVE  StageOf(j)' = "ended"
<1>1. ended'[j] > 0
  BY DEF TypeOK
<1> QED
  BY <1>1 DEF StageOf, WaitingStage

(* A step that replaces the cursor of the signal it names.                 *)
LEMMA CursorStep ==
  ASSUME TypeOK, NEW j \in Signals, cursor[<<j[1], j[2]>>].evaluated = j[3],
         NEW row, row.evaluated = j[3], cursor' = [cursor EXCEPT ![<<j[1], j[2]>>] = row],
         \A k \in Signals : k # j => position'[k] = position[k] /\ ended'[k] = ended[k]
  PROVE  OnlyStage(j) /\ cursor'[<<j[1], j[2]>>] = row
<1>1. <<j[1], j[2]>> \in Runs \X Symbols
  BY DEF Signals
<1>2. cursor'[<<j[1], j[2]>>] = row
        /\ \A l \in Runs \X Symbols : l # <<j[1], j[2]>> => cursor'[l] = cursor[l]
  BY <1>1 DEF TypeOK
<1> QED
  BY <1>2, OthersSame

(* The signal an entry lane works on is pending when it writes.            *)
LEMMA EntrySignal ==
  ASSUME TypeOK, NEW w \in EntryLanes, snap[w].lane = "entry", CursorAsLoaded(snap[w])
  PROVE  LET j == <<snap[w].run, snap[w].symbol, snap[w].candle>> IN
         /\ j \in Signals
         /\ cursor[<<snap[w].run, snap[w].symbol>>].evaluated = snap[w].candle
         /\ IsPending(snap[w].run, snap[w].symbol, snap[w].candle)
<1>1. snap[w] \in EntrySnap
  BY SnapKind DEF Lanes
<1> QED
  BY <1>1 DEF EntrySnap, Signals, CursorAsLoaded, IsPending

(* A submission places the signal, or ends it when its price would cross.  *)
LEMMA SubmitImplements ==
  ASSUME TypeOK, Books, NEW w \in EntryLanes, NEW e \in 0..MaxEvent, NEW crosses \in BOOLEAN,
         SubmitEntryOrder(w, e, crosses)
  PROVE  Life!LifeNext
<1>0. PICK j \in Signals : j = <<snap[w].run, snap[w].symbol, snap[w].candle>>
  BY EntrySignal DEF SubmitEntryOrder
<1> DEFINE row == CursorAt(j[3], IF crosses THEN "NONE" ELSE "ORDERED", e)
<1>1. /\ cursor[<<j[1], j[2]>>].evaluated = j[3] /\ IsPending(j[1], j[2], j[3])
      /\ cursor[<<j[1], j[2]>>].pending = "SIGNAL" /\ runStatus[j[1]] = "RUNNING"
      /\ cursor' = [cursor EXCEPT ![<<j[1], j[2]>>] = row]
      /\ ended' = IF crosses THEN [ended EXCEPT ![j] = @ + 1] ELSE ended
      /\ position' = position /\ runStatus' = runStatus /\ trades' = trades
  BY <1>0, EntrySignal DEF SubmitEntryOrder, EntriesAllowed
<1>2. row.evaluated = j[3] /\ row.pending = IF crosses THEN "NONE" ELSE "ORDERED"
  BY DEF CursorAt
<1> HIDE DEF row
<1>3. SameRuns /\ Traded' = Traded
  BY <1>1 DEF SameRuns, ActiveRuns, FinishedRuns, Traded
<1>4. \A k \in Signals : k # j => position'[k] = position[k] /\ ended'[k] = ended[k]
  BY <1>1 DEF TypeOK
<1>5. OnlyStage(j) /\ cursor'[<<j[1], j[2]>>] = row
  BY <1>1, <1>2, <1>4, CursorStep
<1>6. StageOf(j) = "pending" /\ position[j].status = "ABSENT"
  BY <1>1, PendingStage
<1>7. CASE crosses
  <2>1. ended'[j] = ended[j] + 1 /\ ~IsPending(j[1], j[2], j[3])'
    BY <1>1, <1>2, <1>5, <1>7 DEF TypeOK, IsPending
  <2>2. StageOf(j)' = "ended"
    BY <1>1, <1>6, <2>1, DecidedStage
  <2> QED
    BY <1>1, <1>3, <1>5, <1>6, <2>2, LifeEnds
<1>8. CASE ~crosses
  <2>1. StageOf(j)' = "ordered"
    BY <1>1, <1>2, <1>5, <1>6, <1>8 DEF StageOf, WaitingStage, IsPending
  <2>2. j[1] \in ActiveRuns
    BY <1>1 DEF ActiveRuns, Signals
  <2> QED
    BY <1>1, <1>3, <1>5, <1>6, <2>1, <2>2, LifePlaces
<1> QED
  BY <1>7, <1>8

(* A fill makes the order a position while the run has room for it.        *)
LEMMA FillImplements ==
  ASSUME TypeOK, Books, TradeIffClosed, NEW w \in EntryLanes, NEW e \in 0..MaxEvent,
         NEW crossed \in BOOLEAN, FillEntry(w, e, crossed)
  PROVE  Life!LifeNext
<1>0. PICK j \in Signals : j = <<snap[w].run, snap[w].symbol, snap[w].candle>>
  BY EntrySignal DEF FillEntry
<1> DEFINE row == CursorAt(j[3], "NONE", e)
           held == FilledPosition(j[1], e, crossed)
<1>1. /\ cursor[<<j[1], j[2]>>].evaluated = j[3] /\ IsPending(j[1], j[2], j[3])
      /\ order[j].status = "OPEN" /\ runStatus[j[1]] = "RUNNING" /\ CapacityLeft(j[1])
      /\ cursor' = [cursor EXCEPT ![<<j[1], j[2]>>] = row]
      /\ ended' = [ended EXCEPT ![j] = @ + 1]
      /\ position' = [position EXCEPT ![j] = held]
      /\ trades' = IF held.status = "CLOSED" THEN [trades EXCEPT ![j] = @ + 1] ELSE trades
      /\ runStatus' = runStatus
  BY <1>0, EntrySignal DEF FillEntry, FillableEvent, EntriesAllowed
<1>2. row.evaluated = j[3] /\ held.status \in {"OPEN", "CLOSED"}
  BY DEF CursorAt, FilledPosition, PositionRow
<1> HIDE DEF row, held
<1>3. SameRuns /\ j[1] \in ActiveRuns
  BY <1>1 DEF SameRuns, ActiveRuns, FinishedRuns, Signals
<1>4. \A k \in Signals : k # j => position'[k] = position[k] /\ ended'[k] = ended[k]
  BY <1>1 DEF TypeOK
<1>5. OnlyStage(j)
  BY <1>1, <1>2, <1>4, CursorStep
<1>6. StageOf(j) = "ordered"
  <2>1. SignalBooks(j[1], j[2], j[3]) /\ j = <<j[1], j[2], j[3]>>
    BY <1>1 DEF Books, Signals
  <2>2. cursor[<<j[1], j[2]>>].pending = "ORDERED"
    BY <1>1, <2>1 DEF SignalBooks
  <2> QED
    BY <1>1, <2>2, PendingStage
<1>7. position'[j] = held
  BY <1>1 DEF TypeOK
<1> DEFINE to == HeldStage(held)
<1>8. StageOf(j)' = to /\ to \in {"open", "exiting", "closed"} /\ (to = "closed" <=> held.status = "CLOSED")
  BY <1>2, <1>7 DEF StageOf, HeldStage
<1>9. Traded' = IF to = "closed" THEN Traded \cup {j} ELSE Traded
  <2>1. CASE held.status = "CLOSED"
    <3>1. trades' = [trades EXCEPT ![j] = @ + 1]
      BY <1>1, <2>1
    <3>2. \A k \in Signals : trades'[k] > 0 <=> trades[k] > 0 \/ k = j
      BY <1>1, <3>1 DEF TypeOK
    <3> QED
      BY <1>1, <1>8, <2>1, <3>2 DEF Traded
  <2>2. CASE held.status # "CLOSED"
    BY <1>1, <1>8, <2>2 DEF Traded
  <2> QED
    BY <2>1, <2>2
<1> HIDE DEF to
<1> QED
  BY <1>1, <1>3, <1>5, <1>6, <1>8, <1>9, LifeEnters

(* Moving the cursor past an event is not seen; a signal that is over ends.*)
LEMMA AdvanceImplements ==
  ASSUME TypeOK, Books, NEW w \in EntryLanes, NEW e \in 0..MaxEvent, NEW rejected \in BOOLEAN,
         AdvancePendingEntry(w, e, rejected)
  PROVE  Life!LifeNext \/ UNCHANGED Life!lifeVars
<1>0. PICK j \in Signals : j = <<snap[w].run, snap[w].symbol, snap[w].candle>>
  BY EntrySignal DEF AdvancePendingEntry
<1> DEFINE over == EntryOver(j, rejected, e, snap[w].event)
           pending == IF over THEN "NONE" ELSE cursor[<<j[1], j[2]>>].pending
           row == CursorAt(j[3], pending, e)
<1>1. /\ cursor[<<j[1], j[2]>>].evaluated = j[3] /\ IsPending(j[1], j[2], j[3])
      /\ cursor' = [cursor EXCEPT ![<<j[1], j[2]>>] = row]
      /\ ended' = IF over THEN [ended EXCEPT ![j] = @ + 1] ELSE ended
      /\ position' = position /\ runStatus' = runStatus /\ trades' = trades
  BY <1>0, EntrySignal DEF AdvancePendingEntry
<1>2. row.evaluated = j[3] /\ row.pending = pending
  BY DEF CursorAt
<1>3. pending = IF over THEN "NONE" ELSE cursor[<<j[1], j[2]>>].pending
  OBVIOUS
<1> HIDE DEF row, over, pending
<1>4. SameRuns /\ Traded' = Traded
  BY <1>1 DEF SameRuns, ActiveRuns, FinishedRuns, Traded
<1>5. \A k \in Signals : k # j => position'[k] = position[k] /\ ended'[k] = ended[k]
  BY <1>1 DEF TypeOK
<1>6. OnlyStage(j) /\ cursor'[<<j[1], j[2]>>] = row
  BY <1>1, <1>2, <1>5, CursorStep
<1>7. StageOf(j) \in {"pending", "ordered"} /\ position[j].status = "ABSENT"
  BY <1>1, PendingStage
<1>8. CASE over
  <2>1. ended'[j] = ended[j] + 1 /\ ~IsPending(j[1], j[2], j[3])'
    BY <1>1, <1>2, <1>3, <1>6, <1>8 DEF TypeOK, IsPending
  <2>2. StageOf(j)' = "ended"
    BY <1>1, <1>7, <2>1, DecidedStage
  <2> QED
    BY <1>1, <1>4, <1>6, <1>7, <2>2, LifeEnds
<1>9. CASE ~over
  <2>1. StageOf(j)' = StageOf(j)
    BY <1>1, <1>2, <1>3, <1>6, <1>7, <1>9 DEF StageOf, WaitingStage, IsPending
  <2> QED
    BY <1>4, <1>6, <2>1, LifeStutters DEF OnlyStage
<1> QED
  BY <1>8, <1>9

(* Cancelling an order ends the signal whose cursor still names it; by the *)
(* books there always is one.                                              *)
LEMMA CancelImplements ==
  ASSUME TypeOK, Books, NEW r \in Runs, NEW s \in Symbols, NEW c \in Candles,
         CancelInactiveOrder(r, s, c)
  PROVE  Life!LifeNext
<1> DEFINE j == <<r, s, c>>
           row == CursorAt(c, "NONE", cursor[<<r, s>>].event)
<1>1. SignalBooks(r, s, c) /\ j \in Signals
  BY DEF Books, Signals
<1>2. cursor[<<r, s>>].pending = "ORDERED" /\ cursor[<<r, s>>].evaluated = c
  BY <1>1 DEF CancelInactiveOrder, SignalBooks
<1>3. /\ cursor' = [cursor EXCEPT ![<<j[1], j[2]>>] = row]
      /\ ended' = [ended EXCEPT ![j] = @ + 1]
      /\ cursor[<<j[1], j[2]>>].evaluated = j[3] /\ IsPending(j[1], j[2], j[3])
      /\ position' = position /\ runStatus' = runStatus /\ trades' = trades
  BY <1>2 DEF CancelInactiveOrder, IsPending
<1>4. row.evaluated = j[3] /\ row.pending = "NONE"
  BY DEF CursorAt
<1>5. j \in Signals
  BY <1>1
<1> HIDE DEF row, j
<1>6. SameRuns /\ Traded' = Traded
  BY <1>3 DEF SameRuns, ActiveRuns, FinishedRuns, Traded
<1>7. /\ \A k \in Signals : k # j => position'[k] = position[k] /\ ended'[k] = ended[k]
      /\ ended'[j] = ended[j] + 1
  BY <1>3, <1>5 DEF TypeOK
<1>8. OnlyStage(j) /\ cursor'[<<j[1], j[2]>>] = row
  BY <1>3, <1>4, <1>5, <1>7, CursorStep
<1>9. StageOf(j) \in {"pending", "ordered"} /\ position[j].status = "ABSENT"
  BY <1>3, <1>5, PendingStage
<1>10. ~IsPending(j[1], j[2], j[3])'
  BY <1>4, <1>8 DEF IsPending
<1>11. StageOf(j)' = "ended"
  BY <1>3, <1>5, <1>7, <1>9, <1>10, DecidedStage
<1> QED
  BY <1>5, <1>6, <1>8, <1>9, <1>11, LifeEnds

(* A step that leaves a position open latches its exit or is not seen.     *)
LEMMA OpenImplements ==
  ASSUME TypeOK, NEW j \in Signals, position[j].status = "OPEN",
         NEW row, row.status = "OPEN", position[j].exiting => row.exiting,
         position' = [position EXCEPT ![j] = row], trades' = trades,
         cursor' = cursor, ended' = ended, runStatus' = runStatus
  PROVE  Life!LifeNext \/ UNCHANGED Life!lifeVars
<1>1. position'[j] = row /\ OnlyStage(j)
  <2>1. \A k \in Signals : k # j => position'[k] = position[k]
    BY DEF TypeOK
  <2> QED
    BY <2>1, OnlyPosition DEF TypeOK
<1>2. SameRuns /\ Traded' = Traded
  BY DEF SameRuns, ActiveRuns, FinishedRuns, Traded
<1>3. StageOf(j) = IF position[j].exiting THEN "exiting" ELSE "open"
  BY DEF StageOf, HeldStage
<1>4. StageOf(j)' = IF row.exiting THEN "exiting" ELSE "open"
  BY <1>1 DEF StageOf, HeldStage
<1>5. CASE StageOf(j)' = StageOf(j)
  BY <1>1, <1>2, <1>5, LifeStutters DEF OnlyStage
<1>6. CASE StageOf(j)' # StageOf(j)
  <2>1. StageOf(j) = "open" /\ StageOf(j)' = "exiting"
    BY <1>3, <1>4, <1>6
  <2> QED
    BY <1>1, <1>2, <2>1, LifeLatches
<1> QED
  BY <1>5, <1>6

(* A step that closes a position writes its first trade.                   *)
LEMMA CloseImplements ==
  ASSUME TypeOK, TradeIffClosed, NEW j \in Signals, position[j].status = "OPEN",
         NEW row, row.status = "CLOSED", position' = [position EXCEPT ![j] = row],
         trades' = [trades EXCEPT ![j] = @ + 1],
         cursor' = cursor, ended' = ended, runStatus' = runStatus
  PROVE  Life!LifeNext
<1>1. position'[j] = row /\ OnlyStage(j)
  <2>1. \A k \in Signals : k # j => position'[k] = position[k]
    BY DEF TypeOK
  <2> QED
    BY <2>1, OnlyPosition DEF TypeOK
<1>2. SameRuns
  BY DEF SameRuns, ActiveRuns, FinishedRuns
<1>3. StageOf(j) \in {"open", "exiting"}
  BY DEF StageOf, HeldStage
<1>4. StageOf(j)' = "closed"
  BY <1>1 DEF StageOf, HeldStage
<1>5. trades[j] = 0
  BY DEF TradeIffClosed
<1>6. \A k \in Signals : trades'[k] > 0 <=> trades[k] > 0 \/ k = j
  BY <1>5 DEF TypeOK
<1>7. Traded' = Traded \cup {j} /\ j \notin Traded
  BY <1>5, <1>6 DEF Traded
<1> QED
  BY <1>1, <1>2, <1>3, <1>4, <1>7, LifeCloses

(* The quote loop, the protection loop and the order-book exit.            *)
LEMMA LaneImplements ==
  ASSUME TypeOK, TradeIffClosed, NEW w \in PositionLanes, NEW e \in 0..MaxEvent,
         NEW stop \in 0..MaxStop, NEW done \in BOOLEAN,
         UpdatePosition(w, e, stop) \/ ExitPosition(w, e) \/ AdvanceExit(w, e, done)
  PROVE  Life!LifeNext \/ UNCHANGED Life!lifeVars
<1>1. snap[w] \in PositionSnap
  BY SnapKind DEF UpdatePosition, ExitPosition, AdvanceExit, Lanes
<1>2. PICK j \in Signals : j = <<snap[w].run, snap[w].symbol, snap[w].candle>>
  BY <1>1 DEF PositionSnap, Signals
<1>3. position[j].status = "OPEN" /\ cursor' = cursor /\ ended' = ended /\ runStatus' = runStatus
  BY <1>2 DEF UpdatePosition, ExitPosition, AdvanceExit, VersionAsLoaded
<1> DEFINE Row(status, exiting, s) ==
             PositionRow(status, exiting, position[j].version + 1, e, s)
<1>4. CASE UpdatePosition(w, e, stop)
  <2> DEFINE row == Row("OPEN", position[j].exiting, stop)
  <2>1. position' = [position EXCEPT ![j] = row] /\ trades' = trades
    BY <1>2, <1>3, <1>4 DEF UpdatePosition
  <2>2. row.status = "OPEN" /\ row.exiting = position[j].exiting
    BY DEF PositionRow
  <2> HIDE DEF row
  <2> QED
    BY <1>3, <2>1, <2>2, OpenImplements
<1>5. CASE ExitPosition(w, e)
  <2>1. CASE j[1] \in LiquidityRuns
    <3> DEFINE row == Row("OPEN", TRUE, position[j].stop)
    <3>1. position' = [position EXCEPT ![j] = row] /\ trades' = trades
      BY <1>2, <1>3, <1>5, <2>1 DEF ExitPosition
    <3>2. row.status = "OPEN" /\ row.exiting
      BY DEF PositionRow
    <3> HIDE DEF row
    <3> QED
      BY <1>3, <3>1, <3>2, OpenImplements
  <2>2. CASE j[1] \notin LiquidityRuns
    <3> DEFINE row == Row("CLOSED", j[1] \in LiquidityRuns, position[j].stop)
    <3>1. position' = [position EXCEPT ![j] = row] /\ trades' = [trades EXCEPT ![j] = @ + 1]
      BY <1>2, <1>3, <1>5, <2>2 DEF ExitPosition
    <3>2. row.status = "CLOSED"
      BY DEF PositionRow
    <3> HIDE DEF row
    <3> QED
      BY <1>3, <3>1, <3>2, CloseImplements
  <2> QED
    BY <2>1, <2>2
<1>6. CASE AdvanceExit(w, e, done)
  <2>1. CASE done
    <3> DEFINE row == Row("CLOSED", position[j].exiting, position[j].stop)
    <3>1. position' = [position EXCEPT ![j] = row] /\ trades' = [trades EXCEPT ![j] = @ + 1]
      BY <1>2, <1>3, <1>6, <2>1 DEF AdvanceExit, AfterExitStep
    <3>2. row.status = "CLOSED"
      BY DEF PositionRow
    <3> HIDE DEF row
    <3> QED
      BY <1>3, <3>1, <3>2, CloseImplements
  <2>2. CASE ~done
    <3> DEFINE row == Row("OPEN", position[j].exiting, position[j].stop)
    <3>1. position' = [position EXCEPT ![j] = row] /\ trades' = trades
      BY <1>2, <1>3, <1>6, <2>2 DEF AdvanceExit, AfterExitStep
    <3>2. row.status = "OPEN" /\ row.exiting = position[j].exiting
      BY DEF PositionRow
    <3> HIDE DEF row
    <3> QED
      BY <1>3, <3>1, <3>2, OpenImplements
  <2> QED
    BY <2>1, <2>2
<1> QED
  BY <1>4, <1>5, <1>6

(* A manual close latches the exit or closes the position.                 *)
LEMMA ManualImplements ==
  ASSUME TypeOK, TradeIffClosed, NEW i \in CommandKeys, NEW r \in Runs, NEW s \in Symbols,
         NEW c \in Candles, RequestManualExit(i, r, s, c) \/ CloseManually(i, r, s, c)
  PROVE  Life!LifeNext \/ UNCHANGED Life!lifeVars
<1>1. PICK j \in Signals : j = <<r, s, c>>
  BY DEF Signals
<1>2. position[j].status = "OPEN" /\ cursor' = cursor /\ ended' = ended /\ runStatus' = runStatus
  BY <1>1 DEF RequestManualExit, CloseManually, IsOpen
<1>3. CASE RequestManualExit(i, r, s, c) /\ position[j].exiting
  <2>1. position' = position /\ trades' = trades
    BY <1>1, <1>3 DEF RequestManualExit
  <2>2. \A k \in Signals : StageOf(k)' = StageOf(k)
    BY <1>2, <2>1, StageSame
  <2>3. SameRuns /\ Traded' = Traded
    BY <1>2, <2>1 DEF SameRuns, ActiveRuns, FinishedRuns, Traded
  <2> QED
    BY <2>2, <2>3, LifeStutters
<1>4. CASE RequestManualExit(i, r, s, c) /\ ~position[j].exiting
  <2> DEFINE row == PositionRow("OPEN", TRUE, position[j].version + 1, LastEvent(s),
                                position[j].stop)
  <2>1. position' = [position EXCEPT ![j] = row] /\ trades' = trades
    BY <1>1, <1>2, <1>4 DEF RequestManualExit
  <2>2. row.status = "OPEN" /\ row.exiting
    BY DEF PositionRow
  <2> HIDE DEF row
  <2> QED
    BY <1>2, <2>1, <2>2, OpenImplements
<1>5. CASE CloseManually(i, r, s, c)
  <2> DEFINE row == PositionRow("CLOSED", position[j].exiting, position[j].version,
                                position[j].event, position[j].stop)
  <2>1. position' = [position EXCEPT ![j] = row] /\ trades' = [trades EXCEPT ![j] = @ + 1]
    BY <1>1, <1>2, <1>5 DEF CloseManually
  <2>2. row.status = "CLOSED"
    BY DEF PositionRow
  <2> HIDE DEF row
  <2> QED
    BY <1>2, <2>1, <2>2, CloseImplements
<1> QED
  BY <1>3, <1>4, <1>5

(* Beyond the candle a cursor has evaluated nothing was ever seen.         *)
LEMMA UnseenAhead ==
  ASSUME TypeOK, Books, NEW r \in Runs, NEW s \in Symbols, NEW d \in Candles,
         d > cursor[<<r, s>>].evaluated
  PROVE  StageOf(<<r, s, d>>) = "unseen" /\ position[<<r, s, d>>].status = "ABSENT"
         /\ ended[<<r, s, d>>] = 0
<1>1. SignalBooks(r, s, d) /\ <<r, s, d>> \in Signals
  BY DEF Books, Signals
<1>2. cursor[<<r, s>>] \in Cursor
  BY DEF TypeOK
<1>3. cursor[<<r, s>>].evaluated \in Nat /\ d \in Nat
  BY <1>2, LedgerAssumption DEF Cursor, Candles
<1>4. cursor[<<r, s>>].evaluated # d
  BY <1>3
<1>5. position[<<r, s, d>>].status = "ABSENT" /\ ended[<<r, s, d>>] = 0
  BY <1>1 DEF SignalBooks
<1>6. ~IsPending(r, s, d)
  BY <1>4 DEF IsPending
<1>7. WaitingStage(<<r, s, d>>) = "unseen"
  BY <1>5, <1>6 DEF WaitingStage
<1> QED
  BY <1>5, <1>7 DEF StageOf

(* The previous signal of the symbol, if the cursor still holds one.       *)
LEMMA PreviousEnds ==
  ASSUME TypeOK, Books, NEW r \in Runs, NEW s \in Symbols, FinishPrevious(r, s),
         cursor[<<r, s>>].pending # "NONE"
  PROVE  LET j == <<r, s, cursor[<<r, s>>].evaluated>> IN
         /\ j \in Signals /\ IsPending(r, s, cursor[<<r, s>>].evaluated)
         /\ ended' = [ended EXCEPT ![j] = @ + 1]
<1>1. cursor[<<r, s>>].evaluated \in Candles
  BY DEF TypeOK
<1> QED
  BY <1>1 DEF FinishPrevious, IsPending, Signals

(* What the evaluation of a candle does to the stage of a signal other     *)
(* than the one of that candle.                                            *)
LEMMA CycleStages ==
  ASSUME TypeOK, Books, NEW w \in CycleLanes, NEW c \in Candles, NEW detected \in BOOLEAN,
         PersistCycle(w, c, detected), NEW k \in Signals,
         k # <<snap[w].run, snap[w].symbol, c>>
  PROVE  StageOf(k)' = IF k[1] = snap[w].run /\ k[2] = snap[w].symbol
                             /\ StageOf(k) \in {"pending", "ordered"}
                       THEN "ended" ELSE StageOf(k)
<1>1. snap[w] \in CycleSnap
  BY SnapKind DEF PersistCycle, Lanes
<1>2. PICK r \in Runs, s \in Symbols : r = snap[w].run /\ s = snap[w].symbol
  BY <1>1 DEF CycleSnap
<1>3. /\ cursor' = [cursor EXCEPT ![<<r, s>>] = CursorAt(c, IF detected THEN "SIGNAL" ELSE "NONE", 0)]
      /\ FinishPrevious(r, s) /\ position' = position
  BY <1>2 DEF PersistCycle
<1>4. /\ cursor'[<<r, s>>].evaluated = c
      /\ \A l \in Runs \X Symbols : l # <<r, s>> => cursor'[l] = cursor[l]
  BY <1>3 DEF TypeOK, CursorAt
<1>5. position[k].status # "ABSENT" => StageOf(k)' = StageOf(k) /\ StageOf(k) \notin {"pending", "ordered"}
  BY <1>3, StageHeld DEF StageOf, HeldStage
<1>6. CASE <<k[1], k[2]>> # <<r, s>>
  <2>1. cursor'[<<k[1], k[2]>>] = cursor[<<k[1], k[2]>>] /\ ~(k[1] = r /\ k[2] = s)
    BY <1>4, <1>6 DEF Signals
  <2>2. ended'[k] = ended[k]
    <3>1. CASE cursor[<<r, s>>].pending = "NONE"
      BY <1>3, <3>1 DEF FinishPrevious
    <3>2. CASE cursor[<<r, s>>].pending # "NONE"
      <4>1. PICK j \in Signals : j[1] = r /\ j[2] = s /\ ended' = [ended EXCEPT ![j] = @ + 1]
        BY <1>3, <3>2, PreviousEnds
      <4> QED
        BY <2>1, <4>1 DEF TypeOK
    <3> QED
      BY <3>1, <3>2
  <2>3. StageOf(k)' = StageOf(k)
    BY <1>3, <2>1, <2>2, StageSame
  <2> QED
    BY <1>2, <2>1, <2>3
<1>7. CASE <<k[1], k[2]>> = <<r, s>> /\ position[k].status = "ABSENT"
  <2>1. k[1] = r /\ k[2] = s /\ k[3] # c /\ k = <<r, s, k[3]>>
    BY <1>2, <1>7 DEF Signals
  <2>2. ~IsPending(k[1], k[2], k[3])'
    BY <1>4, <2>1 DEF IsPending
  <2>3. CASE IsPending(k[1], k[2], k[3])
    <3>1. ended' = [ended EXCEPT ![k] = @ + 1]
      <4>1. cursor[<<r, s>>].pending # "NONE" /\ cursor[<<r, s>>].evaluated = k[3]
        BY <2>1, <2>3 DEF IsPending
      <4>2. ended' = [ended EXCEPT ![<<r, s, cursor[<<r, s>>].evaluated>>] = @ + 1]
        BY <1>3, <4>1, PreviousEnds
      <4> QED
        BY <2>1, <4>1, <4>2
    <3>2. ended'[k] = ended[k] + 1 /\ position'[k].status = "ABSENT"
      BY <1>3, <1>7, <3>1 DEF TypeOK
    <3>3. StageOf(k)' = "ended"
      BY <2>2, <3>2, DecidedStage
    <3>4. StageOf(k) \in {"pending", "ordered"}
      BY <2>3, PendingStage
    <3> QED
      BY <1>2, <2>1, <3>3, <3>4
  <2>4. CASE ~IsPending(k[1], k[2], k[3])
    <3>1. ended'[k] = ended[k]
      <4>1. CASE cursor[<<r, s>>].pending = "NONE"
        BY <1>3, <4>1 DEF FinishPrevious
      <4>2. CASE cursor[<<r, s>>].pending # "NONE"
        <5>1. PICK j \in Signals : /\ j = <<r, s, cursor[<<r, s>>].evaluated>>
                                   /\ ended' = [ended EXCEPT ![j] = @ + 1]
          BY <1>3, <4>2, PreviousEnds
        <5>2. k # j
          BY <2>1, <2>4, <4>2, <5>1 DEF IsPending
        <5> QED
          BY <5>1, <5>2 DEF TypeOK
      <4> QED
        BY <4>1, <4>2
    <3>2. WaitingStage(k)' = WaitingStage(k) /\ WaitingStage(k) \notin {"pending", "ordered"}
      BY <2>2, <2>4, <3>1 DEF WaitingStage
    <3> QED
      BY <1>3, <1>7, <3>2 DEF StageOf
  <2> QED
    BY <2>3, <2>4
<1> QED
  BY <1>2, <1>5, <1>6, <1>7

(* The evaluation of a candle observes a signal, ends the one that waited  *)
(* or is not seen.                                                         *)
LEMMA CycleImplements ==
  ASSUME TypeOK, Books, NEW w \in CycleLanes, NEW c \in Candles, NEW detected \in BOOLEAN,
         PersistCycle(w, c, detected)
  PROVE  Life!LifeNext \/ UNCHANGED Life!lifeVars
<1>1. snap[w] \in CycleSnap
  BY SnapKind DEF PersistCycle, Lanes
<1>2. PICK r \in Runs, s \in Symbols : r = snap[w].run /\ s = snap[w].symbol
  BY <1>1 DEF CycleSnap
<1>3. PICK j \in Signals : j = <<r, s, c>>
  BY DEF Signals
<1>4. /\ cursor' = [cursor EXCEPT ![<<r, s>>] = CursorAt(c, IF detected THEN "SIGNAL" ELSE "NONE", 0)]
      /\ c > cursor[<<r, s>>].evaluated
      /\ FinishPrevious(r, s) /\ SymbolFree(r, s) /\ runStatus[r] = "RUNNING"
      /\ position' = position /\ trades' = trades /\ runStatus' = runStatus
  BY <1>2 DEF PersistCycle
<1>5. SameRuns /\ Traded' = Traded /\ r \in ActiveRuns
  BY <1>4 DEF SameRuns, ActiveRuns, FinishedRuns, Traded
<1>6. cursor'[<<r, s>>].evaluated = c
        /\ cursor'[<<r, s>>].pending = IF detected THEN "SIGNAL" ELSE "NONE"
  BY <1>4 DEF TypeOK, CursorAt
<1>7. StageOf(j) = "unseen" /\ position'[j].status = "ABSENT"
  BY <1>3, <1>4, UnseenAhead
<1>8. \A k \in Signals : k # j => StageOf(k)' =
         IF k[1] = r /\ k[2] = s /\ StageOf(k) \in {"pending", "ordered"} THEN "ended"
         ELSE StageOf(k)
  BY <1>2, <1>3, CycleStages
<1>9. CASE detected
  <2>1. StageOf(j)' = "pending"
    BY <1>3, <1>6, <1>7, <1>9 DEF StageOf, WaitingStage, IsPending
  <2>2. \A d \in Candles : StageOf(<<r, s, d>>) # "unseen" => d < c
    <3> SUFFICES ASSUME NEW d \in Candles, d >= c PROVE StageOf(<<r, s, d>>) = "unseen"
      BY LedgerAssumption DEF Candles
    <3>1. cursor[<<r, s>>] \in Cursor
      BY DEF TypeOK
    <3>2. cursor[<<r, s>>].evaluated \in Nat
      BY <3>1 DEF Cursor
    <3>3. d > cursor[<<r, s>>].evaluated
      BY <1>4, <3>2, LedgerAssumption DEF Candles
    <3> QED
      BY <3>3, UnseenAhead
  <2> QED
    BY <1>3, <1>4, <1>5, <1>8, <2>1, <2>2, LifeObserves
<1>10. CASE ~detected
  <2>1. StageOf(j)' = "unseen"
    <3>1. ~IsPending(j[1], j[2], j[3])'
      BY <1>3, <1>6, <1>10 DEF IsPending
    <3>2. ended'[j] = ended[j] /\ ended[j] = 0
      <4>1. ended[j] = 0 /\ j[3] = c
        BY <1>3, <1>4, UnseenAhead
      <4>2. CASE cursor[<<r, s>>].pending = "NONE"
        BY <1>4, <4>1, <4>2 DEF FinishPrevious
      <4>3. CASE cursor[<<r, s>>].pending # "NONE"
        <5>1. PICK i \in Signals : /\ i = <<r, s, cursor[<<r, s>>].evaluated>>
                                   /\ ended' = [ended EXCEPT ![i] = @ + 1]
          BY <1>4, <4>3, PreviousEnds
        <5>2. cursor[<<r, s>>] \in Cursor
          BY DEF TypeOK
        <5>3. cursor[<<r, s>>].evaluated # c
          BY <1>4, <5>2, LedgerAssumption DEF Cursor, Candles
        <5>4. i # j
          BY <1>3, <5>1, <5>3
        <5> QED
          BY <4>1, <5>1, <5>4 DEF TypeOK
      <4> QED
        BY <4>2, <4>3
    <3> QED
      BY <1>7, <3>1, <3>2 DEF StageOf, WaitingStage
  <2>2. CASE \E i \in Signals : i[1] = r /\ i[2] = s /\ StageOf(i) \in {"pending", "ordered"}
    <3>1. PICK i \in Signals : i[1] = r /\ i[2] = s /\ StageOf(i) \in {"pending", "ordered"}
      BY <2>2
    <3>2. StageOf(i)' = "ended"
      BY <1>7, <1>8, <3>1
    <3>3. ASSUME NEW k \in Signals, k # i PROVE StageOf(k)' = StageOf(k)
      <4>1. ~(k[1] = r /\ k[2] = s /\ StageOf(k) \in {"pending", "ordered"})
        <5> SUFFICES ASSUME k[1] = r, k[2] = s, StageOf(k) \in {"pending", "ordered"} PROVE FALSE
          OBVIOUS
        <5>1. IsPending(i[1], i[2], i[3]) /\ IsPending(k[1], k[2], k[3])
          BY <3>1, WaitingStages DEF StageOf, HeldStage
        <5>2. i[3] = k[3]
          BY <3>1, <5>1 DEF IsPending
        <5> QED
          BY <3>1, <3>3, <5>2 DEF Signals
      <4> QED
        BY <1>7, <1>8, <2>1, <4>1
    <3> QED
      BY <1>5, <3>1, <3>2, <3>3, LifeEnds DEF OnlyStage
  <2>3. CASE ~\E i \in Signals : i[1] = r /\ i[2] = s /\ StageOf(i) \in {"pending", "ordered"}
    <3>1. \A k \in Signals : StageOf(k)' = StageOf(k)
      BY <1>7, <1>8, <2>1, <2>3
    <3> QED
      BY <1>5, <3>1, LifeStutters
  <2> QED
    BY <2>2, <2>3
<1> QED
  BY <1>9, <1>10

(* Whatever only loads a row, delivers an event or lets a deadline pass is *)
(* not seen.                                                               *)
LEMMA FrameImplements ==
  ASSUME position' = position, cursor' = cursor, ended' = ended, trades' = trades,
         runStatus' = runStatus
  PROVE  UNCHANGED Life!lifeVars
<1>1. \A k \in Signals : StageOf(k)' = StageOf(k)
  BY StageSame
<1>2. SameRuns /\ Traded' = Traded
  BY DEF SameRuns, ActiveRuns, FinishedRuns, Traded
<1> QED
  BY <1>1, <1>2, LifeStutters

(* Every step of the ledger is a step of the lifecycle or is not seen.     *)
LEMMA StepImplements ==
  ASSUME TypeOK, Books, TradeIffClosed, OneRun, [Next]_vars
  PROVE  Life!LifeNext \/ UNCHANGED Life!lifeVars
<1> DEFINE Goal == Life!LifeNext \/ UNCHANGED Life!lifeVars
<1>1. CASE UNCHANGED vars
  BY <1>1, FrameImplements DEF vars
<1>2. ASSUME Commands PROVE Goal
  <2>1. ASSUME NEW i \in CommandKeys, NEW r \in Runs, NEW s \in Symbols, NEW c \in Candles,
               RequestManualExit(i, r, s, c) \/ CloseManually(i, r, s, c)
        PROVE  Goal
    BY <2>1, ManualImplements
  <2>2. ASSUME NEW r \in Runs, Start(r) \/ Stop(r) PROVE Goal
    BY <2>2, CommandImplements
  <2>3. ASSUME Pause \/ Resume PROVE Goal
    <3>1. PICK r \in Runs : TRUE
      BY <2>3 DEF Pause, Resume
    <3> QED
      BY <2>3, <3>1, CommandImplements
  <2> HIDE DEF Goal
  <2> QED
    BY <1>2, <2>1, <2>2, <2>3 DEF Commands
<1>3. CASE World
  <2>1. position' = position /\ cursor' = cursor /\ ended' = ended /\ trades' = trades
          /\ runStatus' = runStatus
    BY <1>3 DEF World, ReceiveEvent, Expire
  <2> QED
    BY <2>1, FrameImplements
<1>4. CASE CancelStep
  BY <1>4, CancelImplements DEF CancelStep
<1>5. ASSUME NEW w \in CycleLanes, CycleStep(w) PROVE Goal
  <2>1. ASSUME NEW r \in Runs, NEW s \in Symbols, LoadCycle(w, r, s) PROVE Goal
    BY <2>1, FrameImplements DEF LoadCycle
  <2>2. ASSUME NEW c \in Candles, NEW detected \in BOOLEAN, PersistCycle(w, c, detected)
        PROVE  Goal
    BY <2>2, CycleImplements
  <2> HIDE DEF Goal
  <2> QED
    BY <1>5, <2>1, <2>2 DEF CycleStep
<1>6. ASSUME NEW w \in EntryLanes, EntryStep(w) PROVE Goal
  <2>1. ASSUME NEW r \in Runs, NEW s \in Symbols, LoadEntry(w, r, s) PROVE Goal
    BY <2>1, FrameImplements DEF LoadEntry
  <2>2. ASSUME NEW e \in 0..MaxEvent, NEW flag \in BOOLEAN,
               SubmitEntryOrder(w, e, flag) \/ FillEntry(w, e, flag)
                 \/ AdvancePendingEntry(w, e, flag)
        PROVE  Goal
    BY <2>2, SubmitImplements, FillImplements, AdvanceImplements
  <2> HIDE DEF Goal
  <2> QED
    BY <1>6, <2>1, <2>2 DEF EntryStep
<1>7. ASSUME NEW w \in PositionLanes, PositionStep(w) PROVE Goal
  <2>1. ASSUME NEW r \in Runs, NEW s \in Symbols, NEW c \in Candles, LoadPosition(w, r, s, c)
        PROVE  Goal
    BY <2>1, FrameImplements DEF LoadPosition
  <2>2. ASSUME NEW e \in 0..MaxEvent, NEW stop \in 0..MaxStop, UpdatePosition(w, e, stop)
        PROVE  Goal
    <3>1. FALSE \in BOOLEAN
      OBVIOUS
    <3> QED
      BY <2>2, <3>1, LaneImplements
  <2>3. ASSUME NEW e \in 0..MaxEvent, NEW done \in BOOLEAN,
               ExitPosition(w, e) \/ AdvanceExit(w, e, done)
        PROVE  Goal
    <3>1. 0 \in 0..MaxStop
      BY LedgerAssumption
    <3> QED
      BY <2>3, <3>1, LaneImplements
  <2>4. ASSUME NEW e \in 0..MaxEvent, ExitPosition(w, e) PROVE Goal
    <3>1. FALSE \in BOOLEAN
      OBVIOUS
    <3> QED
      BY <2>3, <2>4, <3>1
  <2> HIDE DEF Goal
  <2> QED
    BY <1>7, <2>1, <2>2, <2>3, <2>4 DEF PositionStep
<1> HIDE DEF Goal
<1> QED
  BY <1>1, <1>2, <1>3, <1>4, <1>5, <1>6, <1>7 DEF Next, Goal

(* The first state of the ledger is the first of the lifecycle.            *)
LEMMA InitImplements == Init => Life!LifeInit
<1> SUFFICES ASSUME Init PROVE Life!LifeInit
  OBVIOUS
<1>1. \A k \in Signals : StageOf(k) = "unseen"
  <2> SUFFICES ASSUME NEW k \in Signals PROVE StageOf(k) = "unseen"
    OBVIOUS
  <2>1. position[k].status = "ABSENT" /\ ended[k] = 0 /\ <<k[1], k[2]>> \in Runs \X Symbols
    BY DEF Init, NoPosition, PositionRow, Signals
  <2>2. cursor[<<k[1], k[2]>>].pending = "NONE"
    BY <2>1 DEF Init, CursorAt
  <2> QED
    BY <2>1, <2>2 DEF StageOf, WaitingStage, IsPending
<1>2. Stage = [k \in Life!Signals |-> "unseen"]
  BY <1>1 DEF Stage, Signals, Life!Signals
<1>3. Traded = {} /\ ActiveRuns = {} /\ FinishedRuns = {}
  BY DEF Init, Traded, ActiveRuns, FinishedRuns
<1> QED
  BY <1>2, <1>3 DEF Life!LifeInit, Stage, Traded, ActiveRuns, FinishedRuns

(* The ledger implements the lifecycle of a signal: every behaviour of its *)
(* rows, whatever its loops, commands, events and deadlines interleave, is *)
(* one in which no signal skips a stage, goes back or trades twice.        *)
THEOREM LedgerImplementsLifecycle == Spec => ImplementsLifecycle
<1>1. Init => OneRun
  BY DEF Init, OneRun
<1>2. Spec => []OneRun
  BY <1>1, OneRunStep, Typing, PTL DEF Spec
<1>3. TypeOK /\ Books /\ TradeIffClosed /\ OneRun /\ [Next]_vars => [Life!LifeNext]_(Life!lifeVars)
  BY StepImplements
<1> QED
  BY <1>2, <1>3, InitImplements, Typing, BooksInvariant, TradesMatchClosings, PTL
     DEF Spec, ImplementsLifecycle, Life!LifeSpec
=============================================================================
