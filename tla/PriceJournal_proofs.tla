------------------------ MODULE PriceJournal_proofs ------------------------
(***************************************************************************)
(* Theorems about PriceJournal, for every number of workers, capacity,     *)
(* batch size and length of the tape, and about PositionPricing, for every *)
(* tape, all distances and costs.                                          *)
(***************************************************************************)
EXTENDS PriceJournal, PositionPricing, FiniteSums, SequenceTheorems, TLAPS

(* What enqueue leaves of a worker is a worker again, its queue within the *)
(* capacity.                                                               *)
LEMMA EnqueueType ==
  ASSUME TypeOK, trade < MaxTrade, NEW w \in Workers, Enqueue(w).session <= MaxSession
  PROVE  /\ Enqueue(w) \in Worker
         /\ Len(Enqueue(w).queue) <= Capacity
<1> DEFINE me == worker[w]
           e == [trade |-> trade + 1, stream |-> Stream(w)]
<1>1. me \in Worker /\ Len(me.queue) \in Nat /\ Len(me.queue) <= Capacity
  BY DEF TypeOK, Worker
<1>2. e \in Event
  <2>1. trade + 1 \in Trades
    BY SizesArePositive DEF TypeOK, Trades
  <2>2. Stream(w) \in Streams
    BY <1>1 DEF Stream, Streams, Worker
  <2> QED
    BY <2>1, <2>2 DEF Event
<1>3. CASE HasRoom(me.queue)
  <2>1. Enqueue(w) = [me EXCEPT !.overflowing = FALSE, !.queue = Append(@, e)]
    BY <1>3 DEF Enqueue
  <2>2. Append(me.queue, e) \in Seq(Event) /\ Len(Append(me.queue, e)) = Len(me.queue) + 1
    BY <1>1, <1>2, AppendProperties DEF Worker
  <2>3. Len(me.queue) + 1 <= Capacity
    BY <1>1, <1>3, SizesArePositive DEF HasRoom
  <2>4. Enqueue(w).queue = Append(me.queue, e)
    BY <1>1, <2>1 DEF Worker
  <2>5. Enqueue(w) \in Worker
    BY <1>1, <2>1, <2>2 DEF Worker
  <2> QED
    BY <2>2, <2>3, <2>4, <2>5
<1>4. CASE ~HasRoom(me.queue)
  <2>1. Enqueue(w) = [me EXCEPT !.overflowing = TRUE,
                                !.session = IF me.overflowing THEN @ ELSE @ + 1]
    BY <1>4 DEF Enqueue
  <2>2. Enqueue(w).session \in 0 .. MaxSession
    BY <1>1, <2>1, SizesArePositive DEF Worker
  <2>3. Enqueue(w).queue = me.queue
    BY <1>1, <2>1 DEF Worker
  <2>4. Enqueue(w) \in Worker
    BY <1>1, <2>1, <2>2 DEF Worker
  <2> QED
    BY <1>1, <2>3, <2>4
<1> QED
  BY <1>3, <1>4

(* A worker replaced by one whose queue fits keeps the table's type.       *)
LEMMA WorkerReplaced ==
  ASSUME TypeOK, NEW w \in Workers, NEW row \in Worker, Len(row.queue) <= Capacity,
         worker' = [worker EXCEPT ![w] = row]
  PROVE  /\ worker' \in [Workers -> Worker]
         /\ \A v \in Workers : Len(worker'[v].queue) <= Capacity
  BY DEF TypeOK

(* A process without queue is a worker.                                    *)
LEMMA ProcessType ==
  ASSUME NEW s \in {"up", "released", "crashed"}
  PROVE  /\ Process(s) \in Worker
         /\ Process(s).queue = <<>>
         /\ Len(Process(s).queue) <= Capacity
  BY SizesArePositive, EmptySeq DEF Process, Worker

(* What an append adds are rows, one for each event of the batch.          *)
LEMMA NewRowsType ==
  ASSUME NEW batch \in Seq(Event)
  PROVE  /\ NewRows(batch) \in Seq(Row)
         /\ Len(NewRows(batch)) = Len(batch)
         /\ \A k \in 1 .. Len(batch) :
              /\ NewRows(batch)[k].stream = batch[k].stream
              /\ NewRows(batch)[k].state \in {"open", "void"}
<1> DEFINE n == Len(batch)
<1>1. n \in Nat /\ DOMAIN batch = 1 .. n /\ \A k \in 1 .. n : batch[k] \in Event
  BY LenProperties, ElementOfSeq
<1>2. \A k \in 1 .. n :
        /\ NewRows(batch)[k] \in Row
        /\ NewRows(batch)[k].stream = batch[k].stream
        /\ NewRows(batch)[k].state \in {"open", "void"}
  BY <1>1 DEF NewRows, Row, Event
<1>3. NewRows(batch) = [k \in 1 .. n |-> NewRows(batch)[k]]
  BY <1>1 DEF NewRows
<1>4. NewRows(batch) \in [1 .. n -> Row]
  BY <1>2, <1>3
<1>5. NewRows(batch) \in Seq(Row) /\ Len(NewRows(batch)) = n
  BY <1>1, <1>4
<1> QED
  BY <1>2, <1>5

(* The batch an append takes is the head of its worker's queue.            *)
LEMMA BatchType ==
  ASSUME TypeOK, NEW w \in Workers, NEW size \in 0 .. Len(worker[w].queue)
  PROVE  /\ SubSeq(worker[w].queue, 1, size) \in Seq(Event)
         /\ Len(SubSeq(worker[w].queue, 1, size)) = size
         /\ \A k \in 1 .. size : SubSeq(worker[w].queue, 1, size)[k] = worker[w].queue[k]
<1>1. worker[w].queue \in Seq(Event)
  BY DEF TypeOK, Worker
<1>2. \A i \in 1 .. size : worker[w].queue[i] \in Event
  BY <1>1, ElementOfSeq
<1> QED
  BY <1>1, <1>2, SubSeqProperties

(* Ending an append changes the state of its rows and nothing else.        *)
LEMMA EndedRowsType ==
  ASSUME TypeOK, NEW w \in Workers, NEW state \in {"committed", "void"}
  PROVE  /\ EndedRows(w, state) \in Seq(Row)
         /\ DOMAIN EndedRows(w, state) = DOMAIN rows
         /\ \A i \in DOMAIN rows :
              /\ EndedRows(w, state)[i].stream = rows[i].stream
              /\ EndedRows(w, state)[i].trade = rows[i].trade
              /\ EndedRows(w, state)[i].state =
                   IF i \in OpenRows(w) THEN state ELSE rows[i].state
<1>1. rows \in Seq(Row) /\ DOMAIN rows = 1 .. Len(rows) /\ Len(rows) \in Nat
  BY DEF TypeOK
<1>2. \A i \in DOMAIN rows : rows[i] \in Row
  BY <1>1, ElementOfSeq
<1>3. \A i \in DOMAIN rows :
        /\ EndedRows(w, state)[i] \in Row
        /\ EndedRows(w, state)[i].stream = rows[i].stream
        /\ EndedRows(w, state)[i].trade = rows[i].trade
        /\ EndedRows(w, state)[i].state =
             IF i \in OpenRows(w) THEN state ELSE rows[i].state
  BY <1>2 DEF EndedRows, Row
<1>4. DOMAIN EndedRows(w, state) = DOMAIN rows
  BY DEF EndedRows
<1>5. EndedRows(w, state) \in Seq(Row)
  BY <1>1, <1>3 DEF EndedRows
<1> QED
  BY <1>3, <1>4, <1>5

(* What an ended append leaves in the queue.                               *)
LEMMA AfterAppendType ==
  ASSUME TypeOK, NEW w \in Workers, NEW succeeded \in BOOLEAN
  PROVE  /\ AfterAppend(w, succeeded) \in Seq(Event)
         /\ Len(AfterAppend(w, succeeded)) <= Len(worker[w].queue)
         /\ \A k \in 1 .. Len(AfterAppend(w, succeeded)) :
              \E n \in 1 .. Len(worker[w].queue) :
                AfterAppend(w, succeeded)[k] = worker[w].queue[n]
<1> DEFINE q == worker[w].queue
           m == append[w] + 1
<1>1. q \in Seq(Event) /\ Len(q) \in Nat /\ m \in Nat /\ m >= 1
  BY SizesArePositive DEF TypeOK, Worker
<1>2. \A i \in m .. Len(q) : q[i] \in Event
  <2>1. \A i \in 1 .. Len(q) : q[i] \in Event
    BY <1>1, ElementOfSeq
  <2> HIDE DEF q, m
  <2> QED
    BY <1>1, <2>1
<1>3. /\ SubSeq(q, m, Len(q)) \in Seq(Event)
      /\ Len(SubSeq(q, m, Len(q))) = IF m <= Len(q) THEN Len(q) - m + 1 ELSE 0
      /\ \A i \in 1 .. Len(q) - m + 1 : SubSeq(q, m, Len(q))[i] = q[m + i - 1]
  <2>1. m \in Int /\ Len(q) \in Int
    BY <1>1
  <2> HIDE DEF q, m
  <2> QED
    BY <1>2, <2>1, SubSeqProperties
<1>4. \A k \in 1 .. Len(SubSeq(q, m, Len(q))) :
        m + k - 1 \in 1 .. Len(q) /\ SubSeq(q, m, Len(q))[k] = q[m + k - 1]
  <2> DEFINE l == Len(q)
             t == SubSeq(q, m, l)
  <2>1. \A k \in 1 .. Len(t) : k \in 1 .. l - m + 1 /\ m + k - 1 \in 1 .. l
    <3> HIDE DEF q, m, l, t
    <3>1. Len(t) = IF m <= l THEN l - m + 1 ELSE 0
      BY <1>3 DEF l, t
    <3> QED
      BY <1>1, <3>1 DEF l
  <2> QED
    BY <1>3, <2>1
<1>5. CASE succeeded
  <2>1. AfterAppend(w, succeeded) = SubSeq(q, m, Len(q))
    BY <1>5 DEF AfterAppend
  <2>2. Len(SubSeq(q, m, Len(q))) <= Len(q)
    BY <1>1, <1>3
  <2> QED
    BY <1>3, <1>4, <2>1, <2>2
<1>6. CASE ~succeeded
  BY <1>1, <1>6 DEF AfterAppend
<1> QED
  BY <1>5, <1>6

(* Variables keep their types, and no queue outgrows its capacity.         *)
THEOREM Typing == Spec => []TypeOK
<1>1. Init => TypeOK
  <2> SUFFICES ASSUME Init PROVE TypeOK
    OBVIOUS
  <2>1. \A w \in Workers : worker[w] \in Worker /\ Len(worker[w].queue) <= Capacity
    BY ProcessType DEF Init
  <2>2. worker \in [Workers -> Worker]
    BY <2>1 DEF Init
  <2>3. rows \in Seq(Row)
    BY EmptySeq DEF Init
  <2>4. reader \in Reader
    BY SizesArePositive DEF Init, Reader
  <2> QED
    BY <2>1, <2>2, <2>3, <2>4, SizesArePositive DEF Init, TypeOK
<1>2. TypeOK /\ [Next]_vars => TypeOK'
  <2> SUFFICES ASSUME TypeOK, [Next]_vars PROVE TypeOK'
    OBVIOUS
  <2> DEFINE WorkersOK == /\ worker' \in [Workers -> Worker]
                          /\ \A v \in Workers : Len(worker'[v].queue) <= Capacity
  <2>0. \A w \in Workers : /\ worker[w] \in Worker
                           /\ worker[w].queue \in Seq(Event)
                           /\ Len(worker[w].queue) \in Nat
                           /\ Len(worker[w].queue) <= Capacity
    BY DEF TypeOK, Worker
  <2>1. CASE ExecuteTrade
    <3>1. trade < MaxTrade /\ trade' = trade + 1
          /\ UNCHANGED <<lease, rows, append, reader>>
      BY <2>1 DEF ExecuteTrade
    <3>2. \A w \in Workers :
            worker[w].connected => Enqueue(w) \in Worker /\ Len(Enqueue(w).queue) <= Capacity
      BY <2>1, <3>1, EnqueueType DEF ExecuteTrade
    <3>3. worker' = [w \in Workers |-> IF worker[w].connected THEN Enqueue(w) ELSE worker[w]]
      BY <2>1 DEF ExecuteTrade
    <3>4. WorkersOK
      BY <2>0, <3>2, <3>3
    <3>5. trade' \in 0 .. MaxTrade
      BY <3>1, SizesArePositive DEF TypeOK
    <3> QED
      BY <3>1, <3>4, <3>5 DEF TypeOK
  <2>2. CASE ExpireLease
    BY <2>2 DEF ExpireLease, TypeOK
  <2>3. ASSUME NEW w \in Workers, Connect(w) PROVE TypeOK'
    <3> DEFINE row == [worker[w] EXCEPT !.connected = TRUE, !.session = @ + 1]
    <3>1. worker' = [worker EXCEPT ![w] = row]
      BY <2>3, <2>0 DEF Connect
    <3>2. worker[w].session + 1 \in 0 .. MaxSession
      BY <2>3, <2>0, SizesArePositive DEF Connect, Worker
    <3>3. row \in Worker /\ row.queue = worker[w].queue
      BY <2>0, <3>2 DEF Worker
    <3>4. WorkersOK
      BY <2>0, <3>1, <3>3, WorkerReplaced
    <3> QED
      BY <2>3, <3>4 DEF Connect, TypeOK
  <2>4. ASSUME NEW w \in Workers, Disconnect(w) PROVE TypeOK'
    <3> DEFINE row == [worker[w] EXCEPT !.connected = FALSE]
    <3>1. worker' = [worker EXCEPT ![w] = row]
      BY <2>4 DEF Disconnect
    <3>2. row \in Worker /\ row.queue = worker[w].queue
      BY <2>0 DEF Worker
    <3>3. WorkersOK
      BY <2>0, <3>1, <3>2, WorkerReplaced
    <3> QED
      BY <2>4, <3>3 DEF Disconnect, TypeOK
  <2>5. ASSUME NEW w \in Workers, NEW answered \in BOOLEAN, Claim(w, answered) PROVE TypeOK'
    <3> DEFINE row == HearClaim(w, MayClaim(w) /\ answered)
    <3>1. row \in Worker /\ row.queue = worker[w].queue
      BY <2>0 DEF HearClaim, Worker
    <3>2. WorkersOK
      BY <2>0, <2>5, <3>1, WorkerReplaced DEF Claim
    <3>3. lease' \in [owner : Workers \cup {None}, live : BOOLEAN]
      BY <2>5 DEF Claim, TypeOK
    <3> QED
      BY <2>5, <3>2, <3>3 DEF Claim, TypeOK
  <2>6. ASSUME NEW w \in Workers, NEW claiming \in BOOLEAN, Stop(w, claiming) PROVE TypeOK'
    <3> DEFINE row == [worker[w] EXCEPT !.status = "stopping", !.claiming = claiming,
                                        !.leader = FALSE, !.connected = FALSE]
    <3>1. worker' = [worker EXCEPT ![w] = row]
      BY <2>6 DEF Stop
    <3>2. row \in Worker /\ row.queue = worker[w].queue
      BY <2>0 DEF Worker
    <3>3. WorkersOK
      BY <2>0, <3>1, <3>2, WorkerReplaced
    <3> QED
      BY <2>6, <3>3 DEF Stop, TypeOK
  <2>7. ASSUME NEW w \in Workers, Release(w) PROVE TypeOK'
    <3> DEFINE row == [Process("released") EXCEPT !.claiming = worker[w].claiming]
    <3>1. row \in Worker /\ row.queue = <<>>
      BY <2>0, ProcessType DEF Worker
    <3>2. Len(row.queue) <= Capacity
      BY <3>1, SizesArePositive, EmptySeq
    <3>3. WorkersOK
      BY <2>7, <3>1, <3>2, WorkerReplaced DEF Release
    <3>4. lease' \in [owner : Workers \cup {None}, live : BOOLEAN]
      BY <2>7 DEF Release, TypeOK
    <3> QED
      BY <2>7, <3>3, <3>4 DEF Release, TypeOK
  <2>8. ASSUME NEW w \in Workers, Crash(w) PROVE TypeOK'
    <3>1. WorkersOK
      BY <2>8, ProcessType, WorkerReplaced DEF Crash
    <3> QED
      BY <2>8, <3>1 DEF Crash, TypeOK
  <2>9. ASSUME NEW w \in Workers, BeginAppend(w) PROVE TypeOK'
    <3> DEFINE size == IF Len(worker[w].queue) < BatchSize THEN Len(worker[w].queue)
                       ELSE BatchSize
    <3>1. size \in 0 .. Len(worker[w].queue) /\ size \in 0 .. BatchSize
      BY <2>0, SizesArePositive
    <3>2. NewRows(SubSeq(worker[w].queue, 1, size)) \in Seq(Row)
      BY <3>1, BatchType, NewRowsType
    <3>3. rows' = rows \o NewRows(SubSeq(worker[w].queue, 1, size))
          /\ append' = [append EXCEPT ![w] = size]
      BY <2>9 DEF BeginAppend
    <3>4. rows' \in Seq(Row)
      BY <3>2, <3>3, ConcatProperties DEF TypeOK
    <3>5. append' \in [Workers -> 0 .. BatchSize]
      BY <3>1, <3>3 DEF TypeOK
    <3> QED
      BY <2>9, <3>4, <3>5 DEF BeginAppend, TypeOK
  <2>10. ASSUME NEW w \in Workers, NEW state \in {"committed", "void"},
                NEW succeeded \in BOOLEAN, EndAppend(w, state, succeeded)
         PROVE  TypeOK'
    <3> DEFINE row == [worker[w] EXCEPT !.queue = AfterAppend(w, succeeded)]
    <3>1. row \in Worker /\ row.queue = AfterAppend(w, succeeded)
      BY <2>0, AfterAppendType DEF Worker
    <3>2. Len(row.queue) <= Capacity
      BY <2>0, <3>1, AfterAppendType, LenProperties, SizesArePositive
    <3>3. worker' = [worker EXCEPT ![w] = row]
      BY <2>10 DEF EndAppend
    <3>4. WorkersOK
      BY <3>1, <3>2, <3>3, WorkerReplaced
    <3>5. rows' \in Seq(Row)
      BY <2>10, EndedRowsType DEF EndAppend
    <3>6. append' \in [Workers -> 0 .. BatchSize]
      BY <2>10, SizesArePositive DEF EndAppend, TypeOK
    <3> QED
      BY <2>10, <3>4, <3>5, <3>6 DEF EndAppend, TypeOK
  <2>11. ASSUME NEW i \in DOMAIN rows, OpenReader(i) \/ ReadNext(i) PROVE TypeOK'
    <3>1. rows[i] \in Row /\ i \in Nat
      BY LenProperties, ElementOfSeq DEF TypeOK
    <3>2. CASE OpenReader(i)
      <4>1. reader' \in Reader
        BY <3>1, <3>2, SizesArePositive DEF OpenReader, Reader, Row, Trades
      <4> QED
        BY <3>2, <4>1 DEF OpenReader, TypeOK
    <3>3. CASE ReadNext(i)
      <4>1. rows[i].trade \in Trades /\ rows[i].stream \in Streams
        BY <3>1 DEF Row
      <4>2. reader.through \in Nat /\ reader.through <= MaxTrade /\ reader \in Reader
        BY SizesArePositive DEF TypeOK, Reader
      <4>3. Shown(rows[i]) \subseteq Trades
        BY <4>1, <4>2, SizesArePositive DEF Shown, Trades
      <4>4. Later(reader.through, rows[i].trade) \in 0 .. MaxTrade
        BY <4>1, <4>2, SizesArePositive DEF Later, Trades
      <4>5. AfterEvent(i) \in Reader
        BY <3>1, <4>1, <4>2, <4>3, <4>4 DEF AfterEvent, Reader
      <4> QED
        BY <3>3, <4>5 DEF ReadNext, TypeOK
    <3> QED
      BY <2>11, <3>2, <3>3
  <2>12. CASE UNCHANGED vars
    BY <2>12 DEF vars, TypeOK
  <2> QED
    BY <2>1, <2>2, <2>3, <2>4, <2>5, <2>6, <2>7, <2>8, <2>9, <2>10, <2>11, <2>12
       DEF Next, Commit, Rollback
<1> QED
  BY <1>1, <1>2, PTL DEF Spec

-----------------------------------------------------------------------------
(* The inductive invariant behind the locks: one append is open at most,   *)
(* of the worker that owns the lease; the rows it has not committed yet    *)
(* are the last ones; a reader stands on a committed row; and a worker     *)
(* queues events of its own streams only, so an open row names the worker  *)
(* whose append holds the locks.                                           *)
OneAppend == \A v, w \in Workers : append[v] > 0 /\ append[w] > 0 => v = w
OwnerAppends == \A w \in Workers : append[w] > 0 => lease.owner = w
QueuesOwn ==
  \A w \in Workers : \A k \in 1 .. Len(worker[w].queue) : worker[w].queue[k].stream[1] = w
OpenRowsLast ==
  \A i \in DOMAIN rows : rows[i].state = "open" =>
    /\ append[rows[i].stream[1]] > 0
    /\ \A j \in Committed : j < i
ReaderOnRow == reader.cursor = 0 \/ reader.cursor \in Committed
Released ==
  \A w \in Workers : worker[w].status = "released" =>
    ~worker[w].claiming /\ lease.owner # w

Locks ==
  /\ OneAppend /\ OwnerAppends /\ QueuesOwn
  /\ OpenRowsLast /\ ReaderOnRow /\ Released

(* A step that leaves the rows, the appends and the reader alone keeps what *)
(* relates them.                                                           *)
LEMMA RowsKept ==
  ASSUME Locks, UNCHANGED <<rows, append, reader>>
  PROVE  OneAppend' /\ OpenRowsLast' /\ ReaderOnRow'
  BY DEF Locks, OneAppend, OpenRowsLast, ReaderOnRow, Committed

(* A worker replaced by one with the same queue, or none, still queues its  *)
(* own events.                                                             *)
LEMMA QueueKept ==
  ASSUME TypeOK, QueuesOwn, NEW w \in Workers, NEW row,
         worker' = [worker EXCEPT ![w] = row],
         row.queue = worker[w].queue \/ row.queue = <<>>
  PROVE  QueuesOwn'
<1>1. \A v \in Workers : worker'[v] = IF v = w THEN row ELSE worker[v]
  BY DEF TypeOK
<1>2. Len(<<>>) = 0
  OBVIOUS
<1> QED
  BY <1>1, <1>2 DEF QueuesOwn

(* Init establishes the invariant.                                         *)
LEMMA LocksInit == Init => Locks
<1> SUFFICES ASSUME Init PROVE Locks
  OBVIOUS
<1>1. \A w \in Workers : worker[w] = Process("up") /\ append[w] = 0
  BY DEF Init
<1>2. DOMAIN rows = {} /\ reader.cursor = 0
  BY DEF Init
<1>3. \A w \in Workers : Len(worker[w].queue) = 0 /\ worker[w].status = "up"
  BY <1>1 DEF Process
<1>4. OneAppend /\ OwnerAppends
  BY <1>1 DEF OneAppend, OwnerAppends
<1>5. QueuesOwn /\ Released
  BY <1>3 DEF QueuesOwn, Released
<1>6. OpenRowsLast /\ ReaderOnRow
  BY <1>2 DEF OpenRowsLast, ReaderOnRow
<1> QED
  BY <1>4, <1>5, <1>6 DEF Locks

(* The start of an append: the locks are free, so its rows are the first    *)
(* open ones, and they come after every committed row.                     *)
LEMMA BeginKeepsLocks ==
  ASSUME TypeOK, Locks, NEW w \in Workers, BeginAppend(w)
  PROVE  Locks'
<1> DEFINE q == worker[w].queue
           size == IF Len(q) < BatchSize THEN Len(q) ELSE BatchSize
           batch == SubSeq(q, 1, size)
           n == Len(rows)
<1>0. q \in Seq(Event) /\ Len(q) \in Nat /\ n \in Nat /\ DOMAIN rows = 1 .. n
  BY DEF TypeOK, Worker
<1>1. size \in 0 .. Len(q) /\ size \in Nat
  BY <1>0, SizesArePositive
<1>2. /\ size > 0 /\ LockFree /\ MayAppend(w)
      /\ rows' = rows \o NewRows(batch)
      /\ append' = [append EXCEPT ![w] = size]
      /\ UNCHANGED <<trade, worker, lease, reader>>
  BY DEF BeginAppend
<1>3. /\ batch \in Seq(Event) /\ Len(batch) = size
      /\ \A k \in 1 .. size : batch[k] = q[k]
  BY <1>1, BatchType
<1>4. /\ NewRows(batch) \in Seq(Row) /\ Len(NewRows(batch)) = size
      /\ \A k \in 1 .. size : /\ NewRows(batch)[k].stream = batch[k].stream
                              /\ NewRows(batch)[k].state \in {"open", "void"}
  BY <1>3, NewRowsType
<1>5. \A v \in Workers : append'[v] = IF v = w THEN size ELSE 0
  BY <1>2 DEF LockFree, TypeOK
<1>6. rows \in Seq(Row)
  BY DEF TypeOK
<1>7. /\ DOMAIN rows' = 1 .. n + size
      /\ \A i \in 1 .. n : rows'[i] = rows[i]
      /\ \A i \in n + 1 .. n + size :
           /\ rows'[i].stream = q[i - n].stream
           /\ rows'[i].state \in {"open", "void"}
  <2> HIDE DEF batch, size, q, n
  <2>1. /\ rows' \in Seq(Row) /\ Len(rows') = Len(rows) + Len(NewRows(batch))
        /\ \A i \in 1 .. Len(rows) + Len(NewRows(batch)) : rows'[i] =
             IF i <= Len(rows) THEN rows[i] ELSE NewRows(batch)[i - Len(rows)]
    BY <1>2, <1>4, <1>6, ConcatProperties
  <2>2. Len(rows') = n + size /\ DOMAIN rows' = 1 .. n + size
    BY <2>1, <1>4, LenProperties DEF n
  <2>3. \A i \in 1 .. n : rows'[i] = rows[i]
    BY <2>1, <1>0, <1>1, <1>4 DEF n
  <2>4. ASSUME NEW i \in n + 1 .. n + size
        PROVE  /\ rows'[i].stream = q[i - n].stream
               /\ rows'[i].state \in {"open", "void"}
    <3>1. i - n \in 1 .. size /\ rows'[i] = NewRows(batch)[i - n]
      BY <2>1, <1>0, <1>1, <1>4 DEF n
    <3> QED
      BY <3>1, <1>3, <1>4
  <2> QED
    BY <2>2, <2>3, <2>4
<1>8. Committed' = Committed
  <2>1. Committed' = {i \in 1 .. n + size : rows'[i].state = "committed"}
    BY <1>7 DEF Committed
  <2>2. Committed = {i \in 1 .. n : rows[i].state = "committed"}
    BY <1>0 DEF Committed
  <2>3. \A i \in 1 .. n + size : i \in 1 .. n \/ i \in n + 1 .. n + size
    BY <1>0, <1>1
  <2>4. \A i \in 1 .. n : i \in 1 .. n + size
    BY <1>0, <1>1
  <2> HIDE DEF size, n
  <2> QED
    BY <1>7, <2>1, <2>2, <2>3, <2>4
<1>9. OneAppend' /\ OwnerAppends'
  BY <1>2, <1>5 DEF OneAppend, OwnerAppends, MayAppend
<1>10. QueuesOwn' /\ Released'
  BY <1>2 DEF Locks, QueuesOwn, Released
<1>11. ReaderOnRow'
  BY <1>2, <1>8 DEF Locks, ReaderOnRow
<1>12. OpenRowsLast'
  <2> SUFFICES ASSUME NEW i \in 1 .. n + size, rows'[i].state = "open"
               PROVE  /\ append'[rows'[i].stream[1]] > 0
                      /\ \A j \in Committed : j < i
    BY <1>7, <1>8 DEF OpenRowsLast
  <2>1. CASE i \in 1 .. n
    <3>1. i \in DOMAIN rows /\ rows[i].state = "open" /\ rows[i] \in Row
      BY <2>1, <1>0, <1>6, <1>7, ElementOfSeq
    <3>2. rows[i].stream[1] \in Workers
      BY <3>1 DEF Row, Streams
    <3>3. append[rows[i].stream[1]] > 0
      BY <3>1 DEF Locks, OpenRowsLast
    <3>4. \A v \in Workers : append[v] = 0
      BY <1>2 DEF LockFree
    <3>5. ~ (0 > 0)
      OBVIOUS
    <3> QED
      BY <3>2, <3>3, <3>4, <3>5
  <2>2. CASE i \in n + 1 .. n + size
    <3>1. i - n \in 1 .. Len(q)
      BY <2>2, <1>0, <1>1
    <3>2. rows'[i].stream[1] = w
      BY <2>2, <3>1, <1>7 DEF Locks, QueuesOwn
    <3>3. \A j \in Committed : j \in 1 .. n
      BY <1>0 DEF Committed
    <3>4. \A j \in 1 .. n : j < i
      BY <2>2, <1>0, <1>1
    <3> QED
      BY <3>2, <3>3, <3>4, <1>2, <1>5
  <2> QED
    BY <2>1, <2>2, <1>0, <1>1
<1> QED
  BY <1>9, <1>10, <1>11, <1>12 DEF Locks

(* The end of an append: every open row was its own, so none is left.      *)
LEMMA EndKeepsLocks ==
  ASSUME TypeOK, Locks, NEW w \in Workers, NEW state \in {"committed", "void"},
         NEW succeeded \in BOOLEAN, EndAppend(w, state, succeeded)
  PROVE  /\ Locks'
         /\ Committed \subseteq Committed'
         /\ \A i \in DOMAIN rows' : rows'[i].state # "open"
<1>1. /\ append[w] > 0
      /\ rows' = EndedRows(w, state)
      /\ worker' = [worker EXCEPT ![w].queue = AfterAppend(w, succeeded)]
      /\ append' = [append EXCEPT ![w] = 0]
      /\ UNCHANGED <<trade, lease, reader>>
  BY DEF EndAppend
<1>2. \A v \in Workers : append[v] \in Nat /\ (v # w => append[v] = 0)
  BY <1>1, SizesArePositive DEF TypeOK, Locks, OneAppend
<1>3. \A v \in Workers : append'[v] = 0
  BY <1>1, <1>2 DEF TypeOK
<1>4. \A i \in DOMAIN rows : rows[i] \in Row /\ rows[i].stream[1] \in Workers
  <2>1. rows \in Seq(Row) /\ DOMAIN rows = 1 .. Len(rows)
    BY DEF TypeOK
  <2>2. \A i \in DOMAIN rows : rows[i] \in Row
    BY <2>1, ElementOfSeq
  <2>3. \A s \in Streams : s[1] \in Workers
    BY DEF Streams
  <2> QED
    BY <2>2, <2>3 DEF Row
<1>5. \A i \in DOMAIN rows : rows[i].state = "open" <=> i \in OpenRows(w)
  BY <1>2, <1>4 DEF Locks, OpenRowsLast, OpenRows
<1>6. /\ DOMAIN rows' = DOMAIN rows
      /\ \A i \in DOMAIN rows :
           rows'[i].state = IF i \in OpenRows(w) THEN state ELSE rows[i].state
  BY <1>1, EndedRowsType
<1>7. \A i \in DOMAIN rows' : rows'[i].state # "open"
  BY <1>5, <1>6
<1>8. Committed \subseteq Committed'
  BY <1>5, <1>6 DEF Committed
<1>9. OneAppend' /\ OwnerAppends'
  BY <1>3 DEF OneAppend, OwnerAppends
<1>10. OpenRowsLast'
  BY <1>7 DEF OpenRowsLast
<1>11. ReaderOnRow'
  BY <1>1, <1>8 DEF Locks, ReaderOnRow
<1>12. Released'
  <2>1. \A v \in Workers : /\ worker'[v].status = worker[v].status
                          /\ worker'[v].claiming = worker[v].claiming
    BY <1>1 DEF TypeOK, Worker
  <2> QED
    BY <1>1, <2>1 DEF Locks, Released
<1>13. QueuesOwn'
  <2> SUFFICES ASSUME NEW v \in Workers, NEW k \in 1 .. Len(worker'[v].queue)
               PROVE  worker'[v].queue[k].stream[1] = v
    BY DEF QueuesOwn
  <2>1. worker'[v].queue = IF v = w THEN AfterAppend(w, succeeded) ELSE worker[v].queue
    BY <1>1 DEF TypeOK, Worker
  <2>2. CASE v = w
    <3>1. PICK m \in 1 .. Len(worker[w].queue) :
            AfterAppend(w, succeeded)[k] = worker[w].queue[m]
      BY <2>1, <2>2, AfterAppendType
    <3> QED
      BY <2>1, <2>2, <3>1 DEF Locks, QueuesOwn
  <2>3. CASE v # w
    BY <2>1, <2>3 DEF Locks, QueuesOwn
  <2> QED
    BY <2>2, <2>3
<1> QED
  BY <1>7, <1>8, <1>9, <1>10, <1>11, <1>12, <1>13 DEF Locks

(* A trade that arrives is queued under the worker's own stream.           *)
LEMMA TradeKeepsLocks ==
  ASSUME TypeOK, Locks, ExecuteTrade
  PROVE  Locks'
<1>1. /\ worker' = [w \in Workers |-> IF worker[w].connected THEN Enqueue(w) ELSE worker[w]]
      /\ UNCHANGED <<lease, rows, append, reader>>
  BY DEF ExecuteTrade
<1>2. \A w \in Workers : worker[w] \in Worker /\ Len(worker[w].queue) \in Nat
  BY DEF TypeOK, Worker
<1>3. \A w \in Workers : /\ Enqueue(w).status = worker[w].status
                        /\ Enqueue(w).claiming = worker[w].claiming
  BY <1>2 DEF Enqueue, Worker
<1>4. ASSUME NEW w \in Workers, NEW k \in 1 .. Len(Enqueue(w).queue)
      PROVE  Enqueue(w).queue[k].stream[1] = w
  <2> DEFINE q == worker[w].queue
             e == [trade |-> trade + 1, stream |-> Stream(w)]
  <2>1. e.stream[1] = w
    BY DEF Stream
  <2>2. \A n \in 1 .. Len(q) : q[n].stream[1] = w
    BY DEF Locks, QueuesOwn
  <2>3. CASE HasRoom(q)
    <3>1. Enqueue(w).queue = Append(q, e)
      BY <1>2, <2>3 DEF Enqueue, Worker
    <3> DEFINE X == Event \cup {e}
    <3>2. q \in Seq(X)
      BY <1>2, SeqMonotonic DEF Worker
    <3>3. /\ Len(Append(q, e)) = Len(q) + 1
          /\ \A n \in 1 .. Len(q) + 1 :
               Append(q, e)[n] = IF n <= Len(q) THEN q[n] ELSE e
      BY <3>2, AppendProperties
    <3> HIDE DEF e, q
    <3>4. k \in 1 .. Len(q) + 1 /\ Len(q) \in Nat
      BY <1>2, <3>1, <3>3 DEF q
    <3> QED
      BY <2>1, <2>2, <3>1, <3>3, <3>4
  <2>4. CASE ~HasRoom(q)
    <3>1. Enqueue(w).queue = q
      BY <1>2, <2>4 DEF Enqueue, Worker
    <3> QED
      BY <2>2, <3>1
  <2> QED
    BY <2>3, <2>4
<1>5. QueuesOwn'
  BY <1>1, <1>4 DEF Locks, QueuesOwn
<1>6. Released' /\ OwnerAppends'
  BY <1>1, <1>3 DEF Locks, Released, OwnerAppends
<1> QED
  BY <1>1, <1>5, <1>6, RowsKept DEF Locks

(* Every step keeps the invariant.                                         *)
LEMMA LocksStep == TypeOK /\ Locks /\ [Next]_vars => Locks'
<1> SUFFICES ASSUME TypeOK, Locks, [Next]_vars PROVE Locks'
  OBVIOUS
<1>0. \A w \in Workers : worker[w] \in Worker
  BY DEF TypeOK
<1>1. CASE ExecuteTrade
  BY <1>1, TradeKeepsLocks
<1>2. CASE ExpireLease
  <2>1. lease'.owner = lease.owner /\ UNCHANGED <<trade, worker, rows, append, reader>>
    BY <1>2 DEF ExpireLease, TypeOK
  <2>2. OwnerAppends' /\ QueuesOwn' /\ Released'
    BY <2>1 DEF Locks, OwnerAppends, QueuesOwn, Released
  <2> QED
    BY <2>1, <2>2, RowsKept DEF Locks
<1>3. ASSUME NEW w \in Workers, Connect(w) \/ Disconnect(w) PROVE Locks'
  <2> DEFINE row == worker'[w]
  <2>1. /\ UNCHANGED <<trade, lease, rows, append, reader>>
        /\ worker' = [worker EXCEPT ![w] = row]
        /\ row.queue = worker[w].queue
        /\ row.status = worker[w].status /\ row.claiming = worker[w].claiming
    BY <1>0, <1>3 DEF Connect, Disconnect, TypeOK, Worker
  <2>2. QueuesOwn'
    BY <2>1, QueueKept DEF Locks
  <2>3. OwnerAppends' /\ Released'
    BY <2>1 DEF Locks, OwnerAppends, Released, TypeOK
  <2> QED
    BY <2>1, <2>2, <2>3, RowsKept DEF Locks
<1>4. ASSUME NEW w \in Workers, NEW answered \in BOOLEAN, Claim(w, answered) PROVE Locks'
  <2> DEFINE row == HearClaim(w, MayClaim(w) /\ answered)
  <2>1. /\ UNCHANGED <<trade, rows, append, reader>>
        /\ worker' = [worker EXCEPT ![w] = row]
        /\ worker[w].status = "up" \/ worker[w].claiming
        /\ LockFree
        /\ lease' = IF MayClaim(w) THEN [owner |-> w, live |-> TRUE] ELSE lease
    BY <1>4 DEF Claim
  <2>2. row.queue = worker[w].queue /\ row.status = worker[w].status
    BY <1>0 DEF HearClaim, Worker
  <2>3. QueuesOwn'
    BY <2>1, <2>2, QueueKept DEF Locks
  <2>4. OwnerAppends'
    BY <2>1 DEF LockFree, OwnerAppends
  <2>5. worker[w].status # "released"
    BY <2>1 DEF Locks, Released
  <2>6. lease'.owner \in {w, lease.owner}
    BY <2>1
  <2>7. Released'
    <3> SUFFICES ASSUME NEW v \in Workers, worker'[v].status = "released"
                 PROVE  ~worker'[v].claiming /\ lease'.owner # v
      BY DEF Released
    <3>1. v # w /\ worker'[v] = worker[v]
      BY <2>1, <2>2, <2>5 DEF TypeOK
    <3> QED
      BY <3>1, <2>6 DEF Locks, Released
  <2> QED
    BY <2>1, <2>3, <2>4, <2>7, RowsKept DEF Locks
<1>5. ASSUME NEW w \in Workers, NEW claiming \in BOOLEAN, Stop(w, claiming) PROVE Locks'
  <2> DEFINE row == worker'[w]
  <2>1. /\ UNCHANGED <<trade, lease, rows, append, reader>>
        /\ worker' = [worker EXCEPT ![w] = row]
        /\ row.queue = worker[w].queue
        /\ row.status = "stopping"
    BY <1>0, <1>5 DEF Stop, TypeOK, Worker
  <2>2. QueuesOwn'
    BY <2>1, QueueKept DEF Locks
  <2>3. OwnerAppends' /\ Released'
    BY <2>1 DEF Locks, OwnerAppends, Released, TypeOK
  <2> QED
    BY <2>1, <2>2, <2>3, RowsKept DEF Locks
<1>6. ASSUME NEW w \in Workers, Release(w) PROVE Locks'
  <2> DEFINE row == [Process("released") EXCEPT !.claiming = worker[w].claiming]
  <2>1. /\ UNCHANGED <<trade, rows, append, reader>>
        /\ worker' = [worker EXCEPT ![w] = row]
        /\ append[w] = 0 /\ ~worker[w].claiming
        /\ lease' = IF lease.owner = w THEN [owner |-> None, live |-> FALSE] ELSE lease
    BY <1>6 DEF Release, ClaimsLanded
  <2>2. row.queue = <<>> /\ row.claiming = worker[w].claiming
    BY DEF Process
  <2>3. QueuesOwn'
    BY <2>1, <2>2, QueueKept DEF Locks
  <2>4. OwnerAppends'
    <3> SUFFICES ASSUME NEW v \in Workers, append[v] > 0 PROVE lease'.owner = v
      BY <2>1 DEF OwnerAppends
    <3>1. v # w /\ lease.owner = v
      BY <2>1 DEF Locks, OwnerAppends
    <3> QED
      BY <2>1, <3>1
  <2>5. \A v \in Workers : lease'.owner = v => lease.owner = v /\ v # w
    BY <2>1, NoneIsNoWorker
  <2>6. Released'
    <3> SUFFICES ASSUME NEW v \in Workers, worker'[v].status = "released"
                 PROVE  ~worker'[v].claiming /\ lease'.owner # v
      BY DEF Released
    <3>1. worker'[v] = IF v = w THEN row ELSE worker[v]
      BY <2>1 DEF TypeOK
    <3> QED
      BY <2>1, <2>2, <2>5, <3>1 DEF Locks, Released
  <2> QED
    BY <2>1, <2>3, <2>4, <2>6, RowsKept DEF Locks
<1>7. ASSUME NEW w \in Workers, Crash(w) PROVE Locks'
  <2> DEFINE row == Process("crashed")
  <2>1. /\ UNCHANGED <<trade, lease, rows, append, reader>>
        /\ worker' = [worker EXCEPT ![w] = row]
    BY <1>7 DEF Crash
  <2>2. row.queue = <<>> /\ row.status = "crashed"
    BY DEF Process
  <2>3. QueuesOwn'
    BY <2>1, <2>2, QueueKept DEF Locks
  <2>4. OwnerAppends' /\ Released'
    BY <2>1, <2>2 DEF Locks, OwnerAppends, Released, TypeOK
  <2> QED
    BY <2>1, <2>3, <2>4, RowsKept DEF Locks
<1>8. ASSUME NEW w \in Workers, BeginAppend(w) PROVE Locks'
  BY <1>8, BeginKeepsLocks
<1>9. ASSUME NEW w \in Workers, NEW state \in {"committed", "void"},
             NEW succeeded \in BOOLEAN, EndAppend(w, state, succeeded)
      PROVE  Locks'
  BY <1>9, EndKeepsLocks
<1>10. ASSUME NEW i \in DOMAIN rows, OpenReader(i) \/ ReadNext(i) PROVE Locks'
  <2>1. /\ UNCHANGED <<trade, worker, lease, rows, append>>
        /\ i \in Committed /\ reader'.cursor = i
    <3>1. reader \in Reader
      BY DEF TypeOK
    <3>2. AfterEvent(i).cursor = i
      BY <3>1 DEF AfterEvent, Reader
    <3> QED
      BY <1>10, <3>2 DEF OpenReader, ReadNext
  <2>2. Committed' = Committed
    BY <2>1 DEF Committed
  <2>3. OneAppend' /\ OwnerAppends' /\ QueuesOwn' /\ Released'
    BY <2>1 DEF Locks, OneAppend, OwnerAppends, QueuesOwn, Released
  <2>4. OpenRowsLast' /\ ReaderOnRow'
    BY <2>1, <2>2 DEF Locks, OpenRowsLast, ReaderOnRow
  <2> QED
    BY <2>3, <2>4 DEF Locks
<1>11. CASE UNCHANGED vars
  BY <1>11, RowsKept DEF vars, Locks, OwnerAppends, QueuesOwn, Released
<1> QED
  BY <1>1, <1>2, <1>3, <1>4, <1>5, <1>6, <1>7, <1>8, <1>9, <1>10, <1>11
     DEF Next, Commit, Rollback

(* The invariant of the locks holds in every run.                          *)
THEOREM LocksInvariant == Spec => []Locks
  BY Typing, LocksInit, LocksStep, PTL DEF Spec

(* No reader ever stands past an id whose row may still appear.            *)
THEOREM IdsInCommitOrder == Spec => []NothingAppearsBehind
<1>1. TypeOK /\ Locks => NothingAppearsBehind
  <2> SUFFICES ASSUME TypeOK, Locks, NEW i \in DOMAIN rows, i <= reader.cursor
               PROVE  rows[i].state # "open"
    BY DEF NothingAppearsBehind
  <2>1. i \in Nat /\ i >= 1 /\ reader.cursor \in Nat
    BY DEF TypeOK, Reader
  <2>2. reader.cursor \in Committed
    BY <2>1 DEF Locks, ReaderOnRow
  <2>3. rows[i].state = "open" => reader.cursor < i
    BY <2>2 DEF Locks, OpenRowsLast
  <2> QED
    BY <2>1, <2>3
<1> QED
  BY <1>1, Typing, LocksInvariant, PTL

(* A worker that released the lease never owns it again.                   *)
THEOREM HandoverIsClean == Spec => []CleanHandover
<1>1. Locks => CleanHandover
  BY DEF Locks, Released, CleanHandover
<1> QED
  BY <1>1, LocksInvariant, PTL

(* Every append ends under the lease it was admitted with.                 *)
THEOREM AppendsEndUnderLease == Spec => CommitUnderLease
<1>1. Locks /\ [Next]_vars =>
        [\A w \in Workers : (append[w] > 0 /\ append'[w] = 0) => lease.owner = w]_vars
  BY DEF Locks, OwnerAppends
<1> QED
  BY <1>1, LocksInvariant, PTL DEF Spec, CommitUnderLease
-----------------------------------------------------------------------------
(* The inductive invariant behind NoHiddenGap: how the stored trades, the   *)
(* batch under way, a worker's queue and the live stream fit together.      *)
Queue(w) == worker[w].queue
Positions(w) == 1 .. Len(Queue(w))
Live == {i \in DOMAIN rows : rows[i].state # "void"}
Between(a, b) == a + 1 .. b - 1
QueuedBefore(w, k, t) == \E l \in Positions(w) : l <= k /\ Queue(w)[l].trade = t

\* A queue is in the order of the tape, and whole inside a stream.
QueueInOrder ==
  \A w \in Workers : \A k, l \in Positions(w) :
    /\ Queue(w)[k].trade <= trade
    /\ k < l => Queue(w)[k].trade < Queue(w)[l].trade
QueueWhole ==
  \A w \in Workers : \A k, l \in Positions(w) :
    k < l /\ Queue(w)[k].stream = Queue(w)[l].stream =>
      \A t \in Between(Queue(w)[k].trade, Queue(w)[l].trade) :
        \E m \in k + 1 .. l - 1 : Queue(w)[m].trade = t

\* Nothing of a session that has not begun, nor of one that began with a trade
\* dropped and has taken none since.
Past(w, stream) ==
  /\ stream[2] <= worker[w].session
  /\ worker[w].overflowing => stream # Stream(w)
SessionsBegun ==
  \A w \in Workers : Running(w) =>
    /\ \A k \in Positions(w) : Past(w, Queue(w)[k].stream)
    /\ \A i \in Live : rows[i].stream[1] = w => Past(w, rows[i].stream)
Connected ==
  \A w \in Workers : /\ worker[w].connected => worker[w].status = "up"
                     /\ ~Running(w) => Queue(w) = <<>>

\* While its process runs, an open append is about the head of the queue.
BatchInRows ==
  \A w \in Workers : Running(w) /\ append[w] > 0 =>
    /\ append[w] <= Len(Queue(w))
    /\ \A k \in 1 .. append[w] :
         \/ Queue(w)[k].trade \in StoredTrades
         \/ \E i \in OpenRows(w) : rows[i].trade = Queue(w)[k].trade
    /\ \A i \in OpenRows(w) : \E k \in 1 .. append[w] :
         rows[i].trade = Queue(w)[k].trade /\ rows[i].stream = Queue(w)[k].stream

\* From a stored trade on, a stream is stored or queued in order, to the last trade
\* of the exchange while the stream is connected.
RowsThenQueue ==
  \A w \in Workers : \A i \in Committed : \A k \in Positions(w) :
    rows[i].stream = Queue(w)[k].stream =>
      \A t \in Between(rows[i].trade, Queue(w)[k].trade) :
        t \in StoredTrades \/ QueuedBefore(w, k, t)
RowsToDate ==
  \A w \in Workers : worker[w].connected =>
    \A i \in Committed : rows[i].stream = Stream(w) =>
      \A t \in rows[i].trade + 1 .. trade : t \in StoredTrades \/ QueuedBefore(w, Len(Queue(w)), t)
QueueToDate ==
  \A w \in Workers : worker[w].connected =>
    \A k \in Positions(w) : Queue(w)[k].stream = Stream(w) =>
      \A t \in Queue(w)[k].trade + 1 .. trade :
        \E l \in k + 1 .. Len(Queue(w)) : Queue(w)[l].trade = t

\* The rows of a stream, the open ones included, are whole.
RowsWhole ==
  \A i, j \in Live : i < j /\ rows[i].stream = rows[j].stream =>
    \A t \in Between(rows[i].trade, rows[j].trade) :
      \E k \in Live : k < j /\ rows[k].trade = t

Flow ==
  /\ QueueInOrder /\ QueueWhole /\ SessionsBegun /\ Connected
  /\ BatchInRows /\ RowsThenQueue /\ RowsToDate /\ QueueToDate /\ RowsWhole

\* The position has seen no trade later than the one it is managed through, and
\* stands on the stream of a row it has read.
ReaderInStream ==
  reader.open =>
    /\ reader.start <= reader.through
    /\ \A k \in Committed : k <= reader.cursor => rows[k].trade <= reader.through
    /\ \E k \in Committed : k <= reader.cursor /\ rows[k].stream = reader.stream

(* The events of a queue and the rows of the journal.                      *)
LEMMA EventsTyped ==
  ASSUME TypeOK, NEW w \in Workers
  PROVE  /\ Queue(w) \in Seq(Event) /\ Len(Queue(w)) \in Nat
         /\ \A k \in Positions(w) : Queue(w)[k] \in Event
<1>1. Queue(w) \in Seq(Event)
  BY DEF TypeOK, Worker, Queue
<1> QED
  BY <1>1, ElementOfSeq DEF Positions

(* The rows of the journal are rows.                                       *)
LEMMA RowsTyped ==
  ASSUME TypeOK
  PROVE  /\ DOMAIN rows = 1 .. Len(rows) /\ Len(rows) \in Nat
         /\ \A i \in DOMAIN rows : rows[i] \in Row /\ i \in Nat
<1>1. rows \in Seq(Row)
  BY DEF TypeOK
<1>2. DOMAIN rows = 1 .. Len(rows) /\ Len(rows) \in Nat
  BY <1>1
<1>3. \A i \in DOMAIN rows : rows[i] \in Row
  BY <1>1, ElementOfSeq
<1> QED
  BY <1>2, <1>3

(* A worker whose process goes on with the same queue, or ends and loses    *)
(* it, keeps the flow: a stream that connects is one that has not begun.    *)
LEMMA ProcessKeepsFlow ==
  ASSUME TypeOK, Flow, NEW w \in Workers, NEW row \in Worker,
         UNCHANGED <<trade, rows, append>>,
         worker' = [worker EXCEPT ![w] = row],
         \/ /\ row.queue = Queue(w)
            /\ row.status \in {"up", "stopping"} <=> Running(w)
            /\ row.connected => row.status = "up"
            /\ \/ row.session = worker[w].session + 1
               \/ /\ row.session = worker[w].session
                  /\ row.overflowing = worker[w].overflowing
                  /\ row.connected => worker[w].connected
         \/ row.queue = <<>> /\ row.status \in {"released", "crashed"} /\ ~row.connected
  PROVE  Flow'
<1>1. \A v \in Workers : worker'[v] = IF v = w THEN row ELSE worker[v]
  BY DEF TypeOK
<1>2. /\ Committed' = Committed /\ StoredTrades' = StoredTrades /\ Live' = Live
      /\ \A v : OpenRows(v)' = OpenRows(v)
  BY DEF Committed, StoredTrades, Live, OpenRows
<1>3. /\ worker[w] \in Worker /\ worker[w].session \in Nat /\ Len(Queue(w)) \in Nat
      /\ row.session \in Nat
  BY SizesArePositive DEF TypeOK, Worker, Queue
<1>4. CASE row.queue = <<>> /\ row.status \in {"released", "crashed"} /\ ~row.connected
  <2>1. Positions(w)' = {} /\ ~Running(w)' /\ ~worker'[w].connected
    BY <1>1, <1>4 DEF Positions, Queue, Running
  <2>2. \A v \in Workers : v # w => worker'[v] = worker[v]
    BY <1>1
  <2>3. QueueInOrder' /\ QueueWhole'
    BY <2>1, <2>2 DEF Flow, QueueInOrder, QueueWhole, Queue, Positions, Between
  <2>4. SessionsBegun'
    BY <2>1, <2>2, <1>2 DEF Flow, SessionsBegun, Past, Running, Stream, Queue, Positions
  <2>10. Connected'
    BY <2>1, <2>2, <1>1, <1>4 DEF Flow, Connected, Running, Queue
  <2>5. BatchInRows'
    BY <2>1, <2>2, <1>2 DEF Flow, BatchInRows, Running, Queue
  <2>6. RowsThenQueue'
    BY <2>1, <2>2, <1>2 DEF Flow, RowsThenQueue, Queue, Positions, Between, QueuedBefore
  <2>7. RowsToDate'
    BY <2>1, <2>2, <1>2 DEF Flow, RowsToDate, Queue, Positions, QueuedBefore, Stream
  <2>8. QueueToDate'
    <3>1. QueueToDate
      BY DEF Flow
    <3> QED
      BY <3>1, <2>1, <2>2 DEF QueueToDate, Queue, Positions, Stream
  <2>9. RowsWhole'
    BY <1>2 DEF Flow, RowsWhole, Between
  <2> QED
    BY <2>3, <2>4, <2>5, <2>6, <2>7, <2>8, <2>9, <2>10 DEF Flow
<1>5. ASSUME /\ row.queue = Queue(w)
             /\ row.status \in {"up", "stopping"} <=> Running(w)
             /\ row.connected => row.status = "up"
             /\ \/ row.session = worker[w].session + 1
                \/ /\ row.session = worker[w].session
                   /\ row.overflowing = worker[w].overflowing
                   /\ row.connected => worker[w].connected
      PROVE  Flow'
  <2>1. \A v \in Workers : Queue(v)' = Queue(v) /\ Positions(v)' = Positions(v)
    BY <1>1, <1>5 DEF Queue, Positions
  <2>2. \A v \in Workers : v # w => worker'[v] = worker[v]
    BY <1>1
  <2>3. QueueInOrder' /\ QueueWhole' /\ RowsThenQueue' /\ RowsWhole'
    BY <2>1, <1>2 DEF Flow, QueueInOrder, QueueWhole, RowsThenQueue, RowsWhole, Between,
                      QueuedBefore
  <2>4. Connected'
    <3> SUFFICES ASSUME NEW v \in Workers
                 PROVE  /\ worker'[v].connected => worker'[v].status = "up"
                        /\ ~Running(v)' => Queue(v) = <<>>
      BY <2>1 DEF Connected
    <3>1. /\ worker[v].connected => worker[v].status = "up"
          /\ ~Running(v) => Queue(v) = <<>>
      BY DEF Flow, Connected
    <3>2. CASE v # w
      BY <3>1, <3>2, <2>2 DEF Running
    <3>3. CASE v = w
      <4>1. worker'[v] = row
        BY <1>1, <3>3
      <4>2. worker[w].status \in {"up", "stopping"} => row.status \in {"up", "stopping"}
        BY <1>5 DEF Running
      <4> QED
        BY <3>1, <3>3, <4>1, <4>2, <1>5 DEF Running
    <3> QED
      BY <3>2, <3>3
  <2>5. BatchInRows'
    BY <1>1, <1>2, <1>5, <2>1 DEF Flow, BatchInRows, Running
  <2>6. \A stream \in Streams : Running(w) /\ Past(w, stream) => Past(w, stream)'
    <3> SUFFICES ASSUME NEW stream \in Streams, Past(w, stream) PROVE Past(w, stream)'
      OBVIOUS
    <3>1. stream[2] \in Nat /\ stream[2] <= worker[w].session
      BY SizesArePositive DEF Past, Streams
    <3>2. worker'[w] = row
      BY <1>1
    <3>3. CASE row.session = worker[w].session + 1
      <4>1. stream[2] # row.session /\ stream[2] <= row.session
        BY <1>3, <3>1, <3>3
      <4>2. stream # <<w, row.session>>
        BY <4>1
      <4> QED
        BY <3>2, <4>1, <4>2 DEF Past, Stream
    <3>4. CASE row.session = worker[w].session /\ row.overflowing = worker[w].overflowing
      BY <3>2, <3>4 DEF Past, Stream
    <3> QED
      BY <1>5, <3>3, <3>4
  <2>7. \A v \in Workers : \A k \in Positions(v) : Queue(v)[k].stream \in Streams
    BY EventsTyped DEF Event
  <2>8. \A i \in DOMAIN rows : rows[i].stream \in Streams
    BY RowsTyped DEF Row
  <2>9. SessionsBegun'
    <3> SUFFICES ASSUME NEW v \in Workers, Running(v)'
                 PROVE  /\ \A k \in Positions(v) : Past(v, Queue(v)[k].stream)'
                        /\ \A i \in Live : rows[i].stream[1] = v => Past(v, rows[i].stream)'
      BY <2>1, <1>2 DEF SessionsBegun
    <3>1. Running(v)
      BY <1>1, <1>5 DEF Running
    <3>2. ASSUME NEW stream \in Streams, Past(v, stream) PROVE Past(v, stream)'
      <4>1. CASE v = w
        BY <3>1, <3>2, <4>1, <2>6
      <4>2. CASE v # w
        BY <3>2, <4>2, <2>2 DEF Past, Stream
      <4> QED
        BY <4>1, <4>2
    <3>3. \A k \in Positions(v) : Past(v, Queue(v)[k].stream)
      BY <3>1 DEF Flow, SessionsBegun
    <3>4. \A i \in Live : rows[i].stream[1] = v => Past(v, rows[i].stream)
      BY <3>1 DEF Flow, SessionsBegun
    <3>5. Queue(v)' = Queue(v) /\ rows' = rows
      BY <2>1
    <3>6. \A k \in Positions(v) : Past(v, Queue(v)[k].stream)'
      BY <3>2, <3>3, <3>5, <2>7 DEF Past
    <3>7. \A i \in Live : rows[i].stream[1] = v => Past(v, rows[i].stream)'
      BY <3>2, <3>4, <3>5, <2>8 DEF Past, Live
    <3> QED
      BY <3>6, <3>7
  <2>10. \A stream \in Streams : row.connected /\ Past(w, stream) /\ stream = Stream(w)'
            => worker[w].connected /\ stream = Stream(w)
    <3> SUFFICES ASSUME NEW stream \in Streams, row.connected, Past(w, stream),
                        stream = Stream(w)'
                 PROVE  worker[w].connected /\ stream = Stream(w)
      OBVIOUS
    <3>1. stream[2] = row.session /\ stream[2] <= worker[w].session
      BY <1>1 DEF Stream, Past
    <3>2. row.session # worker[w].session + 1
      BY <1>3, <3>1
    <3> QED
      BY <1>1, <1>5, <3>2 DEF Stream
  <2>11. worker'[w].connected => Running(w)
    BY <1>1, <1>5
  <2>12. RowsToDate'
    <3> SUFFICES ASSUME NEW v \in Workers, worker'[v].connected, NEW i \in Committed,
                        rows[i].stream = Stream(v)', NEW t \in rows[i].trade + 1 .. trade
                 PROVE  t \in StoredTrades \/ QueuedBefore(v, Len(Queue(v)), t)
      BY <2>1, <1>2 DEF RowsToDate, QueuedBefore
    <3>1. i \in Live /\ rows[i].stream \in Streams
      BY <2>8 DEF Committed, Live
    <3>2. CASE v = w
      <4>1. rows[i].stream[1] = w
        BY <3>2 DEF Stream
      <4>2. Past(w, rows[i].stream)
        BY <3>1, <3>2, <4>1, <2>11 DEF Flow, SessionsBegun
      <4>3. worker[w].connected /\ rows[i].stream = Stream(w)
        BY <3>1, <3>2, <4>2, <2>10, <1>1
      <4> QED
        BY <3>2, <4>3 DEF Flow, RowsToDate
    <3>3. CASE v # w
      BY <3>3, <2>2 DEF Flow, RowsToDate, Stream
    <3> QED
      BY <3>2, <3>3
  <2>13. QueueToDate'
    <3> SUFFICES ASSUME NEW v \in Workers, worker'[v].connected, NEW k \in Positions(v),
                        Queue(v)[k].stream = Stream(v)',
                        NEW t \in Queue(v)[k].trade + 1 .. trade
                 PROVE  \E l \in k + 1 .. Len(Queue(v)) : Queue(v)[l].trade = t
      BY <2>1 DEF QueueToDate
    <3>2. CASE v = w
      <4>2. Past(w, Queue(v)[k].stream)
        BY <3>2, <2>11 DEF Flow, SessionsBegun
      <4>3. worker[w].connected /\ Queue(v)[k].stream = Stream(w)
        BY <3>2, <4>2, <2>7, <2>10, <1>1
      <4> QED
        BY <3>2, <4>3 DEF Flow, QueueToDate
    <3>3. CASE v # w
      BY <3>3, <2>2 DEF Flow, QueueToDate, Stream
    <3> QED
      BY <3>2, <3>3
  <2> QED
    BY <2>3, <2>4, <2>5, <2>9, <2>12, <2>13 DEF Flow
<1> QED
  BY <1>4, <1>5

(* What enqueue does to a queue with room, and to a full one.              *)
LEMMA EnqueueCases ==
  ASSUME TypeOK, NEW w \in Workers
  PROVE  /\ Enqueue(w).status = worker[w].status
         /\ Enqueue(w).connected = worker[w].connected
         /\ HasRoom(Queue(w)) =>
              /\ Enqueue(w).session = worker[w].session
              /\ Enqueue(w).overflowing = FALSE
              /\ Len(Enqueue(w).queue) = Len(Queue(w)) + 1
              /\ \A k \in Positions(w) : Enqueue(w).queue[k] = Queue(w)[k]
              /\ Enqueue(w).queue[Len(Queue(w)) + 1]
                   = [trade |-> trade + 1, stream |-> Stream(w)]
         /\ ~HasRoom(Queue(w)) =>
              /\ Enqueue(w).queue = Queue(w)
              /\ Enqueue(w).overflowing = TRUE
              /\ Enqueue(w).session =
                   IF worker[w].overflowing THEN worker[w].session ELSE worker[w].session + 1
<1> DEFINE e == [trade |-> trade + 1, stream |-> Stream(w)]
           q == Queue(w)
<1>1. worker[w] \in Worker /\ q = worker[w].queue
  BY DEF TypeOK, Queue
<1>2. CASE HasRoom(q)
  <2>1. Enqueue(w) = [worker[w] EXCEPT !.overflowing = FALSE, !.queue = Append(@, e)]
    BY <1>1, <1>2 DEF Enqueue
  <2>2. /\ Enqueue(w).status = worker[w].status
        /\ Enqueue(w).connected = worker[w].connected
        /\ Enqueue(w).session = worker[w].session
        /\ Enqueue(w).overflowing = FALSE
        /\ Enqueue(w).queue = Append(q, e)
    BY <1>1, <2>1 DEF Worker
  <2> DEFINE X == Event \cup {e}
  <2>3. q \in Seq(X) /\ Len(q) \in Nat
    BY EventsTyped, SeqMonotonic
  <2>4. /\ Len(Append(q, e)) = Len(q) + 1
        /\ \A n \in 1 .. Len(q) + 1 :
             Append(q, e)[n] = IF n <= Len(q) THEN q[n] ELSE e
    BY <2>3, AppendProperties
  <2> HIDE DEF e, q
  <2>5. /\ \A k \in 1 .. Len(q) : Append(q, e)[k] = q[k]
        /\ Append(q, e)[Len(q) + 1] = e
    BY <2>3, <2>4
  <2> QED
    BY <1>2, <2>2, <2>4, <2>5 DEF e, q, Positions
<1>3. CASE ~HasRoom(q)
  <2>1. Enqueue(w) = [worker[w] EXCEPT !.overflowing = TRUE,
                        !.session = IF worker[w].overflowing THEN @ ELSE @ + 1]
    BY <1>1, <1>3 DEF Enqueue
  <2> QED
    BY <1>1, <1>3, <2>1 DEF Worker
<1> QED
  BY <1>2, <1>3

(* A trade of the exchange: a worker that takes it continues its stream, a  *)
(* worker that drops it is in a session without entries.                   *)
LEMMA TradeKeepsFlow ==
  ASSUME TypeOK, Flow, ExecuteTrade
  PROVE  Flow'
<1> DEFINE Taken(v) ==
             /\ worker[v].connected /\ worker'[v].connected
             /\ worker'[v].status = worker[v].status
             /\ worker'[v].session = worker[v].session
             /\ worker'[v].overflowing = FALSE
             /\ Len(Queue(v)') = Len(Queue(v)) + 1
             /\ \A k \in Positions(v) : Queue(v)'[k] = Queue(v)[k]
             /\ Queue(v)'[Len(Queue(v)) + 1].trade = trade + 1
             /\ Queue(v)'[Len(Queue(v)) + 1].stream = Stream(v)
           Dropped(v) ==
             /\ worker[v].connected
             /\ worker'[v].status = worker[v].status
             /\ Queue(v)' = Queue(v)
             /\ worker'[v].overflowing = TRUE
             /\ worker'[v].session =
                   IF worker[v].overflowing THEN worker[v].session ELSE worker[v].session + 1
           Missed(v) == ~worker[v].connected /\ worker'[v] = worker[v]
<1>1. /\ trade' = trade + 1 /\ trade \in Nat
      /\ rows' = rows /\ append' = append
      /\ worker' = [w \in Workers |-> IF worker[w].connected THEN Enqueue(w) ELSE worker[w]]
  BY SizesArePositive DEF ExecuteTrade, TypeOK
<1>2. \A v \in Workers : Taken(v) \/ Dropped(v) \/ Missed(v)
  <2> TAKE v \in Workers
  <2>1. CASE ~worker[v].connected
    BY <1>1, <2>1
  <2>2. CASE worker[v].connected /\ HasRoom(Queue(v))
    <3>1. worker'[v] = Enqueue(v)
      BY <1>1, <2>2
    <3>2. Queue(v)' = Enqueue(v).queue
      BY <3>1 DEF Queue
    <3>3. /\ Enqueue(v).status = worker[v].status
          /\ Enqueue(v).connected = worker[v].connected
          /\ Enqueue(v).session = worker[v].session
          /\ Enqueue(v).overflowing = FALSE
          /\ Len(Enqueue(v).queue) = Len(Queue(v)) + 1
          /\ \A k \in Positions(v) : Enqueue(v).queue[k] = Queue(v)[k]
          /\ Enqueue(v).queue[Len(Queue(v)) + 1]
               = [trade |-> trade + 1, stream |-> Stream(v)]
      BY <2>2, EnqueueCases
    <3>4. Taken(v)
      BY <2>2, <3>1, <3>2, <3>3
    <3> QED
      BY <3>4
  <2>3. CASE worker[v].connected /\ ~HasRoom(Queue(v))
    <3>1. worker'[v] = Enqueue(v)
      BY <1>1, <2>3
    <3>2. Dropped(v)
      BY <2>3, <3>1, EnqueueCases DEF Queue
    <3> QED
      BY <3>2
  <2> QED
    BY <2>1, <2>2, <2>3
<1>3. \A v \in Workers :
        /\ Len(Queue(v)) \in Nat /\ Positions(v) = 1 .. Len(Queue(v))
        /\ worker[v].session \in Nat
        /\ \A k \in Positions(v) : Queue(v)[k].stream \in Streams /\ Queue(v)[k].trade \in Nat
  <2>1. \A e \in Event : e.stream \in Streams /\ e.trade \in Nat
    BY SizesArePositive DEF Event, Trades
  <2>2. \A v \in Workers : worker[v].session \in Nat
    BY SizesArePositive DEF TypeOK, Worker
  <2>3. \A v \in Workers :
          /\ Len(Queue(v)) \in Nat
          /\ \A k \in Positions(v) : Queue(v)[k] \in Event
    BY EventsTyped
  <2> QED
    BY <2>1, <2>2, <2>3 DEF Positions
<1>4. \A v \in Workers :
        /\ Positions(v)' = 1 .. Len(Queue(v)')
        /\ Missed(v) \/ Dropped(v) => Positions(v)' = Positions(v) /\ Queue(v)' = Queue(v)
        /\ Taken(v) => \A k \in Positions(v)' : k \in Positions(v) \/ k = Len(Queue(v)) + 1
  BY <1>3 DEF Positions, Queue
<1>5. /\ Committed' = Committed /\ StoredTrades' = StoredTrades /\ Live' = Live
      /\ \A v : OpenRows(v)' = OpenRows(v)
  BY <1>1 DEF Committed, StoredTrades, Live, OpenRows
<1>6. \A i \in DOMAIN rows : rows[i].stream \in Streams /\ rows[i].trade \in Nat
  BY RowsTyped DEF Row, Trades
<1> HIDE DEF Taken, Dropped, Missed
<1>7. QueueInOrder'
  <2> SUFFICES ASSUME NEW v \in Workers, NEW k \in Positions(v)', NEW l \in Positions(v)'
               PROVE  /\ Queue(v)'[k].trade <= trade + 1
                      /\ k < l => Queue(v)'[k].trade < Queue(v)'[l].trade
    BY <1>1 DEF QueueInOrder
  <2>1. \A m, n \in Positions(v) :
          /\ Queue(v)[m].trade <= trade
          /\ m < n => Queue(v)[m].trade < Queue(v)[n].trade
    BY DEF Flow, QueueInOrder
  <2>2. CASE Taken(v)
    BY <1>1, <1>3, <1>4, <2>1, <2>2 DEF Taken
  <2>3. CASE Dropped(v) \/ Missed(v)
    BY <1>1, <1>3, <1>4, <2>1, <2>3
  <2> QED
    BY <1>2, <2>2, <2>3
<1>8. QueueWhole'
  <2> SUFFICES ASSUME NEW v \in Workers, NEW k \in Positions(v)', NEW l \in Positions(v)',
                      k < l, Queue(v)'[k].stream = Queue(v)'[l].stream,
                      NEW t \in Between(Queue(v)'[k].trade, Queue(v)'[l].trade)
               PROVE  \E m \in k + 1 .. l - 1 : Queue(v)'[m].trade = t
    BY DEF QueueWhole, Between
  <2>1. CASE l \in Positions(v)
    <3>1. k \in Positions(v)
      BY <2>1, <1>2, <1>3, <1>4
    <3>2. Queue(v)'[k] = Queue(v)[k] /\ Queue(v)'[l] = Queue(v)[l]
      BY <2>1, <3>1, <1>2, <1>4 DEF Taken
    <3>3. PICK m \in k + 1 .. l - 1 : Queue(v)[m].trade = t
      BY <2>1, <3>1, <3>2 DEF Flow, QueueWhole
    <3>4. m \in Positions(v)
      BY <2>1, <3>1, <3>3, <1>3
    <3>5. Queue(v)'[m] = Queue(v)[m]
      BY <3>4, <1>2, <1>4 DEF Taken
    <3> QED
      BY <3>3, <3>5
  <2>2. CASE l \notin Positions(v)
    <3>1. Taken(v) /\ l = Len(Queue(v)) + 1 /\ k \in Positions(v)
      BY <2>2, <1>2, <1>3, <1>4
    <3>2. /\ Queue(v)'[k] = Queue(v)[k]
          /\ Queue(v)'[l].trade = trade + 1 /\ Queue(v)'[l].stream = Stream(v)
          /\ worker[v].connected
      BY <3>1 DEF Taken
    <3>3. t \in Queue(v)[k].trade + 1 .. trade
      BY <3>1, <3>2, <1>1, <1>3 DEF Between
    <3>4. PICK m \in k + 1 .. Len(Queue(v)) : Queue(v)[m].trade = t
      BY <3>1, <3>2, <3>3 DEF Flow, QueueToDate
    <3>5. m \in Positions(v) /\ m \in k + 1 .. l - 1
      BY <3>1, <3>4, <1>3
    <3>6. Queue(v)'[m] = Queue(v)[m]
      BY <3>1, <3>5 DEF Taken
    <3> QED
      BY <3>4, <3>5, <3>6
  <2> QED
    BY <2>1, <2>2
<1>9. Connected'
  <2> SUFFICES ASSUME NEW v \in Workers
               PROVE  /\ worker'[v].connected => worker'[v].status = "up"
                      /\ ~Running(v)' => Queue(v)' = <<>>
    BY DEF Connected
  <2>1. /\ worker[v].connected => worker[v].status = "up"
        /\ ~Running(v) => Queue(v) = <<>>
    BY DEF Flow, Connected
  <2>2. CASE Missed(v)
    BY <2>1, <2>2 DEF Missed, Running, Queue
  <2>3. CASE Taken(v) \/ Dropped(v)
    <3>1. worker[v].status = "up" /\ worker'[v].status = "up"
      BY <2>1, <2>3 DEF Taken, Dropped
    <3> QED
      BY <3>1 DEF Running
  <2> QED
    BY <1>2, <2>2, <2>3
<1>10. ASSUME NEW v \in Workers, NEW stream \in Streams, Past(v, stream)
       PROVE  Past(v, stream)' /\ (Dropped(v) => stream # Stream(v)')
  <2>1. stream[2] \in Nat /\ stream[2] <= worker[v].session
    BY <1>10, SizesArePositive DEF Past, Streams
  <2>2. CASE Taken(v)
    <3>1. ~Dropped(v)
      BY <2>2 DEF Taken, Dropped
    <3> QED
      BY <2>1, <2>2, <3>1 DEF Taken, Past
  <2>3. CASE Dropped(v)
    <3>1. CASE worker[v].overflowing
      <4>1. stream # Stream(v) /\ Stream(v)' = Stream(v) /\ worker'[v].session = worker[v].session
        BY <1>10, <2>3, <3>1 DEF Past, Dropped, Stream
      <4> QED
        BY <2>1, <4>1 DEF Past
    <3>2. CASE ~worker[v].overflowing
      <4>1. worker'[v].session = worker[v].session + 1
        BY <2>3, <3>2 DEF Dropped
      <4>2. stream[2] <= worker'[v].session /\ stream[2] # worker'[v].session
        BY <2>1, <4>1, <1>3
      <4>3. stream # Stream(v)'
        BY <4>2 DEF Stream
      <4> QED
        BY <4>2, <4>3 DEF Past
    <3> QED
      BY <3>1, <3>2
  <2>4. CASE Missed(v)
    <3>1. ~Dropped(v)
      BY <2>4 DEF Missed, Dropped
    <3> QED
      BY <1>10, <2>4, <3>1 DEF Missed, Past, Stream
  <2> QED
    BY <1>2, <2>2, <2>3, <2>4
<1>11. \A v \in Workers : /\ Running(v)' <=> Running(v)
                          /\ worker'[v].connected => worker[v].connected /\ Running(v)
  BY <1>2 DEF Taken, Dropped, Missed, Running, Flow, Connected
<1>12. SessionsBegun'
  <2> SUFFICES ASSUME NEW v \in Workers, Running(v)
               PROVE  /\ \A k \in Positions(v)' : Past(v, Queue(v)[k].stream)'
                      /\ \A i \in Live : rows[i].stream[1] = v => Past(v, rows[i].stream)'
    BY <1>5, <1>1, <1>11 DEF SessionsBegun
  <2>1. \A i \in Live : rows[i].stream[1] = v => Past(v, rows[i].stream)
    BY DEF Flow, SessionsBegun
  <2>2. \A i \in Live : rows[i].stream[1] = v => Past(v, rows[i].stream)'
    BY <2>1, <1>1, <1>6, <1>10 DEF Past, Live
  <2>3. ASSUME NEW k \in Positions(v)' PROVE Past(v, Queue(v)[k].stream)'
    <3>1. CASE k \in Positions(v)
      <4>1. Past(v, Queue(v)[k].stream) /\ Queue(v)'[k] = Queue(v)[k]
        BY <3>1, <1>2, <1>4 DEF Flow, SessionsBegun, Taken
      <4>2. PICK stream \in Streams : stream = Queue(v)[k].stream
        BY <3>1, <1>3
      <4>3. Past(v, stream)'
        BY <4>1, <4>2, <1>10
      <4> QED
        BY <4>1, <4>2, <4>3 DEF Past
    <3>2. CASE k \notin Positions(v)
      <4>1. Taken(v) /\ k = Len(Queue(v)) + 1
        BY <3>2, <2>3, <1>2, <1>4
      <4>2. /\ Queue(v)'[k].stream = <<v, worker[v].session>>
            /\ worker'[v].session = worker[v].session /\ worker'[v].overflowing = FALSE
        BY <4>1 DEF Taken, Stream
      <4> QED
        BY <4>2, <1>3 DEF Past
    <3> QED
      BY <3>1, <3>2
  <2> QED
    BY <2>2, <2>3
<1>13. BatchInRows'
  <2> SUFFICES ASSUME NEW v \in Workers, Running(v), append[v] > 0
               PROVE  /\ append[v] <= Len(Queue(v)')
                      /\ \A k \in 1 .. append[v] :
                           \/ Queue(v)'[k].trade \in StoredTrades
                           \/ \E i \in OpenRows(v) : rows[i].trade = Queue(v)'[k].trade
                      /\ \A i \in OpenRows(v) : \E k \in 1 .. append[v] :
                           rows[i].trade = Queue(v)'[k].trade /\ rows[i].stream = Queue(v)'[k].stream
    BY <1>1, <1>5, <1>11 DEF BatchInRows
  <2>1. /\ append[v] <= Len(Queue(v))
        /\ \A k \in 1 .. append[v] :
             \/ Queue(v)[k].trade \in StoredTrades
             \/ \E i \in OpenRows(v) : rows[i].trade = Queue(v)[k].trade
        /\ \A i \in OpenRows(v) : \E k \in 1 .. append[v] :
             rows[i].trade = Queue(v)[k].trade /\ rows[i].stream = Queue(v)[k].stream
    BY DEF Flow, BatchInRows
  <2>2. append[v] \in Nat
    BY SizesArePositive DEF TypeOK
  <2>3. Len(Queue(v)') \in Nat /\ Len(Queue(v)) <= Len(Queue(v)')
    BY <1>2, <1>3, <1>4 DEF Taken
  <2>4. \A k \in 1 .. append[v] : Queue(v)'[k] = Queue(v)[k]
    BY <2>1, <2>2, <1>2, <1>3, <1>4 DEF Taken
  <2>5. append[v] <= Len(Queue(v)')
    <3>1. Len(Queue(v)) \in Nat
      BY <1>2, <1>3, <1>4 DEF Taken
    <3> QED
      BY <3>1, <2>1, <2>2, <2>3
  <2>6. \A k \in 1 .. append[v] :
           \/ Queue(v)'[k].trade \in StoredTrades
           \/ \E i \in OpenRows(v) : rows[i].trade = Queue(v)'[k].trade
    BY <2>1, <2>4
  <2>7. ASSUME NEW i \in OpenRows(v)
        PROVE  \E k \in 1 .. append[v] :
                 rows[i].trade = Queue(v)'[k].trade /\ rows[i].stream = Queue(v)'[k].stream
    <3>1. PICK k \in 1 .. append[v] :
            rows[i].trade = Queue(v)[k].trade /\ rows[i].stream = Queue(v)[k].stream
      BY <2>1
    <3>2. Queue(v)'[k] = Queue(v)[k]
      BY <2>4
    <3> QED
      BY <3>1, <3>2
  <2> QED
    BY <2>5, <2>6, <2>7
<1>14. \A v \in Workers : \A t, k :
         k \in Positions(v) /\ QueuedBefore(v, k, t) => QueuedBefore(v, k, t)'
  <2> SUFFICES ASSUME NEW v \in Workers, NEW t, NEW k \in Positions(v), QueuedBefore(v, k, t)
               PROVE  \E l \in Positions(v)' : l <= k /\ Queue(v)'[l].trade = t
    BY DEF QueuedBefore
  <2>1. PICK l \in Positions(v) : l <= k /\ Queue(v)[l].trade = t
    BY DEF QueuedBefore
  <2>2. l \in Positions(v)' /\ Queue(v)'[l] = Queue(v)[l]
    BY <2>1, <1>2, <1>3, <1>4 DEF Taken
  <2> QED
    BY <2>1, <2>2
<1>15. RowsThenQueue'
  <2> SUFFICES ASSUME NEW v \in Workers, NEW i \in Committed, NEW k \in Positions(v)',
                      rows[i].stream = Queue(v)'[k].stream,
                      NEW t \in Between(rows[i].trade, Queue(v)'[k].trade)
               PROVE  t \in StoredTrades \/ \E l \in Positions(v)' : l <= k /\ Queue(v)'[l].trade = t
    BY <1>1, <1>5 DEF RowsThenQueue, QueuedBefore, Between
  <2>1. CASE k \in Positions(v)
    <3>1. Queue(v)'[k] = Queue(v)[k]
      BY <2>1, <1>2, <1>4 DEF Taken
    <3>2. t \in StoredTrades \/ QueuedBefore(v, k, t)
      BY <2>1, <3>1 DEF Flow, RowsThenQueue
    <3> QED
      BY <2>1, <3>2, <1>14 DEF QueuedBefore
  <2>2. CASE k \notin Positions(v)
    <3>1. Taken(v) /\ k = Len(Queue(v)) + 1
      BY <2>2, <1>2, <1>4
    <3>2. /\ Queue(v)'[k].trade = trade + 1 /\ Queue(v)'[k].stream = Stream(v)
          /\ worker[v].connected
      BY <3>1 DEF Taken
    <3>3. t \in rows[i].trade + 1 .. trade
      BY <3>2, <1>1, <1>6 DEF Between, Committed
    <3>4. t \in StoredTrades \/ QueuedBefore(v, Len(Queue(v)), t)
      BY <3>2, <3>3 DEF Flow, RowsToDate
    <3>5. ASSUME QueuedBefore(v, Len(Queue(v)), t)
          PROVE  \E l \in Positions(v)' : l <= k /\ Queue(v)'[l].trade = t
      <4>1. PICK l \in Positions(v) : Queue(v)[l].trade = t
        BY <3>5 DEF QueuedBefore
      <4>2. l \in Positions(v)' /\ l <= k /\ Queue(v)'[l] = Queue(v)[l]
        BY <3>1, <4>1, <1>3, <1>4 DEF Taken
      <4> QED
        BY <4>1, <4>2
    <3> QED
      BY <3>4, <3>5
  <2> QED
    BY <2>1, <2>2
<1>16. RowsToDate'
  <2> SUFFICES ASSUME NEW v \in Workers, worker'[v].connected, NEW i \in Committed,
                      rows[i].stream = Stream(v)', NEW t \in rows[i].trade + 1 .. trade + 1
               PROVE  t \in StoredTrades \/
                      \E l \in Positions(v)' : l <= Len(Queue(v)') /\ Queue(v)'[l].trade = t
    BY <1>1, <1>5 DEF RowsToDate, QueuedBefore
  <2>1. worker[v].connected /\ Running(v)
    BY <1>11
  <2>2. rows[i].stream[1] = v /\ i \in Live /\ rows[i].stream \in Streams /\ rows[i].trade \in Nat
    BY <1>6 DEF Stream, Committed, Live
  <2>3. Past(v, rows[i].stream)
    BY <2>1, <2>2 DEF Flow, SessionsBegun
  <2>4. PICK stream \in Streams : stream = rows[i].stream
    BY <2>2
  <2>5. ~Dropped(v)
    BY <2>3, <2>4, <1>10
  <2>6. Taken(v)
    BY <2>1, <2>5, <1>2 DEF Missed
  <2>7. rows[i].stream = Stream(v)
    BY <2>6 DEF Taken, Stream
  <2>8. CASE t = trade + 1
    <3>1. Len(Queue(v)) + 1 \in Positions(v)' /\ Len(Queue(v)) + 1 = Len(Queue(v)')
          /\ Queue(v)'[Len(Queue(v)) + 1].trade = t
      BY <2>6, <2>8, <1>3, <1>4 DEF Taken
    <3> QED
      BY <3>1, <1>3
  <2>9. CASE t # trade + 1
    <3>1. t \in rows[i].trade + 1 .. trade
      BY <2>2, <2>9, <1>1
    <3>2. t \in StoredTrades \/ QueuedBefore(v, Len(Queue(v)), t)
      BY <2>1, <2>7, <3>1 DEF Flow, RowsToDate
    <3>3. ASSUME QueuedBefore(v, Len(Queue(v)), t)
          PROVE  \E l \in Positions(v)' : l <= Len(Queue(v)') /\ Queue(v)'[l].trade = t
      <4>1. PICK l \in Positions(v) : Queue(v)[l].trade = t
        BY <3>3 DEF QueuedBefore
      <4>2. l \in Positions(v)' /\ l <= Len(Queue(v)') /\ Queue(v)'[l] = Queue(v)[l]
        BY <2>6, <4>1, <1>3, <1>4 DEF Taken
      <4> QED
        BY <4>1, <4>2
    <3> QED
      BY <3>2, <3>3
  <2> QED
    BY <2>8, <2>9
<1>17. QueueToDate'
  <2> SUFFICES ASSUME NEW v \in Workers, worker'[v].connected, NEW k \in Positions(v)',
                      Queue(v)'[k].stream = Stream(v)',
                      NEW t \in Queue(v)'[k].trade + 1 .. trade + 1
               PROVE  \E l \in k + 1 .. Len(Queue(v)') : Queue(v)'[l].trade = t
    BY <1>1 DEF QueueToDate
  <2>1. worker[v].connected /\ Running(v)
    BY <1>11
  <2>2. ASSUME Dropped(v) PROVE FALSE
    <3>1. k \in Positions(v) /\ Queue(v)' = Queue(v)
      BY <2>2, <1>4
    <3>2. Past(v, Queue(v)[k].stream)
      BY <2>1, <3>1 DEF Flow, SessionsBegun
    <3>3. PICK stream \in Streams : stream = Queue(v)[k].stream
      BY <3>1, <1>3
    <3> QED
      BY <2>2, <3>1, <3>2, <3>3, <1>10
  <2>3. Taken(v)
    BY <2>1, <2>2, <1>2 DEF Missed
  <2>4. CASE k \in Positions(v)
    <3>1. Queue(v)'[k] = Queue(v)[k] /\ Queue(v)[k].stream = Stream(v)
      BY <2>3, <2>4 DEF Taken, Stream
    <3>2. CASE t = trade + 1
      <4>1. Len(Queue(v)) + 1 \in k + 1 .. Len(Queue(v)')
            /\ Queue(v)'[Len(Queue(v)) + 1].trade = t
        BY <2>3, <2>4, <3>2, <1>3 DEF Taken
      <4> QED
        BY <4>1
    <3>3. CASE t # trade + 1
      <4>1. t \in Queue(v)[k].trade + 1 .. trade
        BY <2>4, <3>1, <3>3, <1>1, <1>3
      <4>2. PICK l \in k + 1 .. Len(Queue(v)) : Queue(v)[l].trade = t
        BY <2>1, <2>4, <3>1, <4>1 DEF Flow, QueueToDate
      <4>3. l \in Positions(v) /\ l \in k + 1 .. Len(Queue(v)')
        BY <2>3, <2>4, <4>2, <1>3 DEF Taken
      <4>4. Queue(v)'[l] = Queue(v)[l]
        BY <2>3, <4>3 DEF Taken
      <4> QED
        BY <4>2, <4>3, <4>4
    <3> QED
      BY <3>2, <3>3
  <2>5. CASE k \notin Positions(v)
    <3>1. Queue(v)'[k].trade = trade + 1
      BY <2>3, <2>5, <1>4 DEF Taken
    <3> QED
      BY <3>1, <1>1
  <2> QED
    BY <2>4, <2>5
<1>18. RowsWhole'
  BY <1>1, <1>5 DEF Flow, RowsWhole, Between
<1> QED
  BY <1>7, <1>8, <1>9, <1>12, <1>13, <1>15, <1>16, <1>17, <1>18 DEF Flow

(* The rows of an append that starts: one for each trade of the batch at the *)
(* head of the queue, void if the trade is stored already.                 *)
LEMMA AppendedRows ==
  ASSUME TypeOK, NEW w \in Workers, BeginAppend(w)
  PROVE  /\ append'[w] \in 1 .. Len(Queue(w))
         /\ LockFree /\ append' = [append EXCEPT ![w] = append'[w]]
         /\ DOMAIN rows' = 1 .. Len(rows) + append'[w]
         /\ \A i \in DOMAIN rows : rows'[i] = rows[i]
         /\ \A k \in 1 .. append'[w] :
              rows'[Len(rows) + k] =
                [trade |-> Queue(w)[k].trade, stream |-> Queue(w)[k].stream,
                 state |-> IF Queue(w)[k].trade \in StoredTrades THEN "void" ELSE "open"]
         /\ UNCHANGED <<trade, worker, lease, reader>>
<1> DEFINE q == Queue(w)
           size == IF Len(q) < BatchSize THEN Len(q) ELSE BatchSize
           batch == SubSeq(q, 1, size)
           n == Len(rows)
           Made(e) == [trade |-> e.trade, stream |-> e.stream,
                       state |-> IF e.trade \in StoredTrades THEN "void" ELSE "open"]
<1>1. q \in Seq(Event) /\ Len(q) \in Nat /\ n \in Nat /\ DOMAIN rows = 1 .. n
  BY EventsTyped, RowsTyped
<1>2. size \in 0 .. Len(q)
  BY <1>1, SizesArePositive
<1>3. /\ size > 0 /\ LockFree
      /\ rows' = rows \o NewRows(batch)
      /\ append' = [append EXCEPT ![w] = size]
      /\ UNCHANGED <<trade, worker, lease, reader>>
  BY DEF BeginAppend, Queue
<1>4. /\ batch \in Seq(Event) /\ Len(batch) = size
      /\ \A k \in 1 .. size : batch[k] = q[k]
  BY <1>2, BatchType DEF Queue
<1>5. NewRows(batch) \in Seq(Row) /\ Len(NewRows(batch)) = size
  BY <1>4, NewRowsType
<1>6. DOMAIN batch = 1 .. size
  BY <1>4, LenProperties
<1>7. \A k \in 1 .. size : NewRows(batch)[k] = Made(q[k])
  BY <1>4, <1>6 DEF NewRows
<1>8. append'[w] = size
  BY <1>3 DEF TypeOK
<1>9. rows \in Seq(Row)
  BY DEF TypeOK
<1> HIDE DEF batch, size, q, n, Made
<1>10. /\ rows' \in Seq(Row) /\ Len(rows') = Len(rows) + Len(NewRows(batch))
       /\ \A i \in 1 .. Len(rows) + Len(NewRows(batch)) : rows'[i] =
            IF i <= Len(rows) THEN rows[i] ELSE NewRows(batch)[i - Len(rows)]
  BY <1>3, <1>5, <1>9, ConcatProperties
<1>11. DOMAIN rows' = 1 .. n + size
  BY <1>5, <1>10, LenProperties DEF n
<1>12. \A i \in 1 .. n : rows'[i] = rows[i]
  BY <1>1, <1>2, <1>5, <1>10 DEF n
<1>13. \A k \in 1 .. size : rows'[n + k] = Made(q[k])
  <2> TAKE k \in 1 .. size
  <2>1. n + k \in 1 .. n + size /\ ~(n + k <= n) /\ (n + k) - n = k
    BY <1>1, <1>2
  <2>2. rows'[n + k] = NewRows(batch)[k]
    BY <2>1, <1>5, <1>10 DEF n
  <2> QED
    BY <2>2, <1>7
<1>14. size \in 1 .. Len(q)
  BY <1>1, <1>2, <1>3
<1> QED
  BY <1>1, <1>3, <1>8, <1>11, <1>12, <1>13, <1>14 DEF q, n, Made

(* The start of an append: its open rows continue the streams as the queue  *)
(* did.                                                                    *)
LEMMA BeginKeepsFlow ==
  ASSUME TypeOK, Locks, Flow, NEW w \in Workers, BeginAppend(w)
  PROVE  Flow'
<1> DEFINE n == Len(rows)
           q == Queue(w)
<1>1. PICK size \in 1 .. Len(q) : size = append'[w]
  BY AppendedRows
<1>2. n \in Nat /\ DOMAIN rows = 1 .. n /\ Len(q) \in Nat /\ size \in Nat /\ size > 0
      /\ size <= Len(q)
  BY <1>1, RowsTyped, EventsTyped
<1>3. /\ LockFree /\ append' = [append EXCEPT ![w] = size]
      /\ DOMAIN rows' = 1 .. n + size
      /\ \A i \in 1 .. n : rows'[i] = rows[i]
      /\ UNCHANGED <<trade, worker, lease, reader>>
  BY <1>1, <1>2, AppendedRows
<1>4. \A k \in 1 .. size :
        /\ rows'[n + k].trade = q[k].trade /\ rows'[n + k].stream = q[k].stream
        /\ rows'[n + k].state = IF q[k].trade \in StoredTrades THEN "void" ELSE "open"
  <2>1. \A k \in 1 .. append'[w] :
          rows'[n + k] =
            [trade |-> q[k].trade, stream |-> q[k].stream,
             state |-> IF q[k].trade \in StoredTrades THEN "void" ELSE "open"]
    BY AppendedRows
  <2> HIDE DEF n, q
  <2>2. \A k \in 1 .. size :
          rows'[n + k] =
            [trade |-> q[k].trade, stream |-> q[k].stream,
             state |-> IF q[k].trade \in StoredTrades THEN "void" ELSE "open"]
    BY <1>1, <2>1
  <2>3. ASSUME NEW k \in 1 .. size
        PROVE  /\ rows'[n + k].trade = q[k].trade /\ rows'[n + k].stream = q[k].stream
               /\ rows'[n + k].state = IF q[k].trade \in StoredTrades THEN "void" ELSE "open"
    <3>1. rows'[n + k] =
            [trade |-> q[k].trade, stream |-> q[k].stream,
             state |-> IF q[k].trade \in StoredTrades THEN "void" ELSE "open"]
      BY <2>2
    <3> QED
      BY <3>1
  <2> QED
    BY <2>3
<1>5. \A v \in Workers : append'[v] = IF v = w THEN size ELSE 0
  BY <1>3 DEF LockFree, TypeOK
<1>6. \A i \in DOMAIN rows' : i \in 1 .. n \/ \E k \in 1 .. size : i = n + k
  <2> SUFFICES ASSUME NEW i \in 1 .. n + size, i \notin 1 .. n
               PROVE  \E k \in 1 .. size : i = n + k
    BY <1>3
  <2>1. i - n \in 1 .. size /\ i = n + (i - n)
    BY <1>2
  <2> QED
    BY <2>1
<1>7. \A i \in 1 .. n, k \in 1 .. size : i < n + k /\ n + k \notin 1 .. n
  BY <1>2
<1>8. \A i \in 1 .. n : rows[i].state # "open"
  <2> SUFFICES ASSUME NEW i \in 1 .. n, rows[i].state = "open" PROVE FALSE
    OBVIOUS
  <2>1. append[rows[i].stream[1]] > 0
    BY <1>2 DEF Locks, OpenRowsLast
  <2>2. rows[i] \in Row
    BY <1>2, RowsTyped
  <2>3. rows[i].stream \in Streams
    BY <2>2 DEF Row
  <2>4. rows[i].stream[1] \in Workers
    BY <2>3 DEF Streams
  <2>5. append[rows[i].stream[1]] = 0
    BY <2>4, <1>3 DEF LockFree
  <2> QED
    BY <2>1, <2>5
<1> HIDE DEF n, q
<1>9. \A i \in DOMAIN rows' : rows'[i].state = "committed" => i \in 1 .. n
  BY <1>4, <1>6
<1>10. Committed' = Committed
  <2>1. \A i \in 1 .. n : i \in DOMAIN rows' /\ i \in DOMAIN rows
    BY <1>2, <1>3
  <2>2. \A i \in Committed' : i \in Committed
    BY <2>1, <1>3, <1>9 DEF Committed
  <2>3. \A i \in Committed : i \in Committed'
    BY <2>1, <1>2, <1>3 DEF Committed
  <2> QED
    BY <2>2, <2>3
<1>11. \A i \in Committed : rows'[i] = rows[i] /\ i \in 1 .. n
  BY <1>2, <1>3 DEF Committed
<1>12. StoredTrades' = StoredTrades
  BY <1>10, <1>11 DEF StoredTrades
<1>13. \A i \in Live' :
         \/ i \in Committed
         \/ \E k \in 1 .. size : i = n + k /\ q[k].trade \notin StoredTrades
  <2> SUFFICES ASSUME NEW i \in DOMAIN rows', rows'[i].state # "void"
               PROVE  \/ i \in Committed
                      \/ \E k \in 1 .. size : i = n + k /\ q[k].trade \notin StoredTrades
    BY DEF Live
  <2>1. CASE i \in 1 .. n
    <3>1. rows[i] \in Row /\ rows'[i] = rows[i] /\ i \in DOMAIN rows
      BY <2>1, <1>2, <1>3, RowsTyped
    <3>2. rows[i].state \in {"open", "committed", "void"}
      BY <3>1 DEF Row
    <3> QED
      BY <3>1, <3>2, <2>1, <1>8 DEF Committed
  <2>2. ASSUME NEW k \in 1 .. size, i = n + k PROVE q[k].trade \notin StoredTrades
    BY <2>2, <1>4
  <2> QED
    BY <2>1, <2>2, <1>6
<1>14. /\ \A i \in Committed : i \in Live'
       /\ \A k \in 1 .. size : q[k].trade \notin StoredTrades => n + k \in Live'
  <2>1. ASSUME NEW i \in Committed PROVE i \in Live'
    <3>1. i \in DOMAIN rows' /\ rows'[i].state = "committed"
      BY <1>10 DEF Committed
    <3> QED
      BY <3>1 DEF Live
  <2>2. ASSUME NEW k \in 1 .. size, q[k].trade \notin StoredTrades PROVE n + k \in Live'
    <3>1. rows'[n + k].state = "open"
      BY <2>2, <1>4
    <3>2. n + k \in DOMAIN rows'
      BY <2>2, <1>2, <1>3
    <3> QED
      BY <3>1, <3>2 DEF Live
  <2> QED
    BY <2>1, <2>2
<1>15. \A k \in 1 .. size : k \in Positions(w) /\ q[k].stream[1] = w
  <2>1. \A k \in 1 .. size : k \in 1 .. Len(q)
    BY <1>2
  <2> QED
    BY <2>1 DEF Positions, q, Queue, Locks, QueuesOwn
<1>16. \A v \in Workers : Queue(v)' = Queue(v) /\ Positions(v)' = Positions(v)
  BY <1>3 DEF Queue, Positions
<1>17. QueueInOrder' /\ QueueWhole' /\ Connected'
  BY <1>3, <1>16 DEF Flow, QueueInOrder, QueueWhole, Connected, Between, Running
<1>18. RowsThenQueue'
  BY <1>10, <1>11, <1>12, <1>16 DEF Flow, RowsThenQueue, Between, QueuedBefore
<1>19. RowsToDate'
  BY <1>3, <1>10, <1>11, <1>12, <1>16 DEF Flow, RowsToDate, QueuedBefore, Stream
<1>20. QueueToDate'
  BY <1>3, <1>16 DEF Flow, QueueToDate, Stream
<1>21. SessionsBegun'
  <2> SUFFICES ASSUME NEW v \in Workers, Running(v)
               PROVE  /\ \A k \in Positions(v) : Past(v, Queue(v)[k].stream)
                      /\ \A i \in Live' : rows'[i].stream[1] = v => Past(v, rows[i].stream)'
    BY <1>3, <1>16 DEF SessionsBegun, Running, Past, Stream
  <2>1. \A k \in Positions(v) : Past(v, Queue(v)[k].stream)
    BY DEF Flow, SessionsBegun
  <2>2. ASSUME NEW i \in Live', rows'[i].stream[1] = v PROVE Past(v, rows[i].stream)'
    <3>1. CASE i \in Committed
      <4>1. i \in Live /\ rows'[i].stream = rows[i].stream
        BY <3>1, <1>11 DEF Committed, Live
      <4>2. Past(v, rows[i].stream)
        BY <2>2, <4>1 DEF Flow, SessionsBegun
      <4> QED
        BY <4>1, <4>2, <1>3 DEF Past, Stream
    <3>2. ASSUME NEW k \in 1 .. size, i = n + k PROVE Past(v, rows[i].stream)'
      <4>1. rows'[i].stream = q[k].stream /\ k \in Positions(v) /\ v = w
        BY <2>2, <3>2, <1>4, <1>15
      <4>2. Past(v, q[k].stream)
        BY <2>1, <4>1 DEF q
      <4> QED
        BY <4>1, <4>2, <1>3 DEF Past, Stream
    <3> QED
      BY <3>1, <3>2, <1>13
  <2> QED
    BY <2>1, <2>2
<1>22. BatchInRows'
  <2>1. \A k \in 1 .. size : q[k].trade \notin StoredTrades => n + k \in OpenRows(w)'
    <3> SUFFICES ASSUME NEW k \in 1 .. size, q[k].trade \notin StoredTrades
                 PROVE  n + k \in OpenRows(w)'
      OBVIOUS
    <3>1. n + k \in DOMAIN rows' /\ rows'[n + k].state = "open" /\ rows'[n + k].stream[1] = w
      BY <1>2, <1>3, <1>4, <1>15
    <3> QED
      BY <3>1 DEF OpenRows
  <2>2. \A i \in OpenRows(w)' : \E k \in 1 .. size : i = n + k
    <3>1. \A i \in OpenRows(w)' : i \in DOMAIN rows' /\ rows'[i].state = "open"
      BY DEF OpenRows
    <3> QED
      BY <3>1, <1>3, <1>6, <1>8
  <2> SUFFICES ASSUME NEW v \in Workers, append'[v] > 0
               PROVE  /\ append'[v] <= Len(Queue(v))
                      /\ \A k \in 1 .. append'[v] :
                           \/ Queue(v)[k].trade \in StoredTrades
                           \/ \E i \in OpenRows(v)' : rows'[i].trade = Queue(v)[k].trade
                      /\ \A i \in OpenRows(v)' : \E k \in 1 .. append'[v] :
                           rows'[i].trade = Queue(v)[k].trade /\ rows'[i].stream = Queue(v)[k].stream
    BY <1>12, <1>16 DEF BatchInRows
  <2>3. v = w /\ append'[v] = size /\ Queue(v) = q
    BY <1>2, <1>5 DEF q
  <2>4. size <= Len(q)
    BY <1>2
  <2>5. \A k \in 1 .. size :
           \/ q[k].trade \in StoredTrades
           \/ \E i \in OpenRows(w)' : rows'[i].trade = q[k].trade
    BY <2>1, <1>4
  <2>6. \A i \in OpenRows(w)' : \E k \in 1 .. size :
           rows'[i].trade = q[k].trade /\ rows'[i].stream = q[k].stream
    BY <2>2, <1>4
  <2> HIDE DEF q
  <2> QED
    BY <2>3, <2>4, <2>5, <2>6
<1>23. RowsWhole'
  <2> SUFFICES ASSUME NEW i \in Live', NEW j \in Live', i < j, rows'[i].stream = rows'[j].stream,
                      NEW t \in Between(rows'[i].trade, rows'[j].trade)
               PROVE  \E k \in Live' : k < j /\ rows'[k].trade = t
    BY DEF RowsWhole, Between
  <2>1. ASSUME i \in Committed, j \in Committed
        PROVE  \E k \in Live' : k < j /\ rows'[k].trade = t
    <3>1. i \in Live /\ j \in Live /\ rows[i].stream = rows[j].stream
          /\ t \in Between(rows[i].trade, rows[j].trade)
      BY <2>1, <1>11 DEF Committed, Live
    <3>2. PICK k \in Live : k < j /\ rows[k].trade = t
      BY <3>1 DEF Flow, RowsWhole
    <3>3. k \in Committed
      <4>1. k \in DOMAIN rows /\ rows[k].state # "void" /\ rows[k].state # "open"
        BY <1>2, <1>8 DEF Live
      <4>2. rows[k].state \in {"open", "committed", "void"}
        BY <4>1, RowsTyped DEF Row
      <4> QED
        BY <4>1, <4>2 DEF Committed
    <3> QED
      BY <3>2, <3>3, <1>11, <1>14
  <2>2. ASSUME i \notin Committed, j \in Committed PROVE FALSE
    <3>1. PICK k \in 1 .. size : i = n + k
      BY <2>2, <1>13
    <3>2. j \in 1 .. n /\ j < i
      BY <2>2, <3>1, <1>7, <1>11
    <3> QED
      BY <3>2, <1>2, <3>1
  <2>3. ASSUME NEW l \in 1 .. size, j = n + l
        PROVE  \E k \in Live' : k < j /\ rows'[k].trade = t
    <3>1. rows'[j].trade = q[l].trade /\ rows'[j].stream = q[l].stream /\ l \in Positions(w)
      BY <2>3, <1>4, <1>15
    <3>2. ASSUME t \in StoredTrades PROVE \E k \in Live' : k < j /\ rows'[k].trade = t
      <4>1. PICK k \in Committed : rows[k].trade = t
        BY <3>2 DEF StoredTrades
      <4>2. k \in Live' /\ rows'[k].trade = t /\ k < j
        BY <2>3, <4>1, <1>7, <1>11, <1>14
      <4> QED
        BY <4>2
    <3>3. ASSUME NEW m \in Positions(w), m < l, q[m].trade = t
          PROVE  \E k \in Live' : k < j /\ rows'[k].trade = t
      <4>1. m \in 1 .. size
        BY <3>3, <1>2 DEF Positions
      <4>2. CASE t \in StoredTrades
        BY <3>2, <4>2
      <4>3. CASE t \notin StoredTrades
        <5>1. n + m \in Live' /\ rows'[n + m].trade = t /\ n + m < j
          BY <2>3, <3>3, <4>1, <4>3, <1>2, <1>4, <1>14
        <5> QED
          BY <5>1
      <4> QED
        BY <4>2, <4>3
    <3>4. CASE i \in Committed
      <4>1. rows[i].stream = q[l].stream /\ t \in Between(rows[i].trade, q[l].trade)
        BY <3>1, <3>4, <1>11
      <4>2. t \in StoredTrades \/ QueuedBefore(w, l, t)
        BY <3>1, <3>4, <4>1 DEF Flow, RowsThenQueue, q
      <4>3. ASSUME QueuedBefore(w, l, t) PROVE \E m \in Positions(w) : m < l /\ q[m].trade = t
        <5>1. PICK m \in Positions(w) : m <= l /\ q[m].trade = t
          BY <4>3 DEF QueuedBefore, q
        <5>2. q[l].trade \in Nat /\ t \in Int /\ t < q[l].trade
          <6>1. q[l] \in Event
            BY <3>1, EventsTyped DEF q
          <6>2. q[l].trade \in Nat
            BY <6>1, SizesArePositive DEF Event, Trades
          <6>3. rows[i].trade \in Nat
            BY <3>4, RowsTyped, SizesArePositive DEF Row, Trades, Committed
          <6> QED
            BY <4>1, <6>2, <6>3 DEF Between
        <5>3. m # l
          BY <5>1, <5>2
        <5>4. m \in Nat /\ l \in Nat
          BY <3>1, <5>1 DEF Positions
        <5> QED
          BY <5>1, <5>3, <5>4
      <4> QED
        BY <3>2, <3>3, <4>2, <4>3
    <3>5. ASSUME NEW h \in 1 .. size, i = n + h
          PROVE  \E k \in Live' : k < j /\ rows'[k].trade = t
      <4>1. /\ h \in Positions(w) /\ h < l
            /\ q[h].stream = q[l].stream /\ t \in Between(q[h].trade, q[l].trade)
        BY <2>3, <3>1, <3>5, <1>2, <1>4, <1>15
      <4>2. PICK m \in h + 1 .. l - 1 : q[m].trade = t
        BY <3>1, <4>1 DEF Flow, QueueWhole, q
      <4>3. m \in Positions(w) /\ m < l
        BY <2>3, <3>5, <4>2, <1>2 DEF Positions, q
      <4> QED
        BY <3>3, <4>2, <4>3
    <3> QED
      BY <3>4, <3>5, <1>13
  <2> QED
    BY <2>1, <2>2, <2>3, <1>13
<1> QED
  BY <1>17, <1>18, <1>19, <1>20, <1>21, <1>22, <1>23 DEF Flow

(* The end of an append, be it committed or rolled back, and be it heard or  *)
(* not: what leaves the queue is stored.                                   *)
LEMMA EndKeepsFlow ==
  ASSUME TypeOK, Locks, Flow, NEW w \in Workers, NEW state \in {"committed", "void"},
         NEW succeeded \in BOOLEAN, EndAppend(w, state, succeeded),
         succeeded => state = "committed" /\ Running(w)
  PROVE  Flow'
<1> DEFINE Off(v) == IF v = w /\ succeeded THEN append[w] ELSE 0
<1>1. /\ append[w] > 0
      /\ rows' = EndedRows(w, state)
      /\ worker' = [worker EXCEPT ![w].queue = AfterAppend(w, succeeded)]
      /\ append' = [append EXCEPT ![w] = 0]
      /\ UNCHANGED <<trade, lease, reader>>
  BY DEF EndAppend
<1>2. \A v \in Workers : append[v] \in Nat /\ (v # w => append[v] = 0)
  BY <1>1, SizesArePositive DEF TypeOK, Locks, OneAppend
<1>3. \A v \in Workers : append'[v] = 0
  BY <1>1, <1>2 DEF TypeOK
<1>4. /\ DOMAIN rows' = DOMAIN rows
      /\ \A i \in DOMAIN rows :
           /\ rows'[i].trade = rows[i].trade /\ rows'[i].stream = rows[i].stream
           /\ rows'[i].state = IF i \in OpenRows(w) THEN state ELSE rows[i].state
  BY <1>1, EndedRowsType
<1>5. \A i \in DOMAIN rows : rows[i].state = "open" <=> i \in OpenRows(w)
  <2>1. \A i \in DOMAIN rows : rows[i].stream \in Streams
    BY RowsTyped DEF Row
  <2>2. \A i \in DOMAIN rows : rows[i].stream[1] \in Workers
    BY <2>1 DEF Streams
  <2> QED
    BY <1>2, <2>2 DEF Locks, OpenRowsLast, OpenRows
<1>6. \A i \in DOMAIN rows : rows[i].state \in {"open", "committed", "void"}
                             /\ rows[i].trade \in Nat /\ i \in Nat
  <2>1. \A r \in Row : r.state \in {"open", "committed", "void"} /\ r.trade \in Nat
    BY SizesArePositive DEF Row, Trades
  <2> QED
    BY <2>1, RowsTyped
<1>7. /\ \A i \in Committed : i \in Committed'
      /\ \A i \in Committed' : i \in Committed \/ (i \in OpenRows(w) /\ state = "committed")
      /\ \A i \in Live' : i \in Live
      /\ state = "committed" => \A i \in OpenRows(w) : i \in Committed'
  BY <1>4, <1>5, <1>6 DEF Committed, Live, OpenRows
<1>8. \A i \in Committed' : rows'[i].trade = rows[i].trade /\ rows'[i].stream = rows[i].stream
                            /\ i \in DOMAIN rows
  BY <1>4 DEF Committed
<1>9. \A t \in StoredTrades : t \in StoredTrades'
  BY <1>7, <1>8 DEF StoredTrades
<1>10. state = "committed" => \A i \in OpenRows(w) : rows[i].trade \in StoredTrades'
  <2> SUFFICES ASSUME state = "committed", NEW i \in OpenRows(w)
               PROVE  rows[i].trade \in StoredTrades'
    OBVIOUS
  <2>1. i \in Committed' /\ rows'[i].trade = rows[i].trade
    BY <1>7, <1>8
  <2> QED
    BY <2>1 DEF StoredTrades
<1>11. \A v \in Workers :
         /\ worker'[v].status = worker[v].status
         /\ worker'[v].session = worker[v].session
         /\ worker'[v].overflowing = worker[v].overflowing
         /\ worker'[v].connected = worker[v].connected
         /\ v # w => worker'[v] = worker[v]
  BY <1>1 DEF TypeOK, Worker
<1>12. \A v \in Workers : /\ Len(Queue(v)) \in Nat /\ Positions(v) = 1 .. Len(Queue(v))
                          /\ \A k \in Positions(v) : Queue(v)[k].trade \in Nat
  <2>1. \A e \in Event : e.trade \in Nat
    BY SizesArePositive DEF Event, Trades
  <2> QED
    BY <2>1, EventsTyped DEF Positions
<1>13. succeeded =>
         /\ append[w] <= Len(Queue(w))
         /\ \A k \in 1 .. append[w] : Queue(w)[k].trade \in StoredTrades'
  <2> SUFFICES ASSUME succeeded
               PROVE  /\ append[w] <= Len(Queue(w))
                      /\ \A k \in 1 .. append[w] : Queue(w)[k].trade \in StoredTrades'
    OBVIOUS
  <2>1. /\ append[w] <= Len(Queue(w))
        /\ \A k \in 1 .. append[w] :
             \/ Queue(w)[k].trade \in StoredTrades
             \/ \E i \in OpenRows(w) : rows[i].trade = Queue(w)[k].trade
    BY <1>1 DEF Flow, BatchInRows
  <2> QED
    BY <2>1, <1>9, <1>10
<1>14. Queue(w)' = IF succeeded THEN SubSeq(Queue(w), append[w] + 1, Len(Queue(w)))
                   ELSE Queue(w)
  BY <1>1 DEF TypeOK, Worker, Queue, AfterAppend
<1>15. ASSUME NEW v \in Workers
       PROVE  /\ Off(v) \in Nat /\ Off(v) <= Len(Queue(v))
              /\ Positions(v)' = 1 .. Len(Queue(v)) - Off(v)
              /\ Len(Queue(v)') = Len(Queue(v)) - Off(v)
              /\ \A k \in Positions(v)' : Queue(v)'[k] = Queue(v)[k + Off(v)]
              /\ \A k \in 1 .. Off(v) : Queue(v)[k].trade \in StoredTrades'
  <2>1. CASE v = w /\ succeeded
    <3> DEFINE q == Queue(w)
               m == append[w] + 1
               rest == SubSeq(q, m, Len(q))
    <3>1. q \in Seq(Event) /\ Len(q) \in Nat /\ m \in Nat /\ m >= 1 /\ m - 1 <= Len(q)
      BY <2>1, <1>2, <1>13, EventsTyped
    <3>2. \A i \in m .. Len(q) : q[i] \in Event
      <4>1. \A i \in 1 .. Len(q) : q[i] \in Event
        BY EventsTyped DEF Positions
      <4> HIDE DEF q, m
      <4> QED
        BY <3>1, <4>1
    <3>3. /\ Len(rest) = IF m <= Len(q) THEN Len(q) - m + 1 ELSE 0
          /\ \A i \in 1 .. Len(q) - m + 1 : rest[i] = q[m + i - 1]
      <4>1. m \in Int /\ Len(q) \in Int
        BY <3>1
      <4> HIDE DEF q, m
      <4> QED
        BY <3>1, <3>2, <4>1, SubSeqProperties
    <3>4. Len(rest) = Len(q) - append[w] /\ append[w] \in Nat /\ append[w] <= Len(q)
      <4>1. append[w] \in Nat /\ m = append[w] + 1
        BY <1>2
      <4> HIDE DEF q, m, rest
      <4> QED
        BY <3>1, <3>3, <4>1
    <3>5. \A k \in 1 .. Len(q) - append[w] : rest[k] = q[k + append[w]]
      <4> TAKE k \in 1 .. Len(q) - append[w]
      <4>1. append[w] \in Nat /\ m = append[w] + 1
        BY <1>2
      <4> HIDE DEF q, m, rest
      <4>2. k \in 1 .. Len(q) - m + 1 /\ m + k - 1 = k + append[w]
        BY <3>1, <4>1
      <4> QED
        BY <3>3, <4>2
    <3>6. Queue(v)' = rest /\ Off(v) = append[w]
      BY <2>1, <1>14
    <3>7. Positions(v)' = 1 .. Len(Queue(v)')
      BY DEF Positions
    <3> HIDE DEF rest
    <3> QED
      BY <2>1, <3>4, <3>5, <3>6, <3>7, <1>13
  <2>2. CASE ~(v = w /\ succeeded)
    <3>1. Queue(v)' = Queue(v) /\ Off(v) = 0
      BY <2>2, <1>11, <1>14 DEF Queue
    <3>2. Positions(v)' = Positions(v)
      BY <3>1 DEF Positions
    <3>3. \A k \in Positions(v) : k + 0 = k
      BY <1>12
    <3>4. Len(Queue(v)) - 0 = Len(Queue(v))
      BY <1>12
    <3> QED
      BY <3>1, <3>2, <3>3, <3>4, <1>12
  <2> QED
    BY <2>1, <2>2
<1> HIDE DEF Off
<1>16. \A v \in Workers : \A k \in Positions(v)' :
         /\ k \in Nat /\ k + Off(v) \in Positions(v)
         /\ Queue(v)'[k] = Queue(v)[k + Off(v)]
  BY <1>12, <1>15
<1>17. \A v \in Workers : \A l \in Positions(v) :
         \/ Queue(v)[l].trade \in StoredTrades'
         \/ /\ l - Off(v) \in Positions(v)'
            /\ Queue(v)'[l - Off(v)] = Queue(v)[l]
  <2> TAKE v \in Workers
  <2> TAKE l \in Positions(v)
  <2>1. CASE l <= Off(v)
    BY <2>1, <1>12, <1>15
  <2>2. CASE ~(l <= Off(v))
    <3>1. l - Off(v) \in Positions(v)' /\ (l - Off(v)) + Off(v) = l
      BY <2>2, <1>12, <1>15
    <3> QED
      BY <3>1, <1>15
  <2> QED
    BY <2>1, <2>2
<1>18. ASSUME NEW v \in Workers, NEW k \in Positions(v)', NEW t,
              QueuedBefore(v, k + Off(v), t)
       PROVE  t \in StoredTrades' \/ QueuedBefore(v, k, t)'
  <2>1. PICK l \in Positions(v) : l <= k + Off(v) /\ Queue(v)[l].trade = t
    BY <1>18 DEF QueuedBefore
  <2>2. CASE Queue(v)[l].trade \in StoredTrades'
    BY <2>1, <2>2
  <2>3. CASE /\ l - Off(v) \in Positions(v)'
             /\ Queue(v)'[l - Off(v)] = Queue(v)[l]
    <3>1. l - Off(v) <= k
      BY <2>1, <1>12, <1>15, <1>16
    <3> QED
      BY <2>1, <2>3, <3>1 DEF QueuedBefore
  <2> QED
    BY <2>2, <2>3, <1>17
<1>19. QueueInOrder'
  <2> SUFFICES ASSUME NEW v \in Workers, NEW k \in Positions(v)', NEW l \in Positions(v)'
               PROVE  /\ Queue(v)'[k].trade <= trade
                      /\ k < l => Queue(v)'[k].trade < Queue(v)'[l].trade
    BY <1>1 DEF QueueInOrder
  <2>1. k < l => k + Off(v) < l + Off(v)
    BY <1>15, <1>16
  <2> QED
    BY <2>1, <1>16 DEF Flow, QueueInOrder
<1>20. QueueWhole'
  <2> SUFFICES ASSUME NEW v \in Workers, NEW k \in Positions(v)', NEW l \in Positions(v)',
                      k < l, Queue(v)'[k].stream = Queue(v)'[l].stream,
                      NEW t \in Between(Queue(v)'[k].trade, Queue(v)'[l].trade)
               PROVE  \E m \in k + 1 .. l - 1 : Queue(v)'[m].trade = t
    BY DEF QueueWhole, Between
  <2>1. k + Off(v) < l + Off(v)
    BY <1>15, <1>16
  <2>2. PICK m \in (k + Off(v)) + 1 .. (l + Off(v)) - 1 : Queue(v)[m].trade = t
    BY <2>1, <1>16 DEF Flow, QueueWhole
  <2>3. m - Off(v) \in k + 1 .. l - 1 /\ m - Off(v) \in Positions(v)'
        /\ (m - Off(v)) + Off(v) = m
    <3>1. /\ Off(v) \in Nat /\ Len(Queue(v)) \in Nat
          /\ Positions(v)' = 1 .. Len(Queue(v)) - Off(v)
      BY <1>12, <1>15
    <3>2. k \in Nat /\ l \in Nat /\ l \in 1 .. Len(Queue(v)) - Off(v)
      BY <3>1, <1>16
    <3>3. m \in Int /\ (k + Off(v)) + 1 <= m /\ m <= (l + Off(v)) - 1
      BY <2>2, <3>1, <3>2
    <3> QED
      BY <3>1, <3>2, <3>3
  <2>4. Queue(v)'[m - Off(v)] = Queue(v)[m]
    BY <2>3, <1>15
  <2> QED
    BY <2>2, <2>3, <2>4
<1>21. Connected'
  <2> SUFFICES ASSUME NEW v \in Workers
               PROVE  /\ worker[v].connected => worker[v].status = "up"
                      /\ ~Running(v) => Queue(v)' = <<>>
    BY <1>11 DEF Connected, Running
  <2>1. ~Running(v) => Queue(v) = <<>> /\ ~(v = w /\ succeeded)
    BY DEF Flow, Connected
  <2>2. ~(v = w /\ succeeded) => Queue(v)' = Queue(v)
    BY <1>11, <1>14 DEF Queue
  <2> QED
    BY <2>1, <2>2 DEF Flow, Connected
<1>22. SessionsBegun'
  <2> SUFFICES ASSUME NEW v \in Workers, Running(v)
               PROVE  /\ \A k \in Positions(v)' : Past(v, Queue(v)[k].stream)'
                      /\ \A i \in Live' : rows'[i].stream[1] = v => Past(v, rows[i].stream)'
    BY <1>11 DEF SessionsBegun, Running
  <2>1. /\ \A k \in Positions(v) : Past(v, Queue(v)[k].stream)
        /\ \A i \in Live : rows[i].stream[1] = v => Past(v, rows[i].stream)
    BY DEF Flow, SessionsBegun
  <2>2. ASSUME NEW k \in Positions(v)' PROVE Past(v, Queue(v)[k].stream)'
    <3>1. Past(v, Queue(v)[k + Off(v)].stream) /\ Queue(v)'[k] = Queue(v)[k + Off(v)]
      BY <2>1, <1>16
    <3> QED
      BY <3>1, <1>11 DEF Past, Stream
  <2>3. ASSUME NEW i \in Live', rows'[i].stream[1] = v PROVE Past(v, rows[i].stream)'
    <3>1. i \in Live /\ rows'[i].stream = rows[i].stream
      BY <1>4, <1>7 DEF Live
    <3>2. Past(v, rows[i].stream)
      BY <2>1, <2>3, <3>1
    <3> QED
      BY <3>1, <3>2, <1>11 DEF Past, Stream
  <2> QED
    BY <2>2, <2>3
<1>23. BatchInRows'
  <2>1. ~(0 > 0)
    OBVIOUS
  <2> QED
    BY <2>1, <1>3 DEF BatchInRows
<1>24. ASSUME NEW v \in Workers, NEW i \in OpenRows(w), rows[i].stream[1] = v,
              Queue(v) # <<>>
       PROVE  v = w /\ \E m \in 1 .. append[w] : m \in Positions(w) /\
                rows[i].trade = Queue(w)[m].trade /\ rows[i].stream = Queue(w)[m].stream
  <2>1. v = w
    BY <1>24 DEF OpenRows
  <2>2. Running(w)
    BY <2>1, <1>24 DEF Flow, Connected
  <2>3. /\ append[w] <= Len(Queue(w))
        /\ \E m \in 1 .. append[w] :
             rows[i].trade = Queue(w)[m].trade /\ rows[i].stream = Queue(w)[m].stream
    BY <2>2, <1>1 DEF Flow, BatchInRows
  <2>4. \A m \in 1 .. append[w] : m \in Positions(w)
    BY <2>3, <1>2, <1>12
  <2> QED
    BY <2>1, <2>3, <2>4
<1>25. RowsThenQueue'
  <2> SUFFICES ASSUME NEW v \in Workers, NEW i \in Committed', NEW k \in Positions(v)',
                      rows'[i].stream = Queue(v)'[k].stream,
                      NEW t \in Between(rows'[i].trade, Queue(v)'[k].trade)
               PROVE  t \in StoredTrades' \/ QueuedBefore(v, k, t)'
    BY DEF RowsThenQueue, Between
  <2>1. PICK l \in Positions(v) : l = k + Off(v)
    BY <1>16
  <2>2. /\ rows[i].stream = Queue(v)[l].stream /\ t \in Between(rows[i].trade, Queue(v)[l].trade)
        /\ i \in DOMAIN rows
    BY <2>1, <1>8, <1>16
  <2>3. t \in StoredTrades \/ QueuedBefore(v, l, t)
    <3>1. CASE i \in Committed
      BY <3>1, <2>2 DEF Flow, RowsThenQueue
    <3>2. CASE i \in OpenRows(w)
      <4>1. rows[i].stream[1] = v
        BY <2>2 DEF Locks, QueuesOwn, Positions, Queue
      <4>2. Queue(v) # <<>>
        BY <1>12
      <4>3. v = w
        BY <3>2, <4>1, <4>2, <1>24
      <4>4. PICK m \in Positions(w) : /\ rows[i].trade = Queue(w)[m].trade
                                      /\ rows[i].stream = Queue(w)[m].stream
        BY <3>2, <4>1, <4>2, <1>24
      <4>5. t \in Int /\ Queue(w)[m].trade < t /\ t < Queue(w)[l].trade
        BY <2>2, <4>3, <4>4, <1>12 DEF Between
      <4>6. m < l
        <5>1. ~(l < m) /\ l # m
          BY <4>3, <4>5, <1>12 DEF Flow, QueueInOrder
        <5> QED
          BY <5>1, <4>3, <1>12
      <4>7. PICK h \in m + 1 .. l - 1 : Queue(w)[h].trade = t
        BY <2>2, <4>3, <4>4, <4>6 DEF Flow, QueueWhole
      <4>8. h \in Positions(w) /\ h <= l
        BY <4>3, <4>7, <1>12
      <4> QED
        BY <4>3, <4>7, <4>8 DEF QueuedBefore
    <3> QED
      BY <3>1, <3>2, <1>7
  <2> QED
    BY <2>1, <2>3, <1>9, <1>18
<1>26. RowsToDate'
  <2> SUFFICES ASSUME NEW v \in Workers, worker[v].connected, NEW i \in Committed',
                      rows'[i].stream = Stream(v), NEW t \in rows'[i].trade + 1 .. trade
               PROVE  t \in StoredTrades' \/ QueuedBefore(v, Len(Queue(v)), t)'
    BY <1>1, <1>11 DEF RowsToDate, Stream
  <2>1. rows[i].stream = Stream(v) /\ t \in rows[i].trade + 1 .. trade /\ i \in DOMAIN rows
    BY <1>8
  <2>2. t \in StoredTrades \/ QueuedBefore(v, Len(Queue(v)), t) \/
        (state = "committed" /\ i \in OpenRows(w))
    <3>1. CASE i \in Committed
      BY <3>1, <2>1 DEF Flow, RowsToDate
    <3> QED
      BY <3>1, <1>7
  <2>3. ASSUME QueuedBefore(v, Len(Queue(v)), t)
        PROVE  t \in StoredTrades' \/ QueuedBefore(v, Len(Queue(v)), t)'
    <3>1. PICK l \in Positions(v) : Queue(v)[l].trade = t
      BY <2>3 DEF QueuedBefore
    <3>2. CASE Queue(v)[l].trade \in StoredTrades'
      BY <3>1, <3>2
    <3>3. CASE l - Off(v) \in Positions(v)' /\ Queue(v)'[l - Off(v)] = Queue(v)[l]
      <4>1. l - Off(v) <= Len(Queue(v)')
        BY <3>3, <1>12, <1>15
      <4> QED
        BY <3>1, <3>3, <4>1 DEF QueuedBefore
    <3> QED
      BY <3>2, <3>3, <1>17
  <2>4. ASSUME state = "committed", i \in OpenRows(w)
        PROVE  t \in StoredTrades' \/ QueuedBefore(v, Len(Queue(v)), t)
    <3>1. rows[i].stream[1] = v /\ v = w
      BY <2>1, <2>4 DEF Stream, OpenRows
    <3>2. worker[w].status = "up"
      BY <3>1 DEF Flow, Connected
    <3>3. Running(w)
      BY <3>2 DEF Running
    <3>4. PICK m \in 1 .. append[w] :
            rows[i].trade = Queue(w)[m].trade /\ rows[i].stream = Queue(w)[m].stream
      BY <2>4, <3>3, <1>1 DEF Flow, BatchInRows
    <3>5. m \in Positions(w)
      <4>1. append[w] <= Len(Queue(w))
        BY <3>3, <1>1 DEF Flow, BatchInRows
      <4> QED
        BY <3>4, <4>1, <1>2, <1>12
    <3>6. PICK l \in m + 1 .. Len(Queue(w)) : Queue(w)[l].trade = t
      BY <2>1, <3>1, <3>4, <3>5 DEF Flow, QueueToDate
    <3>7. l \in Positions(w) /\ l <= Len(Queue(w))
      BY <3>5, <3>6, <1>12
    <3> QED
      BY <3>1, <3>6, <3>7 DEF QueuedBefore
  <2> QED
    BY <2>2, <2>3, <2>4, <1>9
<1>27. QueueToDate'
  <2> SUFFICES ASSUME NEW v \in Workers, worker[v].connected, NEW k \in Positions(v)',
                      Queue(v)'[k].stream = Stream(v), NEW t \in Queue(v)'[k].trade + 1 .. trade
               PROVE  \E l \in k + 1 .. Len(Queue(v)') : Queue(v)'[l].trade = t
    BY <1>1, <1>11 DEF QueueToDate, Stream
  <2>1. PICK h \in Positions(v) : h = k + Off(v)
    BY <1>16
  <2>2. PICK l \in h + 1 .. Len(Queue(v)) : Queue(v)[l].trade = t
    BY <2>1, <1>16 DEF Flow, QueueToDate
  <2>3. /\ l - Off(v) \in k + 1 .. Len(Queue(v)') /\ l - Off(v) \in Positions(v)'
        /\ (l - Off(v)) + Off(v) = l
    <3>1. /\ Off(v) \in Nat /\ Len(Queue(v)) \in Nat
          /\ Positions(v)' = 1 .. Len(Queue(v)) - Off(v)
          /\ Len(Queue(v)') = Len(Queue(v)) - Off(v)
      BY <1>12, <1>15
    <3>2. k \in Nat /\ h = k + Off(v)
      BY <2>1, <1>16
    <3>3. l \in Int /\ h + 1 <= l /\ l <= Len(Queue(v))
      BY <2>2, <3>1, <3>2
    <3> QED
      BY <3>1, <3>2, <3>3
  <2>4. Queue(v)'[l - Off(v)] = Queue(v)[l]
    BY <2>3, <1>15
  <2> QED
    BY <2>2, <2>3, <2>4
<1>28. RowsWhole'
  <2> SUFFICES ASSUME NEW i \in Live', NEW j \in Live', i < j, rows'[i].stream = rows'[j].stream,
                      NEW t \in Between(rows'[i].trade, rows'[j].trade)
               PROVE  \E k \in Live' : k < j /\ rows'[k].trade = t
    BY DEF RowsWhole, Between
  <2>1. /\ i \in Live /\ j \in Live /\ rows[i].stream = rows[j].stream
        /\ t \in Between(rows[i].trade, rows[j].trade)
    BY <1>4, <1>7 DEF Live
  <2>2. PICK k \in Live : k < j /\ rows[k].trade = t
    BY <2>1 DEF Flow, RowsWhole
  <2>3. k \in DOMAIN rows /\ rows'[k].trade = t
    BY <2>2, <1>4 DEF Live
  <2>4. k \in Live'
    <3>1. CASE state = "committed" \/ k \notin OpenRows(w)
      BY <3>1, <2>2, <1>4 DEF Live
    <3>2. CASE state = "void" /\ k \in OpenRows(w)
      <4>1. j \in Committed
        BY <3>2, <1>4, <1>5, <1>6 DEF Live, Committed
      <4>2. j < k
        BY <3>2, <2>3, <4>1, <1>5 DEF Locks, OpenRowsLast
      <4>3. j \in Nat /\ k \in Nat
        BY <2>3, <4>1, <1>6 DEF Committed
      <4> QED
        BY <2>2, <4>2, <4>3
    <3> QED
      BY <3>1, <3>2
  <2> QED
    BY <2>2, <2>3, <2>4
<1> QED
  BY <1>19, <1>20, <1>21, <1>22, <1>23, <1>25, <1>26, <1>27, <1>28 DEF Flow

(* A step that leaves trades, workers, rows and appends alone keeps the flow. *)
LEMMA FlowUntouched ==
  ASSUME Flow, UNCHANGED <<trade, worker, rows, append>>
  PROVE  Flow'
<1>1. /\ Committed' = Committed /\ StoredTrades' = StoredTrades /\ Live' = Live
      /\ \A v : OpenRows(v)' = OpenRows(v)
  BY DEF Committed, StoredTrades, Live, OpenRows
<1>2. \A v : Queue(v)' = Queue(v) /\ Positions(v)' = Positions(v) /\ Stream(v)' = Stream(v)
             /\ Running(v)' = Running(v)
  BY DEF Queue, Positions, Stream, Running
<1>3. QueueInOrder' /\ QueueWhole'
  BY <1>2 DEF Flow, QueueInOrder, QueueWhole, Between
<1>4. SessionsBegun'
  <2>1. SessionsBegun
    BY DEF Flow
  <2> QED
    BY <2>1, <1>1, <1>2 DEF SessionsBegun, Past
<1>5. Connected'
  <2>1. Connected
    BY DEF Flow
  <2> QED
    BY <2>1, <1>2 DEF Connected
<1>6. BatchInRows'
  <2>1. BatchInRows
    BY DEF Flow
  <2> QED
    BY <2>1, <1>1, <1>2 DEF BatchInRows
<1>7. RowsThenQueue'
  <2>1. RowsThenQueue
    BY DEF Flow
  <2> QED
    BY <2>1, <1>1, <1>2 DEF RowsThenQueue, QueuedBefore, Between
<1>8. RowsToDate'
  <2>1. RowsToDate
    BY DEF Flow
  <2> QED
    BY <2>1, <1>1, <1>2 DEF RowsToDate, QueuedBefore
<1>9. QueueToDate'
  <2>1. QueueToDate
    BY DEF Flow
  <2> QED
    BY <2>1, <1>2 DEF QueueToDate
<1>10. RowsWhole'
  <2>1. RowsWhole
    BY DEF Flow
  <2> QED
    BY <2>1, <1>1 DEF RowsWhole, Between
<1> QED
  BY <1>3, <1>4, <1>5, <1>6, <1>7, <1>8, <1>9, <1>10 DEF Flow

(* Init establishes the flow: nothing is queued and nothing stored.        *)
LEMMA FlowInit == Init => Flow
<1> SUFFICES ASSUME Init PROVE Flow
  OBVIOUS
<1>1. \A w \in Workers : worker[w] = Process("up") /\ append[w] = 0
  BY DEF Init
<1>2. rows = <<>>
  BY DEF Init
<1>3. Live = {} /\ Committed = {}
  BY <1>2 DEF Live, Committed
<1>4. \A w \in Workers : /\ Queue(w) = <<>> /\ Running(w)
                         /\ worker[w].connected = FALSE /\ ~(append[w] > 0)
  BY <1>1 DEF Process, Queue, Running
<1>5. \A w \in Workers : Positions(w) = {}
  BY <1>4 DEF Positions
<1> QED
  BY <1>3, <1>4, <1>5 DEF Flow, QueueInOrder, QueueWhole, SessionsBegun, Connected,
     BatchInRows, RowsThenQueue, RowsToDate, QueueToDate, RowsWhole

(* Every step keeps the flow.                                              *)
LEMMA FlowStep == TypeOK /\ Locks /\ Flow /\ TypeOK' /\ [Next]_vars => Flow'
<1> SUFFICES ASSUME TypeOK, Locks, Flow, TypeOK', [Next]_vars PROVE Flow'
  OBVIOUS
<1>0. \A w \in Workers : worker[w] \in Worker /\ worker'[w] \in Worker
  BY DEF TypeOK
<1>1. CASE ExecuteTrade
  BY <1>1, TradeKeepsFlow
<1>2. CASE ExpireLease
  BY <1>2, FlowUntouched DEF ExpireLease
<1>3. ASSUME NEW w \in Workers, Connect(w) PROVE Flow'
  <2> DEFINE row == worker'[w]
  <2>1. /\ UNCHANGED <<trade, rows, append>>
        /\ worker' = [worker EXCEPT ![w] = row]
        /\ row.queue = Queue(w)
        /\ row.status = "up" /\ worker[w].status = "up"
        /\ row.session = worker[w].session + 1
    <3>1. /\ UNCHANGED <<trade, rows, append>> /\ worker[w].status = "up"
          /\ row = [worker[w] EXCEPT !.connected = TRUE, !.session = @ + 1]
      BY <1>3 DEF Connect, TypeOK
    <3>2. worker' = [worker EXCEPT ![w] = row]
      BY <1>3 DEF Connect, TypeOK
    <3> QED
      BY <1>0, <3>1, <3>2 DEF Worker, Queue
  <2>2. row \in Worker
    BY <1>0
  <2>3. Running(w)
    BY <2>1 DEF Running
  <2> HIDE DEF row
  <2> QED
    BY <2>1, <2>2, <2>3, ProcessKeepsFlow
<1>4. ASSUME NEW w \in Workers,
             \/ Disconnect(w)
             \/ \E answered \in BOOLEAN : Claim(w, answered)
             \/ \E claiming \in BOOLEAN : Stop(w, claiming)
      PROVE  Flow'
  <2> DEFINE row == worker'[w]
  <2>1. /\ UNCHANGED <<trade, rows, append>>
        /\ worker' = [worker EXCEPT ![w] = row]
    BY <1>0, <1>4 DEF Disconnect, Claim, Stop, TypeOK
  <2>2. row \in Worker
    BY <1>0
  <2>3. /\ row.queue = Queue(w)
        /\ row.session = worker[w].session /\ row.overflowing = worker[w].overflowing
        /\ row.status \in {"up", "stopping"} <=> Running(w)
        /\ row.connected => worker[w].connected \/ worker[w].status = "up"
        /\ row.connected => worker[w].connected
        /\ row.connected => row.status = worker[w].status
    <3>1. CASE Disconnect(w)
      <4>1. row = [worker[w] EXCEPT !.connected = FALSE]
        BY <3>1 DEF Disconnect, TypeOK
      <4> QED
        BY <4>1, <1>0 DEF Worker, Queue, Running
    <3>2. ASSUME NEW answered \in BOOLEAN, Claim(w, answered)
          PROVE  /\ row.queue = Queue(w)
                 /\ row.session = worker[w].session /\ row.overflowing = worker[w].overflowing
                 /\ row.status = worker[w].status
                 /\ row.connected => worker[w].connected
      <4>1. row = HearClaim(w, MayClaim(w) /\ answered)
        BY <3>2 DEF Claim, TypeOK
      <4> QED
        BY <4>1, <1>0 DEF Worker, Queue, HearClaim
    <3>3. ASSUME NEW claiming \in BOOLEAN, Stop(w, claiming)
          PROVE  /\ row.queue = Queue(w)
                 /\ row.session = worker[w].session /\ row.overflowing = worker[w].overflowing
                 /\ row.status = "stopping" /\ worker[w].status = "up"
                 /\ ~row.connected
      <4>1. row = [worker[w] EXCEPT !.status = "stopping", !.claiming = claiming,
                                    !.leader = FALSE, !.connected = FALSE]
        BY <3>3 DEF Stop, TypeOK
      <4>2. worker[w].status = "up"
        BY <3>3 DEF Stop
      <4> QED
        BY <4>1, <4>2, <1>0 DEF Worker, Queue
    <3> HIDE DEF row
    <3> QED
      BY <1>4, <3>1, <3>2, <3>3 DEF Running
  <2>4. row.connected => row.status = "up"
    BY <2>3 DEF Flow, Connected
  <2> HIDE DEF row
  <2> QED
    BY <2>1, <2>2, <2>3, <2>4, ProcessKeepsFlow
<1>5. ASSUME NEW w \in Workers, Release(w) \/ Crash(w) PROVE Flow'
  <2> DEFINE row == worker'[w]
  <2>1. /\ UNCHANGED <<trade, rows, append>>
        /\ worker' = [worker EXCEPT ![w] = row]
    BY <1>5 DEF Release, Crash, TypeOK
  <2>2. row \in Worker
    BY <1>0
  <2>3. row.queue = <<>> /\ row.status \in {"released", "crashed"} /\ ~row.connected
    <3>1. CASE Release(w)
      <4>1. row = [Process("released") EXCEPT !.claiming = worker[w].claiming]
        BY <3>1 DEF Release, TypeOK
      <4> QED
        BY <4>1 DEF Process
    <3>2. CASE Crash(w)
      <4>1. row = Process("crashed")
        BY <3>2 DEF Crash, TypeOK
      <4> QED
        BY <4>1 DEF Process
    <3> QED
      BY <1>5, <3>1, <3>2
  <2> HIDE DEF row
  <2> QED
    BY <2>1, <2>2, <2>3, ProcessKeepsFlow
<1>6. ASSUME NEW w \in Workers, BeginAppend(w) PROVE Flow'
  BY <1>6, BeginKeepsFlow
<1>7. ASSUME NEW w \in Workers, Rollback(w) \/ \E heard \in BOOLEAN : Commit(w, heard)
      PROVE  Flow'
  <2>1. CASE Rollback(w)
    <3>1. EndAppend(w, "void", FALSE)
      BY <2>1 DEF Rollback
    <3> QED
      BY <3>1, EndKeepsFlow
  <2>2. ASSUME NEW heard \in BOOLEAN, Commit(w, heard) PROVE Flow'
    <3>1. EndAppend(w, "committed", heard) /\ (heard => Running(w))
      BY <2>2 DEF Commit
    <3> QED
      BY <3>1, EndKeepsFlow
  <2> QED
    BY <1>7, <2>1, <2>2
<1>8. ASSUME NEW i \in DOMAIN rows, OpenReader(i) \/ ReadNext(i) PROVE Flow'
  BY <1>8, FlowUntouched DEF OpenReader, ReadNext
<1>9. CASE UNCHANGED vars
  BY <1>9, FlowUntouched DEF vars
<1> QED
  BY <1>1, <1>2, <1>3, <1>4, <1>5, <1>6, <1>7, <1>8, <1>9 DEF Next

(* The flow holds in every run.                                            *)
THEOREM FlowInvariant == Spec => []Flow
  BY Typing, LocksInvariant, FlowInit, FlowStep, PTL DEF Spec

(* Between two stored trades of one stream the journal lacks none: an open  *)
(* row comes after every committed one, so what fills the gap is stored.   *)
LEMMA FlowHidesNoGap == TypeOK /\ Locks /\ Flow => NoHiddenGap
<1> SUFFICES ASSUME TypeOK, Locks, Flow, NEW i \in Committed, NEW j \in Committed,
                    i < j, rows[i].stream = rows[j].stream,
                    NEW t \in rows[i].trade + 1 .. rows[j].trade - 1
             PROVE  \E k \in Committed : k < j /\ rows[k].trade = t
  BY DEF NoHiddenGap
<1>1. i \in Live /\ j \in Live /\ j \in Nat
  BY RowsTyped DEF Committed, Live
<1>2. PICK k \in Live : k < j /\ rows[k].trade = t
  BY <1>1 DEF Flow, RowsWhole, Between
<1>3. k \in DOMAIN rows /\ k \in Nat /\ rows[k].state \in {"open", "committed"}
  <2>1. k \in DOMAIN rows /\ rows[k].state # "void"
    BY DEF Live
  <2> QED
    BY <2>1, RowsTyped DEF Row
<1>4. rows[k].state # "open"
  <2> SUFFICES ASSUME rows[k].state = "open" PROVE FALSE
    OBVIOUS
  <2>1. j < k
    BY <1>3 DEF Locks, OpenRowsLast
  <2> QED
    BY <1>1, <1>2, <1>3, <2>1
<1> QED
  BY <1>2, <1>3, <1>4 DEF Committed

(* The journal hides no gap inside a stream.                               *)
THEOREM StreamsWhole == Spec => []NoHiddenGap
  BY Typing, LocksInvariant, FlowInvariant, FlowHidesNoGap, PTL

-----------------------------------------------------------------------------
(* What the position has been shown.                                       *)

(* A step that keeps the reader, and every stored row up to its cursor, and *)
(* adds rows behind the cursor only, keeps what the reader has read.       *)
LEMMA ReaderKept ==
  ASSUME ReaderInStream, reader' = reader, reader.cursor \in Nat,
         \A k \in Committed : k \in Committed' /\ rows'[k].trade = rows[k].trade
                              /\ rows'[k].stream = rows[k].stream,
         reader.open =>
           \A k \in Committed' : k \in Nat /\ (k \notin Committed => reader.cursor < k)
  PROVE  ReaderInStream'
<1> SUFFICES ASSUME reader.open
             PROVE  /\ reader.start <= reader.through
                    /\ \A k \in Committed' : k <= reader.cursor => rows'[k].trade <= reader.through
                    /\ \E k \in Committed' : k <= reader.cursor /\ rows'[k].stream = reader.stream
  BY DEF ReaderInStream
<1>1. \A k \in Committed' : k <= reader.cursor => k \in Committed
  <2> TAKE k \in Committed'
  <2>1. k \in Nat /\ (k \notin Committed => reader.cursor < k)
    OBVIOUS
  <2> QED
    BY <2>1
<1>2. \A k \in Committed' : k <= reader.cursor => rows'[k].trade <= reader.through
  BY <1>1 DEF ReaderInStream
<1>3. PICK k \in Committed : k <= reader.cursor /\ rows[k].stream = reader.stream
  BY DEF ReaderInStream
<1> QED
  BY <1>2, <1>3 DEF ReaderInStream

(* The first row a position reads is the latest trade so far.              *)
LEMMA OpeningRead ==
  ASSUME TypeOK, NEW i \in DOMAIN rows, OpenReader(i)
  PROVE  ReaderInStream' /\ NothingUnseen'
<1>1. /\ i \in Committed /\ rows' = rows
      /\ \A j \in Committed : j < i => rows[j].trade < rows[i].trade
      /\ reader'.open = TRUE /\ reader'.start = rows[i].trade /\ reader'.through = rows[i].trade
      /\ reader'.cursor = i /\ reader'.stream = rows[i].stream /\ reader'.seen = {rows[i].trade}
  BY DEF OpenReader
<1>2. Committed' = Committed
  BY <1>1 DEF Committed
<1>3. \A k \in Committed : rows[k].trade \in Nat /\ k \in Nat
  <2>1. \A r \in Row : r.trade \in Nat
    BY SizesArePositive DEF Row, Trades
  <2> QED
    BY <2>1, RowsTyped DEF Committed
<1>4. \A k \in Committed : k <= i => rows[k].trade <= rows[i].trade
  <2> SUFFICES ASSUME NEW k \in Committed, k <= i PROVE rows[k].trade <= rows[i].trade
    OBVIOUS
  <2>1. k = i \/ k < i
    BY <1>1, <1>3
  <2> QED
    BY <2>1, <1>1, <1>3
<1>5. ReaderInStream'
  <2>1. i <= i
    BY <1>1, <1>3
  <2> QED
    BY <2>1, <1>1, <1>2, <1>3, <1>4 DEF ReaderInStream
<1>6. NothingUnseen'
  <2>1. \A t \in rows[i].trade .. rows[i].trade : t = rows[i].trade
    BY <1>1, <1>3
  <2> QED
    BY <2>1, <1>1 DEF NothingUnseen
<1> QED
  BY <1>5, <1>6

(* A row of the stream the position is on leaves out no trade that it has   *)
(* not seen: what lies between is stored before it, hence read already.    *)
LEMMA NoTradeSkipped ==
  ASSUME TypeOK, NoHiddenGap, ReaderInStream, reader.open,
         NEW i \in Committed, i > reader.cursor,
         \A j \in Committed : j > reader.cursor => i <= j,
         rows[i].stream = reader.stream
  PROVE  rows[i].trade <= reader.through + 1
<1>1. \A k \in Committed : rows[k].trade \in Nat /\ k \in Nat
  <2>1. \A r \in Row : r.trade \in Nat
    BY SizesArePositive DEF Row, Trades
  <2> QED
    BY <2>1, RowsTyped DEF Committed
<1>2. reader.through \in Nat /\ reader.cursor \in Nat
  BY SizesArePositive DEF TypeOK, Reader
<1>3. PICK h \in Committed : h <= reader.cursor /\ rows[h].stream = reader.stream
  BY DEF ReaderInStream
<1>4. h < i /\ rows[h].trade <= reader.through
  BY <1>1, <1>2, <1>3 DEF ReaderInStream
<1> SUFFICES ASSUME rows[i].trade > reader.through + 1 PROVE FALSE
  BY <1>1, <1>2
<1>5. reader.through + 1 \in rows[h].trade + 1 .. rows[i].trade - 1
  BY <1>1, <1>2, <1>4
<1>6. PICK k \in Committed : k < i /\ rows[k].trade = reader.through + 1
  BY <1>3, <1>4, <1>5 DEF NoHiddenGap
<1>7. k <= reader.cursor
  BY <1>1, <1>2, <1>6
<1>8. rows[k].trade <= reader.through
  BY <1>7 DEF ReaderInStream
<1> QED
  BY <1>2, <1>6, <1>8

(* A position that reads on has seen all up to where it is managed.        *)
LEMMA ReadingOn ==
  ASSUME TypeOK, NoHiddenGap, ReaderInStream, NothingUnseen,
         NEW i \in DOMAIN rows, ReadNext(i)
  PROVE  ReaderInStream' /\ NothingUnseen'
<1>1. /\ reader.open /\ i \in Committed /\ i > reader.cursor
      /\ \A j \in Committed : j > reader.cursor => i <= j
      /\ reader' = AfterEvent(i) /\ rows' = rows
  BY DEF ReadNext
<1>2. Committed' = Committed
  BY <1>1 DEF Committed
<1>3. \A k \in Committed : rows[k].trade \in Nat /\ k \in Nat
  <2>1. \A r \in Row : r.trade \in Nat
    BY SizesArePositive DEF Row, Trades
  <2> QED
    BY <2>1, RowsTyped DEF Committed
<1>4. /\ reader \in Reader /\ reader.through \in Nat /\ reader.cursor \in Nat
      /\ reader.start \in Nat
  BY SizesArePositive DEF TypeOK, Reader
<1>5. \A k \in Committed : k <= i => k <= reader.cursor \/ k = i
  BY <1>1, <1>3, <1>4
<1>6. i <= i /\ reader.cursor <= i
  BY <1>1, <1>3, <1>4
<1>7. \A k \in Committed : k <= reader.cursor => rows[k].trade <= reader.through /\ k <= i
  BY <1>1, <1>3, <1>4 DEF ReaderInStream
<1>8. CASE rows[i].trade < reader.start
  <2>1. /\ reader'.open = reader.open /\ reader'.start = reader.start
        /\ reader'.through = reader.through /\ reader'.stream = reader.stream
        /\ reader'.seen = reader.seen /\ reader'.cursor = i
    BY <1>1, <1>4, <1>8 DEF AfterEvent, Reader
  <2>2. rows[i].trade <= reader.through
    <3>1. reader.start <= reader.through
      BY <1>1 DEF ReaderInStream
    <3> QED
      BY <1>1, <1>3, <1>4, <1>8, <3>1
  <2>3. ReaderInStream'
    <3>1. PICK h \in Committed : h <= reader.cursor /\ rows[h].stream = reader.stream
      BY <1>1 DEF ReaderInStream
    <3>2. h <= i
      BY <3>1, <1>7
    <3>3. \A k \in Committed : k <= i => rows[k].trade <= reader.through
      BY <1>5, <1>7, <2>2
    <3> QED
      BY <2>1, <3>1, <3>2, <3>3, <1>1, <1>2 DEF ReaderInStream
  <2>4. NothingUnseen'
    BY <2>1, <1>1 DEF NothingUnseen
  <2> QED
    BY <2>3, <2>4
<1>9. CASE ~(rows[i].trade < reader.start)
  <2>1. /\ reader'.open = reader.open /\ reader'.start = reader.start
        /\ reader'.through = Later(reader.through, rows[i].trade)
        /\ reader'.stream = rows[i].stream
        /\ reader'.seen = reader.seen \cup Shown(rows[i]) /\ reader'.cursor = i
    BY <1>1, <1>4, <1>9 DEF AfterEvent, Reader
  <2>2. /\ reader'.through \in Nat /\ reader.through <= reader'.through
        /\ rows[i].trade <= reader'.through
        /\ reader'.through \in {reader.through, rows[i].trade}
    BY <2>1, <1>1, <1>3, <1>4 DEF Later
  <2>3. ReaderInStream'
    <3>1. \A k \in Committed : k <= i => rows[k].trade <= reader'.through
      <4> SUFFICES ASSUME NEW k \in Committed, k <= i PROVE rows[k].trade <= reader'.through
        OBVIOUS
      <4>1. CASE k = i
        BY <4>1, <2>2
      <4>2. CASE k <= reader.cursor
        BY <4>2, <1>3, <1>4, <1>7, <2>2
      <4> QED
        BY <4>1, <4>2, <1>5
    <3>2. reader.start <= reader'.through
      BY <1>1, <1>4, <2>2 DEF ReaderInStream
    <3> QED
      BY <2>1, <3>1, <3>2, <1>1, <1>2, <1>6 DEF ReaderInStream
  <2>4. \A t \in reader.through + 1 .. rows[i].trade : t \in Shown(rows[i])
    <3>1. CASE rows[i].stream = reader.stream
      <4>1. rows[i].trade <= reader.through + 1
        BY <3>1, <1>1, NoTradeSkipped
      <4>2. \A t \in reader.through + 1 .. rows[i].trade : t = rows[i].trade
        BY <4>1, <1>1, <1>3, <1>4
      <4> QED
        BY <4>2 DEF Shown
    <3>2. CASE rows[i].stream # reader.stream
      BY <3>2 DEF Shown
    <3> QED
      BY <3>1, <3>2
  <2>5. NothingUnseen'
    <3> SUFFICES ASSUME NEW t \in reader.start .. reader'.through PROVE t \in reader'.seen
      BY <2>1 DEF NothingUnseen
    <3>1. CASE t <= reader.through
      <4>1. t \in reader.start .. reader.through
        BY <3>1, <1>4
      <4> QED
        BY <4>1, <2>1, <1>1 DEF NothingUnseen
    <3>2. CASE ~(t <= reader.through)
      <4>1. t \in reader.through + 1 .. rows[i].trade
        BY <3>2, <2>2, <1>1, <1>3, <1>4
      <4> QED
        BY <4>1, <2>1, <2>4
    <3> QED
      BY <3>1, <3>2
  <2> QED
    BY <2>3, <2>5
<1> QED
  BY <1>8, <1>9

(* The reader's invariant holds at first and is kept by every step.        *)
LEMMA ReaderStep ==
  ASSUME TypeOK, Locks, Locks', NoHiddenGap, ReaderInStream, NothingUnseen, [Next]_vars
  PROVE  ReaderInStream' /\ NothingUnseen'
<1>0. reader.cursor \in Nat
  BY DEF TypeOK, Reader
<1>1. ASSUME reader' = reader, rows' = rows PROVE ReaderInStream' /\ NothingUnseen'
  <2>1. Committed' = Committed
    BY <1>1 DEF Committed
  <2> QED
    BY <1>1, <2>1 DEF ReaderInStream, NothingUnseen
<1>2. ASSUME reader' = reader,
             \A k \in Committed : k \in Committed' /\ rows'[k].trade = rows[k].trade
                                  /\ rows'[k].stream = rows[k].stream,
             \A k \in Committed' : k \in Committed \/ (k \in DOMAIN rows /\ rows[k].state = "open")
      PROVE  ReaderInStream' /\ NothingUnseen'
  <2>1. ASSUME reader.open, NEW k \in Committed'
        PROVE  k \in Nat /\ (k \notin Committed => reader.cursor < k)
    <3>1. k \in DOMAIN rows
      BY <1>2 DEF Committed
    <3>2. PICK h \in Committed : h <= reader.cursor
      BY <2>1 DEF ReaderInStream
    <3>3. h \in Nat /\ h >= 1
      BY RowsTyped DEF Committed
    <3>4. reader.cursor \in Committed
      BY <1>0, <3>2, <3>3 DEF Locks, ReaderOnRow
    <3> QED
      BY <1>2, <3>1, <3>4, RowsTyped DEF Locks, OpenRowsLast
  <2>2. ReaderInStream'
    BY <1>0, <1>2, <2>1, ReaderKept
  <2> QED
    BY <2>2, <1>2 DEF NothingUnseen
<1>3. ASSUME NEW w \in Workers, BeginAppend(w) PROVE ReaderInStream' /\ NothingUnseen'
  <2>1. /\ reader' = reader /\ DOMAIN rows' = 1 .. Len(rows) + append'[w]
        /\ \A i \in DOMAIN rows : rows'[i] = rows[i]
        /\ append'[w] \in Nat
    BY <1>3, AppendedRows, EventsTyped
  <2>2. \A k \in 1 .. append'[w] : rows'[Len(rows) + k].state # "committed"
    <3> TAKE k \in 1 .. append'[w]
    <3>1. rows'[Len(rows) + k] =
            [trade |-> Queue(w)[k].trade, stream |-> Queue(w)[k].stream,
             state |-> IF Queue(w)[k].trade \in StoredTrades THEN "void" ELSE "open"]
      BY <1>3, AppendedRows
    <3> QED
      BY <3>1
  <2>3. \A k \in DOMAIN rows' : k \in DOMAIN rows \/ k - Len(rows) \in 1 .. append'[w]
    BY <2>1, RowsTyped
  <2>4. \A k \in DOMAIN rows : k \in DOMAIN rows'
    BY <2>1, RowsTyped
  <2>5. \A k \in Committed' : k \in Committed
    <3> SUFFICES ASSUME NEW k \in DOMAIN rows', rows'[k].state = "committed"
                 PROVE  k \in Committed
      BY DEF Committed
    <3>1. CASE k \in DOMAIN rows
      BY <3>1, <2>1 DEF Committed
    <3>2. CASE k - Len(rows) \in 1 .. append'[w]
      <4>1. k = Len(rows) + (k - Len(rows))
        BY <2>1, RowsTyped
      <4> QED
        BY <3>2, <4>1, <2>2
    <3> QED
      BY <3>1, <3>2, <2>3
  <2>6. \A k \in Committed : k \in Committed' /\ rows'[k] = rows[k]
    BY <2>1, <2>4 DEF Committed
  <2> QED
    BY <2>1, <2>5, <2>6, <1>2
<1>4. ASSUME NEW w \in Workers, NEW state \in {"committed", "void"},
             NEW succeeded \in BOOLEAN, EndAppend(w, state, succeeded)
      PROVE  ReaderInStream' /\ NothingUnseen'
  <2>1. reader' = reader /\ rows' = EndedRows(w, state)
    BY <1>4 DEF EndAppend
  <2>2. /\ DOMAIN rows' = DOMAIN rows
        /\ \A i \in DOMAIN rows :
             /\ rows'[i].trade = rows[i].trade /\ rows'[i].stream = rows[i].stream
             /\ rows'[i].state = IF i \in OpenRows(w) THEN state ELSE rows[i].state
    BY <2>1, EndedRowsType
  <2>3. \A i \in OpenRows(w) : i \in DOMAIN rows /\ rows[i].state = "open"
    BY DEF OpenRows
  <2>4. \A k \in Committed : k \in Committed' /\ rows'[k].trade = rows[k].trade
                             /\ rows'[k].stream = rows[k].stream
    BY <2>2, <2>3 DEF Committed
  <2>5. \A k \in Committed' : k \in Committed \/ (k \in DOMAIN rows /\ rows[k].state = "open")
    BY <2>2, <2>3 DEF Committed
  <2> QED
    BY <2>1, <2>4, <2>5, <1>2
<1>5. ASSUME NEW i \in DOMAIN rows, OpenReader(i) \/ ReadNext(i)
      PROVE  ReaderInStream' /\ NothingUnseen'
  BY <1>5, OpeningRead, ReadingOn
<1>6. CASE ExecuteTrade \/ ExpireLease \/ UNCHANGED vars
  <2>1. reader' = reader /\ rows' = rows
    BY <1>6 DEF ExecuteTrade, ExpireLease, vars
  <2> QED
    BY <2>1, <1>1
<1>7. ASSUME NEW w \in Workers,
             \/ Connect(w) \/ Disconnect(w) \/ Release(w) \/ Crash(w)
             \/ \E answered \in BOOLEAN : Claim(w, answered)
             \/ \E claiming \in BOOLEAN : Stop(w, claiming)
      PROVE  ReaderInStream' /\ NothingUnseen'
  <2>1. reader' = reader /\ rows' = rows
    BY <1>7 DEF Connect, Disconnect, Release, Crash, Claim, Stop
  <2> QED
    BY <2>1, <1>1
<1> QED
  BY <1>3, <1>4, <1>5, <1>6, <1>7 DEF Next, Commit, Rollback

(* The position sees every trade from its opening up to where it is managed: *)
(* in an event of its stream, or in the recovery that another stream's     *)
(* event begins with.                                                      *)
THEOREM EveryTradeSeen == Spec => []NothingUnseen
<1>1. Init => ReaderInStream /\ NothingUnseen
  BY DEF Init, ReaderInStream, NothingUnseen
<1>2. TypeOK /\ Locks /\ Locks' /\ NoHiddenGap /\ ReaderInStream /\ NothingUnseen
        /\ [Next]_vars => ReaderInStream' /\ NothingUnseen'
  BY ReaderStep
<1> QED
  BY <1>1, <1>2, Typing, LocksInvariant, StreamsWhole, PTL DEF Spec

-----------------------------------------------------------------------------
(* Greatest and least elements.                                            *)

(* A finite set of natural numbers that is not empty has a greatest one.   *)
LEMMA GreatestOf ==
  ASSUME NEW S \in SUBSET Nat, IsFiniteSet(S), S # {}
  PROVE  Max(S) \in S /\ \A y \in S : y <= Max(S)
<1> DEFINE Good == {u \in SUBSET S : u # {} => \E m \in u : \A y \in u : y <= m}
<1>1. {} \in Good
  OBVIOUS
<1>2. ASSUME NEW u \in SUBSET S, u # {}, \A x \in u : u \ {x} \in Good
      PROVE  u \in Good
  <2>1. PICK x \in u : u \ {x} \in Good
    BY <1>2
  <2>2. CASE u \ {x} = {}
    <3>1. x \in Nat /\ \A y \in u : y <= x
      BY <2>2
    <3> QED
      BY <3>1
  <2>3. CASE u \ {x} # {}
    <3>1. PICK m \in u \ {x} : \A y \in u \ {x} : y <= m
      BY <2>1, <2>3
    <3>2. x \in Nat /\ m \in Nat /\ \A y \in u : y \in Nat
      OBVIOUS
    <3>3. CASE x <= m
      BY <3>1, <3>3
    <3>4. CASE m <= x
      <4>1. \A y \in u : y <= x
        BY <3>1, <3>2, <3>4
      <4> QED
        BY <4>1
    <3> QED
      BY <3>2, <3>3, <3>4
  <2> QED
    BY <2>2, <2>3
<1>3. S \in Good
  <2>1. Good \in SUBSET (SUBSET S)
    OBVIOUS
  <2> HIDE DEF Good
  <2> QED BY <1>1, <1>2, <2>1, SetInduction
<1>4. \E m \in S : \A y \in S : m >= y
  BY <1>3
<1>5. Max(S) \in S /\ \A y \in S : Max(S) >= y
  BY <1>4, Zenon DEF Max
<1> QED
  BY <1>5

(* One that is not empty has a least one.                                  *)
LEMMA LeastOf ==
  ASSUME NEW S \in SUBSET Nat, S # {}
  PROVE  Min(S) \in S /\ \A y \in S : Min(S) <= y
<1>1. \E m \in S : \A y \in S : m <= y
  BY LeastElement
<1> QED
  BY <1>1, Zenon DEF Min

-----------------------------------------------------------------------------
(* The position after the prices it has seen: its best price, its stop and *)
(* its trailing stop depend on the highest of them alone.                  *)

EnteredAt == IF MarketEntry THEN EntryPrice + Slip ELSE EntryPrice
Target == EnteredAt + TakeDistance
Level == EnteredAt + 2 * Fee + Slip

\* A trailing stop without an activation distance is set by the first price
\* after the entry.
TrailsAtOnce == TrailDistance # 0 /\ TrailMove = 0

\* A market entry that slips past a stop of its own is over at once; and
\* recoverRuntimeGap leaves the account's profit protection out.
EntryHolds == MarketEntry => Slip < StopDistance /\ (TrailsAtOnce => Slip < TrailDistance)
GuardOff == GuardEvenMove = 0 /\ GuardDistance = 0

Peak(x) == IF x >= EnteredAt THEN x ELSE EnteredAt
Evens(m, move) == move # 0 /\ m - EnteredAt >= move /\ m - Level >= 1
StopAt(x) ==
  IF Evens(Peak(x), BreakEvenMove) \/ Evens(Peak(x), GuardEvenMove)
  THEN Level ELSE EnteredAt - StopDistance
TrailOf(m) ==
  IF TrailDistance # 0 /\ m - EnteredAt >= TrailMove THEN m - TrailDistance ELSE 0
GuardOf(m) ==
  IF GuardDistance # 0 /\ m - EnteredAt >= GuardTrailMove /\ m - GuardDistance >= Level
  THEN m - GuardDistance ELSE 0
TrailAt(x) ==
  IF TrailOf(Peak(x)) >= GuardOf(Peak(x)) THEN TrailOf(Peak(x)) ELSE GuardOf(Peak(x))

Position(x, t) ==
  [side |-> "long", entry |-> EnteredAt, quantity |-> 1,
   stop |-> StopAt(x), take |-> Target, trailing |-> t,
   best |-> Peak(x), entryFee |-> 1 * Fee, funding |-> 0, openedAt |-> 1]
Shape(x) == Position(x, TrailAt(x))

\* Before its first price a position has no trailing stop, even one that the
\* first price sets.
AtEntry == Position(EntryPrice, 0)
Moved(p) == \E x \in Nat : p = Shape(x)
Like(p, x) == p = Shape(x) \/ (p = AtEntry /\ x = EntryPrice)

(* What the assumptions say of the numbers.                                *)
LEMMA Numbers ==
  /\ StopDistance \in Nat \ {0} /\ TakeDistance \in Nat \ {0}
  /\ BreakEvenMove \in Nat /\ TrailDistance \in Nat /\ TrailMove \in Nat
  /\ GuardEvenMove \in Nat /\ GuardTrailMove \in Nat /\ GuardDistance \in Nat
  /\ HoldingTime \in Nat /\ Fee \in Nat /\ Slip \in Nat /\ LimitOffset \in Nat
  /\ MarketEntry \in BOOLEAN
  /\ EntryPrice \in Nat /\ MaxTrades \in Nat /\ MaxTime \in Nat
  /\ MinuteLength \in Nat /\ MinuteLength > 0 /\ TrailDistance <= EntryPrice
  /\ Prices \subseteq Nat
BY PricesAreTicks DEF PricingAssumption, EngineAssumption

(* What they say of the entry, its target and its break-even level.        *)
LEMMA EntryNumbers ==
  /\ EnteredAt \in Nat /\ EnteredAt >= EntryPrice /\ EnteredAt >= TrailDistance
  /\ Target \in Nat /\ Target > EnteredAt
  /\ Level \in Nat /\ Level >= EnteredAt
BY Numbers DEF EnteredAt, Target, Level

(* The break-even price of the position is the level.                      *)
LEMMA LevelIsLevel ==
  ASSUME NEW p, p.side = "long", p.entry = EnteredAt, p.entryFee = 1 * Fee,
         p.funding = 0, p.quantity = 1
  PROVE  BreakEvenPrice(p) = Level
<1>1. CeilDiv(1 * Fee + 0 + 1 * Fee, 1) = 2 * Fee
  BY Numbers DEF CeilDiv
<1>2. BreakEvenPrice(p) = p.entry + 1 * (CeilDiv(p.entryFee + p.funding + p.quantity * Fee, p.quantity) + Slip)
  BY DEF BreakEvenPrice, Direction
<1>3. BreakEvenPrice(p) = EnteredAt + 1 * (2 * Fee + Slip)
  BY <1>1, <1>2
<1> QED
  BY <1>3, Numbers, EntryNumbers DEF Level

(* Stops and trailing stops are prices and never fall as the peak rises.   *)
LEMMA StopsRise ==
  ASSUME NEW x \in Nat, NEW y \in Nat, x <= y
  PROVE  /\ Peak(x) \in Nat /\ Peak(y) \in Nat /\ EnteredAt <= Peak(x) /\ Peak(x) <= Peak(y)
         /\ StopAt(x) \in Int /\ StopAt(x) <= StopAt(y)
         /\ TrailAt(x) \in Nat /\ TrailAt(x) <= TrailAt(y)
<1>1. Peak(x) \in Nat /\ Peak(y) \in Nat /\ EnteredAt <= Peak(x) /\ Peak(x) <= Peak(y)
  BY EntryNumbers DEF Peak
<1>2. StopAt(x) \in Int /\ StopAt(x) <= StopAt(y)
  BY <1>1, EntryNumbers, Numbers DEF StopAt, Evens
<1>3. TrailAt(x) \in Nat /\ TrailAt(x) <= TrailAt(y)
  BY <1>1, EntryNumbers, Numbers DEF TrailAt, TrailOf, GuardOf
<1> QED
  BY <1>1, <1>2, <1>3

Higher(x, y) == IF x >= y THEN x ELSE y

(* The types of a peak and its stops.                                      *)
LEMMA StopsType ==
  ASSUME NEW x \in Nat
  PROVE  Peak(x) \in Nat /\ StopAt(x) \in Int /\ TrailAt(x) \in Nat /\ EnteredAt <= Peak(x)
BY StopsRise

(* The policy of the strategy, then that of the account, on a position of  *)
(* peak x that sees y.                                                     *)
LEMMA ProtectedPosition ==
  ASSUME NEW x \in Nat, NEW y \in Nat, NEW t \in {0, TrailAt(x)}
  PROVE  Protected(Position(x, t), y) = Shape(Higher(x, y))
<1> DEFINE p == Position(x, t)
           q == Protect(p, y, BreakEvenMove, TrailMove, TrailDistance, FALSE)
           r == Protect(q, y, GuardEvenMove, GuardTrailMove, GuardDistance, TRUE)
           M == Peak(Higher(x, y))
           e == EnteredAt
<1>1. Higher(x, y) \in Nat /\ x <= Higher(x, y) /\ y <= Higher(x, y)
  BY DEF Higher
<1>2. M \in Nat /\ Peak(x) \in Nat /\ Peak(x) <= M /\ e <= Peak(x)
  BY <1>1, StopsRise
<1>3. M = (IF Peak(x) - y >= 0 THEN Peak(x) ELSE y)
  BY EntryNumbers DEF Peak, Higher
<1> DEFINE s1 == IF Evens(M, BreakEvenMove) THEN Higher(StopAt(x), Level) ELSE StopAt(x)
           t1 == IF ~(TrailDistance # 0 /\ M - e >= TrailMove) THEN t
                 ELSE IF t = 0 THEN M - TrailDistance
                 ELSE Higher(t, M - TrailDistance)
           s2 == IF Evens(M, GuardEvenMove) THEN Higher(s1, Level) ELSE s1
           t2 == IF ~(GuardDistance # 0 /\ M - e >= GuardTrailMove /\ M - GuardDistance >= Level)
                 THEN t1
                 ELSE IF t1 = 0 THEN M - GuardDistance
                 ELSE Higher(t1, M - GuardDistance)
<1>4. StopAt(x) \in Int /\ TrailAt(x) \in Nat /\ t \in Nat /\ Level \in Nat
  BY StopsType, EntryNumbers
<1>5. p.side = "long" /\ p.entry = e /\ p.entryFee = 1 * Fee /\ p.funding = 0 /\ p.quantity = 1
      /\ p.stop = StopAt(x) /\ p.trailing = t /\ p.best = Peak(x)
  BY DEF Shape, Position
<1>6. BreakEvenPrice(p) = Level
  BY <1>5, LevelIsLevel
<1>7. q = [p EXCEPT !.best = M, !.stop = s1, !.trailing = t1]
  <2>1. Best(p.side, p.best, y) = M
    BY <1>2, <1>3, <1>5 DEF Best, Better, Direction
  <2>2. Better(p.side, M, p.entry) = M - e
    BY <1>2, <1>5, EntryNumbers DEF Better, Direction
  <2>3. Better(p.side, M, Level) = M - Level
    BY <1>2, <1>4, <1>5 DEF Better, Direction
  <2>4. M - Direction(p.side) * TrailDistance = M - TrailDistance
    BY <1>2, <1>5, Numbers DEF Direction
  <2>5. Best(p.side, p.stop, Level) = Higher(StopAt(x), Level)
    BY <1>4, <1>5 DEF Best, Better, Direction, Higher
  <2>6. Best(p.side, p.trailing, M - TrailDistance) = Higher(t, M - TrailDistance)
    BY <1>2, <1>4, <1>5, Numbers DEF Best, Better, Direction, Higher
  <2> HIDE DEF p, M
  <2> QED
    BY <1>5, <1>6, <2>1, <2>2, <2>3, <2>4, <2>5, <2>6 DEF Protect, Evens
<1>8. q.side = "long" /\ q.entry = e /\ q.entryFee = 1 * Fee /\ q.funding = 0 /\ q.quantity = 1
      /\ q.stop = s1 /\ q.trailing = t1 /\ q.best = M
  <2> HIDE DEF q, s1, t1, M
  <2> QED BY <1>7 DEF Shape, Position
<1>9. BreakEvenPrice(q) = Level
  <2> HIDE DEF q
  <2> QED BY <1>8, LevelIsLevel
<1>10. s1 \in Int /\ t1 \in Int
  BY <1>2, <1>4, Numbers DEF Higher
<1>11. r = [q EXCEPT !.best = M, !.stop = s2, !.trailing = t2]
  <2> HIDE DEF q, s1, t1
  <2>1. Best(q.side, q.best, y) = M
    BY <1>2, <1>3, <1>8 DEF Best, Better, Direction
  <2>2. Better(q.side, M, q.entry) = M - e
    BY <1>2, <1>8, EntryNumbers DEF Better, Direction
  <2>3. Better(q.side, M, Level) = M - Level
    BY <1>2, <1>4, <1>8 DEF Better, Direction
  <2>4. M - Direction(q.side) * GuardDistance = M - GuardDistance
    BY <1>2, <1>8, Numbers DEF Direction
  <2>5. Best(q.side, q.stop, Level) = Higher(s1, Level)
    BY <1>4, <1>8, <1>10 DEF Best, Better, Direction, Higher
  <2>6. Best(q.side, q.trailing, M - GuardDistance) = Higher(t1, M - GuardDistance)
    BY <1>2, <1>8, <1>10, Numbers DEF Best, Better, Direction, Higher
  <2>7. Better(q.side, M - GuardDistance, Level) = M - GuardDistance - Level
    BY <1>2, <1>4, <1>8, Numbers DEF Better, Direction
  <2>8. M - GuardDistance - Level >= 0 <=> M - GuardDistance >= Level
    BY <1>2, <1>4, Numbers
  <2> HIDE DEF M
  <2> QED
    BY <1>8, <1>9, <2>1, <2>2, <2>3, <2>4, <2>5, <2>6, <2>7, <2>8, ZenonT(60) DEF Protect, Evens
<1>12. s2 = StopAt(Higher(x, y))
  <2>1. s2 = IF Evens(M, BreakEvenMove) \/ Evens(M, GuardEvenMove) THEN Level
             ELSE EnteredAt - StopDistance
    <3> HIDE DEF M
    <3> QED BY <1>2, Numbers, EntryNumbers DEF StopAt, Evens, Higher
  <2> QED
    BY <2>1 DEF StopAt
<1>13. t2 = TrailAt(Higher(x, y))
  <2>1. t2 = IF TrailOf(M) >= GuardOf(M) THEN TrailOf(M) ELSE GuardOf(M)
    <3> HIDE DEF M
    <3> QED BY <1>2, Numbers, EntryNumbers DEF TrailAt, TrailOf, GuardOf, Higher
  <2> QED
    BY <2>1 DEF TrailAt
<1>14. r = [p EXCEPT !.best = M, !.stop = s2, !.trailing = t2]
  <2> HIDE DEF M, s1, t1, s2, t2, q
  <2>1. [q EXCEPT !.best = M, !.stop = s2, !.trailing = t2]
        = [p EXCEPT !.best = M, !.stop = s2, !.trailing = t2]
    BY <1>7 DEF Shape, Position
  <2> QED
    BY <1>11, <2>1
<1>15. Protected(Position(x, t), y) = r
  BY DEF Protected
<1> HIDE DEF r, s2, t2
<1> QED
  BY <1>12, <1>13, <1>14, <1>15 DEF Shape, Position

(* Of the shape of x.                                                      *)
LEMMA ProtectedShape ==
  ASSUME NEW x \in Nat, NEW y \in Nat
  PROVE  Protected(Shape(x), y) = Shape(Higher(x, y))
BY ProtectedPosition, StopsType DEF Shape

(* The first price sets what every later one does.                         *)
LEMMA ProtectedLike ==
  ASSUME NEW p, NEW x \in Nat, Like(p, x), NEW y \in Nat
  PROVE  Protected(p, y) = Shape(Higher(x, y))
BY ProtectedPosition, ProtectedShape, Numbers DEF Like, AtEntry

-----------------------------------------------------------------------------
(* At which prices a position leaves.                                      *)

\* The higher of the stops that are set.
LineOf(x, t) == IF t # 0 /\ t > StopAt(x) THEN t ELSE StopAt(x)
Line(x) == LineOf(x, TrailAt(x))
Same(x, y) == StopAt(x) = StopAt(y) /\ TrailAt(x) = TrailAt(y)
Late(now) == HoldingTime # 0 /\ now >= 1 + HoldingTime

(* The higher of two prices is one of them, in either order.               *)
LEMMA HigherIs ==
  ASSUME NEW x \in Nat, NEW y \in Nat
  PROVE  /\ Higher(x, y) \in Nat /\ x <= Higher(x, y) /\ y <= Higher(x, y)
         /\ Higher(x, y) = x \/ Higher(x, y) = y
         /\ Higher(x, y) = Higher(y, x)
BY DEF Higher

(* The line below which the position ends rises with what it has seen.     *)
LEMMA LineRises ==
  ASSUME NEW x \in Nat, NEW y \in Nat, x <= y
  PROVE  Line(x) \in Int /\ Line(y) \in Int /\ Line(x) <= Line(y)
BY StopsRise, StopsType DEF Line, LineOf

(* It is where the stops are.                                              *)
LEMMA SameLine ==
  ASSUME NEW x, NEW y, Same(x, y)
  PROVE  Line(x) = Line(y)
BY DEF Line, LineOf, Same

(* Between two prices that give the same stops every price gives them.     *)
LEMMA SameBetween ==
  ASSUME NEW x \in Nat, NEW y \in Nat, NEW z \in Nat, x <= y, y <= z, Same(x, z)
  PROVE  Same(x, y) /\ Same(y, z)
<1>1. StopAt(x) \in Int /\ StopAt(y) \in Int /\ StopAt(x) <= StopAt(y) /\ StopAt(y) <= StopAt(z)
  BY StopsRise, StopsType
<1>2. TrailAt(x) \in Nat /\ TrailAt(y) \in Nat /\ TrailAt(x) <= TrailAt(y) /\ TrailAt(y) <= TrailAt(z)
  BY StopsRise, StopsType
<1> QED
  BY <1>1, <1>2 DEF Same

(* Two prices with the same stops have the same stops after any third one. *)
LEMMA SameHigher ==
  ASSUME NEW x \in Nat, NEW y \in Nat, NEW z \in Nat, x <= y, Same(x, y)
  PROVE  Higher(x, z) <= Higher(y, z) /\ Same(Higher(x, z), Higher(y, z))
<1>1. CASE z >= y
  <2>1. Higher(x, z) = z /\ Higher(y, z) = z
    BY <1>1 DEF Higher
  <2> QED
    BY <2>1 DEF Same
<1>2. CASE z <= x
  <2>1. Higher(x, z) = x /\ Higher(y, z) = y
    BY <1>2 DEF Higher
  <2> QED
    BY <2>1
<1>3. CASE x <= z /\ z < y
  <2>1. Higher(x, z) = z /\ Higher(y, z) = y
    BY <1>3 DEF Higher
  <2>2. Same(z, y)
    BY <1>3, SameBetween
  <2> QED
    BY <1>3, <2>1, <2>2
<1> QED
  BY <1>1, <1>2, <1>3

(* A price ends the position when it is not between the line and the       *)
(* target.                                                                 *)
LEMMA PositionExit ==
  ASSUME NEW x \in Nat, NEW y \in Nat, NEW t \in Nat
  PROVE  PriceExit(Position(x, t), y) = NoExit <=> (LineOf(x, t) < y /\ y < Target)
<1> DEFINE p == Position(x, t)
<1>1. StopAt(x) \in Int /\ t \in Nat /\ Target \in Nat
  BY StopsType, EntryNumbers
<1>2. p.side = "long" /\ p.stop = StopAt(x) /\ p.trailing = t /\ p.take = Target
  BY DEF Position
<1>3. Protection(p).at = LineOf(x, t) /\ Protection(p).reason \in {"trailing-stop", "stop-loss"}
  <2>1. Better(p.side, p.trailing, p.stop) = t - StopAt(x)
    BY <1>1, <1>2 DEF Better, Direction
  <2>2. t - StopAt(x) > 0 <=> t > StopAt(x)
    BY <1>1
  <2> HIDE DEF p
  <2> QED BY <1>1, <1>2, <2>1, <2>2 DEF Protection, LineOf
<1>4. LineOf(x, t) \in Int
  BY <1>1 DEF LineOf
<1>5. Better(p.side, y, Protection(p).at) = y - LineOf(x, t) /\ Better(p.side, y, p.take) = y - Target
  <2> HIDE DEF p
  <2> QED BY <1>1, <1>2, <1>3, <1>4 DEF Better, Direction
<1>6. [at |-> y, reason |-> Protection(p).reason] # NoExit
  <2> SUFFICES ASSUME [at |-> y, reason |-> Protection(p).reason] = NoExit PROVE FALSE
    OBVIOUS
  <2>1. [at |-> y, reason |-> Protection(p).reason].reason = NoExit.reason
    OBVIOUS
  <2> QED BY <1>3, <2>1 DEF NoExit
<1>7. [at |-> p.take, reason |-> "take-profit"] # NoExit
  <2> SUFFICES ASSUME [at |-> p.take, reason |-> "take-profit"] = NoExit PROVE FALSE
    OBVIOUS
  <2>1. [at |-> p.take, reason |-> "take-profit"].reason = NoExit.reason
    OBVIOUS
  <2> QED BY <2>1 DEF NoExit
<1>8. y - LineOf(x, t) <= 0 <=> ~(LineOf(x, t) < y)
  BY <1>4
<1>9. y - Target >= 0 <=> ~(y < Target)
  BY <1>1
<1> HIDE DEF p
<1>10. PriceExit(p, y) = NoExit <=> (LineOf(x, t) < y /\ y < Target)
  BY <1>5, <1>6, <1>7, <1>8, <1>9 DEF PriceExit
<1> QED
  BY <1>10 DEF p

(* Of the shape of x.                                                      *)
LEMMA ShapeExit ==
  ASSUME NEW x \in Nat, NEW y \in Nat
  PROVE  PriceExit(Shape(x), y) = NoExit <=> (Line(x) < y /\ y < Target)
BY PositionExit, StopsType DEF Shape, Line

(* A price that was passed does not lie behind the stop it moved.          *)
LEMMA SeenStays ==
  ASSUME NEW x \in Nat, NEW y \in Nat, Line(x) < y
  PROVE  Line(Higher(x, y)) < y
<1>1. CASE y <= Peak(x)
  <2>1. Peak(Higher(x, y)) = Peak(x)
    BY <1>1, EntryNumbers DEF Peak, Higher
  <2>2. Line(Higher(x, y)) = Line(x)
    BY <2>1 DEF Line, LineOf, StopAt, TrailAt
  <2> QED
    BY <2>2
<1>2. CASE Peak(x) < y
  <2>1. Peak(Higher(x, y)) = y /\ Peak(x) \in Nat /\ EnteredAt <= Peak(x)
    BY <1>2, EntryNumbers DEF Peak, Higher
  <2>2. StopAt(Higher(x, y)) < y
    BY <1>2, <2>1, EntryNumbers, Numbers DEF StopAt, Evens
  <2>3. TrailAt(Higher(x, y)) < y
    BY <1>2, <2>1, EntryNumbers, Numbers DEF TrailAt, TrailOf, GuardOf
  <2> QED
    BY <2>2, <2>3 DEF Line, LineOf
<1> QED
  BY <1>1, <1>2, StopsType

(* The entry has the stop of the entry price, which lies between its line  *)
(* and its target.                                                         *)
LEMMA EntryShape ==
  /\ Entered = [p |-> AtEntry, exit |-> NoExit, through |-> 1, event |-> 2, stream |-> 1]
  /\ EntryHolds => (Line(EntryPrice) < EntryPrice /\ EntryPrice < Target)
  /\ StopAt(EntryPrice) = EnteredAt - StopDistance /\ Peak(EntryPrice) = EnteredAt
  /\ TrailAt(EntryPrice) = IF TrailsAtOnce THEN EnteredAt - TrailDistance ELSE 0
<1> DEFINE m == Peak(EntryPrice)
<1>1. m = EnteredAt
  BY EntryNumbers, Numbers DEF Peak
<1>2. StopAt(EntryPrice) = EnteredAt - StopDistance
  <2>1. ~Evens(m, BreakEvenMove) /\ ~Evens(m, GuardEvenMove)
    BY <1>1, EntryNumbers, Numbers DEF Evens
  <2> QED BY <2>1 DEF StopAt
<1>3. TrailAt(EntryPrice) = IF TrailsAtOnce THEN EnteredAt - TrailDistance ELSE 0
  <2> HIDE DEF m
  <2>1. TrailOf(m) = (IF TrailsAtOnce THEN EnteredAt - TrailDistance ELSE 0) /\ GuardOf(m) = 0
    BY <1>1, EntryNumbers, Numbers DEF TrailOf, GuardOf, TrailsAtOnce
  <2>2. TrailOf(m) \in Nat
    BY <2>1, EntryNumbers, Numbers
  <2> QED BY <2>1, <2>2 DEF TrailAt, m
<1>4. EntryPrice + LimitOffset - LimitOffset = EntryPrice
  BY Numbers
<1>5. OpenPosition([side |-> "long", price |-> EntryPrice + LimitOffset],
                   [open |-> EntryPrice], 1, 1) = AtEntry
  <2> DEFINE sig == [side |-> "long", price |-> EntryPrice + LimitOffset]
             can == [open |-> EntryPrice]
             en == IF MarketEntry THEN can.open + Direction(sig.side) * Slip ELSE LimitPrice(sig)
  <2>1. Direction(sig.side) = 1
    BY DEF Direction
  <2>2. LimitPrice(sig) = EntryPrice
    BY <1>4, <2>1, Numbers DEF LimitPrice
  <2>3. en = EnteredAt
    BY <2>1, <2>2, Numbers DEF EnteredAt
  <2>4. en - 1 * StopDistance = EnteredAt - StopDistance /\ en + 1 * TakeDistance = Target
    <3> HIDE DEF en
    <3> QED BY <2>3, EntryNumbers, Numbers DEF Target
  <2>5. OpenPosition(sig, can, 1, 1) =
          [side |-> sig.side, entry |-> en, quantity |-> 1,
           stop |-> en - Direction(sig.side) * StopDistance, take |-> en + Direction(sig.side) * TakeDistance,
           trailing |-> 0, best |-> en, entryFee |-> 1 * Fee, funding |-> 0, openedAt |-> 1]
    BY Zenon DEF OpenPosition
  <2>6. sig.side = "long"
    OBVIOUS
  <2>7. en - Direction(sig.side) * StopDistance = StopAt(EntryPrice)
        /\ en + Direction(sig.side) * TakeDistance = Target
    BY <1>2, <2>1, <2>4
  <2>8. en = EnteredAt /\ Peak(EntryPrice) = EnteredAt
    BY <1>1, <2>3
  <2>9. OpenPosition(sig, can, 1, 1) =
          [side |-> "long", entry |-> EnteredAt, quantity |-> 1,
           stop |-> StopAt(EntryPrice), take |-> Target,
           trailing |-> 0, best |-> EnteredAt, entryFee |-> 1 * Fee, funding |-> 0, openedAt |-> 1]
    <3> HIDE DEF sig, can, en
    <3> QED BY <2>3, <2>5, <2>6, <2>7
  <2> QED
    BY <2>8, <2>9, Zenon DEF AtEntry, Position
<1>6. EntryHolds => (Line(EntryPrice) < EntryPrice /\ EntryPrice < Target)
  <2>1. Line(EntryPrice) = EnteredAt - StopDistance
        \/ (TrailsAtOnce /\ Line(EntryPrice) = EnteredAt - TrailDistance)
    BY <1>2, <1>3 DEF Line, LineOf
  <2> QED
    BY <2>1, Numbers, EntryNumbers DEF EntryHolds, EnteredAt, TrailsAtOnce
<1> QED
  BY <1>1, <1>2, <1>3, <1>5, <1>6 DEF Entered

(* The trailing stop that the entry price sets is the lowest one.          *)
LEMMA TrailLeast ==
  ASSUME NEW x \in Nat
  PROVE  /\ TrailAt(EntryPrice) \in Nat /\ TrailAt(EntryPrice) <= TrailAt(x)
         /\ Line(EntryPrice) \in Int /\ StopAt(EntryPrice) \in Int /\ StopAt(EntryPrice) <= Line(EntryPrice)
<1>1. Peak(0) = EnteredAt /\ Peak(EntryPrice) = EnteredAt
  BY EntryNumbers, EntryShape DEF Peak
<1>2. TrailAt(EntryPrice) = TrailAt(0)
  BY <1>1 DEF TrailAt
<1>3. TrailAt(0) <= TrailAt(x) /\ TrailAt(0) \in Nat
  BY StopsRise
<1>4. StopAt(EntryPrice) \in Int
  BY Numbers, StopsType
<1> QED
  BY <1>2, <1>3, <1>4 DEF Line, LineOf

(* A position that has seen a price has the shape it is like.              *)
LEMMA LikeMoved ==
  ASSUME NEW p, NEW x \in Nat, Like(p, x), Moved(p)
  PROVE  p = Shape(x)
<1>1. CASE p = AtEntry /\ x = EntryPrice
  <2>1. PICK y \in Nat : AtEntry = Shape(y)
    BY <1>1 DEF Moved
  <2>2. TrailAt(y) = 0
    BY <2>1 DEF AtEntry, Shape, Position
  <2>3. TrailAt(EntryPrice) = 0
    BY <2>2, TrailLeast
  <2> QED BY <1>1, <2>3 DEF AtEntry, Shape
<1> QED BY <1>1 DEF Like

(* Where what is like x does not change, the stops of x are its own.       *)
LEMMA LikeUnchanged ==
  ASSUME NEW p, NEW x \in Nat, Like(p, x), NEW y \in Nat, ~Changed(p, Shape(y))
  PROVE  Same(x, y)
<1>1. CASE p = Shape(x)
  BY <1>1 DEF Changed, Shape, Position, Same
<1>2. CASE p = AtEntry /\ x = EntryPrice
  <2>1. StopAt(y) = StopAt(x) /\ TrailAt(y) = 0
    BY <1>2 DEF Changed, AtEntry, Shape, Position
  <2>2. TrailAt(EntryPrice) = 0
    BY <2>1, TrailLeast
  <2> QED BY <1>2, <2>1, <2>2 DEF Same
<1> QED BY <1>1, <1>2 DEF Like

(* When an event ends a position of this shape.                            *)
LEMMA PositionEnds ==
  ASSUME NEW x \in Nat, NEW t \in Nat, NEW i, tape[i].price \in Nat, NEW now \in Nat
  PROVE  EventExit(Position(x, t), i, now) = NoExit
           <=> (LineOf(x, t) < tape[i].price /\ tape[i].price < Target /\ ~Late(now))
<1> DEFINE p == Position(x, t)
           y == tape[i].price
<1>1. p.openedAt = 1
  BY DEF Position
<1>2. HoldingExit(p, y, now) = NoExit <=> ~Late(now)
  <2>1. [at |-> y, reason |-> "holding-timeout"] # NoExit
    <3> SUFFICES ASSUME [at |-> y, reason |-> "holding-timeout"] = NoExit PROVE FALSE
      OBVIOUS
    <3>1. [at |-> y, reason |-> "holding-timeout"].reason = NoExit.reason
      OBVIOUS
    <3> QED BY <3>1 DEF NoExit
  <2> HIDE DEF p, y
  <2> QED BY <1>1, <2>1 DEF HoldingExit, Late
<1>3. PriceExit(p, y) = NoExit <=> (LineOf(x, t) < y /\ y < Target)
  BY PositionExit
<1> HIDE DEF p, y
<1>4. EventExit(p, i, now) = First(PriceExit(p, y), HoldingExit(p, y, now))
  BY DEF EventExit, y
<1>5. EventExit(p, i, now) = NoExit <=> (PriceExit(p, y) = NoExit /\ HoldingExit(p, y, now) = NoExit)
  BY <1>4 DEF First
<1> QED
  BY <1>2, <1>3, <1>5 DEF p, y

(* Of the shape of x.                                                      *)
LEMMA EventEnds ==
  ASSUME NEW x \in Nat, NEW i, tape[i].price \in Nat, NEW now \in Nat
  PROVE  EventExit(Shape(x), i, now) = NoExit
           <=> (Line(x) < tape[i].price /\ tape[i].price < Target /\ ~Late(now))
BY PositionEnds, StopsType DEF Shape, Line

(* What passes the line of x does not end what is like x.                  *)
LEMMA LikeEnds ==
  ASSUME NEW p, NEW x \in Nat, Like(p, x), NEW i, tape[i].price \in Nat, NEW now \in Nat,
         Line(x) < tape[i].price, tape[i].price < Target, ~Late(now)
  PROVE  EventExit(p, i, now) = NoExit
<1>1. CASE p = Shape(x)
  BY <1>1, EventEnds
<1>2. CASE p = AtEntry /\ x = EntryPrice
  <2>1. LineOf(EntryPrice, 0) = StopAt(EntryPrice)
    BY DEF LineOf
  <2>2. LineOf(EntryPrice, 0) < tape[i].price
    BY <1>2, <2>1, TrailLeast
  <2> QED BY <1>2, <2>2, Numbers, PositionEnds DEF AtEntry
<1> QED BY <1>1, <1>2 DEF Like

-----------------------------------------------------------------------------
(* The tape and what a set of its trades shows.                            *)

Ticks == [at : Nat, price : Nat, stream : Nat]
Sorted == \A i, j \in DOMAIN tape : i <= j => tape[i].at <= tape[j].at
StreamsFollow == \A i, j \in Events : i <= j => tape[i].stream <= tape[j].stream
StreamsUnbroken ==
  \A i, j \in Events, k \in DOMAIN tape :
     (i <= k /\ k <= j /\ tape[i].stream = tape[j].stream) => tape[k].stream = tape[i].stream

TapeOK ==
  /\ tape \in Seq(Ticks) /\ Len(tape) >= 2
  /\ tape[1].at = 0 /\ tape[1].stream = 1
  /\ tape[2] = [at |-> 1, price |-> EntryPrice, stream |-> 1]
  /\ Sorted /\ StreamsFollow /\ StreamsUnbroken

Seen(K) == Max({EntryPrice} \cup {tape[i].price : i \in K})
Before(K, j) == {i \in K : i < j}
PricesPass(K) ==
  \A j \in K : Line(Seen(Before(K, j))) < tape[j].price /\ tape[j].price < Target
InTime(K) == \A j \in K : ~Late(tape[j].at)

\* On the tape the first price is judged without the trailing stop it sets.
LineAfter(K) == IF K = {} THEN StopAt(EntryPrice) ELSE Line(Seen(K))
Survives(K) ==
  /\ \A j \in K : LineAfter(Before(K, j)) < tape[j].price /\ tape[j].price < Target
  /\ InTime(K)

\* The trades after the entry, up to the n-th.
After(n) == 3..n

(* The types of the tape and of its events.                                *)
LEMMA TapeTypes ==
  ASSUME TapeOK
  PROVE  /\ Len(tape) \in Nat /\ Len(tape) >= 2 /\ DOMAIN tape = 1..Len(tape)
         /\ DOMAIN tape \in SUBSET Nat /\ IsFiniteSet(DOMAIN tape)
         /\ \A i \in DOMAIN tape : tape[i].at \in Nat /\ tape[i].price \in Nat /\ tape[i].stream \in Nat
         /\ Events \in SUBSET DOMAIN tape /\ IsFiniteSet(Events)
<1>1. tape \in Seq(Ticks)
  BY DEF TapeOK
<1>2. Len(tape) \in Nat /\ Len(tape) >= 2 /\ DOMAIN tape = 1..Len(tape)
  BY <1>1 DEF TapeOK
<1>3. \A i \in DOMAIN tape : tape[i] \in Ticks
  BY <1>1, <1>2
<1>4. \A i \in DOMAIN tape : tape[i].at \in Nat /\ tape[i].price \in Nat /\ tape[i].stream \in Nat
  BY <1>3 DEF Ticks
<1>5. IsFiniteSet(DOMAIN tape)
  BY <1>2, FS_Interval
<1>6. Events \in SUBSET DOMAIN tape
  BY DEF Events
<1>7. IsFiniteSet(Events)
  BY <1>5, <1>6, FS_Subset
<1>8. DOMAIN tape \in SUBSET Nat
  BY <1>2
<1> QED
  BY <1>2, <1>4, <1>5, <1>6, <1>7, <1>8

(* The prices of some trades, with that of the entry, have a highest.      *)
LEMMA SeenIs ==
  ASSUME TapeOK, NEW K \in SUBSET DOMAIN tape
  PROVE  /\ Seen(K) \in Nat /\ EntryPrice <= Seen(K)
         /\ \A i \in K : tape[i].price <= Seen(K)
         /\ Seen(K) = EntryPrice \/ \E i \in K : Seen(K) = tape[i].price
<1> DEFINE P == {tape[i].price : i \in K}
           A == {EntryPrice} \cup P
<1>1. IsFiniteSet(K)
  BY TapeTypes, FS_Subset
<1>2. IsFiniteSet(P)
  <2> DEFINE f == [i \in K |-> tape[i].price]
  <2>1. f \in Surjection(K, P)
    BY DEF Surjection
  <2> HIDE DEF f
  <2> QED BY <1>1, <2>1, FS_Surjection
<1>3. IsFiniteSet(A)
  <2>1. IsFiniteSet({EntryPrice})
    BY FS_Singleton
  <2> HIDE DEF P
  <2> QED BY <1>2, <2>1, FS_Union
<1>4. A \in SUBSET Nat /\ A # {}
  BY TapeTypes, Numbers
<1>5. Max(A) \in A /\ \A y \in A : y <= Max(A)
  <2> HIDE DEF A
  <2> QED BY <1>3, <1>4, GreatestOf
<1>6. Seen(K) = Max(A)
  BY DEF Seen
<1>7. EntryPrice \in A /\ \A i \in K : tape[i].price \in A
  OBVIOUS
<1>8. Seen(K) \in A /\ \A y \in A : y <= Seen(K)
  <2> HIDE DEF A
  <2> QED BY <1>5, <1>6
<1>9. Seen(K) = EntryPrice \/ \E i \in K : Seen(K) = tape[i].price
  <2> HIDE DEF Seen
  <2> QED BY <1>8
<1>10. Seen(K) \in Nat
  <2> HIDE DEF A
  <2> QED BY <1>4, <1>8
<1> HIDE DEF A
<1> QED
  BY <1>7, <1>8, <1>9, <1>10

(* What bounds every price seen bounds the highest of them.                *)
LEMMA SeenLeast ==
  ASSUME TapeOK, NEW K \in SUBSET DOMAIN tape, NEW v \in Nat,
         EntryPrice <= v, \A i \in K : tape[i].price <= v
  PROVE  Seen(K) <= v
BY SeenIs

(* The more trades are seen, the higher the highest price.                 *)
LEMMA SeenGrows ==
  ASSUME TapeOK, NEW K \in SUBSET DOMAIN tape, NEW L \in SUBSET K
  PROVE  Seen(L) <= Seen(K)
<1>1. L \in SUBSET DOMAIN tape
  OBVIOUS
<1>2. \A i \in L : tape[i].price <= Seen(K)
  BY SeenIs
<1>3. Seen(K) \in Nat /\ EntryPrice <= Seen(K)
  BY SeenIs
<1> QED
  BY <1>1, <1>2, <1>3, SeenLeast

(* One more trade.                                                         *)
LEMMA SeenAdds ==
  ASSUME TapeOK, NEW K \in SUBSET DOMAIN tape, NEW m \in DOMAIN tape
  PROVE  Seen(K \cup {m}) = Higher(Seen(K), tape[m].price)
<1> DEFINE L == K \cup {m}
<1>1. L \in SUBSET DOMAIN tape /\ K \in SUBSET L /\ m \in L
  OBVIOUS
<1>2. Seen(K) \in Nat /\ EntryPrice <= Seen(K) /\ \A i \in K : tape[i].price <= Seen(K)
  BY SeenIs
<1>3. Seen(L) \in Nat /\ tape[m].price <= Seen(L)
  BY <1>1, SeenIs
<1>4. Seen(K) <= Seen(L)
  BY <1>1, SeenGrows
<1>5. tape[m].price \in Nat /\ \A i \in K : tape[i].price \in Nat
  BY TapeTypes
<1>6. Seen(L) <= Higher(Seen(K), tape[m].price)
  <2>1. Higher(Seen(K), tape[m].price) \in Nat
    BY <1>2, <1>5, HigherIs
  <2>2. EntryPrice <= Higher(Seen(K), tape[m].price)
    BY <1>2, <1>5, Numbers DEF Higher
  <2>3. \A i \in L : tape[i].price <= Higher(Seen(K), tape[m].price)
    BY <1>2, <1>5 DEF Higher
  <2> HIDE DEF L
  <2> QED BY <1>1, <2>1, <2>2, <2>3, SeenLeast
<1> HIDE DEF L
<1>7. Seen(L) = Higher(Seen(K), tape[m].price)
  BY <1>2, <1>3, <1>4, <1>5, <1>6 DEF Higher
<1> QED
  BY <1>7 DEF L

(* A set of trades is passed if it is without its last one and that one    *)
(* passes after the others.                                                *)
LEMMA PassesAdds ==
  ASSUME TapeOK, NEW K \in SUBSET DOMAIN tape, NEW m \in DOMAIN tape, \A i \in K : i < m
  PROVE  /\ PricesPass(K \cup {m}) <=> /\ PricesPass(K) /\ Line(Seen(K)) < tape[m].price
                                        /\ tape[m].price < Target
         /\ InTime(K \cup {m}) <=> InTime(K) /\ ~Late(tape[m].at)
<1> DEFINE L == K \cup {m}
<1>1. m \in Nat /\ \A i \in K : i \in Nat
  BY TapeTypes
<1>2. Before(L, m) = K
  BY <1>1 DEF Before
<1>3. \A j \in K : Before(L, j) = Before(K, j)
  BY <1>1 DEF Before
<1>4. \A j \in L : j \in K \/ j = m
  OBVIOUS
<1>5. m \in L /\ \A j \in K : j \in L
  OBVIOUS
<1> HIDE DEF L
<1>6. PricesPass(L) <=> /\ PricesPass(K) /\ Line(Seen(K)) < tape[m].price /\ tape[m].price < Target
  BY <1>2, <1>3, <1>4, <1>5 DEF PricesPass
<1>7. InTime(L) <=> InTime(K) /\ ~Late(tape[m].at)
  BY <1>4, <1>5 DEF InTime
<1> QED
  BY <1>6, <1>7 DEF L

(* The same of what the tape lets live.                                    *)
LEMMA SurvivesAdds ==
  ASSUME TapeOK, NEW K \in SUBSET DOMAIN tape, NEW m \in DOMAIN tape, \A i \in K : i < m
  PROVE  Survives(K \cup {m}) <=> /\ Survives(K) /\ LineAfter(K) < tape[m].price
                                  /\ tape[m].price < Target /\ ~Late(tape[m].at)
<1> DEFINE L == K \cup {m}
<1>1. m \in Nat /\ \A i \in K : i \in Nat
  BY TapeTypes
<1>2. Before(L, m) = K
  BY <1>1 DEF Before
<1>3. \A j \in K : Before(L, j) = Before(K, j)
  BY <1>1 DEF Before
<1>4. \A j \in L : j \in K \/ j = m
  OBVIOUS
<1>5. m \in L /\ \A j \in K : j \in L
  OBVIOUS
<1>6. InTime(L) <=> InTime(K) /\ ~Late(tape[m].at)
  BY PassesAdds
<1> HIDE DEF L
<1>7. Survives(L) <=> /\ Survives(K) /\ LineAfter(K) < tape[m].price
                      /\ tape[m].price < Target /\ ~Late(tape[m].at)
  BY <1>2, <1>3, <1>4, <1>5, <1>6 DEF Survives
<1> QED
  BY <1>7 DEF L

(* What passes the higher line survives.                                   *)
LEMMA PassesSurvives ==
  ASSUME TapeOK, NEW K \in SUBSET DOMAIN tape, PricesPass(K), InTime(K)
  PROVE  Survives(K)
<1> SUFFICES ASSUME NEW j \in K
             PROVE  LineAfter(Before(K, j)) < tape[j].price /\ tape[j].price < Target
  BY DEF Survives
<1>1. Line(Seen(Before(K, j))) < tape[j].price /\ tape[j].price < Target
  BY DEF PricesPass
<1>2. CASE Before(K, j) # {}
  BY <1>1, <1>2 DEF LineAfter
<1>3. CASE Before(K, j) = {}
  <2>1. Seen({}) = EntryPrice
    BY SeenIs
  <2>2. Line(EntryPrice) < tape[j].price /\ tape[j].price \in Nat
    BY <1>1, <1>3, <2>1, TapeTypes
  <2>3. StopAt(EntryPrice) \in Int /\ Line(EntryPrice) \in Int /\ StopAt(EntryPrice) <= Line(EntryPrice)
    BY Numbers, TrailLeast
  <2> QED BY <1>1, <1>3, <2>2, <2>3 DEF LineAfter
<1> QED BY <1>2, <1>3

-----------------------------------------------------------------------------
(* Replays: what InOrder computes exists, and takes the numbers one by one *)
(* from the least on.                                                      *)

(* The replay of events. *)
Replay(g, r, S) ==
  g = [u \in SUBSET S |-> IF u = {} THEN r ELSE Reprice(g[u \ {Max(u)}], Max(u))]

(* A replay of trades exists as a function on their sets.                  *)
LEMMA ReplaysExist ==
  ASSUME NEW K, NEW r, K \in SUBSET Nat, IsFiniteSet(K)
  PROVE  \E g : Replay(g, r, K)
<1> DEFINE Good == {u \in SUBSET K : \E g : Replay(g, r, u)}
<1>1. {} \in Good
  <2> DEFINE g == [u \in SUBSET {} |-> r]
  <2>1. g = [u \in SUBSET {} |-> IF u = {} THEN r ELSE Reprice(g[u \ {Max(u)}], Max(u))]
    <3>1. \A u \in SUBSET {} : u = {}
      OBVIOUS
    <3> HIDE DEF g
    <3>2. \A u \in SUBSET {} : (IF u = {} THEN r ELSE Reprice(g[u \ {Max(u)}], Max(u))) = r
      BY <3>1
    <3> QED BY <3>2 DEF g
  <2> HIDE DEF g
  <2> QED BY <2>1 DEF Replay
<1>2. ASSUME NEW u \in SUBSET K, u # {}, \A x \in u : u \ {x} \in Good
      PROVE  u \in Good
  <2> DEFINE m == Max(u)
  <2>1. m \in u /\ \A y \in u : y <= m
    BY <1>2, FS_Subset, GreatestOf
  <2> HIDE DEF m
  <2>2. PICK h : Replay(h, r, u \ {m})
    BY <1>2, <2>1
  <2> DEFINE g == [v \in SUBSET u |-> IF v = {} THEN r ELSE IF m \notin v THEN h[v]
                                      ELSE Reprice(h[v \ {m}], m)]
  <2>3. ASSUME NEW v \in SUBSET (u \ {m})
        PROVE  h[v] = IF v = {} THEN r ELSE Reprice(h[v \ {Max(v)}], Max(v))
    BY <2>2 DEF Replay
  <2>4. ASSUME NEW v \in SUBSET (u \ {m})
        PROVE  g[v] = h[v]
    <3>1. v \in SUBSET u /\ m \notin v
      OBVIOUS
    <3> QED BY <3>1, <2>3
  <2>5. ASSUME NEW v \in SUBSET u
        PROVE  g[v] = IF v = {} THEN r ELSE Reprice(g[v \ {Max(v)}], Max(v))
    <3>1. CASE v = {}
      BY <3>1
    <3>2. CASE v # {} /\ m \notin v
      <4>1. v \in SUBSET (u \ {m}) /\ v \ {Max(v)} \in SUBSET (u \ {m})
        BY <3>2
      <4>2. g[v] = h[v] /\ g[v \ {Max(v)}] = h[v \ {Max(v)}]
        BY <4>1, <2>4
      <4>3. h[v] = Reprice(h[v \ {Max(v)}], Max(v))
        BY <4>1, <3>2, <2>3
      <4> HIDE DEF g
      <4> QED BY <4>2, <4>3, <3>2
    <3>3. CASE v # {} /\ m \in v
      <4>1. Max(v) = m
        <5>1. Max(v) \in v /\ \A y \in v : y <= Max(v)
          BY <3>3, FS_Subset, GreatestOf
        <5>2. Max(v) <= m /\ m <= Max(v) /\ Max(v) \in Nat /\ m \in Nat
          BY <5>1, <2>1, <3>3
        <5> QED BY <5>2
      <4>2. g[v] = Reprice(h[v \ {m}], m)
        BY <3>3
      <4>3. v \ {m} \in SUBSET (u \ {m})
        OBVIOUS
      <4>4. g[v \ {m}] = h[v \ {m}]
        BY <4>3, <2>4
      <4> HIDE DEF g
      <4> QED BY <4>1, <4>2, <4>4, <3>3
    <3> QED BY <3>1, <3>2, <3>3
  <2>6. g = [v \in SUBSET u |-> IF v = {} THEN r ELSE Reprice(g[v \ {Max(v)}], Max(v))]
    <3> DEFINE f == [v \in SUBSET u |-> IF v = {} THEN r ELSE Reprice(g[v \ {Max(v)}], Max(v))]
    <3>1. \A v \in SUBSET u : g[v] = f[v]
      <4> SUFFICES ASSUME NEW v \in SUBSET u PROVE g[v] = f[v]
        OBVIOUS
      <4>1. g[v] = IF v = {} THEN r ELSE Reprice(g[v \ {Max(v)}], Max(v))
        BY <2>5
      <4> HIDE DEF g
      <4> QED BY <4>1
    <3>2. DOMAIN g = SUBSET u /\ DOMAIN f = SUBSET u
      OBVIOUS
    <3>3. g = [v \in DOMAIN g |-> g[v]] /\ f = [v \in DOMAIN f |-> f[v]]
      OBVIOUS
    <3> HIDE DEF g, f
    <3>4. g = f
      BY <3>1, <3>2, <3>3, Zenon
    <3> QED BY <3>4 DEF f
  <2> HIDE DEF g
  <2>7. Replay(g, r, u)
    BY <2>6 DEF Replay
  <2> QED
    BY <2>7
<1>3. K \in Good
  <2>1. Good \in SUBSET (SUBSET K)
    OBVIOUS
  <2> HIDE DEF Good
  <2> QED BY <1>1, <1>2, <2>1, SetInduction
<1> QED
  BY <1>3

(* The replay of a set of trades, step by step.                            *)
ReplayOf(g, r, K) ==
  /\ g[K] = Repriced(r, K) /\ g[{}] = r
  /\ \A u \in SUBSET K : u # {} => g[u] = Reprice(g[u \ {Max(u)}], Max(u))
(* It is what the fold computes.                                           *)
LEMMA RepricedRuns ==
  ASSUME NEW K, NEW r, K \in SUBSET Nat, IsFiniteSet(K)
  PROVE  \E g : ReplayOf(g, r, K)
<1> DEFINE g == CHOOSE h : Replay(h, r, K)
<1>1. Replay(g, r, K)
  BY ReplaysExist
<1>2. Repriced(r, K) = g[K]
  BY DEF Repriced, InOrder, MapThenFoldSet, Replay
<1> HIDE DEF g
<1>3. \A u \in SUBSET K : g[u] = IF u = {} THEN r ELSE Reprice(g[u \ {Max(u)}], Max(u))
  BY <1>1 DEF Replay
<1>4. g[{}] = r
  BY <1>3
<1> QED
  BY <1>2, <1>3, <1>4 DEF ReplayOf

(* The groups of trades of one time. *)
Groups(g, r, S) ==
  g = [u \in SUBSET S |-> IF u = {} THEN r ELSE ThroughGroup(g[u \ {Max(u)}], Max(u))]

(* The same of the judgement of a gap by the times of its trades.          *)
LEMMA GroupsExist ==
  ASSUME NEW K, NEW r, K \in SUBSET Nat, IsFiniteSet(K)
  PROVE  \E g : Groups(g, r, K)
<1> DEFINE Good == {u \in SUBSET K : \E g : Groups(g, r, u)}
<1>1. {} \in Good
  <2> DEFINE g == [u \in SUBSET {} |-> r]
  <2>1. g = [u \in SUBSET {} |-> IF u = {} THEN r ELSE ThroughGroup(g[u \ {Max(u)}], Max(u))]
    <3>1. \A u \in SUBSET {} : u = {}
      OBVIOUS
    <3> HIDE DEF g
    <3>2. \A u \in SUBSET {} : (IF u = {} THEN r ELSE ThroughGroup(g[u \ {Max(u)}], Max(u))) = r
      BY <3>1
    <3> QED BY <3>2 DEF g
  <2> HIDE DEF g
  <2> QED BY <2>1 DEF Groups
<1>2. ASSUME NEW u \in SUBSET K, u # {}, \A x \in u : u \ {x} \in Good
      PROVE  u \in Good
  <2> DEFINE m == Max(u)
  <2>1. m \in u /\ \A y \in u : y <= m
    BY <1>2, FS_Subset, GreatestOf
  <2> HIDE DEF m
  <2>2. PICK h : Groups(h, r, u \ {m})
    BY <1>2, <2>1
  <2> DEFINE g == [v \in SUBSET u |-> IF v = {} THEN r ELSE IF m \notin v THEN h[v]
                                      ELSE ThroughGroup(h[v \ {m}], m)]
  <2>3. ASSUME NEW v \in SUBSET (u \ {m})
        PROVE  h[v] = IF v = {} THEN r ELSE ThroughGroup(h[v \ {Max(v)}], Max(v))
    BY <2>2 DEF Groups
  <2>4. ASSUME NEW v \in SUBSET (u \ {m})
        PROVE  g[v] = h[v]
    <3>1. v \in SUBSET u /\ m \notin v
      OBVIOUS
    <3> QED BY <3>1, <2>3
  <2>5. ASSUME NEW v \in SUBSET u
        PROVE  g[v] = IF v = {} THEN r ELSE ThroughGroup(g[v \ {Max(v)}], Max(v))
    <3>1. CASE v = {}
      BY <3>1
    <3>2. CASE v # {} /\ m \notin v
      <4>1. v \in SUBSET (u \ {m}) /\ v \ {Max(v)} \in SUBSET (u \ {m})
        BY <3>2
      <4>2. g[v] = h[v] /\ g[v \ {Max(v)}] = h[v \ {Max(v)}]
        BY <4>1, <2>4
      <4>3. h[v] = ThroughGroup(h[v \ {Max(v)}], Max(v))
        BY <4>1, <3>2, <2>3
      <4> HIDE DEF g
      <4> QED BY <4>2, <4>3, <3>2
    <3>3. CASE v # {} /\ m \in v
      <4>1. Max(v) = m
        <5>1. Max(v) \in v /\ \A y \in v : y <= Max(v)
          BY <3>3, FS_Subset, GreatestOf
        <5>2. Max(v) <= m /\ m <= Max(v) /\ Max(v) \in Nat /\ m \in Nat
          BY <5>1, <2>1, <3>3
        <5> QED BY <5>2
      <4>2. g[v] = ThroughGroup(h[v \ {m}], m)
        BY <3>3
      <4>3. v \ {m} \in SUBSET (u \ {m})
        OBVIOUS
      <4>4. g[v \ {m}] = h[v \ {m}]
        BY <4>3, <2>4
      <4> HIDE DEF g
      <4> QED BY <4>1, <4>2, <4>4, <3>3
    <3> QED BY <3>1, <3>2, <3>3
  <2>6. g = [v \in SUBSET u |-> IF v = {} THEN r ELSE ThroughGroup(g[v \ {Max(v)}], Max(v))]
    <3> DEFINE f == [v \in SUBSET u |-> IF v = {} THEN r ELSE ThroughGroup(g[v \ {Max(v)}], Max(v))]
    <3>1. \A v \in SUBSET u : g[v] = f[v]
      <4> SUFFICES ASSUME NEW v \in SUBSET u PROVE g[v] = f[v]
        OBVIOUS
      <4>1. g[v] = IF v = {} THEN r ELSE ThroughGroup(g[v \ {Max(v)}], Max(v))
        BY <2>5
      <4> HIDE DEF g
      <4> QED BY <4>1
    <3>2. DOMAIN g = SUBSET u /\ DOMAIN f = SUBSET u
      OBVIOUS
    <3>3. g = [v \in DOMAIN g |-> g[v]] /\ f = [v \in DOMAIN f |-> f[v]]
      OBVIOUS
    <3> HIDE DEF g, f
    <3>4. g = f
      BY <3>1, <3>2, <3>3, Zenon
    <3> QED BY <3>4 DEF f
  <2> HIDE DEF g
  <2>7. Groups(g, r, u)
    BY <2>6 DEF Groups
  <2> QED
    BY <2>7
<1>3. K \in Good
  <2>1. Good \in SUBSET (SUBSET K)
    OBVIOUS
  <2> HIDE DEF Good
  <2> QED BY <1>1, <1>2, <2>1, SetInduction
<1> QED
  BY <1>3

(* A gap judged by its trades, group by group.                             *)
GroupsOf(g, r, K) ==
  /\ g[K] = InOrder(ThroughGroup, r, K) /\ g[{}] = r
  /\ \A u \in SUBSET K : u # {} => g[u] = ThroughGroup(g[u \ {Max(u)}], Max(u))
(* It is what that fold computes.                                          *)
LEMMA GroupsRun ==
  ASSUME NEW K, NEW r, K \in SUBSET Nat, IsFiniteSet(K)
  PROVE  \E g : GroupsOf(g, r, K)
<1> DEFINE g == CHOOSE h : Groups(h, r, K)
<1>1. Groups(g, r, K)
  BY GroupsExist
<1>2. InOrder(ThroughGroup, r, K) = g[K]
  BY DEF InOrder, MapThenFoldSet, Groups
<1> HIDE DEF g
<1>3. \A u \in SUBSET K : g[u] = IF u = {} THEN r ELSE ThroughGroup(g[u \ {Max(u)}], Max(u))
  BY <1>1 DEF Groups
<1>4. g[{}] = r
  BY <1>3
<1> QED
  BY <1>2, <1>3, <1>4 DEF GroupsOf

Through(since, until, r, k) ==
  IF recoveryModel = "strict" THEN ThroughMinute(r, k, since, until)
  ELSE ThroughLegacyMinute(r, k, since, until)

(* The minutes of a gap. *)
Minutes(g, since, until, r, S) ==
  g = [u \in SUBSET S |-> IF u = {} THEN r ELSE Through(since, until, g[u \ {Max(u)}], Max(u))]

(* And of the judgement by minute candles.                                 *)
LEMMA MinutesExist ==
  ASSUME NEW K, NEW r, NEW since, NEW until, K \in SUBSET Nat, IsFiniteSet(K)
  PROVE  \E g : Minutes(g, since, until, r, K)
<1> DEFINE Good == {u \in SUBSET K : \E g : Minutes(g, since, until, r, u)}
<1>1. {} \in Good
  <2> DEFINE g == [u \in SUBSET {} |-> r]
  <2>1. g = [u \in SUBSET {} |-> IF u = {} THEN r ELSE Through(since, until, g[u \ {Max(u)}], Max(u))]
    <3>1. \A u \in SUBSET {} : u = {}
      OBVIOUS
    <3> HIDE DEF g
    <3>2. \A u \in SUBSET {} : (IF u = {} THEN r ELSE Through(since, until, g[u \ {Max(u)}], Max(u))) = r
      BY <3>1
    <3> QED BY <3>2 DEF g
  <2> HIDE DEF g
  <2> QED BY <2>1 DEF Minutes
<1>2. ASSUME NEW u \in SUBSET K, u # {}, \A x \in u : u \ {x} \in Good
      PROVE  u \in Good
  <2> DEFINE m == Max(u)
  <2>1. m \in u /\ \A y \in u : y <= m
    BY <1>2, FS_Subset, GreatestOf
  <2> HIDE DEF m
  <2>2. PICK h : Minutes(h, since, until, r, u \ {m})
    BY <1>2, <2>1
  <2> DEFINE g == [v \in SUBSET u |-> IF v = {} THEN r ELSE IF m \notin v THEN h[v]
                                      ELSE Through(since, until, h[v \ {m}], m)]
  <2>3. ASSUME NEW v \in SUBSET (u \ {m})
        PROVE  h[v] = IF v = {} THEN r ELSE Through(since, until, h[v \ {Max(v)}], Max(v))
    BY <2>2 DEF Minutes
  <2>4. ASSUME NEW v \in SUBSET (u \ {m})
        PROVE  g[v] = h[v]
    <3>1. v \in SUBSET u /\ m \notin v
      OBVIOUS
    <3> QED BY <3>1, <2>3
  <2>5. ASSUME NEW v \in SUBSET u
        PROVE  g[v] = IF v = {} THEN r ELSE Through(since, until, g[v \ {Max(v)}], Max(v))
    <3>1. CASE v = {}
      BY <3>1
    <3>2. CASE v # {} /\ m \notin v
      <4>1. v \in SUBSET (u \ {m}) /\ v \ {Max(v)} \in SUBSET (u \ {m})
        BY <3>2
      <4>2. g[v] = h[v] /\ g[v \ {Max(v)}] = h[v \ {Max(v)}]
        BY <4>1, <2>4
      <4>3. h[v] = Through(since, until, h[v \ {Max(v)}], Max(v))
        BY <4>1, <3>2, <2>3
      <4> HIDE DEF g
      <4> QED BY <4>2, <4>3, <3>2
    <3>3. CASE v # {} /\ m \in v
      <4>1. Max(v) = m
        <5>1. Max(v) \in v /\ \A y \in v : y <= Max(v)
          BY <3>3, FS_Subset, GreatestOf
        <5>2. Max(v) <= m /\ m <= Max(v) /\ Max(v) \in Nat /\ m \in Nat
          BY <5>1, <2>1, <3>3
        <5> QED BY <5>2
      <4>2. g[v] = Through(since, until, h[v \ {m}], m)
        BY <3>3
      <4>3. v \ {m} \in SUBSET (u \ {m})
        OBVIOUS
      <4>4. g[v \ {m}] = h[v \ {m}]
        BY <4>3, <2>4
      <4> HIDE DEF g
      <4> QED BY <4>1, <4>2, <4>4, <3>3
    <3> QED BY <3>1, <3>2, <3>3
  <2>6. g = [v \in SUBSET u |-> IF v = {} THEN r ELSE Through(since, until, g[v \ {Max(v)}], Max(v))]
    <3> DEFINE f == [v \in SUBSET u |-> IF v = {} THEN r ELSE Through(since, until, g[v \ {Max(v)}], Max(v))]
    <3>1. \A v \in SUBSET u : g[v] = f[v]
      <4> SUFFICES ASSUME NEW v \in SUBSET u PROVE g[v] = f[v]
        OBVIOUS
      <4>1. g[v] = IF v = {} THEN r ELSE Through(since, until, g[v \ {Max(v)}], Max(v))
        BY <2>5
      <4> HIDE DEF g
      <4> QED BY <4>1
    <3>2. DOMAIN g = SUBSET u /\ DOMAIN f = SUBSET u
      OBVIOUS
    <3>3. g = [v \in DOMAIN g |-> g[v]] /\ f = [v \in DOMAIN f |-> f[v]]
      OBVIOUS
    <3> HIDE DEF g, f
    <3>4. g = f
      BY <3>1, <3>2, <3>3, Zenon
    <3> QED BY <3>4 DEF f
  <2> HIDE DEF g
  <2>7. Minutes(g, since, until, r, u)
    BY <2>6 DEF Minutes
  <2> QED
    BY <2>7
<1>3. K \in Good
  <2>1. Good \in SUBSET (SUBSET K)
    OBVIOUS
  <2> HIDE DEF Good
  <2> QED BY <1>1, <1>2, <2>1, SetInduction
<1> QED
  BY <1>3

(* A gap judged by its minutes, one after the other.                       *)
MinutesOf(g, r, e, K) ==
  /\ g[K] = ByMinutes(r, e) /\ g[{}] = [p |-> r.p, sure |-> TRUE]
  /\ \A u \in SUBSET K :
       u # {} => g[u] = Through(r.through, QuoteTime(r, e), g[u \ {Max(u)}], Max(u))
(* It is what that fold computes.                                          *)
LEMMA MinutesRun ==
  ASSUME NEW r, NEW e, QuoteTime(r, e) # r.through,
         NEW K, K = (r.through \div MinuteLength)..((QuoteTime(r, e) - 1) \div MinuteLength),
         K \in SUBSET Nat, IsFiniteSet(K)
  PROVE  \E g : MinutesOf(g, r, e, K)
<1> DEFINE since == r.through
           until == QuoteTime(r, e)
           start == [p |-> r.p, sure |-> TRUE]
           g == CHOOSE h : Minutes(h, since, until, start, K)
<1>1. Minutes(g, since, until, start, K)
  <2> HIDE DEF since, until, start
  <2> QED BY MinutesExist
<1>2. ByMinutes(r, e) = g[K]
  BY DEF ByMinutes, InOrder, MapThenFoldSet, Minutes, Through
<1> HIDE DEF g
<1>3. \A u \in SUBSET K : g[u] = IF u = {} THEN start ELSE Through(since, until, g[u \ {Max(u)}], Max(u))
  BY <1>1 DEF Minutes
<1>4. g[{}] = start
  BY <1>3
<1> QED
  BY <1>2, <1>3, <1>4 DEF MinutesOf

-----------------------------------------------------------------------------
(* The whole tape.                                                         *)

(* The later of two times, written in two ways.                            *)
LEMMA LaterOf ==
  ASSUME NEW x \in Nat, NEW y \in Nat
  PROVE  Max({x, y}) = Higher(x, y)
<1> DEFINE A == {x, y}
<1>1. A = {x} \cup {y}
  OBVIOUS
<1>2. IsFiniteSet(A)
  <2> DEFINE X == {x}
             Y == {y}
  <2>1. IsFiniteSet(X) /\ IsFiniteSet(Y)
    BY FS_Singleton
  <2>2. A = X \cup Y
    OBVIOUS
  <2> HIDE DEF A, X, Y
  <2> QED BY <2>1, <2>2, FS_Union
<1>3. A \in SUBSET Nat /\ A # {}
  OBVIOUS
<1>4. Max(A) \in A /\ \A z \in A : z <= Max(A)
  <2> HIDE DEF A
  <2> QED BY <1>2, <1>3, GreatestOf
<1>5. (Max(A) = x \/ Max(A) = y) /\ x <= Max(A) /\ y <= Max(A)
  BY <1>4
<1> QED
  BY <1>5 DEF Higher

(* One event: a price between the line and the target, in time, moves the  *)
(* protection; any other ends the position.                                *)
LEMMA RepriceAlive ==
  ASSUME TapeOK, NEW r, r.exit = NoExit, NEW x \in Nat, NEW t \in {0, TrailAt(x)},
         r.p = Position(x, t),
         NEW i \in DOMAIN tape, r.through \in Nat, r.through <= tape[i].at
  PROVE  /\ Reprice(r, i).through = tape[i].at /\ Reprice(r, i).event = i
         /\ Reprice(r, i).stream = tape[i].stream
         /\ Reprice(r, i) = [p |-> Reprice(r, i).p, exit |-> Reprice(r, i).exit,
                             through |-> tape[i].at, event |-> i, stream |-> tape[i].stream]
         /\ (LineOf(x, t) < tape[i].price /\ tape[i].price < Target /\ ~Late(tape[i].at))
              => Reprice(r, i).exit = NoExit /\ Reprice(r, i).p = Shape(Higher(x, tape[i].price))
         /\ ~(LineOf(x, t) < tape[i].price /\ tape[i].price < Target /\ ~Late(tape[i].at))
              => Reprice(r, i).exit # NoExit
<1> DEFINE now == Max({tape[i].at, r.through})
           exit == EventExit(r.p, i, now)
<1>1. tape[i].at \in Nat /\ tape[i].price \in Nat
  BY TapeTypes
<1>2. now = tape[i].at
  BY <1>1, LaterOf DEF Higher
<1>3. exit = NoExit <=> (LineOf(x, t) < tape[i].price /\ tape[i].price < Target /\ ~Late(tape[i].at))
  <2>1. EventExit(Position(x, t), i, tape[i].at) = NoExit
          <=> (LineOf(x, t) < tape[i].price /\ tape[i].price < Target /\ ~Late(tape[i].at))
    <3>1. t \in Nat
      BY StopsType
    <3> QED BY <1>1, <3>1, PositionEnds
  <2> HIDE DEF now
  <2> QED BY <1>2, <2>1
<1>4. Protected(r.p, tape[i].price) = Shape(Higher(x, tape[i].price))
  BY <1>1, ProtectedPosition
<1>5. Reprice(r, i) = [p |-> IF exit = NoExit THEN Protected(r.p, tape[i].price) ELSE r.p,
                       exit |-> exit, through |-> now, event |-> i, stream |-> tape[i].stream]
  BY DEF Reprice
<1> HIDE DEF exit, now
<1> QED
  BY <1>2, <1>3, <1>4, <1>5

(* Once it has ended, a position ignores what follows.                     *)
LEMMA RepriceEnded ==
  ASSUME NEW r, NEW i, r.exit # NoExit
  PROVE  Reprice(r, i) = r
BY DEF Reprice

\* Where the tape puts a position that survives.
AfterAll(K) == IF K = {} THEN AtEntry ELSE Shape(Seen(K))

(* The replay of any trades after the entry ends the position exactly if   *)
(* one of them is not survived; else it has the shape of the highest price. *)
LEMMA OnTheTape ==
  ASSUME TapeOK, NEW K \in SUBSET After(Len(tape))
  PROVE  /\ Survives(K) => /\ Repriced(Entered, K).exit = NoExit
                           /\ Repriced(Entered, K).p = AfterAll(K)
         /\ ~Survives(K) => Repriced(Entered, K).exit # NoExit
<1>1. K \in SUBSET Nat /\ K \in SUBSET DOMAIN tape /\ IsFiniteSet(K) /\ \A i \in K : i > 2
  <2>1. \A i \in K : i \in Nat /\ i \in DOMAIN tape /\ i > 2
    BY TapeTypes DEF After
  <2> QED BY <2>1, TapeTypes, FS_Subset
<1>a. PICK g : ReplayOf(g, Entered, K)
  BY <1>1, RepricedRuns
<1>2. /\ g[K] = Repriced(Entered, K) /\ g[{}] = Entered
      /\ \A u \in SUBSET K : u # {} => g[u] = Reprice(g[u \ {Max(u)}], Max(u))
  BY <1>a DEF ReplayOf
<1> DEFINE Good == {u \in SUBSET K :
             /\ Survives(u) => /\ g[u].exit = NoExit /\ g[u].p = AfterAll(u)
                            /\ g[u].through \in Nat
                            /\ \A j \in DOMAIN tape : (j > 2 /\ \A i \in u : i <= j) => g[u].through <= tape[j].at
             /\ ~Survives(u) => g[u].exit # NoExit}
<1>3. {} \in Good
  <2>1. Entered.exit = NoExit /\ Entered.p = AtEntry /\ Entered.through = 1
    BY EntryShape
  <2>2. AfterAll({}) = AtEntry
    BY DEF AfterAll
  <2>3. Survives({})
    BY DEF Survives, InTime
  <2>4. \A j \in DOMAIN tape : j > 2 => 1 <= tape[j].at
    <3>1. tape[2].at = 1 /\ 2 \in DOMAIN tape
      BY TapeTypes DEF TapeOK
    <3>2. \A j \in DOMAIN tape : 2 <= j => tape[2].at <= tape[j].at
      BY <3>1 DEF TapeOK, Sorted
    <3>3. \A j \in DOMAIN tape : j \in Nat
      BY TapeTypes
    <3> QED BY <3>1, <3>2, <3>3
  <2> QED
    BY <1>2, <2>1, <2>2, <2>3, <2>4
<1>4. ASSUME NEW u \in SUBSET K, u # {}, \A x \in u : u \ {x} \in Good
      PROVE  u \in Good
  <2> DEFINE m == Max(u)
             v == u \ {m}
  <2>1. m \in u /\ \A y \in u : y <= m
    BY <1>1, <1>4, FS_Subset, GreatestOf
  <2>2. g[u] = Reprice(g[v], m)
    BY <1>2, <1>4
  <2>3. v \in Good
    BY <1>4, <2>1
  <2> HIDE DEF m
  <2>4. m \in DOMAIN tape /\ m > 2 /\ m \in Nat
    BY <1>1, <2>1
  <2>5. v \in SUBSET DOMAIN tape /\ \A i \in v : i < m
    <3>1. \A i \in v : i <= m /\ i # m /\ i \in Nat
      <4>1. \A i \in v : i \in u /\ i # m /\ i \in K
        OBVIOUS
      <4> HIDE DEF v
      <4> QED BY <1>1, <2>1, <4>1
    <3>2. v \in SUBSET DOMAIN tape
      BY <1>1
    <3> HIDE DEF v
    <3> QED BY <2>4, <3>1, <3>2
  <2>6. u = v \cup {m}
    BY <2>1
  <2> HIDE DEF v
  <2>7. Survives(u) <=> Survives(v) /\ LineAfter(v) < tape[m].price /\ tape[m].price < Target
                        /\ ~Late(tape[m].at)
    BY <2>4, <2>5, <2>6, SurvivesAdds
  <2>8. Seen(v) \in Nat /\ Seen(u) = Higher(Seen(v), tape[m].price)
    BY <2>4, <2>5, <2>6, SeenIs, SeenAdds
  <2>9. CASE ~Survives(v)
    <3>1. g[v].exit # NoExit
      BY <2>3, <2>9
    <3>2. g[u].exit # NoExit
      BY <2>2, <3>1, RepriceEnded
    <3> QED
      BY <2>7, <2>9, <3>2
  <2>10. CASE Survives(v)
    <3> DEFINE t == IF v = {} THEN 0 ELSE TrailAt(Seen(v))
    <3>1. /\ g[v].exit = NoExit /\ g[v].p = AfterAll(v) /\ g[v].through \in Nat
          /\ g[v].through <= tape[m].at
      <4>1. \A i \in v : i <= m
        BY <2>5, <2>4, <1>1
      <4> QED BY <2>3, <2>4, <2>10, <4>1
    <3>7. Seen({}) = EntryPrice
      BY SeenIs
    <3>8. AfterAll(v) = Position(Seen(v), t) /\ LineOf(Seen(v), t) = LineAfter(v) /\ t \in {0, TrailAt(Seen(v))}
      BY <3>7 DEF AfterAll, AtEntry, Shape, LineAfter, Line, LineOf
    <3>9. AfterAll(u) = Shape(Seen(u))
      BY <2>1 DEF AfterAll
    <3> HIDE DEF t
    <3>2. /\ Reprice(g[v], m).through = tape[m].at
          /\ (LineAfter(v) < tape[m].price /\ tape[m].price < Target /\ ~Late(tape[m].at))
               => Reprice(g[v], m).exit = NoExit /\ Reprice(g[v], m).p = Shape(Higher(Seen(v), tape[m].price))
          /\ ~(LineAfter(v) < tape[m].price /\ tape[m].price < Target /\ ~Late(tape[m].at))
               => Reprice(g[v], m).exit # NoExit
      BY <2>4, <2>8, <3>1, <3>8, RepriceAlive
    <3>3. \A j \in DOMAIN tape : (j > 2 /\ \A i \in u : i <= j) => tape[m].at <= tape[j].at
      BY <2>1, <2>4 DEF TapeOK, Sorted
    <3>4. tape[m].at \in Nat
      BY <2>4, TapeTypes
    <3>5. CASE Survives(u)
      <4>1. g[u].exit = NoExit /\ g[u].p = AfterAll(u) /\ g[u].through = tape[m].at
        BY <2>2, <2>7, <2>8, <3>2, <3>5, <3>9
      <4> QED BY <3>3, <3>4, <3>5, <4>1
    <3>6. CASE ~Survives(u)
      BY <2>2, <2>7, <2>10, <3>2, <3>6
    <3> QED BY <3>5, <3>6
  <2> QED
    BY <2>9, <2>10
<1>5. K \in Good
  <2>1. Good \in SUBSET (SUBSET K)
    OBVIOUS
  <2> HIDE DEF Good
  <2> QED BY <1>1, <1>3, <1>4, <2>1, SetInduction
<1> QED
  BY <1>2, <1>5

-----------------------------------------------------------------------------
(* What a checkpoint has to do with the tape.                              *)

\* p has passed the trades K and stands where the highest of them puts it.
Holds(p, K) ==
  /\ PricesPass(K)
  /\ \E b \in Nat : Like(p, b) /\ b <= Seen(K) /\ Same(b, Seen(K))

\* K holds every trade up to the n-th that the code can put in order.
Covers(n, K) ==
  /\ K \in SUBSET After(n)
  /\ \A i \in After(n) : i \in K \/ Unordered(i)

IsPoint(s) ==
  s = [p |-> s.p, exit |-> s.exit, through |-> s.through, event |-> s.event, stream |-> s.stream]

Tracks(s) ==
  /\ IsPoint(s) /\ s.exit = NoExit
  /\ s.event \in Events /\ s.event >= 2
  /\ s.through = tape[s.event].at /\ s.stream = tape[s.event].stream
  /\ (s.event = 2 /\ s.p = AtEntry) \/ (s.event > 2 /\ Moved(s.p))
  /\ \E K : Covers(s.event, K) /\ Holds(s.p, K) /\ InTime(K)

Ended(s) ==
  /\ s.exit # NoExit /\ s.event \in Events
  /\ s.exit.reason # "recovery-exit" => \E K : Covers(s.event, K) /\ ~Survives(K)

\* Where a trailing stop has no activation distance, the first event after
\* the entry lies above the stop that its own price may set.
FirstEvent(i) == i \in Events /\ i > 2 /\ \A f \in Events : f > 2 => f >= i
FirstPriceAbove ==
  TrailsAtOnce => \A i \in Events : FirstEvent(i) => EnteredAt - TrailDistance < tape[i].price

(* A set of trades that covers the tape up to a point is of the tape.      *)
LEMMA CoversDomain ==
  ASSUME TapeOK, NEW n \in Nat, n <= Len(tape), NEW K, Covers(n, K)
  PROVE  K \in SUBSET DOMAIN tape /\ K \in SUBSET Nat /\ \A i \in K : 2 < i /\ i <= n
<1>1. \A i \in K : i \in 3..n
  BY DEF Covers, After
<1> QED
  BY <1>1, TapeTypes

(* Trades below a price h that the stops after h let pass move the         *)
(* protection as far as h does, or not at all.                             *)
LEMMA GroupPasses ==
  ASSUME TapeOK, NEW K \in SUBSET DOMAIN tape, NEW H \in SUBSET DOMAIN tape,
         NEW p, NEW h \in Nat, Holds(p, K),
         \A j \in K \ H, i \in H : j < i,
         \A j \in H : tape[j].price <= h /\ PriceExit(Protected(p, h), tape[j].price) = NoExit
  PROVE  /\ h <= Seen(K \cup H) => Holds(Protected(p, h), K \cup H)
         /\ ~Changed(p, Protected(p, h)) => Holds(p, K \cup H)
<1> DEFINE L == K \cup H
           d == Higher(Seen(K), h)
<1>1. PICK b \in Nat : Like(p, b) /\ b <= Seen(K) /\ Same(b, Seen(K))
  BY DEF Holds
<1> DEFINE c == Higher(b, h)
<1>2. Seen(K) \in Nat /\ EntryPrice <= Seen(K) /\ \A i \in K : tape[i].price <= Seen(K)
  BY SeenIs
<1>3. L \in SUBSET DOMAIN tape /\ K \in SUBSET L /\ DOMAIN tape \in SUBSET Nat
  BY TapeTypes
<1>4. Seen(L) \in Nat /\ Seen(K) <= Seen(L)
  BY <1>3, SeenIs, SeenGrows
<1>5. c \in Nat /\ d \in Nat /\ c <= d /\ Same(c, d) /\ Seen(K) <= d /\ h <= d /\ b <= c /\ h <= c
      /\ (c = b \/ c = h)
  BY <1>1, <1>2, HigherIs, SameHigher
<1>6. Protected(p, h) = Shape(c)
  BY <1>1, ProtectedLike
<1>7. \A j \in DOMAIN tape : tape[j].price \in Nat
  BY TapeTypes
<1> HIDE DEF c, d
<1>8. \A j \in H : Line(d) < tape[j].price /\ tape[j].price < Target
  <2> SUFFICES ASSUME NEW j \in H PROVE Line(d) < tape[j].price /\ tape[j].price < Target
    OBVIOUS
  <2>1. PriceExit(Shape(c), tape[j].price) = NoExit /\ tape[j].price \in Nat
    BY <1>6, <1>7
  <2>2. Line(c) < tape[j].price /\ tape[j].price < Target
    BY <1>5, <2>1, ShapeExit
  <2> QED BY <1>5, <2>2, SameLine
<1>9. Seen(L) <= d
  <2>1. \A i \in L : tape[i].price <= d
    <3> SUFFICES ASSUME NEW i \in L PROVE tape[i].price <= d
      OBVIOUS
    <3>1. tape[i].price \in Nat /\ (tape[i].price <= Seen(K) \/ tape[i].price <= h)
      BY <1>2, <1>7
    <3> QED BY <1>2, <1>5, <3>1
  <2>2. EntryPrice <= d
    BY <1>2, <1>5, Numbers
  <2> HIDE DEF L
  <2> QED BY <1>3, <1>5, <2>1, <2>2, SeenLeast
<1>10. PricesPass(L)
  <2> SUFFICES ASSUME NEW j \in L
               PROVE  Line(Seen(Before(L, j))) < tape[j].price /\ tape[j].price < Target
    BY DEF PricesPass
  <2>1. CASE j \in H
    <3> DEFINE B == Before(L, j)
    <3>1. B \in SUBSET L /\ B \in SUBSET DOMAIN tape
      BY <1>3 DEF Before
    <3>2. Seen(B) \in Nat /\ Seen(B) <= Seen(L)
      <4> HIDE DEF B, L
      <4> QED BY <1>3, <3>1, SeenIs, SeenGrows
    <3>3. Line(Seen(B)) \in Int /\ Line(d) \in Int /\ Line(Seen(B)) <= Line(d)
      <4> HIDE DEF B, L
      <4>1. Seen(B) <= d
        BY <1>4, <1>5, <1>9, <3>2
      <4> QED BY <1>5, <3>2, <4>1, LineRises
    <3>4. tape[j].price \in Nat
      BY <1>3, <1>7
    <3> HIDE DEF B
    <3>5. Line(Seen(B)) < tape[j].price /\ tape[j].price < Target
      BY <1>8, <2>1, <3>3, <3>4
    <3> QED BY <3>5 DEF B
  <2>2. CASE j \in K \ H
    <3>1. Before(L, j) = Before(K, j)
      <4>1. j \in Nat /\ \A i \in H : i \in Nat /\ j < i
        BY <1>3, <2>2
      <4>2. \A i \in H : ~(i < j)
        BY <4>1
      <4> QED BY <4>2 DEF Before
    <3>2. PricesPass(K)
      BY DEF Holds
    <3> QED BY <2>2, <3>1, <3>2 DEF PricesPass
  <2> QED BY <2>1, <2>2
<1> HIDE DEF L
<1>11. ASSUME h <= Seen(L) PROVE Holds(Protected(p, h), L)
  <2>1. c <= Seen(L)
    BY <1>1, <1>2, <1>4, <1>5, <1>11
  <2>2. Same(c, Seen(L))
    BY <1>4, <1>5, <1>9, <2>1, SameBetween
  <2> QED BY <1>5, <1>6, <1>10, <2>1, <2>2 DEF Holds, Like
<1>12. ASSUME ~Changed(p, Protected(p, h)) PROVE Holds(p, L)
  <2>1. Same(b, c)
    BY <1>1, <1>5, <1>6, <1>12, LikeUnchanged
  <2>2. Same(b, d)
    BY <1>5, <2>1 DEF Same
  <2>3. b <= Seen(L)
    BY <1>1, <1>2, <1>4
  <2>4. Same(b, Seen(L))
    BY <1>4, <1>5, <1>9, <2>2, <2>3, SameBetween
  <2> QED BY <1>1, <1>10, <2>3, <2>4 DEF Holds
<1> QED
  BY <1>11, <1>12 DEF L

(* The first event passes the higher line with the lower one.              *)
LEMMA FirstAbove ==
  ASSUME TapeOK, FirstPriceAbove, NEW i, FirstEvent(i), StopAt(EntryPrice) < tape[i].price
  PROVE  Line(EntryPrice) < tape[i].price
BY EntryShape DEF Line, LineOf, FirstEvent, FirstPriceAbove

(* Where the tape goes on after what covers it, it is above the line.      *)
LEMMA LineFollows ==
  ASSUME TapeOK, FirstPriceAbove, NEW i \in Events, i > 2, NEW K, Covers(i - 1, K),
         LineAfter(K) < tape[i].price
  PROVE  Line(Seen(K)) < tape[i].price
<1>1. CASE K # {}
  BY <1>1 DEF LineAfter
<1>2. CASE K = {}
  <2>1. ASSUME NEW f \in Events, f > 2, f < i PROVE FALSE
    <3>1. f \in Nat /\ i \in Nat
      BY TapeTypes
    <3>2. f \in 3..(i - 1)
      BY <2>1, <3>1
    <3>3. Unordered(f)
      BY <1>2, <3>2 DEF Covers, After
    <3> QED BY <3>3 DEF Unordered
  <2>2. \A f \in Events : f \in Nat
    BY TapeTypes
  <2>3. FirstEvent(i)
    BY <2>1, <2>2 DEF FirstEvent
  <2>4. Seen({}) = EntryPrice
    BY SeenIs
  <2>5. StopAt(EntryPrice) < tape[i].price
    BY <1>2 DEF LineAfter
  <2> QED BY <1>2, <2>3, <2>4, <2>5, FirstAbove
<1> QED BY <1>1, <1>2

(* It meets a position that has seen a price, or one whose first price it  *)
(* is, at the line of what the position is like.                           *)
LEMMA LikeFirst ==
  ASSUME TapeOK, FirstPriceAbove, NEW p, NEW b \in Nat, Like(p, b),
         NEW i, Moved(p) \/ FirstEvent(i)
  PROVE  \E t \in {0, TrailAt(b)} :
            p = Position(b, t) /\ (LineOf(b, t) < tape[i].price <=> Line(b) < tape[i].price)
<1>1. CASE p = Shape(b)
  BY <1>1 DEF Shape, Line
<1>2. CASE p # Shape(b)
  <2>1. p = AtEntry /\ b = EntryPrice /\ FirstEvent(i)
    BY <1>2, LikeMoved DEF Like
  <2>2. LineOf(EntryPrice, 0) = StopAt(EntryPrice)
    BY DEF LineOf
  <2>3. tape[i].price \in Nat
    BY <2>1, TapeTypes DEF FirstEvent
  <2>4. Line(EntryPrice) < tape[i].price => StopAt(EntryPrice) < tape[i].price
    BY <2>3, TrailLeast, Numbers
  <2>5. StopAt(EntryPrice) < tape[i].price => Line(EntryPrice) < tape[i].price
    BY <2>1, FirstAbove
  <2> QED BY <2>1, <2>2, <2>4, <2>5 DEF AtEntry
<1> QED BY <1>1, <1>2

(* An event that comes after trades which were passed.                     *)
LEMMA NextEvent ==
  ASSUME TapeOK, FirstPriceAbove, NEW s, s.exit = NoExit, NEW i \in Events, i > 2,
         s.through \in Nat, s.through <= tape[i].at,
         NEW K, Covers(i - 1, K), Holds(s.p, K), Moved(s.p) \/ FirstEvent(i)
  PROVE  /\ Reprice(s, i).event = i
         /\ Reprice(s, i).exit = NoExit => Tracks(Reprice(s, i))
         /\ Reprice(s, i).exit # NoExit => Ended(Reprice(s, i))
<1> DEFINE L == K \cup {i}
           y == tape[i].price
<1>1. i \in DOMAIN tape /\ i \in Nat /\ i - 1 \in Nat /\ i <= Len(tape) /\ i - 1 <= Len(tape)
  BY TapeTypes
<1>2. K \in SUBSET DOMAIN tape /\ K \in SUBSET Nat /\ \A j \in K : 2 < j /\ j <= i - 1
  BY <1>1, CoversDomain
<1>3. \A j \in K : j < i
  BY <1>1, <1>2
<1>4. PICK b \in Nat : Like(s.p, b) /\ b <= Seen(K) /\ Same(b, Seen(K))
  BY DEF Holds
<1>11. PICK t \in {0, TrailAt(b)} : s.p = Position(b, t) /\ (LineOf(b, t) < y <=> Line(b) < y)
  BY <1>4, LikeFirst
<1> DEFINE ok == Line(b) < y /\ y < Target /\ ~Late(tape[i].at)
<1>5. /\ Reprice(s, i).through = tape[i].at /\ Reprice(s, i).event = i
      /\ Reprice(s, i).stream = tape[i].stream /\ IsPoint(Reprice(s, i))
      /\ ok => Reprice(s, i).exit = NoExit /\ Reprice(s, i).p = Shape(Higher(b, y))
      /\ ~ok => Reprice(s, i).exit # NoExit
  <2>1. /\ Reprice(s, i).through = tape[i].at /\ Reprice(s, i).event = i
        /\ Reprice(s, i).stream = tape[i].stream
        /\ Reprice(s, i) = [p |-> Reprice(s, i).p, exit |-> Reprice(s, i).exit,
                             through |-> tape[i].at, event |-> i, stream |-> tape[i].stream]
        /\ ok => Reprice(s, i).exit = NoExit /\ Reprice(s, i).p = Shape(Higher(b, y))
        /\ ~ok => Reprice(s, i).exit # NoExit
    <3>1. /\ Reprice(s, i).through = tape[i].at /\ Reprice(s, i).event = i
          /\ Reprice(s, i).stream = tape[i].stream
          /\ Reprice(s, i) = [p |-> Reprice(s, i).p, exit |-> Reprice(s, i).exit,
                               through |-> tape[i].at, event |-> i, stream |-> tape[i].stream]
          /\ (LineOf(b, t) < y /\ y < Target /\ ~Late(tape[i].at))
               => Reprice(s, i).exit = NoExit /\ Reprice(s, i).p = Shape(Higher(b, y))
          /\ ~(LineOf(b, t) < y /\ y < Target /\ ~Late(tape[i].at)) => Reprice(s, i).exit # NoExit
      BY <1>1, <1>11, RepriceAlive
    <3> HIDE DEF y
    <3> QED BY <1>11, <3>1
  <2>2. IsPoint(Reprice(s, i))
    BY <2>1 DEF IsPoint
  <2> HIDE DEF ok, y
  <2> QED BY <2>1, <2>2
<1>6. Covers(i, L)
  <2>1. \A j : j \in After(i) <=> (j \in After(i - 1) \/ j = i)
    BY <1>1 DEF After
  <2> QED BY <2>1 DEF Covers
<1>7. Line(b) = Line(Seen(K))
  BY <1>4, SameLine
<1>8. /\ PricesPass(L) <=> PricesPass(K) /\ Line(Seen(K)) < y /\ y < Target
      /\ InTime(L) <=> InTime(K) /\ ~Late(tape[i].at)
  BY <1>1, <1>2, <1>3, PassesAdds
<1>9. ASSUME ok PROVE Tracks(Reprice(s, i))
  <2>1. InTime(L)
    <3>1. ASSUME NEW j \in K PROVE ~Late(tape[j].at)
      <4>1. tape[j].at <= tape[i].at /\ tape[j].at \in Nat /\ tape[i].at \in Nat
        <5>1. j \in DOMAIN tape /\ j <= i
          BY <1>1, <1>2, <1>3
        <5> QED BY <1>1, <5>1, TapeTypes DEF TapeOK, Sorted
      <4> QED BY <1>9, <4>1, Numbers DEF Late
    <3> QED BY <1>8, <1>9, <3>1 DEF InTime
  <2>2. PricesPass(L)
    BY <1>7, <1>8, <1>9 DEF Holds
  <2>3. Seen(L) = Higher(Seen(K), y) /\ Seen(K) \in Nat /\ y \in Nat
    BY <1>1, <1>2, SeenAdds, SeenIs, TapeTypes
  <2>4. Higher(b, y) <= Seen(L) /\ Same(Higher(b, y), Seen(L)) /\ Higher(b, y) \in Nat
    <3> HIDE DEF L, y
    <3> QED BY <1>4, <2>3, SameHigher, HigherIs
  <2> HIDE DEF L, ok
  <2>5. Holds(Reprice(s, i).p, L)
    BY <1>5, <1>9, <2>2, <2>4 DEF Holds, Like
  <2>6. i >= 2
    BY <1>1
  <2>7. Moved(Reprice(s, i).p)
    BY <1>5, <1>9, <2>4 DEF Moved
  <2> QED BY <1>5, <1>6, <1>9, <2>1, <2>5, <2>6, <2>7 DEF Tracks
<1>10. ASSUME ~ok PROVE Ended(Reprice(s, i))
  <2>1. ~Survives(L)
    <3>1. Survives(L) => LineAfter(K) < y /\ y < Target /\ ~Late(tape[i].at)
      BY <1>1, <1>2, <1>3, SurvivesAdds
    <3>2. LineAfter(K) < y => Line(Seen(K)) < y
      BY <1>1, LineFollows
    <3> HIDE DEF L, y
    <3> QED BY <1>7, <1>10, <3>1, <3>2
  <2> HIDE DEF L, ok
  <2> QED BY <1>5, <1>6, <1>10, <2>1 DEF Ended
<1> HIDE DEF ok
<1> QED
  BY <1>5, <1>9, <1>10

(* Where a position leaves with the protection it has, it is closed on the *)
(* tape as well, whatever the trades between would have changed.           *)
LEMMA LeavesOnTape ==
  ASSUME TapeOK, FirstPriceAbove, NEW s, Tracks(s), NEW i \in Events, i > s.event,
         EventExit(s.p, i, tape[i].at) # NoExit, NEW x, x # NoExit, NEW now
  PROVE  Ended(Leaving(s, i, x, now))
<1>1. PICK K : Covers(s.event, K) /\ Holds(s.p, K) /\ InTime(K)
  BY DEF Tracks
<1>2. PICK b \in Nat : Like(s.p, b) /\ b <= Seen(K) /\ Same(b, Seen(K))
  BY <1>1 DEF Holds
<1> DEFINE n == s.event
           G == (n + 1)..i
           L == K \cup G
<1>3. i \in DOMAIN tape /\ i \in Nat /\ i <= Len(tape) /\ n \in Nat /\ n <= Len(tape) /\ n >= 2
  BY TapeTypes DEF Tracks
<1>4. K \in SUBSET DOMAIN tape /\ K \in SUBSET Nat /\ \A j \in K : 2 < j /\ j <= n
  <2> HIDE DEF n
  <2> QED BY <1>1, <1>3, CoversDomain DEF n
<1>5. L \in SUBSET DOMAIN tape /\ i \in L /\ K \in SUBSET Before(L, i)
  <2>1. G \in SUBSET DOMAIN tape /\ i \in G
    BY <1>3, TapeTypes
  <2>2. \A j \in K : j < i
    BY <1>3, <1>4
  <2> QED BY <1>4, <2>1, <2>2 DEF Before
<1>6. Covers(i, L)
  <2>1. \A j : j \in After(i) <=> (j \in After(n) \/ j \in G)
    BY <1>3 DEF After
  <2> HIDE DEF G, n
  <2> QED BY <1>1, <2>1 DEF Covers, n
<1>7. ~Survives(L)
  <2> SUFFICES ASSUME Survives(L) PROVE FALSE
    OBVIOUS
  <2> DEFINE B == Before(L, i)
  <2>7. LineAfter(B) < tape[i].price /\ tape[i].price < Target /\ ~Late(tape[i].at)
    BY <1>5 DEF Survives, InTime
  <2>8. Covers(i - 1, B)
    <3>1. \A j \in B : j \in 3..i /\ j < i
      BY <1>6 DEF Covers, After, Before
    <3>2. \A j \in 3..(i - 1) : j \in 3..i /\ j < i
      BY <1>3
    <3>3. \A j \in 3..i : j < i => j \in 3..(i - 1)
      BY <1>3
    <3>4. \A j \in 3..i : j \in L \/ Unordered(j)
      BY <1>6 DEF Covers, After
    <3>5. \A j \in L : j < i => j \in B
      BY DEF Before
    <3> HIDE DEF L, B
    <3> QED BY <3>1, <3>2, <3>3, <3>4, <3>5 DEF Covers, After
  <2>9. i > 2
    <3> HIDE DEF L, G
    <3> QED BY <1>3
  <2>1. Line(Seen(B)) < tape[i].price /\ tape[i].price < Target /\ ~Late(tape[i].at)
    <3> HIDE DEF B, L
    <3> QED BY <2>7, <2>8, <2>9, LineFollows
  <2>2. B \in SUBSET DOMAIN tape
    BY <1>5 DEF Before
  <2> HIDE DEF B, L
  <2>3. Seen(K) <= Seen(B) /\ Seen(K) \in Nat /\ Seen(B) \in Nat
    BY <1>4, <1>5, <2>2, SeenGrows, SeenIs DEF B
  <2>4. Line(Seen(K)) <= Line(Seen(B)) /\ Line(Seen(K)) \in Int /\ Line(Seen(B)) \in Int
    BY <2>3, LineRises
  <2>5. tape[i].price \in Nat /\ tape[i].at \in Nat
    BY <1>3, TapeTypes
  <2>6. Line(b) < tape[i].price
    BY <1>2, <2>1, <2>4, <2>5, SameLine
  <2>10. EventExit(s.p, i, tape[i].at) = NoExit
    BY <1>2, <2>1, <2>5, <2>6, LikeEnds
  <2> QED BY <2>10
<1>8. Leaving(s, i, x, now).exit = x /\ Leaving(s, i, x, now).event = i
  BY DEF Leaving, Tracks, IsPoint
<1> HIDE DEF L
<1> QED
  BY <1>6, <1>7, <1>8 DEF Ended

(* The event a position stands at does not end it once more.               *)
LEMMA NotAgain ==
  ASSUME TapeOK, NEW s, Tracks(s), s.event > 2
  PROVE  EventExit(s.p, s.event, tape[s.event].at) = NoExit
<1>1. PICK K : Covers(s.event, K) /\ Holds(s.p, K) /\ InTime(K)
  BY DEF Tracks
<1>2. PICK b \in Nat : s.p = Shape(b) /\ b <= Seen(K) /\ Same(b, Seen(K))
  <2>1. PICK b \in Nat : Like(s.p, b) /\ b <= Seen(K) /\ Same(b, Seen(K))
    BY <1>1 DEF Holds
  <2>2. Moved(s.p)
    BY DEF Tracks
  <2> QED BY <2>1, <2>2, LikeMoved
<1> DEFINE n == s.event
           B == Before(K, n)
           y == tape[n].price
<1>3. n \in Events /\ n \in DOMAIN tape /\ n \in Nat /\ n <= Len(tape) /\ y \in Nat /\ tape[n].at \in Nat
  BY TapeTypes DEF Tracks
<1>4. n \in K
  <2>1. n \in After(n)
    BY <1>3 DEF After
  <2>2. ~Unordered(n)
    BY <1>3 DEF Unordered
  <2> QED BY <1>1, <2>1, <2>2 DEF Covers
<1>5. K \in SUBSET DOMAIN tape /\ K \in SUBSET Nat /\ \A j \in K : 2 < j /\ j <= n
  BY <1>1, <1>3, CoversDomain
<1>6. B \in SUBSET DOMAIN tape /\ K = B \cup {n}
  <2>1. \A j \in K : j < n \/ j = n
    BY <1>3, <1>5
  <2> QED BY <1>4, <1>5, <2>1 DEF Before
<1>7. Line(Seen(B)) < y /\ y < Target /\ ~Late(tape[n].at)
  BY <1>1, <1>4 DEF Holds, PricesPass, InTime
<1> HIDE DEF B, n
<1>8. Seen(K) = Higher(Seen(B), y) /\ Seen(B) \in Nat
  BY <1>3, <1>6, SeenAdds, SeenIs
<1>9. Line(b) < y
  BY <1>2, <1>3, <1>7, <1>8, SeenStays, SameLine
<1>10. EventExit(Shape(b), n, tape[n].at) = NoExit
  BY <1>2, <1>3, <1>7, <1>9, EventEnds
<1> QED
  BY <1>2, <1>10 DEF n

-----------------------------------------------------------------------------
(* A gap judged by its trades.                                             *)

\* e is the next event after the one s stands at; between them is the gap.
NextAfter(s, e) == e \in Events /\ e > s.event /\ \A f \in Events : f > s.event => f >= e
Gap(s, e) == (s.event + 1)..(e - 1)

(* The price a position stands at lies between its stops and its target,   *)
(* and is among those it has seen.                                         *)
LEMMA AnchorPasses ==
  ASSUME TapeOK, EntryHolds, NEW s, Tracks(s),
         NEW K, Covers(s.event, K), Holds(s.p, K)
  PROVE  /\ K \in SUBSET DOMAIN tape
         /\ tape[s.event].price \in Nat /\ tape[s.event].price <= Seen(K)
         /\ Line(Seen(K)) < tape[s.event].price /\ tape[s.event].price < Target
<1> DEFINE n == s.event
           B == Before(K, n)
           y == tape[n].price
<1>1. n \in Events /\ n \in DOMAIN tape /\ n \in Nat /\ n <= Len(tape) /\ y \in Nat /\ n >= 2
  BY TapeTypes DEF Tracks
<1>2. K \in SUBSET DOMAIN tape /\ K \in SUBSET Nat /\ \A j \in K : 2 < j /\ j <= n
  BY <1>1, CoversDomain
<1>3. CASE n = 2
  <2>1. K = {}
    BY <1>2, <1>3
  <2>2. y = EntryPrice
    BY <1>3 DEF TapeOK
  <2>3. Seen(K) = EntryPrice
    BY <1>2, <2>1, SeenIs
  <2> QED BY <1>1, <1>2, <2>2, <2>3, EntryShape
<1>4. CASE n > 2
  <2>1. n \in K
    <3>1. n \in After(n)
      BY <1>1, <1>4 DEF After
    <3>2. ~Unordered(n)
      BY <1>1 DEF Unordered
    <3> QED BY <3>1, <3>2 DEF Covers
  <2>2. B \in SUBSET DOMAIN tape /\ K = B \cup {n}
    <3>1. \A j \in K : j < n \/ j = n
      BY <1>1, <1>2
    <3> QED BY <1>2, <2>1, <3>1 DEF Before
  <2>3. Line(Seen(B)) < y /\ y < Target
    BY <2>1 DEF Holds, PricesPass
  <2> HIDE DEF B, n, y
  <2>4. Seen(K) = Higher(Seen(B), y) /\ Seen(B) \in Nat
    BY <1>1, <2>2, SeenAdds, SeenIs DEF y
  <2>5. Line(Seen(K)) < y
    BY <1>1, <2>3, <2>4, SeenStays
  <2>6. y <= Seen(K)
    BY <1>1, <2>4, HigherIs
  <2> QED BY <1>1, <1>2, <2>3, <2>5, <2>6 DEF n, y
<1> QED BY <1>1, <1>3, <1>4

(* The trades of a gap were missed, and lie between its ends in time.      *)
LEMMA GapTrades ==
  ASSUME TapeOK, NEW s, Tracks(s), NEW e, NextAfter(s, e)
  PROVE  /\ s.event \in DOMAIN tape /\ s.event \in Nat /\ s.event >= 2
         /\ e \in DOMAIN tape /\ e \in Nat /\ e - 1 \in Nat /\ e <= Len(tape)
         /\ s.through \in Nat /\ s.through <= tape[e].at /\ QuoteTime(s, e) = tape[e].at
         /\ \A i \in Gap(s, e) : /\ i \in DOMAIN tape /\ s.event < i /\ i < e
                                 /\ s.through <= tape[i].at /\ tape[i].at <= tape[e].at
                                 /\ tape[i].at = tape[e].at => Unordered(i)
<1> DEFINE n == s.event
<1>1. n \in Events /\ n \in DOMAIN tape /\ n \in Nat /\ n >= 2 /\ s.through = tape[n].at
      /\ tape[n].at \in Nat
  BY TapeTypes DEF Tracks
<1>2. e \in Events /\ e \in DOMAIN tape /\ e \in Nat /\ e > n /\ e <= Len(tape) /\ tape[e].at \in Nat
  BY TapeTypes DEF NextAfter
<1>3. tape[n].at <= tape[e].at
  BY <1>1, <1>2 DEF TapeOK, Sorted
<1>4. QuoteTime(s, e) = tape[e].at
  <2>1. Max({tape[e].at, tape[n].at}) = Higher(tape[e].at, tape[n].at)
    BY <1>1, <1>2, LaterOf
  <2> QED BY <1>1, <1>2, <1>3, <2>1 DEF QuoteTime, Higher
<1>5. ASSUME NEW i \in Gap(s, e)
      PROVE  /\ i \in DOMAIN tape /\ n < i /\ i < e
             /\ s.through <= tape[i].at /\ tape[i].at <= tape[e].at
             /\ tape[i].at = tape[e].at => Unordered(i)
  <2>1. i \in Nat /\ n < i /\ i < e
    <3>1. n \in Nat /\ e \in Nat /\ i \in (n + 1)..(e - 1)
      BY <1>1, <1>2 DEF Gap
    <3> HIDE DEF n
    <3> QED BY <3>1
  <2>2. i \in DOMAIN tape
    BY <1>1, <1>2, <2>1, TapeTypes
  <2>3. tape[n].at <= tape[i].at /\ tape[i].at <= tape[e].at
    BY <1>1, <1>2, <2>1, <2>2 DEF TapeOK, Sorted
  <2>4. \A f \in Events : f \in Nat
    BY TapeTypes
  <2>5. i \notin Events
    BY <1>1, <1>2, <2>1 DEF NextAfter
  <2>6. \A f \in Events : f > i => f >= e
    BY <1>1, <2>1, <2>4 DEF NextAfter
  <2>7. tape[i].at = tape[e].at => Unordered(i)
    BY <1>2, <2>1, <2>5, <2>6 DEF Unordered
  <2> QED BY <1>1, <2>1, <2>2, <2>3, <2>7
<1> QED BY <1>1, <1>2, <1>3, <1>4, <1>5

(* What is passed with the gap covers the tape up to the next event.       *)
LEMMA GapCovered ==
  ASSUME TapeOK, NEW s, Tracks(s), NEW e, NextAfter(s, e), NEW K, Covers(s.event, K),
         NEW L, K \in SUBSET L, L \in SUBSET (K \cup After(e - 1)),
         \A i \in Gap(s, e) : tape[i].at < tape[e].at => i \in L
  PROVE  Covers(e - 1, L)
<1>1. s.event \in Nat /\ e \in Nat /\ s.event >= 2 /\ s.event < e
  BY GapTrades DEF NextAfter
<1>2. \A i : i \in After(e - 1) <=> (i \in After(s.event) \/ i \in Gap(s, e))
  BY <1>1 DEF After, Gap
<1>3. \A i \in Gap(s, e) : i \in L \/ Unordered(i)
  <2> SUFFICES ASSUME NEW i \in Gap(s, e) PROVE i \in L \/ Unordered(i)
    OBVIOUS
  <2>1. tape[i].at \in Nat /\ tape[e].at \in Nat
    BY GapTrades, TapeTypes
  <2>2. tape[i].at <= tape[e].at /\ (tape[i].at = tape[e].at => Unordered(i))
    BY GapTrades
  <2>3. tape[i].at < tape[e].at \/ tape[i].at = tape[e].at
    BY <2>1, <2>2
  <2> QED BY <2>2, <2>3
<1> QED
  BY <1>2, <1>3 DEF Covers

(* The highest and the lowest price of a group of trades.                  *)
LEMMA GroupPrices ==
  ASSUME TapeOK, NEW H \in SUBSET DOMAIN tape, H # {}
  PROVE  /\ HighOf(H) \in Nat /\ LowOf(H) \in Nat
         /\ \A i \in H : LowOf(H) <= tape[i].price /\ tape[i].price <= HighOf(H)
         /\ \E i \in H : HighOf(H) = tape[i].price
<1> DEFINE A == {tape[i].price : i \in H}
<1>1. IsFiniteSet(H)
  BY TapeTypes, FS_Subset
<1>2. IsFiniteSet(A)
  <2> DEFINE f == [i \in H |-> tape[i].price]
  <2>1. f \in Surjection(H, A)
    BY DEF Surjection
  <2> HIDE DEF f
  <2> QED BY <1>1, <2>1, FS_Surjection
<1>3. A \in SUBSET Nat /\ A # {}
  BY TapeTypes
<1>4. Max(A) \in A /\ (\A y \in A : y <= Max(A)) /\ Min(A) \in A /\ (\A y \in A : Min(A) <= y)
  <2> HIDE DEF A
  <2> QED BY <1>2, <1>3, GreatestOf, LeastOf
<1>5. HighOf(H) = Max(A) /\ LowOf(H) = Min(A)
  BY DEF HighOf, LowOf
<1>6. \A i \in H : tape[i].price \in A
  OBVIOUS
<1>7. Max(A) \in Nat /\ Min(A) \in Nat
  <2> HIDE DEF A
  <2> QED BY <1>3, <1>4
<1>8. \E i \in H : Max(A) = tape[i].price
  BY <1>4
<1> HIDE DEF A
<1> QED
  BY <1>4, <1>5, <1>6, <1>7, <1>8

(* The times of the tape.                                                  *)
LEMMA TimesFinite ==
  ASSUME TapeOK
  PROVE  IsFiniteSet({tape[i].at : i \in DOMAIN tape}) /\ {tape[i].at : i \in DOMAIN tape} \in SUBSET Nat
<1> DEFINE A == {tape[i].at : i \in DOMAIN tape}
           f == [i \in DOMAIN tape |-> tape[i].at]
<1>1. f \in Surjection(DOMAIN tape, A)
  BY DEF Surjection
<1>2. IsFiniteSet(A)
  <2> HIDE DEF f, A
  <2> QED BY <1>1, TapeTypes, FS_Surjection
<1>3. A \in SUBSET Nat
  BY TapeTypes
<1> QED BY <1>2, <1>3

(* What has passed trades moves with the next price.                       *)
LEMMA HoldsMoves ==
  ASSUME NEW p, NEW K, Holds(p, K), NEW y \in Nat
  PROVE  Moved(Protected(p, y)) /\ p.side = "long"
<1>1. PICK b \in Nat : Like(p, b)
  BY DEF Holds
<1>2. Protected(p, y) = Shape(Higher(b, y)) /\ Higher(b, y) \in Nat
  BY <1>1, ProtectedLike, HigherIs
<1>3. p.side = "long"
  BY <1>1 DEF Like, AtEntry, Shape, Position
<1> QED BY <1>2, <1>3 DEF Moved

(* A position that has seen no price stands before the first event.        *)
LEMMA MovedOrFirst ==
  ASSUME TapeOK, NEW s, Tracks(s), NEW e, NextAfter(s, e)
  PROVE  Moved(s.p) \/ FirstEvent(e)
<1>1. s.event \in Nat /\ e \in Nat /\ e > s.event /\ s.event >= 2
  BY GapTrades DEF NextAfter
<1>2. CASE s.event = 2
  BY <1>1, <1>2 DEF NextAfter, FirstEvent
<1>3. CASE s.event # 2
  BY <1>3 DEF Tracks
<1> QED BY <1>2, <1>3

(* Where the trades of a gap decide it, the position has passed them all,  *)
(* but for those that nothing orders.                                      *)
LEMMA TradesDecide ==
  ASSUME TapeOK, EntryHolds, NEW s, Tracks(s), NEW e, NextAfter(s, e),
         Covered(s, e), ByTrades(s, e).sure
  PROVE  /\ \E L : Covers(e - 1, L) /\ Holds(ByTrades(s, e).p, L)
         /\ Moved(ByTrades(s, e).p) \/ FirstEvent(e)
<1>1. PICK K : Covers(s.event, K) /\ Holds(s.p, K) /\ InTime(K)
  BY DEF Tracks
<1> DEFINE n == s.event
           y == tape[n].price
           S == {tape[i].at : i \in DOMAIN tape}
           T == {at \in S : at > s.through /\ at < tape[e].at}
           G == Gap(s, e)
           Part(u) == K \cup {i \in G : tape[i].at = s.through \/ tape[i].at \in u}
           start == [p |-> s.p, sure |-> TRUE]
<1>2. /\ n \in DOMAIN tape /\ n \in Nat /\ n >= 2 /\ e \in DOMAIN tape /\ e \in Nat /\ e - 1 \in Nat
      /\ e <= Len(tape) /\ s.through \in Nat /\ s.through <= tape[e].at
      /\ \A i \in G : /\ i \in DOMAIN tape /\ n < i /\ i < e
                      /\ s.through <= tape[i].at /\ tape[i].at <= tape[e].at
                      /\ tape[i].at = tape[e].at => Unordered(i)
  BY GapTrades
<1>3. s.through = tape[n].at
  BY DEF Tracks
<1>4. /\ K \in SUBSET DOMAIN tape /\ y \in Nat /\ y <= Seen(K)
      /\ Line(Seen(K)) < y /\ y < Target
  BY <1>1, AnchorPasses
<1>5. \A j \in K : j \in Nat /\ 2 < j /\ j <= n
  <2> HIDE DEF n
  <2>1. n <= Len(tape)
    BY <1>2, TapeTypes
  <2> QED BY <1>1, <1>2, <2>1, CoversDomain DEF n
<1>6. T \in SUBSET Nat /\ IsFiniteSet(T)
  <2>1. S \in SUBSET Nat /\ IsFiniteSet(S)
    BY TimesFinite
  <2>2. T \in SUBSET S
    OBVIOUS
  <2> HIDE DEF S, T
  <2> QED BY <2>1, <2>2, FS_Subset
<1>7. PICK g : GroupsOf(g, start, T)
  <2> HIDE DEF T, start
  <2> QED BY <1>6, GroupsRun
<1>8. /\ g[T] = ByTrades(s, e) /\ g[{}] = start
      /\ \A u \in SUBSET T : u # {} => g[u] = ThroughGroup(g[u \ {Max(u)}], Max(u))
  BY <1>7 DEF GroupsOf, ByTrades
<1>9. \A u : Part(u) \in SUBSET DOMAIN tape
  BY <1>2, <1>4
<1>10. Holds(s.p, Part({}))
  <2> DEFINE H == {i \in G : tape[i].at = s.through}
  <2>1. H \in SUBSET DOMAIN tape /\ Part({}) = K \cup H
    BY <1>2
  <2>2. \A i \in H : tape[i].price = y
    BY <1>2 DEF Covered, TradesAt
  <2>3. \A j \in K \ H, i \in H : j < i
    BY <1>2, <1>5
  <2>4. PICK b \in Nat : Like(s.p, b) /\ b <= Seen(K) /\ Same(b, Seen(K))
    BY <1>1 DEF Holds
  <2> DEFINE c == Higher(b, y)
  <2> HIDE DEF H, n, y
  <2>5. c \in Nat /\ b <= c /\ c <= Seen(K) /\ Seen(K) \in Nat
    BY <1>4, <2>4, SeenIs, HigherIs
  <2>6. Same(b, c) /\ Same(c, Seen(K)) /\ Protected(s.p, y) = Shape(c)
    BY <1>4, <2>4, <2>5, SameBetween, ProtectedLike
  <2> HIDE DEF c
  <2>7. PriceExit(Protected(s.p, y), y) = NoExit
    BY <1>4, <2>5, <2>6, SameLine, ShapeExit
  <2> DEFINE L == K \cup H
  <2>8. L \in SUBSET DOMAIN tape /\ K \in SUBSET L /\ \A j \in L : j \in K \/ j \in H
    BY <1>4, <2>1
  <2>9. \A j \in H : tape[j].price <= y /\ PriceExit(Protected(s.p, y), tape[j].price) = NoExit
    BY <1>4, <2>2, <2>7
  <2> HIDE DEF L
  <2>10. Seen(K) \in Nat /\ Seen(L) \in Nat /\ EntryPrice <= Seen(K) /\ Seen(K) <= Seen(L)
         /\ \A j \in K : tape[j].price <= Seen(K)
    BY <1>4, <2>8, SeenIs, SeenGrows
  <2>11. Seen(L) = Seen(K)
    <3>1. \A j \in L : tape[j].price <= Seen(K)
      BY <1>4, <2>2, <2>8, <2>10
    <3>2. Seen(L) <= Seen(K)
      BY <2>8, <2>10, <3>1, SeenLeast
    <3> QED BY <2>10, <3>2
  <2>12. Holds(Protected(s.p, y), K \cup H)
    BY <1>1, <1>4, <2>1, <2>3, <2>9, <2>11, GroupPasses DEF L
  <2>13. Holds(s.p, L)
    BY <2>4, <2>11, <2>12 DEF Holds, L
  <2> QED BY <2>1, <2>13 DEF L
<1> DEFINE Good == {u \in SUBSET T : /\ g[u] = [p |-> g[u].p, sure |-> g[u].sure]
                                     /\ g[u].sure => /\ Holds(g[u].p, Part(u))
                                                     /\ Moved(g[u].p) \/ FirstEvent(e)}
<1>11. {} \in Good
  <2>1. Moved(s.p) \/ FirstEvent(e)
    BY MovedOrFirst
  <2> QED BY <1>8, <1>10, <2>1
<1>12. ASSUME NEW u \in SUBSET T, u # {}, \A x \in u : u \ {x} \in Good
       PROVE  u \in Good
  <2> DEFINE m == Max(u)
             v == u \ {m}
             H == TradesAt(m)
             r == g[v]
             h == HighOf(H)
             moved == Protected(r.p, h)
  <2>1. m \in u /\ \A x \in u : x <= m
    BY <1>6, <1>12, FS_Subset, GreatestOf
  <2>2. g[u] = ThroughGroup(r, m)
    BY <1>8, <1>12
  <2>3. v \in Good
    BY <1>12, <2>1
  <2> HIDE DEF m
  <2>4. m \in Nat /\ m > s.through /\ m < tape[e].at /\ m \in S
    BY <1>6, <2>1
  <2>5. H \in SUBSET G /\ H \in SUBSET DOMAIN tape /\ H # {} /\ \A i \in H : tape[i].at = m
    <3>1. H \in SUBSET DOMAIN tape /\ H # {} /\ \A i \in H : tape[i].at = m
      BY <2>4 DEF TradesAt
    <3>2. ASSUME NEW i \in H PROVE i \in G
      <4>1. i \in DOMAIN tape /\ i \in Nat /\ tape[i].at = m /\ tape[e].at \in Nat
        BY <1>2, <3>1, TapeTypes
      <4>2. ~(i <= n)
        <5>1. i <= n => tape[i].at <= tape[n].at
          BY <1>2, <4>1 DEF TapeOK, Sorted
        <5> HIDE DEF n
        <5> QED BY <1>2, <1>3, <2>4, <4>1, <5>1
      <4>3. ~(e <= i)
        <5>1. e <= i => tape[e].at <= tape[i].at
          BY <1>2, <4>1 DEF TapeOK, Sorted
        <5> QED BY <2>4, <4>1, <5>1
      <4> HIDE DEF n
      <4>4. i \in (n + 1)..(e - 1)
        BY <1>2, <4>1, <4>2, <4>3
      <4> QED BY <4>4 DEF Gap, n
    <3> HIDE DEF H, G
    <3> QED BY <3>1, <3>2
  <2>6. Part(u) = Part(v) \cup H
    <3>1. \A i \in G : tape[i].at \in u <=> (tape[i].at \in v \/ i \in H)
      BY <1>2, <2>1 DEF TradesAt
    <3> HIDE DEF G, v, H
    <3> QED BY <2>5, <3>1
  <2>7. \A j \in Part(v) \ H, i \in H : j < i
    <3> SUFFICES ASSUME NEW j \in Part(v) \ H, NEW i \in H PROVE j < i
      OBVIOUS
    <3>1. i \in DOMAIN tape /\ i \in Nat /\ tape[i].at = m /\ n < i
      BY <1>2, <2>5, TapeTypes
    <3>2. CASE j \in K
      BY <1>2, <1>5, <3>1, <3>2
    <3>3. CASE j \notin K
      <4>1. j \in G /\ (tape[j].at = s.through \/ tape[j].at \in v)
        BY <3>3
      <4>2. j \in DOMAIN tape /\ j \in Nat /\ tape[j].at \in Nat
        BY <1>2, <4>1, TapeTypes
      <4>3. tape[j].at < m
        <5>1. tape[j].at \in v => tape[j].at <= m /\ tape[j].at # m
          BY <2>1
        <5> HIDE DEF v, G
        <5> QED BY <1>2, <2>4, <4>1, <4>2, <5>1
      <4>4. i <= j => tape[i].at <= tape[j].at
        BY <3>1, <4>2 DEF TapeOK, Sorted
      <4> QED BY <2>4, <3>1, <4>2, <4>3, <4>4
    <3> QED BY <3>2, <3>3
  <2>8. /\ h \in Nat /\ \A i \in H : tape[i].price <= h
        /\ \E i \in H : h = tape[i].price
    <3> HIDE DEF H
    <3> QED BY <2>5, GroupPrices
  <2>9. h <= Seen(Part(v) \cup H)
    <3> DEFINE L == Part(v) \cup H
    <3>1. L \in SUBSET DOMAIN tape
      BY <1>9, <2>5
    <3>2. \A i \in H : i \in L
      OBVIOUS
    <3> HIDE DEF L, H, h
    <3>3. h <= Seen(L)
      BY <2>8, <3>1, <3>2, SeenIs
    <3> QED BY <3>3 DEF L
  <2>10. r = [p |-> r.p, sure |-> r.sure]
    BY <2>3
  <2>11. CASE ~r.sure \/ AnyExit(r.p, H) \/ AnyExit(Protected(r.p, IF r.p.side = "long" THEN h ELSE LowOf(H)), H)
    <3> HIDE DEF r, Part, H, h
    <3>1. g[u] = Unsure(r)
      BY <2>2, <2>11 DEF ThroughGroup, H, h
    <3>2. g[u] = [p |-> r.p, sure |-> FALSE]
      BY <2>10, <3>1, Zenon DEF Unsure
    <3> QED BY <3>2
  <2>12. CASE r.sure /\ ~AnyExit(Protected(r.p, IF r.p.side = "long" THEN h ELSE LowOf(H)), H)
              /\ ~AnyExit(r.p, H)
    <3>1. Holds(r.p, Part(v))
      BY <2>3, <2>12
    <3>2. r.p.side = "long"
      <4> HIDE DEF r, Part
      <4> QED BY <2>8, <3>1, HoldsMoves
    <3>3. ~AnyExit(moved, H)
      <4> HIDE DEF r, H, h
      <4> QED BY <2>12, <3>2
    <3>4. g[u] = [r EXCEPT !.p = moved]
      <4> HIDE DEF r, Part, H, h
      <4> QED BY <2>2, <2>12, <3>2 DEF ThroughGroup, H, h
    <3>5. g[u] = [p |-> moved, sure |-> r.sure]
      <4> HIDE DEF r, moved
      <4> QED BY <2>10, <3>4, Zenon
    <3>6. \A i \in H : tape[i].price <= h /\ PriceExit(Protected(r.p, h), tape[i].price) = NoExit
      <4> HIDE DEF r, H, h
      <4> QED BY <2>8, <3>3 DEF AnyExit
    <3>7. Part(v) \in SUBSET DOMAIN tape
      BY <1>9
    <3> HIDE DEF Part, H, h, r, v
    <3>8. Holds(moved, Part(v) \cup H)
      BY <2>5, <2>7, <2>8, <2>9, <3>1, <3>6, <3>7, GroupPasses
    <3>9. Holds(moved, Part(u))
      BY <2>6, <3>8
    <3>10. Moved(moved)
      BY <2>8, <3>1, HoldsMoves
    <3> HIDE DEF moved
    <3> QED BY <3>5, <3>9, <3>10
  <2> HIDE DEF r, Part, H, h
  <2> QED BY <2>11, <2>12
<1>13. T \in Good
  <2>1. Good \in SUBSET (SUBSET T)
    OBVIOUS
  <2> HIDE DEF Good, T
  <2> QED BY <1>6, <1>11, <1>12, <2>1, SetInduction
<1>14. Holds(ByTrades(s, e).p, Part(T)) /\ (Moved(ByTrades(s, e).p) \/ FirstEvent(e))
  <2> HIDE DEF T, Part
  <2> QED BY <1>8, <1>13
<1>15. Covers(e - 1, Part(T))
  <2>1. K \in SUBSET Part(T)
    OBVIOUS
  <2>2. ASSUME NEW i \in G, tape[i].at < tape[e].at PROVE i \in Part(T)
    <3>1. i \in DOMAIN tape /\ tape[i].at \in S /\ tape[i].at \in Nat /\ s.through <= tape[i].at
      BY <1>2, TapeTypes
    <3>3. tape[i].at = s.through \/ tape[i].at > s.through
      <4>1. tape[i].at \in Nat /\ s.through \in Nat /\ s.through <= tape[i].at
        BY <1>2, <3>1
      <4> QED BY <4>1
    <3>2. tape[i].at = s.through \/ tape[i].at \in T
      <4> HIDE DEF S
      <4> QED BY <2>2, <3>1, <3>3
    <3> HIDE DEF T, G
    <3> QED BY <3>2
  <2>3. Part(T) \in SUBSET (K \cup After(e - 1))
    <3>1. \A i \in G : i \in After(e - 1)
      <4> HIDE DEF n
      <4> QED BY <1>2 DEF After, Gap, n
    <3> HIDE DEF G
    <3> QED BY <3>1
  <2> HIDE DEF Part, T
  <2> QED BY <1>1, <2>1, <2>2, <2>3, GapCovered
<1> QED
  BY <1>14, <1>15

-----------------------------------------------------------------------------
(* A gap judged by its minutes.                                            *)

(* The minute of a time begins before it and ends after it.                *)
LEMMA MinuteBounds ==
  ASSUME NEW a \in Nat
  PROVE  /\ a \div MinuteLength \in Nat
         /\ (a \div MinuteLength) * MinuteLength <= a
         /\ a < (a \div MinuteLength + 1) * MinuteLength
<1> DEFINE L == MinuteLength
<1>1. L \in Nat /\ L > 0
  BY Numbers
<1> HIDE DEF L
<1>2. a = L * (a \div L) + (a % L) /\ a % L >= 0 /\ a % L < L /\ a \div L \in Int
  BY <1>1
<1>3. a \div L >= 0
  BY <1>1
<1> DEFINE k == a \div L
<1>4. k \in Nat /\ a % L \in Nat
  BY <1>1, <1>2, <1>3
<1> HIDE DEF k
<1>5. L * k = k * L /\ (k + 1) * L = k * L + L /\ k * L \in Nat
  BY <1>1, <1>4
<1>6. k * L <= a /\ a < (k + 1) * L
  BY <1>1, <1>2, <1>4, <1>5 DEF k
<1> QED
  BY <1>4, <1>6 DEF k, L

(* A minute that begins at a time or before is that of the time, or an     *)
(* earlier one.                                                            *)
LEMMA MinuteOrder ==
  ASSUME NEW a \in Nat, NEW k \in Nat
  PROVE  /\ k * MinuteLength \in Nat /\ (k + 1) * MinuteLength = k * MinuteLength + MinuteLength
         /\ k * MinuteLength <= a <=> k <= a \div MinuteLength
<1> DEFINE L == MinuteLength
           q == a \div L
<1>1. L \in Nat /\ L > 0
  BY Numbers
<1>2. q \in Nat /\ q * L <= a /\ a < (q + 1) * L
  BY MinuteBounds
<1> HIDE DEF q, L
<1>3. k * L \in Nat /\ (k + 1) * L = k * L + L
  BY <1>1
<1>4. ASSUME k <= q PROVE k * L <= q * L
  BY <1>1, <1>2, <1>4
<1>5. ASSUME q < k PROVE (q + 1) * L <= k * L
  <2>1. q + 1 <= k
    BY <1>2, <1>5
  <2> QED BY <1>1, <1>2, <2>1
<1>6. k <= q => k * L <= a
  <2>1. q * L \in Nat
    BY <1>1, <1>2
  <2> QED BY <1>2, <1>3, <1>4, <2>1
<1>7. q < k => ~(k * L <= a)
  <2>1. (q + 1) * L \in Nat
    BY <1>1, <1>2
  <2> QED BY <1>2, <1>3, <1>5, <2>1
<1>8. k <= q \/ q < k
  BY <1>2
<1>9. k * L <= a <=> k <= q
  BY <1>2, <1>6, <1>7, <1>8
<1> QED
  BY <1>3, <1>9 DEF q, L

Inside(k) == {i \in DOMAIN tape : tape[i].at \div MinuteLength = k}

(* The candle of a minute bounds its trades; one in which nothing traded   *)
(* repeats the last trade before it.                                       *)
LEMMA MinuteIs ==
  ASSUME TapeOK, NEW k \in Nat
  PROVE  /\ Minute(k).high \in Nat /\ Minute(k).low \in Nat /\ Minute(k).close \in Nat
         /\ Minute(k).close <= Minute(k).high
         /\ \A i \in Inside(k) : Minute(k).low <= tape[i].price /\ tape[i].price <= Minute(k).high
         /\ \/ \E i \in Inside(k) : Minute(k).high = tape[i].price
            \/ \E b \in DOMAIN tape :
                  /\ tape[b].at < k * MinuteLength /\ Minute(k).high = tape[b].price
                  /\ \A i \in DOMAIN tape : tape[i].at < k * MinuteLength => i <= b
                  /\ \A i \in DOMAIN tape : tape[i].at \div MinuteLength # k
<1> DEFINE I == Inside(k)
           B == {i \in DOMAIN tape : tape[i].at < k * MinuteLength}
           last == tape[Max(B)].price
<1>1. Minute(k) = IF I = {} THEN [open |-> last, high |-> last, low |-> last, close |-> last]
                  ELSE [open |-> tape[Min(I)].price, close |-> tape[Max(I)].price,
                        high |-> HighOf(I), low |-> LowOf(I)]
  BY DEF Minute, Inside
<1>2. I \in SUBSET DOMAIN tape /\ B \in SUBSET DOMAIN tape
  BY DEF Inside
<1>3. CASE I = {}
  <2>1. Minute(k).high = last /\ Minute(k).low = last /\ Minute(k).close = last
    <3> HIDE DEF I, last
    <3> QED BY <1>1, <1>3
  <2>2. k # 0
    <3> SUFFICES ASSUME k = 0 PROVE FALSE
      OBVIOUS
    <3>1. 1 \in DOMAIN tape /\ tape[1].at = 0
      BY TapeTypes DEF TapeOK
    <3>2. 0 \div MinuteLength = 0
      BY Numbers
    <3> QED BY <1>3, <3>1, <3>2 DEF Inside
  <2>3. 0 < k * MinuteLength
    <3>1. k * MinuteLength \in Nat
      BY MinuteOrder
    <3>2. k * MinuteLength # 0
      BY <2>2, Numbers
    <3> HIDE DEF last
    <3> QED BY <3>1, <3>2
  <2>4. 1 \in B
    BY <2>3, TapeTypes DEF TapeOK
  <2>5. B \in SUBSET Nat /\ IsFiniteSet(B)
    BY <1>2, TapeTypes, FS_Subset
  <2> DEFINE b == Max(B)
  <2>6. b \in B /\ \A i \in B : i <= b
    <3> HIDE DEF B
    <3> QED BY <2>4, <2>5, GreatestOf
  <2> HIDE DEF b
  <2>7. b \in DOMAIN tape /\ tape[b].at < k * MinuteLength
        /\ \A i \in DOMAIN tape : tape[i].at < k * MinuteLength => i <= b
    BY <2>6
  <2>8. Minute(k).high = tape[b].price /\ tape[b].price \in Nat /\ last = tape[b].price
    BY <2>1, <2>7, TapeTypes DEF b
  <2>9. \A i \in DOMAIN tape : tape[i].at \div MinuteLength # k
    BY <1>3 DEF Inside
  <2> HIDE DEF last, I, B
  <2> QED BY <1>3, <2>1, <2>7, <2>8, <2>9 DEF I
<1>4. CASE I # {}
  <2>1. Minute(k).high = HighOf(I) /\ Minute(k).low = LowOf(I) /\ Minute(k).close = tape[Max(I)].price
    <3> HIDE DEF I, last
    <3> QED BY <1>1, <1>4
  <2>2. Max(I) \in I
    <3>1. I \in SUBSET Nat /\ IsFiniteSet(I)
      BY <1>2, TapeTypes, FS_Subset
    <3> HIDE DEF I
    <3> QED BY <1>4, <3>1, GreatestOf
  <2> HIDE DEF I, last, B
  <2>3. /\ HighOf(I) \in Nat /\ LowOf(I) \in Nat
        /\ \A i \in I : LowOf(I) <= tape[i].price /\ tape[i].price <= HighOf(I)
        /\ \E i \in I : HighOf(I) = tape[i].price
    BY <1>2, <1>4, GroupPrices
  <2>4. tape[Max(I)].price \in Nat
    BY <1>2, <2>2, TapeTypes
  <2> QED BY <2>1, <2>2, <2>3, <2>4 DEF I
<1> QED BY <1>3, <1>4

(* A candle that ends nothing stays above the stops and below the target.  *)
LEMMA CandlePasses ==
  ASSUME NEW x \in Nat, NEW t \in Nat, NEW c, c.high \in Nat, c.low \in Nat,
         CandleExit(Position(x, t), c) = NoExit
  PROVE  LineOf(x, t) < c.low /\ c.high < Target
<1> DEFINE p == Position(x, t)
<1>1. StopAt(x) \in Int /\ t \in Nat /\ Target \in Nat /\ LineOf(x, t) \in Int
  BY StopsType, EntryNumbers DEF LineOf
<1>2. p.side = "long" /\ p.stop = StopAt(x) /\ p.trailing = t /\ p.take = Target
  BY DEF Position
<1>3. Protection(p).at = LineOf(x, t) /\ Protection(p).reason \in {"trailing-stop", "stop-loss"}
  <2>1. Better(p.side, p.trailing, p.stop) = t - StopAt(x)
    BY <1>1, <1>2 DEF Better, Direction
  <2>2. t - StopAt(x) > 0 <=> t > StopAt(x)
    BY <1>1
  <2> HIDE DEF p
  <2> QED BY <1>1, <1>2, <2>1, <2>2 DEF Protection, LineOf
<1>4. Protection(p) # NoExit
  <2> SUFFICES ASSUME Protection(p) = NoExit PROVE FALSE
    OBVIOUS
  <2>1. Protection(p).reason = NoExit.reason
    OBVIOUS
  <2> HIDE DEF p
  <2> QED BY <1>3, <2>1 DEF NoExit
<1>5. [at |-> p.take, reason |-> "take-profit"] # NoExit
  <2> SUFFICES ASSUME [at |-> p.take, reason |-> "take-profit"] = NoExit PROVE FALSE
    OBVIOUS
  <2>1. [at |-> p.take, reason |-> "take-profit"].reason = NoExit.reason
    OBVIOUS
  <2> QED BY <2>1 DEF NoExit
<1>6. Better(p.side, c.low, Protection(p).at) = c.low - LineOf(x, t)
      /\ Better(p.side, c.high, p.take) = c.high - Target
  <2> HIDE DEF p
  <2> QED BY <1>1, <1>2, <1>3 DEF Better, Direction
<1> HIDE DEF p
<1>7. AdverseExit(p, c) = NoExit /\ ~(Better(p.side, BestOf(p, c), p.take) >= 0)
  BY <1>5 DEF CandleExit, First, p
<1>8. ~(Better(p.side, c.low, Protection(p).at) <= 0)
  BY <1>2, <1>4, <1>7, Zenon DEF AdverseExit
<1>9. ~(Better(p.side, c.high, p.take) >= 0)
  BY <1>2, <1>7 DEF BestOf
<1> QED
  BY <1>1, <1>6, <1>8, <1>9

(* Without a protection of the account only that of the strategy counts.   *)
LEMMA StrategyAlone ==
  ASSUME GuardOff, NEW x \in Nat, NEW t \in Nat, NEW y \in Nat
  PROVE  Protect(Position(x, t), y, BreakEvenMove, TrailMove, TrailDistance, FALSE)
           = Protected(Position(x, t), y)
<1> DEFINE p == Position(x, t)
           q == Protect(p, y, BreakEvenMove, TrailMove, TrailDistance, FALSE)
           m == Best(p.side, p.best, y)
<1>1. p.side = "long" /\ p.best = Peak(x) /\ Peak(x) \in Nat
  BY StopsType DEF Position
<1>2. PICK S, T : q = [p EXCEPT !.best = m, !.stop = S, !.trailing = T]
  <2> HIDE DEF p, m
  <2> QED BY Zenon DEF Protect, m
<1>3. q = [side |-> "long", entry |-> EnteredAt, quantity |-> 1, stop |-> S, take |-> Target,
           trailing |-> T, best |-> m, entryFee |-> 1 * Fee, funding |-> 0, openedAt |-> 1]
  <2> HIDE DEF m, q
  <2> QED BY <1>2 DEF Position
<1>4. q.side = "long" /\ q.best = m /\ q.stop = S /\ q.trailing = T
  <2> HIDE DEF q, m
  <2> QED BY <1>3
<1> HIDE DEF q
<1>5. m = IF Peak(x) >= y THEN Peak(x) ELSE y
  <2>1. Peak(x) - y >= 0 <=> Peak(x) >= y
    BY <1>1
  <2> HIDE DEF p
  <2> QED BY <1>1, <2>1 DEF Best, Better, Direction
<1>6. Best(q.side, q.best, y) = m
  <2>1. m \in Nat /\ m >= y
    BY <1>1, <1>5
  <2> HIDE DEF m
  <2> QED BY <1>4, <2>1 DEF Best, Better, Direction
<1> DEFINE r == Protect(q, y, GuardEvenMove, GuardTrailMove, GuardDistance, TRUE)
<1>7. r = [q EXCEPT !.best = m, !.stop = q.stop, !.trailing = q.trailing]
  <2> HIDE DEF m
  <2> QED BY <1>6 DEF Protect, GuardOff
<1>8. [q EXCEPT !.best = m, !.stop = q.stop, !.trailing = q.trailing] = q
  <2> HIDE DEF m
  <2> QED BY <1>3, <1>4
<1>9. Protected(p, y) = r
  BY DEF Protected, q
<1> HIDE DEF r
<1>10. Protected(p, y) = q
  BY <1>7, <1>8, <1>9
<1> HIDE DEF p
<1> QED
  BY <1>10 DEF q, p

\* What a judgement of a gap says: if it is sure, K was passed, and the
\* position has seen a price unless the event e after the gap is the first.
Judged(r, K, e) ==
  r = [p |-> r.p, sure |-> r.sure] /\ (r.sure => Holds(r.p, K) /\ (Moved(r.p) \/ FirstEvent(e)))

(* What a price leaves as it is has the shape it is like.                  *)
LEMMA LikeStill ==
  ASSUME NEW p, NEW x \in Nat, Like(p, x), NEW y \in Nat, ~Changed(p, Shape(y))
  PROVE  p = Shape(x)
<1>1. CASE p = AtEntry /\ x = EntryPrice
  <2>1. TrailAt(y) = 0
    BY <1>1 DEF Changed, AtEntry, Shape, Position
  <2>2. TrailAt(EntryPrice) = 0
    BY <2>1, TrailLeast
  <2> QED BY <1>1, <2>2 DEF AtEntry, Shape
<1> QED BY <1>1 DEF Like

(* A minute that is decided is passed with its trades of the gap.          *)
LEMMA MinutePasses ==
  ASSUME TapeOK, recoveryModel = "strict" \/ GuardOff,
         NEW since \in Nat, NEW until \in Nat, NEW k \in Nat,
         NEW r, NEW K \in SUBSET DOMAIN tape, NEW H \in SUBSET Inside(k), NEW e, Judged(r, K, e),
         \A j \in K \ H, i \in H : j < i,
         (k * MinuteLength >= since /\ (k + 1) * MinuteLength <= until)
           => Minute(k).high <= Seen(K \cup H)
  PROVE  Judged(Through(since, until, r, k), K \cup H, e)
<1>0. r = [p |-> r.p, sure |-> r.sure] /\ (r.sure => Holds(r.p, K) /\ (Moved(r.p) \/ FirstEvent(e)))
  BY DEF Judged
<1> DEFINE c == Minute(k)
           t == Through(since, until, r, k)
           whole == k * MinuteLength >= since /\ (k + 1) * MinuteLength <= until
<1>1. /\ c.high \in Nat /\ c.low \in Nat /\ c.close \in Nat /\ c.close <= c.high
      /\ \A i \in Inside(k) : c.low <= tape[i].price /\ tape[i].price <= c.high
  BY MinuteIs
<1>2. H \in SUBSET DOMAIN tape
  BY DEF Inside
<1>3. k * MinuteLength \in Nat /\ (k + 1) * MinuteLength \in Nat
  BY MinuteOrder, Numbers
<1> HIDE DEF c
<1>4. CASE t = Unsure(r)
  <2>1. t = [p |-> r.p, sure |-> FALSE]
    <3> HIDE DEF t
    <3> QED BY <1>0, <1>4, Zenon DEF Unsure
  <2> HIDE DEF t
  <2>2. t.sure = FALSE /\ t.p = r.p
    BY <2>1
  <2>3. t = [p |-> t.p, sure |-> t.sure]
    BY <2>1, <2>2
  <2> QED BY <2>2, <2>3 DEF t, Judged
<1>5. CASE ~r.sure
  <2>1. t = Unsure(r)
    BY <1>5 DEF Through, ThroughMinute, ThroughLegacyMinute
  <2> QED BY <1>4, <2>1
<1>6. CASE r.sure /\ t # Unsure(r)
  <2>1. Holds(r.p, K)
    BY <1>0, <1>6
  <2>2. PICK b \in Nat : Like(r.p, b) /\ b <= Seen(K) /\ Same(b, Seen(K))
    BY <2>1 DEF Holds
  <2> DEFINE q == Protected(r.p, c.high)
             d == Higher(b, c.high)
  <2>3. r.p.side = "long"
    BY <1>1, <2>1, HoldsMoves
  <2>17. PICK l \in {0, TrailAt(b)} : r.p = Position(b, l)
    BY <2>2 DEF Like, AtEntry, Shape
  <2>18. l \in Nat
    BY <2>17, StopsType
  <2>4. BestOf(r.p, c) = c.high
    BY <2>3 DEF BestOf
  <2>5. q = Shape(d) /\ d \in Nat
    <3> DEFINE h == c.high
    <3>1. h \in Nat
      BY <1>1
    <3> HIDE DEF h
    <3>2. Protected(r.p, h) = Shape(Higher(b, h)) /\ Higher(b, h) \in Nat
      BY <2>2, <3>1, ProtectedLike, HigherIs
    <3> QED BY <2>2, <3>2 DEF h
  <2>6. q.side = "long" /\ WorstOf(q, c) = c.low
    <3> HIDE DEF q, d
    <3> QED BY <2>5 DEF Shape, Position, WorstOf
  <2>7. recoveryModel # "strict"
          => Protect(r.p, c.high, BreakEvenMove, TrailMove, TrailDistance, FALSE) = q
    <3> DEFINE h == c.high
    <3>1. h \in Nat /\ r.p = Position(b, l)
      BY <1>1, <2>17
    <3> HIDE DEF h
    <3>2. GuardOff => Protect(Position(b, l), h, BreakEvenMove, TrailMove, TrailDistance, FALSE)
                        = Protected(Position(b, l), h)
      BY <2>18, <3>1, StrategyAlone
    <3> QED BY <3>1, <3>2 DEF h
  <2> HIDE DEF q, d
  <2> DEFINE passed == PriceExit(q, c.low) = NoExit
             moved == Changed(r.p, q)
             settled == [r EXCEPT !.p = Protected(q, c.close)]
             adopted == [r EXCEPT !.p = q]
  <2>8. CandleExit(r.p, c) = NoExit
    <3>1. CASE recoveryModel = "strict"
      BY <1>6, <3>1 DEF Through, ThroughMinute, c
    <3>2. CASE recoveryModel # "strict"
      BY <1>6, <3>2 DEF Through, ThroughLegacyMinute, c
    <3> QED BY <3>1, <3>2
  <2>9. (t = r /\ ~moved) \/ (t = settled /\ passed /\ whole) \/ (t = adopted /\ passed /\ whole)
    <3>1. CASE recoveryModel = "strict"
      <4>1. t = ThroughMinute(r, k, since, until)
        BY <3>1 DEF Through
      <4>2. ~(~r.sure \/ (k + 1) * MinuteLength > until \/ CandleExit(r.p, c) # NoExit)
        BY <1>6, <4>1 DEF ThroughMinute, c
      <4>3. t = IF k * MinuteLength < since THEN ThroughPartial(r, q)
                ELSE IF ~passed THEN Unsure(r) ELSE settled
        <5> HIDE DEF settled, t
        <5> QED BY <2>4, <2>6, <4>1, <4>2 DEF ThroughMinute, c, settled, q
      <4>4. (k + 1) * MinuteLength <= until
        BY <1>3, <4>2
      <4>5. CASE k * MinuteLength < since
        <5> HIDE DEF settled, t
        <5> QED BY <1>6, <4>3, <4>5 DEF ThroughPartial
      <4>6. CASE ~(k * MinuteLength < since)
        <5>1. k * MinuteLength >= since
          BY <1>3, <4>6
        <5> HIDE DEF settled, t
        <5> QED BY <1>6, <4>3, <4>4, <4>6, <5>1
      <4> QED BY <4>5, <4>6
    <3>2. CASE recoveryModel # "strict"
      <4>1. t = ThroughLegacyMinute(r, k, since, until)
        BY <3>2 DEF Through
      <4>2. t = IF ~r.sure \/ CandleExit(r.p, c) # NoExit \/ (~whole /\ moved) \/ ~passed
                THEN Unsure(r) ELSE IF whole THEN adopted ELSE r
        <5> HIDE DEF adopted, t
        <5> QED BY <2>4, <2>6, <2>7, <3>2, <4>1 DEF ThroughLegacyMinute, c, adopted
      <4> HIDE DEF adopted, t, whole
      <4> QED BY <1>6, <4>2
    <3> QED BY <3>1, <3>2
  <2>10. LineOf(b, l) < c.low /\ c.high < Target
    BY <1>1, <2>8, <2>17, <2>18, CandlePasses
  <2>11. Line(d) < c.low
    <3>1. CASE passed
      BY <1>1, <2>5, <3>1, ShapeExit
    <3>2. CASE ~moved
      <4>1. Same(b, d) /\ r.p = Shape(b)
        BY <2>2, <2>5, <3>2, LikeUnchanged, LikeStill
      <4>2. l = TrailAt(b)
        BY <2>17, <4>1 DEF Shape, Position
      <4> QED BY <2>10, <4>1, <4>2, SameLine DEF Line
    <3> QED BY <2>9, <3>1, <3>2
  <2>12. ASSUME NEW j \in H
         PROVE  tape[j].price <= c.high /\ PriceExit(Protected(r.p, c.high), tape[j].price) = NoExit
    <3>1. tape[j].price \in Nat /\ c.low <= tape[j].price /\ tape[j].price <= c.high
      BY <1>1, <1>2, TapeTypes
    <3>2. Line(d) \in Int /\ Target \in Nat
      BY <2>5, StopsType, EntryNumbers DEF Line, LineOf
    <3>3. Line(d) < tape[j].price /\ tape[j].price < Target
      BY <1>1, <2>10, <2>11, <3>1, <3>2
    <3> QED BY <2>5, <3>1, <3>3, ShapeExit DEF q
  <2>19. Moved(q)
    BY <2>5 DEF Moved
  <2>13. /\ c.high <= Seen(K \cup H) => Holds(q, K \cup H)
         /\ ~moved => Holds(r.p, K \cup H)
    BY <1>1, <1>2, <2>1, <2>12, GroupPasses DEF q
  <2>14. CASE t = r /\ ~moved
    <3>1. Holds(r.p, K \cup H)
      BY <2>13, <2>14
    <3> HIDE DEF t
    <3>2. Holds(t.p, K \cup H) /\ t = [p |-> t.p, sure |-> t.sure] /\ (Moved(t.p) \/ FirstEvent(e))
      BY <1>0, <1>6, <2>14, <3>1
    <3> QED BY <3>2 DEF t, Judged
  <2>15. CASE t = adopted /\ whole
    <3>1. Holds(q, K \cup H)
      BY <2>13, <2>15 DEF c
    <3>2. t = [p |-> q, sure |-> r.sure]
      <4> HIDE DEF t, whole
      <4> QED BY <1>0, <2>15, Zenon
    <3> HIDE DEF t
    <3>3. t.p = q /\ t.sure = r.sure
      BY <3>2
    <3>4. Holds(t.p, K \cup H) /\ t = [p |-> t.p, sure |-> t.sure] /\ Moved(t.p)
      BY <2>19, <3>1, <3>2, <3>3
    <3> QED BY <3>4 DEF t, Judged
  <2>16. CASE t = settled /\ whole
    <3>1. Holds(q, K \cup H) /\ c.high <= Seen(K \cup H)
      BY <2>13, <2>16 DEF c
    <3>2. c.close <= Seen(K \cup H) /\ K \cup H \in SUBSET DOMAIN tape
      BY <1>1, <1>2, <3>1, SeenIs
    <3> DEFINE L == K \cup H
               N == {}
    <3>3. L \cup N = L /\ N \in SUBSET DOMAIN tape /\ (\A j \in L \ N, i \in N : j < i)
          /\ \A j \in N : tape[j].price <= c.close /\ PriceExit(Protected(q, c.close), tape[j].price) = NoExit
      OBVIOUS
    <3> HIDE DEF L, N
    <3>4. Holds(Protected(q, c.close), L \cup N)
      BY <1>1, <3>1, <3>2, <3>3, GroupPasses DEF L
    <3>5. Holds(Protected(q, c.close), K \cup H)
      BY <3>3, <3>4 DEF L
    <3>6. t = [p |-> Protected(q, c.close), sure |-> r.sure]
      <4> HIDE DEF t, whole
      <4> QED BY <1>0, <2>16, Zenon
    <3> HIDE DEF t
    <3>7. t.p = Protected(q, c.close) /\ t.sure = r.sure
      BY <3>6
    <3>9. Moved(Protected(q, c.close))
      BY <1>1, <3>1, HoldsMoves
    <3>8. Holds(t.p, K \cup H) /\ t = [p |-> t.p, sure |-> t.sure] /\ Moved(t.p)
      BY <3>5, <3>6, <3>7, <3>9
    <3> QED BY <3>8 DEF t, Judged
  <2> QED BY <2>9, <2>14, <2>15, <2>16
<1> QED
  BY <1>4, <1>5, <1>6

(* Where the minutes of a gap decide it, the position has passed its       *)
(* trades, but for those that nothing orders.                              *)
LEMMA MinutesDecide ==
  ASSUME TapeOK, EntryHolds, recoveryModel = "strict" \/ GuardOff,
         NEW s, Tracks(s), NEW e, NextAfter(s, e), ByMinutes(s, e).sure
  PROVE  /\ \E L : Covers(e - 1, L) /\ Holds(ByMinutes(s, e).p, L)
         /\ Moved(ByMinutes(s, e).p) \/ FirstEvent(e)
<1>1. PICK K : Covers(s.event, K) /\ Holds(s.p, K) /\ InTime(K)
  BY DEF Tracks
<1> DEFINE n == s.event
           since == s.through
           until == tape[e].at
           G == Gap(s, e)
           Q == After(e - 1)
           minute(j) == tape[j].at \div MinuteLength
           M == (since \div MinuteLength)..((until - 1) \div MinuteLength)
           Part(u) == K \cup {j \in Q : minute(j) \in u /\ (j > n \/ minute(j) * MinuteLength >= since)}
           start == [p |-> s.p, sure |-> TRUE]
<1>9. Moved(s.p) \/ FirstEvent(e)
  BY MovedOrFirst
<1>2. /\ n \in DOMAIN tape /\ n \in Nat /\ n >= 2 /\ e \in DOMAIN tape /\ e \in Nat /\ e - 1 \in Nat
      /\ e <= Len(tape) /\ since \in Nat /\ until \in Nat /\ since <= until /\ QuoteTime(s, e) = until
      /\ \A i \in G : /\ i \in DOMAIN tape /\ n < i /\ i < e
                      /\ since <= tape[i].at /\ tape[i].at <= until
  BY GapTrades, TapeTypes
<1>3. since = tape[n].at /\ n < e
  BY DEF Tracks, NextAfter
<1>4. K \in SUBSET DOMAIN tape /\ tape[n].price <= Seen(K)
  BY <1>1, AnchorPasses
<1>5. \A j \in K : j \in Nat /\ 2 < j /\ j <= n
  <2> HIDE DEF n
  <2>1. n <= Len(tape)
    BY <1>2, TapeTypes
  <2> QED BY <1>1, <1>2, <2>1, CoversDomain DEF n
<1>6. \A j \in Q : j \in DOMAIN tape /\ j \in Nat /\ 2 < j /\ j < e
  BY <1>2, TapeTypes DEF After
<1>7. CASE since = until
  <2>1. ByMinutes(s, e).p = s.p
    BY <1>2, <1>7 DEF ByMinutes
  <2>2. ASSUME NEW i \in G, tape[i].at < until PROVE i \in K
    <3> DEFINE a == tape[i].at
               z == until
    <3>1. a \in Nat /\ z \in Nat /\ z <= a /\ a < z
      BY <1>2, <1>7, <2>2, TapeTypes
    <3> HIDE DEF a, z
    <3> QED BY <3>1
  <2>3. Covers(e - 1, K)
    BY <1>1, <2>2, GapCovered
  <2> QED BY <1>1, <1>9, <2>1, <2>3
<1>8. CASE since # until
  <2>1. until - 1 \in Nat
    BY <1>2, <1>8
  <2>2. since \div MinuteLength \in Nat /\ (until - 1) \div MinuteLength \in Nat
    <3> HIDE DEF since, until
    <3> QED BY <1>2, <2>1, MinuteBounds
  <2>3. M \in SUBSET Nat /\ IsFiniteSet(M)
    <3> HIDE DEF since, until
    <3> QED BY <2>2, FS_Interval
  <2>4. PICK g : MinutesOf(g, s, e, M)
    <3>1. M = (s.through \div MinuteLength)..((QuoteTime(s, e) - 1) \div MinuteLength)
      BY <1>2
    <3>2. QuoteTime(s, e) # s.through
      BY <1>2, <1>8
    <3> HIDE DEF M
    <3> QED BY <2>3, <3>1, <3>2, MinutesRun
  <2>5. /\ g[M] = ByMinutes(s, e) /\ g[{}] = start
        /\ \A u \in SUBSET M : u # {} => g[u] = Through(since, until, g[u \ {Max(u)}], Max(u))
    BY <1>2, <2>4 DEF MinutesOf
  <2>6. \A u : Part(u) \in SUBSET DOMAIN tape
    BY <1>4, <1>6
  <2>7. \A j \in DOMAIN tape : /\ j \in Nat /\ tape[j].at \in Nat /\ minute(j) \in Nat
                               /\ minute(j) * MinuteLength <= tape[j].at
                               /\ tape[j].at < (minute(j) + 1) * MinuteLength
    BY TapeTypes, MinuteBounds
  <2> DEFINE Initial(u) == \A x \in u, z \in M : z <= x => z \in u
             Good == {u \in SUBSET M : Initial(u) => Judged(g[u], Part(u), e)}
  <2>8. {} \in Good
    <3>1. Part({}) = K
      OBVIOUS
    <3>2. g[{}] = start /\ start.p = s.p
      BY <2>5
    <3>3. Judged(g[{}], K, e)
      <4> HIDE DEF M
      <4> QED BY <1>1, <1>9, <3>2 DEF Judged
    <3> HIDE DEF start, M
    <3> QED BY <3>1, <3>3
  <2>9. ASSUME NEW u \in SUBSET M, u # {}, \A x \in u : u \ {x} \in Good
        PROVE  u \in Good
    <3> DEFINE m == Max(u)
               v == u \ {m}
               r == g[v]
               H == {j \in Q : minute(j) = m /\ (j > n \/ m * MinuteLength >= since)}
    <3>1. m \in u /\ \A x \in u : x <= m
      BY <2>3, <2>9, FS_Subset, GreatestOf
    <3>2. g[u] = Through(since, until, r, m)
      BY <2>5, <2>9
    <3>3. v \in Good
      BY <2>9, <3>1
    <3> HIDE DEF m
    <3>4. m \in Nat /\ m \in M /\ u \in SUBSET Nat /\ v \in SUBSET Nat
      <4> HIDE DEF M
      <4> QED BY <2>3, <3>1
    <3> SUFFICES ASSUME Initial(u)
                 PROVE  Judged(g[u], Part(u), e)
      OBVIOUS
    <3>5. Initial(v)
      <4> SUFFICES ASSUME NEW x \in v, NEW z \in M, z <= x PROVE z \in v
        OBVIOUS
      <4>1. x \in u /\ x \in Nat /\ z \in Nat /\ x <= m /\ x # m
        <5> HIDE DEF M
        <5> QED BY <2>3, <3>1, <3>4
      <4>2. z \in u /\ z # m
        <5> HIDE DEF M
        <5> QED BY <3>4, <4>1
      <4> QED BY <4>2
    <3>6. Judged(r, Part(v), e)
      BY <3>3, <3>5
    <3>7. Part(u) = Part(v) \cup H
      <4>1. \A j \in Q : minute(j) \in u <=> (minute(j) \in v \/ minute(j) = m)
        BY <3>1
      <4> HIDE DEF v, Q, minute, n, since
      <4> QED BY <4>1
    <3>8. H \in SUBSET Inside(m) /\ H \in SUBSET DOMAIN tape
      <4> HIDE DEF Q, n, since
      <4> QED BY <1>6 DEF Inside
    <3>9. ASSUME NEW j \in Part(v) \ H, NEW i \in H PROVE j < i
      <4> DEFINE a == tape[i].at
                 b == tape[j].at
      <4>1. i \in DOMAIN tape /\ j \in DOMAIN tape /\ i \in Q /\ minute(i) = m /\ (i > n \/ m * MinuteLength >= since)
        BY <1>4, <1>6
      <4>2. i \in Nat /\ j \in Nat /\ a \in Nat /\ b \in Nat /\ minute(j) \in Nat
            /\ m * MinuteLength <= a /\ m * MinuteLength \in Nat
        BY <2>7, <3>4, <4>1, MinuteOrder
      <4>3. ASSUME minute(j) < m PROVE j < i
        <5>1. ~(m * MinuteLength <= b)
          <6>1. ~(m <= minute(j))
            BY <3>4, <4>2, <4>3
          <6> QED BY <3>4, <4>2, <6>1, MinuteOrder
        <5>2. i <= j => a <= b
          BY <4>1 DEF TapeOK, Sorted
        <5> HIDE DEF a, b
        <5> QED BY <4>2, <5>1, <5>2
      <4>4. CASE j \in K
        <5>1. j <= n /\ 2 < j
          BY <1>5, <4>4
        <5>2. CASE i > n
          <6> HIDE DEF n
          <6> QED BY <1>2, <4>2, <5>1, <5>2
        <5>3. CASE m * MinuteLength >= since
          <6>1. j \in Q
            <7> HIDE DEF n
            <7> QED BY <1>2, <1>3, <4>2, <5>1 DEF After, n
          <6>2. minute(j) # m
            BY <5>3, <6>1
          <6>3. b <= since
            BY <1>2, <1>3, <4>1, <5>1 DEF TapeOK, Sorted
          <6>4. ~(m + 1 <= minute(j))
            <7>1. (m + 1) * MinuteLength \in Nat /\ (m + 1) * MinuteLength = m * MinuteLength + MinuteLength
                  /\ MinuteLength \in Nat /\ MinuteLength > 0 /\ m + 1 \in Nat
              BY <3>4, MinuteOrder, Numbers
            <7>2. ~((m + 1) * MinuteLength <= b)
              <8> HIDE DEF since, b
              <8> QED BY <1>2, <4>2, <5>3, <6>3, <7>1
            <7> QED BY <4>2, <7>1, <7>2, MinuteOrder
          <6>5. minute(j) < m
            <7> HIDE DEF minute
            <7> QED BY <3>4, <4>2, <6>2, <6>4
          <6> QED BY <4>3, <6>5
        <5> QED BY <4>1, <5>2, <5>3
      <4>5. CASE j \notin K
        <5>1. minute(j) \in v
          BY <4>5
        <5>2. minute(j) \in u /\ minute(j) <= m /\ minute(j) # m
          BY <3>1, <5>1
        <5>3. minute(j) < m
          <6> HIDE DEF minute
          <6> QED BY <3>4, <4>2, <5>2
        <5> QED BY <4>3, <5>3
      <4> QED BY <4>4, <4>5
    <3>10. ASSUME m * MinuteLength >= since, (m + 1) * MinuteLength <= until
           PROVE  Minute(m).high <= Seen(Part(v) \cup H)
      <4> DEFINE L == Part(v) \cup H
      <4>1. L \in SUBSET DOMAIN tape /\ K \in SUBSET L
        BY <2>6, <3>8
      <4>2. /\ Seen(L) \in Nat /\ EntryPrice <= Seen(L) /\ Seen(K) \in Nat /\ Seen(K) <= Seen(L)
            /\ \A i \in L : tape[i].price <= Seen(L)
        <5> HIDE DEF L
        <5> QED BY <1>4, <4>1, SeenIs, SeenGrows
      <4>3. m * MinuteLength \in Nat /\ (m + 1) * MinuteLength \in Nat /\ MinuteLength \in Nat
            /\ MinuteLength > 0 /\ (m + 1) * MinuteLength = m * MinuteLength + MinuteLength /\ m + 1 \in Nat
        BY <3>4, MinuteOrder, Numbers
      <4>4. ASSUME NEW i \in DOMAIN tape, tape[i].at < until PROVE i < e
        <5>1. e <= i => tape[e].at <= tape[i].at
          BY <1>2 DEF TapeOK, Sorted
        <5>2. i \in Nat /\ tape[i].at \in Nat
          BY TapeTypes
        <5> DEFINE a == tape[i].at
        <5> HIDE DEF until
        <5>3. until = tape[e].at
          BY DEF until
        <5> HIDE DEF a
        <5> QED BY <1>2, <4>4, <5>1, <5>2, <5>3
      <4>5. CASE \E i \in Inside(m) : Minute(m).high = tape[i].price
        <5>1. PICK i \in Inside(m) : Minute(m).high = tape[i].price
          BY <4>5
        <5>2. i \in DOMAIN tape /\ minute(i) = m
          BY DEF Inside
        <5> DEFINE a == tape[i].at
        <5>3. i \in Nat /\ a \in Nat /\ m * MinuteLength <= a /\ a < (m + 1) * MinuteLength
          BY <2>7, <5>2
        <5>4. a < until
          <6> HIDE DEF a, until
          <6> QED BY <1>2, <3>10, <4>3, <5>3
        <5>5. i < e
          BY <4>4, <5>2, <5>4
        <5>6. i # 1
          <6> SUFFICES ASSUME i = 1 PROVE FALSE
            OBVIOUS
          <6>1. a = 0
            BY DEF TapeOK
          <6>2. tape[2].at = 1 /\ 2 \in DOMAIN tape
            BY TapeTypes DEF TapeOK
          <6>3. tape[2].at <= tape[n].at
            BY <1>2, <6>2 DEF TapeOK, Sorted
          <6>4. 1 <= since
            BY <1>3, <6>2, <6>3
          <6> HIDE DEF since, a
          <6> QED BY <1>2, <3>10, <4>3, <5>3, <6>1, <6>4
        <5>7. CASE i = 2
          <6>1. tape[i].price = EntryPrice
            BY <5>7 DEF TapeOK
          <6> HIDE DEF L
          <6> QED BY <4>2, <5>1, <6>1 DEF L
        <5>8. CASE i # 2
          <6>1. i >= 1
            BY <5>2, TapeTypes
          <6>2. i \in Q
            BY <1>2, <5>3, <5>5, <5>6, <5>8, <6>1 DEF After
          <6>3. i \in L
            <7>1. i \in H
              BY <3>10, <5>2, <6>2
            <7> QED BY <7>1
          <6> HIDE DEF L
          <6>4. Minute(m).high <= Seen(L)
            BY <4>2, <5>1, <6>3
          <6> QED BY <6>4 DEF L
        <5> QED BY <5>7, <5>8
      <4>6. CASE \E b \in DOMAIN tape :
                   /\ tape[b].at < m * MinuteLength /\ Minute(m).high = tape[b].price
                   /\ \A i \in DOMAIN tape : tape[i].at < m * MinuteLength => i <= b
                   /\ \A i \in DOMAIN tape : tape[i].at \div MinuteLength # m
        <5>1. PICK b \in DOMAIN tape :
                   /\ tape[b].at < m * MinuteLength /\ Minute(m).high = tape[b].price
                   /\ \A i \in DOMAIN tape : tape[i].at < m * MinuteLength => i <= b
                   /\ \A i \in DOMAIN tape : tape[i].at \div MinuteLength # m
          BY <4>6
        <5> DEFINE a == tape[b].at
        <5>2. b \in Nat /\ a \in Nat /\ minute(b) \in Nat
          BY <2>7
        <5>3. n <= b
          <6>1. tape[n].at < m * MinuteLength
            <7>1. minute(n) # m
              BY <1>2, <5>1
            <7>2. minute(n) \in Nat
              BY <1>2, <2>7
            <7>3. m * MinuteLength <= since <=> m <= minute(n)
              BY <1>2, <1>3, <3>4, MinuteOrder
            <7>4. (m + 1) * MinuteLength <= since <=> m + 1 <= minute(n)
              BY <1>2, <1>3, <4>3, MinuteOrder
            <7>5. ~(m + 1 <= minute(n))
              <8> HIDE DEF since, minute
              <8> QED BY <1>2, <3>10, <4>3, <7>4
            <7>6. ~(m <= minute(n))
              <8> HIDE DEF minute
              <8> QED BY <3>4, <7>1, <7>2, <7>5
            <7> HIDE DEF since, minute
            <7>7. since < m * MinuteLength
              BY <1>2, <4>3, <7>3, <7>6
            <7> QED BY <1>3, <7>7
          <6> QED BY <1>2, <5>1, <6>1
        <5>4. CASE b = n
          <6>1. tape[n].price \in Nat /\ Minute(m).high = tape[n].price
            BY <1>2, <5>1, <5>4, TapeTypes
          <6> DEFINE y == tape[n].price
          <6>2. y \in Nat /\ y <= Seen(K) /\ Minute(m).high = y
            BY <1>4, <6>1
          <6> HIDE DEF L, y
          <6>3. Minute(m).high <= Seen(L)
            BY <4>2, <6>2
          <6> QED BY <6>3 DEF L
        <5>5. CASE b # n
          <6>1. b > n /\ b > 2
            <7> HIDE DEF n
            <7> QED BY <1>2, <5>2, <5>3, <5>5
          <6>2. a < until
            <7> HIDE DEF a, until
            <7>1. a < m * MinuteLength
              BY <5>1 DEF a
            <7> QED BY <1>2, <3>10, <4>3, <5>2, <7>1
          <6>3. b < e
            BY <4>4, <5>1, <6>2
          <6>4. b \in Q
            BY <1>2, <5>2, <6>1, <6>3 DEF After
          <6>5. minute(b) < m
            <7>1. m * MinuteLength <= a <=> m <= minute(b)
              BY <3>4, <5>2, MinuteOrder
            <7>2. ~(m * MinuteLength <= a)
              BY <4>3, <5>1, <5>2
            <7> HIDE DEF minute
            <7> QED BY <3>4, <5>2, <7>1, <7>2
          <6>6. since \div MinuteLength <= minute(b)
            <7> DEFINE l == since \div MinuteLength
            <7>1. l \in Nat /\ l * MinuteLength <= since
              BY <1>2, MinuteBounds
            <7>2. since <= a
              BY <1>2, <1>3, <5>1, <5>3 DEF TapeOK, Sorted
            <7>3. l * MinuteLength <= a <=> l <= minute(b)
              <8> HIDE DEF l
              <8> QED BY <5>2, <7>1, MinuteOrder
            <7>4. l * MinuteLength \in Nat
              <8> HIDE DEF l
              <8> QED BY <7>1, MinuteOrder
            <7> HIDE DEF l, a, since, minute
            <7>5. l <= minute(b)
              BY <1>2, <5>2, <7>1, <7>2, <7>3, <7>4
            <7> QED BY <7>5 DEF l
          <6>7. minute(b) \in M
            <7> DEFINE l == since \div MinuteLength
                       z == (until - 1) \div MinuteLength
            <7>1. l \in Nat /\ z \in Nat /\ m \in l..z
              BY <2>2, <3>4
            <7>2. l <= minute(b)
              BY <6>6
            <7> HIDE DEF l, z, minute
            <7>3. minute(b) \in l..z
              BY <3>4, <5>2, <6>5, <7>1, <7>2
            <7> QED BY <7>3 DEF l, z
          <6>8. minute(b) \in v
            <7>1. minute(b) <= m /\ minute(b) # m
              <8> HIDE DEF minute
              <8> QED BY <3>4, <5>2, <6>5
            <7> HIDE DEF minute, M
            <7> QED BY <3>1, <6>7, <7>1
          <6>9. b \in L
            <7>1. b \in Part(v)
              BY <6>1, <6>4, <6>8
            <7> QED BY <7>1
          <6> HIDE DEF L
          <6>10. Minute(m).high <= Seen(L)
            BY <4>2, <5>1, <6>9
          <6> QED BY <6>10 DEF L
        <5> QED BY <5>4, <5>5
      <4> QED BY <3>4, <4>5, <4>6, MinuteIs
    <3>11. Part(v) \in SUBSET DOMAIN tape
      BY <2>6
    <3> DEFINE P == Part(v)
    <3>12. /\ P \in SUBSET DOMAIN tape /\ Judged(r, P, e) /\ (\A j \in P \ H, i \in H : j < i)
           /\ (m * MinuteLength >= since /\ (m + 1) * MinuteLength <= until) => Minute(m).high <= Seen(P \cup H)
           /\ Part(u) = P \cup H
      BY <3>6, <3>7, <3>9, <3>10, <3>11
    <3> HIDE DEF P, Part, H, r, since, until, v, M
    <3>13. Judged(Through(since, until, r, m), P \cup H, e)
      BY <1>2, <3>4, <3>8, <3>12, MinutePasses
    <3> QED BY <3>2, <3>12, <3>13
  <2>10. M \in Good
    <3>1. Good \in SUBSET (SUBSET M)
      OBVIOUS
    <3> HIDE DEF Good, M
    <3> QED BY <2>3, <2>8, <2>9, <3>1, SetInduction
  <2>11. Holds(ByMinutes(s, e).p, Part(M)) /\ (Moved(ByMinutes(s, e).p) \/ FirstEvent(e))
    <3>1. Initial(M)
      OBVIOUS
    <3> HIDE DEF M, Part
    <3> QED BY <2>5, <2>10, <3>1 DEF Judged
  <2>12. Covers(e - 1, Part(M))
    <3>1. K \in SUBSET Part(M)
      OBVIOUS
    <3>2. ASSUME NEW i \in G, tape[i].at < tape[e].at PROVE i \in Part(M)
      <4> DEFINE a == tape[i].at
                 l == since \div MinuteLength
                 z == (until - 1) \div MinuteLength
      <4>1. i \in DOMAIN tape /\ n < i /\ i < e /\ since <= a /\ a < until
        BY <1>2, <3>2
      <4>2. i \in Nat /\ a \in Nat /\ minute(i) \in Nat /\ minute(i) * MinuteLength <= a
            /\ minute(i) * MinuteLength \in Nat
        BY <2>7, <4>1, MinuteOrder
      <4>3. i \in Q
        <5> HIDE DEF n
        <5> QED BY <1>2, <4>1, <4>2 DEF After
      <4>4. l \in Nat /\ z \in Nat /\ l * MinuteLength <= since /\ l * MinuteLength \in Nat
        BY <1>2, <2>2, MinuteBounds, MinuteOrder
      <4>5. l <= minute(i)
        <5>1. l * MinuteLength <= a <=> l <= minute(i)
          <6> HIDE DEF l
          <6> QED BY <4>2, <4>4, MinuteOrder
        <5> HIDE DEF l, a, since, minute
        <5> QED BY <1>2, <4>1, <4>2, <4>4, <5>1
      <4>6. minute(i) <= z
        <5>1. minute(i) * MinuteLength <= until - 1 <=> minute(i) <= z
          <6> DEFINE w == until - 1
                     k == minute(i)
          <6>1. w \in Nat /\ k \in Nat
            BY <2>1, <4>2
          <6>2. z = w \div MinuteLength
            OBVIOUS
          <6> HIDE DEF w, z, k
          <6>3. k * MinuteLength <= w <=> k <= z
            BY <6>1, <6>2, MinuteOrder
          <6> QED BY <6>3 DEF k, w
        <5> HIDE DEF z, a, until, minute
        <5> QED BY <1>2, <4>1, <4>2, <5>1
      <4>7. minute(i) \in M
        <5>1. l <= minute(i) /\ minute(i) <= z /\ l \in Nat /\ z \in Nat /\ minute(i) \in Nat
          BY <4>2, <4>4, <4>5, <4>6
        <5> HIDE DEF l, z, minute
        <5>2. minute(i) \in l..z
          BY <5>1
        <5> QED BY <5>2 DEF l, z
      <4> HIDE DEF M, minute, Q
      <4> QED BY <4>1, <4>3, <4>7
    <3>3. Part(M) \in SUBSET (K \cup After(e - 1))
      OBVIOUS
    <3> HIDE DEF Part, M
    <3> QED BY <1>1, <3>1, <3>2, <3>3, GapCovered
  <2> QED
    BY <2>11, <2>12
<1> QED
  BY <1>7, <1>8

-----------------------------------------------------------------------------
(* The events of a stream follow each other without a gap.                 *)

(* Replaying the next events of the stream a position stands in leaves it  *)
(* where the tape puts it, open or closed.                                 *)
LEMMA StreamReplay ==
  ASSUME TapeOK, FirstPriceAbove, NEW r, Tracks(r), NEW O \in SUBSET Events,
         \A i \in O : i > r.event /\ tape[i].stream = r.stream,
         \A i \in O, j \in Events : (j > r.event /\ j <= i) => j \in O
  PROVE  /\ Repriced(r, O).exit # NoExit => Ended(Repriced(r, O))
         /\ Repriced(r, O).exit = NoExit =>
               /\ Tracks(Repriced(r, O)) /\ Repriced(r, O).stream = r.stream
               /\ Repriced(r, O).event \in O \cup {r.event}
               /\ \A i \in O : i <= Repriced(r, O).event
<1>1. O \in SUBSET Nat /\ IsFiniteSet(O) /\ O \in SUBSET DOMAIN tape
  <2>1. IsFiniteSet(O) /\ O \in SUBSET DOMAIN tape
    BY TapeTypes, FS_Subset
  <2> QED BY <2>1, TapeTypes
<1>2. PICK g : ReplayOf(g, r, O)
  BY <1>1, RepricedRuns
<1>3. /\ g[O] = Repriced(r, O) /\ g[{}] = r
      /\ \A u \in SUBSET O : u # {} => g[u] = Reprice(g[u \ {Max(u)}], Max(u))
  BY <1>2 DEF ReplayOf
<1>4. r.event \in Events /\ r.event \in Nat /\ r.event >= 2
  BY TapeTypes DEF Tracks
<1> DEFINE Initial(u) == \A x \in u, z \in O : z <= x => z \in u
           Fits(q, u) == /\ q.exit # NoExit => Ended(q)
                         /\ q.exit = NoExit => /\ Tracks(q) /\ q.stream = r.stream
                                               /\ q.event \in u \cup {r.event}
                                               /\ \A i \in u : i <= q.event
           Good == {u \in SUBSET O : Initial(u) => Fits(g[u], u)}
<1>5. {} \in Good
  <2>1. Fits(r, {})
    BY DEF Tracks
  <2>2. g[{}] = r
    BY <1>3
  <2> HIDE DEF Fits
  <2> QED BY <2>1, <2>2
<1>6. ASSUME NEW u \in SUBSET O, u # {}, \A x \in u : u \ {x} \in Good
      PROVE  u \in Good
  <2> DEFINE m == Max(u)
             v == u \ {m}
             q == g[v]
  <2>1. m \in u /\ \A x \in u : x <= m
    BY <1>1, <1>6, FS_Subset, GreatestOf
  <2>2. g[u] = Reprice(q, m)
    BY <1>3, <1>6
  <2>3. v \in Good
    BY <1>6, <2>1
  <2> HIDE DEF m
  <2> SUFFICES ASSUME Initial(u) PROVE Fits(g[u], u)
    OBVIOUS
  <2>4. m \in Nat /\ m \in O /\ m \in Events /\ m \in DOMAIN tape /\ m > r.event /\ tape[m].stream = r.stream
    BY <1>1, <2>1
  <2>5. Initial(v)
    <3> SUFFICES ASSUME NEW x \in v, NEW z \in O, z <= x PROVE z \in v
      OBVIOUS
    <3>1. x \in u /\ x \in Nat /\ z \in Nat /\ x <= m /\ x # m
      BY <1>1, <2>1
    <3>2. z \in u /\ z # m
      BY <2>4, <3>1
    <3> QED BY <3>2
  <2>6. Fits(q, v)
    BY <2>3, <2>5
  <2>7. CASE q.exit # NoExit
    <3>1. g[u] = q
      BY <2>2, <2>7, RepriceEnded
    <3>2. Ended(q)
      BY <2>6, <2>7
    <3> HIDE DEF q
    <3> QED BY <2>7, <3>1, <3>2
  <2>8. CASE q.exit = NoExit
    <3>1. /\ Tracks(q) /\ q.stream = r.stream /\ q.event \in v \cup {r.event}
          /\ \A i \in v : i <= q.event
      BY <2>6, <2>8
    <3> HIDE DEF q, v
    <3>2. q.event \in Events /\ q.event \in DOMAIN tape /\ q.event \in Nat /\ q.event >= 2
          /\ q.through = tape[q.event].at /\ q.stream = tape[q.event].stream
      BY <3>1, TapeTypes DEF Tracks
    <3>3. q.event < m /\ q.event >= r.event
      <4>1. \A x \in v : x \in u /\ x # m /\ x \in Nat /\ x > r.event
        BY <1>1 DEF v
      <4>2. \A x \in v : x < m
        BY <2>1, <2>4, <4>1
      <4> QED BY <1>4, <2>4, <3>1, <3>2, <4>1, <4>2
    <3>4. m = q.event + 1
      <4> SUFFICES ASSUME m # q.event + 1 PROVE FALSE
        OBVIOUS
      <4> DEFINE k == q.event + 1
      <4>1. k \in Nat /\ q.event <= k /\ k < m /\ k > r.event /\ k <= m
        BY <1>4, <2>4, <3>2, <3>3
      <4>2. m \in 1..Len(tape) /\ Len(tape) \in Nat
        BY <2>4, TapeTypes
      <4>3. k \in 1..Len(tape)
        <5> HIDE DEF k
        <5> QED BY <3>2, <4>1, <4>2
      <4>4. k \in DOMAIN tape
        BY <4>3, TapeTypes
      <4>5. ~(k <= q.event)
        BY <3>2
      <4> HIDE DEF k
      <4>6. tape[k].stream = tape[q.event].stream
        BY <2>4, <3>1, <3>2, <4>1, <4>4 DEF TapeOK, StreamsUnbroken
      <4>7. k \in Events
        BY <3>2, <4>4, <4>6 DEF Events
      <4>8. k \in O
        BY <2>4, <4>1, <4>7
      <4>9. k \in u /\ k # m
        BY <2>1, <4>1, <4>8, <2>4
      <4> QED BY <3>1, <4>5, <4>9 DEF v
    <3>5. PICK K : Covers(q.event, K) /\ Holds(q.p, K) /\ InTime(K)
      BY <3>1 DEF Tracks
    <3>6. m - 1 = q.event /\ m > 2
      BY <3>2, <3>4
    <3>7. q.through \in Nat /\ q.through <= tape[m].at
      BY <2>4, <3>2, <3>3, TapeTypes DEF TapeOK, Sorted
    <3>8. Covers(m - 1, K)
      BY <3>5, <3>6
    <3>12. Moved(q.p) \/ FirstEvent(m)
      <4>1. q.event = 2 => FirstEvent(m)
        <5>1. \A f \in Events : f \in Nat
          BY TapeTypes
        <5> QED BY <2>4, <3>4, <5>1 DEF FirstEvent
      <4> QED BY <3>1, <4>1 DEF Tracks
    <3> DEFINE w == Reprice(q, m)
    <3>9. w.event = m /\ (w.exit = NoExit => Tracks(w)) /\ (w.exit # NoExit => Ended(w))
      BY <2>4, <2>8, <3>5, <3>6, <3>7, <3>8, <3>12, NextEvent
    <3> HIDE DEF w
    <3>10. w.exit = NoExit => w.stream = r.stream
      BY <2>4, <3>9 DEF Tracks
    <3>11. Fits(w, u)
      BY <2>1, <3>9, <3>10
    <3> HIDE DEF Fits
    <3> QED BY <2>2, <3>11 DEF w
  <2> QED BY <2>7, <2>8
<1>7. O \in Good
  <2>1. Good \in SUBSET (SUBSET O)
    OBVIOUS
  <2> HIDE DEF Good
  <2> QED BY <1>1, <1>5, <1>6, <2>1, SetInduction
<1>8. Fits(g[O], O)
  <2>1. Initial(O)
    OBVIOUS
  <2> HIDE DEF Fits
  <2> QED BY <1>7, <2>1
<1>9. Fits(Repriced(r, O), O)
  <2> HIDE DEF Fits
  <2> QED BY <1>3, <1>8
<1> QED
  BY <1>9

-----------------------------------------------------------------------------
(* The tape grows at its end; what a position has passed stays passed.     *)

Grows == TapeOK /\ TapeOK' /\ (tape' = tape \/ \E t : tape' = Append(tape, t))

(* A new trade changes nothing of the trades before it.                    *)
LEMMA GrowsKeeps ==
  ASSUME Grows
  PROVE  /\ DOMAIN tape \in SUBSET (DOMAIN tape)' /\ \A i \in DOMAIN tape : tape'[i] = tape[i]
         /\ Events \in SUBSET Events'
         /\ \A i \in Events' : i \in Events \/ i > Len(tape)
         /\ \A i \in DOMAIN tape : i \in Events' => i \in Events
         /\ \A i \in Events' : i \in Nat
<1>1. CASE tape' = tape
  <2>1. DOMAIN tape \in SUBSET Nat
    BY TapeTypes DEF Grows
  <2>2. Events' = Events /\ Events \in SUBSET DOMAIN tape
    BY <1>1 DEF Events
  <2> QED BY <1>1, <2>1, <2>2
<1>2. CASE \E t : tape' = Append(tape, t)
  <2>1. PICK t : tape' = Append(tape, t)
    BY <1>2
  <2>2. tape \in Seq(Ticks) /\ tape' \in Seq(Ticks)
    BY DEF Grows, TapeOK, Ticks
  <2>3. /\ Len(tape) \in Nat /\ DOMAIN tape = 1..Len(tape) /\ DOMAIN tape' = 1..(Len(tape) + 1)
        /\ \A i \in 1..Len(tape) : tape'[i] = tape[i]
    BY <2>1, <2>2
  <2>4. \A i \in 1..(Len(tape) + 1) : (i \in 1..Len(tape) \/ i > Len(tape)) /\ i \in Nat
    BY <2>3
  <2> QED BY <2>3, <2>4 DEF Events
<1> QED
  BY <1>1, <1>2 DEF Grows

(* The highest price of trades that are on the tape.                       *)
LEMMA SeenKept ==
  ASSUME Grows, NEW K \in SUBSET DOMAIN tape
  PROVE  Seen(K)' = Seen(K)
<1>1. \A i \in K : tape'[i].price = tape[i].price
  BY GrowsKeeps
<1>2. {tape'[i].price : i \in K} = {tape[i].price : i \in K}
  BY <1>1
<1> QED
  BY <1>2 DEF Seen

(* Whether a position survives them.                                       *)
LEMMA SurvivesKept ==
  ASSUME Grows, NEW K \in SUBSET DOMAIN tape
  PROVE  /\ PricesPass(K)' <=> PricesPass(K)
         /\ InTime(K)' <=> InTime(K)
         /\ Survives(K)' <=> Survives(K)
<1>1. \A j \in K : tape'[j] = tape[j]
  BY GrowsKeeps
<1>2. \A j \in K : Seen(Before(K, j))' = Seen(Before(K, j))
  <2> SUFFICES ASSUME NEW j \in K PROVE Seen(Before(K, j))' = Seen(Before(K, j))
    OBVIOUS
  <2> DEFINE B == Before(K, j)
  <2>1. B \in SUBSET DOMAIN tape
    BY DEF Before
  <2>2. Before(K, j)' = B
    BY DEF Before
  <2> HIDE DEF B
  <2>3. Seen(B)' = Seen(B)
    BY <2>1, SeenKept
  <2> QED BY <2>2, <2>3 DEF B
<1>3. \A j \in K : /\ Line(Seen(Before(K, j)))' = Line(Seen(Before(K, j)))
                   /\ LineAfter(Before(K, j))' = LineAfter(Before(K, j))
  BY <1>2 DEF LineAfter, Before, Line, LineOf, StopAt, TrailAt, Peak, Evens, TrailOf, GuardOf, EnteredAt, Level
<1>4. Target' = Target /\ \A now : Late(now)' <=> Late(now)
  BY DEF Target, EnteredAt, Late
<1>5. PricesPass(K)' <=> PricesPass(K)
  BY <1>1, <1>3, <1>4 DEF PricesPass
<1>6. InTime(K)' <=> InTime(K)
  BY <1>1 DEF InTime, Late
<1>7. Survives(K)' <=> Survives(K)
  BY <1>1, <1>3, <1>4, <1>6 DEF Survives
<1> QED
  BY <1>5, <1>6, <1>7

(* Whether they cover the tape: a trade that nothing orders stays one that *)
(* nothing orders.                                                         *)
LEMMA CoversKept ==
  ASSUME Grows, NEW n \in Nat, n <= Len(tape), NEW K, Covers(n, K)
  PROVE  Covers(n, K)'
<1>1. TapeOK /\ TapeOK'
  BY DEF Grows
<1>2. \A i \in After(n) : i \in DOMAIN tape
  BY <1>1, TapeTypes DEF After
<1>3. ASSUME NEW i \in DOMAIN tape, Unordered(i) PROVE Unordered(i)'
  <2>1. PICK e \in Events : /\ e > i /\ tape[e].at = tape[i].at
                            /\ \A f \in Events : f > i => f >= e
    BY <1>3 DEF Unordered
  <2>2. i \notin Events'
    BY <1>3, GrowsKeeps DEF Unordered
  <2>3. e \in Events' /\ tape'[e].at = tape'[i].at
    BY <1>1, <2>1, GrowsKeeps, TapeTypes
  <2>4. \A f \in Events' : f > i => f >= e
    <3>1. \A f \in Events' : f \in Events \/ f > Len(tape)
      BY GrowsKeeps
    <3>2. e <= Len(tape) /\ e \in Nat /\ Len(tape) \in Nat
      BY <1>1, <2>1, TapeTypes
    <3>3. \A f \in Events' : f \in Nat
      BY GrowsKeeps
    <3> QED BY <2>1, <3>1, <3>2, <3>3
  <2> QED BY <2>1, <2>2, <2>3, <2>4 DEF Unordered
<1>4. After(n)' = After(n)
  BY DEF After
<1> QED
  BY <1>2, <1>3, <1>4 DEF Covers

(* Whether the first event lies above the stop it sets.                    *)
LEMMA AboveKept ==
  ASSUME Grows, FirstPriceAbove'
  PROVE  FirstPriceAbove
<1>1. TapeOK
  BY DEF Grows
<1>2. TrailsAtOnce' <=> TrailsAtOnce
  BY DEF TrailsAtOnce
<1> SUFFICES ASSUME TrailsAtOnce, NEW i \in Events, FirstEvent(i)
             PROVE  EnteredAt - TrailDistance < tape[i].price
  BY DEF FirstPriceAbove
<1>3. i \in DOMAIN tape /\ i \in Nat /\ i <= Len(tape) /\ Len(tape) \in Nat
  BY <1>1, TapeTypes
<1>4. i \in Events' /\ tape'[i] = tape[i]
  BY <1>3, GrowsKeeps
<1>5. \A f \in Events' : (f \in Events \/ f > Len(tape)) /\ f \in Nat
  BY GrowsKeeps
<1>6. \A f \in Events' : f > 2 => f >= i
  BY <1>3, <1>5 DEF FirstEvent
<1>7. FirstEvent(i)'
  BY <1>4, <1>6 DEF FirstEvent
<1>8. EnteredAt' - TrailDistance < tape'[i].price
  BY <1>2, <1>4, <1>7 DEF FirstPriceAbove
<1> QED
  BY <1>4, <1>8 DEF EnteredAt

(* A checkpoint that tracks the tape goes on doing so.                     *)
LEMMA TracksKept ==
  ASSUME Grows, NEW s, Tracks(s)
  PROVE  Tracks(s)'
<1>1. TapeOK
  BY DEF Grows
<1>2. PICK K : Covers(s.event, K) /\ Holds(s.p, K) /\ InTime(K)
  BY DEF Tracks
<1>3. s.event \in Events /\ s.event \in DOMAIN tape /\ s.event \in Nat /\ s.event <= Len(tape)
  BY <1>1, TapeTypes DEF Tracks
<1>4. K \in SUBSET DOMAIN tape
  BY <1>1, <1>2, <1>3, CoversDomain
<1>5. Covers(s.event, K)'
  BY <1>2, <1>3, CoversKept
<1>6. InTime(K)'
  BY <1>2, <1>4, SurvivesKept
<1>7. Holds(s.p, K)'
  <2>1. PICK b \in Nat : Like(s.p, b) /\ b <= Seen(K) /\ Same(b, Seen(K))
    BY <1>2 DEF Holds
  <2>2. Seen(K)' = Seen(K)
    BY <1>4, SeenKept
  <2>3. Shape(b)' = Shape(b) /\ Same(b, Seen(K))' /\ AtEntry' = AtEntry
    BY <2>1, <2>2 DEF Same, AtEntry, Shape, Position, StopAt, TrailAt, Peak, Evens, TrailOf, GuardOf, EnteredAt, Level, Target
  <2>5. Like(s.p, b)'
    BY <2>1, <2>3 DEF Like
  <2>4. PricesPass(K)'
    BY <1>2, <1>4, SurvivesKept DEF Holds
  <2> QED BY <2>1, <2>2, <2>3, <2>4, <2>5 DEF Holds
<1>8. tape'[s.event] = tape[s.event] /\ s.event \in Events'
  BY <1>3, GrowsKeeps
<1>9. (s.event = 2 /\ s.p = AtEntry') \/ (s.event > 2 /\ Moved(s.p)')
  <2>1. AtEntry' = AtEntry
    BY DEF AtEntry, Shape, Position, StopAt, TrailAt, Peak, Evens, TrailOf, GuardOf, EnteredAt, Level, Target
  <2>2. ASSUME NEW x \in Nat PROVE Shape(x)' = Shape(x)
    BY DEF Shape, Position, StopAt, TrailAt, Peak, Evens, TrailOf, GuardOf, EnteredAt, Level, Target
  <2>3. Moved(s.p) => Moved(s.p)'
    BY <2>2 DEF Moved
  <2> QED BY <2>1, <2>3 DEF Tracks
<1> QED
  BY <1>5, <1>6, <1>7, <1>8, <1>9 DEF Tracks, IsPoint

(* One that ended rightly has ended rightly for good.                      *)
LEMMA EndedKept ==
  ASSUME Grows, NEW s, Ended(s)
  PROVE  Ended(s)'
<1>1. TapeOK
  BY DEF Grows
<1>2. s.event \in Events /\ s.event \in DOMAIN tape /\ s.event \in Nat /\ s.event <= Len(tape)
  BY <1>1, TapeTypes DEF Ended
<1>3. s.event \in Events'
  BY <1>2, GrowsKeeps
<1>4. ASSUME NEW K, Covers(s.event, K), ~Survives(K)
      PROVE  Covers(s.event, K)' /\ ~Survives(K)'
  <2>1. K \in SUBSET DOMAIN tape
    BY <1>1, <1>2, <1>4, CoversDomain
  <2>2. Covers(s.event, K)'
    BY <1>2, <1>4, CoversKept
  <2> QED BY <1>4, <2>1, <2>2, SurvivesKept
<1> QED
  BY <1>3, <1>4 DEF Ended

(* The next event after a checkpoint stays the next.                       *)
LEMMA NextKept ==
  ASSUME Grows, NEW s, s.event \in Events, NEW e, NextAfter(s, e)
  PROVE  NextAfter(s, e)' /\ tape'[e] = tape[e]
<1>1. TapeOK /\ TapeOK'
  BY DEF Grows
<1>2. e \in Events /\ e \in DOMAIN tape /\ e \in Nat /\ e <= Len(tape) /\ Len(tape) \in Nat
  BY <1>1, TapeTypes DEF NextAfter
<1>3. \A f \in Events' : f \in Events \/ f > Len(tape)
  BY GrowsKeeps
<1>4. \A f \in Events' : f \in Nat
  BY GrowsKeeps
<1>5. \A f \in Events' : f > s.event => f >= e
  BY <1>2, <1>3, <1>4 DEF NextAfter
<1>6. e \in Events' /\ tape'[e] = tape[e]
  BY <1>2, GrowsKeeps
<1> QED
  BY <1>5, <1>6 DEF NextAfter

(* A trade goes to the end of the tape, in its order of times and streams. *)
LEMMA TradeGrows ==
  ASSUME TapeOK, NEW price \in Prices, NEW at \in 1..MaxTime, NEW how \in {"kept", "missed", "reconnected"},
         Trade(price, at, how)
  PROVE  Grows
<1> DEFINE N == Len(tape)
           S == {tape[i].stream : i \in DOMAIN tape}
           top == Max(S)
           str == CASE how = "missed" -> 0 [] how = "kept" -> top [] how = "reconnected" -> top + 1
           t == [at |-> at, price |-> price, stream |-> str]
<1>1. tape \in Seq(Ticks) /\ N \in Nat /\ N >= 2 /\ DOMAIN tape = 1..N
  BY TapeTypes DEF TapeOK
<1>2. \A i \in DOMAIN tape : tape[i].at \in Nat /\ tape[i].price \in Nat /\ tape[i].stream \in Nat /\ i \in Nat
  BY TapeTypes
<1>3. top \in Nat /\ (\A i \in DOMAIN tape : tape[i].stream <= top) /\ \E i \in DOMAIN tape : top = tape[i].stream
  <2> DEFINE f == [i \in DOMAIN tape |-> tape[i].stream]
  <2>1. f \in Surjection(DOMAIN tape, S)
    BY DEF Surjection
  <2>2. IsFiniteSet(S)
    <3> HIDE DEF f, S
    <3> QED BY <2>1, TapeTypes, FS_Surjection
  <2>3. S \in SUBSET Nat /\ tape[1].stream \in S
    BY <1>1, <1>2
  <2>4. top \in S /\ \A x \in S : x <= top
    <3> HIDE DEF S
    <3> QED BY <2>2, <2>3, GreatestOf
  <2>5. \A i \in DOMAIN tape : tape[i].stream \in S
    OBVIOUS
  <2>6. \E i \in DOMAIN tape : top = tape[i].stream
    <3> HIDE DEF top
    <3> QED BY <2>4
  <2> HIDE DEF S
  <2> QED BY <2>3, <2>4, <2>5, <2>6
<1> HIDE DEF top
<1>4. str \in Nat /\ price \in Nat /\ at \in Nat
  BY <1>3, Numbers
<1>5. /\ how = "missed" => str = 0
      /\ how = "kept" => str = top
      /\ how = "reconnected" => str = top + 1
  OBVIOUS
<1>6. tape' = Append(tape, t) /\ at >= tape[N].at /\ (how = "kept" => tape[N].stream # 0)
  BY DEF Trade, top
<1> HIDE DEF str, N
<1>7. t \in Ticks
  BY <1>4 DEF Ticks
<1>8. t.at = at /\ t.stream = str
  OBVIOUS
<1> HIDE DEF t
<1>9. /\ tape' \in Seq(Ticks) /\ Len(tape') = N + 1 /\ tape'[N + 1] = t
      /\ DOMAIN tape' = 1..(N + 1) /\ \A i \in 1..N : tape'[i] = tape[i]
  BY <1>1, <1>6, <1>7 DEF N
<1>10. \A i \in 1..(N + 1) : i \in Nat /\ (i \in 1..N \/ i = N + 1)
  BY <1>1
<1>11. Sorted'
  <2> SUFFICES ASSUME NEW i \in DOMAIN tape', NEW j \in DOMAIN tape', i <= j
               PROVE  tape'[i].at <= tape'[j].at
    BY DEF Sorted
  <2>1. \A k \in 1..N : tape[k].at <= tape[N].at /\ tape[k].at \in Nat /\ tape[N].at \in Nat
    <3>1. N \in 1..N /\ \A k \in 1..N : k <= N
      BY <1>1
    <3> QED BY <1>1, <1>2, <3>1 DEF TapeOK, Sorted
  <2>2. CASE j = N + 1
    <3>1. tape'[i].at <= at
      <4>1. CASE i \in 1..N
        BY <1>4, <1>6, <1>9, <2>1, <4>1
      <4>2. CASE i = N + 1
        BY <1>4, <1>8, <1>9, <4>2
      <4> QED BY <1>9, <1>10, <4>1, <4>2
    <3> QED BY <1>8, <1>9, <2>2, <3>1
  <2>3. CASE j \in 1..N
    <3>1. i \in 1..N
      BY <1>1, <1>9, <1>10, <2>3
    <3> QED BY <1>1, <1>9, <2>3, <3>1 DEF TapeOK, Sorted
  <2> QED BY <1>9, <1>10, <2>2, <2>3
<1>12. /\ \A i \in Events' : (i \in 1..N /\ i \in Events) \/ (i = N + 1 /\ str # 0)
       /\ \A i \in 1..N : i \in Events' <=> i \in Events
  BY <1>1, <1>8, <1>9, <1>10 DEF Events
<1>13. StreamsFollow'
  <2> SUFFICES ASSUME NEW i \in Events', NEW j \in Events', i <= j
               PROVE  tape'[i].stream <= tape'[j].stream
    BY DEF StreamsFollow
  <2>1. CASE j = N + 1
    <3>1. str = top \/ str = top + 1
      <4>1. ~(N + 1 \in 1..N)
        BY <1>1
      <4>2. str # 0
        BY <1>12, <2>1, <4>1
      <4> QED BY <1>5, <4>2
    <3>2. CASE i \in 1..N
      <4>1. tape[i].stream \in Nat /\ tape[i].stream <= top
        BY <1>1, <1>2, <1>3, <3>2
      <4>2. tape'[i].stream = tape[i].stream /\ tape'[j].stream = str
        BY <1>8, <1>9, <2>1, <3>2
      <4> DEFINE a == tape[i].stream
      <4> HIDE DEF a
      <4>3. a <= str
        BY <1>3, <3>1, <4>1 DEF a
      <4> QED BY <4>2, <4>3 DEF a
    <3>3. CASE i = N + 1
      BY <1>4, <1>8, <1>9, <2>1, <3>3
    <3> QED BY <1>12, <3>2, <3>3
  <2>2. CASE j \in 1..N
    <3>1. i \in 1..N /\ i \in Nat
      BY <1>1, <1>12, <2>2
    <3>2. i \in Events /\ j \in Events
      BY <1>12, <2>2, <3>1
    <3> QED BY <1>9, <2>2, <3>1, <3>2 DEF TapeOK, StreamsFollow
  <2> QED BY <1>12, <2>1, <2>2
<1>14. StreamsUnbroken'
  <2> SUFFICES ASSUME NEW i \in Events', NEW j \in Events', NEW k \in DOMAIN tape',
                      i <= k, k <= j, tape'[i].stream = tape'[j].stream
               PROVE  tape'[k].stream = tape'[i].stream
    BY DEF StreamsUnbroken
  <2>1. CASE j \in 1..N
    <3>1. i \in 1..N /\ k \in 1..N
      BY <1>1, <1>9, <1>10, <1>12, <2>1
    <3>2. i \in Events /\ j \in Events
      BY <1>12, <2>1, <3>1
    <3> QED BY <1>1, <1>9, <2>1, <3>1, <3>2 DEF TapeOK, StreamsUnbroken
  <2>2. CASE j = N + 1
    <3>1. CASE i = N + 1
      <4>1. k = N + 1
        BY <1>1, <1>9, <1>10, <2>2, <3>1
      <4> QED BY <3>1, <4>1
    <3>2. CASE i \in 1..N
      <4>1. i \in Events /\ tape[i].stream = str /\ str # 0
        BY <1>8, <1>9, <1>12, <2>2, <3>2 DEF Events
      <4>2. how = "kept"
        <5>1. tape[i].stream \in Nat /\ tape[i].stream <= top
          BY <1>1, <1>2, <1>3, <3>2
        <5> QED BY <1>3, <1>5, <4>1, <5>1
      <4>3. str = top /\ tape[N].stream # 0
        BY <1>5, <1>6, <4>2
      <4>4. N \in Events /\ N \in DOMAIN tape /\ i <= N
        BY <1>1, <3>2, <4>3 DEF Events
      <4>5. tape[N].stream = tape[i].stream
        <5>1. tape[i].stream <= tape[N].stream /\ tape[N].stream <= top /\ tape[N].stream \in Nat
          BY <1>2, <1>3, <4>1, <4>4 DEF TapeOK, StreamsFollow
        <5> QED BY <1>3, <4>1, <4>3, <5>1
      <4>6. CASE k = N + 1
        BY <2>2, <4>6
      <4>7. CASE k \in 1..N
        <5>1. k <= N
          BY <1>1, <4>7
        <5>2. tape[k].stream = tape[i].stream
          BY <1>1, <4>1, <4>4, <4>5, <4>7, <5>1 DEF TapeOK, StreamsUnbroken
        <5> QED BY <1>9, <3>2, <4>7, <5>2
      <4> QED BY <1>9, <1>10, <4>6, <4>7
    <3> QED BY <1>12, <3>1, <3>2
  <2> QED BY <1>12, <2>1, <2>2
<1>15. TapeOK'
  <2>1. tape'[1] = tape[1] /\ tape'[2] = tape[2]
    BY <1>1, <1>9
  <2>2. tape' \in Seq([at : Nat, price : Nat, stream : Nat]) /\ Len(tape') >= 2
    BY <1>1, <1>9 DEF Ticks
  <2> QED BY <1>11, <1>13, <1>14, <2>1, <2>2 DEF TapeOK, Ticks
<1> QED
  BY <1>6, <1>15 DEF Grows

(* Nothing else touches the tape.                                          *)
LEMMA TapeStays ==
  ASSUME TapeOK, tape' = tape
  PROVE  Grows
<1>1. Events' = Events
  BY DEF Events
<1>2. TapeOK'
  BY <1>1 DEF TapeOK, Ticks, Sorted, StreamsFollow, StreamsUnbroken
<1> QED
  BY <1>2 DEF Grows

-----------------------------------------------------------------------------
(* The lanes.                                                              *)

IsWork(w) == w = [step |-> w.step, s |-> w.s, confirmed |-> w.confirmed,
                  base |-> w.base, upto |-> w.upto, latest |-> w.latest]

\* A batch stands where the tape puts it; one that waits for history waits
\* at the first event of another stream.
Working(w) ==
  /\ IsWork(w) /\ w.step \in {"run", "waiting"}
  /\ Tracks(w.s) /\ Tracks(w.confirmed)
  /\ w.base \in Nat /\ w.base >= 2
  /\ w.upto \in Events /\ w.s.event <= w.upto
  /\ w.latest = 0 \/ (w.latest \in Events /\ w.latest > w.upto)
  /\ w.step = "waiting" => \E e : /\ NextAfter(w.s, e) /\ e <= w.upto
                                  /\ tape[e].stream # w.s.stream

Stands(s) == Tracks(s) \/ Ended(s)
PricingInv == TapeOK /\ Stands(saved) /\ (work = NoWork \/ Working(work))

\* History decides, or the account protects no profit that it would miss.
Decided == recoveryModel = "strict" \/ GuardOff

(* At the entry.                                                           *)
LEMMA PricingStarts ==
  ASSUME PricingInit
  PROVE  PricingInv
<1>1. PICK before \in Prices :
        tape = <<[at |-> 0, price |-> before, stream |-> 1],
                 [at |-> 1, price |-> EntryPrice, stream |-> 1]>>
  BY DEF PricingInit
<1>2. before \in Nat /\ EntryPrice \in Nat
  BY Numbers
<1> DEFINE t1 == [at |-> 0, price |-> before, stream |-> 1]
           t2 == [at |-> 1, price |-> EntryPrice, stream |-> 1]
<1>3. t1 \in Ticks /\ t2 \in Ticks /\ t1.at = 0 /\ t2.at = 1 /\ t1.stream = 1 /\ t2.stream = 1
  BY <1>2 DEF Ticks
<1>4. tape = <<t1, t2>>
  BY <1>1
<1>5. t2 = [at |-> 1, price |-> EntryPrice, stream |-> 1]
  OBVIOUS
<1> HIDE DEF t1, t2
<1>6. tape \in Seq(Ticks) /\ Len(tape) = 2 /\ tape[1] = t1 /\ tape[2] = t2 /\ DOMAIN tape = 1..2
  BY <1>3, <1>4
<1>7. \A i \in 1..2 : i = 1 \/ i = 2
  OBVIOUS
<1>8. Sorted
  BY <1>3, <1>6, <1>7 DEF Sorted
<1>9. \A i \in DOMAIN tape : tape[i].stream = 1
  BY <1>3, <1>6, <1>7
<1>10. StreamsFollow /\ StreamsUnbroken
  BY <1>9 DEF StreamsFollow, StreamsUnbroken, Events
<1>11. TapeOK
  BY <1>3, <1>5, <1>6, <1>8, <1>10 DEF TapeOK, Ticks
<1>12. 2 \in Events
  BY <1>6, <1>9 DEF Events
<1>13. saved = [p |-> AtEntry, exit |-> NoExit, through |-> 1, event |-> 2, stream |-> 1]
  BY EntryShape DEF PricingInit
<1>14. Covers(2, {})
  BY DEF Covers, After
<1>15. Seen({}) = EntryPrice
  BY <1>11, SeenIs
<1>16. Holds(AtEntry, {}) /\ InTime({})
  BY <1>2, <1>15 DEF Holds, PricesPass, InTime, Same, Like
<1>17. saved.p = AtEntry /\ saved.exit = NoExit /\ saved.through = 1 /\ saved.event = 2
       /\ saved.stream = 1 /\ IsPoint(saved)
  <2> DEFINE q == AtEntry
  <2> HIDE DEF q
  <2> QED BY <1>13 DEF IsPoint, q
<1>18. Tracks(saved)
  BY <1>3, <1>6, <1>12, <1>14, <1>16, <1>17 DEF Tracks
<1> QED
  BY <1>11, <1>18 DEF PricingInv, Stands, PricingInit

(* What is kept when the tape grows.                                       *)
LEMMA InvKept ==
  ASSUME Grows
  PROVE  /\ \A s : Tracks(s) => Tracks(s)'
         /\ \A s : Ended(s) => Ended(s)'
         /\ \A w : Working(w) => Working(w)'
<1>1. \A s : Tracks(s) => Tracks(s)'
  BY TracksKept
<1>2. \A s : Ended(s) => Ended(s)'
  BY EndedKept
<1>3. ASSUME NEW w, Working(w) PROVE Working(w)'
  <2>1. Tracks(w.s)' /\ Tracks(w.confirmed)'
    BY <1>1, <1>3 DEF Working
  <2>2. \A i \in Events : i \in Events'
    BY GrowsKeeps
  <2>3. ASSUME NEW e, NextAfter(w.s, e), tape[e].stream # w.s.stream
        PROVE  NextAfter(w.s, e)' /\ tape'[e].stream # w.s.stream
    <3>1. w.s.event \in Events
      BY <1>3 DEF Working, Tracks
    <3> QED BY <2>3, <3>1, NextKept
  <2> QED BY <1>3, <2>1, <2>2, <2>3 DEF Working, IsWork
<1> QED
  BY <1>1, <1>2, <1>3

(* Of the checkpoint that is stored.                                       *)
LEMMA StandsKept ==
  ASSUME Grows, NEW s, Stands(s), saved' = s
  PROVE  Stands(saved)'
<1>1. Tracks(s)' \/ Ended(s)'
  BY InvKept DEF Stands
<1> QED
  BY <1>1 DEF Stands

(* Of the batch that a lane works on.                                      *)
LEMMA WorkKept ==
  ASSUME Grows, NEW w, w = NoWork \/ Working(w), work' = w
  PROVE  (work = NoWork \/ Working(work))'
<1>1. w = NoWork \/ Working(w)'
  BY InvKept
<1> QED
  BY <1>1 DEF NoWork

(* What is stored is the new checkpoint or the one that was there.         *)
LEMMA Stored ==
  ASSUME Grows, Stands(saved), NEW x, Stands(x), NEW of, Checkpoint(x, of)
  PROVE  Stands(saved)'
BY StandsKept DEF Checkpoint

(* Loading a batch.                                                        *)
LEMMA LoadKeeps ==
  ASSUME PricingInv, Load
  PROVE  PricingInv'
<1>1. tape' = tape /\ saved' = saved /\ Open
  BY DEF Load
<1>2. Grows
  BY <1>1, TapeStays DEF PricingInv
<1>a. PICK upto \in {i \in Events : i > saved.event} :
        \E latest \in {0} \cup {i \in {Max(Events)} : i > upto} :
          work' = [step |-> "run", s |-> saved, confirmed |-> saved,
                   base |-> saved.event, upto |-> upto, latest |-> latest]
  BY DEF Load
<1>3. PICK latest \in {0} \cup {i \in {Max(Events)} : i > upto} :
          work' = [step |-> "run", s |-> saved, confirmed |-> saved,
                   base |-> saved.event, upto |-> upto, latest |-> latest]
  BY <1>a
<1>4. Tracks(saved)
  BY <1>1 DEF PricingInv, Stands, Ended, Open
<1>5. saved.event \in Nat /\ saved.event >= 2 /\ upto \in Events /\ upto \in Nat /\ saved.event <= upto
  <2>1. saved.event \in Events /\ saved.event >= 2 /\ Events \in SUBSET Nat
    BY <1>4, TapeTypes DEF Tracks, PricingInv
  <2>2. saved.event \in Nat /\ upto \in Nat /\ upto > saved.event
    BY <2>1
  <2> QED BY <2>1, <2>2
<1>6. latest = 0 \/ (latest \in Events /\ latest > upto)
  <2>1. Events \in SUBSET Nat /\ IsFiniteSet(Events) /\ Events # {}
    BY <1>5, TapeTypes DEF PricingInv
  <2>2. Max(Events) \in Events
    BY <2>1, GreatestOf
  <2> QED BY <2>2
<1> DEFINE w == [step |-> "run", s |-> saved, confirmed |-> saved,
                 base |-> saved.event, upto |-> upto, latest |-> latest]
<1>7. /\ w.step = "run" /\ w.s = saved /\ w.confirmed = saved /\ w.base = saved.event
      /\ w.upto = upto /\ w.latest = latest
  OBVIOUS
<1>8. IsWork(w)
  BY DEF IsWork
<1>9. work' = w
  BY <1>3
<1> HIDE DEF w
<1>10. Working(w)
  BY <1>4, <1>5, <1>6, <1>7, <1>8 DEF Working
<1>11. (work = NoWork \/ Working(work))'
  BY <1>2, <1>9, <1>10, WorkKept
<1>12. Stands(saved)'
  BY <1>1, <1>2, StandsKept DEF PricingInv
<1> QED
  BY <1>2, <1>11, <1>12 DEF PricingInv, Grows

(* The replay of a batch, up to the first event of another stream.         *)
LEMMA BatchReplay ==
  ASSUME TapeOK, FirstPriceAbove, Working(work), NEW s, s = Repriced(work.s, OfStream)
  PROVE  /\ s.exit # NoExit => Ended(s)
         /\ s.exit = NoExit =>
              /\ Tracks(s) /\ s.stream = work.s.stream
              /\ s.event <= work.upto
              /\ \A i \in Candidates : Foreign # {} => (i \in Events /\ i > s.event)
              /\ Foreign # {} => /\ NextAfter(s, Min(Foreign)) /\ Min(Foreign) <= work.upto
                                 /\ tape[Min(Foreign)].stream # s.stream
<1> DEFINE r == work.s
           O == OfStream
           e == Min(Foreign)
<1>1. /\ Tracks(r) /\ work.upto \in Events /\ r.event <= work.upto /\ r.event \in Events
      /\ work.latest = 0 \/ (work.latest \in Events /\ work.latest > work.upto)
  BY DEF Working, Tracks
<1>2. Events \in SUBSET Nat
  BY TapeTypes
<1>3. \A i : i \in Todo <=> (i \in Events /\ i > r.event /\ i <= work.upto)
  BY DEF Todo
<1>4. \A i : i \in Foreign <=> (i \in Todo /\ tape[i].stream # r.stream)
  BY DEF Foreign
<1>5. \A i : i \in O <=> (i \in Todo /\ \A f \in Foreign : i < f)
  BY DEF OfStream
<1>6. O \in SUBSET Events /\ Foreign \in SUBSET Events
  BY <1>3, <1>4, <1>5
<1>7. \A i \in O : i > r.event /\ tape[i].stream = r.stream
  <2>1. \A i \in O : ~(i < i)
    BY <1>2, <1>6
  <2> QED BY <1>3, <1>4, <1>5, <2>1
<1>8. \A i \in O, j \in Events : (j > r.event /\ j <= i) => j \in O
  <2> SUFFICES ASSUME NEW i \in O, NEW j \in Events, j > r.event, j <= i PROVE j \in O
    OBVIOUS
  <2>1. i \in Nat /\ j \in Nat /\ work.upto \in Nat /\ i <= work.upto
    BY <1>1, <1>2, <1>3, <1>5, <1>6
  <2>2. j \in Todo
    BY <1>3, <2>1
  <2>3. \A f \in Foreign : f \in Nat /\ i < f
    BY <1>2, <1>5, <1>6
  <2>4. \A f \in Foreign : j < f
    BY <2>1, <2>3
  <2> QED BY <1>5, <2>2, <2>4
<1> HIDE DEF O, r
<1>9. /\ s.exit # NoExit => Ended(s)
      /\ s.exit = NoExit =>
            /\ Tracks(s) /\ s.stream = r.stream
            /\ s.event \in O \cup {r.event}
            /\ \A i \in O : i <= s.event
  <2>1. s = Repriced(r, O)
    BY DEF r, O
  <2> QED BY <1>1, <1>6, <1>7, <1>8, <2>1, StreamReplay
<1>10. ASSUME s.exit = NoExit
       PROVE  /\ s.event \in Nat /\ s.event <= work.upto /\ r.event <= s.event
              /\ \A f \in Foreign : s.event < f
  <2>1. s.event \in O \cup {r.event}
    BY <1>9, <1>10
  <2>2. r.event \in Nat /\ work.upto \in Nat /\ r.event <= work.upto
    BY <1>1, <1>2
  <2>3. \A f \in Foreign : f \in Nat /\ f > r.event
    BY <1>2, <1>3, <1>4, <1>6
  <2>4. CASE s.event = r.event
    BY <2>2, <2>3, <2>4
  <2>5. CASE s.event \in O
    <3>1. s.event \in Nat /\ s.event <= work.upto /\ s.event > r.event
      BY <1>2, <1>3, <1>5, <1>6, <2>5
    <3> QED BY <1>5, <2>2, <2>5, <3>1
  <2> QED BY <2>1, <2>4, <2>5
<1>11. ASSUME Foreign # {}
       PROVE  e \in Foreign /\ e \in Nat /\ e \in Events /\ e <= work.upto /\ tape[e].stream # r.stream
              /\ \A f \in Foreign : e <= f
  <2>1. Foreign \in SUBSET Nat
    BY <1>2, <1>6
  <2>2. e \in Foreign /\ \A f \in Foreign : e <= f
    BY <1>11, <2>1, LeastOf
  <2> HIDE DEF e
  <2> QED BY <1>2, <1>3, <1>4, <2>1, <2>2
<1> HIDE DEF e
<1>12. ASSUME s.exit = NoExit, Foreign # {}
       PROVE  NextAfter(s, e)
  <2>1. e > s.event
    BY <1>10, <1>11, <1>12
  <2>2. ASSUME NEW f \in Events, f > s.event PROVE f >= e
    <3> SUFFICES ASSUME ~(f >= e) PROVE FALSE
      OBVIOUS
    <3>a. f \in Nat /\ e \in Nat
      BY <1>2, <1>11, <1>12
    <3>b. r.event \in Nat /\ work.upto \in Nat
      BY <1>1, <1>2 DEF r
    <3>1. f \in Nat /\ f < e /\ r.event \in Nat /\ work.upto \in Nat
      BY <3>a, <3>b
    <3>2. f \in Todo
      BY <1>3, <1>10, <1>11, <1>12, <2>2, <3>1
    <3>3. \A x \in Foreign : x \in Nat /\ e <= x
      BY <1>2, <1>6, <1>11, <1>12
    <3>4. \A x \in Foreign : f < x
      BY <1>11, <1>12, <3>1, <3>3
    <3>5. f \in O
      BY <1>5, <3>2, <3>4
    <3>6. f <= s.event
      BY <1>9, <1>12, <3>5
    <3> QED BY <1>10, <1>12, <2>2, <3>1, <3>6
  <2> QED BY <1>11, <1>12, <2>1, <2>2 DEF NextAfter
<1>13. ASSUME s.exit = NoExit, Foreign # {}, NEW i \in Candidates
       PROVE  i \in Events /\ i > s.event
  <2>1. CASE i \in Todo \ O
    <3>1. PICK f \in Foreign : ~(i < f)
      BY <1>5, <2>1
    <3>2. i \in Nat /\ f \in Nat /\ i \in Events
      BY <1>2, <1>3, <1>6, <2>1
    <3>3. s.event < f /\ s.event \in Nat
      BY <1>10, <1>13
    <3> QED BY <3>1, <3>2, <3>3
  <2>2. CASE i \in {work.latest} \ {0}
    <3>1. i \in Events /\ i > work.upto /\ i \in Nat /\ work.upto \in Nat
      BY <1>1, <1>2, <2>2
    <3> QED BY <1>10, <1>13, <3>1
  <2> QED BY <1>13, <2>1, <2>2 DEF Candidates, O
<1> QED
  BY <1>9, <1>10, <1>11, <1>12, <1>13 DEF e, r

(* A position leaves at the first event that ends it as it stands.         *)
LEMMA FirstEnds ==
  ASSUME TapeOK, FirstPriceAbove, NEW s, Tracks(s), NEW E \in SUBSET Events, Leaves(s, E) # {},
         Min(Leaves(s, E)) > s.event
  PROVE  Ended(FirstLeaving(s, E))
<1> DEFINE A == Leaves(s, E)
           i == Min(A)
<1>1. A \in SUBSET Events /\ A \in SUBSET Nat
  <2>1. A \in SUBSET Events
    BY DEF Leaves
  <2> HIDE DEF A
  <2> QED BY <2>1, TapeTypes
<1>2. i \in A
  <2> HIDE DEF A
  <2>1. A # {}
    BY DEF A
  <2> QED BY <1>1, <2>1, LeastOf
<1> HIDE DEF i
<1>3. i \in Events /\ EventExit(s.p, i, tape[i].at) # NoExit
  BY <1>1, <1>2 DEF Leaves
<1>4. i > s.event
  BY DEF i
<1>5. Ended(Leaving(s, i, EventExit(s.p, i, tape[i].at), tape[i].at))
  BY <1>3, <1>4, LeavesOnTape
<1> QED
  BY <1>5 DEF FirstLeaving, i

(* A batch up to its end, an exit or the wait for history.                 *)
LEMMA AdvanceKeeps ==
  ASSUME FirstPriceAbove, PricingInv, Advance
  PROVE  PricingInv'
<1> DEFINE s == Repriced(work.s, OfStream)
<1>1. tape' = tape /\ work.step = "run" /\ (ProcessStream(s) \/ ProtectJournal(s) \/ AwaitHistory(s))
  BY DEF Advance
<1>2. Grows
  BY <1>1, TapeStays DEF PricingInv
<1>3. Working(work)
  BY <1>1 DEF PricingInv, NoWork
<1>4. TapeOK /\ Stands(saved)
  BY DEF PricingInv
<1>5. /\ s.exit # NoExit => Ended(s)
      /\ s.exit = NoExit =>
           /\ Tracks(s) /\ s.stream = work.s.stream
           /\ s.event <= work.upto
           /\ \A i \in Candidates : Foreign # {} => (i \in Events /\ i > s.event)
           /\ Foreign # {} => /\ NextAfter(s, Min(Foreign)) /\ Min(Foreign) <= work.upto
                              /\ tape[Min(Foreign)].stream # s.stream
  <2> DEFINE q == s
  <2>1. q = Repriced(work.s, OfStream)
    OBVIOUS
  <2> HIDE DEF q
  <2> QED BY <1>3, <1>4, <2>1, BatchReplay DEF q
<1> HIDE DEF s
<1>6. Stands(s)
  BY <1>5 DEF Stands
<1>7. CASE ProcessStream(s)
  <2>1. Stands(saved)'
    BY <1>2, <1>4, <1>6, <1>7, Stored DEF ProcessStream
  <2>2. work' = NoWork
    BY <1>7 DEF ProcessStream
  <2> QED BY <1>2, <2>1, <2>2 DEF PricingInv, Grows, NoWork
<1>8. CASE ProtectJournal(s)
  <2>1. Foreign # {} /\ s.exit = NoExit /\ Leaves(s, Candidates) # {}
        /\ Checkpoint(FirstLeaving(s, Candidates), work.confirmed) /\ work' = NoWork
    BY <1>8 DEF ProtectJournal
  <2>2. Tracks(s) /\ Candidates \in SUBSET Events /\ \A i \in Candidates : i > s.event
    BY <1>5, <2>1
  <2> DEFINE A == Leaves(s, Candidates)
  <2>3. A \in SUBSET Candidates
    BY DEF Leaves
  <2>4. Min(A) \in A
    <3>1. A \in SUBSET Nat /\ A # {}
      BY <1>4, <2>1, <2>2, <2>3, TapeTypes
    <3> HIDE DEF A
    <3> QED BY <3>1, LeastOf
  <2>5. Min(A) > s.event
    <3> HIDE DEF A
    <3> QED BY <2>2, <2>3, <2>4
  <2>6. Ended(FirstLeaving(s, Candidates))
    BY <1>4, <2>1, <2>2, <2>5, FirstEnds
  <2>7. Stands(FirstLeaving(s, Candidates))
    BY <2>6 DEF Stands
  <2>8. Stands(saved)'
    BY <1>2, <1>4, <2>1, <2>7, Stored
  <2> QED BY <1>2, <2>1, <2>8 DEF PricingInv, Grows, NoWork
<1>9. CASE AwaitHistory(s)
  <2> DEFINE w == [work EXCEPT !.step = "waiting", !.s = s, !.confirmed = s]
  <2>1. /\ Foreign # {} /\ s.exit = NoExit
        /\ s # work.confirmed => Checkpoint(s, work.confirmed)
        /\ s = work.confirmed => saved' = saved
        /\ work' = NoWork \/ work' = w
    BY <1>9 DEF AwaitHistory
  <2>2. Stands(saved)'
    <3>1. CASE s = work.confirmed
      BY <1>2, <1>4, <2>1, <3>1, StandsKept
    <3>2. CASE s # work.confirmed
      BY <1>2, <1>4, <1>6, <2>1, <3>2, Stored
    <3> QED BY <3>1, <3>2
  <2>3. w = [step |-> "waiting", s |-> s, confirmed |-> s, base |-> work.base, upto |-> work.upto,
             latest |-> work.latest]
    <3> DEFINE a1 == work.step
               a2 == work.s
               a3 == work.confirmed
               a4 == work.base
               a5 == work.upto
               a6 == work.latest
    <3>1. work = [step |-> a1, s |-> a2, confirmed |-> a3, base |-> a4, upto |-> a5, latest |-> a6]
      BY <1>3 DEF Working, IsWork
    <3> HIDE DEF a1, a2, a3, a4, a5, a6
    <3>2. w = [step |-> "waiting", s |-> s, confirmed |-> s, base |-> a4, upto |-> a5, latest |-> a6]
      <4> DEFINE w1 == [work EXCEPT !.step = "waiting"]
                 w2 == [w1 EXCEPT !.s = s]
      <4>1. w1 = [step |-> "waiting", s |-> a2, confirmed |-> a3, base |-> a4, upto |-> a5, latest |-> a6]
        BY <3>1
      <4>2. w = [w2 EXCEPT !.confirmed = s]
        OBVIOUS
      <4> HIDE DEF w, w1
      <4>3. w2 = [step |-> "waiting", s |-> s, confirmed |-> a3, base |-> a4, upto |-> a5, latest |-> a6]
        BY <4>1
      <4> HIDE DEF w2
      <4> QED BY <4>2, <4>3
    <3> QED BY <3>2 DEF a3, a4, a5, a6
  <2> HIDE DEF w
  <2>4. /\ w.step = "waiting" /\ w.s = s /\ w.confirmed = s /\ w.base = work.base
        /\ w.upto = work.upto /\ w.latest = work.latest
    BY <2>3
  <2>5. IsWork(w)
    BY <2>3, <2>4 DEF IsWork
  <2>6. Working(w)
    BY <1>3, <1>5, <2>1, <2>4, <2>5 DEF Working
  <2>7. (work = NoWork \/ Working(work))'
    <3>1. CASE work' = NoWork
      BY <3>1 DEF NoWork
    <3>2. CASE work' = w
      BY <1>2, <2>6, <3>2, WorkKept
    <3> QED BY <2>1, <3>1, <3>2
  <2> QED BY <1>2, <2>2, <2>7 DEF PricingInv, Grows
<1> QED
  BY <1>1, <1>7, <1>8, <1>9

(* The judgement of a gap, by trades or by minutes, and the first event of *)
(* the new stream.                                                         *)
LEMMA RecoverKeeps ==
  ASSUME FirstPriceAbove, EntryHolds, Decided, PricingInv, Recover
  PROVE  PricingInv'
<1>1. tape' = tape /\ work.step = "waiting"
  BY DEF Recover
<1>2. Grows
  BY <1>1, TapeStays DEF PricingInv
<1>3. Working(work)
  BY <1>1 DEF PricingInv, NoWork
<1>4. TapeOK /\ Stands(saved)
  BY DEF PricingInv
<1> DEFINE e == Min(Foreign)
           q == work.s
<1>5. Tracks(q) /\ q.event \in Events /\ work.upto \in Events
  BY <1>3 DEF Working, Tracks
<1>6. NextAfter(q, e) /\ e <= work.upto
  <2>1. PICK x : NextAfter(q, x) /\ x <= work.upto /\ tape[x].stream # q.stream
    BY <1>1, <1>3 DEF Working
  <2>2. x \in Foreign /\ \A f \in Foreign : f >= x /\ f \in Nat /\ x \in Nat
    <3>1. x \in Foreign
      BY <2>1 DEF NextAfter, Foreign, Todo
    <3>2. \A f \in Foreign : f \in Events /\ f > q.event
      BY DEF Foreign, Todo
    <3>3. Events \in SUBSET Nat
      BY <1>4, TapeTypes
    <3> QED BY <2>1, <3>1, <3>2, <3>3 DEF NextAfter
  <2>3. e \in Foreign /\ \A f \in Foreign : e <= f
    <3>1. Foreign \in SUBSET Nat /\ Foreign # {}
      BY <2>2
    <3> QED BY <3>1, LeastOf
  <2> HIDE DEF e
  <2>4. e = x
    BY <2>2, <2>3
  <2> QED BY <2>1, <2>4
<1> HIDE DEF e
<1>7. PICK r \in {ByMinutes(q, e)} \cup (IF Covered(q, e) THEN {ByTrades(q, e)} ELSE {}) :
         LET s == IF r.sure THEN Reprice([q EXCEPT !.p = r.p], e)
                  ELSE Leaving(q, e, [at |-> tape[e].price, reason |-> "recovery-exit"],
                               QuoteTime(q, e))
         IN  IF s.exit # NoExit
             THEN Checkpoint(s, work.confirmed) /\ work' = NoWork
             ELSE UNCHANGED saved /\ work' = [work EXCEPT !.step = "run", !.s = s]
  BY Zenon DEF Recover, e
<1> DEFINE s == IF r.sure THEN Reprice([q EXCEPT !.p = r.p], e)
                ELSE Leaving(q, e, [at |-> tape[e].price, reason |-> "recovery-exit"],
                             QuoteTime(q, e))
<1>8. IF s.exit # NoExit
      THEN Checkpoint(s, work.confirmed) /\ work' = NoWork
      ELSE saved' = saved /\ work' = [work EXCEPT !.step = "run", !.s = s]
  BY <1>7
<1>9. /\ s.exit # NoExit => Ended(s)
      /\ s.exit = NoExit => Tracks(s) /\ s.event = e
  <2>1. CASE r.sure
    <3> DEFINE z == [q EXCEPT !.p = r.p]
    <3>1. (\E K : Covers(e - 1, K) /\ Holds(r.p, K)) /\ (Moved(r.p) \/ FirstEvent(e))
      <4>1. CASE r = ByMinutes(q, e)
        BY <1>4, <1>5, <1>6, <2>1, <4>1, MinutesDecide DEF Decided
      <4>2. CASE r = ByTrades(q, e) /\ Covered(q, e)
        BY <1>4, <1>5, <1>6, <2>1, <4>2, TradesDecide
      <4> QED BY <1>7, <4>1, <4>2
    <3>7. PICK K : Covers(e - 1, K) /\ Holds(r.p, K)
      BY <3>1
    <3>2. /\ q.exit = NoExit /\ q.through \in Nat /\ q.through <= tape[e].at /\ e > 2 /\ e \in Events
          /\ q = [p |-> q.p, exit |-> q.exit, through |-> q.through, event |-> q.event, stream |-> q.stream]
      <4>1. q.event \in Nat /\ q.event >= 2 /\ e \in Nat /\ q.through \in Nat /\ q.through <= tape[e].at
            /\ e > q.event /\ e \in Events
        BY <1>4, <1>5, <1>6, GapTrades DEF NextAfter
      <4>2. e > 2
        BY <4>1
      <4> QED BY <1>5, <4>1, <4>2 DEF Tracks, IsPoint
    <3>3. z = [p |-> r.p, exit |-> q.exit, through |-> q.through, event |-> q.event, stream |-> q.stream]
      <4> DEFINE a2 == q.exit
                 a3 == q.through
                 a4 == q.event
                 a5 == q.stream
                 a1 == q.p
      <4>1. q = [p |-> a1, exit |-> a2, through |-> a3, event |-> a4, stream |-> a5]
        BY <3>2
      <4> HIDE DEF q, a1, a2, a3, a4, a5
      <4>2. z = [p |-> r.p, exit |-> a2, through |-> a3, event |-> a4, stream |-> a5]
        BY <4>1
      <4> QED BY <4>2 DEF a2, a3, a4, a5
    <3> HIDE DEF z
    <3>4. z.exit = NoExit /\ z.through = q.through /\ z.p = r.p
      BY <3>2, <3>3
    <3> HIDE DEF q
    <3>5. /\ Reprice(z, e).event = e
          /\ Reprice(z, e).exit = NoExit => Tracks(Reprice(z, e))
          /\ Reprice(z, e).exit # NoExit => Ended(Reprice(z, e))
      BY <1>4, <3>1, <3>2, <3>4, <3>7, NextEvent
    <3>6. s = Reprice(z, e)
      BY <2>1 DEF z
    <3> HIDE DEF s
    <3> QED BY <3>5, <3>6
  <2>2. CASE ~r.sure
    <3> DEFINE x == [at |-> tape[e].price, reason |-> "recovery-exit"]
    <3>1. x # NoExit /\ x.reason = "recovery-exit"
      <4>1. x.reason = "recovery-exit" /\ NoExit.reason = "none"
        BY DEF NoExit
      <4> HIDE DEF x
      <4> QED BY <4>1
    <3>2. s = Leaving(q, e, x, QuoteTime(q, e))
      BY <2>2
    <3> HIDE DEF x, s
    <3>3. q = [p |-> q.p, exit |-> q.exit, through |-> q.through, event |-> q.event, stream |-> q.stream]
      BY <1>5 DEF Tracks, IsPoint
    <3>4. s = [p |-> q.p, exit |-> x, through |-> QuoteTime(q, e), event |-> e, stream |-> tape[e].stream]
      <4> HIDE DEF q
      <4> QED BY <3>2, <3>3, Zenon DEF Leaving
    <3>5. s.exit = x /\ s.event = e
      BY <3>4
    <3> QED BY <1>6, <3>1, <3>5 DEF Ended, NextAfter
  <2> QED BY <2>1, <2>2
<1> HIDE DEF s
<1>10. CASE s.exit # NoExit
  <2>1. Checkpoint(s, work.confirmed) /\ work' = NoWork
    BY <1>8, <1>10
  <2>2. Stands(s)
    BY <1>9, <1>10 DEF Stands
  <2>3. Stands(saved)'
    BY <1>2, <1>4, <2>1, <2>2, Stored
  <2> QED BY <1>2, <2>1, <2>3 DEF PricingInv, Grows, NoWork
<1>11. CASE s.exit = NoExit
  <2> DEFINE w == [work EXCEPT !.step = "run", !.s = s]
  <2>1. saved' = saved /\ work' = w
    BY <1>8, <1>11
  <2>2. w = [step |-> "run", s |-> s, confirmed |-> work.confirmed, base |-> work.base, upto |-> work.upto,
             latest |-> work.latest]
    <3> DEFINE a1 == work.step
               a2 == work.s
               a3 == work.confirmed
               a4 == work.base
               a5 == work.upto
               a6 == work.latest
    <3>1. work = [step |-> a1, s |-> a2, confirmed |-> a3, base |-> a4, upto |-> a5, latest |-> a6]
      BY <1>3 DEF Working, IsWork
    <3> HIDE DEF a1, a2, a3, a4, a5, a6
    <3>2. w = [step |-> "run", s |-> s, confirmed |-> a3, base |-> a4, upto |-> a5, latest |-> a6]
      <4> DEFINE w1 == [work EXCEPT !.step = "run"]
      <4>1. w1 = [step |-> "run", s |-> a2, confirmed |-> a3, base |-> a4, upto |-> a5, latest |-> a6]
        BY <3>1
      <4>2. w = [w1 EXCEPT !.s = s]
        OBVIOUS
      <4> HIDE DEF w, w1
      <4> QED BY <4>1, <4>2
    <3> QED BY <3>2 DEF a3, a4, a5, a6
  <2> HIDE DEF w
  <2>3. /\ w.step = "run" /\ w.s = s /\ w.confirmed = work.confirmed /\ w.base = work.base
        /\ w.upto = work.upto /\ w.latest = work.latest
    BY <2>2
  <2>4. IsWork(w)
    BY <2>2, <2>3 DEF IsWork
  <2>5. Working(w)
    BY <1>3, <1>6, <1>9, <1>11, <2>3, <2>4 DEF Working
  <2>6. (work = NoWork \/ Working(work))'
    BY <1>2, <2>1, <2>5, WorkKept
  <2>7. Stands(saved)'
    BY <1>2, <1>4, <2>1, StandsKept
  <2> QED BY <1>2, <2>6, <2>7 DEF PricingInv, Grows
<1> QED
  BY <1>10, <1>11

(* The protection lane.                                                    *)
LEMMA PriorityKeeps ==
  ASSUME FirstPriceAbove, PricingInv, NEW base \in Nat, base >= 2, PriorityExit(saved, base)
  PROVE  Grows /\ Stands(saved)'
<1> DEFINE found == Leaves(saved, {i \in Events : i > base})
           i == Min(found)
<1>1. tape' = tape /\ Open /\ found # {} /\ i >= saved.event /\ saved' = FirstLeaving(saved, found)
  BY DEF PriorityExit
<1>2. Grows
  BY <1>1, TapeStays DEF PricingInv
<1>3. TapeOK /\ Tracks(saved)
  BY <1>1 DEF PricingInv, Stands, Ended, Open
<1>4. found \in SUBSET Events /\ found \in SUBSET Nat /\ \A x \in found : x > base
  <2>1. found \in SUBSET Events /\ \A x \in found : x > base
    BY DEF Leaves
  <2>2. Events \in SUBSET Nat
    BY <1>3, TapeTypes
  <2> HIDE DEF found
  <2> QED BY <2>1, <2>2
<1>5. i \in found
  <2> HIDE DEF found
  <2> QED BY <1>1, <1>4, LeastOf DEF found
<1> HIDE DEF i
<1>6. EventExit(saved.p, i, tape[i].at) # NoExit
  BY <1>5 DEF Leaves
<1>7. Leaves(saved, found) = found
  BY DEF Leaves
<1> HIDE DEF found
<1>8. i \in Nat /\ i > 2 /\ saved.event \in Nat
  <2>1. i \in Nat /\ i > base
    BY <1>4, <1>5
  <2>2. saved.event \in Nat
    BY <1>3, TapeTypes DEF Tracks
  <2> QED BY <2>1, <2>2
<1>9. i # saved.event
  BY <1>3, <1>6, <1>8, NotAgain
<1>10. i > saved.event
  BY <1>1, <1>8, <1>9
<1>11. Ended(FirstLeaving(saved, found))
  <2>1. Min(Leaves(saved, found)) > saved.event /\ Leaves(saved, found) # {}
    BY <1>1, <1>7, <1>10 DEF i
  <2> QED BY <1>3, <1>4, <2>1, FirstEnds
<1>12. Stands(saved)'
  <2> DEFINE s == FirstLeaving(saved, found)
  <2>1. Stands(s) /\ saved' = s
    BY <1>1, <1>11 DEF Stands
  <2> HIDE DEF s
  <2> QED BY <1>2, <2>1, StandsKept
<1> QED
  BY <1>2, <1>12

(* Every step keeps a checkpoint where the tape puts it.                   *)
LEMMA PricingSteps ==
  ASSUME FirstPriceAbove, EntryHolds, Decided, PricingInv, [PricingNext]_pricingVars
  PROVE  PricingInv'
<1>1. TapeOK /\ Stands(saved) /\ (work = NoWork \/ Working(work))
  BY DEF PricingInv
<1>2. ASSUME NEW price \in Prices, NEW at \in 1..MaxTime, NEW how \in {"kept", "missed", "reconnected"},
             Trade(price, at, how)
      PROVE  PricingInv'
  <2>1. Grows /\ saved' = saved /\ work' = work
    BY <1>1, <1>2, TradeGrows DEF Trade
  <2> QED BY <1>1, <2>1, StandsKept, WorkKept DEF PricingInv, Grows
<1>3. CASE Load
  BY <1>3, LoadKeeps
<1>4. CASE Advance
  BY <1>4, AdvanceKeeps
<1>5. CASE Recover
  BY <1>5, RecoverKeeps
<1>6. CASE GiveUp
  <2>1. tape' = tape /\ saved' = saved /\ work' = NoWork
    BY <1>6 DEF GiveUp
  <2>2. Grows
    BY <1>1, <2>1, TapeStays
  <2> QED BY <1>1, <2>1, <2>2, StandsKept DEF PricingInv, Grows, NoWork
<1>7. CASE ProtectWaiting
  <2>1. work.step = "waiting" /\ PriorityExit(work.confirmed, work.base) /\ work' = NoWork
    BY <1>7 DEF ProtectWaiting
  <2>2. Working(work)
    BY <1>1, <2>1 DEF NoWork
  <2>3. saved = work.confirmed /\ work.base \in Nat /\ work.base >= 2
    BY <2>1, <2>2 DEF PriorityExit, Working
  <2>4. Grows /\ Stands(saved)'
    BY <2>1, <2>3, PriorityKeeps
  <2> QED BY <2>1, <2>4 DEF PricingInv, Grows, NoWork
<1>8. CASE ProtectListed
  <2>1. PriorityExit(saved, saved.event) /\ work' = work
    BY <1>8 DEF ProtectListed
  <2>2. Tracks(saved)
    BY <1>1, <2>1 DEF PriorityExit, Open, Stands, Ended
  <2>3. saved.event \in Nat /\ saved.event >= 2
    BY <1>1, <2>2, TapeTypes DEF Tracks
  <2>4. Grows /\ Stands(saved)'
    BY <2>1, <2>3, PriorityKeeps
  <2> QED BY <1>1, <2>1, <2>4, WorkKept DEF PricingInv, Grows
<1>9. CASE UNCHANGED pricingVars
  <2>1. tape' = tape /\ saved' = saved /\ work' = work
    BY <1>9 DEF pricingVars
  <2>2. Grows
    BY <1>1, <2>1, TapeStays
  <2> QED BY <1>1, <2>1, <2>2, StandsKept, WorkKept DEF PricingInv, Grows
<1> QED
  BY <1>2, <1>3, <1>4, <1>5, <1>6, <1>7, <1>8, <1>9 DEF PricingNext

(* A checkpoint that stands where the tape puts it is priced as the tape.  *)
LEMMA StandsAsTape ==
  ASSUME PricingInv
  PROVE  PricedAsTape
<1>1. TapeOK /\ (Tracks(saved) \/ Ended(saved))
  BY DEF PricingInv, Stands
<1> DEFINE n == saved.event
<1>2. n \in Events /\ n \in Nat /\ n <= Len(tape) /\ n \in DOMAIN tape
  BY <1>1, TapeTypes DEF Tracks, Ended
<1> DEFINE Left(K) == (3..n) \ K
<1>3. ASSUME NEW K, Covers(n, K)
      PROVE  /\ Left(K) \in SUBSET {i \in 3..n : Unordered(i)}
             /\ OnTape(n, Left(K)) = Repriced(Entered, K)
             /\ K \in SUBSET After(Len(tape)) /\ K \in SUBSET DOMAIN tape
  <2>1. K \in SUBSET (3..n) /\ \A i \in 3..n : i \in K \/ Unordered(i)
    BY <1>3 DEF Covers, After
  <2>2. (3..n) \ Left(K) = K
    BY <2>1
  <2>3. K \in SUBSET After(Len(tape)) /\ K \in SUBSET DOMAIN tape
    <3>1. Len(tape) \in Nat /\ DOMAIN tape = 1..Len(tape)
      BY <1>1, TapeTypes
    <3> HIDE DEF n
    <3>2. \A i \in 3..n : i \in 3..Len(tape) /\ i \in 1..Len(tape)
      BY <1>2, <3>1
    <3> QED BY <2>1, <3>1, <3>2 DEF After
  <2> HIDE DEF n
  <2> QED BY <2>1, <2>2, <2>3 DEF OnTape
<1>4. CASE Tracks(saved)
  <2>1. PICK K : Covers(n, K) /\ Holds(saved.p, K) /\ InTime(K)
    BY <1>4 DEF Tracks
  <2>2. PICK b \in Nat : Like(saved.p, b) /\ b <= Seen(K) /\ Same(b, Seen(K))
    BY <2>1 DEF Holds
  <2> DEFINE t == OnTape(n, Left(K))
  <2>a. t = Repriced(Entered, K) /\ K \in SUBSET After(Len(tape)) /\ K \in SUBSET DOMAIN tape
    <3> HIDE DEF Left, n
    <3> QED BY <1>3, <2>1
  <2> HIDE DEF t, Left, n
  <2>3. Survives(K)
    BY <1>1, <2>1, <2>a, PassesSurvives DEF Holds
  <2>4. t.exit = NoExit /\ t.p = AfterAll(K)
    BY <1>1, <2>a, <2>3, OnTheTape
  <2>5. ~Changed(saved.p, t.p)
    <3>1. CASE saved.event = 2 /\ saved.p = AtEntry
      <4>1. K = {}
        BY <2>1, <3>1 DEF Covers, After, n
      <4> QED BY <2>4, <3>1, <4>1 DEF Changed, AfterAll
    <3>2. CASE saved.event > 2 /\ Moved(saved.p)
      <4>1. saved.p = Shape(b)
        BY <2>2, <3>2, LikeMoved
      <4>2. saved.event \in After(saved.event) /\ ~Unordered(saved.event)
        BY <1>2, <3>2 DEF After, Unordered, n
      <4>3. K # {}
        BY <2>1, <4>2 DEF Covers, n
      <4> QED BY <2>2, <2>4, <4>1, <4>3 DEF Changed, AfterAll, Shape, Position, Same
    <3> QED BY <1>4, <3>1, <3>2 DEF Tracks
  <2>6. Open
    BY <1>4 DEF Open, Tracks
  <2>7. Left(K) \in SUBSET {i \in 3..n : Unordered(i)}
    BY <1>3, <2>1
  <2> HIDE DEF Left
  <2> QED BY <2>4, <2>5, <2>6, <2>7 DEF PricedAsTape, t, n
<1>5. CASE Ended(saved)
  <2>1. ~Open
    BY <1>5 DEF Open, Ended
  <2>2. CASE saved.exit.reason = "recovery-exit"
    BY <2>1, <2>2 DEF PricedAsTape
  <2>3. CASE saved.exit.reason # "recovery-exit"
    <3>1. PICK K : Covers(n, K) /\ ~Survives(K)
      BY <1>5, <2>3 DEF Ended
    <3>2. OnTape(n, Left(K)).exit # NoExit
      BY <1>1, <1>3, <3>1, OnTheTape
    <3>3. Left(K) \in SUBSET {i \in 3..n : Unordered(i)}
      BY <1>3, <3>1
    <3> HIDE DEF Left
    <3> QED BY <2>1, <3>2, <3>3 DEF PricedAsTape
  <2> QED BY <2>2, <2>3
<1> QED
  BY <1>1, <1>4, <1>5

(* The recovery model is the position's for life.                          *)
LEMMA ModelStays ==
  ASSUME [PricingNext]_pricingVars
  PROVE  recoveryModel' = recoveryModel
<1>1. \A price, at, how : Trade(price, at, how) => recoveryModel' = recoveryModel
  BY Zenon DEF Trade
<1>2. Load => recoveryModel' = recoveryModel
  BY Zenon DEF Load
<1>3. Advance => recoveryModel' = recoveryModel
  BY Zenon DEF Advance
<1>4. Recover => recoveryModel' = recoveryModel
  BY Zenon DEF Recover
<1>5. GiveUp => recoveryModel' = recoveryModel
  BY Zenon DEF GiveUp
<1>6. \A s, base : PriorityExit(s, base) => recoveryModel' = recoveryModel
  BY Zenon DEF PriorityExit
<1>7. ProtectWaiting => recoveryModel' = recoveryModel
  BY <1>6, Zenon DEF ProtectWaiting
<1>8. ProtectListed => recoveryModel' = recoveryModel
  BY <1>6, Zenon DEF ProtectListed
<1>9. UNCHANGED pricingVars => recoveryModel' = recoveryModel
  BY DEF pricingVars
<1> QED
  BY <1>1, <1>2, <1>3, <1>4, <1>5, <1>7, <1>8, <1>9, Zenon DEF PricingNext

(* Every step leaves a tape that is in order.                              *)
LEMMA TapeSteps ==
  ASSUME TapeOK, [PricingNext]_pricingVars
  PROVE  Grows
<1>1. ASSUME NEW price \in Prices, NEW at \in 1..MaxTime, NEW how \in {"kept", "missed", "reconnected"},
             Trade(price, at, how)
      PROVE  Grows
  BY <1>1, TradeGrows
<1>2. ASSUME Load \/ Advance \/ Recover \/ GiveUp \/ ProtectWaiting \/ ProtectListed \/ UNCHANGED pricingVars
      PROVE  tape' = tape
  <2>1. \A s, base : PriorityExit(s, base) => tape' = tape
    BY Zenon DEF PriorityExit
  <2>2. Load => tape' = tape
    BY Zenon DEF Load
  <2>3. Advance => tape' = tape
    BY Zenon DEF Advance
  <2>4. Recover => tape' = tape
    BY Zenon DEF Recover
  <2>5. GiveUp => tape' = tape
    BY Zenon DEF GiveUp
  <2>6. ProtectWaiting => tape' = tape
    BY <2>1, Zenon DEF ProtectWaiting
  <2>7. ProtectListed => tape' = tape
    BY <2>1, Zenon DEF ProtectListed
  <2>8. UNCHANGED pricingVars => tape' = tape
    BY DEF pricingVars
  <2> QED BY <1>2, <2>2, <2>3, <2>4, <2>5, <2>6, <2>7, <2>8
<1> QED
  BY <1>1, <1>2, TapeStays DEF PricingNext

(* Of every position, whatever was missed, reconstructed, given up and     *)
(* repeated, and whichever lane closed it: while history decides its gaps, *)
(* a market entry does not slip past its own stop, and a trailing stop     *)
(* without an activation distance begins below the first event.            *)
THEOREM PricesFollowTheTape ==
  ASSUME EntryHolds
  PROVE  PricingSpec => [](Decided /\ FirstPriceAbove => PricedAsTape)
<1> DEFINE Inv == TapeOK /\ (Decided /\ FirstPriceAbove => PricingInv)
<1>1. PricingInit => Inv
  BY PricingStarts DEF PricingInv
<1>2. Inv /\ [PricingNext]_pricingVars => Inv'
  <2> SUFFICES ASSUME Inv, [PricingNext]_pricingVars PROVE Inv'
    OBVIOUS
  <2>1. Grows
    BY TapeSteps
  <2>2. ASSUME Decided', FirstPriceAbove' PROVE PricingInv'
    <3>1. recoveryModel' = recoveryModel
      BY ModelStays
    <3>2. Decided
      BY <2>2, <3>1 DEF Decided, GuardOff
    <3>3. FirstPriceAbove
      BY <2>1, <2>2, AboveKept
    <3> QED BY <3>2, <3>3, PricingSteps
  <2>3. TapeOK'
    BY <2>1 DEF Grows
  <2> QED BY <2>2, <2>3
<1>3. Inv => (Decided /\ FirstPriceAbove => PricedAsTape)
  BY StandsAsTape
<1> QED
  BY <1>1, <1>2, <1>3, PTL DEF PricingSpec
=============================================================================
