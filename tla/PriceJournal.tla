---------------------------- MODULE PriceJournal ----------------------------
(***************************************************************************)
(* The market price journal: workers that race for the writer lease        *)
(* (PriceEventRepository.claimWriter), the leader's public trade stream    *)
(* (marketStreamLoop), its bounded in-memory queue (OrderedPriceJournal),  *)
(* the append transaction, and one position that reads the stored rows in  *)
(* id order (processRuntimePriceEvents).                                   *)
(*                                                                         *)
(* One symbol.  The exchange numbers its trades 1, 2, ...; the number is   *)
(* the trade's event key and its time.  A row's id is its index in `rows'. *)
(* A worker process never restarts under the same workerId, so a crash is  *)
(* final and a restart is another member of Workers.                       *)
(***************************************************************************)
EXTENDS Naturals, Sequences, FiniteSets

CONSTANTS
  Workers,
  None,        \* no worker: nobody holds the lease
  Capacity,    \* trades the queue holds (20 000 in the worker)
  BatchSize,   \* trades one append takes
  Follow,      \* whether a position is opened and reads the journal
  MaxTrade,    \* bound: trades the exchange executes
  MaxVoid,     \* bound: an append may fail while at most this many ids are void
  MaxSession   \* bound: stream sessions one worker begins

ASSUME NoneIsNoWorker == None \notin Workers
ASSUME FollowOrNot == Follow \in BOOLEAN
ASSUME SizesArePositive ==
  /\ Capacity \in Nat \ {0}
  /\ BatchSize \in Nat \ {0}
  /\ MaxTrade \in Nat /\ MaxVoid \in Nat /\ MaxSession \in Nat

VARIABLES
  trade,     \* number of the last trade the exchange executed
  worker,    \* per worker, what its process knows (lost in a crash)
  lease,     \* the MarketStreamLease row: its owner, and whether it is unexpired
  rows,      \* MarketPriceEvent by id
  append,    \* per worker, the size of the batch its open append writes, or 0
  reader     \* the position that follows the journal

vars == <<trade, worker, lease, rows, append, reader>>

Trades == 1 .. MaxTrade
Streams == Workers \X (0 .. MaxSession)
Event == [trade : Trades, stream : Streams]

Worker ==
  [status : {"up", "stopping", "released", "crashed"},
   claiming : BOOLEAN,      \* a claimWriter call outlives the shutdown
   leader : BOOLEAN,        \* the last claim it heard of was granted
   connected : BOOLEAN,     \* streamConnected
   session : 0 .. MaxSession,
   overflowing : BOOLEAN,
   queue : Seq(Event)]

Row == [trade : Trades, stream : Streams, state : {"open", "committed", "void"}]

Reader ==
  [open : BOOLEAN, start : 0 .. MaxTrade, through : 0 .. MaxTrade,
   cursor : Nat, stream : Streams \cup {None}, seen : SUBSET Trades]

TypeOK ==
  /\ trade \in 0 .. MaxTrade
  /\ worker \in [Workers -> Worker]
  /\ \A w \in Workers : Len(worker[w].queue) <= Capacity
  /\ lease \in [owner : Workers \cup {None}, live : BOOLEAN]
  /\ rows \in Seq(Row)
  /\ append \in [Workers -> 0 .. BatchSize]
  /\ reader \in Reader

\* A process that has just started, and what is left of one that has ended.
Process(status) ==
  [status |-> status, claiming |-> FALSE, leader |-> FALSE, connected |-> FALSE,
   session |-> 0, overflowing |-> FALSE, queue |-> <<>>]

Init ==
  /\ trade = 0
  /\ worker = [w \in Workers |-> Process("up")]
  /\ lease = [owner |-> None, live |-> FALSE]
  /\ rows = <<>>
  /\ append = [w \in Workers |-> 0]
  /\ reader = [open |-> FALSE, start |-> 0, through |-> 0, cursor |-> 0,
               stream |-> None, seen |-> {}]

Running(w) == worker[w].status \in {"up", "stopping"}
Stream(w) == <<w, worker[w].session>>
Committed == {i \in DOMAIN rows : rows[i].state = "committed"}
StoredTrades == {rows[i].trade : i \in Committed}

-----------------------------------------------------------------------------
(* The exchange and the stream.                                            *)

HasRoom(queue) == Len(queue) < Capacity

\* enqueue on a full queue drops the trade; the first drop of an episode runs
\* handleJournalOverflow, which begins another stream session.
Enqueue_SetOnce(w) ==
  LET me == worker[w] IN
    IF HasRoom(me.queue)
    THEN [me EXCEPT !.queue = Append(@, [trade |-> trade + 1, stream |-> Stream(w)])]
    ELSE [me EXCEPT !.overflowing = TRUE,
                    !.session = IF me.overflowing THEN @ ELSE @ + 1]
Enqueue(w) ==
  LET me == worker[w] IN
    IF HasRoom(me.queue)
    THEN [me EXCEPT !.overflowing = FALSE,
                    !.queue = Append(@, [trade |-> trade + 1, stream |-> Stream(w)])]
    ELSE [me EXCEPT !.overflowing = TRUE,
                    !.session = IF me.overflowing THEN @ ELSE @ + 1]

\* Every connected worker is handed the trade (onTrade); the others miss it.
ExecuteTrade ==
  /\ trade < MaxTrade
  /\ \A w \in Workers : worker[w].connected => Enqueue(w).session <= MaxSession
  /\ trade' = trade + 1
  /\ worker' = [w \in Workers |-> IF worker[w].connected THEN Enqueue(w) ELSE worker[w]]
  /\ UNCHANGED <<lease, rows, append, reader>>

Connect(w) ==
  /\ worker[w].status = "up" /\ worker[w].leader /\ ~worker[w].connected
  /\ worker[w].session < MaxSession
  /\ worker' = [worker EXCEPT ![w].connected = TRUE, ![w].session = @ + 1]
  /\ UNCHANGED <<trade, lease, rows, append, reader>>

\* The queue outlives the connection.
Disconnect(w) ==
  /\ worker[w].connected
  /\ worker' = [worker EXCEPT ![w].connected = FALSE]
  /\ UNCHANGED <<trade, lease, rows, append, reader>>

-----------------------------------------------------------------------------
(* The writer lease.                                                       *)

\* append holds the journal's advisory lock and the lease row FOR UPDATE until it
\* ends: another append fails or waits, an upsert or a delete of the row waits.
LockFree_Ignored == TRUE
LockFree == \A w \in Workers : append[w] = 0

MayClaim(w) == lease.owner \in {w, None} \/ ~lease.live

\* A refused renewal, or one whose answer is an error, aborts the stream.
HearClaim(w, granted) ==
  IF worker[w].status = "up" /\ granted
  THEN [worker[w] EXCEPT !.claiming = FALSE, !.leader = TRUE]
  ELSE [worker[w] EXCEPT !.claiming = FALSE, !.leader = FALSE, !.connected = FALSE]

\* claimMarketWriter, to become the leader or every five seconds to stay it.  While
\* the process runs, a call under way is no different from one not yet sent.
Claim(w, answered) ==
  /\ worker[w].status = "up" \/ worker[w].claiming
  /\ LockFree
  /\ lease' = IF MayClaim(w) THEN [owner |-> w, live |-> TRUE] ELSE lease
  /\ worker' = [worker EXCEPT ![w] = HearClaim(w, MayClaim(w) /\ answered)]
  /\ UNCHANGED <<trade, rows, append, reader>>

\* Thirty seconds without a renewal.
ExpireLease ==
  /\ lease.owner # None /\ lease.live
  /\ lease' = [lease EXCEPT !.live = FALSE]
  /\ UNCHANGED <<trade, worker, rows, append, reader>>

\* shutdown: no more trades and no more claims, then a last flush; a claim may
\* still be under way.
Stop(w, claiming) ==
  /\ worker[w].status = "up"
  /\ worker' = [worker EXCEPT ![w].status = "stopping", ![w].claiming = claiming,
                              ![w].leader = FALSE, ![w].connected = FALSE]
  /\ UNCHANGED <<trade, lease, rows, append, reader>>

\* The claims under way at the shutdown have landed.
ClaimsLanded(w) == ~worker[w].claiming

\* flushAll has drained the queue or thrown.
Release(w) ==
  /\ worker[w].status = "stopping"
  /\ append[w] = 0
  /\ ClaimsLanded(w)
  /\ worker' = [worker EXCEPT ![w] = [Process("released") EXCEPT !.claiming = worker[w].claiming]]
  /\ lease' = IF lease.owner = w THEN [owner |-> None, live |-> FALSE] ELSE lease
  /\ UNCHANGED <<trade, rows, append, reader>>

\* The process dies, or exits after releaseWriter failed: its queue is lost, the
\* lease row and an open append are not.
Crash(w) ==
  /\ Running(w)
  /\ worker' = [worker EXCEPT ![w] = Process("crashed")]
  /\ UNCHANGED <<trade, lease, rows, append, reader>>

-----------------------------------------------------------------------------
(* OrderedPriceJournal.drain and PriceEventRepository.append.              *)

\* The lease append reads under its locks.
MayAppend(w) == lease.owner = w /\ lease.live

\* createMany with skipDuplicates: a trade that a row holds already only uses up
\* an id.
NewRows(batch) ==
  [k \in DOMAIN batch |->
    [trade |-> batch[k].trade, stream |-> batch[k].stream,
     state |-> IF batch[k].trade \in StoredTrades THEN "void" ELSE "open"]]

\* Bound on the ids handed out: more than the bounded failures can use up.
MaxRow == 2 * MaxTrade + MaxVoid + BatchSize

BeginAppend(w) ==
  LET size == IF Len(worker[w].queue) < BatchSize THEN Len(worker[w].queue) ELSE BatchSize
  IN /\ Running(w) /\ size > 0
     /\ append[w] = 0
     /\ LockFree
     /\ MayAppend(w)
     /\ Len(rows) + size <= MaxRow
     /\ rows' = rows \o NewRows(SubSeq(worker[w].queue, 1, size))
     /\ append' = [append EXCEPT ![w] = size]
     /\ UNCHANGED <<trade, worker, lease, reader>>

OpenRows(w) == {i \in DOMAIN rows : rows[i].state = "open" /\ rows[i].stream[1] = w}

EndedRows(w, state) ==
  [i \in DOMAIN rows |->
    IF i \in OpenRows(w) THEN [rows[i] EXCEPT !.state = state] ELSE rows[i]]

\* drain takes the batch off the queue once its write has succeeded.
AfterAppend_NewRowsOnly(w, succeeded) ==
  IF succeeded THEN SubSeq(worker[w].queue, Cardinality(OpenRows(w)) + 1, Len(worker[w].queue))
  ELSE worker[w].queue
AfterAppend(w, succeeded) ==
  IF succeeded THEN SubSeq(worker[w].queue, append[w] + 1, Len(worker[w].queue))
  ELSE worker[w].queue

EndAppend(w, state, succeeded) ==
  /\ append[w] > 0
  /\ rows' = EndedRows(w, state)
  /\ worker' = [worker EXCEPT ![w].queue = AfterAppend(w, succeeded)]
  /\ append' = [append EXCEPT ![w] = 0]
  /\ UNCHANGED <<trade, lease, reader>>

MayFail == Cardinality({i \in DOMAIN rows : rows[i].state = "void"}) <= MaxVoid

\* The answer of a commit may be lost; a dead process hears none.
Commit(w, heard) ==
  /\ IF heard THEN Running(w) ELSE MayFail \/ ~Running(w)
  /\ EndAppend(w, "committed", heard)

\* A rolled back append leaves a gap in the ids.
Rollback(w) == MayFail /\ EndAppend(w, "void", FALSE)

-----------------------------------------------------------------------------
(* The position that follows the journal.                                  *)

\* An entry fills on a trade of the session its worker is connected to
\* (entryQuoteWaitReason); its maximum age keeps it from being older than one
\* already stored before it.
OpenReader(i) ==
  /\ Follow /\ ~reader.open
  /\ i \in Committed
  /\ \E w \in Workers : worker[w].connected /\ rows[i].stream = Stream(w)
  /\ \A j \in Committed : j < i => rows[j].trade < rows[i].trade
  /\ reader' = [open |-> TRUE, start |-> rows[i].trade, through |-> rows[i].trade,
                cursor |-> i, stream |-> rows[i].stream, seen |-> {rows[i].trade}]
  /\ UNCHANGED <<trade, worker, lease, rows, append>>

\* What one event shows the position: an event of the stream it was on shows
\* itself; one of another stream is preceded by a recovery of all since `through'.
Shown_EventOnly(row) == {row.trade}
Shown(row) ==
  IF row.stream = reader.stream THEN {row.trade}
  ELSE {row.trade} \cup (reader.through + 1 .. row.trade)

Later(a, b) == IF a < b THEN b ELSE a

\* An event older than the position only moves its cursor.
AfterEvent(i) ==
  LET row == rows[i] IN
    IF row.trade < reader.start THEN [reader EXCEPT !.cursor = i]
    ELSE [reader EXCEPT !.cursor = i, !.stream = row.stream,
                        !.through = Later(@, row.trade), !.seen = @ \cup Shown(row)]

ReadNext(i) ==
  /\ reader.open
  /\ i \in Committed /\ i > reader.cursor
  /\ \A j \in Committed : j > reader.cursor => i <= j
  /\ reader' = AfterEvent(i)
  /\ UNCHANGED <<trade, worker, lease, rows, append>>

-----------------------------------------------------------------------------
Next ==
  \/ ExecuteTrade
  \/ ExpireLease
  \/ \E w \in Workers :
       \/ Connect(w) \/ Disconnect(w)
       \/ \E answered \in BOOLEAN : Claim(w, answered)
       \/ \E claiming \in BOOLEAN : Stop(w, claiming)
       \/ Release(w) \/ Crash(w)
       \/ BeginAppend(w) \/ Rollback(w)
       \/ \E heard \in BOOLEAN : Commit(w, heard)
  \/ \E i \in DOMAIN rows : OpenReader(i) \/ ReadNext(i)

Spec == Init /\ [][Next]_vars

\* The journal loop flushes for as long as it runs, and the database is not
\* failing every append forever.
Fairness ==
  \A w \in Workers :
    /\ WF_vars(BeginAppend(w))
    /\ SF_vars(Commit(w, TRUE))

FairSpec == Spec /\ Fairness

-----------------------------------------------------------------------------
(* Properties.                                                             *)

\* Between two stored trades of one stream there is no trade the journal lacks
\* or stores only later: an overflow, a reconnect, a takeover and a lost answer
\* each either keep the queue whole or change the stream id, which is all a
\* reader has to tell a gap from a quiet market.
NoHiddenGap ==
  \A i, j \in Committed :
    /\ i < j
    /\ rows[i].stream = rows[j].stream
    => \A t \in rows[i].trade + 1 .. rows[j].trade - 1 :
         \E k \in Committed : k < j /\ rows[k].trade = t

\* A reader that has moved past an id never finds a row appear behind it: the
\* append lock keeps ids in commit order although ids are handed out before
\* the commit.
NothingAppearsBehind ==
  \A i \in DOMAIN rows : i <= reader.cursor => rows[i].state # "open"

\* The position has been shown every trade from its opening up to the time it
\* is managed through, in an event or in a recovery.
NothingUnseen == reader.open => reader.start .. reader.through \subseteq reader.seen

\* An append that commits does so while its worker is still the lease's owner:
\* nobody takes the lease over between the check and the commit.
CommitUnderLease ==
  [][\A w \in Workers :
       (append[w] > 0 /\ append'[w] = 0) =>
         lease.owner = w]_vars

\* A worker that shut down in order leaves no lease behind: none of its claims
\* lands after the release.
CleanHandover ==
  \A w \in Workers : worker[w].status = "released" => lease.owner # w

\* A worker that keeps the lease drains its queue.
QueueDrains ==
  \A w \in Workers :
    <>[](Running(w) /\ MayAppend(w)) => []<>(worker[w].queue = <<>> \/ ~Running(w))
=============================================================================
