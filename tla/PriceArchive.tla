---------------------------- MODULE PriceArchive ----------------------------
(***************************************************************************)
(* The retention of public prices: MarketPriceEvent (the hot journal) is   *)
(* pruned to the configured age, what the execution traces still need is   *)
(* packed into MarketPriceArchiveChunk first, and the readers merge both   *)
(* (packages/persistence/src/price-archive-repository.ts).  A pass is one  *)
(* transaction, but under READ COMMITTED each of its queries has its own   *)
(* snapshot, so entries, fills, exits and closes commit between them.      *)
(*                                                                         *)
(* An event is its id, the position it was appended at in `journal`;       *)
(* `aged` is the last id older than the retention.  The payload, its       *)
(* compression and its checksum are left out: a chunk is the set of ids it *)
(* holds, which decodePriceArchive restores or refuses.                    *)
(***************************************************************************)
EXTENDS Naturals, Sequences, FiniteSets, FiniteSetsExt

CONSTANTS Symbols,      \* the markets
          Positions,    \* the positions that may be entered
          MaxEvent,     \* bound: events appended
          BatchLimit,   \* `limit` of archiveAndPrune
          PageLimit,    \* `limit` of after
          ChunkLimit    \* the chunks `after` loads at once (8 in the code)

ASSUME LimitsAssumption ==
  /\ BatchLimit \in Nat \ {0} /\ PageLimit \in Nat \ {0}
  /\ ChunkLimit \in Nat \ {0} /\ MaxEvent \in Nat

VARIABLES journal,      \* the symbol of every event ever appended
          hot,          \* ids of the rows of MarketPriceEvent
          chunks,       \* MarketPriceArchiveChunk: the set of ids of each
          aged,         \* ids up to this one are older than the retention
          position,     \* pending entry, position, its exit order and trace
          read,         \* ids each position has been managed through
          pass,         \* the running archive transaction
          replay        \* a trace being replayed, page by page

archiveVars == <<journal, hot, chunks, aged, position, read, pass, replay>>

Ids == DOMAIN journal
Of(symbol) == {e \in Ids : journal[e] = symbol}
FirstOf(S, n) == {e \in S : Cardinality({x \in S : x <= e}) <= n}

\* status: none, pending (RuntimeCursor.pendingSignal), OPEN or CLOSED; at is
\* pendingPriceEventId, then priceEventId; ioc the submitEventId of an open
\* exit order (0: none); [start, end] the trace, retained until it expires.
Unused(s) == [status |-> "none", symbol |-> s, at |-> 0, ioc |-> 0,
              start |-> 0, end |-> 0, retained |-> FALSE]

Idle == [step |-> "idle", before |-> 0, cursors |-> {}, batch |-> {}]

\* seen: the events loaded so far, `gap` when a page came back empty.
NoReplay == [of |-> {}, at |-> 0, seen |-> {}, gap |-> FALSE]

ArchiveInit ==
    /\ journal = <<>> /\ hot = {} /\ chunks = {} /\ aged = 0
    /\ position \in [Positions -> {Unused(s) : s \in Symbols}]
    /\ read = [p \in Positions |-> {}]
    /\ pass = Idle
    /\ replay = NoReplay

----------------------------------------------------------------------------
(* The journal and the positions, one committed transaction each.          *)

AppendEvent(s) ==
  /\ Len(journal) < MaxEvent
  /\ journal' = journal \o <<s>>
  /\ hot' = hot \cup {Len(journal) + 1}
  /\ UNCHANGED <<chunks, aged, position, read, pass, replay>>

\* Time passes: one more event is older than the retention.
Age == /\ aged < Len(journal) /\ aged' = aged + 1
       /\ UNCHANGED <<journal, hot, chunks, position, read, pass, replay>>

Put(p, row) ==
  /\ position' = [position EXCEPT ![p] = row]
  /\ UNCHANGED <<journal, hot, chunks, aged, pass, replay>>

\* A signal is queued at the newest event of its market.
Enter(p) ==
  LET x == position[p] IN
  \E e \in Of(x.symbol) \cap hot :
    /\ x.status = "none" /\ e > aged /\ \A f \in Of(x.symbol) : f <= e
    /\ Put(p, [x EXCEPT !.status = "pending", !.at = e])
    /\ UNCHANGED read

\* The pending entry looks at its next event, or is filled by it; the fill
\* opens the position and, in the same transaction, its execution trace.  The
\* admission refuses a quote older than seconds (STALE_ENTRY_QUOTE).
NextEvent(x) == {e \in Of(x.symbol) \cap hot :
                   e > x.at /\ \A f \in Of(x.symbol) \cap hot : f > x.at => e <= f}

Wait(p) ==
  \E e \in NextEvent(position[p]) :
    /\ position[p].status = "pending"
    /\ Put(p, [position[p] EXCEPT !.at = e])
    /\ UNCHANGED read

Fill(p) ==
  \E e \in NextEvent(position[p]) :
    /\ position[p].status = "pending" /\ e > aged
    /\ Put(p, [position[p] EXCEPT !.status = "OPEN", !.at = e, !.start = e,
                               !.retained = TRUE])
    /\ UNCHANGED read

Drop(p) == /\ position[p].status = "pending"
           /\ Put(p, Unused(position[p].symbol))
           /\ UNCHANGED read

\* afterWithArchive: up to the newest hot event, or the newest archived one.
Through(s) ==
  LET live == Of(s) \cap hot  cold == (UNION chunks) \cap Of(s)
  IN  IF live # {} THEN Max(live) ELSE IF cold # {} THEN Max(cold) ELSE 0

\* after: a page of the merged history.  When as many chunks were loaded as
\* may be, nothing past the last of them is known to be complete.
Upper_Through(loaded, through) == through
Upper(loaded, through) ==
  LET last == Max({0} \cup UNION loaded)
  IN  IF Cardinality(loaded) = ChunkLimit /\ last < through THEN last ELSE through

After(s, cursor, through) ==
  LET known  == {k \in chunks : /\ k \subseteq Of(s)
                                /\ Min(k) <= through /\ Max(k) > cursor}
      loaded == {k \in known :
                   Cardinality({c \in known : Min(c) <= Min(k)}) <= ChunkLimit}
      live   == FirstOf({e \in Of(s) \cap hot : e > cursor /\ e <= through}, PageLimit)
      upper  == Upper(loaded, through)
  IN  FirstOf({e \in live \cup UNION loaded : e > cursor /\ e <= upper}, PageLimit)

\* One pass of the position lane: a page is read and managed to its end.  An
\* exit in progress reads the hot journal alone (liquidity-exit-repository).
Page(x) ==
  IF x.ioc = 0 THEN After(x.symbol, x.at, Through(x.symbol))
  ELSE FirstOf({e \in Of(x.symbol) \cap hot : e > x.at}, PageLimit)

Manage(p) ==
  LET x == position[p]  page == Page(x) IN
    /\ x.status = "OPEN" /\ page # {}
    /\ Put(p, [x EXCEPT !.at = Max(page)])
    /\ read' = [read EXCEPT ![p] = @ \cup page]

BeginExit(p) == /\ position[p].status = "OPEN" /\ position[p].ioc = 0
                /\ position[p].at \in hot
                /\ Put(p, [position[p] EXCEPT !.ioc = position[p].at])
                /\ UNCHANGED read

Close(p) == /\ position[p].status = "OPEN"
            /\ Put(p, [position[p] EXCEPT !.status = "CLOSED", !.ioc = 0,
                                           !.end = position[p].at])
            /\ UNCHANGED read

\* retainUntil passes.
Expire(p) == /\ position[p].status = "CLOSED" /\ position[p].retained
             /\ Put(p, [position[p] EXCEPT !.retained = FALSE])
             /\ UNCHANGED read

----------------------------------------------------------------------------
(* archiveAndPrune: the advisory lock admits one pass at a time.           *)

Held == <<journal, hot, chunks, aged, position, read, replay>>

AtOf(status) == {position[p].at : p \in {q \in Positions : position[q].status = status}}

\* `before` is the caller's clock, read ahead of the transaction.
ReadPositions ==
  /\ pass.step = "idle"
  /\ pass' = [step |-> "pending", before |-> aged, cursors |-> AtOf("OPEN"), batch |-> {}]
  /\ UNCHANGED Held

Collect(from, to, ids) ==
  /\ pass.step = from
  /\ pass' = [pass EXCEPT !.step = to, !.cursors = @ \cup ids]
  /\ UNCHANGED Held

ReadPending == Collect("pending", "orders", AtOf("pending"))

ReadOrders == Collect("orders", "batch",
  {position[p].ioc : p \in {q \in Positions : position[q].ioc # 0}})

\* The oldest aged events before every cursor.
Prunable_Aged == {e \in hot : e <= pass.before}
Prunable == {e \in hot : e <= pass.before /\ \A c \in pass.cursors : e < c}

ReadBatch ==
  /\ pass.step = "batch"
  /\ LET batch == FirstOf(Prunable, BatchLimit)
     IN  pass' = IF batch = {} THEN Idle
                 ELSE [pass EXCEPT !.step = "traces", !.batch = batch]
  /\ UNCHANGED Held

Needed(e) ==
  \E p \in Positions : LET x == position[p] IN
    /\ x.retained /\ x.symbol = journal[e] /\ x.start <= e
    /\ x.status = "CLOSED" => e <= x.end

\* The traces are read last; the chunks and the removal commit together.
Prune ==
  /\ pass.step = "traces"
  /\ LET kept == {e \in pass.batch : Needed(e)}
     IN  chunks' = chunks \cup {kept \cap Of(s) : s \in {journal[e] : e \in kept}}
  /\ hot' = hot \ pass.batch
  /\ pass' = Idle
  /\ UNCHANGED <<journal, aged, position, read, replay>>

\* The transaction fails or runs out of its 30 seconds: nothing changed.
Abort == pass.step # "idle" /\ pass' = Idle /\ UNCHANGED Held

\* cleanup drops the chunks no trace that is still retained overlaps.
Overlaps(x, k) == /\ x.retained /\ k \subseteq Of(x.symbol)
                  /\ x.start <= Max(k) /\ (x.status = "CLOSED" => x.end >= Min(k))

Cleanup ==
  /\ \E k \in chunks : \A p \in Positions : ~Overlaps(position[p], k)
  /\ chunks' = {k \in chunks : \E p \in Positions : Overlaps(position[p], k)}
  /\ UNCHANGED <<journal, hot, aged, position, read, pass, replay>>

----------------------------------------------------------------------------
(* replayRuntimeTrace pages a closed trace through `after`, each page in   *)
(* its own REPEATABLE READ transaction, while passes go on between them.   *)

BeginReplay(p) ==
  /\ replay.of = {} /\ position[p].status = "CLOSED" /\ position[p].retained
  /\ replay' = [of |-> {p}, at |-> position[p].start - 1, seen |-> {}, gap |-> FALSE]
  /\ UNCHANGED <<journal, hot, chunks, aged, position, read, pass>>

ReplayPage(p) ==
  LET x == position[p]  page == After(x.symbol, replay.at, x.end) IN
    /\ p \in replay.of /\ ~replay.gap /\ replay.at < x.end
    /\ replay' = IF page = {} THEN [replay EXCEPT !.gap = TRUE]
                 ELSE [replay EXCEPT !.at = Max(page), !.seen = @ \cup page]
    /\ UNCHANGED <<journal, hot, chunks, aged, position, read, pass>>

ArchiveNext ==
  \/ \E s \in Symbols : AppendEvent(s)
  \/ \E p \in Positions : \/ Enter(p) \/ Wait(p) \/ Fill(p) \/ Drop(p)
                          \/ Manage(p) \/ BeginExit(p) \/ Close(p) \/ Expire(p)
                          \/ BeginReplay(p) \/ ReplayPage(p)
  \/ Age \/ ReadPositions \/ ReadPending \/ ReadOrders \/ ReadBatch
  \/ Prune \/ Abort \/ Cleanup

ArchiveSpec == ArchiveInit /\ [][ArchiveNext]_archiveVars

----------------------------------------------------------------------------
(* A replay has read exactly the events of the trace up to where it        *)
(* stands, and met no gap, as long as the trace is retained.               *)
ReplayExact ==
  \A p \in replay.of : LET x == position[p] IN
    x.retained =>
      /\ ~replay.gap
      /\ replay.seen = {e \in Of(x.symbol) : x.start <= e /\ e <= replay.at}

(* A position is managed through every event of its market since its fill. *)
NothingSkipped ==
  \A p \in Positions : LET x == position[p] IN
    x.start # 0 => read[p] = {e \in Of(x.symbol) : x.start < e /\ e <= x.at}

(* Whatever fills, exits, closes, prunes and cleanups commit between the   *)
(* queries of a pass and the pages of a replay, no reader of the merged    *)
(* history jumps over an event it needs.                                   *)
ArchiveLossless == ReplayExact /\ NothingSkipped
=============================================================================
