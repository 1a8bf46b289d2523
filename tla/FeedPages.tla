------------------------------ MODULE FeedPages ------------------------------
(***************************************************************************)
(* The feeds of the dashboard: activity (decisions), the journal and the   *)
(* system log.  A page of a feed is asked for with the id of the last row  *)
(* of the page before; the browser keeps the pages, asks for the next one  *)
(* when the reader does and for all of them again in the background, while *)
(* rows are written whose time need not be the latest: a decision carries  *)
(* the time of its candle, a journal entry the time the author gives it.   *)
(***************************************************************************)
EXTENDS Integers, FiniteSets, Sequences

CONSTANTS RowIds,       \* random identifiers: not in the order of writing
          Times,
          Kind,         \* [RowIds -> kinds]: an action, a kind, a level
          FeedLimit,    \* the rows of a page
          MaxRows,      \* a bound on the rows of a feed
          Absent        \* no filter, or no further page

FeedRow == [id : RowIds, time : Times]

ASSUME FeedAssumption ==
    /\ RowIds \subseteq Int /\ Times \subseteq Int
    /\ FeedLimit \in Nat \ {0} /\ Absent \notin FeedRow

(* The feed: a row has an id and a time.  The page: the answers shown, the *)
(* filter, and the request under way with the answers of it so far.        *)
VARIABLES feed, startsAt, feedPage, request,
          asOf          \* history: the rows there when the first of the
                        \* pages shown was read
feedVars == <<feed, startsAt, feedPage, request, asOf>>

-----------------------------------------------------------------------------
(* list.  Newest first; rows of the same time in the order of their ids.   *)
Newer(a, b) == a.time > b.time \/ (a.time = b.time /\ a.id > b.id)

Where(filter) == {r \in feed : /\ r.time >= startsAt
                               /\ filter # Absent => Kind[r.id] = filter}

(* A slip: rows of the same time as the last one are taken as shown.       *)
Below_ByTime(cursor) == {r \in feed : r.time < cursor.time}
Below(cursor) == {r \in feed : Newer(cursor, r)}

(* The rows that come first, and the last one of a page.                   *)
Newest(rows) == {r \in rows : Cardinality({x \in rows : Newer(x, r)}) < FeedLimit}
OldestOf(items) == CHOOSE r \in items : \A x \in items : x = r \/ Newer(x, r)

(* One row more than asked for tells whether there are more.               *)
ListRows(filter, cursor) ==
    LET matching == Where(filter) \cap (IF cursor = Absent THEN feed ELSE Below(cursor))
        items == Newest(matching)
    IN  [items |-> items,
         nextCursor |-> IF Cardinality(matching) > FeedLimit THEN OldestOf(items) ELSE Absent]

LastCursor(pages) == pages[Len(pages)].nextCursor

-----------------------------------------------------------------------------
NoRequest == [kind |-> "none", cursor |-> Absent, pages |-> <<>>, asOf |-> {}]
FromTop == [kind |-> "all", cursor |-> Absent, pages |-> <<>>, asOf |-> feed]

FeedInit ==
    /\ feed = {} /\ startsAt \in {0, 1}
    /\ feedPage = [filter |-> Absent, pages |-> <<>>]
    /\ request = FromTop
    /\ asOf = {}

(* A row is written: a decision, createEntry, write.                       *)
WriteRow ==
    /\ \E i \in RowIds \ {r.id : r \in feed}, t \in Times :
           feed' = feed \cup {[id |-> i, time |-> t]}
    /\ UNCHANGED <<startsAt, feedPage, request, asOf>>

(* Time passes and a period begins later.                                  *)
PeriodMoves ==
    /\ startsAt > 0 /\ startsAt + 1 \in Times
    /\ startsAt' = startsAt + 1
    /\ UNCHANGED <<feed, feedPage, request, asOf>>

(* All pages again: every few seconds unless a request is under way, or at *)
(* once when a mutation makes the feed stale; a request under way is then  *)
(* given up.                                                               *)
Refetch ==
    /\ request.kind # "all" /\ feedPage.pages # <<>>
    /\ request' = FromTop
    /\ UNCHANGED <<feed, startsAt, feedPage, asOf>>

(* The reader wants more; a refetch under way is given up.                 *)
LoadMore ==
    /\ feedPage.pages # <<>> /\ request.kind # "next"
    /\ LastCursor(feedPage.pages) # Absent
    /\ request' = [NoRequest EXCEPT !.kind = "next", !.cursor = LastCursor(feedPage.pages)]
    /\ UNCHANGED <<feed, startsAt, feedPage, asOf>>

SetFilter(filter) ==
    /\ filter # feedPage.filter
    /\ feedPage' = [filter |-> filter, pages |-> <<>>]
    /\ request' = FromTop
    /\ asOf' = {}
    /\ UNCHANGED <<feed, startsAt>>

(* A page is read and answered.  The pages of a refetch are shown together *)
(* once there are as many as before, or no more.                           *)
Answer ==
    LET answer == ListRows(feedPage.filter, request.cursor)
        pages == Append(request.pages, answer)
    IN  /\ request.kind # "none"
        /\ \/ /\ request.kind = "next"
              /\ feedPage' = [feedPage EXCEPT !.pages = Append(@, answer)]
              /\ request' = NoRequest /\ UNCHANGED asOf
           \/ /\ request.kind = "all"
              /\ answer.nextCursor # Absent /\ Len(pages) < Len(feedPage.pages)
              /\ request' = [request EXCEPT !.pages = pages, !.cursor = answer.nextCursor]
              /\ UNCHANGED <<feedPage, asOf>>
           \/ /\ request.kind = "all"
              /\ answer.nextCursor = Absent \/ Len(pages) >= Len(feedPage.pages)
              /\ feedPage' = [feedPage EXCEPT !.pages = pages]
              /\ asOf' = request.asOf /\ request' = NoRequest
        /\ UNCHANGED <<feed, startsAt>>

(* A request fails; what was shown before stays for the next attempt.      *)
RequestFails ==
    /\ request.kind # "none" /\ feedPage.pages # <<>>
    /\ request' = NoRequest
    /\ UNCHANGED <<feed, startsAt, feedPage, asOf>>

FeedNext ==
    \/ Cardinality(feed) < MaxRows /\ WriteRow
    \/ PeriodMoves \/ Refetch \/ LoadMore \/ Answer \/ RequestFails
    \/ \E filter \in {Absent} \cup {Kind[i] : i \in RowIds} : SetFilter(filter)

FeedSpec == FeedInit /\ [][FeedNext]_feedVars

-----------------------------------------------------------------------------
(* The pages shown follow one another: every row of a page is later than   *)
(* every row of the pages after it.  And no row that was there when the    *)
(* first page was read and belongs to the feed is passed over between two  *)
(* pages: it is shown or older than where the next page begins, whatever   *)
(* was written meanwhile and whichever requests were given up (list of the *)
(* three repositories and the pages' infinite queries).                    *)
NothingPassedOver ==
    LET pages == feedPage.pages
    IN  /\ \A i, j \in DOMAIN pages : i < j =>
              \A a \in pages[i].items, b \in pages[j].items : Newer(a, b)
        /\ \A r \in asOf \cap Where(feedPage.filter) :
              \/ \E i \in DOMAIN pages : r \in pages[i].items
              \/ LastCursor(pages) # Absent /\ Newer(LastCursor(pages), r)
=============================================================================
