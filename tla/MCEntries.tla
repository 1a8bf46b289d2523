------------------------------ MODULE MCEntries ------------------------------
(***************************************************************************)
(* Entries on two symbols.  `part` keeps three questions apart: one symbol *)
(* with two entry workers and two candles and events, or one candle and    *)
(* three events; two symbols at the same time for the limit on open        *)
(* positions, with one candle, two events, one entry worker and no signal  *)
(* that expires; and the rows that two runs leave behind which trade       *)
(* against the same books (TradeLedger), on one of a few tapes.            *)
(***************************************************************************)
EXTENDS MCLedger, TradeLedger
CONSTANTS m1, m2, l1, l2
VARIABLES part, tape

Touched(s) == journal[s] # <<>> \/ \E r \in Runs : cursor[<<r, s>>].evaluated # 0
Within ==
  \/ /\ part = "sequence"
     /\ Cardinality({s \in Symbols : Touched(s)}) <= 1
     /\ \A s \in Symbols, r \in Runs : Len(journal[s]) + cursor[<<r, s>>].evaluated <= 4
  \/ /\ part = "capacity"
     /\ \A s \in Symbols : Len(journal[s]) <= 2
     /\ \A l \in Runs \X Symbols : cursor[l].evaluated <= 1
     /\ late = {}
     /\ Cardinality({w \in EntryLanes : snap[w] # Idle}) <= 1

(* Two runs that enter at market and leave through the book, or two that   *)
(* rest an order and close whole.                                          *)
AtMarket == {m1, m2}
Resting == {l1, l2}
AllRuns == AtMarket \cup Resting

(* A tape: taker, book and arrival of each event after the first.          *)
Event(taker, book, arrival) == <<taker, book, arrival>>
Tapes ==
  [market : {<<Event("Sell", "new", "plain"), Event("Buy", "same", "plain"),
               Event("Sell", "same", "plain")>>,
             <<Event("Buy", "new", "plain"), Event("Sell", "none", "plain")>>}]
  \cup
  [resting : {<<Event("Sell", "new", "plain"), Event("Sell", "same", "plain")>>,
              <<Event("Buy", "same", "plain"), Event("block", "same", "plain"),
                Event("Sell", "new", "plain")>>,
              <<Event("Sell", "new", "plain"), Event("Buy", "same", "late"),
                Event("Sell", "new", "plain")>>,
              <<Event("Sell", "new", "plain"), Event("Sell", "none", "plain"),
                Event("Sell", "new", "moved")>>}]
Kind == IF "market" \in DOMAIN tape THEN "market" ELSE "resting"
Look(i) == Event(ticks[i].taker,
                 CASE ticks[i].book = 0 -> "none"
                   [] \E k \in 1..(i - 1) : ticks[k].book = ticks[i].book -> "same"
                   [] OTHER -> "new",
                 CASE ticks[i].received # ticks[i].at -> "late"
                   [] ticks[i].stream # ticks[i - 1].stream -> "moved"
                   [] OTHER -> "plain")
OnTape ==
  /\ Len(ticks) <= Len(tape[Kind]) + 1
  /\ LastTick > 1 => Look(LastTick) = tape[Kind][LastTick - 1]
  /\ \A r \in AllRuns : signals[r].status # "none" =>
       /\ r \in (IF Kind = "market" THEN AtMarket ELSE Resting)
       /\ signals[r].detected = signals[r].decided
       /\ signals[r].decided <= (IF Kind = "market" THEN 0 ELSE 1)
  /\ signals[m2].status # "none" => signals[m1].status # "none"
  /\ signals[l2].status # "none" => signals[l1].status # "none"
  /\ Kind = "market" => clock <= 1
  /\ \A r \in AllRuns :
       signals[r].status = "done" /\ positions[r].status = "NONE" =>
         clock = (IF Kind = "market" THEN 1 ELSE 2)
  /\ \A f \in 1..Len(fills) :
       LET o == orders[fills[f].order] IN
       o.kind = "entry" /\ o.run \in AtMarket =>
         fills[f].quantity = Available(o, fills[f].event, fills[f].own + fills[f].public)

EntriesInit == /\ Init /\ TradeInit
               /\ part \in {"sequence", "capacity", "rows"}
               /\ tape \in Tapes
               /\ part # "rows" => tape = CHOOSE t \in Tapes : TRUE
EntriesNext ==
  /\ UNCHANGED <<part, tape>>
  /\ \/ /\ part # "rows" /\ Next /\ Within'
        /\ UNCHANGED tradeVars
     \/ /\ part = "rows" /\ TradeNext /\ OnTape'
        /\ UNCHANGED vars
EntriesSpec == EntriesInit /\ [][EntriesNext]_<<vars, part, tape, tradeVars>>
=============================================================================
