----------------------------- MODULE AuditVerdict -----------------------------
(***************************************************************************)
(* The verdict on a closed trade: auditClosedTrade, extendAccountAudit and *)
(* assessTradeAcceptance.  The rows of the trade are final; what changes   *)
(* between two audits is the evidence that can still be read.  Retention,  *)
(* budgets and outages take it away, the end of an outage gives it back.   *)
(*                                                                         *)
(* Outcomes are computed from a set e of evidence, so that the audits of   *)
(* one trade with more and with less evidence can be compared.  A check    *)
(* whose error message reads like a missing source counts as unknown       *)
(* (missingAuditSource); the defects here are the others.  Every check     *)
(* that passes or fails has references.                                    *)
(***************************************************************************)
EXTENDS Naturals

VARIABLES
  closed,   \* what its rows say: [type, partial, reason, exits, timed, funded, latched,
            \*   fromEntry, path, streams, armed, trailed, proofs]
  defects,  \* the checks that would fail if everything could be read
  kept      \* the evidence that can be read

verdictVars == <<closed, defects, kept>>

-----------------------------------------------------------------------------
(***************************************************************************)
(* What is checked, and what an audit has to read for it.                  *)
(***************************************************************************)
Evidence == {"entry-receipt", "entry-decision", "signal", "exit-receipt", "funding-receipt",
             "rules", "trace", "prices", "account-proof"}

Needs ==
  [id \in {"bindings", "trade-accounting", "fill-ledger", "funding-payments", "entry-fill",
           "entry-timing", "instrument-rules", "initial-protection", "entry-finality",
           "exit-fill", "trace-integrity", "recorded-replay", "account-proof-integrity",
           "admission"} |->
     CASE id \in {"bindings", "trade-accounting", "fill-ledger"} -> {}
       [] id = "funding-payments" -> {"funding-receipt"}
       [] id = "entry-fill" -> {"entry-receipt"}
       [] id = "entry-timing" -> {"entry-receipt", "entry-decision"}
       [] id = "entry-finality" -> {"entry-receipt", "signal"}
       [] id = "instrument-rules" -> {"rules"}
       [] id = "exit-fill" -> {"exit-receipt"}
       [] id \in {"initial-protection", "trace-integrity"} -> {"trace"}
       [] id = "recorded-replay" -> {"trace", "prices"}
       [] id \in {"account-proof-integrity", "admission"} -> {"account-proof"}]

(* A trace from the middle of the position, a hole in it, an account proof *)
(* without the entry: nothing can be verified.                             *)
Open(id, e) ==
  /\ Needs[id] \subseteq e
  /\ id = "initial-protection" => closed.fromEntry
  /\ id = "exit-fill" => IF closed.latched THEN "rules" \in e
                         ELSE closed.reason \in {"stop-loss", "take-profit", "trailing-stop",
                                                 "holding-timeout"}
  /\ id = "recorded-replay" => closed.path # "gap" /\ "trace-integrity" \notin defects
  /\ id = "admission" => /\ closed.proofs \in {"partial", "all"}
                         /\ "account-proof-integrity" \notin defects
  /\ id = "account-proof-integrity" => closed.proofs # "none"

Checked(id, e) ==
  IF ~Open(id, e) THEN "unknown" ELSE IF id \in defects THEN "fail" ELSE "pass"

(* The whole life of the position was replayed as it was.                  *)
Complete(e) ==
  /\ closed.fromEntry /\ closed.path = "continuous" /\ closed.streams = 1
  /\ Checked("recorded-replay", e) = "pass"

FromReplay == {"exit-priority", "first-eligible-trigger", "prospective-peak",
               "cost-aware-level", "monotone-protection", "holding-deadline",
               "checkpoint-continuity", "causal-recovery", "signal-finality",
               "continuous-path"}
Settled == {"bindings", "trade-accounting", "fill-ledger", "funding-payments"}

(* The checks behind a check, and when they say something about it.        *)
Parts(id) ==
  CASE id \in DOMAIN Needs -> {id}
    [] id \in FromReplay -> {"recorded-replay"}
    [] id = "quantity-conservation" -> {"fill-ledger"}
    [] id = "original-risk" -> {"initial-protection", "recorded-replay"}
    [] id = "settlement" -> Settled
    [] id = "fees-funding" -> Settled \cup (IF closed.funded THEN {"recorded-replay"} ELSE {})
    [] id = "source-integrity" -> {"bindings", "trace-integrity"}
    [] id = "residual-protection" -> {"initial-protection", "fill-ledger", "recorded-replay"}
    [] id = "limit-ttl" -> {"entry-fill", "entry-timing"}
    [] id = "cash-equity" -> {"account-proof-integrity"}
    [] id = "idempotency" -> {"trace-integrity"}
Ready(id, e) ==
  /\ id \in FromReplay \cup {"residual-protection"} => Complete(e)
  /\ id = "cash-equity" => closed.proofs = "all" \/ "account-proof-integrity" \in defects
  /\ id # "idempotency"

Checks == DOMAIN Needs \cup FromReplay
            \cup {"quantity-conservation", "original-risk", "settlement", "fees-funding",
                  "source-integrity", "residual-protection", "limit-ttl", "cash-equity",
                  "idempotency"}

Combined_UnlessFailed(outcomes) == IF "fail" \in outcomes THEN "fail" ELSE "pass"
Combined(outcomes) ==
  IF "fail" \in outcomes THEN "fail" ELSE IF outcomes = {"pass"} THEN "pass" ELSE "unknown"

Outcome(id, e) ==
  IF Ready(id, e) THEN Combined({Checked(part, e) : part \in Parts(id)}) ELSE "unknown"

-----------------------------------------------------------------------------
(***************************************************************************)
(* The cases of the acceptance contract.                                   *)
(***************************************************************************)
Entries == {"market-entry", "limit-entry", "full-entry", "partial-entry"}
Exits == {"stop-loss", "take-profit", "break-even", "trailing", "signal-exit",
          "holding-timeout", "partial-exit"}
Cases == Entries \cup Exits \cup {"recovery", "restart", "settlement"}

ChecksOf(c) ==
  CASE c \in Entries ->
         {"source-integrity", "signal-finality", "admission", "entry-fill", "residual-protection"}
         \cup (IF c = "limit-entry" THEN {"limit-ttl"}
               ELSE IF c # "market-entry" THEN {"quantity-conservation"} ELSE {})
    [] c \in Exits ->
         {"source-integrity", "original-risk", "exit-priority", "first-eligible-trigger",
          "exit-fill", "settlement"}
         \cup (CASE c = "break-even" -> {"prospective-peak", "cost-aware-level"}
                 [] c = "trailing" -> {"prospective-peak", "monotone-protection"}
                 [] c = "signal-exit" -> {"signal-finality"}
                 [] c = "holding-timeout" -> {"holding-deadline"}
                 [] c = "partial-exit" -> {"quantity-conservation", "residual-protection"}
                 [] OTHER -> {})
    [] c = "recovery" -> {"source-integrity", "causal-recovery", "checkpoint-continuity",
                          "exit-priority", "settlement"}
    [] c = "restart" -> {"source-integrity", "checkpoint-continuity", "idempotency",
                         "residual-protection", "settlement"}
    [] c = "settlement" -> {"source-integrity", "quantity-conservation", "fees-funding",
                            "cash-equity", "settlement"}

SourcesOf(c) ==
  CASE c \in {"market-entry", "limit-entry"} ->
         {"entry-intent", "signal", "public-trades-l1", "fills"}
    [] c = "full-entry" -> {"entry-intent", "fills", "position"}
    [] c = "partial-entry" -> {"entry-intent", "fills", "cancelled-remainder", "position"}
    [] c \in Exits ->
         {"initial-snapshot", "continuous-path", "fills", "ledger"}
         \cup (IF c \in {"break-even", "trailing"} THEN {"protection-checkpoints"}
               ELSE {"exit-intent"} \cup (IF c = "signal-exit" THEN {"signal"} ELSE {}))
    [] c = "recovery" -> {"initial-snapshot", "recovery-boundaries", "recovery-inputs",
                          "protection-checkpoints", "ledger"}
    [] c = "restart" -> {"before-restart", "after-restart", "fills", "ledger"}
    [] c = "settlement" -> {"initial-snapshot", "fills", "funding", "ledger"}

(* For an entry it is the entry signal that must have been final.          *)
CheckFor(c, id) ==
  IF id = "signal-finality" /\ c \in Entries THEN "entry-finality" ELSE id

YesNo(b) == IF b THEN "yes" ELSE "no"
YesOr(b, otherwise) == IF b THEN "yes" ELSE otherwise

(* That nothing was observed does not make a case inapplicable.            *)
Applies(c, e) ==
  CASE c = "market-entry" -> YesNo(closed.type = "MARKET")
    [] c = "limit-entry" -> YesNo(closed.type = "LIMIT")
    [] c = "full-entry" -> YesNo(~closed.partial)
    [] c = "partial-entry" -> YesNo(closed.partial)
    [] c = "settlement" -> "yes"
    [] c \in {"stop-loss", "take-profit", "signal-exit"} -> YesNo(closed.reason = c)
    [] c = "holding-timeout" ->
         YesOr(closed.reason = c, IF closed.timed THEN "unknown" ELSE "no")
    [] c = "partial-exit" -> YesOr(closed.exits > 1, "unknown")
    [] c = "break-even" -> YesOr(closed.armed /\ "trace" \in e, "unknown")
    [] c = "trailing" ->
         YesOr(closed.reason = "trailing-stop" \/ (closed.trailed /\ "trace" \in e), "unknown")
    [] c = "recovery" ->
         YesOr(\/ closed.reason = "recovery-exit"
               \/ closed.path = "recovered" /\ Open("recorded-replay", e), "unknown")
    [] c = "restart" -> "unknown"

Given(condition, sources) == IF condition THEN sources ELSE {}
SourcesAt(e) ==
  {"fills"}
  \cup Given(Outcome("trace-integrity", e) = "pass", {"initial-snapshot", "protection-checkpoints"})
  \cup Given(Complete(e), {"continuous-path", "signal"})
  \cup Given(closed.path = "recovered" /\ Checked("recorded-replay", e) = "pass",
             {"recovery-boundaries", "recovery-inputs"})
  \cup Given("entry-receipt" \in e, {"entry-intent", "public-trades-l1", "cancelled-remainder"})
  \cup Given(Outcome("settlement", e) = "pass", {"ledger", "funding", "position"})
  \cup Given(closed.latched, {"exit-intent"})

Failing(c, e) == \E id \in ChecksOf(c) : Outcome(CheckFor(c, id), e) = "fail"
Assess(c, e) ==
  IF Failing(c, e) THEN "violation"
  ELSE IF Applies(c, e) = "no" THEN "not-applicable"
  ELSE IF /\ Applies(c, e) = "yes"
          /\ \A id \in ChecksOf(c) : Outcome(CheckFor(c, id), e) = "pass"
          /\ SourcesOf(c) \subseteq SourcesAt(e)
       THEN "confirmed" ELSE "insufficient-data"

Verdict(e) ==
  IF \E id \in Checks : Outcome(id, e) = "fail" THEN "violation"
  ELSE IF \E c \in Cases : Assess(c, e) = "insufficient-data" THEN "insufficient-data"
  ELSE "confirmed"

-----------------------------------------------------------------------------
(* The base audit knows no account proofs; the monitor adds them.          *)
VerdictInit ==
  /\ closed \in [type : {"MARKET", "LIMIT"}, partial : BOOLEAN,
                reason : {"stop-loss", "take-profit", "trailing-stop", "signal-exit",
                          "holding-timeout", "recovery-exit", "manual"},
                exits : {1, 2}, timed : BOOLEAN, funded : BOOLEAN, latched : BOOLEAN,
                fromEntry : BOOLEAN, path : {"continuous", "recovered", "gap"},
                streams : {1, 2}, armed : BOOLEAN, trailed : BOOLEAN,
                proofs : {"none", "late", "partial", "all"}]
  /\ defects \in SUBSET DOMAIN Needs
  /\ kept \in SUBSET Evidence

Lose(piece) ==
  /\ piece \in kept
  /\ kept' = kept \ {piece}
  /\ UNCHANGED <<closed, defects>>

Return(piece) ==
  /\ piece \in Evidence \ kept
  /\ kept' = kept \cup {piece}
  /\ UNCHANGED <<closed, defects>>

VerdictNext == \E piece \in Evidence : Lose(piece) \/ Return(piece)

VerdictSpec == VerdictInit /\ [][VerdictNext]_verdictVars

-----------------------------------------------------------------------------
(* A case that is decided with less evidence is decided alike with more,   *)
(* except that a defect may still show up in one that did not apply.       *)
StaysDecided(c, less, more) ==
  Assess(c, less) # "insufficient-data" =>
    \/ Assess(c, more) = Assess(c, less)
    \/ Assess(c, less) = "not-applicable" /\ Assess(c, more) = "violation"

(* Missing history decides nothing: of two audits of a trade the one that  *)
(* could read less never calls a case confirmed, inapplicable or violated  *)
(* that the other does not, and a proven violation of the trade stays one, *)
(* whatever else is missing (docs/closed-trade-audit-v1.md).               *)
EvidenceOnlyDecides ==
  [][kept' # kept =>
       LET less == kept \cap kept'
           more == kept \cup kept'
       IN /\ \A c \in Cases : StaysDecided(c, less, more)
          /\ Verdict(less) = "violation" => Verdict(more) = "violation"]_verdictVars
=============================================================================
