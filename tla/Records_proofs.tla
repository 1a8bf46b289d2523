---------------------------- MODULE Records_proofs ----------------------------
(***************************************************************************)
(* Theorems about records that are edited (RecordEditing), judged          *)
(* (AuditVerdict), archived (PriceArchive), summed (AccountBooks), read    *)
(* page by page (FeedPages) and replayed (DecisionReplay).  The modules    *)
(* share nothing.                                                          *)
(***************************************************************************)
EXTENDS RecordEditing, AuditVerdict, PriceArchive, AccountBooks, FeedPages, DecisionReplay,
        FiniteSums, FiniteSetTheorems, WellFoundedInduction, TLAPS

(* Rows and pages.                                                         *)
Row == [text : Nat, on : BOOLEAN, turns : Nat, updatedAt : Nat]
PageState == [step : {"closed", "editing", "saving", "turning"}, record : Records, shown : Row]

(* A page that has loaded the kill switch, and has since seen no turn of   *)
(* it, shows it as it is; only the status of other records is turned       *)
(* without the version that was shown.                                     *)
ShowsSwitch(p) ==
  /\ page[p].shown.turns <= row[KillSwitch].turns
  /\ page[p].shown.turns = row[KillSwitch].turns => page[p].shown.on = row[KillSwitch].on

EditBooks ==
  /\ row \in [Records -> Row] /\ page \in [Pages -> PageState] /\ saves \in Nat
  /\ \A p \in Pages : page[p].record = KillSwitch => page[p].step # "turning" /\ ShowsSwitch(p)

(* What a page is about, and what it still shows, when its step alone      *)
(* changes.                                                                *)
LEMMA PageStep ==
  ASSUME EditBooks, NEW p \in Pages, NEW step \in {"editing", "saving", "turning"},
         page' = [page EXCEPT ![p].step = step],
         page[p].record = KillSwitch => step # "turning",
         row'[KillSwitch].turns = row[KillSwitch].turns,
         row'[KillSwitch].on = row[KillSwitch].on
  PROVE  /\ page' \in [Pages -> PageState]
         /\ \A q \in Pages : page'[q].record = KillSwitch =>
              page'[q].step # "turning" /\ ShowsSwitch(q)'
<1>1. page' \in [Pages -> PageState]
  BY DEF EditBooks, PageState
<1>2. ASSUME NEW q \in Pages
      PROVE  /\ page'[q].record = page[q].record
             /\ page'[q].shown = page[q].shown
             /\ page'[q].step = IF q = p THEN step ELSE page[q].step
  BY DEF EditBooks, PageState
<1> QED
  BY <1>1, <1>2 DEF EditBooks, ShowsSwitch

(* A loaded record is shown as it is.                                      *)
LEMMA LoadKeeps ==
  ASSUME EditBooks, NEW p \in Pages, Load(p)
  PROVE  EditBooks'
<1>1. page' \in [Pages -> PageState] /\ row' = row /\ saves' = saves
  BY DEF EditBooks, Load, PageState, Stored
<1>2. ASSUME NEW q \in Pages, page'[q].record = KillSwitch
      PROVE  page'[q].step # "turning" /\ ShowsSwitch(q)'
  <2>1. CASE q = p
    <3>1. /\ page[p].record = KillSwitch
          /\ page'[p].step = "editing" /\ page'[p].shown = row[KillSwitch]
      BY <1>2, <2>1 DEF EditBooks, Load, PageState, Stored
    <3> QED
      BY <1>1, <2>1, <3>1, EditAssumption DEF EditBooks, Row, ShowsSwitch
  <2>2. CASE q # p
    BY <1>1, <1>2, <2>2 DEF EditBooks, Load, PageState, ShowsSwitch
  <2> QED
    BY <2>1, <2>2
<1> QED
  BY <1>1, <1>2 DEF EditBooks

(* A save leaves every switch alone.                                       *)
LEMMA SaveKeeps ==
  ASSUME EditBooks, NEW p \in Pages, SaveRead(p) \/ SaveWrite(p)
  PROVE  EditBooks' /\ row'[KillSwitch].on = row[KillSwitch].on
                    /\ row'[KillSwitch].turns = row[KillSwitch].turns
<1>1. CASE SaveRead(p)
  <2>1. row' = row /\ saves' = saves /\ page' = [page EXCEPT ![p].step = "saving"]
    BY <1>1 DEF SaveRead
  <2> QED
    BY <2>1, PageStep DEF EditBooks
<1>2. CASE SaveWrite(p)
  <2>1. /\ row' \in [Records -> Row] /\ saves' \in Nat
        /\ row'[KillSwitch].on = row[KillSwitch].on
        /\ row'[KillSwitch].turns = row[KillSwitch].turns
        /\ page' = [page EXCEPT ![p].step = "editing"]
    BY <1>2, EditAssumption DEF EditBooks, PageState, Row, SaveWrite, Answered
  <2> QED
    BY <2>1, PageStep DEF EditBooks
<1> QED
  BY <1>1, <1>2

(* The switch of one record is turned: the kill switch by a page that has  *)
(* seen its last turn, another's by a page that compared its status.       *)
LEMMA TurnKeeps ==
  ASSUME EditBooks, NEW p \in Pages, SetControl(p) \/ ChangeStatusWrite(p)
  PROVE  EditBooks' /\ (row'[KillSwitch].on # row[KillSwitch].on
                          <=> row'[KillSwitch].turns > row[KillSwitch].turns)
<1>1. CASE SetControl(p)
  <2>1. /\ page' = page /\ saves' = saves
        /\ row' \in [Records -> Row]
        /\ row'[KillSwitch].on = ~page[p].shown.on
        /\ row'[KillSwitch].turns = row[KillSwitch].turns + 1
    BY <1>1, EditAssumption DEF EditBooks, PageState, Row, SetControl, Turned
  <2>2. page[p].shown.on = row[KillSwitch].on
    BY <1>1 DEF EditBooks, SetControl, Expected, Stored, ShowsSwitch
  <2>3. /\ row[KillSwitch].turns \in Nat /\ row[KillSwitch].on \in BOOLEAN
        /\ page[p].shown.on \in BOOLEAN
        /\ \A q \in Pages : page[q].shown.turns \in Nat
    BY EditAssumption DEF EditBooks, PageState, Row
  <2>4. \A q \in Pages : page[q].record = KillSwitch => page[q].step # "turning" /\ ShowsSwitch(q)'
    BY <2>1, <2>3 DEF EditBooks, ShowsSwitch
  <2>5. row'[KillSwitch].on # row[KillSwitch].on
    BY <2>1, <2>2, <2>3
  <2>6. row'[KillSwitch].turns > row[KillSwitch].turns
    BY <2>1, <2>3
  <2> QED
    BY <2>1, <2>4, <2>5, <2>6 DEF EditBooks
<1>2. CASE ChangeStatusWrite(p)
  <2>1. page[p].record # KillSwitch
    BY <1>2 DEF EditBooks, ChangeStatusWrite
  <2>2. /\ row' \in [Records -> Row] /\ saves' = saves
        /\ row'[KillSwitch] = row[KillSwitch]
        /\ page' = [page EXCEPT ![p].step = "editing"]
    BY <1>2, <2>1, EditAssumption DEF EditBooks, PageState, Row, ChangeStatusWrite, Turned, Answered
  <2>3. /\ page' \in [Pages -> PageState]
        /\ \A q \in Pages : page'[q].record = KillSwitch =>
             page'[q].step # "turning" /\ ShowsSwitch(q)'
    <3>1. row'[KillSwitch].turns = row[KillSwitch].turns /\ row'[KillSwitch].on = row[KillSwitch].on
      BY <2>2
    <3> QED
      BY <2>1, <2>2, <3>1, PageStep
  <2>4. row[KillSwitch].turns \in Nat
    BY EditAssumption DEF EditBooks, Row
  <2> QED
    BY <2>2, <2>3, <2>4 DEF EditBooks
<1> QED
  BY <1>1, <1>2

(* A request to turn another record's switch is only begun.                *)
LEMMA AskKeeps ==
  ASSUME EditBooks, NEW p \in Pages, ChangeStatusRead(p)
  PROVE  EditBooks' /\ row' = row
<1>1. /\ row' = row /\ saves' = saves /\ page[p].record # KillSwitch
      /\ page' = [page EXCEPT ![p].step = "turning"]
  BY DEF ChangeStatusRead
<1> QED
  BY <1>1, PageStep DEF EditBooks

(* Every step keeps the books, and turns the kill switch over or not at    *)
(* all.                                                                    *)
LEMMA EditStep ==
  ASSUME EditBooks, [EditNext]_editVars
  PROVE  EditBooks' /\ (row'[KillSwitch].on # row[KillSwitch].on
                          <=> row'[KillSwitch].turns > row[KillSwitch].turns)
<1>1. row[KillSwitch].turns \in Nat
  BY EditAssumption DEF EditBooks, Row
<1>2. ASSUME NEW p \in Pages, Load(p)
      PROVE  EditBooks' /\ row' = row
  BY <1>2, LoadKeeps DEF Load
<1>3. CASE UNCHANGED editVars
  BY <1>1, <1>3 DEF editVars, EditBooks, ShowsSwitch
<1> QED
  BY <1>1, <1>2, <1>3, SaveKeeps, TurnKeeps, AskKeeps DEF EditNext

(* A page that is opened shows the record as it first is.                  *)
LEMMA EditBooksInit == EditInit => EditBooks
<1> SUFFICES ASSUME EditInit PROVE EditBooks
  OBVIOUS
<1>1. row \in [Records -> Row] /\ saves \in Nat
  BY DEF EditInit, Row
<1> DEFINE Opened == {[step |-> "closed", record |-> r, shown |-> row[r]] : r \in Records}
<1>2. page \in [Pages -> Opened]
  BY DEF EditInit
<1>3. ASSUME NEW p \in Pages
      PROVE  /\ page[p] \in PageState
             /\ page[p].step = "closed" /\ page[p].shown = row[page[p].record]
  <2>1. PICK r \in Records : page[p] = [step |-> "closed", record |-> r, shown |-> row[r]]
    BY <1>2
  <2> QED
    BY <1>1, <2>1 DEF PageState
<1>4. row[KillSwitch].turns \in Nat
  BY <1>1, EditAssumption DEF Row
<1>5. page \in [Pages -> PageState]
  BY <1>2, <1>3
<1> QED
  BY <1>1, <1>2, <1>3, <1>4, <1>5 DEF EditBooks, ShowsSwitch

(* The kill switch is never turned the wrong way: whoever turns it had     *)
(* been shown the state it was in, whatever other pages turn and save      *)
(* meanwhile (SettingsRepository.setControl with the version it expects).  *)
THEOREM SwitchNeverSlips == EditSpec => SwitchTurnedAsShown
<1>1. EditInit => EditBooks
  BY EditBooksInit
<1>2. EditBooks /\ [EditNext]_editVars => EditBooks'
  BY EditStep
<1>3. EditBooks /\ [EditNext]_editVars =>
        [row'[KillSwitch].on # row[KillSwitch].on
           <=> row'[KillSwitch].turns > row[KillSwitch].turns]_editVars
  BY EditStep
<1> QED
  BY <1>1, <1>2, <1>3, PTL DEF EditSpec, SwitchTurnedAsShown
-----------------------------------------------------------------------------
(* The verdicts: what an audit decides with some evidence it decides with  *)
(* more.  Every operator from Open to Assess is shown to keep what it says *)
(* when evidence is added; `e` is less of it, `f` is more.                 *)

(* What can be verified with less evidence can be verified with more.      *)
LEMMA OpenGrows ==
  ASSUME NEW id, NEW e, NEW f, e \subseteq f, Open(id, e)
  PROVE  Open(id, f)
BY DEF Open

(* A check with a result has it with more evidence too.                    *)
LEMMA CheckedStays ==
  ASSUME NEW id, NEW e, NEW f, e \subseteq f, Checked(id, e) # "unknown"
  PROVE  Checked(id, f) = Checked(id, e)
<1>1. Open(id, e)
  BY DEF Checked
<1>2. Open(id, f)
  BY <1>1, OpenGrows
<1> QED
  BY <1>1, <1>2 DEF Checked

(* A life that was replayed whole stays so.                                *)
LEMMA CompleteGrows ==
  ASSUME NEW e, NEW f, e \subseteq f, Complete(e)
  PROVE  Complete(f)
<1>1. Checked("recorded-replay", e) = "pass"
  BY DEF Complete
<1>2. Checked("recorded-replay", f) = "pass"
  BY <1>1, CheckedStays
<1> QED
  BY <1>2 DEF Complete

(* A check that says something keeps saying something.                     *)
LEMMA ReadyGrows ==
  ASSUME NEW id, NEW e, NEW f, e \subseteq f, Ready(id, e)
  PROVE  Ready(id, f)
BY CompleteGrows DEF Ready

(* Combining parts that stay decided is decided alike: one failure is      *)
(* enough for "fail", and "pass" needs every part.                         *)
LEMMA CombinedStays ==
  ASSUME NEW P, NEW e, NEW f, e \subseteq f,
         Combined({Checked(part, e) : part \in P}) # "unknown"
  PROVE  Combined({Checked(part, f) : part \in P}) = Combined({Checked(part, e) : part \in P})
<1> DEFINE With == {Checked(part, e) : part \in P}
           WithMore  == {Checked(part, f) : part \in P}
<1>1. CASE "fail" \in With
  <2>1. PICK part \in P : Checked(part, e) = "fail"
    BY <1>1
  <2>2. Checked(part, f) = "fail"
    BY <2>1, CheckedStays
  <2>3. "fail" \in WithMore
    BY <2>2
  <2> QED
    BY <1>1, <2>3 DEF Combined
<1>2. CASE "fail" \notin With
  <2>1. With = {"pass"}
    BY <1>2 DEF Combined
  <2>2. \A part \in P : Checked(part, e) = "pass"
    BY <2>1
  <2>3. \A part \in P : Checked(part, f) = "pass"
    BY <2>2, CheckedStays
  <2>4. P # {}
    BY <2>1
  <2>5. WithMore = {"pass"}
    BY <2>3, <2>4
  <2> QED
    BY <2>1, <2>5 DEF Combined
<1> QED
  BY <1>1, <1>2

(* Every check of an audit, combined ones included, keeps its outcome.     *)
LEMMA OutcomeStays ==
  ASSUME NEW id, NEW e, NEW f, e \subseteq f, Outcome(id, e) # "unknown"
  PROVE  Outcome(id, f) = Outcome(id, e)
<1>1. Ready(id, e)
  BY DEF Outcome
<1>2. Ready(id, f)
  BY <1>1, ReadyGrows
<1>3. Combined({Checked(part, e) : part \in Parts(id)}) # "unknown"
  BY <1>1 DEF Outcome
<1>4. Combined({Checked(part, f) : part \in Parts(id)})
        = Combined({Checked(part, e) : part \in Parts(id)})
  BY <1>3, CombinedStays
<1> QED
  BY <1>1, <1>2, <1>4 DEF Outcome

(* Whether a case applies, once known, stays known.                        *)
LEMMA AppliesStays ==
  ASSUME NEW c \in Cases, NEW e, NEW f, e \subseteq f, Applies(c, e) # "unknown"
  PROVE  Applies(c, f) = Applies(c, e)
<1> USE DEF YesOr, YesNo
<1>1. CASE c \in {"market-entry", "limit-entry", "full-entry", "partial-entry", "settlement"}
  BY <1>1 DEF Applies
<1>2. CASE c \in {"stop-loss", "take-profit", "signal-exit", "holding-timeout", "partial-exit"}
  BY <1>2 DEF Applies
<1>3. CASE c = "break-even"
  BY <1>3 DEF Applies
<1>4. CASE c = "trailing"
  BY <1>4 DEF Applies
<1>5. CASE c = "recovery"
  <2>1. Open("recorded-replay", e) => Open("recorded-replay", f)
    BY OpenGrows
  <2> QED
    BY <1>5, <2>1 DEF Applies
<1>6. CASE c = "restart"
  BY <1>6 DEF Applies
<1> QED
  BY <1>1, <1>2, <1>3, <1>4, <1>5, <1>6 DEF Cases, Entries, Exits

(* More evidence is at least as many sources of a case.                    *)
LEMMA SourcesGrow ==
  ASSUME NEW e, NEW f, e \subseteq f
  PROVE  SourcesAt(e) \subseteq SourcesAt(f)
<1>1. Outcome("trace-integrity", e) = "pass" => Outcome("trace-integrity", f) = "pass"
  BY OutcomeStays
<1>2. Outcome("settlement", e) = "pass" => Outcome("settlement", f) = "pass"
  BY OutcomeStays
<1>3. Checked("recorded-replay", e) = "pass" => Checked("recorded-replay", f) = "pass"
  BY CheckedStays
<1>4. Complete(e) => Complete(f)
  BY CompleteGrows
<1>5. "entry-receipt" \in e => "entry-receipt" \in f
  OBVIOUS
<1> QED
  BY <1>1, <1>2, <1>3, <1>4, <1>5 DEF SourcesAt, Given

(* The heart of the matter: a case that is decided stays decided.  Only a  *)
(* case that did not apply may turn out to hide a violation.               *)
LEMMA CasesStayDecided ==
  ASSUME NEW c \in Cases, NEW e, NEW f, e \subseteq f
  PROVE  StaysDecided(c, e, f)
<1>1. \A id : Outcome(id, e) = "fail" => Outcome(id, f) = "fail"
  BY OutcomeStays
<1>2. \A id : Outcome(id, e) = "pass" => Outcome(id, f) = "pass"
  BY OutcomeStays
<1>3. CASE Failing(c, e)
  <2>1. Failing(c, f)
    BY <1>1, <1>3 DEF Failing
  <2> QED
    BY <1>3, <2>1 DEF StaysDecided, Assess
<1>4. CASE ~Failing(c, e) /\ Applies(c, e) = "no"
  <2>1. Applies(c, f) = "no"
    BY <1>4, AppliesStays
  <2> QED
    BY <1>4, <2>1 DEF StaysDecided, Assess
<1>5. CASE ~Failing(c, e) /\ Applies(c, e) # "no" /\ Assess(c, e) # "insufficient-data"
  <2>1. /\ Applies(c, e) = "yes"
        /\ \A id \in ChecksOf(c) : Outcome(CheckFor(c, id), e) = "pass"
        /\ SourcesOf(c) \subseteq SourcesAt(e)
        /\ Assess(c, e) = "confirmed"
    BY <1>5 DEF Assess
  <2>2. Applies(c, f) = "yes"
    BY <2>1, AppliesStays
  <2>3. \A id \in ChecksOf(c) : Outcome(CheckFor(c, id), f) = "pass"
    BY <1>2, <2>1
  <2>4. ~Failing(c, f)
    BY <2>3 DEF Failing
  <2>5. SourcesOf(c) \subseteq SourcesAt(f)
    BY <2>1, SourcesGrow
  <2>6. Assess(c, f) = "confirmed"
    BY <2>2, <2>3, <2>4, <2>5 DEF Assess
  <2> QED
    BY <2>1, <2>6 DEF StaysDecided
<1> QED
  BY <1>3, <1>4, <1>5 DEF StaysDecided

(* A proven violation does not depend on what else could be read.          *)
LEMMA ViolationStays ==
  ASSUME NEW e, NEW f, e \subseteq f, Verdict(e) = "violation"
  PROVE  Verdict(f) = "violation"
<1>1. PICK id \in Checks : Outcome(id, e) = "fail"
  BY DEF Verdict
<1>2. Outcome(id, f) = "fail"
  BY <1>1, OutcomeStays
<1> QED
  BY <1>2 DEF Verdict

(* Whatever retention, budgets and outages take away or give back, no two  *)
(* audits of a trade contradict each other: the one that could read less   *)
(* only knows less (auditClosedTrade, extendAccountAudit and               *)
(* assessTradeAcceptance).                                                 *)
THEOREM AuditsNeverContradict == VerdictSpec => EvidenceOnlyDecides
<1> DEFINE less == kept \cap kept'
           more == kept \cup kept'
           Agreed == /\ \A c \in Cases : StaysDecided(c, less, more)
                     /\ Verdict(less) = "violation" => Verdict(more) = "violation"
<1>1. less \subseteq more
  OBVIOUS
<1>2. \A c \in Cases : StaysDecided(c, less, more)
  BY <1>1, CasesStayDecided
<1>3. Verdict(less) = "violation" => Verdict(more) = "violation"
  BY <1>1, ViolationStays
<1>4. [kept' # kept => Agreed]_verdictVars
  BY <1>2, <1>3
<1> QED
  BY <1>4, PTL DEF EvidenceOnlyDecides
-----------------------------------------------------------------------------
(* The archive.  First what is said of finite sets of events.              *)

(* A set of natural numbers that is not empty has a least element.         *)
LEMMA Least ==
  ASSUME NEW T \in SUBSET Nat, T # {}
  PROVE  \E x \in T : \A y \in T : x <= y
<1>1. PICK R : /\ IsWellFoundedOn(R, Nat)
               /\ \A x, y \in Nat : <<y, x>> \in R <=> y < x
  <2>1. IsWellFoundedOn(OpToRel(<, Nat), Nat)
    BY NatLessThanWellFounded
  <2>2. \A x, y \in Nat : <<y, x>> \in OpToRel(<, Nat) <=> y < x
    BY DEF OpToRel
  <2> DEFINE Q == OpToRel(<, Nat)
  <2> SUFFICES /\ IsWellFoundedOn(Q, Nat)
               /\ \A x, y \in Nat : <<y, x>> \in Q <=> y < x
    OBVIOUS
  <2> QED
    BY <2>1, <2>2
<1>2. PICK x \in T : \A y \in T : ~ (<<y, x>> \in R)
  BY <1>1, WFMin
<1>3. ASSUME NEW y \in T
      PROVE  x <= y
  <2>1. x \in Nat /\ y \in Nat
    OBVIOUS
  <2>2. ~(y < x)
    BY <1>1, <1>2, <2>1, Zenon
  <2> QED
    BY <2>1, <2>2
<1> QED
  BY <1>3

(* Min is that element,                                                    *)
LEMMA MinIsLeast ==
  ASSUME NEW S \in SUBSET Nat, S # {}
  PROVE  Min(S) \in S /\ \A x \in S : Min(S) <= x
BY Least DEF Min

(* and Max the greatest one when there is a bound.                         *)
LEMMA MaxIsGreatest ==
  ASSUME NEW S \in SUBSET Nat, S # {}, NEW n \in Nat, \A x \in S : x <= n
  PROVE  Max(S) \in S /\ \A x \in S : x <= Max(S)
<1> DEFINE T == {n - x : x \in S}
<1>1. T \in SUBSET Nat /\ T # {}
  <2>1. \A x \in S : n - x \in Nat
    OBVIOUS
  <2>2. T \in SUBSET Nat
    BY <2>1
  <2>3. T # {}
    OBVIOUS
  <2> QED
    BY <2>2, <2>3
<1>2. PICK t \in T : \A u \in T : t <= u
  BY <1>1, Least
<1>3. PICK m \in S : t = n - m
  OBVIOUS
<1>4. \A x \in S : n - m <= n - x
  BY <1>2, <1>3
<1>5. \A x \in S : m >= x
  BY <1>4
<1> QED
  BY <1>5 DEF Max

(* The first n of a set have with an element all that are smaller,         *)
LEMMA FirstIsPrefix ==
  ASSUME NEW S \in SUBSET Nat, IsFiniteSet(S), NEW n \in Nat,
         NEW e \in FirstOf(S, n), NEW f \in S, f <= e
  PROVE  f \in FirstOf(S, n)
<1> DEFINE F == {x \in S : x <= f}
           E == {x \in S : x <= e}
<1>1. e \in S /\ Cardinality(E) <= n
  BY DEF FirstOf
<1>2. E \in SUBSET S /\ F \in SUBSET E
  <2>1. ASSUME NEW x \in S, x <= f
        PROVE  x <= e
    <3>1. x \in Nat /\ f \in Nat /\ e \in Nat
      BY <1>1
    <3> QED
      BY <2>1, <3>1
  <2> QED
    BY <2>1
<1>3. IsFiniteSet(E)
  BY <1>2, FS_Subset
<1>4. Cardinality(F) <= Cardinality(E) /\ IsFiniteSet(F)
  BY <1>2, <1>3, FS_Subset
<1>5. Cardinality(F) \in Nat /\ Cardinality(E) \in Nat
  BY <1>3, <1>4, FS_CardinalityType
<1>6. Cardinality(F) <= n
  <2> HIDE DEF E, F
  <2> QED BY <1>1, <1>4, <1>5
<1> QED
  BY <1>6 DEF FirstOf

(* and are none only if there is none.                                     *)
LEMMA FirstIsFound ==
  ASSUME NEW S \in SUBSET Nat, S # {}, NEW n \in Nat \ {0}
  PROVE  Min(S) \in FirstOf(S, n)
<1>1. Min(S) \in S /\ \A x \in S : Min(S) <= x
  BY MinIsLeast
<1>2. {x \in S : x <= Min(S)} = {Min(S)}
  <2>1. ASSUME NEW x \in S, x <= Min(S)
        PROVE  x = Min(S)
    <3>1. x \in Nat /\ Min(S) \in Nat /\ Min(S) <= x
      BY <1>1
    <3> QED
      BY <2>1, <3>1
  <2>2. Min(S) <= Min(S)
    BY <1>1
  <2> QED
    BY <1>1, <2>1, <2>2
<1>3. Cardinality({x \in S : x <= Min(S)}) = 1
  BY <1>2, FS_Singleton
<1> QED
  BY <1>1, <1>3 DEF FirstOf

(* What pending entries, positions and their traces are.                   *)
PositionRow ==
  [status : {"none", "pending", "OPEN", "CLOSED"}, symbol : Symbols, at : Nat, ioc : Nat,
   start : Nat, end : Nat, retained : BOOLEAN]

ArchiveTypes ==
  /\ journal \in Seq(Symbols) /\ hot \subseteq Ids
  /\ aged \in Nat /\ aged <= Len(journal)
  /\ chunks \subseteq SUBSET Ids
  /\ position \in [Positions -> PositionRow] /\ read \in [Positions -> SUBSET Nat]
  /\ pass \in [step : {"idle", "pending", "orders", "batch", "traces"},
               before : Nat, cursors : SUBSET Nat, batch : SUBSET Nat]
  /\ replay \in [of : SUBSET Positions, at : Nat, seen : SUBSET Nat, gap : BOOLEAN]

(* What was removed from the hot journal is aged, and older than all that  *)
(* is left of it: a batch is the oldest part.                              *)
HotIsNewest == \A e \in Ids \ hot : e <= aged /\ \A f \in hot : e < f

(* So the chunks of a market follow one another without overlap, which is  *)
(* what lets `after` stop at the last chunk it loaded.                     *)
Precedes(a, b) == \A x \in a, y \in b : x < y
ChunksApart ==
  /\ \A k \in chunks : k # {} /\ k \cap hot = {}
  /\ \A s \in Symbols, a, b \in chunks :
       a \subseteq Of(s) /\ b \subseteq Of(s) /\ a # b => Precedes(a, b) \/ Precedes(b, a)

(* A running pass has read the cursor of every open position, or the       *)
(* position was filled since, by an event younger than the retention: what *)
(* the pass is about to remove is behind them all.                         *)
AheadAt(at) == at > pass.before \/ \E c \in pass.cursors : c <= at
PassSafe ==
  /\ pass.before <= aged
  /\ pass.step # "traces" => pass.batch = {}
  /\ pass.batch \subseteq hot
  /\ \A e \in pass.batch : e <= pass.before /\ \A c \in pass.cursors : e < c
  /\ \A e \in pass.batch, f \in hot : f < e => f \in pass.batch
  /\ pass.step # "idle" =>
       \A p \in Positions : position[p].status = "OPEN" => AheadAt(position[p].at)

(* What a retained trace needs and is not hot any more is in a chunk.      *)
Archived(s, e) == \E k \in chunks : e \in k /\ k \subseteq Of(s)
InTrace(x, e) == /\ e \in Of(x.symbol) /\ x.start <= e
                 /\ x.status = "CLOSED" => e <= x.end
Kept(x) ==
  \A e \in Ids \ hot : x.retained /\ InTrace(x, e) => Archived(x.symbol, e)

(* A position has been managed through all events since its fill, and an   *)
(* open one stands at or before the first that is still hot.               *)
Span(s, from, to) == {e \in Of(s) : from < e /\ e <= to}
StandsAs(x, seen) ==
  /\ x.status \in {"none", "pending"} =>
       x.start = 0 /\ ~x.retained /\ seen = {}
  /\ x.status \in {"OPEN", "CLOSED"} =>
       /\ 1 <= x.start /\ x.start <= x.at /\ x.at \in Of(x.symbol)
       /\ seen = Span(x.symbol, x.start, x.at)
  /\ x.status = "OPEN" => x.retained /\ \A e \in Ids \ hot : e <= x.at
  /\ x.status = "CLOSED" => x.end = x.at
Stands == \A p \in Positions : StandsAs(position[p], read[p]) /\ Kept(position[p])

(* A replay has read exactly its trace up to where it stands.              *)
ReplaysOf(x) ==
  /\ x.status = "CLOSED"
  /\ x.retained =>
       /\ ~replay.gap /\ x.start <= replay.at + 1 /\ replay.at <= x.end
       /\ replay.seen = {e \in Of(x.symbol) : x.start <= e /\ e <= replay.at}
Replays == \A p \in replay.of : ReplaysOf(position[p]) /\ \A q \in replay.of : q = p

ArchiveInv ==
  /\ ArchiveTypes /\ HotIsNewest /\ ChunksApart /\ PassSafe
  /\ Stands /\ Replays

(* The chunks that are loaded: no more than n, by their first event.       *)
FirstChunks(K, n) == {k \in K : Cardinality({c \in K : Min(c) <= Min(k)}) <= n}

(* When not every chunk is loaded, the most that may be loaded are, and    *)
(* those that are loaded end before the first that is not.                 *)
LEMMA LoadedAreFirst ==
  ASSUME NEW K, IsFiniteSet(K), \A k \in K : k \in SUBSET Nat /\ k # {},
         \A a, b \in K : a # b => Precedes(a, b) \/ Precedes(b, a),
         NEW L \in Nat \ {0}, NEW k \in K, k \notin FirstChunks(K, L)
  PROVE  /\ Cardinality(FirstChunks(K, L)) = L
         /\ \A l \in FirstChunks(K, L) : Precedes(l, k)
<1> DEFINE UpTo(c) == {d \in K : Min(d) <= Min(c)}
           loaded  == FirstChunks(K, L)
<1>1. \A c \in K : Min(c) \in c /\ Min(c) \in Nat /\ \A x \in c : Min(c) <= x
  BY MinIsLeast
<1>2. \A a, b \in K : a # b => (Precedes(a, b) <=> Min(a) < Min(b))
  <2> SUFFICES ASSUME NEW a \in K, NEW b \in K, a # b
               PROVE  Precedes(a, b) <=> Min(a) < Min(b)
    OBVIOUS
  <2>1. Precedes(a, b) => Min(a) < Min(b)
    BY <1>1 DEF Precedes
  <2>2. Precedes(b, a) => Min(b) < Min(a)
    BY <1>1 DEF Precedes
  <2> QED
    BY <1>1, <2>1, <2>2
<1>3. \A c \in K : IsFiniteSet(UpTo(c)) /\ Cardinality(UpTo(c)) \in Nat
  BY FS_Subset, FS_CardinalityType
<1>4. loaded \subseteq K /\ \A c \in K : c \in loaded <=> Cardinality(UpTo(c)) <= L
  BY DEF FirstChunks
<1> HIDE DEF loaded
<1>5. ASSUME NEW l \in loaded, NEW c \in K, c \notin loaded
      PROVE  Min(l) < Min(c)
  <2> SUFFICES ASSUME Min(c) <= Min(l)
               PROVE  FALSE
    BY <1>1, <1>4
  <2>1. UpTo(c) \in SUBSET UpTo(l)
    BY <1>1, <1>4
  <2>2. Cardinality(UpTo(c)) <= Cardinality(UpTo(l))
    BY <2>1, <1>3, <1>4, FS_Subset
  <2> HIDE DEF UpTo
  <2> QED
    BY <2>2, <1>3, <1>4, <1>5
<1>6. PICK first \in K \ loaded : \A c \in K \ loaded : Min(first) <= Min(c)
  <2>0. k \in K \ loaded
    BY DEF loaded
  <2> DEFINE T == {Min(c) : c \in K \ loaded}
  <2>1. ASSUME NEW t \in T
        PROVE  t \in Nat
    <3>1. PICK c \in K \ loaded : t = Min(c)
      OBVIOUS
    <3> QED
      BY <1>1, <3>1
  <2>2. Min(k) \in T
    BY <2>0
  <2>3. T \in SUBSET Nat /\ T # {}
    BY <2>1, <2>2
  <2>4. PICK t \in T : \A u \in T : t <= u
    <3> HIDE DEF T
    <3> QED BY <2>3, Least
  <2>5. PICK c \in K \ loaded : t = Min(c)
    BY <2>4
  <2>6. ASSUME NEW d \in K \ loaded
        PROVE  Min(c) <= Min(d)
    <3>1. Min(d) \in T
      OBVIOUS
    <3> QED
      BY <2>4, <2>5, <3>1
  <2> QED
    BY <2>6
<1>7. UpTo(first) = loaded \cup {first}
  <2>1. ASSUME NEW c \in UpTo(first)
        PROVE  c \in loaded \cup {first}
    <3>1. c \in K /\ Min(c) <= Min(first)
      OBVIOUS
    <3>2. c \notin loaded => Min(c) = Min(first)
      BY <3>1, <1>1, <1>6
    <3>3. Min(c) = Min(first) => c = first
      BY <3>1, <1>1, <1>2, <1>6
    <3> QED
      BY <3>2, <3>3
  <2>2. loaded \cup {first} \subseteq UpTo(first)
    BY <1>1, <1>4, <1>5, <1>6
  <2> QED
    BY <2>1, <2>2
<1>8. IsFiniteSet(loaded) /\ Cardinality(loaded) \in Nat
  BY <1>4, FS_Subset, FS_CardinalityType
<1>9. Cardinality(loaded) >= L
  <2>1. Cardinality(loaded \cup {first}) = Cardinality(loaded) + 1
    BY <1>6, <1>8, FS_AddElement
  <2>2. ~(Cardinality(UpTo(first)) <= L)
    BY <1>4, <1>6
  <2> HIDE DEF UpTo
  <2> QED
    BY <1>3, <1>6, <1>7, <1>8, <2>1, <2>2
<1>10. Cardinality(loaded) <= L
  <2>1. CASE loaded = {}
    <3>1. Cardinality(loaded) = 0
      BY <1>8, <2>1, FS_EmptySet
    <3> HIDE DEF UpTo
    <3> QED
      BY <3>1
  <2>2. CASE loaded # {}
    <3> DEFINE T == {Min(l) : l \in loaded}
    <3>1. ASSUME NEW l \in loaded
          PROVE  Min(l) \in Nat /\ Min(l) <= Min(first)
      <4>1. Min(l) < Min(first) /\ Min(l) \in Nat /\ Min(first) \in Nat
        BY <1>1, <1>4, <1>5, <1>6
      <4> QED
        BY <4>1
    <3>2. PICK g \in loaded : \A l \in loaded : Min(l) <= Min(g)
      <4>1. ASSUME NEW t \in T
            PROVE  t \in Nat /\ t <= Min(first)
        <5>1. PICK l \in loaded : t = Min(l)
          OBVIOUS
        <5> QED
          BY <3>1, <5>1
      <4>2. PICK l \in loaded : TRUE
        BY <2>2
      <4>3. Min(l) \in T
        OBVIOUS
      <4>4. Max(T) \in T /\ \A t \in T : t <= Max(T)
        <5>1. Min(first) \in Nat
          BY <1>1, <1>6
        <5> HIDE DEF T
        <5> QED BY <4>1, <4>3, <5>1, MaxIsGreatest
      <4>5. PICK g \in loaded : Max(T) = Min(g)
        BY <4>4
      <4>6. ASSUME NEW c \in loaded
            PROVE  Min(c) <= Min(g)
        <5>1. Min(c) \in T
          OBVIOUS
        <5> QED
          BY <4>4, <4>5, <5>1
      <4> QED
        BY <4>6
    <3>4. loaded \in SUBSET UpTo(g)
      BY <1>4, <3>2
    <3>5. Cardinality(loaded) <= Cardinality(UpTo(g))
      BY <3>4, <1>3, <1>4, FS_Subset
    <3> HIDE DEF UpTo
    <3> QED
      BY <3>5, <1>3, <1>4, <1>8
  <2> QED
    BY <2>1, <2>2
<1>11. Cardinality(loaded) = L
  BY <1>8, <1>9, <1>10
<1>12. \A l \in loaded : Precedes(l, k)
  <2>1. k \in K /\ k \notin loaded
    BY DEF loaded
  <2> QED
    BY <2>1, <1>2, <1>4, <1>5
<1> QED
  BY <1>11, <1>12 DEF loaded

(* The journal is finite, and so is the archive.                           *)
LEMMA IdsAreFinite ==
  ASSUME ArchiveTypes
  PROVE  /\ Len(journal) \in Nat /\ Ids = 1..Len(journal) /\ IsFiniteSet(Ids)
         /\ Ids \in SUBSET Nat
         /\ IsFiniteSet(chunks)
<1>1. Len(journal) \in Nat /\ Ids = 1..Len(journal)
  BY DEF ArchiveTypes, Ids
<1>2. IsFiniteSet(Ids)
  BY <1>1, FS_Interval
<1>3. IsFiniteSet(SUBSET Ids)
  BY <1>2, FS_SUBSET
<1>4. IsFiniteSet(chunks)
  BY <1>3, FS_Subset DEF ArchiveTypes
<1>5. Ids \in SUBSET Nat
  BY <1>1
<1> QED
  BY <1>1, <1>2, <1>4, <1>5

(* The reader of the merged history, when everything between the cursor    *)
(* and the end is still hot or in a chunk: what a page holds is of the     *)
(* market and past the cursor, it leaves out nothing before what it holds, *)
(* and it is empty only at the end.                                        *)
LEMMA AfterIsLossless ==
  ASSUME ArchiveTypes, HotIsNewest, ChunksApart,
         NEW s \in Symbols, NEW cursor \in Nat, NEW through \in Nat,
         \A e \in Span(s, cursor, through) : e \in hot \/ Archived(s, e)
  PROVE  /\ After(s, cursor, through) \subseteq Span(s, cursor, through)
         /\ \A e \in After(s, cursor, through), f \in Of(s) :
              cursor < f /\ f < e => f \in After(s, cursor, through)
         /\ through \in Span(s, cursor, through) => After(s, cursor, through) # {}
<1> DEFINE known  == {k \in chunks : /\ k \subseteq Of(s)
                                     /\ Min(k) <= through /\ Max(k) > cursor}
           loaded == FirstChunks(known, ChunkLimit)
           Live   == {e \in Of(s) \cap hot : e > cursor /\ e <= through}
           live   == FirstOf(Live, PageLimit)
           upper  == Upper(loaded, through)
           Found  == {e \in live \cup UNION loaded : e > cursor /\ e <= upper}
           P      == FirstOf(Found, PageLimit)
<1>0. After(s, cursor, through) = P
  BY DEF After, FirstChunks
<1>1. /\ Len(journal) \in Nat /\ Ids \in SUBSET Nat /\ IsFiniteSet(Ids) /\ IsFiniteSet(chunks)
      /\ \A e \in Ids : e <= Len(journal)
      /\ Of(s) \subseteq Ids /\ PageLimit \in Nat \ {0} /\ ChunkLimit \in Nat \ {0}
  BY IdsAreFinite, LimitsAssumption DEF Of
<1>2. \A k \in chunks : k \in SUBSET Nat /\ k # {} /\ k \subseteq Ids /\ k \cap hot = {}
  BY <1>1 DEF ChunksApart, ArchiveTypes
<1>3. \A k \in chunks : /\ Min(k) \in k /\ Max(k) \in k
                        /\ \A e \in k : Min(k) <= e /\ e <= Max(k)
  <2> SUFFICES ASSUME NEW k \in chunks
               PROVE  /\ Min(k) \in k /\ Max(k) \in k
                      /\ \A e \in k : Min(k) <= e /\ e <= Max(k)
    OBVIOUS
  <2>1. k \in SUBSET Nat /\ k # {} /\ \A e \in k : e <= Len(journal)
    BY <1>1, <1>2
  <2> QED
    BY <2>1, <1>1, MinIsLeast, MaxIsGreatest
<1>4. /\ known \subseteq chunks /\ loaded \subseteq known
      /\ \A k \in known : k \subseteq Of(s) /\ Min(k) <= through /\ Max(k) > cursor
  BY DEF FirstChunks
<1>5. \A a, b \in known : a # b => Precedes(a, b) \/ Precedes(b, a)
  BY <1>4 DEF ChunksApart
<1>6. ASSUME NEW k \in known, k \notin loaded
      PROVE  Cardinality(loaded) = ChunkLimit /\ \A l \in loaded : Precedes(l, k)
  <2>1. IsFiniteSet(known) /\ \A c \in known : c \in SUBSET Nat /\ c # {}
    BY <1>1, <1>2, <1>4, FS_Subset
  <2> HIDE DEF known
  <2> QED
    BY <2>1, <1>1, <1>5, <1>6, LoadedAreFirst
<1>7. /\ Live \subseteq Of(s) \cap hot /\ live \subseteq Live /\ P \subseteq Found
      /\ \A e \in Live : e > cursor /\ e <= through
      /\ \A e \in Of(s) \cap hot : e > cursor /\ e <= through => e \in Live
  BY DEF FirstOf
\* What is past the last of the loaded chunks is not read when there may
\* be chunks that are not loaded.
<1> DEFINE last == Max({0} \cup UNION loaded)
<1>8. /\ last \in Nat /\ \A l \in loaded : \A e \in l : e <= last
      /\ last # 0 => \E l \in loaded : last \in l
  <2>1. ASSUME NEW e \in {0} \cup UNION loaded
        PROVE  e \in Nat /\ e <= Len(journal)
    <3>1. CASE e = 0
      BY <3>1, <1>1
    <3>2. CASE e # 0
      <4>1. PICK l \in loaded : e \in l
        BY <3>2
      <4>2. l \in chunks
        BY <1>4
      <4> QED
        BY <4>1, <4>2, <1>1, <1>2
    <3> QED BY <3>1, <3>2
  <2>3. last \in {0} \cup UNION loaded /\ \A e \in {0} \cup UNION loaded : e <= last
    <3> HIDE DEF loaded
    <3> QED BY <2>1, <1>1, MaxIsGreatest
  <2> HIDE DEF last, loaded
  <2> QED
    BY <2>1, <2>3
<1>9. /\ upper = IF Cardinality(loaded) = ChunkLimit /\ last < through THEN last ELSE through
      /\ upper \in Nat /\ upper <= through
  <2>1. upper = IF Cardinality(loaded) = ChunkLimit /\ last < through THEN last ELSE through
    BY DEF Upper
  <2> HIDE DEF upper, last, loaded
  <2> QED
    BY <2>1, <1>8
<1>10. Found \subseteq Span(s, cursor, upper) /\ Found \in SUBSET Nat /\ IsFiniteSet(Found)
  <2>1. ASSUME NEW e \in Found
        PROVE  e \in Of(s)
    BY <1>4, <1>7
  <2>2. ASSUME NEW e \in Found
        PROVE  e \in Nat /\ cursor < e /\ e <= upper
    <3>1. e \in Nat /\ e > cursor /\ e <= upper
      BY <2>1, <1>1
    <3> HIDE DEF Found, upper
    <3> QED BY <3>1
  <2>3. Found \in SUBSET Ids
    BY <2>1, <1>1
  <2> HIDE DEF Found, upper
  <2> QED
    BY <2>1, <2>2, <2>3, <1>1, FS_Subset DEF Span
<1>11. Live \in SUBSET Nat /\ IsFiniteSet(Live)
  <2>1. Live \in SUBSET Ids
    BY <1>1, <1>7
  <2> HIDE DEF Live
  <2> QED BY <2>1, <1>1, FS_Subset
<1>12. P \subseteq Span(s, cursor, through)
  <2>1. ASSUME NEW e \in P
        PROVE  e \in Of(s) /\ cursor < e /\ e <= upper /\ e \in Nat
    <3>1. e \in Found
      BY <1>7
    <3> HIDE DEF P, Found, upper
    <3> QED BY <3>1, <1>10 DEF Span
  <2>2. upper \in Nat /\ upper <= through
    BY <1>9
  <2> HIDE DEF P, upper
  <2>3. \A e \in P : e \in Of(s) /\ cursor < e /\ e <= through
    BY <2>1, <2>2
  <2> QED
    BY <2>3 DEF Span
\* Nothing is left out.
<1>13. ASSUME NEW e \in P, NEW f \in Of(s), cursor < f, f < e
       PROVE  f \in P
  <2>1. e \in Found /\ e \in Nat /\ f \in Nat /\ e <= upper /\ f <= upper /\ f <= through
    <3>1. e \in Found
      BY <1>7
    <3> HIDE DEF P, Found, upper
    <3>2. e \in Nat /\ f \in Nat /\ e <= upper
      BY <3>1, <1>1, <1>10 DEF Span
    <3> QED BY <3>1, <3>2, <1>9, <1>13
  <2>2. ASSUME f \in hot
        PROVE  f \in Found
    <3>1. f \in Live
      BY <2>1, <2>2, <1>7, <1>13
    <3>2. e \in live
      <4>1. e \notin hot => e < f
        BY <2>2, <1>1, <1>12, <2>1 DEF HotIsNewest, Span
      <4>2. e \in hot
        BY <4>1, <2>1, <1>13
      <4> QED
        BY <4>2, <2>1, <1>2, <1>4
    <3>3. f \in live
      <4> HIDE DEF Live
      <4> QED BY <3>1, <3>2, <2>1, <1>1, <1>11, <1>13, FirstIsPrefix
    <3> QED
      BY <3>3, <2>1, <1>13
  <2>3. ASSUME f \notin hot
        PROVE  f \in Found
    <3>1. PICK k \in chunks : f \in k /\ k \subseteq Of(s)
      BY <2>1, <2>3, <1>13 DEF Span, Archived
    <3>2. k \in known
      <4>1. Min(k) \in Nat /\ Max(k) \in Nat /\ Min(k) <= f /\ f <= Max(k)
        BY <3>1, <1>2, <1>3
      <4>2. Min(k) <= through /\ Max(k) > cursor
        BY <4>1, <2>1, <1>13
      <4> QED
        BY <3>1, <4>2
    <3>3. k \in loaded
      <4> SUFFICES ASSUME k \notin loaded
                   PROVE  FALSE
        OBVIOUS
      <4>1. Cardinality(loaded) = ChunkLimit /\ \A l \in loaded : Precedes(l, k)
        BY <3>2, <1>6
      <4> HIDE DEF loaded, known, upper, last
      <4>2. last < f
        <5>1. last # 0 => last < f
          BY <1>8, <3>1, <4>1 DEF Precedes
        <5>2. f # 0
          BY <1>13, <2>1
        <5> QED BY <5>1, <5>2, <2>1
      <4>3. last < through
        BY <4>2, <2>1, <1>8
      <4> QED
        BY <4>1, <4>2, <4>3, <2>1, <1>8, <1>9
    <3> QED
      BY <3>1, <3>3, <2>1, <1>13
  <2>4. f \in Found
    BY <2>2, <2>3
  <2> HIDE DEF Found
  <2> QED
    BY <2>1, <2>4, <1>1, <1>10, <1>13, FirstIsPrefix
\* A page is empty only at the end.
<1>14. ASSUME NEW k \in known, k \notin loaded, NEW e \in k
       PROVE  Cardinality(loaded) = ChunkLimit /\ last < e
  <2>1. Cardinality(loaded) = ChunkLimit /\ \A l \in loaded : Precedes(l, k)
    BY <1>6, <1>14
  <2>2. e \in Nat /\ e # 0
    BY <1>1, <1>2, <1>4, <1>14, IdsAreFinite
  <2> HIDE DEF loaded, known, last
  <2> QED
    BY <1>8, <1>14, <2>1, <2>2 DEF Precedes
<1>15. ASSUME through \in Span(s, cursor, through)
       PROVE  Found # {}
  <2>0. through \in Of(s) /\ cursor < through
    BY <1>15 DEF Span
  <2>1. CASE Cardinality(loaded) = ChunkLimit /\ last < through
    <3>1. upper = last
      BY <2>1, <1>9
    <3>2. PICK l \in loaded : TRUE
      <4>1. loaded = {} => Cardinality(loaded) = 0
        BY FS_EmptySet
      <4> HIDE DEF loaded
      <4> QED BY <4>1, <2>1, <1>1
    <3>3. Max(l) > cursor /\ Max(l) <= last /\ Max(l) \in Nat
      <4>1. l \in chunks /\ l \in known
        BY <1>4
      <4>2. Max(l) \in l /\ Max(l) > cursor
        BY <4>1, <1>3, <1>4
      <4> HIDE DEF last, loaded, known
      <4> QED BY <4>1, <4>2, <1>2, <1>8
    <3>4. last > cursor
      <4> HIDE DEF last
      <4> QED BY <3>3, <1>8
    <3>5. last \in UNION loaded
      <4> HIDE DEF last, loaded
      <4> QED BY <3>4, <1>8
    <3>6. last <= upper
      <4> HIDE DEF last, upper
      <4> QED BY <3>1, <1>8
    <3> QED
      BY <3>4, <3>5, <3>6
  <2>2. ASSUME ~(Cardinality(loaded) = ChunkLimit /\ last < through)
        PROVE  Found # {}
    <3>1. upper = through
      BY <2>2, <1>9
    <3>2. CASE through \in hot
      <4>1. through \in Live
        BY <2>0, <3>2
      <4>2. Min(Live) \in live
        <5> HIDE DEF Live
        <5> QED BY <4>1, <1>1, <1>11, FirstIsFound
      <4>3. Min(Live) > cursor /\ Min(Live) <= through
        BY <4>2, <1>7
      <4>4. Min(Live) <= upper
        BY <4>3, <3>1
      <4> QED
        BY <4>2, <4>3, <4>4
    <3>3. CASE through \notin hot
      <4>1. PICK k \in chunks : through \in k /\ k \subseteq Of(s)
        BY <1>15, <3>3 DEF Archived
      <4>2. k \in known
        <5>1. Min(k) \in Nat /\ Max(k) \in Nat /\ Min(k) <= through /\ through <= Max(k)
          BY <4>1, <1>2, <1>3
        <5>2. Max(k) > cursor
          BY <5>1, <2>0
        <5> QED
          BY <4>1, <5>1, <5>2
      <4>3. k \in loaded
        BY <4>1, <4>2, <2>2, <1>14
      <4>4. through <= upper
        BY <3>1
      <4> QED
        BY <4>1, <4>3, <4>4, <2>0
    <3> QED
      BY <3>2, <3>3
  <2> QED
    BY <2>1, <2>2
<1>16. through \in Span(s, cursor, through) => P # {}
  <2> HIDE DEF Found
  <2> QED
    BY <1>1, <1>10, <1>15, FirstIsFound
<1> QED
  BY <1>0, <1>12, <1>13, <1>16

(* A nonempty set of events has a last one.                                *)
LEMMA LastEvent ==
  ASSUME ArchiveTypes, NEW S \in SUBSET Ids, S # {}
  PROVE  Max(S) \in S /\ Max(S) \in Nat /\ \A e \in S : e \in Nat /\ e <= Max(S)
<1>1. S \in SUBSET Nat /\ \A e \in S : e <= Len(journal)
  BY IdsAreFinite
<1> QED
  BY <1>1, IdsAreFinite, MaxIsGreatest

(* The page an open position is managed through: no gap before its end.    *)
LEMMA PageIsNext ==
  ASSUME ArchiveInv, NEW p \in Positions, position[p].status = "OPEN",
         NEW part, part = Page(position[p]), part # {}
  PROVE  /\ part \subseteq Of(position[p].symbol)
         /\ Max(part) \in part /\ Max(part) \in Nat /\ Max(part) > position[p].at
         /\ part = Span(position[p].symbol, position[p].at, Max(part))
<1> DEFINE x == position[p]
           H == {e \in Of(x.symbol) \cap hot : e > x.at}
<1>1. /\ Ids \in SUBSET Nat /\ IsFiniteSet(Ids) /\ hot \subseteq Ids /\ PageLimit \in Nat
      /\ Of(x.symbol) \subseteq Ids /\ x.at \in Nat /\ x.symbol \in Symbols
  BY IdsAreFinite, LimitsAssumption DEF Of, ArchiveInv, ArchiveTypes, PositionRow
<1>2. \A e \in Of(x.symbol) : x.at < e => e \in hot
  <2>1. \A e \in Ids \ hot : e <= x.at
    BY DEF ArchiveInv, Stands, StandsAs
  <2>2. SUFFICES ASSUME NEW e \in Of(x.symbol), x.at < e, e \notin hot PROVE FALSE
    OBVIOUS
  <2>3. e \in Nat /\ x.at \in Nat
    BY <1>1
  <2>4. e <= x.at
    BY <1>1, <2>1, <2>2
  <2> DEFINE at == x.at
  <2>5. at \in Nat /\ e \in Nat /\ at < e /\ e <= at
    BY <2>2, <2>3, <2>4
  <2> HIDE DEF at
  <2> QED
    BY <2>5
<1>3. /\ part \subseteq Of(x.symbol) /\ \A e \in part : x.at < e
      /\ \A e \in part, f \in Of(x.symbol) : x.at < f /\ f < e => f \in part
  <2>1. CASE x.ioc = 0
    <3> DEFINE through == Through(x.symbol)
    <3>1. part = After(x.symbol, x.at, through)
      BY <2>1 DEF Page
    <3>2. through \in Nat
      <4>1. Of(x.symbol) \cap hot \in SUBSET Ids
        BY <1>1
      <4>2. (UNION chunks) \cap Of(x.symbol) \in SUBSET Ids
        <5> DEFINE U == UNION chunks
        <5> HIDE DEF U
        <5>1. U \cap Of(x.symbol) \in SUBSET Ids
          BY <1>1
        <5> QED BY <5>1 DEF U
      <4>3. \A S \in SUBSET Ids : S # {} => Max(S) \in Nat
        BY LastEvent DEF ArchiveInv
      <4> QED
        BY <4>1, <4>2, <4>3 DEF Through
    <3> HIDE DEF through
    <3>3. \A e \in Span(x.symbol, x.at, through) : e \in hot
      BY <1>2 DEF Span
    <3> QED
      BY <3>1, <3>2, <3>3, <1>1, AfterIsLossless DEF ArchiveInv, Span
  <2>2. CASE x.ioc # 0
    <3>1. part = FirstOf(H, PageLimit)
      BY <2>2 DEF Page
    <3>2. H \in SUBSET Ids /\ H \in SUBSET Nat
      BY <1>1
    <3>3. IsFiniteSet(H)
      BY <3>2, <1>1, FS_Subset
    <3>4. part \subseteq H
      BY <3>1 DEF FirstOf
    <3>5. ASSUME NEW e \in part, NEW f \in Of(x.symbol), x.at < f, f < e
          PROVE  f \in part
      <4>1. f \in H /\ f <= e
        BY <3>2, <3>4, <3>5, <1>1, <1>2
      <4> HIDE DEF H
      <4> QED
        BY <4>1, <3>1, <3>2, <3>3, <3>5, <1>1, FirstIsPrefix
    <3>6. \A e \in part : e \in Of(x.symbol) /\ x.at < e
      BY <3>2, <3>4, <1>1
    <3> QED
      BY <3>5, <3>6
  <2> QED
    BY <2>1, <2>2
<1>4. Max(part) \in part /\ Max(part) \in Nat /\ \A e \in part : e \in Nat /\ e <= Max(part)
  BY <1>1, <1>3, LastEvent DEF ArchiveInv
<1>5. part = Span(x.symbol, x.at, Max(part))
  <2>1. ASSUME NEW e \in Span(x.symbol, x.at, Max(part))
        PROVE  e \in part
    <3>1. e \in Of(x.symbol) /\ x.at < e /\ e <= Max(part) /\ e \in Nat
      BY <1>1 DEF Span
    <3> QED
      BY <3>1, <1>3, <1>4
  <2>2. \A e \in part : e \in Of(x.symbol) /\ x.at < e /\ e <= Max(part)
    BY <1>3, <1>4
  <2> QED
    BY <2>1, <2>2 DEF Span
<1> QED
  BY <1>1, <1>3, <1>4, <1>5

(* What a step on one position has to show.                                *)
LEMMA PositionKeeps ==
  ASSUME ArchiveInv, NEW p \in Positions, NEW next \in PositionRow, Put(p, next),
         read' \in [Positions -> SUBSET Nat],
         \A q \in Positions : q # p => read'[q] = read[q],
         StandsAs(next, read'[p]), Kept(next),
         pass.step # "idle" /\ next.status = "OPEN" => AheadAt(next.at),
         p \in replay.of => ReplaysOf(next)
  PROVE  ArchiveInv'
<1>1. \A q \in Positions : position'[q] = IF q = p THEN next ELSE position[q]
  BY DEF Put, ArchiveInv, ArchiveTypes
<1>2. ArchiveTypes'
  <2>1. position' \in [Positions -> PositionRow]
    BY DEF Put, ArchiveInv, ArchiveTypes
  <2> QED
    BY <2>1 DEF Put, ArchiveInv, ArchiveTypes, Ids
<1>3. HotIsNewest' /\ ChunksApart'
  BY DEF Put, ArchiveInv, HotIsNewest, ChunksApart, Ids, Of
<1>4. PassSafe'
  BY <1>1 DEF Put, ArchiveInv, PassSafe, AheadAt
<1>5. Stands'
  <2> SUFFICES ASSUME NEW q \in Positions
               PROVE  (StandsAs(position[q], read[q]) /\ Kept(position[q]))'
    BY DEF Stands
  <2>1. \A x, seen : StandsAs(x, seen) => StandsAs(x, seen)'
    BY DEF Put, StandsAs, Ids, Of, Span
  <2>2. \A x : Kept(x) => Kept(x)'
    BY DEF Put, Kept, InTrace, Archived, Ids, Of
  <2> QED
    BY <1>1, <2>1, <2>2 DEF ArchiveInv, Stands
<1>6. Replays'
  <2> SUFFICES ASSUME NEW q \in replay.of, q \in Positions
               PROVE  ReplaysOf(position[q])'
    BY DEF Replays, Put, ArchiveInv, ArchiveTypes
  <2>1. ReplaysOf(position'[q])
    BY <1>1 DEF ArchiveInv, Replays
  <2> QED
    BY <2>1 DEF ReplaysOf, Put, Of, Ids
<1> QED
  BY <1>2, <1>3, <1>4, <1>5, <1>6 DEF ArchiveInv

(* A position before its fill: a signal is queued, waits, is dropped.      *)
LEMMA PendingKeeps ==
  ASSUME ArchiveInv, NEW p \in Positions, Enter(p) \/ Wait(p) \/ Drop(p)
  PROVE  ArchiveInv'
<1> DEFINE x == position[p]
<1>1. /\ x \in PositionRow /\ x.status \in {"none", "pending"} /\ StandsAs(x, read[p])
      /\ p \notin replay.of /\ read' = read /\ hot \subseteq Ids /\ Ids \in SUBSET Nat
      /\ read \in [Positions -> SUBSET Nat] /\ x.symbol \in Symbols
  BY IdsAreFinite DEF ArchiveInv, ArchiveTypes, PositionRow, Stands, Replays, ReplaysOf, Enter, Wait, Drop
<1>2. ASSUME NEW next \in PositionRow, Put(p, next), next.status \in {"none", "pending"},
             next.start = 0, next.retained = FALSE
      PROVE  ArchiveInv'
  <2>1. StandsAs(next, read'[p]) /\ Kept(next)
    BY <1>1, <1>2 DEF StandsAs, Kept
  <2> QED
    BY <2>1, <1>1, <1>2, PositionKeeps
<1>3. x.start = 0 /\ x.retained = FALSE
  BY <1>1 DEF StandsAs, PositionRow
<1>4. CASE Enter(p)
  <2>1. PICK e \in Of(x.symbol) \cap hot :
          Put(p, [x EXCEPT !.status = "pending", !.at = e])
    BY <1>4 DEF Enter
  <2> DEFINE next == [x EXCEPT !.status = "pending", !.at = e]
  <2>2. next \in PositionRow /\ next.status = "pending" /\ next.start = 0 /\ next.retained = FALSE
    BY <1>1, <1>3 DEF PositionRow
  <2> QED
    BY <2>1, <2>2, <1>2
<1>5. CASE Wait(p)
  <2>1. PICK e \in NextEvent(x) : x.status = "pending" /\ Put(p, [x EXCEPT !.at = e])
    BY <1>5 DEF Wait
  <2>2. e \in Nat
    BY <1>1 DEF NextEvent
  <2> DEFINE next == [x EXCEPT !.at = e]
  <2>3. next \in PositionRow /\ next.status = "pending" /\ next.start = 0 /\ next.retained = FALSE
    BY <1>1, <1>3, <2>1, <2>2 DEF PositionRow
  <2> QED
    BY <2>1, <2>3, <1>2
<1>6. CASE Drop(p)
  <2>1. Unused(x.symbol) \in PositionRow /\ Put(p, Unused(x.symbol))
    BY <1>1, <1>6 DEF Drop, Unused, PositionRow
  <2> QED
    BY <2>1, <1>2 DEF Unused
<1> QED
  BY <1>4, <1>5, <1>6

(* The fill stands on an event younger than the retention, which no pass   *)
(* that is running removes.                                                *)
LEMMA FillKeeps ==
  ASSUME ArchiveInv, NEW p \in Positions, Fill(p)
  PROVE  ArchiveInv'
<1> DEFINE x == position[p]
<1>1. PICK e \in NextEvent(x) :
        /\ x.status = "pending" /\ e > aged
        /\ Put(p, [x EXCEPT !.status = "OPEN", !.at = e, !.start = e, !.retained = TRUE])
        /\ read' = read
  BY DEF Fill
<1> DEFINE next == [x EXCEPT !.status = "OPEN", !.at = e, !.start = e, !.retained = TRUE]
<1>2. /\ x \in PositionRow /\ p \notin replay.of /\ read[p] = {} /\ Ids \in SUBSET Nat
      /\ read \in [Positions -> SUBSET Nat] /\ hot \subseteq Ids /\ aged \in Nat
      /\ pass.before \in Nat /\ pass.before <= aged
  BY <1>1, IdsAreFinite DEF ArchiveInv, ArchiveTypes, PositionRow, Stands, StandsAs, Replays,
                            ReplaysOf, PassSafe
<1>3. e \in Of(x.symbol) /\ e \in hot /\ e \in Nat /\ e > pass.before
  BY <1>1, <1>2 DEF NextEvent
<1>4. /\ next \in PositionRow /\ next.status = "OPEN" /\ next.symbol = x.symbol /\ next.at = e
      /\ next.start = e /\ next.retained
  BY <1>2, <1>3 DEF PositionRow
<1> HIDE DEF next
<1>5. \A f \in Ids \ hot : f <= aged /\ f < e
  BY <1>3 DEF ArchiveInv, HotIsNewest
<1>6. StandsAs(next, read'[p])
  <2>1. \A f \in Ids \ hot : f <= e
    BY <1>2, <1>3, <1>5
  <2>2. Span(x.symbol, e, e) = {}
    <3>1. \A f \in Of(x.symbol) : ~(e < f /\ f <= e)
      BY <1>2, <1>3 DEF Of
    <3> QED
      BY <3>1 DEF Span
  <2>3. 1 <= e
    BY <1>2, <1>3, IdsAreFinite DEF ArchiveInv
  <2> QED
    BY <2>1, <2>2, <2>3, <1>1, <1>2, <1>3, <1>4 DEF StandsAs
<1>7. Kept(next)
  <2> SUFFICES ASSUME NEW f \in Ids \ hot, InTrace(next, f)
               PROVE  FALSE
    BY DEF Kept
  <2>1. f \in Nat /\ e <= f
    BY <1>2, <1>4 DEF InTrace
  <2> QED
    BY <2>1, <1>3, <1>5
<1>8. AheadAt(next.at)
  BY <1>3, <1>4 DEF AheadAt
<1> QED
  BY <1>1, <1>2, <1>4, <1>6, <1>7, <1>8, PositionKeeps DEF next

(* Managed through a page, an open position has seen all there was.        *)
LEMMA ManageKeeps ==
  ASSUME ArchiveInv, NEW p \in Positions, Manage(p)
  PROVE  ArchiveInv'
<1> DEFINE x == position[p]
           part == Page(x)
           next == [x EXCEPT !.at = Max(part)]
<1>1. /\ x.status = "OPEN" /\ part # {} /\ Put(p, next)
      /\ read' = [read EXCEPT ![p] = @ \cup part]
  BY DEF Manage
<1>2. /\ part \subseteq Of(x.symbol) /\ Max(part) \in part /\ Max(part) \in Nat
      /\ Max(part) > x.at /\ part = Span(x.symbol, x.at, Max(part))
  BY <1>1, PageIsNext
<1>3. /\ x \in PositionRow /\ p \notin replay.of /\ StandsAs(x, read[p]) /\ Kept(x)
      /\ read \in [Positions -> SUBSET Nat] /\ Ids \in SUBSET Nat
      /\ pass.before \in Nat /\ pass.cursors \in SUBSET Nat
      /\ (pass.step # "idle" => AheadAt(x.at))
  BY <1>1, IdsAreFinite DEF ArchiveInv, ArchiveTypes, PositionRow, Stands, Replays,
                            ReplaysOf, PassSafe
<1> HIDE DEF part
<1>4. /\ next \in PositionRow /\ next.status = "OPEN" /\ next.symbol = x.symbol
      /\ next.at = Max(part) /\ next.start = x.start /\ next.retained = x.retained
  BY <1>1, <1>2, <1>3 DEF PositionRow
<1>5. x.at \in Nat /\ x.start \in Nat
  BY <1>3 DEF PositionRow
<1> HIDE DEF next
<1>6. /\ read'[p] = read[p] \cup part /\ read' \in [Positions -> SUBSET Nat]
      /\ \A q \in Positions : q # p => read'[q] = read[q]
  <2>1. part \in SUBSET Nat
    BY <1>2, <1>3 DEF Of
  <2> QED
    BY <2>1, <1>1, <1>3
<1>7. StandsAs(next, read'[p])
  <2>1. /\ x.retained /\ 1 <= x.start /\ x.start <= x.at /\ read[p] = Span(x.symbol, x.start, x.at)
        /\ \A e \in Ids \ hot : e <= x.at
    BY <1>1, <1>3 DEF StandsAs
  <2>2. x.start <= Max(part) /\ Max(part) \in Of(x.symbol)
    BY <2>1, <1>2, <1>5
  <2>3. \A e \in Ids \ hot : e <= Max(part)
    BY <2>1, <1>2, <1>3, <1>5
  <2>4. Span(x.symbol, x.start, Max(part))
          = Span(x.symbol, x.start, x.at) \cup Span(x.symbol, x.at, Max(part))
    <3>1. \A e \in Of(x.symbol) : e \in Nat
      BY <1>3 DEF Of
    <3> HIDE DEF x
    <3> QED
      BY <2>1, <1>2, <1>5, <3>1 DEF Span
  <2> QED
    BY <2>1, <2>2, <2>3, <2>4, <1>2, <1>4, <1>6 DEF StandsAs
<1>8. Kept(next)
  BY <1>1, <1>3, <1>4 DEF Kept, InTrace
<1>9. pass.step # "idle" => AheadAt(next.at)
  BY <1>2, <1>3, <1>4, <1>5 DEF AheadAt
<1> QED
  BY <1>1, <1>3, <1>4, <1>6, <1>7, <1>8, <1>9, PositionKeeps

(* An exit is begun, the position is closed, its trace expires.            *)
LEMMA ExitKeeps ==
  ASSUME ArchiveInv, NEW p \in Positions, BeginExit(p) \/ Close(p) \/ Expire(p)
  PROVE  ArchiveInv'
<1> DEFINE x == position[p]
<1>1. /\ x \in PositionRow /\ StandsAs(x, read[p]) /\ Kept(x) /\ read' = read
      /\ read \in [Positions -> SUBSET Nat] /\ Ids \in SUBSET Nat
      /\ (pass.step # "idle" /\ x.status = "OPEN" => AheadAt(x.at))
      /\ (p \in replay.of => ReplaysOf(x))
  BY IdsAreFinite DEF ArchiveInv, ArchiveTypes, PositionRow, Stands, Replays, PassSafe,
                      BeginExit, Close, Expire
<1>2. CASE BeginExit(p)
  <2> DEFINE next == [x EXCEPT !.ioc = x.at]
  <2>1. x.status = "OPEN" /\ Put(p, next)
    BY <1>2 DEF BeginExit
  <2>2. /\ next \in PositionRow /\ next.status = "OPEN" /\ next.symbol = x.symbol /\ next.at = x.at
        /\ next.start = x.start /\ next.retained = x.retained
    BY <2>1, <1>1 DEF PositionRow
  <2>3. p \notin replay.of
    BY <2>1, <1>1 DEF ReplaysOf
  <2> HIDE DEF next
  <2>4. StandsAs(next, read'[p]) /\ Kept(next)
    BY <2>1, <2>2, <1>1 DEF StandsAs, Kept, InTrace
  <2> QED
    BY <2>1, <2>2, <2>3, <2>4, <1>1, PositionKeeps
<1>3. CASE Close(p)
  <2> DEFINE next == [x EXCEPT !.status = "CLOSED", !.ioc = 0, !.end = x.at]
  <2>1. x.status = "OPEN" /\ Put(p, next)
    BY <1>3 DEF Close
  <2>2. /\ next \in PositionRow /\ next.status = "CLOSED" /\ next.symbol = x.symbol
        /\ next.at = x.at /\ next.start = x.start /\ next.retained = x.retained /\ next.end = x.at
    BY <2>1, <1>1 DEF PositionRow
  <2>3. p \notin replay.of
    BY <2>1, <1>1 DEF ReplaysOf
  <2> HIDE DEF next
  <2>4. StandsAs(next, read'[p]) /\ Kept(next)
    BY <2>1, <2>2, <1>1 DEF StandsAs, Kept, InTrace
  <2> QED
    BY <2>1, <2>2, <2>3, <2>4, <1>1, PositionKeeps
<1>4. CASE Expire(p)
  <2> DEFINE next == [x EXCEPT !.retained = FALSE]
  <2>1. x.status = "CLOSED" /\ Put(p, next)
    BY <1>4 DEF Expire
  <2>2. /\ next \in PositionRow /\ next.status = "CLOSED" /\ next.symbol = x.symbol
        /\ next.at = x.at /\ next.start = x.start /\ next.retained = FALSE /\ next.end = x.end
    BY <2>1, <1>1 DEF PositionRow
  <2> HIDE DEF next
  <2>3. StandsAs(next, read'[p]) /\ Kept(next) /\ (p \in replay.of => ReplaysOf(next))
    BY <2>1, <2>2, <1>1 DEF StandsAs, Kept, ReplaysOf
  <2> QED
    BY <2>1, <2>2, <2>3, <1>1, PositionKeeps
<1> QED
  BY <1>2, <1>3, <1>4

(* The journal grows at its end.                                           *)
LEMMA AppendKeeps ==
  ASSUME ArchiveInv, NEW s \in Symbols, AppendEvent(s)
  PROVE  ArchiveInv'
<1> DEFINE n == Len(journal) + 1
<1>1. /\ journal \in Seq(Symbols) /\ Len(journal) \in Nat /\ Ids = 1..Len(journal)
      /\ hot \subseteq Ids /\ chunks \subseteq SUBSET Ids /\ aged \in Nat /\ aged < n
  BY IdsAreFinite DEF ArchiveInv, ArchiveTypes
<1>2. /\ journal' = Append(journal, s) /\ hot' = hot \cup {n}
      /\ UNCHANGED <<chunks, aged, position, read, pass, replay>>
  BY <1>1 DEF AppendEvent
<1>3. /\ journal' \in Seq(Symbols) /\ Ids' = Ids \cup {n} /\ n \notin Ids
      /\ \A e \in Ids : journal'[e] = journal[e]
  <2>1. journal' \in Seq(Symbols) /\ Len(journal') = n
    BY <1>1, <1>2
  <2>2. Ids' = 1..n
    BY <2>1 DEF Ids
  <2>3. \A e \in Ids : journal'[e] = journal[e]
    BY <1>1, <1>2
  <2> QED
    BY <2>1, <2>2, <2>3, <1>1
<1> HIDE DEF n
<1>4. Ids' \ hot' = Ids \ hot /\ \A e \in Ids : e < n /\ e \in Nat
  BY <1>1, <1>2, <1>3 DEF n
<1>5. /\ \A t : \A e \in Ids : e \in Of(t)' <=> e \in Of(t)
      /\ \A t : Of(t) \subseteq Ids /\ Of(t)' \subseteq Of(t) \cup {n}
  BY <1>3 DEF Of
<1>6. \A t : \A k \in chunks : k \subseteq Of(t)' <=> k \subseteq Of(t)
  BY <1>1, <1>5
<1>7. \A t : \A from, to \in Nat : to < n => Span(t, from, to)' = Span(t, from, to)
  <2> SUFFICES ASSUME NEW t, NEW from \in Nat, NEW to \in Nat, to < n, NEW e
               PROVE  e \in Span(t, from, to)' <=> e \in Span(t, from, to)
    OBVIOUS
  <2>1. ~(n <= to) /\ n \in Nat
    BY <1>1 DEF n
  <2> QED
    BY <2>1, <1>3, <1>5 DEF Span
<1>8. ArchiveTypes'
  <2>1. hot' \subseteq Ids' /\ chunks' \subseteq SUBSET (Ids')
    BY <1>1, <1>2, <1>3
  <2>2. aged' <= Len(journal')
    BY <1>1, <1>2 DEF n
  <2> QED
    BY <1>2, <1>3, <2>1, <2>2 DEF ArchiveInv, ArchiveTypes
<1>9. HotIsNewest'
  BY <1>2, <1>4 DEF ArchiveInv, HotIsNewest
<1>10. ChunksApart'
  <2>1. ASSUME NEW k \in chunks'
        PROVE  k # {} /\ k \cap hot' = {}
    <3>1. k \in chunks /\ k # {} /\ k \cap hot = {}
      BY <1>2 DEF ArchiveInv, ChunksApart
    <3>2. n \notin k
      BY <3>1, <1>1, <1>3
    <3> QED
      BY <3>1, <3>2, <1>2
  <2> QED
    BY <2>1, <1>2, <1>6 DEF ArchiveInv, ChunksApart
<1>11. PassSafe'
  <2>1. \A e \in pass.batch : ~(n < e)
    BY <1>1, <1>4 DEF ArchiveInv, PassSafe, n
  <2> QED
    BY <2>1, <1>2 DEF ArchiveInv, PassSafe, AheadAt
<1>12. Stands'
  <2> SUFFICES ASSUME NEW p \in Positions
               PROVE  StandsAs(position[p], read[p])' /\ Kept(position[p])'
    BY DEF Stands
  <2> DEFINE x == position[p]
  <2>1. x \in PositionRow /\ position' = position /\ read' = read /\ StandsAs(x, read[p]) /\ Kept(x)
    BY <1>2 DEF ArchiveInv, ArchiveTypes, Stands
  <2>2. ASSUME NEW t, NEW from \in Nat, NEW to \in Of(t), t = x.symbol
        PROVE  to \in Of(t)' /\ Span(t, from, to)' = Span(t, from, to)
    <3>1. to \in Ids /\ to < n /\ to \in Nat
      BY <1>4, <1>5
    <3> QED
      BY <3>1, <1>5, <1>7
  <2>3. ASSUME x.status \in {"OPEN", "CLOSED"}
        PROVE  /\ position'[p].at \in Of(position[p].symbol)'
               /\ read'[p] = Span(position[p].symbol, position[p].start, position[p].at)'
    <3>1. PICK t, from, to : t = x.symbol /\ from = x.start /\ to = x.at
      OBVIOUS
    <3>2. from \in Nat /\ to \in Of(t) /\ read[p] = Span(t, from, to)
      BY <2>1, <2>3, <3>1 DEF StandsAs, PositionRow
    <3>3. to \in Of(t)' /\ Span(t, from, to)' = Span(t, from, to)
      BY <2>2, <3>1, <3>2
    <3> QED
      BY <3>1, <3>2, <3>3, <2>1
  <2>5. StandsAs(position[p], read[p])'
    BY <2>1, <2>3, <1>4 DEF StandsAs
  <2>4. Kept(position[p])'
    BY <2>1, <1>2, <1>4, <1>5, <1>6 DEF Kept, InTrace, Archived
  <2> QED
    BY <2>4, <2>5
<1>13. Replays'
  <2> SUFFICES ASSUME NEW p \in replay.of, p \in Positions
               PROVE  ReplaysOf(position[p])'
    BY <1>2 DEF Replays, ArchiveInv, ArchiveTypes
  <2> DEFINE x == position[p]
  <2>1. x \in PositionRow /\ position' = position /\ replay' = replay /\ ReplaysOf(x)
        /\ StandsAs(x, read[p]) /\ replay.at \in Nat
    BY <1>2 DEF ArchiveInv, ArchiveTypes, Stands, Replays
  <2>2. x.retained => x.end \in Ids /\ replay.at <= x.end /\ x.end \in Nat
    BY <2>1, <1>4, <1>5 DEF ReplaysOf, StandsAs
  <2>3. x.retained => replay.at < n
    BY <2>1, <2>2, <1>1, <1>4 DEF n
  <2>4. PICK t : t = x.symbol
    OBVIOUS
  <2>5. x.retained => \A e \in Of(t)' : e <= replay.at => e \in Of(t)
    BY <2>1, <2>3, <1>1, <1>5 DEF n
  <2>6. Of(t) \subseteq Of(t)'
    BY <1>5
  <2>7. position'[p] = x /\ Of(position[p].symbol)' = Of(t)'
    BY <2>1, <2>4
  <2> QED
    BY <2>1, <2>4, <2>5, <2>6, <2>7 DEF ReplaysOf
<1> QED
  BY <1>8, <1>9, <1>10, <1>11, <1>12, <1>13 DEF ArchiveInv

(* Time passes: more may be pruned.                                        *)
LEMMA AgeKeeps ==
  ASSUME ArchiveInv, Age
  PROVE  ArchiveInv'
<1>1. aged \in Nat /\ aged' \in Nat /\ aged <= aged' /\ aged' <= Len(journal) /\ Len(journal) \in Nat
  BY IdsAreFinite DEF Age, ArchiveInv, ArchiveTypes
<1>2. ArchiveTypes'
  BY <1>1 DEF Age, ArchiveInv, ArchiveTypes, Ids
<1>3. HotIsNewest'
  <2>1. \A e \in Ids \ hot : e \in Nat /\ e <= aged'
    BY <1>1, IdsAreFinite DEF ArchiveInv, HotIsNewest
  <2> QED
    BY <2>1 DEF Age, ArchiveInv, HotIsNewest, Ids
<1>4. PassSafe'
  <2>1. pass.before \in Nat /\ pass.before <= aged'
    BY <1>1 DEF ArchiveInv, ArchiveTypes, PassSafe
  <2> QED
    BY <2>1 DEF Age, ArchiveInv, PassSafe, AheadAt
<1>5. ChunksApart'
  BY DEF Age, ArchiveInv, ChunksApart, Of, Ids
<1>6. Stands' /\ Replays'
  BY DEF Age, ArchiveInv, Stands, StandsAs, Kept, InTrace, Archived, Replays, ReplaysOf,
         Span, Of, Ids
<1> QED
  BY <1>2, <1>3, <1>4, <1>5, <1>6 DEF ArchiveInv

(* What a step of the archive transaction that only reads has to show.     *)
LEMMA PassKeeps ==
  ASSUME ArchiveInv, UNCHANGED Held,
         pass' \in [step : {"idle", "pending", "orders", "batch", "traces"},
                    before : Nat, cursors : SUBSET Nat, batch : SUBSET Nat],
         PassSafe'
  PROVE  ArchiveInv'
<1>1. ArchiveTypes'
  BY DEF Held, ArchiveInv, ArchiveTypes, Ids
<1>2. HotIsNewest' /\ ChunksApart'
  BY DEF Held, ArchiveInv, HotIsNewest, ChunksApart, Ids, Of
<1>3. Stands' /\ Replays'
  BY DEF Held, ArchiveInv, Stands, StandsAs, Kept, InTrace, Archived, Replays, ReplaysOf,
         Span, Of, Ids
<1> QED
  BY <1>1, <1>2, <1>3 DEF ArchiveInv

(* A cursor that is read is where the position stands, so that it stays at *)
(* or behind it.                                                           *)
LEMMA CursorsKeep ==
  ASSUME ArchiveInv,
         ReadPositions \/ ReadPending \/ ReadOrders \/ ReadBatch \/ Abort
  PROVE  ArchiveInv'
<1>1. /\ position \in [Positions -> PositionRow] /\ aged \in Nat /\ PassSafe
      /\ pass \in [step : {"idle", "pending", "orders", "batch", "traces"},
                   before : Nat, cursors : SUBSET Nat, batch : SUBSET Nat]
      /\ UNCHANGED Held
  BY DEF ArchiveInv, ArchiveTypes, ReadPositions, ReadPending, ReadOrders, ReadBatch,
         Collect, Abort
<1>2. \A status : AtOf(status) \in SUBSET Nat
  BY <1>1 DEF AtOf, PositionRow
<1>3. CASE ReadPositions
  <2>1. pass' = [step |-> "pending", before |-> aged, cursors |-> AtOf("OPEN"), batch |-> {}]
    BY <1>3 DEF ReadPositions
  <2>2. ASSUME NEW p \in Positions, position[p].status = "OPEN"
        PROVE  \E c \in AtOf("OPEN") : c <= position[p].at
    <3>1. position[p].at \in AtOf("OPEN") /\ position[p].at \in Nat
      BY <2>2, <1>1 DEF AtOf, PositionRow
    <3> QED
      BY <3>1
  <2>3. PassSafe'
    BY <2>1, <2>2, <1>1 DEF PassSafe, AheadAt, Held
  <2> QED
    BY <2>1, <2>3, <1>1, <1>2, PassKeeps
<1>4. ASSUME NEW ids \in SUBSET Nat, NEW from \in {"pending", "orders"}, NEW to \in {"orders", "batch"},
             Collect(from, to, ids)
      PROVE  ArchiveInv'
  <2>1. /\ pass' = [pass EXCEPT !.step = to, !.cursors = @ \cup ids]
        /\ pass.step = from /\ pass.batch = {}
    BY <1>1, <1>4 DEF Collect, PassSafe
  <2>2. /\ pass'.before = pass.before /\ pass'.batch = {} /\ pass'.step = to
        /\ pass'.cursors = pass.cursors \cup ids
    BY <2>1, <1>1
  <2>3. PassSafe'
    BY <2>1, <2>2, <1>1 DEF PassSafe, AheadAt, Held
  <2>4. pass' \in [step : {"idle", "pending", "orders", "batch", "traces"},
                   before : Nat, cursors : SUBSET Nat, batch : SUBSET Nat]
    BY <2>1, <1>1
  <2> QED
    BY <2>3, <2>4, <1>1, PassKeeps
<1>5. CASE ReadPending
  BY <1>2, <1>4, <1>5 DEF ReadPending
<1>6. CASE ReadOrders
  <2>1. {position[p].ioc : p \in {q \in Positions : position[q].ioc # 0}} \in SUBSET Nat
    BY <1>1 DEF PositionRow
  <2> QED
    BY <2>1, <1>4, <1>6 DEF ReadOrders
<1>7. ASSUME pass' = Idle
      PROVE  ArchiveInv'
  <2>1. PassSafe'
    BY <1>1, <1>7 DEF PassSafe, Idle, Held
  <2> QED
    BY <2>1, <1>1, <1>7, PassKeeps DEF Idle
<1>8. CASE ReadBatch
  <2> DEFINE batch == FirstOf(Prunable, BatchLimit)
  <2>1. CASE batch = {}
    BY <2>1, <1>7, <1>8 DEF ReadBatch
  <2>2. CASE batch # {}
    <3>1. pass' = [pass EXCEPT !.step = "traces", !.batch = batch]
      BY <2>2, <1>8 DEF ReadBatch
    <3>2. /\ Prunable \in SUBSET hot /\ hot \subseteq Ids /\ Ids \in SUBSET Nat /\ IsFiniteSet(Ids)
          /\ BatchLimit \in Nat /\ batch \subseteq Prunable
      BY IdsAreFinite, LimitsAssumption DEF ArchiveInv, ArchiveTypes, Prunable, FirstOf
    <3>3. IsFiniteSet(Prunable) /\ Prunable \in SUBSET Nat
      BY <3>2, FS_Subset
    <3>4. ASSUME NEW e \in batch, NEW f \in hot, f < e
          PROVE  f \in batch
      <4>1. e \in Prunable /\ e \in Nat /\ f \in Nat
        BY <3>2
      <4>2. f \in Prunable
        <5>1. e <= pass.before /\ \A c \in pass.cursors : e < c
          BY <4>1 DEF Prunable
        <5>2. f <= pass.before
          BY <5>1, <4>1, <3>4, <1>1
        <5>3. \A c \in pass.cursors : c \in Nat /\ f < c
          BY <5>1, <4>1, <3>4, <1>1
        <5> QED
          BY <5>2, <5>3 DEF Prunable
      <4>3. f <= e
        BY <4>1, <3>4
      <4> QED
        BY <4>2, <4>3, <3>2, <3>3, FirstIsPrefix
    <3>5. batch \subseteq hot /\ \A e \in batch : e <= pass.before /\ \A c \in pass.cursors : e < c
      BY <3>2 DEF Prunable
    <3> HIDE DEF batch
    <3>6. /\ pass'.before = pass.before /\ pass'.batch = batch /\ pass'.step = "traces"
          /\ pass'.cursors = pass.cursors /\ pass.step = "batch"
      BY <3>1, <1>1, <1>8 DEF ReadBatch
    <3>7. PassSafe'
      BY <3>4, <3>5, <3>6, <1>1 DEF PassSafe, AheadAt, Held
    <3>8. pass' \in [step : {"idle", "pending", "orders", "batch", "traces"},
                     before : Nat, cursors : SUBSET Nat, batch : SUBSET Nat]
      BY <3>1, <3>2, <3>5, <1>1
    <3> QED
      BY <3>7, <3>8, <1>1, PassKeeps
  <2> QED
    BY <2>1, <2>2
<1>9. CASE Abort
  BY <1>7, <1>9 DEF Abort
<1> QED
  BY <1>3, <1>5, <1>6, <1>8, <1>9

(* The pass packs what a trace needs of its batch and removes the batch:   *)
(* the oldest hot events, all of them behind every open position.          *)
LEMMA PruneKeeps ==
  ASSUME ArchiveInv, Prune
  PROVE  ArchiveInv'
<1> DEFINE needed == {e \in pass.batch : Needed(e)}
           new  == {needed \cap Of(s) : s \in {journal[e] : e \in needed}}
<1>1. /\ ArchiveTypes /\ Ids \in SUBSET Nat /\ hot \subseteq Ids /\ chunks \subseteq SUBSET Ids
      /\ PassSafe /\ HotIsNewest /\ ChunksApart /\ pass.step = "traces" /\ aged \in Nat
      /\ \A e \in Ids : journal[e] \in Symbols
      /\ pass.batch \subseteq hot /\ pass.before \in Nat /\ pass.cursors \in SUBSET Nat
  BY IdsAreFinite DEF ArchiveInv, ArchiveTypes, Prune, PassSafe, Ids
<1>2. /\ chunks' = chunks \cup new /\ hot' = hot \ pass.batch /\ pass' = Idle
      /\ UNCHANGED <<journal, aged, position, read, replay>>
  BY DEF Prune
<1>3. Ids' = Ids /\ \A s : Of(s)' = Of(s)
  BY <1>2 DEF Ids, Of
<1>4. \A e \in Ids \ hot' : e \in Ids \ hot \/ e \in pass.batch
  BY <1>2
<1>5. \A k \in new : \E s \in Symbols : /\ k = needed \cap Of(s) /\ k # {}
                                        /\ k \subseteq pass.batch
  <2> SUFFICES ASSUME NEW k \in new
               PROVE  \E s \in Symbols : k = needed \cap Of(s) /\ k # {} /\ k \subseteq pass.batch
    OBVIOUS
  <2>1. PICK e \in needed : k = needed \cap Of(journal[e])
    OBVIOUS
  <2>2. e \in needed \cap Of(journal[e]) /\ journal[e] \in Symbols
    BY <1>1 DEF Of
  <2> QED
    BY <2>1, <2>2
<1> HIDE DEF new
<1>6. ArchiveTypes'
  <2>1. chunks' \subseteq SUBSET Ids
    BY <1>1, <1>2, <1>5
  <2>2. hot' \subseteq Ids
    BY <1>1, <1>2
  <2>3. pass' \in [step : {"idle", "pending", "orders", "batch", "traces"},
                   before : Nat, cursors : SUBSET Nat, batch : SUBSET Nat]
    BY <1>2 DEF Idle
  <2> QED
    BY <1>1, <1>2, <1>3, <2>1, <2>2, <2>3 DEF ArchiveTypes
<1>7. HotIsNewest'
  <2>1. ASSUME NEW e \in Ids \ hot'
        PROVE  e <= aged /\ \A f \in hot' : e < f
    <3>1. CASE e \in Ids \ hot
      BY <3>1, <1>1, <1>2 DEF HotIsNewest
    <3>2. CASE e \in pass.batch
      <4>1. e <= pass.before /\ pass.before <= aged /\ e \in Nat
        BY <3>2, <1>1 DEF PassSafe
      <4>2. ASSUME NEW f \in hot'
            PROVE  e < f
        <5>1. f \in hot /\ f \notin pass.batch /\ f \in Nat
          BY <1>1, <1>2
        <5>2. ~(f < e) /\ f # e
          BY <3>2, <5>1, <1>1 DEF PassSafe
        <5> QED
          BY <5>1, <5>2, <4>1
      <4> QED
        BY <4>1, <4>2, <1>1
    <3> QED
      BY <3>1, <3>2, <1>4
  <2> QED
    BY <2>1, <1>2, <1>3 DEF HotIsNewest
<1>8. ChunksApart'
  <2>1. \A k \in chunks' : k # {} /\ k \cap hot' = {}
    <3> SUFFICES ASSUME NEW k \in chunks'
                 PROVE  k # {} /\ k \cap hot' = {}
      OBVIOUS
    <3>1. CASE k \in chunks
      BY <3>1, <1>1, <1>2 DEF ChunksApart
    <3>2. CASE k \in new
      BY <3>2, <1>2, <1>5
    <3> QED
      BY <3>1, <3>2, <1>2
  <2>2. ASSUME NEW s \in Symbols, NEW a \in chunks', NEW b \in chunks',
               a \subseteq Of(s), b \subseteq Of(s), a # b
        PROVE  Precedes(a, b) \/ Precedes(b, a)
    <3>1. ASSUME NEW old \in chunks, NEW k \in new
          PROVE  Precedes(old, k)
      <4>1. \A x \in old : x \in Ids \ hot
        BY <1>1 DEF ChunksApart
      <4>2. k \subseteq hot
        BY <1>1, <1>5
      <4> QED
        BY <4>1, <4>2, <1>1 DEF HotIsNewest, Precedes
    <3>2. CASE a \in chunks /\ b \in chunks
      BY <2>2, <3>2, <1>1 DEF ChunksApart
    <3>3. CASE a \in new /\ b \in new
      <4>1. PICK s1 \in Symbols : a = needed \cap Of(s1) /\ a # {}
        BY <3>3, <1>5
      <4>2. PICK s2 \in Symbols : b = needed \cap Of(s2) /\ b # {}
        BY <3>3, <1>5
      <4>3. s1 = s
        BY <4>1, <2>2 DEF Of
      <4>4. s2 = s
        BY <4>2, <2>2 DEF Of
      <4> QED
        BY <4>1, <4>2, <4>3, <4>4, <2>2
    <3> QED
      BY <3>1, <3>2, <3>3, <1>2
  <2> QED
    BY <2>1, <2>2, <1>3 DEF ChunksApart, Precedes
<1>9. PassSafe'
  BY <1>1, <1>2 DEF PassSafe, Idle, AheadAt
<1>10. Stands'
  <2> SUFFICES ASSUME NEW p \in Positions
               PROVE  (StandsAs(position[p], read[p]) /\ Kept(position[p]))'
    BY DEF Stands
  <2> DEFINE x == position[p]
  <2>1. StandsAs(x, read[p]) /\ Kept(x) /\ position' = position /\ read' = read /\ x \in PositionRow
    BY <1>1, <1>2 DEF ArchiveInv, ArchiveTypes, Stands
  <2>2. x.status = "OPEN" => \A e \in Ids \ hot' : e <= x.at
    <3> SUFFICES ASSUME x.status = "OPEN", NEW e \in pass.batch
                 PROVE  e <= x.at
      BY <2>1, <1>4 DEF StandsAs
    <3>1. /\ AheadAt(x.at) /\ e <= pass.before /\ \A c \in pass.cursors : e < c
          /\ e \in Nat /\ x.at \in Nat
      BY <2>1, <1>1 DEF PassSafe, PositionRow
    <3>2. CASE x.at > pass.before
      BY <3>1, <3>2, <1>1
    <3>3. CASE \E c \in pass.cursors : c <= x.at
      BY <3>1, <3>3, <1>1
    <3> QED
      BY <3>1, <3>2, <3>3 DEF AheadAt
  <2>3. ASSUME NEW e \in Ids \ hot', x.retained, InTrace(x, e)
        PROVE  \E k \in chunks' : e \in k /\ k \subseteq Of(x.symbol)
    <3>1. CASE e \in Ids \ hot
      BY <3>1, <2>1, <2>3, <1>2 DEF Kept, Archived
    <3>2. CASE e \in pass.batch
      <4>1. Needed(e) /\ journal[e] = x.symbol
        BY <2>3 DEF Needed, InTrace, Of
      <4>2. needed \cap Of(x.symbol) \in new
        BY <3>2, <4>1 DEF new
      <4>3. e \in needed \cap Of(x.symbol)
        BY <3>2, <4>1, <2>3 DEF InTrace
      <4> QED
        BY <4>2, <4>3, <1>2
    <3> QED
      BY <3>1, <3>2, <1>4
  <2>4. StandsAs(position[p], read[p])'
    BY <2>1, <2>2, <1>3 DEF StandsAs, Span
  <2>5. Kept(position[p])'
    BY <2>1, <2>3, <1>3 DEF Kept, InTrace, Archived
  <2> QED
    BY <2>4, <2>5
<1>11. Replays'
  BY <1>2, <1>3 DEF ArchiveInv, Replays, ReplaysOf
<1> QED
  BY <1>6, <1>7, <1>8, <1>9, <1>10, <1>11 DEF ArchiveInv

(* A chunk that is dropped holds nothing of a trace that is retained.      *)
LEMMA CleanupKeeps ==
  ASSUME ArchiveInv, Cleanup
  PROVE  ArchiveInv'
<1>1. /\ chunks' \subseteq chunks
      /\ UNCHANGED <<journal, hot, aged, position, read, pass, replay>>
      /\ \A k \in chunks : (\E p \in Positions : Overlaps(position[p], k)) => k \in chunks'
  BY DEF Cleanup
<1>2. Ids' = Ids /\ \A s : Of(s)' = Of(s)
  BY <1>1 DEF Ids, Of
<1>3. ArchiveTypes' /\ HotIsNewest' /\ PassSafe' /\ ChunksApart'
  BY <1>1, <1>2 DEF ArchiveInv, ArchiveTypes, HotIsNewest, PassSafe, AheadAt, ChunksApart
<1>4. Stands'
  <2> SUFFICES ASSUME NEW p \in Positions
               PROVE  (StandsAs(position[p], read[p]) /\ Kept(position[p]))'
    BY DEF Stands
  <2> DEFINE x == position[p]
  <2>1. StandsAs(x, read[p]) /\ Kept(x) /\ position' = position /\ read' = read /\ x \in PositionRow
    BY <1>1 DEF ArchiveInv, ArchiveTypes, Stands
  <2>2. ASSUME NEW e \in Ids \ hot, x.retained, InTrace(x, e)
        PROVE  \E k \in chunks' : e \in k /\ k \subseteq Of(x.symbol)
    <3>1. PICK k \in chunks : e \in k /\ k \subseteq Of(x.symbol)
      BY <2>1, <2>2 DEF Kept, Archived
    <3>2. k \in SUBSET Nat /\ \A y \in k : y <= Len(journal)
      BY <3>1, IdsAreFinite DEF ArchiveInv, ArchiveTypes
    <3>3. Min(k) <= e /\ e <= Max(k) /\ Min(k) \in Nat /\ Max(k) \in Nat /\ e \in Nat
      BY <3>1, <3>2, IdsAreFinite, MinIsLeast, MaxIsGreatest DEF ArchiveInv
    <3>4. x.start <= Max(k) /\ (x.status = "CLOSED" => x.end >= Min(k))
      BY <3>3, <2>1, <2>2 DEF InTrace, PositionRow
    <3>5. k \in chunks'
      BY <3>1, <3>4, <2>2, <1>1 DEF Overlaps
    <3> QED
      BY <3>1, <3>5
  <2>3. StandsAs(position[p], read[p])'
    BY <2>1, <1>1, <1>2 DEF StandsAs, Span
  <2>4. Kept(position[p])'
    BY <2>1, <2>2, <1>1, <1>2 DEF Kept, InTrace, Archived
  <2> QED
    BY <2>3, <2>4
<1>5. Replays'
  BY <1>1, <1>2 DEF ArchiveInv, Replays, ReplaysOf
<1> QED
  BY <1>3, <1>4, <1>5 DEF ArchiveInv

(* What a step of a replay has to show.                                    *)
LEMMA ReplayKeeps ==
  ASSUME ArchiveInv, UNCHANGED <<journal, hot, chunks, aged, position, read, pass>>,
         replay' \in [of : SUBSET Positions, at : Nat, seen : SUBSET Nat, gap : BOOLEAN],
         Replays'
  PROVE  ArchiveInv'
<1>1. ArchiveTypes' /\ HotIsNewest' /\ ChunksApart' /\ PassSafe' /\ Stands'
  BY DEF ArchiveInv, ArchiveTypes, HotIsNewest, ChunksApart, PassSafe, AheadAt, Stands,
         StandsAs, Kept, InTrace, Archived, Span, Of, Ids
<1> QED
  BY <1>1 DEF ArchiveInv

(* Whatever is kept or dropped, a page is of events that were appended.    *)
LEMMA AfterIsOfJournal ==
  ASSUME ArchiveTypes, NEW s, NEW cursor, NEW through
  PROVE  After(s, cursor, through) \subseteq Ids
<1> DEFINE known  == {k \in chunks : /\ k \subseteq Of(s)
                                     /\ Min(k) <= through /\ Max(k) > cursor}
           loaded == FirstChunks(known, ChunkLimit)
           Live   == {e \in Of(s) \cap hot : e > cursor /\ e <= through}
           Found  == {e \in FirstOf(Live, PageLimit) \cup UNION loaded :
                        e > cursor /\ e <= Upper(loaded, through)}
<1>1. After(s, cursor, through) = FirstOf(Found, PageLimit)
  BY DEF After, FirstChunks
<1>2. \A l \in loaded : l \subseteq Ids
  BY DEF FirstChunks, ArchiveTypes
<1>3. FirstOf(Live, PageLimit) \subseteq Ids
  BY DEF FirstOf, ArchiveTypes
<1> HIDE DEF loaded, Live
<1>4. Found \subseteq Ids
  BY <1>2, <1>3
<1> QED
  BY <1>1, <1>4 DEF FirstOf

(* A page of a replay: what the trace needs is kept, and the reader leaves  *)
(* nothing out, so that a page is empty only at the end of the trace.       *)
LEMMA PagesKeep ==
  ASSUME ArchiveInv, NEW p \in Positions, BeginReplay(p) \/ ReplayPage(p)
  PROVE  ArchiveInv'
<1> DEFINE x == position[p]
<1>1. /\ x \in PositionRow /\ StandsAs(x, read[p]) /\ Kept(x) /\ x.symbol \in Symbols
      /\ UNCHANGED <<journal, hot, chunks, aged, position, read, pass>>
      /\ replay \in [of : SUBSET Positions, at : Nat, seen : SUBSET Nat, gap : BOOLEAN]
      /\ Ids \in SUBSET Nat /\ Of(x.symbol) \in SUBSET Nat
      /\ x.start \in Nat /\ x.end \in Nat
  BY IdsAreFinite DEF ArchiveInv, ArchiveTypes, PositionRow, Stands, BeginReplay, ReplayPage, Of
<1>2. ASSUME NEW at \in Nat, NEW seen \in SUBSET Nat, NEW gap \in BOOLEAN, NEW of \in SUBSET Positions,
             replay' = [of |-> of, at |-> at, seen |-> seen, gap |-> gap],
             of = {p}, x.status = "CLOSED",
             x.retained => /\ ~gap /\ x.start <= at + 1 /\ at <= x.end
                           /\ seen = {e \in Of(x.symbol) : x.start <= e /\ e <= at}
      PROVE  ArchiveInv'
  <2>1. \A s : Of(s)' = Of(s)
    BY <1>1 DEF Of, Ids
  <2>2. Replays'
    BY <2>1, <1>1, <1>2 DEF Replays, ReplaysOf
  <2> QED
    BY <2>2, <1>1, <1>2, ReplayKeeps
<1>3. CASE BeginReplay(p)
  <2>1. /\ x.status = "CLOSED" /\ x.retained
        /\ replay' = [of |-> {p}, at |-> x.start - 1, seen |-> {}, gap |-> FALSE]
    BY <1>3 DEF BeginReplay
  <2>2. /\ 1 <= x.start /\ x.start <= x.end
    BY <2>1, <1>1 DEF StandsAs
  <2>3. x.start - 1 \in Nat /\ x.start <= (x.start - 1) + 1 /\ x.start - 1 <= x.end
    BY <2>2, <1>1
  <2>4. {e \in Of(x.symbol) : x.start <= e /\ e <= x.start - 1} = {}
    <3>1. \A e \in Of(x.symbol) : ~(x.start <= e /\ e <= x.start - 1)
      BY <1>1
    <3> QED
      BY <3>1
  <2>5. PICK at \in Nat : at = x.start - 1
    BY <2>3
  <2>6. {} \in SUBSET Nat /\ FALSE \in BOOLEAN /\ {p} \in SUBSET Positions
    OBVIOUS
  <2> HIDE DEF x
  <2>7. /\ replay' = [of |-> {p}, at |-> at, seen |-> {}, gap |-> FALSE]
        /\ x.start <= at + 1 /\ at <= x.end
        /\ {} = {e \in Of(x.symbol) : x.start <= e /\ e <= at}
    BY <2>1, <2>3, <2>4, <2>5
  <2> QED
    BY <2>1, <2>6, <2>7, <1>2
<1>4. CASE ReplayPage(p)
  <2> DEFINE part == After(x.symbol, replay.at, x.end)
  <2>1. /\ p \in replay.of /\ replay.at < x.end /\ ReplaysOf(x) /\ replay.at \in Nat
        /\ replay' = IF part = {} THEN [replay EXCEPT !.gap = TRUE]
                     ELSE [replay EXCEPT !.at = Max(part), !.seen = @ \cup part]
    BY <1>1, <1>4 DEF ReplayPage, ArchiveInv, Replays
  <2>2. /\ x.status = "CLOSED" /\ replay.of = {p} /\ replay.of \in SUBSET Positions
    BY <2>1, <1>1 DEF ReplaysOf, ArchiveInv, Replays
  <2>3. /\ replay.seen \in SUBSET Nat /\ replay.gap \in BOOLEAN
        /\ part = {} => replay' = [of |-> {p}, at |-> replay.at, seen |-> replay.seen, gap |-> TRUE]
        /\ part # {} => replay' = [of |-> {p}, at |-> Max(part), seen |-> replay.seen \cup part,
                                   gap |-> replay.gap]
    <3> HIDE DEF part
    <3> QED
      BY <2>1, <2>2, <1>1
  <2>4. part \subseteq Ids
    BY AfterIsOfJournal DEF ArchiveInv
  <2>5. part # {} => /\ Max(part) \in part /\ Max(part) \in Nat
                     /\ \A e \in part : e \in Nat /\ e <= Max(part)
    <3> HIDE DEF part
    <3> QED
      BY <2>4, LastEvent DEF ArchiveInv
  <2>6. part \in SUBSET Nat
    BY <2>4, <1>1
  <2>7. CASE ~x.retained
    <3> HIDE DEF part, x
    <3>1. CASE part = {}
      BY <2>1, <2>2, <2>3, <2>7, <3>1, <1>2
    <3>2. CASE part # {}
      <4>1. replay.seen \cup part \in SUBSET Nat
        BY <2>3, <2>6
      <4> QED
        BY <4>1, <2>2, <2>3, <2>5, <2>7, <3>2, <1>2
    <3> QED
      BY <3>1, <3>2
  <2>8. CASE x.retained
    <3>1. /\ ~replay.gap /\ x.start <= replay.at + 1 /\ replay.at <= x.end
          /\ replay.seen = {e \in Of(x.symbol) : x.start <= e /\ e <= replay.at}
          /\ x.end \in Of(x.symbol)
      BY <2>1, <2>2, <2>8, <1>1 DEF ReplaysOf, StandsAs
    <3>2. ASSUME NEW e \in Span(x.symbol, replay.at, x.end)
          PROVE  e \in hot \/ Archived(x.symbol, e)
      <4>1. e \in Of(x.symbol) /\ x.start <= e /\ e <= x.end
        BY <3>1, <2>1, <1>1 DEF Span
      <4>2. e \in Ids
        BY <4>1 DEF Of
      <4> QED
        BY <4>1, <4>2, <2>8, <1>1 DEF Kept, InTrace
    <3>3. /\ part \subseteq Span(x.symbol, replay.at, x.end)
          /\ \A e \in part, f \in Of(x.symbol) : replay.at < f /\ f < e => f \in part
          /\ x.end \in Span(x.symbol, replay.at, x.end) => part # {}
      BY <3>2, <2>1, <1>1, AfterIsLossless DEF ArchiveInv
    <3> HIDE DEF part
    <3>4. part # {}
      BY <3>1, <3>3, <2>1, <1>1 DEF Span
    <3>5. Max(part) <= x.end /\ replay.at < Max(part)
      BY <3>3, <3>4, <2>5 DEF Span
    <3>6. replay.seen \cup part = {e \in Of(x.symbol) : x.start <= e /\ e <= Max(part)}
      <4>1. ASSUME NEW e \in part
            PROVE  e \in Of(x.symbol) /\ x.start <= e /\ e <= Max(part)
        BY <3>1, <3>3, <3>4, <2>1, <2>5, <1>1 DEF Span
      <4>2. ASSUME NEW e \in Of(x.symbol), e <= replay.at
            PROVE  e <= Max(part)
        BY <4>2, <3>4, <3>5, <2>1, <2>5, <1>1
      <4>3. ASSUME NEW e \in Of(x.symbol), replay.at < e, e <= Max(part)
            PROVE  e \in part
        <5>1. e = Max(part) \/ e < Max(part)
          BY <4>3, <3>4, <2>5, <1>1
        <5> QED
          BY <5>1, <4>3, <3>3, <3>4, <2>5
      <4>4. \A e \in Of(x.symbol) : e <= replay.at \/ replay.at < e
        BY <2>1, <1>1
      <4> HIDE DEF x
      <4> QED
        BY <4>1, <4>2, <4>3, <4>4, <3>1
    <3>7. x.start <= Max(part) + 1
      BY <3>1, <3>4, <3>5, <2>1, <2>5, <1>1
    <3>8. replay.seen \cup part \in SUBSET Nat
      BY <2>3, <2>6
    <3> HIDE DEF x
    <3> QED
      BY <3>1, <3>4, <3>5, <3>6, <3>7, <3>8, <2>2, <2>3, <2>5, <1>2
  <2> QED
    BY <2>7, <2>8
<1> QED
  BY <1>3, <1>4

(* Nothing was appended yet.                                              *)
LEMMA ArchiveInvInit == ArchiveInit => ArchiveInv
<1> SUFFICES ASSUME ArchiveInit
             PROVE  ArchiveInv
  OBVIOUS
<1>1. /\ journal \in Seq(Symbols) /\ Len(journal) = 0 /\ Ids = {} /\ hot = {} /\ chunks = {}
  BY DEF ArchiveInit, Ids
<1>2. /\ position \in [Positions -> PositionRow]
      /\ \A p \in Positions : /\ position[p].status = "none" /\ position[p].start = 0
                              /\ ~position[p].retained /\ read[p] = {}
  <2>1. /\ position \in [Positions -> {Unused(s) : s \in Symbols}]
        /\ read = [p \in Positions |-> {}]
    BY DEF ArchiveInit
  <2>2. ASSUME NEW s \in Symbols
        PROVE  /\ Unused(s) \in PositionRow /\ Unused(s).status = "none"
               /\ Unused(s).start = 0 /\ Unused(s).retained = FALSE
    BY DEF Unused, PositionRow
  <2>3. ASSUME NEW p \in Positions
        PROVE  /\ position[p] \in PositionRow /\ position[p].status = "none"
               /\ position[p].start = 0 /\ ~position[p].retained /\ read[p] = {}
    <3>1. PICK s \in Symbols : position[p] = Unused(s)
      BY <2>1
    <3> QED
      BY <2>1, <2>2, <3>1
  <2>4. position \in [Positions -> PositionRow]
    <3>1. DOMAIN position = Positions /\ position = [p \in Positions |-> position[p]]
      BY <2>1
    <3> QED
      BY <3>1, <2>3
  <2> QED
    BY <2>3, <2>4
<1>3. ArchiveTypes
  BY <1>1, <1>2 DEF ArchiveInit, ArchiveTypes, Idle, NoReplay
<1>4. HotIsNewest /\ ChunksApart
  BY <1>1 DEF HotIsNewest, ChunksApart
<1>5. PassSafe /\ Replays
  BY DEF ArchiveInit, PassSafe, Idle, Replays, NoReplay
<1>6. Stands
  BY <1>1, <1>2 DEF Stands, StandsAs, Kept
<1> QED
  BY <1>3, <1>4, <1>5, <1>6 DEF ArchiveInv

(* Every step of the archive keeps all of this.                            *)
LEMMA ArchiveStep == ArchiveInv /\ [ArchiveNext]_archiveVars => ArchiveInv'
<1> SUFFICES ASSUME ArchiveInv, [ArchiveNext]_archiveVars
             PROVE  ArchiveInv'
  OBVIOUS
<1>1. CASE UNCHANGED archiveVars
  <2>1. UNCHANGED Held /\ pass' = pass
    BY <1>1 DEF archiveVars, Held
  <2>2. PassSafe'
    BY <2>1 DEF ArchiveInv, PassSafe, AheadAt, Held
  <2> QED
    BY <2>1, <2>2, PassKeeps DEF ArchiveInv, ArchiveTypes
<1>2. ASSUME NEW s \in Symbols, AppendEvent(s)
      PROVE  ArchiveInv'
  BY <1>2, AppendKeeps
<1>3. ASSUME NEW p \in Positions,
             \/ Enter(p) \/ Wait(p) \/ Fill(p) \/ Drop(p)
             \/ Manage(p) \/ BeginExit(p) \/ Close(p) \/ Expire(p)
             \/ BeginReplay(p) \/ ReplayPage(p)
      PROVE  ArchiveInv'
  BY <1>3, PendingKeeps, FillKeeps, ManageKeeps, ExitKeeps, PagesKeep
<1>4. CASE Age
  BY <1>4, AgeKeeps
<1>5. CASE ReadPositions \/ ReadPending \/ ReadOrders \/ ReadBatch \/ Abort
  BY <1>5, CursorsKeep
<1>6. CASE Prune
  BY <1>6, PruneKeeps
<1>7. CASE Cleanup
  BY <1>7, CleanupKeeps
<1> QED
  BY <1>1, <1>2, <1>3, <1>4, <1>5, <1>6, <1>7 DEF ArchiveNext

(* No reader of the merged history jumps over an event it needs, whatever  *)
(* fills, exits, closes, prunes and cleanups commit between the queries of  *)
(* a pass (archiveAndPrune) and the pages of a replay (replayRuntimeTrace), *)
(* for every number of markets and positions and all limits.               *)
THEOREM HistoryIsWhole == ArchiveSpec => []ArchiveLossless
<1>1. ArchiveInv => ArchiveLossless
  <2> SUFFICES ASSUME ArchiveInv
               PROVE  ArchiveLossless
    OBVIOUS
  <2>1. ReplayExact
    BY DEF ArchiveInv, Replays, ReplaysOf, ReplayExact
  <2>2. ASSUME NEW p \in Positions, position[p].start # 0
        PROVE  read[p] = {e \in Of(position[p].symbol) :
                            position[p].start < e /\ e <= position[p].at}
    BY <2>2 DEF ArchiveInv, ArchiveTypes, PositionRow, Stands, StandsAs, Span
  <2>3. NothingSkipped
    BY <2>2 DEF NothingSkipped
  <2> QED
    BY <2>1, <2>3 DEF ArchiveLossless
<1> QED
  BY <1>1, ArchiveInvInit, ArchiveStep, PTL DEF ArchiveSpec

-----------------------------------------------------------------------------
(* The rows of the account.                                                *)
AccountRow ==
  [status : {"none", "open", "closed"}, side : {-1, 1}, remaining : Int \cup {Null}, fee : Int,
   remainingFee : Int \cup {Null}, mark : Int, net : Int, realized : Int, unrealized : Int,
   accrued : Int, latched : BOOLEAN, filled : BOOLEAN]
MoneyRows ==
  /\ account \in [Holdings -> AccountRow]
  /\ fillNet \in [Holdings -> Int] /\ paid \in [Holdings -> Int]
  /\ tradeNet \in [Holdings -> Int \cup {Null}]

(* How the columns of one position hang together.  A position that exits   *)
(* through the book has a fill row for every change of its result, one that*)
(* is closed whole has none, nor funding; a trade row comes with closing;  *)
(* and the unrealized result is that of what remains, at the mark.         *)
Fits(p, lot, fills, funding, trade) ==
  /\ lot.status = "closed" <=> trade # Null
  /\ lot.status = "none" => fills = 0 /\ funding = 0
  /\ p \notin Liquidity =>
       /\ fills = 0 /\ funding = 0 /\ ~lot.latched /\ ~lot.filled
       /\ lot.status = "open" => lot.realized = 0 /\ lot.remaining = Null
  /\ p \in Liquidity =>
       /\ lot.status = "open" =>
            /\ lot.remaining \in Int /\ lot.remainingFee \in Int
            /\ lot.net = fills /\ lot.accrued = funding
            /\ lot.realized = fills - funding
       /\ lot.status = "closed" => trade = fills - funding
  /\ lot.status = "open" =>
       /\ ~lot.latched => OrElse(lot.remaining, Quantity) = Quantity
       /\ lot.latched /\ ~lot.filled => lot.remaining # 0
       /\ lot.unrealized =
            Unrealized(lot, lot.mark, OrElse(lot.remaining, Quantity))

Columns ==
  /\ MoneyRows
  /\ \A p \in Holdings : Fits(p, account[p], fillNet[p], paid[p], tradeNet[p])

(* A result is a whole number.                                             *)
LEMMA UnrealizedType ==
  ASSUME NEW a \in AccountRow, NEW price \in Int, NEW quantity \in Int
  PROVE  Unrealized(a, price, quantity) \in Int
<1>1. (price - EntryPrice) * quantity \in Int /\ a.side \in Int
  BY BooksAssumption DEF AccountRow
<1> QED
  BY <1>1 DEF Unrealized

(* What remains of an open lot.                                       *)
LEMMA RemainingType ==
  ASSUME MoneyRows, NEW p \in Holdings
  PROVE  Remaining(p) \in Int /\ RemainingFee(p) \in Int
BY BooksAssumption DEF MoneyRows, AccountRow, Remaining, RemainingFee, OrElse

(* The two books agree when the columns of every position do.              *)
LEMMA BooksFromColumns ==
  ASSUME Columns, proven = CashPnl
  PROVE  BooksAgree
<1> DEFINE t == [p \in Holdings |-> IF p \in Traded THEN tradeNet[p] ELSE 0]
           o == [p \in Holdings |-> IF p \in StillOpen THEN account[p].realized ELSE 0]
           W == {p \in Holdings \ Liquidity : tradeNet[p] # Null}
           w == [p \in Holdings |-> IF p \in W THEN tradeNet[p] ELSE 0]
           l == [p \in Holdings |-> t[p] + o[p]]
           r == [p \in Holdings |-> w[p] + fillNet[p]]
           real == [p \in Holdings |-> account[p].realized]
           unreal == [p \in Holdings |-> account[p].unrealized]
           marked == [p \in Holdings |-> Unrealized(account[p], account[p].mark, Remaining(p))]
           Sum(f) == SumFunctionOnSet(f, Holdings)
<1>1. /\ IsFiniteSet(Holdings) /\ MoneyRows
      /\ Traded \in SUBSET Holdings /\ StillOpen \in SUBSET Holdings /\ W \in SUBSET Holdings
  BY BooksAssumption DEF Columns, Traded, StillOpen
<1>2. /\ \A p \in Holdings : account[p] \in AccountRow /\ fillNet[p] \in Int /\ paid[p] \in Int
      /\ \A p \in Holdings : tradeNet[p] # Null => tradeNet[p] \in Int
  BY <1>1 DEF MoneyRows
<1>3. \A p \in Holdings : real[p] = account[p].realized /\ real[p] \in Int
                           /\ unreal[p] = account[p].unrealized /\ unreal[p] \in Int
  BY <1>2 DEF AccountRow
<1>4. TradesNet = Sum(t) /\ \A p \in Holdings : t[p] \in Int
  <2>1. \A p \in Traded : tradeNet[p] \in Int
    BY <1>2 DEF Traded
  <2>2. TradesNet = SumFunctionOnSet(tradeNet, Traded)
    BY DEF TradesNet, SumOver
  <2> QED
    BY <1>1, <2>1, <2>2, SumChosen
<1>5. OpenSum("realized") = Sum(o) /\ \A p \in Holdings : o[p] \in Int
  <2>1. OpenSum("realized") = SumFunctionOnSet(real, StillOpen)
    BY DEF OpenSum, SumOver
  <2>2. o = [p \in Holdings |-> IF p \in StillOpen THEN real[p] ELSE 0]
    BY <1>3
  <2>3. \A p \in StillOpen : real[p] \in Int
    BY <1>1, <1>3
  <2> HIDE DEF real, o
  <2> QED
    BY <1>1, <2>1, <2>2, <2>3, SumChosen
<1>6. SumOver(W, tradeNet) = Sum(w) /\ \A p \in Holdings : w[p] \in Int
  <2>1. \A p \in W : tradeNet[p] \in Int
    BY <1>2
  <2> HIDE DEF W
  <2> QED
    BY <1>1, <2>1, SumChosen DEF SumOver
<1>7. ASSUME NEW p \in Holdings
      PROVE  t[p] + o[p] + paid[p] = w[p] + fillNet[p]
  <2>1. Fits(p, account[p], fillNet[p], paid[p], tradeNet[p])
        /\ account[p] \in AccountRow /\ fillNet[p] \in Int /\ paid[p] \in Int
        /\ (tradeNet[p] # Null => tradeNet[p] \in Int)
    BY <1>2 DEF Columns
  <2>2. account[p].status \in {"none", "open", "closed"} /\ account[p].realized \in Int
    BY <2>1 DEF AccountRow
  <2>3. CASE account[p].status = "none"
    BY <2>1, <2>3 DEF Fits, Traded, StillOpen
  <2>4. CASE account[p].status = "open"
    BY <2>1, <2>2, <2>4 DEF Fits, Traded, StillOpen
  <2>5. CASE account[p].status = "closed"
    BY <2>1, <2>5 DEF Fits, Traded, StillOpen
  <2> QED
    BY <2>2, <2>3, <2>4, <2>5
<1>8. \A p \in Holdings : /\ l[p] = t[p] + o[p] /\ l[p] \in Int
                           /\ r[p] = w[p] + fillNet[p] /\ r[p] \in Int /\ r[p] = l[p] + paid[p]
  <2> HIDE DEF t, o, w
  <2> QED
    BY <1>2, <1>4, <1>5, <1>6, <1>7
<1> HIDE DEF t, o, w, l, r, W
<1>9. Sum(l) = Sum(t) + Sum(o)
  BY <1>1, <1>4, <1>5, <1>8, SumsAdd
<1>10. Sum(r) = Sum(w) + Sum(fillNet)
  BY <1>1, <1>2, <1>6, <1>8, SumsAdd
<1>11. Sum(r) = Sum(l) + Sum(paid)
  BY <1>1, <1>2, <1>8, SumsAdd
<1>12. Sum(t) \in Int /\ Sum(o) \in Int /\ Sum(w) \in Int /\ Sum(fillNet) \in Int /\ Sum(paid) \in Int
  BY <1>1, <1>2, <1>4, <1>5, <1>6, SumType
<1>13. /\ TotalPnl = Sum(t) + Sum(o)
       /\ RealizedCash(tradeNet, fillNet, paid) = Sum(w) + Sum(fillNet) - Sum(paid)
  <2>1. TotalPnl = TradesNet + OpenSum("realized")
    BY DEF TotalPnl
  <2>2. RealizedCash(tradeNet, fillNet, paid)
          = SumOver(W, tradeNet) + SumOver(Holdings, fillNet) - SumOver(Holdings, paid)
    BY DEF RealizedCash, W
  <2> QED
    BY <1>4, <1>5, <1>6, <2>1, <2>2 DEF SumOver
<1>14. TotalPnl = RealizedCash(tradeNet, fillNet, paid) /\ TotalPnl \in Int
  <2> DEFINE st == Sum(t)  so == Sum(o)  sw == Sum(w)  sf == Sum(fillNet)  sp == Sum(paid)
             sl == Sum(l)  sr == Sum(r)
  <2>1. /\ sl = st + so /\ sr = sw + sf /\ sr = sl + sp
        /\ st \in Int /\ so \in Int /\ sw \in Int /\ sf \in Int /\ sp \in Int
        /\ TotalPnl = st + so /\ RealizedCash(tradeNet, fillNet, paid) = sw + sf - sp
    BY <1>9, <1>10, <1>11, <1>12, <1>13
  <2> HIDE DEF st, so, sw, sf, sp, sl, sr
  <2> QED
    BY <2>1
<1>15. SumFunctionOnSet(unreal, StillOpen) = SumFunctionOnSet(marked, StillOpen)
       /\ SumFunctionOnSet(unreal, StillOpen) \in Int
  <2>1. IsFiniteSet(StillOpen)
    BY <1>1, FS_Subset
  <2>2. \A p \in StillOpen : unreal[p] \in Int /\ unreal[p] = marked[p]
    BY <1>1, <1>3 DEF Columns, Fits, Remaining, StillOpen
  <2> HIDE DEF unreal, marked
  <2> QED
    BY <2>1, <2>2, SumAlike, SumType
<1>16. SumOver(StillOpen, [p \in Holdings |-> RemainingFee(p)]) \in Int
  <2> DEFINE fees == [p \in Holdings |-> RemainingFee(p)]
  <2>1. IsFiniteSet(StillOpen)
    BY <1>1, FS_Subset
  <2>2. \A p \in StillOpen : fees[p] \in Int
    BY <1>1, RemainingType
  <2> HIDE DEF fees
  <2>3. SumFunctionOnSet(fees, StillOpen) \in Int
    BY <2>1, <2>2, SumType
  <2> QED
    BY <2>3 DEF fees, SumOver
<1>17. Equity = MarkEquity
  <2> DEFINE fees == SumOver(StillOpen, [p \in Holdings |-> RemainingFee(p)])
             su == SumFunctionOnSet(unreal, StillOpen)
             sm == SumFunctionOnSet(marked, StillOpen)
             cash == RealizedCash(tradeNet, fillNet, paid)
  <2>1. Equity = InitialBalance + TotalPnl + su - fees
    BY DEF Equity, OpenSum, SumOver
  <2>2. MarkEquity = InitialBalance + (cash - fees) + sm
    BY DEF MarkEquity, CashPnl, SumOver
  <2>3. su = sm /\ su \in Int /\ fees \in Int /\ TotalPnl = cash /\ TotalPnl \in Int
        /\ InitialBalance \in Int
    BY <1>14, <1>15, <1>16, BooksAssumption
  <2> HIDE DEF fees, su, sm, cash
  <2> QED
    BY <2>1, <2>2, <2>3
<1> QED
  BY <1>14, <1>17 DEF BooksAgree

-----------------------------------------------------------------------------
(* A step about one position leaves the columns of the others alone.       *)
LEMMA OneRow ==
  ASSUME Columns, NEW p \in Holdings, NEW r \in AccountRow, NEW n \in Int, NEW m \in Int,
         NEW t \in Int \cup {Null}, Fits(p, r, n, m, t),
         account' = [account EXCEPT ![p] = r], fillNet' = [fillNet EXCEPT ![p] = n],
         paid' = [paid EXCEPT ![p] = m], tradeNet' = [tradeNet EXCEPT ![p] = t]
  PROVE  Columns'
<1>1. MoneyRows'
  <2>1. account' \in [Holdings -> AccountRow]
    BY DEF Columns, MoneyRows
  <2>2. fillNet' \in [Holdings -> Int] /\ paid' \in [Holdings -> Int]
    BY DEF Columns, MoneyRows
  <2>3. tradeNet' \in [Holdings -> Int \cup {Null}]
    BY DEF Columns, MoneyRows
  <2> QED
    BY <2>1, <2>2, <2>3 DEF MoneyRows
<1>2. ASSUME NEW q \in Holdings
      PROVE  Fits(q, account'[q], fillNet'[q], paid'[q], tradeNet'[q])
  <2>1. CASE q = p
    <3>1. account'[q] = r /\ fillNet'[q] = n /\ paid'[q] = m /\ tradeNet'[q] = t
      BY <2>1 DEF Columns, MoneyRows
    <3> QED
      BY <2>1, <3>1
  <2>2. CASE q # p
    <3>1. /\ account'[q] = account[q] /\ fillNet'[q] = fillNet[q]
          /\ paid'[q] = paid[q] /\ tradeNet'[q] = tradeNet[q]
      BY <2>2 DEF Columns, MoneyRows
    <3> QED
      BY <3>1 DEF Columns
  <2> QED
    BY <2>1, <2>2
<1> QED
  BY <1>1, <1>2 DEF Columns, Fits, OrElse, Unrealized

(* What is known of one lot.                                          *)
LEMMA RowKnown ==
  ASSUME Columns, NEW p \in Holdings
  PROVE  /\ Fits(p, account[p], fillNet[p], paid[p], tradeNet[p])
         /\ account[p] \in AccountRow
         /\ fillNet[p] \in Int /\ paid[p] \in Int /\ tradeNet[p] \in Int \cup {Null}
         /\ fillNet = [fillNet EXCEPT ![p] = @] /\ paid = [paid EXCEPT ![p] = @]
         /\ tradeNet = [tradeNet EXCEPT ![p] = @]
BY DEF Columns, MoneyRows

(* The cash of the account is its trades, fills and payments, and the fees *)
(* of what is still open.                                                  *)
LEMMA CashKept ==
  ASSUME StillOpen' = StillOpen, \A p \in Holdings : RemainingFee(p)' = RemainingFee(p),
         UNCHANGED <<fillNet, paid, tradeNet>>
  PROVE  CashPnl' = CashPnl
<1> DEFINE fees == [p \in Holdings |-> RemainingFee(p)]
<1>1. fees' = fees
  OBVIOUS
<1>2. CashPnl = RealizedCash(tradeNet, fillNet, paid) - SumOver(StillOpen, fees)
  BY DEF CashPnl
<1>3. CashPnl' = RealizedCash(tradeNet, fillNet, paid)' - SumOver(StillOpen', fees')
  BY DEF CashPnl, SumOver
<1>4. RealizedCash(tradeNet, fillNet, paid)' = RealizedCash(tradeNet, fillNet, paid)
  BY DEF RealizedCash, SumOver
<1> HIDE DEF fees
<1> QED
  BY <1>1, <1>2, <1>3, <1>4

(* Entering.                                                               *)
LEMMA EnterKeeps ==
  ASSUME Columns, NEW p \in Holdings, NEW side \in {-1, 1}, NEW price \in Prices,
         EnterPosition(p, side, price)
  PROVE  Columns'
<1> DEFINE rest == IF p \in Liquidity THEN Quantity ELSE Null
           u == Unrealized([side |-> side], price, Quantity)
           r == [NoPosition EXCEPT !.status = "open", !.side = side, !.fee = Quantity,
                   !.mark = price, !.remaining = rest, !.remainingFee = rest,
                   !.unrealized = u]
<1>1. /\ Fits(p, account[p], fillNet[p], paid[p], tradeNet[p])
      /\ fillNet[p] \in Int /\ paid[p] \in Int /\ tradeNet[p] \in Int \cup {Null}
      /\ fillNet' = [fillNet EXCEPT ![p] = fillNet[p]] /\ paid' = [paid EXCEPT ![p] = paid[p]]
      /\ tradeNet' = [tradeNet EXCEPT ![p] = tradeNet[p]]
  BY RowKnown DEF EnterPosition
<1>2. account[p].status = "none" /\ account' = [account EXCEPT ![p] = r]
  BY DEF EnterPosition
<1>3. /\ price \in Int /\ side \in Int /\ Quantity \in Int /\ Quantity # Null
      /\ 0 # Null /\ 0 \in Int
  BY BooksAssumption
<1>4. u = (price - EntryPrice) * Quantity * side /\ u \in Int
  BY <1>3, BooksAssumption DEF Unrealized
<1> HIDE DEF u
<1>5. /\ r.status = "open" /\ r.side = side /\ r.remaining = rest /\ r.remainingFee = rest
      /\ r.mark = price /\ r.net = 0 /\ r.realized = 0 /\ r.accrued = 0
      /\ r.unrealized = u /\ ~r.latched /\ ~r.filled
  BY DEF NoPosition
<1>6. r \in AccountRow
  BY <1>3, <1>4 DEF NoPosition, AccountRow
<1> HIDE DEF r
<1>7. Fits(p, r, fillNet[p], paid[p], tradeNet[p])
  BY <1>1, <1>2, <1>3, <1>4, <1>5 DEF Fits, OrElse, Unrealized
<1> QED
  BY <1>1, <1>2, <1>6, <1>7, OneRow

(* Repricing.                                                              *)
LEMMA RepriceKeeps ==
  ASSUME Columns, NEW p \in Holdings, NEW price \in Prices, Reprice(p, price)
  PROVE  Columns' /\ CashPnl' = CashPnl
<1> DEFINE a == account[p]
           u == Unrealized(a, price, Quantity)
           r == [a EXCEPT !.mark = price, !.unrealized = u]
<1>1. /\ Fits(p, a, fillNet[p], paid[p], tradeNet[p]) /\ a \in AccountRow
      /\ fillNet[p] \in Int /\ paid[p] \in Int /\ tradeNet[p] \in Int \cup {Null}
      /\ fillNet' = [fillNet EXCEPT ![p] = fillNet[p]] /\ paid' = [paid EXCEPT ![p] = paid[p]]
      /\ tradeNet' = [tradeNet EXCEPT ![p] = tradeNet[p]]
  BY RowKnown DEF Reprice
<1>2. /\ a.status = "open" /\ ~a.latched /\ account' = [account EXCEPT ![p] = r]
      /\ UNCHANGED <<fillNet, paid, tradeNet>>
  BY DEF Reprice, StillOpen
<1>3. price \in Int /\ Quantity \in Int
  BY BooksAssumption
<1>4. u \in Int
  BY <1>1, <1>3, UnrealizedType
<1>5. /\ r \in AccountRow /\ r.status = a.status /\ r.side = a.side
      /\ r.remaining = a.remaining /\ r.remainingFee = a.remainingFee /\ r.fee = a.fee
      /\ r.mark = price /\ r.net = a.net /\ r.realized = a.realized /\ r.accrued = a.accrued
      /\ r.unrealized = u /\ r.latched = a.latched /\ r.filled = a.filled
  <2> HIDE DEF u
  <2> QED BY <1>1, <1>3, <1>4 DEF AccountRow
<1>6. Unrealized(r, price, Quantity) = u
  BY <1>5 DEF Unrealized
<1> HIDE DEF r, u
<1>7. Fits(p, r, fillNet[p], paid[p], tradeNet[p])
  BY <1>1, <1>2, <1>5, <1>6 DEF Fits
<1>8. Columns'
  <2>1. r \in AccountRow /\ account' = [account EXCEPT ![p] = r]
    BY <1>2, <1>5
  <2> QED
    BY <1>1, <1>7, <2>1, OneRow
<1>9. \A q \in Holdings : /\ account'[q].status = account[q].status
                          /\ account'[q].remainingFee = account[q].remainingFee
                          /\ account'[q].fee = account[q].fee
  BY <1>2, <1>5 DEF Columns, MoneyRows
<1>10. StillOpen' = StillOpen /\ \A q \in Holdings : RemainingFee(q)' = RemainingFee(q)
  BY <1>9 DEF StillOpen, RemainingFee, OrElse
<1> QED
  BY <1>2, <1>8, <1>10, CashKept

(* Asking for an exit.                                                     *)
LEMMA RequestKeeps ==
  ASSUME Columns, NEW p \in Holdings, NEW price \in Prices, RequestExit(p, price)
  PROVE  Columns' /\ CashPnl' = CashPnl
<1> DEFINE a == account[p]
           left == Remaining(p)
           fee == RemainingFee(p)
           u == Unrealized(a, price, left)
           r == [a EXCEPT !.latched = TRUE, !.remaining = left, !.remainingFee = fee,
                          !.mark = price, !.unrealized = u]
<1>1. /\ Fits(p, a, fillNet[p], paid[p], tradeNet[p]) /\ a \in AccountRow
      /\ fillNet[p] \in Int /\ paid[p] \in Int /\ tradeNet[p] \in Int \cup {Null}
      /\ fillNet' = [fillNet EXCEPT ![p] = fillNet[p]] /\ paid' = [paid EXCEPT ![p] = paid[p]]
      /\ tradeNet' = [tradeNet EXCEPT ![p] = tradeNet[p]]
  BY RowKnown DEF RequestExit
<1>2. /\ a.status = "open" /\ ~a.latched /\ p \in Liquidity
      /\ account' = [account EXCEPT ![p] = r] /\ UNCHANGED <<fillNet, paid, tradeNet>>
  BY DEF RequestExit, StillOpen
<1>3. /\ price \in Int /\ left \in Int /\ fee \in Int /\ left # Null /\ fee # Null
      /\ left = Quantity /\ left # 0
  BY <1>1, <1>2, BooksAssumption, RemainingType DEF Columns, Fits, Remaining
<1>4. u \in Int
  BY <1>1, <1>3, UnrealizedType
<1> HIDE DEF left, fee
<1>5. /\ r \in AccountRow /\ r.status = a.status /\ r.side = a.side
      /\ r.remaining = left /\ r.remainingFee = fee /\ r.fee = a.fee
      /\ r.mark = price /\ r.net = a.net /\ r.realized = a.realized /\ r.accrued = a.accrued
      /\ r.unrealized = u /\ r.latched /\ r.filled = a.filled
  <2> HIDE DEF u
  <2> QED BY <1>1, <1>3, <1>4 DEF AccountRow
<1>6. Unrealized(r, price, left) = u
  BY <1>5 DEF Unrealized
<1> HIDE DEF r, u
<1>7. Fits(p, r, fillNet[p], paid[p], tradeNet[p])
  BY <1>1, <1>2, <1>3, <1>5, <1>6 DEF Fits, OrElse
<1>8. Columns'
  <2>1. r \in AccountRow /\ account' = [account EXCEPT ![p] = r]
    BY <1>2, <1>5
  <2> QED
    BY <1>1, <1>7, <2>1, OneRow
<1>9. /\ account'[p] = r
      /\ \A q \in Holdings \ {p} : account'[q] = account[q]
  BY <1>2 DEF Columns, MoneyRows
<1>10. StillOpen' = StillOpen
  BY <1>5, <1>9 DEF StillOpen
<1>11. \A q \in Holdings : RemainingFee(q)' = RemainingFee(q)
  <2>1. ASSUME NEW q \in Holdings PROVE RemainingFee(q)' = RemainingFee(q)
    <3>1. CASE q = p
      BY <1>3, <1>5, <1>9, <3>1 DEF RemainingFee, OrElse, fee
    <3>2. CASE q # p
      BY <1>9, <3>2 DEF RemainingFee, OrElse
    <3> QED
      BY <3>1, <3>2
  <2> QED
    BY <2>1
<1> QED
  BY <1>2, <1>8, <1>10, <1>11, CashKept

(* A step of the exit.                                                     *)
LEMMA AdvanceKeeps ==
  ASSUME Columns, NEW p \in Holdings, NEW price \in Prices, NEW quantity \in 0 .. Quantity,
         NEW awaited \in BOOLEAN, AdvanceExit(p, price, quantity, awaited)
  PROVE  Columns' /\ (quantity = 0 => CashPnl' = CashPnl)
<1> DEFINE a == account[p]
           gross == Unrealized(a, price, quantity)
           net == gross - quantity - ExitFee * quantity
           left == a.remaining - quantity
           closing == left = 0 /\ ~awaited
           value == Unrealized(a, price, left)
           r == [a EXCEPT !.remaining = left, !.remainingFee = a.remainingFee - quantity,
                   !.net = a.net + net, !.realized = a.net + net - a.accrued,
                   !.unrealized = IF closing THEN 0 ELSE value,
                   !.mark = price, !.filled = left = 0,
                   !.status = IF closing THEN "closed" ELSE "open"]
           n == fillNet[p] + net
           t == IF closing THEN r.net - r.accrued ELSE tradeNet[p]
<1>1. /\ Fits(p, a, fillNet[p], paid[p], tradeNet[p]) /\ a \in AccountRow
      /\ fillNet[p] \in Int /\ paid[p] \in Int /\ tradeNet[p] \in Int \cup {Null}
      /\ paid' = [paid EXCEPT ![p] = paid[p]]
      /\ tradeNet = [tradeNet EXCEPT ![p] = tradeNet[p]]
  BY RowKnown DEF AdvanceExit
<1>2. /\ a.status = "open" /\ a.latched /\ ~a.filled /\ paid' = paid
      /\ account' = [account EXCEPT ![p] = r]
  BY DEF AdvanceExit, StillOpen
<1>3. p \in Liquidity
  BY <1>1, <1>2 DEF Fits
<1>4. /\ a.remaining \in Int /\ a.remainingFee \in Int /\ a.net = fillNet[p]
      /\ a.accrued = paid[p] /\ a.remaining # 0 /\ a.net \in Int /\ a.accrued \in Int
      /\ quantity \in Int /\ ExitFee \in Int /\ price \in Int /\ tradeNet[p] = Null
  BY <1>1, <1>2, <1>3, BooksAssumption DEF Fits, AccountRow
<1>5. left \in Int /\ gross \in Int
  BY <1>1, <1>4, UnrealizedType
<1>6. value \in Int
  BY <1>1, <1>4, <1>5, UnrealizedType
<1>7. net \in Int
  <2>1. ExitFee * quantity \in Int
    BY <1>4
  <2> HIDE DEF gross
  <2> QED
    BY <1>4, <1>5, <2>1
<1>8. account'[p] = r
  BY <1>2 DEF Columns, MoneyRows
<1>9. fillNet' = [fillNet EXCEPT ![p] = n] /\ tradeNet' = [tradeNet EXCEPT ![p] = t]
  <2>1. fillNet' = [fillNet EXCEPT ![p] = n]
    BY DEF AdvanceExit
  <2>2. tradeNet' = IF closing THEN [tradeNet EXCEPT ![p] = account'[p].net - account'[p].accrued]
                    ELSE tradeNet
    BY DEF AdvanceExit, TradeOf
  <2> HIDE DEF r, closing
  <2> QED
    BY <1>1, <1>8, <2>1, <2>2
<1> HIDE DEF gross, net, left, value
<1>10. r \in AccountRow
  <2>1. 0 \in Int /\ a.remainingFee - quantity \in Int /\ a.net + net \in Int
        /\ a.net + net - a.accrued \in Int
    BY <1>4, <1>7
  <2> QED
    BY <1>1, <1>4, <1>5, <1>6, <2>1 DEF AccountRow
<1>11. /\ r.side = a.side /\ r.remaining = left /\ r.remainingFee = a.remainingFee - quantity
       /\ r.mark = price /\ r.net = a.net + net /\ r.realized = a.net + net - a.accrued
       /\ r.accrued = a.accrued
  <2>1. r.side = a.side /\ r.remaining = left /\ r.mark = price /\ r.accrued = a.accrued
    BY <1>1 DEF AccountRow
  <2>2. r.remainingFee = a.remainingFee - quantity
    BY <1>1 DEF AccountRow
  <2>3. r.net = a.net + net
    BY <1>1 DEF AccountRow
  <2>4. r.realized = a.net + net - a.accrued
    BY <1>1 DEF AccountRow
  <2> QED
    BY <2>1, <2>2, <2>3, <2>4
<1>12. (r.filled <=> left = 0) /\ (r.latched <=> a.latched)
  BY <1>1 DEF AccountRow
<1>13. /\ closing => r.status = "closed"
       /\ ~closing => r.status = "open" /\ r.unrealized = value
  BY <1>1 DEF AccountRow
<1>14. n \in Int /\ r.net = n /\ r.realized = n - paid[p] /\ r.accrued = paid[p]
  BY <1>1, <1>4, <1>7, <1>11
<1>15. /\ closing => t = n - paid[p] /\ t \in Int
       /\ ~closing => t = Null
  BY <1>1, <1>4, <1>14
<1>16. Unrealized(r, price, left) = value
  BY <1>11 DEF Unrealized, value
<1> HIDE DEF r, n, t, closing
<1>17. t \in Int \cup {Null} /\ (closing => t # Null) /\ left # Null
  BY <1>5, <1>15, BooksAssumption
<1>18. Fits(p, r, n, paid[p], t)
  <2>1. CASE closing
    BY <1>3, <1>13, <1>15, <1>17, <2>1 DEF Fits
  <2>2. CASE ~closing
    <3>1. r.status = "open" /\ t = Null /\ r.unrealized = value
      BY <1>13, <1>15, <2>2
    <3>2. r.latched /\ (~r.filled => r.remaining # 0)
      BY <1>2, <1>11, <1>12
    <3>3. OrElse(r.remaining, Quantity) = left
      BY <1>11, <1>17 DEF OrElse
    <3>4. r.remaining \in Int /\ r.remainingFee \in Int
      BY <1>4, <1>5, <1>11
    <3>5. r.unrealized = Unrealized(r, r.mark, OrElse(r.remaining, Quantity))
      BY <1>11, <1>16, <3>1, <3>3
    <3> QED
      BY <1>3, <1>14, <3>1, <3>2, <3>4, <3>5 DEF Fits
  <2> QED
    BY <2>1, <2>2
<1>19. Columns'
  <2>1. paid' = [paid EXCEPT ![p] = paid[p]] /\ paid[p] \in Int /\ n \in Int
    BY <1>1, <1>14
  <2> QED
    BY <1>2, <1>9, <1>10, <1>17, <1>18, <2>1, OneRow
<1>20. ASSUME quantity = 0
       PROVE  CashPnl' = CashPnl
  <2>1. left = a.remaining /\ net = 0
    <3>1. gross = 0
      <4>1. price - EntryPrice \in Int /\ a.side \in Int
        BY <1>1, <1>4, BooksAssumption DEF AccountRow
      <4>2. (price - EntryPrice) * 0 = 0 /\ 0 * a.side = 0
        BY <4>1
      <4> QED
        BY <1>20, <4>2 DEF gross, Unrealized
    <3>2. ExitFee * quantity = 0
      BY <1>4, <1>20
    <3> QED
      BY <1>4, <1>20, <3>1, <3>2 DEF left, net
  <2>2. ~closing /\ n = fillNet[p] /\ t = tradeNet[p]
    BY <1>1, <1>4, <1>15, <2>1 DEF closing, n
  <2>3. UNCHANGED <<fillNet, paid, tradeNet>>
    BY <1>1, <1>2, <1>9, <2>2, RowKnown
  <2>4. r.status = "open" /\ r.remainingFee = a.remainingFee
    BY <1>4, <1>11, <1>13, <1>20, <2>2
  <2>5. \A q \in Holdings \ {p} : account'[q] = account[q]
    BY <1>2 DEF Columns, MoneyRows
  <2>6. StillOpen' = StillOpen
    BY <1>2, <1>8, <2>4, <2>5 DEF StillOpen
  <2>7. \A q \in Holdings : RemainingFee(q)' = RemainingFee(q)
    <3>1. ASSUME NEW q \in Holdings PROVE RemainingFee(q)' = RemainingFee(q)
      <4>1. CASE q = p
        <5>1. a.remainingFee # Null
          BY <1>4, BooksAssumption
        <5> QED
          BY <1>8, <2>4, <4>1, <5>1 DEF RemainingFee, OrElse
      <4>2. CASE q # p
        BY <2>5, <4>2 DEF RemainingFee, OrElse
      <4> QED
        BY <4>1, <4>2
    <3> QED
      BY <3>1
  <2> QED
    BY <2>3, <2>6, <2>7, CashKept
<1> QED
  BY <1>19, <1>20

(* A settlement is charged.                                                *)
LEMMA ChargeKeeps ==
  ASSUME Columns, NEW p \in Holdings, NEW amount \in Amounts, Charge(p, amount)
  PROVE  Columns'
<1> DEFINE a == account[p]
           r == [a EXCEPT !.accrued = @ + amount, !.realized = @ - amount]
           m == paid[p] + amount
<1>1. /\ Fits(p, a, fillNet[p], paid[p], tradeNet[p]) /\ a \in AccountRow
      /\ fillNet[p] \in Int /\ paid[p] \in Int /\ tradeNet[p] \in Int \cup {Null}
      /\ fillNet' = [fillNet EXCEPT ![p] = fillNet[p]]
      /\ tradeNet' = [tradeNet EXCEPT ![p] = tradeNet[p]]
  BY RowKnown DEF Charge
<1>2. /\ a.status = "open" /\ p \in Liquidity /\ account' = [account EXCEPT ![p] = r]
      /\ paid' = [paid EXCEPT ![p] = m]
  BY BooksAssumption DEF Charge, StillOpen
<1>3. amount \in Int /\ a.accrued \in Int /\ a.realized \in Int
  BY <1>1, BooksAssumption DEF AccountRow
<1>4. /\ r \in AccountRow /\ r.status = a.status /\ r.side = a.side
      /\ r.remaining = a.remaining /\ r.remainingFee = a.remainingFee
      /\ r.mark = a.mark /\ r.net = a.net /\ r.realized = a.realized - amount
      /\ r.accrued = a.accrued + amount
      /\ r.unrealized = a.unrealized /\ r.latched = a.latched /\ r.filled = a.filled
  <2>1. a.accrued + amount \in Int /\ a.realized - amount \in Int
    BY <1>3
  <2>2. r = [a EXCEPT !.accrued = a.accrued + amount, !.realized = a.realized - amount]
    BY <1>1 DEF AccountRow
  <2>3. r.accrued = a.accrued + amount /\ r.realized = a.realized - amount
    BY <1>1, <2>2 DEF AccountRow
  <2>4. r \in AccountRow
    BY <1>1, <2>1, <2>2 DEF AccountRow
  <2>5. /\ r.status = a.status /\ r.side = a.side /\ r.remaining = a.remaining
        /\ r.remainingFee = a.remainingFee /\ r.mark = a.mark /\ r.net = a.net
        /\ r.unrealized = a.unrealized
    BY <1>1 DEF AccountRow
  <2>6. r.latched = a.latched /\ r.filled = a.filled
    BY <1>1 DEF AccountRow
  <2> QED
    BY <2>3, <2>4, <2>5, <2>6
<1>5. Unrealized(r, r.mark, OrElse(r.remaining, Quantity))
        = Unrealized(a, a.mark, OrElse(a.remaining, Quantity))
  BY <1>4 DEF Unrealized
<1>6. m \in Int /\ r.accrued = m /\ r.realized = fillNet[p] - m
  <2>1. a.accrued = paid[p] /\ a.realized = fillNet[p] - paid[p]
    BY <1>1, <1>2 DEF Fits
  <2> QED
    BY <1>1, <1>3, <1>4, <2>1
<1> HIDE DEF r, m
<1>7. Fits(p, r, fillNet[p], m, tradeNet[p])
  BY <1>1, <1>2, <1>4, <1>5, <1>6 DEF Fits
<1> QED
  <2>1. r \in AccountRow
    BY <1>4
  <2> QED
    BY <1>1, <1>2, <1>6, <1>7, <2>1, OneRow

(* The awaited settlement has come.                                        *)
LEMMA FinalizeKeeps ==
  ASSUME Columns, NEW p \in Holdings, Finalize(p)
  PROVE  Columns'
<1> DEFINE a == account[p]
           t == a.net - a.accrued
           r == [a EXCEPT !.status = "closed", !.realized = t]
<1>1. /\ Fits(p, a, fillNet[p], paid[p], tradeNet[p]) /\ a \in AccountRow
      /\ fillNet[p] \in Int /\ paid[p] \in Int
      /\ fillNet' = [fillNet EXCEPT ![p] = fillNet[p]] /\ paid' = [paid EXCEPT ![p] = paid[p]]
  BY RowKnown DEF Finalize
<1>2. /\ a.status = "open" /\ a.filled /\ account' = [account EXCEPT ![p] = r]
      /\ tradeNet' = [tradeNet EXCEPT ![p] = t]
  BY DEF Finalize, StillOpen, TradeOf
<1>3. p \in Liquidity /\ t = fillNet[p] - paid[p] /\ t \in Int /\ t # Null
  BY <1>1, <1>2, BooksAssumption DEF Fits, AccountRow
<1> HIDE DEF t
<1>4. r \in AccountRow /\ r.status = "closed"
  BY <1>1, <1>3 DEF AccountRow
<1> HIDE DEF r
<1>5. Fits(p, r, fillNet[p], paid[p], t)
  BY <1>3, <1>4 DEF Fits
<1> QED
  BY <1>1, <1>2, <1>3, <1>4, <1>5, OneRow

(* The whole position closes at once.                                      *)
LEMMA CloseWholeKeeps ==
  ASSUME Columns, NEW p \in Holdings, NEW price \in Prices, CloseWhole(p, price)
  PROVE  Columns'
<1> DEFINE a == account[p]
           gross == Unrealized(a, price, Quantity)
           net == gross - a.fee - ExitFee * Quantity
           r == [a EXCEPT !.status = "closed", !.mark = price, !.realized = net,
                          !.unrealized = 0]
<1>1. /\ Fits(p, a, fillNet[p], paid[p], tradeNet[p]) /\ a \in AccountRow
      /\ fillNet[p] \in Int /\ paid[p] \in Int
      /\ fillNet' = [fillNet EXCEPT ![p] = fillNet[p]] /\ paid' = [paid EXCEPT ![p] = paid[p]]
  BY RowKnown DEF CloseWhole
<1>2. /\ a.status = "open" /\ p \notin Liquidity /\ account' = [account EXCEPT ![p] = r]
      /\ tradeNet' = [tradeNet EXCEPT ![p] = net]
  BY DEF CloseWhole, StillOpen
<1>3. price \in Int /\ gross \in Int /\ ExitFee * Quantity \in Int /\ a.fee \in Int
  BY <1>1, BooksAssumption, UnrealizedType DEF AccountRow
<1>4. net \in Int /\ net # Null
  <2> HIDE DEF gross
  <2>1. net \in Int
    BY <1>3
  <2> QED
    BY <2>1, BooksAssumption
<1> HIDE DEF net
<1>5. r \in AccountRow /\ r.status = "closed" /\ r.latched = a.latched /\ r.filled = a.filled
  <2>1. a \in AccountRow /\ price \in Int /\ net \in Int /\ 0 \in Int
    BY <1>1, <1>3, <1>4
  <2>2. r \in AccountRow /\ r.status = "closed"
    BY <2>1 DEF AccountRow
  <2>3. r.latched = a.latched /\ r.filled = a.filled
    BY <1>1 DEF AccountRow
  <2> QED
    BY <2>2, <2>3
<1> HIDE DEF r
<1>6. Fits(p, r, fillNet[p], paid[p], net)
  BY <1>1, <1>2, <1>4, <1>5 DEF Fits
<1> QED
  BY <1>1, <1>2, <1>4, <1>5, <1>6, OneRow

(* The columns of an empty account.                                        *)
LEMMA ColumnsBegin ==
  ASSUME BooksInit
  PROVE  Columns /\ proven = CashPnl
<1>1. NoPosition \in AccountRow
  BY BooksAssumption DEF NoPosition, AccountRow
<1>2. MoneyRows
  BY <1>1 DEF BooksInit, MoneyRows
<1>3. \A p \in Holdings : /\ account[p] = NoPosition
                          /\ fillNet[p] = 0 /\ paid[p] = 0 /\ tradeNet[p] = Null
  BY DEF BooksInit
<1>4. \A p \in Holdings : Fits(p, account[p], fillNet[p], paid[p], tradeNet[p])
  BY <1>3 DEF Fits, NoPosition
<1>5. StillOpen = {} /\ {p \in Holdings \ Liquidity : tradeNet[p] # Null} = {}
  BY <1>3 DEF StillOpen, NoPosition
<1>6. SumOver({}, tradeNet) = 0 /\ SumOver({}, [p \in Holdings |-> RemainingFee(p)]) = 0
  BY SumEmpty DEF SumOver
<1>7. SumOver(Holdings, fillNet) = 0 /\ SumOver(Holdings, paid) = 0
  <2>1. ASSUME NEW f, \A p \in Holdings : f[p] = 0
        PROVE  SumFunctionOnSet(f, Holdings) = 0
    <3>1. {} \in SUBSET Holdings /\ \A p \in Holdings : f[p] \in Int
      BY <2>1
    <3>2. SumFunctionOnSet(f, Holdings) = SumFunctionOnSet(f, {})
      BY <2>1, <3>1, BooksAssumption, SumOfPart
    <3> QED
      BY <3>2, SumEmpty
  <2> QED
    BY <1>3, <2>1 DEF SumOver
<1>8. CashPnl = 0
  BY <1>5, <1>6, <1>7 DEF CashPnl, RealizedCash
<1> QED
  BY <1>2, <1>4, <1>8 DEF BooksInit, Columns

(* The two sets of books agree, in every reachable state, whatever the     *)
(* positions, sizes, prices, fees and settlements: every handler of an     *)
(* entry, a reprice, an exit, a settlement or a close that writes money    *)
(* writes it to the columns of Position and to the rows beside them, and   *)
(* leaves a proof of the cash that results.                                *)
THEOREM BooksBalance == BooksSpec => []BooksAgree
<1> DEFINE Agreed == Columns /\ proven = CashPnl
<1>1. BooksInit => Agreed
  BY ColumnsBegin
<1>2. Agreed /\ [BooksNext]_bookVars => Agreed'
  <2> SUFFICES ASSUME Agreed, [BooksNext]_bookVars
               PROVE  Agreed'
    OBVIOUS
  <2>1. CASE UNCHANGED bookVars
    BY <2>1 DEF bookVars, Columns, MoneyRows, Fits, OrElse, Unrealized, CashPnl, RealizedCash,
                SumOver, StillOpen, RemainingFee
  <2>2. ASSUME NEW p \in Holdings, NEW side \in {-1, 1}, NEW price \in Prices,
               EnterPosition(p, side, price)
        PROVE  Agreed'
    BY <2>2, EnterKeeps DEF EnterPosition, Prove
  <2>3. ASSUME NEW p \in Holdings, NEW price \in Prices, Reprice(p, price)
        PROVE  Agreed'
    BY <2>3, RepriceKeeps DEF Reprice
  <2>4. ASSUME NEW p \in Holdings, NEW price \in Prices, RequestExit(p, price)
        PROVE  Agreed'
    BY <2>4, RequestKeeps DEF RequestExit
  <2>5. ASSUME NEW p \in Holdings, NEW price \in Prices, NEW quantity \in 0 .. Quantity,
               NEW awaited \in BOOLEAN, AdvanceExit(p, price, quantity, awaited)
        PROVE  Agreed'
    <3>1. IF quantity > 0 THEN Prove ELSE UNCHANGED proven
      BY <2>5 DEF AdvanceExit
    <3>2. quantity > 0 \/ quantity = 0
      BY BooksAssumption
    <3> QED
      BY <2>5, <3>1, <3>2, AdvanceKeeps DEF Prove
  <2>6. ASSUME NEW p \in Holdings, NEW amount \in Amounts, Charge(p, amount)
        PROVE  Agreed'
    BY <2>6, ChargeKeeps DEF Charge, Prove
  <2>7. ASSUME NEW p \in Holdings, Finalize(p)
        PROVE  Agreed'
    BY <2>7, FinalizeKeeps DEF Finalize, Prove
  <2>8. ASSUME NEW p \in Holdings, NEW price \in Prices, CloseWhole(p, price)
        PROVE  Agreed'
    BY <2>8, CloseWholeKeeps DEF CloseWhole, Prove
  <2> HIDE DEF Agreed
  <2> QED
    BY <2>1, <2>2, <2>3, <2>4, <2>5, <2>6, <2>7, <2>8 DEF BooksNext
<1>3. Agreed => BooksAgree
  BY BooksFromColumns
<1> HIDE DEF Agreed
<1> QED
  BY <1>1, <1>2, <1>3, PTL DEF BooksSpec

-----------------------------------------------------------------------------
(* What is answered, and shown.                                            *)
FeedAnswer == [items : SUBSET FeedRow, nextCursor : FeedRow \cup {Absent}]

(* Pages in a row: the next one begins where the last one ended, and of    *)
(* the rows there at the beginning none lies between.                      *)
Chained(pages) ==
  /\ \A i, j \in 1..Len(pages) : i < j =>
        \A a \in pages[i].items, b \in pages[j].items : Newer(a, b)
  /\ \A i, j \in 1..Len(pages) : j <= i /\ pages[i].nextCursor # Absent =>
        \A a \in pages[j].items : a = pages[i].nextCursor \/ Newer(a, pages[i].nextCursor)
NothingLost(pages, rows) ==
  \A r \in rows :
     \/ \E i \in 1..Len(pages) : r \in pages[i].items
     \/ LastCursor(pages) # Absent /\ Newer(LastCursor(pages), r)

(* Where a request goes on.                                                *)
GoesOn(next, pages) ==
  next = IF pages = <<>> THEN Absent ELSE LastCursor(pages)

FeedInv ==
  /\ feed \subseteq FeedRow /\ IsFiniteSet(feed) /\ startsAt \in Int
  /\ feedPage \in [filter : {Absent} \cup {Kind[i] : i \in RowIds}, pages : Seq(FeedAnswer)]
  /\ request \in [kind : {"none", "next", "all"}, cursor : FeedRow \cup {Absent},
                  pages : Seq(FeedAnswer), asOf : SUBSET feed]
  /\ asOf \subseteq feed
  /\ Chained(feedPage.pages)
  /\ feedPage.pages = <<>> => asOf = {}
  /\ NothingLost(feedPage.pages, asOf \cap Where(feedPage.filter))
  /\ request.kind = "next" =>
        /\ feedPage.pages # <<>> /\ request.cursor # Absent
        /\ GoesOn(request.cursor, feedPage.pages)
  /\ request.kind = "all" =>
        /\ Chained(request.pages) /\ GoesOn(request.cursor, request.pages)
        /\ request.pages # <<>> =>
              /\ request.cursor # Absent
              /\ NothingLost(request.pages, request.asOf \cap Where(feedPage.filter))

-----------------------------------------------------------------------------
(* The order of rows.                                                      *)
LEMMA NewerFirst ==
  ASSUME NEW a \in FeedRow, NEW b \in FeedRow, NEW c \in FeedRow
  PROVE  /\ Newer(a, b) /\ Newer(b, c) => Newer(a, c)
         /\ ~Newer(a, a)
         /\ a = b \/ Newer(a, b) \/ Newer(b, a)
<1>1. /\ a.id \in Int /\ a.time \in Int /\ b.id \in Int /\ b.time \in Int
      /\ c.id \in Int /\ c.time \in Int
  BY FeedAssumption DEF FeedRow
<1>2. a.id = b.id /\ a.time = b.time => a = b
  BY DEF FeedRow
<1> QED
  BY <1>1, <1>2 DEF Newer

(* A set of rows has a newest and an oldest one.                           *)
LEMMA Ends ==
  ASSUME NEW S \in SUBSET FeedRow, IsFiniteSet(S), S # {}
  PROVE  /\ \E r \in S : \A x \in S : x = r \/ Newer(r, x)
         /\ \E r \in S : \A x \in S : x = r \/ Newer(x, r)
<1> DEFINE Good == {s \in SUBSET S : s = {} \/
                      /\ \E r \in s : \A x \in s : x = r \/ Newer(r, x)
                      /\ \E r \in s : \A x \in s : x = r \/ Newer(x, r)}
<1>1. {} \in Good /\ Good \in SUBSET (SUBSET S)
  OBVIOUS
<1>2. ASSUME NEW u \in SUBSET S, u # {}, \A x \in u : u \ {x} \in Good
      PROVE  u \in Good
  <2>1. PICK a \in u : TRUE
    BY <1>2
  <2>2. CASE u = {a}
    BY <2>2
  <2>3. CASE u # {a}
    <3>1. u \ {a} # {} /\ u \ {a} \in Good
      BY <1>2, <2>1, <2>3
    <3>2. PICK n \in u \ {a} : \A x \in u \ {a} : x = n \/ Newer(n, x)
      BY <3>1
    <3>3. PICK o \in u \ {a} : \A x \in u \ {a} : x = o \/ Newer(x, o)
      BY <3>1
    <3>4. \E r \in u : \A x \in u : x = r \/ Newer(r, x)
      <4>1. CASE Newer(n, a)
        BY <3>2, <4>1
      <4>2. CASE ~Newer(n, a)
        <5>1. Newer(a, n)
          BY <2>1, <3>2, <4>2, NewerFirst
        <5>2. \A x \in u : x = a \/ Newer(a, x)
          BY <2>1, <3>2, <5>1, NewerFirst
        <5> QED
          BY <2>1, <5>2
      <4> QED
        BY <4>1, <4>2
    <3>5. \E r \in u : \A x \in u : x = r \/ Newer(x, r)
      <4>1. CASE Newer(a, o)
        BY <3>3, <4>1
      <4>2. CASE ~Newer(a, o)
        <5>1. Newer(o, a)
          BY <2>1, <3>3, <4>2, NewerFirst
        <5>2. \A x \in u : x = a \/ Newer(x, a)
          BY <2>1, <3>3, <5>1, NewerFirst
        <5> QED
          BY <2>1, <5>2
      <4> QED
        BY <4>1, <4>2
    <3> QED
      BY <3>4, <3>5
  <2> QED
    BY <2>2, <2>3
<1> HIDE DEF Good
<1>3. S \in Good
  BY <1>1, <1>2, SetInduction
<1> QED
  BY <1>3 DEF Good

(* A page of some rows: all of them, or those up to the row where the next *)
(* page goes on.                                                           *)
LEMMA PageOfRows ==
  ASSUME NEW S \in SUBSET FeedRow, IsFiniteSet(S)
  PROVE  LET items == Newest(S)
             next == IF Cardinality(S) > FeedLimit THEN OldestOf(items) ELSE Absent IN
         /\ items \in SUBSET S
         /\ next = Absent => items = S
         /\ next # Absent => /\ next \in items
                             /\ \A x \in items : x = next \/ Newer(x, next)
                             /\ \A r \in S \ items : Newer(next, r)
<1> DEFINE items == Newest(S)
           next == IF Cardinality(S) > FeedLimit THEN OldestOf(items) ELSE Absent
           newer(r) == {x \in S : Newer(x, r)}
<1>1. items \in SUBSET S /\ \A r \in S : r \in items <=> Cardinality(newer(r)) < FeedLimit
  BY DEF Newest
<1>2. \A r \in S : IsFiniteSet(newer(r)) /\ Cardinality(newer(r)) \in Nat
  BY FS_Subset, FS_CardinalityType
<1>3. Cardinality(S) \in Nat /\ FeedLimit \in Nat /\ FeedLimit > 0
  BY FS_CardinalityType, FeedAssumption
<1> HIDE DEF items
<1>4. ASSUME Cardinality(S) > FeedLimit
      PROVE  /\ next \in items /\ next # Absent
             /\ \A x \in items : x = next \/ Newer(x, next)
             /\ \A r \in S \ items : Newer(next, r)
  <2>1. S # {}
    BY <1>3, <1>4, FS_EmptySet
  <2>2. PICK n \in S : \A x \in S : x = n \/ Newer(n, x)
    BY <2>1, Ends
  <2>3. newer(n) = {}
    BY <2>2, NewerFirst
  <2>4. n \in items
    BY <1>1, <1>3, <2>3, FS_EmptySet
  <2>5. \E r \in items : \A x \in items : x = r \/ Newer(x, r)
    <3>1. items # {} /\ IsFiniteSet(items) /\ items \in SUBSET FeedRow
      BY <1>1, <2>4, FS_Subset
    <3> QED
      BY <3>1, Ends
  <2>6. next \in items /\ \A x \in items : x = next \/ Newer(x, next)
    BY <1>4, <2>5 DEF OldestOf
  <2>7. next \in FeedRow /\ next # Absent
    BY <1>1, <2>6, FeedAssumption
  <2> HIDE DEF next
  <2>8. ASSUME NEW r \in S \ items
        PROVE  Newer(next, r)
    <3>1. SUFFICES ASSUME ~Newer(next, r) PROVE FALSE
      OBVIOUS
    <3>2. r \in FeedRow /\ Newer(r, next)
      BY <2>6, <2>7, <2>8, <3>1, NewerFirst
    <3>3. newer(r) \subseteq newer(next)
      BY <1>1, <2>7, <3>2, NewerFirst
    <3>4. Cardinality(newer(r)) <= Cardinality(newer(next))
      BY <1>1, <1>2, <2>6, <3>3, FS_Subset
    <3> QED
      BY <1>1, <1>2, <1>3, <2>6, <2>8, <3>4
  <2> QED
    BY <2>6, <2>7, <2>8
<1>5. ASSUME ~(Cardinality(S) > FeedLimit)
      PROVE  next = Absent /\ items = S
  <2>1. ASSUME NEW r \in S
        PROVE  r \in items
    <3>1. r \notin newer(r) /\ newer(r) \subseteq S
      BY NewerFirst
    <3>2. newer(r) # S
      BY <3>1
    <3>3. Cardinality(newer(r)) < Cardinality(S)
      <4>1. /\ Cardinality(newer(r)) <= Cardinality(S)
            /\ Cardinality(newer(r)) # Cardinality(S)
        BY <3>1, <3>2, FS_Subset
      <4> QED
        BY <1>2, <1>3, <4>1
    <3> QED
      BY <1>1, <1>2, <1>3, <1>5, <3>3
  <2> QED
    BY <1>1, <1>5, <2>1
<1> QED
  BY <1>1, <1>4, <1>5 DEF items

(* An answer to a request that goes on where the pages end continues them. *)
LEMMA AnswerGoesOn ==
  ASSUME feed \subseteq FeedRow, IsFiniteSet(feed), NEW filter, NEW next \in FeedRow \cup {Absent},
         NEW pages \in Seq(FeedAnswer), NEW rows \in SUBSET feed,
         Chained(pages), GoesOn(next, pages),
         pages # <<>> => next # Absent /\ NothingLost(pages, rows \cap Where(filter))
  PROVE  LET answer == ListRows(filter, next)
             more == Append(pages, answer) IN
         /\ answer \in FeedAnswer /\ more \in Seq(FeedAnswer) /\ more # <<>>
         /\ LastCursor(more) = answer.nextCursor
         /\ Chained(more) /\ NothingLost(more, rows \cap Where(filter))
<1> DEFINE matching == Where(filter) \cap (IF next = Absent THEN feed ELSE Below(next))
           items == Newest(matching)
           onward == IF Cardinality(matching) > FeedLimit THEN OldestOf(items) ELSE Absent
           answer == ListRows(filter, next)
           more == Append(pages, answer)
           n == Len(pages)
           mine == rows \cap Where(filter)
<1>1. matching \in SUBSET FeedRow /\ IsFiniteSet(matching)
  <2>1. matching \in SUBSET feed
    BY DEF Where
  <2> QED
    BY <2>1, FS_Subset
<1>2. answer.items = items /\ answer.nextCursor = onward
  BY DEF ListRows
<1>3. /\ next # Absent => \A r \in matching : Newer(next, r)
      /\ \A r \in mine : r \in matching \/ (next # Absent /\ ~Newer(next, r))
  BY DEF Where, Below
<1>4. mine \in SUBSET FeedRow
  OBVIOUS
<1> HIDE DEF matching, mine
<1>5. /\ items \in SUBSET matching
      /\ onward = Absent => items = matching
      /\ onward # Absent => /\ onward \in items
                            /\ \A x \in items : x = onward \/ Newer(x, onward)
                            /\ \A r \in matching \ items : Newer(onward, r)
  BY <1>1, PageOfRows
<1> HIDE DEF items, onward
<1>6. answer \in FeedAnswer
  <2>1. answer = [items |-> items, nextCursor |-> onward]
    BY DEF ListRows, items, onward, matching
  <2> QED
    BY <1>1, <1>5, <2>1 DEF FeedAnswer
<1> HIDE DEF answer
<1>7. /\ more \in Seq(FeedAnswer) /\ Len(more) = n + 1 /\ n \in Nat /\ more # <<>>
      /\ \A i \in 1..n : more[i] = pages[i] /\ pages[i] \in FeedAnswer
      /\ more[n + 1] = answer
  BY <1>6
<1> HIDE DEF more
<1>8. n > 0 => /\ next = pages[n].nextCursor /\ next # Absent /\ NothingLost(pages, mine)
               /\ pages # <<>>
  BY DEF GoesOn, LastCursor, mine
<1>9. \A i \in 1..n : pages[i].items \in SUBSET FeedRow
  BY <1>7 DEF FeedAnswer
<1>10. n = 0 => next = Absent
  <2>1. n = 0 => pages = <<>>
    OBVIOUS
  <2> QED
    BY <2>1 DEF GoesOn
<1> HIDE DEF n
<1>11. ASSUME NEW i \in 1..n, NEW a \in pages[i].items, NEW b \in items
       PROVE  Newer(a, b)
  <2>1. n > 0 /\ n \in 1..n /\ i <= n
    BY <1>7
  <2>2. a = next \/ Newer(a, next)
    BY <1>8, <2>1 DEF Chained, n
  <2>3. Newer(next, b)
    BY <1>3, <1>5, <1>8, <2>1
  <2>4. a \in FeedRow /\ b \in FeedRow
    BY <1>1, <1>5, <1>9
  <2>5. next \in FeedRow
    BY <1>8, <2>1
  <2> QED
    BY <2>2, <2>3, <2>4, <2>5, NewerFirst
<1>12. Chained(more)
  <2>1. ASSUME NEW i \in 1..Len(more), NEW j \in 1..Len(more), i < j,
               NEW a \in more[i].items, NEW b \in more[j].items
        PROVE  Newer(a, b)
    <3>1. i \in 1..n
      BY <1>7, <2>1
    <3>2. CASE j = n + 1
      BY <1>2, <1>7, <1>11, <2>1, <3>1, <3>2
    <3>3. CASE j # n + 1
      <4>1. j \in 1..n
        BY <1>7, <3>3
      <4> QED
        BY <1>7, <2>1, <3>1, <4>1 DEF Chained, n
    <3> QED
      BY <3>2, <3>3
  <2>2. ASSUME NEW i \in 1..Len(more), NEW j \in 1..Len(more), j <= i,
               more[i].nextCursor # Absent, NEW a \in more[j].items
        PROVE  a = more[i].nextCursor \/ Newer(a, more[i].nextCursor)
    <3>1. CASE i # n + 1
      <4>1. i \in 1..n /\ j \in 1..n
        BY <1>7, <2>2, <3>1
      <4> QED
        BY <1>7, <2>2, <4>1 DEF Chained, n
    <3>2. CASE i = n + 1 /\ j = n + 1
      BY <1>2, <1>5, <1>7, <2>2, <3>2
    <3>3. CASE i = n + 1 /\ j # n + 1
      <4>1. j \in 1..n /\ onward \in items /\ more[i].nextCursor = onward
        BY <1>2, <1>5, <1>7, <2>2, <3>3
      <4> QED
        BY <1>7, <1>11, <2>2, <4>1
    <3> QED
      BY <3>1, <3>2, <3>3
  <2> QED
    BY <2>1, <2>2 DEF Chained
<1>13. LastCursor(more) = onward
  BY <1>2, <1>7 DEF LastCursor
<1>14. NothingLost(more, mine)
  <2>1. ASSUME NEW r \in mine
        PROVE  \/ \E i \in 1..Len(more) : r \in more[i].items
               \/ onward # Absent /\ Newer(onward, r)
    <3>1. CASE r \in items
      <4>1. n + 1 \in 1..Len(more) /\ r \in more[n + 1].items
        BY <1>2, <1>7, <3>1
      <4> QED
        BY <4>1
    <3>2. CASE r \in matching \ items
      BY <1>5, <3>2
    <3>3. CASE r \notin matching
      <4>1. next # Absent /\ ~Newer(next, r)
        BY <1>3, <3>3
      <4>2. n > 0 /\ LastCursor(pages) = next
        BY <1>7, <1>8, <1>10, <4>1 DEF LastCursor, n
      <4>3. PICK i \in 1..n : r \in pages[i].items
        BY <1>8, <4>1, <4>2 DEF NothingLost, n
      <4>4. i \in 1..Len(more) /\ r \in more[i].items
        BY <1>7, <4>3
      <4> QED
        BY <4>4
    <3> QED
      BY <3>1, <3>2, <3>3
  <2> QED
    BY <1>13, <2>1 DEF NothingLost
<1>15. LastCursor(more) = answer.nextCursor
  BY <1>2, <1>13
<1> QED
  BY <1>6, <1>7, <1>12, <1>14, <1>15 DEF more, answer, mine

(* What was complete stays so for fewer rows.                              *)
LEMMA LostForFewer ==
  ASSUME NEW pages, NEW rows, NEW fewer \in SUBSET rows, NothingLost(pages, rows)
  PROVE  NothingLost(pages, fewer)
BY DEF NothingLost

(* A step that shows and asks nothing, and takes no old row into the feed. *)
LEMMA RowsMove ==
  ASSUME FeedInv, feed \subseteq feed', feed' \subseteq FeedRow, IsFiniteSet(feed'),
         startsAt' \in Int, startsAt <= startsAt',
         UNCHANGED <<feedPage, request, asOf>>
  PROVE  FeedInv'
<1> DEFINE f == feedPage.filter
<1>1. /\ asOf \subseteq feed /\ request.asOf \subseteq feed
      /\ startsAt \in Int /\ \A r \in FeedRow : r.time \in Int
  BY FeedAssumption DEF FeedInv, FeedRow
<1>2. ASSUME NEW rows \in SUBSET feed
      PROVE  rows \cap Where(f)' \subseteq rows \cap Where(f)
  <2>1. ASSUME NEW r \in rows, r \in Where(f)'
        PROVE  r \in Where(f)
    <3>1. r \in feed /\ r \in FeedRow
      BY <2>1 DEF FeedInv
    <3>2. r.time >= startsAt' /\ (f # Absent => Kind[r.id] = f)
      BY <2>1 DEF Where
    <3>3. r.time >= startsAt
      BY <1>1, <3>1, <3>2
    <3> QED
      BY <3>1, <3>2, <3>3 DEF Where
  <2> QED
    BY <2>1
<1>3. NothingLost(feedPage.pages, asOf \cap Where(f)')
  BY <1>1, <1>2, LostForFewer DEF FeedInv
<1>4. request.kind = "all" /\ request.pages # <<>>
        => NothingLost(request.pages, request.asOf \cap Where(f)')
  BY <1>1, <1>2, LostForFewer DEF FeedInv
<1>5. /\ feedPage' = feedPage /\ request' = request /\ asOf' = asOf
      /\ (asOf \cap Where(f))' = asOf \cap Where(f)'
      /\ (request.asOf \cap Where(f))' = request.asOf \cap Where(f)'
  BY DEF Where
<1>6. request \in [kind : {"none", "next", "all"}, cursor : FeedRow \cup {Absent},
                   pages : Seq(FeedAnswer), asOf : SUBSET feed']
  BY DEF FeedInv
<1> QED
  BY <1>3, <1>4, <1>5, <1>6 DEF FeedInv, Chained, NothingLost, GoesOn, LastCursor

(* Nothing is asked, or asked from the top.                                *)
LEMMA NoneAsked ==
  ASSUME FeedInv
  PROVE  /\ NoRequest \in [kind : {"none", "next", "all"}, cursor : FeedRow \cup {Absent},
                           pages : Seq(FeedAnswer), asOf : SUBSET feed]
         /\ FromTop \in [kind : {"none", "next", "all"}, cursor : FeedRow \cup {Absent},
                         pages : Seq(FeedAnswer), asOf : SUBSET feed]
         /\ Chained(FromTop.pages) /\ GoesOn(FromTop.cursor, FromTop.pages)
<1>1. <<>> \in Seq(FeedAnswer)
  OBVIOUS
<1>2. Chained(<<>>) /\ GoesOn(Absent, <<>>)
  BY DEF Chained, GoesOn
<1> QED
  BY <1>1, <1>2 DEF NoRequest, FromTop

(* Another request, while the page stays.                                  *)
LEMMA AskAgain ==
  ASSUME FeedInv, UNCHANGED <<feed, startsAt, feedPage, asOf>>,
         request' \in [kind : {"none", "next", "all"}, cursor : FeedRow \cup {Absent},
                       pages : Seq(FeedAnswer), asOf : SUBSET feed],
         request'.kind = "next" => /\ feedPage.pages # <<>> /\ request'.cursor # Absent
                                   /\ GoesOn(request'.cursor, feedPage.pages),
         request'.kind = "all" =>
            /\ Chained(request'.pages) /\ GoesOn(request'.cursor, request'.pages)
            /\ request'.pages # <<>> =>
                 /\ request'.cursor # Absent
                 /\ NothingLost(request'.pages, request'.asOf \cap Where(feedPage.filter))
  PROVE  FeedInv'
<1> DEFINE r == request'
<1>1. Where(feedPage.filter)' = Where(feedPage.filter)
  BY DEF Where
<1>2. /\ feedPage' = feedPage /\ asOf' = asOf /\ feed' = feed /\ startsAt' = startsAt
      /\ request' = r
  OBVIOUS
<1> HIDE DEF r
<1> QED
  BY <1>1, <1>2 DEF FeedInv, Chained, NothingLost, GoesOn, LastCursor

(* Other pages are shown, and nothing is asked any more.                   *)
LEMMA ShowPages ==
  ASSUME FeedInv, UNCHANGED <<feed, startsAt>>, request' = NoRequest,
         NEW pages \in Seq(FeedAnswer), feedPage' = [feedPage EXCEPT !.pages = pages],
         asOf' \subseteq feed, pages # <<>>, Chained(pages),
         NothingLost(pages, asOf' \cap Where(feedPage.filter))
  PROVE  FeedInv'
<1>1. feedPage' \in [filter : {Absent} \cup {Kind[i] : i \in RowIds}, pages : Seq(FeedAnswer)]
  BY DEF FeedInv
<1>2. feedPage'.pages = pages /\ feedPage'.filter = feedPage.filter
  BY DEF FeedInv
<1>3. Where(feedPage.filter)' = Where(feedPage.filter)
  BY <1>2 DEF Where
<1>4. request'.kind = "none" /\ request' \in [kind : {"none", "next", "all"},
         cursor : FeedRow \cup {Absent}, pages : Seq(FeedAnswer), asOf : SUBSET feed]
  BY NoneAsked DEF NoRequest
<1>5. Chained(feedPage.pages)'
  BY <1>2 DEF Chained
<1>6. NothingLost(feedPage.pages, asOf \cap Where(feedPage.filter))'
  BY <1>2, <1>3 DEF NothingLost, LastCursor
<1> QED
  BY <1>1, <1>2, <1>4, <1>5, <1>6 DEF FeedInv

(* A page is answered.                                                     *)
LEMMA AnswerKeeps == FeedInv /\ Answer => FeedInv'
<1> SUFFICES ASSUME FeedInv, Answer PROVE FeedInv'
  OBVIOUS
<1> DEFINE f == feedPage.filter
           answer == ListRows(f, request.cursor)
<1>1. /\ feed \subseteq FeedRow /\ IsFiniteSet(feed) /\ UNCHANGED <<feed, startsAt>>
      /\ request.cursor \in FeedRow \cup {Absent} /\ request.pages \in Seq(FeedAnswer)
      /\ feedPage.pages \in Seq(FeedAnswer)
      /\ request.asOf \in SUBSET feed /\ asOf \in SUBSET feed
      /\ Chained(feedPage.pages) /\ NothingLost(feedPage.pages, asOf \cap Where(f))
  BY DEF FeedInv, Answer
<1>2. CASE request.kind = "next"
  <2> DEFINE more == Append(feedPage.pages, answer)
  <2>1. /\ GoesOn(request.cursor, feedPage.pages) /\ feedPage.pages # <<>>
        /\ request.cursor # Absent
    BY <1>2 DEF FeedInv
  <2>2. /\ more \in Seq(FeedAnswer) /\ more # <<>> /\ Chained(more)
        /\ NothingLost(more, asOf \cap Where(f))
    BY <1>1, <2>1, AnswerGoesOn
  <2>3. feedPage' = [feedPage EXCEPT !.pages = more] /\ request' = NoRequest /\ asOf' = asOf
    BY <1>2 DEF Answer, FeedInv
  <2> HIDE DEF more
  <2> QED
    BY <1>1, <2>2, <2>3, ShowPages
<1>3. CASE request.kind = "all"
  <2> DEFINE more == Append(request.pages, answer)
  <2>1. /\ GoesOn(request.cursor, request.pages) /\ Chained(request.pages)
        /\ request.pages # <<>> =>
              request.cursor # Absent /\ NothingLost(request.pages, request.asOf \cap Where(f))
    BY <1>3 DEF FeedInv
  <2>2. /\ more \in Seq(FeedAnswer) /\ more # <<>> /\ Chained(more)
        /\ NothingLost(more, request.asOf \cap Where(f))
        /\ LastCursor(more) = answer.nextCursor /\ answer \in FeedAnswer
    BY <1>1, <2>1, AnswerGoesOn
  <2> HIDE DEF more, answer
  <2>3. CASE feedPage' = [feedPage EXCEPT !.pages = more] /\ asOf' = request.asOf
             /\ request' = NoRequest
    BY <1>1, <2>2, <2>3, ShowPages
  <2>4. CASE /\ answer.nextCursor # Absent /\ UNCHANGED <<feedPage, asOf>>
             /\ request' = [request EXCEPT !.pages = more, !.cursor = answer.nextCursor]
    <3>1. request \in [kind : {"none", "next", "all"}, cursor : FeedRow \cup {Absent},
                       pages : Seq(FeedAnswer), asOf : SUBSET feed]
      BY DEF FeedInv
    <3>2. answer.nextCursor \in FeedRow \cup {Absent}
      BY <2>2 DEF FeedAnswer
    <3>3. /\ request'.kind = "all" /\ request'.pages = more
          /\ request'.cursor = answer.nextCursor /\ request'.asOf = request.asOf
          /\ request' \in [kind : {"none", "next", "all"}, cursor : FeedRow \cup {Absent},
                           pages : Seq(FeedAnswer), asOf : SUBSET feed]
      BY <1>3, <2>2, <2>4, <3>1, <3>2
    <3>4. GoesOn(request'.cursor, more)
      BY <2>2, <3>3 DEF GoesOn
    <3> QED
      BY <1>1, <2>2, <2>4, <3>3, <3>4, AskAgain
  <2> QED
    BY <1>3, <2>3, <2>4 DEF Answer, more, answer
<1> QED
  BY <1>2, <1>3 DEF Answer, FeedInv

(* No row of a feed is passed over, for every set of identifiers, times    *)
(* and kinds and every size of the pages: whatever rows are written into   *)
(* the past of the feed while it is read page by page, and whichever       *)
(* requests are refetched, given up or fail, the pages shown follow one    *)
(* another and hold every row that was there when the first was read, down *)
(* to the last one shown (list of the three repositories).                 *)
THEOREM FeedsPassNothingOver == FeedSpec => []NothingPassedOver
<1>1. FeedInit => FeedInv
  <2> SUFFICES ASSUME FeedInit PROVE FeedInv
    OBVIOUS
  <2>1. /\ feed = {} /\ asOf = {} /\ startsAt \in Int /\ IsFiniteSet(feed)
        /\ feedPage = [filter |-> Absent, pages |-> <<>>]
        /\ request = FromTop /\ FromTop = [kind |-> "all", cursor |-> Absent, pages |-> <<>>,
                                           asOf |-> {}]
    BY FS_EmptySet DEF FeedInit, FromTop
  <2>2. <<>> \in Seq(FeedAnswer)
    OBVIOUS
  <2>3. Chained(<<>>) /\ GoesOn(Absent, <<>>) /\ NothingLost(<<>>, {} \cap Where(Absent))
    BY DEF Chained, GoesOn, NothingLost
  <2> QED
    BY <2>1, <2>2, <2>3 DEF FeedInv
<1>2. FeedInv /\ [FeedNext]_feedVars => FeedInv'
  <2> SUFFICES ASSUME FeedInv, [FeedNext]_feedVars PROVE FeedInv'
    OBVIOUS
  <2>1. /\ feed \subseteq FeedRow /\ IsFiniteSet(feed) /\ startsAt \in Int
        /\ feedPage.pages \in Seq(FeedAnswer)
    BY DEF FeedInv
  <2>2. CASE UNCHANGED feedVars
    BY <2>1, <2>2, RowsMove DEF feedVars
  <2>3. CASE WriteRow
    <3>1. PICK i \in RowIds, t \in Times : feed' = feed \cup {[id |-> i, time |-> t]}
      BY <2>3 DEF WriteRow
    <3>2. [id |-> i, time |-> t] \in FeedRow
      BY DEF FeedRow
    <3>3. feed \subseteq feed' /\ feed' \subseteq FeedRow /\ IsFiniteSet(feed')
      BY <2>1, <3>1, <3>2, FS_AddElement
    <3> QED
      BY <2>1, <2>3, <3>3, RowsMove DEF WriteRow
  <2>4. CASE PeriodMoves
    BY <2>1, <2>4, RowsMove DEF PeriodMoves
  <2>5. CASE Refetch
    <3>1. request' = FromTop /\ UNCHANGED <<feed, startsAt, feedPage, asOf>>
      BY <2>5 DEF Refetch
    <3>2. FromTop.kind = "all" /\ FromTop.pages = <<>>
      BY DEF FromTop
    <3> QED
      BY <3>1, <3>2, NoneAsked, AskAgain
  <2>6. CASE LoadMore
    <3>1. /\ feedPage.pages # <<>> /\ LastCursor(feedPage.pages) # Absent
          /\ request' = [NoRequest EXCEPT !.kind = "next", !.cursor = LastCursor(feedPage.pages)]
          /\ UNCHANGED <<feed, startsAt, feedPage, asOf>>
      BY <2>6 DEF LoadMore
    <3>2. LastCursor(feedPage.pages) \in FeedRow \cup {Absent}
      <4>1. Len(feedPage.pages) \in 1..Len(feedPage.pages)
        BY <2>1, <3>1
      <4>2. feedPage.pages[Len(feedPage.pages)] \in FeedAnswer
        BY <2>1, <4>1
      <4> QED
        BY <4>2 DEF LastCursor, FeedAnswer
    <3>3. /\ request'.kind = "next" /\ request'.cursor = LastCursor(feedPage.pages)
          /\ request' \in [kind : {"none", "next", "all"}, cursor : FeedRow \cup {Absent},
                           pages : Seq(FeedAnswer), asOf : SUBSET feed]
      <4>1. request' = [kind |-> "next", cursor |-> LastCursor(feedPage.pages),
                        pages |-> <<>>, asOf |-> {}]
        BY <3>1 DEF NoRequest
      <4>2. <<>> \in Seq(FeedAnswer)
        OBVIOUS
      <4> QED
        BY <3>2, <4>1, <4>2
    <3>4. GoesOn(request'.cursor, feedPage.pages)
      BY <3>1, <3>3 DEF GoesOn
    <3> QED
      BY <3>1, <3>3, <3>4, AskAgain
  <2>7. CASE Answer
    BY <2>7, AnswerKeeps
  <2>8. CASE RequestFails
    <3>1. request' = NoRequest /\ UNCHANGED <<feed, startsAt, feedPage, asOf>>
      BY <2>8 DEF RequestFails
    <3>2. NoRequest.kind = "none"
      BY DEF NoRequest
    <3> QED
      BY <3>1, <3>2, NoneAsked, AskAgain
  <2>9. ASSUME NEW filter \in {Absent} \cup {Kind[i] : i \in RowIds}, SetFilter(filter)
        PROVE  FeedInv'
    <3>1. /\ feedPage' = [filter |-> filter, pages |-> <<>>] /\ request' = FromTop /\ asOf' = {}
          /\ feed' = feed /\ startsAt' = startsAt
      BY <2>9 DEF SetFilter
    <3>2. <<>> \in Seq(FeedAnswer)
      OBVIOUS
    <3>3. feedPage' \in [filter : {Absent} \cup {Kind[i] : i \in RowIds}, pages : Seq(FeedAnswer)]
      BY <3>1, <3>2
    <3>4. FromTop.kind = "all" /\ FromTop.pages = <<>>
      BY DEF FromTop
    <3>5. feedPage'.pages = <<>> /\ Chained(<<>>)
      BY <3>1 DEF Chained
    <3>6. Chained(feedPage.pages)' /\ Chained(request.pages)'
      BY <3>1, <3>4, <3>5 DEF Chained
    <3>7. GoesOn(request.cursor, request.pages)'
      BY <3>1, <3>4, NoneAsked DEF GoesOn
    <3>8. NothingLost(feedPage.pages, asOf \cap Where(feedPage.filter))'
      BY <3>1 DEF NothingLost
    <3> QED
      BY <2>1, <3>1, <3>3, <3>4, <3>5, <3>6, <3>7, <3>8, NoneAsked DEF FeedInv
  <2> QED
    BY <2>2, <2>3, <2>4, <2>5, <2>6, <2>7, <2>8, <2>9 DEF FeedNext
<1>3. FeedInv => NothingPassedOver
  <2> SUFFICES ASSUME FeedInv PROVE NothingPassedOver
    OBVIOUS
  <2>1. DOMAIN feedPage.pages = 1..Len(feedPage.pages)
    BY DEF FeedInv
  <2> QED
    BY <2>1 DEF FeedInv, NothingPassedOver, Chained, NothingLost
<1> QED
  BY <1>1, <1>2, <1>3, PTL DEF FeedSpec
-----------------------------------------------------------------------------
(* Decisions and their replays.                                            *)
DecisionRow == [candle : Int, availableAt : Nat, side : Sides, allowed : BOOLEAN,
                frame : SUBSET OpenTimes, memory : SUBSET Nat, validUntil : Int]
SoundAnswer(p) ==
  /\ shadow[p].status \in {"unasked", "asked", "timeout", "error", "accepted", "rejected"}
  /\ shadow[p].status = "accepted" /\ shadow[p].side # "none" => LastDecision.allowed
ShadowRow(r) ==
  /\ r.decision \in 1..Len(decisions)
  /\ r.action = "OPEN" => decisions[r.decision].allowed
DecisionBooks ==
  /\ now \in Nat /\ DOMAIN market \subseteq OpenTimes
  /\ decisions \in Seq(DecisionRow)
  /\ \A i \in 1..Len(decisions) :
       decisions[i].availableAt <= now /\ decisions[i].frame \subseteq Closed(decisions[i].availableAt)
  /\ \A i \in 1..Len(decisions) : \A j \in decisions[i].memory :
       j \in 1..Len(decisions) /\ decisions[j].availableAt <= decisions[i].availableAt
  /\ DOMAIN shadow = Providers
  /\ \A p \in Providers : shadow[p].status # "unasked" => decisions # <<>>
  /\ \A p \in Providers : SoundAnswer(p)
  /\ \A r \in shadowRows : ShadowRow(r)
  /\ \A r, other \in shadowRows :
       other.decision = r.decision /\ other.provider = r.provider => other = r

(* A least element is the only one.                                        *)
LEMMA TheLeast ==
  ASSUME NEW T \in SUBSET Int, NEW x \in T, \A y \in T : x <= y
  PROVE  Min(T) = x
<1>1. \A z \in T : (\A y \in T : z <= y) => z = x
  OBVIOUS
<1>2. Min(T) \in T /\ \A y \in T : Min(T) <= y
  BY DEF Min
<1> QED
  BY <1>1, <1>2

(* The candles of an earlier replay are the first ones of a later replay.  *)
LEMMA JudgedIsPrefix ==
  ASSUME DecisionAssumption, DOMAIN market \subseteq OpenTimes,
         NEW d, d.availableAt \in Nat, NEW early \in Nat, NEW late \in Nat, early <= late
  PROVE  /\ Judged(d, early) \subseteq Judged(d, late) /\ Judged(d, late) \in SUBSET Nat
         /\ \A t \in Judged(d, early), k \in Judged(d, late) : k <= t => k \in Judged(d, early)
         /\ Cardinality(Judged(d, early)) = Horizon => Judged(d, early) = Judged(d, late)
<1> DEFINE A == Judged(d, early)
           B == Judged(d, late)
           Before(t) == {k \in Later(d, late) : k < t}
<1>1. /\ Interval \in Nat /\ Horizon \in Nat /\ DOMAIN market \in SUBSET Nat
      /\ IsFiniteSet(DOMAIN market)
  BY FS_Subset DEF DecisionAssumption
<1>2. /\ Later(d, early) \subseteq Later(d, late) /\ Later(d, late) \in SUBSET (DOMAIN market)
      /\ \A t \in Later(d, early), k \in Later(d, late) : k <= t => k \in Later(d, early)
  BY <1>1 DEF Later, Closed
<1>3. IsFiniteSet(Later(d, late))
  BY <1>1, <1>2, FS_Subset
<1>4. \A t \in Later(d, early) : {k \in Later(d, early) : k < t} = Before(t)
  BY <1>1, <1>2
<1>5. /\ A = {t \in Later(d, early) : Cardinality(Before(t)) < Horizon}
      /\ B = {t \in Later(d, late) : Cardinality(Before(t)) < Horizon}
  BY <1>4 DEF Judged
<1>6. /\ A \subseteq B /\ B \in SUBSET Nat
      /\ \A t \in A, k \in B : k <= t => k \in A
  <2> HIDE DEF A, B, Before
  <2> QED BY <1>1, <1>2, <1>5
<1>7. ASSUME Cardinality(A) = Horizon, NEW t \in B, t \notin A
      PROVE  FALSE
  <2>1. t \in Later(d, late) /\ Cardinality(Before(t)) < Horizon
    BY <1>5, <1>7
  <2>2. A \subseteq Before(t)
    <3> HIDE DEF A, B
    <3>1. \A k \in A : k \in Nat /\ t \in Nat /\ k \in Later(d, late)
      BY <1>1, <1>2, <1>5, <1>6
    <3>2. \A k \in A : ~(t <= k)
      BY <1>6, <1>7
    <3> QED
      BY <3>1, <3>2
  <2>3. IsFiniteSet(Before(t))
    BY <1>3, FS_Subset
  <2>4. Cardinality(A) <= Cardinality(Before(t)) /\ Cardinality(Before(t)) \in Nat
    <3> HIDE DEF A, Before
    <3> QED BY <2>2, <2>3, FS_Subset, FS_CardinalityType
  <2> HIDE DEF A, Before
  <2> QED
    BY <1>1, <1>7, <2>1, <2>4
<1> QED
  BY <1>6, <1>7

(* A replay that is complete comes out the same ever after.                *)
LEMMA ReplayStays ==
  ASSUME DecisionAssumption, DOMAIN market \subseteq OpenTimes,
         NEW d, d.availableAt \in Nat, NEW early \in Nat, NEW late \in Nat, early <= late,
         Replay(d, early).status = "completed"
  PROVE  Replay(d, late) = Replay(d, early)
<1> DEFINE A == Judged(d, early)
           B == Judged(d, late)
           Hit(t) == StopTouched(d, market[Min(A)].open, t) \/ TakeTouched(d, market[Min(A)].open, t)
           hitsA == {t \in A : Hit(t)}
           hitsB == {t \in B : Hit(t)}
<1>1. /\ A \subseteq B /\ B \in SUBSET Nat
      /\ \A t \in A, k \in B : k <= t => k \in A
      /\ Cardinality(A) = Horizon => A = B
  BY JudgedIsPrefix
<1>2. /\ d.side # "none" /\ A # {}
      /\ hitsA = {} => Cardinality(A) = Horizon
  <2>1. Unfinished("no-trade").status = "no-trade"
    BY DEF Unfinished
  <2>2. [Unfinished("insufficient-data") EXCEPT !.observed = A].status = "insufficient-data"
    BY DEF Unfinished
  <2> QED
    BY <2>1, <2>2 DEF Replay
<1>3. CASE A = B
  BY <1>3 DEF Replay
<1>4. CASE A # B
  <2>1. hitsA # {}
    BY <1>1, <1>2, <1>4
  <2>2. PICK a \in A : \A k \in A : a <= k
    <3> HIDE DEF A, B, hitsA
    <3>1. A \in SUBSET Nat
      BY <1>1
    <3> QED BY <1>2, <3>1, LeastElement
  <2>3. PICK h \in hitsA : \A k \in hitsA : h <= k
    <3>1. hitsA \in SUBSET Nat
      <4> HIDE DEF A, B, Hit
      <4> QED BY <1>1
    <3> HIDE DEF hitsA
    <3> QED BY <2>1, <3>1, LeastElement
  <2>4. Min(A) = a /\ Min(B) = a
    <3> HIDE DEF A, B, hitsA, hitsB
    <3>1. \A k \in B : a <= k
      <4> SUFFICES ASSUME NEW k \in B, ~(a <= k) PROVE FALSE
        OBVIOUS
      <4>1. k <= a /\ k \in Nat /\ a \in Nat
        BY <1>1, <2>2
      <4>2. k \in A
        BY <1>1, <2>2, <4>1
      <4> QED
        BY <2>2, <4>2
    <3>2. A \in SUBSET Int /\ B \in SUBSET Int /\ a \in A /\ a \in B
      BY <1>1, <2>2
    <3> QED
      BY <2>2, <3>1, <3>2, TheLeast
  <2>5. Min(hitsA) = h /\ Min(hitsB) = h /\ hitsB # {}
    <3> HIDE DEF A, B, Hit
    <3>1. h \in A /\ h \in B /\ h \in hitsB /\ h \in Nat
      BY <1>1, <2>3
    <3>2. \A k \in hitsB : h <= k
      <4> SUFFICES ASSUME NEW k \in hitsB, ~(h <= k) PROVE FALSE
        OBVIOUS
      <4>1. k \in B /\ k \in Nat
        BY <1>1
      <4>2. k \in A
        BY <1>1, <3>1, <4>1
      <4> QED
        BY <2>3, <4>2
    <3>3. hitsA \in SUBSET Int /\ hitsB \in SUBSET Int
      <4>1. hitsA \in SUBSET A /\ hitsB \in SUBSET B
        OBVIOUS
      <4> HIDE DEF hitsA, hitsB
      <4> QED BY <1>1, <4>1
    <3> HIDE DEF hitsA, hitsB
    <3> QED
      BY <2>3, <3>1, <3>2, <3>3, TheLeast
  <2>6. {t \in A : t <= h} = {t \in B : t <= h}
    <3> HIDE DEF A, B, hitsB
    <3>1. h \in A
      BY <2>3
    <3> QED BY <1>1, <3>1
  <2> DEFINE Out(S) ==
        [status |-> "completed",
         reason |-> IF StopTouched(d, market[a].open, h) THEN "stop-loss" ELSE "take-profit",
         observed |-> {t \in S : t <= h},
         gain |-> CASE (IF StopTouched(d, market[a].open, h) THEN "stop-loss" ELSE "take-profit") = "stop-loss" -> -StopAway
                    [] (IF StopTouched(d, market[a].open, h) THEN "stop-loss" ELSE "take-profit") = "take-profit" -> TakeAway
                    [] (IF StopTouched(d, market[a].open, h) THEN "stop-loss" ELSE "take-profit") = "horizon"
                         -> Signed(d, market[h].close - market[a].open)]
  <2>7. Replay(d, early) = Out(A)
    BY <1>2, <2>1, <2>4, <2>5 DEF Replay
  <2>8. Replay(d, late) = Out(B)
    <3>1. B # {}
      BY <1>1, <1>2
    <3>2. hitsB = {t \in B : StopTouched(d, market[Min(B)].open, t) \/ TakeTouched(d, market[Min(B)].open, t)}
      BY <2>4
    <3> QED
      BY <1>2, <2>4, <2>5, <3>1, <3>2 DEF Replay
  <2> QED
    BY <2>6, <2>7, <2>8
<1> QED
  BY <1>3, <1>4

(* What the books say of the properties.                                   *)
LEMMA DecisionsAreSound ==
  ASSUME DecisionAssumption, DecisionBooks
  PROVE  ReplayFinal /\ JudgedUnseen /\ ShadowRowsSound
<1>1. ASSUME NEW i \in 1..Len(decisions)
      PROVE  /\ decisions[i].availableAt \in Nat /\ decisions[i].availableAt <= now
             /\ decisions[i].frame \subseteq Closed(decisions[i].availableAt)
  <2>1. decisions[i] \in DecisionRow
    BY DEF DecisionBooks
  <2> QED
    BY <2>1 DEF DecisionBooks, DecisionRow
<1>2. ReplayFinal
  <2> SUFFICES ASSUME NEW i \in 1..Len(decisions), NEW when \in 0..now,
                      Replay(decisions[i], when).status = "completed"
               PROVE  Replay(decisions[i], now) = Replay(decisions[i], when)
    BY DEF ReplayFinal
  <2>1. now \in Nat /\ when \in Nat /\ when <= now /\ DOMAIN market \subseteq OpenTimes
    BY DEF DecisionBooks
  <2> QED
    BY <1>1, <2>1, ReplayStays
<1>3. JudgedUnseen
  <2> SUFFICES ASSUME NEW i \in 1..Len(decisions), NEW t \in DOMAIN market
               PROVE  /\ t \in Judged(decisions[i], now) => t \notin Seen(decisions[i])
                      /\ t < decisions[i].availableAt /\ decisions[i].availableAt < t + Interval =>
                           t \notin Seen(decisions[i]) /\ t \notin Judged(decisions[i], now)
    BY DEF JudgedUnseen
  <2>1. t \in Nat /\ Interval \in Nat \ {0}
    BY DEF DecisionBooks, DecisionAssumption
  <2>2. t \in Seen(decisions[i]) => t + Interval <= decisions[i].availableAt
    <3>1. \A k \in 1..Len(decisions) :
            /\ decisions[k].availableAt \in Nat
            /\ t \in decisions[k].frame => t + Interval <= decisions[k].availableAt
      BY <1>1 DEF Closed
    <3> DEFINE remembered == decisions[i].memory
    <3>2. \A j \in remembered :
            j \in 1..Len(decisions) /\ decisions[j].availableAt <= decisions[i].availableAt
      BY DEF DecisionBooks
    <3>3. Seen(decisions[i]) = decisions[i].frame \cup UNION {decisions[j].frame : j \in remembered}
      BY DEF Seen
    <3> HIDE DEF remembered
    <3>4. ASSUME NEW j \in remembered, t \in decisions[j].frame
          PROVE  t + Interval <= decisions[i].availableAt
      BY <2>1, <3>1, <3>2, <3>4
    <3>5. t \in UNION {decisions[j].frame : j \in remembered} =>
            \E j \in remembered : t \in decisions[j].frame
      OBVIOUS
    <3> QED
      BY <3>1, <3>3, <3>4, <3>5
  <2>3. t \in Judged(decisions[i], now) => t >= decisions[i].availableAt
    BY DEF Judged, Later
  <2> QED
    BY <1>1, <2>1, <2>2, <2>3
<1> QED
  BY <1>2, <1>3 DEF ShadowRowsSound, DecisionBooks, ShadowRow

(* A step that neither writes a decision nor a row.                        *)
LEMMA DecisionsStay ==
  ASSUME DecisionBooks, now' \in Nat, now <= now', UNCHANGED <<market, decisions, shadowRows>>,
         DOMAIN shadow' = Providers,
         \A p \in Providers : shadow'[p].status # "unasked" => decisions # <<>>,
         \A p \in Providers : SoundAnswer(p)'
  PROVE  DecisionBooks'
<1>1. \A i \in 1..Len(decisions) : decisions[i].availableAt <= now'
  <2> TAKE i \in 1..Len(decisions)
  <2>1. decisions[i] \in DecisionRow
    BY DEF DecisionBooks
  <2> QED
    BY <2>1 DEF DecisionBooks, DecisionRow
<1> QED
  BY <1>1 DEF DecisionBooks, ShadowRow, Closed

(* A decision sees closed candles only.                                    *)
LEMMA DecideKeeps ==
  ASSUME DecisionAssumption, DecisionBooks, NEW side \in Sides, NEW allowed \in BOOLEAN,
         Decide(side, allowed)
  PROVE  DecisionBooks'
<1> DEFINE new == [candle |-> Max(Closed(now)), availableAt |-> now, side |-> side,
                   allowed |-> allowed, frame |-> Frame(now), memory |-> Memory,
                   validUntil |-> now + Interval]
<1>1. decisions' = Append(decisions, new) /\ UNCHANGED <<now, market, shadowRows>>
  BY DEF Decide
<1>2. new \in DecisionRow
  <2>1. Closed(now) \in SUBSET Nat /\ IsFiniteSet(Closed(now)) /\ Closed(now) # {}
    <3>1. DOMAIN market \in SUBSET Nat /\ IsFiniteSet(DOMAIN market)
      BY FS_Subset DEF DecisionAssumption, DecisionBooks
    <3> QED
      BY <3>1, FS_Subset DEF Closed, Decide
  <2>2. Max(Closed(now)) \in Int
    <3>1. now \in Nat /\ \A t \in Closed(now) : t <= now
      BY <2>1 DEF Closed, DecisionAssumption, DecisionBooks
    <3> DEFINE C == Closed(now)
    <3>2. C \in SUBSET Nat /\ C # {} /\ \A t \in C : t <= now
      BY <2>1, <3>1
    <3> HIDE DEF C
    <3>3. Max(C) \in C
      BY <3>1, <3>2, MaxIsGreatest
    <3> QED
      BY <3>2, <3>3 DEF C
  <2>3. Frame(now) \in SUBSET OpenTimes /\ Memory \in SUBSET Nat
    BY DEF Frame, Closed, Memory, DecisionBooks
  <2>4. now \in Nat /\ now + Interval \in Int
    BY DEF DecisionBooks, DecisionAssumption
  <2> QED
    BY <2>2, <2>3, <2>4 DEF DecisionRow
<1> HIDE DEF new
<1>3. /\ decisions' \in Seq(DecisionRow) /\ Len(decisions') = Len(decisions) + 1
      /\ Len(decisions) \in Nat
      /\ \A i \in 1..Len(decisions) : decisions'[i] = decisions[i]
      /\ decisions'[Len(decisions) + 1] = new
  BY <1>1, <1>2 DEF DecisionBooks
<1>4. \A i \in 1..Len(decisions') :
         /\ decisions'[i].availableAt <= now
         /\ decisions'[i].frame \subseteq Closed(decisions'[i].availableAt)
  <2>1. new.availableAt = now /\ new.frame \subseteq Closed(now) /\ now <= now
    BY DEF new, Frame, DecisionBooks
  <2> QED
    BY <1>3, <2>1 DEF DecisionBooks
<1>8. \A i \in 1..Len(decisions') : \A j \in decisions'[i].memory :
         j \in 1..Len(decisions') /\ decisions'[j].availableAt <= decisions'[i].availableAt
  <2>1. new.availableAt = now /\ new.memory \subseteq 1..Len(decisions)
    BY DEF new, Memory
  <2>2. \A j \in 1..Len(decisions) : decisions[j].availableAt <= now
    BY DEF DecisionBooks
  <2> QED
    BY <1>3, <2>1, <2>2 DEF DecisionBooks
<1>5. DOMAIN shadow' = Providers /\ \A p \in Providers : shadow'[p].status = "unasked"
  BY DEF Decide, Unasked
<1>6. \A p \in Providers : SoundAnswer(p)'
  BY <1>5 DEF SoundAnswer
<1>7. \A r \in shadowRows : r.decision \in 1..Len(decisions') /\
                            (r.action = "OPEN" => decisions'[r.decision].allowed)
  BY <1>3 DEF DecisionBooks, ShadowRow
<1> QED
  BY <1>1, <1>3, <1>4, <1>5, <1>6, <1>7, <1>8 DEF DecisionBooks, ShadowRow, Closed

(* The row of a provider is the only one it has of the latest decision.    *)
LEMMA PersistKeeps ==
  ASSUME DecisionBooks, NEW p \in Providers, Persist(p)
  PROVE  DecisionBooks'
<1> DEFINE new == [decision |-> Len(decisions), provider |-> p, action |-> ShadowAction(shadow[p])]
<1>1. shadowRows' = shadowRows \cup {new} /\ UNCHANGED <<now, market, decisions, shadow>>
  BY DEF Persist
<1>2. decisions # <<>> /\ Len(decisions) \in 1..Len(decisions)
  BY DEF DecisionBooks, Persist
<1>3. new.action = "OPEN" => LastDecision.allowed
  <2>1. ShadowAction(shadow[p]) = "OPEN" =>
          shadow[p].status = "accepted" /\ shadow[p].side # "none"
    BY DEF ShadowAction, Persist, DecisionBooks, SoundAnswer
  <2> QED
    BY <2>1 DEF DecisionBooks, SoundAnswer
<1>4. \A r \in shadowRows : ~(r.decision = new.decision /\ r.provider = new.provider)
  BY DEF Persist, RowOf
<1>5. \A r \in shadowRows' : ShadowRow(r)'
  BY <1>1, <1>2, <1>3 DEF DecisionBooks, ShadowRow, LastDecision
<1>6. \A r, other \in shadowRows' :
         other.decision = r.decision /\ other.provider = r.provider => other = r
  <2> HIDE DEF new
  <2> QED BY <1>1, <1>4 DEF DecisionBooks
<1> QED
  BY <1>1, <1>5, <1>6 DEF DecisionBooks, SoundAnswer, LastDecision, Closed

(* The replay of a recorded decision is final once it is complete, no      *)
(* decision is judged by what it could see, and a shadow provider leaves   *)
(* one row of a context and none that opens where risk allowed no entry,   *)
(* however late it answers and however often it is asked:                  *)
(* decision-engine.ts and decision-repository.ts, for every market, frame  *)
(* size and horizon.                                                       *)
THEOREM DecisionsStand ==
  ASSUME DecisionAssumption
  PROVE  DecisionSpec => [](ReplayFinal /\ JudgedUnseen /\ ShadowRowsSound)
<1>1. DecisionInit => DecisionBooks
  <2> SUFFICES ASSUME DecisionInit PROVE DecisionBooks
    OBVIOUS
  <2>1. DOMAIN market \subseteq OpenTimes
    BY DEF DecisionInit
  <2>2. /\ now = 0 /\ decisions = <<>> /\ shadowRows = {}
        /\ DOMAIN shadow = Providers /\ \A p \in Providers : shadow[p].status = "unasked"
    BY DEF DecisionInit, Unasked
  <2>3. Len(decisions) = 0 /\ decisions \in Seq(DecisionRow)
    BY <2>2
  <2> QED
    BY <2>1, <2>2, <2>3 DEF DecisionBooks, SoundAnswer
<1>2. DecisionBooks /\ [DecisionNext]_decisionVars => DecisionBooks'
  <2> SUFFICES ASSUME DecisionBooks, [DecisionNext]_decisionVars PROVE DecisionBooks'
    OBVIOUS
  <2>1. now \in Nat /\ now <= now
    BY DEF DecisionBooks
  <2>2. /\ DOMAIN shadow = Providers
        /\ \A p \in Providers : shadow[p].status # "unasked" => decisions # <<>>
        /\ \A p \in Providers : SoundAnswer(p)
    BY DEF DecisionBooks
  <2>3. CASE UNCHANGED decisionVars
    BY <2>1, <2>2, <2>3, DecisionsStay DEF decisionVars, SoundAnswer, LastDecision
  <2>4. CASE Tick
    <3>1. now' \in Nat /\ now <= now' /\ UNCHANGED <<market, decisions, shadow, shadowRows>>
      BY <2>1, <2>4 DEF Tick
    <3> QED
      BY <2>2, <3>1, DecisionsStay DEF SoundAnswer, LastDecision
  <2>5. ASSUME NEW side \in Sides, NEW allowed \in BOOLEAN, Decide(side, allowed)
        PROVE  DecisionBooks'
    BY <2>5, DecideKeeps
  <2>6. CASE Ask
    <3>1. /\ decisions # <<>> /\ UNCHANGED <<now, market, decisions, shadowRows>>
          /\ \A p \in Providers : shadow'[p].status = "asked"
          /\ DOMAIN shadow' = Providers
      BY <2>6 DEF Ask
    <3> QED
      BY <2>1, <3>1, DecisionsStay DEF SoundAnswer
  <2>7. ASSUME NEW p \in Providers, AbortSignal(p) PROVE DecisionBooks'
    <3>1. /\ shadow[p].status = "asked" /\ UNCHANGED <<now, market, decisions, shadowRows>>
          /\ shadow' = [shadow EXCEPT ![p].aborted = TRUE]
      BY <2>7 DEF AbortSignal
    <3>2. /\ \A q \in Providers : shadow'[q].status # "unasked" => decisions # <<>>
          /\ DOMAIN shadow' = Providers
      BY <2>2, <3>1
    <3>3. \A q \in Providers : SoundAnswer(q)'
      BY <2>2, <3>1 DEF SoundAnswer, LastDecision
    <3> QED
      BY <2>1, <3>1, <3>2, <3>3, DecisionsStay
  <2>8. ASSUME NEW p \in Providers, Throw(p) PROVE DecisionBooks'
    <3>1. /\ shadow[p].status = "asked" /\ UNCHANGED <<now, market, decisions, shadowRows>>
          /\ \A q \in Providers : q # p => shadow'[q] = shadow[q]
      BY <2>8 DEF Throw
    <3>2. shadow'[p].status \in {"timeout", "error"} /\ DOMAIN shadow' = DOMAIN shadow
      BY <2>8 DEF Throw, DecisionBooks
    <3>4. /\ \A q \in Providers : shadow'[q].status # "unasked" => decisions # <<>>
          /\ DOMAIN shadow' = Providers
      BY <2>2, <3>1, <3>2
    <3>5. \A q \in Providers : SoundAnswer(q)'
      BY <2>2, <3>1, <3>2 DEF SoundAnswer, LastDecision
    <3> QED
      BY <2>1, <3>1, <3>4, <3>5, DecisionsStay
  <2>9. ASSUME NEW p \in Providers, NEW side \in Sides, NEW sound \in BOOLEAN,
               NEW validUntil \in {now - 1, now}, Settle(p, side, sound, validUntil)
        PROVE  DecisionBooks'
    <3>1. /\ shadow[p].status = "asked" /\ UNCHANGED <<now, market, decisions, shadowRows>>
          /\ \A q \in Providers : q # p => shadow'[q] = shadow[q]
      BY <2>9 DEF Settle
    <3>2. /\ shadow'[p].status = "accepted" /\ shadow'[p].side # "none" => LastDecision.allowed
          /\ shadow'[p].status \in {"accepted", "rejected"} /\ DOMAIN shadow' = DOMAIN shadow
      BY <2>9 DEF Settle, Admissible, DecisionBooks
    <3>4. /\ \A q \in Providers : shadow'[q].status # "unasked" => decisions # <<>>
          /\ DOMAIN shadow' = Providers
      BY <2>2, <3>1, <3>2
    <3>5. \A q \in Providers : SoundAnswer(q)'
      BY <2>2, <3>1, <3>2 DEF SoundAnswer, LastDecision
    <3> QED
      BY <2>1, <3>1, <3>4, <3>5, DecisionsStay
  <2>10. ASSUME NEW p \in Providers, Persist(p) PROVE DecisionBooks'
    BY <2>10, PersistKeeps
  <2> QED
    BY <2>3, <2>4, <2>5, <2>6, <2>7, <2>8, <2>9, <2>10 DEF DecisionNext
<1>3. DecisionBooks => ReplayFinal /\ JudgedUnseen /\ ShadowRowsSound
  BY DecisionsAreSound
<1> QED
  BY <1>1, <1>2, <1>3, PTL DEF DecisionSpec
=============================================================================
