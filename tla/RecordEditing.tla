--------------------------- MODULE RecordEditing ---------------------------
(***************************************************************************)
(* Records that several people edit at once: the settings of a workspace    *)
(* (preferences and the kill switch) and playbooks (their text and their    *)
(* status).  Each has a text, replaced as a whole and protected by the      *)
(* updatedAt the editor was shown, and a switch that is turned over.        *)
(*                                                                          *)
(* A page shows what it loaded last; a card is keyed by updatedAt, so that  *)
(* a newer record discards the text being edited.  Transactions run at READ *)
(* COMMITTED: what compares and then writes in two statements without a     *)
(* lock is two steps.  The kill switch is written by one conditional update.*)
(*                                                                          *)
(* A text is numbered by the save that wrote it, updatedAt by the writes of  *)
(* the record: two writes in the same millisecond are left out.             *)
(***************************************************************************)
EXTENDS Integers

CONSTANTS Records,
          KillSwitch,   \* the one of Records whose switch is the kill switch
          Pages,        \* open pages
          MaxWrites     \* bound: writes of a record

ASSUME EditAssumption == KillSwitch \in Records

VARIABLES row,    \* the records in the database
          page,   \* what a page shows, and its request in progress
          saves   \* number of texts saved

editVars == <<row, page, saves>>

EditInit ==
    /\ row = [r \in Records |->
                [text |-> 0, on |-> FALSE, turns |-> 0, updatedAt |-> 0]]
    /\ page \in [Pages -> {[step |-> "closed", record |-> r, shown |-> row[r]] :
                              r \in Records}]
    /\ saves = 0

Stored(p) == row[page[p].record]
Writable(p) == Stored(p).updatedAt < MaxWrites
Answered(p) == page' = [page EXCEPT ![p].step = "editing"]

(* The first load, or a later one that finds the record changed.            *)
Load(p) ==
    /\ page[p].step \in {"closed", "editing"}
    /\ page[p].step = "editing" => Stored(p) # page[p].shown
    /\ page' = [page EXCEPT ![p].step = "editing", ![p].shown = Stored(p)]
    /\ UNCHANGED <<row, saves>>

(* update compares updatedAt ...                                            *)
SaveRead(p) ==
    /\ page[p].step = "editing"
    /\ Stored(p).updatedAt = page[p].shown.updatedAt
    /\ page' = [page EXCEPT ![p].step = "saving"]
    /\ UNCHANGED <<row, saves>>

(* ... and writes by id.                                                    *)
SaveWrite(p) ==
    /\ page[p].step = "saving" /\ Writable(p)
    /\ row' = [row EXCEPT ![page[p].record].text = saves + 1,
                          ![page[p].record].updatedAt = @ + 1]
    /\ saves' = saves + 1
    /\ Answered(p)

Turned(p) ==
    [row EXCEPT ![page[p].record].on = ~page[p].shown.on,
                ![page[p].record].turns = @ + 1,
                ![page[p].record].updatedAt = @ + 1]

(* setControl: locked, and conditional on the version the owner was shown.  *)
Expected_Latest(p) == TRUE
Expected(p) == Stored(p).turns = page[p].shown.turns
SetControl(p) ==
    /\ page[p].step = "editing" /\ page[p].record = KillSwitch
    /\ Expected(p) /\ Writable(p)
    /\ row' = Turned(p)
    /\ UNCHANGED <<page, saves>>

(* changeStatus of a playbook compares the status and writes by id.         *)
ChangeStatusRead(p) ==
    /\ page[p].step = "editing" /\ page[p].record # KillSwitch
    /\ Stored(p).on = page[p].shown.on
    /\ page' = [page EXCEPT ![p].step = "turning"]
    /\ UNCHANGED <<row, saves>>

ChangeStatusWrite(p) ==
    /\ page[p].step = "turning" /\ Writable(p)
    /\ row' = Turned(p)
    /\ Answered(p) /\ UNCHANGED saves

EditNext ==
    \E p \in Pages : \/ Load(p) \/ SaveRead(p) \/ SaveWrite(p) \/ SetControl(p)
                     \/ ChangeStatusRead(p) \/ ChangeStatusWrite(p)

EditSpec == EditInit /\ [][EditNext]_editVars

-----------------------------------------------------------------------------
(* Nobody turns the kill switch the wrong way: whoever turns it had been    *)
(* shown the state it was in, whatever other pages turn and save meanwhile; *)
(* and a save of the other settings never turns it.                         *)
SwitchTurnedAsShown ==
    [][row'[KillSwitch].on # row[KillSwitch].on
          <=> row'[KillSwitch].turns > row[KillSwitch].turns]_editVars
=============================================================================
