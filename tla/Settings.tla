-------------------------------- MODULE Settings --------------------------------
(***************************************************************************)
(* The shop's settings: the table store_settings, of which every reader    *)
(* takes the row with the lowest id (services/store_settings_service.go),  *)
(* and the pages that edit it (pages/admin/StoreSettingsPage.tsx).  Of a   *)
(* row the model keeps a text that stands for all the fields of the form,  *)
(* the logo and the footer image.  An upload is stored under a name that   *)
(* depends on its format alone.  Every statement is a transaction.         *)
(***************************************************************************)
EXTENDS Integers, FiniteSets, BackOfficeConstants

Texts  == Pages \cup {Default}
Images == Formats \cup {None}
SettingsRow == [text : Texts, logo : Images, footer : Images]
Form == [text : Texts, footer : Images]

VARIABLES
  rows,     (* committed rows, by id                                       *)
  nextId,   (* the sequence of ids, which no rollback takes back           *)
  page,     (* where the page's script stands                              *)
  form,     (* the form shown                                              *)
  captured, (* the form as handleSave captured it                          *)
  picked,   (* the images to upload with it: [logo, footer]                *)
  seenRow,  (* the row the running call has read: [id, row]                *)
  (* book-keeping of the model, read by no guard *)
  mixed     (* somebody else has written since                             *)

settingsVars == <<rows, nextId, page, form, captured, picked, seenRow, mixed>>

Blank == [text |-> Default, logo |-> None, footer |-> None]
EmptyForm == [text |-> Default, footer |-> None]
NoFiles == [logo |-> None, footer |-> None]
Nothing == [id |-> 0, row |-> Blank]

Finding == {"find_logo", "find_footer", "find_form"}
Saving  == {"save_logo", "save_footer", "save_form"}
PageLabels ==
  {"closed", "get", "insert", "commit", "editing", "saved"} \cup Finding \cup Saving

PageAt(p, l) == page' = [page EXCEPT ![p] = l]

First_Newest == CHOOSE i \in DOMAIN rows : \A j \in DOMAIN rows : i >= j
First == CHOOSE i \in DOMAIN rows : \A j \in DOMAIN rows : i <= j

(* Ids of rows whose INSERT is not yet committed.                          *)
Pending == {seenRow[p].id : p \in {q \in Pages : page[q] = "commit"}}

Forget(p) == seenRow' = [seenRow EXCEPT ![p] = Nothing]

(* The script is left: what it had captured is of no more use.             *)
Leave(p) ==
  /\ Forget(p)
  /\ captured' = [captured EXCEPT ![p] = EmptyForm]
  /\ picked' = [picked EXCEPT ![p] = NoFiles]

(* Everyone but p finds that somebody else has written.                    *)
Written(p) ==
  mixed' = [q \in Pages |-> mixed[q] \/ (q # p /\ page[q] \in {"saved"} \cup Finding \cup Saving)]

-----------------------------------------------------------------------------
(* Opening the page: get or create.                                        *)

Open(p) ==
  /\ page[p] \in {"closed", "editing", "saved"}
  /\ PageAt(p, "get")
  /\ form' = [form EXCEPT ![p] = EmptyForm]
  /\ Leave(p)
  /\ mixed' = [mixed EXCEPT ![p] = FALSE]
  /\ UNCHANGED <<rows, nextId>>

Get(p) ==
  /\ page[p] = "get"
  /\ rows # <<>>
  /\ form' = [form EXCEPT ![p] = [text |-> rows[First].text, footer |-> rows[First].footer]]
  /\ PageAt(p, "editing")
  /\ UNCHANGED <<rows, nextId, captured, picked, seenRow, mixed>>

(* Any error of GetFirst is taken for an empty table.                      *)
GetNothing(p) ==
  /\ page[p] = "get"
  /\ PageAt(p, "insert")
  /\ UNCHANGED <<rows, nextId, form, captured, picked, seenRow, mixed>>

Insert(p) ==
  /\ page[p] = "insert"
  /\ nextId <= MaxRows
  /\ seenRow' = [seenRow EXCEPT ![p].id = nextId]
  /\ nextId' = nextId + 1
  /\ PageAt(p, "commit")
  /\ UNCHANGED <<rows, form, captured, picked, mixed>>

CommitInsert(p) ==
  /\ page[p] = "commit"
  /\ rows' = [i \in DOMAIN rows \cup {seenRow[p].id} |-> IF i = seenRow[p].id THEN Blank ELSE rows[i]]
  /\ PageAt(p, "editing")
  /\ Written(p)
  /\ Forget(p)
  /\ UNCHANGED <<nextId, form, captured, picked>>

-----------------------------------------------------------------------------
(* handleSave: upload the logo if one was picked, upload the footer image  *)
(* if one was picked, and save the form as it was when the button was      *)
(* clicked, with a text of the page's own.                                 *)

Click(p) ==
  /\ page[p] \in {"editing", "saved"}
  /\ \E l, f \in Images :
       /\ picked' = [picked EXCEPT ![p] = [logo |-> l, footer |-> f]]
       /\ PageAt(p, IF l # None THEN "find_logo" ELSE
                  IF f # None THEN "find_footer" ELSE "find_form")
  /\ form'     = [form EXCEPT ![p].text = p]
  /\ captured' = [captured EXCEPT ![p] = [form[p] EXCEPT !.text = p]]
  /\ mixed' = [mixed EXCEPT ![p] = FALSE]
  /\ UNCHANGED <<rows, nextId, seenRow>>

SaveAfter == [l \in Finding |-> CASE l = "find_logo" -> "save_logo"
                              [] l = "find_footer" -> "save_footer"
                              [] OTHER -> "save_form"]

(* Each of the three calls reads the first row ...                         *)
FindRow(p) ==
  /\ page[p] \in Finding
  /\ rows # <<>>
  /\ seenRow' = [seenRow EXCEPT ![p] = [id |-> First, row |-> rows[First]]]
  /\ PageAt(p, SaveAfter[page[p]])
  /\ UNCHANGED <<rows, nextId, form, captured, picked, mixed>>

(* ... changes its own fields of it and saves every column.                *)
SaveLogo(p) ==
  /\ page[p] = "save_logo"
  /\ rows'  = [rows EXCEPT ![seenRow[p].id] = [seenRow[p].row EXCEPT !.logo = picked[p].logo]]
  /\ PageAt(p, IF picked[p].footer # None THEN "find_footer" ELSE "find_form")
  /\ Written(p)
  /\ Forget(p)
  /\ UNCHANGED <<nextId, form, captured, picked>>

SaveFooter(p) ==
  /\ page[p] = "save_footer"
  /\ rows'  = [rows EXCEPT ![seenRow[p].id] = [seenRow[p].row EXCEPT !.footer = picked[p].footer]]
  /\ form'  = [form EXCEPT ![p].footer = picked[p].footer]
  /\ PageAt(p, "find_form")
  /\ Written(p)
  /\ Forget(p)
  /\ UNCHANGED <<nextId, captured, picked>>

(* Update: the fields of the form, which sends no logo.                    *)
Updated_Replaced(row, f) == [text |-> f.text, logo |-> None, footer |-> f.footer]
Updated(row, f) == [row EXCEPT !.text = f.text, !.footer = f.footer]

SaveForm(p) ==
  /\ page[p] = "save_form"
  /\ rows' = [rows EXCEPT ![seenRow[p].id] = Updated(seenRow[p].row, captured[p])]
  /\ PageAt(p, "saved")
  /\ Written(p)
  /\ Forget(p)
  /\ UNCHANGED <<nextId, form, captured, picked>>

(* A call fails, or finds no row: the page goes on with what it has.  An   *)
(* image that was not uploaded may be picked again by the next Click.      *)
CallFails(p) ==
  /\ page[p] \in {"insert", "commit"} \cup Finding \cup Saving
  /\ PageAt(p, "editing")
  /\ Leave(p)
  /\ mixed' = [mixed EXCEPT ![p] = FALSE]
  /\ UNCHANGED <<rows, nextId, form>>

-----------------------------------------------------------------------------
SettingsInit ==
  /\ rows = <<>> /\ nextId = 1
  /\ page = [p \in Pages |-> "closed"]
  /\ form = [p \in Pages |-> EmptyForm] /\ captured = [p \in Pages |-> EmptyForm]
  /\ picked = [p \in Pages |-> NoFiles]
  /\ seenRow = [p \in Pages |-> Nothing]
  /\ mixed = [p \in Pages |-> FALSE]

SettingsNext ==
  \E p \in Pages :
    \/ Open(p) \/ Get(p) \/ GetNothing(p) \/ Insert(p) \/ CommitInsert(p)
    \/ Click(p) \/ FindRow(p) \/ SaveLogo(p) \/ SaveFooter(p) \/ SaveForm(p)
    \/ CallFails(p)

SettingsSpec == SettingsInit /\ [][SettingsNext]_settingsVars

-----------------------------------------------------------------------------
(* Properties.                                                             *)

SettingsTypeOK ==
  /\ nextId \in Nat \ {0}
  /\ DOMAIN rows \subseteq 1 .. nextId - 1
  /\ \A i \in DOMAIN rows : rows[i] \in SettingsRow
  /\ page \in [Pages -> PageLabels]
  /\ form \in [Pages -> Form] /\ captured \in [Pages -> Form]
  /\ picked \in [Pages -> [logo : Images, footer : Images]]
  /\ seenRow \in [Pages -> [id : Nat, row : SettingsRow]]
  /\ mixed \in [Pages -> BOOLEAN]

(* Two first readers may both create the row, in any order of commits.     *)
(* Once no such insert with a lower id is under way, the row everyone      *)
(* reads and saves is the same for good.                                   *)
SettledRow ==
  [][ rows # <<>> /\ (\A i \in Pending : First < i) => First' = First ]_settingsVars

(* A row an admin was told is saved holds the text of the form and the     *)
(* logo picked, unless somebody else has written in the meantime: also     *)
(* when the form was filled while a second row was being created, and      *)
(* though the form captured still has the logo of before.                  *)
Undisturbed(p) == page[p] = "saved" /\ ~ mixed[p]

SavedIsStored ==
  \A p \in Pages : Undisturbed(p) =>
    /\ rows[First].text = captured[p].text
    /\ picked[p].logo # None => rows[First].logo = picked[p].logo

(* "Pengaturan berhasil disimpan": so does the footer image picked.        *)
FooterSaved ==
  \A p \in Pages : Undisturbed(p) /\ picked[p].footer # None =>
    rows[First].footer = picked[p].footer
=============================================================================
