----------------------------- MODULE MCBackOffice -----------------------------
(* An instance of three parts of the back office that share no state with  *)
(* each other: a behaviour is one of the settings, of the accounts or of   *)
(* the variants of a product.                                              *)
EXTENDS Settings, Accounts, Catalog, TLC

VARIABLE part

Interchangeable == Permutations(Pages)

Init ==
  /\ part \in {"settings", "accounts", "catalog"}
  /\ SettingsInit /\ AccountsInit /\ CatalogInit
  /\ part # "accounts" => \A u \in Users : account[u].state = "unused"

Next ==
  /\ UNCHANGED part
  /\ \/ part = "settings" /\ SettingsNext /\ UNCHANGED <<accountsVars, catalogVars>>
     \/ part = "accounts" /\ AccountsNext /\ UNCHANGED <<settingsVars, catalogVars>>
     \/ part = "catalog"  /\ CatalogNext  /\ UNCHANGED <<settingsVars, accountsVars>>

Spec == Init /\ [][Next]_<<part, settingsVars, accountsVars, catalogVars>>

(* The state of all three parts is of its type.                            *)
TypeOK == SettingsTypeOK /\ AccountsTypeOK /\ CatalogTypeOK
=============================================================================
