-------------------------- MODULE BackOfficeConstants --------------------------
(* The sizes of the back office: the shop's settings (module Settings),    *)
(* user accounts (module Accounts) and product variants (module Catalog).  *)
EXTENDS Integers

CONSTANTS
  (* settings *)
  Pages,    (* settings pages opened in browsers                           *)
  Default,  (* the text of the settings a new shop starts with             *)
  Formats,  (* file formats of logo and footer image                       *)
  None,     (* no image, no row                                            *)
  MaxRows,  (* bound: rows ever inserted into store_settings               *)
  (* accounts and variants *)
  Users,    (* ids of user rows, never used twice                          *)
  Roles,    (* values of users.role                                        *)
  TTL,      (* how long a token is good                                    *)
  Variants, (* ids of variant rows of one product, never used twice        *)
  Calls     (* HTTP requests that run at one time                          *)

ASSUME SettingsAssumption ==
  Default \notin Pages /\ None \notin Formats /\ MaxRows \in Nat
ASSUME AccountsAssumption ==
  Users # {} /\ Roles # {} /\ TTL \in Nat \ {0}
ASSUME CatalogAssumption == Variants # {}
=============================================================================
