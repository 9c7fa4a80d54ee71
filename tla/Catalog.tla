-------------------------------- MODULE Catalog --------------------------------
(***************************************************************************)
(* The variants of a product and the product's has_variants, which the     *)
(* till reads to know that a product is sold by variant                    *)
(* (services/variant_service.go).  Every statement is a transaction of its *)
(* own; several calls run at once, and the process may die in any of them. *)
(***************************************************************************)
EXTENDS BackOfficeConstants

VARIABLES
  product, (* the product's row is there                                   *)
  variant, (* variant[v]: "unused", "on" or "off" (is_active), "deleted"   *)
  flag,    (* products.has_variants                                        *)
  sync,    (* what a call is about to do                                   *)
  target,  (* the variant it is about                                      *)
  count,   (* it has counted an active variant                             *)
  (* book-keeping of the model, read by no guard *)
  fresh,   (* no variant has changed since it counted                      *)
  settled  (* nothing has changed since a fresh count was stored           *)

catalogVars == <<product, variant, flag, sync, target, count, fresh, settled>>

SyncLabels == {"idle", "save", "delete", "list", "flag"}
Live(v) == variant[v] \in {"on", "off"}
SyncAt(c, l) == sync' = [sync EXCEPT ![c] = l]

ActiveVariants_All == {v \in Variants : Live(v)}
ActiveVariants == {v \in Variants : variant[v] = "on"}

VariantBecomes(v, to) ==
  /\ variant' = [variant EXCEPT ![v] = to]
  /\ fresh'   = [c \in Calls |-> FALSE]
  /\ settled' = FALSE

Unchanged == UNCHANGED <<variant, fresh, settled>>

-----------------------------------------------------------------------------
(* Variants.                                                               *)

(* Create, whose foreign key asks for the product.                         *)
CreateVariant(c, v) ==
  /\ sync[c] = "idle"
  /\ variant[v] = "unused" /\ product
  /\ VariantBecomes(v, "on")
  /\ SyncAt(c, "list")
  /\ UNCHANGED <<product, flag, target, count>>

(* Update and Delete read the row first.                                   *)
FindVariant(c, v) ==
  /\ sync[c] = "idle"
  /\ Live(v)
  /\ target' = [target EXCEPT ![c] = v]
  /\ \E l \in {"save", "delete"} : SyncAt(c, l)
  /\ UNCHANGED <<product, flag, count>> /\ Unchanged

(* Update saves the row, switched on or off, and stores no count.  A row   *)
(* deleted meanwhile is inserted again if the product is there, and is on  *)
(* then: the column's default stands in for false.                         *)
SaveVariant(c) ==
  /\ sync[c] = "save"
  /\ Live(target[c]) \/ product
  /\ \E to \in IF Live(target[c]) THEN {"on", "off"} ELSE {"on"} :
       VariantBecomes(target[c], to)
  /\ SyncAt(c, "idle")
  /\ UNCHANGED <<product, flag, target, count>>

DeleteVariant(c) ==
  /\ sync[c] = "delete"
  /\ VariantBecomes(target[c], IF Live(target[c]) THEN "deleted" ELSE variant[target[c]])
  /\ SyncAt(c, "list")
  /\ UNCHANGED <<product, flag, target, count>>

-----------------------------------------------------------------------------
(* syncProductHasVariants.                                                 *)

(* A query that fails counts nothing: its error is dropped.                *)
List(c) ==
  /\ sync[c] = "list"
  /\ \/ count' = [count EXCEPT ![c] = ActiveVariants # {}] /\ fresh' = [fresh EXCEPT ![c] = TRUE]
     \/ count' = [count EXCEPT ![c] = FALSE] /\ fresh' = [fresh EXCEPT ![c] = FALSE]
  /\ SyncAt(c, "flag")
  /\ UNCHANGED <<product, variant, flag, target, settled>>

UpdateHasVariants(c) ==
  /\ sync[c] = "flag"
  /\ flag' = IF product THEN count[c] ELSE flag
  /\ settled' = fresh[c]
  /\ SyncAt(c, "idle")
  /\ UNCHANGED <<product, variant, target, count, fresh>>

(* A statement fails, or the process dies: the rest is not done.           *)
Stops(c) ==
  /\ sync[c] # "idle"
  /\ SyncAt(c, "idle")
  /\ UNCHANGED <<product, flag, target, count>> /\ Unchanged

-----------------------------------------------------------------------------
(* The product.                                                            *)

(* The product form has no field for has_variants, so Update saves false.  *)
SaveProduct ==
  /\ flag' = FALSE /\ settled' = FALSE
  /\ product' = TRUE
  /\ UNCHANGED <<variant, sync, target, count, fresh>>

(* The foreign key of product_variants refuses this while there are any.   *)
DeleteProduct ==
  /\ product /\ \A v \in Variants : ~ Live(v)
  /\ product' = FALSE
  /\ flag' = FALSE /\ settled' = FALSE
  /\ UNCHANGED <<variant, sync, target, count, fresh>>

-----------------------------------------------------------------------------
CatalogInit ==
  /\ product = TRUE /\ flag = FALSE
  /\ variant = [v \in Variants |-> "unused"]
  /\ sync = [c \in Calls |-> "idle"]
  /\ target = [c \in Calls |-> CHOOSE v \in Variants : TRUE]
  /\ count = [c \in Calls |-> FALSE]
  /\ fresh = [c \in Calls |-> FALSE]
  /\ settled = TRUE

CatalogNext ==
  \/ SaveProduct \/ DeleteProduct
  \/ \E c \in Calls :
       \/ \E v \in Variants : CreateVariant(c, v) \/ FindVariant(c, v)
       \/ SaveVariant(c) \/ DeleteVariant(c) \/ List(c) \/ UpdateHasVariants(c) \/ Stops(c)

CatalogSpec == CatalogInit /\ [][CatalogNext]_catalogVars

-----------------------------------------------------------------------------
(* Properties.                                                             *)

CatalogTypeOK ==
  /\ product \in BOOLEAN /\ flag \in BOOLEAN /\ settled \in BOOLEAN
  /\ variant \in [Variants -> {"unused", "on", "off", "deleted"}]
  /\ sync \in [Calls -> SyncLabels]
  /\ target \in [Calls -> Variants]
  /\ count \in [Calls -> BOOLEAN] /\ fresh \in [Calls -> BOOLEAN]

(* has_variants is wrong only when a variant was switched on or off, the   *)
(* product form was saved, a count failed or was never stored, or a count  *)
(* was overtaken by another change before it was stored.                   *)
FlagExplained == settled => flag = (\E v \in Variants : variant[v] = "on")
=============================================================================
