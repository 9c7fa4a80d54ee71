--------------------------- MODULE OrderStockProofs ---------------------------
(***************************************************************************)
(* Theorems about the counters of OrderTx, for any number of requests and  *)
(* products: the voucher's use count, and the low-stock notifications.     *)
(*                                                                         *)
(* What carries both is what an order holds while it is being written: the *)
(* row of every product it has taken, unless that product was deleted, and *)
(* the voucher's row once it has counted its use.                          *)
(***************************************************************************)
EXTENDS OrderTxProofs

(* A step of request s: the others stand where they stood, with their own  *)
(* versions of the rows they have locked.                                  *)
Alone(s) ==
  /\ \A r \in Requests \ {s} : /\ pc'[r] = pc[r] /\ item'[r] = item[r]
                               /\ job'[r] = job[r] /\ warned'[r] = warned[r]
                               /\ draft'[r] = draft[r]
  /\ \A c \in Counters, r \in Requests \ {s} : lock'[c] = r <=> lock[c] = r

LEMMA AloneWrite ==
  ASSUME TypeInv, NEW s \in Requests, NEW c \in Counters, NEW v, Write(s, c, v)
  PROVE  /\ \A r \in Requests \ {s} : draft'[r] = draft[r]
         /\ \A d \in Counters, r \in Requests \ {s} : lock'[d] = r <=> lock[d] = r
<1>1. lock[c] \in {None, s} /\ lock' = [lock EXCEPT ![c] = s]
  BY DEF Write, Free
<1>2. \A d \in Counters : d \in Rows
  BY DEF Rows
<1>3. QED
  BY <1>1, <1>2, RowsDistinct DEF Write, TypeInv, TypeOK

LEMMA AloneUpdate ==
  ASSUME TypeInv, NEW s \in Requests, NEW c \in Counters, NEW v, UpdateProduct(s, c, v)
  PROVE  /\ \A r \in Requests \ {s} : draft'[r] = draft[r]
         /\ \A d \in Counters, r \in Requests \ {s} : lock'[d] = r <=> lock[d] = r
<1>1. CASE c \in present
  BY <1>1, AloneWrite DEF UpdateProduct
<1>2. CASE c \notin present
  BY <1>2 DEF UpdateProduct, txVars
<1>3. QED
  BY <1>1, <1>2

LEMMA AloneRelease ==
  ASSUME TypeInv, NEW s \in Requests, Release(s)
  PROVE  /\ \A r \in Requests \ {s} : draft'[r] = draft[r]
         /\ \A d \in Counters, r \in Requests \ {s} : lock'[d] = r <=> lock[d] = r
  BY RowsDistinct DEF Release, TypeInv, TypeOK, Rows

LEMMA AloneNextItem ==
  ASSUME TypeInv, NEW s \in Requests, NEW l, NextItem(s, l)
  PROVE  \A r \in Requests \ {s} : item'[r] = item[r] /\ pc'[r] = pc[r]
  BY DEF NextItem, Goto, TypeInv, TypeOK

LEMMA AloneStep ==
  ASSUME TypeInv, NEW s \in Requests,
         Handler(s) \/ Start(s) \/ StatementFails(s) \/ DeadlockVictim(s)
  PROVE  Alone(s)
<1>1. CASE Start(s)
  BY <1>1 DEF Start, Goto, Alone, TypeInv, TypeOK, txVars, localVars
<1>2. CASE Rollback(s)
  BY <1>2, AloneRelease DEF Rollback, Goto, Alone, TypeInv, TypeOK, localVars
<1>3. CASE ReadProduct(s)
  BY <1>3, AloneNextItem DEF ReadProduct, Alone, txVars
<1>4. CASE Price(s) \/ CountInvoice(s) \/ StampOrder(s) \/ InsertOrder(s)
  BY <1>4 DEF Price, CountInvoice, StampOrder, InsertOrder, Goto, Alone, TypeInv, TypeOK,
     txVars, localVars
<1>5. CASE TakeStock(s)
  <2>1. Items(s)[item[s]].product \in Counters
    <3>1. pc[s] = "stock" /\ Target(s) = s
      BY <1>5 DEF TakeStock, TypeInv, HandlerOK, Target, Creating, Writing
    <3>2. QED
      BY <3>1, ItemRow DEF Line, Counters
  <2>2. QED
    BY <1>5, <2>1, AloneUpdate, AloneNextItem DEF TakeStock, Alone
<1>6. CASE CountVoucher(s)
  <2>1. Voucher \in Counters
    BY DEF Counters
  <2>2. QED
    BY <1>6, <2>1, AloneWrite DEF CountVoucher, Goto, Alone, TypeInv, TypeOK, localVars
<1>7. CASE ReadBack(s)
  BY <1>7, AloneNextItem DEF ReadBack, Alone, txVars, TypeInv, TypeOK
<1>8. CASE Commit(s) \/ CommitCancel(s)
  <2>1. PICK l : pc' = [pc EXCEPT ![s] = l]
    BY <1>8 DEF Commit, CommitCancel, Goto
  <2>2. QED
    BY <1>8, <2>1, AloneRelease DEF Commit, CommitCancel, Alone, TypeInv, TypeOK, localVars
<1>9. CASE Announce(s) \/ FindOrder(s) \/ SaveOrder(s)
  BY <1>9 DEF Announce, FindOrder, SaveOrder, Goto, Alone, TypeInv, TypeOK, txVars, localVars
<1>10. CASE ReturnStock(s)
  <2>1. Items(Target(s))[item[s]].product \in Counters
    BY <1>10, ItemRow DEF ReturnStock, Line, Counters
  <2>2. QED
    BY <1>10, <2>1, AloneUpdate, AloneNextItem DEF ReturnStock, Alone
<1>11. CASE MarkCancelled(s)
  <2>1. Target(s) \in Requests
    BY <1>11, TargetCart DEF MarkCancelled, Changing
  <2>2. \A c \in Counters : c # Target(s)
    BY <2>1, RowsDistinct DEF Counters
  <2>3. QED
    BY <1>11, <2>1, <2>2 DEF MarkCancelled, Goto, Alone, TypeInv, TypeOK, localVars, Rows
<1>12. CASE Manage(s) /\ ~ RefuseProductForm(s)
  BY <1>12 DEF Manage, AdjustStock, OpenForm, SaveProduct, FindProduct, DropProduct,
     SaveVoucher, Goto, Alone, TypeInv, TypeOK, txVars, localVars
<1>13. QED
  <2>1. CASE \/ RefuseProduct(s) \/ RefusePrice(s) \/ RefuseInvoice(s) \/ RefuseOrder(s)
             \/ RefuseProductForm(s) \/ StatementFails(s) \/ DeadlockVictim(s)
    BY <1>2, <2>1 DEF RefuseProduct, RefusePrice, RefuseInvoice, RefuseOrder,
       RefuseProductForm, StatementFails, DeadlockVictim
  <2>2. QED
    BY <1>1, <1>3, <1>4, <1>5, <1>6, <1>7, <1>8, <1>9, <1>10, <1>11, <1>12, <2>1
    DEF Handler, CreateOrder, ChangeOrder

-----------------------------------------------------------------------------
(* The voucher's use count.                                                *)

VoucherOK(r) ==
  /\ lock[Voucher] = r =>
       /\ pc[r] \in {"warn", "commit"} /\ job[r].voucher
       /\ draft[r][Voucher] = stored[Voucher] + 1
  /\ pc[r] \in {"warn", "commit"} /\ job[r].voucher => lock[Voucher] = r
  /\ pc[r] = "voucher" => job[r].voucher

VoucherInv == VoucherLedger /\ \A r \in Requests : VoucherOK(r)

LEMMA VoucherRow == Voucher \in Counters /\ Voucher \notin Products /\ Voucher \notin Requests
  BY RowsDistinct DEF Counters

LEMMA VoucherOrdersFinite ==
  ASSUME TypeInv
  PROVE  IsFiniteSet(VoucherOrders) /\ Cardinality(VoucherOrders) \in Nat
<1>1. VoucherOrders \subseteq Requests
  BY DEF VoucherOrders, TypeInv, TypeOK
<1>2. QED
  BY <1>1, RequestsFinite, FS_Subset, FS_CardinalityType

LEMMA VoucherInit == Init => VoucherInv
<1> SUFFICES ASSUME Init PROVE VoucherInv
  OBVIOUS
<1>1. VoucherOrders = {} /\ stored[Voucher] = 0 /\ books[Voucher] = 0
  BY VoucherRow DEF Init, VoucherOrders
<1>2. VoucherLedger
  BY <1>1, FS_EmptySet DEF VoucherLedger
<1>3. \A r \in Requests : VoucherOK(r)
  BY VoucherRow, RowsDistinct DEF Init, VoucherOK, Rows
<1>4. QED
  BY <1>2, <1>3 DEF VoucherInv

(* A step that leaves the count as it is, and the requests that hold it.   *)
LEMMA VoucherQuiet ==
  ASSUME TypeInv, VoucherInv,
         stored'[Voucher] = stored[Voucher], books'[Voucher] = books[Voucher],
         VoucherOrders' = VoucherOrders, \A r \in Requests : VoucherOK(r)'
  PROVE  VoucherInv'
  BY DEF VoucherInv, VoucherLedger

(* The other requests: nobody else changes the count while one holds it.   *)
LEMMA VoucherOthers ==
  ASSUME TypeInv, VoucherInv, NEW s \in Requests, Alone(s),
         stored'[Voucher] # stored[Voucher] => lock[Voucher] \in {None, s}
  PROVE  \A r \in Requests \ {s} : VoucherOK(r)'
<1> SUFFICES ASSUME NEW r \in Requests \ {s} PROVE VoucherOK(r)'
  OBVIOUS
<1>1. /\ pc'[r] = pc[r] /\ job'[r] = job[r] /\ draft'[r] = draft[r]
      /\ lock'[Voucher] = r <=> lock[Voucher] = r
  BY VoucherRow DEF Alone
<1>2. lock[Voucher] = r => stored'[Voucher] = stored[Voucher]
  BY RowsDistinct
<1>3. QED
  BY <1>1, <1>2 DEF VoucherOK, VoucherInv

LEMMA NotHeld ==
  ASSUME VoucherInv, NEW s \in Requests, pc[s] \notin {"warn", "commit"}
  PROVE  lock[Voucher] # s
  BY DEF VoucherInv, VoucherOK

(* A request that neither holds the count before a step nor after it.      *)
LEMMA VoucherOutside ==
  ASSUME NEW s \in Requests, pc'[s] \notin {"voucher", "warn", "commit"}, lock'[Voucher] # s
  PROVE  VoucherOK(s)'
  BY DEF VoucherOK

(* A step that changes no voucher column and no order, and after which its *)
(* request is none of those that count the voucher.                        *)
LEMMA VoucherElsewhere ==
  ASSUME TypeInv, VoucherInv, NEW s \in Requests, Alone(s),
         stored'[Voucher] = stored[Voucher], books'[Voucher] = books[Voucher],
         placed' = placed, \A o \in placed : job'[o] = job[o],
         lock'[Voucher] # s, pc'[s] \notin {"voucher", "warn", "commit"}
  PROVE  VoucherInv'
<1>1. VoucherOrders' = VoucherOrders
  BY DEF VoucherOrders
<1>2. QED
  BY <1>1, VoucherOthers, VoucherOutside, VoucherQuiet

LEMMA VoucherCommit ==
  ASSUME TypeInv, VoucherInv, NEW s \in Requests, Commit(s)
  PROVE  VoucherInv'
<1>0. Alone(s)
  BY AloneStep DEF Handler, CreateOrder
<1>1. /\ pc[s] = "commit" /\ s \notin placed /\ placed' = placed \cup {s}
      /\ UNCHANGED <<job, books>> /\ job[s] \in Work[s] /\ job[s].kind = "create"
      /\ pc'[s] \in {"announce", "failed"}
  BY DEF Commit, TypeInv, TypeOK, HandlerOK, Creating, Writing, Ended, Goto, bookVars
<1>2. job[s].voucher \in BOOLEAN /\ (job[s].voucher <=> lock[Voucher] = s)
  BY <1>1, JobFields DEF VoucherInv, VoucherOK
<1>3. stored'[Voucher] = IF lock[Voucher] = s THEN stored[Voucher] + 1 ELSE stored[Voucher]
  BY VoucherRow DEF Commit, Merged, VoucherInv, VoucherOK
<1>4. VoucherLedger'
  <2>1. CASE job[s].voucher
    <3>1. VoucherOrders' = VoucherOrders \cup {s} /\ s \notin VoucherOrders
      BY <1>1, <2>1 DEF VoucherOrders
    <3>2. Cardinality(VoucherOrders') = Cardinality(VoucherOrders) + 1
      BY <3>1, VoucherOrdersFinite, FS_AddElement
    <3>3. stored[Voucher] \in Int /\ books[Voucher] \in Int
      BY VoucherRow DEF TypeInv, TypeOK
    <3>4. QED
      BY <1>1, <1>2, <1>3, <2>1, <3>2, <3>3, VoucherOrdersFinite DEF VoucherInv, VoucherLedger
  <2>2. CASE ~ job[s].voucher
    <3>1. VoucherOrders' = VoucherOrders
      BY <1>1, <2>2 DEF VoucherOrders
    <3>2. QED
      BY <1>1, <1>2, <1>3, <2>2, <3>1 DEF VoucherInv, VoucherLedger
  <2>3. QED
    BY <2>1, <2>2
<1>5. lock'[Voucher] # s
  BY VoucherRow, RowsDistinct DEF Commit, Release, TypeInv, TypeOK, Rows
<1>6. \A r \in Requests : VoucherOK(r)'
  BY <1>0, <1>1, <1>2, <1>3, <1>5, VoucherOthers, VoucherOutside
<1>7. QED
  BY <1>4, <1>6 DEF VoucherInv

LEMMA VoucherCount ==
  ASSUME TypeInv, VoucherInv, NEW s \in Requests, CountVoucher(s)
  PROVE  VoucherInv'
<1>0. Alone(s)
  BY AloneStep DEF Handler, CreateOrder
<1>1. /\ pc[s] = "voucher" /\ pc'[s] = "warn" /\ job[s].voucher
      /\ UNCHANGED <<stored, books, placed, job>>
  BY DEF CountVoucher, Goto, dbVars, bookVars, TypeInv, TypeOK, VoucherInv, VoucherOK
<1>2. lock[Voucher] # s
  BY <1>1, NotHeld
<1>3. lock'[Voucher] = s /\ draft'[s][Voucher] = stored[Voucher] + 1
  BY <1>2, VoucherRow DEF CountVoucher, Write, Newest, Merged, TypeInv, TypeOK, Rows
<1>4. \A r \in Requests : VoucherOK(r)'
  BY <1>0, <1>1, <1>3, VoucherOthers DEF VoucherOK
<1>5. VoucherOrders' = VoucherOrders
  BY <1>1 DEF VoucherOrders
<1>6. QED
  BY <1>1, <1>4, <1>5, VoucherQuiet

(* The other steps of a transaction.                                       *)
LEMMA VoucherTakeStock ==
  ASSUME TypeInv, VoucherInv, NEW s \in Requests, TakeStock(s)
  PROVE  VoucherInv'
<1> DEFINE line == Items(s)[item[s]]
<1>0. Alone(s)
  BY AloneStep DEF Handler, CreateOrder
<1>1. /\ pc[s] = "stock" /\ UNCHANGED <<stored, books, placed, job>>
      /\ pc'[s] \in {"stock", "voucher", "warn"}
      /\ pc'[s] = "voucher" => job[s].voucher
      /\ pc'[s] = "warn" => ~ job[s].voucher
  BY DEF TakeStock, NextItem, Goto, dbVars, bookVars, TypeInv, TypeOK
<1>2. line.product \in Products
  <2>1. Target(s) = s
    BY <1>1 DEF TypeInv, HandlerOK, Target, Creating, Writing
  <2>2. QED
    BY <1>1, <2>1, ItemRow DEF Line
<1>3. lock'[Voucher] = lock[Voucher]
  <2>1. line.product \in Rows /\ line.product # Voucher
    BY <1>2, VoucherRow DEF Rows, Counters
  <2>2. QED
    BY <2>1, VoucherRow DEF TakeStock, UpdateProduct, Write, txVars, TypeInv, TypeOK, Rows
<1>4. lock'[Voucher] # s
  BY <1>1, <1>3, NotHeld
<1>5. VoucherOK(s)'
  BY <1>1, <1>4 DEF VoucherOK
<1>6. VoucherOrders' = VoucherOrders
  BY <1>1 DEF VoucherOrders
<1>7. QED
  BY <1>0, <1>1, <1>5, <1>6, VoucherOthers, VoucherQuiet

LEMMA VoucherReadBack ==
  ASSUME TypeInv, VoucherInv, NEW s \in Requests, ReadBack(s)
  PROVE  VoucherInv'
<1>0. Alone(s)
  BY AloneStep DEF Handler, CreateOrder
<1>1. /\ pc[s] = "warn" /\ UNCHANGED <<stored, books, placed, job, lock, draft>>
      /\ pc'[s] \in {"warn", "commit"}
  BY DEF ReadBack, NextItem, Goto, dbVars, txVars, bookVars, TypeInv, TypeOK
<1>2. VoucherOK(s)'
  BY <1>1 DEF VoucherOK, VoucherInv
<1>3. VoucherOrders' = VoucherOrders
  BY <1>1 DEF VoucherOrders
<1>4. QED
  BY <1>0, <1>1, <1>2, <1>3, VoucherOthers, VoucherQuiet

LEMMA VoucherReturnStock ==
  ASSUME TypeInv, VoucherInv, NEW s \in Requests, ReturnStock(s)
  PROVE  VoucherInv'
<1> DEFINE line == Items(Target(s))[item[s]]
<1>0. Alone(s)
  BY AloneStep DEF Handler, ChangeOrder
<1>1. /\ pc[s] = "restock" /\ UNCHANGED <<stored, books, placed, job>>
      /\ pc'[s] \in {"restock", "mark"}
  BY DEF ReturnStock, NextItem, Goto, dbVars, bookVars, TypeInv, TypeOK
<1>2. line.product \in Products
  BY <1>1, ItemRow DEF Line
<1>3. lock'[Voucher] = lock[Voucher]
  <2>1. line.product \in Rows /\ line.product # Voucher
    BY <1>2, VoucherRow DEF Rows, Counters
  <2>2. QED
    BY <2>1, VoucherRow DEF ReturnStock, UpdateProduct, Write, txVars, TypeInv, TypeOK, Rows
<1>4. lock'[Voucher] # s
  BY <1>1, <1>3, NotHeld
<1>5. QED
  BY <1>0, <1>1, <1>4, VoucherElsewhere

LEMMA VoucherRollback ==
  ASSUME TypeInv, VoucherInv, NEW s \in Requests, Rollback(s), Alone(s)
  PROVE  VoucherInv'
<1>1. /\ pc'[s] = "failed" /\ UNCHANGED <<stored, books, placed, job>>
      /\ lock'[Voucher] # s
  BY VoucherRow, RowsDistinct
  DEF Rollback, Release, Goto, dbVars, bookVars, TypeInv, TypeOK, Rows
<1>2. QED
  BY <1>1, VoucherElsewhere

LEMMA VoucherSaved ==
  ASSUME TypeInv, VoucherInv, NEW s \in Requests, SaveVoucher(s)
  PROVE  VoucherInv'
<1>0. Alone(s)
  BY AloneStep DEF Handler, Manage
<1>1. /\ pc[s] = "terms" /\ pc'[s] = "done" /\ UNCHANGED <<placed, job, lock>>
      /\ lock[Voucher] \in {None, s}
      /\ stored'[Voucher] = 0 /\ books'[Voucher] = books[Voucher] - stored[Voucher]
  BY VoucherRow DEF SaveVoucher, Goto, Free, txVars, TypeInv, TypeOK
<1>2. lock'[Voucher] # s
  BY <1>1, NotHeld
<1>3. \A r \in Requests : VoucherOK(r)'
  BY <1>0, <1>1, <1>2, VoucherOthers, VoucherOutside
<1>4. VoucherLedger'
  <2>1. VoucherOrders' = VoucherOrders
    BY <1>1 DEF VoucherOrders
  <2>2. stored[Voucher] \in Int /\ books[Voucher] \in Int
    BY VoucherRow DEF TypeInv, TypeOK
  <2>3. QED
    BY <1>1, <2>1, <2>2, VoucherOrdersFinite DEF VoucherInv, VoucherLedger
<1>5. QED
  BY <1>3, <1>4 DEF VoucherInv

(* The steps that reach neither the voucher nor the orders that carry it.  *)
LEMMA VoucherSteps ==
  ASSUME TypeInv, VoucherInv, NEW s \in Requests, Alone(s),
         \/ Start(s) \/ ReadProduct(s) \/ Price(s) \/ CountInvoice(s) \/ StampOrder(s)
         \/ InsertOrder(s) \/ Announce(s) \/ FindOrder(s) \/ MarkCancelled(s)
         \/ CommitCancel(s) \/ SaveOrder(s) \/ AdjustStock(s) \/ OpenForm(s)
         \/ SaveProduct(s) \/ FindProduct(s) \/ DropProduct(s)
  PROVE  VoucherInv'
<1>1. pc[s] \notin {"warn", "commit"} /\ pc'[s] \notin {"voucher", "warn", "commit"}
  <2>1. ASSUME NEW k PROVE FirstLabel(k) \in {"read", "adjust", "open", "look", "terms", "find"}
    BY ZenonT(30) DEF FirstLabel
  <2>2. CASE Start(s)
    <3>1. PICK j \in Work[s] : pc' = [pc EXCEPT ![s] = FirstLabel(j.kind)]
      BY <2>2 DEF Start, Goto
    <3>2. FirstLabel(j.kind) \in {"read", "adjust", "open", "look", "terms", "find"}
      BY <2>1
    <3>3. pc[s] = "idle" /\ pc'[s] = FirstLabel(j.kind)
      BY <2>2, <3>1 DEF Start, TypeInv, TypeOK
    <3>4. QED
      BY <3>2, <3>3
  <2>3. CASE ReadProduct(s)
    BY <2>3 DEF ReadProduct, NextItem, Goto, TypeInv, TypeOK
  <2>4. CASE Price(s) \/ CountInvoice(s) \/ StampOrder(s) \/ InsertOrder(s) \/ Announce(s)
    BY <2>4 DEF Price, CountInvoice, StampOrder, InsertOrder, Announce, Goto, TypeInv, TypeOK
  <2>5. CASE FindOrder(s) \/ MarkCancelled(s) \/ CommitCancel(s) \/ SaveOrder(s)
    BY <2>5 DEF FindOrder, MarkCancelled, CommitCancel, SaveOrder, Goto, TypeInv, TypeOK
  <2>6. CASE \/ AdjustStock(s) \/ OpenForm(s) \/ SaveProduct(s) \/ FindProduct(s)
             \/ DropProduct(s)
    BY <2>6 DEF AdjustStock, OpenForm, SaveProduct, FindProduct, DropProduct, Goto, TypeInv,
       TypeOK
  <2>7. QED
    BY <2>2, <2>3, <2>4, <2>5, <2>6
<1>2. lock[Voucher] # s
  BY <1>1, NotHeld
<1>3. lock'[Voucher] # s
  <2>1. CASE MarkCancelled(s)
    <3>1. Target(s) \in Requests
      BY <2>1, TargetCart DEF MarkCancelled, Changing
    <3>2. lock' = [lock EXCEPT ![Target(s)] = s] /\ Target(s) # Voucher
      BY <2>1, <3>1, VoucherRow DEF MarkCancelled
    <3>3. lock'[Voucher] = lock[Voucher]
      BY <3>1, <3>2, VoucherRow DEF TypeInv, TypeOK, Rows
    <3>4. QED
      BY <3>3, <1>2
  <2>2. CASE CommitCancel(s)
    BY <2>2, VoucherRow, RowsDistinct DEF CommitCancel, Release, TypeInv, TypeOK, Rows
  <2>3. CASE ~ MarkCancelled(s) /\ ~ CommitCancel(s)
    BY <1>2, <2>3 DEF Start, ReadProduct, Price, CountInvoice, StampOrder, InsertOrder,
       Announce, FindOrder, SaveOrder, AdjustStock, OpenForm, SaveProduct, FindProduct,
       DropProduct, txVars
  <2>4. QED
    BY <2>1, <2>2, <2>3
<1>4. placed' = placed /\ \A o \in placed : job'[o] = job[o]
  <2>1. CASE Start(s)
    <3>1. \A o \in placed : o # s
      BY <2>1 DEF Start, TypeInv, HandlerOK, Ended
    <3>2. QED
      BY <2>1, <3>1 DEF Start, dbVars, TypeInv, TypeOK
  <2>2. CASE ~ Start(s)
    BY <2>2 DEF ReadProduct, Price, CountInvoice, StampOrder, InsertOrder, Announce,
       FindOrder, MarkCancelled, CommitCancel, SaveOrder, AdjustStock, OpenForm, SaveProduct,
       FindProduct, DropProduct, dbVars
  <2>3. QED
    BY <2>1, <2>2
<1>5. stored'[Voucher] = stored[Voucher] /\ books'[Voucher] = books[Voucher]
  <2>1. CASE AdjustStock(s) \/ SaveProduct(s)
    <3>1. job[s].product \in Products
      BY <2>1, JobFields DEF AdjustStock, SaveProduct, TypeInv, HandlerOK
    <3>2. job[s].product # Voucher
      BY <3>1, VoucherRow
    <3>3. QED
      BY <2>1, <3>2, VoucherRow DEF AdjustStock, SaveProduct, TypeInv, TypeOK
  <2>2. CASE CommitCancel(s)
    BY <2>2, <1>2, VoucherRow DEF CommitCancel, Merged
  <2>3. CASE ~ (AdjustStock(s) \/ SaveProduct(s) \/ CommitCancel(s))
    BY <2>3 DEF Start, ReadProduct, Price, CountInvoice, StampOrder, InsertOrder, Announce,
       FindOrder, MarkCancelled, SaveOrder, OpenForm, FindProduct, DropProduct, dbVars,
       bookVars
  <2>4. QED
    BY <2>1, <2>2, <2>3
<1>6. QED
  BY <1>1, <1>3, <1>4, <1>5, VoucherElsewhere

LEMMA VoucherNext == TypeInv /\ VoucherInv /\ [Next]_vars => VoucherInv'
<1> SUFFICES ASSUME TypeInv, VoucherInv, [Next]_vars PROVE VoucherInv'
  OBVIOUS
<1>1. CASE Midnight \/ LocalMidnight \/ UNCHANGED vars
  BY <1>1 DEF Midnight, LocalMidnight, vars, dbVars, txVars, bookVars, VoucherInv,
     VoucherLedger, VoucherOrders, VoucherOK
<1>2. CASE Crash
  <2>1. UNCHANGED <<stored, books, placed, job>>
    BY <1>2 DEF Crash, dbVars, bookVars
  <2>2. VoucherLedger'
    BY <2>1 DEF VoucherInv, VoucherLedger, VoucherOrders
  <2>3. \A r \in Requests : VoucherOK(r)'
    BY <1>2, VoucherRow, RowsDistinct
    DEF Crash, Running, VoucherOK, Ended, TypeInv, TypeOK, Rows
  <2>4. QED
    BY <2>2, <2>3 DEF VoucherInv
<1>3. ASSUME NEW s \in Requests,
             Handler(s) \/ Start(s) \/ StatementFails(s) \/ DeadlockVictim(s)
      PROVE  VoucherInv'
  <2>1. Alone(s)
    BY <1>3, AloneStep
  <2>2. CASE Rollback(s)
    BY <2>1, <2>2, VoucherRollback
  <2>3. CASE ~ Rollback(s)
    BY <1>3, <2>1, <2>3, VoucherCommit, VoucherCount, VoucherTakeStock, VoucherReadBack,
       VoucherReturnStock, VoucherSaved, VoucherSteps
    DEF Handler, CreateOrder, ChangeOrder, Manage, RefuseProduct, RefusePrice, RefuseInvoice,
        RefuseOrder, RefuseProductForm, StatementFails, DeadlockVictim
  <2>4. QED
    BY <2>2, <2>3
<1>4. QED
  BY <1>1, <1>2, <1>3 DEF Next, Environment, Idle

(* For any number of orders at once, whatever fails or crashes: used_count *)
(* is the number of committed orders that carry the voucher since its form *)
(* was last saved; the UPDATE of line 234 loses none to another.           *)
THEOREM VoucherCounted == Spec => []VoucherLedger
<1>1. VoucherInv => VoucherLedger
  BY DEF VoucherInv
<1>2. QED
  BY <1>1, TypeInit, TypeNext, VoucherInit, VoucherNext, PTL DEF Spec, Safety


-----------------------------------------------------------------------------
(* The low-stock notifications.                                            *)

Item(r, i) == Items(r)[i].product

(* The items whose product r has taken from stock, and those it has read   *)
(* back since.                                                             *)
Took(r, i) ==
  \/ pc[r] = "stock" /\ i < item[r]
  \/ pc[r] \in {"voucher", "warn", "commit"}
Checked(r, i) ==
  \/ pc[r] = "warn" /\ i < item[r]
  \/ pc[r] = "commit"

StockOK(r) ==
  /\ pc[r] \in {"price", "count", "stamp", "insert", "voucher"} => item[r] = 1
  /\ \A i \in 1 .. Len(job[r].cart) :
       Took(r, i) => Item(r, i) \in gone \/ lock[Item(r, i)] = r
  /\ \A i \in 1 .. Len(job[r].cart) :
       Checked(r, i) => \/ Item(r, i) \in gone
                        \/ draft[r][Item(r, i)] <= MinStock[Item(r, i)]
                             => Item(r, i) \in warned[r]

StockInv ==
  /\ Products \ present \subseteq gone
  /\ \A r \in Requests : StockOK(r)

LEMMA ItemProduct ==
  ASSUME TypeInv, NEW r \in Requests, pc[r] \in Writing
  PROVE  /\ Target(r) = r /\ job[r].cart \in Seq(Line)
         /\ DOMAIN Items(r) = 1 .. Len(job[r].cart)
         /\ item[r] \in 1 .. Len(job[r].cart)
         /\ \A i \in 1 .. Len(job[r].cart) : Item(r, i) \in Products /\ Item(r, i) \in Rows
<1>1. Target(r) = r /\ item[r] \in 1 .. Len(job[r].cart)
  BY DEF TypeInv, HandlerOK, Creating, Target
<1>2. job[r].cart \in Seq(Line)
  BY <1>1, TargetCart DEF Creating
<1>3. /\ DOMAIN Items(r) = 1 .. Len(job[r].cart)
      /\ \A i \in 1 .. Len(job[r].cart) : Items(r)[i] \in Line
  BY <1>2, BookedLines DEF Items
<1>4. \A i \in 1 .. Len(job[r].cart) : Item(r, i) \in Products
  BY <1>3 DEF Item, Line
<1>5. QED
  BY <1>1, <1>2, <1>3, <1>4 DEF Rows, Counters

LEMMA StockInit == Init => StockInv
  BY DEF Init, StockInv, StockOK, Took, Checked

(* The other requests keep the rows they hold, and what is gone stays so.  *)
LEMMA StockOthers ==
  ASSUME TypeInv, StockInv, NEW s \in Requests, Alone(s), gone \subseteq gone'
  PROVE  \A r \in Requests \ {s} : StockOK(r)'
<1> SUFFICES ASSUME NEW r \in Requests \ {s} PROVE StockOK(r)'
  OBVIOUS
<1>1. /\ pc'[r] = pc[r] /\ job'[r] = job[r] /\ draft'[r] = draft[r]
      /\ item'[r] = item[r] /\ warned'[r] = warned[r]
      /\ \A c \in Products : lock'[c] = r <=> lock[c] = r
  BY DEF Alone, Counters
<1>2. \A i : Item(r, i)' = Item(r, i)
  BY <1>1 DEF Item, Items
<1>3. StockOK(r)
  BY DEF StockInv
<1>4. CASE pc[r] \in Writing
  <2>1. \A i \in 1 .. Len(job[r].cart) : Item(r, i) \in Products
    BY <1>4, ItemProduct
  <2>2. QED
    BY <1>1, <1>2, <1>3, <2>1 DEF StockOK, Took, Checked
<1>5. CASE pc[r] \notin Writing
  BY <1>1, <1>3, <1>5 DEF StockOK, Took, Checked, Writing
<1>6. QED
  BY <1>4, <1>5

(* A step of s that deletes no product leaves the rest to s.               *)
LEMMA StockQuiet ==
  ASSUME TypeInv, StockInv, NEW s \in Requests, Alone(s),
         present' = present, gone' = gone, StockOK(s)'
  PROVE  StockInv'
<1>1. \A r \in Requests \ {s} : StockOK(r)'
  BY StockOthers
<1>2. QED
  BY <1>1 DEF StockInv

LEMMA StockTaken ==
  ASSUME TypeInv, StockInv, NEW s \in Requests, TakeStock(s)
  PROVE  StockInv'
<1> DEFINE p == Item(s, item[s])
<1>0. Alone(s)
  BY AloneStep DEF Handler, CreateOrder
<1>1. /\ pc[s] = "stock" /\ UNCHANGED <<present, gone, job>>
      /\ UpdateProduct(s, p, Newest(s, p) - Items(s)[item[s]].qty)
      /\ NextItem(s, IF job[s].voucher THEN "voucher" ELSE "warn")
  BY DEF TakeStock, dbVars, bookVars, Item
<1>2. pc[s] \in Writing
  BY <1>1 DEF Writing
<1>3. /\ Target(s) = s /\ item[s] \in 1 .. Len(job[s].cart) /\ Len(job[s].cart) \in Nat
      /\ \A i \in 1 .. Len(job[s].cart) : Item(s, i) \in Products /\ Item(s, i) \in Rows
  BY <1>2, ItemProduct
<1>4. ASSUME NEW i \in 1 .. Len(job[s].cart), i <= item[s]
      PROVE  Item(s, i) \in gone \/ lock'[Item(s, i)] = s
  <2>1. CASE p \in present
    <3>1. lock' = [lock EXCEPT ![p] = s]
      BY <1>1, <2>1 DEF UpdateProduct, Write
    <3>2. CASE i < item[s]
      BY <1>1, <1>3, <3>1, <3>2 DEF StockInv, StockOK, Took, TypeInv, TypeOK
    <3>3. CASE i = item[s]
      BY <1>3, <3>1, <3>3 DEF TypeInv, TypeOK
    <3>4. QED
      BY <1>3, <1>4, <3>2, <3>3
  <2>2. CASE p \notin present
    <3>1. p \in gone /\ lock' = lock
      BY <1>1, <1>3, <2>2 DEF UpdateProduct, txVars, StockInv
    <3>2. CASE i < item[s]
      BY <1>1, <3>1, <3>2 DEF StockInv, StockOK, Took
    <3>3. CASE i = item[s]
      BY <3>1, <3>3
    <3>4. QED
      BY <1>3, <1>4, <3>2, <3>3
  <2>3. QED
    BY <2>1, <2>2
<1>5. \A i : Item(s, i)' = Item(s, i)
  BY <1>1 DEF Item, Items
<1>6. CASE item[s] < Len(job[s].cart)
  <2>1. pc'[s] = "stock" /\ item'[s] = item[s] + 1
    BY <1>1, <1>3, <1>6 DEF NextItem, TypeInv, TypeOK
  <2>2. QED
    <3>1. StockOK(s)'
      BY <1>1, <1>3, <1>4, <1>5, <2>1 DEF StockOK, Took, Checked
    <3>2. QED
      BY <1>0, <1>1, <3>1, StockQuiet
<1>7. CASE ~ (item[s] < Len(job[s].cart))
  <2>1. pc'[s] \in {"voucher", "warn"} /\ item'[s] = 1 /\ item[s] = Len(job[s].cart)
    BY <1>1, <1>3, <1>7 DEF NextItem, Goto, TypeInv, TypeOK
  <2>2. QED
    <3>1. StockOK(s)'
      BY <1>1, <1>3, <1>4, <1>5, <2>1 DEF StockOK, Took, Checked
    <3>2. QED
      BY <1>0, <1>1, <3>1, StockQuiet
<1>8. QED
  BY <1>6, <1>7

LEMMA StockCounted ==
  ASSUME TypeInv, StockInv, NEW s \in Requests, CountVoucher(s)
  PROVE  StockInv'
<1>0. Alone(s)
  BY AloneStep DEF Handler, CreateOrder
<1>1. /\ pc[s] = "voucher" /\ pc'[s] = "warn" /\ UNCHANGED <<present, gone, job, item>>
      /\ lock' = [lock EXCEPT ![Voucher] = s]
  BY DEF CountVoucher, Write, Goto, dbVars, bookVars, localVars, TypeInv, TypeOK
<1>2. /\ item[s] = 1
      /\ \A i \in 1 .. Len(job[s].cart) : Item(s, i) \in Rows
  BY <1>1, ItemProduct DEF StockInv, StockOK, Writing
<1>3. \A i \in 1 .. Len(job[s].cart) : Item(s, i) \in gone \/ lock'[Item(s, i)] = s
  BY <1>1, <1>2 DEF StockInv, StockOK, Took, TypeInv, TypeOK
<1>4. \A i : Item(s, i)' = Item(s, i)
  BY <1>1 DEF Item, Items
<1>5. StockOK(s)'
  BY <1>1, <1>2, <1>3, <1>4 DEF StockOK, Took, Checked
<1>6. QED
  BY <1>0, <1>1, <1>5, StockQuiet

(* The row read back is the order's own version, as it still holds it.     *)
LEMMA StockReadBack ==
  ASSUME TypeInv, StockInv, NEW s \in Requests, ReadBack(s)
  PROVE  StockInv'
<1> DEFINE p == Item(s, item[s])
<1>0. Alone(s)
  BY AloneStep DEF Handler, CreateOrder
<1>1. /\ pc[s] = "warn" /\ UNCHANGED <<present, gone, job, lock, draft>>
      /\ NextItem(s, "commit")
      /\ warned'[s] = warned[s] \cup LowStock(s, p)
  BY DEF ReadBack, dbVars, txVars, bookVars, Item, TypeInv, TypeOK
<1>2. /\ Target(s) = s /\ item[s] \in 1 .. Len(job[s].cart) /\ Len(job[s].cart) \in Nat
      /\ \A i \in 1 .. Len(job[s].cart) : Item(s, i) \in Products
  BY <1>1, ItemProduct DEF Writing
<1>3. \A i \in 1 .. Len(job[s].cart) : Item(s, i) \in gone \/ lock[Item(s, i)] = s
  BY <1>1 DEF StockInv, StockOK, Took
<1>4. p \in gone \/ (draft[s][p] <= MinStock[p] => p \in warned'[s])
  <2>1. ASSUME p \notin gone PROVE draft[s][p] <= MinStock[p] => p \in LowStock(s, p)
    <3>1. p \in present /\ lock[p] = s /\ p \in Counters
      BY <1>2, <1>3, <2>1 DEF StockInv, Counters
    <3>2. Newest(s, p) = draft[s][p]
      BY <3>1 DEF Newest, Merged
    <3>3. QED
      BY <3>1, <3>2 DEF LowStock
  <2>2. QED
    BY <1>1, <2>1
<1>5. ASSUME NEW i \in 1 .. Len(job[s].cart), i <= item[s]
      PROVE  \/ Item(s, i) \in gone
             \/ draft[s][Item(s, i)] <= MinStock[Item(s, i)] => Item(s, i) \in warned'[s]
  <2>1. CASE i < item[s]
    BY <1>1, <2>1 DEF StockInv, StockOK, Checked
  <2>2. CASE i = item[s]
    BY <1>4, <2>2
  <2>3. QED
    BY <1>2, <1>5, <2>1, <2>2
<1>6. \A i : Item(s, i)' = Item(s, i)
  BY <1>1 DEF Item, Items
<1>7. StockOK(s)'
  <2>1. CASE item[s] < Len(job[s].cart)
    <3>1. pc'[s] = "warn" /\ item'[s] = item[s] + 1
      BY <1>1, <1>2, <2>1 DEF NextItem, TypeInv, TypeOK
    <3>2. QED
      BY <1>1, <1>2, <1>3, <1>5, <1>6, <3>1 DEF StockOK, Took, Checked
  <2>2. CASE ~ (item[s] < Len(job[s].cart))
    <3>1. pc'[s] = "commit" /\ item[s] = Len(job[s].cart)
      BY <1>1, <1>2, <2>2 DEF NextItem, Goto, TypeInv, TypeOK
    <3>2. QED
      BY <1>1, <1>2, <1>3, <1>5, <1>6, <3>1 DEF StockOK, Took, Checked
  <2>3. QED
    BY <2>1, <2>2
<1>8. QED
  BY <1>0, <1>1, <1>7, StockQuiet


(* The steps before a sale takes stock, and those of other handlers.       *)
LEMMA StockBefore ==
  ASSUME TypeInv, StockInv, NEW s \in Requests, Alone(s),
         \/ Start(s) \/ ReadProduct(s) \/ Price(s) \/ CountInvoice(s) \/ StampOrder(s)
         \/ InsertOrder(s)
  PROVE  StockInv'
<1>1. UNCHANGED <<present, gone>>
  BY DEF Start, ReadProduct, Price, CountInvoice, StampOrder, InsertOrder, dbVars, bookVars
<1>2. /\ pc'[s] \notin {"voucher", "warn", "commit"}
      /\ pc'[s] \in {"price", "count", "stamp", "insert", "stock"} => item'[s] = 1
  <2>1. CASE Start(s)
    <3>1. ASSUME NEW k
          PROVE  FirstLabel(k) \in {"read", "adjust", "open", "look", "terms", "find"}
      BY ZenonT(30) DEF FirstLabel
    <3>2. PICK j \in Work[s] : pc' = [pc EXCEPT ![s] = FirstLabel(j.kind)]
      BY <2>1 DEF Start, Goto
    <3>3. pc'[s] = FirstLabel(j.kind)
      BY <3>2 DEF TypeInv, TypeOK
    <3>4. FirstLabel(j.kind) \in {"read", "adjust", "open", "look", "terms", "find"}
      BY <3>1
    <3>5. QED
      BY <3>3, <3>4
  <2>2. CASE ReadProduct(s)
    BY <2>2 DEF ReadProduct, NextItem, Goto, TypeInv, TypeOK
  <2>3. CASE Price(s) \/ CountInvoice(s) \/ StampOrder(s) \/ InsertOrder(s)
    BY <2>3 DEF Price, CountInvoice, StampOrder, InsertOrder, Goto, localVars, TypeInv, TypeOK,
       StockInv, StockOK
  <2>4. QED
    BY <2>1, <2>2, <2>3
<1>3. \A i \in 1 .. Len(job'[s].cart) : ~ Took(s, i)' /\ ~ Checked(s, i)'
  BY <1>2 DEF Took, Checked
<1>4. StockOK(s)'
  BY <1>2, <1>3 DEF StockOK
<1>5. QED
  BY <1>1, <1>4, StockQuiet

LEMMA StockElsewhere ==
  ASSUME TypeInv, StockInv, NEW s \in Requests, Alone(s),
         \/ Rollback(s) \/ Commit(s) \/ Announce(s) \/ FindOrder(s) \/ ReturnStock(s)
         \/ MarkCancelled(s) \/ CommitCancel(s) \/ SaveOrder(s)
         \/ (Manage(s) /\ ~ RefuseProductForm(s))
  PROVE  StockInv'
<1>1. /\ gone \subseteq gone'
      /\ Products \ present' \subseteq gone'
  BY DEF Rollback, Commit, Announce, FindOrder, ReturnStock, MarkCancelled, CommitCancel,
     SaveOrder, Manage, AdjustStock, OpenForm, SaveProduct, FindProduct, DropProduct,
     SaveVoucher, dbVars, bookVars, StockInv
<1>2. pc'[s] \notin {"price", "count", "stamp", "insert", "stock", "voucher", "warn", "commit"}
  <2>1. CASE Rollback(s) \/ Commit(s) \/ Announce(s)
    BY <2>1 DEF Rollback, Commit, Announce, Goto, TypeInv, TypeOK
  <2>2. CASE \/ FindOrder(s) \/ ReturnStock(s) \/ MarkCancelled(s) \/ CommitCancel(s)
             \/ SaveOrder(s)
    BY <2>2 DEF FindOrder, ReturnStock, MarkCancelled, CommitCancel, SaveOrder, NextItem, Goto,
       TypeInv, TypeOK
  <2>3. CASE Manage(s) /\ ~ RefuseProductForm(s)
    BY <2>3 DEF Manage, AdjustStock, OpenForm, SaveProduct, FindProduct, DropProduct,
       SaveVoucher, Goto, TypeInv, TypeOK
  <2>4. QED
    BY <2>1, <2>2, <2>3
<1>3. StockOK(s)'
  BY <1>2 DEF StockOK, Took, Checked
<1>4. \A r \in Requests \ {s} : StockOK(r)'
  BY <1>1, StockOthers
<1>5. QED
  BY <1>1, <1>3, <1>4 DEF StockInv

LEMMA StockNext == TypeInv /\ StockInv /\ [Next]_vars => StockInv'
<1> SUFFICES ASSUME TypeInv, StockInv, [Next]_vars PROVE StockInv'
  OBVIOUS
<1>1. CASE Midnight \/ LocalMidnight \/ UNCHANGED vars
  BY <1>1 DEF Midnight, LocalMidnight, vars, dbVars, txVars, bookVars, localVars, StockInv,
     StockOK, Took, Checked, Item, Items
<1>2. CASE Crash
  <2>1. \A r \in Requests : pc'[r] \in {"idle"} \cup Ended
    BY <1>2 DEF Crash, Running, Ended, TypeInv, TypeOK
  <2>2. \A r \in Requests : StockOK(r)'
    BY <2>1 DEF StockOK, Took, Checked, Ended
  <2>3. QED
    BY <1>2, <2>2 DEF Crash, dbVars, bookVars, StockInv
<1>3. ASSUME NEW s \in Requests,
             Handler(s) \/ Start(s) \/ StatementFails(s) \/ DeadlockVictim(s)
      PROVE  StockInv'
  <2>1. Alone(s)
    BY <1>3, AloneStep
  <2>2. QED
    BY <1>3, <2>1, StockTaken, StockCounted, StockReadBack, StockBefore, StockElsewhere
    DEF Handler, CreateOrder, ChangeOrder, Manage, RefuseProduct, RefusePrice, RefuseInvoice,
        RefuseOrder, RefuseProductForm, StatementFails, DeadlockVictim
<1>4. QED
  BY <1>1, <1>2, <1>3 DEF Next, Environment, Idle

(* Only a commit places an order, with the versions it holds and the       *)
(* notifications it has gathered.                                          *)
LEMMA OrderPlaced ==
  ASSUME TypeInv, [Next]_vars, NEW o \in placed' \ placed
  PROVE  o \in Requests /\ Commit(o)
<1>1. CASE \E s \in Requests : Commit(s)
  BY <1>1 DEF Commit
<1>2. CASE ~ \E s \in Requests : Commit(s)
  <2>1. placed' = placed
    BY <1>2 DEF Next, Environment, Idle, vars, Midnight, LocalMidnight, Crash, Handler,
       CreateOrder, ChangeOrder, Manage, Start, StatementFails, DeadlockVictim, Rollback,
       ReadProduct, RefuseProduct, Price, RefusePrice, CountInvoice, StampOrder, InsertOrder,
       RefuseInvoice, TakeStock, CountVoucher, ReadBack, Announce, FindOrder, RefuseOrder,
       ReturnStock, MarkCancelled, CommitCancel, SaveOrder, AdjustStock, OpenForm, SaveProduct,
       FindProduct, DropProduct, RefuseProductForm, SaveVoucher, dbVars
  <2>2. QED
    BY <2>1
<1>3. QED
  BY <1>1, <1>2

(* For any carts and any number of orders, deliveries, forms and deletions *)
(* at once: an order that commits a stock at or below the minimum commits  *)
(* a notification with it.  The test of line 244 is safe because the order *)
(* still holds the row it has updated.                                     *)
THEOREM LowStockIsNotified == Spec => LowStockNotified
<1>1. ASSUME TypeInv, StockInv, [Next]_vars
      PROVE  \A o \in placed' \ placed : \A p \in Sold(o) \ gone :
               stored'[p] <= MinStock[p] => [product |-> p, order |-> o] \in notifications'
  <2> SUFFICES ASSUME NEW o \in placed' \ placed, NEW p \in Sold(o) \ gone,
                      stored'[p] <= MinStock[p]
               PROVE  [product |-> p, order |-> o] \in notifications'
    OBVIOUS
  <2>1. o \in Requests /\ Commit(o)
    BY <1>1, OrderPlaced
  <2>2. pc[o] = "commit" /\ pc[o] \in Writing
    BY <2>1 DEF Commit, Writing
  <2>3. PICK i \in 1 .. Len(job[o].cart) : p = Item(o, i)
    BY <1>1, <2>1, <2>2, ItemProduct DEF Sold, Item
  <2>4. p \in Counters /\ lock[p] = o /\ (draft[o][p] <= MinStock[p] => p \in warned[o])
    <3>1. p \in Counters
      BY <1>1, <2>1, <2>2, <2>3, ItemProduct DEF Counters
    <3>2. QED
      BY <1>1, <2>1, <2>2, <2>3, <3>1 DEF StockInv, StockOK, Took, Checked
  <2>5. stored'[p] = draft[o][p]
    BY <2>1, <2>4 DEF Commit, Merged
  <2>6. p \in warned[o]
    BY <2>4, <2>5
  <2>7. QED
    BY <2>1, <2>6 DEF Commit
<1>2. QED
  BY <1>1, TypeInit, TypeNext, StockInit, StockNext, PTL DEF Spec, Safety, LowStockNotified

=============================================================================
