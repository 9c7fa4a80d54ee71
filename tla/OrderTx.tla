------------------------------- MODULE OrderTx -------------------------------
(***************************************************************************)
(* The order service of the backend and the rows it shares with the        *)
(* product handlers: CreateOrder, CancelOrder, UpdateOrder and DeleteOrder *)
(* of services/order_service.go, the product writes that touch the same    *)
(* rows (UpdateStock, Update's full-row Save, Delete), and the voucher form.*)
(*                                                                         *)
(* Every HTTP request runs in a goroutine of its own, so the model has one *)
(* process per request, and one action per database statement: that is     *)
(* where two requests can interleave.  The database is PostgreSQL at its   *)
(* default level READ COMMITTED:                                           *)
(*   - a statement reads the last committed rows and its own writes;       *)
(*   - an UPDATE waits for the row's lock, evaluates its expression on the *)
(*     newest version of the row, and keeps the lock to the end;           *)
(*   - an INSERT of a key that another open transaction has inserted waits *)
(*     for that transaction, and fails if it commits;                      *)
(*   - a cycle of waits is broken by failing one of the transactions.      *)
(* The option "gorm:query_option" set at line 85 belongs to GORM v1; the   *)
(* v2 API of go.mod does not read it, so the SELECT there takes no lock.   *)
(***************************************************************************)
EXTENDS Integers, Sequences, FiniteSets, Functions

CONSTANTS
  Requests,     (* HTTP requests; an order is named by the request creating it *)
  Products,     (* product ids                                                 *)
  Voucher,      (* the voucher row whose code carts may carry                  *)
  None,         (* no request, no job, no product                              *)
  Work,         (* Work[r]: the jobs request r may turn out to carry           *)
  Statuses,     (* values of orders.status, "paid" and "cancelled" among them  *)
  OpeningStock, (* OpeningStock[p]: products.stock at the start                *)
  MinStock,     (* MinStock[p]: products.min_stock                             *)
  UsageLimit,   (* vouchers.usage_limit, 0 for none                            *)
  LastDay,      (* bound: the last calendar day reached                        *)
  Lag           (* 1 if the backend's local clock is UTC, 0 if it is Jakarta's *)

(* Nothing on the server looks at the sign of a quantity.                  *)
Line == [product : Products, qty : Int]

Jobs ==
  [kind : {"create"}, cart : Seq(Line), voucher : BOOLEAN, pays : BOOLEAN]
    \cup [kind : {"cancel", "delete"}, order : Requests]
    \cup [kind : {"update"}, order : Requests, status : Statuses \cup {""}]
    \cup [kind : {"adjust"}, product : Products, qty : Int \ {0}]
    \cup [kind : {"edit"}, product : Products, active : BOOLEAN]
    \cup [kind : {"drop"}, product : Products]
    \cup [kind : {"terms"}]

ASSUME RequestsFinite == IsFiniteSet(Requests)
ASSUME RowsDistinct ==
  /\ Requests \cap Products = {}
  /\ Voucher \notin Requests \cup Products
  /\ None \notin Requests \cup Products
ASSUME WorkAssumption ==
  /\ Work \in [Requests -> SUBSET Jobs]
  /\ \A r \in Requests : None \notin Work[r]
  /\ \A r \in Requests : \A j \in Work[r] : j.kind = "create" => j.cart # <<>>
ASSUME StatusAssumption == {"paid", "cancelled"} \subseteq Statuses
ASSUME StockAssumption ==
  /\ OpeningStock \in [Products -> Int]
  /\ MinStock \in [Products -> Int]
  /\ UsageLimit \in Nat
ASSUME ClockAssumption == LastDay \in Nat /\ Lag \in {0, 1}

(* The rows whose number a transaction updates: a product's stock, and the *)
(* voucher's used_count.                                                   *)
Counters == Products \cup {Voucher}
Rows     == Counters \cup Requests

VARIABLES
  (* committed rows *)
  stored,        (* stored[p]: products.stock; stored[Voucher]: used_count   *)
  active,        (* products.is_active                                       *)
  present,       (* the products whose row is there                          *)
  placed,        (* the requests whose order row is committed                *)
  status,        (* orders.status of a placed order                          *)
  notifications, (* "Stok Menipis" rows: [product, order]; product None      *)
                 (* for one that names no product                            *)
  (* open transactions *)
  lock,          (* lock[row]: the request whose transaction holds the row   *)
  draft,         (* draft[r][c]: r's uncommitted version of row c            *)
  (* the handler of each request *)
  pc, job,
  item,          (* index of the loops over the cart                         *)
  invoice,       (* invoice number put together by r: [day, seq]             *)
  made,          (* created_at of r's order, as a day                        *)
  warned,        (* the products r's transaction adds a notification for     *)
  seenStatus,    (* the order row CancelOrder or UpdateOrder has in memory   *)
  seenStock,     (* the stock in the product form an admin has open          *)
  (* the clock *)
  today,         (* the day in Asia/Jakarta, the database session's zone     *)
  lag,           (* today minus the day of the backend's own clock           *)
  (* book-keeping of the model, read by no guard *)
  books,         (* what deliveries, corrections and forms account for       *)
  restocked,     (* how often a cancellation has put order r back on stock   *)
  gone           (* the products ever deleted                                *)

dbVars    == <<stored, active, present, placed, status, notifications>>
txVars    == <<lock, draft>>
localVars == <<item, invoice, made, warned, seenStatus, seenStock>>
clockVars == <<today, lag>>
bookVars  == <<books, restocked, gone>>
vars == <<dbVars, txVars, pc, job, localVars, clockVars, bookVars>>

(* Where a handler stands: before the named statement.  Labels of Writing  *)
(* come after the INSERT of the order row.                                 *)
Writing   == {"stock", "voucher", "warn", "commit"}
Creating  == {"read", "price", "count", "stamp", "insert"} \cup Writing
Changing  == {"find", "restock", "mark", "commit_cancel", "save"}
Managing  == {"adjust", "open", "edit", "look", "drop", "terms"}
Ended     == {"done", "failed", "crashed"}
Labels    == {"idle", "announce"} \cup Creating \cup Changing \cup Managing \cup Ended

Running(r) == pc[r] \notin {"idle"} \cup Ended
Goto(r, l) == pc' = [pc EXCEPT ![r] = l]

-----------------------------------------------------------------------------
(* The database: row locks, versions and waits.                            *)

(* The counters as r sees them: its own versions over the committed rows.  *)
Merged(r) == [c \in Counters |-> IF lock[c] = r THEN draft[r][c] ELSE stored[c]]

(* The version of counter c an UPDATE by r evaluates its expression on.    *)
Newest(r, c) == Merged(r)[c]

Free(r, row) == lock[row] \in {None, r}

(* One UPDATE inside r's transaction.                                      *)
Write(r, c, value) ==
  /\ Free(r, c)
  /\ lock'  = [lock EXCEPT ![c] = r]
  /\ draft' = [draft EXCEPT ![r][c] = value]

(* An UPDATE of a product whose row has been deleted matches none, and     *)
(* that is no error.                                                       *)
UpdateProduct(r, p, value) ==
  IF p \in present THEN Write(r, p, value) ELSE UNCHANGED txVars

Blank == [c \in Counters |-> 0]

Release(r) ==
  /\ lock'  = [row \in Rows |-> IF lock[row] = r THEN None ELSE lock[row]]
  /\ draft' = [draft EXCEPT ![r] = Blank]

Rollback_Forgotten(r) ==
  /\ Goto(r, "failed")
  /\ UNCHANGED <<dbVars, txVars, job, localVars, clockVars, bookVars>>
Rollback(r) ==
  /\ Goto(r, "failed")
  /\ Release(r)
  /\ UNCHANGED <<dbVars, job, localVars, clockVars, bookVars>>

-----------------------------------------------------------------------------
(* What a cart becomes.                                                    *)

(* The quantity CreateOrder books for each line: lines 211-217 walk the    *)
(* cart to the first line of the same product and copy that line's         *)
(* quantity, so two lines of one product are booked with the first's.      *)
FirstLines(cart) ==
  {j \in DOMAIN cart : \A k \in 1 .. j - 1 : cart[k].product # cart[j].product}

Booked(cart) ==
  [i \in DOMAIN cart |->
     LET first == {j \in FirstLines(cart) : cart[j].product = cart[i].product}
     IN  IF first # {} THEN cart[CHOOSE j \in first : TRUE] ELSE cart[i]]

(* The order a handler works on, that order's item rows, and the products  *)
(* they name.                                                              *)
Target(r) == IF job[r].kind = "create" THEN r ELSE job[r].order
Items(o)  == Booked(job[o].cart)
Sold(o)   == {Items(o)[i].product : i \in DOMAIN Items(o)}

QtyOf(o, p) ==
  SumFunctionOnSet([i \in DOMAIN Items(o) |-> Items(o)[i].qty],
                   {i \in DOMAIN Items(o) : Items(o)[i].product = p})

(* Advance the loop over a cart; after the last item go on to label l.     *)
NextItem(r, l) ==
  IF item[r] < Len(job[Target(r)].cart)
  THEN /\ item' = [item EXCEPT ![r] = @ + 1]
       /\ UNCHANGED pc
  ELSE /\ item' = [item EXCEPT ![r] = 1]
       /\ Goto(r, l)

-----------------------------------------------------------------------------
(* Invoice numbers: INV-<day>-<seq>.                                       *)

LocalDay == today - lag

(* Committed orders whose created_at falls on day d.                       *)
MadeOn_SkipsCancelled(d) == {o \in placed : made[o] = d /\ status[o] # "cancelled"}
MadeOn(d) == {o \in placed : made[o] = d}

(* getOrderSequence.                                                       *)
NextSeq_NoIncrement(d) == Cardinality(MadeOn(d))
NextSeq_CountsOpen(d) ==
  Cardinality(MadeOn(d) \cup {o \in Requests : pc[o] \in Writing /\ made[o] = d}) + 1
NextSeq(d) == Cardinality(MadeOn(d)) + 1

Inserted(r) == pc[r] \in Writing

(* The unique index on orders.invoice_number.                              *)
InvoiceTaken(r) == \E o \in placed : invoice[o] = invoice[r]

InvoicePending(r, s) == s # r /\ Inserted(s) /\ invoice[s] = invoice[r]

-----------------------------------------------------------------------------
(* Requests arrive.                                                        *)

FirstLabel(kind) ==
  CASE kind = "create" -> "read"
    [] kind = "adjust" -> "adjust"
    [] kind = "edit"   -> "open"
    [] kind = "drop"   -> "look"
    [] kind = "terms"  -> "terms"
    [] OTHER           -> "find"

Start(r) ==
  /\ pc[r] = "idle"
  /\ \E j \in Work[r] :
       /\ job' = [job EXCEPT ![r] = j]
       /\ Goto(r, FirstLabel(j.kind))
  /\ UNCHANGED <<dbVars, txVars, localVars, clockVars, bookVars>>

-----------------------------------------------------------------------------
(* CreateOrder.                                                            *)

CartLine(r) == job[r].cart[item[r]]

Sellable(r) ==
  /\ CartLine(r).product \in present
  /\ active[CartLine(r).product]
  /\ stored[CartLine(r).product] >= CartLine(r).qty

(* Lines 83-96: one SELECT per cart line, checked against that line alone. *)
ReadProduct(r) ==
  /\ pc[r] = "read"
  /\ Sellable(r)
  /\ NextItem(r, "price")
  /\ UNCHANGED <<dbVars, txVars, job, invoice, made, warned, seenStatus, seenStock,
                 clockVars, bookVars>>

RefuseProduct(r) ==
  /\ pc[r] = "read"
  /\ ~ Sellable(r)
  /\ Rollback(r)

(* Discounts, voucher terms, tax and tender are worked out by module       *)
(* Pricing; here a job either pays or does not.  The voucher row is read   *)
(* outside the transaction.  The local date becomes part of the invoice    *)
(* number at the end of this step.                                         *)
VoucherOpen(r) ==
  job[r].voucher => UsageLimit = 0 \/ stored[Voucher] < UsageLimit

Price(r) ==
  /\ pc[r] = "price"
  /\ VoucherOpen(r) /\ job[r].pays
  /\ invoice' = [invoice EXCEPT ![r].day = LocalDay]
  /\ Goto(r, "count")
  /\ UNCHANGED <<dbVars, txVars, job, item, made, warned, seenStatus, seenStock,
                 clockVars, bookVars>>

RefusePrice(r) ==
  /\ pc[r] = "price"
  /\ ~ (VoucherOpen(r) /\ job[r].pays)
  /\ Rollback(r)

(* The count runs on a connection of its own, so it sees committed orders  *)
(* only; when the query fails the error is dropped and the count is 0.     *)
CountInvoice(r) ==
  /\ pc[r] = "count"
  /\ \E seq \in {NextSeq(invoice[r].day), 1} :
       invoice' = [invoice EXCEPT ![r].seq = seq]
  /\ Goto(r, "stamp")
  /\ UNCHANGED <<dbVars, txVars, job, item, made, warned, seenStatus, seenStock,
                 clockVars, bookVars>>

(* gorm fills CreatedAt when it builds the INSERT, before the server can   *)
(* make it wait.                                                           *)
StampOrder(r) ==
  /\ pc[r] = "stamp"
  /\ made' = [made EXCEPT ![r] = today]
  /\ Goto(r, "insert")
  /\ UNCHANGED <<dbVars, txVars, job, item, invoice, warned, seenStatus, seenStock,
                 clockVars, bookVars>>

InsertOrder(r) ==
  /\ pc[r] = "insert"
  /\ ~ InvoiceTaken(r)
  /\ \A s \in Requests : ~ InvoicePending(r, s)
  /\ Goto(r, "stock")
  /\ UNCHANGED <<dbVars, txVars, job, localVars, clockVars, bookVars>>

RefuseInvoice(r) ==
  /\ pc[r] = "insert"
  /\ InvoiceTaken(r)
  /\ Rollback(r)

(* Lines 225-231, one UPDATE per order item.                               *)
TakeStock_ValueRead(r) ==
  LET line == Items(r)[item[r]] IN
  /\ pc[r] = "stock"
  /\ UpdateProduct(r, line.product, stored[line.product] - line.qty)
  /\ NextItem(r, IF job[r].voucher THEN "voucher" ELSE "warn")
  /\ UNCHANGED <<dbVars, job, invoice, made, warned, seenStatus, seenStock,
                 clockVars, bookVars>>
TakeStock_OwnConnection(r) ==
  LET line == Items(r)[item[r]] IN
  /\ pc[r] = "stock"
  /\ Free(r, line.product)
  /\ stored' = [stored EXCEPT ![line.product] = @ - line.qty]
  /\ NextItem(r, IF job[r].voucher THEN "voucher" ELSE "warn")
  /\ UNCHANGED <<txVars, active, present, placed, status, notifications, job,
                 invoice, made, warned, seenStatus, seenStock, clockVars, bookVars>>
TakeStock(r) ==
  LET line == Items(r)[item[r]] IN
  /\ pc[r] = "stock"
  /\ UpdateProduct(r, line.product, Newest(r, line.product) - line.qty)
  /\ NextItem(r, IF job[r].voucher THEN "voucher" ELSE "warn")
  /\ UNCHANGED <<dbVars, job, invoice, made, warned, seenStatus, seenStock,
                 clockVars, bookVars>>

CountVoucher_OwnConnection(r) ==
  /\ pc[r] = "voucher"
  /\ Free(r, Voucher)
  /\ stored' = [stored EXCEPT ![Voucher] = @ + 1]
  /\ Goto(r, "warn")
  /\ UNCHANGED <<txVars, active, present, placed, status, notifications, job,
                 localVars, clockVars, bookVars>>
CountVoucher(r) ==
  /\ pc[r] = "voucher"
  /\ Write(r, Voucher, Newest(r, Voucher) + 1)
  /\ Goto(r, "warn")
  /\ UNCHANGED <<dbVars, job, localVars, clockVars, bookVars>>

(* Lines 241-253 read each item's product back inside the transaction and  *)
(* add a notification.  A product that is gone is read as a blank one with *)
(* no stock and no minimum, which is low.                                  *)
LowStock_BeforeUpdate(r, p) ==
  IF p \in present THEN {x \in {p} : stored[x] <= MinStock[x]} ELSE {None}
LowStock(r, p) ==
  IF p \in present THEN {x \in {p} : Newest(r, x) <= MinStock[x]} ELSE {None}

ReadBack(r) ==
  /\ pc[r] = "warn"
  /\ warned' = [warned EXCEPT ![r] = @ \cup LowStock(r, Items(r)[item[r]].product)]
  /\ NextItem(r, "commit")
  /\ UNCHANGED <<dbVars, txVars, job, invoice, made, seenStatus, seenStock,
                 clockVars, bookVars>>

(* The commit either answers, or takes effect and the answer is lost: then *)
(* CreateOrder returns an error and broadcasts nothing.                    *)
Commit(r) ==
  /\ pc[r] = "commit"
  /\ stored' = Merged(r)
  /\ placed' = placed \cup {r}
  /\ status' = [status EXCEPT ![r] = "paid"]
  /\ notifications' = notifications \cup [product : warned[r], order : {r}]
  /\ Release(r)
  /\ \E l \in {"announce", "failed"} : Goto(r, l)
  /\ UNCHANGED <<active, present, job, localVars, clockVars, bookVars>>

(* Lines 259-264: BroadcastOrder and one BroadcastStock per item, which    *)
(* never block and change no row; module Hub takes them from there.        *)
Announce(r) ==
  /\ pc[r] = "announce"
  /\ Goto(r, "done")
  /\ UNCHANGED <<dbVars, txVars, job, localVars, clockVars, bookVars>>

CreateOrder(r) ==
  \/ ReadProduct(r) \/ RefuseProduct(r)
  \/ Price(r) \/ RefusePrice(r)
  \/ CountInvoice(r) \/ StampOrder(r)
  \/ InsertOrder(r) \/ RefuseInvoice(r)
  \/ TakeStock(r) \/ CountVoucher(r) \/ ReadBack(r)
  \/ Commit(r) \/ Announce(r)

-----------------------------------------------------------------------------
(* CancelOrder, UpdateOrder, DeleteOrder: each begins with FindByID, read  *)
(* outside any transaction.                                                *)

Refusal(r) ==
  \/ Target(r) \notin placed
  \/ job[r].kind = "cancel" /\ status[Target(r)] = "cancelled"
  \* A paid order is refused by DeleteOrder; any other by the foreign key of
  \* its order items, which every order has.
  \/ job[r].kind = "delete"

FindOrder(r) ==
  /\ pc[r] = "find"
  /\ ~ Refusal(r)
  /\ seenStatus' = [seenStatus EXCEPT ![r] = status[Target(r)]]
  /\ Goto(r, IF job[r].kind = "cancel" THEN "restock" ELSE "save")
  /\ UNCHANGED <<dbVars, txVars, job, item, invoice, made, warned, seenStock,
                 clockVars, bookVars>>

RefuseOrder(r) ==
  /\ pc[r] = "find"
  /\ Refusal(r)
  /\ Rollback(r)

(* Lines 361-367.                                                          *)
ReturnStock(r) ==
  LET line == Items(Target(r))[item[r]] IN
  /\ pc[r] = "restock"
  /\ UpdateProduct(r, line.product, Newest(r, line.product) + line.qty)
  /\ NextItem(r, "mark")
  /\ UNCHANGED <<dbVars, job, invoice, made, warned, seenStatus, seenStock,
                 clockVars, bookVars>>

(* tx.Save(&order): the whole row as read at the start, status cancelled.  *)
MarkCancelled(r) ==
  /\ pc[r] = "mark"
  /\ Free(r, Target(r))
  /\ lock' = [lock EXCEPT ![Target(r)] = r]
  /\ Goto(r, "commit_cancel")
  /\ UNCHANGED <<dbVars, draft, job, localVars, clockVars, bookVars>>

CommitCancel(r) ==
  /\ pc[r] = "commit_cancel"
  /\ stored' = Merged(r)
  /\ status' = [status EXCEPT ![Target(r)] = "cancelled"]
  /\ restocked' = [restocked EXCEPT ![Target(r)] = @ + 1]
  /\ Release(r)
  /\ \E l \in {"done", "failed"} : Goto(r, l)
  /\ UNCHANGED <<active, present, placed, notifications, job, localVars, clockVars,
                 books, gone>>

(* UpdateOrder saves the row it has read, with the status given if any.    *)
SaveOrder(r) ==
  /\ pc[r] = "save"
  /\ Free(r, Target(r))
  /\ status' = [status EXCEPT ![Target(r)] =
                  IF job[r].status # "" THEN job[r].status ELSE seenStatus[r]]
  /\ Goto(r, "done")
  /\ UNCHANGED <<stored, active, present, placed, notifications, txVars, job,
                 localVars, clockVars, bookVars>>

ChangeOrder(r) ==
  \/ FindOrder(r) \/ RefuseOrder(r)
  \/ ReturnStock(r) \/ MarkCancelled(r) \/ CommitCancel(r)
  \/ SaveOrder(r)

-----------------------------------------------------------------------------
(* The product handlers, and the voucher form.                             *)

(* UpdateStock: `stock + ?`, a statement of its own.                       *)
AdjustStock(r) ==
  LET p     == job[r].product
      added == IF p \in present THEN job[r].qty ELSE 0
  IN
  /\ pc[r] = "adjust"
  /\ Free(r, p)
  /\ stored' = [stored EXCEPT ![p] = @ + added]
  /\ books'  = [books EXCEPT ![p] = @ + added]
  /\ Goto(r, "done")
  /\ UNCHANGED <<active, present, placed, status, notifications, txVars, job,
                 localVars, clockVars, restocked, gone>>

(* An admin opens the product form, which shows the stock of that moment.  *)
OpenForm(r) ==
  /\ pc[r] = "open"
  /\ job[r].product \in present
  /\ seenStock' = [seenStock EXCEPT ![r] = stored[job[r].product]]
  /\ Goto(r, "edit")
  /\ UNCHANGED <<dbVars, txVars, job, item, invoice, made, warned, seenStatus,
                 clockVars, bookVars>>

(* Update saves every column of the form, the stock shown in it included:  *)
(* what was sold meanwhile is written back onto the shelf.  Save inserts   *)
(* the row again when it has been deleted meanwhile.                       *)
SaveProduct(r) ==
  LET p == job[r].product IN
  /\ pc[r] = "edit"
  /\ Free(r, p)
  /\ stored' = [stored EXCEPT ![p] = seenStock[r]]
  /\ active' = [active EXCEPT ![p] = job[r].active]
  /\ present' = present \cup {p}
  /\ books'  = [books EXCEPT ![p] = @ + seenStock[r] - stored[p]]
  /\ Goto(r, "done")
  /\ UNCHANGED <<placed, status, notifications, txVars, job, localVars,
                 clockVars, restocked, gone>>

(* Delete: FindByID, then the DELETE.  Nothing refers to a product by a    *)
(* foreign key except its variants: orders keep items that name it.        *)
FindProduct(r) ==
  /\ pc[r] = "look"
  /\ job[r].product \in present
  /\ Goto(r, "drop")
  /\ UNCHANGED <<dbVars, txVars, job, localVars, clockVars, bookVars>>

DropProduct(r) ==
  LET p == job[r].product IN
  /\ pc[r] = "drop"
  /\ Free(r, p)
  /\ present' = present \ {p}
  /\ gone' = gone \cup {p}
  /\ Goto(r, "done")
  /\ UNCHANGED <<stored, active, placed, status, notifications, txVars, job,
                 localVars, clockVars, books, restocked>>

RefuseProductForm(r) ==
  /\ pc[r] \in {"open", "look"}
  /\ job[r].product \notin present
  /\ Rollback(r)

(* The voucher form sends the terms without used_count, and Save writes    *)
(* every column: the uses are counted from 0 again.                        *)
SaveVoucher(r) ==
  /\ pc[r] = "terms"
  /\ Free(r, Voucher)
  /\ stored' = [stored EXCEPT ![Voucher] = 0]
  /\ books'  = [books EXCEPT ![Voucher] = @ - stored[Voucher]]
  /\ Goto(r, "done")
  /\ UNCHANGED <<active, present, placed, status, notifications, txVars, job,
                 localVars, clockVars, restocked, gone>>

Manage(r) ==
  \/ AdjustStock(r) \/ OpenForm(r) \/ SaveProduct(r)
  \/ FindProduct(r) \/ DropProduct(r) \/ RefuseProductForm(r)
  \/ SaveVoucher(r)

-----------------------------------------------------------------------------
(* Failures.                                                               *)

(* The row r's next statement updates.                                     *)
Wanted(r) ==
  CASE pc[r] \in {"stock", "restock"} -> {Items(Target(r))[item[r]].product}
    [] pc[r] \in {"voucher", "terms"} -> {Voucher}
    [] pc[r] \in {"mark", "save"}     -> {Target(r)}
    [] pc[r] \in {"adjust", "edit", "drop"} -> {job[r].product}
    [] OTHER                          -> {}

WaitsFor(r, s) ==
  \/ s # r /\ \E row \in Wanted(r) : lock[row] = s
  \/ pc[r] = "insert" /\ ~ InvoiceTaken(r) /\ InvoicePending(r, s)

(* A set of requests, each waiting for one of the set and waited for by    *)
(* one of the set.  A request waits for one other at most.                 *)
WaitCycle(S) ==
  \A r \in S : /\ \E s \in S : WaitsFor(r, s)
               /\ \E s \in S : WaitsFor(s, r)

(* The server's deadlock detector fails one transaction of the cycle.      *)
DeadlockVictim(r) ==
  /\ \E S \in SUBSET Requests : r \in S /\ WaitCycle(S)
  /\ Rollback(r)

(* A statement returns an error: the handler rolls back and answers with   *)
(* it.  Errors of CountInvoice are dropped and those of the announcement   *)
(* cannot happen.                                                          *)
StatementFails(r) ==
  /\ Running(r)
  /\ pc[r] \notin {"count", "stamp", "announce"}
  /\ Rollback(r)

(* The backend process dies: its goroutines are gone and the server rolls  *)
(* their transactions back.                                                *)
Crash ==
  /\ \E r \in Requests : Running(r)
  /\ pc' = [r \in Requests |-> IF Running(r) THEN "crashed" ELSE pc[r]]
  /\ lock'  = [row \in Rows |-> None]
  /\ draft' = [r \in Requests |-> Blank]
  /\ UNCHANGED <<dbVars, job, localVars, clockVars, bookVars>>

-----------------------------------------------------------------------------
(* The clock.  At midnight in Jakarta a backend running in UTC is still on *)
(* the day before, and catches up seven hours later.                       *)

Midnight ==
  /\ lag = 0
  /\ today < LastDay
  /\ today' = today + 1
  /\ lag' = Lag
  /\ UNCHANGED <<dbVars, txVars, pc, job, localVars, bookVars>>

LocalMidnight ==
  /\ lag = 1
  /\ lag' = 0
  /\ UNCHANGED <<dbVars, txVars, pc, job, localVars, today, bookVars>>

-----------------------------------------------------------------------------
Init ==
  /\ stored = [c \in Counters |-> IF c = Voucher THEN 0 ELSE OpeningStock[c]]
  /\ active = [p \in Products |-> TRUE]
  /\ present = Products
  /\ placed = {}
  /\ status = [r \in Requests |-> "paid"]
  /\ notifications = {}
  /\ lock  = [row \in Rows |-> None]
  /\ draft = [r \in Requests |-> Blank]
  /\ pc  = [r \in Requests |-> "idle"]
  /\ job = [r \in Requests |-> None]
  /\ item    = [r \in Requests |-> 1]
  /\ invoice = [r \in Requests |-> [day |-> 0, seq |-> 1]]
  /\ made    = [r \in Requests |-> 0]
  /\ warned  = [r \in Requests |-> {}]
  /\ seenStatus = [r \in Requests |-> "paid"]
  /\ seenStock  = [r \in Requests |-> 0]
  /\ today = 0 /\ lag = 0
  /\ books = stored
  /\ restocked = [r \in Requests |-> 0]
  /\ gone = {}

Handler(r) == CreateOrder(r) \/ ChangeOrder(r) \/ Manage(r)

Environment ==
  \/ Midnight \/ LocalMidnight \/ Crash
  \/ \E r \in Requests : Start(r) \/ StatementFails(r) \/ DeadlockVictim(r)

(* Nothing is left to do: every request has ended.                         *)
Idle ==
  /\ \A r \in Requests : pc[r] \in Ended
  /\ UNCHANGED vars

Next == Environment \/ Idle \/ \E r \in Requests : Handler(r)

(* A goroutine that can go on does, and the database answers: each handler *)
(* is weakly fair, and so is the deadlock detector.  Requests, crashes,    *)
(* failing statements and the clock are not.                               *)
Fairness ==
  \A r \in Requests : WF_vars(Handler(r)) /\ WF_vars(DeadlockVictim(r))

Safety == Init /\ [][Next]_vars
Spec   == Safety /\ Fairness

-----------------------------------------------------------------------------
(* Properties.                                                             *)

AllWork == UNION {Work[r] : r \in Requests}

TypeOK ==
  /\ stored \in [Counters -> Int]
  /\ active \in [Products -> BOOLEAN]
  /\ present \subseteq Products
  /\ placed \subseteq Requests
  /\ status \in [Requests -> Statuses]
  /\ notifications \subseteq [product : Products \cup {None}, order : Requests]
  /\ lock \in [Rows -> Requests \cup {None}]
  /\ draft \in [Requests -> [Counters -> Int]]
  /\ pc \in [Requests -> Labels]
  /\ job \in [Requests -> AllWork \cup {None}]
  /\ item \in [Requests -> Nat \ {0}]
  /\ invoice \in [Requests -> [day : Int, seq : Nat \ {0}]]
  /\ made \in [Requests -> Int]
  /\ warned \in [Requests -> SUBSET (Products \cup {None})]
  /\ seenStatus \in [Requests -> Statuses]
  /\ seenStock \in [Requests -> Int]
  /\ today \in Nat /\ lag \in {0, 1}
  /\ books \in [Counters -> Int]
  /\ restocked \in [Requests -> Nat]
  /\ gone \subseteq Products

(* No sale and no cancellation is lost or applied twice over: the stock of *)
(* a product that stays is what deliveries and edits account for, less the *)
(* items of every committed order, plus the items each cancellation put    *)
(* back, whatever becomes of the other products of those orders.           *)
StockLedger ==
  \A p \in Products \ gone :
    stored[p] = books[p] - SumFunction([o \in placed |-> QtyOf(o, p) * (1 - restocked[o])])

(* used_count counts the committed orders that carry the voucher: it never *)
(* loses an increment to a concurrent order, only to the voucher form.     *)
VoucherOrders == {o \in placed : job[o].voucher}
VoucherLedger == stored[Voucher] = books[Voucher] + Cardinality(VoucherOrders)

(* Number uniqueness lives in the index; this says the numbering does not  *)
(* jam: the number the next CreateOrder will count is one that no          *)
(* committed order holds, as long as both clocks show the same date.       *)
NumberFree ==
  \A o \in placed : invoice[o] # [day |-> LocalDay, seq |-> NextSeq(LocalDay)]

NextInvoiceFree == lag = 0 => NumberFree

(* Days whose orders were all stamped on the day their number names.       *)
Clean(d) == \A o \in placed : invoice[o].day = d <=> made[o] = d

(* On such a day the committed invoice numbers run 1, 2, ... without a gap *)
(* or repetition, whatever has failed, crashed or been cancelled.          *)
InvoicesDense ==
  \A d \in 0 .. today :
    Clean(d) => {invoice[o].seq : o \in {x \in placed : invoice[x].day = d}}
                  = 1 .. Cardinality(MadeOn(d))

(* The wait on the invoice index lets only one order of a clean day update *)
(* stock at a time, though no product row is locked when it is read.       *)
OneSaleAtATime ==
  \A r, s \in Requests :
    (/\ Inserted(r) /\ Inserted(s)
     /\ invoice[r].day = invoice[s].day
     /\ Clean(invoice[r].day)) => r = s

(* An order that leaves a product at or below its minimum commits together *)
(* with a low-stock notification for it, whatever other orders, deliveries *)
(* and deletions happen between its statements.                            *)
LowStockNotified ==
  [][\A o \in placed' \ placed : \A p \in Sold(o) \ gone :
       stored'[p] <= MinStock[p] => [product |-> p, order |-> o] \in notifications']_vars

(* Every request comes to an end, whoever else is running, failing or      *)
(* waiting: no lock is left behind and no cycle of waits persists.         *)
EveryRequestEnds == \A r \in Requests : Running(r) ~> pc[r] \in Ended

(* The order service implements the shop's ledger: whatever interleaving,  *)
(* failure or crash, a sale or a cancellation happens as a whole or not.   *)
(* A product that was ever deleted is off the shelf and out of the ledger. *)
LedgerStock == [x \in Products \ gone |-> stored[x]]
LedgerAlerts == {n \in notifications : n.product \in Products \ gone}
LedgerUsed  == stored[Voucher]
LedgerBook  == [o \in placed |-> [number  |-> invoice[o], items |-> Items(o),
                                  voucher |-> job[o].voucher]]
LedgerState == [o \in placed |-> status[o]]

Ledger ==
  INSTANCE OrderLedger WITH
    Orders <- Requests, stock <- LedgerStock, used <- LedgerUsed,
    book <- LedgerBook, state <- LedgerState, alerts <- LedgerAlerts

ImplementsLedger == Ledger!Spec

(* What the code's own messages promise.                                   *)

(* "stok %s tidak mencukupi": an order is refused when stock is short.     *)
NeverOversold == \A p \in Products : stored[p] >= 0

(* "order sudah dibatalkan": an order already cancelled is not cancelled.  *)
RestockedOnce == \A o \in Requests : restocked[o] <= 1

(* The DSN pins the session to Asia/Jakarta so that dates agree: then the  *)
(* number counted would be free at any hour, not only after lag is over.   *)
NeverJammed == NumberFree

=============================================================================
