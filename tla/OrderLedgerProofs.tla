-------------------------- MODULE OrderLedgerProofs --------------------------
(***************************************************************************)
(* Theorems about the stock of OrderTx, for any number of requests and     *)
(* products and any carts: what is on the shelf is what the committed      *)
(* orders and cancellations make it, and every step of the order service   *)
(* is a step of the shop's ledger.                                         *)
(*                                                                         *)
(* The ledger is not inductive by itself.  What carries it is what a       *)
(* transaction knows of a product it has updated: its version of the row   *)
(* is the committed stock, which nobody can change meanwhile, moved by     *)
(* exactly the lines it has handled so far.                                *)
(***************************************************************************)
EXTENDS OrderStockProofs, SumProofs

Qtys(o) == [i \in DOMAIN Items(o) |-> Items(o)[i].qty]

(* The lines of its order that r's transaction has taken from stock or put *)
(* back, and those of them that name p.                                    *)
Moved(r) ==
  IF pc[r] \in {"stock", "restock"} THEN 1 .. item[r] - 1
  ELSE IF pc[r] \in {"voucher", "warn", "commit", "mark", "commit_cancel"}
       THEN DOMAIN Items(Target(r)) ELSE {}

MovedOf(r, p) == {i \in Moved(r) : Items(Target(r))[i].product = p}

Change(r, p) ==
  IF job[r].kind = "create" THEN - SumFunctionOnSet(Qtys(Target(r)), MovedOf(r, p))
  ELSE SumFunctionOnSet(Qtys(Target(r)), MovedOf(r, p))

DraftOK(r) ==
  \A p \in Products \ gone :
    /\ lock[p] = r <=> MovedOf(r, p) # {}
    /\ lock[p] = r => draft[r][p] = stored[p] + Change(r, p)

LedgerInv ==
  /\ StockLedger
  /\ \A r \in Requests : DraftOK(r)
  /\ \A r \in Requests \ placed : restocked[r] = 0

-----------------------------------------------------------------------------
(* Sums over the lines of an order.                                        *)

LEMMA LineSums ==
  ASSUME NEW o, job[o].cart \in Seq(Line), NEW S \in SUBSET (1 .. Len(job[o].cart))
  PROVE  /\ DOMAIN Items(o) = 1 .. Len(job[o].cart) /\ IsFiniteSet(S)
         /\ \A i \in S : Qtys(o)[i] \in Int /\ Qtys(o)[i] = Items(o)[i].qty
         /\ SumFunctionOnSet(Qtys(o), S) \in Int
<1>1. /\ DOMAIN Items(o) = 1 .. Len(job[o].cart)
      /\ \A i \in 1 .. Len(job[o].cart) : Items(o)[i] \in Line
  BY BookedLines DEF Items
<1>2. IsFiniteSet(S)
  <2>1. Len(job[o].cart) \in Nat
    OBVIOUS
  <2>2. IsFiniteSet(1 .. Len(job[o].cart))
    BY <2>1, FS_Interval
  <2>3. QED
    BY <2>2, FS_Subset
<1>3. \A i \in S : Qtys(o)[i] \in Int /\ Qtys(o)[i] = Items(o)[i].qty
  BY <1>1 DEF Qtys, Line
<1>4. QED
  BY <1>1, <1>2, <1>3, SumInt

(* An order in the table, or one whose handler has begun to write it.      *)
LEMMA OrderCart ==
  ASSUME TypeInv, NEW o \in Requests, o \in placed \/ pc[o] \in Creating
  PROVE  pc[o] # "idle" /\ job[o] \in Work[o] /\ job[o].cart \in Seq(Line)
<1>1. pc[o] # "idle" /\ job[o].kind = "create" /\ job[o] \in Work[o]
  BY DEF TypeInv, HandlerOK, Creating, Writing, Ended
<1>2. QED
  BY <1>1, JobFields

(* How many pieces of p an order books.                                    *)
LEMMA QtyFacts ==
  ASSUME TypeInv, NEW o \in Requests, o \in placed \/ pc[o] \in Creating, NEW p
  PROVE  QtyOf(o, p) \in Int
<1> DEFINE S == {i \in DOMAIN Items(o) : Items(o)[i].product = p}
<1>1. job[o].cart \in Seq(Line)
  BY OrderCart
<1>2. DOMAIN Items(o) = 1 .. Len(job[o].cart)
  BY <1>1, BookedLines DEF Items
<1>3. QtyOf(o, p) = SumFunctionOnSet(Qtys(o), S)
  BY DEF QtyOf, Qtys
<1>4. S \in SUBSET (1 .. Len(job[o].cart))
  BY <1>2
<1>5. QED
  <2> HIDE DEF S
  <2>1. QED
    BY <1>1, <1>3, <1>4, LineSums

Handling == {"stock", "restock", "voucher", "warn", "commit", "mark", "commit_cancel"}

(* The order a transaction moves stock for.                                *)
LEMMA TargetOrder ==
  ASSUME TypeInv, NEW r \in Requests, pc[r] \in Handling
  PROVE  /\ Target(r) \in Requests /\ pc[Target(r)] # "idle"
         /\ job[Target(r)].cart \in Seq(Line)
         /\ Target(r) \in placed \/ pc[Target(r)] \in Creating
         /\ Moved(r) \subseteq 1 .. Len(job[Target(r)].cart)
         /\ pc[r] \in Writing <=> job[r].kind = "create"
         /\ pc[r] \in Writing => Target(r) = r /\ r \notin placed
         /\ pc[r] \notin Writing => Target(r) \in placed
<1>1. pc[r] \in Creating \cup (Changing \ {"find"})
  BY DEF Handling, Creating, Changing, Writing
<1>2. /\ Target(r) \in Requests /\ job[Target(r)].cart \in Seq(Line)
      /\ Len(job[Target(r)].cart) \in Nat
  BY <1>1, TargetCart
<1>3. /\ pc[r] \in Writing <=> job[r].kind = "create"
      /\ pc[r] \in Writing => Target(r) = r /\ r \notin placed
      /\ pc[r] \notin Writing => Target(r) \in placed
      /\ Target(r) \in placed \/ pc[Target(r)] \in Creating
  BY <1>1, <1>2 DEF Handling, TypeInv, HandlerOK, Target, Creating, Changing, Writing, Ended
<1>4. pc[Target(r)] # "idle"
  BY <1>2, <1>3 DEF TypeInv, HandlerOK, Creating, Writing, Ended
<1>5. Moved(r) \subseteq 1 .. Len(job[Target(r)].cart)
  <2>1. CASE pc[r] \in {"stock", "restock"}
    <3>1. item[r] \in 1 .. Len(job[Target(r)].cart)
      BY <2>1 DEF TypeInv, HandlerOK, Target, Creating, Changing, Writing
    <3>2. Moved(r) = 1 .. item[r] - 1
      BY <2>1 DEF Moved
    <3>3. QED
      BY <1>2, <3>1, <3>2
  <2>2. CASE pc[r] \notin {"stock", "restock"}
    <3>1. Moved(r) = DOMAIN Items(Target(r))
      BY <2>2 DEF Moved, Handling
    <3>2. QED
      BY <1>2, <3>1, BookedLines DEF Items
  <2>3. QED
    BY <2>1, <2>2
<1>6. QED
  BY <1>2, <1>3, <1>4, <1>5

LEMMA ChangeFacts ==
  ASSUME TypeInv, NEW r \in Requests, pc[r] \in Handling, NEW p
  PROVE  /\ Change(r, p) \in Int
         /\ MovedOf(r, p) = {} => Change(r, p) = 0
<1>1. job[Target(r)].cart \in Seq(Line) /\ Moved(r) \subseteq 1 .. Len(job[Target(r)].cart)
  BY TargetOrder
<1>2. MovedOf(r, p) \in SUBSET (1 .. Len(job[Target(r)].cart))
  BY <1>1 DEF MovedOf
<1>3. SumFunctionOnSet(Qtys(Target(r)), MovedOf(r, p)) \in Int
  BY <1>1, <1>2, LineSums
<1>4. MovedOf(r, p) = {} => SumFunctionOnSet(Qtys(Target(r)), MovedOf(r, p)) = 0
  BY SumEmpty
<1>5. QED
  BY <1>3, <1>4 DEF Change

LEMMA NothingMoved ==
  ASSUME NEW r \in Requests, pc[r] \notin Handling
  PROVE  Moved(r) = {} /\ \A p : MovedOf(r, p) = {}
  BY DEF Moved, MovedOf, Handling

LEMMA ProductTypes ==
  ASSUME TypeInv, NEW p \in Products
  PROVE  /\ p \in Counters /\ p \in Rows /\ p # Voucher /\ p \notin Requests
         /\ stored[p] \in Int /\ books[p] \in Int
         /\ \A r \in Requests : draft[r][p] \in Int
  BY RowsDistinct DEF TypeInv, TypeOK, Counters, Rows

-----------------------------------------------------------------------------
(* A step of s leaves what the others have moved as it is.                 *)

JobsStay == \A o \in Requests : pc[o] # "idle" => job'[o] = job[o]

LEMMA SameLines ==
  ASSUME NEW o, job'[o] = job[o]
  PROVE  /\ Items(o)' = Items(o) /\ Qtys(o)' = Qtys(o) /\ Sold(o)' = Sold(o)
         /\ \A p : QtyOf(o, p)' = QtyOf(o, p)
  BY DEF Items, Qtys, Sold, QtyOf

LEMMA JobsStayed ==
  ASSUME TypeInv, [Next]_vars
  PROVE  JobsStay
<1>1. ASSUME NEW r \in Requests, Start(r)
      PROVE  JobsStay
  BY <1>1 DEF Start, JobsStay, TypeInv, TypeOK
<1>2. CASE ~ \E r \in Requests : Start(r)
  <2>1. job' = job
    BY <1>2 DEF Next, Environment, Idle, vars, Midnight, LocalMidnight, Crash, Handler,
       CreateOrder, ChangeOrder, Manage, StatementFails, DeadlockVictim, Rollback,
       ReadProduct, RefuseProduct, Price, RefusePrice, CountInvoice, StampOrder, InsertOrder,
       RefuseInvoice, TakeStock, CountVoucher, ReadBack, Commit, Announce, FindOrder,
       RefuseOrder, ReturnStock, MarkCancelled, CommitCancel, SaveOrder, AdjustStock,
       OpenForm, SaveProduct, FindProduct, DropProduct, RefuseProductForm, SaveVoucher
  <2>2. QED
    BY <2>1 DEF JobsStay
<1>3. QED
  BY <1>1, <1>2

LEMMA GoneStays ==
  ASSUME [Next]_vars
  PROVE  gone \subseteq gone'
  BY DEF Next, Environment, Idle, vars, Midnight, LocalMidnight, Crash, Handler,
     CreateOrder, ChangeOrder, Manage, Start, StatementFails, DeadlockVictim, Rollback,
     ReadProduct, RefuseProduct, Price, RefusePrice, CountInvoice, StampOrder, InsertOrder,
     RefuseInvoice, TakeStock, CountVoucher, ReadBack, Commit, Announce, FindOrder,
     RefuseOrder, ReturnStock, MarkCancelled, CommitCancel, SaveOrder, AdjustStock,
     OpenForm, SaveProduct, FindProduct, DropProduct, RefuseProductForm, SaveVoucher, bookVars

LEMMA DraftOthers ==
  ASSUME TypeInv, LedgerInv, NEW s \in Requests, Alone(s), JobsStay, gone \subseteq gone',
         \A p \in Products : stored'[p] # stored[p] => lock[p] \in {None, s}
  PROVE  \A r \in Requests \ {s} : DraftOK(r)'
<1> SUFFICES ASSUME NEW r \in Requests \ {s} PROVE DraftOK(r)'
  OBVIOUS
<1>1. /\ pc'[r] = pc[r] /\ item'[r] = item[r] /\ job'[r] = job[r] /\ draft'[r] = draft[r]
      /\ \A p \in Products : lock'[p] = r <=> lock[p] = r
  BY DEF Alone, Counters
<1>2. DraftOK(r) /\ \A p \in Products : lock[p] = r => stored'[p] = stored[p]
  BY RowsDistinct DEF LedgerInv
<1>3. CASE pc[r] \in Handling
  <2>1. Target(r)' = Target(r)
    BY <1>1 DEF Target
  <2>2. Items(Target(r))' = Items(Target(r)) /\ Qtys(Target(r))' = Qtys(Target(r))
    <3>1. job'[Target(r)] = job[Target(r)]
      BY <1>3, TargetOrder DEF JobsStay
    <3>2. QED
      BY <2>1, <3>1 DEF Items, Qtys
  <2>3. Moved(r)' = Moved(r)
    BY <1>1, <2>2 DEF Moved
  <2>4. \A p : MovedOf(r, p)' = MovedOf(r, p) /\ Change(r, p)' = Change(r, p)
    BY <1>1, <2>2, <2>3 DEF MovedOf, Change
  <2>5. QED
    BY <1>1, <1>2, <2>4 DEF DraftOK
<1>4. CASE pc[r] \notin Handling
  <2>1. \A p : MovedOf(r, p) = {} /\ MovedOf(r, p)' = {}
    BY <1>1, <1>4, NothingMoved DEF MovedOf, Moved, Handling
  <2>2. \A p \in Products \ gone' : lock'[p] # r
    BY <1>1, <1>2, <2>1 DEF DraftOK
  <2>3. QED
    BY <2>1, <2>2 DEF DraftOK
<1>5. QED
  BY <1>3, <1>4

(* A step after which s has moved nothing.                                 *)
LEMMA DraftEmpty ==
  ASSUME NEW s \in Requests, pc'[s] \notin Handling \/ Moved(s)' = {},
         \A p \in Products \ gone' : lock'[p] # s
  PROVE  DraftOK(s)'
<1>1. \A p : MovedOf(s, p)' = {}
  BY DEF MovedOf, Moved, Handling
<1>2. QED
  BY <1>1 DEF DraftOK

LEMMA NoLock ==
  ASSUME LedgerInv, NEW s \in Requests, pc[s] \notin Handling \/ Moved(s) = {}
  PROVE  \A p \in Products \ gone : lock[p] # s
<1>1. \A p : MovedOf(s, p) = {}
  BY NothingMoved DEF MovedOf
<1>2. QED
  BY <1>1 DEF LedgerInv, DraftOK

-----------------------------------------------------------------------------
(* What the steps of s do to its own version of the rows.                  *)

(* One more line is taken from stock or put back.  The version the UPDATE  *)
(* reads is the one the transaction has left, whatever line that was.      *)
LEMMA LineMoved ==
  ASSUME TypeInv, StockInv, LedgerInv, NEW s \in Requests, TakeStock(s) \/ ReturnStock(s)
  PROVE  DraftOK(s)'
<1> DEFINE o == Target(s)
           n == item[s]
           line == Items(o)[n]
           moved == IF job[s].kind = "create" THEN - line.qty ELSE line.qty
<1>1. /\ pc[s] \in {"stock", "restock"} /\ pc[s] \in Handling
      /\ pc[s] = "stock" <=> TakeStock(s)
      /\ UNCHANGED <<stored, present, gone, job>>
  BY DEF TakeStock, ReturnStock, Handling, dbVars, bookVars
<1>2. /\ o \in Requests /\ job[o].cart \in Seq(Line) /\ Len(job[o].cart) \in Nat
      /\ pc[s] = "stock" <=> job[s].kind = "create"
      /\ pc[s] = "stock" => o = s
      /\ Moved(s) \subseteq 1 .. Len(job[o].cart)
  BY <1>1, TargetOrder DEF Writing
<1>3. n \in 1 .. Len(job[o].cart) /\ line \in Line /\ DOMAIN Items(o) = 1 .. Len(job[o].cart)
  <2>1. n \in 1 .. Len(job[o].cart)
    BY <1>1 DEF TypeInv, HandlerOK, Target, Creating, Changing, Writing
  <2>2. QED
    BY <1>1, <1>2, <2>1, ItemRow, BookedLines DEF Items
<1>4. line.product \in Products /\ line.qty \in Int /\ moved \in Int
  BY <1>3 DEF Line
<1>5. UpdateProduct(s, line.product, Newest(s, line.product) + moved)
  <2>1. CASE TakeStock(s)
    <3>1. Newest(s, line.product) - line.qty = Newest(s, line.product) + moved
      <4>1. Newest(s, line.product) \in Int
        BY <1>4, TypeMerged DEF Newest, Counters
      <4>2. QED
        BY <1>1, <1>2, <1>4, <2>1, <4>1
    <3>2. QED
      BY <1>1, <1>2, <2>1, <3>1 DEF TakeStock
  <2>2. CASE ReturnStock(s)
    <3>1. pc[s] = "restock"
      BY <2>2 DEF ReturnStock
    <3>2. QED
      BY <1>2, <2>2, <3>1 DEF ReturnStock
  <2>3. QED
    BY <2>1, <2>2
<1>6. /\ Target(s)' = o /\ Items(o)' = Items(o) /\ Qtys(o)' = Qtys(o)
  BY <1>1, SameLines DEF Target
<1>7. Moved(s)' = Moved(s) \cup {n} /\ Moved(s) = 1 .. n - 1 /\ n \in Nat
  <2>1. Moved(s) = 1 .. n - 1
    BY <1>1 DEF Moved
  <2>2. PICK l \in {"voucher", "warn", "mark"} : NextItem(s, l)
    BY DEF TakeStock, ReturnStock
  <2>3. CASE n < Len(job[o].cart)
    <3>1. pc'[s] = pc[s] /\ item'[s] = n + 1
      BY <2>2, <2>3 DEF NextItem, TypeInv, TypeOK
    <3>2. Moved(s)' = 1 .. (n + 1) - 1
      BY <1>1, <3>1 DEF Moved
    <3>3. QED
      BY <1>2, <1>3, <2>1, <3>2
  <2>4. CASE ~ (n < Len(job[o].cart))
    <3>1. pc'[s] = l /\ n = Len(job[o].cart)
      BY <1>2, <1>3, <2>2, <2>4 DEF NextItem, Goto, TypeInv, TypeOK
    <3>2. Moved(s)' = 1 .. n
      BY <1>3, <1>6, <3>1 DEF Moved
    <3>3. QED
      BY <1>2, <1>3, <2>1, <3>2
  <2>5. QED
    BY <2>3, <2>4
<1>8. ASSUME NEW p \in Products \ gone
      PROVE  /\ lock'[p] = s <=> MovedOf(s, p)' # {}
             /\ lock'[p] = s => draft'[s][p] = stored[p] + Change(s, p)'
  <2>1. p \in present
    BY <1>8 DEF StockInv
  <2>2. /\ p \in Counters /\ p \in Rows /\ stored[p] \in Int
        /\ lock[p] = s <=> MovedOf(s, p) # {}
        /\ lock[p] = s => draft[s][p] = stored[p] + Change(s, p)
        /\ Change(s, p) \in Int /\ (MovedOf(s, p) = {} => Change(s, p) = 0)
    BY <1>1, ProductTypes, ChangeFacts DEF LedgerInv, DraftOK
  <2>3. CASE line.product # p
    <3>1. MovedOf(s, p)' = MovedOf(s, p)
      BY <1>6, <1>7, <2>3 DEF MovedOf
    <3>2. Change(s, p)' = Change(s, p)
      BY <1>1, <1>6, <3>1 DEF Change
    <3>3. (lock'[p] = s <=> lock[p] = s) /\ draft'[s][p] = draft[s][p]
      <4>1. line.product \in Rows /\ line.product \in Counters
        BY <1>4, ProductTypes
      <4>2. CASE line.product \in present
        BY <1>5, <2>2, <2>3, <4>1, <4>2 DEF UpdateProduct, Write, TypeInv, TypeOK
      <4>3. CASE line.product \notin present
        BY <1>5, <4>3 DEF UpdateProduct, txVars
      <4>4. QED
        BY <4>2, <4>3
    <3>4. QED
      BY <2>2, <3>1, <3>2, <3>3
  <2>4. CASE line.product = p
    <3>1. lock'[p] = s /\ draft'[s][p] = Newest(s, p) + moved
      BY <1>5, <2>1, <2>2, <2>4 DEF UpdateProduct, Write, TypeInv, TypeOK
    <3>2. Newest(s, p) = stored[p] + Change(s, p)
      BY <2>2 DEF Newest, Merged
    <3>3. MovedOf(s, p)' = MovedOf(s, p) \cup {n} /\ n \notin MovedOf(s, p)
      BY <1>6, <1>7, <2>4 DEF MovedOf
    <3>4. Change(s, p)' = Change(s, p) + moved
      <4> DEFINE q == Qtys(o)
                 S == MovedOf(s, p)
      <4>1. S \in SUBSET (1 .. Len(job[o].cart)) /\ S \cup {n} \in SUBSET (1 .. Len(job[o].cart))
        BY <1>2, <1>3 DEF MovedOf
      <4>2. IsFiniteSet(S) /\ SumFunctionOnSet(q, S) \in Int
        BY <1>2, <4>1, LineSums
      <4>3. (\A i \in S \cup {n} : q[i] \in Int) /\ q[n] = line.qty
        BY <1>2, <4>1, LineSums
      <4>4. SumFunctionOnSet(q, S \cup {n}) = line.qty + SumFunctionOnSet(q, S)
        <5> HIDE DEF S, q
        <5>1. \A i \in S \cup {n} : q[i] \in Int
          BY <4>3
        <5>2. n \notin S
          BY <3>3 DEF S
        <5>3. QED
          BY <4>2, <4>3, <5>1, <5>2, SumAdd
      <4>5. /\ Change(s, p) = IF job[s].kind = "create" THEN - SumFunctionOnSet(q, S)
                              ELSE SumFunctionOnSet(q, S)
            /\ Change(s, p)' = IF job[s].kind = "create" THEN - SumFunctionOnSet(q, S \cup {n})
                               ELSE SumFunctionOnSet(q, S \cup {n})
        BY <1>1, <1>6, <3>3 DEF Change
      <4>6. QED
        BY <1>4, <4>2, <4>4, <4>5
    <3>5. QED
      BY <1>4, <2>2, <3>1, <3>2, <3>3, <3>4
  <2>5. QED
    BY <2>3, <2>4
<1>9. QED
  BY <1>1, <1>8 DEF DraftOK

(* Between its last line and its commit a transaction moves nothing more.  *)
LEMMA AllMoved ==
  ASSUME TypeInv, LedgerInv, NEW s \in Requests,
         CountVoucher(s) \/ ReadBack(s) \/ MarkCancelled(s)
  PROVE  DraftOK(s)'
<1>1. /\ pc[s] \in {"voucher", "warn", "mark"} /\ pc[s] \in Handling
      /\ UNCHANGED <<stored, gone, job>>
  BY DEF CountVoucher, ReadBack, MarkCancelled, Handling, dbVars, bookVars
<1>2. pc'[s] \in {"warn", "commit", "commit_cancel"}
  BY DEF CountVoucher, ReadBack, MarkCancelled, NextItem, Goto, TypeInv, TypeOK
<1>3. \A p \in Products : lock'[p] = lock[p] /\ draft'[s][p] = draft[s][p]
  <2> SUFFICES ASSUME NEW p \in Products
               PROVE  lock'[p] = lock[p] /\ draft'[s][p] = draft[s][p]
    OBVIOUS
  <2>1. p \in Counters /\ p \in Rows /\ p # Voucher /\ p \notin Requests
    BY ProductTypes
  <2>2. CASE CountVoucher(s)
    <3>1. /\ lock' = [lock EXCEPT ![Voucher] = s]
          /\ draft' = [draft EXCEPT ![s] = [draft[s] EXCEPT ![Voucher] = Newest(s, Voucher) + 1]]
      BY <2>2 DEF CountVoucher, Write
    <3>2. QED
      BY <2>1, <3>1 DEF TypeInv, TypeOK
  <2>3. CASE ReadBack(s)
    BY <2>3 DEF ReadBack, txVars
  <2>4. CASE MarkCancelled(s)
    <3>1. lock' = [lock EXCEPT ![Target(s)] = s] /\ draft' = draft /\ Target(s) \in Requests
      BY <1>1, <2>4, TargetOrder DEF MarkCancelled
    <3>2. QED
      BY <2>1, <3>1 DEF TypeInv, TypeOK
  <2>5. QED
    BY <2>2, <2>3, <2>4
<1>4. Target(s)' = Target(s) /\ Items(Target(s))' = Items(Target(s)) /\ Qtys(Target(s))' = Qtys(Target(s))
  BY <1>1 DEF Target, Items, Qtys
<1>5. Moved(s)' = Moved(s)
  BY <1>1, <1>2, <1>4 DEF Moved
<1>6. \A p : MovedOf(s, p)' = MovedOf(s, p) /\ Change(s, p)' = Change(s, p)
  BY <1>1, <1>4, <1>5 DEF MovedOf, Change
<1>7. QED
  BY <1>1, <1>3, <1>6 DEF LedgerInv, DraftOK

(* The steps before the first line is moved, and those of other handlers.  *)
LEMMA NoneMoved ==
  ASSUME TypeInv, StockInv, LedgerInv, NEW s \in Requests,
         \/ Start(s) \/ ReadProduct(s) \/ Price(s) \/ CountInvoice(s) \/ StampOrder(s)
         \/ InsertOrder(s) \/ Announce(s) \/ FindOrder(s) \/ SaveOrder(s)
         \/ AdjustStock(s) \/ OpenForm(s) \/ SaveProduct(s) \/ FindProduct(s)
         \/ DropProduct(s) \/ SaveVoucher(s)
  PROVE  DraftOK(s)'
<1>1. pc[s] \notin Handling /\ lock' = lock /\ gone \subseteq gone'
  BY DEF Start, ReadProduct, Price, CountInvoice, StampOrder, InsertOrder, Announce,
     FindOrder, SaveOrder, AdjustStock, OpenForm, SaveProduct, FindProduct, DropProduct,
     SaveVoucher, Handling, txVars, bookVars
<1>2. pc'[s] \notin Handling \/ (pc'[s] \in {"stock", "restock"} /\ item'[s] = 1)
  <2>1. CASE Start(s)
    <3>1. PICK j \in Work[s] : pc' = [pc EXCEPT ![s] = FirstLabel(j.kind)]
      BY <2>1 DEF Start, Goto
    <3>2. pc'[s] = FirstLabel(j.kind)
      BY <3>1 DEF TypeInv, TypeOK
    <3>3. FirstLabel(j.kind) \in {"read", "adjust", "open", "look", "terms", "find"}
      BY ZenonT(30) DEF FirstLabel
    <3>4. QED
      BY <3>2, <3>3 DEF Handling
  <2>2. CASE ReadProduct(s)
    BY <2>2 DEF ReadProduct, NextItem, Goto, Handling, TypeInv, TypeOK
  <2>3. CASE Price(s) \/ CountInvoice(s) \/ StampOrder(s) \/ Announce(s) \/ SaveOrder(s)
    BY <2>3 DEF Price, CountInvoice, StampOrder, Announce, SaveOrder, Goto, Handling, TypeInv,
       TypeOK
  <2>4. CASE InsertOrder(s)
    BY <2>4 DEF InsertOrder, Goto, Handling, TypeInv, TypeOK, StockInv, StockOK, localVars
  <2>5. CASE FindOrder(s)
    BY <2>5 DEF FindOrder, Goto, Handling, TypeInv, TypeOK, HandlerOK
  <2>6. CASE \/ AdjustStock(s) \/ OpenForm(s) \/ SaveProduct(s) \/ FindProduct(s)
             \/ DropProduct(s) \/ SaveVoucher(s)
    BY <2>6 DEF AdjustStock, OpenForm, SaveProduct, FindProduct, DropProduct, SaveVoucher, Goto,
       Handling, TypeInv, TypeOK
  <2>7. QED
    BY <2>1, <2>2, <2>3, <2>4, <2>5, <2>6
<1>3. pc'[s] \notin Handling \/ Moved(s)' = {}
  <2>1. CASE pc'[s] \in {"stock", "restock"} /\ item'[s] = 1
    <3>1. Moved(s)' = 1 .. 1 - 1
      BY <2>1 DEF Moved
    <3>2. QED
      BY <3>1
  <2>2. QED
    BY <1>2, <2>1
<1>4. \A p \in Products \ gone' : lock'[p] # s
  BY <1>1, NoLock
<1>5. QED
  BY <1>3, <1>4, DraftEmpty

(* A commit or a rollback releases every row.                              *)
LEMMA Released ==
  ASSUME TypeInv, NEW s \in Requests, Release(s), pc'[s] \notin Handling
  PROVE  DraftOK(s)'
<1>1. \A p \in Products : lock'[p] # s
  BY ProductTypes, RowsDistinct DEF Release
<1>2. QED
  BY <1>1, DraftEmpty

-----------------------------------------------------------------------------
(* The ledger.                                                             *)

(* What order o takes from the shelf in the end: nothing once cancelled.   *)
Net(p) == [o \in placed |-> QtyOf(o, p) * (1 - restocked[o])]

LEMMA PlacedFinite ==
  ASSUME TypeInv
  PROVE  placed \subseteq Requests /\ IsFiniteSet(placed)
  BY RequestsFinite, FS_Subset DEF TypeInv, TypeOK

LEMMA TimesInt == \A m, n \in Int : m * n \in Int
  OBVIOUS

LEMMA NetType ==
  ASSUME TypeInv, NEW p
  PROVE  /\ \A o \in placed : Net(p)[o] \in Int
         /\ SumFunctionOnSet(Net(p), placed) \in Int
<1>1. ASSUME NEW o \in placed PROVE Net(p)[o] \in Int
  <2>1. QtyOf(o, p) \in Int /\ 1 - restocked[o] \in Int
    BY PlacedFinite, QtyFacts DEF TypeInv, TypeOK
  <2>2. Net(p)[o] = QtyOf(o, p) * (1 - restocked[o])
    BY DEF Net
  <2> HIDE DEF Net
  <2>3. QED
    BY <2>1, <2>2, TimesInt
<1>2. QED
  BY <1>1, PlacedFinite, SumInt

LEMMA LedgerSum ==
  StockLedger <=> \A p \in Products \ gone :
                    stored[p] = books[p] - SumFunctionOnSet(Net(p), placed)
<1>1. \A p : DOMAIN Net(p) = placed
  BY DEF Net
<1>2. QED
  BY <1>1 DEF StockLedger, SumFunction, Net

LEMMA LedgerSumAfter ==
  ASSUME \A p \in Products \ gone' :
           stored'[p] = books'[p] - SumFunctionOnSet(Net(p)', placed')
  PROVE  StockLedger'
<1>1. \A p : DOMAIN Net(p)' = placed'
  BY DEF Net
<1>2. QED
  BY <1>1 DEF StockLedger, SumFunction, Net

(* A step that neither places nor cancels an order moves the stock and the *)
(* books alike.                                                            *)
LEMMA LedgerSame ==
  ASSUME TypeInv, TypeInv', LedgerInv, JobsStay, placed' = placed, restocked' = restocked,
         gone \subseteq gone',
         \A p \in Products \ gone' : stored'[p] - stored[p] = books'[p] - books[p]
  PROVE  StockLedger'
<1>1. \A o \in placed : o \in Requests /\ job'[o] = job[o]
  BY DEF JobsStay, TypeInv, TypeOK, HandlerOK, Ended
<1>2. \A p, o : o \in placed => QtyOf(o, p)' = QtyOf(o, p)
  BY <1>1, SameLines
<1>3. \A p : Net(p)' = Net(p)
  BY <1>2 DEF Net
<1>4. ASSUME NEW p \in Products \ gone'
      PROVE  stored'[p] = books'[p] - SumFunctionOnSet(Net(p)', placed')
  <2>1. stored[p] = books[p] - SumFunctionOnSet(Net(p), placed)
    BY LedgerSum DEF LedgerInv
  <2>2. stored[p] \in Int /\ books[p] \in Int /\ stored'[p] \in Int /\ books'[p] \in Int
    BY DEF TypeInv, TypeOK, Counters
  <2>3. SumFunctionOnSet(Net(p)', placed') = SumFunctionOnSet(Net(p), placed)
    BY <1>3
  <2>4. SumFunctionOnSet(Net(p), placed) \in Int
    BY NetType
  <2>5. QED
    BY <2>1, <2>2, <2>3, <2>4
<1>5. QED
  BY <1>4, LedgerSumAfter

(* What a commit makes of the stock: the whole order taken, or put back.   *)
LEMMA CommittedStock ==
  ASSUME TypeInv, LedgerInv, NEW s \in Requests, pc[s] \in {"commit", "commit_cancel"},
         NEW p \in Products \ gone
  PROVE  Merged(s)[p] = IF pc[s] = "commit" THEN stored[p] - QtyOf(Target(s), p)
                        ELSE stored[p] + QtyOf(Target(s), p)
<1>1. pc[s] \in Handling
  BY DEF Handling
<1>2. Merged(s)[p] = IF lock[p] = s THEN draft[s][p] ELSE stored[p]
  BY ProductTypes DEF Merged
<1>3. MovedOf(s, p) = {i \in DOMAIN Items(Target(s)) : Items(Target(s))[i].product = p}
  BY DEF MovedOf, Moved
<1>4. QtyOf(Target(s), p) = SumFunctionOnSet(Qtys(Target(s)), MovedOf(s, p))
  BY <1>3 DEF QtyOf, Qtys
<1>5. Change(s, p) = IF pc[s] = "commit" THEN - QtyOf(Target(s), p) ELSE QtyOf(Target(s), p)
  BY <1>1, <1>4, TargetOrder DEF Change, Writing
<1>6. Merged(s)[p] = stored[p] + Change(s, p)
  <2>1. /\ lock[p] = s <=> MovedOf(s, p) # {}
        /\ lock[p] = s => draft[s][p] = stored[p] + Change(s, p)
    BY DEF LedgerInv, DraftOK
  <2>2. stored[p] \in Int /\ (MovedOf(s, p) = {} => Change(s, p) = 0)
    BY <1>1, ChangeFacts, ProductTypes
  <2>3. QED
    BY <1>2, <2>1, <2>2
<1>7. QtyOf(Target(s), p) \in Int /\ stored[p] \in Int
  BY <1>1, TargetOrder, QtyFacts, ProductTypes
<1>8. QED
  BY <1>5, <1>6, <1>7

LEMMA LedgerSale ==
  ASSUME TypeInv, LedgerInv, NEW s \in Requests, Commit(s)
  PROVE  StockLedger'
<1>1. /\ pc[s] = "commit" /\ pc[s] \in Handling /\ UNCHANGED <<job, books, restocked, gone>>
      /\ placed' = placed \cup {s} /\ stored' = Merged(s)
  BY DEF Commit, Handling, bookVars
<1>2. Target(s) = s /\ s \notin placed /\ pc[s] \in Creating /\ restocked[s] = 0
  BY <1>1, TargetOrder DEF Writing, Creating, LedgerInv
<1>3. ASSUME NEW p \in Products \ gone
      PROVE  stored'[p] = books[p] - SumFunctionOnSet(Net(p)', placed')
  <2> DEFINE f == Net(p)
             g == Net(p)'
  <2>1. \A o \in placed \cup {s} : g[o] = QtyOf(o, p) * (1 - restocked[o])
    BY <1>1, SameLines DEF Net
  <2>2. \A o \in placed : g[o] = f[o] /\ f[o] \in Int
    BY <2>1, NetType DEF Net
  <2>3. QtyOf(s, p) \in Int /\ g[s] = QtyOf(s, p)
    BY <1>2, <2>1, QtyFacts
  <2>4. stored'[p] = stored[p] - QtyOf(s, p) /\ stored[p] \in Int /\ books[p] \in Int
    BY <1>1, <1>2, CommittedStock, ProductTypes
  <2>5. stored[p] = books[p] - SumFunctionOnSet(f, placed) /\ SumFunctionOnSet(f, placed) \in Int
    BY LedgerSum, NetType DEF LedgerInv
  <2>6. SumFunctionOnSet(g, placed \cup {s}) = QtyOf(s, p) + SumFunctionOnSet(f, placed)
    <3> HIDE DEF f, g
    <3>1. SumFunctionOnSet(g, placed \cup {s}) = g[s] + SumFunctionOnSet(g, placed)
      <4>1. \A o \in placed \cup {s} : g[o] \in Int
        BY <2>2, <2>3
      <4>2. QED
        BY <1>2, <4>1, PlacedFinite, SumAdd
    <3>2. SumFunctionOnSet(g, placed) = SumFunctionOnSet(f, placed)
      BY <2>2, PlacedFinite, SumEqual
    <3>3. QED
      BY <2>3, <3>1, <3>2
  <2> HIDE DEF f
  <2>7. QED
    BY <1>1, <2>3, <2>4, <2>5, <2>6
<1>4. QED
  BY <1>1, <1>3, LedgerSumAfter

LEMMA OnceMore == \A q \in Int, k \in Nat : q * (1 - (k + 1)) = q * (1 - k) - q
  OBVIOUS

LEMMA LedgerCancel ==
  ASSUME TypeInv, LedgerInv, NEW s \in Requests, CommitCancel(s)
  PROVE  StockLedger'
<1> DEFINE c == Target(s)
<1>1. /\ pc[s] = "commit_cancel" /\ pc[s] \in Handling /\ UNCHANGED <<job, books, placed, gone>>
      /\ restocked' = [restocked EXCEPT ![c] = restocked[c] + 1] /\ stored' = Merged(s)
  BY DEF CommitCancel, Handling
<1>2. c \in placed /\ c \in Requests /\ restocked \in [Requests -> Nat]
  BY <1>1, TargetOrder DEF Writing, TypeInv, TypeOK
<1>3. ASSUME NEW p \in Products \ gone
      PROVE  stored'[p] = books[p] - SumFunctionOnSet(Net(p)', placed')
  <2> DEFINE f == Net(p)
             g == Net(p)'
  <2>1. \A o \in placed : g[o] = QtyOf(o, p) * (1 - restocked'[o])
    BY <1>1, SameLines DEF Net
  <2>2. \A o \in placed : f[o] = QtyOf(o, p) * (1 - restocked[o]) /\ f[o] \in Int
    BY NetType DEF Net
  <2>3. QtyOf(c, p) \in Int
    BY <1>2, QtyFacts
  <2>4. g[c] = f[c] - QtyOf(c, p) /\ f[c] \in Int
    <3>1. restocked'[c] = restocked[c] + 1 /\ restocked[c] \in Nat
      BY <1>1, <1>2
    <3>2. g[c] = QtyOf(c, p) * (1 - (restocked[c] + 1)) /\ f[c] = QtyOf(c, p) * (1 - restocked[c])
      BY <1>2, <2>1, <2>2, <3>1
    <3> HIDE DEF f, g, c
    <3>3. QED
      BY <1>2, <2>2, <2>3, <3>1, <3>2, OnceMore
  <2>5. \A o \in placed \ {c} : g[o] = f[o]
    BY <1>1, <1>2, <2>1, <2>2, PlacedFinite
  <2>6. stored'[p] = stored[p] + QtyOf(c, p) /\ stored[p] \in Int /\ books[p] \in Int
    BY <1>1, CommittedStock, ProductTypes
  <2>7. stored[p] = books[p] - SumFunctionOnSet(f, placed) /\ SumFunctionOnSet(f, placed) \in Int
    BY LedgerSum, NetType DEF LedgerInv
  <2>8. SumFunctionOnSet(g, placed) = SumFunctionOnSet(f, placed) - QtyOf(c, p)
    <3> HIDE DEF f, g, c
    <3>1. IsFiniteSet(placed) /\ IsFiniteSet(placed \ {c})
      BY PlacedFinite, FS_RemoveElement
    <3>2. \A o \in placed : g[o] \in Int
      BY <2>2, <2>3, <2>4, <2>5
    <3>3. /\ SumFunctionOnSet(g, placed) = g[c] + SumFunctionOnSet(g, placed \ {c})
          /\ SumFunctionOnSet(f, placed) = f[c] + SumFunctionOnSet(f, placed \ {c})
      BY <1>2, <2>2, <3>1, <3>2, SumRemove
    <3>4. SumFunctionOnSet(g, placed \ {c}) = SumFunctionOnSet(f, placed \ {c})
      BY <2>5, <3>1, SumEqual
    <3>5. SumFunctionOnSet(f, placed \ {c}) \in Int
      BY <2>2, <3>1, SumInt
    <3>6. QED
      BY <2>3, <2>4, <3>3, <3>4, <3>5
  <2>9. stored'[p] = books[p] - SumFunctionOnSet(g, placed)
    <3> HIDE DEF f, g, c
    <3>1. QED
      BY <2>3, <2>6, <2>7, <2>8
  <2>10. QED
    BY <1>1, <2>9
<1>4. QED
  BY <1>1, <1>3, LedgerSumAfter

-----------------------------------------------------------------------------
LEMMA LedgerInit == Init => LedgerInv
<1> SUFFICES ASSUME Init PROVE LedgerInv
  OBVIOUS
<1>1. placed = {} /\ stored = books /\ \A r \in Requests : restocked[r] = 0
  BY DEF Init
<1>2. StockLedger
  <2>1. \A p : SumFunctionOnSet(Net(p), placed) = 0
    BY <1>1, SumEmpty
  <2>2. \A p \in Products : stored[p] \in Int /\ books[p] = stored[p]
    BY <1>1, TypeInit DEF TypeInv, TypeOK, Counters
  <2>3. QED
    BY <2>1, <2>2, LedgerSum
<1>3. ASSUME NEW r \in Requests PROVE DraftOK(r)
  <2>1. pc[r] = "idle"
    BY DEF Init
  <2>2. \A p : MovedOf(r, p) = {}
    BY <2>1 DEF MovedOf, Moved
  <2>3. \A p \in Products : lock[p] # r
    BY RowsDistinct DEF Init, Rows, Counters
  <2>4. QED
    BY <2>2, <2>3 DEF DraftOK
<1>4. QED
  BY <1>1, <1>2, <1>3 DEF LedgerInv

LEMMA LedgerStep ==
  ASSUME TypeInv, TypeInv', StockInv, LedgerInv, [Next]_vars, NEW s \in Requests,
         Handler(s) \/ Start(s) \/ StatementFails(s) \/ DeadlockVictim(s)
  PROVE  LedgerInv'
<1>1. Alone(s) /\ JobsStay
  BY AloneStep, JobsStayed
<1>2. gone \subseteq gone'
  BY GoneStays
<1>3. CASE Rollback(s)
  <2>1. /\ UNCHANGED <<stored, books, placed, restocked, gone>> /\ Release(s)
        /\ pc'[s] = "failed"
    BY <1>3 DEF Rollback, Goto, dbVars, bookVars, TypeInv, TypeOK
  <2>2. DraftOK(s)'
    BY <2>1, Released DEF Handling
  <2>3. \A r \in Requests \ {s} : DraftOK(r)'
    BY <1>1, <1>2, <2>1, DraftOthers
  <2>4. \A p \in Products \ gone' : stored'[p] - stored[p] = books'[p] - books[p]
    BY <2>1, ProductTypes
  <2>5. StockLedger'
    BY <1>1, <1>2, <2>1, <2>4, LedgerSame
  <2>6. QED
    BY <2>1, <2>2, <2>3, <2>5 DEF LedgerInv
<1>4. CASE Commit(s) \/ CommitCancel(s)
  <2>1. Release(s) /\ stored' = Merged(s) /\ pc'[s] \in {"announce", "failed", "done"}
    BY <1>4 DEF Commit, CommitCancel, Goto, TypeInv, TypeOK
  <2>2. DraftOK(s)'
    BY <2>1, Released DEF Handling
  <2>3. \A p \in Products : stored'[p] # stored[p] => lock[p] \in {None, s}
    BY <2>1, ProductTypes DEF Merged
  <2>4. \A r \in Requests \ {s} : DraftOK(r)'
    BY <1>1, <1>2, <2>3, DraftOthers
  <2>5. StockLedger'
    BY <1>4, LedgerSale, LedgerCancel
  <2>6. \A r \in Requests \ placed' : restocked'[r] = 0
    <3>1. CASE Commit(s)
      BY <3>1 DEF Commit, bookVars, LedgerInv
    <3>2. CASE CommitCancel(s)
      <4>1. pc[s] = "commit_cancel" /\ pc[s] \in Handling
        BY <3>2 DEF CommitCancel, Handling
      <4>2. Target(s) \in placed
        BY <4>1, TargetOrder DEF Writing
      <4>3. QED
        BY <3>2, <4>2 DEF CommitCancel, LedgerInv, TypeInv, TypeOK
    <3>3. QED
      BY <1>4, <3>1, <3>2
  <2>7. QED
    BY <2>2, <2>4, <2>5, <2>6 DEF LedgerInv
<1>5. CASE AdjustStock(s) \/ SaveProduct(s) \/ SaveVoucher(s)
  <2>1. /\ UNCHANGED <<placed, restocked, gone>>
    BY <1>5 DEF AdjustStock, SaveProduct, SaveVoucher
  <2>2. DraftOK(s)'
    BY <1>5, NoneMoved
  <2>3. \A p \in Products : /\ stored'[p] # stored[p] => lock[p] \in {None, s}
                            /\ stored'[p] - stored[p] = books'[p] - books[p]
    <3> SUFFICES ASSUME NEW p \in Products
                 PROVE  /\ stored'[p] # stored[p] => lock[p] \in {None, s}
                        /\ stored'[p] - stored[p] = books'[p] - books[p]
      OBVIOUS
    <3>1. p \in Counters /\ p # Voucher /\ stored[p] \in Int /\ books[p] \in Int
      BY ProductTypes
    <3>2. CASE AdjustStock(s)
      <4>1. job[s].qty \in Int
        BY <3>2, JobFields DEF AdjustStock, TypeInv, HandlerOK
      <4>2. PICK n \in Int : /\ stored' = [stored EXCEPT ![job[s].product] = @ + n]
                             /\ books' = [books EXCEPT ![job[s].product] = @ + n]
        <5> DEFINE n == IF job[s].product \in present THEN job[s].qty ELSE 0
        <5>1. n \in Int
          BY <4>1
        <5>2. /\ stored' = [stored EXCEPT ![job[s].product] = @ + n]
              /\ books' = [books EXCEPT ![job[s].product] = @ + n]
          BY <3>2 DEF AdjustStock
        <5>3. QED
          BY <5>1, <5>2
      <4>3. QED
        BY <3>1, <3>2, <4>2 DEF AdjustStock, Free, TypeInv, TypeOK
    <3>3. CASE SaveProduct(s)
      <4>1. seenStock[s] \in Int
        BY DEF TypeInv, TypeOK
      <4>2. QED
        BY <3>1, <3>3, <4>1 DEF SaveProduct, Free, TypeInv, TypeOK
    <3>4. CASE SaveVoucher(s)
      BY <3>1, <3>4 DEF SaveVoucher, TypeInv, TypeOK
    <3>5. QED
      BY <1>5, <3>2, <3>3, <3>4
  <2>4. \A r \in Requests \ {s} : DraftOK(r)'
    BY <1>1, <1>2, <2>3, DraftOthers
  <2>5. StockLedger'
    BY <1>1, <1>2, <2>1, <2>3, LedgerSame
  <2>6. QED
    BY <2>1, <2>2, <2>4, <2>5 DEF LedgerInv
<1>6. CASE \/ Start(s) \/ ReadProduct(s) \/ Price(s) \/ CountInvoice(s) \/ StampOrder(s)
           \/ InsertOrder(s) \/ TakeStock(s) \/ CountVoucher(s) \/ ReadBack(s) \/ Announce(s)
           \/ FindOrder(s) \/ ReturnStock(s) \/ MarkCancelled(s) \/ SaveOrder(s)
           \/ OpenForm(s) \/ FindProduct(s) \/ DropProduct(s)
  <2>1. UNCHANGED <<stored, books, placed, restocked>>
    BY <1>6 DEF Start, ReadProduct, Price, CountInvoice, StampOrder, InsertOrder, TakeStock,
       CountVoucher, ReadBack, Announce, FindOrder, ReturnStock, MarkCancelled, SaveOrder,
       OpenForm, FindProduct, DropProduct, dbVars, bookVars
  <2>2. DraftOK(s)'
    BY <1>6, LineMoved, AllMoved, NoneMoved
  <2>3. \A r \in Requests \ {s} : DraftOK(r)'
    BY <1>1, <1>2, <2>1, DraftOthers
  <2>4. \A p \in Products \ gone' : stored'[p] - stored[p] = books'[p] - books[p]
    BY <2>1, ProductTypes
  <2>5. StockLedger'
    BY <1>1, <1>2, <2>1, <2>4, LedgerSame
  <2>6. QED
    BY <2>1, <2>2, <2>3, <2>5 DEF LedgerInv
<1>7. QED
  BY <1>3, <1>4, <1>5, <1>6
  DEF Handler, CreateOrder, ChangeOrder, Manage, RefuseProduct, RefusePrice, RefuseInvoice,
      RefuseOrder, RefuseProductForm, StatementFails, DeadlockVictim

LEMMA LedgerNext == TypeInv /\ TypeInv' /\ StockInv /\ LedgerInv /\ [Next]_vars => LedgerInv'
<1> SUFFICES ASSUME TypeInv, TypeInv', StockInv, LedgerInv, [Next]_vars PROVE LedgerInv'
  OBVIOUS
<1>1. CASE Midnight \/ LocalMidnight \/ Crash \/ UNCHANGED vars
  <2>1. UNCHANGED <<stored, books, placed, restocked, gone, job>>
    BY <1>1 DEF Midnight, LocalMidnight, Crash, vars, dbVars, bookVars
  <2>2. JobsStay
    BY <2>1 DEF JobsStay
  <2>3. \A p \in Products \ gone' : stored'[p] - stored[p] = books'[p] - books[p]
    BY <2>1, ProductTypes
  <2>4. StockLedger'
    BY <2>1, <2>2, <2>3, LedgerSame
  <2>5. ASSUME NEW r \in Requests PROVE DraftOK(r)'
    <3>1. CASE Crash
      <4>1. pc'[r] \notin Handling
        BY <3>1 DEF Crash, Running, Handling, Ended, TypeInv, TypeOK
      <4>2. \A p \in Products : lock'[p] # r
        BY <3>1, ProductTypes, RowsDistinct DEF Crash
      <4>3. QED
        BY <4>1, <4>2, DraftEmpty
    <3>2. CASE ~ Crash
      <4>1. UNCHANGED <<pc, item, lock, draft>>
        BY <1>1, <3>2 DEF Midnight, LocalMidnight, vars, dbVars, txVars, localVars
      <4>2. DraftOK(r)
        BY DEF LedgerInv
      <4>3. /\ Target(r)' = Target(r) /\ Items(Target(r))' = Items(Target(r))
            /\ Qtys(Target(r))' = Qtys(Target(r))
        BY <2>1 DEF Target, Items, Qtys
      <4>4. Moved(r)' = Moved(r)
        BY <4>1, <4>3 DEF Moved
      <4>5. \A p : MovedOf(r, p)' = MovedOf(r, p) /\ Change(r, p)' = Change(r, p)
        BY <2>1, <4>3, <4>4 DEF MovedOf, Change
      <4>6. QED
        BY <2>1, <4>1, <4>2, <4>5 DEF DraftOK
    <3>3. QED
      BY <3>1, <3>2
  <2>6. QED
    BY <2>1, <2>4, <2>5 DEF LedgerInv
<1>2. ASSUME NEW s \in Requests,
             Handler(s) \/ Start(s) \/ StatementFails(s) \/ DeadlockVictim(s)
      PROVE  LedgerInv'
  BY <1>2, LedgerStep
<1>3. QED
  BY <1>1, <1>2 DEF Next, Environment, Idle

(* For any carts and any number of sales, cancellations, deliveries, forms *)
(* and deletions at once: no sale or cancellation is lost, applied in part *)
(* or twice over.  Lines 225 and 361 are UPDATEs of the row's own value,   *)
(* and the row stays locked to the commit.                                 *)
THEOREM StockAccounted == Spec => []StockLedger
<1>1. LedgerInv => StockLedger
  BY DEF LedgerInv
<1>2. QED
  BY <1>1, TypeInit, TypeNext, StockInit, StockNext, LedgerInit, LedgerNext, PTL
  DEF Spec, Safety

-----------------------------------------------------------------------------
(* The notifications an order has gathered name products it sells and of   *)
(* which its own version of the row is at or below the minimum.            *)

WarnedOK(r) ==
  /\ pc[r] \in {"idle", "read", "price", "count", "stamp", "insert", "stock", "voucher"}
       => warned[r] = {}
  /\ pc[r] \in {"warn", "commit"} =>
       \A p \in warned[r] \cap (Products \ gone) : p \in Sold(r) /\ draft[r][p] <= MinStock[p]

WarnedInv == \A r \in Requests : WarnedOK(r)

LEMMA WarnedInit == Init => WarnedInv
  BY DEF Init, WarnedInv, WarnedOK

LEMMA WarnedOthers ==
  ASSUME WarnedInv, NEW s \in Requests, Alone(s), gone \subseteq gone'
  PROVE  \A r \in Requests \ {s} : WarnedOK(r)'
<1> SUFFICES ASSUME NEW r \in Requests \ {s} PROVE WarnedOK(r)'
  OBVIOUS
<1>1. pc'[r] = pc[r] /\ job'[r] = job[r] /\ draft'[r] = draft[r] /\ warned'[r] = warned[r]
  BY DEF Alone
<1>2. Sold(r)' = Sold(r)
  BY <1>1, SameLines
<1>3. QED
  BY <1>1, <1>2 DEF WarnedInv, WarnedOK

LEMMA WarnedReadBack ==
  ASSUME TypeInv, StockInv, WarnedInv, NEW s \in Requests, ReadBack(s)
  PROVE  WarnedOK(s)'
<1> DEFINE p == Item(s, item[s])
<1>1. /\ pc[s] = "warn" /\ UNCHANGED <<present, gone, job, lock, draft>>
      /\ pc'[s] \in {"warn", "commit"}
      /\ warned'[s] = warned[s] \cup LowStock(s, p)
  BY DEF ReadBack, NextItem, Goto, dbVars, txVars, bookVars, Item, TypeInv, TypeOK
<1>2. /\ item[s] \in 1 .. Len(job[s].cart) /\ p \in Products /\ p \in Counters
      /\ DOMAIN Items(s) = 1 .. Len(job[s].cart)
      /\ p \in gone \/ lock[p] = s
  BY <1>1, ItemProduct DEF Writing, StockInv, StockOK, Took, Counters
<1>3. p \in Sold(s) /\ Sold(s)' = Sold(s)
  BY <1>1, <1>2, SameLines DEF Sold, Item
<1>4. ASSUME NEW x \in LowStock(s, p) \cap (Products \ gone)
      PROVE  x = p /\ draft[s][x] <= MinStock[x]
  <2>1. x = p /\ Newest(s, p) <= MinStock[p]
    BY RowsDistinct DEF LowStock
  <2>2. Newest(s, p) = draft[s][p]
    BY <1>2, <1>4, <2>1 DEF Newest, Merged
  <2>3. QED
    BY <2>1, <2>2
<1>5. QED
  BY <1>1, <1>3, <1>4 DEF WarnedInv, WarnedOK

LEMMA WarnedStep ==
  ASSUME TypeInv, StockInv, WarnedInv, NEW s \in Requests,
         Handler(s) \/ Start(s) \/ StatementFails(s) \/ DeadlockVictim(s)
  PROVE  WarnedOK(s)'
<1>1. CASE ReadBack(s)
  BY <1>1, WarnedReadBack
<1>2. CASE Start(s)
  <2>1. pc[s] = "idle" /\ warned' = warned
    BY <1>2 DEF Start, localVars
  <2>2. PICK j \in Work[s] : pc' = [pc EXCEPT ![s] = FirstLabel(j.kind)]
    BY <1>2 DEF Start, Goto
  <2>3. pc'[s] = FirstLabel(j.kind)
    BY <2>2 DEF TypeInv, TypeOK
  <2>4. FirstLabel(j.kind) \in {"read", "adjust", "open", "look", "terms", "find"}
    BY ZenonT(30) DEF FirstLabel
  <2>5. QED
    BY <2>1, <2>3, <2>4 DEF WarnedInv, WarnedOK
<1>3. CASE ReadProduct(s) \/ TakeStock(s)
  <2>1. /\ pc[s] \in {"read", "stock"} /\ warned' = warned
        /\ pc'[s] \in {"read", "price", "stock", "voucher", "warn"}
    BY <1>3 DEF ReadProduct, TakeStock, NextItem, Goto, TypeInv, TypeOK
  <2>2. QED
    BY <2>1 DEF WarnedInv, WarnedOK
<1>4. CASE Price(s) \/ CountInvoice(s) \/ StampOrder(s) \/ InsertOrder(s) \/ CountVoucher(s)
  <2>1. /\ pc[s] \in {"price", "count", "stamp", "insert", "voucher"} /\ warned' = warned
        /\ pc'[s] \in {"count", "stamp", "insert", "stock", "warn"}
    BY <1>4 DEF Price, CountInvoice, StampOrder, InsertOrder, CountVoucher, Goto, localVars,
       TypeInv, TypeOK
  <2>2. QED
    BY <2>1 DEF WarnedInv, WarnedOK
<1>5. CASE \/ Rollback(s) \/ Commit(s) \/ Announce(s) \/ FindOrder(s) \/ ReturnStock(s)
           \/ MarkCancelled(s) \/ CommitCancel(s) \/ SaveOrder(s)
           \/ (Manage(s) /\ ~ RefuseProductForm(s))
  <2>1. PICK l \in Changing \cup Ended \cup {"announce", "edit", "drop"} :
          pc' = [pc EXCEPT ![s] = l] \/ (pc[s] = "restock" /\ UNCHANGED pc)
    BY <1>5 DEF Rollback, Commit, Announce, FindOrder, ReturnStock, NextItem, MarkCancelled,
       CommitCancel, SaveOrder, Manage, AdjustStock, OpenForm, SaveProduct, FindProduct,
       DropProduct, SaveVoucher, Goto, Changing, Ended
  <2>2. pc'[s] \notin {"idle", "read", "price", "count", "stamp", "insert", "stock", "voucher",
                       "warn", "commit"}
    BY <2>1 DEF Changing, Ended, TypeInv, TypeOK
  <2>3. QED
    BY <2>2 DEF WarnedOK
<1>6. QED
  BY <1>1, <1>2, <1>3, <1>4, <1>5
  DEF Handler, CreateOrder, ChangeOrder, Manage, RefuseProduct, RefusePrice, RefuseInvoice,
      RefuseOrder, RefuseProductForm, StatementFails, DeadlockVictim

LEMMA WarnedNext == TypeInv /\ StockInv /\ WarnedInv /\ [Next]_vars => WarnedInv'
<1> SUFFICES ASSUME TypeInv, StockInv, WarnedInv, [Next]_vars PROVE WarnedInv'
  OBVIOUS
<1>1. CASE Midnight \/ LocalMidnight \/ UNCHANGED vars
  BY <1>1 DEF Midnight, LocalMidnight, vars, dbVars, txVars, bookVars, localVars, WarnedInv,
     WarnedOK, Sold, Items
<1>2. CASE Crash
  <2>1. ASSUME NEW r \in Requests PROVE WarnedOK(r)'
    <3>1. warned' = warned /\ pc'[r] \in {"idle"} \cup Ended /\ (pc'[r] = "idle" => pc[r] = "idle")
      BY <1>2 DEF Crash, Running, localVars, Ended, TypeInv, TypeOK
    <3>2. QED
      BY <3>1 DEF Ended, WarnedInv, WarnedOK
  <2>2. QED
    BY <2>1 DEF WarnedInv
<1>3. ASSUME NEW s \in Requests,
             Handler(s) \/ Start(s) \/ StatementFails(s) \/ DeadlockVictim(s)
      PROVE  WarnedInv'
  <2>1. Alone(s) /\ gone \subseteq gone'
    BY <1>3, AloneStep, GoneStays
  <2>2. \A r \in Requests \ {s} : WarnedOK(r)'
    BY <2>1, WarnedOthers
  <2>3. WarnedOK(s)'
    BY <1>3, WarnedStep
  <2>4. QED
    BY <2>2, <2>3 DEF WarnedInv
<1>4. QED
  BY <1>1, <1>2, <1>3 DEF Next, Environment, Idle

-----------------------------------------------------------------------------
(* The order service implements the shop's ledger.                         *)

LEMMA SameTotal == \A o, p : Ledger!Total(Items(o), p) = QtyOf(o, p)
  BY SMT DEF Ledger!Total, QtyOf, SumFunctionOnSet, FoldFunctionOnSet, MapThenFoldSet,
     Ledger!SumFunctionOnSet, Ledger!FoldFunctionOnSet, Ledger!MapThenFoldSet

LEMMA LedgerStarts == Init => Ledger!Init
<1> SUFFICES ASSUME Init PROVE Ledger!Init
  OBVIOUS
<1>1. placed = {} /\ notifications = {} /\ gone = {}
  BY DEF Init
<1>2. \A x \in Products : stored[x] \in Int
  BY TypeInit DEF TypeInv, TypeOK, Counters
<1>3. LedgerStock \in [Products -> Int]
  BY <1>1, <1>2 DEF LedgerStock
<1>4. LedgerUsed = 0
  BY VoucherRow DEF Init, LedgerUsed
<1>5. DOMAIN LedgerBook = {} /\ DOMAIN LedgerState = {} /\ LedgerAlerts = {}
  BY <1>1 DEF LedgerBook, Items, LedgerState, LedgerAlerts
<1>6. QED
  BY <1>3, <1>4, <1>5 DEF Ledger!Init

(* What the ledger shows of an order in the table never changes, but for   *)
(* its status.                                                             *)
LEMMA BookStays ==
  ASSUME TypeInv, JobsStay, placed' = placed, \A o \in placed : invoice'[o] = invoice[o]
  PROVE  LedgerBook' = LedgerBook
<1>1. \A o \in placed : job'[o] = job[o] /\ Items(o)' = Items(o)
  <2>1. \A o \in placed : job'[o] = job[o]
    BY OrderCart DEF JobsStay, TypeInv, TypeOK
  <2>2. QED
    BY <2>1, SameLines
<1>2. QED
  BY <1>1 DEF LedgerBook, Items

(* A step that changes no committed row stutters.                          *)
LEMMA LedgerStutters ==
  ASSUME TypeInv, JobsStay, UNCHANGED <<stored, placed, status, notifications, gone>>,
         \A o \in placed : invoice'[o] = invoice[o]
  PROVE  UNCHANGED Ledger!vars
<1>1. LedgerBook' = LedgerBook
  BY BookStays
<1>2. QED
  BY <1>1 DEF Ledger!vars, LedgerStock, LedgerAlerts, LedgerUsed, LedgerState

LEMMA SaleIsSold ==
  ASSUME TypeInv, StockInv, VoucherInv, InvoiceInv, LedgerInv, WarnedInv,
         NEW s \in Requests, Commit(s)
  PROVE  Ledger!Sell(s, LedgerBook'[s]) /\ s \in DOMAIN LedgerBook'
<1>1. /\ pc[s] = "commit" /\ pc[s] \in Writing /\ pc[s] \in Handling /\ pc[s] \in Creating
      /\ UNCHANGED <<job, invoice, gone>> /\ placed' = placed \cup {s}
      /\ stored' = Merged(s) /\ status' = [status EXCEPT ![s] = "paid"]
      /\ notifications' = notifications \cup [product : warned[s], order : {s}]
  BY DEF Commit, Writing, Creating, Handling, localVars, bookVars
<1>2. /\ Target(s) = s /\ s \notin placed /\ placed \subseteq Requests
      /\ job[s] \in Work[s] /\ job[s].kind = "create"
  BY <1>1, TargetOrder, PlacedFinite, OrderCart
<1> DEFINE entry == [number |-> invoice[s], items |-> Items(s), voucher |-> job[s].voucher]
<1>3. \A o : Items(o)' = Items(o) /\ job'[o] = job[o]
  BY <1>1, SameLines
<1>4. /\ DOMAIN LedgerBook = placed /\ DOMAIN LedgerState = placed
      /\ DOMAIN LedgerBook' = placed \cup {s}
      /\ LedgerBook'[s] = entry
      /\ \A x \in placed : LedgerBook[x].number = invoice[x]
      /\ DOMAIN LedgerStock = Products \ gone
  BY <1>1, <1>3 DEF LedgerBook, Items, LedgerState, LedgerStock
<1>5. \A x \in placed : LedgerBook[x].number # entry.number
  <2>1. \A x \in placed : invoice[x] # invoice[s]
    <3>1. Kept(s) /\ \A x \in placed : Kept(x) /\ x # s /\ x \in Requests
      BY <1>1, <1>2 DEF Kept, Inserted
    <3>2. QED
      BY <3>1 DEF InvoiceInv, Distinct
  <2>2. QED
    BY <1>4, <2>1
<1>6. LedgerBook' = Ledger!Extend(LedgerBook, s, entry)
  <2>1. LedgerBook' = [z \in placed \cup {s} |-> IF z = s THEN entry ELSE LedgerBook[z]]
    BY <1>1, <1>2, <1>3 DEF LedgerBook, Items
  <2>2. QED
    BY <1>4, <2>1 DEF Ledger!Extend
<1>7. LedgerState' = Ledger!Extend(LedgerState, s, "paid")
  <2>1. LedgerState' = [z \in placed \cup {s} |-> IF z = s THEN "paid" ELSE LedgerState[z]]
    BY <1>1, <1>2 DEF LedgerState, TypeInv, TypeOK
  <2>2. QED
    BY <1>4, <2>1 DEF Ledger!Extend
<1>8. \A p \in Products \ gone : stored'[p] = stored[p] - QtyOf(s, p)
  BY <1>1, <1>2, CommittedStock
<1>9. LedgerStock' = [p \in DOMAIN LedgerStock |-> LedgerStock[p] - Ledger!Total(entry.items, p)]
  <2>1. \A p : Ledger!Total(entry.items, p) = QtyOf(s, p)
    BY SameTotal
  <2>2. QED
    BY <1>1, <1>4, <1>8, <2>1 DEF LedgerStock
<1>10. LedgerUsed' = LedgerUsed + IF entry.voucher THEN 1 ELSE 0
  <2>1. job[s].voucher \in BOOLEAN /\ (job[s].voucher <=> lock[Voucher] = s)
    BY <1>1, <1>2, JobFields DEF VoucherInv, VoucherOK
  <2>2. stored'[Voucher] = IF lock[Voucher] = s THEN stored[Voucher] + 1 ELSE stored[Voucher]
    BY <1>1, VoucherRow DEF Merged, VoucherInv, VoucherOK
  <2>3. stored[Voucher] \in Int
    BY VoucherRow DEF TypeInv, TypeOK
  <2>4. QED
    BY <2>1, <2>2, <2>3 DEF LedgerUsed
<1> DEFINE Short == {x \in DOMAIN LedgerStock :
                       Ledger!Named(entry.items, x) /\ LedgerStock'[x] <= MinStock[x]}
<1>11. Short = warned[s] \cap (Products \ gone)
  <2>1. \A x \in Products \ gone :
          x \in Short <=> x \in Sold(s) /\ stored'[x] <= MinStock[x]
    <3>1. \A x : Ledger!Named(entry.items, x) <=> x \in Sold(s)
      BY DEF Ledger!Named, Sold
    <3>2. QED
      BY <1>1, <1>4, <3>1 DEF LedgerStock
  <2>2. ASSUME NEW x \in Products \ gone, x \in Sold(s)
        PROVE  /\ stored'[x] = draft[s][x]
               /\ draft[s][x] <= MinStock[x] => x \in warned[s]
    <3>1. PICK i \in 1 .. Len(job[s].cart) : x = Item(s, i)
      BY <1>1, <2>2, ItemProduct DEF Sold, Item
    <3>2. lock[x] = s /\ (draft[s][x] <= MinStock[x] => x \in warned[s])
      BY <1>1, <3>1 DEF StockInv, StockOK, Took, Checked
    <3>3. QED
      BY <1>1, <3>2, ProductTypes DEF Merged
  <2>3. \A x \in warned[s] \cap (Products \ gone) : x \in Sold(s) /\ draft[s][x] <= MinStock[x]
    BY <1>1 DEF WarnedInv, WarnedOK
  <2>4. Short \subseteq Products \ gone
    BY <1>4
  <2> HIDE DEF Short
  <2>5. QED
    BY <2>1, <2>2, <2>3, <2>4
<1>12. LedgerAlerts' = LedgerAlerts \cup {[product |-> p, order |-> s] : p \in Short}
  <2>1. LedgerAlerts' = LedgerAlerts \cup {n \in [product : warned[s], order : {s}] :
                                             n.product \in Products \ gone}
    BY <1>1 DEF LedgerAlerts
  <2>2. {n \in [product : warned[s], order : {s}] : n.product \in Products \ gone}
          = {[product |-> p, order |-> s] : p \in warned[s] \cap (Products \ gone)}
    OBVIOUS
  <2>3. QED
    BY <1>11, <2>1, <2>2
<1>13. QED
  <2> HIDE DEF entry
  <2>1. QED
    BY <1>2, <1>4, <1>5, <1>6, <1>7, <1>9, <1>10, <1>12 DEF Ledger!Sell

LEMMA CancelIsReturned ==
  ASSUME TypeInv, VoucherInv, LedgerInv, NEW s \in Requests, CommitCancel(s)
  PROVE  Ledger!Return(Target(s))
<1> DEFINE o == Target(s)
<1>1. /\ pc[s] = "commit_cancel" /\ pc[s] \in Handling
      /\ UNCHANGED <<job, invoice, gone, placed, notifications>>
      /\ stored' = Merged(s) /\ status' = [status EXCEPT ![o] = "cancelled"]
  BY DEF CommitCancel, Handling, localVars
<1>2. o \in placed /\ o \in Requests
  BY <1>1, TargetOrder DEF Writing
<1>3. LedgerBook' = LedgerBook /\ LedgerBook[o].items = Items(o) /\ LedgerAlerts' = LedgerAlerts
  <2>1. \A x : Items(x)' = Items(x)
    BY <1>1, SameLines
  <2>2. QED
    BY <1>1, <1>2, <2>1 DEF LedgerBook, Items, LedgerAlerts
<1>4. LedgerUsed' = LedgerUsed
  BY <1>1, VoucherRow, NotHeld DEF LedgerUsed, Merged
<1>5. LedgerState' = [LedgerState EXCEPT ![o] = "cancelled"] /\ o \in DOMAIN LedgerBook
  BY <1>1, <1>2 DEF LedgerState, LedgerBook, Items, TypeInv, TypeOK
<1>6. LedgerStock' = [p \in DOMAIN LedgerStock |->
                        LedgerStock[p] + Ledger!Total(LedgerBook[o].items, p)]
  <2>1. \A p : Ledger!Total(LedgerBook[o].items, p) = QtyOf(o, p)
    BY <1>3, SameTotal
  <2>2. \A p \in Products \ gone : stored'[p] = stored[p] + QtyOf(o, p)
    BY <1>1, CommittedStock
  <2>3. QED
    BY <1>1, <2>1, <2>2 DEF LedgerStock
<1>7. QED
  BY <1>3, <1>4, <1>5, <1>6 DEF Ledger!Return

LEMMA SaveIsRelabelled ==
  ASSUME TypeInv, NEW s \in Requests, SaveOrder(s)
  PROVE  \E l \in Statuses : Ledger!Relabel(Target(s), l) /\ Target(s) \in Requests
<1>1. /\ pc[s] = "save" /\ job[s] \in Work[s] /\ job[s].kind = "update"
      /\ UNCHANGED <<stored, gone, placed, notifications, job, invoice>>
  BY DEF SaveOrder, TypeInv, HandlerOK, localVars, bookVars
<1>2. Target(s) \in placed /\ Target(s) \in Requests
  BY <1>1 DEF Target, TypeInv, TypeOK, HandlerOK, Changing
<1>3. PICK l \in Statuses : status' = [status EXCEPT ![Target(s)] = l]
  BY <1>1, JobFields DEF SaveOrder, TypeInv, TypeOK
<1>4. UNCHANGED <<LedgerStock, LedgerUsed, LedgerBook, LedgerAlerts>>
  BY <1>1 DEF LedgerStock, LedgerUsed, LedgerBook, LedgerAlerts, Items
<1>5. LedgerState' = [LedgerState EXCEPT ![Target(s)] = l] /\ Target(s) \in DOMAIN LedgerBook
  BY <1>1, <1>2, <1>3 DEF LedgerState, LedgerBook, Items, TypeInv, TypeOK
<1>6. QED
  BY <1>2, <1>4, <1>5 DEF Ledger!Relabel

(* The back office: deliveries, forms, deletions and the voucher's terms.  *)
LEMMA ManagedInLedger ==
  ASSUME TypeInv, NEW s \in Requests,
         AdjustStock(s) \/ SaveProduct(s) \/ DropProduct(s) \/ SaveVoucher(s)
  PROVE  Ledger!Next
<1>1. UNCHANGED <<placed, status, notifications, job, invoice>>
  BY DEF AdjustStock, SaveProduct, DropProduct, SaveVoucher, localVars
<1>2. LedgerBook' = LedgerBook /\ LedgerState' = LedgerState
  BY <1>1 DEF LedgerBook, LedgerState, Items
<1>3. DOMAIN LedgerStock = Products \ gone /\ DOMAIN LedgerStock' = Products \ gone'
  BY DEF LedgerStock
<1>4. CASE SaveVoucher(s)
  <2>1. gone' = gone /\ stored' = [stored EXCEPT ![Voucher] = 0]
    BY <1>4 DEF SaveVoucher
  <2>2. LedgerUsed' = 0
    BY <2>1, VoucherRow DEF LedgerUsed, TypeInv, TypeOK
  <2>3. \A p \in Products : stored'[p] = stored[p]
    BY <2>1, ProductTypes DEF TypeInv, TypeOK
  <2>4. LedgerStock' = LedgerStock /\ LedgerAlerts' = LedgerAlerts
    BY <1>1, <2>1, <2>3 DEF LedgerStock, LedgerAlerts
  <2>5. QED
    BY <1>2, <2>2, <2>4 DEF Ledger!Renew, Ledger!Next
<1>5. CASE ~ SaveVoucher(s)
  <2> DEFINE p == job[s].product
  <2>1. p \in Products
    BY <1>5, JobFields DEF AdjustStock, SaveProduct, DropProduct, TypeInv, HandlerOK
  <2>2. \A c \in Counters \ {p} : stored'[c] = stored[c]
    BY <1>5 DEF AdjustStock, SaveProduct, DropProduct, TypeInv, TypeOK
  <2>3. LedgerUsed' = LedgerUsed
    BY <2>1, <2>2, VoucherRow DEF LedgerUsed
  <2>4. CASE DropProduct(s)
    <3>1. gone' = gone \cup {p} /\ stored' = stored
      BY <2>4 DEF DropProduct
    <3>2. LedgerStock' = [x \in DOMAIN LedgerStock \ {p} |-> LedgerStock[x]]
      BY <1>3, <3>1 DEF LedgerStock
    <3>3. LedgerAlerts' = {n \in LedgerAlerts : n.product # p}
      BY <1>1, <3>1 DEF LedgerAlerts
    <3>4. Ledger!Discontinue(p)
      BY <1>2, <2>3, <3>2, <3>3 DEF Ledger!Discontinue
    <3>5. QED
      BY <2>1, <3>4 DEF Ledger!Next
  <2>5. CASE ~ DropProduct(s)
    <3>1. gone' = gone
      BY <1>5, <2>5 DEF AdjustStock, SaveProduct
    <3>2. \A x \in DOMAIN LedgerStock \ {p} : LedgerStock'[x] = LedgerStock[x]
      BY <1>3, <2>2, <3>1, ProductTypes DEF LedgerStock
    <3>3. LedgerAlerts' = LedgerAlerts
      BY <1>1, <3>1 DEF LedgerAlerts
    <3>4. Ledger!Recount(p)
      BY <1>2, <1>3, <2>3, <3>1, <3>2, <3>3 DEF Ledger!Recount
    <3>5. QED
      BY <2>1, <3>4 DEF Ledger!Next
  <2>6. QED
    BY <2>4, <2>5
<1>6. QED
  BY <1>4, <1>5

(* The other steps change no committed row.                                *)
LEMMA OtherSteps ==
  ASSUME TypeInv, [Next]_vars,
         \A s \in Requests : ~ Commit(s) /\ ~ CommitCancel(s) /\ ~ SaveOrder(s) /\ ~ AdjustStock(s)
                             /\ ~ SaveProduct(s) /\ ~ DropProduct(s) /\ ~ SaveVoucher(s)
  PROVE  /\ UNCHANGED <<stored, placed, status, notifications, gone>>
         /\ \A o \in placed : invoice'[o] = invoice[o]
<1>1. CASE UNCHANGED vars \/ Midnight \/ LocalMidnight \/ Crash
  BY <1>1 DEF vars, Midnight, LocalMidnight, Crash, dbVars, localVars, bookVars
<1>2. ASSUME NEW s \in Requests, Price(s) \/ CountInvoice(s)
      PROVE  /\ UNCHANGED <<stored, placed, status, notifications, gone>>
             /\ \A o \in placed : invoice'[o] = invoice[o]
  <2>1. pc[s] \in {"price", "count"} /\ UNCHANGED <<stored, placed, status, notifications, gone>>
    BY <1>2 DEF Price, CountInvoice, dbVars, bookVars
  <2>2. s \notin placed
    BY <2>1, NumberTypes DEF Creating
  <2>3. \A x : x # s /\ x \in Requests => invoice'[x] = invoice[x]
    BY <1>2 DEF Price, CountInvoice, TypeInv, TypeOK
  <2>4. QED
    BY <2>1, <2>2, <2>3, PlacedFinite
<1>3. CASE ~ (\E s \in Requests : Price(s) \/ CountInvoice(s)) /\ ~ UNCHANGED vars
            /\ ~ Midnight /\ ~ LocalMidnight /\ ~ Crash
  BY <1>3 DEF Next, Environment, Idle, Handler,
     CreateOrder, ChangeOrder, Manage, Start, StatementFails, DeadlockVictim, Rollback,
     ReadProduct, RefuseProduct, RefusePrice, StampOrder, InsertOrder,
     RefuseInvoice, TakeStock, CountVoucher, ReadBack, Announce, FindOrder,
     RefuseOrder, ReturnStock, MarkCancelled, OpenForm, FindProduct, RefuseProductForm,
     dbVars, localVars, bookVars
<1>4. QED
  BY <1>1, <1>2, <1>3

(* For any requests, products, carts and days: every behaviour of the      *)
(* order service, with its statements, locks, refusals, rollbacks and      *)
(* crashes, is one of the ledger, in which a sale or a cancellation is one *)
(* step: CreateOrder and CancelOrder are atomic, and a sale's number, its  *)
(* stock, its voucher use and its alerts appear together.                  *)
THEOREM LedgerImplemented == Spec => ImplementsLedger
<1> DEFINE Inv == TypeInv /\ StockInv /\ VoucherInv /\ InvoiceInv /\ LedgerInv /\ WarnedInv
<1>1. Init => Inv
  BY TypeInit, StockInit, VoucherInit, InvoiceInit, LedgerInit, WarnedInit
<1>2. Inv /\ [Next]_vars => Inv'
  BY TypeNext, StockNext, VoucherNext, InvoiceNext, LedgerNext, WarnedNext
<1>3. Inv /\ [Next]_vars => [Ledger!Next]_(Ledger!vars)
  <2> SUFFICES ASSUME TypeInv, StockInv, VoucherInv, InvoiceInv, LedgerInv, WarnedInv, [Next]_vars
               PROVE  [Ledger!Next]_(Ledger!vars)
    OBVIOUS
  <2>1. ASSUME NEW s \in Requests, Commit(s)
        PROVE  Ledger!Next
    BY <2>1, SaleIsSold DEF Ledger!Next
  <2>2. ASSUME NEW s \in Requests, CommitCancel(s)
        PROVE  Ledger!Next
    <3>1. Target(s) \in Requests
      BY <2>2, TargetOrder DEF CommitCancel, Handling
    <3>2. QED
      BY <2>2, <3>1, CancelIsReturned DEF Ledger!Next
  <2>3. ASSUME NEW s \in Requests, SaveOrder(s)
        PROVE  Ledger!Next
    BY <2>3, SaveIsRelabelled DEF Ledger!Next
  <2>4. ASSUME NEW s \in Requests,
               AdjustStock(s) \/ SaveProduct(s) \/ DropProduct(s) \/ SaveVoucher(s)
        PROVE  Ledger!Next
    BY <2>4, ManagedInLedger
  <2>5. CASE \A s \in Requests :
               ~ Commit(s) /\ ~ CommitCancel(s) /\ ~ SaveOrder(s) /\ ~ AdjustStock(s)
               /\ ~ SaveProduct(s) /\ ~ DropProduct(s) /\ ~ SaveVoucher(s)
    BY <2>5, OtherSteps, JobsStayed, LedgerStutters
  <2>6. QED
    BY <2>1, <2>2, <2>3, <2>4, <2>5
<1>4. QED
  <2> HIDE DEF Inv
  <2>1. QED
    BY <1>1, <1>2, <1>3, LedgerStarts, PTL DEF Spec, Safety, ImplementsLedger, Ledger!Spec
=============================================================================
