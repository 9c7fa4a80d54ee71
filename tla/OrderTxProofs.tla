---------------------------- MODULE OrderTxProofs ----------------------------
(***************************************************************************)
(* Theorems about OrderTx, for any number of requests, any products, carts *)
(* and jobs, and days without end.                                         *)
(***************************************************************************)
EXTENDS OrderTx, TLAPS, FiniteSetTheorems, SequenceTheorems

-----------------------------------------------------------------------------
(* Jobs and carts.                                                         *)

LEMMA JobFields ==
  ASSUME NEW r \in Requests, NEW j \in Work[r]
  PROVE  /\ j.kind \in {"create", "cancel", "delete", "update", "adjust", "edit", "drop",
                       "terms"}
         /\ j.kind = "create" => /\ j.cart \in Seq(Line) /\ j.cart # <<>>
                                 /\ Len(j.cart) \in Nat \ {0} /\ j.voucher \in BOOLEAN
         /\ j.kind \in {"cancel", "delete", "update"} => j.order \in Requests
         /\ j.kind = "update" => j.status \in Statuses \cup {""}
         /\ j.kind \in {"adjust", "edit", "drop"} => j.product \in Products
         /\ j.kind = "adjust" => j.qty \in Int
         /\ j.kind = "edit" => j.active \in BOOLEAN
<1>1. j \in Jobs
  BY WorkAssumption
<1>2. j.kind = "create" => j.cart \in Seq(Line) /\ j.cart # <<>> /\ j.voucher \in BOOLEAN
  BY <1>1, WorkAssumption DEF Jobs
<1>3. j.kind = "create" => Len(j.cart) \in Nat \ {0}
  BY <1>2, EmptySeq
<1>4. QED
  BY <1>1, <1>2, <1>3 DEF Jobs

LEMMA BookedLines ==
  ASSUME NEW cart \in Seq(Line)
  PROVE  /\ DOMAIN Booked(cart) = 1 .. Len(cart)
         /\ \A i \in 1 .. Len(cart) : Booked(cart)[i] \in Line
<1>1. DOMAIN cart = 1 .. Len(cart) /\ \A i \in 1 .. Len(cart) : cart[i] \in Line
  OBVIOUS
<1>2. FirstLines(cart) \subseteq 1 .. Len(cart)
  BY <1>1 DEF FirstLines
<1>3. ASSUME NEW i \in 1 .. Len(cart)
      PROVE  Booked(cart)[i] \in Line
  <2> DEFINE first == {j \in FirstLines(cart) : cart[j].product = cart[i].product}
  <2>1. CASE first # {}
    <3>1. (CHOOSE j \in first : TRUE) \in 1 .. Len(cart)
      BY <1>2, <2>1
    <3>2. QED
      BY <1>1, <2>1, <3>1 DEF Booked
  <2>2. CASE first = {}
    BY <1>1, <2>2 DEF Booked
  <2>3. QED
    BY <2>1, <2>2
<1>4. QED
  BY <1>1, <1>3 DEF Booked

-----------------------------------------------------------------------------
(* Types.  TypeOK alone is not inductive: that a handler's job has the     *)
(* fields its steps use, and that its loop index stays inside the cart,    *)
(* depends on where the handler stands.                                    *)

HandlerOK(r) ==
  /\ pc[r] # "idle" => job[r] \in Work[r]
  /\ pc[r] \in {"idle", "find"} => item[r] = 1
  /\ pc[r] \in Creating \cup {"announce"} =>
       /\ job[r].kind = "create"
       /\ item[r] \in 1 .. Len(job[r].cart)
  /\ pc[r] \in Changing => job[r].kind \in {"cancel", "delete", "update"}
  /\ pc[r] \in Changing \ {"find"} => job[r].order \in placed
  /\ pc[r] = "restock" => item[r] \in 1 .. Len(job[job[r].order].cart)
  /\ pc[r] = "save" => job[r].kind = "update"
  /\ pc[r] = "adjust" => job[r].kind = "adjust"
  /\ pc[r] \in {"open", "edit"} => job[r].kind = "edit"
  /\ pc[r] \in {"look", "drop"} => job[r].kind = "drop"
  /\ r \in placed => /\ pc[r] \in {"announce"} \cup Ended
                     /\ job[r].kind = "create"

TypeInv == TypeOK /\ \A r \in Requests : HandlerOK(r)

LEMMA TypeInit == Init => TypeInv
  BY StockAssumption, StatusAssumption
  DEF Init, TypeInv, TypeOK, HandlerOK, Counters, Rows, Blank, Labels, Creating,
      Changing, Managing, Ended, Writing

(* Abandoning a request: an error, a refusal or a deadlock.                *)
LEMMA TypeRollback ==
  ASSUME TypeInv, NEW r \in Requests, pc[r] # "idle", r \notin placed, Rollback(r)
  PROVE  TypeInv'
<1>1. TypeOK'
  BY DEF TypeInv, TypeOK, Rollback, Release, Goto, dbVars, localVars, clockVars,
         bookVars, Labels, Ended, Rows, Counters, Blank
<1>2. ASSUME NEW x \in Requests PROVE HandlerOK(x)'
  BY DEF TypeInv, TypeOK, HandlerOK, Rollback, Goto, dbVars, localVars, Creating,
         Changing, Ended, Writing
<1>3. QED
  BY <1>1, <1>2 DEF TypeInv

(* The cart a loop walks over, and the job it belongs to.                  *)
LEMMA TargetCart ==
  ASSUME TypeInv, NEW r \in Requests,
         pc[r] \in Creating \cup (Changing \ {"find"})
  PROVE  /\ Target(r) \in Requests
         /\ job[Target(r)].cart \in Seq(Line)
         /\ Len(job[Target(r)].cart) \in Nat \ {0}
<1>1. job[r] \in Work[r]
  BY DEF TypeInv, HandlerOK, Creating, Changing, Writing
<1>2. CASE pc[r] \in Creating
  BY <1>1, <1>2, JobFields DEF TypeInv, HandlerOK, Target
<1>3. CASE pc[r] \in Changing \ {"find"}
  <2>1. job[r].order \in Requests /\ Target(r) = job[r].order /\ job[r].order \in placed
    BY <1>1, <1>3, JobFields DEF TypeInv, HandlerOK, Target
  <2>2. job[job[r].order] \in Work[job[r].order] /\ job[job[r].order].kind = "create"
    BY <2>1 DEF TypeInv, HandlerOK, Ended
  <2>3. QED
    BY <2>1, <2>2, JobFields
<1>4. QED
  BY <1>2, <1>3

(* An item row of the order being booked or cancelled.                     *)
LEMMA ItemRow ==
  ASSUME TypeInv, NEW r \in Requests, pc[r] \in {"stock", "warn", "restock"}
  PROVE  Items(Target(r))[item[r]] \in Line
<1>1. job[Target(r)].cart \in Seq(Line)
  BY TargetCart DEF Creating, Changing, Writing
<1>2. item[r] \in 1 .. Len(job[Target(r)].cart)
  BY DEF TypeInv, HandlerOK, Creating, Changing, Writing, Target
<1>3. QED
  BY <1>1, <1>2, BookedLines DEF Items

LEMMA TypeStart ==
  ASSUME TypeInv, NEW r \in Requests, Start(r)
  PROVE  TypeInv'
<1>1. PICK j \in Work[r] : job' = [job EXCEPT ![r] = j] /\ Goto(r, FirstLabel(j.kind))
  BY DEF Start
<1>2. /\ j.kind \in {"create", "cancel", "delete", "update", "adjust", "edit", "drop",
                     "terms"}
      /\ j.kind = "create" => 1 \in 1 .. Len(j.cart)
  <2>1. j.kind \in {"create", "cancel", "delete", "update", "adjust", "edit", "drop",
                     "terms"}
    BY JobFields
  <2>2. j.kind = "create" => Len(j.cart) \in Nat \ {0}
    BY JobFields
  <2>3. QED
    BY <2>1, <2>2
<1>3. FirstLabel(j.kind) =
        IF j.kind = "create" THEN "read"
        ELSE IF j.kind = "adjust" THEN "adjust"
        ELSE IF j.kind = "edit" THEN "open"
        ELSE IF j.kind = "drop" THEN "look"
        ELSE IF j.kind = "terms" THEN "terms" ELSE "find"
  BY <1>2 DEF FirstLabel
<1>4. TypeOK'
  <2>1. j \in AllWork
    BY DEF AllWork
  <2>2. QED
  BY <1>1, <1>2, <1>3, <2>1 DEF Start, TypeInv, TypeOK, Goto, dbVars, txVars, localVars,
     clockVars, bookVars, Labels, Creating, Changing, Managing
<1>5. ASSUME NEW x \in Requests PROVE HandlerOK(x)'
  BY <1>1, <1>2, <1>3 DEF Start, TypeInv, TypeOK, HandlerOK, Goto, dbVars, localVars,
     Creating, Changing, Managing, Ended, Writing
<1>6. QED
  BY <1>4, <1>5 DEF TypeInv

(* One round of a loop over a cart.                                        *)
LEMMA TypeNextItem ==
  ASSUME TypeInv, NEW r \in Requests, pc[r] \in {"read", "stock", "warn", "restock"},
         NEW l \in Labels, NextItem(r, l)
  PROVE  /\ item' \in [Requests -> Nat \ {0}]
         /\ pc' \in [Requests -> Labels]
         /\ \A x \in Requests \ {r} : item'[x] = item[x] /\ pc'[x] = pc[x]
         /\ item'[r] \in 1 .. Len(job[Target(r)].cart)
         /\ pc'[r] = pc[r] \/ (pc'[r] = l /\ item'[r] = 1)
<1>1. Len(job[Target(r)].cart) \in Nat \ {0}
  BY TargetCart DEF Creating, Changing, Writing
<1>2. item[r] \in 1 .. Len(job[Target(r)].cart)
  BY DEF TypeInv, HandlerOK, Creating, Changing, Writing, Target
<1>3. pc \in [Requests -> Labels] /\ item \in [Requests -> Nat \ {0}]
  BY DEF TypeInv, TypeOK
<1>4. QED
  BY <1>1, <1>2, <1>3 DEF NextItem, Goto

LEMMA TypeReadProduct ==
  ASSUME TypeInv, NEW r \in Requests, ReadProduct(r)
  PROVE  TypeInv'
<1>1. pc[r] = "read" /\ NextItem(r, "price") /\ "price" \in Labels
  BY DEF ReadProduct, Labels, Creating
<1>2. Target(r) = r
  BY <1>1 DEF TypeInv, HandlerOK, Target, Creating
<1>3. /\ item' \in [Requests -> Nat \ {0}]
      /\ pc' \in [Requests -> Labels]
      /\ \A x \in Requests \ {r} : item'[x] = item[x] /\ pc'[x] = pc[x]
      /\ item'[r] \in 1 .. Len(job[Target(r)].cart)
      /\ pc'[r] \in {"read", "price"}
  BY <1>1, TypeNextItem
<1>4. TypeOK'
  BY <1>3 DEF ReadProduct, TypeInv, TypeOK, dbVars, txVars, clockVars, bookVars
<1>5. ASSUME NEW x \in Requests PROVE HandlerOK(x)'
  BY <1>1, <1>2, <1>3 DEF ReadProduct, TypeInv, HandlerOK, dbVars, Creating, Changing,
     Ended, Writing
<1>6. QED
  BY <1>4, <1>5 DEF TypeInv

(* The steps of CreateOrder that change nothing but the invoice number or  *)
(* created_at in memory, and the INSERT.                                   *)
LEMMA TypeNumbering ==
  ASSUME TypeInv, NEW r \in Requests,
         Price(r) \/ CountInvoice(r) \/ StampOrder(r) \/ InsertOrder(r)
  PROVE  TypeInv'
<1>1. /\ invoice' \in [Requests -> [day : Int, seq : Nat \ {0}]]
      /\ made' \in [Requests -> Int]
  <2>1. \A d : NextSeq(d) \in Nat \ {0}
    <3>1. \A d : MadeOn(d) \subseteq Requests
      BY DEF TypeInv, TypeOK, MadeOn
    <3>2. \A d : Cardinality(MadeOn(d)) \in Nat
      BY <3>1, RequestsFinite, FS_Subset, FS_CardinalityType
    <3>3. QED
      BY <3>2 DEF NextSeq
  <2>2. LocalDay \in Int
    BY DEF TypeInv, TypeOK, LocalDay
  <2> DEFINE Numbers == [day : Int, seq : Nat \ {0}]
  <2>3. /\ invoice \in [Requests -> Numbers] /\ made \in [Requests -> Int]
        /\ invoice[r] \in Numbers /\ invoice[r].day \in Int /\ invoice[r].seq \in Nat \ {0}
    BY DEF TypeInv, TypeOK
  <2>4. CASE Price(r)
    <3>1. [invoice[r] EXCEPT !.day = LocalDay] \in Numbers
      BY <2>2, <2>3
    <3>2. invoice' = [invoice EXCEPT ![r] = [invoice[r] EXCEPT !.day = LocalDay]]
      BY <2>4 DEF Price
    <3>3. QED
      BY <2>3, <2>4, <3>1, <3>2 DEF Price
  <2>5. CASE CountInvoice(r)
    <3>1. PICK seq \in {NextSeq(invoice[r].day), 1} :
            invoice' = [invoice EXCEPT ![r] = [invoice[r] EXCEPT !.seq = seq]]
      BY <2>5 DEF CountInvoice
    <3>2. [invoice[r] EXCEPT !.seq = seq] \in Numbers
      BY <2>1, <2>3
    <3>3. QED
      BY <2>3, <2>5, <3>1, <3>2 DEF CountInvoice
  <2>6. CASE StampOrder(r)
    BY <2>3, <2>6 DEF StampOrder, TypeInv, TypeOK
  <2>7. QED
    BY <2>3, <2>4, <2>5, <2>6 DEF InsertOrder, localVars
<1>2. \E l \in {"count", "stamp", "insert", "stock"} :
        /\ pc[r] \in {"price", "count", "stamp", "insert"}
        /\ pc' = [pc EXCEPT ![r] = l]
        /\ UNCHANGED <<dbVars, txVars, job, item, warned, seenStatus, seenStock,
                       clockVars, bookVars>>
  BY DEF Price, CountInvoice, StampOrder, InsertOrder, Goto, localVars
<1>3. TypeOK'
  BY <1>1, <1>2 DEF TypeInv, TypeOK, dbVars, txVars, clockVars, bookVars, Labels,
     Creating, Writing
<1>4. ASSUME NEW x \in Requests PROVE HandlerOK(x)'
  BY <1>2 DEF TypeInv, TypeOK, HandlerOK, dbVars, Creating, Changing, Ended, Writing
<1>5. QED
  BY <1>3, <1>4 DEF TypeInv

(* An UPDATE inside a transaction, and what the transaction has of a row.  *)
LEMMA TypeWrite ==
  ASSUME TypeInv, NEW r \in Requests, NEW c \in Counters, NEW v \in Int,
         Write(r, c, v)
  PROVE  /\ lock' \in [Rows -> Requests \cup {None}]
         /\ draft' \in [Requests -> [Counters -> Int]]
<1>1. draft[r] \in [Counters -> Int]
  BY DEF TypeInv, TypeOK
<1>2. draft' = [draft EXCEPT ![r] = [draft[r] EXCEPT ![c] = v]]
  BY DEF Write
<1>3. QED
  BY <1>1, <1>2 DEF Write, TypeInv, TypeOK, Rows

LEMMA TypeUpdateProduct ==
  ASSUME TypeInv, NEW r \in Requests, NEW c \in Counters, NEW v \in Int,
         UpdateProduct(r, c, v)
  PROVE  /\ lock' \in [Rows -> Requests \cup {None}]
         /\ draft' \in [Requests -> [Counters -> Int]]
<1>1. CASE c \in present
  BY <1>1, TypeWrite DEF UpdateProduct
<1>2. CASE c \notin present
  BY <1>2 DEF UpdateProduct, TypeInv, TypeOK, txVars
<1>3. QED
  BY <1>1, <1>2

LEMMA TypeMerged ==
  ASSUME TypeInv, NEW r \in Requests
  PROVE  Merged(r) \in [Counters -> Int]
  BY DEF TypeInv, TypeOK, Merged

LEMMA TypeRelease ==
  ASSUME TypeInv, NEW r \in Requests, Release(r)
  PROVE  /\ lock' \in [Rows -> Requests \cup {None}]
         /\ draft' \in [Requests -> [Counters -> Int]]
  BY DEF TypeInv, TypeOK, Release, Blank

LEMMA TypeTakeStock ==
  ASSUME TypeInv, NEW r \in Requests, TakeStock(r)
  PROVE  TypeInv'
<1> DEFINE line == Items(r)[item[r]]
<1>1. pc[r] = "stock" /\ Target(r) = r /\ job[r] \in Work[r] /\ job[r].kind = "create"
  BY DEF TakeStock, TypeInv, HandlerOK, Target, Creating, Writing
<1>2. line \in Line
  BY <1>1, ItemRow
<1>3. line.product \in Counters /\ Newest(r, line.product) - line.qty \in Int
  BY <1>2, TypeMerged DEF Line, Counters, Newest
<1>4. /\ lock' \in [Rows -> Requests \cup {None}]
      /\ draft' \in [Requests -> [Counters -> Int]]
  BY <1>3, TypeUpdateProduct DEF TakeStock
<1>5. PICK l \in {"voucher", "warn"} : NextItem(r, l)
  BY DEF TakeStock
<1>6. /\ item' \in [Requests -> Nat \ {0}]
      /\ pc' \in [Requests -> Labels]
      /\ \A x \in Requests \ {r} : item'[x] = item[x] /\ pc'[x] = pc[x]
      /\ item'[r] \in 1 .. Len(job[Target(r)].cart)
      /\ pc'[r] \in {"stock", "voucher", "warn"}
  <2>1. l \in Labels
    BY DEF Labels, Creating, Writing
  <2>2. QED
    BY <1>1, <1>5, <2>1, TypeNextItem
<1>7. TypeOK'
  BY <1>4, <1>6 DEF TakeStock, TypeInv, TypeOK, dbVars, clockVars, bookVars
<1>8. ASSUME NEW x \in Requests PROVE HandlerOK(x)'
  BY <1>1, <1>6 DEF TakeStock, TypeInv, HandlerOK, dbVars, Creating, Changing,
     Ended, Writing
<1>9. QED
  BY <1>7, <1>8 DEF TypeInv

LEMMA TypeCountVoucher ==
  ASSUME TypeInv, NEW r \in Requests, CountVoucher(r)
  PROVE  TypeInv'
<1>1. Voucher \in Counters /\ Newest(r, Voucher) + 1 \in Int
  BY TypeMerged DEF Counters, Newest
<1>2. /\ lock' \in [Rows -> Requests \cup {None}]
      /\ draft' \in [Requests -> [Counters -> Int]]
  BY <1>1, TypeWrite DEF CountVoucher
<1>3. TypeOK'
  BY <1>2 DEF CountVoucher, TypeInv, TypeOK, dbVars, localVars, clockVars, bookVars,
     Goto, Labels, Creating, Writing
<1>4. ASSUME NEW x \in Requests PROVE HandlerOK(x)'
  BY DEF CountVoucher, TypeInv, TypeOK, HandlerOK, Goto, dbVars, localVars, Creating,
     Changing, Ended, Writing
<1>5. QED
  BY <1>3, <1>4 DEF TypeInv

LEMMA TypeReadBack ==
  ASSUME TypeInv, NEW r \in Requests, ReadBack(r)
  PROVE  TypeInv'
<1> DEFINE line == Items(r)[item[r]]
<1>1. pc[r] = "warn" /\ Target(r) = r /\ job[r] \in Work[r] /\ job[r].kind = "create"
  BY DEF ReadBack, TypeInv, HandlerOK, Target, Creating, Writing
<1>2. LowStock(r, line.product) \subseteq Products \cup {None}
  <2>1. line \in Line
    BY <1>1, ItemRow
  <2>2. QED
    BY <2>1 DEF LowStock, Line
<1>3. warned' \in [Requests -> SUBSET (Products \cup {None})]
  BY <1>2 DEF ReadBack, TypeInv, TypeOK
<1>4. /\ item' \in [Requests -> Nat \ {0}]
      /\ pc' \in [Requests -> Labels]
      /\ \A x \in Requests \ {r} : item'[x] = item[x] /\ pc'[x] = pc[x]
      /\ item'[r] \in 1 .. Len(job[Target(r)].cart)
      /\ pc'[r] \in {"warn", "commit"}
  <2>1. "commit" \in Labels
    BY DEF Labels, Creating, Writing
  <2>2. QED
    BY <1>1, <2>1, TypeNextItem DEF ReadBack
<1>5. TypeOK'
  BY <1>3, <1>4 DEF ReadBack, TypeInv, TypeOK, dbVars, txVars, clockVars, bookVars
<1>6. ASSUME NEW x \in Requests PROVE HandlerOK(x)'
  BY <1>1, <1>4 DEF ReadBack, TypeInv, HandlerOK, dbVars, Creating, Changing,
     Ended, Writing
<1>7. QED
  BY <1>5, <1>6 DEF TypeInv

LEMMA TypeCommit ==
  ASSUME TypeInv, NEW r \in Requests, Commit(r)
  PROVE  TypeInv'
<1>1. PICK l \in {"announce", "failed"} : pc' = [pc EXCEPT ![r] = l]
  BY DEF Commit, Goto
<1>2. pc[r] = "commit" /\ job[r].kind = "create"
  BY DEF Commit, TypeInv, HandlerOK, Creating, Writing
<1>3. stored' \in [Counters -> Int]
  BY TypeMerged DEF Commit
<1>4. notifications' \subseteq [product : Products \cup {None}, order : Requests]
  <2>1. [product : warned[r], order : {r}]
          \subseteq [product : Products \cup {None}, order : Requests]
    BY DEF TypeInv, TypeOK
  <2>2. QED
    BY <2>1 DEF Commit, TypeInv, TypeOK
<1>5. status' \in [Requests -> Statuses]
  BY StatusAssumption DEF Commit, TypeInv, TypeOK
<1>6. TypeOK'
  BY <1>1, <1>3, <1>4, <1>5, TypeRelease DEF Commit, TypeInv, TypeOK, localVars,
     clockVars, bookVars, Labels, Ended
<1>7. ASSUME NEW x \in Requests PROVE HandlerOK(x)'
  BY <1>1, <1>2 DEF Commit, TypeInv, TypeOK, HandlerOK, localVars, Creating, Changing,
     Ended, Writing
<1>8. QED
  BY <1>6, <1>7 DEF TypeInv

LEMMA TypeAnnounce ==
  ASSUME TypeInv, NEW r \in Requests, Announce(r)
  PROVE  TypeInv'
<1>1. TypeOK'
  BY DEF Announce, TypeInv, TypeOK, dbVars, txVars, localVars, clockVars, bookVars,
     Goto, Labels, Ended
<1>2. ASSUME NEW x \in Requests PROVE HandlerOK(x)'
  BY DEF Announce, TypeInv, TypeOK, HandlerOK, Goto, dbVars, localVars, Creating,
     Changing, Ended, Writing
<1>3. QED
  BY <1>1, <1>2 DEF TypeInv

LEMMA TypeFindOrder ==
  ASSUME TypeInv, NEW r \in Requests, FindOrder(r)
  PROVE  TypeInv'
<1>1. /\ job[r] \in Work[r] /\ job[r].kind \in {"cancel", "update"}
      /\ Target(r) = job[r].order /\ Target(r) \in placed
      /\ item[r] = 1 /\ pc[r] = "find"
  BY DEF FindOrder, Refusal, TypeInv, HandlerOK, Target, Changing
<1>2. PICK l \in {"restock", "save"} :
        /\ pc' = [pc EXCEPT ![r] = l]
        /\ l = "save" => job[r].kind = "update"
  BY <1>1 DEF FindOrder, Goto
<1>3. 1 \in 1 .. Len(job[Target(r)].cart)
  <2>1. Target(r) \in Requests
    BY <1>1 DEF TypeInv, TypeOK
  <2>2. job[Target(r)] \in Work[Target(r)] /\ job[Target(r)].kind = "create"
    BY <1>1, <2>1 DEF TypeInv, HandlerOK, Ended
  <2>3. Len(job[Target(r)].cart) \in Nat \ {0}
    BY <2>1, <2>2, JobFields
  <2>4. QED
    BY <2>3
<1>4. TypeOK'
  BY <1>1, <1>2 DEF FindOrder, TypeInv, TypeOK, dbVars, txVars, clockVars, bookVars,
     Labels, Changing
<1>5. ASSUME NEW x \in Requests PROVE HandlerOK(x)'
  BY <1>1, <1>2, <1>3 DEF FindOrder, TypeInv, TypeOK, HandlerOK, dbVars, Creating,
     Changing, Ended, Writing
<1>6. QED
  BY <1>4, <1>5 DEF TypeInv

LEMMA TypeReturnStock ==
  ASSUME TypeInv, NEW r \in Requests, ReturnStock(r)
  PROVE  TypeInv'
<1> DEFINE line == Items(Target(r))[item[r]]
<1>1. /\ pc[r] = "restock" /\ job[r] \in Work[r]
      /\ job[r].kind \in {"cancel", "delete", "update"} /\ Target(r) = job[r].order
  BY DEF ReturnStock, TypeInv, HandlerOK, Target, Changing
<1>2. line \in Line
  BY <1>1, ItemRow
<1>3. line.product \in Counters /\ Newest(r, line.product) + line.qty \in Int
  BY <1>2, TypeMerged DEF Line, Counters, Newest
<1>4. /\ lock' \in [Rows -> Requests \cup {None}]
      /\ draft' \in [Requests -> [Counters -> Int]]
  BY <1>3, TypeUpdateProduct DEF ReturnStock
<1>5. /\ item' \in [Requests -> Nat \ {0}]
      /\ pc' \in [Requests -> Labels]
      /\ \A x \in Requests \ {r} : item'[x] = item[x] /\ pc'[x] = pc[x]
      /\ item'[r] \in 1 .. Len(job[Target(r)].cart)
      /\ pc'[r] \in {"restock", "mark"}
  <2>1. "mark" \in Labels
    BY DEF Labels, Changing
  <2>2. QED
    BY <1>1, <2>1, TypeNextItem DEF ReturnStock
<1>6. TypeOK'
  BY <1>4, <1>5 DEF ReturnStock, TypeInv, TypeOK, dbVars, clockVars, bookVars
<1>7. ASSUME NEW x \in Requests PROVE HandlerOK(x)'
  BY <1>1, <1>5 DEF ReturnStock, TypeInv, HandlerOK, dbVars, Creating, Changing,
     Ended, Writing
<1>8. QED
  BY <1>6, <1>7 DEF TypeInv

LEMMA OneMore ==
  ASSUME NEW f \in [Requests -> Nat], NEW o \in Requests
  PROVE  [f EXCEPT ![o] = f[o] + 1] \in [Requests -> Nat]
  OBVIOUS

(* The writes of the order row, and the commit of a cancellation.          *)
LEMMA TypeOrderRow ==
  ASSUME TypeInv, NEW r \in Requests,
         MarkCancelled(r) \/ CommitCancel(r) \/ SaveOrder(r)
  PROVE  TypeInv'
<1>1. /\ pc[r] \in {"mark", "commit_cancel", "save"} /\ job[r] \in Work[r]
      /\ job[r].kind \in {"cancel", "delete", "update"}
      /\ pc[r] = "save" => job[r].kind = "update"
  BY DEF MarkCancelled, CommitCancel, SaveOrder, TypeInv, HandlerOK, Changing
<1>2. Target(r) \in Requests
  BY <1>1, JobFields DEF Target
<1>3. PICK l \in {"commit_cancel", "done", "failed"} :
        /\ pc' = [pc EXCEPT ![r] = l]
        /\ l = "commit_cancel" => pc[r] = "mark"
  BY DEF MarkCancelled, CommitCancel, SaveOrder, Goto
<1>4. UNCHANGED <<placed, active, present, notifications, job, localVars, clockVars,
                  books, gone>>
  BY DEF MarkCancelled, CommitCancel, SaveOrder, dbVars, bookVars
<1>5. /\ stored' \in [Counters -> Int]
      /\ lock' \in [Rows -> Requests \cup {None}]
      /\ draft' \in [Requests -> [Counters -> Int]]
  <2>1. CASE MarkCancelled(r)
    BY <1>2, <2>1 DEF MarkCancelled, TypeInv, TypeOK, dbVars, Rows
  <2>2. CASE CommitCancel(r)
    BY <2>2, TypeMerged, TypeRelease DEF CommitCancel
  <2>3. CASE SaveOrder(r)
    BY <2>3 DEF SaveOrder, TypeInv, TypeOK, txVars
  <2>4. QED
    BY <2>1, <2>2, <2>3
<1>6. status' \in [Requests -> Statuses]
  <2>1. job[r].kind = "update" => job[r].status \in Statuses \cup {""}
    BY <1>1, JobFields
  <2>2. CASE SaveOrder(r)
    BY <1>1, <2>1, <2>2 DEF SaveOrder, TypeInv, TypeOK
  <2>3. CASE MarkCancelled(r) \/ CommitCancel(r)
    BY <2>3, StatusAssumption DEF MarkCancelled, CommitCancel, TypeInv, TypeOK, dbVars
  <2>4. QED
    BY <2>2, <2>3
<1>7. restocked' \in [Requests -> Nat]
  <2>1. restocked \in [Requests -> Nat]
    BY DEF TypeInv, TypeOK
  <2>2. CASE MarkCancelled(r) \/ SaveOrder(r)
    BY <2>1, <2>2 DEF MarkCancelled, SaveOrder, bookVars
  <2>3. CASE CommitCancel(r)
    BY <1>2, <2>1, <2>3, OneMore DEF CommitCancel
  <2>4. QED
    BY <2>2, <2>3
<1>8. TypeOK'
  BY <1>3, <1>4, <1>5, <1>6, <1>7 DEF TypeInv, TypeOK, localVars, clockVars, Labels,
     Changing, Ended
<1>9. ASSUME NEW x \in Requests PROVE HandlerOK(x)'
  BY <1>1, <1>3, <1>4 DEF TypeInv, TypeOK, HandlerOK, localVars, Creating, Changing,
     Ended, Writing
<1>10. QED
  BY <1>8, <1>9 DEF TypeInv

LEMMA TypeManage ==
  ASSUME TypeInv, NEW r \in Requests, Manage(r), ~ RefuseProductForm(r)
  PROVE  TypeInv'
<1>1. /\ pc[r] \in Managing /\ job[r] \in Work[r]
      /\ pc[r] = "adjust" => job[r].kind = "adjust"
      /\ pc[r] \in {"open", "edit"} => job[r].kind = "edit"
      /\ pc[r] \in {"look", "drop"} => job[r].kind = "drop"
  BY DEF Manage, AdjustStock, OpenForm, SaveProduct, FindProduct, DropProduct, SaveVoucher,
         TypeInv, HandlerOK, Managing
<1>2. /\ pc[r] # "terms" => job[r].product \in Products
      /\ pc[r] = "adjust" => job[r].qty \in Int
      /\ pc[r] = "edit" => job[r].active \in BOOLEAN
  BY <1>1, JobFields DEF Managing
<1>3. PICK l \in {"edit", "drop", "done"} :
        /\ pc' = [pc EXCEPT ![r] = l]
        /\ l = "edit" => pc[r] = "open"
        /\ l = "drop" => pc[r] = "look"
  BY DEF Manage, AdjustStock, OpenForm, SaveProduct, FindProduct, DropProduct, SaveVoucher, Goto
<1>4. UNCHANGED <<placed, status, notifications, txVars, job, item, invoice, made, warned,
                  seenStatus, clockVars, restocked>>
  BY DEF Manage, AdjustStock, OpenForm, SaveProduct, FindProduct, DropProduct, SaveVoucher,
         dbVars, localVars, bookVars
<1>5. /\ stored' \in [Counters -> Int] /\ books' \in [Counters -> Int]
      /\ seenStock' \in [Requests -> Int] /\ active' \in [Products -> BOOLEAN]
      /\ present' \subseteq Products /\ gone' \subseteq Products
  <2>1. job[r].product \in Products => job[r].product \in Counters
    BY DEF Counters
  <2>2. CASE AdjustStock(r)
    <3>1. (IF job[r].product \in present THEN job[r].qty ELSE 0) \in Int
      BY <1>2, <2>2 DEF AdjustStock
    <3>2. QED
      BY <1>2, <2>1, <2>2, <3>1 DEF AdjustStock, TypeInv, TypeOK, localVars
  <2>3. CASE OpenForm(r)
    BY <1>2, <2>1, <2>3 DEF OpenForm, TypeInv, TypeOK, dbVars, bookVars
  <2>4. CASE SaveProduct(r)
    BY <1>2, <2>1, <2>4 DEF SaveProduct, TypeInv, TypeOK, localVars
  <2>5. CASE FindProduct(r)
    BY <2>5 DEF FindProduct, TypeInv, TypeOK, dbVars, localVars, bookVars
  <2>6. CASE DropProduct(r)
    BY <1>2, <2>6 DEF DropProduct, TypeInv, TypeOK, localVars
  <2>7. CASE SaveVoucher(r)
    <3>1. Voucher \in Counters
      BY DEF Counters
    <3>2. QED
      BY <2>7, <3>1 DEF SaveVoucher, TypeInv, TypeOK, localVars
  <2>8. QED
    BY <2>2, <2>3, <2>4, <2>5, <2>6, <2>7 DEF Manage
<1>6. TypeOK'
  BY <1>3, <1>4, <1>5 DEF TypeInv, TypeOK, txVars, clockVars, Labels, Managing, Ended
<1>7. ASSUME NEW x \in Requests PROVE HandlerOK(x)'
  BY <1>1, <1>3, <1>4 DEF TypeInv, TypeOK, HandlerOK, Creating, Changing, Managing, Ended,
     Writing
<1>8. QED
  BY <1>6, <1>7 DEF TypeInv

LEMMA TypeEnvironment ==
  ASSUME TypeInv, Crash \/ Midnight \/ LocalMidnight
  PROVE  TypeInv'
<1>1. CASE Crash
  <2>1. TypeOK'
    BY <1>1 DEF Crash, TypeInv, TypeOK, dbVars, localVars, clockVars, bookVars, Blank,
       Labels, Ended, Rows
  <2>2. ASSUME NEW x \in Requests PROVE HandlerOK(x)'
    BY <1>1 DEF Crash, Running, TypeInv, TypeOK, HandlerOK, dbVars, localVars, Creating,
       Changing, Ended, Writing
  <2>3. QED
    BY <2>1, <2>2 DEF TypeInv
<1>2. CASE Midnight \/ LocalMidnight
  <2>1. TypeOK'
    BY <1>2, ClockAssumption DEF Midnight, LocalMidnight, TypeInv, TypeOK, dbVars,
       txVars, localVars, bookVars
  <2>2. ASSUME NEW x \in Requests PROVE HandlerOK(x)'
    BY <1>2 DEF Midnight, LocalMidnight, TypeInv, HandlerOK, dbVars, localVars
  <2>3. QED
    BY <2>1, <2>2 DEF TypeInv
<1>3. QED
  BY <1>1, <1>2

(* A handler that rolls back has started and has not committed an order.   *)
LEMMA TypeAbort ==
  ASSUME TypeInv, NEW r \in Requests,
         \/ RefuseProduct(r) \/ RefusePrice(r) \/ RefuseInvoice(r) \/ RefuseOrder(r)
         \/ RefuseProductForm(r) \/ StatementFails(r) \/ DeadlockVictim(r)
  PROVE  TypeInv'
<1>1. Rollback(r) /\ pc[r] \notin {"idle", "announce"} \cup Ended
  <2>1. CASE \/ RefuseProduct(r) \/ RefusePrice(r) \/ RefuseInvoice(r) \/ RefuseOrder(r)
             \/ RefuseProductForm(r)
    BY <2>1 DEF RefuseProduct, RefusePrice, RefuseInvoice, RefuseOrder, RefuseProductForm,
       Ended
  <2>2. CASE StatementFails(r)
    BY <2>2 DEF StatementFails, Running
  <2>3. CASE DeadlockVictim(r)
    <3>1. PICK s \in Requests : WaitsFor(r, s)
      BY <2>3 DEF DeadlockVictim, WaitCycle
    <3>2. pc[r] = "insert" \/ Wanted(r) # {}
      BY <3>1 DEF WaitsFor
    <3>3. pc[r] \in {"insert", "stock", "restock", "voucher", "mark", "save", "adjust",
                     "edit", "drop", "terms"}
      BY <3>2 DEF Wanted
    <3>4. QED
      BY <2>3, <3>3 DEF DeadlockVictim, Ended
  <2>4. QED
    BY <2>1, <2>2, <2>3
<1>2. pc[r] # "idle" /\ r \notin placed
  BY <1>1 DEF TypeInv, HandlerOK, Ended
<1>3. QED
  BY <1>1, <1>2, TypeRollback

LEMMA TypeNext == TypeInv /\ [Next]_vars => TypeInv'
<1> SUFFICES ASSUME TypeInv, [Next]_vars PROVE TypeInv'
  OBVIOUS
<1>1. CASE UNCHANGED vars
  <2>1. TypeOK'
    BY <1>1 DEF TypeInv, TypeOK, vars, dbVars, txVars, localVars, clockVars, bookVars
  <2>2. ASSUME NEW x \in Requests PROVE HandlerOK(x)'
    BY <1>1 DEF TypeInv, HandlerOK, vars, dbVars, localVars
  <2>3. QED
    BY <2>1, <2>2 DEF TypeInv
<1>2. CASE Environment
  <2>1. CASE Midnight \/ LocalMidnight \/ Crash
    BY <2>1, TypeEnvironment
  <2>2. ASSUME NEW r \in Requests, Start(r) \/ StatementFails(r) \/ DeadlockVictim(r)
        PROVE  TypeInv'
    BY <2>2, TypeStart, TypeAbort
  <2>3. QED
    BY <1>2, <2>1, <2>2 DEF Environment
<1>3. ASSUME NEW r \in Requests, Handler(r)
      PROVE  TypeInv'
  <2>1. CASE CreateOrder(r)
    BY <2>1, TypeReadProduct, TypeNumbering, TypeTakeStock, TypeCountVoucher,
       TypeReadBack, TypeCommit, TypeAnnounce, TypeAbort DEF CreateOrder
  <2>2. CASE ChangeOrder(r)
    BY <2>2, TypeFindOrder, TypeReturnStock, TypeOrderRow, TypeAbort DEF ChangeOrder
  <2>3. QED
    BY <1>3, <2>1, <2>2, TypeManage, TypeAbort DEF Handler
<1>4. QED
  BY <1>1, <1>2, <1>3 DEF Next, Idle

(* Type correctness: whatever the requests carry and however they          *)
(* interleave, fail or crash, every row and handler keeps its type.        *)
THEOREM TypeCorrect == Spec => []TypeOK
<1>1. TypeInv => TypeOK
  BY DEF TypeInv
<1>2. QED
  BY TypeInit, TypeNext, <1>1, PTL DEF Spec, Safety

-----------------------------------------------------------------------------
(* Invoice numbers, for either setting of the backend's clock.  None of    *)
(* the three properties is inductive.  What carries them is the path of a  *)
(* number: it names a day that is not in the future; it is at most one     *)
(* more than the orders made on that day; the order is stamped on that day *)
(* or later; and the index lets it into the table once.                    *)

Dated   == {"count", "stamp", "insert"} \cup Writing
Counted == {"stamp", "insert"} \cup Writing
Stamped(r) == pc[r] \in {"insert"} \cup Writing \/ r \in placed
Kept(r)    == Inserted(r) \/ r \in placed

Made(d) == Cardinality(MadeOn(d))
Seqs(d) == {invoice[o].seq : o \in {x \in placed : invoice[x].day = d}}

NumberOK(r) ==
  /\ pc[r] \in Dated => invoice[r].day <= today
  /\ pc[r] \in Counted => invoice[r].seq <= Made(invoice[r].day) + 1
  /\ Stamped(r) => invoice[r].day <= made[r] /\ made[r] <= today
  /\ r \in placed /\ made[r] = invoice[r].day
       => invoice[r].seq <= Made(invoice[r].day)

Distinct ==
  \A r, s \in Requests : Kept(r) /\ Kept(s) /\ invoice[r] = invoice[s] => r = s

Dense == \A d \in Int : Clean(d) => Seqs(d) = 1 .. Made(d)

InvoiceInv == (\A r \in Requests : NumberOK(r)) /\ Distinct /\ Dense

LEMMA MadeNat ==
  ASSUME TypeInv, NEW d
  PROVE  IsFiniteSet(MadeOn(d)) /\ Made(d) \in Nat
<1>1. MadeOn(d) \subseteq Requests
  BY DEF TypeInv, TypeOK, MadeOn
<1>2. QED
  BY <1>1, RequestsFinite, FS_Subset, FS_CardinalityType DEF Made

(* The types the arithmetic below needs.                                   *)
LEMMA NumberTypes ==
  ASSUME TypeInv, NEW r \in Requests
  PROVE  /\ invoice[r].day \in Int /\ invoice[r].seq \in Nat \ {0}
         /\ made[r] \in Int /\ today \in Nat /\ lag \in {0, 1}
         /\ pc[r] \in {"idle"} \cup Creating => r \notin placed
  BY DEF TypeInv, TypeOK, HandlerOK, Creating, Writing, Ended

LEMMA InvoiceInit == Init => InvoiceInv
<1> SUFFICES ASSUME Init PROVE InvoiceInv
  OBVIOUS
<1>1. \A r \in Requests : NumberOK(r) /\ ~ Kept(r)
  BY DEF Init, NumberOK, Dated, Counted, Stamped, Kept, Inserted, Writing
<1>2. ASSUME NEW d \in Int PROVE Seqs(d) = 1 .. Made(d)
  <2>1. MadeOn(d) = {} /\ Seqs(d) = {}
    BY DEF Init, MadeOn, Seqs
  <2>2. QED
    BY <2>1, FS_EmptySet DEF Made
<1>3. QED
  BY <1>1, <1>2 DEF InvoiceInv, Distinct, Dense

-----------------------------------------------------------------------------
(* Steps that leave the numbers alone: no handler comes nearer to having   *)
(* a number in the table than it was.                                      *)

Quiet ==
  /\ UNCHANGED <<placed, invoice, made>>
  /\ today' \in Nat /\ today <= today'
  /\ \A x \in Requests : \/ pc'[x] = pc[x]
                         \/ pc'[x] \notin Dated
                         \/ {pc[x], pc'[x]} \subseteq Writing

LEMMA QuietStep ==
  ASSUME TypeInv, InvoiceInv, Quiet
  PROVE  InvoiceInv'
<1>1. \A d : MadeOn(d)' = MadeOn(d) /\ Made(d)' = Made(d) /\ Seqs(d)' = Seqs(d)
  BY DEF Quiet, MadeOn, Made, Seqs
<1>2. \A x \in Requests : /\ pc'[x] \in Dated => pc[x] \in Dated
                          /\ pc'[x] \in Counted => pc[x] \in Counted
                          /\ Stamped(x)' => Stamped(x)
                          /\ Kept(x)' => Kept(x)
  BY DEF Quiet, Dated, Counted, Stamped, Kept, Inserted, Writing
<1>3. ASSUME NEW x \in Requests PROVE NumberOK(x)'
  <2>1. NumberOK(x) /\ invoice'[x] = invoice[x] /\ made'[x] = made[x]
    BY DEF InvoiceInv, Quiet
  <2>2. /\ Made(invoice[x].day)' = Made(invoice[x].day)
        /\ placed' = placed /\ today <= today' /\ today' \in Nat
    BY <1>1 DEF Quiet
  <2>3. QED
    BY <1>2, <2>1, <2>2, NumberTypes DEF NumberOK
<1>4. Distinct'
  BY <1>2 DEF InvoiceInv, Distinct, Quiet
<1>5. Dense'
  <2>1. \A d : Clean(d)' = Clean(d)
    BY DEF Quiet, Clean
  <2>2. QED
    BY <1>1, <2>1 DEF InvoiceInv, Dense
<1>6. QED
  BY <1>3, <1>4, <1>5 DEF InvoiceInv

LEMMA QuietRollback ==
  ASSUME TypeInv, NEW r \in Requests, Rollback(r)
  PROVE  Quiet
  BY DEF Rollback, Goto, Quiet, TypeInv, TypeOK, dbVars, localVars, clockVars, Dated, Writing

LEMMA QuietAbort ==
  ASSUME TypeInv, NEW r \in Requests,
         \/ RefuseProduct(r) \/ RefusePrice(r) \/ RefuseInvoice(r) \/ RefuseOrder(r)
         \/ RefuseProductForm(r) \/ StatementFails(r) \/ DeadlockVictim(r)
  PROVE  Quiet
  BY QuietRollback DEF RefuseProduct, RefusePrice, RefuseInvoice, RefuseOrder,
     RefuseProductForm, StatementFails, DeadlockVictim

(* A step of r that takes it to a label outside Dated, or from one label   *)
(* of Writing to another.                                                  *)
LEMMA QuietGoto ==
  ASSUME TypeInv, NEW r \in Requests, NEW l \in Labels,
         pc' = [pc EXCEPT ![r] = l] \/ UNCHANGED pc,
         l \notin Dated \/ {pc[r], l} \subseteq Writing,
         UNCHANGED <<placed, invoice, made, today>>
  PROVE  Quiet
  BY DEF Quiet, TypeInv, TypeOK

LEMMA QuietSell ==
  ASSUME TypeInv, NEW r \in Requests,
         ReadProduct(r) \/ TakeStock(r) \/ CountVoucher(r) \/ ReadBack(r) \/ Announce(r)
  PROVE  Quiet
<1>1. UNCHANGED <<placed, invoice, made, today>>
  BY DEF ReadProduct, TakeStock, CountVoucher, ReadBack, Announce, dbVars, localVars, clockVars
<1>2. CASE ReadProduct(r)
  <2>1. (pc' = [pc EXCEPT ![r] = "price"] \/ UNCHANGED pc)
    BY <1>2 DEF ReadProduct, NextItem, Goto
  <2>2. "price" \in Labels /\ "price" \notin Dated
    BY DEF Labels, Dated, Creating, Writing
  <2>3. QED
    BY <1>1, <2>1, <2>2, QuietGoto
<1>3. CASE TakeStock(r)
  <2>1. PICK l \in {"voucher", "warn"} : pc' = [pc EXCEPT ![r] = l] \/ UNCHANGED pc
    BY <1>3 DEF TakeStock, NextItem, Goto
  <2>2. l \in Labels /\ {pc[r], l} \subseteq Writing
    BY <1>3 DEF TakeStock, Labels, Creating, Writing
  <2>3. QED
    BY <1>1, <2>1, <2>2, QuietGoto
<1>4. CASE CountVoucher(r)
  <2>1. /\ pc' = [pc EXCEPT ![r] = "warn"]
        /\ "warn" \in Labels /\ {pc[r], "warn"} \subseteq Writing
    BY <1>4 DEF CountVoucher, Goto, Labels, Creating, Writing
  <2>2. QED
    BY <1>1, <2>1, QuietGoto
<1>5. CASE ReadBack(r)
  <2>1. /\ pc' = [pc EXCEPT ![r] = "commit"] \/ UNCHANGED pc
        /\ "commit" \in Labels /\ {pc[r], "commit"} \subseteq Writing
    BY <1>5 DEF ReadBack, NextItem, Goto, Labels, Creating, Writing
  <2>2. QED
    BY <1>1, <2>1, QuietGoto
<1>6. CASE Announce(r)
  <2>1. pc' = [pc EXCEPT ![r] = "done"] /\ "done" \in Labels /\ "done" \notin Dated
    BY <1>6 DEF Announce, Goto, Labels, Dated, Ended, Writing
  <2>2. QED
    BY <1>1, <2>1, QuietGoto
<1>7. QED
  BY <1>2, <1>3, <1>4, <1>5, <1>6

LEMMA QuietChange ==
  ASSUME TypeInv, NEW r \in Requests,
         \/ FindOrder(r) \/ ReturnStock(r) \/ MarkCancelled(r) \/ CommitCancel(r)
         \/ SaveOrder(r) \/ (Manage(r) /\ ~ RefuseProductForm(r))
  PROVE  Quiet
<1>1. UNCHANGED <<placed, invoice, made, today>>
  BY DEF FindOrder, ReturnStock, MarkCancelled, CommitCancel, SaveOrder, Manage,
     AdjustStock, OpenForm, SaveProduct, FindProduct, DropProduct,
     SaveVoucher, dbVars, localVars, clockVars
<1>2. PICK l \in Changing \cup Ended \cup {"edit", "drop"} :
        pc' = [pc EXCEPT ![r] = l] \/ UNCHANGED pc
  BY DEF FindOrder, ReturnStock, NextItem, MarkCancelled, CommitCancel, SaveOrder,
     Manage, AdjustStock, OpenForm, SaveProduct, FindProduct, DropProduct,
     SaveVoucher, Goto, Changing, Ended
<1>3. l \in Labels /\ l \notin Dated
  BY DEF Labels, Changing, Managing, Ended, Dated, Writing
<1>4. QED
  BY <1>1, <1>2, <1>3, QuietGoto

LEMMA QuietEnvironment ==
  ASSUME TypeInv, \/ Midnight \/ LocalMidnight \/ Crash \/ UNCHANGED vars
                  \/ \E r \in Requests : Start(r)
  PROVE  Quiet
<1>1. CASE Midnight \/ LocalMidnight \/ UNCHANGED vars
  BY <1>1 DEF Midnight, LocalMidnight, Quiet, TypeInv, TypeOK, vars, dbVars, localVars,
     clockVars
<1>2. CASE Crash
  BY <1>2 DEF Crash, Quiet, TypeInv, TypeOK, dbVars, localVars, clockVars, Dated, Writing
<1>3. ASSUME NEW r \in Requests, Start(r)
      PROVE  Quiet
  <2>1. PICK k : pc' = [pc EXCEPT ![r] = FirstLabel(k)]
    BY <1>3 DEF Start, Goto
  <2>2. FirstLabel(k) \in Labels /\ FirstLabel(k) \notin Dated
    <3>1. FirstLabel(k) \in {"read", "adjust", "open", "look", "terms", "find"}
      BY ZenonT(30) DEF FirstLabel
    <3>2. QED
      BY <3>1 DEF Labels, Creating, Changing, Managing, Dated, Writing
  <2>3. QED
    BY <1>3, <2>1, <2>2, QuietGoto DEF Start, dbVars, localVars, clockVars
<1>4. QED
  BY <1>1, <1>2, <1>3

-----------------------------------------------------------------------------
(* Steps of one order not yet in the table: its own number may change, and *)
(* nothing else does.                                                      *)

Own(r) ==
  /\ r \notin placed /\ UNCHANGED <<placed, today>>
  /\ \A x \in Requests \ {r} :
       pc'[x] = pc[x] /\ invoice'[x] = invoice[x] /\ made'[x] = made[x]

LEMMA OwnStep ==
  ASSUME TypeInv, InvoiceInv, NEW r \in Requests, Own(r), NumberOK(r)',
         Kept(r)' => \A s \in Requests : Kept(s) /\ s # r => invoice[s] # invoice'[r]
  PROVE  InvoiceInv'
<1>1. placed \subseteq Requests /\ \A o \in placed : o # r
  BY DEF Own, TypeInv, TypeOK
<1>2. \A d : /\ MadeOn(d)' = MadeOn(d) /\ Made(d)' = Made(d)
             /\ Seqs(d)' = Seqs(d) /\ Clean(d)' = Clean(d)
  <2>1. \A o \in placed : invoice'[o] = invoice[o] /\ made'[o] = made[o]
    BY <1>1 DEF Own
  <2>2. QED
    BY <2>1 DEF Own, MadeOn, Made, Seqs, Clean
<1>3. ASSUME NEW x \in Requests PROVE NumberOK(x)'
  <2>1. CASE x = r
    BY <2>1
  <2>2. CASE x # r
    <3>1. /\ NumberOK(x) /\ pc'[x] = pc[x] /\ invoice'[x] = invoice[x]
          /\ made'[x] = made[x] /\ placed' = placed /\ today' = today
      BY <2>2 DEF InvoiceInv, Own
    <3>2. Made(invoice[x].day)' = Made(invoice[x].day)
      BY <1>2, <3>1
    <3>3. QED
      BY <3>1, <3>2 DEF NumberOK, Stamped
  <2>3. QED
    BY <2>1, <2>2
<1>4. Distinct'
  <2> SUFFICES ASSUME NEW x \in Requests, NEW y \in Requests,
                      Kept(x)', Kept(y)', invoice'[x] = invoice'[y]
               PROVE  x = y
    BY DEF Distinct
  <2>1. \A z \in Requests : z # r => invoice'[z] = invoice[z] /\ (Kept(z)' => Kept(z))
    BY DEF Own, Kept, Inserted
  <2>2. QED
    BY <2>1 DEF InvoiceInv, Distinct
<1>5. Dense'
  BY <1>2 DEF InvoiceInv, Dense
<1>6. QED
  BY <1>3, <1>4, <1>5 DEF InvoiceInv

LEMMA OwnGoto ==
  ASSUME TypeInv, NEW r \in Requests,
         Price(r) \/ CountInvoice(r) \/ StampOrder(r) \/ InsertOrder(r)
  PROVE  /\ Own(r)
         /\ InsertOrder(r) \/ pc'[r] \in {"count", "stamp", "insert"}
<1>1. pc[r] \in Creating
  BY DEF Price, CountInvoice, StampOrder, InsertOrder, Creating
<1>2. r \notin placed
  BY <1>1, NumberTypes
<1>3. \E l \in {"count", "stamp", "insert", "stock"} :
        /\ pc' = [pc EXCEPT ![r] = l]
        /\ l = "stock" => InsertOrder(r)
  BY DEF Price, CountInvoice, StampOrder, InsertOrder, Goto
<1>4. UNCHANGED <<placed, today>>
  BY DEF Price, CountInvoice, StampOrder, InsertOrder, dbVars, clockVars
<1>5. \A x \in Requests \ {r} : invoice'[x] = invoice[x] /\ made'[x] = made[x]
  BY DEF Price, CountInvoice, StampOrder, InsertOrder, localVars, TypeInv, TypeOK
<1>6. QED
  BY <1>2, <1>3, <1>4, <1>5 DEF Own, TypeInv, TypeOK

LEMMA PriceStep ==
  ASSUME TypeInv, InvoiceInv, NEW r \in Requests, Price(r)
  PROVE  InvoiceInv'
<1>1. Own(r) /\ pc'[r] = "count" /\ r \notin placed' /\ today' = today
  BY OwnGoto DEF Own, Price, Goto, TypeInv, TypeOK
<1>2. invoice'[r].day = LocalDay
  BY DEF Price, TypeInv, TypeOK
<1>3. invoice'[r].day <= today'
  BY <1>1, <1>2, NumberTypes DEF LocalDay
<1>4. NumberOK(r)' /\ ~ Kept(r)'
  BY <1>1, <1>3 DEF NumberOK, Counted, Stamped, Kept, Inserted, Writing
<1>5. QED
  BY <1>1, <1>4, OwnStep

LEMMA CountStep ==
  ASSUME TypeInv, InvoiceInv, NEW r \in Requests, CountInvoice(r)
  PROVE  InvoiceInv'
<1>1. /\ Own(r) /\ pc[r] = "count" /\ pc'[r] = "stamp" /\ r \notin placed'
      /\ today' = today /\ placed' = placed /\ made' = made
  BY OwnGoto DEF Own, CountInvoice, Goto, TypeInv, TypeOK
<1>2. PICK n \in {NextSeq(invoice[r].day), 1} :
        invoice' = [invoice EXCEPT ![r] = [invoice[r] EXCEPT !.seq = n]]
  BY DEF CountInvoice, TypeInv, TypeOK
<1>3. invoice'[r].day = invoice[r].day /\ invoice'[r].seq = n
  BY <1>2 DEF TypeInv, TypeOK
<1>4. invoice'[r].day <= today'
  BY <1>1, <1>3 DEF InvoiceInv, NumberOK, Dated
<1>5. (invoice[r].seq <= Made(invoice[r].day) + 1)'
  <2>1. \A d : Made(d)' = Made(d)
    BY <1>1 DEF Made, MadeOn
  <2>2. n <= Made(invoice[r].day) + 1
    BY <1>2, MadeNat DEF NextSeq, Made
  <2>3. QED
    BY <1>3, <2>1, <2>2
<1>6. NumberOK(r)' /\ ~ Kept(r)'
  BY <1>1, <1>4, <1>5 DEF NumberOK, Counted, Stamped, Kept, Inserted, Writing
<1>7. QED
  BY <1>1, <1>6, OwnStep

LEMMA StampStep ==
  ASSUME TypeInv, InvoiceInv, NEW r \in Requests, StampOrder(r)
  PROVE  InvoiceInv'
<1>1. /\ Own(r) /\ pc[r] = "stamp" /\ pc'[r] = "insert" /\ r \notin placed
      /\ today' = today /\ placed' = placed /\ invoice' = invoice
      /\ made' = [made EXCEPT ![r] = today]
  BY OwnGoto DEF Own, StampOrder, Goto, TypeInv, TypeOK
<1>2. made'[r] = today
  BY <1>1 DEF TypeInv, TypeOK
<1>3. NumberOK(r) /\ invoice[r].day <= today /\ invoice[r].seq <= Made(invoice[r].day) + 1
  BY <1>1 DEF InvoiceInv, NumberOK, Dated, Counted
<1>4. Made(invoice[r].day)' = Made(invoice[r].day)
  <2>1. \A o \in placed : made'[o] = made[o]
    BY <1>1 DEF Own, TypeInv, TypeOK
  <2>2. QED
    BY <1>1, <2>1 DEF Made, MadeOn
<1>5. NumberOK(r)' /\ ~ Kept(r)'
  BY <1>1, <1>2, <1>3, <1>4, NumberTypes
  DEF NumberOK, Counted, Stamped, Kept, Inserted, Writing
<1>6. QED
  BY <1>1, <1>5, OwnStep

(* The index: a number enters the table if no order in it has that number, *)
(* committed or not.                                                       *)
LEMMA InsertStep ==
  ASSUME TypeInv, InvoiceInv, NEW r \in Requests, InsertOrder(r)
  PROVE  InvoiceInv'
<1>1. /\ Own(r) /\ pc[r] = "insert" /\ pc'[r] = "stock" /\ r \notin placed
      /\ UNCHANGED <<today, placed, invoice, made>>
  BY OwnGoto DEF Own, InsertOrder, Goto, dbVars, localVars, TypeInv, TypeOK
<1>2. NumberOK(r) /\ Made(invoice[r].day)' = Made(invoice[r].day)
  BY <1>1 DEF InvoiceInv, Made, MadeOn
<1>3. NumberOK(r)'
  BY <1>1, <1>2 DEF NumberOK, Dated, Counted, Stamped, Writing
<1>4. \A s \in Requests : Kept(s) /\ s # r => invoice[s] # invoice'[r]
  BY <1>1 DEF InsertOrder, InvoiceTaken, InvoicePending, Kept
<1>5. QED
  BY <1>1, <1>3, <1>4, OwnStep

-----------------------------------------------------------------------------
(* The commit of an order.                                                 *)

(* On a clean day, the number of an order still in its transaction is the  *)
(* one after all committed numbers.                                        *)
LEMMA OpenNumber ==
  ASSUME TypeInv, InvoiceInv, NEW r \in Requests, Inserted(r), Clean(invoice[r].day)
  PROVE  invoice[r].seq = Made(invoice[r].day) + 1
<1> DEFINE d == invoice[r].day
           n == Made(d)
<1>1. d \in Int /\ invoice[r].seq \in Nat \ {0} /\ n \in Nat /\ r \notin placed
  BY NumberTypes, MadeNat DEF Inserted, Creating
<1>2. invoice[r].seq <= n + 1
  BY DEF Inserted, Counted, InvoiceInv, NumberOK
<1>3. invoice[r].seq \notin 1 .. n
  <2> SUFFICES ASSUME invoice[r].seq \in 1 .. n PROVE FALSE
    OBVIOUS
  <2>1. Seqs(d) = 1 .. n
    BY <1>1 DEF InvoiceInv, Dense
  <2>2. PICK o \in placed : invoice[o].day = d /\ invoice[o].seq = invoice[r].seq
    BY <2>1 DEF Seqs
  <2>3. o \in Requests /\ invoice[o] = invoice[r]
    BY <2>2 DEF TypeInv, TypeOK
  <2>4. o = r
    BY <2>3 DEF InvoiceInv, Distinct, Kept
  <2>5. QED
    BY <1>1, <2>4
<1>4. QED
  BY <1>1, <1>2, <1>3

LEMMA CommitMade ==
  ASSUME TypeInv, NEW r \in Requests, r \notin placed,
         placed' = placed \cup {r}, UNCHANGED <<invoice, made>>, NEW d
  PROVE  /\ made[r] # d => Made(d)' = Made(d)
         /\ made[r] = d => Made(d)' = Made(d) + 1
<1>1. CASE made[r] = d
  <2>1. MadeOn(d)' = MadeOn(d) \cup {r} /\ r \notin MadeOn(d)
    BY <1>1 DEF MadeOn
  <2>2. QED
    BY <1>1, <2>1, MadeNat, FS_AddElement DEF Made
<1>2. CASE made[r] # d
  BY <1>2 DEF Made, MadeOn
<1>3. QED
  BY <1>1, <1>2

LEMMA CommitStep ==
  ASSUME TypeInv, InvoiceInv, NEW r \in Requests, Commit(r)
  PROVE  InvoiceInv'
<1>1. /\ Inserted(r) /\ placed' = placed \cup {r} /\ UNCHANGED <<invoice, made, today>>
      /\ pc'[r] \in {"announce", "failed"}
      /\ \A x \in Requests \ {r} : pc'[x] = pc[x]
  BY DEF Commit, Inserted, Writing, localVars, clockVars, Goto, TypeInv, TypeOK
<1>2. r \notin placed
  BY <1>1, NumberTypes DEF Inserted, Creating
<1>3. \A d : /\ made[r] # d => Made(d)' = Made(d)
             /\ made[r] = d => Made(d)' = Made(d) + 1
             /\ Made(d) \in Nat
  BY <1>1, <1>2, CommitMade, MadeNat
<1>4. \A d : Made(d) <= Made(d)' /\ Made(d)' \in Nat
  BY <1>3
<1>5. ASSUME NEW x \in Requests PROVE NumberOK(x)'
  <2> DEFINE d == invoice[x].day
  <2>1. NumberOK(x) /\ Made(d) <= Made(d)' /\ Made(d)' \in Nat /\ Made(d) \in Nat
    BY <1>1, <1>3, <1>4 DEF InvoiceInv
  <2>2. CASE x # r
    BY <1>1, <2>1, <2>2, NumberTypes DEF NumberOK, Stamped, Counted, Dated
  <2>3. CASE x = r
    <3>1. /\ pc'[x] \notin Dated /\ pc'[x] \notin Counted
          /\ pc[x] \in Counted /\ Stamped(x)
      BY <1>1, <2>3 DEF Inserted, Dated, Counted, Stamped, Writing
    <3>2. invoice[x].seq <= Made(d) + 1 /\ d <= made[x] /\ made[x] <= today
      BY <2>1, <3>1 DEF NumberOK
    <3>3. made[x] = d => Made(d)' = Made(d) + 1
      BY <1>1, <1>3, <2>3
    <3>4. QED
      BY <1>1, <2>1, <3>1, <3>2, <3>3 DEF NumberOK
  <2>4. QED
    BY <2>2, <2>3
<1>6. Distinct'
  <2>1. \A x \in Requests : Kept(x)' => Kept(x)
    BY <1>1 DEF Kept, Inserted
  <2>2. QED
    BY <1>1, <2>1 DEF InvoiceInv, Distinct
<1>7. ASSUME NEW d \in Int, Clean(d)'
      PROVE  Seqs(d)' = 1 .. Made(d)'
  <2>1. Clean(d) /\ (invoice[r].day = d <=> made[r] = d)
    BY <1>1, <1>7 DEF Clean
  <2>2. Seqs(d) = 1 .. Made(d)
    BY <2>1 DEF InvoiceInv, Dense
  <2>3. CASE made[r] = d
    <3>1. Seqs(d)' = Seqs(d) \cup {invoice[r].seq}
      BY <1>1, <2>1, <2>3 DEF Seqs
    <3>2. invoice[r].seq = Made(d) + 1
      BY <1>1, <2>1, <2>3, OpenNumber
    <3>3. Made(d)' = Made(d) + 1 /\ Made(d) \in Nat
      BY <1>3, <2>3
    <3>4. QED
      BY <2>2, <3>1, <3>2, <3>3
  <2>4. CASE made[r] # d
    <3>1. Seqs(d)' = Seqs(d)
      BY <1>1, <2>1, <2>4 DEF Seqs
    <3>2. QED
      BY <1>3, <2>2, <2>4, <3>1
  <2>5. QED
    BY <2>3, <2>4
<1>8. QED
  BY <1>5, <1>6, <1>7 DEF InvoiceInv, Dense

-----------------------------------------------------------------------------
LEMMA InvoiceNext == TypeInv /\ InvoiceInv /\ [Next]_vars => InvoiceInv'
<1> SUFFICES ASSUME TypeInv, InvoiceInv, [Next]_vars PROVE InvoiceInv'
  OBVIOUS
<1>1. CASE UNCHANGED vars \/ Environment
  BY <1>1, QuietEnvironment, QuietAbort, QuietStep DEF Environment
<1>2. ASSUME NEW r \in Requests, CreateOrder(r) PROVE InvoiceInv'
  BY <1>2, QuietSell, QuietAbort, QuietStep, PriceStep, CountStep, StampStep,
     InsertStep, CommitStep DEF CreateOrder
<1>3. ASSUME NEW r \in Requests, ChangeOrder(r) \/ Manage(r) PROVE InvoiceInv'
  BY <1>3, QuietChange, QuietAbort, QuietStep DEF ChangeOrder
<1>4. QED
  BY <1>1, <1>2, <1>3 DEF Next, Idle, Handler

LEMMA InvoiceAlways == Spec => [](TypeInv /\ InvoiceInv)
  BY TypeInit, TypeNext, InvoiceInit, InvoiceNext, PTL DEF Spec, Safety

(* The numbering does not jam while both clocks show the same date: the    *)
(* number getOrderSequence yields next is not in the table.                *)
THEOREM NumberingNeverJams == Spec => []NextInvoiceFree
<1>1. TypeInv /\ InvoiceInv => NextInvoiceFree
  <2> SUFFICES ASSUME TypeInv, InvoiceInv, lag = 0, NEW o \in placed,
                      invoice[o] = [day |-> LocalDay, seq |-> NextSeq(LocalDay)]
               PROVE  FALSE
    BY DEF NextInvoiceFree, NumberFree
  <2>1. o \in Requests
    BY DEF TypeInv, TypeOK
  <2>2. LocalDay = today /\ Made(today) \in Nat
    BY <2>1, NumberTypes, MadeNat DEF LocalDay
  <2>3. invoice[o].day = today /\ invoice[o].seq = Made(today) + 1
    BY <2>2 DEF NextSeq, Made
  <2>4. made[o] = today
    BY <2>1, <2>3, NumberTypes DEF InvoiceInv, NumberOK, Stamped
  <2>5. invoice[o].seq <= Made(today)
    BY <2>1, <2>3, <2>4 DEF InvoiceInv, NumberOK
  <2>6. QED
    BY <2>2, <2>3, <2>5
<1>2. QED
  BY InvoiceAlways, <1>1, PTL

(* On a day whose orders were all stamped on it, the committed numbers are *)
(* 1, 2, ..., n: no failure, crash or cancellation leaves a gap.           *)
THEOREM NumbersDense == Spec => []InvoicesDense
<1>1. TypeInv /\ InvoiceInv => InvoicesDense
  <2>1. TypeInv => \A d \in 0 .. today : d \in Int
    BY DEF TypeInv, TypeOK
  <2>2. QED
    BY <2>1 DEF InvoiceInv, Dense, InvoicesDense, Seqs, Made
<1>2. QED
  BY InvoiceAlways, <1>1, PTL

(* Only one order of a clean day is between its INSERT and its commit: the *)
(* unique index serialises sales, though the stock check locks nothing.    *)
THEOREM SalesSerialised == Spec => []OneSaleAtATime
<1>1. TypeInv /\ InvoiceInv => OneSaleAtATime
  <2> SUFFICES ASSUME TypeInv, InvoiceInv, NEW r \in Requests, NEW s \in Requests,
                      Inserted(r), Inserted(s), invoice[r].day = invoice[s].day,
                      Clean(invoice[r].day)
               PROVE  r = s
    BY DEF OneSaleAtATime
  <2>1. invoice[r].seq = invoice[s].seq
    BY OpenNumber
  <2>2. invoice[r] = invoice[s]
    <3>1. /\ invoice[r] \in [day : Int, seq : Nat \ {0}]
          /\ invoice[s] \in [day : Int, seq : Nat \ {0}]
      BY DEF TypeInv, TypeOK
    <3>2. QED
      BY <2>1, <3>1
  <2>3. QED
    BY <2>2 DEF InvoiceInv, Distinct, Kept
<1>2. QED
  BY InvoiceAlways, <1>1, PTL

=============================================================================
