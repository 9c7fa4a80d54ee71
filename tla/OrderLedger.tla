----------------------------- MODULE OrderLedger -----------------------------
(***************************************************************************)
(* What the order service promises the shop's books, with no transactions, *)
(* locks or statements: an order, its number, its items' stock, the use of *)
(* its voucher and its low-stock notifications appear in one step or not   *)
(* at all, and so does a cancellation.  OrderTx implements it.             *)
(***************************************************************************)
EXTENDS Integers, Sequences, FiniteSets, Functions

CONSTANTS Orders, Products, Statuses, MinStock

VARIABLES
  stock,   (* stock[p] of each product on the shelf                        *)
  used,    (* uses of the voucher                                          *)
  book,    (* book[o]: number, items and voucher of each order in the book *)
  state,   (* state[o]: the status of each order in the book               *)
  alerts   (* low-stock alerts: [product, order]                           *)

vars == <<stock, used, book, state, alerts>>

Total(items, p) ==
  SumFunctionOnSet([i \in DOMAIN items |-> items[i].qty],
                   {i \in DOMAIN items : items[i].product = p})

Named(items, p) == \E i \in DOMAIN items : items[i].product = p

Extend(f, x, y) == [z \in DOMAIN f \cup {x} |-> IF z = x THEN y ELSE f[z]]

Init ==
  /\ stock \in [Products -> Int]
  /\ used = 0
  /\ DOMAIN book = {} /\ DOMAIN state = {}
  /\ alerts = {}

(* A sale takes a number no order has, and leaves no silent low stock.     *)
Sell(o, entry) ==
  /\ o \notin DOMAIN book
  /\ \A x \in DOMAIN book : book[x].number # entry.number
  /\ book'  = Extend(book, o, entry)
  /\ state' = Extend(state, o, "paid")
  /\ stock' = [p \in DOMAIN stock |-> stock[p] - Total(entry.items, p)]
  /\ used'  = used + IF entry.voucher THEN 1 ELSE 0
  /\ alerts' = alerts \cup
       {[product |-> p, order |-> o] :
          p \in {x \in DOMAIN stock :
                  Named(entry.items, x) /\ stock'[x] <= MinStock[x]}}

Return(o) ==
  /\ o \in DOMAIN book
  /\ state' = [state EXCEPT ![o] = "cancelled"]
  /\ stock' = [p \in DOMAIN stock |-> stock[p] + Total(book[o].items, p)]
  /\ UNCHANGED <<used, book, alerts>>

Relabel(o, s) ==
  /\ o \in DOMAIN book
  /\ state' = [state EXCEPT ![o] = s]
  /\ UNCHANGED <<stock, used, book, alerts>>

(* A delivery, a correction, or a product form saved.                      *)
Recount(p) ==
  /\ DOMAIN stock' = DOMAIN stock
  /\ \A x \in DOMAIN stock \ {p} : stock'[x] = stock[x]
  /\ UNCHANGED <<used, book, state, alerts>>

(* A product leaves the shelf for good, and its alerts with it.            *)
Discontinue(p) ==
  /\ stock'  = [x \in DOMAIN stock \ {p} |-> stock[x]]
  /\ alerts' = {n \in alerts : n.product # p}
  /\ UNCHANGED <<used, book, state>>

(* The voucher's terms are renewed, and its uses counted from 0 again.     *)
Renew ==
  /\ used' = 0
  /\ UNCHANGED <<stock, book, state, alerts>>

(* The entry of a sale is the one found in the book afterwards.            *)
Next ==
  \/ \E o \in Orders : o \in DOMAIN book' /\ Sell(o, book'[o])
  \/ \E o \in Orders : Return(o)
  \/ \E o \in Orders, s \in Statuses : Relabel(o, s)
  \/ \E p \in Products : Recount(p) \/ Discontinue(p)
  \/ Renew

Spec == Init /\ [][Next]_vars
=============================================================================
