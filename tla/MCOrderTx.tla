------------------------------ MODULE MCOrderTx ------------------------------
(* Instances of OrderTx for TLC: the jobs each request may carry.          *)
EXTENDS OrderTx, TLC

CONSTANTS a, b, c, rice, milk

One(x)     == <<[product |-> x, qty |-> 1]>>
Two(x, y)  == One(x) \o One(y)
Twice(x)   == <<[product |-> x, qty |-> 1], [product |-> x, qty |-> 2]>>
Minus(x)   == <<[product |-> x, qty |-> -1]>>

Sale(cart, v, paid) == [kind |-> "create", cart |-> cart, voucher |-> v, pays |-> paid]
On(k, o)            == [kind |-> k, order |-> o]
SetStatus(o, s)     == [kind |-> "update", order |-> o, status |-> s]
Adjust(x, n)        == [kind |-> "adjust", product |-> x, qty |-> n]
Drop(x)             == [kind |-> "drop", product |-> x]
Terms               == [kind |-> "terms"]
Edit(x, on)         == [kind |-> "edit", product |-> x, active |-> on]

MCStatuses == {"paid", "cancelled"}
MCOpening  == [x \in {rice, milk} |-> IF x = rice THEN 3 ELSE 2]
MCMinStock == [x \in {rice, milk} |-> 1]

(* Two tills sell while the back office cancels, edits, corrects, deletes  *)
(* or renews the voucher.  One sale is of less than nothing, which the     *)
(* server books like any other.                                            *)
CoreWork ==
  a :> {Sale(Two(rice, milk), TRUE, TRUE), Sale(Twice(rice), FALSE, TRUE)}
  @@ b :> {Sale(Two(milk, rice), TRUE, TRUE), Sale(Minus(rice), FALSE, TRUE),
          Sale(One(rice), FALSE, FALSE), On("cancel", a), Drop(rice)}
  @@ c :> {On("cancel", a), On("delete", a), SetStatus(a, "paid"), SetStatus(a, ""),
           Adjust(rice, 2), Edit(rice, FALSE), Edit(milk, TRUE), Drop(rice), Drop(milk), Terms}

(* Three sales of one product around midnight, and a cancellation.         *)
DayWork ==
  a :> {Sale(One(rice), FALSE, TRUE)}
  @@ b :> {Sale(One(rice), FALSE, TRUE)}
  @@ c :> {Sale(One(rice), FALSE, TRUE), On("cancel", a)}

(* Three tills after the last piece of rice.                                  *)
LastPiece == [x \in {rice, milk} |-> 1]
RaceWork  == [r \in {a, b, c} |-> {Sale(One(rice), TRUE, TRUE)}]

(* One order, cancelled twice.                                             *)
CancelWork ==
  a :> {Sale(Two(rice, milk), FALSE, TRUE)}
  @@ b :> {On("cancel", a)}
  @@ c :> {On("cancel", a)}
=============================================================================
