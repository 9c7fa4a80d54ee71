------------------------------- MODULE Checkout -------------------------------
(***************************************************************************)
(* The till and the server over one cart after another: the cart store,    *)
(* the voucher field, which asks the server for the discount at every key, *)
(* the payment dialog, and the part of CreateOrder that prices the cart    *)
(* again.  Calls and their answers travel; meanwhile the cashier goes on,  *)
(* and an admin may withdraw a voucher or change the tax rate.             *)
(*                                                                         *)
(* The dialog adds no state: it can be opened and left at any time, and    *)
(* its amount starts again whenever the total changes.                     *)
(***************************************************************************)
EXTENDS Pricing, FiniteSets, Functions

CONSTANTS
  Lines,     (* cart lines: products                                         *)
  Shown,     (* Shown[l]: the unit price the till put in the cart            *)
  Charged,   (* Charged[l]: products.price, which CreateOrder charges        *)
  Stock,     (* Stock[l]: stock the line was added with, below 0 if oversold *)
  Codes,     (* what the cashier may type as a voucher code                  *)
  NoCode,    (* the empty field                                              *)
  Vouchers,  (* Vouchers[c]: terms of the codes that exist                   *)
  Offers,    (* auto-discounts that are active and in their dates            *)
  Settings,  (* values of store_settings.tax_rate                            *)
  Overpaid,  (* bound: by how much a cash tender may exceed the total        *)
  MaxCalls   (* bound: validations on their way at a time                    *)

ASSUME PriceAssumption ==
  /\ Shown \in [Lines -> Nat \ {0}] /\ Charged \in [Lines -> Nat \ {0}]
  /\ Stock \in [Lines -> Int] /\ IsFiniteSet(Lines)
ASSUME TermAssumption ==
  /\ DOMAIN Vouchers \subseteq Codes /\ NoCode \notin Codes
  /\ \A c \in DOMAIN Vouchers : Vouchers[c] \in VoucherTerms
  /\ Offers \subseteq OfferTerms
ASSUME BoundAssumption ==
  /\ Settings \subseteq Nat /\ Overpaid \subseteq Nat /\ MaxCalls \in Nat

VARIABLES
  items,     (* items[l]: quantity of line l, for the lines in the cart      *)
  code,      (* voucherCode                                                  *)
  discount,  (* voucherDiscount                                              *)
  calls,     (* validations on their way: [code, subtotal, answer]           *)
  order,     (* the checkout on its way                                      *)
  usable,    (* the vouchers active, in their dates and not used up          *)
  setting    (* store_settings.tax_rate                                      *)

cartVars   == <<items, code, discount>>
serverVars == <<usable, setting>>
vars == <<cartVars, calls, order, serverVars>>

EmptyCart == [l \in {} |-> 0]
LinesOf(cart) == DOMAIN cart
Subtotal(price, cart) ==
  SumFunctionOnSet([l \in LinesOf(cart) |-> price[l] * cart[l]], LinesOf(cart))

With(cart, l, n) == [k \in LinesOf(cart) \cup {l} |-> IF k = l THEN n ELSE cart[k]]
Without(cart, l) == [k \in LinesOf(cart) \ {l} |-> cart[k]]

NoOrder == [state |-> "none", items |-> EmptyCart, code |-> NoCode,
            discount |-> 0, tender |-> 0, grand |-> 0]

-----------------------------------------------------------------------------
(* The cart store.                                                         *)

(* addItem: a new line starts at 1, whatever the stock.  A click in the    *)
(* grid is refused for a product without stock before it comes here, the   *)
(* scanner's is not, so that any product may be added.                     *)
AddItem(l) ==
  /\ items' = IF l \notin LinesOf(items) THEN With(items, l, 1)
              ELSE IF items[l] < Stock[l] THEN With(items, l, items[l] + 1)
              ELSE items
  /\ UNCHANGED <<code, discount, calls, order, serverVars>>

(* updateQuantity, from the buttons beside a line; removeItem is n = 0.    *)
UpdateQuantity_NoLimit(l, n) ==
  /\ items' = IF n <= 0 THEN Without(items, l) ELSE With(items, l, n)
  /\ UNCHANGED <<code, discount, calls, order, serverVars>>
UpdateQuantity(l, n) ==
  /\ items' = IF n <= 0 THEN Without(items, l)
              ELSE With(items, l, IF n <= Stock[l] THEN n ELSE Stock[l])
  /\ UNCHANGED <<code, discount, calls, order, serverVars>>

EmptyTheCart ==
  /\ items' = EmptyCart /\ code' = NoCode /\ discount' = 0

ClearCart ==
  /\ LinesOf(items) # {}
  /\ EmptyTheCart
  /\ UNCHANGED <<calls, order, serverVars>>

-----------------------------------------------------------------------------
(* The voucher field.                                                      *)

(* What VoucherService.Validate grants; 0 also stands for its refusals,    *)
(* which the till answers by a discount of 0.                              *)
Honoured(c, x) == c \in usable /\ Vouchers[c].min <= x
Granted(c, x) == IF Honoured(c, x) /\ x > 0 THEN VoucherWorth(Vouchers[c], x) ELSE 0

TypeCode(c) ==
  /\ code' = c
  /\ IF c = NoCode
     THEN discount' = 0 /\ UNCHANGED calls
     ELSE /\ Cardinality(calls) < MaxCalls
          /\ calls' = calls \cup {[code |-> c, subtotal |-> Subtotal(Shown, items),
                                   answer |-> {}]}
          /\ UNCHANGED discount
  /\ UNCHANGED <<items, order, serverVars>>

Validate(v) ==
  /\ v.answer = {}
  /\ calls' = (calls \ {v})
                \cup {[v EXCEPT !.answer = {Granted(v.code, v.subtotal)}]}
  /\ UNCHANGED <<cartVars, order, serverVars>>

(* The answer is taken whatever the cart and the field hold by now; a call *)
(* that fails counts as a refusal.                                         *)
Answer(v) ==
  /\ discount' \in v.answer \cup {0}
  /\ calls' = calls \ {v}
  /\ UNCHANGED <<items, code, order, serverVars>>

-----------------------------------------------------------------------------
(* Checkout.                                                               *)

AfterVoucher == Subtotal(Shown, items) - discount

(* Debit and QRIS tender the total itself, cash anything from there on.    *)
Pay(tender) ==
  /\ LinesOf(items) # {}
  /\ order.state = "none"
  /\ tender >= TillTotal(AfterVoucher)
  /\ order' = [state |-> "sent", items |-> items, code |-> code,
               discount |-> discount, tender |-> tender, grand |-> 0]
  /\ UNCHANGED <<cartVars, calls, serverVars>>

(* The request is forgotten once it is answered.                           *)
Ends(state, grand) == order' = [NoOrder EXCEPT !.state = state, !.grand = grand]

(* CreateOrder prices the cart at the product's price, with the best       *)
(* auto-discount off before the voucher is looked at.  When the query for  *)
(* the discounts fails there is none, and when that for the settings fails *)
(* the rate is the default.                                                *)
Charge(auto, rate) ==
  LET subtotal == Subtotal(Charged, order.items)
      cartSubtotal == subtotal - auto
      voucher == IF order.code = NoCode THEN 0
                 ELSE VoucherWorth(Vouchers[order.code], cartSubtotal)
      grand == GrandTotal(cartSubtotal - voucher, rate)
  IN
  /\ order.state = "sent"
  /\ auto = 0 \/ IsBest(auto, Offers, subtotal, Cardinality(LinesOf(order.items)))
  /\ rate \in {TaxRate(setting), TaxRate(0)}
  /\ CASE order.tender <= 0                       -> Ends("refused", 0)
       [] order.tender > 0 /\ order.code # NoCode
            /\ ~ Honoured(order.code, cartSubtotal) -> Ends("refused", 0)
       [] OTHER -> IF order.tender < grand THEN Ends("short", grand)
                                           ELSE Ends("sold", grand)
  /\ UNCHANGED <<cartVars, calls, serverVars>>

(* Refused for its products or its number, or by a failure: module OrderTx.*)
RefuseElsewhere ==
  /\ order.state = "sent"
  /\ Ends("refused", 0)
  /\ UNCHANGED <<cartVars, calls, serverVars>>

(* A sale empties the cart, with whatever has come into it meanwhile.      *)
Reply ==
  /\ order.state \in {"sold", "short", "refused"}
  /\ order' = NoOrder
  /\ IF order.state = "sold" THEN EmptyTheCart ELSE UNCHANGED cartVars
  /\ UNCHANGED <<calls, serverVars>>

(* The answer is lost: the till reports a failure and keeps the cart.      *)
ReplyLost ==
  /\ order.state # "none"
  /\ order' = NoOrder
  /\ UNCHANGED <<cartVars, calls, serverVars>>

-----------------------------------------------------------------------------
(* The back office switches a voucher off or on again, or other tills use  *)
(* it up.                                                                  *)

SwitchVoucher(c) ==
  /\ usable' = IF c \in usable THEN usable \ {c} ELSE usable \cup {c}
  /\ UNCHANGED <<cartVars, calls, order, setting>>

SetTaxRate(rate) ==
  /\ setting' = rate
  /\ UNCHANGED <<cartVars, calls, order, usable>>

-----------------------------------------------------------------------------
Init ==
  /\ items = EmptyCart /\ code = NoCode /\ discount = 0
  /\ calls = {}
  /\ order = NoOrder
  /\ usable = DOMAIN Vouchers
  /\ setting \in Settings

Till ==
  \/ \E l \in Lines : AddItem(l)
  \/ \E l \in LinesOf(items) :
       \E n \in {0, items[l] - 1, items[l] + 1} : UpdateQuantity(l, n)
  \/ ClearCart
  \/ \E c \in Codes \cup {NoCode} : TypeCode(c)
  \/ \E v \in calls : Answer(v)
  \/ \E over \in Overpaid : Pay(TillTotal(AfterVoucher) + over)
  \/ Reply \/ ReplyLost

AutoDiscounts ==
  {0} \cup {Worth(o, Subtotal(Charged, order.items)) : o \in Offers}

Server ==
  \/ \E v \in calls : Validate(v)
  \/ \E auto \in AutoDiscounts, rate \in {TaxRate(n) : n \in Settings \cup {0}} :
       Charge(auto, rate)
  \/ RefuseElsewhere

Admin == (\E c \in DOMAIN Vouchers : SwitchVoucher(c)) \/ (\E rate \in Settings : SetTaxRate(rate))

Next == Till \/ Server \/ Admin
Spec == Init /\ [][Next]_vars

-----------------------------------------------------------------------------
(* Properties.                                                             *)

TypeOK ==
  /\ LinesOf(items) \subseteq Lines
  /\ \A l \in LinesOf(items) : items[l] \in Int /\ (items[l] = 1 \/ items[l] <= Stock[l])
  /\ code \in Codes \cup {NoCode} /\ discount \in Nat
  /\ \A v \in calls : v.code \in Codes /\ v.subtotal \in Int /\ v.answer \subseteq Nat
  /\ order.state \in {"none", "sent", "sold", "short", "refused"}
  /\ order.tender \in Int /\ order.grand \in Nat
  /\ usable \subseteq DOMAIN Vouchers /\ setting \in Settings

(* The till paid with the server's prices and with the discount Validate   *)
(* grants for the very cart and code it sent.                              *)
Fresh ==
  /\ \A l \in LinesOf(order.items) : Shown[l] = Charged[l]
  /\ order.discount = Granted(order.code, Subtotal(Shown, order.items))

OrderTotal == TillTotal(Subtotal(Shown, order.items) - order.discount)

Charging == order.state = "sent" /\ order'.state \in {"sold", "short"}

(* A tender the till has accepted for a fresh total is never refused as    *)
(* short, though the server rounds the tax another way, takes the best     *)
(* auto-discount first and then works the voucher out of a smaller amount: *)
(* unless the shop's tax rate is above the till's 11.                      *)
NoSurpriseRefusal ==
  [][Charging /\ Fresh /\ setting <= 11 => order'.state = "sold"]_vars

(* On the same condition the sale is charged no more than the till showed, *)
(* and, with no auto-discount, at most one rupiah less.                    *)
ReceiptAsShown ==
  [][(Charging /\ Fresh /\ setting \in {0, 11} /\ OrderTotal >= 0)
       => /\ order'.grand <= OrderTotal
          /\ IsBest(0, Offers, Subtotal(Charged, order.items),
                    Cardinality(LinesOf(order.items)))
               => order'.grand >= OrderTotal - 1]_vars

(* "Pembayaran kurang": the till refuses a short payment, so that none is  *)
(* left for the server to refuse.                                          *)
TillRefusesShort == order.state # "short"

=============================================================================
