---------------------------- MODULE CheckoutProofs ----------------------------
(***************************************************************************)
(* Theorems about the prices of module Pricing, for every subtotal, every  *)
(* auto-discount and every voucher the handlers let into the table, and    *)
(* about the till and the server of module Checkout.                       *)
(*                                                                         *)
(* The argument about prices: what is left of an amount after a voucher    *)
(* never falls when the amount rises (LEMMA RestMonotone), so taking an    *)
(* auto-discount off first cannot leave more to be taxed; and the server's *)
(* tax, truncated at a rate of at most 11, is not above the till's,        *)
(* rounded.                                                                *)
(*                                                                         *)
(* The argument about a checkout: the request under way has been accepted  *)
(* by the payment dialog for the total of the very cart it carries, and    *)
(* the server works with that request alone, whatever the cashier and the  *)
(* admin do meanwhile (CheckoutInv).                                       *)
(***************************************************************************)
EXTENDS Checkout, SumProofs

Rest(v, x) == Taxable(x - VoucherWorth(v, x))

LEMMA DivTypes ==
  ASSUME NEW n \in Int
  PROVE  n \div 100 \in Int /\ 100 * (n \div 100) <= n /\ n < 100 * (n \div 100) + 100
  OBVIOUS

(* Percentages grow with the amount, and more slowly than it up to 100.    *)
LEMMA PercentMonotone ==
  ASSUME NEW x \in Nat, NEW y \in Nat, x <= y, NEW k \in Nat
  PROVE  /\ (x * k) \div 100 \in Nat
         /\ (x * k) \div 100 <= (y * k) \div 100
         /\ k <= 100 => x - (x * k) \div 100 <= y - (y * k) \div 100
         /\ k >= 100 => x <= (x * k) \div 100
<1>1. PICK z \in Nat : y = x + z
  <2>1. y - x \in Nat /\ y = x + (y - x)
    OBVIOUS
  <2>2. QED
    BY <2>1
<1>2. x * k \in Nat /\ z * k \in Nat /\ y * k = x * k + z * k
  BY <1>1
<1>3. k <= 100 => z * k <= 100 * z
  BY <1>1
<1>4. k >= 100 => x * k >= 100 * x
  OBVIOUS
<1> DEFINE a == x * k  b == z * k
<1> HIDE DEF a, b
<1>5. a \in Nat /\ b \in Nat /\ y * k = a + b /\ x * k = a
  BY <1>2 DEF a, b
<1>6. (k <= 100 => b <= 100 * z) /\ (k >= 100 => a >= 100 * x)
  BY <1>3, <1>4 DEF a, b
<1>7. /\ a \div 100 \in Nat /\ a \div 100 <= (a + b) \div 100
      /\ k <= 100 => x - a \div 100 <= y - (a + b) \div 100
      /\ k >= 100 => x <= a \div 100
  BY <1>1, <1>5, <1>6
<1>8. QED
  BY <1>5, <1>7

LEMMA VoucherWorthNat ==
  ASSUME NEW v \in VoucherTerms, NEW x \in Nat
  PROVE  VoucherWorth(v, x) \in Nat
<1>1. v.value \in Nat /\ v.cap \in Nat
  BY DEF VoucherTerms
<1>2. (x * v.value) \div 100 \in Nat
  BY <1>1, PercentMonotone
<1>3. QED
  BY <1>1, <1>2 DEF VoucherWorth, Worth

(* What a voucher leaves to pay does not fall when the amount rises.  That *)
(* takes the cap, and the vouchers above 100 percent, into account.        *)
LEMMA RestMonotone ==
  ASSUME NEW v \in VoucherTerms, NEW x \in Nat, NEW y \in Nat, x <= y
  PROVE  Rest(v, x) <= Rest(v, y)
<1>1. v.value \in Nat /\ v.cap \in Nat
  BY DEF VoucherTerms
<1> DEFINE px == (x * v.value) \div 100  py == (y * v.value) \div 100
<1>2. /\ px \in Nat /\ py \in Nat /\ px <= py
      /\ v.value <= 100 => x - px <= y - py
      /\ v.value >= 100 => x <= px /\ y <= py
  BY <1>1, PercentMonotone
<1> HIDE DEF px, py
<1>3. CASE v.percent
  <2>1. /\ VoucherWorth(v, x) = IF v.capped /\ px > v.cap THEN v.cap ELSE px
        /\ VoucherWorth(v, y) = IF v.capped /\ py > v.cap THEN v.cap ELSE py
    BY <1>3 DEF VoucherWorth, Worth, px, py
  <2>2. CASE v.value <= 100
    BY <1>1, <1>2, <2>1, <2>2 DEF Rest, Taxable
  <2>3. CASE v.value > 100
    BY <1>1, <1>2, <2>1, <2>3 DEF Rest, Taxable
  <2>4. QED
    BY <1>1, <2>2, <2>3
<1>4. CASE ~ v.percent
  <2>1. VoucherWorth(v, x) = v.value /\ VoucherWorth(v, y) = v.value
    BY <1>4 DEF VoucherWorth, Worth
  <2>2. QED
    BY <1>1, <2>1 DEF Rest, Taxable
<1>5. QED
  BY <1>3, <1>4

(* The server's total of a smaller taxable amount, at a rate up to 11, is  *)
(* within the till's total, and at 11 at most one rupiah below.            *)
LEMMA TaxWithin ==
  ASSUME NEW x \in Nat, NEW y \in Nat, x <= y, NEW rate \in Nat, rate <= 11
  PROVE  /\ x + Tax(x, rate) <= TillTotal(y)
         /\ x = y /\ rate = 11 => TillTotal(y) - 1 <= x + Tax(x, rate)
<1>1. x * rate \in Nat /\ x * rate <= 11 * x /\ (rate = 11 => x * rate = 11 * x)
  OBVIOUS
<1> DEFINE a == x * rate
<1> HIDE DEF a
<1>2. /\ a \in Nat /\ a <= 11 * x /\ (rate = 11 => a = 11 * x)
      /\ Tax(x, rate) = a \div 100
  BY <1>1 DEF a, Tax
<1>3. x + a \div 100 <= y + (22 * y + 100) \div 200
  BY <1>2
<1>4. x = y /\ rate = 11 => y + (22 * y + 100) \div 200 - 1 <= x + a \div 100
  BY <1>2
<1>5. QED
  BY <1>2, <1>3, <1>4 DEF TillTotal

(* A cart with a voucher is never charged more than the till showed for    *)
(* it: the till works the voucher out of the full subtotal x and rounds    *)
(* 11 percent, the server takes an auto-discount d off first, then the     *)
(* voucher, and truncates the tax at the shop's rate, if that is not       *)
(* above 11 (CreateOrder lines 129-177 against POSPage lines 87-90).       *)
THEOREM VoucherNeverDearer ==
  ASSUME NEW v \in VoucherTerms, NEW x \in Nat, NEW d \in Nat, x - d >= v.min,
         NEW tax \in Nat, tax <= 11,
         x - VoucherWorth(v, x) >= 0
  PROVE  GrandTotal((x - d) - VoucherWorth(v, x - d), TaxRate(tax))
           <= TillTotal(x - VoucherWorth(v, x))
<1>1. x - d \in Nat /\ x - d <= x
  BY DEF VoucherTerms
<1>2. VoucherWorth(v, x) \in Nat /\ VoucherWorth(v, x - d) \in Nat
  BY <1>1, VoucherWorthNat
<1>3. Rest(v, x - d) <= Rest(v, x) /\ Rest(v, x) = x - VoucherWorth(v, x)
  <2>1. Rest(v, x - d) <= Rest(v, x)
    BY <1>1, RestMonotone
  <2>2. QED
    BY <1>2, <2>1 DEF Rest, Taxable
<1>4. Rest(v, x - d) \in Nat /\ Rest(v, x) \in Nat
  BY <1>1, <1>2 DEF Rest, Taxable
<1>5. TaxRate(tax) \in Nat /\ TaxRate(tax) <= 11
  BY DEF TaxRate
<1>6. Rest(v, x - d) + Tax(Rest(v, x - d), TaxRate(tax)) <= TillTotal(Rest(v, x))
  BY <1>3, <1>4, <1>5, TaxWithin
<1>7. QED
  BY <1>3, <1>6 DEF GrandTotal, Rest

(* The same without a voucher; and with no discount at all the two totals  *)
(* differ by the rounding of the tax, one rupiah at most.                  *)
THEOREM PlainNeverDearer ==
  ASSUME NEW x \in Nat, NEW d \in Nat, NEW tax \in Nat, tax <= 11
  PROVE  /\ GrandTotal(x - d, TaxRate(tax)) <= TillTotal(x)
         /\ d = 0 /\ tax \in {0, 11}
              => GrandTotal(x - d, TaxRate(tax)) >= TillTotal(x) - 1
<1>1. Taxable(x - d) \in Nat /\ Taxable(x - d) <= x /\ (d = 0 => Taxable(x - d) = x)
  BY DEF Taxable
<1>2. /\ TaxRate(tax) \in Nat /\ TaxRate(tax) <= 11
      /\ tax \in {0, 11} => TaxRate(tax) = 11
  BY DEF TaxRate
<1>3. /\ Taxable(x - d) + Tax(Taxable(x - d), TaxRate(tax)) <= TillTotal(x)
      /\ Taxable(x - d) = x /\ TaxRate(tax) = 11
           => TillTotal(x) - 1 <= Taxable(x - d) + Tax(Taxable(x - d), TaxRate(tax))
  BY <1>1, <1>2, TaxWithin
<1>4. Tax(Taxable(x - d), TaxRate(tax)) \in Int /\ TillTotal(x) \in Int
  <2>1. Taxable(x - d) * TaxRate(tax) \in Int
    BY <1>1, <1>2
  <2>2. QED
    BY <2>1, DivTypes DEF Tax, TillTotal
<1>5. QED
  BY <1>1, <1>2, <1>3, <1>4 DEF GrandTotal

-----------------------------------------------------------------------------
(* The till and the server.                                                *)

CartType == UNION {[S -> Int] : S \in SUBSET Lines}
CallType == [code : Codes, subtotal : Int, answer : SUBSET Nat]
OrderType ==
  [state : {"none", "sent", "sold", "short", "refused"}, items : CartType,
   code : Codes \cup {NoCode}, discount : Nat, tender : Int, grand : Nat]

CartTyped ==
  /\ items \in CartType
  /\ \A l \in LinesOf(items) : items[l] = 1 \/ items[l] <= Stock[l]
  /\ code \in Codes \cup {NoCode} /\ discount \in Nat
ServerTyped == usable \subseteq DOMAIN Vouchers /\ setting \in Settings

(* What is on its way has been accepted by the payment dialog.             *)
PaidFor == order.state = "sent" => order.tender >= OrderTotal

CheckoutInv ==
  /\ CartTyped /\ ServerTyped
  /\ calls \subseteq CallType
  /\ order \in OrderType /\ PaidFor

(* The amount the server taxes, and what it asks for it.                   *)
Taxed(auto) ==
  LET rest == Subtotal(Charged, order.items) - auto
  IN  rest - (IF order.code = NoCode THEN 0 ELSE VoucherWorth(Vouchers[order.code], rest))
Bill(auto, rate) == GrandTotal(Taxed(auto), rate)

LEMMA CartFacts ==
  ASSUME NEW cart \in CartType
  PROVE  /\ LinesOf(cart) \subseteq Lines /\ IsFiniteSet(LinesOf(cart))
         /\ cart \in [LinesOf(cart) -> Int]
<1>1. PICK S \in SUBSET Lines : cart \in [S -> Int]
  BY DEF CartType
<1>2. LinesOf(cart) = S
  BY <1>1 DEF LinesOf
<1> QED BY <1>1, <1>2, PriceAssumption, FS_Subset

LEMMA CartMade ==
  ASSUME NEW S \in SUBSET Lines, NEW cart \in [S -> Int]
  PROVE  cart \in CartType
BY DEF CartType

LEMMA EmptyCartTyped == EmptyCart \in CartType /\ LinesOf(EmptyCart) = {}
<1>1. EmptyCart \in [{} -> Int] /\ {} \in SUBSET Lines
  BY DEF EmptyCart
<1>2. LinesOf(EmptyCart) = {}
  BY DEF EmptyCart, LinesOf
<1> QED BY <1>1, <1>2, CartMade

LEMMA WithTyped ==
  ASSUME NEW cart \in CartType, NEW l \in Lines, NEW n \in Int
  PROVE  /\ With(cart, l, n) \in CartType
         /\ LinesOf(With(cart, l, n)) = LinesOf(cart) \cup {l}
         /\ With(cart, l, n)[l] = n
         /\ \A k \in LinesOf(cart) : k # l => With(cart, l, n)[k] = cart[k]
<1>1. LinesOf(cart) \subseteq Lines /\ cart \in [LinesOf(cart) -> Int]
  BY CartFacts
<1> DEFINE S == LinesOf(cart) \cup {l}
<1>2. S \in SUBSET Lines
  BY <1>1
<1>3. \A k \in S : (IF k = l THEN n ELSE cart[k]) \in Int
  BY <1>1
<1>4. With(cart, l, n) = [k \in S |-> IF k = l THEN n ELSE cart[k]]
  BY DEF With
<1> HIDE DEF S
<1>5. With(cart, l, n) \in [S -> Int]
  BY <1>3, <1>4
<1>6. LinesOf(With(cart, l, n)) = S
  BY <1>4 DEF LinesOf
<1>7. l \in S /\ LinesOf(cart) \subseteq S
  BY DEF S
<1> QED BY <1>2, <1>4, <1>5, <1>6, <1>7, CartMade DEF S

LEMMA WithoutTyped ==
  ASSUME NEW cart \in CartType, NEW l
  PROVE  /\ Without(cart, l) \in CartType
         /\ LinesOf(Without(cart, l)) \subseteq LinesOf(cart)
         /\ \A k \in LinesOf(Without(cart, l)) : Without(cart, l)[k] = cart[k]
<1>1. LinesOf(cart) \subseteq Lines /\ cart \in [LinesOf(cart) -> Int]
  BY CartFacts
<1> DEFINE S == LinesOf(cart) \ {l}
<1>2. S \in SUBSET Lines /\ S \subseteq LinesOf(cart)
  BY <1>1
<1>4. Without(cart, l) = [k \in S |-> cart[k]]
  BY DEF Without
<1> HIDE DEF S
<1>5. Without(cart, l) \in [S -> Int]
  BY <1>1, <1>2, <1>4
<1>6. LinesOf(Without(cart, l)) = S
  BY <1>4 DEF LinesOf
<1> QED BY <1>2, <1>4, <1>5, <1>6, CartMade

LEMMA SubtotalInt ==
  ASSUME NEW price \in [Lines -> Nat], NEW cart \in CartType
  PROVE  Subtotal(price, cart) \in Int
<1> DEFINE f == [l \in LinesOf(cart) |-> price[l] * cart[l]]
<1>1. IsFiniteSet(LinesOf(cart)) /\ LinesOf(cart) \subseteq Lines
      /\ cart \in [LinesOf(cart) -> Int]
  BY CartFacts
<1>2. \A l \in LinesOf(cart) : f[l] \in Int
  BY <1>1
<1> HIDE DEF f
<1>3. SumFunctionOnSet(f, LinesOf(cart)) \in Int
  BY <1>1, <1>2, SumInt
<1> QED BY <1>3 DEF Subtotal, f

(* Prices that agree on the lines of a cart give it the same subtotal.     *)
LEMMA SubtotalSame ==
  ASSUME NEW cart \in CartType, \A l \in LinesOf(cart) : Shown[l] = Charged[l]
  PROVE  Subtotal(Shown, cart) = Subtotal(Charged, cart)
<1>1. [l \in LinesOf(cart) |-> Shown[l] * cart[l]]
        = [l \in LinesOf(cart) |-> Charged[l] * cart[l]]
  OBVIOUS
<1> QED BY <1>1 DEF Subtotal

LEMMA PricesTyped == Shown \in [Lines -> Nat] /\ Charged \in [Lines -> Nat]
BY PriceAssumption

LEMMA WorthNat ==
  ASSUME NEW o \in OfferTerms, NEW x \in Nat
  PROVE  Worth(o, x) \in Nat
<1>1. o.value \in Nat
  BY DEF OfferTerms
<1>2. (x * o.value) \div 100 \in Nat
  BY <1>1, PercentMonotone
<1> QED BY <1>1, <1>2 DEF Worth

(* The best auto-discount is one of the shop's, or none.                   *)
LEMMA BestNat ==
  ASSUME NEW auto, NEW x \in Int, NEW n, auto = 0 \/ IsBest(auto, Offers, x, n)
  PROVE  auto \in Nat
<1>1. CASE auto = 0
  BY <1>1
<1>2. CASE IsBest(auto, Offers, x, n)
  <2>1. CASE auto \in {0}
    BY <2>1
  <2>2. CASE \E o \in Applicable(Offers, x, n) : auto = Worth(o, x)
    <3>1. PICK o \in Applicable(Offers, x, n) : auto = Worth(o, x)
      BY <2>2
    <3>2. o \in OfferTerms /\ o.min \in Nat /\ o.min <= x
      BY TermAssumption DEF Applicable, OfferTerms
    <3> QED BY <3>1, <3>2, WorthNat
  <2> QED BY <1>2, <2>1, <2>2 DEF IsBest
<1> QED BY <1>1, <1>2

LEMMA GrandNat ==
  ASSUME NEW x \in Int, NEW rate \in Nat
  PROVE  GrandTotal(x, rate) \in Nat
<1>1. Taxable(x) \in Nat
  BY DEF Taxable
<1>2. (Taxable(x) * rate) \div 100 \in Nat
  BY <1>1, PercentMonotone
<1> QED BY <1>1, <1>2 DEF GrandTotal, Tax

LEMMA GrantedNat ==
  ASSUME usable \subseteq DOMAIN Vouchers, NEW c, NEW x \in Int
  PROVE  Granted(c, x) \in Nat
<1>1. CASE Honoured(c, x) /\ x > 0
  BY <1>1, VoucherWorthNat, TermAssumption DEF Granted, Honoured
<1>2. CASE ~ (Honoured(c, x) /\ x > 0)
  BY <1>2 DEF Granted
<1> QED BY <1>1, <1>2
LEMMA SettingNat == ServerTyped => setting \in Nat /\ TaxRate(setting) \in Nat /\ TaxRate(0) \in Nat
BY BoundAssumption DEF ServerTyped, TaxRate

LEMMA TaxedInt ==
  ASSUME CheckoutInv, NEW auto \in Nat,
         order.code = NoCode \/ order.code \in DOMAIN Vouchers,
         order.code # NoCode => Subtotal(Charged, order.items) - auto >= 0
  PROVE  Taxed(auto) \in Int
<1> DEFINE x == Subtotal(Charged, order.items)
<1>1. x \in Int
  BY SubtotalInt, PricesTyped DEF CheckoutInv, OrderType
<1> HIDE DEF x
<1>2. CASE order.code = NoCode
  <2>1. Taxed(auto) = x - auto - 0
    BY <1>2 DEF Taxed, x
  <2> QED BY <2>1, <1>1
<1>3. CASE order.code # NoCode
  <2>1. x - auto \in Nat
    BY <1>1, <1>3 DEF x
  <2>2. VoucherWorth(Vouchers[order.code], x - auto) \in Nat
    BY <2>1, <1>3, VoucherWorthNat, TermAssumption
  <2>3. Taxed(auto) = (x - auto) - VoucherWorth(Vouchers[order.code], x - auto)
    BY <1>3 DEF Taxed, x
  <2> QED BY <2>1, <2>2, <2>3
<1> QED BY <1>2, <1>3

(* What a request comes to: refused, or answered with the server's bill,   *)
(* for a code that is still honoured for what the auto-discount leaves.    *)
LEMMA ChargeAnswers ==
  ASSUME CheckoutInv, NEW auto, NEW rate, Charge(auto, rate)
  PROVE  /\ order.state = "sent"
         /\ auto \in Nat
         /\ auto = 0 \/ IsBest(auto, Offers, Subtotal(Charged, order.items),
                                Cardinality(LinesOf(order.items)))
         /\ rate \in {TaxRate(setting), TaxRate(0)}
         /\ \/ Ends("refused", 0)
            \/ /\ order.tender > 0
               /\ \/ order.code = NoCode
                  \/ Honoured(order.code, Subtotal(Charged, order.items) - auto)
               /\ \/ order.tender < Bill(auto, rate) /\ Ends("short", Bill(auto, rate))
                  \/ ~ (order.tender < Bill(auto, rate)) /\ Ends("sold", Bill(auto, rate))
<1> DEFINE x == Subtotal(Charged, order.items)
<1>1. x \in Int /\ order.tender \in Int
  BY SubtotalInt, PricesTyped DEF CheckoutInv, OrderType
<1>2. /\ order.state = "sent"
      /\ auto = 0 \/ IsBest(auto, Offers, x, Cardinality(LinesOf(order.items)))
      /\ rate \in {TaxRate(setting), TaxRate(0)}
  BY DEF Charge
<1>3. auto \in Nat
  BY <1>1, <1>2, BestNat
<1>4. CASE order.tender <= 0
  <2>1. Ends("refused", 0)
    BY <1>1, <1>4 DEF Charge
  <2> QED BY <2>1, <1>2, <1>3
<1>5. CASE order.tender > 0 /\ order.code # NoCode /\ ~ Honoured(order.code, x - auto)
  <2>1. Ends("refused", 0)
    BY <1>1, <1>5 DEF Charge
  <2> QED BY <2>1, <1>2, <1>3
<1>6. CASE order.tender > 0 /\ (order.code = NoCode \/ Honoured(order.code, x - auto))
  <2>1. IF order.tender < Bill(auto, rate) THEN Ends("short", Bill(auto, rate))
                                           ELSE Ends("sold", Bill(auto, rate))
    BY <1>1, <1>6 DEF Charge, Bill, Taxed
  <2> QED BY <2>1, <1>2, <1>3, <1>6
<1> QED BY <1>1, <1>4, <1>5, <1>6

LEMMA EndsTyped ==
  ASSUME NEW state \in {"sold", "short", "refused"}, NEW grand \in Nat, Ends(state, grand)
  PROVE  order' \in OrderType /\ PaidFor' /\ order'.state = state /\ order'.grand = grand
<1>1. order' = [state |-> state, items |-> EmptyCart, code |-> NoCode,
                discount |-> 0, tender |-> 0, grand |-> grand]
  BY DEF Ends, NoOrder
<1> QED BY <1>1, EmptyCartTyped DEF OrderType, PaidFor

LEMMA NoOrderTyped ==
  ASSUME order' = NoOrder
  PROVE  order' \in OrderType /\ PaidFor'
BY EmptyCartTyped DEF NoOrder, OrderType, PaidFor

(* PaidFor looks at the request alone.                                     *)
LEMMA PaidForStays == ASSUME PaidFor, order' = order PROVE PaidFor'
BY DEF PaidFor, OrderTotal

LEMMA ChargeStep ==
  ASSUME CheckoutInv, NEW auto, NEW rate, Charge(auto, rate)
  PROVE  CheckoutInv'
<1>1. /\ auto \in Nat
      /\ rate \in {TaxRate(setting), TaxRate(0)}
      /\ \/ Ends("refused", 0)
         \/ /\ \/ order.code = NoCode
               \/ Honoured(order.code, Subtotal(Charged, order.items) - auto)
            /\ Ends("short", Bill(auto, rate)) \/ Ends("sold", Bill(auto, rate))
  BY ChargeAnswers
<1>2. UNCHANGED <<cartVars, calls, serverVars>>
  BY DEF Charge
<1>3. order' \in OrderType /\ PaidFor'
  <2>1. CASE Ends("refused", 0)
    BY <2>1, EndsTyped
  <2>2. CASE /\ \/ order.code = NoCode
                \/ Honoured(order.code, Subtotal(Charged, order.items) - auto)
             /\ Ends("short", Bill(auto, rate)) \/ Ends("sold", Bill(auto, rate))
    <3>1. Taxed(auto) \in Int
      <4>1. Subtotal(Charged, order.items) \in Int
        BY SubtotalInt, PricesTyped DEF CheckoutInv, OrderType
      <4>2. CASE order.code = NoCode
        BY <4>2, <1>1, TaxedInt
      <4>3. CASE Honoured(order.code, Subtotal(Charged, order.items) - auto)
        <5>1. order.code \in DOMAIN Vouchers /\ Vouchers[order.code].min \in Nat
          BY <4>3, TermAssumption DEF Honoured, CheckoutInv, ServerTyped, VoucherTerms
        <5>2. Subtotal(Charged, order.items) - auto >= 0
          BY <4>1, <4>3, <5>1, <1>1 DEF Honoured
        <5> QED BY <5>1, <5>2, <1>1, TaxedInt
      <4> QED BY <2>2, <4>2, <4>3
    <3>2. Bill(auto, rate) \in Nat
      BY <3>1, <1>1, SettingNat, GrandNat DEF Bill, CheckoutInv
    <3> QED BY <2>2, <3>2, EndsTyped
  <2> QED BY <1>1, <2>1, <2>2
<1> QED BY <1>2, <1>3 DEF CheckoutInv, CartTyped, ServerTyped, cartVars, serverVars

LEMMA CheckoutStarts == Init => CheckoutInv
<1> SUFFICES ASSUME Init PROVE CheckoutInv
  OBVIOUS
<1>1. order \in OrderType /\ PaidFor
  BY EmptyCartTyped DEF Init, NoOrder, OrderType, PaidFor
<1> QED BY <1>1, EmptyCartTyped DEF Init, CheckoutInv, CartTyped, ServerTyped

LEMMA TillStep ==
  ASSUME CheckoutInv, Till
  PROVE  CheckoutInv'
<1>0. CartTyped /\ ServerTyped /\ calls \subseteq CallType /\ order \in OrderType /\ PaidFor
  BY DEF CheckoutInv
<1>e. EmptyTheCart => CartTyped'
  BY EmptyCartTyped DEF EmptyTheCart, CartTyped
<1>a. ASSUME NEW l \in Lines, NEW n \in Int, n = 1 \/ n <= Stock[l],
             items' = With(items, l, n)
      PROVE  /\ items' \in CartType
             /\ \A k \in LinesOf(items)' : items'[k] = 1 \/ items'[k] <= Stock[k]
  <2>1. /\ items' \in CartType /\ LinesOf(items') = LinesOf(items) \cup {l}
        /\ items'[l] = n /\ \A k \in LinesOf(items) : k # l => items'[k] = items[k]
    BY <1>a, <1>0, WithTyped DEF CartTyped
  <2>2. LinesOf(items)' = LinesOf(items')
    BY DEF LinesOf
  <2> QED BY <2>1, <2>2, <1>a, <1>0 DEF CartTyped
<1>1. ASSUME NEW l \in Lines, AddItem(l) PROVE CheckoutInv'
  <2>1. CASE l \notin LinesOf(items)
    <3>1. items' = With(items, l, 1)
      BY <2>1, <1>1 DEF AddItem
    <3> QED BY <3>1, <1>a, <1>1, <1>0, PaidForStays
            DEF AddItem, CheckoutInv, CartTyped, ServerTyped, serverVars
  <2>2. CASE l \in LinesOf(items) /\ items[l] < Stock[l]
    <3>1. items' = With(items, l, items[l] + 1)
      BY <2>2, <1>1 DEF AddItem
    <3>2. items[l] \in Int /\ Stock[l] \in Int
      BY <2>2, <1>0, CartFacts, PriceAssumption DEF CartTyped
    <3>3. items[l] + 1 \in Int /\ items[l] + 1 <= Stock[l]
      BY <3>2, <2>2
    <3> QED BY <3>1, <3>3, <1>a, <1>1, <1>0, PaidForStays
            DEF AddItem, CheckoutInv, CartTyped, ServerTyped, serverVars
  <2>3. CASE l \in LinesOf(items) /\ ~ (items[l] < Stock[l])
    <3>1. items' = items
      BY <2>3, <1>1 DEF AddItem
    <3> QED BY <3>1, <1>1, <1>0, PaidForStays
            DEF AddItem, CheckoutInv, CartTyped, ServerTyped, serverVars
  <2> QED BY <2>1, <2>2, <2>3
<1>2. ASSUME NEW l \in LinesOf(items), NEW m \in {0, items[l] - 1, items[l] + 1},
             UpdateQuantity(l, m)
      PROVE  CheckoutInv'
  <2>1. items[l] \in Int /\ m \in Int /\ l \in Lines /\ Stock[l] \in Int
    BY <1>0, <1>2, CartFacts, PriceAssumption DEF CartTyped
  <2>2. CASE m <= 0
    <3>1. items' = Without(items, l)
      BY <2>2, <1>2 DEF UpdateQuantity
    <3>2. items' \in CartType /\ LinesOf(items') \subseteq LinesOf(items)
          /\ \A k \in LinesOf(items') : items'[k] = items[k]
      BY <3>1, <1>0, WithoutTyped DEF CartTyped
    <3>3. LinesOf(items)' = LinesOf(items')
      BY DEF LinesOf
    <3> QED BY <3>2, <3>3, <1>2, <1>0, PaidForStays
            DEF UpdateQuantity, CheckoutInv, CartTyped, ServerTyped, serverVars
  <2>3. CASE ~ (m <= 0)
    <3> DEFINE n == IF m <= Stock[l] THEN m ELSE Stock[l]
    <3>1. items' = With(items, l, n)
      BY <2>3, <1>2 DEF UpdateQuantity
    <3>2. n \in Int /\ n <= Stock[l]
      BY <2>1
    <3> HIDE DEF n
    <3> QED BY <3>1, <3>2, <2>1, <1>a, <1>2, <1>0, PaidForStays
            DEF UpdateQuantity, CheckoutInv, CartTyped, ServerTyped, serverVars
  <2> QED BY <2>2, <2>3
<1>3. CASE ClearCart
  BY <1>3, <1>e, <1>0, PaidForStays DEF ClearCart, CheckoutInv, ServerTyped, serverVars
<1>4. ASSUME NEW c \in Codes \cup {NoCode}, TypeCode(c) PROVE CheckoutInv'
  <2>1. calls' \subseteq CallType /\ discount' \in Nat
    <3>1. CASE c = NoCode
      BY <3>1, <1>4, <1>0 DEF TypeCode
    <3>2. CASE c # NoCode
      <4>1. Subtotal(Shown, items) \in Int
        BY <1>0, SubtotalInt, PricesTyped DEF CartTyped
      <4>2. [code |-> c, subtotal |-> Subtotal(Shown, items), answer |-> {}] \in CallType
        BY <4>1, <3>2, <1>4 DEF CallType
      <4> QED BY <4>2, <3>2, <1>4, <1>0 DEF TypeCode, CartTyped
    <3> QED BY <3>1, <3>2
  <2>2. CartTyped'
    BY <2>1, <1>4, <1>0 DEF TypeCode, CartTyped
  <2> QED BY <2>1, <2>2, <1>4, <1>0, PaidForStays DEF TypeCode, CheckoutInv, ServerTyped, serverVars
<1>5. ASSUME NEW v \in calls, Answer(v) PROVE CheckoutInv'
  <2>1. v.answer \subseteq Nat
    BY <1>0 DEF CallType
  <2>2. discount' \in Nat /\ calls' \subseteq CallType
    BY <2>1, <1>5, <1>0 DEF Answer
  <2>3. CartTyped'
    BY <2>2, <1>5, <1>0 DEF Answer, CartTyped
  <2> QED BY <2>2, <2>3, <1>5, <1>0, PaidForStays DEF Answer, CheckoutInv, ServerTyped, serverVars
<1>6. ASSUME NEW over \in Overpaid, Pay(TillTotal(AfterVoucher) + over) PROVE CheckoutInv'
  <2> DEFINE tender == TillTotal(AfterVoucher) + over
  <2>1. AfterVoucher \in Int
    BY <1>0, SubtotalInt, PricesTyped DEF AfterVoucher, CartTyped
  <2>2. TillTotal(AfterVoucher) \in Int /\ over \in Nat
    BY <2>1, BoundAssumption DEF TillTotal
  <2>3. order' = [state |-> "sent", items |-> items, code |-> code,
                  discount |-> discount, tender |-> tender, grand |-> 0]
    BY <1>6 DEF Pay
  <2>4. order' \in OrderType
    BY <2>2, <2>3, <1>0 DEF OrderType, CartTyped
  <2>5. OrderTotal' = TillTotal(Subtotal(Shown, items) - discount)
    BY <2>3 DEF OrderTotal
  <2>6. PaidFor'
    BY <2>2, <2>3, <2>5 DEF PaidFor, AfterVoucher
  <2> QED BY <2>4, <2>6, <1>6, <1>0 DEF Pay, CheckoutInv, CartTyped, ServerTyped, cartVars, serverVars
<1>7. CASE Reply \/ ReplyLost
  <2>1. order' \in OrderType /\ PaidFor'
    BY <1>7, NoOrderTyped DEF Reply, ReplyLost
  <2>2. CartTyped'
    BY <1>7, <1>e, <1>0 DEF Reply, ReplyLost, CartTyped, cartVars
  <2> QED BY <2>1, <2>2, <1>7, <1>0 DEF Reply, ReplyLost, CheckoutInv, ServerTyped, serverVars
<1> QED BY <1>1, <1>2, <1>3, <1>4, <1>5, <1>6, <1>7 DEF Till

LEMMA OtherStep ==
  ASSUME CheckoutInv, Server \/ Admin \/ UNCHANGED vars
  PROVE  CheckoutInv'
<1>0. CartTyped /\ ServerTyped /\ calls \subseteq CallType /\ order \in OrderType /\ PaidFor
  BY DEF CheckoutInv
<1>1. ASSUME NEW v \in calls, Validate(v) PROVE CheckoutInv'
  <2>1. v \in CallType
    BY <1>0
  <2>2. Granted(v.code, v.subtotal) \in Nat
    BY <2>1, <1>0, GrantedNat DEF CallType, ServerTyped
  <2>3. [v EXCEPT !.answer = {Granted(v.code, v.subtotal)}] \in CallType
    BY <2>1, <2>2 DEF CallType
  <2>4. calls' \subseteq CallType
    BY <2>3, <1>1, <1>0 DEF Validate
  <2> QED BY <2>4, <1>1, <1>0, PaidForStays
        DEF Validate, CheckoutInv, CartTyped, ServerTyped, cartVars, serverVars
<1>2. ASSUME NEW auto, NEW rate, Charge(auto, rate) PROVE CheckoutInv'
  BY <1>2, ChargeStep
<1>3. CASE RefuseElsewhere
  BY <1>3, <1>0, EndsTyped
     DEF RefuseElsewhere, CheckoutInv, CartTyped, ServerTyped, cartVars, serverVars
<1>4. ASSUME NEW c \in DOMAIN Vouchers, SwitchVoucher(c) PROVE CheckoutInv'
  <2>1. ServerTyped'
    BY <1>4, <1>0 DEF SwitchVoucher, ServerTyped
  <2> QED BY <2>1, <1>4, <1>0, PaidForStays DEF SwitchVoucher, CheckoutInv, CartTyped, cartVars
<1>5. ASSUME NEW rate \in Settings, SetTaxRate(rate) PROVE CheckoutInv'
  <2>1. ServerTyped'
    BY <1>5, <1>0 DEF SetTaxRate, ServerTyped
  <2> QED BY <2>1, <1>5, <1>0, PaidForStays DEF SetTaxRate, CheckoutInv, CartTyped, cartVars
<1>6. CASE UNCHANGED vars
  BY <1>6, <1>0, PaidForStays DEF vars, CheckoutInv, CartTyped, ServerTyped, cartVars, serverVars
<1> QED BY <1>1, <1>2, <1>3, <1>4, <1>5, <1>6 DEF Server, Admin

LEMMA CheckoutInvHolds == Spec => []CheckoutInv
<1>1. CheckoutInv /\ [Next]_vars => CheckoutInv'
  BY TillStep, OtherStep DEF Next
<1> QED BY CheckoutStarts, <1>1, PTL DEF Spec

(* For any products, prices, vouchers and bounds, every step of the till   *)
(* (POSPage.tsx, the cart store) and of CreateOrder's pricing keeps the    *)
(* state of its type.  Any stock may be shown, none and less included, as  *)
(* the scanner adds what is sold out: a quantity above the stock of its    *)
(* line is 1, and only then.  Discounts and bills are not negative, though *)
(* subtotals and the till's totals may be.                                 *)
THEOREM CheckoutTypeCorrect == Spec => []TypeOK
<1>1. CheckoutInv => TypeOK
  BY CartFacts DEF CheckoutInv, TypeOK, CartTyped, ServerTyped, CallType, OrderType
<1> QED BY CheckoutInvHolds, <1>1, PTL

-----------------------------------------------------------------------------
(* What the till promised and what the server asks.                        *)

LEMMA NothingTaxed ==
  ASSUME NEW x \in Int, x <= 0, NEW rate \in Nat
  PROVE  GrandTotal(x, rate) = 0
<1>1. Taxable(x) = 0
  BY DEF Taxable
<1>2. (0 * rate) \div 100 = 0
  OBVIOUS
<1> QED BY <1>1, <1>2 DEF GrandTotal, Tax

LEMMA TillTotalSign ==
  ASSUME NEW x \in Int
  PROVE  TillTotal(x) \in Int /\ (x < 0 => TillTotal(x) < 0) /\ (x = 0 => TillTotal(x) = 0)
BY DEF TillTotal

(* A bill for a fresh total: never above it, unless a voucher worth more   *)
(* than the cart has made that total negative and the bill zero; and with  *)
(* no auto-discount within a rupiah of it.                                 *)
LEMMA FreshBill ==
  ASSUME CheckoutInv, Fresh, setting <= 11, NEW auto \in Nat,
         NEW rate, rate \in {TaxRate(setting), TaxRate(0)},
         \/ order.code = NoCode
         \/ Honoured(order.code, Subtotal(Charged, order.items) - auto)
  PROVE  /\ Bill(auto, rate) \in Int /\ OrderTotal \in Int
         /\ Bill(auto, rate) <= OrderTotal \/ Bill(auto, rate) = 0
         /\ OrderTotal >= 0 => Bill(auto, rate) <= OrderTotal
         /\ (OrderTotal >= 0 /\ auto = 0 /\ setting \in {0, 11})
              => Bill(auto, rate) >= OrderTotal - 1
<1> DEFINE x == Subtotal(Charged, order.items)
<1>1. order.items \in CartType /\ order.code \in Codes \cup {NoCode}
  BY DEF CheckoutInv, OrderType
<1>2. x \in Int /\ Subtotal(Shown, order.items) = x
  BY <1>1, SubtotalInt, SubtotalSame, PricesTyped DEF Fresh
<1>3. PICK s \in Nat : /\ rate = TaxRate(s) /\ s <= 11
                       /\ setting \in {0, 11} => s \in {0, 11}
  BY SettingNat DEF CheckoutInv
<1>4. /\ OrderTotal = TillTotal(x - order.discount)
      /\ order.discount = Granted(order.code, x)
  BY <1>2 DEF OrderTotal, Fresh
<1>b. CASE order.code = NoCode /\ x < 0
  <2>1. ~ Honoured(NoCode, x)
    BY TermAssumption DEF Honoured, CheckoutInv, ServerTyped
  <2>2. OrderTotal = TillTotal(x)
    BY <1>2, <1>4, <1>b, <2>1 DEF Granted
  <2>3. Taxed(auto) = (x - auto) - 0
    BY <1>b DEF Taxed
  <2>4. TaxRate(s) \in Nat
    BY DEF TaxRate
  <2> HIDE DEF x
  <2>5. Taxed(auto) \in Int /\ Taxed(auto) <= 0
    BY <2>3, <1>2, <1>b
  <2>6. Bill(auto, rate) = 0
    BY <2>4, <2>5, <1>3, NothingTaxed DEF Bill
  <2>7. OrderTotal \in Int /\ OrderTotal < 0
    BY <2>2, <1>2, <1>b, TillTotalSign
  <2> QED BY <2>6, <2>7
<1>5. CASE order.code = NoCode /\ x >= 0
  <2>0. x \in Nat
    BY <1>2, <1>5
  <2>1. ~ Honoured(NoCode, x)
    BY TermAssumption DEF Honoured, CheckoutInv, ServerTyped
  <2>2. OrderTotal = TillTotal(x)
    BY <1>2, <1>4, <1>5, <2>1 DEF Granted
  <2>3. Taxed(auto) = x - auto
    <3>1. Taxed(auto) = (x - auto) - 0
      BY <1>5 DEF Taxed
    <3> HIDE DEF x
    <3> QED BY <3>1, <1>2
  <2> HIDE DEF x
  <2>4. Bill(auto, rate) = GrandTotal(x - auto, TaxRate(s))
    BY <2>3, <1>3 DEF Bill
  <2>5. /\ GrandTotal(x - auto, TaxRate(s)) <= TillTotal(x)
        /\ auto = 0 /\ s \in {0, 11} => GrandTotal(x - auto, TaxRate(s)) >= TillTotal(x) - 1
    BY <2>0, <1>3, PlainNeverDearer
  <2>6. TillTotal(x) \in Int /\ Bill(auto, rate) \in Int
    <3>1. TaxRate(s) \in Nat /\ x - auto \in Int /\ x \in Int
      BY <1>2 DEF TaxRate
    <3>2. TillTotal(x) \in Int
      BY <3>1, TillTotalSign
    <3>3. GrandTotal(x - auto, TaxRate(s)) \in Nat
      BY <3>1, GrandNat
    <3> QED BY <3>2, <3>3, <2>4
  <2> DEFINE bill == Bill(auto, rate)
  <2> HIDE DEF bill
  <2>7. /\ bill \in Int /\ OrderTotal \in Int /\ bill <= OrderTotal
        /\ auto = 0 /\ setting \in {0, 11} => bill >= OrderTotal - 1
    BY <2>2, <2>4, <2>5, <2>6, <1>3 DEF bill
  <2> QED BY <2>7 DEF bill
<1>6. CASE order.code # NoCode
  <2> DEFINE v == Vouchers[order.code]
  <2>1. /\ order.code \in usable /\ order.code \in DOMAIN Vouchers
        /\ v \in VoucherTerms /\ v.min \in Nat /\ x - auto >= v.min
    <3>1. Honoured(order.code, x - auto)
      BY <1>6
    <3>2. order.code \in DOMAIN Vouchers
      BY <3>1 DEF Honoured, CheckoutInv, ServerTyped
    <3> QED BY <3>1, <3>2, TermAssumption DEF Honoured, VoucherTerms
  <2>2. Taxed(auto) = (x - auto) - VoucherWorth(v, x - auto)
    BY <1>6 DEF Taxed
  <2> HIDE DEF x
  <2>3. x - auto \in Nat /\ x >= v.min /\ x \in Nat
    BY <2>1, <1>2
  <2>4. VoucherWorth(v, x) \in Nat /\ VoucherWorth(v, x - auto) \in Nat
    BY <2>1, <2>3, VoucherWorthNat
  <2>5. TaxRate(s) \in Nat /\ TaxRate(s) <= 11 /\ (s \in {0, 11} => TaxRate(s) = 11)
    BY <1>3 DEF TaxRate
  <2>6. CASE x = 0
    <3>1. OrderTotal = 0
      <4>1. order.discount = 0
        BY <1>4, <2>6 DEF Granted
      <4> QED BY <4>1, <1>4, <2>6, TillTotalSign
    <3>2. Taxed(auto) \in Int /\ Taxed(auto) <= 0
      BY <2>2, <2>3, <2>4, <2>6
    <3>3. Bill(auto, rate) = 0
      BY <3>2, <2>5, <1>3, NothingTaxed DEF Bill
    <3> QED BY <3>1, <3>3
  <2>7. CASE x > 0
    <3> DEFINE y == x - VoucherWorth(v, x)
    <3>1. OrderTotal = TillTotal(y)
      <4>1. Honoured(order.code, x)
        BY <2>1, <2>3 DEF Honoured
      <4>2. order.discount = VoucherWorth(v, x)
        BY <4>1, <2>7, <1>4 DEF Granted
      <4> QED BY <4>2, <1>4
    <3>2. Bill(auto, rate) = GrandTotal((x - auto) - VoucherWorth(v, x - auto), TaxRate(s))
      BY <2>2, <1>3 DEF Bill
    <3>3. Bill(auto, rate) \in Int /\ y \in Int /\ OrderTotal \in Int
      <4>1. y \in Int /\ (x - auto) - VoucherWorth(v, x - auto) \in Int
        BY <2>3, <2>4, <1>2
      <4> HIDE DEF y
      <4>2. TillTotal(y) \in Int
        BY <4>1, TillTotalSign
      <4>3. GrandTotal((x - auto) - VoucherWorth(v, x - auto), TaxRate(s)) \in Nat
        BY <4>1, <2>5, GrandNat
      <4> QED BY <4>1, <4>2, <4>3, <3>1, <3>2
    <3>4. CASE y >= 0
      <4>1. Bill(auto, rate) <= OrderTotal
        <5>1. x - VoucherWorth(v, x) >= 0
          BY <3>4
        <5> HIDE DEF v, y
        <5>2. GrandTotal((x - auto) - VoucherWorth(v, x - auto), TaxRate(s))
                <= TillTotal(x - VoucherWorth(v, x))
          BY <5>1, <2>1, <2>3, <1>3, VoucherNeverDearer
        <5> QED BY <5>2, <3>1, <3>2 DEF y
      <4>2. ASSUME auto = 0, setting \in {0, 11} PROVE Bill(auto, rate) >= OrderTotal - 1
        <5>1. Bill(auto, rate) = GrandTotal(y, 11)
          <6>1. x - auto = x
            BY <4>2, <1>2
          <6> QED BY <6>1, <3>2, <4>2, <2>5, <1>3
        <5> HIDE DEF y
        <5>2. y \in Nat
          BY <3>3, <3>4
        <5>3. TillTotal(y) - 1 <= y + Tax(y, 11)
          BY <5>2, TaxWithin
        <5>4. GrandTotal(y, 11) = y + Tax(y, 11)
          BY <5>2 DEF GrandTotal, Taxable
        <5> QED BY <5>1, <5>3, <5>4, <3>1, <3>3
      <4> QED BY <4>1, <4>2, <3>3
    <3>5. CASE y < 0
      <4>1. OrderTotal < 0
        BY <3>1, <3>3, <3>5, TillTotalSign
      <4>2. Rest(v, x - auto) <= Rest(v, x)
        BY <2>1, <2>3, RestMonotone
      <4>3. (x - auto) - VoucherWorth(v, x - auto) <= 0
        BY <4>2, <3>3, <3>5, <2>3, <2>4, <1>2 DEF Rest, Taxable
      <4>4. Bill(auto, rate) = 0
        BY <4>3, <3>2, <2>3, <2>4, <2>5, NothingTaxed
      <4> QED BY <4>1, <4>4, <3>3
    <3> QED BY <3>3, <3>4, <3>5
  <2> QED BY <2>3, <2>6, <2>7
<1> QED BY <1>2, <1>b, <1>5, <1>6

LEMMA OnlyCharged ==
  ASSUME CheckoutInv, [Next]_vars, Charging
  PROVE  \E auto, rate : Charge(auto, rate)
<1>1. CASE Till
  BY <1>1 DEF Till, AddItem, UpdateQuantity, ClearCart, TypeCode, Answer, Pay, Reply, ReplyLost,
              NoOrder, Charging
<1>2. CASE Admin
  BY <1>2 DEF Admin, SwitchVoucher, SetTaxRate, Charging
<1>3. CASE UNCHANGED vars
  BY <1>3 DEF vars, Charging
<1>4. CASE Server
  <2>1. CASE \E v \in calls : Validate(v)
    BY <2>1 DEF Validate, Charging
  <2>2. CASE RefuseElsewhere
    BY <2>2, EndsTyped DEF RefuseElsewhere, Charging
  <2> QED BY <1>4, <2>1, <2>2 DEF Server
<1> QED BY <1>1, <1>2, <1>3, <1>4 DEF Next

(* What is answered to a fresh request that is not refused.                *)
LEMMA FreshAnswer ==
  ASSUME CheckoutInv, [Next]_vars, Charging, Fresh, setting <= 11
  PROVE  /\ order'.state = "sold"
         /\ OrderTotal >= 0 => order'.grand <= OrderTotal
         /\ (/\ OrderTotal >= 0 /\ setting \in {0, 11}
             /\ IsBest(0, Offers, Subtotal(Charged, order.items),
                       Cardinality(LinesOf(order.items))))
              => order'.grand >= OrderTotal - 1
<1> DEFINE n == Cardinality(LinesOf(order.items))
           x == Subtotal(Charged, order.items)
<1>1. PICK auto, rate : Charge(auto, rate)
  BY OnlyCharged
<1>2. /\ order.state = "sent" /\ auto \in Nat
      /\ auto = 0 \/ IsBest(auto, Offers, x, n)
      /\ rate \in {TaxRate(setting), TaxRate(0)}
      /\ \/ Ends("refused", 0)
         \/ /\ order.tender > 0
            /\ order.code = NoCode \/ Honoured(order.code, x - auto)
            /\ \/ order.tender < Bill(auto, rate) /\ Ends("short", Bill(auto, rate))
               \/ ~ (order.tender < Bill(auto, rate)) /\ Ends("sold", Bill(auto, rate))
  BY <1>1, ChargeAnswers
<1>3. ~ Ends("refused", 0)
  BY EndsTyped DEF Charging
<1>4. /\ Bill(auto, rate) \in Int /\ OrderTotal \in Int
      /\ Bill(auto, rate) <= OrderTotal \/ Bill(auto, rate) = 0
      /\ OrderTotal >= 0 => Bill(auto, rate) <= OrderTotal
      /\ (OrderTotal >= 0 /\ auto = 0 /\ setting \in {0, 11})
           => Bill(auto, rate) >= OrderTotal - 1
  BY <1>2, <1>3, FreshBill
<1>5. order.tender \in Int /\ order.tender > 0 /\ order.tender >= OrderTotal
  BY <1>2, <1>3 DEF CheckoutInv, PaidFor, OrderType
<1>6. Ends("sold", Bill(auto, rate))
  BY <1>2, <1>3, <1>4, <1>5
<1>7. order'.state = "sold" /\ order'.grand = Bill(auto, rate)
  BY <1>6 DEF Ends, NoOrder
<1>8. ASSUME IsBest(0, Offers, x, n) PROVE auto = 0
  <2>1. CASE auto = 0
    BY <2>1
  <2>2. CASE IsBest(auto, Offers, x, n)
    <3>1. auto <= 0
      BY <2>2, <1>8 DEF IsBest
    <3> QED BY <3>1, <1>2
  <2> QED BY <2>1, <2>2, <1>2
<1> QED BY <1>4, <1>7, <1>8

(* For any prices, vouchers, auto-discounts and number of calls under way: *)
(* a tender the dialog of POSPage.tsx has accepted for a fresh total is    *)
(* never refused as short by CreateOrder, at a rate of at most 11.         *)
THEOREM NoSurprise == Spec => NoSurpriseRefusal
<1>1. CheckoutInv /\ [Next]_vars
        => [Charging /\ Fresh /\ setting <= 11 => order'.state = "sold"]_vars
  BY FreshAnswer
<1> QED BY <1>1, CheckoutInvHolds, PTL DEF Spec, NoSurpriseRefusal

(* And the receipt shows no more than the till did: CreateOrder truncates  *)
(* where POSPage.tsx rounds, and takes its discounts in another order.     *)
THEOREM ReceiptIsAsShown == Spec => ReceiptAsShown
<1>1. CheckoutInv /\ [Next]_vars
        => [(Charging /\ Fresh /\ setting \in {0, 11} /\ OrderTotal >= 0)
              => /\ order'.grand <= OrderTotal
                 /\ IsBest(0, Offers, Subtotal(Charged, order.items),
                           Cardinality(LinesOf(order.items)))
                      => order'.grand >= OrderTotal - 1]_vars
  BY FreshAnswer
<1> QED BY <1>1, CheckoutInvHolds, PTL DEF Spec, ReceiptAsShown

=============================================================================
