------------------------------- MODULE Pricing -------------------------------
(***************************************************************************)
(* What a cart costs, as the till shows it (POSPage.tsx) and as the server *)
(* charges it (CreateOrder and VoucherService.Validate).  Amounts are whole*)
(* rupiah.  Go's `/` on non-negative int64 and its conversion int64(x) of  *)
(* a non-negative float64 truncate, as \div does here; the products stay   *)
(* below 2^53, so the float64 steps are exact for whole tax rates.         *)
(***************************************************************************)
EXTENDS Integers

(* A discount, percent or fixed, and what the code asks before it applies. *)
(* The Update handlers do not repeat Create's test value <= 100.           *)
OfferTerms == [percent : BOOLEAN, value : Nat \ {0}, min : Nat, lines : Nat]
VoucherTerms == [percent : BOOLEAN, value : Nat \ {0}, min : Nat,
            capped : BOOLEAN, cap : Nat]

Worth(d, x) == IF d.percent THEN (x * d.value) \div 100 ELSE d.value

(* FindApplicable, and the loop of CreateOrder that keeps the largest.     *)
Applicable(offers, x, lines) == {o \in offers : o.min <= x /\ o.lines <= lines}

IsBest(d, offers, x, lines) ==
  LET worths == {0} \cup {Worth(o, x) : o \in Applicable(offers, x, lines)}
  IN  d \in worths /\ \A e \in worths : e <= d

(* The cap binds percent vouchers only.                                    *)
VoucherWorth(v, x) ==
  IF v.percent /\ v.capped /\ Worth(v, x) > v.cap THEN v.cap ELSE Worth(v, x)

(* A rate of 0 in the settings stands for the default.                     *)
TaxRate_AsStored(setting) == setting
TaxRate(setting) == IF setting > 0 THEN setting ELSE 11

Taxable(x) == IF x < 0 THEN 0 ELSE x

Tax_RoundedUp(x, rate) == (x * rate + 99) \div 100
Tax(x, rate) == (x * rate) \div 100

GrandTotal(x, rate) == Taxable(x) + Tax(Taxable(x), rate)

(* The till: Math.round(x * 11 / 100), whatever the settings say, and no   *)
(* clamp: a stale discount can make its total negative.                    *)
TillTotal(x) == x + (22 * x + 100) \div 200

=============================================================================
