----------------------------- MODULE MCCheckout -----------------------------
(* Instances of Checkout for TLC: two lines, whose subtotals land on both  *)
(* sides of the rounding of the tax, the second of an oversold product     *)
(* that can only be scanned; a capped percent voucher, and a fixed one     *)
(* that needs more than the first line alone; an auto-discount of each     *)
(* kind, both open to the fullest cart.                                    *)
EXTENDS Checkout, TLC

CONSTANTS p, q

MCPrices  == p :> 37 @@ q :> 50
MCStock   == p :> 2 @@ q :> -1

MCVouchers ==
  "TEN" :> [percent |-> TRUE, value |-> 10, min |-> 0, capped |-> TRUE, cap |-> 5]
  @@ "FLAT" :> [percent |-> FALSE, value |-> 45, min |-> 40, capped |-> FALSE, cap |-> 0]

MCOffers ==
  {[percent |-> TRUE,  value |-> 10, min |-> 70, lines |-> 1],
   [percent |-> FALSE, value |-> 9,  min |-> 0,  lines |-> 2]}
=============================================================================
