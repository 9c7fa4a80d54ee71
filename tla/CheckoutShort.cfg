SPECIFICATION Spec
CONSTANTS
  p = p
  q = q
  Lines = {p, q}
  Shown <- MCPrices
  Charged <- MCPrices
  Stock <- MCStock
  Codes = {"TEN", "FLAT"}
  NoCode = ""
  Vouchers <- MCVouchers
  Offers <- MCOffers
  Settings = {11}
  Overpaid = {0, 20}
  MaxCalls = 1
INVARIANT TillRefusesShort
