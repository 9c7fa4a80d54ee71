SPECIFICATION Spec
CONSTANTS
  p = p
  q = q
  Lines = {p, q}
  Shown <- MCPrices
  Charged <- MCPrices
  Stock <- MCStock
  Codes = {"TEN", "FLAT"}
  NoCode = ""
  Vouchers <- MCVouchers
  Offers <- MCOffers
  Settings = {0, 12}
  Overpaid = {0}
  MaxCalls = 1
INVARIANT TypeOK
PROPERTIES NoSurpriseRefusal ReceiptAsShown
