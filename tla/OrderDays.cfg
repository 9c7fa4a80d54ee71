SPECIFICATION Safety
CONSTANTS
  a = a
  b = b
  c = c
  rice = rice
  milk = milk
  Voucher = Voucher
  None = None
  Requests = {a, b, c}
  Products = {rice, milk}
  Work <- DayWork
  Statuses <- MCStatuses
  OpeningStock <- MCOpening
  MinStock <- MCMinStock
  UsageLimit = 1
  LastDay = 1
  Lag = 1
INVARIANTS NextInvoiceFree InvoicesDense OneSaleAtATime
