SPECIFICATION Spec
CONSTANTS
  a = a
  b = b
  c = c
  rice = rice
  milk = milk
  Voucher = Voucher
  None = None
  Requests = {a, b, c}
  Products = {rice, milk}
  Work <- CoreWork
  Statuses <- MCStatuses
  OpeningStock <- MCOpening
  MinStock <- MCMinStock
  UsageLimit = 1
  LastDay = 0
  Lag = 0
INVARIANTS TypeOK StockLedger VoucherLedger
PROPERTIES LowStockNotified ImplementsLedger EveryRequestEnds
