SPECIFICATION Safety
CONSTANTS
  a = a
  b = b
  c = c
  rice = rice
  milk = milk
  Voucher = Voucher
  None = None
  Requests = {a, b, c}
  Products = {rice, milk}
  Work <- RaceWork
  Statuses <- MCStatuses
  OpeningStock <- LastPiece
  MinStock <- MCMinStock
  UsageLimit = 1
  LastDay = 0
  Lag = 0
INVARIANT NeverOversold
