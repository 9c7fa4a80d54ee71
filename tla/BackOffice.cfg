SPECIFICATION Spec
CONSTANTS
  Pages = {p1, p2}
  Default = Default
  Formats = {png}
  None = None
  MaxRows = 2
  Users = {u1}
  Roles = {admin, kasir}
  TTL = 2
  Variants = {v1, v2}
  Calls = {c1, c2}
INVARIANTS TypeOK SavedIsStored RightsRunOut FlagExplained
PROPERTY SettledRow
SYMMETRY Interchangeable
