SPECIFICATION Spec
CONSTANTS
  Pages = {p1}
  Default = Default
  Formats = {png}
  None = None
  MaxRows = 1
  Users = {u1}
  Roles = {admin, kasir}
  TTL = 1
  Variants = {v1}
  Calls = {c1}
INVARIANT FooterSaved
