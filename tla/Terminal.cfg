SPECIFICATION Spec
CONSTANTS
  Fetches = {f1, f2}
  Screen = Screen
  Absent = Absent
  Shelf = 2
  MaxShort = 1
  MaxSilent = 2
  Carts <- MCCarts
  NoCart = NoCart
  Display = 2
  MaxLog = 4
INVARIANTS GridTypeOK MirrorTypeOK DriftExplained ShowsCart ThanksForAsked
PROPERTIES BannerStays BannerEnds
