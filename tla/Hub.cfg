SPECIFICATION Spec
CONSTANTS
  till = till
  mirror = mirror
  Conns = {till, mirror}
  Feeds = {"stock", "cart"}
  Feed <- MCFeed
  CartFeed = "cart"
  Buffer = 2
  MaxPublished <- MCMaxPublished
INVARIANTS TypeOK ClosedOnce Gapless
PROPERTIES Delivered NoLeak
