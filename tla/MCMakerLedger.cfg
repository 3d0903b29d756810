SPECIFICATION Spec
CONSTANTS
  W = W  D = D
  Requests = {r1, r2, r3}
  Tokens = {W, D}
  SpreadFloorBps = 1000
  MaxTipBps = 5000
  FeedStalenessMax = 1
  TTL = 1
  HotWindow = 1
  MaxClock = 3
  MaxRestarts = 1
  Asks <- MCAsks
  Feeds <- MCFeeds
  Inventory <- MCInventory
  MaxQuote <- MCMaxQuote
  MaxWindow <- MCMaxWindow
SYMMETRY Threads
INVARIANTS
  TypeOK
  OutstandingCapped
  RestartHeals
  PromiseReserved
  EdgeKept
PROPERTIES
  DeclineJustified
