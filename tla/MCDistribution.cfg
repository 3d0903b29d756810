SPECIFICATION DistSpec
CONSTANTS
  plain = plain  copied = copied  third = third  bad = bad
  RelayCount = 2
  Honest = {2}
  Limit = 1
  Malformed = bad
  Open = Open  Self = Self  Other = Other
  MinProfitBps = 1000
  MaxNotional = 10
  Margin = 0
  Purse = 20
  MaxClock = 1
  MaxPending = 1
  Wide = {}
  Orders <- MCOrders
  Priced <- MCOrders
  Submissions <- MCSubmissions
  Answers <- MCAnswers
  TakerOf <- MCTakerOf
  FillWindow <- MCFillWindow
  Deadline <- MCDeadline
  BuyAmount <- MCBuyAmount
  SellValue <- MCSellValue
  Contested <- MCContested
  Revocable <- MCRevocable
  TipValue <- MCTipValue
INVARIANTS
  DistTypeOK
PROPERTIES
  RelaysOnlyOmit
  
