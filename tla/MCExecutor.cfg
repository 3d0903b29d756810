SPECIFICATION Spec
CONSTANTS
  open = open  third = third  dear = dear  wide = wide  bad = bad
  RelayCount = 2
  Malformed = bad
  Open = Open  Self = Self  Other = Other
  MinProfitBps = 1000
  MaxNotional = 10
  Margin = 1
  Purse = 20
  MaxClock = 3
  MaxPending = 2
  Wide = {wide}
  Contested <- MCContested
  Revocable <- MCRevocable
  Orders <- MCOrders
  Priced <- MCOrders
  Submissions <- MCSubmissions
  Answers <- MCAnswers
  TakerOf <- MCTakerOf
  FillWindow <- MCFillWindow
  Deadline <- MCDeadline
  BuyAmount <- MCBuyAmount
  SellValue <- MCSellValue
  TipValue <- MCTipValue
INVARIANTS
  TypeOK
  NeverUnderpaid
  OncePerRound

  
