SPECIFICATION Spec
CONSTANTS
  A = A  B = B
  m = m  e = e  x = x  s = s  none = none
  Tokens = {A, B}
  Spartan1 = s
  ZeroAddress = none
  Callers = {m, e, x}
  Movers = {x}
  Hooked = {B}
  FeeTokens = {B}
  Nonces = {1, 2}
  MaxUint = 2
  MaxTime = 2
  MaxDepth = 2
  Addrs <- MCAddrs
  Orders <- MCOrders
  InitialBalance <- MCInitialBalance
INVARIANTS
  TypeOK
  EveryOrderPaid
  NonceIffFilled
  FilledAsSigned
  UnverifiedMovesNothing
  NothingRetained
PROPERTIES
  DebitsNeedConsent
