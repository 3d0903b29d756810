SPECIFICATION Spec
CONSTANTS
  spartan = spartan  other = other
  c1 = c1  c2 = c2  c3 = c3  c4 = c4
  Clicks <- MCClicks
  Spenders = {spartan, other}
  Chains = {1, 2}
  Accounts = {a}
  Quotes <- MCQuotes
  Relays = 2
  MaxClock = 1
SYMMETRY Symmetry
INVARIANTS
  TypeOK
  SettledWasShown
PROPERTIES
  SignedWasShown
