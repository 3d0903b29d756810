-------------------------------- MODULE Pricing --------------------------------
(***************************************************************************)
(* How the reference maker (src/distribution/maker.py) turns a price into  *)
(* an order: the spread floor and the rounding.  A feed's answer is the    *)
(* fair rate num / den, in atoms of the buy token per atom of the sell     *)
(* token, and the spread it asks for in basis points; the code's Fraction  *)
(* is exact, hence so are the quotients here.  Fair value is the feed's.   *)
(***************************************************************************)
EXTENDS Integers

CONSTANTS
  SpreadFloorBps,   \* spread_floor_bps: the maker never quotes tighter
  MaxTipBps,        \* max_tip_bps: the tip it offers executors
  FeedStalenessMax  \* feed_staleness_max

ASSUME PricingAssumption ==
  SpreadFloorBps \in Nat /\ MaxTipBps \in Nat /\ FeedStalenessMax \in Nat

Bps == 10000
FeedAnswer == [num : Nat \ {0}, den : Nat \ {0}, spread : Int]

CeilDiv(a, b) == -((-a) \div b)

\* A request fixes one of the two amounts; the other key is absent.
Absent == -1
ExactOut(ask) == ask.sell # Absent
Parsed(ask) ==
  /\ ExactOut(ask) # (ask.buy # Absent)
  /\ IF ExactOut(ask) THEN ask.sell > 0 ELSE ask.buy > 0

Fresh(asOf, now) == now - asOf <= FeedStalenessMax

SpreadAsAsked(feed) == feed.spread                                 \* mutant
Spread(feed) == IF feed.spread > SpreadFloorBps THEN feed.spread ELSE SpreadFloorBps

\* exactOut: the taker gets exactly sell, the maker at least the fair value and its edge.
BuyRoundedDown(sell, feed) ==                                      \* mutant
  (sell * feed.num * (Bps + Spread(feed))) \div (feed.den * Bps)
BuyFor(sell, feed) == CeilDiv(sell * feed.num * (Bps + Spread(feed)), feed.den * Bps)

\* exactIn: the taker pays exactly buy, the maker gives at most what that is worth to it.
SellFor(buy, feed) == (buy * feed.den * Bps) \div (feed.num * (Bps + Spread(feed)))

SellOf(ask, feed) == IF ExactOut(ask) THEN ask.sell ELSE SellFor(ask.buy, feed)
BuyOf(ask, feed) == IF ExactOut(ask) THEN BuyFor(ask.sell, feed) ELSE ask.buy
TipOf(ask, feed) == (SellOf(ask, feed) * MaxTipBps) \div Bps
PermittedOf(ask, feed) == SellOf(ask, feed) + TipOf(ask, feed)
Degenerate(ask, feed) == SellOf(ask, feed) <= 0 \/ BuyOf(ask, feed) <= 0

\* The reference: an exchange of sell for buy leaves the maker its edge over the
\* fair rate, buy / sell >= num / den * (1 + spread), as cross products.
LeavesEdge(sell, buy, feed) ==
  buy * feed.den * Bps >= sell * feed.num * (Bps + Spread(feed))
================================================================================
