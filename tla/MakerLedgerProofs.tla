--------------------------- MODULE MakerLedgerProofs ---------------------------
(***************************************************************************)
(* Theorems about the reference maker, for any number of threads, tokens,  *)
(* restarts and amounts.  The inductive invariant ties the three lists to  *)
(* the threads that wrote them, one entry each, so that the totals the     *)
(* code compares with its caps are sums over threads; a thread's time is   *)
(* never ahead of the clock, so no pruning releases a promise that can     *)
(* still be settled.                                                       *)
(***************************************************************************)
EXTENDS MakerLedger, FoldLemmas

(* Division by a positive number, as the cross products the rounding is judged by. *)
LEMMA DivBounds ==
  ASSUME NEW a \in Int, NEW b \in Nat \ {0}
  PROVE  /\ a \div b \in Int
         /\ (a \div b) * b <= a
         /\ a < (a \div b + 1) * b
  OBVIOUS

(* The same for the division that rounds up. *)
LEMMA CeilBounds ==
  ASSUME NEW a \in Int, NEW b \in Nat \ {0}
  PROVE  /\ CeilDiv(a, b) \in Int
         /\ CeilDiv(a, b) * b >= a
         /\ a > (CeilDiv(a, b) - 1) * b
  BY DivBounds DEF CeilDiv

AskType == [token : Tokens, sell : Nat \union {Absent}, buy : Nat \union {Absent}]

(* The types of a price: what is not degenerate is positive. *)
LEMMA PriceType ==
  ASSUME NEW ask \in AskType, NEW feed \in FeedAnswer, Parsed(ask), ~Degenerate(ask, feed)
  PROVE  /\ SellOf(ask, feed) \in Nat \ {0} /\ BuyOf(ask, feed) \in Nat \ {0}
         /\ TipOf(ask, feed) \in Nat
         /\ TipOf(ask, feed) * Bps <= SellOf(ask, feed) * MaxTipBps
         /\ PermittedOf(ask, feed) \in Nat \ {0}
         /\ Spread(feed) \in Nat /\ Spread(feed) >= SpreadFloorBps
         /\ feed.num \in Nat \ {0} /\ feed.den \in Nat \ {0}
  <1>1. /\ Spread(feed) \in Nat /\ Spread(feed) >= SpreadFloorBps
        /\ feed.num \in Nat \ {0} /\ feed.den \in Nat \ {0}
    BY PricingAssumption DEF FeedAnswer, Spread
  <1>2. ask.sell \in Nat \union {Absent} /\ ask.buy \in Nat \union {Absent}
    BY DEF AskType
  <1> DEFINE up == feed.den * Bps
             down == feed.num * (Bps + Spread(feed))
  <1>3. up \in Nat \ {0} /\ down \in Nat \ {0}
    BY <1>1 DEF Bps
  <1>4. SellOf(ask, feed) \in Int /\ BuyOf(ask, feed) \in Int
    <2>1. CASE ExactOut(ask)
      <3>1. ask.sell * feed.num * (Bps + Spread(feed)) \in Int
        BY <1>1, <1>2, <2>1 DEF ExactOut, Bps, Absent
      <3>2. BuyFor(ask.sell, feed) \in Int
        BY <1>3, <3>1, CeilBounds DEF BuyFor
      <3>. QED
        BY <1>2, <2>1, <3>2 DEF SellOf, BuyOf, ExactOut, Absent
    <2>2. CASE ~ExactOut(ask)
      <3>1. ask.buy \in Nat
        BY <1>2, <2>2 DEF Parsed, ExactOut, Absent
      <3>2. ask.buy * feed.den * Bps \in Int
        BY <1>1, <3>1 DEF Bps
      <3>3. SellFor(ask.buy, feed) \in Int
        BY <1>3, <3>2, DivBounds DEF SellFor
      <3>. QED
        BY <2>2, <3>1, <3>3 DEF SellOf, BuyOf
    <2>. QED
      BY <2>1, <2>2
  <1>5. SellOf(ask, feed) \in Nat \ {0} /\ BuyOf(ask, feed) \in Nat \ {0}
    BY <1>4 DEF Degenerate
  <1>6. SellOf(ask, feed) * MaxTipBps \in Nat
    BY <1>5, PricingAssumption
  <1>7. /\ TipOf(ask, feed) \in Nat
        /\ TipOf(ask, feed) * Bps <= SellOf(ask, feed) * MaxTipBps
    BY <1>6 DEF TipOf, Bps
  <1>8. PermittedOf(ask, feed) \in Nat \ {0}
    BY <1>5, <1>7 DEF PermittedOf
  <1>. QED
    BY <1>1, <1>5, <1>7, <1>8

(* Products and order. *)
LEMMA TimesOrder ==
  ASSUME NEW x \in Int, NEW y \in Int, NEW k \in Nat, x <= y
  PROVE  x * k <= y * k
  OBVIOUS

(* A positive factor cancels from an inequality. *)
LEMMA TimesCancel ==
  ASSUME NEW x \in Int, NEW y \in Int, NEW k \in Nat \ {0}, x * k <= y * k
  PROVE  x <= y
  OBVIOUS

(* The edge survives the tip, up to the tip's own share. *)
LEMMA TipShare ==
  ASSUME NEW s \in Nat, NEW tip \in Nat, NEW worth \in Nat, NEW n \in Nat, NEW m \in Nat,
         tip * Bps <= s * m, s * n <= worth * Bps
  PROVE  (s + tip) * n <= worth * (Bps + m)
  <1>1. (s * n) * (Bps + m) <= (worth * Bps) * (Bps + m)
    BY TimesOrder DEF Bps
  <1>2. (tip * Bps) * n <= (s * m) * n
    BY TimesOrder DEF Bps
  <1>3. (s * n) * (Bps + m) = (s * n) * Bps + (s * m) * n
    BY DEF Bps
  <1>4. ((s + tip) * n) * Bps = (s * n) * Bps + (tip * Bps) * n
    BY DEF Bps
  <1>5. (worth * Bps) * (Bps + m) = (worth * (Bps + m)) * Bps
    BY DEF Bps
  <1>6. ((s + tip) * n) * Bps <= (worth * (Bps + m)) * Bps
    <2>1. /\ (s * n) * Bps \in Int /\ (s * m) * n \in Int /\ (tip * Bps) * n \in Int
          /\ (worth * (Bps + m)) * Bps \in Int
      BY DEF Bps
    <2>. QED
      BY <1>1, <1>2, <1>3, <1>4, <1>5, <2>1
  <1>7. (s + tip) * n \in Int /\ worth * (Bps + m) \in Int /\ Bps \in Nat \ {0}
    BY DEF Bps
  <1>. QED
    BY <1>6, <1>7, TimesCancel

(* The price arithmetic of maker.py against its reference: either rounding leaves the *)
(* edge, with the whole tip paid too, and one atom more for the taker would not.      *)
LEMMA PriceKeepsEdge ==
  ASSUME NEW ask \in AskType, NEW feed \in FeedAnswer, Parsed(ask), ~Degenerate(ask, feed)
  PROVE  LET s == SellOf(ask, feed)  b == BuyOf(ask, feed) IN
         /\ LeavesEdge(s, b, feed)
         /\ b * feed.den * (Bps + MaxTipBps)
              >= (s + TipOf(ask, feed)) * feed.num * (Bps + Spread(feed))
         /\ b * feed.den * Bps >= s * feed.num * (Bps + SpreadFloorBps)
         /\ IF ExactOut(ask) THEN s = ask.sell /\ ~LeavesEdge(s, b - 1, feed)
                             ELSE b = ask.buy /\ ~LeavesEdge(s + 1, b, feed)
  <1> DEFINE s == SellOf(ask, feed)
             b == BuyOf(ask, feed)
             tip == TipOf(ask, feed)
             up == feed.den * Bps
             down == feed.num * (Bps + Spread(feed))
  <1>1. /\ s \in Nat \ {0} /\ b \in Nat \ {0} /\ tip \in Nat
        /\ tip * Bps <= s * MaxTipBps
        /\ Spread(feed) \in Nat /\ Spread(feed) >= SpreadFloorBps
        /\ feed.num \in Nat \ {0} /\ feed.den \in Nat \ {0}
    BY PriceType
  <1>2. up \in Nat \ {0} /\ down \in Nat \ {0}
    BY <1>1 DEF Bps
  <1>3. /\ \A x, y \in Int : LeavesEdge(x, y, feed) <=> y * up >= x * down
    BY <1>1 DEF LeavesEdge, Bps
  <1>4. /\ s * down <= b * up
        /\ IF ExactOut(ask) THEN s = ask.sell /\ (b - 1) * up < s * down
                            ELSE b = ask.buy /\ b * up < (s + 1) * down
    <2>1. CASE ExactOut(ask)
      <3>1. s = ask.sell /\ b = BuyFor(s, feed)
        BY <2>1 DEF SellOf, BuyOf
      <3>2. b = CeilDiv(s * down, up)
        BY <1>1, <3>1 DEF BuyFor, Bps
      <3>3. s * down \in Int
        BY <1>1, <1>2
      <3> HIDE DEF s, b, up, down
      <3>4. b * up >= s * down /\ s * down > (b - 1) * up
        BY <1>2, <3>2, <3>3, CeilBounds
      <3>5. b * up \in Int /\ (b - 1) * up \in Int
        BY <1>1, <1>2
      <3>. QED
        BY <2>1, <3>1, <3>3, <3>4, <3>5
    <2>2. CASE ~ExactOut(ask)
      <3>1. b = ask.buy /\ s = SellFor(b, feed)
        BY <2>2 DEF SellOf, BuyOf
      <3>2. s = (b * up) \div down
        BY <1>1, <3>1 DEF SellFor, Bps
      <3>3. b * up \in Int
        BY <1>1, <1>2
      <3> HIDE DEF s, b, up, down
      <3>4. s * down <= b * up /\ b * up < (s + 1) * down
        BY <1>2, <3>2, <3>3, DivBounds
      <3>. QED
        BY <2>2, <3>1, <3>4
    <2>. QED
      BY <2>1, <2>2
  <1>5. LeavesEdge(s, b, feed)
    BY <1>1, <1>2, <1>3, <1>4
  <1>6. IF ExactOut(ask) THEN s = ask.sell /\ ~LeavesEdge(s, b - 1, feed)
                         ELSE b = ask.buy /\ ~LeavesEdge(s + 1, b, feed)
    <2>1. (b - 1) * up \in Int /\ s * down \in Int /\ b * up \in Int /\ (s + 1) * down \in Int
      BY <1>1, <1>2
    <2>2. b - 1 \in Int /\ s + 1 \in Int /\ s \in Int /\ b \in Int
      BY <1>1
    <2> HIDE DEF s, b, up, down
    <2>. QED
      BY <1>3, <1>4, <2>1, <2>2
  <1>7. b * feed.den * (Bps + MaxTipBps) >= (s + tip) * feed.num * (Bps + Spread(feed))
    <2> DEFINE worth == b * feed.den
    <2>1. worth \in Nat /\ MaxTipBps \in Nat
      BY <1>1, PricingAssumption
    <2>2. s * down <= worth * Bps
      BY <1>1, <1>4 DEF Bps
    <2>3. (s + tip) * down <= worth * (Bps + MaxTipBps)
      <3> HIDE DEF s, b, up, down, tip, worth
      <3>. QED
        BY <1>1, <1>2, <2>1, <2>2, TipShare
    <2>4. (s + tip) * down = (s + tip) * feed.num * (Bps + Spread(feed))
      BY <1>1 DEF Bps
    <2>5. /\ (s + tip) * down \in Int /\ worth * (Bps + MaxTipBps) \in Int
      BY <1>1, <1>2, <2>1 DEF Bps
    <2>. QED
      BY <2>3, <2>4, <2>5
  <1>8. b * feed.den * Bps >= s * feed.num * (Bps + SpreadFloorBps)
    <2>1. (Bps + SpreadFloorBps) * (s * feed.num) <= (Bps + Spread(feed)) * (s * feed.num)
      <3>1. /\ Bps + SpreadFloorBps \in Int /\ Bps + Spread(feed) \in Int
            /\ s * feed.num \in Nat /\ Bps + SpreadFloorBps <= Bps + Spread(feed)
        BY <1>1, PricingAssumption DEF Bps
      <3>. QED
        BY <3>1, TimesOrder
    <2>2. /\ (Bps + SpreadFloorBps) * (s * feed.num) = s * feed.num * (Bps + SpreadFloorBps)
          /\ (Bps + Spread(feed)) * (s * feed.num) = s * down
          /\ b * up = b * feed.den * Bps
      BY <1>1, PricingAssumption DEF Bps
    <2>3. /\ (Bps + SpreadFloorBps) * (s * feed.num) \in Int
          /\ s * down \in Int /\ b * up \in Int
      BY <1>1, <1>2, PricingAssumption DEF Bps
    <2> HIDE DEF s, b, up, down
    <2>. QED
      BY <1>4, <2>1, <2>2, <2>3
  <1>. QED
    BY <1>5, <1>6, <1>7, <1>8

-------------------------------------------------------------------------------
(* The totals the caps are checked against. *)

Sized(S) == IsFiniteSet(S) /\ \A x \in S : x.permitted \in Nat
OfToken(S, t) == {x \in S : x.token = t}

(* A total is the sum over the entries of the token, whatever set they are drawn from. *)
LEMMA TotalIs ==
  ASSUME NEW S, NEW R, NEW t, Sized(R), S \subseteq R
  PROVE  /\ IsFiniteSet(OfToken(S, t)) /\ IsFiniteSet(OfToken(R, t))
         /\ \A x \in OfToken(R, t) : [y \in R |-> y.permitted][x] \in Nat
         /\ Total(S, t) = SumFunctionOnSet([y \in R |-> y.permitted], OfToken(S, t))
  <1> DEFINE w == [y \in R |-> y.permitted]
             v == [y \in S |-> y.permitted]
  <1>1. IsFiniteSet(OfToken(S, t)) /\ IsFiniteSet(OfToken(R, t))
    BY FS_Subset DEF Sized, OfToken
  <1>2. \A x \in OfToken(R, t) : w[x] \in Nat
    BY DEF Sized, OfToken
  <1>3. \A x \in OfToken(S, t) : v[x] \in Nat /\ v[x] = w[x]
    BY DEF Sized, OfToken
  <1>4. Total(S, t) = SumFunctionOnSet(v, OfToken(S, t))
    BY DEF Total, OfToken
  <1> HIDE DEF w, v
  <1>5. SumFunctionOnSet(v, OfToken(S, t)) = SumFunctionOnSet(w, OfToken(S, t))
    BY <1>1, <1>3, SumSame
  <1>. QED
    BY <1>1, <1>2, <1>4, <1>5 DEF w

(* A total of typed entries is a natural number. *)
LEMMA TotalNat ==
  ASSUME NEW S, NEW t, Sized(S)
  PROVE  Total(S, t) \in Nat
  <1> DEFINE w == [y \in S |-> y.permitted]
  <1>1. /\ IsFiniteSet(OfToken(S, t)) /\ \A x \in OfToken(S, t) : w[x] \in Nat
        /\ Total(S, t) = SumFunctionOnSet(w, OfToken(S, t))
    BY TotalIs
  <1> HIDE DEF w
  <1>. QED
    BY <1>1, SumNat

(* Nothing promised adds up to nothing. *)
LEMMA TotalEmpty == ASSUME NEW t PROVE Total({}, t) = 0
  <1>1. {x \in {} : x.token = t} = {}
    OBVIOUS
  <1>. QED
    BY <1>1, SumEmpty, Zenon DEF Total

(* Fewer entries, or entries that stand for others without collisions. *)
LEMMA TotalInto ==
  ASSUME NEW S, NEW R, NEW t, NEW f, Sized(S), Sized(R),
         \A x \in S : x.token = t =>
            f[x] \in R /\ f[x].token = t /\ x.permitted <= f[x].permitted,
         \A x, y \in S : f[x] = f[y] => x = y
  PROVE  Total(S, t) <= Total(R, t)
  <1> DEFINE w == [y \in S |-> y.permitted]
             v == [y \in R |-> y.permitted]
  <1>1. /\ IsFiniteSet(OfToken(S, t)) /\ IsFiniteSet(OfToken(R, t))
        /\ \A x \in OfToken(S, t) : w[x] \in Nat
        /\ \A x \in OfToken(R, t) : v[x] \in Nat
        /\ Total(S, t) = SumFunctionOnSet(w, OfToken(S, t))
        /\ Total(R, t) = SumFunctionOnSet(v, OfToken(R, t))
    BY TotalIs
  <1>2. \A x \in OfToken(S, t) : f[x] \in OfToken(R, t) /\ w[x] <= v[f[x]]
    BY DEF OfToken
  <1>3. \A x, y \in OfToken(S, t) : f[x] = f[y] => x = y
    BY DEF OfToken
  <1> HIDE DEF w, v
  <1>. QED
    BY <1>1, <1>2, <1>3, SumInjection

(* Fewer entries promise no more. *)
LEMMA TotalSubset ==
  ASSUME NEW S, NEW R, NEW t, Sized(R), S \subseteq R
  PROVE  Total(S, t) <= Total(R, t)
  <1> DEFINE f == [x \in S |-> x]
  <1>1. Sized(S)
    BY FS_Subset DEF Sized
  <1>2. \A x \in S : f[x] = x
    OBVIOUS
  <1>3. \A x \in S : x.permitted <= x.permitted
    BY <1>1 DEF Sized
  <1> HIDE DEF f
  <1>. QED
    BY <1>1, <1>2, <1>3, TotalInto

(* One more entry adds its amount to its own token's total, and to no other. *)
LEMMA TotalAdd ==
  ASSUME NEW S, NEW y, NEW t, Sized(S), y.permitted \in Nat, y \notin S
  PROVE  Total(S \union {y}, t) = Total(S, t) + (IF y.token = t THEN y.permitted ELSE 0)
  <1> DEFINE R == S \union {y}
             w == [x \in R |-> x.permitted]
  <1>1. Sized(R)
    BY FS_AddElement DEF Sized
  <1>2. /\ IsFiniteSet(OfToken(S, t))
        /\ \A x \in OfToken(R, t) : w[x] \in Nat
        /\ Total(S, t) = SumFunctionOnSet(w, OfToken(S, t))
        /\ Total(R, t) = SumFunctionOnSet(w, OfToken(R, t))
    BY <1>1, TotalIs
  <1>3. w[y] = y.permitted
    OBVIOUS
  <1>4. Total(S, t) \in Nat
    BY TotalNat
  <1>5. CASE y.token = t
    <2>1. OfToken(R, t) = OfToken(S, t) \union {y} /\ y \notin OfToken(S, t)
      BY <1>5 DEF OfToken
    <2> HIDE DEF R, w
    <2>2. SumFunctionOnSet(w, OfToken(R, t)) = w[y] + SumFunctionOnSet(w, OfToken(S, t))
      BY <1>2, <2>1, SumAdd
    <2>. QED
      BY <1>2, <1>3, <1>4, <1>5, <2>2 DEF R
  <1>6. CASE y.token # t
    <2>1. OfToken(R, t) = OfToken(S, t)
      BY <1>6 DEF OfToken
    <2>. QED
      BY <1>2, <1>4, <1>6, <2>1
  <1>. QED
    BY <1>5, <1>6

(* A total is that of a part and that of the rest. *)
LEMMA TotalSplit ==
  ASSUME NEW S, NEW R \in SUBSET S, NEW t, Sized(S)
  PROVE  Total(S, t) = Total(R, t) + Total(S \ R, t)
  <1> DEFINE w == [x \in S |-> x.permitted]
  <1>1. /\ IsFiniteSet(OfToken(S, t))
        /\ \A x \in OfToken(S, t) : w[x] \in Nat
        /\ Total(S, t) = SumFunctionOnSet(w, OfToken(S, t))
        /\ Total(R, t) = SumFunctionOnSet(w, OfToken(R, t))
    BY TotalIs
  <1>2. Total(S \ R, t) = SumFunctionOnSet(w, OfToken(S \ R, t))
    BY TotalIs
  <1>3. /\ OfToken(R, t) \in SUBSET OfToken(S, t)
        /\ OfToken(S \ R, t) = OfToken(S, t) \ OfToken(R, t)
    BY DEF OfToken
  <1> HIDE DEF w
  <1>4. SumFunctionOnSet(w, OfToken(S, t))
          = SumFunctionOnSet(w, OfToken(R, t))
              + SumFunctionOnSet(w, OfToken(S, t) \ OfToken(R, t))
    BY <1>1, <1>3, SumSplit
  <1>. QED
    BY <1>1, <1>2, <1>3, <1>4

(* A list with at most one entry for each request is finite. *)
LEMMA OneEach ==
  ASSUME NEW S, \A x \in S : x.req \in Requests, \A x, y \in S : x.req = y.req => x = y
  PROVE  IsFiniteSet(S)
  <1> DEFINE f == [x \in S |-> x.req]
  <1>1. f \in Injection(S, Requests)
    BY DEF Injection, IsInjective
  <1>. QED
    BY <1>1, LedgerAssumption, FS_Injection

-------------------------------------------------------------------------------
(* The inductive invariant *)

Passed == {"priced", "reserved", "signed"}
Booked == {"reserved", "signed"}

(* A thread past the feed can quote, and one past the ledger has reserved stock. *)
ThreadsPriced ==
  \A r \in Requests :
    /\ pc[r] \in Passed => Parsed(call[r].ask) /\ ~Degenerate(call[r].ask, call[r].feed)
    /\ pc[r] \in Booked => Token(r) \in Stocked

(* What the ledger holds is what threads put there, one entry each. *)
LedgerOfThreads ==
  /\ \A e \in reservations : e.req \in Requests /\ pc[e.req] \in Booked /\ e = Entry(e.req)
  /\ \A w \in window : w.req \in Requests /\ pc[w.req] \in Booked /\ w = Signing(w.req)

(* A quote says what its thread's call says.  A request is signed once, and the    *)
(* quotes of earlier runs have a quote's lifetime left after the restart, at most. *)
Says(q) ==
  LET r == q.req  ask == call[r].ask  feed == call[r].feed IN
  /\ q.token = Token(r) /\ q.permitted = Permitted(r) /\ q.deadline = Deadline(r)
  /\ q.sell = SellOf(ask, feed) /\ q.buy = BuyOf(ask, feed) /\ q.maxTip = TipOf(ask, feed)
QuotesOfThreads ==
  \A q \in quotes :
    /\ q.req \in Requests /\ pc[q.req] = "signed" /\ Says(q)
    /\ q.epoch \in 0 .. epoch
    /\ q.epoch < epoch => q.deadline <= startedAt + TTL
    /\ \A p \in quotes : p.req = q.req => p = q

(* No thread's time is ahead of the clock, so whatever a thread prunes, what was *)
(* promised and can still be settled stays in both lists.                        *)
Holding(r) == pc[r] = "reserved" \/ \E q \in quotes : q.req = r /\ q.epoch = epoch
PromisesHeld ==
  \A r \in Requests :
    Holding(r) /\ clock <= Deadline(r) => Entry(r) \in reservations /\ Signing(r) \in window

(* The lists were within the caps when they last grew; so were earlier runs' quotes. *)
Within ==
  \A t \in Stocked :
    /\ Total(reservations, t) <= Inventory[t] /\ Total(window, t) <= MaxWindow[t]
    /\ \A e \in 0 .. epoch : e < epoch => Total({q \in Live : q.epoch = e}, t) <= CapOf(t)

LedgerInv ==
  /\ TypeOK /\ ThreadsPriced /\ LedgerOfThreads /\ QuotesOfThreads
  /\ PromisesHeld /\ Within

-------------------------------------------------------------------------------
(* What a state of the invariant gives. *)

(* The amounts and times of a thread whose price came. *)
LEMMA PassedPriced ==
  ASSUME TypeOK, ThreadsPriced, NEW r \in Requests, pc[r] \in Passed
  PROVE  /\ call[r].ask \in AskType /\ call[r].feed \in FeedAnswer
         /\ Parsed(call[r].ask) /\ ~Degenerate(call[r].ask, call[r].feed)
         /\ Permitted(r) \in Nat \ {0} /\ clock \in Nat
         /\ call[r].now \in 0 .. clock /\ Deadline(r) \in Nat /\ TTL \in Nat
  <1>1. /\ call[r].ask \in Asks /\ call[r].feed \in Feeds /\ call[r].now \in 0 .. clock
        /\ clock \in Nat
    BY LedgerAssumption DEF TypeOK
  <1>2. call[r].ask \in AskType /\ call[r].feed \in FeedAnswer
    BY <1>1, LedgerAssumption DEF AskType
  <1>3. Parsed(call[r].ask) /\ ~Degenerate(call[r].ask, call[r].feed)
    BY DEF ThreadsPriced
  <1>4. Permitted(r) \in Nat \ {0}
    BY <1>2, <1>3, PriceType DEF Permitted
  <1>. QED
    BY <1>1, <1>2, <1>3, <1>4, LedgerAssumption DEF Deadline

(* What such a thread writes is of its type, once the ledger stocks the token. *)
LEMMA WritesTyped ==
  ASSUME TypeOK, ThreadsPriced, NEW r \in Requests, pc[r] \in Passed, Token(r) \in Stocked
  PROVE  /\ Entry(r) \in EntryType /\ Signing(r) \in WindowType /\ Quote(r) \in QuoteType
         /\ Says(Quote(r))
  <1> DEFINE ask == call[r].ask
             feed == call[r].feed
  <1>1. /\ ask \in AskType /\ feed \in FeedAnswer /\ Parsed(ask) /\ ~Degenerate(ask, feed)
        /\ Permitted(r) \in Nat \ {0} /\ call[r].now \in Nat /\ Deadline(r) \in Nat
    BY PassedPriced
  <1>2. /\ SellOf(ask, feed) \in Nat \ {0} /\ BuyOf(ask, feed) \in Nat \ {0}
        /\ TipOf(ask, feed) \in Nat
    BY <1>1, PriceType
  <1>3. epoch \in Nat /\ call[r].now + HotWindow \in Nat
    BY <1>1, LedgerAssumption DEF TypeOK
  <1>4. Quote(r) \in QuoteType
    BY <1>1, <1>2, <1>3 DEF Quote, QuoteType, Token
  <1>5. Says(Quote(r))
    BY DEF Quote, Says, Token
  <1>. QED
    BY <1>1, <1>4, <1>5 DEF Entry, EntryType, Signing, WindowType

(* Each list holds one entry for a request at most, so its totals are sums. *)
LEMMA Lists ==
  ASSUME TypeOK, LedgerOfThreads, QuotesOfThreads
  PROVE  /\ Sized(reservations) /\ Sized(window) /\ Sized(quotes) /\ Sized(filled)
         /\ \A S : S \subseteq quotes => Sized(S)
  <1>1. IsFiniteSet(reservations)
    BY OneEach DEF LedgerOfThreads
  <1>2. IsFiniteSet(window)
    BY OneEach DEF LedgerOfThreads
  <1>3. IsFiniteSet(quotes)
    BY OneEach DEF QuotesOfThreads
  <1>4. /\ \A x \in reservations : x.permitted \in Nat
        /\ \A x \in window : x.permitted \in Nat
        /\ \A x \in quotes : x.permitted \in Nat
    BY DEF TypeOK, EntryType, WindowType, QuoteType
  <1>5. \A S : S \subseteq quotes => Sized(S)
    BY <1>3, <1>4, FS_Subset DEF Sized
  <1>. QED
    BY <1>1, <1>2, <1>4, <1>5 DEF Sized, TypeOK

(* What a thread writes depends on its call alone. *)
LEMMA CallDecides ==
  ASSUME NEW s \in Requests, call'[s] = call[s]
  PROVE  /\ Entry(s)' = Entry(s) /\ Signing(s)' = Signing(s)
         /\ Token(s)' = Token(s) /\ Permitted(s)' = Permitted(s) /\ Deadline(s)' = Deadline(s)
         /\ \A q : q.req = s => (Says(q)' <=> Says(q))
  <1>1. /\ Token(s)' = Token(s) /\ Permitted(s)' = Permitted(s) /\ Deadline(s)' = Deadline(s)
    BY DEF Token, Permitted, Deadline
  <1>2. ASSUME NEW q, q.req = s PROVE Says(q)' <=> Says(q)
    BY <1>1, <1>2 DEF Says
  <1>. QED
    BY <1>1, <1>2 DEF Entry, Signing

(* Pruning with a time that is not ahead of the clock keeps whatever a live promise *)
(* of a thread needs.                                                               *)
LEMMA PruneKeeps ==
  ASSUME TypeOK, ThreadsPriced, NEW now \in 0 .. clock, NEW s \in Requests, pc[s] \in Passed,
         clock <= Deadline(s)
  PROVE  /\ Entry(s) \in reservations => Entry(s) \in Committed(now)
         /\ Signing(s) \in window => Signing(s) \in InWindow(now)
  <1>1. /\ clock \in Nat /\ call[s].now \in Nat /\ TTL \in Nat
        /\ Deadline(s) = call[s].now + TTL
    BY PassedPriced DEF Deadline
  <1>2. Deadline(s) >= now /\ now - call[s].now <= TTL
    BY <1>1
  <1>. QED
    BY <1>2 DEF Entry, Signing, Committed, InWindow

-------------------------------------------------------------------------------
(* Each action keeps the invariant. *)

(* The steps that book nothing: threads that are not past the ledger move, and the *)
(* lists may be pruned.                                                            *)
LEMMA QuietStep ==
  ASSUME LedgerInv, NEW now \in 0 .. clock,
         reservations' \in {reservations, Committed(now)}, window' \in {window, InWindow(now)},
         UNCHANGED <<clock, quotes, filled, funds, process>>,
         pc' \in [Requests -> States],
         call' \in [Requests -> [ask : Asks, feed : Feeds, now : 0 .. clock]],
         \A s \in Requests : \/ pc'[s] = pc[s] /\ call'[s] = call[s]
                             \/ pc[s] \notin Booked /\ pc'[s] \notin Booked,
         \A s \in Requests : pc'[s] \in Passed =>
            Parsed(call'[s].ask) /\ ~Degenerate(call'[s].ask, call'[s].feed)
  PROVE  LedgerInv'
  <1> USE DEF LedgerInv
  <1>1. reservations' \subseteq reservations /\ window' \subseteq window
    BY DEF Committed, InWindow
  <1>2. ASSUME NEW s \in Requests, pc[s] \in Booked \/ pc'[s] \in Booked
        PROVE  /\ pc'[s] = pc[s] /\ call'[s] = call[s]
               /\ Entry(s)' = Entry(s) /\ Signing(s)' = Signing(s) /\ Token(s)' = Token(s)
               /\ Deadline(s)' = Deadline(s) /\ \A q : q.req = s => (Says(q)' <=> Says(q))
    BY <1>2, CallDecides
  <1>3. TypeOK'
    BY <1>1 DEF TypeOK, process
  <1>4. ThreadsPriced'
    BY <1>2 DEF ThreadsPriced
  <1>5. LedgerOfThreads'
    BY <1>1, <1>2 DEF LedgerOfThreads
  <1>6. QuotesOfThreads'
    <2>1. ASSUME NEW q \in quotes
          PROVE  /\ q.req \in Requests /\ pc'[q.req] = "signed"
                 /\ Says(q)'
      BY <1>2 DEF QuotesOfThreads, Booked
    <2>. QED
      BY <2>1 DEF QuotesOfThreads, process
  <1>7. PromisesHeld'
    <2> SUFFICES ASSUME NEW s \in Requests, Holding(s)', clock' <= Deadline(s)'
                 PROVE  Entry(s)' \in reservations' /\ Signing(s)' \in window'
      BY DEF PromisesHeld
    <2>1. Holding(s) /\ pc[s] \in Booked /\ pc[s] \in Passed
      BY <1>2 DEF Holding, QuotesOfThreads, Booked, Passed, process
    <2>2. clock <= Deadline(s)
      BY <1>2, <2>1
    <2>3. Entry(s) \in reservations /\ Signing(s) \in window
      BY <2>1, <2>2 DEF PromisesHeld
    <2>. QED
      BY <1>2, <2>1, <2>2, <2>3, PruneKeeps
  <1>8. Within'
    <2>1. ASSUME NEW t \in Stocked
          PROVE  Total(reservations', t) <= Inventory[t] /\ Total(window', t) <= MaxWindow[t]
      <3>1. /\ Total(reservations', t) <= Total(reservations, t)
            /\ Total(window', t) <= Total(window, t)
        BY <1>1, Lists, TotalSubset
      <3>2. /\ Total(reservations', t) \in Nat /\ Total(reservations, t) \in Nat
            /\ Total(window', t) \in Nat /\ Total(window, t) \in Nat
            /\ Inventory[t] \in Nat /\ MaxWindow[t] \in Nat
        <4>1. Sized(reservations') /\ Sized(window')
          BY <1>1, Lists, FS_Subset DEF Sized
        <4>. QED
          BY <4>1, Lists, TotalNat, LedgerAssumption
      <3>. QED
        BY <3>1, <3>2 DEF Within
    <2>2. Live' = Live /\ epoch' = epoch
      BY DEF Live, process
    <2>. QED
      BY <2>1, <2>2 DEF Within
  <1>. QED
    BY <1>3, <1>4, <1>5, <1>6, <1>7, <1>8

(* What an idle thread holds is typed. *)
LEMMA NoCallTyped == NoCall \in [ask : Asks, feed : Feeds, now : {0}]
  BY LedgerAssumption DEF NoCall

(* The price comes. *)
LEMMA ArriveStep ==
  ASSUME LedgerInv, NEW r \in Requests, NEW ask \in Asks, NEW feed \in Feeds,
         NEW asOf, Arrive(r, ask, feed, asOf)
  PROVE  LedgerInv'
  <1>1. clock \in 0 .. clock /\ TypeOK
    BY LedgerAssumption DEF LedgerInv, TypeOK
  <1>2. /\ pc' \in [Requests -> States]
        /\ call' \in [Requests -> [ask : Asks, feed : Feeds, now : 0 .. clock]]
    BY <1>1 DEF Arrive, TypeOK, States
  <1>3. \A s \in Requests : \/ pc'[s] = pc[s] /\ call'[s] = call[s]
                            \/ pc[s] \notin Booked /\ pc'[s] \notin Booked
    BY <1>1 DEF Arrive, TypeOK, Booked
  <1>4. \A s \in Requests : pc'[s] \in Passed =>
           Parsed(call'[s].ask) /\ ~Degenerate(call'[s].ask, call'[s].feed)
    BY <1>1 DEF Arrive, TypeOK, LedgerInv, ThreadsPriced
  <1>. QED
    BY <1>1, <1>2, <1>3, <1>4, QuietStep DEF Arrive, ledger

(* A refusal, whatever it pruned on the way. *)
LEMMA DeclineStep ==
  ASSUME LedgerInv, NEW r \in Requests, pc[r] \in {"idle", "priced"}, Decline(r),
         NEW now \in 0 .. clock,
         reservations' \in {reservations, Committed(now)}, window' \in {window, InWindow(now)},
         UNCHANGED <<clock, quotes, filled, funds, process>>
  PROVE  LedgerInv'
  <1>1. TypeOK /\ clock \in Nat
    BY LedgerAssumption DEF LedgerInv, TypeOK
  <1>2. /\ pc' \in [Requests -> States]
        /\ call' \in [Requests -> [ask : Asks, feed : Feeds, now : 0 .. clock]]
    <2>1. NoCall \in [ask : Asks, feed : Feeds, now : 0 .. clock]
      BY <1>1, NoCallTyped
    <2>. QED
      BY <1>1, <2>1 DEF Decline, TypeOK, States
  <1>3. \A s \in Requests : \/ pc'[s] = pc[s] /\ call'[s] = call[s]
                            \/ pc[s] \notin Booked /\ pc'[s] \notin Booked
    BY <1>1 DEF Decline, TypeOK, Booked
  <1>4. \A s \in Requests : pc'[s] \in Passed =>
           Parsed(call'[s].ask) /\ ~Degenerate(call'[s].ask, call'[s].feed)
    BY <1>1 DEF Decline, TypeOK, LedgerInv, ThreadsPriced, Passed
  <1>. QED
    BY <1>2, <1>3, <1>4, QuietStep

(* GET /health prunes with the present time, and drops only what has expired. *)
LEMMA HealthStep == ASSUME LedgerInv, Health PROVE LedgerInv'
  <1>1. TypeOK /\ clock \in 0 .. clock
    BY LedgerAssumption DEF LedgerInv, TypeOK
  <1>2. \A s \in Requests : pc[s] \in Passed =>
           Parsed(call[s].ask) /\ ~Degenerate(call[s].ask, call[s].feed)
    BY DEF LedgerInv, ThreadsPriced
  <1>. QED
    BY <1>1, <1>2, QuietStep DEF Health, TypeOK

(* The one step that adds to the lists. *)
LEMMA ReserveStep ==
  ASSUME LedgerInv, NEW r \in Requests, Reserve(r)
  PROVE  LedgerInv'
  <1> USE DEF LedgerInv
  <1> DEFINE now == call[r].now
  <1>1. pc[r] = "priced" /\ r \in Requests /\ pc[r] \in Passed /\ pc[r] \notin Booked
    BY DEF Reserve, Trying, Passed, Booked
  <1>2. /\ now \in 0 .. clock /\ Permitted(r) \in Nat \ {0} /\ Token(r) \in Stocked
        /\ clock \in Nat
    BY <1>1, PassedPriced DEF Reserve, Quotable
  <1>3. /\ pc' = [pc EXCEPT ![r] = "reserved"] /\ call' = call
        /\ reservations' = Committed(now) \union {Entry(r)}
        /\ window' = InWindow(now) \union {Signing(r)}
        /\ UNCHANGED <<clock, quotes, filled, funds, process>>
    BY DEF Reserve, Answer
  <1>4. /\ pc'[r] = "reserved" /\ \A s \in Requests : s # r => pc'[s] = pc[s]
    BY <1>3 DEF TypeOK
  <1>5. \A s \in Requests : /\ Entry(s)' = Entry(s) /\ Signing(s)' = Signing(s)
                            /\ Token(s)' = Token(s) /\ Deadline(s)' = Deadline(s)
                            /\ \A q : q.req = s => (Says(q)' <=> Says(q))
    BY <1>3, CallDecides
  <1>6. Committed(now) \subseteq reservations /\ InWindow(now) \subseteq window
    BY DEF Committed, InWindow
  <1>7. Entry(r) \in EntryType /\ Signing(r) \in WindowType
    BY <1>1, <1>2, WritesTyped
  <1>8. /\ Entry(r).req = r /\ Signing(r).req = r
        /\ Entry(r).token = Token(r) /\ Signing(r).token = Token(r)
        /\ Entry(r).permitted = Permitted(r) /\ Signing(r).permitted = Permitted(r)
    BY DEF Entry, Signing
  <1>9. Entry(r) \notin reservations /\ Signing(r) \notin window
    BY <1>1, <1>8 DEF LedgerOfThreads
  <1>10. TypeOK'
    BY <1>3, <1>6, <1>7 DEF TypeOK, process, States
  <1>11. ThreadsPriced'
    BY <1>1, <1>2, <1>3, <1>4, <1>5 DEF ThreadsPriced, Passed, Booked
  <1>12. LedgerOfThreads'
    <2>1. ASSUME NEW e \in reservations'
          PROVE  e.req \in Requests /\ pc'[e.req] \in Booked /\ e = Entry(e.req)'
      BY <1>3, <1>4, <1>5, <1>6, <1>8 DEF LedgerOfThreads, Booked
    <2>2. ASSUME NEW w \in window'
          PROVE  w.req \in Requests /\ pc'[w.req] \in Booked /\ w = Signing(w.req)'
      BY <1>3, <1>4, <1>5, <1>6, <1>8 DEF LedgerOfThreads, Booked
    <2>. QED
      BY <2>1, <2>2 DEF LedgerOfThreads
  <1>13. QuotesOfThreads'
    <2>1. ASSUME NEW q \in quotes
          PROVE  /\ q.req \in Requests /\ pc'[q.req] = "signed"
                 /\ Says(q)'
      BY <1>1, <1>4, <1>5 DEF QuotesOfThreads
    <2>. QED
      BY <1>3, <2>1 DEF QuotesOfThreads, process
  <1>14. PromisesHeld'
    <2> SUFFICES ASSUME NEW s \in Requests, Holding(s)', clock' <= Deadline(s)'
                 PROVE  Entry(s)' \in reservations' /\ Signing(s)' \in window'
      BY DEF PromisesHeld
    <2>1. CASE s = r
      BY <1>3, <1>5, <2>1
    <2>2. CASE s # r
      <3>1. Holding(s) /\ pc[s] \in Passed
        BY <1>3, <1>4, <2>2 DEF Holding, QuotesOfThreads, Passed, process
      <3>2. clock <= Deadline(s)
        BY <1>3, <1>5
      <3>3. Entry(s) \in reservations /\ Signing(s) \in window
        BY <3>1, <3>2 DEF PromisesHeld
      <3>. QED
        BY <1>2, <1>3, <1>5, <3>1, <3>2, <3>3, PruneKeeps
    <2>. QED
      BY <2>1, <2>2
  <1>15. Within'
    <2>1. ASSUME NEW t \in Stocked
          PROVE  Total(reservations', t) <= Inventory[t] /\ Total(window', t) <= MaxWindow[t]
      <3>1. Sized(Committed(now)) /\ Sized(InWindow(now)) /\ Sized(reservations) /\ Sized(window)
        BY <1>6, Lists, FS_Subset DEF Sized
      <3>2. /\ Total(Committed(now), t) \in Nat /\ Total(InWindow(now), t) \in Nat
            /\ Total(reservations, t) \in Nat /\ Total(window, t) \in Nat
            /\ Inventory[t] \in Nat /\ MaxWindow[t] \in Nat
        BY <3>1, TotalNat, LedgerAssumption
      <3>3. /\ Total(Committed(now), t) <= Total(reservations, t)
            /\ Total(InWindow(now), t) <= Total(window, t)
        BY <1>6, <3>1, TotalSubset
      <3>4. /\ Total(reservations, t) <= Inventory[t] /\ Total(window, t) <= MaxWindow[t]
        BY DEF Within
      <3>5. /\ Entry(r) \notin Committed(now) /\ Signing(r) \notin InWindow(now)
            /\ Permitted(r) \in Nat
        BY <1>2, <1>6, <1>9
      <3>6. /\ Total(reservations', t)
                 = Total(Committed(now), t) + (IF Token(r) = t THEN Permitted(r) ELSE 0)
            /\ Total(window', t)
                 = Total(InWindow(now), t) + (IF Token(r) = t THEN Permitted(r) ELSE 0)
        <4>1. Entry(r).permitted \in Nat /\ Signing(r).permitted \in Nat
          BY <1>8, <3>5
        <4>2. Total(Committed(now) \union {Entry(r)}, t)
                = Total(Committed(now), t)
                    + (IF Entry(r).token = t THEN Entry(r).permitted ELSE 0)
          BY <3>1, <3>5, <4>1, TotalAdd
        <4>3. Total(InWindow(now) \union {Signing(r)}, t)
                = Total(InWindow(now), t)
                    + (IF Signing(r).token = t THEN Signing(r).permitted ELSE 0)
          BY <3>1, <3>5, <4>1, TotalAdd
        <4>4. /\ Total(reservations', t) = Total(Committed(now) \union {Entry(r)}, t)
              /\ Total(window', t) = Total(InWindow(now) \union {Signing(r)}, t)
          BY <1>3
        <4>. QED
          BY <1>8, <4>2, <4>3, <4>4
      <3>7. CASE Token(r) = t
        <4>1. /\ Total(InWindow(now), t) + Permitted(r) <= MaxWindow[t]
              /\ Permitted(r) <= Inventory[t] - Total(Committed(now), t)
          BY <3>7 DEF Reserve, FitsWindow, FitsFree
        <4>. QED
          BY <3>2, <3>5, <3>6, <3>7, <4>1
      <3>8. CASE Token(r) # t
        BY <3>2, <3>3, <3>4, <3>6, <3>8
      <3>. QED
        BY <3>7, <3>8
    <2>2. Live' = Live /\ epoch' = epoch
      BY <1>3 DEF Live, process
    <2>. QED
      BY <2>1, <2>2 DEF Within
  <1>. QED
    BY <1>10, <1>11, <1>12, <1>13, <1>14, <1>15

(* A quote says what its thread's call says. *)
LEMMA QuoteFields ==
  ASSUME QuotesOfThreads, NEW q \in quotes
  PROVE  /\ q.token = Token(q.req) /\ q.permitted = Permitted(q.req)
         /\ q.deadline = Deadline(q.req) /\ q.req \in Requests /\ pc[q.req] = "signed"
  BY DEF QuotesOfThreads, Says

(* Each live quote of the present run has its own entry in both lists. *)
LEMMA OwnCapped == ASSUME LedgerInv PROVE OutstandingCapped
  <1> USE DEF LedgerInv
  <1> SUFFICES ASSUME NEW t \in Stocked PROVE Total(Own(Live), t) <= CapOf(t)
    BY DEF OutstandingCapped
  <1> DEFINE mine == Own(Live)
             f == [q \in mine |-> Entry(q.req)]
             g == [q \in mine |-> Signing(q.req)]
  <1>1. mine \subseteq quotes
    BY DEF Own, Live
  <1>2. ASSUME NEW q \in mine
        PROVE  /\ f[q] = Entry(q.req) /\ g[q] = Signing(q.req)
               /\ Entry(q.req) \in reservations /\ Signing(q.req) \in window
               /\ q.token = Token(q.req) /\ q.permitted = Permitted(q.req)
               /\ q.permitted \in Nat
    <2>1. q \in quotes /\ q.epoch = epoch /\ clock <= q.deadline
      BY DEF Own, Live
    <2>2. /\ q.token = Token(q.req) /\ q.permitted = Permitted(q.req)
          /\ q.deadline = Deadline(q.req) /\ q.req \in Requests
      BY <2>1, QuoteFields
    <2>3. Holding(q.req)
      BY <2>1 DEF Holding
    <2>4. Entry(q.req) \in reservations /\ Signing(q.req) \in window
      BY <2>1, <2>2, <2>3 DEF PromisesHeld
    <2>5. q.permitted \in Nat
      BY <2>1 DEF TypeOK, QuoteType
    <2>. QED
      BY <2>2, <2>4, <2>5
  <1>3. \A q \in mine : /\ f[q].token = q.token /\ f[q].permitted = q.permitted
                        /\ g[q].token = q.token /\ g[q].permitted = q.permitted
    BY <1>2 DEF Entry, Signing
  <1>4. \A p, q \in mine : (f[p] = f[q] => p = q) /\ (g[p] = g[q] => p = q)
    <2> SUFFICES ASSUME NEW p \in mine, NEW q \in mine, f[p] = f[q] \/ g[p] = g[q]
                 PROVE  p = q
      OBVIOUS
    <2>1. p.req = q.req
      BY <1>2 DEF Entry, Signing
    <2>. QED
      BY <1>1, <2>1 DEF QuotesOfThreads
  <1>5. Sized(mine) /\ Sized(reservations) /\ Sized(window)
    BY <1>1, Lists
  <1>6. \A q \in mine : q.permitted <= q.permitted
    BY <1>2
  <1> HIDE DEF mine, f, g
  <1>7. Total(mine, t) <= Total(reservations, t)
    <2>1. \A x \in mine : x.token = t =>
             f[x] \in reservations /\ f[x].token = t /\ x.permitted <= f[x].permitted
      BY <1>2, <1>3, <1>6
    <2>2. \A x, y \in mine : f[x] = f[y] => x = y
      BY <1>4
    <2>. QED
      BY <1>5, <2>1, <2>2, TotalInto
  <1>8. Total(mine, t) <= Total(window, t)
    <2>1. \A x \in mine : x.token = t =>
             g[x] \in window /\ g[x].token = t /\ x.permitted <= g[x].permitted
      BY <1>2, <1>3, <1>6
    <2>2. \A x, y \in mine : g[x] = g[y] => x = y
      BY <1>4
    <2>. QED
      BY <1>5, <2>1, <2>2, TotalInto
  <1>9. /\ Total(mine, t) \in Nat /\ Total(reservations, t) \in Nat /\ Total(window, t) \in Nat
        /\ Inventory[t] \in Nat /\ MaxWindow[t] \in Nat
    BY <1>5, TotalNat, LedgerAssumption
  <1>. QED
    BY <1>7, <1>8, <1>9 DEF Within, CapOf, mine

(* Signing turns a thread's reservation into a quote and leaves the lists alone. *)
LEMMA SignStep ==
  ASSUME LedgerInv, NEW r \in Requests, Sign(r)
  PROVE  LedgerInv'
  <1> USE DEF LedgerInv
  <1>1. pc[r] = "reserved" /\ pc[r] \in Passed /\ pc[r] \in Booked /\ Token(r) \in Stocked
    BY DEF Sign, Passed, Booked, ThreadsPriced
  <1>2. /\ pc' = [pc EXCEPT ![r] = "signed"] /\ call' = call
        /\ quotes' = quotes \union {Quote(r)}
        /\ UNCHANGED <<clock, reservations, window, filled, funds, epoch, startedAt>>
    BY DEF Sign, Answer, ledger, process
  <1>3. pc'[r] = "signed" /\ \A s \in Requests : s # r => pc'[s] = pc[s]
    BY <1>2 DEF TypeOK
  <1>4. \A s \in Requests : /\ Entry(s)' = Entry(s) /\ Signing(s)' = Signing(s)
                            /\ Token(s)' = Token(s) /\ Deadline(s)' = Deadline(s)
                            /\ \A q : q.req = s => (Says(q)' <=> Says(q))
    BY <1>2, CallDecides
  <1>5. Quote(r) \in QuoteType /\ Says(Quote(r))
    BY <1>1, WritesTyped
  <1>6. Quote(r).req = r /\ Quote(r).epoch = epoch
    BY DEF Quote
  <1>7. \A q \in quotes : q.req # r
    BY <1>1 DEF QuotesOfThreads
  <1>8. epoch \in Nat
    BY LedgerAssumption DEF TypeOK
  <1>10. TypeOK'
    BY <1>2, <1>5 DEF TypeOK, States
  <1>11. ThreadsPriced'
    BY <1>1, <1>2, <1>3, <1>4 DEF ThreadsPriced, Passed, Booked
  <1>12. LedgerOfThreads'
    BY <1>2, <1>3, <1>4 DEF LedgerOfThreads, Booked
  <1>13. QuotesOfThreads'
    <2>1. ASSUME NEW q \in quotes'
          PROVE  /\ q.req \in Requests /\ pc'[q.req] = "signed"
                 /\ Says(q)'
                 /\ q.epoch \in 0 .. epoch
                 /\ q.epoch < epoch => q.deadline <= startedAt + TTL
      <3>1. CASE q \in quotes
        BY <1>3, <1>4, <3>1 DEF QuotesOfThreads
      <3>2. CASE q = Quote(r)
        BY <1>3, <1>4, <1>5, <1>6, <1>8, <3>2
      <3>. QED
        BY <1>2, <3>1, <3>2
    <2>2. \A q, p \in quotes' : p.req = q.req => p = q
      BY <1>2, <1>6, <1>7 DEF QuotesOfThreads
    <2>. QED
      BY <1>2, <2>1, <2>2 DEF QuotesOfThreads
  <1>14. PromisesHeld'
    <2> SUFFICES ASSUME NEW s \in Requests, Holding(s)', clock' <= Deadline(s)'
                 PROVE  Entry(s)' \in reservations' /\ Signing(s)' \in window'
      BY DEF PromisesHeld
    <2>1. Holding(s)
      BY <1>1, <1>2, <1>3, <1>6 DEF Holding
    <2>. QED
      BY <1>2, <1>4, <2>1 DEF PromisesHeld
  <1>15. Within'
    <2>1. ASSUME NEW e \in 0 .. epoch, e < epoch
          PROVE  {q \in Live' : q.epoch = e} = {q \in Live : q.epoch = e}
      BY <1>2, <1>6, <2>1 DEF Live
    <2>. QED
      BY <1>2, <2>1 DEF Within
  <1>. QED
    BY <1>10, <1>11, <1>12, <1>13, <1>14, <1>15

(* Time passes: entries and quotes expire together. *)
LEMMA TickStep == ASSUME LedgerInv, Tick PROVE LedgerInv'
  <1> USE DEF LedgerInv
  <1>1. /\ clock' = clock + 1 /\ clock < MaxClock
        /\ UNCHANGED <<reservations, window, pc, call, quotes, filled, funds, epoch, startedAt>>
    BY DEF Tick, ledger, process
  <1>2. clock \in Nat /\ clock' \in 0 .. MaxClock /\ MaxClock \in Nat
    BY <1>1, LedgerAssumption DEF TypeOK
  <1>3. \A s \in Requests : /\ Entry(s)' = Entry(s) /\ Signing(s)' = Signing(s)
                            /\ Token(s)' = Token(s) /\ Deadline(s)' = Deadline(s)
                            /\ \A q : q.req = s => (Says(q)' <=> Says(q))
    BY <1>1, CallDecides
  <1>10. TypeOK'
    <2>1. call \in [Requests -> [ask : Asks, feed : Feeds, now : 0 .. clock + 1]]
      BY <1>2 DEF TypeOK
    <2>. QED
      BY <1>1, <1>2, <2>1 DEF TypeOK
  <1>11. ThreadsPriced' /\ LedgerOfThreads'
    BY <1>1, <1>3 DEF ThreadsPriced, LedgerOfThreads
  <1>13. QuotesOfThreads'
    BY <1>1, <1>3 DEF QuotesOfThreads
  <1>14. PromisesHeld'
    <2> SUFFICES ASSUME NEW s \in Requests, Holding(s)', clock' <= Deadline(s)'
                 PROVE  Entry(s)' \in reservations' /\ Signing(s)' \in window'
      BY DEF PromisesHeld
    <2>1. Holding(s) /\ pc[s] \in Passed
      BY <1>1 DEF Holding, QuotesOfThreads, Passed
    <2>2. Deadline(s) \in Nat
      BY <2>1, PassedPriced
    <2>3. clock <= Deadline(s)
      BY <1>1, <1>2, <1>3, <2>2
    <2>. QED
      BY <1>1, <1>3, <2>1, <2>3 DEF PromisesHeld
  <1>15. Within'
    <2>1. ASSUME NEW t \in Stocked, NEW e \in 0 .. epoch, e < epoch
          PROVE  Total({q \in Live' : q.epoch = e}, t) <= CapOf(t)
      <3> DEFINE before == {q \in Live : q.epoch = e}
                 after == {q \in Live' : q.epoch = e}
      <3>1. after \subseteq before
        <4>1. \A q \in quotes : q.deadline \in Nat
          BY DEF TypeOK, QuoteType
        <4>. QED
          BY <1>1, <1>2, <4>1 DEF Live
      <3>2. Sized(before) /\ Sized(after)
        BY <3>1, Lists DEF Live
      <3> HIDE DEF before, after
      <3>3. Total(after, t) <= Total(before, t)
        BY <3>1, <3>2, TotalSubset
      <3>4. Total(after, t) \in Nat /\ Total(before, t) \in Nat /\ CapOf(t) \in Nat
        BY <3>2, TotalNat, LedgerAssumption DEF CapOf
      <3>5. Total(before, t) <= CapOf(t)
        BY <2>1 DEF Within, before
      <3>. QED
        BY <3>3, <3>4, <3>5 DEF after
    <2>. QED
      BY <1>1, <2>1 DEF Within, CapOf
  <1>. QED
    BY <1>10, <1>11, <1>13, <1>14, <1>15

(* A restart closes the run: what its quotes promise is what its ledger had capped. *)
LEMMA RestartStep == ASSUME LedgerInv, Restart PROVE LedgerInv'
  <1> USE DEF LedgerInv
  <1>1. /\ epoch < MaxRestarts /\ epoch' = epoch + 1 /\ startedAt' = clock
        /\ reservations' = {} /\ window' = {}
        /\ UNCHANGED <<clock, quotes, filled, funds>>
    BY DEF Restart
  <1>2. \A r \in Requests :
          IF pc[r] \in {"priced", "reserved"} THEN pc'[r] = "lost" /\ call'[r] = NoCall
                                              ELSE pc'[r] = pc[r] /\ call'[r] = call[r]
    BY DEF Restart
  <1>3. epoch \in Nat /\ clock \in Nat /\ MaxRestarts \in Nat /\ startedAt \in 0 .. clock
        /\ TTL \in Nat
    BY LedgerAssumption DEF TypeOK
  <1>4. \A s \in Requests : pc'[s] = "signed" =>
           /\ pc[s] = "signed" /\ call'[s] = call[s] /\ Deadline(s)' = Deadline(s)
           /\ \A q : q.req = s => (Says(q)' <=> Says(q))
    BY <1>2, CallDecides
  <1>5. \A s \in Requests : pc'[s] # "priced" /\ pc'[s] # "reserved"
    BY <1>2
  <1>10. TypeOK'
    <2>1. NoCall \in [ask : Asks, feed : Feeds, now : 0 .. clock]
      BY <1>3, NoCallTyped
    <2>2. /\ pc' \in [Requests -> States]
          /\ call' \in [Requests -> [ask : Asks, feed : Feeds, now : 0 .. clock]]
      BY <2>1 DEF Restart, TypeOK, States
    <2>. QED
      BY <1>1, <1>3, <2>2 DEF TypeOK
  <1>11. ThreadsPriced'
    <2>1. ASSUME NEW s \in Requests, pc'[s] \in Passed
          PROVE  /\ Parsed(call'[s].ask) /\ ~Degenerate(call'[s].ask, call'[s].feed)
                 /\ Token(s)' \in Stocked
      <3>1. pc[s] = "signed" /\ call'[s] = call[s] /\ Token(s)' = Token(s)
        BY <1>4, <1>5, <2>1, CallDecides DEF Passed
      <3>. QED
        BY <3>1 DEF ThreadsPriced, Passed, Booked
    <2>. QED
      BY <2>1 DEF ThreadsPriced, Passed, Booked
  <1>12. LedgerOfThreads'
    BY <1>1 DEF LedgerOfThreads
  <1>13. QuotesOfThreads'
    <2>1. ASSUME NEW q \in quotes
          PROVE  /\ q.req \in Requests /\ pc'[q.req] = "signed" /\ Says(q)'
                 /\ q.epoch \in 0 .. epoch + 1 /\ q.deadline <= clock + TTL
      <3>1. q.req \in Requests /\ pc[q.req] = "signed" /\ Says(q) /\ q.epoch \in 0 .. epoch
        BY DEF QuotesOfThreads
      <3>2. pc'[q.req] = "signed" /\ Says(q)'
        BY <1>2, <1>4, <3>1
      <3>3. q.deadline = call[q.req].now + TTL /\ call[q.req].now \in 0 .. clock
        BY <3>1 DEF Says, Deadline, TypeOK
      <3>. QED
        BY <1>3, <3>1, <3>2, <3>3
    <2>. QED
      BY <1>1, <2>1 DEF QuotesOfThreads
  <1>14. PromisesHeld'
    <2>1. \A s \in Requests : ~Holding(s)'
      <3>1. \A q \in quotes : q.epoch # epoch + 1
        BY <1>3 DEF QuotesOfThreads
      <3>. QED
        BY <1>1, <1>5, <3>1 DEF Holding
    <2>. QED
      BY <2>1 DEF PromisesHeld
  <1>15. Within'
    <2>1. ASSUME NEW t \in Stocked
          PROVE  Total(reservations', t) <= Inventory[t] /\ Total(window', t) <= MaxWindow[t]
      <3>1. Inventory[t] \in Nat /\ MaxWindow[t] \in Nat
        BY LedgerAssumption
      <3>. QED
        BY <1>1, <3>1, TotalEmpty
    <2>2. ASSUME NEW t \in Stocked, NEW e \in 0 .. epoch + 1, e < epoch + 1
          PROVE  Total({q \in Live : q.epoch = e}, t) <= CapOf(t)
      <3>1. CASE e < epoch
        BY <1>3, <3>1 DEF Within
      <3>2. CASE e = epoch
        BY <3>2, OwnCapped DEF OutstandingCapped, Own
      <3>. QED
        BY <1>3, <2>2, <3>1, <3>2
    <2>3. Live' = Live
      BY <1>1 DEF Live
    <2>. QED
      BY <1>1, <2>1, <2>2, <2>3 DEF Within, CapOf
  <1>. QED
    BY <1>10, <1>11, <1>12, <1>13, <1>14, <1>15

(* A settlement on chain is outside the ledger's knowledge: no list changes. *)
LEMMA FillStep ==
  ASSUME LedgerInv, NEW q \in quotes, Fill(q)
  PROVE  LedgerInv'
  <1> USE DEF LedgerInv
  <1>1. /\ q \notin filled /\ funds[q.token] >= q.permitted
        /\ filled' = filled \union {q}
        /\ funds' = [funds EXCEPT ![q.token] = @ - q.permitted]
        /\ UNCHANGED <<clock, reservations, window, pc, call, quotes, epoch, startedAt>>
    BY DEF Fill, ledger, process
  <1>2. q.token \in Stocked /\ q.permitted \in Nat /\ funds \in [Stocked -> Nat]
    BY DEF TypeOK, QuoteType
  <1>3. \A s \in Requests : /\ Entry(s)' = Entry(s) /\ Signing(s)' = Signing(s)
                            /\ Token(s)' = Token(s) /\ Deadline(s)' = Deadline(s)
                            /\ \A p : p.req = s => (Says(p)' <=> Says(p))
    BY <1>1, CallDecides
  <1>4. Live' = Live
    BY <1>1 DEF Live
  <1>5. funds' \in [Stocked -> Nat]
    BY <1>1, <1>2
  <1>10. TypeOK'
    BY <1>1, <1>5 DEF TypeOK
  <1>11. ThreadsPriced' /\ LedgerOfThreads' /\ QuotesOfThreads'
    BY <1>1, <1>3 DEF ThreadsPriced, LedgerOfThreads, QuotesOfThreads
  <1>12. PromisesHeld'
    BY <1>1, <1>3 DEF PromisesHeld, Holding
  <1>13. Within'
    BY <1>1, <1>4 DEF Within, CapOf
  <1>. QED
    BY <1>10, <1>11, <1>12, <1>13

(* The process starts with empty lists. *)
LEMMA LedgerInit == ASSUME Init PROVE LedgerInv
  <1>1. /\ clock = 0 /\ reservations = {} /\ window = {} /\ epoch = 0 /\ startedAt = 0
        /\ pc = [r \in Requests |-> "idle"] /\ call = [r \in Requests |-> NoCall]
        /\ quotes = {} /\ filled = {} /\ funds = Inventory
    BY DEF Init
  <1>2. TypeOK
    <2>1. NoCall \in [ask : Asks, feed : Feeds, now : 0 .. clock]
      BY <1>1, NoCallTyped
    <2>. QED
      BY <1>1, <2>1, LedgerAssumption DEF TypeOK, States
  <1>3. ThreadsPriced /\ LedgerOfThreads /\ QuotesOfThreads /\ PromisesHeld
    BY <1>1 DEF ThreadsPriced, LedgerOfThreads, QuotesOfThreads, PromisesHeld, Holding, Passed,
                Booked
  <1>4. Within
    BY <1>1, TotalEmpty, LedgerAssumption DEF Within
  <1>. QED
    BY <1>2, <1>3, <1>4 DEF LedgerInv

(* Every handler's step, settlements, the clock and restarts keep the invariant. *)
LEMMA LedgerNext == ASSUME LedgerInv, [Next]_vars PROVE LedgerInv'
  <1>1. /\ \A r \in Requests : call[r].now \in 0 .. clock
        /\ clock \in 0 .. clock
    BY LedgerAssumption DEF LedgerInv, TypeOK
  <1>2. CASE \E r \in Requests, ask \in Asks, feed \in Feeds, asOf \in 0 .. MaxClock :
               Arrive(r, ask, feed, asOf)
    BY <1>2, ArriveStep
  <1>3. ASSUME NEW r \in Requests, DeclineQuote(r) PROVE LedgerInv'
    BY <1>1, <1>3, DeclineStep DEF DeclineQuote, ledger
  <1>4. ASSUME NEW r \in Requests, DeclineUnquotable(r) PROVE LedgerInv'
    BY <1>1, <1>4, DeclineStep DEF DeclineUnquotable, Trying, ledger
  <1>5. ASSUME NEW r \in Requests, DeclineWindow(r) PROVE LedgerInv'
    BY <1>1, <1>5, DeclineStep DEF DeclineWindow, Trying
  <1>6. ASSUME NEW r \in Requests, DeclineInventory(r) PROVE LedgerInv'
    BY <1>1, <1>6, DeclineStep DEF DeclineInventory, Trying
  <1>7. ASSUME NEW r \in Requests, Reserve(r) \/ Sign(r) PROVE LedgerInv'
    BY <1>7, ReserveStep, SignStep
  <1>8. CASE Health \/ Restart \/ Tick \/ \E q \in quotes : Fill(q)
    BY <1>8, HealthStep, RestartStep, TickStep, FillStep
  <1>9. CASE UNCHANGED vars
    <2>1. /\ reservations' = reservations /\ window' = window /\ pc' = pc /\ call' = call
          /\ UNCHANGED <<clock, quotes, filled, funds, process>>
      BY <1>9 DEF vars, process
    <2>2. /\ pc \in [Requests -> States]
          /\ call \in [Requests -> [ask : Asks, feed : Feeds, now : 0 .. clock]]
          /\ \A s \in Requests : pc[s] \in Passed =>
               Parsed(call[s].ask) /\ ~Degenerate(call[s].ask, call[s].feed)
      BY DEF LedgerInv, TypeOK, ThreadsPriced
    <2>. QED
      BY <1>1, <2>1, <2>2, QuietStep
  <1>. QED
    BY <1>2, <1>3, <1>4, <1>5, <1>6, <1>7, <1>8, <1>9 DEF Next

-------------------------------------------------------------------------------
(* What the invariant is for. *)

(* Whatever the threads do, in whatever order, the invariant holds. *)
THEOREM LedgerInvariant == Spec => []LedgerInv
  <1>1. Init => LedgerInv
    BY LedgerInit
  <1>2. LedgerInv /\ [Next]_vars => LedgerInv'
    BY LedgerNext
  <1>. QED
    BY <1>1, <1>2, PTL DEF Spec

(* The ledger, the quotes and the maker's funds keep their types: only real amounts of *)
(* stocked tokens are ever written, and no settlement overdraws the maker.             *)
THEOREM LedgerTypeCorrect == Spec => []TypeOK
  <1>1. LedgerInv => TypeOK
    BY DEF LedgerInv
  <1>. QED
    BY <1>1, LedgerInvariant, PTL

(* Requirement 3 of maker.py, for any number of threads, tokens and restarts: the live *)
(* quotes of a process never promise more than its inventory and its window cap.       *)
THEOREM NeverOverPromised == Spec => []OutstandingCapped
  BY OwnCapped, LedgerInvariant, PTL

(* A live quote's reservation survives every other thread's pruning. *)
THEOREM PromisesStayReserved == Spec => []PromiseReserved
  <1>1. ASSUME LedgerInv PROVE PromiseReserved
    <2>1. ASSUME NEW q \in Own(Live)
          PROVE  [req |-> q.req, token |-> q.token, permitted |-> q.permitted,
                  deadline |-> q.deadline] \in reservations
      <3>1. q \in quotes /\ q.epoch = epoch /\ clock <= q.deadline
        BY DEF Own, Live
      <3>2. /\ q.req \in Requests /\ q.token = Token(q.req) /\ q.permitted = Permitted(q.req)
            /\ q.deadline = Deadline(q.req)
        BY <1>1, <3>1, QuoteFields DEF LedgerInv
      <3>3. Entry(q.req) \in reservations
        BY <1>1, <3>1, <3>2 DEF LedgerInv, PromisesHeld, Holding
      <3>. QED
        BY <3>2, <3>3 DEF Entry
    <2>2. ASSUME NEW r \in Requests, pc[r] = "reserved", clock <= Entry(r).deadline
          PROVE  Entry(r) \in reservations
      BY <1>1, <2>2 DEF LedgerInv, PromisesHeld, Holding, Entry
    <2>. QED
      BY <2>1, <2>2 DEF PromiseReserved
  <1>. QED
    BY <1>1, LedgerInvariant, PTL

(* The quotes of the runs before the n-th, together. *)
Before(n) == {q \in Live : q.epoch < n}

(* Each process promises at most one cap of its own, so n of them at most n. *)
LEMMA RunsAddUp ==
  ASSUME LedgerInv, NEW t \in Stocked, NEW n \in Nat, n <= epoch + 1
  PROVE  Total(Before(n), t) <= n * CapOf(t)
  <1> USE DEF LedgerInv
  <1> DEFINE T == {k \in Nat : k <= epoch + 1 => Total(Before(k), t) <= k * CapOf(t)}
  <1>1. epoch \in Nat /\ CapOf(t) \in Nat
    BY LedgerAssumption DEF TypeOK, CapOf
  <1>2. \A q \in Live : q \in quotes /\ q.epoch \in Nat
    BY DEF Live, TypeOK, QuoteType
  <1>3. 0 \in T
    <2>1. Before(0) = {}
      BY <1>2 DEF Before
    <2>2. Total(Before(0), t) = 0 /\ 0 * CapOf(t) = 0
      BY <1>1, <2>1, TotalEmpty
    <2>. QED
      BY <2>2
  <1>4. ASSUME NEW k \in Nat, k \in T PROVE k + 1 \in T
    <2> SUFFICES ASSUME k + 1 <= epoch + 1 PROVE Total(Before(k + 1), t) <= (k + 1) * CapOf(t)
      OBVIOUS
    <2> DEFINE run == {q \in Live : q.epoch = k}
    <2>1. run \in SUBSET Before(k + 1) /\ Before(k + 1) \ run = Before(k)
      BY <1>2 DEF Before
    <2>2. Sized(Before(k + 1)) /\ Sized(Before(k)) /\ Sized(run)
      BY <1>2, Lists DEF Before
    <2>3. Total(run, t) <= CapOf(t)
      <3>1. CASE k < epoch
        BY <1>1, <3>1 DEF Within
      <3>2. CASE k = epoch
        BY <3>2, OwnCapped DEF OutstandingCapped, Own
      <3>. QED
        BY <1>1, <3>1, <3>2
    <2>4. Total(Before(k), t) <= k * CapOf(t)
      BY <1>1, <1>4
    <2> HIDE DEF run
    <2>5. Total(Before(k + 1), t) = Total(run, t) + Total(Before(k), t)
      BY <2>1, <2>2, TotalSplit
    <2>6. Total(run, t) \in Nat /\ Total(Before(k), t) \in Nat
      BY <2>2, TotalNat
    <2>. QED
      BY <1>1, <2>3, <2>4, <2>5, <2>6
  <1> HIDE DEF T
  <1>5. n \in T
    BY <1>3, <1>4, NatInd
  <1>. QED
    BY <1>5 DEF T

(* What a restart costs: every run of the process promises at most the cap, and a *)
(* quote's lifetime after the last restart all live quotes together do.           *)
THEOREM RestartsHeal == Spec => []RestartHeals
  <1>1. ASSUME LedgerInv, NEW t \in Stocked
        PROVE  /\ Total(Live, t) <= (epoch + 1) * CapOf(t)
               /\ clock > startedAt + TTL => Total(Live, t) <= CapOf(t)
    <2>1. /\ epoch \in Nat /\ clock \in Nat /\ startedAt \in Nat /\ TTL \in Nat
      BY <1>1, LedgerAssumption DEF LedgerInv, TypeOK
    <2>2. Live = Before(epoch + 1)
      BY <1>1, <2>1 DEF LedgerInv, QuotesOfThreads, Before, Live
    <2>3. Total(Live, t) <= (epoch + 1) * CapOf(t)
      BY <1>1, <2>1, <2>2, RunsAddUp
    <2>4. ASSUME clock > startedAt + TTL PROVE Total(Live, t) <= CapOf(t)
      <3>1. \A q \in Live : q.epoch \in 0 .. epoch /\ q.deadline \in Nat
        BY <1>1 DEF LedgerInv, QuotesOfThreads, TypeOK, QuoteType, Live
      <3>2. \A q \in Live : q.epoch = epoch
        BY <1>1, <2>1, <2>4, <3>1 DEF LedgerInv, QuotesOfThreads, Live
      <3>3. Live = Own(Live)
        BY <3>2 DEF Own
      <3>. QED
        BY <1>1, <3>3, OwnCapped DEF OutstandingCapped
    <2>. QED
      BY <2>3, <2>4
  <1>2. LedgerInv => RestartHeals
    BY <1>1 DEF RestartHeals
  <1>. QED
    BY <1>2, LedgerInvariant, PTL

(* The price of every signed quote keeps the maker's edge over its feed, the tip paid *)
(* or not, and gives the taker the best amount that does.                             *)
THEOREM EdgeIsKept == Spec => []EdgeKept
  <1>1. ASSUME LedgerInv, NEW q \in quotes
        PROVE  LET ask == call[q.req].ask  feed == call[q.req].feed IN
               /\ LeavesEdge(q.sell, q.buy, feed)
               /\ q.buy * feed.den * (Bps + MaxTipBps)
                    >= (q.sell + q.maxTip) * feed.num * (Bps + Spread(feed))
               /\ feed.spread >= SpreadFloorBps \/ q.buy * feed.den * Bps
                    >= q.sell * feed.num * (Bps + SpreadFloorBps)
               /\ IF ExactOut(ask) THEN q.sell = ask.sell /\ ~LeavesEdge(q.sell, q.buy - 1, feed)
                                   ELSE q.buy = ask.buy /\ ~LeavesEdge(q.sell + 1, q.buy, feed)
    <2> DEFINE ask == call[q.req].ask
               feed == call[q.req].feed
    <2>1. /\ q.sell = SellOf(ask, feed) /\ q.buy = BuyOf(ask, feed) /\ q.maxTip = TipOf(ask, feed)
          /\ q.req \in Requests /\ pc[q.req] \in Passed
      BY <1>1 DEF LedgerInv, QuotesOfThreads, Says, Passed
    <2>2. ask \in AskType /\ feed \in FeedAnswer /\ Parsed(ask) /\ ~Degenerate(ask, feed)
      BY <1>1, <2>1, PassedPriced DEF LedgerInv
    <2> HIDE DEF ask, feed
    <2>3. /\ LeavesEdge(q.sell, q.buy, feed)
          /\ q.buy * feed.den * (Bps + MaxTipBps)
               >= (q.sell + q.maxTip) * feed.num * (Bps + Spread(feed))
          /\ q.buy * feed.den * Bps >= q.sell * feed.num * (Bps + SpreadFloorBps)
          /\ IF ExactOut(ask) THEN q.sell = ask.sell /\ ~LeavesEdge(q.sell, q.buy - 1, feed)
                              ELSE q.buy = ask.buy /\ ~LeavesEdge(q.sell + 1, q.buy, feed)
      BY <2>1, <2>2, PriceKeepsEdge
    <2>. QED
      BY <2>3 DEF ask, feed
  <1>2. LedgerInv => EdgeKept
    BY <1>1 DEF EdgeKept
  <1>. QED
    BY <1>2, LedgerInvariant, PTL

-------------------------------------------------------------------------------
(* What a refusal means. *)

HeldBy(S) == SumFunctionOnSet([s \in Requests |-> Permitted(s)], S)

(* Entries a thread's time still counts, of its token, are each held by another thread *)
(* whose deadline that time has not passed.                                            *)
LEMMA HeldCovers ==
  ASSUME LedgerInv, NEW r \in Requests, pc[r] = "priced", NEW L,
         L \in {Committed(call[r].now), InWindow(call[r].now)}
  PROVE  /\ Total(L, Token(r)) \in Nat /\ HeldBy(Holders(r)) \in Nat
         /\ Total(L, Token(r)) <= HeldBy(Holders(r))
  <1> USE DEF LedgerInv
  <1> DEFINE t == Token(r)
             w == [x \in L |-> x.permitted]
             v == [s \in Requests |-> Permitted(s)]
             f == [x \in L |-> x.req]
  <1>1. \A x \in L :
          /\ x.req \in Requests /\ pc[x.req] \in Booked /\ x.token = Token(x.req)
          /\ x.permitted = Permitted(x.req) /\ Deadline(x.req) >= call[r].now
    <2>1. CASE L = Committed(call[r].now)
      BY <2>1 DEF Committed, LedgerOfThreads, Entry
    <2>2. CASE L = InWindow(call[r].now)
      <3> SUFFICES ASSUME NEW x \in L
                   PROVE  /\ x.req \in Requests /\ pc[x.req] \in Booked
                          /\ x.token = Token(x.req) /\ x.permitted = Permitted(x.req)
                          /\ Deadline(x.req) >= call[r].now
        OBVIOUS
      <3>1. /\ x \in window /\ call[r].now - x.signedAt <= TTL
            /\ x.req \in Requests /\ pc[x.req] \in Booked /\ x = Signing(x.req)
        BY <2>2 DEF InWindow, LedgerOfThreads
      <3>2. x.signedAt = call[x.req].now /\ x.token = Token(x.req)
            /\ x.permitted = Permitted(x.req)
        BY <3>1 DEF Signing
      <3>3. call[x.req].now \in Nat /\ call[r].now \in Nat /\ TTL \in Nat
        BY <3>1, LedgerAssumption DEF TypeOK
      <3>. QED
        BY <3>1, <3>2, <3>3 DEF Deadline
    <2>. QED
      BY <2>1, <2>2
  <1>2. Sized(L)
    <2>1. L \subseteq reservations \/ L \subseteq window
      BY DEF Committed, InWindow
    <2>. QED
      BY <2>1, Lists, FS_Subset DEF Sized
  <1>3. \A x, y \in L : x.req = y.req => x = y
    BY DEF Committed, InWindow, LedgerOfThreads
  <1>4. /\ IsFiniteSet(OfToken(L, t)) /\ \A x \in OfToken(L, t) : w[x] \in Nat
        /\ Total(L, t) = SumFunctionOnSet(w, OfToken(L, t))
    BY <1>2, TotalIs
  <1>5. IsFiniteSet(Holders(r)) /\ \A s \in Holders(r) : v[s] \in Nat
    <2>1. Holders(r) \subseteq Requests /\ \A s \in Holders(r) : pc[s] \in Passed
      BY DEF Holders, Passed
    <2>2. \A s \in Holders(r) : Permitted(s) \in Nat
      BY <2>1, PassedPriced
    <2>. QED
      BY <2>1, <2>2, FS_Subset, LedgerAssumption
  <1>6. \A x \in OfToken(L, t) : f[x] \in Holders(r) /\ w[x] <= v[f[x]]
    <2>1. \A x \in OfToken(L, t) : x \in L /\ x.token = t
      BY DEF OfToken
    <2>2. \A x \in OfToken(L, t) : x.req \in Holders(r)
      BY <1>1, <2>1 DEF Holders, Booked
    <2>3. \A x \in L : w[x] = v[x.req] /\ f[x] = x.req
      BY <1>1
    <2>4. \A x \in OfToken(L, t) : w[x] \in Nat /\ w[x] = v[f[x]]
      BY <1>4, <2>1, <2>3
    <2> HIDE DEF w, v, f, t
    <2>. QED
      BY <2>1, <2>2, <2>3, <2>4
  <1>7. \A x, y \in OfToken(L, t) : f[x] = f[y] => x = y
    BY <1>3 DEF OfToken
  <1> HIDE DEF w, v, f
  <1>8. SumFunctionOnSet(w, OfToken(L, t)) <= SumFunctionOnSet(v, Holders(r))
    BY <1>4, <1>5, <1>6, <1>7, SumInjection
  <1>9. SumFunctionOnSet(w, OfToken(L, t)) \in Nat /\ SumFunctionOnSet(v, Holders(r)) \in Nat
    BY <1>4, <1>5, SumNat
  <1>. QED
    BY <1>4, <1>8, <1>9 DEF HeldBy, v

(* A request is only ever declined for what the caps refuse outright or for amounts other *)
(* requests still hold at its own time: the capacity of expired quotes comes back.        *)
THEOREM DeclinesAreJustified == Spec => DeclineJustified
  <1> DEFINE Justified ==
        \A r \in Requests :
          pc[r] = "priced" /\ pc'[r] = "declined" =>
            \/ ~Quotable(Token(r), Permitted(r))
            \/ Permitted(r) + SumFunctionOnSet([s \in Requests |-> Permitted(s)], Holders(r))
                 > CapOf(Token(r))
  <1>1. ASSUME LedgerInv, [Next]_vars, NEW r \in Requests, pc[r] = "priced",
               pc'[r] = "declined", Quotable(Token(r), Permitted(r))
        PROVE  Permitted(r) + HeldBy(Holders(r)) > CapOf(Token(r))
    <2> DEFINE now == call[r].now
               t == Token(r)
               p == Permitted(r)
    <2>1. pc \in [Requests -> States]
      BY <1>1 DEF LedgerInv, TypeOK
    <2>2. DeclineWindow(r) \/ DeclineInventory(r)
      <3>1. ~(UNCHANGED vars) /\ ~Health /\ ~Tick /\ ~Restart /\ \A q \in quotes : ~Fill(q)
        BY <1>1 DEF vars, Health, Tick, Restart, Fill
      <3>2. ASSUME NEW s \in Requests, NEW ask \in Asks, NEW feed \in Feeds, NEW asOf
            PROVE  ~Arrive(s, ask, feed, asOf)
        BY <1>1, <2>1 DEF Arrive
      <3>3. ASSUME NEW s \in Requests
            PROVE  /\ ~DeclineQuote(s) /\ ~Reserve(s) /\ ~Sign(s)
                   /\ s # r => /\ ~DeclineUnquotable(s) /\ ~DeclineWindow(s)
                               /\ ~DeclineInventory(s)
        BY <1>1, <2>1 DEF DeclineQuote, Reserve, Sign, DeclineUnquotable, DeclineWindow,
                          DeclineInventory, Decline, Answer
      <3>4. ~DeclineUnquotable(r)
        BY <1>1 DEF DeclineUnquotable
      <3>. QED
        BY <1>1, <3>1, <3>2, <3>3, <3>4 DEF Next
    <2>3. t \in Stocked /\ Inventory[t] \in Nat /\ MaxWindow[t] \in Nat /\ p \in Nat
      <3>1. t \in Stocked /\ pc[r] \in Passed
        BY <1>1 DEF Quotable, Passed
      <3>2. p \in Nat
        BY <1>1, <3>1, PassedPriced DEF LedgerInv
      <3>. QED
        BY <3>1, <3>2, LedgerAssumption
    <2>4. HeldBy(Holders(r)) \in Nat
      BY <1>1, HeldCovers
    <2>5. CASE DeclineWindow(r)
      <3>1. ~(Total(InWindow(now), t) + p <= MaxWindow[t])
        BY <2>5 DEF DeclineWindow, FitsWindow
      <3>2. Total(InWindow(now), t) \in Nat /\ Total(InWindow(now), t) <= HeldBy(Holders(r))
        BY <1>1, HeldCovers
      <3> HIDE DEF now, t, p
      <3>. QED
        BY <2>3, <2>4, <3>1, <3>2 DEF CapOf, t, p
    <2>6. CASE DeclineInventory(r)
      <3>1. ~(p <= Inventory[t] - Total(Committed(now), t))
        BY <2>6 DEF DeclineInventory, FitsFree
      <3>2. Total(Committed(now), t) \in Nat /\ Total(Committed(now), t) <= HeldBy(Holders(r))
        BY <1>1, HeldCovers
      <3> HIDE DEF now, t, p
      <3>. QED
        BY <2>3, <2>4, <3>1, <3>2 DEF CapOf, t, p
    <2>. QED
      BY <2>2, <2>5, <2>6
  <1>2. LedgerInv /\ [Next]_vars => [Justified]_vars
    BY <1>1 DEF HeldBy
  <1>. QED
    BY <1>2, LedgerInvariant, PTL DEF Spec, DeclineJustified
================================================================================
