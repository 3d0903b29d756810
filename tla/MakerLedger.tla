------------------------------ MODULE MakerLedger ------------------------------
(***************************************************************************)
(* The reference maker (src/distribution/maker.py): webhook threads that   *)
(* price a request, reserve inventory in the InventoryLedger and sign.     *)
(* Each thread reads the clock when its request arrives, and uses that     *)
(* time in the ledger after the price feed has answered: another thread    *)
(* may have pruned the ledger with a later time by then.  The ledger lives *)
(* in memory and never hears of a settlement.                              *)
(***************************************************************************)
EXTENDS Pricing, FiniteSets, Functions

CONSTANTS
  Requests,    \* webhook calls, each handled by a thread of its own
  Tokens,      \* sell tokens a request may name
  Asks,        \* what requests ask for: a sell token and one of the two amounts
  Feeds,       \* what the price feed may answer
  Inventory,   \* the configured stock, a function on the stocked tokens
  MaxQuote, MaxWindow,  \* the caps, functions on the stocked tokens
  TTL,         \* quote_ttl
  HotWindow,   \* hot_window
  MaxClock,    \* bound on the clock
  MaxRestarts  \* bound on restarts of the process

Stocked == DOMAIN Inventory

ASSUME LedgerAssumption ==
  /\ Stocked \subseteq Tokens /\ IsFiniteSet(Requests)
  /\ Asks \subseteq [token : Tokens, sell : Nat \union {Absent}, buy : Nat \union {Absent}]
  /\ Feeds \subseteq FeedAnswer /\ Asks # {} /\ Feeds # {}
  /\ Inventory \in [Stocked -> Nat]
  /\ MaxQuote \in [Stocked -> Nat] /\ MaxWindow \in [Stocked -> Nat]
  /\ TTL \in Nat /\ MaxClock \in Nat /\ MaxRestarts \in Nat
  /\ HotWindow \in Nat /\ HotWindow <= TTL   \* the defaults; nothing checks it

VARIABLES
  clock,
  reservations,  \* _reservations
  window,        \* _window
  pc,            \* where the thread of a request is
  call,          \* what the thread knows: ask, the feed's answer and its own now
  quotes,        \* the signed quotes: firm until their deadline
  filled,        \* the quotes settled on chain
  funds,         \* what the maker really holds of each stocked token
  epoch,         \* restarts so far
  startedAt      \* started_at: when the present process began

vars == <<clock, reservations, window, pc, call, quotes, filled, funds, epoch, startedAt>>
process == <<epoch, startedAt>>
ledger == <<reservations, window>>

\* The permitted amounts of token t in a set of entries (or quotes).
Total(S, t) == SumFunctionOnSet([x \in S |-> x.permitted], {x \in S : x.token = t})
-------------------------------------------------------------------------------
(* InventoryLedger *)

PrunedAtDeadline(now) == {r \in reservations : r.deadline > now}   \* mutant
NeverPruned(now) == reservations                                   \* mutant
Committed(now) == {r \in reservations : r.deadline >= now}
InWindow(now) == {w \in window : now - w.signedAt <= TTL}

Quotable(t, p) == t \in Stocked /\ p <= MaxQuote[t]
FitsWindow(t, p, now) == Total(InWindow(now), t) + p <= MaxWindow[t]
FitsFree(t, p, now) == p <= Inventory[t] - Total(Committed(now), t)

\* try_reserve holds the lock throughout: each of its four exits is one step.
Trying(r) == pc[r] = "priced"
Answer(r, state) == pc' = [pc EXCEPT ![r] = state] /\ UNCHANGED call
NoCall == [ask |-> CHOOSE a \in Asks : TRUE, feed |-> CHOOSE f \in Feeds : TRUE, now |-> 0]
Decline(r) == pc' = [pc EXCEPT ![r] = "declined"] /\ call' = [call EXCEPT ![r] = NoCall]
Token(r) == call[r].ask.token
Permitted(r) == PermittedOf(call[r].ask, call[r].feed)
Deadline(r) == call[r].now + TTL

DeclineUnquotable(r) ==
  /\ Trying(r)
  /\ ~Quotable(Token(r), Permitted(r))
  /\ Decline(r)
  /\ UNCHANGED <<clock, ledger, quotes, filled, funds, process>>

DeclineWindow(r) ==
  LET now == call[r].now IN
  /\ Trying(r)
  /\ Quotable(Token(r), Permitted(r)) /\ ~FitsWindow(Token(r), Permitted(r), now)
  /\ window' = InWindow(now)
  /\ Decline(r)
  /\ UNCHANGED <<clock, reservations, quotes, filled, funds, process>>

DeclineInventory(r) ==
  LET now == call[r].now IN
  /\ Trying(r)
  /\ Quotable(Token(r), Permitted(r)) /\ FitsWindow(Token(r), Permitted(r), now)
  /\ ~FitsFree(Token(r), Permitted(r), now)
  /\ window' = InWindow(now)
  /\ reservations' = Committed(now)
  /\ Decline(r)
  /\ UNCHANGED <<clock, quotes, filled, funds, process>>

Entry(r) == [req |-> r, token |-> Token(r), permitted |-> Permitted(r),
             deadline |-> Deadline(r)]
Signing(r) == [req |-> r, token |-> Token(r), permitted |-> Permitted(r),
               signedAt |-> call[r].now]

ReserveWindowOnly(r) ==                                            \* mutant
  LET now == call[r].now IN
  /\ Trying(r)
  /\ Quotable(Token(r), Permitted(r))
  /\ FitsWindow(Token(r), Permitted(r), now) /\ FitsFree(Token(r), Permitted(r), now)
  /\ reservations' = Committed(now)
  /\ window' = InWindow(now) \union {Signing(r)}
  /\ Answer(r, "reserved")
  /\ UNCHANGED <<clock, quotes, filled, funds, process>>

Reserve(r) ==
  LET now == call[r].now IN
  /\ Trying(r)
  /\ Quotable(Token(r), Permitted(r))
  /\ FitsWindow(Token(r), Permitted(r), now) /\ FitsFree(Token(r), Permitted(r), now)
  /\ reservations' = Committed(now) \union {Entry(r)}
  /\ window' = InWindow(now) \union {Signing(r)}
  /\ Answer(r, "reserved")
  /\ UNCHANGED <<clock, quotes, filled, funds, process>>

\* GET /health reads the free inventory, which prunes the reservations.
Health ==
  /\ reservations' = Committed(clock)
  /\ UNCHANGED <<clock, window, pc, call, quotes, filled, funds, process>>
-------------------------------------------------------------------------------
(* make_signed_quote *)

\* The request is parsed and the feed prices it, both with the time of its arrival.
\* An answer as of a later time is fresh, so the feed's own delay needs no step.
ArriveUnchecked(r, ask, feed, asOf) ==                             \* mutant
  /\ pc[r] = "idle" /\ Parsed(ask)
  /\ call' = [call EXCEPT ![r] = [ask |-> ask, feed |-> feed, now |-> clock]]
  /\ pc' = [pc EXCEPT ![r] = "priced"]
  /\ UNCHANGED <<clock, ledger, quotes, filled, funds, process>>

Arrive(r, ask, feed, asOf) ==
  /\ pc[r] = "idle" /\ Parsed(ask)
  /\ Fresh(asOf, clock) /\ ~Degenerate(ask, feed)
  /\ call' = [call EXCEPT ![r] = [ask |-> ask, feed |-> feed, now |-> clock]]
  /\ pc' = [pc EXCEPT ![r] = "priced"]
  /\ UNCHANGED <<clock, ledger, quotes, filled, funds, process>>

\* Not quoting: an unreadable request, one that rounds to nothing, or a feed that has
\* no price or an old one, which is always possible.
DeclineQuote(r) ==
  /\ pc[r] = "idle"
  /\ Decline(r)
  /\ UNCHANGED <<clock, ledger, quotes, filled, funds, process>>

Quote(r) ==
  LET ask == call[r].ask  feed == call[r].feed IN
  [req |-> r, token |-> ask.token, permitted |-> Permitted(r),
   sell |-> SellOf(ask, feed), buy |-> BuyOf(ask, feed), maxTip |-> TipOf(ask, feed),
   fillWindow |-> call[r].now + HotWindow, deadline |-> Deadline(r), epoch |-> epoch]

Sign(r) ==
  /\ pc[r] = "reserved"
  /\ quotes' = quotes \union {Quote(r)}
  /\ Answer(r, "signed")
  /\ UNCHANGED <<clock, ledger, filled, funds, process>>

\* The process dies and comes back: the ledger and the running threads are gone.
Restart ==
  LET running == {r \in Requests : pc[r] \in {"priced", "reserved"}} IN
  /\ epoch < MaxRestarts
  /\ epoch' = epoch + 1 /\ startedAt' = clock
  /\ reservations' = {} /\ window' = {}
  /\ pc' = [r \in Requests |-> IF r \in running THEN "lost" ELSE pc[r]]
  /\ call' = [r \in Requests |-> IF r \in running THEN NoCall ELSE call[r]]
  /\ UNCHANGED <<clock, quotes, filled, funds>>
-------------------------------------------------------------------------------
(* The environment *)

\* A settlement on chain: valid at the deadline second, once per quote.
Fill(q) ==
  /\ q \notin filled /\ clock <= q.deadline
  /\ funds[q.token] >= q.permitted
  /\ filled' = filled \union {q}
  /\ funds' = [funds EXCEPT ![q.token] = @ - q.permitted]
  /\ UNCHANGED <<clock, ledger, pc, call, quotes, process>>

Tick ==
  /\ clock < MaxClock
  /\ clock' = clock + 1
  /\ UNCHANGED <<ledger, pc, call, quotes, filled, funds, process>>

Init ==
  /\ clock = 0 /\ reservations = {} /\ window = {} /\ epoch = 0 /\ startedAt = 0
  /\ pc = [r \in Requests |-> "idle"]
  /\ call = [r \in Requests |-> NoCall]
  /\ quotes = {} /\ filled = {} /\ funds = Inventory

Next ==
  \/ \E r \in Requests, ask \in Asks, feed \in Feeds, asOf \in 0 .. MaxClock :
       Arrive(r, ask, feed, asOf)
  \/ \E r \in Requests : \/ DeclineQuote(r) \/ DeclineUnquotable(r)
                         \/ DeclineWindow(r) \/ DeclineInventory(r)
                         \/ Reserve(r) \/ Sign(r)
  \/ Health \/ Restart
  \/ \E q \in quotes : Fill(q)
  \/ Tick

Spec == Init /\ [][Next]_vars
-------------------------------------------------------------------------------
(* Properties *)

States == {"idle", "priced", "declined", "reserved", "signed", "lost"}
EntryType == [req : Requests, token : Stocked, permitted : Nat \ {0}, deadline : Nat]
WindowType == [req : Requests, token : Stocked, permitted : Nat \ {0}, signedAt : Nat]
QuoteType == [req : Requests, token : Stocked, permitted : Nat \ {0}, sell : Nat \ {0},
              buy : Nat \ {0}, maxTip : Nat, fillWindow : Nat, deadline : Nat, epoch : Nat]

\* Entries and quotes are only ever written for stocked tokens and real amounts, and a
\* settlement never overdraws the maker.
TypeOK ==
  /\ clock \in 0 .. MaxClock /\ epoch \in 0 .. MaxRestarts /\ startedAt \in 0 .. clock
  /\ reservations \subseteq EntryType /\ window \subseteq WindowType
  /\ pc \in [Requests -> States]
  /\ call \in [Requests -> [ask : Asks, feed : Feeds, now : 0 .. clock]]
  /\ quotes \subseteq QuoteType /\ filled \subseteq quotes
  /\ funds \in [Stocked -> Nat]

\* The quotes somebody can still settle, and those of this run of the process.
Live == {q \in quotes : clock <= q.deadline}
Own(S) == {q \in S : q.epoch = epoch}
CapOf(t) == IF Inventory[t] <= MaxWindow[t] THEN Inventory[t] ELSE MaxWindow[t]

\* Requirement 3 of maker.py: however the threads interleave and however old the
\* time they bring to the ledger, the live quotes a process signed never promise
\* more of a token than its inventory and its window cap.
OutstandingCapped == \A t \in Stocked : Total(Own(Live), t) <= CapOf(t)

\* What a restart costs, and for how long: the reservations are gone while signatures
\* of before stay good, but each process promises at most the cap and, a quote's
\* lifetime after the restart, all live quotes together do.
RestartHeals ==
  \A t \in Stocked :
    /\ Total(Live, t) <= (epoch + 1) * CapOf(t)
    /\ clock > startedAt + TTL => Total(Live, t) <= CapOf(t)

\* The price of a signed quote, against the reference: the maker keeps its edge over
\* the feed's rate, even if the whole tip is paid (then less the tip's share), and the
\* taker gets the best amount that leaves it, the amount it fixed being exact.
EdgeKept ==
  \A q \in quotes :
    LET ask == call[q.req].ask  feed == call[q.req].feed IN
    /\ LeavesEdge(q.sell, q.buy, feed)
    /\ q.buy * feed.den * (Bps + MaxTipBps)
         >= (q.sell + q.maxTip) * feed.num * (Bps + Spread(feed))
    /\ feed.spread >= SpreadFloorBps \/ q.buy * feed.den * Bps
         >= q.sell * feed.num * (Bps + SpreadFloorBps)
    /\ IF ExactOut(ask) THEN q.sell = ask.sell /\ ~LeavesEdge(q.sell, q.buy - 1, feed)
                        ELSE q.buy = ask.buy /\ ~LeavesEdge(q.sell + 1, q.buy, feed)

\* A quote stays reserved up to and including its deadline second, and so does the
\* amount a thread is about to sign: no other thread's pruning releases it early.
PromiseReserved ==
  /\ \A q \in Own(Live) : [req |-> q.req, token |-> q.token, permitted |-> q.permitted,
                           deadline |-> q.deadline] \in reservations
  /\ \A r \in Requests :
       pc[r] = "reserved" /\ clock <= Entry(r).deadline => Entry(r) \in reservations

\* The capacity of expired quotes comes back: a request is only ever declined for
\* what the caps refuse outright or for amounts other requests still hold at its now.
Holders(r) == {s \in Requests : /\ pc[s] \in {"reserved", "signed"}
                                /\ Token(s) = Token(r)
                                /\ Deadline(s) >= call[r].now}
DeclineJustified ==
  [][\A r \in Requests :
       pc[r] = "priced" /\ pc'[r] = "declined" =>
         \/ ~Quotable(Token(r), Permitted(r))
         \/ Permitted(r) + SumFunctionOnSet([s \in Requests |-> Permitted(s)], Holders(r))
              > CapOf(Token(r))]_vars
===============================================================================
