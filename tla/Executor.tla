-------------------------------- MODULE Executor --------------------------------
(***************************************************************************)
(* The reference executor (src/distribution/executor.py): one round polls  *)
(* every relay, keeps the first copy of each order, judges the copies one  *)
(* by one and sends the ones that simulate green.  The round keeps the     *)
(* time of its start; the chain, the clock and the other executors move on *)
(* between any two of its calls.  A transaction is mined later, after the  *)
(* executor's earlier ones.                                                *)
(*                                                                         *)
(* A relay is external and answers a poll with any list, nothing, or       *)
(* something that is no list of orders at all.  So is the chain.           *)
(***************************************************************************)
EXTENDS Integers, Sequences, SequencesExt, FiniteSetsExt

CONSTANTS
  RelayCount,    \* relays 1 .. RelayCount, in the order of the configuration
  Orders,        \* order hashes
  Submissions,   \* [order, nonce, kind]: signed copies of orders
  Malformed,     \* an entry parse_signed_order refuses
  Answers,       \* Answers[r]: the lists relay r may answer with
  Open, Self, Other,  \* what an order's taker may be
  TakerOf, FillWindow, Deadline,
  BuyAmount,     \* what the caller pays, in units of the buy token
  SellValue, TipValue,  \* what sellAmount and maxTip are worth at price_fn, same unit
  Priced,        \* the orders price_fn has a price for
  Wide,          \* those whose sellAmount + maxTip is no uint256, though each amount is
  MinProfitBps, MaxNotional, Margin,  \* guardrails
  Purse,         \* buy tokens the executor starts with
  Contested,     \* bound: the copies that rivals settle or makers cancel
  Revocable,     \* bound: the orders whose makers may move the funds away
  MaxClock, MaxPending  \* bounds: the clock, and unmined transactions at a time

Kinds == {"eoa", "wallet", "junk"}

ASSUME ExecutorAssumption ==
  /\ RelayCount \in Nat /\ Malformed \notin Submissions
  /\ Submissions \subseteq [order : Orders, nonce : Nat, kind : Kinds]
  /\ Answers \in [1 .. RelayCount -> SUBSET Seq(Submissions \union {Malformed})]
  /\ TakerOf \in [Orders -> {Open, Self, Other}] /\ Other \notin {Open, Self}
  /\ FillWindow \in [Orders -> Nat] /\ Deadline \in [Orders -> Nat]
  /\ BuyAmount \in [Orders -> Nat] /\ Priced \subseteq Orders
  /\ Wide \subseteq Orders /\ Revocable \subseteq Orders /\ Contested \subseteq Submissions
  /\ SellValue \in [Orders -> Nat] /\ TipValue \in [Orders -> Nat]
  /\ {MinProfitBps, MaxNotional, Margin, Purse, MaxClock, MaxPending} \subseteq Nat

VARIABLES
  clock,
  submit,     \* SUBMIT=1: not a dry run
  pc,         \* "idle", "polling", "judging", "sending" or "aborted"
  round,      \* its start time, next relay, copies seen, next copy
  served,     \* history: the entries the relays answered this round
  decisions,  \* this round's decisions
  mempool,    \* the executor's pending transactions, oldest first
  spent,      \* <<order, nonce>> settled or cancelled on chain
  backed,     \* the orders whose maker still holds and allows the tokens
  purse,      \* the executor's buy tokens
  worth       \* history: value of what its fills brought in

vars == <<clock, submit, pc, round, served, decisions, mempool, spent, backed, purse, worth>>
executor == <<submit, pc, round, served, decisions>>
chain == <<mempool, spent, backed, purse, worth>>

Copy == round.seen[round.next]
-------------------------------------------------------------------------------
(* The chain, as the executor relies on it *)

\* settle(order, sellAmount + maxTip, nonce, sig) would go through now.
Settleable(s) ==
  /\ FillWindow[s.order] <= clock /\ clock <= Deadline[s.order]
  /\ s.kind # "junk" /\ <<s.order, s.nonce>> \notin spent
  /\ s.order \in backed \ Wide /\ BuyAmount[s.order] <= purse

\* The tip goes to the caller; sellAmount only if the caller is the taker.
Received(o) == TipValue[o] + IF TakerOf[o] = Other THEN 0 ELSE SellValue[o]

Mine ==
  /\ mempool # <<>>
  /\ LET s == Head(mempool) IN
       IF Settleable(s)
       THEN /\ spent' = spent \union {<<s.order, s.nonce>>}
            /\ purse' = purse - BuyAmount[s.order]
            /\ worth' = worth + Received(s.order)
       ELSE UNCHANGED <<spent, purse, worth>>
  /\ mempool' = Tail(mempool)
  /\ UNCHANGED <<clock, executor, backed>>

\* Another executor settles the copy, or the maker cancels its nonce.
Rival(s) ==
  /\ <<s.order, s.nonce>> \notin spent
  /\ spent' = spent \union {<<s.order, s.nonce>>}
  /\ UNCHANGED <<clock, executor, mempool, backed, purse, worth>>

\* The maker spends the tokens or revokes Permit2's allowance.
Drain(o) ==
  /\ backed' = backed \ {o}
  /\ UNCHANGED <<clock, executor, mempool, spent, purse, worth>>

Tick ==
  /\ clock < MaxClock
  /\ clock' = clock + 1
  /\ UNCHANGED <<executor, chain>>
-------------------------------------------------------------------------------
(* poll_relays *)

Begin ==
  /\ pc \in {"idle", "aborted"}
  /\ pc' = "polling"
  /\ round' = [now |-> clock, relay |-> 1, seen |-> <<>>, next |-> 1]
  /\ served' = {} /\ decisions' = <<>>
  /\ UNCHANGED <<clock, submit, chain>>

\* The freshness challenge fails, or the relay does not answer: the next one.
PollSkips ==
  /\ pc = "polling" /\ round.relay <= RelayCount
  /\ round' = [round EXCEPT !.relay = @ + 1]
  /\ UNCHANGED <<clock, submit, pc, served, decisions, chain>>

\* setdefault by recomputed order hash, in the order of relays and answers.
Parsed(answer) == ToSet(answer) \ {Malformed}
AddUnparsed(seen, e) ==                                            \* mutant
  IF e # Malformed /\ \E i \in DOMAIN seen : seen[i] # Malformed /\ seen[i].order = e.order
  THEN seen ELSE Append(seen, e)
AddCopy(seen, e) ==                                                \* mutant
  IF e = Malformed \/ Contains(seen, e) THEN seen ELSE Append(seen, e)
AddFirst(seen, e) ==
  IF e = Malformed \/ \E i \in DOMAIN seen : seen[i].order = e.order
  THEN seen ELSE Append(seen, e)
Gathered(seen, answer) ==
  LET kept[n \in 0 .. Len(answer)] ==
        IF n = 0 THEN seen ELSE AddFirst(kept[n - 1], answer[n])
  IN  kept[Len(answer)]

PollAnswers(answer) ==
  /\ pc = "polling" /\ round.relay <= RelayCount
  /\ round' = [round EXCEPT !.relay = @ + 1, !.seen = Gathered(@, answer)]
  /\ served' = served \union Parsed(answer)
  /\ UNCHANGED <<clock, submit, pc, decisions, chain>>

\* Valid JSON of another shape raises outside the try: the round is over.
PollBreaks ==
  /\ pc = "polling" /\ round.relay <= RelayCount
  /\ pc' = "aborted"
  /\ UNCHANGED <<clock, submit, round, served, decisions, chain>>

PollEnds ==
  /\ pc = "polling" /\ round.relay > RelayCount
  /\ pc' = "judging"
  /\ UNCHANGED <<clock, submit, round, served, decisions, chain>>
-------------------------------------------------------------------------------
(* evaluate, for the next copy; its gates read the round's time *)

TakerGuardOff(o) == TRUE                                           \* mutant
TakerGuard(o) == TakerOf[o] \in {Open, Self}
Verified(s) == s.kind # "junk" /\ s.order \notin Wide   \* if the RPC answers
InMargin(o) == round.now <= Deadline[o] /\ Deadline[o] - round.now >= Margin
IsHot(o) == round.now < FillWindow[o]
Profitable(o) ==
  /\ BuyAmount[o] > 0 /\ BuyAmount[o] <= MaxNotional
  /\ (SellValue[o] + TipValue[o] - BuyAmount[o]) * 10000 >= MinProfitBps * BuyAmount[o]

Judging == pc = "judging" /\ round.next <= Len(round.seen)
Decide(action) ==
  /\ decisions' = Append(decisions, [copy |-> Copy, action |-> action])
  /\ round' = [round EXCEPT !.next = @ + 1]

\* Any gate says no, or the RPC does not answer where the gates need it.
Refuse ==
  LET o == Copy.order
      priced == TakerGuard(o) /\ Verified(Copy) /\ InMargin(o) /\ ~IsHot(o) /\ o \in Priced
  IN
  /\ Judging
  /\ \/ ~TakerGuard(o)
     \/ TakerGuard(o) /\ Copy.kind \in {"wallet", "junk"} /\ o \notin Wide
     \/ TakerGuard(o) /\ Verified(Copy) /\ ~InMargin(o)
     \/ priced   \* not profitable, or the simulation reverts or fails
  /\ Decide("refuse")
  /\ UNCHANGED <<clock, submit, pc, served, chain>>

\* The digest of an amount that is no uint256 raises, here outside every try.
JudgeBreaks ==
  /\ Judging /\ TakerGuard(Copy.order) /\ Copy.order \in Wide
  /\ pc' = "aborted"
  /\ UNCHANGED <<clock, submit, round, served, decisions, chain>>

Skip ==
  LET o == Copy.order IN
  /\ Judging
  /\ TakerGuard(o) /\ Verified(Copy) /\ InMargin(o)
  /\ IsHot(o) \/ o \notin Priced
  /\ Decide("skip")
  /\ UNCHANGED <<clock, submit, pc, served, chain>>

\* Every gate passes and the simulation is green, on the latest block.
Green ==
  LET o == Copy.order IN
  /\ Judging
  /\ TakerGuard(o) /\ Verified(Copy) /\ InMargin(o) /\ ~IsHot(o) /\ o \in Priced
  /\ Profitable(o) /\ Settleable(Copy)

Approve ==
  /\ Green /\ submit
  /\ pc' = "sending"
  /\ UNCHANGED <<clock, submit, round, served, decisions, chain>>

WouldSettle ==
  /\ Green /\ ~submit
  /\ Decide("settle")
  /\ UNCHANGED <<clock, submit, pc, served, chain>>
-------------------------------------------------------------------------------
(* _send: estimate gas on the latest block, then broadcast.  One step: whatever *)
(* moves between the two may as well move between the broadcast and Mine.       *)

Broadcast ==
  /\ Settleable(Copy) /\ Len(mempool) < MaxPending
  /\ mempool' = Append(mempool, Copy)

Sent ==
  /\ pc = "sending"
  /\ Broadcast /\ Decide("settle") /\ pc' = "judging"
  /\ UNCHANGED <<clock, submit, served, spent, backed, purse, worth>>


\* The estimate or an RPC call fails, or only the broadcast's answer is lost.
SendFails ==
  /\ pc = "sending"
  /\ Broadcast \/ UNCHANGED mempool
  /\ Decide("refuse") /\ pc' = "judging"
  /\ UNCHANGED <<clock, submit, served, spent, backed, purse, worth>>

End ==
  /\ pc = "judging" /\ round.next > Len(round.seen)
  /\ pc' = "idle"
  /\ UNCHANGED <<clock, submit, round, served, decisions, chain>>

Poll == \/ PollSkips \/ PollBreaks \/ PollEnds
        \/ \E r \in 1 .. RelayCount :
             r = round.relay /\ \E answer \in Answers[r] : PollAnswers(answer)
Judge == Refuse \/ JudgeBreaks \/ Skip \/ Approve \/ WouldSettle
Execute == Poll \/ Judge \/ Sent \/ SendFails \/ End

Init ==
  /\ clock = 0 /\ submit \in BOOLEAN /\ pc = "idle"
  /\ round = [now |-> 0, relay |-> 1, seen |-> <<>>, next |-> 1]
  /\ served = {} /\ decisions = <<>> /\ mempool = <<>>
  /\ spent = {} /\ backed = Orders /\ purse = Purse /\ worth = 0

Next ==
  \/ Begin \/ Execute
  \/ Mine \/ Tick
  \/ \E s \in Contested : Rival(s)
  \/ \E o \in Revocable : Drain(o)

\* A round that runs goes on: each of its calls has a timeout and its loops are over
\* finite lists.  Nobody has to begin a round, and nothing else has to happen.
Spec == Init /\ [][Next]_vars /\ WF_vars(Execute)
-------------------------------------------------------------------------------
(* Properties *)

\* Types: only parsed copies are judged or sent, and the purse is never overdrawn.
TypeOK ==
  /\ clock \in 0 .. MaxClock /\ submit \in BOOLEAN
  /\ pc \in {"idle", "polling", "judging", "sending", "aborted"}
  /\ round \in [now : 0 .. MaxClock, relay : 1 .. RelayCount + 1,
                seen : Seq(Submissions), next : Nat \ {0}]
  /\ served \subseteq Submissions /\ mempool \in Seq(Submissions)
  /\ decisions \in Seq([copy : Submissions, action : {"settle", "refuse", "skip"}])
  /\ spent \subseteq Orders \X Nat /\ backed \subseteq Orders
  /\ purse \in 0 .. Purse /\ worth \in Nat

\* The money guard: however late its transactions are mined and whoever acts in
\* between, what the executor's fills brought in is worth what it paid for them plus
\* the profit floor, at the prices it decided on.
Paid == Purse - purse
NeverUnderpaid == worth * 10000 >= Paid * (10000 + MinProfitBps)

\* Deduplication by recomputed hash: one round sends at most one transaction for an
\* order, however many signed copies of it the relays serve.
OncePerRound ==
  \A i, j \in DOMAIN decisions :
    decisions[i].copy.order = decisions[j].copy.order => i = j

\* No relay, refusal or failed send keeps the round from the other orders: an order
\* any relay served is eventually decided on, unless an answer that is no list, or an
\* order whose digest cannot be computed, broke the round.
Decided(o) == \E i \in DOMAIN decisions : decisions[i].copy.order = o

\* Rendezvous, as ARCHITECTURE.md has it: a signed copy that a polled relay served is
\* judged in that round; another relay's answer cannot hide it.
Judged(s) == \E i \in DOMAIN decisions : decisions[i].copy = s
NotHidden ==
  pc = "idle" => \A s \in served : s.kind # "junk" =>
    Judged(s) \/ \E i \in DOMAIN decisions :
                   decisions[i].copy.order = s.order /\ decisions[i].copy.kind # "junk"
===============================================================================
