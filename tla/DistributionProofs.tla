--------------------------- MODULE DistributionProofs ---------------------------
(***************************************************************************)
(* Theorems about the executor, alone and among makers and relays, for any *)
(* orders, copies, prices and answers.  What is proved of the executor     *)
(* holds whatever a relay answers; the refinement of Offers needs besides  *)
(* that nobody can forge a maker's signature.                              *)
(***************************************************************************)
EXTENDS Distribution, FoldLemmas

(* The executor: what it sends passed the gates that only depend on the order, it works *)
(* off its list of copies in order, and that list holds every order once.               *)
Good(s) == TakerGuard(s.order) /\ Profitable(s.order)
OneEach(list) == \A i, j \in 1 .. Len(list) : list[i].order = list[j].order => i = j

Tracked ==
  /\ Len(decisions) = round.next - 1 /\ round.next <= Len(round.seen) + 1
  /\ \A i \in 1 .. Len(decisions) : decisions[i].copy = round.seen[i]
  /\ pc = "polling" => round.next = 1
  /\ pc = "sending" => round.next <= Len(round.seen) /\ Good(Copy)
Deduplicated == OneEach(round.seen)
Sound == \A i \in 1 .. Len(mempool) : Good(mempool[i])
ExecInv == TypeOK /\ Tracked /\ Deduplicated /\ Sound /\ NeverUnderpaid
-------------------------------------------------------------------------------
(* Deduplication: what the executor's list holds after an answer. *)

GatherStep(seen, answer, g, n) == IF n = 0 THEN seen ELSE AddFirst(g[n - 1], answer[n])
Gathers(seen, answer) == CHOOSE g : g = [n \in 0 .. Len(answer) |-> GatherStep(seen, answer, g, n)]

\* Gathered is the last value of that recursive function.
LEMMA GatheredIsGathers ==
  ASSUME NEW seen, NEW answer
  PROVE  Gathered(seen, answer) = Gathers(seen, answer)[Len(answer)]
  BY DEF Gathered, Gathers, GatherStep

\* The recursive function exists, for lists of any length.
LEMMA GathersExist ==
  ASSUME NEW seen, NEW answer, Len(answer) \in Nat
  PROVE  \A n \in 0 .. Len(answer) :
            Gathers(seen, answer)[n] = GatherStep(seen, answer, Gathers(seen, answer), n)
  <1> DEFINE Has(m) == \E g : g = [n \in 0 .. m |-> GatherStep(seen, answer, g, n)]
             T == {m \in Nat : Has(m)}
  <1>1. 0 \in T
    <2> DEFINE g == [n \in 0 .. 0 |-> seen]
    <2>1. g = [n \in 0 .. 0 |-> GatherStep(seen, answer, g, n)]
      BY DEF GatherStep
    <2>. QED
      BY <2>1
  <1>2. \A m \in Nat : m \in T => m + 1 \in T
    <2> SUFFICES ASSUME NEW m \in Nat, NEW g, g = [n \in 0 .. m |-> GatherStep(seen, answer, g, n)]
                 PROVE  Has(m + 1)
      OBVIOUS
    <2> DEFINE h == [n \in 0 .. m + 1 |-> GatherStep(seen, answer, g, n)]
    <2>1. ASSUME NEW n \in 0 .. m + 1
          PROVE  GatherStep(seen, answer, g, n) = GatherStep(seen, answer, h, n)
      <3>1. CASE n = 0
        BY <3>1 DEF GatherStep
      <3>2. CASE n # 0
        <4>1. n - 1 \in 0 .. m /\ n - 1 \in 0 .. m + 1
          BY <3>2
        <4>2. h[n - 1] = g[n - 1]
          BY <4>1, Zenon
        <4>. QED
          BY <3>2, <4>2 DEF GatherStep
      <3>. QED
        BY <3>1, <3>2
    <2>2. h = [n \in 0 .. m + 1 |-> GatherStep(seen, answer, h, n)]
      BY <2>1, Zenon
    <2>. QED
      BY <2>2
  <1> HIDE DEF T
  <1>3. Len(answer) \in T
    BY <1>1, <1>2, NatInd
  <1>4. \E g : g = [n \in 0 .. Len(answer) |-> GatherStep(seen, answer, g, n)]
    BY <1>3 DEF T
  <1>5. Gathers(seen, answer) = [n \in 0 .. Len(answer) |->
                                    GatherStep(seen, answer, Gathers(seen, answer), n)]
    BY <1>4, Zenon DEF Gathers
  <1>. QED
    BY <1>5, Zenon

\* A copy of an order that is not in the list may join it.
LEMMA AppendKeeps ==
  ASSUME NEW S, NEW list \in Seq(S), OneEach(list), NEW s \in S,
         \A i \in 1 .. Len(list) : list[i].order # s.order
  PROVE  Append(list, s) \in Seq(S) /\ OneEach(Append(list, s))
  <1> DEFINE new == Append(list, s)
  <1>1. /\ new \in Seq(S) /\ Len(new) = Len(list) + 1 /\ Len(list) \in Nat
        /\ new[Len(list) + 1] = s /\ \A i \in 1 .. Len(list) : new[i] = list[i]
    OBVIOUS
  <1> HIDE DEF new
  <1>2. ASSUME NEW i \in 1 .. Len(new), NEW j \in 1 .. Len(new), new[i].order = new[j].order
        PROVE  i = j
    <2>1. CASE i = Len(list) + 1
      BY <1>1, <1>2, <2>1
    <2>2. CASE j = Len(list) + 1
      BY <1>1, <1>2, <2>2
    <2>3. CASE i # Len(list) + 1 /\ j # Len(list) + 1
      BY <1>1, <1>2, <2>3 DEF OneEach
    <2>. QED
      BY <2>1, <2>2, <2>3
  <1>. QED
    BY <1>1, <1>2 DEF OneEach, new

\* One entry of an answer: the list still holds every order once.
LEMMA AddFirstKeeps ==
  ASSUME NEW S \in SUBSET Submissions, NEW seen \in Seq(S), OneEach(seen),
         NEW e \in S \union {Malformed}
  PROVE  AddFirst(seen, e) \in Seq(S) /\ OneEach(AddFirst(seen, e))
  <1>1. CASE e = Malformed \/ \E i \in DOMAIN seen : seen[i].order = e.order
    BY <1>1 DEF AddFirst
  <1>2. CASE ~(e = Malformed \/ \E i \in DOMAIN seen : seen[i].order = e.order)
    <2>1. e \in S /\ AddFirst(seen, e) = Append(seen, e)
      BY <1>2 DEF AddFirst
    <2>2. \A i \in 1 .. Len(seen) : seen[i].order # e.order
      BY <1>2
    <2>. QED
      BY <2>1, <2>2, AppendKeeps
  <1>. QED
    BY <1>1, <1>2

\* A whole answer, by induction on its length.
LEMMA GatheredKeeps ==
  ASSUME NEW S \in SUBSET Submissions, NEW seen \in Seq(S), OneEach(seen),
         NEW answer \in Seq(S \union {Malformed})
  PROVE  Gathered(seen, answer) \in Seq(S) /\ OneEach(Gathered(seen, answer))
  <1> DEFINE g == Gathers(seen, answer)
             T == {n \in Nat : n <= Len(answer) => g[n] \in Seq(S) /\ OneEach(g[n])}
  <1>1. Len(answer) \in Nat /\ \A n \in 0 .. Len(answer) : g[n] = GatherStep(seen, answer, g, n)
    BY GathersExist
  <1> HIDE DEF g
  <1>2. 0 \in T
    BY <1>1 DEF GatherStep
  <1>3. ASSUME NEW n \in Nat, n \in T PROVE n + 1 \in T
    <2> SUFFICES ASSUME n + 1 <= Len(answer) PROVE g[n + 1] \in Seq(S) /\ OneEach(g[n + 1])
      OBVIOUS
    <2>1. g[n] \in Seq(S) /\ OneEach(g[n])
      BY <1>1, <1>3
    <2>2. answer[n + 1] \in S \union {Malformed} /\ g[n + 1] = AddFirst(g[n], answer[n + 1])
      BY <1>1 DEF GatherStep
    <2>. QED
      BY <2>1, <2>2, AddFirstKeeps
  <1> HIDE DEF T
  <1>4. \A n \in Nat : n \in T
    BY <1>2, <1>3, NatInd
  <1>. QED
    BY <1>1, <1>4, GatheredIsGathers DEF T, g
-------------------------------------------------------------------------------
(* Every step of the executor and its chain but a relay's answer. *)
Acts == \/ Begin \/ PollSkips \/ PollBreaks \/ PollEnds
        \/ Judge \/ Sent \/ SendFails \/ End \/ Mine \/ Tick
        \/ \E s \in Contested : Rival(s)
        \/ \E o \in Revocable : Drain(o)
        \/ UNCHANGED vars

\* What the assumption on the constants says of the numbers.
LEMMA Known ==
  /\ RelayCount \in Nat /\ MaxClock \in Nat /\ Purse \in Nat /\ MinProfitBps \in Nat
  /\ \A s \in Submissions : s.order \in Orders /\ s.nonce \in Nat
  /\ \A o \in Orders : BuyAmount[o] \in Nat /\ SellValue[o] \in Nat /\ TipValue[o] \in Nat
  /\ \A o \in Orders : Received(o) \in Nat
  BY ExecutorAssumption DEF Received

\* A decision is appended for the copy it is about, and the next copy is next.
LEMMA Recorded ==
  ASSUME TypeOK, NEW action \in {"settle", "refuse", "skip"},
         round.next <= Len(round.seen), Decide(action)
  PROVE  /\ Copy \in Submissions
         /\ round' \in [now : 0 .. MaxClock, relay : 1 .. RelayCount + 1,
                        seen : Seq(Submissions), next : Nat \ {0}]
         /\ round'.seen = round.seen /\ round'.next = round.next + 1
         /\ decisions' \in Seq([copy : Submissions, action : {"settle", "refuse", "skip"}])
         /\ Len(decisions') = Len(decisions) + 1
         /\ decisions'[Len(decisions) + 1].copy = Copy
         /\ \A i \in 1 .. Len(decisions) : decisions'[i] = decisions[i]
  <1>1. /\ round \in [now : 0 .. MaxClock, relay : 1 .. RelayCount + 1,
                      seen : Seq(Submissions), next : Nat \ {0}]
        /\ decisions \in Seq([copy : Submissions, action : {"settle", "refuse", "skip"}])
        /\ round' = [round EXCEPT !.next = @ + 1]
        /\ decisions' = Append(decisions, [copy |-> Copy, action |-> action])
    BY DEF TypeOK, Decide
  <1>2. Copy \in Submissions
    BY <1>1 DEF Copy
  <1>3. round.next + 1 \in Nat \ {0}
    BY <1>1
  <1>4. round' \in [now : 0 .. MaxClock, relay : 1 .. RelayCount + 1,
                    seen : Seq(Submissions), next : Nat \ {0}]
    BY <1>1, <1>3
  <1>5. round'.seen = round.seen /\ round'.next = round.next + 1
    BY <1>1
  <1>6. [copy |-> Copy, action |-> action]
           \in [copy : Submissions, action : {"settle", "refuse", "skip"}]
    BY <1>2
  <1>. QED
    BY <1>1, <1>2, <1>4, <1>5, <1>6

\* Types, action by action.
LEMMA TypeStep ==
  ASSUME TypeOK, Acts, pc = "sending" => round.next <= Len(round.seen)
  PROVE  TypeOK'
  <1>1. CASE Begin
    <2>1. 1 \in 1 .. RelayCount + 1
      BY Known
    <2>. QED
      BY <1>1, <2>1 DEF Begin, TypeOK, chain
  <1>2. CASE PollSkips
    <2>1. round.relay + 1 \in 1 .. RelayCount + 1
      BY <1>2, Known, SMTT(30) DEF PollSkips, TypeOK
    <2>2. round' \in [now : 0 .. MaxClock, relay : 1 .. RelayCount + 1,
                      seen : Seq(Submissions), next : Nat \ {0}]
      BY <1>2, <2>1 DEF PollSkips, TypeOK
    <2>. QED
      BY <1>2, <2>2 DEF PollSkips, TypeOK, chain
  <1>3. CASE PollBreaks \/ PollEnds \/ End \/ Approve \/ JudgeBreaks
    BY <1>3 DEF PollBreaks, PollEnds, End, Approve, JudgeBreaks, TypeOK, chain
  <1>4. CASE Refuse \/ Skip \/ WouldSettle
    <2>1. /\ UNCHANGED <<clock, submit, pc, served, chain>> /\ round.next <= Len(round.seen)
          /\ \E action \in {"settle", "refuse", "skip"} : Decide(action)
      BY <1>4 DEF Refuse, Skip, WouldSettle, Green, Judging
    <2>2. PICK action \in {"settle", "refuse", "skip"} : Decide(action)
      BY <2>1
    <2>3. /\ round' \in [now : 0 .. MaxClock, relay : 1 .. RelayCount + 1,
                         seen : Seq(Submissions), next : Nat \ {0}]
          /\ decisions' \in Seq([copy : Submissions, action : {"settle", "refuse", "skip"}])
      BY <2>1, <2>2, Recorded
    <2>. QED
      BY <2>1, <2>3 DEF TypeOK, chain
  <1>5. /\ round.relay \in 1 .. RelayCount + 1 /\ mempool \in Seq(Submissions)
        /\ spent \subseteq Orders \X Nat /\ backed \subseteq Orders
        /\ purse \in 0 .. Purse /\ worth \in Nat
    BY DEF TypeOK
  <1>6. CASE Mine
    <2>1. /\ Head(mempool) \in Submissions /\ mempool' = Tail(mempool)
          /\ Tail(mempool) \in Seq(Submissions)
          /\ UNCHANGED <<clock, submit, pc, round, served, decisions, backed>>
      BY <1>5, <1>6 DEF Mine, executor
    <2> DEFINE s == Head(mempool)
    <2>2. s.order \in Orders /\ s.nonce \in Nat
      BY <2>1, Known
    <2>3. Received(s.order) \in Nat /\ BuyAmount[s.order] \in Nat
      BY <2>2, Known
    <2>4. CASE Settleable(s)
      <3>1. /\ spent' = spent \union {<<s.order, s.nonce>>}
            /\ purse' = purse - BuyAmount[s.order] /\ worth' = worth + Received(s.order)
            /\ BuyAmount[s.order] <= purse
        BY <1>6, <2>4 DEF Mine, Settleable
      <3> HIDE DEF s
      <3>2. spent' \subseteq Orders \X Nat
        BY <1>5, <2>2, <3>1
      <3>3. purse' \in 0 .. Purse /\ worth' \in Nat
        BY <1>5, <2>3, <3>1, Known, SMTT(30)
      <3>. QED
        BY <2>1, <3>2, <3>3 DEF TypeOK
    <2>5. CASE ~Settleable(s)
      <3>1. UNCHANGED <<spent, purse, worth>>
        BY <1>6, <2>5 DEF Mine
      <3> HIDE DEF s
      <3>. QED
        BY <2>1, <3>1 DEF TypeOK
    <2>. QED
      BY <2>4, <2>5
  <1>7. CASE Tick
    BY <1>7, Known DEF Tick, TypeOK, executor, chain
  <1>8. ASSUME NEW s \in Contested, Rival(s) PROVE TypeOK'
    <2>1. s.order \in Orders /\ s.nonce \in Nat
      BY Known, ExecutorAssumption
    <2>2. spent' \subseteq Orders \X Nat
      BY <1>5, <1>8, <2>1 DEF Rival
    <2>. QED
      BY <1>8, <2>2 DEF Rival, TypeOK, executor
  <1>9. ASSUME NEW o \in Revocable, Drain(o) PROVE TypeOK'
    BY <1>9 DEF Drain, TypeOK, executor
  <1>10. CASE UNCHANGED vars
    BY <1>10 DEF vars, TypeOK
  <1>11. CASE Sent \/ SendFails
    <2>0. round.next <= Len(round.seen)
      BY <1>11 DEF Sent, SendFails
    <2>1. PICK action \in {"settle", "refuse", "skip"} : Decide(action)
      BY <1>11 DEF Sent, SendFails
    <2>2. /\ Copy \in Submissions
          /\ round' \in [now : 0 .. MaxClock, relay : 1 .. RelayCount + 1,
                         seen : Seq(Submissions), next : Nat \ {0}]
          /\ decisions' \in Seq([copy : Submissions, action : {"settle", "refuse", "skip"}])
      BY <2>0, <2>1, Recorded
    <2>3. /\ mempool' = mempool \/ mempool' = Append(mempool, Copy)
          /\ pc' = "judging" /\ UNCHANGED <<clock, submit, served, spent, backed, purse, worth>>
      BY <1>11 DEF Sent, SendFails, Broadcast
    <2>4. mempool' \in Seq(Submissions)
      <3>1. mempool \in Seq(Submissions) /\ Copy \in Submissions
        BY <1>5, <2>2
      <3>2. Append(mempool, Copy) \in Seq(Submissions)
        BY ONLY <3>1
      <3>. QED
        BY <2>3, <3>1, <3>2, Zenon
    <2>. QED
      BY <2>2, <2>3, <2>4 DEF TypeOK
  <1>. QED
    BY <1>1, <1>2, <1>3, <1>4, <1>6, <1>7, <1>8, <1>9, <1>10, <1>11 DEF Acts, Judge

\* The decisions follow the list of copies, action by action.
LEMMA TrackedStep ==
  ASSUME TypeOK, Tracked, Deduplicated, Acts
  PROVE  Tracked' /\ Deduplicated'
  <1>1. /\ round.next \in Nat \ {0} /\ round.seen \in Seq(Submissions)
        /\ Len(round.seen) \in Nat /\ Len(decisions) \in Nat
        /\ Len(decisions) = round.next - 1
        /\ \A i \in 1 .. Len(decisions) : decisions[i].copy = round.seen[i]
    BY DEF TypeOK, Tracked
  <1>2. CASE Begin
    <2>1. /\ round'.seen = <<>> /\ round'.next = 1 /\ decisions' = <<>> /\ pc' = "polling"
      BY <1>2 DEF Begin
    <2>2. Len(<<>>) = 0
      OBVIOUS
    <2>. QED
      BY <2>1, <2>2 DEF Tracked, Deduplicated, OneEach
  <1>3. CASE PollSkips
    <2>1. /\ round'.seen = round.seen /\ round'.next = round.next /\ UNCHANGED <<pc, decisions>>
          /\ pc = "polling"
      BY <1>3 DEF PollSkips, TypeOK
    <2>. QED
      BY <1>1, <2>1 DEF Tracked, Deduplicated
  <1>4. CASE PollBreaks \/ PollEnds \/ End \/ JudgeBreaks
    <2>1. UNCHANGED <<round, decisions>> /\ pc' \notin {"polling", "sending"}
      BY <1>4 DEF PollBreaks, PollEnds, End, JudgeBreaks
    <2>. QED
      BY <2>1 DEF Tracked, Deduplicated
  <1>5. CASE Approve
    <2>1. /\ UNCHANGED <<round, decisions>> /\ pc' = "sending"
          /\ round.next <= Len(round.seen) /\ Good(Copy)
      BY <1>5 DEF Approve, Green, Judging, Good
    <2>2. Good(Copy)'
      BY <2>1 DEF Good, Copy, TakerGuard, Profitable
    <2>. QED
      BY <2>1, <2>2 DEF Tracked, Deduplicated
  <1>6. CASE UNCHANGED <<pc, round, decisions>>
    <2>1. Good(Copy) => Good(Copy)'
      BY <1>6 DEF Good, Copy, TakerGuard, Profitable
    <2>. QED
      BY <1>6, <2>1 DEF Tracked, Deduplicated
  <1>7. CASE Mine \/ Tick \/ (\E s \in Contested : Rival(s)) \/ (\E o \in Revocable : Drain(o))
               \/ UNCHANGED vars
    BY <1>6, <1>7 DEF Mine, Tick, Rival, Drain, vars, executor
  <1>8. CASE Refuse \/ Skip \/ WouldSettle \/ Sent \/ SendFails
    <2>1. /\ round.next <= Len(round.seen) /\ pc' = "judging"
          /\ \E action \in {"settle", "refuse", "skip"} : Decide(action)
      BY <1>8 DEF Refuse, Skip, WouldSettle, Green, Judging, Sent, SendFails, Tracked
    <2>2. PICK action \in {"settle", "refuse", "skip"} : Decide(action)
      BY <2>1
    <2>3. /\ round'.seen = round.seen /\ round'.next = round.next + 1
          /\ Len(decisions') = Len(decisions) + 1
          /\ decisions'[Len(decisions) + 1].copy = round.seen[round.next]
          /\ \A i \in 1 .. Len(decisions) : decisions'[i] = decisions[i]
      BY <2>1, <2>2, Recorded DEF Copy
    <2>4. \A i \in 1 .. Len(decisions') : decisions'[i].copy = round'.seen[i]
      <3> SUFFICES ASSUME NEW i \in 1 .. Len(decisions')
                   PROVE  decisions'[i].copy = round'.seen[i]
        OBVIOUS
      <3>1. i \in 1 .. Len(decisions) \/ i = Len(decisions) + 1
        BY <1>1, <2>3
      <3>2. round'.seen = round.seen
        BY <2>3
      <3>3. CASE i \in 1 .. Len(decisions)
        BY <1>1, <2>3, <3>2, <3>3
      <3>4. CASE i = Len(decisions) + 1
        <4>1. i = round.next
          BY <1>1, <3>4
        <4>. QED
          BY <2>3, <3>2, <3>4, <4>1
      <3>. QED
        BY <3>1, <3>3, <3>4
    <2>5. Len(decisions') = round'.next - 1 /\ round'.next <= Len(round'.seen) + 1
      BY <1>1, <2>1, <2>3
    <2>. QED
      BY <2>1, <2>3, <2>4, <2>5 DEF Tracked, Deduplicated
  <1>. QED
    BY <1>2, <1>3, <1>4, <1>5, <1>7, <1>8 DEF Acts, Judge

-------------------------------------------------------------------------------
(* The money: what a fill is paid for at the prices of the decision stays paid for. *)

\* The arithmetic of one more fill.
LEMMA Pays ==
  ASSUME NEW w \in Int, NEW p \in Int, NEW v \in Int, NEW b \in Int, NEW m \in Int,
         w * 10000 >= p * (10000 + m), NEW d, d = v - b, d * 10000 >= m * b
  PROVE  (w + v) * 10000 >= (p + b) * (10000 + m)
  <1>1. (p + b) * (10000 + m) = p * (10000 + m) + b * (10000 + m)
    OBVIOUS
  <1>2. b * (10000 + m) = b * 10000 + m * b
    OBVIOUS
  <1>3. v * 10000 >= b * 10000 + m * b
    <2>1. m * b \in Int
      OBVIOUS
    <2>. QED
      BY <2>1
  <1>4. /\ p * (10000 + m) \in Int /\ m * b \in Int /\ b * (10000 + m) \in Int
        /\ (p + b) * (10000 + m) \in Int
    OBVIOUS
  <1>. QED
    BY <1>1, <1>2, <1>3, <1>4

\* A fill that passed the profit gate keeps the account above the floor.
LEMMA FillPays ==
  ASSUME NEW o \in Orders, Profitable(o), NEW w \in Int, NEW p \in Int,
         w * 10000 >= p * (10000 + MinProfitBps)
  PROVE  (w + (SellValue[o] + TipValue[o])) * 10000 >= (p + BuyAmount[o]) * (10000 + MinProfitBps)
  <1> DEFINE v == SellValue[o] + TipValue[o]
             b == BuyAmount[o]
             d == SellValue[o] + TipValue[o] - BuyAmount[o]
  <1>1. v \in Int /\ b \in Int /\ MinProfitBps \in Int /\ d = v - b
    BY Known
  <1>2. d * 10000 >= MinProfitBps * b
    BY DEF Profitable
  <1> HIDE DEF v, b, d
  <1>3. (w + v) * 10000 >= (p + b) * (10000 + MinProfitBps)
    BY <1>1, <1>2, Pays
  <1>. QED
    BY <1>3 DEF v, b

\* The account, action by action: only Mine moves money, for what Sent let in.
LEMMA MoneyStep ==
  ASSUME TypeOK, Tracked, Sound, NeverUnderpaid, Acts
  PROVE  Sound' /\ NeverUnderpaid'
  <1>1. mempool \in Seq(Submissions) /\ purse \in Int /\ worth \in Int
    BY Known DEF TypeOK
  <1>2. CASE Mine
    <2>1. /\ mempool # <<>> /\ mempool' = Tail(mempool)
      BY <1>2 DEF Mine
    <2>2. /\ Len(mempool') = Len(mempool) - 1 /\ Len(mempool) \in Nat \ {0}
          /\ \A i \in 1 .. Len(mempool) - 1 : mempool'[i] = mempool[i + 1]
          /\ Head(mempool) = mempool[1] /\ Head(mempool) \in Submissions
      BY <1>1, <2>1
    <2>3. Sound'
      <3> SUFFICES ASSUME NEW i \in 1 .. Len(mempool') PROVE Good(mempool'[i])
        BY DEF Sound, Good, TakerGuard, Profitable
      <3>1. i + 1 \in 1 .. Len(mempool) /\ mempool'[i] = mempool[i + 1]
        BY <2>2
      <3>. QED
        BY <3>1 DEF Sound
    <2> DEFINE s == Head(mempool)
    <2>4. s.order \in Orders /\ Good(s)
      BY <2>2, Known DEF Sound
    <2>5. CASE Settleable(s)
      <3>1. purse' = purse - BuyAmount[s.order] /\ worth' = worth + Received(s.order)
        BY <1>2, <2>5 DEF Mine
      <3>2. Received(s.order) = SellValue[s.order] + TipValue[s.order]
        <4>1. TakerOf[s.order] # Other
          BY <2>4, ExecutorAssumption DEF Good, TakerGuard
        <4>2. SellValue[s.order] \in Nat /\ TipValue[s.order] \in Nat
          BY <2>4, Known
        <4> HIDE DEF s
        <4>. QED
          BY <4>1, <4>2 DEF Received
      <3>3. /\ BuyAmount[s.order] \in Int /\ SellValue[s.order] + TipValue[s.order] \in Int
            /\ Paid \in Int /\ Purse \in Int
        BY <1>1, <2>4, Known DEF Paid
      <3>4. (worth + (SellValue[s.order] + TipValue[s.order])) * 10000
               >= (Paid + BuyAmount[s.order]) * (10000 + MinProfitBps)
        BY <1>1, <2>4, <3>3, FillPays DEF NeverUnderpaid, Good
      <3> HIDE DEF s
      <3>5. Paid' = Paid + BuyAmount[s.order]
        BY <1>1, <3>1, <3>3 DEF Paid
      <3>8. NeverUnderpaid'
        BY <3>1, <3>2, <3>4, <3>5 DEF NeverUnderpaid
      <3>. QED
        BY <2>3, <3>8
    <2>6. CASE ~Settleable(s)
      BY <1>2, <2>3, <2>6 DEF Mine, NeverUnderpaid, Paid
    <2>. QED
      BY <2>5, <2>6
  <1>3. ASSUME UNCHANGED <<purse, worth>>, mempool' = mempool PROVE Sound' /\ NeverUnderpaid'
    BY <1>3 DEF Sound, NeverUnderpaid, Paid, Good, TakerGuard, Profitable
  <1>4. CASE Sent \/ SendFails
    <2>1. /\ UNCHANGED <<purse, worth>> /\ Good(Copy)
          /\ mempool' = mempool \/ mempool' = Append(mempool, Copy)
      BY <1>4 DEF Sent, SendFails, Broadcast, Tracked
    <2>2. CASE mempool' = mempool
      BY <1>3, <2>1, <2>2
    <2>3. CASE mempool' = Append(mempool, Copy)
      <3>1. /\ Len(mempool) \in Nat /\ Len(Append(mempool, Copy)) = Len(mempool) + 1
            /\ Append(mempool, Copy)[Len(mempool) + 1] = Copy
            /\ \A i \in 1 .. Len(mempool) : Append(mempool, Copy)[i] = mempool[i]
        BY ONLY <1>1
      <3>2. ASSUME NEW i \in 1 .. Len(mempool') PROVE Good(mempool'[i])
        <4>1. i \in 1 .. Len(mempool) \/ i = Len(mempool) + 1
          BY <2>3, <3>1
        <4>. QED
          BY <2>1, <2>3, <3>1, <4>1 DEF Sound
      <3>. QED
        BY <2>1, <3>2 DEF Sound, NeverUnderpaid, Paid, Good, TakerGuard, Profitable
    <2>. QED
      BY <2>1, <2>2, <2>3
  <1>5. ASSUME ~Mine, ~Sent, ~SendFails PROVE UNCHANGED <<purse, worth, mempool>>
    BY <1>5 DEF Acts, Judge, Begin, PollSkips, PollBreaks, PollEnds, End, Approve, JudgeBreaks,
         Refuse, Skip, WouldSettle, Tick, Rival, Drain, vars, chain
  <1>. QED
    BY <1>2, <1>3, <1>4, <1>5

-------------------------------------------------------------------------------
(* The invariant of the executor: every step, a relay's answer among them. *)

\* Whatever a relay answers.
LEMMA Answered ==
  ASSUME ExecInv, NEW answer \in Seq(Submissions \union {Malformed}), PollAnswers(answer)
  PROVE  ExecInv'
  <1>1. /\ pc = "polling" /\ round.relay <= RelayCount
        /\ round' = [round EXCEPT !.relay = @ + 1, !.seen = Gathered(@, answer)]
        /\ served' = served \union Parsed(answer)
        /\ UNCHANGED <<clock, submit, pc, decisions, mempool, spent, backed, purse, worth>>
    BY DEF PollAnswers, chain
  <1>2. /\ round \in [now : 0 .. MaxClock, relay : 1 .. RelayCount + 1,
                      seen : Seq(Submissions), next : Nat \ {0}]
        /\ served \subseteq Submissions
    BY DEF ExecInv, TypeOK
  <1>3. Gathered(round.seen, answer) \in Seq(Submissions) /\ OneEach(Gathered(round.seen, answer))
    <2>1. round.seen \in Seq(Submissions) /\ OneEach(round.seen)
      BY <1>2 DEF ExecInv, Deduplicated
    <2>. QED
      BY <2>1, GatheredKeeps
  <1>4. round.relay + 1 \in 1 .. RelayCount + 1
    BY <1>1, <1>2, Known
  <1>5. /\ round' \in [now : 0 .. MaxClock, relay : 1 .. RelayCount + 1,
                       seen : Seq(Submissions), next : Nat \ {0}]
        /\ round'.seen = Gathered(round.seen, answer) /\ round'.next = round.next
    BY <1>1, <1>2, <1>3, <1>4
  <1>6. Parsed(answer) \subseteq Submissions
    BY DEF Parsed, ToSet
  <1>7. TypeOK'
    BY <1>1, <1>2, <1>5, <1>6 DEF ExecInv, TypeOK
  <1>8. Tracked' /\ Deduplicated'
    <2>1. round.next = 1 /\ Len(decisions) = 0
      BY <1>1 DEF ExecInv, Tracked
    <2>2. Len(round'.seen) \in Nat
      BY <1>3, <1>5
    <2>3. Len(decisions') = round'.next - 1 /\ round'.next <= Len(round'.seen) + 1
      BY <1>1, <1>5, <2>1, <2>2
    <2>4. \A i \in 1 .. Len(decisions') : decisions'[i].copy = round'.seen[i]
      BY <1>1, <2>1
    <2>. QED
      BY <1>1, <1>3, <1>5, <2>1, <2>3, <2>4 DEF Tracked, Deduplicated
  <1>9. Sound' /\ NeverUnderpaid'
    BY <1>1 DEF ExecInv, Sound, NeverUnderpaid, Paid, Good, TakerGuard, Profitable
  <1>. QED
    BY <1>7, <1>8, <1>9 DEF ExecInv

\* The executor starts in the invariant.
LEMMA ExecStarts == Init => ExecInv
  <1> SUFFICES ASSUME Init PROVE ExecInv
    OBVIOUS
  <1>1. TypeOK
    <2>1. /\ 0 \in 0 .. MaxClock /\ 1 \in 1 .. RelayCount + 1 /\ 1 \in Nat \ {0}
          /\ Purse \in 0 .. Purse
      BY Known
    <2>2. round \in [now : 0 .. MaxClock, relay : 1 .. RelayCount + 1,
                     seen : Seq(Submissions), next : Nat \ {0}]
      BY <2>1 DEF Init
    <2>. QED
      BY <2>1, <2>2 DEF Init, TypeOK
  <1>2. Tracked /\ Deduplicated /\ Sound
    BY DEF Init, Tracked, Deduplicated, Sound, OneEach
  <1>3. NeverUnderpaid
    BY Known DEF Init, NeverUnderpaid, Paid
  <1>. QED
    BY <1>1, <1>2, <1>3 DEF ExecInv

\* Every step that is no answer keeps it.
LEMMA ExecActs == ExecInv /\ Acts => ExecInv'
  <1> SUFFICES ASSUME ExecInv, Acts PROVE ExecInv'
    OBVIOUS
  <1>1. pc = "sending" => round.next <= Len(round.seen)
    BY DEF ExecInv, Tracked
  <1>. QED
    BY <1>1, TypeStep, TrackedStep, MoneyStep DEF ExecInv

\* Every step keeps it.
LEMMA ExecStep == ExecInv /\ [Next]_vars => ExecInv'
  <1> SUFFICES ASSUME ExecInv, [Next]_vars PROVE ExecInv'
    OBVIOUS
  <1>1. CASE \E r \in 1 .. RelayCount : \E answer \in Answers[r] : PollAnswers(answer)
    <2>1. PICK r \in 1 .. RelayCount : \E answer \in Answers[r] : PollAnswers(answer)
      BY <1>1
    <2>2. PICK answer \in Answers[r] : PollAnswers(answer)
      BY <2>1
    <2>3. answer \in Seq(Submissions \union {Malformed})
      BY <2>1, <2>2, ExecutorAssumption
    <2>. QED
      BY <2>2, <2>3, Answered
  <1>2. CASE Acts
    BY <1>2, ExecActs
  <1>. QED
    BY <1>1, <1>2 DEF Next, Execute, Poll, Acts

\* A round works off a list that holds every order once, and whatever waits to be mined
\* passed the gates that do not depend on the time.
THEOREM ExecutorInvariant == Spec => []ExecInv
  BY ExecStarts, ExecStep, PTL DEF Spec

\* The types: no entry that does not parse is judged or sent, and the purse is never
\* overdrawn, whatever the relays answer and whenever transactions are mined.
THEOREM ExecutorTypeCorrect == Spec => []TypeOK
  <1>1. ExecInv => TypeOK
    BY DEF ExecInv
  <1>. QED
    BY <1>1, ExecutorInvariant, PTL

\* The money guard, for any prices, orders, floor and purse: what the executor's fills
\* brought in is worth what it paid for them plus the profit floor.
THEOREM NeverPaysMore == Spec => []NeverUnderpaid
  <1>1. ExecInv => NeverUnderpaid
    BY DEF ExecInv
  <1>. QED
    BY <1>1, ExecutorInvariant, PTL

\* One round decides on an order at most once, however many copies of it any number of
\* relays serve.
THEOREM DecidedOnce == Spec => []OncePerRound
  <1>1. ExecInv => OncePerRound
    <2> SUFFICES ASSUME ExecInv, NEW i \in DOMAIN decisions, NEW j \in DOMAIN decisions,
                        decisions[i].copy.order = decisions[j].copy.order
                 PROVE  i = j
      BY DEF OncePerRound
    <2>1. /\ DOMAIN decisions = 1 .. Len(decisions) /\ Len(decisions) \in Nat
          /\ Len(round.seen) \in Nat /\ Len(decisions) <= Len(round.seen)
      BY DEF ExecInv, TypeOK, Tracked
    <2>2. /\ i \in 1 .. Len(round.seen) /\ j \in 1 .. Len(round.seen)
          /\ decisions[i].copy = round.seen[i] /\ decisions[j].copy = round.seen[j]
      BY <2>1 DEF ExecInv, Tracked
    <2>3. round.seen[i].order = round.seen[j].order
      BY <2>2
    <2>. QED
      BY <2>2, <2>3 DEF ExecInv, Deduplicated, OneEach
  <1>. QED
    BY <1>1, ExecutorInvariant, PTL

-------------------------------------------------------------------------------
(* Among makers and relays: no copy anywhere is a forgery, and an honest relay never *)
(* holds an order twice.                                                             *)

Around == signed \union Junk
NetInv ==
  /\ signed \subseteq Genuine
  /\ pool \in [Honest -> Seq(Around)] /\ \A r \in Honest : OneEach(pool[r])
  /\ round.seen \in Seq(Around) /\ mempool \in Seq(Around)
DistInv == ExecInv /\ NetInv

\* Sequences over more elements.
LEMMA SeqOfMore ==
  ASSUME NEW S, NEW T, S \subseteq T, NEW s \in Seq(S)
  PROVE  s \in Seq(T)
  OBVIOUS

\* Filtering a list that holds every order once.
LEMMA KeepOneEach ==
  ASSUME NEW S, NEW s \in Seq(S), OneEach(s), NEW A
  PROVE  Keep(s, A) \in Seq(S) /\ OneEach(Keep(s, A))
  <1> DEFINE k == Keep(s, A)
  <1>1. k \in Seq(S) /\ \E pos : Embeds(pos, k, s, Len(s), A)
    BY KeepEmbeds
  <1>2. PICK pos : Embeds(pos, k, s, Len(s), A)
    BY <1>1
  <1> HIDE DEF k
  <1>3. ASSUME NEW i \in 1 .. Len(k), NEW j \in 1 .. Len(k), k[i].order = k[j].order
        PROVE  i = j
    <2>1. /\ pos[i] \in 1 .. Len(s) /\ pos[j] \in 1 .. Len(s)
          /\ k[i] = s[pos[i]] /\ k[j] = s[pos[j]]
      BY <1>2 DEF Embeds
    <2>2. pos[i] = pos[j]
      BY <1>3, <2>1 DEF OneEach
    <2>3. ~(i < j) /\ ~(j < i)
      BY <1>2, <2>1, <2>2 DEF Embeds
    <2>. QED
      BY <1>1, <2>3
  <1>. QED
    BY <1>1, <1>3 DEF OneEach, k

\* Whatever is about is a submission.
LEMMA AroundIsPosted == ASSUME signed \subseteq Genuine PROVE Around \subseteq Submissions
  BY DEF Around, Genuine, Junk

\* Pruning and serving add nothing.
LEMMA LiveKeeps ==
  ASSUME NetInv, NEW r \in Honest
  PROVE  /\ Live(r) \in Seq(Around) /\ OneEach(Live(r))
         /\ Serve(r) \in Seq(Around)
         /\ \A i \in 1 .. Len(Live(r)) : \E j \in 1 .. Len(pool[r]) : Live(r)[i] = pool[r][j]
  <1>1. pool[r] \in Seq(Around) /\ OneEach(pool[r])
    BY DEF NetInv
  <1> DEFINE A == {s \in Submissions : clock <= Deadline[s.order]}
             B == {s \in Submissions : TakerOf[s.order] = Open}
  <1> HIDE DEF A, B
  <1>2. Live(r) = Keep(pool[r], A) /\ Serve(r) = AtMost(Keep(Live(r), B), Limit)
    BY DEF Live, Serve, A, B
  <1>3. Live(r) \in Seq(Around) /\ OneEach(Live(r))
    BY <1>1, <1>2, KeepOneEach
  <1>4. Serve(r) \in Seq(Around)
    <2>1. Keep(Live(r), B) \in Seq(Around) /\ Limit \in Nat
      BY <1>3, KeepOneEach, DistributionAssumption
    <2>. QED
      BY <1>2, <2>1, AtMostIs
  <1>5. \A i \in 1 .. Len(Live(r)) : \E j \in 1 .. Len(pool[r]) : pool[r][j] = Live(r)[i]
    <2>1. \A i \in 1 .. Len(Keep(pool[r], A)) :
            \E j \in 1 .. Len(pool[r]) : pool[r][j] = Keep(pool[r], A)[i]
      BY ONLY <1>1, KeepElements, SMTT(30)
    <2>. QED
      BY <1>2, <2>1, Zenon
  <1>. QED
    BY <1>3, <1>4, <1>5

\* The steps of the executor and the chain bring no forgery in.
LEMMA ActsKeepNet ==
  ASSUME TypeOK, NetInv, pc = "sending" => round.next <= Len(round.seen), Acts, UNCHANGED network
  PROVE  NetInv'
  <1>1. /\ round.seen \in Seq(Around) /\ mempool \in Seq(Around)
        /\ round.next \in Nat \ {0} /\ UNCHANGED <<signed, pool>> /\ Around' = Around
    BY DEF NetInv, TypeOK, network, Around
  <1>2. round'.seen = round.seen \/ round'.seen = <<>>
    <2>1. round \in [now : 0 .. MaxClock, relay : 1 .. RelayCount + 1,
                     seen : Seq(Submissions), next : Nat \ {0}]
      BY DEF TypeOK
    <2>2. CASE Begin
      BY <2>2 DEF Begin
    <2>3. CASE PollSkips
      BY <2>1, <2>3 DEF PollSkips
    <2>4. CASE Judge \/ Sent \/ SendFails
      <3>1. round' = round \/ round' = [round EXCEPT !.next = @ + 1]
        BY <2>4 DEF Judge, Sent, SendFails, Decide, Refuse, JudgeBreaks, Skip, Approve, WouldSettle
      <3>. QED
        BY <2>1, <3>1
    <2>. QED
      BY <2>2, <2>3, <2>4
         DEF Acts, PollBreaks, PollEnds, End, Mine, Tick, Rival, Drain, executor, vars
  <1>3. mempool' \in Seq(Around)
    <2>1. CASE Mine
      <3>1. mempool # <<>> /\ mempool' = Tail(mempool)
        BY <2>1 DEF Mine
      <3>. QED
        BY <1>1, <3>1
    <2>2. CASE Sent \/ SendFails
      <3>1. Copy \in Around
        BY <1>1, <2>2 DEF Sent, SendFails, Copy
      <3>2. Append(mempool, Copy) \in Seq(Around)
        BY <1>1, <3>1
      <3>3. mempool' = mempool \/ mempool' = Append(mempool, Copy)
        BY <2>2 DEF Sent, SendFails, Broadcast
      <3>. QED
        BY <1>1, <3>2, <3>3, Zenon
    <2>3. ASSUME ~Mine, ~Sent, ~SendFails PROVE mempool' = mempool
      BY <2>3 DEF Acts, Judge, Begin, PollSkips, PollBreaks, PollEnds, End, Approve, JudgeBreaks,
           Refuse, Skip, WouldSettle, Tick, Rival, Drain, vars, chain
    <2>. QED
      BY <1>1, <2>1, <2>2, <2>3, Zenon
  <1>4. <<>> \in Seq(Around)
    OBVIOUS
  <1>5. round'.seen \in Seq(Around')
    BY <1>1, <1>2, <1>4, Zenon
  <1>6. signed' \subseteq Genuine /\ pool' \in [Honest -> Seq(Around')]
        /\ \A r \in Honest : OneEach(pool'[r])
    BY <1>1 DEF NetInv
  <1>. QED
    BY <1>1, <1>3, <1>5, <1>6 DEF NetInv, Genuine

\* The network starts in the invariant.
LEMMA DistStarts == DistInit => DistInv
  <1> SUFFICES ASSUME DistInit PROVE DistInv
    OBVIOUS
  <1>1. ExecInv
    BY ExecStarts DEF DistInit
  <1>2. /\ signed = {} /\ pool = [r \in Honest |-> <<>>]
        /\ round.seen = <<>> /\ mempool = <<>>
    BY DEF DistInit, Init
  <1>3. <<>> \in Seq(Around) /\ OneEach(<<>>)
    BY DEF OneEach
  <1>. QED
    BY <1>1, <1>2, <1>3 DEF DistInv, NetInv

\* A relay's answer, honest or not, adds no forgery to the round.
LEMMA AnswerKeepsNet ==
  ASSUME DistInv, NEW answer \in Seq(Around \union {Malformed}), PollAnswers(answer),
         signed' = signed, pool' \in [Honest -> Seq(Around)], \A r \in Honest : OneEach(pool'[r])
  PROVE  DistInv'
  <1>1. Around \subseteq Submissions /\ round.seen \in Seq(Around) /\ OneEach(round.seen)
    BY AroundIsPosted DEF DistInv, NetInv, ExecInv, Deduplicated
  <1>2. answer \in Seq(Submissions \union {Malformed})
    <2>1. Around \union {Malformed} \subseteq Submissions \union {Malformed}
      BY <1>1
    <2>. QED
      BY <2>1, SeqOfMore
  <1>3. ExecInv'
    BY <1>2, Answered DEF DistInv
  <1>4. round'.seen = Gathered(round.seen, answer) /\ mempool' = mempool
    <2>1. /\ round \in [now : 0 .. MaxClock, relay : 1 .. RelayCount + 1,
                        seen : Seq(Submissions), next : Nat \ {0}]
          /\ round' = [round EXCEPT !.relay = @ + 1, !.seen = Gathered(@, answer)]
      BY DEF DistInv, ExecInv, TypeOK, PollAnswers
    <2>. QED
      BY <2>1 DEF PollAnswers, chain
  <1>5. round'.seen \in Seq(Around)
    BY <1>1, <1>4, GatheredKeeps
  <1>6. Around' = Around
    BY DEF Around
  <1>. QED
    BY <1>3, <1>4, <1>5, <1>6 DEF DistInv, NetInv

\* The makers and the relays: what they do leaves the executor and the chain alone.
LEMMA NetworkStep ==
  ASSUME DistInv, UNCHANGED vars,
         \/ \E s \in Submissions : Sign(s)
         \/ \E r \in Honest : RestartRelay(r) \/ \E s \in Submissions : Post(r, s)
  PROVE  DistInv'
  <1>1. ExecInv'
    BY ExecActs DEF DistInv, Acts
  <1>2. /\ signed \subseteq Genuine /\ round' = round /\ mempool' = mempool
        /\ pool \in [Honest -> Seq(Around)] /\ \A r \in Honest : OneEach(pool[r])
        /\ round.seen \in Seq(Around) /\ mempool \in Seq(Around)
    BY DEF DistInv, NetInv, vars
  <1>3. ASSUME NEW s \in Submissions, Sign(s) PROVE NetInv'
    <2>1. /\ signed' = signed \union {s} /\ s \in Genuine /\ pool' = pool
      BY <1>3 DEF Sign
    <2>2. Around \subseteq Around'
      BY <2>1 DEF Around
    <2>3. \A list \in Seq(Around) : list \in Seq(Around')
      BY <2>2, SeqOfMore
    <2>4. pool' \in [Honest -> Seq(Around')]
      BY <1>2, <2>1, <2>3
    <2>5. round'.seen \in Seq(Around') /\ mempool' \in Seq(Around')
      BY <1>2, <2>3
    <2>6. signed' \subseteq Genuine /\ \A r \in Honest : OneEach(pool'[r])
      BY <1>2, <2>1
    <2>. QED
      BY <2>4, <2>5, <2>6 DEF NetInv, Genuine
  <1>4. ASSUME NEW r \in Honest, NEW list \in Seq(Around), OneEach(list),
               signed' = signed, pool' = [pool EXCEPT ![r] = list]
        PROVE  NetInv'
    <2>1. pool' \in [Honest -> Seq(Around)] /\ \A q \in Honest : OneEach(pool'[q])
      BY <1>2, <1>4
    <2>2. Around' = Around
      BY <1>4 DEF Around
    <2>. QED
      BY <1>2, <1>4, <2>1, <2>2 DEF NetInv, Genuine
  <1>5. ASSUME NEW r \in Honest, RestartRelay(r) PROVE NetInv'
    <2>1. <<>> \in Seq(Around) /\ OneEach(<<>>)
      BY DEF OneEach
    <2>. QED
      BY <1>4, <1>5, <2>1 DEF RestartRelay
  <1>6. ASSUME NEW r \in Honest, NEW s \in Submissions, Post(r, s) PROVE NetInv'
    <2>1. /\ s \in Around /\ ~Pooled(r, s.order)
          /\ signed' = signed /\ pool' = [pool EXCEPT ![r] = Append(Live(r), s)]
      BY <1>6 DEF Post, Around
    <2>2. /\ Live(r) \in Seq(Around) /\ OneEach(Live(r))
          /\ \A i \in 1 .. Len(Live(r)) : \E j \in 1 .. Len(pool[r]) : Live(r)[i] = pool[r][j]
      BY LiveKeeps DEF DistInv
    <2>3. \A j \in 1 .. Len(pool[r]) : pool[r][j].order # s.order
      BY <1>2, <2>1 DEF Pooled
    <2>4. \A i \in 1 .. Len(Live(r)) : Live(r)[i].order # s.order
      BY <2>2, <2>3
    <2>5. Append(Live(r), s) \in Seq(Around) /\ OneEach(Append(Live(r), s))
      BY <2>1, <2>2, <2>4, AppendKeeps
    <2>. QED
      BY <1>4, <2>1, <2>5
  <1>. QED
    BY <1>1, <1>3, <1>5, <1>6 DEF DistInv

\* Every step of the network keeps it.
LEMMA DistStep == DistInv /\ [DistNext]_all => DistInv'
  <1> SUFFICES ASSUME DistInv, [DistNext]_all PROVE DistInv'
    OBVIOUS
  <1>1. ASSUME Acts, UNCHANGED network PROVE DistInv'
    BY <1>1, ActsKeepNet, ExecActs DEF DistInv, ExecInv, Tracked
  <1>2. ASSUME NEW r \in Honest, PollHonest(r) PROVE DistInv'
    <2>1. /\ Live(r) \in Seq(Around) /\ OneEach(Live(r)) /\ Serve(r) \in Seq(Around)
      BY LiveKeeps DEF DistInv
    <2>2. Serve(r) \in Seq(Around \union {Malformed})
      BY <2>1, SeqOfMore
    <2>3. /\ PollAnswers(Serve(r)) /\ signed' = signed
          /\ pool' = [pool EXCEPT ![r] = Live(r)]
      BY <1>2 DEF PollHonest
    <2>4. pool' \in [Honest -> Seq(Around)] /\ \A q \in Honest : OneEach(pool'[q])
      BY <2>1, <2>3 DEF DistInv, NetInv
    <2>. QED
      BY <2>2, <2>3, <2>4, AnswerKeepsNet
  <1>3. ASSUME NEW r \in 1 .. RelayCount, NEW answer \in Answers[r], PollLying(r, answer)
        PROVE  DistInv'
    <2>1. answer \in Seq(Submissions \union {Malformed})
      BY ExecutorAssumption
    <2>2. \A i \in 1 .. Len(answer) : answer[i] \in Around \union {Malformed}
      BY <1>3, <2>1 DEF PollLying, ToSet, Around
    <2>3. answer \in Seq(Around \union {Malformed})
      BY <2>1, <2>2
    <2>4. PollAnswers(answer) /\ signed' = signed /\ pool' = pool
      BY <1>3 DEF PollLying, network
    <2>. QED
      BY <2>3, <2>4, AnswerKeepsNet DEF DistInv, NetInv
  <1>4. CASE \/ \E s \in Submissions : Sign(s)
             \/ \E r \in Honest : RestartRelay(r) \/ \E s \in Submissions : Post(r, s)
    <2>1. UNCHANGED vars
      BY <1>4 DEF Sign, RestartRelay, Post
    <2>. QED
      BY <1>4, <2>1, NetworkStep
  <1>5. ASSUME Round,
               ~\E r \in 1 .. RelayCount :
                  PollHonest(r) \/ \E answer \in Answers[r] : PollLying(r, answer)
        PROVE  Acts /\ UNCHANGED network
    BY <1>5 DEF Round, Acts, PollBroken
  <1>6. ASSUME NEW r \in 1 .. RelayCount, PollHonest(r) PROVE r \in Honest
    BY <1>6 DEF PollHonest
  <1>7. CASE Round
    BY <1>1, <1>2, <1>3, <1>5, <1>6, <1>7
  <1>8. CASE Start \/ Settles
    BY <1>1, <1>8 DEF Start, Settles, Acts
  <1>9. CASE World
    <2>1. CASE \/ \E s \in signed \intersect Contested : Rival(s) /\ UNCHANGED network
               \/ \E o \in Revocable : Drain(o) /\ UNCHANGED network
      BY <1>1, <2>1 DEF Acts
    <2>2. CASE Tick /\ UNCHANGED network
      BY <1>1, <2>2 DEF Acts
    <2>. QED
      BY <1>4, <1>9, <2>1, <2>2 DEF World
  <1>10. CASE UNCHANGED all
    BY <1>1, <1>10 DEF all, Acts
  <1>. QED
    BY <1>7, <1>8, <1>9, <1>10 DEF DistNext

\* Among any relays, makers and rivals: no forgery is ever in the round, in a transaction
\* or in an honest pool.
THEOREM NetworkInvariant == DistSpec => []DistInv
  BY DistStarts, DistStep, PTL DEF DistSpec

\* The types, and that an honest relay never holds a live order twice, whatever is posted
\* to it how often.
THEOREM NetworkTypeCorrect == DistSpec => []DistTypeOK
  <1>1. DistInv => DistTypeOK
    BY DEF DistInv, NetInv, ExecInv, DistTypeOK, OneEach, Around
  <1>. QED
    BY <1>1, NetworkInvariant, PTL

-------------------------------------------------------------------------------
(* Distribution implements Offers: Mine maps to Take, Rival to Void, Drain to Withdraw, *)
(* Tick and Sign to themselves, and everything else to a stutter.                       *)

\* The profit gate of one order alone.
LEMMA WorthIt ==
  ASSUME NEW o \in Orders, Profitable(o)
  PROVE  (SellValue[o] + TipValue[o]) * 10000 >= BuyAmount[o] * (10000 + MinProfitBps)
  <1>1. 0 * 10000 >= 0 * (10000 + MinProfitBps)
    BY Known
  <1>2. (0 + (SellValue[o] + TipValue[o])) * 10000 >= (0 + BuyAmount[o]) * (10000 + MinProfitBps)
    BY <1>1, FillPays
  <1>3. /\ 0 + (SellValue[o] + TipValue[o]) = SellValue[o] + TipValue[o]
        /\ 0 + BuyAmount[o] = BuyAmount[o]
    BY Known
  <1>. QED
    BY <1>2, <1>3

\* A transaction that is mined takes a signed offer, or reverts and changes nothing.
LEMMA FillIsTake ==
  ASSUME DistInv, Mine, UNCHANGED network
  PROVE  (\E s \in Genuine : Offered!Take(s)) \/ UNCHANGED Offered!vars
  <1>1. mempool \in Seq(Around) /\ mempool # <<>> /\ Around \subseteq Submissions
    BY AroundIsPosted DEF DistInv, NetInv, Mine
  <1> DEFINE s == Head(mempool)
  <1>2. s \in Around /\ s = mempool[1] /\ 1 \in 1 .. Len(mempool)
    BY <1>1
  <1>3. s \in Submissions /\ s.order \in Orders /\ Good(s)
    BY <1>1, <1>2, Known DEF DistInv, ExecInv, Sound
  <1>4. /\ UNCHANGED <<clock, backed, signed>>
        /\ Settleable(s) => /\ spent' = spent \union {<<s.order, s.nonce>>}
                            /\ purse' = purse - BuyAmount[s.order]
                            /\ worth' = worth + Received(s.order)
        /\ ~Settleable(s) => UNCHANGED <<spent, purse, worth>>
    BY DEF Mine, network
  <1> HIDE DEF s
  <1>5. CASE ~Settleable(s)
    BY <1>4, <1>5 DEF Offered!vars
  <1>6. CASE Settleable(s)
    <2>1. s.kind # "junk"
      BY <1>6 DEF Settleable
    <2>2. s \in signed /\ s \in Genuine
      BY <1>2, <1>3, <2>1 DEF Around, Genuine, Junk
    <2>3. /\ FillWindow[s.order] <= clock /\ clock <= Deadline[s.order]
          /\ <<s.order, s.nonce>> \notin spent /\ s.order \in backed
          /\ BuyAmount[s.order] <= purse
      BY <1>6 DEF Settleable
    <2> DEFINE value == [o \in Orders |-> SellValue[o] + TipValue[o]]
    <2>4. value[s.order] = SellValue[s.order] + TipValue[s.order]
      BY <1>3
    <2>5. Received(s.order) = value[s.order]
      <3>1. TakerOf[s.order] # Other
        BY <1>3, ExecutorAssumption DEF Good, TakerGuard
      <3>. QED
        BY <1>3, <2>4, <3>1, Known DEF Received
    <2>6. /\ s.order \in {o \in Orders : TakerGuard(o)}
          /\ BuyAmount[s.order] \in 1 .. MaxNotional
      BY <1>3, Known, ExecutorAssumption DEF Good, Profitable
    <2>7. value[s.order] * 10000 >= BuyAmount[s.order] * (10000 + MinProfitBps)
      <3>1. Profitable(s.order)
        BY <1>3 DEF Good
      <3>. QED
        BY <1>3, <2>4, <3>1, WorthIt
    <2>8. Offered!Worthwhile(s.order)
      BY <2>6, <2>7 DEF Offered!Worthwhile
    <2>9. worth' = worth + value[s.order]
      BY <1>4, <1>6, <2>5
    <2>10. Offered!Take(s)
      BY <1>4, <1>6, <2>2, <2>3, <2>8, <2>9 DEF Offered!Take, Offered!Unspent
    <2>. QED
      BY <2>2, <2>10
  <1>. QED
    BY <1>5, <1>6

\* Initial states map to initial states.
LEMMA StartsOffered == DistInit => Offered!Init
  BY DEF DistInit, Init, Offered!Init

\* What else the executor and its relays do, nobody sees in the offers.
LEMMA HiddenStep ==
  ASSUME UNCHANGED signed,
         \/ Begin \/ PollSkips \/ PollBreaks \/ PollEnds \/ \E answer : PollAnswers(answer)
         \/ Judge \/ Sent \/ SendFails \/ End
  PROVE  UNCHANGED Offered!vars
  <1>1. UNCHANGED <<clock, spent, backed, purse, worth>>
    BY DEF Begin, PollSkips, PollBreaks, PollEnds, PollAnswers, Judge, Refuse, JudgeBreaks, Skip,
         Approve, WouldSettle, Sent, SendFails, End, chain
  <1>. QED
    BY <1>1 DEF Offered!vars

\* Every step maps to a step of Offers or to a stutter.
LEMMA DistStepOffers == DistInv /\ [DistNext]_all => [Offered!Next]_Offered!vars
  <1> SUFFICES ASSUME DistInv, [DistNext]_all PROVE Offered!Next \/ UNCHANGED Offered!vars
    OBVIOUS
  <1>1. CASE Start
    BY <1>1, HiddenStep DEF Start, network
  <1>2. CASE Round
    <2>1. \/ PollSkips \/ PollBreaks \/ PollEnds \/ \E answer : PollAnswers(answer)
          \/ Judge \/ Sent \/ SendFails \/ End
      BY <1>2 DEF Round, PollBroken, PollHonest, PollLying
    <2>2. UNCHANGED signed
      BY <1>2 DEF Round, PollBroken, PollHonest, PollLying, network
    <2>. QED
      BY <2>1, <2>2, HiddenStep
  <1>3. CASE Settles
    BY <1>3, FillIsTake DEF Settles, Offered!Next
  <1>4. ASSUME NEW s \in Submissions, Sign(s) PROVE Offered!Next
    <2>1. s \in Genuine /\ Offered!Sign(s)
      BY <1>4 DEF Sign, Offered!Sign, vars
    <2>. QED
      BY <2>1 DEF Offered!Next
  <1>5. ASSUME NEW r \in Honest, RestartRelay(r) \/ \E s \in Submissions : Post(r, s)
        PROVE  UNCHANGED Offered!vars
    BY <1>5 DEF RestartRelay, Post, vars, Offered!vars
  <1>6. ASSUME NEW s \in signed \intersect Contested, Rival(s), UNCHANGED network
        PROVE  Offered!Next
    <2>1. s \in Genuine /\ Offered!Void(s)
      BY <1>6 DEF Rival, network, Offered!Void, Offered!Unspent, DistInv, NetInv
    <2>. QED
      BY <2>1 DEF Offered!Next
  <1>7. ASSUME NEW o \in Revocable, Drain(o), UNCHANGED network PROVE Offered!Next
    <2>1. o \in Orders /\ Offered!Withdraw(o)
      BY <1>7, ExecutorAssumption DEF Drain, network, Offered!Withdraw
    <2>. QED
      BY <2>1 DEF Offered!Next
  <1>8. CASE Tick /\ UNCHANGED network
    BY <1>8 DEF Tick, chain, network, Offered!Tick, Offered!Next
  <1>9. CASE UNCHANGED all
    BY <1>9 DEF all, vars, network, Offered!vars
  <1>. QED
    BY <1>1, <1>2, <1>3, <1>4, <1>5, <1>6, <1>7, <1>8, <1>9 DEF DistNext, World

\* "A relay can only omit or delay", whatever relays answer, posts do and rivals take:
\* what the executor spends is spent on signed offers that were meant for it, in time,
\* backed and worth it, each nonce once.
THEOREM RelaysCanOnlyOmit == DistSpec => RelaysOnlyOmit
  <1>1. DistSpec => [][Offered!Next]_Offered!vars
    BY NetworkInvariant, DistStepOffers, PTL DEF DistSpec
  <1>2. DistSpec => Offered!Init
    BY StartsOffered DEF DistSpec
  <1>. QED
    BY <1>1, <1>2 DEF RelaysOnlyOmit, Offered!Spec
================================================================================
