---------------------------- MODULE RfqFanoutProofs ----------------------------
(***************************************************************************)
(* Theorems about one quote request, for any number of makers, any answers *)
(* and any pool: every thread is in one place, the candidates are exactly  *)
(* the answers that the predicate let pass, all have been judged when the  *)
(* handler answers, and the best of the candidates is what the caller      *)
(* gets.                                                                   *)
(***************************************************************************)
EXTENDS RfqFanout, FoldLemmas

Distinct(s) == \A i, j \in 1 .. Len(s) : s[i] = s[j] => i = j

(* Every thread is asking, or waits to be taken, or is in the batch, or was heard. *)
Placed ==
  /\ TypeOK
  /\ Distinct(arrived) /\ Distinct(batch)
  /\ asking \intersect (ToSet(arrived) \union ToSet(batch)) = {}

-------------------------------------------------------------------------------
(* Lists without repetitions, and their sets. *)

(* The set of a list's elements, by index. *)
LEMMA ElementsAre ==
  ASSUME NEW S, NEW s \in Seq(S)
  PROVE  ToSet(s) = {s[i] : i \in 1 .. Len(s)} /\ ToSet(s) \subseteq S
  <1>1. DOMAIN s = 1 .. Len(s)
    OBVIOUS
  <1>. QED
    BY <1>1 DEF ToSet

(* The empty list repeats nothing. *)
LEMMA EmptyList ==
  ASSUME NEW S
  PROVE  /\ <<>> \in Seq(S) /\ Distinct(<<>>) /\ ToSet(<<>>) = {} /\ Len(<<>>) = 0
  BY DEF Distinct, ToSet

(* A new element at the end of a list without repetitions. *)
LEMMA AppendNew ==
  ASSUME NEW S, NEW s \in Seq(S), NEW x \in S, x \notin ToSet(s), Distinct(s)
  PROVE  /\ Append(s, x) \in Seq(S) /\ Distinct(Append(s, x))
         /\ ToSet(Append(s, x)) = ToSet(s) \union {x}
  <1> DEFINE t == Append(s, x)
  <1>1. /\ t \in Seq(S) /\ Len(s) \in Nat /\ Len(t) = Len(s) + 1 /\ t[Len(s) + 1] = x
        /\ \A i \in 1 .. Len(s) : t[i] = s[i]
    OBVIOUS
  <1>2. ToSet(t) = {t[i] : i \in 1 .. Len(t)} /\ ToSet(s) = {s[i] : i \in 1 .. Len(s)}
    BY <1>1, ElementsAre
  <1> HIDE DEF t
  <1>3. \A i \in 1 .. Len(s) : s[i] # x
    BY <1>2
  <1>4. Distinct(t)
    BY <1>1, <1>3 DEF Distinct
  <1>5. ToSet(t) = ToSet(s) \union {x}
    BY <1>1, <1>2
  <1>. QED
    BY <1>1, <1>4, <1>5 DEF t

(* Such a list without its first element. *)
LEMMA TakeHead ==
  ASSUME NEW S, NEW s \in Seq(S), s # <<>>, Distinct(s)
  PROVE  /\ Head(s) \in ToSet(s) /\ Tail(s) \in Seq(S) /\ Distinct(Tail(s))
         /\ ToSet(Tail(s)) = ToSet(s) \ {Head(s)}
  <1> DEFINE t == Tail(s)
  <1>1. /\ t \in Seq(S) /\ Len(s) \in Nat \ {0} /\ Len(t) = Len(s) - 1 /\ Head(s) = s[1]
        /\ \A i \in 1 .. Len(t) : t[i] = s[i + 1]
    OBVIOUS
  <1>2. ToSet(t) = {t[i] : i \in 1 .. Len(t)} /\ ToSet(s) = {s[i] : i \in 1 .. Len(s)}
    BY <1>1, ElementsAre
  <1> HIDE DEF t
  <1>3. Distinct(t)
    BY <1>1 DEF Distinct
  <1>4. ASSUME NEW w \in ToSet(t) PROVE w \in ToSet(s) \ {Head(s)}
    <2>1. PICK i \in 1 .. Len(t) : w = t[i]
      BY <1>2
    <2>2. i + 1 \in 1 .. Len(s) /\ 1 \in 1 .. Len(s) /\ i + 1 # 1 /\ w = s[i + 1]
      BY <1>1, <2>1
    <2>. QED
      BY <1>1, <1>2, <2>2 DEF Distinct
  <1>5. ASSUME NEW w \in ToSet(s) \ {Head(s)} PROVE w \in ToSet(t)
    <2>1. PICK i \in 1 .. Len(s) : w = s[i]
      BY <1>2
    <2>2. i - 1 \in 1 .. Len(t) /\ t[i - 1] = s[i]
      BY <1>1, <2>1
    <2>. QED
      BY <1>2, <2>1, <2>2
  <1>6. Head(s) \in ToSet(s)
    BY <1>1, <1>2
  <1>. QED
    BY <1>1, <1>3, <1>4, <1>5, <1>6 DEF t

(* A set in any order is such a list. *)
LEMMA AnyOrder ==
  ASSUME NEW S, NEW s \in Seq(S), NEW b \in SetToSeqs(ToSet(s))
  PROVE  b \in Seq(S) /\ Distinct(b) /\ ToSet(b) \subseteq ToSet(s)
  <1>1. ToSet(s) = {s[i] : i \in 1 .. Len(s)} /\ ToSet(s) \subseteq S
    BY ElementsAre
  <1>2. IsFiniteSet(ToSet(s))
    <2>1. IsFiniteSet(1 .. Len(s))
      BY FS_Interval
    <2>2. s \in Surjection(1 .. Len(s), ToSet(s))
      BY <1>1 DEF Surjection
    <2>. QED
      BY <2>1, <2>2, FS_Surjection
  <1> DEFINE n == Cardinality(ToSet(s))
  <1>3. n \in Nat
    BY <1>1, <1>2, FS_CardinalityType
  <1>4. b \in [1 .. n -> ToSet(s)] /\ \A i, j \in 1 .. n : i # j => b[i] # b[j]
    BY DEF SetToSeqs
  <1> HIDE DEF n
  <1>5. b \in Seq(S) /\ Len(b) = n
    BY <1>1, <1>3, <1>4
  <1>6. Distinct(b)
    BY <1>4, <1>5 DEF Distinct
  <1>7. ToSet(b) \subseteq ToSet(s)
    BY <1>4 DEF ToSet
  <1>. QED
    BY <1>5, <1>6, <1>7
-------------------------------------------------------------------------------
(* The best of the candidates. *)

Score(a) == IF ExactOut THEN 0 - a.buy ELSE a.sell

(* best_quote compares one number, in either direction. *)
LEMMA BetterIsScore ==
  ASSUME NEW a \in Quotes, NEW b \in Quotes
  PROVE  /\ Score(a) \in Int /\ Score(b) \in Int
         /\ Better(a, b) <=> Score(a) > Score(b)
  <1>1. a.buy \in Nat /\ a.sell \in Nat /\ b.buy \in Nat /\ b.sell \in Nat
    BY FanoutAssumption
  <1>. QED
    BY <1>1 DEF Better, Score

(* The first of the best exists, so best_quote returns one that nothing beats. *)
LEMMA BestExists ==
  ASSUME candidates \in Seq(Quotes), candidates # <<>>
  PROVE  \E i \in 1 .. Len(candidates) :
            /\ BestQuote = candidates[i]
            /\ \A j \in 1 .. Len(candidates) : ~Better(candidates[j], candidates[i])
  <1> DEFINE c == candidates
             First(i, n) == /\ \A j \in 1 .. n : ~Better(c[j], c[i])
                            /\ \A j \in 1 .. i - 1 : Better(c[i], c[j])
             T == {n \in Nat : n \in 1 .. Len(c) => \E i \in 1 .. n : First(i, n)}
  <1>1. /\ DOMAIN c = 1 .. Len(c) /\ Len(c) \in Nat /\ Len(c) \in 1 .. Len(c)
        /\ \A i \in 1 .. Len(c) : c[i] \in Quotes
    OBVIOUS
  <1>2. \A i, j \in 1 .. Len(c) : /\ Score(c[i]) \in Int
                                  /\ Better(c[i], c[j]) <=> Score(c[i]) > Score(c[j])
    BY <1>1, BetterIsScore
  <1> HIDE DEF c
  <1>3. 0 \in T
    OBVIOUS
  <1>4. ASSUME NEW n \in Nat, n \in T PROVE n + 1 \in T
    <2> SUFFICES ASSUME n + 1 \in 1 .. Len(c) PROVE \E i \in 1 .. n + 1 : First(i, n + 1)
      OBVIOUS
    <2>1. CASE n = 0
      <3>1. First(1, 1)
        BY <1>1, <1>2, <2>1
      <3>. QED
        BY <2>1, <3>1
    <2>2. CASE n # 0
      <3>1. n \in 1 .. Len(c)
        BY <1>1, <2>2
      <3>2. PICK i \in 1 .. n : First(i, n)
        BY <1>4, <3>1
      <3>3. CASE Better(c[n + 1], c[i])
        <4>1. First(n + 1, n + 1)
          BY <1>1, <1>2, <3>1, <3>2, <3>3
        <4>. QED
          BY <4>1
      <3>4. CASE ~Better(c[n + 1], c[i])
        <4>1. First(i, n + 1)
          BY <1>1, <1>2, <3>1, <3>2, <3>4
        <4>. QED
          BY <4>1
      <3>. QED
        BY <3>3, <3>4
    <2>. QED
      BY <2>1, <2>2
  <1> HIDE DEF T
  <1>5. Len(c) \in T
    BY <1>1, <1>3, <1>4, NatInd
  <1>6. \E i \in DOMAIN c : /\ \A j \in DOMAIN c : ~Better(c[j], c[i])
                            /\ \A j \in 1 .. i - 1 : Better(c[i], c[j])
    BY <1>1, <1>5 DEF T
  <1> DEFINE i == CHOOSE i \in DOMAIN c : /\ \A j \in DOMAIN c : ~Better(c[j], c[i])
                                          /\ \A j \in 1 .. i - 1 : Better(c[i], c[j])
  <1>7. i \in DOMAIN c /\ \A j \in DOMAIN c : ~Better(c[j], c[i])
    BY <1>6
  <1>8. BestQuote = c[i]
    BY DEF BestQuote, c
  <1>. QED
    BY <1>1, <1>7, <1>8 DEF c
-------------------------------------------------------------------------------
(* Every step keeps every thread in one place. *)

(* What the response says of the order it is about. *)
LEMMA ResponseOf ==
  ASSUME result' \in Quotes \union ToSet(Resting) \union {Nothing}, Respond
  PROVE  (response' = Nothing) = (result' = Nothing)
  <1>1. CASE result' = Nothing
    BY <1>1 DEF Respond
  <1>2. CASE result' # Nothing
    <2>1. ToSet(Resting) \subseteq [sell : Nat, buy : Nat, deadline : Nat, open : BOOLEAN]
      BY FanoutAssumption, ElementsAre
    <2>2. result'.sell \in Nat /\ result'.buy \in Nat
      BY <1>2, <2>1, FanoutAssumption
    <2>3. CallersView(result') \in [sell : Nat, buy : Nat]
      BY <2>2 DEF CallersView
    <2>4. response' = CallersView(result')
      BY <1>2 DEF Respond
    <2>. QED
      BY <1>2, <2>3, <2>4, FanoutAssumption
  <1>. QED
    BY <1>1, <1>2

(* A webhook's thread comes back: from those asking to those that arrived. *)
LEMMA PlacedAnswers ==
  ASSUME Placed, NEW w \in Webhooks, NEW a \in Quotes \union {Nothing}, Answers(w, a)
  PROVE  Placed'
  <1>1. /\ arrived \in Seq(Webhooks) /\ Distinct(arrived) /\ w \notin ToSet(arrived)
        /\ w \in asking /\ w \notin ToSet(batch)
    BY DEF Answers, Placed, TypeOK
  <1>2. /\ arrived' \in Seq(Webhooks) /\ Distinct(arrived')
        /\ ToSet(arrived') = ToSet(arrived) \union {w}
    BY <1>1, AppendNew DEF Answers
  <1>3. TypeOK'
    BY <1>1, <1>2 DEF Answers, judging, fixed, Placed, TypeOK
  <1>. QED
    BY <1>1, <1>2, <1>3 DEF Answers, Placed

(* Time moves no thread. *)
LEMMA PlacedTick ==
  ASSUME Placed, Tick
  PROVE  Placed'
  <1>1. clock' \in 0 .. MaxClock
    BY FanoutAssumption DEF Tick, Placed, TypeOK
  <1>. QED
    BY <1>1 DEF Tick, judging, fixed, Placed, TypeOK

(* as_completed takes what had arrived, as a set, in any order. *)
LEMMA PlacedEnter ==
  ASSUME Placed, Enter
  PROVE  Placed'
  <1>1. arrived \in Seq(Webhooks) /\ batch' \in SetToSeqs(ToSet(arrived)) /\ arrived' = <<>>
    BY DEF Enter, Placed, TypeOK
  <1>2. batch' \in Seq(Webhooks) /\ Distinct(batch') /\ ToSet(batch') \subseteq ToSet(arrived)
    BY <1>1, AnyOrder
  <1>3. /\ arrived' \in Seq(Webhooks) /\ Distinct(arrived') /\ ToSet(arrived') = {}
    BY <1>1, EmptyList
  <1>4. TypeOK'
    BY <1>2, <1>3 DEF Enter, judging, fixed, Placed, TypeOK
  <1>. QED
    BY <1>2, <1>3, <1>4 DEF Enter, Placed

(* as_completed takes the next batch in the order of arrival. *)
LEMMA PlacedTake ==
  ASSUME Placed, Take
  PROVE  Placed'
  <1>1. batch' = arrived /\ arrived' = <<>> /\ batch = <<>>
    BY DEF Take
  <1>2. /\ arrived' \in Seq(Webhooks) /\ Distinct(arrived') /\ ToSet(arrived') = {}
        /\ ToSet(batch') = ToSet(arrived)
    BY <1>1, EmptyList
  <1>3. TypeOK'
    BY <1>1, <1>2 DEF Take, judging, fixed, Placed, TypeOK
  <1>. QED
    BY <1>1, <1>2, <1>3 DEF Take, Placed

(* What the predicate lets pass is a quote. *)
LEMMA PassesQuote ==
  ASSUME NEW a \in Quotes \union {Nothing}, Results(a) \ {"refused"} # {}
  PROVE  a \in Quotes
  BY DEF Results

(* The next answer of the batch is judged. *)
LEMMA PlacedJudge ==
  ASSUME Placed, JudgeKeeps \/ JudgeIgnores
  PROVE  /\ Placed'
         /\ Head(batch) \in Webhooks /\ Head(batch) \notin heard
         /\ JudgeKeeps => answer[Head(batch)] \in Quotes
  <1>1. batch \in Seq(Webhooks) /\ batch # <<>> /\ Distinct(batch) /\ batch' = Tail(batch)
    BY DEF JudgeKeeps, JudgeIgnores, Judging, Heard, Placed, TypeOK
  <1>2. /\ Head(batch) \in ToSet(batch) /\ batch' \in Seq(Webhooks) /\ Distinct(batch')
        /\ ToSet(batch') = ToSet(batch) \ {Head(batch)} /\ ToSet(batch) \subseteq Webhooks
    BY <1>1, TakeHead, ElementsAre
  <1>3. heard' = heard \union {Head(batch)}
    BY DEF JudgeKeeps, JudgeIgnores, Heard
  <1>4. heard' \subseteq Webhooks \ (asking \union ToSet(arrived) \union ToSet(batch'))
    BY <1>2, <1>3 DEF Placed, TypeOK
  <1>5. passed' \subseteq heard'
    BY <1>3 DEF JudgeKeeps, JudgeIgnores, Placed, TypeOK
  <1>6. JudgeKeeps => answer[Head(batch)] \in Quotes
    BY <1>2, PassesQuote DEF JudgeKeeps, Placed, TypeOK
  <1>7. candidates' \in Seq(Quotes)
    <2>1. candidates \in Seq(Quotes)
      BY DEF Placed, TypeOK
    <2>2. \/ candidates' = candidates
          \/ candidates' = Append(candidates, answer[Head(batch)]) /\ answer[Head(batch)] \in Quotes
      BY <1>6 DEF JudgeKeeps, JudgeIgnores
    <2>. QED
      BY <2>1, <2>2
  <1>8. /\ UNCHANGED <<clock, pc, asking, answer, arrived, result, request, response>>
    BY DEF JudgeKeeps, JudgeIgnores, fixed
  <1>9. TypeOK'
    BY <1>2, <1>4, <1>5, <1>7, <1>8 DEF Placed, TypeOK
  <1>. QED
    BY <1>2, <1>6, <1>8, <1>9 DEF Placed, TypeOK

(* The best candidate is returned, or the pool is asked. *)
LEMMA PlacedReturn ==
  ASSUME Placed, Return
  PROVE  Placed'
  <1>1. result' \in Quotes \union {Nothing}
    <2>1. candidates \in Seq(Quotes)
      BY DEF Placed, TypeOK
    <2>2. candidates # <<>> => BestQuote \in Quotes
      BY <2>1, BestExists
    <2>. QED
      BY <2>2 DEF Return
  <1>2. (response' = Nothing) = (result' = Nothing)
    BY <1>1, ResponseOf DEF Return
  <1>3. TypeOK'
    BY <1>1, <1>2 DEF Return, judging, Placed, TypeOK
  <1>. QED
    BY <1>3 DEF Return, Placed

(* The open entries of the pool, which are all that a query sees. *)
OpenEntries == {e \in ToSet(Resting) : OpenNow(e)}
Entries == [sell : Nat, buy : Nat, deadline : Nat, open : BOOLEAN]

(* The pool, by index. *)
LEMMA PoolIs ==
  /\ Resting \in Seq(Entries) /\ DOMAIN Resting = 1 .. Len(Resting)
  /\ ToSet(Resting) \subseteq Entries
  /\ \A i \in 1 .. Len(Resting) : Resting[i] \in ToSet(Resting)
  <1>1. Resting \in Seq(Entries)
    BY FanoutAssumption DEF Entries
  <1>2. ToSet(Resting) = {Resting[i] : i \in 1 .. Len(Resting)} /\ ToSet(Resting) \subseteq Entries
    BY <1>1, ElementsAre
  <1>. QED
    BY <1>1, <1>2

(* A query returns open entries of the pool, and every one that is within its limit. *)
LEMMA QueryIs ==
  /\ Queried \in Seq(Entries)
  /\ \A j \in 1 .. Len(Queried) : Queried[j] \in OpenEntries
  /\ \A i \in 1 .. Len(Resting) :
       InReach(i) => \E j \in 1 .. Len(Queried) : Queried[j] = Resting[i]
  <1> DEFINE k == Keep(Resting, OpenEntries)
  <1>1. k \in Seq(Entries) /\ \A j \in 1 .. Len(k) : k[j] \in OpenEntries
    BY PoolIs, KeepElements
  <1>2. Limit \in Nat
    BY FanoutAssumption
  <1>3. ASSUME NEW i \in 1 .. Len(Resting), InReach(i)
        PROVE  \E j \in 1 .. Len(k) : k[j] = Resting[i] /\ j <= Limit
    <2>1. Resting[i] \in OpenEntries
      BY <1>3, PoolIs DEF InReach, OpenEntries
    <2>2. PICK j \in 1 .. Len(k) :
             /\ k[j] = Resting[i]
             /\ j <= Cardinality({m \in 1 .. i - 1 : Resting[m] \in OpenEntries}) + 1
      BY <2>1, PoolIs, KeepRank
    <2>3. {m \in 1 .. i - 1 : Resting[m] \in OpenEntries} = Before(i)
      <3>1. \A m \in 1 .. i - 1 : m \in 1 .. Len(Resting)
        OBVIOUS
      <3>2. \A m \in 1 .. i - 1 : Resting[m] \in ToSet(Resting)
        BY <3>1, PoolIs
      <3>. QED
        BY <3>2 DEF Before, OpenEntries
    <2>4. Cardinality(Before(i)) \in Nat
      <3>1. IsFiniteSet(1 .. i - 1)
        BY FS_Interval
      <3>2. Before(i) \subseteq 1 .. i - 1
        BY DEF Before
      <3>. QED
        BY <3>1, <3>2, FS_Subset, FS_CardinalityType
    <2>5. Cardinality(Before(i)) < Limit
      BY <1>3 DEF InReach
    <2>6. j \in Nat
      OBVIOUS
    <2>7. j <= Cardinality(Before(i)) + 1
      BY <2>2, <2>3
    <2>8. j <= Limit
      BY <1>2, <2>4, <2>5, <2>6, <2>7
    <2>. QED
      BY <2>2, <2>8
  <1> HIDE DEF k
  <1>4. /\ AtMost(k, Limit) \in Seq(Entries)
        /\ \A j \in 1 .. Len(AtMost(k, Limit)) : j \in 1 .. Len(k) /\ AtMost(k, Limit)[j] = k[j]
        /\ \A j \in 1 .. Len(k) : j <= Limit => j \in 1 .. Len(AtMost(k, Limit))
    BY <1>1, <1>2, AtMostIs
  <1>5. Queried = AtMost(k, Limit)
    BY DEF Queried, k, OpenEntries
  <1>6. ASSUME NEW i \in 1 .. Len(Resting), InReach(i)
        PROVE  \E j \in 1 .. Len(Queried) : Queried[j] = Resting[i]
    <2>1. PICK j \in 1 .. Len(k) : k[j] = Resting[i] /\ j <= Limit
      BY <1>3, <1>6
    <2>2. j \in 1 .. Len(Queried) /\ Queried[j] = Resting[i]
      BY <1>4, <1>5, <2>1
    <2>. QED
      BY <2>2
  <1>. QED
    BY <1>1, <1>4, <1>5, <1>6

(* What the pool offers is open and fits; if nothing, nothing within the limit does. *)
LEMMA PoolAnswer ==
  ASSUME FallsBack
  PROVE  \/ /\ result' = Nothing
            /\ \A i \in DOMAIN Resting : InReach(i) => ~Matches(Resting[i])
         \/ result' \in OpenEntries /\ Matches(result')
  <1> DEFINE A == {e \in ToSet(Resting) : Matches(e)}
             k == Keep(Queried, A)
  <1>1. result' = IF k = <<>> THEN Nothing ELSE Head(k)
    BY DEF FallsBack
  <1>2. \A i \in 1 .. Len(Resting) : Matches(Resting[i]) => Resting[i] \in A
    BY PoolIs
  <1>3. \A e \in A : Matches(e)
    OBVIOUS
  <1> HIDE DEF A
  <1>4. Queried \in Seq(Entries)
    BY QueryIs
  <1>5. /\ k \in Seq(Entries)
        /\ \A j \in 1 .. Len(k) : k[j] \in A /\ \E i \in 1 .. Len(Queried) : Queried[i] = k[j]
        /\ \A i \in 1 .. Len(Queried) : Queried[i] \in A => \E j \in 1 .. i : j <= Len(k)
    BY <1>4, KeepElements
  <1> HIDE DEF k
  <1>6. CASE k = <<>>
    <2>1. Len(k) = 0
      BY <1>6
    <2>2. \A i \in 1 .. Len(Queried) : Queried[i] \notin A
      BY <1>5, <2>1
    <2>3. \A i \in 1 .. Len(Resting) : InReach(i) => Resting[i] \notin A
      BY <2>2, QueryIs
    <2>. QED
      BY <1>1, <1>2, <1>6, <2>3, PoolIs
  <1>7. CASE k # <<>>
    <2>1. 1 \in 1 .. Len(k) /\ Head(k) = k[1]
      BY <1>5, <1>7
    <2>2. result' \in A /\ result' \in OpenEntries
      BY <1>1, <1>5, <1>7, <2>1, QueryIs
    <2>. QED
      BY <1>3, <2>2
  <1>. QED
    BY <1>6, <1>7

(* The pool's answer, in the caller's view. *)
LEMMA PlacedFallsBack ==
  ASSUME Placed, FallsBack
  PROVE  Placed'
  <1>1. result' \in ToSet(Resting) \union {Nothing}
    BY PoolAnswer DEF OpenEntries
  <1>2. (response' = Nothing) = (result' = Nothing)
    BY <1>1, ResponseOf DEF FallsBack
  <1>3. TypeOK'
    BY <1>1, <1>2 DEF FallsBack, judging, Placed, TypeOK
  <1>. QED
    BY <1>3 DEF FallsBack, Placed

(* Reading the request and both ways of raising move no thread. *)
LEMMA PlacedRest ==
  ASSUME Placed, Receive \/ JudgeRaises \/ TimesOut \/ UNCHANGED vars
  PROVE  Placed'
  BY DEF Receive, JudgeRaises, TimesOut, vars, judging, fixed, Placed, TypeOK

(* At the start every thread is asking. *)
LEMMA PlacedInit == Init => Placed
  <1> SUFFICES ASSUME Init PROVE Placed
    OBVIOUS
  <1>1. /\ arrived = <<>> /\ batch = <<>> /\ candidates = <<>> /\ heard = {} /\ passed = {}
    BY DEF Init
  <1>2. /\ ToSet(arrived) = {} /\ ToSet(batch) = {} /\ Distinct(arrived) /\ Distinct(batch)
        /\ arrived \in Seq(Webhooks) /\ batch \in Seq(Webhooks) /\ candidates \in Seq(Quotes)
    BY <1>1, EmptyList
  <1>3. TypeOK
    BY <1>1, <1>2, FanoutAssumption DEF Init, TypeOK
  <1>. QED
    BY <1>2, <1>3 DEF Placed

(* Every step leaves each thread in one place. *)
LEMMA PlacedStep == Placed /\ [Next]_vars => Placed'
  BY PlacedAnswers, PlacedTick, PlacedEnter, PlacedTake, PlacedJudge, PlacedReturn,
     PlacedFallsBack, PlacedRest DEF Next, Handler
-------------------------------------------------------------------------------
(* The best answer wins. *)

(* The candidates are the answers that passed: all of them, and nothing else. *)
Judged ==
  /\ \A i \in 1 .. Len(candidates) : \E w \in passed : candidates[i] = answer[w]
  /\ \A w \in passed : \E i \in 1 .. Len(candidates) : candidates[i] = answer[w]

FanInv ==
  /\ Placed /\ Judged
  /\ pc \notin {"idle", "refused"} => OneAmount(request)
  /\ pc = "fallback" => passed = {} /\ heard = Webhooks /\ request.route = "/quote"
  /\ BestAccepted

(* A quote is no entry of the pool, and neither is nothing. *)
LEMMA ResultKinds ==
  /\ Nothing \notin Quotes /\ Nothing \notin ToSet(Resting)
  /\ \A q \in Quotes : q.buy \in Nat /\ q.sell \in Nat /\ q \notin Entries
  <1>1. ASSUME NEW q \in Quotes PROVE q \notin Entries
    <2>1. DOMAIN q = {"sell", "buy", "fillWindow", "deadline", "kind", "wide"}
      BY FanoutAssumption
    <2>2. \A e \in Entries : DOMAIN e = {"sell", "buy", "deadline", "open"}
      BY DEF Entries
    <2>3. "open" \notin {"sell", "buy", "fillWindow", "deadline", "kind", "wide"}
      OBVIOUS
    <2>. QED
      BY <2>1, <2>2, <2>3
  <1>. QED
    BY <1>1, FanoutAssumption

(* When the handler returns, every thread was heard, and nothing beats what it returns. *)
LEMMA BestReturned ==
  ASSUME FanInv, Return
  PROVE  FanInv'
  <1>1. Placed' /\ TypeOK /\ candidates \in Seq(Quotes)
    BY PlacedReturn DEF FanInv, Placed, TypeOK
  <1>2. UNCHANGED <<clock, request, asking, answer, arrived, batch, candidates, heard, passed>>
    BY DEF Return, judging
  <1>3. heard = Webhooks
    <2>1. batch = <<>> /\ Len(<<>>) = 0 /\ Pending = {}
      BY DEF Return
    <2>2. Webhooks \subseteq heard
      BY <2>1 DEF Pending, Contains
    <2>3. heard \subseteq Webhooks
      BY <1>1 DEF TypeOK
    <2>. QED
      BY <2>2, <2>3
  <1>4. Judged'
    BY <1>2 DEF FanInv, Judged
  <1>5. OneAmount(request)
    BY DEF FanInv, Return
  <1>6. result' = (IF candidates = <<>> THEN Nothing ELSE BestQuote)
        /\ pc' = (IF result' = Nothing /\ request.route = "/quote" THEN "fallback" ELSE "answered")
    BY DEF Return
  <1>7. CASE candidates = <<>>
    <2>1. Len(candidates) = 0 /\ result' = Nothing
      BY <1>6, <1>7
    <2>2. passed = {}
      BY <2>1 DEF FanInv, Judged
    <2>3. BestAccepted'
      BY <1>2, <1>3, <1>6, <2>1, <2>2, ResultKinds DEF BestAccepted
    <2>. QED
      BY <1>1, <1>2, <1>3, <1>4, <1>5, <1>6, <2>1, <2>2, <2>3 DEF FanInv
  <1>8. CASE candidates # <<>>
    <2>1. PICK i \in 1 .. Len(candidates) :
             /\ BestQuote = candidates[i]
             /\ \A j \in 1 .. Len(candidates) : ~Better(candidates[j], candidates[i])
      BY <1>1, <1>8, BestExists
    <2>2. result' = candidates[i] /\ candidates[i] \in Quotes
      BY <1>1, <1>6, <1>8, <2>1
    <2>3. /\ result' # Nothing /\ result' \notin ToSet(Resting)
          /\ result'.buy \in Nat /\ result'.sell \in Nat
      BY <2>2, ResultKinds, PoolIs
    <2>4. pc' = "answered" /\ response' = CallersView(result')
      BY <1>6, <2>3 DEF Return, Respond
    <2>5. \E w \in passed : answer[w] = result'
      BY <2>2 DEF FanInv, Judged
    <2>6. ASSUME NEW w \in passed
          PROVE  IF AsksTo.get # Absent THEN Offered'.pay <= answer[w].buy
                                        ELSE Offered'.get >= answer[w].sell
      <3>1. PICK j \in 1 .. Len(candidates) : candidates[j] = answer[w]
        BY <2>6 DEF FanInv, Judged
      <3>2. ~Better(answer[w], result')
        BY <2>1, <2>2, <3>1
      <3>3. answer[w].buy \in Nat /\ answer[w].sell \in Nat
        <4>1. candidates[j] \in Quotes
          BY <1>1
        <4>. QED
          BY <3>1, <4>1, ResultKinds
      <3>4. Offered'.pay = result'.buy /\ Offered'.get = result'.sell
        BY <1>2, <2>4 DEF Offered, CallersView
      <3>5. (AsksTo.get # Absent) <=> ExactOut
        BY DEF AsksTo, ExactOut, MakerView
      <3>. QED
        BY <2>3, <3>2, <3>3, <3>4, <3>5 DEF Better
    <2>7. AsksTo' = AsksTo
      BY <1>2 DEF AsksTo
    <2>8. BestAccepted'
      BY <1>2, <1>3, <2>2, <2>3, <2>5, <2>6, <2>7 DEF BestAccepted
    <2>. QED
      BY <1>1, <1>2, <1>4, <1>5, <2>4, <2>8 DEF FanInv
  <1>. QED
    BY <1>7, <1>8

(* The pool is asked only when no answer passed, and for exactly the amount. *)
LEMMA BestFromPool ==
  ASSUME FanInv, FallsBack
  PROVE  FanInv'
  <1>1. Placed'
    BY PlacedFallsBack DEF FanInv
  <1>2. /\ UNCHANGED <<clock, request, asking, answer, arrived, batch, candidates, heard, passed>>
        /\ pc' = "answered" /\ pc = "fallback"
    BY DEF FallsBack, judging
  <1>3. /\ heard = Webhooks /\ request.route = "/quote" /\ OneAmount(request)
        /\ passed = {}
    BY <1>2 DEF FanInv
  <1>4. Judged'
    BY <1>2 DEF FanInv, Judged
  <1>5. BestAccepted'
    <2>1. CASE result' = Nothing /\ \A i \in DOMAIN Resting : InReach(i) => ~Matches(Resting[i])
      <3>1. ASSUME NEW i \in DOMAIN Resting, InReach(i), Exact(Resting[i].buy, Resting[i].sell)
            PROVE  FALSE
        <4>1. Matches(Resting[i])
          BY <1>3, <3>1 DEF Matches, Exact, AsksTo, OneAmount
        <4>. QED
          BY <2>1, <3>1, <4>1
      <3>2. \A i \in DOMAIN Resting : InReach(i)' = InReach(i)
        BY <1>2 DEF InReach, Before, OpenNow
      <3>3. \A pay, get : Exact(pay, get)' = Exact(pay, get)
        BY <1>2 DEF Exact, AsksTo
      <3>. QED
        BY <1>2, <1>3, <2>1, <3>1, <3>2, <3>3, ResultKinds DEF BestAccepted
    <2>2. CASE result' \in OpenEntries /\ Matches(result')
      <3>1. result' \in ToSet(Resting) /\ result' \notin Quotes /\ result' # Nothing
        BY <2>2, PoolIs, ResultKinds DEF OpenEntries
      <3>2. response' = CallersView(result')
        BY <3>1 DEF FallsBack, Respond
      <3>3. Offered'.pay = result'.buy /\ Offered'.get = result'.sell
        BY <1>2, <1>3, <3>2 DEF Offered, CallersView
      <3>4. AsksTo'.pay \in {Absent, result'.buy} /\ AsksTo'.get \in {Absent, result'.sell}
        BY <1>2, <1>3, <2>2 DEF AsksTo, Matches, OneAmount
      <3>5. result'.open /\ clock <= result'.deadline
        BY <2>2 DEF OpenEntries, OpenNow
      <3>. QED
        BY <1>2, <1>3, <3>1, <3>3, <3>4, <3>5 DEF BestAccepted, Exact, OpenNow
    <2>. QED
      BY <2>1, <2>2, PoolAnswer
  <1>. QED
    BY <1>1, <1>2, <1>3, <1>4, <1>5 DEF FanInv

(* A thread that comes back was not heard, so what was judged stands. *)
LEMMA BestAnswers ==
  ASSUME FanInv, NEW w \in Webhooks, NEW a \in Quotes \union {Nothing}, Answers(w, a)
  PROVE  FanInv'
  <1>1. Placed' /\ TypeOK
    BY PlacedAnswers DEF FanInv, Placed
  <1>2. w \in asking /\ w \notin heard /\ passed \subseteq heard
    BY <1>1 DEF Answers, TypeOK
  <1>3. /\ UNCHANGED <<clock, pc, candidates, heard, passed, result, request, response>>
        /\ \A v \in passed : answer'[v] = answer[v]
    BY <1>1, <1>2 DEF Answers, judging, fixed, TypeOK
  <1>4. Judged'
    BY <1>3 DEF FanInv, Judged
  <1>5. pc # "answered"
    BY <1>2 DEF FanInv, BestAccepted
  <1>. QED
    BY <1>1, <1>3, <1>4, <1>5 DEF FanInv, BestAccepted

(* Time passes only before the answer. *)
LEMMA BestTick ==
  ASSUME FanInv, Tick
  PROVE  FanInv'
  <1>1. Placed'
    BY PlacedTick DEF FanInv
  <1>2. /\ UNCHANGED <<pc, asking, answer, candidates, heard, passed, result, request, response>>
        /\ pc # "answered"
    BY DEF Tick, judging, fixed
  <1>3. Judged'
    BY <1>2 DEF FanInv, Judged
  <1>. QED
    BY <1>1, <1>2, <1>3 DEF FanInv, BestAccepted

(* An answer becomes a candidate when, and only when, the predicate lets it pass. *)
LEMMA BestJudges ==
  ASSUME FanInv, JudgeKeeps \/ JudgeIgnores
  PROVE  FanInv'
  <1>1. Placed' /\ candidates \in Seq(Quotes)
    BY PlacedJudge DEF FanInv, Placed, TypeOK
  <1>2. UNCHANGED <<clock, pc, answer, result, request, response>> /\ pc = "collecting"
    BY DEF JudgeKeeps, JudgeIgnores, Judging, fixed
  <1>3. Judged'
    <2>1. CASE JudgeIgnores
      BY <2>1 DEF JudgeIgnores, FanInv, Judged
    <2>2. CASE JudgeKeeps
      <3>1. PICK h : h = Head(batch)
        OBVIOUS
      <3>2. candidates' = Append(candidates, answer[h]) /\ passed' = passed \union {h}
        BY <2>2, <3>1 DEF JudgeKeeps
      <3>3. answer[h] \in Quotes
        BY <2>2, <3>1, PlacedJudge DEF FanInv
      <3>4. /\ Len(candidates') = Len(candidates) + 1 /\ Len(candidates) \in Nat
            /\ candidates'[Len(candidates) + 1] = answer[h]
            /\ \A i \in 1 .. Len(candidates) : candidates'[i] = candidates[i]
        BY <1>1, <3>2, <3>3
      <3>5. ASSUME NEW i \in 1 .. Len(candidates')
            PROVE  \E w \in passed' : candidates'[i] = answer[w]
        <4>1. CASE i = Len(candidates) + 1
          BY <3>2, <3>4, <4>1
        <4>2. CASE i # Len(candidates) + 1
          <5>1. i \in 1 .. Len(candidates)
            BY <3>4, <4>2
          <5>. QED
            BY <3>2, <3>4, <5>1 DEF FanInv, Judged
        <4>. QED
          BY <4>1, <4>2
      <3>6. ASSUME NEW w \in passed'
            PROVE  \E i \in 1 .. Len(candidates') : candidates'[i] = answer[w]
        <4>1. CASE w \in passed
          <5>1. PICK i \in 1 .. Len(candidates) : candidates[i] = answer[w]
            BY <4>1 DEF FanInv, Judged
          <5>2. i \in 1 .. Len(candidates') /\ candidates'[i] = answer[w]
            BY <3>4, <5>1
          <5>. QED
            BY <5>2
        <4>2. CASE w = h
          <5>1. Len(candidates) + 1 \in 1 .. Len(candidates')
            BY <3>4
          <5>. QED
            BY <3>4, <4>2, <5>1
        <4>. QED
          BY <3>2, <4>1, <4>2
      <3>. QED
        BY <1>2, <3>5, <3>6 DEF Judged
    <2>. QED
      BY <2>1, <2>2
  <1>. QED
    BY <1>1, <1>2, <1>3 DEF FanInv, BestAccepted

(* No other step ends the request with an answer. *)
LEMMA BestRest ==
  ASSUME FanInv, Receive \/ Enter \/ Take \/ JudgeRaises \/ TimesOut \/ UNCHANGED vars
  PROVE  FanInv'
  <1>1. Placed'
    BY PlacedEnter, PlacedTake, PlacedRest DEF FanInv
  <1>2. UNCHANGED <<clock, answer, candidates, heard, passed, result, request, response>>
    BY DEF Receive, Enter, Take, JudgeRaises, TimesOut, vars, judging, fixed
  <1>3. Judged'
    BY <1>2 DEF FanInv, Judged
  <1>4. CASE UNCHANGED vars
    <2>1. pc' = pc
      BY <1>4 DEF vars
    <2>2. BestAccepted' = BestAccepted
      BY <1>2, <2>1 DEF BestAccepted, InReach, Before, OpenNow, Exact, AsksTo, Offered
    <2>. QED
      BY <1>1, <1>2, <1>3, <2>1, <2>2 DEF FanInv
  <1>5. CASE Receive \/ Enter \/ Take \/ JudgeRaises \/ TimesOut
    <2>1. /\ pc' \in {"refused", "asking", "collecting", "raised"}
          /\ pc' = "asking" => OneAmount(request)
          /\ pc' \in {"collecting", "raised"} => pc \in {"asking", "collecting"}
      BY <1>5 DEF Receive, Enter, Take, JudgeRaises, TimesOut
    <2>. QED
      BY <1>1, <1>2, <1>3, <2>1 DEF FanInv, BestAccepted
  <1>. QED
    BY <1>4, <1>5

(* At the start nothing was heard. *)
LEMMA BestInit == Init => FanInv
  <1> SUFFICES ASSUME Init PROVE FanInv
    OBVIOUS
  <1>1. candidates = <<>> /\ Len(<<>>) = 0 /\ passed = {} /\ pc = "idle"
    BY DEF Init
  <1>. QED
    BY <1>1, PlacedInit DEF FanInv, Judged, BestAccepted

(* Every step keeps the invariant. *)
LEMMA BestStep == FanInv /\ [Next]_vars => FanInv'
  BY BestAnswers, BestTick, BestJudges, BestReturned, BestFromPool, BestRest DEF Next, Handler

(* Every thread is in one place; the candidates are the answers that the predicate let *)
(* pass, no more and no fewer, whatever it said of each and in whatever order they     *)
(* came; the pool is asked only when there is none; and the answer is the best.        *)
THEOREM FanoutInvariant == Spec => []FanInv
  BY BestInit, BestStep, PTL DEF Spec

(* Every thread of a request asks, waits to be taken, is in the batch or was heard, and *)
(* the response speaks of an order exactly when there is one.                           *)
THEOREM FanoutTypeCorrect == Spec => []TypeOK
  <1>1. FanInv => TypeOK
    BY DEF FanInv, Placed
  <1>. QED
    BY <1>1, FanoutInvariant, PTL

(* Whatever makers answer and in whatever order their threads end: when the handler     *)
(* answers, every answer has been judged and none that passed gives the caller more;    *)
(* what comes from the pool is open and for exactly the amount asked; and "no quote"    *)
(* means that no answer passed and no such order is within the query's limit.           *)
THEOREM BestIsServed == Spec => []BestAccepted
  <1>1. FanInv => BestAccepted
    BY DEF FanInv
  <1>. QED
    BY <1>1, FanoutInvariant, PTL
================================================================================
