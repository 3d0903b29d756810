---------------------------- MODULE RelayPoolProofs ----------------------------
(***************************************************************************)
(* Theorems about a relay, for any number of request threads, orders and   *)
(* submissions.  The inductive invariant ties the pool to the threads:     *)
(* what a thread answered with its 200 is in the pool while it is live.    *)
(***************************************************************************)
EXTENDS RelayPool, FoldLemmas

PostType ==
  [pc : {"idle", "looking", "evaluating", "adding", "accepted", "rejected"},
   sub : Submissions, now : 0 .. MaxClock, verdict : Checks, duplicate : BOOLEAN]
GetType ==
  [pc : {"idle", "serving", "served"}, taker : Takers \union {Anyone},
   now : 0 .. MaxClock, answer : Seq(EntryType)]

Typed ==
  /\ clock \in 0 .. MaxClock
  /\ pool \in Seq(EntryType)
  /\ post \in [Posts -> PostType]
  /\ get \in [Gets -> GetType]
  /\ \A g \in Gets : Len(get[g].answer) <= Limit /\ get[g].now <= clock

OneEach == \A i, j \in 1 .. Len(pool) : Hash(pool[i]) = Hash(pool[j]) => i = j

RelayInv == Typed /\ OneEach /\ AcceptedStaysPooled /\ AcceptedOnce

(* The entries that the predicate leaves, as the lemmas on lists want them. *)
LEMMA LiveIs ==
  ASSUME NEW entries \in Seq(EntryType), NEW now
  PROVE  /\ LiveEntries(entries, now) \in Seq(EntryType)
         /\ \A i \in 1 .. Len(entries) :
              now <= Deadline[Hash(entries[i])] =>
                \E j \in 1 .. i : /\ j \in 1 .. Len(LiveEntries(entries, now))
                                  /\ LiveEntries(entries, now)[j] = entries[i]
         /\ \A j \in 1 .. Len(LiveEntries(entries, now)) :
              \E i \in 1 .. Len(entries) : entries[i] = LiveEntries(entries, now)[j]
         /\ (\A i, j \in 1 .. Len(entries) : Hash(entries[i]) = Hash(entries[j]) => i = j) =>
              \A i, j \in 1 .. Len(LiveEntries(entries, now)) :
                Hash(LiveEntries(entries, now)[i]) = Hash(LiveEntries(entries, now)[j]) => i = j
  <1> DEFINE A == {e \in ToSet(entries) : now <= Deadline[Hash(e)]}
             live == Keep(entries, A)
  <1>1. LiveEntries(entries, now) = live
    BY DEF LiveEntries
  <1>2. \A i \in 1 .. Len(entries) : now <= Deadline[Hash(entries[i])] => entries[i] \in A
    <2>1. DOMAIN entries = 1 .. Len(entries)
      OBVIOUS
    <2>. QED
      BY <2>1 DEF ToSet
  <1> HIDE DEF A
  <1>3. /\ live \in Seq(EntryType)
        /\ \A j \in 1 .. Len(live) : \E i \in 1 .. Len(entries) : entries[i] = live[j]
        /\ \A i \in 1 .. Len(entries) :
             entries[i] \in A => \E j \in 1 .. i : j <= Len(live) /\ live[j] = entries[i]
    <2>1. /\ Keep(entries, A) \in Seq(EntryType)
          /\ \A j \in 1 .. Len(Keep(entries, A)) :
               /\ Keep(entries, A)[j] \in A
               /\ \E i \in 1 .. Len(entries) : i >= j /\ entries[i] = Keep(entries, A)[j]
          /\ \A i \in 1 .. Len(entries) :
               entries[i] \in A =>
                 \E j \in 1 .. i : j <= Len(Keep(entries, A)) /\ Keep(entries, A)[j] = entries[i]
      BY KeepElements
    <2>. QED
      BY <2>1
  <1>4. PICK pos : Embeds(pos, live, entries, Len(entries), A)
    BY KeepEmbeds
  <1> HIDE DEF live
  <1>5. \A i \in 1 .. Len(entries) : now <= Deadline[Hash(entries[i])] =>
          \E j \in 1 .. i : j \in 1 .. Len(live) /\ live[j] = entries[i]
    <2> SUFFICES ASSUME NEW i \in 1 .. Len(entries), now <= Deadline[Hash(entries[i])]
                 PROVE  \E j \in 1 .. i : j \in 1 .. Len(live) /\ live[j] = entries[i]
      OBVIOUS
    <2>1. PICK j \in 1 .. i : j <= Len(live) /\ live[j] = entries[i]
      BY <1>2, <1>3
    <2>2. j \in 1 .. Len(live)
      BY <1>3, <2>1
    <2>. QED
      BY <2>1, <2>2
  <1>6. ASSUME \A i, j \in 1 .. Len(entries) : Hash(entries[i]) = Hash(entries[j]) => i = j,
               NEW i \in 1 .. Len(live), NEW j \in 1 .. Len(live), Hash(live[i]) = Hash(live[j])
        PROVE  i = j
    <2>1. /\ pos[i] \in 1 .. Len(entries) /\ pos[j] \in 1 .. Len(entries)
          /\ live[i] = entries[pos[i]] /\ live[j] = entries[pos[j]]
      BY <1>4 DEF Embeds
    <2>2. pos[i] = pos[j]
      BY <1>6, <2>1
    <2>3. (i < j => pos[i] < pos[j]) /\ (j < i => pos[j] < pos[i])
      BY <1>4 DEF Embeds
    <2>. QED
      BY <2>1, <2>2, <2>3
  <1>. QED
    BY <1>1, <1>3, <1>5, <1>6

(* What is in the pool, by its positions. *)
LEMMA PooledIs ==
  ASSUME pool \in Seq(EntryType), NEW o
  PROVE  Pooled(o) <=> \E i \in 1 .. Len(pool) : Hash(pool[i]) = o
  <1>1. DOMAIN pool = 1 .. Len(pool)
    OBVIOUS
  <1>. QED
    BY <1>1 DEF Pooled

(* Pruning keeps what is live now, where it was or nearer to the head. *)
LEMMA PruneStep ==
  ASSUME RelayInv, pool' = LiveEntries(pool, clock)
  PROVE  /\ pool' \in Seq(EntryType) /\ OneEach'
         /\ \A o \in Orders : clock <= Deadline[o] /\ Pooled(o) => Pooled(o)'
         /\ \A i \in 1 .. Len(pool) :
              clock <= Deadline[Hash(pool[i])] =>
                \E j \in 1 .. i : j \in 1 .. Len(pool') /\ pool'[j] = pool[i]
  <1>1. pool \in Seq(EntryType)
    BY DEF RelayInv, Typed
  <1>2. /\ pool' \in Seq(EntryType)
        /\ \A i \in 1 .. Len(pool) :
             clock <= Deadline[Hash(pool[i])] =>
               \E j \in 1 .. i : j \in 1 .. Len(pool') /\ pool'[j] = pool[i]
        /\ \A j \in 1 .. Len(pool') : \E i \in 1 .. Len(pool) : pool[i] = pool'[j]
    <2>1. pool' \in Seq(EntryType)
      BY <1>1, LiveIs
    <2>2. \A i \in 1 .. Len(pool) :
            clock <= Deadline[Hash(pool[i])] =>
              \E j \in 1 .. i : j \in 1 .. Len(pool') /\ pool'[j] = pool[i]
      BY <1>1, LiveIs
    <2>3. \A j \in 1 .. Len(pool') : \E i \in 1 .. Len(pool) : pool[i] = pool'[j]
      BY <1>1, LiveIs
    <2>. QED
      BY <2>1, <2>2, <2>3
  <1>3. OneEach'
    <2>1. \A i, j \in 1 .. Len(pool) : Hash(pool[i]) = Hash(pool[j]) => i = j
      BY DEF RelayInv, OneEach
    <2>2. \A i, j \in 1 .. Len(pool') : Hash(pool'[i]) = Hash(pool'[j]) => i = j
      BY <1>1, <2>1, LiveIs
    <2>. QED
      BY <2>2 DEF OneEach
  <1>5. ASSUME NEW o \in Orders, clock <= Deadline[o], Pooled(o)
        PROVE  Pooled(o)'
    <2>1. PICK i \in 1 .. Len(pool) : Hash(pool[i]) = o
      BY <1>1, <1>5, PooledIs
    <2>2. PICK j \in 1 .. Len(pool') : pool'[j] = pool[i]
      BY <1>2, <1>5, <2>1
    <2>3. DOMAIN pool' = 1 .. Len(pool')
      BY <1>2
    <2>. QED
      BY <2>1, <2>2, <2>3 DEF Pooled, Hash
  <1>. QED
    BY <1>2, <1>3, <1>5

(* An order is among these entries. *)
Held(entries, o) == \E i \in DOMAIN entries : entries[i].sub.order = o

(* Adding keeps all there is, and the order that is added is there. *)
LEMMA AddStep ==
  ASSUME RelayInv, NEW e \in EntryType, Add(e)
  PROVE  /\ pool' \in Seq(EntryType) /\ OneEach'
         /\ \A o \in Orders : Pooled(o) => Pooled(o)'
         /\ Held(pool', Hash(e))
         /\ \A i \in 1 .. Len(pool) : i \in 1 .. Len(pool') /\ pool'[i] = pool[i]
  <1>1. pool \in Seq(EntryType) /\ DOMAIN pool = 1 .. Len(pool) /\ Len(pool) \in Nat
    BY DEF RelayInv, Typed
  <1>2. OneEach
    BY DEF RelayInv
  <1>3. CASE Pooled(Hash(e))
    <2>1. pool' = pool
      BY <1>3 DEF Add
    <2>. QED
      BY <1>1, <1>2, <1>3, <2>1 DEF OneEach, Pooled, Held, Hash
  <1>4. CASE ~Pooled(Hash(e))
    <2>1. /\ pool' \in Seq(EntryType) /\ Len(pool') = Len(pool) + 1 /\ pool'[Len(pool) + 1] = e
          /\ \A i \in 1 .. Len(pool) : pool'[i] = pool[i]
          /\ DOMAIN pool' = 1 .. Len(pool')
      BY <1>1, <1>4 DEF Add
    <2>2. \A i \in 1 .. Len(pool) : i \in 1 .. Len(pool')
      BY <1>1, <2>1
    <2>3. \A i \in 1 .. Len(pool') : i \in 1 .. Len(pool) \/ i = Len(pool) + 1
      BY <1>1, <2>1
    <2>4. OneEach'
      BY <1>1, <1>2, <1>4, <2>1, <2>3 DEF OneEach, Pooled, Hash
    <2>6. \A o \in Orders : Pooled(o) => Pooled(o)'
      BY <1>1, <2>1, <2>2 DEF Pooled, Hash
    <2>7. Held(pool', Hash(e))
      <3>1. Len(pool) + 1 \in DOMAIN pool'
        BY <1>1, <2>1
      <3>. QED
        BY <2>1, <3>1 DEF Held, Hash
    <2>. QED
      BY <2>1, <2>2, <2>4, <2>6, <2>7
  <1>. QED
    BY <1>3, <1>4

(* A thread goes on: what it needs to show for it. *)
LEMMA PostStep ==
  ASSUME RelayInv, NEW p \in Posts, NEW t \in PostType, post' = [post EXCEPT ![p] = t],
         UNCHANGED <<clock, get>>,
         pool' \in Seq(EntryType), OneEach',
         \A o \in Orders : clock <= Deadline[o] /\ Pooled(o) => Pooled(o)',
         t.pc = "accepted" /\ clock <= Deadline[t.sub.order] => Held(pool', t.sub.order),
         t.pc = "accepted" /\ ~t.duplicate => ~Pooled(t.sub.order)
  PROVE  RelayInv'
  <1>1. /\ post' \in [Posts -> PostType] /\ post'[p] = t
        /\ \A q \in Posts : q # p => post'[q] = post[q]
    BY DEF RelayInv, Typed
  <1>2. \A q \in Posts : post'[q].sub.order \in Orders
    BY <1>1, RelayAssumption DEF PostType
  <1>3. Typed'
    BY <1>1 DEF RelayInv, Typed
  <1>5. AcceptedStaysPooled'
    <2> SUFFICES ASSUME NEW q \in Posts, post'[q].pc = "accepted",
                        clock <= Deadline[post'[q].sub.order]
                 PROVE  \E i \in DOMAIN pool' : pool'[i].sub.order = post'[q].sub.order
      BY DEF AcceptedStaysPooled, Pooled, Hash
    <2>1. CASE q = p
      BY <1>1, <2>1 DEF Held
    <2>2. CASE q # p
      <3>1. Pooled(post[q].sub.order)
        BY <1>1, <2>2 DEF RelayInv, AcceptedStaysPooled
      <3>2. \E i \in DOMAIN pool' : pool'[i].sub.order = post[q].sub.order
        BY <1>1, <1>2, <2>2, <3>1 DEF Pooled, Hash
      <3>. QED
        BY <1>1, <2>2, <3>2
    <2>. QED
      BY <2>1, <2>2
  <1>6. AcceptedOnce'
    <2>1. \A i, j \in DOMAIN pool' : Hash(pool'[i]) = Hash(pool'[j]) => i = j
      <3>1. DOMAIN pool' = 1 .. Len(pool')
        OBVIOUS
      <3>. QED
        BY <3>1 DEF OneEach, Hash
    <2>2. ASSUME NEW q \in Posts, NEW r \in Posts,
                 post'[q].pc = "accepted", ~post'[q].duplicate,
                 post'[r].pc = "accepted", ~post'[r].duplicate,
                 post'[r].sub.order = post'[q].sub.order, clock <= Deadline[post'[q].sub.order]
          PROVE  q = r
      <3>1. CASE q # p /\ r # p
        BY <1>1, <2>2, <3>1 DEF RelayInv, AcceptedOnce, FirstAccept
      <3>2. CASE q = p /\ r # p
        BY <1>1, <2>2, <3>2 DEF RelayInv, AcceptedStaysPooled
      <3>3. CASE q # p /\ r = p
        BY <1>1, <2>2, <3>3 DEF RelayInv, AcceptedStaysPooled
      <3>. QED
        BY <3>1, <3>2, <3>3
    <2>. QED
      BY <2>1, <2>2 DEF AcceptedOnce, FirstAccept, Hash
  <1>. QED
    BY <1>3, <1>5, <1>6 DEF RelayInv

(* A step of no POST thread, which may prune but adds nothing. *)
LEMMA OtherStep ==
  ASSUME RelayInv, UNCHANGED post, clock' \in 0 .. MaxClock, clock <= clock',
         get' \in [Gets -> GetType],
         \A g \in Gets : Len(get'[g].answer) <= Limit /\ get'[g].now <= clock',
         pool' = pool \/ pool' = LiveEntries(pool, clock)
  PROVE  RelayInv'
  <1>1. /\ pool' \in Seq(EntryType) /\ OneEach'
        /\ \A o \in Orders : clock <= Deadline[o] /\ Pooled(o) => Pooled(o)'
    <2>1. CASE pool' = pool
      BY <2>1 DEF RelayInv, Typed, OneEach, Pooled, Hash
    <2>2. CASE pool' = LiveEntries(pool, clock)
      BY <2>2, PruneStep
    <2>. QED
      BY <2>1, <2>2
  <1>2. clock \in Nat /\ clock' \in Nat /\ \A o \in Orders : Deadline[o] \in Nat
    BY RelayAssumption DEF RelayInv, Typed
  <1>3. \A o \in Orders : clock' <= Deadline[o] => clock <= Deadline[o]
    BY <1>2
  <1>4. \A q \in Posts : post[q].sub.order \in Orders
    BY RelayAssumption DEF RelayInv, Typed, PostType
  <1>5. Typed'
    BY <1>1 DEF RelayInv, Typed
  <1>7. AcceptedStaysPooled'
    BY <1>1, <1>3, <1>4 DEF RelayInv, AcceptedStaysPooled
  <1>8. AcceptedOnce'
    <2>1. \A i, j \in DOMAIN pool' : Hash(pool'[i]) = Hash(pool'[j]) => i = j
      <3>1. DOMAIN pool' = 1 .. Len(pool')
        BY <1>1
      <3>. QED
        BY <1>1, <3>1 DEF OneEach, Hash
    <2>. QED
      BY <1>3, <1>4, <2>1 DEF RelayInv, AcceptedOnce, FirstAccept, Hash
  <1>. QED
    BY <1>1, <1>5, <1>7, <1>8 DEF RelayInv

(* The pool as it is, for the threads that leave it alone. *)
LEMMA SamePool ==
  ASSUME RelayInv, UNCHANGED pool
  PROVE  /\ pool' \in Seq(EntryType) /\ OneEach'
         /\ \A o : Pooled(o) => Pooled(o)'
  BY DEF RelayInv, Typed, OneEach, Pooled, Hash

(* A thread without a submission is well typed. *)
LEMMA NoPostIs == NoPost \in PostType /\ NoPost.pc = "idle" /\ 0 \in 0 .. MaxClock
  <1>1. (CHOOSE s \in Submissions : TRUE) \in Submissions
    BY RelayAssumption
  <1>2. 0 \in 0 .. MaxClock
    BY RelayAssumption
  <1>. QED
    BY <1>1, <1>2 DEF NoPost, PostType, Checks

(* The steps of POST /order. *)
LEMMA PostSteps ==
  ASSUME RelayInv, NEW p \in Posts,
         \/ \E s \in Submissions : PostArrives(p, s)
         \/ PostMalformed(p) \/ PostLooksUp(p) \/ PostRejected(p)
         \/ PostValid(p) \/ PostAdds(p)
  PROVE  RelayInv'
  <1>1. /\ post[p] \in PostType /\ post \in [Posts -> PostType]
        /\ clock \in 0 .. MaxClock /\ pool \in Seq(EntryType)
        /\ post[p].sub \in Submissions /\ post[p].sub.order \in Orders
    BY RelayAssumption DEF RelayInv, Typed, PostType
  <1>2. \A pc \in {"looking", "rejected", "evaluating", "accepted", "adding"} :
          /\ [post[p] EXCEPT !.pc = pc] \in PostType
          /\ [post[p] EXCEPT !.pc = pc].pc = pc
          /\ [post[p] EXCEPT !.pc = pc].sub = post[p].sub
          /\ [post[p] EXCEPT !.pc = pc].duplicate = post[p].duplicate
    BY <1>1 DEF PostType
  <1>3. ASSUME NEW s \in Submissions, PostArrives(p, s)
        PROVE  RelayInv'
    <2> DEFINE t == [post[p] EXCEPT !.pc = "looking", !.sub = s, !.now = clock]
    <2>1. t \in PostType /\ t.pc = "looking"
      BY <1>1 DEF PostType
    <2>2. post' = [post EXCEPT ![p] = t] /\ pool' = LiveEntries(pool, clock) /\ UNCHANGED <<clock, get>>
      BY <1>3 DEF PostArrives
    <2> HIDE DEF t
    <2>. QED
      BY <2>1, <2>2, PruneStep, PostStep
  <1>4. CASE PostMalformed(p)
    <2> DEFINE t == [post[p] EXCEPT !.pc = "rejected"]
    <2>1. t \in PostType /\ t.pc = "rejected"
      BY <1>2
    <2>2. post' = [post EXCEPT ![p] = t] /\ pool' = LiveEntries(pool, clock) /\ UNCHANGED <<clock, get>>
      BY <1>4 DEF PostMalformed
    <2> HIDE DEF t
    <2>. QED
      BY <2>1, <2>2, PruneStep, PostStep
  <1>5. CASE PostLooksUp(p)
    <2>1. CASE Pooled(post[p].sub.order)
      <3> DEFINE t == [post[p] EXCEPT !.pc = "accepted", !.duplicate = TRUE]
      <3>1. t \in PostType /\ t.pc = "accepted" /\ t.sub = post[p].sub /\ t.duplicate
        BY <1>1 DEF PostType
      <3>2. post' = [post EXCEPT ![p] = t] /\ UNCHANGED <<clock, pool, get>>
        BY <1>5, <2>1 DEF PostLooksUp
      <3>3. Pooled(t.sub.order)
        BY <2>1, <3>1
      <3> HIDE DEF t
      <3>4. Held(pool', t.sub.order)
        BY <3>2, <3>3 DEF Held, Pooled, Hash
      <3>. QED
        BY <3>1, <3>2, <3>4, SamePool, PostStep
    <2>2. CASE ~Pooled(post[p].sub.order)
      <3> DEFINE t == [post[p] EXCEPT !.pc = "evaluating"]
      <3>1. t \in PostType /\ t.pc = "evaluating"
        BY <1>2
      <3>2. post' = [post EXCEPT ![p] = t] /\ UNCHANGED <<clock, pool, get>>
        BY <1>5, <2>2 DEF PostLooksUp
      <3> HIDE DEF t
      <3>. QED
        BY <3>1, <3>2, SamePool, PostStep
    <2>. QED
      BY <2>1, <2>2
  <1>6. CASE PostRejected(p)
    <2> DEFINE t == [NoPost EXCEPT !.pc = "rejected"]
    <2>1. t \in PostType /\ t.pc = "rejected"
      BY NoPostIs DEF PostType
    <2>2. post' = [post EXCEPT ![p] = t] /\ UNCHANGED <<clock, pool, get>>
      BY <1>6 DEF PostRejected
    <2> HIDE DEF t
    <2>. QED
      BY <2>1, <2>2, SamePool, PostStep
  <1>7. CASE PostValid(p)
    <2>1. PICK verdict \in Results(post[p].sub, post[p].now) \ {"refused"} :
            post' = [post EXCEPT ![p].pc = "adding", ![p].verdict = verdict]
      BY <1>7 DEF PostValid
    <2>2. verdict \in Checks
      BY <2>1 DEF Results, Evaluations, SigVerdicts, Checks
    <2> DEFINE t == [post[p] EXCEPT !.pc = "adding", !.verdict = verdict]
    <2>3. t \in PostType /\ t.pc = "adding" /\ t.sub = post[p].sub /\ t.verdict = verdict
      BY <1>1, <2>2 DEF PostType
    <2>4. post' = [post EXCEPT ![p] = t] /\ UNCHANGED <<clock, pool, get>>
      BY <1>1, <1>7, <2>1 DEF PostValid
    <2> HIDE DEF t
    <2>. QED
      BY <2>2, <2>3, <2>4, SamePool, PostStep
  <1>8. CASE PostAdds(p)
    <2> DEFINE e == [sub |-> post[p].sub, sigCheck |-> post[p].verdict]
               t == [post[p] EXCEPT !.pc = "accepted", !.duplicate = Pooled(post[p].sub.order)]
    <2>1. e \in EntryType /\ Hash(e) = post[p].sub.order
      BY <1>1, <1>8 DEF PostAdds, EntryType, PostType, Hash
    <2>2. /\ t \in PostType /\ t.pc = "accepted" /\ t.sub = post[p].sub
          /\ t.duplicate = Pooled(post[p].sub.order)
      BY <1>1 DEF PostType, Pooled
    <2>3. post' = [post EXCEPT ![p] = t] /\ Add(e) /\ UNCHANGED <<clock, get>>
      BY <1>1, <1>8 DEF PostAdds
    <2> HIDE DEF t, e
    <2>4. /\ pool' \in Seq(EntryType) /\ OneEach'
          /\ \A o \in Orders : Pooled(o) => Pooled(o)'
          /\ Held(pool', Hash(e))
      BY <2>1, <2>3, AddStep
    <2>5. Held(pool', t.sub.order)
      BY <2>1, <2>2, <2>4
    <2>6. ~t.duplicate => ~Pooled(t.sub.order)
      BY <2>2
    <2>. QED
      BY <2>2, <2>3, <2>4, <2>5, <2>6, PostStep
  <1>. QED
    BY <1>3, <1>4, <1>5, <1>6, <1>7, <1>8

(* What a poll is answered: entries of the pool, no more than the limit. *)
LEMMA QueryIs ==
  ASSUME RelayInv, NEW now, NEW taker
  PROVE  Query(now, taker) \in Seq(EntryType) /\ Len(Query(now, taker)) <= Limit
  <1> DEFINE live == LiveEntries(pool, now)
             A == {e \in ToSet(pool) : Visible(e, taker)}
             seen == Keep(live, A)
  <1>1. live \in Seq(EntryType)
    BY LiveIs DEF RelayInv, Typed
  <1> HIDE DEF live, A
  <1>2. seen \in Seq(EntryType)
    BY <1>1, KeepElements
  <1>3. Limit \in Nat \ {0}
    BY RelayAssumption
  <1>4. Query(now, taker) = IF Len(seen) <= Limit THEN seen ELSE SubSeq(seen, 1, Limit)
    BY DEF Query, FirstSeen, AtMost, live, A
  <1> HIDE DEF seen
  <1>5. CASE Len(seen) <= Limit
    BY <1>2, <1>4, <1>5
  <1>6. CASE ~(Len(seen) <= Limit)
    <2>1. SubSeq(seen, 1, Limit) \in Seq(EntryType) /\ Len(SubSeq(seen, 1, Limit)) = Limit
      BY <1>2, <1>3, <1>6
    <2>. QED
      BY <1>3, <1>4, <1>6, <2>1
  <1>. QED
    BY <1>5, <1>6

(* The steps of GET /orders, GET /health and the clock. *)
LEMMA OtherSteps ==
  ASSUME RelayInv,
         \/ \E g \in Gets : \/ \E t \in Takers \union {Anyone} : GetArrives(g, t)
                            \/ GetServes(g)
         \/ Health \/ Tick
  PROVE  RelayInv'
  <1>1. /\ clock \in 0 .. MaxClock /\ MaxClock \in Nat /\ get \in [Gets -> GetType]
        /\ \A g \in Gets : Len(get[g].answer) <= Limit /\ get[g].now <= clock
    BY RelayAssumption DEF RelayInv, Typed
  <1>2. ASSUME NEW g \in Gets, NEW t \in Takers \union {Anyone}, GetArrives(g, t)
        PROVE  RelayInv'
    <2>1. /\ get' \in [Gets -> GetType] /\ get'[g].now = clock /\ get'[g].answer = get[g].answer
          /\ \A h \in Gets : h # g => get'[h] = get[h]
      BY <1>1, <1>2 DEF GetArrives, GetType
    <2>2. \A h \in Gets : Len(get'[h].answer) <= Limit /\ get'[h].now <= clock
      BY <1>1, <2>1
    <2>. QED
      BY <1>1, <1>2, <2>1, <2>2, OtherStep DEF GetArrives
  <1>3. ASSUME NEW g \in Gets, GetServes(g)
        PROVE  RelayInv'
    <2> DEFINE answer == Query(get[g].now, get[g].taker)
    <2>1. answer \in Seq(EntryType) /\ Len(answer) <= Limit
      BY QueryIs
    <2>2. /\ get' = [get EXCEPT ![g] = [get[g] EXCEPT !.pc = "served", !.answer = answer]]
          /\ UNCHANGED <<clock, pool, post>>
      BY <1>3 DEF GetServes
    <2> HIDE DEF answer
    <2>3. /\ get' \in [Gets -> GetType] /\ get'[g].now = get[g].now /\ get'[g].answer = answer
          /\ \A h \in Gets : h # g => get'[h] = get[h]
      BY <1>1, <2>1, <2>2 DEF GetType
    <2>4. \A h \in Gets : Len(get'[h].answer) <= Limit /\ get'[h].now <= clock
      BY <1>1, <2>1, <2>3
    <2>. QED
      BY <1>1, <2>2, <2>3, <2>4, OtherStep
  <1>4. CASE Health
    BY <1>1, <1>4, OtherStep DEF Health
  <1>5. CASE Tick
    <2>1. clock' \in 0 .. MaxClock /\ clock <= clock'
      BY <1>1, <1>5 DEF Tick
    <2>2. \A g \in Gets : get[g].now \in Nat
      BY <1>1 DEF GetType
    <2>3. \A g \in Gets : Len(get'[g].answer) <= Limit /\ get'[g].now <= clock'
      BY <1>1, <1>5, <2>1, <2>2 DEF Tick
    <2>. QED
      BY <1>1, <1>5, <2>1, <2>3, OtherStep DEF Tick
  <1>. QED
    BY <1>2, <1>3, <1>4, <1>5

(* A filtered list is no longer than the count of what passes, here twice filtered. *)
LEMMA KeptTwiceFits ==
  ASSUME NEW S, NEW s \in Seq(S), NEW A, NEW B
  PROVE  Len(Keep(Keep(s, A), B)) <= Cardinality({i \in DOMAIN s : s[i] \in B})
  <1> DEFINE k == Keep(s, A)
             m == Keep(k, B)
             T == {i \in DOMAIN s : s[i] \in B}
  <1>1. k \in Seq(S) /\ \E pos : Embeds(pos, k, s, Len(s), A)
    BY KeepEmbeds
  <1> HIDE DEF k
  <1>2. m \in Seq(S) /\ \E pos : Embeds(pos, m, k, Len(k), B)
    BY <1>1, KeepEmbeds
  <1> HIDE DEF m
  <1>3. PICK f : Embeds(f, k, s, Len(s), A)
    BY <1>1
  <1>4. PICK g : Embeds(g, m, k, Len(k), B)
    BY <1>2
  <1> DEFINE h == [j \in 1 .. Len(m) |-> f[g[j]]]
  <1>5. \A j \in 1 .. Len(m) :
          /\ g[j] \in 1 .. Len(k) /\ f[g[j]] \in 1 .. Len(s)
          /\ s[f[g[j]]] = k[g[j]] /\ k[g[j]] \in B
    BY <1>3, <1>4 DEF Embeds
  <1>6. h \in [1 .. Len(m) -> T]
    BY <1>5
  <1>7. \A i, j \in 1 .. Len(m) : i < j => h[i] # h[j]
    <2> SUFFICES ASSUME NEW i \in 1 .. Len(m), NEW j \in 1 .. Len(m), i < j
                 PROVE  h[i] # h[j]
      OBVIOUS
    <2>1. g[i] < g[j]
      BY <1>4 DEF Embeds
    <2>2. f[g[i]] < f[g[j]]
      BY <1>3, <1>5, <2>1 DEF Embeds
    <2>. QED
      BY <1>5, <2>2
  <1>8. h \in Injection(1 .. Len(m), T)
    <2>1. \A i, j \in 1 .. Len(m) : h[i] = h[j] => i = j
      BY <1>2, <1>7
    <2> HIDE DEF h
    <2>2. DOMAIN h = 1 .. Len(m)
      BY <1>6
    <2>. QED
      BY <1>6, <2>1, <2>2 DEF Injection, IsInjective
  <1>9. IsFiniteSet(T)
    <2>1. IsFiniteSet(1 .. Len(s)) /\ T \subseteq 1 .. Len(s)
      BY FS_Interval
    <2>. QED
      BY <2>1, FS_Subset
  <1>10. Cardinality(1 .. Len(m)) = Len(m)
    <2>1. 1 \in Int /\ Len(m) \in Int
      BY <1>2
    <2>2. Cardinality(1 .. Len(m)) = IF 1 > Len(m) THEN 0 ELSE Len(m) - 1 + 1
      BY <2>1, FS_Interval
    <2>. QED
      BY <1>2, <2>2
  <1> HIDE DEF T, h
  <1>11. Cardinality(1 .. Len(m)) <= Cardinality(T)
    BY <1>8, <1>9, FS_Injection
  <1>. QED
    BY <1>10, <1>11 DEF T, m, k

(* The relay starts with an empty pool and no request. *)
LEMMA RelayStarts == Init => RelayInv
  <1> SUFFICES ASSUME Init PROVE RelayInv
    OBVIOUS
  <1>1. Typed
    <2>1. 0 \in 0 .. MaxClock /\ 0 <= Limit /\ Len(<<>>) = 0 /\ <<>> \in Seq(EntryType)
      BY RelayAssumption
    <2>. QED
      BY <2>1, NoPostIs DEF Init, Typed, GetType
  <1>2. OneEach
    BY DEF Init, OneEach
  <1>3. AcceptedStaysPooled /\ AcceptedOnce
    BY NoPostIs DEF Init, AcceptedStaysPooled, AcceptedOnce, FirstAccept
  <1>. QED
    BY <1>1, <1>2, <1>3 DEF RelayInv

(* Every step of a request thread, and the clock, keeps the invariant. *)
LEMMA RelayStep == RelayInv /\ [Next]_vars => RelayInv'
  <1> SUFFICES ASSUME RelayInv, [Next]_vars PROVE RelayInv'
    OBVIOUS
  <1>1. CASE UNCHANGED vars
    <2>1. /\ clock' \in 0 .. MaxClock /\ clock <= clock' /\ get' \in [Gets -> GetType]
          /\ \A g \in Gets : Len(get'[g].answer) <= Limit /\ get'[g].now <= clock'
      BY <1>1 DEF vars, RelayInv, Typed
    <2>. QED
      BY <1>1, <2>1, OtherStep DEF vars
  <1>2. CASE Next
    BY <1>2, PostSteps, OtherSteps DEF Next
  <1>. QED
    BY <1>1, <1>2

(* Whatever the threads of the server interleave: the types, one entry an order and every *)
(* 200 kept until the deadline.                                                         *)
THEOREM RelayInvariant == Spec => []RelayInv
  BY RelayStarts, RelayStep, PTL DEF Spec

(* The types, and that no answer holds more than the limit. *)
THEOREM RelayTypeCorrect == Spec => []TypeOK
  <1>1. RelayInv => TypeOK
    BY DEF RelayInv, Typed, TypeOK, PostType, GetType
  <1>. QED
    BY <1>1, RelayInvariant, PTL

(* What got its 200 is in the pool up to and including its deadline second. *)
THEOREM AcceptedStays == Spec => []AcceptedStaysPooled
  <1>1. RelayInv => AcceptedStaysPooled
    BY DEF RelayInv
  <1>. QED
    BY <1>1, RelayInvariant, PTL

(* P5: an order is newly accepted once before its deadline, however its POSTs race. *)
THEOREM AcceptedOnlyOnce == Spec => []AcceptedOnce
  <1>1. RelayInv => AcceptedOnce
    BY DEF RelayInv
  <1>. QED
    BY <1>1, RelayInvariant, PTL

(* A live entry is neither exchanged nor pushed further from the head of the list. *)
LEMMA StepKeepsPlace ==
  ASSUME RelayInv, [Next]_vars
  PROVE  \A i \in DOMAIN pool :
           clock' <= Deadline[Hash(pool[i])] =>
             \E j \in 1 .. i : j \in DOMAIN pool' /\ pool'[j] = pool[i]
  <1> SUFFICES ASSUME NEW i \in DOMAIN pool, clock' <= Deadline[Hash(pool[i])]
               PROVE  \E j \in 1 .. i : j \in DOMAIN pool' /\ pool'[j] = pool[i]
    OBVIOUS
  <1>1. /\ pool \in Seq(EntryType) /\ DOMAIN pool = 1 .. Len(pool) /\ i \in 1 .. i
        /\ post \in [Posts -> PostType]
    BY DEF RelayInv, Typed
  <1>2. CASE UNCHANGED pool
    BY <1>1, <1>2
  <1>3. CASE pool' = LiveEntries(pool, clock) /\ UNCHANGED clock
    <2>1. PICK j \in 1 .. i : j \in 1 .. Len(pool') /\ pool'[j] = pool[i]
      BY <1>1, <1>3, PruneStep
    <2>2. DOMAIN pool' = 1 .. Len(pool')
      BY <1>3, PruneStep
    <2>. QED
      BY <2>1, <2>2
  <1>4. ASSUME NEW p \in Posts, PostAdds(p)
        PROVE  \E j \in 1 .. i : j \in DOMAIN pool' /\ pool'[j] = pool[i]
    <2>1. pool' = pool \/ \E e : pool' = Append(pool, e)
      BY <1>4 DEF PostAdds, Add
    <2>. QED
      BY <1>1, <2>1
  <1>5. CASE Next
    BY <1>2, <1>3, <1>4, <1>5 DEF Next, PostArrives, PostMalformed, PostLooksUp, PostRejected,
       PostValid, GetArrives, GetServes, Health, Tick
  <1>. QED
    BY <1>2, <1>5 DEF vars

(* No starvation at the limit: newer orders never overtake an older one. *)
THEOREM PlaceIsKept == Spec => KeepsItsPlace
  <1>1. RelayInv /\ [Next]_vars =>
          [\A i \in DOMAIN pool :
             clock' <= Deadline[Hash(pool[i])] =>
               \E j \in 1 .. i : j \in DOMAIN pool' /\ pool'[j] = pool[i]]_vars
    BY StepKeepsPlace
  <1>. QED
    BY <1>1, RelayInvariant, PTL DEF Spec, KeepsItsPlace

(* A poll that is served returns every live order its taker may fill, below the limit. *)
LEMMA ServedFinds ==
  ASSUME RelayInv, NEW g \in Gets, NEW i \in 1 .. Len(pool),
         get[g].now <= Deadline[Hash(pool[i])], Visible(pool[i], get[g].taker),
         CountVisible(get[g].taker) <= Limit, NEW answer, answer = Query(get[g].now, get[g].taker)
  PROVE  \E j \in DOMAIN answer : answer[j] = pool[i]
  <1> DEFINE live == LiveEntries(pool, get[g].now)
             A == {e \in ToSet(pool) : get[g].now <= Deadline[Hash(e)]}
             B == {e \in ToSet(pool) : Visible(e, get[g].taker)}
             seen == Keep(live, B)
  <1>1. pool \in Seq(EntryType) /\ DOMAIN pool = 1 .. Len(pool)
    BY DEF RelayInv, Typed
  <1>2. live = Keep(pool, A)
    BY DEF LiveEntries
  <1>3. live \in Seq(EntryType) /\ \E j \in 1 .. Len(live) : live[j] = pool[i]
    <2>1. live \in Seq(EntryType)
      BY <1>1, LiveIs
    <2>2. PICK j \in 1 .. i : /\ j \in 1 .. Len(LiveEntries(pool, get[g].now))
                              /\ LiveEntries(pool, get[g].now)[j] = pool[i]
      BY <1>1, LiveIs
    <2>. QED
      BY <2>1, <2>2
  <1>4. pool[i] \in B
    BY <1>1 DEF ToSet
  <1>5. {j \in DOMAIN pool : pool[j] \in B} = {j \in DOMAIN pool : Visible(pool[j], get[g].taker)}
    BY DEF ToSet
  <1>6. answer = IF Len(seen) <= Limit THEN seen ELSE SubSeq(seen, 1, Limit)
    BY DEF Query, FirstSeen, AtMost
  <1> HIDE DEF live, A, B
  <1>7. Len(seen) <= Cardinality({j \in DOMAIN pool : pool[j] \in B})
    BY <1>1, <1>2, KeptTwiceFits
  <1>8. Len(seen) <= CountVisible(get[g].taker)
    BY <1>5, <1>7 DEF CountVisible
  <1>9. /\ seen \in Seq(EntryType)
        /\ \A n \in 1 .. Len(live) :
             live[n] \in B => \E j \in 1 .. n : j <= Len(seen) /\ seen[j] = live[n]
    BY <1>3, KeepElements
  <1> HIDE DEF seen
  <1>10. PICK j : j \in 1 .. Len(seen) /\ seen[j] = pool[i]
    <2>1. PICK n \in 1 .. Len(live) : live[n] = pool[i]
      BY <1>3
    <2>2. PICK j \in 1 .. n : j <= Len(seen) /\ seen[j] = live[n]
      BY <1>4, <1>9, <2>1
    <2>3. j \in 1 .. Len(seen)
      BY <1>3, <1>9, <2>1, <2>2
    <2>. QED
      BY <2>1, <2>2, <2>3
  <1>11. Len(seen) <= Limit
    <2>1. Len(seen) \in Nat /\ Limit \in Nat
      BY <1>9, RelayAssumption
    <2>2. CountVisible(get[g].taker) \in Nat
      <3>1. IsFiniteSet(1 .. Len(pool))
        BY <1>1, FS_Interval
      <3>2. IsFiniteSet({k \in DOMAIN pool : Visible(pool[k], get[g].taker)})
        BY <1>1, <3>1, FS_Subset
      <3>. QED
        BY <3>2, FS_CardinalityType DEF CountVisible
    <2>. QED
      BY <1>8, <2>1, <2>2
  <1>. QED
    BY <1>6, <1>9, <1>10, <1>11

(* The step of a poll is GetServes, and no other step touches what it holds. *)
LEMMA StepServes ==
  ASSUME RelayInv, [Next]_vars, NEW g \in Gets, NEW p \in Posts,
         get[g].pc = "serving", get'[g].pc = "served",
         post[p].pc = "accepted", clock <= Deadline[post[p].sub.order],
         TakerOf[post[p].sub.order] \in {Anyone, get[g].taker},
         CountVisible(get[g].taker) <= Limit
  PROVE  \E i \in DOMAIN get'[g].answer : Hash(get'[g].answer[i]) = post[p].sub.order
  <1>1. /\ get \in [Gets -> GetType] /\ get[g].now <= clock /\ clock \in Nat /\ get[g].now \in Nat
        /\ pool \in Seq(EntryType) /\ DOMAIN pool = 1 .. Len(pool)
    BY RelayAssumption DEF RelayInv, Typed, GetType
  <1>2. GetServes(g)
    <2>1. ~ UNCHANGED get
      OBVIOUS
    <2>2. \A h \in Gets, t \in Takers \union {Anyone} : ~GetArrives(h, t)
      <3> SUFFICES ASSUME NEW h \in Gets, NEW t \in Takers \union {Anyone}, GetArrives(h, t)
                   PROVE  FALSE
        OBVIOUS
      <3>1. CASE h = g
        BY <1>1, <3>1 DEF GetArrives
      <3>2. CASE h # g
        BY <1>1, <3>2 DEF GetArrives
      <3>. QED
        BY <3>1, <3>2
    <2>3. \A h \in Gets : GetServes(h) => h = g
      BY <1>1 DEF GetServes
    <2>. QED
      BY <2>1, <2>2, <2>3 DEF Next, vars, PostArrives, PostMalformed, PostLooksUp, PostRejected,
         PostValid, PostAdds, Health, Tick
  <1>3. get'[g].answer = Query(get[g].now, get[g].taker)
    BY <1>1, <1>2 DEF GetServes, GetType
  <1>4. PICK i \in 1 .. Len(pool) : Hash(pool[i]) = post[p].sub.order
    BY <1>1 DEF RelayInv, AcceptedStaysPooled, Pooled
  <1>5. get[g].now <= Deadline[Hash(pool[i])] /\ Visible(pool[i], get[g].taker)
    <2>1. Deadline[post[p].sub.order] \in Nat
      BY RelayAssumption DEF RelayInv, Typed, PostType
    <2>. QED
      BY <1>1, <1>4, <2>1 DEF Visible
  <1>6. \E j \in DOMAIN get'[g].answer : get'[g].answer[j] = pool[i]
    BY <1>3, <1>5, ServedFinds
  <1>. QED
    BY <1>4, <1>6 DEF Hash

(* Rendezvous: a poll serves what was accepted, is live and is for its taker. *)
THEOREM AcceptedIsFound == Spec => AcceptedIsServed
  <1>1. RelayInv /\ [Next]_vars =>
          [\A g \in Gets, p \in Posts :
             LET o == post[p].sub.order IN
             ( /\ get[g].pc = "serving" /\ get'[g].pc = "served"
               /\ post[p].pc = "accepted" /\ clock <= Deadline[o]
               /\ TakerOf[o] \in {Anyone, get[g].taker}
               /\ CountVisible(get[g].taker) <= Limit )
             => \E i \in DOMAIN get'[g].answer : Hash(get'[g].answer[i]) = o]_vars
    BY StepServes
  <1>. QED
    BY <1>1, RelayInvariant, PTL DEF Spec, AcceptedIsServed
================================================================================
