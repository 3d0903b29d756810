------------------------------- MODULE RelayPool -------------------------------
(***************************************************************************)
(* A relay (src/distribution/relay.py): the order pool and the threads of  *)
(* the HTTP server that work on it.  POST /order looks the order up, then  *)
(* evaluates the predicate P1-P7 without the pool's lock (an RPC may take  *)
(* seconds), then adds it.  GET /orders prunes and serves.  Each thread    *)
(* keeps the time it read when its request arrived.                        *)
(*                                                                         *)
(* A submission is an order with one nonce and signature: the pool knows   *)
(* it by its order alone (orderHash covers neither nonce nor signature).   *)
(***************************************************************************)
EXTENDS Filter, Predicate, SequencesExt

CONSTANTS
  Posts, Gets,   \* request threads, one request each
  Orders,        \* order hashes
  Submissions,   \* [order, kind]: what clients post
  Takers,        \* takers a poll may name
  Anyone,        \* address(0): an open order's taker, a poll naming none
  TakerOf,       \* the order's taker
  FillWindow, Deadline, \* the order's times
  Wide,          \* the orders whose sellAmount + maxTip is no uint256, though each amount is
  Limit,         \* the most entries one poll returns
  MaxClock       \* bound on the clock

ASSUME RelayAssumption ==
  /\ Submissions \subseteq [order : Orders, kind : Kinds] /\ Submissions # {}
  /\ TakerOf \in [Orders -> Takers \union {Anyone}] /\ Anyone \notin Takers
  /\ Wide \subseteq Orders
  /\ FillWindow \in [Orders -> Nat] /\ Deadline \in [Orders -> Nat]
  /\ Limit \in Nat \ {0} /\ MaxClock \in Nat

VARIABLES
  clock,
  pool,    \* entries [sub, sigCheck], oldest first
  post,    \* the POST threads: pc, submission, now, verdict, duplicate
  get      \* the GET threads: pc, taker, now and, when served, the answer

vars == <<clock, pool, post, get>>

Hash(entry) == entry.sub.order
Pooled(o) == \E i \in DOMAIN pool : Hash(pool[i]) = o
-------------------------------------------------------------------------------
(* The validity predicate, with the thread's now *)

Results(s, now) == Evaluations(s.kind, FillWindow[s.order], Deadline[s.order], now)
-------------------------------------------------------------------------------
(* Pool *)

LiveLastSecondDropped(entries, now) ==                             \* mutant
  Keep(entries, {e \in ToSet(entries) : now < Deadline[Hash(e)]})
LiveEntries(entries, now) ==
  Keep(entries, {e \in ToSet(entries) : now <= Deadline[Hash(e)]})

AddUnchecked(entry) == pool' = Append(pool, entry)                 \* mutant
AddReplacing(entry) ==                                             \* mutant
  pool' = Append(Keep(pool, {e \in ToSet(pool) : Hash(e) # Hash(entry)}), entry)
Add(entry) == pool' = IF Pooled(Hash(entry)) THEN pool ELSE Append(pool, entry)

VisibleAddressed(e, taker) == TakerOf[Hash(e)] = taker             \* mutant
Visible(e, taker) == TakerOf[Hash(e)] \in {Anyone, taker}

FirstSeen(now, taker, most) ==
  AtMost(Keep(LiveEntries(pool, now), {e \in ToSet(pool) : Visible(e, taker)}), most)
QueryOneMore(now, taker) == FirstSeen(now, taker, Limit + 1)       \* mutant
Query(now, taker) == FirstSeen(now, taker, Limit)
-------------------------------------------------------------------------------
(* POST /order *)

\* A thread that holds no submission.
NoPost == [pc |-> "idle", sub |-> CHOOSE s \in Submissions : TRUE, now |-> 0,
           verdict |-> "deferred", duplicate |-> FALSE]

\* The request is read: the thread takes the time and prunes.
PostArrives(p, s) ==
  /\ post[p].pc = "idle"
  /\ pool' = LiveEntries(pool, clock)
  /\ post' = [post EXCEPT ![p] = [@ EXCEPT !.pc = "looking", !.sub = s, !.now = clock]]
  /\ UNCHANGED <<clock, get>>

\* P4: what parse_signed_order refuses, a missing or an unknown field, an address or a
\* number of another form or size, an empty signature, is answered 422 at once.
PostMalformed(p) ==
  /\ post[p].pc = "idle"
  /\ pool' = LiveEntries(pool, clock)
  /\ post' = [post EXCEPT ![p].pc = "rejected"]
  /\ UNCHANGED <<clock, get>>

\* The lookup that answers a duplicate at once, whatever its signature.
PostLooksUp(p) ==
  /\ post[p].pc = "looking"
  /\ post' = [post EXCEPT ![p] = IF Pooled(@.sub.order)
                                 THEN [@ EXCEPT !.pc = "accepted", !.duplicate = TRUE]
                                 ELSE [@ EXCEPT !.pc = "evaluating"]]
  /\ UNCHANGED <<clock, pool, get>>

\* The predicate fails: 422; or the digest cannot be computed, and the thread dies.
PostRejected(p) ==
  /\ post[p].pc = "evaluating"
  /\ "refused" \in Results(post[p].sub, post[p].now) \/ post[p].sub.order \in Wide
  /\ post' = [post EXCEPT ![p] = [NoPost EXCEPT !.pc = "rejected"]]
  /\ UNCHANGED <<clock, pool, get>>

PostValid(p) ==
  /\ post[p].pc = "evaluating"
  /\ post[p].sub.order \notin Wide
  /\ \E verdict \in Results(post[p].sub, post[p].now) \ {"refused"} :
       post' = [post EXCEPT ![p].pc = "adding", ![p].verdict = verdict]
  /\ UNCHANGED <<clock, pool, get>>

\* Pool.add under the lock: another thread may have been first.
PostAdds(p) ==
  /\ post[p].pc = "adding"
  /\ Add([sub |-> post[p].sub, sigCheck |-> post[p].verdict])
  /\ post' = [post EXCEPT ![p].pc = "accepted",
                          ![p].duplicate = Pooled(post[p].sub.order)]
  /\ UNCHANGED <<clock, get>>
-------------------------------------------------------------------------------
(* GET /orders *)

GetArrives(g, taker) ==
  /\ get[g].pc = "idle"
  /\ pool' = LiveEntries(pool, clock)
  /\ get' = [get EXCEPT ![g] = [@ EXCEPT !.pc = "serving", !.taker = taker, !.now = clock]]
  /\ UNCHANGED <<clock, post>>

GetServes(g) ==
  /\ get[g].pc = "serving"
  /\ get' = [get EXCEPT ![g] = [@ EXCEPT !.pc = "served",
                                         !.answer = Query(get[g].now, get[g].taker)]]
  /\ UNCHANGED <<clock, pool, post>>

\* GET /health prunes too.
Health == pool' = LiveEntries(pool, clock) /\ UNCHANGED <<clock, post, get>>

Tick ==
  /\ clock < MaxClock
  /\ clock' = clock + 1
  /\ UNCHANGED <<pool, post, get>>

Init ==
  /\ clock = 0 /\ pool = <<>>
  /\ post = [p \in Posts |-> NoPost]
  /\ get = [g \in Gets |-> [pc |-> "idle", taker |-> Anyone, now |-> 0, answer |-> <<>>]]

Next ==
  \/ \E p \in Posts : \/ \E s \in Submissions : PostArrives(p, s)
                      \/ PostMalformed(p) \/ PostLooksUp(p) \/ PostRejected(p)
                      \/ PostValid(p) \/ PostAdds(p)
  \/ \E g \in Gets : \/ \E t \in Takers \union {Anyone} : GetArrives(g, t)
                     \/ GetServes(g)
  \/ Health
  \/ Tick

Spec == Init /\ [][Next]_vars
-------------------------------------------------------------------------------
(* Properties *)

EntryType == [sub : Submissions, sigCheck : Checks]

\* Types, and what the server may say: an entry or an answer is always of a
\* submission somebody made, with one of the three declared checks, and an answer
\* holds at most Limit of them.
TypeOK ==
  /\ clock \in 0 .. MaxClock
  /\ pool \in Seq(EntryType)
  /\ post \in [Posts -> [pc : {"idle", "looking", "evaluating", "adding", "accepted", "rejected"},
                         sub : Submissions, now : 0 .. MaxClock, verdict : Checks,
                         duplicate : BOOLEAN]]
  /\ get \in [Gets -> [pc : {"idle", "serving", "served"}, taker : Takers \union {Anyone},
                       now : 0 .. MaxClock, answer : Seq(EntryType)]]
  /\ \A g \in Gets : Len(get[g].answer) <= Limit

\* An accelerator, not a gatekeeper: once any POST of an order got its 200, the order
\* is in the pool up to and including its deadline second, whatever other threads,
\* holding other times, prune or add.
AcceptedStaysPooled ==
  \A p \in Posts : post[p].pc = "accepted" /\ clock <= Deadline[post[p].sub.order]
                     => Pooled(post[p].sub.order)

\* P5: before its deadline an order is newly accepted at most once, however its
\* POSTs interleave, and the pool never holds it twice.
FirstAccept(p) == post[p].pc = "accepted" /\ ~post[p].duplicate
AcceptedOnce ==
  /\ \A i, j \in DOMAIN pool : Hash(pool[i]) = Hash(pool[j]) => i = j
  /\ \A p, q \in Posts :
       LET o == post[p].sub.order IN
       FirstAccept(p) /\ FirstAccept(q) /\ post[q].sub.order = o /\ clock <= Deadline[o]
         => p = q

\* Rendezvous: a poll serves every accepted order its taker may fill and that is
\* still live, as long as no more than Limit such orders are live.
CountVisible(t) == Cardinality({i \in DOMAIN pool : Visible(pool[i], t)})
AcceptedIsServed ==
  [][\A g \in Gets, p \in Posts :
       LET o == post[p].sub.order IN
       ( /\ get[g].pc = "serving" /\ get'[g].pc = "served"
         /\ post[p].pc = "accepted" /\ clock <= Deadline[o]
         /\ TakerOf[o] \in {Anyone, get[g].taker}
         /\ CountVisible(get[g].taker) <= Limit )
       => \E i \in DOMAIN get'[g].answer : Hash(get'[g].answer[i]) = o]_vars

\* No discretionary choice and no starvation at the limit: while an order is live, its
\* entry is neither exchanged for another submission of it nor pushed further from the
\* head of the list by newer orders, so polls that return it keep returning it.
KeepsItsPlace ==
  [][\A i \in DOMAIN pool :
       clock' <= Deadline[Hash(pool[i])] => \E j \in 1 .. i : j \in DOMAIN pool' /\ pool'[j] = pool[i]]_vars
===============================================================================
