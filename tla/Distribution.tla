------------------------------ MODULE Distribution ------------------------------
(***************************************************************************)
(* Makers, relays and one executor together: makers sign copies of orders  *)
(* and post them, honest relays (relay.py) pool what their predicate       *)
(* accepts and serve it, lying relays answer whatever they like, and the   *)
(* executor polls them all.  Posts are lost, repeated and delayed; a relay *)
(* that restarts forgets its pool.  RelayPool shows what the threads of a  *)
(* relay do to each other; here each of its requests is one step.          *)
(***************************************************************************)
EXTENDS Executor, Filter

CONSTANTS
  Honest,  \* the relays that run relay.py; Answers is what the others may say
  Limit    \* the entries a relay returns when it is asked for no number: 200

ASSUME DistributionAssumption == Honest \subseteq 1 .. RelayCount /\ Limit \in Nat \ {0}

VARIABLES
  signed,  \* the copies their makers signed
  pool     \* pool[r]: the copies an honest relay holds, oldest first

network == <<signed, pool>>
all == <<vars, network>>

Genuine == {s \in Submissions : s.kind # "junk"}
Junk == Submissions \ Genuine   \* anybody can make these
\* prune, before every request
Live(r) == Keep(pool[r], {s \in Submissions : clock <= Deadline[s.order]})
Pooled(r, o) == \E i \in DOMAIN pool[r] : pool[r][i].order = o
-------------------------------------------------------------------------------
(* The makers and their relays *)

Sign(s) ==
  /\ s \in Genuine \ signed
  /\ signed' = signed \union {s}
  /\ UNCHANGED <<vars, pool>>

PostUnchecked(r, s) ==                                             \* mutant
  /\ s \in signed \union Junk /\ s.order \notin Wide
  /\ clock <= Deadline[s.order] /\ FillWindow[s.order] <= Deadline[s.order]
  /\ Len(pool[r]) < 4
  /\ pool' = [pool EXCEPT ![r] = Append(@, s)]
  /\ UNCHANGED <<vars, signed>>

\* POST /order by anybody, at any time: a first post, a repeated or a late one.  P2 and
\* P3 are certain; P1 defers what it cannot check while the RPC is down, and P1, P6 and
\* P7 may refuse, which is a post that was lost.
Post(r, s) ==
  /\ s \in signed \union Junk /\ s.order \notin Wide /\ ~Pooled(r, s.order)
  /\ clock <= Deadline[s.order] /\ FillWindow[s.order] <= Deadline[s.order]
  /\ pool' = [pool EXCEPT ![r] = Append(Live(r), s)]
  /\ UNCHANGED <<vars, signed>>

RestartRelay(r) ==
  /\ pool[r] # <<>>
  /\ pool' = [pool EXCEPT ![r] = <<>>]
  /\ UNCHANGED <<vars, signed>>

\* GET /orders without a taker and without a limit: the oldest of the open orders.
Serve(r) == AtMost(Keep(Live(r), {s \in Submissions : TakerOf[s.order] = Open}), Limit)

PollHonest(r) ==
  /\ r = round.relay /\ r \in Honest
  /\ PollAnswers(Serve(r))
  /\ pool' = [pool EXCEPT ![r] = Live(r)]
  /\ UNCHANGED signed

\* A relay cannot forge: what it serves as signed was signed.
PollLying(r, answer) ==
  /\ r = round.relay /\ r \notin Honest
  /\ ToSet(answer) \subseteq signed \union Junk \union {Malformed}
  /\ PollAnswers(answer)
  /\ UNCHANGED network

\* An honest relay always answers an object with a list, if it answers.
PollBroken == round.relay \notin Honest /\ PollBreaks /\ UNCHANGED network
-------------------------------------------------------------------------------
Round ==
  \/ PollSkips /\ UNCHANGED network
  \/ PollBroken
  \/ PollEnds /\ UNCHANGED network
  \/ \E r \in 1 .. RelayCount : \/ PollHonest(r)
                                \/ \E answer \in Answers[r] : PollLying(r, answer)
  \/ (Judge \/ Sent \/ SendFails \/ End) /\ UNCHANGED network

Start == Begin /\ UNCHANGED network
Settles == Mine /\ UNCHANGED network

World ==
  \/ \E s \in Submissions : Sign(s)
  \/ \E r \in Honest : RestartRelay(r) \/ \E s \in Submissions : Post(r, s)
  \/ \E s \in signed \intersect Contested : Rival(s) /\ UNCHANGED network
  \/ \E o \in Revocable : Drain(o) /\ UNCHANGED network
  \/ Tick /\ UNCHANGED network

DistInit ==
  /\ Init /\ submit
  /\ signed = {} /\ pool = [r \in Honest |-> <<>>]

DistNext == Start \/ Round \/ Settles \/ World

\* The operator calls run_once again and again and a round goes on; transactions are
\* mined.
\* What a network may refuse now and then it grants again and again: an honest relay's
\* answer, the RPC calls that approve some copy, and those that send one.  No maker, rival,
\* relay or clock has to do anything.
Fairness ==
  /\ WF_all(Start) /\ WF_all(Round) /\ WF_all(Settles)
  /\ \A r \in Honest : SF_all(PollHonest(r))
  /\ SF_all(Approve /\ UNCHANGED network) /\ SF_all(Sent /\ UNCHANGED network)

DistSpec == DistInit /\ [][DistNext]_all /\ Fairness
-------------------------------------------------------------------------------
(* Properties *)

\* Types, and the pools: an honest relay never holds a live order twice, whatever is
\* posted to it how often.
DistTypeOK ==
  /\ TypeOK /\ signed \subseteq Genuine
  /\ pool \in [Honest -> Seq(signed \union Junk)]
  /\ \A r \in Honest : \A i, j \in DOMAIN pool[r] : pool[r][i].order = pool[r][j].order => i = j

\* "A relay can only omit or delay" (executor.py:17), for what the executor spends:
\* with the relays, rounds and transactions left out, whatever they did, the executor
\* took signed offers that were meant for it, in time and worth it, each nonce once.
Offered == INSTANCE Offers WITH
  Mine <- {o \in Orders : TakerGuard(o)},
  Value <- [o \in Orders |-> SellValue[o] + TipValue[o]]
RelaysOnlyOmit == Offered!Spec

\* Rendezvous: an offer an honest relay serves and the executor could take does not
\* stay so for ever, if no other copy of it is about and rounds are not broken for ever
\* by an answer that is no list.  Served is less than pooled: an offer behind Limit older
\* ones, which anybody may post, is not seen before they expire.
Alone(s) == \A t \in signed \union Junk : t.order = s.order => t = s
Takeable(r, s) ==
  LET o == s.order IN
  /\ Contains(Serve(r), s) /\ Alone(s)
  /\ clock + Margin <= Deadline[o] /\ o \in Priced /\ Profitable(o)
  /\ Settleable(s)
===============================================================================
