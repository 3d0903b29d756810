------------------------------- MODULE RfqFanout -------------------------------
(***************************************************************************)
(* One quote request at a relay (src/distribution/relay.py): the webhook   *)
(* of every registered maker is asked by a thread of its own, the handler  *)
(* collects the answers as they complete, judges each (which costs RPC     *)
(* calls) and returns the best; GET /quote falls back to the pool.         *)
(* Orders and POST /rfq/quote speak from the maker's side, GET /quote from *)
(* the taker's: who sells there is who buys here.                          *)
(*                                                                         *)
(* The collection follows concurrent.futures.as_completed: it yields what  *)
(* has completed batch by batch, and raises as soon as it has to wait for  *)
(* more after the end of its time, whatever has completed by then.         *)
(***************************************************************************)
EXTENDS Filter, Predicate, SequencesExt, FiniteSets

CONSTANTS
  Webhooks,   \* the registered makers
  Slow,       \* those whose answers come in pieces: the timeout of the socket bounds each
              \* piece, and nothing bounds how many there are
  Requests,   \* [route, sell, buy]: GET "/quote" or POST "/rfq/quote", amounts or Absent
  Quotes,     \* [sell, buy, fillWindow, deadline, kind, wide]: well-formed answers
  Nothing,    \* a decline, a timeout, an unreadable answer; also: no quote
  Resting,    \* the pool's orders of the pair: [sell, buy, deadline, open], oldest first
  Limit,      \* the most entries pool.query returns when it is given no limit
  Budget,     \* MAKER_SIGN_BUDGET
  Slack,      \* what as_completed waits beyond it
  MaxClock    \* bound on the clock

Absent == -1

ASSUME FanoutAssumption ==
  /\ Slow \subseteq Webhooks
  /\ Nothing \notin Quotes \union ToSet(Resting) \union [sell : Nat, buy : Nat]
  /\ Quotes \subseteq [sell : Nat, buy : Nat, fillWindow : Nat, deadline : Nat, kind : Kinds,
                      wide : BOOLEAN]
  /\ Requests \subseteq [route : {"/quote", "/rfq/quote"}, sell : Nat \union {Absent},
                        buy : Nat \union {Absent}]
  /\ Resting \in Seq([sell : Nat, buy : Nat, deadline : Nat, open : BOOLEAN])
  /\ Limit \in Nat \ {0} /\ Budget \in Nat /\ Slack \in Nat /\ MaxClock \in Nat

VARIABLES
  clock,
  request,    \* the caller's request
  pc,         \* the handler: "idle", "refused", "asking", "collecting", "fallback",
              \* "answered" or "raised"
  asking,     \* the threads that have not come back
  answer,     \* what the others came back with
  arrived,    \* threads completed and not taken by the collection, in order
  batch,      \* the batch the handler works on
  candidates, \* the quotes that passed, in order
  heard,      \* history: the threads whose answers have been judged
  passed,     \* history: those of them whose answers the predicate let pass
  result,     \* the order of the response, or Nothing
  response    \* its amounts, from the caller's side

vars == <<clock, request, pc, asking, answer, arrived, batch, candidates, heard, passed,
          result, response>>
fixed == <<request, response>>
judging == <<candidates, heard, passed>>

Pending == {w \in Webhooks : w \notin heard /\ ~Contains(batch, w)}
EndTime == Budget + Slack
-------------------------------------------------------------------------------
(* The threads that ask, and the clock *)

\* ask: an answer in time, or in pieces at any time.
Answers(w, a) ==
  /\ w \in asking /\ pc \notin {"idle", "refused"}
  /\ asking' = asking \ {w}
  /\ answer' = [answer EXCEPT ![w] = a]
  /\ arrived' = Append(arrived, w)
  /\ UNCHANGED <<clock, pc, batch, judging, result, fixed>>

\* The socket's timeout ends every other thread by then.  The clock stops with the
\* request.
Tick ==
  /\ clock < MaxClock
  /\ clock >= Budget => asking \subseteq Slow
  /\ pc \in {"asking", "collecting", "fallback"}
  /\ clock' = clock + 1
  /\ UNCHANGED <<pc, asking, answer, arrived, batch, judging, result, fixed>>
-------------------------------------------------------------------------------
(* _post_rfq_quote, _get_quote: the request *)

OneAmount(req) == (req.sell = Absent) # (req.buy = Absent)

Receive ==
  /\ pc = "idle"
  /\ pc' = IF OneAmount(request) THEN "asking" ELSE "refused"
  /\ UNCHANGED <<clock, asking, answer, arrived, batch, judging, result, fixed>>

\* maker_view_request: what the webhooks are asked, and what exact_out means.
MakerView == IF request.route = "/quote" THEN [sell |-> request.buy, buy |-> request.sell]
             ELSE [sell |-> request.sell, buy |-> request.buy]
ExactOut == MakerView.sell # Absent

\* taker_view
AsStored(o) == [sell |-> o.sell, buy |-> o.buy]                    \* mutant
CallersView(o) == IF request.route = "/quote" THEN [sell |-> o.buy, buy |-> o.sell]
                  ELSE [sell |-> o.sell, buy |-> o.buy]
Respond == response' = IF result' = Nothing THEN Nothing ELSE CallersView(result')
-------------------------------------------------------------------------------
(* fan_out_to_makers *)

\* What completed before the collection began comes as a set: in any order.
Enter ==
  /\ pc = "asking"
  /\ batch' \in SetToSeqs(ToSet(arrived))
  /\ arrived' = <<>>
  /\ pc' = "collecting"
  /\ UNCHANGED <<clock, asking, answer, judging, result, fixed>>

Take ==
  /\ pc = "collecting" /\ batch = <<>> /\ Pending # {}
  /\ clock <= EndTime /\ arrived # <<>>
  /\ batch' = arrived /\ arrived' = <<>>
  /\ UNCHANGED <<clock, pc, asking, answer, judging, result, fixed>>

\* What becomes of an answer: evaluate's result at the present time.  A decline, a timeout
\* or an unreadable answer is as good as refused.
Results(a) == IF a = Nothing THEN {"refused"}
              ELSE Evaluations(a.kind, a.fillWindow, a.deadline, clock)

Wide(w) == answer[w] # Nothing /\ answer[w].wide
Judging == pc = "collecting" /\ batch # <<>> /\ ~Wide(Head(batch))
Heard == heard' = heard \union {Head(batch)} /\ batch' = Tail(batch)

JudgeKeeps ==
  LET w == Head(batch) IN
  /\ Judging
  /\ Results(answer[w]) \ {"refused"} # {}
  /\ candidates' = Append(candidates, answer[w]) /\ passed' = passed \union {w}
  /\ Heard
  /\ UNCHANGED <<clock, pc, asking, answer, arrived, result, fixed>>

KeepsAnything ==                                                   \* mutant
  /\ Judging
  /\ candidates' = Append(candidates, answer[Head(batch)])
  /\ Heard
  /\ UNCHANGED <<clock, pc, asking, answer, arrived, passed, result, fixed>>

JudgeIgnores ==
  /\ Judging
  /\ "refused" \in Results(answer[Head(batch)])
  /\ Heard
  /\ UNCHANGED <<clock, pc, asking, answer, arrived, candidates, passed, result, fixed>>

\* sellAmount + maxTip is no uint256: the digest raises, outside the try.
JudgeRaises ==
  /\ pc = "collecting" /\ batch # <<>> /\ Wide(Head(batch))
  /\ asking = {}
  /\ pc' = "raised"
  /\ UNCHANGED <<clock, asking, answer, arrived, batch, judging, result, fixed>>

WaitsOn ==                                                         \* mutant
  /\ pc = "collecting" /\ batch = <<>> /\ Pending # {}
  /\ UNCHANGED vars

\* The pool of threads is left only when every thread has ended: so does the raise.
TimesOut ==
  /\ pc = "collecting" /\ batch = <<>> /\ Pending # {}
  /\ clock > EndTime
  /\ asking = {}
  /\ pc' = "raised"
  /\ UNCHANGED <<clock, asking, answer, arrived, batch, judging, result, fixed>>

BetterSwapped(a, b) == IF ExactOut THEN a.sell > b.sell ELSE a.buy < b.buy  \* mutant
Better(a, b) == IF ExactOut THEN a.buy < b.buy ELSE a.sell > b.sell

\* best_quote: the first of the best.
BestQuote ==
  candidates[CHOOSE i \in DOMAIN candidates :
               /\ \A j \in DOMAIN candidates : ~Better(candidates[j], candidates[i])
               /\ \A j \in 1 .. i - 1 : Better(candidates[i], candidates[j])]

Return ==
  /\ pc = "collecting" /\ batch = <<>> /\ Pending = {}
  /\ result' = IF candidates = <<>> THEN Nothing ELSE BestQuote
  /\ pc' = IF result' = Nothing /\ request.route = "/quote" THEN "fallback" ELSE "answered"
  /\ Respond
  /\ UNCHANGED <<clock, request, asking, answer, arrived, batch, judging>>
-------------------------------------------------------------------------------
(* GET /quote's fallback *)

Matches(e) == IF request.buy # Absent THEN e.sell = request.buy ELSE e.buy = request.sell
OpenNow(e) == e.open /\ clock <= e.deadline

\* pool.query cuts the list before anybody looks at the amounts.
Queried == AtMost(Keep(Resting, {e \in ToSet(Resting) : OpenNow(e)}), Limit)

FallsBack ==
  /\ pc = "fallback"
  /\ LET matching == Keep(Queried, {e \in ToSet(Resting) : Matches(e)}) IN
       result' = IF matching = <<>> THEN Nothing ELSE Head(matching)
  /\ pc' = "answered" /\ Respond
  /\ UNCHANGED <<clock, request, asking, answer, arrived, batch, judging>>

Handler == Enter \/ Take \/ JudgeKeeps \/ JudgeIgnores \/ JudgeRaises \/ TimesOut \/ Return \/ FallsBack

Init ==
  /\ clock = 0 /\ pc = "idle" /\ request \in Requests
  /\ asking = Webhooks /\ answer = [w \in Webhooks |-> Nothing]
  /\ arrived = <<>> /\ batch = <<>>
  /\ candidates = <<>> /\ heard = {} /\ passed = {}
  /\ result = Nothing /\ response = Nothing

Next ==
  \/ \E w \in Webhooks, a \in Quotes \union {Nothing} : Answers(w, a)
  \/ Tick
  \/ Receive \/ Handler

\* The handler's thread runs and time passes.  A webhook's thread ends when the maker
\* answers or the socket's timeout ends it; one that gets its answer in pieces need not.
Fairness ==
  /\ WF_vars(Handler) /\ WF_vars(Tick)
  /\ \A w \in Webhooks \ Slow : WF_vars(\E a \in Quotes \union {Nothing} : Answers(w, a))
Spec == Init /\ [][Next]_vars /\ Fairness
-------------------------------------------------------------------------------
(* Properties *)

\* Types: every thread is in one place, and only parsed quotes become candidates.
TypeOK ==
  /\ clock \in 0 .. MaxClock /\ request \in Requests
  /\ pc \in {"idle", "refused", "asking", "collecting", "fallback", "answered", "raised"}
  /\ asking \subseteq Webhooks /\ answer \in [Webhooks -> Quotes \union {Nothing}]
  /\ arrived \in Seq(Webhooks) /\ batch \in Seq(Webhooks)
  /\ ToSet(arrived) \intersect ToSet(batch) = {}
  /\ heard \subseteq Webhooks \ (asking \union ToSet(arrived) \union ToSet(batch))
  /\ passed \subseteq heard
  /\ candidates \in Seq(Quotes)
  /\ result \in Quotes \union ToSet(Resting) \union {Nothing}
  /\ (response = Nothing) = (result = Nothing)

\* "The single best signed Order", as far as it goes: when the handler answers, it has
\* judged every maker's answer, and none that passed its predicate gives the caller, in
\* the caller's own view, more for the amount it fixed, in whatever order they came.
\* (The predicate lets pass what it cannot check, and may refuse whatever is not funded.)
\* What comes from the pool is live, open and for exactly that amount, and "no quote" is
\* said only when no answer passed and no such order is among the first Limit.
AsksTo == IF request.route = "/quote" THEN [pay |-> request.sell, get |-> request.buy]
          ELSE [pay |-> request.buy, get |-> request.sell]
Offered == IF request.route = "/quote" THEN [pay |-> response.sell, get |-> response.buy]
           ELSE [pay |-> response.buy, get |-> response.sell]
Exact(pay, get) == AsksTo.pay \in {Absent, pay} /\ AsksTo.get \in {Absent, get}
Before(i) == {j \in 1 .. i - 1 : OpenNow(Resting[j])}
InReach(i) == OpenNow(Resting[i]) /\ Cardinality(Before(i)) < Limit
BestAccepted ==
  pc = "answered" =>
    /\ heard = Webhooks
    /\ \A w \in passed :
         /\ result \in Quotes
         /\ IF AsksTo.get # Absent THEN Offered.pay <= answer[w].buy
                                   ELSE Offered.get >= answer[w].sell
    /\ result \in Quotes => \E w \in passed : answer[w] = result
    /\ result \in ToSet(Resting) \ Quotes => OpenNow(result) /\ Exact(Offered.pay, Offered.get)
    /\ result = Nothing /\ request.route = "/quote" =>
         \A i \in DOMAIN Resting : InReach(i) => ~Exact(Resting[i].buy, Resting[i].sell)

\* Only a maker can hold the caller, and only one that is answering: a request ends, in
\* an answer or in the exception, unless a webhook trickles for ever.  (Then it hangs: the
\* pool of threads is left when all of them have ended, whatever the budget was.)
AlwaysEnds ==
  \/ pc = "asking" ~> pc \in {"answered", "raised"}
  \/ <>[](asking # {} /\ asking \subseteq Slow)

\* What relay.py says of a maker that is late: it is ignored.  The answers that came
\* in time and passed are not.
LateIsIgnored == pc = "raised" => passed = {}
===============================================================================
