------------------------------ MODULE MCRfqFanout ------------------------------
(***************************************************************************)
(* Instances of RfqFanout for TLC.                                         *)
(***************************************************************************)
EXTENDS RfqFanout

\* Both routes, either amount; and none, which is refused.
MCRequests ==
  {[route |-> "/quote", sell |-> Absent, buy |-> 2],
   [route |-> "/quote", sell |-> 2, buy |-> Absent],
   [route |-> "/rfq/quote", sell |-> 2, buy |-> Absent],
   [route |-> "/quote", sell |-> Absent, buy |-> Absent]}

\* The quote a taker of 2 wants, a better one its maker did not sign, a cheaper one that
\* is smaller and short-lived (the relay compares prices only), one that opens after it
\* expires, and one that overflows.
Offer(sell, buy) == [sell |-> sell, buy |-> buy, fillWindow |-> 1, deadline |-> 9,
                     kind |-> "eoa", wide |-> FALSE]
NarrowQuotes == {Offer(2, 3), [Offer(3, 2) EXCEPT !.kind = "junk"],
                 [Offer(1, 2) EXCEPT !.kind = "wallet", !.deadline = 2]}
MCQuotes == NarrowQuotes \union
  {[Offer(8, 1) EXCEPT !.fillWindow = 10], [Offer(9, 1) EXCEPT !.wide = TRUE]}

\* An addressed order, one of the amount that expires, one of another amount, and one
\* of the amount that is out of reach until then.
Rests(sell, buy) == [sell |-> sell, buy |-> buy, deadline |-> 9, open |-> TRUE]
MCResting == <<[Rests(2, 1) EXCEPT !.open = FALSE], [Rests(2, 1) EXCEPT !.deadline = 2],
               Rests(1, 3), Rests(2, 2)>>
===============================================================================
