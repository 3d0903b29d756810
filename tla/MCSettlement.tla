----------------------------- MODULE MCSettlement -----------------------------
(***************************************************************************)
(* Instances of Settlement for TLC.                                        *)
(***************************************************************************)
EXTENDS Settlement

CONSTANTS A, B,             \* tokens
          m, e, x, s, none  \* maker, executor, third party, Spartan1, address(0)

\* The order makers sign most: A for B, open to any taker, tip in the fallback.
OpenOrder ==
  [maker |-> m, taker |-> none, sellToken |-> A, buyToken |-> B,
   sellAmount |-> 1, buyAmount |-> 1, recipient |-> m, maxTip |-> 1,
   fillWindow |-> 1, deadline |-> 1]

\* Addressed to x, paid to a treasury, no tip: what a maker can settle hot.
NamedOrder ==
  [OpenOrder EXCEPT !.taker = x, !.recipient = e, !.maxTip = 0, !.fillWindow = 2,
                    !.deadline = 2]

\* Orders the static checks refuse.
LateWindow == [OpenOrder EXCEPT !.fillWindow = 2]
OneToken == [OpenOrder EXCEPT !.buyToken = A, !.fillWindow = 0]

MCAddrs == {m, e, x, s}
MCOrders == {OpenOrder, NamedOrder, LateWindow, OneToken}
MCInitialBalance ==
  [t \in {A, B} |-> [a \in MCAddrs |->
     CASE a = m -> IF t = A THEN 3 ELSE 1
       [] a \in {e, x} -> IF t = B THEN 1 ELSE 0
       [] OTHER -> 0]]
===============================================================================
