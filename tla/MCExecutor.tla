------------------------------- MODULE MCExecutor -------------------------------
(***************************************************************************)
(* Instances of Executor for TLC.                                          *)
(***************************************************************************)
EXTENDS Executor

CONSTANTS open, third, dear, wide, bad

MCOrders == {open, third, dear, wide}

\* An open order with a second signature and a copy nobody signed; one for a third
\* party; one below the profit floor, of a contract maker; one whose permitted
\* amount overflows.
First == [order |-> open, nonce |-> 1, kind |-> "eoa"]
Second == [order |-> open, nonce |-> 2, kind |-> "eoa"]
Unsigned == [order |-> open, nonce |-> 1, kind |-> "junk"]
Foreign == [order |-> third, nonce |-> 1, kind |-> "eoa"]
Dear == [order |-> dear, nonce |-> 1, kind |-> "wallet"]
Overflowing == [order |-> wide, nonce |-> 1, kind |-> "junk"]
MCSubmissions == {First, Second, Unsigned, Foreign, Dear, Overflowing}

MCAnswers == <<{<<Foreign, First>>, <<bad, Unsigned>>},
               {<<First, Dear>>, <<bad, Second, Overflowing>>}>>

MCTakerOf == [o \in MCOrders |-> IF o = third THEN Other ELSE Open]
MCFillWindow == [o \in MCOrders |-> IF o = open THEN 1 ELSE 0]
MCDeadline == [o \in MCOrders |-> 2]
MCBuyAmount == [o \in MCOrders |-> 10]
MCSellValue == [o \in MCOrders |-> IF o = dear THEN 9 ELSE 10]
MCTipValue == [o \in MCOrders |-> 1]
MCContested == {First, Second}
MCRevocable == {open}
===============================================================================
