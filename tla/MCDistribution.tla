----------------------------- MODULE MCDistribution -----------------------------
(***************************************************************************)
(* An instance of Distribution for TLC: one lying and one honest relay.    *)
(***************************************************************************)
EXTENDS Distribution

CONSTANTS plain, copied, third, bad

MCOrders == {plain, copied, third}

\* An open order with one copy; one that somebody also copied without a signature;
\* one that only a third party may take.
Plain == [order |-> plain, nonce |-> 1, kind |-> "eoa"]
First == [order |-> copied, nonce |-> 1, kind |-> "wallet"]
Unsigned == [order |-> copied, nonce |-> 1, kind |-> "junk"]
Foreign == [order |-> third, nonce |-> 1, kind |-> "eoa"]
MCSubmissions == {Plain, First, Unsigned, Foreign}

\* Relay 1 hides copied behind a copy, sends others' orders, repeats and garbles.
MCAnswers == <<{<<Unsigned, Foreign>>, <<bad, First>>}, {}>>

MCTakerOf == [o \in MCOrders |-> IF o = third THEN Other ELSE Open]
MCFillWindow == [o \in MCOrders |-> IF o = plain THEN 1 ELSE 0]
MCDeadline == [o \in MCOrders |-> 1]
MCBuyAmount == [o \in MCOrders |-> 10]
MCSellValue == [o \in MCOrders |-> 10]
MCTipValue == [o \in MCOrders |-> 1]
MCContested == {Plain}
MCRevocable == {copied}
===============================================================================
