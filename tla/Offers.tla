--------------------------------- MODULE Offers ---------------------------------
(***************************************************************************)
(* What the distribution layer promises an executor, without relays,       *)
(* polls, rounds or transactions: makers sign offers, and the executor     *)
(* takes offers that are signed, in time, meant for it and worth it, each  *)
(* nonce once.  "A relay can only omit or delay" (executor.py:17) means    *)
(* that the whole of Distribution looks like this.                         *)
(***************************************************************************)
EXTENDS Integers

CONSTANTS
  Orders, Genuine,      \* the orders, and the signed copies makers may make of them
  Mine,                 \* the orders this executor may take
  FillWindow, Deadline, BuyAmount,
  Value,                \* what an order brings in
  MinProfitBps, MaxNotional, Purse

VARIABLES clock, signed, spent, backed, purse, worth

vars == <<clock, signed, spent, backed, purse, worth>>

Unspent(s) == <<s.order, s.nonce>> \notin spent
Worthwhile(o) ==
  /\ o \in Mine /\ BuyAmount[o] \in 1 .. MaxNotional
  /\ Value[o] * 10000 >= BuyAmount[o] * (10000 + MinProfitBps)

Sign(s) ==
  /\ signed' = signed \union {s}
  /\ UNCHANGED <<clock, spent, backed, purse, worth>>

Take(s) ==
  /\ s \in signed /\ Unspent(s) /\ s.order \in backed
  /\ FillWindow[s.order] <= clock /\ clock <= Deadline[s.order]
  /\ Worthwhile(s.order) /\ BuyAmount[s.order] <= purse
  /\ spent' = spent \union {<<s.order, s.nonce>>}
  /\ purse' = purse - BuyAmount[s.order]
  /\ worth' = worth + Value[s.order]
  /\ UNCHANGED <<clock, signed, backed>>

\* Somebody else takes a signed copy, or its maker cancels the nonce.
Void(s) ==
  /\ s \in signed /\ Unspent(s)
  /\ spent' = spent \union {<<s.order, s.nonce>>}
  /\ UNCHANGED <<clock, signed, backed, purse, worth>>

Withdraw(o) ==
  /\ backed' = backed \ {o}
  /\ UNCHANGED <<clock, signed, spent, purse, worth>>

Tick == clock' = clock + 1 /\ UNCHANGED <<signed, spent, backed, purse, worth>>

Init ==
  /\ clock = 0 /\ signed = {} /\ spent = {}
  /\ backed = Orders /\ purse = Purse /\ worth = 0

Next ==
  \/ \E s \in Genuine : Sign(s) \/ Take(s) \/ Void(s)
  \/ \E o \in Orders : Withdraw(o)
  \/ Tick

Spec == Init /\ [][Next]_vars
===============================================================================
