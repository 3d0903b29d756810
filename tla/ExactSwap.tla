------------------------------- MODULE ExactSwap -------------------------------
(***************************************************************************)
(* What Spartan1 promises, without transfers, snapshots or a call stack:   *)
(* a signed order settles at most once, in one atomic step, in its time    *)
(* window, and moves exactly the amounts the maker signed.  Nothing else   *)
(* moves tokens.  Only the executor's tip may come up short (a token that  *)
(* charges a fee): no check of settle covers it.                           *)
(***************************************************************************)
EXTENDS Integers

CONSTANTS Tokens, Addrs, ZeroAddress, Callers, Orders, Nonces, InitialBalance

VARIABLES now, signed, funds, spent

vars == <<now, signed, funds, spent>>

Taker(o, caller) == IF o.taker = ZeroAddress THEN caller ELSE o.taker

If(condition, amount) == IF condition THEN amount ELSE 0

\* The net change of account a in token t when `caller` settles o for `tip`,
\* of which `got` arrives.
Change(o, caller, tip, got, t, a) ==
    If(t = o.sellToken /\ a = Taker(o, caller), o.sellAmount)
  + If(t = o.sellToken /\ a = caller, got)
  - If(t = o.sellToken /\ a = o.maker, o.sellAmount + tip)
  + If(t = o.buyToken /\ a = o.recipient, o.buyAmount)
  - If(t = o.buyToken /\ a = caller, o.buyAmount)

\* Both parties end up richer by the signed amounts, whoever else they are.
Paid(o, caller, tip) ==
  /\ funds'[o.buyToken][o.recipient] - funds[o.buyToken][o.recipient] = o.buyAmount
  /\ funds'[o.sellToken][Taker(o, caller)] - funds[o.sellToken][Taker(o, caller)]
       = o.sellAmount + If(caller = Taker(o, caller), tip)

Swap(o, n, caller) ==
  LET tip == IF now < o.fillWindow THEN 0 ELSE o.maxTip IN
  /\ <<o, n>> \in signed
  /\ <<o.maker, n>> \notin spent
  /\ now <= o.deadline
  /\ now < o.fillWindow => caller = o.maker
  /\ spent' = spent \union {<<o.maker, n>>}
  /\ \E got \in 0 .. tip :
       funds' = [t \in Tokens |-> [a \in Addrs |->
                   funds[t][a] + Change(o, caller, tip, got, t, a)]]
  /\ Paid(o, caller, tip)
  /\ UNCHANGED <<now, signed>>

Sign(o, n) ==
  /\ signed' = signed \union {<<o, n>>}
  /\ UNCHANGED <<now, funds, spent>>

Tick ==
  /\ now' = now + 1
  /\ UNCHANGED <<signed, funds, spent>>

Init == now = 0 /\ signed = {} /\ funds = InitialBalance /\ spent = {}

Next ==
  \/ \E o \in Orders, n \in Nonces, c \in Callers : Swap(o, n, c)
  \/ \E o \in Orders, n \in Nonces : Sign(o, n)
  \/ Tick

Spec == Init /\ [][Next]_vars
================================================================================
