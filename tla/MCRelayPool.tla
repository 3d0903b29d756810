------------------------------ MODULE MCRelayPool ------------------------------
(***************************************************************************)
(* Instances of RelayPool for TLC.                                         *)
(***************************************************************************)
EXTENDS RelayPool, TLC

CONSTANTS open, named, late, wide, t1, none

\* An open order, one for t1 that expires earlier, one P3 refuses, and one
\* whose permitted amount overflows.
MCTakerOf == [o \in Orders |-> IF o = named THEN t1 ELSE none]
MCDeadline == [o \in Orders |-> IF o = open THEN 2 ELSE 1]
MCFillWindow == [o \in Orders |-> IF o = late THEN 2 ELSE 1]

\* The open order reaches the relay signed by its maker and, under the same hash,
\* with somebody else's signature.
MCSubmissions ==
  {[order |-> open, kind |-> "eoa"], [order |-> open, kind |-> "junk"],
   [order |-> named, kind |-> "wallet"], [order |-> late, kind |-> "eoa"],
   [order |-> wide, kind |-> "eoa"]}

Threads == Permutations(Posts)
================================================================================
