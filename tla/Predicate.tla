------------------------------- MODULE Predicate -------------------------------
(***************************************************************************)
(* The validity predicate of a relay (src/distribution/relay.py): what     *)
(* evaluate may find out about an order somebody sends.  P4 is the         *)
(* parser's, P5 the pool's.                                                *)
(***************************************************************************)
EXTENDS Integers

CONSTANT HasRpc   \* whether the relay is configured with an RPC

ASSUME PredicateAssumption == HasRpc \in BOOLEAN

\* How an order is signed: by an externally owned maker, by a contract maker (valid
\* under ERC-1271), or not by the maker at all.
Kinds == {"eoa", "wallet", "junk"}
Checks == {"ecdsa", "erc1271", "deferred"}

\* P1: every answer check_signature may give.  An externally owned maker needs no RPC.
\* For the rest, no RPC or one that fails getCode defers, and one that fails the call of
\* isValidSignature refuses: a contract maker may meet either.
SigVerdicts(kind) ==
  IF kind = "eoa" THEN {"ecdsa"}
  ELSE {"deferred"} \union (IF HasRpc THEN {"P1"} ELSE {})
                    \union (IF HasRpc /\ kind = "wallet" THEN {"erc1271"} ELSE {})

\* P2 and P3.
InTime(fillWindow, deadline, now) == now <= deadline /\ fillWindow <= deadline

\* What evaluate may say: the check of a valid order, or that it refuses.  P6 and P7
\* read balance and allowance at some moment if there is an RPC, and may then refuse any.
Evaluations(kind, fillWindow, deadline, now) ==
  LET passing == InTime(fillWindow, deadline, now)
  IN  (IF passing THEN SigVerdicts(kind) \ {"P1"} ELSE {})
        \union (IF HasRpc \/ ~passing THEN {"refused"} ELSE {})
================================================================================
