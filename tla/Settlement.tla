------------------------------ MODULE Settlement ------------------------------
(***************************************************************************)
(* Spartan1.settle, one action per external call of src/src/Spartan1.sol,  *)
(* together with the two external contracts it drives: the ERC-20 tokens   *)
(* and Permit2's signature transfer (modelled from the call in settle and  *)
(* from the ordering SPEC.md documents).                                   *)
(*                                                                         *)
(* A call of settle is a frame on the EVM call stack.  A token may call    *)
(* out (a hook) in the middle of a transfer; while it does, anybody may    *)
(* enter settle again or move tokens of their own.  A failing check, a     *)
(* refused transfer or lack of gas reverts the frame: the chain state of   *)
(* its entry is put back.                                                  *)
(***************************************************************************)
EXTENDS Integers, Sequences

CONSTANTS
  Tokens,        \* the ERC-20 contracts
  Addrs,         \* accounts: makers, takers, executors, Spartan1 itself
  Spartan1,      \* the settlement contract's own address
  ZeroAddress,   \* address(0): an open order's taker, a missing recipient
  Callers,       \* accounts that call settle (never Spartan1 itself)
  Movers,        \* accounts that move their own tokens outside settle
  Hooked,        \* tokens that call out during a transfer
  FeeTokens,     \* tokens that may deliver less than they debit
  Orders,        \* the orders makers may sign, subset of Order
  Nonces,        \* Permit2 unordered nonces
  MaxUint,       \* largest uint256: sums above it revert
  MaxTime,       \* bound on the clock
  MaxDepth,      \* bound on nested calls of settle
  InitialBalance \* the balances the chain starts from

Amounts == 0 .. MaxUint

Order ==
  [maker : Addrs, taker : Addrs \union {ZeroAddress},
   sellToken : Tokens, buyToken : Tokens,
   sellAmount : Amounts, buyAmount : Amounts,
   recipient : Addrs \union {ZeroAddress}, maxTip : Amounts,
   fillWindow : Nat, deadline : Nat]

ASSUME AddrAssumption ==
  /\ Spartan1 \in Addrs
  /\ ZeroAddress \notin Addrs
  /\ Callers \subseteq Addrs \ {Spartan1}
  /\ Movers \subseteq Addrs \ {Spartan1}
  /\ Hooked \subseteq Tokens
  /\ FeeTokens \subseteq Tokens
ASSUME OrderAssumption == Orders \subseteq Order
ASSUME BoundAssumption ==
  /\ MaxUint \in Nat /\ MaxTime \in Nat /\ MaxDepth \in Nat \ {0}
  /\ InitialBalance \in [Tokens -> [Addrs -> Nat]]

VARIABLES
  now,     \* block.timestamp, constant within a transaction
  signed,  \* <<order, nonce>> pairs the order's maker has signed
  bal,     \* bal[t][a]: the balance of a in token t
  used,    \* Permit2's nonceBitmap: the <<owner, nonce>> pairs spent
  locked,  \* the transient reentrancy slot
  stack,   \* frames of settle, innermost last; <<>> between transactions
  fills,   \* history: the settlements committed so far
  credit   \* history: credit[t][a] = arrived at a - owed to a by the fills

vars == <<now, signed, bal, used, locked, stack, fills, credit>>

Chain == [bal |-> bal, used |-> used, fills |-> fills, credit |-> credit]
-------------------------------------------------------------------------------
(* ERC-20 transfers *)

Delivered(t, amount) == IF t \in FeeTokens THEN 0 .. amount ELSE {amount}

\* The ledger after `amount` left `from` and `got` reached `to` (maybe the same).
AfterTransfer(t, from, to, amount, got) ==
  LET debited == [bal EXCEPT ![t][from] = @ - amount]
  IN  [debited EXCEPT ![t][to] = @ + got]

Transfer(t, from, to, amount) ==
  /\ bal[t][from] >= amount
  /\ \E got \in Delivered(t, amount) :
       /\ bal' = AfterTransfer(t, from, to, amount, got)
       /\ credit' = [credit EXCEPT ![t][to] = @ + got]
-------------------------------------------------------------------------------
(* The call stack *)

top == stack[Len(stack)]
Under == SubSeq(stack, 1, Len(stack) - 1)
InCall(pc) == stack # <<>> /\ top.pc = pc
Goto(pc) == stack' = [stack EXCEPT ![Len(stack)].pc = pc]

\* The token whose transfer the frame made last: the one that may be calling out.
LastMoved(f) == IF f.pc = "payout" THEN f.order.buyToken ELSE f.order.sellToken
CallbackOpen ==
  /\ stack # <<>>
  /\ top.pc # "pullMaker"
  /\ LastMoved(top) \in Hooked
ControlIsOutside == stack = <<>> \/ CallbackOpen

Permitted(o) == o.sellAmount + o.maxTip
TakerAddr(o, caller) == IF o.taker = ZeroAddress THEN caller ELSE o.taker
Requested(o) == IF now >= o.fillWindow THEN Permitted(o) ELSE o.sellAmount
TipSwapped(f) == f.order.sellAmount - f.requestedAmount           \* mutant
TipUnpaid(f) == 0                                                 \* mutant
Tip(f) == f.requestedAmount - f.order.sellAmount
ExpectedTaker(f) ==
  f.order.sellAmount
    + (IF TakerAddr(f.order, f.caller) = f.caller THEN Tip(f) ELSE 0)
-------------------------------------------------------------------------------
(* settle, in the order of the source *)

StaticChecks(o) ==
  /\ o.fillWindow <= o.deadline      \* else BadWindow
  /\ o.sellToken # o.buyToken        \* else SameToken
  /\ o.sellAmount # 0                \* else ZeroAmount
  /\ o.recipient # ZeroAddress       \* else ZeroRecipient

WindowRuleAnyCaller(o, caller, requestedAmount) ==                \* mutant
  Permitted(o) <= MaxUint /\ requestedAmount = Requested(o)

WindowRule(o, caller, requestedAmount) ==
  /\ Permitted(o) <= MaxUint                       \* checked addition
  /\ now < o.fillWindow => caller = o.maker        \* else NotMaker
  /\ requestedAmount = Requested(o)                \* else BadAmount

NoLock == TRUE                                                    \* mutant
LockFree == ~locked                                \* else Reentrancy

\* Entry, lock, checks and snapshots: everything before the first outside call.
Enter(caller, o, requestedAmount, n) ==
  /\ ControlIsOutside /\ Len(stack) < MaxDepth
  /\ LockFree
  /\ StaticChecks(o)
  /\ WindowRule(o, caller, requestedAmount)
  /\ locked' = TRUE
  /\ stack' = Append(stack,
       [caller |-> caller, order |-> o, nonce |-> n,
        requestedAmount |-> requestedAmount, pc |-> "pullMaker",
        bRecipient |-> bal[o.buyToken][o.recipient],
        bTaker |-> bal[o.sellToken][TakerAddr(o, caller)],
        pre |-> Chain])
  /\ UNCHANGED <<now, signed, bal, used, fills, credit>>

PermitWithoutDeadline(o, requestedAmount, n) ==                   \* mutant
  <<o.maker, n>> \notin used /\ <<o, n>> \in signed

\* What settle asks Permit2 to check, in Permit2's documented order.
PermitValid(o, requestedAmount, n) ==
  /\ now <= o.deadline                 \* else SignatureExpired
  /\ requestedAmount <= Permitted(o)   \* else InvalidAmount
  /\ <<o.maker, n>> \notin used        \* else InvalidNonce
  /\ <<o, n>> \in signed               \* else InvalidSigner

PullMaker ==
  /\ InCall("pullMaker")
  /\ PermitValid(top.order, top.requestedAmount, top.nonce)
  /\ used' = used \union {<<top.order.maker, top.nonce>>}
  /\ Transfer(top.order.sellToken, top.order.maker, Spartan1, top.requestedAmount)
  /\ Goto("pullTaker")
  /\ UNCHANGED <<now, signed, locked, fills>>

BuyFromTaker(f) == TakerAddr(f.order, f.caller)                   \* mutant
BuySource(f) == f.caller   \* bound to msg.sender

PullTaker ==
  /\ InCall("pullTaker")
  /\ Transfer(top.order.buyToken, BuySource(top), top.order.recipient, top.order.buyAmount)
  /\ Goto("payout")
  /\ UNCHANGED <<now, signed, used, locked, fills>>

Payout ==
  /\ InCall("payout")
  /\ Transfer(top.order.sellToken, Spartan1,
              TakerAddr(top.order, top.caller), top.order.sellAmount)
  /\ Goto(IF Tip(top) # 0 THEN "payTip" ELSE "check")
  /\ UNCHANGED <<now, signed, used, locked, fills>>

PayTip ==
  /\ InCall("payTip")
  /\ Transfer(top.order.sellToken, Spartan1, top.caller, Tip(top))
  /\ Goto("check")
  /\ UNCHANGED <<now, signed, used, locked, fills>>

RecipientDeltaOnly(f) ==                                          \* mutant
  bal[f.order.buyToken][f.order.recipient] - f.bRecipient = f.order.buyAmount

\* I6: both measured deltas exact, or DeltaMismatch.
DeltasExact(f) ==
  /\ bal[f.order.buyToken][f.order.recipient] - f.bRecipient = f.order.buyAmount
  /\ bal[f.order.sellToken][TakerAddr(f.order, f.caller)] - f.bTaker = ExpectedTaker(f)

Commit ==
  /\ InCall("check")
  /\ DeltasExact(top)
  /\ LET o == top.order
         paid == [credit EXCEPT ![o.buyToken][o.recipient] = @ - o.buyAmount]
     IN  /\ fills' = Append(fills, [order |-> o, nonce |-> top.nonce,
                                    caller |-> top.caller, at |-> now, tip |-> Tip(top)])
         /\ credit' = [paid EXCEPT ![o.sellToken][TakerAddr(o, top.caller)] =
                                     @ - ExpectedTaker(top)]
  /\ locked' = FALSE
  /\ stack' = Under
  /\ UNCHANGED <<now, signed, bal, used>>

RevertBurningNonce ==                                             \* mutant
  /\ stack # <<>>
  /\ bal' = top.pre.bal
  /\ fills' = top.pre.fills /\ credit' = top.pre.credit
  /\ locked' = FALSE
  /\ stack' = Under
  /\ UNCHANGED <<now, signed, used>>

\* Any failing check or call: the frame's entry state is back, and its caller
\* goes on (a token that catches the error) or is at the end of its transaction.
Revert ==
  /\ stack # <<>>
  /\ bal' = top.pre.bal /\ used' = top.pre.used
  /\ fills' = top.pre.fills /\ credit' = top.pre.credit
  /\ locked' = FALSE
  /\ stack' = Under
  /\ UNCHANGED <<now, signed>>
-------------------------------------------------------------------------------
(* The environment *)

Sign(o, n) ==
  /\ stack = <<>>
  /\ signed' = signed \union {<<o, n>>}
  /\ UNCHANGED <<now, bal, used, locked, stack, fills, credit>>

Tick ==
  /\ stack = <<>> /\ now < MaxTime
  /\ now' = now + 1
  /\ UNCHANGED <<signed, bal, used, locked, stack, fills, credit>>

\* A holder moves one unit of its own tokens, between transactions or from a hook.
Move(t, from, to) ==
  /\ ControlIsOutside
  /\ from \in Movers /\ to \in Addrs \ {from, Spartan1}
  /\ Transfer(t, from, to, 1)
  /\ UNCHANGED <<now, signed, used, locked, stack, fills>>

Init ==
  /\ now = 0 /\ signed = {} /\ bal = InitialBalance /\ used = {}
  /\ locked = FALSE /\ stack = <<>> /\ fills = <<>>
  /\ credit = [t \in Tokens |-> [a \in Addrs |-> 0]]

Settle ==
  \/ \E c \in Callers, o \in Orders, r \in Amounts, n \in Nonces : Enter(c, o, r, n)
  \/ PullMaker \/ PullTaker \/ Payout \/ PayTip \/ Commit \/ Revert

Environment ==
  \/ \E o \in Orders, n \in Nonces : Sign(o, n)
  \/ \E t \in Tokens, a, b \in Addrs : Move(t, a, b)
  \/ Tick

Next == Settle \/ Environment
Spec == Init /\ [][Next]_vars
-------------------------------------------------------------------------------
(* Properties *)

FillType == [order : Orders, nonce : Nonces, caller : Callers, at : Nat, tip : Amounts]
ChainType ==
  [bal : [Tokens -> [Addrs -> Nat]], used : SUBSET (Addrs \X Nonces),
   fills : Seq(FillType), credit : [Tokens -> [Addrs -> Int]]]
FrameType ==
  [caller : Callers, order : Orders, nonce : Nonces, requestedAmount : Amounts,
   pc : {"pullMaker", "pullTaker", "payout", "payTip", "check"},
   bRecipient : Nat, bTaker : Nat, pre : ChainType]

\* Every variable keeps its type: balances and tips never go below zero, and only
\* accounts and nonces of the right kind are ever written down.
TypeOK ==
  /\ now \in 0 .. MaxTime
  /\ signed \subseteq Orders \X Nonces
  /\ locked \in BOOLEAN
  /\ stack \in Seq(FrameType)
  /\ Chain \in ChainType

\* I6 and the lock (SPEC.md, cross-order delta confusion): no arrival of tokens is
\* counted for two orders.  Whatever arrived at an account covers the sum of what
\* the committed orders owe it, although settle itself only compares balances.
EveryOrderPaid == \A t \in Tokens, a \in Addrs : credit[t][a] >= 0

NoncesOf(fs) == {<<fs[i].order.maker, fs[i].nonce>> : i \in DOMAIN fs}
OncePerNonce(fs) ==
  \A i, j \in DOMAIN fs :
    fs[i].order.maker = fs[j].order.maker /\ fs[i].nonce = fs[j].nonce => i = j

\* I3' and atomicity: no nonce of a maker serves two fills, and between transactions
\* the nonces spent are exactly those of the committed fills.  A settlement that
\* failed at any step, over-pulled or expired has burnt nothing.
NonceIffFilled ==
  /\ OncePerNonce(fills)
  /\ stack = <<>> => used = NoncesOf(fills)

\* I1', I2, W: what was committed is what the maker signed, at a time the order
\* allowed, by a caller the window allowed, for the tip of that window.
FilledAsSigned ==
  \A i \in DOMAIN fills :
    LET f == fills[i] IN
    /\ <<f.order, f.nonce>> \in signed
    /\ f.at <= f.order.deadline
    /\ f.at < f.order.fillWindow => f.caller = f.order.maker /\ f.tip = 0
    /\ f.at >= f.order.fillWindow => f.tip = f.order.maxTip

\* invariant_expiredOrderNoStateChange (SPEC.md): while a call on an expired or
\* unsigned order runs, not even its own transaction sees a balance or nonce move.
UnverifiedMovesNothing ==
  \A i \in DOMAIN stack :
    LET f == stack[i] IN
    \/ now <= f.order.deadline /\ <<f.order, f.nonce>> \in signed
    \/ Chain = f.pre

\* Non-custodial (THREAT_MODEL.md): between transactions the contract holds nothing,
\* for orders that do not name the contract itself as taker or recipient.
NothingRetained == stack = <<>> => \A t \in Tokens : bal[t][Spartan1] = 0

\* No confused deputy: a step of settle takes tokens only from the maker of a signed
\* order (its sellToken), from the caller (the buyToken) or from the contract itself.
DebitsNeedConsent ==
  [][\A t \in Tokens, a \in Addrs :
       (bal'[t][a] < bal[t][a] /\ stack' # stack /\ Len(stack') = Len(stack)) =>
         \/ a = Spartan1
         \/ a = top.caller /\ t = top.order.buyToken
         \/ a = top.order.maker /\ t = top.order.sellToken
              /\ <<top.order, top.nonce>> \in signed]_vars
-------------------------------------------------------------------------------
(* What an observer between transactions sees is an atomic exact swap. *)

CommittedBal == IF stack = <<>> THEN bal ELSE stack[1].pre.bal
CommittedUsed == IF stack = <<>> THEN used ELSE stack[1].pre.used
Swaps == INSTANCE ExactSwap WITH funds <- CommittedBal, spent <- CommittedUsed

\* settle refines the atomic swap: every committed call is one Swap, every failed
\* one a stutter (when no account moves tokens of its own meanwhile: Movers = {}).
ImplementsExactSwap == Swaps!Spec
===============================================================================
