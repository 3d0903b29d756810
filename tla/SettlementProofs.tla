--------------------------- MODULE SettlementProofs ---------------------------
(***************************************************************************)
(* Theorems about Settlement, for every set of tokens, accounts, orders    *)
(* and nonces, any hooks and fees, and any nesting bound.                  *)
(***************************************************************************)
EXTENDS Settlement, TLAPS

(* The lock serialises settle: at most one frame, and then it is held. *)
LockInv ==
  \/ stack = <<>> /\ locked = FALSE
  \/ Len(stack) = 1 /\ locked = TRUE

(* What the checks of a frame established stays true while it runs. *)
FrameChecked(f) ==
  /\ StaticChecks(f.order)
  /\ WindowRule(f.order, f.caller, f.requestedAmount)
  /\ f.pc # "pullMaker" =>
       /\ now <= f.order.deadline
       /\ <<f.order, f.nonce>> \in signed

FramesChecked == \A i \in DOMAIN stack : FrameChecked(stack[i])

TypeInv == TypeOK /\ LockInv /\ FramesChecked

(* A transfer keeps balances natural and credits integral. *)
LEMMA Ledger ==
  ASSUME bal \in [Tokens -> [Addrs -> Nat]],
         credit \in [Tokens -> [Addrs -> Int]],
         NEW t \in Tokens, NEW from \in Addrs, NEW to \in Addrs, NEW amount \in Nat,
         Transfer(t, from, to, amount)
  PROVE  /\ bal' \in [Tokens -> [Addrs -> Nat]]
         /\ credit' \in [Tokens -> [Addrs -> Int]]
  <1>1. PICK got \in Delivered(t, amount) :
          /\ bal' = AfterTransfer(t, from, to, amount, got)
          /\ credit' = [credit EXCEPT ![t][to] = @ + got]
    BY DEF Transfer
  <1>2. got \in Nat
    BY DEF Delivered
  <1>3. bal[t][from] >= amount
    BY DEF Transfer
  <1>4. credit' \in [Tokens -> [Addrs -> Int]]
    BY <1>1, <1>2
  <1>5. DEFINE debited == [bal EXCEPT ![t][from] = @ - amount]
  <1>6. debited \in [Tokens -> [Addrs -> Nat]]
    BY <1>3
  <1>7. [debited EXCEPT ![t][to] = @ + got] \in [Tokens -> [Addrs -> Nat]]
    BY <1>2, <1>6
  <1>. QED
    BY <1>1, <1>4, <1>7 DEF AfterTransfer

(* Under the lock an open frame is the only one, and was checked. *)
LEMMA OneFrame ==
  ASSUME stack \in Seq(FrameType), LockInv, stack # <<>>
  PROVE  /\ Len(stack) = 1 /\ locked = TRUE
         /\ top = stack[1] /\ top \in FrameType
         /\ Under = <<>>
         /\ DOMAIN stack = {1}
         /\ FramesChecked => FrameChecked(top)
  BY DEF LockInv, top, Under, FramesChecked

(* The terms settle computes from a checked frame are in range. *)
LEMMA FrameTerms ==
  ASSUME NEW f \in FrameType, FrameChecked(f), now \in Nat
  PROVE  /\ f.order \in Orders /\ f.caller \in Callers /\ f.caller \in Addrs
         /\ f.order.maker \in Addrs /\ f.order.recipient \in Addrs
         /\ f.order.sellToken \in Tokens /\ f.order.buyToken \in Tokens
         /\ f.order.sellToken # f.order.buyToken
         /\ f.order.sellAmount \in Nat /\ f.order.buyAmount \in Nat
         /\ f.order.fillWindow \in Nat /\ f.order.deadline \in Nat
         /\ f.order.maxTip \in Nat
         /\ f.nonce \in Nonces /\ f.requestedAmount \in Nat
         /\ TakerAddr(f.order, f.caller) \in Addrs
         /\ Tip(f) \in Amounts /\ ExpectedTaker(f) \in Nat
         /\ Tip(f) = IF now >= f.order.fillWindow THEN f.order.maxTip ELSE 0
         /\ f.pre \in ChainType
  <1>1. f.order \in Order /\ f.order \in Orders
    BY OrderAssumption DEF FrameType
  <1>2. f.caller \in Addrs /\ f.caller \in Callers
    BY AddrAssumption DEF FrameType
  <1>3. f.order.recipient # ZeroAddress /\ f.order.sellToken # f.order.buyToken
    BY DEF FrameChecked, StaticChecks
  <1>4. f.requestedAmount = Requested(f.order) /\ Permitted(f.order) <= MaxUint
    BY DEF FrameChecked, WindowRule
  <1>5. /\ f.order.sellAmount \in Nat /\ f.order.maxTip \in Nat
        /\ f.order.fillWindow \in Nat
    BY <1>1 DEF Order, Amounts
  <1>6. Tip(f) = IF now >= f.order.fillWindow THEN f.order.maxTip ELSE 0
    BY <1>4, <1>5 DEF Tip, Requested, Permitted
  <1>7. Tip(f) \in Amounts
    BY <1>4, <1>5, <1>6, BoundAssumption DEF Permitted, Amounts
  <1>8. ExpectedTaker(f) \in Nat
    BY <1>5, <1>7 DEF ExpectedTaker, Amounts
  <1>9. TakerAddr(f.order, f.caller) \in Addrs
    BY <1>1, <1>2 DEF TakerAddr, Order
  <1>. QED
    BY <1>1, <1>2, <1>3, <1>5, <1>6, <1>7, <1>8, <1>9 DEF Order, Amounts, FrameType

(* Moving the frame's program counter leaves the rest of the frame alone. *)
LEMMA GotoNext ==
  ASSUME stack \in Seq(FrameType), Len(stack) = 1, NEW pc, Goto(pc),
         pc \in {"pullMaker", "pullTaker", "payout", "payTip", "check"}
  PROVE  /\ stack' = <<[stack[1] EXCEPT !.pc = pc]>>
         /\ stack' \in Seq(FrameType) /\ Len(stack') = 1
  <1>1. stack' = [stack EXCEPT ![1].pc = pc]
    BY DEF Goto
  <1>2. stack = <<stack[1]>> /\ stack[1] \in FrameType
    OBVIOUS
  <1>3. stack' = <<[stack[1] EXCEPT !.pc = pc]>>
    BY <1>1, <1>2
  <1>4. [stack[1] EXCEPT !.pc = pc] \in FrameType
    BY <1>2 DEF FrameType
  <1>. QED
    BY <1>3, <1>4

-------------------------------------------------------------------------------
(* TypeInv holds at the start, and each action below keeps it. *)
LEMMA TypeInit == Init => TypeInv
  <1> SUFFICES ASSUME Init PROVE TypeInv
    OBVIOUS
  <1>1. Chain \in ChainType
    BY BoundAssumption DEF Init, Chain, ChainType
  <1>2. TypeOK
    <2>1. now \in 0 .. MaxTime
      BY BoundAssumption DEF Init
    <2>4. locked \in BOOLEAN
      BY DEF Init
    <2>3. stack \in Seq(FrameType)
      <3>1. <<>> \in Seq(FrameType)
        OBVIOUS
      <3>. QED
        BY <3>1 DEF Init
    <2>2. signed \subseteq Orders \X Nonces
      BY DEF Init
    <2>. QED
      BY <1>1, <2>1, <2>2, <2>3, <2>4 DEF TypeOK
  <1>3. LockInv
    BY DEF Init, LockInv
  <1>4. FramesChecked
    <2>1. stack = <<>> /\ Len(stack) = 0
      BY DEF Init
    <2>. QED
      BY <2>1 DEF FramesChecked
  <1>. QED
    BY <1>2, <1>3, <1>4 DEF TypeInv

(* The accounts between which a leg of settle moves tokens exist, so the ledger *)
(* keeps its type, and only the program counter of the frame changes.           *)
LEMMA LegKeepsType ==
  ASSUME TypeInv, stack # <<>>,
         NEW t \in Tokens, NEW from \in Addrs, NEW to \in Addrs, NEW amount \in Nat,
         NEW pc \in {"pullTaker", "payout", "payTip", "check"},
         Transfer(t, from, to, amount), Goto(pc),
         used' \subseteq Addrs \X Nonces,
         now <= top.order.deadline, <<top.order, top.nonce>> \in signed,
         UNCHANGED <<now, signed, locked, fills>>
  PROVE  TypeInv'
  <1>0. PICK f : f = stack[1]
    OBVIOUS
  <1> DEFINE g == [f EXCEPT !.pc = pc]
  <1>1. /\ Len(stack) = 1 /\ locked = TRUE /\ top = f /\ f \in FrameType
        /\ FrameChecked(f)
    BY <1>0, OneFrame DEF TypeInv, TypeOK
  <1>2. stack' = <<g>> /\ stack' \in Seq(FrameType) /\ Len(stack') = 1
    BY <1>0, <1>1, GotoNext DEF TypeInv, TypeOK
  <1>3. bal' \in [Tokens -> [Addrs -> Nat]] /\ credit' \in [Tokens -> [Addrs -> Int]]
    BY Ledger DEF TypeInv, TypeOK, Chain, ChainType
  <1>4. Chain' \in ChainType
    BY <1>3 DEF TypeInv, TypeOK, Chain, ChainType
  <1>5. TypeOK'
    BY <1>2, <1>4 DEF TypeInv, TypeOK
  <1>6. LockInv'
    BY <1>1, <1>2 DEF LockInv
  <1>7. FrameChecked(g)'
    <2>1. /\ g.order = f.order /\ g.caller = f.caller /\ g.nonce = f.nonce
          /\ g.requestedAmount = f.requestedAmount
      BY <1>1 DEF FrameType
    <2>. QED
      BY <1>1, <2>1 DEF FrameChecked, StaticChecks, WindowRule, Requested, Permitted
  <1>8. FramesChecked'
    <2>1. DOMAIN stack' = {1} /\ stack'[1] = g
      BY <1>2
    <2>. QED
      BY <1>7, <2>1 DEF FramesChecked
  <1>. QED
    BY <1>5, <1>6, <1>8 DEF TypeInv

(* Enter: the frame passed the static checks and the window rule. *)
LEMMA TypeEnter ==
  ASSUME TypeInv, NEW c \in Callers, NEW o \in Orders, NEW r \in Amounts, NEW n \in Nonces,
         Enter(c, o, r, n)
  PROVE  TypeInv'
  <1>1. stack = <<>>
    BY DEF Enter, LockFree, TypeInv, LockInv
  <1>2. PICK f : f = [caller |-> c, order |-> o, nonce |-> n, requestedAmount |-> r,
                      pc |-> "pullMaker",
                      bRecipient |-> bal[o.buyToken][o.recipient],
                      bTaker |-> bal[o.sellToken][TakerAddr(o, c)], pre |-> Chain]
    OBVIOUS
  <1>3. stack' = <<f>>
    BY <1>1, <1>2 DEF Enter
  <1>4. f \in FrameType
    <2>1. o.recipient \in Addrs /\ TakerAddr(o, c) \in Addrs
          /\ o.sellToken \in Tokens /\ o.buyToken \in Tokens
      BY AddrAssumption, OrderAssumption DEF Enter, StaticChecks, Order, TakerAddr
    <2>2. Chain \in ChainType
      BY DEF TypeInv, TypeOK
    <2>3. bal \in [Tokens -> [Addrs -> Nat]]
      BY <2>2 DEF Chain, ChainType
    <2>4. f.bRecipient \in Nat /\ f.bTaker \in Nat
      BY <1>2, <2>1, <2>3
    <2>. QED
      BY <1>2, <2>2, <2>4 DEF FrameType
  <1>5. TypeOK'
    <2>1. stack' \in Seq(FrameType)
      BY <1>3, <1>4
    <2>. QED
      BY <2>1 DEF TypeInv, TypeOK, Enter, Chain
  <1>6. LockInv'
    BY <1>3 DEF Enter, LockInv
  <1>7. FrameChecked(f)'
    <2>1. f.order = o /\ f.caller = c /\ f.requestedAmount = r /\ f.pc = "pullMaker"
      BY <1>2
    <2>. QED
      BY <2>1 DEF Enter, FrameChecked, StaticChecks, WindowRule, Requested, Permitted
  <1>8. FramesChecked'
    <2>1. DOMAIN stack' = {1} /\ stack'[1] = f
      BY <1>3
    <2>. QED
      BY <1>7, <2>1 DEF FramesChecked
  <1>. QED
    BY <1>5, <1>6, <1>8 DEF TypeInv

(* The maker's leg: Permit2 checked expiry and signature. *)
LEMMA TypePullMaker == TypeInv /\ PullMaker => TypeInv'
  <1> SUFFICES ASSUME TypeInv, PullMaker PROVE TypeInv'
    OBVIOUS
  <1>1. stack # <<>> /\ now \in Nat
    BY BoundAssumption DEF PullMaker, InCall, TypeInv, TypeOK
  <1>2. top \in FrameType /\ FrameChecked(top)
    BY <1>1, OneFrame DEF TypeInv, TypeOK
  <1>3. now <= top.order.deadline /\ <<top.order, top.nonce>> \in signed
    BY DEF PullMaker, PermitValid
  <1>4. used' \subseteq Addrs \X Nonces
    BY <1>1, <1>2, FrameTerms DEF PullMaker, TypeInv, TypeOK, Chain, ChainType
  <1>. QED
    BY <1>1, <1>2, <1>3, <1>4, FrameTerms, LegKeepsType, AddrAssumption DEF PullMaker

(* After the maker's leg the frame is verified: the three other legs are alike. *)
LEMMA Verified ==
  ASSUME TypeInv, stack # <<>>, top.pc # "pullMaker"
  PROVE  /\ now \in Nat /\ top \in FrameType /\ FrameChecked(top)
         /\ now <= top.order.deadline /\ <<top.order, top.nonce>> \in signed
         /\ used \subseteq Addrs \X Nonces
  <1>1. now \in Nat
    BY BoundAssumption DEF TypeInv, TypeOK
  <1>2. top \in FrameType /\ FrameChecked(top)
    BY OneFrame DEF TypeInv, TypeOK
  <1>. QED
    BY <1>1, <1>2 DEF FrameChecked, TypeInv, TypeOK, Chain, ChainType

(* The taker's leg. *)
LEMMA TypePullTaker == TypeInv /\ PullTaker => TypeInv'
  <1> SUFFICES ASSUME TypeInv, PullTaker PROVE TypeInv'
    OBVIOUS
  <1>1. stack # <<>> /\ top.pc # "pullMaker"
    BY DEF PullTaker, InCall
  <1>. QED
    BY <1>1, Verified, FrameTerms, LegKeepsType DEF PullTaker, BuySource

(* The payout to the taker. *)
LEMMA TypePayout == TypeInv /\ Payout => TypeInv'
  <1> SUFFICES ASSUME TypeInv, Payout PROVE TypeInv'
    OBVIOUS
  <1>1. stack # <<>> /\ top.pc # "pullMaker"
    BY DEF Payout, InCall
  <1>2. PICK pc \in {"payTip", "check"} : Goto(pc)
    BY DEF Payout
  <1>. QED
    BY <1>1, <1>2, Verified, FrameTerms, LegKeepsType, AddrAssumption DEF Payout

(* The tip to the caller. *)
LEMMA TypePayTip == TypeInv /\ PayTip => TypeInv'
  <1> SUFFICES ASSUME TypeInv, PayTip PROVE TypeInv'
    OBVIOUS
  <1>1. stack # <<>> /\ top.pc # "pullMaker"
    BY DEF PayTip, InCall
  <1>2. Tip(top) \in Nat
    BY <1>1, Verified, FrameTerms DEF Amounts
  <1>. QED
    BY <1>1, <1>2, Verified, FrameTerms, LegKeepsType, AddrAssumption DEF PayTip

(* Once the last frame is gone the lock is free and no frame needs checking. *)
LEMMA StackEmpty ==
  ASSUME TypeInv, stack # <<>>, stack' = Under, locked' = FALSE,
         UNCHANGED <<now, signed>>, Chain' \in ChainType
  PROVE  TypeInv'
  <1>1. stack' = <<>>
    BY OneFrame DEF TypeInv, TypeOK
  <1>2. TypeOK'
    <2>1. stack' \in Seq(FrameType)
      <3>1. <<>> \in Seq(FrameType)
        OBVIOUS
      <3>. QED
        BY <1>1, <3>1
    <2>2. locked' \in BOOLEAN
      OBVIOUS
    <2>. QED
      BY <2>1, <2>2 DEF TypeInv, TypeOK
  <1>3. LockInv'
    BY <1>1 DEF LockInv
  <1>4. FramesChecked'
    <2>1. Len(stack') = 0
      BY <1>1
    <2>. QED
      BY <1>1, <2>1 DEF FramesChecked
  <1>. QED
    BY <1>2, <1>3, <1>4 DEF TypeInv

(* Commit: the only frame closes and the lock is released. *)
LEMMA TypeCommit == TypeInv /\ Commit => TypeInv'
  <1> SUFFICES ASSUME TypeInv, Commit PROVE TypeInv'
    OBVIOUS
  <1>1. stack # <<>> /\ top.pc # "pullMaker"
    BY DEF Commit, InCall
  <1>2. PICK f : f = top
    OBVIOUS
  <1>3. f \in FrameType /\ FrameChecked(f) /\ now \in Nat
    BY <1>1, <1>2, Verified
  <1> DEFINE o == f.order
             fill == [order |-> o, nonce |-> f.nonce, caller |-> f.caller,
                      at |-> now, tip |-> Tip(f)]
             paid == [credit EXCEPT ![o.buyToken][o.recipient] = @ - o.buyAmount]
  <1>4. fill \in FillType
    BY <1>3, FrameTerms DEF FillType
  <1>5. fills' = Append(fills, fill)
    BY <1>2 DEF Commit
  <1>6. fills \in Seq(FillType) /\ credit \in [Tokens -> [Addrs -> Int]]
    BY DEF TypeInv, TypeOK, Chain, ChainType
  <1>7. fills' \in Seq(FillType)
    BY <1>4, <1>5, <1>6
  <1>8. paid \in [Tokens -> [Addrs -> Int]]
    BY <1>3, <1>6, FrameTerms
  <1>9. credit' = [paid EXCEPT ![o.sellToken][TakerAddr(o, f.caller)] =
                                 @ - ExpectedTaker(f)]
    BY <1>2 DEF Commit
  <1>10. credit' \in [Tokens -> [Addrs -> Int]]
    <2> HIDE DEF paid
    <2>. QED
      BY <1>3, <1>8, <1>9, FrameTerms
  <1>11. Chain' \in ChainType
    BY <1>7, <1>10 DEF Commit, TypeInv, TypeOK, Chain, ChainType
  <1>. QED
    BY <1>1, <1>11, StackEmpty DEF Commit

(* Revert: the entry state, which was typed, comes back. *)
LEMMA TypeRevert == TypeInv /\ Revert => TypeInv'
  <1> SUFFICES ASSUME TypeInv, Revert PROVE TypeInv'
    OBVIOUS
  <1>1. top.pre \in ChainType
    BY OneFrame DEF Revert, TypeInv, TypeOK, FrameType
  <1>2. Chain' \in ChainType
    BY <1>1 DEF Revert, Chain, ChainType
  <1>. QED
    BY <1>2, StackEmpty DEF Revert

(* Makers sign and time passes between transactions; holders move funds from hooks too. *)
LEMMA TypeEnvironment == TypeInv /\ Environment => TypeInv'
  <1> SUFFICES ASSUME TypeInv, Environment PROVE TypeInv'
    OBVIOUS
  <1>1. ASSUME NEW o \in Orders, NEW n \in Nonces, Sign(o, n) PROVE TypeInv'
    <2>1. Len(stack') = 0
      BY <1>1 DEF Sign
    <2>2. FramesChecked'
      BY <1>1, <2>1 DEF FramesChecked, Sign
    <2>. QED
      BY <1>1, <2>2 DEF Sign, TypeInv, TypeOK, LockInv, Chain
  <1>2. ASSUME Tick PROVE TypeInv'
    <2>1. Len(stack') = 0 /\ stack' = stack
      BY <1>2 DEF Tick
    <2>2. FramesChecked'
      BY <2>1 DEF FramesChecked
    <2>3. now' \in 0 .. MaxTime
      BY <1>2, BoundAssumption DEF Tick, TypeInv, TypeOK
    <2>. QED
      BY <1>2, <2>2, <2>3 DEF Tick, TypeInv, TypeOK, LockInv, Chain
  <1>3. ASSUME NEW t \in Tokens, NEW a \in Addrs, NEW b \in Addrs, Move(t, a, b)
        PROVE TypeInv'
    <2>1. Transfer(t, a, b, 1) /\ UNCHANGED <<now, signed, used, locked, stack, fills>>
      BY <1>3 DEF Move
    <2>2. bal' \in [Tokens -> [Addrs -> Nat]] /\ credit' \in [Tokens -> [Addrs -> Int]]
      BY <2>1, Ledger DEF TypeInv, TypeOK, Chain, ChainType
    <2>3. Chain' \in ChainType
      BY <2>1, <2>2 DEF TypeInv, TypeOK, Chain, ChainType
    <2>4. FramesChecked'
      BY <2>1 DEF TypeInv, FramesChecked, FrameChecked, WindowRule, Requested
    <2>. QED
      BY <2>1, <2>3, <2>4 DEF TypeInv, TypeOK, LockInv
  <1>. QED
    BY <1>1, <1>2, <1>3 DEF Environment

(* A step that changes nothing. *)
LEMMA TypeStutter == TypeInv /\ UNCHANGED vars => TypeInv'
  BY DEF vars, TypeInv, TypeOK, LockInv, FramesChecked, FrameChecked, WindowRule,
         Requested, Chain

(* So every step keeps TypeInv. *)
LEMMA TypeNext == TypeInv /\ [Next]_vars => TypeInv'
  BY TypeEnter, TypePullMaker, TypePullTaker, TypePayout, TypePayTip, TypeCommit,
     TypeRevert, TypeEnvironment, TypeStutter DEF Next, Settle

(* TypeInv, always. *)
LEMMA AlwaysTypeInv == Spec => []TypeInv
  BY TypeInit, TypeNext, PTL DEF Spec

(* Every reachable state is well-typed: in particular no balance is ever negative *)
(* and no tip is computed from a requested amount below the sell amount.          *)
THEOREM TypeCorrect == Spec => []TypeOK
  <1>1. TypeInv => TypeOK
    BY DEF TypeInv
  <1>. QED
    BY <1>1, AlwaysTypeInv, PTL

-------------------------------------------------------------------------------
(* The chain a transaction starts from: every order paid, and the nonces spent are *)
(* those of the fills, each of them used once.                                     *)
ChainSound(ch) ==
  /\ \A t \in Tokens, a \in Addrs : ch.credit[t][a] >= 0
  /\ OncePerNonce(ch.fills)
  /\ ch.used = NoncesOf(ch.fills)

(* What has happened in a frame since its entry.  Arrivals are counted in credit, *)
(* so credit grows at least as much as any balance: the snapshots of the frame    *)
(* are therefore enough to know that its own order has been paid.                 *)
FrameSound(f) ==
  /\ ChainSound(f.pre)
  /\ f.bRecipient = f.pre.bal[f.order.buyToken][f.order.recipient]
  /\ f.bTaker = f.pre.bal[f.order.sellToken][TakerAddr(f.order, f.caller)]
  /\ fills = f.pre.fills
  /\ f.pc = "pullMaker" => Chain = f.pre
  /\ f.pc # "pullMaker" =>
       /\ <<f.order.maker, f.nonce>> \notin f.pre.used
       /\ used = f.pre.used \union {<<f.order.maker, f.nonce>>}
  /\ \A t \in Tokens, a \in Addrs :
       /\ credit[t][a] >= f.pre.credit[t][a]
       /\ credit[t][a] - f.pre.credit[t][a] >= bal[t][a] - f.pre.bal[t][a]

SettleInv ==
  /\ TypeInv
  /\ FilledAsSigned
  /\ stack = <<>> => ChainSound(Chain)
  /\ stack # <<>> => FrameSound(top)

(* The balances and credits of a chain state are integers. *)
LEMMA ChainNumbers ==
  ASSUME NEW ch \in ChainType, NEW u \in Tokens, NEW a \in Addrs
  PROVE  ch.credit[u][a] \in Int /\ ch.bal[u][a] \in Int
  <1>1. ch.bal \in [Tokens -> [Addrs -> Nat]] /\ ch.credit \in [Tokens -> [Addrs -> Int]]
    BY DEF ChainType
  <1>. QED
    BY <1>1

(* What a transfer moves, for any account: maybe less arrives than leaves. *)
Net(hit, from, to, amount, got, a) ==
  (IF hit /\ a = to THEN got ELSE 0) - (IF hit /\ a = from THEN amount ELSE 0)
Moves(t, from, to, amount, got) ==
  \A u \in Tokens, a \in Addrs :
    /\ credit'[u][a] = credit[u][a] + IF u = t /\ a = to THEN got ELSE 0
    /\ bal'[u][a] = bal[u][a] + Net(u = t, from, to, amount, got, a)

(* A transfer takes the amount from the sender and brings the receiver some of it. *)
LEMMA Moved ==
  ASSUME bal \in [Tokens -> [Addrs -> Nat]],
         credit \in [Tokens -> [Addrs -> Int]],
         NEW t \in Tokens, NEW from \in Addrs, NEW to \in Addrs, NEW amount \in Nat,
         Transfer(t, from, to, amount)
  PROVE  \E got \in 0 .. amount : Moves(t, from, to, amount, got)
  <1>1. PICK got \in Delivered(t, amount) :
          /\ bal' = AfterTransfer(t, from, to, amount, got)
          /\ credit' = [credit EXCEPT ![t][to] = @ + got]
    BY DEF Transfer
  <1>2. got \in 0 .. amount
    BY DEF Delivered
  <1> SUFFICES ASSUME NEW u \in Tokens, NEW a \in Addrs
               PROVE  /\ credit'[u][a] = credit[u][a] + IF u = t /\ a = to THEN got ELSE 0
                      /\ bal'[u][a] = bal[u][a] + Net(u = t, from, to, amount, got, a)
    BY <1>2 DEF Moves
  <1>3. credit'[u][a] = credit[u][a] + IF u = t /\ a = to THEN got ELSE 0
    BY <1>1, <1>2
  <1>4. bal'[u][a] = bal[u][a] + Net(u = t, from, to, amount, got, a)
    <2> DEFINE debited == [bal EXCEPT ![t][from] = @ - amount]
    <2>1. debited \in [Tokens -> [Addrs -> Int]]
      OBVIOUS
    <2>2. debited[u][a] = bal[u][a] - IF u = t /\ a = from THEN amount ELSE 0
      OBVIOUS
    <2>3. bal' = [debited EXCEPT ![t][to] = @ + got]
      BY <1>1 DEF AfterTransfer
    <2> HIDE DEF debited
    <2>4. bal'[u][a] = debited[u][a] + IF u = t /\ a = to THEN got ELSE 0
      BY <1>2, <2>1, <2>3
    <2>5. bal[u][a] \in Int /\ debited[u][a] \in Int /\ amount \in Int /\ got \in Int
      BY <1>2, <2>1
    <2>. QED
      BY ONLY <2>2, <2>4, <2>5 DEF Net
  <1>. QED
    BY <1>3, <1>4

(* A transfer's arrivals are credited, and no balance grows by more than its credit. *)
LEMMA Arrivals ==
  ASSUME bal \in [Tokens -> [Addrs -> Nat]],
         credit \in [Tokens -> [Addrs -> Int]],
         NEW t \in Tokens, NEW from \in Addrs, NEW to \in Addrs, NEW amount \in Nat,
         Transfer(t, from, to, amount),
         NEW u \in Tokens, NEW a \in Addrs
  PROVE  /\ credit'[u][a] >= credit[u][a]
         /\ credit'[u][a] - credit[u][a] >= bal'[u][a] - bal[u][a]
  <1>1. PICK got \in 0 .. amount : Moves(t, from, to, amount, got)
    BY Moved
  <1>2. bal[u][a] \in Nat /\ credit[u][a] \in Int
    OBVIOUS
  <1>. QED
    BY <1>1, <1>2 DEF Moves, Net

(* A leg of settle keeps the frame sound: only arrivals and the nonce are recorded. *)
LEMMA LegKeepsSound ==
  ASSUME SettleInv, TypeInv', stack # <<>>,
         NEW t \in Tokens, NEW from \in Addrs, NEW to \in Addrs, NEW amount \in Nat,
         NEW pc \in {"pullTaker", "payout", "payTip", "check"},
         Transfer(t, from, to, amount), Goto(pc),
         UNCHANGED <<now, signed, locked, fills>>,
         \/ /\ top.pc # "pullMaker" /\ used' = used
         \/ /\ top.pc = "pullMaker"
            /\ <<top.order.maker, top.nonce>> \notin used
            /\ used' = used \union {<<top.order.maker, top.nonce>>}
  PROVE  SettleInv'
  <1>0. PICK f : f = top
    OBVIOUS
  <1> DEFINE g == [f EXCEPT !.pc = pc]
  <1>1. /\ Len(stack) = 1 /\ f = stack[1] /\ f \in FrameType /\ FrameSound(f)
        /\ bal \in [Tokens -> [Addrs -> Nat]] /\ credit \in [Tokens -> [Addrs -> Int]]
    BY <1>0, OneFrame DEF SettleInv, TypeInv, TypeOK, Chain, ChainType
  <1>2. stack' = <<g>>
    BY <1>1, GotoNext DEF SettleInv, TypeInv, TypeOK
  <1>3. stack' # <<>> /\ top' = g
    BY <1>2 DEF top
  <1>4. /\ g.order = f.order /\ g.caller = f.caller /\ g.nonce = f.nonce
        /\ g.pre = f.pre /\ g.pc = pc
        /\ g.bRecipient = f.bRecipient /\ g.bTaker = f.bTaker
    BY <1>1 DEF FrameType
  <1>5. /\ <<f.order.maker, f.nonce>> \notin f.pre.used
        /\ used' = f.pre.used \union {<<f.order.maker, f.nonce>>}
    <2>1. CASE f.pc = "pullMaker"
      <3>1. used = f.pre.used
        <4>1. Chain = f.pre
          BY <1>1, <2>1 DEF FrameSound
        <4>2. Chain.used = used
          BY DEF Chain
        <4>. QED
          BY ONLY <4>1, <4>2
      <3>. QED
        BY <1>0, <2>1, <3>1
    <2>2. CASE f.pc # "pullMaker"
      BY <1>0, <1>1, <2>2 DEF FrameSound
    <2>. QED
      BY <2>1, <2>2
  <1>6. ASSUME NEW u \in Tokens, NEW a \in Addrs
        PROVE  /\ credit'[u][a] >= f.pre.credit[u][a]
               /\ credit'[u][a] - f.pre.credit[u][a] >= bal'[u][a] - f.pre.bal[u][a]
    <2>1. /\ credit'[u][a] >= credit[u][a]
          /\ credit'[u][a] - credit[u][a] >= bal'[u][a] - bal[u][a]
      BY <1>1, Arrivals
    <2>2. /\ credit[u][a] >= f.pre.credit[u][a]
          /\ credit[u][a] - f.pre.credit[u][a] >= bal[u][a] - f.pre.bal[u][a]
      BY <1>1 DEF FrameSound
    <2>3. /\ credit[u][a] \in Int /\ bal[u][a] \in Int
          /\ f.pre.credit[u][a] \in Int /\ f.pre.bal[u][a] \in Int
      <3>1. f.pre \in ChainType
        BY <1>1 DEF FrameType
      <3>3. f.pre.credit[u][a] \in Int /\ f.pre.bal[u][a] \in Int
        BY <3>1, ChainNumbers
      <3>4. credit[u][a] \in Int /\ bal[u][a] \in Int
        BY <1>1
      <3>. QED
        BY <3>3, <3>4
    <2>4. bal'[u][a] \in Int /\ credit'[u][a] \in Int
      BY <1>1, Ledger
    <2>. QED
      BY <2>1, <2>2, <2>3, <2>4, SMTT(30)
  <1>7. FrameSound(g)'
    BY <1>1, <1>4, <1>5, <1>6 DEF FrameSound
  <1>8. FilledAsSigned'
    BY DEF SettleInv, FilledAsSigned
  <1>. QED
    BY <1>3, <1>7, <1>8 DEF SettleInv

(* SettleInv holds at the start, and each action below keeps it. *)
LEMMA SoundInit == Init => SettleInv
  <1> SUFFICES ASSUME Init PROVE SettleInv
    OBVIOUS
  <1>1. Len(fills) = 0 /\ fills = <<>> /\ used = {} /\ stack = <<>>
    BY DEF Init
  <1>2. DOMAIN fills = {}
    BY <1>1
  <1>3. \A t \in Tokens, a \in Addrs : credit[t][a] >= 0
    BY DEF Init
  <1>4. OncePerNonce(fills) /\ used = NoncesOf(fills)
    BY <1>1, <1>2 DEF OncePerNonce, NoncesOf
  <1>5. ChainSound(Chain)
    BY <1>3, <1>4 DEF ChainSound, Chain
  <1>6. FilledAsSigned
    BY <1>2 DEF FilledAsSigned
  <1>. QED
    BY <1>1, <1>5, <1>6, TypeInit DEF SettleInv

(* Enter: at its snapshots a frame has nothing to show yet. *)
LEMMA SoundEnter ==
  ASSUME SettleInv, NEW c \in Callers, NEW o \in Orders, NEW r \in Amounts,
         NEW n \in Nonces, Enter(c, o, r, n)
  PROVE  SettleInv'
  <1>1. stack = <<>> /\ ChainSound(Chain)
    BY DEF Enter, LockFree, SettleInv, TypeInv, LockInv
  <1>2. PICK f : f = [caller |-> c, order |-> o, nonce |-> n, requestedAmount |-> r,
                      pc |-> "pullMaker",
                      bRecipient |-> bal[o.buyToken][o.recipient],
                      bTaker |-> bal[o.sellToken][TakerAddr(o, c)], pre |-> Chain]
    OBVIOUS
  <1>3. stack' = <<f>>
    BY <1>1, <1>2 DEF Enter
  <1>4. stack' # <<>> /\ top' = f
    BY <1>3 DEF top
  <1>5. UNCHANGED <<now, signed, bal, used, fills, credit>> /\ Chain' = Chain
    BY DEF Enter, Chain
  <1>6. /\ f.order = o /\ f.caller = c /\ f.pre = Chain /\ f.pc = "pullMaker"
        /\ f.pre.bal = bal /\ f.pre.fills = fills /\ f.pre.credit = credit
        /\ f.bRecipient = bal[o.buyToken][o.recipient]
        /\ f.bTaker = bal[o.sellToken][TakerAddr(o, c)]
    BY <1>2 DEF Chain
  <1>7. ASSUME NEW u \in Tokens, NEW a \in Addrs
        PROVE credit[u][a] \in Int /\ bal[u][a] \in Int
    BY DEF SettleInv, TypeInv, TypeOK, Chain, ChainType
  <1>8. FrameSound(f)'
    BY <1>1, <1>5, <1>6, <1>7 DEF FrameSound
  <1>9. FilledAsSigned'
    BY <1>5 DEF SettleInv, FilledAsSigned
  <1>. QED
    BY <1>4, <1>8, <1>9, TypeEnter DEF SettleInv

(* The four legs only credit arrivals. *)
LEMMA SoundLegs == SettleInv /\ (PullMaker \/ PullTaker \/ Payout \/ PayTip) => SettleInv'
  <1> SUFFICES ASSUME SettleInv, PullMaker \/ PullTaker \/ Payout \/ PayTip
               PROVE  SettleInv'
    OBVIOUS
  <1>0. TypeInv /\ TypeInv'
    BY TypePullMaker, TypePullTaker, TypePayout, TypePayTip DEF SettleInv
  <1>1. stack # <<>> /\ now \in Nat
    BY <1>0, BoundAssumption DEF PullMaker, PullTaker, Payout, PayTip, InCall, TypeInv,
       TypeOK
  <1>2. top \in FrameType /\ FrameChecked(top)
    BY <1>0, <1>1, OneFrame DEF TypeInv, TypeOK
  <1>3. CASE PullMaker
    BY <1>0, <1>1, <1>2, <1>3, FrameTerms, LegKeepsSound, AddrAssumption
       DEF PullMaker, InCall, PermitValid
  <1>4. CASE PullTaker
    BY <1>0, <1>1, <1>2, <1>4, FrameTerms, LegKeepsSound DEF PullTaker, InCall, BuySource
  <1>5. CASE Payout
    <2>1. PICK pc \in {"payTip", "check"} : Goto(pc)
      BY <1>5 DEF Payout
    <2>. QED
      BY <1>0, <1>1, <1>2, <1>5, <2>1, FrameTerms, LegKeepsSound, AddrAssumption
         DEF Payout, InCall
  <1>6. CASE PayTip
    <2>1. Tip(top) \in Nat
      BY <1>1, <1>2, FrameTerms DEF Amounts
    <2>. QED
      BY <1>0, <1>1, <1>2, <1>6, <2>1, FrameTerms, LegKeepsSound, AddrAssumption
         DEF PayTip, InCall
  <1>. QED
    BY <1>3, <1>4, <1>5, <1>6

(* Committing: the measured deltas, which are the deltas since the entry because *)
(* nothing ran in between, cover what the order owes; sell and buy token differ,  *)
(* so no arrival is counted for both legs.                                        *)
LEMMA SoundCommit == SettleInv /\ Commit => SettleInv'
  <1> SUFFICES ASSUME SettleInv, Commit PROVE SettleInv'
    OBVIOUS
  <1>0. TypeInv /\ TypeInv'
    BY TypeCommit DEF SettleInv
  <1>1. stack # <<>> /\ top.pc # "pullMaker"
    BY DEF Commit, InCall
  <1>2. PICK f : f = top
    OBVIOUS
  <1>3. /\ f \in FrameType /\ FrameChecked(f) /\ now \in Nat
        /\ now <= f.order.deadline /\ <<f.order, f.nonce>> \in signed
        /\ FrameSound(f) /\ f.pc # "pullMaker"
    BY <1>0, <1>1, <1>2, Verified DEF SettleInv
  <1> DEFINE o == f.order
             taker == TakerAddr(o, f.caller)
             fill == [order |-> o, nonce |-> f.nonce, caller |-> f.caller,
                      at |-> now, tip |-> Tip(f)]
             paid == [credit EXCEPT ![o.buyToken][o.recipient] = @ - o.buyAmount]
  <1>4. /\ o.buyToken \in Tokens /\ o.sellToken \in Tokens /\ o.sellToken # o.buyToken
        /\ o.recipient \in Addrs /\ taker \in Addrs
        /\ o.buyAmount \in Nat /\ ExpectedTaker(f) \in Nat
    BY <1>3, FrameTerms
  <1>5. stack' = <<>> /\ UNCHANGED <<now, signed, bal, used>>
    BY <1>0, <1>1, OneFrame DEF Commit, TypeInv, TypeOK
  <1>6. fills' = Append(fills, fill) /\ fills \in Seq(FillType) /\ fills = f.pre.fills
    BY <1>0, <1>2, <1>3 DEF Commit, TypeInv, TypeOK, Chain, ChainType, FrameSound
  <1>7. /\ DOMAIN fills' = 1 .. Len(fills) + 1 /\ DOMAIN fills = 1 .. Len(fills)
        /\ Len(fills) \in Nat
        /\ \A i \in 1 .. Len(fills) : fills'[i] = fills[i]
        /\ fills'[Len(fills) + 1] = fill
    BY <1>6
  <1>8. /\ <<o.maker, f.nonce>> \notin NoncesOf(fills) /\ OncePerNonce(fills)
        /\ used = NoncesOf(fills) \union {<<o.maker, f.nonce>>}
    BY <1>3, <1>6 DEF FrameSound, ChainSound
  <1>9. OncePerNonce(fills')
    <2> SUFFICES ASSUME NEW i \in DOMAIN fills', NEW j \in DOMAIN fills',
                        fills'[i].order.maker = fills'[j].order.maker,
                        fills'[i].nonce = fills'[j].nonce
                 PROVE  i = j
      BY DEF OncePerNonce
    <2>1. \A k \in DOMAIN fills :
            ~(fills[k].order.maker = o.maker /\ fills[k].nonce = f.nonce)
      BY <1>8 DEF NoncesOf
    <2>. QED
      BY <1>7, <1>8, <2>1 DEF OncePerNonce
  <1>10. used' = NoncesOf(fills')
    <2>1. NoncesOf(fills') = NoncesOf(fills) \union {<<o.maker, f.nonce>>}
      BY <1>7 DEF NoncesOf
    <2>. QED
      BY <1>5, <1>8, <2>1
  <1>11. \A t \in Tokens, a \in Addrs : credit'[t][a] >= 0
    <2>1. credit \in [Tokens -> [Addrs -> Int]] /\ bal \in [Tokens -> [Addrs -> Nat]]
      BY <1>0 DEF TypeInv, TypeOK, Chain, ChainType
    <2>2. paid \in [Tokens -> [Addrs -> Int]]
      BY <1>4, <2>1
    <2>3. credit' = [paid EXCEPT ![o.sellToken][taker] = @ - ExpectedTaker(f)]
      BY <1>2 DEF Commit
    <2> SUFFICES ASSUME NEW t \in Tokens, NEW a \in Addrs PROVE credit'[t][a] >= 0
      OBVIOUS
    <2>4. paid[t][a] =
            credit[t][a] - IF t = o.buyToken /\ a = o.recipient THEN o.buyAmount ELSE 0
      BY <1>4, <2>1
    <2>5. credit'[t][a] =
            paid[t][a] - IF t = o.sellToken /\ a = taker THEN ExpectedTaker(f) ELSE 0
      <3> HIDE DEF paid
      <3>. QED
        BY <1>4, <2>2, <2>3
    <2>6. /\ f.pre.credit[t][a] \in Int /\ f.pre.credit[t][a] >= 0
          /\ f.pre.bal[t][a] \in Int
          /\ credit[t][a] >= f.pre.credit[t][a]
          /\ credit[t][a] - f.pre.credit[t][a] >= bal[t][a] - f.pre.bal[t][a]
      <3>1. f.pre \in ChainType
        BY <1>3 DEF FrameType
      <3>. QED
        BY <1>3, <3>1, ChainNumbers DEF FrameSound, ChainSound
    <2>7. /\ bal[o.buyToken][o.recipient] - f.pre.bal[o.buyToken][o.recipient] = o.buyAmount
          /\ bal[o.sellToken][taker] - f.pre.bal[o.sellToken][taker] = ExpectedTaker(f)
      BY <1>2, <1>3 DEF Commit, DeltasExact, FrameSound
    <2>8. credit[t][a] \in Int /\ bal[t][a] \in Int
      BY <2>1
    <2>9. CASE t = o.buyToken /\ a = o.recipient
      BY <1>4, <2>4, <2>5, <2>6, <2>7, <2>8, <2>9, SMTT(30)
    <2>10. CASE t = o.sellToken /\ a = taker
      BY <1>4, <2>4, <2>5, <2>6, <2>7, <2>8, <2>10, SMTT(30)
    <2>11. CASE ~(t = o.buyToken /\ a = o.recipient) /\ ~(t = o.sellToken /\ a = taker)
      BY <2>4, <2>5, <2>6, <2>8, <2>11
    <2>. QED
      BY <2>9, <2>10, <2>11
  <1>12. FilledAsSigned'
    <2> SUFFICES ASSUME NEW i \in DOMAIN fills'
                 PROVE  LET h == fills'[i] IN
                        /\ <<h.order, h.nonce>> \in signed'
                        /\ h.at <= h.order.deadline
                        /\ h.at < h.order.fillWindow => h.caller = h.order.maker /\ h.tip = 0
                        /\ h.at >= h.order.fillWindow => h.tip = h.order.maxTip
      BY DEF FilledAsSigned
    <2>1. CASE i \in DOMAIN fills
      BY <1>5, <1>7, <2>1 DEF SettleInv, FilledAsSigned
    <2>2. CASE i = Len(fills) + 1
      <3>1. fills'[i] = fill
        BY <1>7, <2>2
      <3>2. /\ Tip(f) = IF now >= o.fillWindow THEN o.maxTip ELSE 0
            /\ o.fillWindow \in Nat /\ o.deadline \in Nat
        BY <1>3, FrameTerms
      <3>3. now < o.fillWindow => f.caller = o.maker
        BY <1>3 DEF FrameChecked, WindowRule
      <3>. QED
        BY <1>3, <1>5, <3>1, <3>2, <3>3
    <2>. QED
      BY <1>7, <2>1, <2>2
  <1>13. ChainSound(Chain)'
    BY <1>9, <1>10, <1>11 DEF ChainSound, Chain
  <1>. QED
    BY <1>0, <1>5, <1>12, <1>13 DEF SettleInv

(* Revert: the sound state at the frame's entry comes back. *)
LEMMA SoundRevert == SettleInv /\ Revert => SettleInv'
  <1> SUFFICES ASSUME SettleInv, Revert PROVE SettleInv'
    OBVIOUS
  <1>1. TypeInv /\ stack # <<>> /\ FrameSound(top) /\ TypeInv'
    BY TypeRevert DEF SettleInv, Revert
  <1>2. stack' = <<>> /\ UNCHANGED <<now, signed>>
    BY <1>1, OneFrame DEF Revert, TypeInv, TypeOK
  <1>3. top.pre \in ChainType
    BY <1>1, OneFrame DEF TypeInv, TypeOK, FrameType
  <1>4. Chain' = top.pre /\ fills' = fills
    BY <1>1, <1>3 DEF Revert, Chain, ChainType, FrameSound
  <1>5. ChainSound(Chain)'
    <2>1. ChainSound(top.pre)
      BY <1>1 DEF FrameSound
    <2>. QED
      BY <1>4, <2>1 DEF ChainSound
  <1>6. FilledAsSigned'
    BY <1>2, <1>4 DEF SettleInv, FilledAsSigned
  <1>. QED
    BY <1>1, <1>2, <1>5, <1>6 DEF SettleInv

(* Tokens a holder moves on its own only add arrivals, also from inside a hook. *)
LEMMA SoundMove ==
  ASSUME SettleInv, NEW t \in Tokens, NEW x \in Addrs, NEW y \in Addrs, Move(t, x, y)
  PROVE  SettleInv'
  <1>1. /\ Transfer(t, x, y, 1)
        /\ UNCHANGED <<now, signed, used, locked, stack, fills>> /\ top' = top
    BY DEF Move, top
  <1>2. TypeInv /\ TypeInv'
    BY TypeEnvironment DEF SettleInv, Environment
  <1>3. bal \in [Tokens -> [Addrs -> Nat]] /\ credit \in [Tokens -> [Addrs -> Int]]
    BY <1>2 DEF TypeInv, TypeOK, Chain, ChainType
  <1>4. ASSUME NEW u \in Tokens, NEW a \in Addrs
        PROVE  /\ credit'[u][a] >= credit[u][a]
               /\ credit'[u][a] - credit[u][a] >= bal'[u][a] - bal[u][a]
               /\ credit[u][a] \in Int /\ bal[u][a] \in Int
               /\ credit'[u][a] \in Int /\ bal'[u][a] \in Int
    BY <1>1, <1>3, Arrivals, Ledger
  <1>5. FilledAsSigned'
    BY <1>1 DEF SettleInv, FilledAsSigned
  <1>6. CASE stack = <<>>
    <2>1. ChainSound(Chain)
      BY <1>6 DEF SettleInv
    <2>2. ChainSound(Chain)'
      BY <1>1, <1>4, <2>1 DEF ChainSound, Chain
    <2>. QED
      BY <1>1, <1>2, <1>5, <1>6, <2>2 DEF SettleInv
  <1>7. CASE stack # <<>>
    <2>1. PICK f : f = top
      OBVIOUS
    <2>2. /\ FrameSound(f) /\ f \in FrameType /\ f.pc # "pullMaker"
      BY <1>1, <1>2, <1>7, <2>1, OneFrame
         DEF SettleInv, TypeInv, TypeOK, Move, ControlIsOutside, CallbackOpen
    <2>3. ASSUME NEW u \in Tokens, NEW a \in Addrs
          PROVE  /\ credit'[u][a] >= f.pre.credit[u][a]
                 /\ credit'[u][a] - f.pre.credit[u][a] >= bal'[u][a] - f.pre.bal[u][a]
      <3>1. f.pre \in ChainType
        BY <2>2 DEF FrameType
      <3>3. f.pre.credit[u][a] \in Int /\ f.pre.bal[u][a] \in Int
        BY <3>1, ChainNumbers
      <3>4. /\ credit[u][a] >= f.pre.credit[u][a]
            /\ credit[u][a] - f.pre.credit[u][a] >= bal[u][a] - f.pre.bal[u][a]
        BY <2>2 DEF FrameSound
      <3>. QED
        BY <1>4, <3>3, <3>4
    <2>4. FrameSound(f)'
      BY <1>1, <2>2, <2>3 DEF FrameSound
    <2>. QED
      BY <1>1, <1>2, <1>5, <1>7, <2>1, <2>4 DEF SettleInv
  <1>. QED
    BY <1>6, <1>7

(* Others credit only what arrives. *)
LEMMA SoundEnvironment == SettleInv /\ Environment => SettleInv'
  <1> SUFFICES ASSUME SettleInv, Environment PROVE SettleInv'
    OBVIOUS
  <1>1. TypeInv'
    BY TypeEnvironment DEF SettleInv
  <1>2. ASSUME NEW o \in Orders, NEW n \in Nonces, Sign(o, n) PROVE SettleInv'
    <2>1. UNCHANGED <<now, bal, used, stack, fills, credit>> /\ Chain' = Chain
      BY <1>2 DEF Sign, Chain
    <2>2. FilledAsSigned'
      BY <1>2, <2>1 DEF SettleInv, FilledAsSigned, Sign
    <2>. QED
      BY <1>1, <1>2, <2>1, <2>2 DEF SettleInv, Sign
  <1>3. ASSUME Tick PROVE SettleInv'
    <2>1. Chain' = Chain /\ UNCHANGED <<signed, stack, fills>> /\ stack = <<>>
      BY <1>3 DEF Tick, Chain
    <2>2. FilledAsSigned'
      BY <2>1 DEF SettleInv, FilledAsSigned
    <2>. QED
      BY <1>1, <2>1, <2>2 DEF SettleInv
  <1>. QED
    BY <1>2, <1>3, SoundMove DEF Environment

(* A step that changes nothing. *)
LEMMA SoundStutter == SettleInv /\ UNCHANGED vars => SettleInv'
  <1> SUFFICES ASSUME SettleInv, UNCHANGED vars PROVE SettleInv'
    OBVIOUS
  <1>1. TypeInv'
    BY TypeStutter DEF SettleInv
  <1>2. Chain' = Chain /\ top' = top
    BY DEF vars, Chain, top
  <1>3. FilledAsSigned'
    BY DEF vars, SettleInv, FilledAsSigned
  <1>4. stack # <<>> => FrameSound(top)'
    BY <1>2 DEF vars, SettleInv, FrameSound
  <1>. QED
    BY <1>1, <1>2, <1>3, <1>4 DEF SettleInv, vars

(* So every step keeps SettleInv. *)
LEMMA SoundNext == SettleInv /\ [Next]_vars => SettleInv'
  BY SoundEnter, SoundLegs, SoundCommit, SoundRevert, SoundEnvironment, SoundStutter
     DEF Next, Settle

(* SettleInv, always. *)
LEMMA AlwaysSettleInv == Spec => []SettleInv
  BY SoundInit, SoundNext, PTL DEF Spec

-------------------------------------------------------------------------------
(* I6 and the lock: however tokens call back, whatever they charge and whoever  *)
(* moves tokens meanwhile, what arrived at an account covers all that the       *)
(* committed orders owe it.  No arrival pays two orders.                        *)
THEOREM OrdersPaid == Spec => []EveryOrderPaid
  <1>1. SettleInv => EveryOrderPaid
    <2> SUFFICES ASSUME SettleInv, NEW t \in Tokens, NEW a \in Addrs
                 PROVE  credit[t][a] >= 0
      BY DEF EveryOrderPaid
    <2>1. CASE stack = <<>>
      BY <2>1 DEF SettleInv, ChainSound, Chain
    <2>2. CASE stack # <<>>
      <3>1. top.pre \in ChainType
        BY <2>2, OneFrame DEF SettleInv, TypeInv, TypeOK, FrameType
      <3>2. top.pre.credit[t][a] \in Int
        BY <3>1, ChainNumbers
      <3>3. credit[t][a] >= top.pre.credit[t][a] /\ top.pre.credit[t][a] >= 0
        BY <2>2 DEF SettleInv, FrameSound, ChainSound
      <3>4. credit[t][a] \in Int
        BY DEF SettleInv, TypeInv, TypeOK, Chain, ChainType
      <3>. QED
        BY <3>2, <3>3, <3>4
    <2>. QED
      BY <2>1, <2>2
  <1>. QED
    BY <1>1, AlwaysSettleInv, PTL

(* I3': no nonce serves two fills, and a settlement that reverts burns none. *)
THEOREM NoncesSpentByFills == Spec => []NonceIffFilled
  <1>1. SettleInv => NonceIffFilled
    BY DEF SettleInv, NonceIffFilled, ChainSound, FrameSound, Chain
  <1>. QED
    BY <1>1, AlwaysSettleInv, PTL

(* I1', I2, W: every committed fill is one its maker signed, within its deadline, *)
(* by the caller and for the tip of its window.                                   *)
THEOREM FillsAsSigned == Spec => []FilledAsSigned
  <1>1. SettleInv => FilledAsSigned
    BY DEF SettleInv
  <1>. QED
    BY <1>1, AlwaysSettleInv, PTL

(* The official project invariant of SPEC.md: an expired (or unsigned) order *)
(* changes no balance and no nonce, not even while its own call runs.        *)
THEOREM ExpiredOrderNoStateChange == Spec => []UnverifiedMovesNothing
  <1>1. SettleInv => UnverifiedMovesNothing
    <2> SUFFICES ASSUME SettleInv, NEW i \in DOMAIN stack,
                        ~ /\ now <= stack[i].order.deadline
                          /\ <<stack[i].order, stack[i].nonce>> \in signed
                 PROVE  Chain = stack[i].pre
      BY DEF UnverifiedMovesNothing
    <2>1. stack # <<>>
      OBVIOUS
    <2>2. i = 1 /\ top = stack[1] /\ FrameChecked(top)
      BY <2>1, OneFrame DEF SettleInv, TypeInv, TypeOK
    <2>3. top.pc = "pullMaker"
      BY <2>2 DEF FrameChecked
    <2>. QED
      BY <2>1, <2>2, <2>3 DEF SettleInv, FrameSound
  <1>. QED
    BY <1>1, AlwaysSettleInv, PTL

-------------------------------------------------------------------------------
(* Whose tokens settle takes. *)

(* The four legs of settle, as transfers: the one that debits an account outside the *)
(* contract debits the maker in the sell token, or the caller in the buy token.      *)
Leg(t, from, to, amount) ==
  \/ /\ PullMaker /\ t = top.order.sellToken
     /\ from = top.order.maker /\ to = Spartan1 /\ amount = top.requestedAmount
  \/ /\ PullTaker /\ t = top.order.buyToken
     /\ from = top.caller /\ to = top.order.recipient /\ amount = top.order.buyAmount
  \/ /\ Payout /\ t = top.order.sellToken /\ from = Spartan1
     /\ to = TakerAddr(top.order, top.caller) /\ amount = top.order.sellAmount
  \/ /\ PayTip /\ t = top.order.sellToken /\ from = Spartan1
     /\ to = top.caller /\ amount = Tip(top)

(* Each outside call is one of the four legs of its frame, and one transfer. *)
LEMMA LegsTransfer ==
  ASSUME TypeInv, PullMaker \/ PullTaker \/ Payout \/ PayTip
  PROVE  \E t \in Tokens, from \in Addrs, to \in Addrs, amount \in Nat :
            Leg(t, from, to, amount) /\ Transfer(t, from, to, amount)
  <1>1. stack # <<>> /\ now \in Nat
    BY BoundAssumption DEF PullMaker, PullTaker, Payout, PayTip, InCall, TypeInv, TypeOK
  <1>2. top \in FrameType /\ FrameChecked(top)
    BY <1>1, OneFrame DEF TypeInv, TypeOK
  <1>3. /\ top.caller \in Addrs /\ top.order.maker \in Addrs /\ top.order.recipient \in Addrs
        /\ top.order.sellToken \in Tokens /\ top.order.buyToken \in Tokens
        /\ top.order.sellAmount \in Nat /\ top.order.buyAmount \in Nat
        /\ top.requestedAmount \in Nat /\ Tip(top) \in Nat
        /\ TakerAddr(top.order, top.caller) \in Addrs /\ Spartan1 \in Addrs
    BY <1>1, <1>2, FrameTerms, AddrAssumption DEF Amounts
  <1>4. CASE PullMaker
    BY <1>3, <1>4 DEF PullMaker, Leg
  <1>5. CASE PullTaker
    BY <1>3, <1>5 DEF PullTaker, Leg, BuySource
  <1>6. CASE Payout
    BY <1>3, <1>6 DEF Payout, Leg
  <1>7. CASE PayTip
    BY <1>3, <1>7 DEF PayTip, Leg
  <1>. QED
    BY <1>4, <1>5, <1>6, <1>7

(* Every other step leaves the stack alone or changes its height. *)
LEMMA OtherSteps ==
  ASSUME TypeInv, [Next]_vars, ~(PullMaker \/ PullTaker \/ Payout \/ PayTip)
  PROVE  stack' = stack \/ Len(stack') # Len(stack)
  <1>1. ASSUME NEW c \in Callers, NEW o \in Orders, NEW r \in Amounts, NEW n \in Nonces,
               Enter(c, o, r, n)
        PROVE  Len(stack') # Len(stack)
    BY <1>1 DEF Enter, TypeInv, TypeOK
  <1>2. ASSUME Commit \/ Revert PROVE Len(stack') # Len(stack)
    <2>1. stack # <<>> /\ stack' = Under
      BY <1>2 DEF Commit, Revert, InCall
    <2>2. Len(stack) = 1 /\ Under = <<>> /\ Len(<<>>) = 0
      BY <2>1, OneFrame DEF TypeInv, TypeOK
    <2>. QED
      BY <2>1, <2>2
  <1>3. ASSUME Environment \/ UNCHANGED vars PROVE stack' = stack
    BY <1>3 DEF Environment, Sign, Tick, Move, vars
  <1>. QED
    BY <1>1, <1>2, <1>3 DEF Next, Settle

(* No confused deputy: whatever hooks do, a step of settle debits only the maker of a *)
(* signed order, the caller, or the contract itself.                                  *)
THEOREM DebitsAreConsented == Spec => DebitsNeedConsent
  <1> DEFINE Consented ==
        \A t \in Tokens, a \in Addrs :
          (bal'[t][a] < bal[t][a] /\ stack' # stack /\ Len(stack') = Len(stack)) =>
            \/ a = Spartan1
            \/ a = top.caller /\ t = top.order.buyToken
            \/ a = top.order.maker /\ t = top.order.sellToken
                 /\ <<top.order, top.nonce>> \in signed
  <1>1. TypeInv /\ [Next]_vars => Consented
    <2> SUFFICES ASSUME TypeInv, [Next]_vars, NEW u \in Tokens, NEW a \in Addrs,
                        bal'[u][a] < bal[u][a], stack' # stack, Len(stack') = Len(stack)
                 PROVE  \/ a = Spartan1
                        \/ a = top.caller /\ u = top.order.buyToken
                        \/ a = top.order.maker /\ u = top.order.sellToken
                             /\ <<top.order, top.nonce>> \in signed
      OBVIOUS
    <2>1. PullMaker \/ PullTaker \/ Payout \/ PayTip
      BY OtherSteps
    <2>2. PICK t \in Tokens, from \in Addrs, to \in Addrs, amount \in Nat :
             Leg(t, from, to, amount) /\ Transfer(t, from, to, amount)
      BY <2>1, LegsTransfer
    <2>3. bal \in [Tokens -> [Addrs -> Nat]] /\ credit \in [Tokens -> [Addrs -> Int]]
      BY DEF TypeInv, TypeOK, Chain, ChainType
    <2>4. PICK got \in 0 .. amount : Moves(t, from, to, amount, got)
      BY <2>2, <2>3, Moved
    <2>5. u = t /\ a = from
      BY <2>3, <2>4, SMTT(30) DEF Moves, Net
    <2>6. PullMaker => <<top.order, top.nonce>> \in signed
      BY DEF PullMaker, PermitValid
    <2>. QED
      BY <2>2, <2>5, <2>6 DEF Leg
  <1>. QED
    BY <1>1, AlwaysTypeInv, PTL DEF Spec, DebitsNeedConsent

-------------------------------------------------------------------------------
(* What the contract holds, if no order names it as taker or recipient and it starts *)
(* with nothing: at most what it still has to pay out.                               *)

NotItsOwn == \A o \in Orders : o.taker # Spartan1 /\ o.recipient # Spartan1
StartsEmpty == \A t \in Tokens : InitialBalance[t][Spartan1] = 0

Remaining(f) == IF f.pc \in {"pullTaker", "payout"} THEN f.requestedAmount
                ELSE IF f.pc = "payTip" THEN Tip(f) ELSE 0
HeldInv ==
  /\ TypeInv
  /\ stack = <<>> => \A t \in Tokens : bal[t][Spartan1] = 0
  /\ stack # <<>> =>
       \A t \in Tokens :
         /\ top.pre.bal[t][Spartan1] = 0
         /\ bal[t][Spartan1] <= IF t = top.order.sellToken THEN Remaining(top) ELSE 0

(* A leg keeps the frame and moves its program counter on. *)
LEMMA LegGoesOn ==
  ASSUME TypeInv, PullMaker \/ PullTaker \/ Payout \/ PayTip
  PROVE  /\ stack # <<>> /\ stack' # <<>> /\ Len(stack) = 1
         /\ top \in FrameType /\ FrameChecked(top) /\ now \in Nat
         /\ top' \in FrameType
         /\ top'.order = top.order /\ top'.caller = top.caller /\ top'.nonce = top.nonce
         /\ top'.requestedAmount = top.requestedAmount /\ top'.pre = top.pre
         /\ PullMaker => top.pc = "pullMaker" /\ top'.pc = "pullTaker"
         /\ PullTaker => top.pc = "pullTaker" /\ top'.pc = "payout"
         /\ Payout => top.pc = "payout" /\ top'.pc = IF Tip(top) # 0 THEN "payTip" ELSE "check"
         /\ PayTip => top.pc = "payTip" /\ top'.pc = "check"
  <1>1. stack # <<>> /\ now \in Nat
    BY BoundAssumption DEF PullMaker, PullTaker, Payout, PayTip, InCall, TypeInv, TypeOK
  <1>2. top \in FrameType /\ FrameChecked(top) /\ Len(stack) = 1 /\ top = stack[1]
    BY <1>1, OneFrame DEF TypeInv, TypeOK
  <1>3. PICK pc \in {"pullTaker", "payout", "payTip", "check"} :
          /\ Goto(pc)
          /\ PullMaker => top.pc = "pullMaker" /\ pc = "pullTaker"
          /\ PullTaker => top.pc = "pullTaker" /\ pc = "payout"
          /\ Payout => top.pc = "payout" /\ pc = IF Tip(top) # 0 THEN "payTip" ELSE "check"
          /\ PayTip => top.pc = "payTip" /\ pc = "check"
    BY DEF PullMaker, PullTaker, Payout, PayTip, InCall
  <1>4. stack' = <<[stack[1] EXCEPT !.pc = pc]>>
    BY <1>2, <1>3, GotoNext DEF TypeInv, TypeOK
  <1>5. stack' # <<>> /\ top' = [top EXCEPT !.pc = pc]
    BY <1>2, <1>4 DEF top
  <1>6. /\ top' \in FrameType /\ top'.pc = pc
        /\ top'.order = top.order /\ top'.caller = top.caller /\ top'.nonce = top.nonce
        /\ top'.requestedAmount = top.requestedAmount /\ top'.pre = top.pre
    BY <1>2, <1>3, <1>5 DEF FrameType
  <1>. QED
    BY <1>1, <1>2, <1>3, <1>5, <1>6

(* Each leg leaves in the contract at most what the later legs pay out. *)
LEMMA HeldLegs ==
  ASSUME NotItsOwn, HeldInv, PullMaker \/ PullTaker \/ Payout \/ PayTip
  PROVE  HeldInv'
  <1>1. TypeInv /\ TypeInv'
    BY TypePullMaker, TypePullTaker, TypePayout, TypePayTip DEF HeldInv
  <1>2. /\ stack # <<>> /\ stack' # <<>>
        /\ top \in FrameType /\ FrameChecked(top) /\ now \in Nat
        /\ top'.order = top.order /\ top'.pre = top.pre
        /\ top'.requestedAmount = top.requestedAmount
    BY <1>1, LegGoesOn
  <1>3. /\ top.caller # Spartan1 /\ top.order.recipient # Spartan1 /\ Spartan1 \in Addrs
        /\ TakerAddr(top.order, top.caller) # Spartan1
        /\ top.order.sellToken # top.order.buyToken
        /\ top.order.sellAmount \in Nat /\ top.requestedAmount \in Nat
        /\ Tip(top) = top.requestedAmount - top.order.sellAmount /\ Tip(top) \in Nat
    BY <1>2, FrameTerms, AddrAssumption DEF NotItsOwn, TakerAddr, Tip, Amounts
  <1>4. PICK t \in Tokens, from \in Addrs, to \in Addrs, amount \in Nat :
          Leg(t, from, to, amount) /\ Transfer(t, from, to, amount)
    BY <1>1, LegsTransfer
  <1>5. bal \in [Tokens -> [Addrs -> Nat]] /\ credit \in [Tokens -> [Addrs -> Int]]
    BY <1>1 DEF TypeInv, TypeOK, Chain, ChainType
  <1>6. Tip(top') = Tip(top)
    BY <1>2 DEF Tip
  <1>7. ASSUME NEW u \in Tokens
        PROVE  /\ top'.pre.bal[u][Spartan1] = 0
               /\ bal'[u][Spartan1] <= IF u = top'.order.sellToken THEN Remaining(top') ELSE 0
    <2>1. /\ top.pre.bal[u][Spartan1] = 0 /\ bal[u][Spartan1] \in Nat
          /\ bal[u][Spartan1] <= IF u = top.order.sellToken THEN Remaining(top) ELSE 0
      BY <1>2, <1>3, <1>5 DEF HeldInv
    <2>2. PICK got \in 0 .. amount :
             bal'[u][Spartan1] = bal[u][Spartan1] + Net(u = t, from, to, amount, got, Spartan1)
      BY <1>3, <1>4, <1>5, Moved DEF Moves
    <2>3. CASE PullMaker
      <3>1. top.pc = "pullMaker" /\ top'.pc = "pullTaker"
        BY <1>1, <2>3, LegGoesOn
      <3>2. t = top.order.sellToken /\ amount = top.requestedAmount /\ to = Spartan1
        BY <1>4, <3>1 DEF Leg, PullTaker, Payout, PayTip, InCall
      <3>. QED
        BY <1>2, <1>3, <2>1, <2>2, <3>1, <3>2 DEF Remaining, Net
    <2>4. CASE PullTaker
      <3>1. top.pc = "pullTaker" /\ top'.pc = "payout"
        BY <1>1, <2>4, LegGoesOn
      <3>2. from # Spartan1 /\ to # Spartan1
        BY <1>3, <1>4, <3>1 DEF Leg, PullMaker, Payout, PayTip, InCall
      <3>. QED
        BY <1>2, <1>3, <2>1, <2>2, <3>1, <3>2 DEF Remaining, Net
    <2>5. CASE Payout
      <3>1. top.pc = "payout" /\ top'.pc = IF Tip(top) # 0 THEN "payTip" ELSE "check"
        BY <1>1, <2>5, LegGoesOn
      <3>2. /\ t = top.order.sellToken /\ amount = top.order.sellAmount
            /\ from = Spartan1 /\ to # Spartan1
        BY <1>3, <1>4, <3>1 DEF Leg, PullMaker, PullTaker, PayTip, InCall
      <3>3. Remaining(top) = top.requestedAmount /\ Remaining(top') = Tip(top)
        BY <1>6, <3>1 DEF Remaining
      <3>. QED
        BY <1>2, <1>3, <2>1, <2>2, <3>2, <3>3 DEF Net
    <2>6. CASE PayTip
      <3>1. top.pc = "payTip" /\ top'.pc = "check"
        BY <1>1, <2>6, LegGoesOn
      <3>2. /\ t = top.order.sellToken /\ amount = Tip(top)
            /\ from = Spartan1 /\ to # Spartan1
        BY <1>3, <1>4, <3>1 DEF Leg, PullMaker, PullTaker, Payout, InCall
      <3>3. Remaining(top) = Tip(top) /\ Remaining(top') = 0
        BY <1>6, <3>1 DEF Remaining
      <3>. QED
        BY <1>2, <1>3, <2>1, <2>2, <3>2, <3>3 DEF Net
    <2>. QED
      BY <2>3, <2>4, <2>5, <2>6
  <1>. QED
    BY <1>1, <1>2, <1>7 DEF HeldInv

(* So at every step the contract holds at most what its frame has yet to pay. *)
LEMMA HeldStep ==
  ASSUME NotItsOwn, HeldInv, [Next]_vars
  PROVE  HeldInv'
  <1>1. TypeInv /\ TypeInv'
    BY TypeNext DEF HeldInv
  <1>2. ASSUME NEW c \in Callers, NEW o \in Orders, NEW r \in Amounts, NEW n \in Nonces,
               Enter(c, o, r, n)
        PROVE  HeldInv'
    <2>1. stack = <<>> /\ bal' = bal
      BY <1>1, <1>2 DEF Enter, LockFree, TypeInv, LockInv
    <2>2. /\ top'.pre.bal = bal /\ top'.pc = "pullMaker" /\ stack' # <<>>
      BY <1>2, <2>1 DEF Enter, top, Chain
    <2>3. \A t \in Tokens : bal[t][Spartan1] = 0
      BY <2>1 DEF HeldInv
    <2>. QED
      BY <1>1, <2>1, <2>2, <2>3 DEF HeldInv, Remaining
  <1>3. CASE Commit
    <2>1. stack # <<>> /\ top.pc = "check" /\ bal' = bal /\ stack' = <<>>
      BY <1>1, <1>3, OneFrame DEF Commit, InCall, TypeInv, TypeOK
    <2>2. \A t \in Tokens : bal[t][Spartan1] <= 0 /\ bal[t][Spartan1] \in Nat
      BY <1>1, <2>1, AddrAssumption DEF HeldInv, Remaining, TypeInv, TypeOK, Chain, ChainType
    <2>. QED
      BY <1>1, <2>1, <2>2 DEF HeldInv
  <1>4. CASE Revert
    <2>1. stack # <<>> /\ bal' = top.pre.bal /\ stack' = <<>>
      BY <1>1, <1>4, OneFrame DEF Revert, TypeInv, TypeOK
    <2>. QED
      BY <1>1, <2>1 DEF HeldInv
  <1>5. ASSUME NEW t \in Tokens, NEW a \in Addrs, NEW b \in Addrs, Move(t, a, b)
        PROVE  HeldInv'
    <2>1. /\ Transfer(t, a, b, 1) /\ a # Spartan1 /\ b # Spartan1 /\ stack' = stack /\ 1 \in Nat
      BY <1>5, AddrAssumption DEF Move
    <2>2. bal \in [Tokens -> [Addrs -> Nat]] /\ credit \in [Tokens -> [Addrs -> Int]]
      BY <1>1 DEF TypeInv, TypeOK, Chain, ChainType
    <2>3. ASSUME NEW u \in Tokens PROVE bal'[u][Spartan1] = bal[u][Spartan1]
      <3>1. PICK got \in 0 .. 1 : Moves(t, a, b, 1, got)
        BY <2>1, <2>2, Moved
      <3>. QED
        BY <2>1, <2>2, <3>1, AddrAssumption DEF Moves, Net
    <2>4. top' = top
      BY <2>1 DEF top
    <2>. QED
      BY <1>1, <2>1, <2>3, <2>4 DEF HeldInv
  <1>6. CASE UNCHANGED vars \/ (\E o \in Orders, n \in Nonces : Sign(o, n)) \/ Tick
    <2>1. stack' = stack /\ bal' = bal /\ top' = top
      BY <1>6 DEF vars, Sign, Tick, top
    <2>. QED
      BY <1>1, <2>1 DEF HeldInv
  <1>. QED
    BY <1>2, <1>3, <1>4, <1>5, <1>6, HeldLegs DEF Next, Settle, Environment

(* Non-custodial, whatever tokens charge and hooks do: between transactions the contract *)
(* holds nothing.  It starts with nothing, and no order names it as taker or recipient.  *)
THEOREM HoldsNothing ==
  ASSUME NotItsOwn, StartsEmpty
  PROVE  Spec => []NothingRetained
  <1>1. Init => HeldInv
    <2>1. Init => TypeInv
      BY TypeInit
    <2>. QED
      BY <2>1 DEF Init, HeldInv, StartsEmpty
  <1>2. HeldInv /\ [Next]_vars => HeldInv'
    BY HeldStep
  <1>3. HeldInv => NothingRetained
    BY DEF HeldInv, NothingRetained
  <1>. QED
    BY <1>1, <1>2, <1>3, PTL DEF Spec

-------------------------------------------------------------------------------
(* settle refines the atomic swap.  While a call runs, every balance is that of its *)
(* entry plus what its legs have moved so far; the checks at the end leave only one *)
(* way they can have moved.                                                         *)

(* The legs of a frame that are done, if g1 .. g4 arrived of what they sent. *)
MakerLeg(f, g1, t, a) ==
  Net(f.pc # "pullMaker" /\ t = f.order.sellToken,
      f.order.maker, Spartan1, f.requestedAmount, g1, a)
TakerLeg(f, g2, t, a) ==
  Net(f.pc \notin {"pullMaker", "pullTaker"} /\ t = f.order.buyToken,
      f.caller, f.order.recipient, f.order.buyAmount, g2, a)
PayoutLeg(f, g3, t, a) ==
  Net(f.pc \in {"payTip", "check"} /\ t = f.order.sellToken,
      Spartan1, TakerAddr(f.order, f.caller), f.order.sellAmount, g3, a)
TipLeg(f, g4, t, a) ==
  Net(f.pc = "check" /\ t = f.order.sellToken, Spartan1, f.caller, Tip(f), g4, a)
LegsMoved(f, g1, g2, g3, g4, t, a) ==
  MakerLeg(f, g1, t, a) + TakerLeg(f, g2, t, a) + PayoutLeg(f, g3, t, a) + TipLeg(f, g4, t, a)

(* As a fact about given balances, so that it can be stated of the next state too. *)
Accounts(f, b) ==
  \E g1 \in 0 .. f.requestedAmount, g2 \in 0 .. f.order.buyAmount,
     g3 \in 0 .. f.order.sellAmount, g4 \in 0 .. Tip(f) :
    \A t \in Tokens, a \in Addrs :
      b[t][a] = f.pre.bal[t][a] + LegsMoved(f, g1, g2, g3, g4, t, a)

FundsInv == stack # <<>> => Accounts(top, bal)

(* Each leg that moves is accounted for: balances are those at entry and the legs so far. *)
LEMMA FundsLegs ==
  ASSUME TypeInv, FundsInv, PullMaker \/ PullTaker \/ Payout \/ PayTip
  PROVE  FundsInv'
  <1>1. /\ stack # <<>> /\ top \in FrameType /\ FrameChecked(top) /\ now \in Nat
        /\ top' \in FrameType
        /\ top'.order = top.order /\ top'.caller = top.caller
        /\ top'.requestedAmount = top.requestedAmount /\ top'.pre = top.pre
    BY LegGoesOn
  <1>2. /\ top.order.sellAmount \in Nat /\ top.order.buyAmount \in Nat
        /\ top.requestedAmount \in Nat /\ Tip(top) \in Nat
        /\ top.pre \in ChainType
    BY <1>1, FrameTerms DEF Amounts
  <1>3. bal \in [Tokens -> [Addrs -> Nat]] /\ credit \in [Tokens -> [Addrs -> Int]]
    BY DEF TypeInv, TypeOK, Chain, ChainType
  <1>4. PICK t \in Tokens, from \in Addrs, to \in Addrs, amount \in Nat :
          Leg(t, from, to, amount) /\ Transfer(t, from, to, amount)
    BY LegsTransfer
  <1>5. PICK got \in 0 .. amount :
          \A u \in Tokens, a \in Addrs :
            bal'[u][a] = bal[u][a] + Net(u = t, from, to, amount, got, a)
    BY <1>3, <1>4, Moved DEF Moves
  <1>6. PICK g1 \in 0 .. top.requestedAmount, g2 \in 0 .. top.order.buyAmount,
             g3 \in 0 .. top.order.sellAmount, g4 \in 0 .. Tip(top) :
          \A u \in Tokens, a \in Addrs :
            bal[u][a] = top.pre.bal[u][a] + LegsMoved(top, g1, g2, g3, g4, u, a)
    BY <1>1 DEF FundsInv, Accounts
  <1>7. Tip(top') = Tip(top)
    BY <1>1 DEF Tip
  <1>8. ASSUME NEW h1 \in 0 .. top.requestedAmount, NEW h2 \in 0 .. top.order.buyAmount,
               NEW h3 \in 0 .. top.order.sellAmount, NEW h4 \in 0 .. Tip(top),
               \A u \in Tokens, a \in Addrs :
                 LegsMoved(top', h1, h2, h3, h4, u, a)
                   = LegsMoved(top, g1, g2, g3, g4, u, a) + Net(u = t, from, to, amount, got, a)
        PROVE  FundsInv'
    <2>1. ASSUME NEW u \in Tokens, NEW a \in Addrs
          PROVE  bal'[u][a] = top'.pre.bal[u][a] + LegsMoved(top', h1, h2, h3, h4, u, a)
      <3>1. /\ LegsMoved(top, g1, g2, g3, g4, u, a) \in Int /\ bal[u][a] \in Int
            /\ Net(u = t, from, to, amount, got, a) \in Int /\ top.pre.bal[u][a] \in Int
        BY <1>2, <1>3, ChainNumbers
           DEF LegsMoved, MakerLeg, TakerLeg, PayoutLeg, TipLeg, Net
      <3>2. /\ bal'[u][a] = bal[u][a] + Net(u = t, from, to, amount, got, a)
            /\ bal[u][a] = top.pre.bal[u][a] + LegsMoved(top, g1, g2, g3, g4, u, a)
            /\ LegsMoved(top', h1, h2, h3, h4, u, a)
                 = LegsMoved(top, g1, g2, g3, g4, u, a) + Net(u = t, from, to, amount, got, a)
            /\ top'.pre.bal[u][a] = top.pre.bal[u][a]
        BY <1>1, <1>5, <1>6, <1>8
      <3>. QED
        BY ONLY <3>1, <3>2
    <2>2. Accounts(top', bal')
      BY <1>1, <1>7, <2>1, SMTT(30) DEF Accounts
    <2>. QED
      BY <2>2 DEF FundsInv
  <1>9. CASE PullMaker
    <2>1. top.pc = "pullMaker" /\ top'.pc = "pullTaker"
      BY <1>9, LegGoesOn
    <2>2. /\ t = top.order.sellToken /\ amount = top.requestedAmount
          /\ from = top.order.maker /\ to = Spartan1
      BY <1>4, <2>1 DEF Leg, PullTaker, Payout, PayTip, InCall
    <2>3. ASSUME NEW u \in Tokens, NEW a \in Addrs
          PROVE  LegsMoved(top', got, g2, g3, g4, u, a)
                   = LegsMoved(top, g1, g2, g3, g4, u, a) + Net(u = t, from, to, amount, got, a)
      BY <1>1, <1>2, <1>7, <2>1, <2>2
         DEF LegsMoved, MakerLeg, TakerLeg, PayoutLeg, TipLeg, Net
    <2>. QED
      BY <1>8, <2>2, <2>3
  <1>10. CASE PullTaker
    <2>1. top.pc = "pullTaker" /\ top'.pc = "payout"
      BY <1>10, LegGoesOn
    <2>2. /\ t = top.order.buyToken /\ amount = top.order.buyAmount
          /\ from = top.caller /\ to = top.order.recipient
      BY <1>4, <2>1 DEF Leg, PullMaker, Payout, PayTip, InCall
    <2>3. ASSUME NEW u \in Tokens, NEW a \in Addrs
          PROVE  LegsMoved(top', g1, got, g3, g4, u, a)
                   = LegsMoved(top, g1, g2, g3, g4, u, a) + Net(u = t, from, to, amount, got, a)
      <3>1. TakerLeg(top', got, u, a) = Net(u = t, from, to, amount, got, a)
            /\ TakerLeg(top, g2, u, a) = 0
        BY <1>1, <1>2, <2>1, <2>2 DEF TakerLeg, Net
      <3>2. /\ MakerLeg(top', g1, u, a) = MakerLeg(top, g1, u, a)
            /\ PayoutLeg(top', g3, u, a) = 0 /\ PayoutLeg(top, g3, u, a) = 0
            /\ TipLeg(top', g4, u, a) = 0 /\ TipLeg(top, g4, u, a) = 0
        BY <1>1, <2>1 DEF MakerLeg, PayoutLeg, TipLeg, Net
      <3>3. MakerLeg(top, g1, u, a) \in Int /\ Net(u = t, from, to, amount, got, a) \in Int
        BY <1>2 DEF MakerLeg, Net
      <3>. QED
        BY <3>1, <3>2, <3>3 DEF LegsMoved
    <2>. QED
      BY <1>8, <2>2, <2>3
  <1>11. CASE Payout
    <2>1. top.pc = "payout" /\ top'.pc = IF Tip(top) # 0 THEN "payTip" ELSE "check"
      BY <1>11, LegGoesOn
    <2>2. /\ t = top.order.sellToken /\ amount = top.order.sellAmount
          /\ from = Spartan1 /\ to = TakerAddr(top.order, top.caller)
      BY <1>4, <2>1 DEF Leg, PullMaker, PullTaker, PayTip, InCall
    <2>3. ASSUME NEW u \in Tokens, NEW a \in Addrs
          PROVE  LegsMoved(top', g1, g2, got, g4, u, a)
                   = LegsMoved(top, g1, g2, g3, g4, u, a) + Net(u = t, from, to, amount, got, a)
      <3>1. TipLeg(top', g4, u, a) = 0 /\ TipLeg(top, g4, u, a) = 0
        BY <1>1, <1>2, <1>7, <2>1 DEF TipLeg, Net
      <3>2. /\ PayoutLeg(top', got, u, a) = Net(u = t, from, to, amount, got, a)
            /\ PayoutLeg(top, g3, u, a) = 0
        BY <1>1, <1>2, <2>1, <2>2 DEF PayoutLeg, Net
      <3>3. /\ MakerLeg(top', g1, u, a) = MakerLeg(top, g1, u, a)
            /\ TakerLeg(top', g2, u, a) = TakerLeg(top, g2, u, a)
        BY <1>1, <2>1 DEF MakerLeg, TakerLeg
      <3>4. /\ MakerLeg(top, g1, u, a) \in Int /\ TakerLeg(top, g2, u, a) \in Int
            /\ Net(u = t, from, to, amount, got, a) \in Int
        BY <1>2 DEF MakerLeg, TakerLeg, Net
      <3>. QED
        BY <3>1, <3>2, <3>3, <3>4 DEF LegsMoved
    <2>. QED
      BY <1>8, <2>2, <2>3
  <1>12. CASE PayTip
    <2>1. top.pc = "payTip" /\ top'.pc = "check"
      BY <1>12, LegGoesOn
    <2>2. /\ t = top.order.sellToken /\ amount = Tip(top)
          /\ from = Spartan1 /\ to = top.caller
      BY <1>4, <2>1 DEF Leg, PullMaker, PullTaker, Payout, InCall
    <2>3. ASSUME NEW u \in Tokens, NEW a \in Addrs
          PROVE  LegsMoved(top', g1, g2, g3, got, u, a)
                   = LegsMoved(top, g1, g2, g3, g4, u, a) + Net(u = t, from, to, amount, got, a)
      <3>1. TipLeg(top', got, u, a) = Net(u = t, from, to, amount, got, a)
            /\ TipLeg(top, g4, u, a) = 0
        BY <1>1, <1>2, <1>7, <2>1, <2>2 DEF TipLeg, Net
      <3>2. /\ MakerLeg(top', g1, u, a) = MakerLeg(top, g1, u, a)
            /\ TakerLeg(top', g2, u, a) = TakerLeg(top, g2, u, a)
            /\ PayoutLeg(top', g3, u, a) = PayoutLeg(top, g3, u, a)
        BY <1>1, <2>1 DEF MakerLeg, TakerLeg, PayoutLeg
      <3>3. /\ MakerLeg(top, g1, u, a) \in Int /\ TakerLeg(top, g2, u, a) \in Int
            /\ PayoutLeg(top, g3, u, a) \in Int /\ Net(u = t, from, to, amount, got, a) \in Int
        BY <1>2 DEF MakerLeg, TakerLeg, PayoutLeg, Net
      <3>. QED
        BY <3>1, <3>2, <3>3 DEF LegsMoved
    <2>. QED
      BY <1>8, <2>2, <2>3
  <1>. QED
    BY <1>9, <1>10, <1>11, <1>12
(* A frame that was just entered has moved nothing yet. *)
LEMMA NothingMoved ==
  ASSUME NEW f \in FrameType, FrameChecked(f), now \in Nat, f.pc = "pullMaker"
  PROVE  Accounts(f, f.pre.bal)
  <1>1. /\ 0 \in 0 .. f.requestedAmount /\ 0 \in 0 .. f.order.buyAmount
        /\ 0 \in 0 .. f.order.sellAmount /\ 0 \in 0 .. Tip(f)
    BY FrameTerms DEF Amounts
  <1>2. ASSUME NEW t \in Tokens, NEW a \in Addrs
        PROVE  f.pre.bal[t][a] = f.pre.bal[t][a] + LegsMoved(f, 0, 0, 0, 0, t, a)
    <2>1. f.pre.bal[t][a] \in Int
      BY FrameTerms, ChainNumbers
    <2>2. LegsMoved(f, 0, 0, 0, 0, t, a) = 0
      BY DEF LegsMoved, MakerLeg, TakerLeg, PayoutLeg, TipLeg, Net
    <2>. QED
      BY <2>1, <2>2
  <1>. QED
    BY <1>1, <1>2 DEF Accounts

(* No holder moves tokens meanwhile: then a call's balances are those its legs left. *)
LEMMA FundsStep ==
  ASSUME Movers = {}, TypeInv, FundsInv, [Next]_vars
  PROVE  FundsInv'
  <1>1. ASSUME NEW c \in Callers, NEW o \in Orders, NEW r \in Amounts, NEW n \in Nonces,
               Enter(c, o, r, n)
        PROVE  FundsInv'
    <2>1. stack = <<>> /\ bal' = bal /\ now' = now
      BY <1>1 DEF Enter, LockFree, TypeInv, LockInv
    <2>2. stack' # <<>> /\ top'.pc = "pullMaker" /\ top'.pre.bal = bal
      BY <1>1, <2>1 DEF Enter, top, Chain
    <2>3. TypeInv'
      BY <1>1, TypeEnter
    <2>4. top' = stack'[1] /\ DOMAIN stack' = {1} /\ stack'[1] \in FrameType
      BY <2>2, <2>3 DEF TypeInv, TypeOK, LockInv, top
    <2>5. PICK f : f = stack'[1]
      OBVIOUS
    <2>6. FrameChecked(f)
      <3>1. FrameChecked(f)'
        BY <2>3, <2>4, <2>5 DEF TypeInv, FramesChecked
      <3>. QED
        BY <2>1, <2>2, <2>4, <2>5, <3>1 DEF FrameChecked, WindowRule, Requested
    <2>7. now \in Nat
      BY BoundAssumption DEF TypeInv, TypeOK
    <2>8. Accounts(f, f.pre.bal)
      BY <2>2, <2>4, <2>5, <2>6, <2>7, NothingMoved
    <2>. QED
      BY <2>1, <2>2, <2>4, <2>5, <2>8 DEF FundsInv
  <1>2. ASSUME Commit \/ Revert PROVE FundsInv'
    BY <1>2, OneFrame DEF Commit, Revert, InCall, TypeInv, TypeOK, FundsInv
  <1>3. ASSUME UNCHANGED vars \/ (\E o \in Orders, n \in Nonces : Sign(o, n)) \/ Tick
        PROVE  FundsInv'
    <2>1. stack' = stack /\ bal' = bal /\ top' = top
      BY <1>3 DEF vars, Sign, Tick, top
    <2>. QED
      BY <2>1 DEF FundsInv
  <1>4. \A t \in Tokens, a, b \in Addrs : ~Move(t, a, b)
    BY DEF Move
  <1>. QED
    BY <1>1, <1>2, <1>3, <1>4, FundsLegs DEF Next, Settle, Environment
(* The maker's leg and the two payouts, when all but the tip arrived in full. *)
LEMMA LegsAddUp ==
  ASSUME NEW sell \in Nat, NEW tip \in Nat, NEW req \in Nat, req = sell + tip, NEW g \in Nat,
         NEW self, NEW maker, NEW taker, NEW caller, NEW a,
         maker # self, taker # self, caller # self, NEW t, NEW sold, t = sold
  PROVE  Net(t = sold, maker, self, req, req, a) + 0
           + Net(t = sold, self, taker, sell, sell, a) + Net(t = sold, self, caller, tip, g, a)
         = (IF a = taker THEN sell ELSE 0) + (IF a = caller THEN g ELSE 0)
           - (IF a = maker THEN sell + tip ELSE 0)
  BY DEF Net

(* The contract pays out what it pulled in: so the maker is another, and all arrived. *)
LEMMA AllPulled ==
  ASSUME NEW sell \in Nat \ {0}, NEW tip \in Nat, NEW req \in Nat, req = sell + tip,
         NEW g \in 0 .. req, NEW self, NEW maker, NEW left \in Nat,
         left = g - (IF maker = self THEN req ELSE 0) - sell - tip
  PROVE  maker # self /\ g = req
  OBVIOUS

(* At the checks the legs can only have moved exactly what the swap says: everything  *)
(* but the tip arrived in full, although settle compares two of the balances only.    *)
LEMMA DeltasDetermine ==
  ASSUME NotItsOwn, SettleInv, HeldInv, FundsInv, Commit
  PROVE  /\ \E got \in 0 .. Tip(top) :
              \A t \in Tokens, a \in Addrs :
                bal[t][a] = top.pre.bal[t][a]
                              + Swaps!Change(top.order, top.caller, Tip(top), got, t, a)
         /\ bal[top.order.buyToken][top.order.recipient]
              - top.pre.bal[top.order.buyToken][top.order.recipient] = top.order.buyAmount
         /\ bal[top.order.sellToken][TakerAddr(top.order, top.caller)]
              - top.pre.bal[top.order.sellToken][TakerAddr(top.order, top.caller)]
              = ExpectedTaker(top)
  <1>1. TypeInv /\ stack # <<>> /\ top.pc = "check" /\ DeltasExact(top)
    BY DEF Commit, InCall, SettleInv
  <1>2. PICK f : f = top
    OBVIOUS
  <1>3. /\ f \in FrameType /\ FrameChecked(f) /\ now \in Nat /\ FrameSound(f) /\ f.pc = "check"
    BY <1>1, <1>2, Verified DEF SettleInv
  <1> DEFINE o == f.order
             c == f.caller
             taker == TakerAddr(o, c)
             pre(t, a) == f.pre.bal[t][a]
  <1>4. /\ o.buyToken \in Tokens /\ o.sellToken \in Tokens /\ o.sellToken # o.buyToken
        /\ o.recipient \in Addrs /\ taker \in Addrs /\ c \in Addrs /\ o.maker \in Addrs
        /\ Spartan1 \in Addrs
        /\ o.buyAmount \in Nat /\ o.sellAmount \in Nat /\ o.sellAmount # 0
        /\ Tip(f) \in Nat /\ f.requestedAmount \in Nat
        /\ f.requestedAmount = o.sellAmount + Tip(f)
        /\ c # Spartan1 /\ taker # Spartan1 /\ o.recipient # Spartan1
        /\ ExpectedTaker(f) = o.sellAmount + IF taker = c THEN Tip(f) ELSE 0
    <2>1. o.sellAmount # 0
      BY <1>3 DEF FrameChecked, StaticChecks
    <2>2. c # Spartan1 /\ taker # Spartan1 /\ o.recipient # Spartan1
      BY <1>3, FrameTerms, AddrAssumption DEF NotItsOwn, TakerAddr
    <2>3. o.sellAmount \in Nat /\ Tip(f) \in Nat /\ f.requestedAmount \in Nat
      BY <1>3, FrameTerms DEF Amounts
    <2>4. f.requestedAmount = o.sellAmount + Tip(f)
      BY <2>3 DEF Tip
    <2>5. ExpectedTaker(f) = o.sellAmount + IF taker = c THEN Tip(f) ELSE 0
      BY DEF ExpectedTaker
    <2>. QED
      BY <1>3, <2>1, <2>2, <2>3, <2>4, <2>5, FrameTerms, AddrAssumption
  <1>5. PICK g1 \in 0 .. f.requestedAmount, g2 \in 0 .. o.buyAmount,
             g3 \in 0 .. o.sellAmount, g4 \in 0 .. Tip(f) :
          \A t \in Tokens, a \in Addrs :
            bal[t][a] = pre(t, a) + LegsMoved(f, g1, g2, g3, g4, t, a)
    BY <1>1, <1>2 DEF FundsInv, Accounts
  <1>6. ASSUME NEW t \in Tokens, NEW a \in Addrs
        PROVE  bal[t][a] \in Nat /\ pre(t, a) \in Int
    <2>1. f.pre \in ChainType
      BY <1>3 DEF FrameType
    <2>. QED
      BY <1>1, <2>1, ChainNumbers DEF TypeInv, TypeOK, Chain, ChainType
  <1>7. /\ bal[o.buyToken][o.recipient] - pre(o.buyToken, o.recipient) = o.buyAmount
        /\ bal[o.sellToken][taker] - pre(o.sellToken, taker) = ExpectedTaker(f)
    BY <1>1, <1>2, <1>3 DEF DeltasExact, FrameSound
  <1>8. pre(o.sellToken, Spartan1) = 0
    BY <1>1, <1>2, <1>4 DEF HeldInv
  <1>9. ASSUME NEW t \in Tokens, NEW a \in Addrs
        PROVE  LegsMoved(f, g1, g2, g3, g4, t, a) =
                   Net(t = o.sellToken, o.maker, Spartan1, f.requestedAmount, g1, a)
                 + Net(t = o.buyToken, c, o.recipient, o.buyAmount, g2, a)
                 + Net(t = o.sellToken, Spartan1, taker, o.sellAmount, g3, a)
                 + Net(t = o.sellToken, Spartan1, c, Tip(f), g4, a)
    BY <1>3 DEF LegsMoved, MakerLeg, TakerLeg, PayoutLeg, TipLeg
  <1>10. g2 = o.buyAmount
    <2>1. LegsMoved(f, g1, g2, g3, g4, o.buyToken, o.recipient)
            = g2 - IF o.recipient = c THEN o.buyAmount ELSE 0
      BY <1>4, <1>9 DEF Net
    <2>2. bal[o.buyToken][o.recipient] = pre(o.buyToken, o.recipient)
            + LegsMoved(f, g1, g2, g3, g4, o.buyToken, o.recipient)
      BY <1>4, <1>5
    <2>3. bal[o.buyToken][o.recipient] \in Nat /\ pre(o.buyToken, o.recipient) \in Int
      BY <1>4, <1>6
    <2> HIDE DEF pre, c
    <2>. QED
      BY <1>4, <1>7, <2>1, <2>2, <2>3
  <1>11. o.maker # Spartan1 /\ g1 = f.requestedAmount
    <2>1. LegsMoved(f, g1, g2, g3, g4, o.sellToken, Spartan1)
            = g1 - (IF o.maker = Spartan1 THEN f.requestedAmount ELSE 0) - o.sellAmount - Tip(f)
      BY <1>4, <1>9 DEF Net
    <2>2. bal[o.sellToken][Spartan1] = pre(o.sellToken, Spartan1)
            + LegsMoved(f, g1, g2, g3, g4, o.sellToken, Spartan1)
      BY <1>4, <1>5
    <2>3. bal[o.sellToken][Spartan1] \in Nat
      BY <1>4, <1>6
    <2>4. g1 \in Nat /\ g1 <= f.requestedAmount
      BY <1>4
    <2> HIDE DEF pre
    <2>5. bal[o.sellToken][Spartan1]
            = g1 - (IF o.maker = Spartan1 THEN f.requestedAmount ELSE 0) - o.sellAmount - Tip(f)
      BY <1>4, <1>8, <2>1, <2>2, <2>4
    <2>6. /\ o.sellAmount \in Nat \ {0} /\ Tip(f) \in Nat /\ f.requestedAmount \in Nat
          /\ f.requestedAmount = o.sellAmount + Tip(f) /\ g1 \in 0 .. f.requestedAmount
      BY <1>4
    <2> HIDE DEF o
    <2>. QED
      BY ONLY <2>3, <2>5, <2>6, AllPulled
  <1>12. g3 = o.sellAmount
    <2>1. LegsMoved(f, g1, g2, g3, g4, o.sellToken, taker)
            = g3 + (IF taker = c THEN g4 ELSE 0)
                 - (IF taker = o.maker THEN f.requestedAmount ELSE 0)
      BY <1>4, <1>9 DEF Net
    <2>2. bal[o.sellToken][taker] = pre(o.sellToken, taker)
            + LegsMoved(f, g1, g2, g3, g4, o.sellToken, taker)
      BY <1>4, <1>5
    <2>3. bal[o.sellToken][taker] \in Nat /\ pre(o.sellToken, taker) \in Int
      BY <1>4, <1>6
    <2> HIDE DEF pre, c, taker
    <2>. QED
      BY <1>4, <1>7, <2>1, <2>2, <2>3
  <1>13. ASSUME NEW t \in Tokens, NEW a \in Addrs
         PROVE  bal[t][a] = pre(t, a) + Swaps!Change(o, c, Tip(f), g4, t, a)
    <2>1. LegsMoved(f, g1, g2, g3, g4, t, a)
            = Net(t = o.sellToken, o.maker, Spartan1, f.requestedAmount, f.requestedAmount, a)
            + Net(t = o.buyToken, c, o.recipient, o.buyAmount, o.buyAmount, a)
            + Net(t = o.sellToken, Spartan1, taker, o.sellAmount, o.sellAmount, a)
            + Net(t = o.sellToken, Spartan1, c, Tip(f), g4, a)
      BY <1>9, <1>10, <1>11, <1>12
    <2>2. Swaps!Change(o, c, Tip(f), g4, t, a)
            = (IF t = o.sellToken /\ a = taker THEN o.sellAmount ELSE 0)
            + (IF t = o.sellToken /\ a = c THEN g4 ELSE 0)
            - (IF t = o.sellToken /\ a = o.maker THEN o.sellAmount + Tip(f) ELSE 0)
            + (IF t = o.buyToken /\ a = o.recipient THEN o.buyAmount ELSE 0)
            - (IF t = o.buyToken /\ a = c THEN o.buyAmount ELSE 0)
      BY DEF Swaps!Change, Swaps!If, Swaps!Taker, TakerAddr
    <2>3. LegsMoved(f, g1, g2, g3, g4, t, a) = Swaps!Change(o, c, Tip(f), g4, t, a)
      <3>1. CASE t = o.sellToken
        <4>1. Net(t = o.buyToken, c, o.recipient, o.buyAmount, o.buyAmount, a) = 0
          BY <1>4, <3>1 DEF Net
        <4>2. LegsMoved(f, g1, g2, g3, g4, t, a)
                = (IF a = taker THEN o.sellAmount ELSE 0) + (IF a = c THEN g4 ELSE 0)
                - (IF a = o.maker THEN o.sellAmount + Tip(f) ELSE 0)
          <5>1. /\ o.sellAmount \in Nat /\ Tip(f) \in Nat /\ f.requestedAmount \in Nat
                /\ f.requestedAmount = o.sellAmount + Tip(f) /\ g4 \in Nat
                /\ o.maker # Spartan1 /\ taker # Spartan1 /\ c # Spartan1
            BY <1>4, <1>11
          <5> HIDE DEF taker, c, o
          <5>. QED
            BY ONLY <2>1, <3>1, <4>1, <5>1, LegsAddUp
        <4>3. t # o.buyToken
          BY <1>4, <3>1
        <4>4. /\ o.sellAmount \in Int /\ g4 \in Int /\ o.sellAmount + Tip(f) \in Int
          BY <1>4
        <4> HIDE DEF taker, c, o
        <4>. QED
          BY ONLY <2>2, <3>1, <4>2, <4>3, <4>4
      <3>2. CASE t # o.sellToken
        BY <1>4, <2>1, <2>2, <3>2 DEF Net
      <3>. QED
        BY <3>1, <3>2
    <2>. QED
      BY <1>5, <2>3
  <1>. QED
    BY <1>2, <1>5, <1>7, <1>13
-------------------------------------------------------------------------------
(* The refinement, step by step. *)

SwapInv == SettleInv /\ HeldInv /\ FundsInv

(* Between transactions an observer sees the chain, during one the state of its entry. *)
LEMMA Committed ==
  ASSUME TypeInv
  PROVE  /\ stack = <<>> => CommittedBal = bal /\ CommittedUsed = used
         /\ stack # <<>> => CommittedBal = top.pre.bal /\ CommittedUsed = top.pre.used
  BY OneFrame DEF CommittedBal, CommittedUsed, TypeInv, TypeOK

(* A committed call is one swap, by the caller of its frame. *)
LEMMA CommitSwaps ==
  ASSUME NotItsOwn, SwapInv, Commit
  PROVE  Swaps!Swap(top.order, top.nonce, top.caller)
  <1>1. /\ TypeInv /\ stack # <<>> /\ top.pc = "check" /\ top.pc # "pullMaker"
        /\ FrameSound(top) /\ SettleInv /\ HeldInv /\ FundsInv
    BY DEF Commit, InCall, SwapInv, SettleInv
  <1>2. /\ top \in FrameType /\ FrameChecked(top) /\ now \in Nat
        /\ now <= top.order.deadline /\ <<top.order, top.nonce>> \in signed
    BY <1>1, Verified
  <1>3. stack' = <<>> /\ UNCHANGED <<now, signed, bal, used>>
    BY <1>1, OneFrame DEF Commit, TypeInv, TypeOK
  <1>4. /\ CommittedBal = top.pre.bal /\ CommittedUsed = top.pre.used
        /\ CommittedBal' = bal /\ CommittedUsed' = used
    BY <1>1, <1>3, Committed DEF CommittedBal, CommittedUsed
  <1>5. /\ Tip(top) = (IF now < top.order.fillWindow THEN 0 ELSE top.order.maxTip)
        /\ top.order.fillWindow \in Nat
    BY <1>2, FrameTerms
  <1>6. now < top.order.fillWindow => top.caller = top.order.maker
    BY <1>2 DEF FrameChecked, WindowRule
  <1>7. /\ <<top.order.maker, top.nonce>> \notin CommittedUsed
        /\ CommittedUsed' = CommittedUsed \union {<<top.order.maker, top.nonce>>}
    BY <1>1, <1>4 DEF FrameSound
  <1>8. PICK got \in 0 .. Tip(top) :
          \A t \in Tokens, a \in Addrs :
            bal[t][a] = top.pre.bal[t][a]
                          + Swaps!Change(top.order, top.caller, Tip(top), got, t, a)
    BY <1>1, DeltasDetermine
  <1>9. bal \in [Tokens -> [Addrs -> Nat]]
    BY <1>1 DEF TypeInv, TypeOK, Chain, ChainType
  <1>10. CommittedBal' = [t \in Tokens |-> [a \in Addrs |->
            CommittedBal[t][a] + Swaps!Change(top.order, top.caller, Tip(top), got, t, a)]]
    BY <1>4, <1>8, <1>9
  <1>11. Swaps!Paid(top.order, top.caller, Tip(top))
    BY <1>1, <1>4, DeltasDetermine DEF Swaps!Paid, Swaps!Taker, Swaps!If, TakerAddr, ExpectedTaker
  <1>. QED
    BY <1>2, <1>3, <1>5, <1>6, <1>7, <1>10, <1>11 DEF Swaps!Swap

(* Every other step of settle leaves what is committed as it was. *)
LEMMA OthersStutter ==
  ASSUME TypeInv, TypeInv',
         \/ \E c \in Callers, o \in Orders, r \in Amounts, n \in Nonces : Enter(c, o, r, n)
         \/ PullMaker \/ PullTaker \/ Payout \/ PayTip \/ Revert \/ UNCHANGED vars
  PROVE  UNCHANGED Swaps!vars
  <1>1. ASSUME NEW c \in Callers, NEW o \in Orders, NEW r \in Amounts, NEW n \in Nonces,
               Enter(c, o, r, n)
        PROVE  UNCHANGED <<now, signed, CommittedBal, CommittedUsed>>
    <2>1. stack = <<>>
      BY <1>1 DEF Enter, LockFree, TypeInv, LockInv
    <2>2. stack' # <<>> /\ stack'[1].pre = Chain
      BY <1>1, <2>1 DEF Enter
    <2>. QED
      BY <1>1, <2>1, <2>2 DEF Enter, CommittedBal, CommittedUsed, Chain
  <1>2. ASSUME PullMaker \/ PullTaker \/ Payout \/ PayTip
        PROVE  UNCHANGED <<now, signed, CommittedBal, CommittedUsed>>
    <2>1. stack # <<>> /\ stack' # <<>> /\ top'.pre = top.pre
      BY <1>2, LegGoesOn
    <2>2. top = stack[1]
      BY <2>1, OneFrame DEF TypeInv, TypeOK
    <2>3. top' = stack'[1]
      BY <2>1 DEF TypeInv, LockInv, top
    <2>. QED
      BY <1>2, <2>1, <2>2, <2>3
         DEF PullMaker, PullTaker, Payout, PayTip, CommittedBal, CommittedUsed
  <1>3. ASSUME Revert
        PROVE  UNCHANGED <<now, signed, CommittedBal, CommittedUsed>>
    <2>1. stack # <<>> /\ stack' = <<>> /\ top = stack[1]
      BY <1>3, OneFrame DEF Revert, TypeInv, TypeOK
    <2>. QED
      BY <1>3, <2>1 DEF Revert, CommittedBal, CommittedUsed
  <1>4. ASSUME UNCHANGED vars
        PROVE  UNCHANGED <<now, signed, CommittedBal, CommittedUsed>>
    BY <1>4 DEF vars, CommittedBal, CommittedUsed
  <1>. QED
    BY <1>1, <1>2, <1>3, <1>4 DEF Swaps!vars

(* A commit is one swap, any other step a stutter between transactions. *)
LEMMA StepSwaps ==
  ASSUME Movers = {}, NotItsOwn, SwapInv, [Next]_vars
  PROVE  SwapInv' /\ [Swaps!Next]_(Swaps!vars)
  <1>1. TypeInv /\ SwapInv'
    BY SoundNext, HeldStep, FundsStep DEF SwapInv, SettleInv
  <1>2. TypeInv'
    BY <1>1 DEF SwapInv, SettleInv
  <1>3. CASE Commit
    <2>1. stack # <<>>
      BY <1>3 DEF Commit, InCall
    <2>2. top.order \in Orders /\ top.nonce \in Nonces /\ top.caller \in Callers
      BY <1>1, <2>1, OneFrame DEF TypeInv, TypeOK, FrameType
    <2>. QED
      BY <1>1, <1>3, <2>2, CommitSwaps DEF Swaps!Next
  <1>4. ASSUME NEW o \in Orders, NEW n \in Nonces, Sign(o, n)
        PROVE  Swaps!Sign(o, n)
    BY <1>4 DEF Sign, Swaps!Sign, CommittedBal, CommittedUsed
  <1>5. CASE Tick
    <2>1. Swaps!Tick
      BY <1>5 DEF Tick, Swaps!Tick, CommittedBal, CommittedUsed
    <2>. QED
      BY <1>1, <2>1 DEF Swaps!Next
  <1>6. \A t \in Tokens, a, b \in Addrs : ~Move(t, a, b)
    BY DEF Move
  <1>7. CASE \/ \E c \in Callers, o \in Orders, r \in Amounts, n \in Nonces : Enter(c, o, r, n)
             \/ PullMaker \/ PullTaker \/ Payout \/ PayTip \/ Revert \/ UNCHANGED vars
    BY <1>1, <1>2, <1>7, OthersStutter
  <1>8. CASE \E o \in Orders, n \in Nonces : Sign(o, n)
    BY <1>1, <1>4, <1>8 DEF Swaps!Next
  <1>. QED
    BY <1>3, <1>5, <1>6, <1>7, <1>8 DEF Next, Settle, Environment

(* What an observer between transactions sees of settle is an atomic exact swap: a     *)
(* signed order settles at most once, in its window, for exactly the signed amounts,    *)
(* and a call that fails changed nothing.  Holders move nothing of their own meanwhile, *)
(* the contract starts empty, and no order names it as taker or recipient.              *)
THEOREM SettleIsAtomicSwap ==
  ASSUME Movers = {}, NotItsOwn, StartsEmpty
  PROVE  Spec => ImplementsExactSwap
  <1>1. Init => SwapInv /\ Swaps!Init
    <2> SUFFICES ASSUME Init PROVE SwapInv /\ Swaps!Init
      OBVIOUS
    <2>1. SettleInv /\ TypeInv
      BY SoundInit, TypeInit
    <2>2. HeldInv
      BY <2>1 DEF Init, HeldInv, StartsEmpty
    <2>3. FundsInv
      BY DEF Init, FundsInv
    <2>4. Swaps!Init
      BY DEF Init, Swaps!Init, CommittedBal, CommittedUsed
    <2>. QED
      BY <2>1, <2>2, <2>3, <2>4 DEF SwapInv
  <1>2. SwapInv /\ [Next]_vars => SwapInv' /\ [Swaps!Next]_(Swaps!vars)
    BY StepSwaps
  <1>. QED
    BY <1>1, <1>2, PTL DEF Spec, ImplementsExactSwap, Swaps!Spec
===============================================================================
