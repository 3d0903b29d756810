---------------------------------- MODULE DApp ----------------------------------
(***************************************************************************)
(* The dApp (the script of src/distribution/index.html).  Each click       *)
(* starts a handler; handlers run on one thread and interleave at their    *)
(* awaits: the wallet, its chain id, a signature, a relay's answer.  They  *)
(* share pendingOrder, pendingQuote, the buttons and the input fields,     *)
(* which the user may edit, as the wallet may change its chain or account, *)
(* at any await.  Buttons are not disabled while a handler runs.           *)
(***************************************************************************)
EXTENDS Integers

CONSTANTS
  Clicks,    \* bound: the clicks the user makes, each with its handler
  Spenders, Chains, Accounts,  \* what the fields and the wallet may hold
  Quotes,    \* answers with status 200 and a JSON object
  Relays,    \* how many relays a search asks: selectRelays (with none it throws at once)
  MaxClock   \* bound on the clock

\* What the guard and the encoding tell apart: the address `to` and `allowanceTarget`
\* claim (Unclaimed if absent), order, nonce and signature being there, the flat fields
\* inverting the order, the order having every field, settleable === false.
Unclaimed == "unclaimed"
QuoteType == [id : Nat, claim : Spenders \union {Unclaimed}, complete : BOOLEAN,
              inverted : BOOLEAN, encodes : BOOLEAN, placebo : BOOLEAN]

ASSUME DAppAssumption ==
  Quotes \subseteq QuoteType /\ Relays \in Nat \ {0} /\ MaxClock \in Nat

VARIABLES
  clock,
  fields,   \* the inputs spartan1 and chainId
  wallet,   \* window.ethereum: its account and chain
  pending,  \* pendingOrder and pendingQuote
  screen,   \* the order and the quote on display, and the buttons that are enabled
  click,    \* the handlers
  signed,   \* the signatures posted to relays
  sent,     \* the transactions the wallet sent
  shown     \* history: the quotes that were displayed for settling

vars == <<clock, fields, wallet, pending, screen, click, signed, sent, shown>>
outside == <<clock, fields, wallet>>

Nothing == [id |-> 0]
Idle == [at |-> "idle"]
Done == [at |-> "done"]
At(c, place) == click[c].at = place
Goes(c, state) == click' = [click EXCEPT ![c] = state]
Ends(c) == Goes(c, Done)

Click(c, state) ==
  /\ click[c] = Idle
  /\ Goes(c, state)
  /\ UNCHANGED <<outside, pending, screen, signed, sent, shown>>

\* A wallet that refuses, another chain, a check that fails or a relay that is down
\* throws to the handler's catch; only tQuote's overwrites what is on display.
Fails(c) ==
  /\ click[c] \notin {Idle, Done}
  /\ screen' = IF At(c, "fetching") THEN [screen EXCEPT !.quote = Nothing] ELSE screen
  /\ Ends(c)
  /\ UNCHANGED <<outside, pending, signed, sent, shown>>
-------------------------------------------------------------------------------
(* The maker: mSign, mSubmit *)

OrderFor(encodes) ==
  [id |-> 1, maker |-> wallet.account, built |-> clock, encodes |-> encodes]

BuildUnshown(c, encodes) ==                                        \* mutant
  LET o == OrderFor(encodes) IN
  /\ At(c, "mSign")
  /\ pending' = [pending EXCEPT !.order = o]
  /\ screen' = IF screen.submit THEN screen ELSE [screen EXCEPT !.order = o, !.submit = TRUE]
  /\ Ends(c)
  /\ UNCHANGED <<outside, signed, sent, shown>>

\* wallet() has answered: the order is built for its account and the time, and shown.
\* One with a field its type does not hold throws in witness(), behind the assignment.
BuildOrder(c, encodes) ==
  LET o == OrderFor(encodes) IN
  /\ At(c, "mSign")
  /\ pending' = [pending EXCEPT !.order = o]
  /\ screen' = IF encodes THEN [screen EXCEPT !.order = o, !.submit = TRUE] ELSE screen
  /\ Ends(c)
  /\ UNCHANGED <<outside, signed, sent, shown>>

GetAccount(c) ==
  /\ At(c, "mSubmit")
  /\ Goes(c, [at |-> "mChain", account |-> wallet.account])
  /\ UNCHANGED <<outside, pending, screen, signed, sent, shown>>

\* getChainId() has answered: what the wallet is asked to sign is read only now, and is
\* refused when it does not encode (signTypedData checks what witness() does).
AskForSignature(c) ==
  /\ At(c, "mChain") /\ wallet.chain = fields.chain /\ pending.order.encodes
  /\ Goes(c, [at |-> "signing", order |-> pending.order, account |-> click[c].account,
              chain |-> fields.chain, spender |-> fields.spender])
  /\ UNCHANGED <<outside, pending, screen, signed, sent, shown>>

\* The signature is fanned out to the relays, with the fresh nonce of this click.
FanOut(c) ==
  LET s == click[c] IN
  /\ At(c, "signing")
  /\ signed' = signed \union {[order |-> s.order, by |-> s.account, chain |-> s.chain,
                               spender |-> s.spender, nonce |-> c]}
  /\ Ends(c)
  /\ UNCHANGED <<outside, pending, screen, sent, shown>>
-------------------------------------------------------------------------------
(* The taker: tQuote, tSettle *)

AssertQuoteSafe(q, spender) == q.complete /\ q.inverted /\ q.claim \in {spender, Unclaimed}

NextRelayTwice(c) ==                                               \* mutant
  /\ At(c, "fetching")
  /\ IF click[c].left > 0 THEN Goes(c, [click[c] EXCEPT !.left = @ - 1]) ELSE Ends(c)
  /\ screen' = IF click[c].left > 0 THEN screen ELSE [screen EXCEPT !.quote = Nothing]
  /\ UNCHANGED <<outside, pending, signed, sent, shown>>

\* No quote (any other status), or one the guard refuses: the next relay, or the end.
NextRelay(c) ==
  /\ At(c, "fetching")
  /\ IF click[c].left > 1 THEN Goes(c, [click[c] EXCEPT !.left = @ - 1])
     ELSE Ends(c)
  /\ screen' = IF click[c].left > 1 THEN screen ELSE [screen EXCEPT !.quote = Nothing]
  /\ UNCHANGED <<outside, pending, signed, sent, shown>>

\* An order that lacks a field throws in witness(), behind the assignment.
TakeQuote(c, q) ==
  /\ At(c, "fetching") /\ AssertQuoteSafe(q, fields.spender)
  /\ pending' = [pending EXCEPT !.quote = q]
  /\ screen' = IF q.encodes THEN [screen EXCEPT !.quote = q, !.settle = ~q.placebo]
               ELSE [screen EXCEPT !.quote = Nothing]
  /\ shown' = IF q.encodes THEN shown \union {q} ELSE shown
  /\ Ends(c)
  /\ UNCHANGED <<outside, signed, sent>>

RecheckButton(c) ==                                                \* mutant
  /\ At(c, "tSettle") /\ AssertQuoteSafe(pending.quote, fields.spender)
  /\ Goes(c, [at |-> "tChain", quote |-> pending.quote])
  /\ UNCHANGED <<outside, pending, screen, signed, sent, shown>>

\* wallet() has answered: the pending quote is read and checked again.
Recheck(c) ==
  /\ At(c, "tSettle")
  /\ AssertQuoteSafe(pending.quote, fields.spender) /\ ~pending.quote.placebo
  /\ Goes(c, [at |-> "tChain", quote |-> pending.quote])
  /\ UNCHANGED <<outside, pending, screen, signed, sent, shown>>

\* getChainId() has answered: to the spender configured now.
Send(c) ==
  LET q == click[c].quote IN
  /\ At(c, "tChain") /\ wallet.chain = fields.chain /\ q.encodes
  /\ Goes(c, [at |-> "sending", quote |-> q, to |-> fields.spender])
  /\ UNCHANGED <<outside, pending, screen, signed, sent, shown>>

\* The user confirms in the wallet, which sends on the chain it is on (chain: null).
Confirm(c) ==
  /\ At(c, "sending")
  /\ sent' = sent \union {[quote |-> click[c].quote, to |-> click[c].to,
                           chain |-> wallet.chain]}
  /\ Ends(c)
  /\ UNCHANGED <<outside, pending, screen, signed, shown>>
-------------------------------------------------------------------------------
(* The user edits, the wallet switches, time passes *)

Edit(field, value) ==
  /\ fields' = [fields EXCEPT ![field] = value]
  /\ UNCHANGED <<clock, wallet, pending, screen, click, signed, sent, shown>>

Switch(part, value) ==
  /\ wallet' = [wallet EXCEPT ![part] = value]
  /\ UNCHANGED <<clock, fields, pending, screen, click, signed, sent, shown>>

Tick ==
  /\ clock < MaxClock
  /\ clock' = clock + 1
  /\ UNCHANGED <<fields, wallet, pending, screen, click, signed, sent, shown>>

Init ==
  /\ clock = 0
  /\ fields \in [spender : Spenders, chain : Chains]
  /\ wallet \in [account : Accounts, chain : Chains]
  /\ pending = [order |-> Nothing, quote |-> Nothing]
  /\ screen = [order |-> Nothing, quote |-> Nothing, submit |-> FALSE, settle |-> FALSE]
  /\ click = [c \in Clicks |-> Idle]
  /\ signed = {} /\ sent = {} /\ shown = {}

Next ==
  \/ \E c \in Clicks :
       \/ Click(c, [at |-> "mSign"])
       \/ \E encodes \in BOOLEAN : BuildOrder(c, encodes)
       \/ (screen.submit /\ Click(c, [at |-> "mSubmit"]))
       \/ GetAccount(c) \/ AskForSignature(c) \/ FanOut(c)
       \/ Click(c, [at |-> "fetching", left |-> Relays]) \/ NextRelay(c)
       \/ \E q \in Quotes : TakeQuote(c, q)
       \/ (screen.settle /\ Click(c, [at |-> "tSettle"]))
       \/ Recheck(c) \/ Send(c) \/ Confirm(c)
       \/ Fails(c)
  \/ \E s \in Spenders : Edit("spender", s)
  \/ \E n \in Chains : Edit("chain", n) \/ Switch("chain", n)
  \/ \E a \in Accounts : Switch("account", a)
  \/ Tick

Spec == Init /\ [][Next]_vars
-------------------------------------------------------------------------------
(* Properties *)

OrderType == [id : {1}, maker : Accounts, built : 0 .. clock, encodes : BOOLEAN]

\* Types: a handler only ever waits where the script awaits, a search has a relay
\* left to ask, and buttons are enabled only behind an order, or a quote, that exists.
TypeOK ==
  /\ clock \in 0 .. MaxClock
  /\ fields \in [spender : Spenders, chain : Chains]
  /\ wallet \in [account : Accounts, chain : Chains]
  /\ pending.order \in OrderType \union {Nothing} /\ pending.quote \in Quotes \union {Nothing}
  /\ screen.submit => pending.order # Nothing
  /\ screen.settle => pending.quote # Nothing
  /\ \A c \in Clicks :
       \/ click[c] \in {Idle, Done} \/ At(c, "mSign") \/ At(c, "tSettle")
       \/ At(c, "mSubmit") \/ (At(c, "mChain") /\ click[c].account \in Accounts)
       \/ (At(c, "signing") /\ click[c].order \in OrderType)
       \/ (At(c, "fetching") /\ click[c].left \in 1 .. Relays)
       \/ At(c, "tChain") \/ (At(c, "sending") /\ click[c].quote \in Quotes)

\* However handlers interleave with each other, with edits and with the wallet: what
\* the wallet sends is a quote that was on display, as what it settles, and that its
\* maker did not mark as one that cannot settle.
SettledWasShown ==
  \A t \in sent : t.quote \in shown /\ t.quote.inverted /\ ~t.quote.placebo

\* What the wallet is asked to sign is the order whose hash is on display just then,
\* for the chain it said it was on, however old the click is.
SignedWasShown ==
  [][\A c \in Clicks :
       ~At(c, "signing") /\ click'[c].at = "signing" =>
         click'[c].order = screen.order /\ click'[c].chain = wallet.chain]_vars
===============================================================================
