------------------------------ MODULE DAppProofs ------------------------------
(***************************************************************************)
(* Theorems about the dApp, for any number of clicks and whatever relays   *)
(* answer.  The inductive invariant is about the two windows between an    *)
(* assignment and what is displayed: a pending order or quote that encodes *)
(* is the one on display, or was displayed, and each handler carries only  *)
(* what it checked.                                                        *)
(***************************************************************************)
EXTENDS DApp, TLAPS

(* What a handler may carry at each of its awaits. *)
Waiting(places) == [at : places]
Asked == [at : {"mChain"}, account : Accounts]
Signing == [at : {"signing"}, order : OrderType, account : Accounts, chain : Chains,
            spender : Spenders]
Fetching == [at : {"fetching"}, left : 1 .. Relays]
Rechecked == [at : {"tChain"}, quote : Quotes]
Sending == [at : {"sending"}, quote : Quotes, to : Spenders]
Handler == Waiting({"idle", "done", "mSign", "mSubmit", "tSettle"})
             \union Asked \union Signing \union Fetching \union Rechecked \union Sending

Typed ==
  /\ clock \in 0 .. MaxClock
  /\ fields \in [spender : Spenders, chain : Chains]
  /\ wallet \in [account : Accounts, chain : Chains]
  /\ pending \in [order : OrderType \union {Nothing}, quote : Quotes \union {Nothing}]
  /\ screen \in [order : OrderType \union {Nothing}, quote : Quotes \union {Nothing},
                 submit : BOOLEAN, settle : BOOLEAN]
  /\ click \in [Clicks -> Handler]

(* A button, and a handler that a button started, has something pending. *)
Backed ==
  /\ screen.submit => pending.order # Nothing
  /\ screen.settle => pending.quote # Nothing
  /\ \A c \in Clicks :
       /\ click[c].at \in {"mSubmit", "mChain"} => pending.order # Nothing
       /\ click[c].at = "tSettle" => pending.quote # Nothing

(* A pending order or quote that encodes is displayed, a quote was so from then on. *)
Displayed ==
  /\ pending.order # Nothing /\ pending.order.encodes => screen.order = pending.order
  /\ pending.quote # Nothing /\ pending.quote.encodes => pending.quote \in shown

(* What is past the second check passed it, and what is past the encoding was shown. *)
Checked ==
  /\ \A c \in Clicks :
       click[c].at \in {"tChain", "sending"} =>
         LET q == click[c].quote IN
         /\ q.inverted /\ ~q.placebo
         /\ q.encodes => q \in shown
         /\ click[c].at = "sending" => q.encodes
  /\ SettledWasShown

DAppInv == Typed /\ Backed /\ Displayed /\ Checked

(* A pending order or quote is never the placeholder for none. *)
LEMMA RealThings ==
  /\ \A o \in OrderType : o # Nothing /\ o.encodes \in BOOLEAN
  /\ \A q \in Quotes : q # Nothing /\ q \in QuoteType
  <1>1. \A o \in OrderType : o # Nothing /\ o.encodes \in BOOLEAN
    BY DEF OrderType, Nothing
  <1>2. \A q \in Quotes : q \in QuoteType
    BY DAppAssumption
  <1>3. \A q \in QuoteType : "complete" \in DOMAIN q
    BY DEF QuoteType
  <1>4. "complete" \notin DOMAIN Nothing
    BY DEF Nothing
  <1>. QED
    BY <1>1, <1>2, <1>3, <1>4

(* Only the clock changes what an order may look like, and it only allows more. *)
LEMMA SameTypes == clock' = clock => OrderType' = OrderType /\ Handler' = Handler
  BY DEF OrderType, Handler, Waiting, Asked, Signing, Fetching, Rechecked, Sending

(* A handler that goes on and touches nothing that is shared. *)
LEMMA MoveStep ==
  ASSUME DAppInv, NEW c \in Clicks, NEW h \in Handler, Goes(c, h),
         UNCHANGED <<outside, pending, screen, signed, sent, shown>>,
         h.at \in {"mSubmit", "mChain"} => pending.order # Nothing,
         h.at = "tSettle" => pending.quote # Nothing,
         h.at \in {"tChain", "sending"} =>
            /\ h.quote.inverted /\ ~h.quote.placebo /\ (h.quote.encodes => h.quote \in shown)
            /\ h.at = "sending" => h.quote.encodes
  PROVE  DAppInv'
  <1> USE DEF DAppInv
  <1>1. /\ UNCHANGED <<clock, fields, wallet, pending, screen, signed, sent, shown>>
        /\ click' \in [Clicks -> Handler] /\ click'[c] = h
        /\ \A d \in Clicks : d # c => click'[d] = click[d]
    BY DEF Goes, Typed, outside
  <1>2. Typed'
    BY <1>1, SameTypes DEF Typed
  <1>3. Backed'
    BY <1>1 DEF Backed
  <1>4. Displayed'
    BY <1>1 DEF Displayed
  <1>5. Checked'
    BY <1>1 DEF Checked, SettledWasShown
  <1>. QED
    BY <1>2, <1>3, <1>4, <1>5

(* A handler that ends, or asks the next relay, whatever becomes of the quote on display. *)
LEMMA EndStep ==
  ASSUME DAppInv, NEW c \in Clicks,
         NEW h \in Waiting({"done"}) \union Fetching, Goes(c, h),
         \/ UNCHANGED screen
         \/ screen' = [screen EXCEPT !.quote = Nothing],
         UNCHANGED <<outside, pending, shown>>,
         SettledWasShown'
  PROVE  DAppInv'
  <1> USE DEF DAppInv
  <1>1. /\ UNCHANGED <<clock, fields, wallet, pending, shown>>
        /\ click' = [click EXCEPT ![c] = h] /\ h \in Handler /\ h.at \in {"done", "fetching"}
    BY DEF Goes, outside, Waiting, Fetching, Handler
  <1>2. /\ click' \in [Clicks -> Handler] /\ click'[c] = h
        /\ \A d \in Clicks : d # c => click'[d] = click[d]
    BY <1>1 DEF Typed
  <1>3. /\ screen' \in [order : OrderType \union {Nothing}, quote : Quotes \union {Nothing},
                        submit : BOOLEAN, settle : BOOLEAN]
        /\ screen'.order = screen.order /\ screen'.submit = screen.submit
        /\ screen'.settle = screen.settle
    BY DEF Typed
  <1>4. Typed'
    BY <1>1, <1>2, <1>3, SameTypes DEF Typed
  <1>5. Backed'
    BY <1>1, <1>2, <1>3 DEF Backed
  <1>6. Displayed'
    BY <1>1, <1>3 DEF Displayed
  <1>7. Checked'
    BY <1>1, <1>2 DEF Checked
  <1>. QED
    BY <1>4, <1>5, <1>6, <1>7

(* Each of the four buttons starts its handler at its first await. *)
LEMMA ClickStep ==
  ASSUME DAppInv, NEW c \in Clicks,
         \/ Click(c, [at |-> "mSign"])
         \/ screen.submit /\ Click(c, [at |-> "mSubmit"])
         \/ Click(c, [at |-> "fetching", left |-> Relays])
         \/ screen.settle /\ Click(c, [at |-> "tSettle"])
  PROVE  DAppInv'
  <1> USE DEF DAppInv
  <1>1. [at |-> "fetching", left |-> Relays] \in Handler
    BY DAppAssumption DEF Handler, Fetching
  <1>2. \A place \in {"mSign", "mSubmit", "tSettle"} : [at |-> place] \in Handler
    BY DEF Handler, Waiting
  <1>3. CASE Click(c, [at |-> "mSign"])
    BY <1>2, <1>3, MoveStep DEF Click
  <1>4. CASE screen.submit /\ Click(c, [at |-> "mSubmit"])
    BY <1>2, <1>4, MoveStep DEF Click, Backed
  <1>5. CASE Click(c, [at |-> "fetching", left |-> Relays])
    BY <1>1, <1>5, MoveStep DEF Click
  <1>6. CASE screen.settle /\ Click(c, [at |-> "tSettle"])
    BY <1>2, <1>6, MoveStep DEF Click, Backed
  <1>. QED
    BY <1>3, <1>4, <1>5, <1>6

(* mSubmit when the wallet has answered which account it is. *)
LEMMA GetAccountStep == ASSUME DAppInv, NEW c \in Clicks, GetAccount(c) PROVE DAppInv'
  <1> DEFINE h == [at |-> "mChain", account |-> wallet.account]
  <1>1. h \in Handler
    BY DEF Handler, Asked, DAppInv, Typed
  <1>2. pending.order # Nothing
    BY DEF GetAccount, At, DAppInv, Backed
  <1>3. h.at = "mChain"
    OBVIOUS
  <1>4. Goes(c, h) /\ UNCHANGED <<outside, pending, screen, signed, sent, shown>>
    BY DEF GetAccount
  <1> HIDE DEF h
  <1>. QED
    BY <1>1, <1>2, <1>3, <1>4, MoveStep

(* What the wallet is asked to sign is the pending order, which is the one on display. *)
LEMMA AskStep ==
  ASSUME DAppInv, NEW c \in Clicks, AskForSignature(c)
  PROVE  /\ DAppInv'
         /\ click'[c].order = screen.order /\ click'[c].chain = wallet.chain
  <1> USE DEF DAppInv
  <1> DEFINE h == [at |-> "signing", order |-> pending.order, account |-> click[c].account,
                   chain |-> fields.chain, spender |-> fields.spender]
  <1>1. /\ At(c, "mChain") /\ wallet.chain = fields.chain /\ pending.order.encodes
        /\ Goes(c, h) /\ UNCHANGED <<outside, pending, screen, signed, sent, shown>>
    BY DEF AskForSignature
  <1>2. pending.order # Nothing /\ pending.order \in OrderType
    BY <1>1 DEF At, Backed, Typed
  <1>3. click[c] \in Asked
    BY <1>1 DEF At, Typed, Handler, Waiting, Signing, Fetching, Rechecked, Sending
  <1>4. h \in Handler
    BY <1>2, <1>3 DEF Handler, Signing, Asked, Typed
  <1>5. h.at = "signing" /\ h.order = pending.order /\ h.chain = fields.chain
    OBVIOUS
  <1>6. screen.order = pending.order
    BY <1>1, <1>2 DEF Displayed
  <1>7. click'[c] = h
    BY <1>1 DEF Goes, Typed
  <1> HIDE DEF h
  <1>. QED
    BY <1>1, <1>4, <1>5, <1>6, <1>7, MoveStep

(* tSettle when the wallet has answered: the quote now pending is checked again. *)
LEMMA RecheckStep == ASSUME DAppInv, NEW c \in Clicks, Recheck(c) PROVE DAppInv'
  <1> USE DEF DAppInv
  <1> DEFINE h == [at |-> "tChain", quote |-> pending.quote]
  <1>1. /\ At(c, "tSettle") /\ pending.quote.inverted /\ ~pending.quote.placebo
        /\ Goes(c, h) /\ UNCHANGED <<outside, pending, screen, signed, sent, shown>>
    BY DEF Recheck, AssertQuoteSafe
  <1>2. pending.quote \in Quotes /\ pending.quote # Nothing
    BY <1>1 DEF At, Backed, Typed
  <1>3. h \in Handler
    BY <1>2 DEF Handler, Rechecked
  <1>4. h.at = "tChain" /\ h.quote = pending.quote
    OBVIOUS
  <1>5. pending.quote.encodes => pending.quote \in shown
    BY <1>2 DEF Displayed
  <1> HIDE DEF h
  <1>. QED
    BY <1>1, <1>3, <1>4, <1>5, MoveStep

(* tSettle past the chain check: the call is encoded and handed to the wallet. *)
LEMMA SendStep == ASSUME DAppInv, NEW c \in Clicks, Send(c) PROVE DAppInv'
  <1> USE DEF DAppInv
  <1> DEFINE q == click[c].quote
             h == [at |-> "sending", quote |-> q, to |-> fields.spender]
  <1>1. /\ click[c].at = "tChain" /\ q.encodes
        /\ Goes(c, h) /\ UNCHANGED <<outside, pending, screen, signed, sent, shown>>
    BY DEF Send, At
  <1>2. click[c] \in Rechecked
    BY <1>1 DEF Typed, Handler, Waiting, Signing, Fetching, Asked, Sending
  <1>3. h \in Handler
    BY <1>2 DEF Handler, Rechecked, Sending, Typed
  <1>4. h.at = "sending" /\ h.quote = q
    OBVIOUS
  <1>5. q.inverted /\ ~q.placebo /\ (q.encodes => q \in shown)
    BY <1>1 DEF Checked
  <1> HIDE DEF h, q
  <1>. QED
    BY <1>1, <1>3, <1>4, <1>5, MoveStep

(* Every way into a handler's catch. *)
LEMMA FailsStep == ASSUME DAppInv, NEW c \in Clicks, Fails(c) PROVE DAppInv'
  <1>1. SettledWasShown'
    BY DEF Fails, DAppInv, Checked, SettledWasShown
  <1>2. Done \in Waiting({"done"})
    BY DEF Done, Waiting
  <1>. QED
    BY <1>1, <1>2, EndStep DEF Fails, Ends

(* mSubmit past the signature: the order goes out to the relays. *)
LEMMA FanOutStep == ASSUME DAppInv, NEW c \in Clicks, FanOut(c) PROVE DAppInv'
  <1>1. SettledWasShown'
    BY DEF FanOut, DAppInv, Checked, SettledWasShown
  <1>2. Done \in Waiting({"done"})
    BY DEF Done, Waiting
  <1>. QED
    BY <1>1, <1>2, EndStep DEF FanOut, Ends

(* tSettle when the wallet has confirmed. *)
LEMMA ConfirmStep == ASSUME DAppInv, NEW c \in Clicks, Confirm(c) PROVE DAppInv'
  <1>1. SettledWasShown'
    <2> DEFINE t == [quote |-> click[c].quote, to |-> click[c].to, chain |-> wallet.chain]
    <2>1. click[c].at = "sending" /\ sent' = sent \union {t} /\ shown' = shown
      BY DEF Confirm, At
    <2>2. t.quote \in shown /\ t.quote.inverted /\ ~t.quote.placebo
      BY <2>1 DEF DAppInv, Checked
    <2> HIDE DEF t
    <2>. QED
      BY <2>1, <2>2 DEF DAppInv, Checked, SettledWasShown
  <1>2. Done \in Waiting({"done"})
    BY DEF Done, Waiting
  <1>. QED
    BY <1>1, <1>2, EndStep DEF Confirm, Ends

(* A search that goes on to the next relay, or has none left. *)
LEMMA NextRelayStep == ASSUME DAppInv, NEW c \in Clicks, NextRelay(c) PROVE DAppInv'
  <1> USE DEF DAppInv
  <1>1. SettledWasShown'
    BY DEF NextRelay, Checked, SettledWasShown
  <1>2. click[c] \in Fetching
    BY DEF NextRelay, At, Typed, Handler, Waiting, Signing, Asked, Rechecked, Sending
  <1>3. CASE click[c].left > 1
    <2> DEFINE h == [click[c] EXCEPT !.left = @ - 1]
    <2>1. h \in Fetching
      BY <1>2, <1>3, DAppAssumption DEF Fetching
    <2>2. Goes(c, h) /\ UNCHANGED screen
      BY <1>3 DEF NextRelay
    <2> HIDE DEF h
    <2>. QED
      BY <1>1, <2>1, <2>2, EndStep DEF NextRelay
  <1>4. CASE ~(click[c].left > 1)
    <2>1. Done \in Waiting({"done"})
      BY DEF Done, Waiting
    <2>. QED
      BY <1>1, <1>4, <2>1, EndStep DEF NextRelay, Ends
  <1>. QED
    BY <1>3, <1>4

(* The order is assigned and, if it encodes, displayed, in one step. *)
LEMMA BuildStep ==
  ASSUME DAppInv, NEW c \in Clicks, NEW encodes \in BOOLEAN, BuildOrder(c, encodes)
  PROVE  DAppInv'
  <1> USE DEF DAppInv
  <1> DEFINE o == OrderFor(encodes)
  <1>1. /\ pending' = [pending EXCEPT !.order = o]
        /\ screen' = IF encodes THEN [screen EXCEPT !.order = o, !.submit = TRUE] ELSE screen
        /\ click' = [click EXCEPT ![c] = Done]
        /\ UNCHANGED <<clock, fields, wallet, signed, sent, shown>>
    BY DEF BuildOrder, Ends, Goes, outside
  <1>2. o \in OrderType /\ o.encodes = encodes /\ o # Nothing
    <2>1. clock \in 0 .. clock /\ wallet.account \in Accounts
      BY DAppAssumption DEF Typed
    <2>2. o \in OrderType /\ o.encodes = encodes
      BY <2>1 DEF OrderFor, OrderType
    <2>. QED
      BY <2>2, RealThings
  <1> HIDE DEF o
  <1>3. Done \in Handler /\ Done.at = "done"
    BY DEF Done, Handler, Waiting
  <1>4. /\ click' \in [Clicks -> Handler]
        /\ \A d \in Clicks : click'[d] = IF d = c THEN Done ELSE click[d]
    BY <1>1, <1>3 DEF Typed
  <1>5. /\ pending' \in [order : OrderType \union {Nothing}, quote : Quotes \union {Nothing}]
        /\ pending'.order = o /\ pending'.quote = pending.quote
    BY <1>1, <1>2 DEF Typed
  <1>6. /\ screen' \in [order : OrderType \union {Nothing}, quote : Quotes \union {Nothing},
                        submit : BOOLEAN, settle : BOOLEAN]
        /\ screen'.settle = screen.settle
        /\ encodes => screen'.order = o
    BY <1>1, <1>2 DEF Typed
  <1>7. Typed'
    BY <1>1, <1>4, <1>5, <1>6, SameTypes DEF Typed
  <1>8. Backed'
    BY <1>2, <1>3, <1>4, <1>5, <1>6 DEF Backed
  <1>9. Displayed'
    BY <1>1, <1>2, <1>5, <1>6 DEF Displayed
  <1>10. Checked'
    BY <1>1, <1>3, <1>4 DEF Checked, SettledWasShown
  <1>. QED
    BY <1>7, <1>8, <1>9, <1>10

(* A search that takes a relay's quote, whether or not it encodes. *)
LEMMA TakeStep ==
  ASSUME DAppInv, NEW c \in Clicks, NEW q \in Quotes, TakeQuote(c, q)
  PROVE  DAppInv'
  <1> USE DEF DAppInv
  <1>1. /\ pending' = [pending EXCEPT !.quote = q]
        /\ screen' = IF q.encodes THEN [screen EXCEPT !.quote = q, !.settle = ~q.placebo]
                     ELSE [screen EXCEPT !.quote = Nothing]
        /\ shown' = IF q.encodes THEN shown \union {q} ELSE shown
        /\ click' = [click EXCEPT ![c] = Done]
        /\ UNCHANGED <<clock, fields, wallet, signed, sent>>
    BY DEF TakeQuote, Ends, Goes, outside
  <1>2. q # Nothing /\ q \in QuoteType
    BY RealThings
  <1>3. Done \in Handler /\ Done.at = "done"
    BY DEF Done, Handler, Waiting
  <1>4. /\ click' \in [Clicks -> Handler]
        /\ \A d \in Clicks : click'[d] = IF d = c THEN Done ELSE click[d]
    BY <1>1, <1>3 DEF Typed
  <1>5. /\ pending' \in [order : OrderType \union {Nothing}, quote : Quotes \union {Nothing}]
        /\ pending'.quote = q /\ pending'.order = pending.order
    BY <1>1 DEF Typed
  <1>6. /\ screen' \in [order : OrderType \union {Nothing}, quote : Quotes \union {Nothing},
                        submit : BOOLEAN, settle : BOOLEAN]
        /\ screen'.submit = screen.submit /\ screen'.order = screen.order
    <2>1. (~q.placebo) \in BOOLEAN
      OBVIOUS
    <2>. QED
      BY <1>1, <2>1 DEF Typed
  <1>7. shown \subseteq shown'
    BY <1>1
  <1>8. Typed'
    BY <1>1, <1>4, <1>5, <1>6, SameTypes DEF Typed
  <1>9. Backed'
    BY <1>2, <1>3, <1>4, <1>5, <1>6 DEF Backed
  <1>10. Displayed'
    BY <1>1, <1>5, <1>6 DEF Displayed
  <1>11. Checked'
    BY <1>1, <1>3, <1>4, <1>7 DEF Checked, SettledWasShown
  <1>. QED
    BY <1>8, <1>9, <1>10, <1>11

(* What the user, the wallet and the time do. *)
LEMMA OutsideStep ==
  ASSUME DAppInv,
         \/ \E s \in Spenders : Edit("spender", s)
         \/ \E n \in Chains : Edit("chain", n) \/ Switch("chain", n)
         \/ \E a \in Accounts : Switch("account", a)
         \/ Tick
  PROVE  DAppInv'
  <1> USE DEF DAppInv
  <1>1. /\ UNCHANGED <<pending, screen, click, signed, sent, shown>>
        /\ fields' \in [spender : Spenders, chain : Chains]
        /\ wallet' \in [account : Accounts, chain : Chains]
    BY DEF Edit, Switch, Tick, Typed
  <1>2. clock' \in 0 .. MaxClock /\ OrderType \subseteq OrderType'
    <2>1. CASE clock' = clock
      BY <2>1, SameTypes DEF Typed
    <2>2. CASE Tick
      <3>1. clock' = clock + 1 /\ clock \in Nat /\ clock' \in 0 .. MaxClock
        BY <2>2, DAppAssumption DEF Tick, Typed
      <3>2. 0 .. clock \subseteq 0 .. clock'
        BY <3>1
      <3>. QED
        BY <3>1, <3>2 DEF OrderType
    <2>. QED
      BY <2>1, <2>2 DEF Edit, Switch
  <1>3. Handler \subseteq Handler'
    <2>1. Signing \subseteq Signing'
      BY <1>2 DEF Signing
    <2>. QED
      BY <2>1 DEF Handler, Waiting, Asked, Fetching, Rechecked, Sending
  <1>4. /\ click \in [Clicks -> Handler']
        /\ pending \in [order : OrderType' \union {Nothing}, quote : Quotes \union {Nothing}]
        /\ screen \in [order : OrderType' \union {Nothing}, quote : Quotes \union {Nothing},
                       submit : BOOLEAN, settle : BOOLEAN]
    BY <1>2, <1>3 DEF Typed
  <1>5. Typed'
    BY <1>1, <1>2, <1>4 DEF Typed
  <1>6. Backed' /\ Displayed' /\ Checked'
    BY <1>1 DEF Backed, Displayed, Checked, SettledWasShown
  <1>. QED
    BY <1>5, <1>6

(* Nothing is pending or displayed when the page has loaded. *)
LEMMA DAppInit == ASSUME Init PROVE DAppInv
  <1>1. /\ clock \in 0 .. MaxClock
        /\ click = [c \in Clicks |-> Idle] /\ Idle \in Handler /\ Idle.at = "idle"
    BY DAppAssumption DEF Init, Idle, Handler, Waiting
  <1>2. Typed
    BY <1>1 DEF Init, Typed
  <1>3. /\ pending.order = Nothing /\ pending.quote = Nothing /\ ~screen.submit /\ ~screen.settle
    BY DEF Init
  <1>4. Backed /\ Displayed /\ Checked
    BY <1>1, <1>3 DEF Init, Backed, Displayed, Checked, SettledWasShown
  <1>. QED
    BY <1>2, <1>4 DEF DAppInv

(* Every step of a handler, of the user and of the wallet keeps the invariant. *)
LEMMA DAppNext == ASSUME DAppInv, [Next]_vars PROVE DAppInv'
  <1>1. ASSUME NEW c \in Clicks,
               \/ Click(c, [at |-> "mSign"])
               \/ screen.submit /\ Click(c, [at |-> "mSubmit"])
               \/ Click(c, [at |-> "fetching", left |-> Relays])
               \/ screen.settle /\ Click(c, [at |-> "tSettle"])
        PROVE  DAppInv'
    BY <1>1, ClickStep
  <1>2. ASSUME NEW c \in Clicks, NEW encodes \in BOOLEAN, BuildOrder(c, encodes)
        PROVE  DAppInv'
    BY <1>2, BuildStep
  <1>3. ASSUME NEW c \in Clicks, GetAccount(c) \/ AskForSignature(c) \/ FanOut(c)
        PROVE  DAppInv'
    BY <1>3, GetAccountStep, AskStep, FanOutStep
  <1>4. ASSUME NEW c \in Clicks, NextRelay(c) \/ \E q \in Quotes : TakeQuote(c, q)
        PROVE  DAppInv'
    BY <1>4, NextRelayStep, TakeStep
  <1>5. ASSUME NEW c \in Clicks, Recheck(c) \/ Send(c) \/ Confirm(c) \/ Fails(c)
        PROVE  DAppInv'
    BY <1>5, RecheckStep, SendStep, ConfirmStep, FailsStep
  <1>6. CASE \/ \E s \in Spenders : Edit("spender", s)
             \/ \E n \in Chains : Edit("chain", n) \/ Switch("chain", n)
             \/ \E a \in Accounts : Switch("account", a)
             \/ Tick
    BY <1>6, OutsideStep
  <1>7. CASE UNCHANGED vars
    <2>1. UNCHANGED <<clock, fields, wallet, pending, screen, click, sent, shown>>
      BY <1>7 DEF vars
    <2>2. Typed'
      BY <2>1, SameTypes DEF DAppInv, Typed
    <2>3. Backed' /\ Displayed' /\ Checked'
      BY <2>1 DEF DAppInv, Backed, Displayed, Checked, SettledWasShown
    <2>. QED
      BY <2>2, <2>3 DEF DAppInv
  <1>. QED
    BY <1>1, <1>2, <1>3, <1>4, <1>5, <1>6, <1>7 DEF Next

-------------------------------------------------------------------------------

(* Between an assignment and its display, between a check and its use: at every await
   what is pending and what a handler carries is what was displayed and checked. *)
THEOREM DAppInvariant == Spec => []DAppInv
  <1>1. Init => DAppInv
    BY DAppInit
  <1>2. DAppInv /\ [Next]_vars => DAppInv'
    BY DAppNext
  <1>. QED
    BY <1>1, <1>2, PTL DEF Spec

(* Handlers only wait where the script awaits, a search has a relay left to ask, and a *)
(* button is enabled only behind an order, or a quote, that exists.                    *)
THEOREM DAppTypeCorrect == Spec => []TypeOK
  <1>1. ASSUME DAppInv PROVE TypeOK
    <2>1. ASSUME NEW c \in Clicks
          PROVE  \/ click[c] \in {Idle, Done} \/ At(c, "mSign") \/ At(c, "tSettle")
                 \/ At(c, "mSubmit") \/ (At(c, "mChain") /\ click[c].account \in Accounts)
                 \/ (At(c, "signing") /\ click[c].order \in OrderType)
                 \/ (At(c, "fetching") /\ click[c].left \in 1 .. Relays)
                 \/ At(c, "tChain") \/ (At(c, "sending") /\ click[c].quote \in Quotes)
      <3>1. click[c] \in Handler
        BY <1>1 DEF DAppInv, Typed
      <3>2. CASE click[c] \in Waiting({"idle", "done", "mSign", "mSubmit", "tSettle"})
        BY <3>2 DEF Waiting, Idle, Done, At
      <3>3. CASE click[c] \in Asked \union Signing \union Fetching
        BY <3>3 DEF Asked, Signing, Fetching, At
      <3>4. CASE click[c] \in Rechecked \union Sending
        BY <3>4 DEF Rechecked, Sending, At
      <3>. QED
        BY <3>1, <3>2, <3>3, <3>4 DEF Handler
    <2>2. /\ clock \in 0 .. MaxClock
          /\ fields \in [spender : Spenders, chain : Chains]
          /\ wallet \in [account : Accounts, chain : Chains]
          /\ pending.order \in OrderType \union {Nothing}
          /\ pending.quote \in Quotes \union {Nothing}
      BY <1>1 DEF DAppInv, Typed
    <2>3. /\ screen.submit => pending.order # Nothing
          /\ screen.settle => pending.quote # Nothing
      BY <1>1 DEF DAppInv, Backed
    <2>. QED
      BY <2>1, <2>2, <2>3 DEF TypeOK
  <1>. QED
    BY <1>1, DAppInvariant, PTL

(* What the wallet sends was on display, as what it settles, and is not marked as a *)
(* quote that cannot settle, whatever was edited or clicked at whichever await.     *)
THEOREM OnlyShownIsSent == Spec => []SettledWasShown
  <1>1. DAppInv => SettledWasShown
    BY DEF DAppInv, Checked
  <1>. QED
    BY <1>1, DAppInvariant, PTL

(* What the wallet is asked to sign is the order on display just then, for its chain. *)
THEOREM OnlyShownIsSigned == Spec => SignedWasShown
  <1> DEFINE Shown ==
        \A c \in Clicks :
          ~At(c, "signing") /\ click'[c].at = "signing" =>
            click'[c].order = screen.order /\ click'[c].chain = wallet.chain
  <1>1. ASSUME DAppInv, [Next]_vars, NEW c \in Clicks, ~At(c, "signing"),
               click'[c].at = "signing"
        PROVE  click'[c].order = screen.order /\ click'[c].chain = wallet.chain
    <2>1. click \in [Clicks -> Handler]
      BY <1>1 DEF DAppInv, Typed
    <2>2. ASSUME NEW d \in Clicks, NEW h, Goes(d, h), h.at # "signing"
          PROVE  FALSE
      BY <1>1, <2>1, <2>2 DEF Goes, At
    <2>3. Done.at # "signing"
      BY DEF Done
    <2>4. click' # click
      BY <1>1 DEF At
    <2>5. ASSUME NEW d \in Clicks
          PROVE  /\ ~Click(d, [at |-> "mSign"]) /\ ~Click(d, [at |-> "mSubmit"])
                 /\ ~Click(d, [at |-> "fetching", left |-> Relays])
                 /\ ~Click(d, [at |-> "tSettle"])
      BY <2>2 DEF Click
    <2>6. ASSUME NEW d \in Clicks
          PROVE  /\ \A encodes \in BOOLEAN : ~BuildOrder(d, encodes)
                 /\ ~FanOut(d) /\ ~Confirm(d) /\ ~Fails(d) /\ \A q \in Quotes : ~TakeQuote(d, q)
      BY <2>2, <2>3 DEF BuildOrder, FanOut, Confirm, Fails, TakeQuote, Ends
    <2>7. ASSUME NEW d \in Clicks PROVE ~GetAccount(d) /\ ~Recheck(d) /\ ~Send(d)
      BY <2>2 DEF GetAccount, Recheck, Send
    <2>8. ASSUME NEW d \in Clicks PROVE ~NextRelay(d)
      <3>1. SUFFICES ASSUME NextRelay(d) PROVE FALSE
        OBVIOUS
      <3>2. click[d] \in Fetching
        BY <2>1, <3>1 DEF NextRelay, At, Handler, Waiting, Signing, Asked, Rechecked, Sending
      <3>3. [click[d] EXCEPT !.left = @ - 1].at # "signing"
        BY <3>2 DEF Fetching
      <3>. QED
        BY <2>2, <2>3, <3>1, <3>3 DEF NextRelay, Ends
    <2>9. /\ ~(UNCHANGED vars) /\ ~Tick
          /\ \A s \in Spenders : ~Edit("spender", s)
          /\ \A n \in Chains : ~Edit("chain", n) /\ ~Switch("chain", n)
          /\ \A a \in Accounts : ~Switch("account", a)
      BY <2>4 DEF vars, Tick, Edit, Switch
    <2>10. \E d \in Clicks : AskForSignature(d)
      <3>1. Next
        BY <1>1, <2>9
      <3>. QED
        BY <2>5, <2>6, <2>7, <2>8, <2>9, <3>1 DEF Next
    <2>11. PICK d \in Clicks : AskForSignature(d)
      BY <2>10
    <2>12. d = c
      BY <1>1, <2>1, <2>11 DEF AskForSignature, Goes, At
    <2>. QED
      BY <1>1, <2>11, <2>12, AskStep
  <1>2. DAppInv /\ [Next]_vars => [Shown]_vars
    BY <1>1
  <1>. QED
    BY <1>2, DAppInvariant, PTL DEF Spec, SignedWasShown

================================================================================
