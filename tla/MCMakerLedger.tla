----------------------------- MODULE MCMakerLedger -----------------------------
(***************************************************************************)
(* Instances of MakerLedger for TLC.                                       *)
(***************************************************************************)
EXTENDS MakerLedger, TLC

CONSTANTS W, D   \* a stocked token, and one the maker does not stock

Out(t, n) == [token |-> t, sell |-> n, buy |-> Absent]
In(t, n) == [token |-> t, sell |-> Absent, buy |-> n]

\* Requests for one and two units (three with the tip), for what one or four units
\* buy (which may round to nothing), of a token not in stock, and with both amounts.
MCAsks == {Out(W, 1), Out(W, 2), In(W, 1), In(W, 4), Out(D, 1),
           [token |-> W, sell |-> 1, buy |-> 1]}

\* A rate of one below the spread floor, and one of 3/2 above it.
MCFeeds == {[num |-> 1, den |-> 1, spread |-> 0], [num |-> 3, den |-> 2, spread |-> 3000]}

\* Three units in stock and a window cap above it, so that each check binds sometimes:
\* some small quotes fit, or a large one.
MCInventory == [t \in {W} |-> 3]
MCMaxQuote == [t \in {W} |-> 3]
MCMaxWindow == [t \in {W} |-> 4]

Threads == Permutations(Requests)
===============================================================================
