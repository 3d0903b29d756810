--------------------------------- MODULE MCDApp ---------------------------------
(***************************************************************************)
(* An instance of DApp for TLC.                                            *)
(***************************************************************************)
EXTENDS DApp, TLC

CONSTANTS spartan, other, c1, c2, c3, c4

Good == [id |-> 1, claim |-> spartan, complete |-> TRUE, inverted |-> TRUE,
         encodes |-> TRUE, placebo |-> FALSE]

\* A good quote, a maker's placebo, one that lacks a field of its order, one that
\* claims another address and one that shows other amounts than it settles.
MCQuotes == {Good, [Good EXCEPT !.id = 2, !.claim = Unclaimed, !.placebo = TRUE],
             [Good EXCEPT !.id = 3, !.claim = Unclaimed, !.encodes = FALSE],
             [Good EXCEPT !.id = 4, !.claim = other],
             [Good EXCEPT !.id = 5, !.inverted = FALSE]}
MCClicks == {c1, c2, c3, c4}
Symmetry == Permutations(MCClicks)
===============================================================================
