----------------------------- MODULE MCOrderGate -----------------------------
(* Values of the gate's constants for the model checker.                   *)
EXTENDS OrderGateBudget, TLC

CONSTANTS c1, c2, spy, btc

Terms1 == [universe |-> {spy}, maxOrder |-> 1, maxExposure |-> 1,
           maxLeverage |-> 1, funding |-> 2, maxTrades |-> 1, expires |-> 1]

Terms2 == [Terms1 EXCEPT !.maxExposure = 2, !.expires = 2]

\* One mandate, generous in orders and tight in exposure.
MCTight == {[Terms1 EXCEPT !.maxOrder = 2, !.maxExposure = 2, !.maxTrades = 3, !.expires = 2]}

\* A mandate that expires at the first midnight and one that outlives the run.
MCBoth == {Terms1, Terms2}

\* Buys, and a sell large enough to flip a long position.
MCSizes == {1, -2}
MCBuy == {1}

Callers == Permutations({c1, c2})
=============================================================================
