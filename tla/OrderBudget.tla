----------------------------- MODULE OrderBudget -----------------------------
(***************************************************************************)
(* What the gate promises of max_trades_per_day, free of files and locks:  *)
(* the orders the broker takes on one UTC day stay within Cap, but for     *)
(* those whose count was lost to a dropped answer or a dead process, and   *)
(* once more Cap for each time the counter failed open.                    *)
(***************************************************************************)
EXTENDS Naturals

CONSTANTS Cap, MaxDay

VARIABLES day, placed, uncounted, blind

vars == <<day, placed, uncounted, blind>>

Days == 0 .. MaxDay

Init ==
    /\ day = 0
    /\ placed = [d \in Days |-> 0]
    /\ uncounted = [d \in Days |-> 0]
    /\ blind = [d \in Days |-> 0]

Add(f, d) == [f EXCEPT ![d] = @ + 1]

\* The broker takes an order; its count may be lost in the same step.
Place ==
    /\ placed[day] < Cap + uncounted[day] + Cap * blind[day]
    /\ placed' = Add(placed, day)
    /\ uncounted' \in {uncounted, Add(uncounted, day)}
    /\ UNCHANGED <<day, blind>>

\* The count of an order of today or of an earlier day is lost later on.
LoseCount ==
    /\ \E d \in 0 .. day : uncounted' = Add(uncounted, d)
    /\ UNCHANGED <<day, placed, blind>>

\* Today's count is forgotten.
GoBlind ==
    /\ blind' = Add(blind, day)
    /\ UNCHANGED <<day, placed, uncounted>>

Midnight ==
    /\ day < MaxDay
    /\ day' = day + 1
    /\ UNCHANGED <<placed, uncounted, blind>>

Next == Place \/ LoseCount \/ GoBlind \/ Midnight

Spec == Init /\ [][Next]_vars
=============================================================================
