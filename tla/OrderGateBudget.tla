--------------------------- MODULE OrderGateBudget ---------------------------
(* The gate implements the daily order budget.                             *)
EXTENDS OrderGate

Budget == INSTANCE OrderBudget WITH
              Cap <- Cap, MaxDay <- MaxDay,
              day <- day, placed <- placed, uncounted <- uncounted, blind <- blind

\* The files, the lock and the history of the gate, read as a budget, only ever
\* take the steps of the budget.
ImplementsBudget == Budget!Spec
=============================================================================
