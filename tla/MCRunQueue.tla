----------------------------- MODULE MCRunQueue -----------------------------
(* Values of the run queue's constants for the model checker.              *)
EXTENDS RunQueueLife, TLC

CONSTANTS w1, w2

\* WORKER_ID is unset (hostname and random suffix) or different in each process.
MCDistinct == [w \in Workers |-> w]

Trouble(rpc, slow, crash, stop_) ==
    [rpc |-> rpc, slow |-> slow, crash |-> crash, stop |-> stop_]

MCEach == Trouble(1, 1, 1, 1)
MCNoStop == Trouble(1, 1, 1, 0)

Processes2 == Permutations({w1, w2})
=============================================================================
