---------------------------- MODULE RunQueueLife ----------------------------
(* The queue and its workers implement the life of a run.                  *)
EXTENDS RunQueue

Life == INSTANCE RunLife WITH
            status <- [r \in Runs |-> row[r].status], claims <- claims,
            refunds <- refunds, answers <- answers, artifacts <- persisted

\* With one WORKER_ID per process: whatever is retried, lost, taken over or answered
\* late, the rows, the refunds and the artifacts of the runs only ever take the steps
\* of their lives.
ImplementsRunLife == Life!Spec
=============================================================================
