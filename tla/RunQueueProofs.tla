--------------------------- MODULE RunQueueProofs ---------------------------
(* Proofs about the run queue, for every set of runs and workers; the last *)
(* ones count executions and answers against the troubles that happened.   *)
EXTENDS RunQueueLife, FiniteSetTheorems, TLAPS

-----------------------------------------------------------------------------
(* What a step does to the processes.                                      *)

Procs == [Workers -> Processes]

\* Process w becomes p, and no other process changes.
Becomes(w, p) ==
    /\ p \in Processes
    /\ worker' \in Procs
    /\ worker'[w] = p
    /\ \A v \in Workers \ {w} : worker'[v] = worker[v]

\* Process w moves to stage s and keeps its run and the number of its claim.
MovesTo(w, s) ==
    /\ Becomes(w, worker'[w])
    /\ worker'[w].at = s
    /\ worker'[w].run = worker[w].run
    /\ worker'[w].nth = worker[w].nth

\* A process has a run in hand exactly while it is busy.
Loaded == \A w \in Workers : worker[w].run = NoRun <=> worker[w].at \in {"idle", "down"}

\* Changing one process to a well-typed record keeps the processes well typed.
LEMMA Update ==
    ASSUME worker \in Procs, NEW w \in Workers, NEW p \in Processes,
           worker' = [worker EXCEPT ![w] = p]
    PROVE  Becomes(w, p)
  BY DEF Procs, Becomes

\* What a finished execution may report is well typed.
LEMMA OutcomesTyped ==
    /\ Success \in Outcomes /\ UserInputError \in Outcomes
    /\ SystemError \in Outcomes /\ RunTimeout \in Outcomes
  BY DEF Outcomes

\* The record of a process with nothing in hand is well typed.
LEMMA IdleTyped ==
    /\ Idle \in Processes /\ Idle.run = NoRun /\ Idle.at = "idle"
    /\ Down \in Processes /\ Down.run = NoRun /\ Down.at = "down"
  BY OutcomesTyped DEF Idle, Down, Processes, Stages

\* Putting a process down or to rest.
LEMMA Leaving ==
    ASSUME worker \in Procs, NEW w \in Workers,
           GoesIdle(w) \/ worker' = [worker EXCEPT ![w] = Down]
    PROVE  /\ Becomes(w, worker'[w])
           /\ worker'[w].run = NoRun /\ worker'[w].at \in {"idle", "down"}
  BY IdleTyped, Update DEF GoesIdle, Becomes

\* Changing the stage of a process, and possibly its outcome.
LEMMA Moving ==
    ASSUME worker \in Procs, NEW w \in Workers, NEW s \in Stages, NEW o \in Outcomes,
           \/ worker' = [worker EXCEPT ![w].at = s]
           \/ worker' = [worker EXCEPT ![w].at = s, ![w].outcome = o]
    PROVE  MovesTo(w, s)
<1> DEFINE q == worker[w]
           r1 == [q EXCEPT !.at = s]
           r2 == [r1 EXCEPT !.outcome = o]
<1>0. q \in Processes
  BY DEF Procs
<1>1. r1 \in Processes /\ r1.at = s /\ r1.run = q.run /\ r1.nth = q.nth
  BY <1>0 DEF Processes
<1>2. r2 \in Processes /\ r2.at = s /\ r2.run = q.run /\ r2.nth = q.nth
  BY <1>0 DEF Processes
<1>3. worker' = [worker EXCEPT ![w] = r1] \/ worker' = [worker EXCEPT ![w] = r2]
  BY DEF Procs
<1> HIDE DEF r1, r2
<1>4. CASE worker' = [worker EXCEPT ![w] = r1]
  BY <1>1, <1>4, Update DEF MovesTo, Becomes
<1>5. CASE worker' = [worker EXCEPT ![w] = r2]
  BY <1>2, <1>5, Update DEF MovesTo, Becomes
<1> QED BY <1>3, <1>4, <1>5

\* execute() is over, however it ended.
LEMMA Ending ==
    ASSUME worker \in Procs, NEW w \in Workers, NEW o \in Outcomes, Ended(w, o)
    PROVE  MovesTo(w, "closing")
<1>1. "closing" \in Stages
  BY DEF Stages
<1> QED BY <1>1, Moving DEF Ended

-----------------------------------------------------------------------------
(* The four kinds of step a process takes, in these terms.                 *)

Busy == {"staging", "engine", "answering", "closing"}

\* It works on its run and changes no table.
Works(w) ==
    /\ worker[w].at \in Busy
    /\ \E s \in Busy : MovesTo(w, s)
    /\ UNCHANGED <<tables, persisted>>

\* It drops its run, or had none, and changes no row.
Drops(w) ==
    /\ Becomes(w, worker'[w])
    /\ worker'[w].run = NoRun /\ worker'[w].at \in {"idle", "down"}
    /\ UNCHANGED tables
    /\ \/ UNCHANGED persisted
       \/ /\ worker[w].at = "persisting"
          /\ persisted' = [persisted EXCEPT ![worker[w].run] = @ \cup {worker[w].nth}]

\* It closes its run, if it still holds it, and goes on to persist or drops it.
Closes(w) ==
    /\ worker[w].at = "closing"
    /\ worker[w].outcome \in Outcomes
    /\ Close(w, worker[w].run, worker[w].outcome)
    /\ \/ /\ Becomes(w, worker'[w])
          /\ worker'[w].run = NoRun /\ worker'[w].at \in {"idle", "down"}
       \/ /\ worker[w].outcome = Success /\ Holds(w, worker[w].run)
          /\ MovesTo(w, "persisting")
    /\ UNCHANGED persisted

\* It takes run r.
Takes(w, r) ==
    /\ worker[w].at = "idle"
    /\ Claimed(w, r)
    /\ Becomes(w, worker'[w])
    /\ worker'[w].run = r /\ worker'[w].nth = claims'[r] /\ worker'[w].at = "staging"
    /\ UNCHANGED persisted

\* The processes stay as they are.
Stays == UNCHANGED <<worker, persisted>>
Others ==
    /\ Stays
    /\ \/ \E r \in Runs : Enqueue(r)
       \/ \E w \in Workers, r \in Runs : worker[w].at = "idle" /\ Claimed(w, r)
       \/ /\ UNCHANGED <<row, refunds, claims>>
          /\ stale' = stale \/ \E r \in Runs, b \in BOOLEAN : stale' = [stale EXCEPT ![r] = b]

\* What a process does is to go on, let go, close, take a run, or touch no process.
LEMMA ProcessStep ==
    ASSUME TypeOK, Loaded, NEW w \in Workers,
           Step(w) \/ Heartbeat(w) \/ Disturb(w)
    PROVE  Works(w) \/ Drops(w) \/ Closes(w) \/ (\E r \in Runs : Takes(w, r)) \/ Others
<1>0. worker \in Procs /\ worker[w] \in Processes
  BY DEF TypeOK, Procs
<1>1. CASE \E r \in Runs : Claim(w, r)
  <2>1. PICK r \in Runs : Claim(w, r)
    BY <1>1
  <2> DEFINE p == [at |-> "staging", run |-> r, nth |-> claims'[r], outcome |-> Success]
  <2>2. p \in Processes
    BY <2>1, OutcomesTyped DEF Claim, Claimed, TypeOK, Processes, Stages
  <2>3. Becomes(w, p)
    BY <1>0, <2>1, <2>2, Update DEF Claim
  <2>4. Takes(w, r)
    BY <2>1, <2>3 DEF Claim, Takes, Becomes, At, outputs
  <2> QED BY <2>4
<1>2. CASE Spawn(w)
  BY <1>0, <1>2, Moving, OutcomesTyped DEF Spawn, At, Works, Busy, Stages, outputs
<1>3. CASE StagingFails(w)
  BY <1>0, <1>3, Ending, OutcomesTyped DEF StagingFails, At, Works, Busy, outputs
<1>4. CASE EngineExits(w)
  BY <1>0, <1>4, Ending, Moving, OutcomesTyped DEF EngineExits, At, Works, Busy, Stages, outputs
<1>5. CASE EngineStopped(w)
  BY <1>0, <1>5, Ending, OutcomesTyped DEF EngineStopped, At, Works, Busy, outputs
<1>6. CASE Answer(w)
  BY <1>0, <1>6, Ending, OutcomesTyped DEF Answer, At, Works, Busy
<1>7. CASE CloseRow(w)
  <2>1. worker[w].outcome \in Outcomes /\ "persisting" \in Stages
    BY <1>0 DEF Processes, Stages
  <2>2. CASE worker[w].outcome = Success /\ Holds(w, worker[w].run)
    BY <1>0, <1>7, <2>1, <2>2, Moving DEF CloseRow, At, Run, Closes, outputs
  <2>3. CASE ~(worker[w].outcome = Success /\ Holds(w, worker[w].run))
    BY <1>0, <1>7, <2>1, <2>3, Leaving DEF CloseRow, At, Run, Closes, outputs
  <2> QED BY <2>2, <2>3
<1>8. CASE Persist(w)
  BY <1>0, <1>8, Leaving DEF Persist, At, Run, Drops
<1>9. CASE Exit(w) \/ Restart(w)
  BY <1>0, <1>9, Leaving, IdleTyped DEF Exit, Restart, GoesIdle, Drops, outputs
<1>10. CASE Heartbeat(w)
  <2>1. CASE Holds(w, Run(w))
    <3>1. worker[w].run \in Runs
      BY <1>0, <1>10 DEF Heartbeat, At, Loaded, Processes
    <3> QED BY <1>10, <2>1, <3>1 DEF Heartbeat, Run, Others, Stays, outputs
  <2>2. CASE ~Holds(w, Run(w))
    BY <1>0, <1>10, <2>2, Leaving DEF Heartbeat, Drops, tables, outputs
  <2> QED BY <2>1, <2>2
<1>11. CASE \E r \in Runs : ClaimReplyLost(w, r)
  BY <1>11 DEF ClaimReplyLost, At, Others, Stays, outputs
<1>12. CASE MissHeartbeats(w)
  BY <1>12 DEF MissHeartbeats, Run, Others, Stays, outputs
<1>13. CASE HeartbeatRaises(w)
  BY <1>0, <1>13, Ending, OutcomesTyped DEF HeartbeatRaises, At, Works, Busy, outputs
<1>14. CASE CloseRaises(w)
  <2>1. worker[w].outcome \in Outcomes
    BY <1>0 DEF Processes
  <2>2. CASE Close(w, Run(w), worker[w].outcome)
    BY <1>0, <1>14, <2>1, <2>2, Leaving DEF CloseRaises, At, Run, Closes, outputs
  <2>3. CASE UNCHANGED tables
    BY <1>0, <1>14, <2>3, Leaving DEF CloseRaises, Drops, outputs
  <2> QED BY <1>14, <2>2, <2>3 DEF CloseRaises
<1>15. CASE Crash(w)
  BY <1>0, <1>15, Leaving DEF Crash, Drops, outputs
<1>16. CASE Sigterm(w)
  BY <1>16 DEF Sigterm, Others, Stays, tables, outputs
<1> QED BY <1>1, <1>2, <1>3, <1>4, <1>5, <1>6, <1>7, <1>8, <1>9, <1>10, <1>11,
           <1>12, <1>13, <1>14, <1>15, <1>16 DEF Step, Disturb

\* Every step is one of these.
LEMMA AnyStep ==
    ASSUME TypeOK, Loaded, [Next]_vars
    PROVE  \/ \E w \in Workers : \/ Works(w) \/ Drops(w) \/ Closes(w)
                                 \/ \E r \in Runs : Takes(w, r)
           \/ Others
<1>1. CASE \E w \in Workers : Step(w) \/ Heartbeat(w) \/ Disturb(w)
  BY <1>1, ProcessStep
<1>2. CASE \E r \in Runs : Enqueue(r)
  BY <1>2 DEF Enqueue, Others, Stays, outputs
<1>3. CASE \E r \in Runs : GoStale(r)
  BY <1>3 DEF GoStale, Others, Stays, outputs
<1>4. CASE \E r \in Runs : OrphanExits(r)
  BY <1>4 DEF OrphanExits, Others, Stays, tables, outputs
<1>5. CASE UNCHANGED vars
  BY <1>5 DEF vars, Others, Stays, tables, outputs
<1> QED BY <1>1, <1>2, <1>3, <1>4, <1>5 DEF Next

-----------------------------------------------------------------------------
(* Types.                                                                  *)

\* What the steps of a process do not say: the environment keeps its types.
LEMMA EnvironmentTyped ==
    ASSUME TypeOK, Loaded, [Next]_vars
    PROVE  /\ stop' \in SUBSET Workers
           /\ orphans' \in [Runs -> Nat]
           /\ answers' \in [Runs -> SUBSET Nat]
           /\ budget' \in [Troubles -> Nat]
<1> DEFINE Typed == /\ stop' \in SUBSET Workers
                    /\ orphans' \in [Runs -> Nat]
                    /\ answers' \in [Runs -> SUBSET Nat]
                    /\ budget' \in [Troubles -> Nat]
<1>0. ASSUME NEW t \in Troubles, Suffer(t)
      PROVE  budget' \in [Troubles -> Nat]
  BY <1>0 DEF Suffer, TypeOK
<1>1. ASSUME NEW w \in Workers, Step(w) \/ Heartbeat(w) \/ Disturb(w)
      PROVE  Typed
  <2>0. /\ {"rpc", "slow", "crash", "stop"} \subseteq Troubles
        /\ At(w, "engine") \/ At(w, "answering") => worker[w].run \in Runs /\ worker[w].nth \in Nat
    BY DEF Troubles, At, Loaded, TypeOK, Processes
  <2>1. CASE Answer(w)
    BY <2>0, <2>1 DEF Answer, Run, TypeOK
  <2>2. CASE Exit(w) \/ Restart(w) \/ Heartbeat(w) \/ Persist(w) \/ CloseRow(w)
    BY <2>2 DEF Exit, Restart, Heartbeat, Persist, CloseRow, TypeOK, outputs
  <2>3. CASE Spawn(w) \/ StagingFails(w) \/ EngineExits(w) \/ EngineStopped(w)
    BY <2>3 DEF Spawn, StagingFails, EngineExits, EngineStopped, TypeOK, outputs
  <2>4. CASE \E r \in Runs : Claim(w, r)
    BY <2>4 DEF Claim, TypeOK, outputs
  <2>5. CASE \E r \in Runs : ClaimReplyLost(w, r)
    BY <1>0, <2>0, <2>5 DEF ClaimReplyLost, TypeOK, outputs
  <2>6. CASE MissHeartbeats(w) \/ CloseRaises(w)
    BY <1>0, <2>0, <2>6 DEF MissHeartbeats, CloseRaises, TypeOK, outputs
  <2>7. CASE HeartbeatRaises(w)
    BY <1>0, <2>0, <2>7 DEF HeartbeatRaises, Abandon, Run, TypeOK, outputs
  <2>8. CASE Crash(w)
    BY <1>0, <2>0, <2>8 DEF Crash, Abandon, Run, TypeOK, outputs
  <2>9. CASE Sigterm(w)
    BY <1>0, <2>0, <2>9 DEF Sigterm, TypeOK, outputs
  <2> QED BY <1>1, <2>1, <2>2, <2>3, <2>4, <2>5, <2>6, <2>7, <2>8, <2>9 DEF Step, Disturb
<1>2. ASSUME NEW r \in Runs, Enqueue(r) \/ GoStale(r) \/ OrphanExits(r)
      PROVE  Typed
  BY <1>2 DEF Enqueue, GoStale, OrphanExits, TypeOK, outputs
<1>3. CASE UNCHANGED vars
  BY <1>3 DEF vars, TypeOK, outputs
<1> QED BY <1>1, <1>2, <1>3 DEF Next

Tables ==
    /\ row \in [Runs -> Rows]
    /\ stale \in [Runs -> BOOLEAN]
    /\ refunds \in [Runs -> Nat]
    /\ claims \in [Runs -> Nat]

\* Claiming or closing a row keeps the tables' types.
LEMMA ClaimedTyped ==
    ASSUME TypeOK, NEW w \in Workers, NEW r \in Runs, Claimed(w, r)
    PROVE  /\ Tables'
           /\ row' = [row EXCEPT ![r] = [row[r] EXCEPT !.status = "running", !.by = IdOf[w]]]
           /\ row'[r].status = "running" /\ row'[r].by = IdOf[w]
           /\ row'[r].refunded = row[r].refunded
           /\ \A q \in Runs \ {r} : row'[q] = row[q]
           /\ claims'[r] = claims[r] + 1
           /\ \A q \in Runs \ {r} : claims'[q] = claims[q]
<1> DEFINE new == [row[r] EXCEPT !.status = "running", !.by = IdOf[w]]
<1>1. /\ new \in Rows /\ new.status = "running" /\ new.by = IdOf[w]
      /\ new.refunded = row[r].refunded
  <2>1. row[r] \in Rows /\ IdOf[w] \in Ids
    BY QueueAssumption DEF TypeOK
  <2> QED BY <2>1 DEF Rows
<1>2. row' = [row EXCEPT ![r] = new]
  BY DEF Claimed, TypeOK
<1> HIDE DEF new
<1>3. /\ row' \in [Runs -> Rows] /\ row'[r] = new
      /\ \A q \in Runs \ {r} : row'[q] = row[q]
  BY <1>1, <1>2 DEF TypeOK
<1>4. /\ stale' \in [Runs -> BOOLEAN] /\ refunds' \in [Runs -> Nat]
      /\ claims' \in [Runs -> Nat] /\ claims'[r] = claims[r] + 1
      /\ \A q \in Runs \ {r} : claims'[q] = claims[q]
  BY DEF Claimed, TypeOK
<1> QED BY <1>1, <1>2, <1>3, <1>4 DEF Tables, new

\* A close changes one row, and only one its process holds.
LEMMA ClosingTyped ==
    ASSUME TypeOK, NEW w \in Workers, NEW r \in Runs, NEW o \in Outcomes, Close(w, r, o)
    PROVE  /\ Tables'
           /\ UNCHANGED <<stale, claims>>
           /\ \A q \in Runs \ {r} : row'[q] = row[q] /\ refunds'[q] = refunds[q]
           /\ ~Holds(w, r) => UNCHANGED <<row, refunds>>
           /\ Holds(w, r) =>
                /\ row'[r].status = o.status /\ row'[r].by = row[r].by
                /\ row'[r].refunded = (row[r].refunded \/ o.refund)
                /\ refunds'[r] = IF o.refund /\ ~row[r].refunded THEN refunds[r] + 1 ELSE refunds[r]
<1> DEFINE given == o.refund /\ ~row[r].refunded
           new == [row[r] EXCEPT !.status = o.status, !.refunded = @ \/ given]
<1>0. o.status \in Closed
  BY DEF Outcomes, Success, UserInputError, SystemError, RunTimeout, Closed
<1>1. CASE ~Holds(w, r)
  BY <1>1 DEF Close, Tables, TypeOK
<1>2. CASE Holds(w, r)
  <2>1. row[r] \in Rows
    BY DEF TypeOK
  <2>2. new \in Rows /\ new.status = o.status /\ new.by = row[r].by
    BY <1>0, <2>1 DEF Rows
  <2>3. new.refunded = (row[r].refunded \/ o.refund)
    BY <1>0, <2>1 DEF Rows
  <2>4. row' = [row EXCEPT ![r] = new]
    BY <1>2 DEF Close, TypeOK
  <2>5. /\ refunds' \in [Runs -> Nat]
        /\ refunds'[r] = IF given THEN refunds[r] + 1 ELSE refunds[r]
        /\ \A q \in Runs \ {r} : refunds'[q] = refunds[q]
    BY <1>2 DEF Close, TypeOK
  <2> HIDE DEF new
  <2>6. /\ row' \in [Runs -> Rows] /\ row'[r] = new
        /\ \A q \in Runs \ {r} : row'[q] = row[q]
    BY <2>2, <2>4 DEF TypeOK
  <2> QED BY <1>2, <2>2, <2>3, <2>5, <2>6 DEF Close, Tables, TypeOK
<1> QED BY <1>1, <1>2

\* Enqueuing fills one absent row.
LEMMA EnqueuedTyped ==
    ASSUME TypeOK, NEW r \in Runs, Enqueue(r)
    PROVE  /\ Tables' /\ UNCHANGED <<refunds, claims>>
           /\ row[r].status = "absent" /\ row'[r].status = "queued"
           /\ row'[r].by = row[r].by /\ row'[r].refunded = row[r].refunded
           /\ \A q \in Runs \ {r} : row'[q] = row[q]
<1> DEFINE new == [row[r] EXCEPT !.status = "queued"]
<1>1. /\ new \in Rows /\ new.status = "queued" /\ new.by = row[r].by
      /\ new.refunded = row[r].refunded
  BY DEF TypeOK, Rows
<1>2. row' = [row EXCEPT ![r] = new]
  BY DEF Enqueue, TypeOK
<1> HIDE DEF new
<1> QED BY <1>1, <1>2 DEF Enqueue, Tables, TypeOK

\* The types and the load of the processes survive every step.
LEMMA TypeStep ==
    ASSUME TypeOK, Loaded, [Next]_vars
    PROVE  TypeOK' /\ Loaded'
<1> DEFINE Rest == Tables' /\ worker' \in Procs /\ persisted' \in [Runs -> SUBSET Nat] /\ Loaded'
<1>0. worker \in Procs /\ persisted \in [Runs -> SUBSET Nat] /\ Tables
  BY DEF TypeOK, Procs, Tables
<1>1. ASSUME NEW w \in Workers, Works(w) \/ Drops(w) \/ Closes(w) \/ \E r \in Runs : Takes(w, r)
      PROVE  Rest
  <2>0. worker[w] \in Processes /\ (worker[w].at \notin {"idle", "down"} => worker[w].run \in Runs)
    BY <1>0 DEF Procs, Processes, Loaded
  <2>1. CASE Works(w)
    BY <1>0, <2>0, <2>1 DEF Works, Busy, MovesTo, Becomes, Loaded, Tables, tables
  <2>2. CASE Drops(w)
    <3>1. persisted' \in [Runs -> SUBSET Nat]
      BY <1>0, <2>0, <2>2 DEF Drops, Processes
    <3> QED BY <1>0, <2>2, <3>1 DEF Drops, Becomes, Loaded, Tables, tables
  <2>3. CASE Closes(w)
    <3>1. worker[w].run \in Runs /\ worker[w].run # NoRun
      BY <2>0, <2>3, QueueAssumption DEF Closes
    <3>2. Tables'
      BY <2>3, <3>1, ClosingTyped DEF Closes
    <3> QED BY <1>0, <2>3, <3>1, <3>2 DEF Closes, MovesTo, Becomes, Loaded
  <2>4. CASE \E r \in Runs : Takes(w, r)
    <3>1. PICK r \in Runs : Takes(w, r)
      BY <2>4
    <3>2. Tables'
      BY <3>1, ClaimedTyped DEF Takes
    <3>3. r # NoRun
      BY QueueAssumption
    <3> QED BY <1>0, <3>1, <3>2, <3>3 DEF Takes, Becomes, Loaded
  <2> QED BY <1>1, <2>1, <2>2, <2>3, <2>4
<1>2. ASSUME Others
      PROVE  Rest
  <2>1. worker' \in Procs /\ persisted' \in [Runs -> SUBSET Nat] /\ Loaded'
    BY <1>0, <1>2 DEF Others, Stays, Loaded
  <2>2. CASE \E r \in Runs : Enqueue(r)
    <3>1. PICK r \in Runs : Enqueue(r)
      BY <2>2
    <3>2. Tables'
      BY <3>1, EnqueuedTyped
    <3> QED BY <2>1, <3>2
  <2>3. CASE \E w \in Workers, r \in Runs : worker[w].at = "idle" /\ Claimed(w, r)
    <3>1. PICK w \in Workers, r \in Runs : worker[w].at = "idle" /\ Claimed(w, r)
      BY <2>3
    <3>2. Tables'
      BY <3>1, ClaimedTyped
    <3> QED BY <2>1, <3>2
  <2>4. CASE /\ UNCHANGED <<row, refunds, claims>>
             /\ stale' = stale \/ \E r \in Runs, b \in BOOLEAN : stale' = [stale EXCEPT ![r] = b]
    <3>1. Tables'
      BY <1>0, <2>4 DEF Tables
    <3> QED BY <2>1, <3>1
  <2> QED BY <1>2, <2>2, <2>3, <2>4 DEF Others
<1> HIDE DEF Rest
<1>3. Rest
  BY <1>1, <1>2, AnyStep
<1> QED BY <1>3, EnvironmentTyped DEF Rest, TypeOK, Tables, Procs

\* The queue starts well typed.
LEMMA InitTyped ==
    ASSUME Init
    PROVE  TypeOK /\ Loaded
<1>1. row \in [Runs -> Rows]
  BY DEF Init, Rows
<1>2. worker \in [Workers -> Processes] /\ Loaded
  BY IdleTyped DEF Init, Loaded
<1> QED BY <1>1, <1>2, QueueAssumption DEF Init, TypeOK

\* The tables, the processes and the outputs keep their types, and a process has
\* a run in hand exactly while it is busy.
THEOREM TypeCorrect == Spec => [](TypeOK /\ Loaded)
<1>1. TypeOK /\ Loaded /\ [Next]_vars => (TypeOK /\ Loaded)'
  BY TypeStep
<1> QED BY InitTyped, <1>1, PTL DEF Spec

-----------------------------------------------------------------------------
(* Safety.                                                                 *)

\* No two processes are configured with the same WORKER_ID.
DistinctIds == \A v, w \in Workers : IdOf[v] = IdOf[w] => v = w

\* Whoever still holds the run it has in hand is the last one that claimed it.
LastClaim ==
    \A w \in Workers : worker[w].run \in Runs /\ Holds(w, worker[w].run)
        => worker[w].nth = claims[worker[w].run]

\* Whoever is about to store artifacts has completed its run, after its last claim.
Sealed ==
    \A w \in Workers : worker[w].at = "persisting"
        => /\ row[worker[w].run].status = "completed"
           /\ worker[w].nth = claims[worker[w].run]

\* A step changes a row only by enqueuing, claiming or closing it.
LEMMA RowChanges ==
    ASSUME TypeOK, Loaded, [Next]_vars, NEW r \in Runs, row'[r] # row[r]
    PROVE  \/ row[r].status = "absent"
           \/ Claimable(r)
           \/ \E w \in Workers : Closes(w) /\ worker[w].run = r /\ Holds(w, r)
<1>1. ASSUME NEW w \in Workers, Closes(w)
      PROVE  worker[w].run = r /\ Holds(w, r)
  <2>1. worker[w].run \in Runs
    BY <1>1 DEF Closes, Loaded, TypeOK, Processes
  <2> QED BY <1>1, <2>1, ClosingTyped DEF Closes
<1>2. ASSUME NEW w \in Workers, NEW q \in Runs, Claimed(w, q)
      PROVE  Claimable(r)
  BY <1>2, ClaimedTyped DEF Claimed
<1>3. ASSUME NEW q \in Runs, Enqueue(q)
      PROVE  row[r].status = "absent"
  BY <1>3, EnqueuedTyped
<1>4. ASSUME NEW w \in Workers, NEW q \in Runs, Takes(w, q)
      PROVE  Claimable(r)
  BY <1>2, <1>4 DEF Takes
<1>5. ASSUME NEW w \in Workers, Works(w) \/ Drops(w)
      PROVE  FALSE
  BY <1>5 DEF Works, Drops, tables
<1> QED BY <1>1, <1>2, <1>3, <1>4, <1>5, AnyStep DEF Others

\* No step changes a row that is closed.
LEMMA ClosedStep ==
    ASSUME TypeOK, Loaded, [Next]_vars, NEW r \in Runs, IsClosed(r)
    PROVE  row'[r] = row[r]
  BY RowChanges DEF IsClosed, Closed, Claimable, Holds

\* A closed row is never changed again: no reclaim, retry or late answer reopens
\* it, changes its status or refunds it, whatever the WORKER_IDs.
THEOREM ClosedHolds == Spec => ClosedIsFinal
<1>1. TypeOK /\ Loaded /\ [Next]_vars => [\A r \in Runs : IsClosed(r) => row'[r] = row[r]]_vars
  BY ClosedStep
<1> QED BY <1>1, TypeCorrect, PTL DEF Spec, ClosedIsFinal

\* The refund of a run goes with the status it is closed with.
LEMMA RefundStep ==
    ASSUME TypeOK, Loaded, RefundFollowsClose, [Next]_vars
    PROVE  RefundFollowsClose'
<1> SUFFICES ASSUME NEW r \in Runs
             PROVE  /\ refunds'[r] = IF row'[r].refunded THEN 1 ELSE 0
                    /\ row'[r].refunded => row'[r].status \in {"failed", "timeout"}
                    /\ row'[r].status = "timeout" => row'[r].refunded
  BY DEF RefundFollowsClose
<1>0. /\ refunds[r] = IF row[r].refunded THEN 1 ELSE 0
      /\ row[r].refunded => row[r].status \in {"failed", "timeout"}
      /\ row[r].status = "timeout" => row[r].refunded
  BY DEF RefundFollowsClose
<1>1. ASSUME NEW w \in Workers, Closes(w)
      PROVE  /\ refunds'[r] = IF row'[r].refunded THEN 1 ELSE 0
             /\ row'[r].refunded => row'[r].status \in {"failed", "timeout"}
             /\ row'[r].status = "timeout" => row'[r].refunded
  <2> DEFINE q == worker[w].run
             o == worker[w].outcome
  <2>1. q \in Runs /\ o \in Outcomes /\ Close(w, q, o)
    BY <1>1 DEF Closes, Loaded, TypeOK, Processes
  <2> HIDE DEF q, o
  <2>2. /\ o.status \in {"failed", "timeout"} \/ ~o.refund
        /\ o.status = "timeout" => o.refund
    BY <2>1 DEF Outcomes, Success, UserInputError, SystemError, RunTimeout
  <2>3. CASE q = r /\ Holds(w, r)
    <3>1. ~row[r].refunded /\ refunds[r] = 0
      BY <1>0, <2>3 DEF Holds
    <3>2. (row'[r].refunded <=> o.refund) /\ row'[r].status = o.status
      BY <2>1, <2>3, <3>1, ClosingTyped
    <3>3. refunds'[r] = IF o.refund THEN 1 ELSE 0
      BY <2>1, <2>3, <3>1, ClosingTyped
    <3> QED BY <2>2, <3>2, <3>3
  <2>4. CASE ~(q = r /\ Holds(w, r))
    BY <1>0, <2>1, <2>4, ClosingTyped
  <2> QED BY <2>3, <2>4
<1>2. ASSUME NEW w \in Workers, NEW q \in Runs, Claimed(w, q)
      PROVE  /\ refunds'[r] = IF row'[r].refunded THEN 1 ELSE 0
             /\ row'[r].refunded => row'[r].status \in {"failed", "timeout"}
             /\ row'[r].status = "timeout" => row'[r].refunded
  <2>1. UNCHANGED refunds /\ (q = r => row[r].status \in {"queued", "running"})
    BY <1>2 DEF Claimed, Claimable
  <2>2. CASE q = r
    BY <1>0, <1>2, <2>1, <2>2, ClaimedTyped
  <2>3. CASE q # r
    BY <1>0, <1>2, <2>1, <2>3, ClaimedTyped
  <2> QED BY <2>2, <2>3
<1>3. ASSUME NEW q \in Runs, Enqueue(q)
      PROVE  /\ refunds'[r] = IF row'[r].refunded THEN 1 ELSE 0
             /\ row'[r].refunded => row'[r].status \in {"failed", "timeout"}
             /\ row'[r].status = "timeout" => row'[r].refunded
  <2>1. CASE q = r
    BY <1>0, <1>3, <2>1, EnqueuedTyped
  <2>2. CASE q # r
    BY <1>0, <1>3, <2>2, EnqueuedTyped
  <2> QED BY <2>1, <2>2
<1>4. ASSUME UNCHANGED <<row, refunds>>
      PROVE  /\ refunds'[r] = IF row'[r].refunded THEN 1 ELSE 0
             /\ row'[r].refunded => row'[r].status \in {"failed", "timeout"}
             /\ row'[r].status = "timeout" => row'[r].refunded
  BY <1>0, <1>4
<1> QED BY <1>1, <1>2, <1>3, <1>4, AnyStep DEF Works, Drops, Takes, Others, tables

\* A use is given back at most once, exactly to the runs whose row says so, which
\* have failed or timed out; every run that timed out is among them.
THEOREM RefundHolds == Spec => []RefundFollowsClose
<1>1. Init => RefundFollowsClose
  BY DEF Init, RefundFollowsClose
<1>2. TypeOK /\ Loaded /\ RefundFollowsClose /\ [Next]_vars => RefundFollowsClose'
  BY RefundStep
<1> QED BY <1>1, <1>2, TypeCorrect, PTL DEF Spec

-----------------------------------------------------------------------------
(* What distinct WORKER_IDs add.                                           *)

ClaimInv == LastClaim /\ Sealed /\ ArtifactsMatchClose

\* A claim keeps ClaimInv: it makes its worker the last claimer.
LEMMA ClaimStep ==
    ASSUME DistinctIds, TypeOK, Loaded, ClaimInv,
           NEW w \in Workers, NEW q \in Runs, worker[w].at = "idle", Claimed(w, q),
           UNCHANGED persisted,
           UNCHANGED worker \/ Takes(w, q)
    PROVE  ClaimInv'
<1>0. /\ row[q].status \in {"queued", "running"}
      /\ row'[q].by = IdOf[w]
      /\ \A r \in Runs \ {q} : row'[r] = row[r] /\ claims'[r] = claims[r]
  <2>1. row[q].status \in {"queued", "running"}
    BY DEF Claimed, Claimable
  <2> QED BY <2>1, ClaimedTyped
<1>1. \A v \in Workers \ {w} : worker'[v] = worker[v]
  BY DEF Takes, Becomes
<1>2. \/ worker'[w].run = NoRun /\ worker'[w].at = "idle"
      \/ worker'[w].run = q /\ worker'[w].nth = claims'[q] /\ worker'[w].at = "staging"
  BY DEF Takes, Loaded
<1>3. \A v \in Workers \ {w} : IdOf[v] # IdOf[w]
  BY DEF DistinctIds
<1>4. LastClaim'
  <2> SUFFICES ASSUME NEW v \in Workers, worker'[v].run \in Runs, Holds(v, worker[v].run)'
               PROVE  worker'[v].nth = claims'[worker'[v].run]
    BY DEF LastClaim
  <2>1. CASE v = w
    BY <1>2, <2>1, QueueAssumption
  <2>2. CASE v # w
    <3>1. worker'[v] = worker[v] /\ worker[v].run # q
      BY <1>0, <1>1, <1>3, <2>2 DEF Holds
    <3> QED BY <1>0, <3>1 DEF Holds, LastClaim, ClaimInv
  <2> QED BY <2>1, <2>2
<1>5. Sealed'
  <2> SUFFICES ASSUME NEW v \in Workers, worker'[v].at = "persisting"
               PROVE  /\ row'[worker'[v].run].status = "completed"
                      /\ worker'[v].nth = claims'[worker'[v].run]
    BY DEF Sealed
  <2>1. worker'[v] = worker[v] /\ worker[v].run \in Runs
    BY <1>1, <1>2 DEF Loaded, TypeOK, Processes
  <2>2. worker[v].run # q
    BY <1>0, <2>1 DEF Sealed, ClaimInv
  <2> QED BY <1>0, <2>1, <2>2 DEF Sealed, ClaimInv
<1>6. ArtifactsMatchClose'
  BY <1>0 DEF ArtifactsMatchClose, ClaimInv
<1> QED BY <1>4, <1>5, <1>6 DEF ClaimInv

\* A close keeps ClaimInv: the row must still be under the ID of its worker.
LEMMA CloseStep ==
    ASSUME TypeOK, Loaded, ClaimInv, NEW w \in Workers, Closes(w)
    PROVE  ClaimInv'
<1> DEFINE q == worker[w].run
<1>0. q \in Runs /\ worker[w].outcome \in Outcomes
  BY DEF Closes, Loaded, TypeOK, Processes
<1>1. /\ \A r \in Runs \ {q} : row'[r] = row[r]
      /\ UNCHANGED <<claims, persisted>>
      /\ ~Holds(w, q) => UNCHANGED row
      /\ Holds(w, q) => row'[q].status = worker[w].outcome.status /\ row[q].status = "running"
  BY <1>0, ClosingTyped DEF Closes, Holds
<1>2. worker[w].outcome.status # "running"
  BY <1>0 DEF Outcomes, Success, UserInputError, SystemError, RunTimeout
<1>3. /\ \A v \in Workers \ {w} : worker'[v] = worker[v]
      /\ \/ worker'[w].run = NoRun /\ worker'[w].at # "persisting"
         \/ /\ worker'[w].run = q /\ worker'[w].nth = worker[w].nth
            /\ Holds(w, q) /\ worker[w].outcome = Success
  BY DEF Closes, MovesTo, Becomes
<1>4. Success.status = "completed"
  BY DEF Success
<1> HIDE DEF q
<1>5. LastClaim'
  <2> SUFFICES ASSUME NEW v \in Workers, worker'[v].run \in Runs, Holds(v, worker[v].run)'
               PROVE  worker'[v].nth = claims'[worker'[v].run]
    BY DEF LastClaim
  <2>1. CASE v = w
    BY <1>0, <1>1, <1>2, <1>3, <2>1, QueueAssumption DEF Holds
  <2>2. CASE v # w
    <3>1. worker'[v] = worker[v] /\ Holds(v, worker[v].run)
      BY <1>0, <1>1, <1>2, <1>3, <2>2 DEF Holds
    <3> QED BY <1>1, <3>1 DEF LastClaim, ClaimInv
  <2> QED BY <2>1, <2>2
<1>6. Sealed'
  <2> SUFFICES ASSUME NEW v \in Workers, worker'[v].at = "persisting"
               PROVE  /\ row'[worker'[v].run].status = "completed"
                      /\ worker'[v].nth = claims'[worker'[v].run]
    BY DEF Sealed
  <2>1. CASE v = w
    <3>1. worker[w].nth = claims[q]
      BY <1>0, <1>3, <2>1 DEF LastClaim, ClaimInv, q
    <3> QED BY <1>1, <1>3, <1>4, <2>1, <3>1
  <2>2. CASE v # w
    <3>1. /\ worker'[v] = worker[v]
          /\ row[worker[v].run].status = "completed"
          /\ worker[v].nth = claims[worker[v].run]
          /\ worker[v].run \in Runs
      BY <1>3, <2>2 DEF Sealed, ClaimInv, Loaded, TypeOK, Processes
    <3> QED BY <1>1, <3>1
  <2> QED BY <2>1, <2>2
<1>7. ArtifactsMatchClose'
  BY <1>0, <1>1 DEF ArtifactsMatchClose, ClaimInv
<1> QED BY <1>5, <1>6, <1>7 DEF ClaimInv

\* Letting go of a run, with its artifacts stored or not, keeps ClaimInv.
LEMMA DropStep ==
    ASSUME TypeOK, Loaded, ClaimInv, NEW w \in Workers, Drops(w)
    PROVE  ClaimInv'
<1>0. /\ \A v \in Workers \ {w} : worker'[v] = worker[v]
      /\ worker'[w].run = NoRun /\ worker'[w].at # "persisting"
      /\ UNCHANGED <<row, claims>>
  BY DEF Drops, Becomes, tables
<1>1. LastClaim'
  BY <1>0, QueueAssumption DEF LastClaim, ClaimInv, Holds
<1>2. Sealed'
  BY <1>0 DEF Sealed, ClaimInv
<1>3. ArtifactsMatchClose'
  <2>1. CASE UNCHANGED persisted
    BY <1>0, <2>1 DEF ArtifactsMatchClose, ClaimInv
  <2>2. CASE /\ worker[w].at = "persisting"
             /\ persisted' = [persisted EXCEPT ![worker[w].run] = @ \cup {worker[w].nth}]
    <3>1. /\ worker[w].run \in Runs
          /\ row[worker[w].run].status = "completed"
          /\ worker[w].nth = claims[worker[w].run]
      BY <2>2 DEF Sealed, ClaimInv, Loaded, TypeOK, Processes
    <3>2. persisted[worker[w].run] \in {{}, {claims[worker[w].run]}}
      BY <3>1 DEF ArtifactsMatchClose, ClaimInv
    <3>3. /\ persisted'[worker[w].run] = {claims[worker[w].run]}
          /\ \A r \in Runs \ {worker[w].run} : persisted'[r] = persisted[r]
      BY <2>2, <3>1, <3>2 DEF TypeOK
    <3> QED BY <1>0, <3>1, <3>3 DEF ArtifactsMatchClose, ClaimInv
  <2> QED BY <2>1, <2>2 DEF Drops
<1> QED BY <1>1, <1>2, <1>3 DEF ClaimInv

\* Every step keeps ClaimInv when each process has its own WORKER_ID.
LEMMA ClaimInvStep ==
    ASSUME DistinctIds, TypeOK, Loaded, ClaimInv, [Next]_vars
    PROVE  ClaimInv'
<1>1. ASSUME NEW w \in Workers, Works(w)
      PROVE  ClaimInv'
  <2>0. /\ \A v \in Workers \ {w} : worker'[v] = worker[v]
        /\ worker'[w].run = worker[w].run /\ worker'[w].nth = worker[w].nth
        /\ worker'[w].at # "persisting"
        /\ UNCHANGED <<row, claims, persisted>>
    BY <1>1 DEF Works, Busy, MovesTo, Becomes, tables
  <2>1. LastClaim'
    BY <2>0 DEF LastClaim, ClaimInv, Holds
  <2>2. Sealed' /\ ArtifactsMatchClose'
    BY <2>0 DEF Sealed, ArtifactsMatchClose, ClaimInv
  <2> QED BY <2>1, <2>2 DEF ClaimInv
<1>2. ASSUME NEW w \in Workers, NEW q \in Runs, Takes(w, q)
      PROVE  ClaimInv'
  BY <1>2, ClaimStep DEF Takes
<1>3. ASSUME Others
      PROVE  ClaimInv'
  <2>1. CASE \E r \in Runs : Enqueue(r)
    <3>1. PICK r \in Runs : Enqueue(r)
      BY <2>1
    <3>2. /\ UNCHANGED <<worker, persisted, claims>>
          /\ row[r].status = "absent" /\ row'[r].status = "queued"
          /\ \A q \in Runs \ {r} : row'[q] = row[q]
      BY <1>3, <3>1, EnqueuedTyped DEF Others, Stays
    <3>3. LastClaim'
      BY <3>2 DEF LastClaim, ClaimInv, Holds
    <3>4. \A w \in Workers : worker[w].at = "persisting" => worker[w].run \in Runs \ {r}
      BY <3>2 DEF Sealed, ClaimInv, Loaded, TypeOK, Processes
    <3>5. Sealed' /\ ArtifactsMatchClose'
      BY <3>2, <3>4 DEF Sealed, ArtifactsMatchClose, ClaimInv
    <3> QED BY <3>3, <3>5 DEF ClaimInv
  <2>2. CASE \E w \in Workers, r \in Runs : worker[w].at = "idle" /\ Claimed(w, r)
    BY <1>3, <2>2, ClaimStep DEF Others, Stays
  <2>3. CASE UNCHANGED <<row, refunds, claims>>
    BY <1>3, <2>3 DEF Others, Stays, ClaimInv, LastClaim, Sealed, ArtifactsMatchClose, Holds
  <2> QED BY <1>3, <2>1, <2>2, <2>3 DEF Others
<1> QED BY <1>1, <1>2, <1>3, CloseStep, DropStep, AnyStep

\* With distinct WORKER_IDs a claim is held by its last claimer only.
THEOREM Claims ==
    ASSUME DistinctIds
    PROVE  Spec => []ClaimInv
<1>1. Init => ClaimInv
  BY QueueAssumption DEF Init, Idle, ClaimInv, LastClaim, Sealed, ArtifactsMatchClose
<1>2. TypeOK /\ Loaded /\ ClaimInv /\ [Next]_vars => ClaimInv'
  BY ClaimInvStep
<1> QED BY <1>1, <1>2, TypeCorrect, PTL DEF Spec

\* With distinct WORKER_IDs the artifacts stored for a run are those of the
\* execution that closed it, and of no other.
THEOREM ArtifactsHold ==
    ASSUME DistinctIds
    PROVE  Spec => []ArtifactsMatchClose
<1>1. ClaimInv => ArtifactsMatchClose
  BY DEF ClaimInv
<1> QED BY <1>1, Claims, PTL

\* With distinct WORKER_IDs a worker that lost its claim never overwrites the
\* result of the worker that took over: whoever closes a run claimed it last.
THEOREM CloserHolds ==
    ASSUME DistinctIds
    PROVE  Spec => CloserIsLastClaimer
<1>1. TypeOK /\ Loaded /\ ClaimInv /\ [Next]_vars =>
         [\A w \in Workers : \A r \in Runs :
             worker[w].run = r /\ worker[w] # worker'[w] /\ row[r] # row'[r]
                 => worker[w].nth = claims[r]]_vars
  <2> SUFFICES ASSUME TypeOK, Loaded, ClaimInv, [Next]_vars, NEW w \in Workers, NEW r \in Runs,
                      worker[w].run = r, worker[w] # worker'[w], row[r] # row'[r]
               PROVE  worker[w].nth = claims[r]
    OBVIOUS
  <2>1. r # NoRun
    BY QueueAssumption
  <2>2. ASSUME NEW v \in Workers, Closes(v)
        PROVE  worker[w].nth = claims[r]
    <3>1. v = w
      BY <2>2 DEF Closes, MovesTo, Becomes
    <3>2. Holds(w, r)
      BY <2>2, <3>1, ClosingTyped DEF Closes
    <3> QED BY <3>2 DEF ClaimInv, LastClaim
  <2>3. ASSUME NEW v \in Workers, NEW q \in Runs, Takes(v, q)
        PROVE  FALSE
    BY <2>1, <2>3 DEF Takes, Becomes, Loaded
  <2>4. ASSUME NEW v \in Workers, Works(v) \/ Drops(v)
        PROVE  FALSE
    BY <2>4 DEF Works, Drops, tables
  <2>5. ~Others
    BY DEF Others, Stays
  <2> QED BY <2>2, <2>3, <2>4, <2>5, AnyStep
<1> QED BY <1>1, Claims, TypeCorrect, PTL DEF Spec, CloserIsLastClaimer

-----------------------------------------------------------------------------
(* Concurrent executions of one run: the processes that have it in hand,   *)
(* and the engines that nobody supervises.                                 *)

\* The processes that have run r in hand.
Holders(r) == {w \in Workers : Run(w) = r}

Unclaimed(r) == row[r].status \in {"absent", "queued"}

\* The holders of a run at a time are counted against the missed heartbeats; a
\* run that can be claimed has room for one more, and one never claimed has none.
Paid ==
    /\ budget["slow"] <= Limit["slow"]
    /\ \A r \in Runs :
          /\ Cardinality(Holders(r)) <= 1 + Spent("slow")
          /\ Claimable(r) => Cardinality(Holders(r)) <= Spent("slow")
          /\ Unclaimed(r) => Holders(r) = {}

\* The holders of a run are finitely many, and a part of them is no more of them.
LEMMA HoldersFinite ==
    ASSUME NEW r
    PROVE  /\ IsFiniteSet(Holders(r)) /\ Cardinality(Holders(r)) \in Nat
           /\ IsFiniteSet(Holders(r)') /\ Cardinality(Holders(r)') \in Nat
           /\ Holders(r)' \subseteq Holders(r)
                => Cardinality(Holders(r)') <= Cardinality(Holders(r))
<1> DEFINE H == Holders(r)
           K == {w \in Workers : worker'[w].run = r}
<1>1. H \in SUBSET Workers /\ K \in SUBSET Workers /\ K = Holders(r)'
  BY DEF Holders, Run
<1> HIDE DEF H, K
<1>2. IsFiniteSet(H) /\ IsFiniteSet(K)
  BY <1>1, QueueAssumption, FS_Subset
<1>3. Cardinality(H) \in Nat /\ Cardinality(K) \in Nat
  BY <1>2, FS_CardinalityType
<1>4. K \subseteq H => Cardinality(K) <= Cardinality(H)
  BY <1>2, FS_Subset
<1> QED BY <1>1, <1>2, <1>3, <1>4 DEF H

\* One trouble more is one less to come.
LEMMA SlowSpent ==
    ASSUME TypeOK, NEW t \in Troubles, Suffer(t)
    PROVE  /\ budget'["slow"] <= budget["slow"]
           /\ t = "slow" => budget'["slow"] + 1 = budget["slow"]
<1>1. "slow" \in Troubles
  BY DEF Troubles
<1> QED BY <1>1 DEF Suffer, TypeOK

\* What a step may do to the claims' age and to the pauses still to come.
Ages ==
    /\ budget'["slow"] <= budget["slow"]
    /\ \A r \in Runs : stale'[r] /\ ~stale[r] =>
          Holders(r) = {} \/ budget'["slow"] + 1 = budget["slow"]

\* A claim goes stale only when nobody has the run or someone missed heartbeats.
LEMMA AgesStep ==
    ASSUME TypeOK, Loaded, [Next]_vars
    PROVE  Ages
<1>0. /\ {"rpc", "slow", "crash", "stop"} \subseteq Troubles
      /\ budget["slow"] \in Nat
  BY DEF TypeOK, Troubles
<1>1. ASSUME NEW w \in Workers, Step(w) \/ Heartbeat(w) \/ Disturb(w)
      PROVE  Ages
  <2>1. CASE \E r \in Runs : Claim(w, r)
    BY <1>0, <2>1 DEF Claim, Claimed, Ages, TypeOK
  <2>2. CASE Spawn(w) \/ StagingFails(w) \/ EngineExits(w) \/ EngineStopped(w) \/ Answer(w)
             \/ Persist(w) \/ Exit(w) \/ Restart(w)
    BY <1>0, <2>2 DEF Spawn, StagingFails, EngineExits, EngineStopped, Answer, Persist,
                      Exit, Restart, Ages, tables
  <2>3. CASE CloseRow(w)
    BY <1>0, <2>3 DEF CloseRow, Close, Ages
  <2>4. CASE Heartbeat(w)
    BY <1>0, <2>4 DEF Heartbeat, Ages, TypeOK
  <2>5. CASE \E r \in Runs : ClaimReplyLost(w, r)
    BY <1>0, <2>5, SlowSpent DEF ClaimReplyLost, Claimed, Ages, TypeOK
  <2>6. CASE MissHeartbeats(w)
    <3>1. budget'["slow"] + 1 = budget["slow"]
      BY <1>0, <2>6, SlowSpent DEF MissHeartbeats
    <3>2. budget'["slow"] <= budget["slow"]
      BY <1>0, <2>6, SlowSpent DEF MissHeartbeats
    <3> QED BY <3>1, <3>2 DEF Ages
  <2>7. CASE HeartbeatRaises(w) \/ Crash(w) \/ Sigterm(w)
    BY <1>0, <2>7, SlowSpent DEF HeartbeatRaises, Crash, Sigterm, Ages, tables
  <2>8. CASE CloseRaises(w)
    BY <1>0, <2>8, SlowSpent DEF CloseRaises, Close, Ages, tables
  <2> QED BY <1>1, <2>1, <2>2, <2>3, <2>4, <2>5, <2>6, <2>7, <2>8 DEF Step, Disturb
<1>2. ASSUME NEW r \in Runs, Enqueue(r) \/ OrphanExits(r)
      PROVE  Ages
  BY <1>0, <1>2 DEF Enqueue, OrphanExits, Ages, tables
<1>3. ASSUME NEW r \in Runs, GoStale(r)
      PROVE  Ages
  <2>1. Holders(r) = {}
    BY <1>3 DEF GoStale, Holders
  <2>2. stale' = [stale EXCEPT ![r] = TRUE] /\ budget' = budget
    BY <1>3 DEF GoStale
  <2> QED BY <1>0, <2>1, <2>2 DEF Ages, TypeOK
<1>4. CASE UNCHANGED vars
  BY <1>0, <1>4 DEF vars, Ages, tables
<1> QED BY <1>1, <1>2, <1>3, <1>4 DEF Next

\* No run gains a holder, and none becomes claimable but by its claim's age or, when
\* it has no holder, by being queued.
Recedes ==
    /\ \A w \in Workers : worker'[w].run \in {worker[w].run, NoRun}
    /\ \A r \in Runs : Unclaimed(r)' => Unclaimed(r)
    /\ \A r \in Runs : Claimable(r)' => Claimable(r) \/ Unclaimed(r) \/ (stale'[r] /\ ~stale[r])

\* A step that takes no run leaves the executions paid for.
LEMMA RecedingStep ==
    ASSUME TypeOK, TypeOK', Paid, Ages, Recedes
    PROVE  Paid'
<1>0. /\ budget["slow"] \in Nat /\ budget'["slow"] \in Nat /\ Limit["slow"] \in Nat
      /\ budget'["slow"] <= budget["slow"] /\ budget["slow"] <= Limit["slow"]
      /\ Spent("slow")' = Limit["slow"] - budget'["slow"]
  BY QueueAssumption DEF TypeOK, Troubles, Ages, Paid, Spent
<1>1. ASSUME NEW r \in Runs
      PROVE  /\ Cardinality(Holders(r)') <= 1 + Spent("slow")'
             /\ Claimable(r)' => Cardinality(Holders(r)') <= Spent("slow")'
             /\ Unclaimed(r)' => Holders(r)' = {}
  <2>1. Holders(r)' \subseteq Holders(r)
    <3>1. r # NoRun
      BY QueueAssumption
    <3> QED BY <3>1 DEF Holders, Run, Recedes
  <2>2. /\ Cardinality(Holders(r)') <= Cardinality(Holders(r))
        /\ Cardinality(Holders(r)) \in Nat /\ Cardinality(Holders(r)') \in Nat
    BY <2>1, HoldersFinite
  <2>3. Holders(r) = {} => Cardinality(Holders(r)) = 0
    BY FS_EmptySet
  <2>4. /\ Cardinality(Holders(r)) <= 1 + Spent("slow")
        /\ Claimable(r) => Cardinality(Holders(r)) <= Spent("slow")
        /\ Unclaimed(r) => Holders(r) = {}
    BY DEF Paid
  <2>5. Cardinality(Holders(r)') <= 1 + Spent("slow")'
    BY <1>0, <2>2, <2>4 DEF Spent
  <2>6. ASSUME Claimable(r)'
        PROVE  Cardinality(Holders(r)') <= Spent("slow")'
    <3>1. Claimable(r) \/ Unclaimed(r) \/ (stale'[r] /\ ~stale[r])
      BY <2>6 DEF Recedes
    <3>2. CASE Claimable(r)
      BY <1>0, <2>2, <2>4, <3>2 DEF Spent
    <3>3. CASE Holders(r) = {}
      BY <1>0, <2>2, <2>3, <3>3
    <3>4. CASE budget'["slow"] + 1 = budget["slow"]
      BY <1>0, <2>2, <2>4, <3>4 DEF Spent
    <3> QED BY <2>4, <3>1, <3>2, <3>3, <3>4 DEF Ages
  <2>7. Unclaimed(r)' => Holders(r)' = {}
    BY <2>1, <2>4 DEF Recedes
  <2> QED BY <2>5, <2>6, <2>7
<1> QED BY <1>0, <1>1 DEF Paid

\* A claim adds one holder to a run that had room for it.
LEMMA TakingStep ==
    ASSUME TypeOK, TypeOK', Loaded, Paid, Ages,
           NEW w \in Workers, NEW r \in Runs, Takes(w, r)
    PROVE  Paid'
<1>0. /\ budget["slow"] \in Nat /\ budget'["slow"] \in Nat /\ Limit["slow"] \in Nat
      /\ budget'["slow"] <= budget["slow"] /\ budget["slow"] <= Limit["slow"]
      /\ Spent("slow")' = Limit["slow"] - budget'["slow"]
  BY QueueAssumption DEF TypeOK, Troubles, Ages, Paid, Spent
<1>1. /\ worker[w].run = NoRun /\ worker'[w].run = r
      /\ \A v \in Workers \ {w} : worker'[v].run = worker[v].run
      /\ r # NoRun
  BY QueueAssumption DEF Takes, Becomes, Loaded
<1>2. /\ Claimable(r) /\ row'[r].status = "running"
      /\ \A q \in Runs \ {r} : row'[q] = row[q]
  BY ClaimedTyped DEF Takes, Claimed
<1>3. ~stale'[r] /\ \A q \in Runs \ {r} : stale'[q] = stale[q]
  BY DEF Takes, Claimed, TypeOK
<1>4. /\ Cardinality(Holders(r)') <= 1 + Spent("slow")'
      /\ ~Claimable(r)' /\ ~Unclaimed(r)'
  <2>1. Holders(r)' = Holders(r) \cup {w}
    BY <1>1 DEF Holders, Run
  <2>2. Cardinality(Holders(r) \cup {w}) <= Cardinality(Holders(r)) + 1
    <3> DEFINE H == Holders(r)
    <3>1. IsFiniteSet(H) /\ Cardinality(H) \in Nat
      BY HoldersFinite
    <3> HIDE DEF H
    <3>2. Cardinality(H \cup {w}) = IF w \in H THEN Cardinality(H) ELSE Cardinality(H) + 1
      BY <3>1, FS_AddElement
    <3>3. Cardinality(H \cup {w}) <= Cardinality(H) + 1
      BY <3>1, <3>2
    <3> QED BY <3>3 DEF H
  <2>3. Cardinality(Holders(r)) <= Spent("slow")
    BY <1>2 DEF Paid
  <2>4. Cardinality(Holders(r)) \in Nat /\ Cardinality(Holders(r)') \in Nat
    BY HoldersFinite
  <2>5. Cardinality(Holders(r)') <= 1 + Spent("slow")'
    BY <1>0, <2>1, <2>2, <2>3, <2>4 DEF Spent
  <2>6. ~Claimable(r)' /\ ~Unclaimed(r)'
    BY <1>2, <1>3 DEF Claimable, Unclaimed
  <2> QED BY <2>5, <2>6
<1>5. ASSUME NEW q \in Runs \ {r}
      PROVE  /\ Cardinality(Holders(q)') <= 1 + Spent("slow")'
             /\ Claimable(q)' => Cardinality(Holders(q)') <= Spent("slow")'
             /\ Unclaimed(q)' => Holders(q)' = {}
  <2>1. Holders(q)' = Holders(q)
    <3>1. q # NoRun /\ q # r
      BY QueueAssumption
    <3> QED BY <1>1, <3>1 DEF Holders, Run
  <2>2. (Claimable(q)' <=> Claimable(q)) /\ (Unclaimed(q)' <=> Unclaimed(q))
    BY <1>2, <1>3 DEF Claimable, Unclaimed
  <2>3. /\ Cardinality(Holders(q)) <= 1 + Spent("slow")
        /\ Claimable(q) => Cardinality(Holders(q)) <= Spent("slow")
        /\ Unclaimed(q) => Holders(q) = {}
        /\ Cardinality(Holders(q)) \in Nat
    BY HoldersFinite DEF Paid
  <2>4. Spent("slow") <= Spent("slow")' /\ Spent("slow") \in Nat /\ Spent("slow")' \in Nat
    BY <1>0 DEF Spent
  <2> HIDE DEF Spent, Holders
  <2> QED BY <2>1, <2>2, <2>3, <2>4
<1> QED BY <1>0, <1>4, <1>5 DEF Paid

\* A process that works, lets go or closes takes no run.
LEMMA RecedesStep ==
    ASSUME TypeOK, Loaded, NEW w \in Workers, Works(w) \/ Drops(w) \/ Closes(w)
    PROVE  Recedes
<1>1. CASE Works(w)
  BY <1>1 DEF Works, MovesTo, Becomes, Recedes, Claimable, Unclaimed, tables
<1>2. CASE Drops(w)
  BY <1>2 DEF Drops, Becomes, Recedes, Claimable, Unclaimed, tables
<1>3. CASE Closes(w)
  <2>1. /\ worker[w].run \in Runs /\ worker[w].outcome \in Outcomes
        /\ worker[w].outcome.status \in Closed
    BY <1>3 DEF Closes, Loaded, TypeOK, Processes, Outcomes, Success, UserInputError,
                SystemError, RunTimeout, Closed
  <2>2. \A v \in Workers : worker'[v].run \in {worker[v].run, NoRun}
    BY <1>3 DEF Closes, MovesTo, Becomes
  <2>3. /\ stale' = stale
        /\ \A r \in Runs : row'[r] = row[r] \/ row'[r].status \in Closed
    BY <1>3, <2>1, ClosingTyped DEF Closes
  <2> QED BY <2>2, <2>3 DEF Recedes, Claimable, Unclaimed, Closed
<1> QED BY <1>1, <1>2, <1>3

\* Nor does a step that touches no process.
LEMMA IdleRecedes ==
    ASSUME TypeOK, Loaded, Others
    PROVE  Recedes
<1>1. \A v \in Workers : worker'[v].run \in {worker[v].run, NoRun}
  BY DEF Others, Stays
<1>2. CASE \E r \in Runs : Enqueue(r)
  BY <1>1, <1>2 DEF Enqueue, Recedes, Claimable, Unclaimed, TypeOK
<1>3. CASE \E v \in Workers, r \in Runs : worker[v].at = "idle" /\ Claimed(v, r)
  <2>1. PICK v \in Workers, r \in Runs : Claimed(v, r)
    BY <1>3
  <2>2. /\ row'[r].status = "running" /\ ~stale'[r]
        /\ \A q \in Runs \ {r} : row'[q] = row[q] /\ stale'[q] = stale[q]
    BY <2>1, ClaimedTyped DEF Claimed, TypeOK
  <2> QED BY <1>1, <2>2 DEF Recedes, Claimable, Unclaimed
<1>4. CASE row' = row
  BY <1>1, <1>4 DEF Recedes, Claimable, Unclaimed
<1> QED BY <1>2, <1>3, <1>4 DEF Others

\* Every step leaves the executions paid for.
LEMMA PaidStep ==
    ASSUME TypeOK, TypeOK', Loaded, Paid, [Next]_vars
    PROVE  Paid'
<1>1. Ages
  BY AgesStep
<1>2. ASSUME NEW w \in Workers, Works(w) \/ Drops(w) \/ Closes(w)
      PROVE  Paid'
  BY <1>1, <1>2, RecedesStep, RecedingStep
<1>3. ASSUME NEW w \in Workers, NEW r \in Runs, Takes(w, r)
      PROVE  Paid'
  BY <1>1, <1>3, TakingStep
<1>4. CASE Others
  BY <1>1, <1>4, IdleRecedes, RecedingStep
<1> QED BY <1>2, <1>3, <1>4, AnyStep

\* At first nothing is claimed and nobody works.
LEMMA InitPaid == Init => Paid
<1> SUFFICES ASSUME Init PROVE Paid
  OBVIOUS
<1>1. /\ budget["slow"] = Limit["slow"] /\ Limit["slow"] \in Nat
      /\ Spent("slow") = 0
  BY QueueAssumption DEF Init, Spent, Troubles
<1>2. \A r \in Runs : Holders(r) = {}
  BY QueueAssumption DEF Init, Holders, Run, Idle
<1>3. \A r \in Runs : Cardinality(Holders(r)) = 0
  BY <1>2, FS_EmptySet
<1> QED BY <1>1, <1>2, <1>3 DEF Paid

\* The engines of a run that nobody supervises are counted against the kills and the calls
\* that raised.
OrphansPaid ==
    /\ budget["crash"] <= Limit["crash"] /\ budget["rpc"] <= Limit["rpc"]
    /\ \A r \in Runs : orphans[r] <= Spent("crash") + Spent("rpc")

\* What a step may do to them: it leaves at most one engine of a run behind, for a trouble.
Leaves ==
    /\ budget'["crash"] <= budget["crash"] /\ budget'["rpc"] <= budget["rpc"]
    /\ \A r \in Runs :
          \/ orphans'[r] <= orphans[r]
          \/ /\ orphans'[r] = orphans[r] + 1
             /\ \/ budget'["crash"] + 1 = budget["crash"]
                \/ budget'["rpc"] + 1 = budget["rpc"]

\* One trouble more is one less to come, and no other changes.
LEMMA TroubleSpent ==
    ASSUME TypeOK, NEW t \in Troubles, Suffer(t)
    PROVE  /\ budget'["crash"] <= budget["crash"] /\ budget'["rpc"] <= budget["rpc"]
           /\ budget'[t] + 1 = budget[t]
<1>1. "crash" \in Troubles /\ "rpc" \in Troubles
  BY DEF Troubles
<1> QED BY <1>1 DEF Suffer, TypeOK

\* An engine is left behind by a kill or by a heartbeat that raises, one at a time.
LEMMA LeavesStep ==
    ASSUME TypeOK, Loaded, [Next]_vars
    PROVE  Leaves
<1>0. /\ {"rpc", "slow", "crash", "stop"} \subseteq Troubles
      /\ budget["crash"] \in Nat /\ budget["rpc"] \in Nat
      /\ \A r \in Runs : orphans[r] \in Nat
  BY DEF TypeOK, Troubles
<1>1. UNCHANGED <<orphans, budget>> => Leaves
  BY <1>0 DEF Leaves
<1>2. ASSUME NEW t \in Troubles, Suffer(t), UNCHANGED orphans
      PROVE  Leaves
  BY <1>0, <1>2, TroubleSpent DEF Leaves
<1>3. ASSUME NEW w \in Workers, Step(w) \/ Heartbeat(w)
      PROVE  UNCHANGED <<orphans, budget>>
  BY <1>3 DEF Step, Heartbeat, Claim, Spawn, StagingFails, EngineExits, EngineStopped, Answer,
              CloseRow, Persist, Exit, Restart
<1>4. ASSUME NEW w \in Workers, Disturb(w)
      PROVE  Leaves
  <2>1. CASE \E r \in Runs : ClaimReplyLost(w, r)
    BY <1>0, <1>2, <2>1 DEF ClaimReplyLost
  <2>2. CASE MissHeartbeats(w) \/ CloseRaises(w) \/ Sigterm(w)
    BY <1>0, <1>2, <2>2 DEF MissHeartbeats, CloseRaises, Sigterm
  <2>3. CASE HeartbeatRaises(w)
    <3>1. Suffer("rpc") /\ orphans' = [orphans EXCEPT ![Run(w)] = @ + 1]
      BY <2>3 DEF HeartbeatRaises, Abandon
    <3>2. /\ budget'["crash"] <= budget["crash"] /\ budget'["rpc"] <= budget["rpc"]
          /\ budget'["rpc"] + 1 = budget["rpc"]
      BY <1>0, <3>1, TroubleSpent
    <3> QED BY <1>0, <3>1, <3>2 DEF Leaves, TypeOK
  <2>4. CASE Crash(w)
    <3>1. Suffer("crash")
      BY <2>4 DEF Crash
    <3>2. orphans' = orphans \/ orphans' = [orphans EXCEPT ![Run(w)] = @ + 1]
      BY <2>4 DEF Crash, Abandon
    <3>3. /\ budget'["crash"] <= budget["crash"] /\ budget'["rpc"] <= budget["rpc"]
          /\ budget'["crash"] + 1 = budget["crash"]
      BY <1>0, <3>1, TroubleSpent
    <3> QED BY <1>0, <3>2, <3>3 DEF Leaves, TypeOK
  <2> QED BY <1>4, <2>1, <2>2, <2>3, <2>4 DEF Disturb
<1>5. ASSUME NEW r \in Runs, Enqueue(r) \/ GoStale(r)
      PROVE  UNCHANGED <<orphans, budget>>
  BY <1>5 DEF Enqueue, GoStale
<1>6. ASSUME NEW r \in Runs, OrphanExits(r)
      PROVE  Leaves
  BY <1>0, <1>6 DEF OrphanExits, Leaves, TypeOK
<1>7. CASE UNCHANGED vars
  BY <1>1, <1>7 DEF vars
<1> QED BY <1>1, <1>3, <1>4, <1>5, <1>6, <1>7 DEF Next

\* Every step leaves the engines that nobody supervises paid for.
LEMMA OrphansStep ==
    ASSUME TypeOK, TypeOK', Loaded, OrphansPaid, [Next]_vars
    PROVE  OrphansPaid'
<1>1. Leaves
  BY LeavesStep
<1>2. /\ budget["crash"] \in Nat /\ budget'["crash"] \in Nat /\ Limit["crash"] \in Nat
      /\ budget["rpc"] \in Nat /\ budget'["rpc"] \in Nat /\ Limit["rpc"] \in Nat
      /\ \A r \in Runs : orphans[r] \in Nat /\ orphans'[r] \in Nat
  BY QueueAssumption DEF TypeOK, Troubles
<1>3. ASSUME NEW r \in Runs
      PROVE  orphans'[r] <= Spent("crash")' + Spent("rpc")'
  BY <1>1, <1>2 DEF Leaves, OrphansPaid, Spent
<1> QED BY <1>1, <1>2, <1>3 DEF Leaves, OrphansPaid

\* At any time a run has one execution, supervised or not, and one more for each trouble that
\* let a second one begin: a missed heartbeat lets another worker claim the run, and a kill or
\* a heartbeat that raises leaves the engine running when the row is taken again.
THEOREM DuplicatesHold == Spec => []DuplicatesNeedTroubles
<1>1. Init => Paid
  BY InitPaid
<1>2. TypeOK /\ TypeOK' /\ Loaded /\ Paid /\ [Next]_vars => Paid'
  BY PaidStep
<1>3. Init => OrphansPaid
  BY QueueAssumption DEF Init, OrphansPaid, Spent, Troubles
<1>4. TypeOK /\ TypeOK' /\ Loaded /\ OrphansPaid /\ [Next]_vars => OrphansPaid'
  BY OrphansStep
<1>5. TypeOK /\ Paid /\ OrphansPaid => DuplicatesNeedTroubles
  <2> SUFFICES ASSUME TypeOK, Paid, OrphansPaid, NEW r \in Runs
               PROVE  Cardinality({w \in Workers : Run(w) = r}) + orphans[r]
                          <= 1 + Spent("slow") + Spent("crash") + Spent("rpc")
    BY DEF DuplicatesNeedTroubles
  <2>1. Cardinality(Holders(r)) <= 1 + Spent("slow") /\ Cardinality(Holders(r)) \in Nat
    BY HoldersFinite DEF Paid
  <2>2. orphans[r] <= Spent("crash") + Spent("rpc") /\ orphans[r] \in Nat
    BY DEF OrphansPaid, TypeOK
  <2>3. Spent("slow") \in Int /\ Spent("crash") \in Int /\ Spent("rpc") \in Int
    BY QueueAssumption DEF TypeOK, Troubles, Spent
  <2>4. {w \in Workers : Run(w) = r} = Holders(r)
    BY DEF Holders
  <2> HIDE DEF Spent, Holders
  <2> QED BY <2>1, <2>2, <2>3, <2>4
<1> QED BY TypeCorrect, <1>1, <1>2, <1>3, <1>4, <1>5, PTL DEF Spec

-----------------------------------------------------------------------------
(* Answers of one run.                                                     *)

\* What happened so far of the troubles that cut an execution off or overtake it.
Price == Spent("rpc") + Spent("slow") + Spent("crash")

\* The process with the last claim of run r has it in hand.
InHand(r) == \E w \in Workers : worker[w].run = r /\ worker[w].nth = claims[r]

\* Run r is to be claimed, now or as soon as its claim is old enough.
Open(r) == Unclaimed(r) \/ (row[r].status = "running" /\ (stale[r] \/ ~InHand(r)))

\* Claims beyond the first are counted against the troubles, with one to spare while
\* the run is open; an answer is numbered by a claim.
ClaimsPaid ==
    \A r \in Runs :
        /\ claims[r] <= 1 + Price
        /\ Open(r) => claims[r] <= Price
        /\ answers[r] \subseteq 1..claims[r]

\* What a process knows of its run: the number of a claim, and, if it is the last one,
\* that the row is under its ID; a process that stores artifacts has closed the row.
Numbered ==
    \A w \in Workers : worker[w].run \in Runs =>
        /\ worker[w].nth \in 1..claims[worker[w].run]
        /\ worker[w].nth = claims[worker[w].run] =>
             row[worker[w].run].by = IdOf[w] /\ ~Unclaimed(worker[w].run)
        /\ worker[w].at = "persisting" => IsClosed(worker[w].run)

Counted ==
    /\ \A t \in Troubles : budget[t] <= Limit[t]
    /\ ClaimsPaid
    /\ Numbered

\* What happened so far is a number that only grows; each trouble counts.
Dearer == Price' \in Nat /\ Price \in Nat /\ Price' >= Price
Charged == Dearer /\ Price' >= Price + 1

\* The budget falls, for one trouble at a time.
LEMMA PriceRises ==
    ASSUME TypeOK, TypeOK', \A t \in Troubles : budget[t] <= Limit[t],
           budget' = budget \/ (\E t \in Troubles : Suffer(t))
    PROVE  /\ \A t \in Troubles : budget'[t] <= budget[t] /\ budget'[t] <= Limit[t]
           /\ Dearer
           /\ Suffer("rpc") \/ Suffer("slow") \/ Suffer("crash") => Charged
<1>1. /\ {"rpc", "slow", "crash"} \subseteq Troubles
      /\ \A t \in Troubles : budget[t] \in Nat /\ budget'[t] \in Nat /\ Limit[t] \in Nat
  BY QueueAssumption DEF TypeOK, Troubles
<1>2. \A t \in Troubles : budget'[t] <= budget[t] /\ budget'[t] <= Limit[t]
  BY <1>1 DEF Suffer, TypeOK
<1>3. \A t \in Troubles : Suffer(t) => budget'[t] + 1 = budget[t]
  BY <1>1 DEF Suffer, TypeOK
<1>4. /\ Price = (Limit["rpc"] - budget["rpc"]) + (Limit["slow"] - budget["slow"])
                 + (Limit["crash"] - budget["crash"])
      /\ Price' = (Limit["rpc"] - budget'["rpc"]) + (Limit["slow"] - budget'["slow"])
                 + (Limit["crash"] - budget'["crash"])
  BY DEF Price, Spent
<1>5. /\ budget'["rpc"] \in Nat /\ budget["rpc"] \in Nat /\ Limit["rpc"] \in Nat
      /\ budget'["slow"] \in Nat /\ budget["slow"] \in Nat /\ Limit["slow"] \in Nat
      /\ budget'["crash"] \in Nat /\ budget["crash"] \in Nat /\ Limit["crash"] \in Nat
      /\ budget["rpc"] <= Limit["rpc"] /\ budget'["rpc"] <= budget["rpc"]
      /\ budget["slow"] <= Limit["slow"] /\ budget'["slow"] <= budget["slow"]
      /\ budget["crash"] <= Limit["crash"] /\ budget'["crash"] <= budget["crash"]
  BY <1>1, <1>2
<1>6. Dearer
  BY <1>4, <1>5 DEF Dearer
<1>7. ASSUME Suffer("rpc") \/ Suffer("slow") \/ Suffer("crash")
      PROVE  Charged
  <2>1. \/ budget'["rpc"] + 1 = budget["rpc"]
        \/ budget'["slow"] + 1 = budget["slow"]
        \/ budget'["crash"] + 1 = budget["crash"]
    BY <1>1, <1>3, <1>7
  <2> QED BY <1>4, <1>5, <1>6, <2>1 DEF Charged
<1> QED BY <1>2, <1>6, <1>7

\* What a step may do, and what it costs: a claim that goes stale under a holder, a
\* holder that lets an open row go and a claim nobody carries out are all charged.
Costs ==
    /\ \A t \in Troubles : budget'[t] <= Limit[t]
    /\ Dearer
    /\ \A r \in Runs : stale'[r] /\ ~stale[r] => Charged \/ ~InHand(r)
    /\ \A w \in Workers : worker[w].run \in Runs /\ worker'[w].run = NoRun =>
          \/ Charged
          \/ ~Holds(w, worker[w].run)
          \/ worker[w].at = "persisting"
          \/ row'[worker[w].run].status \in Closed
    /\ \A r \in Runs : claims'[r] # claims[r] =>
          Charged \/ \E w \in Workers : Takes(w, r)
    /\ \A r \in Runs : answers'[r] \subseteq
          answers[r] \cup {worker[w].nth : w \in {v \in Workers : worker[v].run = r}}

\* A step that is no trouble, ages no claim and makes no answer.
Quiet ==
    /\ UNCHANGED <<budget, answers>>
    /\ \A r \in Runs : stale'[r] => stale[r]

\* No process lets its run go.
Keeps == \A w \in Workers : worker[w].run \in Runs => worker'[w].run = worker[w].run

\* Every way an execution ends closes the row.
LEMMA ClosedOutcomes == \A o \in Outcomes : o.status \in Closed
  BY DEF Outcomes, Success, UserInputError, SystemError, RunTimeout, Closed

\* What a process's step costs.
LEMMA ProcessCosts ==
    ASSUME TypeOK, TypeOK', Loaded, \A t \in Troubles : budget[t] <= Limit[t],
           NEW w \in Workers, Step(w) \/ Heartbeat(w) \/ Disturb(w)
    PROVE  Costs
<1>0. /\ worker \in Procs /\ worker[w] \in Processes /\ NoRun \notin Runs
      /\ {"rpc", "slow", "crash", "stop"} \subseteq Troubles
  BY QueueAssumption DEF TypeOK, Procs, Troubles
<1>1. ASSUME budget' = budget \/ (\E t \in Troubles : Suffer(t))
      PROVE  /\ \A t \in Troubles : budget'[t] <= Limit[t]
             /\ Dearer
             /\ Suffer("rpc") \/ Suffer("slow") \/ Suffer("crash") => Charged
  BY <1>1, PriceRises
<1>2. ASSUME Suffer("rpc") \/ Suffer("slow") \/ Suffer("crash"), UNCHANGED answers
      PROVE  Costs
  <2>1. Charged /\ Dearer /\ \A t \in Troubles : budget'[t] <= Limit[t]
    BY <1>0, <1>1, <1>2
  <2> QED BY <1>2, <2>1 DEF Costs
<1>3. ASSUME Quiet, Keeps, UNCHANGED claims
      PROVE  Costs
  <2>1. Dearer /\ \A t \in Troubles : budget'[t] <= Limit[t]
    BY <1>1, <1>3 DEF Quiet
  <2> QED BY <1>0, <1>3, <2>1 DEF Costs, Quiet, Keeps
<1>4. ASSUME NEW r \in Runs, Claim(w, r)
      PROVE  Costs
  <2>1. Takes(w, r)
    <3> DEFINE p == [at |-> "staging", run |-> r, nth |-> claims'[r], outcome |-> Success]
    <3>1. p \in Processes
      BY <1>4, OutcomesTyped DEF Claim, Claimed, TypeOK, Processes, Stages
    <3>2. Becomes(w, p)
      BY <1>0, <1>4, <3>1, Update DEF Claim
    <3> QED BY <1>4, <3>2 DEF Claim, Takes, Becomes, At, outputs
  <2>2. Quiet
    BY <1>4 DEF Claim, Claimed, Quiet, outputs, TypeOK
  <2>3. Keeps
    BY <1>0, <2>1 DEF Takes, Becomes, Keeps, Loaded
  <2>4. \A q \in Runs : claims'[q] # claims[q] => q = r
    BY <1>4 DEF Claim, Claimed, TypeOK
  <2>5. Dearer /\ \A t \in Troubles : budget'[t] <= Limit[t]
    BY <1>1, <2>2 DEF Quiet
  <2> QED BY <1>0, <2>1, <2>2, <2>3, <2>4, <2>5 DEF Costs, Quiet, Keeps
<1>5. CASE Spawn(w) \/ StagingFails(w) \/ EngineExits(w) \/ EngineStopped(w)
  <2>1. Quiet /\ UNCHANGED claims
    BY <1>5 DEF Spawn, StagingFails, EngineExits, EngineStopped, Quiet, tables, outputs
  <2>2. Works(w)
    <3>1. CASE Spawn(w)
      BY <1>0, <3>1, Moving, OutcomesTyped DEF Spawn, At, Works, Busy, Stages, outputs
    <3>2. CASE StagingFails(w)
      BY <1>0, <3>2, Ending, OutcomesTyped DEF StagingFails, At, Works, Busy, outputs
    <3>3. CASE EngineExits(w)
      BY <1>0, <3>3, Ending, Moving, OutcomesTyped DEF EngineExits, At, Works, Busy, Stages, outputs
    <3>4. CASE EngineStopped(w)
      BY <1>0, <3>4, Ending, OutcomesTyped DEF EngineStopped, At, Works, Busy, outputs
    <3> QED BY <1>5, <3>1, <3>2, <3>3, <3>4
  <2>3. Keeps
    BY <2>2 DEF Works, MovesTo, Becomes, Keeps
  <2> QED BY <1>3, <2>1, <2>3
<1>6. CASE Answer(w)
  <2>1. /\ Keeps
        /\ worker[w].run \in Runs
    <3>1. MovesTo(w, "closing")
      BY <1>0, <1>6, Ending, OutcomesTyped DEF Answer
    <3> QED BY <1>0, <1>6, <3>1 DEF Answer, At, MovesTo, Becomes, Keeps, Loaded, Processes
  <2>2. UNCHANGED <<tables, budget>>
    BY <1>6 DEF Answer
  <2>3. Dearer /\ \A t \in Troubles : budget'[t] <= Limit[t]
    BY <1>1, <2>2
  <2>4. \/ answers' = answers
        \/ answers' = [answers EXCEPT ![worker[w].run] = @ \cup {worker[w].nth}]
    BY <1>6 DEF Answer, Run
  <2>5. \A r \in Runs : answers'[r] \subseteq
          answers[r] \cup {worker[v].nth : v \in {u \in Workers : worker[u].run = r}}
    BY <2>1, <2>4 DEF TypeOK
  <2> QED BY <1>0, <2>1, <2>2, <2>3, <2>5 DEF Costs, Keeps, tables
<1>7. CASE CloseRow(w)
  <2>1. Quiet /\ UNCHANGED claims
    BY <1>7 DEF CloseRow, Close, Quiet, outputs
  <2>2. worker[w].outcome \in Outcomes /\ worker[w].run \in Runs
    BY <1>0, <1>7 DEF CloseRow, At, Loaded, Processes
  <2>3. \A v \in Workers \ {w} : worker'[v] = worker[v]
    BY <1>0, <1>7 DEF CloseRow, GoesIdle, Procs
  <2>4. Holds(w, worker[w].run) => row'[worker[w].run].status \in Closed
    BY <1>7, <2>2, ClosingTyped, ClosedOutcomes DEF CloseRow, Run
  <2>5. worker'[w].run = worker[w].run \/ ~Holds(w, worker[w].run) \/ row'[worker[w].run].status \in Closed
    BY <2>4
  <2>6. Dearer /\ \A t \in Troubles : budget'[t] <= Limit[t]
    BY <1>1, <2>1 DEF Quiet
  <2> QED BY <1>0, <2>1, <2>3, <2>5, <2>6 DEF Costs, Quiet
<1>8. CASE Persist(w)
  <2>1. Quiet /\ UNCHANGED claims
    BY <1>8 DEF Persist, Quiet, tables
  <2>2. \A v \in Workers \ {w} : worker'[v] = worker[v]
    BY <1>0, <1>8 DEF Persist, GoesIdle, Procs
  <2>3. Dearer /\ \A t \in Troubles : budget'[t] <= Limit[t]
    BY <1>1, <2>1 DEF Quiet
  <2> QED BY <1>0, <1>8, <2>1, <2>2, <2>3 DEF Costs, Quiet, Persist, At
<1>9. CASE Exit(w) \/ Restart(w)
  <2>1. Quiet /\ UNCHANGED claims
    BY <1>9 DEF Exit, Restart, Quiet, tables, outputs
  <2>2. Keeps
    BY <1>0, <1>9 DEF Exit, Restart, At, Loaded, Keeps, Procs
  <2> QED BY <1>3, <2>1, <2>2
<1>10. CASE Heartbeat(w)
  <2>1. Quiet /\ UNCHANGED claims
    BY <1>10 DEF Heartbeat, Quiet, outputs, TypeOK
  <2>2. CASE Holds(w, Run(w))
    <3>1. Keeps
      BY <1>10, <2>2 DEF Heartbeat, Keeps
    <3> QED BY <1>3, <2>1, <3>1
  <2>3. CASE ~Holds(w, Run(w))
    <3>1. \A v \in Workers \ {w} : worker'[v] = worker[v]
      BY <1>0, <1>10, <2>3 DEF Heartbeat, GoesIdle, Procs
    <3>2. Dearer /\ \A t \in Troubles : budget'[t] <= Limit[t]
      BY <1>1, <2>1 DEF Quiet
    <3> QED BY <1>0, <2>1, <2>3, <3>1, <3>2 DEF Costs, Quiet, Run
  <2> QED BY <2>2, <2>3
<1>11. CASE (\E r \in Runs : ClaimReplyLost(w, r)) \/ MissHeartbeats(w) \/ HeartbeatRaises(w)
            \/ CloseRaises(w) \/ Crash(w)
  BY <1>2, <1>11 DEF ClaimReplyLost, MissHeartbeats, HeartbeatRaises, CloseRaises, Crash, outputs
<1>12. CASE Sigterm(w)
  <2>1. /\ budget' = budget \/ (\E t \in Troubles : Suffer(t))
        /\ UNCHANGED <<tables, worker, answers>>
    BY <1>0, <1>12 DEF Sigterm, outputs
  <2>2. Dearer /\ \A t \in Troubles : budget'[t] <= Limit[t]
    BY <1>1, <2>1
  <2> QED BY <1>0, <2>1, <2>2 DEF Costs, tables
<1> QED BY <1>4, <1>5, <1>6, <1>7, <1>8, <1>9, <1>10, <1>11, <1>12 DEF Step, Disturb

\* What any step costs.
LEMMA StepCosts ==
    ASSUME TypeOK, TypeOK', Loaded, \A t \in Troubles : budget[t] <= Limit[t], [Next]_vars
    PROVE  Costs
<1>1. CASE \E w \in Workers : Step(w) \/ Heartbeat(w) \/ Disturb(w)
  BY <1>1, ProcessCosts
<1>2. ASSUME UNCHANGED <<claims, worker, answers, budget>>,
             \A r \in Runs : stale'[r] /\ ~stale[r] => ~InHand(r)
      PROVE  Costs
  <2>1. Dearer /\ \A t \in Troubles : budget'[t] <= Limit[t]
    BY <1>2, PriceRises
  <2>2. NoRun \notin Runs
    BY QueueAssumption
  <2> QED BY <1>2, <2>1, <2>2 DEF Costs
<1>3. CASE \E r \in Runs : Enqueue(r) \/ OrphanExits(r)
  BY <1>2, <1>3 DEF Enqueue, OrphanExits, outputs, tables
<1>4. CASE \E r \in Runs : GoStale(r)
  <2>1. PICK r \in Runs : GoStale(r)
    BY <1>4
  <2>2. ~InHand(r)
    BY <2>1 DEF GoStale, Run, InHand
  <2>3. \A q \in Runs : stale'[q] /\ ~stale[q] => q = r
    BY <2>1 DEF GoStale, TypeOK
  <2> QED BY <1>2, <2>1, <2>2, <2>3 DEF GoStale, outputs
<1>5. CASE UNCHANGED vars
  BY <1>2, <1>5 DEF vars, tables, outputs
<1> QED BY <1>1, <1>3, <1>4, <1>5 DEF Next

\* A process that keeps its run and its claim, for rows that keep what they were or
\* were closed.
LEMMA KeptNumbers ==
    ASSUME TypeOK, Loaded, Numbered, NEW w \in Workers, NEW r \in Runs,
           worker'[w].run = r, worker[w].run = r, worker'[w].nth = worker[w].nth,
           claims'[r] = claims[r],
           row'[r].by = row[r].by,
           row'[r].status = row[r].status \/ row'[r].status \in Closed,
           IsClosed(r) => row'[r].status = row[r].status,
           worker'[w].at = "persisting" => worker[w].at = "persisting" \/ IsClosed(r)'
    PROVE  /\ worker'[w].nth \in 1..claims'[r]
           /\ worker'[w].nth = claims'[r] => row'[r].by = IdOf[w] /\ ~Unclaimed(r)'
           /\ worker'[w].at = "persisting" => IsClosed(r)'
  BY DEF Numbered, Unclaimed, IsClosed, Closed

\* Answers stay within the claims as long as no claim is taken back.
LEMMA AnswersWithin ==
    ASSUME TypeOK, TypeOK', Counted, Costs, NEW r \in Runs, claims'[r] >= claims[r]
    PROVE  answers'[r] \subseteq 1..claims'[r]
<1>1. claims[r] \in Nat /\ claims'[r] \in Nat
  BY DEF TypeOK
<1>2. \A w \in Workers : worker[w].run = r => worker[w].nth \in 1..claims[r]
  BY DEF Counted, Numbered
<1>3. answers[r] \subseteq 1..claims[r]
  BY DEF Counted, ClaimsPaid
<1>4. ASSUME NEW n \in answers'[r]
      PROVE  n \in 1..claims[r]
  <2>1. n \in answers[r] \/ \E w \in Workers : worker[w].run = r /\ n = worker[w].nth
    BY <1>4 DEF Costs
  <2> QED BY <1>2, <1>3, <2>1
<1>5. 1..claims[r] \subseteq 1..claims'[r]
  BY <1>1
<1> QED BY <1>4, <1>5

\* A run that is not claimed anew stays paid for, unless it opens without a charge.
LEMMA SameClaim ==
    ASSUME TypeOK, TypeOK', Counted, Costs, NEW r \in Runs, claims'[r] = claims[r],
           Open(r)' => Open(r) \/ Charged
    PROVE  /\ claims'[r] <= 1 + Price'
           /\ Open(r)' => claims'[r] <= Price'
           /\ answers'[r] \subseteq 1..claims'[r]
<1>1. claims[r] \in Nat /\ Price \in Nat /\ Price' \in Nat /\ Price' >= Price
  BY DEF TypeOK, Costs, Dearer
<1>2. claims[r] <= 1 + Price /\ (Open(r) => claims[r] <= Price)
  BY DEF Counted, ClaimsPaid
<1>3. answers'[r] \subseteq 1..claims'[r]
  BY <1>1, AnswersWithin
<1>4. Charged => Price' >= Price + 1
  BY DEF Charged
<1> QED BY <1>1, <1>2, <1>3, <1>4

\* A process that goes on keeps the count.
LEMMA CountWorks ==
    ASSUME TypeOK, TypeOK', Loaded, Counted, Costs, NEW w \in Workers, Works(w)
    PROVE  Counted'
<1>1. /\ row' = row /\ stale' = stale /\ claims' = claims
      /\ \A v \in Workers : worker'[v].run = worker[v].run /\ worker'[v].nth = worker[v].nth
      /\ \A v \in Workers : worker'[v].at = "persisting" => worker[v].at = "persisting"
  BY DEF Works, MovesTo, Becomes, tables, Busy
<1>2. Numbered'
  BY <1>1, KeptNumbers DEF Counted, Numbered, Unclaimed, IsClosed
<1>3. \A r \in Runs : Open(r)' => Open(r)
  BY <1>1 DEF Open, Unclaimed, InHand
<1>4. ClaimsPaid'
  BY <1>1, <1>3, SameClaim DEF ClaimsPaid
<1> QED BY <1>2, <1>4 DEF Counted, Costs

\* A process that lets its run go keeps the count: if it held the row, that is charged.
LEMMA CountDrops ==
    ASSUME TypeOK, TypeOK', Loaded, Counted, Costs, NEW w \in Workers, Drops(w)
    PROVE  Counted'
<1>1. /\ row' = row /\ stale' = stale /\ claims' = claims
      /\ \A v \in Workers \ {w} : worker'[v] = worker[v]
      /\ worker'[w].run = NoRun /\ NoRun \notin Runs
  BY QueueAssumption DEF Drops, Becomes, tables
<1>2. Numbered'
  BY <1>1 DEF Counted, Numbered, Unclaimed, IsClosed
<1>3. ASSUME NEW r \in Runs, Open(r)'
      PROVE  Open(r) \/ Charged
  <2>1. CASE worker[w].run # r \/ worker[w].nth # claims[r]
    <3>1. InHand(r) => InHand(r)'
      BY <1>1, <2>1 DEF InHand
    <3> QED BY <1>1, <1>3, <3>1 DEF Open, Unclaimed
  <2>2. CASE worker[w].run = r /\ worker[w].nth = claims[r]
    <3>1. /\ row[r].by = IdOf[w] /\ ~Unclaimed(r)
          /\ worker[w].at = "persisting" => IsClosed(r)
      BY <2>2 DEF Counted, Numbered
    <3>2. row[r].status = "running"
      BY <1>1, <1>3, <3>1 DEF Open, Unclaimed
    <3>3. Holds(w, r) /\ ~(row'[r].status \in Closed) /\ worker[w].at # "persisting"
      BY <1>1, <3>1, <3>2 DEF Holds, IsClosed, Closed
    <3> QED BY <1>1, <2>2, <3>3 DEF Costs
  <2> QED BY <2>1, <2>2
<1>4. ClaimsPaid'
  BY <1>1, <1>3, SameClaim DEF ClaimsPaid
<1> QED BY <1>2, <1>4 DEF Counted, Costs

\* A close keeps the count: the last claimer still holds its row, so that it closes it.
LEMMA CountCloses ==
    ASSUME TypeOK, TypeOK', Loaded, Counted, Costs, NEW w \in Workers, Closes(w)
    PROVE  Counted'
<1> DEFINE q == worker[w].run
<1>0. q \in Runs /\ worker[w].outcome \in Outcomes /\ NoRun \notin Runs
  BY QueueAssumption DEF Closes, Loaded, TypeOK, Processes
<1>1. /\ stale' = stale /\ claims' = claims
      /\ \A r \in Runs \ {q} : row'[r] = row[r]
      /\ ~Holds(w, q) => row' = row
      /\ Holds(w, q) => row'[q].status \in Closed /\ row'[q].by = row[q].by
                        /\ row[q].status = "running"
  BY <1>0, ClosingTyped, ClosedOutcomes DEF Closes, Holds
<1>2. /\ \A v \in Workers \ {w} : worker'[v] = worker[v]
      /\ \/ worker'[w].run = NoRun
         \/ /\ worker'[w].run = q /\ worker'[w].nth = worker[w].nth
            /\ Holds(w, q)
  BY DEF Closes, Becomes, MovesTo
<1>3. ASSUME NEW r \in Runs
      PROVE  /\ row'[r].by = row[r].by
             /\ row'[r].status = row[r].status \/ row'[r].status \in Closed
             /\ IsClosed(r) => row'[r].status = row[r].status
  BY <1>1 DEF IsClosed, Closed
<1>4. Numbered'
  <2> SUFFICES ASSUME NEW v \in Workers, NEW r \in Runs, worker'[v].run = r
               PROVE  /\ worker'[v].nth \in 1..claims'[r]
                      /\ worker'[v].nth = claims'[r] => row'[r].by = IdOf[v] /\ ~Unclaimed(r)'
                      /\ worker'[v].at = "persisting" => IsClosed(r)'
    BY DEF Numbered, Unclaimed, IsClosed
  <2>1. /\ worker[v].run = r /\ worker'[v].nth = worker[v].nth
        /\ worker'[v].at = "persisting" => worker[v].at = "persisting" \/ IsClosed(r)'
    BY <1>0, <1>1, <1>2 DEF IsClosed
  <2> QED BY <1>1, <1>3, <2>1, KeptNumbers DEF Counted
<1>5. ASSUME NEW r \in Runs, Open(r)'
      PROVE  Open(r)
  <2>1. row'[r] = row[r]
    BY <1>1, <1>5 DEF Open, Unclaimed, Closed
  <2>2. CASE InHand(r) /\ ~InHand(r)'
    <3>1. worker[w].run = r /\ worker[w].nth = claims[r] /\ worker'[w].run = NoRun
      BY <1>0, <1>1, <1>2, <2>2 DEF InHand
    <3>2. row[r].by = IdOf[w] /\ ~Unclaimed(r)
      BY <3>1 DEF Counted, Numbered
    <3>3. row[r].status = "running"
      BY <1>5, <2>1, <3>2 DEF Open, Unclaimed
    <3> QED BY <1>1, <2>1, <3>1, <3>2, <3>3 DEF Holds, Closed
  <2>3. CASE ~(InHand(r) /\ ~InHand(r)')
    BY <1>1, <1>5, <2>1, <2>3 DEF Open, Unclaimed
  <2> QED BY <2>2, <2>3
<1>6. ClaimsPaid'
  BY <1>1, <1>5, SameClaim DEF ClaimsPaid
<1> QED BY <1>4, <1>6 DEF Counted, Costs

\* A claim, carried out or not, keeps the count: the run was open, and a claim that
\* nobody carries out is charged.
LEMMA CountClaims ==
    ASSUME TypeOK, TypeOK', Loaded, Counted, Costs, NEW w \in Workers, NEW q \in Runs,
           worker[w].at = "idle", Claimed(w, q),
           Takes(w, q) \/ (UNCHANGED worker /\ Charged)
    PROVE  Counted'
<1>0. /\ NoRun \notin Runs /\ worker[w].run = NoRun
      /\ \A v \in Workers \ {w} : worker'[v] = worker[v]
      /\ \/ worker'[w].run = NoRun
         \/ worker'[w].run = q /\ worker'[w].nth = claims'[q] /\ worker'[w].at = "staging"
  BY QueueAssumption DEF Takes, Becomes, Loaded
<1>1. /\ row'[q].status = "running" /\ row'[q].by = IdOf[w]
      /\ \A r \in Runs \ {q} : row'[r] = row[r] /\ claims'[r] = claims[r] /\ stale'[r] = stale[r]
      /\ claims'[q] = claims[q] + 1 /\ claims[q] \in Nat /\ ~stale'[q]
      /\ row[q].status \in {"queued", "running"} /\ Open(q)
  <2>1. Claimable(q) /\ stale' = [stale EXCEPT ![q] = FALSE]
    BY DEF Claimed
  <2>2. row[q].status \in {"queued", "running"} /\ Open(q)
    BY <2>1 DEF Claimable, Open, Unclaimed
  <2>3. claims[q] \in Nat /\ ~stale'[q] /\ \A r \in Runs \ {q} : stale'[r] = stale[r]
    BY <2>1 DEF TypeOK
  <2> QED BY <2>2, <2>3, ClaimedTyped
<1>2. Numbered'
  <2> SUFFICES ASSUME NEW v \in Workers, NEW r \in Runs, worker'[v].run = r
               PROVE  /\ worker'[v].nth \in 1..claims'[r]
                      /\ worker'[v].nth = claims'[r] => row'[r].by = IdOf[v] /\ ~Unclaimed(r)'
                      /\ worker'[v].at = "persisting" => IsClosed(r)'
    BY DEF Numbered, Unclaimed, IsClosed
  <2>1. CASE v = w
    BY <1>0, <1>1, <2>1 DEF Unclaimed
  <2>2. CASE v # w
    <3>0. worker'[v] = worker[v] /\ worker[v].run = r
      BY <1>0, <2>2
    <3>1. /\ worker[v].nth \in 1..claims[r]
          /\ worker[v].nth = claims[r] => row[r].by = IdOf[v] /\ ~Unclaimed(r)
          /\ worker[v].at = "persisting" => IsClosed(r)
      BY <3>0 DEF Counted, Numbered
    <3>2. CASE r = q
      BY <1>1, <3>0, <3>1, <3>2 DEF IsClosed, Closed
    <3>3. CASE r # q
      BY <1>1, <3>0, <3>1, <3>3 DEF IsClosed, Unclaimed
    <3> QED BY <3>2, <3>3
  <2> QED BY <2>1, <2>2
<1>3. ASSUME NEW r \in Runs \ {q}
      PROVE  /\ claims'[r] <= 1 + Price'
             /\ Open(r)' => claims'[r] <= Price'
             /\ answers'[r] \subseteq 1..claims'[r]
  <2>1. InHand(r) => InHand(r)'
    BY <1>0, <1>1 DEF InHand
  <2>2. Open(r)' => Open(r)
    BY <1>1, <2>1 DEF Open, Unclaimed
  <2> QED BY <1>1, <2>2, SameClaim
<1>4. /\ claims'[q] <= 1 + Price'
      /\ Open(q)' => claims'[q] <= Price'
      /\ answers'[q] \subseteq 1..claims'[q]
  <2>1. Price \in Nat /\ Price' \in Nat /\ Price' >= Price /\ claims[q] <= Price
    BY <1>1 DEF Costs, Dearer, Counted, ClaimsPaid
  <2>2. answers'[q] \subseteq 1..claims'[q]
    BY <1>1, AnswersWithin
  <2>3. CASE Takes(w, q)
    <3>1. ~Open(q)'
      BY <1>1, <2>3 DEF Open, Unclaimed, InHand, Takes
    <3> QED BY <1>1, <2>1, <2>2, <3>1
  <2>4. CASE Charged
    <3>1. Price' >= Price + 1
      BY <2>4 DEF Charged
    <3> QED BY <1>1, <2>1, <2>2, <3>1
  <2> QED BY <2>3, <2>4
<1>5. ClaimsPaid'
  BY <1>3, <1>4 DEF ClaimsPaid
<1> QED BY <1>2, <1>5 DEF Counted, Costs

\* A step that touches no process keeps the count.
LEMMA CountOthers ==
    ASSUME TypeOK, TypeOK', Loaded, Counted, Costs, Others
    PROVE  Counted'
<1>0. worker' = worker
  BY DEF Others, Stays
<1>1. CASE \E w \in Workers, q \in Runs : worker[w].at = "idle" /\ Claimed(w, q)
  <2>1. PICK w \in Workers, q \in Runs : worker[w].at = "idle" /\ Claimed(w, q)
    BY <1>1
  <2>2. claims'[q] # claims[q]
    BY <2>1 DEF Claimed, TypeOK
  <2>3. \A v \in Workers : ~Takes(v, q)
    BY <1>0, QueueAssumption DEF Takes, Loaded
  <2>4. Charged
    BY <2>2, <2>3 DEF Costs
  <2> QED BY <1>0, <2>1, <2>4, CountClaims
<1>2. CASE \E q \in Runs : Enqueue(q)
  <2>1. PICK q \in Runs : Enqueue(q)
    BY <1>2
  <2>2. /\ row[q].status = "absent" /\ row'[q].status = "queued" /\ row'[q].by = row[q].by
        /\ \A r \in Runs \ {q} : row'[r] = row[r]
        /\ stale' = stale /\ claims' = claims
    BY <2>1, EnqueuedTyped DEF Enqueue
  <2>3. \A r \in Runs : Open(r)' => Open(r)
    BY <1>0, <2>2 DEF Open, Unclaimed, InHand
  <2>4. Numbered'
    BY <1>0, <2>2 DEF Counted, Numbered, Unclaimed, IsClosed, Closed
  <2>5. ClaimsPaid'
    BY <2>2, <2>3, SameClaim DEF ClaimsPaid
  <2> QED BY <2>4, <2>5 DEF Counted, Costs
<1>3. CASE UNCHANGED <<row, claims>>
  <2>1. \A r \in Runs : Open(r)' => Open(r) \/ Charged
    BY <1>0, <1>3 DEF Open, Unclaimed, InHand, Costs
  <2>2. Numbered'
    BY <1>0, <1>3 DEF Counted, Numbered, Unclaimed, IsClosed
  <2>3. ClaimsPaid'
    BY <1>3, <2>1, SameClaim DEF ClaimsPaid
  <2> QED BY <2>2, <2>3 DEF Counted, Costs
<1> QED BY <1>1, <1>2, <1>3 DEF Others

\* Every step keeps the count.
LEMMA CountStep ==
    ASSUME TypeOK, TypeOK', Loaded, Counted, [Next]_vars
    PROVE  Counted'
<1>1. Costs
  BY StepCosts DEF Counted
<1>2. ASSUME NEW w \in Workers, NEW r \in Runs, Takes(w, r)
      PROVE  Counted'
  BY <1>1, <1>2, CountClaims DEF Takes
<1> QED BY <1>1, <1>2, CountWorks, CountDrops, CountCloses, CountOthers, AnyStep

\* At first nothing was claimed and nothing has happened.
LEMMA InitCounted == Init => Counted
<1> SUFFICES ASSUME Init PROVE Counted
  OBVIOUS
<1>1. \A t \in Troubles : Limit[t] \in Nat /\ budget[t] = Limit[t]
  BY QueueAssumption DEF Init
<1>2. Price = 0
  BY <1>1 DEF Price, Spent, Troubles
<1>3. Numbered
  BY QueueAssumption DEF Init, Idle, Numbered
<1>4. ClaimsPaid
  BY <1>2 DEF Init, ClaimsPaid
<1> QED BY <1>1, <1>3, <1>4 DEF Counted

\* The numbers that answers and processes bear are those of claims, and claims beyond the
\* first are counted against the troubles.
LEMMA CountHolds == Spec => []Counted
<1>1. TypeOK /\ TypeOK' /\ Loaded /\ Counted /\ [Next]_vars => Counted'
  BY CountStep
<1> QED BY InitCounted, <1>1, TypeCorrect, PTL DEF Spec

\* A user reads a second answer of a run only after an execution was cut off or
\* overtaken, and a further one for each further trouble: neither a shutdown nor a
\* restart, a deadline or a retried claim makes one by itself (complete_session_turn,
\* claim_agent_run), whether or not the processes have WORKER_IDs of their own.
THEOREM AnswersHold == Spec => []AnswersNeedTroubles
<1>1. TypeOK /\ Counted => AnswersNeedTroubles
  <2> SUFFICES ASSUME TypeOK, Counted, NEW r \in Runs
               PROVE  Cardinality(answers[r])
                          <= 1 + Spent("rpc") + Spent("slow") + Spent("crash")
    BY DEF AnswersNeedTroubles
  <2>1. /\ claims[r] \in Nat /\ claims[r] <= 1 + Price
        /\ answers[r] \in SUBSET (1..claims[r])
    BY DEF TypeOK, Counted, ClaimsPaid
  <2>2. IsFiniteSet(1..claims[r]) /\ Cardinality(1..claims[r]) = claims[r]
    BY <2>1, FS_Interval
  <2>3. IsFiniteSet(answers[r]) /\ Cardinality(answers[r]) <= claims[r]
    BY <2>1, <2>2, FS_Subset
  <2>4. Cardinality(answers[r]) \in Nat
    BY <2>3, FS_CardinalityType
  <2>5. Spent("rpc") \in Int /\ Spent("slow") \in Int /\ Spent("crash") \in Int
    BY QueueAssumption DEF TypeOK, Spent, Troubles
  <2> QED BY <2>1, <2>3, <2>4, <2>5 DEF Price
<1> QED BY <1>1, CountHolds, TypeCorrect, PTL

-----------------------------------------------------------------------------
(* The queue implements the life of a run.                                 *)

Lives == [r \in Runs |-> row[r].status]

\* A step that gives one row a status and leaves the others alone gives one life it.
LEMMA LifeBecomes ==
    ASSUME NEW r \in Runs, \A q \in Runs \ {r} : row'[q] = row[q]
    PROVE  Lives' = [Lives EXCEPT ![r] = row'[r].status]
  BY DEF Lives

\* A step on which no life depends.
LEMMA LifeStutters ==
    ASSUME UNCHANGED <<row, claims, refunds, answers, persisted>>
    PROVE  UNCHANGED Life!vars
  BY DEF Life!vars

\* Only complete_session_turn appends an answer, and it changes no table but that one.
LEMMA Told ==
    ASSUME TypeOK, Loaded, [Next]_vars
    PROVE  UNCHANGED answers \/ \E w \in Workers : Answer(w)
<1>1. ASSUME NEW w \in Workers, Step(w), ~Answer(w)
      PROVE  UNCHANGED answers
  BY <1>1 DEF Step, Claim, Spawn, StagingFails, EngineExits, EngineStopped, CloseRow,
     Persist, Exit, Restart, outputs
<1>2. ASSUME NEW w \in Workers, Heartbeat(w) \/ Disturb(w)
      PROVE  UNCHANGED answers
  BY <1>2 DEF Heartbeat, Disturb, ClaimReplyLost, MissHeartbeats, HeartbeatRaises,
     CloseRaises, Crash, Sigterm, outputs
<1>3. ASSUME NEW r \in Runs, Enqueue(r) \/ GoStale(r) \/ OrphanExits(r)
      PROVE  UNCHANGED answers
  BY <1>3 DEF Enqueue, GoStale, OrphanExits, outputs
<1> QED BY <1>1, <1>2, <1>3 DEF Next, vars, outputs

\* An answer is one of an execution that was claimed.
LEMMA LifeAnswer ==
    ASSUME TypeOK, Loaded, Counted, NEW w \in Workers, Answer(w)
    PROVE  Life!Next \/ UNCHANGED Life!vars
<1> DEFINE r == worker[w].run
           n == worker[w].nth
<1>1. r \in Runs /\ n \in 1 .. claims[r]
  BY DEF Answer, At, Loaded, TypeOK, Processes, Counted, Numbered
<1>2. /\ UNCHANGED <<row, claims, refunds, persisted>>
      /\ answers' = answers \/ answers' = [answers EXCEPT ![r] = @ \cup {n}]
  BY DEF Answer, Run, tables
<1>3. CASE answers' = [answers EXCEPT ![r] = @ \cup {n}] /\ n \notin answers[r]
  BY <1>1, <1>2, <1>3 DEF Life!Next, Life!Answer
<1>4. CASE answers' = [answers EXCEPT ![r] = @ \cup {n}] /\ n \in answers[r]
  <2>1. answers' = answers
    BY <1>1, <1>4 DEF TypeOK
  <2> QED BY <1>2, <2>1, LifeStutters
<1> QED BY <1>2, <1>3, <1>4, LifeStutters

\* Claiming a row is claiming its run.
LEMMA LifeClaim ==
    ASSUME TypeOK, NEW w \in Workers, NEW r \in Runs, Claimed(w, r),
           UNCHANGED <<answers, persisted>>
    PROVE  Life!Next
<1>1. row[r].status \in {"queued", "running"}
  BY DEF Claimed, Claimable
<1>2. Lives' = [Lives EXCEPT ![r] = "running"]
  <2>1. row'[r].status = "running" /\ \A q \in Runs \ {r} : row'[q] = row[q]
    BY ClaimedTyped
  <2>2. Lives' = [Lives EXCEPT ![r] = row'[r].status]
    BY <2>1, LifeBecomes
  <2> QED BY <2>1, <2>2
<1>3. Life!Claim(r)
  BY <1>1, <1>2 DEF Claimed, Life!Claim, Lives
<1> QED BY <1>3 DEF Life!Next

\* A close finds a row that was not refunded yet, or finds none.
LEMMA LifeClose ==
    ASSUME TypeOK, Loaded, RefundFollowsClose, NEW w \in Workers, Closes(w),
           UNCHANGED answers
    PROVE  Life!Next \/ UNCHANGED Life!vars
<1> DEFINE r == worker[w].run
           o == worker[w].outcome
<1>1. /\ r \in Runs /\ o \in Outcomes /\ Close(w, r, o)
      /\ UNCHANGED <<claims, answers, persisted>>
  BY DEF Closes, Close, Loaded, TypeOK, Processes
<1> HIDE DEF r, o
<1>2. CASE ~Holds(w, r)
  BY <1>1, <1>2, ClosingTyped, LifeStutters
<1>3. CASE Holds(w, r)
  <2>1. row[r].status = "running" /\ row[r].refunded = FALSE
    BY <1>1, <1>3 DEF Holds, RefundFollowsClose, TypeOK, Rows
  <2>2. PICK s \in {"completed", "failed", "timeout"} :
            /\ o.status = s
            /\ o.refund \in BOOLEAN /\ Life!MayGo(s, o.refund)
    <3>1. o.status \in {"completed", "failed", "timeout"}
      BY <1>1 DEF Outcomes, Success, UserInputError, SystemError, RunTimeout
    <3>2. o.refund \in BOOLEAN
      <4>1. /\ Success.refund = FALSE /\ UserInputError.refund = FALSE
            /\ SystemError.refund = TRUE /\ RunTimeout.refund = TRUE
        BY Zenon DEF Success, UserInputError, SystemError, RunTimeout
      <4>2. o = Success \/ o = UserInputError \/ o = SystemError \/ o = RunTimeout
        BY <1>1 DEF Outcomes
      <4> QED BY <4>1, <4>2, Zenon
    <3>3. /\ o.status = "completed" => ~o.refund
          /\ o.status = "timeout" => o.refund
      BY <1>1 DEF Outcomes, Success, UserInputError, SystemError, RunTimeout
    <3> QED BY <3>1, <3>2, <3>3 DEF Life!MayGo
  <2>3. Lives' = [Lives EXCEPT ![r] = s]
    BY <1>1, <1>3, <2>2, ClosingTyped, LifeBecomes
  <2>4. refunds' = IF o.refund THEN [refunds EXCEPT ![r] = @ + 1] ELSE refunds
    BY <1>1, <1>3, <2>1 DEF Close, TypeOK
  <2>5. Life!Close(r, s)
    BY <1>1, <2>1, <2>2, <2>3, <2>4 DEF Life!Close, Lives
  <2> QED BY <1>1, <2>5 DEF Life!Next
<1> QED BY <1>2, <1>3

\* Whoever stores artifacts has closed the run and nobody claims it again.
LEMMA LifeStore ==
    ASSUME TypeOK, Loaded, ClaimInv, NEW w \in Workers, Drops(w), UNCHANGED answers
    PROVE  Life!Next \/ UNCHANGED Life!vars
<1> DEFINE r == worker[w].run
<1>1. UNCHANGED <<row, claims, refunds, answers>>
  BY DEF Drops, tables
<1>2. CASE UNCHANGED persisted
  BY <1>1, <1>2, LifeStutters
<1>3. CASE /\ worker[w].at = "persisting"
           /\ persisted' = [persisted EXCEPT ![r] = @ \cup {worker[w].nth}]
  <2>1. /\ r \in Runs /\ row[r].status = "completed" /\ worker[w].nth = claims[r]
    BY <1>3 DEF Sealed, ClaimInv, Loaded, TypeOK, Processes
  <2>2. persisted[r] = {} \/ persisted[r] = {claims[r]}
    BY <2>1 DEF ArtifactsMatchClose, ClaimInv
  <2>3. persisted' = [persisted EXCEPT ![r] = {claims[r]}]
    BY <1>3, <2>1, <2>2 DEF TypeOK
  <2>4. CASE persisted[r] = {}
    BY <1>1, <2>1, <2>3, <2>4 DEF Life!Next, Life!Store
  <2>5. CASE persisted[r] = {claims[r]}
    <3>1. persisted' = persisted
      BY <2>1, <2>3, <2>5 DEF TypeOK
    <3> QED BY <1>1, <3>1, LifeStutters
  <2> QED BY <2>2, <2>4, <2>5
<1> QED BY <1>2, <1>3 DEF Drops

\* Every step of the queue is a step of the lives of its runs, or none.
LEMMA LifeStep ==
    ASSUME TypeOK, Loaded, ClaimInv, RefundFollowsClose, Counted, [Next]_vars
    PROVE  Life!Next \/ UNCHANGED Life!vars
<1> SUFFICES ASSUME UNCHANGED answers
             PROVE  Life!Next \/ UNCHANGED Life!vars
  BY Told, LifeAnswer
<1>1. ASSUME NEW w \in Workers, Works(w)
      PROVE  UNCHANGED Life!vars
  BY <1>1, LifeStutters DEF Works, tables
<1>2. ASSUME NEW w \in Workers, NEW r \in Runs, Takes(w, r)
      PROVE  Life!Next
  BY <1>2, LifeClaim DEF Takes
<1>3. CASE Others
  <2>1. ASSUME NEW r \in Runs, Enqueue(r)
        PROVE  Life!Next
    <3>1. row[r].status = "absent" /\ Lives' = [Lives EXCEPT ![r] = "queued"]
      BY <2>1, EnqueuedTyped, LifeBecomes
    <3>2. Life!Enqueue(r)
      BY <2>1, <3>1 DEF Enqueue, outputs, Life!Enqueue, Lives
    <3> QED BY <3>2 DEF Life!Next
  <2>2. ASSUME NEW w \in Workers, NEW r \in Runs, Claimed(w, r)
        PROVE  Life!Next
    BY <1>3, <2>2, LifeClaim DEF Others, Stays
  <2>3. CASE UNCHANGED <<row, refunds, claims>>
    BY <1>3, <2>3, LifeStutters DEF Others, Stays
  <2> QED BY <1>3, <2>1, <2>2, <2>3 DEF Others
<1> QED BY <1>1, <1>2, <1>3, LifeClose, LifeStore, AnyStep

\* With one WORKER_ID per process the queue, its SQL functions and its workers implement
\* the life of a run: one close, one refund with it, and the artifacts of the execution
\* that was claimed last, whatever is lost, retried, killed or overtaken.
THEOREM LifeRefinement ==
    ASSUME DistinctIds
    PROVE  Spec => ImplementsRunLife
<1>1. Init => Life!Init
  BY DEF Init, Life!Init
<1>2. TypeOK /\ Loaded /\ ClaimInv /\ RefundFollowsClose /\ Counted /\ [Next]_vars
          => [Life!Next]_(Life!vars)
  BY LifeStep
<1> QED BY <1>1, <1>2, TypeCorrect, Claims, RefundHolds, CountHolds, PTL
        DEF Spec, ImplementsRunLife, Life!Spec
=============================================================================
