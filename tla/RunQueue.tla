------------------------------ MODULE RunQueue ------------------------------
(***************************************************************************)
(* The run queue of the hosted service: rows of agent_runs, the SQL        *)
(* functions that claim, refresh and close them, and the worker processes  *)
(* that execute them.  Each RPC is one transaction, so one step; its reply *)
(* may be lost on either side of the commit.  A worker may be slow, killed *)
(* or told to stop at any point, so a claim may go stale at any time.      *)
(***************************************************************************)
EXTENDS Naturals, FiniteSets

CONSTANTS
    Runs,          \* run ids, in the order of created_at
    Workers,       \* worker processes
    Ids,           \* values of WORKER_ID
    NoId,          \* claimed_by of a row that was never claimed
    NoRun,         \* a worker with no run in hand
    IdOf,          \* the WORKER_ID each process was configured with
    Limit          \* bound: how often each of Troubles happens

\* An RPC that raises; a worker that misses its heartbeats; a kill; a SIGTERM.
Troubles == {"rpc", "slow", "crash", "stop"}

ASSUME QueueAssumption ==
    /\ Runs \subseteq Nat
    /\ IsFiniteSet(Workers)
    /\ NoId \notin Ids /\ NoRun \notin Runs
    /\ IdOf \in [Workers -> Ids]
    /\ Limit \in [Troubles -> Nat]

VARIABLES
    row,        \* agent_runs: status, claimed_by, refunded
    stale,      \* claimed_at is older than stale_after
    worker,     \* what each process is doing, for which run
    stop,       \* processes that have received SIGTERM
    orphans,    \* how many engine subprocesses of each run nobody supervises
    answers,    \* session_messages: who appended an assistant message to a run
    persisted,  \* agent_artifacts: who stored the artifacts of a run
    refunds,    \* history: refunds granted per run
    claims,     \* history: claims granted per run
    budget      \* the troubles still to come

tables == <<row, stale, refunds, claims>>
outputs == <<answers, persisted>>
vars == <<tables, worker, stop, orphans, outputs, budget>>

Closed == {"completed", "failed", "timeout"}
Rows == [status : {"absent", "queued", "running"} \cup Closed,
         by : Ids \cup {NoId}, refunded : BOOLEAN]

\* How execute() ended: the status to close with, and whether it is refundable.
Success == [status |-> "completed", refund |-> FALSE]
UserInputError == [status |-> "failed", refund |-> FALSE]
SystemError == [status |-> "failed", refund |-> TRUE]
RunTimeout == [status |-> "timeout", refund |-> TRUE]
Outcomes == {Success, UserInputError, SystemError, RunTimeout}

Stages == {"idle", "staging", "engine", "answering", "closing", "persisting", "down"}
Processes == [at : Stages, run : Runs \cup {NoRun}, nth : Nat, outcome : Outcomes]

Idle == [at |-> "idle", run |-> NoRun, nth |-> 0, outcome |-> Success]
Down == [Idle EXCEPT !.at = "down"]

At(w, stage) == worker[w].at = stage
Run(w) == worker[w].run

Suffer(trouble) ==
    /\ budget[trouble] > 0
    /\ budget' = [budget EXCEPT ![trouble] = @ - 1]

-----------------------------------------------------------------------------
(* The SQL functions, as they change the row of run r for process w.       *)

\* Fault: the update of a claimed row is not restricted to its claimer.
HoldsAnyWorker(w, r) == row[r].status = "running"

\* The guard of every update below: claimed_by is this worker, status running.
Holds(w, r) == row[r].by = IdOf[w] /\ row[r].status = "running"

\* Fault: any row with an old claimed_at.
ClaimableByAge(r) == row[r].status = "queued" \/ stale[r]

\* Fault: running rows, whatever their age.
ClaimableRunning(r) == row[r].status \in {"queued", "running"}

\* Fault: abandoned runs are not taken again.
ClaimableOnce(r) == row[r].status = "queued"

Claimable(r) ==
    \/ row[r].status = "queued"
    \/ row[r].status = "running" /\ stale[r]

\* claim_agent_run: the oldest claimable row, for update skip locked.
Claimed(w, r) ==
    /\ Claimable(r)
    /\ \A q \in Runs : Claimable(q) => r <= q
    /\ row' = [row EXCEPT ![r].status = "running", ![r].by = IdOf[w]]
    /\ stale' = [stale EXCEPT ![r] = FALSE]
    /\ claims' = [claims EXCEPT ![r] = @ + 1]
    /\ UNCHANGED refunds

\* Fault: the refund does not depend on whether the update found the row.
CloseRefundAlways(w, r, o) ==
    LET refund == o.refund /\ ~row[r].refunded IN
    /\ row' = [row EXCEPT ![r].status = IF Holds(w, r) THEN o.status ELSE @,
                          ![r].refunded = @ \/ refund]
    /\ refunds' = [refunds EXCEPT ![r] = IF refund THEN @ + 1 ELSE @]
    /\ UNCHANGED <<stale, claims>>

\* complete_agent_run, fail_agent_run and the refund_agent_run it calls.
Close(w, r, o) ==
    LET refund == o.refund /\ ~row[r].refunded IN
    /\ IF Holds(w, r)
       THEN /\ row' = [row EXCEPT ![r].status = o.status, ![r].refunded = @ \/ refund]
            /\ refunds' = [refunds EXCEPT ![r] = IF refund THEN @ + 1 ELSE @]
       ELSE UNCHANGED <<row, refunds>>
    /\ UNCHANGED <<stale, claims>>

Init ==
    /\ row = [r \in Runs |-> [status |-> "absent", by |-> NoId, refunded |-> FALSE]]
    /\ stale = [r \in Runs |-> FALSE]
    /\ worker = [w \in Workers |-> Idle]
    /\ stop = {}
    /\ orphans = [r \in Runs |-> 0]
    /\ answers = [r \in Runs |-> {}]
    /\ persisted = [r \in Runs |-> {}]
    /\ refunds = [r \in Runs |-> 0]
    /\ claims = [r \in Runs |-> 0]
    /\ budget = Limit

\* start_agent_run / start_session_turn; created_at follows the order of Runs.
Enqueue(r) ==
    /\ row[r].status = "absent"
    /\ \A q \in Runs : q < r => row[q].status # "absent"
    /\ row' = [row EXCEPT ![r].status = "queued"]
    /\ UNCHANGED <<stale, refunds, claims, worker, stop, orphans, outputs, budget>>

\* stale_after passes without a heartbeat: nobody has the run in hand, or
\* whoever has it is slow (stale_after is longer than any run may take).
GoStale(r) ==
    /\ row[r].status = "running" /\ ~stale[r]
    /\ \A w \in Workers : Run(w) # r
    /\ stale' = [stale EXCEPT ![r] = TRUE]
    /\ UNCHANGED <<row, refunds, claims, worker, stop, orphans, outputs, budget>>

MissHeartbeats(w) ==
    /\ Run(w) \in Runs
    /\ row[Run(w)].status = "running" /\ ~stale[Run(w)]
    /\ Suffer("slow")
    /\ stale' = [stale EXCEPT ![Run(w)] = TRUE]
    /\ UNCHANGED <<row, refunds, claims, worker, stop, orphans, outputs>>

-----------------------------------------------------------------------------
(* run_forever and process_run.                                            *)

\* execute() is over with outcome o: process_run goes on to close the row.
Ended(w, o) == worker' = [worker EXCEPT ![w].at = "closing", ![w].outcome = o]
GoesIdle(w) == worker' = [worker EXCEPT ![w] = Idle]

\* The engine of run r goes on with nobody to supervise it.
Abandon(r) == [orphans EXCEPT ![r] = @ + 1]

\* A SIGTERM that arrives while claim() is in flight is one that arrives after it.
Claim(w, r) ==
    /\ At(w, "idle") /\ w \notin stop
    /\ Claimed(w, r)
    /\ worker' = [worker EXCEPT ![w] =
           [at |-> "staging", run |-> r, nth |-> claims'[r], outcome |-> Success]]
    /\ UNCHANGED <<stop, orphans, outputs, budget>>

\* claim() raises after the row was claimed: the loop backs off and polls again.
ClaimReplyLost(w, r) ==
    /\ At(w, "idle") /\ w \notin stop
    /\ Suffer("rpc")
    /\ Claimed(w, r)
    /\ UNCHANGED <<worker, stop, orphans, outputs>>

\* Credential, attachments and command line are ready: the engine is spawned.
Spawn(w) ==
    /\ At(w, "staging")
    /\ worker' = [worker EXCEPT ![w].at = "engine"]
    /\ UNCHANGED <<tables, stop, orphans, outputs, budget>>

StagingFails(w) ==
    /\ At(w, "staging")
    /\ \E o \in {UserInputError, SystemError} : Ended(w, o)
    /\ UNCHANGED <<tables, stop, orphans, outputs, budget>>

EngineExits(w) ==
    /\ At(w, "engine")
    /\ \/ worker' = [worker EXCEPT ![w].at = "answering"]
       \/ Ended(w, SystemError)
    /\ UNCHANGED <<tables, stop, orphans, outputs, budget>>

\* _supervise terminates the engine: shutdown, then the deadline.
EngineStopped(w) ==
    /\ At(w, "engine")
    /\ Ended(w, IF w \in stop THEN SystemError ELSE RunTimeout)
    /\ UNCHANGED <<tables, stop, orphans, outputs, budget>>

\* heartbeat_agent_run; False terminates the engine and drops the run (ClaimLost).
Heartbeat(w) ==
    /\ At(w, "engine")
    /\ IF Holds(w, Run(w))
       THEN stale' = [stale EXCEPT ![Run(w)] = FALSE] /\ UNCHANGED worker
       ELSE GoesIdle(w) /\ UNCHANGED stale
    /\ UNCHANGED <<row, refunds, claims, stop, orphans, outputs, budget>>

\* The heartbeat call raises out of _supervise: an unexpected Exception.
HeartbeatRaises(w) ==
    /\ At(w, "engine")
    /\ Suffer("rpc")
    /\ Ended(w, SystemError)
    /\ orphans' = Abandon(Run(w))
    /\ UNCHANGED <<tables, stop, outputs>>

\* complete_session_turn, best effort, while the row is still running.
Answer(w) ==
    /\ At(w, "answering")
    /\ \E told \in BOOLEAN :
          answers' = IF told THEN [answers EXCEPT ![Run(w)] = @ \cup {worker[w].nth}]
                     ELSE answers
    /\ Ended(w, Success)
    /\ UNCHANGED <<tables, stop, orphans, persisted, budget>>

\* Fault: artifacts are stored whatever complete() answers.
CloseRowThenPersist(w) ==
    /\ At(w, "closing")
    /\ Close(w, Run(w), worker[w].outcome)
    /\ IF worker[w].outcome = Success
       THEN worker' = [worker EXCEPT ![w].at = "persisting"]
       ELSE GoesIdle(w)
    /\ UNCHANGED <<stop, orphans, outputs, budget>>

CloseRow(w) ==
    /\ At(w, "closing")
    /\ Close(w, Run(w), worker[w].outcome)
    /\ IF worker[w].outcome = Success /\ Holds(w, Run(w))
       THEN worker' = [worker EXCEPT ![w].at = "persisting"]
       ELSE GoesIdle(w)
    /\ UNCHANGED <<stop, orphans, outputs, budget>>

\* complete() or fail() raises, before or after the commit: nothing in
\* process_run or run_forever catches it, so the process exits.
CloseRaises(w) ==
    /\ At(w, "closing")
    /\ Suffer("rpc")
    /\ Close(w, Run(w), worker[w].outcome) \/ UNCHANGED tables
    /\ worker' = [worker EXCEPT ![w] = Down]
    /\ UNCHANGED <<stop, orphans, outputs>>

\* ArtifactStore.persist, best effort.
Persist(w) ==
    /\ At(w, "persisting")
    /\ \E stored \in BOOLEAN :
          persisted' = IF stored THEN [persisted EXCEPT ![Run(w)] = @ \cup {worker[w].nth}]
                       ELSE persisted
    /\ GoesIdle(w)
    /\ UNCHANGED <<tables, stop, orphans, answers, budget>>

-----------------------------------------------------------------------------
(* The process and its environment.                                        *)

Sigterm(w) ==
    /\ w \notin stop /\ ~At(w, "down")
    /\ Suffer("stop")
    /\ stop' = stop \cup {w}
    /\ UNCHANGED <<tables, worker, orphans, outputs>>

\* run_forever leaves its loop once the current run is done.
Exit(w) ==
    /\ At(w, "idle") /\ w \in stop
    /\ worker' = [worker EXCEPT ![w] = Down]
    /\ UNCHANGED <<tables, stop, orphans, outputs, budget>>

\* The process is killed; an engine it had spawned lives on.
Crash(w) ==
    /\ ~At(w, "down")
    /\ Suffer("crash")
    /\ worker' = [worker EXCEPT ![w] = Down]
    /\ orphans' = IF At(w, "engine") THEN Abandon(Run(w)) ELSE orphans
    /\ UNCHANGED <<tables, stop, outputs>>

\* The platform restarts the process, with the same configuration.
Restart(w) ==
    /\ At(w, "down")
    /\ worker' = [worker EXCEPT ![w] = Idle]
    /\ stop' = stop \ {w}
    /\ UNCHANGED <<tables, orphans, outputs, budget>>

OrphanExits(r) ==
    /\ orphans[r] > 0
    /\ orphans' = [orphans EXCEPT ![r] = @ - 1]
    /\ UNCHANGED <<tables, worker, stop, outputs, budget>>

Step(w) ==
    \/ \E r \in Runs : Claim(w, r)
    \/ Spawn(w) \/ StagingFails(w) \/ EngineExits(w) \/ EngineStopped(w)
    \/ Answer(w) \/ CloseRow(w) \/ Persist(w) \/ Exit(w) \/ Restart(w)

Disturb(w) ==
    \/ \E r \in Runs : ClaimReplyLost(w, r)
    \/ MissHeartbeats(w) \/ HeartbeatRaises(w) \/ CloseRaises(w)
    \/ Crash(w) \/ Sigterm(w)

Next ==
    \/ \E r \in Runs : Enqueue(r) \/ GoStale(r) \/ OrphanExits(r)
    \/ \E w \in Workers : Step(w) \/ Heartbeat(w) \/ Disturb(w)

Spec == Init /\ [][Next]_vars

\* An engine ends or reaches its deadline, a process that is up goes on and one
\* that is down is restarted, and a claim nobody refreshes goes stale.
FairSpec ==
    /\ Spec
    /\ \A w \in Workers : WF_vars(Step(w))
    /\ \A r \in Runs : WF_vars(GoStale(r))

-----------------------------------------------------------------------------
(* Properties.                                                             *)

\* Type invariant of the tables, the processes and the outputs.
TypeOK ==
    /\ row \in [Runs -> Rows]
    /\ stale \in [Runs -> BOOLEAN]
    /\ worker \in [Workers -> Processes]
    /\ stop \in SUBSET Workers
    /\ orphans \in [Runs -> Nat]
    /\ answers \in [Runs -> SUBSET Nat]
    /\ persisted \in [Runs -> SUBSET Nat]
    /\ refunds \in [Runs -> Nat]
    /\ claims \in [Runs -> Nat]
    /\ budget \in [Troubles -> Nat]

IsClosed(r) == row[r].status \in Closed

\* A row that is closed stays as it was closed: no reclaim, retry or late answer
\* reopens it, changes its status or refunds it again.
ClosedIsFinal == [][\A r \in Runs : IsClosed(r) => row'[r] = row[r]]_vars

\* claimed_by guards every close: the process that closes a run is the last one
\* that claimed it, however many lost their claim on it and still hold its result.
CloserIsLastClaimer ==
    [][\A w \in Workers : \A r \in Runs :
          worker[w].run = r /\ worker[w] # worker'[w] /\ row[r] # row'[r]
              => worker[w].nth = claims[r]]_vars

\* The artifacts a user sees are those of the execution that closed the run.
ArtifactsMatchClose ==
    \A r \in Runs : persisted[r] # {} =>
        row[r].status = "completed" /\ persisted[r] = {claims[r]}

\* A use is given back at most once, only for a run that failed, and always for
\* one that timed out.
RefundFollowsClose ==
    \A r \in Runs :
        /\ refunds[r] = IF row[r].refunded THEN 1 ELSE 0
        /\ row[r].refunded => row[r].status \in {"failed", "timeout"}
        /\ row[r].status = "timeout" => row[r].refunded

Spent(trouble) == Limit[trouble] - budget[trouble]

\* Executions of one run at the same time, the processes that have it in hand and the engines
\* nobody supervises: each one beyond the first is the price of a worker that missed its
\* heartbeats, was killed over its engine or was cut off from the database.
DuplicatesNeedTroubles ==
    \A r \in Runs :
        Cardinality({w \in Workers : Run(w) = r}) + orphans[r]
            <= 1 + Spent("slow") + Spent("crash") + Spent("rpc")

\* A user reads one answer per run, and each further one is the price of an execution
\* that was cut off or overtaken: a pause, a lost reply or a death.
AnswersNeedTroubles ==
    \A r \in Runs : Cardinality(answers[r]) <= 1 + Spent("rpc") + Spent("slow") + Spent("crash")

\* Every run that was queued is closed in the end.
RunsClose == \A r \in Runs : row[r].status = "queued" ~> IsClosed(r)
=============================================================================
