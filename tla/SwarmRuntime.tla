----------------------------- MODULE SwarmRuntime -----------------------------
(***************************************************************************)
(* The runs of a swarm: a thread per run takes the task graph layer by     *)
(* layer; its state is in run.json and in a file per task. Whoever reads a *)
(* run (dashboard, event stream, MCP tool) also reconciles it: a run whose *)
(* tasks are all over, or whose log has been silent too long, is given its *)
(* final status by the reader. A run that failed or was cancelled can be   *)
(* resumed by a new run, which keeps the results that still stand.         *)
(***************************************************************************)
EXTENDS Naturals, FiniteSets

CONSTANTS
    Tasks,         \* the tasks of the preset
    Deps,          \* the tasks each task depends on
    Readers,       \* the clients that read runs
    Changes,       \* the sets of tasks whose definition may change between two runs
    Nobody,        \* the run a reader at rest reads
    MaxRuns,       \* bound: runs started
    MaxFresh,      \* bound: those of them that resume none
    MaxTroubles    \* bound: exceptions, process deaths and suspensions of the host

Runs == 1 .. MaxRuns

ASSUME SwarmAssumption ==
    /\ Deps \in [Tasks -> SUBSET Tasks] /\ Changes \subseteq SUBSET Tasks
    /\ MaxRuns \in Nat /\ MaxFresh \in Nat /\ MaxTroubles \in Nat
    /\ Nobody \notin Runs

VARIABLES
    run,        \* the status in the run.json of each run
    task,       \* the status in the file of each task; "blocked" stands for pending too
    source,     \* the run that each run resumes, or Nobody
    thread,     \* the thread of each run
    quiet,      \* no event in the log of the run for longer than the stale threshold
    reader,     \* what each reader is at
    origin,     \* history: the run whose worker made the result of the task, or 0
    lapses,     \* history: the host slept, or a thread could not read its task files
    troubles    \* bounded by MaxTroubles

files == <<run, task, quiet>>
vars == <<files, source, thread, reader, origin, lapses, troubles>>

Over == {"completed", "failed", "cancelled"}
Resumable == {"failed", "cancelled"}
Fresh == [t \in Tasks |-> "blocked"]
NoThread == [stage |-> "none", done |-> {}, out |-> {}, won |-> {}, lost |-> {}, ok |-> TRUE,
             cancel |-> FALSE, seen |-> Fresh]
Dead == [NoThread EXCEPT !.stage = "dead"]
AtRest == [stage |-> "rest", of |-> Nobody, tasks |-> Fresh, verdict |-> "running"]

-----------------------------------------------------------------------------
Init ==
    /\ run = [r \in Runs |-> "none"]
    /\ task = [r \in Runs |-> Fresh]
    /\ source = [r \in Runs |-> Nobody]
    /\ thread = [r \in Runs |-> NoThread]
    /\ quiet = [r \in Runs |-> FALSE]
    /\ reader = [p \in Readers |-> AtRest]
    /\ origin = [r \in Runs |-> [t \in Tasks |-> 0]]
    /\ lapses = {}
    /\ troubles = 0

Suffer == troubles < MaxTroubles /\ troubles' = troubles + 1

\* Every event renews the log.
Emit(r) == quiet' = [quiet EXCEPT ![r] = FALSE]

At(r, stage) == thread[r].stage = stage

-----------------------------------------------------------------------------
(* Starting and cancelling.                                                *)

\* run.json is written as pending and the thread is started.
Create(r, from) ==
    /\ run[r] = "none" /\ \A q \in Runs : q < r => run[q] # "none"
    /\ run' = [run EXCEPT ![r] = "pending"]
    /\ source' = [source EXCEPT ![r] = from]
    /\ thread' = [thread EXCEPT ![r].stage = "begin"]
    /\ UNCHANGED <<task, quiet, origin, lapses>>

\* Its sweep of stale runs is a reader's.
Start(r) ==
    /\ Cardinality({q \in Runs : run[q] # "none" /\ source[q] = Nobody}) < MaxFresh
    /\ Create(r, Nobody)
    /\ UNCHANGED <<reader, troubles>>

\* The event is seen where the next layer would begin, and at the end.
Cancel(r) ==
    /\ thread[r].stage \notin {"none", "over", "dead"} /\ ~thread[r].cancel
    /\ thread' = [thread EXCEPT ![r].cancel = TRUE]
    /\ UNCHANGED <<files, source, reader, origin, lapses, troubles>>

-----------------------------------------------------------------------------
(* The thread of a run.                                                    *)

Begin(r) ==
    /\ At(r, "begin")
    /\ run' = [run EXCEPT ![r] = "running"]
    /\ thread' = [thread EXCEPT ![r].stage = IF source[r] = Nobody THEN "layer" ELSE "overlay"]
    /\ Emit(r)
    /\ UNCHANGED <<task, source, reader, origin, lapses, troubles>>

\* Fault: what was invalidated is not followed downstream.
KeptWithoutCascade(able) == able

\* The results that stand: the largest set that has its upstreams too.
Kept(able) == UNION {K \in SUBSET able : \A t \in K : Deps[t] \subseteq K}

\* The completed tasks of the source are kept, but for those whose definition changed
\* and those with an upstream that is not kept.
Overlay(r) ==
    LET prev == source[r] IN
    /\ At(r, "overlay")
    /\ \E changed \in Changes :
        LET kept == Kept({t \in Tasks \ changed : task[prev][t] = "completed"}) IN
        /\ task' = [task EXCEPT ![r] = [t \in Tasks |-> IF t \in kept THEN "completed" ELSE @[t]]]
        /\ origin' = [origin EXCEPT ![r] = [t \in Tasks |-> IF t \in kept THEN origin[prev][t] ELSE 0]]
    /\ thread' = [thread EXCEPT ![r].stage = "layer", ![r].seen = task'[r]]
    /\ Emit(r)
    /\ UNCHANGED <<run, source, reader, lapses, troubles>>

\* The next layer: what all upstreams of are in earlier layers.
Layer(r) == {t \in Tasks \ thread[r].done : Deps[t] \subseteq thread[r].done}

\* The tasks of the layer that have no result yet and the results of all their upstreams.
Ready(r) ==
    {t \in Layer(r) : task[r][t] # "completed" /\ \A d \in Deps[t] : task[r][d] = "completed"}

\* A worker is started for each task that is ready; the others are blocked.
BeginLayer(r) ==
    /\ At(r, "layer") /\ ~thread[r].cancel /\ thread[r].done # Tasks
    /\ task' = [task EXCEPT ![r] = [t \in Tasks |->
            IF t \in Ready(r) THEN "in_progress"
            ELSE IF t \in Layer(r) /\ @[t] # "completed" THEN "blocked" ELSE @[t]]]
    /\ thread' = [thread EXCEPT ![r].stage = "work", ![r].out = Ready(r)]
    /\ Emit(r)
    /\ UNCHANGED <<run, source, reader, origin, lapses, troubles>>

\* Fault: the tasks that are completed are cancelled with the rest.
CancelledToo(r) == Tasks

\* What the last sync saw neither completed nor failed.
Cancelled(r) == {t \in Tasks : thread[r].seen[t] \notin {"completed", "failed"}}

\* A cancel is seen before the layer; a task whose file cannot be written is left.
CancelLayer(r) ==
    /\ At(r, "layer") /\ thread[r].cancel /\ thread[r].done # Tasks
    /\ \E put \in SUBSET Cancelled(r) :
        /\ task' = [task EXCEPT ![r] = [t \in Tasks |-> IF t \in put THEN "cancelled" ELSE @[t]]]
        /\ IF put = Cancelled(r) THEN UNCHANGED troubles ELSE Suffer
    /\ thread' = [thread EXCEPT ![r].stage = "finish", ![r].ok = FALSE]
    /\ UNCHANGED <<run, quiet, source, reader, origin, lapses>>

\* A worker completes its task, or fails it after its retries, or is given up at the
\* deadline of the layer.
WorkerEnds(r, t) ==
    /\ At(r, "work") /\ t \in thread[r].out
    /\ \/ thread' = [thread EXCEPT ![r].out = @ \ {t}, ![r].won = @ \cup {t}]
       \/ thread' = [thread EXCEPT ![r].out = @ \ {t}, ![r].lost = @ \cup {t}]
    /\ Emit(r)
    /\ UNCHANGED <<run, task, source, reader, origin, lapses, troubles>>

\* Fault: a task without a worker does not count.
SucceededIfRun(r) == thread[r].lost = {}

\* Every task of the layer has its result, from a worker or kept.
Succeeded(r) ==
    thread[r].lost = {} /\ \A t \in Layer(r) \ thread[r].won : task[r][t] = "completed"

Ended(r) == thread[r].won \cup thread[r].lost

\* The results of some workers that have ended are written.
Write(r, some) ==
    /\ task' = [task EXCEPT ![r] = [t \in Tasks |->
            IF t \notin some THEN @[t] ELSE IF t \in thread[r].won THEN "completed" ELSE "failed"]]
    /\ origin' = [origin EXCEPT ![r] = [t \in Tasks |-> IF t \in some \cap thread[r].won THEN r ELSE @[t]]]

\* They are when all have ended.
EndLayer(r) ==
    /\ At(r, "work") /\ thread[r].out = {}
    /\ Write(r, Ended(r))
    /\ thread' = [thread EXCEPT ![r].stage = "sync", ![r].ok = @ /\ Succeeded(r),
                                ![r].done = @ \cup Layer(r), ![r].won = {}, ![r].lost = {}]
    /\ quiet' = [quiet EXCEPT ![r] = @ /\ Ended(r) = {}]
    /\ UNCHANGED <<run, source, reader, lapses, troubles>>

\* run.json is written once more, as running, with the tasks as they are now.
Sync(r) ==
    /\ At(r, "sync")
    /\ run' = [run EXCEPT ![r] = "running"]
    /\ thread' = [thread EXCEPT ![r].stage = "layer", ![r].seen = task[r]]
    /\ UNCHANGED <<task, quiet, source, reader, origin, lapses, troubles>>

\* A failure to read the files, or to write run.json, is only logged.
SyncFails(r) ==
    /\ At(r, "sync")
    /\ Suffer
    /\ \/ /\ thread' = [thread EXCEPT ![r].stage = "layer", ![r].seen = task[r]]
          /\ UNCHANGED lapses
       \/ /\ thread' = [thread EXCEPT ![r].stage = "layer"]
          /\ lapses' = lapses \cup {"unread"}
    /\ UNCHANGED <<files, source, reader, origin>>

Verdict(r) ==
    IF thread[r].cancel THEN "cancelled" ELSE IF thread[r].ok THEN "completed" ELSE "failed"

\* The layers are done, or the body was left.
Finishing(r) == At(r, "finish") \/ (At(r, "layer") /\ thread[r].done = Tasks)

Finish(r) ==
    /\ Finishing(r)
    /\ run' = [run EXCEPT ![r] = Verdict(r)]
    /\ thread' = [thread EXCEPT ![r] = [NoThread EXCEPT !.stage = "over"]]
    /\ Emit(r)
    /\ UNCHANGED <<task, source, reader, origin, lapses, troubles>>

\* An exception in the body of the run ends it, whatever its workers do; one that
\* comes while results are written leaves the others unwritten.
BodyRaises(r) ==
    /\ At(r, "overlay") \/ At(r, "layer") \/ At(r, "work")
    /\ ~Finishing(r)
    /\ Suffer
    /\ \E some \in SUBSET Ended(r) : (some # {} => thread[r].out = {}) /\ Write(r, some)
    /\ thread' = [thread EXCEPT ![r].stage = "finish", ![r].ok = FALSE]
    /\ Emit(r)
    /\ UNCHANGED <<run, source, reader, lapses>>

\* An exception before or after the body ends the thread with run.json as it is.
ThreadDies(r) ==
    /\ At(r, "begin") \/ Finishing(r)
    /\ Suffer
    /\ thread' = [thread EXCEPT ![r] = Dead]
    /\ \/ UNCHANGED run
       \/ At(r, "begin") /\ run' = [run EXCEPT ![r] = "running"]
    /\ UNCHANGED <<task, quiet, source, reader, origin, lapses>>

-----------------------------------------------------------------------------
(* The readers.                                                            *)

MayResume(verdict) == verdict \in Resumable /\ \E r \in Runs : run[r] = "none"

\* run.json is loaded; a run that is over is returned as it is, and so is one that is
\* pending: it has no task that is over, and is not called stale.
Load(p, r) ==
    /\ reader[p].stage = "rest"
    /\ run[r] = "running" \/ MayResume(run[r])
    /\ reader' = [reader EXCEPT ![p] = [AtRest EXCEPT
            !.of = r, !.verdict = run[r],
            !.stage = IF run[r] \in Over THEN "answer" ELSE "loaded"]]
    /\ UNCHANGED <<files, source, thread, origin, lapses, troubles>>

\* What the statuses of the tasks say of a run whose tasks are all over.
Recovered(seen) ==
    IF \A t \in Tasks : seen[t] = "completed" THEN "completed"
    ELSE IF \E t \in Tasks : seen[t] = "failed" THEN "failed" ELSE "cancelled"

\* What a reader makes of the tasks that are not over.
Reaped(seen) == [t \in Tasks |-> IF seen[t] \in Over THEN seen[t] ELSE "failed"]

\* Fault: a run none of whose tasks has been started is left alone.
StaleOnceStarted(p) ==
    /\ quiet[reader[p].of]
    /\ \E t \in Tasks : task[reader[p].of][t] # "blocked"

\* The log of a run that is running has been silent for too long.
Stale(p) == quiet[reader[p].of]

\* The task files are read: a run whose tasks are all over is recovered, one that is
\* stale is reaped, and any other is returned as it is.
Hydrate(p) ==
    LET seen == task[reader[p].of]
        over == \A t \in Tasks : seen[t] \in Over
    IN
    /\ reader[p].stage = "loaded"
    /\ reader' = [reader EXCEPT ![p] =
            IF over \/ Stale(p)
            THEN [@ EXCEPT !.stage = "judged", !.tasks = Reaped(seen), !.verdict = Recovered(Reaped(seen))]
            ELSE AtRest]
    /\ UNCHANGED <<files, source, thread, origin, lapses, troubles>>

\* An answer matters to the runs only if it may lead to a resume.
Answering(p) ==
    IF MayResume(reader[p].verdict)
    THEN [AtRest EXCEPT !.stage = "answer", !.of = reader[p].of, !.verdict = reader[p].verdict]
    ELSE AtRest

\* The task files are written back, and then run.json and an event.
SaveTasks(p) ==
    /\ reader[p].stage = "judged"
    /\ task' = [task EXCEPT ![reader[p].of] = reader[p].tasks]
    /\ reader' = [reader EXCEPT ![p].stage = "saved"]
    /\ UNCHANGED <<run, quiet, source, thread, origin, lapses, troubles>>

SaveRun(p) ==
    /\ reader[p].stage = "saved"
    /\ run' = [run EXCEPT ![reader[p].of] = reader[p].verdict]
    /\ Emit(reader[p].of)
    /\ reader' = [reader EXCEPT ![p] = Answering(p)]
    /\ UNCHANGED <<task, source, thread, origin, lapses, troubles>>

\* A write that raises is only logged: the reader answers what it has found.
SaveRaises(p) ==
    /\ reader[p].stage \in {"judged", "saved"}
    /\ Suffer
    /\ reader' = [reader EXCEPT ![p] = Answering(p)]
    /\ UNCHANGED <<files, source, thread, origin, lapses>>

Answer(p) ==
    /\ reader[p].stage = "answer"
    /\ reader' = [reader EXCEPT ![p] = AtRest]
    /\ UNCHANGED <<files, source, thread, origin, lapses, troubles>>

\* The answer to a resume is a new run, if the run has failed or was cancelled.
Resume(p, r) ==
    /\ reader[p].stage = "answer" /\ reader[p].verdict \in Resumable
    /\ Create(r, reader[p].of)
    /\ reader' = [reader EXCEPT ![p] = AtRest]
    /\ UNCHANGED troubles

-----------------------------------------------------------------------------
(* The host.                                                               *)

\* The process dies with the threads it runs.
Crash ==
    /\ Suffer
    /\ thread' = [r \in Runs |->
            IF thread[r].stage \in {"none", "over"} THEN thread[r]
            ELSE Dead]
    /\ UNCHANGED <<files, source, reader, origin, lapses>>

\* The host is suspended, and a reader may wake before the heartbeats do.
Sleep ==
    /\ Suffer
    /\ lapses' = lapses \cup {"sleep"}
    /\ quiet' = [r \in Runs |-> thread[r].stage \notin {"none", "over"}]
    /\ UNCHANGED <<run, task, source, thread, reader, origin>>

\* No one emits for a thread that died.
FallSilent(r) ==
    /\ At(r, "dead") /\ ~quiet[r]
    /\ quiet' = [quiet EXCEPT ![r] = TRUE]
    /\ UNCHANGED <<run, task, source, thread, reader, origin, lapses, troubles>>

-----------------------------------------------------------------------------
Running(r) ==
    \/ Begin(r) \/ Overlay(r) \/ BeginLayer(r) \/ CancelLayer(r) \/ EndLayer(r) \/ Sync(r) \/ Finish(r)
    \/ \E t \in Tasks : WorkerEnds(r, t)

Reading(p) == Hydrate(p) \/ SaveTasks(p) \/ SaveRun(p) \/ Answer(p)

Next ==
    \/ \E r \in Runs : Start(r) \/ Cancel(r) \/ Running(r) \/ SyncFails(r) \/ BodyRaises(r)
                      \/ ThreadDies(r) \/ FallSilent(r)
    \/ \E p \in Readers : Reading(p) \/ SaveRaises(p) \/ \E r \in Runs : Load(p, r) \/ Resume(p, r)
    \/ Crash \/ Sleep

Spec == Init /\ [][Next]_vars

\* A thread goes on and its workers have deadlines; time passes; and every run is
\* read again and again, as by the event stream of its page.
FairSpec ==
    /\ Spec
    /\ \A r \in Runs : WF_vars(Running(r)) /\ WF_vars(FallSilent(r))
    /\ \A p \in Readers : WF_vars(Reading(p)) /\ \A r \in Runs : SF_vars(Load(p, r))

-----------------------------------------------------------------------------
(* Properties.                                                             *)

\* Type invariant of the files, the threads and the readers.
TypeOK ==
    /\ run \in [Runs -> {"none", "pending", "running"} \cup Over]
    /\ task \in [Runs -> [Tasks -> {"blocked", "in_progress"} \cup Over]]
    /\ source \in [Runs -> Runs \cup {Nobody}]
    /\ thread \in [Runs -> [
            stage : {"none", "begin", "overlay", "layer", "work", "sync", "finish", "over", "dead"},
            done : SUBSET Tasks, out : SUBSET Tasks, won : SUBSET Tasks, lost : SUBSET Tasks,
            ok : BOOLEAN, cancel : BOOLEAN,
            seen : [Tasks -> {"blocked", "in_progress"} \cup Over]]]
    /\ quiet \in [Runs -> BOOLEAN]
    /\ reader \in [Readers -> [
            stage : {"rest", "loaded", "judged", "saved", "answer"}, of : Runs \cup {Nobody},
            tasks : [Tasks -> {"blocked", "in_progress"} \cup Over],
            verdict : {"running"} \cup Over]]
    /\ origin \in [Runs -> [Tasks -> 0 .. MaxRuns]]
    /\ lapses \subseteq {"sleep", "unread"}
    /\ troubles \in 0 .. MaxTroubles

\* A result is not lost: whatever is cancelled, raises or dies, and whoever reconciles,
\* a task that has one stays completed, and a resume finds it. (The host does not sleep
\* and a thread can read its files: it cancels by what it read last.)
ResultsKept ==
    lapses = {} => \A r \in Runs, t \in Tasks : origin[r][t] # 0 => task[r][t] = "completed"

\* A result stands on the results its run shows for the upstreams, however often the
\* run was resumed and whatever changed in between: it was made from those same ones.
\* (The host does not sleep: over one that did, two readers can write back a result
\* whose upstream has been made anew.)
ResultsAgree ==
    "sleep" \notin lapses =>
        \A r \in Runs, t \in Tasks :
            LET made == origin[r][t] IN
            task[r][t] = "completed" =>
                made # 0 /\ \A d \in Deps[t] : origin[r][d] # 0 /\ origin[r][d] = origin[made][d]

\* A run that is called completed, by its thread or by a reader, has every result.
CompletedHasAll ==
    \A r \in Runs : run[r] = "completed" => \A t \in Tasks : origin[r][t] # 0

\* No run is left running: its thread ends it, or, when that has died, a reader does.
RunsEnd == \A r \in Runs : run[r] = "running" ~> run[r] \in Over
=============================================================================
