---------------------------- MODULE SessionService ----------------------------
(***************************************************************************)
(* The chat sessions of one API server: what send, cancel, delete, rename  *)
(* and auto-title requests do to the stored sessions and attempts, and how *)
(* the coroutine of an attempt walks through the thread pool.              *)
(*                                                                         *)
(* The requests and coroutines share one event loop, so what runs between  *)
(* two awaits is one step; the pool's threads and the death of the process *)
(* interleave with them.                                                   *)
(***************************************************************************)
EXTENDS Integers, FiniteSets

CONSTANTS
    Sessions,      \* the sessions that may be created
    MaxAttempts,   \* bound: the messages sent, over all sessions
    None,          \* no attempt, no session
    Slots,         \* max_workers of _AGENT_EXECUTOR
    MaxTroubles    \* bound: process deaths and refused writes

Attempts == 1 .. MaxAttempts

ASSUME SessionAssumption ==
    /\ None \notin Sessions /\ None \notin Attempts
    /\ MaxAttempts \in Nat /\ MaxTroubles \in Nat
    /\ Slots \in Nat \ {0}

VARIABLES
    record,     \* session.json of each session
    stored,     \* the status in attempt.json of each attempt
    of,         \* the session of each attempt sent
    inflight,   \* _inflight: the sessions claimed by a run
    task,       \* _active_tasks
    loop,       \* _active_loops
    stage,      \* where the coroutine of each attempt is
    job,        \* what the pool does for it, or has answered
    killed,     \* attempts whose task was cancelled
    flagged,    \* attempts whose AgentLoop has its cancel event set
    titling,    \* the session an auto-title request has loaded
    troubles,   \* bounded by MaxTroubles
    inTime      \* history: attempts cancelled before the agent had its result

disk == <<record, stored, of>>
memory == <<inflight, task, loop, stage>>
cancels == <<killed, flagged, inTime>>
vars == <<disk, memory, job, cancels, titling, troubles>>

Records == [state : {"unborn", "stored", "gone"}, last : Attempts \cup {None},
            title : {"first prompt", "manual", "generated"}]
Unborn == [state |-> "unborn", last |-> None, title |-> "first prompt"]

Statuses == {"pending", "running", "completed", "failed", "cancelled"}
Terminal == {"completed", "failed", "cancelled"}
Live == {"queued", "build", "agent"}
Stages == {"unsent", "unstarted", "ended", "lost"} \cup Live

LiveOf(s) == {a \in Attempts : of[a] = s /\ stage[a] \in Live}
\* What build_registry or agent.run has answered.
Answered == {"success", "failed", "cancelled", "raised"}
Busy == {a \in Attempts : job[a] = "thread"}

-----------------------------------------------------------------------------
Init ==
    /\ record = [s \in Sessions |-> Unborn]
    /\ stored = [a \in Attempts |-> "missing"]
    /\ of = [a \in Attempts |-> None]
    /\ inflight = {}
    /\ task = [s \in Sessions |-> None]
    /\ loop = [s \in Sessions |-> None]
    /\ stage = [a \in Attempts |-> "unsent"]
    /\ job = [a \in Attempts |-> "none"]
    /\ killed = {} /\ flagged = {} /\ inTime = {}
    /\ titling = [s \in Sessions |-> Unborn]
    /\ troubles = 0

Store(s, r) == record' = [record EXCEPT ![s] = r]

Create(s) ==
    /\ record[s].state = "unborn"
    /\ Store(s, [Unborn EXCEPT !.state = "stored"])
    /\ UNCHANGED <<stored, of, memory, job, cancels, titling, troubles>>

\* rmtree of the session's directory. A run that is in flight goes on, and the
\* directory comes back, without its session.json, at its next write.
Delete(s) ==
    /\ \/ record[s].state = "stored"
       \/ \E a \in Attempts : of[a] = s /\ stored[a] # "missing"
    /\ Store(s, [Unborn EXCEPT !.state = "gone"])
    /\ stored' = [a \in Attempts |-> IF of[a] = s THEN "missing" ELSE stored[a]]
    /\ UNCHANGED <<of, memory, job, cancels, titling, troubles>>

\* PATCH: loaded, changed and written without an await.
Rename(s) ==
    /\ record[s].state = "stored"
    /\ Store(s, [record[s] EXCEPT !.title = "manual"])
    /\ UNCHANGED <<stored, of, memory, job, cancels, titling, troubles>>

\* An auto-title loads the session, awaits the language model, and writes back
\* all of what it loaded. A title the user has chosen is kept.
BeginTitle(s) ==
    /\ record[s].state = "stored" /\ record[s].title = "first prompt"
    /\ titling[s] = Unborn
    /\ \E a \in Attempts : of[a] = s
    /\ titling' = [titling EXCEPT ![s] = record[s]]
    /\ UNCHANGED <<disk, memory, job, cancels, troubles>>

WriteTitle(s) ==
    /\ titling[s] # Unborn
    /\ Store(s, [titling[s] EXCEPT !.title = "generated"])
    /\ titling' = [titling EXCEPT ![s] = Unborn]
    /\ UNCHANGED <<stored, of, memory, job, cancels, troubles>>

TitleFails(s) ==
    /\ titling[s] # Unborn
    /\ titling' = [titling EXCEPT ![s] = Unborn]
    /\ UNCHANGED <<disk, memory, job, cancels, troubles>>

-----------------------------------------------------------------------------
(* send_message and cancel_current.                                        *)

IsNext(a) == stage[a] = "unsent" /\ \A b \in 1 .. (a - 1) : stage[b] # "unsent"

\* Fault: the claim is not looked at.
MaySendAnyway(s) == record[s].state = "stored"

\* What send_message and _reserve_session require: the session and its claim.
MaySend(s) == record[s].state = "stored" /\ s \notin inflight

\* The attempt is created, the session points to it and the task is scheduled.
Send(s, a) ==
    /\ MaySend(s) /\ IsNext(a)
    /\ Store(s, [record[s] EXCEPT !.last = a])
    /\ stored' = [stored EXCEPT ![a] = "pending"]
    /\ of' = [of EXCEPT ![a] = s]
    /\ inflight' = inflight \cup {s}
    /\ task' = [task EXCEPT ![s] = a]
    /\ stage' = [stage EXCEPT ![a] = "queued"]
    /\ UNCHANGED <<loop, job, cancels, titling, troubles>>

\* The writes of a send that stops after some of them: no task, and no link
\* from the session. session.json itself is truncated before it is written.
PartOfSend(s, a) ==
    /\ MaySend(s) /\ IsNext(a)
    /\ troubles < MaxTroubles
    /\ troubles' = troubles + 1
    /\ of' = [of EXCEPT ![a] = s]
    /\ \E written \in {"missing", "pending"}, torn \in BOOLEAN :
        /\ stored' = [stored EXCEPT ![a] = written]
        /\ torn => written = "pending"
        /\ Store(s, IF torn THEN [Unborn EXCEPT !.state = "gone"] ELSE record[s])

\* A write raises: the claim is given back.
SendRaises(s, a) ==
    /\ PartOfSend(s, a)
    /\ stage' = [stage EXCEPT ![a] = "lost"]
    /\ UNCHANGED <<inflight, task, loop, job, cancels, titling>>

\* cancel_current answers true: the loop's flag is set, or without a loop the
\* task is cancelled.
Cancel(s) ==
    /\ \/ /\ loop[s] # None
          /\ flagged' = flagged \cup {loop[s]}
          /\ inTime' = IF job[loop[s]] \in Answered THEN inTime ELSE inTime \cup {loop[s]}
          /\ UNCHANGED killed
       \/ /\ loop[s] = None /\ task[s] # None /\ stage[task[s]] \in Live
          /\ killed' = killed \cup {task[s]}
          /\ inTime' = inTime \cup {task[s]}
          /\ UNCHANGED flagged
    /\ UNCHANGED <<disk, memory, job, titling, troubles>>

-----------------------------------------------------------------------------
(* _run_attempt and _run_with_agent, and the pool they await.              *)

Verdict == [success |-> "completed", cancelled |-> "cancelled",
            failed |-> "failed", raised |-> "failed"]

\* What the step that is next for an attempt may write to attempt.json: the reply
\* that follows a verdict may raise, and then the attempt is written as failed.
Writing(a) ==
    {w \in Statuses :
        \/ stage[a] = "queued" /\ a \notin killed /\ w \in {"running", "failed"}
        \/ stage[a] = "build" /\ a \in killed /\ w = "cancelled"
        \/ stage[a] = "build" /\ a \notin killed /\ job[a] = "raised" /\ w = "failed"
        \/ stage[a] = "agent" /\ job[a] \in Answered /\ w \in {Verdict[job[a]], "failed"}}

\* The status is saved and the reply is stored, or one of these writes raises and
\* leaves an earlier status, another one, or a truncated file.
SaveStatus(a, status) ==
    \/ /\ stored' = [stored EXCEPT ![a] = status]
       /\ UNCHANGED troubles
    \/ /\ troubles < MaxTroubles
       /\ troubles' = troubles + 1
       /\ \E left \in Writing(a) \cup {stored[a], "missing"} :
            stored' = [stored EXCEPT ![a] = left]

\* Fault: the claim is released after the reply, and not in a finally.
ConcludeKeepsClaim(a, status) ==
    /\ stage' = [stage EXCEPT ![a] = "ended"]
    /\ task' = [task EXCEPT ![of[a]] = None]
    /\ killed' = killed \ {a}
    /\ SaveStatus(a, status)
    /\ inflight' = IF troubles' = troubles THEN inflight \ {of[a]} ELSE inflight
    /\ UNCHANGED <<record, of, inTime, titling>>

\* The attempt ends, whatever raises: the finally of _run_attempt forgets the task
\* and releases the claim.
Conclude(a, status) ==
    /\ stage' = [stage EXCEPT ![a] = "ended"]
    /\ task' = [task EXCEPT ![of[a]] = None]
    /\ inflight' = inflight \ {of[a]}
    /\ killed' = killed \ {a}
    /\ SaveStatus(a, status)
    /\ UNCHANGED <<record, of, inTime, titling>>

\* The first step of the task: a cancel that came before it ends the coroutine
\* before its try, so that neither the attempt nor the claim is touched.
NeverStart(a) ==
    /\ stage[a] = "queued" /\ a \in killed
    /\ stage' = [stage EXCEPT ![a] = "unstarted"]
    /\ killed' = killed \ {a}
    /\ UNCHANGED <<disk, inflight, task, loop, job, flagged, inTime, titling, troubles>>

Start(a) ==
    /\ stage[a] = "queued" /\ a \notin killed
    /\ stored' = [stored EXCEPT ![a] = "running"]
    /\ stage' = [stage EXCEPT ![a] = "build"]
    /\ job' = [job EXCEPT ![a] = "waiting"]
    /\ UNCHANGED <<record, of, inflight, task, loop, cancels, titling, troubles>>

\* The provider, the memory or the agent's configuration cannot be set up.
StartRaises(a) ==
    /\ stage[a] = "queued" /\ a \notin killed
    /\ Conclude(a, "failed")
    /\ UNCHANGED <<loop, job, flagged>>

\* A free thread takes a job that waits.
TakeSlot(a) ==
    /\ job[a] = "waiting"
    /\ Cardinality(Busy) < Slots
    /\ job' = [job EXCEPT ![a] = "thread"]
    /\ UNCHANGED <<disk, memory, cancels, titling, troubles>>

\* build_registry returns or raises; its coroutine may have been cancelled.
Built(a) ==
    /\ job[a] = "thread" /\ stage[a] # "agent"
    /\ \E r \in IF stage[a] = "build" THEN {"success", "raised"} ELSE {"none"} :
        job' = [job EXCEPT ![a] = r]
    /\ UNCHANGED <<disk, memory, cancels, titling, troubles>>

\* Fault: the run clears the flag that was set while it waited in the pool.
AnswersForgetful(a) == {"success", "failed", "raised"}

\* What agent.run answers: with its flag set it never reports success.
Answers(a) == {"failed", "raised"} \cup IF a \in flagged THEN {"cancelled"} ELSE {"success"}

Ran(a) ==
    /\ job[a] = "thread" /\ stage[a] = "agent"
    /\ \E r \in Answers(a) : job' = [job EXCEPT ![a] = r]
    /\ UNCHANGED <<disk, memory, cancels, titling, troubles>>

\* The build is awaited: the coroutine goes on to the agent, or ends.
BeginAgent(a) ==
    /\ stage[a] = "build" /\ a \notin killed
    /\ job[a] = "success"
    /\ loop' = [loop EXCEPT ![of[a]] = a]
    /\ stage' = [stage EXCEPT ![a] = "agent"]
    /\ job' = [job EXCEPT ![a] = "waiting"]
    /\ UNCHANGED <<disk, inflight, task, cancels, titling, troubles>>

BuildRaised(a) ==
    /\ stage[a] = "build" /\ a \notin killed
    /\ job[a] = "raised"
    /\ job' = [job EXCEPT ![a] = "none"]
    /\ Conclude(a, "failed")
    /\ UNCHANGED <<loop, flagged>>

\* Fault: CancelledError, which is no Exception, passes without being handled.
CancelledUnsaved(a) ==
    /\ stage[a] = "build" /\ a \in killed
    /\ job' = [job EXCEPT ![a] = IF @ = "thread" THEN @ ELSE "none"]
    /\ stage' = [stage EXCEPT ![a] = "ended"]
    /\ task' = [task EXCEPT ![of[a]] = None]
    /\ inflight' = inflight \ {of[a]}
    /\ killed' = killed \ {a}
    /\ UNCHANGED <<disk, loop, flagged, inTime, titling, troubles>>

\* Fault: the claim is released only where the agent has run.
CancelledKeepsClaim(a) ==
    /\ stage[a] = "build" /\ a \in killed
    /\ job' = [job EXCEPT ![a] = IF @ = "thread" THEN @ ELSE "none"]
    /\ stored' = [stored EXCEPT ![a] = "cancelled"]
    /\ stage' = [stage EXCEPT ![a] = "ended"]
    /\ task' = [task EXCEPT ![of[a]] = None]
    /\ killed' = killed \ {a}
    /\ UNCHANGED <<record, of, inflight, loop, flagged, inTime, titling, troubles>>

\* Fault: a cancelled coroutine waits for the thread of its build.
CancelledOnceBuilt(a) ==
    /\ stage[a] = "build" /\ a \in killed
    /\ job[a] # "thread"
    /\ job' = [job EXCEPT ![a] = "none"]
    /\ Conclude(a, "cancelled")
    /\ UNCHANGED <<loop, flagged>>

\* CancelledError at the await: a build that waits is dropped, one that runs
\* keeps its thread.
CancelledInBuild(a) ==
    /\ stage[a] = "build" /\ a \in killed
    /\ job' = [job EXCEPT ![a] = IF @ = "thread" THEN @ ELSE "none"]
    /\ Conclude(a, "cancelled")
    /\ UNCHANGED <<loop, flagged>>

Finish(a) ==
    /\ stage[a] = "agent" /\ job[a] \in Answered
    /\ loop' = [loop EXCEPT ![of[a]] = None]
    /\ flagged' = flagged \ {a}
    /\ job' = [job EXCEPT ![a] = "none"]
    /\ Conclude(a, Verdict[job[a]])

-----------------------------------------------------------------------------
(* The process dies and another one starts over the same files.            *)

\* Nothing reads back the attempts that were pending or running.
Die ==
    /\ inflight' = {}
    /\ task' = [s \in Sessions |-> None]
    /\ loop' = [s \in Sessions |-> None]
    /\ job' = [a \in Attempts |-> "none"]
    /\ killed' = {} /\ flagged' = {}
    /\ titling' = [s \in Sessions |-> Unborn]
    /\ UNCHANGED inTime

Lost == [a \in Attempts |-> IF stage[a] \in Live THEN "lost" ELSE stage[a]]

Crash ==
    /\ troubles < MaxTroubles
    /\ troubles' = troubles + 1
    /\ Die
    /\ stage' = Lost
    /\ UNCHANGED disk

CrashInSend(s, a) ==
    /\ PartOfSend(s, a)
    /\ Die
    /\ stage' = [Lost EXCEPT ![a] = "lost"]

\* The death comes between two writes of one step of a coroutine.
CrashInStep(a) ==
    /\ troubles < MaxTroubles
    /\ troubles' = troubles + 1
    /\ Writing(a) # {}
    /\ \E left \in Writing(a) \cup {"missing"} :
        stored' = [stored EXCEPT ![a] = left]
    /\ Die
    /\ stage' = Lost
    /\ UNCHANGED <<record, of>>

-----------------------------------------------------------------------------
Request(s) ==
    \/ Create(s) \/ Delete(s) \/ Rename(s) \/ BeginTitle(s) \/ Cancel(s)
    \/ \E a \in Attempts : Send(s, a)

Titler(s) == WriteTitle(s) \/ TitleFails(s)

\* What the event loop does for an attempt once it is sent.
Coroutine(a) ==
    \/ NeverStart(a) \/ Start(a) \/ StartRaises(a)
    \/ BeginAgent(a) \/ BuildRaised(a) \/ CancelledInBuild(a) \/ Finish(a)

Pool(a) == TakeSlot(a) \/ Built(a) \/ Ran(a)

Trouble ==
    \/ Crash
    \/ \E a \in Attempts : CrashInStep(a)
    \/ \E s \in Sessions, a \in Attempts : SendRaises(s, a) \/ CrashInSend(s, a)

Next ==
    \/ \E s \in Sessions : Request(s) \/ Titler(s)
    \/ \E a \in Attempts : Coroutine(a) \/ Pool(a)
    \/ Trouble

Spec == Init /\ [][Next]_vars

\* The event loop runs what is ready and a free thread takes a job. Nothing makes
\* a build or an agent end: neither has a deadline.
FairSpec ==
    /\ Spec
    /\ \A a \in Attempts : WF_vars(Coroutine(a)) /\ WF_vars(TakeSlot(a))

-----------------------------------------------------------------------------
TypeOK ==
    /\ record \in [Sessions -> Records]
    /\ stored \in [Attempts -> {"missing"} \cup Statuses]
    /\ of \in [Attempts -> Sessions \cup {None}]
    /\ inflight \subseteq Sessions
    /\ task \in [Sessions -> Attempts \cup {None}]
    /\ loop \in [Sessions -> Attempts \cup {None}]
    /\ stage \in [Attempts -> Stages]
    /\ job \in [Attempts -> {"none", "waiting", "thread"} \cup Answered]
    /\ killed \subseteq Attempts /\ flagged \subseteq Attempts /\ inTime \subseteq Attempts
    /\ titling \in [Sessions -> Records]
    /\ troubles \in 0 .. MaxTroubles

\* Whatever cancels, deletes and deaths interleave, a session never has two
\* attempts in progress: the claim outlives every await of the run.
OneRunPerSession ==
    \A a, b \in Attempts :
        stage[a] \in Live /\ stage[b] \in Live /\ of[a] = of[b] => a = b

\* A claim without a run, which refuses every later message until a restart, is
\* left behind in one way only: a cancel before the task's first step.
StrandedOnlyByEarlyCancel ==
    \A s \in inflight :
        LiveOf(s) = {} => \E a \in Attempts : of[a] = s /\ stage[a] = "unstarted"

\* Once cancel_current has answered true before the agent had its result, the
\* attempt does not end as completed, wherever in the pool its work was.
CancelIsHonoured == \A a \in inTime : stored[a] # "completed"

\* An attempt that is stored as running, which is what makes an event stream
\* replay from the start, is in progress, or its process died or could not write.
RunningIsLive ==
    \A a \in Attempts :
        stored[a] = "running" => stage[a] \in Live \/ troubles > 0

\* A cancel that was accepted before the agent began lets go of the session even
\* if the build hangs, unless it came before the task's first step.
CancelFreesSession ==
    \A a \in Attempts :
        a \in killed ~> of[a] \notin inflight \/ stage[a] = "unstarted"

\* If no job holds its thread for ever, every run lets go of its session, unless
\* its task never started.
ClaimsEnd ==
    (\A a \in Attempts : []<>(job[a] # "thread")) =>
        \A s \in Sessions :
            s \in inflight ~> \/ s \notin inflight
                              \/ \E a \in Attempts : of[a] = s /\ stage[a] = "unstarted"
=============================================================================
