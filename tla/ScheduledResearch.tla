--------------------------- MODULE ScheduledResearch ---------------------------
(***************************************************************************)
(* The executor of scheduled research and its outbox: due jobs are         *)
(* dispatched into sessions, and the briefing of a session that has ended  *)
(* is sent to the job's channel by a sweep. The ticking coroutine and the  *)
(* sweep that a session event asks for share the job file and one event    *)
(* loop, with the routes that create and delete jobs.                      *)
(*                                                                         *)
(* A sweep works on copies of the rows it loaded; where it awaits a send,  *)
(* the others run. Between two awaits a coroutine holds the loop.          *)
(***************************************************************************)
EXTENDS Integers, FiniteSetsExt

CONSTANTS
    Jobs,          \* job ids
    NoJob,         \* no row in the file
    None,          \* no session, no coroutine
    Specs,         \* what a job can be created as: its channel and schedule
    Lease,         \* delivery_lease_ms
    Interval,      \* the period of a recurring schedule
    RetryBase, RetryMax,  \* the delays of the back-off
    MaxFailures,   \* max_consecutive_failures
    MaxTime,       \* bound: the clock runs from 0 to MaxTime
    MaxBorn,       \* bound: jobs created
    MaxRuns,       \* bound: sessions dispatched
    MaxTroubles    \* bound: process deaths, reads that raise, and sends that
                   \* deliver but raise or return but do not deliver

ASSUME ResearchAssumption ==
    /\ Specs \subseteq [channel : BOOLEAN, schedule : {"recurring", "spent"}]
    /\ Lease \in Nat \ {0} /\ Interval \in Nat \ {0} /\ MaxFailures \in Nat \ {0}
    /\ RetryBase \in Nat /\ RetryMax \in Nat
    /\ MaxTime \in Nat /\ MaxBorn \in Nat /\ MaxRuns \in Nat /\ MaxTroubles \in Nat
    /\ None \notin Jobs /\ None \notin 1 .. MaxRuns

VARIABLES
    now,        \* the clock
    file,       \* the rows of the job file
    born,       \* how many jobs were created; a row's created_at
    tick,       \* the executor's coroutine: its stage, its time, and the records
                \* (by created_at) that were due and are left to fire
    firing,     \* the row the tick has dispatched, while it awaits the dispatch
    sweep,      \* each sweep: its stage, start, the copies left, the claimed row
    loop,       \* the coroutine that holds the event loop, or None
    run,        \* what became of each dispatched session
    runs,       \* how many sessions were dispatched
    delivered,  \* history: how often a session's briefing reached its channel, whole
                \* or in part, up to 2
    dropped,    \* history: the sessions of which a send returned without delivering
    repeats,    \* history: the sessions whose row was taken or written back while a
                \* send of it was in flight or over, or had got through and raised
    troubles    \* bounded by MaxTroubles

vars == <<now, file, born, tick, firing, sweep, loop, run, runs, delivered,
          dropped, repeats, troubles>>
executor == <<tick, firing, sweep>>
outcome == <<delivered, dropped, repeats>>

Runs == 1 .. MaxRuns
Sweeps == {"tick", "event"}

Deliveries == [status : {"none", "pending", "sending", "sent", "failed"},
               session : Runs \cup {None}, at : 0 .. MaxTime, attempts : Nat]
Rows == [born : 1 .. MaxBorn, channel : BOOLEAN, schedule : {"recurring", "spent"},
         status : {"pending", "running", "completed", "failed"},
         next : Nat, fails : Nat, delivery : Deliveries, verdict : Runs \cup {None}]

NoDelivery == [status |-> "none", session |-> None, at |-> 0, attempts |-> 0]
Waiting == [stage |-> "idle", since |-> 0, left |-> {}]
Resting == [stage |-> "idle", since |-> 0, left |-> [j \in Jobs |-> NoJob],
            row |-> NoJob, job |-> None]

-----------------------------------------------------------------------------
(* Reads of one row.                                                       *)

\* Fault: the outbox of the row is not looked at.
IsDueByTime(row, time) ==
    row # NoJob /\ row.status \notin {"running", "failed"} /\ row.next <= time

IsDue(row, time) ==
    /\ row # NoJob
    /\ row.status \notin {"running", "failed"}
    /\ row.delivery.status \notin {"pending", "sending"}
    /\ row.next <= time

\* A row is a sweep's to take when it is owed, or claimed a lease ago.
IsEligible(row, time) ==
    \/ row.delivery.status = "pending"
    \/ row.delivery.status = "sending" /\ time - row.delivery.at >= Lease

SameRecord(a, b) == a # NoJob /\ b # NoJob /\ a.born = b.born

\* How long the retry of a dispatch that failed waits at least.
RetryDelay(fails) == Min({RetryBase * 2 ^ (fails - 1), RetryMax})

-----------------------------------------------------------------------------
Init ==
    /\ now = 0
    /\ file = [j \in Jobs |-> NoJob]
    /\ born = 0
    /\ tick = Waiting
    /\ firing = [job |-> None, row |-> NoJob]
    /\ sweep = [w \in Sweeps |-> Resting]
    /\ loop = None
    /\ run = [f \in Runs |-> "unsent"]
    /\ runs = 0
    /\ delivered = [f \in Runs |-> 0]
    /\ dropped = {} /\ repeats = {}
    /\ troubles = 0

Upsert(j, row) == file' = [file EXCEPT ![j] = row]

\* POST: a new job, or one that replaces a job of the same id.
Create(j, spec) ==
    /\ loop = None
    /\ born < MaxBorn
    /\ born' = born + 1
    /\ Upsert(j, [born |-> born + 1, channel |-> spec.channel, schedule |-> spec.schedule,
                  status |-> "pending", next |-> now, fails |-> 0,
                  delivery |-> NoDelivery, verdict |-> None])
    /\ UNCHANGED <<now, executor, loop, run, runs, outcome, troubles>>

Delete(j) ==
    /\ loop = None
    /\ file[j] # NoJob
    /\ Upsert(j, NoJob)
    /\ UNCHANGED <<now, born, executor, loop, run, runs, outcome, troubles>>

-----------------------------------------------------------------------------
(* The tick: due jobs of a snapshot, each read again before it is fired.   *)

Tick ==
    /\ loop = None /\ tick.stage = "idle"
    /\ tick' = [stage |-> "firing", since |-> now,
                left |-> {file[j].born : j \in {k \in Jobs : IsDue(file[k], now)}}]
    /\ loop' = "tick"
    /\ UNCHANGED <<now, file, born, firing, sweep, run, runs, outcome, troubles>>

\* The row is read again: it must be the record that was due, and still be due.
StillDue(j) ==
    /\ file[j] # NoJob /\ file[j].born \in tick.left
    /\ IsDue(file[j], tick.since)

\* The row is marked running and the dispatch awaited.
Fire(j) ==
    /\ loop = "tick" /\ tick.stage = "firing"
    /\ StillDue(j) /\ runs < MaxRuns
    /\ tick' = [tick EXCEPT !.left = @ \ {file[j].born}, !.stage = "awaiting"]
    /\ firing' = [job |-> j, row |-> [file[j] EXCEPT !.status = "running"]]
    /\ Upsert(j, firing'.row)
    /\ loop' = None
    /\ UNCHANGED <<now, born, sweep, run, runs, outcome, troubles>>

\* The finished row is written unless the user deleted or replaced it meanwhile.
PersistCompletion(j, row) ==
    IF SameRecord(file[j], row) THEN Upsert(j, row) ELSE UNCHANGED file

\* Where a dispatched job goes: on, to a retry, or to its failure.
Advanced(row) ==
    [row EXCEPT !.status = IF row.schedule = "spent" THEN "failed" ELSE "completed",
                !.next = IF row.schedule = "spent" THEN @ ELSE tick.since + Interval]

GiveUp(row) == row.schedule = "spent" \/ row.fails >= MaxFailures

Retried(row) ==
    [row EXCEPT !.status = IF GiveUp(row) THEN "failed" ELSE "pending",
                !.next = IF row.schedule = "spent" THEN @
                         ELSE tick.since + Max({Interval, RetryDelay(row.fails)})]

\* Back from the dispatch: the tick goes on with its other due jobs.
EndFiring(row) ==
    /\ loop = None /\ tick.stage = "awaiting"
    /\ PersistCompletion(firing.job, row)
    /\ firing' = [job |-> None, row |-> NoJob]
    /\ tick' = [tick EXCEPT !.stage = "firing"]
    /\ loop' = "tick"
    /\ UNCHANGED <<now, born, sweep, outcome, troubles>>

\* A session took the job: the outbox owes its briefing to the channel.
Dispatched ==
    /\ runs' = runs + 1
    /\ run' = [run EXCEPT ![runs + 1] = "running"]
    /\ EndFiring(Advanced([firing.row EXCEPT !.fails = 0,
           !.delivery = [status |-> IF firing.row.channel THEN "pending" ELSE "none",
                         session |-> runs + 1, at |-> tick.since, attempts |-> 0]]))

DispatchFails ==
    /\ EndFiring(Retried([firing.row EXCEPT !.fails = @ + 1]))
    /\ UNCHANGED <<run, runs>>

\* The outbox owes the row's briefing to a channel, and a sweep may take it.
Owed(row, time) ==
    row.channel /\ row.delivery.session # None /\ IsEligible(row, time)

\* A job without a channel gets the verdict of its session from any sweep.
LacksVerdict(row) ==
    /\ row.delivery.status = "none" /\ row.delivery.session # None
    /\ row.verdict # row.delivery.session

\* A sweep loads the rows, and passes by those it has nothing to do for.
BeginSweep(w) ==
    sweep' = [sweep EXCEPT ![w] =
        [Resting EXCEPT !.stage = "rows", !.since = now,
                        !.left = [j \in Jobs |->
            IF file[j] # NoJob /\ (Owed(file[j], now) \/ LacksVerdict(file[j]))
            THEN file[j] ELSE NoJob]]]

\* Nothing is left to fire, and the tick goes on to a sweep of its own.
EndTick ==
    /\ loop = "tick" /\ tick.stage = "firing"
    /\ runs = MaxRuns \/ \A j \in Jobs : ~StillDue(j)
    /\ tick' = [tick EXCEPT !.stage = "sweeping", !.left = {}]
    /\ BeginSweep("tick")
    /\ UNCHANGED <<now, file, born, firing, loop, run, runs, outcome, troubles>>

-----------------------------------------------------------------------------
(* The sweeps.                                                             *)

\* The end of a session asks for a sweep; one in flight is not doubled.
EventSweep ==
    /\ loop = None /\ sweep["event"].stage = "idle"
    /\ BeginSweep("event")
    /\ loop' = "event"
    /\ UNCHANGED <<now, file, born, tick, firing, run, runs, outcome, troubles>>

\* The sweep w is done with the copy of row j.
Done(w, j) ==
    /\ sweep' = [sweep EXCEPT ![w].left[j] = NoJob, ![w].stage = "rows",
                              ![w].row = NoJob, ![w].job = None]
    /\ loop' = w
    /\ UNCHANGED <<now, born, tick, firing, run, runs>>

Copy(w, j) == sweep[w].left[j]

\* Sweep w comes to its copy of row j.
AtRow(w, j) == loop = w /\ sweep[w].stage = "rows" /\ Copy(w, j) # NoJob

WithVerdict(row) == [row EXCEPT !.verdict = row.delivery.session]

\* The session of the copy has ended as this.
Ended(w, j, end) == run[Copy(w, j).delivery.session] = end

RecordVerdict(w, j) ==
    /\ AtRow(w, j) /\ LacksVerdict(Copy(w, j)) /\ Ended(w, j, "completed")
    /\ Upsert(j, WithVerdict(Copy(w, j)))
    /\ Done(w, j)
    /\ UNCHANGED <<outcome, troubles>>

\* A delivery that failed is tried again until it has failed MaxFailures times.
FailedDelivery(row, retryable) ==
    LET tried == [row EXCEPT !.delivery.attempts = IF retryable THEN @ + 1 ELSE @,
                             !.delivery.at = now]
    IN [tried EXCEPT !.delivery.status =
           IF retryable /\ tried.delivery.attempts < MaxFailures THEN "pending" ELSE "failed"]

\* The messages of the session cannot be read.
ReadRaises(w, j) ==
    /\ AtRow(w, j) /\ ~LacksVerdict(Copy(w, j))
    /\ troubles < MaxTroubles
    /\ troubles' = troubles + 1
    /\ Upsert(j, FailedDelivery(Copy(w, j), TRUE))
    /\ repeats' = IF file[j] = Copy(w, j) /\ Copy(w, j).delivery.status = "pending"
                  THEN repeats ELSE repeats \cup {Copy(w, j).delivery.session}
    /\ Done(w, j)
    /\ UNCHANGED <<delivered, dropped>>

\* A session that failed or was cancelled has no briefing.
NoBriefing(w, j) ==
    /\ AtRow(w, j) /\ ~LacksVerdict(Copy(w, j)) /\ Ended(w, j, "failed")
    /\ Upsert(j, FailedDelivery(Copy(w, j), FALSE))
    /\ Done(w, j)
    /\ UNCHANGED <<outcome, troubles>>

\* Fault: the row is claimed as it was when the sweep loaded it.
StillOwedUnread(w, j) == file[j] # NoJob

\* Read again: the row is of the same session, and still a sweep's to take.
StillOwed(w, j) ==
    /\ file[j] # NoJob
    /\ file[j].delivery.session = Copy(w, j).delivery.session
    /\ IsEligible(file[j], sweep[w].since)

\* Fault: the row is marked as sent when its send begins.
ClaimedAsSent(w, j) ==
    [file[j] EXCEPT !.delivery.status = "sent", !.delivery.at = sweep[w].since]

Claimed(w, j) ==
    [file[j] EXCEPT !.delivery.status = "sending", !.delivery.at = sweep[w].since]

\* The row is claimed before the send, which is awaited.
Claim(w, j) ==
    /\ AtRow(w, j) /\ ~LacksVerdict(Copy(w, j)) /\ Ended(w, j, "completed")
    /\ StillOwed(w, j)
    /\ Upsert(j, Claimed(w, j))
    /\ sweep' = [sweep EXCEPT ![w].stage = "sending", ![w].row = Claimed(w, j),
                              ![w].job = j, ![w].left[j] = NoJob]
    /\ repeats' = IF file[j].delivery.status = "sending"
                  THEN repeats \cup {file[j].delivery.session} ELSE repeats
    /\ loop' = None
    /\ UNCHANGED <<now, born, tick, firing, run, runs, delivered, dropped, troubles>>

\* The session has not ended, or without a reply, or the row is no longer a sweep's.
SkipRow(w, j) ==
    /\ AtRow(w, j)
    /\ IF LacksVerdict(Copy(w, j)) THEN ~Ended(w, j, "completed")
       ELSE /\ ~Ended(w, j, "failed")
            /\ Ended(w, j, "completed") => ~StillOwed(w, j)
    /\ Done(w, j)
    /\ UNCHANGED <<file, outcome, troubles>>

\* The briefings of these sends have reached their channel.
Reached(sends) ==
    [f \in Runs |-> Min({2, delivered[f] +
        Cardinality({w \in sends : sweep[w].row.delivery.session = f})})]

\* What the channel did with a message is not what its send answered.
Misleads ==
    /\ troubles < MaxTroubles
    /\ troubles' = troubles + 1

\* The send returns: the claimed row, as it was claimed, is written as sent. A
\* client that is not ready drops the message and returns as well.
SendReturns(w) ==
    /\ loop = None /\ sweep[w].stage = "sending"
    /\ \/ /\ delivered' = Reached({w})
          /\ UNCHANGED <<dropped, troubles>>
       \/ /\ dropped' = dropped \cup {sweep[w].row.delivery.session}
          /\ Misleads
          /\ UNCHANGED delivered
    /\ Upsert(sweep[w].job, WithVerdict([sweep[w].row EXCEPT !.delivery.status = "sent",
                                                             !.delivery.at = now]))
    /\ Done(w, sweep[w].job)
    /\ UNCHANGED repeats

\* The channel is down, not configured, or refuses the message; or it has taken
\* the message, or the first chunks of it, when the send raises.
SendRaises(w) ==
    /\ loop = None /\ sweep[w].stage = "sending"
    /\ \/ UNCHANGED <<delivered, repeats, troubles>>
       \/ /\ delivered' = Reached({w})
          /\ repeats' = repeats \cup {sweep[w].row.delivery.session}
          /\ Misleads
    /\ Upsert(sweep[w].job, FailedDelivery(sweep[w].row, TRUE))
    /\ Done(w, sweep[w].job)
    /\ UNCHANGED dropped

EndSweep(w) ==
    /\ loop = w /\ sweep[w].stage = "rows"
    /\ \A j \in Jobs : Copy(w, j) = NoJob
    /\ sweep' = [sweep EXCEPT ![w] = Resting]
    /\ tick' = IF w = "tick" THEN Waiting ELSE tick
    /\ loop' = None
    /\ UNCHANGED <<now, file, born, firing, run, runs, outcome, troubles>>

-----------------------------------------------------------------------------
(* Sessions, the clock and the process.                                    *)

\* A session ends with a reply that carries its status, or without any reply:
\* the attempt raised, its task was cancelled, or the session was deleted.
RunEnds(f) ==
    /\ loop = None
    /\ run[f] = "running"
    /\ \E end \in {"completed", "failed", "silent"} : run' = [run EXCEPT ![f] = end]
    /\ UNCHANGED <<now, file, born, executor, loop, runs, outcome, troubles>>

\* Only an await can be long.
Pass ==
    /\ loop = None
    /\ now < MaxTime
    /\ now' = now + 1
    /\ UNCHANGED <<file, born, executor, loop, run, runs, outcome, troubles>>

\* The process dies, the agents of its sessions with it, and the next one turns
\* the rows left running into pending ones. A send in flight may have got through.
Restart ==
    /\ troubles < MaxTroubles
    /\ troubles' = troubles + 1
    /\ tick' = Waiting
    /\ firing' = [job |-> None, row |-> NoJob]
    /\ sweep' = [w \in Sweeps |-> Resting]
    /\ loop' = None
    /\ run' = [f \in Runs |-> IF run[f] = "running" THEN "silent" ELSE run[f]]
    /\ \E through \in SUBSET {w \in Sweeps : sweep[w].stage = "sending"} :
        delivered' = Reached(through)
    /\ file' = [j \in Jobs |-> IF file[j] # NoJob /\ file[j].status = "running"
                                 THEN [file[j] EXCEPT !.status = "pending"] ELSE file[j]]
    /\ UNCHANGED <<now, born, runs, dropped, repeats>>

-----------------------------------------------------------------------------
Ticking ==
    \/ Tick \/ EndTick \/ Dispatched \/ DispatchFails
    \/ \E j \in Jobs : Fire(j)

Sweeping(w) ==
    \/ SendReturns(w) \/ SendRaises(w) \/ EndSweep(w)
    \/ \E j \in Jobs : \/ RecordVerdict(w, j) \/ ReadRaises(w, j) \/ NoBriefing(w, j)
                       \/ Claim(w, j) \/ SkipRow(w, j)

Next ==
    \/ \E j \in Jobs : Delete(j) \/ \E spec \in Specs : Create(j, spec)
    \/ Ticking \/ EventSweep
    \/ \E w \in Sweeps : Sweeping(w)
    \/ \E f \in Runs : RunEnds(f)
    \/ Pass \/ Restart

Spec == Init /\ [][Next]_vars

-----------------------------------------------------------------------------
TypeOK ==
    /\ now \in 0 .. MaxTime
    /\ file \in [Jobs -> Rows \cup {NoJob}]
    /\ born \in 0 .. MaxBorn
    /\ tick \in [stage : {"idle", "firing", "awaiting", "sweeping"}, since : 0 .. MaxTime,
                 left : SUBSET (1 .. MaxBorn)]
    /\ firing \in [job : Jobs \cup {None}, row : Rows \cup {NoJob}]
    /\ sweep \in [Sweeps -> [stage : {"idle", "rows", "sending"}, since : 0 .. MaxTime,
                             left : [Jobs -> Rows \cup {NoJob}], row : Rows \cup {NoJob},
                             job : Jobs \cup {None}]]
    /\ loop \in Sweeps \cup {None}
    /\ run \in [Runs -> {"unsent", "running", "completed", "failed", "silent"}]
    /\ runs \in 0 .. MaxRuns
    /\ delivered \in [Runs -> 0 .. 2]
    /\ dropped \subseteq Runs /\ repeats \subseteq Runs
    /\ troubles \in 0 .. MaxTroubles

\* A briefing reaches its channel twice only if a sweep took its row back while a
\* send of it was a lease old, wrote an old copy of the row back, or had a send of
\* it raise that the channel had taken: two sweeps, a send that fails clean and its
\* retry, or a death amid a send do not send it again by themselves.
SentOnceUnlessRepeated == \A f \in Runs : delivered[f] > 1 => f \in repeats

\* A row says sent only of a session that completed, and of a briefing that reached
\* its channel unless the channel itself dropped it, whatever deaths and late sends
\* did to the row.
SentWasDelivered ==
    \A j \in Jobs :
        file[j] # NoJob /\ file[j].delivery.status = "sent" =>
            /\ delivered[file[j].delivery.session] > 0 \/ file[j].delivery.session \in dropped
            /\ run[file[j].delivery.session] = "completed"

\* A job is not dispatched again while the outbox owes a briefing of it, so that no
\* dispatch takes an owed briefing off its row, but for one that a sweep owed anew.
NotFiredWhileOwed ==
    [][\A j \in Jobs :
        /\ SameRecord(file[j], file'[j])
        /\ file[j].delivery.status \in {"pending", "sending"}
        /\ file[j].delivery.session \notin repeats
        => file'[j].delivery.session <= file[j].delivery.session]_vars
=============================================================================
