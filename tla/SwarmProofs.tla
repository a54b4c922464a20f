------------------------------ MODULE SwarmProofs ------------------------------
(* Proofs about the runs of a swarm, for every task graph, any number of     *)
(* runs, resumes, readers and troubles.                                      *)
EXTENDS SwarmRuntime, TLAPS

-----------------------------------------------------------------------------
(* Types, and what a step leaves alone.                                    *)

Maps == [Tasks -> {"blocked", "in_progress"} \cup Over]
Stages == {"none", "begin", "overlay", "layer", "work", "sync", "finish", "over", "dead"}
Threads == [stage : Stages, done : SUBSET Tasks, out : SUBSET Tasks, won : SUBSET Tasks,
            lost : SUBSET Tasks, ok : BOOLEAN, cancel : BOOLEAN, seen : Maps]
Readings == [stage : {"rest", "loaded", "judged", "saved", "answer"}, of : Runs \cup {Nobody},
             tasks : Maps, verdict : {"running"} \cup Over]

\* A reader that is not at rest has a run, and a resume has a source.
Placed ==
    /\ \A p \in Readers : reader[p].stage # "rest" => reader[p].of \in Runs
    /\ \A r \in Runs : At(r, "overlay") => source[r] \in Runs

Typed == TypeOK /\ Placed

\* The other runs are as they were.
Others(r) ==
    \A q \in Runs \ {r} : /\ run'[q] = run[q] /\ task'[q] = task[q] /\ origin'[q] = origin[q]
                          /\ thread'[q] = thread[q]

\* No task changes, and no result is made.
SameResults == UNCHANGED <<task, origin>>

\* The workers of run r, ended or not.
Busy(r) == thread[r].out \cup thread[r].won \cup thread[r].lost

\* The thread of a run is a thread.
LEMMA ThreadTyped ==
    ASSUME TypeOK
    PROVE  thread \in [Runs -> Threads] /\ \A r \in Runs : thread[r] \in Threads
  BY DEF TypeOK, Threads, Maps, Stages

\* A thread that changes.
LEMMA ThreadChange ==
    ASSUME TypeOK, NEW r \in Runs, NEW new \in Threads, thread' = [thread EXCEPT ![r] = new]
    PROVE  /\ thread' \in [Runs -> Threads] /\ thread'[r] = new
           /\ \A q \in Runs \ {r} : thread'[q] = thread[q]
  BY ThreadTyped

\* A thread that goes to another stage, and no further.
LEMMA StageChange ==
    ASSUME TypeOK, NEW r \in Runs, NEW st \in Stages,
           thread' = [thread EXCEPT ![r].stage = st]
    PROVE  /\ thread' \in [Runs -> Threads] /\ thread'[r] = [thread[r] EXCEPT !.stage = st]
           /\ \A q \in Runs \ {r} : thread'[q] = thread[q]
<1> DEFINE old == thread[r]
           new == [old EXCEPT !.stage = st]
<1>1. old \in Threads
  BY ThreadTyped
<1>2. new \in Threads
  <2> HIDE DEF old
  <2> QED BY <1>1 DEF Threads
<1>3. thread' = [thread EXCEPT ![r] = new]
  OBVIOUS
<1> HIDE DEF new
<1> QED BY <1>2, <1>3, ThreadChange DEF new

\* A thread and a reader at rest.
LEMMA RestTyped ==
    /\ Fresh \in Maps /\ NoThread \in Threads /\ Dead \in Threads /\ AtRest \in Readings
    /\ Dead.stage = "dead" /\ NoThread.stage = "none" /\ AtRest.stage = "rest"
    /\ [NoThread EXCEPT !.stage = "over"] \in Threads
    /\ [NoThread EXCEPT !.stage = "over"].stage = "over"
    /\ NoThread.done = {} /\ NoThread.out = {} /\ NoThread.won = {} /\ NoThread.lost = {}
    /\ NoThread.ok /\ \A t \in Tasks : Fresh[t] = "blocked"
  BY DEF Fresh, NoThread, Dead, AtRest, Maps, Threads, Stages, Readings

-----------------------------------------------------------------------------
(* What each step does to its run.                                         *)

\* The start of a run.
LEMMA CreateStep ==
    ASSUME Typed, NEW r \in Runs, NEW from \in Runs \cup {Nobody}, Create(r, from)
    PROVE  /\ run' \in [Runs -> {"none", "pending", "running"} \cup Over]
           /\ source' \in [Runs -> Runs \cup {Nobody}] /\ thread' \in [Runs -> Threads]
           /\ UNCHANGED <<task, quiet, origin, lapses>>
           /\ \A q \in Runs \ {r} : source'[q] = source[q]
           /\ Others(r)
           /\ run[r] = "none" /\ run'[r] = "pending"
           /\ thread'[r] = [thread[r] EXCEPT !.stage = "begin"]
<1>1. thread' = [thread EXCEPT ![r].stage = "begin"]
  BY DEF Create
<1>2. /\ thread' \in [Runs -> Threads] /\ thread'[r] = [thread[r] EXCEPT !.stage = "begin"]
      /\ \A q \in Runs \ {r} : thread'[q] = thread[q]
  BY <1>1, StageChange DEF Typed, Stages
<1>3. /\ run' \in [Runs -> {"none", "pending", "running"} \cup Over] /\ run'[r] = "pending"
      /\ \A q \in Runs \ {r} : run'[q] = run[q]
      /\ run[r] = "none"
  BY DEF Create, Typed, TypeOK
<1>4. /\ source' \in [Runs -> Runs \cup {Nobody}]
      /\ \A q \in Runs \ {r} : source'[q] = source[q]
      /\ UNCHANGED <<task, quiet, origin, lapses>>
  BY DEF Create, Typed, TypeOK
<1> QED BY <1>2, <1>3, <1>4 DEF Others

\* A step of a thread keeps the types if its files and its thread do.
LEMMA StillTyped ==
    ASSUME Typed, UNCHANGED <<source, reader>>,
           run' \in [Runs -> {"none", "pending", "running"} \cup Over],
           task' \in [Runs -> Maps], thread' \in [Runs -> Threads],
           quiet' \in [Runs -> BOOLEAN], origin' \in [Runs -> [Tasks -> 0 .. MaxRuns]],
           lapses' \subseteq {"sleep", "unread"}, troubles' \in 0 .. MaxTroubles,
           \A r \in Runs : thread'[r].stage = "overlay" => source[r] \in Runs
    PROVE  Typed'
<1>1. TypeOK'
  BY DEF Typed, TypeOK, Maps, Threads, Stages
<1>2. Placed'
  BY DEF Typed, Placed, At
<1> QED BY <1>1, <1>2 DEF Typed

\* An event is emitted, or none is.
LEMMA EmitTyped ==
    ASSUME Typed, NEW r \in Runs, Emit(r)
    PROVE  quiet' \in [Runs -> BOOLEAN] /\ \A q \in Runs : quiet'[q] => quiet[q]
  BY DEF Typed, TypeOK, Emit

\* A trouble is counted.
LEMMA SufferTyped ==
    ASSUME Typed, Suffer
    PROVE  troubles' \in 0 .. MaxTroubles
  BY SwarmAssumption DEF Typed, TypeOK, Suffer

\* What the steps of a thread have in common: the other runs are as they were, and no
\* log falls silent.
Alone(r) ==
    /\ Typed' /\ Others(r)
    /\ \A q \in Runs : quiet'[q] => quiet[q]

\* The thread goes to another stage with the work it has.
Goes(r, st) == thread'[r] = [thread[r] EXCEPT !.stage = st]

\* The body of a run begins.
LEMMA BeginStep ==
    ASSUME Typed, NEW r \in Runs, Begin(r)
    PROVE  /\ Alone(r) /\ At(r, "begin") /\ (Goes(r, "layer") \/ Goes(r, "overlay"))
           /\ run'[r] = "running" /\ SameResults /\ lapses' = lapses
<1> DEFINE st == IF source[r] = Nobody THEN "layer" ELSE "overlay"
<1>1. /\ At(r, "begin") /\ run' = [run EXCEPT ![r] = "running"] /\ Emit(r)
      /\ thread' = [thread EXCEPT ![r].stage = st]
      /\ UNCHANGED <<task, source, reader, origin, lapses, troubles>>
  BY DEF Begin
<1>2. st \in {"layer", "overlay"} /\ (st = "overlay" => source[r] \in Runs)
  BY DEF Typed, TypeOK
<1> HIDE DEF st
<1>3. /\ thread' \in [Runs -> Threads] /\ Goes(r, st)
      /\ \A q \in Runs \ {r} : thread'[q] = thread[q]
  BY <1>1, <1>2, StageChange DEF Typed, Stages, Goes
<1>4. thread'[r].stage = st
  BY <1>3, ThreadTyped DEF Goes, Typed, Threads
<1>5. run' \in [Runs -> {"none", "pending", "running"} \cup Over] /\ run'[r] = "running"
      /\ \A q \in Runs \ {r} : run'[q] = run[q]
  BY <1>1 DEF Typed, TypeOK
<1>6. Typed'
  <2>1. \A q \in Runs : thread'[q].stage = "overlay" => source[q] \in Runs
    BY <1>2, <1>3, <1>4 DEF Typed, Placed, At
  <2> QED BY <1>1, <1>3, <1>5, <2>1, EmitTyped, StillTyped DEF Typed, TypeOK, Maps
<1> QED BY <1>1, <1>2, <1>3, <1>5, <1>6, EmitTyped DEF Alone, Others, SameResults

\* A cancel is a flag of the thread.
LEMMA CancelStep ==
    ASSUME Typed, NEW r \in Runs, Cancel(r)
    PROVE  /\ Alone(r) /\ thread[r].stage \notin {"none", "over", "dead"}
           /\ thread'[r] = [thread[r] EXCEPT !.cancel = TRUE]
           /\ run' = run /\ SameResults /\ lapses' = lapses
<1> DEFINE new == [thread[r] EXCEPT !.cancel = TRUE]
<1>1. /\ thread[r].stage \notin {"none", "over", "dead"}
      /\ thread' = [thread EXCEPT ![r] = new]
      /\ UNCHANGED <<run, task, quiet, source, reader, origin, lapses, troubles>>
  BY DEF Cancel, files
<1>2. new \in Threads /\ new.stage = thread[r].stage
  BY ThreadTyped DEF Threads, Typed
<1> HIDE DEF new
<1>3. /\ thread' \in [Runs -> Threads] /\ thread'[r] = new
      /\ \A q \in Runs \ {r} : thread'[q] = thread[q]
  BY <1>1, <1>2, ThreadChange DEF Typed
<1>4. Typed'
  <2>1. \A q \in Runs : thread'[q].stage = "overlay" => source[q] \in Runs
    BY <1>2, <1>3 DEF Typed, Placed, At
  <2> QED BY <1>1, <1>3, <2>1, StillTyped DEF Typed, TypeOK, Maps
<1> QED BY <1>1, <1>3, <1>4 DEF Alone, Others, SameResults, new

\* What is kept was there, with all it stands on.
LEMMA KeptClosed ==
    ASSUME Deps \in [Tasks -> SUBSET Tasks], NEW able \in SUBSET Tasks
    PROVE  Kept(able) \subseteq able /\ \A t \in Kept(able) : Deps[t] \subseteq Kept(able)
  BY DEF Kept

\* The results of the source that stand, kept by the run that resumes it.
Keeps(r, prev, kept) ==
    /\ \A t \in kept : task[prev][t] = "completed" /\ Deps[t] \subseteq kept
    /\ \A t \in Tasks : task'[r][t] = IF t \in kept THEN "completed" ELSE task[r][t]
    /\ \A t \in Tasks : origin'[r][t] = IF t \in kept THEN origin[prev][t] ELSE 0

\* A resumed run takes over what stands of its source.
LEMMA OverlayStep ==
    ASSUME Typed, NEW r \in Runs, Overlay(r)
    PROVE  /\ Alone(r) /\ At(r, "overlay")
           /\ \E prev \in Runs, kept \in SUBSET Tasks : Keeps(r, prev, kept)
           /\ thread'[r] = [thread[r] EXCEPT !.stage = "layer", !.seen = task'[r]]
           /\ run' = run /\ lapses' = lapses
<1>1. /\ At(r, "overlay") /\ Emit(r)
      /\ thread' = [thread EXCEPT ![r].stage = "layer", ![r].seen = task'[r]]
      /\ UNCHANGED <<run, source, reader, lapses, troubles>>
  BY DEF Overlay
<1>2. PICK prev \in Runs : prev = source[r]
  BY <1>1 DEF Typed, Placed
<1>3. PICK changed \in Changes :
         LET kept == Kept({t \in Tasks \ changed : task[source[r]][t] = "completed"}) IN
         /\ task' = [task EXCEPT ![r] = [t \in Tasks |-> IF t \in kept THEN "completed" ELSE @[t]]]
         /\ origin' = [origin EXCEPT ![r] = [t \in Tasks |-> IF t \in kept THEN origin[source[r]][t] ELSE 0]]
  BY DEF Overlay
<1> DEFINE able == {t \in Tasks \ changed : task[prev][t] = "completed"}
<1>4. PICK kept \in SUBSET Tasks : /\ kept = Kept(able)
                                   /\ kept \subseteq able /\ \A t \in kept : Deps[t] \subseteq kept
  <2>1. able \in SUBSET Tasks
    OBVIOUS
  <2> HIDE DEF able
  <2> QED BY <2>1, KeptClosed, SwarmAssumption
<1>5. \A t \in kept : task[prev][t] = "completed"
  BY <1>4
<1> DEFINE map == [t \in Tasks |-> IF t \in kept THEN "completed" ELSE task[r][t]]
           from == [t \in Tasks |-> IF t \in kept THEN origin[prev][t] ELSE 0]
<1>6. map \in Maps
  BY DEF Typed, TypeOK, Maps, Over
<1>7. from \in [Tasks -> 0 .. MaxRuns]
  BY SwarmAssumption DEF Typed, TypeOK
<1>8. task' = [task EXCEPT ![r] = map] /\ origin' = [origin EXCEPT ![r] = from]
  <2>1. kept = Kept({t \in Tasks \ changed : task[source[r]][t] = "completed"})
    BY <1>2, <1>4
  <2> QED BY <1>2, <1>3, <2>1
<1>9. Keeps(r, prev, kept)
  <2>1. task'[r] = map /\ origin'[r] = from
    BY <1>8 DEF Typed, TypeOK
  <2> QED BY <1>4, <1>5, <2>1 DEF Keeps
<1> HIDE DEF map, from, able
<1>10. /\ task' \in [Runs -> Maps] /\ task'[r] = map /\ \A q \in Runs \ {r} : task'[q] = task[q]
       /\ origin' \in [Runs -> [Tasks -> 0 .. MaxRuns]]
       /\ \A q \in Runs \ {r} : origin'[q] = origin[q]
  BY <1>6, <1>7, <1>8 DEF Typed, TypeOK, Maps
<1> DEFINE new == [thread[r] EXCEPT !.stage = "layer", !.seen = map]
<1>11. new \in Threads /\ new.stage = "layer"
  BY <1>6, ThreadTyped DEF Typed, Threads, Stages
<1>12. thread' = [thread EXCEPT ![r] = new]
  BY <1>1, <1>10
<1> HIDE DEF new
<1>13. /\ thread' \in [Runs -> Threads] /\ thread'[r] = new
       /\ \A q \in Runs \ {r} : thread'[q] = thread[q]
  BY <1>11, <1>12, ThreadChange DEF Typed
<1>14. Typed'
  <2>1. \A q \in Runs : thread'[q].stage = "overlay" => source[q] \in Runs
    BY <1>11, <1>13 DEF Typed, Placed, At
  <2> QED BY <1>1, <1>10, <1>13, <2>1, EmitTyped, StillTyped DEF Typed, TypeOK
<1>15. Others(r)
  BY <1>1, <1>10, <1>13 DEF Others
<1> QED BY <1>1, <1>9, <1>10, <1>13, <1>14, <1>15, EmitTyped DEF Alone, new

\* The tasks of run r are as this map says.
TasksBecome(r, map) ==
    /\ task' \in [Runs -> Maps] /\ task'[r] = map
    /\ \A q \in Runs \ {r} : task'[q] = task[q]

\* A map of the tasks that is written.
LEMMA TasksWritten ==
    ASSUME Typed, NEW r \in Runs, NEW map \in Maps, task' = [task EXCEPT ![r] = map]
    PROVE  TasksBecome(r, map)
  BY DEF Typed, TypeOK, Maps, TasksBecome

\* A thread that becomes another one.
Becomes(r, new) ==
    /\ thread' \in [Runs -> Threads] /\ thread'[r] = new
    /\ \A q \in Runs \ {r} : thread'[q] = thread[q]

\* A thread that does not go on to an overlay keeps its place.
LEMMA StillPlaced ==
    ASSUME Typed, NEW r \in Runs, NEW new \in Threads, Becomes(r, new), new.stage # "overlay"
    PROVE  \A q \in Runs : thread'[q].stage = "overlay" => source[q] \in Runs
  BY DEF Typed, Placed, At, Becomes

\* A layer begins with a worker for each task that is ready.
LEMMA BeginLayerStep ==
    ASSUME Typed, NEW r \in Runs, BeginLayer(r)
    PROVE  /\ Alone(r) /\ At(r, "layer")
           /\ \A t \in Tasks : task'[r][t] =
                  IF t \in Ready(r) THEN "in_progress"
                  ELSE IF t \in Layer(r) /\ task[r][t] # "completed" THEN "blocked" ELSE task[r][t]
           /\ thread'[r] = [thread[r] EXCEPT !.stage = "work", !.out = Ready(r)]
           /\ Ready(r) \subseteq Tasks
           /\ run' = run /\ origin' = origin /\ lapses' = lapses
<1> DEFINE map == [t \in Tasks |->
                      IF t \in Ready(r) THEN "in_progress"
                      ELSE IF t \in Layer(r) /\ task[r][t] # "completed" THEN "blocked"
                      ELSE task[r][t]]
           new == [thread[r] EXCEPT !.stage = "work", !.out = Ready(r)]
<1>1. /\ At(r, "layer") /\ Emit(r)
      /\ task' = [task EXCEPT ![r] = map] /\ thread' = [thread EXCEPT ![r] = new]
      /\ UNCHANGED <<run, source, reader, origin, lapses, troubles>>
  BY DEF BeginLayer
<1>2. Ready(r) \in SUBSET Tasks
  BY DEF Ready, Layer
<1>3. map \in Maps
  BY DEF Typed, TypeOK, Maps
<1>4. new \in Threads /\ new.stage = "work"
  <2> HIDE DEF map
  <2> QED BY <1>2, ThreadTyped DEF Typed, Threads, Stages
<1>5. \A t \in Tasks : map[t] =
          IF t \in Ready(r) THEN "in_progress"
          ELSE IF t \in Layer(r) /\ task[r][t] # "completed" THEN "blocked" ELSE task[r][t]
  OBVIOUS
<1> HIDE DEF map, new
<1>6. TasksBecome(r, map) /\ Becomes(r, new)
  BY <1>1, <1>3, <1>4, TasksWritten, ThreadChange DEF Typed, Becomes
<1>7. Typed'
  BY <1>1, <1>4, <1>6, EmitTyped, StillPlaced, StillTyped
     DEF Typed, TypeOK, TasksBecome, Becomes
<1>8. Others(r)
  BY <1>1, <1>6 DEF Others, TasksBecome, Becomes
<1> QED BY <1>1, <1>2, <1>5, <1>6, <1>7, <1>8, EmitTyped DEF Alone, TasksBecome, Becomes, new

\* A thread that sees a cancel cancels some of what it saw neither completed nor failed.
LEMMA CancelLayerStep ==
    ASSUME Typed, NEW r \in Runs, CancelLayer(r)
    PROVE  /\ Alone(r) /\ At(r, "layer")
           /\ \A t \in Tasks : \/ task'[r][t] = task[r][t]
                               \/ task'[r][t] = "cancelled" /\ t \in Cancelled(r)
           /\ thread'[r] = [thread[r] EXCEPT !.stage = "finish", !.ok = FALSE]
           /\ run' = run /\ origin' = origin /\ lapses' = lapses
<1> DEFINE new == [thread[r] EXCEPT !.stage = "finish", !.ok = FALSE]
<1>1. PICK put \in SUBSET Cancelled(r) :
          /\ task' = [task EXCEPT ![r] =
                         [t \in Tasks |-> IF t \in put THEN "cancelled" ELSE task[r][t]]]
          /\ IF put = Cancelled(r) THEN UNCHANGED troubles ELSE Suffer
  BY DEF CancelLayer
<1> DEFINE map == [t \in Tasks |-> IF t \in put THEN "cancelled" ELSE task[r][t]]
<1>2. /\ At(r, "layer") /\ thread' = [thread EXCEPT ![r] = new]
      /\ UNCHANGED <<run, quiet, source, reader, origin, lapses>>
  BY DEF CancelLayer
<1>3. troubles' \in 0 .. MaxTroubles
  BY <1>1, SufferTyped DEF Typed, TypeOK
<1>4. map \in Maps
  BY DEF Typed, TypeOK, Maps, Over
<1>5. new \in Threads /\ new.stage = "finish"
  <2> HIDE DEF map
  <2> QED BY ThreadTyped DEF Typed, Threads, Stages
<1>6. \A t \in Tasks : \/ map[t] = task[r][t]
                       \/ map[t] = "cancelled" /\ t \in Cancelled(r)
  <2>1. \A t \in put : t \in Cancelled(r)
    BY <1>1
  <2> QED BY <2>1
<1> HIDE DEF map, new
<1>7. TasksBecome(r, map) /\ Becomes(r, new)
  <2>1. task' = [task EXCEPT ![r] = map]
    BY <1>1 DEF map
  <2> QED BY <1>2, <1>4, <1>5, <2>1, TasksWritten, ThreadChange DEF Typed, Becomes
<1>8. Typed'
  BY <1>2, <1>3, <1>5, <1>7, StillPlaced, StillTyped DEF Typed, TypeOK, TasksBecome, Becomes
<1>9. Others(r)
  BY <1>2, <1>7 DEF Others, TasksBecome, Becomes
<1> QED BY <1>2, <1>6, <1>7, <1>8, <1>9 DEF Alone, TasksBecome, Becomes, new

\* A worker that ends is one of the busy ones still.
LEMMA WorkerEndsStep ==
    ASSUME Typed, NEW r \in Runs, NEW t \in Tasks, WorkerEnds(r, t)
    PROVE  /\ Alone(r) /\ At(r, "work") /\ thread'[r].stage = "work"
           /\ thread'[r].done = thread[r].done /\ thread'[r].ok = thread[r].ok
           /\ thread'[r].out \cup thread'[r].won \cup thread'[r].lost = Busy(r)
           /\ run' = run /\ SameResults /\ lapses' = lapses
<1>1. /\ At(r, "work") /\ t \in thread[r].out /\ Emit(r)
      /\ UNCHANGED <<run, task, source, reader, origin, lapses, troubles>>
  BY DEF WorkerEnds
<1>2. PICK new \in Threads :
         /\ thread' = [thread EXCEPT ![r] = new]
         /\ new.stage = "work" /\ new.done = thread[r].done /\ new.ok = thread[r].ok
         /\ new.out \cup new.won \cup new.lost = Busy(r)
  <2>1. thread[r] \in Threads
    BY ThreadTyped DEF Typed
  <2> DEFINE wins == [thread[r] EXCEPT !.out = @ \ {t}, !.won = @ \cup {t}]
             loses == [thread[r] EXCEPT !.out = @ \ {t}, !.lost = @ \cup {t}]
  <2>2. /\ wins \in Threads /\ wins.stage = thread[r].stage
        /\ wins.done = thread[r].done /\ wins.ok = thread[r].ok
        /\ wins.out = thread[r].out \ {t} /\ wins.won = thread[r].won \cup {t}
        /\ wins.lost = thread[r].lost
    BY <2>1 DEF Threads
  <2>3. /\ loses \in Threads /\ loses.stage = thread[r].stage
        /\ loses.done = thread[r].done /\ loses.ok = thread[r].ok
        /\ loses.out = thread[r].out \ {t} /\ loses.won = thread[r].won
        /\ loses.lost = thread[r].lost \cup {t}
    BY <2>1 DEF Threads
  <2>4. thread' = [thread EXCEPT ![r] = wins] \/ thread' = [thread EXCEPT ![r] = loses]
    BY DEF WorkerEnds
  <2> HIDE DEF wins, loses
  <2> QED BY <1>1, <2>2, <2>3, <2>4 DEF Busy, At
<1>3. Becomes(r, new)
  BY <1>2, ThreadChange DEF Typed, Becomes
<1>4. Typed'
  BY <1>1, <1>2, <1>3, EmitTyped, StillPlaced, StillTyped DEF Typed, TypeOK, Becomes, Maps
<1> QED BY <1>1, <1>2, <1>3, <1>4, EmitTyped DEF Alone, Others, SameResults, Becomes

\* The results of some workers that have ended.
Writes(r, some) ==
    /\ \A t \in Tasks : task'[r][t] =
          IF t \notin some THEN task[r][t]
          ELSE IF t \in thread[r].won THEN "completed" ELSE "failed"
    /\ \A t \in Tasks : origin'[r][t] = IF t \in some /\ t \in thread[r].won THEN r ELSE origin[r][t]

\* Results are written to the files of the run.
LEMMA WriteStep ==
    ASSUME Typed, NEW r \in Runs, NEW some, Write(r, some)
    PROVE  /\ Writes(r, some)
           /\ task' \in [Runs -> Maps] /\ origin' \in [Runs -> [Tasks -> 0 .. MaxRuns]]
           /\ \A q \in Runs \ {r} : task'[q] = task[q] /\ origin'[q] = origin[q]
<1> DEFINE map == [t \in Tasks |-> IF t \notin some THEN task[r][t]
                      ELSE IF t \in thread[r].won THEN "completed" ELSE "failed"]
           from == [t \in Tasks |-> IF t \in some \cap thread[r].won THEN r ELSE origin[r][t]]
<1>1. task' = [task EXCEPT ![r] = map] /\ origin' = [origin EXCEPT ![r] = from]
  BY DEF Write
<1>2. map \in Maps
  BY DEF Typed, TypeOK, Maps, Over
<1>3. from \in [Tasks -> 0 .. MaxRuns]
  BY SwarmAssumption DEF Typed, TypeOK, Runs
<1>4. Writes(r, some)
  <2>1. task'[r] = map /\ origin'[r] = from
    BY <1>1 DEF Typed, TypeOK
  <2> QED BY <2>1 DEF Writes
<1> HIDE DEF map, from
<1>5. TasksBecome(r, map)
  BY <1>1, <1>2, TasksWritten
<1>6. /\ origin' \in [Runs -> [Tasks -> 0 .. MaxRuns]]
      /\ \A q \in Runs \ {r} : origin'[q] = origin[q]
  BY <1>1, <1>3 DEF Typed, TypeOK
<1> QED BY <1>4, <1>5, <1>6 DEF TasksBecome

\* A layer ends when its workers have, and their results are written.
LEMMA EndLayerStep ==
    ASSUME Typed, NEW r \in Runs, EndLayer(r)
    PROVE  /\ Alone(r) /\ At(r, "work") /\ thread[r].out = {} /\ Writes(r, Ended(r))
           /\ thread'[r].stage = "sync" /\ thread'[r].done = thread[r].done \cup Layer(r)
           /\ thread'[r].ok => thread[r].ok /\ Succeeded(r)
           /\ thread'[r].out \cup thread'[r].won \cup thread'[r].lost = {}
           /\ run' = run /\ lapses' = lapses
<1> DEFINE new == [thread[r] EXCEPT !.stage = "sync", !.ok = @ /\ Succeeded(r),
                                    !.done = @ \cup Layer(r), !.won = {}, !.lost = {}]
<1>1. /\ At(r, "work") /\ thread[r].out = {} /\ Write(r, Ended(r))
      /\ thread' = [thread EXCEPT ![r] = new]
      /\ quiet' = [quiet EXCEPT ![r] = @ /\ Ended(r) = {}]
      /\ UNCHANGED <<run, source, reader, lapses, troubles>>
  BY DEF EndLayer
<1>2. /\ new \in Threads /\ new.stage = "sync" /\ new.done = thread[r].done \cup Layer(r)
      /\ new.ok => thread[r].ok /\ Succeeded(r)
      /\ new.out = thread[r].out /\ new.won = {} /\ new.lost = {}
  <2>1. thread[r] \in Threads
    BY ThreadTyped DEF Typed
  <2>2. Layer(r) \subseteq Tasks
    BY DEF Layer
  <2>3. (thread[r].ok /\ Succeeded(r)) \in BOOLEAN
    BY <2>1 DEF Threads
  <2> QED BY <2>1, <2>2, <2>3 DEF Threads, Stages
<1> HIDE DEF new
<1>3. Becomes(r, new)
  BY <1>1, <1>2, ThreadChange DEF Typed, Becomes
<1>4. quiet' \in [Runs -> BOOLEAN] /\ \A q \in Runs : quiet'[q] => quiet[q]
  BY <1>1 DEF Typed, TypeOK
<1>5. Typed'
  BY <1>1, <1>2, <1>3, <1>4, WriteStep, StillPlaced, StillTyped DEF Typed, TypeOK, Becomes
<1>6. Others(r)
  BY <1>1, <1>3, WriteStep DEF Others, Becomes
<1> QED BY <1>1, <1>2, <1>3, <1>4, <1>5, <1>6, WriteStep DEF Alone, Becomes

\* The statuses are read again, or the reading fails and a lapse is noted.
LEMMA SyncStep ==
    ASSUME Typed, NEW r \in Runs, Sync(r) \/ SyncFails(r)
    PROVE  /\ Alone(r) /\ At(r, "sync") /\ SameResults
           /\ run'[r] \in {run[r], "running"} /\ lapses \subseteq lapses'
           /\ \/ thread'[r] = [thread[r] EXCEPT !.stage = "layer", !.seen = task[r]]
              \/ Goes(r, "layer") /\ lapses' # {}
<1> DEFINE read == [thread[r] EXCEPT !.stage = "layer", !.seen = task[r]]
           unread == [thread[r] EXCEPT !.stage = "layer"]
<1>1. /\ At(r, "sync") /\ UNCHANGED <<task, quiet, source, reader, origin>>
      /\ run' \in [Runs -> {"none", "pending", "running"} \cup Over]
      /\ run'[r] \in {run[r], "running"} /\ \A q \in Runs \ {r} : run'[q] = run[q]
      /\ troubles' \in 0 .. MaxTroubles
      /\ lapses \subseteq lapses' /\ lapses' \subseteq {"sleep", "unread"}
  <2>1. CASE Sync(r)
    BY <2>1 DEF Sync, Typed, TypeOK
  <2>2. CASE SyncFails(r)
    BY <2>2, SufferTyped DEF SyncFails, files, Typed, TypeOK
  <2> QED BY <2>1, <2>2
<1>2. \/ thread' = [thread EXCEPT ![r] = read]
      \/ thread' = [thread EXCEPT ![r] = unread] /\ lapses' # {}
  BY DEF Sync, SyncFails
<1>3. thread[r] \in Threads /\ task[r] \in Maps
  BY ThreadTyped DEF Typed, TypeOK, Maps
<1>4. read \in Threads /\ read.stage = "layer" /\ unread \in Threads /\ unread.stage = "layer"
  BY <1>3 DEF Threads, Stages
<1> HIDE DEF read, unread
<1>5. PICK new \in {read, unread} : Becomes(r, new) /\ (new = read \/ lapses' # {})
  BY <1>2, <1>4, ThreadChange DEF Typed, Becomes
<1>6. Typed'
  BY <1>1, <1>4, <1>5, StillPlaced, StillTyped DEF Typed, TypeOK, Becomes, Maps
<1> QED BY <1>1, <1>5, <1>6 DEF Alone, Others, SameResults, Becomes, Goes, read, unread

\* A run that ends is completed only if every layer was.
LEMMA FinishStep ==
    ASSUME Typed, NEW r \in Runs, Finish(r)
    PROVE  /\ Alone(r) /\ Finishing(r) /\ thread'[r].stage = "over"
           /\ run'[r] \in Over /\ (run'[r] = "completed" => thread[r].ok)
           /\ SameResults /\ lapses' = lapses
<1> DEFINE new == [NoThread EXCEPT !.stage = "over"]
<1>1. /\ Finishing(r) /\ run' = [run EXCEPT ![r] = Verdict(r)] /\ Emit(r)
      /\ thread' = [thread EXCEPT ![r] = new]
      /\ UNCHANGED <<task, source, reader, origin, lapses, troubles>>
  BY DEF Finish
<1>2. new \in Threads /\ new.stage = "over"
  BY RestTyped
<1> HIDE DEF new
<1>3. Becomes(r, new)
  BY <1>1, <1>2, ThreadChange DEF Typed, Becomes
<1>4. Verdict(r) \in Over /\ (Verdict(r) = "completed" => thread[r].ok)
  BY DEF Verdict, Over
<1>5. /\ run' \in [Runs -> {"none", "pending", "running"} \cup Over]
      /\ run'[r] = Verdict(r) /\ \A q \in Runs \ {r} : run'[q] = run[q]
  BY <1>1, <1>4 DEF Typed, TypeOK
<1>6. Typed'
  BY <1>1, <1>2, <1>3, <1>5, EmitTyped, StillPlaced, StillTyped
     DEF Typed, TypeOK, Becomes, Maps
<1> QED BY <1>1, <1>2, <1>3, <1>4, <1>5, <1>6, EmitTyped
        DEF Alone, Others, SameResults, Becomes

\* An exception in the body writes at most what has ended.
LEMMA BodyRaisesStep ==
    ASSUME Typed, NEW r \in Runs, BodyRaises(r)
    PROVE  /\ Alone(r) /\ thread[r].stage \in {"overlay", "layer", "work"}
           /\ \E some \in SUBSET Ended(r) : Writes(r, some)
           /\ thread'[r] = [thread[r] EXCEPT !.stage = "finish", !.ok = FALSE]
           /\ thread'[r].stage = "finish"
           /\ run' = run /\ lapses' = lapses
<1> DEFINE new == [thread[r] EXCEPT !.stage = "finish", !.ok = FALSE]
<1>1. /\ thread[r].stage \in {"overlay", "layer", "work"} /\ Suffer /\ Emit(r)
      /\ \E some \in SUBSET Ended(r) : Write(r, some)
      /\ thread' = [thread EXCEPT ![r] = new]
      /\ UNCHANGED <<run, source, reader, lapses>>
  BY DEF BodyRaises, At
<1>2. new \in Threads /\ new.stage = "finish"
  BY ThreadTyped DEF Typed, Threads, Stages
<1>3. PICK some \in SUBSET Ended(r) : Write(r, some)
  BY <1>1
<1> HIDE DEF new
<1>4. Becomes(r, new)
  BY <1>1, <1>2, ThreadChange DEF Typed, Becomes
<1>5. Typed'
  BY <1>1, <1>2, <1>3, <1>4, WriteStep, SufferTyped, EmitTyped, StillPlaced, StillTyped
     DEF Typed, TypeOK, Becomes
<1>6. Others(r)
  BY <1>1, <1>3, <1>4, WriteStep DEF Others, Becomes
<1> QED BY <1>1, <1>2, <1>3, <1>4, <1>5, <1>6, WriteStep, EmitTyped DEF Alone, Becomes, new

\* A thread that dies leaves the files as they are, run.json perhaps as running.
LEMMA ThreadDiesStep ==
    ASSUME Typed, NEW r \in Runs, ThreadDies(r)
    PROVE  /\ Alone(r) /\ thread[r].stage \in {"begin", "layer", "finish"}
           /\ thread'[r].stage = "dead"
           /\ run'[r] \in {run[r], "running"} /\ SameResults /\ lapses' = lapses
<1>1. /\ thread[r].stage \in {"begin", "layer", "finish"} /\ Suffer
      /\ thread' = [thread EXCEPT ![r] = Dead]
      /\ UNCHANGED <<task, quiet, source, reader, origin, lapses>>
  BY DEF ThreadDies, Finishing, At
<1>2. Becomes(r, Dead) /\ Dead.stage = "dead" /\ Dead \in Threads
  BY <1>1, RestTyped, ThreadChange DEF Typed, Becomes
<1>3. /\ run' \in [Runs -> {"none", "pending", "running"} \cup Over]
      /\ run'[r] \in {run[r], "running"} /\ \A q \in Runs \ {r} : run'[q] = run[q]
  BY DEF ThreadDies, Typed, TypeOK
<1>4. Typed'
  BY <1>1, <1>2, <1>3, SufferTyped, StillPlaced, StillTyped DEF Typed, TypeOK, Becomes, Maps
<1> QED BY <1>1, <1>2, <1>3, <1>4 DEF Alone, Others, SameResults, Becomes

-----------------------------------------------------------------------------
(* What the readers and the host do.                                       *)

\* The other readers are where they were.
OtherReaders(p) == \A q \in Readers \ {p} : reader'[q] = reader[q]

\* A reader finds a run whose tasks are all over, or whose log is silent.
Judges(p) ==
    LET r == reader'[p].of IN
    /\ r \in Runs
    /\ reader'[p].tasks = Reaped(task[r])
    /\ reader'[p].verdict = Recovered(Reaped(task[r]))
    /\ (\A t \in Tasks : task[r][t] \in Over) \/ quiet[r]

\* A reader that changes.
LEMMA ReaderChange ==
    ASSUME Typed, NEW p \in Readers, NEW new \in Readings,
           new.stage # "rest" => new.of \in Runs,
           reader' = [reader EXCEPT ![p] = new]
    PROVE  /\ reader' \in [Readers -> Readings] /\ reader'[p] = new /\ OtherReaders(p)
           /\ \A q \in Readers : reader'[q].stage # "rest" => reader'[q].of \in Runs
  BY DEF Typed, TypeOK, Placed, Readings, Maps, OtherReaders

\* What is reaped and what it says of the run.
LEMMA ReapedTyped ==
    ASSUME NEW seen \in Maps
    PROVE  /\ Reaped(seen) \in Maps /\ Recovered(Reaped(seen)) \in Over
           /\ \A t \in Tasks : Reaped(seen)[t] = "completed" <=> seen[t] = "completed"
           /\ (\A t \in Tasks : seen[t] \in Over) => Reaped(seen) = seen
           /\ Recovered(Reaped(seen)) = "completed" =>
                 \A t \in Tasks : Reaped(seen)[t] = "completed"
  BY DEF Reaped, Recovered, Maps, Over

\* What a reader answers is of its run, or nothing.
LEMMA AnsweringTyped ==
    ASSUME Typed, NEW p \in Readers
    PROVE  /\ Answering(p) \in Readings /\ Answering(p).stage \in {"rest", "answer"}
           /\ Answering(p).stage # "rest" => Answering(p).of = reader[p].of
<1> DEFINE answer == [AtRest EXCEPT !.stage = "answer", !.of = reader[p].of,
                                    !.verdict = reader[p].verdict]
<1>1. reader[p] \in Readings
  BY DEF Typed, TypeOK, Readings, Maps
<1>2. answer \in Readings /\ answer.stage = "answer" /\ answer.of = reader[p].of
  BY <1>1, RestTyped DEF Readings
<1>3. Answering(p) = answer \/ Answering(p) = AtRest
  BY DEF Answering
<1> HIDE DEF answer
<1> QED BY <1>2, <1>3, RestTyped

\* A reader that reads, judges or answers changes no file.
LEMMA ReaderStep ==
    ASSUME Typed, NEW p \in Readers,
           Hydrate(p) \/ Answer(p) \/ SaveRaises(p) \/ \E r \in Runs : Load(p, r)
    PROVE  /\ Typed' /\ OtherReaders(p)
           /\ UNCHANGED <<run, task, quiet, thread, origin, lapses>>
           /\ reader'[p].stage \notin {"judged", "saved"} \/ Judges(p)
<1>1. reader[p] \in Readings /\ (reader[p].stage # "rest" => reader[p].of \in Runs)
  BY DEF Typed, TypeOK, Placed, Readings, Maps
<1>2. ASSUME NEW new \in Readings, new.stage # "rest" => new.of \in Runs,
             reader' = [reader EXCEPT ![p] = new],
             UNCHANGED <<run, task, quiet, source, thread, origin, lapses>>,
             troubles' \in 0 .. MaxTroubles
      PROVE  Typed' /\ OtherReaders(p) /\ reader'[p] = new
  <2>1. /\ reader' \in [Readers -> Readings] /\ reader'[p] = new /\ OtherReaders(p)
        /\ \A q \in Readers : reader'[q].stage # "rest" => reader'[q].of \in Runs
    BY <1>2, ReaderChange
  <2>2. TypeOK'
    BY <1>2, <2>1 DEF Typed, TypeOK, Readings, Maps
  <2>3. Placed'
    BY <1>2, <2>1 DEF Typed, Placed, At
  <2> QED BY <2>1, <2>2, <2>3 DEF Typed
<1>3. CASE \E r \in Runs : Load(p, r)
  <2>1. PICK r \in Runs : Load(p, r)
    BY <1>3
  <2> DEFINE new == [AtRest EXCEPT !.of = r, !.verdict = run[r],
                         !.stage = IF run[r] \in Over THEN "answer" ELSE "loaded"]
  <2>2. new \in Readings /\ new.stage \in {"answer", "loaded"} /\ new.of = r
    <3>1. run[r] \in {"running"} \cup Over
      BY <2>1 DEF Load, MayResume, Resumable, Over
    <3> QED BY <3>1, RestTyped DEF Readings
  <2>3. /\ reader' = [reader EXCEPT ![p] = new]
        /\ UNCHANGED <<run, task, quiet, source, thread, origin, lapses, troubles>>
    BY <2>1 DEF Load, files
  <2> HIDE DEF new
  <2> QED BY <1>2, <2>2, <2>3 DEF Typed, TypeOK
<1>4. CASE Hydrate(p)
  <2>1. PICK r \in Runs : r = reader[p].of
    BY <1>1, <1>4 DEF Hydrate
  <2> DEFINE seen == task[r]
             over == \A t \in Tasks : seen[t] \in Over
             judged == [reader[p] EXCEPT !.stage = "judged", !.tasks = Reaped(seen),
                                         !.verdict = Recovered(Reaped(seen))]
  <2>2. /\ reader' = [reader EXCEPT ![p] = IF over \/ quiet[r] THEN judged ELSE AtRest]
        /\ UNCHANGED <<run, task, quiet, source, thread, origin, lapses, troubles>>
    BY <1>4, <2>1 DEF Hydrate, Stale, files
  <2>3. seen \in Maps
    BY DEF Typed, TypeOK, Maps
  <2>4. /\ judged \in Readings /\ judged.of = r /\ judged.stage = "judged"
        /\ judged.tasks = Reaped(seen) /\ judged.verdict = Recovered(Reaped(seen))
    <3> HIDE DEF seen
    <3> QED BY <1>1, <2>1, <2>3, ReapedTyped DEF Readings
  <2> HIDE DEF judged
  <2>5. CASE over \/ quiet[r]
    <3>1. Typed' /\ OtherReaders(p) /\ reader'[p] = judged
      BY <1>2, <2>2, <2>4, <2>5 DEF Typed, TypeOK
    <3> QED BY <2>2, <2>4, <2>5, <3>1 DEF Judges
  <2>6. CASE ~(over \/ quiet[r])
    <3>1. reader' = [reader EXCEPT ![p] = AtRest]
      BY <2>2, <2>6
    <3> QED BY <1>2, <2>2, <3>1, RestTyped DEF Typed, TypeOK
  <2> QED BY <2>5, <2>6
<1>5. CASE Answer(p)
  <2>1. /\ reader' = [reader EXCEPT ![p] = AtRest]
        /\ UNCHANGED <<run, task, quiet, source, thread, origin, lapses, troubles>>
    BY <1>5 DEF Answer, files
  <2> QED BY <1>2, <2>1, RestTyped DEF Typed, TypeOK
<1>6. CASE SaveRaises(p)
  <2>1. /\ reader' = [reader EXCEPT ![p] = Answering(p)]
        /\ reader[p].stage # "rest"
        /\ UNCHANGED <<run, task, quiet, source, thread, origin, lapses>>
        /\ troubles' \in 0 .. MaxTroubles
    BY <1>6, SufferTyped DEF SaveRaises, files
  <2> QED BY <1>1, <1>2, <2>1, AnsweringTyped
<1> QED BY <1>3, <1>4, <1>5, <1>6

\* The tasks of the run are what the reader made of them.
LEMMA SaveTasksStep ==
    ASSUME Typed, NEW p \in Readers, SaveTasks(p)
    PROVE  /\ Typed' /\ OtherReaders(p)
           /\ UNCHANGED <<run, quiet, thread, origin, lapses>>
           /\ reader[p].stage = "judged" /\ reader[p].of \in Runs
           /\ reader'[p] = [reader[p] EXCEPT !.stage = "saved"]
           /\ task'[reader[p].of] = reader[p].tasks
           /\ \A q \in Runs : q # reader[p].of => task'[q] = task[q]
<1> DEFINE new == [reader[p] EXCEPT !.stage = "saved"]
<1>1. /\ reader[p].stage = "judged"
      /\ task' = [task EXCEPT ![reader[p].of] = reader[p].tasks]
      /\ reader' = [reader EXCEPT ![p] = new]
      /\ UNCHANGED <<run, quiet, source, thread, origin, lapses, troubles>>
  BY DEF SaveTasks
<1>2. reader[p] \in Readings /\ reader[p].of \in Runs
  BY <1>1 DEF Typed, TypeOK, Placed, Readings, Maps
<1>3. new \in Readings /\ new.of \in Runs /\ reader[p].tasks \in Maps
  BY <1>2 DEF Readings
<1> HIDE DEF new
<1>4. /\ reader' \in [Readers -> Readings] /\ reader'[p] = new /\ OtherReaders(p)
      /\ \A q \in Readers : reader'[q].stage # "rest" => reader'[q].of \in Runs
  BY <1>1, <1>3, ReaderChange
<1>5. TasksBecome(reader[p].of, reader[p].tasks)
  BY <1>1, <1>2, <1>3, TasksWritten
<1>6. TypeOK'
  BY <1>1, <1>4, <1>5 DEF Typed, TypeOK, Readings, Maps, TasksBecome
<1>7. Placed'
  BY <1>1, <1>4 DEF Typed, Placed, At
<1> QED BY <1>1, <1>2, <1>4, <1>5, <1>6, <1>7 DEF Typed, TasksBecome, new

\* The run has the status its reader found.
LEMMA SaveRunStep ==
    ASSUME Typed, NEW p \in Readers, SaveRun(p)
    PROVE  /\ Typed' /\ OtherReaders(p)
           /\ SameResults /\ UNCHANGED <<thread, lapses>>
           /\ \A q \in Runs : quiet'[q] => quiet[q]
           /\ reader[p].stage = "saved" /\ reader[p].of \in Runs
           /\ reader'[p].stage \notin {"judged", "saved"}
           /\ run'[reader[p].of] = reader[p].verdict /\ reader[p].verdict \in {"running"} \cup Over
           /\ \A q \in Runs : q # reader[p].of => run'[q] = run[q]
<1>1. /\ reader[p].stage = "saved"
      /\ run' = [run EXCEPT ![reader[p].of] = reader[p].verdict]
      /\ reader' = [reader EXCEPT ![p] = Answering(p)]
      /\ Emit(reader[p].of)
      /\ UNCHANGED <<task, source, thread, origin, lapses, troubles>>
  BY DEF SaveRun
<1>2. reader[p] \in Readings /\ reader[p].of \in Runs
  BY <1>1 DEF Typed, TypeOK, Placed, Readings, Maps
<1>3. /\ reader' \in [Readers -> Readings] /\ reader'[p] = Answering(p) /\ OtherReaders(p)
      /\ \A q \in Readers : reader'[q].stage # "rest" => reader'[q].of \in Runs
  BY <1>1, <1>2, AnsweringTyped, ReaderChange
<1>4. reader[p].verdict \in {"running"} \cup Over
  BY <1>2 DEF Readings
<1>5. /\ run' \in [Runs -> {"none", "pending", "running"} \cup Over]
      /\ run'[reader[p].of] = reader[p].verdict
      /\ \A q \in Runs : q # reader[p].of => run'[q] = run[q]
  BY <1>1, <1>2, <1>4 DEF Typed, TypeOK
<1>6. quiet' \in [Runs -> BOOLEAN] /\ \A q \in Runs : quiet'[q] => quiet[q]
  BY <1>1, <1>2, EmitTyped
<1>7. TypeOK'
  BY <1>1, <1>3, <1>5, <1>6 DEF Typed, TypeOK, Readings, Maps
<1>8. Placed'
  BY <1>1, <1>3 DEF Typed, Placed, At
<1> QED BY <1>1, <1>2, <1>3, <1>4, <1>5, <1>6, <1>7, <1>8, AnsweringTyped
        DEF Typed, SameResults

\* A run is started, afresh or over the results of another.
LEMMA NewRunStep ==
    ASSUME Typed, NEW r \in Runs, Start(r) \/ \E p \in Readers : Resume(p, r)
    PROVE  /\ Alone(r) /\ SameResults /\ lapses' = lapses /\ quiet' = quiet
           /\ run[r] = "none" /\ run'[r] = "pending" /\ Goes(r, "begin")
           /\ \A q \in Readers : reader'[q] = reader[q] \/ reader'[q].stage = "rest"
<1>1. /\ \E from \in Runs \cup {Nobody} : Create(r, from)
      /\ reader' \in [Readers -> Readings]
      /\ \A q \in Readers : reader'[q] = reader[q] \/ reader'[q].stage = "rest"
      /\ troubles' = troubles
  <2>1. CASE Start(r)
    BY <2>1 DEF Start, Typed, TypeOK, Readings, Maps
  <2>2. ASSUME NEW p \in Readers, Resume(p, r)
        PROVE  /\ \E from \in Runs \cup {Nobody} : Create(r, from)
               /\ reader' \in [Readers -> Readings]
               /\ \A q \in Readers : reader'[q] = reader[q] \/ reader'[q].stage = "rest"
               /\ troubles' = troubles
    <3>1. /\ Create(r, reader[p].of) /\ reader' = [reader EXCEPT ![p] = AtRest]
          /\ troubles' = troubles
      BY <2>2 DEF Resume
    <3>2. reader[p].of \in Runs \cup {Nobody} /\ reader \in [Readers -> Readings]
      BY DEF Typed, TypeOK, Readings, Maps
    <3> QED BY <3>1, <3>2, RestTyped
  <2> QED BY <2>1, <2>2
<1>2. PICK from \in Runs \cup {Nobody} : Create(r, from)
  BY <1>1
<1>3. /\ run' \in [Runs -> {"none", "pending", "running"} \cup Over]
      /\ source' \in [Runs -> Runs \cup {Nobody}] /\ thread' \in [Runs -> Threads]
      /\ UNCHANGED <<task, quiet, origin, lapses>>
      /\ \A q \in Runs \ {r} : source'[q] = source[q]
      /\ Others(r)
      /\ run[r] = "none" /\ run'[r] = "pending" /\ Goes(r, "begin")
  BY <1>2, CreateStep DEF Goes
<1>4. TypeOK'
  BY <1>1, <1>3 DEF Typed, TypeOK, Readings, Maps, Threads, Stages
<1>5. thread'[r].stage = "begin"
  BY <1>3, ThreadTyped DEF Goes, Typed, Threads
<1>6. Placed'
  BY <1>1, <1>3, <1>5 DEF Typed, Placed, At, Others
<1> QED BY <1>1, <1>3, <1>4, <1>6 DEF Typed, Alone, SameResults

\* The host stops threads or the heartbeats of all, or a dead thread's log falls silent.
LEMMA HostStep ==
    ASSUME Typed, Crash \/ Sleep \/ \E r \in Runs : FallSilent(r)
    PROVE  /\ Typed' /\ SameResults /\ UNCHANGED <<run, reader>>
           /\ \A r \in Runs : thread'[r] = thread[r] \/ thread'[r].stage = "dead"
           /\ lapses \subseteq lapses'
           /\ \A r \in Runs : quiet'[r] => \/ quiet[r] \/ At(r, "dead")
                                           \/ "sleep" \in lapses'
<1>1. CASE Crash
  <2>1. /\ UNCHANGED <<run, task, quiet, source, reader, origin, lapses>>
        /\ troubles' \in 0 .. MaxTroubles
        /\ thread' = [r \in Runs |-> IF thread[r].stage \in {"none", "over"} THEN thread[r]
                                     ELSE Dead]
    BY <1>1, SufferTyped DEF Crash, files
  <2>2. /\ thread' \in [Runs -> Threads]
        /\ \A r \in Runs : thread'[r] = thread[r] \/ thread'[r].stage = "dead"
    BY <2>1, ThreadTyped, RestTyped DEF Typed
  <2>3. \A q \in Runs : thread'[q].stage = "overlay" => source[q] \in Runs
    BY <2>2 DEF Typed, Placed, At
  <2>4. Typed'
    BY <2>1, <2>2, <2>3, StillTyped DEF Typed, TypeOK, Maps
  <2> QED BY <2>1, <2>2, <2>4 DEF SameResults
<1>2. CASE Sleep \/ \E r \in Runs : FallSilent(r)
  <2>1. /\ UNCHANGED <<run, task, source, thread, reader, origin>>
        /\ quiet' \in [Runs -> BOOLEAN] /\ troubles' \in 0 .. MaxTroubles
        /\ lapses \subseteq lapses' /\ lapses' \subseteq {"sleep", "unread"}
        /\ \A r \in Runs : quiet'[r] => quiet[r] \/ At(r, "dead") \/ "sleep" \in lapses'
    <3>1. CASE Sleep
      BY <3>1, SufferTyped DEF Sleep, Typed, TypeOK
    <3>2. CASE \E r \in Runs : FallSilent(r)
      BY <3>2 DEF FallSilent, Typed, TypeOK
    <3> QED BY <1>2, <3>1, <3>2
  <2>2. \A q \in Runs : thread'[q].stage = "overlay" => source[q] \in Runs
    BY <2>1 DEF Typed, Placed, At
  <2>3. Typed'
    BY <2>1, <2>2, ThreadTyped, StillTyped DEF Typed, TypeOK, Maps
  <2> QED BY <2>1, <2>3 DEF SameResults
<1> QED BY <1>1, <1>2

\* At first there is no run and every reader rests.
LEMMA InitTyped == Init => Typed
<1> SUFFICES ASSUME Init PROVE Typed
  OBVIOUS
<1>1. TypeOK
  BY RestTyped, SwarmAssumption DEF Init, TypeOK, Threads, Stages, Maps, Readings
<1>2. Placed
  BY RestTyped DEF Init, Placed, At
<1> QED BY <1>1, <1>2 DEF Typed

\* Every step keeps the types.
LEMMA TypedStep ==
    ASSUME Typed, [Next]_vars
    PROVE  Typed'
<1>1. ASSUME NEW r \in Runs,
             Start(r) \/ Cancel(r) \/ Running(r) \/ SyncFails(r) \/ BodyRaises(r) \/ ThreadDies(r)
      PROVE  Typed'
  BY <1>1, NewRunStep, CancelStep, BeginStep, OverlayStep, BeginLayerStep, CancelLayerStep,
     EndLayerStep, SyncStep, FinishStep, WorkerEndsStep, BodyRaisesStep, ThreadDiesStep
     DEF Running, Alone
<1>2. ASSUME NEW p \in Readers,
             Reading(p) \/ SaveRaises(p) \/ \E r \in Runs : Load(p, r) \/ Resume(p, r)
      PROVE  Typed'
  BY <1>2, ReaderStep, SaveTasksStep, SaveRunStep, NewRunStep DEF Reading, Alone
<1>3. CASE Crash \/ Sleep \/ \E r \in Runs : FallSilent(r)
  BY <1>3, HostStep
<1>4. CASE UNCHANGED vars
  BY <1>4 DEF vars, files, Typed, TypeOK, Placed, At
<1> QED BY <1>1, <1>2, <1>3, <1>4 DEF Next

\* The files, the threads and the readers keep their types; only a reader at rest has no
\* run, and what an overlay reads is a run.
THEOREM TypeCorrect == Spec => [](TypeOK /\ Placed)
<1>1. Init => TypeOK /\ Placed
  BY InitTyped DEF Typed
<1>2. TypeOK /\ Placed /\ [Next]_vars => (TypeOK /\ Placed)'
  BY TypedStep DEF Typed
<1> QED BY <1>1, <1>2, PTL DEF Spec

-----------------------------------------------------------------------------
(* A completed task has been made.                                         *)

Early == {"none", "begin", "overlay"}
Looping == {"layer", "work", "sync"}

\* What the thread of r relies on has been made: the tasks that are done, as long as none
\* has failed, and the upstreams of those it works on.
Made(r) ==
    /\ run[r] = "none" => At(r, "none")
    /\ thread[r].stage \in Early =>
          thread[r].done = {} /\ \A t \in Tasks : origin[r][t] = 0
    /\ thread[r].stage \in Early \cup {"layer", "sync"} => Busy(r) = {}
    /\ At(r, "finish") => ~thread[r].ok
    /\ thread[r].stage \in Looping =>
          (thread[r].ok => \A t \in thread[r].done : origin[r][t] # 0)
    /\ At(r, "work") => \A t \in Busy(r) : t \notin thread[r].done
                                          /\ \A d \in Deps[t] : origin[r][d] # 0
    /\ \A t \in Tasks : task[r][t] = "completed" => origin[r][t] # 0
    /\ run[r] = "completed" => \A t \in Tasks : origin[r][t] # 0

\* What a reader writes back has been made too.
Read(p) ==
    reader[p].stage \in {"judged", "saved"} =>
        /\ \A t \in Tasks : reader[p].tasks[t] = "completed" => origin[reader[p].of][t] # 0
        /\ reader[p].verdict = "completed" =>
              \A t \in Tasks : reader[p].tasks[t] = "completed"

AllMade == (\A r \in Runs : Made(r)) /\ (\A p \in Readers : Read(p))

\* Nothing made is unmade.
Grown(r) == \A t \in Tasks : origin[r][t] # 0 => origin'[r][t] # 0

\* A step of one run leaves what the others have made.
LEMMA MadeAlone ==
    ASSUME Typed, AllMade, NEW r \in Runs, Others(r), Made(r)', Grown(r),
           \A p \in Readers : reader'[p] = reader[p] \/ reader'[p].stage = "rest"
    PROVE  AllMade'
<1>1. ASSUME NEW q \in Runs \ {r}
      PROVE  Made(q)'
  <2>1. Made(q) /\ run'[q] = run[q] /\ task'[q] = task[q] /\ origin'[q] = origin[q]
        /\ thread'[q] = thread[q]
    BY DEF AllMade, Others
  <2> QED BY <2>1 DEF Made, Busy, At
<1>2. ASSUME NEW p \in Readers
      PROVE  Read(p)'
  <2>1. \A q \in Runs : Grown(q)
    BY DEF Others, Grown
  <2>2. reader[p].stage # "rest" => reader[p].of \in Runs
    BY DEF Typed, Placed
  <2> QED BY <2>1, <2>2 DEF AllMade, Read, Grown
<1> QED BY <1>1, <1>2 DEF AllMade

\* A thread that only goes from stage to stage, or ends.
LEMMA MadeGoes ==
    ASSUME Typed, Typed', AllMade, NEW r \in Runs, Others(r), SameResults,
           \A p \in Readers : reader'[p] = reader[p] \/ reader'[p].stage = "rest",
           run'[r] # "none",
           run'[r] = "completed" => \A t \in Tasks : origin[r][t] # 0,
           \/ thread'[r].stage \in {"over", "dead"}
           \/ /\ thread'[r].done = thread[r].done /\ thread'[r].ok = thread[r].ok
              /\ Busy(r)' = Busy(r)
              /\ \/ thread'[r].stage = thread[r].stage
                 \/ thread[r].stage \in Early /\ thread'[r].stage \in Early
                 \/ thread[r].stage \in {"begin", "overlay", "sync"} /\ thread'[r].stage = "layer"
    PROVE  AllMade'
<1>1. Made(r) /\ origin' = origin /\ task' = task
  BY DEF AllMade, SameResults
<1>2. Made(r)'
  BY <1>1 DEF Made, At, Early, Looping
<1>3. Grown(r)
  BY <1>1 DEF Grown
<1> QED BY <1>2, <1>3, MadeAlone

\* The steps that a thread takes, or that are done to it.
ThreadActs(r) == Cancel(r) \/ Running(r) \/ SyncFails(r) \/ BodyRaises(r) \/ ThreadDies(r)

\* They leave the readers alone.
LEMMA ThreadLeavesReaders ==
    ASSUME NEW r \in Runs, ThreadActs(r)
    PROVE  reader' = reader
  BY DEF ThreadActs, Cancel, Running, Begin, Overlay, BeginLayer, CancelLayer, EndLayer, Sync,
         Finish, WorkerEnds, SyncFails, BodyRaises, ThreadDies

\* What a resumed run keeps was made, and it stands on what was made.
LEMMA MadeOverlay ==
    ASSUME Typed, AllMade, NEW r \in Runs, Overlay(r)
    PROVE  AllMade' /\ Grown(r)
<1>1. /\ Alone(r) /\ At(r, "overlay") /\ run' = run
      /\ thread'[r] = [thread[r] EXCEPT !.stage = "layer", !.seen = task'[r]]
  BY OverlayStep
<1>2. PICK prev \in Runs, kept \in SUBSET Tasks : Keeps(r, prev, kept)
  BY OverlayStep
<1>3. Made(r) /\ Made(prev)
  BY DEF AllMade
<1>4. /\ thread'[r].stage = "layer" /\ thread'[r].done = thread[r].done
      /\ Busy(r)' = Busy(r)
  BY <1>1, ThreadTyped DEF Threads, Typed, Busy
<1>5. /\ thread[r].done = {} /\ Busy(r) = {} /\ run[r] # "none"
      /\ \A t \in Tasks : origin[r][t] = 0 /\ task[r][t] # "completed"
      /\ run[r] # "completed" \/ Tasks = {}
  BY <1>1, <1>3 DEF Made, Early, At
<1>6. \A t \in kept : origin[prev][t] # 0
  BY <1>2, <1>3 DEF Keeps, Made
<1>7. Made(r)'
  BY <1>1, <1>2, <1>4, <1>5, <1>6 DEF Made, Keeps, Early, Looping, At
<1>8. Grown(r)
  BY <1>5 DEF Grown
<1>9. reader' = reader
  BY ThreadLeavesReaders DEF ThreadActs, Running
<1> QED BY <1>1, <1>7, <1>8, <1>9, MadeAlone DEF Alone

\* A worker starts on upstreams that were made.
LEMMA MadeBeginLayer ==
    ASSUME Typed, AllMade, NEW r \in Runs, BeginLayer(r)
    PROVE  AllMade' /\ Grown(r)
<1>1. /\ Alone(r) /\ At(r, "layer") /\ run' = run /\ origin' = origin
      /\ \A t \in Tasks : task'[r][t] = "completed" => task[r][t] = "completed"
      /\ thread'[r] = [thread[r] EXCEPT !.stage = "work", !.out = Ready(r)]
      /\ Ready(r) \subseteq Tasks
  BY BeginLayerStep
<1>2. Made(r)
  BY DEF AllMade
<1>3. /\ thread'[r].stage = "work" /\ thread'[r].done = thread[r].done
      /\ thread'[r].ok = thread[r].ok /\ Busy(r)' = Ready(r) \cup thread[r].won \cup thread[r].lost
  BY <1>1, ThreadTyped DEF Threads, Typed, Busy
<1>4. Busy(r) = {} /\ run[r] # "none"
  BY <1>1, <1>2 DEF Made, At
<1>5. Busy(r)' = Ready(r)
  BY <1>3, <1>4 DEF Busy
<1>6. \A t \in Ready(r) : t \notin thread[r].done /\ \A d \in Deps[t] : origin[r][d] # 0
  <2>1. \A t \in Tasks : Deps[t] \subseteq Tasks
    BY SwarmAssumption
  <2> QED BY <1>2, <2>1 DEF Ready, Layer, Made
<1>7. Made(r)'
  BY <1>1, <1>2, <1>3, <1>4, <1>5, <1>6 DEF Made, Early, Looping, At
<1>8. Grown(r) /\ reader' = reader
  BY <1>1, ThreadLeavesReaders DEF Grown, ThreadActs, Running
<1> QED BY <1>1, <1>7, <1>8, MadeAlone DEF Alone

\* A cancelled layer makes nothing.
LEMMA MadeCancelLayer ==
    ASSUME Typed, AllMade, NEW r \in Runs, CancelLayer(r)
    PROVE  AllMade' /\ Grown(r)
<1>1. /\ Alone(r) /\ At(r, "layer") /\ run' = run /\ origin' = origin
      /\ \A t \in Tasks : task'[r][t] = "completed" => task[r][t] = "completed"
      /\ thread'[r] = [thread[r] EXCEPT !.stage = "finish", !.ok = FALSE]
  BY CancelLayerStep
<1>2. Made(r)
  BY DEF AllMade
<1>3. thread'[r].stage = "finish" /\ ~thread'[r].ok
  BY <1>1, ThreadTyped DEF Threads, Typed
<1>4. Made(r)'
  BY <1>1, <1>2, <1>3 DEF Made, Early, Looping, At
<1>5. Grown(r) /\ reader' = reader
  BY <1>1, ThreadLeavesReaders DEF Grown, ThreadActs, Running
<1> QED BY <1>1, <1>4, <1>5, MadeAlone DEF Alone

\* What is written as completed has been made.
LEMMA MadeWrites ==
    ASSUME Typed, NEW r \in Runs, Made(r), NEW some \in SUBSET Ended(r), Writes(r, some)
    PROVE  /\ Grown(r)
           /\ \A t \in Tasks : task'[r][t] = "completed" => origin'[r][t] # 0
           /\ \A t \in Tasks : t \in some /\ t \in thread[r].won => origin'[r][t] # 0
<1>1. r # 0
  BY SwarmAssumption DEF Runs
<1> QED BY <1>1 DEF Writes, Made, Grown

\* A layer that succeeded has made all its tasks.
LEMMA MadeEndLayer ==
    ASSUME Typed, AllMade, NEW r \in Runs, EndLayer(r)
    PROVE  AllMade' /\ Grown(r)
<1>1. /\ Alone(r) /\ At(r, "work") /\ run' = run /\ Writes(r, Ended(r))
      /\ thread'[r].stage = "sync" /\ thread'[r].done = thread[r].done \cup Layer(r)
      /\ thread'[r].ok => thread[r].ok /\ Succeeded(r)
      /\ thread'[r].out \cup thread'[r].won \cup thread'[r].lost = {}
  BY EndLayerStep
<1>2. Made(r)
  BY DEF AllMade
<1>3. /\ Grown(r)
      /\ \A t \in Tasks : task'[r][t] = "completed" => origin'[r][t] # 0
      /\ \A t \in thread[r].won : t \in Tasks => origin'[r][t] # 0
  BY <1>1, <1>2, MadeWrites DEF Ended
<1>4. thread[r].done \subseteq Tasks /\ Layer(r) \subseteq Tasks
  BY ThreadTyped DEF Typed, Threads, Layer
<1>5. Busy(r)' = {}
  BY <1>1 DEF Busy
<1>6. thread'[r].ok => \A t \in thread'[r].done : origin'[r][t] # 0
  <2> SUFFICES ASSUME thread[r].ok, Succeeded(r), NEW t \in thread[r].done \cup Layer(r)
               PROVE  origin'[r][t] # 0
    BY <1>1
  <2>1. CASE t \in thread[r].done
    BY <1>1, <1>2, <1>3, <1>4, <2>1 DEF Made, Grown, Looping, At
  <2>2. CASE t \in Layer(r) /\ t \notin thread[r].won
    BY <1>2, <1>3, <1>4, <2>2 DEF Made, Grown, Succeeded
  <2>3. CASE t \in thread[r].won
    BY <1>3, <1>4, <2>3
  <2> QED BY <2>1, <2>2, <2>3
<1>7. run'[r] # "none" /\ (run'[r] = "completed" => \A t \in Tasks : origin'[r][t] # 0)
  BY <1>1, <1>2, <1>3 DEF Made, Grown, At
<1>8. Made(r)'
  BY <1>1, <1>3, <1>5, <1>6, <1>7 DEF Made, Early, Looping, At
<1>9. reader' = reader
  BY ThreadLeavesReaders DEF ThreadActs, Running
<1> QED BY <1>1, <1>3, <1>8, <1>9, MadeAlone DEF Alone

\* So has what an exception leaves behind.
LEMMA MadeBodyRaises ==
    ASSUME Typed, AllMade, NEW r \in Runs, BodyRaises(r)
    PROVE  AllMade' /\ Grown(r)
<1>1. /\ Alone(r) /\ thread[r].stage \in {"overlay", "layer", "work"} /\ run' = run
      /\ thread'[r] = [thread[r] EXCEPT !.stage = "finish", !.ok = FALSE]
  BY BodyRaisesStep
<1>2. PICK some \in SUBSET Ended(r) : Writes(r, some)
  BY BodyRaisesStep
<1>3. Made(r)
  BY DEF AllMade
<1>4. thread'[r].stage = "finish" /\ ~thread'[r].ok
  BY <1>1, ThreadTyped DEF Threads, Typed
<1>5. Grown(r) /\ \A t \in Tasks : task'[r][t] = "completed" => origin'[r][t] # 0
  BY <1>2, <1>3, MadeWrites
<1>6. run'[r] # "none" /\ (run'[r] = "completed" => \A t \in Tasks : origin'[r][t] # 0)
  BY <1>1, <1>3, <1>5 DEF Made, Grown, At
<1>7. Made(r)'
  BY <1>4, <1>5, <1>6 DEF Made, Early, Looping, At
<1>8. reader' = reader
  BY ThreadLeavesReaders DEF ThreadActs
<1> QED BY <1>1, <1>5, <1>7, <1>8, MadeAlone DEF Alone

\* A run that ends completed has made everything.
LEMMA MadeFinish ==
    ASSUME Typed, AllMade, NEW r \in Runs, Finish(r)
    PROVE  AllMade'
<1>1. /\ Alone(r) /\ Finishing(r) /\ thread'[r].stage = "over"
      /\ run'[r] \in Over /\ (run'[r] = "completed" => thread[r].ok) /\ SameResults
  BY FinishStep
<1>2. Made(r)
  BY DEF AllMade
<1>3. run'[r] = "completed" => \A t \in Tasks : origin[r][t] # 0
  BY <1>1, <1>2 DEF Finishing, Made, Looping, At
<1>4. run'[r] # "none" /\ reader' = reader
  BY <1>1, ThreadLeavesReaders DEF Over, ThreadActs, Running
<1> QED BY <1>1, <1>3, <1>4, MadeGoes DEF Alone

\* The steps that only take the thread on.
LEMMA MadeOn ==
    ASSUME Typed, AllMade, NEW r \in Runs,
           \/ Cancel(r) \/ Begin(r) \/ Sync(r) \/ SyncFails(r) \/ ThreadDies(r)
           \/ \E t \in Tasks : WorkerEnds(r, t)
    PROVE  AllMade'
<1>1. Made(r) /\ reader' = reader /\ thread[r] \in Threads
  BY ThreadLeavesReaders, ThreadTyped DEF AllMade, ThreadActs, Running, Typed
<1>2. CASE Cancel(r)
  <2>1. /\ Alone(r) /\ thread[r].stage # "none" /\ run' = run /\ SameResults
        /\ thread'[r] = [thread[r] EXCEPT !.cancel = TRUE]
    BY <1>2, CancelStep
  <2>2. /\ thread'[r].stage = thread[r].stage /\ thread'[r].done = thread[r].done
        /\ thread'[r].ok = thread[r].ok /\ Busy(r)' = Busy(r)
    BY <1>1, <2>1 DEF Threads, Busy
  <2>3. run[r] # "none"
    BY <1>1, <2>1 DEF Made, At
  <2> QED BY <1>1, <2>1, <2>2, <2>3, MadeGoes DEF Alone, Made
<1>3. CASE Begin(r)
  <2>1. /\ Alone(r) /\ At(r, "begin") /\ (Goes(r, "layer") \/ Goes(r, "overlay"))
        /\ run'[r] = "running" /\ SameResults
    BY <1>3, BeginStep
  <2>2. /\ thread'[r].stage \in {"layer", "overlay"} /\ thread'[r].done = thread[r].done
        /\ thread'[r].ok = thread[r].ok /\ Busy(r)' = Busy(r)
    BY <1>1, <2>1 DEF Threads, Busy, Goes
  <2> QED BY <1>1, <2>1, <2>2, MadeGoes DEF Alone, At, Early
<1>4. CASE Sync(r) \/ SyncFails(r)
  <2>1. /\ Alone(r) /\ At(r, "sync") /\ SameResults /\ run'[r] \in {run[r], "running"}
        /\ \/ thread'[r] = [thread[r] EXCEPT !.stage = "layer", !.seen = task[r]]
           \/ Goes(r, "layer")
    BY <1>4, SyncStep
  <2>2. /\ thread'[r].stage = "layer" /\ thread'[r].done = thread[r].done
        /\ thread'[r].ok = thread[r].ok /\ Busy(r)' = Busy(r)
    BY <1>1, <2>1 DEF Threads, Busy, Goes
  <2>3. run'[r] # "none" /\ (run'[r] = "completed" => \A t \in Tasks : origin[r][t] # 0)
    BY <1>1, <2>1 DEF Made, At
  <2> QED BY <1>1, <2>1, <2>2, <2>3, MadeGoes DEF Alone, At
<1>5. CASE ThreadDies(r)
  <2>1. /\ Alone(r) /\ thread[r].stage # "none" /\ thread'[r].stage = "dead" /\ SameResults
        /\ run'[r] \in {run[r], "running"}
    BY <1>5, ThreadDiesStep
  <2>2. run'[r] # "none" /\ (run'[r] = "completed" => \A t \in Tasks : origin[r][t] # 0)
    BY <1>1, <2>1 DEF Made, At
  <2> QED BY <1>1, <2>1, <2>2, MadeGoes DEF Alone
<1>6. ASSUME NEW t \in Tasks, WorkerEnds(r, t)
      PROVE  AllMade'
  <2>1. /\ Alone(r) /\ At(r, "work") /\ thread'[r].stage = "work"
        /\ thread'[r].done = thread[r].done /\ thread'[r].ok = thread[r].ok
        /\ Busy(r)' = Busy(r) /\ run' = run /\ SameResults
    BY <1>6, WorkerEndsStep DEF Busy
  <2>2. run'[r] # "none" /\ (run'[r] = "completed" => \A u \in Tasks : origin[r][u] # 0)
    BY <1>1, <2>1 DEF Made, At
  <2> QED BY <1>1, <2>1, <2>2, MadeGoes DEF Alone, At
<1> QED BY <1>2, <1>3, <1>4, <1>5, <1>6

\* A reader judges by what has been made.
LEMMA MadeJudged ==
    ASSUME Typed, AllMade, NEW p \in Readers, Judges(p), SameResults
    PROVE  Read(p)'
<1>1. PICK r \in Runs : r = reader'[p].of
  BY DEF Judges
<1>2. /\ reader'[p].tasks = Reaped(task[r])
      /\ reader'[p].verdict = Recovered(Reaped(task[r]))
  BY <1>1 DEF Judges
<1>3. task[r] \in Maps /\ Made(r)
  BY DEF Typed, TypeOK, Maps, AllMade
<1>4. /\ \A t \in Tasks : Reaped(task[r])[t] = "completed" <=> task[r][t] = "completed"
      /\ Recovered(Reaped(task[r])) = "completed" =>
            \A t \in Tasks : Reaped(task[r])[t] = "completed"
  BY <1>3, ReapedTyped
<1>5. \A t \in Tasks : task[r][t] = "completed" => origin'[r][t] # 0
  BY <1>3 DEF Made, SameResults
<1> QED BY <1>1, <1>2, <1>4, <1>5 DEF Read

\* So do the steps of a reader that write nothing.
LEMMA MadeReader ==
    ASSUME Typed, AllMade, NEW p \in Readers,
           Hydrate(p) \/ Answer(p) \/ SaveRaises(p) \/ \E r \in Runs : Load(p, r)
    PROVE  AllMade'
<1>1. /\ OtherReaders(p) /\ UNCHANGED <<run, task, thread, origin>>
      /\ reader'[p].stage \notin {"judged", "saved"} \/ Judges(p)
  BY ReaderStep
<1>2. \A r \in Runs : Made(r)'
  BY <1>1 DEF AllMade, Made, Busy, At
<1>3. ASSUME NEW q \in Readers \ {p} PROVE Read(q)'
  BY <1>1 DEF AllMade, Read, OtherReaders
<1>4. Read(p)'
  <2>1. CASE Judges(p)
    BY <1>1, <2>1, MadeJudged DEF SameResults
  <2>2. CASE reader'[p].stage \notin {"judged", "saved"}
    BY <2>2 DEF Read
  <2> QED BY <1>1, <2>1, <2>2
<1> QED BY <1>2, <1>3, <1>4 DEF AllMade

\* What a reader writes to the tasks has been made.
LEMMA MadeSaveTasks ==
    ASSUME Typed, AllMade, NEW p \in Readers, SaveTasks(p)
    PROVE  AllMade'
<1>1. /\ OtherReaders(p) /\ UNCHANGED <<run, thread, origin>>
      /\ reader[p].stage = "judged" /\ reader[p].of \in Runs
      /\ reader'[p] = [reader[p] EXCEPT !.stage = "saved"]
      /\ task'[reader[p].of] = reader[p].tasks
      /\ \A q \in Runs : q # reader[p].of => task'[q] = task[q]
  BY SaveTasksStep
<1>2. reader[p] \in Readings
  BY DEF Typed, TypeOK, Readings, Maps
<1>3. /\ reader'[p].of = reader[p].of /\ reader'[p].tasks = reader[p].tasks
      /\ reader'[p].verdict = reader[p].verdict
  BY <1>1, <1>2 DEF Readings
<1>4. Read(p) /\ Read(p)'
  BY <1>1, <1>3 DEF AllMade, Read
<1>5. ASSUME NEW r \in Runs PROVE Made(r)'
  <2>1. Made(r)
    BY DEF AllMade
  <2>2. \A t \in Tasks : task'[r][t] = "completed" => origin'[r][t] # 0
    BY <1>1, <1>4, <2>1 DEF Read, Made
  <2>3. Busy(r)' = Busy(r)
    BY <1>1 DEF Busy
  <2> QED BY <1>1, <2>1, <2>2, <2>3 DEF Made, At
<1>6. ASSUME NEW q \in Readers \ {p} PROVE Read(q)'
  BY <1>1 DEF AllMade, Read, OtherReaders
<1> QED BY <1>4, <1>5, <1>6 DEF AllMade

\* A run that a reader calls completed has made everything.
LEMMA MadeSaveRun ==
    ASSUME Typed, AllMade, NEW p \in Readers, SaveRun(p)
    PROVE  AllMade'
<1>1. /\ OtherReaders(p) /\ SameResults /\ UNCHANGED thread
      /\ reader[p].stage = "saved" /\ reader[p].of \in Runs
      /\ reader'[p].stage \notin {"judged", "saved"}
      /\ run'[reader[p].of] = reader[p].verdict /\ reader[p].verdict \in {"running"} \cup Over
      /\ \A q \in Runs : q # reader[p].of => run'[q] = run[q]
  BY SaveRunStep
<1>2. Read(p)
  BY DEF AllMade
<1>3. ASSUME NEW r \in Runs PROVE Made(r)'
  <2>1. Made(r)
    BY DEF AllMade
  <2>2. /\ run'[r] = "none" => run[r] = "none"
        /\ run'[r] = "completed" => \A t \in Tasks : origin[r][t] # 0
    BY <1>1, <1>2, <2>1 DEF Read, Made, Over
  <2>3. /\ Busy(r)' = Busy(r) /\ task'[r] = task[r] /\ origin'[r] = origin[r]
        /\ thread'[r] = thread[r]
    BY <1>1 DEF Busy, SameResults
  <2> QED BY <2>1, <2>2, <2>3 DEF Made, At
<1>4. ASSUME NEW q \in Readers PROVE Read(q)'
  BY <1>1 DEF AllMade, Read, OtherReaders, SameResults
<1> QED BY <1>3, <1>4 DEF AllMade

\* A new run has made nothing.
LEMMA MadeNewRun ==
    ASSUME Typed, AllMade, NEW r \in Runs, Start(r) \/ \E p \in Readers : Resume(p, r)
    PROVE  AllMade'
<1>1. /\ Alone(r) /\ SameResults /\ run[r] = "none" /\ run'[r] = "pending" /\ Goes(r, "begin")
      /\ \A q \in Readers : reader'[q] = reader[q] \/ reader'[q].stage = "rest"
  BY NewRunStep
<1>2. Made(r) /\ thread[r] \in Threads
  BY ThreadTyped DEF AllMade, Typed
<1>3. /\ thread'[r].stage = "begin" /\ thread'[r].done = thread[r].done
      /\ thread'[r].ok = thread[r].ok /\ Busy(r)' = Busy(r)
  BY <1>1, <1>2 DEF Threads, Busy, Goes
<1>4. At(r, "none")
  BY <1>1, <1>2 DEF Made
<1> QED BY <1>1, <1>3, <1>4, MadeGoes DEF Alone, At, Early

\* A thread that is stopped relies on nothing.
LEMMA MadeHost ==
    ASSUME Typed, AllMade, Crash \/ Sleep \/ \E r \in Runs : FallSilent(r)
    PROVE  AllMade'
<1>1. /\ SameResults /\ UNCHANGED <<run, reader>>
      /\ \A r \in Runs : \/ thread'[r] = thread[r]
                         \/ thread'[r].stage = "dead" /\ ~At(r, "none")
  <2>1. CASE Crash
    <3>1. SameResults /\ UNCHANGED <<run, reader>>
      BY <2>1, HostStep
    <3>2. \A r \in Runs : thread'[r] = IF thread[r].stage \in {"none", "over"} THEN thread[r]
                                       ELSE Dead
      BY <2>1 DEF Crash
    <3> QED BY <3>1, <3>2, RestTyped DEF At
  <2>2. CASE Sleep \/ \E r \in Runs : FallSilent(r)
    BY <2>2, HostStep DEF Sleep, FallSilent
  <2> QED BY <2>1, <2>2
<1>2. ASSUME NEW r \in Runs PROVE Made(r)'
  <2>1. Made(r)
    BY DEF AllMade
  <2>2. CASE thread'[r] = thread[r]
    BY <1>1, <2>1, <2>2 DEF Made, Busy, At, SameResults
  <2>3. CASE thread'[r].stage = "dead" /\ ~At(r, "none")
    BY <1>1, <2>1, <2>3 DEF Made, At, Early, Looping, SameResults
  <2> QED BY <1>1, <2>2, <2>3
<1>3. ASSUME NEW p \in Readers PROVE Read(p)'
  BY <1>1 DEF AllMade, Read, SameResults
<1> QED BY <1>2, <1>3 DEF AllMade

\* Every step keeps what is relied on made.
LEMMA MadeStep ==
    ASSUME Typed, AllMade, [Next]_vars
    PROVE  AllMade'
<1>1. ASSUME NEW r \in Runs, ThreadActs(r)
      PROVE  AllMade'
  BY <1>1, MadeOn, MadeOverlay, MadeBeginLayer, MadeCancelLayer, MadeEndLayer, MadeFinish,
     MadeBodyRaises DEF ThreadActs, Running
<1>2. ASSUME NEW p \in Readers, Reading(p) \/ SaveRaises(p) \/ \E r \in Runs : Load(p, r)
      PROVE  AllMade'
  BY <1>2, MadeReader, MadeSaveTasks, MadeSaveRun DEF Reading
<1>3. ASSUME NEW r \in Runs, Start(r) \/ \E p \in Readers : Resume(p, r)
      PROVE  AllMade'
  BY <1>3, MadeNewRun
<1>4. CASE Crash \/ Sleep \/ \E r \in Runs : FallSilent(r)
  BY <1>4, MadeHost
<1>5. CASE UNCHANGED vars
  BY <1>5 DEF vars, files, AllMade, Made, Read, Busy, At
<1> QED BY <1>1, <1>2, <1>3, <1>4, <1>5 DEF Next, ThreadActs

\* At first nothing has been made, or called so.
LEMMA InitMade == Init => AllMade
<1> SUFFICES ASSUME Init PROVE AllMade
  OBVIOUS
<1>1. ASSUME NEW r \in Runs PROVE Made(r)
  BY RestTyped DEF Init, Made, At, Busy, Early, Looping
<1>2. ASSUME NEW p \in Readers PROVE Read(p)
  BY RestTyped DEF Init, Read
<1> QED BY <1>1, <1>2 DEF AllMade

\* A run that is called completed, by its thread or by whoever reads it, has every result:
\* whatever was cancelled, raised or died, and over however many resumes.
THEOREM CompletedHolds == Spec => []CompletedHasAll
<1> DEFINE I == Typed /\ AllMade
<1>1. Init => I
  BY InitTyped, InitMade
<1>2. I /\ [Next]_vars => I'
  BY TypedStep, MadeStep
<1>3. I => CompletedHasAll
  BY DEF AllMade, Made, CompletedHasAll
<1> QED BY <1>1, <1>2, <1>3, PTL DEF Spec

-----------------------------------------------------------------------------
(* As long as the host does not sleep, no reader writes to the tasks of a  *)
(* live thread what it did not find there.                                 *)

Awake == "sleep" \notin lapses

Live(r) == thread[r].stage \in Early \cup Looping

\* Only the log of a dead thread is silent, and the tasks of a live one are as it left
\* them: none is over that is neither kept nor of an earlier layer, and what its workers
\* are at is in progress and has not been made.
Steady(r) ==
    /\ quiet[r] => At(r, "dead")
    /\ thread[r].stage \in Early => \A t \in Tasks : task[r][t] = "blocked"
    /\ thread[r].stage \in Looping =>
          \A t \in Tasks \ thread[r].done :
              /\ task[r][t] \in {"blocked", "in_progress", "completed"}
              /\ origin[r][t] # 0 => task[r][t] = "completed"
    /\ At(r, "work") =>
          \A t \in Busy(r) : task[r][t] = "in_progress" /\ t \in Layer(r)

\* All tasks of the run are over.
AllOver(r) == \A t \in Tasks : task[r][t] \in Over

\* A reader that is to write to the run of a live thread found every task over, and writes
\* what it found.
Sees(p) ==
    reader[p].stage \in {"judged", "saved"} /\ Live(reader[p].of) =>
        AllOver(reader[p].of) /\ reader[p].tasks = task[reader[p].of]

AllSteady == (\A r \in Runs : Steady(r)) /\ (\A p \in Readers : Sees(p))

\* A thread changes no task of its run once all are over.
LeavesOver(r) == Live(r)' => Live(r) /\ (AllOver(r) => task'[r] = task[r])

\* A step of one run leaves the others steady.
LEMMA SteadyAlone ==
    ASSUME Typed, AllSteady, NEW r \in Runs, Alone(r), Steady(r)', LeavesOver(r),
           \A p \in Readers : reader'[p] = reader[p] \/ reader'[p].stage = "rest"
    PROVE  AllSteady'
<1>1. ASSUME NEW q \in Runs \ {r}
      PROVE  Steady(q)'
  <2>1. Steady(q) /\ task'[q] = task[q] /\ origin'[q] = origin[q]
        /\ thread'[q] = thread[q] /\ (quiet'[q] => quiet[q])
    BY DEF AllSteady, Others, Alone
  <2> QED BY <2>1 DEF Steady, Busy, At, Layer
<1>2. ASSUME NEW p \in Readers
      PROVE  Sees(p)'
  <2> SUFFICES ASSUME reader'[p].stage \in {"judged", "saved"}, Live(reader[p].of)'
               PROVE  /\ reader'[p] = reader[p]
                      /\ AllOver(reader[p].of)' /\ reader[p].tasks = task'[reader[p].of]
    BY DEF Sees, Live, AllOver
  <2>1. reader'[p] = reader[p] /\ Sees(p) /\ reader[p].stage \in {"judged", "saved"}
    BY DEF AllSteady
  <2>2. PICK q \in Runs : q = reader[p].of
    BY <2>1 DEF Typed, Placed
  <2>3. Live(q) /\ (AllOver(q) => task'[q] = task[q])
    BY <2>2 DEF Alone, Others, Live, LeavesOver
  <2> QED BY <2>1, <2>2, <2>3 DEF Sees, AllOver
<1> QED BY <1>1, <1>2 DEF AllSteady

\* Two maps of the tasks with the same statuses are one.
LEMMA SameMap ==
    ASSUME Typed, Typed', NEW r \in Runs, \A t \in Tasks : task'[r][t] = task[r][t]
    PROVE  task'[r] = task[r]
  BY DEF Typed, TypeOK

\* The steps that change no task.
LEMMA SteadyGoes ==
    ASSUME Typed, AllMade, AllSteady, NEW r \in Runs, Alone(r), SameResults,
           ~At(r, "dead"),
           \A p \in Readers : reader'[p] = reader[p] \/ reader'[p].stage = "rest",
           \/ thread'[r].stage \in {"over", "dead"}
           \/ /\ thread'[r].done = thread[r].done /\ Busy(r)' = Busy(r)
              /\ \/ thread'[r].stage = thread[r].stage
                 \/ thread[r].stage \in Early /\ thread'[r].stage \in Early
                 \/ thread[r].stage \in {"begin", "sync"} /\ thread'[r].stage = "layer"
    PROVE  AllSteady'
<1>1. /\ Steady(r) /\ Made(r) /\ ~quiet'[r] /\ ~quiet[r]
      /\ origin' = origin /\ task' = task
  BY DEF AllSteady, Steady, AllMade, Alone, SameResults
<1>2. LeavesOver(r)
  BY <1>1 DEF LeavesOver, Live, Early, Looping
<1>3. CASE thread'[r].stage \in {"over", "dead"}
  BY <1>1, <1>2, <1>3, SteadyAlone DEF Steady, At, Early, Looping
<1>4. CASE /\ thread'[r].done = thread[r].done /\ Busy(r)' = Busy(r)
           /\ \/ thread'[r].stage = thread[r].stage
              \/ thread[r].stage \in Early /\ thread'[r].stage \in Early
              \/ thread[r].stage \in {"begin", "sync"} /\ thread'[r].stage = "layer"
  <2>1. Layer(r)' = Layer(r)
    BY <1>4 DEF Layer
  <2>2. CASE thread'[r].stage = thread[r].stage
    BY <1>1, <1>2, <1>4, <2>1, <2>2, SteadyAlone DEF Steady, At
  <2>3. CASE thread[r].stage \in Early /\ thread'[r].stage \in Early
    BY <1>1, <1>2, <2>3, SteadyAlone DEF Steady, At, Early, Looping
  <2>4. CASE thread[r].stage \in {"begin", "sync"} /\ thread'[r].stage = "layer"
    <3>1. \A t \in Tasks \ thread[r].done :
              /\ task[r][t] \in {"blocked", "in_progress", "completed"}
              /\ origin[r][t] # 0 => task[r][t] = "completed"
      BY <1>1, <2>4 DEF Steady, Made, Early, Looping
    <3>2. Steady(r)'
      BY <1>1, <1>4, <2>4, <3>1 DEF Steady, At, Early, Looping
    <3> QED BY <1>2, <3>2, SteadyAlone
  <2> QED BY <1>4, <2>2, <2>3, <2>4
<1> QED BY <1>3, <1>4

\* What a resumed run keeps is completed, the rest has not been begun.
LEMMA SteadyOverlay ==
    ASSUME Typed, AllMade, AllSteady, NEW r \in Runs, Overlay(r)
    PROVE  AllSteady'
<1>1. /\ Alone(r) /\ At(r, "overlay")
      /\ thread'[r] = [thread[r] EXCEPT !.stage = "layer", !.seen = task'[r]]
  BY OverlayStep
<1>2. PICK prev \in Runs, kept \in SUBSET Tasks : Keeps(r, prev, kept)
  BY OverlayStep
<1>3. /\ Steady(r) /\ ~quiet'[r] /\ \A t \in Tasks : task[r][t] = "blocked"
  BY <1>1 DEF AllSteady, Steady, Alone, At, Early
<1>4. thread'[r].stage = "layer" /\ reader' = reader
  BY <1>1, ThreadTyped, ThreadLeavesReaders DEF Threads, Typed, ThreadActs, Running
<1>5. Steady(r)'
  BY <1>2, <1>3, <1>4 DEF Steady, Keeps, At, Early, Looping
<1>6. LeavesOver(r)
  <2>1. AllOver(r) => Tasks = {}
    BY <1>3 DEF AllOver, Over
  <2>2. Tasks = {} => task'[r] = task[r]
    BY <1>1, SameMap DEF Alone
  <2> QED BY <1>1, <2>1, <2>2 DEF LeavesOver, Live, At, Early
<1> QED BY <1>1, <1>4, <1>5, <1>6, SteadyAlone

\* What a layer begins had not been made.
LEMMA SteadyBeginLayer ==
    ASSUME Typed, AllMade, AllSteady, NEW r \in Runs, BeginLayer(r)
    PROVE  AllSteady'
<1>1. /\ Alone(r) /\ At(r, "layer") /\ origin' = origin
      /\ \A t \in Tasks : task'[r][t] =
             IF t \in Ready(r) THEN "in_progress"
             ELSE IF t \in Layer(r) /\ task[r][t] # "completed" THEN "blocked" ELSE task[r][t]
      /\ thread'[r] = [thread[r] EXCEPT !.stage = "work", !.out = Ready(r)]
      /\ Ready(r) \subseteq Tasks
  BY BeginLayerStep
<1>2. Steady(r) /\ Made(r) /\ ~quiet'[r] /\ reader' = reader
  BY <1>1, ThreadLeavesReaders
     DEF AllSteady, Steady, AllMade, Alone, At, ThreadActs, Running
<1>3. /\ thread'[r].stage = "work" /\ thread'[r].done = thread[r].done
      /\ Busy(r)' = Ready(r) \cup thread[r].won \cup thread[r].lost
  BY <1>1, ThreadTyped DEF Threads, Typed, Busy
<1>4. Busy(r)' = Ready(r)
  BY <1>1, <1>2, <1>3 DEF Busy, Made, At
<1>5. \A t \in Tasks \ thread[r].done :
          /\ task[r][t] \in {"blocked", "in_progress", "completed"}
          /\ origin[r][t] # 0 => task[r][t] = "completed"
  BY <1>1, <1>2 DEF Steady, At, Looping
<1>6. \A t \in Ready(r) : t \in Layer(r) /\ task[r][t] # "completed" /\ t \in Tasks \ thread[r].done
  BY DEF Ready, Layer
<1>7. Layer(r)' = Layer(r)
  BY <1>3 DEF Layer
<1>8. Steady(r)'
  <2>1. \A t \in Tasks \ thread'[r].done :
            /\ task'[r][t] \in {"blocked", "in_progress", "completed"}
            /\ origin'[r][t] # 0 => task'[r][t] = "completed"
    BY <1>1, <1>3, <1>5, <1>6
  <2>2. \A t \in Busy(r)' : task'[r][t] = "in_progress" /\ t \in Layer(r)'
    BY <1>1, <1>4, <1>6, <1>7
  <2> QED BY <1>2, <1>3, <2>1, <2>2 DEF Steady, At, Early
<1>9. LeavesOver(r)
  <2> SUFFICES ASSUME AllOver(r) PROVE task'[r] = task[r]
    BY <1>1 DEF LeavesOver, Live, At, Looping
  <2>1. \A t \in Layer(r) : task[r][t] = "completed"
    BY <1>5 DEF AllOver, Over, Layer
  <2>2. \A t \in Tasks : task'[r][t] = task[r][t]
    BY <1>1, <1>6, <2>1
  <2> QED BY <1>1, <2>2, SameMap DEF Alone
<1> QED BY <1>1, <1>2, <1>8, <1>9, SteadyAlone

\* A thread on its way to the end has no say any more.
LEMMA SteadyEnds ==
    ASSUME Typed, AllSteady, NEW r \in Runs, Alone(r), ~At(r, "dead"), reader' = reader,
           thread'[r].stage \in {"finish", "over", "dead"}
    PROVE  AllSteady'
<1>1. ~quiet'[r]
  BY DEF AllSteady, Steady, Alone
<1>2. Steady(r)' /\ LeavesOver(r)
  BY <1>1 DEF Steady, LeavesOver, Live, At, Early, Looping
<1> QED BY <1>2, SteadyAlone

\* A layer that ends writes to its own tasks.
LEMMA SteadyEndLayer ==
    ASSUME Typed, AllMade, AllSteady, NEW r \in Runs, EndLayer(r)
    PROVE  AllSteady'
<1>1. /\ Alone(r) /\ At(r, "work") /\ Writes(r, Ended(r))
      /\ thread'[r].stage = "sync" /\ thread'[r].done = thread[r].done \cup Layer(r)
  BY EndLayerStep
<1>2. Steady(r) /\ ~quiet'[r] /\ reader' = reader
  BY <1>1, ThreadLeavesReaders DEF AllSteady, Steady, Alone, At, ThreadActs, Running
<1>3. \A t \in Ended(r) : task[r][t] = "in_progress" /\ t \in Layer(r)
  BY <1>1, <1>2 DEF Steady, Busy, Ended
<1>4. \A t \in Tasks \ thread[r].done :
          /\ task[r][t] \in {"blocked", "in_progress", "completed"}
          /\ origin[r][t] # 0 => task[r][t] = "completed"
  BY <1>1, <1>2 DEF Steady, At, Looping
<1>5. Steady(r)'
  <2>1. \A t \in Tasks \ thread'[r].done :
            /\ task'[r][t] \in {"blocked", "in_progress", "completed"}
            /\ origin'[r][t] # 0 => task'[r][t] = "completed"
    BY <1>1, <1>3, <1>4 DEF Writes
  <2> QED BY <1>1, <1>2, <2>1 DEF Steady, At, Early
<1>6. LeavesOver(r)
  <2> SUFFICES ASSUME AllOver(r) PROVE task'[r] = task[r]
    BY <1>1 DEF LeavesOver, Live, At, Looping
  <2>1. \A t \in Tasks : t \notin Ended(r)
    BY <1>3 DEF AllOver, Over
  <2>2. \A t \in Tasks : task'[r][t] = task[r][t]
    BY <1>1, <2>1 DEF Writes
  <2> QED BY <1>1, <2>2, SameMap DEF Alone
<1> QED BY <1>1, <1>2, <1>5, <1>6, SteadyAlone

\* The steps of a reader that write nothing.
LEMMA SteadyReader ==
    ASSUME Typed, AllSteady, NEW p \in Readers,
           Hydrate(p) \/ Answer(p) \/ SaveRaises(p) \/ \E r \in Runs : Load(p, r)
    PROVE  AllSteady'
<1>1. /\ OtherReaders(p) /\ UNCHANGED <<run, task, quiet, thread, origin>>
      /\ reader'[p].stage \notin {"judged", "saved"} \/ Judges(p)
  BY ReaderStep
<1>2. ASSUME NEW r \in Runs PROVE Steady(r)'
  BY <1>1 DEF AllSteady, Steady, Busy, At, Layer
<1>3. ASSUME NEW q \in Readers \ {p} PROVE Sees(q)'
  BY <1>1 DEF AllSteady, Sees, OtherReaders, Live, AllOver
<1>4. Sees(p)'
  <2> SUFFICES ASSUME Judges(p), Live(reader[p].of)' PROVE Sees(p)'
    BY <1>1 DEF Sees
  <2>1. PICK r \in Runs : r = reader'[p].of
    BY DEF Judges
  <2>2. reader'[p].tasks = Reaped(task[r]) /\ (AllOver(r) \/ quiet[r])
    BY <2>1 DEF Judges, AllOver
  <2>3. Steady(r) /\ Live(r)
    BY <1>1, <2>1 DEF AllSteady, Live
  <2>4. AllOver(r)
    BY <2>2, <2>3 DEF Steady, Live, At, Early, Looping
  <2>5. task[r] \in Maps
    BY DEF Typed, TypeOK, Maps
  <2>6. Reaped(task[r]) = task[r]
    BY <2>4, <2>5, ReapedTyped DEF AllOver
  <2> QED BY <1>1, <2>1, <2>2, <2>4, <2>6 DEF Sees, AllOver
<1> QED BY <1>2, <1>3, <1>4 DEF AllSteady

\* What is written back to the tasks of a live thread is what they are.
LEMMA SteadySaveTasks ==
    ASSUME Typed, AllSteady, NEW p \in Readers, SaveTasks(p)
    PROVE  /\ AllSteady'
           /\ \A r \in Runs : Live(r) => task'[r] = task[r]
<1>1. /\ OtherReaders(p) /\ UNCHANGED <<run, quiet, thread, origin>>
      /\ reader[p].stage = "judged" /\ reader[p].of \in Runs
      /\ reader'[p] = [reader[p] EXCEPT !.stage = "saved"]
      /\ task'[reader[p].of] = reader[p].tasks
      /\ \A q \in Runs : q # reader[p].of => task'[q] = task[q]
  BY SaveTasksStep
<1>2. reader[p] \in Readings
  BY DEF Typed, TypeOK, Readings, Maps
<1>3. reader'[p].of = reader[p].of /\ reader'[p].tasks = reader[p].tasks
  BY <1>1, <1>2 DEF Readings
<1>4. \A r \in Runs : Live(r) => task'[r] = task[r]
  <2>1. Sees(p)
    BY DEF AllSteady
  <2> QED BY <1>1, <2>1 DEF Sees
<1>5. ASSUME NEW r \in Runs PROVE Steady(r)'
  <2>1. Steady(r) /\ quiet'[r] = quiet[r] /\ thread'[r] = thread[r] /\ origin'[r] = origin[r]
    BY <1>1 DEF AllSteady
  <2>2. CASE Live(r)
    BY <1>4, <2>1, <2>2 DEF Steady, Busy, At, Layer
  <2>3. CASE ~Live(r)
    BY <2>1, <2>3 DEF Steady, Live, At, Early, Looping
  <2> QED BY <2>2, <2>3
<1>6. ASSUME NEW q \in Readers PROVE Sees(q)'
  <2>1. /\ reader'[q].stage \in {"judged", "saved"} => reader[q].stage \in {"judged", "saved"}
        /\ reader'[q].of = reader[q].of /\ reader'[q].tasks = reader[q].tasks
    BY <1>1, <1>3 DEF OtherReaders
  <2> SUFFICES ASSUME reader[q].stage \in {"judged", "saved"}, Live(reader[q].of)
               PROVE  /\ \A t \in Tasks : task'[reader[q].of][t] \in Over
                      /\ reader[q].tasks = task'[reader[q].of]
    BY <1>1, <2>1 DEF Sees, Live, AllOver
  <2>2. Sees(q) /\ reader[q].of \in Runs
    BY DEF AllSteady, Typed, Placed
  <2>3. task'[reader[q].of] = task[reader[q].of]
    BY <1>4, <2>2
  <2> QED BY <2>2, <2>3 DEF Sees, AllOver
<1> QED BY <1>4, <1>5, <1>6 DEF AllSteady

\* The other writes, the start of a run, and the host that does not sleep.
LEMMA SteadyRest ==
    ASSUME Typed, AllMade, AllSteady, Awake',
           \/ \E p \in Readers : SaveRun(p)
           \/ \E r \in Runs : Start(r) \/ \E p \in Readers : Resume(p, r)
           \/ Crash \/ Sleep \/ \E r \in Runs : FallSilent(r)
    PROVE  AllSteady'
<1>1. ASSUME NEW p \in Readers, SaveRun(p)
      PROVE  AllSteady'
  <2>1. /\ OtherReaders(p) /\ UNCHANGED <<task, origin, thread>>
        /\ \A q \in Runs : quiet'[q] => quiet[q]
        /\ reader'[p].stage \notin {"judged", "saved"}
    BY <1>1, SaveRunStep DEF SameResults
  <2>2. ASSUME NEW r \in Runs PROVE Steady(r)'
    BY <2>1 DEF AllSteady, Steady, Busy, At, Layer
  <2>3. ASSUME NEW q \in Readers PROVE Sees(q)'
    BY <2>1 DEF AllSteady, Sees, OtherReaders, Live, AllOver
  <2> QED BY <2>2, <2>3 DEF AllSteady
<1>2. ASSUME NEW r \in Runs, Start(r) \/ \E p \in Readers : Resume(p, r)
      PROVE  AllSteady'
  <2>1. /\ Alone(r) /\ SameResults /\ run[r] = "none" /\ Goes(r, "begin")
        /\ \A q \in Readers : reader'[q] = reader[q] \/ reader'[q].stage = "rest"
    BY <1>2, NewRunStep
  <2>2. Made(r) /\ thread[r] \in Threads
    BY ThreadTyped DEF AllMade, Typed
  <2>3. /\ thread'[r].stage = "begin" /\ thread'[r].done = thread[r].done
        /\ Busy(r)' = Busy(r) /\ At(r, "none")
    BY <2>1, <2>2 DEF Threads, Busy, Goes, Made
  <2> QED BY <2>1, <2>3, SteadyGoes DEF At, Early
<1>3. CASE Crash \/ Sleep \/ \E r \in Runs : FallSilent(r)
  <2>1. /\ Typed' /\ SameResults /\ UNCHANGED reader
        /\ \A r \in Runs : thread'[r] = thread[r] \/ thread'[r].stage = "dead"
        /\ \A r \in Runs : quiet'[r] => quiet[r] \/ At(r, "dead")
    BY <1>3, HostStep DEF Awake
  <2>2. ASSUME NEW r \in Runs PROVE Steady(r)'
    <3>1. Steady(r) /\ task'[r] = task[r] /\ origin'[r] = origin[r]
          /\ (quiet'[r] => At(r, "dead"))
      BY <2>1 DEF AllSteady, Steady, SameResults
    <3>2. CASE thread'[r] = thread[r]
      BY <3>1, <3>2 DEF Steady, Busy, At, Layer
    <3>3. CASE thread'[r].stage = "dead"
      BY <3>1, <3>3 DEF Steady, At, Early, Looping
    <3> QED BY <2>1, <3>2, <3>3
  <2>3. ASSUME NEW p \in Readers PROVE Sees(p)'
    <3> SUFFICES ASSUME reader[p].stage \in {"judged", "saved"}, Live(reader[p].of)'
                 PROVE  AllOver(reader[p].of) /\ reader[p].tasks = task[reader[p].of]
      BY <2>1 DEF Sees, SameResults, AllOver, Live
    <3>1. reader[p].of \in Runs /\ Sees(p)
      BY DEF Typed, Placed, AllSteady
    <3>2. Live(reader[p].of)
      BY <2>1, <3>1 DEF Live, Early, Looping
    <3> QED BY <3>1, <3>2 DEF Sees
  <2> QED BY <2>2, <2>3 DEF AllSteady
<1> QED BY <1>1, <1>2, <1>3

\* The steps of a thread.
LEMMA SteadyThread ==
    ASSUME Typed, AllMade, AllSteady, NEW r \in Runs, ThreadActs(r)
    PROVE  AllSteady'
<1>1. reader' = reader /\ thread[r] \in Threads
  BY ThreadLeavesReaders, ThreadTyped DEF Typed
<1>2. CASE Cancel(r)
  <2>1. /\ Alone(r) /\ thread[r].stage # "dead" /\ SameResults
        /\ thread'[r] = [thread[r] EXCEPT !.cancel = TRUE]
    BY <1>2, CancelStep
  <2>2. /\ thread'[r].stage = thread[r].stage /\ thread'[r].done = thread[r].done
        /\ Busy(r)' = Busy(r)
    BY <1>1, <2>1 DEF Threads, Busy
  <2> QED BY <1>1, <2>1, <2>2, SteadyGoes DEF At
<1>3. CASE Begin(r)
  <2>1. /\ Alone(r) /\ At(r, "begin") /\ (Goes(r, "layer") \/ Goes(r, "overlay"))
        /\ SameResults
    BY <1>3, BeginStep
  <2>2. /\ thread'[r].stage \in {"layer", "overlay"} /\ thread'[r].done = thread[r].done
        /\ Busy(r)' = Busy(r)
    BY <1>1, <2>1 DEF Threads, Busy, Goes
  <2> QED BY <1>1, <2>1, <2>2, SteadyGoes DEF At, Early
<1>4. CASE Sync(r) \/ SyncFails(r)
  <2>1. /\ Alone(r) /\ At(r, "sync") /\ SameResults
        /\ \/ thread'[r] = [thread[r] EXCEPT !.stage = "layer", !.seen = task[r]]
           \/ Goes(r, "layer")
    BY <1>4, SyncStep
  <2>2. /\ thread'[r].stage = "layer" /\ thread'[r].done = thread[r].done
        /\ Busy(r)' = Busy(r)
    BY <1>1, <2>1 DEF Threads, Busy, Goes
  <2> QED BY <1>1, <2>1, <2>2, SteadyGoes DEF At
<1>5. CASE ThreadDies(r) \/ Finish(r) \/ CancelLayer(r) \/ BodyRaises(r)
  <2>1. Alone(r) /\ ~At(r, "dead") /\ thread'[r].stage \in {"finish", "over", "dead"}
    <3>1. CASE ThreadDies(r)
      BY <3>1, ThreadDiesStep DEF At
    <3>2. CASE Finish(r)
      BY <3>2, FinishStep DEF Finishing, At
    <3>3. CASE CancelLayer(r)
      <4>1. /\ Alone(r) /\ At(r, "layer")
            /\ thread'[r] = [thread[r] EXCEPT !.stage = "finish", !.ok = FALSE]
        BY <3>3, CancelLayerStep
      <4> QED BY <1>1, <4>1 DEF Threads, At
    <3>4. CASE BodyRaises(r)
      BY <3>4, BodyRaisesStep DEF At
    <3> QED BY <1>5, <3>1, <3>2, <3>3, <3>4
  <2> QED BY <1>1, <2>1, SteadyEnds
<1>6. ASSUME NEW t \in Tasks, WorkerEnds(r, t)
      PROVE  AllSteady'
  <2>1. /\ Alone(r) /\ At(r, "work") /\ thread'[r].stage = "work"
        /\ thread'[r].done = thread[r].done /\ Busy(r)' = Busy(r) /\ SameResults
    BY <1>6, WorkerEndsStep DEF Busy
  <2> QED BY <1>1, <2>1, SteadyGoes DEF At
<1> QED BY <1>2, <1>3, <1>4, <1>5, <1>6, SteadyOverlay, SteadyBeginLayer, SteadyEndLayer
        DEF ThreadActs, Running

\* Lapses are not forgotten.
LEMMA LapsesStay ==
    ASSUME Typed, [Next]_vars
    PROVE  lapses \subseteq lapses'
<1>1. ASSUME NEW r \in Runs,
             ThreadActs(r) \/ Start(r) \/ \E p \in Readers : Resume(p, r)
      PROVE  lapses \subseteq lapses'
  BY <1>1, NewRunStep, CancelStep, BeginStep, OverlayStep, BeginLayerStep, CancelLayerStep,
     EndLayerStep, SyncStep, FinishStep, WorkerEndsStep, BodyRaisesStep, ThreadDiesStep
     DEF ThreadActs, Running
<1>2. ASSUME NEW p \in Readers, Reading(p) \/ SaveRaises(p) \/ \E r \in Runs : Load(p, r)
      PROVE  lapses \subseteq lapses'
  BY <1>2, ReaderStep, SaveTasksStep, SaveRunStep DEF Reading
<1>3. CASE Crash \/ Sleep \/ \E r \in Runs : FallSilent(r)
  BY <1>3, HostStep
<1>4. CASE UNCHANGED vars
  BY <1>4 DEF vars
<1> QED BY <1>1, <1>2, <1>3, <1>4 DEF Next, ThreadActs

\* Every step of a host that is awake keeps the runs steady.
LEMMA SteadyStep ==
    ASSUME Typed, AllMade, AllSteady, Awake', [Next]_vars
    PROVE  AllSteady'
<1>1. ASSUME NEW r \in Runs, ThreadActs(r)
      PROVE  AllSteady'
  BY <1>1, SteadyThread
<1>2. ASSUME NEW p \in Readers, Reading(p) \/ SaveRaises(p) \/ \E r \in Runs : Load(p, r)
      PROVE  AllSteady'
  BY <1>2, SteadyReader, SteadySaveTasks, SteadyRest DEF Reading
<1>3. CASE \/ \E r \in Runs : Start(r) \/ \E p \in Readers : Resume(p, r)
           \/ Crash \/ Sleep \/ \E r \in Runs : FallSilent(r)
  BY <1>3, SteadyRest
<1>4. CASE UNCHANGED vars
  BY <1>4 DEF vars, files, AllSteady, Steady, Sees, Busy, At, Layer, Live, AllOver
<1> QED BY <1>1, <1>2, <1>3, <1>4 DEF Next, ThreadActs

\* At first no log is silent and no task is begun.
LEMMA InitSteady == Init => AllSteady
<1> SUFFICES ASSUME Init PROVE AllSteady
  OBVIOUS
<1>1. ASSUME NEW r \in Runs PROVE Steady(r)
  BY RestTyped DEF Init, Steady, At, Early, Looping
<1>2. ASSUME NEW p \in Readers PROVE Sees(p)
  BY RestTyped DEF Init, Sees
<1> QED BY <1>1, <1>2 DEF AllSteady

-----------------------------------------------------------------------------
(* A result stands on those its run shows.                                 *)

\* Every result was made from the results that its run has for the upstreams.
Agrees ==
    \A r \in Runs, t \in Tasks :
        origin[r][t] # 0 => \A d \in Deps[t] : /\ origin[r][d] # 0
                                               /\ origin[r][d] = origin[origin[r][t]][d]

\* What has been made is not made anew.
Frozen(r) == \A t \in Tasks : origin[r][t] # 0 => origin'[r][t] = origin[r][t]

\* The workers of a run write only what had not been made.
LEMMA WritesNew ==
    ASSUME Typed, AllMade, AllSteady, NEW r \in Runs,
           thread[r].stage \in {"overlay", "layer", "work"},
           NEW some \in SUBSET Ended(r), Writes(r, some)
    PROVE  /\ Frozen(r)
           /\ \A t \in Tasks : origin[r][t] # 0 => task'[r][t] = task[r][t]
           /\ \A t \in Tasks : origin'[r][t] # origin[r][t] =>
                 /\ origin'[r][t] = r /\ task'[r][t] = "completed"
                 /\ \A d \in Deps[t] : origin[r][d] # 0
<1>1. Made(r) /\ Steady(r)
  BY DEF AllMade, AllSteady
<1>2. thread[r].stage # "work" => Busy(r) = {}
  BY <1>1 DEF Made, Early
<1>3. \A t \in some : t \in Busy(r)
  BY DEF Ended, Busy
<1>4. \A t \in Busy(r) : /\ At(r, "work") /\ t \in Layer(r) /\ task[r][t] = "in_progress"
                         /\ \A d \in Deps[t] : origin[r][d] # 0
  BY <1>1, <1>2 DEF Made, Steady, At
<1>5. \A t \in Busy(r) : origin[r][t] = 0
  BY <1>1, <1>4 DEF Steady, Looping, At, Layer
<1> QED BY <1>3, <1>4, <1>5 DEF Writes, Frozen

\* Only an overlay, the end of a layer and an exception in the body make results.
LEMMA OriginStep ==
    ASSUME Typed, [Next]_vars
    PROVE  \/ origin' = origin
           \/ \E r \in Runs : Overlay(r) \/ EndLayer(r) \/ BodyRaises(r)
<1>1. ASSUME NEW r \in Runs, ThreadActs(r)
      PROVE  origin' = origin \/ Overlay(r) \/ EndLayer(r) \/ BodyRaises(r)
  BY <1>1, CancelStep, BeginStep, BeginLayerStep, CancelLayerStep, SyncStep, FinishStep,
     WorkerEndsStep, ThreadDiesStep DEF ThreadActs, Running, SameResults
<1>2. ASSUME NEW r \in Runs, Start(r) \/ \E p \in Readers : Resume(p, r)
      PROVE  origin' = origin
  BY <1>2, NewRunStep DEF SameResults
<1>3. ASSUME NEW p \in Readers, Reading(p) \/ SaveRaises(p) \/ \E r \in Runs : Load(p, r)
      PROVE  origin' = origin
  BY <1>3, ReaderStep, SaveTasksStep, SaveRunStep DEF Reading, SameResults
<1>4. CASE Crash \/ Sleep \/ \E r \in Runs : FallSilent(r)
  BY <1>4, HostStep DEF SameResults
<1>5. CASE UNCHANGED vars
  BY <1>5 DEF vars
<1> QED BY <1>1, <1>2, <1>3, <1>4, <1>5 DEF Next, ThreadActs

\* What a resumed run keeps, it keeps with what it was made from.
LEMMA AgreesOverlay ==
    ASSUME Typed, AllMade, AllSteady, Agrees, NEW r \in Runs, Overlay(r)
    PROVE  Agrees'
<1>1. Alone(r) /\ At(r, "overlay")
  BY OverlayStep
<1>2. PICK prev \in Runs, kept \in SUBSET Tasks : Keeps(r, prev, kept)
  BY OverlayStep
<1>3. \A t \in Tasks : origin[r][t] = 0
  BY <1>1 DEF AllMade, Made, At, Early
<1>4. \A q \in Runs, t \in Tasks : origin[q][t] # 0 => origin'[q][t] = origin[q][t]
  BY <1>1, <1>3 DEF Alone, Others
<1>5. /\ \A t \in Tasks : Deps[t] \subseteq Tasks
      /\ \A q \in Runs, t \in Tasks : origin[q][t] # 0 => origin[q][t] \in Runs
  BY SwarmAssumption DEF Typed, TypeOK, Runs
<1> SUFFICES ASSUME NEW q \in Runs, NEW t \in Tasks, origin'[q][t] # 0, NEW d \in Deps[t]
             PROVE  origin'[q][d] # 0 /\ origin'[q][d] = origin'[origin'[q][t]][d]
  BY DEF Agrees
<1>6. ASSUME NEW q0 \in Runs, origin[q0][t] # 0, origin'[q][t] = origin[q0][t],
             origin'[q][d] = origin[q0][d]
      PROVE  origin'[q][d] # 0 /\ origin'[q][d] = origin'[origin'[q][t]][d]
  <2>1. /\ origin[q0][d] # 0 /\ origin[q0][d] = origin[origin[q0][t]][d]
        /\ origin[q0][t] \in Runs /\ d \in Tasks
    BY <1>5, <1>6 DEF Agrees
  <2> QED BY <1>4, <1>6, <2>1
<1>7. CASE q # r
  BY <1>1, <1>6, <1>7 DEF Alone, Others
<1>8. CASE q = r
  <2>1. t \in kept /\ origin'[r][t] = origin[prev][t]
    BY <1>2, <1>8 DEF Keeps
  <2>2. d \in kept /\ d \in Tasks /\ origin'[r][d] = origin[prev][d]
    BY <1>2, <1>5, <2>1 DEF Keeps
  <2> QED BY <1>6, <1>8, <2>1, <2>2
<1> QED BY <1>7, <1>8

\* What a worker makes, it makes from what its run has.
LEMMA AgreesWrites ==
    ASSUME Typed, AllMade, AllSteady, Agrees, NEW r \in Runs, Others(r),
           thread[r].stage \in {"overlay", "layer", "work"},
           NEW some \in SUBSET Ended(r), Writes(r, some)
    PROVE  Agrees'
<1>1. /\ Frozen(r)
      /\ \A t \in Tasks : origin'[r][t] # origin[r][t] =>
            origin'[r][t] = r /\ \A d \in Deps[t] : origin[r][d] # 0
  BY WritesNew
<1>2. \A q \in Runs, t \in Tasks : origin[q][t] # 0 => origin'[q][t] = origin[q][t]
  BY <1>1 DEF Frozen, Others
<1>3. /\ \A t \in Tasks : Deps[t] \subseteq Tasks
      /\ \A q \in Runs, t \in Tasks : origin[q][t] # 0 => origin[q][t] \in Runs
  BY SwarmAssumption DEF Typed, TypeOK, Runs
<1> SUFFICES ASSUME NEW q \in Runs, NEW t \in Tasks, origin'[q][t] # 0, NEW d \in Deps[t]
             PROVE  origin'[q][d] # 0 /\ origin'[q][d] = origin'[origin'[q][t]][d]
  BY DEF Agrees
<1>4. CASE origin[q][t] # 0
  <2>1. /\ origin[q][d] # 0 /\ origin[q][d] = origin[origin[q][t]][d]
        /\ origin[q][t] \in Runs /\ d \in Tasks
    BY <1>3, <1>4 DEF Agrees
  <2> QED BY <1>2, <1>4, <2>1
<1>5. CASE origin[q][t] = 0
  <2>1. q = r
    BY <1>5 DEF Others
  <2>2. origin'[r][t] = r /\ origin[r][d] # 0 /\ d \in Tasks
    BY <1>1, <1>3, <1>5, <2>1
  <2> QED BY <1>2, <2>1, <2>2
<1> QED BY <1>4, <1>5

\* Every step of a host that is awake keeps the results in agreement.
LEMMA AgreesStep ==
    ASSUME Typed, AllMade, AllSteady, Agrees, [Next]_vars
    PROVE  Agrees'
<1>1. CASE origin' = origin
  BY <1>1 DEF Agrees
<1>2. ASSUME NEW r \in Runs, Overlay(r)
      PROVE  Agrees'
  BY <1>2, AgreesOverlay
<1>3. ASSUME NEW r \in Runs, EndLayer(r) \/ BodyRaises(r)
      PROVE  Agrees'
  <2>1. /\ Others(r) /\ thread[r].stage \in {"overlay", "layer", "work"}
        /\ \E some \in SUBSET Ended(r) : Writes(r, some)
    BY <1>3, EndLayerStep, BodyRaisesStep DEF Alone, At
  <2> QED BY <2>1, AgreesWrites
<1> QED BY <1>1, <1>2, <1>3, OriginStep

\* As long as the host does not sleep, a result stands on the results its run shows for
\* the upstreams, however often the run was resumed and whatever changed in between.
THEOREM AgreeHolds == Spec => []ResultsAgree
<1> DEFINE I == Typed /\ AllMade /\ (Awake => AllSteady /\ Agrees)
<1>1. Init => I
  <2>1. Init => Agrees
    BY DEF Init, Agrees
  <2> QED BY <2>1, InitTyped, InitMade, InitSteady
<1>2. I /\ [Next]_vars => I'
  <2> SUFFICES ASSUME I, [Next]_vars PROVE I'
    OBVIOUS
  <2>1. Typed' /\ AllMade'
    BY TypedStep, MadeStep
  <2>2. ASSUME Awake' PROVE AllSteady' /\ Agrees'
    <3>1. Awake
      BY <2>2, LapsesStay DEF Awake
    <3> QED BY <2>2, <3>1, SteadyStep, AgreesStep
  <2> QED BY <2>1, <2>2
<1>3. I => ResultsAgree
  <2> SUFFICES ASSUME I, Awake, NEW r \in Runs, NEW t \in Tasks, task[r][t] = "completed"
               PROVE  /\ origin[r][t] # 0
                      /\ \A d \in Deps[t] : /\ origin[r][d] # 0
                                            /\ origin[r][d] = origin[origin[r][t]][d]
    BY DEF ResultsAgree, Awake
  <2>1. origin[r][t] # 0
    BY DEF AllMade, Made
  <2> QED BY <2>1 DEF Agrees
<1> QED BY <1>1, <1>2, <1>3, PTL DEF Spec

-----------------------------------------------------------------------------
(* No result is lost.                                                      *)

\* What run r has made is completed in its files, and its thread knows when it cancels.
Stands(r) ==
    /\ \A t \in Tasks : origin[r][t] # 0 => task[r][t] = "completed"
    /\ At(r, "layer") => \A t \in Tasks : origin[r][t] # 0 => thread[r].seen[t] = "completed"

\* What a reader is to write back has it completed too.
Finds(p) ==
    reader[p].stage \in {"judged", "saved"} =>
        \A t \in Tasks : origin[reader[p].of][t] # 0 => reader[p].tasks[t] = "completed"

AllStand == (\A r \in Runs : Stands(r)) /\ (\A p \in Readers : Finds(p))

\* A step of one run that makes nothing a reader does not know of.
LEMMA StandAlone ==
    ASSUME Typed, AllSteady, AllStand, NEW r \in Runs, Others(r), Stands(r)',
           origin'[r] = origin[r] \/ (Live(r) /\ (AllOver(r) => origin'[r] = origin[r])),
           \A p \in Readers : reader'[p] = reader[p] \/ reader'[p].stage = "rest"
    PROVE  AllStand'
<1>1. ASSUME NEW q \in Runs \ {r}
      PROVE  Stands(q)'
  <2>1. Stands(q) /\ task'[q] = task[q] /\ origin'[q] = origin[q] /\ thread'[q] = thread[q]
    BY DEF AllStand, Others
  <2> QED BY <2>1 DEF Stands, At
<1>2. ASSUME NEW p \in Readers, reader'[p].stage \in {"judged", "saved"}
      PROVE  Finds(p)'
  <2>1. reader'[p] = reader[p] /\ Finds(p) /\ Sees(p) /\ reader[p].stage \in {"judged", "saved"}
    BY <1>2 DEF AllStand, AllSteady
  <2>2. PICK q \in Runs : q = reader[p].of
    BY <2>1 DEF Typed, Placed
  <2>3. origin'[q] = origin[q]
    BY <2>1, <2>2 DEF Others, Sees
  <2> QED BY <2>1, <2>2, <2>3 DEF Finds
<1>3. ASSUME NEW p \in Readers PROVE Finds(p)'
  BY <1>2 DEF Finds
<1> QED BY <1>1, <1>3 DEF AllStand

\* What a resumed run keeps is completed, and it has read so.
LEMMA StandOverlay ==
    ASSUME Typed, AllMade, AllSteady, AllStand, NEW r \in Runs, Overlay(r)
    PROVE  AllStand'
<1>1. /\ Alone(r) /\ At(r, "overlay")
      /\ thread'[r] = [thread[r] EXCEPT !.stage = "layer", !.seen = task'[r]]
  BY OverlayStep
<1>2. PICK prev \in Runs, kept \in SUBSET Tasks : Keeps(r, prev, kept)
  BY OverlayStep
<1>3. thread'[r].seen = task'[r] /\ reader' = reader
  BY <1>1, ThreadTyped, ThreadLeavesReaders DEF Threads, Typed, ThreadActs, Running
<1>4. Stands(r)'
  BY <1>2, <1>3 DEF Stands, Keeps
<1>5. Live(r) /\ (AllOver(r) => origin'[r] = origin[r])
  <2>1. \A t \in Tasks : task[r][t] = "blocked"
    BY <1>1 DEF AllSteady, Steady, At, Early
  <2>2. AllOver(r) => Tasks = {}
    BY <2>1 DEF AllOver, Over
  <2>3. Tasks = {} => origin'[r] = origin[r]
    BY <1>1 DEF Alone, Typed, TypeOK
  <2> QED BY <1>1, <2>2, <2>3 DEF Live, At, Early
<1> QED BY <1>1, <1>3, <1>4, <1>5, StandAlone DEF Alone

\* What the workers have made is written as completed, and over what had not been made.
LEMMA StandWrites ==
    ASSUME Typed, AllMade, AllSteady, AllStand, NEW r \in Runs, Alone(r), reader' = reader,
           thread[r].stage \in {"overlay", "layer", "work"}, thread'[r].stage # "layer",
           NEW some \in SUBSET Ended(r), Writes(r, some)
    PROVE  AllStand'
<1>1. /\ Frozen(r)
      /\ \A t \in Tasks : origin[r][t] # 0 => task'[r][t] = task[r][t]
      /\ \A t \in Tasks : origin'[r][t] # origin[r][t] => task'[r][t] = "completed"
  BY WritesNew
<1>2. Stands(r)'
  BY <1>1 DEF AllStand, Stands, At
<1>3. Live(r) /\ (AllOver(r) => origin'[r] = origin[r])
  <2>1. Made(r) /\ Steady(r)
    BY DEF AllMade, AllSteady
  <2>2. \A t \in Ended(r) : task[r][t] = "in_progress"
    BY <2>1 DEF Made, Steady, Busy, Ended, At, Early
  <2>3. AllOver(r) => \A t \in Tasks : t \notin some
    BY <2>2 DEF AllOver, Over
  <2>4. AllOver(r) => \A t \in Tasks : origin'[r][t] = origin[r][t]
    BY <2>3 DEF Writes
  <2>5. AllOver(r) => origin'[r] = origin[r]
    BY <2>4 DEF Alone, Typed, TypeOK
  <2> QED BY <2>5 DEF Live, Early, Looping
<1> QED BY <1>2, <1>3, StandAlone DEF Alone

\* The steps of a thread that make nothing.
LEMMA StandThread ==
    ASSUME Typed, AllMade, AllSteady, AllStand, lapses' = {}, NEW r \in Runs, ThreadActs(r)
    PROVE  AllStand'
<1>1. /\ reader' = reader /\ thread[r] \in Threads /\ Made(r) /\ Stands(r)
  BY ThreadLeavesReaders, ThreadTyped DEF Typed, AllMade, AllStand
<1>2. ASSUME Others(r), SameResults,
             \/ thread'[r].stage # "layer"
             \/ \A t \in Tasks : origin[r][t] # 0 => thread'[r].seen[t] = "completed"
      PROVE  AllStand'
  BY <1>1, <1>2, StandAlone DEF SameResults, Stands, At
<1>3. CASE Cancel(r)
  <2>1. /\ Alone(r) /\ SameResults /\ thread'[r] = [thread[r] EXCEPT !.cancel = TRUE]
    BY <1>3, CancelStep
  <2>2. thread'[r].stage = thread[r].stage /\ thread'[r].seen = thread[r].seen
    BY <1>1, <2>1 DEF Threads
  <2> QED BY <1>1, <1>2, <2>1, <2>2 DEF Alone, Stands, At
<1>4. CASE Begin(r)
  <2>1. Alone(r) /\ At(r, "begin") /\ SameResults
    BY <1>4, BeginStep
  <2> QED BY <1>1, <1>2, <2>1 DEF Alone, Made, At, Early
<1>5. CASE Sync(r) \/ SyncFails(r)
  <2>1. /\ Alone(r) /\ SameResults
        /\ thread'[r] = [thread[r] EXCEPT !.stage = "layer", !.seen = task[r]]
    BY <1>5, SyncStep
  <2>2. thread'[r].seen = task[r]
    BY <1>1, <2>1 DEF Threads
  <2> QED BY <1>1, <1>2, <2>1, <2>2 DEF Alone, Stands
<1>6. CASE ThreadDies(r) \/ Finish(r)
  BY <1>2, <1>6, ThreadDiesStep, FinishStep DEF Alone
<1>7. ASSUME NEW t \in Tasks, WorkerEnds(r, t)
      PROVE  AllStand'
  BY <1>2, <1>7, WorkerEndsStep DEF Alone
<1>8. CASE BeginLayer(r)
  <2>1. /\ Alone(r) /\ origin' = origin
        /\ \A t \in Tasks : task[r][t] = "completed" /\ t \notin Ready(r) =>
              task'[r][t] = "completed"
        /\ thread'[r] = [thread[r] EXCEPT !.stage = "work", !.out = Ready(r)]
    BY <1>8, BeginLayerStep
  <2>2. thread'[r].stage = "work"
    BY <1>1, <2>1 DEF Threads
  <2>3. \A t \in Ready(r) : task[r][t] # "completed"
    BY DEF Ready
  <2>4. Stands(r)'
    BY <1>1, <2>1, <2>2, <2>3 DEF Stands, At
  <2> QED BY <1>1, <2>1, <2>4, StandAlone DEF Alone
<1>9. CASE CancelLayer(r)
  <2>1. /\ Alone(r) /\ At(r, "layer") /\ origin' = origin
        /\ \A t \in Tasks : \/ task'[r][t] = task[r][t]
                            \/ task'[r][t] = "cancelled" /\ t \in Cancelled(r)
        /\ thread'[r] = [thread[r] EXCEPT !.stage = "finish", !.ok = FALSE]
    BY <1>9, CancelLayerStep
  <2>2. thread'[r].stage = "finish"
    BY <1>1, <2>1 DEF Threads
  <2>3. \A t \in Tasks : origin[r][t] # 0 => t \notin Cancelled(r)
    BY <1>1, <2>1 DEF Stands, Cancelled
  <2>4. Stands(r)'
    BY <1>1, <2>1, <2>2, <2>3 DEF Stands, At
  <2> QED BY <1>1, <2>1, <2>4, StandAlone DEF Alone
<1>10. CASE EndLayer(r) \/ BodyRaises(r)
  <2>1. /\ Alone(r) /\ thread[r].stage \in {"overlay", "layer", "work"}
        /\ thread'[r].stage # "layer"
        /\ \E some \in SUBSET Ended(r) : Writes(r, some)
    BY <1>10, EndLayerStep, BodyRaisesStep DEF At
  <2> QED BY <1>1, <2>1, StandWrites
<1> QED BY <1>3, <1>4, <1>5, <1>6, <1>7, <1>8, <1>9, <1>10, StandOverlay
        DEF ThreadActs, Running

\* The steps of a reader.
LEMMA StandReader ==
    ASSUME Typed, AllStand, NEW p \in Readers,
           Reading(p) \/ SaveRaises(p) \/ \E r \in Runs : Load(p, r)
    PROVE  AllStand'
<1>1. CASE Hydrate(p) \/ Answer(p) \/ SaveRaises(p) \/ \E r \in Runs : Load(p, r)
  <2>1. /\ OtherReaders(p) /\ UNCHANGED <<task, thread, origin>>
        /\ reader'[p].stage \notin {"judged", "saved"} \/ Judges(p)
    BY <1>1, ReaderStep
  <2>2. ASSUME NEW r \in Runs PROVE Stands(r)'
    BY <2>1 DEF AllStand, Stands, At
  <2>3. ASSUME NEW q \in Readers \ {p} PROVE Finds(q)'
    BY <2>1 DEF AllStand, Finds, OtherReaders
  <2>4. ASSUME Judges(p) PROVE Finds(p)'
    <3>1. PICK r \in Runs : r = reader'[p].of
      BY <2>4 DEF Judges
    <3>2. reader'[p].tasks = Reaped(task[r]) /\ Stands(r) /\ task[r] \in Maps
      BY <2>4, <3>1 DEF Judges, AllStand, Typed, TypeOK, Maps
    <3>3. \A t \in Tasks : Reaped(task[r])[t] = "completed" <=> task[r][t] = "completed"
      BY <3>2, ReapedTyped
    <3> QED BY <2>1, <3>1, <3>2, <3>3 DEF Finds, Stands
  <2>5. Finds(p)'
    BY <2>1, <2>4 DEF Finds
  <2> QED BY <2>2, <2>3, <2>5 DEF AllStand
<1>2. CASE SaveTasks(p)
  <2>1. /\ OtherReaders(p) /\ UNCHANGED <<thread, origin>>
        /\ reader[p].stage = "judged" /\ reader[p].of \in Runs
        /\ reader'[p] = [reader[p] EXCEPT !.stage = "saved"]
        /\ task'[reader[p].of] = reader[p].tasks
        /\ \A q \in Runs : q # reader[p].of => task'[q] = task[q]
    BY <1>2, SaveTasksStep
  <2>2. reader'[p].of = reader[p].of /\ reader'[p].tasks = reader[p].tasks
    BY <2>1 DEF Typed, TypeOK
  <2>3. Finds(p)
    BY DEF AllStand
  <2>4. ASSUME NEW r \in Runs PROVE Stands(r)'
    BY <2>1, <2>3 DEF AllStand, Stands, Finds, At
  <2>5. Finds(p)'
    BY <2>1, <2>2, <2>3 DEF Finds
  <2>6. ASSUME NEW q \in Readers \ {p} PROVE Finds(q)'
    <3>1. Finds(q) /\ reader'[q] = reader[q]
      BY <2>1 DEF AllStand, OtherReaders
    <3> QED BY <2>1, <3>1 DEF Finds
  <2> QED BY <2>4, <2>5, <2>6 DEF AllStand
<1>3. CASE SaveRun(p)
  <2>1. /\ OtherReaders(p) /\ UNCHANGED <<task, origin, thread>>
        /\ reader'[p].stage \notin {"judged", "saved"}
    BY <1>3, SaveRunStep DEF SameResults
  <2>2. ASSUME NEW r \in Runs PROVE Stands(r)'
    BY <2>1 DEF AllStand, Stands, At
  <2>3. ASSUME NEW q \in Readers PROVE Finds(q)'
    BY <2>1 DEF AllStand, Finds, OtherReaders
  <2> QED BY <2>2, <2>3 DEF AllStand
<1> QED BY <1>1, <1>2, <1>3 DEF Reading

\* Every step without a lapse leaves the results where they are.
LEMMA StandStep ==
    ASSUME Typed, AllMade, AllSteady, AllStand, lapses' = {}, [Next]_vars
    PROVE  AllStand'
<1>1. ASSUME NEW r \in Runs, ThreadActs(r)
      PROVE  AllStand'
  BY <1>1, StandThread
<1>2. ASSUME NEW p \in Readers, Reading(p) \/ SaveRaises(p) \/ \E r \in Runs : Load(p, r)
      PROVE  AllStand'
  BY <1>2, StandReader
<1>3. ASSUME NEW r \in Runs, Start(r) \/ \E p \in Readers : Resume(p, r)
      PROVE  AllStand'
  <2>1. /\ Alone(r) /\ SameResults /\ Goes(r, "begin")
        /\ \A q \in Readers : reader'[q] = reader[q] \/ reader'[q].stage = "rest"
    BY <1>3, NewRunStep
  <2>2. thread'[r].stage = "begin" /\ Stands(r)
    BY <2>1, ThreadTyped DEF Goes, Threads, Typed, AllStand
  <2> QED BY <2>1, <2>2, StandAlone DEF Alone, SameResults, Stands, At
<1>4. CASE Crash \/ Sleep \/ \E r \in Runs : FallSilent(r)
  <2>1. /\ UNCHANGED <<task, origin, reader>>
        /\ \A r \in Runs : thread'[r] = thread[r] \/ thread'[r].stage = "dead"
    BY <1>4, HostStep DEF SameResults
  <2>2. ASSUME NEW r \in Runs PROVE Stands(r)'
    BY <2>1 DEF AllStand, Stands, At
  <2>3. ASSUME NEW p \in Readers PROVE Finds(p)'
    BY <2>1 DEF AllStand, Finds
  <2> QED BY <2>2, <2>3 DEF AllStand
<1>5. CASE UNCHANGED vars
  BY <1>5 DEF vars, files, AllStand, Stands, Finds, At
<1> QED BY <1>1, <1>2, <1>3, <1>4, <1>5 DEF Next, ThreadActs

\* As long as the host does not sleep and a thread can read its files, a task that has a
\* result stays completed, whatever is cancelled, raises or dies, and whoever reconciles.
THEOREM KeptHolds == Spec => []ResultsKept
<1> DEFINE I == /\ Typed /\ AllMade /\ (Awake => AllSteady)
                /\ (lapses = {} => AllStand)
<1>1. Init => I
  <2>1. Init => AllStand
    <3> SUFFICES ASSUME Init PROVE AllStand
      OBVIOUS
    <3>1. ASSUME NEW r \in Runs PROVE Stands(r)
      BY DEF Init, Stands
    <3>2. ASSUME NEW p \in Readers PROVE Finds(p)
      BY RestTyped DEF Init, Finds
    <3> QED BY <3>1, <3>2 DEF AllStand
  <2> QED BY <2>1, InitTyped, InitMade, InitSteady
<1>2. I /\ [Next]_vars => I'
  <2> SUFFICES ASSUME I, [Next]_vars PROVE I'
    OBVIOUS
  <2>1. Typed' /\ AllMade' /\ lapses \subseteq lapses'
    BY TypedStep, MadeStep, LapsesStay
  <2>2. ASSUME Awake' PROVE AllSteady'
    BY <2>1, <2>2, SteadyStep DEF Awake
  <2>3. ASSUME lapses' = {} PROVE AllStand'
    <3>1. lapses = {} /\ AllSteady
      BY <2>1, <2>3 DEF Awake
    <3> QED BY <2>3, <3>1, StandStep
  <2> QED BY <2>1, <2>2, <2>3
<1>3. I => ResultsKept
  BY DEF AllStand, Stands, ResultsKept
<1> QED BY <1>1, <1>2, <1>3, PTL DEF Spec

=============================================================================
