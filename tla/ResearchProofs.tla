---------------------------- MODULE ResearchProofs ----------------------------
(* Proofs about scheduled research and its outbox, for every set of jobs,   *)
(* lease, schedule and back-off, and any number of dispatches.             *)
EXTENDS ScheduledResearch, FiniteSetTheorems, TLAPS

-----------------------------------------------------------------------------
(* What holds of the rows in the file and of the copies in flight.          *)

\* Sweep w is sending the briefing of session f.
Sending(w, f) == sweep[w].stage = "sending" /\ sweep[w].row.delivery.session = f

\* A row that says sent is of a session that completed, and was handed over.
Proper(row) ==
    row.delivery.status = "sent" =>
        /\ row.delivery.session \in Runs
        /\ delivered[row.delivery.session] > 0 \/ row.delivery.session \in dropped
        /\ run[row.delivery.session] = "completed"

\* A copy that a sweep has left is of a session, and not delivered when it was taken.
CopiesOwed ==
    \A w \in Sweeps, j \in Jobs : Copy(w, j) # NoJob =>
        /\ Copy(w, j).delivery.session \in Runs
        /\ Copy(w, j).delivery.status \in {"none", "pending", "sending"}

\* What is being sent was claimed, and its session has completed.
SendsClaimed ==
    \A w \in Sweeps : sweep[w].stage = "sending" =>
        /\ sweep[w].job \in Jobs /\ sweep[w].row \in Rows
        /\ sweep[w].row.delivery.status = "sending"
        /\ sweep[w].row.delivery.session \in Runs
        /\ run[sweep[w].row.delivery.session] = "completed"

\* The row whose dispatch is awaited owes nothing, and a session can be given to it.
FiringFree ==
    tick.stage = "awaiting" =>
        /\ firing.job \in Jobs /\ firing.row \in Rows
        /\ firing.row.delivery.status \notin {"pending", "sending"}
        /\ Proper(firing.row)
        /\ runs < MaxRuns

RowsProper == \A j \in Jobs : file[j] # NoJob => Proper(file[j])

\* A session that is not dispatched yet has not ended.
Ahead == \A f \in Runs : f > runs => run[f] = "unsent"

Flow == CopiesOwed /\ SendsClaimed /\ FiringFree /\ RowsProper /\ Ahead

-----------------------------------------------------------------------------
(* What holds of each session.                                             *)

\* The row of job j, or a copy of it in flight, is of session f.
Has(j, f) ==
    \/ file[j] # NoJob /\ file[j].delivery.session = f
    \/ \E w \in Sweeps : Copy(w, j) # NoJob /\ Copy(w, j).delivery.session = f
    \/ \E w \in Sweeps : Sending(w, f) /\ sweep[w].job = j
    \/ tick.stage = "awaiting" /\ firing.job = j /\ firing.row.delivery.session = f

\* A session is of one job, and of none before it is dispatched.
OneJob ==
    /\ \A f \in Runs : \A j, k \in Jobs : Has(j, f) /\ Has(k, f) => j = k
    /\ \A f \in Runs : \A j \in Jobs : Has(j, f) => f <= runs
    /\ \A f \in Runs : f > runs => delivered[f] = 0

\* The briefing of f has been sent, or is being sent.
Gone(f) == delivered[f] > 0 \/ \E w \in Sweeps : Sending(w, f)

\* Unless it may be repeated, f is sent by one sweep at a time and never after it was
\* delivered, and no row owes it from when it is sent.
Once ==
    \A f \in Runs \ repeats :
        /\ delivered[f] <= 1
        /\ \A w \in Sweeps : Sending(w, f) => delivered[f] = 0
        /\ \A v, w \in Sweeps : Sending(v, f) /\ Sending(w, f) => v = w
        /\ Gone(f) => \A j \in Jobs : file[j] # NoJob /\ file[j].delivery.session = f
                                        => file[j].delivery.status # "pending"

-----------------------------------------------------------------------------
(* Numbers.                                                                *)

\* Powers of two are natural numbers.
LEMMA PowersOfTwo == \A n \in Nat : 2 ^ n \in Nat
<1> TAKE n \in Nat
<1>1. IsFiniteSet(1 .. n) /\ Cardinality(1 .. n) = n
  BY FS_Interval
<1>2. IsFiniteSet(SUBSET (1 .. n)) /\ Cardinality(SUBSET (1 .. n)) = 2 ^ n
  BY <1>1, FS_SUBSET
<1> QED BY <1>2, FS_CardinalityType

\* The smaller and the larger of two numbers.
LEMMA TwoNumbers ==
    ASSUME NEW a \in Int, NEW b \in Int
    PROVE  /\ Min({a, b}) \in {a, b} /\ Min({a, b}) <= a /\ Min({a, b}) <= b
           /\ Max({a, b}) \in {a, b} /\ Max({a, b}) >= a /\ Max({a, b}) >= b
<1>1. \E x \in {a, b} : \A y \in {a, b} : x <= y
  OBVIOUS
<1>2. \E x \in {a, b} : \A y \in {a, b} : x >= y
  OBVIOUS
<1>3. Min({a, b}) \in {a, b} /\ \A y \in {a, b} : Min({a, b}) <= y
  BY <1>1 DEF Min
<1>4. Max({a, b}) \in {a, b} /\ \A y \in {a, b} : Max({a, b}) >= y
  BY <1>2 DEF Max
<1> QED BY <1>3, <1>4

\* The delay of a retry is a natural number.
LEMMA DelayTyped == \A fails \in Nat \ {0} : RetryDelay(fails) \in Nat
<1> TAKE fails \in Nat \ {0}
<1>1. 2 ^ (fails - 1) \in Nat
  BY PowersOfTwo
<1> DEFINE doubled == RetryBase * 2 ^ (fails - 1)
<1>2. doubled \in Nat /\ RetryMax \in Nat
  BY <1>1, ResearchAssumption
<1>3. RetryDelay(fails) = Min({doubled, RetryMax})
  BY DEF RetryDelay
<1> HIDE DEF doubled
<1>4. Min({doubled, RetryMax}) \in {doubled, RetryMax}
  <2>1. doubled \in Int /\ RetryMax \in Int
    BY <1>2
  <2> QED BY <2>1, TwoNumbers
<1> QED BY <1>2, <1>3, <1>4

-----------------------------------------------------------------------------
(* What becomes of a row.                                                  *)

\* A change of the delivery of a row.
LEMMA DeliveryChange ==
    ASSUME NEW row \in Rows, NEW d \in Deliveries
    PROVE  /\ [row EXCEPT !.delivery = d] \in Rows
           /\ [row EXCEPT !.delivery = d].delivery = d
           /\ [row EXCEPT !.delivery = d].born = row.born
  BY DEF Rows

\* A delivery that failed is owed again or has failed for good.
LEMMA FailedTyped ==
    ASSUME NEW row \in Rows, NEW retryable \in BOOLEAN, now \in 0 .. MaxTime
    PROVE  LET q == FailedDelivery(row, retryable) IN
           /\ q \in Rows
           /\ q.delivery.session = row.delivery.session
           /\ q.delivery.status \in {"pending", "failed"}
           /\ ~retryable => q.delivery.status = "failed"
<1> DEFINE d == row.delivery
           n == IF retryable THEN d.attempts + 1 ELSE d.attempts
           e == [d EXCEPT !.attempts = n, !.at = now]
           tried == [row EXCEPT !.delivery = e]
           st == IF retryable /\ tried.delivery.attempts < MaxFailures THEN "pending" ELSE "failed"
           g == [e EXCEPT !.status = st]
           q == [tried EXCEPT !.delivery = g]
<1>1. d \in Deliveries /\ d.attempts \in Nat
  BY DEF Rows, Deliveries
<1>2. n \in Nat
  BY <1>1
<1>3. e \in Deliveries /\ e.session = d.session
  <2> HIDE DEF n, d
  <2> QED BY <1>1, <1>2 DEF Deliveries
<1>4. tried \in Rows /\ tried.delivery = e
  <2> HIDE DEF e
  <2> QED BY <1>3, DeliveryChange
<1>5. g \in Deliveries /\ g.session = d.session /\ g.status = st
  <2>1. st \in {"pending", "failed"}
    OBVIOUS
  <2> HIDE DEF e, st, d
  <2> QED BY <1>3, <2>1 DEF Deliveries
<1>6. q \in Rows /\ q.delivery = g
  <2> HIDE DEF tried, g
  <2> QED BY <1>4, <1>5, DeliveryChange
<1>7. FailedDelivery(row, retryable) = q
  <2>1. FailedDelivery(row, retryable) = [tried EXCEPT !.delivery.status = st]
    BY DEF FailedDelivery, Rows, Deliveries
  <2> QED BY <1>4, <2>1
<1> QED BY <1>5, <1>6, <1>7

\* The verdict is written into the row and changes nothing else.
LEMMA VerdictTyped ==
    ASSUME NEW row \in Rows
    PROVE  WithVerdict(row) \in Rows /\ WithVerdict(row).delivery = row.delivery
  BY DEF WithVerdict, Rows, Deliveries

\* A row that is marked as sent keeps its session.
LEMMA MarkTyped ==
    ASSUME NEW row \in Rows, NEW t \in 0 .. MaxTime
    PROVE  LET q == [row EXCEPT !.delivery.status = "sent", !.delivery.at = t] IN
           /\ q \in Rows
           /\ q.delivery.session = row.delivery.session
           /\ q.delivery.status = "sent"
<1> DEFINE d == row.delivery
           e == [d EXCEPT !.status = "sent"]
           g == [e EXCEPT !.at = t]
           q == [[row EXCEPT !.delivery = e] EXCEPT !.delivery = g]
<1>1. d \in Deliveries
  BY DEF Rows
<1>2. e \in Deliveries /\ e.session = d.session /\ e.status = "sent"
  BY <1>1 DEF Deliveries
<1>3. g \in Deliveries /\ g.session = d.session /\ g.status = "sent"
  BY <1>2 DEF Deliveries
<1>4. q \in Rows /\ q.delivery = g
  BY <1>2, <1>3, DeliveryChange
<1>5. [row EXCEPT !.delivery.status = "sent", !.delivery.at = t] = q
  BY <1>1, <1>2 DEF Rows, Deliveries
<1> QED BY <1>3, <1>4, <1>5

\* A dispatched row is of the session it was given.
LEMMA AdvancedTyped ==
    ASSUME NEW row \in Rows, NEW d \in Deliveries, tick.since \in 0 .. MaxTime
    PROVE  LET q == Advanced([row EXCEPT !.fails = 0, !.delivery = d]) IN
           q \in Rows /\ q.delivery = d
<1> DEFINE r == [row EXCEPT !.fails = 0, !.delivery = d]
<1>1. r \in Rows /\ r.delivery = d
  BY DEF Rows
<1> HIDE DEF r
<1>2. tick.since + Interval \in Nat
  BY ResearchAssumption
<1>3. Advanced(r) \in Rows /\ Advanced(r).delivery = r.delivery
  BY <1>1, <1>2 DEF Advanced, Rows
<1> QED BY <1>1, <1>3 DEF r

\* A row whose dispatch failed owes what it owed before.
LEMMA RetriedTyped ==
    ASSUME NEW row \in Rows, tick.since \in 0 .. MaxTime
    PROVE  LET q == Retried([row EXCEPT !.fails = @ + 1]) IN
           q \in Rows /\ q.delivery = row.delivery
<1> DEFINE r == [row EXCEPT !.fails = @ + 1]
           wait == Max({Interval, RetryDelay(r.fails)})
<1>1. r \in Rows /\ r.delivery = row.delivery /\ r.fails \in Nat \ {0}
  BY DEF Rows
<1> HIDE DEF r
<1>2. RetryDelay(r.fails) \in Nat /\ Interval \in Nat
  BY <1>1, DelayTyped, ResearchAssumption
<1>3. wait \in {Interval, RetryDelay(r.fails)}
  BY <1>2, TwoNumbers
<1> HIDE DEF wait
<1>4. tick.since + wait \in Nat
  BY <1>2, <1>3
<1>5. Retried(r) = [r EXCEPT !.status = IF GiveUp(r) THEN "failed" ELSE "pending",
                             !.next = IF r.schedule = "spent" THEN @ ELSE tick.since + wait]
  BY DEF Retried, wait
<1>6. Retried(r) \in Rows /\ Retried(r).delivery = r.delivery
  BY <1>1, <1>4, <1>5 DEF Rows
<1> QED BY <1>1, <1>6 DEF r

-----------------------------------------------------------------------------
(* What a step does to the sweeps and to the deliveries.                   *)

SweepRecords ==
    [stage : {"idle", "rows", "sending"}, since : 0 .. MaxTime,
     left : [Jobs -> Rows \cup {NoJob}], row : Rows \cup {NoJob}, job : Jobs \cup {None}]

\* A sweep that is done with a copy.
LEMMA DoneTyped ==
    ASSUME TypeOK, NEW w \in Sweeps, NEW j \in Jobs, Done(w, j)
    PROVE  /\ sweep' \in [Sweeps -> SweepRecords] /\ loop' = w
           /\ UNCHANGED <<now, born, tick, firing, run, runs>>
           /\ sweep'[w].stage = "rows"
           /\ sweep'[w].left[j] = NoJob
           /\ \A k \in Jobs \ {j} : sweep'[w].left[k] = sweep[w].left[k]
           /\ \A v \in Sweeps \ {w} : sweep'[v] = sweep[v]
<1> DEFINE old == sweep[w]
           left == [old.left EXCEPT ![j] = NoJob]
           new == [old EXCEPT !.left = left, !.stage = "rows", !.row = NoJob, !.job = None]
<1>1. old \in SweepRecords /\ sweep \in [Sweeps -> SweepRecords]
  BY DEF TypeOK, SweepRecords
<1>2. left \in [Jobs -> Rows \cup {NoJob}] /\ left[j] = NoJob
      /\ \A k \in Jobs \ {j} : left[k] = old.left[k]
  BY <1>1 DEF SweepRecords
<1> HIDE DEF left
<1>3. new \in SweepRecords /\ new.stage = "rows" /\ new.left = left
  BY <1>1, <1>2 DEF SweepRecords
<1>4. sweep' = [sweep EXCEPT ![w] = new]
  BY <1>1 DEF Done, left, SweepRecords
<1> HIDE DEF new
<1>5. /\ sweep' \in [Sweeps -> SweepRecords] /\ sweep'[w] = new
      /\ \A v \in Sweeps \ {w} : sweep'[v] = sweep[v]
  BY <1>1, <1>3, <1>4
<1>6. loop' = w /\ UNCHANGED <<now, born, tick, firing, run, runs>>
  BY DEF Done
<1> QED BY <1>2, <1>3, <1>5, <1>6

\* A sweep that has loaded the rows.
LEMMA BeginTyped ==
    ASSUME TypeOK, NEW w \in Sweeps, BeginSweep(w)
    PROVE  /\ sweep' \in [Sweeps -> SweepRecords]
           /\ sweep'[w].stage = "rows"
           /\ \A j \in Jobs : sweep'[w].left[j] # NoJob =>
                /\ file[j] # NoJob /\ sweep'[w].left[j] = file[j]
                /\ Owed(file[j], now) \/ LacksVerdict(file[j])
           /\ \A v \in Sweeps \ {w} : sweep'[v] = sweep[v]
<1> DEFINE left == [j \in Jobs |->
               IF file[j] # NoJob /\ (Owed(file[j], now) \/ LacksVerdict(file[j]))
               THEN file[j] ELSE NoJob]
           new == [Resting EXCEPT !.stage = "rows", !.since = now, !.left = left]
<1>1. left \in [Jobs -> Rows \cup {NoJob}]
  BY DEF TypeOK
<1>2. \A j \in Jobs : left[j] # NoJob =>
         /\ file[j] # NoJob /\ left[j] = file[j]
         /\ Owed(file[j], now) \/ LacksVerdict(file[j])
  OBVIOUS
<1>3. sweep' = [sweep EXCEPT ![w] = new]
  BY DEF BeginSweep
<1> HIDE DEF left
<1>4. new \in SweepRecords /\ new.stage = "rows" /\ new.left = left
  BY <1>1 DEF Resting, SweepRecords, TypeOK
<1> HIDE DEF new
<1> QED BY <1>2, <1>3, <1>4 DEF TypeOK, SweepRecords

\* A sweep that rests has no copies.
LEMMA RestingTyped ==
    /\ Resting \in SweepRecords /\ Resting.stage = "idle"
    /\ \A j \in Jobs : Resting.left[j] = NoJob
  BY ResearchAssumption DEF Resting, SweepRecords

\* Briefings that reach their channel are counted up to two.
LEMMA ReachedTyped ==
    ASSUME TypeOK, NEW sends \in SUBSET Sweeps
    PROVE  /\ Reached(sends) \in [Runs -> 0 .. 2]
           /\ \A f \in Runs : Reached(sends)[f] >= delivered[f]
           /\ \A f \in Runs : (\A w \in sends : sweep[w].row.delivery.session # f)
                                  => Reached(sends)[f] = delivered[f]
           /\ \A w \in sends : \A f \in Runs :
                  sweep[w].row.delivery.session = f => Reached(sends)[f] > 0
           /\ \A w \in sends : \A f \in Runs : delivered[f] = 0
                  /\ (\A v \in sends : sweep[v].row.delivery.session = f => v = w)
                      => Reached(sends)[f] <= 1
<1> SUFFICES ASSUME NEW f \in Runs
             PROVE  /\ Reached(sends)[f] \in 0 .. 2
                    /\ Reached(sends)[f] >= delivered[f]
                    /\ (\A w \in sends : sweep[w].row.delivery.session # f)
                           => Reached(sends)[f] = delivered[f]
                    /\ \A w \in sends :
                          sweep[w].row.delivery.session = f => Reached(sends)[f] > 0
                    /\ \A w \in sends : delivered[f] = 0
                          /\ (\A v \in sends : sweep[v].row.delivery.session = f => v = w)
                              => Reached(sends)[f] <= 1
  BY DEF Reached
<1> DEFINE S == {w \in sends : sweep[w].row.delivery.session = f}
           c == Cardinality(S)
           total == delivered[f] + c
<1>1. S \in SUBSET Sweeps /\ Reached(sends)[f] = Min({2, total})
  BY DEF Reached
<1>2. IsFiniteSet(Sweeps)
  <2>1. Sweeps = {"tick"} \cup {"event"}
    BY DEF Sweeps
  <2>2. IsFiniteSet({"tick"})
    BY FS_Singleton
  <2>3. IsFiniteSet({"tick"} \cup {"event"})
    BY <2>2, FS_AddElement
  <2> QED BY <2>1, <2>3
<1>3. \A w : S \subseteq {w} => c <= 1
  <2> TAKE w
  <2> HAVE S \subseteq {w}
  <2>1. IsFiniteSet({w}) /\ Cardinality({w}) = 1
    BY FS_Singleton
  <2> HIDE DEF S
  <2> QED BY <2>1, FS_Subset
<1>4. IsFiniteSet(S) /\ c \in Nat /\ (c = 0 <=> S = {})
  <2> HIDE DEF S
  <2>1. IsFiniteSet(S)
    BY <1>1, <1>2, FS_Subset
  <2>2. c \in Nat
    BY <2>1, FS_CardinalityType
  <2> QED BY <2>1, <2>2, FS_EmptySet
<1>5. delivered[f] \in 0 .. 2
  BY DEF TypeOK
<1>6. \A w \in sends : sweep[w].row.delivery.session = f => S # {}
  OBVIOUS
<1>7. (\A w \in sends : sweep[w].row.delivery.session # f) => S = {}
  OBVIOUS
<1>8. \A w : (\A v \in sends : sweep[v].row.delivery.session = f => v = w) => S \subseteq {w}
  OBVIOUS
<1> HIDE DEF S, c
<1>9. total \in Int
  BY <1>4, <1>5
<1>10. Min({2, total}) \in {2, total} /\ Min({2, total}) <= 2 /\ Min({2, total}) <= total
  <2> HIDE DEF total
  <2> QED BY <1>9, TwoNumbers
<1> DEFINE m == Min({2, total})
<1>11. m \in {2, delivered[f] + c} /\ m <= 2 /\ m <= delivered[f] + c
  BY <1>10
<1> HIDE DEF m
<1>12. m \in 0 .. 2 /\ m >= delivered[f]
  BY <1>4, <1>5, <1>11
<1>13. S = {} => m = delivered[f]
  BY <1>4, <1>5, <1>11
<1>14. S # {} => m > 0
  BY <1>4, <1>5, <1>11
<1>15. ASSUME NEW w, delivered[f] = 0, S \subseteq {w}
       PROVE  m <= 1
  <2>1. c <= 1
    BY <1>3, <1>15
  <2> QED BY <1>4, <1>11, <1>15, <2>1
<1>16. Reached(sends)[f] = m
  BY <1>1 DEF m
<1> QED BY <1>6, <1>7, <1>8, <1>12, <1>13, <1>14, <1>15, <1>16

-----------------------------------------------------------------------------
(* Types, and the flow of the rows.                                        *)

\* A row stays proper while deliveries are not taken back and ends are final.
Grows ==
    \A f \in Runs : /\ delivered[f] > 0 => delivered'[f] > 0
                    /\ f \in dropped => f \in dropped'
                    /\ run[f] = "completed" => run'[f] = "completed"
                    /\ f > runs' => f > runs /\ (run[f] = "unsent" => run'[f] = "unsent")

\* What a step may do to the rows: each is kept or dropped, or a new one is proper.
RowsFlow ==
    \A j \in Jobs : file'[j] # NoJob =>
        \/ file'[j] = file[j]
        \/ file'[j].delivery.status # "sent"
        \/ /\ file'[j].delivery.session \in Runs
           /\ \/ delivered'[file'[j].delivery.session] > 0
              \/ file'[j].delivery.session \in dropped'
           /\ run'[file'[j].delivery.session] = "completed"
        \/ tick.stage = "awaiting" /\ file'[j].delivery = firing.row.delivery
        \/ file[j] # NoJob /\ file'[j].delivery = file[j].delivery

\* What it may do to the sweeps: a copy is kept, dropped or loaded, and a send ends or
\* begins with a claimed row.
SweepsFlow ==
    \A w \in Sweeps :
        /\ \A j \in Jobs : sweep'[w].left[j] # NoJob =>
              \/ sweep'[w].left[j] = sweep[w].left[j]
              \/ /\ sweep'[w].left[j].delivery.session \in Runs
                 /\ sweep'[w].left[j].delivery.status \in {"none", "pending", "sending"}
        /\ sweep'[w].stage = "sending" =>
              \/ sweep'[w] = sweep[w]
              \/ /\ sweep'[w].job \in Jobs /\ sweep'[w].row \in Rows
                 /\ sweep'[w].row.delivery.status = "sending"
                 /\ sweep'[w].row.delivery.session \in Runs
                 /\ run'[sweep'[w].row.delivery.session] = "completed"

\* What it may do to a dispatch: it is awaited as before, or begins with a free row.
FiringFlow ==
    tick'.stage = "awaiting" =>
        \/ UNCHANGED <<tick, firing, runs>>
        \/ /\ firing'.job \in Jobs /\ firing'.row \in Rows
           /\ firing'.row.delivery.status \notin {"pending", "sending"}
           /\ file[firing'.job] # NoJob
           /\ firing'.row.delivery = file[firing'.job].delivery
           /\ runs' < MaxRuns

\* A step that does no more than that to the rows, the sweeps and the dispatch keeps
\* the flow.
LEMMA FlowKept ==
    ASSUME TypeOK, Flow, Grows, RowsFlow, SweepsFlow, FiringFlow
    PROVE  Flow'
<1>1. CopiesOwed'
  BY DEF Flow, CopiesOwed, SweepsFlow, Copy
<1>2. SendsClaimed'
  BY DEF Flow, SendsClaimed, SweepsFlow, Grows
<1>3. FiringFree'
  BY DEF Flow, FiringFree, RowsProper, FiringFlow, Proper, Grows
<1>4. RowsProper'
  BY DEF Flow, FiringFree, RowsProper, RowsFlow, Proper, Grows
<1>5. Ahead'
  BY DEF Flow, Ahead, Grows
<1> QED BY <1>1, <1>2, <1>3, <1>4, <1>5 DEF Flow

\* The sweeps, the dispatch and the sessions are as they were.
LEMMA StillFlow ==
    ASSUME TypeOK, TypeOK', Flow,
           UNCHANGED <<delivered, dropped, sweep, run, runs, firing>>,
           tick' = tick \/ tick'.stage # "awaiting",
           RowsFlow
    PROVE  Flow'
<1>1. Grows /\ SweepsFlow /\ FiringFlow
  BY DEF Grows, SweepsFlow, FiringFlow
<1> QED BY <1>1, FlowKept

\* A row that is written.
LEMMA UpsertTyped ==
    ASSUME TypeOK, NEW j \in Jobs, NEW q \in Rows \cup {NoJob}, Upsert(j, q)
    PROVE  /\ file' \in [Jobs -> Rows \cup {NoJob}]
           /\ file'[j] = q
           /\ \A k \in Jobs \ {j} : file'[k] = file[k]
  BY DEF Upsert, TypeOK

\* What a sweep that comes to its copy of a row, or back from a send, has done.
Leaves(w, j) ==
    /\ sweep'[w].stage = "rows"
    /\ sweep'[w].left[j] = NoJob
    /\ \A k \in Jobs \ {j} : sweep'[w].left[k] = sweep[w].left[k]
    /\ \A v \in Sweeps \ {w} : sweep'[v] = sweep[v]
    /\ UNCHANGED <<tick, firing, run, runs>>

\* It writes row q.
LeavesWith(w, j, q) ==
    /\ Leaves(w, j)
    /\ q \in Rows
    /\ file'[j] = q
    /\ \A k \in Jobs \ {j} : file'[k] = file[k]

\* A sweep that is done with a row and writes one keeps the types.
LEMMA LeavingTyped ==
    ASSUME TypeOK, NEW w \in Sweeps, NEW j \in Jobs, NEW q \in Rows,
           Done(w, j), Upsert(j, q),
           delivered' \in [Runs -> 0 .. 2], dropped' \subseteq Runs, repeats' \subseteq Runs,
           troubles' \in 0 .. MaxTroubles
    PROVE  TypeOK' /\ LeavesWith(w, j, q)
<1>1. LeavesWith(w, j, q)
  BY DoneTyped, UpsertTyped DEF LeavesWith, Leaves
<1>2. TypeOK'
  BY DoneTyped, UpsertTyped DEF TypeOK, SweepRecords
<1> QED BY <1>1, <1>2

\* A sweep that is done with a row keeps the flow, if its row does.
LEMMA LeavingFlow ==
    ASSUME TypeOK, TypeOK', Flow, NEW w \in Sweeps, NEW j \in Jobs, Leaves(w, j),
           delivered' = delivered \/ \A f \in Runs : delivered'[f] >= delivered[f],
           dropped \subseteq dropped', RowsFlow
    PROVE  Flow'
<1>1. Grows
  <2>1. \A f \in Runs : delivered[f] \in 0 .. 2 /\ delivered'[f] \in 0 .. 2
    BY DEF TypeOK
  <2>2. run' = run /\ runs' = runs
    BY DEF Leaves
  <2> QED BY <2>1, <2>2 DEF Grows
<1>2. SweepsFlow /\ FiringFlow
  BY DEF SweepsFlow, FiringFlow, Leaves
<1> QED BY <1>1, <1>2, FlowKept

\* The copy a sweep comes to is a row of a session.
LEMMA CopyTyped ==
    ASSUME TypeOK, Flow, NEW w \in Sweeps, NEW j \in Jobs, Copy(w, j) # NoJob
    PROVE  /\ Copy(w, j) \in Rows /\ Copy(w, j).delivery.session \in Runs
           /\ Copy(w, j).delivery.status \in {"none", "pending", "sending"}
  BY DEF TypeOK, Flow, CopiesOwed, Copy

\* A verdict that is recorded leaves what the row owes alone.
LEMMA RecordVerdictStep ==
    ASSUME TypeOK, Flow, NEW w \in Sweeps, NEW j \in Jobs, RecordVerdict(w, j)
    PROVE  /\ TypeOK' /\ Flow' /\ UNCHANGED outcome
           /\ LeavesWith(w, j, WithVerdict(Copy(w, j)))
           /\ Copy(w, j) # NoJob
           /\ WithVerdict(Copy(w, j)).delivery = Copy(w, j).delivery
           /\ Copy(w, j).delivery.status = "none"
<1> DEFINE q == WithVerdict(Copy(w, j))
<1>1. Copy(w, j) # NoJob /\ Copy(w, j).delivery.status = "none"
  BY DEF RecordVerdict, AtRow, LacksVerdict
<1>2. q \in Rows /\ q.delivery = Copy(w, j).delivery
  BY <1>1, CopyTyped, VerdictTyped
<1>3. TypeOK' /\ LeavesWith(w, j, q)
  <2>1. UNCHANGED <<outcome, troubles>> /\ Done(w, j) /\ Upsert(j, q)
    BY DEF RecordVerdict
  <2> HIDE DEF q
  <2> QED BY <1>2, <2>1, LeavingTyped DEF outcome, TypeOK
<1> HIDE DEF q
<1>4. Flow'
  <2>1. RowsFlow
    BY <1>1, <1>2, <1>3 DEF RowsFlow, LeavesWith
  <2>2. delivered' = delivered /\ dropped' = dropped /\ Leaves(w, j) /\ TypeOK'
    BY <1>3 DEF LeavesWith, RecordVerdict, outcome
  <2> QED BY <2>1, <2>2, LeavingFlow
<1> QED BY <1>1, <1>2, <1>3, <1>4 DEF RecordVerdict, q

\* A read that raises puts the row back as owed or failed, and is a repeat if it
\* wrote an old copy.
LEMMA ReadRaisesStep ==
    ASSUME TypeOK, Flow, NEW w \in Sweeps, NEW j \in Jobs, ReadRaises(w, j)
    PROVE  /\ TypeOK' /\ Flow' /\ UNCHANGED delivered
           /\ \E q \in Rows : /\ LeavesWith(w, j, q)
                              /\ q.delivery.session = Copy(w, j).delivery.session
                              /\ q.delivery.status \in {"pending", "failed"}
           /\ Copy(w, j) # NoJob
           /\ repeats \subseteq repeats'
           /\ Copy(w, j).delivery.session \in repeats'
                \/ (file[j] = Copy(w, j) /\ Copy(w, j).delivery.status = "pending")
<1> DEFINE q == FailedDelivery(Copy(w, j), TRUE)
<1>1. Copy(w, j) # NoJob
  BY DEF ReadRaises, AtRow
<1>2. q \in Rows /\ q.delivery.session = Copy(w, j).delivery.session
      /\ q.delivery.status \in {"pending", "failed"}
  BY <1>1, CopyTyped, FailedTyped DEF TypeOK
<1>3. /\ repeats \subseteq repeats' /\ repeats' \subseteq Runs
      /\ Copy(w, j).delivery.session \in repeats'
           \/ (file[j] = Copy(w, j) /\ Copy(w, j).delivery.status = "pending")
  BY <1>1, CopyTyped DEF ReadRaises, TypeOK
<1>4. TypeOK' /\ LeavesWith(w, j, q)
  <2>1. Done(w, j) /\ Upsert(j, q) /\ UNCHANGED <<delivered, dropped>>
    BY DEF ReadRaises
  <2>2. troubles' \in 0 .. MaxTroubles
    BY ResearchAssumption DEF ReadRaises, TypeOK
  <2> HIDE DEF q
  <2> QED BY <1>2, <1>3, <2>1, <2>2, LeavingTyped DEF TypeOK
<1> HIDE DEF q
<1>5. Flow'
  <2>1. RowsFlow
    BY <1>2, <1>4 DEF RowsFlow, LeavesWith
  <2>2. delivered' = delivered /\ dropped' = dropped /\ Leaves(w, j) /\ TypeOK'
    BY <1>4 DEF LeavesWith, ReadRaises
  <2> QED BY <2>1, <2>2, LeavingFlow
<1> QED BY <1>1, <1>2, <1>3, <1>4, <1>5 DEF ReadRaises

\* A session that has no briefing leaves a row that has failed.
LEMMA NoBriefingStep ==
    ASSUME TypeOK, Flow, NEW w \in Sweeps, NEW j \in Jobs, NoBriefing(w, j)
    PROVE  /\ TypeOK' /\ Flow' /\ UNCHANGED outcome
           /\ \E q \in Rows : /\ LeavesWith(w, j, q)
                              /\ q.delivery.session = Copy(w, j).delivery.session
                              /\ q.delivery.status = "failed"
           /\ Copy(w, j) # NoJob
<1> DEFINE q == FailedDelivery(Copy(w, j), FALSE)
<1>1. Copy(w, j) # NoJob
  BY DEF NoBriefing, AtRow
<1>2. q \in Rows /\ q.delivery.session = Copy(w, j).delivery.session
      /\ q.delivery.status = "failed"
  BY <1>1, CopyTyped, FailedTyped DEF TypeOK
<1>3. TypeOK' /\ LeavesWith(w, j, q)
  <2>1. Done(w, j) /\ Upsert(j, q) /\ UNCHANGED <<outcome, troubles>>
    BY DEF NoBriefing
  <2> HIDE DEF q
  <2> QED BY <1>2, <2>1, LeavingTyped DEF TypeOK, outcome
<1> HIDE DEF q
<1>4. Flow'
  <2>1. RowsFlow
    BY <1>2, <1>3 DEF RowsFlow, LeavesWith
  <2>2. delivered' = delivered /\ dropped' = dropped /\ Leaves(w, j) /\ TypeOK'
    BY <1>3 DEF LeavesWith, NoBriefing, outcome
  <2> QED BY <2>1, <2>2, LeavingFlow
<1> QED BY <1>1, <1>2, <1>3, <1>4 DEF NoBriefing

\* A sweep that passes by a row writes nothing.
LEMMA SkipRowStep ==
    ASSUME TypeOK, Flow, NEW w \in Sweeps, NEW j \in Jobs, SkipRow(w, j)
    PROVE  TypeOK' /\ Flow' /\ UNCHANGED <<file, outcome>> /\ Leaves(w, j)
<1>1. Leaves(w, j)
  BY DoneTyped DEF SkipRow, Leaves
<1>2. TypeOK'
  BY DoneTyped DEF SkipRow, TypeOK, SweepRecords, outcome
<1>3. Flow'
  <2>1. delivered' = delivered /\ dropped' = dropped /\ RowsFlow
    BY DEF SkipRow, outcome, RowsFlow
  <2> QED BY <1>1, <1>2, <2>1, LeavingFlow
<1> QED BY <1>1, <1>2, <1>3 DEF SkipRow

\* A claim begins a send of the row in the file, marked as sending.
Claims(w, j, q) ==
    /\ sweep'[w].stage = "sending" /\ sweep'[w].job = j /\ sweep'[w].row = q
    /\ sweep'[w].left[j] = NoJob
    /\ \A k \in Jobs \ {j} : sweep'[w].left[k] = sweep[w].left[k]
    /\ \A v \in Sweeps \ {w} : sweep'[v] = sweep[v]
    /\ UNCHANGED <<tick, firing, run, runs, delivered>>
    /\ q \in Rows
    /\ file'[j] = q
    /\ \A k \in Jobs \ {j} : file'[k] = file[k]

\* A claimed row is the row in the file, sending.
LEMMA ClaimedTyped ==
    ASSUME TypeOK, NEW w \in Sweeps, NEW j \in Jobs, file[j] \in Rows
    PROVE  /\ Claimed(w, j) \in Rows
           /\ Claimed(w, j).delivery.session = file[j].delivery.session
           /\ Claimed(w, j).delivery.status = "sending"
<1>1. sweep[w].since \in 0 .. MaxTime
  BY DEF TypeOK
<1> DEFINE row == file[j]
           t == sweep[w].since
           m == [row EXCEPT !.delivery.status = "sending", !.delivery.at = t]
<1>2. row \in Rows /\ t \in 0 .. MaxTime /\ Claimed(w, j) = m
  BY <1>1 DEF Claimed
<1> HIDE DEF row
<1> DEFINE d == row.delivery
           e == [d EXCEPT !.status = "sending"]
           g == [e EXCEPT !.at = t]
           q == [[row EXCEPT !.delivery = e] EXCEPT !.delivery = g]
<1> HIDE DEF t
<1>3. d \in Deliveries
  BY <1>2 DEF Rows
<1>4. e \in Deliveries /\ e.session = d.session /\ e.status = "sending"
  BY <1>3 DEF Deliveries
<1>5. g \in Deliveries /\ g.session = d.session /\ g.status = "sending"
  BY <1>2, <1>4 DEF Deliveries
<1>6. q \in Rows /\ q.delivery = g
  BY <1>2, <1>4, <1>5, DeliveryChange
<1>7. m = q
  BY <1>2, <1>3, <1>4 DEF Rows, Deliveries
<1> HIDE DEF m, q, g
<1> QED BY <1>2, <1>5, <1>6, <1>7 DEF row

\* What a claim leaves behind, and when it is a repeat.
LEMMA ClaimStep ==
    ASSUME TypeOK, Flow, NEW w \in Sweeps, NEW j \in Jobs, Claim(w, j)
    PROVE  /\ TypeOK' /\ Flow'
           /\ Claims(w, j, Claimed(w, j))
           /\ file[j] # NoJob
           /\ Claimed(w, j).delivery.session = file[j].delivery.session
           /\ Claimed(w, j).delivery.status = "sending"
           /\ file[j].delivery.session \in Runs
           /\ repeats \subseteq repeats'
           /\ file[j].delivery.session \in repeats' \/ file[j].delivery.status = "pending"
           /\ sweep[w].stage = "rows"
<1> DEFINE q == Claimed(w, j)
           old == sweep[w]
           left == [old.left EXCEPT ![j] = NoJob]
           new == [old EXCEPT !.stage = "sending", !.row = q, !.job = j, !.left = left]
<1>1. /\ Copy(w, j) # NoJob /\ file[j] # NoJob
      /\ file[j].delivery.session = Copy(w, j).delivery.session
      /\ IsEligible(file[j], sweep[w].since)
      /\ run[file[j].delivery.session] = "completed"
      /\ sweep[w].stage = "rows"
  BY DEF Claim, AtRow, StillOwed, Ended
<1>2. file[j] \in Rows /\ file[j].delivery.session \in Runs
  BY <1>1, CopyTyped DEF TypeOK
<1>3. q \in Rows /\ q.delivery.session = file[j].delivery.session
      /\ q.delivery.status = "sending"
  BY <1>2, ClaimedTyped
<1>4. old \in SweepRecords /\ sweep \in [Sweeps -> SweepRecords]
  BY DEF TypeOK, SweepRecords
<1>5. left \in [Jobs -> Rows \cup {NoJob}] /\ left[j] = NoJob
      /\ \A k \in Jobs \ {j} : left[k] = old.left[k]
  BY <1>4 DEF SweepRecords
<1>6. sweep' = [sweep EXCEPT ![w] = new]
  BY <1>4 DEF Claim, SweepRecords
<1> HIDE DEF left, q
<1>7. new \in SweepRecords /\ new.stage = "sending" /\ new.row = q /\ new.job = j /\ new.left = left
  BY <1>3, <1>4, <1>5 DEF SweepRecords
<1> HIDE DEF new
<1>8. /\ sweep' \in [Sweeps -> SweepRecords] /\ sweep'[w] = new
      /\ \A v \in Sweeps \ {w} : sweep'[v] = sweep[v]
  BY <1>4, <1>6, <1>7
<1>9. /\ file' \in [Jobs -> Rows \cup {NoJob}] /\ file'[j] = q
      /\ \A k \in Jobs \ {j} : file'[k] = file[k]
  <2>1. Upsert(j, q)
    BY DEF Claim, q
  <2> QED BY <1>3, <2>1, UpsertTyped
<1>10. /\ repeats \subseteq repeats' /\ repeats' \subseteq Runs
       /\ file[j].delivery.session \in repeats' \/ file[j].delivery.status = "pending"
  BY <1>1, <1>2 DEF Claim, IsEligible, TypeOK
<1>11. TypeOK'
  <2>1. loop' = None /\ UNCHANGED <<now, born, tick, firing, run, runs, delivered,
                                 dropped, troubles>>
    BY DEF Claim
  <2> QED BY <1>8, <1>9, <1>10, <2>1 DEF TypeOK, SweepRecords
<1>12. Claims(w, j, q)
  <2>1. UNCHANGED <<tick, firing, run, runs, delivered>>
    BY DEF Claim
  <2>2. /\ sweep'[w].stage = "sending" /\ sweep'[w].job = j /\ sweep'[w].row = q
        /\ sweep'[w].left[j] = NoJob
        /\ \A k \in Jobs \ {j} : sweep'[w].left[k] = sweep[w].left[k]
    BY <1>5, <1>7, <1>8
  <2> QED BY <1>3, <1>8, <1>9, <2>1, <2>2 DEF Claims
<1>13. Flow'
  <2>1. Grows /\ FiringFlow
    BY DEF Claim, Grows, FiringFlow
  <2>2. RowsFlow
    BY <1>3, <1>12 DEF Claims, RowsFlow
  <2>3. SweepsFlow
    BY <1>1, <1>2, <1>3, <1>12 DEF Claims, SweepsFlow
  <2> QED BY <2>1, <2>2, <2>3, FlowKept
<1> QED BY <1>1, <1>2, <1>3, <1>10, <1>11, <1>12, <1>13 DEF q

\* The row of a send and where it goes.
LEMMA SentTyped ==
    ASSUME TypeOK, Flow, NEW w \in Sweeps, sweep[w].stage = "sending"
    PROVE  /\ sweep[w].job \in Jobs /\ sweep[w].row \in Rows
           /\ sweep[w].row.delivery.status = "sending"
           /\ sweep[w].row.delivery.session \in Runs
           /\ run[sweep[w].row.delivery.session] = "completed"
  BY DEF Flow, SendsClaimed

\* A send that returns leaves a row that is sent, of a session that was handed over.
LEMMA SendReturnsStep ==
    ASSUME TypeOK, Flow, NEW w \in Sweeps, SendReturns(w)
    PROVE  /\ TypeOK' /\ Flow' /\ UNCHANGED repeats
           /\ sweep[w].stage = "sending"
           /\ delivered' = Reached({w}) \/ delivered' = delivered
           /\ \E q \in Rows : /\ LeavesWith(w, sweep[w].job, q)
                              /\ q.delivery.session = sweep[w].row.delivery.session
                              /\ q.delivery.status = "sent"
<1> DEFINE j == sweep[w].job
           row == sweep[w].row
           f == row.delivery.session
           m == [row EXCEPT !.delivery.status = "sent", !.delivery.at = now]
           q == WithVerdict(m)
<1>1. /\ sweep[w].stage = "sending"
      /\ \/ delivered' = Reached({w}) /\ UNCHANGED <<dropped, troubles>>
         \/ delivered' = delivered /\ dropped' = dropped \cup {f} /\ Misleads
      /\ Upsert(j, q) /\ Done(w, j) /\ UNCHANGED repeats
  BY DEF SendReturns
<1>2. j \in Jobs /\ row \in Rows /\ f \in Runs /\ run[f] = "completed"
  BY <1>1, SentTyped
<1>3. m \in Rows /\ m.delivery.session = f /\ m.delivery.status = "sent"
  <2>1. now \in 0 .. MaxTime
    BY DEF TypeOK
  <2> HIDE DEF row
  <2> QED BY <1>2, <2>1, MarkTyped
<1>4. q \in Rows /\ q.delivery = m.delivery
  <2> HIDE DEF m
  <2> QED BY <1>3, VerdictTyped
<1>5. /\ delivered' \in [Runs -> 0 .. 2]
      /\ \A g \in Runs : delivered'[g] >= delivered[g]
      /\ dropped \subseteq dropped' /\ dropped' \subseteq Runs
      /\ troubles' \in 0 .. MaxTroubles
      /\ delivered'[f] > 0 \/ f \in dropped'
  <2>1. CASE delivered' = Reached({w}) /\ UNCHANGED <<dropped, troubles>>
    <3>1. {w} \in SUBSET Sweeps
      OBVIOUS
    <3>2. delivered' \in [Runs -> 0 .. 2] /\ \A g \in Runs : delivered'[g] >= delivered[g]
      BY <2>1, <3>1, ReachedTyped
    <3>3. delivered'[f] > 0
      BY <1>2, <2>1, <3>1, ReachedTyped
    <3> QED BY <2>1, <3>2, <3>3 DEF TypeOK
  <2>2. CASE delivered' = delivered /\ dropped' = dropped \cup {f} /\ Misleads
    <3> HIDE DEF f
    <3>1. \A g \in Runs : delivered'[g] >= delivered[g]
      BY <2>2 DEF TypeOK
    <3> QED BY <1>2, <2>2, <3>1, ResearchAssumption DEF TypeOK, Misleads
  <2> QED BY <1>1, <2>1, <2>2
<1> HIDE DEF q, m, j, f
<1>6. TypeOK' /\ LeavesWith(w, j, q)
  BY <1>1, <1>2, <1>4, <1>5, LeavingTyped DEF TypeOK
<1>7. Flow'
  <2>1. RowsFlow
    BY <1>2, <1>3, <1>4, <1>5, <1>6 DEF RowsFlow, LeavesWith, Leaves
  <2>2. Leaves(w, j) /\ TypeOK'
    BY <1>6 DEF LeavesWith
  <2> QED BY <1>2, <1>5, <2>1, <2>2, LeavingFlow
<1> QED BY <1>1, <1>3, <1>4, <1>6, <1>7 DEF j, f

\* A send that raises leaves a row owed again or failed, and has delivered nothing but
\* of a session that may then be sent again.
LEMMA SendRaisesStep ==
    ASSUME TypeOK, Flow, NEW w \in Sweeps, SendRaises(w)
    PROVE  /\ TypeOK' /\ Flow' /\ repeats \subseteq repeats'
           /\ sweep[w].stage = "sending"
           /\ \/ delivered' = delivered
              \/ /\ delivered' = Reached({w})
                 /\ sweep[w].row.delivery.session \in repeats'
           /\ \E q \in Rows : /\ LeavesWith(w, sweep[w].job, q)
                              /\ q.delivery.session = sweep[w].row.delivery.session
                              /\ q.delivery.status \in {"pending", "failed"}
<1> DEFINE j == sweep[w].job
           row == sweep[w].row
           f == row.delivery.session
           q == FailedDelivery(row, TRUE)
<1>1. /\ sweep[w].stage = "sending" /\ Upsert(j, q) /\ Done(w, j)
      /\ \/ UNCHANGED <<delivered, repeats, troubles>>
         \/ delivered' = Reached({w}) /\ repeats' = repeats \cup {f} /\ Misleads
      /\ dropped' = dropped
  BY DEF SendRaises
<1>2. j \in Jobs /\ row \in Rows /\ f \in Runs
  BY <1>1, SentTyped
<1>3. q \in Rows /\ q.delivery.session = f
      /\ q.delivery.status \in {"pending", "failed"}
  <2> HIDE DEF row
  <2> QED BY <1>2, FailedTyped DEF TypeOK
<1>4. /\ delivered' \in [Runs -> 0 .. 2]
      /\ \A g \in Runs : delivered'[g] >= delivered[g]
      /\ repeats \subseteq repeats' /\ repeats' \subseteq Runs
      /\ troubles' \in 0 .. MaxTroubles
      /\ delivered' = delivered \/ (delivered' = Reached({w}) /\ f \in repeats')
  <2>1. CASE UNCHANGED <<delivered, repeats, troubles>>
    BY <2>1 DEF TypeOK
  <2>2. CASE delivered' = Reached({w}) /\ repeats' = repeats \cup {f} /\ Misleads
    <3> HIDE DEF f
    <3>1. {w} \in SUBSET Sweeps
      OBVIOUS
    <3>2. delivered' \in [Runs -> 0 .. 2] /\ \A g \in Runs : delivered'[g] >= delivered[g]
      BY <2>2, <3>1, ReachedTyped
    <3>3. troubles' \in 0 .. MaxTroubles
      BY <2>2, ResearchAssumption DEF TypeOK, Misleads
    <3>4. repeats' = repeats \cup {f} /\ repeats \subseteq Runs
      BY <2>2 DEF TypeOK
    <3>5. repeats \subseteq repeats' /\ repeats' \subseteq Runs /\ f \in repeats'
      BY <1>2, <3>4
    <3> QED BY <2>2, <3>2, <3>3, <3>5
  <2> QED BY <1>1, <2>1, <2>2
<1> HIDE DEF q, j, f
<1>5. TypeOK' /\ LeavesWith(w, j, q)
  BY <1>1, <1>2, <1>3, <1>4, LeavingTyped DEF TypeOK
<1>6. Flow'
  <2>1. RowsFlow
    BY <1>3, <1>5 DEF RowsFlow, LeavesWith
  <2>2. Leaves(w, j) /\ TypeOK'
    BY <1>5 DEF LeavesWith
  <2> QED BY <1>1, <1>2, <1>4, <2>1, <2>2, LeavingFlow
<1> QED BY <1>1, <1>3, <1>4, <1>5, <1>6 DEF j, f

\* Sweep w loads the rows or rests: it has no copy but of a row in the file.
Reloads(w) ==
    /\ sweep'[w].stage # "sending"
    /\ \A j \in Jobs : sweep'[w].left[j] # NoJob =>
          /\ file[j] # NoJob /\ sweep'[w].left[j] = file[j]
          /\ file[j].delivery.session \in Runs
          /\ file[j].delivery.status \in {"none", "pending", "sending"}
    /\ \A v \in Sweeps \ {w} : sweep'[v] = sweep[v]
    /\ UNCHANGED <<file, run, runs, firing, outcome>>
    /\ tick' = tick \/ tick'.stage # "awaiting"

\* A sweep that loads the rows, or rests, keeps the flow.
LEMMA ReloadFlow ==
    ASSUME TypeOK, Flow, NEW w \in Sweeps, Reloads(w)
    PROVE  Flow'
<1>1. Grows /\ FiringFlow /\ RowsFlow
  BY DEF Reloads, Grows, FiringFlow, RowsFlow, outcome
<1>2. SweepsFlow
  BY DEF Reloads, SweepsFlow
<1> QED BY <1>1, <1>2, FlowKept

\* A copy that is loaded is of a row in the file, of a session, and not delivered.
LEMMA LoadedOwed ==
    ASSUME TypeOK, NEW w \in Sweeps, BeginSweep(w), NEW j \in Jobs, sweep'[w].left[j] # NoJob
    PROVE  /\ file[j] # NoJob /\ sweep'[w].left[j] = file[j]
           /\ file[j].delivery.session \in Runs
           /\ file[j].delivery.status \in {"none", "pending", "sending"}
<1>1. /\ file[j] # NoJob /\ sweep'[w].left[j] = file[j]
      /\ Owed(file[j], now) \/ LacksVerdict(file[j])
  BY BeginTyped
<1>2. file[j].delivery.session \in Runs \cup {None}
  BY <1>1 DEF TypeOK, Rows, Deliveries
<1> QED BY <1>1, <1>2 DEF Owed, IsEligible, LacksVerdict

\* A sweep that has gone through its rows rests.
LEMMA EndSweepStep ==
    ASSUME TypeOK, Flow, NEW w \in Sweeps, EndSweep(w)
    PROVE  TypeOK' /\ Flow' /\ Reloads(w)
<1>1. sweep' \in [Sweeps -> SweepRecords] /\ sweep'[w] = Resting
      /\ \A v \in Sweeps \ {w} : sweep'[v] = sweep[v]
  BY RestingTyped DEF EndSweep, TypeOK, SweepRecords
<1>2. tick' = tick \/ tick' = Waiting
  BY DEF EndSweep
<1>3. Reloads(w)
  BY <1>1, <1>2, RestingTyped DEF Reloads, EndSweep, Waiting
<1>4. TypeOK'
  BY <1>1, <1>2, ResearchAssumption DEF EndSweep, TypeOK, SweepRecords, outcome, Waiting
<1> QED BY <1>3, <1>4, ReloadFlow

\* A sweep that a session event asks for loads the rows.
LEMMA EventSweepStep ==
    ASSUME TypeOK, Flow, EventSweep
    PROVE  TypeOK' /\ Flow' /\ Reloads("event")
<1>1. "event" \in Sweeps /\ BeginSweep("event")
  BY DEF Sweeps, EventSweep
<1>2. Reloads("event")
  BY <1>1, BeginTyped, LoadedOwed DEF Reloads, EventSweep
<1>3. TypeOK'
  BY <1>1, BeginTyped DEF EventSweep, TypeOK, SweepRecords, outcome
<1> QED BY <1>1, <1>2, <1>3, ReloadFlow

\* The sweep of the tick loads the rows.
LEMMA EndTickStep ==
    ASSUME TypeOK, Flow, EndTick
    PROVE  TypeOK' /\ Flow' /\ Reloads("tick")
<1>1. "tick" \in Sweeps /\ BeginSweep("tick")
  BY DEF Sweeps, EndTick
<1>2. tick' \in [stage : {"sweeping"}, since : 0 .. MaxTime, left : SUBSET (1 .. MaxBorn)]
  BY DEF EndTick, TypeOK
<1>3. Reloads("tick")
  BY <1>1, <1>2, BeginTyped, LoadedOwed DEF Reloads, EndTick
<1>4. TypeOK'
  BY <1>1, <1>2, BeginTyped DEF EndTick, TypeOK, SweepRecords, outcome
<1> QED BY <1>1, <1>3, <1>4, ReloadFlow

\* A tick takes a snapshot and writes nothing.
LEMMA TickStep ==
    ASSUME TypeOK, Flow, Tick
    PROVE  /\ TypeOK' /\ Flow'
           /\ UNCHANGED <<file, sweep, outcome, run, runs, firing>> /\ tick'.stage = "firing"
<1>1. {file[j].born : j \in {k \in Jobs : IsDue(file[k], now)}} \subseteq 1 .. MaxBorn
  BY DEF IsDue, TypeOK, Rows
<1>2. tick' \in [stage : {"firing"}, since : 0 .. MaxTime, left : SUBSET (1 .. MaxBorn)]
  BY <1>1 DEF Tick, TypeOK
<1>3. TypeOK'
  BY <1>2 DEF Tick, TypeOK, Sweeps, outcome
<1>4. /\ UNCHANGED <<file, sweep, outcome, run, runs, firing>> /\ tick'.stage = "firing"
  BY DEF Tick
<1>5. Flow'
  BY <1>3, <1>4, StillFlow DEF RowsFlow, outcome
<1> QED BY <1>3, <1>4, <1>5

\* A dispatch begins with a row that owes nothing.
LEMMA FireStep ==
    ASSUME TypeOK, Flow, NEW j \in Jobs, Fire(j)
    PROVE  /\ TypeOK' /\ Flow'
           /\ UNCHANGED <<sweep, outcome, run, runs>>
           /\ file[j] # NoJob
           /\ file'[j].delivery = file[j].delivery
           /\ file[j].delivery.status \notin {"pending", "sending"}
           /\ \A k \in Jobs \ {j} : file'[k] = file[k]
           /\ firing'.job = j /\ firing'.row.delivery = file[j].delivery
<1> DEFINE q == [file[j] EXCEPT !.status = "running"]
<1>1. file[j] # NoJob /\ file[j].delivery.status \notin {"pending", "sending"}
  BY DEF Fire, StillDue, IsDue
<1>2. file[j] \in Rows
  BY <1>1 DEF TypeOK
<1>3. q \in Rows /\ q.delivery = file[j].delivery
  BY <1>2 DEF Rows
<1>4. firing' = [job |-> j, row |-> q] /\ Upsert(j, q)
  BY DEF Fire
<1> HIDE DEF q
<1>5. /\ file' \in [Jobs -> Rows \cup {NoJob}] /\ file'[j] = q
      /\ \A k \in Jobs \ {j} : file'[k] = file[k]
  BY <1>3, <1>4, UpsertTyped
<1>6. tick' \in [stage : {"awaiting"}, since : 0 .. MaxTime, left : SUBSET (1 .. MaxBorn)]
  BY DEF Fire, TypeOK
<1>7. /\ UNCHANGED <<now, born, sweep, run, runs, outcome, troubles>> /\ loop' = None
      /\ runs < MaxRuns
  BY DEF Fire
<1>8. TypeOK'
  BY <1>3, <1>4, <1>5, <1>6, <1>7 DEF TypeOK, outcome
<1>9. Flow'
  <2>1. Grows /\ SweepsFlow
    BY <1>7 DEF Grows, SweepsFlow, outcome
  <2>2. RowsFlow
    BY <1>1, <1>3, <1>5 DEF RowsFlow
  <2>3. FiringFlow
    BY <1>1, <1>3, <1>4, <1>7 DEF FiringFlow
  <2> QED BY <2>1, <2>2, <2>3, FlowKept
<1> QED BY <1>1, <1>3, <1>4, <1>5, <1>7, <1>8, <1>9

\* The end of a dispatch writes the row, unless its job is not that record any more.
Lands(q) ==
    /\ tick.stage = "awaiting" /\ tick'.stage = "firing"
    /\ UNCHANGED <<sweep, outcome>>
    /\ firing.job \in Jobs /\ q \in Rows
    /\ file'[firing.job] \in {q, file[firing.job]}
    /\ \A k \in Jobs \ {firing.job} : file'[k] = file[k]

\* The end of a dispatch keeps the types.
LEMMA LandingTyped ==
    ASSUME TypeOK, Flow, NEW q \in Rows, EndFiring(q),
           run' \in [Runs -> {"unsent", "running", "completed", "failed", "silent"}],
           runs' \in 0 .. MaxRuns
    PROVE  TypeOK' /\ Lands(q)
<1>1. /\ tick.stage = "awaiting" /\ PersistCompletion(firing.job, q)
      /\ firing' = [job |-> None, row |-> NoJob]
      /\ tick' = [tick EXCEPT !.stage = "firing"] /\ loop' = "tick"
      /\ UNCHANGED <<now, born, sweep, outcome, troubles>>
  BY DEF EndFiring
<1>2. firing.job \in Jobs
  BY <1>1 DEF Flow, FiringFree
<1>3. /\ file' \in [Jobs -> Rows \cup {NoJob}] /\ file'[firing.job] \in {q, file[firing.job]}
      /\ \A k \in Jobs \ {firing.job} : file'[k] = file[k]
  <2>1. CASE Upsert(firing.job, q)
    BY <1>2, <2>1, UpsertTyped
  <2>2. CASE file' = file
    BY <2>2 DEF TypeOK
  <2> QED BY <1>1, <2>1, <2>2 DEF PersistCompletion
<1>4. tick' \in [stage : {"firing"}, since : 0 .. MaxTime, left : SUBSET (1 .. MaxBorn)]
  BY <1>1 DEF TypeOK
<1>5. TypeOK'
  BY <1>1, <1>3, <1>4 DEF TypeOK, outcome, Sweeps
<1>6. Lands(q)
  BY <1>1, <1>2, <1>3, <1>4 DEF Lands
<1> QED BY <1>5, <1>6

\* A dispatch that succeeds gives the row the next session.
LEMMA DispatchedStep ==
    ASSUME TypeOK, Flow, Dispatched
    PROVE  /\ TypeOK' /\ Flow' /\ runs' = runs + 1 /\ runs + 1 \in Runs
           /\ \E q \in Rows : Lands(q) /\ q.delivery.session = runs + 1
<1> DEFINE row == firing.row
           d == [status |-> IF firing.row.channel THEN "pending" ELSE "none",
                 session |-> runs + 1, at |-> tick.since, attempts |-> 0]
           q == Advanced([row EXCEPT !.fails = 0, !.delivery = d])
<1>1. EndFiring(q) /\ runs' = runs + 1 /\ run' = [run EXCEPT ![runs + 1] = "running"]
  BY DEF Dispatched
<1>2. row \in Rows /\ runs < MaxRuns
  BY <1>1 DEF EndFiring, Flow, FiringFree
<1>3. runs + 1 \in Runs /\ runs + 1 \in 0 .. MaxRuns
  BY <1>2, ResearchAssumption DEF TypeOK, Runs
<1>4. d \in Deliveries /\ d.session = runs + 1 /\ d.status \in {"pending", "none"}
  BY <1>3 DEF TypeOK, Deliveries
<1> HIDE DEF d, row
<1>5. q \in Rows /\ q.delivery = d
  BY <1>2, <1>4, AdvancedTyped DEF TypeOK
<1> HIDE DEF q
<1>6. run' \in [Runs -> {"unsent", "running", "completed", "failed", "silent"}]
      /\ \A f \in Runs \ {runs + 1} : run'[f] = run[f]
  BY <1>1, <1>3 DEF TypeOK
<1>7. TypeOK' /\ Lands(q)
  BY <1>1, <1>3, <1>5, <1>6, LandingTyped
<1>8. Flow'
  <2>1. RowsFlow
    BY <1>4, <1>5, <1>7 DEF RowsFlow, Lands
  <2>2. SweepsFlow /\ FiringFlow
    BY <1>7 DEF SweepsFlow, FiringFlow, Lands
  <2>3. runs \in Int /\ run[runs + 1] = "unsent"
    BY <1>3 DEF Flow, Ahead, TypeOK
  <2>4. delivered' = delivered /\ dropped' = dropped
    BY <1>7 DEF Lands, outcome
  <2>5. Grows
    BY <1>1, <1>6, <2>3, <2>4 DEF Grows, Runs
  <2> QED BY <2>1, <2>2, <2>5, FlowKept
<1> QED BY <1>1, <1>3, <1>4, <1>5, <1>7, <1>8

\* A dispatch that fails leaves what the row owes alone.
LEMMA DispatchFailsStep ==
    ASSUME TypeOK, Flow, DispatchFails
    PROVE  /\ TypeOK' /\ Flow' /\ UNCHANGED <<run, runs>>
           /\ \E q \in Rows : Lands(q) /\ q.delivery = firing.row.delivery
<1> DEFINE row == firing.row
           q == Retried([row EXCEPT !.fails = @ + 1])
<1>1. EndFiring(q) /\ UNCHANGED <<run, runs>>
  BY DEF DispatchFails
<1>2. row \in Rows
  BY <1>1 DEF EndFiring, Flow, FiringFree
<1> HIDE DEF row
<1>3. q \in Rows /\ q.delivery = row.delivery
  BY <1>2, RetriedTyped DEF TypeOK
<1> HIDE DEF q
<1>4. TypeOK' /\ Lands(q)
  BY <1>1, <1>3, LandingTyped DEF TypeOK
<1>5. Flow'
  <2>1. RowsFlow
    BY <1>3, <1>4 DEF RowsFlow, Lands, row
  <2>2. SweepsFlow /\ FiringFlow /\ Grows
    BY <1>1, <1>4 DEF SweepsFlow, FiringFlow, Lands, Grows, outcome
  <2> QED BY <2>1, <2>2, FlowKept
<1> QED BY <1>1, <1>3, <1>4, <1>5 DEF row

\* A job that is created is of no session and owes nothing.
LEMMA CreateStep ==
    ASSUME TypeOK, Flow, NEW j \in Jobs, NEW spec \in Specs, Create(j, spec)
    PROVE  /\ TypeOK' /\ Flow'
           /\ UNCHANGED <<sweep, outcome, run, runs, tick, firing>>
           /\ \A k \in Jobs \ {j} : file'[k] = file[k]
           /\ file'[j].delivery.session = None
           /\ file'[j].delivery.status = "none"
<1> DEFINE q == [born |-> born + 1, channel |-> spec.channel, schedule |-> spec.schedule,
                 status |-> "pending", next |-> now, fails |-> 0,
                 delivery |-> NoDelivery, verdict |-> None]
<1>1. NoDelivery \in Deliveries /\ NoDelivery.session = None /\ NoDelivery.status = "none"
  BY ResearchAssumption DEF NoDelivery, Deliveries
<1>2. born + 1 \in 1 .. MaxBorn /\ spec.channel \in BOOLEAN
      /\ spec.schedule \in {"recurring", "spent"} /\ now \in Nat
  BY ResearchAssumption DEF Create, TypeOK
<1>3. q \in Rows /\ q.delivery = NoDelivery
  BY <1>1, <1>2 DEF Rows
<1>4. born' = born + 1 /\ Upsert(j, q)
      /\ UNCHANGED <<now, executor, loop, run, runs, outcome, troubles>>
  BY DEF Create
<1> HIDE DEF q
<1>5. /\ file' \in [Jobs -> Rows \cup {NoJob}] /\ file'[j] = q
      /\ \A k \in Jobs \ {j} : file'[k] = file[k]
  BY <1>3, <1>4, UpsertTyped
<1>6. born' \in 0 .. MaxBorn
  BY <1>2, <1>4 DEF TypeOK
<1>7. TypeOK'
  BY <1>4, <1>5, <1>6 DEF TypeOK, executor, outcome
<1>8. Flow'
  <2>1. RowsFlow
    BY <1>1, <1>3, <1>5 DEF RowsFlow
  <2> QED BY <1>4, <1>7, <2>1, StillFlow DEF executor, outcome
<1> QED BY <1>1, <1>3, <1>4, <1>5, <1>7, <1>8 DEF executor

\* A job that is deleted leaves no row.
LEMMA DeleteStep ==
    ASSUME TypeOK, Flow, NEW j \in Jobs, Delete(j)
    PROVE  /\ TypeOK' /\ Flow'
           /\ UNCHANGED <<sweep, outcome, run, runs, tick, firing>>
           /\ \A k \in Jobs \ {j} : file'[k] = file[k]
           /\ file'[j] = NoJob
<1>1. Upsert(j, NoJob) /\ UNCHANGED <<now, born, executor, loop, run, runs, outcome, troubles>>
  BY DEF Delete
<1>2. /\ file' \in [Jobs -> Rows \cup {NoJob}] /\ file'[j] = NoJob
      /\ \A k \in Jobs \ {j} : file'[k] = file[k]
  BY <1>1, UpsertTyped
<1>3. TypeOK'
  BY <1>1, <1>2 DEF TypeOK, executor, outcome
<1>4. Flow'
  <2>1. RowsFlow
    BY <1>2 DEF RowsFlow
  <2> QED BY <1>1, <1>3, <2>1, StillFlow DEF executor, outcome
<1> QED BY <1>1, <1>2, <1>3, <1>4 DEF executor

\* A session ends, or time passes.
LEMMA OutsideStep ==
    ASSUME TypeOK, Flow, Pass \/ \E f \in Runs : RunEnds(f)
    PROVE  /\ TypeOK' /\ Flow'
           /\ UNCHANGED <<file, sweep, outcome, runs, tick, firing>>
<1>1. UNCHANGED <<file, sweep, outcome, runs, tick, firing>>
  BY DEF Pass, RunEnds, executor
<1>2. TypeOK'
  <2>1. CASE Pass
    BY <2>1, ResearchAssumption DEF Pass, TypeOK, executor, outcome
  <2>2. CASE \E f \in Runs : RunEnds(f)
    BY <2>2 DEF RunEnds, TypeOK, executor, outcome
  <2> QED BY <2>1, <2>2
<1>3. \A f \in Runs : run'[f] = run[f] \/ run[f] = "running"
  BY DEF Pass, RunEnds, TypeOK
<1>4. Flow'
  <2>1. Grows
    BY <1>1, <1>3 DEF Grows, outcome
  <2>2. RowsFlow /\ SweepsFlow /\ FiringFlow
    BY <1>1 DEF RowsFlow, SweepsFlow, FiringFlow
  <2> QED BY <2>1, <2>2, FlowKept
<1> QED BY <1>1, <1>2, <1>4

\* The process dies and the next one begins.
LEMMA RestartStep ==
    ASSUME TypeOK, Flow, Restart
    PROVE  /\ TypeOK' /\ Flow'
           /\ runs' = runs /\ repeats' = repeats
           /\ tick'.stage = "idle"
           /\ \A w \in Sweeps : sweep'[w] = Resting
           /\ \E through \in SUBSET {w \in Sweeps : sweep[w].stage = "sending"} :
                  delivered' = Reached(through)
           /\ \A j \in Jobs : file'[j] # NoJob =>
                  file[j] # NoJob /\ file'[j].delivery = file[j].delivery
<1>1. /\ runs' = runs /\ repeats' = repeats /\ dropped' = dropped /\ now' = now /\ born' = born
      /\ tick' = Waiting /\ firing' = [job |-> None, row |-> NoJob] /\ loop' = None
      /\ sweep' = [w \in Sweeps |-> Resting]
      /\ troubles < MaxTroubles /\ troubles' = troubles + 1
      /\ run' = [f \in Runs |-> IF run[f] = "running" THEN "silent" ELSE run[f]]
  BY DEF Restart
<1>2. PICK through \in SUBSET {w \in Sweeps : sweep[w].stage = "sending"} :
          delivered' = Reached(through)
  BY DEF Restart
<1>3. delivered' \in [Runs -> 0 .. 2] /\ \A f \in Runs : delivered'[f] >= delivered[f]
  <2>1. through \in SUBSET Sweeps
    BY <1>2
  <2> QED BY <1>2, <2>1, ReachedTyped
<1>4. \A j \in Jobs : file'[j] =
          IF file[j] # NoJob /\ file[j].status = "running"
          THEN [file[j] EXCEPT !.status = "pending"] ELSE file[j]
  BY DEF Restart
<1>5. ASSUME NEW j \in Jobs
      PROVE  /\ file'[j] \in Rows \cup {NoJob}
             /\ file'[j] # NoJob => file[j] # NoJob /\ file'[j].delivery = file[j].delivery
  <2> DEFINE old == file[j]
             new == [old EXCEPT !.status = "pending"]
  <2>1. ASSUME old # NoJob
        PROVE  new \in Rows /\ new.delivery = old.delivery
    <3>1. old \in Rows
      BY <2>1 DEF TypeOK
    <3> HIDE DEF old
    <3> QED BY <3>1 DEF Rows
  <2>2. old \in Rows \cup {NoJob}
    BY DEF TypeOK
  <2>3. file'[j] = IF old # NoJob /\ old.status = "running" THEN new ELSE old
    BY <1>4
  <2> HIDE DEF new
  <2>4. CASE old # NoJob /\ old.status = "running"
    BY <2>1, <2>3, <2>4
  <2>5. CASE ~(old # NoJob /\ old.status = "running")
    BY <2>2, <2>3, <2>5
  <2> QED BY <2>4, <2>5
<1>6. file' \in [Jobs -> Rows \cup {NoJob}]
  <2>1. file' = [j \in Jobs |-> file'[j]]
    BY DEF Restart
  <2> QED BY <1>5, <2>1
<1>7. sweep' \in [Sweeps -> SweepRecords] /\ \A w \in Sweeps : sweep'[w] = Resting
  BY <1>1, RestingTyped
<1>8. run' \in [Runs -> {"unsent", "running", "completed", "failed", "silent"}]
  BY <1>1 DEF TypeOK
<1>9. TypeOK'
  BY <1>1, <1>3, <1>6, <1>7, <1>8, ResearchAssumption DEF TypeOK, SweepRecords, Waiting
<1>10. Flow'
  <2>1. RowsFlow
    BY <1>5 DEF RowsFlow
  <2>2. SweepsFlow
    BY <1>7, RestingTyped DEF SweepsFlow
  <2>3. FiringFlow
    BY <1>1 DEF FiringFlow, Waiting
  <2>4. Grows
    <3>1. \A f \in Runs : delivered[f] \in 0 .. 2 /\ delivered'[f] \in 0 .. 2
      BY <1>3 DEF TypeOK
    <3> QED BY <1>1, <1>3, <3>1 DEF Grows
  <2> QED BY <2>1, <2>2, <2>3, <2>4, FlowKept
<1> QED BY <1>1, <1>2, <1>5, <1>7, <1>9, <1>10 DEF Waiting

\* Every step keeps the types and the flow.
LEMMA FlowStep ==
    ASSUME TypeOK, Flow, [Next]_vars
    PROVE  TypeOK' /\ Flow'
<1>1. CASE \E j \in Jobs : Delete(j) \/ \E spec \in Specs : Create(j, spec)
  BY <1>1, CreateStep, DeleteStep
<1>2. CASE Ticking \/ EventSweep
  BY <1>2, TickStep, EndTickStep, DispatchedStep, DispatchFailsStep, FireStep, EventSweepStep
     DEF Ticking
<1>3. CASE \E w \in Sweeps : Sweeping(w)
  BY <1>3, SendReturnsStep, SendRaisesStep, EndSweepStep, RecordVerdictStep, ReadRaisesStep,
     NoBriefingStep, ClaimStep, SkipRowStep DEF Sweeping
<1>4. CASE Pass \/ \E f \in Runs : RunEnds(f)
  BY <1>4, OutsideStep
<1>5. CASE Restart
  BY <1>5, RestartStep
<1>6. CASE UNCHANGED vars
  <2>1. UNCHANGED <<now, file, born, tick, firing, sweep, loop, run, runs, delivered,
                    dropped, repeats, troubles>>
    BY <1>6 DEF vars
  <2>2. TypeOK'
    BY <2>1 DEF TypeOK
  <2> QED BY <2>1, <2>2, StillFlow DEF RowsFlow
<1> QED BY <1>1, <1>2, <1>3, <1>4, <1>5, <1>6 DEF Next

\* At first there is no job, and nothing is dispatched or sent.
LEMMA InitFlow == Init => TypeOK /\ Flow
<1> SUFFICES ASSUME Init PROVE TypeOK /\ Flow
  OBVIOUS
<1>1. TypeOK
  BY ResearchAssumption, RestingTyped DEF Init, TypeOK, SweepRecords, Waiting
<1>2. Flow
  BY RestingTyped DEF Init, Flow, CopiesOwed, SendsClaimed, FiringFree, RowsProper, Ahead, Copy,
     Waiting
<1> QED BY <1>1, <1>2

\* The clock, the job file, the tick, the sweeps and the sessions keep their types, and
\* the rows in flight are what the file and the sessions say.
THEOREM TypeCorrect == Spec => [](TypeOK /\ Flow)
<1>1. TypeOK /\ Flow /\ [Next]_vars => (TypeOK /\ Flow)'
  BY FlowStep
<1> QED BY InitFlow, <1>1, PTL DEF Spec

\* A row says sent only of a session that completed, and of a briefing that reached its
\* channel or that the channel dropped, for any number of jobs, sweeps' copies, deaths
\* and late sends (sweep_deliveries, _persist_completion).
THEOREM SentHolds == Spec => []SentWasDelivered
<1>1. Flow => SentWasDelivered
  BY DEF Flow, RowsProper, Proper, SentWasDelivered
<1> QED BY <1>1, TypeCorrect, PTL

-----------------------------------------------------------------------------
(* A session is of one job.                                                *)

\* Whatever a step leaves in the rows, the sweeps and the dispatch was of its job before.
Within ==
    /\ \A j \in Jobs : file'[j] # NoJob =>
          \A f \in Runs : file'[j].delivery.session = f => Has(j, f)
    /\ \A w \in Sweeps, j \in Jobs : sweep'[w].left[j] # NoJob =>
          \A f \in Runs : sweep'[w].left[j].delivery.session = f => Has(j, f)
    /\ \A w \in Sweeps : sweep'[w].stage = "sending" =>
          \A f \in Runs : sweep'[w].row.delivery.session = f => Has(sweep'[w].job, f)
    /\ tick'.stage = "awaiting" =>
          \A f \in Runs : firing'.row.delivery.session = f => Has(firing'.job, f)

\* A step that stays within gives no job a session.
LEMMA WithinKept ==
    ASSUME TypeOK, Within
    PROVE  \A j \in Jobs, f \in Runs : Has(j, f)' => Has(j, f)
<1> SUFFICES ASSUME NEW j \in Jobs, NEW f \in Runs, Has(j, f)' PROVE Has(j, f)
  OBVIOUS
<1>1. CASE file'[j] # NoJob /\ file'[j].delivery.session = f
  BY <1>1 DEF Within
<1>2. ASSUME NEW w \in Sweeps, sweep'[w].left[j] # NoJob, sweep'[w].left[j].delivery.session = f
      PROVE  Has(j, f)
  BY <1>2 DEF Within
<1>3. ASSUME NEW w \in Sweeps, sweep'[w].stage = "sending",
             sweep'[w].row.delivery.session = f, sweep'[w].job = j
      PROVE  Has(j, f)
  <2>1. Has(sweep'[w].job, f)
    BY <1>3 DEF Within
  <2> QED BY <1>3, <2>1
<1>4. CASE tick'.stage = "awaiting" /\ firing'.job = j /\ firing'.row.delivery.session = f
  <2>1. Has(firing'.job, f)
    BY <1>4 DEF Within
  <2> QED BY <1>4, <2>1
<1>5. \/ file'[j] # NoJob /\ file'[j].delivery.session = f
      \/ \E w \in Sweeps : sweep'[w].left[j] # NoJob /\ sweep'[w].left[j].delivery.session = f
      \/ \E w \in Sweeps : sweep'[w].stage = "sending" /\ sweep'[w].row.delivery.session = f
                            /\ sweep'[w].job = j
      \/ tick'.stage = "awaiting" /\ firing'.job = j /\ firing'.row.delivery.session = f
  BY DEF Has, Sending, Copy
<1> QED BY <1>1, <1>2, <1>3, <1>4, <1>5

\* The rows, the copies and the dispatch of a job are of sessions it has.
LEMMA HasOwn ==
    ASSUME TypeOK, Flow
    PROVE  /\ \A j \in Jobs : file[j] # NoJob =>
                 \A f \in Runs : file[j].delivery.session = f => Has(j, f)
           /\ \A w \in Sweeps, j \in Jobs : sweep[w].left[j] # NoJob =>
                 \A f \in Runs : sweep[w].left[j].delivery.session = f => Has(j, f)
           /\ \A w \in Sweeps : sweep[w].stage = "sending" =>
                 \A f \in Runs : sweep[w].row.delivery.session = f => Has(sweep[w].job, f)
           /\ tick.stage = "awaiting" =>
                 \A f \in Runs : firing.row.delivery.session = f => Has(firing.job, f)
  BY DEF Has, Sending, Copy

\* Every step but a dispatch stays within.
LEMMA WithinStep ==
    ASSUME TypeOK, Flow, [Next]_vars
    PROVE  Within \/ Dispatched
<1>1. ASSUME NEW j \in Jobs, Delete(j) \/ \E spec \in Specs : Create(j, spec)
      PROVE  Within
  <2>1. /\ UNCHANGED <<sweep, tick, firing>>
        /\ \A k \in Jobs \ {j} : file'[k] = file[k]
        /\ file'[j] = NoJob \/ file'[j].delivery.session = None
    BY <1>1, CreateStep, DeleteStep
  <2>2. None \notin Runs
    BY ResearchAssumption DEF Runs
  <2> QED BY <2>1, <2>2, HasOwn DEF Within
<1>2. CASE Tick
  BY <1>2, TickStep, HasOwn DEF Within
<1>3. ASSUME NEW w \in Sweeps, Reloads(w)
      PROVE  Within
  <2>1. tick'.stage = "awaiting" => tick.stage = "awaiting"
    BY <1>3 DEF Reloads
  <2>2. \A v \in Sweeps : sweep'[v].stage = "sending" => sweep'[v] = sweep[v]
    BY <1>3 DEF Reloads
  <2>3. \A v \in Sweeps, j \in Jobs : sweep'[v].left[j] # NoJob =>
           \/ sweep'[v].left[j] = sweep[v].left[j]
           \/ file[j] # NoJob /\ sweep'[v].left[j] = file[j]
    BY <1>3 DEF Reloads
  <2>4. UNCHANGED <<file, firing>>
    BY <1>3 DEF Reloads
  <2> QED BY <2>1, <2>2, <2>3, <2>4, HasOwn DEF Within
<1>4. CASE EndTick \/ EventSweep \/ \E w \in Sweeps : EndSweep(w)
  <2>1. "tick" \in Sweeps /\ "event" \in Sweeps
    BY DEF Sweeps
  <2> QED BY <1>3, <1>4, <2>1, EndTickStep, EventSweepStep, EndSweepStep
<1>5. ASSUME NEW j \in Jobs, Fire(j)
      PROVE  Within
  <2>1. /\ UNCHANGED sweep /\ file[j] # NoJob
        /\ file'[j].delivery = file[j].delivery
        /\ \A k \in Jobs \ {j} : file'[k] = file[k]
        /\ firing'.job = j /\ firing'.row.delivery = file[j].delivery
    BY <1>5, FireStep
  <2> QED BY <2>1, HasOwn DEF Within
<1>6. CASE DispatchFails
  <2>1. PICK q \in Rows : Lands(q) /\ q.delivery = firing.row.delivery
    BY <1>6, DispatchFailsStep
  <2> QED BY <2>1, HasOwn DEF Within, Lands
<1>7. ASSUME NEW w \in Sweeps, NEW j \in Jobs, Leaves(w, j),
             \/ file' = file
             \/ /\ \A k \in Jobs \ {j} : file'[k] = file[k]
                /\ \A f \in Runs : file'[j].delivery.session = f => Has(j, f)
      PROVE  Within
  BY <1>7, HasOwn DEF Within, Leaves
<1>8. ASSUME NEW w \in Sweeps, NEW j \in Jobs,
             RecordVerdict(w, j) \/ ReadRaises(w, j) \/ NoBriefing(w, j) \/ SkipRow(w, j)
      PROVE  Within
  <2>1. /\ Leaves(w, j)
        /\ \/ file' = file
           \/ /\ \A k \in Jobs \ {j} : file'[k] = file[k]
              /\ Copy(w, j) # NoJob
              /\ file'[j].delivery.session = Copy(w, j).delivery.session
    BY <1>8, RecordVerdictStep, ReadRaisesStep, NoBriefingStep, SkipRowStep DEF LeavesWith
  <2> QED BY <1>7, <2>1, HasOwn DEF Copy
<1>9. ASSUME NEW w \in Sweeps, SendReturns(w) \/ SendRaises(w)
      PROVE  Within
  <2>1. sweep[w].stage = "sending"
    BY <1>9 DEF SendReturns, SendRaises
  <2>2. /\ Leaves(w, sweep[w].job)
        /\ \A k \in Jobs \ {sweep[w].job} : file'[k] = file[k]
        /\ file'[sweep[w].job].delivery.session = sweep[w].row.delivery.session
    BY <1>9, SendReturnsStep, SendRaisesStep DEF LeavesWith
  <2>3. sweep[w].job \in Jobs
    BY <2>1, SentTyped
  <2> QED BY <1>7, <2>1, <2>2, <2>3, HasOwn
<1>10. ASSUME NEW w \in Sweeps, NEW j \in Jobs, Claim(w, j)
       PROVE  Within
  BY <1>10, ClaimStep, HasOwn DEF Within, Claims
<1>11. CASE Pass \/ \E f \in Runs : RunEnds(f)
  BY <1>11, OutsideStep, HasOwn DEF Within
<1>12. CASE Restart
  <2>1. /\ tick'.stage = "idle"
        /\ \A w \in Sweeps : sweep'[w] = Resting
        /\ \A j \in Jobs : file'[j] # NoJob =>
               file[j] # NoJob /\ file'[j].delivery = file[j].delivery
    BY <1>12, RestartStep
  <2> QED BY <2>1, RestingTyped, HasOwn DEF Within
<1>13. CASE UNCHANGED vars
  BY <1>13, HasOwn DEF Within, vars, executor
<1> QED BY <1>1, <1>2, <1>4, <1>5, <1>6, <1>8, <1>9, <1>10, <1>11, <1>12, <1>13
        DEF Next, Ticking, Sweeping

\* The briefings that a step delivers are those of sends.
LEMMA DeliveriesStep ==
    ASSUME TypeOK, Flow, [Next]_vars
    PROVE  \/ delivered' = delivered
           \/ /\ runs' = runs
              /\ \A f \in Runs : (\A w \in Sweeps : ~Sending(w, f)) => delivered'[f] = delivered[f]
<1>1. ASSUME NEW w \in Sweeps, SendReturns(w) \/ SendRaises(w)
      PROVE  /\ runs' = runs
             /\ \A f \in Runs : (\A v \in Sweeps : ~Sending(v, f)) => delivered'[f] = delivered[f]
  <2>1. /\ delivered' = Reached({w}) \/ delivered' = delivered
        /\ sweep[w].stage = "sending" /\ {w} \in SUBSET Sweeps /\ runs' = runs
    BY <1>1, SendReturnsStep, SendRaisesStep DEF LeavesWith, Leaves
  <2> QED BY <2>1, ReachedTyped DEF Sending
<1>2. ASSUME Restart
      PROVE  /\ runs' = runs
             /\ \A f \in Runs : (\A v \in Sweeps : ~Sending(v, f)) => delivered'[f] = delivered[f]
  <2>1. PICK through \in SUBSET {w \in Sweeps : sweep[w].stage = "sending"} :
           delivered' = Reached(through)
    BY <1>2, RestartStep
  <2>2. through \in SUBSET Sweeps /\ \A w \in through : sweep[w].stage = "sending"
    BY <2>1
  <2>3. runs' = runs
    BY <1>2, RestartStep
  <2> QED BY <2>1, <2>2, <2>3, ReachedTyped DEF Sending
<1>3. ASSUME Next, ~Restart, \A w \in Sweeps : ~SendReturns(w) /\ ~SendRaises(w)
      PROVE  delivered' = delivered
  <2>1. CASE \E j \in Jobs : Delete(j) \/ \E spec \in Specs : Create(j, spec)
    BY <2>1 DEF Create, Delete, outcome
  <2>2. CASE Ticking \/ EventSweep
    BY <2>2 DEF Ticking, EventSweep, Tick, EndTick, Dispatched, DispatchFails, EndFiring, Fire,
       outcome
  <2>3. ASSUME NEW w \in Sweeps, Sweeping(w)
        PROVE  delivered' = delivered
    <3>1. EndSweep(w) => delivered' = delivered
      BY DEF EndSweep, outcome
    <3>2. ASSUME NEW j \in Jobs, RecordVerdict(w, j) \/ NoBriefing(w, j) \/ SkipRow(w, j)
          PROVE  delivered' = delivered
      BY <3>2 DEF RecordVerdict, NoBriefing, SkipRow, outcome
    <3>3. ASSUME NEW j \in Jobs, ReadRaises(w, j) \/ Claim(w, j)
          PROVE  delivered' = delivered
      BY <3>3 DEF ReadRaises, Claim
    <3> QED BY <1>3, <2>3, <3>1, <3>2, <3>3 DEF Sweeping
  <2>4. CASE Pass \/ \E f \in Runs : RunEnds(f)
    BY <2>4 DEF Pass, RunEnds, outcome
  <2> QED BY <1>3, <2>1, <2>2, <2>3, <2>4 DEF Next
<1>4. CASE UNCHANGED vars
  BY <1>4 DEF vars, outcome
<1> QED BY <1>1, <1>2, <1>3, <1>4

\* Only a dispatch makes a session.
LEMMA RunsKept ==
    ASSUME [Next]_vars, ~Dispatched
    PROVE  runs' = runs
<1>1. CASE \E j \in Jobs : Delete(j) \/ \E spec \in Specs : Create(j, spec)
  BY <1>1 DEF Create, Delete
<1>2. CASE Ticking \/ EventSweep
  BY <1>2 DEF Ticking, EventSweep, Tick, EndTick, DispatchFails, Fire
<1>3. ASSUME NEW w \in Sweeps, Sweeping(w)
      PROVE  runs' = runs
  <2>1. SendReturns(w) \/ SendRaises(w) \/ EndSweep(w) => runs' = runs
    BY DEF SendReturns, SendRaises, EndSweep, Done
  <2>2. ASSUME NEW j \in Jobs, RecordVerdict(w, j) \/ NoBriefing(w, j) \/ SkipRow(w, j)
        PROVE  runs' = runs
    BY <2>2 DEF RecordVerdict, NoBriefing, SkipRow, Done
  <2>3. ASSUME NEW j \in Jobs, ReadRaises(w, j) \/ Claim(w, j)
        PROVE  runs' = runs
    BY <2>3 DEF ReadRaises, Claim, Done
  <2> QED BY <1>3, <2>1, <2>2, <2>3 DEF Sweeping
<1>4. CASE Pass \/ Restart \/ \E f \in Runs : RunEnds(f)
  BY <1>4 DEF Pass, Restart, RunEnds
<1>5. CASE UNCHANGED vars
  BY <1>5 DEF vars
<1> QED BY <1>1, <1>2, <1>3, <1>4, <1>5 DEF Next

\* Every step keeps a session with its job.
LEMMA OneJobStep ==
    ASSUME TypeOK, Flow, OneJob, [Next]_vars
    PROVE  OneJob'
<1>0. runs \in 0 .. MaxRuns /\ Runs \subseteq Int /\ \A f \in Runs : delivered[f] \in 0 .. 2
  <2>1. Runs \subseteq Int
    BY ResearchAssumption DEF Runs
  <2>2. runs \in 0 .. MaxRuns /\ \A f \in Runs : delivered[f] \in 0 .. 2
    BY DEF TypeOK
  <2> QED BY <2>1, <2>2
<1>1. ASSUME NEW f \in Runs, f > runs
      PROVE  delivered'[f] = 0
  <2>1. \A w \in Sweeps : ~Sending(w, f)
    <3> SUFFICES ASSUME NEW w \in Sweeps, Sending(w, f) PROVE FALSE
      OBVIOUS
    <3>1. sweep[w].job \in Jobs
      BY SentTyped DEF Sending
    <3>2. Has(sweep[w].job, f)
      BY HasOwn DEF Sending
    <3> QED BY <1>0, <1>1, <3>1, <3>2 DEF OneJob
  <2> QED BY <1>1, <2>1, DeliveriesStep DEF OneJob
<1>2. CASE Within
  <2>1. \A j \in Jobs, f \in Runs : Has(j, f)' => Has(j, f)
    BY <1>2, WithinKept
  <2>2. runs' >= runs
    <3>1. CASE Dispatched
      BY <1>0, <3>1, DispatchedStep
    <3>2. CASE ~Dispatched
      <4>1. runs' = runs
        BY <3>2, RunsKept
      <4> QED BY <1>0, <4>1
    <3> QED BY <3>1, <3>2
  <2>3. runs' \in Int
    BY FlowStep DEF TypeOK
  <2> QED BY <1>0, <1>1, <2>1, <2>2, <2>3 DEF OneJob
<1>3. CASE Dispatched
  <2>1. PICK q \in Rows : Lands(q) /\ q.delivery.session = runs + 1
    BY <1>3, DispatchedStep
  <2>2. runs' = runs + 1 /\ runs + 1 \in Runs
    BY <1>3, DispatchedStep
  <2>3. ASSUME NEW j \in Jobs, NEW f \in Runs, Has(j, f)'
        PROVE  Has(j, f) \/ (f = runs + 1 /\ j = firing.job)
    BY <2>1, <2>3 DEF Has, Lands, Sending, Copy
  <2> QED BY <1>0, <1>1, <2>2, <2>3 DEF OneJob
<1> QED BY <1>2, <1>3, WithinStep
-----------------------------------------------------------------------------
(* A briefing is sent once.                                                *)

\* A step that neither begins nor delivers a send, but of sessions that may be sent
\* again, and makes no row owe a session again that has been sent.
Quiet ==
    /\ repeats \subseteq repeats'
    /\ \A f \in Runs \ repeats' : delivered'[f] = delivered[f]
    /\ \A w \in Sweeps : sweep'[w].stage = "sending" => sweep'[w] = sweep[w]
    /\ \A j \in Jobs, f \in Runs \ repeats' :
          (/\ file'[j] # NoJob
           /\ file'[j].delivery.session = f
           /\ file'[j].delivery.status = "pending") =>
              \/ /\ file[j] # NoJob
                 /\ file[j].delivery = file'[j].delivery
              \/ /\ file[j] # NoJob
                 /\ file[j].delivery.session = f /\ file[j].delivery.status = "pending"
              \/ delivered[f] = 0 /\ \A w \in Sweeps : ~Sending(w, f)'

\* A quiet step sends no briefing again.
LEMMA QuietOnce ==
    ASSUME TypeOK, Once, Quiet
    PROVE  Once'
<1> SUFFICES ASSUME NEW f \in Runs, f \notin repeats'
             PROVE  /\ delivered'[f] <= 1
                    /\ \A w \in Sweeps : Sending(w, f)' => delivered'[f] = 0
                    /\ \A v, w \in Sweeps : Sending(v, f)' /\ Sending(w, f)' => v = w
                    /\ Gone(f)' => \A j \in Jobs : file'[j] # NoJob
                                      /\ file'[j].delivery.session = f
                                         => file'[j].delivery.status # "pending"
  BY DEF Once
<1>1. /\ f \notin repeats /\ delivered'[f] = delivered[f] /\ delivered[f] \in 0 .. 2
      /\ \A w \in Sweeps : Sending(w, f)' => Sending(w, f)
  BY DEF Quiet, Sending, TypeOK
<1>2. Gone(f)' => Gone(f)
  BY <1>1 DEF Gone
<1>3. /\ delivered[f] <= 1
      /\ \A w \in Sweeps : Sending(w, f) => delivered[f] = 0
      /\ \A v, w \in Sweeps : Sending(v, f) /\ Sending(w, f) => v = w
      /\ Gone(f) => \A j \in Jobs : file[j] # NoJob /\ file[j].delivery.session = f
                        => file[j].delivery.status # "pending"
  BY <1>1 DEF Once
<1>4. ASSUME Gone(f)', NEW j \in Jobs, file'[j] # NoJob, file'[j].delivery.session = f,
             file'[j].delivery.status = "pending"
      PROVE  FALSE
  <2>1. CASE file[j] # NoJob /\ file[j].delivery.session = f /\ file[j].delivery.status = "pending"
    BY <1>2, <1>3, <1>4, <2>1
  <2>2. CASE delivered[f] = 0 /\ \A w \in Sweeps : ~Sending(w, f)'
    BY <1>1, <1>4, <2>2 DEF Gone
  <2> QED BY <1>4, <2>1, <2>2 DEF Quiet
<1> QED BY <1>1, <1>3, <1>4

\* A sweep that leaves a row with this delivery is quiet.
LEMMA LeavesQuiet ==
    ASSUME TypeOK, NEW w \in Sweeps, NEW j \in Jobs, Leaves(w, j),
           repeats \subseteq repeats',
           \A f \in Runs \ repeats' : delivered'[f] = delivered[f],
           \A k \in Jobs \ {j} : file'[k] = file[k],
           \/ file'[j] = file[j]
           \/ file'[j].delivery.status # "pending"
           \/ file'[j].delivery.session \in repeats'
           \/ /\ file[j] # NoJob /\ file[j].delivery.status = "pending"
              /\ file[j].delivery.session = file'[j].delivery.session
           \/ \A f \in Runs : file'[j].delivery.session = f =>
                 delivered[f] = 0 /\ \A v \in Sweeps : ~Sending(v, f)'
    PROVE  Quiet
<1>1. \A v \in Sweeps : sweep'[v].stage = "sending" => sweep'[v] = sweep[v]
  BY DEF Leaves
<1>2. ASSUME NEW k \in Jobs, NEW f \in Runs \ repeats', file'[k] # NoJob,
             file'[k].delivery.session = f, file'[k].delivery.status = "pending"
      PROVE  \/ file[k] # NoJob /\ file[k].delivery = file'[k].delivery
             \/ /\ file[k] # NoJob
                /\ file[k].delivery.session = f /\ file[k].delivery.status = "pending"
             \/ delivered[f] = 0 /\ \A v \in Sweeps : ~Sending(v, f)'
  <2>1. CASE k = j
    BY <1>2, <2>1
  <2>2. CASE k # j
    BY <1>2, <2>2
  <2> QED BY <2>1, <2>2
<1> QED BY <1>1, <1>2 DEF Quiet

\* The steps of a sweep without a send are quiet.
LEMMA RowsQuiet ==
    ASSUME TypeOK, Flow, NEW w \in Sweeps, NEW j \in Jobs,
           RecordVerdict(w, j) \/ ReadRaises(w, j) \/ NoBriefing(w, j) \/ SkipRow(w, j)
    PROVE  Quiet
<1>1. CASE RecordVerdict(w, j)
  <2>1. /\ UNCHANGED outcome /\ Leaves(w, j)
        /\ \A k \in Jobs \ {j} : file'[k] = file[k]
        /\ file'[j].delivery.status = "none"
    BY <1>1, RecordVerdictStep DEF LeavesWith
  <2> QED BY <2>1, LeavesQuiet DEF outcome
<1>2. CASE ReadRaises(w, j)
  <2>1. PICK q \in Rows : /\ LeavesWith(w, j, q)
                          /\ q.delivery.session = Copy(w, j).delivery.session
    BY <1>2, ReadRaisesStep
  <2>2. /\ Copy(w, j) # NoJob /\ repeats \subseteq repeats' /\ UNCHANGED delivered
        /\ Copy(w, j).delivery.session \in repeats'
             \/ (file[j] = Copy(w, j) /\ Copy(w, j).delivery.status = "pending")
    BY <1>2, ReadRaisesStep
  <2>3. /\ Leaves(w, j) /\ file'[j] = q
        /\ \A k \in Jobs \ {j} : file'[k] = file[k]
    BY <2>1 DEF LeavesWith
  <2> QED BY <2>1, <2>2, <2>3, LeavesQuiet
<1>3. CASE NoBriefing(w, j)
  <2>1. PICK q \in Rows : LeavesWith(w, j, q) /\ q.delivery.status = "failed"
    BY <1>3, NoBriefingStep
  <2>2. /\ UNCHANGED outcome /\ Leaves(w, j) /\ file'[j] = q
        /\ \A k \in Jobs \ {j} : file'[k] = file[k]
    BY <1>3, <2>1, NoBriefingStep DEF LeavesWith
  <2> QED BY <2>1, <2>2, LeavesQuiet DEF outcome
<1>4. CASE SkipRow(w, j)
  BY <1>4, SkipRowStep, LeavesQuiet DEF outcome
<1> QED BY <1>1, <1>2, <1>3, <1>4

\* A send that raises leaves nothing of its session in flight, so it may be owed again.
LEMMA RaisesQuiet ==
    ASSUME TypeOK, Flow, Once, NEW w \in Sweeps, SendRaises(w)
    PROVE  Quiet
<1>1. /\ repeats \subseteq repeats' /\ sweep[w].stage = "sending"
      /\ \/ delivered' = delivered
         \/ /\ delivered' = Reached({w})
            /\ sweep[w].row.delivery.session \in repeats'
  BY SendRaisesStep
<1>2. PICK g \in Runs : sweep[w].row.delivery.session = g
  BY <1>1, SentTyped
<1>3. PICK j \in Jobs : sweep[w].job = j
  BY <1>1, SentTyped
<1>4. PICK q \in Rows : LeavesWith(w, j, q) /\ q.delivery.session = g
  BY <1>2, <1>3, SendRaisesStep
<1>5. /\ Leaves(w, j) /\ file'[j] = q
      /\ \A k \in Jobs \ {j} : file'[k] = file[k]
  BY <1>4 DEF LeavesWith
<1>6. \A f \in Runs \ repeats' : delivered'[f] = delivered[f]
  <2>1. {w} \in SUBSET Sweeps
    OBVIOUS
  <2>2. CASE delivered' = Reached({w}) /\ g \in repeats'
    BY <1>2, <2>1, <2>2, ReachedTyped
  <2> QED BY <1>1, <1>2, <2>2
<1>7. CASE g \in repeats'
  BY <1>1, <1>4, <1>5, <1>6, <1>7, LeavesQuiet
<1>8. CASE g \notin repeats'
  <2>1. delivered[g] = 0 /\ \A v \in Sweeps : Sending(v, g) => v = w
    BY <1>1, <1>2, <1>8 DEF Once, Sending
  <2>2. \A v \in Sweeps : ~Sending(v, g)'
    BY <1>5, <2>1 DEF Leaves, Sending
  <2> QED BY <1>1, <1>4, <1>5, <1>6, <2>1, <2>2, LeavesQuiet
<1> QED BY <1>7, <1>8

\* A sweep that loads the rows, or rests, is quiet.
LEMMA LoadsQuiet ==
    ASSUME TypeOK, Flow, NEW w \in Sweeps, Reloads(w)
    PROVE  Quiet
  BY DEF Reloads, Quiet, outcome

\* The steps of the tick are quiet: a session just dispatched has not been sent.
LEMMA TickingQuiet ==
    ASSUME TypeOK, Flow, OneJob, Ticking
    PROVE  Quiet
<1>1. CASE Tick
  BY <1>1, TickStep DEF Quiet, outcome
<1>2. CASE EndTick
  BY <1>2, EndTickStep, LoadsQuiet DEF Sweeps
<1>3. ASSUME NEW j \in Jobs, Fire(j)
      PROVE  Quiet
  <2>1. /\ UNCHANGED <<sweep, outcome>> /\ file[j] # NoJob
        /\ file'[j].delivery = file[j].delivery
        /\ \A k \in Jobs \ {j} : file'[k] = file[k]
    BY <1>3, FireStep
  <2> QED BY <2>1 DEF Quiet, outcome
<1>4. CASE DispatchFails
  <2>1. PICK q \in Rows : Lands(q) /\ q.delivery = firing.row.delivery
    BY <1>4, DispatchFailsStep
  <2>2. q.delivery.status # "pending"
    BY <2>1 DEF Lands, Flow, FiringFree
  <2> QED BY <2>1, <2>2 DEF Quiet, Lands, outcome
<1>5. CASE Dispatched
  <2>1. PICK f \in Runs : f = runs + 1
    BY <1>5, DispatchedStep
  <2>2. PICK q \in Rows : Lands(q) /\ q.delivery.session = f
    BY <1>5, <2>1, DispatchedStep
  <2>3. f > runs /\ ~(f <= runs)
    BY <2>1 DEF TypeOK
  <2>4. \A v \in Sweeps : ~Sending(v, f)
    <3> SUFFICES ASSUME NEW v \in Sweeps, Sending(v, f) PROVE FALSE
      OBVIOUS
    <3>1. sweep[v].job \in Jobs /\ Has(sweep[v].job, f)
      BY SentTyped, HasOwn DEF Sending
    <3> QED BY <2>3, <3>1 DEF OneJob
  <2>5. delivered[f] = 0 /\ \A v \in Sweeps : ~Sending(v, f)'
    BY <2>2, <2>3, <2>4 DEF OneJob, Lands, Sending
  <2> QED BY <2>2, <2>5 DEF Quiet, Lands, outcome
<1> QED BY <1>1, <1>2, <1>3, <1>4, <1>5 DEF Ticking

\* Jobs that are created or deleted are quiet: a new row is of no session.
LEMMA UsersQuiet ==
    ASSUME TypeOK, Flow, NEW j \in Jobs, Delete(j) \/ \E spec \in Specs : Create(j, spec)
    PROVE  Quiet
<1>1. /\ UNCHANGED <<sweep, outcome>>
      /\ \A k \in Jobs \ {j} : file'[k] = file[k]
      /\ file'[j] = NoJob \/ file'[j].delivery.status = "none"
  BY CreateStep, DeleteStep
<1> QED BY <1>1 DEF Quiet, outcome

\* What Once says of one session.
OnceOf(f) ==
    /\ delivered[f] <= 1
    /\ \A w \in Sweeps : Sending(w, f) => delivered[f] = 0
    /\ \A v, w \in Sweeps : Sending(v, f) /\ Sending(w, f) => v = w
    /\ Gone(f) => \A j \in Jobs : file[j] # NoJob /\ file[j].delivery.session = f
                                    => file[j].delivery.status # "pending"

\* A claim begins the only send of a session that has not been sent.
LEMMA ClaimOnce ==
    ASSUME TypeOK, Flow, OneJob, Once, NEW w \in Sweeps, NEW j \in Jobs, Claim(w, j)
    PROVE  Once'
<1>1. /\ Claims(w, j, Claimed(w, j))
      /\ file[j] # NoJob
      /\ Claimed(w, j).delivery.session = file[j].delivery.session
      /\ Claimed(w, j).delivery.status = "sending"
      /\ file[j].delivery.session \in Runs
      /\ repeats \subseteq repeats'
      /\ file[j].delivery.session \in repeats' \/ file[j].delivery.status = "pending"
      /\ sweep[w].stage = "rows"
  BY ClaimStep
<1>2. PICK g \in Runs : g = file[j].delivery.session
  BY <1>1
<1>3. /\ delivered' = delivered
      /\ file'[j].delivery.session = g /\ file'[j].delivery.status = "sending"
      /\ \A k \in Jobs \ {j} : file'[k] = file[k]
      /\ \A f : Sending(w, f)' <=> f = g
      /\ \A v \in Sweeps \ {w} : \A f : Sending(v, f)' <=> Sending(v, f)
  BY <1>1, <1>2 DEF Claims, Sending
<1>4. ASSUME NEW f \in Runs, f \notin repeats'
      PROVE  OnceOf(f)'
  <2>1. f \notin repeats /\ OnceOf(f)
    BY <1>1, <1>4 DEF Once, OnceOf
  <2>2. CASE f # g
    <3>1. \A v \in Sweeps : Sending(v, f)' => Sending(v, f)
      BY <1>3, <2>2
    <3>2. Gone(f)' => Gone(f)
      BY <1>3, <3>1 DEF Gone
    <3> QED BY <1>3, <2>1, <2>2, <3>1, <3>2 DEF OnceOf
  <2>3. CASE f = g
    <3>1. file[j].delivery.status = "pending"
      BY <1>1, <1>2, <1>4, <2>3
    <3>2. ~Gone(f)
      BY <1>1, <1>2, <2>1, <2>3, <3>1 DEF OnceOf
    <3>3. delivered[f] = 0 /\ \A v \in Sweeps : ~Sending(v, f)
      BY <3>2 DEF Gone, TypeOK
    <3>4. \A k \in Jobs : file[k] # NoJob /\ file[k].delivery.session = f => k = j
      BY <1>1, <1>2, <2>3, HasOwn DEF OneJob
    <3>5. \A v \in Sweeps : Sending(v, f)' => v = w
      BY <1>3, <3>3
    <3> QED BY <1>3, <2>3, <3>3, <3>4, <3>5 DEF OnceOf
  <2> QED BY <2>2, <2>3
<1> QED BY <1>4 DEF Once, OnceOf

\* A send that returns was the only one, and leaves a row that owes nothing.
LEMMA ReturnsOnce ==
    ASSUME TypeOK, Flow, Once, NEW w \in Sweeps, SendReturns(w)
    PROVE  Once'
<1>1. /\ UNCHANGED repeats /\ sweep[w].stage = "sending"
      /\ delivered' = Reached({w}) \/ delivered' = delivered
      /\ {w} \in SUBSET Sweeps
  BY SendReturnsStep
<1>2. PICK j \in Jobs : j = sweep[w].job
  BY <1>1, SentTyped
<1>3. PICK g \in Runs : g = sweep[w].row.delivery.session
  BY <1>1, SentTyped
<1>4. PICK q \in Rows : LeavesWith(w, j, q) /\ q.delivery.status = "sent"
  BY <1>2, SendReturnsStep
<1>5. /\ file'[j].delivery.status = "sent"
      /\ \A k \in Jobs \ {j} : file'[k] = file[k]
      /\ \A f : \A v \in Sweeps : Sending(v, f)' => v # w /\ Sending(v, f)
  BY <1>4 DEF LeavesWith, Leaves, Sending
<1>6. ASSUME NEW f \in Runs, f \notin repeats'
      PROVE  OnceOf(f)'
  <2>1. OnceOf(f)
    BY <1>1, <1>6 DEF Once, OnceOf
  <2>2. CASE f # g
    <3>1. delivered'[f] = delivered[f]
      BY <1>1, <1>3, <2>2, ReachedTyped
    <3>2. Gone(f)' => Gone(f)
      BY <1>5, <3>1 DEF Gone
    <3> QED BY <1>5, <2>1, <3>1, <3>2 DEF OnceOf
  <2>3. CASE f = g
    <3>1. Sending(w, f) /\ delivered[f] = 0
      BY <1>1, <1>3, <2>1, <2>3 DEF Sending, OnceOf
    <3>2. delivered'[f] <= 1
      <4>1. CASE delivered' = Reached({w})
        BY <1>1, <3>1, <4>1, ReachedTyped
      <4>2. CASE delivered' = delivered
        BY <3>1, <4>2
      <4> QED BY <1>1, <4>1, <4>2
    <3>3. \A v \in Sweeps : ~Sending(v, f)'
      BY <1>5, <2>1, <3>1 DEF OnceOf
    <3>4. Gone(f)
      BY <3>1 DEF Gone
    <3> QED BY <1>5, <2>1, <3>2, <3>3, <3>4 DEF OnceOf
  <2> QED BY <2>2, <2>3
<1> QED BY <1>6 DEF Once, OnceOf

\* A death delivers only what was being sent, and once.
LEMMA RestartOnce ==
    ASSUME TypeOK, Flow, Once, Restart
    PROVE  Once'
<1>1. PICK through \in SUBSET {w \in Sweeps : sweep[w].stage = "sending"} :
         delivered' = Reached(through)
  BY RestartStep
<1>2. /\ repeats' = repeats
      /\ \A w \in Sweeps : sweep'[w].stage # "sending"
      /\ \A j \in Jobs : file'[j] # NoJob =>
             file[j] # NoJob /\ file'[j].delivery = file[j].delivery
  BY RestartStep, RestingTyped
<1>3. through \in SUBSET Sweeps
      /\ \A w \in through : \A f : sweep[w].row.delivery.session = f => Sending(w, f)
  BY <1>1 DEF Sending
<1>4. ASSUME NEW f \in Runs, f \notin repeats'
      PROVE  OnceOf(f)'
  <2>1. OnceOf(f)
    BY <1>2, <1>4 DEF Once, OnceOf
  <2>2. delivered'[f] <= 1 /\ (Gone(f)' => Gone(f))
    <3>1. \A w \in Sweeps : ~Sending(w, f)'
      BY <1>2 DEF Sending
    <3>2. CASE \A w \in through : sweep[w].row.delivery.session # f
      <4>1. delivered'[f] = delivered[f]
        BY <1>1, <1>3, <3>2, ReachedTyped
      <4> QED BY <2>1, <3>1, <4>1 DEF OnceOf, Gone
    <3>3. ASSUME NEW w \in through, sweep[w].row.delivery.session = f
          PROVE  delivered'[f] <= 1 /\ Gone(f)
      <4>1. Sending(w, f) /\ w \in Sweeps
        BY <1>3, <3>3
      <4>2. delivered[f] = 0 /\ \A v \in through : sweep[v].row.delivery.session = f => v = w
        BY <1>3, <2>1, <4>1 DEF OnceOf
      <4>3. Gone(f)
        BY <4>1 DEF Gone
      <4> QED BY <1>1, <1>3, <4>2, <4>3, ReachedTyped
    <3> QED BY <3>2, <3>3
  <2> QED BY <1>2, <2>1, <2>2 DEF OnceOf, Sending
<1> QED BY <1>4 DEF Once, OnceOf

\* Every step keeps the sends of a session apart.
LEMMA OnceStep ==
    ASSUME TypeOK, Flow, OneJob, Once, [Next]_vars
    PROVE  Once'
<1>1. CASE \E j \in Jobs : Delete(j) \/ \E spec \in Specs : Create(j, spec)
  BY <1>1, UsersQuiet, QuietOnce
<1>2. CASE Ticking
  BY <1>2, TickingQuiet, QuietOnce
<1>3. CASE EventSweep
  BY <1>3, EventSweepStep, LoadsQuiet, QuietOnce DEF Sweeps
<1>4. ASSUME NEW w \in Sweeps, Sweeping(w)
      PROVE  Once'
  <2>1. CASE SendReturns(w)
    BY <2>1, ReturnsOnce
  <2>2. CASE SendRaises(w)
    BY <2>2, RaisesQuiet, QuietOnce
  <2>3. CASE EndSweep(w)
    BY <2>3, EndSweepStep, LoadsQuiet, QuietOnce
  <2>4. ASSUME NEW j \in Jobs,
               RecordVerdict(w, j) \/ ReadRaises(w, j) \/ NoBriefing(w, j) \/ SkipRow(w, j)
        PROVE  Once'
    BY <2>4, RowsQuiet, QuietOnce
  <2>5. ASSUME NEW j \in Jobs, Claim(w, j)
        PROVE  Once'
    BY <2>5, ClaimOnce
  <2> QED BY <1>4, <2>1, <2>2, <2>3, <2>4, <2>5 DEF Sweeping
<1>5. CASE Restart
  BY <1>5, RestartOnce
<1>6. CASE (Pass \/ \E f \in Runs : RunEnds(f)) \/ UNCHANGED vars
  <2>1. UNCHANGED <<file, sweep, outcome>>
    BY <1>6, OutsideStep DEF vars, outcome
  <2> QED BY <2>1, QuietOnce DEF Quiet, outcome
<1> QED BY <1>1, <1>2, <1>3, <1>4, <1>5, <1>6 DEF Next

\* A briefing reaches its channel twice only after an overrun, an old copy written back
\* or a raise of a send that had got through, for any number of jobs and deaths and
\* whatever the two sweeps, the tick and the users interleave (sweep_deliveries).
THEOREM SentOnceHolds == Spec => []SentOnceUnlessRepeated
<1>1. Init => OneJob /\ Once
  BY RestingTyped DEF Init, OneJob, Once, Has, Gone, Sending, Copy, Waiting
<1>2. TypeOK /\ Flow /\ OneJob /\ Once /\ [Next]_vars => (OneJob /\ Once)'
  BY OneJobStep, OnceStep
<1>3. TypeOK /\ Once => SentOnceUnlessRepeated
  <2> SUFFICES ASSUME TypeOK, Once PROVE SentOnceUnlessRepeated
    OBVIOUS
  <2>1. \A f \in Runs : delivered[f] \in 0 .. 2
    BY DEF TypeOK
  <2> QED BY <2>1 DEF Once, SentOnceUnlessRepeated
<1>4. Spec => [](OneJob /\ Once)
  BY <1>1, <1>2, TypeCorrect, PTL DEF Spec
<1> QED BY <1>3, <1>4, TypeCorrect, PTL
=============================================================================
