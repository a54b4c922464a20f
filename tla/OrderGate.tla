------------------------------ MODULE OrderGate ------------------------------
(***************************************************************************)
(* The pre-trade gate of the live channel of one broker: every caller that *)
(* submits an order through execute_live_order / LiveOrderGuardTool (path  *)
(* "order") or through execute_live_action (path "action"), with the files *)
(* they share: mandate.json, the HALT sentinels, the daily counter and the *)
(* order-admission lock, and the broker's book they read and change.       *)
(*                                                                         *)
(* One step is one read of shared state or one write of it, so that what   *)
(* other callers, the user and the broker do between two of them is seen.  *)
(***************************************************************************)
EXTENDS Integers, FiniteSets, FiniteSetsExt

CONSTANTS
    Clients,       \* concurrent callers of the gate (agent threads, processes)
    NoClient,      \* the lock file is not locked
    Symbols,       \* what can be traded
    Sizes,         \* signed order notionals: a buy is positive, a sell negative
    Mandates,      \* the mandates the user may commit
    NoMandate,     \* mandate.json is missing, corrupt or of another schema
    NoOrder,       \* the caller has no order in hand
    Unreadable,    \* the positions could not be read
    Paths,         \* the entry points in use, a subset of {"order", "action"}
    Effects,       \* what an accepted order does: "filled" and/or "resting"
    Reducers,      \* BOOLEAN: risk-reducing writes (cancel, close) are in use
    Cap,           \* no mandate allows more orders per day
    MaxDay,        \* bound: the UTC days explored are 0 .. MaxDay
    MaxFaults      \* bound: how often the counter and the broker's book part ways

Days == 0 .. MaxDay
Scopes == {"global", "scoped"}        \* live/HALT and live/<broker>/HALT
Orders == [symbol : Symbols, size : Sizes]
Books == [Symbols -> Int]

Terms == [universe : SUBSET Symbols, maxOrder : Nat, maxExposure : Nat,
          maxLeverage : Nat, funding : Nat, maxTrades : Nat, expires : Nat]

ASSUME GateAssumption ==
    /\ NoClient \notin Clients
    /\ Sizes \subseteq Int \ {0}
    /\ Mandates \subseteq Terms /\ NoMandate \notin Mandates
    /\ NoOrder \notin Orders /\ Unreadable \notin Books
    /\ Paths \subseteq {"order", "action"}
    /\ Effects \subseteq {"filled", "resting"}
    /\ Reducers \in BOOLEAN
    /\ Cap \in Nat /\ \A m \in Mandates : m.maxTrades <= Cap
    /\ MaxDay \in Nat /\ MaxFaults \in Nat

VARIABLES
    day,        \* the UTC date
    counter,    \* the counter file: the date it is stamped with, and its count
    lock,       \* the caller that holds the flock, or NoClient
    halt,       \* the sentinels that exist
    mandate,    \* what load_mandate returns
    book,       \* the broker's positions, in signed dollars
    resting,    \* how many orders of each kind rest unfilled at the broker
    client,     \* where each caller is, and what it has read so far
    placed,     \* history: orders the broker took, by day
    uncounted,  \* history: those among them whose count was lost, by day
    unmade,     \* history: answers taken for orders that the broker did not take, by day
    blind,      \* history: times today's count was taken for none, by day
    late        \* history: callers past a sentinel's check when it was tripped

files == <<counter, lock, halt, mandate>>
broker == <<book, resting>>
faults == <<uncounted, unmade, blind>>
history == <<placed, faults>>
vars == <<day, files, broker, client, history, late>>

-----------------------------------------------------------------------------
(* The order in which each path makes its checks.                          *)

Stages == {"idle", "global", "scoped", "read", "lock", "decide", "place", "count"}

OrderPath == [lock |-> "decide", global |-> "scoped", scoped |-> "read", read |-> "lock"]
ActionPath == [lock |-> "global", global |-> "scoped", scoped |-> "read", read |-> "decide"]

FirstStage(path) == IF path = "order" THEN "global" ELSE "lock"
NextStage(path, stage) == IF path = "order" THEN OrderPath[stage] ELSE ActionPath[stage]

Idle == [stage |-> "idle", path |-> "order", order |-> NoOrder,
         mandate |-> NoMandate, seen |-> Unreadable, on |-> 0]

Advance(c) == [client EXCEPT ![c].stage = NextStage(client[c].path, @)]

\* Return from the gate: whatever the exit, the with-block has released the lock.
Leave(c) ==
    /\ client' = [client EXCEPT ![c] = Idle]
    /\ lock' = IF lock = c THEN NoClient ELSE lock
    /\ late' = [s \in Scopes |-> late[s] \ {c}]

-----------------------------------------------------------------------------
(* What the checks compute.                                                *)

Expired(m) == day >= m.expires

\* What the file says of today.
Recorded == IF counter.date = day THEN counter.count ELSE 0

Add(f, d) == [f EXCEPT ![d] = @ + 1]

Spare == MapThenSumSet(LAMBDA d : uncounted[d] + unmade[d] + blind[d], Days) < MaxFaults

\* read_daily_count returns n: it fails open, to 0, when the file cannot be read.
ReadDailyCount(n) ==
    \/ n = Recorded /\ UNCHANGED blind
    \/ n = 0 /\ Recorded # 0 /\ Spare /\ blind' = Add(blind, day)

Magnitude(x) == IF x >= 0 THEN x ELSE -x
GrossExposure(b) == MapThenSumSet(LAMBDA s : Magnitude(b[s]), Symbols)
AfterFill(b, o) == [b EXCEPT ![o.symbol] = @ + o.size]

\* Fault: an order is compared with the trades before it, not with itself included.
InMandateOffByOne(m, o, seen, count) ==
    /\ o.symbol \in m.universe
    /\ Magnitude(o.size) <= m.maxOrder
    /\ seen # Unreadable
    /\ GrossExposure(AfterFill(seen, o)) <= m.maxExposure
    /\ GrossExposure(AfterFill(seen, o)) <= m.maxLeverage * m.funding
    /\ m.funding > 0
    /\ count <= m.maxTrades

\* Fault: the exposure of the order is compared with the cap, not that of the book after it.
InMandateOrderOnly(m, o, seen, count) ==
    /\ o.symbol \in m.universe
    /\ Magnitude(o.size) <= m.maxOrder
    /\ seen # Unreadable
    /\ Magnitude(o.size) <= m.maxExposure
    /\ m.funding > 0
    /\ count + 1 <= m.maxTrades

\* check_mandate finds nothing against order o: the order is in mandate.
InMandate(m, o, seen, count) ==
    /\ o.symbol \in m.universe
    /\ Magnitude(o.size) <= m.maxOrder
    /\ seen # Unreadable
    /\ GrossExposure(AfterFill(seen, o)) <= m.maxExposure
    /\ GrossExposure(AfterFill(seen, o)) <= m.maxLeverage * m.funding
    /\ m.funding > 0
    /\ count + 1 <= m.maxTrades
    /\ o.size > 0 => GrossExposure(AfterFill(seen, o)) <= m.funding

-----------------------------------------------------------------------------
Init ==
    /\ day = 0
    /\ counter = [date |-> 0, count |-> 0]
    /\ lock = NoClient
    /\ halt = {}
    /\ mandate \in Mandates \cup {NoMandate}
    /\ book = [s \in Symbols |-> 0]
    /\ resting = [o \in Orders |-> 0]
    /\ client = [c \in Clients |-> Idle]
    /\ placed = [d \in Days |-> 0]
    /\ uncounted = [d \in Days |-> 0]
    /\ unmade = [d \in Days |-> 0]
    /\ blind = [d \in Days |-> 0]
    /\ late = [s \in Scopes |-> {}]

\* Entry: load_mandate, and on the order path the expiry check.
Begin(c, path, o) ==
    /\ client[c].stage = "idle"
    /\ mandate \in Mandates
    /\ path = "order" => ~Expired(mandate)
    /\ client' = [client EXCEPT ![c] =
           [stage |-> FirstStage(path), path |-> path, order |-> o,
            mandate |-> mandate, seen |-> Unreadable, on |-> 0]]
    /\ UNCHANGED <<day, files, broker, history, late>>

\* Fault: a caller that finds the lock taken waits for it.
DenyOutsideLock(c) ==
    /\ client[c].stage \in {"global", "scoped", "read", "decide"}
    /\ Leave(c)
    /\ UNCHANGED <<day, counter, halt, mandate, broker, history>>

\* An early return: no price, no broker intent, or any failed check below.
Deny(c) ==
    /\ client[c].stage \in {"global", "scoped", "read", "lock", "decide"}
    /\ Leave(c)
    /\ UNCHANGED <<day, counter, halt, mandate, broker, history>>

\* halt_flag_set looks at the global sentinel first. On the action path the
\* expiry check has just run, under the lock.
CheckGlobal(c) ==
    /\ client[c].stage = "global"
    /\ "global" \notin halt
    /\ client[c].path = "action" => ~Expired(client[c].mandate)
    /\ client' = Advance(c)
    /\ UNCHANGED <<day, files, broker, history, late>>

\* Fault: only the global sentinel is looked at.
SkipScoped(c) ==
    /\ client[c].stage = "scoped"
    /\ client' = Advance(c)
    /\ UNCHANGED <<day, files, broker, history, late>>

CheckScoped(c) ==
    /\ client[c].stage = "scoped"
    /\ "scoped" \notin halt
    /\ client' = Advance(c)
    /\ UNCHANGED <<day, files, broker, history, late>>

ReadPositions(c) ==
    /\ client[c].stage = "read"
    /\ \E seen \in {book, Unreadable} :
          client' = [Advance(c) EXCEPT ![c].seen = seen]
    /\ UNCHANGED <<day, files, broker, history, late>>

\* Fault: the lock is shared between the callers.
TryLockShared(c) ==
    /\ client[c].stage = "lock"
    /\ lock' = c
    /\ client' = Advance(c)
    /\ UNCHANGED <<day, counter, halt, mandate, broker, history, late>>

TryLock(c) ==
    /\ client[c].stage = "lock"
    /\ lock = NoClient
    /\ lock' = c
    /\ client' = Advance(c)
    /\ UNCHANGED <<day, counter, halt, mandate, broker, history, late>>

Decide(c) ==
    /\ client[c].stage = "decide"
    /\ \E n \in {Recorded, 0} :
          /\ ReadDailyCount(n)
          /\ InMandate(client[c].mandate, client[c].order, client[c].seen, n)
    /\ client' = [client EXCEPT ![c].stage = "place"]
    /\ UNCHANGED <<day, files, broker, placed, uncounted, unmade, late>>

-----------------------------------------------------------------------------
(* The broker call and what follows it.                                    *)

\* The broker takes order o: it fills at once, or rests until it fills.
Execute(o) ==
    /\ placed' = [placed EXCEPT ![day] = @ + 1]
    /\ \/ /\ "filled" \in Effects
          /\ book' = AfterFill(book, o)
          /\ UNCHANGED resting
       \/ /\ "resting" \in Effects
          /\ resting' = [resting EXCEPT ![o] = @ + 1]
          /\ UNCHANGED book

PlaceOk(c) ==
    /\ client[c].stage = "place"
    /\ Execute(client[c].order)
    /\ client' = [client EXCEPT ![c].stage = "count", ![c].on = day]
    /\ UNCHANGED <<day, files, faults, late>>

\* The broker refuses the order in an answer that is no error: the gate goes on to count
\* an order there is not.
PlaceUnmade(c) ==
    /\ client[c].stage = "place"
    /\ Spare
    /\ unmade' = Add(unmade, day)
    /\ client' = [client EXCEPT ![c].stage = "count", ![c].on = day, ![c].order = NoOrder]
    /\ UNCHANGED <<day, files, broker, placed, uncounted, blind, late>>

\* An error answer to an order the broker did not take: nothing is counted.
PlaceRefused(c) ==
    /\ client[c].stage = "place"
    /\ Leave(c)
    /\ UNCHANGED <<day, counter, halt, mandate, broker, history>>

\* An error answer (timeout, dropped connection) to an order the broker took.
PlaceUnanswered(c) ==
    /\ client[c].stage = "place"
    /\ Spare
    /\ Execute(client[c].order)
    /\ uncounted' = Add(uncounted, day)
    /\ Leave(c)
    /\ UNCHANGED <<day, counter, halt, mandate, unmade, blind>>

\* increment_daily_count. Midnight between its two reads of the date would
\* stamp yesterday: every reader then sees what it sees if midnight came after.
Count(c) ==
    /\ client[c].stage = "count"
    /\ \E n \in {Recorded, 0} :
          ReadDailyCount(n) /\ counter' = [date |-> day, count |-> n + 1]
    /\ Leave(c)
    /\ UNCHANGED <<day, halt, mandate, broker, placed, uncounted, unmade>>

\* The process dies, or the counter file cannot be written: the operating
\* system or the with-block frees the lock, and nothing was counted.
AbortBeforeCount(c) ==
    LET d == client[c].on IN
    /\ client[c].stage = "count"
    /\ IF client[c].order = NoOrder THEN UNCHANGED uncounted
       ELSE Spare /\ uncounted' = Add(uncounted, d)
    /\ Leave(c)
    /\ UNCHANGED <<day, counter, halt, mandate, broker, placed, unmade, blind>>

-----------------------------------------------------------------------------
(* What others do to the shared state.                                     *)

\* Risk-reducing writes: no lock, no halt, no mandate, no count.
CancelResting(o) ==
    /\ Reducers
    /\ resting[o] > 0
    /\ resting' = [resting EXCEPT ![o] = @ - 1]
    /\ UNCHANGED <<day, files, book, client, history, late>>

ClosePosition(s) ==
    /\ Reducers
    /\ book[s] # 0
    /\ book' = [book EXCEPT ![s] = 0]
    /\ UNCHANGED <<day, files, resting, client, history, late>>

\* The broker fills an order that rested.
Fill(o) ==
    /\ resting[o] > 0
    /\ resting' = [resting EXCEPT ![o] = @ - 1]
    /\ book' = AfterFill(book, o)
    /\ UNCHANGED <<day, files, client, history, late>>

\* Callers whose next look at sentinel s, if any, belongs to another submission.
PastCheck(c, s) ==
    \/ client[c].stage \in {"read", "decide", "place", "count"}
    \/ client[c].stage = "lock" /\ client[c].path = "order"
    \/ client[c].stage = "scoped" /\ s = "global"

TripHalt(s) ==
    /\ halt' = halt \cup {s}
    /\ late' = IF s \in halt THEN late
               ELSE [late EXCEPT ![s] = {c \in Clients : PastCheck(c, s)}]
    /\ UNCHANGED <<day, counter, lock, mandate, broker, client, history>>

ClearHalt(s) ==
    /\ s \in halt
    /\ halt' = halt \ {s}
    /\ late' = [late EXCEPT ![s] = {}]
    /\ UNCHANGED <<day, counter, lock, mandate, broker, client, history>>

CommitMandate(m) ==
    /\ mandate' = m
    /\ UNCHANGED <<day, counter, lock, halt, broker, client, history, late>>

\* The counter file no longer parses, and every read is 0 until it is written again.
SpoilCounter ==
    /\ Recorded # 0 /\ Spare
    /\ counter' = [date |-> day, count |-> 0]
    /\ blind' = Add(blind, day)
    /\ UNCHANGED <<day, lock, halt, mandate, broker, client, placed, uncounted, unmade, late>>

Midnight ==
    /\ day < MaxDay
    /\ day' = day + 1
    /\ UNCHANGED <<files, broker, client, history, late>>

-----------------------------------------------------------------------------
Check(c) == CheckGlobal(c) \/ CheckScoped(c) \/ ReadPositions(c) \/ TryLock(c) \/ Decide(c)
Submit(c) == PlaceOk(c) \/ PlaceUnanswered(c)
Work(c) == Check(c) \/ Deny(c) \/ Submit(c) \/ PlaceRefused(c) \/ PlaceUnmade(c)
           \/ Count(c)

World ==
    \/ \E o \in Orders : CancelResting(o) \/ Fill(o)
    \/ \E s \in Symbols : ClosePosition(s)
    \/ \E s \in Scopes : TripHalt(s) \/ ClearHalt(s)
    \/ \E m \in Mandates : CommitMandate(m)
    \/ SpoilCounter
    \/ Midnight

Next ==
    \/ \E c \in Clients : \/ \E path \in Paths, o \in Orders : Begin(c, path, o)
                          \/ Work(c)
                          \/ AbortBeforeCount(c)
    \/ World

Spec == Init /\ [][Next]_vars

\* A running caller keeps executing: its calls return or time out.
FairSpec == Spec /\ \A c \in Clients : WF_vars(Work(c))

-----------------------------------------------------------------------------
(* Properties.                                                             *)

Submissions ==
    [stage : Stages, path : {"order", "action"}, order : Orders \cup {NoOrder},
     mandate : Mandates \cup {NoMandate}, seen : Books \cup {Unreadable}, on : Days]

\* Type invariant of the gate's files, the broker's book and the callers.
TypeOK ==
    /\ day \in Days
    /\ counter \in [date : Days, count : Nat]
    /\ lock \in Clients \cup {NoClient}
    /\ halt \in SUBSET Scopes
    /\ mandate \in Mandates \cup {NoMandate}
    /\ book \in Books
    /\ resting \in [Orders -> Nat]
    /\ client \in [Clients -> Submissions]
    /\ placed \in [Days -> Nat]
    /\ uncounted \in [Days -> Nat]
    /\ unmade \in [Days -> Nat]
    /\ blind \in [Days -> Nat]
    /\ late \in [Scopes -> SUBSET Clients]

Critical(c) ==
    \/ client[c].stage \in {"decide", "place", "count"}
    \/ client[c].path = "action" /\ client[c].stage \in {"global", "scoped", "read"}

\* daily_order_lock: whoever is between the final count check and the durable
\* increment holds the lock, so no two callers of either path are there at once.
AdmissionIsExclusive == \A c \in Clients : Critical(c) => lock = c

\* max_trades_per_day: an order the broker takes is within the limit of the mandate that
\* admitted it, one more for each order of that day whose count was lost, and as many
\* again as any mandate allows for each time the counter failed open, whatever the
\* interleaving of callers, recommits of the mandate and midnight.
DailyCap ==
    [][\A c \in Clients : Submit(c) =>
          placed'[day] <= client[c].mandate.maxTrades + uncounted'[day] + Cap * blind[day]]_vars

\* The counter does not run ahead of what the broker answered either: midnight between
\* the answer and the increment charges at most one order to the wrong day.
AtMostOneCarried == Recorded <= placed[day] + unmade[day] + 1

\* Kill switch: while a sentinel exists, the only callers that still reach the
\* broker are those that had passed that sentinel's check when it was tripped.
HaltStopsNewOrders ==
    [][\A c \in Clients, s \in Scopes : Submit(c) /\ s \in halt => c \in late[s]]_vars

\* max_total_exposure_usd: an order of the action path, which reads the positions under the
\* lock, never takes the book past the cap of the mandate that admitted it, whatever
\* callers of the order path do next to it.
ExposureCap ==
    [][\A c \in Clients : Submit(c) /\ client[c].path = "action" =>
          GrossExposure(book') <= client[c].mandate.maxExposure]_vars

\* The order path reads them before the lock: under one mandate, and while only the gate's
\* orders change the book, what other callers add in between takes an order past the cap by
\* no more than one order of each of them.
StaleReadsCost ==
    [][\A c \in Clients : Submit(c) =>
          GrossExposure(book') <= client[c].mandate.maxExposure
                + (Cardinality(Clients) - 1) * client[c].mandate.maxOrder]_vars

\* Every submission is answered: contention for the lock refuses, never waits.
SubmissionAnswered ==
    \A c \in Clients : client[c].stage # "idle" ~> client[c].stage = "idle"
=============================================================================
