--------------------------- MODULE OrderGateProofs ---------------------------
(* Proofs about the gate, for every set of callers, mandates and orders.   *)
EXTENDS OrderGateBudget, TLAPS

-----------------------------------------------------------------------------
(* What one step does to the record of the caller c that takes it.         *)

Callers == [Clients -> Submissions]

\* Caller c's record becomes r, and nobody else's changes.
Becomes(c, r) ==
    /\ r \in Submissions
    /\ client' \in Callers
    /\ client'[c] = r
    /\ \A k \in Clients \ {c} : client'[k] = client[k]

\* Caller c moves to stage s and keeps its path, order and mandate.
MovesTo(c, s) ==
    /\ Becomes(c, client'[c])
    /\ client'[c].stage = s
    /\ client'[c].path = client[c].path
    /\ client'[c].order = client[c].order
    /\ client'[c].mandate = client[c].mandate

\* Changing one caller to a well-typed record keeps the callers well typed.
LEMMA Update ==
    ASSUME client \in Callers, NEW c \in Clients, NEW r \in Submissions,
           client' = [client EXCEPT ![c] = r]
    PROVE  Becomes(c, r)
  BY DEF Callers, Becomes

\* The record of a caller that is outside the gate is well typed.
LEMMA IdleTyped == Idle \in Submissions
  BY GateAssumption DEF Idle, Submissions, Stages, Days

\* Leaving the gate makes the record the idle one.
LEMMA Leaving ==
    ASSUME client \in Callers, NEW c \in Clients, Leave(c)
    PROVE  Becomes(c, Idle) /\ client'[c].stage = "idle"
<1>1. Becomes(c, Idle)
  BY Update, IdleTyped DEF Leave
<1>2. Idle.stage = "idle"
  BY DEF Idle
<1> QED BY <1>1, <1>2 DEF Becomes

\* Entering the gate loads the order and the mandate on file.
LEMMA Entering ==
    ASSUME client \in Callers, NEW c \in Clients, NEW path \in Paths, NEW o \in Orders,
           Begin(c, path, o)
    PROVE  /\ Becomes(c, client'[c])
           /\ client'[c].stage = FirstStage(path)
           /\ client'[c].path = path
           /\ client'[c].order = o
           /\ client'[c].mandate = mandate
<1> DEFINE r == [stage |-> FirstStage(path), path |-> path, order |-> o,
                 mandate |-> mandate, seen |-> Unreadable, on |-> 0]
<1>1. /\ r \in Submissions
      /\ r.stage = FirstStage(path) /\ r.path = path /\ r.order = o /\ r.mandate = mandate
  <2>1. FirstStage(path) \in Stages
    BY DEF FirstStage, Stages
  <2>3. mandate \in Mandates /\ path \in {"order", "action"} /\ 0 \in Days
    BY GateAssumption DEF Begin, Days
  <2> QED BY <2>1, <2>3 DEF Submissions
<1> HIDE DEF r
<1>2. client' = [client EXCEPT ![c] = r]
  BY DEF Begin, r
<1> QED BY <1>1, <1>2, Update DEF Becomes

\* Changing the stage of a record, and possibly what it has seen or its date.
LEMMA Moving ==
    ASSUME client \in Callers, NEW c \in Clients, NEW s \in Stages,
           NEW seen \in Books \cup {Unreadable}, NEW d \in Days,
           \/ client' = [client EXCEPT ![c].stage = s]
           \/ client' = [[client EXCEPT ![c].stage = s] EXCEPT ![c].seen = seen]
           \/ client' = [client EXCEPT ![c].stage = s, ![c].on = d]
    PROVE  MovesTo(c, s)
<1> DEFINE q == client[c]
           r1 == [q EXCEPT !.stage = s]
           r2 == [r1 EXCEPT !.seen = seen]
           r3 == [r1 EXCEPT !.on = d]
<1>0. q \in Submissions
  BY DEF Callers
<1>1. /\ r1 \in Submissions
      /\ r1.stage = s /\ r1.path = q.path /\ r1.order = q.order /\ r1.mandate = q.mandate
  BY <1>0 DEF Submissions
<1>2. /\ r2 \in Submissions
      /\ r2.stage = s /\ r2.path = q.path /\ r2.order = q.order /\ r2.mandate = q.mandate
  BY <1>0 DEF Submissions
<1>3. /\ r3 \in Submissions
      /\ r3.stage = s /\ r3.path = q.path /\ r3.order = q.order /\ r3.mandate = q.mandate
  BY <1>0 DEF Submissions
<1>4. \/ client' = [client EXCEPT ![c] = r1]
      \/ client' = [client EXCEPT ![c] = r2]
      \/ client' = [client EXCEPT ![c] = r3]
  BY DEF Callers
<1> HIDE DEF r1, r2, r3
<1>5. CASE client' = [client EXCEPT ![c] = r1]
  BY <1>1, <1>5, Update DEF MovesTo, Becomes
<1>6. CASE client' = [client EXCEPT ![c] = r2]
  BY <1>2, <1>6, Update DEF MovesTo, Becomes
<1>7. CASE client' = [client EXCEPT ![c] = r3]
  BY <1>3, <1>7, Update DEF MovesTo, Becomes
<1> QED BY <1>4, <1>5, <1>6, <1>7

-----------------------------------------------------------------------------
(* What each action does, in these terms.                                  *)

\* The checks move their caller along its path; only TryLock touches a file.
Hop(c, from, to) == client[c].stage = from /\ client'[c].stage = to

\* Passing a check, whichever it is, keeps the types and moves one caller on.
LEMMA Checking ==
    ASSUME TypeOK, NEW c \in Clients, Check(c)
    PROVE  /\ MovesTo(c, client'[c].stage)
           /\ UNCHANGED <<day, counter, halt, mandate, book, resting, placed, uncounted,
                          unmade, late>>
           /\ Decide(c) \/ UNCHANGED blind
           /\ \/ Hop(c, "global", "scoped") /\ "global" \notin halt /\ UNCHANGED lock
              \/ Hop(c, "scoped", "read") /\ "scoped" \notin halt /\ UNCHANGED lock
              \/ /\ Hop(c, "read", IF client[c].path = "order" THEN "lock" ELSE "decide")
                 /\ UNCHANGED lock
              \/ /\ Hop(c, "lock", IF client[c].path = "order" THEN "decide" ELSE "global")
                 /\ lock = NoClient /\ lock' = c
              \/ Hop(c, "decide", "place") /\ UNCHANGED lock /\ Decide(c)
<1> DEFINE s == NextStage(client[c].path, client[c].stage)
<1>0. client \in Callers /\ 0 \in Days /\ Unreadable \in Books \cup {Unreadable}
  BY GateAssumption DEF TypeOK, Callers, Days
<1>1. client[c].stage \in {"lock", "global", "scoped", "read"} =>
         /\ s \in Stages
         /\ client[c].stage = "global" => s = "scoped"
         /\ client[c].stage = "scoped" => s = "read"
         /\ client[c].stage = "read" => s = IF client[c].path = "order" THEN "lock" ELSE "decide"
         /\ client[c].stage = "lock" => s = IF client[c].path = "order" THEN "decide" ELSE "global"
  BY DEF NextStage, OrderPath, ActionPath, Stages
<1>2. "place" \in Stages
  BY DEF Stages
<1>3. Advance(c) = [client EXCEPT ![c].stage = s]
  BY DEF Advance
<1> HIDE DEF s
<1>4. CASE CheckGlobal(c)
  <2>1. client[c].stage = "global" /\ MovesTo(c, s)
    BY <1>0, <1>1, <1>3, <1>4, Moving DEF CheckGlobal
  <2> QED BY <1>1, <1>4, <2>1 DEF CheckGlobal, MovesTo, Hop, files, broker, history, faults
<1>5. CASE CheckScoped(c)
  <2>1. client[c].stage = "scoped" /\ MovesTo(c, s)
    BY <1>0, <1>1, <1>3, <1>5, Moving DEF CheckScoped
  <2> QED BY <1>1, <1>5, <2>1 DEF CheckScoped, MovesTo, Hop, files, broker, history, faults
<1>6. CASE ReadPositions(c)
  <2>1. PICK seen \in Books \cup {Unreadable} :
           client' = [[client EXCEPT ![c].stage = s] EXCEPT ![c].seen = seen]
    BY <1>3, <1>6 DEF ReadPositions, TypeOK
  <2>2. client[c].stage = "read" /\ MovesTo(c, s)
    BY <1>0, <1>1, <1>6, <2>1, Moving DEF ReadPositions
  <2> QED BY <1>1, <1>6, <2>2 DEF ReadPositions, MovesTo, Hop, files, broker, history, faults
<1>7. CASE TryLock(c)
  <2>1. client[c].stage = "lock" /\ MovesTo(c, s)
    BY <1>0, <1>1, <1>3, <1>7, Moving DEF TryLock
  <2> QED BY <1>1, <1>7, <2>1 DEF TryLock, MovesTo, Hop, broker, history, faults
<1>8. CASE Decide(c)
  <2>1. client[c].stage = "decide" /\ MovesTo(c, "place")
    BY <1>0, <1>2, <1>8, Moving DEF Decide
  <2> QED BY <1>8, <2>1 DEF Decide, MovesTo, Hop, files, broker
<1> QED BY <1>4, <1>5, <1>6, <1>7, <1>8 DEF Check

\* Every exit resets its caller and frees the lock if the caller holds it.
Exits(c) ==
    /\ Becomes(c, Idle)
    /\ client'[c].stage = "idle"
    /\ lock' = IF lock = c THEN NoClient ELSE lock
    /\ late' = [s \in Scopes |-> late[s] \ {c}]

\* Leaving the gate, by whichever return, keeps the types and frees the lock.
LEMMA Exiting ==
    ASSUME TypeOK, NEW c \in Clients,
           Deny(c) \/ PlaceRefused(c) \/ PlaceUnanswered(c) \/ Count(c) \/ AbortBeforeCount(c)
    PROVE  Exits(c)
<1>1. client \in Callers
  BY DEF TypeOK, Callers
<1>2. Leave(c)
  BY DEF Deny, PlaceRefused, PlaceUnanswered, Count, AbortBeforeCount
<1> QED BY <1>1, <1>2, Leaving DEF Leave, Exits

\* The broker taking an order changes its book, its resting orders and placed.
LEMMA Executing ==
    ASSUME TypeOK, NEW o \in Orders, Execute(o)
    PROVE  book' \in Books /\ resting' \in [Orders -> Nat] /\ placed' \in [Days -> Nat]
<1>1. o.symbol \in Symbols /\ o.size \in Int
  BY GateAssumption DEF Orders
<1>2. book \in [Symbols -> Int] /\ AfterFill(book, o) \in [Symbols -> Int]
  BY <1>1 DEF TypeOK, Books, AfterFill
<1>3. book' \in Books
  BY <1>2 DEF Execute, Books, TypeOK
<1> QED BY <1>3 DEF Execute, TypeOK

\* An order taken with a non-error answer takes its caller to the increment.
LEMMA Placing ==
    ASSUME TypeOK, NEW c \in Clients, PlaceOk(c)
    PROVE  MovesTo(c, "count") /\ client'[c].on = day
<1>1. client \in Callers /\ "count" \in Stages /\ day \in Days
      /\ Unreadable \in Books \cup {Unreadable}
  BY DEF TypeOK, Callers, Stages
<1>2. client' = [client EXCEPT ![c].stage = "count", ![c].on = day]
  BY DEF PlaceOk
<1>3. client'[c].on = day
  BY <1>1, <1>2 DEF Callers, Submissions
<1> QED BY <1>1, <1>2, <1>3, Moving

\* So does an order that the broker did not take, with no order left in hand.
LEMMA PlacingUnmade ==
    ASSUME TypeOK, NEW c \in Clients, PlaceUnmade(c)
    PROVE  /\ Becomes(c, client'[c])
           /\ client'[c].stage = "count" /\ client'[c].on = day
           /\ client'[c].path = client[c].path
           /\ client'[c].order = NoOrder /\ client'[c].mandate = client[c].mandate
<1> DEFINE r == [client[c] EXCEPT !.stage = "count", !.on = day, !.order = NoOrder]
<1>1. client \in Callers /\ client[c] \in Submissions /\ day \in Days /\ "count" \in Stages
  BY DEF TypeOK, Callers, Stages
<1>2. /\ r \in Submissions
      /\ r.stage = "count" /\ r.on = day /\ r.path = client[c].path
      /\ r.order = NoOrder /\ r.mandate = client[c].mandate
  BY <1>1 DEF Submissions
<1>3. client' = [client EXCEPT ![c] = r]
  BY <1>1 DEF PlaceUnmade, Callers
<1> HIDE DEF r
<1> QED BY <1>1, <1>2, <1>3, Update DEF Becomes

-----------------------------------------------------------------------------
(* Types.                                                                  *)

\* A submission under way has the mandate it was loaded with, and an order until the broker
\* has answered.
Loaded == \A c \in Clients : client[c].stage # "idle" =>
             /\ client[c].mandate \in Mandates
             /\ client[c].order \in Orders \/ client[c].stage = "count"

\* Every reachable state is well typed: no answer, abort or midnight leaves a
\* file, the book or a caller's record outside its domain.
THEOREM TypeCorrect == Spec => [](TypeOK /\ Loaded)
<1>1. Init => TypeOK /\ Loaded
  <2> SUFFICES ASSUME Init PROVE TypeOK /\ Loaded
    OBVIOUS
  <2>1. client \in [Clients -> Submissions] /\ Loaded
    BY IdleTyped DEF Init, Loaded, Idle
  <2>2. 0 \in Days /\ [s \in Symbols |-> 0] \in Books
    BY GateAssumption DEF Days, Books
  <2> QED BY <2>1, <2>2 DEF Init, TypeOK
<1>2. TypeOK /\ Loaded /\ [Next]_vars => TypeOK' /\ Loaded'
  <2> SUFFICES ASSUME TypeOK, Loaded, [Next]_vars PROVE TypeOK' /\ Loaded'
    OBVIOUS
  <2>0. client \in Callers
    BY DEF TypeOK, Callers
  <2>1. ASSUME NEW c \in Clients, NEW path \in Paths, NEW o \in Orders, Begin(c, path, o)
        PROVE  TypeOK' /\ Loaded'
    <3>1. /\ client' \in Callers
          /\ client'[c].order = o /\ client'[c].mandate = mandate
          /\ \A k \in Clients \ {c} : client'[k] = client[k]
      BY <2>0, <2>1, Entering DEF Becomes
    <3>2. mandate \in Mandates
      BY <2>1 DEF Begin
    <3> QED BY <2>1, <3>1, <3>2 DEF Begin, files, broker, history, faults, TypeOK, Loaded, Callers
  <2>2. ASSUME NEW c \in Clients, Check(c) PROVE TypeOK' /\ Loaded'
    <3>1. MovesTo(c, client'[c].stage) /\ client[c].stage \notin {"idle", "count"}
      BY <2>2, Checking DEF Hop
    <3>2. client' \in Callers /\ Loaded'
      BY <3>1 DEF MovesTo, Becomes, Loaded
    <3>3. lock' \in Clients \cup {NoClient}
      BY <2>2, Checking DEF TypeOK
    <3>4. blind' \in [Days -> Nat]
      BY <2>2, Checking DEF Decide, ReadDailyCount, Add, TypeOK
    <3> QED BY <2>2, <3>2, <3>3, <3>4, Checking DEF TypeOK, Callers
  <2>3. ASSUME NEW c \in Clients, Exits(c)
        PROVE  /\ client' \in Callers /\ Loaded'
               /\ lock' \in Clients \cup {NoClient}
               /\ late' \in [Scopes -> SUBSET Clients]
    BY <2>3 DEF Exits, Becomes, Loaded, TypeOK
  <2>4. ASSUME NEW c \in Clients, Deny(c) \/ PlaceRefused(c) PROVE TypeOK' /\ Loaded'
    BY <2>3, <2>4, Exiting DEF Deny, PlaceRefused, broker, history, faults, TypeOK, Callers
  <2>5. ASSUME NEW c \in Clients, PlaceUnanswered(c) PROVE TypeOK' /\ Loaded'
    <3>1. Execute(client[c].order) /\ client[c].order \in Orders
      BY <2>5 DEF PlaceUnanswered, Loaded
    <3>2. uncounted' \in [Days -> Nat]
      BY <2>5 DEF PlaceUnanswered, Add, TypeOK
    <3> QED BY <2>3, <2>5, <3>1, <3>2, Executing, Exiting DEF PlaceUnanswered, TypeOK, Callers
  <2>6. ASSUME NEW c \in Clients, PlaceOk(c) PROVE TypeOK' /\ Loaded'
    <3>1. Execute(client[c].order) /\ client[c].order \in Orders
      BY <2>6 DEF PlaceOk, Loaded
    <3>2. MovesTo(c, "count") /\ client[c].stage # "idle"
      BY <2>6, Placing DEF PlaceOk
    <3>3. client' \in Callers /\ Loaded'
      BY <3>2 DEF MovesTo, Becomes, Loaded
    <3> QED BY <2>6, <3>1, <3>3, Executing DEF PlaceOk, files, faults, TypeOK, Callers
  <2>11. ASSUME NEW c \in Clients, PlaceUnmade(c) PROVE TypeOK' /\ Loaded'
    <3>1. client' \in Callers /\ Loaded'
      BY <2>11, PlacingUnmade DEF PlaceUnmade, Becomes, Loaded
    <3>2. unmade' \in [Days -> Nat]
      BY <2>11 DEF PlaceUnmade, Add, TypeOK
    <3> QED BY <2>11, <3>1, <3>2 DEF PlaceUnmade, files, broker, TypeOK, Callers
  <2>7. ASSUME NEW c \in Clients, Count(c) PROVE TypeOK' /\ Loaded'
    <3>1. PICK n \in {Recorded, 0} :
             ReadDailyCount(n) /\ counter' = [date |-> day, count |-> n + 1]
      BY <2>7 DEF Count
    <3>2. counter' \in [date : Days, count : Nat]
      BY <3>1 DEF Recorded, TypeOK
    <3>3. blind' \in [Days -> Nat]
      BY <3>1 DEF ReadDailyCount, Add, TypeOK
    <3> QED BY <2>3, <2>7, <3>2, <3>3, Exiting DEF Count, broker, TypeOK, Callers
  <2>8. ASSUME NEW c \in Clients, AbortBeforeCount(c) PROVE TypeOK' /\ Loaded'
    <3>1. client[c].on \in Days
      BY <2>0 DEF Callers, Submissions
    <3>2. uncounted' \in [Days -> Nat]
      BY <2>8, <3>1 DEF AbortBeforeCount, Add, TypeOK
    <3> QED BY <2>3, <2>8, <3>2, Exiting DEF AbortBeforeCount, broker, TypeOK, Callers
  <2>9. CASE World
    <3>1. UNCHANGED client => Loaded'
      BY DEF Loaded
    <3>2. ASSUME NEW o \in Orders PROVE CancelResting(o) \/ Fill(o) => TypeOK' /\ Loaded'
      <4>1. o.symbol \in Symbols /\ o.size \in Int
        BY GateAssumption DEF Orders
      <4>2. AfterFill(book, o) \in Books
        BY <4>1 DEF TypeOK, Books, AfterFill
      <4>3. CancelResting(o) \/ Fill(o) => resting' \in [Orders -> Nat]
        BY DEF CancelResting, Fill, TypeOK
      <4> QED BY <3>1, <4>2, <4>3 DEF CancelResting, Fill, TypeOK, files, history, faults
    <3>3. ASSUME NEW s \in Symbols PROVE ClosePosition(s) => TypeOK' /\ Loaded'
      <4>1. [book EXCEPT ![s] = 0] \in Books
        BY DEF TypeOK, Books
      <4> QED BY <3>1, <4>1 DEF ClosePosition, TypeOK, files, history, faults
    <3>4. ASSUME NEW s \in Scopes PROVE TripHalt(s) \/ ClearHalt(s) => TypeOK' /\ Loaded'
      BY <3>1 DEF TripHalt, ClearHalt, TypeOK, broker, history, faults
    <3>5. ASSUME NEW m \in Mandates PROVE CommitMandate(m) => TypeOK' /\ Loaded'
      BY <3>1 DEF CommitMandate, TypeOK, broker, history, faults
    <3>6. Midnight => TypeOK' /\ Loaded'
      <4>1. Midnight => day' \in Days
        BY GateAssumption DEF Midnight, TypeOK, Days
      <4> QED BY <3>1, <4>1 DEF Midnight, TypeOK, files, broker, history, faults
    <3>7. SpoilCounter => TypeOK' /\ Loaded'
      BY <3>1 DEF SpoilCounter, Add, broker, TypeOK
    <3> QED BY <2>9, <3>2, <3>3, <3>4, <3>5, <3>6, <3>7 DEF World
  <2>10. CASE UNCHANGED vars
    BY <2>10 DEF vars, files, broker, history, faults, TypeOK, Loaded
  <2> QED BY <2>1, <2>2, <2>4, <2>5, <2>6, <2>7, <2>8, <2>9, <2>10, <2>11 DEF Next, Work, Submit
<1> QED BY <1>1, <1>2, PTL DEF Spec

-----------------------------------------------------------------------------
(* The lock.                                                               *)

\* No step puts a second caller between the count check and the increment.
LEMMA ExclusiveStep ==
    ASSUME TypeOK, AdmissionIsExclusive, [Next]_vars
    PROVE  AdmissionIsExclusive'
<1>0. client \in Callers /\ NoClient \notin Clients
  BY GateAssumption DEF TypeOK, Callers
<1>1. ASSUME NEW c \in Clients, NEW path \in Paths, NEW o \in Orders, Begin(c, path, o)
      PROVE  AdmissionIsExclusive'
  <2>1. client'[c].stage = FirstStage(path) /\ client'[c].path = path /\ Becomes(c, client'[c])
    BY <1>0, <1>1, Entering
  <2>2. ~ Critical(c)'
    BY <2>1 DEF Critical, FirstStage
  <2> QED BY <1>1, <2>1, <2>2 DEF Begin, files, Becomes, AdmissionIsExclusive, Critical
<1>2. ASSUME NEW c \in Clients, Check(c) PROVE AdmissionIsExclusive'
  <2>1. /\ client'[c].path = client[c].path
        /\ \A k \in Clients \ {c} : client'[k] = client[k]
    BY <1>2, Checking DEF MovesTo, Becomes
  <2>0. client[c].path \in {"order", "action"}
    BY <1>0 DEF Callers, Submissions
  <2>2. Critical(c)' => lock' = c
    BY <1>2, <2>0, <2>1, Checking DEF Hop, Critical, AdmissionIsExclusive
  <2>3. \A k \in Clients \ {c} : Critical(k)' => lock' = k
    BY <1>0, <1>2, <2>1, Checking DEF Critical, AdmissionIsExclusive
  <2> QED BY <2>2, <2>3 DEF AdmissionIsExclusive
<1>3. ASSUME NEW c \in Clients, PlaceOk(c) PROVE AdmissionIsExclusive'
  <2>1. MovesTo(c, "count") /\ client[c].stage = "place" /\ lock' = lock
    BY <1>3, Placing DEF PlaceOk, files
  <2> QED BY <2>1 DEF MovesTo, Becomes, Critical, AdmissionIsExclusive
<1>4. ASSUME NEW c \in Clients, Exits(c) PROVE AdmissionIsExclusive'
  <2>1. ~ Critical(c)'
    BY <1>4 DEF Exits, Becomes, Idle, Critical
  <2>2. \A k \in Clients \ {c} : Critical(k)' => lock' = k
    BY <1>0, <1>4 DEF Exits, Becomes, Critical, AdmissionIsExclusive
  <2> QED BY <2>1, <2>2 DEF AdmissionIsExclusive
<1>7. ASSUME NEW c \in Clients, PlaceUnmade(c) PROVE AdmissionIsExclusive'
  <2>1. client[c].stage = "place" /\ lock' = lock
    BY <1>7 DEF PlaceUnmade, files
  <2> QED BY <1>7, <2>1, PlacingUnmade DEF Becomes, Critical, AdmissionIsExclusive
<1>5. CASE World
  BY <1>5 DEF World, CancelResting, Fill, ClosePosition, TripHalt, ClearHalt,
     CommitMandate, SpoilCounter, Midnight, files, AdmissionIsExclusive, Critical
<1>6. CASE UNCHANGED vars
  BY <1>6 DEF vars, files, AdmissionIsExclusive, Critical
<1> QED BY <1>1, <1>2, <1>3, <1>4, <1>5, <1>6, <1>7, Exiting DEF Next, Work, Submit

\* daily_order_lock serialises the final count check, the broker call and the
\* increment across all callers of both paths, whoever aborts or is refused.
THEOREM Exclusive == Spec => []AdmissionIsExclusive
<1>1. Init => AdmissionIsExclusive
  BY DEF Init, Idle, AdmissionIsExclusive, Critical
<1> QED BY <1>1, ExclusiveStep, TypeCorrect, PTL DEF Spec

-----------------------------------------------------------------------------
(* The kill switch.                                                        *)

\* Whoever is past the check of a sentinel that exists was so when it was tripped.
LateComers == \A s \in halt : \A c \in Clients : PastCheck(c, s) => c \in late[s]

\* Whoever is past the check of an existing sentinel after a step was late.
LEMMA HaltStep ==
    ASSUME TypeOK, LateComers, [Next]_vars
    PROVE  LateComers'
<1>0. client \in Callers /\ halt \subseteq Scopes
  BY DEF TypeOK, Callers
<1>1. ASSUME NEW c \in Clients, NEW path \in Paths, NEW o \in Orders, Begin(c, path, o)
      PROVE  LateComers'
  <2>1. client'[c].stage = FirstStage(path) /\ client'[c].path = path /\ Becomes(c, client'[c])
    BY <1>0, <1>1, Entering
  <2>2. \A s \in Scopes : ~ PastCheck(c, s)'
    BY <2>1, GateAssumption DEF PastCheck, FirstStage
  <2> QED BY <1>0, <1>1, <2>1, <2>2 DEF Begin, files, Becomes, LateComers, PastCheck
<1>2. ASSUME NEW c \in Clients, Check(c) PROVE LateComers'
  <2>1. /\ client'[c].path = client[c].path
        /\ \A k \in Clients \ {c} : client'[k] = client[k]
        /\ halt' = halt /\ late' = late
    BY <1>2, Checking DEF MovesTo, Becomes
  <2>2. client[c].path \in {"order", "action"}
    BY <1>0 DEF Callers, Submissions
  <2>3. \A s \in halt : PastCheck(c, s)' => PastCheck(c, s)
    BY <1>0, <1>2, <2>1, <2>2, Checking DEF Hop, PastCheck, Scopes
  <2> QED BY <2>1, <2>3 DEF LateComers, PastCheck
<1>3. ASSUME NEW c \in Clients, PlaceOk(c) PROVE LateComers'
  <2>1. MovesTo(c, "count") /\ client[c].stage = "place" /\ halt' = halt /\ late' = late
    BY <1>3, Placing DEF PlaceOk, files
  <2> QED BY <2>1 DEF MovesTo, Becomes, PastCheck, LateComers
<1>4. ASSUME NEW c \in Clients, Exits(c), halt' = halt PROVE LateComers'
  <2>1. \A s \in Scopes : ~ PastCheck(c, s)'
    BY <1>4 DEF Exits, PastCheck
  <2>2. \A s \in halt : \A k \in Clients \ {c} : PastCheck(k, s)' => k \in late'[s]
    BY <1>0, <1>4 DEF Exits, Becomes, PastCheck, LateComers
  <2> QED BY <1>0, <1>4, <2>1, <2>2 DEF LateComers
<1>8. ASSUME NEW c \in Clients, PlaceUnmade(c) PROVE LateComers'
  <2>1. client[c].stage = "place" /\ halt' = halt /\ late' = late
    BY <1>8 DEF PlaceUnmade, files
  <2> QED BY <1>8, <2>1, PlacingUnmade DEF Becomes, PastCheck, LateComers
<1>5. CASE World
  <2>1. ASSUME NEW s \in Scopes, TripHalt(s) PROVE LateComers'
    BY <1>0, <2>1 DEF TripHalt, LateComers, PastCheck, TypeOK
  <2>2. ASSUME NEW s \in Scopes, ClearHalt(s) PROVE LateComers'
    BY <1>0, <2>2 DEF ClearHalt, LateComers, PastCheck, TypeOK
  <2> QED BY <1>5, <2>1, <2>2 DEF World, CancelResting, Fill, ClosePosition,
             CommitMandate, SpoilCounter, Midnight, files, LateComers, PastCheck
<1>6. CASE UNCHANGED vars
  BY <1>6 DEF vars, files, LateComers, PastCheck
<1>7. \A c \in Clients : Deny(c) \/ PlaceRefused(c) \/ PlaceUnanswered(c) \/ Count(c)
                            \/ AbortBeforeCount(c) => halt' = halt
  BY DEF Deny, PlaceRefused, PlaceUnanswered, Count, AbortBeforeCount
<1> QED BY <1>1, <1>2, <1>3, <1>4, <1>5, <1>6, <1>7, <1>8, Exiting DEF Next, Work, Submit

\* Kill switch: an order the broker takes while a sentinel exists comes from a
\* caller that was past that sentinel's check when it was tripped.
THEOREM HaltStops == Spec => HaltStopsNewOrders
<1>1. Init => LateComers
  BY DEF Init, LateComers
<1>2. LateComers /\ [Next]_vars =>
         [\A c \in Clients, s \in Scopes : Submit(c) /\ s \in halt => c \in late[s]]_vars
  BY DEF LateComers, PastCheck, Submit, PlaceOk, PlaceUnanswered
<1> QED BY <1>1, <1>2, HaltStep, TypeCorrect, PTL DEF Spec, HaltStopsNewOrders

-----------------------------------------------------------------------------
(* The daily count.                                                        *)

Uncounting(c) == client[c].stage = "count" /\ client[c].on = day

\* One when an answer of today waits for its increment, and one when it is for an order
\* that the broker took.
Pending == IF \E c \in Clients : Uncounting(c) THEN 1 ELSE 0
Made == IF \E c \in Clients : Uncounting(c) /\ client[c].order # NoOrder THEN 1 ELSE 0

\* By how much the orders of a day may exceed a limit: the counts that were lost, and a
\* whole limit for each time the counter failed open.
Slack == [d \in Days |-> uncounted[d] + Cap * blind[d]]

\* Room for one more order of today under the mandate that caller c was admitted by.
Room(c) ==
    /\ 1 <= client[c].mandate.maxTrades
    /\ placed[day] + 1 <= client[c].mandate.maxTrades + Slack[day]

\* The counter file against what the broker took: DailyCap is not inductive
\* without it, as the count a caller decided on may since be a day old.
CountInv ==
    /\ counter.date <= day
    /\ \A c \in Clients : client[c].stage = "count" =>
          counter.date <= client[c].on /\ client[c].on <= day
    /\ \A c \in Clients : client[c].stage = "place" => Room(c)
    /\ \A d \in Days : d > day =>
          placed[d] = 0 /\ uncounted[d] = 0 /\ unmade[d] = 0 /\ blind[d] = 0
    /\ placed[day] <= Recorded + Slack[day] + Made
    /\ Recorded + Pending <= placed[day] + unmade[day] + 1
    /\ \A d \in Days : placed[d] <= Cap + Slack[d]

\* No two callers are between the decision and the increment.
LEMMA Alone ==
    ASSUME AdmissionIsExclusive, NEW c \in Clients, NEW k \in Clients \ {c},
           client[c].stage \in {"decide", "place", "count"}
    PROVE  client[k].stage \notin {"decide", "place", "count"}
  BY DEF AdmissionIsExclusive, Critical

\* The counts that the daily budget adds up are numbers.
LEMMA Numbers ==
    ASSUME TypeOK
    PROVE  /\ day \in Nat /\ day \in Days /\ Days \subseteq Nat /\ Cap \in Nat
           /\ counter.date \in Nat /\ counter.count \in Nat /\ Recorded \in Nat
           /\ \A d \in Days : /\ placed[d] \in Nat /\ uncounted[d] \in Nat
                              /\ unmade[d] \in Nat /\ blind[d] \in Nat
           /\ Pending \in {0, 1} /\ Made \in {0, 1} /\ Made <= Pending
           /\ \A c \in Clients : client[c].on \in Days
<1>1. Days \subseteq Nat /\ Cap \in Nat
  BY GateAssumption DEF Days
<1>2. /\ day \in Days /\ counter.date \in Days /\ counter.count \in Nat
      /\ \A c \in Clients : client[c].on \in Days
      /\ \A d \in Days : /\ placed[d] \in Nat /\ uncounted[d] \in Nat
                         /\ unmade[d] \in Nat /\ blind[d] \in Nat
  BY DEF TypeOK, Submissions
<1>3. Recorded \in Nat
  BY <1>2 DEF Recorded
<1>4. Pending \in {0, 1} /\ Made \in {0, 1} /\ Made <= Pending
  BY DEF Pending, Made
<1> QED BY <1>1, <1>2, <1>3, <1>4

\* A limit for a number of times is a number, and one more for one more time.
LEMMA Product ==
    ASSUME NEW b \in Nat
    PROVE  Cap * b \in Nat /\ Cap * (b + 1) = Cap * b + Cap
  BY GateAssumption

LEMMA SlackNat ==
    ASSUME TypeOK, NEW d \in Days
    PROVE  Slack[d] \in Nat
<1>1. uncounted[d] \in Nat /\ blind[d] \in Nat
  BY Numbers
<1>2. Cap * blind[d] \in Nat
  BY <1>1, Product
<1> QED BY <1>1, <1>2 DEF Slack

\* Losing one more count of day d adds one to its slack.
LEMMA SlackOfLoss ==
    ASSUME TypeOK, NEW d \in Days, uncounted' = Add(uncounted, d), UNCHANGED blind
    PROVE  /\ Slack'[d] = Slack[d] + 1
           /\ \A e \in Days \ {d} : Slack'[e] = Slack[e]
<1>1. uncounted'[d] = uncounted[d] + 1 /\ \A e \in Days \ {d} : uncounted'[e] = uncounted[e]
  BY DEF Add, TypeOK
<1>2. uncounted[d] \in Nat /\ Cap * blind[d] \in Nat
  BY Numbers, Product
<1>3. Slack'[d] = uncounted'[d] + Cap * blind[d] /\ \A e \in Days \ {d} : Slack'[e] = Slack[e]
  BY <1>1 DEF Slack
<1> QED BY <1>1, <1>2, <1>3 DEF Slack

\* A counter that fails open today adds a whole limit to today's slack.
LEMMA SlackOfBlindness ==
    ASSUME TypeOK, blind' = Add(blind, day), UNCHANGED uncounted
    PROVE  /\ Slack'[day] = Slack[day] + Cap
           /\ \A e \in Days \ {day} : Slack'[e] = Slack[e]
<1>1. blind'[day] = blind[day] + 1 /\ \A e \in Days \ {day} : blind'[e] = blind[e]
  BY DEF Add, TypeOK
<1>2. /\ uncounted[day] \in Nat /\ Cap * blind[day] \in Nat /\ Cap \in Nat
      /\ Cap * (blind[day] + 1) = Cap * blind[day] + Cap
  BY Numbers, Product
<1>3. \A e \in Days \ {day} : Slack'[e] = Slack[e]
  BY <1>1 DEF Slack
<1>4. Slack'[day] = uncounted[day] + Cap * (blind[day] + 1)
  BY <1>1, Numbers DEF Slack
<1>5. Slack[day] = uncounted[day] + Cap * blind[day]
  BY Numbers DEF Slack
<1> QED BY <1>2, <1>3, <1>4, <1>5

\* Nothing about the count changes while a caller moves up to the decision, or leaves.
Quiet(c) ==
    /\ UNCHANGED <<day, counter, placed, faults>>
    /\ Becomes(c, client'[c])
    /\ client[c].stage # "count" /\ client'[c].stage \notin {"place", "count"}

\* A step that leaves counts, books of orders and admitted callers alone keeps CountInv.
LEMMA QuietStep ==
    ASSUME TypeOK, CountInv, NEW c \in Clients, Quiet(c)
    PROVE  CountInv'
<1>1. Recorded' = Recorded /\ \A d \in Days : Slack'[d] = Slack[d]
  BY DEF Quiet, Recorded, Slack, faults
<1>2. Pending' = Pending /\ Made' = Made
  <2>1. \A k \in Clients : Uncounting(k)' => Uncounting(k) /\ client'[k] = client[k]
    BY DEF Quiet, Becomes, Uncounting
  <2>2. \A k \in Clients : Uncounting(k) => Uncounting(k)' /\ client'[k] = client[k]
    BY DEF Quiet, Becomes, Uncounting
  <2> QED BY <2>1, <2>2 DEF Pending, Made
<1>3. Slack'[day] = Slack[day] /\ day' = day
  BY <1>1, Numbers DEF Quiet, Slack, faults
<1>4. \A k \in Clients : client'[k].stage = "place" => Room(k)'
  BY <1>3 DEF Quiet, Becomes, CountInv, Room
<1> QED BY <1>1, <1>2, <1>3, <1>4 DEF Quiet, Becomes, CountInv, faults

\* Whoever admits an order has room for it: by the count on file, or, where the counter
\* failed open, by the slack that this adds.
LEMMA DecideStep ==
    ASSUME TypeOK, Loaded, AdmissionIsExclusive, CountInv, NEW c \in Clients, Decide(c)
    PROVE  CountInv'
<1> DEFINE max == client[c].mandate.maxTrades
<1>1. /\ client[c].stage = "decide" /\ MovesTo(c, "place")
      /\ UNCHANGED <<day, counter, placed, uncounted, unmade>>
  <2>1. Check(c) /\ client[c].stage = "decide"
    BY DEF Decide, Check
  <2> QED BY <2>1, Checking DEF Hop, MovesTo
<1>2. max \in Nat /\ max <= Cap /\ Cap \in Nat
  BY <1>1, GateAssumption DEF Loaded, Terms
<1>3. PICK n \in {Recorded, 0} : ReadDailyCount(n) /\ n + 1 <= max
  BY DEF Decide, InMandate
<1> HIDE DEF max
<1>4. \A k \in Clients \ {c} : client[k].stage \notin {"decide", "place", "count"}
  BY <1>1, Alone
<1>5. \A k \in Clients : client'[k].stage # "count" /\ client[k].stage # "count"
  BY <1>1, <1>4 DEF MovesTo, Becomes
<1>6. Pending = 0 /\ Made = 0 /\ Pending' = 0 /\ Made' = 0 /\ Recorded' = Recorded
  BY <1>1, <1>5 DEF Pending, Made, Uncounting, Recorded
<1>7. /\ Slack[day] \in Nat /\ \A d \in Days : Slack[d] \in Nat
      /\ placed[day] <= Recorded + Slack[day] /\ placed[day] <= Cap + Slack[day]
      /\ placed[day] \in Nat /\ Recorded \in Nat
  BY <1>6, Numbers, SlackNat DEF CountInv
<1>8. /\ 1 <= max /\ placed[day] + 1 <= max + Slack'[day]
      /\ Slack[day] <= Slack'[day] /\ Slack'[day] \in Nat
      /\ \A d \in Days \ {day} : Slack'[d] = Slack[d]
      /\ \A d \in Days : d > day => blind'[d] = blind[d]
  <2>1. CASE n = Recorded /\ UNCHANGED blind
    <3>1. Slack'[day] = Slack[day] /\ \A d \in Days : Slack'[d] = Slack[d]
      BY <1>1, <2>1 DEF Slack
    <3> QED BY <1>2, <1>3, <1>7, <2>1, <3>1
  <2>2. CASE n = 0 /\ blind' = Add(blind, day)
    <3>1. Slack'[day] = Slack[day] + Cap /\ \A d \in Days \ {day} : Slack'[d] = Slack[d]
      BY <1>1, <2>2, SlackOfBlindness
    <3>2. \A d \in Days : d > day => blind'[d] = blind[d]
      BY <2>2, Numbers DEF Add, TypeOK
    <3> QED BY <1>2, <1>3, <1>7, <2>2, <3>1, <3>2
  <2> QED BY <1>3, <2>1, <2>2 DEF ReadDailyCount
<1>9. \A k \in Clients : client'[k].stage = "place" => Room(k)'
  <2>1. \A k \in Clients : client'[k].stage = "place" => k = c
    BY <1>1, <1>4 DEF MovesTo, Becomes
  <2>2. client'[c].mandate.maxTrades = max
    BY <1>1 DEF MovesTo, max
  <2> QED BY <1>1, <1>8, <2>1, <2>2 DEF Room
<1>10. \A d \in Days : placed[d] <= Cap + Slack'[d]
  <2>1. \A d \in Days : placed[d] <= Cap + Slack[d] /\ placed[d] \in Nat
    BY Numbers DEF CountInv
  <2> QED BY <1>2, <1>7, <1>8, <2>1, Numbers
<1>11. placed[day] <= Recorded + Slack'[day]
  BY <1>7, <1>8
<1>12. Recorded <= placed[day] + unmade[day] + 1
  BY <1>6, <1>7, Numbers DEF CountInv
<1>13. \A d \in Days : d > day =>
          placed'[d] = 0 /\ uncounted'[d] = 0 /\ unmade'[d] = 0 /\ blind'[d] = 0
  BY <1>1, <1>8 DEF CountInv
<1>14. Slack'[day] \in Nat /\ day' = day /\ placed[day] \in Nat /\ unmade[day] \in Nat
  BY <1>1, <1>8, Numbers
<1>15. placed'[day'] <= Recorded' + Slack'[day] + Made'
       /\ Recorded' + Pending' <= placed'[day'] + unmade'[day'] + 1
  BY <1>1, <1>6, <1>7, <1>11, <1>12, <1>14
<1> QED BY <1>1, <1>5, <1>9, <1>10, <1>13, <1>15 DEF CountInv

\* The broker's answer keeps CountInv, and an order it takes had room.
LEMMA PlaceStep ==
    ASSUME TypeOK, Loaded, AdmissionIsExclusive, CountInv, NEW c \in Clients,
           Submit(c) \/ PlaceUnmade(c)
    PROVE  /\ CountInv'
           /\ placed[day] + 1 <= client[c].mandate.maxTrades + Slack[day]
           /\ client[c].mandate.maxTrades \in Nat /\ client[c].mandate.maxTrades <= Cap
           /\ Submit(c) => placed' = [placed EXCEPT ![day] = @ + 1]
<1> DEFINE max == client[c].mandate.maxTrades
<1>1. client[c].stage = "place" /\ UNCHANGED <<day, counter, blind>>
  BY DEF Submit, PlaceOk, PlaceUnanswered, PlaceUnmade, files, faults
<1>2. \A k \in Clients \ {c} : client[k].stage \notin {"decide", "place", "count"}
  BY <1>1, Alone
<1>3. Pending = 0 /\ Made = 0 /\ Recorded' = Recorded
  BY <1>1, <1>2 DEF Pending, Made, Uncounting, Recorded
<1>4. max \in Nat /\ max <= Cap /\ Cap \in Nat
  BY <1>1, GateAssumption DEF Loaded, Terms
<1>5. placed[day] + 1 <= max + Slack[day]
  BY <1>1 DEF CountInv, Room
<1> HIDE DEF max
<1>6. \A d \in Days : /\ Slack[d] \in Nat /\ placed[d] \in Nat /\ unmade[d] \in Nat
                      /\ placed[d] <= Cap + Slack[d]
  BY Numbers, SlackNat DEF CountInv
<1>7. /\ placed[day] <= Recorded + Slack[day] /\ Recorded <= placed[day] + unmade[day] + 1
      /\ Recorded \in Nat /\ day \in Days /\ day \in Nat
  BY <1>3, <1>6, Numbers DEF CountInv
<1>8. \A d \in Days : d > day =>
         placed[d] = 0 /\ uncounted[d] = 0 /\ unmade[d] = 0 /\ blind[d] = 0
  BY DEF CountInv
<1>9. Submit(c) => placed' = [placed EXCEPT ![day] = @ + 1]
  BY DEF Submit, PlaceOk, PlaceUnanswered, Execute
<1>10. Submit(c) => /\ placed'[day] = placed[day] + 1
                    /\ \A d \in Days \ {day} : placed'[d] = placed[d]
  BY <1>9, Numbers DEF TypeOK
<1>11. CountInv'
  <2>1. CASE PlaceOk(c)
    <3>1. /\ MovesTo(c, "count") /\ client'[c].on = day /\ client'[c].order \in Orders
          /\ UNCHANGED <<uncounted, unmade>> /\ Submit(c)
      BY <1>1, <2>1, Placing DEF PlaceOk, MovesTo, Loaded, Submit, faults
    <3>2. \A k \in Clients : client'[k].stage \in {"place", "count"} => k = c
      BY <1>2, <3>1 DEF MovesTo, Becomes
    <3>3. Pending' = 1 /\ Made' = 1
      <4>1. client'[c].stage = "count" /\ client'[c].on = day' /\ client'[c].order # NoOrder
        BY <1>1, <3>1, GateAssumption DEF MovesTo
      <4> QED BY <4>1 DEF Pending, Made, Uncounting
    <3>4. \A d \in Days : Slack'[d] = Slack[d]
      BY <1>1, <3>1 DEF Slack
    <3>5. Slack'[day] = Slack[day]
      BY <1>1, <3>1 DEF Slack
    <3>6. \A d \in Days : placed'[d] <= Cap + Slack'[d]
      BY <1>4, <1>5, <1>6, <1>10, <3>1, <3>4
    <3>7. \A d \in Days : d > day =>
             placed'[d] = 0 /\ uncounted'[d] = 0 /\ unmade'[d] = 0 /\ blind'[d] = 0
      BY <1>1, <1>7, <1>8, <1>10, <3>1
    <3>8. /\ placed'[day] <= Recorded + Slack[day] + 1
          /\ Recorded + 1 <= placed'[day] + unmade'[day] + 1
      BY <1>6, <1>7, <1>10, <3>1
    <3>9. counter.date <= day /\ day <= day
      BY <1>7 DEF CountInv
    <3> QED BY <1>1, <1>3, <3>1, <3>2, <3>3, <3>5, <3>6, <3>7, <3>8, <3>9 DEF CountInv, MovesTo
  <2>2. CASE PlaceUnanswered(c)
    <3>1. /\ Exits(c) /\ uncounted' = Add(uncounted, day) /\ UNCHANGED unmade /\ Submit(c)
      BY <2>2, Exiting DEF PlaceUnanswered, Submit
    <3>2. \A k \in Clients : client'[k].stage \notin {"place", "count"}
      BY <1>2, <3>1 DEF Exits, Becomes
    <3>3. Pending' = 0 /\ Made' = 0
      BY <3>2 DEF Pending, Made, Uncounting
    <3>4. Slack'[day] = Slack[day] + 1 /\ \A d \in Days \ {day} : Slack'[d] = Slack[d]
      BY <1>1, <1>7, <3>1, SlackOfLoss DEF Slack
    <3>6. \A d \in Days : placed'[d] <= Cap + Slack'[d]
      BY <1>4, <1>5, <1>6, <1>10, <3>1, <3>4
    <3>7. \A d \in Days : d > day =>
             placed'[d] = 0 /\ uncounted'[d] = 0 /\ unmade'[d] = 0 /\ blind'[d] = 0
      BY <1>1, <1>7, <1>8, <1>10, <3>1 DEF Add, TypeOK
    <3>8. /\ placed'[day] <= Recorded + Slack'[day] + 0
          /\ Recorded + 0 <= placed'[day] + unmade'[day] + 1
      BY <1>6, <1>7, <1>10, <3>1, <3>4
    <3>9. counter.date <= day
      BY DEF CountInv
    <3> QED BY <1>1, <1>3, <3>2, <3>3, <3>6, <3>7, <3>8, <3>9 DEF CountInv
  <2>3. CASE PlaceUnmade(c)
    <3>1. /\ Becomes(c, client'[c]) /\ client'[c].stage = "count" /\ client'[c].on = day
          /\ client'[c].order = NoOrder
          /\ UNCHANGED <<placed, uncounted>> /\ unmade' = Add(unmade, day)
      BY <2>3, PlacingUnmade DEF PlaceUnmade
    <3>2. \A k \in Clients : client'[k].stage \in {"place", "count"} => k = c
      BY <1>2, <3>1 DEF Becomes
    <3>3. Pending' = 1 /\ Made' = 0
      BY <1>1, <3>1, <3>2 DEF Pending, Made, Uncounting
    <3>4. (\A d \in Days : Slack'[d] = Slack[d]) /\ Slack'[day] = Slack[day]
      BY <1>1, <3>1 DEF Slack
    <3>5. unmade'[day] = unmade[day] + 1 /\ \A d \in Days \ {day} : unmade'[d] = unmade[d]
      BY <3>1, <1>7 DEF Add, TypeOK
    <3>6. \A d \in Days : placed'[d] <= Cap + Slack'[d]
      BY <1>6, <3>1, <3>4
    <3>7. \A d \in Days : d > day =>
             placed'[d] = 0 /\ uncounted'[d] = 0 /\ unmade'[d] = 0 /\ blind'[d] = 0
      BY <1>1, <1>7, <1>8, <3>1, <3>5
    <3>8. /\ placed'[day] <= Recorded + Slack[day] + 0
          /\ Recorded + 1 <= placed'[day] + unmade'[day] + 1
      BY <1>6, <1>7, <3>1, <3>5
    <3>9. counter.date <= day /\ day <= day
      BY <1>7 DEF CountInv
    <3> QED BY <1>1, <1>3, <3>1, <3>2, <3>3, <3>4, <3>6, <3>7, <3>8, <3>9 DEF CountInv
  <2> QED BY <2>1, <2>2, <2>3 DEF Submit
<1> QED BY <1>4, <1>5, <1>9, <1>11 DEF max

\* Counting an answer, or losing its count, keeps CountInv.
LEMMA CountStep ==
    ASSUME TypeOK, AdmissionIsExclusive, CountInv, NEW c \in Clients,
           Count(c) \/ AbortBeforeCount(c)
    PROVE  CountInv'
<1>1. /\ client[c].stage = "count" /\ Exits(c)
      /\ UNCHANGED <<day, placed, unmade>>
      /\ counter.date <= client[c].on /\ client[c].on <= day
  BY Exiting DEF Count, AbortBeforeCount, CountInv
<1>2. \A k \in Clients \ {c} : client[k].stage \notin {"decide", "place", "count"}
  BY <1>1, Alone
<1>3. /\ Pending = IF client[c].on = day THEN 1 ELSE 0
      /\ Made = IF client[c].on = day /\ client[c].order # NoOrder THEN 1 ELSE 0
  BY <1>1, <1>2 DEF Pending, Made, Uncounting
<1>4. \A k \in Clients : client'[k].stage \notin {"place", "count"}
  BY <1>1, <1>2 DEF Exits, Becomes
<1>5. Pending' = 0 /\ Made' = 0
  BY <1>4 DEF Pending, Made, Uncounting
<1>6. client[c].on # day => Recorded = 0
  BY <1>1, Numbers DEF Recorded
<1>7. /\ \A d \in Days : /\ Slack[d] \in Nat /\ placed[d] \in Nat /\ unmade[d] \in Nat
                         /\ placed[d] <= Cap + Slack[d]
      /\ Recorded \in Nat /\ Cap \in Nat /\ day \in Days /\ day \in Nat
      /\ client[c].on \in Days /\ Days \subseteq Nat
  BY Numbers, SlackNat DEF CountInv
<1>8. /\ placed[day] <= Recorded + Slack[day] + Made
      /\ Recorded + Pending <= placed[day] + unmade[day] + 1
  BY DEF CountInv
<1>9. \A d \in Days : d > day =>
         placed[d] = 0 /\ uncounted[d] = 0 /\ unmade[d] = 0 /\ blind[d] = 0
  BY DEF CountInv
<1>10. CASE Count(c)
  <2>1. UNCHANGED uncounted
    BY <1>10 DEF Count
  <2>2. PICK n \in {Recorded, 0} :
           ReadDailyCount(n) /\ counter' = [date |-> day, count |-> n + 1]
    BY <1>10 DEF Count
  <2>3. Recorded' = n + 1 /\ counter'.date = day /\ n \in Nat
    BY <1>1, <1>7, <2>2 DEF Recorded
  <2>4. /\ placed[day] <= Recorded' + Slack'[day]
        /\ Slack'[day] \in Nat /\ Slack[day] <= Slack'[day]
        /\ \A d \in Days \ {day} : Slack'[d] = Slack[d]
        /\ \A d \in Days : d > day => blind'[d] = blind[d]
    <3>1. CASE n = Recorded /\ UNCHANGED blind
      <4>1. Slack'[day] = Slack[day] /\ \A d \in Days : Slack'[d] = Slack[d]
        BY <1>1, <2>1, <3>1 DEF Slack
      <4>2. Made <= 1
        BY <1>3
      <4> QED BY <1>3, <1>7, <1>8, <2>3, <3>1, <4>1, <4>2
    <3>2. CASE n = 0 /\ blind' = Add(blind, day)
      <4>1. Slack'[day] = Slack[day] + Cap /\ \A d \in Days \ {day} : Slack'[d] = Slack[d]
        BY <1>1, <2>1, <3>2, SlackOfBlindness
      <4>2. \A d \in Days : d > day => blind'[d] = blind[d]
        BY <3>2, <1>7 DEF Add, TypeOK
      <4>3. placed[day] <= Cap + Slack[day] /\ Slack[day] \in Nat /\ placed[day] \in Nat
        BY <1>7
      <4>4. Slack'[day] \in Nat /\ Slack[day] <= Slack'[day] /\ placed[day] <= 1 + Slack'[day]
        BY <1>7, <4>1, <4>3
      <4>5. Recorded' = 1
        BY <2>3, <3>2
      <4> QED BY <4>1, <4>2, <4>4, <4>5
    <3> QED BY <2>2, <3>1, <3>2 DEF ReadDailyCount
  <2>5. Recorded' <= placed[day] + unmade[day] + 1
    <3>1. CASE client[c].on = day
      BY <1>3, <1>7, <1>8, <2>2, <2>3, <3>1
    <3>2. CASE client[c].on # day
      BY <1>6, <1>7, <2>2, <2>3, <3>2
    <3> QED BY <3>1, <3>2
  <2>6. \A d \in Days : placed[d] <= Cap + Slack'[d]
    BY <1>7, <2>4
  <2>7. \A d \in Days : d > day =>
           placed'[d] = 0 /\ uncounted'[d] = 0 /\ unmade'[d] = 0 /\ blind'[d] = 0
    BY <1>1, <1>9, <2>1, <2>4
  <2>8. /\ placed'[day'] <= Recorded' + Slack'[day] + 0
        /\ Recorded' + 0 <= placed'[day'] + unmade'[day'] + 1
        /\ counter'.date <= day'
    BY <1>1, <1>7, <2>3, <2>4, <2>5
  <2> QED BY <1>1, <1>4, <1>5, <2>6, <2>7, <2>8 DEF CountInv
<1>11. CASE AbortBeforeCount(c)
  <2>1. /\ UNCHANGED <<counter, blind>>
        /\ IF client[c].order = NoOrder THEN UNCHANGED uncounted
           ELSE uncounted' = Add(uncounted, client[c].on)
    BY <1>11 DEF AbortBeforeCount
  <2>2. Recorded' = Recorded
    BY <1>1, <2>1 DEF Recorded
  <2>3. /\ \A d \in Days : Slack[d] <= Slack'[d] /\ Slack'[d] \in Nat
        /\ Slack[day] + Made <= Slack'[day]
        /\ \A d \in Days : d > day => uncounted'[d] = uncounted[d]
    <3>1. CASE client[c].order = NoOrder
      <4>1. Slack'[day] = Slack[day] /\ \A d \in Days : Slack'[d] = Slack[d]
        BY <1>1, <2>1, <3>1 DEF Slack
      <4>2. Made = 0
        BY <1>3, <3>1
      <4>3. \A d \in Days : Slack[d] \in Nat
        BY <1>7
      <4>4. \A d \in Days : Slack[d] <= Slack'[d] /\ Slack'[d] \in Nat
        BY <4>1, <4>3
      <4> QED BY <1>7, <2>1, <3>1, <4>1, <4>2, <4>3, <4>4
    <3>2. CASE client[c].order # NoOrder
      <4>1. \A d \in Days : Slack'[d] = IF d = client[c].on THEN Slack[d] + 1 ELSE Slack[d]
        <5>1. /\ uncounted' = Add(uncounted, client[c].on)
          BY <2>1, <3>2
        <5>2. \A e \in Days : e = client[c].on =>
                 uncounted'[e] + Cap * blind'[e] = uncounted[e] + Cap * blind[e] + 1
          <6> SUFFICES ASSUME NEW e \in Days, e = client[c].on
                       PROVE  uncounted'[e] + Cap * blind'[e] = uncounted[e] + Cap * blind[e] + 1
            OBVIOUS
          <6>1. uncounted'[e] = uncounted[e] + 1 /\ uncounted[e] \in Nat
            BY <5>1, <1>7, Numbers DEF Add, TypeOK
          <6>2. Cap * blind[e] \in Nat /\ blind'[e] = blind[e]
            BY <2>1, Numbers, Product
          <6> QED BY <6>1, <6>2
        <5>3. \A e \in Days \ {client[c].on} : uncounted'[e] = uncounted[e]
          BY <5>1 DEF Add, TypeOK
        <5> QED BY <1>7, <2>1, <5>2, <5>3 DEF Slack
      <4>2. \A d \in Days : d > day => uncounted'[d] = uncounted[d]
        BY <1>1, <1>7, <2>1, <3>2 DEF Add, TypeOK
      <4>3. Slack'[day] = IF client[c].on = day THEN Slack[day] + 1 ELSE Slack[day]
        BY <1>1, <1>7, <4>1
      <4>4. \A d \in Days : Slack[d] \in Nat
        BY <1>7
      <4>5. \A d \in Days : Slack[d] <= Slack'[d] /\ Slack'[d] \in Nat
        BY <4>1, <4>4
      <4>6. Slack[day] + Made <= Slack'[day]
        BY <1>3, <1>7, <4>3, <4>4
      <4> QED BY <4>2, <4>5, <4>6
    <3> QED BY <3>1, <3>2
  <2>4. /\ placed'[day'] <= Recorded' + Slack'[day] + 0
        /\ Recorded' + 0 <= placed'[day'] + unmade'[day'] + 1
    BY <1>1, <1>3, <1>7, <1>8, <2>2, <2>3
  <2>5. \A d \in Days : placed'[d] <= Cap + Slack'[d]
    BY <1>1, <1>7, <2>3
  <2>6. \A d \in Days : d > day =>
           placed'[d] = 0 /\ uncounted'[d] = 0 /\ unmade'[d] = 0 /\ blind'[d] = 0
    BY <1>1, <1>9, <2>1, <2>3
  <2>7. counter'.date <= day'
    BY <1>1, <2>1 DEF CountInv
  <2> QED BY <1>1, <1>4, <1>5, <2>4, <2>5, <2>6, <2>7 DEF CountInv
<1> QED BY <1>10, <1>11

\* A counter that no longer parses keeps CountInv: today's slack grows by a whole limit.
LEMMA SpoilStep ==
    ASSUME TypeOK, Loaded, CountInv, SpoilCounter
    PROVE  CountInv'
<1>1. /\ counter' = [date |-> day, count |-> 0] /\ blind' = Add(blind, day)
      /\ UNCHANGED <<day, client, placed, uncounted, unmade>>
      /\ counter.date = day
  BY DEF SpoilCounter, Recorded
<1>2. Slack'[day] = Slack[day] + Cap /\ \A d \in Days \ {day} : Slack'[d] = Slack[d]
  BY <1>1, SlackOfBlindness
<1>3. /\ \A d \in Days : /\ Slack[d] \in Nat /\ placed[d] \in Nat /\ unmade[d] \in Nat
                         /\ placed[d] <= Cap + Slack[d]
      /\ Cap \in Nat /\ day \in Days /\ day \in Nat
  BY Numbers, SlackNat DEF CountInv
<1>4. Recorded' = 0 /\ Pending' = Pending /\ Made' = Made /\ Pending \in {0, 1} /\ Made \in {0, 1}
  BY <1>1, Numbers DEF Recorded, Pending, Made, Uncounting
<1>5. \A c \in Clients : client[c].stage = "place" => Room(c)'
  <2> SUFFICES ASSUME NEW c \in Clients, client[c].stage = "place",
                      Room(c)
               PROVE  Room(c)'
    BY DEF CountInv
  <2> DEFINE max == client[c].mandate.maxTrades
  <2>1. max' = max
    BY <1>1
  <2>2. 1 <= max /\ placed[day] + 1 <= max + Slack[day]
    BY DEF Room
  <2>4. max \in Nat
    BY GateAssumption DEF Loaded, Terms
  <2> HIDE DEF max
  <2>5. 1 <= max /\ placed[day] + 1 <= max + Slack'[day]
    BY <1>2, <1>3, <2>2, <2>4
  <2> QED BY <1>1, <2>1, <2>5 DEF Room, max
<1>6. \A d \in Days : placed[d] <= Cap + Slack'[d]
  BY <1>2, <1>3
<1>7. \A d \in Days : d > day =>
         placed'[d] = 0 /\ uncounted'[d] = 0 /\ unmade'[d] = 0 /\ blind'[d] = 0
  BY <1>1, <1>3 DEF CountInv, Add, TypeOK
<1>8. /\ placed'[day'] <= Recorded' + Slack'[day] + Made'
      /\ Recorded' + Pending' <= placed'[day'] + unmade'[day'] + 1
  BY <1>1, <1>2, <1>3, <1>4
<1>9. /\ counter'.date <= day'
      /\ \A c \in Clients : client[c].stage = "count" =>
            counter'.date <= client[c].on /\ client[c].on <= day'
  BY <1>1, <1>3 DEF CountInv
<1> QED BY <1>1, <1>5, <1>6, <1>7, <1>8, <1>9 DEF CountInv

\* Midnight keeps CountInv: yesterday's counter reads as zero.
LEMMA MidnightStep ==
    ASSUME TypeOK, Loaded, CountInv, Midnight
    PROVE  CountInv'
<1>1. /\ day' = day + 1 /\ day' \in Days
      /\ UNCHANGED <<counter, client, placed, uncounted, unmade, blind>>
  BY GateAssumption DEF Midnight, files, history, faults, TypeOK, Days
<1>2. Recorded' = 0
  BY <1>1, Numbers DEF CountInv, Recorded
<1>3. Pending' = 0 /\ Made' = 0
  BY <1>1, Numbers DEF CountInv, Pending, Made, Uncounting
<1>4. placed[day'] = 0 /\ unmade[day'] = 0
  BY <1>1, Numbers DEF CountInv
<1>5. Slack' = Slack /\ Slack[day'] \in Nat
  BY <1>1, SlackNat DEF Slack
<1>6. \A c \in Clients : client[c].stage = "place" => Room(c)'
  <2> SUFFICES ASSUME NEW c \in Clients, client[c].stage = "place"
               PROVE  Room(c)'
    OBVIOUS
  <2> DEFINE max == client[c].mandate.maxTrades
  <2>1. max \in Nat /\ max' = max
    BY <1>1, GateAssumption DEF Loaded, Terms
  <2>2. 1 <= max
    BY DEF CountInv, Room
  <2> HIDE DEF max
  <2>3. placed[day'] + 1 <= max + Slack'[day']
    BY <1>4, <1>5, <2>1, <2>2
  <2> QED BY <1>1, <2>1, <2>2, <2>3 DEF Room, max
<1>7. counter.date <= day' /\ \A c \in Clients : client[c].stage = "count" =>
         counter.date <= client[c].on /\ client[c].on <= day'
  <2>1. \A d \in Days : d <= day => d <= day'
    BY <1>1, Numbers
  <2>2. counter.date \in Days /\ \A c \in Clients : client[c].on \in Days
    BY Numbers DEF TypeOK
  <2> QED BY <2>1, <2>2 DEF CountInv
<1>8. \A d \in Days : d > day' =>
         placed[d] = 0 /\ uncounted[d] = 0 /\ unmade[d] = 0 /\ blind[d] = 0
  BY <1>1, Numbers DEF CountInv
<1>9. /\ placed'[day'] <= Recorded' + Slack'[day'] + Made'
      /\ Recorded' + Pending' <= placed'[day'] + unmade'[day'] + 1
  BY <1>1, <1>2, <1>3, <1>4, <1>5
<1> QED BY <1>1, <1>5, <1>6, <1>7, <1>8, <1>9 DEF CountInv

\* Every step keeps CountInv.
LEMMA Counting ==
    ASSUME TypeOK, Loaded, AdmissionIsExclusive, CountInv, [Next]_vars
    PROVE  CountInv'
<1>0. client \in Callers
  BY DEF TypeOK, Callers
<1>1. ASSUME NEW c \in Clients, NEW path \in Paths, NEW o \in Orders, Begin(c, path, o)
      PROVE  CountInv'
  <2>1. client'[c].stage = FirstStage(path) /\ Becomes(c, client'[c]) /\ client[c].stage = "idle"
    BY <1>0, <1>1, Entering DEF Begin
  <2>2. Quiet(c)
    BY <1>1, <2>1 DEF Begin, FirstStage, Quiet, files, history
  <2> QED BY <2>2, QuietStep
<1>2. ASSUME NEW c \in Clients, Check(c) PROVE CountInv'
  <2>1. CASE Decide(c)
    BY <2>1, DecideStep
  <2>2. CASE ~ Decide(c)
    <3>1. Quiet(c)
      BY <1>2, <2>2, Checking DEF Hop, MovesTo, Quiet, faults
    <3> QED BY <3>1, QuietStep
  <2> QED BY <2>1, <2>2
<1>3. ASSUME NEW c \in Clients, Deny(c) \/ PlaceRefused(c) PROVE CountInv'
  <2>1. Exits(c)
    BY <1>3, Exiting
  <2>2. Quiet(c)
    BY <1>3, <2>1 DEF Deny, PlaceRefused, Exits, Becomes, Quiet, history
  <2> QED BY <2>2, QuietStep
<1>4. UNCHANGED <<day, counter, client, placed, faults>> => CountInv'
  BY DEF CountInv, Room, Slack, Recorded, Pending, Made, Uncounting, faults
<1>5. CASE World
  <2>1. CASE Midnight
    BY <2>1, MidnightStep
  <2>2. CASE SpoilCounter
    BY <2>2, SpoilStep
  <2>3. CASE ~ Midnight /\ ~ SpoilCounter
    <3>1. UNCHANGED <<day, counter, client, placed, faults>>
      BY <1>5, <2>3 DEF World, CancelResting, Fill, ClosePosition, TripHalt, ClearHalt,
         CommitMandate, files, history
    <3> QED BY <1>4, <3>1
  <2> QED BY <2>1, <2>2, <2>3
<1>6. CASE UNCHANGED vars
  BY <1>4, <1>6 DEF vars, files, history
<1> QED BY <1>1, <1>2, <1>3, <1>5, <1>6, PlaceStep, CountStep DEF Next, Work

\* CountInv holds before anything was submitted.
LEMMA CountInit == Init => CountInv
  <1> SUFFICES ASSUME Init PROVE CountInv
    OBVIOUS
  <1>1. 0 \in Days /\ Days \subseteq Nat /\ Cap \in Nat /\ Cap * 0 = 0
    BY GateAssumption DEF Days
  <1>2. Pending = 0 /\ Made = 0 /\ Recorded = 0
    BY DEF Init, Idle, Pending, Made, Uncounting, Recorded
  <1>3. \A d \in Days : Slack[d] = 0
    BY <1>1 DEF Init, Slack
  <1> QED BY <1>1, <1>2, <1>3 DEF Init, Idle, CountInv

\* The inductive invariant of the gate, in named parts.
GateInv == TypeOK /\ Loaded /\ AdmissionIsExclusive /\ CountInv

\* The inductive invariant of the gate: the types, the lock, and the accounting that
\* ties the counter file, with its lost counts and its reads that fail open, to what the
\* broker took today.
THEOREM Invariant == Spec => []GateInv
<1>1. Init => CountInv
  BY CountInit
<1> QED BY <1>1, Counting, Exclusive, TypeCorrect, PTL DEF Spec, GateInv

\* Each order the broker takes is within the daily limit of the mandate that admitted it,
\* but for the orders of the day whose count was lost, and but for a whole limit for each
\* time the counter failed open.
THEOREM DailyCapHolds == Spec => DailyCap
<1>1. GateInv /\ [Next]_vars =>
         [\A c \in Clients : Submit(c) =>
             placed'[day] <= client[c].mandate.maxTrades + uncounted'[day] + Cap * blind[day]]_vars
  <2> SUFFICES ASSUME GateInv, NEW c \in Clients, Submit(c)
               PROVE  placed'[day] <= client[c].mandate.maxTrades + uncounted'[day]
                                          + Cap * blind[day]
    OBVIOUS
  <2>1. /\ placed[day] + 1 <= client[c].mandate.maxTrades + Slack[day]
        /\ client[c].mandate.maxTrades \in Nat
        /\ placed' = [placed EXCEPT ![day] = @ + 1]
    BY PlaceStep DEF GateInv
  <2>2. uncounted'[day] \in Nat /\ uncounted[day] \in Nat /\ uncounted[day] <= uncounted'[day]
    BY Numbers DEF GateInv, TypeOK, Submit, PlaceOk, PlaceUnanswered, Add, faults
  <2>3. Cap * blind[day] \in Nat
    BY Numbers, Product DEF GateInv
  <2>4. placed'[day] = placed[day] + 1 /\ placed[day] \in Nat
    BY <2>1, Numbers DEF GateInv, TypeOK
  <2>5. Slack[day] = uncounted[day] + Cap * blind[day]
    BY Numbers DEF GateInv, Slack
  <2> QED BY <2>1, <2>2, <2>3, <2>4, <2>5
<1> QED BY <1>1, Invariant, PTL DEF Spec, DailyCap

\* Whatever the broker answers and whenever midnight comes, the count of today is ahead of
\* the broker's answers of today by at most one.
THEOREM CarriedHolds == Spec => []AtMostOneCarried
<1>1. GateInv => AtMostOneCarried
  BY Numbers DEF GateInv, CountInv, AtMostOneCarried
<1> QED BY <1>1, Invariant, PTL

\* The gate, with its files, lock and faults, implements the daily order budget: each read
\* or file that fails open is a step of the budget's GoBlind.
THEOREM Refinement == Spec => ImplementsBudget
<1>1. Init => Budget!Init
  BY DEF Init, Budget!Init, Days, Budget!Days
<1>2. GateInv /\ [Next]_vars => [Budget!Next]_<<day, placed, uncounted, blind>>
  <2> SUFFICES ASSUME GateInv, [Next]_vars
               PROVE  Budget!Next \/ UNCHANGED <<day, placed, uncounted, blind>>
    OBVIOUS
  <2>1. ASSUME NEW c \in Clients, Submit(c) PROVE Budget!Place
    <3>1. /\ placed[day] + 1 <= client[c].mandate.maxTrades + Slack[day]
          /\ client[c].mandate.maxTrades \in Nat /\ client[c].mandate.maxTrades <= Cap
          /\ placed' = [placed EXCEPT ![day] = @ + 1]
      BY <2>1, PlaceStep DEF GateInv
    <3>2. placed[day] < Cap + Slack[day]
      BY <3>1, Numbers, SlackNat DEF GateInv
    <3>3. Slack[day] = uncounted[day] + Cap * blind[day]
          /\ uncounted[day] \in Nat /\ Cap * blind[day] \in Nat /\ Cap \in Nat
      BY Numbers, Product DEF GateInv, Slack
    <3>4. placed[day] < Cap + uncounted[day] + Cap * blind[day]
      BY <3>2, <3>3, Numbers DEF GateInv
    <3>5. /\ day' = day /\ blind' = blind
          /\ uncounted' \in {uncounted, [uncounted EXCEPT ![day] = @ + 1]}
      BY <2>1 DEF Submit, PlaceOk, PlaceUnanswered, Add, faults
    <3> QED BY <3>1, <3>4, <3>5 DEF Budget!Place, Budget!Add
  <2>2. ASSUME NEW c \in Clients, AbortBeforeCount(c)
        PROVE  Budget!LoseCount \/ UNCHANGED <<day, placed, uncounted, blind>>
    <3>1. client[c].on \in 0 .. day
      BY <2>2, Numbers DEF AbortBeforeCount, GateInv, CountInv
    <3> QED BY <2>2, <3>1 DEF AbortBeforeCount, Add, Budget!LoseCount, Budget!Add
  <2>3. \A n : ReadDailyCount(n) =>
           UNCHANGED blind \/ blind' = [blind EXCEPT ![day] = @ + 1]
    BY DEF ReadDailyCount, Add
  <2>4. ASSUME NEW c \in Clients, Check(c)
        PROVE  Budget!GoBlind \/ UNCHANGED <<day, placed, uncounted, blind>>
    BY <2>3, <2>4, Checking DEF GateInv, Decide, Budget!GoBlind, Budget!Add
  <2>5. ASSUME NEW c \in Clients, Count(c)
        PROVE  Budget!GoBlind \/ UNCHANGED <<day, placed, uncounted, blind>>
    BY <2>3, <2>5 DEF Count, Budget!GoBlind, Budget!Add
  <2>6. CASE World
    BY <2>6 DEF World, CancelResting, Fill, ClosePosition, TripHalt, ClearHalt, SpoilCounter,
       CommitMandate, Midnight, history, faults, Add, Budget!Midnight, Budget!GoBlind,
       Budget!Add, Budget!Next
  <2>7. CASE UNCHANGED vars
    BY <2>7 DEF vars, history, faults
  <2>8. \A c \in Clients : Deny(c) \/ PlaceRefused(c) \/ PlaceUnmade(c)
           \/ (\E path \in Paths, o \in Orders : Begin(c, path, o))
           => UNCHANGED <<day, placed, uncounted, blind>>
    BY DEF Deny, PlaceRefused, PlaceUnmade, Begin, history, faults
  <2> QED BY <2>1, <2>2, <2>4, <2>5, <2>6, <2>7, <2>8 DEF Next, Work, Budget!Next
<1> QED BY <1>1, <1>2, Invariant, PTL DEF Spec, Budget!Spec, Budget!vars, ImplementsBudget
-----------------------------------------------------------------------------
(* The exposure cap of the action path, where the positions are read under *)
(* the lock, with orders that fill at once and no cancels or closes.       *)

\* What the cap is for: nobody else changes the book between a read under the lock and the
\* order that relies on it, callers of the order path included.
Locked == "resting" \notin Effects /\ Reducers = FALSE

\* Whoever has read the positions under the lock has read the book, and whoever is admitted
\* keeps it below the cap.
Sighted(c) == client[c].path = "action" =>
    /\ client[c].stage = "decide" => client[c].seen \in {book, Unreadable}
    /\ client[c].stage = "place" =>
          GrossExposure(AfterFill(book, client[c].order)) <= client[c].mandate.maxExposure

CapInv ==
    /\ \A o \in Orders : resting[o] = 0
    /\ \A c \in Clients : Sighted(c)

\* A step of caller c that leaves the book alone cannot mislead the others.
LEMMA OthersSighted ==
    ASSUME CapInv, NEW c \in Clients, UNCHANGED <<book, resting>>,
           \A k \in Clients \ {c} : client'[k] = client[k], Sighted(c)'
    PROVE  CapInv'
  BY DEF CapInv, Sighted

\* A check under the lock reads the book as it is, and admits only what fits the cap.
LEMMA CapCheck ==
    ASSUME TypeOK, CapInv, NEW c \in Clients, Check(c)
    PROVE  CapInv'
<1>1. MovesTo(c, client'[c].stage) /\ UNCHANGED <<book, resting>>
  BY Checking
<1>2. /\ client'[c].path = client[c].path /\ client'[c].order = client[c].order
      /\ client'[c].mandate = client[c].mandate
      /\ \A k \in Clients \ {c} : client'[k] = client[k]
  BY <1>1 DEF MovesTo, Becomes
<1>3. client \in [Clients -> Submissions]
  BY DEF TypeOK
<1>4. ASSUME client[c].path = "action" PROVE Sighted(c)'
  <2>1. CASE ReadPositions(c)
    <3>1. PICK seen \in {book, Unreadable} : client' = [Advance(c) EXCEPT ![c].seen = seen]
      BY <2>1 DEF ReadPositions
    <3>2. client[c].stage = "read"
      BY <2>1 DEF ReadPositions
    <3>3. Advance(c) = [client EXCEPT ![c].stage = "decide"]
      BY <1>4, <3>2 DEF Advance, NextStage, ActionPath
    <3>4. client'[c].stage = "decide" /\ client'[c].seen \in {book, Unreadable}
      BY <1>3, <3>1, <3>3 DEF Submissions
    <3> QED BY <1>1, <1>2, <3>4 DEF Sighted
  <2>2. CASE Decide(c)
    <3>1. client[c].seen = book
      BY <1>4, <2>2 DEF Decide, InMandate, CapInv, Sighted
    <3>2. client'[c].stage = "place"
      BY <1>3, <2>2 DEF Decide, Submissions
    <3>3. GrossExposure(AfterFill(book, client[c].order)) <= client[c].mandate.maxExposure
      BY <2>2, <3>1 DEF Decide, InMandate
    <3>4. GrossExposure(AfterFill(book, client[c].order))'
              = GrossExposure(AfterFill(book, client[c].order))
      BY <1>1, <1>2
    <3> QED BY <1>2, <3>2, <3>3, <3>4 DEF Sighted
  <2>3. CASE CheckGlobal(c) \/ CheckScoped(c) \/ TryLock(c)
    <3>1. client'[c].stage \in {"scoped", "read", "global"}
      BY <1>4, <2>3, Checking DEF CheckGlobal, CheckScoped, TryLock, Hop
    <3> QED BY <1>2, <3>1 DEF Sighted
  <2> QED BY <2>1, <2>2, <2>3 DEF Check
<1>5. client[c].path # "action" => Sighted(c)'
  BY <1>2 DEF Sighted
<1> QED BY <1>1, <1>2, <1>4, <1>5, OthersSighted

\* The broker takes an order of the one caller that holds the lock, so that nobody else
\* relies on the book it changes.
LEMMA CapSubmit ==
    ASSUME Locked, TypeOK, AdmissionIsExclusive, CapInv, NEW c \in Clients, Submit(c)
    PROVE  /\ client[c].path = "action" =>
                 GrossExposure(book') <= client[c].mandate.maxExposure
           /\ CapInv'
<1>1. /\ book' = AfterFill(book, client[c].order) /\ UNCHANGED resting
      /\ client[c].stage = "place"
  BY DEF Locked, Submit, PlaceOk, PlaceUnanswered, Execute
<1>2. client[c].path = "action" => GrossExposure(book') <= client[c].mandate.maxExposure
  BY <1>1 DEF CapInv, Sighted
<1>3. /\ client'[c].stage \in {"idle", "count"}
      /\ \A k \in Clients \ {c} : client'[k] = client[k]
  <2>1. PlaceOk(c) => MovesTo(c, "count")
    BY Placing
  <2>2. PlaceUnanswered(c) => Exits(c)
    BY Exiting
  <2> QED BY <2>1, <2>2 DEF Submit, MovesTo, Exits, Becomes
<1>4. \A k \in Clients \ {c} : client[k].stage \notin {"decide", "place"}
  BY <1>1 DEF AdmissionIsExclusive, Critical
<1>5. ASSUME NEW k \in Clients PROVE Sighted(k)'
  BY <1>3, <1>4 DEF Sighted
<1> QED BY <1>1, <1>2, <1>5 DEF CapInv

\* No step of a caller, the user, the broker or the clock lets a caller rely on another book.
LEMMA CapStep ==
    ASSUME Locked, TypeOK, AdmissionIsExclusive, CapInv, [Next]_vars
    PROVE  CapInv'
<1>0. client \in Callers
  BY DEF TypeOK, Callers
<1>1. ASSUME NEW c \in Clients, NEW path \in Paths, NEW o \in Orders, Begin(c, path, o)
      PROVE  CapInv'
  <2>1. /\ client'[c].stage \in {"lock", "global"}
        /\ \A k \in Clients \ {c} : client'[k] = client[k]
    BY <1>0, <1>1, Entering DEF FirstStage, Becomes
  <2>2. Sighted(c)' /\ UNCHANGED <<book, resting>>
    BY <1>1, <2>1 DEF Sighted, Begin, broker
  <2> QED BY <2>1, <2>2, OthersSighted
<1>2. ASSUME NEW c \in Clients, Check(c) PROVE CapInv'
  BY <1>2, CapCheck
<1>3. ASSUME NEW c \in Clients, Submit(c) PROVE CapInv'
  BY <1>3, CapSubmit
<1>4. ASSUME NEW c \in Clients, Deny(c) \/ PlaceRefused(c) \/ Count(c) \/ AbortBeforeCount(c)
      PROVE  CapInv'
  <2>1. /\ client'[c].stage = "idle" /\ UNCHANGED <<book, resting>>
        /\ \A k \in Clients \ {c} : client'[k] = client[k]
    BY <1>4, Exiting DEF Exits, Becomes, Deny, PlaceRefused, Count, AbortBeforeCount, broker
  <2>2. Sighted(c)'
    BY <2>1 DEF Sighted
  <2> QED BY <2>1, <2>2, OthersSighted
<1>8. ASSUME NEW c \in Clients, PlaceUnmade(c) PROVE CapInv'
  <2>1. /\ client'[c].stage = "count" /\ UNCHANGED <<book, resting>>
        /\ \A k \in Clients \ {c} : client'[k] = client[k]
    BY <1>8, PlacingUnmade DEF Becomes, PlaceUnmade, broker
  <2>2. Sighted(c)'
    BY <2>1 DEF Sighted
  <2> QED BY <2>1, <2>2, OthersSighted
<1>5. UNCHANGED <<book, resting, client>> => CapInv'
  BY DEF CapInv, Sighted
<1>6. CASE World
  <2>1. \A o \in Orders : ~CancelResting(o) /\ ~Fill(o)
    BY DEF CapInv, CancelResting, Fill
  <2>2. \A s \in Symbols : ~ClosePosition(s)
    BY DEF Locked, ClosePosition
  <2> QED BY <1>5, <1>6, <2>1, <2>2 DEF World, TripHalt, ClearHalt, CommitMandate, SpoilCounter,
     Midnight, broker
<1>7. CASE UNCHANGED vars
  BY <1>5, <1>7 DEF vars, broker
<1> QED BY <1>1, <1>2, <1>3, <1>4, <1>6, <1>7, <1>8 DEF Next, Work

\* max_total_exposure_usd: where orders fill at once and nothing is cancelled or closed, no
\* interleaving of any callers of both paths lets an order of the action path, which reads
\* the positions under the lock, take the book past the cap of its mandate.
THEOREM ExposureHolds ==
    ASSUME Locked
    PROVE  Spec => ExposureCap
<1>1. Init => CapInv
  BY DEF Init, CapInv, Sighted, Idle
<1>2. TypeOK /\ AdmissionIsExclusive /\ CapInv /\ [Next]_vars => CapInv'
  BY CapStep
<1>3. TypeOK /\ AdmissionIsExclusive /\ CapInv /\ [Next]_vars =>
         [\A c \in Clients : Submit(c) /\ client[c].path = "action" =>
             GrossExposure(book') <= client[c].mandate.maxExposure]_vars
  BY CapSubmit
<1> QED BY <1>1, <1>2, <1>3, TypeCorrect, Exclusive, PTL DEF Spec, ExposureCap
=============================================================================
