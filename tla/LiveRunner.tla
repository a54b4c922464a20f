------------------------------ MODULE LiveRunner ------------------------------
(***************************************************************************)
(* The autonomous runners of one broker: the routes that start and stop    *)
(* them, their ticks (halt, expiry, reconcile, agent turn), the sweep that *)
(* cancels resting orders and closes positions under a halt, and the agent *)
(* turns they begin, whose orders pass the halt check of the gate.         *)
(*                                                                         *)
(* A tick holds the event loop of the API process from its first step to   *)
(* its last; the agents are threads, and the HALT sentinel, the mandate    *)
(* and the broker also change from other processes.                        *)
(***************************************************************************)
EXTENDS Integers

CONSTANTS
    None,          \* no runner, no recorded state
    Reads,         \* what the broker's readers answer: "rows" or the "envelope" of a call
    FlattenOnHalt, \* whether the mandates ask a halt to close the position too
    MaxRunners,    \* bound: runners built
    MaxHeld,       \* bound: the quantity held at first
    MaxOrders,     \* bound: orders placed
    MaxTrips,      \* bound: times the kill switch is tripped
    MaxTroubles    \* bound: broker calls that raise, trips that fail, process deaths

Runners == 1 .. MaxRunners
Orders == 1 .. MaxOrders

\* What runtime_state.json records: the orders seen open, those of them known to be
\* open still, and the position.
Baselines == [orders : SUBSET Orders, sure : SUBSET Orders, position : Int]

ASSUME RunnerAssumption ==
    /\ Reads \in {"rows", "envelope"} /\ FlattenOnHalt \in BOOLEAN
    /\ MaxHeld \in Nat /\ MaxRunners \in Nat /\ MaxOrders \in Nat /\ MaxTrips \in Nat /\ MaxTroubles \in Nat
    /\ None \notin Runners \cup Baselines

VARIABLES
    built,      \* how many runners have been built
    starting,   \* the runner whose task has not run yet, or None
    runner,     \* each runner: its scheduler ticks, its sweep has fired, its agent's turn
    tick,       \* the tick in progress: its runner, stage and what it has read
    halt,       \* the sentinel exists
    mandate,    \* none, live or expired
    base,       \* runtime_state.json: the orders and the position last reconciled
    sent,       \* how many orders the broker has taken
    resting,    \* the orders open at the broker
    position,   \* the quantity held
    close,      \* what the fill of a closing order adds to it; 0 for an agent's order, a buy of 1
    trips,      \* history: how often the switch was tripped
    late,       \* history: turns past the gate's halt check at the trip, and their orders
    swept,      \* history: the trips whose sweep read the orders and went through them
    cancelled,  \* history: the orders each runner has sent a cancel for
    refused,    \* history: the orders a cancel of which raised
    troubles    \* bounded by MaxTroubles

routes == <<built, starting>>
book == <<sent, resting, position, close>>
switch == <<halt, trips, late>>
sweeps == <<swept, cancelled, refused>>
vars == <<routes, runner, tick, switch, mandate, base, book, sweeps, troubles>>

NoTick == [by |-> None, stage |-> "none", trip |-> 0, todo |-> {}, sure |-> {}, qty |-> 0]
Unbuilt == [armed |-> FALSE, latch |-> FALSE, turn |-> "none"]

-----------------------------------------------------------------------------
Init ==
    /\ built = 0
    /\ starting = None
    /\ runner = [r \in Runners |-> Unbuilt]
    /\ tick = NoTick
    /\ halt = FALSE
    /\ mandate = "none"
    /\ base = None
    /\ sent = 0
    /\ resting = {}
    /\ position \in 0 .. MaxHeld
    /\ close = [o \in Orders |-> 0]
    /\ trips = 0
    /\ late = [turns |-> {}, orders |-> {}]
    /\ swept = {}
    /\ cancelled = [r \in Runners |-> {}]
    /\ refused = {}
    /\ troubles = 0

Suffer == troubles < MaxTroubles /\ troubles' = troubles + 1

LoopIsFree == tick.by = None

\* The turns past the gate's halt check.
Past == [turns |-> {r \in Runners : runner[r].turn = "placing"}, orders |-> {}]

\* The sentinel is written; one that exists is only rewritten.
Trip ==
    IF halt THEN UNCHANGED switch
    ELSE /\ trips < MaxTrips
         /\ halt' = TRUE
         /\ trips' = trips + 1
         /\ late' = Past

-----------------------------------------------------------------------------
(* The routes of the runner.                                               *)

\* POST start: a task drives a new runner, unless the last task still runs.
Start ==
    /\ LoopIsFree
    /\ starting = None
    /\ mandate = "live" /\ ~halt
    /\ built < MaxRunners
    /\ built' = built + 1
    /\ starting' = built + 1
    /\ UNCHANGED <<runner, tick, switch, mandate, base, book, sweeps, troubles>>

\* The task runs: run_loop arms the scheduler of the runner if a mandate is still in
\* force, and returns, which ends the task.
Drive ==
    /\ LoopIsFree
    /\ starting # None
    /\ starting' = None
    /\ runner' = [runner EXCEPT ![starting].armed = mandate = "live"]
    /\ IF mandate = "expired" THEN Trip ELSE UNCHANGED switch
    /\ UNCHANGED <<built, tick, mandate, base, book, sweeps, troubles>>

\* POST stop cancels the task if there is one, and leaves the scheduler alone.
Stop ==
    /\ LoopIsFree
    /\ starting' = None
    /\ UNCHANGED <<built, runner, tick, switch, mandate, base, book, sweeps, troubles>>

-----------------------------------------------------------------------------
(* The tick.                                                               *)

At(stage) == tick.stage = stage
EndTick == tick' = NoTick

\* The scheduler fires under no halt: nothing is done without a mandate.
BeginTick(r) ==
    /\ LoopIsFree
    /\ runner[r].armed /\ ~halt /\ mandate # "none"
    /\ tick' = [NoTick EXCEPT !.by = r, !.stage = IF mandate = "live" THEN "orders" ELSE "expire"]
    /\ UNCHANGED <<routes, runner, switch, mandate, base, book, sweeps, troubles>>

\* An expired mandate trips the switch; a trip that fails is only logged.
Expire ==
    /\ At("expire")
    /\ \/ Trip /\ UNCHANGED troubles
       \/ Suffer /\ UNCHANGED switch
    /\ EndTick
    /\ UNCHANGED <<routes, runner, mandate, base, book, sweeps>>

\* The open orders are read; the status of each is submitted still, or past it.
ReadOrders ==
    /\ At("orders") /\ Reads = "rows"
    /\ \E sure \in SUBSET resting :
        tick' = [tick EXCEPT !.stage = "reconcile", !.todo = resting, !.sure = sure]
    /\ UNCHANGED <<routes, runner, switch, mandate, base, book, sweeps, troubles>>

\* Fault: a position that moved is taken over as the new baseline.
MatchesOrdersOnly == base # None => base.orders \ tick.todo \subseteq base.sure

\* Nothing the broker shows is an unknown fill or an ambiguous order: no recorded
\* order that was unconfirmed is gone, and the position is the recorded one.
Matches ==
    base # None => base.orders \ tick.todo \subseteq base.sure /\ base.position = position

\* The position is read and compared. A match becomes the new baseline, and the
\* agent is sent a message, unless it is still busy with its last one.
Reconcile ==
    /\ At("reconcile")
    /\ Matches
    /\ base' = [orders |-> tick.todo, sure |-> tick.sure, position |-> position]
    /\ runner' = [runner EXCEPT ![tick.by].turn = IF @ = "none" THEN "working" ELSE @]
    /\ EndTick
    /\ UNCHANGED <<routes, switch, mandate, book, sweeps, troubles>>

Mismatch ==
    /\ At("reconcile")
    /\ ~Matches
    /\ EndTick
    /\ UNCHANGED <<routes, runner, switch, mandate, base, book, sweeps, troubles>>

\* A reader raises, or answers with an envelope instead of rows, which is not
\* what reconcile and the sweep iterate over. The tick, or the sweep, is over.
ReadRaises ==
    /\ At("orders") \/ At("reconcile") \/ At("positions") \/ (At("sweep") /\ Reads = "envelope")
    /\ IF Reads = "rows" THEN Suffer ELSE UNCHANGED troubles
    /\ EndTick
    /\ UNCHANGED <<routes, runner, switch, mandate, base, book, sweeps>>

-----------------------------------------------------------------------------
(* The sweep.                                                              *)

\* Fault: a runner sweeps under every halt it sees.
FreshAlways(r) == TRUE

\* The first tick of a runner that sees a halt sweeps; the later ones do nothing.
Fresh(r) == ~runner[r].latch

BeginSweep(r) ==
    /\ LoopIsFree
    /\ runner[r].armed /\ halt /\ Fresh(r)
    /\ runner' = [runner EXCEPT ![r].latch = TRUE]
    /\ tick' = [NoTick EXCEPT !.by = r, !.trip = trips, !.stage = "sweep"]
    /\ UNCHANGED <<routes, switch, mandate, base, book, sweeps, troubles>>

\* Fault: the sweep cancels the orders of agents only.
OfAgents == {o \in resting : close[o] = 0}

\* The orders a sweep sets out to cancel are all that rest, closes of other sweeps too.
ToCancel == resting

SweepRead ==
    /\ At("sweep") /\ Reads = "rows"
    /\ tick' = [tick EXCEPT !.stage = "cancel", !.todo = ToCancel]
    /\ UNCHANGED <<routes, runner, switch, mandate, base, book, sweeps, troubles>>

\* After the cancels, positions are closed if the mandate on file asks for it.
Flatten ==
    IF FlattenOnHalt /\ mandate # "none" THEN tick' = [tick EXCEPT !.stage = "positions"] ELSE EndTick

\* A read of the open orders that raises ends the cancels, not the sweep.
SweepReadRaises ==
    /\ At("sweep") /\ Reads = "rows"
    /\ Suffer
    /\ Flatten
    /\ UNCHANGED <<routes, runner, switch, mandate, base, book, sweeps>>

\* The orders read are gone through once.
Cancelling(o) ==
    /\ At("cancel") /\ o \in tick.todo
    /\ tick' = [tick EXCEPT !.todo = @ \ {o}]
    /\ cancelled' = [cancelled EXCEPT ![tick.by] = @ \cup {o}]
    /\ UNCHANGED <<routes, runner, switch, mandate, base, sent, position, close, swept>>

Cancel(o) ==
    /\ Cancelling(o)
    /\ resting' = resting \ {o}
    /\ UNCHANGED <<refused, troubles>>

\* The cancel raises, or its answer is an error that nothing reads: the broker has
\* taken it or not, and it is not retried.
CancelFails(o) ==
    /\ Cancelling(o)
    /\ Suffer
    /\ resting' \in {resting, resting \ {o}}
    /\ refused' = refused \cup {o}

EndCancels ==
    /\ At("cancel") /\ tick.todo = {}
    /\ Flatten
    /\ swept' = swept \cup {tick.trip}
    /\ UNCHANGED <<routes, runner, switch, mandate, base, book, cancelled, refused, troubles>>

\* A position of zero is skipped.
ReadPositions ==
    /\ At("positions") /\ Reads = "rows"
    /\ IF position = 0 THEN EndTick ELSE tick' = [tick EXCEPT !.stage = "close", !.qty = position]
    /\ UNCHANGED <<routes, runner, switch, mandate, base, book, sweeps, troubles>>

\* The quantity read is closed by one order, which passes no gate: the broker takes it
\* or not, and whatever it answers or raises is recorded and not retried.
Close ==
    /\ At("close")
    /\ \/ /\ sent < MaxOrders
          /\ sent' = sent + 1
          /\ resting' = resting \cup {sent + 1}
          /\ close' = [close EXCEPT ![sent + 1] = -tick.qty]
       \/ UNCHANGED <<sent, resting, close>>
    /\ EndTick
    /\ UNCHANGED <<routes, runner, switch, mandate, base, position, sweeps, troubles>>

-----------------------------------------------------------------------------
(* The agent's turn: a thread that places orders through the gate.         *)

Turn(r, from, to) ==
    /\ runner[r].turn = from
    /\ runner' = [runner EXCEPT ![r].turn = to]

\* Fault: the gate trusts the tick to have looked at the switch.
GateOfTick == mandate = "live"

\* What the gate asks of the switch and the mandate before it forwards an order.
Gate == mandate = "live" /\ ~halt

PassGate(r) ==
    /\ Turn(r, "working", "placing")
    /\ Gate
    /\ UNCHANGED <<routes, tick, switch, mandate, base, book, sweeps, troubles>>

\* The broker takes the order.
Place(r) ==
    /\ Turn(r, "placing", "working")
    /\ sent < MaxOrders
    /\ sent' = sent + 1
    /\ resting' = resting \cup {sent + 1}
    /\ late' = IF r \in late.turns
               THEN [turns |-> late.turns \ {r}, orders |-> late.orders \cup {sent + 1}]
               ELSE late
    /\ UNCHANGED <<routes, tick, halt, trips, mandate, base, position, close, sweeps, troubles>>

EndTurn(r) ==
    /\ Turn(r, "working", "none")
    /\ UNCHANGED <<routes, tick, switch, mandate, base, book, sweeps, troubles>>

-----------------------------------------------------------------------------
(* The broker, the user, the clock and the process.                        *)

Fill(o) ==
    /\ o \in resting
    /\ resting' = resting \ {o}
    /\ position' = position + (IF close[o] = 0 THEN 1 ELSE close[o])
    /\ UNCHANGED <<routes, runner, tick, switch, mandate, base, sent, close, sweeps, troubles>>

\* From the halt route, the command line or another process.
TripHalt ==
    /\ ~halt
    /\ Trip
    /\ UNCHANGED <<routes, runner, tick, mandate, base, book, sweeps, troubles>>

ClearHalt ==
    /\ halt
    /\ halt' = FALSE
    /\ UNCHANGED <<routes, runner, tick, trips, late, mandate, base, book, sweeps, troubles>>

Commit ==
    /\ mandate # "live"
    /\ mandate' = "live"
    /\ UNCHANGED <<routes, runner, tick, switch, base, book, sweeps, troubles>>

\* The mandate's time is over, or the user revokes it.
Lapse(to) ==
    /\ mandate = "live"
    /\ mandate' = to
    /\ UNCHANGED <<routes, runner, tick, switch, base, book, sweeps, troubles>>

\* The process dies with its runners, tasks and agents; the files and the broker stay.
Crash ==
    /\ Suffer
    /\ starting' = None
    /\ runner' = [r \in Runners |-> Unbuilt]
    /\ tick' = NoTick
    /\ UNCHANGED <<built, switch, mandate, base, book, sweeps>>

-----------------------------------------------------------------------------
Reconciling == ReadOrders \/ Reconcile \/ Mismatch \/ ReadRaises
Sweeping ==
    \/ SweepRead \/ SweepReadRaises \/ EndCancels \/ ReadPositions \/ Close
    \/ \E o \in Orders : Cancel(o) \/ CancelFails(o)
Ticking == Expire \/ Reconciling \/ Sweeping

World ==
    \/ TripHalt \/ ClearHalt \/ Commit \/ Crash
    \/ \E to \in {"none", "expired"} : Lapse(to)
    \/ \E o \in Orders : Fill(o)

Next ==
    \/ Start \/ Drive \/ Stop
    \/ \E r \in Runners : BeginTick(r) \/ BeginSweep(r) \/ PassGate(r) \/ Place(r) \/ EndTurn(r)
    \/ Ticking
    \/ World

Spec == Init /\ [][Next]_vars

-----------------------------------------------------------------------------
(* Properties.                                                             *)

\* Type invariant of the routes, the runners, the files and the broker.
TypeOK ==
    /\ built \in 0 .. MaxRunners
    /\ starting \in Runners \cup {None}
    /\ runner \in [Runners -> [armed : BOOLEAN, latch : BOOLEAN,
                               turn : {"none", "working", "placing"}]]
    /\ tick \in [by : Runners \cup {None},
                 stage : {"none", "expire", "orders", "reconcile", "sweep", "cancel", "positions", "close"},
                 trip : 0 .. MaxTrips, todo : SUBSET Orders, sure : SUBSET Orders, qty : Int]
    /\ halt \in BOOLEAN
    /\ mandate \in {"none", "live", "expired"}
    /\ base \in Baselines \cup {None}
    /\ sent \in 0 .. MaxOrders
    /\ resting \subseteq Orders
    /\ position \in Int
    /\ close \in [Orders -> Int]
    /\ trips \in 0 .. MaxTrips
    /\ late \in [turns : SUBSET Runners, orders : SUBSET Orders]
    /\ swept \subseteq 0 .. MaxTrips
    /\ cancelled \in [Runners -> SUBSET Orders]
    /\ refused \subseteq Orders
    /\ troubles \in 0 .. MaxTroubles

\* The orders that close a position.
Closes == {o \in Orders : close[o] # 0}

\* Once the cancels of a halt are through, what still rests at the broker was placed by
\* a turn past the gate's check when the switch was tripped, or its cancel failed, or
\* it closes a position.
SweepLeavesOnlyLate ==
    halt /\ trips \in swept => resting \subseteq late.orders \cup refused \cup Closes

\* Closes do not stack: though each runner has a latch of its own and no sweep looks for
\* the closes of another, agents that only buy are never left with a short position,
\* as long as no broker call fails and no process dies.
ClosesDoNotStack == troubles = 0 => position >= 0

\* A cancel is not idempotent: whatever halts, resumes and restarts come between,
\* no runner sends a second one for the same order.
NoCancelTwice ==
    [][\A r \in Runners, o \in Orders :
          tick.by = r /\ o \in tick.todo \ tick'.todo /\ At("cancel") => o \notin cancelled[r]]_vars

\* Fail closed: an agent's turn begins only while the position the tick reads is the
\* one of the first baseline, so a fill, were it of the runner's own order, ends
\* autonomous trading until the position is back or the file is repaired.
TurnsNeedKnownPosition ==
    [][/\ base # None => base' # None /\ base'.position = base.position
       /\ \A r \in Runners :
            runner[r].turn = "none" /\ runner'[r].turn = "working" =>
                base'.position = position]_vars

\* "Stopping the runner halts autonomous activity" (cli/_legacy.py:3874-3875): every
\* scheduler that ticks belongs to a task that a stop finds and cancels.
StopFindsRunner == \A r \in Runners : runner[r].armed => starting = r
=============================================================================
