--------------------------- MODULE LiveRunnerProofs ---------------------------
(***************************************************************************)
(* Theorems about LiveRunner, for any number of runners, orders, trips of  *)
(* the kill switch, and broker calls that raise.                           *)
(***************************************************************************)
EXTENDS LiveRunner, TLAPS

(* A tick in progress has a runner, and a runner not driven yet is as new. *)
Ticks ==
    /\ tick.stage = "none" <=> tick.by = None
    /\ tick.trip <= trips
    /\ starting # None => starting <= built
    /\ \A r \in Runners :
        r > built \/ r = starting =>
            ~runner[r].armed /\ ~runner[r].latch /\ runner[r].turn = "none" /\ cancelled[r] = {}
    /\ tick.by # None => tick.by <= built /\ tick.by # starting

(* A runner that has not swept has sent no cancel, and a sweep has sent none
   for the orders it has left.                                             *)
Latched ==
    /\ \A r \in Runners : runner[r].armed /\ ~runner[r].latch => cancelled[r] = {}
    /\ tick.stage \in {"sweep", "cancel"} => runner[tick.by].latch
    /\ tick.stage = "sweep" => cancelled[tick.by] = {}
    /\ tick.stage = "cancel" => tick.todo \cap cancelled[tick.by] = {}

(* Under a halt only the turns that were past the check place orders, so what
   rests is left to the sweep in progress, late or refused.                *)
Late ==
    /\ halt => \A r \in Runners : runner[r].turn = "placing" => r \in late.turns
    /\ \A t \in swept : t <= trips
    /\ halt /\ tick.stage = "cancel" /\ tick.trip = trips =>
          resting \subseteq tick.todo \cup late.orders \cup refused \cup Closes

(* As long as nothing fails at most one close rests, for no more than what is
   held, and a sweep that is past its cancels has left none.               *)
Closing ==
    /\ tick.stage = "close" => tick.qty # 0
    /\ \A o \in Orders : close[o] # 0 => o <= sent
    /\ troubles = 0 =>
        /\ position >= 0
        /\ \A o \in resting : close[o] # 0 =>
              /\ position + close[o] >= 0
              /\ \A q \in resting : close[q] # 0 => q = o
              /\ tick.stage = "cancel" => o \in tick.todo
              /\ tick.stage \notin {"positions", "close"}
        /\ tick.stage = "close" => tick.qty <= position

(* The types of a runner and of a tick, as TypeOK has them.                *)
RunnerStates == [armed : BOOLEAN, latch : BOOLEAN, turn : {"none", "working", "placing"}]
TickStates ==
    [by : Runners \cup {None},
     stage : {"none", "expire", "orders", "reconcile", "sweep", "cancel", "positions", "close"},
     trip : 0 .. MaxTrips, todo : SUBSET Orders, sure : SUBSET Orders, qty : Int]

IInv == TypeOK /\ Ticks /\ Latched /\ Late /\ SweepLeavesOnlyLate /\ Closing

-----------------------------------------------------------------------------
(* The invariant is inductive.                                             *)

\* No runner is built, none ticks and nothing rests at first.
LEMMA Initial == Init => IInv
<1> SUFFICES ASSUME Init PROVE IInv
  OBVIOUS
<1> USE RunnerAssumption DEF Init, NoTick, Unbuilt, Runners, Orders
<1>1. TypeOK
  <2>1. runner \in [Runners -> RunnerStates] /\ tick \in TickStates
    BY DEF RunnerStates, TickStates
  <2>2. late \in [turns : SUBSET Runners, orders : SUBSET Orders]
    OBVIOUS
  <2>3. cancelled \in [Runners -> SUBSET Orders]
    OBVIOUS
  <2>4. /\ built \in 0 .. MaxRunners /\ sent \in 0 .. MaxOrders /\ trips \in 0 .. MaxTrips
        /\ troubles \in 0 .. MaxTroubles /\ position \in Int /\ close \in [Orders -> Int]
    OBVIOUS
  <2>5. /\ starting \in Runners \cup {None} /\ base \in Baselines \cup {None}
        /\ halt \in BOOLEAN /\ mandate \in {"none", "live", "expired"}
        /\ resting \subseteq Orders /\ swept \subseteq 0 .. MaxTrips /\ refused \subseteq Orders
    OBVIOUS
  <2> QED BY <2>1, <2>2, <2>3, <2>4, <2>5 DEF TypeOK, RunnerStates, TickStates
<1>2. Ticks
  BY DEF Ticks
<1>3. Latched
  BY DEF Latched
<1>4. Late /\ SweepLeavesOnlyLate
  BY DEF Late, SweepLeavesOnlyLate, Closes
<1>5. Closing
  BY DEF Closing
<1> QED BY <1>1, <1>2, <1>3, <1>4, <1>5 DEF IInv

\* Every route, step of a tick, step of an agent and change outside keeps the invariant.
LEMMA Inductive == IInv /\ [Next]_vars => IInv'
<1> SUFFICES ASSUME IInv, [Next]_vars PROVE IInv'
  OBVIOUS
<1> USE RunnerAssumption DEF IInv, Runners, Orders, routes, book, switch, sweeps
<1>1. ASSUME Start PROVE IInv'
  <2>1. TypeOK'
    BY <1>1 DEF Start, LoopIsFree,
       TypeOK
  <2>2. Ticks'
    BY <1>1 DEF Start, LoopIsFree,
       TypeOK, Ticks
  <2>3. Latched'
    BY <1>1 DEF Start, LoopIsFree,
       TypeOK, Ticks, Latched
  <2>4. Late' /\ SweepLeavesOnlyLate'
    BY <1>1 DEF Start, LoopIsFree,
       TypeOK, Ticks, Late, SweepLeavesOnlyLate, Closes
  <2>5. Closing'
    BY <1>1 DEF Start, LoopIsFree,
       TypeOK, Ticks, Closing
  <2> QED BY <2>1, <2>2, <2>3, <2>4, <2>5
<1>2. ASSUME Drive PROVE IInv'
  <2>1. TypeOK'
    <3>1. runner' \in [Runners -> RunnerStates]
      <4>1. starting \in Runners /\ runner \in [Runners -> RunnerStates]
        BY <1>2 DEF Drive, TypeOK, RunnerStates
      <4>2. (mandate = "live") \in BOOLEAN
        OBVIOUS
      <4>3. runner' = [runner EXCEPT ![starting].armed = mandate = "live"]
        BY <1>2 DEF Drive
      <4> QED BY <4>1, <4>2, <4>3 DEF RunnerStates
    <3>2. halt' \in BOOLEAN /\ trips' \in 0 .. MaxTrips
          /\ late' \in [turns : SUBSET Runners, orders : SUBSET Orders]
      <4>1. CASE UNCHANGED switch
        BY <4>1 DEF TypeOK
      <4>2. CASE trips < MaxTrips /\ halt' = TRUE /\ trips' = trips + 1 /\ late' = Past
        BY <4>2 DEF Past, TypeOK
      <4> QED BY <1>2, <4>1, <4>2 DEF Drive, Trip
    <3> QED BY <1>2, <3>1, <3>2 DEF Drive, TypeOK, RunnerStates
  <2>2. Ticks'
    BY <1>2 DEF Drive, LoopIsFree, Trip, Past,
       TypeOK, Ticks
  <2>3. Latched'
    BY <1>2 DEF Drive, LoopIsFree, Trip, Past,
       TypeOK, Ticks, Latched
  <2>4. Late' /\ SweepLeavesOnlyLate'
    BY <1>2 DEF Drive, LoopIsFree, Trip, Past,
       TypeOK, Ticks, Late, SweepLeavesOnlyLate, Closes
  <2>5. Closing'
    BY <1>2 DEF Drive, LoopIsFree, Trip, Past,
       TypeOK, Ticks, Closing
  <2> QED BY <2>1, <2>2, <2>3, <2>4, <2>5
<1>3. ASSUME Stop PROVE IInv'
  <2>1. TypeOK'
    BY <1>3 DEF Stop, LoopIsFree,
       TypeOK
  <2>2. Ticks'
    BY <1>3 DEF Stop, LoopIsFree,
       TypeOK, Ticks
  <2>3. Latched'
    BY <1>3 DEF Stop, LoopIsFree,
       TypeOK, Ticks, Latched
  <2>4. Late' /\ SweepLeavesOnlyLate'
    BY <1>3 DEF Stop, LoopIsFree,
       TypeOK, Ticks, Late, SweepLeavesOnlyLate, Closes
  <2>5. Closing'
    BY <1>3 DEF Stop, LoopIsFree,
       TypeOK, Ticks, Closing
  <2> QED BY <2>1, <2>2, <2>3, <2>4, <2>5
<1>4. ASSUME NEW r \in Runners, BeginTick(r) PROVE IInv'
  <2>1. TypeOK'
    <3>1. tick'.stage \in {"orders", "expire"} /\ tick' = [NoTick EXCEPT !.by = r, !.stage = tick'.stage]
      BY <1>4 DEF BeginTick, NoTick
    <3>2. tick'.by = r /\ tick'.trip = 0 /\ tick'.todo = {} /\ tick'.sure = {} /\ tick'.qty = 0
      BY <3>1 DEF NoTick
    <3>3. tick' = [by |-> tick'.by, stage |-> tick'.stage, trip |-> tick'.trip, todo |-> tick'.todo,
                   sure |-> tick'.sure, qty |-> tick'.qty]
      BY <3>1 DEF NoTick
    <3>4. tick' \in TickStates
      BY <3>1, <3>2, <3>3 DEF TickStates
    <3> QED BY <1>4, <3>4 DEF BeginTick, TypeOK, TickStates
  <2>2. Ticks'
    BY <1>4 DEF BeginTick, LoopIsFree, NoTick,
       TypeOK, Ticks
  <2>3. Latched'
    BY <1>4 DEF BeginTick, LoopIsFree, NoTick,
       TypeOK, Ticks, Latched
  <2>4. Late' /\ SweepLeavesOnlyLate'
    BY <1>4 DEF BeginTick, LoopIsFree, NoTick,
       TypeOK, Ticks, Late, SweepLeavesOnlyLate, Closes
  <2>5. Closing'
    BY <1>4 DEF BeginTick, LoopIsFree, NoTick,
       TypeOK, Ticks, Closing
  <2> QED BY <2>1, <2>2, <2>3, <2>4, <2>5
<1>5. ASSUME NEW r \in Runners, BeginSweep(r) PROVE IInv'
  <2>1. TypeOK'
    <3>1. runner' \in [Runners -> RunnerStates]
      <4>1. runner \in [Runners -> RunnerStates]
        BY <1>5 DEF TypeOK, RunnerStates
      <4>2. runner' = [runner EXCEPT ![r].latch = TRUE]
        BY <1>5 DEF BeginSweep
      <4> QED BY <4>1, <4>2 DEF RunnerStates
    <3>2. tick' \in TickStates
      <4>1. tick' = [by |-> r, stage |-> "sweep", trip |-> trips, todo |-> {}, sure |-> {}, qty |-> 0]
        BY <1>5 DEF BeginSweep, NoTick
      <4>2. trips \in 0 .. MaxTrips
        BY DEF TypeOK
      <4> QED BY <4>1, <4>2 DEF TickStates
    <3> QED BY <1>5, <3>1, <3>2 DEF BeginSweep, TypeOK, RunnerStates, TickStates
  <2>2. Ticks'
    BY <1>5 DEF BeginSweep, LoopIsFree, Fresh, NoTick,
       TypeOK, Ticks
  <2>3. Latched'
    BY <1>5 DEF BeginSweep, LoopIsFree, Fresh, NoTick,
       TypeOK, Ticks, Latched
  <2>4. Late' /\ SweepLeavesOnlyLate'
    BY <1>5 DEF BeginSweep, LoopIsFree, Fresh, NoTick,
       TypeOK, Ticks, Late, SweepLeavesOnlyLate, Closes
  <2>5. Closing'
    BY <1>5 DEF BeginSweep, LoopIsFree, Fresh, NoTick,
       TypeOK, Ticks, Closing
  <2> QED BY <2>1, <2>2, <2>3, <2>4, <2>5
<1>6. ASSUME NEW r \in Runners, PassGate(r) PROVE IInv'
  <2>1. TypeOK'
    <3>1. runner' \in [Runners -> RunnerStates]
      <4>1. runner \in [Runners -> RunnerStates]
        BY <1>6 DEF TypeOK, RunnerStates
      <4>2. runner' = [runner EXCEPT ![r].turn = "placing"]
        BY <1>6 DEF PassGate, Turn
      <4> QED BY <4>1, <4>2 DEF RunnerStates
    <3> QED BY <1>6, <3>1 DEF PassGate, TypeOK, RunnerStates, TickStates
  <2>2. Ticks'
    BY <1>6 DEF PassGate, Turn, Gate,
       TypeOK, Ticks
  <2>3. Latched'
    <3>1. \A q \in Runners : runner'[q].armed = runner[q].armed /\ runner'[q].latch = runner[q].latch
      BY <1>6 DEF PassGate, Turn, TypeOK
    <3>2. UNCHANGED <<tick, cancelled>>
      BY <1>6 DEF PassGate
    <3>3. tick.stage \in {"sweep", "cancel"} => tick.by \in Runners
      BY DEF TypeOK, Ticks
    <3> QED BY <3>1, <3>2, <3>3 DEF Latched
  <2>4. Late' /\ SweepLeavesOnlyLate'
    BY <1>6 DEF PassGate, Turn, Gate,
       TypeOK, Ticks, Late, SweepLeavesOnlyLate, Closes
  <2>5. Closing'
    BY <1>6 DEF PassGate, Turn, Gate,
       TypeOK, Ticks, Closing
  <2> QED BY <2>1, <2>2, <2>3, <2>4, <2>5
<1>7. ASSUME NEW r \in Runners, Place(r) PROVE IInv'
  <2>1. TypeOK'
    <3>1. sent + 1 \in Orders /\ sent' \in 0 .. MaxOrders
      BY <1>7 DEF Place, TypeOK
    <3>2. late' \in [turns : SUBSET Runners, orders : SUBSET Orders]
      BY <1>7, <3>1 DEF Place, TypeOK
    <3>3. runner' \in [Runners -> RunnerStates]
      <4>1. runner \in [Runners -> RunnerStates] /\ runner' = [runner EXCEPT ![r].turn = "working"]
        BY <1>7 DEF Place, Turn, TypeOK, RunnerStates
      <4> QED BY <4>1 DEF RunnerStates
    <3> QED BY <1>7, <3>1, <3>2, <3>3 DEF Place, TypeOK, RunnerStates
  <2>2. Ticks'
    BY <1>7 DEF Place, Turn,
       TypeOK, Ticks
  <2>3. Latched'
    <3>1. \A q \in Runners : runner'[q].armed = runner[q].armed /\ runner'[q].latch = runner[q].latch
      BY <1>7 DEF Place, Turn, TypeOK
    <3>2. UNCHANGED <<tick, cancelled>>
      BY <1>7 DEF Place
    <3>3. tick.stage \in {"sweep", "cancel"} => tick.by \in Runners
      BY DEF TypeOK, Ticks
    <3> QED BY <3>1, <3>2, <3>3 DEF Latched
  <2>4. Late' /\ SweepLeavesOnlyLate'
    BY <1>7 DEF Place, Turn,
       TypeOK, Ticks, Late, SweepLeavesOnlyLate, Closes
  <2>5. Closing'
    <3>1. sent' = sent + 1 /\ resting' = resting \cup {sent + 1} /\ sent + 1 \in Orders /\ sent \in Nat
      BY <1>7 DEF Place, TypeOK
    <3>2. UNCHANGED <<tick, position, close, troubles>>
      BY <1>7 DEF Place
    <3>3. close[sent + 1] = 0
      BY <3>1 DEF Closing
    <3>4. \A o \in Orders : close'[o] # 0 => o <= sent'
      BY <3>1, <3>2 DEF Closing, TypeOK
    <3> QED BY <3>1, <3>2, <3>3, <3>4 DEF Closing
  <2> QED BY <2>1, <2>2, <2>3, <2>4, <2>5
<1>8. ASSUME NEW r \in Runners, EndTurn(r) PROVE IInv'
  <2>1. TypeOK'
    <3>1. runner' \in [Runners -> RunnerStates]
      BY <1>8 DEF EndTurn, Turn, TypeOK, RunnerStates
    <3> QED BY <1>8, <3>1 DEF EndTurn, TypeOK, RunnerStates, TickStates
  <2>2. Ticks'
    BY <1>8 DEF EndTurn, Turn,
       TypeOK, Ticks
  <2>3. Latched'
    <3>1. \A q \in Runners : runner'[q].armed = runner[q].armed /\ runner'[q].latch = runner[q].latch
      BY <1>8 DEF EndTurn, Turn, TypeOK
    <3>2. UNCHANGED <<tick, cancelled>>
      BY <1>8 DEF EndTurn
    <3>3. tick.stage \in {"sweep", "cancel"} => tick.by \in Runners
      BY DEF TypeOK, Ticks
    <3> QED BY <3>1, <3>2, <3>3 DEF Latched
  <2>4. Late' /\ SweepLeavesOnlyLate'
    BY <1>8 DEF EndTurn, Turn,
       TypeOK, Ticks, Late, SweepLeavesOnlyLate, Closes
  <2>5. Closing'
    BY <1>8 DEF EndTurn, Turn,
       TypeOK, Ticks, Closing
  <2> QED BY <2>1, <2>2, <2>3, <2>4, <2>5
<1>9. ASSUME Expire PROVE IInv'
  <2>1. TypeOK'
    <3>1. halt' \in BOOLEAN /\ trips' \in 0 .. MaxTrips
          /\ late' \in [turns : SUBSET Runners, orders : SUBSET Orders]
      <4>1. CASE UNCHANGED switch
        BY <4>1 DEF TypeOK
      <4>2. CASE trips < MaxTrips /\ halt' = TRUE /\ trips' = trips + 1 /\ late' = Past
        BY <4>2 DEF Past, TypeOK
      <4> QED BY <1>9, <4>1, <4>2 DEF Expire, Trip
    <3>2. tick' \in TickStates
      BY <1>9 DEF Expire, EndTick, NoTick, TickStates
    <3>3. troubles' \in 0 .. MaxTroubles
      BY <1>9 DEF Expire, Suffer, TypeOK
    <3> QED BY <1>9, <3>1, <3>2, <3>3 DEF Expire, TypeOK, TickStates
  <2>2. Ticks'
    BY <1>9 DEF Expire, At, Trip, Past, Suffer, EndTick, NoTick,
       TypeOK, Ticks
  <2>3. Latched'
    BY <1>9 DEF Expire, At, Trip, Past, Suffer, EndTick, NoTick,
       TypeOK, Ticks, Latched
  <2>4. Late' /\ SweepLeavesOnlyLate'
    <3>1. UNCHANGED <<runner, resting, swept, refused, close>>
      BY <1>9 DEF Expire
    <3>2. tick' = tick \/ tick'.stage = "none"
      BY <1>9 DEF Expire, EndTick, NoTick
    <3>3. CASE UNCHANGED switch
      BY <3>1, <3>2, <3>3 DEF Late, SweepLeavesOnlyLate, Closes
    <3>4. CASE ~halt /\ trips' = trips + 1 /\ late' = Past
      <4>1. trips \in Nat /\ tick.trip \in Nat /\ swept \subseteq Nat
        BY DEF TypeOK
      <4>2. \A t \in swept' : t <= trips /\ t <= trips' /\ t # trips'
        <5>1. swept' = swept /\ trips' = trips + 1
          BY <3>1, <3>4
        <5>2. \A t \in swept : t \in Nat /\ t <= trips
          BY <4>1 DEF Late
        <5> QED BY ONLY <4>1, <5>1, <5>2
      <4>3. \A r \in Runners : runner'[r].turn = "placing" => r \in late'.turns
        BY <3>1, <3>4 DEF Past
      <4>4. tick'.stage = "cancel" => tick'.trip # trips'
        BY <3>2, <3>4, <4>1 DEF Ticks
      <4> QED BY <4>2, <4>3, <4>4 DEF Late, SweepLeavesOnlyLate, Closes
    <3> QED BY <1>9, <3>3, <3>4 DEF Expire, Trip
  <2>5. Closing'
    BY <1>9 DEF Expire, At, Trip, Past, Suffer, EndTick, NoTick,
       TypeOK, Ticks, Closing
  <2> QED BY <2>1, <2>2, <2>3, <2>4, <2>5
<1>10. ASSUME ReadOrders PROVE IInv'
  <2>1. TypeOK'
    <3>1. tick' \in TickStates
      BY <1>10 DEF ReadOrders, TypeOK, TickStates
    <3> QED BY <1>10, <3>1 DEF ReadOrders, TypeOK, RunnerStates, TickStates
  <2>2. Ticks'
    BY <1>10 DEF ReadOrders, At,
       TypeOK, Ticks
  <2>3. Latched'
    BY <1>10 DEF ReadOrders, At,
       TypeOK, Ticks, Latched
  <2>4. Late' /\ SweepLeavesOnlyLate'
    BY <1>10 DEF ReadOrders, At,
       TypeOK, Ticks, Late, SweepLeavesOnlyLate, Closes
  <2>5. Closing'
    BY <1>10 DEF ReadOrders, At,
       TypeOK, Ticks, Closing
  <2> QED BY <2>1, <2>2, <2>3, <2>4, <2>5
<1>11. ASSUME Reconcile PROVE IInv'
  <2>1. TypeOK'
    <3>1. tick.by \in Runners /\ runner \in [Runners -> RunnerStates]
      BY <1>11 DEF Reconcile, At, TypeOK, Ticks, RunnerStates
    <3>2. runner' \in [Runners -> RunnerStates]
      BY <1>11, <3>1 DEF Reconcile, RunnerStates
    <3>3. base' \in Baselines
      BY <1>11 DEF Reconcile, TypeOK, Baselines
    <3>4. tick' \in TickStates
      BY <1>11 DEF Reconcile, EndTick, NoTick, TickStates
    <3> QED BY <1>11, <3>2, <3>3, <3>4 DEF Reconcile, TypeOK, RunnerStates, TickStates
  <2>2. Ticks'
    BY <1>11 DEF Reconcile, At, EndTick, NoTick,
       TypeOK, Ticks
  <2>3. Latched'
    BY <1>11 DEF Reconcile, At, EndTick, NoTick,
       TypeOK, Ticks, Latched
  <2>4. Late' /\ SweepLeavesOnlyLate'
    BY <1>11 DEF Reconcile, At, EndTick, NoTick,
       TypeOK, Ticks, Late, SweepLeavesOnlyLate, Closes
  <2>5. Closing'
    BY <1>11 DEF Reconcile, At, EndTick, NoTick,
       TypeOK, Ticks, Closing
  <2> QED BY <2>1, <2>2, <2>3, <2>4, <2>5
<1>12. ASSUME Mismatch PROVE IInv'
  <2>1. TypeOK'
    BY <1>12 DEF Mismatch, At, EndTick, NoTick,
       TypeOK
  <2>2. Ticks'
    BY <1>12 DEF Mismatch, At, EndTick, NoTick,
       TypeOK, Ticks
  <2>3. Latched'
    BY <1>12 DEF Mismatch, At, EndTick, NoTick,
       TypeOK, Ticks, Latched
  <2>4. Late' /\ SweepLeavesOnlyLate'
    BY <1>12 DEF Mismatch, At, EndTick, NoTick,
       TypeOK, Ticks, Late, SweepLeavesOnlyLate, Closes
  <2>5. Closing'
    BY <1>12 DEF Mismatch, At, EndTick, NoTick,
       TypeOK, Ticks, Closing
  <2> QED BY <2>1, <2>2, <2>3, <2>4, <2>5
<1>13. ASSUME ReadRaises PROVE IInv'
  <2>1. TypeOK'
    <3>1. tick' \in TickStates
      BY <1>13 DEF ReadRaises, EndTick, NoTick, TypeOK, TickStates
    <3>2. troubles' \in 0 .. MaxTroubles
      BY <1>13 DEF ReadRaises, Suffer, TypeOK
    <3> QED BY <1>13, <3>1, <3>2 DEF ReadRaises, TypeOK, RunnerStates, TickStates
  <2>2. Ticks'
    BY <1>13 DEF ReadRaises, At, EndTick, NoTick, Suffer,
       TypeOK, Ticks
  <2>3. Latched'
    BY <1>13 DEF ReadRaises, At, EndTick, NoTick, Suffer,
       TypeOK, Ticks, Latched
  <2>4. Late' /\ SweepLeavesOnlyLate'
    BY <1>13 DEF ReadRaises, At, EndTick, NoTick, Suffer,
       TypeOK, Ticks, Late, SweepLeavesOnlyLate, Closes
  <2>5. Closing'
    BY <1>13 DEF ReadRaises, At, EndTick, NoTick, Suffer,
       TypeOK, Ticks, Closing
  <2> QED BY <2>1, <2>2, <2>3, <2>4, <2>5
<1>14. ASSUME SweepRead PROVE IInv'
  <2>1. TypeOK'
    BY <1>14 DEF SweepRead, ToCancel, At,
       TypeOK
  <2>2. Ticks'
    BY <1>14 DEF SweepRead, ToCancel, At,
       TypeOK, Ticks
  <2>3. Latched'
    BY <1>14 DEF SweepRead, ToCancel, At,
       TypeOK, Ticks, Latched
  <2>4. Late' /\ SweepLeavesOnlyLate'
    BY <1>14 DEF SweepRead, ToCancel, At,
       TypeOK, Ticks, Late, SweepLeavesOnlyLate, Closes
  <2>5. Closing'
    BY <1>14 DEF SweepRead, ToCancel, At,
       TypeOK, Ticks, Closing
  <2> QED BY <2>1, <2>2, <2>3, <2>4, <2>5
<1>15. ASSUME EndCancels PROVE IInv'
  <2>0. /\ tick' \in TickStates
        /\ tick' = NoTick \/ tick' = [tick EXCEPT !.stage = "positions"]
        /\ tick' # NoTick => tick'.stage = "positions" /\ tick'.by = tick.by /\ tick'.trip = tick.trip
    <3>1. tick' = NoTick \/ tick' = [tick EXCEPT !.stage = "positions"]
      BY <1>15 DEF EndCancels, Flatten, EndTick
    <3>2. tick \in TickStates /\ NoTick \in TickStates
      BY DEF TypeOK, TickStates, NoTick
    <3> QED BY <3>1, <3>2 DEF TickStates
  <2>1. TypeOK'
    <3>1. swept' \subseteq 0 .. MaxTrips
      BY <1>15 DEF EndCancels, TypeOK
    <3> QED BY <1>15, <2>0, <3>1 DEF EndCancels, TypeOK, TickStates
  <2>2. Ticks'
    BY <1>15, <2>0 DEF EndCancels, At, NoTick,
       TypeOK, Ticks
  <2>3. Latched'
    BY <1>15, <2>0 DEF EndCancels, At, NoTick,
       TypeOK, Ticks, Latched
  <2>4. Late' /\ SweepLeavesOnlyLate'
    <3>1. tick'.stage # "cancel" /\ swept' = swept \cup {tick.trip} /\ tick.stage = "cancel"
          /\ tick.todo = {}
      BY <1>15, <2>0 DEF EndCancels, NoTick, At
    <3>2. UNCHANGED <<halt, runner, late, trips, resting, refused, close>>
      BY <1>15 DEF EndCancels
    <3>3. tick.trip <= trips
      BY DEF Ticks
    <3> QED BY <3>1, <3>2, <3>3 DEF Late, SweepLeavesOnlyLate, Closes
  <2>5. Closing'
    BY <1>15, <2>0 DEF EndCancels, At, NoTick,
       TypeOK, Ticks, Closing
  <2> QED BY <2>1, <2>2, <2>3, <2>4, <2>5
<1>16. ASSUME NEW o \in Orders, Cancel(o) PROVE IInv'
  <2>1. TypeOK'
    BY <1>16 DEF Cancel, Cancelling, At,
       TypeOK
  <2>2. Ticks'
    BY <1>16 DEF Cancel, Cancelling, At,
       TypeOK, Ticks
  <2>3. Latched'
    <3>1. tick.by \in Runners /\ o \in tick.todo /\ tick.stage = "cancel" /\ runner' = runner
      BY <1>16 DEF Cancel, Cancelling, At, TypeOK, Ticks
    <3>2. tick'.by = tick.by /\ tick'.stage = tick.stage /\ tick'.todo = tick.todo \ {o}
      BY <1>16 DEF Cancel, Cancelling, TypeOK
    <3>3. cancelled' = [cancelled EXCEPT ![tick.by] = @ \cup {o}]
      BY <1>16 DEF Cancel, Cancelling
    <3>4. cancelled'[tick.by] = cancelled[tick.by] \cup {o}
      BY <3>1, <3>3 DEF TypeOK
    <3>5. runner[tick.by].latch
      BY <3>1 DEF Latched
    <3> QED BY <3>1, <3>2, <3>3, <3>4, <3>5 DEF TypeOK, Latched
  <2>4. Late' /\ SweepLeavesOnlyLate'
    BY <1>16 DEF Cancel, Cancelling, At,
       TypeOK, Ticks, Late, SweepLeavesOnlyLate, Closes
  <2>5. Closing'
    BY <1>16 DEF Cancel, Cancelling, At,
       TypeOK, Ticks, Closing
  <2> QED BY <2>1, <2>2, <2>3, <2>4, <2>5
<1>17. ASSUME NEW o \in Orders, CancelFails(o) PROVE IInv'
  <2>1. TypeOK'
    <3>1. tick' \in TickStates
      BY <1>17 DEF CancelFails, Cancelling, TypeOK, TickStates
    <3>2. cancelled' \in [Runners -> SUBSET Orders]
      BY <1>17 DEF CancelFails, Cancelling, TypeOK
    <3>3. resting' \subseteq Orders /\ refused' \subseteq Orders /\ troubles' \in 0 .. MaxTroubles
      BY <1>17 DEF CancelFails, Suffer, TypeOK
    <3> QED BY <1>17, <3>1, <3>2, <3>3 DEF CancelFails, Cancelling, TypeOK, TickStates
  <2>2. Ticks'
    BY <1>17 DEF CancelFails, Cancelling, At, Suffer,
       TypeOK, Ticks
  <2>3. Latched'
    <3>1. tick.by \in Runners /\ o \in tick.todo /\ tick.stage = "cancel" /\ runner' = runner
      BY <1>17 DEF CancelFails, Cancelling, At, TypeOK, Ticks
    <3>2. tick'.by = tick.by /\ tick'.stage = tick.stage /\ tick'.todo = tick.todo \ {o}
      BY <1>17 DEF CancelFails, Cancelling, TypeOK
    <3>3. cancelled' = [cancelled EXCEPT ![tick.by] = @ \cup {o}]
      BY <1>17 DEF CancelFails, Cancelling
    <3>4. cancelled'[tick.by] = cancelled[tick.by] \cup {o}
      BY <3>1, <3>3 DEF TypeOK
    <3>5. runner[tick.by].latch
      BY <3>1 DEF Latched
    <3> QED BY <3>1, <3>2, <3>3, <3>4, <3>5 DEF TypeOK, Latched
  <2>4. Late' /\ SweepLeavesOnlyLate'
    BY <1>17 DEF CancelFails, Cancelling, At, Suffer,
       TypeOK, Ticks, Late, SweepLeavesOnlyLate, Closes
  <2>5. Closing'
    BY <1>17 DEF CancelFails, Cancelling, At, Suffer,
       TypeOK, Ticks, Closing
  <2> QED BY <2>1, <2>2, <2>3, <2>4, <2>5
<1>18. ASSUME TripHalt PROVE IInv'
  <2>1. TypeOK'
    <3>1. trips < MaxTrips /\ halt' = TRUE /\ trips' = trips + 1 /\ late' = Past
      BY <1>18 DEF TripHalt, Trip
    <3>2. trips' \in 0 .. MaxTrips
      BY <3>1 DEF TypeOK
    <3>3. late' \in [turns : SUBSET Runners, orders : SUBSET Orders]
      BY <3>1 DEF Past
    <3> QED BY <1>18, <3>1, <3>2, <3>3 DEF TripHalt, TypeOK
  <2>2. Ticks'
    BY <1>18 DEF TripHalt, Trip, Past,
       TypeOK, Ticks
  <2>3. Latched'
    BY <1>18 DEF TripHalt, Trip, Past,
       TypeOK, Ticks, Latched
  <2>4. Late' /\ SweepLeavesOnlyLate'
    <3>1. UNCHANGED <<runner, resting, swept, refused, close>>
      BY <1>18 DEF TripHalt
    <3>2. tick' = tick \/ tick'.stage = "none"
      BY <1>18 DEF TripHalt, EndTick, NoTick
    <3>3. CASE UNCHANGED switch
      BY <3>1, <3>2, <3>3 DEF Late, SweepLeavesOnlyLate, Closes
    <3>4. CASE ~halt /\ trips' = trips + 1 /\ late' = Past
      <4>1. trips \in Nat /\ tick.trip \in Nat /\ swept \subseteq Nat
        BY DEF TypeOK
      <4>2. \A t \in swept' : t <= trips /\ t <= trips' /\ t # trips'
        <5>1. swept' = swept /\ trips' = trips + 1
          BY <3>1, <3>4
        <5>2. \A t \in swept : t \in Nat /\ t <= trips
          BY <4>1 DEF Late
        <5> QED BY ONLY <4>1, <5>1, <5>2
      <4>3. \A r \in Runners : runner'[r].turn = "placing" => r \in late'.turns
        BY <3>1, <3>4 DEF Past
      <4>4. tick'.stage = "cancel" => tick'.trip # trips'
        BY <3>2, <3>4, <4>1 DEF Ticks
      <4> QED BY <4>2, <4>3, <4>4 DEF Late, SweepLeavesOnlyLate, Closes
    <3> QED BY <1>18, <3>3, <3>4 DEF TripHalt, Trip
  <2>5. Closing'
    BY <1>18 DEF TripHalt, Trip, Past,
       TypeOK, Ticks, Closing
  <2> QED BY <2>1, <2>2, <2>3, <2>4, <2>5
<1>19. ASSUME ClearHalt PROVE IInv'
  <2>1. TypeOK'
    BY <1>19 DEF ClearHalt,
       TypeOK
  <2>2. Ticks'
    BY <1>19 DEF ClearHalt,
       TypeOK, Ticks
  <2>3. Latched'
    BY <1>19 DEF ClearHalt,
       TypeOK, Ticks, Latched
  <2>4. Late' /\ SweepLeavesOnlyLate'
    BY <1>19 DEF ClearHalt,
       TypeOK, Ticks, Late, SweepLeavesOnlyLate, Closes
  <2>5. Closing'
    BY <1>19 DEF ClearHalt,
       TypeOK, Ticks, Closing
  <2> QED BY <2>1, <2>2, <2>3, <2>4, <2>5
<1>20. ASSUME Commit PROVE IInv'
  <2>1. TypeOK'
    BY <1>20 DEF Commit,
       TypeOK
  <2>2. Ticks'
    BY <1>20 DEF Commit,
       TypeOK, Ticks
  <2>3. Latched'
    BY <1>20 DEF Commit,
       TypeOK, Ticks, Latched
  <2>4. Late' /\ SweepLeavesOnlyLate'
    BY <1>20 DEF Commit,
       TypeOK, Ticks, Late, SweepLeavesOnlyLate, Closes
  <2>5. Closing'
    BY <1>20 DEF Commit,
       TypeOK, Ticks, Closing
  <2> QED BY <2>1, <2>2, <2>3, <2>4, <2>5
<1>21. ASSUME Crash PROVE IInv'
  <2>1. TypeOK'
    BY <1>21 DEF Crash, Suffer, NoTick,
       TypeOK, Unbuilt
  <2>2. Ticks'
    BY <1>21 DEF Crash, Suffer, NoTick,
       TypeOK, Ticks, Unbuilt
  <2>3. Latched'
    BY <1>21 DEF Crash, Suffer, NoTick,
       TypeOK, Ticks, Latched, Unbuilt
  <2>4. Late' /\ SweepLeavesOnlyLate'
    BY <1>21 DEF Crash, Suffer, NoTick,
       TypeOK, Ticks, Late, SweepLeavesOnlyLate, Closes, Unbuilt
  <2>5. Closing'
    BY <1>21 DEF Crash, Suffer, NoTick,
       TypeOK, Ticks, Closing
  <2> QED BY <2>1, <2>2, <2>3, <2>4, <2>5
<1>22. ASSUME NEW to \in {"none", "expired"}, Lapse(to) PROVE IInv'
  <2>1. TypeOK'
    BY <1>22 DEF Lapse,
       TypeOK, Unbuilt
  <2>2. Ticks'
    BY <1>22 DEF Lapse,
       TypeOK, Ticks, Unbuilt
  <2>3. Latched'
    BY <1>22 DEF Lapse,
       TypeOK, Ticks, Latched, Unbuilt
  <2>4. Late' /\ SweepLeavesOnlyLate'
    BY <1>22 DEF Lapse,
       TypeOK, Ticks, Late, SweepLeavesOnlyLate, Closes, Unbuilt
  <2>5. Closing'
    BY <1>22 DEF Lapse,
       TypeOK, Ticks, Closing
  <2> QED BY <2>1, <2>2, <2>3, <2>4, <2>5
<1>23. ASSUME NEW o \in Orders, Fill(o) PROVE IInv'
  <2>1. TypeOK'
    <3>1. resting' \subseteq Orders
      BY <1>23 DEF Fill, TypeOK
    <3>2. position' \in Int
      BY <1>23 DEF Fill, TypeOK
    <3> QED BY <1>23, <3>1, <3>2 DEF Fill, TypeOK, RunnerStates, TickStates
  <2>2. Ticks'
    BY <1>23 DEF Fill,
       TypeOK, Ticks, Unbuilt
  <2>3. Latched'
    BY <1>23 DEF Fill,
       TypeOK, Ticks, Latched, Unbuilt
  <2>4. Late' /\ SweepLeavesOnlyLate'
    BY <1>23 DEF Fill,
       TypeOK, Ticks, Late, SweepLeavesOnlyLate, Closes, Unbuilt
  <2>5. Closing'
    BY <1>23 DEF Fill,
       TypeOK, Ticks, Closing
  <2> QED BY <2>1, <2>2, <2>3, <2>4, <2>5
<1>24. ASSUME SweepReadRaises PROVE IInv'
  <2>0. /\ tick' = NoTick \/ tick' = [tick EXCEPT !.stage = "positions"]
        /\ tick' # NoTick => tick'.stage = "positions" /\ tick'.by = tick.by /\ tick'.trip = tick.trip
    BY <1>24 DEF SweepReadRaises, Flatten, EndTick, TypeOK
  <2>1. TypeOK'
    <3>1. tick' \in TickStates
      <4>1. tick \in TickStates /\ NoTick \in TickStates
        BY DEF TypeOK, TickStates, NoTick
      <4> QED BY <2>0, <4>1 DEF TickStates
    <3>2. troubles' \in 0 .. MaxTroubles
      BY <1>24 DEF SweepReadRaises, Suffer, TypeOK
    <3> QED BY <1>24, <3>1, <3>2 DEF SweepReadRaises, TypeOK, RunnerStates, TickStates
  <2>2. Ticks'
    BY <1>24, <2>0 DEF SweepReadRaises, At, NoTick, Suffer,
       TypeOK, Ticks
  <2>3. Latched'
    BY <1>24, <2>0 DEF SweepReadRaises, At, NoTick, Suffer,
       TypeOK, Ticks, Latched
  <2>4. Late' /\ SweepLeavesOnlyLate'
    BY <1>24, <2>0 DEF SweepReadRaises, At, NoTick, Suffer,
       TypeOK, Ticks, Late, SweepLeavesOnlyLate, Closes
  <2>5. Closing'
    BY <1>24, <2>0 DEF SweepReadRaises, At, NoTick, Suffer,
       TypeOK, Ticks, Closing
  <2> QED BY <2>1, <2>2, <2>3, <2>4, <2>5
<1>25. ASSUME ReadPositions PROVE IInv'
  <2>a. /\ tick \in TickStates /\ NoTick \in TickStates /\ position \in Int
        /\ \/ tick' = NoTick
           \/ position # 0 /\ tick' = [tick EXCEPT !.stage = "close", !.qty = position]
    BY <1>25 DEF ReadPositions, EndTick, TypeOK, TickStates, NoTick
  <2>0. /\ tick' # NoTick => tick'.stage = "close" /\ tick'.qty = position /\ position # 0
        /\ tick' # NoTick => tick'.by = tick.by /\ tick'.trip = tick.trip
    BY <1>25, <2>a DEF TickStates
  <2>1. TypeOK'
    <3>1. tick' \in TickStates
      BY <2>a DEF TickStates
    <3> QED BY <1>25, <3>1 DEF ReadPositions, TypeOK, RunnerStates, TickStates
  <2>2. Ticks'
    BY <1>25, <2>0 DEF ReadPositions, At, NoTick,
       TypeOK, Ticks
  <2>3. Latched'
    BY <1>25, <2>0 DEF ReadPositions, At, NoTick,
       TypeOK, Ticks, Latched
  <2>4. Late' /\ SweepLeavesOnlyLate'
    BY <1>25, <2>0 DEF ReadPositions, At, NoTick,
       TypeOK, Ticks, Late, SweepLeavesOnlyLate, Closes
  <2>5. Closing'
    BY <1>25, <2>0 DEF ReadPositions, At, NoTick,
       TypeOK, Ticks, Closing
  <2> QED BY <2>1, <2>2, <2>3, <2>4, <2>5
<1>26. ASSUME Close PROVE IInv'
  <2>1. TypeOK'
    <3>1. tick' \in TickStates
      BY <1>26 DEF Close, EndTick, NoTick, TypeOK, TickStates
    <3>2. sent' \in 0 .. MaxOrders /\ resting' \subseteq Orders
      <4>1. CASE UNCHANGED <<sent, resting, close>>
        BY <4>1 DEF TypeOK
      <4>2. CASE sent < MaxOrders /\ sent' = sent + 1 /\ resting' = resting \cup {sent + 1}
        BY <4>2 DEF TypeOK
      <4> QED BY <1>26, <4>1, <4>2 DEF Close
    <3>3. close' \in [Orders -> Int]
      BY <1>26 DEF Close, TypeOK
    <3> QED BY <1>26, <3>1, <3>2, <3>3 DEF Close, TypeOK, RunnerStates, TickStates
  <2>2. Ticks'
    BY <1>26 DEF Close, At, EndTick, NoTick,
       TypeOK, Ticks
  <2>3. Latched'
    BY <1>26 DEF Close, At, EndTick, NoTick,
       TypeOK, Ticks, Latched
  <2>4. Late' /\ SweepLeavesOnlyLate'
    <3>1. tick.stage = "close" /\ tick'.stage = "none" /\ tick.qty # 0 /\ -tick.qty # 0
      BY <1>26 DEF Close, At, EndTick, NoTick, Closing, TypeOK
    <3>2. Closes \subseteq Closes' /\ resting' \subseteq resting \cup Closes'
      <4>1. CASE UNCHANGED <<sent, resting, close>>
        BY <4>1 DEF Closes
      <4>2. CASE sent < MaxOrders /\ resting' = resting \cup {sent + 1}
                 /\ close' = [close EXCEPT ![sent + 1] = -tick.qty]
        <5>1. sent + 1 \in Orders
          BY <4>2 DEF TypeOK
        <5> QED BY <3>1, <4>2, <5>1 DEF Closes, TypeOK
      <4> QED BY <1>26, <4>1, <4>2 DEF Close
    <3>3. UNCHANGED <<halt, runner, late, trips, swept, refused>>
      BY <1>26 DEF Close
    <3> QED BY <3>1, <3>2, <3>3 DEF Late, SweepLeavesOnlyLate
  <2>5. Closing'
    <3>1. tick.stage = "close" /\ tick'.stage = "none" /\ UNCHANGED <<position, troubles>>
      BY <1>26 DEF Close, At, EndTick, NoTick
    <3>2. CASE UNCHANGED <<sent, resting, close>>
      BY <3>1, <3>2 DEF Closing
    <3>3. CASE sent < MaxOrders /\ sent' = sent + 1 /\ resting' = resting \cup {sent + 1}
               /\ close' = [close EXCEPT ![sent + 1] = -tick.qty]
      <4>1. sent + 1 \in Orders /\ sent \in Nat /\ tick.qty \in Int /\ position \in Int
        BY <3>3 DEF TypeOK
      <4>2. close'[sent + 1] = -tick.qty /\ \A o \in Orders : o # sent + 1 => close'[o] = close[o]
        BY <3>3, <4>1 DEF TypeOK
      <4>3. \A o \in Orders : close'[o] # 0 => o <= sent'
        BY <3>3, <4>1, <4>2 DEF Closing
      <4>4. ASSUME troubles = 0
            PROVE \A o \in resting' : close'[o] # 0 => o = sent + 1
        BY <3>1, <3>3, <4>1, <4>2, <4>4 DEF Closing, TypeOK
      <4>5. troubles = 0 => position >= 0 /\ position + (-tick.qty) >= 0
        BY <3>1, <4>1 DEF Closing
      <4> QED BY <3>1, <4>2, <4>3, <4>4, <4>5 DEF Closing
    <3> QED BY <1>26, <3>2, <3>3 DEF Close
  <2> QED BY <2>1, <2>2, <2>3, <2>4, <2>5
<1>27. ASSUME UNCHANGED vars PROVE IInv'
  <2>1. TypeOK'
    BY <1>27 DEF vars, TypeOK
  <2>2. Ticks' /\ Latched'
    BY <1>27 DEF vars, Ticks, Latched
  <2>3. Late' /\ SweepLeavesOnlyLate'
    BY <1>27 DEF vars, Late, SweepLeavesOnlyLate, Closes
  <2>4. Closing'
    BY <1>27 DEF vars, Closing
  <2> QED BY <2>1, <2>2, <2>3, <2>4
<1> QED
  BY <1>1, <1>2, <1>3, <1>4, <1>5, <1>6, <1>7, <1>8, <1>9, <1>10, <1>11, <1>12,
     <1>13, <1>14, <1>15, <1>16, <1>17, <1>18, <1>19, <1>20, <1>21, <1>22, <1>23, <1>24,
     <1>25, <1>26, <1>27
     DEF Next, Ticking, Reconciling, Sweeping, World

-----------------------------------------------------------------------------
(* What the invariant is for.                                              *)

\* The invariant holds in every reachable state.
THEOREM Invariant == Spec => []IInv
<1> QED BY Initial, Inductive, PTL DEF Spec

\* Routes, ticks, agents and the world outside only make well-typed states.
THEOREM TypeCorrect == Spec => []TypeOK
<1>1. IInv => TypeOK
  BY DEF IInv
<1> QED BY Invariant, <1>1, PTL

\* What rests when the sweep of a halt is through is late or was refused.
THEOREM SweepHolds == Spec => []SweepLeavesOnlyLate
<1>1. IInv => SweepLeavesOnlyLate
  BY DEF IInv
<1> QED BY Invariant, <1>1, PTL

\* However many runners close the position, their closes never add up to a short one.
THEOREM ClosesHold == Spec => []ClosesDoNotStack
<1>1. IInv => ClosesDoNotStack
  BY DEF IInv, Closing, ClosesDoNotStack
<1> QED BY Invariant, <1>1, PTL

\* The latch keeps every runner from cancelling an order again, whatever it sees.
THEOREM CancelOnceHolds == Spec => NoCancelTwice
<1> DEFINE Once == \A r \in Runners, o \in Orders :
        tick.by = r /\ o \in tick.todo \ tick'.todo /\ At("cancel") => o \notin cancelled[r]
<1>1. IInv /\ [Next]_vars => [Once]_vars
  BY DEF IInv, Latched, At
<1> QED BY Invariant, <1>1, PTL DEF Spec, NoCancelTwice

\* No step but a reconcile that found the recorded position begins a turn.
THEOREM TurnsHold == Spec => TurnsNeedKnownPosition
<1> DEFINE Known ==
        /\ base # None => base' # None /\ base'.position = base.position
        /\ \A r \in Runners :
             runner[r].turn = "none" /\ runner'[r].turn = "working" =>
                 base'.position = position
<1>1. IInv /\ [Next]_vars => [Known]_vars
  <2> SUFFICES ASSUME IInv, Next PROVE Known
    OBVIOUS
  <2>1. ASSUME UNCHANGED base, \A r \in Runners : runner[r].turn = "none" => runner'[r].turn # "working"
        PROVE Known
    BY <2>1
  <2>2. ASSUME Reconcile PROVE Known
    <3>1. base' = [orders |-> tick.todo, sure |-> tick.sure, position |-> position]
      BY <2>2 DEF Reconcile
    <3>2. base # None => base.position = position
      BY <2>2 DEF Reconcile, Matches
    <3>3. base' # None
      BY <2>2, <3>1, RunnerAssumption DEF IInv, TypeOK, Baselines
    <3> QED BY <3>1, <3>2, <3>3
  <2>3. ASSUME Start \/ Stop \/ Expire \/ ReadOrders \/ Mismatch \/ ReadRaises \/ Sweeping
        PROVE Known
    <3>1. UNCHANGED <<base, runner>>
      BY <2>3 DEF Start, Stop, Expire, ReadOrders, Mismatch, ReadRaises, Sweeping, SweepRead,
         SweepReadRaises, EndCancels, ReadPositions, Close, Cancel, CancelFails, Cancelling
    <3> QED BY <2>1, <3>1
  <2>4. ASSUME Drive PROVE Known
    <3>1. base' = base /\ runner' = [runner EXCEPT ![starting].armed = mandate = "live"]
      BY <2>4 DEF Drive
    <3>2. \A r \in Runners : runner'[r].turn = runner[r].turn
      BY <3>1 DEF IInv, TypeOK
    <3> QED BY <2>1, <3>1, <3>2
  <2>5. ASSUME NEW r \in Runners, BeginTick(r) \/ BeginSweep(r) \/ PassGate(r) \/ Place(r) \/ EndTurn(r)
        PROVE Known
    <3>1. base' = base
      BY <2>5 DEF BeginTick, BeginSweep, PassGate, Place, EndTurn
    <3>2. \A q \in Runners : runner[q].turn = "none" => runner'[q].turn # "working"
      BY <2>5 DEF BeginTick, BeginSweep, PassGate, Place, EndTurn, Turn, IInv, TypeOK
    <3> QED BY <2>1, <3>1, <3>2
  <2>6. ASSUME World PROVE Known
    <3>1. base' = base
      BY <2>6 DEF World, TripHalt, ClearHalt, Commit, Crash, Lapse, Fill
    <3>2. \A q \in Runners : runner[q].turn = "none" => runner'[q].turn # "working"
      BY <2>6 DEF World, TripHalt, ClearHalt, Commit, Crash, Lapse, Fill, Unbuilt, IInv, TypeOK
    <3> QED BY <2>1, <3>1, <3>2
  <2> QED BY <2>2, <2>3, <2>4, <2>5, <2>6 DEF Next, Ticking, Reconciling
<1> QED BY Invariant, <1>1, PTL DEF Spec, TurnsNeedKnownPosition
================================================================================
