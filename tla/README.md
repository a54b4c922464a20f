# HM: TLA+ models, model checks and proofs

HM is a trading-agent platform. `src/Tradi` holds the agent: research tools, backtests,
a chat session service, swarms of agents, scheduled research, and a live channel that places
real orders under a mandate the user has consented to. `src/vibe-trading-saas` holds the hosted
service around it: a queue of agent runs in Postgres and worker processes that execute them.
This directory models the parts of both where state is shared between actors that interleave,
fail and restart.

## 1. Inventory

| component | state it keeps | operations | what is hard | what makes it correct |
|---|---|---|---|---|
| live order gate (`agent/src/live/{sdk_order_gate,order_guard,daily_count,enforcement,halt}.py`, `mandate/store.py`) | `mandate.json`, the `HALT` sentinels, the daily counter file, the lock file; the broker's book | submit on two paths (`execute_live_order` / `LiveOrderGuardTool`, `execute_live_action`), cancel, close, trip and clear a halt | callers in several threads and processes, reads before the lock, midnight, lost answers, a counter that cannot be read, death between the broker call and the count | the daily limit and the exposure cap of the mandate hold; a halt stops new orders; nobody waits for ever |
| mandate consent (`mandate/commit.py`) | proposal, consent record, `mandate.json` | propose, commit | three writes in a row, replay of a proposal | a proposal is used once, the record matches the mandate |
| run queue and worker (`vibe-trading-saas/worker`, `db/migrations`) | `agent_runs`, `session_messages`, `agent_artifacts`; per process the run in hand, its engine subprocess, the stop event | enqueue, claim, heartbeat, complete, fail, refund, append the answer, store artifacts | stale claims taken over, replies lost on either side of a commit, kills, SIGTERM, one `WORKER_ID` in several processes | a closed run stays closed, only its last claimer closes it, one refund, artifacts of the execution that closed it, every run closed in the end |
| live runner (`live/runtime/{runner,flatten,reconcile}.py`, `api/live_routes.py`) | tasks and runners in the API process, the sweep latch of each, `runtime_state.json` | start, stop, tick, halt, resume | two runners of one broker, agents that place orders while a sweep runs, a halt after a resume, cancels that fail, closes that pass no gate | what rests after the sweep of a halt came late, no order is cancelled twice, closes do not add up, no agent acts over a position nobody knows |
| job scheduler (`live/runtime/scheduler.py`, `jobstore.py`) | jobs in memory and in a file | add, remove, fire, load, quarantine | a corrupt file | a recurring job goes on firing |
| session service (`agent/src/session`, `api/sessions_routes.py`) | `session.json`, `attempt.json`; claims, tasks and loops in memory; a pool of four threads | create, send, cancel, rename, auto-title, delete | requests between two awaits of a run, cancels before and in the pool, builds and agents that hang, deaths between two writes | one run per session, accepted cancels count and let go, claims end |
| scheduled research (`agent/src/scheduled_research`) | the job file, its outbox | create, delete, tick, dispatch, sweep | two sweeps over copies of rows, sends longer than their lease or whose answer is not what the channel did, a death amid a send | a briefing is sent once, a job is not fired over one that is owed |
| swarm (`agent/src/swarm`, `api/swarm_routes.py`) | `run.json`, a file per task, the event log | start, cancel, layers, reconcile by readers, resume | a thread and readers that write the same files, exceptions, deaths, a suspended host | results are kept and fit together, no run stays running |
| governance ledger (`agent/src/governance/ledger.py`, `live/audit.py`) | `audit.jsonl`, the hash chain and its archives | record an action, append, rotate, verify | several processes, writes cut in the middle whose rest is flushed later, a rename without a lock | the chain verifies, no confirmed record is lost in silence |
| research goals (`agent/src/goal`) | SQLite rows | create, charge, finish | status transitions, budget | terminal states are final |
| billing webhooks (`supabase/functions/{paystack,stripe}-webhook`) | `webhook_events`, `subscriptions` | record an event, handle it, answer | redelivery until 200, deliveries handled side by side, an event lost after its record | an event is written once; a subscription is served as long as its provider will renew it |
| event bus, pairing | buffers and files of each | see the source | a reader that reconnects | see section 7 |
| backtest, factors, quantlib, tools, trading connectors, providers, CLI, front ends | - | - | real-valued data or pure I/O | not modelled |

The session service runs agents in a pool of four threads, so several callers of the gate
run in one process; the CLI, the API server and the live runner are further processes over
the same files. The gate, the runner and the halt route meet only in those files. The
worker starts the agent as a subprocess and talks to the database through RPCs, each of
which is one transaction. A runner wakes its agent through the session service, whose turn then
passes the gate; a job of scheduled research is a session too, and its end asks for a sweep.
Everything the gate and the runner do to a broker is recorded in the ledger.

`PROJECT.json` lists every component with its status, and at their lines the hazards that the
properties are for. Hazards that no property covers are in sections 3 and 6.

## 2. Modules

| module | what it is |
|---|---|
| `OrderGate` | the gate of one broker: callers, files, broker, clock |
| `OrderBudget` | what the gate promises of `max_trades_per_day`, without files or locks |
| `OrderGateBudget` | the gate as an implementation of the budget |
| `MCOrderGate` | constants for TLC |
| `OrderGateProofs` | theorems about the gate |
| `RunQueue` | the run queue, its SQL functions and the worker processes |
| `RunLife` | what the queue promises of a run, without workers, leases or lost replies |
| `RunQueueLife` | the queue as an implementation of it |
| `MCRunQueue` | constants for TLC |
| `RunQueueProofs` | theorems about the queue, those that count executions and answers of a run against the troubles included |
| `LiveRunner`, `LiveRunnerProofs` | the runners of one broker, and theorems about them |
| `SessionService`, `SessionProofs` | sessions, attempts and the pool, and theorems about them |
| `ScheduledResearch`, `MCScheduledResearch`, `ResearchProofs` | the executor, the outbox and the job file; constants for TLC; theorems about them |
| `SwarmRuntime`, `MCSwarmRuntime`, `SwarmProofs` | runs, threads and readers; constants for TLC; theorems about them |
| `AuditLedger`, `AuditProofs` | the two files behind `write_live_action`, and theorems about them |
| `Billing`, `BillingProofs` | the webhooks of both payment providers, and theorems about them |

Each module has, before a definition, the variant of it that a plausible bug would make, under a
comment that begins with "Fault:". No action uses them; they name what the properties are there
to catch, and each property has one that violates it.

### OrderGate

A submission is a walk through `Stages`: one step for each read or write of something
shared. The order path (`execute_live_order`, `LiveOrderGuardTool.execute`) looks at the
sentinels, reads the positions and takes the lock last; the action path
(`execute_live_action`) takes the lock first. `OrderPath` and `ActionPath` hold the two orders.

| code | model |
|---|---|
| `load_mandate`, the copy a submission keeps | `mandate`, `client[c].mandate` |
| `halt_path().exists()`, `broker_halt_path(b).exists()` | `halt`, read by `CheckGlobal` and `CheckScoped`, two steps |
| `_safe_read(get_positions)` | `ReadPositions`, which may return `Unreadable` |
| `daily_order_lock`, non-blocking `flock` | `lock`, `TryLock`; a taken lock is a `Deny` |
| `read_daily_count`, `check_mandate` | `Decide`, with `ReadDailyCount`, which fails open to 0, and `InMandate`; `SpoilCounter` for a file that no longer parses |
| the broker call | `PlaceOk`, `PlaceRefused`, `PlaceUnmade` (refused in an answer that is no error envelope, and counted), `PlaceUnanswered` |
| `increment_daily_count` | `Count`, `AbortBeforeCount` when the process dies or the write raises |
| cancel and close, which skip every check | `CancelResting`, `ClosePosition` |
| `trip_halt`, `clear_halt`, `commit_mandate` | `TripHalt`, `ClearHalt`, `CommitMandate` |

`Deny` is one action for every early return: what it leaves behind is the same. Money is
a small signed integer; a symbol stands for itself; the universe, the order cap, the exposure
cap, leverage, funding, the daily count and the expiry of a mandate are all in `Terms`.
`placed`, `uncounted`, `unmade`, `blind` and `late` are history: no guard reads `placed` or
`late`, and the other three (lost counts, refused orders that were counted, times the counter
counted for nothing) only bound themselves, by `Spare`. The instrument and broker allow-lists of the
mandate, prices and currency conversion are data that no property tells apart.

### RunQueue

`row` is `agent_runs`. `Claimed`, `Close` and `Heartbeat` are the SQL functions, with
their `WHERE` clauses `Claimable` and `Holds`. A worker walks `staging`, `engine`,
`answering`, `closing`, `persisting`: the order of `TradiRunner.execute` and
`process_run`. Time is `stale`: a claim becomes stale when nobody refreshes it. A worker that
holds a run refreshes it while it works, so that needs `MissHeartbeats`, which is counted
as a trouble; a run nobody has in hand goes stale by `GoStale`.

| code | model |
|---|---|
| `claim_agent_run`, `FOR UPDATE SKIP LOCKED`, oldest first | `Claim`, or `ClaimReplyLost` when the reply is lost |
| `_supervise` | `EngineExits`, `EngineStopped` (deadline or stop event), `Heartbeat`, `HeartbeatRaises` |
| `complete_session_turn` | `Answer`, best effort, before the close |
| `complete_agent_run`, `fail_agent_run`, `refund_agent_run` | `CloseRow`, or `CloseRaises` on either side of the commit |
| `ArtifactStore.persist` | `Persist`, only when `complete` answered true |
| SIGTERM, kill, restart by the platform | `Sigterm`, `Crash`, `Restart` |

`orphans` counts the engines of a run that nobody supervises: those of a worker that was killed, or
cut off from the database at a heartbeat. `budget` holds what is left of each kind of trouble
(`Limit`). `claims`, `refunds` and `worker[w].nth` are history.

`RunLife` is what a user is promised of a run: enqueued once, claimed any number of times until it
is closed, closed once, refunded in that step or never, and stored only as the last execution left
it. Answers are promised less, since `complete_session_turn` does not look at the claim: any
execution that was claimed may append one, after the close too. `RunQueueLife` maps the rows to
lives and forgets `claimed_by`, ages, processes and troubles.

### LiveRunner

A tick holds the event loop of the API process from start to end, so two ticks never overlap, but
it is a walk through stages: the broker, the user, other processes and the agents' threads act
between its steps.

| code | model |
|---|---|
| `start_runner_endpoint`, `_drive_runner`, `run_loop` | `Start`, `Drive`: the task arms the scheduler and ends |
| `stop_runner_endpoint` | `Stop`, which cancels a task that has not run yet |
| `tick`, `_expired_result` | `BeginTick`, `Expire` |
| `reconcile`, `runtime_state.json` | `ReadOrders`, `Reconcile`, `Mismatch`, `base` |
| `_run_preemptive_sweep`, `_flatten_fired` | `BeginSweep`, `runner[r].latch` |
| `_cancel_resting_orders` | `SweepRead`, `SweepReadRaises`, `Cancel`, `CancelFails`, `EndCancels` |
| `_resolve_allow_flatten`, `_flatten_open_positions` | `Flatten`, `ReadPositions`, `Close` |
| the agent's turn, the halt check of the gate, its broker call | `runner[r].turn`, `PassGate`, `Place` |
| `halt`, `resume`, `commit` routes, expiry and revocation | `TripHalt`, `ClearHalt`, `Commit`, `Lapse` |

`Gate` is what the gate asks of the switch and the mandate; all its other checks are in
`OrderGate` and can only refuse more. `Reads` says what the broker's readers answer: rows,
which reconcile and the sweep expect, or the envelope of `call_tool`, which
`_build_live_runner` hands them (`live_routes.py:568-569`). With the envelope every tick that reads
ends in `ReadRaises`, a sweep cancels nothing and no turn begins, so that there is nothing to say of
them: `live_runner` and `halt_closes` use rows, so as to say what the runner does once it can
read, and `runner_stop` is the program as it is wired. `FlattenOnHalt` is the flag of
the mandates (`model.py:148`); the sweep reads it from the mandate on file when its cancels are
done. One symbol stands for all; agents buy 1, and a close moves the position by what was read.
`late`, `trips`, `swept`, `cancelled` and `refused` are history.

### SessionService

What runs between two awaits of the event loop is one action; the pool's threads, and deaths,
come between. `record` and `stored` are the files, `inflight`, `task` and `loop` the
dictionaries of the service, `stage` the coroutine of an attempt and `job` what the pool does for
it.

| code | model |
|---|---|
| `send_message`, `_reserve_session` | `Send`, `MaySend`; `SendRaises` and `CrashInSend` after some of the writes |
| `cancel_current` | `Cancel`: the loop's flag, or the task |
| `_run_attempt`, `_run_with_agent` | `Start`, `BeginAgent`, `Finish`, `StartRaises`, `BuildRaised`, `CancelledInBuild`, all ending in `Conclude`; `NeverStart` for a task cancelled before its first step |
| the writes of `_run_attempt`: verdict, reply, index, event; a raise after the verdict writes it again as failed | `Writing`, `SaveStatus`; a death between two of them is `CrashInStep` |
| `_AGENT_EXECUTOR` | `TakeSlot`, `Built`, `Ran` |
| `update_session`, `delete_session`, `auto_title_session` | `Rename`, `Delete`, `BeginTitle`, `WriteTitle` |

`inTime` is history.

### ScheduledResearch

`loop` is the coroutine that runs, or `None` while all of them await: a sweep gives it up only
for a send, the tick only for a dispatch. A sweep keeps in `left` the copies it loaded.

| code | model |
|---|---|
| `tick`, `_run_job` | `Tick`, `Fire`, `Dispatched`, `DispatchFails`, `EndTick` |
| `_persist_completion`, `_same_record` | `PersistCompletion`, `SameRecord` |
| `request_sweep`, `sweep_deliveries` | `EventSweep`, `BeginSweep`, `Claim`, `SendReturns`, `SendRaises`, `NoBriefing`, `ReadRaises`, `RecordVerdict`, `SkipRow` |
| `_mark_delivery_failed`, `_retry_delay_ms` | `FailedDelivery`, `RetryDelay` |
| the channels, which may take a message, or part of it, and raise, or drop it and return | `SendRaises`, `SendReturns`, `Misleads` |
| `recover_stale_running` | part of `Restart` |

`delivered`, `dropped` and `repeats` are history.

### SwarmRuntime

`run` and `task` are `run.json` and the task files, `thread[r]` what the thread of a run has
seen and done. `blocked` stands for `pending` too. A reader loads, judges, writes the tasks and
then the run, and the thread of the run interleaves with each step; a resume is what a
reader may do with its answer.

| code | model |
|---|---|
| `start_run`, `_execute_run`, `_execute_layer` | `Start`, `Begin`, `BeginLayer`, `WorkerEnds`, `EndLayer`, `Sync`, `SyncFails`, `Finish`, `BodyRaises`, `ThreadDies` |
| `_apply_resume_overlay` | `Overlay`, with `Kept` for the invalidation that follows the dependencies |
| `cancel_run`, `_cancel_remaining_tasks` | `Cancel`, `CancelLayer`: by the statuses of the last sync |
| `reconcile_run`, `_recover_terminal`, `_reap_stale`, `_persist_recovery` | `Load`, `Hydrate`, `Recovered`, `Reaped`, `SaveTasks`, `SaveRun`, `SaveRaises` |
| `retry_swarm_run` | `Resume` |

`quiet` abstracts the age of the last event: a live thread emits heartbeats, so its log falls
silent only when the host is suspended (`Sleep`) or the thread has died.

### AuditLedger

A lock and the lines read belong to the file that was opened, a rename to its name, so a file is a
number and `active` says which one has the name. A record commits to all before it: its hash is the
sequence of the entries up to its own. A write may fail before its first byte, in the middle,
or before the newline; `append_record` then unlocks before it closes, and the close flushes what
is left in the buffer (`ledger.py:461-464`).

| code | model |
|---|---|
| `write_live_action` | `Record`, `RecordFails`, then the chain, whose errors are logged |
| `append_record` | `Open`, `Admit` or `Refuse` (lock, verification), `Write`; `WriteFails` unlocks, `Close` flushes the rest wherever the file ends by then; `Die` closes the file and frees the lock |
| `_walk_chain`, `verify_chain_with_archives` | `Linked`, `Verified` |
| `rotate_if_needed` | `BeginRotation`, `Rotate`, without a lock |

`raced` (a rename met an append) and `strays` (late rests that met the append of another) are history.
That nobody has appended since the failed write is read off `size`, the number of writes to a file.

### Billing

`log` is what the providers have emitted, per subscription; an event is sent again, also next to an
earlier delivery of it, until it is answered with 200 (`acked`). Of a row of `subscriptions` the
status is kept. A Paystack purchase may be stored under the code of the subscription or, when the
transaction does not know the code yet, under its reference: `rows[s]` has both.

| code | model |
|---|---|
| `dedupeKey`, the unique column `provider_event_id` | `KeyOf`, `recorded` |
| the insert into `webhook_events`; 23505 answers 200, another error 500 | `Insert`, `InsertFails` |
| `handleChargeSuccess`, `handleSubscriptionCreate`, `handleCheckoutComplete` (upserts), the others (updates) | `Write`, with `Status` and `StatusMap` |
| every early return and error of a handler, which are logged | `WriteFails` |
| the answer 200; a function that ends before it | `Answer`, `Die` |

What the providers emit, and in which order, is external (`PaystackEvents`, `StripeEvents`). A
Paystack subscription that its owner gives up is `non-renewing`: active to the end of the paid
period, then disabled. Taking it up again there is left out; a second notice would have the key of
the first.
`writes` and `struck` are history.

## 3. Runs

| run | expects | what it shows |
|---|---|---|
| `order_gate` | pass | two callers on both paths, buys that fill or rest, cancels, closes and late fills, two mandates of which one expires at midnight, both sentinels, one lost count, refused order that is counted or counter that reads as 0: the lock excludes, the gate implements the daily budget, the daily limit holds but for what that fault costs, a halt stops all but those past its check |
| `gate_action` | pass | two callers on either path: the action path never passes the exposure cap, the order path by no more than one order of the other caller, and every submission is answered |
| `run_queue` | pass | two workers and two runs with a lost RPC, a slow worker and a kill: the queue implements the life of a run, and what duplicate executions and answers cost |
| `run_queue_closes` | pass | one run and every trouble once: it is closed in the end |
| `live_runner` | pass | two runners, two halts with a resume between them, an order and its fill, one trouble |
| `halt_closes` | pass | two runners that each cancel and close the position under one halt |
| `runner_stop` | violation | with the readers as wired, the scheduler of a runner ticks when its task, which a stop would cancel, has ended |
| `sessions` | pass | three messages to one session over one thread, every request and one trouble anywhere between, builds and agents that may hang |
| `research` | pass | two jobs, two sessions, both sweeps, leases that run out, and a restart or a send whose answer misleads |
| `swarm` | pass | three tasks, a run and its resume, a reader, one trouble |
| `ledger` | pass | two processes, four records, two rotations, two failures, late rests |
| `billing` | pass | a subscription at each provider, three events, two deliveries handled side by side, one failure or death |

The type invariant of every module is proved (section 4), so that no run spends time on it. The
other properties that hold are:

- gate: `AdmissionIsExclusive`, `AtMostOneCarried`, `DailyCap`, `HaltStopsNewOrders`, `ExposureCap`,
  `StaleReadsCost`, `SubmissionAnswered`, `ImplementsBudget`;
- queue: `ImplementsRunLife` (and `ClosedIsFinal`, which is proved), `CloserIsLastClaimer`,
  `ArtifactsMatchClose`, `RefundFollowsClose`, `DuplicatesNeedTroubles`, `AnswersNeedTroubles`,
  `RunsClose`;
- runner: `SweepLeavesOnlyLate` (what rests under a swept halt came from a turn past the gate's
  check, or its cancel failed), `ClosesDoNotStack`, `NoCancelTwice`, `TurnsNeedKnownPosition`;
- sessions: `OneRunPerSession`, `CancelIsHonoured`, `RunningIsLive`, `CancelFreesSession` (a cancel before
  the agent lets go of the session even if the build hangs), `ClaimsEnd` (if no job holds its thread for
  ever, every run lets go), and `StrandedOnlyByEarlyCancel`, which names the only way a claim is left
  without a run: a cancel before the first step of a task keeps it until a restart;
- research: `SentOnceUnlessRepeated`, `SentWasDelivered`, `NotFiredWhileOwed`;
- swarm: `ResultsKept`, `ResultsAgree`, `CompletedHasAll`, `RunsEnd`;
- ledger: `ChainSound` (the history verifies up to its last line, and one more for each late rest that
  met an append), `AnsweredOrReported`, `LossShows`, `HistoryKept`, `CallsEnd`;
- billing: `ExactlyOnce`, `ServedIffRenewed` (a quiet subscription is served exactly when its provider
  has it active and will renew it), `EventsAcked`.

### Where the code differs from what it says

`runner_stop` checks a statement of the command line; `PROJECT.json` quotes it under `findings`.
The following was met on the way. The models have these steps; no run is spent on them.

- On the order path the positions are read before the lock (`sdk_order_gate.py:120`,
  `order_guard.py:184`), so two callers are each admitted without the order of the other and pass
  the exposure cap; `StaleReadsCost` is by how much.
- A counter file that cannot be read or parsed counts as 0 (`daily_count.py:111-120`), so that the
  whole limit may be spent again: `blind`. A refusal of the broker that is no error envelope is
  counted as an order (`order_guard.py:366-380`): `unmade`.
- Resting orders count in no exposure (`enforcement.py:315-340`); their fills pass every cap.
- An error answer that hides an order the broker took is not counted (`order_guard.py:349-379`,
  against the comment at 338-340). `DailyCap` allows for it in `uncounted`.
- Processes that share a `WORKER_ID`, as the deployment guide has them (`docs/RAILWAY_DEPLOY.md:45`),
  pass each other's `claimed_by`; the assumption `DistinctIds` excludes it.
- `complete` and `fail` raise out of `process_run` and end the worker (`main.py:101` says "Never
  raises"); a heartbeat that raises leaves its engine running (`runner.py:622`); a worker that lost
  its claim appends its answer all the same (`runner.py:427`).
- A session that ends without a reply keeps its row of scheduled research pending, and its job not
  due, for ever (`executor.py:588`). Two sweeps write whole rows back from copies
  (`executor.py:585`, `596`, `686`), which can undo a claim (`repeats`) and bring back a job that the
  user has deleted or replaced.
- `channels/base.py:79` says that a send raises when it fails. Discord's returns when its client is
  not ready or the channel is not found (`discord.py:457-459`, `254-256`), and the row says sent of
  a briefing nobody got: `dropped`. It sends chunk by chunk (`273-280`), and one that raises after
  the first is sent again from the start: `repeats`.
- `sessions_routes.py:638` says that an auto-title never clobbers a manual rename. It looks before it
  awaits the model, and then writes the whole session it had loaded (`689-699`): `BeginTitle`,
  `Rename`, `WriteTitle`. A newer attempt link and a deletion are undone in the same way.
- Nothing bounds a build or an agent run (`service.py:262`, `85-88`): one that hangs holds its thread of
  the pool, and an agent the claim of its session too, for ever. The stall watchdog writes a failed
  state and sets the cancel flag (`loop.py:1803-1825`), which a loop stuck in a call never reads.
- `runner.py:547-549` says that a halt cancels the resting orders. As wired (`live_routes.py:568-569`),
  the readers answer with the envelope of `call_tool`, over which the sweep raises before its first
  cancel (`flatten.py:175-176`) and `reconcile` on every tick, so that no turn begins either; an order
  of a chat session stays resting under the halt.
- A resume writes the kept tasks one by one (`swarm/runtime.py:698-712`); `Overlay` writes them at once.
- A reader of a swarm run may write a final status over the one its thread has just written
  (`store.py:507`), and a run whose thread dies before `run.json` says running is never reaped. After a
  suspension of the host two readers can write back an old copy of the tasks, with a result whose
  upstream was made anew since (`store.py:503-506`); `ResultsAgree` excludes suspensions for it.
- A chained append that fails before its first byte leaves a chain that verifies, although
  `audit.py:330-338` says the gap is reported. A second rotation is always refused, since
  `ledger.py:653` verifies the active file from the genesis hash. The rest of a failed write that
  is flushed after the unlock may be a whole record of a place that is taken by then, so that the
  chain forks without a rotation: `strays`. A failed `fsync` is only warned of (`ledger.py:456-460`,
  `audit.py:311-314`), so that a crash of the host may take a record that was confirmed.
- `paystack-webhook/index.ts:262` says that `subscription.create` after `charge.success` is a
  no-op. When the transaction had no code yet, the charge made its row under the reference (`223`),
  the creation makes a second one under the code, and a later disable cancels only that
  (`ServedIffRenewed` asks for events that carry the code). An event that fails after it was
  recorded is lost, since its redelivery is a duplicate, as line 186 has it: `struck`.
- `frontend/src/pages/Pricing.tsx:236` and `Terms.tsx:66` say that access continues to the end of the
  paid period. `subscription.not_renew` goes to the handler of the end (`index.ts:171-173`), which
  writes `canceled` at once; `ServedIffRenewed` states that. `cancel_at_period_end` is never set there.

### Bounds

The hazards of the gate are between two callers, one midnight and one recommit: a
third caller adds only one more to refuse, and each property talks about pairs. `MaxDay`
is 1 (one midnight), `MaxFaults` is one fault over all days, the mandates of `order_gate` allow one
order a day, so that the limit is reached, and exceeded by a lost count or a counter that fails open.
In `gate_action` nothing fails and no midnight comes, which change no exposure; sizes are 1 and -2,
so that a sell turns a long position of the cap into a short one.

In the queue two workers are enough to take over a claim, and two runs to have a claim of the
older one stand before the other. One trouble of each kind covers each fault on its own and
in each order with the others. Symmetry is used where no constant tells the processes
apart, never with liveness.

`live_runner` has two runners, which start and cancel next to each other, and two trips, so that a
halt follows a resume; one order is enough to be late, swept, refused and filled. `halt_closes` has
a position at the start and two orders, so that two closes can rest. `sessions` has one session,
since sessions share only the pool, of one thread so that it fills: a third message queues behind a
build that was cancelled. `research` has two rows, a clock of two instants with a lease of one, so
that a lease can run out, two failures before a row is given up, and one trouble: a death, a read
that raises, or a send that misleads. `swarm` has the smallest graph with a join; one of its
upstreams may change before the resume. In `ledger` four entries over two processes and two failures
let a torn line be met by the next append and by a rotation, and a late rest by both. In `billing`
three events begin, renew or give up, and end a subscription, or let an activation overtake a
renewal, and two deliveries are two of one event or of two.

Deadlock is not checked where the system rests: in the queue with every run closed, and in the
later modules with their bounds used up and nothing in flight.

### Fairness

`OrderGate!FairSpec` asks weak fairness of `Work(c)`: a thread that is in a submission keeps
executing, and its broker call returns or times out. It asks nothing of the user, the broker's
fills or the clock. `RunQueue!FairSpec` asks weak fairness of `Step(w)`, which the deadline of
`_supervise`, the poll interval of `run_forever` and the restart policy of `railway.toml`
justify, and of `GoStale(r)`, the passing of time. Nothing is asked of heartbeats, of
new runs or of the troubles, which are finite.

`SessionService!FairSpec`: the loop runs what is ready, and a free thread takes a job. It does not
say that a build, an agent or a title ends: the first two have no deadline. `ClaimsEnd` therefore has
its hypothesis in the formula, and `CancelFreesSession` has none.
`SwarmRuntime!FairSpec`: a thread goes on and its workers have deadlines; every run is read
again and again, as by the event stream of its page (strong fairness of `Load`).
`AuditLedger!FairSpec`: a call that has begun goes on and a free lock is granted.
`Billing!FairSpec`: a handler goes on, and a provider sends what it has no answer for again.
`LiveRunner` and `ScheduledResearch` have safety properties only.

## 4. Proofs

Proved for every value of the constants under the named assumptions of the modules.

`OrderGateProofs` rests on `GateAssumption` (types of the constants, special values
distinct), `CapAssumption` for the refinement, and that the callers are a finite set where a
cardinality needs it; each theorem names what it uses.

- `TypeCorrect`, `Exclusive`: the lock is held by whoever is in its critical section.
- `HaltStops`: whoever is past the check of a sentinel that exists is in `late`.
- `Invariant`, the strengthening `GateInv` with `CountInv`: the counter, when stamped today, plus the
  caller that has placed and not counted, plus `Slack`, the lost counts and a whole limit for each
  time the counter failed open, cover the orders the broker took today; the counter exceeds those by
  no more than the refused orders it has counted and the one carried over midnight; and an admitted
  caller still has `Room`, since it holds the lock. The daily limit alone is not inductive: it says
  nothing of a caller between the check and the broker.
- `DailyCapHolds`, `CarriedHolds` and `Refinement` follow from it: every step of the gate is a
  step of `OrderBudget` or leaves its variables alone.
- `ExposureHolds`, under `Locked` (orders that fill at once, no cancels or closes, as in
  `gate_action`; callers on both paths): from `CapInv`, whoever has read the positions under the lock
  still has the book before it. Each part of `Locked` is needed: a resting order fills past every
  check, and a close changes the book without the lock. The order path reads before the lock; the
  property speaks of the action path, and `StaleReadsCost` of both.

`RunQueueProofs` rests on `QueueAssumption`, and three of its theorems on `DistinctIds` (each
process has its own `WORKER_ID`), without which they do not hold.

- `TypeCorrect`, with `Loaded`: a busy process has a run of `Runs` in hand.
- `ClosedHolds`: a closed row is not claimable and no update finds it.
- `RefundHolds`: the counter of refunds follows the flag of the row.
- `Claims`, the strengthening for the two below: a row that runs under the ID of a process
  that has the run in hand was claimed by it last, and what is persisted carries the last claim.
- `ArtifactsHold` and `CloserHolds`.
- `LifeRefinement`: every step of the queue is a step of `RunLife` or leaves its variables alone.
  A close needs that a row that runs was not refunded yet (`RefundFollowsClose`), a store that no
  claim came after the close (`ClaimInv`), an answer that its number is one of a claim (`Counted`).

Two more count, for which `QueueAssumption` says that the workers are a finite set.

- `DuplicatesHold`: the property adds up all that executes a run, the processes that have it in hand
  and the engines that were left behind. From `Paid`, the former are at most one more than the missed
  heartbeats, and no more than those while the run can be claimed, so that a claim needs no
  trouble of its own; from `OrphansPaid`, the latter are no more than the kills and the calls
  that raised, whose process ends without its engine.
- `AnswersHold`, from `Counted`: the claims of a run beyond its first are covered by the troubles,
  with one to spare while the run is open, each process knows the number of its
  claim, and an answer is numbered by one. It needs no `DistinctIds`.

`SessionProofs` rests on `SessionAssumption`.

- `Invariant`, the strengthening `IInv`: an attempt in progress holds the claim of its session
  and is its task (`Claims`), the loop on record is that of the attempt with its agent (`Loops`),
  what is stored fits where the coroutine is (`Fits`), and an accepted cancel is pending in the task
  or the loop until it is honoured (`Pending`). `OneRunPerSession` alone is not inductive: it needs
  that the claim outlives the run.
- `TypeCorrect`, `OneRun`, `Stranded`, `CancelHolds`, `RunningHolds`.

`LiveRunnerProofs` rests on `RunnerAssumption`.

- `Invariant`: what a sweep has read and not yet gone through, together with the late turns and orders
  and the cancels that failed, covers all that rests since the trip but closes; what is left of a
  sweep was never cancelled by its runner, whose latch is set for good; and at most one close rests,
  which the next sweep has in hand before it reads the positions (`Closing`).
- `TypeCorrect`, `SweepHolds`, `ClosesHold`, `CancelOnceHolds`, `TurnsHold`.

`ResearchProofs` rests on `ResearchAssumption`.

- `TypeCorrect`, with `Flow`: a copy in a sweep is of a session and not yet sent, what is being sent
  was claimed and its session completed, the row whose dispatch is awaited owes nothing.
  `SentHolds` follows.
- `SentOnceHolds`, from `OneJob` (the rows, copies and sends of a session are of one job, and of none
  before its dispatch) and `Once` (unless it may be repeated, one sweep sends it, never after it was
  delivered, and no row owes it meanwhile). `SentOnceUnlessRepeated` speaks of the deliveries alone
  and is not inductive; the copies the two sweeps hold are why the job must be known.

`SwarmProofs` rests on `SwarmAssumption`; the task graph is any, cyclic ones included.

- `TypeCorrect`, with `Placed`: a reader that is not at rest has a run.
- `CompletedHolds`, from `Made` and `Read`: what a thread counts as done, as long as none has failed,
  the upstreams of what it works on, every task that is completed in the files or in what a
  reader is to write back, have been made. The status in `run.json` says nothing of a thread
  still at work, so that `CompletedHasAll` is not inductive.
- `AgreeHolds`, from `Agrees` and, while the host does not sleep, `Steady` and `Sees`: only the log of a
  dead thread is silent, so that a reader writes to the run of a live one only when all tasks are
  over, and then what is there; no worker makes what had been made.
- `KeptHolds`, from `Stands` and `Finds`: what a thread has seen when it cancels, and what a reader is
  to write back, has every result as completed.

`AuditProofs` rests on `LedgerAssumption`.

- `TypeCorrect`, with `Placed`: a call past its open has a file, every file but the active one is
  sealed, and a rotation under way has a file to rename.
- `RecordsStay`, the strengthening `Kept`: every entry that was returned is in `audit.jsonl`, every
  one that was answered in some file of the chain, or the line it was on was torn, and no close is
  about to complete that line (`Holds`); what a failed write found is still at the head of its file,
  with the cut record behind it if nobody wrote since (`Resting`); and every file is active or
  sealed. `LossHolds` and `AnsweredHolds` follow, the second because a history that verifies has no
  torn line.
- The history is the concatenation of any number of files. What `FlattenSeq` returns is
  shown by induction over the set of the lengths for which it holds (`NumberInduction`, from
  `LeastNumber`), since no theorem with an operator for a parameter can be used.
- `OneLine`, the strengthening `Arranged` while no rotation has met an append: at most one file is
  sealed, and linked; the active one is linked to it but for its last `strays + 1` lines; only calls
  on the active file are open; whoever is admitted has found it linked but for `strays` lines at
  most, and so has whoever closes a failed write that nobody has written behind. Admission verifies
  the whole file, an append adds one line that may not be linked, and a late rest that meets the
  append of another is counted in `strays`. `ChainSound` alone is not inductive: it says nothing of
  what an admitted call or a late close will write. That a second rotation is refused, as section 3
  says, is what bounds the archive.
- `ChainHolds` and `KeptHolds`: the history is then the sealed lines followed by the active ones
  (`HistoryLaid`), and each step appends to it, completes or tears a last line that was not ended, or
  leaves it.

`BillingProofs` rests on `BillingAssumption`.

- `TypeCorrect`, and `Grammar`: which events a log can have, at most one creation, one notice of a
  subscription given up and one end, which is last, so that no two events share a key.
- `ExactlyOnceHolds`, from `Once`: a key is recorded by one delivery, which alone writes; an event
  whose key is recorded has been written, is about to be, or was struck.
- `RowFollows`, that is `ServedIffRenewed`, from `Honest` (what the code makes of an event is served
  exactly when the status the provider tells in it is one of a subscription it will renew) and
  `RowShows` (the row is what the last write made it).

## 5. Only model-checked

`SubmissionAnswered`, `RunsClose`, `CancelFreesSession`, `ClaimsEnd`, `RunsEnd`, `CallsEnd` and
`EventsAcked` are liveness properties. Of the safety and action properties two are not proved yet:
`StaleReadsCost` and `NotFiredWhileOwed`. The others are, four of them under a named hypothesis:
`ExposureCap` (`Locked`), `ArtifactsMatchClose`, `CloserIsLastClaimer` and `ImplementsRunLife`
(`DistinctIds`).

## 6. Not modelled

The gate: pricing and currency conversion, the instrument allow-list. Paper trading does not pass
the gate. The worker: the tail of the trace file, the health endpoint, the Realtime wake-up (a
worker may claim whenever it is idle, with or without one), the rate limit of `start_session_turn`.
The runner: the cadence of its ticks, the heartbeat file, which only a status page reads, the job
file, and several positions in one sweep. Sessions: messages and events, goals, the search index.
Scheduled research: cron grammar and time zones, a second process on the job file (the command line
is one, without a lock). Swarms: the workers' own loops, artifacts, grounding data. The ledger: file
sizes, the content of records, a second operator that rotates at once, the flush of a close that
fails half-way, and a crash of the host after an `fsync` that failed. Billing: the start of a
checkout, signatures, plans and periods, a Paystack subscription that is taken up again after its
notice, and `admin_override_plan`.

Hazards met in the code that no property covers: a retry of `start_session_turn` with its
idempotency key raises, and two calls may both pass its hourly limit (migration `2026_08_27`, lines
198-213); a death between the write of a mandate and the end of its proposal (`commit.py:436`); a
worker without its provider catalog fails every run as a user error (`main.py:242`); two trips of
one sentinel share a temporary file (`halt.py:99`); a `session.json` cut by a death is lost
(`store.py:244`); workers of a swarm given up at a deadline write on (`runtime.py:965`).

Backtests, factors and the quantitative library compute over real-valued market data. Tools,
providers and channels are I/O around it. The agent loop is a dialogue with a language model whose
state is its text. None of this has a state space that TLC can enumerate or a protocol to state,
and it is most of the code; the other components are listed with their reason in `PROJECT.json`.

## 7. Plan

Done: the gate, the queue, the runner, sessions, scheduled research, swarms, the ledger, billing.

1. `MandateConsent`: proposal, consent record and `mandate.json` with a crash between any two;
   abstract: a proposal is consumed once.
2. `SessionEvents`: the bounded replay buffer and a subscriber that reconnects; abstract: a
   prefix of the published sequence.
3. `RateLimit`: counting and inserting under the isolation level of the database.
4. `GoalStore`: status transitions and the budget of a goal.
5. Proofs of `StaleReadsCost` (how many orders of the others a snapshot can miss) and of
   `NotFiredWhileOwed`.
