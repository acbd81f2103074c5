# A verification project for DoYouTrade

DoYouTrade (`src/doyoutrade`) is a trading platform for Chinese A shares: a FastAPI
process in which trading tasks run cycles (market data, strategy, order intents,
risk, approval, execution), a scheduler fires the triggers of the tasks, people and
agents approve orders, and backtests run as background jobs. Everything happens in
one asyncio process on one database; the broker is behind a separate proxy. The
errors such a program makes are not in its formulas but between two `await`s: a
value read before and used after, a row written by two coroutines, a process that
dies between two commits, an answer of the broker that is lost. That is what the
modules here model.

Contents:

1. Inventory of the system
2. The modules and how they correspond to the code
3. What the runs check, with their bounds
4. Fairness
5. What is proved, and how
6. What the code does against its own words
7. What is not modelled, and the plan
8. How to run it

## 1. Inventory

One line per part says the state it keeps, what changes it, whom it talks to, what is
hard about it, and what correctness means.

**A. Order approval and resumed dispatch** (`execution/approval.py`,
`persistence/repositories.py`, `runtime/trigger_scheduler.py`, `core/worker.py`,
`platform/service.py`). State: the table `approvals`; in memory the cycle lock of each
task. Operations: the gate lets a small order through or inserts a pending row; people
approve or reject it on the web page or a chat card; the expiry sweep expires it; the
resume sweep submits what was approved, stamps it, or counts a failed attempt and drops
it after `_MAX_RESUME_ATTEMPTS`. Hard: three parties decide one row; the broker's answer
can be lost after the broker took the order; the fill or the stamp may fail to be
written; the process dies anywhere. Correct: an order reaches the broker only if it was
let through or approved, no more often than lost answers and lost writes explain, and
every approved order ends with a fill or a spent budget.

**B. Triggers of a task** (`runtime/trigger_scheduler.py`, `runtime/triggers.py`,
`api/app.py`, `platform/service.py: run_trigger, tick_once, _execute_instance_cycle`).
State: `task_triggers` (status, enabled, next and last fire time); the worker's
`run_mode`. Operations: the scan lists what is schedulable and handles one trigger after
the other, each fire being a whole cycle; people run, pause, resume, edit and delete
triggers and tick the task. Hard: the scan works on a snapshot; a fire overrides the
worker's mode and restores it later; `update_task` replaces the worker meanwhile;
records of fires get lost. Correct: no fire too many without a cause, none missing for
ever, a `signal_only` trigger never trades.

**C. Backtest jobs** (`platform/service.py: *_backtest_job*`, `runs` table). State: the
row (status, `stop_requested`, `bars_completed`, ledger checkpoint), the body task, the
pause flag and the pause waiter. Operations: start, pause, resume, stop, the body's bars,
shutdown, restore. Hard: each call reads the row and acts some awaits later, while the
body goes on; progress and ledger are two commits. Correct: every bar once, a stop or a
pause takes effect at the next bar, a stop ends the job, a restart goes on where it was.

**D. Task runtime and kill switch** (`platform/service.py: create_task, start_task,
pause_task, stop_task, update_task, delete_task, set_kill_switch, restore_tasks,
tick_once`, `runtime/scheduler.py`). State: the `tasks` table, the instances in memory
with their worker and cycle lock, the switch. Operations: each call changes memory and
row in two steps, in an order of its own, and calls overlap. Hard: two copies of each
status, a switch that stops a list it read earlier, a worker that is replaced under its
users. Correct: what runs in memory runs by its row, the switch stops whatever no start got
past, the worker has the settings of its row.

**E. Worker cycle** (`core/worker.py`). State: the worker's `run_mode`, its account (a
ledger in memory, or the broker's), the peak of its drawdown limit; the table of fills.
Operations: read account and positions, settle, size the orders of the signals, halt
purchases in a drawdown, submit and record one fill after the other. Hard: the records of
fills outlive the ledger they moved; a fill may be applied and not recorded; a worker is
rebuilt at any time. Correct: records and ledger agree, limits hold over a whole cycle.
Its approval and its submission to a broker are in A.

**F. Positions, settlement, protection, lot sizes, fees** (`execution/`,
`data/mock_provider.py`). The rules E applies: caps of a name, an order and the task, board
lots and the dead band, T+1 settlement on the first cycle of a day, fees, the drawdown
limit. Hard: one purse for all purchases of a cycle, several bars of one day. Correct:
what was bought today stays, purchases keep within cash and budget.

**G. Assistant: sessions, tool approvals, questions** (`assistant/service.py`,
`approvals.py`, `questions.py`, `repository.py`). State: the session's row (status,
remembered grants, the open question), the abort event, the brokers of approvals and of
questions, `config.yaml`. Operations: a message starts an attempt, a loop of model and
tool calls; a gated call waits for a person; a decision may be remembered; a stop is
raced against every call. Hard: attempts of one session share event, row and question;
answers race timers and stops; the config is read, merged and written. Correct: no gated
tool without consent, an accepted decision is the one obeyed, no request without a call
behind it, a stop is prompt, every attempt ends.

**H. Assistant cron and job watcher** (`assistant/cron_manager.py`, `job_watcher.py`).
State: the rows of jobs and of runs; in memory the entries of the scheduler (APScheduler)
and a semaphore for each job. Operations: create, update, pause, resume, delete, trigger; a
fire runs the job, and its end may delete or disable it. Hard: each of these changes the
row and the memory in steps of its own, with nothing that locks them. Correct: the
scheduler has what the row says, a pause holds, every run row is closed.

**I. Swarm orchestrator** (`swarm/`). State: the run and task rows, the same in memory,
the cancel event, the ephemeral agents. Operations: start, cancel, and a body that cuts
the task graph into layers and runs the workers of a layer side by side with retries.
Hard: a worker that raises ends the wait and not the others; cancellation is looked at in
four places. Correct: the order of the graph, one end, a true one, and nothing left
behind.

**J. Market data** (`data/`). The quote stream: clients and pins share one streaming task
for the union of their symbols; state is the registry, the connection and the task. Hard:
the task cancels itself when it drops a dead client; an account change rebuilds the
connection. Correct: the stream serves the union, and there is one. Market sync, cached
bars and the merging of covered ranges: planned.

**K. Monitoring daemon** (`monitoring/`). State: the index of the active rules, the dedup
gate (last judgement and last alert of each rule and symbol), the alert rows. Operations:
judge a frame, alert in four steps, reload, new day, restart. It runs inside J's streaming
task. Correct: alerts keep their cooldown, one alert for an episode, pins follow rules.

**L. Decision signals, knowledge graph, configuration, watchlist, accounts**: stored
objects with little control state.

**M. Broker proxy** (`qmt-proxy/`), language model providers, the updater and tray: other
processes and services. The models treat the broker as an external party.

**N. HTTP API, command line, front end, strategy SDK and compiler, schema, tests**:
surfaces and data. Endpoints that change modelled state are actions of the models.

Interactions: B fires cycles of E under the cycle lock of D; A's sweeps run in the same
loop as B's scan, after it, and take the same lock; the gate of A is called inside E; C
builds its own worker and its own ledger and shares with the rest only the process and
the database; K's observer is called by J's streaming task and its reloads pin symbols in J;
aclose and the restart end and restore B, C and D together.

## 2. Modules

| Module | Models | Extends |
|---|---|---|
| `OrderPromise` | what the approval queue promises of each order (abstract) | |
| `ApprovalStore` | the operations of the approvals repository on a table | |
| `ApprovalDispatch` | part A, with the cycles and the sweeps around the table | `ApprovalStore` |
| `ApprovalDispatchProofs` | the theorems about it | `ApprovalDispatch`, `TLAPS` |
| `MCApprovalDispatch` | its small instances | `ApprovalDispatch` |
| `TriggerFire`, `TriggerFireProofs`, `MCTriggerFire` | part B, the theorems about it, its instance | |
| `BacktestJob`, `BacktestJobProofs`, `MCBacktestJob` | part C, the theorems about it and about the worker that runs its bars, its instance | `WorkerCycles` (the proofs) |
| `TaskRuntime`, `TaskRuntimeProofs`, `MCTaskRuntime` | part D | |
| `Dag` | which task graphs are accepted and how they are cut into layers (functions) | |
| `SwarmPromise` | what a swarm run promises (abstract) | |
| `SwarmRun`, `SwarmRunProofs`, `MCSwarmRun` | part I; implements `SwarmPromise` | `Dag` |
| `AssistantRun`, `AssistantRunProofs`, `MCAssistantRun` | part G | |
| `CronJobs`, `CronJobsProofs`, `MCCronJobs` | the cron jobs of part H | |
| `MockLedger` | the ledger of part E: settlement, fills, fees (functions) | |
| `PositionManager` | the sizing of part F (functions) | `MockLedger` |
| `WorkerPromise` | what a worker promises of its account, orders and records (the properties, on the part of its state they need) | `PositionManager` |
| `WorkerCycles`, `MCWorkerCycles` | the cycles of part E; its theorems are in `BacktestJobProofs` | `WorkerPromise` |
| `QuoteStream` | the quote stream of part J | |
| `MonitorDaemon`, `MonitorDaemonProofs`, `MCMonitorDaemon` | part K together with the stream it runs in | `QuoteStream` |

A step of a model is the code between two awaits at which other coroutines can run and
change what the model keeps. A commit and the code after it up to the next await is one
step. Where the code reads a row, awaits, and acts on what it read, the read is a step
and what was read is kept in a variable. Before some definitions stand forms with a bug
(`OutcomeLate`, `StopUnseen`, `SpentCash`, ...): the properties are tried against these
too, so that it is known that they can fail.

### OrderPromise, ApprovalStore, ApprovalDispatch

An order is *new*, then *auto* or *held*; a held order is *approved* or *refused*; an
approved order is *settled*. `OrderPromise` allows `Send` only for auto (once) and
approved orders. `ApprovalDispatch!KeepsPromise` is this specification under the mapping
`Stage`.

`ApprovalStore` has one operator per repository method, with the WHERE clause of its
statement as the guard: `CreatePending`, `Resolve`, `ExpirePending`, `Resumable`,
`MarkDispatched`, `CountAttempt`, `MarkDispatchFailed`.

`ApprovalDispatch` variables and the code: `row` the table; `lock` the `_cycle_lock` of
each task; `cycle` the run_cycle in flight, from the gate through submit and persist;
`waiting` the cycles admitted but not begun; `pc`, `queue`, `cur`, `verdict` the place of
the scheduler loop, the rows listed, the row in hand and what the broker said; `sent`,
`fills`, `misread`, `unmarked` history of what really happened. Actions: `Decide` and
`ManualExpire` (people), `CycleAdmit` .. `CycleRaise` (a cycle), `ScanDone`,
`SweepExpire`, `SweepList`, `ResumeNext`, `ResumeAcquire`, `ResumeSubmit`,
`ResumePersist`, `ResumeMark`, `ResumeFail`, `SweepDone` (the loop), `Crash`, `Restart`.
A fault is a lost answer, a failed write, a raised exception or a crash.

### TriggerFire

`row` is the table; `run[p]` is the call of `run_trigger` by the scheduler (`Sched`), by
hand (named after its trigger) or of `tick_once` (`Tick`), which goes through begin
(switch, status, base mode), session, lock, cycle; `scan` holds the snapshots not yet
handled; `mode` is the `run_mode` of the current worker, `built` the mode it was made
with, `config` the mode in the tasks table; `lastRunId` says whether the current worker
ever began a cycle, which is what `run_trigger` takes its answer from. History: `quiet`
(until when the scheduler owes no other fire), `extra` (fires before that), `excuse` (the
causes for one), `stale` (fires while people had the trigger switched off).

The switch has a middle value: the handler writes it first and stops tasks later.
`update_task` is two steps, `UpdateBegin` (the tasks table) and `UpdateSwap` (the new
worker), and a cycle in flight keeps the old worker's mode (`old`).

A cron expression is abstracted to the multiples of a period. An edit changes `enabled`
and recomputes the next fire time; edits that change the kind or the interval are left
out.

### BacktestJob

`row` is the `runs` table with the four fields that matter; `body[j].at` the place of
`_run_backtest_job_body`, with the loop index and the ledger in memory as the number of
bars whose trades it has; `pending`, `waiter` and `woken` the pause flag, the registered
event and the events that were set; `req` the calls in flight; `start` the call that
creates each job. `BodyRaises` is any exception of the body, `BodyCancelled` the
cancellation by `aclose`, `Exit` the end of `aclose`, `Crash` a death without it. History:
`lost` (bars stored as done whose ledger was not), `late` (bars that ended after a stop was
stored), `slip` (bars that ended on a paused row; a pause stored over another status begins
a new count, for a job that fails or is resumed while a pause is on its way may be paused
twice), `excused` (calls about one
job were in flight together, or a body died without storing that it failed).

What start_backtest_job checks besides the existing run (the switch, the status of the
task, the range, the data) is one free choice to go on or not. The statuses are written
by `mark_*` and `finalize_*` without a look at the old status, and so they are here.

### TaskRuntime

`row`, `conf`, `kill` are the database, `mem`, `built`, `lock` the instances: status, the
version of the settings their worker was built from, the cycle lock. `call` holds the calls
in flight with the place each is at and what it read: `create` inserts, then registers;
`start` reads the row, then the switch, then sets or builds the instance, then writes the
row; `pause` and `stop` without the switch; `delete` drops the instance, then the row
(`bulk` refuses running rows first); `settings` and `mode` are `update_task` with and
without a rebuild; `killOn` writes the switch, lists the running rows and stops one after
the other; `tick` takes a snapshot of the running instances and goes through session,
lock and cycle; `resume` is an approved order. A `Restart` loads what the rows say.
History: `split` (two calls changed a task in one another's middle, or a write failed),
`raced` (a start came in another call's middle, or could not write), `excused` (a start got
past the switch, a call failed, a restart), `dated` (the worker was built from settings that
had been replaced when it was registered, or was not built although the settings changed).
Two calls that overlap excuse nothing by that alone.

### Dag, SwarmPromise, SwarmRun

`Dag!Layers` is Kahn's algorithm round by round as the code runs it, `Valid` what
`validate_dag` accepts. `SwarmRun`: `row`, `rows`, `report` are the tables, `task` the
statuses in memory, `body` the place of `_execute_run`, `layer`, `todo`, `good`, `final`
its variables, `worker[t]` the attempt of a task, `agents` the ephemeral agents stored,
`known` and `cancel` the cancel event. Actions: `Start`, `Rejects`, `Cancel`; the body's
`NextLayer`, `CancelsTask`, `Blocks`, `Dispatches`, `Gathered`, `AppliesResult`,
`SavesProgress`, `Finishes`, `WritesFinal`, `Pops`; the workers' `WorkerStarts`,
`NoSuchAgent`, `WorkerTries`, `WorkerCreates`, `WorkerAnswers`; `Dies`. In `SwarmPromise` a
task is begun only after what it depends on, a result is final, and a run ends once.

### AssistantRun

`config`, `status` are the session's row, `persist` the prefixes in `config.yaml`, `stop`
the abort event, `run[a]` an attempt: where it is, its tool call, the future of its
request, what it read. `pending` and `holder` are the brokers. A tool call goes through
`gate`, `announce` (the event and the card), `wait`, `decided`, `remember`, `run`, and a
question through `ask`, `publish`, `asked`, `answer`, `clear`; `_await_with_abort` is the
flag `woken` and the actions `ModelStopped` and `StopsTool`. `late` is a timer that fired
before its task ran. History: `said` (the decision the broker accepted), `granted`,
`heard` and `begun` (a stop asked for, calls begun since), `missed` (the remembered grants
that the lists an attempt has read do not show), `leaked`. `plan` never changes: it says
which commands an attempt may ask for and how many calls it may make, so that one run has
both two attempts of one call and one attempt of two.

### QuoteStream, MonitorDaemon

`QuoteStream`: `account` is what the resolver says, `conn` the connection, `joined`,
`wants`, `dead`, `monitored` the registry, `subscribed` and `task` the fields of the
service, `streams[n]` each streaming task, `lock` who holds the lock. A registry operation
takes the lock and changes the registry, `Rebuild` is `_rebuild_stream_task_locked` with
the connection in front. `Cancelled` says what a cancellation does to the task that asks
for it. `MonitorDaemon` adds the clock, the market's answer `cond` for each rule and
symbol, the rules, the gate (`edge`, `last`), the alert rows and `fire[n]`, the judging of a
frame in a streaming task: `Observe`, `FireInsert`, `FirePush`, `FireRecord`, `FireMark`.
`RebuildCuts` is a rebuild that cancels the task with the alert in it. History: `slack[k]`
counts the causes for an alert within its cooldown less such alerts, `room[k]` the same
for a second alert of one episode.

### CronJobs

`row` is the job, `entry` what the scheduler has for it, `sem` its semaphore with the runs
that hold it, `run[r]` a fire (by the scheduler or by hand), `log[r]` its run row, `call[c]`
a call with the row it read. `Create`, `Update`, `Pause`, `Resume`, `Delete` are the parts
of the calls before the first write, `...Write` and `...Register` what follows; `Fire` is
the scheduler's, then `Enter` or `Skip`, `CheckOff`, `CheckClosed` or `Check`, `Work`, and
the cleanup `Keep`, or `Clean` and `Drop`. The clock counts minutes. APScheduler is modelled
from how the manager uses it: one entry for a job, a late fire within the grace, none while
another scheduled one runs. History: `behind` (the calls under way when somebody else wrote
the row), `stale` (what is registered came from such a call and is not what the row says, or
half of a call failed; the next registration ends it), `paused`. An overlap excuses nothing
by itself.

### MockLedger, PositionManager, WorkerPromise, WorkerCycles

`MockLedger` has an operator per method of the ledger (`Settled`, `Bought`, `Sold`,
`Filled`, `Equity`), `PositionManager` sizes the signals of a cycle (`Shares`,
`Rebalance`, `Reduces`) and folds them over the universe with the purse that is left
(`Size`, `Intents`, `Spent`). `WorkerPromise` declares the part of a worker's state its
properties are about, and states them; `WorkerCycles` adds the rest of the state and the
steps. `Cycle` is `run_cycle` up to the first order, with any signals; `CutShort` a
cycle whose signals fail or that only reports; `Submit` one order through ledger and
record, `RecordFails` the same without its record, `CycleEnds`; `Progress` and
`Checkpoint` are the two writes of a backtest, `Dropped` and `Rebuild` the end of a
worker and its successor. Prices come from one of the price histories in `Markets`. A
paper ledger is never marked, so that its equity counts positions at cost (`Worth`).
History: `fees` and `bought` in the ledger, `top`.

## 3. Runs

Every run ends with `CHECK_DEADLOCK FALSE`: the bounds on time, calls and faults stop the
models in states where the real system would go on.

| Run | Checks | Bounds |
|---|---|---|
| `approval_faults` | `SentOncePerLoss`, `BudgetBoundsSends`, `SettledIsAccounted`, `OneDispatcherPerTask`, `KeepsPromise`; `PendingIsDecided`, `ApprovedIsSettled` under fairness | one task, two intents (one held, one let through), time 2, 2 cycles, 2 faults, budget 2 |
| `trigger_fires` | `ExtraFireIsExplained`, `SwitchedOffFiresOnce`, `SignalOnlyNeverTrades`; `DueTriggerIsServed` under fairness | a cron trigger and a one-shot deleted after its run, two modes, time 1, one rebuild of the worker, 1 call, 1 fault |
| `backtest_jobs` | `LedgerAccounted`, `CompletedIsComplete`, `StopIsPrompt`, `PauseIsPrompt`; `StopEnds` under fairness | one job of two bars, two callers, 3 calls, 2 faults |
| `task_runtime` | `RunningIsStored`, `KillStopsTheRest`, `WorkerIsCurrent` | two tasks, two calls at once, 4 in all, 1 fault or restart |
| `swarm_run` | `EndIsTrue`, `NothingLeftBehind`, `KeepsPromise`; `RunEnds` under fairness | three tasks in eight presets (join, fork, chain, one beside a chain, no edge, a cycle, a missing agent, a shared agent), 2 workers at once, 1 retry, 2 faults |
| `assistant_run` | `ConsentFirst`, `AnswerStands`, `OpenIsAwaited`, `StopIsPrompt`, `GrantsKept`; `AttemptsEnd` under fairness | two attempts of one call each, or one of two calls (`ThePlans`); a rule that can be remembered, a one-time rule and a question, two prefixes, 1 fault or restart |
| `cron_jobs` | `EnabledIsScheduled`, `PauseHolds`; `RunsAreClosed` under fairness | a reminder that deletes itself, one that is kept or a recurring job; its creation and 2 more calls, 2 runs, time 2, 1 fault or restart |
| `worker_cycles` | `T1Holds`, `BuysWithinLimits`, `HaltHolds`, `FillsReachLedger` | two symbols, four cycles on two days, two price histories, six signals for each symbol, a flat and a listed opening, 1 fault or death |
| `monitor_alerts` | `StreamServesUnion`, `PinsFollowRules`, `AlertsSpaced`, `EpisodeAlertsOnce` | cooldown and time 2, 1 fault or crash; either one rule with 3 of: two edits, a new day, an account change, a client on another symbol, the fault; or two rules on one symbol with a new day and the fault (`Combined`) |

The three runs that find a disagreement are in section 6.

Why the bounds are enough. Two orders of one task show the sweep going from one row to the
next and a cycle competing with it; the budget of 2 (5 in the code) is spent by two
faults, and the theorems hold for every budget. Time 2 with a timeout and a period of 1
lets a row expire before, at and after a decision; a trigger waits at time 0 and is due at
1, and a run by hand, an edit or a new worker comes before, between listing and fire, or
after. Two calls of people are what a race needs; the third call of `backtest_jobs` is the
resume or stop after a pause that raced with something; of the four of `task_runtime` one
creates the task, two race, and the last finds what they left behind. Two bars make a
first, a last and a boundary between them. Two faults allow a fault during the recovery
from one. Three tasks are what a layer that is wide, one that waits for two and one that
is blocked need. A second attempt is the one whose stop, question or grant is taken away;
the second call of an attempt is the one that must not begin after a stop. In
`monitor_alerts` two edits put two reloads, and the pins of two, in flight at once, one
rule and cooldown 2 let an alert come too early by each of its causes, and the second rule
is judged with a quote taken before the first one's alert was stored and pushed. The
constraint `Combined` bounds how many of these meet in one behaviour: all of them together
is beyond what a run can enumerate, and the theorems hold without it. The calls of
`task_runtime` are symmetric (they differ in nothing but their names); its tasks are not,
for a tick takes them in the order of their ids. In `cron_jobs` two calls besides the
creation are what an overlap needs, the restart or the fire after them finds what they
left, and two runs are one that holds the semaphore and another that meets it. In
`worker_cycles` four cycles on two days are two bars of a day and the boundary between
days, and a peak, a fall and a recovery; two symbols share one purse, and the price
histories go up and down far enough for the drawdown limit, the budget and the caps to
bite.

## 4. Fairness

`FairSpec` of each module asks weak fairness of the steps that asyncio schedules anyway:
the scheduler loop, a cycle or call in flight, a body, a worker of a swarm, an attempt of
the assistant, a run of a cron job, and the clock. (What APScheduler does, to start a due
job and to end its function, is an assumption about it.) `WorkerCycles`, `TaskRuntime` and
`MonitorDaemon` have no liveness property and ask for no fairness. A lock is an
`asyncio.Lock`, which wakes its waiters in order, and every holder releases it, so weak
fairness per step is enough. A process that is down is started again (systemd, the tray
icon or a person). A message to a model or a worker has a timeout and so comes to an end,
as do the waits for people, whose timers fire. Nothing is asked of people: nobody has to
approve, resume or stop, and of faults only that they are finitely many, by the bound.
`ApprovedIsSettled` and `DueTriggerIsServed` have as premise that the task stays running.

## 5. Proofs

Eight modules hold theorems about the specifications they extend, and
`BacktestJobProofs` also about `WorkerCycles`, which it instantiates as `Worker` on the
state of `WorkerPromise`. They hold for every value of the constants that the `ASSUME`
of the specification admits: any numbers of tasks, orders, jobs, triggers, calls in
flight, attempts, workers, rules and clients, any budgets, timeouts, markets, signals
and bounds, and any number of faults. In each of them the properties follow from `Spec
=> []IInv` (the theorem `Inductive` or `Invariant`; `WorkerInvariant` for the worker):
`IInv` holds at first, and every step keeps it. The properties are not inductive by
themselves, and what each part of `IInv` adds is said below. `TypeOK` is proved of all
nine specifications (`TypeCorrect`, `WorkerInvariant`); no run repeats it. Every safety
property that a passing run checks is a theorem.

How the proofs are laid out: first lemmas that say what a step does to each table (an
update of a record, who touches which variable), then for each part of the invariant a
lemma with one step per action or group of actions, then the theorems. The two refinements
are step simulations: from `IInv` and `IInv'` a step of the detailed specification is a step
of the abstract one or leaves its mapped state as it was.

The assumptions are about the names (no task is called `None`), about the shape of the
inputs (an answer that persists a prefix has one; the rules of the daemon are a
sequence), and about what is finite: `Tasks` of a swarm, because the rounds of the
layering are counted, and the clients and tasks of the quote stream, because they are
counted against one another; and the symbols of a worker, whose holdings are summed.
`Cardinality(Streams) > MaxSockets` says that the model does not run out of names for
streaming tasks, as asyncio does not. Of a worker it is assumed that its strategy asks
for one thing per symbol, that an exit is of at most the whole position (the constructor
of a signal raises otherwise, `strategy_sdk/signal.py:87`), and that an opening has not
settled yet and states no more available than is held (the settings state none,
`data/factory.py:227`). The theorems about `Worker` name these assumptions
(`WorkerConstants`), since an instance does not carry them; TLC evaluates them in the
run.

### ApprovalDispatchProofs

| Theorem | Says |
|---|---|
| `SendsAreExplained` | `SentOncePerLoss`: an order reaches the broker once, and once more only for a lost answer or a lost stamp |
| `SendsAreBounded` | `BudgetBoundsSends`: the attempts budget bounds it too, crashes aside |
| `NothingIsDropped` | `SettledIsAccounted`: an order that counts as done has a fill or a spent budget |
| `WorkerIsExclusive` | `OneDispatcherPerTask`: a resumed order and a cycle never share a worker |
| `PromiseKept` | `KeepsPromise`: the model implements `OrderPromise` |

- `SnapshotInv`: a row of the listed snapshot is still as it was listed as far as the sweep
  can tell, so the attempts count on which the drop is decided is the row's own. Without it
  `BudgetBoundsSends` fails at the verdict.
- `LoopInv`: the place of the loop agrees with the row in hand and with what the broker
  said; without it a stamp could follow a refusal.
- `FireInv`: at most one cycle was asked for by the loop and the loop waits for it, so no
  sweep runs beside it.
- `LockInv`: a lock's holder is the cycle or the loop at a place that holds it.
- `CycleInv`: an intent in a cycle's hands was let through and was not sent before.
- `IntentInv`: the account of each order, what was sent against what was filled, misread,
  unmarked or counted as an attempt.

### TriggerFireProofs

| Theorem | Says |
|---|---|
| `FiresAreExplained` | `ExtraFireIsExplained`: a one-shot fires once and a recurring trigger keeps its distance, but for the causes counted |
| `OffFiresOnce` | `SwitchedOffFiresOnce`: a trigger that people switched off fires at most once more |
| `SignalsDoNotTrade` | `SignalOnlyNeverTrades`: no `signal_only` trigger runs in a mode that trades |
| `ModeIsPutBack` | `OverrideIsUndone`: while no worker is replaced, a fire's mode is gone when it gives the lock back |

The three first speak of counts and of a mode; what keeps them is spread over the row, the
snapshot the scan has read and the call in flight. `ExtraInv` names the places from which a
trigger may fire early (`RowEarly`, `ScanEarly`, `FireEarly`) and says that an excuse is
left as long as there is one: the fire uses the excuse up and closes the other places,
because its record will correct the row (`Corrected`) and there is one snapshot of each
trigger (`ScanInv`). `QuietInv` has the times that are compared, `StaleInv` says that who
was fired while off is in no snapshot, `ModeInv` who will put the mode back.

### BacktestJobProofs

| Theorem | Says |
|---|---|
| `LedgersAreAccounted` | `LedgerAccounted`: the stored ledger misses one bar per death between the two writes, and no other |
| `CompletedJobsAreComplete` | `CompletedIsComplete`: no job completes before all its bars ran |
| `StopsArePrompt` | `StopIsPrompt`: at most one bar ends after a stop is stored |
| `PausesArePrompt` | `PauseIsPrompt`: at most one bar ends while the row says paused |

`LoopInv` says at which place of the body the index is the row's `bars_completed` and where
it is one behind; without it neither the range of the index nor completeness is inductive.
`LedgerInv` carries the lost bars through the ledger in memory, which a restart loads from
the row. `StopInv` and `PauseInv` add that the bar under way began before the stop, and
that a body past its look at the row found it running. `CallInv` and `DownInv` (no body in
a process that is down) are what calls and restarts need. Calls of people touch no bar and
no ledger, so one lemma (`JobKept`) serves all of them.

The bars of a job are cycles of a worker. The second half of the module shows that its
specification, the instance `Worker` of `WorkerCycles`, keeps to `WorkerPromise`:

| Theorem | Says |
|---|---|
| `WorkerInvariant` | the invariant and `TypeOK` |
| `WorkerKeepsT1` | `T1Holds`: what a day bought is held until it ends |
| `WorkerBuysWithinLimits` | `BuysWithinLimits`: purchases are paid from cash, and keep within the task's budget |
| `WorkerHaltHolds` | `HaltHolds`: no purchase below the drawdown limit of any earlier cycle |
| `WorkerFillsReachLedger` | `FillsReachLedger`: records and holdings move together, but for the refused sale of a position with no stated availability, the order whose record failed and ended its cycle, and a worker that takes up another ledger |
| `IntentsAre` | the orders of a cycle: one for a symbol, sales of what is available, purchases that together fit cash and room |

`DaysInv` is what T+1 rests on: on the day of the last purchase the shares available and
the shares bought are together no more than those held, in the ledger and in the stored one
a new worker takes up; `PlaceInv` says for which bar that one stands. `OrdersInv` says that
each order left is the only one of its symbol and sells no more than is available, so that
the orders before it cannot make it fail. `BudgetInv` relates what the purchases left cost
together (`Bill`) to cash and fees, and to the caps with what is held: an order moves as
much from the bill to the holdings as it takes from the cash. `HaltInv` holds the peak
above the best of the finished cycles, and a drawdown from a higher peak is a deeper one
(`BreachedGrows`).

The sizing, the halt and the sums are folds. The library's folds are recursive functions by
`CHOOSE`: the lemmas `SumsExist`, `SizesExist` and `HaltsExist` show that a function with
that recursion exists, by the least number of elements for which it would not, and then
what it gives is shown for the first index at which it would fail (`SumSplits`,
`IntentsAre`, `AllowedAre`). So each is proved for any universe, not for a length TLC can
enumerate.

### TaskRuntimeProofs

| Theorem | Says |
|---|---|
| `RunningTasksAreStored` | `RunningIsStored`: what runs in memory runs by its row, but for a start on its way, one that came in another call's middle, and one that could not write |
| `RowsAndMemoryAgree` | `RowAndMemoryAgree`, which no run repeats: row and instance have the same status when no call is halfway, but for tasks that calls changed in one another's middle or whose write failed |
| `KillSwitchStops` | `KillStopsTheRest`: when the call that threw the switch has ended, nothing runs but what a named exception let through |
| `KillSwitchHolds` | `NothingBeginsUnderKill`: a start or tick asked for under the switch never gets past it |
| `CyclesExclude` | `OneCycleAtATime`: ticks and resumed orders of one task never share its worker |
| `WorkersAreCurrent` | `WorkerIsCurrent`: a loaded worker has the settings of its row or an update will build it anew from them, the named causes aside |

`PlaceInv` and `PastInv` say where a call of each kind can be and that its task was
created; `AgreeInv` what a call that is alone halfway has already done to row and memory;
`RunInv` that a task runs without its row only behind a start on its way, and that no
other call halfway through a task has left it running (each changes the instance before
the row); `KillInv` that every task that runs under the switch has somebody who will stop
it (`Stopping`), somebody who started it too late (`Starting`), or an excuse; `CurrentInv`
that behind a worker that is not of its row's settings there is an update that will build
it anew from just those (`Fixer`); `LockInv` who holds a cycle lock.

### SwarmRunProofs

| Theorem | Says |
|---|---|
| `LayersInOrder` | the layers of a valid finite graph are not empty, disjoint, hold every task, and each task comes after all it depends on |
| `EndsAreTrue` | `EndIsTrue`: the stored end of a run is true of its tasks |
| `NothingIsLeft` | `NothingLeftBehind`: after an end without a failed write there is no worker, task or agent left |
| `WorkersStayBounded` | `WorkersBounded`: the semaphore holds also past a gather that gave up |
| `PromiseKept` | `KeepsPromise`: the model implements `SwarmPromise` |

`LayersInOrder` is about the function `Rounds` of `Dag`: after `k` rounds the in-degree of
a task is the number of its dependencies not yet cut, and `k` tasks are cut or nothing is
queued. The recursion over the rounds is unfolded by least counterexamples. In `IInv`,
`LayerInv` and `TaskInv` say what a task is before, in and after its layer. A worker that
gather gave up on goes on while the body ends the run, so `WorkerInv` says nothing of
where the body is; `EndInv` makes the end clean only if no write failed, which is the only
way out of a layer with workers left.

### AssistantRunProofs

| Theorem | Says |
|---|---|
| `RunsWithConsent` | `ConsentFirst`: no gated tool runs, and no decision is remembered, without a consent that covers it |
| `DecisionsStand` | `AnswerStands`: the decision the broker accepted is the one obeyed |
| `RequestsAreAwaited` | `OpenIsAwaited`: a listed request has a call behind it, but for attempts that ended in the announcement |
| `StopsArePrompt` | `StopIsPrompt`: after a stop that nothing undid at most the call already chosen begins |
| `GrantsStay` | `GrantsKept`: a grant is written over only by an attempt that could not know it (an action property) |

`SaidInv` follows a decision from the broker to the call at each place of the gate;
`GrantInv` keeps every list that was read or merged within what was granted; `BrokerInv`
says who can still be reached; `StopInv` what may still begin; `MissedInv` that what the
session remembers and the copy of an attempt does not show is among what it has `missed`,
from which `GrantsStay` follows; `CountInv` what the record of an attempt has at each
place.

### CronJobsProofs

| Theorem | Says |
|---|---|
| `EnabledStayScheduled` | `EnabledIsScheduled`: between two changes the scheduler has an enabled job with the schedule of its row, however calls and cleanups overlapped, but for a call that was overtaken or failed halfway |
| `PausesHold` | `PauseHolds`: after a pause no run starts to work until somebody resumes or enables the job (an action property) |

`EntryInv`: where row and scheduler disagree, somebody is under way who will settle it: an
update where the entry is a wrong one (`WrongInv`), a call that registers, takes out or turns
off where there is none (`MissingInv`).
`StageInv` says what the row is to a call that nobody overtook, at each place it may be at.
`PauseInv`: whoever may still write the row has read it when it was off. `FirstInv`: a job
is created before anything else happens to it.

### MonitorDaemonProofs

| Theorem | Says |
|---|---|
| `StreamsServe` | `StreamServesUnion`: the tracked task streams what is wanted, and no more tasks go on beside it than sockets died |
| `RulesArePinned` | `PinsFollowRules`: once every reload is through, the active rules are indexed and pinned |
| `AlertsKeepDistance` | `AlertsSpaced`: alerts of a key are a cooldown apart, but for those with a cause of their own |
| `EpisodesAlertOnce` | `EpisodeAlertsOnce`: while a condition stays true it alerts once |

`StreamInv` is an account of tasks and sockets: a registration is paid by one socket, and
each task that goes on beside the tracked one has a dead socket of its own, because only a
task that drops a dead client cannot cancel itself. The spacing of alerts is a debt: `Owes`
counts the alerts of a key that may still come too soon (judged and not pushed yet, and one
that nothing in memory knows of), and `SlackInv` says that the causes met so far pay for
it. `RoomInv` does the same for one episode; `PinInv`, `FireInv` and `StartInv` say what the
index, a frame in hand and an empty gate are.

### Only model-checked

- The liveness properties (`PendingIsDecided`, `ApprovedIsSettled`, `DueTriggerIsServed`,
  `StopEnds`, `RunEnds`, `AttemptsEnd`, `RunsAreClosed`): they need fairness and ENABLED,
  which the prover does not treat.
- What the three runs of section 6 refute.

## 6. What the code does against its own words

Each of these runs checks one sentence of the repository, and TLC answers with an
execution that breaks it.

| Run | Sentence | What happens |
|---|---|---|
| `approval_resubmit` | `mark_dispatched`: an approved order is not submitted again | A lost answer or a lost stamp makes the next sweep submit it again. `SentOncePerLoss` bounds it. |
| `quote_refresh` | changing the account at runtime reconnects live quotes | `refresh()` builds the connection and leaves it without a streaming task until some client or rule changes. |
| `cron_overlap` | `max_concurrency` 1 means no overlap | An update registers the job with a new semaphore while a run holds the old one, and the next fire runs beside it. |

The quotes with their places are in `PROJECT.json`. The models allow more that the words
of the repository do not, and the properties name these as the causes they except:

- Approval: a row is approved after its deadline as long as no sweep expired it (`resolve`
  does not look at `expires_at`).
- Triggers: a trade trigger run by hand during a `signal_only` fire takes the override for
  the task's mode and does not trade; the end of a fire writes the mode of the worker it
  began with into one that `update_task` put there meanwhile; a one-shot whose cycle raised
  counts as fired; a run by hand writes back a next fire time read before its cycle.
- Backtests: a death between the commits of progress and ledger loses the trades of a bar
  (`lost`); a pause granted during the last bar is overwritten by completed; two start calls
  both pass the check for an existing run; a pause that registers its event after the last
  wake-up of the body waits for ever.
- Tasks: a start that read the kill switch before it was thrown ends with a running task
  under the switch (`excused`), and resumed orders do not look at the switch; an update of
  the mode alone leaves the worker in the old one, and a create, a start or another update
  that read the settings before the last update stored its own leaves a worker built from
  the older ones (`dated`); a start in the middle of a stop leaves a task that runs and
  whose row says stopped (`raced`).
- Swarm: an attempt stores its agent under the same id as the one before, so a retry fails
  before any message is sent, and so does a second task of the same agent.
- Assistant: an attempt that ends while its request is announced leaves the request open
  (`leaked`), and a decision on it is accepted by the broker and read by nobody; a message,
  or the end of another attempt, takes back a stop; a grant that a person gives while
  another attempt has read the lists is written over by it (`missed`).
- Quotes: the streaming task that drops a dead client cancels and awaits itself, which is
  swallowed, and goes on beside its successor, although the module speaks of one background
  task (the last conjunct of `StreamServesUnion` counts these).
- Cron: the cleanup after a run deletes a job that was rescheduled meanwhile, and a reminder
  that was run by hand before it was due; an `at` job registered again within the grace
  fires twice; an update or a resume that a pause or another update overtook writes back the
  row it had read, or registers the old schedule (`behind`, `stale`); `timeout_seconds` is
  stored and nowhere enforced.
- Worker: the peak of the drawdown limit is lost with the worker, and cycles that only
  report or whose signals fail do not raise it, although `protection.py:13` speaks of
  tracking it across cycles; the paper ledger begins anew with a new worker while the
  records of its fills stay; a fill whose record fails has moved the ledger, and the sale of
  a position whose availability is not stated is recorded although the ledger refuses it
  (the three exceptions of `FillsReachLedger`); paper equity counts positions at cost.

`StopEnds` is stated for a stop whose way to the end is not cut by something else: its
antecedent leaves out calls about the job that overlapped, a body that died without its
failure being stored, and a body past its last look at the request. In each of these the
code leaves the job as it is, and the property says so in its comment.

## 7. Not modelled, and the plan

In order:

1. `JobWatch` (part H) on top of `BacktestJob`: rows that watch jobs, events lost and
   repeated.
2. Merging of coverage ranges (part J) against a reference definition over bounded inputs.
3. One cycle lock shared by `TaskRuntime`, `TriggerFire` and `ApprovalDispatch`. Each has
   its own copy of it now: `TaskRuntime` shows who may hold it, the others what they do
   with it.

Left out of what is modelled: the signals a cycle
computes (they are any), a live account without a ledger of its own, markets that settle at
once, suspended symbols; calendar pins of a cron job and the text it runs; the chat
delivery of cards and results; edits of a trigger that change its kind; the numbers of a
backtest; sessions, channels and accounts of a task; texts, tokens and the event log of a
swarm; flows, compaction, streaming and channels of the assistant; the polling fallback of
the quote stream and the first snapshot of a client; trading hours, seals and suspensions
in the daemon, and that edits of a watchlist do not reload its rules (`monitoring/daemon.py:202`).

Out of reach or of little use here: numeric indicators, text in and out of language
models, rendering and routing, the desktop packaging, and the vendor's terminal behind the
broker proxy.

## 8. Running it

    tlc -workers 2 -config backtest_jobs.cfg MCBacktestJob.tla
    tlapm ApprovalDispatchProofs.tla

Each cfg names its MC module by its prefix: `approval_` for `MCApprovalDispatch`,
`trigger_` for `MCTriggerFire`, `backtest_` for `MCBacktestJob`, `task_` for
`MCTaskRuntime`, `swarm_` for `MCSwarmRun`, `assistant_` for `MCAssistantRun`, `cron_` for
`MCCronJobs`, `worker_` for `MCWorkerCycles`, `monitor_` and `quote_` for `MCMonitorDaemon`.
