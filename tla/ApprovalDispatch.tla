-------------------------- MODULE ApprovalDispatch --------------------------
(***************************************************************************)
(* From a strategy's order intent to the broker.  A worker cycle asks the  *)
(* approval gate about each intent; the gate lets it through or stores a   *)
(* pending row.  People approve or reject rows over HTTP or a chat card at *)
(* any time.  The scheduler's loop (TriggerScheduler._run) fires triggers, *)
(* expires stale rows and then hands every approved, undispatched row to   *)
(* the worker of its task, through the same submit path a cycle uses.      *)
(*                                                                         *)
(* Everything runs on one asyncio loop, so a step of this module is the    *)
(* code between two awaits.  The database survives a crash; the loop, the  *)
(* locks and the in-memory task statuses do not.  A fault is an awaited    *)
(* call that raises, an answer of the broker that is lost, or a crash; at  *)
(* most MaxFaults happen.                                                  *)
(***************************************************************************)
EXTENDS ApprovalStore

CONSTANTS
  Tasks,                \* the trading tasks
  TaskOf,               \* the task each intent is proposed by
  Notional, MinNotional,\* value of each intent, and the approval threshold
  Mode, ApprovalModes,  \* the worker's run_mode, and the modes that need approval
  Payload,              \* what the stored body of each intent decodes to
  MaxAttempts,          \* _MAX_RESUME_ATTEMPTS
  MaxTime, MaxCycles, MaxFaults, \* bounds of the model
  None

ASSUME ConstantsAssumption ==
  /\ TaskOf \in [Intents -> Tasks]
  /\ Notional \in [Intents -> Nat]
  /\ MinNotional \in Nat
  /\ Payload \in [Intents -> {"ok", "missing", "corrupt"}]
  /\ MaxAttempts \in Nat \ {0}
  /\ MaxTime \in Nat /\ MaxCycles \in Nat /\ MaxFaults \in Nat
  /\ None \notin Intents
  /\ None \notin [id : Intents, attempts : Nat]

VARIABLES
  row,        \* the approvals table
  fills,      \* trade_fills: rows written per intent
  now,        \* the clock
  up,         \* the server process is running
  taskStatus, \* in-memory CycleTask.status
  lock,       \* who holds the per-task cycle lock
  waiting,    \* cycles let in on a running task, on their way to its lock
  cycle,      \* the worker cycle in flight on each task
  pc,         \* where the scheduler loop is
  queue,      \* snapshots of the resume sweep not handled yet
  cur,        \* the snapshot being handled
  verdict,    \* what the broker did with cur's order in this attempt
  sent,       \* orders the broker accepted, per intent
  misread,    \* accepted orders the code took for a failure
  unmarked,   \* handled orders whose bookkeeping write was lost
  cycles, faults \* how many happened

dbVars    == <<row, fills>>
cycleVars == <<cycle, waiting, cycles>>
sweepVars == <<queue, cur, verdict>>
lossVars  == <<misread, unmarked>>
vars == <<dbVars, now, up, taskStatus, lock, cycleVars, pc, sweepVars,
          sent, lossVars, faults>>

TaskStatuses == {"running", "paused", "stopped", "error"}
Snapshots    == [id : Intents, attempts : Nat]
CycleStates  == [at : {"idle", "decide", "submit", "persist"},
                 by : {"none", "tick", "trigger"},
                 intent : Intents \cup {None}]
IdleCycle    == [at |-> "idle", by |-> "none", intent |-> None]

TypeOK ==
  /\ row \in [Intents -> Row]
  /\ fills \in [Intents -> Nat]
  /\ now \in Nat
  /\ up \in BOOLEAN
  /\ taskStatus \in [Tasks -> TaskStatuses]
  /\ lock \in [Tasks -> {"free", "cycle", "resume"}]
  /\ cycle \in [Tasks -> CycleStates]
  /\ waiting \subseteq Tasks \X {"tick", "trigger"}
  /\ pc \in {"scan", "fire", "expire", "list", "resume",
             "acquire", "submit", "persist", "mark", "fail"}
  /\ queue \in SUBSET Snapshots
  /\ cur \in Snapshots \cup {None}
  /\ verdict \in {"none", "accepted"}
  /\ sent \in [Intents -> Nat]
  /\ misread \in [Intents -> Nat]
  /\ unmarked \in [Intents -> Nat]
  /\ cycles \in Nat
  /\ faults \in Nat

Init ==
  /\ row = [i \in Intents |-> NoRow]
  /\ fills = [i \in Intents |-> 0]
  /\ now = 0
  /\ up = TRUE
  /\ taskStatus \in [Tasks -> {"running", "stopped"}]
  /\ lock = [t \in Tasks |-> "free"]
  /\ cycle = [t \in Tasks |-> IdleCycle]
  /\ waiting = {}
  /\ pc = "scan"
  /\ queue = {}
  /\ cur = None
  /\ verdict = "none"
  /\ sent = [i \in Intents |-> 0]
  /\ misread = [i \in Intents |-> 0]
  /\ unmarked = [i \in Intents |-> 0]
  /\ cycles = 0
  /\ faults = 0

NoFault == faults' = faults
Fault   == faults < MaxFaults /\ faults' = faults + 1

-----------------------------------------------------------------------------
(* The surroundings: the clock, people and operators.                      *)

ClockTick == /\ now < MaxTime
             /\ now' = now + 1
             /\ UNCHANGED <<dbVars, up, taskStatus, lock, cycleVars, pc,
                            sweepVars, sent, lossVars, faults>>

\* approve() and reject() of the gate, whatever the row's state is.
Decide(i, decision) ==
  /\ up
  /\ row[i].status \notin {"none", "auto"}
  /\ row' = Resolve(row, i, decision)
  /\ UNCHANGED <<fills, now, up, taskStatus, lock, cycleVars, pc, sweepVars,
                 sent, lossVars, faults>>

\* POST /system/tick ends with a sweep of its own for expired rows.
ManualExpire ==
  /\ up
  /\ row' = ExpirePending(row, now)
  /\ UNCHANGED <<fills, now, up, taskStatus, lock, cycleVars, pc, sweepVars,
                 sent, lossVars, faults>>

\* RuntimeScheduler.start / pause / stop, called by the task operations.
SetTaskStatus(t, status) ==
  /\ up
  /\ status \in {"running", "paused", "stopped"}
  /\ taskStatus' = [taskStatus EXCEPT ![t] = status]
  /\ UNCHANGED <<dbVars, now, up, lock, cycleVars, pc, sweepVars, sent,
                 lossVars, faults>>

-----------------------------------------------------------------------------
(* A worker cycle.  A manual tick runs beside the scheduler's loop; a      *)
(* trigger's cycle runs inside it, and the loop waits for its end.         *)

\* tick_once and run_trigger look at the task's status, and then await a new
\* session and the lock; nobody looks again.  The scheduler fires a trigger
\* only on a task whose lock is free at that moment.
CycleAdmit(t, by) ==
  /\ up
  /\ cycles < MaxCycles
  /\ taskStatus[t] = "running"
  /\ <<t, by>> \notin waiting
  /\ IF by = "trigger"
     THEN pc = "scan" /\ lock[t] = "free" /\ pc' = "fire"
     ELSE pc' = pc
  /\ waiting' = waiting \cup {<<t, by>>}
  /\ cycles' = cycles + 1
  /\ UNCHANGED <<dbVars, now, up, taskStatus, lock, cycle, sweepVars, sent,
                 lossVars, faults>>

CycleBegin(t, by) ==
  /\ <<t, by>> \in waiting
  /\ lock[t] = "free"
  /\ waiting' = waiting \ {<<t, by>>}
  /\ lock' = [lock EXCEPT ![t] = "cycle"]
  /\ cycle' = [cycle EXCEPT ![t] = [at |-> "decide", by |-> by, intent |-> None]]
  /\ UNCHANGED <<dbVars, now, up, taskStatus, cycles, pc, sweepVars, sent,
                 lossVars, faults>>

\* The cycle of task t goes on to a stage, with intent i in hand.
CycleTo(t, stage, i) ==
  cycle' = [cycle EXCEPT ![t] = [at |-> stage, by |-> cycle[t].by, intent |-> i]]

NeedsApproval(i) == /\ Mode \in ApprovalModes
                    /\ Notional[i] >= MinNotional

\* The cycle proposes intent i, which risk and protection let pass, and asks
\* the gate: the order is held in a pending row, or goes on to the adapter.
CycleRequest(t, i) ==
  /\ cycle[t].at = "decide"
  /\ TaskOf[i] = t
  /\ row[i].status = "none"
  /\ IF NeedsApproval(i)
     THEN /\ now + Timeout <= MaxTime \* bound: the clock reaches the deadline
          /\ row' = CreatePending(row, i, now)
          /\ cycle' = cycle
     ELSE /\ row' = [row EXCEPT ![i].status = "auto"]
          /\ CycleTo(t, "submit", i)
  /\ UNCHANGED <<fills, now, up, taskStatus, lock, waiting, cycles, pc, sweepVars,
                 sent, lossVars, faults>>

\* What the broker does with an order, and what the adapter makes of it.  The
\* proxy's errors and rejections all turn into None: a refusal and an accepted
\* order whose answer was lost look the same to the worker.
BrokerAccepts(i) == sent' = [sent EXCEPT ![i] = @ + 1] /\ NoFault
BrokerRefuses    == sent' = sent /\ NoFault
AnswerLost(i)    == sent' = [sent EXCEPT ![i] = @ + 1] /\ Fault

CycleSubmit(t) ==
  /\ cycle[t].at = "submit"
  /\ \/ /\ BrokerAccepts(cycle[t].intent)
        /\ CycleTo(t, "persist", cycle[t].intent)
     \/ /\ BrokerRefuses \/ AnswerLost(cycle[t].intent)
        /\ CycleTo(t, "decide", None)
  /\ UNCHANGED <<dbVars, now, up, taskStatus, lock, waiting, cycles, pc, sweepVars,
                 lossVars>>

CyclePersist(t) ==
  /\ cycle[t].at = "persist"
  /\ fills' = [fills EXCEPT ![cycle[t].intent] = @ + 1]
  /\ CycleTo(t, "decide", None)
  /\ UNCHANGED <<row, now, up, taskStatus, lock, waiting, cycles, pc, sweepVars, sent,
                 lossVars, faults>>

\* The cycle is over: the lock is released and, if a trigger fired it, the
\* scheduler's scan goes on.
CycleLeave(t) ==
  /\ lock' = [lock EXCEPT ![t] = "free"]
  /\ cycle' = [cycle EXCEPT ![t] = IdleCycle]
  /\ pc' = IF cycle[t].by = "trigger" THEN "scan" ELSE pc

CycleEnd(t) ==
  /\ cycle[t].at = "decide"
  /\ CycleLeave(t)
  /\ UNCHANGED <<dbVars, now, up, taskStatus, waiting, cycles, sweepVars, sent,
                 lossVars, faults>>

\* Any awaited call of the cycle may raise, the insert of a pending row or of
\* a fill among them; _execute_instance_cycle then puts the task in error.
CycleRaise(t) ==
  /\ cycle[t].at # "idle"
  /\ Fault
  /\ taskStatus' = [taskStatus EXCEPT ![t] = "error"]
  /\ CycleLeave(t)
  /\ UNCHANGED <<dbVars, now, up, waiting, cycles, sweepVars, sent, lossVars>>

-----------------------------------------------------------------------------
(* The scheduler's loop.                                                   *)

SweepUnchanged == UNCHANGED <<now, up, taskStatus, cycleVars>>

\* scan_once fired what was due.  An exception out of it skips the rest of
\* this round.
ScanDone ==
  /\ up /\ pc = "scan"
  /\ \/ pc' = "expire" /\ NoFault
     \/ pc' = "scan" /\ Fault
  /\ SweepUnchanged
  /\ UNCHANGED <<dbVars, lock, sweepVars, sent, lossVars>>

\* Slip: only the rows of running tasks expire.
SweepExpireRunning ==
  /\ up /\ pc = "expire"
  /\ row' = [i \in Intents |-> IF taskStatus[TaskOf[i]] = "running"
                              THEN ExpirePending(row, now)[i] ELSE row[i]]
  /\ NoFault
  /\ pc' = "list"
  /\ SweepUnchanged
  /\ UNCHANGED <<fills, lock, sweepVars, sent, lossVars>>

\* _expire_pending_approvals; a failure is logged and the loop goes on.
SweepExpire ==
  /\ up /\ pc = "expire"
  /\ \/ row' = ExpirePending(row, now) /\ NoFault
     \/ row' = row /\ Fault
  /\ pc' = "list"
  /\ SweepUnchanged
  /\ UNCHANGED <<fills, lock, sweepVars, sent, lossVars>>

SnapshotOf(i) == [id |-> i, attempts |-> row[i].attempts]

SweepList ==
  /\ up /\ pc = "list"
  /\ \/ /\ queue' = {SnapshotOf(i) : i \in Resumable(row)}
        /\ pc' = "resume"
        /\ NoFault
     \/ queue' = {} /\ pc' = "scan" /\ Fault
  /\ SweepUnchanged
  /\ UNCHANGED <<dbVars, lock, cur, verdict, sent, lossVars>>

SweepDone ==
  /\ up /\ pc = "resume" /\ queue = {}
  /\ pc' = "scan"
  /\ SweepUnchanged
  /\ UNCHANGED <<dbVars, lock, sweepVars, sent, lossVars, faults>>

Oldest(s) == \A r \in queue : row[s.id].createdAt <= row[r.id].createdAt

\* A task that is not running, or has a cycle in flight, is retried by a later
\* sweep; this is no failure.
Skipped(t) == taskStatus[t] # "running" \/ lock[t] # "free"

\* dispatch_resumed_approval up to its first await, in the code's order: a row
\* without a body is invalid; a task that is not running or has a cycle in
\* flight is skipped and its row stays resumable; a body that does not decode
\* is a failure; otherwise the lock is taken, at once unless a cycle that waits
\* for it was woken first.
ResumeNext(s) ==
  LET t == TaskOf[s.id]
      bad == \/ Payload[s.id] = "missing"
             \/ Payload[s.id] = "corrupt" /\ ~Skipped(t)
      go == Payload[s.id] = "ok" /\ ~Skipped(t)
  IN  /\ up /\ pc = "resume"
      /\ s \in queue /\ Oldest(s)
      /\ queue' = queue \ {s}
      /\ pc' = IF go THEN "acquire" ELSE IF bad THEN "fail" ELSE "resume"
      /\ cur' = IF go \/ bad THEN s ELSE None
      /\ SweepUnchanged
      /\ UNCHANGED <<dbVars, lock, verdict, sent, lossVars, faults>>

\* Slip: the sweep submits without taking the task's lock.
AcquireUnguarded ==
  /\ up /\ pc = "acquire"
  /\ pc' = "submit"
  /\ SweepUnchanged
  /\ UNCHANGED <<dbVars, lock, sweepVars, sent, lossVars, faults>>

\* The lock is held; the task's status is not looked at again.
ResumeAcquire ==
  /\ up /\ pc = "acquire"
  /\ lock[TaskOf[cur.id]] = "free"
  /\ lock' = [lock EXCEPT ![TaskOf[cur.id]] = "resume"]
  /\ pc' = "submit"
  /\ SweepUnchanged
  /\ UNCHANGED <<dbVars, sweepVars, sent, lossVars, faults>>

Unlock == lock' = [lock EXCEPT ![TaskOf[cur.id]] = "free"]

Misread(i) == misread' = [misread EXCEPT ![i] = @ + 1]

\* The adapter's submit_intent, on behalf of a resumed order.
ResumeSubmit ==
  /\ up /\ pc = "submit"
  /\ \/ /\ BrokerAccepts(cur.id)
        /\ pc' = "persist" /\ verdict' = "accepted"
        /\ UNCHANGED <<lock, misread>>
     \/ /\ BrokerRefuses
        /\ pc' = "fail" /\ Unlock
        /\ UNCHANGED <<verdict, misread>>
     \/ /\ AnswerLost(cur.id)
        /\ pc' = "fail" /\ verdict' = "accepted" /\ Unlock
        /\ Misread(cur.id)
  /\ SweepUnchanged
  /\ UNCHANGED <<dbVars, queue, cur, unmarked>>

\* The fill is written; if that raises, the exception reaches _resume_one,
\* which records a failed attempt for an order the broker has.
ResumePersist ==
  /\ up /\ pc = "persist"
  /\ \/ /\ fills' = [fills EXCEPT ![cur.id] = @ + 1]
        /\ pc' = "mark" /\ NoFault
        /\ misread' = misread
     \/ /\ pc' = "fail" /\ Fault
        /\ Misread(cur.id)
        /\ fills' = fills
  /\ Unlock
  /\ SweepUnchanged
  /\ UNCHANGED <<row, sweepVars, sent, unmarked>>

NextSnapshot == pc' = "resume" /\ cur' = None /\ verdict' = "none"

\* A bookkeeping write that raises is logged and forgotten.
LoseMark == /\ row' = row
            /\ unmarked' = [unmarked EXCEPT ![cur.id] = @ + 1]
            /\ Fault

ResumeMark ==
  /\ up /\ pc = "mark"
  /\ \/ row' = MarkDispatched(row, cur.id) /\ unmarked' = unmarked /\ NoFault
     \/ LoseMark
  /\ NextSnapshot
  /\ SweepUnchanged
  /\ UNCHANGED <<fills, lock, queue, sent, misread>>

\* Slips: the budget is compared one failure late, or one failure early.
OutcomeLate(s)  == IF s.attempts >= MaxAttempts THEN "abandon" ELSE "retry"
OutcomeEarly(s) == IF s.attempts + 2 >= MaxAttempts THEN "abandon" ELSE "retry"

\* The budget is compared with the attempts of the snapshot.
Outcome(s) == IF s.attempts + 1 >= MaxAttempts THEN "abandon" ELSE "retry"

ResumeFail ==
  /\ up /\ pc = "fail"
  /\ \/ /\ row' = MarkDispatchFailed(row, cur.id, Outcome(cur))
        /\ unmarked' = unmarked /\ NoFault
     \/ LoseMark
  /\ NextSnapshot
  /\ SweepUnchanged
  /\ UNCHANGED <<fills, lock, queue, sent, misread>>

-----------------------------------------------------------------------------
(* The process dies and comes back.                                        *)

Crash ==
  /\ up /\ Fault
  /\ up' = FALSE
  /\ unmarked' = IF verdict = "accepted"
                  THEN [unmarked EXCEPT ![cur.id] = @ + 1]
                  ELSE unmarked
  /\ lock' = [t \in Tasks |-> "free"]
  /\ cycle' = [t \in Tasks |-> IdleCycle]
  /\ waiting' = {}
  /\ pc' = "scan" /\ queue' = {} /\ cur' = None /\ verdict' = "none"
  /\ UNCHANGED <<dbVars, now, taskStatus, cycles, sent, misread>>

\* restore_tasks: the statuses come from the tasks table, which may say
\* anything that was ever written there.
Restart ==
  /\ ~up
  /\ up' = TRUE
  /\ taskStatus' \in [Tasks -> TaskStatuses]
  /\ UNCHANGED <<dbVars, now, lock, cycleVars, pc, sweepVars, sent, lossVars,
                 faults>>

-----------------------------------------------------------------------------
CycleStep(t) == \/ \E by \in {"tick", "trigger"} : CycleBegin(t, by)
                \/ \E i \in Intents : CycleRequest(t, i)
                \/ CycleSubmit(t)
                \/ CyclePersist(t)
                \/ CycleEnd(t)
                \/ CycleRaise(t)

SweepStep == \/ ScanDone \/ SweepExpire \/ SweepList \/ SweepDone
             \/ \E s \in queue : ResumeNext(s)
             \/ ResumeAcquire \/ ResumeSubmit \/ ResumePersist \/ ResumeMark \/ ResumeFail

Next == \/ ClockTick
        \/ \E i \in Intents, d \in {"approved", "rejected"} : Decide(i, d)
        \/ ManualExpire
        \/ \E t \in Tasks, s \in TaskStatuses : SetTaskStatus(t, s)
        \/ \E t \in Tasks, by \in {"tick", "trigger"} : CycleAdmit(t, by)
        \/ \E t \in Tasks : CycleStep(t)
        \/ SweepStep
        \/ Crash
        \/ Restart

Spec == Init /\ [][Next]_vars

\* The loop, the cycles in flight and the clock go on, and a dead process is
\* restarted.  People, operators and faults owe nothing.
Fairness == /\ WF_vars(ClockTick)
            /\ WF_vars(SweepStep)
            /\ \A t \in Tasks : WF_vars(CycleStep(t))
            /\ WF_vars(Restart)

FairSpec == Spec /\ Fairness

-----------------------------------------------------------------------------
(* Properties.                                                             *)

\* An extra submission of one order has a named cause: an accepted order the
\* code took for a failure (a lost answer, a fill that was not written), or a
\* handled order whose stamp was lost (mark_dispatched or mark_dispatch_failed
\* raised, or the process died before them).  Without one of these the resume
\* sweep sends an approved order once.
SentOncePerLoss ==
  \A i \in Intents : sent[i] <= 1 + misread[i] + unmarked[i]

\* _MAX_RESUME_ATTEMPTS bounds how often the broker accepts one approved
\* order, however many answers are lost, as long as the attempts are written.
BudgetBoundsSends ==
  \A i \in Intents : sent[i] <= MaxAttempts + unmarked[i]

\* An order the sweep is done with is accounted for: the broker has it and a
\* fill was written, or the whole budget of attempts was spent on it.
SettledIsAccounted ==
  \A i \in Intents :
    row[i].dispatchedAt = "stamped" => \/ sent[i] > 0 /\ fills[i] > 0
                         \/ row[i].attempts = MaxAttempts

\* A resumed order and a cycle are never inside the same worker together.
OneDispatcherPerTask ==
  pc \in {"submit", "persist"} => cycle[TaskOf[cur.id]].at = "idle"

\* Every held order is decided: by a person, or by the sweep once it expires.
PendingIsDecided ==
  \A i \in Intents : row[i].status = "pending" ~> row[i].status # "pending"

\* An approved order of a task that stays running is eventually settled.
ApprovedIsSettled ==
  \A i \in Intents :
    <>[](taskStatus[TaskOf[i]] = "running")
      => (row[i].status = "approved" ~> row[i].dispatchedAt = "stamped")

Stage(i) == CASE row[i].status = "none" -> "new"
              [] row[i].status = "auto" -> "auto"
              [] row[i].status = "pending" -> "held"
              [] row[i].status \in {"rejected", "expired"} -> "refused"
              [] OTHER -> IF row[i].dispatchedAt = "stamped"
                           THEN "settled" ELSE "approved"

\* The detailed system keeps what OrderPromise promises of every order.
Promise == INSTANCE OrderPromise WITH order <- [i \in Intents |-> Stage(i)]
KeepsPromise == Promise!Spec

\* What mark_dispatched's docstring says: the resume sweep never submits an
\* approved order again.
NeverResubmitted == \A i \in Intents : sent[i] <= 1

=============================================================================
