----------------------------- MODULE TriggerFire -----------------------------
(***************************************************************************)
(* The triggers of one trading task.  The scheduler's scan reads the       *)
(* task_triggers table once and then fires what was due, one trigger after *)
(* another, waiting for each cycle; meanwhile people run a trigger or the  *)
(* task by hand, pause, edit or delete triggers, and rebuild the task's    *)
(* worker.  All cycles of the task take its cycle lock, and a fire sets    *)
(* the worker's run_mode for its own cycle.                                *)
(*                                                                         *)
(* A step is the code between two awaits of the asyncio loop.              *)
(***************************************************************************)
EXTENDS Naturals

CONSTANTS
  Triggers,
  Kind,     \* schedule_kind of each trigger: "interval", "cron" or "at"
  Period,   \* interval_seconds, or the distance between two cron matches
  AtTime,   \* at_iso of a one-shot
  Intent,   \* execution_intent of each trigger
  OneTime,  \* the triggers with delete_after_run
  Modes,    \* run modes a trading task can be configured with
  Sched, Tick, None,
  MaxTime, MaxCalls, MaxUpdates, MaxFaults \* bounds of the model

ASSUME TriggerAssumption ==
  /\ Kind \in [Triggers -> {"interval", "cron", "at"}]
  /\ Period \in [Triggers -> Nat \ {0}]
  /\ AtTime \in [Triggers -> Nat]
  /\ Intent \in [Triggers -> {"trade", "signal_only"}]
  /\ OneTime \subseteq Triggers
  /\ {Sched, Tick} \cap Triggers = {} /\ Sched # Tick
  /\ None \notin Triggers \cup {Sched, Tick} \cup Modes \cup Nat
  /\ None \notin {"signal_only", "error", "exhausted"}
  /\ {MaxTime, MaxCalls, MaxUpdates, MaxFaults} \subseteq Nat

VARIABLES
  row,      \* the task_triggers table
  now, kill,\* the clock; the kill switch in the database
  status,   \* in-memory status of the task
  mode,     \* run_mode of the task's current worker
  built,    \* the run_mode that worker was built with
  config,   \* the mode the tasks table says
  update,   \* update_task is between its write and the new worker
  lastRunId,\* the current worker has begun a cycle
  lock,     \* which run holds the task's cycle lock
  run,      \* the calls of run_trigger and tick_once in flight
  scan,     \* snapshots the current scan has not handled yet
  scanAt,   \* when the current scan began
  edit,     \* what an edit of each trigger has read so far
  calls, updates, faults, \* how many happened
  quiet,    \* until when the scheduler owes trigger g no other fire
  extra,    \* fires of g that came before that
  excuse,   \* what happened to g that lets it fire again
  stale     \* fires of g that began while people had it switched off

dbVars   == <<row, kill>>
modeVars == <<mode, built, config, update, lastRunId>>
scanVars == <<scan, scanAt>>
history  == <<quiet, extra, excuse, stale>>
counters == <<calls, updates, faults>>
vars == <<dbVars, now, status, modeVars, lock, run, scanVars, edit, counters,
          history>>

\* A run of a trigger by hand is named after the trigger.
Runs      == Triggers \cup {Sched, Tick}
Times     == Nat \cup {None}
RunModes  == Modes \cup {"signal_only"}
Rows      == [status : {"active", "paused", "error", "exhausted", "deleted"},
              enabled : BOOLEAN, next : Times, last : Times]
Snapshots == [id : Triggers, next : Times, last : Times]
Calls     == [at : {"idle", "begin", "session", "lock", "cycle", "ran", "none",
                    "raised", "delete"},
              trig : Snapshots \cup {None},
              effective : RunModes \cup {None}, \* run_mode_override
              saved : RunModes \cup {None},     \* prev_run_mode, if overridden
              old : RunModes \cup {None}] \* mode of a worker replaced meanwhile
Idle      == [at |-> "idle", trig |-> None, effective |-> None,
              saved |-> None, old |-> None]

TypeOK ==
  /\ row \in [Triggers -> Rows]
  /\ now \in Nat /\ scanAt \in Nat
  /\ kill \in {"off", "stopping", "on"}
  /\ status \in {"running", "stopped", "error"}
  /\ mode \in RunModes /\ built \in RunModes
  /\ config \in Modes /\ update \in BOOLEAN /\ lastRunId \in BOOLEAN
  /\ lock \in Runs \cup {None}
  /\ run \in [Runs -> Calls]
  /\ scan \subseteq Snapshots
  /\ edit \in [Triggers -> {None} \cup [last : Times]]
  /\ calls \in Nat /\ updates \in Nat /\ faults \in Nat
  /\ quiet \in [Triggers -> Nat]
  /\ extra \in [Triggers -> Nat] /\ excuse \in [Triggers -> Nat]
  /\ stale \in [Triggers -> Nat]

NoFault == faults' = faults
Fault   == faults < MaxFaults /\ faults' = faults + 1
ACall   == calls < MaxCalls /\ calls' = calls + 1

\* compute_next_fire, counted from base; a one-shot always gives its own time.
NextFire(g, base) == CASE Kind[g] = "interval" -> base + Period[g]
                       [] Kind[g] = "cron" -> (base \div Period[g] + 1) * Period[g]
                       [] Kind[g] = "at" -> AtTime[g]

IsDue(next, t) == next # None /\ t >= next

\* A new trigger has its first fire time; a migrated one has none yet.
Init ==
  /\ \E migrated \in SUBSET Triggers :
       row = [g \in Triggers |->
                [status |-> "active", enabled |-> TRUE, last |-> None,
                 next |-> IF g \in migrated THEN None ELSE NextFire(g, 0)]]
  /\ now = 0 /\ kill = "off" /\ status = "running"
  /\ mode \in Modes /\ built = mode /\ config = mode
  /\ lastRunId = FALSE /\ update = FALSE
  /\ lock = None
  /\ run = [p \in Runs |-> Idle]
  /\ scan = {} /\ scanAt = 0
  /\ edit = [g \in Triggers |-> None]
  /\ calls = 0 /\ updates = 0 /\ faults = 0
  /\ quiet = [g \in Triggers |-> 0]
  /\ extra = [g \in Triggers |-> 0]
  /\ excuse = [g \in Triggers |-> 0]
  /\ stale = [g \in Triggers |-> 0]

Excuse(g) == excuse' = [excuse EXCEPT ![g] = @ + 1]

\* Writing next as the time of g's next fire brings that fire forward.
BringsForward(g, next) == next # None /\ (row[g].next = None \/ next < row[g].next)
ExcuseIf(g, because) == IF because THEN Excuse(g) ELSE excuse' = excuse

-----------------------------------------------------------------------------
(* The clock and people.                                                   *)

ClockTick == /\ now < MaxTime
             /\ now' = now + 1
             /\ UNCHANGED <<dbVars, status, modeVars, lock, run, scanVars, edit,
                            counters, history>>

\* set_kill_switch writes the switch and, when it turns it on, goes on to stop
\* the running tasks; a task whose row does not say running is left alone.
SetKill(on) == /\ kill # "stopping"
               /\ kill' = IF on THEN "stopping" ELSE "off"
               /\ ACall
               /\ UNCHANGED <<row, now, status, modeVars, lock, run, scanVars,
                              edit, updates, faults, history>>

KillStopsTask == /\ kill = "stopping" /\ kill' = "on"
                 /\ \/ status = "running" /\ status' = "stopped"
                    \/ status' = status
                 /\ UNCHANGED <<row, now, modeVars, lock, run, scanVars, edit,
                                counters, history>>

KillOn == kill # "off"

SetStatus(s) == /\ status # s /\ status' = s
                /\ ACall
                /\ UNCHANGED <<dbVars, now, modeVars, lock, run, scanVars, edit,
                               updates, faults, history>>

\* The endpoints of a trigger answer 404 once it is deleted.
Exists(g) == row[g].status # "deleted"

Pause(g) == /\ Exists(g)
            /\ ACall
            /\ row' = [row EXCEPT ![g].status = "paused"]
            /\ UNCHANGED <<kill, now, status, modeVars, lock, run, scanVars,
                           edit, updates, faults, history>>

\* Resuming a trigger clears an error; a one-shot that was spent or failed is
\* armed again.
Resume(g) == /\ Exists(g)
             /\ ACall
             /\ row' = [row EXCEPT ![g].status = "active"]
             /\ ExcuseIf(g, Kind[g] = "at" /\ row[g].status # "active")
             /\ stale' = IF row[g].enabled THEN [stale EXCEPT ![g] = 0] ELSE stale
             /\ UNCHANGED <<kill, now, status, modeVars, lock, run, scanVars,
                            edit, updates, faults, quiet, extra>>

Delete(g) == /\ Exists(g)
             /\ ACall
             /\ row' = [row EXCEPT ![g].status = "deleted"]
             /\ UNCHANGED <<kill, now, status, modeVars, lock, run, scanVars,
                            edit, updates, faults, history>>

\* An edit reads the row, and then writes the next fire time it computed from
\* the last_fired_at it read.
EditRead(g) == /\ Exists(g) /\ edit[g] = None
               /\ ACall
               /\ edit' = [edit EXCEPT ![g] = [last |-> row[g].last]]
               /\ UNCHANGED <<dbVars, now, status, modeVars, lock, run,
                              scanVars, updates, faults, history>>

EditWrite(g, on) ==
  /\ edit[g] # None
  /\ edit' = [edit EXCEPT ![g] = None]
  /\ LET next == NextFire(g, IF edit[g].last = None THEN now ELSE edit[g].last)
     IN IF Exists(g)
        THEN /\ row' = [row EXCEPT ![g].enabled = on, ![g].next = next]
             /\ ExcuseIf(g, BringsForward(g, next))
             /\ stale' = IF on /\ row[g].status = "active"
                         THEN [stale EXCEPT ![g] = 0] ELSE stale
        ELSE UNCHANGED <<row, excuse, stale>>
  /\ UNCHANGED <<kill, now, status, modeVars, lock, run, scanVars, counters,
                 quiet, extra>>

\* update_task with new settings: the configured mode is written, and after
\* more awaits a new worker takes the place of the old one.  The cycle lock is
\* not taken; a cycle in flight goes on in the worker it began with.
UpdateBegin(m) == /\ ~update
                  /\ updates < MaxUpdates /\ updates' = updates + 1
                  /\ config' = m /\ update' = TRUE
                  /\ UNCHANGED <<dbVars, now, status, mode, built, lastRunId,
                                 lock, run, scanVars, edit, calls, faults,
                                 history>>

UpdateSwap == /\ update
              /\ update' = FALSE
              /\ mode' = config /\ built' = config /\ lastRunId' = FALSE
              /\ run' = [p \in Runs |->
                           IF run[p].at = "cycle" /\ run[p].old = None
                           THEN [run[p] EXCEPT !.old = mode] ELSE run[p]]
              /\ UNCHANGED <<dbVars, now, status, config, lock, scanVars, edit,
                             counters, history>>

-----------------------------------------------------------------------------
(* One call of run_trigger, or of tick_once for the task.                  *)

\* The call p moves to the place "at", taking other fields over from its record.
Goes(p, at) == run' = [run EXCEPT ![p].at = at]

Snapshot(g) == [id |-> g, next |-> row[g].next, last |-> row[g].last]

\* POST /tasks/{id}/triggers/{id}/run
ManualRun(g) ==
  /\ run[g].at = "idle" /\ Exists(g)
  /\ ACall
  /\ run' = [run EXCEPT ![g] = [Idle EXCEPT !.at = "begin", !.trig = Snapshot(g)]]
  /\ UNCHANGED <<dbVars, now, status, modeVars, lock, scanVars, edit, updates,
                 faults, history>>

\* POST /system/tick
ManualTick ==
  /\ run[Tick].at = "idle"
  /\ ACall
  /\ Goes(Tick, "begin")
  /\ UNCHANGED <<dbVars, now, status, modeVars, lock, scanVars, edit, updates,
                 faults, history>>

RunModeForIntent(intent, base) ==
  IF intent = "signal_only" THEN "signal_only" ELSE base

\* The switch and the status are looked at once; the task's own run mode is
\* read here, and used when the lock has been taken.
RunChecks(p) ==
  /\ run[p].at = "begin"
  /\ \/ (KillOn \/ status # "running") /\ Goes(p, "none") /\ NoFault
     \/ /\ ~KillOn /\ status = "running" /\ NoFault
        /\ run' = [run EXCEPT ![p].at = "session",
                     ![p].effective = IF p = Tick THEN None
                        ELSE RunModeForIntent(Intent[run[p].trig.id], mode)]
     \/ Goes(p, "raised") /\ Fault
  /\ UNCHANGED <<dbVars, now, status, modeVars, lock, scanVars, edit, calls,
                 updates, history>>

RunOpensSession(p) ==
  /\ run[p].at = "session"
  /\ \/ Goes(p, "lock") /\ NoFault
     \/ Goes(p, "raised") /\ Fault
  /\ UNCHANGED <<dbVars, now, status, modeVars, lock, scanVars, edit, calls,
                 updates, history>>

SwitchedOff(g) == row[g].status \in {"paused", "deleted"} \/ ~row[g].enabled

\* What the history keeps when the scheduler's cycle of trigger g begins.
FireBegins(g) ==
  /\ quiet' = [quiet EXCEPT ![g] = IF Kind[g] = "at" THEN MaxTime + 1
                                                     ELSE NextFire(g, now)]
  /\ extra' = IF now < quiet[g] THEN [extra EXCEPT ![g] = @ + 1] ELSE extra
  /\ stale' = IF SwitchedOff(g) THEN [stale EXCEPT ![g] = @ + 1] ELSE stale

\* Slip: the cycle begins without waiting for the lock.
NoLock == TRUE

LockFree == lock = None

\* The cycle lock is taken, the override applied and run_cycle called.
RunBegins(p) ==
  LET overrides == run[p].effective \notin {None, mode}
  IN  /\ run[p].at = "lock"
      /\ LockFree /\ lock' = p
      /\ mode' = IF overrides THEN run[p].effective ELSE mode
      /\ run' = [run EXCEPT ![p].at = "cycle",
                            ![p].saved = IF overrides THEN mode ELSE None]
      /\ lastRunId' = TRUE
      /\ IF p = Sched THEN FireBegins(run[p].trig.id)
                      ELSE UNCHANGED <<quiet, extra, stale>>
      /\ UNCHANGED <<dbVars, now, status, built, config, update, scanVars,
                     edit, counters, excuse>>

Restored(p) == IF run[p].saved = None THEN mode ELSE run[p].saved

\* run_cycle returned or raised: the override is undone on whatever worker the
\* task has now, the session is closed and the lock released.  What the caller
\* learns is whether that worker ever began a cycle, or that a write of this
\* bookkeeping raised.
RunEnds(p) ==
  LET answer == IF lastRunId THEN "ran" ELSE "none"
      g == run[p].trig.id
  IN  /\ run[p].at = "cycle"
      /\ \E returns \in BOOLEAN :
           /\ \/ Goes(p, answer) /\ (IF returns THEN NoFault ELSE Fault)
              \/ Goes(p, "raised") /\ Fault
           /\ status' = IF returns THEN status ELSE "error"
      /\ lock' = None
      /\ mode' = Restored(p)
      /\ IF p = Sched THEN ExcuseIf(g, Kind[g] = "at" /\ ~lastRunId)
                      ELSE excuse' = excuse
      /\ UNCHANGED <<dbVars, now, built, config, update, lastRunId, scanVars,
                     edit, calls, updates, quiet, extra, stale>>

\* record_fire: a deleted trigger is left alone, and the status stays as it is
\* unless a new one is given.
RecordFire(g, last, next, newStatus) ==
  row' = IF Exists(g)
         THEN [row EXCEPT ![g].last = last, ![g].next = next,
                          ![g].status = IF newStatus = None THEN @ ELSE newStatus]
         ELSE row

\* The end of a run by hand: if a cycle ran, the fire is recorded with the next
\* fire time that was read before the run.
ManualEnds(g) ==
  /\ run[g].at \in {"ran", "none", "raised"}
  /\ run' = [run EXCEPT ![g] = Idle]
  /\ \/ /\ run[g].at = "ran"
        /\ RecordFire(g, now, run[g].trig.next, None)
        /\ ExcuseIf(g, BringsForward(g, run[g].trig.next))
        /\ NoFault
     \/ /\ UNCHANGED <<row, excuse>>
        /\ IF run[g].at = "ran" THEN Fault ELSE NoFault
  /\ UNCHANGED <<kill, now, status, modeVars, lock, scanVars, edit, calls,
                 updates, quiet, extra, stale>>

TickEnds ==
  /\ run[Tick].at \in {"ran", "none", "raised"}
  /\ run' = [run EXCEPT ![Tick] = Idle]
  /\ UNCHANGED <<dbVars, now, status, modeVars, lock, scanVars, edit, counters,
                 history>>

-----------------------------------------------------------------------------
(* The scheduler.                                                          *)

SchedFree == run[Sched].at = "idle"

\* Slips: the query forgets the status of a spent one-shot, or the enabled
\* flag.
SchedulableSpent    == {g \in Triggers : row[g].status \in {"active", "exhausted"}
                                         /\ row[g].enabled}
SchedulableDisabled == {g \in Triggers : row[g].status = "active"}

\* SELECT ... WHERE enabled AND status = 'active'
Schedulable == {g \in Triggers : row[g].status = "active" /\ row[g].enabled}

ScanBegins ==
  /\ SchedFree /\ scan = {}
  /\ scan' = {Snapshot(g) : g \in Schedulable}
  /\ scanAt' = IF scan' = {} THEN 0 ELSE now
  /\ UNCHANGED <<dbVars, now, status, modeVars, lock, run, edit, counters,
                 history>>

\* The scan is done with snapshot s; an exception drops the others too.
ScanGoesOn(s) == /\ scan' = scan \ {s}
                 /\ scanAt' = IF scan' = {} THEN 0 ELSE scanAt
ScanAborts    == scan' = {} /\ scanAt' = 0

\* Nothing to do: the task does not run, the trigger is not due yet, or a
\* cycle of the task is in flight.
ScanPasses(s) ==
  /\ SchedFree /\ s \in scan
  /\ \/ status # "running"
     \/ s.next # None /\ (~IsDue(s.next, scanAt) \/ lock # None)
  /\ ScanGoesOn(s)
  /\ UNCHANGED <<dbVars, now, status, modeVars, lock, run, edit, counters,
                 history>>

\* Slip: the first fire time is not computed.
FirstFireNever(g) == None

FirstFire(g) == NextFire(g, scanAt)

\* A trigger without a next fire time gets one.
ScanSetsNext(s) ==
  /\ SchedFree /\ s \in scan
  /\ status = "running" /\ s.next = None
  /\ \/ /\ Exists(s.id) /\ NoFault
        /\ row' = [row EXCEPT ![s.id].next = FirstFire(s.id)]
        /\ ScanGoesOn(s)
     \/ /\ IF Exists(s.id) THEN Fault ELSE NoFault
        /\ row' = row /\ ScanAborts
  /\ UNCHANGED <<kill, now, status, modeVars, lock, run, edit, calls, updates,
                 history>>

ScanFires(s) ==
  /\ SchedFree /\ s \in scan
  /\ status = "running" /\ IsDue(s.next, scanAt) /\ lock = None
  /\ run' = [run EXCEPT ![Sched] = [Idle EXCEPT !.at = "begin", !.trig = s]]
  /\ ScanGoesOn(s)
  /\ UNCHANGED <<dbVars, now, status, modeVars, lock, edit, counters, history>>

Fired == run[Sched].trig.id

\* run_trigger returned None: no cycle, as the scheduler sees it.
FireHadNoCycle ==
  /\ run[Sched].at = "none"
  /\ run' = [run EXCEPT ![Sched] = Idle]
  /\ \/ /\ RecordFire(Fired,
             IF run[Sched].trig.last = None THEN now ELSE run[Sched].trig.last,
             NextFire(Fired, now), None)
        /\ NoFault /\ UNCHANGED <<scanVars, excuse>>
     \/ row' = row /\ Fault /\ ScanAborts /\ Excuse(Fired)
  /\ UNCHANGED <<kill, now, status, modeVars, lock, edit, calls, updates,
                 quiet, extra, stale>>

\* run_trigger raised; a failure of the write below is suppressed.
FireFailed ==
  /\ run[Sched].at = "raised"
  /\ run' = [run EXCEPT ![Sched] = Idle]
  /\ \/ /\ RecordFire(Fired, now, NextFire(Fired, now), "error")
        /\ NoFault /\ excuse' = excuse
     \/ row' = row /\ Fault /\ Excuse(Fired)
  /\ UNCHANGED <<kill, now, status, modeVars, lock, scanVars, edit, calls,
                 updates, quiet, extra, stale>>

\* run_trigger returned a run id: a one-shot is exhausted, and deleted if it
\* asked for that; any other trigger gets its next fire time.
FireRecorded ==
  /\ run[Sched].at = "ran"
  /\ \/ /\ IF Kind[Fired] = "at"
           THEN RecordFire(Fired, now, None, "exhausted")
           ELSE RecordFire(Fired, now, NextFire(Fired, now), None)
        /\ IF Kind[Fired] = "at" /\ Fired \in OneTime
           THEN Goes(Sched, "delete") ELSE run' = [run EXCEPT ![Sched] = Idle]
        /\ NoFault /\ UNCHANGED <<scanVars, excuse>>
     \/ /\ row' = row /\ run' = [run EXCEPT ![Sched] = Idle]
        /\ Fault /\ Excuse(Fired) /\ ScanAborts
  /\ UNCHANGED <<kill, now, status, modeVars, lock, edit, calls, updates,
                 quiet, extra, stale>>

FireDeletes ==
  /\ run[Sched].at = "delete"
  /\ run' = [run EXCEPT ![Sched] = Idle]
  /\ \/ row' = [row EXCEPT ![Fired].status = "deleted"] /\ NoFault
     \/ row' = row /\ Fault
  /\ UNCHANGED <<kill, now, status, modeVars, lock, scanVars, edit, calls,
                 updates, history>>

\* The process dies and is started again with what the database has.
Crash ==
  /\ Fault
  /\ status' \in {"running", "stopped", "error"}
  /\ mode' = config /\ built' = config /\ update' = FALSE /\ lastRunId' = FALSE
  /\ lock' = None /\ run' = [p \in Runs |-> Idle]
  /\ ScanAborts
  /\ edit' = [g \in Triggers |-> None]
  /\ IF run[Sched].at \in {"cycle", "ran", "none", "raised"}
     THEN Excuse(Fired) ELSE excuse' = excuse
  /\ kill' = IF KillOn THEN "on" ELSE "off"
  /\ UNCHANGED <<row, now, config, calls, updates, quiet, extra, stale>>

-----------------------------------------------------------------------------
RunStep(p) == RunChecks(p) \/ RunOpensSession(p) \/ RunBegins(p) \/ RunEnds(p)

SchedStep == \/ ScanBegins
             \/ \E s \in scan : ScanPasses(s) \/ ScanSetsNext(s) \/ ScanFires(s)
             \/ FireHadNoCycle \/ FireFailed \/ FireRecorded \/ FireDeletes

Next == \/ ClockTick
        \/ \E on \in BOOLEAN : SetKill(on)
        \/ KillStopsTask
        \/ \E s \in {"running", "stopped"} : SetStatus(s)
        \/ \E g \in Triggers : \/ Pause(g) \/ Resume(g) \/ Delete(g)
                               \/ EditRead(g)
                               \/ \E on \in BOOLEAN : EditWrite(g, on)
                               \/ ManualRun(g) \/ ManualEnds(g)
        \/ \E m \in Modes : UpdateBegin(m)
        \/ UpdateSwap
        \/ ManualTick \/ TickEnds
        \/ \E p \in Runs : RunStep(p)
        \/ SchedStep
        \/ Crash

Spec == Init /\ [][Next]_vars

\* The scheduler's loop, every call in flight and the clock go on.
Fairness == /\ WF_vars(ClockTick)
            /\ WF_vars(SchedStep)
            /\ \A p \in Runs : WF_vars(RunStep(p))

FairSpec == Spec /\ Fairness

-----------------------------------------------------------------------------
(* Properties.                                                             *)

\* A one-shot fires once and a recurring trigger keeps its distance; each fire
\* beyond that has a cause: the record of a fire was lost, the time was brought
\* forward by a run by hand or an edit, a one-shot was armed again, or the
\* worker was replaced under the fire.
ExtraFireIsExplained == \A g \in Triggers : extra[g] <= excuse[g]

\* A trigger that people paused, disabled or deleted fires at most once more,
\* from the scan that had already read it.
SwitchedOffFiresOnce == \A g \in Triggers : stale[g] <= 1

\* The mode the cycle of call p runs in.
CycleMode(p) == IF run[p].old = None THEN mode ELSE run[p].old

\* A signal_only trigger never runs in a mode that trades, whatever other runs
\* and rebuilt workers do meanwhile.
SignalOnlyNeverTrades ==
  \A p \in Runs \ {Tick} :
    run[p].at = "cycle" /\ Intent[run[p].trig.id] = "signal_only"
      => CycleMode(p) = "signal_only"

\* Unless a worker was replaced, the mode a fire sets is gone when the next
\* cycle begins.
OverrideIsUndone == lock = None /\ updates = 0 => mode = built

\* An active trigger of a running task does not stay due, or unscheduled, for
\* ever.
Waiting(g) == /\ g \in Schedulable
              /\ row[g].next = None \/ IsDue(row[g].next, now)
DueTriggerIsServed ==
  \A g \in Triggers :
    <>[](status = "running" /\ ~KillOn) => []<>~Waiting(g)

=============================================================================
