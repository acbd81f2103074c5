-------------------------------- MODULE CronJobs --------------------------------
(***************************************************************************)
(* One cron job of the assistant.  Its row says when it fires; an entry of *)
(* the scheduler and a semaphore, both in memory, make it fire.  Callers   *)
(* create, update, pause, resume, delete and trigger it; a run of it may   *)
(* delete or disable it when it ends.  Each of them touches the row and    *)
(* the memory in steps of its own, and nothing locks them.                 *)
(*                                                                         *)
(* A step is the code between two awaits; a database transaction is one    *)
(* step.  The clock counts minutes, the grain of a cron expression and of  *)
(* the grace the scheduler allows.                                         *)
(***************************************************************************)
EXTENDS Naturals, FiniteSets

CONSTANTS
  None,
  NewJobs, \* the jobs that may be created
  Edits,   \* what an update may change: records of some of a job's fields
  Grace,   \* misfire_grace_time
  MaxTime, MaxCalls, MaxRuns, MaxFaults \* bounds of the model

\* One row: enabled, schedule_kind, at_iso, delete_after_run, max_concurrency.
Jobs == [on : BOOLEAN, kind : {"at", "cron"}, due : 0 .. MaxTime,
         once : BOOLEAN, cap : Nat \ {0}]
Values == [on |-> BOOLEAN, kind |-> {"at", "cron"}, due |-> 0 .. MaxTime,
           once |-> BOOLEAN, cap |-> Nat \ {0}]

\* A job as an update leaves it.
Edited(job, edit) ==
  LET new(f) == IF f \in DOMAIN edit THEN edit[f] ELSE job[f]
  IN [on |-> new("on"), kind |-> new("kind"), due |-> new("due"), once |-> new("once"),
      cap |-> new("cap")]

Calls == 1 .. MaxCalls
Fires == 1 .. MaxRuns

\* What the scheduler has for a job, and its semaphore.
Entries == [kind : {"at", "cron"}, next : 0 .. MaxTime + 1]
Semaphores == [cap : Nat \ {0}, held : SUBSET Fires]

ASSUME CronAssumption ==
  /\ NewJobs \subseteq Jobs
  /\ None \notin Jobs /\ None \notin Entries /\ None \notin Semaphores
  /\ \A edit \in Edits : \A f \in DOMAIN edit : f \in DOMAIN Values /\ edit[f] \in Values[f]
  /\ Grace \in Nat /\ MaxTime \in Nat
  /\ MaxCalls \in Nat /\ MaxRuns \in Nat /\ MaxFaults \in Nat

VARIABLES
  row,     \* the job's row
  entry,   \* what the scheduler has for it
  sem,     \* its semaphore: the bound, and the runs that hold it
  run,     \* the fires of it
  log,     \* the run rows
  call,    \* the calls about it
  clock,
  behind,  \* calls under way when somebody else wrote the row
  stale,   \* what is registered was overtaken, or half of a call failed
  paused,  \* it was paused, and nobody has asked for anything else since
  faults

history == <<behind, stale, paused>>
vars == <<row, entry, sem, run, log, call, clock, history, faults>>

Places == {"unused", "start", "check", "work", "clean", "drop", "over"}
Plans  == {"keep", "delete", "disable"}
Idle(place) == [at |-> place, manual |-> FALSE, fired |-> 0, plan |-> "keep"]
Done(place) == [at |-> place, op |-> "none", read |-> None, edit |-> <<>>]

Alive   == {r \in Fires : run[r].at \notin {"unused", "over"}}
Holding == {r \in Alive : run[r].at # "start"} \* between the semaphore's enter and exit

TypeOK ==
  /\ row \in Jobs \cup {None}
  /\ entry \in Entries \cup {None}
  /\ sem = None \/ sem \in Semaphores
  /\ run \in [Fires -> [at : Places, manual : BOOLEAN, fired : 0 .. MaxTime, plan : Plans]]
  /\ log \in [Fires -> {"none", "running", "closed", "orphan"}]
  /\ call \in [Calls -> [at : {"unused", "write", "register", "over"},
                         op : {"none", "create", "update", "pause", "resume", "delete"},
                         read : Jobs \cup {None}, edit : Edits \cup {<<>>}]]
  /\ clock \in 0 .. MaxTime
  /\ behind \subseteq Calls /\ stale \in BOOLEAN /\ paused \in BOOLEAN /\ faults \in 0 .. MaxFaults

Init ==
  /\ row = None /\ entry = None /\ sem = None
  /\ run = [r \in Fires |-> Idle("unused")] /\ log = [r \in Fires |-> "none"]
  /\ call = [c \in Calls |-> Done("unused")]
  /\ clock = 0 /\ behind = {} /\ stale = FALSE /\ paused = FALSE /\ faults = 0

Fault == faults < MaxFaults /\ faults' = faults + 1

\* Slots of the model are taken in order.
FreshRun(r)  == run[r].at = "unused" /\ \A s \in Fires : s < r => run[s].at # "unused"
FreshCall(c) == call[c].at = "unused" /\ \A d \in Calls : d < c => call[d].at # "unused"

\* Calls that have read the row: who writes it overtakes the others.
UnderWay == {c \in Calls : call[c].at \in {"write", "register"}}

\* Somebody is halfway through changing the row and the memory.
Changing == \/ UnderWay # {}
            \/ \E r \in Fires : run[r].at = "drop"

-----------------------------------------------------------------------------
(* The scheduler's entry and the semaphore                                 *)

EntryOf(job) == [kind |-> job.kind, next |-> IF job.kind = "at" THEN job.due ELSE clock + 1]

\* The scheduler refuses a second entry; the semaphore is new by then.
Registers(job) ==
  /\ sem' = [cap |-> job.cap, held |-> {}]
  /\ entry' = IF entry = None THEN EntryOf(job) ELSE entry

\* Runs that hold the semaphore keep the object; nobody else finds it.
Deregisters == sem' = None /\ entry' = None

Reregisters(job) ==
  IF job.on THEN sem' = [cap |-> job.cap, held |-> {}] /\ entry' = EntryOf(job)
  ELSE Deregisters

-----------------------------------------------------------------------------
(* Calls                                                                   *)

Begins(c, op, place, edit) ==
  /\ FreshCall(c)
  /\ call' = [call EXCEPT ![c] = [at |-> place, op |-> op, read |-> row, edit |-> edit]]

Goes(c, place) == call' = [call EXCEPT ![c].at = place]
Ends(c) == call' = [call EXCEPT ![c] = Done("over")]

\* Call c registers a job that somebody overtook it with: the row says something else.
Misfits(c, on) ==
  c \in behind /\ row # None /\ ~(on /\ EntryOf(call[c].read) = EntryOf(row))

\* A create makes an id of its own: it is the first call about the job.
Create(c, job) ==
  /\ c = 1 /\ FreshCall(c) /\ job.on
  /\ job.kind = "at" => job.due >= clock
  /\ row' = job
  /\ call' = [call EXCEPT ![c] = [at |-> "register", op |-> "create", read |-> job, edit |-> <<>>]]
  /\ UNCHANGED <<entry, sem, run, log, clock, history, faults>>

CreateRegister(c) ==
  /\ call[c].at = "register" /\ call[c].op = "create"
  /\ Registers(call[c].read)
  /\ Ends(c)
  /\ stale' = IF entry = None THEN Misfits(c, TRUE) ELSE stale
  /\ UNCHANGED <<row, run, log, clock, behind, paused, faults>>

\* A new schedule is checked; one that is left alone is not.
Update(c, edit) ==
  /\ row # None
  /\ (DOMAIN edit \cap {"due", "kind"} # {} /\ Edited(row, edit).kind = "at") => Edited(row, edit).due >= clock
  /\ Begins(c, "update", "write", edit)
  /\ paused' = (paused /\ "on" \notin DOMAIN edit)
  /\ UNCHANGED <<row, entry, sem, run, log, clock, behind, stale, faults>>

\* Slip: the job is registered as it was read.
UpdateWriteRegistersOld(c) ==
  /\ call[c].at = "write" /\ call[c].op = "update"
  /\ IF row = None THEN Ends(c) /\ UNCHANGED <<row, behind, paused>>
     ELSE /\ row' = Edited(call[c].read, call[c].edit)
          /\ call' = [call EXCEPT ![c].at = "register"]
          /\ behind' = (behind \cup UnderWay) \ {c}
          /\ paused' = (paused /\ ~(c \in behind /\ row'.on))
  /\ UNCHANGED <<entry, sem, run, log, clock, stale, faults>>

\* update_job writes the whole row it read; a row that is gone is an error.
UpdateWrite(c) ==
  /\ call[c].at = "write" /\ call[c].op = "update"
  /\ IF row = None THEN Ends(c) /\ UNCHANGED <<row, behind, paused>>
     ELSE /\ row' = Edited(call[c].read, call[c].edit)
          /\ call' = [call EXCEPT ![c].at = "register", ![c].read = row']
          /\ behind' = (behind \cup UnderWay) \ {c}
          /\ paused' = (paused /\ ~(c \in behind /\ row'.on))
  /\ UNCHANGED <<entry, sem, run, log, clock, stale, faults>>

UpdateRegister(c) ==
  /\ call[c].at = "register" /\ call[c].op = "update"
  /\ Reregisters(call[c].read)
  /\ Ends(c)
  /\ stale' = Misfits(c, row.on => call[c].read.on)
  /\ UNCHANGED <<row, run, log, clock, behind, paused, faults>>

Pause(c) ==
  /\ row # None
  /\ Begins(c, "pause", "write", <<>>)
  /\ Deregisters /\ stale' = FALSE
  /\ UNCHANGED <<row, run, log, clock, behind, paused, faults>>

PauseWrite(c) ==
  /\ call[c].at = "write" /\ call[c].op = "pause"
  /\ row' = IF row = None THEN None ELSE [row EXCEPT !.on = FALSE]
  /\ Ends(c)
  /\ behind' = behind \cup (UnderWay \ {c}) /\ paused' = TRUE
  /\ UNCHANGED <<entry, sem, run, log, clock, stale, faults>>

Resume(c) ==
  /\ row # None
  /\ Begins(c, "resume", "write", <<>>)
  /\ paused' = FALSE
  /\ UNCHANGED <<row, entry, sem, run, log, clock, behind, stale, faults>>

ResumeWrite(c) ==
  /\ call[c].at = "write" /\ call[c].op = "resume"
  /\ IF row = None THEN Ends(c) /\ UNCHANGED <<row, behind, paused>>
     ELSE /\ row' = [row EXCEPT !.on = TRUE] /\ Goes(c, "register")
          /\ behind' = behind \cup (UnderWay \ {c}) /\ paused' = (paused /\ c \notin behind)
  /\ UNCHANGED <<entry, sem, run, log, clock, stale, faults>>

\* What is registered is the row as it was read.
ResumeRegister(c) ==
  /\ call[c].at = "register" /\ call[c].op = "resume"
  /\ Registers(call[c].read)
  /\ Ends(c)
  /\ stale' = IF entry = None THEN Misfits(c, TRUE) ELSE stale
  /\ UNCHANGED <<row, run, log, clock, behind, paused, faults>>

Delete(c) ==
  /\ row # None
  /\ Begins(c, "delete", "write", <<>>)
  /\ Deregisters /\ stale' = FALSE
  /\ UNCHANGED <<row, run, log, clock, behind, paused, faults>>

DeleteWrite(c) ==
  /\ call[c].at = "write" /\ call[c].op = "delete"
  /\ row' = None
  /\ Ends(c)
  /\ behind' = behind \cup (UnderWay \ {c})
  /\ UNCHANGED <<entry, sem, run, log, clock, stale, paused, faults>>

\* The write of an update, a pause, a resume or a delete fails.
WriteFails(c) ==
  /\ call[c].at = "write" /\ Fault
  /\ Ends(c)
  /\ stale' = (stale \/ call[c].op \in {"pause", "delete"})
  /\ UNCHANGED <<row, entry, sem, run, log, clock, behind, paused>>

\* The run's row is there before the run is.
Trigger(c, r) ==
  /\ row # None /\ FreshCall(c) /\ FreshRun(r)
  /\ Ends(c)
  /\ run' = [run EXCEPT ![r] = [Idle("start") EXCEPT !.manual = TRUE, !.fired = clock]]
  /\ log' = [log EXCEPT ![r] = "running"]
  /\ UNCHANGED <<row, entry, sem, clock, history, faults>>

-----------------------------------------------------------------------------
(* Fires                                                                   *)

Stays(r) == UNCHANGED <<row, entry, call, clock, behind, paused>>
Lets(r) == sem' = IF sem = None THEN None ELSE [sem EXCEPT !.held = @ \ {r}]
RunGoes(r, place) == run' = [run EXCEPT ![r].at = place]
RunEnds(r) == run' = [run EXCEPT ![r] = Idle("over")]
Writes(r, status) == log' = [log EXCEPT ![r] = status]

\* The scheduler drops a fire that is late, and one while its last is running.
\* An entry with an instant is gone once that is past.
Fire(r) ==
  /\ FreshRun(r)
  /\ entry # None /\ entry.next <= clock
  /\ IF clock <= entry.next + Grace /\ \A s \in Alive : run[s].manual
     THEN RunGoes(r, "start") ELSE UNCHANGED run
  /\ entry' = IF entry.kind = "at" THEN None ELSE [entry EXCEPT !.next = clock + 1]
  /\ UNCHANGED <<row, sem, log, call, clock, history, faults>>

\* No semaphore, or no room in it.
Barred == IF sem = None THEN TRUE ELSE Cardinality(sem.held) >= sem.cap

Enter(r) ==
  /\ run[r].at = "start" /\ ~Barred
  /\ sem' = [sem EXCEPT !.held = @ \cup {r}]
  /\ RunGoes(r, "check")
  /\ Stays(r) /\ UNCHANGED <<log, stale, faults>>

\* A row says so, except of a fire without a semaphore.
Skip(r) ==
  /\ run[r].at = "start" /\ Barred
  /\ IF sem = None /\ ~run[r].manual THEN UNCHANGED log ELSE Writes(r, "closed")
  /\ RunEnds(r)
  /\ Stays(r) /\ UNCHANGED <<sem, stale, faults>>

\* Slip: a job that is off runs when somebody triggers it.
RunnableIfThere == row # None

Runnable == row # None /\ row.on

\* Slip: the row a trigger made stays as it is.
CheckOffSilently(r) ==
  /\ run[r].at = "check" /\ ~Runnable
  /\ UNCHANGED log
  /\ RunEnds(r) /\ Lets(r)
  /\ Stays(r) /\ UNCHANGED <<stale, faults>>

CheckOff(r) ==
  /\ run[r].at = "check" /\ ~Runnable
  /\ IF run[r].manual THEN Writes(r, "closed") ELSE UNCHANGED log
  /\ RunEnds(r) /\ Lets(r)
  /\ Stays(r) /\ UNCHANGED <<stale, faults>>

\* Out of trading hours; a manual run does not ask.
CheckClosed(r) ==
  /\ run[r].at = "check" /\ Runnable /\ ~run[r].manual
  /\ Writes(r, "closed")
  /\ RunEnds(r) /\ Lets(r)
  /\ Stays(r) /\ UNCHANGED <<stale, faults>>

\* What the end of the run does is settled by the row as it is now.
PlanFor(job, fired) ==
  IF job.once THEN "delete"
  ELSE IF job.kind = "at" /\ fired >= job.due THEN "disable" ELSE "keep"

Check(r) ==
  /\ run[r].at = "check" /\ Runnable
  /\ run' = [run EXCEPT ![r].at = "work",
                        ![r].plan = PlanFor(row, IF run[r].manual THEN run[r].fired ELSE clock)]
  /\ Writes(r, "running")
  /\ Stays(r) /\ UNCHANGED <<sem, stale, faults>>

Work(r) ==
  /\ run[r].at = "work"
  /\ Writes(r, "closed")
  /\ RunGoes(r, "clean")
  /\ Stays(r) /\ UNCHANGED <<sem, stale, faults>>

\* An unknown kind, a template or an agent that fails: no cleanup.
WorkStops(r) ==
  /\ run[r].at = "work"
  /\ Writes(r, "closed")
  /\ RunEnds(r) /\ Lets(r)
  /\ Stays(r) /\ UNCHANGED <<stale, faults>>

Keep(r) ==
  /\ run[r].at = "clean" /\ run[r].plan = "keep"
  /\ RunEnds(r) /\ Lets(r)
  /\ Stays(r) /\ UNCHANGED <<log, stale, faults>>

Clean(r) ==
  /\ run[r].at = "clean" /\ run[r].plan # "keep"
  /\ Deregisters /\ stale' = FALSE
  /\ RunGoes(r, "drop")
  /\ UNCHANGED <<row, log, call, clock, behind, paused, faults>>

Dropped(plan) == IF plan = "delete" \/ row = None THEN None ELSE [row EXCEPT !.on = FALSE]

Drop(r) ==
  /\ run[r].at = "drop"
  /\ row' = Dropped(run[r].plan)
  /\ RunEnds(r) /\ Lets(r)
  /\ behind' = behind \cup UnderWay
  /\ UNCHANGED <<entry, log, call, clock, stale, paused, faults>>

\* A read or a write of the run fails: nobody closes its row.
RunFails(r) ==
  /\ Fault
  /\ \/ run[r].at \in {"check", "work", "clean", "drop"}
     \/ run[r].at = "start" /\ Barred
  /\ IF log[r] = "running" THEN Writes(r, "orphan") ELSE UNCHANGED log
  /\ stale' = (stale \/ run[r].at = "drop")
  /\ RunEnds(r) /\ Lets(r)
  /\ Stays(r)

-----------------------------------------------------------------------------

\* The process dies and starts again: runs and calls are gone, their rows stay.
Restart ==
  /\ Fault
  /\ run' = [r \in Fires |-> IF r \in Alive THEN Idle("over") ELSE run[r]]
  /\ log' = [r \in Fires |-> IF log[r] = "running" THEN "orphan" ELSE log[r]]
  /\ call' = [c \in Calls |-> IF call[c].at = "unused" THEN call[c] ELSE Done("over")]
  /\ IF row = None THEN Deregisters ELSE Reregisters(row)
  /\ stale' = FALSE
  /\ UNCHANGED <<row, clock, behind, paused>>

Tick ==
  /\ clock < MaxTime /\ clock' = clock + 1
  /\ UNCHANGED <<row, entry, sem, run, log, call, history, faults>>

CallStep(c) ==
  \/ \E job \in NewJobs : Create(c, job)
  \/ \E edit \in Edits : Update(c, edit)
  \/ Pause(c) \/ Resume(c) \/ Delete(c)
  \/ \E r \in Fires : Trigger(c, r)
  \/ CreateRegister(c)
  \/ UpdateWrite(c) \/ UpdateRegister(c)
  \/ PauseWrite(c) \/ ResumeWrite(c) \/ ResumeRegister(c) \/ DeleteWrite(c)
  \/ WriteFails(c)

RunStep(r) ==
  \/ Enter(r) \/ Skip(r)
  \/ CheckOff(r) \/ CheckClosed(r) \/ Check(r)
  \/ Work(r) \/ WorkStops(r)
  \/ Keep(r) \/ Clean(r) \/ Drop(r)

Next ==
  \/ \E c \in Calls : CallStep(c)
  \/ \E r \in Fires : Fire(r) \/ RunStep(r) \/ RunFails(r)
  \/ Restart
  \/ Tick

Spec == Init /\ [][Next]_vars

\* asyncio runs a task that can go on; an executor ends the attempt it started.
Fairness == \A r \in Fires : WF_vars(RunStep(r))
FairSpec == Spec /\ Fairness

-----------------------------------------------------------------------------
(* Properties                                                              *)

\* Between two changes the scheduler has an enabled job with the schedule of its
\* row, however calls and cleanups overlap: who turns it on or edits it registers it
\* afterwards, who takes it out turns it off afterwards (cron_manager.py, update_job,
\* resume_job, pause_job, delete_job, _post_fire_cleanup).  The exceptions are a call
\* that was overtaken between its read of the row and its registration and put in or
\* took out what the row does not say any more, and one that failed halfway, until
\* the job is registered again.
EnabledIsScheduled ==
  ~Changing /\ ~stale /\ Runnable =>
    /\ entry # None => /\ entry.kind = row.kind
                       /\ entry.kind = "at" => entry.next = row.due
    /\ row.kind = "cron" \/ row.due > clock => entry # None

\* Once a pause has returned, no run starts to work before somebody resumes or
\* enables the job: whatever is edited, deleted or cleaned up meanwhile, whoever
\* triggers it and whenever the process restarts (pause_job, update_job, _execute).
\* The exception is a call that was under way when the pause wrote: update_job then
\* writes the whole row it has read, and resume_job that it is on.
PauseHolds == [][paused => \A r \in Fires : run[r].at = "check" => run'[r].at # "work"]_vars

\* A run row that says running is closed by its run, or the process died or a
\* write failed (update_run on every way out of _execute).
RunsAreClosed == \A r \in Fires : log[r] = "running" ~> log[r] \in {"closed", "orphan"}

\* "set 1 for single-fire / no-overlap semantics" (_validate_max_concurrency).
NoOverlap == Cardinality(Holding) <= 1
=============================================================================
