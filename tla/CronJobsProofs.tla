----------------------------- MODULE CronJobsProofs -----------------------------
(***************************************************************************)
(* Proofs about CronJobs for any jobs, edits, clock, grace and number of   *)
(* calls, runs and failures.                                               *)
(*                                                                         *)
(* Calls and cleanups overlap as they like.  Where row and scheduler entry *)
(* disagree, somebody is under way who will settle it: register the job,  *)
(* take it out, or write its row (EntryInv).  Nobody knows of an overtaken *)
(* call; every other has read the row as it is (StageInv).  A pause holds  *)
(* because whoever may still write the row has read it when it was off, or *)
(* was overtaken (PauseInv).                                               *)
(***************************************************************************)
EXTENDS CronJobs, TLAPS

Busy(c)     == call[c].at \in {"write", "register"}
Dropping(r) == run[r].at = "drop"

\* What a call that is under way was called with.
CallFor(c) ==
  /\ Busy(c) => call[c].read \in Jobs
  /\ call[c].at = "write" => call[c].op \in {"update", "pause", "resume", "delete"}
  /\ call[c].at = "register" => call[c].op \in {"create", "update", "resume"}
  /\ call[c].at = "write" /\ call[c].op = "update" => call[c].edit \in Edits

CallInv == \A c \in Calls : CallFor(c)

\* Before the first call there is no job.
FirstInv == 1 \in Calls /\ call[1].at = "unused" =>
  /\ row = None /\ entry = None /\ ~paused
  /\ \A c \in Calls : call[c].at = "unused"
  /\ \A r \in Fires : run[r].at = "unused"

\* A call nobody overtook knows the row.
StageFor(c) == c \notin behind =>
  /\ call[c].at = "write" /\ call[c].op = "resume" => call[c].read = row
  /\ call[c].at = "register" =>
       /\ call[c].op \in {"create", "update"} => row = call[c].read
       /\ call[c].op = "resume" => row = [call[c].read EXCEPT !.on = TRUE]

StageInv == \A c \in Calls : StageFor(c)

\* The entry is of the row's kind and instant.
EntryFits == entry # None /\ row # None =>
  /\ entry.kind = row.kind
  /\ entry.kind = "at" => entry.next = row.due

\* The job is there to be scheduled.
Wanted == Runnable /\ (row.kind = "cron" \/ row.due > clock)

\* A call that will register the job, and one that has taken it out.
Registering(c) == call[c].at = "register"
Updating(c)    == call[c].at = "register" /\ call[c].op = "update"
TakingOut(c)   == call[c].at = "write" /\ call[c].op \in {"pause", "delete"}

\* Where a job is not scheduled, or not as its row says, somebody will settle it.
MissingInv == ~stale /\ Wanted /\ entry = None =>
  \/ \E c \in Calls : Registering(c) \/ TakingOut(c)
  \/ \E r \in Fires : Dropping(r)
WrongInv == ~stale /\ ~EntryFits => \E c \in Calls : Updating(c)
EntryInv == MissingInv /\ WrongInv

\* While the job is paused its row is off, and so it is in what a call may write,
\* unless the pause overtook the call.
PauseFor(c) == call[c].at = "write" =>
  /\ call[c].op = "resume" => c \in behind
  /\ call[c].op = "update" =>
       c \in behind \/ (~call[c].read.on /\ "on" \notin DOMAIN call[c].edit)
PauseInv == paused => ~Runnable /\ \A c \in Calls : PauseFor(c)

IInv == TypeOK /\ CallInv /\ FirstInv /\ StageInv /\ EntryInv /\ PauseInv

-----------------------------------------------------------------------------
(* What a step does to the calls, the runs and the memory.                 *)

CallRecs == [at : {"unused", "write", "register", "over"},
             op : {"none", "create", "update", "pause", "resume", "delete"},
             read : Jobs \cup {None}, edit : Edits \cup {<<>>}]
RunRecs  == [at : Places, manual : BOOLEAN, fired : 0 .. MaxTime, plan : Plans]

\* What an update leaves of a job is a job.
LEMMA EditedJob ==
  ASSUME CronAssumption, NEW job \in Jobs, NEW edit \in Edits
  PROVE  /\ Edited(job, edit) \in Jobs
         /\ "on" \notin DOMAIN edit => Edited(job, edit).on = job.on
<1>1. \A f \in DOMAIN edit : f \in DOMAIN Values /\ edit[f] \in Values[f]
  BY CronAssumption DEF CronAssumption
<1>2. /\ "on" \in DOMAIN edit => edit["on"] \in BOOLEAN
      /\ "kind" \in DOMAIN edit => edit["kind"] \in {"at", "cron"}
      /\ "due" \in DOMAIN edit => edit["due"] \in 0 .. MaxTime
      /\ "once" \in DOMAIN edit => edit["once"] \in BOOLEAN
      /\ "cap" \in DOMAIN edit => edit["cap"] \in Nat \ {0}
  BY <1>1 DEF Values
<1>3. /\ job["on"] \in BOOLEAN /\ job["kind"] \in {"at", "cron"} /\ job["due"] \in 0 .. MaxTime
      /\ job["once"] \in BOOLEAN /\ job["cap"] \in Nat \ {0}
  BY DEF Jobs
<1> QED  BY <1>2, <1>3 DEF Edited, Jobs

\* What the calls but c are left with.
CallsKeep(c) == /\ call' \in [Calls -> CallRecs]
                /\ \A d \in Calls \ {c} : call'[d] = call[d]

\* A call that begins has read the row.
LEMMA BeginsEffect ==
  ASSUME call \in [Calls -> CallRecs], row \in Jobs \cup {None}, NEW c \in Calls,
         NEW op \in {"update", "pause", "resume", "delete"}, NEW edit \in Edits \cup {<<>>},
         Begins(c, op, "write", edit)
  PROVE  /\ CallsKeep(c)
         /\ call'[c].at = "write" /\ call'[c].op = op /\ call'[c].read = row /\ call'[c].edit = edit
BY DEF Begins, CallsKeep, CallRecs

\* A call that goes on, or ends.
LEMMA GoesEffect ==
  ASSUME call \in [Calls -> CallRecs], NEW c \in Calls, Goes(c, "register")
  PROVE  /\ CallsKeep(c)
         /\ call'[c].at = "register" /\ call'[c].op = call[c].op /\ call'[c].read = call[c].read
BY DEF Goes, CallsKeep, CallRecs

\* A call that ends.
LEMMA EndsEffect ==
  ASSUME call \in [Calls -> CallRecs], NEW c \in Calls, Ends(c)
  PROVE  CallsKeep(c) /\ call'[c].at = "over"
BY DEF Ends, Done, CallsKeep, CallRecs

\* An update that has written goes on with what it wrote.
LEMMA WriteEffect ==
  ASSUME call \in [Calls -> CallRecs], NEW c \in Calls, NEW job \in Jobs,
         call' = [call EXCEPT ![c].at = "register", ![c].read = job]
  PROVE  CallsKeep(c) /\ call'[c].at = "register" /\ call'[c].op = call[c].op /\ call'[c].read = job
<1>1. call[c] \in CallRecs
  OBVIOUS
<1>2. PICK x \in CallRecs : x = [call[c] EXCEPT !.at = "register", !.read = job]
  BY <1>1 DEF CallRecs
<1>3. x.at = "register" /\ x.op = call[c].op /\ x.read = job
  BY <1>1, <1>2 DEF CallRecs
<1>4. call' = [call EXCEPT ![c] = x]
  BY <1>2
<1> QED  BY <1>3, <1>4 DEF CallsKeep

\* Runs that begin, go on or end.
RunsKeep(r) == /\ run' \in [Fires -> RunRecs]
               /\ \A s \in Fires \ {r} : run'[s] = run[s]

\* A run that goes on.
LEMMA RunGoesEffect ==
  ASSUME run \in [Fires -> RunRecs], NEW r \in Fires, NEW place \in Places, RunGoes(r, place)
  PROVE  RunsKeep(r) /\ run'[r].at = place /\ run'[r].plan = run[r].plan
BY DEF RunGoes, RunsKeep, RunRecs

\* A run that ends.
LEMMA RunEndsEffect ==
  ASSUME CronAssumption, run \in [Fires -> RunRecs], NEW r \in Fires, RunEnds(r)
  PROVE  RunsKeep(r) /\ run'[r].at = "over"
<1>1. Idle("over") \in RunRecs /\ Idle("over").at = "over"
  BY CronAssumption DEF CronAssumption, Idle, RunRecs, Places, Plans
<1> QED  BY <1>1 DEF RunEnds, RunsKeep

\* A run that somebody asked for.
LEMMA TriggerEffect ==
  ASSUME CronAssumption, run \in [Fires -> RunRecs], clock \in 0 .. MaxTime, NEW r \in Fires,
         run' = [run EXCEPT ![r] = [Idle("start") EXCEPT !.manual = TRUE, !.fired = clock]]
  PROVE  RunsKeep(r) /\ run'[r].at = "start"
<1>1. Idle("start") \in RunRecs /\ Idle("start").at = "start"
  BY CronAssumption DEF CronAssumption, Idle, RunRecs, Places, Plans
<1>2. PICK x \in RunRecs : x = [Idle("start") EXCEPT !.manual = TRUE, !.fired = clock]
  BY <1>1 DEF RunRecs
<1>3. x.at = "start"
  BY <1>1, <1>2 DEF RunRecs
<1> QED  BY <1>2, <1>3 DEF RunsKeep

\* A run that begins to work knows what its end will do.
LEMMA CheckEffect ==
  ASSUME run \in [Fires -> RunRecs], NEW r \in Fires, NEW plan \in Plans,
         run' = [run EXCEPT ![r].at = "work", ![r].plan = plan]
  PROVE  RunsKeep(r) /\ run'[r].at = "work"
<1>1. run[r] \in RunRecs
  OBVIOUS
<1>2. PICK x \in RunRecs : x = [run[r] EXCEPT !.at = "work", !.plan = plan]
  BY <1>1 DEF RunRecs, Places
<1>3. x.at = "work"
  BY <1>1, <1>2 DEF RunRecs
<1>4. run' = [run EXCEPT ![r] = x]
  BY <1>2
<1> QED  BY <1>3, <1>4 DEF RunsKeep

\* Leaving the semaphore does not make one.
LEMMA LetsEffect ==
  ASSUME CronAssumption, sem = None \/ sem \in Semaphores, NEW r \in Fires, Lets(r)
  PROVE  (sem' = None \/ sem' \in Semaphores) /\ (sem' = None <=> sem = None)
BY DEF Lets, Semaphores, CronAssumption

\* A job and its entry.
LEMMA EntryOfType ==
  ASSUME CronAssumption, NEW job \in Jobs, clock \in 0 .. MaxTime
  PROVE  /\ EntryOf(job) \in Entries /\ EntryOf(job) # None /\ EntryOf(job).kind = job.kind
         /\ job.kind = "at" => EntryOf(job).next = job.due
         /\ [cap |-> job.cap, held |-> {}] \in Semaphores /\ [cap |-> job.cap, held |-> {}] # None
<1>1. /\ job.kind \in {"at", "cron"} /\ job.due \in 0 .. MaxTime /\ job.cap \in Nat \ {0}
      /\ MaxTime \in Nat
  BY CronAssumption DEF Jobs, CronAssumption
<1>2. job.due \in 0 .. MaxTime + 1 /\ clock + 1 \in 0 .. MaxTime + 1
  BY <1>1
<1>3. EntryOf(job) \in Entries /\ [cap |-> job.cap, held |-> {}] \in Semaphores
  BY <1>1, <1>2 DEF EntryOf, Entries, Semaphores
<1>4. EntryOf(job) # None /\ [cap |-> job.cap, held |-> {}] # None
  BY <1>3, CronAssumption DEF CronAssumption
<1> QED  BY <1>3, <1>4 DEF EntryOf

\* What a call's step makes of the call.
LEMMA CallFields ==
  ASSUME CronAssumption, TypeOK, CallInv, NEW c \in Calls
  PROVE  /\ CallStep(c) => CallsKeep(c)
         /\ \A job \in NewJobs : Create(c, job) =>
              call'[c].at = "register" /\ call'[c].op = "create" /\ call'[c].read = job
         /\ \A edit \in Edits : Update(c, edit) =>
              /\ call'[c].at = "write" /\ call'[c].op = "update"
              /\ call'[c].read = row /\ call'[c].edit = edit
         /\ Pause(c) => call'[c].at = "write" /\ call'[c].op = "pause" /\ call'[c].read = row
         /\ Resume(c) => call'[c].at = "write" /\ call'[c].op = "resume" /\ call'[c].read = row
         /\ Delete(c) => call'[c].at = "write" /\ call'[c].op = "delete" /\ call'[c].read = row
         /\ UpdateWrite(c) =>
              \/ row = None /\ call'[c].at = "over"
              \/ /\ row' \in Jobs /\ call'[c].read = row'
                 /\ call'[c].at = "register" /\ call'[c].op = "update"
         /\ ResumeWrite(c) =>
              \/ row = None /\ call'[c].at = "over"
              \/ /\ row # None /\ call'[c].read = call[c].read
                 /\ call'[c].at = "register" /\ call'[c].op = "resume"
         /\ (\/ CreateRegister(c) \/ UpdateRegister(c) \/ PauseWrite(c) \/ ResumeRegister(c)
             \/ DeleteWrite(c) \/ WriteFails(c) \/ \E r \in Fires : Trigger(c, r))
              => call'[c].at = "over"
<1>a. call \in [Calls -> CallRecs] /\ row \in Jobs \cup {None} /\ call[c].read \in Jobs \cup {None}
  BY DEF TypeOK, CallRecs
<1>1. ASSUME NEW job \in NewJobs, Create(c, job)
      PROVE  /\ CallsKeep(c)
             /\ call'[c].at = "register" /\ call'[c].op = "create" /\ call'[c].read = job
  BY <1>a, <1>1, CronAssumption DEF Create, CallsKeep, CallRecs, CronAssumption
<1>2. ASSUME NEW edit \in Edits, Update(c, edit)
      PROVE  /\ CallsKeep(c) /\ call'[c].at = "write" /\ call'[c].op = "update"
             /\ call'[c].read = row /\ call'[c].edit = edit
  BY <1>a, <1>2, BeginsEffect DEF Update
<1>3. ASSUME Pause(c)
      PROVE  CallsKeep(c) /\ call'[c].at = "write" /\ call'[c].op = "pause" /\ call'[c].read = row
  BY <1>a, <1>3, BeginsEffect DEF Pause
<1>4. ASSUME Resume(c)
      PROVE  CallsKeep(c) /\ call'[c].at = "write" /\ call'[c].op = "resume" /\ call'[c].read = row
  BY <1>a, <1>4, BeginsEffect DEF Resume
<1>5. ASSUME Delete(c)
      PROVE  CallsKeep(c) /\ call'[c].at = "write" /\ call'[c].op = "delete" /\ call'[c].read = row
  BY <1>a, <1>5, BeginsEffect DEF Delete
<1>6. ASSUME UpdateWrite(c)
      PROVE  /\ CallsKeep(c)
             /\ \/ row = None /\ call'[c].at = "over"
                \/ /\ row' \in Jobs /\ call'[c].read = row'
                   /\ call'[c].at = "register" /\ call'[c].op = "update"
  <2>1. CASE row = None
    BY <1>a, <1>6, <2>1, EndsEffect DEF UpdateWrite
  <2>2. CASE row # None
    <3>1. call[c].read \in Jobs /\ call[c].edit \in Edits
      BY <1>6 DEF UpdateWrite, CallInv, CallFor, Busy
    <3>2. PICK job \in Jobs : job = Edited(call[c].read, call[c].edit)
      BY <3>1, EditedJob
    <3>3. row' = job /\ call' = [call EXCEPT ![c].at = "register", ![c].read = job]
      BY <1>6, <2>2, <3>2 DEF UpdateWrite
    <3>4. call[c].op = "update"
      BY <1>6 DEF UpdateWrite
    <3> QED  BY <1>a, <3>3, <3>4, WriteEffect
  <2> QED  BY <2>1, <2>2
<1>7. ASSUME ResumeWrite(c)
      PROVE  /\ CallsKeep(c)
             /\ \/ row = None /\ call'[c].at = "over"
                \/ /\ row # None /\ call'[c].read = call[c].read
                   /\ call'[c].at = "register" /\ call'[c].op = "resume"
  <2>1. CASE row = None
    BY <1>a, <1>7, <2>1, EndsEffect DEF ResumeWrite
  <2>2. CASE row # None
    BY <1>a, <1>7, <2>2, GoesEffect DEF ResumeWrite
  <2> QED  BY <2>1, <2>2
<1>8. ASSUME \/ CreateRegister(c) \/ UpdateRegister(c) \/ PauseWrite(c) \/ ResumeRegister(c)
             \/ DeleteWrite(c) \/ WriteFails(c) \/ \E r \in Fires : Trigger(c, r)
      PROVE  CallsKeep(c) /\ call'[c].at = "over"
  <2>1. Ends(c)
    BY <1>8 DEF CreateRegister, UpdateRegister, PauseWrite, ResumeRegister, DeleteWrite, WriteFails, Trigger
  <2> QED  BY <1>a, <2>1, EndsEffect
<1>9. CallStep(c) => CallsKeep(c)
  BY <1>1, <1>2, <1>3, <1>4, <1>5, <1>6, <1>7, <1>8 DEF CallStep
<1> QED  BY <1>1, <1>2, <1>3, <1>4, <1>5, <1>6, <1>7, <1>8, <1>9

\* What a run's step makes of the run.
LEMMA RunFields ==
  ASSUME CronAssumption, TypeOK, NEW r \in Fires, Fire(r) \/ RunStep(r) \/ RunFails(r)
  PROVE  /\ RunsKeep(r)
         /\ Dropping(r)' => Clean(r)
         /\ Dropping(r) => Drop(r) \/ RunFails(r)
         /\ run'[r].at = "work" => run[r].at = "work" \/ Check(r)
         /\ call' = call /\ clock' = clock /\ paused' = paused
<1>a. run \in [Fires -> RunRecs] /\ clock \in 0 .. MaxTime
  BY DEF TypeOK, RunRecs
<1>b. call' = call /\ clock' = clock /\ paused' = paused
  BY DEF Fire, RunStep, RunFails, Enter, Skip, CheckOff, CheckClosed, Check, Work, WorkStops, Keep,
         Clean, Drop, Stays, history
<1>c. Dropping(r) => Drop(r) \/ RunFails(r)
  BY DEF Fire, FreshRun, RunStep, Enter, Skip, CheckOff, CheckClosed, Check, Work, WorkStops, Keep,
         Clean, Dropping
<1>1. CASE Fire(r)
  <2>1. CASE RunGoes(r, "start")
    BY <1>a, <1>b, <1>c, <2>1, RunGoesEffect DEF Places, Dropping
  <2>2. CASE run' = run
    BY <1>1, <1>a, <1>b, <1>c, <2>2 DEF Fire, FreshRun, RunsKeep, Dropping
  <2> QED  BY <1>1, <2>1, <2>2 DEF Fire
<1>2. CASE Enter(r)
  BY <1>2, <1>a, <1>b, <1>c, RunGoesEffect DEF Enter, Places, Dropping
<1>3. CASE Skip(r) \/ CheckOff(r) \/ CheckClosed(r) \/ WorkStops(r) \/ Keep(r) \/ Drop(r) \/ RunFails(r)
  <2>1. RunEnds(r)
    BY <1>3 DEF Skip, CheckOff, CheckClosed, WorkStops, Keep, Drop, RunFails
  <2> QED  BY <1>a, <1>b, <1>c, <2>1, RunEndsEffect DEF Dropping
<1>4. CASE Check(r)
  <2>1. PICK plan \in Plans : plan = PlanFor(row, IF run[r].manual THEN run[r].fired ELSE clock)
    BY DEF PlanFor, Plans
  <2>2. run' = [run EXCEPT ![r].at = "work", ![r].plan = plan]
    BY <1>4, <2>1 DEF Check
  <2> QED  BY <1>4, <1>a, <1>b, <1>c, <2>2, CheckEffect DEF Dropping
<1>5. CASE Work(r)
  BY <1>5, <1>a, <1>b, <1>c, RunGoesEffect DEF Work, Places, Dropping
<1>6. CASE Clean(r)
  BY <1>6, <1>a, <1>b, <1>c, RunGoesEffect DEF Clean, Places, Dropping
<1> QED  BY <1>1, <1>2, <1>3, <1>4, <1>5, <1>6 DEF RunStep

\* A trigger makes a run that has not entered yet.
LEMMA TriggerFields ==
  ASSUME CronAssumption, TypeOK, NEW c \in Calls, NEW r \in Fires, Trigger(c, r)
  PROVE  RunsKeep(r) /\ run'[r].at = "start" /\ run[r].at = "unused"
BY TriggerEffect DEF Trigger, FreshRun, TypeOK, RunRecs

\* Only a trigger among a call's steps touches the runs.
LEMMA CallsLeaveRuns ==
  ASSUME NEW c \in Calls, CallStep(c)
  PROVE  run' = run \/ \E r \in Fires : Trigger(c, r)
BY DEF CallStep, Create, CreateRegister, Update, UpdateWrite, UpdateRegister, Pause, PauseWrite, Resume,
       ResumeWrite, ResumeRegister, Delete, DeleteWrite, WriteFails

-----------------------------------------------------------------------------
(* Every step keeps the types.                                             *)

\* The scheduler's entry and the semaphore are of their types after a call's step.
LEMMA MemoryOfCalls ==
  ASSUME CronAssumption, TypeOK, CallInv, NEW c \in Calls, CallStep(c)
  PROVE  entry' \in Entries \cup {None} /\ (sem' = None \/ sem' \in Semaphores)
<1>a. entry \in Entries \cup {None} /\ (sem = None \/ sem \in Semaphores) /\ clock \in 0 .. MaxTime
  BY DEF TypeOK
<1>1. CASE CreateRegister(c) \/ ResumeRegister(c)
  <2>1. call[c].read \in Jobs /\ Registers(call[c].read)
    BY <1>1 DEF CreateRegister, ResumeRegister, CallInv, CallFor, Busy
  <2> QED  BY <1>a, <2>1, EntryOfType DEF Registers
<1>2. CASE UpdateRegister(c)
  <2>1. call[c].read \in Jobs /\ Reregisters(call[c].read)
    BY <1>2 DEF UpdateRegister, CallInv, CallFor, Busy
  <2> QED  BY <1>a, <2>1, EntryOfType DEF Reregisters, Deregisters
<1>3. CASE Pause(c) \/ Delete(c)
  BY <1>3 DEF Pause, Delete, Deregisters
<1>4. CASE entry' = entry /\ sem' = sem
  BY <1>a, <1>4
<1> QED  BY <1>1, <1>2, <1>3, <1>4
         DEF CallStep, Create, Update, UpdateWrite, PauseWrite, Resume, ResumeWrite, DeleteWrite,
             WriteFails, Trigger

\* So is the row.
LEMMA RowOfCalls ==
  ASSUME CronAssumption, TypeOK, CallInv, NEW c \in Calls, CallStep(c)
  PROVE  row' \in Jobs \cup {None}
<1>a. row \in Jobs \cup {None}
  BY DEF TypeOK
<1>1. \A job \in NewJobs : Create(c, job) => row' \in Jobs \cup {None}
  BY CronAssumption DEF Create, CronAssumption
<1>2. CASE UpdateWrite(c)
  BY <1>2, <1>a, CallFields DEF UpdateWrite
<1>3. CASE PauseWrite(c) \/ ResumeWrite(c)
  <2>1. \A on \in BOOLEAN : row # None => [row EXCEPT !.on = on] \in Jobs
    BY <1>a DEF Jobs
  <2> QED  BY <1>3, <1>a, <2>1 DEF PauseWrite, ResumeWrite
<1>4. CASE DeleteWrite(c)
  BY <1>4 DEF DeleteWrite
<1>5. CASE row' = row
  BY <1>a, <1>5
<1> QED  BY <1>1, <1>2, <1>3, <1>4, <1>5
         DEF CallStep, CreateRegister, Update, UpdateRegister, Pause, Resume, ResumeRegister, Delete,
             WriteFails, Trigger

\* A call's step keeps the types.
LEMMA CallTypeStep ==
  ASSUME CronAssumption, TypeOK, CallInv, NEW c \in Calls, CallStep(c)
  PROVE  TypeOK'
<1>a. /\ run \in [Fires -> RunRecs] /\ log \in [Fires -> {"none", "running", "closed", "orphan"}]
      /\ clock \in 0 .. MaxTime /\ behind \subseteq Calls /\ stale \in BOOLEAN
      /\ paused \in BOOLEAN /\ faults \in 0 .. MaxFaults /\ MaxFaults \in Nat
  BY CronAssumption DEF TypeOK, RunRecs, CronAssumption
<1>1. CallsKeep(c)
  BY CallFields
<1>2. run' \in [Fires -> RunRecs]
  BY <1>a, CallsLeaveRuns, TriggerFields DEF RunsKeep
<1>3. log' \in [Fires -> {"none", "running", "closed", "orphan"}] /\ clock' = clock
  BY <1>a DEF CallStep, Create, CreateRegister, Update, UpdateWrite, UpdateRegister, Pause, PauseWrite,
              Resume, ResumeWrite, ResumeRegister, Delete, DeleteWrite, WriteFails, Trigger
<1>4. stale' \in BOOLEAN /\ behind' \subseteq Calls
  BY <1>a DEF CallStep, Create, CreateRegister, Update, UpdateWrite, UpdateRegister, Pause, PauseWrite,
              Resume, ResumeWrite, ResumeRegister, Delete, DeleteWrite, WriteFails, Trigger, history,
              UnderWay, Misfits
<1>5. paused' \in BOOLEAN
  BY <1>a DEF CallStep, Create, CreateRegister, Update, UpdateWrite, UpdateRegister, Pause, PauseWrite,
              Resume, ResumeWrite, ResumeRegister, Delete, DeleteWrite, WriteFails, Trigger, history
<1>6. faults' \in 0 .. MaxFaults
  <2>1. CASE WriteFails(c)
    BY <1>a, <2>1 DEF WriteFails, Fault
  <2>2. CASE faults' = faults
    BY <1>a, <2>2
  <2> QED  BY <2>1, <2>2
           DEF CallStep, Create, CreateRegister, Update, UpdateWrite, UpdateRegister, Pause, PauseWrite,
               Resume, ResumeWrite, ResumeRegister, Delete, DeleteWrite, Trigger
<1> QED  BY <1>1, <1>2, <1>3, <1>4, <1>5, <1>6, <1>a, MemoryOfCalls, RowOfCalls
         DEF TypeOK, CallsKeep, CallRecs, RunRecs

\* A run's step keeps the types.
LEMMA RunTypeStep ==
  ASSUME CronAssumption, TypeOK, NEW r \in Fires, Fire(r) \/ RunStep(r) \/ RunFails(r)
  PROVE  TypeOK'
<1>a. /\ row \in Jobs \cup {None} /\ entry \in Entries \cup {None}
      /\ (sem = None \/ sem \in Semaphores)
      /\ log \in [Fires -> {"none", "running", "closed", "orphan"}]
      /\ clock \in 0 .. MaxTime /\ MaxTime \in Nat
      /\ behind \subseteq Calls /\ stale \in BOOLEAN /\ paused \in BOOLEAN
      /\ faults \in 0 .. MaxFaults /\ MaxFaults \in Nat
  BY CronAssumption DEF TypeOK, CronAssumption
<1>1. RunsKeep(r) /\ call' = call /\ clock' = clock /\ paused' = paused
  BY RunFields
<1>2. row' \in Jobs \cup {None}
  <2>1. CASE Drop(r)
    BY <1>a, <2>1 DEF Drop, Dropped, Jobs
  <2>2. CASE row' = row
    BY <1>a, <2>2
  <2> QED  BY <2>1, <2>2 DEF Fire, RunStep, RunFails, Enter, Skip, CheckOff, CheckClosed, Check, Work,
                             WorkStops, Keep, Clean, Stays
<1>3. entry' \in Entries \cup {None}
  <2>1. CASE Fire(r)
    BY <1>a, <2>1 DEF Fire, Entries
  <2>2. CASE entry' \in {entry, None}
    BY <1>a, <2>2
  <2> QED  BY <2>1, <2>2 DEF RunStep, RunFails, Enter, Skip, CheckOff, CheckClosed, Check, Work,
                             WorkStops, Keep, Clean, Drop, Stays, Deregisters
<1>4. sem' = None \/ sem' \in Semaphores
  <2>1. CASE Enter(r)
    <3>1. sem \in Semaphores
      BY <1>a, <2>1 DEF Enter, Barred
    <3> QED  BY <2>1, <3>1 DEF Enter, Semaphores
  <2>2. CASE Lets(r)
    BY <1>a, <2>2, LetsEffect
  <2>3. CASE sem' \in {sem, None}
    BY <1>a, <2>3
  <2> QED  BY <2>1, <2>2, <2>3 DEF Fire, RunStep, RunFails, Skip, CheckOff, CheckClosed, Check, Work,
                             WorkStops, Keep, Clean, Drop, Deregisters
<1>5. log' \in [Fires -> {"none", "running", "closed", "orphan"}]
  BY <1>a DEF Fire, RunStep, RunFails, Enter, Skip, CheckOff, CheckClosed, Check, Work,
              WorkStops, Keep, Clean, Drop, Writes
<1>6. stale' \in BOOLEAN /\ behind' \subseteq Calls
  BY <1>a DEF Fire, RunStep, RunFails, Enter, Skip, CheckOff, CheckClosed, Check, Work,
              WorkStops, Keep, Clean, Drop, Stays, history, UnderWay
<1>7. faults' \in 0 .. MaxFaults
  BY <1>a DEF Fire, RunStep, RunFails, Enter, Skip, CheckOff, CheckClosed, Check, Work,
              WorkStops, Keep, Clean, Drop, Fault
<1> QED  BY <1>1, <1>2, <1>3, <1>4, <1>5, <1>6, <1>7, <1>a DEF TypeOK, RunsKeep, RunRecs

-----------------------------------------------------------------------------
(* What calls were called with, and the first of them.                     *)

\* What a call was called with stays what it is.
LEMMA CallInvStep ==
  ASSUME CronAssumption, TypeOK, CallInv, NEW c \in Calls, CallStep(c)
  PROVE  CallInv'
<1>a. CallsKeep(c) /\ row \in Jobs \cup {None}
  BY CallFields DEF TypeOK
<1>1. CallFor(c)'
  <2>1. ASSUME NEW job \in NewJobs, Create(c, job) PROVE CallFor(c)'
    BY <2>1, CallFields, CronAssumption DEF CallFor, Busy, CronAssumption
  <2>2. ASSUME NEW edit \in Edits, Update(c, edit) PROVE CallFor(c)'
    <3>1. row # None
      BY <2>2 DEF Update
    <3> QED  BY <1>a, <2>2, <3>1, CallFields DEF CallFor, Busy
  <2>3. CASE Pause(c) \/ Resume(c) \/ Delete(c)
    <3>1. row # None
      BY <2>3 DEF Pause, Resume, Delete
    <3> QED  BY <1>a, <2>3, <3>1, CallFields DEF CallFor, Busy
  <2>4. CASE UpdateWrite(c)
    BY <2>4, CallFields DEF CallFor, Busy
  <2>5. CASE ResumeWrite(c)
    BY <2>5, CallFields DEF CallFor, Busy, ResumeWrite, CallInv
  <2>6. CASE call'[c].at = "over"
    BY <2>6 DEF CallFor, Busy
  <2> QED  BY <2>1, <2>2, <2>3, <2>4, <2>5, <2>6, CallFields DEF CallStep
<1>2. \A d \in Calls \ {c} : CallFor(d)'
  BY <1>a DEF CallsKeep, CallInv, CallFor, Busy
<1> QED  BY <1>1, <1>2 DEF CallInv

\* After a call's step there has been a first call.
LEMMA CallFirstStep ==
  ASSUME CronAssumption, TypeOK, CallInv, FirstInv, NEW c \in Calls, CallStep(c)
  PROVE  FirstInv'
<1>a. CallsKeep(c) /\ c \in Nat /\ (c # 1 => 1 < c) /\ 1 \in Calls
  BY CallFields, CronAssumption DEF Calls, CronAssumption
<1>1. call'[c].at # "unused"
  BY CallFields DEF CallStep
<1>2. c # 1 => call[1].at # "unused"
  BY <1>a DEF FirstInv, CallStep, Create, CreateRegister, Update, UpdateWrite, UpdateRegister, Pause,
              PauseWrite, Resume, ResumeWrite, ResumeRegister, Delete, DeleteWrite, WriteFails,
              Trigger, Begins, FreshCall
<1>3. call'[1].at # "unused"
  BY <1>1, <1>2, <1>a DEF CallsKeep
<1> QED  BY <1>3 DEF FirstInv

\* A run has been asked for by a call, or by an entry that a call made.
LEMMA RunFirstStep ==
  ASSUME CronAssumption, TypeOK, FirstInv, NEW r \in Fires, Fire(r) \/ RunStep(r) \/ RunFails(r)
  PROVE  FirstInv'
<1>1. 1 \in Calls => call[1].at # "unused"
  BY DEF FirstInv, Fire, RunStep, RunFails, Enter, Skip, CheckOff, CheckClosed, Check, Work,
         WorkStops, Keep, Clean, Drop
<1> QED  BY <1>1, RunFields DEF FirstInv

-----------------------------------------------------------------------------
(* A call nobody overtook knows the row.                                   *)

\* Who writes the row overtakes every other call under way.
LEMMA OthersOvertaken ==
  ASSUME NEW c, NEW d \in Calls \ {c}, Busy(d)
  PROVE  d \in UnderWay \ {c}
BY DEF UnderWay, Busy

\* A call's step leaves what the others know of the row, or overtakes them.
LEMMA CallStageStep ==
  ASSUME CronAssumption, TypeOK, CallInv, FirstInv, StageInv, NEW c \in Calls, CallStep(c)
  PROVE  StageInv'
<1>a. row \in Jobs \cup {None} /\ CallsKeep(c) /\ CallFor(c) /\ StageFor(c)
  BY CallFields DEF TypeOK, CallInv, StageInv
<1>1. ASSUME NEW d \in Calls \ {c} PROVE StageFor(d)'
  <2>a. call'[d] = call[d] /\ StageFor(d)
    BY <1>a DEF CallsKeep, StageInv
  <2>1. CASE row' = row /\ behind' = behind
    BY <2>a, <2>1 DEF StageFor
  <2>2. CASE Busy(d) => d \in behind'
    BY <2>a, <2>2 DEF StageFor, Busy
  <2>3. ASSUME NEW job \in NewJobs, Create(c, job) PROVE ~Busy(d)
    BY <2>3 DEF Create, FirstInv, FreshCall, Busy
  <2>4. CASE UpdateWrite(c) \/ PauseWrite(c) \/ ResumeWrite(c) \/ DeleteWrite(c)
    BY <2>1, <2>2, <2>4, OthersOvertaken DEF UpdateWrite, PauseWrite, ResumeWrite, DeleteWrite
  <2>5. CASE UNCHANGED <<row, behind>>
    BY <2>1, <2>5
  <2> QED  BY <2>2, <2>3, <2>4, <2>5
           DEF CallStep, CreateRegister, Update, UpdateRegister, Pause, Resume, ResumeRegister,
               Delete, WriteFails, Trigger, history
<1>2. StageFor(c)'
  <2>1. ASSUME NEW job \in NewJobs, Create(c, job) PROVE StageFor(c)'
    <3>1. row' = job
      BY <2>1 DEF Create
    <3> QED  BY <2>1, <3>1, CallFields DEF StageFor
  <2>2. ASSUME NEW edit \in Edits, Update(c, edit) PROVE StageFor(c)'
    BY <2>2, CallFields DEF StageFor
  <2>3. CASE Pause(c) \/ Delete(c)
    BY <2>3, CallFields DEF StageFor
  <2>4. CASE Resume(c)
    <3>1. row' = row
      BY <2>4 DEF Resume
    <3> QED  BY <2>4, <3>1, CallFields DEF StageFor
  <2>5. CASE UpdateWrite(c)
    BY <2>5, CallFields DEF StageFor
  <2>6. CASE ResumeWrite(c)
    <3>1. CASE row # None /\ call'[c].read = call[c].read
               /\ call'[c].at = "register" /\ call'[c].op = "resume"
      <4>1. row' = [row EXCEPT !.on = TRUE] /\ behind' = behind \cup (UnderWay \ {c})
        BY <2>6, <3>1 DEF ResumeWrite
      <4>2. c \notin behind' => call[c].read = row
        BY <1>a, <2>6, <4>1 DEF ResumeWrite, StageFor
      <4> QED  BY <3>1, <4>1, <4>2 DEF StageFor
    <3>2. CASE call'[c].at = "over"
      BY <3>2 DEF StageFor
    <3> QED  BY <2>6, <3>1, <3>2, CallFields
  <2>7. CASE call'[c].at = "over"
    BY <2>7 DEF StageFor
  <2> QED  BY <2>1, <2>2, <2>3, <2>4, <2>5, <2>6, <2>7, CallFields DEF CallStep
<1> QED  BY <1>1, <1>2 DEF StageInv

\* A cleanup that writes the row overtakes every call under way.
LEMMA RunStageStep ==
  ASSUME CronAssumption, TypeOK, StageInv, NEW r \in Fires, Fire(r) \/ RunStep(r) \/ RunFails(r)
  PROVE  StageInv'
<1>a. call' = call
  BY RunFields
<1>1. CASE Drop(r)
  <2>1. ASSUME NEW c \in Calls, Busy(c) PROVE c \in behind'
    BY <1>1, <2>1 DEF Drop, UnderWay, Busy
  <2> QED  BY <1>a, <2>1 DEF StageInv, StageFor, Busy
<1>2. CASE UNCHANGED <<row, behind>>
  BY <1>a, <1>2 DEF StageInv, StageFor
<1> QED  BY <1>1, <1>2
         DEF Fire, RunStep, RunFails, Enter, Skip, CheckOff, CheckClosed, Check, Work, WorkStops, Keep,
             Clean, Stays, history

-----------------------------------------------------------------------------
(* Where row and entry disagree, somebody will settle it.                  *)

\* A call's step leaves the other calls and the cleanups where they are.
LEMMA CallsRest ==
  ASSUME CronAssumption, TypeOK, CallInv, NEW c \in Calls, CallStep(c)
  PROVE  /\ \A d \in Calls \ {c} : call'[d] = call[d]
         /\ \A r \in Fires : Dropping(r)' <=> Dropping(r)
<1>1. CASE run' = run
  BY <1>1, CallFields DEF CallsKeep, Dropping
<1>2. ASSUME NEW s \in Fires, Trigger(c, s)
      PROVE  \A r \in Fires : Dropping(r)' <=> Dropping(r)
  <2>1. RunsKeep(s) /\ run'[s].at = "start" /\ run[s].at = "unused"
    BY <1>2, TriggerFields
  <2> QED  BY <2>1 DEF RunsKeep, Dropping
<1> QED  BY <1>1, <1>2, CallsLeaveRuns, CallFields DEF CallsKeep

\* A job turned off is off.
LEMMA OffRow ==
  ASSUME row \in Jobs \cup {None}, row' = IF row = None THEN None ELSE [row EXCEPT !.on = FALSE]
  PROVE  /\ ~Runnable'
         /\ row' # None => row # None /\ row'.kind = row.kind /\ row'.due = row.due
BY DEF Runnable, Jobs

\* After a call's step a job that is not scheduled will be.
LEMMA CallMissingStep ==
  ASSUME CronAssumption, TypeOK, CallInv, StageInv, MissingInv, NEW c \in Calls, CallStep(c)
  PROVE  MissingInv'
<1>a. /\ row \in Jobs \cup {None} /\ clock \in 0 .. MaxTime /\ entry \in Entries \cup {None}
      /\ CallFor(c) /\ StageFor(c)
  BY DEF TypeOK, CallInv, StageInv
<1> SUFFICES ASSUME ~stale', Wanted', entry' = None
             PROVE  \/ \E d \in Calls : Registering(d)' \/ TakingOut(d)'
                    \/ \E r \in Fires : Dropping(r)'
  BY DEF MissingInv
<1>1. ASSUME NEW job \in NewJobs, Create(c, job) PROVE Registering(c)'
  BY <1>1, CallFields DEF Registering
<1>2. CASE CreateRegister(c) \/ ResumeRegister(c)
  <2>1. call[c].read \in Jobs /\ Registers(call[c].read)
    BY <1>2, <1>a DEF CreateRegister, ResumeRegister, CallFor, Busy
  <2>2. entry' # None
    BY <2>1, <1>a, EntryOfType DEF Registers
  <2> QED  BY <2>2
<1>3. CASE UpdateRegister(c)
  <2>1. call[c].read \in Jobs /\ Reregisters(call[c].read) /\ row' = row
    BY <1>3, <1>a DEF UpdateRegister, CallFor, Busy
  <2>2. ~call[c].read.on
    BY <2>1, <1>a, EntryOfType DEF Reregisters
  <2>3. row # None /\ row.on
    BY <2>1 DEF Wanted, Runnable
  <2>4. c \notin behind
    BY <1>3, <2>2, <2>3 DEF UpdateRegister, Misfits
  <2>5. row = call[c].read
    BY <1>3, <1>a, <2>4 DEF UpdateRegister, StageFor
  <2> QED  BY <2>2, <2>3, <2>5
<1>4. CASE Pause(c) \/ Delete(c)
  BY <1>4, CallFields DEF TakingOut
<1>5. CASE PauseWrite(c) \/ DeleteWrite(c)
  BY <1>5, <1>a, OffRow DEF PauseWrite, DeleteWrite, Wanted, Runnable
<1>6. CASE UpdateWrite(c) \/ ResumeWrite(c)
  <2>1. CASE row = None
    BY <1>6, <2>1 DEF UpdateWrite, ResumeWrite, Wanted, Runnable
  <2>2. CASE row # None
    BY <1>6, <2>2, CallFields DEF Registering
  <2> QED  BY <2>1, <2>2
<1>7. ASSUME UNCHANGED <<row, entry, clock>>, stale' => stale, stale => stale',
             ~Registering(c), ~TakingOut(c)
      PROVE  \/ \E d \in Calls : Registering(d)' \/ TakingOut(d)'
             \/ \E r \in Fires : Dropping(r)'
  <2>1. Wanted /\ entry = None /\ ~stale
    BY <1>7 DEF Wanted, Runnable
  <2>2. \/ \E d \in Calls \ {c} : Registering(d) \/ TakingOut(d)
        \/ \E r \in Fires : Dropping(r)
    BY <1>7, <2>1 DEF MissingInv
  <2> QED  BY <2>2, CallsRest DEF Registering, TakingOut
<1>8. CASE WriteFails(c)
  <2>1. ~stale /\ call[c].at = "write" /\ call[c].op \notin {"pause", "delete"}
    BY <1>8 DEF WriteFails
  <2> QED  BY <1>7, <1>8, <2>1 DEF WriteFails, Registering, TakingOut
<1>9. ASSUME \/ \E edit \in Edits : Update(c, edit)
             \/ Resume(c)
             \/ \E r \in Fires : Trigger(c, r)
      PROVE  \/ \E d \in Calls : Registering(d)' \/ TakingOut(d)'
             \/ \E r \in Fires : Dropping(r)'
  <2>1. UNCHANGED <<row, entry, clock, stale>> /\ call[c].at = "unused"
    BY <1>9 DEF Update, Resume, Trigger, Begins, FreshCall, history
  <2> QED  BY <1>7, <2>1 DEF Registering, TakingOut
<1> QED  BY <1>1, <1>2, <1>3, <1>4, <1>5, <1>6, <1>8, <1>9 DEF CallStep

\* The entry of a job as it is registered.
LEMMA EntryOfFits ==
  ASSUME CronAssumption, TypeOK, NEW c \in Calls, CallFor(c), StageFor(c), Registering(c),
         NEW on \in BOOLEAN, ~Misfits(c, on), row' = row, entry' = EntryOf(call[c].read)
  PROVE  EntryFits'
<1>a. /\ row \in Jobs \cup {None} /\ clock \in 0 .. MaxTime /\ call[c].read \in Jobs
      /\ call[c].op \in {"create", "update", "resume"}
  BY DEF TypeOK, CallFor, Busy, Registering
<1>1. CASE row = None
  BY <1>1 DEF EntryFits
<1>2. CASE row # None /\ c \in behind
  <2>1. entry' = EntryOf(row) /\ row \in Jobs
    BY <1>a, <1>2 DEF Misfits
  <2> QED  BY <1>a, <2>1, EntryOfType DEF EntryFits
<1>3. CASE row # None /\ c \notin behind
  <2>1. row = call[c].read \/ row = [call[c].read EXCEPT !.on = TRUE]
    BY <1>a, <1>3 DEF StageFor, Registering
  <2>2. row.kind = call[c].read.kind /\ row.due = call[c].read.due
    BY <1>a, <2>1 DEF Jobs
  <2> QED  BY <1>a, <2>2, EntryOfType DEF EntryFits
<1> QED  BY <1>1, <1>2, <1>3

\* After a call's step an entry that is not as the row says will be.
LEMMA CallWrongStep ==
  ASSUME CronAssumption, TypeOK, CallInv, FirstInv, StageInv, WrongInv, NEW c \in Calls, CallStep(c)
  PROVE  WrongInv'
<1>a. /\ row \in Jobs \cup {None} /\ clock \in 0 .. MaxTime /\ entry \in Entries \cup {None}
      /\ CallFor(c) /\ StageFor(c)
  BY DEF TypeOK, CallInv, StageInv
<1> SUFFICES ASSUME ~stale', ~EntryFits' PROVE \E d \in Calls : Updating(d)'
  BY DEF WrongInv
<1>1. ASSUME NEW job \in NewJobs, Create(c, job) PROVE FALSE
  <2>1. entry' = None
    BY <1>1 DEF Create, FirstInv, FreshCall
  <2> QED  BY <2>1 DEF EntryFits
<1>7. ASSUME ~Updating(c), ~stale, ~EntryFits PROVE \E d \in Calls : Updating(d)'
  <2>1. \E d \in Calls \ {c} : Updating(d)
    BY <1>7 DEF WrongInv
  <2> QED  BY <2>1, CallsRest DEF Updating
<1>2. CASE CreateRegister(c) \/ ResumeRegister(c)
  <2>1. Registers(call[c].read) /\ row' = row /\ Registering(c) /\ ~Updating(c)
    BY <1>2 DEF CreateRegister, ResumeRegister, Registering, Updating
  <2>2. CASE entry = None
    <3>1. ~Misfits(c, TRUE) /\ entry' = EntryOf(call[c].read)
      BY <1>2, <2>1, <2>2 DEF CreateRegister, ResumeRegister, Registers
    <3> QED  BY <1>a, <2>1, <3>1, EntryOfFits
  <2>3. CASE entry # None
    <3>1. ~stale /\ entry' = entry
      BY <1>2, <2>1, <2>3 DEF CreateRegister, ResumeRegister, Registers
    <3> QED  BY <1>7, <2>1, <3>1 DEF EntryFits
  <2> QED  BY <2>2, <2>3
<1>3. CASE UpdateRegister(c)
  <2>1. /\ Reregisters(call[c].read) /\ row' = row /\ Registering(c)
        /\ ~Misfits(c, row.on => call[c].read.on)
    BY <1>3 DEF UpdateRegister, Registering
  <2>2. entry' = EntryOf(call[c].read)
    BY <2>1 DEF Reregisters, Deregisters, EntryFits
  <2> QED  BY <1>a, <2>1, <2>2, EntryOfFits
<1>4. CASE Pause(c) \/ Delete(c)
  BY <1>4 DEF Pause, Delete, Deregisters, EntryFits
<1>5. CASE UpdateWrite(c) /\ row # None
  BY <1>5, CallFields DEF Updating
<1>6. CASE UpdateWrite(c) /\ row = None
  BY <1>6 DEF UpdateWrite, EntryFits
<1>8. CASE PauseWrite(c) \/ ResumeWrite(c) \/ DeleteWrite(c)
  <2>1. /\ row' # None => row # None /\ row'.kind = row.kind /\ row'.due = row.due
        /\ entry' = entry /\ stale' = stale /\ ~Updating(c)
    BY <1>8, <1>a, OffRow DEF PauseWrite, ResumeWrite, DeleteWrite, Jobs, Updating
  <2> QED  BY <1>7, <2>1 DEF EntryFits
<1>9. ASSUME \/ \E edit \in Edits : Update(c, edit)
             \/ Resume(c) \/ WriteFails(c)
             \/ \E r \in Fires : Trigger(c, r)
      PROVE  \E d \in Calls : Updating(d)'
  <2>1. UNCHANGED <<row, entry>> /\ (stale => stale') /\ ~Updating(c)
    <3>1. CASE WriteFails(c)
      BY <3>1 DEF WriteFails, Updating
    <3>2. ASSUME NEW edit \in Edits, Update(c, edit)
          PROVE  UNCHANGED <<row, entry, stale>> /\ call[c].at = "unused"
      BY <3>2 DEF Update, Begins, FreshCall
    <3>3. CASE Resume(c)
      BY <3>3 DEF Resume, Begins, FreshCall, Updating
    <3>4. ASSUME NEW r \in Fires, Trigger(c, r)
          PROVE  UNCHANGED <<row, entry, stale>> /\ call[c].at = "unused"
      BY <3>4 DEF Trigger, FreshCall, history
    <3> QED  BY <1>9, <3>1, <3>2, <3>3, <3>4 DEF Updating
  <2> QED  BY <1>7, <2>1 DEF EntryFits
<1> QED  BY <1>1, <1>2, <1>3, <1>4, <1>5, <1>6, <1>8, <1>9 DEF CallStep

\* A fire takes an entry that is due: one with an instant is gone, another is put off.
Due == /\ entry # None /\ entry.next <= clock
       /\ entry' = IF entry.kind = "at" THEN None ELSE [entry EXCEPT !.next = clock + 1]

\* An entry that a fire takes is not missed, and one that is put off stays as it was.
LEMMA DueEntry ==
  ASSUME CronAssumption, TypeOK, Due, row' = row, clock' = clock, EntryFits
  PROVE  EntryFits' /\ (entry' = None => ~Wanted')
<1>a. /\ clock \in Nat /\ entry \in Entries /\ (row # None => row.due \in Nat /\ row.kind \in {"at", "cron"})
      /\ entry # None
  BY CronAssumption DEF TypeOK, CronAssumption, Due, Jobs
<1>1. CASE entry.kind = "at"
  <2>1. entry' = None /\ entry.next <= clock
    BY <1>1 DEF Due
  <2>2. row # None => row.kind = "at" /\ row.due = entry.next
    BY <1>a, <1>1 DEF EntryFits
  <2>3. ~Wanted'
    BY <1>a, <2>1, <2>2 DEF Wanted, Runnable
  <2> QED  BY <2>1, <2>3 DEF EntryFits
<1>2. CASE entry.kind # "at"
  <2>1. entry' = [entry EXCEPT !.next = clock + 1]
    BY <1>2 DEF Due
  <2>2. entry'.kind = entry.kind
    BY <1>a, <2>1 DEF Entries
  <2>3. entry' # None
    <3>1. clock \in 0 .. MaxTime /\ MaxTime \in Nat
      BY CronAssumption DEF TypeOK, CronAssumption
    <3>2. clock + 1 \in 0 .. MaxTime + 1
      BY <3>1
    <3>3. entry' \in Entries
      BY <1>a, <2>1, <3>2 DEF Entries
    <3> QED  BY <3>3, CronAssumption DEF CronAssumption
  <2>4. EntryFits'
    BY <1>a, <1>2, <2>2, <2>3 DEF EntryFits
  <2> QED  BY <2>3, <2>4
<1> QED  BY <1>1, <1>2

\* A run's step leaves nothing unsettled.
LEMMA RunEntryStep ==
  ASSUME CronAssumption, TypeOK, EntryInv, NEW r \in Fires, Fire(r) \/ RunStep(r) \/ RunFails(r)
  PROVE  EntryInv'
<1>a. /\ RunsKeep(r) /\ call' = call /\ clock' = clock /\ row \in Jobs \cup {None}
      /\ MissingInv /\ WrongInv
  BY RunFields DEF TypeOK, EntryInv
<1>b. \A s \in Fires \ {r} : Dropping(s) => Dropping(s)'
  BY <1>a DEF RunsKeep, Dropping
<1>c. ASSUME row' = row, entry' = entry, stale => stale', ~stale' => ~Dropping(r)
      PROVE  EntryInv'
  <2>1. MissingInv'
    <3> SUFFICES ASSUME ~stale', Wanted', entry' = None
                 PROVE  \/ \E d \in Calls : Registering(d)' \/ TakingOut(d)'
                        \/ \E s \in Fires : Dropping(s)'
      BY DEF MissingInv
    <3>1. ~stale /\ Wanted /\ entry = None /\ ~Dropping(r)
      BY <1>a, <1>c DEF Wanted, Runnable
    <3>2. \/ \E d \in Calls : Registering(d) \/ TakingOut(d)
          \/ \E s \in Fires \ {r} : Dropping(s)
      BY <1>a, <3>1 DEF MissingInv
    <3> QED  BY <1>a, <1>b, <3>2 DEF Registering, TakingOut
  <2>2. WrongInv'
    BY <1>a, <1>c DEF WrongInv, EntryFits, Updating
  <2> QED  BY <2>1, <2>2 DEF EntryInv
<1>1. CASE Fire(r)
  <2>1. Due /\ row' = row /\ stale' = stale
    BY <1>1 DEF Fire, Due, history
  <2>2. CASE EntryFits
    <3>1. EntryFits' /\ (entry' = None => ~Wanted')
      BY <1>a, <2>1, <2>2, DueEntry
    <3> QED  BY <3>1 DEF EntryInv, MissingInv, WrongInv
  <2>3. CASE ~EntryFits /\ ~stale
    <3>1. \E d \in Calls : Updating(d)'
      BY <1>a, <2>3 DEF WrongInv, Updating
    <3> QED  BY <3>1 DEF EntryInv, MissingInv, WrongInv, Updating, Registering
  <2>4. CASE stale
    BY <2>1, <2>4 DEF EntryInv, MissingInv, WrongInv
  <2> QED  BY <2>2, <2>3, <2>4
<1>2. CASE Clean(r)
  <2>1. entry' = None /\ Dropping(r)'
    BY <1>2, <1>a, RunGoesEffect DEF Clean, Deregisters, Dropping, TypeOK, RunRecs, Places
  <2> QED  BY <2>1 DEF EntryInv, MissingInv, WrongInv, EntryFits
<1>3. CASE Drop(r)
  <2>1. row' = Dropped(run[r].plan) /\ entry' = entry /\ stale' = stale
    BY <1>3 DEF Drop
  <2>2. /\ ~Runnable'
        /\ row' # None => row # None /\ row'.kind = row.kind /\ row'.due = row.due
    BY <1>a, <2>1 DEF Dropped, Runnable, Jobs
  <2>3. MissingInv'
    BY <2>2 DEF MissingInv, Wanted
  <2>4. WrongInv'
    BY <1>a, <2>1, <2>2 DEF WrongInv, EntryFits, Updating
  <2> QED  BY <2>3, <2>4 DEF EntryInv
<1>4. CASE RunFails(r)
  BY <1>c, <1>4 DEF RunFails, Stays, Dropping
<1>5. CASE RunStep(r) /\ ~Clean(r) /\ ~Drop(r)
  BY <1>c, <1>5 DEF RunStep, Enter, Skip, CheckOff, CheckClosed, Check, Work, WorkStops, Keep, Stays,
                    Dropping
<1> QED  BY <1>1, <1>2, <1>3, <1>4, <1>5

-----------------------------------------------------------------------------
(* A pause holds.                                                          *)

\* A call's step does not turn a paused job on.
LEMMA CallPauseStep ==
  ASSUME CronAssumption, TypeOK, CallInv, FirstInv, PauseInv, NEW c \in Calls, CallStep(c)
  PROVE  PauseInv'
<1>a. row \in Jobs \cup {None} /\ CallsKeep(c) /\ CallFor(c)
  BY CallFields DEF TypeOK, CallInv
<1> SUFFICES ASSUME paused' PROVE PauseInv'
  BY DEF PauseInv
<1>1. CASE PauseWrite(c)
  <2>1. ~Runnable' /\ call'[c].at = "over"
    BY <1>1, <1>a, OffRow, CallFields DEF PauseWrite
  <2>2. \A d \in Calls \ {c} : PauseFor(d)'
    <3> SUFFICES ASSUME NEW d \in Calls \ {c} PROVE PauseFor(d)'
      OBVIOUS
    <3>1. Busy(d) => d \in behind'
      BY <1>1, OthersOvertaken DEF PauseWrite
    <3>2. call'[d] = call[d]
      BY <1>a DEF CallsKeep
    <3> QED  BY <3>1, <3>2 DEF PauseFor, Busy
  <2> QED  BY <2>1, <2>2 DEF PauseInv, PauseFor
<1>2. CASE ~PauseWrite(c)
  <2>1. paused
    BY <1>2 DEF CallStep, Create, CreateRegister, Update, UpdateWrite, UpdateRegister, Pause,
                Resume, ResumeWrite, ResumeRegister, Delete, DeleteWrite, WriteFails, Trigger, history
  <2>2. ~Runnable'
    <3>1. ASSUME NEW job \in NewJobs, Create(c, job) PROVE FALSE
      BY <2>1, <3>1 DEF Create, FirstInv, FreshCall
    <3>2. CASE UpdateWrite(c) /\ row # None
      <4>1. /\ call[c].read \in Jobs /\ call[c].edit \in Edits
            /\ row' = Edited(call[c].read, call[c].edit)
            /\ c \in behind \/ (~call[c].read.on /\ "on" \notin DOMAIN call[c].edit)
        BY <1>a, <2>1, <3>2 DEF UpdateWrite, CallFor, Busy, PauseInv, PauseFor
      <4>2. CASE c \in behind
        BY <3>2, <4>2 DEF UpdateWrite, Runnable
      <4>3. CASE ~call[c].read.on /\ "on" \notin DOMAIN call[c].edit
        BY <4>1, <4>3, EditedJob DEF Runnable
      <4> QED  BY <4>1, <4>2, <4>3
    <3>3. CASE ResumeWrite(c) /\ row # None
      <4>1. c \in behind /\ c \notin behind
        BY <2>1, <3>3 DEF ResumeWrite, PauseInv, PauseFor
      <4> QED  BY <4>1
    <3>4. CASE DeleteWrite(c)
      BY <3>4 DEF DeleteWrite, Runnable
    <3>5. CASE row' = row
      BY <2>1, <3>5 DEF PauseInv, Runnable
    <3> QED  BY <1>2, <3>1, <3>2, <3>3, <3>4, <3>5
             DEF CallStep, CreateRegister, Update, UpdateWrite, UpdateRegister, Pause, Resume,
                 ResumeWrite, ResumeRegister, Delete, WriteFails, Trigger
  <2>3. PauseFor(c)'
    <3>1. ASSUME NEW edit \in Edits, Update(c, edit)
          PROVE  /\ call'[c].op = "update" /\ ~call'[c].read.on /\ "on" \notin DOMAIN call'[c].edit
      <4>1. row # None /\ "on" \notin DOMAIN edit
        BY <3>1 DEF Update
      <4>2. ~row.on
        BY <2>1, <4>1 DEF PauseInv, Runnable
      <4> QED  BY <3>1, <4>1, <4>2, CallFields
    <3>2. ~Resume(c)
      BY DEF Resume
    <3>3. CASE Pause(c) \/ Delete(c)
      BY <3>3, CallFields DEF PauseFor
    <3>4. CASE call'[c].at # "write"
      BY <3>4 DEF PauseFor
    <3> QED  BY <3>1, <3>2, <3>3, <3>4, CallFields DEF CallStep, PauseFor
  <2>4. ASSUME NEW d \in Calls \ {c} PROVE PauseFor(d)'
    <3>1. call'[d] = call[d] /\ PauseFor(d)
      BY <1>a, <2>1 DEF CallsKeep, PauseInv
    <3>2. d \in behind => d \in behind'
      BY <1>2 DEF CallStep, Create, CreateRegister, Update, UpdateWrite, UpdateRegister, Pause, Resume,
                  ResumeWrite, ResumeRegister, Delete, DeleteWrite, WriteFails, Trigger, history
    <3> QED  BY <3>1, <3>2 DEF PauseFor
  <2> QED  BY <2>1, <2>2, <2>3, <2>4 DEF PauseInv
<1> QED  BY <1>1, <1>2

\* A run's step turns no job on.
LEMMA RunPauseStep ==
  ASSUME CronAssumption, TypeOK, PauseInv, NEW r \in Fires, Fire(r) \/ RunStep(r) \/ RunFails(r)
  PROVE  PauseInv'
<1>a. call' = call /\ paused' = paused /\ row \in Jobs \cup {None}
  BY RunFields DEF TypeOK
<1>1. (~Runnable => ~Runnable') /\ behind \subseteq behind'
  <2>1. CASE Drop(r)
    BY <1>a, <2>1 DEF Drop, Dropped, Runnable, Jobs
  <2>2. CASE row' = row /\ behind' = behind
    BY <2>2 DEF Runnable
  <2> QED  BY <2>1, <2>2 DEF Fire, RunStep, RunFails, Enter, Skip, CheckOff, CheckClosed, Check, Work,
                             WorkStops, Keep, Clean, Stays, history
<1> QED  BY <1>a, <1>1 DEF PauseInv, PauseFor

-----------------------------------------------------------------------------
(* The invariant holds, and what follows from it.                          *)

\* With no job there is nothing to say.
LEMMA InitInv == CronAssumption /\ Init => IInv
<1> SUFFICES ASSUME CronAssumption, Init PROVE IInv
  OBVIOUS
<1>a. /\ \A c \in Calls : call[c].at = "unused" /\ call[c] \in CallRecs
      /\ \A r \in Fires : run[r].at = "unused" /\ run[r] \in RunRecs
  BY CronAssumption DEF Init, Idle, Done, CallRecs, RunRecs, Places, Plans, CronAssumption
<1>1. call \in [Calls -> CallRecs] /\ run \in [Fires -> RunRecs]
      /\ log \in [Fires -> {"none", "running", "closed", "orphan"}]
  BY <1>a DEF Init
<1>2. TypeOK
  <2>1. clock \in 0 .. MaxTime /\ faults \in 0 .. MaxFaults
    BY CronAssumption DEF Init, CronAssumption
  <2>2. /\ row = None /\ entry = None /\ sem = None
        /\ behind = {} /\ stale = FALSE /\ paused = FALSE
    BY DEF Init
  <2> QED  BY <1>1, <2>1, <2>2 DEF TypeOK, CallRecs, RunRecs
<1>3. CallInv /\ FirstInv /\ StageInv
  BY <1>a DEF Init, CallInv, CallFor, FirstInv, StageInv, StageFor, Busy
<1>4. EntryInv /\ PauseInv
  BY <1>a DEF Init, EntryInv, MissingInv, WrongInv, PauseInv, EntryFits, Wanted, Runnable
<1> QED  BY <1>2, <1>3, <1>4 DEF IInv

\* After a restart no call and no run is under way, and the job is registered as its row says.
LEMMA RestartStep ==
  ASSUME CronAssumption, IInv, Restart
  PROVE  IInv'
<1>a. /\ call \in [Calls -> CallRecs] /\ run \in [Fires -> RunRecs]
      /\ log \in [Fires -> {"none", "running", "closed", "orphan"}]
      /\ row \in Jobs \cup {None} /\ clock \in 0 .. MaxTime
      /\ behind \subseteq Calls /\ paused \in BOOLEAN
      /\ faults \in 0 .. MaxFaults /\ MaxFaults \in Nat
  BY CronAssumption DEF IInv, TypeOK, CallRecs, RunRecs, CronAssumption
<1>b. UNCHANGED <<row, clock, behind, paused>> /\ stale' = FALSE
  BY DEF Restart
<1>1. Idle("over") \in RunRecs /\ Done("over") \in CallRecs
      /\ Idle("over").at = "over" /\ Done("over").at = "over"
  BY CronAssumption DEF CronAssumption, Idle, Done, RunRecs, CallRecs, Places, Plans
<1>2. /\ run' \in [Fires -> RunRecs]
      /\ \A r \in Fires : \/ run'[r] = run[r] /\ run[r].at \in {"unused", "over"}
                          \/ run'[r].at = "over" /\ run[r].at # "unused"
  BY <1>a, <1>1 DEF Restart, Alive
<1>3. /\ call' \in [Calls -> CallRecs]
      /\ \A c \in Calls : \/ call'[c] = call[c] /\ call[c].at = "unused"
                          \/ call'[c].at = "over" /\ call[c].at # "unused"
  BY <1>a, <1>1 DEF Restart
<1>4. /\ entry' \in Entries \cup {None} /\ (sem' = None \/ sem' \in Semaphores)
      /\ EntryFits' /\ (Runnable' => entry' # None)
  <2>1. CASE row = None
    BY <1>b, <2>1 DEF Restart, Deregisters, Runnable, EntryFits
  <2>2. CASE row # None
    <3>1. row \in Jobs /\ Reregisters(row)
      BY <1>a, <2>2 DEF Restart
    <3>2. CASE row.on
      BY <1>a, <1>b, <3>1, <3>2, EntryOfType DEF Reregisters, EntryFits
    <3>3. CASE ~row.on
      BY <1>b, <3>1, <3>3 DEF Reregisters, Deregisters, EntryFits, Runnable
    <3> QED  BY <3>2, <3>3
  <2> QED  BY <2>1, <2>2
<1>5. log' \in [Fires -> {"none", "running", "closed", "orphan"}] /\ faults' \in 0 .. MaxFaults
  BY <1>a DEF Restart, Fault
<1>6. TypeOK'
  BY <1>a, <1>b, <1>2, <1>3, <1>4, <1>5 DEF TypeOK, CallRecs, RunRecs
<1>7. CallInv' /\ StageInv'
  BY <1>3 DEF CallInv, CallFor, StageInv, StageFor, Busy
<1>8. FirstInv'
  <2> SUFFICES ASSUME 1 \in Calls, call'[1].at = "unused" PROVE FirstInv'
    BY DEF FirstInv
  <2>1. /\ row = None /\ ~paused
        /\ \A c \in Calls : call[c].at = "unused"
        /\ \A r \in Fires : run[r].at = "unused"
    BY <1>3 DEF IInv, FirstInv
  <2>2. entry' = None
    BY <2>1 DEF Restart, Deregisters
  <2> QED  BY <1>b, <1>2, <1>3, <2>1, <2>2 DEF FirstInv
<1>9. EntryInv'
  BY <1>4 DEF EntryInv, MissingInv, WrongInv, Wanted
<1>10. PauseInv'
  BY <1>b, <1>3 DEF IInv, PauseInv, PauseFor, Runnable
<1> QED  BY <1>6, <1>7, <1>8, <1>9, <1>10 DEF IInv

\* The passing of time, or nothing.
LEMMA IdleStep ==
  ASSUME CronAssumption, IInv, Tick \/ UNCHANGED vars
  PROVE  IInv'
<1>1. /\ UNCHANGED <<row, entry, sem, run, log, call, behind, stale, paused, faults>>
      /\ clock' \in {clock, clock + 1} /\ clock' \in 0 .. MaxTime
  BY CronAssumption DEF Tick, vars, history, IInv, TypeOK, CronAssumption
<1>2. TypeOK'
  BY <1>1 DEF IInv, TypeOK
<1>3. CallInv' /\ FirstInv' /\ StageInv' /\ PauseInv'
  BY <1>1 DEF IInv, CallInv, CallFor, FirstInv, StageInv, StageFor, PauseInv, PauseFor, Busy, Runnable
<1>4. Wanted' => Wanted
  <2>1. clock \in Nat /\ row \in Jobs \cup {None} /\ (row # None => row.due \in Nat)
    BY CronAssumption DEF IInv, TypeOK, CronAssumption, Jobs
  <2> QED  BY <1>1, <2>1 DEF Wanted, Runnable
<1>5. EntryInv'
  BY <1>1, <1>4 DEF IInv, EntryInv, MissingInv, WrongInv, EntryFits, Registering, Updating, TakingOut,
                    Dropping
<1> QED  BY <1>2, <1>3, <1>5 DEF IInv

\* Every step keeps the invariant.
LEMMA Inductive == CronAssumption /\ IInv /\ [Next]_vars => IInv'
<1> SUFFICES ASSUME CronAssumption, IInv, [Next]_vars PROVE IInv'
  OBVIOUS
<1>1. ASSUME NEW c \in Calls, CallStep(c) PROVE IInv'
  BY <1>1, CallTypeStep, CallInvStep, CallFirstStep, CallStageStep, CallMissingStep, CallWrongStep,
     CallPauseStep DEF IInv, EntryInv
<1>2. ASSUME NEW r \in Fires, Fire(r) \/ RunStep(r) \/ RunFails(r) PROVE IInv'
  <2>1. call' = call
    BY <1>2, RunFields DEF IInv
  <2>2. CallInv'
    BY <2>1 DEF IInv, CallInv, CallFor, Busy
  <2> QED  BY <1>2, <2>2, RunTypeStep, RunFirstStep, RunStageStep, RunEntryStep, RunPauseStep DEF IInv
<1>3. CASE Restart
  BY <1>3, RestartStep
<1>4. CASE Tick \/ UNCHANGED vars
  BY <1>4, IdleStep
<1> QED  BY <1>1, <1>2, <1>3, <1>4 DEF Next

\* The invariant holds for any jobs, edits, clock and number of calls and runs.
THEOREM Invariant == Spec => []IInv
<1>1. Init => IInv
  BY InitInv, CronAssumption
<1>2. IInv /\ [Next]_vars => IInv'
  BY Inductive, CronAssumption
<1> QED  BY <1>1, <1>2, PTL DEF Spec

\* The row, the scheduler's entry, the semaphore, the runs and the calls are of the
\* types they are declared with.
THEOREM TypeCorrect == Spec => []TypeOK
<1>1. IInv => TypeOK
  BY DEF IInv
<1> QED  BY <1>1, Invariant, PTL

\* Between two changes the scheduler has an enabled job with the schedule of its row,
\* however calls and cleanups overlapped, unless a call that was overtaken registered
\* what the row does not say any more or one failed halfway (_register, update_job).
THEOREM EnabledStayScheduled == Spec => []EnabledIsScheduled
<1>1. IInv => EnabledIsScheduled
  <2> SUFFICES ASSUME IInv, ~Changing, ~stale, Runnable
               PROVE  /\ entry # None => /\ entry.kind = row.kind
                                         /\ entry.kind = "at" => entry.next = row.due
                      /\ row.kind = "cron" \/ row.due > clock => entry # None
    BY DEF EnabledIsScheduled
  <2>1. /\ \A c \in Calls : ~Registering(c) /\ ~TakingOut(c) /\ ~Updating(c)
        /\ \A r \in Fires : ~Dropping(r)
    BY DEF Changing, UnderWay, Registering, TakingOut, Updating, Dropping
  <2>2. EntryFits /\ (Wanted => entry # None)
    BY <2>1 DEF IInv, EntryInv, MissingInv, WrongInv
  <2> QED  BY <2>2 DEF EntryFits, Wanted, Runnable
<1> QED  BY <1>1, Invariant, PTL

\* Once a pause has returned, no run starts to work before somebody resumes or
\* enables the job (pause_job, update_job, _execute).
THEOREM PausesHold == Spec => PauseHolds
<1>1. IInv /\ [Next]_vars =>
        [paused => \A r \in Fires : run[r].at = "check" => run'[r].at # "work"]_vars
  <2> SUFFICES ASSUME IInv, Next, paused, NEW r \in Fires, run[r].at = "check"
               PROVE  run'[r].at # "work"
    OBVIOUS
  <2>1. ASSUME NEW c \in Calls, CallStep(c) PROVE run'[r].at # "work"
    <3>1. CASE run' = run
      BY <3>1
    <3>2. ASSUME NEW s \in Fires, Trigger(c, s) PROVE run'[r].at # "work"
      BY <3>2, TriggerFields, CronAssumption DEF IInv, RunsKeep
    <3> QED  BY <2>1, <3>1, <3>2, CallsLeaveRuns
  <2>2. ASSUME NEW s \in Fires, Fire(s) \/ RunStep(s) \/ RunFails(s) PROVE run'[r].at # "work"
    <3>1. ~Check(s)
      BY DEF Check, IInv, PauseInv
    <3>2. RunsKeep(s) /\ (run'[s].at = "work" => run[s].at = "work")
      BY <2>2, <3>1, RunFields, CronAssumption DEF IInv
    <3> QED  BY <3>2 DEF RunsKeep
  <2>3. CASE Restart
    <3>1. r \in Alive
      BY DEF Alive
    <3> QED  BY <2>3, <3>1 DEF Restart, Idle
  <2>4. CASE Tick
    BY <2>4 DEF Tick
  <2> QED  BY <2>1, <2>2, <2>3, <2>4 DEF Next
<1> QED  BY <1>1, Invariant, PTL DEF Spec, PauseHolds

=================================================================================
