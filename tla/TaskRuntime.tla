----------------------------- MODULE TaskRuntime -----------------------------
(***************************************************************************)
(* The trading tasks of the platform service.  A task has a row in the     *)
(* tasks table and, once loaded, an instance in memory whose status the    *)
(* cycles look at.  Calls of the API create, start, pause, stop, update    *)
(* and delete tasks, tick them, send resumed orders and throw the kill     *)
(* switch.  A call changes memory and the row in two steps with awaits in  *)
(* between, and calls overlap.                                             *)
(*                                                                         *)
(* A step is the code between two awaits of the asyncio loop.              *)
(***************************************************************************)
EXTENDS Naturals

CONSTANTS
  Tasks,   \* the tasks there may ever be (ids are fresh, never reused)
  Callers, \* calls that can be in flight at once
  None,
  MaxCalls, MaxFaults \* bounds of the model

ASSUME RuntimeAssumption ==
  /\ None \notin Tasks \cup Callers
  /\ MaxCalls \in Nat /\ MaxFaults \in Nat

VARIABLES
  row,   \* status of each task in the tasks table
  conf,  \* which version of the settings the row has
  kill,  \* kill_switch_enabled in the database
  mem,   \* status of each loaded instance
  built, \* the version the instance's worker was built from
  lock,  \* who holds the task's cycle lock
  call,  \* the calls in flight
  calls, faults, \* how many happened
  split,   \* tasks whose row and memory may differ: two calls changed them in
           \* one another's middle, or a write failed
  raced,   \* tasks whose start came in another call's middle, or was not written
  excused, \* tasks that may run under the kill switch
  dated    \* tasks whose worker was built from settings that were old by then, or
           \* was not built although the settings changed

db      == <<row, conf, kill>>
memory  == <<mem, built, lock>>
counts  == <<calls, faults>>
history == <<split, raced, excused, dated>>
vars == <<db, memory, call, counts, history>>

Stored == {"configured", "running", "paused", "stopped", "error"}
Gone   == {"none", "deleted"}
Ops == {"none", "create", "start", "pause", "stop", "delete", "bulk", "settings",
        "mode", "tick", "resume", "killOn", "killOff"}
Places == {"idle", "check", "record", "switch", "build", "write", "register",
           "close", "store", "fresh", "rebuild", "list", "loop", "session",
           "lock", "cycle", "error"}
Calls == [op : Ops, at : Places,
          task : Tasks \cup {None}, \* the task it is at
          todo : SUBSET Tasks,      \* tasks of its snapshot still to come
          saw : Nat,                \* version of the settings it read
          alone : BOOLEAN,          \* no other call changed its task meanwhile
          late : BOOLEAN]           \* asked while the switch was on
NoCall == [op |-> "none", at |-> "idle", task |-> None, todo |-> {}, saw |-> 0,
           alone |-> TRUE, late |-> FALSE]

TypeOK ==
  /\ row \in [Tasks -> Stored \cup Gone]
  /\ conf \in [Tasks -> Nat]
  /\ kill \in BOOLEAN
  /\ mem \in [Tasks -> Stored \cup {"none"}]
  /\ built \in [Tasks -> Nat]
  /\ lock \in [Tasks -> Callers \cup {None}]
  /\ call \in [Callers -> Calls]
  /\ calls \in Nat /\ faults \in Nat
  /\ split \subseteq Tasks /\ raced \subseteq Tasks
  /\ excused \subseteq Tasks /\ dated \subseteq Tasks

\* The process has just come up, with tasks restored from their rows.
Init ==
  /\ row \in [Tasks -> {"none", "running"}]
  /\ conf = [t \in Tasks |-> 0]
  /\ kill = FALSE
  /\ mem = row
  /\ built = [t \in Tasks |-> 0]
  /\ lock = [t \in Tasks |-> None]
  /\ call = [c \in Callers |-> NoCall]
  /\ calls = 0 /\ faults = 0
  /\ split = {} /\ raced = {} /\ excused = {} /\ dated = {}

Exists(t) == row[t] \notin Gone
Loaded(t) == mem[t] # "none"

Target == [pause |-> "paused", stop |-> "stopped", start |-> "running"]
Fault == faults < MaxFaults /\ faults' = faults + 1
NoFault == faults' = faults

Goto(c, at) == call' = [call EXCEPT ![c].at = at]
Done(c)     == call' = [call EXCEPT ![c] = NoCall]
At(c, ops, at) == call[c].op \in ops /\ call[c].at = at

\* Call d has changed one of row and memory of task t, and not yet the other.
Halfway(d, t) == call[d].task = t /\ call[d].at \in {"write", "register", "close", "error"}

\* Call c changes task t: calls halfway through t are not alone, and a call that
\* holds an instance which c replaces or drops has lost it.
Disturb(c, t, swaps) ==
  [d \in Callers |->
     IF d # c /\ (Halfway(d, t) \/ (swaps /\ call[d].task = t /\ call[d].at = "rebuild"))
     THEN [call[d] EXCEPT !.alone = FALSE] ELSE call[d]]

Undisturbed(c, t) == \A d \in Callers \ {c} : ~Halfway(d, t)

\* The first of the two changes of c to task t; c goes on at place at.
Opens(c, t, at, swaps, agree) ==
  call' = [Disturb(c, t, swaps) EXCEPT ![c].at = at, ![c].task = t, ![c].saw = 0,
                                       ![c].alone = agree /\ Undisturbed(c, t)]

\* The second one; rest is what c goes on with, agree whether it went well.
Closes(c, t, rest, agree) ==
  /\ call' = [Disturb(c, t, FALSE) EXCEPT ![c] = rest]
  /\ split' = IF agree /\ call[c].alone /\ Undisturbed(c, t)
              THEN split \ {t} ELSE split \cup {t}

\* A start that changes the instance while another call is halfway.
Races(c, t) == raced' = IF call[c].op = "start" /\ ~Undisturbed(c, t) THEN raced \cup {t} ELSE raced

\* A worker is built from this version of the settings.
Dates(t, version) == dated' = IF version = conf[t] THEN dated \ {t} ELSE dated \cup {t}

-----------------------------------------------------------------------------
(* Calls begin.                                                            *)

First(op) == CASE op = "create" -> "build"
               [] op = "tick" -> "switch"
               [] op = "resume" -> "lock"
               [] op \in {"killOn", "killOff"} -> "switch"
               [] op = "bulk" -> "check"
               [] OTHER -> "record"

Begin(c, op, t) ==
  /\ call[c].op = "none"
  /\ calls < MaxCalls /\ calls' = calls + 1
  /\ op # "none" /\ (t = None <=> op \in {"tick", "killOn", "killOff"})
  /\ op = "create" => row[t] = "none" /\ \A d \in Callers : call[d].task # t
  /\ t # None /\ op # "create" => row[t] # "none"
  /\ call' = [call EXCEPT ![c] = [NoCall EXCEPT !.op = op, !.at = First(op),
                                                !.task = t, !.late = kill]]
  /\ UNCHANGED <<db, memory, faults, history>>

\* delete_tasks refuses running tasks, by the rows it reads first.
BulkCheck(c) ==
  /\ At(c, {"bulk"}, "check")
  /\ IF row[call[c].task] \in Gone \cup {"running"} THEN Done(c) ELSE Goto(c, "record")
  /\ UNCHANGED <<db, memory, counts, history>>

NoRecord(c) ==
  /\ call[c].at = "record" /\ ~Exists(call[c].task)
  /\ Done(c)
  /\ UNCHANGED <<db, memory, counts, history>>

-----------------------------------------------------------------------------
(* create_task, start_task, pause_task, stop_task                          *)

Register(t, status, version) == /\ mem' = [mem EXCEPT ![t] = status]
                                /\ built' = [built EXCEPT ![t] = version]

CreateInserts(c) ==
  LET t == call[c].task IN
  /\ At(c, {"create"}, "build")
  /\ \/ Fault /\ Done(c) /\ row' = row
     \/ /\ NoFault
        /\ row' = [row EXCEPT ![t] = "configured"]
        /\ Opens(c, t, "register", FALSE, TRUE)
  /\ UNCHANGED <<conf, kill, memory, calls, history>>

CreateRegisters(c) ==
  LET t == call[c].task IN
  /\ At(c, {"create"}, "register")
  /\ Register(t, "configured", 0)
  /\ split' = IF call[c].alone /\ Undisturbed(c, t) THEN split ELSE split \cup {t}
  /\ call' = [Disturb(c, t, TRUE) EXCEPT ![c] = NoCall]
  /\ Dates(t, 0)
  /\ UNCHANGED <<db, lock, counts, raced, excused>>

\* An instance that is loaded gets its status at once; another one is built.
Starters == {"start", "pause", "stop"}

Sets(c, t) ==
  IF Loaded(t)
  THEN /\ mem' = [mem EXCEPT ![t] = Target[call[c].op]]
       /\ Opens(c, t, "write", FALSE, TRUE) /\ built' = built /\ Races(c, t)
  ELSE Goto(c, "build") /\ UNCHANGED <<mem, built, raced>>

ReadRecord(c) ==
  LET t == call[c].task IN
  /\ At(c, Starters, "record") /\ Exists(t)
  /\ IF call[c].op = "start" \/ ~Loaded(t)
     THEN /\ call' = [call EXCEPT ![c].saw = conf[t],
                                  ![c].at = IF call[c].op = "start" THEN "switch" ELSE "build"]
          /\ UNCHANGED <<mem, built, raced>>
     ELSE Sets(c, t)
  /\ UNCHANGED <<db, lock, counts, split, excused, dated>>

StartReadsSwitch(c) ==
  /\ At(c, {"start"}, "switch")
  /\ IF kill THEN Done(c) /\ UNCHANGED <<mem, built, raced>> ELSE Sets(c, call[c].task)
  /\ UNCHANGED <<db, lock, counts, split, excused, dated>>

\* _load_or_build_task: the new instance takes the place of any other.
Builds(c) ==
  LET t == call[c].task IN
  /\ At(c, Starters, "build")
  /\ \/ Fault /\ Done(c) /\ UNCHANGED <<mem, built, raced, dated>>
     \/ /\ NoFault
        /\ Register(t, Target[call[c].op], call[c].saw) /\ Dates(t, call[c].saw)
        /\ Opens(c, t, "write", TRUE, TRUE) /\ Races(c, t)
  /\ UNCHANGED <<db, lock, calls, split, excused>>

\* Slip: the instance gets its status again once the row has it.
WritesStatusTwice(c) ==
  LET t == call[c].task IN
  /\ At(c, Starters, "write")
  /\ \/ /\ NoFault /\ Exists(t)
        /\ row' = [row EXCEPT ![t] = Target[call[c].op]]
        /\ mem' = [mem EXCEPT ![t] = Target[call[c].op]]
        /\ Closes(c, t, NoCall, TRUE)
        /\ raced' = IF call[c].op = "start" /\ Undisturbed(c, t) THEN raced \ {t} ELSE raced
     \/ /\ Fault \/ (~Exists(t) /\ NoFault)
        /\ row' = row /\ mem' = mem /\ Closes(c, t, NoCall, FALSE)
        /\ raced' = IF call[c].op = "start" THEN raced \cup {t} ELSE raced
  /\ excused' = IF kill /\ call[c].op = "start" THEN excused \cup {t} ELSE excused
  /\ UNCHANGED <<conf, kill, built, lock, calls, dated>>

WritesStatus(c) ==
  LET t == call[c].task IN
  /\ At(c, Starters, "write")
  /\ \/ /\ NoFault /\ Exists(t)
        /\ row' = [row EXCEPT ![t] = Target[call[c].op]]
        /\ Closes(c, t, NoCall, TRUE)
        /\ raced' = IF call[c].op = "start" /\ Undisturbed(c, t) THEN raced \ {t} ELSE raced
     \/ /\ Fault \/ (~Exists(t) /\ NoFault)
        /\ row' = row /\ Closes(c, t, NoCall, FALSE)
        /\ raced' = IF call[c].op = "start" THEN raced \cup {t} ELSE raced
  /\ excused' = IF kill /\ call[c].op = "start" THEN excused \cup {t} ELSE excused
  /\ UNCHANGED <<conf, kill, memory, calls, dated>>

-----------------------------------------------------------------------------
(* delete_task, update_task                                                *)

\* Slip: the instance stays registered.
DeleteKeepsInstance(c) ==
  LET t == call[c].task IN
  /\ At(c, {"delete", "bulk"}, "record") /\ Exists(t)
  /\ Opens(c, t, "close", TRUE, TRUE)
  /\ UNCHANGED <<db, memory, counts, history>>

DeletePops(c) ==
  LET t == call[c].task IN
  /\ At(c, {"delete", "bulk"}, "record") /\ Exists(t)
  /\ mem' = [mem EXCEPT ![t] = "none"]
  /\ Opens(c, t, "close", TRUE, TRUE)
  /\ UNCHANGED <<db, built, lock, counts, history>>

DeleteRow(c) ==
  LET t == call[c].task IN
  /\ At(c, {"delete", "bulk"}, "close")
  /\ \/ /\ NoFault /\ Exists(t)
        /\ row' = [row EXCEPT ![t] = "deleted"]
        /\ Closes(c, t, NoCall, TRUE)
     \/ /\ Fault \/ (~Exists(t) /\ NoFault)
        /\ row' = row /\ Closes(c, t, NoCall, FALSE)
  /\ UNCHANGED <<conf, kill, memory, calls, raced, excused, dated>>

UpdateReads(c) ==
  LET t == call[c].task IN
  /\ At(c, {"settings", "mode"}, "record") /\ Exists(t)
  /\ Goto(c, "store")
  /\ UNCHANGED <<db, memory, counts, history>>

UpdateStores(c) ==
  LET t == call[c].task IN
  /\ At(c, {"settings", "mode"}, "store")
  /\ IF Exists(t) THEN conf' = [conf EXCEPT ![t] = @ + 1] /\ Goto(c, "fresh")
     ELSE conf' = conf /\ Done(c)
  /\ UNCHANGED <<row, kill, memory, counts, history>>

\* Slip: the instance keeps its worker.
RebuiltNever == {}

\* Only new settings lead to a new worker; a new mode alone does not.
Rebuilt == {"settings"}

UpdateReadsBack(c) ==
  LET t == call[c].task IN
  /\ At(c, {"settings", "mode"}, "fresh")
  /\ IF Exists(t) /\ Loaded(t) /\ call[c].op \in Rebuilt
     THEN call' = [call EXCEPT ![c].at = "rebuild", ![c].saw = conf[t], ![c].alone = TRUE]
     ELSE Done(c)
  /\ dated' = IF Loaded(t) /\ call[c].op = "mode" THEN dated \cup {t} ELSE dated
  /\ UNCHANGED <<db, memory, counts, split, raced, excused>>

\* The old worker is closed before the new one is built; of an instance that was
\* replaced meanwhile nobody sees the new one.
UpdateRebuilds(c) ==
  LET t == call[c].task IN
  /\ At(c, {"settings", "mode"}, "rebuild")
  /\ \/ Fault /\ dated' = dated \cup {t} /\ built' = built
     \/ /\ NoFault
        /\ IF call[c].alone
           THEN built' = [built EXCEPT ![t] = call[c].saw] /\ Dates(t, call[c].saw)
           ELSE UNCHANGED <<built, dated>>
  /\ Done(c)
  /\ UNCHANGED <<db, mem, lock, calls, split, raced, excused>>

-----------------------------------------------------------------------------
(* set_kill_switch                                                         *)

RunningRows == {t \in Tasks : row[t] = "running"}
Running     == {t \in Tasks : mem[t] = "running"}

KillWrites(c) ==
  /\ At(c, {"killOn", "killOff"}, "switch")
  /\ \/ Fault /\ Done(c) /\ UNCHANGED <<kill, excused>>
     \/ /\ NoFault /\ call[c].op = "killOn"
        /\ kill' = TRUE /\ Goto(c, "list") /\ excused' = excused
     \/ /\ NoFault /\ call[c].op = "killOff"
        /\ kill' = FALSE /\ excused' = {}
        /\ call' = [d \in Callers |-> IF d = c THEN NoCall
                                      ELSE [call[d] EXCEPT !.late = FALSE]]
  /\ UNCHANGED <<row, conf, memory, calls, split, raced, dated>>

KillLists(c) ==
  /\ At(c, {"killOn"}, "list")
  /\ \/ Fault /\ Done(c) /\ excused' = excused \cup RunningRows \cup Running
     \/ /\ NoFault /\ excused' = excused
        /\ IF RunningRows = {} THEN Done(c)
           ELSE call' = [call EXCEPT ![c].at = "loop", ![c].todo = RunningRows]
  /\ UNCHANGED <<db, memory, calls, split, raced, dated>>

\* Slip: only the row is stopped.
KillStopsRowOnly(c, t) ==
  /\ At(c, {"killOn"}, "loop") /\ t \in call[c].todo
  /\ Opens(c, t, "write", FALSE, mem[t] \in {"running", "stopped", "none"})
  /\ UNCHANGED <<db, memory, counts, history>>

\* The row is written even where the instance does not run any more.
KillStops(c, t) ==
  /\ At(c, {"killOn"}, "loop") /\ t \in call[c].todo
  /\ mem' = [mem EXCEPT ![t] = IF @ = "running" THEN "stopped" ELSE @]
  /\ Opens(c, t, "write", FALSE, mem[t] \in {"running", "stopped", "none"})
  /\ UNCHANGED <<db, built, lock, counts, history>>

KillStopsRow(c) ==
  LET t == call[c].task
      left == call[c].todo \ {t}
      rest == IF left = {} THEN NoCall
              ELSE [NoCall EXCEPT !.op = "killOn", !.at = "loop", !.todo = left,
                                  !.late = call[c].late]
  IN /\ At(c, {"killOn"}, "write")
     /\ \/ /\ NoFault /\ Exists(t)
           /\ row' = [row EXCEPT ![t] = "stopped"]
           /\ Closes(c, t, rest, TRUE) /\ excused' = excused
        \/ /\ Fault \/ (~Exists(t) /\ NoFault)
           /\ row' = row /\ Closes(c, t, NoCall, FALSE)
           /\ excused' = excused \cup left
     /\ UNCHANGED <<conf, kill, memory, calls, raced, dated>>

-----------------------------------------------------------------------------
(* tick_once, and an approved order sent again by the scheduler's sweep    *)

\* The call goes on with some task of its snapshot, or ends.
Next1(c, left) ==
  IF left = {} THEN NoCall
  ELSE [NoCall EXCEPT !.op = "tick", !.at = "session", !.late = call[c].late,
                      !.task = CHOOSE t \in left : TRUE, !.todo = left]

TickReadsSwitch(c) ==
  /\ At(c, {"tick"}, "switch")
  /\ \E wanted \in SUBSET Running :
       call' = [call EXCEPT ![c] = Next1(c, IF kill THEN {} ELSE wanted)]
  /\ UNCHANGED <<db, memory, counts, history>>

TickSession(c) ==
  /\ At(c, {"tick"}, "session")
  /\ Goto(c, "lock")
  /\ UNCHANGED <<db, memory, counts, history>>

Takes(c, t) == lock[t] = None /\ lock' = [lock EXCEPT ![t] = c]
Frees(c, t) == lock' = [lock EXCEPT ![t] = None]

TickCycle(c) ==
  /\ At(c, {"tick"}, "lock")
  /\ Takes(c, call[c].task) /\ Goto(c, "cycle")
  /\ UNCHANGED <<db, mem, built, counts, history>>

\* The sweep looks at the instance and at the lock, not at the switch.
ResumeTakes(c) ==
  LET t == call[c].task IN
  /\ At(c, {"resume"}, "lock")
  /\ IF mem[t] = "running" /\ lock[t] = None
     THEN Takes(c, t) /\ Goto(c, "cycle")
     ELSE Done(c) /\ lock' = lock
  /\ UNCHANGED <<db, mem, built, counts, history>>

CycleEnds(c) ==
  LET t == call[c].task IN
  /\ call[c].at = "cycle"
  /\ Frees(c, t)
  /\ call' = [call EXCEPT ![c] = Next1(c, call[c].todo \ {t})]
  /\ UNCHANGED <<db, mem, built, counts, history>>

\* _execute_instance_cycle and persist_task_error
CycleFails(c) ==
  LET t == call[c].task IN
  /\ At(c, {"tick"}, "cycle") /\ Fault
  /\ mem' = [mem EXCEPT ![t] = IF Loaded(t) THEN "error" ELSE @]
  /\ Opens(c, t, "error", FALSE, TRUE)
  /\ UNCHANGED <<db, built, lock, calls, history>>

ErrorWritten(c) ==
  LET t == call[c].task IN
  /\ At(c, {"tick"}, "error")
  /\ Frees(c, t)
  /\ \/ /\ NoFault /\ Exists(t)
        /\ row' = [row EXCEPT ![t] = "error"]
        /\ Closes(c, t, Next1(c, call[c].todo \ {t}), TRUE)
     \/ /\ Fault \/ (~Exists(t) /\ NoFault)
        /\ row' = row /\ Closes(c, t, NoCall, FALSE)
  /\ UNCHANGED <<conf, kill, mem, built, calls, raced, excused, dated>>

-----------------------------------------------------------------------------
\* The process dies and comes back: restore_tasks loads every row, and a task
\* whose worker cannot be built is marked so.
Restart(broken) ==
  /\ Fault
  /\ row' = [t \in Tasks |-> IF t \in broken THEN "error" ELSE row[t]]
  /\ mem' = [t \in Tasks |-> IF Exists(t) /\ t \notin broken THEN row[t] ELSE "none"]
  /\ built' = conf
  /\ lock' = [t \in Tasks |-> None]
  /\ call' = [c \in Callers |-> NoCall]
  /\ split' = {} /\ raced' = {} /\ dated' = {}
  /\ excused' = IF kill THEN excused \cup RunningRows ELSE {}
  /\ UNCHANGED <<conf, kill, calls>>

Step(c) ==
  \/ BulkCheck(c) \/ NoRecord(c)
  \/ CreateInserts(c) \/ CreateRegisters(c)
  \/ ReadRecord(c) \/ StartReadsSwitch(c) \/ Builds(c) \/ WritesStatus(c)
  \/ DeletePops(c) \/ DeleteRow(c)
  \/ UpdateReads(c) \/ UpdateStores(c) \/ UpdateReadsBack(c) \/ UpdateRebuilds(c)
  \/ KillWrites(c) \/ KillLists(c) \/ KillStopsRow(c)
  \/ \E t \in Tasks : KillStops(c, t)
  \/ TickReadsSwitch(c) \/ TickSession(c) \/ TickCycle(c) \/ ResumeTakes(c)
  \/ CycleEnds(c) \/ CycleFails(c) \/ ErrorWritten(c)

Next ==
  \/ \E c \in Callers : Step(c)
  \/ \E c \in Callers, op \in Ops, t \in Tasks \cup {None} : Begin(c, op, t)
  \/ \E broken \in SUBSET {t \in Tasks : Exists(t)} : Restart(broken)

Spec == Init /\ [][Next]_vars

-----------------------------------------------------------------------------
\* Row and memory of a task say the same, unless a call is between its two
\* changes or two calls got between one another's: start_task, stop_task,
\* delete_task, persist_task_error and restore_tasks leave no other trace.
RowAndMemoryAgree ==
  \A t \in Tasks \ split :
    Loaded(t) /\ (\A c \in Callers : ~Halfway(c, t)) => mem[t] = row[t]

\* What runs in memory runs by its row too, however stops, pauses, deletions, the
\* kill switch, failing cycles and updates interleave: all of them change memory
\* before the row.  The exceptions are a start on its way to write, one that could
\* not write, and one that came in the middle of another call, which may then
\* write over the row of a running task (start_task, stop_task, delete_task,
\* set_kill_switch, persist_task_error).
RunningIsStored ==
  \A t \in Running \ raced :
    row[t] = "running" \/ \E c \in Callers : call[c].op = "start" /\ Halfway(c, t)

\* Once the kill switch is on and the call that threw it has ended, a task runs,
\* by its row or in memory, only if a start that had read the switch before or
\* is between its two changes got past it, that call failed, the process was
\* restarted, or row and memory differed before (set_kill_switch).
KillStopsTheRest ==
  kill /\ (\A c \in Callers : call[c].op # "killOn") =>
    \A t \in RunningRows \cup Running :
      t \in excused \cup split \/ \E c \in Callers : call[c].op = "start" /\ Halfway(c, t)

\* A start or tick asked for while the switch is on does nothing, however long
\* it takes, unless the switch is turned off in between.
NothingBeginsUnderKill ==
  \A c \in Callers : call[c].late =>
    /\ call[c].op = "start" => call[c].at \in {"record", "switch"}
    /\ call[c].op = "tick" => call[c].at = "switch"

\* One call at a time uses the worker of a task: a cycle or a resumed order.
OneCycleAtATime ==
  \A c, d \in Callers :
    c # d /\ call[c].at \in {"cycle", "error"} /\ call[d].at \in {"cycle", "error"}
      => call[c].task # call[d].task

\* However updates, starts and creations interleave, the worker of a loaded task
\* has the settings of its row, or an update that will build it anew is under
\* way.  The exceptions are a worker that was built from settings read before a
\* later update stored its own, one that could not be built, and a new mode,
\* which builds none (update_task, _load_or_build_task, create_task).
WorkerIsCurrent ==
  \A t \in Tasks \ dated :
    Exists(t) /\ Loaded(t) =>
      \/ built[t] = conf[t]
      \/ \E c \in Callers : /\ call[c].op \in {"settings", "mode"} /\ call[c].task = t
                            /\ call[c].at \in {"fresh", "rebuild"}

=============================================================================
