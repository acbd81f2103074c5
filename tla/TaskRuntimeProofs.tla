-------------------------- MODULE TaskRuntimeProofs --------------------------
(***************************************************************************)
(* Proofs about TaskRuntime for any tasks, any number of calls in flight   *)
(* and any number of faults.                                               *)
(*                                                                         *)
(* The inductive invariant says where a call of each kind can be and that  *)
(* its task has been created (PlaceInv, PastInv), who holds a cycle lock   *)
(* (LockInv), what a call that is alone halfway through a task has done to *)
(* it (AgreeInv), who still has to stop or to excuse a running task under  *)
(* the kill switch (KillInv, LateInv), that whoever is halfway through a   *)
(* task, but for a start, has stopped it (RunInv), and which update will   *)
(* build a worker anew that has old settings (CurrentInv).                 *)
(***************************************************************************)
EXTENDS TaskRuntime, TLAPS

\* Where a call can be.
PlacesOf(op) ==
  CASE op = "none"   -> {"idle"}
    [] op = "create" -> {"build", "register"}
    [] op = "start"  -> {"record", "switch", "build", "write"}
    [] op \in {"pause", "stop"} -> {"record", "build", "write"}
    [] op = "delete" -> {"record", "close"}
    [] op = "bulk"   -> {"check", "record", "close"}
    [] op = "settings" -> {"record", "store", "fresh", "rebuild"}
    [] op = "mode"   -> {"record", "store", "fresh"}
    [] op = "tick"   -> {"switch", "session", "lock", "cycle", "error"}
    [] op = "resume" -> {"lock", "cycle"}
    [] op = "killOn" -> {"switch", "list", "loop", "write"}
    [] op = "killOff" -> {"switch"}

\* A call that is at no task: one that has not begun, or has yet to find its tasks.
AtNone(c) == \/ call[c].op \in {"none", "killOff"}
             \/ call[c].op \in {"tick", "killOn"} /\ call[c].at \in {"switch", "list", "loop"}

PlaceInv == \A c \in Callers : /\ call[c].at \in PlacesOf(call[c].op)
                               /\ ~AtNone(c) => call[c].task \in Tasks
                               /\ call[c].op \notin {"tick", "killOn"} \/ call[c].at \in {"switch", "list"}
                                    => call[c].todo = {}
                               /\ call[c].at = "switch" /\ call[c].op # "start" => call[c].task = None

\* Every task that anyone works on was created, and nobody else is at a task whose
\* row a create_task has yet to insert.
Creates(c, t) == call[c].op = "create" /\ call[c].at = "build" /\ call[c].task = t

PastInv == \A t \in Tasks :
  /\ row[t] = "none" => conf[t] = 0 /\ mem[t] = "none"
  /\ \A c \in Callers :
       /\ call[c].task = t /\ ~Creates(c, t) => row[t] # "none"
       /\ t \in call[c].todo => row[t] # "none"
       /\ Creates(c, t) => /\ row[t] = "none"
                           /\ \A d \in Callers : call[d].task = t => d = c

LockInv == \A c \in Callers : call[c].at \in {"cycle", "error"} => lock[call[c].task] = c

\* What call c, halfway through task t, has made of memory or row.
Opened(c, t) ==
  CASE call[c].op \in Starters -> mem[t] \in {Target[call[c].op], "none"}
    [] call[c].op \in {"delete", "bulk"} -> mem[t] = "none"
    [] call[c].op = "killOn" -> mem[t] \in {"stopped", "none"}
    [] call[c].op = "tick" -> mem[t] \in {"error", "none"}
    [] call[c].op = "create" -> row[t] = "configured"
    [] OTHER -> FALSE

AgreeInv ==
  /\ RowAndMemoryAgree
  /\ \A t \in Tasks, c \in Callers :
       Halfway(c, t) /\ call[c].alone => Opened(c, t) /\ Undisturbed(c, t)

\* A start is between its two changes of task t.
Starting(t) == \E c \in Callers : call[c].op = "start" /\ Halfway(c, t)

\* The kill switch still has to list the running tasks, or to stop t.
Stopping(t) == \E c \in Callers :
  call[c].op = "killOn" /\ (call[c].at = "list" \/ t \in call[c].todo)

KillInv == \A t \in Tasks :
  /\ mem[t] = "running" /\ row[t] # "running" => t \in split \/ Starting(t)
  /\ kill /\ t \in RunningRows \cup Running =>
       t \in excused \cup split \/ Starting(t) \/ Stopping(t)

LateInv == (\E c \in Callers : call[c].late) => kill

\* Unless its start raced, a task runs by its row where it runs in memory, and no
\* other call halfway through it has left it running.
RunFor(t) ==
  /\ mem[t] = "running" /\ row[t] # "running" => Starting(t)
  /\ \A c \in Callers : Halfway(c, t) /\ call[c].op # "start" => mem[t] # "running"

RunInv == \A t \in Tasks \ raced : RunFor(t)

\* Call c will build the worker of t from the settings the row has now.
Fixer(c, t) ==
  /\ call[c].task = t
  /\ \/ At(c, {"settings", "mode"}, "fresh")
     \/ At(c, {"settings"}, "rebuild") /\ call[c].alone /\ call[c].saw = conf[t]

CurrentFor(t) ==
  Exists(t) /\ Loaded(t) => built[t] = conf[t] \/ \E c \in Callers : Fixer(c, t)

CurrentInv == \A t \in Tasks \ dated : CurrentFor(t)

IInv == /\ TypeOK /\ PlaceInv /\ PastInv /\ LockInv
        /\ AgreeInv /\ KillInv /\ LateInv /\ NothingBeginsUnderKill
        /\ RunInv /\ CurrentInv

-----------------------------------------------------------------------------
(* What a step does to the calls.                                          *)

\* The records of calls, field by field.
LEMMA CallTypes ==
  ASSUME call \in [Callers -> Calls], NEW c \in Callers
  PROVE  /\ call[c].op \in Ops /\ call[c].at \in Places
         /\ call[c].task \in Tasks \cup {None} /\ call[c].todo \in SUBSET Tasks
         /\ call[c].saw \in Nat /\ call[c].alone \in BOOLEAN /\ call[c].late \in BOOLEAN
BY DEF Calls

\* A caller that waits for nothing has a call of the type.
LEMMA NoCallType == NoCall \in Calls
BY DEF NoCall, Calls, Ops, Places

\* A call that moves on, or returns.
LEMMA GotoType ==
  ASSUME call \in [Callers -> Calls], NEW c \in Callers, NEW at \in Places,
         Goto(c, at) \/ Done(c)
  PROVE  /\ call' \in [Callers -> Calls]
         /\ \A d \in Callers \ {c} : call'[d] = call[d]
BY NoCallType DEF Goto, Done, Calls

\* The first change of a task: the call's own record, and those it disturbs.
LEMMA OpensEffect ==
  ASSUME call \in [Callers -> Calls], NEW c \in Callers, NEW t \in Tasks,
         NEW at \in Places, NEW swaps \in BOOLEAN, NEW agree \in BOOLEAN,
         Opens(c, t, at, swaps, agree)
  PROVE  /\ call' \in [Callers -> Calls]
         /\ call'[c] = [call[c] EXCEPT !.at = at, !.task = t, !.saw = 0,
                                       !.alone = agree /\ Undisturbed(c, t)]
         /\ \A d \in Callers \ {c} :
              call'[d] = IF Halfway(d, t)
                              \/ (swaps /\ call[d].task = t /\ call[d].at = "rebuild")
                         THEN [call[d] EXCEPT !.alone = FALSE] ELSE call[d]
<1>1. Undisturbed(c, t) \in BOOLEAN
  BY DEF Undisturbed
<1>2. \A d \in Callers : Disturb(c, t, swaps)[d] \in Calls
  BY DEF Disturb, Calls
<1>3. Disturb(c, t, swaps)[c] = call[c]
  BY DEF Disturb
<1>4. call'[c] = [call[c] EXCEPT !.at = at, !.task = t, !.saw = 0,
                                 !.alone = agree /\ Undisturbed(c, t)]
  BY <1>3 DEF Opens, Disturb
<1>5. \A d \in Callers \ {c} : call'[d] = Disturb(c, t, swaps)[d]
  BY DEF Opens, Disturb
<1>6. call'[c] \in Calls
  <2>1. PICK alone \in BOOLEAN : alone = (agree /\ Undisturbed(c, t))
    OBVIOUS
  <2>2. call[c] \in Calls
    OBVIOUS
  <2>3. call'[c] = [call[c] EXCEPT !.at = at, !.task = t, !.saw = 0, !.alone = alone]
    BY <1>4, <2>1
  <2>4. [call[c] EXCEPT !.at = at, !.task = t] \in Calls
    BY <2>2 DEF Calls
  <2>5. \A r \in Calls : [r EXCEPT !.saw = 0, !.alone = alone] \in Calls
    BY DEF Calls
  <2>6. call'[c] = [[call[c] EXCEPT !.at = at, !.task = t] EXCEPT !.saw = 0, !.alone = alone]
    BY <2>2, <2>3 DEF Calls
  <2> QED  BY <2>4, <2>5, <2>6
<1>7. call' = [d \in Callers |-> call'[d]]
  BY DEF Opens, Disturb
<1> QED  BY <1>2, <1>4, <1>5, <1>6, <1>7 DEF Disturb

\* The second change.
LEMMA ClosesEffect ==
  ASSUME call \in [Callers -> Calls], NEW c \in Callers, NEW t \in Tasks,
         NEW rest \in Calls, NEW agree \in BOOLEAN,
         Closes(c, t, rest, agree)
  PROVE  /\ call' \in [Callers -> Calls]
         /\ call'[c] = rest
         /\ \A d \in Callers \ {c} :
              call'[d] = IF Halfway(d, t) THEN [call[d] EXCEPT !.alone = FALSE] ELSE call[d]
         /\ split' = IF agree /\ call[c].alone /\ Undisturbed(c, t)
                     THEN split \ {t} ELSE split \cup {t}
<1>1. \A d \in Callers : Disturb(c, t, FALSE)[d] \in Calls
  BY DEF Disturb, Calls
<1>2. call'[c] = rest /\ \A d \in Callers \ {c} : call'[d] = Disturb(c, t, FALSE)[d]
  BY DEF Closes, Disturb
<1>3. call' = [d \in Callers |-> call'[d]]
  BY DEF Closes, Disturb
<1> QED  BY <1>1, <1>2, <1>3 DEF Closes, Disturb

\* The rest of a tick, and of the kill switch's loop, is a call.
LEMMA RestType ==
  ASSUME call \in [Callers -> Calls], NEW c \in Callers, NEW left \in SUBSET Tasks
  PROVE  /\ Next1(c, left) \in Calls
         /\ [NoCall EXCEPT !.op = "killOn", !.at = "loop", !.todo = left,
                           !.late = call[c].late] \in Calls
<1>1. call[c].late \in BOOLEAN
  BY CallTypes
<1>2. left # {} => (CHOOSE t \in left : TRUE) \in left
  OBVIOUS
<1> QED  BY <1>1, <1>2, NoCallType DEF Next1, NoCall, Calls, Ops, Places

\* What no step of a call changes of another one: all but whether it is alone and
\* whether it is late, and neither of those from no to yes.
Kept(d) == /\ call'[d].op = call[d].op /\ call'[d].at = call[d].at
           /\ call'[d].task = call[d].task /\ call'[d].todo = call[d].todo
           /\ call'[d].saw = call[d].saw
           /\ call'[d].alone => call[d].alone
           /\ call'[d].late => call[d].late

Keeps(c) == call' \in [Callers -> Calls] /\ \A d \in Callers \ {c} : Kept(d)

\* Steps of a call leave the others as they are, but for that, and calls calls.
LEMMA CallStep ==
  ASSUME RuntimeAssumption, TypeOK, PlaceInv, NEW c \in Callers, Step(c)
  PROVE  Keeps(c)
<1>a. call \in [Callers -> Calls]
  BY DEF TypeOK
<1>b. call[c].op # "none" /\ ~AtNone(c) => call[c].task \in Tasks
  BY DEF PlaceInv
<1>c. ASSUME NEW at \in Places, Goto(c, at) \/ Done(c) PROVE Keeps(c)
  BY <1>a, <1>c, GotoType DEF Kept, Keeps
<1>d. ASSUME NEW t \in Tasks, NEW at \in Places, NEW swaps \in BOOLEAN, NEW agree \in BOOLEAN,
             Opens(c, t, at, swaps, agree)
      PROVE  Keeps(c)
  <2>1. call' \in [Callers -> Calls]
    BY <1>a, <1>d, OpensEffect, ZenonT(30)
  <2>2. ASSUME NEW d \in Callers \ {c} PROVE Kept(d)
    <3>1. call'[d] = call[d] \/ call'[d] = [call[d] EXCEPT !.alone = FALSE]
      BY <1>a, <1>d DEF Opens, Disturb
    <3> QED  BY <1>a, <3>1 DEF Calls, Kept
  <2> QED  BY <2>1, <2>2 DEF Keeps
<1>e. ASSUME NEW t \in Tasks, NEW rest \in Calls, NEW agree \in BOOLEAN,
             Closes(c, t, rest, agree)
      PROVE  Keeps(c)
  <2>1. call' \in [Callers -> Calls]
    BY <1>a, <1>e, ClosesEffect
  <2>2. ASSUME NEW d \in Callers \ {c} PROVE Kept(d)
    <3>1. call'[d] = call[d] \/ call'[d] = [call[d] EXCEPT !.alone = FALSE]
      BY <1>a, <1>e, ClosesEffect
    <3> QED  BY <1>a, <3>1 DEF Calls, Kept
  <2> QED  BY <2>1, <2>2 DEF Keeps
<1>f. Done(c) => Keeps(c)
  BY <1>a, NoCallType DEF Done, Kept, Keeps
<1>g. ASSUME NEW r \in Calls, call' = [call EXCEPT ![c] = r] PROVE Keeps(c)
  BY <1>a, <1>g DEF Kept, Keeps
<1>1. CASE BulkCheck(c)
  BY <1>1, <1>c, <1>f DEF BulkCheck, Places
<1>2. CASE NoRecord(c)
  BY <1>2, <1>f DEF NoRecord
<1>3. CASE CreateInserts(c)
  <2>1. call[c].task \in Tasks
    BY <1>3, <1>b DEF CreateInserts, At, AtNone
  <2> QED  BY <1>3, <1>d, <1>f, <2>1 DEF CreateInserts, Places
<1>4. CASE CreateRegisters(c)
  <2>1. call[c].task \in Tasks
    BY <1>4, <1>b DEF CreateRegisters, At, AtNone
  <2>2. call'[c] = NoCall /\ call' = [d \in Callers |-> call'[d]]
    BY <1>4, <1>a DEF CreateRegisters, Disturb
  <2>3. ASSUME NEW d \in Callers \ {c} PROVE Kept(d) /\ call'[d] \in Calls
    <3>1. call'[d] = call[d] \/ call'[d] = [call[d] EXCEPT !.alone = FALSE]
      BY <1>4, <1>a DEF CreateRegisters, Disturb
    <3> QED  BY <1>a, <3>1 DEF Calls, Kept
  <2> QED  BY <2>2, <2>3, NoCallType DEF Keeps
<1>5. CASE ReadRecord(c)
  <2>1. call[c].task \in Tasks
    BY <1>5, <1>b DEF ReadRecord, At, AtNone, Starters
  <2>2. conf[call[c].task] \in Nat
    BY <2>1 DEF TypeOK
  <2>3. CASE call[c].op = "start" \/ ~Loaded(call[c].task)
    <3>1. \E at \in Places : call' = [call EXCEPT ![c] =
                                        [call[c] EXCEPT !.saw = conf[call[c].task], !.at = at]]
      BY <1>5, <1>a, <2>3 DEF ReadRecord, Places
    <3>2. \A at \in Places, n \in Nat : [call[c] EXCEPT !.saw = n, !.at = at] \in Calls
      BY <1>a DEF Calls
    <3> QED  BY <1>g, <2>2, <3>1, <3>2
  <2>4. CASE ~(call[c].op = "start" \/ ~Loaded(call[c].task))
    BY <1>5, <1>c, <1>d, <2>1, <2>4 DEF ReadRecord, Sets, Places
  <2> QED  BY <2>3, <2>4
<1>6. CASE StartReadsSwitch(c)
  BY <1>6, <1>b, <1>c, <1>d, <1>f DEF StartReadsSwitch, At, AtNone, Sets, Places
<1>7. CASE Builds(c)
  BY <1>7, <1>b, <1>d, <1>f DEF Builds, At, AtNone, Starters, Places
<1>8. CASE WritesStatus(c)
  BY <1>8, <1>b, <1>e, NoCallType DEF WritesStatus, At, AtNone, Starters
<1>9. CASE DeletePops(c)
  <2>1. call[c].task \in Tasks /\ "close" \in Places
    BY <1>9, <1>b DEF DeletePops, At, AtNone, Places
  <2> QED  BY <1>9, <1>d, <2>1 DEF DeletePops
<1>10. CASE DeleteRow(c)
  BY <1>10, <1>b, <1>e, NoCallType DEF DeleteRow, At, AtNone
<1>11. CASE UpdateReads(c)
  BY <1>11, <1>c DEF UpdateReads, Places
<1>12. CASE UpdateStores(c)
  BY <1>12, <1>c, <1>f DEF UpdateStores, Places
<1>13. CASE UpdateReadsBack(c)
  <2>1. call[c].task \in Tasks
    BY <1>13, <1>b DEF UpdateReadsBack, At, AtNone
  <2>2. conf[call[c].task] \in Nat
    BY <2>1 DEF TypeOK
  <2>3. \/ Done(c)
        \/ call' = [call EXCEPT ![c] = [call[c] EXCEPT !.at = "rebuild",
                                          !.saw = conf[call[c].task], !.alone = TRUE]]
    BY <1>13, <1>a DEF UpdateReadsBack
  <2>4. \A n \in Nat : [call[c] EXCEPT !.at = "rebuild", !.saw = n, !.alone = TRUE] \in Calls
    BY <1>a DEF Calls, Places
  <2> QED  BY <1>f, <1>g, <2>2, <2>3, <2>4
<1>14. CASE UpdateRebuilds(c)
  BY <1>14, <1>f DEF UpdateRebuilds
<1>15. CASE KillWrites(c)
  <2>1. ASSUME call' = [d \in Callers |-> IF d = c THEN NoCall ELSE [call[d] EXCEPT !.late = FALSE]]
        PROVE  Keeps(c)
    BY <1>a, <2>1, NoCallType DEF Calls, Kept, Keeps
  <2> QED  BY <1>15, <1>c, <1>f, <2>1 DEF KillWrites, Places
<1>16. CASE KillLists(c)
  <2>1. [call[c] EXCEPT !.at = "loop", !.todo = RunningRows] \in Calls
    BY <1>a DEF RunningRows, Calls, Places
  <2>2. \/ Done(c)
        \/ call' = [call EXCEPT ![c] = [call[c] EXCEPT !.at = "loop", !.todo = RunningRows]]
    BY <1>16, <1>a DEF KillLists
  <2> QED  BY <1>f, <1>g, <2>1, <2>2
<1>17. CASE KillStopsRow(c)
  <2>1. call[c].task \in Tasks
    BY <1>17, <1>b DEF KillStopsRow, At, AtNone
  <2>2. call[c].todo \ {call[c].task} \in SUBSET Tasks
    BY <1>a, CallTypes
  <2> QED  BY <1>17, <1>a, <1>e, <2>1, <2>2, NoCallType, RestType DEF KillStopsRow
<1>18. ASSUME NEW t \in Tasks, KillStops(c, t) PROVE Keeps(c)
  <2>1. Opens(c, t, "write", FALSE, TRUE) \/ Opens(c, t, "write", FALSE, FALSE)
    BY <1>18 DEF KillStops, Opens
  <2> QED  BY <1>d, <2>1 DEF Places
<1>19. CASE TickReadsSwitch(c)
  <2>1. \A wanted \in SUBSET Running : Next1(c, IF kill THEN {} ELSE wanted) \in Calls
    BY <1>a, RestType DEF Running
  <2> QED  BY <1>19, <1>g, <2>1 DEF TickReadsSwitch
<1>20. CASE TickSession(c)
  BY <1>20, <1>c DEF TickSession, Places
<1>21. CASE TickCycle(c)
  BY <1>21, <1>c DEF TickCycle, Places
<1>22. CASE ResumeTakes(c)
  BY <1>22, <1>c, <1>f DEF ResumeTakes, Places
<1>23. CASE CycleEnds(c)
  <2>1. Next1(c, call[c].todo \ {call[c].task}) \in Calls
    BY <1>a, CallTypes, RestType
  <2> QED  BY <1>23, <1>g, <2>1 DEF CycleEnds
<1>24. CASE CycleFails(c)
  BY <1>24, <1>b, <1>d DEF CycleFails, At, AtNone, Places
<1>25. CASE ErrorWritten(c)
  <2>1. call[c].task \in Tasks
    BY <1>25, <1>b DEF ErrorWritten, At, AtNone
  <2>2. Next1(c, call[c].todo \ {call[c].task}) \in Calls
    BY <1>a, CallTypes, RestType
  <2> QED  BY <1>25, <1>e, <2>1, <2>2, NoCallType DEF ErrorWritten
<1> QED  BY <1>1, <1>2, <1>3, <1>4, <1>5, <1>6, <1>7, <1>8, <1>9, <1>10, <1>11, <1>12, <1>13, <1>14, <1>15, <1>16, <1>17, <1>18, <1>19, <1>20, <1>21, <1>22, <1>23, <1>24, <1>25 DEF Step

\* What the step does to the call that takes it, for each way of moving on.
LEMMA OwnFields ==
  ASSUME call \in [Callers -> Calls], NEW c \in Callers
  PROVE  /\ Done(c) => call'[c] = NoCall
         /\ \A at \in Places : Goto(c, at) =>
              /\ call'[c].op = call[c].op /\ call'[c].at = at
              /\ call'[c].task = call[c].task /\ call'[c].todo = call[c].todo
              /\ call'[c].saw = call[c].saw /\ call'[c].late = call[c].late
         /\ \A t \in Tasks, at \in Places, swaps, agree \in BOOLEAN :
              Opens(c, t, at, swaps, agree) =>
                /\ call'[c].op = call[c].op /\ call'[c].at = at
                /\ call'[c].task = t /\ call'[c].todo = call[c].todo
                /\ call'[c].saw = 0 /\ call'[c].late = call[c].late
         /\ \A t \in Tasks, rest \in Calls, agree \in BOOLEAN :
              Closes(c, t, rest, agree) => call'[c] = rest
<1>1. ASSUME NEW t \in Tasks, NEW at \in Places, NEW swaps \in BOOLEAN, NEW agree \in BOOLEAN,
             Opens(c, t, at, swaps, agree)
      PROVE  /\ call'[c].op = call[c].op /\ call'[c].at = at
             /\ call'[c].task = t /\ call'[c].todo = call[c].todo
             /\ call'[c].saw = 0 /\ call'[c].late = call[c].late
  <2>1. PICK alone \in BOOLEAN : alone = (agree /\ Undisturbed(c, t))
    OBVIOUS
  <2>2. call'[c] = [call[c] EXCEPT !.at = at, !.task = t, !.saw = 0,
                                   !.alone = agree /\ Undisturbed(c, t)]
    BY <1>1 DEF Opens, Disturb
  <2>3. call'[c] = [call[c] EXCEPT !.at = at, !.task = t, !.saw = 0, !.alone = alone]
    BY <2>1, <2>2
  <2>4. call[c] \in Calls
    OBVIOUS
  <2> QED  BY <2>3, <2>4 DEF Calls
<1>2. ASSUME NEW at \in Places, Goto(c, at)
      PROVE  /\ call'[c].op = call[c].op /\ call'[c].at = at
             /\ call'[c].task = call[c].task /\ call'[c].todo = call[c].todo
             /\ call'[c].saw = call[c].saw /\ call'[c].late = call[c].late
  BY <1>2 DEF Goto, Calls
<1>3. Done(c) => call'[c] = NoCall
  BY DEF Done
<1> QED  BY <1>1, <1>2, <1>3, ClosesEffect

-----------------------------------------------------------------------------
(* Where calls are.                                                        *)

\* Where call c is, and its task.
Placed(c) == /\ call[c].at \in PlacesOf(call[c].op)
             /\ ~AtNone(c) => call[c].task \in Tasks
             /\ call[c].op \notin {"tick", "killOn"} \/ call[c].at \in {"switch", "list"}
                  => call[c].todo = {}
             /\ call[c].at = "switch" /\ call[c].op # "start" => call[c].task = None

\* Where a call that goes on is after a step.
After(op, at) ==
  CASE at = "check"  -> {"record"}
    [] at = "record" -> CASE op = "start" -> {"switch"}
                          [] op \in {"pause", "stop"} -> {"build", "write"}
                          [] op \in {"delete", "bulk"} -> {"close"}
                          [] OTHER -> {"store"}
    [] at = "switch" -> CASE op = "start" -> {"build", "write"}
                          [] op = "tick" -> {"session"}
                          [] OTHER -> {"list"}
    [] at = "build"  -> IF op = "create" THEN {"register"} ELSE {"write"}
    [] at = "store"  -> {"fresh"}
    [] at = "fresh"  -> {"rebuild"}
    [] at \in {"list", "write"} -> {"loop"}
    [] at = "loop"   -> {"write"}
    [] at = "session" -> {"lock"}
    [] at = "lock"   -> {"cycle"}
    [] at = "cycle"  -> {"session", "error"}
    [] OTHER -> {"session"}

\* How a call goes on that does not end, and which tasks it is at.
GoesOn(c) ==
  /\ call'[c].op = call[c].op /\ call'[c].late = call[c].late
  /\ call'[c].at \in After(call[c].op, call[c].at)
  /\ \/ call'[c].task = call[c].task
     \/ /\ call[c].op \in {"tick", "killOn"}
        /\ call'[c].at \in {"session", "list", "loop", "write"}
        /\ call'[c].task \in {None} \cup call[c].todo \cup call'[c].todo
  /\ call'[c].todo \subseteq call[c].todo \cup RunningRows \cup Running

Fed(c) == call'[c] = NoCall \/ GoesOn(c)

\* A call is where its operation can be, and works on tasks that it was asked for
\* or found running.
LEMMA PlaceStep ==
  ASSUME RuntimeAssumption, TypeOK, PlaceInv, NEW c \in Callers, Step(c)
  PROVE  PlaceInv' /\ Fed(c)
<1>a. /\ call \in [Callers -> Calls] /\ call[c].at \in PlacesOf(call[c].op)
      /\ call[c].op \notin {"tick", "killOn"} \/ call[c].at \in {"switch", "list"}
           => call[c].todo = {}
  BY DEF TypeOK, PlaceInv
<1>b. call[c].op # "none" /\ ~AtNone(c) => call[c].task \in Tasks
  BY DEF PlaceInv
<1>c. \A d \in Callers \ {c} : Placed(d)'
  BY CallStep DEF Keeps, Kept, PlaceInv, Placed, AtNone
<1>d. call'[c] = NoCall => Placed(c)' /\ Fed(c)
  BY DEF Placed, NoCall, PlacesOf, AtNone, Fed, GoesOn, After
<1>e. ASSUME NEW left \in SUBSET (call[c].todo \cup Running), call'[c] = Next1(c, left),
             call[c].op \in {"tick", "resume"}, call[c].op = "resume" => left = {},
             call[c].at \in {"switch", "cycle", "error"}
      PROVE  Placed(c)' /\ Fed(c)
  <2>1. CASE left = {}
    BY <1>d, <1>e, <2>1 DEF Next1
  <2>2. CASE left # {}
    <3>1. /\ call'[c].op = "tick" /\ call'[c].at = "session"
          /\ call'[c].task = CHOOSE t \in left : TRUE
          /\ call'[c].todo = left /\ call'[c].late = call[c].late
      BY <1>e, <2>2 DEF Next1, NoCall
    <3>2. (CHOOSE t \in left : TRUE) \in left
      BY <2>2
    <3>3. left \subseteq Tasks
      BY <1>a, CallTypes DEF Running
    <3> QED  BY <1>e, <2>2, <3>1, <3>2, <3>3 DEF Placed, PlacesOf, Fed, GoesOn, After
  <2> QED  BY <2>1, <2>2
<1>f. ASSUME call'[c].at \in PlacesOf(call'[c].op), call'[c].task \in Tasks,
             call'[c].op = call[c].op,
             call'[c].at \in After(call[c].op, call[c].at),
             call'[c].task = call[c].task,
             call'[c].todo = call[c].todo, call'[c].late = call[c].late
      PROVE  Placed(c)' /\ Fed(c)
  BY <1>a, <1>f DEF Placed, Fed, GoesOn, PlacesOf, After
<1>1. ASSUME BulkCheck(c) PROVE Placed(c)' /\ Fed(c)
  <2>1. call[c].task \in Tasks
    BY <1>1, <1>b DEF BulkCheck, At, AtNone
  <2>2. call'[c] = NoCall \/
        (call'[c].op = call[c].op /\ call'[c].task = call[c].task
         /\ call'[c].todo = call[c].todo /\ call'[c].late = call[c].late /\ call'[c].at \in {"record"})
    BY <1>1, <1>a, <2>1, OwnFields, NoCallType DEF BulkCheck, Places
  <2> QED  BY <1>1, <1>d, <1>f, <2>1, <2>2 DEF BulkCheck, At, PlacesOf, After
<1>2. ASSUME NoRecord(c) PROVE Placed(c)' /\ Fed(c)
  BY <1>2, <1>a, <1>d, OwnFields DEF NoRecord
<1>3. ASSUME CreateInserts(c) PROVE Placed(c)' /\ Fed(c)
  <2>1. call[c].task \in Tasks
    BY <1>3, <1>b DEF CreateInserts, At, AtNone
  <2>2. call'[c] = NoCall \/
        (call'[c].op = call[c].op /\ call'[c].task = call[c].task
         /\ call'[c].todo = call[c].todo /\ call'[c].late = call[c].late /\ call'[c].at \in {"register"})
    BY <1>3, <1>a, <2>1, OwnFields, NoCallType DEF CreateInserts, Places
  <2> QED  BY <1>3, <1>d, <1>f, <2>1, <2>2 DEF CreateInserts, At, PlacesOf, After
<1>4. ASSUME CreateRegisters(c) PROVE Placed(c)' /\ Fed(c)
  BY <1>4, <1>a, <1>d DEF CreateRegisters, Disturb
<1>5. ASSUME ReadRecord(c) PROVE Placed(c)' /\ Fed(c)
  <2>1. call[c].task \in Tasks
    BY <1>5, <1>b DEF ReadRecord, At, AtNone, Starters
  <2>2. CASE call[c].op = "start" \/ ~Loaded(call[c].task)
    <3>1. /\ call'[c].op = call[c].op /\ call'[c].task = call[c].task
          /\ call'[c].todo = call[c].todo /\ call'[c].late = call[c].late
          /\ call'[c].at = IF call[c].op = "start" THEN "switch" ELSE "build"
      BY <1>5, <1>a, <2>2 DEF ReadRecord, Calls
    <3> QED  BY <1>5, <1>f, <2>1, <3>1 DEF ReadRecord, At, Starters, PlacesOf, After
  <2>3. CASE ~(call[c].op = "start" \/ ~Loaded(call[c].task))
    <3>1. Opens(c, call[c].task, "write", FALSE, TRUE)
      BY <1>5, <2>3 DEF ReadRecord, Sets
    <3>2. /\ call'[c].op = call[c].op /\ call'[c].task = call[c].task /\ call'[c].at = "write"
          /\ call'[c].todo = call[c].todo /\ call'[c].late = call[c].late
      BY <1>a, <2>1, <3>1, OwnFields DEF Places
    <3> QED  BY <1>5, <1>f, <2>1, <2>3, <3>2 DEF ReadRecord, At, Starters, PlacesOf, After
  <2> QED  BY <2>2, <2>3
<1>6. ASSUME StartReadsSwitch(c) PROVE Placed(c)' /\ Fed(c)
  <2>1. call[c].task \in Tasks
    BY <1>6, <1>b DEF StartReadsSwitch, At, AtNone
  <2>2. call'[c] = NoCall \/
        (call'[c].op = call[c].op /\ call'[c].task = call[c].task
         /\ call'[c].todo = call[c].todo /\ call'[c].late = call[c].late /\ call'[c].at \in {"write", "build"})
    BY <1>6, <1>a, <2>1, OwnFields, NoCallType DEF StartReadsSwitch, Sets, Places
  <2> QED  BY <1>6, <1>d, <1>f, <2>1, <2>2 DEF StartReadsSwitch, At, PlacesOf, After
<1>7. ASSUME Builds(c) PROVE Placed(c)' /\ Fed(c)
  <2>1. call[c].task \in Tasks
    BY <1>7, <1>b DEF Builds, At, AtNone, Starters
  <2>2. call'[c] = NoCall \/
        (call'[c].op = call[c].op /\ call'[c].task = call[c].task
         /\ call'[c].todo = call[c].todo /\ call'[c].late = call[c].late /\ call'[c].at \in {"write"})
    BY <1>7, <1>a, <2>1, OwnFields, NoCallType DEF Builds, Places
  <2> QED  BY <1>7, <1>d, <1>f, <2>1, <2>2 DEF Builds, At, PlacesOf, After, Starters
<1>8. ASSUME WritesStatus(c) PROVE Placed(c)' /\ Fed(c)
  <2>1. call[c].task \in Tasks
    BY <1>8, <1>b DEF WritesStatus, At, AtNone, Starters
  <2> QED  BY <1>8, <1>a, <1>d, <2>1, OwnFields, NoCallType DEF WritesStatus
<1>9. ASSUME DeletePops(c) PROVE Placed(c)' /\ Fed(c)
  <2>1. call[c].task \in Tasks
    BY <1>9, <1>b DEF DeletePops, At, AtNone
  <2>2. call'[c] = NoCall \/
        (call'[c].op = call[c].op /\ call'[c].task = call[c].task
         /\ call'[c].todo = call[c].todo /\ call'[c].late = call[c].late /\ call'[c].at \in {"close"})
    BY <1>9, <1>a, <2>1, OwnFields, NoCallType DEF DeletePops, Places
  <2> QED  BY <1>9, <1>d, <1>f, <2>1, <2>2 DEF DeletePops, At, PlacesOf, After
<1>10. ASSUME DeleteRow(c) PROVE Placed(c)' /\ Fed(c)
  <2>1. call[c].task \in Tasks
    BY <1>10, <1>b DEF DeleteRow, At, AtNone
  <2> QED  BY <1>10, <1>a, <1>d, <2>1, OwnFields, NoCallType DEF DeleteRow
<1>11. ASSUME UpdateReads(c) PROVE Placed(c)' /\ Fed(c)
  <2>1. call[c].task \in Tasks
    BY <1>11, <1>b DEF UpdateReads, At, AtNone
  <2>2. call'[c] = NoCall \/
        (call'[c].op = call[c].op /\ call'[c].task = call[c].task
         /\ call'[c].todo = call[c].todo /\ call'[c].late = call[c].late /\ call'[c].at \in {"store"})
    BY <1>11, <1>a, <2>1, OwnFields, NoCallType DEF UpdateReads, Places
  <2> QED  BY <1>11, <1>d, <1>f, <2>1, <2>2 DEF UpdateReads, At, PlacesOf, After
<1>12. ASSUME UpdateStores(c) PROVE Placed(c)' /\ Fed(c)
  <2>1. call[c].task \in Tasks
    BY <1>12, <1>b DEF UpdateStores, At, AtNone
  <2>2. call'[c] = NoCall \/
        (call'[c].op = call[c].op /\ call'[c].task = call[c].task
         /\ call'[c].todo = call[c].todo /\ call'[c].late = call[c].late /\ call'[c].at \in {"fresh"})
    BY <1>12, <1>a, <2>1, OwnFields, NoCallType DEF UpdateStores, Places
  <2> QED  BY <1>12, <1>d, <1>f, <2>1, <2>2 DEF UpdateStores, At, PlacesOf, After
<1>13. ASSUME UpdateReadsBack(c) PROVE Placed(c)' /\ Fed(c)
  <2>1. call[c].task \in Tasks
    BY <1>13, <1>b DEF UpdateReadsBack, At, AtNone
  <2>2. CASE Exists(call[c].task) /\ Loaded(call[c].task) /\ call[c].op \in Rebuilt
    <3>1. /\ call[c].op = "settings" /\ call[c].at = "fresh"
          /\ call'[c].op = "settings" /\ call'[c].at = "rebuild"
          /\ call'[c].task = call[c].task /\ call'[c].todo = call[c].todo
          /\ call'[c].late = call[c].late
      BY <1>13, <1>a, <2>2 DEF UpdateReadsBack, Rebuilt, At, Calls
    <3> QED  BY <1>f, <2>1, <3>1 DEF PlacesOf, After
  <2>3. CASE ~(Exists(call[c].task) /\ Loaded(call[c].task) /\ call[c].op \in Rebuilt)
    BY <1>13, <1>a, <1>d, <2>3, OwnFields DEF UpdateReadsBack
  <2> QED  BY <2>2, <2>3
<1>14. ASSUME UpdateRebuilds(c) PROVE Placed(c)' /\ Fed(c)
  BY <1>14, <1>a, <1>d, OwnFields DEF UpdateRebuilds
<1>15. ASSUME KillWrites(c) PROVE Placed(c)' /\ Fed(c)
  <2>1. CASE call'[c] = NoCall
    BY <1>d, <2>1
  <2>2. CASE call'[c] # NoCall
    <3>1. Goto(c, "list")
      BY <1>15, <1>a, <2>2, OwnFields DEF KillWrites
    <3>2. /\ call'[c].op = call[c].op /\ call'[c].at = "list" /\ call[c].op \in {"killOn", "killOff"}
          /\ call'[c].task = call[c].task /\ call'[c].todo = call[c].todo
          /\ call'[c].late = call[c].late
      BY <1>15, <1>a, <3>1, OwnFields DEF KillWrites, At, Places
    <3>3. call[c].op = "killOn" /\ call[c].at = "switch"
      BY <1>15, <1>a, <2>2 DEF KillWrites, Done, At
    <3> QED  BY <1>a, <3>2, <3>3 DEF Placed, PlacesOf, AtNone, Fed, GoesOn, After
  <2> QED  BY <2>1, <2>2
<1>16. ASSUME KillLists(c) PROVE Placed(c)' /\ Fed(c)
  <2>1. CASE call'[c] = NoCall
    BY <1>d, <2>1
  <2>2. CASE call'[c] # NoCall
    <3>1. /\ call[c].op = "killOn" /\ call[c].at = "list" /\ call'[c].op = "killOn" /\ call'[c].at = "loop"
          /\ call'[c].task = call[c].task /\ call'[c].todo = RunningRows
          /\ call'[c].late = call[c].late
      BY <1>16, <1>a, <2>2, OwnFields DEF KillLists, At, Calls
    <3> QED  BY <3>1 DEF Placed, PlacesOf, AtNone, Fed, GoesOn, After
  <2> QED  BY <2>1, <2>2
<1>17. ASSUME KillStopsRow(c) PROVE Placed(c)' /\ Fed(c)
  <2>1. call[c].task \in Tasks
    BY <1>17, <1>b DEF KillStopsRow, At, AtNone
  <2>2. call[c].todo \ {call[c].task} \in SUBSET Tasks
    BY <1>a, CallTypes
  <2> DEFINE rest == [NoCall EXCEPT !.op = "killOn", !.at = "loop",
                                    !.todo = call[c].todo \ {call[c].task}, !.late = call[c].late]
  <2>3. rest \in Calls
    BY <1>a, <2>2, RestType
  <2>4. call'[c] = NoCall \/ call'[c] = rest
    BY <1>17, <1>a, <2>1, <2>3, OwnFields, NoCallType DEF KillStopsRow
  <2>5. /\ rest.op = "killOn" /\ rest.at = "loop" /\ rest.task = None
        /\ rest.todo = call[c].todo \ {call[c].task} /\ rest.late = call[c].late
    BY DEF NoCall
  <2>6. call[c].op = "killOn" /\ call[c].at = "write"
    BY <1>17 DEF KillStopsRow, At
  <2> QED  BY <1>d, <2>4, <2>5, <2>6 DEF Placed, PlacesOf, AtNone, Fed, GoesOn, After
<1>18. ASSUME NEW t \in Tasks, KillStops(c, t) PROVE Placed(c)' /\ Fed(c)
  <2>1. Opens(c, t, "write", FALSE, TRUE) \/ Opens(c, t, "write", FALSE, FALSE)
    BY <1>18 DEF KillStops, Opens
  <2>2. /\ call[c].op = "killOn" /\ call[c].at = "loop" /\ call'[c].op = "killOn" /\ call'[c].at = "write"
        /\ call'[c].task = t /\ t \in call[c].todo
        /\ call'[c].todo = call[c].todo /\ call'[c].late = call[c].late
    BY <1>18, <1>a, <2>1, OwnFields DEF KillStops, At, Places
  <2>3. Placed(c)'
    BY <1>a, <2>2 DEF Placed, PlacesOf
  <2> QED  BY <2>2, <2>3 DEF Fed, GoesOn, After
<1>19. ASSUME TickReadsSwitch(c) PROVE Placed(c)' /\ Fed(c)
  <2>1. PICK left \in SUBSET Running : call'[c] = Next1(c, left)
    BY <1>19, <1>a DEF TickReadsSwitch
  <2> QED  BY <1>19, <1>e, <2>1 DEF TickReadsSwitch, At
<1>20. ASSUME TickSession(c) PROVE Placed(c)' /\ Fed(c)
  <2>1. call[c].task \in Tasks
    BY <1>20, <1>b DEF TickSession, At, AtNone
  <2>2. call'[c] = NoCall \/
        (call'[c].op = call[c].op /\ call'[c].task = call[c].task
         /\ call'[c].todo = call[c].todo /\ call'[c].late = call[c].late /\ call'[c].at \in {"lock"})
    BY <1>20, <1>a, <2>1, OwnFields, NoCallType DEF TickSession, Places
  <2> QED  BY <1>20, <1>d, <1>f, <2>1, <2>2 DEF TickSession, At, PlacesOf, After
<1>21. ASSUME TickCycle(c) PROVE Placed(c)' /\ Fed(c)
  <2>1. call[c].task \in Tasks
    BY <1>21, <1>b DEF TickCycle, At, AtNone
  <2>2. call'[c] = NoCall \/
        (call'[c].op = call[c].op /\ call'[c].task = call[c].task
         /\ call'[c].todo = call[c].todo /\ call'[c].late = call[c].late /\ call'[c].at \in {"cycle"})
    BY <1>21, <1>a, <2>1, OwnFields, NoCallType DEF TickCycle, Places
  <2> QED  BY <1>21, <1>d, <1>f, <2>1, <2>2 DEF TickCycle, At, PlacesOf, After
<1>22. ASSUME ResumeTakes(c) PROVE Placed(c)' /\ Fed(c)
  <2>1. call[c].task \in Tasks
    BY <1>22, <1>b DEF ResumeTakes, At, AtNone
  <2>2. call'[c] = NoCall \/
        (call'[c].op = call[c].op /\ call'[c].task = call[c].task
         /\ call'[c].todo = call[c].todo /\ call'[c].late = call[c].late /\ call'[c].at \in {"cycle"})
    BY <1>22, <1>a, <2>1, OwnFields, NoCallType DEF ResumeTakes, Places
  <2> QED  BY <1>22, <1>d, <1>f, <2>1, <2>2 DEF ResumeTakes, At, PlacesOf, After
<1>23. ASSUME CycleEnds(c) PROVE Placed(c)' /\ Fed(c)
  <2>1. call[c].todo \ {call[c].task} \in SUBSET (call[c].todo \cup Running)
    OBVIOUS
  <2>2. call'[c] = Next1(c, call[c].todo \ {call[c].task})
    BY <1>23, <1>a DEF CycleEnds
  <2>3. call[c].op \in {"tick", "resume"} /\ call[c].at = "cycle"
    BY <1>23, <1>a, CallTypes DEF CycleEnds, PlacesOf, Ops
  <2> QED  BY <1>a, <1>e, <2>1, <2>2, <2>3
<1>24. ASSUME CycleFails(c) PROVE Placed(c)' /\ Fed(c)
  <2>1. call[c].task \in Tasks
    BY <1>24, <1>b DEF CycleFails, At, AtNone
  <2>2. call'[c] = NoCall \/
        (call'[c].op = call[c].op /\ call'[c].task = call[c].task
         /\ call'[c].todo = call[c].todo /\ call'[c].late = call[c].late /\ call'[c].at \in {"error"})
    BY <1>24, <1>a, <2>1, OwnFields, NoCallType DEF CycleFails, Places
  <2> QED  BY <1>24, <1>d, <1>f, <2>1, <2>2 DEF CycleFails, At, PlacesOf, After
<1>25. ASSUME ErrorWritten(c) PROVE Placed(c)' /\ Fed(c)
  <2>1. call[c].task \in Tasks
    BY <1>25, <1>b DEF ErrorWritten, At, AtNone
  <2>2. call[c].todo \ {call[c].task} \in SUBSET Tasks
    BY <1>a, CallTypes
  <2>3. call'[c] = NoCall \/ call'[c] = Next1(c, call[c].todo \ {call[c].task})
    BY <1>25, <1>a, <2>1, <2>2, OwnFields, NoCallType, RestType DEF ErrorWritten
  <2>4. call[c].op = "tick" /\ call[c].at = "error"
    BY <1>25 DEF ErrorWritten, At
  <2> QED  BY <1>d, <1>e, <2>2, <2>3, <2>4
<1> QED  BY <1>c, <1>1, <1>2, <1>3, <1>4, <1>5, <1>6, <1>7, <1>8, <1>9, <1>10, <1>11, <1>12, <1>13, <1>14, <1>15, <1>16, <1>17, <1>18, <1>19, <1>20, <1>21, <1>22, <1>23, <1>24, <1>25 DEF Step, PlaceInv, Placed

-----------------------------------------------------------------------------
(* Types.                                                                  *)

\* The status that starting, pausing or stopping a task gives it.
LEMMA Targets ==
  /\ Target["start"] = "running" /\ Target["pause"] = "paused" /\ Target["stop"] = "stopped"
  /\ \A op \in Starters : Target[op] \in Stored
BY DEF Target, Starters, Stored

\* The types of all but the calls.
RestOK ==
  /\ row \in [Tasks -> Stored \cup Gone]
  /\ conf \in [Tasks -> Nat]
  /\ kill \in BOOLEAN
  /\ mem \in [Tasks -> Stored \cup {"none"}]
  /\ built \in [Tasks -> Nat]
  /\ lock \in [Tasks -> Callers \cup {None}]
  /\ calls \in Nat /\ faults \in Nat
  /\ split \subseteq Tasks /\ raced \subseteq Tasks
  /\ excused \subseteq Tasks /\ dated \subseteq Tasks

\* Steps of a call keep the types.
LEMMA TypeStep ==
  ASSUME RuntimeAssumption, TypeOK, PlaceInv, NEW c \in Callers, Step(c)
  PROVE  TypeOK'
<1>a. call' \in [Callers -> Calls]
  BY CallStep DEF Keeps
<1>b. RestOK
  BY DEF TypeOK, RestOK
<1>c. call[c].op # "none" /\ ~AtNone(c) => call[c].task \in Tasks
  BY DEF PlaceInv
<1>d. call[c].saw \in Nat /\ call[c].todo \in SUBSET Tasks
  BY CallTypes DEF TypeOK
<1>e. Fault \/ NoFault => faults' \in Nat
  BY <1>b DEF Fault, NoFault, RestOK
<1> USE DEF db, memory, counts, history
<1>1. ASSUME BulkCheck(c) PROVE RestOK'
  BY <1>1, <1>b, <1>c, <1>d, <1>e DEF BulkCheck, RestOK, At, AtNone, Stored, Gone
<1>2. ASSUME NoRecord(c) PROVE RestOK'
  BY <1>2, <1>b, <1>c, <1>d, <1>e DEF NoRecord, RestOK, At, AtNone, Stored, Gone
<1>3. ASSUME CreateInserts(c) PROVE RestOK'
  BY <1>3, <1>b, <1>c, <1>d, <1>e DEF CreateInserts, RestOK, At, AtNone, Stored, Gone
<1>4. ASSUME CreateRegisters(c) PROVE RestOK'
  BY <1>4, <1>b, <1>c, <1>d, <1>e DEF CreateRegisters, RestOK, At, AtNone, Stored, Gone, Register, Dates
<1>5. ASSUME ReadRecord(c) PROVE RestOK'
  <2>1. call[c].task \in Tasks
    BY <1>5, <1>c DEF ReadRecord, At, AtNone, Starters
  <2>2. Target[call[c].op] \in Stored
    BY <1>5, Targets DEF ReadRecord, At, Starters
  <2> QED  BY <1>5, <1>b, <1>d, <1>e, <2>1, <2>2 DEF ReadRecord, RestOK, Sets, Races
<1>6. ASSUME StartReadsSwitch(c) PROVE RestOK'
  <2>1. call[c].task \in Tasks
    BY <1>6, <1>c DEF StartReadsSwitch, At, AtNone, Starters
  <2>2. Target[call[c].op] \in Stored
    BY <1>6, Targets DEF StartReadsSwitch, At, Starters
  <2> QED  BY <1>6, <1>b, <1>d, <1>e, <2>1, <2>2 DEF StartReadsSwitch, RestOK, Sets, Races
<1>7. ASSUME Builds(c) PROVE RestOK'
  <2>1. call[c].task \in Tasks
    BY <1>7, <1>c DEF Builds, At, AtNone, Starters
  <2>2. Target[call[c].op] \in Stored
    BY <1>7, Targets DEF Builds, At, Starters
  <2> QED  BY <1>7, <1>b, <1>d, <1>e, <2>1, <2>2 DEF Builds, RestOK, Register, Races, Dates
<1>8. ASSUME WritesStatus(c) PROVE RestOK'
  <2>1. call[c].task \in Tasks
    BY <1>8, <1>c DEF WritesStatus, At, AtNone, Starters
  <2>2. Target[call[c].op] \in Stored
    BY <1>8, Targets DEF WritesStatus, At, Starters
  <2> QED  BY <1>8, <1>b, <1>d, <1>e, <2>1, <2>2 DEF WritesStatus, RestOK, Closes
<1>9. ASSUME DeletePops(c) PROVE RestOK'
  BY <1>9, <1>b, <1>c, <1>d, <1>e DEF DeletePops, RestOK, At, AtNone, Stored, Gone
<1>10. ASSUME DeleteRow(c) PROVE RestOK'
  BY <1>10, <1>b, <1>c, <1>d, <1>e DEF DeleteRow, RestOK, At, AtNone, Stored, Gone, Closes
<1>11. ASSUME UpdateReads(c) PROVE RestOK'
  BY <1>11, <1>b, <1>c, <1>d, <1>e DEF UpdateReads, RestOK, At, AtNone, Stored, Gone
<1>12. ASSUME UpdateStores(c) PROVE RestOK'
  BY <1>12, <1>b, <1>c, <1>d, <1>e DEF UpdateStores, RestOK, At, AtNone, Stored, Gone
<1>13. ASSUME UpdateReadsBack(c) PROVE RestOK'
  BY <1>13, <1>b, <1>c, <1>d, <1>e DEF UpdateReadsBack, RestOK, At, AtNone, Stored, Gone
<1>14. ASSUME UpdateRebuilds(c) PROVE RestOK'
  BY <1>14, <1>b, <1>c, <1>d, <1>e DEF UpdateRebuilds, RestOK, At, AtNone, Stored, Gone, Dates
<1>15. ASSUME KillWrites(c) PROVE RestOK'
  BY <1>15, <1>b, <1>c, <1>d, <1>e DEF KillWrites, RestOK, At, AtNone, Stored, Gone
<1>16. ASSUME KillLists(c) PROVE RestOK'
  BY <1>16, <1>b, <1>c, <1>d, <1>e DEF KillLists, RestOK, At, AtNone, Stored, Gone, RunningRows, Running
<1>17. ASSUME KillStopsRow(c) PROVE RestOK'
  <2>1. call[c].task \in Tasks
    BY <1>17, <1>c DEF KillStopsRow, At, AtNone
  <2>2. split' \in {split \ {call[c].task}, split \cup {call[c].task}}
    BY <1>17 DEF KillStopsRow, Closes
  <2>3. row' \in {row, [row EXCEPT ![call[c].task] = "stopped"]} /\ faults' \in Nat
    BY <1>17, <1>e DEF KillStopsRow
  <2>4. excused' \in {excused, excused \cup (call[c].todo \ {call[c].task})}
    BY <1>17 DEF KillStopsRow
  <2>5. UNCHANGED <<conf, kill, memory, calls, raced, dated>>
    BY <1>17 DEF KillStopsRow
  <2> QED  BY <1>b, <1>d, <2>1, <2>2, <2>3, <2>4, <2>5 DEF RestOK, Stored, memory
<1>18. ASSUME NEW t \in Tasks, KillStops(c, t) PROVE RestOK'
  BY <1>18, <1>b DEF KillStops, RestOK, Stored
<1>19. ASSUME TickReadsSwitch(c) PROVE RestOK'
  BY <1>19, <1>b, <1>c, <1>d, <1>e DEF TickReadsSwitch, RestOK, At, AtNone, Stored, Gone
<1>20. ASSUME TickSession(c) PROVE RestOK'
  BY <1>20, <1>b, <1>c, <1>d, <1>e DEF TickSession, RestOK, At, AtNone, Stored, Gone
<1>21. ASSUME TickCycle(c) PROVE RestOK'
  BY <1>21, <1>b, <1>c, <1>d, <1>e DEF TickCycle, RestOK, At, AtNone, Stored, Gone, Takes
<1>22. ASSUME ResumeTakes(c) PROVE RestOK'
  BY <1>22, <1>b, <1>c, <1>d, <1>e DEF ResumeTakes, RestOK, At, AtNone, Stored, Gone, Takes
<1>23. ASSUME CycleEnds(c) PROVE RestOK'
  BY <1>23, <1>b, <1>c, <1>d, <1>e DEF CycleEnds, RestOK, At, AtNone, Stored, Gone, Frees
<1>24. ASSUME CycleFails(c) PROVE RestOK'
  BY <1>24, <1>b, <1>c, <1>d, <1>e DEF CycleFails, RestOK, At, AtNone, Stored, Gone
<1>25. ASSUME ErrorWritten(c) PROVE RestOK'
  <2>1. call[c].task \in Tasks
    BY <1>25, <1>c DEF ErrorWritten, At, AtNone
  <2>2. split' \in {split \ {call[c].task}, split \cup {call[c].task}}
    BY <1>25 DEF ErrorWritten, Closes
  <2>3. row' \in {row, [row EXCEPT ![call[c].task] = "error"]} /\ faults' \in Nat
    BY <1>25, <1>e DEF ErrorWritten
  <2>4. lock' = [lock EXCEPT ![call[c].task] = None]
    BY <1>25 DEF ErrorWritten, Frees
  <2>5. UNCHANGED <<conf, kill, mem, built, calls, raced, excused, dated>>
    BY <1>25 DEF ErrorWritten
  <2> QED  BY <1>b, <2>1, <2>2, <2>3, <2>4, <2>5 DEF RestOK, Stored
<1> QED  BY <1>a, <1>1, <1>2, <1>3, <1>4, <1>5, <1>6, <1>7, <1>8, <1>9, <1>10, <1>11, <1>12, <1>13, <1>14, <1>15, <1>16, <1>17, <1>18, <1>19, <1>20, <1>21, <1>22, <1>23, <1>24, <1>25 DEF Step, TypeOK, RestOK

-----------------------------------------------------------------------------
(* Which tasks there are.                                                  *)

\* A step leaves a task that has no row without one and without an instance, unless
\* it is the create_task's own.
Born(c, t) ==
  /\ row'[t] = "none" => row[t] = "none" /\ conf'[t] = 0 /\ mem'[t] = "none"
  /\ row[t] = "none" /\ row'[t] # "none" => Creates(c, t)
  /\ Creates(c, t) => row'[t] # "none" \/ call'[c].task # t

\* Every step of a call does so.
LEMMA RowStep ==
  ASSUME RuntimeAssumption, TypeOK, PlaceInv, PastInv, NEW c \in Callers, Step(c),
         NEW t \in Tasks
  PROVE  Born(c, t)
<1>a. Done(c) /\ call[c].task = t => call'[c].task # t
  BY RuntimeAssumption DEF RuntimeAssumption, TypeOK, Done, NoCall
<1>b. RestOK
  BY DEF TypeOK, RestOK
<1>c. call[c].op # "none" /\ ~AtNone(c) => call[c].task \in Tasks
  BY DEF PlaceInv
<1>d. /\ row[t] = "none" => conf[t] = 0 /\ mem[t] = "none"
      /\ call[c].task = t /\ ~Creates(c, t) => row[t] # "none"
      /\ t \in call[c].todo => row[t] # "none"
  BY DEF PastInv
<1> USE DEF db, memory, counts, history
<1>1. ASSUME BulkCheck(c) PROVE Born(c, t)
  BY <1>1, <1>b, <1>c, <1>d DEF BulkCheck, RestOK, At, AtNone, Born, Creates
<1>2. ASSUME NoRecord(c) PROVE Born(c, t)
  BY <1>2, <1>a, <1>b, <1>c, <1>d DEF NoRecord, RestOK, AtNone, Born, Creates
<1>3. ASSUME CreateInserts(c) PROVE Born(c, t)
  BY <1>3, <1>a, <1>b, <1>c, <1>d DEF CreateInserts, RestOK, At, AtNone, Born, Creates
<1>4. ASSUME CreateRegisters(c) PROVE Born(c, t)
  BY <1>4, <1>b, <1>c, <1>d DEF CreateRegisters, RestOK, At, AtNone, Born, Creates, Register
<1>5. ASSUME ReadRecord(c) PROVE Born(c, t)
  BY <1>5, <1>b, <1>c, <1>d DEF ReadRecord, RestOK, At, AtNone, Born, Creates, Sets, Starters
<1>6. ASSUME StartReadsSwitch(c) PROVE Born(c, t)
  BY <1>6, <1>b, <1>c, <1>d DEF StartReadsSwitch, RestOK, At, AtNone, Born, Creates, Sets
<1>7. ASSUME Builds(c) PROVE Born(c, t)
  <2>1. call[c].op \in Starters /\ call[c].task \in Tasks
    BY <1>7, <1>c DEF Builds, At, AtNone, Starters
  <2>2. Target[call[c].op] # "none" /\ (call[c].task = t => row[t] # "none")
    BY <1>d, <2>1, Targets DEF Stored, Creates, Starters
  <2> QED  BY <1>7, <1>b, <1>d, <2>1, <2>2 DEF Builds, RestOK, Born, Register, Creates, Starters
<1>8. ASSUME WritesStatus(c) PROVE Born(c, t)
  <2>1. call[c].op \in Starters /\ call[c].task \in Tasks
    BY <1>8, <1>c DEF WritesStatus, At, AtNone, Starters
  <2>2. Target[call[c].op] # "none" /\ (call[c].task = t => row[t] # "none")
    BY <1>d, <2>1, Targets DEF Stored, Creates, Starters
  <2> QED  BY <1>8, <1>b, <1>d, <2>1, <2>2 DEF WritesStatus, RestOK, Born, Creates, Starters
<1>9. ASSUME DeletePops(c) PROVE Born(c, t)
  BY <1>9, <1>b, <1>c, <1>d DEF DeletePops, RestOK, At, AtNone, Born, Creates
<1>10. ASSUME DeleteRow(c) PROVE Born(c, t)
  BY <1>10, <1>b, <1>c, <1>d DEF DeleteRow, RestOK, At, AtNone, Born, Creates
<1>11. ASSUME UpdateReads(c) PROVE Born(c, t)
  BY <1>11, <1>b, <1>c, <1>d DEF UpdateReads, RestOK, At, AtNone, Born, Creates
<1>12. ASSUME UpdateStores(c) PROVE Born(c, t)
  BY <1>12, <1>b, <1>c, <1>d DEF UpdateStores, RestOK, At, AtNone, Born, Creates, Exists, Gone
<1>13. ASSUME UpdateReadsBack(c) PROVE Born(c, t)
  BY <1>13, <1>b, <1>c, <1>d DEF UpdateReadsBack, RestOK, At, AtNone, Born, Creates
<1>14. ASSUME UpdateRebuilds(c) PROVE Born(c, t)
  BY <1>14, <1>b, <1>c, <1>d DEF UpdateRebuilds, RestOK, At, AtNone, Born, Creates
<1>15. ASSUME KillWrites(c) PROVE Born(c, t)
  BY <1>15, <1>b, <1>c, <1>d DEF KillWrites, RestOK, At, AtNone, Born, Creates
<1>16. ASSUME KillLists(c) PROVE Born(c, t)
  BY <1>16, <1>b, <1>c, <1>d DEF KillLists, RestOK, At, AtNone, Born, Creates, RunningRows, Running
<1>17. ASSUME KillStopsRow(c) PROVE Born(c, t)
  BY <1>17, <1>b, <1>c, <1>d DEF KillStopsRow, RestOK, At, AtNone, Born, Creates
<1>18. ASSUME NEW u \in Tasks, KillStops(c, u) PROVE Born(c, t)
  BY <1>18, <1>b, <1>d DEF KillStops, RestOK, Born, Creates, At
<1>19. ASSUME TickReadsSwitch(c) PROVE Born(c, t)
  BY <1>19, <1>b, <1>c, <1>d DEF TickReadsSwitch, RestOK, At, AtNone, Born, Creates
<1>20. ASSUME TickSession(c) PROVE Born(c, t)
  BY <1>20, <1>b, <1>c, <1>d DEF TickSession, RestOK, At, AtNone, Born, Creates
<1>21. ASSUME TickCycle(c) PROVE Born(c, t)
  BY <1>21, <1>b, <1>c, <1>d DEF TickCycle, RestOK, At, AtNone, Born, Creates
<1>22. ASSUME ResumeTakes(c) PROVE Born(c, t)
  BY <1>22, <1>b, <1>c, <1>d DEF ResumeTakes, RestOK, At, AtNone, Born, Creates
<1>23. ASSUME CycleEnds(c) PROVE Born(c, t)
  BY <1>23, <1>b, <1>c, <1>d DEF CycleEnds, RestOK, At, AtNone, Born, Creates
<1>24. ASSUME CycleFails(c) PROVE Born(c, t)
  BY <1>24, <1>b, <1>c, <1>d DEF CycleFails, RestOK, At, AtNone, Born, Creates
<1>25. ASSUME ErrorWritten(c) PROVE Born(c, t)
  BY <1>25, <1>b, <1>c, <1>d DEF ErrorWritten, RestOK, At, AtNone, Born, Creates
<1> QED  BY <1>1, <1>2, <1>3, <1>4, <1>5, <1>6, <1>7, <1>8, <1>9, <1>10, <1>11, <1>12, <1>13, <1>14, <1>15, <1>16, <1>17, <1>18, <1>19, <1>20, <1>21, <1>22, <1>23, <1>24, <1>25 DEF Step

\* Nobody is at a task that was not created.
LEMMA PastStep ==
  ASSUME RuntimeAssumption, TypeOK, PlaceInv, PastInv, NEW c \in Callers, Step(c)
  PROVE  PastInv'
<1>1. Keeps(c) /\ PlaceInv' /\ Fed(c)
  BY CallStep, PlaceStep
<1>2. \A t \in Tasks : Born(c, t)
  BY RowStep
<1>3. \A t \in Tasks : t \in call'[c].todo => row'[t] # "none"
  <2>1. \A t \in Tasks : t \in call'[c].todo => row[t] # "none"
    BY <1>1 DEF Fed, GoesOn, NoCall, RunningRows, Running, PastInv
  <2> QED  BY <1>2, <2>1 DEF Born
<1>4. \A t \in Tasks : ~Creates(c, t)'
  <2>1. call[c].op = "create" => "build" \notin After(call[c].op, call[c].at)
    BY DEF PlaceInv, PlacesOf, After
  <2> QED  BY <1>1, <2>1 DEF Fed, GoesOn, NoCall, Creates
<1>5. \A t \in Tasks : call'[c].task = t => row'[t] # "none"
  <2> SUFFICES ASSUME NEW t \in Tasks, call'[c].task = t, row'[t] = "none" PROVE FALSE
    OBVIOUS
  <2>1. t # None
    BY RuntimeAssumption DEF RuntimeAssumption
  <2>2. row[t] = "none" /\ t \notin call'[c].todo
    BY <1>2, <1>3 DEF Born
  <2>3. call[c].task = t
    BY <1>1, <2>1, <2>2 DEF Fed, GoesOn, NoCall, PastInv
  <2>4. Creates(c, t)
    BY <2>2, <2>3 DEF PastInv
  <2> QED  BY <1>2, <2>4 DEF Born
<1>6. ASSUME NEW t \in Tasks, NEW d \in Callers \ {c}
      PROVE  /\ call'[d].task = t /\ ~Creates(d, t)' => row'[t] # "none"
             /\ t \in call'[d].todo => row'[t] # "none"
             /\ Creates(d, t)' => /\ row'[t] = "none"
                                  /\ \A e \in Callers : call'[e].task = t => e = d
  BY <1>1, <1>2, <1>5 DEF Keeps, Kept, Creates, PastInv, Born
<1> QED  BY <1>2, <1>3, <1>4, <1>5, <1>6 DEF PastInv, Born

-----------------------------------------------------------------------------
(* The cycle locks.                                                        *)

\* Only these steps touch a lock.
LEMMA LockActions ==
  ASSUME NEW c \in Callers, Step(c)
  PROVE  \/ TickCycle(c) \/ ResumeTakes(c) \/ CycleEnds(c) \/ ErrorWritten(c)
         \/ lock' = lock /\ call[c].at # "lock"
BY DEF Step, memory, At, BulkCheck, NoRecord, CreateInserts, CreateRegisters, ReadRecord,
       StartReadsSwitch, Builds, WritesStatus, DeletePops, DeleteRow, UpdateReads, UpdateStores,
       UpdateReadsBack, UpdateRebuilds, KillWrites, KillLists, KillStopsRow, KillStops,
       TickReadsSwitch, TickSession, CycleFails

\* Who uses a worker holds the lock of its task.
LEMMA LockStep ==
  ASSUME RuntimeAssumption, TypeOK, PlaceInv, LockInv, NEW c \in Callers, Step(c)
  PROVE  LockInv'
<1>1. Keeps(c) /\ PlaceInv' /\ Fed(c)
  BY CallStep, PlaceStep
<1>2. call'[c].at \in {"cycle", "error"} =>
        /\ call'[c].task = call[c].task /\ call'[c].task \in Tasks
        /\ call'[c].at = "cycle" => call[c].at = "lock"
        /\ call'[c].at = "error" => call[c].at = "cycle"
  BY <1>1 DEF Fed, GoesOn, After, NoCall, PlaceInv, AtNone, PlacesOf
<1>3. \A d \in Callers : call[d].at \in {"cycle", "error"} => call[d].task \in Tasks
  BY DEF PlaceInv, AtNone, PlacesOf
<1>4. ASSUME \A d \in Callers \ {c} : call[d].at \in {"cycle", "error"} => lock'[call[d].task] = d,
             call'[c].at \in {"cycle", "error"} => lock'[call[c].task] = c
      PROVE  LockInv'
  BY <1>1, <1>2, <1>4 DEF Keeps, Kept, LockInv
<1>5. lock \in [Tasks -> Callers \cup {None}] /\ None \notin Callers
  BY RuntimeAssumption DEF RuntimeAssumption, TypeOK
<1>6. CASE TickCycle(c)
  <2>1. call[c].task \in Tasks
    BY <1>6 DEF TickCycle, At, PlaceInv, AtNone
  <2> QED  BY <1>3, <1>4, <1>5, <1>6, <2>1 DEF TickCycle, Takes, LockInv
<1>7. CASE ResumeTakes(c)
  <2>1. call[c].task \in Tasks
    BY <1>7 DEF ResumeTakes, At, PlaceInv, AtNone
  <2>2. CASE Takes(c, call[c].task)
    BY <1>3, <1>4, <1>5, <2>1, <2>2 DEF Takes, LockInv
  <2>3. CASE ~Takes(c, call[c].task)
    <3>1. lock' = lock /\ call'[c] = NoCall
      BY <1>7, <2>3, OwnFields DEF ResumeTakes, TypeOK
    <3> QED  BY <1>4, <3>1 DEF NoCall, LockInv
  <2> QED  BY <2>2, <2>3
<1>8. CASE CycleEnds(c) \/ ErrorWritten(c)
  <2>1. lock' = [lock EXCEPT ![call[c].task] = None] /\ call[c].at \in {"cycle", "error"}
    BY <1>8 DEF CycleEnds, ErrorWritten, Frees, At
  <2>2. lock[call[c].task] = c /\ call[c].task \in Tasks
    BY <1>3, <2>1 DEF LockInv
  <2>3. call'[c].at \notin {"cycle", "error"}
    <3>1. CASE ErrorWritten(c)
      BY <1>2, <3>1 DEF ErrorWritten, At
    <3>2. CASE CycleEnds(c)
      <4>1. call'[c] = Next1(c, call[c].todo \ {call[c].task})
        BY <3>2 DEF CycleEnds, TypeOK
      <4> QED  BY <4>1 DEF Next1, NoCall
    <3> QED  BY <1>8, <3>1, <3>2
  <2> QED  BY <1>3, <1>4, <1>5, <2>1, <2>2, <2>3 DEF LockInv
<1>9. CASE lock' = lock /\ call[c].at # "lock"
  BY <1>2, <1>4, <1>9 DEF LockInv
<1> QED  BY <1>6, <1>7, <1>8, <1>9, LockActions

-----------------------------------------------------------------------------
(* The kill switch and those that have yet to read it.                     *)

\* A call is late only while the switch is on, and a late start or tick does not
\* get past the switch.
LEMMA LateStep ==
  ASSUME RuntimeAssumption, TypeOK, PlaceInv, LateInv, NothingBeginsUnderKill,
         NEW c \in Callers, Step(c)
  PROVE  LateInv' /\ NothingBeginsUnderKill'
<1>1. Keeps(c) /\ Fed(c)
  BY CallStep, PlaceStep
<1>2. CASE KillWrites(c) /\ kill'
  <2>1. call[c].op \in {"killOn", "killOff"}
    BY <1>2 DEF KillWrites, At
  <2>2. LateInv'
    BY <1>2 DEF LateInv
  <2>3. NothingBeginsUnderKill'
    BY <1>1, <2>1 DEF Keeps, Kept, Fed, GoesOn, NoCall, NothingBeginsUnderKill
  <2> QED  BY <2>2, <2>3
<1>3. CASE KillWrites(c) /\ ~kill'
  <2>1. CASE kill' = kill /\ call'[c] = NoCall
    BY <1>1, <1>3, <2>1 DEF Keeps, Kept, NoCall, LateInv, NothingBeginsUnderKill
  <2>2. CASE call' = [d \in Callers |-> IF d = c THEN NoCall ELSE [call[d] EXCEPT !.late = FALSE]]
    <3>1. \A d \in Callers : call[d] \in Calls
      BY DEF TypeOK
    <3>2. \A d \in Callers : call'[d].late = FALSE
      BY <2>2, <3>1 DEF NoCall, Calls
    <3> QED  BY <3>2 DEF LateInv, NothingBeginsUnderKill
  <2> QED  BY <1>3, <2>1, <2>2, OwnFields DEF KillWrites, TypeOK
<1>4. CASE kill' = kill /\ (call'[c].late /\ kill /\ call'[c].op \in {"start", "tick"} =>
                              call[c].at \notin {"switch"} \/ call'[c] = NoCall)
  <2>1. LateInv'
    BY <1>1, <1>4 DEF Keeps, Kept, Fed, GoesOn, NoCall, LateInv
  <2>2. call'[c].late => call'[c] # NoCall /\ call[c].late /\ kill
    <3>1. ~NoCall.late
      BY DEF NoCall
    <3> QED  BY <1>1, <3>1 DEF Fed, GoesOn, LateInv
  <2>3. call'[c].late /\ call'[c].op = "start" => call'[c].at \in {"record", "switch"}
    BY <1>1, <1>4, <2>2 DEF Fed, GoesOn, After, NothingBeginsUnderKill
  <2>4. call'[c].late /\ call'[c].op = "tick" => call'[c].at = "switch"
    BY <1>1, <1>4, <2>2 DEF Fed, GoesOn, After, NothingBeginsUnderKill
  <2> QED  BY <1>1, <2>1, <2>3, <2>4 DEF Keeps, Kept, NothingBeginsUnderKill
<1>5. kill' = kill \/ KillWrites(c)
  BY DEF Step, db, At, BulkCheck, NoRecord, CreateInserts, CreateRegisters, ReadRecord,
       StartReadsSwitch, Builds, WritesStatus, DeletePops, DeleteRow, UpdateReads, UpdateStores,
       UpdateReadsBack, UpdateRebuilds, KillLists, KillStopsRow, KillStops,
       TickReadsSwitch, TickSession, TickCycle, ResumeTakes, CycleEnds, CycleFails, ErrorWritten
<1>6. kill /\ call[c].at = "switch" /\ call[c].op \in {"start", "tick"} => call'[c] = NoCall
  <2> SUFFICES ASSUME kill, call[c].at = "switch", call[c].op \in {"start", "tick"}
               PROVE  call'[c] = NoCall
    OBVIOUS
  <2>1. StartReadsSwitch(c) \/ TickReadsSwitch(c)
    BY DEF Step, At, BulkCheck, NoRecord, CreateInserts, CreateRegisters, ReadRecord, Starters,
       Builds, WritesStatus, DeletePops, DeleteRow, UpdateReads, UpdateStores,
       UpdateReadsBack, UpdateRebuilds, KillWrites, KillLists, KillStopsRow, KillStops,
       TickSession, TickCycle, ResumeTakes, CycleEnds, CycleFails, ErrorWritten
  <2>2. CASE StartReadsSwitch(c)
    BY <2>2, OwnFields DEF StartReadsSwitch, TypeOK
  <2>3. CASE TickReadsSwitch(c)
    <3>1. call'[c] = Next1(c, {})
      BY <2>3 DEF TickReadsSwitch, TypeOK
    <3> QED  BY <3>1 DEF Next1
  <2> QED  BY <2>1, <2>2, <2>3
<1> QED  BY <1>1, <1>2, <1>3, <1>4, <1>5, <1>6 DEF Fed, GoesOn

-----------------------------------------------------------------------------
(* Row and memory.                                                         *)

\* The places between the two changes.
Between == {"write", "register", "close", "error"}

\* A call that was disturbed is not alone.
LEMMA NotAlone ==
  ASSUME NEW r \in Calls PROVE ~[r EXCEPT !.alone = FALSE].alone
BY DEF Calls

\* What a step leaves of the tasks other than t.
SameBut(t) == \A u \in Tasks \ {t} : row'[u] = row[u] /\ mem'[u] = mem[u]

\* What is true of a call and a task of which the step changes nothing stays true.
LEMMA OpenedStays ==
  ASSUME NEW d \in Callers, NEW u \in Tasks, Kept(d), row'[u] = row[u], mem'[u] = mem[u],
         Opened(d, u)
  PROVE  Opened(d, u)'
BY DEF Kept, Opened

\* A step that opens nothing and closes nothing.
LEMMA AgreeQuiet ==
  ASSUME AgreeInv, NEW c \in Callers, Keeps(c),
         call[c].at \notin Between, call'[c].at \notin Between,
         row' = row, mem' = mem, split' = split
  PROVE  AgreeInv'
<1>1. \A d \in Callers, t \in Tasks : Halfway(d, t)' <=> Halfway(d, t)
  BY DEF Keeps, Kept, Halfway, Between
<1>2. RowAndMemoryAgree'
  BY <1>1 DEF AgreeInv, RowAndMemoryAgree, Loaded
<1>3. ASSUME NEW t \in Tasks, NEW d \in Callers, Halfway(d, t)', call'[d].alone
      PROVE  Opened(d, t)' /\ Undisturbed(d, t)'
  <2>1. d # c /\ Kept(d)
    BY <1>3 DEF Keeps, Halfway, Between
  <2>2. Halfway(d, t) /\ call[d].alone
    BY <1>1, <1>3, <2>1 DEF Kept
  <2>3. Opened(d, t) /\ Undisturbed(d, t)
    BY <2>2 DEF AgreeInv
  <2> QED  BY <1>1, <2>1, <2>3, OpenedStays DEF Undisturbed
<1> QED  BY <1>2, <1>3 DEF AgreeInv

\* The first change. Whoever is halfway through the task is alone no more.
LEMMA AgreeOpens ==
  ASSUME TypeOK, AgreeInv, NEW c \in Callers, NEW t \in Tasks, NEW at \in Between,
         NEW swaps \in BOOLEAN, NEW agree \in BOOLEAN, Opens(c, t, at, swaps, agree),
         Keeps(c), call[c].at \notin Between, SameBut(t), split' = split,
         agree => Opened(c, t)'
  PROVE  AgreeInv'
<1>1. \A d \in Callers \ {c} : Kept(d) /\ (Halfway(d, t) => ~call'[d].alone)
  <2> SUFFICES ASSUME NEW d \in Callers \ {c} PROVE Halfway(d, t) => ~call'[d].alone
    BY DEF Keeps
  <2>1. Halfway(d, t) => call'[d] = [call[d] EXCEPT !.alone = FALSE]
    BY DEF Opens, Disturb, TypeOK
  <2> QED  BY <2>1 DEF TypeOK, Calls
<1>2. call'[c].task = t /\ call'[c].at = at /\ (call'[c].alone => agree /\ Undisturbed(c, t))
  <2>1. call'[c].task = t /\ call'[c].at = at
    BY OwnFields DEF TypeOK, Between, Places
  <2>2. PICK alone \in BOOLEAN : alone = (agree /\ Undisturbed(c, t))
    OBVIOUS
  <2>3. call'[c] = [call[c] EXCEPT !.at = at, !.task = t, !.saw = 0,
                                   !.alone = agree /\ Undisturbed(c, t)]
    BY DEF Opens, Disturb, TypeOK
  <2>4. call'[c] = [call[c] EXCEPT !.at = at, !.task = t, !.saw = 0, !.alone = alone]
    BY <2>2, <2>3
  <2>5. call'[c].alone = alone
    BY <2>4 DEF TypeOK, Calls
  <2> QED  BY <2>1, <2>2, <2>5
<1>3. Halfway(c, t)' /\ \A u \in Tasks : u # t => ~Halfway(c, u)' /\ ~Halfway(c, u)
  BY <1>2 DEF Halfway, Between
<1>4. \A d \in Callers \ {c}, u \in Tasks : Halfway(d, u)' <=> Halfway(d, u)
  BY <1>1 DEF Kept, Halfway
<1>5. RowAndMemoryAgree'
  BY <1>3, <1>4 DEF AgreeInv, RowAndMemoryAgree, Loaded, SameBut
<1>6. ASSUME Halfway(c, t)', call'[c].alone
      PROVE  Opened(c, t)' /\ Undisturbed(c, t)'
  BY <1>2, <1>4, <1>6 DEF Undisturbed
<1>7. ASSUME NEW d \in Callers \ {c}, NEW u \in Tasks, Halfway(d, u)', call'[d].alone
      PROVE  Opened(d, u)' /\ Undisturbed(d, u)'
  <2>1. u # t /\ Halfway(d, u) /\ call[d].alone
    BY <1>1, <1>4, <1>7 DEF Kept
  <2>2. Opened(d, u) /\ Undisturbed(d, u)
    BY <2>1 DEF AgreeInv
  <2>3. Opened(d, u)'
    BY <1>1, <2>1, <2>2, OpenedStays DEF SameBut
  <2> QED  BY <1>3, <1>4, <2>1, <2>2, <2>3 DEF Undisturbed
<1> QED  BY <1>3, <1>5, <1>6, <1>7 DEF AgreeInv

\* The second change.
LEMMA AgreeCloses ==
  ASSUME TypeOK, AgreeInv, NEW c \in Callers, NEW t \in Tasks, Halfway(c, t),
         Keeps(c), call'[c].at \notin Between, SameBut(t),
         \A d \in Callers \ {c} : Halfway(d, t) => ~call'[d].alone,
         split' \subseteq split \cup {t}, \A u \in split : u # t => u \in split',
         t \notin split' => /\ call[c].alone /\ Undisturbed(c, t)
                            /\ Opened(c, t) => mem'[t] \in {"none", row'[t]}
  PROVE  AgreeInv'
<1>1. \A d \in Callers \ {c} : Kept(d)
  BY DEF Keeps
<1>2. \A u \in Tasks : ~Halfway(c, u)' /\ (u # t => ~Halfway(c, u))
  BY DEF Halfway, Between
<1>3. \A d \in Callers \ {c}, u \in Tasks : Halfway(d, u)' <=> Halfway(d, u)
  BY <1>1 DEF Kept, Halfway
<1>4. RowAndMemoryAgree'
  <2> SUFFICES ASSUME NEW u \in Tasks \ split', Loaded(u)', \A d \in Callers : ~Halfway(d, u)'
               PROVE  mem'[u] = row'[u]
    BY DEF RowAndMemoryAgree
  <2>1. CASE u = t
    BY <2>1 DEF AgreeInv, Loaded
  <2>2. CASE u # t
    BY <1>2, <1>3, <2>2 DEF AgreeInv, RowAndMemoryAgree, Loaded, SameBut
  <2> QED  BY <2>1, <2>2
<1>5. ASSUME NEW d \in Callers \ {c}, NEW u \in Tasks, Halfway(d, u)', call'[d].alone
      PROVE  Opened(d, u)' /\ Undisturbed(d, u)'
  <2>1. u # t /\ Halfway(d, u) /\ call[d].alone
    BY <1>1, <1>3, <1>5 DEF Kept
  <2>2. Opened(d, u) /\ Undisturbed(d, u)
    BY <2>1 DEF AgreeInv
  <2>3. Opened(d, u)'
    BY <1>1, <2>1, <2>2, OpenedStays DEF SameBut
  <2> QED  BY <1>2, <1>3, <2>1, <2>2, <2>3 DEF Undisturbed
<1> QED  BY <1>2, <1>4, <1>5 DEF AgreeInv

\* Row and memory of a task go apart only where a call is, or in split.
LEMMA AgreeStep ==
  ASSUME RuntimeAssumption, TypeOK, PlaceInv, AgreeInv, NEW c \in Callers, Step(c)
  PROVE  AgreeInv'
<1>a. Keeps(c) /\ Fed(c)
  BY CallStep, PlaceStep
<1>b. call \in [Callers -> Calls] /\ row \in [Tasks -> Stored \cup Gone]
      /\ mem \in [Tasks -> Stored \cup {"none"}] /\ split \subseteq Tasks
  BY DEF TypeOK
<1>c. call[c].op # "none" /\ ~AtNone(c) => call[c].task \in Tasks
  BY DEF PlaceInv
<1>d. call[c].at \in PlacesOf(call[c].op)
  BY DEF PlaceInv
<1>q. ASSUME call[c].at \notin Between \cup {"build", "loop"}, row' = row, mem' = mem, split' = split,
             call'[c].at \notin {"write", "close", "error"}
      PROVE  AgreeInv'
  <2>1. call'[c].at \notin Between
    BY <1>a, <1>q DEF Fed, GoesOn, After, NoCall, Between
  <2> QED  BY <1>a, <1>q, <2>1, AgreeQuiet
<1>r. ASSUME NEW t \in Tasks, NEW rest \in Calls, NEW agree \in BOOLEAN, Closes(c, t, rest, agree)
      PROVE  /\ \A d \in Callers \ {c} : Halfway(d, t) => ~call'[d].alone
             /\ split' \subseteq split \cup {t} /\ \A u \in split : u # t => u \in split'
             /\ t \notin split' => call[c].alone /\ Undisturbed(c, t) /\ agree
             /\ call'[c] = rest
  <2>1. \A d \in Callers \ {c} : Halfway(d, t) => call'[d] = [call[d] EXCEPT !.alone = FALSE]
    BY <1>b, <1>r DEF Closes, Disturb
  <2>2. \A d \in Callers \ {c} : Halfway(d, t) => ~call'[d].alone
    <3>1. \A d \in Callers : call[d] \in Calls
      BY <1>b
    <3> QED  BY <2>1, <3>1, NotAlone
  <2>3. call'[c] = rest
    BY <1>b, <1>r, OwnFields
  <2>4. /\ split' \subseteq split \cup {t} /\ \A u \in split : u # t => u \in split'
        /\ t \notin split' => call[c].alone /\ Undisturbed(c, t) /\ agree
    BY <1>r DEF Closes
  <2> QED  BY <2>2, <2>3, <2>4
<1> USE DEF db, memory, counts, history
<1>1. CASE BulkCheck(c)
  BY <1>1, <1>a, <1>b, <1>q DEF BulkCheck, At, Between, Fed, GoesOn, After, NoCall
<1>2. CASE NoRecord(c)
  BY <1>2, <1>b, <1>q, OwnFields DEF NoRecord, NoCall, Between
<1>3. CASE UpdateReads(c)
  BY <1>3, <1>a, <1>b, <1>q DEF UpdateReads, At, Between, Fed, GoesOn, After, NoCall
<1>4. CASE UpdateStores(c)
  BY <1>4, <1>a, <1>b, <1>q DEF UpdateStores, At, Between, Fed, GoesOn, After, NoCall
<1>5. CASE UpdateReadsBack(c)
  BY <1>5, <1>a, <1>b, <1>q DEF UpdateReadsBack, At, Between, Fed, GoesOn, After, NoCall
<1>6. CASE UpdateRebuilds(c)
  BY <1>6, <1>a, <1>b, <1>q DEF UpdateRebuilds, At, Between, Fed, GoesOn, After, NoCall
<1>7. CASE KillWrites(c)
  BY <1>7, <1>a, <1>b, <1>q DEF KillWrites, At, Between, Fed, GoesOn, After, NoCall
<1>8. CASE KillLists(c)
  BY <1>8, <1>a, <1>b, <1>q DEF KillLists, At, Between, Fed, GoesOn, After, NoCall
<1>9. CASE TickReadsSwitch(c)
  BY <1>9, <1>a, <1>b, <1>q DEF TickReadsSwitch, At, Between, Fed, GoesOn, After, NoCall
<1>10. CASE TickSession(c)
  BY <1>10, <1>a, <1>b, <1>q DEF TickSession, At, Between, Fed, GoesOn, After, NoCall
<1>11. CASE TickCycle(c)
  BY <1>11, <1>a, <1>b, <1>q DEF TickCycle, At, Between, Fed, GoesOn, After, NoCall
<1>12. CASE ResumeTakes(c)
  BY <1>12, <1>a, <1>b, <1>q DEF ResumeTakes, At, Between, Fed, GoesOn, After, NoCall
<1>13. CASE CycleEnds(c)
  <2>1. call'[c] = Next1(c, call[c].todo \ {call[c].task})
    BY <1>13, <1>b DEF CycleEnds
  <2>2. call'[c].at \in {"idle", "session"}
    BY <2>1 DEF Next1, NoCall
  <2> QED  BY <1>13, <1>q, <2>2 DEF CycleEnds, Between
<1>14. CASE CreateInserts(c)
  <2>1. PICK t \in Tasks : t = call[c].task
    BY <1>14, <1>c DEF CreateInserts, At, AtNone
  <2>2. CASE Done(c) /\ row' = row
    <3>1. call'[c] = NoCall
      BY <1>b, <2>2, OwnFields
    <3> QED  BY <1>14, <1>a, <2>2, <3>1, AgreeQuiet DEF CreateInserts, At, NoCall, Between
  <2>3. CASE Opens(c, t, "register", FALSE, TRUE) /\ row' = [row EXCEPT ![t] = "configured"]
    <3>1. call'[c].op = "create"
      BY <1>14, <1>b, <2>1, <2>3, OwnFields DEF CreateInserts, At, Places
    <3>2. Opened(c, t)'
      BY <1>b, <2>1, <2>3, <3>1 DEF Opened, Starters
    <3>3. SameBut(t) /\ call[c].at \notin Between /\ split' = split
      BY <1>14, <1>b, <2>1, <2>3 DEF CreateInserts, At, SameBut, Between
    <3> QED  BY <1>a, <2>1, <2>3, <3>2, <3>3, AgreeOpens DEF Between
  <2> QED  BY <1>14, <2>1, <2>2, <2>3 DEF CreateInserts
<1>15. ASSUME NEW t \in Tasks, Sets(c, t), call[c].op \in Starters,
             call[c].at \in {"record", "switch"}, row' = row, split' = split
      PROVE  AgreeInv'
  <2>1. Target[call[c].op] \in Stored
    BY <1>15, Targets
  <2>2. CASE Loaded(t)
    <3>1. Opens(c, t, "write", FALSE, TRUE) /\ mem' = [mem EXCEPT ![t] = Target[call[c].op]]
      BY <1>15, <2>2 DEF Sets
    <3>2. call'[c].op = call[c].op
      BY <1>15, <1>b, <3>1, OwnFields DEF Places
    <3>3. Opened(c, t)'
      <4>1. mem'[t] = Target[call[c].op]
        BY <1>b, <3>1
      <4> QED  BY <1>15, <3>2, <4>1 DEF Opened, Starters
    <3>4. SameBut(t) /\ call[c].at \notin Between
      BY <1>15, <1>b, <3>1 DEF SameBut, Between
    <3> QED  BY <1>15, <1>a, <3>1, <3>3, <3>4, AgreeOpens DEF Between
  <2>3. CASE ~Loaded(t)
    <3>1. Goto(c, "build") /\ mem' = mem
      BY <1>15, <2>3 DEF Sets
    <3>2. call'[c].at = "build"
      BY <1>b, <3>1, OwnFields DEF Places
    <3> QED  BY <1>15, <1>a, <3>1, <3>2, AgreeQuiet DEF Between
  <2> QED  BY <2>2, <2>3
<1>16. CASE ReadRecord(c)
  <2>1. PICK t \in Tasks : t = call[c].task
    BY <1>16, <1>c DEF ReadRecord, At, AtNone, Starters
  <2>2. CASE call[c].op = "start" \/ ~Loaded(t)
    <3>1. call'[c].at \in {"switch", "build"}
      BY <1>16, <1>b, <2>1, <2>2 DEF ReadRecord, Calls
    <3> QED  BY <1>16, <1>a, <2>1, <2>2, <3>1, AgreeQuiet DEF ReadRecord, At, Between
  <2>3. CASE ~(call[c].op = "start" \/ ~Loaded(t))
    BY <1>16, <1>15, <2>1, <2>3 DEF ReadRecord, At
  <2> QED  BY <2>2, <2>3
<1>17. CASE StartReadsSwitch(c)
  <2>1. PICK t \in Tasks : t = call[c].task
    BY <1>17, <1>c DEF StartReadsSwitch, At, AtNone
  <2>2. CASE kill
    <3>1. call'[c] = NoCall
      BY <1>17, <1>b, <2>2, OwnFields DEF StartReadsSwitch
    <3> QED  BY <1>17, <1>a, <2>2, <3>1, AgreeQuiet DEF StartReadsSwitch, At, NoCall, Between
  <2>3. CASE ~kill
    BY <1>17, <1>15, <2>1, <2>3 DEF StartReadsSwitch, At, Starters
  <2> QED  BY <2>2, <2>3
<1>18. CASE Builds(c)
  <2>1. PICK t \in Tasks : t = call[c].task
    BY <1>18, <1>c DEF Builds, At, AtNone, Starters
  <2>2. CASE Done(c) /\ mem' = mem
    <3>1. call'[c] = NoCall
      BY <1>b, <2>2, OwnFields
    <3> QED  BY <1>18, <1>a, <2>2, <3>1, AgreeQuiet DEF Builds, At, NoCall, Between
  <2>3. CASE /\ Opens(c, t, "write", TRUE, TRUE)
             /\ Register(t, Target[call[c].op], call[c].saw)
    <3>1. call'[c].op = call[c].op /\ call[c].op \in Starters
      BY <1>18, <1>b, <2>1, <2>3, OwnFields DEF Builds, At, Places
    <3>2. Opened(c, t)'
      <4>1. mem'[t] = Target[call[c].op]
        BY <1>b, <2>3 DEF Register
      <4> QED  BY <3>1, <4>1 DEF Opened, Starters
    <3>3. SameBut(t) /\ call[c].at \notin Between /\ split' = split
      BY <1>18, <1>b, <2>1, <2>3 DEF Builds, At, SameBut, Between, Register
    <3> QED  BY <1>a, <2>1, <2>3, <3>2, <3>3, AgreeOpens DEF Between
  <2> QED  BY <1>18, <2>1, <2>2, <2>3 DEF Builds
<1>19. CASE DeletePops(c)
  <2>1. PICK t \in Tasks : t = call[c].task
    BY <1>19, <1>c DEF DeletePops, At, AtNone
  <2>2. call'[c].op = call[c].op /\ call[c].op \in {"delete", "bulk"}
    BY <1>19, <1>b, <2>1, OwnFields DEF DeletePops, At, Places
  <2>3. Opened(c, t)'
    BY <1>19, <1>b, <2>1, <2>2 DEF Opened, DeletePops, Starters
  <2>4. SameBut(t) /\ call[c].at \notin Between /\ split' = split
    BY <1>19, <1>b, <2>1 DEF DeletePops, At, SameBut, Between
  <2> QED  BY <1>19, <1>a, <2>1, <2>3, <2>4, AgreeOpens DEF DeletePops, Between
<1>20. ASSUME NEW t \in Tasks, KillStops(c, t) PROVE AgreeInv'
  <2>1. \/ Opens(c, t, "write", FALSE, TRUE) /\ mem[t] \in {"running", "stopped", "none"}
        \/ Opens(c, t, "write", FALSE, FALSE)
    BY <1>20 DEF KillStops, Opens
  <2>2. call'[c].op = "killOn"
    BY <1>20, <1>b, <2>1, OwnFields DEF KillStops, At, Places
  <2>3. mem[t] \in {"running", "stopped", "none"} => Opened(c, t)'
    BY <1>20, <1>b, <2>2 DEF Opened, KillStops, Starters
  <2>4. SameBut(t) /\ call[c].at \notin Between /\ split' = split
    BY <1>20, <1>b DEF KillStops, At, SameBut, Between
  <2> QED  BY <1>20, <1>a, <2>1, <2>3, <2>4, AgreeOpens DEF Between
<1>21. CASE CycleFails(c)
  <2>1. PICK t \in Tasks : t = call[c].task
    BY <1>21, <1>c DEF CycleFails, At, AtNone
  <2>2. call'[c].op = "tick"
    BY <1>21, <1>b, <2>1, OwnFields DEF CycleFails, At, Places
  <2>3. Opened(c, t)'
    BY <1>21, <1>b, <2>1, <2>2 DEF Opened, CycleFails, Starters, Loaded
  <2>4. SameBut(t) /\ call[c].at \notin Between /\ split' = split
    BY <1>21, <1>b, <2>1 DEF CycleFails, At, SameBut, Between
  <2> QED  BY <1>21, <1>a, <2>1, <2>3, <2>4, AgreeOpens DEF CycleFails, Between
<1>22. CASE CreateRegisters(c)
  <2>1. PICK t \in Tasks : t = call[c].task
    BY <1>22, <1>c DEF CreateRegisters, At, AtNone
  <2>2. Halfway(c, t) /\ call'[c].at \notin Between
    BY <1>22, <1>b, <2>1 DEF CreateRegisters, At, Halfway, Disturb, NoCall, Between
  <2>3. \A d \in Callers \ {c} : Halfway(d, t) => call'[d] = [call[d] EXCEPT !.alone = FALSE]
    BY <1>22, <1>b, <2>1 DEF CreateRegisters, Disturb
  <2>4. \A d \in Callers \ {c} : Halfway(d, t) => ~call'[d].alone
    <3>1. \A d \in Callers : call[d] \in Calls
      BY <1>b
    <3> QED  BY <2>3, <3>1, NotAlone
  <2>5. Opened(c, t) => mem'[t] = row'[t]
    BY <1>22, <1>b, <2>1 DEF CreateRegisters, At, Opened, Register, Starters
  <2>6. SameBut(t)
    BY <1>22, <1>b, <2>1 DEF CreateRegisters, SameBut, Register
  <2>7. /\ split' \subseteq split \cup {t} /\ split \subseteq split'
        /\ t \notin split' => call[c].alone /\ Undisturbed(c, t)
    BY <1>22, <2>1 DEF CreateRegisters
  <2> QED  BY <1>a, <2>1, <2>2, <2>4, <2>5, <2>6, <2>7, AgreeCloses
<1>23. CASE WritesStatus(c)
  <2>1. PICK t \in Tasks : t = call[c].task
    BY <1>23, <1>c DEF WritesStatus, At, AtNone, Starters
  <2>2. Halfway(c, t) /\ mem' = mem /\ SameBut(t)
    BY <1>23, <1>b, <2>1 DEF WritesStatus, At, Halfway, SameBut
  <2>3. PICK rest \in Calls, agree \in BOOLEAN :
          /\ Closes(c, t, rest, agree) /\ rest.at \notin Between
          /\ agree => row' = [row EXCEPT ![t] = Target[call[c].op]]
    BY <1>23, <2>1, NoCallType DEF WritesStatus, NoCall, Between
  <2>4. Opened(c, t) => mem[t] \in {"none", Target[call[c].op]}
    BY <1>23, <2>1 DEF WritesStatus, At, Opened, Starters
  <2> QED  BY <1>a, <1>b, <1>r, <2>1, <2>2, <2>3, <2>4, AgreeCloses
<1>24. CASE DeleteRow(c)
  <2>1. PICK t \in Tasks : t = call[c].task
    BY <1>24, <1>c DEF DeleteRow, At, AtNone
  <2>2. Halfway(c, t) /\ mem' = mem /\ SameBut(t)
    BY <1>24, <1>b, <2>1 DEF DeleteRow, At, Halfway, SameBut
  <2>3. PICK rest \in Calls, agree \in BOOLEAN :
          /\ Closes(c, t, rest, agree) /\ rest.at \notin Between
          /\ agree => row' = [row EXCEPT ![t] = "deleted"]
    BY <1>24, <2>1, NoCallType DEF DeleteRow, NoCall, Between
  <2>4. Opened(c, t) => mem[t] \in {"none", "deleted"}
    BY <1>24, <2>1 DEF DeleteRow, At, Opened, Starters
  <2> QED  BY <1>a, <1>b, <1>r, <2>1, <2>2, <2>3, <2>4, AgreeCloses
<1>25. CASE KillStopsRow(c)
  <2>1. PICK t \in Tasks : t = call[c].task
    BY <1>25, <1>c DEF KillStopsRow, At, AtNone
  <2>2. Halfway(c, t) /\ mem' = mem /\ SameBut(t)
    BY <1>25, <1>b, <2>1 DEF KillStopsRow, At, Halfway, SameBut
  <2>3. PICK rest \in Calls, agree \in BOOLEAN :
          /\ Closes(c, t, rest, agree) /\ rest.at \notin Between
          /\ agree => row' = [row EXCEPT ![t] = "stopped"]
    <3> DEFINE left == call[c].todo \ {t}
               rest == IF left = {} THEN NoCall
                       ELSE [NoCall EXCEPT !.op = "killOn", !.at = "loop", !.todo = left,
                                           !.late = call[c].late]
    <3>1. rest \in Calls
      BY <1>b, CallTypes, NoCallType, RestType
    <3>2. rest.at \notin Between /\ NoCall.at \notin Between
      BY DEF NoCall, Between
    <3>3. \/ Closes(c, t, rest, TRUE) /\ row' = [row EXCEPT ![t] = "stopped"]
          \/ Closes(c, t, NoCall, FALSE)
      BY <1>25, <2>1 DEF KillStopsRow
    <3> QED  BY <3>1, <3>2, <3>3, NoCallType
  <2>4. Opened(c, t) => mem[t] \in {"none", "stopped"}
    BY <1>25, <2>1 DEF KillStopsRow, At, Opened, Starters
  <2> QED  BY <1>a, <1>b, <1>r, <2>1, <2>2, <2>3, <2>4, AgreeCloses
<1>26. CASE ErrorWritten(c)
  <2>1. PICK t \in Tasks : t = call[c].task
    BY <1>26, <1>c DEF ErrorWritten, At, AtNone
  <2>2. Halfway(c, t) /\ mem' = mem /\ SameBut(t)
    BY <1>26, <1>b, <2>1 DEF ErrorWritten, At, Halfway, SameBut
  <2>3. PICK rest \in Calls, agree \in BOOLEAN :
          /\ Closes(c, t, rest, agree) /\ rest.at \notin Between
          /\ agree => row' = [row EXCEPT ![t] = "error"]
    <3> DEFINE rest == Next1(c, call[c].todo \ {t})
    <3>1. rest \in Calls
      BY <1>b, CallTypes, RestType
    <3>2. rest.at \notin Between /\ NoCall.at \notin Between
      BY DEF Next1, NoCall, Between
    <3>3. \/ Closes(c, t, rest, TRUE) /\ row' = [row EXCEPT ![t] = "error"]
          \/ Closes(c, t, NoCall, FALSE)
      BY <1>26, <2>1 DEF ErrorWritten
    <3> QED  BY <3>1, <3>2, <3>3, NoCallType
  <2>4. Opened(c, t) => mem[t] \in {"none", "error"}
    BY <1>26, <2>1 DEF ErrorWritten, At, Opened, Starters
  <2> QED  BY <1>a, <1>b, <1>r, <2>1, <2>2, <2>3, <2>4, AgreeCloses
<1> QED  BY <1>1, <1>2, <1>3, <1>4, <1>5, <1>6, <1>7, <1>8, <1>9, <1>10, <1>11, <1>12, <1>13, <1>14, <1>16, <1>17, <1>18, <1>19, <1>20, <1>21, <1>22, <1>23, <1>24, <1>25, <1>26 DEF Step

-----------------------------------------------------------------------------
(* The kill switch.                                                        *)

\* KillInv for one task.
KillFor(t) ==
  /\ mem[t] = "running" /\ row[t] # "running" => t \in split \/ Starting(t)
  /\ kill /\ t \in RunningRows \cup Running =>
       t \in excused \cup split \/ Starting(t) \/ Stopping(t)

\* What call c has to do for task t under the kill switch.
StopsNext(c, t) == call[c].op = "killOn" /\ (call[c].at = "list" \/ t \in call[c].todo)

\* A step of c loses no other start, and no other kill switch that has yet to stop t.
LEMMA OthersGoOn ==
  ASSUME NEW c \in Callers, Keeps(c), NEW t \in Tasks
  PROVE  /\ Starting(t) /\ ~(call[c].op = "start" /\ Halfway(c, t)) => Starting(t)'
         /\ Stopping(t) /\ (StopsNext(c, t) => StopsNext(c, t)') => Stopping(t)'
<1>1. ASSUME Starting(t), ~(call[c].op = "start" /\ Halfway(c, t)) PROVE Starting(t)'
  <2>1. PICK d \in Callers : call[d].op = "start" /\ Halfway(d, t)
    BY <1>1 DEF Starting
  <2>2. Kept(d)
    BY <1>1, <2>1 DEF Keeps
  <2> QED  BY <2>1, <2>2 DEF Kept, Starting, Halfway
<1>2. ASSUME Stopping(t), StopsNext(c, t) => StopsNext(c, t)' PROVE Stopping(t)'
  <2>1. PICK d \in Callers : StopsNext(d, t)
    BY <1>2 DEF Stopping, StopsNext
  <2>2. StopsNext(d, t)'
    BY <1>2, <2>1 DEF Keeps, Kept, StopsNext
  <2> QED  BY <2>2 DEF Stopping, StopsNext
<1> QED  BY <1>1, <1>2

\* A step of a call that is not halfway through the task.
LEMMA KillOpens ==
  ASSUME TypeOK, NEW c \in Callers, NEW t \in Tasks, Keeps(c), ~Halfway(c, t), KillFor(t),
         mem'[t] = "running" => Starting(t)' \/ (mem[t] = "running" /\ row'[t] = row[t]),
         row'[t] = "running" => row[t] = "running",
         kill' = kill, excused \subseteq excused', t \in split => t \in split',
         StopsNext(c, t) => StopsNext(c, t)' \/ t \in excused'
  PROVE  KillFor(t)'
<1>2. Starting(t) => Starting(t)'
  BY OthersGoOn
<1>3. Stopping(t) => Stopping(t)' \/ t \in excused'
  BY OthersGoOn
<1>4. mem'[t] = "running" /\ row'[t] # "running" => t \in split' \/ Starting(t)'
  BY <1>2 DEF KillFor
<1>5. kill' /\ t \in (RunningRows \cup Running)' =>
        t \in (excused \cup split)' \/ Starting(t)' \/ Stopping(t)'
  <2>1. t \in (RunningRows \cup Running)' => t \in RunningRows \cup Running \/ Starting(t)'
    BY DEF RunningRows, Running
  <2> QED  BY <1>2, <1>3, <2>1 DEF KillFor
<1> QED  BY <1>4, <1>5 DEF KillFor

\* A step that ends the change of task t: row and memory agree then, or split says so.
LEMMA KillCloses ==
  ASSUME NEW c \in Callers, NEW t \in Tasks,
         t \notin split' => mem'[t] = "none" \/ mem'[t] = row'[t],
         t \notin split' /\ row'[t] = "running" /\ kill' => t \in excused'
  PROVE  KillFor(t)'
BY DEF KillFor, RunningRows, Running

\* Every task that runs under the kill switch is accounted for.
LEMMA KillStep ==
  ASSUME RuntimeAssumption, TypeOK, PlaceInv, PastInv, AgreeInv, KillInv, NEW c \in Callers, Step(c)
  PROVE  KillInv'
<1>a. Keeps(c) /\ Fed(c) /\ AgreeInv'
  BY CallStep, PlaceStep, AgreeStep
<1>b. call \in [Callers -> Calls] /\ row \in [Tasks -> Stored \cup Gone]
      /\ mem \in [Tasks -> Stored \cup {"none"}] /\ split \subseteq Tasks
  BY DEF TypeOK
<1>c. call[c].op # "none" /\ ~AtNone(c) => call[c].task \in Tasks
  BY DEF PlaceInv
<1>d. call[c].at \in PlacesOf(call[c].op)
      /\ (call[c].at \in {"switch", "list"} => call[c].todo = {})
  BY DEF PlaceInv
<1>e. SUFFICES ASSUME NEW t \in Tasks PROVE KillFor(t)'
  BY DEF KillInv, KillFor
<1>f. KillFor(t)
  BY DEF KillInv, KillFor
<1> USE DEF db, memory, counts, history
\* A step that changes nothing of the task, and leaves nothing undone.
<1>q. ASSUME ~Halfway(c, t), row'[t] = row[t], mem'[t] = mem[t], kill' = kill,
             excused \subseteq excused', t \in split => t \in split',
             StopsNext(c, t) => StopsNext(c, t)' \/ t \in excused'
      PROVE  KillFor(t)'
  BY <1>a, <1>f, <1>q, KillOpens
\* The second change.
<1>r. ASSUME Halfway(c, t), call'[c].at \notin Between, t \notin split' => Undisturbed(c, t),
             t \notin split' /\ row'[t] = "running" /\ kill' => t \in excused'
      PROVE  KillFor(t)'
  <2>1. t \notin split' => \A d \in Callers : ~Halfway(d, t)'
    BY <1>a, <1>r DEF Undisturbed, Keeps, Kept, Halfway, Between
  <2>2. t \notin split' => mem'[t] = "none" \/ mem'[t] = row'[t]
    BY <1>a, <2>1 DEF AgreeInv, RowAndMemoryAgree, Loaded
  <2> QED  BY <1>r, <2>2, KillCloses
<1>1. CASE BulkCheck(c)
  BY <1>1, <1>q DEF BulkCheck, At, Halfway, StopsNext
<1>2. CASE UpdateReads(c)
  BY <1>2, <1>q DEF UpdateReads, At, Halfway, StopsNext
<1>3. CASE UpdateStores(c)
  BY <1>3, <1>q DEF UpdateStores, At, Halfway, StopsNext
<1>4. CASE UpdateReadsBack(c)
  BY <1>4, <1>q DEF UpdateReadsBack, At, Halfway, StopsNext
<1>5. CASE UpdateRebuilds(c)
  BY <1>5, <1>q DEF UpdateRebuilds, At, Halfway, StopsNext
<1>6. CASE TickReadsSwitch(c)
  BY <1>6, <1>q DEF TickReadsSwitch, At, Halfway, StopsNext
<1>7. CASE TickSession(c)
  BY <1>7, <1>q DEF TickSession, At, Halfway, StopsNext
<1>8. CASE TickCycle(c)
  BY <1>8, <1>q DEF TickCycle, At, Halfway, StopsNext
<1>9. CASE ResumeTakes(c)
  BY <1>9, <1>q DEF ResumeTakes, At, Halfway, StopsNext
<1>10. CASE NoRecord(c)
  BY <1>10, <1>d, <1>q DEF NoRecord, PlacesOf, Halfway, StopsNext
<1>11. CASE CycleEnds(c)
  BY <1>11, <1>d, <1>q DEF CycleEnds, PlacesOf, Halfway, StopsNext
<1>12. CASE KillWrites(c)
  <2>1. ~Halfway(c, t) /\ ~StopsNext(c, t)
    BY <1>12, <1>d DEF KillWrites, At, Halfway, StopsNext
  <2>2. CASE kill' = kill /\ excused' = excused
    BY <1>12, <1>q, <2>1, <2>2 DEF KillWrites
  <2>3. CASE kill' = TRUE /\ Goto(c, "list") /\ call[c].op = "killOn"
    <3>1. StopsNext(c, t)'
      BY <1>b, <2>3, OwnFields DEF StopsNext, Places
    <3>2. Stopping(t)'
      BY <3>1 DEF Stopping, StopsNext
    <3>3. Starting(t) => Starting(t)'
      BY <1>a, <2>1, OthersGoOn
    <3> QED  BY <1>12, <1>f, <3>2, <3>3 DEF KillWrites, KillFor
  <2>4. CASE kill' = FALSE
    <3>1. Starting(t) => Starting(t)'
      BY <1>a, <2>1, OthersGoOn
    <3> QED  BY <1>12, <1>f, <2>4, <3>1 DEF KillWrites, KillFor
  <2> QED  BY <1>12, <2>2, <2>3, <2>4 DEF KillWrites
<1>13. CASE KillLists(c)
  <2>1. ~Halfway(c, t) /\ row' = row /\ mem' = mem /\ kill' = kill /\ split' = split
        /\ excused \subseteq excused'
    BY <1>13 DEF KillLists, At, Halfway
  <2>2. CASE t \in excused' \/ StopsNext(c, t)'
    BY <1>q, <2>1, <2>2
  <2>3. CASE t \notin excused' /\ ~StopsNext(c, t)'
    <3>1. t \notin RunningRows
      <4>1. CASE RunningRows = {} \/ excused' = excused \cup RunningRows \cup Running
        BY <1>13, <2>3, <4>1 DEF KillLists
      <4>2. CASE call' = [call EXCEPT ![c].at = "loop", ![c].todo = RunningRows]
        <5>1. call'[c].op = "killOn" /\ call'[c].todo = RunningRows
          BY <1>13, <1>b, <4>2 DEF KillLists, At, Calls
        <5> QED  BY <2>3, <5>1 DEF StopsNext
      <4> QED  BY <1>13, <4>1, <4>2 DEF KillLists
    <3>2. t \in Running => t \in split \/ Starting(t)
      BY <1>f, <3>1 DEF KillFor, RunningRows, Running
    <3>3. Starting(t) => Starting(t)'
      BY <1>a, <2>1, OthersGoOn
    <3> QED  BY <2>1, <3>1, <3>2, <3>3 DEF KillFor, RunningRows, Running
  <2> QED  BY <2>2, <2>3
<1>14. CASE CreateInserts(c)
  <2>1. PICK u \in Tasks : u = call[c].task
    BY <1>14, <1>c DEF CreateInserts, At, AtNone
  <2>2. ~StopsNext(c, t) /\ ~Halfway(c, t)
    BY <1>14 DEF CreateInserts, At, StopsNext, Halfway
  <2>3. CASE row' = row
    BY <1>14, <1>q, <2>2, <2>3 DEF CreateInserts
  <2>4. CASE row' = [row EXCEPT ![u] = "configured"]
    <3>1. row[u] = "none" /\ mem[u] = "none"
      BY <1>14, <2>1 DEF CreateInserts, At, Creates, PastInv
    <3> QED  BY <1>14, <1>a, <1>b, <1>f, <2>2, <2>4, <3>1, KillOpens DEF CreateInserts
  <2> QED  BY <1>14, <2>1, <2>3, <2>4 DEF CreateInserts
<1>15. ASSUME NEW u \in Tasks, Sets(c, u), call[c].op \in Starters,
             call[c].at \in {"record", "switch"}, row' = row, kill' = kill, split' = split, excused' = excused
      PROVE  KillFor(t)'
  <2>1. ~StopsNext(c, t) /\ ~Halfway(c, t)
    BY <1>15 DEF StopsNext, Starters, Halfway
  <2>2. CASE t # u \/ ~Loaded(u)
    BY <1>15, <1>b, <1>q, <2>1, <2>2 DEF Sets
  <2>3. CASE t = u /\ Loaded(u)
    <3>1. Opens(c, t, "write", FALSE, TRUE) /\ mem'[t] = Target[call[c].op]
      BY <1>15, <1>b, <2>3 DEF Sets
    <3>2. call'[c].op = call[c].op /\ call'[c].at = "write" /\ call'[c].task = t
      BY <1>b, <3>1, OwnFields, ZenonT(30) DEF Places
    <3>3. mem'[t] = "running" => call[c].op = "start"
      BY <1>15, <3>1, Targets DEF Starters
    <3>4. mem'[t] = "running" => Starting(t)'
      BY <3>2, <3>3 DEF Starting, Halfway
    <3> QED  BY <1>15, <1>a, <1>f, <2>1, <3>4, KillOpens
  <2> QED  BY <2>2, <2>3
<1>16. CASE ReadRecord(c)
  <2>1. PICK u \in Tasks : u = call[c].task
    BY <1>16, <1>c DEF ReadRecord, At, AtNone, Starters
  <2>2. ~StopsNext(c, t) /\ ~Halfway(c, t)
    BY <1>16 DEF ReadRecord, At, StopsNext, Halfway, Starters
  <2>3. CASE mem' = mem
    BY <1>16, <1>q, <2>2, <2>3 DEF ReadRecord
  <2>4. CASE Sets(c, u)
    BY <1>16, <1>15, <2>4 DEF ReadRecord, At
  <2> QED  BY <1>16, <2>1, <2>3, <2>4 DEF ReadRecord
<1>17. CASE StartReadsSwitch(c)
  <2>1. PICK u \in Tasks : u = call[c].task
    BY <1>17, <1>c DEF StartReadsSwitch, At, AtNone
  <2>2. ~StopsNext(c, t) /\ ~Halfway(c, t)
    BY <1>17 DEF StartReadsSwitch, At, StopsNext, Halfway
  <2>3. CASE mem' = mem
    BY <1>17, <1>q, <2>2, <2>3 DEF StartReadsSwitch
  <2>4. CASE Sets(c, u)
    BY <1>17, <1>15, <2>4 DEF StartReadsSwitch, At, Starters
  <2> QED  BY <1>17, <2>1, <2>3, <2>4 DEF StartReadsSwitch
<1>18. CASE Builds(c)
  <2>1. PICK u \in Tasks : u = call[c].task
    BY <1>18, <1>c DEF Builds, At, AtNone, Starters
  <2>2. ~StopsNext(c, t) /\ ~Halfway(c, t)
    BY <1>18 DEF Builds, At, StopsNext, Halfway, Starters
  <2>3. CASE mem' = mem \/ (t # u /\ mem' = [mem EXCEPT ![u] = Target[call[c].op]])
    BY <1>18, <1>b, <1>q, <2>2, <2>3 DEF Builds
  <2>4. CASE /\ t = u /\ mem' = [mem EXCEPT ![t] = Target[call[c].op]]
             /\ Opens(c, t, "write", TRUE, TRUE)
    <3>1. mem'[t] = Target[call[c].op]
      BY <1>b, <2>4
    <3>2. call'[c].op = call[c].op /\ call'[c].at = "write" /\ call'[c].task = t
      BY <1>b, <2>4, OwnFields DEF Places
    <3>3. mem'[t] = "running" => call[c].op = "start"
      BY <1>18, <3>1, Targets DEF Builds, At, Starters
    <3>4. mem'[t] = "running" => Starting(t)'
      BY <3>2, <3>3 DEF Starting, Halfway
    <3> QED  BY <1>18, <1>a, <1>f, <2>2, <3>4, KillOpens DEF Builds
  <2> QED  BY <1>18, <2>1, <2>3, <2>4 DEF Builds, Register
<1>19. CASE DeletePops(c)
  <2>1. PICK u \in Tasks : u = call[c].task
    BY <1>19, <1>c DEF DeletePops, At, AtNone
  <2>2. ~StopsNext(c, t) /\ ~Halfway(c, t)
    BY <1>19 DEF DeletePops, At, StopsNext, Halfway
  <2>3. mem'[t] = "running" => mem[t] = "running"
    BY <1>19, <1>b, <2>1 DEF DeletePops
  <2> QED  BY <1>19, <1>a, <1>f, <2>2, <2>3, KillOpens DEF DeletePops
<1>20. ASSUME NEW u \in Tasks, KillStops(c, u) PROVE KillFor(t)'
  <2>1. ~Halfway(c, t) /\ (mem'[t] = "running" => mem[t] = "running")
    BY <1>20, <1>b DEF KillStops, At, Halfway
  <2>2. Opens(c, u, "write", FALSE, TRUE) \/ Opens(c, u, "write", FALSE, FALSE)
    BY <1>20 DEF KillStops, Opens
  <2>3. StopsNext(c, t) => StopsNext(c, t)'
    BY <1>20, <1>b, <2>2, OwnFields DEF KillStops, At, StopsNext, Places
  <2> QED  BY <1>20, <1>a, <1>f, <2>1, <2>3, KillOpens DEF KillStops
<1>21. CASE CycleFails(c)
  <2>1. PICK u \in Tasks : u = call[c].task
    BY <1>21, <1>c DEF CycleFails, At, AtNone
  <2>2. ~StopsNext(c, t) /\ ~Halfway(c, t)
    BY <1>21 DEF CycleFails, At, StopsNext, Halfway
  <2>3. mem'[t] = "running" => mem[t] = "running"
    BY <1>21, <1>b, <2>1 DEF CycleFails
  <2> QED  BY <1>21, <1>a, <1>f, <2>2, <2>3, KillOpens DEF CycleFails
<1>22. CASE CreateRegisters(c)
  <2>1. PICK u \in Tasks : u = call[c].task
    BY <1>22, <1>c DEF CreateRegisters, At, AtNone
  <2>2. CASE t # u
    <3>1. ~Halfway(c, t) /\ row'[t] = row[t] /\ mem'[t] = mem[t] /\ kill' = kill
          /\ excused \subseteq excused' /\ (t \in split => t \in split')
      BY <1>22, <1>b, <2>1, <2>2 DEF CreateRegisters, Halfway, Register
    <3>2. ~StopsNext(c, t)
      BY <1>22 DEF CreateRegisters, At, StopsNext
    <3> QED  BY <1>q, <3>1, <3>2
  <2>3. CASE t = u
    <3>1. Halfway(c, t) /\ (t \notin split' => Undisturbed(c, t))
      BY <1>22, <2>1, <2>3 DEF CreateRegisters, At, Halfway, Register
    <3>2. call'[c].at \notin Between
      BY <1>22, <1>b DEF CreateRegisters, Disturb, NoCall, Between
    <3>3. t \notin split' /\ row'[t] = "running" /\ kill' => t \in excused'
      <4>1. mem'[t] = "configured"
        BY <1>22, <1>b, <2>1, <2>3 DEF CreateRegisters, Register
      <4>2. t \notin split' => \A d \in Callers : ~Halfway(d, t)'
        BY <1>a, <3>1, <3>2 DEF Undisturbed, Keeps, Kept, Halfway, Between
      <4>3. t \notin split' => row'[t] = "configured"
        BY <1>a, <4>1, <4>2 DEF AgreeInv, RowAndMemoryAgree, Loaded
      <4> QED  BY <4>3
    <3> QED  BY <1>r, <3>1, <3>2, <3>3
  <2> QED  BY <2>2, <2>3
<1>23. CASE WritesStatus(c)
  <2>1. PICK u \in Tasks : u = call[c].task
    BY <1>23, <1>c DEF WritesStatus, At, AtNone, Starters
  <2>2. CASE t # u
    <3>1. ~Halfway(c, t) /\ row'[t] = row[t] /\ mem'[t] = mem[t] /\ kill' = kill
          /\ excused \subseteq excused' /\ (t \in split => t \in split')
      BY <1>23, <1>b, <2>1, <2>2 DEF WritesStatus, Halfway, Closes
    <3>2. ~StopsNext(c, t)
      BY <1>23 DEF WritesStatus, At, StopsNext, Starters
    <3> QED  BY <1>q, <3>1, <3>2
  <2>3. CASE t = u
    <3>1. Halfway(c, t) /\ (t \notin split' => Undisturbed(c, t))
      BY <1>23, <2>1, <2>3 DEF WritesStatus, At, Halfway, Closes
    <3>2. call'[c].at \notin Between
      BY <1>23, <1>a DEF WritesStatus, At, Fed, GoesOn, After, NoCall, Between
    <3>3. t \notin split' /\ row'[t] = "running" /\ kill' => t \in excused'
      <4>1. t \notin split' => row'[t] = Target[call[c].op]
        BY <1>23, <1>b, <2>1, <2>3 DEF WritesStatus, Closes
      <4>2. Target[call[c].op] = "running" => call[c].op = "start"
        BY <1>23, Targets DEF WritesStatus, At, Starters
      <4> QED  BY <1>23, <2>1, <2>3, <4>1, <4>2 DEF WritesStatus
    <3> QED  BY <1>r, <3>1, <3>2, <3>3
  <2> QED  BY <2>2, <2>3
<1>24. CASE DeleteRow(c)
  <2>1. PICK u \in Tasks : u = call[c].task
    BY <1>24, <1>c DEF DeleteRow, At, AtNone
  <2>2. CASE t # u
    <3>1. ~Halfway(c, t) /\ row'[t] = row[t] /\ mem'[t] = mem[t] /\ kill' = kill
          /\ excused \subseteq excused' /\ (t \in split => t \in split')
      BY <1>24, <1>b, <2>1, <2>2 DEF DeleteRow, Halfway, Closes
    <3>2. ~StopsNext(c, t)
      BY <1>24 DEF DeleteRow, At, StopsNext
    <3> QED  BY <1>q, <3>1, <3>2
  <2>3. CASE t = u
    <3>1. Halfway(c, t) /\ (t \notin split' => Undisturbed(c, t))
      BY <1>24, <2>1, <2>3 DEF DeleteRow, At, Halfway, Closes
    <3>2. call'[c].at \notin Between
      BY <1>24, <1>a DEF DeleteRow, At, Fed, GoesOn, After, NoCall, Between
    <3>3. t \notin split' /\ row'[t] = "running" /\ kill' => t \in excused'
      BY <1>24, <1>b, <2>1, <2>3 DEF DeleteRow, Closes
    <3> QED  BY <1>r, <3>1, <3>2, <3>3
  <2> QED  BY <2>2, <2>3
<1>25. CASE KillStopsRow(c)
  <2>1. PICK u \in Tasks : u = call[c].task
    BY <1>25, <1>c DEF KillStopsRow, At, AtNone
  <2>2. CASE t # u
    <3>1. ~Halfway(c, t) /\ row'[t] = row[t] /\ mem'[t] = mem[t] /\ kill' = kill
          /\ excused \subseteq excused' /\ (t \in split => t \in split')
      BY <1>25, <1>b, <2>1, <2>2 DEF KillStopsRow, Halfway, Closes
    <3>2. StopsNext(c, t) => StopsNext(c, t)' \/ t \in excused'
      <4> SUFFICES ASSUME t \in call[c].todo PROVE StopsNext(c, t)' \/ t \in excused'
        BY <1>25 DEF KillStopsRow, At, StopsNext
      <4> DEFINE left == call[c].todo \ {u}
                 rest == [NoCall EXCEPT !.op = "killOn", !.at = "loop", !.todo = left,
                                        !.late = call[c].late]
      <4>1. t \in left /\ left \in SUBSET Tasks
        BY <1>b, <2>2, CallTypes
      <4>2. rest \in Calls
        BY <1>b, <4>1, RestType
      <4>3. Closes(c, u, rest, TRUE) \/ t \in excused'
        BY <1>25, <2>1, <4>1 DEF KillStopsRow
      <4>4. Closes(c, u, rest, TRUE) => call'[c] = rest
        BY <1>b, <4>2, OwnFields
      <4>5. rest.op = "killOn" /\ rest.todo = left
        BY DEF NoCall
      <4> QED  BY <4>1, <4>3, <4>4, <4>5 DEF StopsNext
    <3> QED  BY <1>q, <3>1, <3>2
  <2>3. CASE t = u
    <3>1. Halfway(c, t) /\ (t \notin split' => Undisturbed(c, t))
      BY <1>25, <2>1, <2>3 DEF KillStopsRow, At, Halfway, Closes
    <3>2. call'[c].at \notin Between
      BY <1>25, <1>a DEF KillStopsRow, At, Fed, GoesOn, After, NoCall, Between
    <3>3. t \notin split' /\ row'[t] = "running" /\ kill' => t \in excused'
      BY <1>25, <1>b, <2>1, <2>3 DEF KillStopsRow, Closes
    <3> QED  BY <1>r, <3>1, <3>2, <3>3
  <2> QED  BY <2>2, <2>3
<1>26. CASE ErrorWritten(c)
  <2>1. PICK u \in Tasks : u = call[c].task
    BY <1>26, <1>c DEF ErrorWritten, At, AtNone
  <2>2. CASE t # u
    <3>1. ~Halfway(c, t) /\ row'[t] = row[t] /\ mem'[t] = mem[t] /\ kill' = kill
          /\ excused \subseteq excused' /\ (t \in split => t \in split')
      BY <1>26, <1>b, <2>1, <2>2 DEF ErrorWritten, Halfway, Closes
    <3>2. ~StopsNext(c, t)
      BY <1>26 DEF ErrorWritten, At, StopsNext
    <3> QED  BY <1>q, <3>1, <3>2
  <2>3. CASE t = u
    <3>1. Halfway(c, t) /\ (t \notin split' => Undisturbed(c, t))
      BY <1>26, <2>1, <2>3 DEF ErrorWritten, At, Halfway, Closes
    <3>2. call'[c].at \notin Between
      BY <1>26, <1>a DEF ErrorWritten, At, Fed, GoesOn, After, NoCall, Between
    <3>3. t \notin split' /\ row'[t] = "running" /\ kill' => t \in excused'
      BY <1>26, <1>b, <2>1, <2>3 DEF ErrorWritten, Closes
    <3> QED  BY <1>r, <3>1, <3>2, <3>3
  <2> QED  BY <2>2, <2>3
<1> QED  BY <1>1, <1>2, <1>3, <1>4, <1>5, <1>6, <1>7, <1>8, <1>9, <1>10, <1>11, <1>12, <1>13, <1>14, <1>16, <1>17, <1>18, <1>19, <1>20, <1>21, <1>22, <1>23, <1>24, <1>25, <1>26 DEF Step

-----------------------------------------------------------------------------
(* What runs runs by its row.                                              *)

\* A task that does not run in memory.
LEMMA RunRests ==
  ASSUME NEW t \in Tasks, mem'[t] # "running"
  PROVE  RunFor(t)'
BY DEF RunFor

\* A step of a call that neither was halfway through t nor is then.
LEMMA RunQuiet ==
  ASSUME NEW c \in Callers, NEW t \in Tasks, Keeps(c), RunFor(t), ~Halfway(c, t), ~Halfway(c, t)',
         mem'[t] = mem[t], row'[t] = row[t]
  PROVE  RunFor(t)'
<1>1. Starting(t) => Starting(t)'
  BY OthersGoOn
<1>2. \A d \in Callers : Halfway(d, t)' => Halfway(d, t) /\ call'[d].op = call[d].op
  BY DEF Keeps, Kept, Halfway
<1> QED  BY <1>1, <1>2 DEF RunFor

\* A start that changes the instance while nobody else is halfway.
LEMMA RunBegins ==
  ASSUME NEW c \in Callers, NEW t \in Tasks, Keeps(c), Undisturbed(c, t),
         call'[c].op = "start", Halfway(c, t)'
  PROVE  RunFor(t)'
<1>1. Starting(t)'
  BY DEF Starting
<1>2. \A d \in Callers : Halfway(d, t)' => d = c
  BY DEF Undisturbed, Keeps, Kept, Halfway
<1> QED  BY <1>1, <1>2 DEF RunFor

\* Stops, pauses, deletions, failing cycles and the kill switch stop a task in memory
\* before they write its row.
LEMMA RunStep ==
  ASSUME RuntimeAssumption, TypeOK, PlaceInv, PastInv, RunInv, NEW c \in Callers, Step(c)
  PROVE  RunInv'
<1>a. Keeps(c) /\ Fed(c)
  BY CallStep, PlaceStep
<1>b. /\ call \in [Callers -> Calls] /\ row \in [Tasks -> Stored \cup Gone]
      /\ mem \in [Tasks -> Stored \cup {"none"}] /\ raced \subseteq Tasks
  BY DEF TypeOK
<1>c. call[c].op # "none" /\ ~AtNone(c) => call[c].task \in Tasks
  BY DEF PlaceInv
<1>d. call[c].at \in PlacesOf(call[c].op)
  BY DEF PlaceInv
<1>e. SUFFICES ASSUME NEW t \in Tasks \ raced' PROVE RunFor(t)'
  BY DEF RunInv
<1>f. t \notin raced => RunFor(t)
  BY DEF RunInv
<1> USE DEF db, memory, counts, history
\* A step between whose ends the call is never halfway through t.
<1>q. ASSUME t \notin raced, ~Halfway(c, t), call'[c].at \notin Between \/ call'[c].task # t,
             mem'[t] = mem[t], row'[t] = row[t]
      PROVE  RunFor(t)'
  <2>1. ~Halfway(c, t)'
    BY <1>q DEF Halfway, Between
  <2> QED  BY <1>a, <1>f, <1>q, <2>1, RunQuiet
<1>1. CASE BulkCheck(c)
  <2>1. UNCHANGED <<row, mem, raced>> /\ ~Halfway(c, t)
    BY <1>1, <1>d DEF BulkCheck, At, PlacesOf, Halfway
  <2>2. call'[c].at \notin Between
    BY <1>1, <1>a, <1>d DEF BulkCheck, At, PlacesOf, Fed, GoesOn, After, NoCall, Between
  <2> QED  BY <1>q, <2>1, <2>2
<1>2. CASE NoRecord(c)
  <2>1. UNCHANGED <<row, mem, raced>> /\ ~Halfway(c, t)
    BY <1>2, <1>d DEF NoRecord, At, PlacesOf, Halfway
  <2>2. call'[c].at \notin Between
    BY <1>2, <1>b, OwnFields DEF NoRecord, NoCall, Between
  <2> QED  BY <1>q, <2>1, <2>2
<1>3. CASE UpdateReads(c)
  <2>1. UNCHANGED <<row, mem, raced>> /\ ~Halfway(c, t)
    BY <1>3, <1>d DEF UpdateReads, At, PlacesOf, Halfway
  <2>2. call'[c].at \notin Between
    BY <1>3, <1>a, <1>d DEF UpdateReads, At, PlacesOf, Fed, GoesOn, After, NoCall, Between
  <2> QED  BY <1>q, <2>1, <2>2
<1>4. CASE UpdateStores(c)
  <2>1. UNCHANGED <<row, mem, raced>> /\ ~Halfway(c, t)
    BY <1>4, <1>d DEF UpdateStores, At, PlacesOf, Halfway
  <2>2. call'[c].at \notin Between
    BY <1>4, <1>a, <1>d DEF UpdateStores, At, PlacesOf, Fed, GoesOn, After, NoCall, Between
  <2> QED  BY <1>q, <2>1, <2>2
<1>5. CASE UpdateReadsBack(c)
  <2>1. UNCHANGED <<row, mem, raced>> /\ ~Halfway(c, t)
    BY <1>5, <1>d DEF UpdateReadsBack, At, PlacesOf, Halfway
  <2>2. call'[c].at \notin Between
    BY <1>5, <1>a, <1>d DEF UpdateReadsBack, At, PlacesOf, Fed, GoesOn, After, NoCall, Between
  <2> QED  BY <1>q, <2>1, <2>2
<1>6. CASE UpdateRebuilds(c)
  <2>1. UNCHANGED <<row, mem, raced>> /\ ~Halfway(c, t)
    BY <1>6, <1>d DEF UpdateRebuilds, At, PlacesOf, Halfway
  <2>2. call'[c].at \notin Between
    BY <1>6, <1>a, <1>d DEF UpdateRebuilds, At, PlacesOf, Fed, GoesOn, After, NoCall, Between
  <2> QED  BY <1>q, <2>1, <2>2
<1>7. CASE KillWrites(c)
  <2>1. UNCHANGED <<row, mem, raced>> /\ ~Halfway(c, t)
    BY <1>7, <1>d DEF KillWrites, At, PlacesOf, Halfway
  <2>2. call'[c].at \notin Between
    BY <1>7, <1>a, <1>d DEF KillWrites, At, PlacesOf, Fed, GoesOn, After, NoCall, Between
  <2> QED  BY <1>q, <2>1, <2>2
<1>8. CASE KillLists(c)
  <2>1. UNCHANGED <<row, mem, raced>> /\ ~Halfway(c, t)
    BY <1>8, <1>d DEF KillLists, At, PlacesOf, Halfway
  <2>2. call'[c].at \notin Between
    BY <1>8, <1>a, <1>d DEF KillLists, At, PlacesOf, Fed, GoesOn, After, NoCall, Between
  <2> QED  BY <1>q, <2>1, <2>2
<1>9. CASE TickReadsSwitch(c)
  <2>1. UNCHANGED <<row, mem, raced>> /\ ~Halfway(c, t)
    BY <1>9, <1>d DEF TickReadsSwitch, At, PlacesOf, Halfway
  <2>2. call'[c].at \notin Between
    BY <1>9, <1>a, <1>d DEF TickReadsSwitch, At, PlacesOf, Fed, GoesOn, After, NoCall, Between
  <2> QED  BY <1>q, <2>1, <2>2
<1>10. CASE TickSession(c)
  <2>1. UNCHANGED <<row, mem, raced>> /\ ~Halfway(c, t)
    BY <1>10, <1>d DEF TickSession, At, PlacesOf, Halfway
  <2>2. call'[c].at \notin Between
    BY <1>10, <1>a, <1>d DEF TickSession, At, PlacesOf, Fed, GoesOn, After, NoCall, Between
  <2> QED  BY <1>q, <2>1, <2>2
<1>11. CASE TickCycle(c)
  <2>1. UNCHANGED <<row, mem, raced>> /\ ~Halfway(c, t)
    BY <1>11, <1>d DEF TickCycle, At, PlacesOf, Halfway
  <2>2. call'[c].at \notin Between
    BY <1>11, <1>a, <1>d DEF TickCycle, At, PlacesOf, Fed, GoesOn, After, NoCall, Between
  <2> QED  BY <1>q, <2>1, <2>2
<1>12. CASE ResumeTakes(c)
  <2>1. UNCHANGED <<row, mem, raced>> /\ ~Halfway(c, t)
    BY <1>12, <1>d DEF ResumeTakes, At, PlacesOf, Halfway
  <2>2. call'[c].at \notin Between
    BY <1>12, <1>a, <1>d DEF ResumeTakes, At, PlacesOf, Fed, GoesOn, After, NoCall, Between
  <2> QED  BY <1>q, <2>1, <2>2
<1>13. CASE CycleEnds(c)
  <2>1. UNCHANGED <<row, mem, raced>> /\ ~Halfway(c, t)
    BY <1>13, <1>d DEF CycleEnds, Halfway
  <2>2. call'[c] = Next1(c, call[c].todo \ {call[c].task})
    BY <1>13, <1>b DEF CycleEnds
  <2>3. call'[c].at \notin Between
    BY <2>2 DEF Next1, NoCall, Between
  <2> QED  BY <1>q, <2>1, <2>3
<1>14. ASSUME NEW u \in Tasks, u = call[c].task, Sets(c, u), call[c].op \in Starters,
             call[c].at \in {"record", "switch"}, row' = row
      PROVE  RunFor(t)'
  <2>1. ~Halfway(c, t)
    BY <1>14 DEF Halfway
  <2>2. CASE ~Loaded(u)
    <3>1. Goto(c, "build") /\ UNCHANGED <<mem, raced>>
      BY <1>14, <2>2 DEF Sets
    <3>2. call'[c].at = "build"
      BY <1>b, <3>1, OwnFields DEF Places
    <3> QED  BY <1>14, <1>q, <2>1, <3>1, <3>2 DEF Between
  <2>3. CASE Loaded(u)
    <3>1. /\ mem' = [mem EXCEPT ![u] = Target[call[c].op]] /\ Races(c, u)
          /\ call'[c].op = call[c].op /\ call'[c].at = "write" /\ call'[c].task = u
      <4>1. Opens(c, u, "write", FALSE, TRUE) /\ mem' = [mem EXCEPT ![u] = Target[call[c].op]]
            /\ Races(c, u)
        BY <1>14, <2>3 DEF Sets
      <4> QED  BY <1>b, <4>1, OwnFields DEF Places
    <3>2. CASE t # u
      BY <1>14, <1>b, <1>q, <2>1, <3>1, <3>2 DEF Races
    <3>3. CASE t = u /\ call[c].op # "start"
      <4>1. mem'[t] # "running"
        BY <1>14, <1>b, <3>1, <3>3, Targets DEF Starters
      <4> QED  BY <4>1, RunRests
    <3>4. CASE t = u /\ call[c].op = "start"
      <4>1. Undisturbed(c, t)
        BY <3>1, <3>4 DEF Races
      <4> QED  BY <1>a, <3>1, <3>4, <4>1, RunBegins DEF Halfway
    <3> QED  BY <3>2, <3>3, <3>4
  <2> QED  BY <2>2, <2>3
<1>15. CASE ReadRecord(c)
  <2>1. PICK u \in Tasks : u = call[c].task
    BY <1>15, <1>c DEF ReadRecord, At, AtNone, Starters
  <2>2. CASE Sets(c, u)
    BY <1>15, <1>14, <2>1, <2>2 DEF ReadRecord, At
  <2>3. CASE ~Sets(c, u)
    <3>1. UNCHANGED <<row, mem, raced>> /\ ~Halfway(c, t)
      BY <1>15, <2>1, <2>3 DEF ReadRecord, At, Halfway
    <3>2. call' = [call EXCEPT ![c].saw = conf[u],
                               ![c].at = IF call[c].op = "start" THEN "switch" ELSE "build"]
      BY <1>15, <2>1, <2>3 DEF ReadRecord
    <3>3. call'[c].at \in {"switch", "build"}
      BY <1>b, <3>2 DEF Calls
    <3> QED  BY <1>q, <3>1, <3>3 DEF Between
  <2> QED  BY <2>2, <2>3
<1>16. CASE StartReadsSwitch(c)
  <2>1. PICK u \in Tasks : u = call[c].task
    BY <1>16, <1>c DEF StartReadsSwitch, At, AtNone
  <2>2. CASE Sets(c, u)
    BY <1>16, <1>14, <2>1, <2>2 DEF StartReadsSwitch, At, Starters
  <2>3. CASE ~Sets(c, u)
    <3>1. UNCHANGED <<row, mem, raced>> /\ ~Halfway(c, t) /\ Done(c)
      BY <1>16, <2>1, <2>3 DEF StartReadsSwitch, At, Halfway
    <3>2. call'[c].at = "idle"
      BY <1>b, <3>1, OwnFields DEF NoCall
    <3> QED  BY <1>q, <3>1, <3>2 DEF Between
  <2> QED  BY <2>2, <2>3
<1>17. CASE Builds(c)
  <2>1. PICK u \in Tasks : u = call[c].task
    BY <1>17, <1>c DEF Builds, At, AtNone, Starters
  <2>2. ~Halfway(c, t) /\ row' = row /\ call[c].op \in Starters
    BY <1>17 DEF Builds, At, Halfway
  <2>3. CASE Done(c) /\ UNCHANGED <<mem, raced>>
    <3>1. call'[c].at = "idle"
      BY <1>b, <2>3, OwnFields DEF NoCall
    <3> QED  BY <1>q, <2>2, <2>3, <3>1 DEF Between
  <2>4. CASE /\ mem' = [mem EXCEPT ![u] = Target[call[c].op]]
             /\ Opens(c, u, "write", TRUE, TRUE) /\ Races(c, u)
    <3>1. call'[c].op = call[c].op /\ call'[c].at = "write" /\ call'[c].task = u
      BY <1>b, <2>4, OwnFields DEF Places
    <3>2. CASE t # u
      BY <1>b, <1>q, <2>2, <2>4, <3>1, <3>2 DEF Races
    <3>3. CASE t = u /\ call[c].op # "start"
      <4>1. mem'[t] # "running"
        BY <1>b, <2>2, <2>4, <3>3, Targets DEF Starters
      <4> QED  BY <4>1, RunRests
    <3>4. CASE t = u /\ call[c].op = "start"
      <4>1. Undisturbed(c, t)
        BY <2>4, <3>4 DEF Races
      <4> QED  BY <1>a, <3>1, <3>4, <4>1, RunBegins DEF Halfway
    <3> QED  BY <3>2, <3>3, <3>4
  <2> QED  BY <1>17, <2>1, <2>3, <2>4 DEF Builds, Register
<1>18. CASE CreateInserts(c)
  <2>1. PICK u \in Tasks : u = call[c].task
    BY <1>18, <1>c DEF CreateInserts, At, AtNone
  <2>2. mem[u] = "none" /\ UNCHANGED <<mem, raced>> /\ ~Halfway(c, t)
    BY <1>18, <2>1 DEF CreateInserts, At, Creates, PastInv, Halfway
  <2>3. CASE t = u
    BY <2>2, <2>3, RunRests
  <2>4. CASE t # u
    <3>1. row'[t] = row[t] /\ call'[c].task # t
      <4>1. Done(c) => call'[c].task = None
        BY <1>b, OwnFields DEF NoCall
      <4>2. Opens(c, u, "register", FALSE, TRUE) => call'[c].task = u
        BY <1>b, OwnFields DEF Places
      <4> QED  BY <1>18, <1>b, <2>1, <2>4, <4>1, <4>2, RuntimeAssumption
               DEF CreateInserts, RuntimeAssumption
    <3> QED  BY <1>q, <2>2, <3>1
  <2> QED  BY <2>3, <2>4
<1>19. CASE CreateRegisters(c)
  <2>1. PICK u \in Tasks : u = call[c].task
    BY <1>19, <1>c DEF CreateRegisters, At, AtNone
  <2>2. mem' = [mem EXCEPT ![u] = "configured"] /\ UNCHANGED <<row, raced>> /\ call'[c] = NoCall
    BY <1>19, <1>b, <2>1 DEF CreateRegisters, Register, Disturb
  <2>3. CASE t = u
    BY <1>b, <2>2, <2>3, RunRests
  <2>4. CASE t # u
    BY <1>b, <1>q, <2>1, <2>2, <2>4 DEF Halfway, NoCall, Between
  <2> QED  BY <2>3, <2>4
<1>20. CASE DeletePops(c)
  <2>1. PICK u \in Tasks : u = call[c].task
    BY <1>20, <1>c DEF DeletePops, At, AtNone
  <2>2. mem' = [mem EXCEPT ![u] = "none"] /\ UNCHANGED <<row, raced>> /\ call'[c].task = u
    BY <1>20, <1>b, <2>1, OwnFields, ZenonT(30) DEF DeletePops, Places
  <2>3. CASE t = u
    BY <1>b, <2>2, <2>3, RunRests
  <2>4. CASE t # u
    BY <1>b, <1>q, <2>1, <2>2, <2>4 DEF Halfway
  <2> QED  BY <2>3, <2>4
<1>21. ASSUME NEW u \in Tasks, KillStops(c, u) PROVE RunFor(t)'
  <2>1. mem' = [mem EXCEPT ![u] = IF @ = "running" THEN "stopped" ELSE @] /\ UNCHANGED <<row, raced>>
    BY <1>21 DEF KillStops
  <2>2. Opens(c, u, "write", FALSE, TRUE) \/ Opens(c, u, "write", FALSE, FALSE)
    BY <1>21 DEF KillStops, Opens
  <2>3. call'[c].task = u /\ ~Halfway(c, t)
    BY <1>21, <1>b, <2>2, OwnFields DEF KillStops, At, Halfway, Places
  <2>4. CASE t = u
    BY <1>b, <2>1, <2>4, RunRests
  <2>5. CASE t # u
    BY <1>b, <1>q, <2>1, <2>3, <2>5
  <2> QED  BY <2>4, <2>5
<1>22. CASE CycleFails(c)
  <2>1. PICK u \in Tasks : u = call[c].task
    BY <1>22, <1>c DEF CycleFails, At, AtNone
  <2>2. /\ mem' = [mem EXCEPT ![u] = IF Loaded(u) THEN "error" ELSE @] /\ UNCHANGED <<row, raced>>
        /\ call'[c].task = u /\ ~Halfway(c, t)
    BY <1>22, <1>b, <2>1, OwnFields DEF CycleFails, At, Halfway, Places
  <2>3. CASE t = u
    BY <1>b, <2>2, <2>3, RunRests DEF Loaded
  <2>4. CASE t # u
    BY <1>b, <1>q, <2>2, <2>4
  <2> QED  BY <2>3, <2>4
<1>23. CASE DeleteRow(c)
  <2>1. PICK u \in Tasks : u = call[c].task
    BY <1>23, <1>c DEF DeleteRow, At, AtNone
  <2>2. Halfway(c, u) /\ call[c].op # "start" /\ UNCHANGED <<mem, raced>>
    BY <1>23, <2>1 DEF DeleteRow, At, Halfway
  <2>3. CASE t = u
    <3>1. mem'[t] # "running"
      BY <1>f, <2>2, <2>3 DEF RunFor
    <3> QED  BY <3>1, RunRests
  <2>4. CASE t # u
    <3>1. row'[t] = row[t]
      BY <1>23, <1>b, <2>1, <2>4 DEF DeleteRow
    <3>2. call'[c].at \notin Between
      BY <1>23, <1>a DEF DeleteRow, At, Fed, GoesOn, After, NoCall, Between
    <3> QED  BY <1>q, <2>1, <2>2, <2>4, <3>1, <3>2 DEF Halfway
  <2> QED  BY <2>3, <2>4
<1>24. CASE KillStopsRow(c)
  <2>1. PICK u \in Tasks : u = call[c].task
    BY <1>24, <1>c DEF KillStopsRow, At, AtNone
  <2>2. Halfway(c, u) /\ call[c].op # "start" /\ UNCHANGED <<mem, raced>>
    BY <1>24, <2>1 DEF KillStopsRow, At, Halfway
  <2>3. CASE t = u
    <3>1. mem'[t] # "running"
      BY <1>f, <2>2, <2>3 DEF RunFor
    <3> QED  BY <3>1, RunRests
  <2>4. CASE t # u
    <3>1. row'[t] = row[t]
      BY <1>24, <1>b, <2>1, <2>4 DEF KillStopsRow
    <3>2. call'[c].at \notin Between
      BY <1>24, <1>a DEF KillStopsRow, At, Fed, GoesOn, After, NoCall, Between
    <3> QED  BY <1>q, <2>1, <2>2, <2>4, <3>1, <3>2 DEF Halfway
  <2> QED  BY <2>3, <2>4
<1>25. CASE ErrorWritten(c)
  <2>1. PICK u \in Tasks : u = call[c].task
    BY <1>25, <1>c DEF ErrorWritten, At, AtNone
  <2>2. Halfway(c, u) /\ call[c].op # "start" /\ UNCHANGED <<mem, raced>>
    BY <1>25, <2>1 DEF ErrorWritten, At, Halfway
  <2>3. CASE t = u
    <3>1. mem'[t] # "running"
      BY <1>f, <2>2, <2>3 DEF RunFor
    <3> QED  BY <3>1, RunRests
  <2>4. CASE t # u
    <3>1. row'[t] = row[t]
      BY <1>25, <1>b, <2>1, <2>4 DEF ErrorWritten
    <3>2. call'[c].at \notin Between
      BY <1>25, <1>a DEF ErrorWritten, At, Fed, GoesOn, After, NoCall, Between
    <3> QED  BY <1>q, <2>1, <2>2, <2>4, <3>1, <3>2 DEF Halfway
  <2> QED  BY <2>3, <2>4
<1>26. CASE WritesStatus(c)
  <2>1. PICK u \in Tasks : u = call[c].task
    BY <1>26, <1>c DEF WritesStatus, At, AtNone, Starters
  <2>2. Halfway(c, u) /\ mem' = mem /\ call'[c].at \notin Between
    <3>1. Halfway(c, u) /\ mem' = mem
      BY <1>26, <2>1 DEF WritesStatus, At, Halfway
    <3>2. call'[c].at \notin Between
      BY <1>26, <1>a DEF WritesStatus, At, Fed, GoesOn, After, NoCall, Between, Starters
    <3> QED  BY <3>1, <3>2
  <2>3. CASE t # u
    <3>1. row'[t] = row[t] /\ t \notin raced
      BY <1>26, <1>b, <2>1, <2>3 DEF WritesStatus
    <3> QED  BY <1>q, <2>1, <2>2, <2>3, <3>1 DEF Halfway
  <2>4. CASE t = u /\ call[c].op # "start"
    <3>1. t \notin raced
      BY <1>26, <2>1, <2>4 DEF WritesStatus
    <3>2. mem'[t] # "running"
      BY <1>f, <2>2, <2>4, <3>1 DEF RunFor
    <3> QED  BY <3>2, RunRests
  <2>5. CASE t = u /\ call[c].op = "start"
    <3>1. /\ row'[t] = "running"
          /\ t \notin raced \/ Undisturbed(c, t)
      <4>1. row' = [row EXCEPT ![t] = Target["start"]] /\ (t \notin raced \/ Undisturbed(c, t))
        BY <1>26, <2>1, <2>5 DEF WritesStatus
      <4> QED  BY <1>b, <4>1, Targets
    <3>2. \A d \in Callers : Halfway(d, t)' /\ call'[d].op # "start" => mem'[t] # "running"
      <4> SUFFICES ASSUME NEW d \in Callers, Halfway(d, t)', call'[d].op # "start"
                   PROVE  mem'[t] # "running"
        OBVIOUS
      <4>1. d # c
        BY <2>2 DEF Halfway, Between
      <4>2. Halfway(d, t) /\ call[d].op # "start"
        BY <1>a, <4>1 DEF Keeps, Kept, Halfway
      <4> QED  BY <1>f, <2>2, <3>1, <4>1, <4>2 DEF RunFor, Undisturbed
    <3> QED  BY <3>1, <3>2 DEF RunFor
  <2> QED  BY <2>3, <2>4, <2>5
<1> QED  BY <1>1, <1>2, <1>3, <1>4, <1>5, <1>6, <1>7, <1>8, <1>9, <1>10, <1>11, <1>12, <1>13, <1>15, <1>16, <1>17, <1>18, <1>19, <1>20, <1>21, <1>22, <1>23, <1>24, <1>25, <1>26 DEF Step

-----------------------------------------------------------------------------
(* The settings a worker was built from.                                   *)

\* A call that is about to build a new worker is disturbed only by one that swaps
\* or drops the instance.
LEMMA RebuildKept ==
  ASSUME TypeOK, NEW c \in Callers, Step(c), NEW d \in Callers \ {c}, call[d].at = "rebuild"
  PROVE  \/ call'[d].alone = call[d].alone
         \/ call[d].task = call[c].task /\ (DeletePops(c) \/ Builds(c) \/ CreateRegisters(c))
<1>a. call \in [Callers -> Calls] /\ call[d] \in Calls
  BY DEF TypeOK
<1>b. \A t : ~Halfway(d, t)
  BY DEF Halfway
<1>o. ASSUME NEW t \in Tasks \cup {None}, NEW at, NEW swaps, NEW agree, Opens(c, t, at, swaps, agree),
             call[d].task # t \/ ~swaps
      PROVE  call'[d] = call[d]
  BY <1>a, <1>b, <1>o DEF Opens, Disturb
<1>z. ASSUME NEW t \in Tasks \cup {None}, NEW rest, NEW agree, Closes(c, t, rest, agree)
      PROVE  call'[d] = call[d]
  BY <1>a, <1>b, <1>z DEF Closes, Disturb
<1>t. call[c].task \in Tasks \cup {None}
  BY CallTypes DEF TypeOK
<1>1. CASE BulkCheck(c)
  BY <1>a, <1>t, <1>1 DEF BulkCheck, Done, Goto
<1>2. CASE NoRecord(c)
  BY <1>a, <1>t, <1>2 DEF NoRecord, Done, Goto
<1>3. CASE CreateInserts(c)
  BY <1>a, <1>t, <1>3, <1>o DEF CreateInserts, Done, Goto
<1>4. CASE CreateRegisters(c)
  BY <1>a, <1>b, <1>4 DEF CreateRegisters, Disturb
<1>5. CASE ReadRecord(c)
  BY <1>a, <1>t, <1>5, <1>o DEF ReadRecord, Done, Goto, Sets
<1>6. CASE StartReadsSwitch(c)
  BY <1>a, <1>t, <1>6, <1>o DEF StartReadsSwitch, Done, Goto, Sets
<1>7. CASE Builds(c)
  BY <1>a, <1>b, <1>7 DEF Builds, Opens, Disturb, Done
<1>8. CASE WritesStatus(c)
  BY <1>a, <1>t, <1>8, <1>z DEF WritesStatus, Done, Goto
<1>9. CASE DeletePops(c)
  BY <1>a, <1>b, <1>9 DEF DeletePops, Opens, Disturb
<1>10. CASE DeleteRow(c)
  BY <1>a, <1>t, <1>10, <1>z DEF DeleteRow, Done, Goto
<1>11. CASE UpdateReads(c)
  BY <1>a, <1>t, <1>11 DEF UpdateReads, Done, Goto
<1>12. CASE UpdateStores(c)
  BY <1>a, <1>t, <1>12 DEF UpdateStores, Done, Goto
<1>13. CASE UpdateReadsBack(c)
  BY <1>a, <1>t, <1>13 DEF UpdateReadsBack, Done, Goto
<1>14. CASE UpdateRebuilds(c)
  BY <1>a, <1>t, <1>14 DEF UpdateRebuilds, Done, Goto
<1>15. CASE KillWrites(c)
  <2>1. call'[d] = call[d] \/ call'[d] = [call[d] EXCEPT !.late = FALSE]
    BY <1>a, <1>15 DEF KillWrites, Done, Goto
  <2> QED  BY <1>a, <2>1 DEF Calls
<1>16. CASE KillLists(c)
  BY <1>a, <1>t, <1>16 DEF KillLists, Done, Goto
<1>17. CASE KillStopsRow(c)
  BY <1>a, <1>t, <1>17, <1>z DEF KillStopsRow, Done, Goto
<1>18. ASSUME NEW t \in Tasks, KillStops(c, t) PROVE call'[d] = call[d]
  <2>1. Opens(c, t, "write", FALSE, TRUE) \/ Opens(c, t, "write", FALSE, FALSE)
    BY <1>18 DEF KillStops, Opens
  <2> QED  BY <1>o, <2>1
<1>19. CASE TickReadsSwitch(c)
  BY <1>a, <1>t, <1>19 DEF TickReadsSwitch, Done, Goto
<1>20. CASE TickSession(c)
  BY <1>a, <1>t, <1>20 DEF TickSession, Done, Goto
<1>21. CASE TickCycle(c)
  BY <1>a, <1>t, <1>21 DEF TickCycle, Done, Goto
<1>22. CASE ResumeTakes(c)
  BY <1>a, <1>t, <1>22 DEF ResumeTakes, Done, Goto
<1>23. CASE CycleEnds(c)
  BY <1>a, <1>t, <1>23 DEF CycleEnds, Done, Goto
<1>24. CASE CycleFails(c)
  BY <1>a, <1>t, <1>24, <1>o DEF CycleFails, Done, Goto
<1>25. CASE ErrorWritten(c)
  BY <1>a, <1>t, <1>25, <1>z DEF ErrorWritten, Done, Goto
<1> QED  BY <1>1, <1>2, <1>3, <1>4, <1>5, <1>6, <1>7, <1>8, <1>9, <1>10, <1>11, <1>12, <1>13, <1>14, <1>15, <1>16, <1>17, <1>18, <1>19, <1>20, <1>21, <1>22, <1>23, <1>24, <1>25 DEF Step

\* A call that will build the worker anew goes on to do so while another one takes a
\* step, unless that swaps or drops the instance.
LEMMA FixerKept ==
  ASSUME TypeOK, NEW c \in Callers, Step(c), Keeps(c), NEW t \in Tasks, NEW d \in Callers \ {c},
         Fixer(d, t), conf'[t] = conf[t],
         call[c].task = t => ~(DeletePops(c) \/ Builds(c) \/ CreateRegisters(c))
  PROVE  Fixer(d, t)'
<1>1. Kept(d)
  BY DEF Keeps
<1>2. call[d].at = "rebuild" => call'[d].alone = call[d].alone
  BY RebuildKept DEF Fixer
<1> QED  BY <1>1, <1>2 DEF Kept, Fixer, At

\* A step that leaves the worker of t, its settings and whoever will build it anew.
LEMMA CurrentQuiet ==
  ASSUME TypeOK, NEW c \in Callers, Step(c), Keeps(c), NEW t \in Tasks, CurrentFor(t),
         Exists(t)' => Exists(t), Loaded(t)' => Loaded(t),
         built'[t] = built[t], conf'[t] = conf[t], Fixer(c, t) => Fixer(c, t)',
         call[c].task = t => ~(DeletePops(c) \/ Builds(c) \/ CreateRegisters(c))
  PROVE  CurrentFor(t)'
<1>1. \A d \in Callers : Fixer(d, t) => Fixer(d, t)'
  BY FixerKept
<1> QED  BY <1>1 DEF CurrentFor

\* The worker of a task has the settings of its row or will get them, or dated says
\* that it may not.
LEMMA CurrentStep ==
  ASSUME RuntimeAssumption, TypeOK, PlaceInv, PastInv, CurrentInv, NEW c \in Callers, Step(c)
  PROVE  CurrentInv'
<1>a. Keeps(c) /\ Fed(c)
  BY CallStep, PlaceStep
<1>b. /\ call \in [Callers -> Calls] /\ row \in [Tasks -> Stored \cup Gone]
      /\ mem \in [Tasks -> Stored \cup {"none"}] /\ dated \subseteq Tasks
      /\ conf \in [Tasks -> Nat] /\ built \in [Tasks -> Nat]
  BY DEF TypeOK
<1>c. call[c].op # "none" /\ ~AtNone(c) => call[c].task \in Tasks
  BY DEF PlaceInv
<1>d. call[c].at \in PlacesOf(call[c].op)
  BY DEF PlaceInv
<1>e. SUFFICES ASSUME NEW t \in Tasks \ dated' PROVE CurrentFor(t)'
  BY DEF CurrentInv
<1>f. t \notin dated => CurrentFor(t)
  BY DEF CurrentInv
<1> USE DEF db, memory, counts, history
\* A step that changes nothing the settings of t depend on.
<1>q. ASSUME t \notin dated, call[c].at \notin {"fresh", "rebuild"} \/ call[c].task # t,
             Exists(t)' => Exists(t), Loaded(t)' => Loaded(t),
             built'[t] = built[t], conf'[t] = conf[t],
             call[c].task = t => ~(DeletePops(c) \/ Builds(c) \/ CreateRegisters(c))
      PROVE  CurrentFor(t)'
  <2>1. ~Fixer(c, t)
    BY <1>q DEF Fixer, At
  <2> QED  BY <1>a, <1>f, <1>q, <2>1, CurrentQuiet
<1>1. CASE BulkCheck(c)
  <2>1. call[c].at \notin {"fresh", "rebuild"} /\ t \notin dated
    BY <1>1, <1>d DEF BulkCheck, At, PlacesOf
  <2>2. ~(DeletePops(c) \/ Builds(c) \/ CreateRegisters(c))
    BY <1>1, <1>d DEF BulkCheck, At, PlacesOf, DeletePops, Builds, CreateRegisters, Starters
  <2>3. UNCHANGED <<row, mem, built, conf>>
    BY <1>1 DEF BulkCheck
  <2> QED  BY <1>q, <2>1, <2>2, <2>3 DEF Exists, Loaded
<1>2. CASE NoRecord(c)
  <2>1. call[c].at \notin {"fresh", "rebuild"} /\ t \notin dated
    BY <1>2, <1>d DEF NoRecord, At, PlacesOf
  <2>2. ~(DeletePops(c) \/ Builds(c) \/ CreateRegisters(c))
    BY <1>2, <1>d DEF NoRecord, At, PlacesOf, DeletePops, Builds, CreateRegisters, Starters
  <2>3. UNCHANGED <<row, mem, built, conf>>
    BY <1>2 DEF NoRecord
  <2> QED  BY <1>q, <2>1, <2>2, <2>3 DEF Exists, Loaded
<1>3. CASE ReadRecord(c)
  <2>1. call[c].at \notin {"fresh", "rebuild"} /\ t \notin dated
    BY <1>3, <1>d DEF ReadRecord, At, PlacesOf
  <2>2. ~(DeletePops(c) \/ Builds(c) \/ CreateRegisters(c))
    BY <1>3, <1>d DEF ReadRecord, At, PlacesOf, DeletePops, Builds, CreateRegisters, Starters
  <2>3. UNCHANGED <<row, built, conf>> /\ (Loaded(t)' => Loaded(t))
    BY <1>3, <1>b DEF ReadRecord, Sets, Loaded
  <2> QED  BY <1>q, <2>1, <2>2, <2>3 DEF Exists
<1>4. CASE StartReadsSwitch(c)
  <2>1. call[c].at \notin {"fresh", "rebuild"} /\ t \notin dated
    BY <1>4, <1>d DEF StartReadsSwitch, At, PlacesOf
  <2>2. ~(DeletePops(c) \/ Builds(c) \/ CreateRegisters(c))
    BY <1>4, <1>d DEF StartReadsSwitch, At, PlacesOf, DeletePops, Builds, CreateRegisters, Starters
  <2>3. UNCHANGED <<row, built, conf>> /\ (Loaded(t)' => Loaded(t))
    BY <1>4, <1>b DEF StartReadsSwitch, Sets, Loaded
  <2> QED  BY <1>q, <2>1, <2>2, <2>3 DEF Exists
<1>5. CASE WritesStatus(c)
  <2>1. call[c].at \notin {"fresh", "rebuild"} /\ t \notin dated
    BY <1>5, <1>d DEF WritesStatus, At, PlacesOf
  <2>2. ~(DeletePops(c) \/ Builds(c) \/ CreateRegisters(c))
    BY <1>5, <1>d DEF WritesStatus, At, PlacesOf, DeletePops, Builds, CreateRegisters, Starters
  <2>3. UNCHANGED <<built, conf>> /\ (Exists(t)' => Exists(t)) /\ (Loaded(t)' => Loaded(t))
    BY <1>5, <1>b DEF WritesStatus, Exists, Loaded
  <2> QED  BY <1>q, <2>1, <2>2, <2>3
<1>6. CASE DeleteRow(c)
  <2>1. call[c].at \notin {"fresh", "rebuild"} /\ t \notin dated
    BY <1>6, <1>d DEF DeleteRow, At, PlacesOf
  <2>2. ~(DeletePops(c) \/ Builds(c) \/ CreateRegisters(c))
    BY <1>6, <1>d DEF DeleteRow, At, PlacesOf, DeletePops, Builds, CreateRegisters, Starters
  <2>3. UNCHANGED <<built, conf>> /\ (Exists(t)' => Exists(t)) /\ (Loaded(t)' => Loaded(t))
    BY <1>6, <1>b DEF DeleteRow, Exists, Loaded
  <2> QED  BY <1>q, <2>1, <2>2, <2>3
<1>7. CASE UpdateReads(c)
  <2>1. call[c].at \notin {"fresh", "rebuild"} /\ t \notin dated
    BY <1>7, <1>d DEF UpdateReads, At, PlacesOf
  <2>2. ~(DeletePops(c) \/ Builds(c) \/ CreateRegisters(c))
    BY <1>7, <1>d DEF UpdateReads, At, PlacesOf, DeletePops, Builds, CreateRegisters, Starters
  <2>3. UNCHANGED <<row, mem, built, conf>>
    BY <1>7 DEF UpdateReads
  <2> QED  BY <1>q, <2>1, <2>2, <2>3 DEF Exists, Loaded
<1>8. CASE KillWrites(c)
  <2>1. call[c].at \notin {"fresh", "rebuild"} /\ t \notin dated
    BY <1>8, <1>d DEF KillWrites, At, PlacesOf
  <2>2. ~(DeletePops(c) \/ Builds(c) \/ CreateRegisters(c))
    BY <1>8, <1>d DEF KillWrites, At, PlacesOf, DeletePops, Builds, CreateRegisters, Starters
  <2>3. UNCHANGED <<row, mem, built, conf>>
    BY <1>8 DEF KillWrites
  <2> QED  BY <1>q, <2>1, <2>2, <2>3 DEF Exists, Loaded
<1>9. CASE KillLists(c)
  <2>1. call[c].at \notin {"fresh", "rebuild"} /\ t \notin dated
    BY <1>9, <1>d DEF KillLists, At, PlacesOf
  <2>2. ~(DeletePops(c) \/ Builds(c) \/ CreateRegisters(c))
    BY <1>9, <1>d DEF KillLists, At, PlacesOf, DeletePops, Builds, CreateRegisters, Starters
  <2>3. UNCHANGED <<row, mem, built, conf>>
    BY <1>9 DEF KillLists
  <2> QED  BY <1>q, <2>1, <2>2, <2>3 DEF Exists, Loaded
<1>10. CASE KillStopsRow(c)
  <2>1. call[c].at \notin {"fresh", "rebuild"} /\ t \notin dated
    BY <1>10, <1>d DEF KillStopsRow, At, PlacesOf
  <2>2. ~(DeletePops(c) \/ Builds(c) \/ CreateRegisters(c))
    BY <1>10, <1>d DEF KillStopsRow, At, PlacesOf, DeletePops, Builds, CreateRegisters, Starters
  <2>3. UNCHANGED <<built, conf>> /\ (Exists(t)' => Exists(t)) /\ (Loaded(t)' => Loaded(t))
    BY <1>10, <1>b DEF KillStopsRow, Exists, Loaded
  <2> QED  BY <1>q, <2>1, <2>2, <2>3
<1>11. CASE TickReadsSwitch(c)
  <2>1. call[c].at \notin {"fresh", "rebuild"} /\ t \notin dated
    BY <1>11, <1>d DEF TickReadsSwitch, At, PlacesOf
  <2>2. ~(DeletePops(c) \/ Builds(c) \/ CreateRegisters(c))
    BY <1>11, <1>d DEF TickReadsSwitch, At, PlacesOf, DeletePops, Builds, CreateRegisters, Starters
  <2>3. UNCHANGED <<row, mem, built, conf>>
    BY <1>11 DEF TickReadsSwitch
  <2> QED  BY <1>q, <2>1, <2>2, <2>3 DEF Exists, Loaded
<1>12. CASE TickSession(c)
  <2>1. call[c].at \notin {"fresh", "rebuild"} /\ t \notin dated
    BY <1>12, <1>d DEF TickSession, At, PlacesOf
  <2>2. ~(DeletePops(c) \/ Builds(c) \/ CreateRegisters(c))
    BY <1>12, <1>d DEF TickSession, At, PlacesOf, DeletePops, Builds, CreateRegisters, Starters
  <2>3. UNCHANGED <<row, mem, built, conf>>
    BY <1>12 DEF TickSession
  <2> QED  BY <1>q, <2>1, <2>2, <2>3 DEF Exists, Loaded
<1>13. CASE TickCycle(c)
  <2>1. call[c].at \notin {"fresh", "rebuild"} /\ t \notin dated
    BY <1>13, <1>d DEF TickCycle, At, PlacesOf
  <2>2. ~(DeletePops(c) \/ Builds(c) \/ CreateRegisters(c))
    BY <1>13, <1>d DEF TickCycle, At, PlacesOf, DeletePops, Builds, CreateRegisters, Starters
  <2>3. UNCHANGED <<row, mem, built, conf>>
    BY <1>13 DEF TickCycle
  <2> QED  BY <1>q, <2>1, <2>2, <2>3 DEF Exists, Loaded
<1>14. CASE ResumeTakes(c)
  <2>1. call[c].at \notin {"fresh", "rebuild"} /\ t \notin dated
    BY <1>14, <1>d DEF ResumeTakes, At, PlacesOf
  <2>2. ~(DeletePops(c) \/ Builds(c) \/ CreateRegisters(c))
    BY <1>14, <1>d DEF ResumeTakes, At, PlacesOf, DeletePops, Builds, CreateRegisters, Starters
  <2>3. UNCHANGED <<row, mem, built, conf>>
    BY <1>14 DEF ResumeTakes
  <2> QED  BY <1>q, <2>1, <2>2, <2>3 DEF Exists, Loaded
<1>15. CASE CycleEnds(c)
  <2>1. call[c].at \notin {"fresh", "rebuild"} /\ t \notin dated
    BY <1>15, <1>d DEF CycleEnds, At, PlacesOf
  <2>2. ~(DeletePops(c) \/ Builds(c) \/ CreateRegisters(c))
    BY <1>15, <1>d DEF CycleEnds, At, PlacesOf, DeletePops, Builds, CreateRegisters, Starters
  <2>3. UNCHANGED <<row, mem, built, conf>>
    BY <1>15 DEF CycleEnds
  <2> QED  BY <1>q, <2>1, <2>2, <2>3 DEF Exists, Loaded
<1>16. CASE CycleFails(c)
  <2>1. call[c].at \notin {"fresh", "rebuild"} /\ t \notin dated
    BY <1>16, <1>d DEF CycleFails, At, PlacesOf
  <2>2. ~(DeletePops(c) \/ Builds(c) \/ CreateRegisters(c))
    BY <1>16, <1>d DEF CycleFails, At, PlacesOf, DeletePops, Builds, CreateRegisters, Starters
  <2>3. UNCHANGED <<built, conf>> /\ (Exists(t)' => Exists(t)) /\ (Loaded(t)' => Loaded(t))
    BY <1>16, <1>b DEF CycleFails, Exists, Loaded
  <2> QED  BY <1>q, <2>1, <2>2, <2>3
<1>17. CASE ErrorWritten(c)
  <2>1. call[c].at \notin {"fresh", "rebuild"} /\ t \notin dated
    BY <1>17, <1>d DEF ErrorWritten, At, PlacesOf
  <2>2. ~(DeletePops(c) \/ Builds(c) \/ CreateRegisters(c))
    BY <1>17, <1>d DEF ErrorWritten, At, PlacesOf, DeletePops, Builds, CreateRegisters, Starters
  <2>3. UNCHANGED <<built, conf>> /\ (Exists(t)' => Exists(t)) /\ (Loaded(t)' => Loaded(t))
    BY <1>17, <1>b DEF ErrorWritten, Exists, Loaded
  <2> QED  BY <1>q, <2>1, <2>2, <2>3
<1>18. ASSUME NEW u \in Tasks, KillStops(c, u) PROVE CurrentFor(t)'
  <2>1. call[c].at \notin {"fresh", "rebuild"} /\ t \notin dated
    BY <1>18 DEF KillStops, At
  <2>2. ~(DeletePops(c) \/ Builds(c) \/ CreateRegisters(c))
    BY <1>18 DEF KillStops, At, DeletePops, Builds, CreateRegisters
  <2>3. UNCHANGED <<row, built, conf>> /\ (Loaded(t)' => Loaded(t))
    BY <1>18, <1>b DEF KillStops, Loaded
  <2> QED  BY <1>q, <2>1, <2>2, <2>3 DEF Exists
<1>19. CASE CreateInserts(c)
  <2>1. PICK u \in Tasks : u = call[c].task
    BY <1>19, <1>c DEF CreateInserts, At, AtNone
  <2>2. mem[u] = "none" /\ UNCHANGED <<mem, built, conf, dated>>
    BY <1>19, <2>1 DEF CreateInserts, At, Creates, PastInv
  <2>3. CASE t = u
    BY <2>2, <2>3 DEF CurrentFor, Loaded
  <2>4. CASE t # u
    <3>1. row'[t] = row[t]
      BY <1>19, <1>b, <2>1, <2>4 DEF CreateInserts
    <3> QED  BY <1>q, <2>1, <2>2, <2>4, <3>1 DEF Exists, Loaded
  <2> QED  BY <2>3, <2>4
<1>20. CASE CreateRegisters(c)
  <2>1. PICK u \in Tasks : u = call[c].task
    BY <1>20, <1>c DEF CreateRegisters, At, AtNone
  <2>2. /\ UNCHANGED <<row, conf>> /\ mem' = [mem EXCEPT ![u] = "configured"]
        /\ built' = [built EXCEPT ![u] = 0] /\ Dates(u, 0)
    BY <1>20, <2>1 DEF CreateRegisters, Register
  <2>3. CASE t = u
    <3>1. conf[t] = 0
      BY <2>2, <2>3 DEF Dates
    <3> QED  BY <1>b, <2>2, <2>3, <3>1 DEF CurrentFor
  <2>4. CASE t # u
    <3>1. t \notin dated
      BY <2>2, <2>4 DEF Dates
    <3> QED  BY <1>b, <1>q, <2>1, <2>2, <2>4, <3>1 DEF Exists, Loaded
  <2> QED  BY <2>3, <2>4
<1>21. CASE Builds(c)
  <2>1. PICK u \in Tasks : u = call[c].task
    BY <1>21, <1>c DEF Builds, At, AtNone, Starters
  <2>2. CASE UNCHANGED <<mem, built, dated>> /\ Done(c) /\ Fault
    <3>1. \A d \in Callers \ {c} : call'[d] = call[d]
      BY <1>b, <2>2, GotoType DEF Places
    <3>2. ~Fixer(c, t) /\ UNCHANGED <<row, conf>>
      BY <1>21 DEF Builds, Fixer, At
    <3>3. \A d \in Callers : Fixer(d, t) => Fixer(d, t)'
      BY <3>1, <3>2 DEF Fixer, At
    <3> QED  BY <1>f, <2>2, <3>2, <3>3 DEF CurrentFor, Exists, Loaded
  <2>3. CASE /\ mem' = [mem EXCEPT ![u] = Target[call[c].op]]
             /\ built' = [built EXCEPT ![u] = call[c].saw] /\ Dates(u, call[c].saw)
    <3>1. UNCHANGED <<row, conf>>
      BY <1>21 DEF Builds
    <3>2. CASE t = u
      <4>1. conf[t] = call[c].saw
        BY <2>3, <3>2 DEF Dates
      <4> QED  BY <1>b, <2>3, <3>1, <3>2, <4>1 DEF CurrentFor
    <3>3. CASE t # u
      <4>1. t \notin dated
        BY <2>3, <3>3 DEF Dates
      <4> QED  BY <1>b, <1>q, <2>1, <2>3, <3>1, <3>3, <4>1 DEF Exists, Loaded
    <3> QED  BY <3>2, <3>3
  <2> QED  BY <1>21, <2>1, <2>2, <2>3 DEF Builds, Register
<1>22. CASE DeletePops(c)
  <2>1. PICK u \in Tasks : u = call[c].task
    BY <1>22, <1>c DEF DeletePops, At, AtNone
  <2>2. UNCHANGED <<row, built, conf, dated>> /\ mem' = [mem EXCEPT ![u] = "none"]
    BY <1>22, <2>1 DEF DeletePops
  <2>3. CASE t = u
    BY <1>b, <2>2, <2>3 DEF CurrentFor, Loaded
  <2>4. CASE t # u
    BY <1>b, <1>q, <2>1, <2>2, <2>4 DEF Exists, Loaded
  <2> QED  BY <2>3, <2>4
<1>23. CASE UpdateStores(c)
  <2>1. PICK u \in Tasks : u = call[c].task
    BY <1>23, <1>c DEF UpdateStores, At, AtNone
  <2>2. /\ UNCHANGED <<row, mem, built, dated>> /\ call[c].at = "store"
        /\ call[c].op \in {"settings", "mode"}
        /\ \/ Goto(c, "fresh") /\ conf' = [conf EXCEPT ![u] = @ + 1]
           \/ Done(c) /\ conf' = conf
    BY <1>23, <2>1 DEF UpdateStores, At
  <2>3. ~(DeletePops(c) \/ Builds(c) \/ CreateRegisters(c))
    BY <2>2 DEF At, DeletePops, Builds, CreateRegisters
  <2>4. CASE t # u \/ conf' = conf
    BY <1>b, <1>q, <2>1, <2>2, <2>3, <2>4 DEF Exists, Loaded
  <2>5. CASE t = u /\ Goto(c, "fresh")
    <3>1. call'[c].op = call[c].op /\ call'[c].at = "fresh" /\ call'[c].task = t
      BY <1>b, <2>1, <2>5, OwnFields DEF Places
    <3>2. Fixer(c, t)'
      BY <2>2, <3>1 DEF Fixer, At
    <3> QED  BY <3>2 DEF CurrentFor
  <2> QED  BY <2>2, <2>4, <2>5
<1>24. CASE UpdateReadsBack(c)
  <2>1. PICK u \in Tasks : u = call[c].task
    BY <1>24, <1>c DEF UpdateReadsBack, At, AtNone
  <2>2. UNCHANGED <<row, mem, built, conf>> /\ t \notin dated /\ call[c].at = "fresh"
    BY <1>24, <2>1 DEF UpdateReadsBack, At
  <2>3. ~(DeletePops(c) \/ Builds(c) \/ CreateRegisters(c))
    BY <2>2 DEF At, DeletePops, Builds, CreateRegisters
  <2>4. CASE t # u
    BY <1>q, <2>1, <2>2, <2>3, <2>4 DEF Exists, Loaded
  <2>5. CASE t = u /\ ~(Exists(t) /\ Loaded(t))
    BY <2>2, <2>5 DEF CurrentFor, Exists, Loaded
  <2>6. CASE t = u /\ Exists(t) /\ Loaded(t)
    <3>1. call[c].op = "settings"
      BY <1>24, <2>1, <2>6 DEF UpdateReadsBack, At
    <3>2. call' = [call EXCEPT ![c].at = "rebuild", ![c].saw = conf[t], ![c].alone = TRUE]
      BY <1>24, <2>1, <2>6, <3>1 DEF UpdateReadsBack, Rebuilt
    <3>3. /\ call'[c].op = "settings" /\ call'[c].at = "rebuild" /\ call'[c].task = t
          /\ call'[c].alone /\ call'[c].saw = conf'[t]
      BY <1>b, <2>1, <2>2, <2>6, <3>1, <3>2 DEF Calls
    <3>4. Fixer(c, t)'
      BY <3>3 DEF Fixer, At
    <3> QED  BY <3>4 DEF CurrentFor
  <2> QED  BY <2>4, <2>5, <2>6
<1>25. CASE UpdateRebuilds(c)
  <2>1. PICK u \in Tasks : u = call[c].task
    BY <1>25, <1>c DEF UpdateRebuilds, At, AtNone
  <2>2. UNCHANGED <<row, mem, conf>> /\ call[c].at = "rebuild"
    BY <1>25, <2>1 DEF UpdateRebuilds, At
  <2>3. ~(DeletePops(c) \/ Builds(c) \/ CreateRegisters(c))
    BY <2>2 DEF At, DeletePops, Builds, CreateRegisters
  <2>4. CASE t # u
    <3>1. built'[t] = built[t] /\ t \notin dated
      BY <1>25, <1>b, <2>1, <2>4 DEF UpdateRebuilds, Dates
    <3> QED  BY <1>q, <2>1, <2>2, <2>3, <2>4, <3>1 DEF Exists, Loaded
  <2>5. CASE t = u /\ call[c].alone
    <3>1. built' = [built EXCEPT ![t] = call[c].saw] /\ Dates(t, call[c].saw)
      BY <1>25, <2>1, <2>5 DEF UpdateRebuilds
    <3>2. call[c].saw = conf[t]
      BY <3>1 DEF Dates
    <3> QED  BY <1>b, <2>2, <3>1, <3>2 DEF CurrentFor
  <2>6. CASE t = u /\ ~call[c].alone
    <3>1. built' = built /\ t \notin dated
      BY <1>25, <2>1, <2>6 DEF UpdateRebuilds
    <3>2. ~Fixer(c, t)
      BY <2>2, <2>6 DEF Fixer, At
    <3> QED  BY <1>a, <1>f, <2>2, <2>3, <3>1, <3>2, CurrentQuiet DEF Exists, Loaded
  <2> QED  BY <2>4, <2>5, <2>6
<1> QED  BY <1>1, <1>2, <1>3, <1>4, <1>5, <1>6, <1>7, <1>8, <1>9, <1>10, <1>11, <1>12, <1>13, <1>14, <1>15, <1>16, <1>17, <1>18, <1>19, <1>20, <1>21, <1>22, <1>23, <1>24, <1>25 DEF Step

-----------------------------------------------------------------------------
(* The inductive invariant.                                                *)

\* The process comes up.
LEMMA InitHolds ==
  ASSUME RuntimeAssumption, Init
  PROVE  IInv
<1>1. TypeOK
  BY NoCallType DEF Init, TypeOK, Stored, Gone
<1>2. \A c \in Callers : call[c] = NoCall
  BY DEF Init
<1>3. PlaceInv /\ PastInv /\ LockInv /\ LateInv /\ NothingBeginsUnderKill
  BY <1>2, RuntimeAssumption
     DEF Init, NoCall, PlaceInv, PlacesOf, AtNone, PastInv, Creates, LockInv, LateInv,
         NothingBeginsUnderKill, RuntimeAssumption
<1>4. AgreeInv
  BY <1>2 DEF Init, NoCall, AgreeInv, RowAndMemoryAgree, Halfway
<1>5. KillInv
  BY <1>2 DEF Init, KillInv
<1>6. RunInv /\ CurrentInv
  BY <1>2 DEF Init, NoCall, RunInv, RunFor, Halfway, CurrentInv, CurrentFor
<1> QED  BY <1>1, <1>3, <1>4, <1>5, <1>6 DEF IInv

\* A call begins.
LEMMA BeginStep ==
  ASSUME RuntimeAssumption, IInv, NEW c \in Callers, NEW op \in Ops,
         NEW u \in Tasks \cup {None}, Begin(c, op, u)
  PROVE  IInv'
<1> USE DEF db, memory, history
<1>a. TypeOK /\ PlaceInv /\ call[c].op = "none" /\ call[c].at = "idle"
  BY DEF IInv, Begin, PlaceInv, PlacesOf
<1>b. First(op) \in PlacesOf(op) /\ First(op) \in {"build", "switch", "lock", "check", "record"}
  BY DEF First, PlacesOf, Begin, Ops
<1>c. PICK at \in {"build", "switch", "lock", "check", "record"} : at = First(op)
  BY <1>b
<1>d. /\ call'[c].op = op /\ call'[c].at = at /\ call'[c].task = u /\ call'[c].todo = {}
      /\ call'[c].saw = 0 /\ call'[c].alone = TRUE /\ call'[c].late = kill
      /\ \A d \in Callers \ {c} : call'[d] = call[d]
      /\ call' \in [Callers -> Calls]
  <2>1. PICK late \in BOOLEAN : late = kill
    BY <1>a DEF TypeOK
  <2>2. [NoCall EXCEPT !.op = op, !.at = at, !.task = u] \in Calls
    BY <1>c, NoCallType DEF Calls, Places
  <2>3. [NoCall EXCEPT !.op = op, !.at = at, !.task = u, !.late = late]
          = [[NoCall EXCEPT !.op = op, !.at = at, !.task = u] EXCEPT !.late = late]
    OBVIOUS
  <2>4. call'[c] = [[NoCall EXCEPT !.op = op, !.at = at, !.task = u] EXCEPT !.late = late]
        /\ call' = [call EXCEPT ![c] = call'[c]]
    BY <1>a, <1>c, <2>1, <2>3 DEF Begin, TypeOK
  <2>5. call'[c] \in Calls
    BY <2>2, <2>4 DEF Calls
  <2>6. /\ call'[c].op = op /\ call'[c].at = at /\ call'[c].task = u /\ call'[c].todo = {}
        /\ call'[c].saw = 0 /\ call'[c].alone = TRUE /\ call'[c].late = late
    BY <2>4, NoCallType DEF NoCall, Calls
  <2> QED  BY <1>a, <2>1, <2>4, <2>5, <2>6 DEF TypeOK
<1>e. /\ UNCHANGED <<row, conf, kill, mem, built, lock, split, raced, excused, dated, faults>>
      /\ calls' = calls + 1
  BY DEF Begin
<1>f. /\ op # "none" /\ (u = None <=> op \in {"tick", "killOn", "killOff"})
      /\ op = "create" => row[u] = "none" /\ \A d \in Callers : call[d].task # u
      /\ u # None /\ op # "create" => row[u] # "none"
  BY DEF Begin
<1>g. /\ op \notin {"tick", "killOn", "killOff", "start"} => at # "switch"
      /\ op = "create" <=> at = "build"
      /\ op \in {"tick", "killOn", "killOff"} => at = "switch"
      /\ op = "start" => at = "record"
  BY <1>c, <1>f DEF First, Ops
<1>n. None \notin Tasks
  BY RuntimeAssumption DEF RuntimeAssumption
<1>1. TypeOK'
  BY <1>a, <1>d, <1>e DEF TypeOK
<1>2. PlaceInv'
  BY <1>a, <1>b, <1>c, <1>d, <1>f, <1>g DEF PlaceInv, AtNone
<1>3. PastInv'
  <2>1. PastInv
    BY DEF IInv
  <2> QED  BY <1>d, <1>e, <1>f, <1>g, <1>n, <2>1 DEF PastInv, Creates
<1>4. LockInv'
  BY <1>d, <1>e DEF IInv, LockInv
<1>5. \A t \in Tasks, d \in Callers : Halfway(d, t)' <=> Halfway(d, t)
  BY <1>a, <1>d DEF Halfway
<1>6. AgreeInv'
  <2>1. AgreeInv
    BY DEF IInv
  <2>2. RowAndMemoryAgree'
    BY <1>e, <1>5, <2>1 DEF AgreeInv, RowAndMemoryAgree, Loaded
  <2>3. ASSUME NEW t \in Tasks, NEW d \in Callers, Halfway(d, t)', call'[d].alone
        PROVE  Opened(d, t)' /\ Undisturbed(d, t)'
    <3>1. Halfway(d, t) /\ call'[d] = call[d]
      BY <1>5, <1>a, <1>d, <2>3 DEF Halfway
    <3>2. Opened(d, t) /\ Undisturbed(d, t)
      BY <2>1, <2>3, <3>1 DEF AgreeInv
    <3> QED  BY <1>5, <1>e, <3>1, <3>2 DEF Opened, Undisturbed
  <2> QED  BY <2>2, <2>3 DEF AgreeInv
<1>7. KillInv'
  <2>1. KillInv
    BY DEF IInv
  <2>2. \A t \in Tasks : Starting(t) => Starting(t)'
    BY <1>a, <1>5, <1>d DEF Starting
  <2>3. \A t \in Tasks : Stopping(t) => Stopping(t)'
    BY <1>a, <1>d DEF Stopping
  <2> QED  BY <1>e, <2>1, <2>2, <2>3 DEF KillInv, RunningRows, Running
<1>8. LateInv' /\ NothingBeginsUnderKill'
  BY <1>d, <1>e, <1>f, <1>g DEF IInv, LateInv, NothingBeginsUnderKill
<1>9. RunInv'
  <2> SUFFICES ASSUME NEW t \in Tasks \ raced PROVE RunFor(t)'
    BY <1>e DEF RunInv
  <2>1. RunFor(t)
    BY DEF IInv, RunInv
  <2>2. \A d \in Callers : Halfway(d, t)' => call'[d] = call[d]
    BY <1>5, <1>a, <1>d DEF Halfway
  <2>3. Starting(t) => Starting(t)'
    BY <1>a, <1>5, <1>d DEF Starting
  <2> QED  BY <1>5, <1>e, <2>1, <2>2, <2>3 DEF RunFor
<1>10. CurrentInv'
  <2> SUFFICES ASSUME NEW t \in Tasks \ dated PROVE CurrentFor(t)'
    BY <1>e DEF CurrentInv
  <2>1. CurrentFor(t)
    BY DEF IInv, CurrentInv
  <2>2. \A d \in Callers : Fixer(d, t) => Fixer(d, t)'
    BY <1>a, <1>d, <1>e DEF Fixer, At
  <2> QED  BY <1>e, <2>1, <2>2 DEF CurrentFor, Exists, Loaded
<1> QED  BY <1>1, <1>2, <1>3, <1>4, <1>6, <1>7, <1>8, <1>9, <1>10 DEF IInv

\* The process dies and comes back.
LEMMA RestartStep ==
  ASSUME RuntimeAssumption, IInv, NEW broken \in SUBSET {t \in Tasks : Exists(t)}, Restart(broken)
  PROVE  IInv'
<1>a. TypeOK /\ PastInv
  BY DEF IInv
<1>b. \A c \in Callers : call'[c] = NoCall
  BY DEF Restart
<1>c. \A t \in Tasks : /\ row'[t] = IF t \in broken THEN "error" ELSE row[t]
                       /\ mem'[t] = IF Exists(t) /\ t \notin broken THEN row[t] ELSE "none"
                       /\ built'[t] = conf'[t] /\ conf'[t] = conf[t]
  BY DEF Restart
<1>1. TypeOK'
  BY <1>a, NoCallType DEF Restart, TypeOK, Stored, Gone, Exists, Fault, RunningRows
<1>2. PlaceInv' /\ LockInv' /\ LateInv' /\ NothingBeginsUnderKill'
  BY <1>b DEF NoCall, PlaceInv, PlacesOf, AtNone, LockInv, LateInv, NothingBeginsUnderKill
<1>3. PastInv'
  BY <1>a, <1>b, <1>c, RuntimeAssumption
     DEF PastInv, NoCall, Creates, Exists, Gone, RuntimeAssumption
<1>4. AgreeInv'
  BY <1>b, <1>c DEF NoCall, AgreeInv, RowAndMemoryAgree, Halfway, Loaded
<1>5. KillInv'
  BY <1>c DEF KillInv, Restart, RunningRows, Running
<1>6. RunInv'
  <2> SUFFICES ASSUME NEW t \in Tasks PROVE RunFor(t)'
    BY DEF RunInv
  <2>1. \A c \in Callers : ~Halfway(c, t)'
    BY <1>b DEF NoCall, Halfway
  <2>2. mem'[t] = "running" => row'[t] = "running"
    BY <1>c
  <2> QED  BY <2>1, <2>2 DEF RunFor
<1>7. CurrentInv'
  BY <1>c DEF CurrentInv, CurrentFor
<1> QED  BY <1>1, <1>2, <1>3, <1>4, <1>5, <1>6, <1>7 DEF IInv

\* Nothing happens.
LEMMA Stutter ==
  ASSUME IInv, UNCHANGED vars
  PROVE  IInv'
<1> USE DEF vars, db, memory, counts, history
<1>1. TypeOK' /\ PlaceInv' /\ PastInv' /\ LockInv' /\ LateInv' /\ NothingBeginsUnderKill'
  BY DEF IInv, TypeOK, PlaceInv, AtNone, PastInv, Creates, LockInv, LateInv, NothingBeginsUnderKill
<1>2. AgreeInv' /\ KillInv'
  BY DEF IInv, AgreeInv, RowAndMemoryAgree, Halfway, Loaded, Opened, Undisturbed,
         KillInv, RunningRows, Running, Starting, Stopping
<1>3. RunInv' /\ CurrentInv'
  BY DEF IInv, RunInv, RunFor, Starting, Halfway, CurrentInv, CurrentFor, Fixer, At, Exists, Loaded
<1> QED  BY <1>1, <1>2, <1>3 DEF IInv

\* Every step keeps the invariant.
LEMMA Inductive ==
  ASSUME RuntimeAssumption, IInv, [Next]_vars
  PROVE  IInv'
<1>1. ASSUME NEW c \in Callers, Step(c) PROVE IInv'
  <2>1. TypeOK' /\ PlaceInv' /\ PastInv' /\ LockInv'
    BY <1>1, TypeStep, PlaceStep, PastStep, LockStep DEF IInv
  <2>2. AgreeInv' /\ KillInv' /\ LateInv' /\ NothingBeginsUnderKill' /\ RunInv' /\ CurrentInv'
    BY <1>1, AgreeStep, KillStep, LateStep, RunStep, CurrentStep DEF IInv
  <2> QED  BY <2>1, <2>2 DEF IInv
<1> QED  BY <1>1, BeginStep, RestartStep, Stutter DEF Next

-----------------------------------------------------------------------------
(* What holds of every run.                                                *)

\* The inductive invariant holds.
THEOREM Invariant == Spec => []IInv
<1>1. Init => IInv
  BY RuntimeAssumption, InitHolds
<1>2. IInv /\ [Next]_vars => IInv'
  BY RuntimeAssumption, Inductive
<1> QED  BY <1>1, <1>2, PTL DEF Spec

\* Rows, instances, locks and calls keep their types.
THEOREM TypeCorrect == Spec => []TypeOK
<1>1. IInv => TypeOK
  BY DEF IInv
<1> QED  BY <1>1, Invariant, PTL

\* The row of a task and its instance in memory have the same status, when no call
\* is between its two changes, unless two calls of the API got between one another's
\* changes of that task or a write failed.
THEOREM RowsAndMemoryAgree == Spec => []RowAndMemoryAgree
<1>1. IInv => RowAndMemoryAgree
  BY DEF IInv, AgreeInv
<1> QED  BY <1>1, Invariant, PTL

\* When the call that threw the kill switch has ended, no task runs, by its row or in
\* memory, but those that a named exception lets run.
THEOREM KillSwitchStops == Spec => []KillStopsTheRest
<1>1. IInv => KillStopsTheRest
  BY DEF IInv, KillInv, KillStopsTheRest, Stopping, Starting, RunningRows, Running
<1> QED  BY <1>1, Invariant, PTL

\* A start or tick asked for under the kill switch never gets past it.
THEOREM KillSwitchHolds == Spec => []NothingBeginsUnderKill
<1>1. IInv => NothingBeginsUnderKill
  BY DEF IInv
<1> QED  BY <1>1, Invariant, PTL

\* The cycle lock keeps ticks and resumed orders of one task apart.
THEOREM CyclesExclude == Spec => []OneCycleAtATime
<1>1. IInv => OneCycleAtATime
  BY DEF IInv, LockInv, OneCycleAtATime
<1> QED  BY <1>1, Invariant, PTL

\* A task that runs in memory runs by its row, however calls interleave, but for a
\* start on its way, one that raced another call, and one that could not write.
THEOREM RunningTasksAreStored == Spec => []RunningIsStored
<1>1. IInv => RunningIsStored
  BY DEF IInv, RunInv, RunFor, RunningIsStored, Running, Starting
<1> QED  BY <1>1, Invariant, PTL

\* A loaded task's worker is built from the settings its row has, or an update will
\* build it anew from them, unless one of the named exceptions happened to it.
THEOREM WorkersAreCurrent == Spec => []WorkerIsCurrent
<1>1. IInv => WorkerIsCurrent
  BY DEF IInv, CurrentInv, CurrentFor, Fixer, At, WorkerIsCurrent
<1> QED  BY <1>1, Invariant, PTL

=============================================================================
