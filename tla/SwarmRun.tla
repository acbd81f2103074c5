------------------------------- MODULE SwarmRun -------------------------------
(***************************************************************************)
(* One run of a swarm of agents.  start_run stores the run and its tasks   *)
(* and starts a body in the background; the body cuts the task graph into  *)
(* layers and works on one layer after another.  The workers of a layer    *)
(* run side by side, some at a time, each with retries; gather waits for   *)
(* all of them, or gives up at the first one that raises and leaves the    *)
(* others running.  People may ask to cancel at any time.                  *)
(*                                                                         *)
(* A step is the code between two awaits of the asyncio loop.              *)
(***************************************************************************)
EXTENDS Dag

CONSTANTS
  Tasks,
  Agents, None,
  Presets,    \* deps: what each task depends on; agent: the agent it names, None
              \* when the preset has no such agent
  MaxWorkers, \* max_workers
  MaxRetries, \* max_retries of every agent
  MaxFaults   \* bound of the model

ASSUME SwarmAssumption ==
  /\ Presets \subseteq [deps : [Tasks -> SUBSET Tasks], agent : [Tasks -> Agents \cup {None}]]
  /\ None \notin Agents /\ IsFiniteSet(Tasks)
  /\ MaxWorkers \in Nat \ {0} /\ MaxRetries \in Nat /\ MaxFaults \in Nat

VARIABLES
  preset, \* the preset of the run
  row,    \* status of the run's row
  rows,   \* statuses of the tasks' rows
  task,   \* statuses of the tasks in memory
  body,   \* where the background body is
  layer,  \* how many layers the body has begun
  todo,   \* tasks of the layer still to look at, or results still to apply
  good,   \* all_succeeded
  final,  \* the status it chose
  report, \* final_report is there
  worker, \* the worker of each task
  agents, \* rows of ephemeral agents stored for this run
  known,  \* the run is in _cancel_events
  cancel, \* its event is set
  early,  \* it was set before the body chose the final status
  faults, broken \* how many failures; a write of the body or of a worker failed

store   == <<row, rows, report>>
people  == <<known, cancel, early>>
vars == <<preset, store, task, body, layer, todo, good, final, worker, agents,
          people, faults, broken>>

deps    == preset.deps
AgentOf == preset.agent

Over     == {"completed", "failed", "cancelled"}
Statuses == {"pending", "blocked", "in_progress"} \cup Over
Places   == {"none", "begin", "layer", "cancel", "gate", "workers", "results",
             "progress", "finish", "write", "pop", "over", "lost", "dead"}
Workers  == [at : {"none", "wait", "try", "create", "send", "done", "raised"},
             tries : Nat, ok : BOOLEAN]
NoWorker == [at |-> "none", tries |-> 0, ok |-> FALSE]
Active   == {t \in Tasks : worker[t].at \in {"try", "create", "send"}}

TypeOK ==
  /\ preset \in Presets
  /\ row \in {"none", "running"} \cup Over
  /\ rows \in [Tasks -> Statuses \cup {"none"}]
  /\ task \in [Tasks -> Statuses]
  /\ body \in Places
  /\ layer \in Nat
  /\ todo \subseteq Tasks
  /\ good \in BOOLEAN /\ final \in Over \cup {"none"} /\ report \in BOOLEAN
  /\ worker \in [Tasks -> Workers]
  /\ agents \subseteq Agents
  /\ known \in BOOLEAN /\ cancel \in BOOLEAN /\ early \in BOOLEAN
  /\ faults \in Nat /\ broken \in BOOLEAN

\* build_run_from_preset
Init ==
  /\ preset \in Presets
  /\ task = [t \in Tasks |-> IF deps[t] = {} THEN "pending" ELSE "blocked"]
  /\ row = "none" /\ rows = [t \in Tasks |-> "none"] /\ report = FALSE
  /\ body = "none" /\ layer = 0 /\ todo = {} /\ good = TRUE /\ final = "none"
  /\ worker = [t \in Tasks |-> NoWorker] /\ agents = {}
  /\ known = FALSE /\ cancel = FALSE /\ early = FALSE
  /\ faults = 0 /\ broken = FALSE

Fault   == faults < MaxFaults /\ faults' = faults + 1
Written == faults' = faults /\ broken' = broken
Unwritten == Fault /\ broken' = TRUE
Unbroken  == UNCHANGED <<faults, broken>>

SetTask(t, s) == task' = [task EXCEPT ![t] = s]
SaveTask(t, s) == rows' = [rows EXCEPT ![t] = s]

\* The body leaves its try block with an exception.
Raises == body' = "finish" /\ good' = FALSE

-----------------------------------------------------------------------------
(* start_run and cancel_run                                                *)

Start ==
  /\ body = "none" /\ Valid(deps)
  /\ \/ /\ Written /\ body' = "begin"
        /\ row' = "running" /\ rows' = task
     \/ Unwritten /\ body' = "over" /\ UNCHANGED <<row, rows>>
  /\ UNCHANGED <<preset, task, layer, todo, good, final, report, worker, agents, people>>

Rejects ==
  /\ body = "none" /\ ~Valid(deps)
  /\ body' = "over"
  /\ UNCHANGED <<preset, store, task, layer, todo, good, final, worker, agents,
                 people, faults, broken>>

StartBody ==
  /\ body = "begin"
  /\ body' = "layer" /\ known' = TRUE
  /\ UNCHANGED <<preset, store, task, layer, todo, good, final, worker, agents,
                 cancel, early, faults, broken>>

Cancel ==
  /\ known /\ ~cancel /\ body # "dead"
  /\ cancel' = TRUE /\ early' = (final = "none")
  /\ UNCHANGED <<preset, store, task, body, layer, todo, good, final, worker, agents,
                 known, faults, broken>>

-----------------------------------------------------------------------------
(* _execute_run, layer by layer                                            *)

InBody == UNCHANGED <<preset, report, agents, people>>

NextLayer ==
  /\ body = "layer"
  /\ IF layer = Len(Layers(deps)) THEN body' = "finish" /\ UNCHANGED <<layer, todo, good>>
     ELSE IF cancel THEN /\ body' = "cancel" /\ good' = FALSE
                         /\ todo' = {t \in Tasks : task[t] \notin {"completed", "failed"}}
                         /\ layer' = layer
     ELSE /\ body' = "gate" /\ layer' = layer + 1 /\ good' = good
          /\ todo' = Layers(deps)[layer + 1]
  /\ UNCHANGED <<row, rows, task, final, worker>> /\ Unbroken /\ InBody

\* _cancel_remaining
CancelsTask(t) ==
  /\ body = "cancel" /\ t \in todo
  /\ SetTask(t, "cancelled") /\ todo' = todo \ {t}
  /\ \/ Written /\ SaveTask(t, "cancelled") /\ body' = body /\ good' = good
     \/ Unwritten /\ rows' = rows /\ Raises
  /\ UNCHANGED <<row, layer, final, worker>> /\ InBody

Cancelled ==
  /\ body = "cancel" /\ todo = {}
  /\ body' = "finish"
  /\ UNCHANGED <<row, rows, task, layer, todo, good, final, worker>> /\ Unbroken /\ InBody

\* Slip: nothing is held back.
ReadyAlways(t) == TRUE

Ready(t) == \A d \in deps[t] : task[d] = "completed"

\* A task whose dependencies did not all complete is never run.
Blocks(t) ==
  /\ body = "gate" /\ t \in todo /\ ~Ready(t)
  /\ SetTask(t, "blocked") /\ todo' = todo \ {t}
  /\ \/ Written /\ SaveTask(t, "blocked") /\ good' = FALSE /\ body' = body
     \/ Unwritten /\ rows' = rows /\ Raises
  /\ UNCHANGED <<row, layer, final, worker>> /\ InBody

Dispatches ==
  /\ body = "gate" /\ \A t \in todo : Ready(t)
  /\ body' = IF todo = {} THEN "layer" ELSE "workers"
  /\ worker' = [t \in Tasks |-> IF t \in todo THEN [NoWorker EXCEPT !.at = "wait"]
                                ELSE worker[t]]
  /\ UNCHANGED <<row, rows, task, layer, todo, good, final>> /\ Unbroken /\ InBody

\* Slip: the first result ends the layer.
GatheredFirst ==
  /\ body = "workers" /\ \E t \in todo : worker[t].at = "done"
  /\ body' = "results"
  /\ UNCHANGED <<row, rows, task, layer, todo, good, final, worker>> /\ Unbroken /\ InBody

\* Slip: the body waits for good results only.
GatheredGood ==
  /\ body = "workers" /\ \A t \in todo : worker[t].at = "done" /\ worker[t].ok
  /\ body' = "results"
  /\ UNCHANGED <<row, rows, task, layer, todo, good, final, worker>> /\ Unbroken /\ InBody

Gathered ==
  /\ body = "workers" /\ \A t \in todo : worker[t].at = "done"
  /\ body' = "results"
  /\ UNCHANGED <<row, rows, task, layer, todo, good, final, worker>> /\ Unbroken /\ InBody

ResultOf(t) == IF worker[t].ok THEN "completed" ELSE "failed"

AppliesResult(t) ==
  /\ body = "results" /\ t \in todo
  /\ SetTask(t, ResultOf(t)) /\ todo' = todo \ {t}
  /\ \/ /\ Written /\ SaveTask(t, ResultOf(t))
        /\ good' = (good /\ worker[t].ok)
        /\ body' = IF todo = {t} THEN "progress" ELSE body
     \/ Unwritten /\ rows' = rows /\ Raises
  /\ UNCHANGED <<row, layer, final, worker>> /\ InBody

\* update_run after a layer: the tokens; the status is still running.
SavesProgress ==
  /\ body = "progress"
  /\ \/ Written /\ body' = "layer" /\ good' = good
     \/ Unwritten /\ Raises
  /\ UNCHANGED <<row, rows, task, layer, todo, final, worker>> /\ InBody

\* Slip: success is looked at before cancellation.
ChosenFinalGoodFirst == CASE good -> "completed"
                          [] ~good /\ cancel -> "cancelled"
                          [] OTHER -> "failed"

ChosenFinal == CASE cancel -> "cancelled"
                 [] ~cancel /\ good -> "completed"
                 [] OTHER -> "failed"

Finishes ==
  /\ body = "finish"
  /\ final' = ChosenFinal /\ body' = "write"
  /\ UNCHANGED <<row, rows, task, layer, todo, good, worker>> /\ Unbroken /\ InBody

\* The report is the summary of a completed task of the last layer.  This write
\* is outside the try block.
WritesFinal ==
  LET ls == Layers(deps) IN
  /\ body = "write"
  /\ \/ /\ Written /\ body' = "pop" /\ row' = final
        /\ report' = (ls # <<>> /\ \E t \in ls[Len(ls)] : task[t] = "completed")
     \/ Unwritten /\ body' = "lost" /\ UNCHANGED <<row, report>>
  /\ UNCHANGED <<preset, rows, task, layer, todo, good, final, worker, agents, people>>

Pops ==
  /\ body = "pop" /\ body' = "over" /\ known' = FALSE
  /\ UNCHANGED <<preset, store, task, layer, todo, good, final, worker, agents,
                 cancel, early, faults, broken>>

-----------------------------------------------------------------------------
(* _run_task_with_retries and _run_one_worker                              *)

InWorker == UNCHANGED <<preset, row, report, layer, todo, final, people>>
Moves(t, at) == worker' = [worker EXCEPT ![t].at = at]

\* The semaphore of the layer lets max_workers in.  A worker that raises makes
\* gather raise in the body; the other workers go on.
WorkerStarts(t) ==
  /\ worker[t].at = "wait" /\ Cardinality(Active) < MaxWorkers
  /\ AgentOf[t] # None
  /\ SetTask(t, "in_progress")
  /\ \/ /\ Written /\ SaveTask(t, "in_progress") /\ Moves(t, "try")
        /\ UNCHANGED <<body, good>>
     \/ /\ Unwritten /\ Moves(t, "raised") /\ rows' = rows
        /\ IF body = "workers" THEN Raises ELSE UNCHANGED <<body, good>>
  /\ InWorker /\ UNCHANGED agents

NoSuchAgent(t) ==
  /\ worker[t].at = "wait" /\ Cardinality(Active) < MaxWorkers
  /\ AgentOf[t] = None
  /\ Moves(t, "done")
  /\ InWorker /\ UNCHANGED <<rows, task, body, good, agents>> /\ Unbroken

WorkerTries(t) ==
  /\ worker[t].at = "try"
  /\ worker' = IF cancel THEN [worker EXCEPT ![t].at = "done"]
               ELSE [worker EXCEPT ![t].at = "create", ![t].tries = @ + 1]
  /\ InWorker /\ UNCHANGED <<rows, task, body, good, agents>> /\ Unbroken

AttemptFails(t) == Moves(t, IF worker[t].tries <= MaxRetries THEN "try" ELSE "done")

\* The agent's id is made of run and agent: it can be stored once.
WorkerCreates(t) ==
  /\ worker[t].at = "create"
  /\ \/ /\ AgentOf[t] \notin agents
        /\ agents' = agents \cup {AgentOf[t]}
        /\ Moves(t, "send")
        /\ Unbroken
     \/ /\ AgentOf[t] \in agents \/ faults < MaxFaults
        /\ AttemptFails(t) /\ agents' = agents /\ broken' = broken
        /\ faults' = IF AgentOf[t] \in agents THEN faults ELSE faults + 1
  /\ InWorker /\ UNCHANGED <<rows, task, body, good>>

\* send_message gives a text, none, nothing in time, or an error; only the last
\* is tried again.
WorkerAnswers(t) ==
  /\ worker[t].at = "send"
  /\ \/ \E ok \in BOOLEAN : worker' = [worker EXCEPT ![t].at = "done", ![t].ok = ok]
     \/ AttemptFails(t)
  /\ InWorker /\ UNCHANGED <<rows, task, body, good, agents>> /\ Unbroken

-----------------------------------------------------------------------------
\* The process dies.  Nothing takes up its runs again.
Dies ==
  /\ body \notin {"none", "dead"} /\ Fault
  /\ body' = "dead" /\ worker' = [t \in Tasks |-> NoWorker] /\ known' = FALSE
  /\ UNCHANGED <<preset, store, task, layer, todo, good, final, agents, cancel, early, broken>>

Body == \/ StartBody \/ NextLayer \/ Cancelled \/ Dispatches \/ Gathered
        \/ SavesProgress \/ Finishes \/ WritesFinal \/ Pops
        \/ \E t \in Tasks : CancelsTask(t) \/ Blocks(t) \/ AppliesResult(t)

Work(t) == \/ WorkerStarts(t) \/ NoSuchAgent(t) \/ WorkerTries(t)
           \/ WorkerCreates(t) \/ WorkerAnswers(t)

Next == Start \/ Rejects \/ Cancel \/ Body \/ Dies \/ \E t \in Tasks : Work(t)

Spec == Init /\ [][Next]_vars

\* asyncio runs what is ready, and every message to a worker has a timeout.
FairSpec == Spec /\ WF_vars(Body) /\ \A t \in Tasks : WF_vars(Work(t))

-----------------------------------------------------------------------------
\* The stored end of a run is true: a run whose cancellation was asked for before
\* its end was decided is cancelled, whatever its workers did meanwhile, and one
\* is completed only with every task stored as completed and a report
\* (_execute_run).
EndIsTrue ==
  /\ early /\ row \in Over => row = "cancelled"
  /\ row = "completed" => (\A t \in Tasks : rows[t] = "completed") /\ (Tasks # {} => report)

\* Unless a write failed or the process died, nothing is left behind a run that
\* has ended: no worker runs, no task is stored as waiting or in progress.
NothingLeftBehind ==
  row \in Over /\ ~broken =>
    /\ \A t \in Tasks : worker[t].at \in {"none", "done"}
    /\ \A t \in Tasks : rows[t] \in Over \cup {"blocked"}

\* No more than max_workers workers are busy at once, also when gather gave up
\* on some of them (the semaphore of a layer).
WorkersBounded == Cardinality(Active) <= MaxWorkers

\* A run that was started ends, and is stored so, unless the process dies or the
\* last write fails: retries, cancellation and failing workers come to an end.
RunEnds == body = "begin" ~> row \in Over \/ body \in {"lost", "dead"}

\* The statuses in memory as the promise sees them.
Seen == [t \in Tasks |-> CASE task[t] \in {"pending", "blocked"} -> "waiting"
                           [] task[t] = "in_progress" -> "working"
                           [] task[t] = "completed" -> "completed"
                           [] task[t] \in {"failed", "cancelled"} -> "failed"]
Outcome == IF row \in Over THEN row ELSE "open"
Promise == INSTANCE SwarmPromise WITH work <- Seen, outcome <- Outcome

\* The body, its layers and its workers implement the promise of a run: the order
\* of the graph is kept, results are final, and the run ends once.
KeepsPromise == Promise!Spec

=============================================================================
