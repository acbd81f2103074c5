----------------------------- MODULE BacktestJob -----------------------------
(***************************************************************************)
(* The backtest jobs of one task.  A job is a row of the runs table and,   *)
(* while the process lives, a body that steps through the bars: it looks   *)
(* for a pause or a stop, runs the cycle of the bar on a ledger kept in    *)
(* memory, stores the progress and then a checkpoint of the ledger.        *)
(* People start, pause, resume and stop a job by calls that read the row   *)
(* and act on it some awaits later.  A shutdown cancels the bodies; a      *)
(* crash loses them; a restart begins again from the rows.                 *)
(*                                                                         *)
(* A step is the code between two awaits of the asyncio loop.              *)
(***************************************************************************)
EXTENDS Naturals

CONSTANTS
  Jobs,     \* the runs the task may get, one for each call that starts one
  Bars,     \* bars_total
  Requests, \* calls of people that can be in flight at once
  None,
  MaxCalls, MaxFaults \* bounds of the model

ASSUME BacktestAssumption ==
  /\ Bars \in Nat \ {0}
  /\ None \notin Requests \cup Jobs
  /\ MaxCalls \in Nat /\ MaxFaults \in Nat

VARIABLES
  row,     \* the runs table
  body,    \* the body of each job (backtest_tasks)
  pending, \* _backtest_pause_pending
  waiter,  \* _backtest_pause_waiters: the call whose event is registered
  woken,   \* calls whose event was set
  req,     \* the calls in flight
  start,   \* start_backtest_job, one call per job
  up, closing, \* the process runs; aclose was called
  calls, faults, \* how many happened
  lost,    \* bars whose progress was stored and whose ledger was not
  late,    \* bars that ended after a stop was stored
  slip,    \* bars that ended on a paused row since it was last made so
  excused  \* calls about one job were in flight together, or a body could not
           \* store that it failed

pauseVars == <<pending, waiter, woken>>
people    == <<req, start, calls, excused>>
process   == <<up, closing, faults>>
history   == <<lost, late, slip>>
vars == <<row, body, pauseVars, people, process, history>>

Terminal == {"completed", "failed", "stopped"}
Live     == {"running", "paused"}
Rows     == [status : {"none", "pending"} \cup Live \cup Terminal,
             stop : BOOLEAN, bars : 0..Bars, ledger : 0..Bars]
NoRow    == [status |-> "none", stop |-> FALSE, bars |-> 0, ledger |-> 0]
Places   == {"none", "load", "empty", "unpause", "gate", "bar", "progress",
             "checkpoint", "mark", "event", "finish", "fail", "stop", "report",
             "except", "final", "drain"}
Bodies   == [at : Places,
             idx : 0..Bars,     \* bars done, as the loop counts them
             ledger : 0..Bars,  \* bars whose trades the ledger in memory has
             bad : BOOLEAN]     \* the report of the bar says cycle_failed
NoBody   == [at |-> "none", idx |-> 0, ledger |-> 0, bad |-> FALSE]
Calls    == [op : {"none", "pause", "resume", "stop"},
             at : {"idle", "read", "guard", "mark", "wait", "resume", "ensure",
                   "set", "wake", "finalize"},
             job : Jobs \cup {None}]
NoCall   == [op |-> "none", at |-> "idle", job |-> None]

TypeOK ==
  /\ row \in [Jobs -> Rows]
  /\ body \in [Jobs -> Bodies]
  /\ pending \in [Jobs -> BOOLEAN]
  /\ waiter \in [Jobs -> Requests \cup {None}]
  /\ woken \subseteq Requests
  /\ req \in [Requests -> Calls]
  /\ start \in [Jobs -> {"idle", "check", "create", "mark", "ensure"}]
  /\ up \in BOOLEAN /\ closing \in BOOLEAN /\ excused \in BOOLEAN
  /\ calls \in Nat /\ faults \in Nat
  /\ lost \in [Jobs -> Nat] /\ late \in [Jobs -> Nat] /\ slip \in [Jobs -> Nat]

Init ==
  /\ row = [j \in Jobs |-> NoRow]
  /\ body = [j \in Jobs |-> NoBody]
  /\ pending = [j \in Jobs |-> FALSE]
  /\ waiter = [j \in Jobs |-> None]
  /\ woken = {}
  /\ req = [q \in Requests |-> NoCall]
  /\ start = [j \in Jobs |-> "idle"]
  /\ up = TRUE /\ closing = FALSE /\ excused = FALSE
  /\ calls = 0 /\ faults = 0
  /\ lost = [j \in Jobs |-> 0]
  /\ late = [j \in Jobs |-> 0]
  /\ slip = [j \in Jobs |-> 0]

Fault == faults < MaxFaults /\ faults' = faults + 1

\* _wake_backtest_pause_waiter_if_any
Wake(j) == /\ woken' = IF waiter[j] = None THEN woken ELSE woken \cup {waiter[j]}
           /\ waiter' = [waiter EXCEPT ![j] = None]

\* The flag is dropped and the call that waits goes on.
ClearPause(j) == Wake(j) /\ pending' = [pending EXCEPT ![j] = FALSE]

\* _ensure_backtest_task: a job that has a body gets no other one.
EnsureBody(j) == IF body[j].at = "none"
                 THEN body' = [body EXCEPT ![j].at = "load"]
                 ELSE body' = body

SetStatus(j, s) == row' = [row EXCEPT ![j].status = s]

\* A pause stored over another status begins a new count.
CountsAnew(j) == slip' = [slip EXCEPT ![j] =
                   IF row[j].status # "paused" /\ row'[j].status = "paused" THEN 0 ELSE @]

-----------------------------------------------------------------------------
(* start_backtest_job                                                      *)

Starts(j, from, to) ==
  /\ up /\ ~closing
  /\ start[j] = from
  /\ start' = [start EXCEPT ![j] = to]
  /\ UNCHANGED <<pauseVars, req, calls, excused, process, history>>

StartCall(j) == /\ row[j].status = "none"
                /\ Starts(j, "idle", "check") /\ UNCHANGED <<row, body>>

\* The task must not have a run yet, and the range, the route and the data must
\* pass many checks.  The row is inserted many awaits later.
StartCheck(j) ==
  /\ \/ Starts(j, "check", "idle")
     \/ Starts(j, "check", "create") /\ \A k \in Jobs : row[k].status = "none"
  /\ UNCHANGED <<row, body>>

StartCreate(j) == /\ Starts(j, "create", "mark")
                  /\ SetStatus(j, "pending") /\ body' = body

StartMark(j) == /\ Starts(j, "mark", "ensure")
                /\ SetStatus(j, "running") /\ body' = body

StartEnsure(j) == Starts(j, "ensure", "idle") /\ EnsureBody(j) /\ row' = row

-----------------------------------------------------------------------------
(* _run_backtest_job_body                                                  *)

At(j, pc) == up /\ body[j].at = pc
Runs(j, pc) == At(j, pc) /\ ~closing
Goes(j, pc) == body' = [body EXCEPT ![j].at = pc]
Quiet == UNCHANGED <<people, process, history>>

\* Forms with a bug, which the properties must catch, stand before the form of the
\* code.
StopUnseen(j) == FALSE

\* stop_requested, as the loop looks for it
StopSeen(j) == row[j].stop

PauseUnseen(j) == FALSE
PauseSeen(j) == row[j].status = "paused"

NextBarEarly(idx) == IF idx + 1 >= Bars THEN "finish" ELSE "unpause"

\* What the loop does after a bar.
NextBar(idx) == IF idx = Bars THEN "finish" ELSE "unpause"

\* The row says how many bars are done and what the ledger was.
BodyLoads(j) ==
  /\ Runs(j, "load")
  /\ body' = [body EXCEPT ![j] =
       [at |-> IF row[j].bars = Bars THEN "empty" ELSE "unpause",
        idx |-> row[j].bars, ledger |-> row[j].ledger, bad |-> FALSE]]
  /\ IF row[j].bars = Bars THEN ClearPause(j) ELSE UNCHANGED pauseVars
  /\ row' = row /\ Quiet

BodyHasNoBars(j) ==
  /\ Runs(j, "empty")
  /\ Goes(j, IF row[j].status \in Terminal THEN "final" ELSE "finish")
  /\ UNCHANGED <<row, pauseVars>> /\ Quiet

\* _await_backtest_outer_unpause
BodyUnpaused(j) ==
  /\ Runs(j, "unpause") /\ ~StopSeen(j) /\ ~PauseSeen(j)
  /\ Goes(j, "gate")
  /\ UNCHANGED <<row, pauseVars>> /\ Quiet

BodyGate(j) ==
  /\ Runs(j, "gate") /\ ~StopSeen(j)
  /\ Goes(j, "bar")
  /\ UNCHANGED <<row, pauseVars>> /\ Quiet

BodySeesStop(j) ==
  /\ Runs(j, "unpause") \/ Runs(j, "gate")
  /\ StopSeen(j)
  /\ ClearPause(j)
  /\ Goes(j, "stop")
  /\ row' = row /\ Quiet

\* The cycle of the bar ends; bad: its report says that the cycle failed.
BodyBar(j, bad) ==
  /\ Runs(j, "bar")
  /\ IF bad THEN Fault ELSE faults' = faults
  /\ body' = [body EXCEPT ![j].at = "progress", ![j].ledger = @ + 1, ![j].bad = bad]
  /\ late' = [late EXCEPT ![j] = IF row[j].stop THEN @ + 1 ELSE @]
  /\ slip' = [slip EXCEPT ![j] = IF row[j].status = "paused" THEN @ + 1 ELSE @]
  /\ UNCHANGED <<row, pauseVars, people, up, closing, lost>>

BodyProgress(j) ==
  /\ Runs(j, "progress")
  /\ row' = [row EXCEPT ![j].bars = body[j].idx + 1]
  /\ Goes(j, "checkpoint")
  /\ UNCHANGED pauseVars /\ Quiet

SavedUnlessBad(j) == IF body[j].bad THEN row[j].ledger ELSE body[j].ledger

Saved(j) == body[j].ledger

\* save_ledger_checkpoint, and what follows it without an await.
BodyCheckpoint(j) ==
  LET done == body[j].idx + 1
      then == IF body[j].bad THEN "fail" ELSE IF pending[j] THEN "mark"
                                                            ELSE NextBar(done)
  IN /\ Runs(j, "checkpoint")
     /\ row' = [row EXCEPT ![j].ledger = Saved(j)]
     /\ body' = [body EXCEPT ![j].at = then, ![j].idx = done]
     /\ pending' = [pending EXCEPT ![j] = FALSE]
     /\ IF then = "mark" THEN UNCHANGED <<waiter, woken>> ELSE Wake(j)
     /\ Quiet

BodyMarksPaused(j) == /\ Runs(j, "mark")
                      /\ SetStatus(j, "paused") /\ CountsAnew(j)
                      /\ Goes(j, "event")
                      /\ UNCHANGED <<pauseVars, people, process, lost, late>>

BodyTellsPauser(j) == /\ Runs(j, "event")
                      /\ Wake(j) /\ Goes(j, NextBar(body[j].idx))
                      /\ UNCHANGED <<row, pending>> /\ Quiet

\* finalize_success, finalize_failed and finalize_stopped write without a look
\* at the status they replace.
Outcome(pc) == CASE pc = "finish" -> "completed"
                 [] pc = "fail" -> "failed"
                 [] pc = "stop" -> "stopped"

BodyFinalizes(j) == /\ \E pc \in {"finish", "fail", "stop"} :
                          Runs(j, pc) /\ SetStatus(j, Outcome(pc))
                    /\ Goes(j, "report")
                    /\ UNCHANGED pauseVars /\ Quiet

\* The summary and the debug session.
BodyReports(j) == /\ Runs(j, "report") /\ Goes(j, "final")
                  /\ UNCHANGED <<row, pauseVars>> /\ Quiet

\* except Exception: the failure is stored, or storing it fails too.
BodyRaises(j) == /\ up /\ ~closing /\ Fault
                 /\ body[j].at \notin {"none", "except", "final", "drain"}
                 /\ Goes(j, "except")
                 /\ lost' = [lost EXCEPT ![j] =
                              IF body[j].at = "checkpoint" THEN @ + 1 ELSE @]
                 /\ UNCHANGED <<row, pauseVars, people, up, closing, late, slip>>

BodyExcept(j) == /\ Runs(j, "except") /\ SetStatus(j, "failed")
                 /\ Goes(j, "final") /\ UNCHANGED pauseVars /\ Quiet

BodyExceptFails(j) == /\ At(j, "except") /\ (closing \/ faults < MaxFaults)
                      /\ faults' = IF closing THEN faults ELSE faults + 1
                      /\ Goes(j, "final")
                      /\ excused' = TRUE
                      /\ UNCHANGED <<row, pauseVars, req, start, calls, up, closing,
                                     history>>

BodyFinal(j) == /\ At(j, "final")
                /\ ClearPause(j) /\ Goes(j, "drain")
                /\ row' = row /\ Quiet

\* The spans are drained; then the done callback drops the body.
BodyDrains(j) == /\ At(j, "drain")
                 /\ body' = [body EXCEPT ![j] = NoBody]
                 /\ UNCHANGED <<row, pauseVars>> /\ Quiet

-----------------------------------------------------------------------------
(* pause_backtest_job, resume_backtest_job, stop_backtest_job              *)

Calm == UNCHANGED <<start, calls, excused, process>>
Moves(q, pc) == req' = [req EXCEPT ![q].at = pc]
Returns(q) == req' = [req EXCEPT ![q] = NoCall]
AtCall(q, pc) == up /\ ~closing /\ req[q].at = pc

Ask(q, op, j) ==
  /\ AtCall(q, "idle") /\ row[j].status # "none"
  /\ calls < MaxCalls /\ calls' = calls + 1
  /\ req' = [req EXCEPT ![q] = [op |-> op, at |-> "read", job |-> j]]
  /\ excused' = (\/ excused \/ start[j] # "idle"
                 \/ \E p \in Requests \ {q} : req[p].at # "idle")
  /\ UNCHANGED <<row, body, pauseVars, start, process, history>>

\* The row is read; the call goes on with what it was.
ReadRow(q) ==
  LET r == row[req[q].job] op == req[q].op
      allowed == \/ op = "pause" /\ r.status = "running"
                 \/ op = "resume" /\ r.status = "paused" /\ ~r.stop
                 \/ op = "stop" /\ r.status \notin Terminal
      first == [pause |-> "guard", resume |-> "resume", stop |-> "set"]
  IN /\ AtCall(q, "read")
     /\ IF allowed THEN Moves(q, first[op]) ELSE Returns(q)
     /\ UNCHANGED <<row, body, pauseVars, history>> /\ Calm

PauseGuard(q) ==
  LET j == req[q].job
      busy == pending[j] \/ waiter[j] # None
  IN /\ AtCall(q, "guard")
     /\ \/ /\ busy /\ Returns(q) /\ UNCHANGED pauseVars
        \/ /\ ~busy /\ body[j].at = "none" /\ Moves(q, "mark")
           /\ UNCHANGED pauseVars
        \/ /\ ~busy /\ body[j].at # "none" /\ Moves(q, "wait")
           /\ waiter' = [waiter EXCEPT ![j] = q]
           /\ pending' = [pending EXCEPT ![j] = TRUE]
           /\ woken' = woken
     /\ UNCHANGED <<row, body, history>> /\ Calm

PauseMarks(q) == /\ AtCall(q, "mark")
                 /\ SetStatus(req[q].job, "paused") /\ CountsAnew(req[q].job)
                 /\ Returns(q)
                 /\ UNCHANGED <<body, pauseVars, lost, late>> /\ Calm

\* The finally of the wait drops whichever event is registered for the job.
PauseWoken(q) == /\ AtCall(q, "wait") /\ q \in woken
                 /\ woken' = woken \ {q}
                 /\ waiter' = [waiter EXCEPT ![req[q].job] = None]
                 /\ Returns(q)
                 /\ UNCHANGED <<row, body, pending, history>> /\ Calm

ResumeMarks(q) == /\ AtCall(q, "resume")
                  /\ SetStatus(req[q].job, "running") /\ Moves(q, "ensure")
                  /\ UNCHANGED <<body, pauseVars, history>> /\ Calm

ResumeEnsures(q) == /\ AtCall(q, "ensure")
                    /\ EnsureBody(req[q].job) /\ Returns(q)
                    /\ UNCHANGED <<row, pauseVars, history>> /\ Calm

StopSets(q) == /\ AtCall(q, "set")
               /\ row' = [row EXCEPT ![req[q].job].stop = TRUE]
               /\ Moves(q, "wake")
               /\ UNCHANGED <<body, pauseVars, history>> /\ Calm

StopWakes(q) == /\ AtCall(q, "wake")
                /\ Wake(req[q].job)
                /\ IF body[req[q].job].at = "none" THEN Moves(q, "finalize")
                                                   ELSE Returns(q)
                /\ UNCHANGED <<row, body, pending, history>> /\ Calm

StopFinalizes(q) == /\ AtCall(q, "finalize")
                    /\ SetStatus(req[q].job, "stopped") /\ Returns(q)
                    /\ UNCHANGED <<body, pauseVars, history>> /\ Calm

-----------------------------------------------------------------------------
(* Shutdown, crash and restart                                             *)

Unsaved == [j \in Jobs |-> IF body[j].at = "checkpoint" THEN lost[j] + 1 ELSE lost[j]]

MemoryGone == /\ up' = FALSE /\ closing' = FALSE
              /\ body' = [j \in Jobs |-> NoBody]
              /\ pending' = [j \in Jobs |-> FALSE]
              /\ waiter' = [j \in Jobs |-> None]
              /\ woken' = {}
              /\ req' = [q \in Requests |-> NoCall]
              /\ start' = [j \in Jobs |-> "idle"]
              /\ UNCHANGED <<row, calls, excused, late, slip>>

Crash == up /\ Fault /\ MemoryGone /\ lost' = Unsaved

\* aclose: the server has finished its calls, except those that wait for a bar.
Close == /\ up /\ ~closing /\ Fault
         /\ \A j \in Jobs : start[j] = "idle"
         /\ \A q \in Requests : req[q].at \in {"idle", "wait"}
         /\ closing' = TRUE
         /\ UNCHANGED <<row, body, pauseVars, people, up, history>>

\* except CancelledError, while closing
BodyCancelled(j) ==
  /\ up /\ closing
  /\ body[j].at \notin {"none", "except", "final", "drain"}
  /\ IF row[j].stop THEN SetStatus(j, "stopped")
     ELSE IF row[j].status \notin Terminal THEN SetStatus(j, "paused") ELSE row' = row
  /\ ClearPause(j) /\ Goes(j, "drain")
  /\ lost' = [lost EXCEPT ![j] = Unsaved[j]]
  /\ CountsAnew(j)
  /\ UNCHANGED <<people, process, late>>

Exit == /\ up /\ closing
        /\ \A j \in Jobs : body[j].at = "none"
        /\ MemoryGone /\ UNCHANGED <<faults, lost>>

\* restore_backtest_jobs
Restart == /\ ~up /\ up' = TRUE
           /\ body' = [j \in Jobs |-> IF row[j].status \in Live
                                      THEN [NoBody EXCEPT !.at = "load"] ELSE NoBody]
           /\ UNCHANGED <<row, pauseVars, people, closing, faults, history>>

-----------------------------------------------------------------------------

StartStep(j) == \/ StartCheck(j) \/ StartCreate(j) \/ StartMark(j)
                \/ StartEnsure(j)

BodyStep(j) == \/ BodyLoads(j) \/ BodyHasNoBars(j) \/ BodyUnpaused(j)
               \/ BodyGate(j) \/ BodySeesStop(j)
               \/ \E bad \in BOOLEAN : BodyBar(j, bad)
               \/ BodyProgress(j) \/ BodyCheckpoint(j) \/ BodyMarksPaused(j)
               \/ BodyTellsPauser(j) \/ BodyFinalizes(j) \/ BodyReports(j)
               \/ BodyExcept(j) \/ BodyExceptFails(j) \/ BodyFinal(j)
               \/ BodyDrains(j) \/ BodyCancelled(j)

CallStep(q) == \/ ReadRow(q) \/ PauseGuard(q) \/ PauseMarks(q) \/ PauseWoken(q)
               \/ ResumeMarks(q) \/ ResumeEnsures(q)
               \/ StopSets(q) \/ StopWakes(q) \/ StopFinalizes(q)

Next == \/ \E j \in Jobs : StartCall(j) \/ StartStep(j) \/ BodyStep(j) \/ BodyRaises(j)
        \/ \E q \in Requests : \/ CallStep(q)
                               \/ \E op \in {"pause", "resume", "stop"}, j \in Jobs :
                                    Ask(q, op, j)
        \/ Crash \/ Close \/ Exit \/ Restart

Spec == Init /\ [][Next]_vars

\* The loop runs every coroutine that is ready, and a process that is down is
\* started again.
Fairness == /\ \A j \in Jobs : WF_vars(StartStep(j)) /\ WF_vars(BodyStep(j))
            /\ \A q \in Requests : WF_vars(CallStep(q))
            /\ WF_vars(Exit) /\ WF_vars(Restart)

FairSpec == Spec /\ Fairness

-----------------------------------------------------------------------------
(* Properties                                                              *)

\* Outside the gap between the two writes at the end of a bar, the ledger that is
\* stored has the trades of every bar that counts as done, except for one bar per
\* death of the body inside that gap.  (set_progress, save_ledger_checkpoint)
LedgerAccounted == \A j \in Jobs : body[j].at # "checkpoint" =>
                     row[j].bars = row[j].ledger + lost[j]

\* A job is completed only when every bar was run, through any number of pauses,
\* shutdowns, crashes and restarts.  (the slice of cycle_times by bars_completed)
CompletedIsComplete == \A j \in Jobs : row[j].status = "completed" => row[j].bars = Bars

\* After a stop is stored, at most the bar under way still runs, whoever else
\* pauses or resumes the job or restarts the process.  (the two looks at the row
\* before each bar)
StopIsPrompt == \A j \in Jobs : late[j] <= 1

\* After a pause is stored, at most the bar under way still runs for as long as the
\* row stays paused, whatever bodies come and go.
\* (_await_backtest_outer_unpause)
PauseIsPrompt == \A j \in Jobs : slip[j] <= 1

\* Once a stop call has stored its flag on a live job, the job reaches a terminal
\* status: through its body, through the call itself when there is no body, or
\* after a restart.  Excepted are calls about one job that overlap, a body that
\* dies without storing it, and a body that is past its last look at the row but
\* still registered.
StopEnds == \A j \in Jobs, q \in Requests :
  (/\ req[q].at = "wake" /\ req[q].job = j
   /\ row[j].status \in Live
   /\ body[j].at \notin {"report", "final", "drain"})
    ~> (row[j].status \in Terminal \/ excused)

=============================================================================
