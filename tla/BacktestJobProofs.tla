-------------------------- MODULE BacktestJobProofs --------------------------
(***************************************************************************)
(* Proofs about BacktestJob for any number of jobs, bars, callers, calls   *)
(* and faults, and about the worker that runs its bars (the second half).  *)
(*                                                                         *)
(* The inductive invariant of the jobs says, besides the types, that a     *)
(* call is about a job (CallInv), that a process that is down has no       *)
(* bodies (DownInv), how the loop's index and its ledger in memory stand   *)
(* to the row at each place of the body (LoopInv, LedgerInv), and that the *)
(* bar under way is the first one after a stop (StopInv) and after a pause *)
(* (PauseInv).                                                             *)
(***************************************************************************)
EXTENDS BacktestJob, WorkerPromise, FiniteSetTheorems, WellFoundedInduction, TLAPS

CallInv == \A q \in Requests : req[q].at # "idle" => req[q].job \in Jobs

\* The bars the row counts as done are those the loop has done, one more between
\* the two writes of a bar.
LoopInv(j) ==
  /\ body[j].at \in {"unpause", "gate", "bar", "progress"} =>
       body[j].idx < Bars /\ row[j].bars = body[j].idx
  /\ body[j].at = "checkpoint" =>
       body[j].idx < Bars /\ row[j].bars = body[j].idx + 1
  /\ body[j].at \in {"mark", "event"} => row[j].bars = body[j].idx
  /\ body[j].at \in {"empty", "finish"} => row[j].bars = Bars

\* The ledger in memory, and the one stored, miss the lost bars and no others.
LedgerInv(j) ==
  /\ body[j].at \in {"unpause", "gate", "bar", "mark", "event"} =>
       body[j].idx = body[j].ledger + lost[j]
  /\ body[j].at \in {"progress", "checkpoint"} =>
       body[j].idx + 1 = body[j].ledger + lost[j]
  /\ body[j].at # "checkpoint" => row[j].bars = row[j].ledger + lost[j]
  /\ body[j].at = "checkpoint" => row[j].bars = row[j].ledger + lost[j] + 1

StopInv(j) ==
  /\ late[j] <= 1
  /\ ~row[j].stop => late[j] = 0
  /\ body[j].at = "bar" => late[j] = 0

DoneInv(j) == row[j].status = "completed" => row[j].bars = Bars

JobInv(j) == LoopInv(j) /\ LedgerInv(j) /\ StopInv(j) /\ DoneInv(j)

\* A process that is down has no bodies.
DownInv == ~up => \A j \in Jobs : body[j].at = "none"

\* A body that is past its look at the pause found the row running: no bar has
\* ended since.
PauseInv(j) ==
  /\ slip[j] <= 1
  /\ row[j].status = "paused" /\ body[j].at \in {"gate", "bar"} => slip[j] = 0

IInv == TypeOK /\ CallInv /\ DownInv /\ \A j \in Jobs : JobInv(j) /\ PauseInv(j)

-----------------------------------------------------------------------------
(* Steps that leave the bars of a job alone.                               *)

\* A step of a call or of start_backtest_job keeps the account of job j: it gives
\* the job a status other than completed, a stop, or a body that has not loaded
\* the row yet.
LEMMA JobKept ==
  ASSUME NEW j \in Jobs, TypeOK, JobInv(j),
         row'[j].bars = row[j].bars, row'[j].ledger = row[j].ledger,
         row[j].stop => row'[j].stop,
         row'[j].status = "completed" => row[j].status = "completed",
         \/ body'[j] = body[j]
         \/ body'[j].at \in {"none", "load", "stop", "fail", "report", "except",
                             "final", "drain"} /\ body[j].at # "checkpoint",
         lost'[j] = lost[j], late'[j] = late[j]
  PROVE  JobInv(j)'
<1>1. row'[j].stop \/ late'[j] = 0
  BY DEF JobInv, StopInv
<1> QED  BY <1>1 DEF JobInv, LoopInv, LedgerInv, StopInv, DoneInv

-----------------------------------------------------------------------------
(* Types.                                                                  *)

\* The first state is typed.
LEMMA InitType == Init => TypeOK
<1> SUFFICES ASSUME Init  PROVE TypeOK
  OBVIOUS
<1>1. NoRow \in Rows
  BY BacktestAssumption DEF NoRow, Rows
<1>2. NoBody \in Bodies
  BY BacktestAssumption DEF NoBody, Bodies, Places
<1>3. NoCall \in Calls
  BY DEF NoCall, Calls
<1> QED  BY <1>1, <1>2, <1>3 DEF Init, TypeOK

\* Writing one field of the row of a job keeps the table typed.
LEMMA RowType ==
  ASSUME row \in [Jobs -> Rows], NEW j \in Jobs,
         \/ row' = row
         \/ \E s \in Live \cup Terminal \cup {"pending"} : SetStatus(j, s)
         \/ row' = [row EXCEPT ![j].stop = TRUE]
         \/ \E n \in 0..Bars : row' = [row EXCEPT ![j].bars = n]
         \/ \E n \in 0..Bars : row' = [row EXCEPT ![j].ledger = n]
  PROVE  row' \in [Jobs -> Rows]
<1>1. ASSUME NEW s \in Live \cup Terminal \cup {"pending"}, SetStatus(j, s)
      PROVE  row' \in [Jobs -> Rows]
  BY <1>1 DEF SetStatus, Rows
<1>2. CASE row' = [row EXCEPT ![j].stop = TRUE]
  BY <1>2 DEF Rows
<1>3. ASSUME NEW n \in 0..Bars, row' = [row EXCEPT ![j].bars = n]
      PROVE  row' \in [Jobs -> Rows]
  BY <1>3 DEF Rows
<1>4. ASSUME NEW n \in 0..Bars, row' = [row EXCEPT ![j].ledger = n]
      PROVE  row' \in [Jobs -> Rows]
  BY <1>4 DEF Rows
<1> QED  BY <1>1, <1>2, <1>3, <1>4

\* So does moving a body from place to place.
LEMMA BodyType ==
  ASSUME body \in [Jobs -> Bodies], NEW j \in Jobs,
         \/ body' = body
         \/ EnsureBody(j)
         \/ \E pc \in Places : Goes(j, pc)
         \/ \E b \in Bodies : body' = [body EXCEPT ![j] = b]
  PROVE  body' \in [Jobs -> Bodies]
<1>1. CASE EnsureBody(j)
  BY <1>1 DEF EnsureBody, Bodies, Places
<1>2. ASSUME NEW pc \in Places, Goes(j, pc)
      PROVE  body' \in [Jobs -> Bodies]
  BY <1>2 DEF Goes, Places, Bodies, Places
<1>3. ASSUME NEW b \in Bodies, body' = [body EXCEPT ![j] = b]
      PROVE  body' \in [Jobs -> Bodies]
  BY <1>3
<1> QED  BY <1>1, <1>2, <1>3

PauseTypes == /\ pending \in [Jobs -> BOOLEAN]
              /\ waiter \in [Jobs -> Requests \cup {None}]
              /\ woken \subseteq Requests

\* Dropping the flag of a pause and waking the call that waits keep the types.
LEMMA PauseType ==
  ASSUME PauseTypes, NEW j \in Jobs,
         \/ UNCHANGED pauseVars
         \/ Wake(j) /\ (pending' = pending \/ pending' = [pending EXCEPT ![j] = FALSE])
         \/ ClearPause(j)
         \/ UNCHANGED <<waiter, woken>> /\ pending' = [pending EXCEPT ![j] = FALSE]
  PROVE  PauseTypes'
BY DEF PauseTypes, pauseVars, Wake, ClearPause

-----------------------------------------------------------------------------
(* Every step keeps the types.                                             *)

\* start_backtest_job keeps the types.
LEMMA StartType ==
  ASSUME TypeOK, NEW j \in Jobs, StartCall(j) \/ StartStep(j)
  PROVE  TypeOK'
<1>1. ASSUME NEW from, NEW to \in {"idle", "check", "create", "mark", "ensure"},
             Starts(j, from, to),
             row' \in [Jobs -> Rows], body' \in [Jobs -> Bodies]
      PROVE  TypeOK'
  BY <1>1 DEF Starts, TypeOK, pauseVars, process, history
<1>2. CASE StartCall(j) \/ StartCheck(j)
  BY <1>1, <1>2 DEF StartCall, StartCheck, TypeOK
<1>3. CASE StartCreate(j)
  <2>1. row' \in [Jobs -> Rows]
    BY <1>3, RowType DEF StartCreate, TypeOK
  <2> QED  BY <1>1, <1>3, <2>1 DEF StartCreate, TypeOK
<1>4. CASE StartMark(j)
  <2>1. row' \in [Jobs -> Rows]
    BY <1>4, RowType DEF StartMark, TypeOK, Live
  <2> QED  BY <1>1, <1>4, <2>1 DEF StartMark, TypeOK
<1>5. CASE StartEnsure(j)
  <2>1. body' \in [Jobs -> Bodies]
    BY <1>5, BodyType DEF StartEnsure, TypeOK
  <2> QED  BY <1>1, <1>5, <2>1 DEF StartEnsure, TypeOK
<1> QED  BY <1>2, <1>3, <1>4, <1>5 DEF StartStep

\* A count that begins again at 0 is a number.
LEMMA SlipType ==
  ASSUME slip \in [Jobs -> Nat], NEW j \in Jobs, CountsAnew(j)
  PROVE  slip' \in [Jobs -> Nat]
BY DEF CountsAnew

\* A call that moves on or returns keeps the types.
LEMMA CallType ==
  ASSUME TypeOK, CallInv, NEW q \in Requests, CallStep(q)
  PROVE  TypeOK'
<1>a. /\ row \in [Jobs -> Rows] /\ body \in [Jobs -> Bodies] /\ PauseTypes
      /\ req \in [Requests -> Calls]
  BY DEF TypeOK, PauseTypes
<1>b. req[q].at # "idle" => req[q].job \in Jobs
  BY DEF CallInv
\* A call moves on or returns, and only a pause and a resume touch more than one table.
<1>1. ASSUME NEW pc \in {"guard", "mark", "wait", "resume", "ensure", "set", "wake",
                         "finalize"},
             Moves(q, pc) \/ Returns(q)
      PROVE  req' \in [Requests -> Calls]
  BY <1>1, <1>a DEF Moves, Returns, Calls, NoCall
<1>2. ASSUME Calm, row' \in [Jobs -> Rows], body' \in [Jobs -> Bodies], PauseTypes',
             req' \in [Requests -> Calls], slip' \in [Jobs -> Nat],
             UNCHANGED <<lost, late>>
      PROVE  TypeOK'
  BY <1>2 DEF Calm, TypeOK, PauseTypes, process
<1>3. CASE ReadRow(q)
  <2>1. req' \in [Requests -> Calls]
    BY <1>3, <1>a DEF ReadRow, Moves, Returns, Calls, NoCall
  <2> QED  BY <1>2, <1>3, <1>a, <2>1 DEF ReadRow, history, TypeOK, PauseTypes, pauseVars
<1>4. CASE PauseGuard(q)
  <2>1. req' \in [Requests -> Calls]
    BY <1>4, <1>1 DEF PauseGuard
  <2>2. PauseTypes'
    BY <1>4, <1>a, <1>b, ZenonT(30) DEF PauseGuard, PauseTypes, pauseVars, AtCall
  <2> QED  BY <1>2, <1>4, <1>a, <2>1, <2>2 DEF PauseGuard, history, TypeOK
<1>5. CASE PauseMarks(q)
  <2>1. row' \in [Jobs -> Rows]
    BY <1>5, <1>a, <1>b, RowType DEF PauseMarks, AtCall, Live
  <2>2. req' \in [Requests -> Calls]
    BY <1>5, <1>1 DEF PauseMarks
  <2>3. slip' \in [Jobs -> Nat]
    BY <1>5, <1>b, SlipType DEF PauseMarks, AtCall, TypeOK
  <2> QED  BY <1>2, <1>5, <1>a, <2>1, <2>2, <2>3
              DEF PauseMarks, TypeOK, PauseTypes, pauseVars
<1>6. CASE PauseWoken(q)
  <2>1. req' \in [Requests -> Calls]
    BY <1>6, <1>1 DEF PauseWoken
  <2>2. PauseTypes'
    BY <1>6, <1>a, <1>b DEF PauseWoken, PauseTypes, AtCall
  <2> QED  BY <1>2, <1>6, <1>a, <2>1, <2>2 DEF PauseWoken, history, TypeOK
<1>7. CASE ResumeMarks(q) \/ StopFinalizes(q)
  <2>1. row' \in [Jobs -> Rows]
    BY <1>7, <1>a, <1>b, RowType DEF ResumeMarks, StopFinalizes, AtCall, Live, Terminal
  <2>2. req' \in [Requests -> Calls]
    BY <1>7, <1>1 DEF ResumeMarks, StopFinalizes
  <2> QED  BY <1>2, <1>7, <1>a, <2>1, <2>2
              DEF ResumeMarks, StopFinalizes, history, TypeOK, PauseTypes, pauseVars
<1>8. CASE ResumeEnsures(q)
  <2>1. body' \in [Jobs -> Bodies]
    BY <1>8, <1>a, <1>b, BodyType DEF ResumeEnsures, AtCall
  <2>2. req' \in [Requests -> Calls]
    BY <1>8, <1>1 DEF ResumeEnsures
  <2> QED  BY <1>2, <1>8, <1>a, <2>1, <2>2
              DEF ResumeEnsures, history, TypeOK, PauseTypes, pauseVars
<1>9. CASE StopSets(q)
  <2>1. row' \in [Jobs -> Rows]
    BY <1>9, <1>a, <1>b, RowType DEF StopSets, AtCall
  <2>2. req' \in [Requests -> Calls]
    BY <1>9, <1>1 DEF StopSets
  <2> QED  BY <1>2, <1>9, <1>a, <2>1, <2>2
              DEF StopSets, history, TypeOK, PauseTypes, pauseVars
<1>10. CASE StopWakes(q)
  <2>1. req' \in [Requests -> Calls]
    BY <1>10, <1>1 DEF StopWakes
  <2>2. PauseTypes'
    BY <1>10, <1>a, <1>b, PauseType DEF StopWakes, AtCall
  <2> QED  BY <1>2, <1>10, <1>a, <2>1, <2>2 DEF StopWakes, history, TypeOK
<1> QED  BY <1>3, <1>4, <1>5, <1>6, <1>7, <1>8, <1>9, <1>10 DEF CallStep

\* A step of a body keeps the types: the index and the ledger stay in the range of
\* the bars because a bar is run only below it.
LEMMA BodyStepType ==
  ASSUME TypeOK, NEW j \in Jobs, LoopInv(j), LedgerInv(j), BodyStep(j) \/ BodyRaises(j)
  PROVE  TypeOK'
<1>a. /\ row \in [Jobs -> Rows] /\ body \in [Jobs -> Bodies] /\ PauseTypes
      /\ row[j].bars \in 0..Bars /\ row[j].ledger \in 0..Bars
      /\ body[j].idx \in 0..Bars /\ body[j].ledger \in 0..Bars
      /\ lost[j] \in Nat /\ late[j] \in Nat /\ slip[j] \in Nat /\ faults \in Nat
      /\ Bars \in Nat \ {0}
  BY BacktestAssumption DEF TypeOK, PauseTypes, Rows, Bodies, Places
<1>1. ASSUME Quiet, row' \in [Jobs -> Rows], body' \in [Jobs -> Bodies], PauseTypes'
      PROVE  TypeOK'
  BY <1>1 DEF Quiet, TypeOK, PauseTypes, people, process, history
<1>2. CASE BodyLoads(j)
  <2>1. \E b \in Bodies : body' = [body EXCEPT ![j] = b]
    BY <1>2, <1>a DEF BodyLoads, Bodies, Places
  <2>2. body' \in [Jobs -> Bodies]
    BY <1>a, <2>1, BodyType
  <2>3. PauseTypes'
    BY <1>2, <1>a, PauseType DEF BodyLoads
  <2> QED  BY <1>1, <1>2, <1>a, <2>2, <2>3 DEF BodyLoads
<1>3. CASE BodyHasNoBars(j) \/ BodyUnpaused(j) \/ BodyGate(j) \/ BodyReports(j)
  <2>1. body' \in [Jobs -> Bodies]
    BY <1>3, <1>a, BodyType
       DEF BodyHasNoBars, BodyUnpaused, BodyGate, BodyReports, Places
  <2> QED  BY <1>1, <1>3, <1>a, <2>1, PauseType
              DEF BodyHasNoBars, BodyUnpaused, BodyGate, BodyReports, pauseVars
<1>4. CASE BodySeesStop(j) \/ BodyFinal(j)
  <2>1. body' \in [Jobs -> Bodies]
    BY <1>4, <1>a, BodyType DEF BodySeesStop, BodyFinal, Places
  <2> QED  BY <1>1, <1>4, <1>a, <2>1, PauseType DEF BodySeesStop, BodyFinal
<1>5. ASSUME NEW bad \in BOOLEAN, BodyBar(j, bad)  PROVE TypeOK'
  <2>1. body[j].ledger + 1 \in 0..Bars
    BY <1>5, <1>a DEF BodyBar, Runs, At, LoopInv, LedgerInv
  <2>2. body' \in [Jobs -> Bodies]
    BY <1>5, <1>a, <2>1 DEF BodyBar, Bodies, Places
  <2>3. late' \in [Jobs -> Nat] /\ slip' \in [Jobs -> Nat] /\ faults' \in Nat
    BY <1>5, <1>a DEF BodyBar, Fault, TypeOK
  <2> QED  BY <1>5, <2>2, <2>3 DEF BodyBar, TypeOK, pauseVars, people
<1>6. CASE BodyProgress(j)
  <2>1. body[j].idx + 1 \in 0..Bars
    BY <1>6, <1>a DEF BodyProgress, Runs, At, LoopInv
  <2>2. row' \in [Jobs -> Rows]
    BY <1>6, <1>a, <2>1, RowType DEF BodyProgress
  <2>3. body' \in [Jobs -> Bodies]
    BY <1>6, <1>a, BodyType DEF BodyProgress, Places
  <2> QED  BY <1>1, <1>6, <1>a, <2>2, <2>3 DEF BodyProgress, PauseTypes, pauseVars
<1>7. CASE BodyCheckpoint(j)
  <2>1. body[j].idx + 1 \in 0..Bars
    BY <1>7, <1>a DEF BodyCheckpoint, Runs, At, LoopInv
  <2>2. row' \in [Jobs -> Rows]
    BY <1>7, <1>a, RowType DEF BodyCheckpoint, Saved
  <2>3. body' \in [Jobs -> Bodies]
    BY <1>7, <1>a, <2>1 DEF BodyCheckpoint, NextBar, Bodies, Places
  <2>4. PauseTypes'
    BY <1>7, <1>a, PauseType DEF BodyCheckpoint
  <2> QED  BY <1>1, <1>7, <2>2, <2>3, <2>4 DEF BodyCheckpoint
<1>8. CASE BodyExcept(j)
  <2>1. row' \in [Jobs -> Rows]
    BY <1>8, <1>a, RowType DEF BodyExcept, Terminal
  <2>2. body' \in [Jobs -> Bodies]
    BY <1>8, <1>a, BodyType DEF BodyExcept, Places
  <2> QED  BY <1>1, <1>8, <1>a, <2>1, <2>2, PauseType DEF BodyExcept
<1>15. CASE BodyMarksPaused(j)
  <2>1. row' \in [Jobs -> Rows]
    BY <1>15, <1>a, RowType DEF BodyMarksPaused, Live
  <2>2. body' \in [Jobs -> Bodies]
    BY <1>15, <1>a, BodyType DEF BodyMarksPaused, Places
  <2>3. slip' \in [Jobs -> Nat]
    BY <1>15, SlipType DEF BodyMarksPaused, TypeOK
  <2> QED  BY <1>15, <2>1, <2>2, <2>3
              DEF BodyMarksPaused, TypeOK, PauseTypes, pauseVars, people, process
<1>9. CASE BodyTellsPauser(j)
  <2>1. body' \in [Jobs -> Bodies]
    BY <1>9, <1>a, BodyType DEF BodyTellsPauser, NextBar, Places
  <2>2. PauseTypes'
    BY <1>9, <1>a, PauseType DEF BodyTellsPauser
  <2> QED  BY <1>1, <1>9, <1>a, <2>1, <2>2 DEF BodyTellsPauser
<1>10. CASE BodyFinalizes(j)
  <2>1. row' \in [Jobs -> Rows]
    BY <1>10, <1>a, RowType DEF BodyFinalizes, Outcome, Terminal
  <2>2. body' \in [Jobs -> Bodies]
    BY <1>10, <1>a, BodyType DEF BodyFinalizes, Places
  <2> QED  BY <1>1, <1>10, <1>a, <2>1, <2>2, PauseType DEF BodyFinalizes
<1>11. CASE BodyRaises(j)
  <2>1. body' \in [Jobs -> Bodies]
    BY <1>11, <1>a, BodyType DEF BodyRaises, Places
  <2>2. lost' \in [Jobs -> Nat] /\ faults' \in Nat
    BY <1>11, <1>a DEF BodyRaises, Fault, TypeOK
  <2> QED  BY <1>11, <2>1, <2>2 DEF BodyRaises, TypeOK, pauseVars, people
<1>12. CASE BodyExceptFails(j)
  <2>1. body' \in [Jobs -> Bodies]
    BY <1>12, <1>a, BodyType DEF BodyExceptFails, Places
  <2>2. faults' \in Nat
    BY <1>12, <1>a DEF BodyExceptFails
  <2> QED  BY <1>12, <2>1, <2>2 DEF BodyExceptFails, TypeOK, pauseVars, history
<1>13. CASE BodyDrains(j)
  <2>1. NoBody \in Bodies
    BY <1>a DEF NoBody, Bodies, Places
  <2>2. body' \in [Jobs -> Bodies]
    BY <1>13, <1>a, <2>1, BodyType DEF BodyDrains
  <2> QED  BY <1>1, <1>13, <1>a, <2>2, PauseType DEF BodyDrains
<1>14. CASE BodyCancelled(j)
  <2>1. row' \in [Jobs -> Rows]
    BY <1>14, <1>a, RowType DEF BodyCancelled, Live, Terminal
  <2>2. body' \in [Jobs -> Bodies]
    BY <1>14, <1>a, BodyType DEF BodyCancelled, Places
  <2>3. PauseTypes'
    BY <1>14, <1>a, PauseType DEF BodyCancelled
  <2>4. Unsaved[j] \in Nat
    BY <1>a DEF Unsaved
  <2>5. lost' \in [Jobs -> Nat]
    BY <1>14, <2>4 DEF BodyCancelled, TypeOK
  <2>6. slip' \in [Jobs -> Nat]
    BY <1>14, SlipType DEF BodyCancelled, TypeOK
  <2> QED  BY <1>14, <2>1, <2>2, <2>3, <2>5, <2>6
              DEF BodyCancelled, TypeOK, PauseTypes, people, process
<1> QED  BY <1>2, <1>3, <1>4, <1>5, <1>6, <1>7, <1>8, <1>9, <1>10, <1>11, <1>12,
            <1>13, <1>14, <1>15 DEF BodyStep

\* A death of the process keeps the rows and forgets the rest; a restart begins
\* from the rows.
LEMMA DeathType ==
  ASSUME TypeOK, Crash \/ Close \/ Exit \/ Restart
  PROVE  TypeOK'
<1>a. NoBody \in Bodies
  BY BacktestAssumption DEF NoBody, Bodies, Places
<1>b. [NoBody EXCEPT !.at = "load"] \in Bodies
  BY <1>a DEF Bodies, Places
<1>c. NoCall \in Calls
  BY DEF NoCall, Calls
<1>d. Unsaved \in [Jobs -> Nat]
  BY DEF Unsaved, TypeOK
<1>1. ASSUME MemoryGone, row' \in [Jobs -> Rows], faults' \in Nat, lost' \in [Jobs -> Nat]
      PROVE  TypeOK'
  <2>1. body' \in [Jobs -> Bodies] /\ req' \in [Requests -> Calls]
    BY <1>1, <1>a, <1>c DEF MemoryGone
  <2>2. /\ pending' \in [Jobs -> BOOLEAN]
        /\ waiter' \in [Jobs -> Requests \cup {None}]
        /\ woken' \subseteq Requests
        /\ start' \in [Jobs -> {"idle", "check", "create", "mark", "ensure"}]
    BY <1>1 DEF MemoryGone
  <2> QED  BY <1>1, <2>1, <2>2 DEF MemoryGone, TypeOK
<1>2. CASE Crash
  <2>1. MemoryGone /\ lost' \in [Jobs -> Nat]
    BY <1>2, <1>d DEF Crash
  <2>2. row' \in [Jobs -> Rows]
    BY <2>1 DEF MemoryGone, TypeOK
  <2>3. faults' \in Nat
    BY <1>2 DEF Crash, Fault, TypeOK
  <2> QED  BY <1>1, <2>1, <2>2, <2>3
<1>3. CASE Close
  BY <1>3 DEF Close, Fault, TypeOK, pauseVars, people, history
<1>4. CASE Exit
  BY <1>1, <1>4 DEF Exit, MemoryGone, TypeOK
<1>5. CASE Restart
  BY <1>5, <1>a, <1>b DEF Restart, TypeOK, pauseVars, people, history
<1> QED  BY <1>2, <1>3, <1>4, <1>5

\* A new call keeps the types.
LEMMA AskType ==
  ASSUME TypeOK, NEW q \in Requests, NEW op \in {"pause", "resume", "stop"},
         NEW j \in Jobs, Ask(q, op, j)
  PROVE  TypeOK'
<1>1. req' \in [Requests -> Calls]
  BY DEF Ask, Calls, TypeOK
<1>2. calls' \in Nat /\ excused' \in BOOLEAN
  BY DEF Ask, TypeOK
<1> QED  BY <1>1, <1>2 DEF Ask, TypeOK, pauseVars, process, history

\* Every step keeps the types.
LEMMA NextType ==
  ASSUME IInv, [Next]_vars
  PROVE  TypeOK'
<1>1. CASE UNCHANGED vars
  BY <1>1 DEF IInv, TypeOK, vars, pauseVars, people, process, history
<1>2. ASSUME NEW j \in Jobs,
             StartCall(j) \/ StartStep(j) \/ BodyStep(j) \/ BodyRaises(j)
      PROVE  TypeOK'
  BY <1>2, StartType, BodyStepType DEF IInv, JobInv
<1>3. ASSUME NEW q \in Requests, CallStep(q)
      PROVE  TypeOK'
  BY <1>3, CallType DEF IInv
<1>4. ASSUME NEW q \in Requests, NEW op \in {"pause", "resume", "stop"},
             NEW j \in Jobs, Ask(q, op, j)
      PROVE  TypeOK'
  BY <1>4, AskType DEF IInv
<1>5. CASE Crash \/ Close \/ Exit \/ Restart
  BY <1>5, DeathType DEF IInv
<1> QED  BY <1>1, <1>2, <1>3, <1>4, <1>5 DEF Next

-----------------------------------------------------------------------------
(* The calls.                                                              *)

\* A call keeps the job it is about until it returns.
LEMMA NextCallInv ==
  ASSUME TypeOK, CallInv, [Next]_vars
  PROVE  CallInv'
<1>a. req \in [Requests -> Calls]
  BY DEF TypeOK
<1>1. CASE req' = req
  BY <1>1 DEF CallInv
<1>2. ASSUME NEW q \in Requests, CallStep(q)
      PROVE  CallInv'
  <2>1. req[q].at # "idle"
    BY <1>2 DEF CallStep, ReadRow, PauseGuard, PauseMarks, PauseWoken, ResumeMarks,
                ResumeEnsures, StopSets, StopWakes, StopFinalizes, AtCall
  <2>2. Returns(q) \/ \E pc : Moves(q, pc)
    BY <1>2 DEF CallStep, ReadRow, PauseGuard, PauseMarks, PauseWoken, ResumeMarks,
                ResumeEnsures, StopSets, StopWakes, StopFinalizes
  <2> QED  BY <1>a, <2>1, <2>2 DEF CallInv, Returns, Moves, NoCall, Calls
<1>3. ASSUME NEW q \in Requests, NEW op \in {"pause", "resume", "stop"},
             NEW j \in Jobs, Ask(q, op, j)
      PROVE  CallInv'
  BY <1>3, <1>a DEF Ask, CallInv, Calls
<1>4. CASE Crash \/ Exit
  BY <1>4 DEF Crash, Exit, MemoryGone, CallInv, NoCall
<1>5. CASE Close \/ Restart \/ UNCHANGED vars
  BY <1>1, <1>5 DEF Close, Restart, vars, people
<1>6. ASSUME NEW j \in Jobs,
             StartCall(j) \/ StartStep(j) \/ BodyStep(j) \/ BodyRaises(j)
      PROVE  CallInv'
  BY <1>1, <1>6
     DEF StartCall, StartStep, StartCheck, StartCreate, StartMark, StartEnsure, Starts,
         BodyRaises, BodyStep, BodyLoads, BodyHasNoBars, BodyUnpaused, BodyGate,
         BodySeesStop, BodyBar, BodyProgress, BodyCheckpoint, BodyMarksPaused,
         BodyTellsPauser, BodyFinalizes, BodyReports, BodyExcept, BodyExceptFails,
         BodyFinal, BodyDrains, BodyCancelled, Quiet, people
<1> QED  BY <1>2, <1>3, <1>4, <1>5, <1>6 DEF Next

-----------------------------------------------------------------------------
(* The account of each job.                                                *)

\* start_backtest_job, and the calls of people, keep the account of every job.
LEMMA PeopleJobInv ==
  ASSUME TypeOK, CallInv, NEW k \in Jobs, JobInv(k),
         \/ \E j \in Jobs : StartCall(j) \/ StartStep(j)
         \/ \E q \in Requests : CallStep(q)
         \/ \E q \in Requests, op \in {"pause", "resume", "stop"}, j \in Jobs :
              Ask(q, op, j)
  PROVE  JobInv(k)'
<1>a. row \in [Jobs -> Rows] /\ body \in [Jobs -> Bodies]
  BY DEF TypeOK
<1>1. UNCHANGED <<lost, late>>
  BY DEF StartCall, StartStep, StartCheck, StartCreate, StartMark, StartEnsure, Starts,
         Ask, CallStep, ReadRow, PauseGuard, PauseMarks, PauseWoken, ResumeMarks,
         ResumeEnsures, StopSets, StopWakes, StopFinalizes, history
<1>2. \/ row' = row
      \/ \E j \in Jobs, s \in {"pending", "running", "paused", "stopped"} : SetStatus(j, s)
      \/ \E j \in Jobs : row' = [row EXCEPT ![j].stop = TRUE]
  BY DEF StartCall, StartStep, StartCheck, StartCreate, StartMark, StartEnsure,
         Ask, CallStep, ReadRow, PauseGuard, PauseMarks, PauseWoken, ResumeMarks,
         ResumeEnsures, StopSets, StopWakes, StopFinalizes, CallInv, AtCall
<1>3. body' = body \/ \E j \in Jobs : EnsureBody(j)
  BY DEF StartCall, StartStep, StartCheck, StartCreate, StartMark, StartEnsure,
         Ask, CallStep, ReadRow, PauseGuard, PauseMarks, PauseWoken, ResumeMarks,
         ResumeEnsures, StopSets, StopWakes, StopFinalizes, CallInv, AtCall
<1>4. /\ row'[k].bars = row[k].bars /\ row'[k].ledger = row[k].ledger
      /\ row[k].stop => row'[k].stop
      /\ row'[k].status = "completed" => row[k].status = "completed"
  BY <1>a, <1>2 DEF SetStatus, Rows
<1>5. body'[k] = body[k] \/ (body[k].at = "none" /\ body'[k].at = "load")
  BY <1>a, <1>3 DEF EnsureBody, Bodies, Places
<1> QED  BY <1>1, <1>4, <1>5, JobKept

\* A step of a body keeps the account of its own job.
LEMMA BodyJobInv ==
  ASSUME TypeOK, NEW j \in Jobs, JobInv(j), BodyStep(j) \/ BodyRaises(j)
  PROVE  JobInv(j)'
<1>a. /\ row \in [Jobs -> Rows] /\ body \in [Jobs -> Bodies]
      /\ lost \in [Jobs -> Nat] /\ late \in [Jobs -> Nat]
  BY DEF TypeOK
<1>b. /\ row[j].bars \in Nat /\ row[j].ledger \in Nat
      /\ body[j].idx \in 0..Bars /\ body[j].ledger \in Nat
      /\ lost[j] \in Nat /\ late[j] \in Nat
      /\ Bars \in Nat \ {0}
  BY <1>a, BacktestAssumption DEF Rows, Bodies, Places
<1>1. ASSUME row' = row, UNCHANGED <<lost, late>>, body[j].at # "checkpoint",
             NEW pc \in {"none", "load", "stop", "fail", "report", "except", "final",
                         "drain"},
             body'[j].at = pc
      PROVE  JobInv(j)'
  BY <1>1, JobKept
<1>2. CASE BodyLoads(j)
  <2>1. /\ row' = row /\ UNCHANGED <<lost, late>> /\ body[j].at = "load"
        /\ body'[j] = [at |-> IF row[j].bars = Bars THEN "empty" ELSE "unpause",
                       idx |-> row[j].bars, ledger |-> row[j].ledger, bad |-> FALSE]
    BY <1>2, <1>a DEF BodyLoads, Quiet, history, Runs, At
  <2>2. row[j].bars \in 0..Bars
    BY <1>a DEF Rows
  <2> QED  BY <2>1, <2>2, <1>b DEF JobInv, LoopInv, LedgerInv, StopInv, DoneInv
<1>3. CASE BodyHasNoBars(j)
  <2>1. /\ row' = row /\ UNCHANGED <<lost, late>> /\ body[j].at = "empty"
        /\ body'[j].at \in {"final", "finish"}
    BY <1>3, <1>a DEF BodyHasNoBars, Goes, Quiet, history, Runs, At, Bodies, Places
  <2> QED  BY <2>1, <1>b DEF JobInv, LoopInv, LedgerInv, StopInv, DoneInv
<1>4. CASE BodyUnpaused(j) \/ BodyGate(j)
  <2>1. /\ row' = row /\ UNCHANGED <<lost, late>> /\ ~row[j].stop
        /\ \/ body[j].at = "unpause" /\ body'[j].at = "gate"
           \/ body[j].at = "gate" /\ body'[j].at = "bar"
        /\ body'[j].idx = body[j].idx /\ body'[j].ledger = body[j].ledger
    BY <1>4, <1>a DEF BodyUnpaused, BodyGate, StopSeen, Goes, Quiet, history, Runs, At,
                      Bodies
  <2> QED  BY <2>1, <1>b DEF JobInv, LoopInv, LedgerInv, StopInv, DoneInv
<1>5. CASE BodySeesStop(j) \/ BodyReports(j) \/ BodyFinal(j)
  <2>1. /\ row' = row /\ UNCHANGED <<lost, late>> /\ body[j].at # "checkpoint"
        /\ body'[j].at \in {"stop", "final", "drain"}
    BY <1>5, <1>a DEF BodySeesStop, BodyReports, BodyFinal, Goes, Quiet, history, Runs,
                      At, Bodies, Places
  <2> QED  BY <1>1, <2>1
<1>6. ASSUME NEW bad \in BOOLEAN, BodyBar(j, bad)  PROVE JobInv(j)'
  <2>1. /\ row' = row /\ lost' = lost /\ body[j].at = "bar"
        /\ body'[j].at = "progress" /\ body'[j].idx = body[j].idx
        /\ body'[j].ledger = body[j].ledger + 1
        /\ late'[j] = IF row[j].stop THEN late[j] + 1 ELSE late[j]
    BY <1>6, <1>a DEF BodyBar, Runs, At, Bodies, Places
  <2> QED  BY <2>1, <1>b DEF JobInv, LoopInv, LedgerInv, StopInv, DoneInv
<1>7. CASE BodyProgress(j)
  <2>1. /\ UNCHANGED <<lost, late>> /\ body[j].at = "progress"
        /\ row'[j].bars = body[j].idx + 1 /\ row'[j].ledger = row[j].ledger
        /\ row'[j].stop = row[j].stop /\ row'[j].status = row[j].status
        /\ body'[j].at = "checkpoint" /\ body'[j].idx = body[j].idx
        /\ body'[j].ledger = body[j].ledger
    BY <1>7, <1>a DEF BodyProgress, Goes, Quiet, history, Runs, At, Bodies, Places, Rows
  <2> QED  BY <2>1, <1>b DEF JobInv, LoopInv, LedgerInv, StopInv, DoneInv
<1>8. CASE BodyCheckpoint(j)
  <2>1. /\ UNCHANGED <<lost, late>> /\ body[j].at = "checkpoint"
        /\ row'[j].bars = row[j].bars /\ row'[j].ledger = body[j].ledger
        /\ row'[j].stop = row[j].stop /\ row'[j].status = row[j].status
        /\ body'[j].at \in {"fail", "mark", NextBar(body[j].idx + 1)}
        /\ body'[j].idx = body[j].idx + 1 /\ body'[j].ledger = body[j].ledger
    BY <1>8, <1>a DEF BodyCheckpoint, Saved, Quiet, history, Runs, At, Bodies, Places, Rows
  <2> QED  BY <2>1, <1>b DEF NextBar, JobInv, LoopInv, LedgerInv, StopInv, DoneInv
<1>9. CASE BodyMarksPaused(j)
  <2>1. /\ UNCHANGED <<lost, late>> /\ body[j].at = "mark"
        /\ row'[j].bars = row[j].bars /\ row'[j].ledger = row[j].ledger
        /\ row'[j].stop = row[j].stop /\ row'[j].status = "paused"
        /\ body'[j].at = "event" /\ body'[j].idx = body[j].idx
        /\ body'[j].ledger = body[j].ledger
    BY <1>9, <1>a DEF BodyMarksPaused, SetStatus, Goes, Quiet, history, Runs, At, Bodies, Places,
                      Rows
  <2> QED  BY <2>1, <1>b DEF JobInv, LoopInv, LedgerInv, StopInv, DoneInv
<1>10. CASE BodyTellsPauser(j)
  <2>1. /\ row' = row /\ UNCHANGED <<lost, late>> /\ body[j].at = "event"
        /\ body'[j].at = NextBar(body[j].idx) /\ body'[j].idx = body[j].idx
        /\ body'[j].ledger = body[j].ledger
    BY <1>10, <1>a DEF BodyTellsPauser, Goes, Quiet, history, Runs, At, Bodies, Places
  <2>2. CASE body[j].idx = Bars
    BY <2>1, <2>2, <1>b DEF NextBar, JobInv, LoopInv, LedgerInv, StopInv, DoneInv
  <2>3. CASE body[j].idx # Bars
    <3>1. body[j].idx < Bars /\ body'[j].at = "unpause"
      BY <2>1, <2>3, <1>b DEF NextBar
    <3> QED  BY <2>1, <3>1, <1>b DEF JobInv, LoopInv, LedgerInv, StopInv, DoneInv
  <2> QED  BY <2>2, <2>3
<1>11. CASE BodyFinalizes(j) \/ BodyExcept(j)
  <2>1. /\ UNCHANGED <<lost, late>> /\ body'[j].at \in {"report", "final"}
        /\ row'[j].bars = row[j].bars /\ row'[j].ledger = row[j].ledger
        /\ row'[j].stop = row[j].stop
        /\ row'[j].status = "completed" => body[j].at = "finish"
        /\ body[j].at # "checkpoint"
    BY <1>11, <1>a DEF BodyFinalizes, BodyExcept, Outcome, SetStatus, Goes, Quiet,
                       history, Runs, At, Bodies, Places, Rows
  <2> QED  BY <2>1, <1>b DEF JobInv, LoopInv, LedgerInv, StopInv, DoneInv
<1>12. CASE BodyRaises(j)
  <2>1. /\ row' = row /\ late' = late /\ body'[j].at = "except"
        /\ lost'[j] = IF body[j].at = "checkpoint" THEN lost[j] + 1 ELSE lost[j]
    BY <1>12, <1>a DEF BodyRaises, Goes, Bodies, Places
  <2> QED  BY <2>1, <1>b DEF JobInv, LoopInv, LedgerInv, StopInv, DoneInv
<1>13. CASE BodyExceptFails(j)
  <2>1. /\ row' = row /\ UNCHANGED <<lost, late>> /\ body[j].at # "checkpoint"
        /\ body'[j].at = "final"
    BY <1>13, <1>a DEF BodyExceptFails, Goes, history, At, Bodies, Places
  <2> QED  BY <1>1, <2>1
<1>14. CASE BodyDrains(j)
  <2>1. /\ row' = row /\ UNCHANGED <<lost, late>> /\ body[j].at # "checkpoint"
        /\ body'[j].at = "none"
    BY <1>14, <1>a DEF BodyDrains, NoBody, Quiet, history, At, Bodies, Places
  <2> QED  BY <1>1, <2>1
<1>15. CASE BodyCancelled(j)
  <2>1. /\ late' = late /\ body'[j].at = "drain"
        /\ lost'[j] = IF body[j].at = "checkpoint" THEN lost[j] + 1 ELSE lost[j]
    BY <1>15, <1>a DEF BodyCancelled, Unsaved, Goes, Bodies, Places
  <2>2. /\ row'[j].bars = row[j].bars /\ row'[j].ledger = row[j].ledger
        /\ row'[j].stop = row[j].stop
        /\ row'[j].status = "completed" => row[j].status = "completed"
    BY <1>15, <1>a DEF BodyCancelled, SetStatus, Rows
  <2> QED  BY <2>1, <2>2, <1>b DEF JobInv, LoopInv, LedgerInv, StopInv, DoneInv
<1> QED  BY <1>2, <1>3, <1>4, <1>5, <1>6, <1>7, <1>8, <1>9, <1>10, <1>11, <1>12,
            <1>13, <1>14, <1>15 DEF BodyStep

\* A step of one body does not touch the account of another job.
LEMMA OtherJobInv ==
  ASSUME TypeOK, NEW j \in Jobs, BodyStep(j) \/ BodyRaises(j),
         NEW k \in Jobs, k # j, JobInv(k)
  PROVE  JobInv(k)'
<1>a. /\ row \in [Jobs -> Rows] /\ body \in [Jobs -> Bodies]
      /\ lost \in [Jobs -> Nat] /\ late \in [Jobs -> Nat]
  BY DEF TypeOK
<1>1. row'[k] = row[k]
  BY <1>a DEF BodyRaises, BodyStep, BodyLoads, BodyHasNoBars, BodyUnpaused, BodyGate,
         BodySeesStop, BodyBar, BodyProgress, BodyCheckpoint, BodyMarksPaused,
         BodyTellsPauser, BodyFinalizes, BodyReports, BodyExcept, BodyExceptFails,
         BodyFinal, BodyDrains, BodyCancelled, SetStatus
<1>2. body'[k] = body[k]
  BY <1>a DEF BodyRaises, BodyStep, BodyLoads, BodyHasNoBars, BodyUnpaused, BodyGate,
         BodySeesStop, BodyBar, BodyProgress, BodyCheckpoint, BodyMarksPaused,
         BodyTellsPauser, BodyFinalizes, BodyReports, BodyExcept, BodyExceptFails,
         BodyFinal, BodyDrains, BodyCancelled, Goes
<1>3. lost'[k] = lost[k] /\ late'[k] = late[k]
  BY <1>a DEF BodyRaises, BodyStep, BodyLoads, BodyHasNoBars, BodyUnpaused, BodyGate,
         BodySeesStop, BodyBar, BodyProgress, BodyCheckpoint, BodyMarksPaused,
         BodyTellsPauser, BodyFinalizes, BodyReports, BodyExcept, BodyExceptFails,
         BodyFinal, BodyDrains, BodyCancelled, Quiet, history
<1> QED  BY <1>1, <1>2, <1>3, JobKept

\* A death counts the bar whose ledger it lost.
LEMMA DeathJobInv ==
  ASSUME TypeOK, DownInv, NEW k \in Jobs, JobInv(k), Crash \/ Close \/ Exit \/ Restart
  PROVE  JobInv(k)'
<1>a. /\ row[k].bars \in Nat /\ row[k].ledger \in Nat /\ lost[k] \in Nat
      /\ body \in [Jobs -> Bodies]
  BY DEF TypeOK, Rows
<1>1. row' = row /\ late' = late
  BY DEF Crash, Close, Exit, Restart, MemoryGone, history
<1>2. CASE Crash
  <2>1. /\ body'[k].at = "none"
        /\ lost'[k] = IF body[k].at = "checkpoint" THEN lost[k] + 1 ELSE lost[k]
    BY <1>2 DEF Crash, MemoryGone, NoBody, Unsaved
  <2> QED  BY <1>a, <1>1, <2>1 DEF JobInv, LoopInv, LedgerInv, StopInv, DoneInv
<1>3. CASE Close
  BY <1>1, <1>3, JobKept DEF Close, history
<1>4. CASE Exit
  <2>1. body[k].at = "none" /\ body'[k].at = "none" /\ lost' = lost
    BY <1>4 DEF Exit, MemoryGone, NoBody
  <2> QED  BY <1>1, <2>1, JobKept
<1>5. CASE Restart
  <2>1. body'[k].at \in {"none", "load"} /\ lost' = lost
    BY <1>5 DEF Restart, NoBody, history
  <2>2. body[k].at = "none"
    BY <1>5 DEF Restart, DownInv
  <2> QED  BY <1>1, <2>1, <2>2, JobKept
<1> QED  BY <1>2, <1>3, <1>4, <1>5

\* The process goes down without bodies and nothing but a restart moves it then.
LEMMA NextDownInv ==
  ASSUME TypeOK, DownInv, [Next]_vars
  PROVE  DownInv'
<1>1. CASE UNCHANGED vars
  BY <1>1 DEF vars, process, DownInv
<1>2. CASE Crash \/ Exit
  BY <1>2 DEF Crash, Exit, MemoryGone, NoBody, DownInv
<1>3. CASE Close \/ Restart
  BY <1>3 DEF Close, Restart, DownInv
<1>4. ASSUME NEW j \in Jobs,
             StartCall(j) \/ StartStep(j) \/ BodyStep(j) \/ BodyRaises(j)
      PROVE  up /\ up' = up
  BY <1>4
     DEF StartCall, StartStep, StartCheck, StartCreate, StartMark, StartEnsure, Starts,
         BodyRaises, BodyStep, BodyLoads, BodyHasNoBars, BodyUnpaused, BodyGate,
         BodySeesStop, BodyBar, BodyProgress, BodyCheckpoint, BodyMarksPaused,
         BodyTellsPauser, BodyFinalizes, BodyReports, BodyExcept, BodyExceptFails,
         BodyFinal, BodyDrains, BodyCancelled, Quiet, process, Runs, At
<1>5. ASSUME NEW q \in Requests,
             \/ CallStep(q)
             \/ \E op \in {"pause", "resume", "stop"}, j \in Jobs : Ask(q, op, j)
      PROVE  up /\ up' = up
  BY <1>5 DEF Ask, CallStep, ReadRow, PauseGuard, PauseMarks, PauseWoken, ResumeMarks,
              ResumeEnsures, StopSets, StopWakes, StopFinalizes, AtCall, Calm, process
<1> QED  BY <1>1, <1>2, <1>3, <1>4, <1>5 DEF Next, DownInv

-----------------------------------------------------------------------------
(* The bars that end on a paused row.                                      *)

\* A step that counts no bar keeps the account of the pauses when it stores no
\* pause and lets a body past its look only on a row that is not paused, or begins
\* a new count with the pause it stores.
LEMMA PauseKept ==
  ASSUME NEW j \in Jobs, TypeOK, PauseInv(j),
         \/ /\ slip'[j] = slip[j]
            /\ row'[j].status = "paused" => row[j].status = "paused"
         \/ slip'[j] = IF row[j].status # "paused" /\ row'[j].status = "paused" THEN 0
                       ELSE slip[j],
         \/ body'[j].at = body[j].at
         \/ body'[j].at \notin {"gate", "bar"}
         \/ body[j].at = "gate"
         \/ row'[j].status # "paused"
  PROVE  PauseInv(j)'
<1>1. slip[j] \in Nat
  BY DEF TypeOK
<1> QED  BY <1>1 DEF PauseInv

\* The calls of people, and the starts.
LEMMA PeoplePauseInv ==
  ASSUME TypeOK, CallInv, NEW k \in Jobs, PauseInv(k),
         \/ \E j \in Jobs : StartCall(j) \/ StartStep(j)
         \/ \E q \in Requests : CallStep(q)
         \/ \E q \in Requests, op \in {"pause", "resume", "stop"}, j \in Jobs :
              Ask(q, op, j)
  PROVE  PauseInv(k)'
<1>a. /\ row \in [Jobs -> Rows] /\ body \in [Jobs -> Bodies]
      /\ slip \in [Jobs -> Nat]
  BY DEF TypeOK
<1>1. \/ slip' = slip /\ row' = row
      \/ slip' = slip /\ \E j \in Jobs, s \in {"pending", "running", "stopped"} :
                           SetStatus(j, s)
      \/ slip' = slip /\ \E j \in Jobs : row' = [row EXCEPT ![j].stop = TRUE]
      \/ \E j \in Jobs : SetStatus(j, "paused") /\ CountsAnew(j)
  BY DEF StartCall, StartStep, StartCheck, StartCreate, StartMark, StartEnsure, Starts,
         Ask, CallStep, ReadRow, PauseGuard, PauseMarks, PauseWoken, ResumeMarks,
         ResumeEnsures, StopSets, StopWakes, StopFinalizes, CallInv, AtCall, history
<1>2. \/ /\ slip'[k] = slip[k]
         /\ row'[k].status = "paused" => row[k].status = "paused"
      \/ slip'[k] = IF row[k].status # "paused" /\ row'[k].status = "paused" THEN 0
                    ELSE slip[k]
  <2>1. CASE slip' = slip
    BY <1>1, <2>1, <1>a DEF SetStatus, CountsAnew, Rows
  <2>2. ASSUME NEW j \in Jobs, SetStatus(j, "paused"), CountsAnew(j)
        PROVE  slip'[k] = IF row[k].status # "paused" /\ row'[k].status = "paused" THEN 0
                          ELSE slip[k]
    BY <2>2, <1>a DEF SetStatus, CountsAnew, Rows
  <2> QED  BY <1>1, <2>1, <2>2
<1>3. body' = body \/ \E j \in Jobs : EnsureBody(j)
  BY DEF StartCall, StartStep, StartCheck, StartCreate, StartMark, StartEnsure,
         Ask, CallStep, ReadRow, PauseGuard, PauseMarks, PauseWoken, ResumeMarks,
         ResumeEnsures, StopSets, StopWakes, StopFinalizes, CallInv, AtCall
<1>4. body'[k].at = body[k].at \/ body'[k].at = "load"
  BY <1>a, <1>3 DEF EnsureBody, Bodies, Places
<1> QED  BY <1>2, <1>4, PauseKept

\* A body counts the bar that ends on a paused row, and runs no other one there.
LEMMA BodyPauseInv ==
  ASSUME TypeOK, NEW j \in Jobs, BodyStep(j) \/ BodyRaises(j),
         NEW k \in Jobs, PauseInv(k)
  PROVE  PauseInv(k)'
<1>a. /\ row \in [Jobs -> Rows] /\ body \in [Jobs -> Bodies]
      /\ slip \in [Jobs -> Nat]
  BY DEF TypeOK
<1>1. ASSUME NEW bad \in BOOLEAN, BodyBar(j, bad)  PROVE PauseInv(k)'
  <2>1. /\ row' = row /\ body[j].at = "bar" /\ body'[j].at = "progress"
        /\ k # j => body'[k] = body[k]
        /\ slip'[k] = IF k = j /\ row[j].status = "paused" THEN slip[k] + 1 ELSE slip[k]
    BY <1>1, <1>a DEF BodyBar, Runs, At, Bodies, Places
  <2>2. slip[k] \in Nat
    BY <1>a
  <2> QED  BY <2>1, <2>2 DEF PauseInv
<1>2. CASE BodyMarksPaused(j) \/ BodyCancelled(j)
  <2>1. /\ slip' = [slip EXCEPT ![j] =
                  IF row[j].status # "paused" /\ row'[j].status = "paused" THEN 0 ELSE @]
        /\ k # j => row'[k] = row[k]
    BY <1>2, <1>a DEF BodyMarksPaused, BodyCancelled, CountsAnew, SetStatus
  <2>2. k # j \/ body'[k].at \in {"event", "drain"}
    BY <1>2, <1>a DEF BodyMarksPaused, BodyCancelled, Goes, Bodies, Places
  <2>3. k = j \/ body'[k] = body[k]
    BY <1>2, <1>a DEF BodyMarksPaused, BodyCancelled, Goes
  <2>4. slip'[k] = IF row[k].status # "paused" /\ row'[k].status = "paused" THEN 0
                   ELSE slip[k]
    BY <2>1, <1>a
  <2> QED  BY <2>2, <2>3, <2>4, PauseKept
<1>3. CASE BodyUnpaused(j) \/ BodyGate(j)
  <2>1. /\ row' = row /\ slip' = slip /\ (k # j => body'[k] = body[k])
        /\ body[j].at = "gate" \/ row[j].status # "paused"
    BY <1>3, <1>a DEF BodyUnpaused, BodyGate, PauseSeen, Goes, Quiet, history, Runs, At
  <2> QED  BY <2>1, PauseKept
<1>4. CASE \/ BodyLoads(j) \/ BodyHasNoBars(j) \/ BodySeesStop(j) \/ BodyProgress(j)
           \/ BodyCheckpoint(j) \/ BodyTellsPauser(j) \/ BodyFinalizes(j)
           \/ BodyReports(j) \/ BodyExcept(j) \/ BodyExceptFails(j) \/ BodyFinal(j)
           \/ BodyDrains(j) \/ BodyRaises(j)
  <2>1. slip' = slip
    BY <1>4
       DEF BodyRaises, BodyLoads, BodyHasNoBars, BodySeesStop, BodyProgress,
           BodyCheckpoint, BodyTellsPauser, BodyFinalizes, BodyReports, BodyExcept,
           BodyExceptFails, BodyFinal, BodyDrains, Quiet, history
  <2>2. row'[k].status = "paused" => row[k].status = "paused"
    BY <1>4, <1>a
       DEF BodyRaises, BodyLoads, BodyHasNoBars, BodySeesStop, BodyProgress,
           BodyCheckpoint, BodyTellsPauser, BodyFinalizes, BodyReports, BodyExcept,
           BodyExceptFails, BodyFinal, BodyDrains, SetStatus, Outcome, Rows
  <2>3. body'[k] = body[k] \/ body'[k].at \notin {"gate", "bar"}
    BY <1>4, <1>a
       DEF BodyRaises, BodyLoads, BodyHasNoBars, BodySeesStop, BodyProgress,
           BodyCheckpoint, BodyTellsPauser, BodyFinalizes, BodyReports, BodyExcept,
           BodyExceptFails, BodyFinal, BodyDrains, Goes, NextBar, NoBody, Bodies, Places
  <2> QED  BY <2>1, <2>2, <2>3, PauseKept
<1> QED  BY <1>1, <1>2, <1>3, <1>4 DEF BodyStep

\* Every step keeps the account of the pauses of every job.
LEMMA NextPauseInv ==
  ASSUME IInv, [Next]_vars, NEW k \in Jobs
  PROVE  PauseInv(k)'
<1>a. TypeOK /\ CallInv /\ PauseInv(k)
  BY DEF IInv
<1>1. CASE UNCHANGED vars
  BY <1>1, <1>a, PauseKept DEF vars, history
<1>2. CASE \/ \E j \in Jobs : StartCall(j) \/ StartStep(j)
           \/ \E q \in Requests : CallStep(q)
           \/ \E q \in Requests, op \in {"pause", "resume", "stop"}, j \in Jobs :
                Ask(q, op, j)
  BY <1>2, <1>a, PeoplePauseInv
<1>3. ASSUME NEW j \in Jobs, BodyStep(j) \/ BodyRaises(j)
      PROVE  PauseInv(k)'
  BY <1>3, <1>a, BodyPauseInv
<1>4. CASE Crash \/ Close \/ Exit \/ Restart
  <2>1. row' = row /\ slip' = slip
    BY <1>4 DEF Crash, Close, Exit, Restart, MemoryGone, history
  <2>2. body'[k].at = body[k].at \/ body'[k].at \in {"none", "load"}
    BY <1>4 DEF Crash, Close, Exit, Restart, MemoryGone, NoBody
  <2> QED  BY <1>a, <2>1, <2>2, PauseKept
<1> QED  BY <1>1, <1>2, <1>3, <1>4 DEF Next

-----------------------------------------------------------------------------
(* The theorems.                                                           *)

\* No job has a run at first.
LEMMA InitIInv == Init => IInv
<1> SUFFICES ASSUME Init  PROVE IInv
  OBVIOUS
<1>1. TypeOK
  BY InitType
<1>2. CallInv /\ DownInv
  BY DEF Init, CallInv, DownInv, NoCall
<1>3. ASSUME NEW j \in Jobs  PROVE JobInv(j) /\ PauseInv(j)
  BY BacktestAssumption
     DEF Init, NoRow, NoBody, JobInv, LoopInv, LedgerInv, StopInv, DoneInv, PauseInv
<1> QED  BY <1>1, <1>2, <1>3 DEF IInv

\* Every step keeps the account of every job.
LEMMA NextJobInv ==
  ASSUME IInv, [Next]_vars, NEW k \in Jobs
  PROVE  JobInv(k)'
<1>a. TypeOK /\ CallInv /\ DownInv /\ JobInv(k) /\ \A j \in Jobs : JobInv(j)
  BY DEF IInv
<1>1. CASE UNCHANGED vars
  BY <1>1, <1>a, JobKept DEF vars, history
<1>2. CASE \/ \E j \in Jobs : StartCall(j) \/ StartStep(j)
           \/ \E q \in Requests : CallStep(q)
           \/ \E q \in Requests, op \in {"pause", "resume", "stop"}, j \in Jobs :
                Ask(q, op, j)
  BY <1>2, <1>a, PeopleJobInv
<1>3. ASSUME NEW j \in Jobs, BodyStep(j) \/ BodyRaises(j)
      PROVE  JobInv(k)'
  BY <1>3, <1>a, BodyJobInv, OtherJobInv
<1>4. CASE Crash \/ Close \/ Exit \/ Restart
  BY <1>4, <1>a, DeathJobInv
<1> QED  BY <1>1, <1>2, <1>3, <1>4 DEF Next

\* The invariant of the backtest jobs: what the row, the loop and the ledgers say
\* of each other.  (_run_backtest_job_body)
THEOREM Inductive == Spec => []IInv
<1>1. Init => IInv
  BY InitIInv
<1>2. IInv /\ [Next]_vars => IInv'
  <2> SUFFICES ASSUME IInv, [Next]_vars  PROVE IInv'
    OBVIOUS
  <2>1. TypeOK' /\ CallInv' /\ DownInv'
    BY NextType, NextCallInv, NextDownInv DEF IInv
  <2>2. \A j \in Jobs : JobInv(j)' /\ PauseInv(j)'
    BY NextJobInv, NextPauseInv DEF IInv
  <2> QED  BY <2>1, <2>2 DEF IInv
<1> QED  BY <1>1, <1>2, PTL DEF Spec

\* Every variable of the backtest jobs keeps its type; a bar index never leaves the
\* range of the bars.
THEOREM TypeCorrect == Spec => []TypeOK
<1>1. IInv => TypeOK
  BY DEF IInv
<1> QED  BY <1>1, Inductive, PTL

\* The stored ledger has every bar the row counts, but one for each death between
\* the two writes.  (set_progress, save_ledger_checkpoint)
THEOREM LedgersAreAccounted == Spec => []LedgerAccounted
<1>1. IInv => LedgerAccounted
  BY DEF IInv, JobInv, LedgerInv, LedgerAccounted
<1> QED  BY <1>1, Inductive, PTL

\* No job completes before all its bars ran.  (finalize_success)
THEOREM CompletedJobsAreComplete == Spec => []CompletedIsComplete
<1>1. IInv => CompletedIsComplete
  BY DEF IInv, JobInv, DoneInv, CompletedIsComplete
<1> QED  BY <1>1, Inductive, PTL

\* At most the bar under way ends after a stop is stored.  (the looks at
\* stop_requested before each bar)
THEOREM StopsArePrompt == Spec => []StopIsPrompt
<1>1. IInv => StopIsPrompt
  BY DEF IInv, JobInv, StopInv, StopIsPrompt
<1> QED  BY <1>1, Inductive, PTL

\* At most the bar under way ends while the row says paused, whatever bodies come
\* and go.  (_await_backtest_outer_unpause)
THEOREM PausesArePrompt == Spec => []PauseIsPrompt
<1>1. IInv => PauseIsPrompt
  BY DEF IInv, PauseInv, PauseIsPrompt
<1> QED  BY <1>1, Inductive, PTL

-----------------------------------------------------------------------------
(* The bars of a backtest, like the cycles of a paper task, are cycles of a
   worker.  The rest of this module proves that WorkerCycles keeps to
   WorkerPromise, for any symbols, signals, prices, budgets and faults.

   The inductive invariant (WorkerInv) says that the account is one of the
   day, or of an earlier one, and holds what is available and what was bought
   that day besides (DaysInv), where the stored one stands (PlaceInv), that
   the orders left can be filled from it (OrdersInv), that a halted cycle has
   none to buy (HaltInv) and that those left to buy together fit the cash and
   the budget (BudgetInv).                                                   *)

CONSTANTS
  Openings, OpeningCash, Signals, Markets, Leftovers, Slots, MaxSlips

VARIABLES
  kind, opening, peak, saved, slips

Worker == INSTANCE WorkerCycles WITH faults <- slips, MaxFaults <- MaxSlips

-----------------------------------------------------------------------------
(* Numbers and sums.                                                       *)

\* A set of numbers that is not empty has a least one.
LEMMA Least ==
  ASSUME NEW S, S \subseteq Nat, S # {}
  PROVE  \E x \in S : \A y \in S : x <= y
<1>1. PICK x \in S : \A y \in S : ~(<<y, x>> \in OpToRel(<, Nat))
  BY NatLessThanWellFounded, WFMin
<1>2. \A y \in S : ~(y < x)
  BY <1>1 DEF OpToRel
<1> QED  BY <1>2

\* The minimum of a set of integers with a lower bound is its least element.
LEMMA MinIs ==
  ASSUME NEW S, S \subseteq Int, S # {}, NEW b \in Int, \A x \in S : b <= x
  PROVE  Worker!Min(S) \in S /\ \A x \in S : Worker!Min(S) <= x
<1> DEFINE D == {x - b : x \in S}
<1>1. D \subseteq Nat
  <2>1. ASSUME NEW x \in S  PROVE x - b \in Nat
    OBVIOUS
  <2> QED  BY <2>1
<1>2. D # {}
  OBVIOUS
<1>3. PICK d \in D : \A e \in D : d <= e
  BY <1>1, <1>2, Least
<1>4. PICK x \in S : d = x - b
  OBVIOUS
<1>5. \A y \in S : x <= y
  BY <1>3, <1>4
<1> QED  BY <1>5 DEF Worker!Min

\* The lesser and the greater of two integers.
LEMMA OfTwo ==
  ASSUME NEW x \in Int, NEW y \in Int
  PROVE  /\ Worker!Min({x, y}) = IF x <= y THEN x ELSE y
         /\ Worker!Max({x, y}) = IF x >= y THEN x ELSE y
<1>1. Worker!Min({x, y}) = IF x <= y THEN x ELSE y
  BY DEF Worker!Min
<1>2. Worker!Max({x, y}) = IF x >= y THEN x ELSE y
  BY DEF Worker!Max
<1> QED  BY <1>1, <1>2

\* The greater of zero and an integer.
LEMMA NotBelowZero ==
  ASSUME NEW x \in Int
  PROVE  Worker!Max({0, x}) = IF 0 >= x THEN 0 ELSE x
BY DEF Worker!Max

\* A quotient is the greatest number that times the divisor fits.
LEMMA Quotient ==
  ASSUME NEW x \in Int, NEW d \in Nat \ {0}
  PROVE  /\ x \div d \in Int /\ d * (x \div d) <= x
         /\ x >= 0 => x \div d >= 0
         /\ x >= 0 => x \div d <= x
  BY Z3

\* The partial sums of f over the sets of at most n elements, as the fold takes
\* them, and over all sets.
Small(f, n) == {s \in SUBSET DOMAIN f : Cardinality(s) <= n}

SumsTo(f, n, g) ==
  g = [s \in Small(f, n) |->
         IF s = {} THEN 0 ELSE f[CHOOSE x \in s : TRUE] + g[s \ {CHOOSE x \in s : TRUE}]]

Sums(f, g) ==
  g = [s \in SUBSET DOMAIN f |->
         IF s = {} THEN 0 ELSE f[CHOOSE x \in s : TRUE] + g[s \ {CHOOSE x \in s : TRUE}]]

\* The recursion of the sums is well defined for a finite domain.
LEMMA SumsExist ==
  ASSUME NEW f, IsFiniteSet(DOMAIN f)
  PROVE  \E g : Sums(f, g)
<1> DEFINE Bad == {n \in Nat : ~\E g : SumsTo(f, n, g)}
<1>1. \A s \in SUBSET DOMAIN f : IsFiniteSet(s) /\ Cardinality(s) \in Nat
  BY FS_Subset, FS_CardinalityType
<1>2. ASSUME Bad # {}  PROVE FALSE
  <2>1. PICK n \in Bad : \A m \in Bad : n <= m
    BY <1>2, Least
  <2>2. CASE n = 0
    <3>1. \A s \in Small(f, 0) : s = {}
      BY <1>1, FS_EmptySet DEF Small
    <3>2. SumsTo(f, 0, [s \in Small(f, 0) |-> 0])
      BY <3>1 DEF SumsTo
    <3> QED  BY <2>1, <2>2, <3>2
  <2>3. CASE n # 0
    <3>1. n - 1 \in Nat /\ n - 1 \notin Bad
      BY <2>1, <2>3
    <3>2. PICK g : SumsTo(f, n - 1, g)
      BY <3>1
    <3> DEFINE h == [s \in Small(f, n) |-> IF s = {} THEN 0
                       ELSE f[CHOOSE x \in s : TRUE] + g[s \ {CHOOSE x \in s : TRUE}]]
    <3>3. ASSUME NEW s \in Small(f, n), s # {}
          PROVE  h[s \ {CHOOSE x \in s : TRUE}] = g[s \ {CHOOSE x \in s : TRUE}]
      <4> DEFINE t == s \ {CHOOSE x \in s : TRUE}
      <4>1. (CHOOSE x \in s : TRUE) \in s
        BY <3>3
      <4>2. Cardinality(t) = Cardinality(s) - 1
        BY <1>1, <4>1, FS_RemoveElement DEF Small
      <4>3. t \in Small(f, n - 1) /\ t \in Small(f, n)
        BY <1>1, <4>2, <3>1 DEF Small
      <4> HIDE DEF t
      <4>4. h[t] = IF t = {} THEN 0 ELSE f[CHOOSE x \in t : TRUE] + g[t \ {CHOOSE x \in t : TRUE}]
        BY <4>3
      <4>5. g[t] = IF t = {} THEN 0 ELSE f[CHOOSE x \in t : TRUE] + g[t \ {CHOOSE x \in t : TRUE}]
        BY <4>3, <3>2 DEF SumsTo
      <4> QED  BY <4>4, <4>5 DEF t
    <3>4. /\ h = [s \in Small(f, n) |-> h[s]]
          /\ \A s \in Small(f, n) :
               h[s] = IF s = {} THEN 0
                      ELSE f[CHOOSE x \in s : TRUE] + g[s \ {CHOOSE x \in s : TRUE}]
      OBVIOUS
    <3> HIDE DEF h
    <3>5. ASSUME NEW s \in Small(f, n)
          PROVE  h[s] = IF s = {} THEN 0
                        ELSE f[CHOOSE x \in s : TRUE] + h[s \ {CHOOSE x \in s : TRUE}]
      BY <3>3, <3>4
    <3>6. SumsTo(f, n, h)
      BY <3>4, <3>5 DEF SumsTo
    <3> QED  BY <2>1, <3>6
  <2> QED  BY <2>1, <2>2, <2>3
<1>3. PICK g : SumsTo(f, Cardinality(DOMAIN f), g)
  BY <1>1, <1>2
<1>4. Small(f, Cardinality(DOMAIN f)) = SUBSET DOMAIN f
  BY FS_Subset DEF Small
<1> QED  BY <1>3, <1>4 DEF Sums, SumsTo

\* The sum of f is the last of its partial sums.
LEMMA SumIs ==
  ASSUME NEW f, IsFiniteSet(DOMAIN f)
  PROVE  \E g : Sums(f, g) /\ Worker!SumFunction(f) = g[DOMAIN f]
<1>1. Sums(f, CHOOSE g : Sums(f, g))
  BY SumsExist
<1>2. Worker!SumFunction(f) = (CHOOSE g : Sums(f, g))[DOMAIN f]
  BY DEF Sums, Worker!SumFunction, Worker!SumFunctionOnSet, Worker!FoldFunctionOnSet,
         Worker!MapThenFoldSet
<1> QED  BY <1>1, <1>2

Splits(S, f, g) ==
  \A s \in SUBSET S : g[s] \in Int /\ \A x \in s : g[s] = f[x] + g[s \ {x}]

\* Any element may be taken first: the sum of a set is its value and the sum of
\* the others.
LEMMA SumSplits ==
  ASSUME NEW S, IsFiniteSet(S), NEW f \in [S -> Int], NEW g, Sums(f, g)
  PROVE  Splits(S, f, g)
<1> DEFINE Holds(s) == g[s] \in Int /\ \A x \in s : g[s] = f[x] + g[s \ {x}]
           Bad == {n \in Nat : \E s \in SUBSET S : Cardinality(s) = n /\ ~Holds(s)}
<1>1. \A s \in SUBSET S :
        IsFiniteSet(s) /\ Cardinality(s) \in Nat
        /\ \A x \in s : Cardinality(s \ {x}) = Cardinality(s) - 1
  BY FS_Subset, FS_CardinalityType, FS_RemoveElement
<1>2. ASSUME Bad # {}  PROVE FALSE
  <2>1. PICK n \in Bad : \A m \in Bad : n <= m
    BY <1>2, Least
  <2>2. PICK s \in SUBSET S : Cardinality(s) = n /\ ~Holds(s)
    BY <2>1
  <2>3. ASSUME NEW t \in SUBSET S, Cardinality(t) < n  PROVE Holds(t)
    BY <1>1, <2>1, <2>3
  <2> HIDE DEF Bad, Holds
  <2>4. g[s] = IF s = {} THEN 0
               ELSE f[CHOOSE x \in s : TRUE] + g[s \ {CHOOSE x \in s : TRUE}]
    BY DOMAIN f = S DEF Sums
  <2>5. s # {}
    BY <2>2, <2>4 DEF Holds
  <2> DEFINE c == CHOOSE x \in s : TRUE
  <2>6. c \in s /\ f[c] \in Int /\ g[s] = f[c] + g[s \ {c}]
    BY <2>4, <2>5
  <2> HIDE DEF c
  <2>7. ASSUME NEW x \in s
        PROVE  f[x] \in Int /\ Holds(s \ {x}) /\ \A y \in s \ {x} : Holds((s \ {x}) \ {y})
    <3>1. s \ {x} \in SUBSET S /\ Cardinality(s \ {x}) < n
      BY <1>1, <2>2
    <3>2. ASSUME NEW y \in s \ {x}
          PROVE  (s \ {x}) \ {y} \in SUBSET S /\ Cardinality((s \ {x}) \ {y}) < n
      <4>1. Cardinality((s \ {x}) \ {y}) = Cardinality(s \ {x}) - 1
        BY <1>1, <3>1
      <4>2. Cardinality(s \ {x}) \in Nat /\ n \in Nat
        BY <1>1, <2>2, <3>1
      <4> QED  BY <3>1, <4>1, <4>2
    <3> QED  BY <2>3, <3>1, <3>2
  <2>8. ASSUME NEW x \in s  PROVE g[s] = f[x] + g[s \ {x}]
    <3>1. CASE x = c
      BY <2>6, <3>1
    <3>2. CASE x # c
      <4>1. g[s \ {c}] = f[x] + g[(s \ {c}) \ {x}] /\ g[s \ {x}] = f[c] + g[(s \ {x}) \ {c}]
        BY <3>2, <2>6, <2>7 DEF Holds
      <4>2. (s \ {c}) \ {x} = (s \ {x}) \ {c}
        OBVIOUS
      <4>3. g[(s \ {x}) \ {c}] \in Int /\ f[x] \in Int /\ f[c] \in Int
        BY <2>6, <2>7, <3>2 DEF Holds
      <4>4. g[(s \ {c}) \ {x}] = g[(s \ {x}) \ {c}]
        BY <4>2
      <4> QED  BY <2>6, <4>1, <4>3, <4>4
    <3> QED  BY <3>1, <3>2
  <2>9. g[s] \in Int
    <3>1. g[s \ {c}] \in Int
      BY <2>6, <2>7 DEF Holds
    <3> QED  BY <2>6, <3>1
  <2> QED  BY <2>2, <2>8, <2>9 DEF Holds
<1>3. ASSUME NEW s \in SUBSET S  PROVE Holds(s)
  BY <1>1, <1>2
<1> QED  BY <1>3 DEF Splits

\* What the sums of f tell of the sum of f: it is an integer, at least zero if the
\* values are, zero if they are zero.
LEMMA SumType ==
  ASSUME NEW S, IsFiniteSet(S), NEW f \in [S -> Int]
  PROVE  /\ Worker!SumFunction(f) \in Int
         /\ (\A x \in S : f[x] >= 0) => Worker!SumFunction(f) >= 0
         /\ (\A x \in S : f[x] = 0) => Worker!SumFunction(f) = 0
<1>1. DOMAIN f = S
  OBVIOUS
<1>2. PICK g : Sums(f, g) /\ Worker!SumFunction(f) = g[S]
  BY <1>1, SumIs
<1>3. Splits(S, f, g)
  BY <1>2, SumSplits
<1>4. g[{}] = 0
  BY <1>1, <1>2 DEF Sums
<1> DEFINE Holds(s) == /\ (\A x \in S : f[x] >= 0) => g[s] >= 0
                       /\ (\A x \in S : f[x] = 0) => g[s] = 0
           Bad == {n \in Nat : \E s \in SUBSET S : Cardinality(s) = n /\ ~Holds(s)}
<1>5. \A s \in SUBSET S :
        Cardinality(s) \in Nat /\ \A x \in s : Cardinality(s \ {x}) = Cardinality(s) - 1
  BY FS_Subset, FS_CardinalityType, FS_RemoveElement
<1>6. ASSUME Bad # {}  PROVE FALSE
  <2>1. PICK n \in Bad : \A m \in Bad : n <= m
    BY <1>6, Least
  <2>2. PICK s \in SUBSET S : Cardinality(s) = n /\ ~Holds(s)
    BY <2>1
  <2>3. PICK x \in s : TRUE
    BY <1>4, <2>2
  <2>4. s \ {x} \in SUBSET S /\ Cardinality(s \ {x}) < n
    BY <1>5, <2>2, <2>3
  <2>5. Holds(s \ {x})
    BY <1>5, <2>1, <2>4
  <2>6. g[s] = f[x] + g[s \ {x}] /\ f[x] \in Int /\ g[s \ {x}] \in Int
    BY <1>3, <2>2, <2>3, <2>4 DEF Splits
  <2> QED  BY <2>2, <2>3, <2>5, <2>6
<1>7. Holds(S)
  BY <1>5, <1>6
<1>8. g[S] \in Int
  BY <1>3 DEF Splits
<1> QED  BY <1>2, <1>7, <1>8

\* Functions that agree on the sets without x have the same sums there.
LEMMA SumsAgree ==
  ASSUME NEW S, IsFiniteSet(S), NEW f \in [S -> Int], NEW h \in [S -> Int],
         NEW x, \A y \in S \ {x} : f[y] = h[y],
         NEW g, Sums(f, g), NEW k, Sums(h, k)
  PROVE  \A s \in SUBSET (S \ {x}) : g[s] = k[s]
<1> DEFINE Bad == {n \in Nat : \E s \in SUBSET (S \ {x}) : Cardinality(s) = n /\ g[s] # k[s]}
<1>1. \A s \in SUBSET (S \ {x}) :
        Cardinality(s) \in Nat /\ \A y \in s : Cardinality(s \ {y}) = Cardinality(s) - 1
  BY FS_Subset, FS_CardinalityType, FS_RemoveElement
<1>2. ASSUME Bad # {}  PROVE FALSE
  <2>1. PICK n \in Bad : \A m \in Bad : n <= m
    BY <1>2, Least
  <2>2. PICK s \in SUBSET (S \ {x}) : Cardinality(s) = n /\ g[s] # k[s]
    BY <2>1
  <2> DEFINE c == CHOOSE y \in s : TRUE
  <2>3. /\ g[s] = IF s = {} THEN 0 ELSE f[c] + g[s \ {c}]
        /\ k[s] = IF s = {} THEN 0 ELSE h[c] + k[s \ {c}]
    BY <2>2 DEF Sums
  <2>4. s # {} /\ c \in s
    BY <2>2, <2>3
  <2> HIDE DEF c
  <2>5. s \ {c} \in SUBSET (S \ {x}) /\ Cardinality(s \ {c}) < n
    BY <1>1, <2>2, <2>4
  <2>6. g[s \ {c}] = k[s \ {c}]
    BY <1>1, <2>1, <2>5
  <2> QED  BY <2>2, <2>3, <2>4, <2>6
<1> QED  BY <1>1, <1>2

\* A new value of one argument moves the sum by the difference.
LEMMA SumUpdate ==
  ASSUME NEW S, IsFiniteSet(S), NEW f \in [S -> Int], NEW h \in [S -> Int], NEW x \in S,
         \A y \in S \ {x} : f[y] = h[y]
  PROVE  Worker!SumFunction(h) = Worker!SumFunction(f) - f[x] + h[x]
<1>1. DOMAIN f = S /\ DOMAIN h = S
  OBVIOUS
<1>2. PICK g : Sums(f, g) /\ Worker!SumFunction(f) = g[S]
  BY <1>1, SumIs
<1>3. PICK k : Sums(h, k) /\ Worker!SumFunction(h) = k[S]
  BY <1>1, SumIs
<1>4. g[S] = f[x] + g[S \ {x}] /\ g[S \ {x}] \in Int
  <2>1. Splits(S, f, g)
    BY <1>2, SumSplits
  <2> QED  BY <2>1 DEF Splits
<1>5. k[S] = h[x] + k[S \ {x}]
  <2>1. Splits(S, h, k)
    BY <1>3, SumSplits
  <2> QED  BY <2>1 DEF Splits
<1>6. g[S \ {x}] = k[S \ {x}]
  BY <1>2, <1>3, SumsAgree
<1>7. f[x] \in Int /\ h[x] \in Int
  OBVIOUS
<1> QED  BY <1>2, <1>3, <1>4, <1>5, <1>6, <1>7

-----------------------------------------------------------------------------
(* What the sizing of one symbol returns.                                  *)

WorkerConstants ==
  Worker!WorkerAssumption /\ Worker!FeeAssumption /\ Worker!SizingAssumption

\* Whole lots are no more than the shares they are of.
LEMMA LotsIs ==
  ASSUME WorkerConstants, NEW n \in Int
  PROVE  Worker!Lots(n) \in Int /\ Worker!Lots(n) <= n /\ (n >= 0 => Worker!Lots(n) >= 0)
<1>1. Lot \in Nat \ {0}
  BY DEF WorkerConstants, Worker!SizingAssumption
<1>2. n \div Lot \in Int /\ Lot * (n \div Lot) <= n /\ (n >= 0 => n \div Lot >= 0)
  BY <1>1, Quotient
<1>3. n >= 0 => Lot * (n \div Lot) >= 0
  BY <1>1, <1>2
<1> QED  BY <1>1, <1>2, <1>3 DEF Worker!Lots

\* What is bought fits the cash and the budget left.
LEMMA AffordsIs ==
  ASSUME WorkerConstants, NEW purse, purse.cash \in Int, purse.room \subseteq Nat,
         NEW desired \in Int, NEW price \in Nat \ {0}
  PROVE  LET n == Worker!Affords(purse, desired, price)
         IN  /\ n \in Nat
             /\ n > 0 => price * n <= purse.cash /\ \A r \in purse.room : price * n <= r
<1> DEFINE S == {desired, purse.cash} \cup OrderCaps \cup purse.room
           low == IF desired <= purse.cash THEN IF desired <= 0 THEN desired ELSE 0
                  ELSE IF purse.cash <= 0 THEN purse.cash ELSE 0
           budget == Worker!Min(S)
<1>1. OrderCaps \subseteq Nat
  BY DEF WorkerConstants, Worker!SizingAssumption
<1>2. low \in Int /\ low <= desired /\ low <= purse.cash /\ low <= 0
  OBVIOUS
<1> HIDE DEF low
<1>3. S \subseteq Int /\ S # {} /\ \A x \in S : low <= x
  <2>1. \A x \in S : x = desired \/ x = purse.cash \/ x \in Nat
    BY <1>1
  <2>2. ASSUME NEW x \in S  PROVE x \in Int /\ low <= x
    BY <1>2, <2>1
  <2> QED  BY <2>2
<1>4. budget \in S /\ \A x \in S : budget <= x
  BY <1>2, <1>3, MinIs
<1>5. budget \in Int /\ budget <= purse.cash /\ \A r \in purse.room : budget <= r
  BY <1>3, <1>4
<1>6. Worker!Affords(purse, desired, price) = IF budget <= 0 THEN 0 ELSE budget \div price
  BY DEF Worker!Affords
<1> HIDE DEF budget
<1>7. budget \div price \in Int /\ price * (budget \div price) <= budget
      /\ (budget >= 0 => budget \div price >= 0)
  BY <1>5, Quotient
<1> DEFINE n == Worker!Affords(purse, desired, price)
<1>8. n \in Nat /\ (n > 0 => n = budget \div price)
  BY <1>5, <1>6, <1>7
<1> HIDE DEF n
<1>9. ASSUME n > 0  PROVE price * n <= budget
  BY <1>7, <1>8, <1>9
<1>10. ASSUME n > 0  PROVE price * n <= purse.cash /\ \A r \in purse.room : price * n <= r
  <2>1. price * n \in Int
    BY <1>8
  <2> QED  BY <1>5, <1>9, <1>10, <2>1
<1> QED  BY <1>8, <1>10 DEF n

\* What may be sold is held, and available where that is stated.
LEMMA SellableIs ==
  ASSUME WorkerConstants, NEW l \in Worker!Ledgers, NEW s \in Symbols
  PROVE  LET n == Worker!Sellable(l, s)
         IN  n \in Nat /\ n <= l.qty[s] /\ (l.avail[s] # Unstated => n <= l.avail[s])
<1>1. l.qty[s] \in Nat /\ l.avail[s] \in Nat \cup {Unstated}
  BY DEF Worker!Ledgers
<1>2. CASE l.avail[s] = Unstated
  BY <1>1, <1>2 DEF Worker!Sellable
<1>3. CASE l.avail[s] # Unstated
  <2>1. Worker!Sellable(l, s) = IF l.avail[s] <= l.qty[s] THEN l.avail[s] ELSE l.qty[s]
    BY <1>1, <1>3, OfTwo DEF Worker!Sellable
  <2> QED  BY <1>1, <1>3, <2>1
<1> QED  BY <1>2, <1>3

\* The cap of one name and the aim of a target are integers.
LEMMA AimIs ==
  ASSUME WorkerConstants, NEW signal \in Worker!Asked, NEW price \in Nat \ {0},
         NEW equity \in Int
  PROVE  Worker!NameCap(equity) \in Int /\ Worker!Aim(signal, price, equity) \in Int
<1>1. Fraction \in Int /\ Ratio \in Int
  BY DEF WorkerConstants, Worker!SizingAssumption
<1>2. (equity * Fraction) \div 100 \in Int /\ (equity * Ratio) \div 100 \in Int
  BY <1>1
<1>3. Worker!NameCap(equity) \in Int
  BY <1>2, OfTwo DEF Worker!NameCap
<1>4. signal.of \in Int
  BY DEF Worker!Asked
<1>5. CASE signal.kind = "exposure"
  <2>1. (equity * signal.of) \div 100 \in Int
    BY <1>4
  <2> QED  BY <1>3, <1>5, <2>1, OfTwo DEF Worker!Aim
<1>6. CASE signal.kind # "exposure"
  <2>1. Worker!NameCap(equity) \div price \in Int
    BY <1>3, Quotient
  <2>2. Worker!Lots(signal.of) \in Int /\ Worker!Lots(Worker!NameCap(equity) \div price) \in Int
    BY <1>4, <2>1, LotsIs
  <2>3. Worker!Min({Worker!Lots(signal.of), Worker!Lots(Worker!NameCap(equity) \div price)}) \in Int
    BY <2>2, OfTwo
  <2> QED  BY <1>3, <1>6, <2>3 DEF Worker!Aim
<1> QED  BY <1>3, <1>5, <1>6

\* A share in percent of n is no more than n.
LEMMA PartOf ==
  ASSUME NEW n \in Nat, NEW p \in Nat, p <= 100
  PROVE  (n * p) \div 100 \in Nat /\ (n * p) \div 100 <= n
<1>1. n * p \in Nat
  OBVIOUS
<1>2. n * p <= n * 100
  <2>1. n * (100 - p) >= 0
    OBVIOUS
  <2>2. n * (100 - p) = n * 100 - n * p
    OBVIOUS
  <2> QED  BY <2>1, <2>2, <1>1
<1> DEFINE m == n * p
<1> HIDE DEF m
<1>3. m \div 100 \in Nat /\ m \div 100 <= n
  BY <1>1, <1>2 DEF m
<1> QED  BY <1>3 DEF m

\* What an order of n shares at this price keeps to.
Sound(n, l, s, price, purse) ==
  /\ n \in Int
  /\ n > 0 => price * n <= purse.cash /\ \A r \in purse.room : price * n <= r
  /\ n < 0 => -n <= Worker!Sellable(l, s)

\* A target buys within the cash and the budget and sells what may be sold.
LEMMA RebalanceIs ==
  ASSUME WorkerConstants, NEW l \in Worker!Ledgers, NEW s \in Symbols, NEW aim \in Int,
         NEW price \in Nat \ {0}, NEW purse, purse.cash \in Int, purse.room \subseteq Nat
  PROVE  Sound(Worker!Rebalance(l, s, aim, price, purse), l, s, price, purse)
<1> DEFINE gap    == aim - l.qty[s] * price
           shares == Worker!Max({gap, -gap}) \div price
<1>1. l.qty[s] \in Nat
  BY DEF Worker!Ledgers
<1>2. gap \in Int
  BY <1>1
<1>3. shares \in Int /\ shares >= 0
  <2>1. Worker!Max({gap, -gap}) \in Int /\ Worker!Max({gap, -gap}) >= 0
    <3> HIDE DEF gap
    <3>1. -gap \in Int
      BY <1>2
    <3>2. Worker!Max({gap, -gap}) = IF gap >= -gap THEN gap ELSE -gap
      BY <1>2, <3>1, OfTwo
    <3> QED  BY <1>2, <3>2
  <2> HIDE DEF gap
  <2> QED  BY <2>1, Quotient
<1>4. \/ Worker!Rebalance(l, s, aim, price, purse) = 0
      \/ Worker!Rebalance(l, s, aim, price, purse)
           = Worker!Lots(Worker!Affords(purse, gap, price))
      \/ Worker!Rebalance(l, s, aim, price, purse) = -Worker!Reduces(l, s, aim, shares)
  BY DEF Worker!Rebalance
<1> HIDE DEF gap, shares
<1>5. Sound(Worker!Lots(Worker!Affords(purse, gap, price)), l, s, price, purse)
  <2> DEFINE n == Worker!Affords(purse, gap, price)
             m == Worker!Lots(n)
  <2>1. n \in Nat /\ (n > 0 => price * n <= purse.cash /\ \A r \in purse.room : price * n <= r)
    BY <1>2, AffordsIs
  <2> HIDE DEF n
  <2>2. m \in Int /\ m <= n /\ m >= 0
    BY <2>1, LotsIs
  <2> HIDE DEF m
  <2>3. price * m <= price * n /\ price * m \in Int /\ price * n \in Int
    BY <2>1, <2>2
  <2>4. m > 0 => price * m <= purse.cash /\ \A r \in purse.room : price * m <= r
    BY <2>1, <2>2, <2>3
  <2>5. ~(m < 0)
    BY <2>2
  <2> QED  BY <2>2, <2>4, <2>5 DEF Sound, m, n
<1>6. Sound(-Worker!Reduces(l, s, aim, shares), l, s, price, purse)
  <2> DEFINE n == Worker!Reduces(l, s, aim, shares)
             m == IF aim <= 0 THEN l.qty[s] ELSE Worker!Lots(shares)
  <2>1. m \in Int /\ m >= 0
    BY <1>1, <1>3, LotsIs
  <2>2. n = Worker!Min({Worker!Sellable(l, s), m})
    BY DEF Worker!Reduces
  <2> HIDE DEF n, m
  <2>3. Worker!Sellable(l, s) \in Nat
    BY SellableIs
  <2>4. n \in Nat /\ n <= Worker!Sellable(l, s)
    BY <2>1, <2>2, <2>3, OfTwo
  <2>5. -n \in Int /\ ~(-n > 0) /\ -(-n) <= Worker!Sellable(l, s)
    BY <2>3, <2>4
  <2> QED  BY <2>5 DEF Sound, n
<1>7. Sound(0, l, s, price, purse)
  BY DEF Sound
<1> QED  BY <1>4, <1>5, <1>6, <1>7

\* So does every signal.
LEMMA SharesIs ==
  ASSUME WorkerConstants, NEW signal \in Worker!Asked,
         signal.kind = "exit" => signal.of <= 100,
         NEW l \in Worker!Ledgers, NEW s \in Symbols, NEW price \in Nat \ {0},
         NEW equity \in Int, NEW purse, purse.cash \in Int, purse.room \subseteq Nat
  PROVE  Sound(Worker!Shares(signal, l, s, price, equity, purse), l, s, price, purse)
<1>1. Sound(0, l, s, price, purse)
  BY DEF Sound
<1>2. CASE signal.kind = "enter"
  <2> DEFINE n == Worker!Affords(purse, Worker!NameCap(equity), price)
  <2>1. n \in Nat /\ (n > 0 => price * n <= purse.cash /\ \A r \in purse.room : price * n <= r)
    BY AimIs, AffordsIs
  <2>2. Worker!Shares(signal, l, s, price, equity, purse) = IF l.qty[s] = 0 THEN n ELSE 0
    BY <1>2 DEF Worker!Shares
  <2> HIDE DEF n
  <2>3. Sound(n, l, s, price, purse)
    BY <2>1 DEF Sound
  <2> QED  BY <1>1, <2>2, <2>3
<1>3. CASE signal.kind = "exit"
  <2> DEFINE n == (Worker!Sellable(l, s) * signal.of) \div 100
  <2>1. signal.of \in Nat /\ Worker!Sellable(l, s) \in Nat
    BY SellableIs DEF Worker!Asked
  <2>2. n \in Nat /\ n <= Worker!Sellable(l, s)
    BY <1>3, <2>1, PartOf
  <2>3. Worker!Shares(signal, l, s, price, equity, purse) = -n
    BY <1>3 DEF Worker!Shares
  <2> HIDE DEF n
  <2>4. -n \in Int /\ ~(-n > 0) /\ -(-n) <= Worker!Sellable(l, s)
    BY <2>1, <2>2
  <2> QED  BY <2>3, <2>4 DEF Sound
<1>4. CASE signal.kind \in {"exposure", "quantity"}
  <2>1. Worker!Shares(signal, l, s, price, equity, purse)
          = Worker!Rebalance(l, s, Worker!Aim(signal, price, equity), price, purse)
    BY <1>4 DEF Worker!Shares
  <2> QED  BY <2>1, AimIs, RebalanceIs
<1>5. CASE signal.kind = "none"
  BY <1>1, <1>5 DEF Worker!Shares
<1> QED  BY <1>2, <1>3, <1>4, <1>5 DEF Worker!Asked

-----------------------------------------------------------------------------
(* What a list of orders will cost.                                        *)

Distinct(orders) ==
  \A i, j \in DOMAIN orders : i # j => orders[i].sym # orders[j].sym

\* What the purchase of each symbol costs, fees aside; and all of them.
Costs(orders) ==
  [s \in Symbols |->
     IF \E i \in DOMAIN orders : orders[i].sym = s /\ Worker!Buy(orders[i])
     THEN LET i == CHOOSE i \in DOMAIN orders : orders[i].sym = s /\ Worker!Buy(orders[i])
          IN  orders[i].price * orders[i].n
     ELSE 0]

Bill(orders) == Worker!SumFunction(Costs(orders))

Notional(o) == IF Worker!Buy(o) THEN o.price * o.n ELSE 0

\* The cost of a symbol is that of its one purchase, if there is one.
LEMMA CostsAre ==
  ASSUME NEW orders \in Seq(Worker!Orders), Distinct(orders)
  PROVE  /\ Costs(orders) \in [Symbols -> Int]
         /\ \A s \in Symbols : Costs(orders)[s] >= 0
         /\ \A i \in DOMAIN orders :
              orders[i].sym \in Symbols /\ Costs(orders)[orders[i].sym] = Notional(orders[i])
         /\ \A s \in Symbols : (\A i \in DOMAIN orders : orders[i].sym # s) => Costs(orders)[s] = 0
<1>1. \A i \in DOMAIN orders : orders[i] \in Worker!Orders
  OBVIOUS
<1>2. ASSUME NEW i \in DOMAIN orders
      PROVE  /\ orders[i].sym \in Symbols /\ orders[i].n \in Int /\ orders[i].price \in Nat
             /\ Worker!Buy(orders[i]) => orders[i].price * orders[i].n \in Nat
  <2>1. orders[i].sym \in Symbols /\ orders[i].n \in Int /\ orders[i].price \in Nat
    BY <1>1 DEF Worker!Orders
  <2>2. ASSUME orders[i].n > 0  PROVE orders[i].price * orders[i].n \in Nat
    BY <2>1, <2>2
  <2> QED  BY <2>1, <2>2 DEF Worker!Buy
<1>3. ASSUME NEW s \in Symbols
      PROVE  /\ Costs(orders)[s] \in Nat
             /\ (\A i \in DOMAIN orders : orders[i].sym # s) => Costs(orders)[s] = 0
  <2> DEFINE Of(i) == orders[i].sym = s /\ Worker!Buy(orders[i])
             c == CHOOSE i \in DOMAIN orders : Of(i)
  <2>1. Costs(orders)[s] = IF \E i \in DOMAIN orders : Of(i)
                           THEN orders[c].price * orders[c].n ELSE 0
    BY DEF Costs
  <2>2. (\E i \in DOMAIN orders : Of(i)) => c \in DOMAIN orders /\ Of(c)
    OBVIOUS
  <2> HIDE DEF c
  <2> QED  BY <1>2, <2>1, <2>2
<1>4. ASSUME NEW j \in DOMAIN orders
      PROVE  Costs(orders)[orders[j].sym] = Notional(orders[j])
  <2> DEFINE s == orders[j].sym
             Of(i) == orders[i].sym = s /\ Worker!Buy(orders[i])
             c == CHOOSE i \in DOMAIN orders : Of(i)
  <2>1. Costs(orders)[s] = IF \E i \in DOMAIN orders : Of(i)
                           THEN orders[c].price * orders[c].n ELSE 0
    BY <1>2 DEF Costs
  <2>2. (\E i \in DOMAIN orders : Of(i)) => c \in DOMAIN orders /\ Of(c)
    OBVIOUS
  <2> HIDE DEF c
  <2>3. CASE Worker!Buy(orders[j])
    <3>1. c = j
      BY <2>2, <2>3 DEF Distinct
    <3> QED  BY <2>1, <2>3, <3>1 DEF Notional
  <2>4. CASE ~Worker!Buy(orders[j])
    <3>1. ~\E i \in DOMAIN orders : Of(i)
      BY <2>4 DEF Distinct
    <3> QED  BY <2>1, <2>4, <3>1 DEF Notional
  <2> QED  BY <2>3, <2>4
<1>5. Costs(orders) \in [Symbols -> Int]
  BY <1>3 DEF Costs
<1> QED  BY <1>2, <1>3, <1>4, <1>5

\* The symbols are finitely many.
LEMMA FiniteSymbols ==
  ASSUME WorkerConstants
  PROVE  IsFiniteSet(Symbols)
BY DEF WorkerConstants, Worker!FeeAssumption, Worker!IsFiniteSet, IsFiniteSet

\* The bill of orders that do not end in a purchase is at least zero.
LEMMA BillType ==
  ASSUME WorkerConstants, NEW orders \in Seq(Worker!Orders), Distinct(orders)
  PROVE  Bill(orders) \in Int /\ Bill(orders) >= 0
         /\ ((\A i \in DOMAIN orders : ~Worker!Buy(orders[i])) => Bill(orders) = 0)
<1>1. IsFiniteSet(Symbols)
  BY FiniteSymbols
<1>2. ASSUME \A i \in DOMAIN orders : ~Worker!Buy(orders[i])
      PROVE  \A s \in Symbols : Costs(orders)[s] = 0
  BY <1>2 DEF Costs
<1>3. Costs(orders) \in [Symbols -> Int] /\ \A s \in Symbols : Costs(orders)[s] >= 0
  BY CostsAre
<1> QED  BY <1>1, <1>2, <1>3, SumType DEF Bill

\* One more order of a symbol that has none adds what it costs.
LEMMA BillAppend ==
  ASSUME WorkerConstants, NEW orders \in Seq(Worker!Orders), Distinct(orders),
         NEW o \in Worker!Orders, \A i \in DOMAIN orders : orders[i].sym # o.sym
  PROVE  /\ Append(orders, o) \in Seq(Worker!Orders) /\ Distinct(Append(orders, o))
         /\ Bill(Append(orders, o)) = Bill(orders) + Notional(o)
<1> DEFINE more == Append(orders, o)
<1>1. /\ more \in Seq(Worker!Orders) /\ DOMAIN more = DOMAIN orders \cup {Len(orders) + 1}
      /\ Len(orders) + 1 \notin DOMAIN orders
      /\ more[Len(orders) + 1] = o /\ \A i \in DOMAIN orders : more[i] = orders[i]
  OBVIOUS
<1> HIDE DEF more
<1>2. Distinct(more)
  BY <1>1 DEF Distinct
<1>3. IsFiniteSet(Symbols) /\ o.sym \in Symbols
  BY FiniteSymbols DEF Worker!Orders
<1>4. Costs(orders) \in [Symbols -> Int] /\ Costs(more) \in [Symbols -> Int]
  BY <1>1, <1>2, CostsAre
<1>5. Costs(orders)[o.sym] = 0
  BY <1>3, CostsAre
<1>6. Costs(more)[o.sym] = Notional(o)
  BY <1>1, <1>2, CostsAre
<1>7. ASSUME NEW s \in Symbols \ {o.sym}  PROVE Costs(orders)[s] = Costs(more)[s]
  <2>1. CASE \E i \in DOMAIN orders : orders[i].sym = s
    <3>1. PICK i \in DOMAIN orders : orders[i].sym = s
      BY <2>1
    <3>2. Costs(orders)[s] = Notional(orders[i])
      BY <3>1, CostsAre
    <3>3. i \in DOMAIN more /\ more[i] = orders[i]
      BY <1>1, <3>1
    <3>4. Costs(more)[more[i].sym] = Notional(more[i])
      BY <1>1, <1>2, <3>3, CostsAre
    <3> QED  BY <3>1, <3>2, <3>3, <3>4
  <2>2. CASE \A i \in DOMAIN orders : orders[i].sym # s
    <3>1. \A i \in DOMAIN more : more[i].sym # s
      BY <1>1, <2>2
    <3>2. Costs(orders)[s] = 0
      BY <2>2, CostsAre
    <3>3. Costs(more)[s] = 0
      BY <1>1, <1>2, <3>1, CostsAre
    <3> QED  BY <3>2, <3>3
  <2> QED  BY <2>1, <2>2
<1>8. Bill(more) = Bill(orders) - Costs(orders)[o.sym] + Costs(more)[o.sym]
  BY <1>3, <1>4, <1>7, SumUpdate DEF Bill
<1>9. Bill(orders) \in Int
  BY BillType
<1> QED  BY <1>1, <1>2, <1>5, <1>6, <1>8, <1>9 DEF more

\* Without its first order a list costs that much less.
LEMMA BillTail ==
  ASSUME WorkerConstants, NEW orders \in Seq(Worker!Orders), Distinct(orders), orders # <<>>
  PROVE  /\ Tail(orders) \in Seq(Worker!Orders) /\ Distinct(Tail(orders))
         /\ Head(orders) \in Worker!Orders
         /\ Bill(Tail(orders)) = Bill(orders) - Notional(Head(orders))
<1> DEFINE rest == Tail(orders)
<1>1. /\ rest \in Seq(Worker!Orders) /\ DOMAIN rest = 1 .. Len(orders) - 1
      /\ DOMAIN orders = 1 .. Len(orders) /\ Len(orders) \in Nat \ {0}
      /\ \A i \in 1 .. Len(orders) - 1 : rest[i] = orders[i + 1]
      /\ Head(orders) = orders[1] /\ orders[1] \in Worker!Orders
  OBVIOUS
<1> HIDE DEF rest
<1>2. \A i \in DOMAIN rest : i + 1 \in DOMAIN orders /\ i + 1 # 1 /\ rest[i] = orders[i + 1]
  BY <1>1
<1>3. \A i \in DOMAIN orders : i # 1 => i - 1 \in DOMAIN rest /\ rest[i - 1] = orders[i]
  BY <1>1
<1>4. Distinct(rest)
  <2>1. ASSUME NEW i \in DOMAIN rest, NEW j \in DOMAIN rest, i # j  PROVE rest[i].sym # rest[j].sym
    <3>1. i + 1 # j + 1
      BY <1>1, <2>1
    <3> QED  BY <1>2, <3>1 DEF Distinct
  <2> QED  BY <2>1 DEF Distinct
<1> DEFINE o == orders[1]
<1>5. IsFiniteSet(Symbols) /\ o.sym \in Symbols /\ 1 \in DOMAIN orders
  BY <1>1, FiniteSymbols DEF Worker!Orders
<1>6. Costs(orders) \in [Symbols -> Int] /\ Costs(rest) \in [Symbols -> Int]
  BY <1>1, <1>4, CostsAre
<1>7. Costs(orders)[o.sym] = Notional(o)
  BY <1>5, CostsAre
<1>8. Costs(rest)[o.sym] = 0
  <2>1. \A i \in DOMAIN rest : rest[i].sym # o.sym
    BY <1>2, <1>5 DEF Distinct
  <2> QED  BY <1>1, <1>4, <1>5, <2>1, CostsAre
<1>9. ASSUME NEW s \in Symbols \ {o.sym}  PROVE Costs(orders)[s] = Costs(rest)[s]
  <2>1. CASE \E i \in DOMAIN rest : rest[i].sym = s
    <3>1. PICK i \in DOMAIN rest : rest[i].sym = s
      BY <2>1
    <3>2. Costs(rest)[s] = Notional(rest[i])
      BY <1>1, <1>4, <3>1, CostsAre
    <3>3. Costs(orders)[s] = Notional(orders[i + 1])
      BY <1>2, <3>1, CostsAre
    <3> QED  BY <1>2, <3>2, <3>3
  <2>2. CASE \A i \in DOMAIN rest : rest[i].sym # s
    <3>1. \A i \in DOMAIN orders : orders[i].sym # s
      BY <1>3, <2>2
    <3>2. Costs(orders)[s] = 0
      BY <3>1, CostsAre
    <3>3. Costs(rest)[s] = 0
      BY <1>1, <1>4, <2>2, CostsAre
    <3> QED  BY <3>2, <3>3
  <2> QED  BY <2>1, <2>2
<1> HIDE DEF o
<1>10. Bill(rest) = Bill(orders) - Costs(orders)[o.sym] + Costs(rest)[o.sym]
  <2> DEFINE f == Costs(orders)
             h == Costs(rest)
             x == o.sym
  <2>1. f \in [Symbols -> Int] /\ h \in [Symbols -> Int] /\ x \in Symbols
        /\ \A y \in Symbols \ {x} : f[y] = h[y]
    BY <1>5, <1>6, <1>9
  <2> HIDE DEF f, h, x
  <2>2. Worker!SumFunction(h) = Worker!SumFunction(f) - f[x] + h[x]
    BY <1>5, <2>1, SumUpdate
  <2> QED  BY <2>2 DEF Bill, f, h, x
<1>11. Bill(orders) \in Int /\ Notional(o) \in Int
  BY <1>5, <1>6, <1>7, BillType
<1> QED  BY <1>1, <1>4, <1>7, <1>8, <1>10, <1>11 DEF rest, o

-----------------------------------------------------------------------------
(* The orders of a cycle: a fold over the universe.                        *)

\* The maximum of a set of numbers that a number bounds is its greatest element.
LEMMA MaxIs ==
  ASSUME NEW n \in Nat, NEW S, S \subseteq 1 .. n, S # {}
  PROVE  Worker!Max(S) \in S /\ \A x \in S : x <= Worker!Max(S)
<1> DEFINE D == {n - x : x \in S}
<1>1. D \subseteq Nat /\ D # {}
  <2>1. ASSUME NEW x \in S  PROVE n - x \in Nat
    OBVIOUS
  <2> QED  BY <2>1
<1>2. PICK d \in D : \A e \in D : d <= e
  BY <1>1, Least
<1>3. PICK x \in S : d = n - x
  OBVIOUS
<1>4. ASSUME NEW y \in S  PROVE x >= y
  <2>1. n - y \in D
    OBVIOUS
  <2>2. n - x <= n - y
    BY <1>2, <1>3, <2>1
  <2> QED  BY <2>2
<1> QED  BY <1>4 DEF Worker!Max

\* Without its maximum a set is one of smaller numbers.
LEMMA WithoutMax ==
  ASSUME NEW n \in Nat \ {0}, NEW S \in SUBSET (1 .. n), S # {}
  PROVE  Worker!Max(S) \in 1 .. n /\ S \ {Worker!Max(S)} \in SUBSET (1 .. n - 1)
<1> DEFINE m == Worker!Max(S)
<1>1. m \in S /\ \A x \in S : x <= m
  BY MaxIs
<1> HIDE DEF m
<1>2. ASSUME NEW x \in S \ {m}  PROVE x \in 1 .. n - 1
  BY <1>1
<1> QED  BY <1>1, <1>2 DEF m

\* The sizing of the symbols with an index in D, for every D of numbers up to n.
Sizes(n, base, signals, l, price, equity, g) ==
  g = [t \in SUBSET (1 .. n) |->
         IF t = {} THEN base
         ELSE Worker!Size(g[t \ {Worker!Max(t)}], Universe[Worker!Max(t)],
                          signals, l, price, equity)]

\* The recursion of the sizing is well defined.
LEMMA SizesExist ==
  ASSUME NEW N \in Nat, NEW base, NEW signals, NEW l, NEW price, NEW equity
  PROVE  \E g : Sizes(N, base, signals, l, price, equity, g)
<1> DEFINE Fits(n, g) == Sizes(n, base, signals, l, price, equity, g)
           Next1(g, t) == Worker!Size(g[t \ {Worker!Max(t)}], Universe[Worker!Max(t)],
                                      signals, l, price, equity)
           Bad == {n \in Nat : ~\E g : Fits(n, g)}
<1>1. \A n, g : Fits(n, g) <=>
        g = [t \in SUBSET (1 .. n) |-> IF t = {} THEN base ELSE Next1(g, t)]
  BY DEF Sizes
<1>2. \A g, h, t : g[t \ {Worker!Max(t)}] = h[t \ {Worker!Max(t)}] => Next1(g, t) = Next1(h, t)
  OBVIOUS
<1> HIDE DEF Fits, Next1
<1> SUFFICES ASSUME Bad # {} PROVE FALSE
  BY DEF Fits
<1>3. PICK n \in Bad : \A m \in Bad : n <= m
  BY Least
<1>4. CASE n = 0
  <2>1. \A t \in SUBSET (1 .. 0) : t = {}
    OBVIOUS
  <2>2. Fits(0, [t \in SUBSET (1 .. 0) |-> base])
    BY <1>1, <2>1
  <2> QED  BY <1>3, <1>4, <2>2
<1>5. CASE n # 0
  <2>1. n - 1 \in Nat /\ n - 1 \notin Bad
    BY <1>3, <1>5
  <2>2. PICK g : Fits(n - 1, g)
    BY <2>1
  <2> DEFINE h == [t \in SUBSET (1 .. n) |-> IF t = {} THEN base ELSE Next1(g, t)]
  <2>3. /\ h = [t \in SUBSET (1 .. n) |-> h[t]]
        /\ \A t \in SUBSET (1 .. n) : h[t] = IF t = {} THEN base ELSE Next1(g, t)
    OBVIOUS
  <2> HIDE DEF h
  <2>4. \A t \in SUBSET (1 .. n - 1) : g[t] = IF t = {} THEN base ELSE Next1(g, t)
    BY <1>1, <2>2
  <2>5. ASSUME NEW t \in SUBSET (1 .. n), t # {}
        PROVE  h[t \ {Worker!Max(t)}] = g[t \ {Worker!Max(t)}]
    <3> DEFINE u == t \ {Worker!Max(t)}
    <3>1. u \in SUBSET (1 .. n - 1)
      BY <1>5, <2>5, WithoutMax
    <3>2. u \in SUBSET (1 .. n)
      BY <2>5
    <3> HIDE DEF u
    <3>3. h[u] = g[u]
      BY <2>3, <2>4, <3>1, <3>2
    <3> QED  BY <3>3 DEF u
  <2>6. ASSUME NEW t \in SUBSET (1 .. n)
        PROVE  h[t] = IF t = {} THEN base ELSE Next1(h, t)
    <3>1. t # {} => Next1(g, t) = Next1(h, t)
      <4> SUFFICES ASSUME t # {}  PROVE Next1(g, t) = Next1(h, t)
        OBVIOUS
      <4>1. g[t \ {Worker!Max(t)}] = h[t \ {Worker!Max(t)}]
        BY <2>5
      <4> QED  BY <1>2, <4>1
    <3> QED  BY <2>3, <3>1
  <2>7. Fits(n, h)
    BY <1>1, <2>3, <2>6
  <2> QED  BY <1>3, <2>7
<1> QED  BY <1>4, <1>5

\* So the sizing of the first k symbols is that of the first k - 1 and one more.
LEMMA IntentsUnfold ==
  ASSUME WorkerConstants, NEW signals, NEW l, NEW price, NEW equity, NEW room
  PROVE  \E g :
           /\ g[1 .. 0] = [orders |-> <<>>, purse |-> [cash |-> l.cash, room |-> room]]
           /\ \A k \in 1 .. Len(Universe) :
                g[1 .. k] = Worker!Size(g[1 .. k - 1], Universe[k], signals, l, price, equity)
           /\ Worker!Intents(signals, l, price, equity, room) = g[1 .. Len(Universe)].orders
<1> DEFINE base == [orders |-> <<>>, purse |-> [cash |-> l.cash, room |-> room]]
           N == Len(Universe)
           g == CHOOSE g : Sizes(N, base, signals, l, price, equity, g)
<1>1. DOMAIN Universe = 1 .. N /\ N \in Nat
  BY DEF WorkerConstants, Worker!SizingAssumption
<1>2. Sizes(N, base, signals, l, price, equity, g)
  BY <1>1, SizesExist
<1>3. Worker!Intents(signals, l, price, equity, room) = g[1 .. N].orders
  BY <1>1 DEF Worker!Intents, Worker!FoldLeft, Worker!MapThenFoldSet, Sizes
<1> HIDE DEF g, base, N
<1>4. \A t \in SUBSET (1 .. N) :
        g[t] = IF t = {} THEN base
               ELSE Worker!Size(g[t \ {Worker!Max(t)}], Universe[Worker!Max(t)],
                                signals, l, price, equity)
  BY <1>2 DEF Sizes
<1>5. g[1 .. 0] = base
  <2>1. 1 .. 0 = {}
    OBVIOUS
  <2> QED  BY <1>4, <2>1
<1>6. ASSUME NEW k \in 1 .. N
      PROVE  g[1 .. k] = Worker!Size(g[1 .. k - 1], Universe[k], signals, l, price, equity)
  <2>1. 1 .. k \in SUBSET (1 .. N) /\ k \in 1 .. k /\ k \in Nat
    BY <1>1
  <2>2. Worker!Max(1 .. k) \in 1 .. k /\ \A x \in 1 .. k : x <= Worker!Max(1 .. k)
    BY <2>1, MaxIs
  <2>3. Worker!Max(1 .. k) = k
    BY <2>1, <2>2
  <2>4. (1 .. k) \ {k} = 1 .. k - 1
    BY <2>1
  <2> QED  BY <1>4, <2>1, <2>3, <2>4
<1> QED  BY <1>1, <1>3, <1>5, <1>6 DEF base, N

Buying(orders) == \E i \in DOMAIN orders : Worker!Buy(orders[i])

\* Orders a ledger can fill: one for a symbol, at its price, and no sale of more
\* than is available where that is stated.
Placed(orders, l, price) ==
  /\ orders \in Seq(Worker!Orders) /\ Distinct(orders)
  /\ \A i \in DOMAIN orders : orders[i].price = price[orders[i].sym]
  /\ \A i \in DOMAIN orders : Worker!Sell(orders[i]) =>
       l.avail[orders[i].sym] = Unstated \/ -orders[i].n <= l.avail[orders[i].sym]

\* The orders of the first k symbols, and what they leave.
Sized(k, a, l, price, room) ==
  /\ Placed(a.orders, l, price)
  /\ \A i \in DOMAIN a.orders : \E m \in 1 .. k : a.orders[i].sym = Universe[m]
  /\ a.purse.cash = l.cash - Bill(a.orders)
  /\ a.purse.room = {r - Bill(a.orders) : r \in room} /\ a.purse.room \subseteq Nat
  /\ Buying(a.orders) => a.purse.cash >= 0

\* The order of one more symbol.
LEMMA SizeIs ==
  ASSUME WorkerConstants, NEW signals \in [Symbols -> Worker!Asked],
         \A s \in Symbols : signals[s].kind = "exit" => signals[s].of <= 100,
         NEW l \in Worker!Ledgers, NEW price \in [Symbols -> Nat \ {0}], NEW equity \in Int,
         NEW room, room \subseteq Nat, NEW k \in 1 .. Len(Universe),
         NEW a, Sized(k - 1, a, l, price, room)
  PROVE  Sized(k, Worker!Size(a, Universe[k], signals, l, price, equity), l, price, room)
<1> DEFINE s == Universe[k]
           n == Worker!Shares(signals[s], l, s, price[s], equity, a.purse)
           o == [sym |-> s, n |-> n, price |-> price[s]]
           next == Worker!Size(a, s, signals, l, price, equity)
<1>1. Universe \in Seq(Symbols) /\ s \in Symbols
      /\ \A i, j \in DOMAIN Universe : Universe[i] = Universe[j] => i = j
  BY DEF WorkerConstants, Worker!SizingAssumption, Worker!IsInjective
<1>2. Bill(a.orders) \in Int /\ Bill(a.orders) >= 0
  BY BillType DEF Sized, Placed
<1>3. l.cash \in Int
  BY DEF Worker!Ledgers
<1>4. a.purse.cash \in Int /\ a.purse.room \subseteq Nat
  BY <1>2, <1>3 DEF Sized
<1>5. Sound(n, l, s, price[s], a.purse)
  BY <1>1, <1>4, SharesIs
<1>6. next = [orders |-> IF n = 0 THEN a.orders ELSE Append(a.orders, o),
              purse  |-> IF n > 0 THEN Worker!Spent(a.purse, n * price[s]) ELSE a.purse]
  BY DEF Worker!Size
<1>7. ASSUME NEW i \in DOMAIN a.orders  PROVE a.orders[i].sym # s
  <2>1. PICK m \in 1 .. k - 1 : a.orders[i].sym = Universe[m]
    BY DEF Sized
  <2>2. m # k /\ m \in DOMAIN Universe /\ k \in DOMAIN Universe
    BY <1>1
  <2> QED  BY <1>1, <2>1, <2>2
<1>8. \A m \in 1 .. k - 1 : m \in 1 .. k
  BY <1>1
<1> HIDE DEF n, next
<1>9. CASE n = 0
  <2>1. next.orders = a.orders /\ next.purse = a.purse
    BY <1>6, <1>9
  <2> QED  BY <1>8, <2>1 DEF Sized, next
<1>10. CASE n # 0
  <2>1. o \in Worker!Orders /\ o.sym = s /\ o.n = n /\ o.price = price[s]
    BY <1>1, <1>5, <1>10 DEF Sound, Worker!Orders
  <2> HIDE DEF o
  <2>2. next.orders = Append(a.orders, o)
    BY <1>6, <1>10
  <2> DEFINE more == Append(a.orders, o)
  <2>3. a.orders \in Seq(Worker!Orders) /\ Distinct(a.orders)
    BY DEF Sized, Placed
  <2>4. more \in Seq(Worker!Orders) /\ Distinct(more) /\ Bill(more) = Bill(a.orders) + Notional(o)
    BY <1>7, <2>1, <2>3, BillAppend
  <2>5. /\ DOMAIN more = DOMAIN a.orders \cup {Len(a.orders) + 1}
        /\ more[Len(a.orders) + 1] = o /\ \A i \in DOMAIN a.orders : more[i] = a.orders[i]
    BY <2>1, <2>3, SMTT(30)
  <2> HIDE DEF more
  <2>6. Worker!Sell(o) => l.avail[s] = Unstated \/ -n <= l.avail[s]
    <3>1. ASSUME n < 0, l.avail[s] # Unstated  PROVE -n <= l.avail[s]
      <4>1. -n <= Worker!Sellable(l, s) /\ n \in Int
        BY <1>5, <3>1 DEF Sound
      <4>2. Worker!Sellable(l, s) \in Nat /\ Worker!Sellable(l, s) <= l.avail[s]
        BY <1>1, <3>1, SellableIs
      <4>3. l.avail[s] \in Nat
        BY <1>1, <3>1 DEF Worker!Ledgers
      <4> QED  BY <4>1, <4>2, <4>3
    <3> QED  BY <2>1, <3>1 DEF Worker!Sell
  <2>7. Placed(more, l, price)
    BY <2>1, <2>4, <2>5, <2>6 DEF Placed, Sized
  <2>8. \A i \in DOMAIN more : \E m \in 1 .. k : more[i].sym = Universe[m]
    BY <1>8, <2>1, <2>5 DEF Sized
  <2>9. CASE n > 0
    <3> DEFINE amount == n * price[s]
    <3>1. Notional(o) = amount /\ amount \in Nat
      <4>1. n \in Nat /\ price[s] \in Nat
        BY <1>1, <1>5, <2>9 DEF Sound
      <4>2. price[s] * n = n * price[s] /\ n * price[s] \in Nat
        BY <4>1
      <4> QED  BY <2>1, <2>9, <4>2 DEF Notional, Worker!Buy
    <3>2. amount <= a.purse.cash /\ \A r \in a.purse.room : amount <= r
      <4>1. n \in Int /\ price[s] \in Int
        BY <1>1, <1>5 DEF Sound
      <4>2. price[s] * n = n * price[s]
        BY <4>1
      <4> QED  BY <1>5, <2>9, <4>2 DEF Sound
    <3>3. next.purse = Worker!Spent(a.purse, amount)
      BY <1>6, <2>9
    <3> HIDE DEF amount
    <3>4. next.purse.cash = a.purse.cash - amount
          /\ next.purse.room = {Worker!Max({0, r - amount}) : r \in a.purse.room}
      BY <3>3 DEF Worker!Spent
    <3>5. ASSUME NEW r \in a.purse.room
          PROVE  Worker!Max({0, r - amount}) = r - amount /\ r - amount \in Nat
      <4>1. r \in Nat /\ amount <= r /\ amount \in Nat
        BY <1>4, <3>1, <3>2
      <4>2. r - amount \in Nat
        BY <4>1
      <4>3. Worker!Max({0, r - amount}) = IF 0 >= r - amount THEN 0 ELSE r - amount
        <5> DEFINE d == r - amount
        <5>1. d \in Int
          BY <4>2
        <5> HIDE DEF d
        <5>2. Worker!Max({0, d}) = IF 0 >= d THEN 0 ELSE d
          BY <5>1, NotBelowZero
        <5> QED  BY <5>2 DEF d
      <4> QED  BY <4>2, <4>3
    <3>6. next.purse.room = {r - amount : r \in a.purse.room}
      <4>1. \A x : x \in next.purse.room <=> \E r \in a.purse.room : x = Worker!Max({0, r - amount})
        BY <3>4
      <4>2. \A x : x \in next.purse.room <=> \E r \in a.purse.room : x = r - amount
        BY <3>5, <4>1
      <4> QED  BY <4>2
    <3>7. a.purse.room = {r - Bill(a.orders) : r \in room}
      BY DEF Sized
    <3>8. ASSUME NEW r \in room  PROVE (r - Bill(a.orders)) - amount = r - Bill(more)
      BY <1>2, <2>4, <3>1
    <3>9. next.purse.room = {r - Bill(more) : r \in room}
      BY <3>6, <3>7, <3>8
    <3>10. next.purse.room \subseteq Nat
      BY <3>5, <3>6
    <3>11. next.purse.cash = l.cash - Bill(more) /\ next.purse.cash >= 0
      BY <1>2, <1>3, <1>4, <2>4, <3>1, <3>2, <3>4 DEF Sized
    <3> QED  BY <2>2, <2>7, <2>8, <3>9, <3>10, <3>11 DEF Sized, next, more
  <2>10. CASE ~(n > 0)
    <3>1. next.purse = a.purse
      BY <1>6, <2>10
    <3>2. ~Worker!Buy(o)
      BY <2>1, <2>10 DEF Worker!Buy
    <3>3. Bill(more) = Bill(a.orders)
      BY <1>2, <2>4, <3>2 DEF Notional
    <3>4. Buying(more) => Buying(a.orders)
      BY <2>5, <3>2 DEF Buying
    <3>5. next.purse.cash = l.cash - Bill(more)
      BY <3>1, <3>3 DEF Sized
    <3>6. a.purse.room = {r - Bill(a.orders) : r \in room} /\ a.purse.room \subseteq Nat
      BY DEF Sized
    <3>7. next.purse.room = {r - Bill(more) : r \in room} /\ next.purse.room \subseteq Nat
      BY <3>1, <3>3, <3>6
    <3>8. Buying(more) => next.purse.cash >= 0
      BY <3>1, <3>4 DEF Sized
    <3>9. next.orders = more
      BY <2>2 DEF more
    <3> HIDE DEF next
    <3>10. Sized(k, next, l, price, room)
      BY <2>7, <2>8, <3>5, <3>7, <3>8, <3>9 DEF Sized
    <3> QED  BY <3>10 DEF next
  <2> QED  BY <2>9, <2>10
<1> QED  BY <1>9, <1>10 DEF next

\* The orders of a cycle can be filled, and what they buy fits the cash and the
\* budget together.
THEOREM IntentsAre ==
  ASSUME WorkerConstants, NEW signals \in Signals,
         NEW l \in Worker!Ledgers, NEW price \in [Symbols -> Nat \ {0}], NEW equity \in Int,
         NEW room, room \subseteq Nat
  PROVE  LET orders == Worker!Intents(signals, l, price, equity, room)
         IN  /\ Placed(orders, l, price)
             /\ Buying(orders) => Bill(orders) <= l.cash /\ \A r \in room : Bill(orders) <= r
<1>1. signals \in [Symbols -> Worker!Asked]
      /\ \A s \in Symbols : signals[s].kind = "exit" => signals[s].of <= 100
  BY DEF WorkerConstants, Worker!WorkerAssumption
<1>2. PICK g :
        /\ g[1 .. 0] = [orders |-> <<>>, purse |-> [cash |-> l.cash, room |-> room]]
        /\ \A k \in 1 .. Len(Universe) :
             g[1 .. k] = Worker!Size(g[1 .. k - 1], Universe[k], signals, l, price, equity)
        /\ Worker!Intents(signals, l, price, equity, room) = g[1 .. Len(Universe)].orders
  BY IntentsUnfold
<1>3. l.cash \in Int
  BY DEF Worker!Ledgers
<1>4. Sized(0, g[1 .. 0], l, price, room)
  <2> DEFINE e == <<>>
  <2>1. e \in Seq(Worker!Orders) /\ DOMAIN e = {}
    OBVIOUS
  <2>2. g[1 .. 0].orders = e /\ g[1 .. 0].purse.cash = l.cash /\ g[1 .. 0].purse.room = room
    BY <1>2
  <2> HIDE DEF e
  <2>3. Placed(e, l, price) /\ ~Buying(e)
    BY <2>1 DEF Placed, Distinct, Buying
  <2>4. Bill(e) = 0
    BY <2>1, <2>3, BillType DEF Placed
  <2>5. room = {r - Bill(e) : r \in room}
    <3>1. \A r \in room : r - Bill(e) = r
      BY <2>4
    <3>2. \A x : x \in room <=> x \in {r - Bill(e) : r \in room}
      BY <3>1
    <3> QED  BY <3>2
  <2>6. l.cash = l.cash - Bill(e)
    BY <1>3, <2>4
  <2>7. \A i \in DOMAIN e : \E m \in 1 .. 0 : e[i].sym = Universe[m]
    BY <2>1
  <2> QED  BY <2>2, <2>3, <2>5, <2>6, <2>7 DEF Sized
<1> DEFINE N == Len(Universe)
           Bad == {k \in Nat : k <= N /\ ~Sized(k, g[1 .. k], l, price, room)}
<1>5. N \in Nat
  BY DEF WorkerConstants, Worker!SizingAssumption
<1>6. ASSUME Bad # {}  PROVE FALSE
  <2>1. PICK k \in Bad : \A m \in Bad : k <= m
    BY <1>6, Least
  <2>2. k # 0
    BY <1>4, <2>1
  <2>3. k - 1 \in Nat /\ k - 1 \notin Bad /\ k \in 1 .. N
    BY <1>5, <2>1, <2>2
  <2>4. Sized(k - 1, g[1 .. k - 1], l, price, room)
    BY <1>5, <2>3
  <2>5. Sized(k, g[1 .. k], l, price, room)
    <3>1. Sized(k, Worker!Size(g[1 .. k - 1], Universe[k], signals, l, price, equity),
                l, price, room)
      BY <1>1, <2>3, <2>4, SizeIs
    <3> QED  BY <1>2, <2>3, <3>1
  <2> QED  BY <2>1, <2>5
<1>7. Sized(N, g[1 .. N], l, price, room)
  BY <1>5, <1>6
<1> DEFINE orders == g[1 .. N].orders
           purse  == g[1 .. N].purse
<1>8. /\ Placed(orders, l, price) /\ purse.cash = l.cash - Bill(orders)
      /\ purse.room = {r - Bill(orders) : r \in room} /\ purse.room \subseteq Nat
      /\ Buying(orders) => purse.cash >= 0
  BY <1>7 DEF Sized
<1>9. Worker!Intents(signals, l, price, equity, room) = orders
  BY <1>2
<1> HIDE DEF orders, purse, N
<1>10. Bill(orders) \in Int
  BY <1>8, BillType DEF Placed
<1>11. ASSUME NEW r \in room  PROVE Bill(orders) <= r
  <2>1. r - Bill(orders) \in Nat /\ r \in Nat
    BY <1>8
  <2> QED  BY <1>10, <2>1
<1>12. Buying(orders) => Bill(orders) <= l.cash
  BY <1>3, <1>8, <1>10
<1> QED  BY <1>8, <1>9, <1>11, <1>12

-----------------------------------------------------------------------------
(* What a halt leaves of the orders: a fold over them.                     *)

KeptWith(kept, o) == IF Worker!Sell(o) THEN Append(kept, o) ELSE kept

\* The sales among the orders with an index in D, for every D of numbers up to n.
Halts(n, orders, g) ==
  g = [t \in SUBSET (1 .. n) |->
         IF t = {} THEN <<>>
         ELSE KeptWith(g[t \ {Worker!Max(t)}], orders[Worker!Max(t)])]

\* The recursion of the halt is well defined.
LEMMA HaltsExist ==
  ASSUME NEW N \in Nat, NEW orders
  PROVE  \E g : Halts(N, orders, g)
<1> DEFINE Fits(n, g) == Halts(n, orders, g)
           Next1(g, t) == KeptWith(g[t \ {Worker!Max(t)}], orders[Worker!Max(t)])
           Bad == {n \in Nat : ~\E g : Fits(n, g)}
<1>1. \A n, g : Fits(n, g) <=>
        g = [t \in SUBSET (1 .. n) |-> IF t = {} THEN <<>> ELSE Next1(g, t)]
  BY DEF Halts
<1>2. \A g, h, t : g[t \ {Worker!Max(t)}] = h[t \ {Worker!Max(t)}] => Next1(g, t) = Next1(h, t)
  OBVIOUS
<1> HIDE DEF Fits, Next1
<1> SUFFICES ASSUME Bad # {} PROVE FALSE
  BY DEF Fits
<1>3. PICK n \in Bad : \A m \in Bad : n <= m
  BY Least
<1>4. CASE n = 0
  <2>1. \A t \in SUBSET (1 .. 0) : t = {}
    OBVIOUS
  <2>2. Fits(0, [t \in SUBSET (1 .. 0) |-> <<>>])
    BY <1>1, <2>1
  <2> QED  BY <1>3, <1>4, <2>2
<1>5. CASE n # 0
  <2>1. n - 1 \in Nat /\ n - 1 \notin Bad
    BY <1>3, <1>5
  <2>2. PICK g : Fits(n - 1, g)
    BY <2>1
  <2> DEFINE h == [t \in SUBSET (1 .. n) |-> IF t = {} THEN <<>> ELSE Next1(g, t)]
  <2>3. /\ h = [t \in SUBSET (1 .. n) |-> h[t]]
        /\ \A t \in SUBSET (1 .. n) : h[t] = IF t = {} THEN <<>> ELSE Next1(g, t)
    OBVIOUS
  <2> HIDE DEF h
  <2>4. \A t \in SUBSET (1 .. n - 1) : g[t] = IF t = {} THEN <<>> ELSE Next1(g, t)
    BY <1>1, <2>2
  <2>5. ASSUME NEW t \in SUBSET (1 .. n), t # {}
        PROVE  h[t \ {Worker!Max(t)}] = g[t \ {Worker!Max(t)}]
    <3> DEFINE u == t \ {Worker!Max(t)}
    <3>1. u \in SUBSET (1 .. n - 1)
      BY <1>5, <2>5, WithoutMax
    <3>2. u \in SUBSET (1 .. n)
      BY <2>5
    <3> HIDE DEF u
    <3>3. h[u] = g[u]
      BY <2>3, <2>4, <3>1, <3>2
    <3> QED  BY <3>3 DEF u
  <2>6. ASSUME NEW t \in SUBSET (1 .. n)
        PROVE  h[t] = IF t = {} THEN <<>> ELSE Next1(h, t)
    <3>1. t # {} => Next1(g, t) = Next1(h, t)
      <4> SUFFICES ASSUME t # {}  PROVE Next1(g, t) = Next1(h, t)
        OBVIOUS
      <4>1. g[t \ {Worker!Max(t)}] = h[t \ {Worker!Max(t)}]
        BY <2>5
      <4> QED  BY <1>2, <4>1
    <3> QED  BY <2>3, <3>1
  <2>7. Fits(n, h)
    BY <1>1, <2>3, <2>6
  <2> QED  BY <1>3, <2>7
<1> QED  BY <1>4, <1>5

\* The orders among the first k that a halt keeps.
HaltKept(k, kept, orders) ==
  /\ kept \in Seq(Worker!Orders)
  /\ \A i \in DOMAIN kept : Worker!Sell(kept[i]) /\ \E m \in 1 .. k : kept[i] = orders[m]
  /\ Distinct(kept)

\* One order more.
LEMMA HaltStep ==
  ASSUME NEW orders \in Seq(Worker!Orders), Distinct(orders),
         NEW k \in 1 .. Len(orders), NEW kept, HaltKept(k - 1, kept, orders)
  PROVE  HaltKept(k, KeptWith(kept, orders[k]), orders)
<1>1. k \in DOMAIN orders /\ orders[k] \in Worker!Orders
      /\ \A m \in 1 .. k - 1 : m \in 1 .. k /\ m \in DOMAIN orders /\ m # k
  OBVIOUS
<1>2. CASE ~Worker!Sell(orders[k])
  <2>1. KeptWith(kept, orders[k]) = kept
    BY <1>2 DEF KeptWith
  <2> QED  BY <1>1, <2>1 DEF HaltKept
<1>3. CASE Worker!Sell(orders[k])
  <2> DEFINE o    == orders[k]
             more == Append(kept, o)
  <2>1. KeptWith(kept, o) = more
    BY <1>3 DEF KeptWith
  <2>2. kept \in Seq(Worker!Orders)
    BY DEF HaltKept
  <2>3. /\ more \in Seq(Worker!Orders) /\ DOMAIN more = DOMAIN kept \cup {Len(kept) + 1}
        /\ more[Len(kept) + 1] = o /\ \A i \in DOMAIN kept : more[i] = kept[i]
    BY <1>1, <2>2
  <2> HIDE DEF more
  <2>4. \A i \in DOMAIN kept : kept[i].sym # o.sym
    BY <1>1, SMTT(30) DEF HaltKept, Distinct
  <2>5. Distinct(more)
    BY <2>3, <2>4 DEF HaltKept, Distinct
  <2>6. \A i \in DOMAIN more : Worker!Sell(more[i]) /\ \E m \in 1 .. k : more[i] = orders[m]
    <3>1. k \in 1 .. k
      OBVIOUS
    <3> QED  BY <1>1, <1>3, <2>3, <3>1 DEF HaltKept
  <2> QED  BY <2>1, <2>3, <2>5, <2>6 DEF HaltKept
<1> QED  BY <1>2, <1>3

\* The orders a cycle is allowed can be filled like those it asked for; above the
\* limit they are sales, below it they are the same.
LEMMA AllowedAre ==
  ASSUME WorkerConstants, NEW l, NEW price, NEW orders, Placed(orders, l, price)
  PROVE  /\ Placed(Worker!Allowed(orders), l, price)
         /\ IF Worker!Breached(Worker!Peak(Worker!Worth), Worker!Worth)
            THEN ~Buying(Worker!Allowed(orders))
            ELSE Worker!Allowed(orders) = orders
<1>1. CASE ~Worker!Breached(Worker!Peak(Worker!Worth), Worker!Worth)
  BY <1>1 DEF Worker!Allowed
<1>2. CASE Worker!Breached(Worker!Peak(Worker!Worth), Worker!Worth)
  <2> DEFINE N == Len(orders)
             g == CHOOSE g : Halts(N, orders, g)
  <2>1. orders \in Seq(Worker!Orders) /\ Distinct(orders) /\ DOMAIN orders = 1 .. N /\ N \in Nat
    BY DEF Placed
  <2>2. Halts(N, orders, g)
    BY <2>1, HaltsExist
  <2>3. Worker!Allowed(orders) = g[1 .. N]
    BY <1>2, <2>1 DEF Worker!Allowed, Worker!FoldLeft, Worker!MapThenFoldSet, Halts, KeptWith
  <2> HIDE DEF g, N
  <2>4. \A t \in SUBSET (1 .. N) :
          g[t] = IF t = {} THEN <<>>
                 ELSE KeptWith(g[t \ {Worker!Max(t)}], orders[Worker!Max(t)])
    BY <2>2 DEF Halts
  <2>5. ASSUME NEW k \in 1 .. N  PROVE g[1 .. k] = KeptWith(g[1 .. k - 1], orders[k])
    <3>1. 1 .. k \in SUBSET (1 .. N) /\ k \in 1 .. k /\ k \in Nat
      BY <2>1
    <3>2. Worker!Max(1 .. k) \in 1 .. k /\ \A x \in 1 .. k : x <= Worker!Max(1 .. k)
      BY <3>1, MaxIs
    <3>3. Worker!Max(1 .. k) = k
      BY <3>1, <3>2
    <3>4. (1 .. k) \ {k} = 1 .. k - 1
      BY <3>1
    <3> QED  BY <2>4, <3>1, <3>3, <3>4
  <2>6. HaltKept(0, g[1 .. 0], orders)
    <3>1. 1 .. 0 = {}
      OBVIOUS
    <3>2. g[1 .. 0] = <<>>
      BY <2>4, <3>1
    <3> QED  BY <3>2 DEF HaltKept, Distinct
  <2> DEFINE Bad == {k \in Nat : k <= N /\ ~HaltKept(k, g[1 .. k], orders)}
  <2>7. ASSUME Bad # {}  PROVE FALSE
    <3>1. PICK k \in Bad : \A m \in Bad : k <= m
      BY <2>7, Least
    <3>2. k # 0
      BY <2>6, <3>1
    <3>3. k - 1 \in Nat /\ k - 1 \notin Bad /\ k \in 1 .. N
      BY <2>1, <3>1, <3>2
    <3>4. HaltKept(k - 1, g[1 .. k - 1], orders)
      BY <2>1, <3>3
    <3>5. HaltKept(k, KeptWith(g[1 .. k - 1], orders[k]), orders)
      BY <2>1, <3>3, <3>4, HaltStep DEF N
    <3>6. HaltKept(k, g[1 .. k], orders)
      BY <2>5, <3>3, <3>5
    <3> QED  BY <3>1, <3>6
  <2>8. HaltKept(N, g[1 .. N], orders)
    BY <2>1, <2>7
  <2> DEFINE kept == g[1 .. N]
  <2>9. /\ kept \in Seq(Worker!Orders) /\ Distinct(kept)
        /\ \A i \in DOMAIN kept :
             Worker!Sell(kept[i]) /\ \E m \in DOMAIN orders : kept[i] = orders[m]
    BY <2>1, <2>8 DEF HaltKept
  <2> HIDE DEF kept
  <2>10. Placed(kept, l, price)
    BY <2>9 DEF Placed
  <2>11. ~Buying(kept)
    <3>1. ASSUME NEW i \in DOMAIN kept  PROVE ~Worker!Buy(kept[i])
      <4>1. kept[i] \in Worker!Orders /\ Worker!Sell(kept[i])
        BY <2>9
      <4> QED  BY <4>1 DEF Worker!Sell, Worker!Buy, Worker!Orders
    <3> QED  BY <3>1 DEF Buying
  <2> QED  BY <1>2, <2>3, <2>10, <2>11 DEF kept
<1> QED  BY <1>1, <1>2

-----------------------------------------------------------------------------
(* The ledger.                                                             *)

\* An account with a history on day d: it is settled no later, and holds what is
\* available and what was bought on its day besides.
AccountInv(l, d) ==
  /\ l \in Worker!Ledgers
  /\ l.bought.day <= l.day /\ l.day <= d
  /\ \A s \in Symbols :
       Worker!AvailableInt(l, s) + (IF l.bought.day = l.day THEN l.bought.n[s] ELSE 0)
         <= l.qty[s]

\* The fields of a ledger.
LEMMA LedgerFields ==
  ASSUME NEW l \in Worker!Ledgers
  PROVE  /\ l.cash \in Int /\ l.day \in Nat /\ l.fees \in Nat
         /\ l.qty \in [Symbols -> Nat] /\ l.cost \in [Symbols -> Nat]
         /\ l.avail \in [Symbols -> Nat \cup {Unstated}]
         /\ l.bought \in [day : Nat, n : [Symbols -> Nat]]
         /\ l.bought.day \in Nat /\ l.bought.n \in [Symbols -> Nat]
         /\ \A s \in Symbols : Worker!AvailableInt(l, s) \in Nat
BY DEF Worker!Ledgers, Worker!AvailableInt

\* A purchase.
LEMMA BoughtIs ==
  ASSUME NEW l \in Worker!Ledgers, NEW o \in Worker!Orders
  PROVE  LET b == Worker!Bought(l, o)
         IN  /\ b.cash = l.cash - o.n * o.price - Worker!Fee(o) /\ b.day = l.day
             /\ b.qty = [l.qty EXCEPT ![o.sym] = @ + o.n]
             /\ b.avail = [l.avail EXCEPT ![o.sym] = Worker!AvailableInt(l, o.sym)]
             /\ b.cost = [l.cost EXCEPT ![o.sym] =
                            (l.qty[o.sym] * @ + o.n * o.price) \div (l.qty[o.sym] + o.n)]
             /\ b.fees = l.fees /\ b.bought = l.bought
  BY DEF Worker!Bought, Worker!Ledgers

\* The fields of an order.
LEMMA OrderFields ==
  ASSUME WorkerConstants, NEW o \in Worker!Orders
  PROVE  /\ o.sym \in Symbols /\ o.n \in Int /\ o.n # 0 /\ o.price \in Nat \ {0}
         /\ Worker!Buy(o) <=> o.n > 0
         /\ Worker!Sell(o) <=> ~Worker!Buy(o)
         /\ Worker!Fee(o) \in Nat /\ o.n * o.price = o.price * o.n
<1>1. o.sym \in Symbols /\ o.n \in Int /\ o.n # 0 /\ o.price \in Nat \ {0}
  BY DEF Worker!Orders
<1>2. Worker!Fee(o) \in Nat
  BY DEF Worker!Fee, WorkerConstants, Worker!FeeAssumption
<1>3. (Worker!Buy(o) <=> o.n > 0) /\ (Worker!Sell(o) <=> ~Worker!Buy(o))
  BY <1>1 DEF Worker!Buy, Worker!Sell
<1>4. o.n * o.price = o.price * o.n
  BY <1>1
<1> QED  BY <1>1, <1>2, <1>3, <1>4

\* A sale the ledger does not refuse.
LEMMA SoldIs ==
  ASSUME NEW l \in Worker!Ledgers, NEW o \in Worker!Orders
  PROVE  LET b == Worker!Sold(l, o)
         IN  /\ b.cash = l.cash - o.n * o.price - Worker!Fee(o) /\ b.day = l.day
             /\ b.qty = [l.qty EXCEPT ![o.sym] = @ + o.n]
             /\ b.avail = [l.avail EXCEPT ![o.sym] = Worker!AvailableInt(l, o.sym) + o.n]
             /\ b.cost = [l.cost EXCEPT ![o.sym] = IF l.qty[o.sym] + o.n = 0 THEN 0 ELSE @]
             /\ b.fees = l.fees /\ b.bought = l.bought
  BY DEF Worker!Sold, Worker!Ledgers

\* The ledger after an order is one if its fields are typed.
LEMMA LedgerIs ==
  ASSUME NEW l \in Worker!Ledgers, NEW o \in Worker!Orders, NEW b,
         b = Worker!Bought(l, o) \/ b = Worker!Sold(l, o),
         b.cash \in Int, b.qty \in [Symbols -> Nat],
         b.avail \in [Symbols -> Nat \cup {Unstated}], b.cost \in [Symbols -> Nat]
  PROVE  b \in Worker!Ledgers
<1>1. l.day \in Nat /\ l.fees \in Nat /\ l.bought \in [day : Nat, n : [Symbols -> Nat]]
  BY LedgerFields
<1>2. b.day = l.day /\ b.fees = l.fees /\ b.bought = l.bought
  <2>1. CASE b = Worker!Bought(l, o)
    BY <2>1, BoughtIs
  <2>2. CASE b = Worker!Sold(l, o)
    BY <2>2, SoldIs
  <2> QED  BY <2>1, <2>2
<1>3. b = [cash |-> b.cash, day |-> b.day, qty |-> b.qty, avail |-> b.avail,
           cost |-> b.cost, fees |-> b.fees, bought |-> b.bought]
  BY DEF Worker!Bought, Worker!Sold, Worker!Ledgers
<1> QED  BY <1>1, <1>2, <1>3 DEF Worker!Ledgers

\* An account with a new history, otherwise the same.
Rewritten(c, b, f, h) ==
  /\ c \in Worker!Ledgers
  /\ c.cash = b.cash /\ c.day = b.day /\ c.qty = b.qty /\ c.avail = b.avail
  /\ c.fees = f /\ c.bought = h

\* A new history leaves the account as it is.
LEMMA WithHistory ==
  ASSUME NEW b \in Worker!Ledgers, NEW f \in Nat, NEW h \in [day : Nat, n : [Symbols -> Nat]]
  PROVE  Rewritten([b EXCEPT !.fees = f, !.bought = h], b, f, h)
BY DEF Worker!Ledgers, Rewritten

\* What an order the ledger does not refuse makes of it.
Fills(l, o, m) ==
  /\ m.day = l.day
  /\ m.cash + m.fees = l.cash + l.fees - o.price * o.n
  /\ m.qty = [l.qty EXCEPT ![o.sym] = @ + o.n]
  /\ m.avail = [l.avail EXCEPT ![o.sym] = Worker!AvailableInt(l, o.sym)
                                            + (IF Worker!Buy(o) THEN 0 ELSE o.n)]
  /\ IF Worker!Buy(o)
     THEN /\ m.bought.day = l.day
          /\ m.bought.n = [(IF l.bought.day = l.day THEN l.bought.n ELSE [s \in Symbols |-> 0])
                             EXCEPT ![o.sym] = @ + o.n]
     ELSE m.bought = l.bought

\* An order of the day is refused, a sale of more than is available, or filled; the
\* account stays one of the day.
LEMMA BookedIs ==
  ASSUME WorkerConstants, NEW o \in Worker!Orders, AccountInv(ledger, Worker!Day(slot)),
         ledger.day = Worker!Day(slot), ledger.day \in Nat
  PROVE  LET m == Worker!Booked(ledger, o)
         IN  /\ m \in Worker!Ledgers
             /\ \/ m = ledger /\ ~Worker!Buy(o) /\ -o.n > Worker!AvailableInt(ledger, o.sym)
                \/ Fills(ledger, o, m)
                   /\ (Worker!Buy(o) \/ -o.n <= Worker!AvailableInt(ledger, o.sym))
<1> DEFINE l == ledger
           s == o.sym
           ai == Worker!AvailableInt(l, s)
           before == IF l.bought.day = l.day THEN l.bought.n ELSE [t \in Symbols |-> 0]
           now == [day |-> l.day, n |-> [before EXCEPT ![s] = @ + o.n]]
           after == Worker!Filled(l, o)
           m == Worker!Booked(l, o)
<1>1. l \in Worker!Ledgers /\ ai <= l.qty[s]
  <2>1. l.bought.n \in [Symbols -> Nat] /\ ai \in Nat /\ l.qty \in [Symbols -> Nat] /\ s \in Symbols
    BY LedgerFields, OrderFields DEF AccountInv
  <2>2. ai + (IF l.bought.day = l.day THEN l.bought.n[s] ELSE 0) <= l.qty[s]
    BY <2>1 DEF AccountInv
  <2> QED  BY <2>1, <2>2 DEF AccountInv
<1>2. /\ l.cash \in Int /\ l.fees \in Nat /\ l.qty \in [Symbols -> Nat]
      /\ l.cost \in [Symbols -> Nat] /\ l.avail \in [Symbols -> Nat \cup {Unstated}]
      /\ l.bought \in [day : Nat, n : [Symbols -> Nat]] /\ l.bought.n \in [Symbols -> Nat]
      /\ ai \in Nat
  BY <1>1, LedgerFields, OrderFields
<1>3. /\ s \in Symbols /\ o.n \in Int /\ o.n # 0 /\ o.price \in Nat \ {0}
      /\ (Worker!Buy(o) <=> o.n > 0) /\ Worker!Fee(o) \in Nat /\ o.n * o.price = o.price * o.n
      /\ o.n * o.price \in Int
  BY OrderFields
<1>4. before \in [Symbols -> Nat]
  BY <1>2
<1>5. m = IF after = l THEN l
          ELSE [after EXCEPT !.fees = @ + Worker!Fee(o),
                             !.bought = IF Worker!Buy(o) THEN now ELSE @]
  BY DEF Worker!Booked
<1>6. CASE Worker!Buy(o)
  <2>1. after = Worker!Bought(l, o)
    BY <1>6 DEF Worker!Filled
  <2>2. /\ after.cash = l.cash - o.n * o.price - Worker!Fee(o) /\ after.day = l.day
        /\ after.qty = [l.qty EXCEPT ![s] = @ + o.n]
        /\ after.avail = [l.avail EXCEPT ![s] = ai]
        /\ after.cost = [l.cost EXCEPT ![s] =
                           (l.qty[s] * @ + o.n * o.price) \div (l.qty[s] + o.n)]
        /\ after.fees = l.fees /\ after.bought = l.bought
    BY <1>1, <2>1, BoughtIs
  <2>3. (l.qty[s] * l.cost[s] + o.n * o.price) \div (l.qty[s] + o.n) \in Nat
    <3>1. l.qty[s] \in Nat /\ l.cost[s] \in Nat /\ o.n \in Nat \ {0} /\ o.price \in Nat
      BY <1>2, <1>3, <1>6
    <3>2. l.qty[s] * l.cost[s] + o.n * o.price \in Nat /\ l.qty[s] + o.n \in Nat \ {0}
      BY <3>1
    <3> QED  BY <3>2, Quotient
  <2>4. after.qty \in [Symbols -> Nat] /\ after.cost \in [Symbols -> Nat]
        /\ after.avail \in [Symbols -> Nat \cup {Unstated}] /\ after.cash \in Int
    BY <1>2, <1>3, <1>6, <2>2, <2>3
  <2>5. after \in Worker!Ledgers
    BY <1>1, <2>1, <2>4, LedgerIs
  <2>6. after # l
    <3>1. after.qty[s] = l.qty[s] + o.n
      BY <1>2, <1>3, <2>2
    <3> QED  BY <1>2, <1>3, <3>1
  <2>7. now \in [day : Nat, n : [Symbols -> Nat]]
    BY <1>3, <1>4, <1>6
  <2> DEFINE f == l.fees + Worker!Fee(o)
  <2>8. m = [after EXCEPT !.fees = f, !.bought = now] /\ f \in Nat
    BY <1>2, <1>3, <1>5, <1>6, <2>2, <2>6
  <2> HIDE DEF m, after, now, before, ai, l, f
  <2>9. /\ m \in Worker!Ledgers /\ m.cash = after.cash /\ m.day = after.day
        /\ m.qty = after.qty /\ m.avail = after.avail
        /\ m.fees = f /\ m.bought = now
    <3>1. Rewritten(m, after, f, now)
      BY <2>5, <2>7, <2>8, WithHistory
    <3> QED  BY <3>1 DEF Rewritten
  <2>10. m.cash + m.fees = l.cash + l.fees - o.price * o.n
    BY <1>2, <1>3, <2>2, <2>9 DEF f
  <2>11. m.avail = [l.avail EXCEPT ![s] = ai + 0]
    BY <1>2, <2>2, <2>9
  <2>12. Fills(l, o, m)
    BY <1>6, <2>2, <2>9, <2>10, <2>11 DEF Fills, now, before, ai
  <2> QED  BY <1>6, <2>9, <2>12 DEF m, l
<1>7. CASE ~Worker!Buy(o) /\ -o.n > ai
  <2>1. after = l
    BY <1>7 DEF Worker!Filled
  <2> QED  BY <1>1, <1>5, <1>7, <2>1
<1>8. CASE ~Worker!Buy(o) /\ ~(-o.n > ai)
  <2>1. after = Worker!Sold(l, o)
    BY <1>8 DEF Worker!Filled
  <2>2. /\ after.cash = l.cash - o.n * o.price - Worker!Fee(o) /\ after.day = l.day
        /\ after.qty = [l.qty EXCEPT ![s] = @ + o.n]
        /\ after.avail = [l.avail EXCEPT ![s] = ai + o.n]
        /\ after.cost = [l.cost EXCEPT ![s] = IF l.qty[s] + o.n = 0 THEN 0 ELSE @]
        /\ after.fees = l.fees /\ after.bought = l.bought
    BY <1>1, <2>1, SoldIs
  <2>3. ai + o.n \in Nat /\ l.qty[s] + o.n \in Nat
    BY <1>1, <1>2, <1>3, <1>8
  <2>4. after.qty \in [Symbols -> Nat] /\ after.cost \in [Symbols -> Nat]
        /\ after.avail \in [Symbols -> Nat \cup {Unstated}] /\ after.cash \in Int
    BY <1>2, <1>3, <2>2, <2>3
  <2>5. after \in Worker!Ledgers
    BY <1>1, <2>1, <2>4, LedgerIs
  <2>6. after # l
    <3>1. after.qty[s] = l.qty[s] + o.n
      BY <1>2, <1>3, <2>2
    <3> QED  BY <1>2, <1>3, <3>1
  <2> DEFINE f == l.fees + Worker!Fee(o)
             old == l.bought
  <2>7. m = [after EXCEPT !.fees = f, !.bought = old] /\ f \in Nat
        /\ old \in [day : Nat, n : [Symbols -> Nat]]
    BY <1>2, <1>3, <1>5, <1>8, <2>2, <2>6
  <2> HIDE DEF m, after, now, before, ai, l, f, old
  <2>8. /\ m \in Worker!Ledgers /\ m.cash = after.cash /\ m.day = after.day
        /\ m.qty = after.qty /\ m.avail = after.avail
        /\ m.fees = f /\ m.bought = old
    <3>1. Rewritten(m, after, f, old)
      BY <2>5, <2>7, WithHistory
    <3> QED  BY <3>1 DEF Rewritten
  <2>9. m.cash + m.fees = l.cash + l.fees - o.price * o.n
    BY <1>2, <1>3, <2>2, <2>8 DEF f
  <2>10. Fills(l, o, m)
    BY <1>8, <2>2, <2>8, <2>9 DEF Fills, ai, old
  <2>11. -o.n <= ai
    BY <1>2, <1>3, <1>8
  <2> QED  BY <1>8, <2>8, <2>10, <2>11 DEF m, l, ai
<1> QED  BY <1>6, <1>7, <1>8

-----------------------------------------------------------------------------
(* The days of the account.                                                *)

\* A quotient is not below that of a lesser number.
LEMMA QuotientGrows ==
  ASSUME NEW m \in Nat, NEW n \in Nat, m <= n, NEW d \in Nat \ {0}
  PROVE  m \div d \in Nat /\ n \div d \in Nat /\ m \div d <= n \div d
<1> DEFINE q == m \div d
           k == n \div d
<1>1. q \in Nat /\ k \in Nat
  BY Quotient
<1>2. d * q <= m /\ n < d * k + d
  <2>1. d * q <= m
    BY Quotient
  <2>2. n < d * k + d
    BY Z3
  <2> QED  BY <2>1, <2>2
<1> HIDE DEF q, k
<1>3. ASSUME q > k  PROVE FALSE
  <2>1. d * (q - (k + 1)) >= 0
    BY <1>1, <1>3
  <2>2. d * (q - (k + 1)) = d * q - (d * k + d)
    BY <1>1
  <2>3. d * q \in Nat /\ d * k \in Nat
    BY <1>1
  <2> QED  BY <1>2, <2>1, <2>2, <2>3
<1> QED  BY <1>1, <1>3 DEF q, k

\* A slot is on a day, and a later slot on no earlier day.
LEMMA DayIs ==
  ASSUME WorkerConstants, NEW m \in Nat, NEW n \in Nat, m <= n
  PROVE  /\ Worker!Day(m) \in Nat /\ Worker!Day(m) # 0 /\ Worker!Day(n) \in Nat
         /\ Worker!Day(m) <= Worker!Day(n)
<1>1. PerDay \in Nat \ {0}
  BY DEF WorkerConstants, Worker!WorkerAssumption
<1>2. m \div PerDay \in Nat /\ n \div PerDay \in Nat /\ m \div PerDay <= n \div PerDay
  BY <1>1, QuotientGrows
<1> QED  BY <1>2 DEF Worker!Day

\* An account of a day is one of every later day.
LEMMA LaterDay ==
  ASSUME NEW l, NEW d \in Nat, NEW e \in Nat, d <= e, AccountInv(l, d)
  PROVE  AccountInv(l, e)
<1>1. l.day \in Nat
  BY LedgerFields DEF AccountInv
<1> QED  BY <1>1 DEF AccountInv

\* What the settlement of a day leaves alone.
Alike(m, l) ==
  m.qty = l.qty /\ m.cash = l.cash /\ m.fees = l.fees /\ m.bought = l.bought

\* Settling an account of an earlier day, or of this one, makes it one of the day.
LEMMA SettledIs ==
  ASSUME NEW l, NEW d \in Nat \ {0}, AccountInv(l, d)
  PROVE  LET m == Worker!Settled(l, d)
         IN  AccountInv(m, d) /\ m.day = d /\ Alike(m, l)
<1> DEFINE m == Worker!Settled(l, d)
           free == [s \in Symbols |-> IF l.qty[s] > 0 THEN l.qty[s] ELSE l.avail[s]]
<1>1. l \in Worker!Ledgers
  BY DEF AccountInv
<1>2. /\ l.cash \in Int /\ l.day \in Nat /\ l.fees \in Nat
      /\ l.qty \in [Symbols -> Nat] /\ l.cost \in [Symbols -> Nat]
      /\ l.avail \in [Symbols -> Nat \cup {Unstated}]
      /\ l.bought \in [day : Nat, n : [Symbols -> Nat]]
      /\ l.bought.day \in Nat /\ l.bought.n \in [Symbols -> Nat]
  BY <1>1, LedgerFields
<1>3. CASE l.day # 0 /\ d > l.day
  <2>1. m = [l EXCEPT !.day = d, !.avail = free]
    BY <1>3 DEF Worker!Settled
  <2>2. free \in [Symbols -> Nat \cup {Unstated}]
    BY <1>2
  <2> HIDE DEF free
  <2>3. m \in Worker!Ledgers /\ m.day = d /\ m.avail = free /\ Alike(m, l)
    <3> HIDE DEF m
    <3>1. m \in Worker!Ledgers
      BY <1>1, <2>1, <2>2 DEF Worker!Ledgers
    <3>2. m.day = d /\ m.avail = free /\ Alike(m, l)
      BY <1>1, <2>1 DEF Worker!Ledgers, Alike
    <3> QED  BY <3>1, <3>2
  <2> HIDE DEF m
  <2>4. m.bought.day < m.day
    BY <1>2, <1>3, <2>3 DEF AccountInv, Alike
  <2>5. ASSUME NEW s \in Symbols  PROVE Worker!AvailableInt(m, s) <= m.qty[s]
    <3>1. Worker!AvailableInt(l, s) <= l.qty[s] /\ Worker!AvailableInt(l, s) \in Nat
      <4>1. Worker!AvailableInt(l, s) \in Nat
        BY <1>1, LedgerFields
      <4>2. Worker!AvailableInt(l, s)
              + (IF l.bought.day = l.day THEN l.bought.n[s] ELSE 0) <= l.qty[s]
        BY DEF AccountInv
      <4> QED  BY <1>2, <4>1, <4>2
    <3>2. m.avail[s] = IF l.qty[s] > 0 THEN l.qty[s] ELSE l.avail[s]
      BY <2>3 DEF free
    <3> QED  BY <1>2, <2>3, <3>1, <3>2 DEF Worker!AvailableInt, Alike
  <2>6. m.bought.day # m.day /\ m.bought.day <= m.day /\ m.day <= d
    BY <1>2, <2>3, <2>4 DEF Alike
  <2>7. ASSUME NEW s \in Symbols
        PROVE  Worker!AvailableInt(m, s)
                 + (IF m.bought.day = m.day THEN m.bought.n[s] ELSE 0) <= m.qty[s]
    <3>1. Worker!AvailableInt(m, s) \in Nat
      BY <2>3, LedgerFields
    <3> QED  BY <2>5, <2>6, <3>1
  <2> QED  BY <2>3, <2>6, <2>7 DEF AccountInv, m
<1>4. CASE ~(l.day # 0 /\ d > l.day)
  <2>1. m = [l EXCEPT !.day = d] /\ (l.day = 0 \/ l.day = d)
    <3>1. l.day <= d
      BY DEF AccountInv
    <3>2. l.day = 0 \/ l.day = d
      BY <1>2, <1>4, <3>1
    <3>3. m = [l EXCEPT !.day = IF l.day = 0 THEN d ELSE l.day]
      BY <1>4 DEF Worker!Settled
    <3> QED  BY <3>2, <3>3
  <2> HIDE DEF m
  <2>2. m \in Worker!Ledgers /\ m.day = d /\ m.avail = l.avail /\ Alike(m, l)
    <3>1. m \in Worker!Ledgers
      BY <1>1, <2>1 DEF Worker!Ledgers
    <3>2. m.day = d /\ m.avail = l.avail /\ Alike(m, l)
      BY <1>1, <2>1 DEF Worker!Ledgers, Alike
    <3> QED  BY <3>1, <3>2
  <2>3. l.bought.day <= l.day /\ l.day <= d
    BY DEF AccountInv
  <2>4. m.bought.day <= m.day /\ m.day <= d /\ (m.bought.day = m.day => l.bought.day = l.day)
    BY <1>2, <2>1, <2>2, <2>3 DEF Alike
  <2>5. ASSUME NEW s \in Symbols
        PROVE  Worker!AvailableInt(m, s)
                 + (IF m.bought.day = m.day THEN m.bought.n[s] ELSE 0) <= m.qty[s]
    <3>1. Worker!AvailableInt(m, s) = Worker!AvailableInt(l, s)
      BY <2>2 DEF Worker!AvailableInt
    <3>2. Worker!AvailableInt(l, s) \in Nat /\ l.bought.n[s] \in Nat /\ l.qty[s] \in Nat
      BY <1>1, <1>2, LedgerFields
    <3>3. Worker!AvailableInt(l, s)
            + (IF l.bought.day = l.day THEN l.bought.n[s] ELSE 0) <= l.qty[s]
      BY DEF AccountInv
    <3>4. m.bought.n[s] = l.bought.n[s] /\ m.qty[s] = l.qty[s]
      BY <2>2 DEF Alike
    <3> QED  BY <2>4, <3>1, <3>2, <3>3, <3>4
  <2> QED  BY <2>2, <2>4, <2>5 DEF AccountInv, m
<1> QED  BY <1>3, <1>4

\* The account a task opens with is one of every day, not settled yet.
LEMMA OpenedIs ==
  ASSUME WorkerConstants, opening \in Openings, NEW d \in Nat
  PROVE  AccountInv(Worker!Opened(opening), d)
<1> DEFINE l == Worker!Opened(opening)
<1>1. opening \in Worker!Accounts /\ opening.day = 0
      /\ \A s \in Symbols : opening.avail[s] # Unstated => opening.avail[s] <= opening.qty[s]
  BY DEF WorkerConstants, Worker!WorkerAssumption
<1>2. /\ opening.cash \in Int /\ opening.qty \in [Symbols -> Nat]
      /\ opening.avail \in [Symbols -> Nat \cup {Unstated}] /\ opening.cost \in [Symbols -> Nat]
  BY <1>1 DEF Worker!Accounts
<1>3. /\ l.day = 0 /\ l.qty = opening.qty /\ l.avail = opening.avail
      /\ l.bought.day = 0 /\ l.bought.n = [s \in Symbols |-> 0]
  BY <1>1 DEF Worker!Opened
<1>4. l \in Worker!Ledgers
  BY <1>1, <1>2 DEF Worker!Opened, Worker!Ledgers
<1> HIDE DEF l
<1>5. ASSUME NEW s \in Symbols
      PROVE  Worker!AvailableInt(l, s)
               + (IF l.bought.day = l.day THEN l.bought.n[s] ELSE 0) <= l.qty[s]
  <2>1. l.bought.n[s] = 0 /\ opening.qty[s] \in Nat /\ opening.avail[s] \in Nat \cup {Unstated}
    BY <1>2, <1>3
  <2>2. Worker!AvailableInt(l, s) <= opening.qty[s] /\ Worker!AvailableInt(l, s) \in Nat
    BY <1>1, <1>3, <2>1 DEF Worker!AvailableInt
  <2> QED  BY <1>3, <2>1, <2>2
<1> QED  BY <1>3, <1>4, <1>5 DEF AccountInv, l

\* An account stays one of the day when an order is filled.
LEMMA FillsKeep ==
  ASSUME WorkerConstants, NEW o \in Worker!Orders, NEW l, NEW d, AccountInv(l, d), d \in Nat,
         NEW m \in Worker!Ledgers, Fills(l, o, m),
         Worker!Buy(o) \/ -o.n <= Worker!AvailableInt(l, o.sym)
  PROVE  AccountInv(m, d)
<1> DEFINE today == IF l.bought.day = l.day THEN l.bought.n ELSE [s \in Symbols |-> 0]
<1>1. l \in Worker!Ledgers /\ l.bought.day <= l.day /\ l.day <= d
  BY DEF AccountInv
<1>2. /\ l.day \in Nat /\ l.qty \in [Symbols -> Nat]
      /\ l.avail \in [Symbols -> Nat \cup {Unstated}]
      /\ l.bought.day \in Nat /\ l.bought.n \in [Symbols -> Nat]
      /\ \A s \in Symbols : Worker!AvailableInt(l, s) \in Nat
  BY <1>1, LedgerFields
<1>3. /\ o.sym \in Symbols /\ o.n \in Int /\ (Worker!Buy(o) <=> o.n > 0)
  BY OrderFields
<1>4. today \in [Symbols -> Nat] /\ \A s \in Symbols : today[s] = IF l.bought.day = l.day
                                                        THEN l.bought.n[s] ELSE 0
  BY <1>2
<1>5. \A s \in Symbols : Worker!AvailableInt(l, s) + today[s] <= l.qty[s]
  BY <1>4 DEF AccountInv
<1>6. /\ m.day = l.day /\ m.qty = [l.qty EXCEPT ![o.sym] = @ + o.n]
      /\ m.avail = [l.avail EXCEPT ![o.sym] = Worker!AvailableInt(l, o.sym)
                                                + (IF Worker!Buy(o) THEN 0 ELSE o.n)]
      /\ IF Worker!Buy(o)
         THEN m.bought.day = l.day /\ m.bought.n = [today EXCEPT ![o.sym] = @ + o.n]
         ELSE m.bought = l.bought
  BY DEF Fills
<1> HIDE DEF today
<1>7. m.bought.day <= m.day /\ m.day <= d
  BY <1>1, <1>2, <1>6
<1>8. ASSUME NEW s \in Symbols
      PROVE  Worker!AvailableInt(m, s)
               + (IF m.bought.day = m.day THEN m.bought.n[s] ELSE 0) <= m.qty[s]
  <2>1. (IF m.bought.day = m.day THEN m.bought.n[s] ELSE 0)
          = today[s] + (IF s = o.sym /\ Worker!Buy(o) THEN o.n ELSE 0)
    <3>1. CASE Worker!Buy(o)
      <4>1. m.bought.day = m.day /\ m.bought.n = [today EXCEPT ![o.sym] = @ + o.n]
        BY <1>6, <3>1
      <4>2. m.bought.n[s] = today[s] + (IF s = o.sym THEN o.n ELSE 0)
        BY <1>3, <1>4, <4>1
      <4>3. CASE s = o.sym
        BY <3>1, <4>1, <4>2, <4>3
      <4>4. CASE s # o.sym
        BY <4>1, <4>2, <4>4
      <4> QED  BY <4>3, <4>4
    <3>2. CASE ~Worker!Buy(o)
      BY <1>2, <1>3, <1>4, <1>6, <3>2
    <3> QED  BY <3>1, <3>2
  <2>2. m.qty[s] = l.qty[s] + (IF s = o.sym THEN o.n ELSE 0)
    BY <1>2, <1>3, <1>6
  <2>3. CASE s = o.sym
    <3> DEFINE left == Worker!AvailableInt(l, s) + (IF Worker!Buy(o) THEN 0 ELSE o.n)
    <3>1. left \in Nat
      BY <1>2, <1>3, <2>3
    <3>2. m.avail[s] = left
      BY <1>2, <1>6, <2>3
    <3>3. Worker!AvailableInt(m, s) = left
      <4>1. Unstated \notin Nat
        BY DEF WorkerConstants, Worker!FeeAssumption
      <4> HIDE DEF left
      <4> QED  BY <3>1, <3>2, <4>1 DEF Worker!AvailableInt
    <3>4. Worker!AvailableInt(l, s) + today[s] <= l.qty[s] /\ Worker!AvailableInt(l, s) \in Nat
          /\ today[s] \in Nat /\ l.qty[s] \in Nat
      BY <1>2, <1>4, <1>5
    <3>5. CASE Worker!Buy(o)
      BY <1>3, <2>1, <2>2, <2>3, <3>3, <3>4, <3>5
    <3>6. CASE ~Worker!Buy(o)
      BY <1>3, <2>1, <2>2, <2>3, <3>3, <3>4, <3>6
    <3> QED  BY <3>5, <3>6
  <2>4. CASE s # o.sym
    <3>1. m.avail[s] = l.avail[s]
      BY <1>2, <1>6, <2>4
    <3>2. Worker!AvailableInt(m, s) = Worker!AvailableInt(l, s)
      BY <3>1 DEF Worker!AvailableInt
    <3> QED  BY <1>2, <1>4, <1>5, <2>1, <2>2, <2>4, <3>2
  <2> QED  BY <2>3, <2>4
<1> QED  BY <1>7, <1>8 DEF AccountInv

-----------------------------------------------------------------------------
(* What a cycle begins with.                                               *)

Held(l) == Worker!SumFunction([s \in Symbols |-> l.qty[s] * Worker!Price[s]])

\* Holdings at marks are worth a number that is at least zero.
LEMMA HoldingsAre ==
  ASSUME WorkerConstants, NEW qty \in [Symbols -> Nat], NEW mark \in [Symbols -> Nat]
  PROVE  /\ [s \in Symbols |-> qty[s] * mark[s]] \in [Symbols -> Int]
         /\ Worker!SumFunction([s \in Symbols |-> qty[s] * mark[s]]) \in Int
         /\ Worker!SumFunction([s \in Symbols |-> qty[s] * mark[s]]) >= 0
<1> DEFINE f == [s \in Symbols |-> qty[s] * mark[s]]
<1>1. \A s \in Symbols : f[s] \in Nat
  OBVIOUS
<1>2. f \in [Symbols -> Int]
  BY <1>1
<1>3. \A s \in Symbols : f[s] >= 0
  BY <1>1
<1> HIDE DEF f
<1>4. Worker!SumFunction(f) \in Int /\ Worker!SumFunction(f) >= 0
  BY <1>2, <1>3, FiniteSymbols, SumType
<1> QED  BY <1>2, <1>4 DEF f

\* The prices of a slot, and what the account is worth when a cycle begins.
LEMMA WorthIs ==
  ASSUME WorkerConstants, Worker!TypeOK, slot < Slots
  PROVE  Worker!Price \in [Symbols -> Nat \ {0}] /\ Worker!Worth \in Int
<1>1. slot \in 0 .. Slots - 1 /\ market \in [0 .. Slots - 1 -> [Symbols -> Nat \ {0}]]
  BY DEF WorkerConstants, Worker!WorkerAssumption, Worker!TypeOK
<1>2. Worker!Price \in [Symbols -> Nat \ {0}]
  BY <1>1 DEF Worker!Price
<1>3. ledger.qty \in [Symbols -> Nat] /\ ledger.cost \in [Symbols -> Nat] /\ ledger.cash \in Int
  BY LedgerFields DEF Worker!TypeOK
<1> DEFINE mark == IF kind = "backtest" THEN Worker!Price ELSE ledger.cost
           qty  == ledger.qty
<1>4. mark \in [Symbols -> Nat] /\ qty \in [Symbols -> Nat]
  BY <1>2, <1>3
<1>5. Worker!Worth = ledger.cash + Worker!SumFunction([s \in Symbols |-> qty[s] * mark[s]])
  BY DEF Worker!Worth, Worker!Equity
<1> HIDE DEF mark, qty
<1>6. Worker!SumFunction([s \in Symbols |-> qty[s] * mark[s]]) \in Int
  BY <1>4, HoldingsAre
<1> QED  BY <1>2, <1>3, <1>5, <1>6

\* The use of the budget is a number; it is what the holdings are worth where the
\* records cover them.
LEMMA UsageIs ==
  ASSUME WorkerConstants, Worker!TypeOK, slot < Slots
  PROVE  /\ Worker!Usage \in Int /\ Held(ledger) \in Int
         /\ (\A t \in Symbols : fills[t] >= ledger.qty[t]) => Worker!Usage = Held(ledger)
<1> DEFINE used(s) == Worker!Min({Worker!Max({0, fills[s]}), ledger.qty[s]})
           used_of == [s \in Symbols |-> used(s)]
<1>1. Worker!Price \in [Symbols -> Nat]
  BY WorthIs
<1>2. ledger.qty \in [Symbols -> Nat] /\ fills \in [Symbols -> Int]
  BY LedgerFields DEF Worker!TypeOK
<1>3. ASSUME NEW s \in Symbols
      PROVE  used(s) \in Nat /\ (fills[s] >= ledger.qty[s] => used(s) = ledger.qty[s])
  <2> DEFINE f == fills[s]
             q == ledger.qty[s]
             r == Worker!Max({0, f})
  <2>1. f \in Int /\ q \in Nat
    BY <1>2
  <2> HIDE DEF f, q
  <2>2. r \in Nat /\ (f >= q => r >= q)
    BY <2>1, NotBelowZero
  <2> HIDE DEF r
  <2>3. Worker!Min({r, q}) = IF r <= q THEN r ELSE q
    BY <2>1, <2>2, OfTwo
  <2>4. Worker!Min({r, q}) \in Nat /\ (f >= q => Worker!Min({r, q}) = q)
    BY <2>1, <2>2, <2>3
  <2> QED  BY <2>4 DEF f, q, r
<1>4. used_of \in [Symbols -> Nat]
  BY <1>3
<1>5. Worker!Usage = Worker!SumFunction([s \in Symbols |-> used_of[s] * Worker!Price[s]])
  BY DEF Worker!Usage
<1>6. (\A t \in Symbols : fills[t] >= ledger.qty[t]) => used_of = ledger.qty
  BY <1>2, <1>3
<1> HIDE DEF used_of
<1>7. Worker!Usage \in Int
  BY <1>1, <1>4, <1>5, HoldingsAre
<1>8. Held(ledger) \in Int
  BY <1>1, <1>2, HoldingsAre DEF Held
<1> QED  BY <1>5, <1>6, <1>7, <1>8 DEF Held

\* The caps of a budget are integers with a least one, if there are any.
LEMMA CapsAre ==
  ASSUME WorkerConstants, Worker!Worth \in Int, Worker!BudgetCaps # {}
  PROVE  /\ Worker!BudgetCaps \subseteq Int /\ Worker!Min(Worker!BudgetCaps) \in Int
         /\ \A cap \in Worker!BudgetCaps : Worker!Min(Worker!BudgetCaps) <= cap
<1> DEFINE w == Worker!Worth
           low == IF w >= 0 THEN 0 ELSE w
           S == Worker!BudgetCaps
<1>1. TaskAmounts \subseteq Nat /\ TaskRatios \subseteq 0 .. 100
  BY DEF WorkerConstants, Worker!WorkerAssumption
<1>2. w \in Int /\ low \in Int
  OBVIOUS
<1>3. ASSUME NEW r \in 0 .. 100  PROVE (w * r) \div 100 \in Int /\ low <= (w * r) \div 100
  <2> DEFINE m == w * r
  <2>1. m \in Int /\ m >= 100 * low
    <3>1. CASE w >= 0
      BY <1>2, <3>1
    <3>2. CASE ~(w >= 0)
      <4>1. (0 - w) * (100 - r) >= 0
        BY <1>2, <3>2
      <4>2. (0 - w) * (100 - r) = m - 100 * w
        BY <1>2
      <4>3. m \in Int
        BY <1>2
      <4> QED  BY <1>2, <3>2, <4>1, <4>2, <4>3
    <3> QED  BY <3>1, <3>2
  <2> HIDE DEF m, low
  <2>2. m \div 100 \in Int /\ low <= m \div 100
    BY <1>2, <2>1
  <2> QED  BY <2>2 DEF m
<1>4. ASSUME NEW x \in S  PROVE x \in Int /\ low <= x
  <2>1. x \in TaskAmounts \/ \E r \in TaskRatios : x = (w * r) \div 100
    BY DEF Worker!BudgetCaps
  <2>2. CASE x \in TaskAmounts
    BY <1>1, <1>2, <2>2
  <2>3. CASE \E r \in TaskRatios : x = (w * r) \div 100
    BY <1>1, <1>3, <2>3
  <2> QED  BY <2>1, <2>2, <2>3
<1> HIDE DEF S, low
<1>5. S \subseteq Int /\ S # {} /\ \A x \in S : low <= x
  BY <1>4 DEF S
<1>6. Worker!Min(S) \in S /\ \A x \in S : Worker!Min(S) <= x
  BY <1>2, <1>5, MinIs
<1> QED  BY <1>5, <1>6 DEF S

\* Purchases that fit the room fit every cap of the budget with what is used.
LEMMA RoomIs ==
  ASSUME WorkerConstants, Worker!Worth \in Int, Worker!Usage \in Int
  PROVE  /\ Worker!Room \subseteq Nat
         /\ \A b \in Nat \ {0} : (\A r \in Worker!Room : b <= r) =>
              \A cap \in Worker!BudgetCaps : Worker!Usage + b <= cap
<1> DEFINE S == Worker!BudgetCaps
           u == Worker!Usage
           left == Worker!Min(S) - u
<1>1. CASE S = {}
  BY <1>1 DEF Worker!Room
<1>2. CASE S # {}
  <2>1. Worker!Min(S) \in Int /\ S \subseteq Int /\ \A cap \in S : Worker!Min(S) <= cap
    BY <1>2, CapsAre
  <2>2. Worker!Room = {Worker!Max({0, left})}
    BY <1>2 DEF Worker!Room
  <2>3. left \in Int /\ u \in Int
    BY <2>1
  <2>4. left + u = Worker!Min(S)
    BY <2>1, <2>3
  <2> HIDE DEF left, u, S
  <2>5. Worker!Max({0, left}) = IF 0 >= left THEN 0 ELSE left
    BY <2>3, NotBelowZero
  <2>6. Worker!Room \subseteq Nat
    BY <2>2, <2>3, <2>5
  <2>7. ASSUME NEW b \in Nat \ {0}, \A r \in Worker!Room : b <= r, NEW cap \in S
        PROVE  u + b <= cap
    <3>1. b <= left
      BY <2>2, <2>3, <2>5, <2>7
    <3> QED  BY <2>1, <2>3, <2>4, <3>1
  <2> QED  BY <2>6, <2>7 DEF S, u
<1> QED  BY <1>1, <1>2

\* What is bought makes the bill greater than zero.
LEMMA BillBuying ==
  ASSUME WorkerConstants, NEW orders \in Seq(Worker!Orders), Distinct(orders), Buying(orders)
  PROVE  Bill(orders) \in Nat \ {0}
<1> DEFINE f == Costs(orders)
<1>1. PICK i \in DOMAIN orders : Worker!Buy(orders[i])
  BY DEF Buying
<1> DEFINE x == orders[i].sym
           h == [f EXCEPT ![x] = 0]
<1>2. /\ f \in [Symbols -> Int] /\ \A s \in Symbols : f[s] >= 0
      /\ x \in Symbols /\ f[x] = Notional(orders[i])
  BY CostsAre
<1>3. f[x] > 0
  <2>1. orders[i] \in Worker!Orders
    OBVIOUS
  <2>2. orders[i].n \in Int /\ orders[i].price \in Nat \ {0} /\ orders[i].n > 0
    BY <1>1, <2>1, OrderFields
  <2>3. orders[i].price * orders[i].n > 0
    BY <2>2
  <2> QED  BY <1>1, <1>2, <2>3 DEF Notional
<1>4. h \in [Symbols -> Int] /\ (\A y \in Symbols \ {x} : f[y] = h[y]) /\ h[x] = 0
      /\ \A s \in Symbols : h[s] >= 0
  BY <1>2
<1> HIDE DEF f, h, x
<1>5. Worker!SumFunction(h) = Worker!SumFunction(f) - f[x] + h[x]
  BY <1>2, <1>4, FiniteSymbols, SumUpdate
<1>6. Worker!SumFunction(h) \in Int /\ Worker!SumFunction(h) >= 0 /\ Worker!SumFunction(f) \in Int
  BY <1>2, <1>4, FiniteSymbols, SumType
<1>7. f[x] \in Int
  BY <1>2
<1>8. Worker!SumFunction(f) > 0
  BY <1>3, <1>4, <1>5, <1>6, <1>7
<1> QED  BY <1>6, <1>8 DEF Bill, f

-----------------------------------------------------------------------------
(* The inductive invariant of the worker.                                  *)

\* Where the worker is, and what is stored by then.
PlaceInv ==
  /\ at \in {"orders", "progress", "ledger"} => slot < Slots
  /\ at = "orders" => ledger.day = Worker!Day(slot)
  /\ kind = "paper" => at \notin {"progress", "ledger"} /\ saved.bars = 0 /\ saved.ledger = None
  /\ kind = "backtest" /\ at \in {"idle", "orders", "progress"} => saved.bars = slot
  /\ kind = "backtest" /\ at = "ledger" => saved.bars = slot + 1

\* The account is one of the day, and so is the stored one for the bar it is taken
\* up at.
DaysInv ==
  /\ AccountInv(ledger, Worker!Day(slot))
  /\ saved.ledger # None => AccountInv(saved.ledger, Worker!Day(saved.bars))

\* The orders left can be filled.
OrdersInv == at = "orders" => Placed(cyc.orders, ledger, Worker!Price)

\* The peak is above what any finished cycle began with, and a cycle below the limit
\* from there has nothing to buy.
HaltInv ==
  /\ top <= peak
  /\ at = "orders" /\ Worker!Breached(top, cyc.equity) => ~Buying(cyc.orders)

\* The caps of the task's budget, of the equity the cycle began with.
CycleCaps == TaskAmounts \cup {(cyc.equity * r) \div 100 : r \in TaskRatios}

\* What is left to buy is paid for, and keeps the holdings within the budget.
BudgetInv ==
  at = "orders" /\ Buying(cyc.orders) =>
    /\ Bill(cyc.orders) <= ledger.cash + ledger.fees
    /\ (\A t \in Symbols : fills[t] >= ledger.qty[t]) =>
         \A cap \in CycleCaps : Held(ledger) + Bill(cyc.orders) <= cap

WorkerInv ==
  Worker!TypeOK /\ PlaceInv /\ DaysInv /\ OrdersInv /\ HaltInv /\ BudgetInv

\* The worker starts in a state of the invariant.
LEMMA WorkerInit ==
  ASSUME WorkerConstants, Worker!Init
  PROVE  WorkerInv
<1>1. /\ kind \in {"paper", "backtest"} /\ opening \in Openings /\ market \in Markets
      /\ ledger = Worker!Opened(opening) /\ saved = [bars |-> 0, ledger |-> None]
      /\ slot = 0 /\ at = "idle" /\ peak = 0 /\ cyc = Worker!Resting
      /\ fills \in Leftovers /\ top = 0 /\ slips = 0
  BY DEF Worker!Init
<1>2. Slots \in Nat /\ MaxSlips \in Nat /\ Leftovers \subseteq [Symbols -> Int]
  BY DEF WorkerConstants, Worker!WorkerAssumption
<1>3. AccountInv(ledger, Worker!Day(slot))
  <2>1. Worker!Day(0) \in Nat
    BY DayIs
  <2> QED  BY <1>1, <2>1, OpenedIs
<1>4. Worker!Resting \in [orders : Seq(Worker!Orders), equity : Int, failed : BOOLEAN]
  BY DEF Worker!Resting
<1>5. Worker!TypeOK
  BY <1>1, <1>2, <1>3, <1>4 DEF Worker!TypeOK, AccountInv
<1>6. PlaceInv /\ DaysInv
  BY <1>1, <1>3 DEF PlaceInv, DaysInv
<1>7. OrdersInv /\ HaltInv /\ BudgetInv
  BY <1>1 DEF OrdersInv, HaltInv, BudgetInv
<1> QED  BY <1>5, <1>6, <1>7 DEF WorkerInv

\* The numbers of a state.
LEMMA WorkerFields ==
  ASSUME WorkerConstants, WorkerInv
  PROVE  /\ slot \in 0 .. Slots /\ slot \in Nat /\ Slots \in Nat
         /\ Worker!Day(slot) \in Nat \ {0} /\ saved.bars \in 0 .. Slots
         /\ ledger \in Worker!Ledgers /\ peak \in Nat /\ top \in Nat /\ top <= peak
         /\ cyc.orders \in Seq(Worker!Orders) /\ cyc.equity \in Int /\ cyc.failed \in BOOLEAN
         /\ Drawdown \in 0 .. 100 /\ opening \in Openings /\ fills \in [Symbols -> Int]
<1>1. Slots \in Nat /\ Drawdown \in 0 .. 100
  BY DEF WorkerConstants, Worker!WorkerAssumption
<1>2. slot \in 0 .. Slots /\ slot \in Nat
  BY <1>1 DEF WorkerInv, Worker!TypeOK
<1>3. Worker!Day(slot) \in Nat \ {0}
  BY <1>2, DayIs
<1>4. saved.bars \in 0 .. Slots /\ ledger \in Worker!Ledgers /\ peak \in Nat /\ top \in Nat
      /\ cyc.orders \in Seq(Worker!Orders) /\ cyc.equity \in Int /\ cyc.failed \in BOOLEAN
      /\ opening \in Openings /\ fills \in [Symbols -> Int]
  BY DEF WorkerInv, Worker!TypeOK
<1> QED  BY <1>1, <1>2, <1>3, <1>4 DEF WorkerInv, HaltInv

\* A cycle begins with the account settled.
LEMMA BeginKeeps ==
  ASSUME WorkerConstants, WorkerInv, Worker!Begin
  PROVE  /\ slot < Slots /\ Worker!Price' = Worker!Price
         /\ ledger' = Worker!Settled(ledger, Worker!Day(slot))
         /\ AccountInv(ledger', Worker!Day(slot)) /\ ledger'.day = Worker!Day(slot)
         /\ Alike(ledger', ledger)
         /\ PlaceInv' /\ DaysInv'
<1>1. /\ at = "idle" /\ slot < Slots /\ at' = "orders"
      /\ ledger' = Worker!Settled(ledger, Worker!Day(slot))
      /\ kind' = kind /\ market' = market /\ slot' = slot /\ saved' = saved
  BY DEF Worker!Begin
<1>2. AccountInv(ledger, Worker!Day(slot))
      /\ (saved.ledger # None => AccountInv(saved.ledger, Worker!Day(saved.bars)))
  BY DEF WorkerInv, DaysInv
<1>3. AccountInv(ledger', Worker!Day(slot)) /\ ledger'.day = Worker!Day(slot)
      /\ Alike(ledger', ledger)
  BY <1>1, <1>2, WorkerFields, SettledIs
<1>4. Worker!Price' = Worker!Price
  BY <1>1 DEF Worker!Price
<1>5. PlaceInv'
  BY <1>1, <1>3 DEF WorkerInv, PlaceInv
<1>6. DaysInv'
  BY <1>1, <1>2, <1>3 DEF DaysInv
<1> QED  BY <1>1, <1>3, <1>4, <1>5, <1>6

\* Above the limit from the best of the cycles, above it from a higher peak.
LEMMA BreachedGrows ==
  ASSUME Drawdown \in 0 .. 100, NEW low \in Nat, NEW high \in Nat, low <= high,
         NEW e \in Int, Worker!Breached(low, e)
  PROVE  Worker!Breached(high, e)
<1>1. (high - low) * (100 - Drawdown) >= 0
  OBVIOUS
<1>2. (high - low) * (100 - Drawdown)
        = (high * 100 - Drawdown * high) - (low * 100 - Drawdown * low)
  OBVIOUS
<1>3. (low - e) * 100 > Drawdown * low
  BY DEF Worker!Breached
<1>4. Drawdown * low \in Int /\ Drawdown * high \in Int
  OBVIOUS
<1>5. (high - e) * 100 > Drawdown * high
  BY <1>1, <1>2, <1>3, <1>4
<1> QED  BY <1>5 DEF Worker!Breached

\* A cycle keeps the invariant: what it asks for can be filled and paid, and a halt
\* leaves no purchase.
LEMMA CycleKeeps ==
  ASSUME WorkerConstants, WorkerInv, NEW signals \in Signals, Worker!Cycle(signals)
  PROVE  WorkerInv'
<1> DEFINE l == ledger'
           w == Worker!Worth
           asked == Worker!Intents(signals, l, Worker!Price, w, Worker!Room)
           left  == Worker!Allowed(asked)
<1>1. Worker!Begin
  BY DEF Worker!Cycle
<1>2. /\ slot < Slots /\ Worker!Price' = Worker!Price
      /\ l = Worker!Settled(ledger, Worker!Day(slot))
      /\ AccountInv(l, Worker!Day(slot)) /\ Alike(l, ledger)
      /\ PlaceInv' /\ DaysInv'
  BY <1>1, BeginKeeps
<1>3. /\ peak' = Worker!Peak(w) /\ top' = Worker!Max({top, w})
      /\ cyc' = [orders |-> left, equity |-> w, failed |-> FALSE]
      /\ kind' = kind /\ opening' = opening /\ market' = market /\ slot' = slot
      /\ at' = "orders" /\ saved' = saved /\ fills' = fills /\ slips' = slips
  BY <1>2 DEF Worker!Cycle, Worker!Begin
<1>4. /\ Worker!Price \in [Symbols -> Nat \ {0}] /\ w \in Int
      /\ Worker!Usage \in Int /\ Held(ledger) \in Int
      /\ (\A t \in Symbols : fills[t] >= ledger.qty[t]) => Worker!Usage = Held(ledger)
  BY <1>2, WorthIs, UsageIs DEF WorkerInv
<1>5. /\ Worker!Room \subseteq Nat
      /\ \A b \in Nat \ {0} : (\A r \in Worker!Room : b <= r) =>
           \A cap \in Worker!BudgetCaps : Worker!Usage + b <= cap
  BY <1>4, RoomIs
<1>6. l \in Worker!Ledgers /\ l.cash \in Int /\ l.fees \in Nat
  BY <1>2, LedgerFields DEF AccountInv
<1> HIDE DEF l, w
<1>7. /\ Placed(asked, l, Worker!Price)
      /\ Buying(asked) => Bill(asked) <= l.cash /\ \A r \in Worker!Room : Bill(asked) <= r
  BY <1>4, <1>5, <1>6, IntentsAre
<1> HIDE DEF asked
<1>8. /\ Placed(left, l, Worker!Price)
      /\ IF Worker!Breached(Worker!Peak(w), w) THEN ~Buying(left) ELSE left = asked
  BY <1>7, AllowedAre DEF w
<1> HIDE DEF left
<1>9. peak' = (IF peak >= w THEN peak ELSE w) /\ top' = (IF top >= w THEN top ELSE w)
  <2>1. peak \in Int /\ top \in Int
    BY WorkerFields
  <2>2. Worker!Max({peak, w}) = IF peak >= w THEN peak ELSE w
    BY <1>4, <2>1, OfTwo
  <2>3. Worker!Max({top, w}) = IF top >= w THEN top ELSE w
    BY <1>4, <2>1, OfTwo
  <2> QED  BY <1>3, <2>2, <2>3 DEF Worker!Peak
<1>10. peak' \in Nat /\ top' \in Nat /\ top' <= peak'
  BY <1>4, <1>9, WorkerFields
<1>11. left \in Seq(Worker!Orders) /\ Distinct(left)
  BY <1>8 DEF Placed
<1>12. Worker!TypeOK'
  <2>1. cyc' \in [orders : Seq(Worker!Orders), equity : Int, failed : BOOLEAN]
    BY <1>3, <1>4, <1>11
  <2>2. ledger' \in Worker!Ledgers
    BY <1>6 DEF l
  <2> QED  BY <1>3, <1>10, <2>1, <2>2 DEF WorkerInv, Worker!TypeOK
<1>13. cyc'.orders = left /\ cyc'.equity = w
  BY <1>3
<1>14. OrdersInv'
  BY <1>2, <1>8, <1>13 DEF OrdersInv, l
<1>15. HaltInv'
  <2>1. ASSUME Worker!Breached(top', w)  PROVE ~Buying(left)
    <3>1. Worker!Breached(peak', w)
      BY <1>4, <1>10, <2>1, WorkerFields, BreachedGrows
    <3> QED  BY <1>3, <1>8, <3>1
  <2>2. Worker!Breached(top, cyc.equity)' => Worker!Breached(top', w)
    BY <1>13 DEF Worker!Breached
  <2> QED  BY <1>10, <1>13, <2>1, <2>2 DEF HaltInv
<1>16. ASSUME Buying(left)
       PROVE  /\ Bill(left) <= l.cash + l.fees
              /\ (\A t \in Symbols : fills[t] >= ledger.qty[t]) =>
                   \A cap \in Worker!BudgetCaps : Held(ledger) + Bill(left) <= cap
  <2>1. left = asked /\ Buying(asked)
    BY <1>8, <1>16
  <2>2. Bill(left) \in Nat \ {0}
    BY <1>11, <1>16, BillBuying
  <2>3. Bill(left) <= l.cash /\ \A r \in Worker!Room : Bill(left) <= r
    BY <1>7, <2>1
  <2>4. Bill(left) <= l.cash + l.fees
    BY <1>6, <2>2, <2>3
  <2>5. \A cap \in Worker!BudgetCaps : Worker!Usage + Bill(left) <= cap
    BY <1>5, <2>2, <2>3
  <2> QED  BY <1>4, <2>4, <2>5
<1>17. BudgetInv'
  <2>1. l.qty = ledger.qty
    BY <1>2 DEF Alike
  <2>2. Held(ledger)' = Held(ledger)
    BY <1>2, <2>1 DEF Held, l
  <2>3. CycleCaps' = Worker!BudgetCaps
    BY <1>13 DEF CycleCaps, Worker!BudgetCaps, w
  <2> QED  BY <1>3, <1>13, <1>16, <2>1, <2>2, <2>3 DEF BudgetInv, l
<1> QED  BY <1>2, <1>12, <1>14, <1>15, <1>17 DEF WorkerInv

\* A cycle that asks for nothing keeps it.
LEMMA CutShortKeeps ==
  ASSUME WorkerConstants, WorkerInv, Worker!CutShort
  PROVE  WorkerInv'
<1>1. Worker!Begin
  BY DEF Worker!CutShort
<1>2. /\ slot < Slots /\ AccountInv(ledger', Worker!Day(slot)) /\ PlaceInv' /\ DaysInv'
  BY <1>1, BeginKeeps
<1>3. /\ kind' = kind /\ opening' = opening /\ market' = market /\ slot' = slot
      /\ at' = "orders" /\ saved' = saved /\ fills' = fills /\ slips' = slips
      /\ cyc' = [Worker!Resting EXCEPT !.equity = Worker!Worth, !.failed = kind = "backtest"]
      /\ peak' = peak /\ top' = top
  BY <1>1 DEF Worker!CutShort, Worker!Begin
<1>4. Worker!Worth \in Int
  BY <1>2, WorthIs DEF WorkerInv
<1> DEFINE failing == kind = "backtest"
<1>5. failing \in BOOLEAN
  OBVIOUS
<1> HIDE DEF failing
<1>6. cyc' = [orders |-> <<>>, equity |-> Worker!Worth, failed |-> failing]
  BY <1>3 DEF Worker!Resting, failing
<1>7. cyc' \in [orders : Seq(Worker!Orders), equity : Int, failed : BOOLEAN]
  BY <1>4, <1>5, <1>6
<1>8. cyc'.orders = <<>>
  BY <1>6
<1>9. Worker!TypeOK'
  BY <1>2, <1>3, <1>7 DEF WorkerInv, Worker!TypeOK, AccountInv
<1>10. ~Buying(cyc'.orders) /\ Placed(cyc'.orders, ledger', Worker!Price')
  BY <1>8 DEF Buying, Placed, Distinct
<1>11. OrdersInv' /\ HaltInv' /\ BudgetInv'
  BY <1>3, <1>10 DEF WorkerInv, OrdersInv, HaltInv, BudgetInv
<1> QED  BY <1>2, <1>9, <1>11 DEF WorkerInv

\* An order left of a cycle: the account stays one of the day, the sale that is
\* refused was of a position whose availability is open.
LEMMA FirstOrder ==
  ASSUME WorkerConstants, WorkerInv, at = "orders", cyc.orders # <<>>
  PROVE  LET o == Head(cyc.orders)
             m == Worker!Booked(ledger, o)
         IN  /\ o \in Worker!Orders /\ o = cyc.orders[1] /\ 1 \in DOMAIN cyc.orders
             /\ o.price = Worker!Price[o.sym]
             /\ AccountInv(m, Worker!Day(slot)) /\ m.day = Worker!Day(slot)
             /\ \/ m = ledger /\ ~Worker!Buy(o) /\ ledger.avail[o.sym] = Unstated
                \/ Fills(ledger, o, m)
<1> DEFINE o == Head(cyc.orders)
           m == Worker!Booked(ledger, o)
           d == Worker!Day(slot)
<1>1. Placed(cyc.orders, ledger, Worker!Price) /\ AccountInv(ledger, d) /\ ledger.day = d
      /\ d \in Nat /\ ledger \in Worker!Ledgers
  BY WorkerFields DEF WorkerInv, OrdersInv, DaysInv, PlaceInv
<1>2. cyc.orders \in Seq(Worker!Orders)
  BY WorkerFields
<1>3. o \in Worker!Orders /\ o = cyc.orders[1] /\ 1 \in DOMAIN cyc.orders
  BY <1>2
<1>4. o.price = Worker!Price[o.sym]
      /\ (Worker!Sell(o) => ledger.avail[o.sym] = Unstated \/ -o.n <= ledger.avail[o.sym])
  BY <1>1, <1>3 DEF Placed
<1> HIDE DEF o, d
<1>5. /\ m \in Worker!Ledgers
      /\ \/ m = ledger /\ ~Worker!Buy(o) /\ -o.n > Worker!AvailableInt(ledger, o.sym)
         \/ Fills(ledger, o, m)
            /\ (Worker!Buy(o) \/ -o.n <= Worker!AvailableInt(ledger, o.sym))
  BY <1>1, <1>3, BookedIs DEF d
<1> HIDE DEF m
<1>6. CASE m = ledger /\ ~Worker!Buy(o) /\ -o.n > Worker!AvailableInt(ledger, o.sym)
  <2>1. Worker!Sell(o) /\ o.sym \in Symbols /\ o.n \in Int
    BY <1>3, <1>6, OrderFields
  <2>2. ASSUME ledger.avail[o.sym] # Unstated  PROVE FALSE
    <3>1. Worker!AvailableInt(ledger, o.sym) = ledger.avail[o.sym]
      BY <2>2 DEF Worker!AvailableInt
    <3>2. Worker!AvailableInt(ledger, o.sym) \in Nat
      BY <1>1, <2>1, LedgerFields
    <3>3. -o.n <= ledger.avail[o.sym]
      BY <1>4, <2>1, <2>2
    <3> QED  BY <1>6, <2>1, <3>1, <3>2, <3>3
  <2> QED  BY <1>1, <1>3, <1>4, <1>6, <2>2 DEF o, m, d
<1>7. CASE Fills(ledger, o, m)
           /\ (Worker!Buy(o) \/ -o.n <= Worker!AvailableInt(ledger, o.sym))
  <2>1. AccountInv(m, d)
    BY <1>1, <1>3, <1>5, <1>7, FillsKeep
  <2>2. m.day = d
    BY <1>1, <1>7 DEF Fills
  <2> QED  BY <1>3, <1>4, <1>7, <2>1, <2>2 DEF o, m, d
<1> QED  BY <1>5, <1>6, <1>7

\* What a fill makes of the holdings, at the prices of the slot.
LEMMA HeldAfter ==
  ASSUME WorkerConstants, WorkerInv, slot < Slots, NEW o \in Worker!Orders,
         o.price = Worker!Price[o.sym], NEW m \in Worker!Ledgers, Fills(ledger, o, m)
  PROVE  Held(m) = Held(ledger) + o.price * o.n
<1> DEFINE f == [s \in Symbols |-> ledger.qty[s] * Worker!Price[s]]
           h == [s \in Symbols |-> m.qty[s] * Worker!Price[s]]
           x == o.sym
<1>1. Worker!Price \in [Symbols -> Nat \ {0}]
  BY WorthIs DEF WorkerInv
<1>2. ledger.qty \in [Symbols -> Nat] /\ m.qty \in [Symbols -> Nat]
  BY LedgerFields, WorkerFields
<1>3. x \in Symbols /\ o.n \in Int /\ o.price \in Nat \ {0}
  BY OrderFields
<1>4. f \in [Symbols -> Int] /\ h \in [Symbols -> Int]
  BY <1>1, <1>2, HoldingsAre
<1>5. m.qty = [ledger.qty EXCEPT ![x] = @ + o.n]
  BY DEF Fills
<1>6. \A y \in Symbols \ {x} : f[y] = h[y]
  BY <1>2, <1>3, <1>5
<1>7. h[x] = f[x] + o.price * o.n
  <2>1. h[x] = (ledger.qty[x] + o.n) * o.price /\ f[x] = ledger.qty[x] * o.price
    BY <1>2, <1>3, <1>5
  <2>2. ledger.qty[x] \in Int
    BY <1>2, <1>3
  <2> HIDE DEF f, h
  <2> QED  BY <1>3, <2>1, <2>2
<1> HIDE DEF f, h, x
<1>8. Worker!SumFunction(h) = Worker!SumFunction(f) - f[x] + h[x]
  BY <1>3, <1>4, <1>6, FiniteSymbols, SumUpdate
<1>9. Worker!SumFunction(f) \in Int /\ f[x] \in Int /\ o.price * o.n \in Int
  BY <1>3, <1>4, FiniteSymbols, SumType
<1>10. Worker!SumFunction(h) = Worker!SumFunction(f) + o.price * o.n
  BY <1>7, <1>8, <1>9
<1> QED  BY <1>10 DEF Held, f, h

\* The orders left after the first can be filled from the account it leaves.
LEMMA TailPlaced ==
  ASSUME WorkerConstants, NEW l, NEW price, NEW orders, Placed(orders, l, price),
         orders # <<>>, NEW m, l.avail \in [Symbols -> Nat \cup {Unstated}],
         m = l \/ Fills(l, Head(orders), m)
  PROVE  /\ Placed(Tail(orders), m, price)
         /\ Buying(Tail(orders)) => Buying(orders)
<1> DEFINE rest == Tail(orders)
<1>1. orders \in Seq(Worker!Orders) /\ Distinct(orders)
  BY DEF Placed
<1>2. rest \in Seq(Worker!Orders) /\ Distinct(rest)
  BY <1>1, BillTail
<1>3. \A i \in DOMAIN rest : i + 1 \in DOMAIN orders /\ rest[i] = orders[i + 1] /\ i + 1 # 1
  BY <1>1
<1>4. Head(orders) = orders[1] /\ 1 \in DOMAIN orders
  BY <1>1
<1> HIDE DEF rest
<1>5. ASSUME NEW i \in DOMAIN rest
      PROVE  /\ rest[i].price = price[rest[i].sym]
             /\ Worker!Sell(rest[i]) =>
                  m.avail[rest[i].sym] = Unstated \/ -rest[i].n <= m.avail[rest[i].sym]
  <2> DEFINE k == i + 1
             p == orders[k]
  <2>1. k \in DOMAIN orders /\ rest[i] = p /\ k # 1
    BY <1>3
  <2> HIDE DEF k
  <2>2. p.sym # Head(orders).sym
    BY <1>1, <1>4, <2>1 DEF Distinct
  <2>3. p \in Worker!Orders
    BY <1>1, <2>1
  <2>4. p.sym \in Symbols
    BY <2>3 DEF Worker!Orders
  <2>5. m.avail[p.sym] = l.avail[p.sym]
    BY <2>2, <2>4 DEF Fills
  <2>6. /\ p.price = price[p.sym]
        /\ Worker!Sell(p) => l.avail[p.sym] = Unstated \/ -p.n <= l.avail[p.sym]
    BY <2>1 DEF Placed
  <2> HIDE DEF p
  <2> QED  BY <2>1, <2>5, <2>6
<1>6. Placed(rest, m, price)
  BY <1>2, <1>5 DEF Placed
<1>7. Buying(rest) => Buying(orders)
  BY <1>3 DEF Buying
<1> QED  BY <1>6, <1>7 DEF rest

\* The caps of a budget are integers.
LEMMA CapsType ==
  ASSUME WorkerConstants, WorkerInv
  PROVE  CycleCaps \subseteq Int
<1>1. TaskAmounts \subseteq Nat /\ TaskRatios \subseteq 0 .. 100 /\ cyc.equity \in Int
  BY WorkerFields DEF WorkerConstants, Worker!WorkerAssumption
<1>2. ASSUME NEW r \in TaskRatios  PROVE (cyc.equity * r) \div 100 \in Int
  BY <1>1
<1>3. ASSUME NEW cap \in CycleCaps  PROVE cap \in Int
  <2>1. cap \in TaskAmounts \/ \E r \in TaskRatios : cap = (cyc.equity * r) \div 100
    BY DEF CycleCaps
  <2>2. CASE cap \in TaskAmounts
    BY <1>1, <2>2
  <2>3. CASE \E r \in TaskRatios : cap = (cyc.equity * r) \div 100
    <3>1. PICK r \in TaskRatios : cap = (cyc.equity * r) \div 100
      BY <2>3
    <3> QED  BY <1>2, <3>1
  <2> QED  BY <2>1, <2>2, <2>3
<1> QED  BY <1>3

\* An order of the cycle, applied and recorded, keeps the invariant: a purchase
\* moves as much from the bill to the holdings.
LEMMA SubmitKeeps ==
  ASSUME WorkerConstants, WorkerInv, Worker!Submit
  PROVE  WorkerInv'
<1> DEFINE o == Head(cyc.orders)
           rest == Tail(cyc.orders)
           m == ledger'
<1>1. /\ at = "orders" /\ cyc.orders # <<>> /\ m = Worker!Booked(ledger, o)
      /\ fills' = [fills EXCEPT ![o.sym] = @ + o.n] /\ cyc' = [cyc EXCEPT !.orders = rest]
      /\ kind' = kind /\ opening' = opening /\ market' = market /\ slot' = slot /\ at' = at
      /\ peak' = peak /\ saved' = saved /\ top' = top /\ slips' = slips
  BY DEF Worker!Submit
<1>2. /\ o \in Worker!Orders /\ o.price = Worker!Price[o.sym]
      /\ AccountInv(m, Worker!Day(slot)) /\ m.day = Worker!Day(slot)
      /\ \/ m = ledger /\ ~Worker!Buy(o)
         \/ Fills(ledger, o, m)
      /\ o = cyc.orders[1] /\ 1 \in DOMAIN cyc.orders
  BY <1>1, FirstOrder
<1>3. /\ o.sym \in Symbols /\ o.n \in Int /\ o.price \in Nat \ {0}
      /\ (Worker!Buy(o) <=> o.n > 0) /\ o.price * o.n \in Int
  BY <1>2, OrderFields
<1>4. slot < Slots /\ Placed(cyc.orders, ledger, Worker!Price)
  BY <1>1 DEF WorkerInv, PlaceInv, OrdersInv
<1>5. ledger.avail \in [Symbols -> Nat \cup {Unstated}] /\ ledger.qty \in [Symbols -> Nat]
      /\ ledger.cash \in Int /\ ledger.fees \in Nat
  BY WorkerFields, LedgerFields
<1>6. Worker!Price' = Worker!Price
  BY <1>1 DEF Worker!Price
<1>7. cyc.orders \in Seq(Worker!Orders) /\ Distinct(cyc.orders) /\ cyc.equity \in Int
  BY <1>4, WorkerFields DEF Placed
<1>8. /\ rest \in Seq(Worker!Orders) /\ Distinct(rest)
      /\ Bill(rest) = Bill(cyc.orders) - Notional(o)
  BY <1>1, <1>7, BillTail
<1>9. Bill(rest) \in Int /\ Bill(cyc.orders) \in Int
  BY <1>7, <1>8, BillType
<1> HIDE DEF o, m
<1>10. Placed(rest, m, Worker!Price) /\ (Buying(rest) => Buying(cyc.orders))
  BY <1>1, <1>2, <1>4, <1>5, TailPlaced DEF o
<1> HIDE DEF rest
<1>11. cyc'.orders = rest /\ cyc'.equity = cyc.equity
       /\ cyc' \in [orders : Seq(Worker!Orders), equity : Int, failed : BOOLEAN]
  BY <1>1, <1>8 DEF WorkerInv, Worker!TypeOK
<1>12. Worker!TypeOK'
  <2>1. ledger' \in Worker!Ledgers
    BY <1>2 DEF AccountInv, m
  <2>2. fills' \in [Symbols -> Int]
    BY <1>1, <1>3, WorkerFields
  <2> QED  BY <1>1, <1>11, <2>1, <2>2 DEF WorkerInv, Worker!TypeOK
<1>13. PlaceInv' /\ DaysInv' /\ OrdersInv'
  <2>1. PlaceInv'
    BY <1>1, <1>2 DEF WorkerInv, PlaceInv, m
  <2>2. DaysInv'
    BY <1>1, <1>2 DEF WorkerInv, DaysInv, m
  <2>3. OrdersInv'
    BY <1>6, <1>10, <1>11 DEF OrdersInv, m
  <2> QED  BY <2>1, <2>2, <2>3
<1>14. HaltInv'
  <2>1. Worker!Breached(top, cyc.equity)' <=> Worker!Breached(top, cyc.equity)
    BY <1>1, <1>11 DEF Worker!Breached
  <2> QED  BY <1>1, <1>10, <1>11, <2>1 DEF WorkerInv, HaltInv
<1>15. ASSUME Buying(rest)
       PROVE  /\ Bill(cyc.orders) <= ledger.cash + ledger.fees
              /\ (\A t \in Symbols : fills[t] >= ledger.qty[t]) =>
                   \A cap \in CycleCaps : Held(ledger) + Bill(cyc.orders) <= cap
  BY <1>1, <1>10, <1>15 DEF WorkerInv, BudgetInv
<1>16. CycleCaps' = CycleCaps
  BY <1>11 DEF CycleCaps
<1>17. CycleCaps \subseteq Int
  BY CapsType
<1>18. Held(ledger) \in Int
  BY <1>4, UsageIs DEF WorkerInv
<1>19. Held(ledger)' = Held(m)
  BY <1>6 DEF Held, m
<1>20. BudgetInv'
  <2>1. CASE m = ledger /\ ~Worker!Buy(o)
    <3>1. Bill(rest) = Bill(cyc.orders)
      BY <1>8, <1>9, <2>1 DEF Notional
    <3>2. ASSUME \A t \in Symbols : fills'[t] >= m.qty[t]
          PROVE  \A t \in Symbols : fills[t] >= ledger.qty[t]
      <4>1. ASSUME NEW t \in Symbols  PROVE fills[t] >= fills'[t]
        <5>1. fills \in [Symbols -> Int] /\ o.n <= 0
          BY <1>3, <2>1, WorkerFields
        <5>2. fills'[t] = IF t = o.sym THEN fills[t] + o.n ELSE fills[t]
          BY <1>1, <5>1
        <5> QED  BY <1>3, <5>1, <5>2
      <4>2. ASSUME NEW t \in Symbols  PROVE fills[t] >= ledger.qty[t]
        <5>1. fills[t] \in Int /\ ledger.qty[t] \in Int /\ fills'[t] \in Int
          <6>1. fills \in [Symbols -> Int]
            BY WorkerFields
          <6> QED  BY <1>1, <1>3, <1>5, <6>1
        <5>2. fills'[t] >= ledger.qty[t]
          BY <2>1, <3>2
        <5> QED  BY <4>1, <5>1, <5>2
      <4> QED  BY <4>2
    <3>3. m.cash = ledger.cash /\ m.fees = ledger.fees /\ Held(m) = Held(ledger)
      BY <2>1
    <3> QED  BY <1>1, <1>11, <1>15, <1>16, <1>19, <3>1, <3>2, <3>3 DEF BudgetInv, m
  <2>2. CASE Fills(ledger, o, m)
    <3> DEFINE paid == o.price * o.n
    <3>1. m \in Worker!Ledgers /\ m.cash \in Int /\ m.fees \in Nat
      BY <1>2, LedgerFields DEF AccountInv
    <3>2. Held(m) = Held(ledger) + paid
      BY <1>2, <1>4, <2>2, <3>1, HeldAfter
    <3>3. m.cash + m.fees = ledger.cash + ledger.fees - paid
          /\ m.qty = [ledger.qty EXCEPT ![o.sym] = @ + o.n]
      BY <2>2 DEF Fills
    <3>4. paid \in Int /\ paid <= Notional(o) /\ Notional(o) \in Int
      <4>1. CASE Worker!Buy(o)
        BY <1>3, <4>1 DEF Notional
      <4>2. CASE ~Worker!Buy(o)
        <5>1. o.n <= 0
          BY <1>3, <4>2
        <5>2. paid <= 0
          BY <1>3, <5>1
        <5> QED  BY <1>3, <4>2, <5>2 DEF Notional
      <4> QED  BY <4>1, <4>2
    <3> HIDE DEF paid
    <3>5. Bill(cyc.orders) <= ledger.cash + ledger.fees => Bill(rest) <= m.cash + m.fees
      BY <1>5, <1>8, <1>9, <3>1, <3>3, <3>4
    <3>6. ASSUME \A t \in Symbols : fills'[t] >= m.qty[t]
          PROVE  \A t \in Symbols : fills[t] >= ledger.qty[t]
      <4>1. ASSUME NEW t \in Symbols  PROVE fills[t] >= ledger.qty[t]
        <5>1. fills \in [Symbols -> Int]
          BY WorkerFields
        <5>2. fills'[t] >= m.qty[t]
          BY <3>6
        <5>3. fills'[t] = IF t = o.sym THEN fills[t] + o.n ELSE fills[t]
          BY <1>1, <5>1
        <5>4. m.qty[t] = IF t = o.sym THEN ledger.qty[t] + o.n ELSE ledger.qty[t]
          BY <1>5, <3>3
        <5> QED  BY <1>3, <1>5, <5>1, <5>2, <5>3, <5>4
      <4> QED  BY <4>1
    <3>7. ASSUME NEW cap \in CycleCaps, Held(ledger) + Bill(cyc.orders) <= cap
          PROVE  Held(m) + Bill(rest) <= cap
      <4>1. cap \in Int
        BY <1>17
      <4> QED  BY <1>8, <1>9, <1>18, <3>2, <3>4, <3>7, <4>1
    <3> QED  BY <1>1, <1>11, <1>15, <1>16, <1>19, <3>5, <3>6, <3>7 DEF BudgetInv, m
  <2> QED  BY <1>2, <2>1, <2>2
<1> QED  BY <1>12, <1>13, <1>14, <1>20 DEF WorkerInv

\* A record that cannot be written leaves the account changed, and the invariant.
LEMMA RecordFailsKeeps ==
  ASSUME WorkerConstants, WorkerInv, Worker!RecordFails
  PROVE  WorkerInv'
<1>1. /\ at = "orders" /\ cyc.orders # <<>>
      /\ ledger' = Worker!Booked(ledger, Head(cyc.orders)) /\ cyc' = Worker!Resting
      /\ IF kind = "backtest" THEN at' = "over" /\ slot' = slot
         ELSE at' = "idle" /\ slot' = slot + 1
      /\ kind' = kind /\ opening' = opening /\ market' = market /\ peak' = peak
      /\ saved' = saved /\ fills' = fills /\ top' = top
      /\ slips < MaxSlips /\ slips' = slips + 1
  BY DEF Worker!RecordFails, Worker!Fault
<1>2. AccountInv(ledger', Worker!Day(slot))
  BY <1>1, FirstOrder
<1>3. slot < Slots /\ slot \in Nat /\ Slots \in Nat /\ kind \in {"paper", "backtest"}
      /\ slips \in 0 .. MaxSlips /\ MaxSlips \in Nat
  BY <1>1, WorkerFields
     DEF WorkerInv, PlaceInv, Worker!TypeOK, WorkerConstants, Worker!WorkerAssumption
<1>4. AccountInv(ledger', Worker!Day(slot'))
  <2>1. slot' = slot \/ slot' = slot + 1
    BY <1>1
  <2>2. Worker!Day(slot) \in Nat /\ Worker!Day(slot + 1) \in Nat
        /\ Worker!Day(slot) <= Worker!Day(slot + 1)
    <3> DEFINE next == slot + 1
    <3>1. next \in Nat /\ slot <= next
      BY <1>3
    <3> HIDE DEF next
    <3>2. Worker!Day(slot) \in Nat /\ Worker!Day(next) \in Nat
          /\ Worker!Day(slot) <= Worker!Day(next)
      BY <1>3, <3>1, DayIs
    <3> QED  BY <3>2 DEF next
  <2> QED  BY <1>2, <2>1, <2>2, LaterDay
<1>5. Worker!TypeOK'
  <2>1. cyc' \in [orders : Seq(Worker!Orders), equity : Int, failed : BOOLEAN]
    BY <1>1 DEF Worker!Resting
  <2>2. slot' \in 0 .. Slots /\ at' \in {"idle", "over"}
    BY <1>1, <1>3
  <2>3. slips' \in 0 .. MaxSlips
    BY <1>1, <1>3
  <2> QED  BY <1>1, <1>2, <2>1, <2>2, <2>3 DEF WorkerInv, Worker!TypeOK, AccountInv
<1>6. PlaceInv'
  BY <1>1, <1>3 DEF WorkerInv, PlaceInv
<1>7. DaysInv'
  BY <1>1, <1>4 DEF WorkerInv, DaysInv
<1>8. OrdersInv' /\ HaltInv' /\ BudgetInv'
  BY <1>1 DEF WorkerInv, OrdersInv, HaltInv, BudgetInv
<1> QED  BY <1>5, <1>6, <1>7, <1>8 DEF WorkerInv

\* A later slot is on no earlier day.
LEMMA NextDay ==
  ASSUME WorkerConstants, NEW l, NEW n \in Nat, AccountInv(l, Worker!Day(n))
  PROVE  AccountInv(l, Worker!Day(n + 1))
<1> DEFINE next == n + 1
<1>1. next \in Nat /\ n <= next
  OBVIOUS
<1> HIDE DEF next
<1>2. Worker!Day(n) \in Nat /\ Worker!Day(next) \in Nat /\ Worker!Day(n) <= Worker!Day(next)
  BY <1>1, DayIs
<1>3. AccountInv(l, Worker!Day(next))
  BY <1>2, LaterDay
<1> QED  BY <1>3 DEF next

\* So do the steps that trade nothing.
LEMMA BetweenKeeps ==
  ASSUME WorkerConstants, WorkerInv,
         \/ Worker!CycleEnds \/ Worker!Progress \/ Worker!Checkpoint
         \/ Worker!TimePasses \/ Worker!Dropped \/ Worker!Rebuild
  PROVE  WorkerInv'
<1>1. /\ slot \in 0 .. Slots /\ slot \in Nat /\ Slots \in Nat /\ top <= peak
      /\ saved.bars \in 0 .. Slots /\ kind \in {"paper", "backtest"}
  BY WorkerFields DEF WorkerInv, Worker!TypeOK
<1>2. AccountInv(ledger, Worker!Day(slot))
      /\ (saved.ledger # None => AccountInv(saved.ledger, Worker!Day(saved.bars)))
  BY DEF WorkerInv, DaysInv
<1>3. AccountInv(ledger, Worker!Day(slot + 1))
  BY <1>1, <1>2, NextDay
<1>4. Worker!Resting \in [orders : Seq(Worker!Orders), equity : Int, failed : BOOLEAN]
  BY DEF Worker!Resting
<1>5. saved \in [bars : 0 .. Slots, ledger : Worker!Ledgers \cup {None}]
  BY DEF WorkerInv, Worker!TypeOK
<1>6. ASSUME at' # "orders", top' <= peak'  PROVE OrdersInv' /\ HaltInv' /\ BudgetInv'
  BY <1>6 DEF OrdersInv, HaltInv, BudgetInv
<1>7. CASE Worker!CycleEnds
  <2>1. /\ at = "orders" /\ cyc.orders = <<>>
        /\ IF kind = "backtest" THEN at' = "progress" /\ slot' = slot /\ cyc' = cyc
           ELSE at' = "idle" /\ slot' = slot + 1 /\ cyc' = Worker!Resting
        /\ kind' = kind /\ opening' = opening /\ market' = market /\ ledger' = ledger
        /\ peak' = peak /\ saved' = saved /\ fills' = fills /\ top' = top /\ slips' = slips
    BY <1>7 DEF Worker!CycleEnds
  <2>2. slot < Slots
    BY <2>1 DEF WorkerInv, PlaceInv
  <2>3. slot' \in 0 .. Slots /\ at' \in {"progress", "idle"}
        /\ cyc' \in [orders : Seq(Worker!Orders), equity : Int, failed : BOOLEAN]
    BY <1>1, <1>4, <2>1, <2>2 DEF WorkerInv, Worker!TypeOK
  <2>4. Worker!TypeOK'
    BY <2>1, <2>3 DEF WorkerInv, Worker!TypeOK
  <2>5. PlaceInv'
    BY <1>1, <2>1, <2>2 DEF WorkerInv, PlaceInv
  <2>6. DaysInv'
    BY <1>2, <1>3, <2>1 DEF DaysInv
  <2> QED  BY <1>1, <1>6, <2>1, <2>4, <2>5, <2>6 DEF WorkerInv
<1>8. CASE Worker!Progress
  <2>1. /\ at = "progress" /\ at' = "ledger" /\ saved' = [saved EXCEPT !.bars = slot + 1]
        /\ kind' = kind /\ opening' = opening /\ market' = market /\ slot' = slot
        /\ ledger' = ledger /\ peak' = peak /\ cyc' = cyc /\ fills' = fills /\ top' = top
        /\ slips' = slips
    BY <1>8 DEF Worker!Progress
  <2>2. slot < Slots /\ kind = "backtest" /\ saved.bars = slot
    BY <1>1, <2>1 DEF WorkerInv, PlaceInv
  <2>3. saved'.bars = slot + 1 /\ saved'.ledger = saved.ledger
        /\ saved' \in [bars : 0 .. Slots, ledger : Worker!Ledgers \cup {None}]
    BY <1>1, <1>5, <2>1, <2>2
  <2>4. Worker!TypeOK'
    BY <2>1, <2>3 DEF WorkerInv, Worker!TypeOK
  <2>5. PlaceInv'
    BY <1>1, <2>1, <2>2, <2>3 DEF PlaceInv
  <2>6. saved.ledger # None => AccountInv(saved.ledger, Worker!Day(slot + 1))
    BY <1>1, <1>2, <2>2, NextDay
  <2>7. DaysInv'
    BY <1>2, <2>1, <2>3, <2>6 DEF DaysInv
  <2> QED  BY <1>1, <1>6, <2>1, <2>4, <2>5, <2>7 DEF WorkerInv
<1>9. CASE Worker!Checkpoint
  <2>1. /\ at = "ledger" /\ saved' = [saved EXCEPT !.ledger = ledger]
        /\ at' = (IF cyc.failed \/ slot + 1 = Slots THEN "over" ELSE "idle")
        /\ slot' = slot + 1 /\ cyc' = Worker!Resting
        /\ kind' = kind /\ opening' = opening /\ market' = market /\ ledger' = ledger
        /\ peak' = peak /\ fills' = fills /\ top' = top /\ slips' = slips
    BY <1>9 DEF Worker!Checkpoint
  <2>2. slot < Slots /\ kind = "backtest" /\ saved.bars = slot + 1
    BY <1>1, <2>1 DEF WorkerInv, PlaceInv
  <2>3. ledger \in Worker!Ledgers
    BY WorkerFields
  <2>4. saved'.bars = slot + 1 /\ saved'.ledger = ledger
        /\ saved' \in [bars : 0 .. Slots, ledger : Worker!Ledgers \cup {None}]
    BY <1>5, <2>1, <2>2, <2>3
  <2>5. at' \in {"over", "idle"} /\ slot' \in 0 .. Slots
    BY <1>1, <2>1, <2>2
  <2>6. Worker!TypeOK'
    BY <1>4, <2>1, <2>4, <2>5 DEF WorkerInv, Worker!TypeOK
  <2>7. PlaceInv'
    BY <2>1, <2>2, <2>4, <2>5 DEF PlaceInv
  <2>8. DaysInv'
    BY <1>3, <2>1, <2>4 DEF DaysInv
  <2> QED  BY <1>1, <1>6, <2>1, <2>5, <2>6, <2>7, <2>8 DEF WorkerInv
<1>10. CASE Worker!TimePasses
  <2>1. /\ kind = "paper" /\ at = "idle" /\ slot < Slots /\ slot' = slot + 1
        /\ kind' = kind /\ opening' = opening /\ market' = market /\ at' = at
        /\ ledger' = ledger /\ peak' = peak /\ cyc' = cyc /\ saved' = saved
        /\ fills' = fills /\ top' = top /\ slips' = slips
    BY <1>10 DEF Worker!TimePasses
  <2>2. slot' \in 0 .. Slots
    BY <1>1, <2>1
  <2>3. Worker!TypeOK'
    BY <2>1, <2>2 DEF WorkerInv, Worker!TypeOK
  <2>4. PlaceInv'
    BY <2>1 DEF WorkerInv, PlaceInv
  <2>5. DaysInv'
    BY <1>2, <1>3, <2>1 DEF DaysInv
  <2> QED  BY <1>1, <1>6, <2>1, <2>3, <2>4, <2>5 DEF WorkerInv
<1>11. CASE Worker!Dropped
  <2>1. /\ slips < MaxSlips /\ slips' = slips + 1 /\ at' = "down" /\ cyc' = Worker!Resting
        /\ kind' = kind /\ opening' = opening /\ market' = market /\ slot' = slot
        /\ ledger' = ledger /\ peak' = peak /\ saved' = saved /\ fills' = fills /\ top' = top
    BY <1>11 DEF Worker!Dropped, Worker!Fault
  <2>2. slips' \in 0 .. MaxSlips
    BY <2>1 DEF WorkerInv, Worker!TypeOK, WorkerConstants, Worker!WorkerAssumption
  <2>3. Worker!TypeOK'
    BY <1>4, <2>1, <2>2 DEF WorkerInv, Worker!TypeOK
  <2>4. PlaceInv'
    BY <2>1 DEF WorkerInv, PlaceInv
  <2>5. DaysInv'
    BY <1>2, <2>1 DEF DaysInv
  <2> QED  BY <1>1, <1>6, <2>1, <2>3, <2>4, <2>5 DEF WorkerInv
<1>12. CASE Worker!Rebuild
  <2>1. /\ at = "down" /\ ledger' = Worker!Reloaded /\ peak' = 0 /\ top' = 0
        /\ slot' = (IF kind = "backtest" THEN saved.bars ELSE slot)
        /\ at' = (IF kind = "backtest" /\ saved.bars = Slots THEN "over" ELSE "idle")
        /\ kind' = kind /\ opening' = opening /\ market' = market /\ cyc' = cyc
        /\ saved' = saved /\ fills' = fills /\ slips' = slips
    BY <1>12 DEF Worker!Rebuild
  <2>2. slot' \in 0 .. Slots /\ slot' \in Nat /\ at' \in {"over", "idle"}
    BY <1>1, <2>1
  <2>3. Worker!Day(slot') \in Nat
    BY <2>2, DayIs
  <2>4. AccountInv(ledger', Worker!Day(slot'))
    <3>1. CASE saved.ledger # None
      <4>1. kind = "backtest"
        BY <1>1, <3>1 DEF WorkerInv, PlaceInv
      <4> QED  BY <1>2, <2>1, <3>1, <4>1 DEF Worker!Reloaded
    <3>2. CASE saved.ledger = None
      <4>1. ledger' = Worker!Opened(opening)
        BY <2>1, <3>2 DEF Worker!Reloaded
      <4>2. opening \in Openings
        BY WorkerFields
      <4> QED  BY <2>3, <4>1, <4>2, OpenedIs
    <3> QED  BY <3>1, <3>2
  <2>5. Worker!TypeOK'
    BY <2>1, <2>2, <2>4 DEF WorkerInv, Worker!TypeOK, AccountInv
  <2>6. PlaceInv'
    BY <1>1, <2>1 DEF WorkerInv, PlaceInv
  <2>7. DaysInv'
    BY <1>2, <2>1, <2>4 DEF DaysInv
  <2> QED  BY <1>6, <2>1, <2>2, <2>5, <2>6, <2>7 DEF WorkerInv
<1> QED  BY <1>7, <1>8, <1>9, <1>10, <1>11, <1>12

\* Every step keeps the invariant.
LEMMA WorkerNext ==
  ASSUME WorkerConstants, WorkerInv, [Worker!Next]_(Worker!vars)
  PROVE  WorkerInv'
<1>1. CASE \E signals \in Signals : Worker!Cycle(signals)
  BY <1>1, CycleKeeps
<1>2. CASE Worker!CutShort
  BY <1>2, CutShortKeeps
<1>3. CASE Worker!Submit
  BY <1>3, SubmitKeeps
<1>4. CASE Worker!RecordFails
  BY <1>4, RecordFailsKeeps
<1>5. CASE \/ Worker!CycleEnds \/ Worker!Progress \/ Worker!Checkpoint
           \/ Worker!TimePasses \/ Worker!Dropped \/ Worker!Rebuild
  BY <1>5, BetweenKeeps
<1>6. CASE UNCHANGED Worker!vars
  <2>1. /\ kind' = kind /\ opening' = opening /\ market' = market /\ slot' = slot /\ at' = at
        /\ ledger' = ledger /\ peak' = peak /\ cyc' = cyc /\ saved' = saved
        /\ fills' = fills /\ top' = top /\ slips' = slips
    BY <1>6 DEF Worker!vars
  <2>2. Worker!Price' = Worker!Price
    BY <2>1 DEF Worker!Price
  <2>3. Worker!TypeOK'
    BY <2>1 DEF WorkerInv, Worker!TypeOK
  <2>4. PlaceInv' /\ DaysInv'
    BY <2>1 DEF WorkerInv, PlaceInv, DaysInv
  <2>5. OrdersInv' /\ HaltInv'
    BY <2>1, <2>2 DEF WorkerInv, OrdersInv, HaltInv, Worker!Breached
  <2>6. BudgetInv'
    <3>1. Held(ledger)' = Held(ledger) /\ CycleCaps' = CycleCaps
      BY <2>1, <2>2 DEF Held, CycleCaps
    <3> QED  BY <2>1, <3>1 DEF WorkerInv, BudgetInv
  <2> QED  BY <2>3, <2>4, <2>5, <2>6 DEF WorkerInv
<1> QED  BY <1>1, <1>2, <1>3, <1>4, <1>5, <1>6 DEF Worker!Next

\* The invariant holds in every state of a worker, and its states are typed.
THEOREM WorkerInvariant ==
  ASSUME WorkerConstants
  PROVE  Worker!Spec => [](WorkerInv /\ Worker!TypeOK)
<1>1. Worker!Init => WorkerInv
  BY WorkerInit
<1>2. WorkerInv /\ [Worker!Next]_(Worker!vars) => WorkerInv'
  BY WorkerNext
<1>3. WorkerInv => Worker!TypeOK
  BY DEF WorkerInv
<1> QED  BY <1>1, <1>2, <1>3, PTL DEF Worker!Spec

-----------------------------------------------------------------------------
(* What the worker promises.                                               *)

\* The worker's days, prices, limit and sums are those of the promise.
LEMMA Promised ==
  /\ Worker!Price = Price
  /\ \A n : Worker!Day(n) = Day(n)
  /\ \A high, equity : Worker!Breached(high, equity) <=> Breached(high, equity)
  /\ \A l, mark : Worker!Equity(l, mark) = Equity(l, mark)
<1>1. ASSUME NEW l, NEW mark  PROVE Worker!Equity(l, mark) = Equity(l, mark)
  BY DEF Worker!Equity, Equity, Worker!SumFunction, SumFunction, Worker!SumFunctionOnSet,
         SumFunctionOnSet, Worker!FoldFunctionOnSet, FoldFunctionOnSet, Worker!MapThenFoldSet,
         MapThenFoldSet
<1> QED  BY <1>1 DEF Worker!Price, Price, Worker!Day, Day, Worker!Breached, Breached

\* Shares bought on a trading day are held until it ends, for every market, every
\* strategy and every plan of crashes.
THEOREM WorkerKeepsT1 ==
  ASSUME WorkerConstants
  PROVE  Worker!Spec => []T1Holds
<1>1. WorkerInv => T1Holds
  <2> SUFFICES ASSUME WorkerInv, ledger.bought.day = Worker!Day(slot), NEW s \in Symbols
               PROVE  ledger.qty[s] >= ledger.bought.n[s]
    BY Promised DEF T1Holds
  <2>1. /\ ledger.bought.day <= ledger.day /\ ledger.day <= Worker!Day(slot)
        /\ Worker!AvailableInt(ledger, s)
             + (IF ledger.bought.day = ledger.day THEN ledger.bought.n[s] ELSE 0)
           <= ledger.qty[s]
    BY DEF WorkerInv, DaysInv, AccountInv
  <2>2. /\ ledger.day \in Nat /\ Worker!Day(slot) \in Nat /\ ledger.qty[s] \in Nat
        /\ ledger.bought.n[s] \in Nat /\ Worker!AvailableInt(ledger, s) \in Nat
    BY WorkerFields, LedgerFields
  <2>3. ledger.bought.day = ledger.day
    BY <2>1, <2>2
  <2> QED  BY <2>1, <2>2, <2>3
<1> QED  BY <1>1, WorkerInvariant, PTL

\* Only an order moves the holdings of a cycle under way.
LEMMA Trades ==
  ASSUME WorkerConstants, WorkerInv, [Worker!Next]_(Worker!vars), at = "orders",
         NEW s \in Symbols, ledger'.qty[s] > ledger.qty[s]
  PROVE  LET o == Head(cyc.orders)
         IN  /\ cyc.orders # <<>> /\ Worker!Buy(o) /\ Buying(cyc.orders)
             /\ Fills(ledger, o, ledger') /\ o \in Worker!Orders
             /\ o.price = Worker!Price[o.sym] /\ ledger' \in Worker!Ledgers
<1> DEFINE o == Head(cyc.orders)
<1>1. ledger.qty \in [Symbols -> Nat]
  BY WorkerFields, LedgerFields
<1>2. ledger' # ledger
  BY <1>1
<1>3. Worker!Submit \/ Worker!RecordFails
  <2>1. ~\E signals \in Signals : Worker!Cycle(signals)
    BY DEF Worker!Cycle, Worker!Begin
  <2>2. ~Worker!CutShort
    BY DEF Worker!CutShort, Worker!Begin
  <2>3. ~Worker!CycleEnds /\ ~Worker!Progress /\ ~Worker!Checkpoint /\ ~Worker!TimePasses
        /\ ~Worker!Dropped
    BY <1>2 DEF Worker!CycleEnds, Worker!Progress, Worker!Checkpoint, Worker!TimePasses,
                Worker!Dropped
  <2>4. ~Worker!Rebuild
    BY DEF Worker!Rebuild
  <2>5. ~UNCHANGED Worker!vars
    BY <1>2 DEF Worker!vars
  <2> QED  BY <2>1, <2>2, <2>3, <2>4, <2>5 DEF Worker!Next
<1>4. cyc.orders # <<>> /\ ledger' = Worker!Booked(ledger, o)
  BY <1>3 DEF Worker!Submit, Worker!RecordFails
<1>5. /\ o \in Worker!Orders /\ o = cyc.orders[1] /\ 1 \in DOMAIN cyc.orders
      /\ o.price = Worker!Price[o.sym] /\ AccountInv(ledger', Worker!Day(slot))
      /\ (ledger' = ledger \/ Fills(ledger, o, ledger'))
  BY <1>4, FirstOrder
<1> HIDE DEF o
<1>6. Fills(ledger, o, ledger')
  BY <1>2, <1>5
<1>7. o.n > 0
  <2>1. ledger'.qty[s] = IF s = o.sym THEN ledger.qty[s] + o.n ELSE ledger.qty[s]
    BY <1>1, <1>6 DEF Fills
  <2>2. o.n \in Int
    BY <1>5, OrderFields
  <2> QED  BY <1>1, <2>1, <2>2
<1>8. Worker!Buy(o)
  BY <1>5, <1>7, OrderFields
<1> QED  BY <1>4, <1>5, <1>6, <1>8 DEF AccountInv, Buying, o

\* A purchase is paid from cash, and within the budget where the records cover what is
\* held.
THEOREM WorkerBuysWithinLimits ==
  ASSUME WorkerConstants
  PROVE  Worker!Spec => BuysWithinLimits
<1> DEFINE Within ==
             \A s \in Symbols : (at = "orders" /\ ledger'.qty[s] > ledger.qty[s]) =>
               /\ ledger'.cash + ledger'.fees >= 0
               /\ (\A t \in Symbols : fills[t] >= ledger.qty[t]) =>
                    \A cap \in TaskAmounts \cup {(cyc.equity * r) \div 100 : r \in TaskRatios} :
                      Equity([ledger' EXCEPT !.cash = 0], Price) <= cap
<1>1. ASSUME WorkerInv, [Worker!Next]_(Worker!vars)  PROVE Within
  <2> SUFFICES ASSUME NEW s \in Symbols, at = "orders", ledger'.qty[s] > ledger.qty[s]
               PROVE  /\ ledger'.cash + ledger'.fees >= 0
                      /\ (\A t \in Symbols : fills[t] >= ledger.qty[t]) =>
                           \A cap \in CycleCaps :
                             Worker!Equity([ledger' EXCEPT !.cash = 0], Worker!Price) <= cap
    BY Promised DEF CycleCaps
  <2> DEFINE o == Head(cyc.orders)
             m == ledger'
             paid == o.price * o.n
             rest == Bill(Tail(cyc.orders))
             all == Bill(cyc.orders)
  <2>1. /\ cyc.orders # <<>> /\ Worker!Buy(o) /\ Buying(cyc.orders)
        /\ Fills(ledger, o, m) /\ o \in Worker!Orders
        /\ o.price = Worker!Price[o.sym] /\ m \in Worker!Ledgers
    BY <1>1, Trades
  <2>2. slot < Slots /\ Distinct(cyc.orders) /\ cyc.orders \in Seq(Worker!Orders)
    BY <1>1 DEF WorkerInv, PlaceInv, OrdersInv, Placed
  <2>3. rest = all - paid /\ paid = Notional(o)
    BY <2>1, <2>2, BillTail DEF Notional
  <2>4. rest \in Int /\ all \in Int /\ rest >= 0
    <3>1. Tail(cyc.orders) \in Seq(Worker!Orders) /\ Distinct(Tail(cyc.orders))
      BY <2>1, <2>2, BillTail
    <3> QED  BY <2>2, <3>1, BillType
  <2>5. o.price \in Int /\ o.n \in Int
    BY <2>1, OrderFields
  <2>6. paid \in Int
    BY <2>5
  <2>7. /\ all <= ledger.cash + ledger.fees
        /\ (\A t \in Symbols : fills[t] >= ledger.qty[t]) =>
             \A cap \in CycleCaps : Held(ledger) + all <= cap
    BY <1>1, <2>1 DEF WorkerInv, BudgetInv
  <2>8. m.cash + m.fees = ledger.cash + ledger.fees - paid
    BY <2>1 DEF Fills
  <2>9. /\ ledger.cash \in Int /\ ledger.fees \in Int /\ m.cash \in Int /\ m.fees \in Int
    <3>1. ledger \in Worker!Ledgers
      BY <1>1, WorkerFields
    <3>2. ledger.cash \in Int /\ ledger.fees \in Int
      BY <3>1, LedgerFields
    <3> HIDE DEF m
    <3>3. m.cash \in Int /\ m.fees \in Int
      BY <2>1, LedgerFields
    <3> QED  BY <3>2, <3>3
  <2>10. Held(m) = Held(ledger) + paid
    BY <1>1, <2>1, <2>2, HeldAfter
  <2>11. Held(ledger) \in Int
    BY <1>1, <2>2, UsageIs DEF WorkerInv
  <2>12. Worker!Equity([m EXCEPT !.cash = 0], Worker!Price) = Held(m)
    <3> DEFINE e == [m EXCEPT !.cash = 0]
    <3>1. e.cash = 0 /\ e.qty = m.qty
      BY <2>1 DEF Worker!Ledgers
    <3>2. Worker!Equity(e, Worker!Price) = 0 + Held(m)
      BY <3>1 DEF Worker!Equity, Held
    <3> QED  BY <2>6, <2>10, <2>11, <3>2
  <2> HIDE DEF paid, rest, all, m, o
  <2>13. m.cash + m.fees >= 0
    BY <2>3, <2>4, <2>6, <2>7, <2>8, <2>9
  <2>14. ASSUME NEW cap \in CycleCaps, Held(ledger) + all <= cap
         PROVE  Held(m) <= cap
    <3>1. cap \in Int
      BY <1>1, CapsType
    <3> QED  BY <2>3, <2>4, <2>6, <2>10, <2>11, <2>14, <3>1
  <2> QED  BY <2>7, <2>12, <2>13, <2>14 DEF m
<1>2. WorkerInv /\ [Worker!Next]_(Worker!vars) => [Within]_seen
  BY <1>1
<1> QED  BY <1>2, WorkerInvariant, PTL DEF Worker!Spec, BuysWithinLimits

\* A cycle that began below the limit from an earlier one buys nothing.
THEOREM WorkerHaltHolds ==
  ASSUME WorkerConstants
  PROVE  Worker!Spec => HaltHolds
<1> DEFINE Halted ==
             \A s \in Symbols :
               (at = "orders" /\ Breached(top, cyc.equity)) =>
                 ledger'.qty[s] <= ledger.qty[s]
<1>1. ASSUME WorkerInv, [Worker!Next]_(Worker!vars)  PROVE [Halted]_seen
  <2>1. CASE UNCHANGED Worker!vars
    BY <2>1 DEF Worker!vars, seen
  <2>2. CASE Worker!Next
    <3> SUFFICES ASSUME NEW s \in Symbols, at = "orders", Worker!Breached(top, cyc.equity)
                 PROVE  ledger'.qty[s] <= ledger.qty[s]
      BY Promised
    <3>1. ~Buying(cyc.orders)
      BY <1>1 DEF WorkerInv, HaltInv
    <3>2. ~(ledger'.qty[s] > ledger.qty[s])
      BY <1>1, <3>1, Trades
    <3>3. ledger'.qty \in [Symbols -> Nat] /\ ledger.qty \in [Symbols -> Nat]
      BY <1>1, WorkerNext, LedgerFields DEF WorkerInv, Worker!TypeOK
    <3>4. ledger'.qty[s] \in Nat /\ ledger.qty[s] \in Nat
      BY <3>3
    <3> HIDE DEF Halted
    <3> QED  BY <3>2, <3>4
  <2> QED  BY <1>1, <2>1, <2>2
<1>2. WorkerInv /\ [Worker!Next]_(Worker!vars) => [Halted]_seen
  BY <1>1
<1> QED  BY <1>2, WorkerInvariant, PTL DEF Worker!Spec, HaltHolds

\* Records and holdings move together, but for a refused sale of a position whose
\* availability the settings leave open, the order whose record failed and ended the
\* cycle, and a worker that takes up another ledger.
THEOREM WorkerFillsReachLedger ==
  ASSUME WorkerConstants
  PROVE  Worker!Spec => FillsReachLedger
<1> DEFINE Apart(s) == ledger'.qty[s] - ledger.qty[s] # fills'[s] - fills[s]
           Excused(s) == \/ fills'[s] < fills[s] /\ ledger.avail[s] = Unstated
                         \/ at = "orders" /\ at' # "orders" /\ fills' = fills
                         \/ at = "down"
           Together == \A s \in Symbols : Apart(s) => Excused(s)
<1>1. ASSUME WorkerInv, [Worker!Next]_(Worker!vars)  PROVE Together
  <2> SUFFICES ASSUME NEW s \in Symbols PROVE Apart(s) => Excused(s)
    OBVIOUS
  <2>1. fills \in [Symbols -> Int] /\ ledger.qty \in [Symbols -> Nat]
    BY <1>1, WorkerFields, LedgerFields
  <2>2. fills[s] \in Int /\ ledger.qty[s] \in Int
    BY <2>1
  <2>3. ASSUME ledger'.qty = ledger.qty, fills' = fills PROVE ~Apart(s)
    BY <2>2, <2>3
  <2>4. CASE Worker!Begin
    <3>1. ledger'.qty = ledger.qty /\ fills' = fills
      BY <1>1, <2>4, BeginKeeps DEF Alike, Worker!Begin
    <3> QED  BY <2>3, <3>1
  <2>5. CASE Worker!Submit
    <3> DEFINE o == Head(cyc.orders)
    <3>1. at = "orders" /\ cyc.orders # <<>> /\ ledger' = Worker!Booked(ledger, o)
          /\ fills' = [fills EXCEPT ![o.sym] = @ + o.n]
      BY <2>5 DEF Worker!Submit
    <3>2. /\ o \in Worker!Orders
          /\ \/ ledger' = ledger /\ ~Worker!Buy(o) /\ ledger.avail[o.sym] = Unstated
             \/ Fills(ledger, o, ledger')
      BY <1>1, <3>1, FirstOrder
    <3>3. o.n \in Int /\ o.n # 0 /\ (Worker!Buy(o) <=> o.n > 0)
      BY <3>2, OrderFields
    <3> HIDE DEF o
    <3>4. fills'[s] = IF s = o.sym THEN fills[s] + o.n ELSE fills[s]
      BY <2>1, <3>1
    <3>5. CASE ledger' = ledger /\ ~Worker!Buy(o) /\ ledger.avail[o.sym] = Unstated
      <4>1. CASE s = o.sym
        <5>1. fills'[s] < fills[s]
          BY <2>2, <3>3, <3>4, <3>5, <4>1
        <5> QED  BY <3>5, <4>1, <5>1
      <4>2. CASE s # o.sym
        BY <2>2, <3>4, <3>5, <4>2
      <4> QED  BY <4>1, <4>2
    <3>6. CASE Fills(ledger, o, ledger')
      <4>1. ledger'.qty[s] = IF s = o.sym THEN ledger.qty[s] + o.n ELSE ledger.qty[s]
        BY <2>1, <3>6 DEF Fills
      <4> QED  BY <2>2, <3>3, <3>4, <4>1
    <3> QED  BY <3>2, <3>5, <3>6
  <2>6. CASE Worker!RecordFails
    <3>1. at = "orders" /\ at' # "orders" /\ fills' = fills
      BY <2>6 DEF Worker!RecordFails
    <3> QED  BY <3>1
  <2>7. CASE Worker!Rebuild
    BY <2>7 DEF Worker!Rebuild
  <2>8. CASE ledger' = ledger /\ fills' = fills
    BY <2>3, <2>8
  <2> HIDE DEF Apart, Excused
  <2> QED  BY <1>1, <2>4, <2>5, <2>6, <2>7, <2>8
           DEF Worker!Next, Worker!vars, Worker!Cycle, Worker!CutShort, Worker!CycleEnds,
               Worker!Progress, Worker!Checkpoint, Worker!TimePasses, Worker!Dropped
<1>2. WorkerInv /\ [Worker!Next]_(Worker!vars) => [Together]_seen
  BY <1>1
<1> QED  BY <1>2, WorkerInvariant, PTL DEF Worker!Spec, FillsReachLedger

=============================================================================
